----------------------------- MODULE FileSearch -----------------------------
(***************************************************************************)
(* Which files jcunit reads (fetch_sources of application.c over           *)
(* fs_read_dir of fs.c): files named by an argument, and the .test files   *)
(* below the directories that are; those below ./tests when there are      *)
(* none.  The names of a directory come in any order.                      *)
(*                                                                         *)
(* A path is the sequence of its names.  A file may vanish at any time.    *)
(***************************************************************************)
EXTENDS Naturals, Sequences, FiniteSets

CONSTANTS
  Options,       \* arguments that begin with "--"
  Target(_),     \* what another argument leads to: a path, links resolved
  DefaultTests,  \* default_tests_path, an argument
  TestNames,     \* names that end in ".test"
  Disks,         \* the file trees: a kind for each path there is
  Fleeting,      \* files that may vanish
  MaxPath,       \* PATH_MAX: longer paths cannot be opened
  MaxSources     \* SOURCES_CACHE_POS

Kinds == {"directory", "locked directory", "file", "link"}

ASSUME FileSearchAssumption ==
  /\ \A d \in Disks : \A p \in DOMAIN d : d[p] \in Kinds
  /\ MaxPath \in Nat /\ MaxSources \in Nat

\* What entries are called, but the directory itself and the one above it.
Names == STRING \ {".", ".."}

\* A tree is finite, a path leads through directories, and no name is "." or
\* "..".  Directories do not vanish.
ASSUME TreeAssumption ==
  \A d \in Disks :
    /\ IsFiniteSet(DOMAIN d)
    /\ \A p \in DOMAIN d :
         /\ p \in Seq(Names)
         /\ \A k \in 0..(Len(p) - 1) :
              /\ SubSeq(p, 1, k) \in DOMAIN d
              /\ d[SubSeq(p, 1, k)] \in {"directory", "locked directory"}
         /\ p \in Fleeting => d[p] \notin {"directory", "locked directory"}

VARIABLES
  disk,     \* the file tree
  gone,     \* the files that vanished
  argv,     \* the arguments
  search,   \* where fetch_sources is
  arg,      \* the argument it is at; behind them comes the default
  queue,    \* directories that fs_read_dir is still to read
  dir,      \* the directory it reads
  unread,   \* the entries readdir has not returned yet
  sources   \* sources, and sources_cache: the files that were found

searchVars == <<disk, gone, argv, search, arg, queue, dir, unread, sources>>
tree == <<disk, gone, argv>>

SearchInit ==
  /\ disk \in Disks /\ gone = {}
  /\ search = "argument" /\ arg = 1
  /\ queue = <<>> /\ dir = <<>> /\ unread = {}
  /\ sources = <<>>
-----------------------------------------------------------------------------
(* The file system (external).                                             *)

Exists(p) == p \in DOMAIN disk \ gone

\* A file is deleted by someone else.
Vanish ==
  /\ \E p \in Fleeting \cap DOMAIN disk : p \notin gone /\ gone' = gone \cup {p}
  /\ UNCHANGED <<disk, argv, search, arg, queue, dir, unread, sources>>

\* The path that p is without the names "." and "..".
Plain(p) ==
  LET f[k \in 0..Len(p)] ==
        IF k = 0 THEN <<>>
        ELSE IF p[k] = "." THEN f[k - 1]
        ELSE IF p[k] = ".." THEN SubSeq(f[k - 1], 1, Len(f[k - 1]) - 1)
        ELSE Append(f[k - 1], p[k])
  IN f[Len(p)]

Opens(p) == Len(p) <= MaxPath /\ Exists(Plain(p)) /\ disk[Plain(p)] = "directory"

\* The entries of a directory, each with its type.
Entries(p) ==
  LET inside == {q \in DOMAIN disk \ gone : q # <<>> /\ SubSeq(q, 1, Len(q) - 1) = Plain(p)}
  IN {[name |-> q[Len(q)], kind |-> disk[q]] : q \in inside}
       \cup {[name |-> n, kind |-> "directory"] : n \in {".", ".."}}

IsDir(p) == disk[p] \in {"directory", "locked directory"}
-----------------------------------------------------------------------------
(* fetch_one_source                                                        *)

Fails == search' = "fatal" /\ UNCHANGED <<tree, arg, queue, dir, unread, sources>>

Last(p) == \E i \in DOMAIN sources : i = Len(sources) /\ sources[i] = p   \* mutant

Known(p) == \E i \in DOMAIN sources : sources[i] = p

\* The list of known files is not checked to have room: when it has none,
\* what lies behind it is overwritten.
Overruns(p) ==
  /\ Exists(p) /\ ~Known(p) /\ Len(sources) >= MaxSources
  /\ search' = "crashed"
  /\ UNCHANGED <<tree, arg, queue, dir, unread, sources>>

Fetch(p) ==
  /\ Exists(p)
  /\ sources' = IF Known(p) THEN sources ELSE Append(sources, p)
-----------------------------------------------------------------------------
(* fetch_sources: the arguments.                                           *)

At(a) == search = "argument" /\ arg <= Len(argv) /\ argv[arg] = a

SameArg == arg         \* mutant: the loop does not go on

NextArg == arg + 1

SkipOption ==
  /\ \E a \in Options : At(a)
  /\ arg' = NextArg
  /\ UNCHANGED <<tree, search, queue, dir, unread, sources>>

StillNone == arg > Len(argv) /\ sources = <<>>   \* mutant: the default is tried again

NeverTried == FALSE   \* mutant: the default is not looked at

WithoutFiles == arg = Len(argv) + 1 /\ sources = <<>>

\* The next path to look at: that of an argument, or the default.
NextPath ==
  IF search = "argument" /\ arg <= Len(argv) /\ argv[arg] \notin Options THEN {Target(argv[arg])}
  ELSE IF search = "argument" /\ WithoutFiles THEN {Target(DefaultTests)}
  ELSE {}

\* There is no such path, or the default is not a directory.
NotThere ==
  /\ \E p \in NextPath : ~Exists(p) \/ (WithoutFiles /\ ~IsDir(p))
  /\ Fails

\* fs_read_dir begins.
EnterDirectory ==
  /\ \E p \in NextPath : Exists(p) /\ IsDir(p) /\ queue' = <<p>>
  /\ search' = "directory"
  /\ UNCHANGED <<tree, arg, dir, unread, sources>>

\* A file is taken whatever its name; it may be gone since its path was resolved.
FetchNamed ==
  /\ ~WithoutFiles
  /\ \E p \in NextPath :
       /\ p \in DOMAIN disk /\ ~IsDir(p)
       /\ \/ Fetch(p) /\ arg' = NextArg /\ UNCHANGED <<tree, search, queue, dir, unread>>
          \/ Overruns(p)

ArgumentsDone ==
  /\ search = "argument" /\ arg > Len(argv) /\ ~WithoutFiles
  /\ search' = "found"
  /\ UNCHANGED <<tree, arg, queue, dir, unread, sources>>
-----------------------------------------------------------------------------
(* fs_read_dir                                                             *)

OpenDirectory ==
  /\ search = "directory" /\ queue # <<>>
  /\ Opens(Head(queue))
  /\ dir' = Head(queue) /\ queue' = Tail(queue)
  /\ unread' = Entries(Head(queue))
  /\ search' = "entries"
  /\ UNCHANGED <<tree, arg, sources>>

CannotOpen ==
  /\ search = "directory" /\ queue # <<>> /\ ~Opens(Head(queue))
  /\ Fails

OnlySelf(n) == n = "."   \* mutant: ".." is gone into

Skipped(n) == n \in {".", ".."}

AnyFile(n) == TRUE   \* mutant

IsTest(n) == n \in TestNames

\* readdir: directories are put at the end of the queue, test files are
\* fetched, and everything else is passed over, links too.
ReadEntry ==
  /\ search = "entries"
  /\ \E e \in unread :
       LET p == Append(dir, e.name)
           enters  == e.kind \in {"directory", "locked directory"} /\ ~Skipped(e.name)
           fetches == e.kind = "file" /\ IsTest(e.name)
       IN \/ /\ unread' = unread \ {e}
             /\ queue' = IF enters THEN Append(queue, p) ELSE queue
             /\ IF fetches THEN Fetch(p) ELSE UNCHANGED sources
             /\ UNCHANGED <<tree, search, arg, dir>>
          \/ fetches /\ ~Exists(p) /\ Fails
          \/ fetches /\ Overruns(p)

CloseDirectory ==
  /\ search = "entries" /\ unread = {}
  /\ search' = "directory"
  /\ UNCHANGED <<tree, arg, queue, dir, unread, sources>>

\* The default comes last.
DirectoryDone ==
  /\ search = "directory" /\ queue = <<>>
  /\ search' = "argument"
  /\ arg' = arg + 1
  /\ UNCHANGED <<tree, queue, dir, unread, sources>>

FetchSources ==
  \/ SkipOption \/ NotThere \/ EnterDirectory \/ FetchNamed \/ ArgumentsDone
  \/ OpenDirectory \/ CannotOpen \/ ReadEntry \/ CloseDirectory \/ DirectoryDone
-----------------------------------------------------------------------------
Searching == search \in {"argument", "directory", "entries"}

SearchTypeOK ==
  /\ disk \in Disks /\ gone \subseteq Fleeting
  /\ search \in {"argument", "directory", "entries", "found", "fatal", "crashed"}
  /\ arg \in 1..(Len(argv) + 2)
  /\ \A i \in DOMAIN queue : IsDir(queue[i])
  /\ dir \in DOMAIN disk \cup {<<>>}
  /\ unread \subseteq [name : Names \cup {".", ".."}, kind : Kinds]
  /\ Len(sources) <= Cardinality(DOMAIN disk)
=============================================================================
