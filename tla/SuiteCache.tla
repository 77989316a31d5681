----------------------------- MODULE SuiteCache -----------------------------
(***************************************************************************)
(* The cache of compiled suites (cache.c, and read_suites and              *)
(* save_and_free_cache of application.c): runs of jcunit in one directory  *)
(* share the file .jcunit_cache, test sources are edited meanwhile, and a  *)
(* run can be killed at any step, half-way through a save included.        *)
(*                                                                         *)
(* A suite is identified with the content of the source it was compiled    *)
(* from.  The cache file is cut into cells, the pieces that cache_save     *)
(* writes with one call and cache_load either reads whole or not at all:   *)
(* the header, and for each entry its metadata, the length of its data     *)
(* (first a placeholder, zero) and the data.  A stdio buffer is written    *)
(* out in order, so what can be found of a save that was cut short is a    *)
(* prefix of its cells.                                                    *)
(***************************************************************************)
EXTENDS Integers, Sequences, FiniteSets

CONSTANTS
  Jobs,        \* places where jcunit is run, again and again
  Sources,     \* the test files, as the list every run is given
  Contents,    \* what a test file may hold
  Size(_),     \* size of a content
  MaxEntries,  \* CACHE_MAX_ENTRIES
  MaxRuns,     \* bound: runs of jcunit, all jobs together
  MaxEdits,    \* bound: edits of the sources
  EditsAnyTime,   \* TRUE: also between compiling a source and recording it
  SavesOverlap    \* TRUE: two runs may be saving at the same time

Paths == {Sources[i] : i \in DOMAIN Sources}
None  == "none"    \* no suite, no data

\* A run that finds no source ends before it looks at the cache.
ASSUME CacheAssumption ==
  /\ Sources \in Seq(Paths) /\ Sources # <<>>
  /\ None \notin Contents
  /\ MaxEntries \in Nat /\ MaxRuns \in Nat /\ MaxEdits \in Nat
  /\ EditsAnyTime \in BOOLEAN /\ SavesOverlap \in BOOLEAN

VARIABLES
  src,     \* content and modification time (in seconds) of each test file
  edits,   \* number of edits so far
  disk,    \* the cache file: a set for each cell, empty or the one value written
  pc,      \* where each run is
  runs,    \* number of runs so far
  next,    \* the source, or the cell, each run is at
  store,   \* the entries loaded by each run
  save,    \* save_store: the entries it will save
  suite,   \* the suite it uses for each source
  seen     \* history: contents each source has had since the run started

vars == <<src, edits, disk, pc, runs, next, store, save, suite, seen>>

\* Cell 1 is the header; then three cells for each entry.
Slots      == 1..MaxEntries
Cells      == 1..(1 + 3 * MaxEntries)
MetaCell(i) == 3 * i - 1
LenCell(i)  == 3 * i
DataCell(i) == 3 * i + 1
NoFile      == [c \in Cells |-> {}]

\* What stat and hash_file_content say of a source: two contents of the same
\* size, written in the same second, differ only in their hash.
Meta(p) == [path |-> p, mtime |-> src[p].mtime, size |-> Size(src[p].content),
            hash |-> src[p].content]

Init ==
  /\ src \in [Paths -> [content : Contents, mtime : {0}]]
  /\ edits = 0
  /\ disk = NoFile
  /\ pc = [j \in Jobs |-> "idle"]
  /\ runs = 0
  /\ next = [j \in Jobs |-> 1]
  /\ store = [j \in Jobs |-> <<>>]
  /\ save = [j \in Jobs |-> <<>>]
  /\ suite = [j \in Jobs |-> [p \in Paths |-> None]]
  /\ seen = [j \in Jobs |-> [p \in Paths |-> {}]]

Goto(j, l) == pc' = [pc EXCEPT ![j] = l]

\* The process is gone, and all it had in memory.
Gone(j) ==
  /\ Goto(j, "idle")
  /\ next' = [next EXCEPT ![j] = 1]
  /\ store' = [store EXCEPT ![j] = <<>>]
  /\ save' = [save EXCEPT ![j] = <<>>]
  /\ suite' = [suite EXCEPT ![j] = [p \in Paths |-> None]]
  /\ seen' = [seen EXCEPT ![j] = [p \in Paths |-> {}]]
  /\ UNCHANGED <<src, edits, disk, runs>>

Source(j)  == Sources[next[j]]
-----------------------------------------------------------------------------
(* Loading.                                                                *)

\* Entry i can be read when its cells are all there.  An entry whose length is
\* still the placeholder is read with no data; what follows it makes no sense.
Readable(d, i) ==
  /\ d[MetaCell(i)] # {}
  /\ d[LenCell(i)] # {}
  /\ "written" \in d[LenCell(i)] => d[DataCell(i)] # {}
  /\ i > 1 => "written" \in d[LenCell(i - 1)]

EntryAt(d, i) ==
  [meta |-> CHOOSE m \in d[MetaCell(i)] : TRUE,
   data |-> IF "written" \in d[LenCell(i)] THEN CHOOSE x \in d[DataCell(i)] : TRUE
            ELSE None]

\* cache_load: nothing without a header, else the entries up to the first one
\* that is not whole.
Whole(d)  == {i \in Slots : /\ \E count \in d[1] : i <= count
                            /\ \A k \in 1..i : Readable(d, k)}
Loaded(d) == [i \in 1..Cardinality(Whole(d)) |-> EntryAt(d, i)]

\* A run starts, perhaps with --clear-cache; when nothing can be removed, it goes
\* on as without it.
Start(j) ==
  /\ pc[j] = "idle" /\ runs < MaxRuns
  /\ runs' = runs + 1
  /\ seen' = [seen EXCEPT ![j] = [p \in Paths |-> {src[p].content}]]
  /\ \E l \in {"clear", "load"} : Goto(j, l)
  /\ UNCHANGED <<src, edits, disk, next, store, save, suite>>

\* remove: a run that is saving goes on writing to a file nobody will find.
Clear(j) ==
  /\ pc[j] = "clear"
  /\ disk' = NoFile
  /\ pc' = [k \in Jobs |-> IF k = j THEN "load"
                          ELSE IF pc[k] = "write" THEN "write removed" ELSE pc[k]]
  /\ UNCHANGED <<src, edits, runs, next, store, save, suite, seen>>

\* The file may not let itself be opened.
Load(j) ==
  /\ pc[j] = "load"
  /\ \E s \in {Loaded(disk), <<>>} : store' = [store EXCEPT ![j] = s]
  /\ Goto(j, "lookup")
  /\ UNCHANGED <<src, edits, disk, runs, next, save, suite, seen>>
-----------------------------------------------------------------------------
(* read_suites: look up or compile each source, then record it.            *)

HashNotCompared(m, p) ==   \* mutant
  m.path = p /\ m.mtime = Meta(p).mtime /\ m.size = Meta(p).size

\* cache_lookup: the entry is for the file as it is now.
Current(m, p) == m = Meta(p)

\* The first entry of the path decides; without data it is a miss.
Hits(j) ==
  {i \in DOMAIN store[j] :
     /\ store[j][i].meta.path = Source(j)
     /\ \A k \in 1..(i - 1) : store[j][k].meta.path # Source(j)
     /\ Current(store[j][i].meta, Source(j))
     /\ store[j][i].data # None}

Use(j, content) ==
  /\ suite' = [suite EXCEPT ![j][Source(j)] = content]
  /\ Goto(j, "update")
  /\ UNCHANGED <<src, edits, disk, runs, next, store, save, seen>>

LookupHit(j) ==
  /\ pc[j] = "lookup"
  /\ \E i \in Hits(j) : Use(j, store[j][i].data)

\* compile_test_suite reads the source.
LookupMiss(j) ==
  /\ pc[j] = "lookup"
  /\ Hits(j) = {}
  /\ Use(j, src[Source(j)].content)

RecordedUnbounded(store_, e) == Append(store_, e)   \* mutant

\* The store after cache_update: the entry of a path it has is replaced, and a
\* full store keeps no more entries.
Recorded(store_, e) ==
  IF \E i \in DOMAIN store_ : store_[i].meta.path = e.meta.path
  THEN [i \in DOMAIN store_ |-> IF store_[i].meta.path = e.meta.path THEN e ELSE store_[i]]
  ELSE IF Len(store_) < MaxEntries THEN Append(store_, e) ELSE store_

\* cache_update looks at the source again, after it was compiled.
Update(j) ==
  /\ pc[j] = "update"
  /\ save' = [save EXCEPT ![j] =
       Recorded(@, [meta |-> Meta(Source(j)), data |-> suite[j][Source(j)]])]
  /\ IF next[j] < Len(Sources)
     THEN next' = [next EXCEPT ![j] = @ + 1] /\ Goto(j, "lookup")
     ELSE next' = next /\ Goto(j, "test")
  /\ UNCHANGED <<src, edits, disk, runs, store, suite, seen>>
-----------------------------------------------------------------------------
(* save_and_free_cache, after the tests have run.                          *)

LengthNotPatched(s, i) ==   \* mutant
  << <<MetaCell(i), s[i].meta>>, <<LenCell(i), "placeholder">>,
     <<DataCell(i), s[i].data>>, <<LenCell(i), "placeholder">> >>

\* The writes of cache_save for entry i of s: the length is written twice.
EntryWrites(s, i) ==
  << <<MetaCell(i), s[i].meta>>, <<LenCell(i), "placeholder">>,
     <<DataCell(i), s[i].data>>, <<LenCell(i), "written">> >>

\* The n-th write of a save of s, of WritesOf(s): the cell and its value.
WritesOf(s) == 1 + 4 * Len(s)
Write(s, n) ==
  IF n = 1 THEN <<1, Len(s)>>
  ELSE EntryWrites(s, ((n - 2) \div 4) + 1)[((n - 2) % 4) + 1]

\* fopen "wb" empties the file.
OpenCache(j) ==
  /\ pc[j] = "test"
  /\ SavesOverlap \/ \A k \in Jobs : pc[k] # "write"
  /\ disk' = NoFile
  /\ next' = [next EXCEPT ![j] = 1]
  /\ Goto(j, "write")
  /\ UNCHANGED <<src, edits, runs, store, save, suite, seen>>

WriteCell(j) ==
  /\ pc[j] = "write"
  /\ next[j] <= WritesOf(save[j])
  /\ LET w == Write(save[j], next[j]) IN disk' = [disk EXCEPT ![w[1]] = {w[2]}]
  /\ next' = [next EXCEPT ![j] = @ + 1]
  /\ UNCHANGED <<src, edits, pc, runs, store, save, suite, seen>>

CloseCache(j) ==
  /\ pc[j] = "write"
  /\ next[j] > WritesOf(save[j])
  /\ Gone(j)

\* Every write to a file that was removed, and its fclose.
CloseRemoved(j) ==
  /\ pc[j] = "write removed"
  /\ Gone(j)
-----------------------------------------------------------------------------
(* The world outside.                                                      *)

\* The run is killed, ends with a fatal error before it could save, or cannot open
\* the cache to save it.
Die(j) ==
  /\ pc[j] # "idle"
  /\ Gone(j)

\* A source is changed, within the second of its last change or later.
Edit(p, c) ==
  /\ edits < MaxEdits
  /\ EditsAnyTime \/ \A j \in Jobs : ~(pc[j] = "update" /\ Source(j) = p)
  /\ c # src[p].content
  /\ \E t \in {src[p].mtime, src[p].mtime + 1} :
       src' = [src EXCEPT ![p] = [content |-> c, mtime |-> t]]
  /\ edits' = edits + 1
  /\ seen' = [j \in Jobs |-> IF pc[j] = "idle" THEN seen[j]
                          ELSE [seen[j] EXCEPT ![p] = @ \cup {c}]]
  /\ UNCHANGED <<disk, pc, runs, next, store, save, suite>>

Run(j) ==
  \/ Start(j) \/ Clear(j) \/ Load(j)
  \/ LookupHit(j) \/ LookupMiss(j) \/ Update(j)
  \/ OpenCache(j) \/ WriteCell(j) \/ CloseCache(j) \/ CloseRemoved(j)

Next ==
  \/ \E j \in Jobs : Run(j) \/ Die(j)
  \/ \E p \in Paths, c \in Contents : Edit(p, c)

Spec == Init /\ [][Next]_vars
-----------------------------------------------------------------------------
Metas   == [path : Paths, mtime : Nat, size : {Size(c) : c \in Contents}, hash : Contents]
Entries == [meta : Metas, data : Contents \cup {None}]

\* Every variable keeps its type; no store outgrows CACHE_MAX_ENTRIES.
TypeOK ==
  /\ src \in [Paths -> [content : Contents, mtime : Nat]]
  /\ pc \in [Jobs -> {"idle", "clear", "load", "lookup", "update", "test", "write",
                      "write removed"}]
  /\ \A j \in Jobs : /\ store[j] \in Seq(Entries) /\ Len(store[j]) <= MaxEntries
                     /\ save[j] \in Seq(Entries) /\ Len(save[j]) <= MaxEntries
  /\ runs \in 0..MaxRuns
  /\ suite \in [Jobs -> [Paths -> Contents \cup {None}]]

\* A run has a suite for every source it went past, and never one that was
\* compiled from what the source held before the run: no edit goes unnoticed,
\* however quick, whatever was killed in the middle of a save, and whatever
\* half-written file was loaded.
NeverStale ==
  \A j \in Jobs :
    /\ \A p \in Paths : suite[j][p] \in seen[j][p] \cup {None}
    /\ pc[j] = "update" => suite[j][Source(j)] # None

\* A save that is not cut short can be loaded again, entry for entry.
SaveCanBeLoaded ==
  [][\A j \in Jobs : CloseCache(j) => Loaded(disk) = save[j]]_vars
=============================================================================
