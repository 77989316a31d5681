# JCUnit in TLA+

JCUnit is a test runner for command-line programs. A test file says what a
program is given, how it is run and what it should write; jcunit runs the
program in a child process, compares its output and reports a verdict per test.
These modules model it from the arguments to the exit code: which files are
read, how a file becomes tests, how a test is run and judged, what the user is
told of it, and what is kept between runs. Paths below are relative to the
root of the repository; lines are of the commit the project was written for.

## The system

| component | state | operations | interacts with |
|---|---|---|---|
| tokenizer (`tokenizer.c`) | mode, a buffer of characters and one of tokens put back | get, put back, peek, of characters and of tokens | called by the parser, which sets its mode |
| parser (`parse.c`, `ast.c`) | the tests and requirements read so far, the content buffer | one function per construct of `test-grammar` | tokenizer, compiler |
| compiler (`compiler.c`) | the record of the test being compiled | one function per kind of requirement | parser's lists; its records go to the runner and the cache |
| suite cache (`cache.c`, part of `application.c`) | `.jcunit_cache`, the entries loaded, the entries to save | load, lookup, update, save, clear | test files, compiler, other runs of jcunit |
| test runner (`runner.c`, `test-iterator.c`) | cursor, results and counts, the given file | run, skip, judge, count | `/tmp`, child process, matcher |
| child process (`child-process.c`) | pipes, captured output, error codes | `child_process_run` | the kernel, the program under test |
| matcher (`match.c`) | two positions | `pattern_match` | runner, diff |
| application (`application.c`, `main.c`, `options.c`, `errors.c`) | options, the list of sources and of suites | parse options, find sources, read, run, save, exit code; a fatal error at any point | everything |
| file system (`fs.c`) | queue of directories | walk, resolve, stat | application, runner |
| result display (`show-result.c`, `test-iterator.c`, `run_suites`) | cursor, counts, place in the line of marks | one report per run mode, lists of errors and failures, summary | runner's results, diff |
| diff (`diff.c`) | lines, table of common lines, stack of actions | `print_diff` | matcher, allocator, result display |
| allocator (`allocator.c`) | pool of blobs | alloc, free the pool | everything |
| lists and strings (`list.c`, `string.c`, `util.c`, `source.c`) | | append, copy, cut | everything |
| developer tools (`print.c`, `testers/`) | none | print tokens, trees, diffs | not part of a run |

jcunit has one thread. What makes it hard is outside: the program under test,
which runs at the same time and does what it likes with its three pipes; other
runs of jcunit (most of the repository's own tests run jcunit in jcunit), which
share `/tmp` and the cache file; editors that change test files meanwhile; and
being killed between any two steps. Inside, the parser reads one text in two
modes through lookahead buffers, and requirements are compiled one after the
other into one record. `hazards` in `PROJECT.json` lists where this bites.

What makes the components correct:

- parser: what is parsed is what is written, all of it; tokens never outlive
  the mode they were read in; every documented form is accepted;
- compiler: what is compiled is what the requirements mean, in any order and
  however often repeated, and suffices for the runner;
- cache: a suite compiled from an older content of its source is never used;
- runner: every test gets the verdict it deserves, and leaves nothing behind;
- child process: what is captured is complete or marked as not; nobody waits
  for ever;
- matcher: accepts exactly the outputs that match;
- application: the sources are those that were given, each once; a run ends, and
  fails only for a reason; the cache is saved when it should be and only then;
- result display: every test is told once, in order, with its verdict, and a bad
  one with what was wrong about it; counts, headline and exit code agree;
- diff: both texts can be read back from it, and it is as short as it can be;
- allocator: no two allocations share memory.

## Modules

| module | what it is | code |
|---|---|---|
| `ProgramRun` | abstract: a program runs, ends, is reported on honestly | the contract of `child_process_run` |
| `ChildProcess` | detailed: pipes, descriptors, parent, child; implements `ProgramRun` | `child-process.c:21-128` |
| `ChildProcessProofs` | theorems about `ChildProcess` | |
| `PatternMatch` | the loops of the matcher, and the reference definition of matching | `match.c` |
| `PatternMatchProofs` | theorems about `PatternMatch` | |
| `TestCases` | tests, what programs do, the verdict a test deserves | tests as compiled; the programs are external |
| `TestReport` | abstract: verdicts in order, then an exit code | the contract of a run of jcunit |
| `TestRunner` | detailed: several runs over one `/tmp`; implements `TestReport` | `runner.c`, `test-iterator.c`, the end of `main` |
| `TestRunnerProofs` | theorems about `TestRunner` | |
| `SuiteCache` | runs, kills, edits, and the cache file cell by cell | `cache.c`, `read_suites`, `save_and_free_cache` |
| `SuiteCacheProofs` | theorems about `SuiteCache` | |
| `SuiteCompiler` | a test from its requirements to its record | `compiler.c:111-454` |
| `SuiteCompilerProofs` | theorems about `SuiteCompiler` and `SuiteStore` | |
| `SuiteStore` | the form in which the cache keeps a compiled suite; extends `SuiteCompiler` | `serialize_test_suite`, `deserialize_test_suite` |
| `SuiteParser` | tokenizer and parser over any text | `tokenizer.c`, `parse.c` |
| `SuiteParserProofs` | theorems about `SuiteParser` | |
| `FileSearch` | the search for sources over a file tree | `fs.c`, `fetch_sources` |
| `Report` | both run modes, item by item | `run_suites`, `show-result.c`, `test-iterator.c` |
| `Application` | composes `FileSearch` and `Report` into a run of jcunit | `main.c`, `options.c`, `read_suites` |
| `ApplicationProofs` | theorems about `Application` and `Report` | |
| `Allocator` | the memory pool | `allocator.c` |
| `Diff` | the diff of a failed test, over `Allocator` | `diff.c` |
| `DiffProofs` | lemmas about the pool; theorems about `Diff` | |

`MC*` modules give the constants their values for TLC. `ChildProcess` stands
behind the one step `RunProgram` of `TestRunner`; `ProgramRun` is the interface
between them: `Captured` keeps what `ProgramRun` allows, a whole output or an
error code. A `case` in `Report` is what `TestRunner` makes of one test, `ReadSuite`
in `Application` is one turn of the loop that `SuiteCache` takes apart, and one
item `diff` of a report is a run of `Diff`.

### ChildProcess

One action per system call that another process can see: `OpenPipes`, `Fork`,
`CloseStdinReader`, `WriteStdin` (some bytes at a time, as room appears),
`CloseWriteEnds`, `Read`, `ReadEof`, `ReadFull`, `ReadFails`, `Wait`. The two
read loops are one set of actions with the stream as parameter; leaving the
first starts the second. `SetupFails`, `StdinBroken` (SIGPIPE, which jcunit does
not handle) and `ReadFails` are the failures. The child is `Redirect` and
`Exec` (jcunit's code), then a program that reads, writes, closes, exits or is
killed at will. `ExecFails` is `exit(127)` in the child: it flushes what jcunit
had buffered of its own report, `pending`, into the captured pipe.
Bytes are counted, not represented: `sent` and `drained` per pipe. Descriptors
are the sets of streams whose ends each process holds, so "the end of a stream"
is what it is in the kernel: no process holds a write end.
Left out: inherited descriptors of a jcunit that runs jcunit, EINTR (no signal
handler is installed).

### PatternMatch

`pp` and `ap` are `pattern_pos` and `actual_pos`. A placeholder is one element:
`{{any}}` cannot overlap itself. `Matches` is the reference: the output can be
cut into one piece per element. The greedy search is sound; it is complete for
patterns without placeholders and for those that end with one.

### TestRunner

Each run goes through `next` (the next test, or `Finish`), `open` and `write`
(the given file), `args`, `check`, `cleanup` and `judge`, interleaved with the
other runs at each of these points, as the file in `/tmp` is what they share.
A file that is unlinked while another run has it open is still written, but by
nobody found (`handle`). Filenames have a length; the check of
`resolve_given_filename` is done in unsigned arithmetic. Lengths from 250 to 260,
for which the copy overruns its buffer, are excluded by `FilenameAssumption`.
Texts are tokens and programs a handful of behaviours (`Outcome`), chosen so that each
branch of the judgement is reached. The arguments are split into words and
checked against two limits in the code; a test has a flag that says whether its
arguments `fit`.

### SuiteCache

A suite is identified with the content it was compiled from. `disk` is a
sequence of cells, the pieces that a save writes with one call: header, and per
entry its metadata, its length (a placeholder first) and its data. A save is one
`WriteCell` per call, so a kill (`Die`) leaves a prefix, and overlapping saves mix cells.
Simplifications: a load reads the file in one step (one read of the stdio
buffer, for caches up to its size); a content is its own hash (no collisions);
sources always exist, and there is one (a run without any ends before it comes to the
cache, `main.c:70`); an edit changes content, and the modification time to the
same second or the next. `Load` may yield nothing, as when the file cannot be opened;
a run that cannot remove the file goes on as one without `--clear-cache`, and one that
cannot open it to save ends as one that was killed before (`Die`).

### SuiteCompiler

One action per requirement compiler, one that rejects. The record is that of
`program_runner_test`; `CompiledAsMeant` compares it with a reading of the
requirements that does not go through them in order.

### SuiteStore

`Serialized` and `Deserialized` are the two functions of `cache.c` over a sequence
of cells: a number, or the characters of a text. A failed write in the middle is
ignored by the code (`cache.c:430`), so `Cut` leaves any number of cells, and a text
of which only some characters were written, read where the code expects numbers.

### SuiteParser

The text is a sequence of pieces: a directive, a newline, a string, a name,
white space, punctuation, another character. It is not fixed beforehand: whatever is read
next is chosen when it is read, so every text is covered up to the bound. Every
parser function is an action or a few, at the points where it asks for a token.
Abstracted: the characters of names and strings and the limits on their length;
`@@`, which is a character.

### FileSearch, Report, Application

`disk` is a file tree: a kind for every path, a path being the sequence of its names.
`FileSearch` reads a directory entry by entry, in any order, with `.` and `..`, as
`readdir` does; `gone` are files that vanished between two steps. A directory may be
locked, a link leads to a file (`Target`), and the list of known sources has a
capacity that is not checked (`Overruns`).
`Report` prints items instead of lines: what kind of line it is, its status and its
number. `Application` goes through `main`: `options`, `start`, `sources`, `suites`,
`tests`. Whether a source can be compiled is a constant, and the cache is a file that
was there before, is removed, or was saved. The system may refuse to remove it, or to
open it for saving; the code ignores both (`main.c:56`, `cache.c:404`), and `refused`
keeps what happened, so that `CacheAsTold` can say that nothing else did.
`RunnerDies` stands for every fatal error of the runner; `TestRunner` has them one by one.

### Allocator, Diff

An address is a blob and an offset; `blocks` is a history of what was allocated.
A blob has one size, whatever was asked for, so a larger request overruns the blob
made for it: in jcunit the table of a diff can be that large (from about 512
lines against 512 lines for the 1 MB of a blob; outputs have fewer than 8192 lines), and
so can the data of a suite that `cache_load` reads, since it asks for whatever length is
in the file (`cache.c:308`). `TableOverruns` is the crash that may follow the first; the
second is not modelled.
`Diff` fills the table cell by cell and walks back step by step. Lines match as
patterns do: `LinesMatch` is any relation, and is no equivalence in the run.

## Runs

Runs that pass:

| run | shows | bounds |
|---|---|---|
| `child_capture` | complete captures, whole input, `ProgramRun` implemented, ended programs reported; no deadlock and termination within the capacity of the pipes | buffer 2, pipe 2, stdin 3, stdout 5, stderr 3, read errors on |
| `pattern_match` | sound, complete for open-ended patterns, terminates | patterns and outputs of up to 4 elements, 2 characters |
| `runner_apart` | verdicts, counts, exit codes, files, for two runs with distinct filenames | 0 or 2 tests each, 22 kinds of test |
| `cache` | never stale; a whole save is loaded whole; capacity | 3 runs in 2 places, 3 sources, room for 2, 1 edit |
| `compiler` | compiled as meant; the runner's preconditions; the cache restores it, or a cut entry lacks only its last texts | 1 to 4 requirements out of 19; data of two tests cut at every cell |
| `parser` | parsed as written, lookahead, the accepted language, termination | 10 pieces of 12 kinds, and 15 of the 5 kinds that a plain test needs |
| `diff` | arrays apart, table and walk agree, the diff restores both texts, none is shorter | texts of up to 3 lines out of 3 kinds, with and without a last newline; blobs that hold 12 cells of a table of up to 16 |
| `application` | the right sources once each (`./tests` when none are given), failures for a reason, whole report, progress, explanations, the cache as asked or refused, termination | 4 file trees, up to 2 paths out of 5 with up to 2 options out of 9 between, 0 to 5 tests, 2 marks a line, room for 2 sources |

The sizes are the smallest at which each thing happens: a buffer filled by one
read and by two, a pipe that fills before the buffer and after, a stream one
byte past every limit; two runs, since every hazard between runs of tests needs
two; three runs of the cache, so that a whole save and one that is cut short
can both come before a load, in either order; a test with an argument and a
content, and two tests in a row; tables that just fit a blob and that do not,
after something else was allocated; lines of marks that are full and that are not; a file that
is reached by itself, by a link and by its directory; more sources than there is room for.

Runs in which TLC finds a violation; each is a finding in `PROJECT.json`:

| run | what happens |
|---|---|
| `child_deadlock` | the stderr pipe fills while jcunit reads stdout |
| `pattern_complete` | `{{any}}ab` refuses `aabab` |
| `runner_rant` | exit code 1 and a very long unexpected stderr pass |
| `cache_edit` | a source edited while it is compiled is stale in the next run |

Other places where the code does less than its texts say, met while modelling
and kept in the modules as the code has them, so that the passing runs stay
clear of them or allow them:

- `child-process.c:95`: when stdout fills the buffer the read end stays open, so
  a program that keeps writing is never reported as too long: it blocks, and
  jcunit waits for its stderr (`BeyondBounds` leaves it out).
- `runner.c:106`: tests of two runs with the same filename share one file in
  `/tmp` (`ApartWorkload` has distinct names).
- `runner.c:349`: an `@expectOutput` without content is compiled to NULL and not
  checked, though `examples/base.test:24` means it as "no output" (`Expected`;
  `Deserved` disagrees, and the workload has such a test only where both agree).
- `runner.c:57`: an incomplete test with `@shouldBeSkipped` is incomplete, not
  skipped as `README.md:91` has it (no such test in the workload).
- `runner.c:103`: a filename of less than six characters is "too long", by an
  unsigned subtraction (`FilenameTooLong`; such a run is aborted, which
  `TestReport` allows).
- `cache.c:404`: saves of two runs at the same time mix their cells
  (`SavesOverlap` is `FALSE` in the runs).
- `main.c:56`, `cache.c:404`: a cache that cannot be removed stays and is used, and one
  that cannot be opened is not saved, without a word (`refused`).
- `cache.c:430`: a failed write is ignored, and what was written is recorded. Such an
  entry may be read as a suite whose last test lacks its last texts, or, when the cut
  is in its name, has nothing but its flags and a type made of characters, where
  `cache.c:344` has "corrupted" as a miss (`CutIsMissOrLacksTexts` says how far it goes).
- `compiler.c:383`: a second expectation replaces a first one without content,
  without the warning "ignoring" (`CompiledAsMeant` says "the first content").
- `parse.c:90`: a test may have four requirements, one less than the README
  documents (`MaxRequirements`).
- `application.c:107`: with more than 1024 sources the list of known ones is overrun
  (`Overruns`; `FailsForAReason` says that nothing less crashes the search).
- `allocator.c:56`: see `TableOverruns` above; `BlocksApart` says that only blocks
  larger than a blob leave theirs.

## Fairness

- `ChildProcess`: `ParentFair` is weak fairness of jcunit's own steps, not of
  failures: the kernel schedules jcunit and completes a call once it can be.
  `Finishes` assumes it of the program too, as its premise, and the program writes a
  bounded number of bytes; one that runs for ever is not promised an end (there is
  no timeout in the code).
- `Application`: weak fairness of `Step`: jcunit is scheduled, and its programs end.
  Nothing is owed by whoever deletes files, nor by a fatal error.
- `PatternMatch`, `SuiteParser`: weak fairness of `Next`: a loop goes on.

## Proofs

For every value of the constants (sizes, lengths, alphabets, numbers of runs), under
the named assumptions on them, each in the module that declares the constants
(`SizeAssumption`, `InputAssumption`, `WorkloadAssumption`, `CacheAssumption`,
`ParsedAssumption` and so on). Each theorem follows from an inductive invariant, of
which TLC first checked the instance of the runs.

**`ChildProcessProofs`.** `Inv` joins the type invariant with which descriptors each
process holds at each point, and what each stream's counters are then. It is
needed since `CaptureIsComplete` alone does not tell why nobody writes to a
stream after its end was read: that is so because the parent has dropped its
write ends and the child never gets one back. `NextInv` shows that it is
inductive, one step per action; the theorems are `TypeCorrect`, `CaptureCorrect`,
`InputCorrect`, `NeverStuckProgram` (two processes that wait for each other do so at
a pipe that is full because the program went beyond the bounds),
`BoundedNeverDeadlock` (so there is no deadlock where no program can) and
`Implementation` (every step is a step of `ProgramRun` or a stutter).

**`PatternMatchProofs`.** For `Soundness` the invariant is that the part of the pattern
consumed matches the part of the output consumed, by some cut; each action extends the
cut (`SegmentExtends`, `PlaceholderExtends`, `PlaceholderTakesNone`). For
`OpenEndedCompleteness` it is `CompleteInv`, about every cut there is: the search is never
ahead of it (`NeverAhead`: what is searched from the left is found no later than any
cut has it), and a literal that fails to match where no placeholder was met refutes
them all (`RefusalIsRight`). That the search ends at the leftmost place is
`SearchIsLeftmost`, and that it ends at all where there is a place is `SearchFinds`.

**`TestRunnerProofs`.** `FileInv` adds to `NothingLeftBehind` that a run keeps no
filename outside a test that has a file of its own, and writes only to the file it is
at or to one that is unlinked. `TypeCorrect` and `TidyUp` hold of any workload, so also
when runs share filenames, which `runner_apart` does not have. `Implementation`, that
the runs implement `TestReport`, needs `RunsApart`, which `ApartAssumption` of the MC
module checks of the workload of `runner_apart`:

- `NamesApart`: tests of two runs do not share a filename. Without it a run reads what
  another wrote (see `runner.c:106` above).
- `JudgedAsMeant`: of each test alone, it excludes what the list under "Runs" has the
  code judge otherwise: incomplete tests that are to be skipped (`runner.c:57`),
  expectations without content of a program that does write (`runner.c:349`), and a
  stderr too long to be captured where the verdict hangs on it, by an exit code that it
  should make a failure or by an expectation that is compared with what is left of it
  (`runner_rant`).

The invariant `ApartInv` says that a file is as its run left it (`OwnersApart`) and that
what was captured is what the program, given that file, writes (`RunsItsTest`).

**`SuiteCacheProofs`.** Three invariants, each over the one before. `TypeInv`: stores and
file keep their types, whatever overlaps; theorem `TypeCorrect`. `SaveInv`: how much of
the file has been written at every point of a save, cell by cell, so that what is
closed is what was meant (`Whole`); theorem `SaveCorrect`, under `~SavesOverlap`, without
which cells mix. `FreshInv`: whatever is in a store, in the file or in a cut-short
prefix of it is recorded with the content and time of what its suite was compiled from;
theorem `Freshness`, which needs `~EditsAnyTime` too, as run `cache_edit` shows.

**`SuiteCompilerProofs`.** `CompilerInv`: the record after some requirements is what those
mean, the last input, the last program, the first expectation of a stream that has
content. Theorems `TypeCorrect`, `Runnable` and `Meant`, for lists of any length.

**`SuiteParserProofs`.** `ParserInv`: at most one of the two lookahead buffers holds
anything, and one element; the mode follows from where the parser is (`ModeInv`), so that
a token waits over a change of mode only if it is the same in both (`TokensInv`).
Theorems `TypeCorrect` and `Lookahead`, for texts of any length. `AsWritten` needs what
the two buffers hide: `WaitingInv` says that what waits in them are the last pieces of the
text that were taken, so that `Past` counts those that the parser has dealt with. The
suite and the record of the test then are the lines known so far, and `Agrees` says that
line `k` is what is written from the `k`-th directive of the text to the next; of a line
that has only been begun, `HeldInv` says what was read of it. A piece more changes no
line that is complete. The tests of the suite are the lines of the suite in turn
(`FlattenAppend`), so in the end they are what the text says.
`Accepts` is about the texts without arguments. While the parser reads, `GrammarInv`
says that the lines follow each other as they may (`Kinds`), with so many requirements
to a test (`Counts`), that there are only newlines before the first (`Led`), and what was
seen of the next piece before a directive is parsed (`AheadInv`). When it has given up,
`FatalInv` keeps why: the lines so far are right (`Standing`), and the text ends too early
(`EndsEarly`), has something else where a directive should be (`Misplaced`), or a
directive that may not come next or is not alone on its line (`WrongNext`). The parser
stops where it sees that, and has not read the rest, so `WellFormed` is about the text
that was read. The reference is then told by the positions of the directives
(`FormedIs`): what `Open` and `Requirements`, which count from the beginning, are after a
line is what the line says (`StandingIs`). Lines that are right, to the end of the text,
make it well formed (`DoneIsFormed`), and each of the three reasons contradicts it.

**`DiffProofs`.** `BlocksApart` is not inductive, since it does not tell where the next
block goes: `PoolInv` adds that every block ends below what is used of its blob
(`Placed`) and that a cut at an aligned offset above it is a `GoodCut`. It is kept by
any `Alloc`, so by any user of the pool; `DiffBlocksApart` follows for the arrays of a
diff. For `WalkAgrees` the invariant `TableInv` says how far the table is filled
(`FullBefore`: every cell before `i`, `j` is what the cells around it make it), that its
borders are 0, and that the walk is inside; `NextEntry` then gives the entry where the
walk is by the one it goes to. It holds whatever lines match whatever lines, and shows
that the walk and the table, which ask twice whether two lines match, cannot disagree.
`TypeCorrect` adds that the steps taken and those left fit the stack together
(`StepsInv`), and what a line is (`LineEndFacts`). `Shortest`: every cell bounds the
common lines of any diff of the two beginnings (`FullTableBounds`), so the walk, which has
as many as the last cell, has the most. `Whole`, that what is printed restores both
texts, goes from the texts to the report in four steps. A text is its lines joined,
whatever it is (`LinesRestoreText`). The walk takes every line of both texts once, from
behind: the entries on the stack are at the lines from where it is to the ends, one
each (`WalkedInv`, `Covers`). Printing turns the stack over, so the marked lines come in
the order of the texts (`PrintInv`, `LinesInv`); and since the walk from behind and the
print from the front count the same lines, the line at a rank is the one that was
taken for it (`MirrorRank`, `MarkedAreTaken`). `JoinIsUnique` then gives the texts.

**`ApplicationProofs`.** `CacheInv` says when the flags are settled and what the environment
says then (`SettledInv`), that only a run that got to its end has saved, and that the
cache is otherwise than asked only where the system refused (`SavedInv`); theorem
`CacheCorrect`.

For `FailuresExplained` the invariant `ToldInv` has that
every result that is an error or a failure has something to tell (`Supported`, from
`ResultIsSupported`, the one place that depends on how a test is judged), and that the report
so far explains what it tells (`Explained`). The report grows by parts that do
(`ExplainedConcat`): a bad test with a part that begins with its reason (`Explains`), or
parts that tell of none (`Quiet`). `ApplicationAssumption` says what running a test may
come to: streams that are wrong are streams.

`SearchExact` says of any tree that the sources are those that the arguments lead to, or
those below `./tests` when they lead to none or all of theirs have vanished. Its
invariant `SearchInv` has five parts. `PathsInv`: what is queued is a
directory, and no source is there twice. `BelowInv`: all that is read lies below the
directory that the argument names. `LevelsInv`: directories are read level by level, so
the queue holds two levels at most. `PassedInv`: a test file below the directory was
found, is gone, or is still ahead (`Awaits`: in the queue or among the entries not yet
read). `OriginInv`: every source has the first argument that leads to it, and those of a
later argument, or of a lower level, come later. It needs that the directories that
`fs_read_dir` meets by way of `.` and `..` are those below its root, and that is
`TreeAssumption`: a tree is finite, every path in it leads through directories, no entry
but the two of each directory is called `.` or `..`, and what vanishes is a file. The
first three are what a POSIX file system guarantees; that directories stay is a limit of
the model, which has only files deleted meanwhile. `FailuresHaveReasons` adds what each
failing step found to blame (`SearchFailsInv`, `ExitsInv`): once a file is gone it is to
blame for ever (`CausesStay`), also when all the files that the arguments lead to have
gone and the default is gone through instead. `Typed` follows from these and from the
counts of the report being those of the results so far (`CountsInv`).

`ReportWhole` and `ProgressTold` say of a whole report what it contains, while every step
adds a part at its end. They are proved of the items of one kind at a time: a part either
leaves those where they are (`Stays`) or adds one behind them (`Gains`), and each claim is
kept by both. `DoneInv` says how far the report is; `DetailInv` that the tests so far are told
in order, each under the header of its suite; `MarksInv` that the marks are those of the
results and that a percentage stands after every full line and at the end, with the share
that it should have; `ListsInv` that each list numbers its entries through, up to where
it has got, under a line with their number; `CountedInv` what the summary says, and `SummaryInv` that
it is there when it was asked for.

**`SuiteCompilerProofs` over `SuiteStore`.** Data is parts, one after the other, and a cut
falls into one of them and leaves those before it whole (`TornParts`). A text that is
whole is read back (`ReadBack`); one that was cut is read as none and leaves nothing, or
characters (`ReadTorn`), which are no text either (`ReadJunk`) and no numbers of a test
(`TestJunk`). So it goes for the seven texts of a test (`TextsWhole`, `TextsTorn`,
`TextsJunk`), for a test (`ReadWhole`, `ReadShort`), and for a suite (`SuiteWhole`,
`SuiteTorn`): theorem `AnySuite`, for suites of any number of tests and any number of
characters left, where the run has two tests and three numbers. `Faithful` follows by
`TypeCorrect`. `StoreAssumption` tells the two cells of a text from all others: in the
file, a length from the numbers around it by where it stands, four characters from a
number by their value (see "Not modelled").

Induction over data is done where it is needed by a least counterexample: a set of numbers
has a smallest one (`FirstExists`, from the well-foundedness of finite sets), and
nothing can be the smallest for which the claim fails. So it goes in `FullTableBounds`,
`RankExists`, `CutOfLiterals`, in `Reached`, which has every test and text read in
`SuiteCompilerProofs` and every directive counted in `SuiteParserProofs`, and, for
recursive functions, in `JoinExists`, `JoinType`, `JoinIsUnique`, `TestsAreRead` and
`StepsExist`.

Only model-checked, and why:

- liveness (`Finishes`, `EndedIsReported`, `Terminates`, `Ends`): out of the
  prover's reach, as is everything about `ENABLED`.

## Not modelled

- `print.c` and `testers/`: tools that print for the repository's own tests, without
  logic of their own. Colors, durations and wording of the report.
- Report: `Report` has the line `---` between the two lists, but no property is about it.
- Child process: a write of stdin that is short or fails with something other than
  SIGPIPE (`child-process.c:73` does not look): `CloseWriteEnds` waits until all is written.
- Lists and strings: sequences and values here; their sizes are the bounds of the
  modules that use them. `malloc` is taken never to fail.
- Tokenizer: the characters of one name or string and their limits, and the byte
  0xFF put back at `tokenizer.c:101`, which needs texts as bytes.
- Cache: collisions of the 32-bit hash (a content is its own hash), the widths of the
  lengths in the file, and texts with bytes that make a small number where data was cut.
- Runner: filenames of 250 to 260 characters, whose copy overruns its buffer, are
  excluded by `FilenameAssumption`: what follows is not determined by the code.
- File system: an argument `/` (its paths begin with two slashes and are not told from
  those with one), and file systems that do not return the type of an entry.

## What could come next

1. `Application` over `SuiteCache` instead of a flag per source, for two runs at once.
2. The tokenizer by characters.
