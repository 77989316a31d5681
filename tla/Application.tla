----------------------------- MODULE Application -----------------------------
(***************************************************************************)
(* A run of jcunit from its arguments to its exit code (main.c, options.c, *)
(* application.c): options, the files to read, their suites, the tests,    *)
(* the report, and the cache that is kept for the next run.                *)
(*                                                                         *)
(* What the cache holds is the subject of SuiteCache.tla and how a suite   *)
(* is compiled that of SuiteCompiler.tla: here a source has its tests, or  *)
(* cannot be compiled.                                                     *)
(***************************************************************************)
EXTENDS FileSearch, Report

CONSTANTS
  Invocations,   \* the arguments that jcunit may be given
  Means(_),      \* the option an argument begins with, or "unknown"
  Content(_),    \* the tests of a source: what running each comes to
  Broken         \* the sources that cannot be compiled

ASSUME ApplicationAssumption ==
  /\ \A p \in UNION {DOMAIN d : d \in Disks} : Content(p) \in Seq(Cases)
  /\ \A args \in Invocations : args \in Seq(STRING)

VARIABLES
  at,        \* where main is
  option,    \* the argument parse_options is at
  flags,     \* the options that were set
  mode,      \* run_mode
  noCache,   \* JCUNIT_NO_CACHE of the environment is "1"
  cache,     \* the cache file: "absent", "old", or "new" when it was saved
  refused,   \* what the system did not let jcunit do with it
  suites,    \* the sources that were read
  exitCode   \* "running", then the exit code or "signal"

cacheVars == <<cache, refused>>
mainVars == <<at, option, flags, mode, noCache, cacheVars, suites, exitCode>>
vars == <<searchVars, reportVars, mainVars>>

Init ==
  /\ SearchInit /\ argv \in Invocations
  /\ ReportInit
  /\ at = "options" /\ option = 1
  /\ flags = {} /\ mode = "passthrough"
  /\ noCache \in BOOLEAN /\ cache \in {"absent", "old"} /\ refused = {}
  /\ suites = <<>> /\ exitCode = "running"

Running(place) == exitCode = "running" /\ at = place

Goto(place) == at' = place /\ UNCHANGED exitCode

Exit(code) == exitCode' = code /\ UNCHANGED at
-----------------------------------------------------------------------------
(* parse_options                                                           *)

IsOption == option <= Len(argv) /\ argv[option] \in Options

Set(o) ==
  /\ flags' = flags \cup ({o} \ {"--run-mode=detail", "--run-mode=passthrough"})
  /\ mode' = CASE o = "--run-mode=detail" -> "detail"
               [] o = "--run-mode=passthrough" -> "passthrough"
               [] OTHER -> mode

ParseOption ==
  /\ Running("options") /\ IsOption
  /\ Means(argv[option]) # "unknown"
  /\ Set(Means(argv[option]))
  /\ option' = option + 1
  /\ UNCHANGED <<searchVars, reportVars, at, noCache, cacheVars, suites, exitCode>>

UnknownOption ==
  /\ Running("options") /\ IsOption
  /\ Means(argv[option]) = "unknown"
  /\ Exit("1")
  /\ UNCHANGED <<searchVars, reportVars, option, flags, mode, noCache, cacheVars, suites>>

PassPath ==
  /\ Running("options") /\ option <= Len(argv) /\ ~IsOption
  /\ option' = option + 1
  /\ UNCHANGED <<searchVars, reportVars, at, flags, mode, noCache, cacheVars, suites, exitCode>>

\* The variable counts as the option.
OptionsParsed ==
  /\ Running("options") /\ option > Len(argv)
  /\ flags' = flags \cup (IF noCache THEN {"--no-cache"} ELSE {})
  /\ Goto("start")
  /\ UNCHANGED <<searchVars, reportVars, option, mode, noCache, cacheVars, suites>>
-----------------------------------------------------------------------------
(* main                                                                    *)

AsksForText == flags \cap {"--help", "--version"} # {}

ShowText ==
  /\ Running("start") /\ AsksForText
  /\ printed' = <<Item(IF "--help" \in flags THEN "help" ELSE "version", "", 0)>>
  /\ Exit("0")
  /\ UNCHANGED <<searchVars, unprinted, option, flags, mode, noCache, cacheVars, suites>>

\* Nobody looks whether remove fails.
ClearCache ==
  IF "--clear-cache" \in flags
  THEN \/ cache' = "absent" /\ UNCHANGED refused
       \/ refused' = refused \cup {"remove"} /\ UNCHANGED cache
  ELSE UNCHANGED cacheVars

\* The programs under test inherit the variable.
Start ==
  /\ Running("start") /\ ~AsksForText
  /\ noCache' = (noCache \/ "--no-cache" \in flags)
  /\ ClearCache
  /\ Goto("sources")
  /\ UNCHANGED <<searchVars, reportVars, option, flags, mode, suites>>

Fetching ==
  /\ Running("sources") /\ FetchSources
  /\ UNCHANGED <<reportVars, mainVars>>

FetchEnds ==
  /\ Running("sources")
  /\ \/ search = "fatal" /\ Exit("1") /\ UNCHANGED printed
     \/ search = "crashed" /\ Exit("signal") /\ UNCHANGED printed
     \/ /\ search = "found" /\ sources = <<>>
        /\ printed' = <<Item("no sources", "", 0)>> /\ Exit("0")
     \/ search = "found" /\ sources # <<>> /\ Goto("suites") /\ UNCHANGED printed
  /\ UNCHANGED <<searchVars, unprinted, option, flags, mode, noCache, cacheVars, suites>>
-----------------------------------------------------------------------------
(* read_suites                                                             *)

\* One that is in the cache need not be compiled: it was, without an error.
ReadSuite ==
  /\ Running("suites") /\ Len(suites) < Len(sources)
  /\ LET p == sources[Len(suites) + 1]
     IN IF Exists(p) /\ p \notin Broken
        THEN suites' = Append(suites, p) /\ UNCHANGED exitCode
        ELSE Exit("1") /\ UNCHANGED suites
  /\ UNCHANGED <<searchVars, reportVars, at, option, flags, mode, noCache, cacheVars>>

\* test_iterator_init_by_suites
AllTests ==
  LET f[k \in 0..Len(suites)] ==
        IF k = 0 THEN <<>>
        ELSE f[k - 1] \o [n \in 1..Len(Content(suites[k])) |->
                            [suite |-> k, case |-> Content(suites[k])[n]]]
  IN f[Len(suites)]

SuitesRead == Running("suites") /\ Len(suites) = Len(sources)

AlwaysSaved == cache' = "new" /\ UNCHANGED refused   \* mutant

\* save_and_free_cache, and cache_save, which returns when fopen fails.
SaveCache ==
  IF "--no-cache" \in flags THEN UNCHANGED cacheVars
  ELSE \/ cache' = "new" /\ UNCHANGED refused
       \/ refused' = refused \cup {"save"} /\ UNCHANGED cache

NoTests ==
  /\ SuitesRead /\ AllTests = <<>>
  /\ SaveCache
  /\ printed' = <<Item("no tests", "", 0)>>
  /\ Exit("0")
  /\ UNCHANGED <<searchVars, unprinted, option, flags, mode, noCache, suites>>

BeginTests ==
  /\ SuitesRead /\ AllTests # <<>>
  /\ tests' = AllTests
  /\ Goto("tests")
  /\ UNCHANGED <<searchVars, stage, results, counts, inLine, next, number, printed,
                 option, flags, mode, noCache, cacheVars, suites>>
-----------------------------------------------------------------------------
(* run_suites, and the end                                                 *)

RunTests ==
  /\ Running("tests")
  /\ RunSuites(mode = "detail", "--no-summary" \in flags)
  /\ UNCHANGED <<searchVars, mainVars>>

\* A fatal error of the runner: the report ends where it is.
RunnerDies ==
  /\ Running("tests") /\ Visiting
  /\ LET k == Len(results) + 1
     IN /\ tests[k].case.flag = "run"
        /\ printed' = printed \o IF mode = "detail" THEN Header(k) ELSE <<>>
  /\ Exit("1")
  /\ UNCHANGED <<searchVars, unprinted, option, flags, mode, noCache, cacheVars, suites>>

AnyFailed == counts["ERROR"] > 0 \/ counts["FAILURE"] > 0

Finish ==
  /\ Running("tests") /\ stage = "over"
  /\ SaveCache
  /\ Exit(IF AnyFailed THEN "2" ELSE "0")
  /\ UNCHANGED <<searchVars, reportVars, option, flags, mode, noCache, suites>>

FileVanishes ==
  /\ exitCode = "running" /\ at \in {"sources", "suites"}
  /\ Vanish
  /\ UNCHANGED <<reportVars, mainVars>>

Step ==
  \/ ParseOption \/ UnknownOption \/ PassPath \/ OptionsParsed
  \/ ShowText \/ Start \/ Fetching \/ FetchEnds
  \/ ReadSuite \/ NoTests \/ BeginTests \/ RunTests \/ Finish

Next == Step \/ RunnerDies \/ FileVanishes

\* The process is scheduled, and the programs it runs end.
Spec == Init /\ [][Next]_vars /\ WF_vars(Step)
-----------------------------------------------------------------------------
TypeOK ==
  /\ SearchTypeOK /\ ReportTypeOK
  /\ at \in {"options", "start", "sources", "suites", "tests"}
  /\ option \in 1..(Len(argv) + 1)
  /\ flags \subseteq {Means(a) : a \in Options} \cup {"--no-cache"}
  /\ mode \in {"detail", "passthrough"}
  /\ noCache \in BOOLEAN /\ cache \in {"absent", "old", "new"}
  /\ refused \subseteq {"remove", "save"}
  /\ suites = SubSeq(sources, 1, Len(suites))
  /\ exitCode \in {"running", "0", "1", "2", "signal"}

\* The sources that an argument stands for.
Below(p) ==
  {q \in DOMAIN disk : /\ disk[q] = "file" /\ q[Len(q)] \in TestNames
                       /\ Len(q) > Len(p) /\ SubSeq(q, 1, Len(p)) = p}

SourcesOf(p) == IF p \notin DOMAIN disk THEN {} ELSE IF IsDir(p) THEN Below(p) ELSE {p}

PathArguments == {k \in DOMAIN argv : argv[k] \notin Options}

Given == UNION {SourcesOf(Target(argv[k])) : k \in PathArguments}

Found == {sources[k] : k \in DOMAIN sources}

ExactlyFound(wanted) == Found \subseteq wanted /\ wanted \ Found \subseteq gone

\* The first argument that stands for a source.
Mention(p) ==
  CHOOSE k \in PathArguments :
    /\ p \in SourcesOf(Target(argv[k]))
    /\ \A l \in PathArguments : p \in SourcesOf(Target(argv[l])) => k <= l

\* Every source is read once, whatever number of ways lead to it, and nothing
\* else is; the arguments keep their order, and a directory comes before those
\* below it.  Where they lead to no file, all below ./tests are.  Files that
\* vanish may or may not be found.
SearchIsExact ==
  search = "found" =>
    /\ Cardinality(Found) = Len(sources)
    /\ IF Found # {} /\ Found \subseteq Given
       THEN /\ ExactlyFound(Given)
            /\ \A k, l \in DOMAIN sources : k < l =>
                 \/ Mention(sources[k]) < Mention(sources[l])
                 \/ /\ Mention(sources[k]) = Mention(sources[l])
                    /\ Len(sources[k]) <= Len(sources[l])
       ELSE Given \subseteq gone /\ ExactlyFound(Below(Target(DefaultTests)))

\* A run fails only for a reason that lies in what it was given.
FailsForAReason ==
  LET reached == {Target(argv[k]) : k \in PathArguments} \cup {Target(DefaultTests)}
      inside(p) == {q \in DOMAIN disk : Len(q) >= Len(p) /\ SubSeq(q, 1, Len(p)) = p}
  IN /\ exitCode = "1" /\ at = "options" =>
          \E k \in DOMAIN argv : argv[k] \in Options /\ Means(argv[k]) = "unknown"
     /\ search = "fatal" =>
          \/ gone # {}
          \/ \E p \in reached : p \notin DOMAIN disk
          \/ Given = {} /\ ~IsDir(Target(DefaultTests))
          \/ \E p \in reached : \E q \in inside(p) :
               disk[q] = "locked directory" \/ (IsDir(q) /\ Len(q) > MaxPath)
     /\ search = "crashed" =>
          \/ Cardinality(Given) > MaxSources
          \/ Given \subseteq gone /\ Cardinality(Below(Target(DefaultTests))) > MaxSources
     /\ exitCode = "1" /\ at = "suites" => Found \cap (Broken \cup gone) # {}

\* In detail mode every suite that has tests has one header, and its tests stand
\* under it.
SuitesAreGrouped ==
  /\ \A i, j \in Told("suite") : printed[i].n = printed[j].n => i = j
  /\ \A k \in Told("test") :
       \E i \in Told("suite") :
         /\ i < k /\ printed[i].n = tests[printed[k].n].suite
         /\ \A l \in Told("suite") : l <= i \/ k < l

\* The tests of a source stand together, and are those that it has.
TestsAreOf(k) ==
  LET content == Content(sources[k])
  IN \E d \in 0..Len(tests) :
       /\ {n \in DOMAIN tests : tests[n].suite = k} = (d + 1)..(d + Len(content))
       /\ \A n \in 1..Len(content) : tests[d + n].case = content[n]

\* In passthrough mode each list has all its tests in their order, numbered from
\* one, under a line that says how many they are; the errors come first.
ListsAreWhole ==
  /\ \A s \in Bad :
       /\ {printed[i].n : i \in {j \in Told("entry") : printed[j].text = s}} = With(s)
       /\ With(s) # {} =>
            \E i \in Told("there are") : printed[i] = Item("there are", s, Cardinality(With(s)))
  /\ \A i, j \in Told("entry") : i < j =>
       IF printed[i].text = printed[j].text THEN printed[i].n < printed[j].n
       ELSE printed[i].text = "ERROR"
  /\ Told("number") = {i + 1 : i \in Told("entry")}
  /\ \A i \in Told("entry") :
       printed[i + 1].n = Cardinality({k \in With(printed[i].text) : k <= printed[i].n})

\* The summary has a count of each status, and a headline, unless told not to; in
\* passthrough mode the counts are told nevertheless.
SummaryIsThere ==
  /\ "--no-summary" \notin flags => Told("headline") # {}
  /\ mode = "passthrough" \/ "--no-summary" \notin flags =>
       \A s \in Statuses : \E i \in Told("count") : printed[i].text = s

\* The report leaves nobody out: every test is told once and in order, in detail
\* mode under the one header of its suite, each list has all its tests with their
\* numbers, the summary is told if it is asked for, and its counts and headline
\* and the exit code say what the tests say.
ReportIsWhole ==
  at = "tests" /\ exitCode \in {"0", "2"} =>
    /\ \A k \in DOMAIN sources : TestsAreOf(k)
    /\ Len(results) = Len(tests)
    /\ mode = "detail" => ToldInOrder("test") /\ SuitesAreGrouped
    /\ mode = "passthrough" => ToldInOrder("mark") /\ ListsAreWhole
    /\ SummaryIsThere
    /\ \A i \in Told("count") : printed[i].n = Cardinality(With(printed[i].text))
    /\ \A i \in Told("headline") :
         CASE printed[i].text = "FAILED!" -> exitCode = "2"
           [] printed[i].text = "OK!" -> With("PASS") = DOMAIN tests
           [] OTHER -> exitCode = "0" /\ With("PASS") # DOMAIN tests
    /\ exitCode = "2" <=> \E s \in Bad : With(s) # {}

\* Lines of marks are full but the last, and each tells the share of the tests
\* that are done: the last one, and only that, tells 100%.
ProgressReaches100 ==
  mode = "passthrough" /\ Len(results) = Len(tests) /\ stage # "tests" =>
    LET marks(i) == Cardinality({j \in Told("mark") : j < i})
        endsLine(m) == m = Len(tests) \/ m % PerLine = 0
    IN /\ \A i \in Told("percent") :
            /\ marks(i) \in 1..Len(tests) /\ endsLine(marks(i))
            /\ printed[i].n = (marks(i) * 100) \div Len(tests)
            /\ printed[i].n = 100 <=> marks(i) = Len(tests)
       /\ \A m \in 1..Len(tests) : endsLine(m) => \E i \in Told("percent") : marks(i) = m
       /\ \A i, j \in Told("percent") : marks(i) = marks(j) => i = j

\* Whoever reads that a test failed also reads why: something that differs, or
\* the exit code and the stderr that nobody expected; and for an error its cause.
FailuresAreExplained ==
  LET tellsOfBad(item) == item.kind = "number" \/ (item.kind = "test" /\ item.text \in Bad)
  IN \A k \in DOMAIN printed : tellsOfBad(printed[k]) =>
       /\ k < Len(printed)
       /\ \/ printed[k + 1].kind \in {"error", "diff", "label"}
          \/ /\ k + 1 < Len(printed)
             /\ printed[k + 1].kind = "exit code" /\ printed[k + 2].kind = "stderr"

\* The cache is left as the user wants it: a run without cache, a failing one
\* and one that only shows a text save nothing, one that runs to its end does,
\* and what was to be cleared is gone.  It is otherwise only where the system
\* does not let it, and a run that cannot save does not fail for that.
CacheAsTold ==
  /\ noCache \/ exitCode \in {"1", "signal"} \/ AsksForText => cache # "new"
  /\ AsksForText /\ exitCode = "0" => search = "argument" /\ refused = {}
  /\ "--clear-cache" \in flags /\ ~AsksForText /\ at \notin {"options", "start"} =>
       cache # "old" \/ "remove" \in refused
  /\ exitCode \in {"0", "2"} /\ at \in {"suites", "tests"} /\ ~noCache =>
       (cache = "new" <=> "save" \notin refused)
  /\ "remove" \in refused => "--clear-cache" \in flags
  /\ "save" \in refused => exitCode \in {"0", "2"} /\ ~noCache

\* A run comes to its end, however its directories are nested.
Ends == <>(exitCode # "running")
=============================================================================
