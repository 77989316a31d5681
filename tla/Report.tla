-------------------------------- MODULE Report --------------------------------
(***************************************************************************)
(* Running all tests and telling the user (run_suites of application.c,    *)
(* test-iterator.c, show-result.c): in detail mode every test is told with *)
(* its suite as it ends; in passthrough mode there is one character for    *)
(* each test, and a list of the errors and of the failures at the end.     *)
(*                                                                         *)
(* What is printed is a sequence of items; the texts in them, and colors,  *)
(* are left out.  What running a test comes to is a record:                *)
(*   flag    - "run", or the status of a test that is not run              *)
(*   error   - the error code of the captured stdout                       *)
(*   expects - the streams it has expectations of                          *)
(*   wrong   - those of them that were not met                             *)
(*   exit    - the exit code of the program                                *)
(*   noisy   - it wrote to its stderr                                      *)
(***************************************************************************)
EXTENDS Naturals, Sequences, FiniteSets

CONSTANT PerLine   \* TEST_RESULT_PER_LINE

ASSUME ReportAssumption == PerLine \in Nat \ {0}

VARIABLES
  tests,      \* the tests of the iterator: a suite, and what running it comes to
  stage,      \* what is printed next
  results,    \* the results so far: their number is the cursor
  counts,     \* passed_count, failure_count, ...
  inLine,     \* test_result_in_line
  next,       \* the result that the list of errors or failures is at
  number,     \* error_number, failure_number
  printed     \* the report

reportVars == <<tests, stage, results, counts, inLine, next, number, printed>>
unprinted == <<tests, stage, results, counts, inLine, next, number>>

Statuses == {"PASS", "FAILURE", "INCOMPLETE", "ERROR", "SKIPPED"}

Streams == {"out", "err"}

Cases ==
  [flag : {"run", "SKIPPED", "INCOMPLETE"}, error : STRING, expects : SUBSET Streams,
   wrong : SUBSET Streams, exit : Nat, noisy : BOOLEAN]

ReportInit ==
  /\ tests = <<>> /\ results = <<>>
  /\ stage = "tests"
  /\ counts = [s \in Statuses |-> 0]
  /\ inLine = 0 /\ next = 1 /\ number = 0
  /\ printed = <<>>

Item(kind, text, n) == [kind |-> kind, text |-> text, n |-> n]

If(condition, item) == IF condition THEN <<item>> ELSE <<>>
-----------------------------------------------------------------------------
(* The result of a test (runner.c), and how it is explained.               *)

Unexpected(c) == c.wrong = {} /\ c.exit # 0 /\ c.noisy /\ "err" \notin c.expects

Result(c) ==
  LET status ==
        CASE c.flag # "run" -> c.flag
          [] c.flag = "run" /\ c.error # "NONE" -> "ERROR"
          [] c.flag = "run" /\ c.error = "NONE" ->
               IF c.wrong # {} \/ Unexpected(c) THEN "FAILURE" ELSE "PASS"
  IN [status |-> status, error |-> c.error, expects |-> c.expects,
      diffs |-> IF status = "FAILURE" THEN c.wrong ELSE {},
      exit |-> c.exit, noisy |-> c.noisy]

\* print_error
Error(r) == If(r.error # "NONE", Item("error", r.error, 0))

\* print_stderr_output: not when the test says what stderr should be.
Stderr(r) == If(r.noisy /\ "err" \notin r.expects, Item("stderr", "", 0))

\* print_stream_diffs, print_exit_code: streams are labelled when both differ.
DiffOf(r, s) ==
  IF s \in r.diffs
  THEN If(Cardinality(r.diffs) = 2, Item("label", s, 0)) \o <<Item("diff", s, 0)>>
  ELSE <<>>

OnlyDiffs(r) == DiffOf(r, "out") \o DiffOf(r, "err")   \* mutant

Failure(r) ==
  DiffOf(r, "out") \o DiffOf(r, "err")
    \o If(r.exit # 0, Item("exit code", "", r.exit)) \o Stderr(r)
-----------------------------------------------------------------------------
(* Running the tests: test_iterator_visit, test_runner.                    *)

Visiting == stage = "tests" /\ Len(results) < Len(tests)

SuiteOf(k) == tests[k].suite

\* add_test_result_to_test_suite_result
Visit(r) ==
  /\ results' = Append(results, r)
  /\ counts' = [counts EXCEPT ![r.status] = @ + 1]

FirstTest(k) == k = 1   \* mutant

NewSuite(k) == k = 1 \/ SuiteOf(k) # SuiteOf(k - 1)

Header(k) == If(NewSuite(k), Item("suite", "", SuiteOf(k)))

\* The header of a suite comes before its first test, an empty line after its last.
VisitInDetail ==
  /\ Visiting
  /\ LET k == Len(results) + 1
         r == Result(tests[k].case)
     IN /\ Visit(r)
        /\ printed' = printed \o Header(k)
             \o <<Item("test", r.status, k)>>
             \o (CASE r.status = "ERROR" -> Error(r)
                   [] r.status = "FAILURE" -> Failure(r)
                   [] OTHER -> <<>>)
             \o If(k = Len(tests) \/ SuiteOf(k) # SuiteOf(k + 1), Item("empty line", "", 0))
  /\ UNCHANGED <<tests, stage, inLine, next, number>>

PercentBefore(n) == (Len(results) * 100) \div Len(tests)   \* mutant: before the test

\* Of the n tests that are done.
Percent(n) == (n * 100) \div Len(tests)

VisitInPassthrough ==
  /\ Visiting
  /\ LET k == Len(results) + 1
         r == Result(tests[k].case)
     IN /\ Visit(r)
        /\ inLine' = (inLine + 1) % PerLine
        /\ printed' = printed \o <<Item("mark", r.status, k)>>
             \o If(inLine + 1 = PerLine, Item("percent", "", Percent(k)))
  /\ UNCHANGED <<tests, stage, next, number>>

AllVisited == stage = "tests" /\ Len(results) = Len(tests)

EndDetail ==
  /\ AllVisited
  /\ stage' = "summary"
  /\ UNCHANGED <<tests, results, counts, inLine, next, number, printed>>

\* The last line is filled up.
EndPassthrough ==
  /\ AllVisited
  /\ printed' = printed
       \o (IF inLine = 0 THEN <<>>
           ELSE <<Item("spaces", "", PerLine - inLine), Item("percent", "", 100)>>)
       \o <<Item("empty line", "", 0)>>
  /\ stage' = "ERROR"
  /\ UNCHANGED <<tests, results, counts, inLine, next, number>>
-----------------------------------------------------------------------------
(* The lists at the end of passthrough mode: stage is the status listed.   *)

Bad == {"ERROR", "FAILURE"}

AfterList(s) == IF s = "ERROR" THEN "FAILURE" ELSE "summary"

BeginList ==
  /\ stage \in Bad
  /\ IF counts[stage] = 0
     THEN stage' = AfterList(stage) /\ UNCHANGED printed
     ELSE /\ stage' = IF stage = "ERROR" THEN "list errors" ELSE "list failures"
          /\ printed' = printed
               \o If(stage = "FAILURE" /\ counts["ERROR"] > 0, Item("---", "", 0))
               \o <<Item("there are", stage, counts[stage])>>
  /\ next' = 1 /\ number' = 0
  /\ UNCHANGED <<tests, results, counts, inLine>>

Listed == IF stage = "list errors" THEN "ERROR" ELSE "FAILURE"

IsBad(r) == r.status \in Bad      \* mutant

IsListed(r) == r.status = Listed

\* show_error_test_result, show_failure_test_result
ListNext ==
  /\ stage \in {"list errors", "list failures"} /\ next <= Len(results)
  /\ LET r == results[next]
     IN IF IsListed(r)
        THEN /\ number' = number + 1
             /\ printed' = printed
                  \o <<Item("entry", Listed, next), Item("number", "", number + 1)>>
                  \o (IF Listed = "ERROR" THEN Error(r) \o Stderr(r) ELSE Failure(r))
        ELSE UNCHANGED <<number, printed>>
  /\ next' = next + 1
  /\ UNCHANGED <<tests, stage, results, counts, inLine>>

EndList ==
  /\ stage \in {"list errors", "list failures"} /\ next > Len(results)
  /\ printed' = Append(printed, Item("empty line", "", 0))
  /\ stage' = AfterList(Listed)
  /\ UNCHANGED <<tests, results, counts, inLine, next, number>>
-----------------------------------------------------------------------------
(* print_final_summary, print_summary_line                                 *)

HasFailures == counts["FAILURE"] > 0 \/ counts["ERROR"] > 0
HasWarnings == counts["SKIPPED"] > 0 \/ counts["INCOMPLETE"] > 0

Headline ==
  IF HasFailures THEN "FAILED!" ELSE IF HasWarnings THEN "OK, but" ELSE "OK!"

\* mutant: none of the incomplete ones
FourCounts ==
  [k \in 1..4 |->
     LET s == <<"PASS", "SKIPPED", "ERROR", "FAILURE">>[k] IN Item("count", s, counts[s])]

SummaryLine ==
  [k \in 1..5 |->
     LET s == <<"PASS", "SKIPPED", "ERROR", "FAILURE", "INCOMPLETE">>[k]
     IN Item("count", s, counts[s])]

FinalSummary ==
  <<Item("time", "", 0), Item("headline", Headline, 0)>> \o SummaryLine

Summary(inDetail, noSummary) ==
  /\ stage = "summary"
  /\ printed' = printed \o
       IF ~noSummary THEN FinalSummary ELSE IF inDetail THEN <<>> ELSE SummaryLine
  /\ stage' = "over"
  /\ UNCHANGED <<tests, results, counts, inLine, next, number>>

RunSuites(inDetail, noSummary) ==
  \/ inDetail /\ (VisitInDetail \/ EndDetail)
  \/ ~inDetail /\ (VisitInPassthrough \/ EndPassthrough \/ BeginList \/ ListNext \/ EndList)
  \/ Summary(inDetail, noSummary)
-----------------------------------------------------------------------------
ReportTypeOK ==
  /\ stage \in Bad \cup {"tests", "list errors", "list failures", "summary", "over"}
  /\ Len(results) <= Len(tests)
  /\ \A k \in DOMAIN results : results[k].status \in Statuses
  /\ counts \in [Statuses -> 0..Len(tests)]
  /\ inLine \in 0..(PerLine - 1)
  /\ next \in 1..(Len(tests) + 1) /\ number \in 0..Len(tests)

\* Where the items of a kind stand.
Told(kind) == {i \in DOMAIN printed : printed[i].kind = kind}

With(status) == {k \in DOMAIN results : results[k].status = status}

\* The tests are told once each, in their order.
ToldInOrder(kind) ==
  /\ {printed[i].n : i \in Told(kind)} = DOMAIN results
  /\ \A i, j \in Told(kind) : i < j => printed[i].n < printed[j].n
  /\ \A i \in Told(kind) : printed[i].text = results[printed[i].n].status
=============================================================================
