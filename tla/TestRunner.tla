----------------------------- MODULE TestRunner -----------------------------
(***************************************************************************)
(* The test runner (runner.c, and the loop of application.c and            *)
(* test-iterator.c that drives it): several runs of jcunit at once, each   *)
(* going through its own tests and sharing /tmp with the others.  Runs     *)
(* overlap whenever a test's program is jcunit itself, as most of the      *)
(* repository's own tests are, and whenever two users share a machine.     *)
(*                                                                         *)
(* Running the program is one step: what child_process_run promises is the *)
(* subject of ProgramRun.tla, and every capture here is one it allows.     *)
(***************************************************************************)
EXTENDS TestCases, Integers, Sequences

CONSTANTS
  Jobs,       \* the runs of jcunit
  Workload,   \* Workload[j]: the lists of tests run j may be given
  TempNames,  \* the names mkstemp chooses from
  NameLen(_)  \* the length of a filename

Tests == UNION {UNION {{l[i] : i \in DOMAIN l} : l \in Workload[j]} : j \in Jobs}
Names == TempNames \cup ({t.filename : t \in Tests} \ {NoName})

MaxFilename == 255        \* MAX_TEST_GIVEN_FILENAME_LEN
SizeRange   == 2 ^ 16     \* stands for the range of size_t, 2^64
PathPrefix  == 5 + 1      \* "/tmp/", and one

ASSUME WorkloadAssumption ==
  /\ \A j \in Jobs : Workload[j] \subseteq Seq(Tests)
  /\ NoName \notin TempNames
  /\ \A t \in Tests : t.given = "file" => t.content # Absent

\* From 250 to 260 characters the path overruns its buffer: undefined behaviour.
ASSUME FilenameAssumption ==
  \A t \in Tests : t.filename # NoName => NameLen(t.filename) \in (0..249) \cup (261..1024)

Statuses == {"PASS", "FAILURE", "INCOMPLETE", "ERROR", "SKIPPED"}

VARIABLES
  suite,     \* suite[j]: the tests of j, those of all its files in one list
  pc,        \* where each run is
  file,      \* test_result->given_filename, or NoName
  handle,    \* the name of the file j has open for writing, NoName when none
             \* or when that file has been unlinked meanwhile
  tmp,       \* content of each file of /tmp, Absent when there is none
  output,    \* what j captured from the program and the error code
  results,   \* the statuses of the tests done: their number is the cursor
  counts,    \* passed_count, failure_count, incomplete_count, ...
  exitCode   \* "running", then the exit code of j

vars == <<suite, pc, file, handle, tmp, output, results, counts, exitCode>>
report == <<results, counts, exitCode>>

Test(j)    == suite[j][Len(results[j]) + 1]
HasTest(j) == Len(results[j]) < Len(suite[j])
Goto(j, l) == pc' = [pc EXCEPT ![j] = l]

NoOutput == [out |-> "", err |-> "", exit |-> 0, error |-> "NONE"]

Init ==
  /\ suite \in [Jobs -> UNION {Workload[j] : j \in Jobs}]
  /\ \A j \in Jobs : suite[j] \in Workload[j]
  /\ pc = [j \in Jobs |-> "next"]
  /\ file = [j \in Jobs |-> NoName]
  /\ handle = [j \in Jobs |-> NoName]
  /\ tmp = [n \in Names |-> Absent]
  /\ output = [j \in Jobs |-> NoOutput]
  /\ results = [j \in Jobs |-> <<>>]
  /\ counts = [j \in Jobs |-> [s \in Statuses |-> 0]]
  /\ exitCode = [j \in Jobs |-> "running"]

\* jcunit_fatal_error: nothing is cleaned up.
Die(j) ==
  /\ Goto(j, "fatal")
  /\ exitCode' = [exitCode EXCEPT ![j] = "1"]
  /\ UNCHANGED <<suite, file, handle, tmp, output, results, counts>>

\* add_test_result_to_test_suite_result, and on to the next test.
Record(j, status) ==
  /\ results' = [results EXCEPT ![j] = Append(@, status)]
  /\ counts' = [counts EXCEPT ![j][status] = @ + 1]
  /\ Goto(j, "next")
  /\ UNCHANGED <<suite, handle, tmp, output, exitCode>>
-----------------------------------------------------------------------------
(* test_run: tests that are not run.                                       *)

\* compile_test: TEST_FLAG_INCOMPLETE and TEST_FLAG_SKIPPED.
Incomplete(t) == t.given = "missing" \/ \A s \in Outputs : t.expect[s] = "absent"
Skipped(t)    == t.skip

RunIncomplete(j) ==
  /\ pc[j] = "next" /\ HasTest(j)
  /\ Incomplete(Test(j))
  /\ Record(j, "INCOMPLETE")
  /\ UNCHANGED file

RunSkipped(j) ==
  /\ pc[j] = "next" /\ HasTest(j)
  /\ ~Incomplete(Test(j)) /\ Skipped(Test(j))
  /\ Record(j, "SKIPPED")
  /\ UNCHANGED file
-----------------------------------------------------------------------------
(* program_runner_test_runner: the given file.                             *)

Runs(j) ==
  /\ pc[j] = "next" /\ HasTest(j)
  /\ ~Incomplete(Test(j)) /\ ~Skipped(Test(j))

OwnFile(t) == t.given = "file"

\* @given of another type: no file is made.
UseNoFile(j) ==
  /\ Runs(j) /\ ~OwnFile(Test(j))
  /\ Goto(j, "args")
  /\ UNCHANGED <<suite, file, handle, tmp, output, report>>

Named(j) == Runs(j) /\ OwnFile(Test(j)) /\ Test(j).filename # NoName

\* The subtraction is of unsigned numbers.
FilenameTooLong(n) == (NameLen(n) - PathPrefix) % SizeRange >= MaxFilename

RejectFilename(j) ==
  /\ Named(j) /\ FilenameTooLong(Test(j).filename)
  /\ Die(j)

\* A filename is taken as it is, under /tmp.
UseFilename(j) ==
  /\ Named(j) /\ ~FilenameTooLong(Test(j).filename)
  /\ file' = [file EXCEPT ![j] = Test(j).filename]
  /\ Goto(j, "open")
  /\ UNCHANGED <<suite, handle, tmp, output, report>>

FreeTempNames == {n \in TempNames : tmp[n] = Absent}

\* mkstemp creates a file that did not exist.
UseTempName(j) ==
  /\ Runs(j) /\ OwnFile(Test(j)) /\ Test(j).filename = NoName
  /\ \E n \in FreeTempNames :
       /\ file' = [file EXCEPT ![j] = n]
       /\ tmp' = [tmp EXCEPT ![n] = ""]
  /\ Goto(j, "open")
  /\ UNCHANGED <<suite, handle, output, report>>

\* fopen "w": the file is created, or emptied.
OpenGiven(j) ==
  /\ pc[j] = "open"
  /\ tmp' = [tmp EXCEPT ![file[j]] = ""]
  /\ handle' = [handle EXCEPT ![j] = file[j]]
  /\ Goto(j, "write")
  /\ UNCHANGED <<suite, file, output, report>>

GivenFails(j) ==
  /\ \/ Runs(j) /\ OwnFile(Test(j)) /\ Test(j).filename = NoName
     \/ pc[j] = "open"
  /\ Die(j)

\* fclose writes the content out, into the file that was opened: if it was
\* unlinked since, nobody will see it.
WriteGiven(j) ==
  /\ pc[j] = "write"
  /\ tmp' = IF handle[j] = NoName THEN tmp
            ELSE [tmp EXCEPT ![handle[j]] = Test(j).content]
  /\ handle' = [handle EXCEPT ![j] = NoName]
  /\ Goto(j, "args")
  /\ UNCHANGED <<suite, file, output, report>>
-----------------------------------------------------------------------------
(* try_to_run_program                                                      *)

\* The arguments are put together in buffers of fixed size.
ArgsFit(j) ==
  /\ pc[j] = "args" /\ Test(j).fits
  /\ Goto(j, "check")
  /\ UNCHANGED <<suite, file, handle, tmp, output, report>>

ArgsTooLong(j) ==
  /\ pc[j] = "args" /\ ~Test(j).fits
  /\ Die(j)

\* The program is looked at before it is run.
CannotRunProgram(j) ==
  /\ pc[j] = "check" /\ Test(j).program \in CannotRun
  /\ output' = [output EXCEPT ![j] = [NoOutput EXCEPT !.error = Test(j).program]]
  /\ Goto(j, "cleanup")
  /\ UNCHANGED <<suite, file, handle, tmp, report>>

\* What the program finds: its own file, or the one it shares.
Input(j) == IF OwnFile(Test(j)) THEN tmp[file[j]] ELSE Test(j).content

Whole(text) == text   \* mutant: a cut output is kept

\* A stream that overflows is captured as nothing; only the error code of
\* stdout is kept.
Captured(text) == IF text = "flood" THEN "" ELSE text

RunProgram(j) ==
  /\ pc[j] = "check" /\ Test(j).program \notin CannotRun
  /\ LET r == Outcome(Test(j).program, Input(j))
     IN output' = [output EXCEPT ![j] =
          [out |-> Captured(r.out), err |-> Captured(r.err), exit |-> r.exit,
           error |-> IF r.out = "flood" THEN "output too long" ELSE "NONE"]]
  /\ Goto(j, "cleanup")
  /\ UNCHANGED <<suite, file, handle, tmp, report>>
-----------------------------------------------------------------------------
(* Cleaning up and judging.                                                *)

NamedOnly(t) == OwnFile(t) /\ t.filename # NoName   \* mutant

ToUnlink(t) == OwnFile(t)

Cleanup(j) ==
  /\ pc[j] = "cleanup"
  /\ IF ToUnlink(Test(j))
     THEN /\ tmp' = [tmp EXCEPT ![file[j]] = Absent]
          /\ handle' = [k \in Jobs |-> IF handle[k] = file[j] THEN NoName ELSE handle[k]]
     ELSE UNCHANGED <<tmp, handle>>
  /\ Goto(j, "judge")
  /\ UNCHANGED <<suite, file, output, report>>

\* compile: expected_stdout and expected_stderr are the content of the
\* requirement, NULL when there is none.
Expects(t, s) == t.expect[s] \notin {"absent", "blank"}

StreamPasses(t, s, o) == Expects(t, s) => Accepts(t.expect[s], o[s])

StderrIgnored(t, o) == o.exit # 0 /\ ~Expects(t, "err")   \* mutant

\* Non-zero exit code with unexpected stderr.
FailsUnexpectedly(t, o) == o.exit # 0 /\ o.err # "" /\ ~Expects(t, "err")

Verdict(t, o) ==
  IF o.error # "NONE" THEN "ERROR"
  ELSE IF (\A s \in Outputs : StreamPasses(t, s, o)) /\ ~FailsUnexpectedly(t, o)
       THEN "PASS" ELSE "FAILURE"

JudgeTest(j) ==
  /\ pc[j] = "judge"
  /\ Record(j, Verdict(Test(j), output[j]))
  /\ file' = [file EXCEPT ![j] = NoName]

Failed(j) == counts[j]["ERROR"] > 0 \/ counts[j]["FAILURE"] > 0

\* main: the exit code.  A run without tests ends here at once.
Finish(j) ==
  /\ pc[j] = "next" /\ ~HasTest(j)
  /\ exitCode' = [exitCode EXCEPT ![j] = IF Failed(j) THEN "2" ELSE "0"]
  /\ Goto(j, "exited")
  /\ UNCHANGED <<suite, file, handle, tmp, output, results, counts>>

Step(j) ==
  \/ RunIncomplete(j) \/ RunSkipped(j)
  \/ UseNoFile(j) \/ RejectFilename(j) \/ UseFilename(j) \/ UseTempName(j)
  \/ OpenGiven(j) \/ WriteGiven(j)
  \/ ArgsFit(j) \/ ArgsTooLong(j) \/ CannotRunProgram(j) \/ RunProgram(j)
  \/ Cleanup(j) \/ JudgeTest(j) \/ Finish(j)

Over(j) == pc[j] \in {"exited", "fatal"}

AllOver == (\A j \in Jobs : Over(j)) /\ UNCHANGED vars

Next == (\E j \in Jobs : Step(j) \/ GivenFails(j)) \/ AllOver

Spec == Init /\ [][Next]_vars
-----------------------------------------------------------------------------
Points == {"next", "open", "write", "args", "check", "cleanup", "judge",
           "exited", "fatal"}

\* Every variable keeps its type, and output that was cut is never kept.
TypeOK ==
  /\ \A j \in Jobs : suite[j] \in Workload[j]
  /\ pc \in [Jobs -> Points]
  /\ file \in [Jobs -> Names \cup {NoName}]
  /\ handle \in [Jobs -> Names \cup {NoName}]
  /\ \A j \in Jobs : pc[j] \in {"open", "write"} => file[j] # NoName
  /\ \A j \in Jobs : output[j].out # "flood" /\ output[j].err # "flood"
  /\ \A j \in Jobs : results[j] \in Seq(Statuses) /\ Len(results[j]) <= Len(suite[j])
  /\ counts \in [Jobs -> [Statuses -> Nat]]
  /\ exitCode \in [Jobs -> {"running", "0", "1", "2"}]

\* A file that jcunit made in /tmp belongs to a run that is still at the test
\* it was made for, or that died of a fatal error: tests clean up after
\* themselves, in every interleaving of runs, even of runs that share a name.
Owns(j, n) == file[j] = n /\ pc[j] \notin {"next", "judge", "exited"}

NothingLeftBehind ==
  \A n \in Names : tmp[n] # Absent => \E j \in Jobs : Owns(j, n)

\* Every verdict is the one the test deserves; so a program that fails and says
\* so on an unexpected stderr is a failure, however much it says.
VerdictsAreDeserved ==
  \A j \in Jobs : \A i \in DOMAIN results[j] : results[j][i] = Deserved(suite[j][i])

\* No two runs write a file of the same name, or of a name mkstemp may choose.
NamesApart ==
  /\ \A t \in Tests : t.filename \notin TempNames
  /\ \A j, k \in Jobs : j # k =>
       \A l \in Workload[j], m \in Workload[k] : \A h \in DOMAIN l, i \in DOMAIN m :
         OwnFile(l[h]) /\ OwnFile(m[i]) /\ l[h].filename = m[i].filename
           => l[h].filename = NoName

\* A test that is judged as Deserved says when it is run alone.  The others are
\* a skipped test that could not have run, a "blank" expectation of a program
\* that is not silent, and a stderr that overflows unnoticed.
JudgedAsMeant(t) ==
  LET r == Outcome(t.program, t.content)
  IN IF Incomplete(t) THEN ~Skipped(t)
     ELSE \/ Skipped(t) \/ t.program \in CannotRun
          \/ /\ \A s \in Outputs : t.expect[s] = "blank" => r[s] = ""
             /\ r.err = "flood" => t.expect["err"] \notin {"", "flood"}
             /\ r.err = "flood" /\ t.expect["err"] = "absent" => r.exit = 0

\* The promise of TestReport.tla is kept: verdicts are given in order, one per
\* test, and the exit code tells whether any test failed or could not be run.
Abs == INSTANCE TestReport WITH verdicts <- results, exit <- exitCode

ImplementsTestReport == Abs!Spec
=============================================================================
