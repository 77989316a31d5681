-------------------------- MODULE TestRunnerProofs --------------------------
(***************************************************************************)
(* Proofs about TestRunner.tla, for any number of runs, whatever their     *)
(* tests, filenames and programs: runs that share filenames included.      *)
(*                                                                         *)
(* NothingLeftBehind is not inductive.  FileInv adds that a run which has  *)
(* no file of its own keeps no name, and that what it holds open is the    *)
(* file it is at.                                                          *)
(***************************************************************************)
EXTENDS TestRunner, TLAPS

\* Where a run is between choosing its file and judging the test.
AtTest == {"open", "write", "args", "check", "cleanup"}

FileInv ==
  \A j \in Jobs :
    /\ pc[j] = "next" => file[j] = NoName
    /\ pc[j] \in AtTest => OwnFile(Test(j)) \/ file[j] = NoName
    /\ pc[j] \in AtTest \cup {"judge"} => HasTest(j)
    /\ pc[j] = "write" => handle[j] \in {NoName, file[j]}

\* What TypeOK leaves out: whose output and results there are, and which files.
DomainInv == DOMAIN output = Jobs /\ DOMAIN results = Jobs /\ DOMAIN tmp = Names

Inv == TypeOK /\ DomainInv /\ FileInv /\ NothingLeftBehind
-----------------------------------------------------------------------------
\* The test a run is at is one of its tests.
LEMMA TestIsTest ==
  ASSUME TypeOK, NEW j \in Jobs, HasTest(j)
  PROVE  Test(j) \in Tests
<1>1. suite[j] \in Workload[j] /\ suite[j] \in Seq(Tests)
  BY WorkloadAssumption DEF TypeOK
<1>2. Len(results[j]) \in Nat /\ Len(results[j]) < Len(suite[j])
  BY DEF TypeOK, HasTest
<1> QED  BY <1>1, <1>2 DEF Test

\* A filename is one of the names of /tmp.
LEMMA FilenameIsName ==
  ASSUME TypeOK, NEW j \in Jobs, HasTest(j), Test(j).filename # NoName
  PROVE  Test(j).filename \in Names
  BY TestIsTest DEF Names

LEMMA NamesAssumption == NoName \notin Names
  BY WorkloadAssumption DEF Names

\* It is enough that every owner stays one, and that a file which is new has one.
LEMMA OwnersStay ==
  ASSUME NothingLeftBehind,
         \A k \in Jobs, n \in Names :
           Owns(k, n) => Owns(k, n)' \/ tmp'[n] = Absent,
         \A n \in Names :
           tmp'[n] # Absent => tmp[n] # Absent \/ \E k \in Jobs : Owns(k, n)'
  PROVE  NothingLeftBehind'
  BY DEF NothingLeftBehind

LEMMA InitInv == Init => Inv
<1> SUFFICES ASSUME Init PROVE Inv
  OBVIOUS
<1>1. TypeOK
  <2>1. \A j \in Jobs : results[j] \in Seq(Statuses) /\ Len(results[j]) = 0
    BY DEF Init
  <2>2. \A j \in Jobs : suite[j] \in Workload[j] /\ suite[j] \in Seq(Tests)
    BY WorkloadAssumption DEF Init
  <2>3. \A j \in Jobs : Len(results[j]) <= Len(suite[j])
    BY <2>1, <2>2
  <2>4. \A j \in Jobs : output[j].out # "flood" /\ output[j].err # "flood"
    BY DEF Init, NoOutput
  <2>5. counts \in [Jobs -> [Statuses -> Nat]]
    BY DEF Init
  <2> QED
    BY <2>1, <2>2, <2>3, <2>4, <2>5 DEF Init, TypeOK, Points
<1>2. DomainInv /\ FileInv /\ NothingLeftBehind
  BY DEF Init, DomainInv, FileInv, NothingLeftBehind, AtTest
<1> QED  BY <1>1, <1>2 DEF Inv
-----------------------------------------------------------------------------
\* A run that dies leaves everything as it is; the file it was at stays its own.
LEMMA DieInv ==
  ASSUME Inv, NEW j \in Jobs, Die(j)
  PROVE  Inv'
<1>1. TypeOK'
  BY DEF Inv, TypeOK, Die, Goto, Points
<1>2. DomainInv' /\ FileInv'
  BY DEF Inv, TypeOK, DomainInv, FileInv, Die, Goto, AtTest, OwnFile, Test, HasTest
<1>3. NothingLeftBehind'
  BY DEF Inv, TypeOK, NothingLeftBehind, Owns, Die, Goto
<1> QED  BY <1>1, <1>2, <1>3 DEF Inv

\* Recording a verdict ends the test: the run has no file any more.
LEMMA RecordInv ==
  ASSUME Inv, NEW j \in Jobs, NEW s \in Statuses, Record(j, s), HasTest(j),
         pc[j] \in {"next", "judge"}, file' = [file EXCEPT ![j] = NoName]
  PROVE  Inv'
<1>1. results'[j] \in Seq(Statuses) /\ Len(results'[j]) = Len(results[j]) + 1
  BY DEF Inv, TypeOK, DomainInv, Record
<1>2. Len(results'[j]) <= Len(suite'[j])
  <2>1. suite[j] \in Seq(Tests)
    BY WorkloadAssumption DEF Inv, TypeOK
  <2> QED  BY <1>1, <2>1 DEF Record, HasTest, Inv, TypeOK
<1>3. \A k \in Jobs \ {j} : results'[k] = results[k]
  BY DEF Inv, TypeOK, Record
<1>4. counts' \in [Jobs -> [Statuses -> Nat]]
  <2>1. counts[j][s] + 1 \in Nat
    BY DEF Inv, TypeOK
  <2> QED  BY <2>1 DEF Inv, TypeOK, Record
<1>5. TypeOK'
  <2>1. \A k \in Jobs : results'[k] \in Seq(Statuses) /\ Len(results'[k]) <= Len(suite'[k])
    BY <1>1, <1>2, <1>3 DEF Inv, TypeOK, Record
  <2> QED  BY <2>1, <1>4 DEF Inv, TypeOK, Record, Goto, Points
<1>6. DomainInv' /\ FileInv'
  BY <1>3 DEF Inv, TypeOK, DomainInv, FileInv, Record, Goto, AtTest, Test, HasTest
<1>7. NothingLeftBehind'
  BY DEF Inv, TypeOK, NothingLeftBehind, Owns, Record, Goto
<1> QED  BY <1>5, <1>6, <1>7 DEF Inv
-----------------------------------------------------------------------------
(* One lemma for each group of steps of a run.                             *)

\* A step that only moves a run on inside its test.
LEMMA MoveInv ==
  ASSUME Inv, NEW j \in Jobs,
         \/ UseNoFile(j) \/ ArgsFit(j)
  PROVE  Inv'
<1>1. TypeOK'
  BY DEF Inv, TypeOK, UseNoFile, ArgsFit, Goto, Points, report
<1>2. DomainInv' /\ FileInv'
  BY DEF Inv, TypeOK, DomainInv, FileInv, UseNoFile, ArgsFit, Runs, Goto, AtTest,
     OwnFile, Test, HasTest, report
<1>3. NothingLeftBehind'
  <2>1. tmp' = tmp /\ file' = file
    BY DEF UseNoFile, ArgsFit, report
  <2>2. ASSUME NEW k \in Jobs, NEW n \in Names, Owns(k, n) PROVE Owns(k, n)'
    <3>1. pc'[k] = pc[k] \/ pc'[k] \in {"args", "check"}
      BY DEF Inv, TypeOK, UseNoFile, ArgsFit, Goto
    <3> QED  BY <2>1, <2>2, <3>1 DEF Owns
  <2> QED  BY <2>1, <2>2, OwnersStay DEF Inv
<1> QED  BY <1>1, <1>2, <1>3 DEF Inv

\* A filename is taken from a test, or from mkstemp.
LEMMA UseInv ==
  ASSUME Inv, NEW j \in Jobs, UseFilename(j) \/ UseTempName(j)
  PROVE  Inv'
<1>1. PICK n \in Names : file' = [file EXCEPT ![j] = n] /\ n # NoName
               /\ (tmp' = tmp \/ tmp' = [tmp EXCEPT ![n] = ""])
  <2>1. CASE UseFilename(j)
    BY <2>1, FilenameIsName DEF Inv, UseFilename, Named, Runs
  <2>2. CASE UseTempName(j)
    BY <2>2, NamesAssumption DEF UseTempName, FreeTempNames, Names
  <2> QED  BY <2>1, <2>2
<1>2. /\ Runs(j) /\ OwnFile(Test(j)) /\ pc' = [pc EXCEPT ![j] = "open"]
      /\ UNCHANGED <<suite, handle, output, results, counts, exitCode>>
  BY DEF UseFilename, UseTempName, Named, Goto, report
<1>3. TypeOK'
  BY <1>1, <1>2 DEF Inv, TypeOK, Points
<1>4. DomainInv' /\ FileInv'
  BY <1>1, <1>2 DEF Inv, TypeOK, DomainInv, FileInv, Runs, AtTest, OwnFile, Test, HasTest
<1>5. NothingLeftBehind'
  <2>1. ASSUME NEW k \in Jobs, NEW m \in Names, Owns(k, m) PROVE Owns(k, m)'
    <3>1. k # j /\ pc'[k] = pc[k] /\ file'[k] = file[k]
      BY <1>1, <1>2, <2>1 DEF Inv, TypeOK, Owns, Runs
    <3> QED  BY <2>1, <3>1 DEF Owns
  <2>2. Owns(j, n)'
    BY <1>1, <1>2 DEF Inv, TypeOK, Owns
  <2>3. \A m \in Names \ {n} : tmp'[m] = tmp[m]
    BY <1>1 DEF Inv, DomainInv
  <2> QED  BY <2>1, <2>2, <2>3, OwnersStay DEF Inv
<1> QED  BY <1>3, <1>4, <1>5 DEF Inv

LEMMA OpenInv ==
  ASSUME Inv, NEW j \in Jobs, OpenGiven(j)
  PROVE  Inv'
<1>1. file[j] \in Names /\ file[j] # NoName
  BY DEF Inv, TypeOK, OpenGiven
<1>2. TypeOK'
  BY <1>1 DEF Inv, TypeOK, OpenGiven, Goto, Points, report
<1>3. DomainInv' /\ FileInv'
  BY <1>1 DEF Inv, TypeOK, DomainInv, FileInv, OpenGiven, Goto, AtTest, OwnFile, Test,
     HasTest, report
<1>4. NothingLeftBehind'
  BY <1>1 DEF Inv, TypeOK, DomainInv, NothingLeftBehind, Owns, OpenGiven, Goto, report
<1> QED  BY <1>2, <1>3, <1>4 DEF Inv

\* What is written goes into the run's own file, or into none.
LEMMA WriteInv ==
  ASSUME Inv, NEW j \in Jobs, WriteGiven(j)
  PROVE  Inv'
<1>1. handle[j] \in {NoName, file[j]} /\ file[j] \in Names /\ file[j] # NoName
  BY DEF Inv, TypeOK, FileInv, WriteGiven
<1>2. TypeOK'
  BY <1>1 DEF Inv, TypeOK, WriteGiven, Goto, Points, report
<1>3. DomainInv' /\ FileInv'
  BY <1>1 DEF Inv, TypeOK, DomainInv, FileInv, WriteGiven, Goto, AtTest, OwnFile, Test,
     HasTest, report
<1>4. NothingLeftBehind'
  BY <1>1 DEF Inv, TypeOK, DomainInv, NothingLeftBehind, Owns, WriteGiven, Goto, report
<1> QED  BY <1>2, <1>3, <1>4 DEF Inv

\* The program is run, or cannot be: whatever it writes, a capture that
\* overflowed is not kept.
LEMMA RunInv ==
  ASSUME Inv, NEW j \in Jobs, CannotRunProgram(j) \/ RunProgram(j)
  PROVE  Inv'
<1>1. PICK o : /\ output' = [output EXCEPT ![j] = o]
               /\ o.out # "flood" /\ o.err # "flood"
  <2>1. CASE CannotRunProgram(j)
    <3> DEFINE o == [NoOutput EXCEPT !.error = Test(j).program]
    <3>1. o.out # "flood" /\ o.err # "flood"
      BY DEF NoOutput
    <3>2. output' = [output EXCEPT ![j] = o]
      BY <2>1 DEF CannotRunProgram
    <3> QED  BY <3>1, <3>2
  <2>2. CASE RunProgram(j)
    <3> DEFINE r == Outcome(Test(j).program, Input(j))
               o == [out |-> Captured(r.out), err |-> Captured(r.err), exit |-> r.exit,
                     error |-> IF r.out = "flood" THEN "output too long" ELSE "NONE"]
    <3>1. o.out # "flood" /\ o.err # "flood"
      BY DEF Captured
    <3>2. output' = [output EXCEPT ![j] = o]
      BY <2>2 DEF RunProgram
    <3> QED  BY <3>1, <3>2
  <2> QED  BY <2>1, <2>2
<1>2. /\ pc[j] = "check" /\ pc' = [pc EXCEPT ![j] = "cleanup"]
      /\ UNCHANGED <<suite, file, handle, tmp, results, counts, exitCode>>
  BY DEF CannotRunProgram, RunProgram, Goto, report
<1>3. TypeOK'
  BY <1>1, <1>2 DEF Inv, TypeOK, DomainInv, Points
<1>4. DomainInv' /\ FileInv'
  BY <1>1, <1>2 DEF Inv, TypeOK, DomainInv, FileInv, AtTest, OwnFile, Test, HasTest
<1>5. NothingLeftBehind'
  BY <1>2 DEF Inv, TypeOK, NothingLeftBehind, Owns
<1> QED  BY <1>3, <1>4, <1>5 DEF Inv

\* Whoever made the file, the run that is done with it unlinks it.
LEMMA CleanupInv ==
  ASSUME Inv, NEW j \in Jobs, Cleanup(j)
  PROVE  Inv'
<1>1. /\ pc[j] = "cleanup" /\ pc' = [pc EXCEPT ![j] = "judge"]
      /\ UNCHANGED <<suite, file, output, results, counts, exitCode>>
  BY DEF Cleanup, Goto, report
<1>2. TypeOK' /\ DomainInv'
  BY <1>1 DEF Inv, TypeOK, DomainInv, Cleanup, Points
<1>3. FileInv'
  BY <1>1 DEF Inv, TypeOK, FileInv, Cleanup, AtTest, OwnFile, Test, HasTest
<1>4. NothingLeftBehind'
  <2>1. CASE ToUnlink(Test(j))
    <3>1. \A n \in Names : tmp'[n] = IF n = file[j] THEN Absent ELSE tmp[n]
      BY <2>1 DEF Cleanup, Inv, DomainInv
    <3>2. ASSUME NEW k \in Jobs, NEW n \in Names, Owns(k, n)
          PROVE  Owns(k, n)' \/ tmp'[n] = Absent
      <4>1. CASE k = j
        BY <3>1, <3>2, <4>1 DEF Owns
      <4>2. CASE k # j
        BY <1>1, <3>2, <4>2 DEF Inv, TypeOK, Owns
      <4> QED  BY <4>1, <4>2
    <3> QED  BY <3>1, <3>2, OwnersStay DEF Inv
  <2>2. CASE ~ToUnlink(Test(j))
    <3>1. file[j] = NoName /\ tmp' = tmp
      BY <1>1, <2>2 DEF Inv, FileInv, AtTest, ToUnlink, Cleanup
    <3> QED
      BY <1>1, <3>1, NamesAssumption DEF Inv, TypeOK, NothingLeftBehind, Owns
  <2> QED  BY <2>1, <2>2
<1> QED  BY <1>2, <1>3, <1>4 DEF Inv

LEMMA FinishInv ==
  ASSUME Inv, NEW j \in Jobs, Finish(j)
  PROVE  Inv'
<1>1. TypeOK' /\ DomainInv'
  BY DEF Inv, TypeOK, DomainInv, Finish, Goto, Points
<1>2. FileInv'
  BY DEF Inv, TypeOK, FileInv, Finish, Goto, AtTest, OwnFile, Test, HasTest
<1>3. NothingLeftBehind'
  BY DEF Inv, TypeOK, NothingLeftBehind, Owns, Finish, Goto
<1> QED  BY <1>1, <1>2, <1>3 DEF Inv

LEMMA NextInv == Inv /\ [Next]_vars => Inv'
<1> SUFFICES ASSUME Inv, [Next]_vars PROVE Inv'
  OBVIOUS
<1>1. CASE UNCHANGED vars
  BY <1>1 DEF vars, Inv, TypeOK, DomainInv, FileInv, NothingLeftBehind, Owns, Test, HasTest
<1>2. ASSUME NEW j \in Jobs, Step(j) \/ GivenFails(j) PROVE Inv'
  <2>1. CASE RunIncomplete(j) \/ RunSkipped(j)
    <3>1. file' = [file EXCEPT ![j] = NoName]
      BY <2>1 DEF RunIncomplete, RunSkipped, Inv, TypeOK, FileInv
    <3> QED
      BY <2>1, <3>1, RecordInv DEF RunIncomplete, RunSkipped, Statuses
  <2>2. CASE RejectFilename(j) \/ ArgsTooLong(j) \/ GivenFails(j)
    BY <2>2, DieInv DEF RejectFilename, ArgsTooLong, GivenFails
  <2>3. CASE JudgeTest(j)
    <3>1. HasTest(j)
      BY <2>3 DEF JudgeTest, Inv, FileInv
    <3>2. Verdict(Test(j), output[j]) \in Statuses
      BY DEF Verdict, Statuses
    <3> QED
      BY <2>3, <3>1, <3>2, RecordInv DEF JudgeTest
  <2> QED
    BY <1>2, <2>1, <2>2, <2>3, MoveInv, UseInv, OpenInv, WriteInv, RunInv, CleanupInv,
       FinishInv DEF Step
<1> QED  BY <1>1, <1>2 DEF Next, AllOver
-----------------------------------------------------------------------------
LEMMA InvHolds == Spec => []Inv
  BY InitInv, NextInv, PTL DEF Spec

\* Every variable keeps its type, and output that overflowed its buffer is
\* never kept to be judged.
THEOREM TypeCorrect == Spec => []TypeOK
  BY InvHolds, PTL DEF Inv

\* Every file that jcunit has made in /tmp has a run that is still to unlink
\* it or has died: also when runs share filenames and overwrite or unlink each
\* other's files at any point.
THEOREM TidyUp == Spec => []NothingLeftBehind
  BY InvHolds, PTL DEF Inv
-----------------------------------------------------------------------------
(***************************************************************************)
(* Runs that do not disturb each other implement TestReport.tla.  The      *)
(* refinement rests on what ApartInv adds: a file has one run that is at   *)
(* it, which finds in it what it wrote there, so that what is judged is    *)
(* what the program makes of the test's own content.                       *)
(***************************************************************************)

RunsApart == NamesApart /\ \A t \in Tests : JudgedAsMeant(t)

\* No two runs are at the same file, and a file that mkstemp made stays there
\* until its run unlinks it.
OwnersApart ==
  /\ \A j, k \in Jobs : pc[j] \in AtTest /\ pc[k] \in AtTest /\ file[j] = file[k]
                        => j = k \/ file[j] = NoName
  /\ \A j \in Jobs : pc[j] \in AtTest /\ file[j] # NoName =>
       IF file[j] \in TempNames THEN tmp[file[j]] # Absent
       ELSE file[j] = Test(j).filename

\* A run that is at a test runs it, from its own file when it has one, and
\* judges what it deserves.
RunsItsTest(j) ==
  /\ pc[j] \in AtTest => ~Incomplete(Test(j)) /\ ~Skipped(Test(j))
  /\ pc[j] \in AtTest /\ OwnFile(Test(j)) => file[j] # NoName
  /\ pc[j] = "write" => handle[j] = file[j]
  /\ pc[j] \in {"args", "check"} /\ OwnFile(Test(j)) => tmp[file[j]] = Test(j).content
  /\ pc[j] \in {"cleanup", "judge"} => Verdict(Test(j), output[j]) = Deserved(Test(j))

\* The exit code tells which runs have ended, the counts what was recorded.
Accounts(j) ==
  /\ exitCode[j] = "running" <=> ~Over(j)
  /\ \A s \in Statuses : counts[j][s] > 0 <=> \E i \in DOMAIN results[j] : results[j][i] = s

ApartInv == OwnersApart /\ \A j \in Jobs : RunsItsTest(j) /\ Accounts(j)

LEMMA InitApart == Init => ApartInv
<1> SUFFICES ASSUME Init PROVE ApartInv
  OBVIOUS
<1>1. OwnersApart
  BY DEF Init, OwnersApart, AtTest
<1>2. ASSUME NEW j \in Jobs PROVE RunsItsTest(j) /\ Accounts(j)
  <2>1. RunsItsTest(j)
    BY DEF Init, RunsItsTest, AtTest
  <2>2. DOMAIN results[j] = {} /\ \A s \in Statuses : counts[j][s] = 0
    BY DEF Init
  <2>3. Accounts(j)
    BY <2>2 DEF Init, Accounts, Over
  <2> QED  BY <2>1, <2>3
<1> QED  BY <1>1, <1>2 DEF ApartInv

\* What a test that ran deserves is what its output is judged to be.
LEMMA VerdictIsDeserved ==
  ASSUME NEW t, JudgedAsMeant(t), ~Incomplete(t), ~Skipped(t), t.program \notin CannotRun,
         NEW r, r = Outcome(t.program, t.content), NEW o,
         o = [out |-> Captured(r.out), err |-> Captured(r.err), exit |-> r.exit,
              error |-> IF r.out = "flood" THEN "output too long" ELSE "NONE"]
  PROVE  Verdict(t, o) = Deserved(t)
<1> DEFINE Wrong(s) == t.expect[s] # "absent" /\ ~Accepts(Meant(t.expect[s]), r[s])
           unexplained == r.exit # 0 /\ r.err # "" /\ t.expect["err"] = "absent"
<1>1. Deserved(t) = IF r.out = "flood" THEN "ERROR"
                    ELSE IF unexplained \/ \E s \in Outputs : Wrong(s) THEN "FAILURE"
                    ELSE "PASS"
  BY DEF Deserved, Incomplete, Skipped
<1>2. o.out = Captured(r.out) /\ o.err = Captured(r.err) /\ o.exit = r.exit
      /\ o.error = IF r.out = "flood" THEN "output too long" ELSE "NONE"
  OBVIOUS
<1>3. CASE r.out = "flood"
  BY <1>1, <1>2, <1>3 DEF Verdict
<1>4. CASE r.out # "flood"
  <2>1. /\ \A s \in Outputs : t.expect[s] = "blank" => r[s] = ""
        /\ r.err = "flood" => t.expect["err"] \notin {"", "flood"}
        /\ r.err = "flood" /\ t.expect["err"] = "absent" => r.exit = 0
    BY DEF JudgedAsMeant
  <2>2. o["out"] = r["out"]
    BY <1>2, <1>4 DEF Captured
  <2>3. StreamPasses(t, "out", o) <=> ~Wrong("out")
    BY <2>1, <2>2 DEF StreamPasses, Expects, Accepts, Meant, Outputs
  <2>4. o["err"] = IF r["err"] = "flood" THEN "" ELSE r["err"]
    BY <1>2 DEF Captured
  <2>5. StreamPasses(t, "err", o) <=> ~Wrong("err")
    <3>1. CASE t.expect["err"] = "blank"
      BY <2>1, <3>1 DEF StreamPasses, Expects, Accepts, Meant, Outputs
    <3>2. CASE t.expect["err"] = "absent"
      BY <3>2 DEF StreamPasses, Expects
    <3>3. CASE t.expect["err"] \notin {"blank", "absent"}
      BY <2>1, <2>4, <3>3 DEF StreamPasses, Expects, Accepts, Meant
    <3> QED  BY <3>1, <3>2, <3>3
  <2>6. FailsUnexpectedly(t, o) <=> unexplained
    <3>1. CASE t.expect["err"] = "blank"
      BY <1>2, <2>1, <2>4, <3>1 DEF FailsUnexpectedly, Expects, Outputs
    <3>2. CASE t.expect["err"] # "blank"
      BY <1>2, <2>1, <2>4, <3>2 DEF FailsUnexpectedly, Expects
    <3> QED  BY <3>1, <3>2
  <2>7. (\A s \in Outputs : StreamPasses(t, s, o)) <=> ~(\E s \in Outputs : Wrong(s))
    BY <2>3, <2>5 DEF Outputs
  <2> HIDE DEF Wrong, unexplained
  <2> QED  BY <1>1, <1>2, <1>4, <2>6, <2>7 DEF Verdict
<1> QED  BY <1>3, <1>4
-----------------------------------------------------------------------------
\* A step of run j leaves the others as they are, but for what is in /tmp and
\* for the file they have open.
OthersStay(j) ==
  \A k \in Jobs \ {j} :
    /\ pc'[k] = pc[k] /\ file'[k] = file[k] /\ output'[k] = output[k]
    /\ results'[k] = results[k] /\ counts'[k] = counts[k] /\ exitCode'[k] = exitCode[k]

LEMMA StepOthers ==
  ASSUME Inv, NEW j \in Jobs, Step(j) \/ GivenFails(j)
  PROVE  OthersStay(j) /\ suite' = suite
<1> USE DEF Inv, TypeOK, DomainInv, OthersStay
<1>1. CASE RunIncomplete(j) \/ RunSkipped(j) \/ JudgeTest(j)
  BY <1>1 DEF RunIncomplete, RunSkipped, JudgeTest, Record, Goto
<1>2. CASE RejectFilename(j) \/ ArgsTooLong(j) \/ GivenFails(j)
  BY <1>2 DEF RejectFilename, ArgsTooLong, GivenFails, Die, Goto
<1>3. CASE UseNoFile(j) \/ UseFilename(j) \/ UseTempName(j)
  BY <1>3 DEF UseNoFile, UseFilename, UseTempName, Goto, report
<1>4. CASE OpenGiven(j) \/ WriteGiven(j) \/ ArgsFit(j)
  BY <1>4 DEF OpenGiven, WriteGiven, ArgsFit, Goto, report
<1>5. CASE CannotRunProgram(j) \/ RunProgram(j)
  BY <1>5 DEF CannotRunProgram, RunProgram, Goto, report
<1>6. CASE Cleanup(j) \/ Finish(j)
  BY <1>6 DEF Cleanup, Finish, Goto, report
<1> QED  BY <1>1, <1>2, <1>3, <1>4, <1>5, <1>6 DEF Step

\* A step of j can take nothing from another run that is at a file, unless it
\* touches that file.
LEMMA OthersRunTheirTests ==
  ASSUME NEW j \in Jobs, OthersStay(j), suite' = suite,
         NEW k \in Jobs \ {j}, RunsItsTest(k),
         pc[k] \in AtTest /\ file[k] # NoName => tmp'[file[k]] = tmp[file[k]],
         pc[k] = "write" => handle'[k] = handle[k]
  PROVE  RunsItsTest(k)'
<1>1. /\ pc'[k] = pc[k] /\ file'[k] = file[k] /\ output'[k] = output[k]
      /\ results'[k] = results[k]
  BY DEF OthersStay
<1>2. Test(k)' = Test(k)
  BY <1>1 DEF Test
<1>3. pc[k] \in {"args", "check"} => pc[k] \in AtTest
  BY DEF AtTest
<1> QED  BY <1>1, <1>2, <1>3 DEF RunsItsTest

\* It is enough that no run comes to a file, and that no file that mkstemp made
\* goes away while its run is at it.
LEMMA OwnersStayApart ==
  ASSUME OwnersApart,
         \A k \in Jobs : pc'[k] \in AtTest =>
           \/ file'[k] = NoName
           \/ pc[k] \in AtTest /\ file'[k] = file[k] /\ Test(k)' = Test(k),
         \A k \in Jobs : pc'[k] \in AtTest /\ file'[k] # NoName =>
           tmp'[file[k]] = tmp[file[k]] \/ tmp'[file[k]] # Absent
  PROVE  OwnersApart'
<1>1. ASSUME NEW k \in Jobs, NEW l \in Jobs, pc'[k] \in AtTest, pc'[l] \in AtTest,
             file'[k] = file'[l], file'[k] # NoName
      PROVE  k = l
  BY <1>1 DEF OwnersApart
<1>2. ASSUME NEW k \in Jobs, pc'[k] \in AtTest, file'[k] # NoName
      PROVE  IF file'[k] \in TempNames THEN tmp'[file'[k]] # Absent
             ELSE file'[k] = Test(k)'.filename
  BY <1>2 DEF OwnersApart
<1> QED  BY <1>1, <1>2 DEF OwnersApart

LEMMA TestStays ==
  ASSUME NEW k \in Jobs, results'[k] = results[k], suite' = suite
  PROVE  Test(k)' = Test(k)
  BY DEF Test

\* Another run that is at a file is at another one.
LEMMA OthersFile ==
  ASSUME OwnersApart, NEW j \in Jobs, pc[j] \in AtTest, file[j] # NoName,
         NEW k \in Jobs \ {j}, pc[k] \in AtTest
  PROVE  file[k] # file[j]
  BY DEF OwnersApart

\* The name a run comes to is not the name of a file that another is at.
LEMMA NewNameIsNew ==
  ASSUME NamesApart, Inv, ApartInv, NEW j \in Jobs, UseFilename(j) \/ UseTempName(j)
  PROVE  \E n \in Names :
           /\ file' = [file EXCEPT ![j] = n] /\ n # NoName
           /\ IF n \in TempNames THEN tmp' = [tmp EXCEPT ![n] = ""]
              ELSE n = Test(j).filename /\ tmp' = tmp
           /\ \A k \in Jobs \ {j} : pc[k] \in AtTest => file[k] # n
<1>1. CASE UseFilename(j)
  <2> DEFINE n == Test(j).filename
  <2>1. /\ file' = [file EXCEPT ![j] = n] /\ n # NoName /\ tmp' = tmp
        /\ HasTest(j) /\ OwnFile(Test(j))
    BY <1>1 DEF UseFilename, Named, Runs
  <2>2. n \in Names /\ n \notin TempNames
    BY <2>1, FilenameIsName, TestIsTest DEF Inv, NamesApart
  <2>3. ASSUME NEW k \in Jobs \ {j}, pc[k] \in AtTest, file[k] = n PROVE FALSE
    <3>1. file[k] = Test(k).filename /\ OwnFile(Test(k)) /\ HasTest(k)
      BY <2>1, <2>2, <2>3 DEF Inv, FileInv, ApartInv, OwnersApart
    <3>2. /\ suite[j] \in Workload[j] /\ suite[k] \in Workload[k]
          /\ suite[j] \in Seq(Tests) /\ suite[k] \in Seq(Tests)
      BY WorkloadAssumption DEF Inv, TypeOK
    <3>3. /\ Len(results[j]) + 1 \in DOMAIN suite[j]
          /\ Len(results[k]) + 1 \in DOMAIN suite[k]
      BY <2>1, <3>1, <3>2 DEF Inv, TypeOK, HasTest
    <3> QED  BY <2>1, <2>3, <3>1, <3>2, <3>3 DEF NamesApart, Test
  <2> QED  BY <2>1, <2>2, <2>3
<1>2. CASE UseTempName(j)
  <2>1. PICK n \in TempNames : /\ tmp[n] = Absent /\ file' = [file EXCEPT ![j] = n]
                               /\ tmp' = [tmp EXCEPT ![n] = ""]
    BY <1>2 DEF UseTempName, FreeTempNames
  <2>2. n \in Names /\ n # NoName
    BY NamesAssumption DEF Names
  <2>3. ASSUME NEW k \in Jobs \ {j}, pc[k] \in AtTest, file[k] = n PROVE FALSE
    BY <2>1, <2>2, <2>3 DEF ApartInv, OwnersApart
  <2> QED  BY <2>1, <2>2, <2>3
<1> QED  BY <1>1, <1>2
-----------------------------------------------------------------------------
(* Each group of steps keeps ApartInv.                                     *)

\* It is enough to look at the run that takes the step.
LEMMA StepApart ==
  ASSUME Inv, ApartInv, NEW j \in Jobs, Step(j) \/ GivenFails(j),
         OwnersApart', RunsItsTest(j)', Accounts(j)',
         \A k \in Jobs \ {j} : pc[k] \in AtTest /\ file[k] # NoName =>
           tmp'[file[k]] = tmp[file[k]],
         \A k \in Jobs \ {j} : pc[k] = "write" => handle'[k] = handle[k]
  PROVE  ApartInv'
<1>1. OthersStay(j) /\ suite' = suite
  BY StepOthers
<1>2. ASSUME NEW k \in Jobs \ {j} PROVE RunsItsTest(k)'
  BY <1>1, OthersRunTheirTests DEF ApartInv
<1>3. ASSUME NEW k \in Jobs \ {j} PROVE Accounts(k)'
  <2>1. Accounts(k)
    BY DEF ApartInv
  <2> QED  BY <1>1, <2>1 DEF Accounts, Over, OthersStay
<1> QED  BY <1>2, <1>3 DEF ApartInv

\* No step but the end of a test or of a run changes what is accounted for.
LEMMA AccountsStay ==
  ASSUME NEW j \in Jobs, Accounts(j), ~Over(j), ~Over(j)', UNCHANGED report
  PROVE  Accounts(j)'
  BY DEF Accounts, report

LEMMA RecordApart ==
  ASSUME Inv, ApartInv, NEW j \in Jobs, NEW s \in Statuses, Record(j, s),
         pc[j] \in {"next", "judge"}, Step(j)
  PROVE  ApartInv'
<1>1. pc'[j] = "next" /\ tmp' = tmp /\ handle' = handle /\ exitCode' = exitCode
  BY DEF Record, Goto, Inv, TypeOK
<1>2. OwnersApart'
  <2>1. \A k \in Jobs : pc'[k] \in AtTest =>
          pc[k] \in AtTest /\ file'[k] = file[k] /\ Test(k)' = Test(k)
    BY <1>1, StepOthers, TestStays DEF OthersStay, AtTest
  <2> QED  BY <1>1, <2>1, OwnersStayApart DEF ApartInv
<1>3. RunsItsTest(j)'
  BY <1>1 DEF RunsItsTest, AtTest
<1>4. Accounts(j)'
  <2>1. /\ results'[j] = Append(results[j], s) /\ results[j] \in Seq(Statuses)
        /\ counts'[j] = [counts[j] EXCEPT ![s] = counts[j][s] + 1]
        /\ counts[j] \in [Statuses -> Nat]
    BY DEF Inv, TypeOK, DomainInv, Record
  <2>2. Accounts(j) /\ ~Over(j) /\ ~Over(j)'
    BY <1>1 DEF ApartInv, Over
  <2>3. ASSUME NEW u \in Statuses
        PROVE  (\E i \in DOMAIN results'[j] : results'[j][i] = u)
                 <=> u = s \/ \E i \in DOMAIN results[j] : results[j][i] = u
    <3>1. /\ DOMAIN results[j] = 1..Len(results[j]) /\ Len(results[j]) \in Nat
          /\ DOMAIN results'[j] = 1..(Len(results[j]) + 1)
          /\ \A i \in 1..Len(results[j]) : results'[j][i] = results[j][i]
          /\ results'[j][Len(results[j]) + 1] = s
      BY <2>1
    <3> QED  BY <3>1
  <2>4. ASSUME NEW u \in Statuses
        PROVE  counts'[j][u] > 0 <=> u = s \/ counts[j][u] > 0
    BY <2>1
  <2> QED  BY <1>1, <2>2, <2>3, <2>4 DEF Accounts
<1> QED  BY <1>1, <1>2, <1>3, <1>4, StepApart

LEMMA EndApart ==
  ASSUME Inv, ApartInv, NEW j \in Jobs, Step(j) \/ GivenFails(j), Die(j) \/ Finish(j),
         ~Over(j)
  PROVE  ApartInv'
<1>1. /\ pc'[j] \in {"fatal", "exited"} /\ tmp' = tmp /\ handle' = handle
      /\ results' = results /\ counts' = counts /\ exitCode'[j] # "running"
  BY DEF Die, Finish, Goto, Inv, TypeOK
<1>2. OwnersApart'
  <2>1. \A k \in Jobs : pc'[k] \in AtTest =>
          pc[k] \in AtTest /\ file'[k] = file[k] /\ Test(k)' = Test(k)
    BY <1>1, StepOthers, TestStays DEF OthersStay, AtTest
  <2> QED  BY <1>1, <2>1, OwnersStayApart DEF ApartInv
<1>3. RunsItsTest(j)' /\ Accounts(j)'
  BY <1>1 DEF ApartInv, RunsItsTest, Accounts, Over, AtTest
<1> QED  BY <1>1, <1>2, <1>3, StepApart

\* A run that goes to its arguments without a file, or on to its program.
LEMMA MoveApart ==
  ASSUME Inv, ApartInv, NEW j \in Jobs, UseNoFile(j) \/ ArgsFit(j)
  PROVE  ApartInv'
<1>1. /\ pc'[j] \in {"args", "check"} /\ tmp' = tmp /\ handle' = handle /\ file' = file
      /\ UNCHANGED report /\ suite' = suite /\ Step(j) /\ ~Over(j)
  BY DEF UseNoFile, Runs, ArgsFit, Goto, Inv, TypeOK, Step, Over
<1>2. Test(j)' = Test(j)
  BY <1>1, TestStays DEF report
<1>3. \/ pc[j] = "args"
      \/ /\ pc[j] = "next" /\ file[j] = NoName /\ ~OwnFile(Test(j))
         /\ ~Incomplete(Test(j)) /\ ~Skipped(Test(j))
  BY DEF UseNoFile, Runs, ArgsFit, Inv, FileInv
<1>4. OwnersApart'
  <2>1. \A k \in Jobs : pc'[k] \in AtTest =>
          \/ file'[k] = NoName
          \/ pc[k] \in AtTest /\ file'[k] = file[k] /\ Test(k)' = Test(k)
    BY <1>1, <1>2, <1>3, StepOthers, TestStays DEF OthersStay, AtTest
  <2> QED  BY <1>1, <2>1, OwnersStayApart DEF ApartInv
<1>5. RunsItsTest(j)'
  BY <1>1, <1>2, <1>3 DEF ApartInv, RunsItsTest, AtTest
<1>6. Accounts(j)'
  <2>1. ~Over(j)' /\ ~Over(j) /\ Accounts(j)
    BY <1>1 DEF ApartInv, Over
  <2> QED  BY <1>1, <2>1, AccountsStay
<1> QED  BY <1>1, <1>4, <1>5, <1>6, StepApart

LEMMA UseApart ==
  ASSUME NamesApart, Inv, ApartInv, NEW j \in Jobs, UseFilename(j) \/ UseTempName(j)
  PROVE  ApartInv'
<1>1. PICK n \in Names :
        /\ file' = [file EXCEPT ![j] = n] /\ n # NoName
        /\ IF n \in TempNames THEN tmp' = [tmp EXCEPT ![n] = ""]
           ELSE n = Test(j).filename /\ tmp' = tmp
        /\ \A k \in Jobs \ {j} : pc[k] \in AtTest => file[k] # n
  BY NewNameIsNew
<1>2. /\ pc'[j] = "open" /\ handle' = handle /\ UNCHANGED report /\ suite' = suite
      /\ Runs(j) /\ Step(j) /\ ~Over(j)
  BY DEF UseFilename, UseTempName, Named, Runs, Goto, Inv, TypeOK, Step, Over
<1>3. Test(j)' = Test(j) /\ file'[j] = n
  BY <1>1, <1>2, TestStays DEF report, Inv, TypeOK
<1>4. /\ \A m \in Names \ {n} : tmp'[m] = tmp[m]
      /\ n \in TempNames => tmp'[n] = ""
  BY <1>1 DEF Inv, DomainInv
<1>5. \A k \in Jobs \ {j} : /\ pc'[k] = pc[k] /\ file'[k] = file[k] /\ Test(k)' = Test(k)
                            /\ file[k] \in Names \cup {NoName}
  BY StepOthers, TestStays, <1>2 DEF OthersStay, Inv, TypeOK
<1>6. OwnersApart'
  <2>1. ASSUME NEW k \in Jobs, NEW l \in Jobs, pc'[k] \in AtTest, pc'[l] \in AtTest,
               file'[k] = file'[l]
        PROVE  k = l \/ file'[k] = NoName
    <3>1. CASE k # j /\ l # j
      BY <1>5, <2>1, <3>1 DEF ApartInv, OwnersApart
    <3>2. CASE k = j /\ l # j
      BY <1>1, <1>3, <1>5, <2>1, <3>2
    <3>3. CASE k # j /\ l = j
      BY <1>1, <1>3, <1>5, <2>1, <3>3
    <3> QED  BY <3>1, <3>2, <3>3
  <2>2. ASSUME NEW k \in Jobs, pc'[k] \in AtTest, file'[k] # NoName
        PROVE  IF file'[k] \in TempNames THEN tmp'[file'[k]] # Absent
               ELSE file'[k] = Test(k)'.filename
    <3>1. CASE k = j
      BY <1>1, <1>3, <1>4, <3>1 DEF Absent
    <3>2. CASE k # j
      BY <1>1, <1>4, <1>5, <2>2, <3>2 DEF ApartInv, OwnersApart
    <3> QED  BY <3>1, <3>2
  <2> QED  BY <2>1, <2>2 DEF OwnersApart
<1>7. RunsItsTest(j)'
  BY <1>1, <1>2, <1>3 DEF RunsItsTest, Runs, AtTest
<1>8. Accounts(j)'
  <2>1. ~Over(j)' /\ ~Over(j) /\ Accounts(j)
    BY <1>2 DEF ApartInv, Over
  <2> QED  BY <1>2, <2>1, AccountsStay
<1>9. \A k \in Jobs \ {j} : pc[k] \in AtTest /\ file[k] # NoName =>
        tmp'[file[k]] = tmp[file[k]]
  BY <1>1, <1>4, <1>5
<1> QED  BY <1>2, <1>6, <1>7, <1>8, <1>9, StepApart

\* A run that writes: it empties the file it is at, or writes it out.
LEMMA FileApart ==
  ASSUME Inv, ApartInv, NEW j \in Jobs, OpenGiven(j) \/ WriteGiven(j)
  PROVE  ApartInv'
<1>1. /\ pc[j] \in AtTest /\ pc'[j] \in {"write", "args"} /\ file' = file
      /\ UNCHANGED report /\ suite' = suite /\ Step(j) /\ ~Over(j)
      /\ file[j] \in Names /\ file[j] # NoName
  BY DEF OpenGiven, WriteGiven, Goto, Inv, TypeOK, Step, Over, AtTest
<1>2. Test(j)' = Test(j)
  BY <1>1, TestStays DEF report
<1>3. HasTest(j) /\ OwnFile(Test(j)) /\ Test(j).content # Absent
  BY <1>1, TestIsTest, WorkloadAssumption DEF Inv, FileInv, OwnFile
<1>4. PICK x : /\ tmp' = [tmp EXCEPT ![file[j]] = x] /\ x # Absent
               /\ WriteGiven(j) => x = Test(j).content
  <2>1. CASE OpenGiven(j)
    BY <2>1 DEF OpenGiven, WriteGiven, Absent
  <2>2. CASE WriteGiven(j)
    BY <2>2, <1>1, <1>3 DEF WriteGiven, ApartInv, RunsItsTest
  <2> QED  BY <2>1, <2>2
<1>5. tmp'[file[j]] = x /\ \A m \in Names \ {file[j]} : tmp'[m] = tmp[m]
  BY <1>1, <1>4 DEF Inv, DomainInv
<1>6. \A k \in Jobs \ {j} : pc[k] \in AtTest /\ file[k] # NoName =>
        tmp'[file[k]] = tmp[file[k]]
  BY <1>1, <1>5, OthersFile DEF ApartInv, Inv, TypeOK
<1>7. OwnersApart'
  <2>1. \A k \in Jobs : pc'[k] \in AtTest =>
          pc[k] \in AtTest /\ file'[k] = file[k] /\ Test(k)' = Test(k)
    BY <1>1, <1>2, StepOthers, TestStays DEF OthersStay
  <2>2. \A k \in Jobs : pc'[k] \in AtTest /\ file'[k] # NoName =>
          tmp'[file[k]] = tmp[file[k]] \/ tmp'[file[k]] # Absent
    BY <1>4, <1>5, <1>6, <2>1
  <2> QED  BY <2>1, <2>2, OwnersStayApart DEF ApartInv
<1>8. RunsItsTest(j)'
  <2>1. OpenGiven(j) => pc'[j] = "write" /\ handle'[j] = file[j]
    BY DEF OpenGiven, Goto, Inv, TypeOK
  <2>2. WriteGiven(j) => pc'[j] = "args"
    BY DEF WriteGiven, Goto, Inv, TypeOK
  <2> QED  BY <1>1, <1>2, <1>4, <1>5, <2>1, <2>2 DEF ApartInv, RunsItsTest, AtTest
<1>9. Accounts(j)'
  <2>1. ~Over(j)' /\ ~Over(j) /\ Accounts(j)
    BY <1>1 DEF ApartInv, Over
  <2> QED  BY <1>1, <2>1, AccountsStay
<1>10. \A k \in Jobs \ {j} : handle'[k] = handle[k]
  BY DEF OpenGiven, WriteGiven, Inv, TypeOK
<1> QED  BY <1>1, <1>6, <1>7, <1>8, <1>9, <1>10, StepApart

\* What the program makes of the file it finds is what it makes of the content
\* the test was given.
LEMMA RunApart ==
  ASSUME \A t \in Tests : JudgedAsMeant(t), Inv, ApartInv,
         NEW j \in Jobs, CannotRunProgram(j) \/ RunProgram(j)
  PROVE  ApartInv'
<1>1. /\ pc[j] = "check" /\ pc'[j] = "cleanup" /\ tmp' = tmp /\ handle' = handle
      /\ file' = file /\ UNCHANGED report /\ suite' = suite /\ Step(j) /\ ~Over(j)
  BY DEF CannotRunProgram, RunProgram, Goto, Inv, TypeOK, Step, Over
<1>2. Test(j)' = Test(j)
  BY <1>1, TestStays DEF report
<1>3. /\ ~Incomplete(Test(j)) /\ ~Skipped(Test(j)) /\ HasTest(j)
      /\ OwnFile(Test(j)) => tmp[file[j]] = Test(j).content
  BY <1>1 DEF Inv, FileInv, ApartInv, RunsItsTest, AtTest
<1>4. PICK t \in Tests : t = Test(j)
  BY <1>3, TestIsTest DEF Inv
<1>5. Verdict(t, output'[j]) = Deserved(t)
  <2>1. CASE CannotRunProgram(j)
    <3>1. output'[j].error = t.program /\ t.program \in CannotRun
      BY <1>4, <2>1 DEF CannotRunProgram, Inv, DomainInv, NoOutput
    <3>2. Verdict(t, output'[j]) = "ERROR"
      BY <3>1 DEF Verdict, CannotRun
    <3>3. ~t.skip /\ ~(t.given = "missing" \/ \A s \in Outputs : t.expect[s] = "absent")
      BY <1>3, <1>4 DEF Incomplete, Skipped
    <3> QED  BY <3>1, <3>2, <3>3 DEF Deserved
  <2>2. CASE RunProgram(j)
    <3>1. PICK r : r = Outcome(t.program, t.content)
      OBVIOUS
    <3>2. Outcome(Test(j).program, Input(j)) = r
      BY <1>3, <1>4, <3>1 DEF Input
    <3>3. PICK o : o = [out |-> Captured(r.out), err |-> Captured(r.err), exit |-> r.exit,
                error |-> IF r.out = "flood" THEN "output too long" ELSE "NONE"]
      OBVIOUS
    <3>4. output'[j] = o
      BY <2>2, <3>2, <3>3 DEF RunProgram, Inv, DomainInv
    <3>5. /\ JudgedAsMeant(t) /\ ~Incomplete(t) /\ ~Skipped(t)
          /\ t.program \notin CannotRun
      BY <1>3, <1>4, <2>2 DEF RunProgram
    <3> QED  BY <3>1, <3>3, <3>4, <3>5, VerdictIsDeserved
  <2> QED  BY <2>1, <2>2
<1>6. OwnersApart'
  <2>1. \A k \in Jobs : pc'[k] \in AtTest =>
          pc[k] \in AtTest /\ file'[k] = file[k] /\ Test(k)' = Test(k)
    BY <1>1, <1>2, StepOthers, TestStays DEF OthersStay, AtTest
  <2> QED  BY <1>1, <2>1, OwnersStayApart DEF ApartInv
<1>7. RunsItsTest(j)'
  BY <1>1, <1>2, <1>4, <1>5 DEF ApartInv, RunsItsTest, AtTest
<1>8. Accounts(j)'
  <2>1. ~Over(j)' /\ ~Over(j) /\ Accounts(j)
    BY <1>1 DEF ApartInv, Over
  <2> QED  BY <1>1, <2>1, AccountsStay
<1> QED  BY <1>1, <1>6, <1>7, <1>8, StepApart

LEMMA CleanupApart ==
  ASSUME Inv, ApartInv, NEW j \in Jobs, Cleanup(j)
  PROVE  ApartInv'
<1>1. /\ pc[j] = "cleanup" /\ pc'[j] = "judge" /\ file' = file /\ output' = output
      /\ UNCHANGED report /\ suite' = suite /\ Step(j) /\ ~Over(j)
  BY DEF Cleanup, Goto, Inv, TypeOK, Step, Over
<1>2. Test(j)' = Test(j)
  BY <1>1, TestStays DEF report
<1>3. ASSUME NEW k \in Jobs \ {j}, pc[k] \in AtTest, file[k] # NoName
      PROVE  /\ tmp'[file[k]] = tmp[file[k]]
             /\ pc[k] = "write" => handle'[k] = handle[k]
  <2>1. CASE ToUnlink(Test(j))
    <3>1. file[j] # NoName /\ file[j] \in Names
      BY <1>1, <2>1 DEF ApartInv, RunsItsTest, ToUnlink, AtTest, Inv, TypeOK
    <3>2. file[k] # file[j] /\ file[k] \in Names
      BY <1>1, <1>3, <3>1, OthersFile DEF ApartInv, AtTest, Inv, TypeOK
    <3>3. tmp'[file[k]] = tmp[file[k]]
      BY <2>1, <3>2 DEF Cleanup, Inv, DomainInv
    <3>4. pc[k] = "write" => handle[k] = file[k]
      BY DEF ApartInv, RunsItsTest
    <3> QED  BY <2>1, <3>2, <3>3, <3>4 DEF Cleanup
  <2>2. CASE ~ToUnlink(Test(j))
    BY <2>2 DEF Cleanup
  <2> QED  BY <2>1, <2>2
<1>4. \A k \in Jobs : pc[k] = "write" => pc[k] \in AtTest /\ file[k] # NoName
  BY DEF AtTest, Inv, TypeOK
<1>5. OwnersApart'
  <2>1. \A k \in Jobs : pc'[k] \in AtTest =>
          k # j /\ pc[k] \in AtTest /\ file'[k] = file[k] /\ Test(k)' = Test(k)
    BY <1>1, StepOthers, TestStays DEF OthersStay, AtTest
  <2> QED  BY <1>1, <1>3, <2>1, OwnersStayApart DEF ApartInv
<1>6. RunsItsTest(j)'
  BY <1>1, <1>2 DEF ApartInv, RunsItsTest, AtTest
<1>7. Accounts(j)'
  <2>1. ~Over(j)' /\ ~Over(j) /\ Accounts(j)
    BY <1>1 DEF ApartInv, Over
  <2> QED  BY <1>1, <2>1, AccountsStay
<1> QED  BY <1>1, <1>3, <1>4, <1>5, <1>6, <1>7, StepApart

LEMMA NextApart ==
  ASSUME RunsApart, Inv, ApartInv, [Next]_vars
  PROVE  ApartInv'
<1>1. CASE UNCHANGED vars
  BY <1>1 DEF vars, ApartInv, OwnersApart, RunsItsTest, Accounts, Over, Test
<1>2. ASSUME NEW j \in Jobs, Step(j) \/ GivenFails(j) PROVE ApartInv'
  <2>1. CASE RunIncomplete(j) \/ RunSkipped(j) \/ JudgeTest(j)
    <3>1. Verdict(Test(j), output[j]) \in Statuses
      BY DEF Verdict, Statuses
    <3>2. \E s \in Statuses : Record(j, s)
      BY <2>1, <3>1 DEF RunIncomplete, RunSkipped, JudgeTest, Statuses
    <3> QED
      BY <2>1, <3>2, RecordApart DEF RunIncomplete, RunSkipped, JudgeTest, Step
  <2>2. CASE RejectFilename(j) \/ ArgsTooLong(j) \/ GivenFails(j) \/ Finish(j)
    BY <1>2, <2>2, EndApart
    DEF RejectFilename, ArgsTooLong, GivenFails, Finish, Named, Runs, Over
  <2> QED
    BY <1>2, <2>1, <2>2, MoveApart, UseApart, FileApart, RunApart, CleanupApart
    DEF Step, RunsApart
<1> QED  BY <1>1, <1>2 DEF Next, AllOver
-----------------------------------------------------------------------------
(* The steps of TestReport.tla.                                            *)

LEMMA SameDeserved == ASSUME NEW t PROVE Abs!Deserved(t) = Deserved(t)
  BY DEF Deserved, Abs!Deserved, Outcome, Abs!Outcome, Accepts, Abs!Accepts, Meant,
         Abs!Meant, Outputs, Abs!Outputs, CannotRun, Abs!CannotRun, Absent, Abs!Absent

\* A verdict is recorded: the one the test deserves.
LEMMA RecordImplements ==
  ASSUME RunsApart, Inv, ApartInv, NEW j \in Jobs,
         RunIncomplete(j) \/ RunSkipped(j) \/ JudgeTest(j)
  PROVE  Abs!Judge(j)
<1>1. HasTest(j) /\ ~Over(j)
  BY DEF RunIncomplete, RunSkipped, JudgeTest, Inv, FileInv, Over
<1>2. PICK t \in Tests : t = Test(j)
  BY <1>1, TestIsTest DEF Inv
<1>3. exitCode[j] = "running"
  BY <1>1 DEF ApartInv, Accounts
<1>4. results' = [results EXCEPT ![j] = Append(results[j], Deserved(Test(j)))]
      /\ UNCHANGED <<suite, exitCode>>
  <2>1. CASE RunIncomplete(j)
    <3>1. JudgedAsMeant(t) /\ Incomplete(t)
      BY <1>2, <2>1 DEF RunsApart, RunIncomplete
    <3>2. ~t.skip /\ (t.given = "missing" \/ \A s \in Outputs : t.expect[s] = "absent")
      BY <3>1 DEF JudgedAsMeant, Incomplete, Skipped
    <3>3. Deserved(t) = "INCOMPLETE"
      BY <3>2 DEF Deserved
    <3> QED  BY <1>2, <2>1, <3>3 DEF RunIncomplete, Record
  <2>2. CASE RunSkipped(j)
    <3>1. t.skip
      BY <1>2, <2>2 DEF RunSkipped, Skipped
    <3>2. Deserved(t) = "SKIPPED"
      BY <3>1 DEF Deserved
    <3> QED  BY <1>2, <2>2, <3>2 DEF RunSkipped, Record
  <2>3. CASE JudgeTest(j)
    <3>1. Verdict(Test(j), output[j]) = Deserved(Test(j))
      BY <2>3 DEF JudgeTest, ApartInv, RunsItsTest
    <3> QED  BY <2>3, <3>1 DEF JudgeTest, Record
  <2> QED  BY <2>1, <2>2, <2>3
<1> QED  BY <1>1, <1>3, <1>4, SameDeserved DEF Abs!Judge, HasTest, Test

\* A run ends: with the exit code that its verdicts call for.
LEMMA FinishImplements ==
  ASSUME Inv, ApartInv, NEW j \in Jobs, Finish(j)
  PROVE  Abs!End(j)
<1>1. exitCode[j] = "running"
  BY DEF Finish, ApartInv, Accounts, Over
<1>2. Len(results[j]) = Len(suite[j])
  <2>1. suite[j] \in Seq(Tests) /\ results[j] \in Seq(Statuses)
    BY WorkloadAssumption DEF Inv, TypeOK
  <2>2. Len(results[j]) <= Len(suite[j]) /\ ~(Len(results[j]) < Len(suite[j]))
    BY DEF Finish, HasTest, Inv, TypeOK
  <2> QED  BY <2>1, <2>2
<1>3. Failed(j) <=> \E i \in DOMAIN results[j] : results[j][i] \in Abs!Bad
  BY DEF ApartInv, Accounts, Failed, Abs!Bad, Statuses
<1> QED  BY <1>1, <1>2, <1>3 DEF Finish, Abs!End

LEMMA NextImplements ==
  ASSUME RunsApart, Inv, ApartInv, [Next]_vars
  PROVE  [Abs!Next]_Abs!rvars
<1>1. ASSUME NEW j \in Jobs, Step(j) \/ GivenFails(j)
      PROVE  Abs!Judge(j) \/ Abs!End(j) \/ Abs!Abort(j) \/ UNCHANGED Abs!rvars
  <2>1. CASE RejectFilename(j) \/ ArgsTooLong(j) \/ GivenFails(j)
    <3>1. Die(j) /\ ~Over(j)
      BY <2>1 DEF RejectFilename, ArgsTooLong, GivenFails, Named, Runs, Over
    <3> QED  BY <3>1 DEF Die, Abs!Abort, ApartInv, Accounts
  <2>2. CASE UseNoFile(j) \/ UseFilename(j) \/ UseTempName(j) \/ OpenGiven(j)
             \/ WriteGiven(j) \/ ArgsFit(j) \/ CannotRunProgram(j) \/ RunProgram(j)
             \/ Cleanup(j)
    BY <2>2 DEF UseNoFile, UseFilename, UseTempName, OpenGiven, WriteGiven, ArgsFit,
                CannotRunProgram, RunProgram, Cleanup, report, Abs!rvars
  <2> QED  BY <1>1, <2>1, <2>2, RecordImplements, FinishImplements DEF Step
<1>2. CASE UNCHANGED vars
  BY <1>2 DEF vars, Abs!rvars
<1> QED  BY <1>1, <1>2 DEF Next, AllOver, Abs!Next

\* Runs that share no filename give each of their tests the verdict it deserves,
\* in order, and end with the exit code that these call for, whatever they do in
\* /tmp meanwhile; the tests for which the code is known to judge otherwise are
\* left out.
THEOREM Implementation ==
  ASSUME RunsApart
  PROVE  Spec => ImplementsTestReport
<1>1. Init => Inv /\ ApartInv /\ Abs!Init
  BY InitInv, InitApart DEF Init, Abs!Init
<1>2. Inv /\ ApartInv /\ [Next]_vars => (Inv /\ ApartInv)'
  BY NextInv, NextApart
<1>3. Inv /\ ApartInv /\ [Next]_vars => [Abs!Next]_Abs!rvars
  BY NextImplements
<1> QED  BY <1>1, <1>2, <1>3, PTL DEF Spec, ImplementsTestReport, Abs!Spec
=============================================================================
