----------------------------- MODULE TestReport -----------------------------
(***************************************************************************)
(* What a user of jcunit is promised: each run of jcunit goes through its  *)
(* tests in order and gives each the verdict it deserves, then ends with   *)
(* an exit code that tells whether any failed.  Runs do not disturb each   *)
(* other, so here a test is judged in one step.                            *)
(***************************************************************************)
EXTENDS TestCases, Naturals, Sequences

CONSTANT Jobs   \* the runs of jcunit

VARIABLES
  suite,     \* the tests of each run
  verdicts,  \* the verdicts given so far
  exit       \* "running", then the exit code

rvars == <<suite, verdicts, exit>>

Bad == {"FAILURE", "ERROR"}

Init ==
  /\ verdicts = [j \in Jobs |-> <<>>]
  /\ exit = [j \in Jobs |-> "running"]

Judge(j) ==
  /\ exit[j] = "running"
  /\ Len(verdicts[j]) < Len(suite[j])
  /\ LET t == suite[j][Len(verdicts[j]) + 1]
     IN verdicts' = [verdicts EXCEPT ![j] = Append(@, Deserved(t))]
  /\ UNCHANGED <<suite, exit>>

End(j) ==
  /\ exit[j] = "running"
  /\ Len(verdicts[j]) = Len(suite[j])
  /\ LET failed == \E i \in DOMAIN verdicts[j] : verdicts[j][i] \in Bad
     IN exit' = [exit EXCEPT ![j] = IF failed THEN "2" ELSE "0"]
  /\ UNCHANGED <<suite, verdicts>>

\* A fatal error ends the run with exit code 1 and without a report.
Abort(j) ==
  /\ exit[j] = "running"
  /\ exit' = [exit EXCEPT ![j] = "1"]
  /\ UNCHANGED <<suite, verdicts>>

Next == \E j \in Jobs : Judge(j) \/ End(j) \/ Abort(j)

Spec == Init /\ [][Next]_rvars
=============================================================================
