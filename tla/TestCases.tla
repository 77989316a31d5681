------------------------------ MODULE TestCases ------------------------------
(***************************************************************************)
(* Tests as their author wrote them, the programs they run (external), and *)
(* the verdict each test deserves.                                         *)
(*                                                                         *)
(* Texts are tokens: "" is the empty text, "any" an expected text that is  *)
(* only {{any}}, "flood" output that overflows the capture buffer, and     *)
(* every other string a text that differs from the others.                 *)
(*                                                                         *)
(* A test is a record:                                                     *)
(*   skip     - it has the @shouldBeSkipped requirement                    *)
(*   given    - the type of @given: "file", "reference", "stdin", "none",  *)
(*              or "missing" when there is no @given                       *)
(*   filename - the filename argument of @given("file"), or NoName         *)
(*   content  - the content of @given, or of the file it refers to         *)
(*   program  - the program of @whenRun                                    *)
(*   fits     - its arguments fit in the fixed buffers of the runner       *)
(*   expect   - for each stream the content of its @expectOutput: a text,  *)
(*              "blank" when the requirement has no content, "absent" when *)
(*              there is no such requirement                               *)
(***************************************************************************)

Outputs == {"out", "err"}
NoName  == "no name"
Absent  == "absent"   \* the content of a file that does not exist

\* pattern_match, as far as these texts go.
Accepts(expected, text) == expected = "any" \/ expected = text

\* What a program writes when it finds input behind its argument or on stdin.
Outcome(program, input) ==
  CASE program = "cat" /\ input # Absent -> [out |-> input, err |-> "", exit |-> 0]
    [] program = "cat" /\ input = Absent -> [out |-> "", err |-> "no file", exit |-> 1]
    [] program = "silent" -> [out |-> "", err |-> "", exit |-> 0]
    [] program = "complain" -> [out |-> "", err |-> "oops", exit |-> 1]
    [] program = "quit" -> [out |-> "", err |-> "", exit |-> 1]
    [] program = "roar" -> [out |-> "flood", err |-> "", exit |-> 0]
    [] program = "rant" -> [out |-> "", err |-> "flood", exit |-> 1]

CannotRun == {"missing", "not executable"}

\* An expectation without content is the expectation of no output
\* (examples/base.test, "A fail test example #2").
Meant(text) == IF text = "blank" THEN "" ELSE text

\* The verdict a test deserves, whatever else runs at the same time.
Deserved(t) ==
  LET r == Outcome(t.program, t.content)
      Wrong(s) == t.expect[s] # "absent" /\ ~Accepts(Meant(t.expect[s]), r[s])
      Unexplained == r.exit # 0 /\ r.err # "" /\ t.expect["err"] = "absent"
  IN CASE t.skip -> "SKIPPED"
       [] ~t.skip /\ (t.given = "missing" \/ \A s \in Outputs : t.expect[s] = "absent")
            -> "INCOMPLETE"
       [] OTHER ->
            IF t.program \in CannotRun \/ r.out = "flood" THEN "ERROR"
            ELSE IF Unexplained \/ \E s \in Outputs : Wrong(s) THEN "FAILURE"
            ELSE "PASS"
=============================================================================
