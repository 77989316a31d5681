----------------------------- MODULE ProgramRun -----------------------------
(***************************************************************************)
(* What the test runner is promised by child_process_run (child-process.c):*)
(* a program is run to its end, and the caller is then given, for each of  *)
(* its two output streams, either everything the program wrote or an error *)
(* code, together with the program's exit code.                            *)
(*                                                                         *)
(* There are no pipes, descriptors or processes here: the program only     *)
(* emits bytes, counted per stream, and ends.  ChildProcess.tla is the     *)
(* detailed specification and implements this one.                         *)
(***************************************************************************)
EXTENDS Integers

CONSTANT BufSize   \* MAX_PROCESS_OUTPUT_BUFFER_LEN: the room for one stream

VARIABLES
  phase,    \* "running", then "returned" or "aborted" (jcunit itself ended)
  over,     \* TRUE once the program has ended
  exit,     \* its exit code, -1 when a signal ended it; 0 while it runs
  emitted,  \* number of bytes written to each output stream so far
  result    \* what the caller was given

pvars == <<phase, over, exit, emitted, result>>

Outputs == {"out", "err"}

NoResult == [len  |-> [s \in Outputs |-> 0],
             code |-> [s \in Outputs |-> "NONE"],
             exit |-> 0]

\* A report is honest about a stream when it is complete, or says it is not.
Honest(s, len, code) ==
  \/ code = "NONE" /\ len = emitted[s] /\ emitted[s] < BufSize
  \/ code = "OUTPUT_TOO_LONG" /\ len = 0 /\ emitted[s] >= BufSize
  \/ code = "READ_CHILD_DATA" /\ len = 0

Init ==
  /\ phase = "running"
  /\ over = FALSE
  /\ exit = 0
  /\ emitted = [s \in Outputs |-> 0]
  /\ result = NoResult

\* The program writes some bytes, ends, or both at once.
Program ==
  /\ ~over
  /\ \A s \in Outputs : emitted'[s] >= emitted[s]
  /\ over' \in BOOLEAN
  /\ over' \/ exit' = exit
  /\ UNCHANGED <<phase, result>>

\* Only a program that has ended is reported on.
Return ==
  /\ phase = "running"
  /\ over
  /\ phase' = "returned"
  /\ \A s \in Outputs : Honest(s, result'.len[s], result'.code[s])
  /\ result'.exit = exit
  /\ UNCHANGED <<over, exit, emitted>>

\* A failing pipe() or fork(), or SIGPIPE, ends jcunit before it can report.
Abort ==
  /\ phase = "running"
  /\ phase' = "aborted"
  /\ UNCHANGED <<over, exit, emitted, result>>

Next == Program \/ Return \/ Abort

Spec == Init /\ [][Next]_pvars
=============================================================================
