---------------------------- MODULE ChildProcess ----------------------------
(***************************************************************************)
(* child_process_run (child-process.c): jcunit forks a program under test, *)
(* feeds its stdin through a pipe, and captures its stdout and stderr      *)
(* through two more, one stream after the other.                           *)
(*                                                                         *)
(* The parent is the code of child_process_run, one action per system call *)
(* that another process can observe.  The child is the code between fork   *)
(* and execv, and then an arbitrary program (external): it reads, writes,  *)
(* closes its standard streams, exits or is killed as it pleases.          *)
(*                                                                         *)
(* Bytes are counted, not represented: a pipe is first-in first-out, so    *)
(* what matters is how many bytes were written to it and read from it.     *)
(***************************************************************************)
EXTENDS Integers

CONSTANTS
  BufSize,    \* MAX_PROCESS_OUTPUT_BUFFER_LEN: bytes captured per stream
  PipeCap,    \* bytes a pipe holds before a writer blocks
  MaxStdin,   \* longest content a test can pipe to the program
  MaxPending, \* most bytes of jcunit's own report left in its stdout buffer
  OutLimit,   \* most bytes the program writes to its stdout
  ErrLimit,   \* most bytes the program writes to its stderr
  ExitCodes,  \* exit codes of the program
  ReadErrors  \* TRUE when read() on a pipe may fail

ASSUME SizeAssumption ==
  /\ BufSize \in Nat \ {0}
  /\ PipeCap \in Nat \ {0}
  /\ MaxStdin \in Nat
  /\ MaxPending \in Nat /\ MaxPending <= PipeCap
  /\ OutLimit \in Nat
  /\ ErrLimit \in Nat
  /\ ExitCodes \subseteq 0..255
  /\ ReadErrors \in BOOLEAN

VARIABLES
  ppc,       \* where the parent is
  cpc,       \* where the child is
  call,      \* the system call the program is in: a stream, or "none"
  hasInput,  \* stdin_input != NULL
  inputLen,  \* stdin_input->len
  pending,   \* bytes of the report buffered in jcunit when it forks
  pR, pW,    \* streams whose read end / write end the parent holds
  cR, cW,    \* the same for the child
  sent,      \* bytes written to each pipe so far
  drained,   \* bytes read from each pipe so far
  len,       \* stdout_output->len, stderr_output->len
  code,      \* stdout_output->error_code, stderr_output->error_code
  status,    \* what the child exited with
  ret        \* what child_process_run returned

parentVars == <<ppc, pR, pW, len, code, ret>>
childVars  == <<cpc, call, cR, cW, status>>
inputVars  == <<hasInput, inputLen, pending>>
vars == <<parentVars, childVars, inputVars, sent, drained>>

Outputs == {"out", "err"}
Streams == {"in"} \cup Outputs

Limit(s) == IF s = "out" THEN OutLimit ELSE ErrLimit
Least(a, b) == IF a <= b THEN a ELSE b

Buffered(s)  == sent[s] - drained[s]
HasReader(s) == s \in pR \cup cR
HasWriter(s) == s \in pW \cup cW

Final      == {"done", "killed", "fatal"}   \* child_process_run is over
ChildOver  == cpc \in {"exited", "signaled"}
-----------------------------------------------------------------------------
Init ==
  /\ ppc = "start" /\ cpc = "none" /\ call = "none"
  /\ hasInput \in BOOLEAN
  /\ inputLen \in IF hasInput THEN 0..MaxStdin ELSE {0}
  /\ pending \in 0..MaxPending
  /\ pR = {} /\ pW = {} /\ cR = {} /\ cW = {}
  /\ sent = [s \in Streams |-> 0]
  /\ drained = [s \in Streams |-> 0]
  /\ len = [s \in Outputs |-> 0]
  /\ code = [s \in Outputs |-> "NONE"]
  /\ status = 0 /\ ret = 0
-----------------------------------------------------------------------------
(* The parent before the read loops.                                       *)

Opened == IF hasInput THEN Streams ELSE Outputs

OpenPipes ==
  /\ ppc = "start"
  /\ pR' = Opened /\ pW' = Opened
  /\ ppc' = "forking"
  /\ UNCHANGED <<len, code, ret, childVars, inputVars, sent, drained>>

\* pipe() or fork() fails: jcunit_fatal_error exits, closing what is open.
SetupFails ==
  /\ ppc \in {"start", "forking"}
  /\ ppc' = "fatal"
  /\ pR' = {} /\ pW' = {}
  /\ UNCHANGED <<len, code, ret, childVars, inputVars, sent, drained>>

\* The child starts with a copy of every descriptor.
Fork ==
  /\ ppc = "forking"
  /\ ppc' = "forked"
  /\ cpc' = "setup"
  /\ cR' = pR /\ cW' = pW
  /\ UNCHANGED <<pR, pW, len, code, ret, call, status, inputVars, sent, drained>>

\* The parent drops its read end first: a write must be able to fail.
CloseStdinReader ==
  /\ ppc = "forked" /\ hasInput
  /\ ppc' = "feeding"
  /\ pR' = pR \ {"in"}
  /\ UNCHANGED <<pW, len, code, ret, childVars, inputVars, sent, drained>>

\* write() blocks while the pipe is full and goes on as room appears.
WriteStdin ==
  /\ ppc = "feeding"
  /\ sent["in"] < inputLen
  /\ HasReader("in")
  /\ \E k \in 1..Least(PipeCap - Buffered("in"), inputLen - sent["in"]) :
       sent' = [sent EXCEPT !["in"] = @ + k]
  /\ UNCHANGED <<parentVars, childVars, inputVars, drained>>

\* Nobody is left to read the pipe and jcunit does not handle SIGPIPE.
StdinBroken ==
  /\ ppc = "feeding"
  /\ sent["in"] < inputLen
  /\ ~HasReader("in")
  /\ ppc' = "killed"
  /\ pR' = {} /\ pW' = {}
  /\ UNCHANGED <<len, code, ret, childVars, inputVars, sent, drained>>

InputPartlyWritten == sent["in"] > 0 \/ inputLen = 0   \* mutant: a short write

InputWritten == sent["in"] = inputLen

WriteEndsButStderr == {"in", "out"}   \* mutant: one close is missing

WriteEndsToClose == Streams

\* Without its own write ends the parent can see the end of each stream.
CloseWriteEnds ==
  /\ \/ ppc = "forked" /\ ~hasInput
     \/ ppc = "feeding" /\ InputWritten
  /\ ppc' = "readOut"
  /\ pW' = pW \ WriteEndsToClose
  /\ UNCHANGED <<pR, len, code, ret, childVars, inputVars, sent, drained>>
-----------------------------------------------------------------------------
(* The two read loops: stdout to its end, then stderr to its end.          *)

Reading(s) == ppc = IF s = "out" THEN "readOut" ELSE "readErr"

RoomForgetsLen(s) == BufSize   \* mutant: the offset is not subtracted

Room(s) == BufSize - len[s]

Read(s) ==
  /\ Reading(s)
  /\ len[s] < BufSize
  /\ \E k \in 1..Least(Buffered(s), Room(s)) :
       /\ drained' = [drained EXCEPT ![s] = @ + k]
       /\ len' = [len EXCEPT ![s] = @ + k]
  /\ UNCHANGED <<ppc, pR, pW, code, ret, childVars, inputVars, sent>>

TooLongOffByOne(n) == n > BufSize   \* mutant

TooLong(n) == n >= BufSize

\* The loop that reads s has ended with n bytes and error code c.  Leaving the
\* first loop starts the second; leaving the second closes both read ends and
\* goes on to waitpid.
LeaveLoop(s, n, c) ==
  /\ len' = [len EXCEPT ![s] = IF TooLong(n) THEN 0 ELSE n]
  /\ code' = [code EXCEPT ![s] = IF TooLong(n) THEN "OUTPUT_TOO_LONG" ELSE c]
  /\ ppc' = IF s = "out" THEN "readErr" ELSE "waiting"
  /\ pR' = IF s = "out" THEN pR ELSE {}
  /\ UNCHANGED <<pW, ret, childVars, inputVars, sent, drained>>

\* read() returns 0: the pipe is empty and every write end is closed.
ReadEof(s) ==
  /\ Reading(s)
  /\ len[s] < BufSize
  /\ Buffered(s) = 0 /\ ~HasWriter(s)
  /\ LeaveLoop(s, len[s], code[s])

ReadFails(s) ==
  /\ ReadErrors
  /\ Reading(s)
  /\ len[s] < BufSize
  /\ LeaveLoop(s, 0, "READ_CHILD_DATA")

\* The buffer is full: nothing more is read from this stream.
ReadFull(s) ==
  /\ Reading(s)
  /\ len[s] = BufSize
  /\ LeaveLoop(s, len[s], code[s])

StatusUnchecked == status   \* mutant: no WIFEXITED

ExitStatus == IF cpc = "exited" THEN status ELSE -1

Wait ==
  /\ ppc = "waiting"
  /\ ChildOver
  /\ ret' = ExitStatus
  /\ ppc' = "done"
  /\ UNCHANGED <<pR, pW, len, code, childVars, inputVars, sent, drained>>

ParentWorks ==
  \/ OpenPipes \/ Fork
  \/ CloseStdinReader \/ WriteStdin \/ StdinBroken \/ CloseWriteEnds
  \/ \E s \in Outputs : Read(s) \/ ReadEof(s) \/ ReadFull(s)
  \/ Wait

Parent == ParentWorks \/ SetupFails \/ \E s \in Outputs : ReadFails(s)
-----------------------------------------------------------------------------
(* The child: jcunit's own code up to execv.                               *)

WriteEndsKeptWithStdin == Streams   \* mutant: the child keeps "in" open

WriteEndsKept == Outputs

\* dup2 and close: only the three standard streams remain.
Redirect ==
  /\ cpc = "setup"
  /\ cpc' = "ready"
  /\ cR' = cR \cap {"in"}
  /\ cW' = cW \cap WriteEndsKept
  /\ UNCHANGED <<parentVars, call, status, inputVars, sent, drained>>

Exec ==
  /\ cpc = "ready"
  /\ cpc' = "running"
  /\ UNCHANGED <<parentVars, call, cR, cW, status, inputVars, sent, drained>>

ChildGone(how, st) ==
  /\ cpc' = how
  /\ status' = st
  /\ call' = "none"
  /\ cR' = {} /\ cW' = {}

\* execv returns: exit(127) runs the exit handlers, which flush the report
\* jcunit had buffered before the fork into what is now the pipe.
ExecFails ==
  /\ cpc = "ready"
  /\ pending = 0 \/ HasReader("out")
  /\ sent' = [sent EXCEPT !["out"] = @ + pending]
  /\ ChildGone("exited", 127)
  /\ UNCHANGED <<parentVars, inputVars, drained>>

\* The same when the parent has already given up reading.
ExecFailsUnread ==
  /\ cpc = "ready"
  /\ pending > 0 /\ ~HasReader("out")
  /\ ChildGone("signaled", 0)
  /\ UNCHANGED <<parentVars, inputVars, sent, drained>>
-----------------------------------------------------------------------------
(* The child: the program under test.  A call that cannot complete blocks  *)
(* the program, which is why entering and completing one are two actions.  *)

Call(s) ==
  /\ cpc = "running" /\ call = "none"
  /\ \/ s = "in" /\ s \in cR
     \/ s \in Outputs /\ s \in cW /\ sent[s] < Limit(s)
  /\ call' = s
  /\ UNCHANGED <<parentVars, cpc, cR, cW, status, inputVars, sent, drained>>

ReadStdin ==
  /\ call = "in"
  /\ Buffered("in") > 0
  /\ drained' = [drained EXCEPT !["in"] = @ + 1]
  /\ call' = "none"
  /\ UNCHANGED <<parentVars, cpc, cR, cW, status, inputVars, sent>>

\* A program that has seen the end of its stdin has no more use for it.
ReadStdinEof ==
  /\ call = "in"
  /\ Buffered("in") = 0 /\ ~HasWriter("in")
  /\ call' = "none"
  /\ cR' = cR \ {"in"}
  /\ UNCHANGED <<parentVars, cpc, cW, status, inputVars, sent, drained>>

WriteOutput(s) ==
  /\ call = s
  /\ HasReader(s)
  /\ Buffered(s) < PipeCap
  /\ sent' = [sent EXCEPT ![s] = @ + 1]
  /\ call' = "none"
  /\ UNCHANGED <<parentVars, cpc, cR, cW, status, inputVars, drained>>

OutputBroken(s) ==
  /\ call = s
  /\ ~HasReader(s)
  /\ ChildGone("signaled", 0)
  /\ UNCHANGED <<parentVars, inputVars, sent, drained>>

CloseStream(s) ==
  /\ cpc = "running" /\ call = "none"
  /\ s \in cR \cup cW
  /\ cR' = cR \ {s} /\ cW' = cW \ {s}
  /\ UNCHANGED <<parentVars, cpc, call, status, inputVars, sent, drained>>

Exit ==
  /\ cpc = "running" /\ call = "none"
  /\ \E st \in ExitCodes : ChildGone("exited", st)
  /\ UNCHANGED <<parentVars, inputVars, sent, drained>>

Crash ==
  /\ cpc = "running" /\ call = "none"
  /\ ChildGone("signaled", 0)
  /\ UNCHANGED <<parentVars, inputVars, sent, drained>>

Child ==
  \/ Redirect \/ Exec \/ ExecFails \/ ExecFailsUnread
  \/ \E s \in Streams : Call(s) \/ CloseStream(s)
  \/ ReadStdin \/ ReadStdinEof
  \/ \E s \in Outputs : WriteOutput(s) \/ OutputBroken(s)
  \/ Exit \/ Crash
-----------------------------------------------------------------------------
\* Both processes are over.  Anything else that cannot move is stuck.
Terminated ==
  /\ ppc \in Final
  /\ cpc = "none" \/ ChildOver
  /\ UNCHANGED vars

Next == Parent \/ Child \/ Terminated

Spec == Init /\ [][Next]_vars

\* The kernel schedules jcunit, and completes its calls when they can be.  No
\* progress is owed to a call that fails, nor by the program.
ParentFair == Spec /\ WF_vars(ParentWorks)
-----------------------------------------------------------------------------
(* Properties.                                                             *)

ParentPoints == {"start", "forking", "forked", "feeding", "readOut",
                 "readErr", "waiting"} \cup Final
ChildPoints  == {"none", "setup", "ready", "running", "exited", "signaled"}
Codes        == {"NONE", "READ_CHILD_DATA", "OUTPUT_TOO_LONG"}

\* Every variable keeps its type.  In particular the captured length never
\* passes the buffer, and a pipe never holds more than its capacity.
TypeOK ==
  /\ ppc \in ParentPoints /\ cpc \in ChildPoints
  /\ call \in Streams \cup {"none"}
  /\ hasInput \in BOOLEAN /\ inputLen \in 0..MaxStdin
  /\ pending \in 0..MaxPending
  /\ pR \subseteq Streams /\ pW \subseteq Streams
  /\ cR \subseteq Streams /\ cW \subseteq Streams
  /\ sent \in [Streams -> Nat] /\ drained \in [Streams -> Nat]
  /\ \A s \in Streams : Buffered(s) \in 0..PipeCap
  /\ len \in [Outputs -> 0..BufSize] /\ code \in [Outputs -> Codes]
  /\ status \in 0..255 /\ ret \in -1..255

\* The loop that reads s has been left.
Left(s) == ppc \in IF s = "out" THEN {"readErr", "waiting", "done"}
                                ELSE {"waiting", "done"}

\* A stream that was left without an error code is complete, and stays so:
\* nobody can write to it any more and every byte ever written to it was
\* captured.  A stream that overflowed the buffer says so.  Output that is
\* silently cut short would be compared with the expected text as if it were
\* the whole of it.
CaptureIsComplete ==
  \A s \in Outputs : Left(s) =>
    \/ code[s] = "NONE" /\ s \notin cW /\ len[s] = sent[s] /\ sent[s] < BufSize
    \/ code[s] = "OUTPUT_TOO_LONG" /\ len[s] = 0 /\ sent[s] >= BufSize
    \/ code[s] = "READ_CHILD_DATA" /\ len[s] = 0

\* The program is told that its stdin has ended only when it has read all the
\* content of the test's @given("stdin"): no close comes too early.
SawEndOfInput == call = "in" /\ call' = "none" /\ "in" \notin cR'

InputIsWhole == [][SawEndOfInput => drained["in"] = inputLen]_vars

\* A system call that cannot complete in the present state.
ParentBlocked ==
  \/ /\ ppc = "feeding" /\ sent["in"] < inputLen
     /\ HasReader("in") /\ Buffered("in") = PipeCap
  \/ \E s \in Outputs :
       Reading(s) /\ len[s] < BufSize /\ Buffered(s) = 0 /\ HasWriter(s)
  \/ ppc = "waiting" /\ ~ChildOver

ChildBlocked ==
  \/ call = "in" /\ Buffered("in") = 0 /\ HasWriter("in")
  \/ \E s \in Outputs : call = s /\ HasReader(s) /\ Buffered(s) = PipeCap

\* jcunit and the program never wait for each other for ever.
NeverDeadlock == ~(ParentBlocked /\ ChildBlocked)

\* The three pipes are served one after the other, so that holds only as long
\* as each of them can hold what it is given before its turn: the test's input,
\* all of stderr, and what stdout has beyond the buffer.
BeyondBounds ==
  \/ inputLen > PipeCap
  \/ call = "err" /\ sent["err"] >= PipeCap
  \/ /\ call = "out"
     /\ sent["out"] >= PipeCap + (IF code["out"] = "READ_CHILD_DATA" THEN 0 ELSE BufSize)

\* A deadlock is never the fault of a program that kept within the bounds, in
\* whatever order it reads and writes.
NeverStuck == BeyondBounds \/ NeverDeadlock

\* Every program the constants allow is within the bounds.
WithinBounds ==
  /\ MaxStdin <= PipeCap
  /\ OutLimit <= PipeCap + (IF ReadErrors THEN 0 ELSE BufSize)
  /\ ErrLimit <= PipeCap

\* A program that is scheduled, and keeps within the bounds, is run to its end:
\* child_process_run returns, or jcunit ends.
Finishes == WF_vars(Child) => <>(ppc \in Final \/ BeyondBounds)

\* Whatever the program wrote, once it has ended the parent reads both streams
\* to their end, reaps it and returns: it holds no write end of its own that
\* would keep a stream open.
EndedIsReported == ChildOver ~> ppc \in Final

\* The promise of ProgramRun.tla is kept.
Abs == INSTANCE ProgramRun WITH
  phase   <- IF ppc = "done" THEN "returned"
             ELSE IF ppc \in {"killed", "fatal"} THEN "aborted" ELSE "running",
  over    <- ChildOver,
  exit    <- CASE cpc = "exited" -> status [] cpc = "signaled" -> -1 [] OTHER -> 0,
  emitted <- [s \in Outputs |-> sent[s]],
  result  <- [len  |-> IF ppc = "done" THEN len ELSE [s \in Outputs |-> 0],
              code |-> IF ppc = "done" THEN code ELSE [s \in Outputs |-> "NONE"],
              exit |-> IF ppc = "done" THEN ret ELSE 0]

ImplementsProgramRun == Abs!Spec
=============================================================================
