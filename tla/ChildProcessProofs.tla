------------------------- MODULE ChildProcessProofs -------------------------
(***************************************************************************)
(* Proofs about ChildProcess.tla, for every size of the buffer, the pipes, *)
(* the input and the program's output.                                     *)
(*                                                                         *)
(* CaptureIsComplete is not inductive.  Inv adds what it rests on: which   *)
(* process holds which end of which pipe at each point, and how the bytes  *)
(* captured relate to the bytes read while a stream is being read.         *)
(***************************************************************************)
EXTENDS ChildProcess, TLAPS

BeforeFork == {"start", "forking"}

\* There is a child exactly when fork has happened.
ForkInv ==
  /\ ppc \in BeforeFork \cup {"fatal"} <=> cpc = "none"
  /\ ppc = "start" => pR = {} /\ pW = {}
  /\ ppc = "forking" => pR = Opened /\ pW = Opened

\* Which descriptors each process holds.
EndsInv ==
  /\ cpc \in {"none", "exited", "signaled"} => cR = {} /\ cW = {}
  /\ cpc \in {"setup", "ready"} => Outputs \subseteq cW
  /\ cpc \in {"ready", "running"} => cR \subseteq {"in"} /\ cW \subseteq Outputs
  /\ ppc \in {"readOut", "readErr", "waiting"} \cup Final => pW = {}
  /\ ppc \in {"waiting"} \cup Final => pR = {}

\* Only a running program is in a call, on a stream it has open.
CallInv ==
  /\ call # "none" => cpc = "running"
  /\ call = "in" => "in" \in cR
  /\ \A s \in Outputs : call = s => s \in cW /\ sent[s] < Limit(s)
  /\ cpc \in {"none", "setup", "ready"} =>
       \A s \in Outputs : sent[s] = 0 /\ drained[s] = 0

\* While the program can still see its input, the parent is still writing it
\* or has written all of it.
InputInv ==
  /\ sent["in"] <= inputLen
  /\ ~hasInput => inputLen = 0
  /\ "in" \in cR => "in" \in pW \/ sent["in"] = inputLen

\* How far the capture of s has got.
CaptureInv ==
  \A s \in Outputs :
    /\ ~Left(s) => code[s] = "NONE" /\ (ppc \notin Final => len[s] = drained[s])
    /\ code[s] = "READ_CHILD_DATA" => ReadErrors
    /\ code[s] = "OUTPUT_TOO_LONG" => drained[s] = BufSize

Inv ==
  /\ TypeOK
  /\ ForkInv /\ EndsInv /\ CallInv /\ InputInv
  /\ CaptureInv /\ CaptureIsComplete
-----------------------------------------------------------------------------
LEMMA InitInv == Init => Inv
  BY SizeAssumption DEF Init, Inv, TypeOK, ForkInv, EndsInv,
     CallInv, InputInv, CaptureInv, CaptureIsComplete, Left, Buffered, Opened,
     Streams, Outputs, BeforeFork, Final, ParentPoints, ChildPoints, Codes

LEMMA NextInv == Inv /\ [Next]_vars => Inv'
<1> SUFFICES ASSUME Inv, [Next]_vars PROVE Inv'
  OBVIOUS
<1> USE SizeAssumption DEF Inv, Streams, Outputs, Buffered, Left,
        Final, BeforeFork, parentVars, childVars, inputVars
<1>1. CASE OpenPipes
  <2>1. TypeOK'
    BY <1>1 DEF OpenPipes, TypeOK, ParentPoints, Opened
  <2>2. ForkInv'
    BY <1>1 DEF OpenPipes, ForkInv, Opened
  <2>3. EndsInv'
    BY <1>1 DEF OpenPipes, EndsInv
  <2>4. CallInv'
    BY <1>1 DEF OpenPipes, CallInv
  <2>5. InputInv'
    BY <1>1 DEF OpenPipes, ForkInv, InputInv
  <2>6. CaptureInv'
    BY <1>1 DEF OpenPipes, CaptureInv
  <2>7. CaptureIsComplete'
    BY <1>1 DEF OpenPipes, CaptureIsComplete
  <2> QED
    BY <2>1, <2>2, <2>3, <2>4, <2>5, <2>6, <2>7
<1>2. CASE SetupFails
  <2>1. TypeOK'
    BY <1>2 DEF SetupFails, TypeOK, ParentPoints
  <2>2. ForkInv'
    BY <1>2 DEF SetupFails, ForkInv
  <2>3. EndsInv'
    BY <1>2 DEF SetupFails, EndsInv
  <2>4. CallInv'
    BY <1>2 DEF SetupFails, CallInv
  <2>5. InputInv'
    BY <1>2 DEF SetupFails, ForkInv, EndsInv, InputInv
  <2>6. CaptureInv'
    BY <1>2 DEF SetupFails, CaptureInv
  <2>7. CaptureIsComplete'
    BY <1>2 DEF SetupFails, CaptureIsComplete
  <2> QED
    BY <2>1, <2>2, <2>3, <2>4, <2>5, <2>6, <2>7
<1>3. CASE Fork
  <2>1. TypeOK'
    BY <1>3 DEF Fork, TypeOK, ParentPoints, ChildPoints
  <2>2. ForkInv'
    BY <1>3 DEF Fork, ForkInv
  <2>3. EndsInv'
    BY <1>3 DEF Fork, ForkInv, EndsInv, Opened
  <2>4. CallInv'
    BY <1>3 DEF Fork, ForkInv, CallInv
  <2>5. InputInv'
    BY <1>3 DEF Fork, ForkInv, InputInv
  <2>6. CaptureInv'
    BY <1>3 DEF Fork, CaptureInv
  <2>7. CaptureIsComplete'
    BY <1>3 DEF Fork, CaptureIsComplete
  <2> QED
    BY <2>1, <2>2, <2>3, <2>4, <2>5, <2>6, <2>7
<1>4. CASE CloseStdinReader
  <2>1. TypeOK'
    BY <1>4 DEF CloseStdinReader, TypeOK, ParentPoints
  <2>2. ForkInv'
    BY <1>4 DEF CloseStdinReader, ForkInv
  <2>3. EndsInv'
    BY <1>4 DEF CloseStdinReader, EndsInv
  <2>4. CallInv'
    BY <1>4 DEF CloseStdinReader, CallInv
  <2>5. InputInv'
    BY <1>4 DEF CloseStdinReader, InputInv
  <2>6. CaptureInv'
    BY <1>4 DEF CloseStdinReader, CaptureInv
  <2>7. CaptureIsComplete'
    BY <1>4 DEF CloseStdinReader, CaptureIsComplete
  <2> QED
    BY <2>1, <2>2, <2>3, <2>4, <2>5, <2>6, <2>7
<1>5. CASE WriteStdin
  <2>1. TypeOK'
    BY <1>5 DEF WriteStdin, Least, TypeOK
  <2>2. ForkInv'
    BY <1>5 DEF WriteStdin, ForkInv
  <2>3. EndsInv'
    BY <1>5 DEF WriteStdin, EndsInv
  <2>4. CallInv'
    BY <1>5 DEF WriteStdin, CallInv
  <2>5. InputInv'
    BY <1>5 DEF WriteStdin, Least, TypeOK, InputInv
  <2>6. CaptureInv'
    BY <1>5 DEF WriteStdin, CaptureInv
  <2>7. CaptureIsComplete'
    BY <1>5 DEF WriteStdin, CaptureIsComplete
  <2> QED
    BY <2>1, <2>2, <2>3, <2>4, <2>5, <2>6, <2>7
<1>6. CASE StdinBroken
  <2>1. TypeOK'
    BY <1>6 DEF StdinBroken, TypeOK, ParentPoints
  <2>2. ForkInv'
    BY <1>6 DEF StdinBroken, ForkInv
  <2>3. EndsInv'
    BY <1>6 DEF StdinBroken, EndsInv
  <2>4. CallInv'
    BY <1>6 DEF StdinBroken, CallInv
  <2>5. InputInv'
    BY <1>6 DEF StdinBroken, HasReader, InputInv
  <2>6. CaptureInv'
    BY <1>6 DEF StdinBroken, CaptureInv
  <2>7. CaptureIsComplete'
    BY <1>6 DEF StdinBroken, CaptureIsComplete
  <2> QED
    BY <2>1, <2>2, <2>3, <2>4, <2>5, <2>6, <2>7
<1>7. CASE CloseWriteEnds
  <2>1. TypeOK'
    BY <1>7 DEF CloseWriteEnds, TypeOK, ParentPoints
  <2>2. ForkInv'
    BY <1>7 DEF CloseWriteEnds, ForkInv
  <2>3. EndsInv'
    BY <1>7 DEF CloseWriteEnds, WriteEndsToClose, TypeOK, EndsInv
  <2>4. CallInv'
    BY <1>7 DEF CloseWriteEnds, CallInv
  <2>5. InputInv'
    BY <1>7 DEF CloseWriteEnds, InputWritten, TypeOK, InputInv
  <2>6. CaptureInv'
    BY <1>7 DEF CloseWriteEnds, CaptureInv
  <2>7. CaptureIsComplete'
    BY <1>7 DEF CloseWriteEnds, CaptureIsComplete
  <2> QED
    BY <2>1, <2>2, <2>3, <2>4, <2>5, <2>6, <2>7
<1>8. CASE Wait
  <2>1. TypeOK'
    BY <1>8 DEF Wait, ExitStatus, TypeOK, ParentPoints
  <2>2. ForkInv'
    BY <1>8 DEF Wait, ForkInv
  <2>3. EndsInv'
    BY <1>8 DEF Wait, EndsInv
  <2>4. CallInv'
    BY <1>8 DEF Wait, CallInv
  <2>5. InputInv'
    BY <1>8 DEF Wait, InputInv
  <2>6. CaptureInv'
    BY <1>8 DEF Wait, CaptureInv
  <2>7. CaptureIsComplete'
    BY <1>8 DEF Wait, CaptureIsComplete
  <2> QED
    BY <2>1, <2>2, <2>3, <2>4, <2>5, <2>6, <2>7
<1>9. CASE Redirect
  <2>1. TypeOK'
    BY <1>9 DEF Redirect, TypeOK, ChildPoints
  <2>2. ForkInv'
    BY <1>9 DEF Redirect, ForkInv
  <2>3. EndsInv'
    BY <1>9 DEF Redirect, WriteEndsKept, EndsInv
  <2>4. CallInv'
    BY <1>9 DEF Redirect, CallInv
  <2>5. InputInv'
    BY <1>9 DEF Redirect, InputInv
  <2>6. CaptureInv'
    BY <1>9 DEF Redirect, CaptureInv
  <2>7. CaptureIsComplete'
    BY <1>9 DEF Redirect, CaptureIsComplete
  <2> QED
    BY <2>1, <2>2, <2>3, <2>4, <2>5, <2>6, <2>7
<1>10. CASE Exec
  <2>1. TypeOK'
    BY <1>10 DEF Exec, TypeOK, ChildPoints
  <2>2. ForkInv'
    BY <1>10 DEF Exec, ForkInv
  <2>3. EndsInv'
    BY <1>10 DEF Exec, EndsInv
  <2>4. CallInv'
    BY <1>10 DEF Exec, CallInv
  <2>5. InputInv'
    BY <1>10 DEF Exec, InputInv
  <2>6. CaptureInv'
    BY <1>10 DEF Exec, CaptureInv
  <2>7. CaptureIsComplete'
    BY <1>10 DEF Exec, CaptureIsComplete
  <2> QED
    BY <2>1, <2>2, <2>3, <2>4, <2>5, <2>6, <2>7
<1>11. CASE ExecFails
  <2>1. TypeOK'
    <3>1. sent["out"] = 0 /\ drained["out"] = 0
      BY <1>11 DEF ExecFails, CallInv
    <3>2. pending \in 0..MaxPending /\ pending <= PipeCap
      BY DEF TypeOK
    <3>3. sent' \in [Streams -> Nat] /\ drained' = drained
      BY <1>11, <3>1, <3>2 DEF ExecFails, TypeOK
    <3>4. /\ sent'["out"] = pending
          /\ \A s \in Streams \ {"out"} : sent'[s] = sent[s]
      BY <1>11, <3>1, <3>2 DEF ExecFails, TypeOK
    <3>5. \A s \in Streams : Buffered(s)' \in 0..PipeCap
      BY <3>1, <3>2, <3>3, <3>4 DEF TypeOK
    <3> QED  BY <1>11, <3>3, <3>5
             DEF ExecFails, ChildGone, TypeOK, ParentPoints, ChildPoints, Codes
  <2>2. ForkInv'
    BY <1>11 DEF ExecFails, ChildGone, ForkInv
  <2>3. EndsInv'
    BY <1>11 DEF ExecFails, ChildGone, EndsInv
  <2>4. CallInv'
    BY <1>11 DEF ExecFails, ChildGone, CallInv
  <2>5. InputInv'
    BY <1>11 DEF ExecFails, ChildGone, InputInv
  <2>6. CaptureInv'
    BY <1>11 DEF ExecFails, CaptureInv
  <2>7. CaptureIsComplete'
    BY <1>11 DEF ExecFails, EndsInv, CallInv, CaptureIsComplete
  <2> QED
    BY <2>1, <2>2, <2>3, <2>4, <2>5, <2>6, <2>7
<1>12. CASE ExecFailsUnread
  <2>1. TypeOK'
    BY <1>12 DEF ExecFailsUnread, ChildGone, TypeOK, ChildPoints
  <2>2. ForkInv'
    BY <1>12 DEF ExecFailsUnread, ChildGone, ForkInv
  <2>3. EndsInv'
    BY <1>12 DEF ExecFailsUnread, ChildGone, EndsInv
  <2>4. CallInv'
    BY <1>12 DEF ExecFailsUnread, ChildGone, CallInv
  <2>5. InputInv'
    BY <1>12 DEF ExecFailsUnread, ChildGone, InputInv
  <2>6. CaptureInv'
    BY <1>12 DEF ExecFailsUnread, CaptureInv
  <2>7. CaptureIsComplete'
    BY <1>12 DEF ExecFailsUnread, ChildGone, CaptureIsComplete
  <2> QED
    BY <2>1, <2>2, <2>3, <2>4, <2>5, <2>6, <2>7
<1>13. CASE ReadStdin
  <2>1. TypeOK'
    BY <1>13 DEF ReadStdin, TypeOK
  <2>2. ForkInv'
    BY <1>13 DEF ReadStdin, ForkInv, Opened
  <2>3. EndsInv'
    BY <1>13 DEF ReadStdin, EndsInv
  <2>4. CallInv'
    BY <1>13 DEF ReadStdin, CallInv
  <2>5. InputInv'
    BY <1>13 DEF ReadStdin, InputInv
  <2>6. CaptureInv'
    BY <1>13 DEF ReadStdin, CaptureInv
  <2>7. CaptureIsComplete'
    BY <1>13 DEF ReadStdin, CaptureIsComplete
  <2> QED
    BY <2>1, <2>2, <2>3, <2>4, <2>5, <2>6, <2>7
<1>14. CASE ReadStdinEof
  <2>1. TypeOK'
    BY <1>14 DEF ReadStdinEof, TypeOK
  <2>2. ForkInv'
    BY <1>14 DEF ReadStdinEof, ForkInv, Opened
  <2>3. EndsInv'
    BY <1>14 DEF ReadStdinEof, EndsInv
  <2>4. CallInv'
    BY <1>14 DEF ReadStdinEof, CallInv
  <2>5. InputInv'
    BY <1>14 DEF ReadStdinEof, InputInv
  <2>6. CaptureInv'
    BY <1>14 DEF ReadStdinEof, CaptureInv
  <2>7. CaptureIsComplete'
    BY <1>14 DEF ReadStdinEof, CaptureIsComplete
  <2> QED
    BY <2>1, <2>2, <2>3, <2>4, <2>5, <2>6, <2>7
<1>15. CASE Exit
  <2>1. TypeOK'
    BY <1>15 DEF Exit, ChildGone, TypeOK, ChildPoints
  <2>2. ForkInv'
    BY <1>15 DEF Exit, ChildGone, ForkInv
  <2>3. EndsInv'
    BY <1>15 DEF Exit, ChildGone, EndsInv
  <2>4. CallInv'
    BY <1>15 DEF Exit, ChildGone, CallInv
  <2>5. InputInv'
    BY <1>15 DEF Exit, ChildGone, InputInv
  <2>6. CaptureInv'
    BY <1>15 DEF Exit, CaptureInv
  <2>7. CaptureIsComplete'
    BY <1>15 DEF Exit, ChildGone, CaptureIsComplete
  <2> QED
    BY <2>1, <2>2, <2>3, <2>4, <2>5, <2>6, <2>7
<1>16. CASE Crash
  <2>1. TypeOK'
    BY <1>16 DEF Crash, ChildGone, TypeOK, ChildPoints
  <2>2. ForkInv'
    BY <1>16 DEF Crash, ChildGone, ForkInv
  <2>3. EndsInv'
    BY <1>16 DEF Crash, ChildGone, EndsInv
  <2>4. CallInv'
    BY <1>16 DEF Crash, ChildGone, CallInv
  <2>5. InputInv'
    BY <1>16 DEF Crash, ChildGone, InputInv
  <2>6. CaptureInv'
    BY <1>16 DEF Crash, CaptureInv
  <2>7. CaptureIsComplete'
    BY <1>16 DEF Crash, ChildGone, CaptureIsComplete
  <2> QED
    BY <2>1, <2>2, <2>3, <2>4, <2>5, <2>6, <2>7
<1>17. ASSUME NEW s \in Outputs, Read(s) PROVE Inv'
  <2>1. TypeOK'
    BY <1>17 DEF Read, Room, Least, TypeOK
  <2>2. ForkInv'
    BY <1>17 DEF Read, Reading, ForkInv
  <2>3. EndsInv'
    BY <1>17 DEF Read, EndsInv
  <2>4. CallInv'
    BY <1>17 DEF Read, Room, Least, TypeOK, CallInv
  <2>5. InputInv'
    BY <1>17 DEF Read, InputInv
  <2>6. CaptureInv'
    BY <1>17 DEF Read, Reading, TypeOK, CaptureInv
  <2>7. CaptureIsComplete'
    BY <1>17 DEF Read, Reading, CaptureIsComplete
  <2> QED
    BY <2>1, <2>2, <2>3, <2>4, <2>5, <2>6, <2>7
<1>18. ASSUME NEW s \in Outputs, ReadEof(s) PROVE Inv'
  <2>1. TypeOK'
    BY <1>18 DEF ReadEof, LeaveLoop, TooLong, TypeOK, ParentPoints
  <2>2. ForkInv'
    BY <1>18 DEF ReadEof, LeaveLoop, Reading, ForkInv
  <2>3. EndsInv'
    BY <1>18 DEF ReadEof, LeaveLoop, Reading, EndsInv
  <2>4. CallInv'
    BY <1>18 DEF ReadEof, LeaveLoop, CallInv
  <2>5. InputInv'
    BY <1>18 DEF ReadEof, LeaveLoop, InputInv
  <2>6. CaptureInv'
    BY <1>18 DEF ReadEof, LeaveLoop, TooLong, Reading, TypeOK, CaptureInv
  <2>7. CaptureIsComplete'
    BY <1>18 DEF ReadEof, LeaveLoop, TooLong, HasWriter, Reading, TypeOK, CaptureInv,
       CaptureIsComplete
  <2> QED
    BY <2>1, <2>2, <2>3, <2>4, <2>5, <2>6, <2>7
<1>19. ASSUME NEW s \in Outputs, ReadFails(s) PROVE Inv'
  <2>1. TypeOK'
    BY <1>19 DEF ReadFails, LeaveLoop, TypeOK, ParentPoints, Codes
  <2>2. ForkInv'
    BY <1>19 DEF ReadFails, LeaveLoop, Reading, ForkInv
  <2>3. EndsInv'
    BY <1>19 DEF ReadFails, LeaveLoop, Reading, EndsInv
  <2>4. CallInv'
    BY <1>19 DEF ReadFails, LeaveLoop, CallInv
  <2>5. InputInv'
    BY <1>19 DEF ReadFails, LeaveLoop, InputInv
  <2>6. CaptureInv'
    BY <1>19 DEF ReadFails, LeaveLoop, TooLong, Reading, CaptureInv
  <2>7. CaptureIsComplete'
    BY <1>19 DEF ReadFails, LeaveLoop, TooLong, Reading, TypeOK, CaptureIsComplete
  <2> QED
    BY <2>1, <2>2, <2>3, <2>4, <2>5, <2>6, <2>7
<1>20. ASSUME NEW s \in Outputs, ReadFull(s) PROVE Inv'
  <2>1. TypeOK'
    BY <1>20 DEF ReadFull, LeaveLoop, TypeOK, ParentPoints, Codes
  <2>2. ForkInv'
    BY <1>20 DEF ReadFull, LeaveLoop, Reading, ForkInv
  <2>3. EndsInv'
    BY <1>20 DEF ReadFull, LeaveLoop, Reading, EndsInv
  <2>4. CallInv'
    BY <1>20 DEF ReadFull, LeaveLoop, CallInv
  <2>5. InputInv'
    BY <1>20 DEF ReadFull, LeaveLoop, InputInv
  <2>6. CaptureInv'
    BY <1>20 DEF ReadFull, LeaveLoop, Reading, CaptureInv
  <2>7. CaptureIsComplete'
    BY <1>20 DEF ReadFull, LeaveLoop, TooLong, Reading, TypeOK, CaptureInv, CaptureIsComplete
  <2> QED
    BY <2>1, <2>2, <2>3, <2>4, <2>5, <2>6, <2>7
<1>21. ASSUME NEW s \in Streams, Call(s) PROVE Inv'
  <2>1. TypeOK'
    BY <1>21 DEF Call, TypeOK
  <2>2. ForkInv'
    BY <1>21 DEF Call, ForkInv
  <2>3. EndsInv'
    BY <1>21 DEF Call, EndsInv
  <2>4. CallInv'
    BY <1>21 DEF Call, CallInv
  <2>5. InputInv'
    BY <1>21 DEF Call, InputInv
  <2>6. CaptureInv'
    BY <1>21 DEF Call, CaptureInv
  <2>7. CaptureIsComplete'
    BY <1>21 DEF Call, CaptureIsComplete
  <2> QED
    BY <2>1, <2>2, <2>3, <2>4, <2>5, <2>6, <2>7
<1>22. ASSUME NEW s \in Streams, CloseStream(s) PROVE Inv'
  <2>1. TypeOK'
    BY <1>22 DEF CloseStream, TypeOK
  <2>2. ForkInv'
    BY <1>22 DEF CloseStream, ForkInv
  <2>3. EndsInv'
    BY <1>22 DEF CloseStream, EndsInv
  <2>4. CallInv'
    BY <1>22 DEF CloseStream, CallInv
  <2>5. InputInv'
    BY <1>22 DEF CloseStream, InputInv
  <2>6. CaptureInv'
    BY <1>22 DEF CloseStream, CaptureInv
  <2>7. CaptureIsComplete'
    BY <1>22 DEF CloseStream, CaptureIsComplete
  <2> QED
    BY <2>1, <2>2, <2>3, <2>4, <2>5, <2>6, <2>7
<1>23. ASSUME NEW s \in Outputs, WriteOutput(s) PROVE Inv'
  <2>1. TypeOK'
    BY <1>23 DEF WriteOutput, TypeOK
  <2>2. ForkInv'
    BY <1>23 DEF WriteOutput, ForkInv, Opened
  <2>3. EndsInv'
    BY <1>23 DEF WriteOutput, EndsInv
  <2>4. CallInv'
    BY <1>23 DEF WriteOutput, CallInv
  <2>5. InputInv'
    BY <1>23 DEF WriteOutput, InputInv
  <2>6. CaptureInv'
    BY <1>23 DEF WriteOutput, CaptureInv
  <2>7. CaptureIsComplete'
    BY <1>23 DEF WriteOutput, TypeOK, CallInv, CaptureIsComplete
  <2> QED
    BY <2>1, <2>2, <2>3, <2>4, <2>5, <2>6, <2>7
<1>24. ASSUME NEW s \in Outputs, OutputBroken(s) PROVE Inv'
  <2>1. TypeOK'
    BY <1>24 DEF OutputBroken, ChildGone, TypeOK, ChildPoints
  <2>2. ForkInv'
    BY <1>24 DEF OutputBroken, ChildGone, ForkInv, CallInv
  <2>3. EndsInv'
    BY <1>24 DEF OutputBroken, ChildGone, EndsInv
  <2>4. CallInv'
    BY <1>24 DEF OutputBroken, ChildGone, CallInv
  <2>5. InputInv'
    BY <1>24 DEF OutputBroken, ChildGone, InputInv
  <2>6. CaptureInv'
    BY <1>24 DEF OutputBroken, CaptureInv
  <2>7. CaptureIsComplete'
    BY <1>24 DEF OutputBroken, ChildGone, CaptureIsComplete
  <2> QED
    BY <2>1, <2>2, <2>3, <2>4, <2>5, <2>6, <2>7
<1>25. CASE UNCHANGED vars
  <2>1. TypeOK'
    BY <1>25 DEF vars, TypeOK
  <2>2. ForkInv'
    BY <1>25 DEF vars, ForkInv, Opened
  <2>3. EndsInv'
    BY <1>25 DEF vars, EndsInv
  <2>4. CallInv'
    BY <1>25 DEF vars, CallInv
  <2>5. InputInv'
    BY <1>25 DEF vars, InputInv
  <2>6. CaptureInv'
    BY <1>25 DEF vars, CaptureInv
  <2>7. CaptureIsComplete'
    BY <1>25 DEF vars, CaptureIsComplete
  <2> QED
    BY <2>1, <2>2, <2>3, <2>4, <2>5, <2>6, <2>7
<1> QED
  BY <1>1, <1>2, <1>3, <1>4, <1>5, <1>6, <1>7, <1>8, <1>9, <1>10, <1>11, <1>12, <1>13,
     <1>14, <1>15, <1>16, <1>17, <1>18, <1>19, <1>20, <1>21, <1>22, <1>23, <1>24, <1>25
     DEF Next, Parent, ParentWorks, Child, Terminated

\* The invariant holds of every reachable state, whatever the sizes.
THEOREM Invariance == Spec => []Inv
<1> QED  BY InitInv, NextInv, PTL DEF Spec

\* child_process_run keeps its variables in range: no byte is ever stored past
\* the end of the capture buffer, no pipe holds more than it can.
THEOREM TypeCorrect == Spec => []TypeOK
<1>1. Inv => TypeOK
  BY DEF Inv
<1> QED  BY <1>1, Invariance, PTL

\* What child_process_run hands over without an error code is all that the
\* program wrote, for programs of any output and in every interleaving.
THEOREM CaptureCorrect == Spec => []CaptureIsComplete
<1>1. Inv => CaptureIsComplete
  BY DEF Inv
<1> QED  BY <1>1, Invariance, PTL

-----------------------------------------------------------------------------
\* jcunit and a program within the bounds never deadlock.  While jcunit writes,
\* the input fits in the pipe; while it reads stdout, stderr fits in its pipe;
\* once it has stopped reading stdout, the rest fits too.
LEMMA InvNeverStuck == Inv => NeverStuck
<1> SUFFICES ASSUME Inv, ~BeyondBounds, ParentBlocked, ChildBlocked PROVE FALSE
  BY DEF NeverStuck, NeverDeadlock
<1> USE SizeAssumption DEF Inv, TypeOK, Streams, Outputs, Buffered, HasReader,
        HasWriter
<1>1. CASE /\ ppc = "feeding" /\ sent["in"] < inputLen
           /\ HasReader("in") /\ Buffered("in") = PipeCap
  BY <1>1 DEF BeyondBounds
<1>2. CASE Reading("out") /\ Buffered("out") = 0
  <2>1. ~(call = "in" /\ HasWriter("in"))
    BY <1>2 DEF Reading, EndsInv, CallInv
  <2>2. call = "err" => Buffered("err") < PipeCap
    BY DEF BeyondBounds
  <2> QED  BY <1>2, <2>1, <2>2 DEF ChildBlocked
<1>3. CASE Reading("err") /\ Buffered("err") = 0
  <2>1. ~(call = "in" /\ HasWriter("in"))
    BY <1>3 DEF Reading, EndsInv, CallInv
  <2>2. call = "out" => Buffered("out") < PipeCap
    BY <1>3 DEF Reading, Left, CallInv, CaptureInv, CaptureIsComplete, BeyondBounds
  <2> QED  BY <1>3, <2>1, <2>2 DEF ChildBlocked
<1>4. CASE ppc = "waiting" /\ ~ChildOver
  BY <1>4 DEF ChildBlocked, EndsInv, CallInv
<1> QED  BY <1>1, <1>2, <1>3, <1>4 DEF ParentBlocked

\* Only a program that goes beyond the bounds can block jcunit for ever, while
\* jcunit blocks it.
THEOREM NeverStuckProgram == Spec => []NeverStuck
<1> QED  BY InvNeverStuck, Invariance, PTL

\* Where no program can go beyond the bounds, there is no deadlock at all.
THEOREM BoundedNeverDeadlock == WithinBounds => (Spec => []NeverDeadlock)
<1> SUFFICES ASSUME WithinBounds PROVE Spec => []NeverDeadlock
  OBVIOUS
<1>1. Inv => ~BeyondBounds
  BY SizeAssumption
  DEF Inv, TypeOK, CallInv, CaptureInv, BeyondBounds, WithinBounds, Limit, Streams, Outputs
<1>2. Inv => NeverDeadlock
  BY <1>1, InvNeverStuck DEF NeverStuck
<1> QED  BY <1>2, Invariance, PTL

-----------------------------------------------------------------------------
\* The program sees the end of its input only when it has read all of it.
THEOREM InputCorrect == Spec => InputIsWhole
<1>1. ASSUME Inv, [Next]_vars, SawEndOfInput
      PROVE  drained["in"] = inputLen
  <2> USE <1>1 DEF SawEndOfInput, Inv, Streams, Outputs
  <2>1. CASE ReadStdinEof
    <3>1. "in" \in cR /\ "in" \notin pW
      BY <2>1 DEF ReadStdinEof, HasWriter, CallInv
    <3>2. sent["in"] = inputLen
      BY <3>1 DEF InputInv
    <3>3. drained["in"] = sent["in"]
      BY <2>1 DEF ReadStdinEof, TypeOK, Buffered
    <3> QED  BY <3>2, <3>3
  <2>2. CASE ReadStdin
    BY <2>2 DEF ReadStdin, CallInv
  <2>3. ~Parent /\ ~Terminated /\ ~UNCHANGED vars
    BY DEF Parent, ParentWorks, OpenPipes, SetupFails, Fork, CloseStdinReader,
           WriteStdin, StdinBroken, CloseWriteEnds, Read, ReadEof, ReadFails,
           ReadFull, LeaveLoop, Wait, Terminated, childVars, vars
  <2>4. Child => ReadStdin \/ ReadStdinEof
    BY DEF Child, Redirect, Exec, ExecFails, ExecFailsUnread, Call, CloseStream,
           WriteOutput, OutputBroken, Exit, Crash, CallInv
  <2> QED  BY <2>1, <2>2, <2>3, <2>4 DEF Next
<1> QED  BY <1>1, Invariance, PTL DEF Spec, InputIsWhole

-----------------------------------------------------------------------------
(* The implementation of ProgramRun.tla.                                   *)

LEMMA InitImplements == Init => Abs!Init
  BY DEF Init, Abs!Init, Abs!NoResult, Abs!Outputs, Outputs, Streams, ChildOver

\* A step of the child is a step of the program there.
LEMMA ChildImplements == Inv /\ Child => Abs!Program
<1> SUFFICES ASSUME Inv, Child PROVE Abs!Program
  OBVIOUS
<1> USE DEF Inv, TypeOK, Streams, Outputs
<1>1. ~ChildOver
  BY DEF Child, Redirect, Exec, ExecFails, ExecFailsUnread, Call, CloseStream,
         ReadStdin, ReadStdinEof, WriteOutput, OutputBroken, Exit, Crash,
         CallInv, ChildOver
<1>2. UNCHANGED <<ppc, len, code, ret>>
  BY DEF Child, Redirect, Exec, ExecFails, ExecFailsUnread, Call, CloseStream,
         ReadStdin, ReadStdinEof, WriteOutput, OutputBroken, Exit, Crash,
         parentVars
<1>3. \A s \in Outputs : sent'[s] >= sent[s]
  BY DEF Child, Redirect, Exec, ExecFails, ExecFailsUnread, Call, CloseStream,
         ReadStdin, ReadStdinEof, WriteOutput, OutputBroken, Exit, Crash
<1> QED
  BY <1>1, <1>2, <1>3 DEF Abs!Program, Abs!Outputs, ChildOver

\* A step of the parent is one there only when it ends the run.
LEMMA ParentImplements ==
  Inv /\ Parent => Abs!Return \/ Abs!Abort \/ UNCHANGED Abs!pvars
<1> SUFFICES ASSUME Inv, Parent
             PROVE  Abs!Return \/ Abs!Abort \/ UNCHANGED Abs!pvars
  OBVIOUS
<1> USE DEF Inv, TypeOK, Streams, Outputs, inputVars, childVars
<1>1. ASSUME SetupFails \/ StdinBroken PROVE Abs!Abort
  BY <1>1 DEF SetupFails, StdinBroken, Abs!Abort, ChildOver
<1>2. ASSUME Wait PROVE Abs!Return
  <2>1. \A s \in Outputs : Abs!Honest(s, len[s], code[s])
    BY <1>2 DEF Wait, CaptureIsComplete, Left, Abs!Honest
  <2> QED
    BY <1>2, <2>1 DEF Wait, Abs!Return, Abs!Outputs, Abs!Honest, ChildOver,
                      ExitStatus
<1>3. ASSUME Fork PROVE UNCHANGED Abs!pvars
  BY <1>3 DEF Fork, ForkInv, BeforeFork, Abs!pvars, ChildOver
<1>4. ASSUME OpenPipes \/ CloseStdinReader \/ WriteStdin \/ CloseWriteEnds
      PROVE  UNCHANGED Abs!pvars
  BY <1>4 DEF OpenPipes, CloseStdinReader, WriteStdin, CloseWriteEnds,
              parentVars, Abs!pvars, ChildOver
<1>5. ASSUME NEW s \in Outputs, Read(s) \/ ReadEof(s) \/ ReadFails(s) \/ ReadFull(s)
      PROVE  UNCHANGED Abs!pvars
  BY <1>5 DEF Read, ReadEof, ReadFails, ReadFull, LeaveLoop, Reading,
              Abs!pvars, ChildOver
<1> QED
  BY <1>1, <1>2, <1>3, <1>4, <1>5 DEF Parent, ParentWorks

\* child_process_run keeps the promise made to its caller, the test runner: a
\* report covers a program that has ended, and is complete or says it is not.
THEOREM Implementation == Spec => ImplementsProgramRun
<1>1. Inv /\ [Next]_vars => [Abs!Next]_Abs!pvars
  <2>1. UNCHANGED vars => UNCHANGED Abs!pvars
    BY DEF vars, parentVars, childVars, Abs!pvars, ChildOver
  <2> QED
    BY <2>1, ChildImplements, ParentImplements DEF Next, Abs!Next, Terminated
<1> QED
  BY InitImplements, <1>1, Invariance, PTL
  DEF Spec, ImplementsProgramRun, Abs!Spec
=============================================================================
