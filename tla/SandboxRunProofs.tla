--------------------------- MODULE SandboxRunProofs ----------------------------
(***************************************************************************)
(* Proofs about SandboxRun: the attempts to run a command do not overlap   *)
(* and do not take what an earlier one left for their own, whatever fails. *)
(***************************************************************************)
EXTENDS SandboxRun, TLAPS

USE RunAssumption

\* What the invariant says besides types.
Rest ==
    /\ OneAtATime /\ OwnHandshake /\ LeavesNothing
    /\ Untried /\ PidInv /\ NetInv /\ ServedInv /\ ProfileInv

\* It holds before the first attempt.
LEMMA InitIInv == Init => IInv
<1> SUFFICES ASSUME Init PROVE IInv
  OBVIOUS
<1>1. mode \in {"pasta", "seatbelt"}
  BY DEF Init
<1>2. TypeOK
  <2>1. mode \in Mode /\ 0 \in 0..MaxSignals
    BY <1>1 DEF Mode, Userspace, RunAssumption
  <2> QED BY <2>1 DEF Init, TypeOK
<1>3. Rest
  BY <1>1 DEF Init, Rest, OneAtATime, Alive, OwnHandshake, LeavesNothing, Untried, Remaining,
              PidInv, NetInv, ServedInv, ProfileInv,
                Mode, Userspace, Final
<1> QED BY <1>2, <1>3 DEF IInv, Rest

\* A step of xb that leaves the child alone preserves it ...
LEMMA XbIInv ==
    ASSUME IInv, XbStep PROVE IInv'
<1> USE DEF IInv, fileVars, netVars, undoVars, childVars, signalVars
<1>0. Final \subseteq Mode /\ Userspace \subseteq Mode /\ \A m \in Mode : After(m) \in Mode
  BY DEF Mode, Userspace, Final, After
<1>1. CASE Choose
  <2>1. TypeOK'
    BY <1>0, <1>1 DEF Choose, TypeOK
  <2>2. Rest'
    BY <1>1 DEF Choose, TypeOK, After, Rest, OneAtATime, Alive, OwnHandshake, LeavesNothing,
                Untried, Remaining, BeforeStart, PidInv, NetInv, ServedInv, ProfileInv,
                Mode, Userspace, Final
  <2> QED BY <2>1, <2>2 DEF Rest
<1>2. CASE PrepareFails
  <2>1. TypeOK'
    BY <1>0, <1>2 DEF PrepareFails, Return, TypeOK
  <2>2. Rest'
    BY <1>2 DEF PrepareFails, Return, TypeOK, Rest, OneAtATime, Alive, OwnHandshake,
                LeavesNothing, Untried, Remaining, BeforeStart, PidInv, NetInv, ServedInv, ProfileInv,
                Mode, Userspace, Final
  <2> QED BY <2>1, <2>2 DEF Rest
<1>3. CASE Prepare
  <2>1. TypeOK'
    BY <1>0, <1>3 DEF Prepare, TypeOK
  <2>2. Rest'
    BY <1>3 DEF Prepare, TypeOK, Rest, OneAtATime, Alive, OwnHandshake, LeavesNothing,
                Untried, Remaining, BeforeStart, PidInv, NetInv, ServedInv, ProfileInv,
                Mode, Userspace, Final
  <2> QED BY <2>1, <2>2 DEF Rest
<1>4. CASE Arm
  <2>1. TypeOK'
    BY <1>0, <1>4 DEF Arm, TypeOK
  <2>2. Rest'
    BY <1>4 DEF Arm, TypeOK, Rest, OneAtATime, Alive, OwnHandshake, LeavesNothing,
                Untried, Remaining, BeforeStart, PidInv, NetInv, ServedInv, ProfileInv,
                Mode, Userspace, Final
  <2> QED BY <2>1, <2>2 DEF Rest
<1>5. CASE SaveTTY
  <2>1. TypeOK'
    BY <1>0, <1>5 DEF SaveTTY, TypeOK
  <2>2. Rest'
    BY <1>5 DEF SaveTTY, TypeOK, Rest, OneAtATime, Alive, OwnHandshake, LeavesNothing,
                Untried, Remaining, BeforeStart, PidInv, NetInv, ServedInv, ProfileInv,
                Mode, Userspace, Final
  <2> QED BY <2>1, <2>2 DEF Rest
<1>6. CASE StartFails
  <2>1. TypeOK'
    BY <1>0, <1>6 DEF StartFails, Return, TypeOK
  <2>2. Rest'
    BY <1>6 DEF StartFails, Return, TypeOK, Rest, OneAtATime, Alive, OwnHandshake,
                LeavesNothing, Untried, Remaining, BeforeStart, PidInv, NetInv, ServedInv, ProfileInv,
                Mode, Userspace, Final
  <2> QED BY <2>1, <2>2 DEF Rest
<1>7. CASE StartChild
  <2>1. child[mode] = "none"
    <3>1. mode \in Remaining(mode)
      BY DEF TypeOK, Remaining, Mode, Userspace, Final
    <3>2. xb \in BeforeStart
      BY <1>7 DEF StartChild, BeforeStart
    <3> QED BY <3>1, <3>2 DEF Untried
  <2>2. TypeOK'
    BY <1>0, <1>7, <2>1 DEF StartChild, TypeOK
  <2>3. Rest'
    BY <1>7, <2>1 DEF StartChild, TypeOK, Rest, OneAtATime, Alive, OwnHandshake,
                LeavesNothing, Untried, Remaining, BeforeStart, PidInv, NetInv, ServedInv, ProfileInv,
                Mode, Userspace, Final
  <2> QED BY <2>2, <2>3 DEF Rest
<1>8. CASE ReadPid
  <2>1. TypeOK'
    BY <1>0, <1>8 DEF ReadPid, TypeOK
  <2>2. Rest'
    BY <1>8 DEF ReadPid, TypeOK, Rest, OneAtATime, Alive, OwnHandshake, LeavesNothing,
                Untried, BeforeStart, PidInv, NetInv, ServedInv, ProfileInv, Remaining, Mode,
                Userspace, Final
  <2> QED BY <2>1, <2>2 DEF Rest
<1>9. CASE PidTimeout
  <2>1. TypeOK'
    BY <1>0, <1>9 DEF PidTimeout, Kill, TypeOK
  <2>2. Rest'
    BY <1>9 DEF PidTimeout, Kill, TypeOK, Rest, OneAtATime, Alive, OwnHandshake,
                LeavesNothing, Untried, BeforeStart, PidInv, NetInv, ServedInv, ProfileInv, Remaining, Mode,
                Userspace, Final
  <2> QED BY <2>1, <2>2 DEF Rest
<1>10. CASE ToolFails
  <2>1. TypeOK'
    BY <1>0, <1>10 DEF ToolFails, TypeOK
  <2>2. Rest'
    BY <1>10 DEF ToolFails, TypeOK, Rest, OneAtATime, Alive, OwnHandshake, LeavesNothing,
                 Untried, BeforeStart, PidInv, NetInv, ServedInv, ProfileInv, Remaining, Mode,
                Userspace, Final
  <2> QED BY <2>1, <2>2 DEF Rest
<1>11. CASE WriteReady
  <2>1. TypeOK'
    BY <1>0, <1>11 DEF WriteReady, TypeOK
  <2>2. Rest'
    BY <1>11 DEF WriteReady, TypeOK, Rest, OneAtATime, Alive, OwnHandshake, LeavesNothing,
                 Untried, BeforeStart, PidInv, NetInv, ServedInv, ProfileInv, Remaining, Mode,
                Userspace, Final
  <2> QED BY <2>1, <2>2 DEF Rest
<1>12. CASE WriteReadyFails
  <2>1. TypeOK'
    BY <1>0, <1>12 DEF WriteReadyFails, Kill, TypeOK
  <2>2. Rest'
    BY <1>12 DEF WriteReadyFails, Kill, TypeOK, Rest, OneAtATime, Alive, OwnHandshake,
                 LeavesNothing, Untried, BeforeStart, PidInv, NetInv, ServedInv, ProfileInv, Remaining, Mode,
                Userspace, Final
  <2> QED BY <2>1, <2>2 DEF Rest
<1>13. CASE Wait
  <2>1. TypeOK'
    BY <1>0, <1>13 DEF Wait, Return, TypeOK
  <2>2. Rest'
    BY <1>13 DEF Wait, Return, TypeOK, Rest, OneAtATime, Alive, OwnHandshake,
                 LeavesNothing, Untried, BeforeStart, PidInv, NetInv, ServedInv, ProfileInv, Remaining, Mode,
                Userspace, Final
  <2> QED BY <2>1, <2>2 DEF Rest
<1>14. CASE Reap
  <2>1. TypeOK'
    BY <1>0, <1>14 DEF Reap, Return, TypeOK
  <2>2. Rest'
    BY <1>14 DEF Reap, Return, TypeOK, Rest, OneAtATime, Alive, OwnHandshake,
                 LeavesNothing, Untried, BeforeStart, PidInv, NetInv, ServedInv, ProfileInv, Remaining, Mode,
                Userspace, Final
  <2> QED BY <2>1, <2>2 DEF Rest
<1>15. CASE Fallback
  <2>1. TypeOK'
    BY <1>0, <1>15 DEF Fallback, TypeOK
  <2>2. Rest'
    BY <1>15 DEF Fallback, TypeOK, After, Rest, OneAtATime, Alive, OwnHandshake,
                 LeavesNothing, Untried, BeforeStart, PidInv, NetInv, ServedInv, ProfileInv, Remaining, Mode,
                Userspace, Final
  <2> QED BY <2>1, <2>2 DEF Rest
<1>16. CASE Cleanup
  <2>1. TypeOK'
    BY <1>0, <1>16 DEF Cleanup, TypeOK
  <2>2. Rest'
    BY <1>16 DEF Cleanup, TypeOK, Rest, OneAtATime, Alive, OwnHandshake, LeavesNothing,
                 Untried, BeforeStart, PidInv, NetInv, ServedInv, ProfileInv, Remaining, Mode,
                Userspace, Final
  <2> QED BY <2>1, <2>2 DEF Rest
<1> QED BY <1>1, <1>2, <1>3, <1>4, <1>5, <1>6, <1>7, <1>8, <1>9, <1>10, <1>11, <1>12,
           <1>13, <1>14, <1>15, <1>16 DEF XbStep

\* ... so does the end of the clean-up, and that of the network tool ...
LEMMA EndIInv ==
    ASSUME IInv, StopReturns \/ ToolExits PROVE IInv'
<1> USE DEF IInv, fileVars, netVars, undoVars, childVars, signalVars
<1>1. CASE StopReturns
  <2>1. TypeOK'
    BY <1>1 DEF StopReturns, TypeOK
  <2>2. Rest'
    BY <1>1 DEF StopReturns, TypeOK, Rest, OneAtATime, Alive, OwnHandshake, LeavesNothing,
                Untried, BeforeStart, PidInv, NetInv, ServedInv, ProfileInv, Remaining, Mode,
                Userspace, Final
  <2> QED BY <2>1, <2>2 DEF Rest
<1>2. CASE ToolExits
  <2>1. TypeOK'
    BY <1>2 DEF ToolExits, TypeOK
  <2>2. Rest'
    BY <1>2 DEF ToolExits, TypeOK, Rest, OneAtATime, Alive, OwnHandshake, LeavesNothing,
                Untried, BeforeStart, PidInv, NetInv, ServedInv, ProfileInv, Remaining, Mode,
                Userspace, Final
  <2> QED BY <2>1, <2>2 DEF Rest
<1> QED BY <1>1, <1>2

\* ... so does a step of the child ...
LEMMA ChildIInv ==
    ASSUME IInv, NEW m \in Mode,
           \/ ScriptStep(m) \/ SetTTY(m) \/ ScriptFails(m) \/ CommandExits(m) \/ Dies(m)
    PROVE  IInv'
<1> USE DEF IInv, fileVars, netVars, undoVars, childVars, signalVars
<1>1. CASE WritePid(m)
  <2>1. TypeOK'
    BY <1>1 DEF WritePid, TypeOK, Mode, Userspace
  <2>2. xb # "killed" => m = mode
    BY <1>1 DEF WritePid, OneAtATime, Alive
  <2>3. Rest'
    BY <1>1, <2>2 DEF WritePid, TypeOK, Rest, OneAtATime, Alive, OwnHandshake, LeavesNothing,
             Untried, BeforeStart, PidInv, NetInv, ServedInv, ProfileInv, Remaining, Mode,
                Userspace, Final
  <2> QED BY <2>1, <2>3 DEF Rest
<1>2. CASE Begin(m)
  <2>1. TypeOK'
    BY <1>2 DEF Begin, TypeOK, Mode, Userspace, Final
  <2>2. xb # "killed" => m = mode /\ xb \in {"pid", "ready", "wait", "reap"}
    BY <1>2 DEF Begin, OneAtATime, Alive
  <2>3. Rest'
    BY <1>2, <2>2 DEF Begin, TypeOK, Rest, OneAtATime, Alive, OwnHandshake, LeavesNothing,
             Untried, BeforeStart, PidInv, NetInv, ServedInv, ProfileInv, Remaining, Mode,
                Userspace, Final
  <2> QED BY <2>1, <2>3 DEF Rest
<1>3. CASE SetTTY(m)
  <2>1. TypeOK'
    BY <1>3 DEF SetTTY, TypeOK
  <2>2. Rest'
    BY <1>3 DEF SetTTY, Rest, OneAtATime, Alive, OwnHandshake, LeavesNothing, Untried,
                PidInv, NetInv, ServedInv, ProfileInv
  <2> QED BY <2>1, <2>2 DEF Rest
<1>4. ASSUME NEW c \in {"ok", "failed"}, Alive(m), Exit(m, c) PROVE IInv'
  <2>1. TypeOK'
    BY <1>4 DEF Exit, TypeOK, Alive
  <2>2. Rest'
    BY <1>4 DEF Exit, TypeOK, Rest, OneAtATime, Alive, OwnHandshake, LeavesNothing, Untried,
                PidInv, NetInv, ServedInv, ProfileInv, Remaining, Mode,
                Userspace, Final
  <2> QED BY <2>1, <2>2 DEF Rest
<1> QED BY <1>1, <1>2, <1>3, <1>4 DEF ScriptStep, ScriptFails, CommandExits, Dies, Alive

\* ... and one of a signal.
LEMMA SignalIInv ==
    ASSUME IInv, Signal \/ \E m \in Mode : Forward(m) \/ HandlerEnds(m) PROVE IInv'
<1> USE DEF IInv, fileVars, netVars, undoVars, childVars, signalVars
<1>1. CASE Signal
  <2>1. TypeOK'
    BY <1>1 DEF Signal, TypeOK, Registered
  <2>2. Rest'
    BY <1>1 DEF Signal, Rest, OneAtATime, Alive, OwnHandshake, LeavesNothing, Untried,
                BeforeStart, PidInv, NetInv, ServedInv, ProfileInv
  <2> QED BY <2>1, <2>2 DEF Rest
<1>2. ASSUME NEW m \in Mode, Forward(m) \/ HandlerEnds(m) PROVE IInv'
  <2>1. TypeOK'
    BY <1>2 DEF Forward, HandlerEnds, TypeOK
  <2>2. Rest'
    BY <1>2 DEF Forward, HandlerEnds, Rest, OneAtATime, Alive, OwnHandshake, LeavesNothing,
                Untried, PidInv, NetInv, ServedInv, ProfileInv
  <2> QED BY <2>1, <2>2 DEF Rest
<1> QED BY <1>1, <1>2

\* The invariant holds in every state, for every set of installed tools, on both
\* systems, and for any number of signals.
THEOREM AlwaysIInv == Spec => []IInv
<1>1. ASSUME IInv, UNCHANGED vars PROVE IInv'
  BY <1>1 DEF IInv, TypeOK, OneAtATime, Alive, OwnHandshake, LeavesNothing, Untried, PidInv,
              NetInv, ServedInv, ProfileInv, vars, fileVars, netVars, undoVars, childVars, signalVars
<1>2. IInv /\ [Next]_vars => IInv'
  BY <1>1, XbIInv, EndIInv, ChildIInv, SignalIInv DEF Next
<1> QED BY InitIInv, <1>2, PTL DEF Spec

\* Every variable of the run of a command keeps its type.
THEOREM AlwaysTypeOK == Spec => []TypeOK
<1>1. IInv => TypeOK
  BY DEF IInv
<1> QED BY AlwaysIInv, <1>1, PTL

\* Two attempts never overlap: whatever failed or timed out, the processes of an
\* attempt are gone before runLinux tries the next one or xb cleans up.
THEOREM NeverOverlap == Spec => []OneAtATime
<1>1. IInv => OneAtATime
  BY DEF IInv
<1> QED BY AlwaysIInv, <1>1, PTL

\* A network tool that runs was started on the sandbox of the attempt that is made, and
\* no shell goes on to its command before one was started for it or it was told that
\* none was: what an earlier attempt left in the files releases nobody.
THEOREM HandshakeIsOwn == Spec => []OwnHandshake
<1>1. IInv => OwnHandshake
  BY DEF IInv
<1> QED BY AlwaysIInv, <1>1, PTL

\* No network tool and no profile is left when xb is done, whichever step failed.
THEOREM NothingLeft == Spec => []LeavesNothing
<1>1. IInv => LeavesNothing
  BY DEF IInv
<1> QED BY AlwaysIInv, <1>1, PTL
===============================================================================
