------------------------------ MODULE SandboxRun ------------------------------
(***************************************************************************)
(* How a command is run (Start and runDarwin in pkg/sandbox/sandbox.go,    *)
(* runLinux in sandbox_linux.go): on Linux the modes tried one after the   *)
(* other, the handshake between xb and the shell in the sandbox over two   *)
(* files and the network tool, on macOS the profile of sandbox-exec; on    *)
(* both the terminal, the signals that forwardSignals passes on, and the   *)
(* clean-up.                                                               *)
(*                                                                         *)
(* The attempts are named by their mode.  bwrap, sandbox-exec, the network *)
(* tool and the command are processes that may fail or exit when they      *)
(* like; bwrap dies with xb (--die-with-parent), sandbox-exec does not.    *)
(***************************************************************************)
EXTENDS Naturals, FiniteSets

CONSTANTS
    Systems,    \* "linux", "darwin": where xb may be run
    Installed,  \* which of "pasta" and "slirp4netns" are found
    MaxSignals  \* bound: how many SIGTERM or SIGINT xb is sent

Userspace == {"pasta", "slirp4netns"}
Mode == Userspace \cup {"relay", "seatbelt"}
\* The last mode of each system is that of an error nothing is tried after.
Final == {"relay", "seatbelt"}
After(m) == IF m = "pasta" THEN "slirp4netns" ELSE "relay"

ASSUME RunAssumption ==
    /\ Systems \subseteq {"linux", "darwin"}
    /\ Installed \subseteq Userspace
    /\ MaxSignals \in Nat

VARIABLES
    xb,        \* where xb is
    mode,      \* the attempt it makes
    result,    \* how the last attempt ended: "none", "ok", "failed"
    pidFile,   \* the attempt whose shell wrote sandbox-pid, or "none"
    ready,     \* what network-ready holds: "none", "abort", "ready"
    profile,   \* whether the file with the profile of sandbox-exec is there
    net,       \* the attempt for whose sandbox a network tool runs, or "none"
    served,    \* history: the attempts for whose sandbox one was started
    tty,       \* how the terminal is set: "cooked", as xb found it, or "raw"
    saved,     \* what saveTTY of this attempt has returned, "none" for nothing
    child,     \* bwrap or sandbox-exec of each attempt and what runs in it
    code,      \* its exit: "none", "ok", "failed"
    sent,      \* the attempts whose child was sent a signal
    began,     \* the attempts in which the command was started
    handler,   \* the goroutine of forwardSignals of each attempt
    pending,   \* the attempts whose signal channel holds a signal
    signals    \* how many signals xb was sent

fileVars   == <<pidFile, ready>>
netVars    == <<net, served>>
undoVars   == <<profile, tty, saved>>
childVars  == <<child, code, sent, began>>
signalVars == <<handler, pending, signals>>
vars == <<xb, mode, result, fileVars, netVars, undoVars, childVars, signalVars>>

Init ==
    /\ xb = "choose" /\ result = "none"
    /\ mode \in {IF system = "darwin" THEN "seatbelt" ELSE "pasta" : system \in Systems}
    /\ pidFile = "none" /\ ready = "none" /\ profile = FALSE
    /\ net = "none" /\ served = {}
    /\ tty = "cooked" /\ saved = "none"
    /\ child = [m \in Mode |-> "none"] /\ code = [m \in Mode |-> "none"]
    /\ sent = {} /\ began = {}
    /\ handler = [m \in Mode |-> "off"] /\ pending = {} /\ signals = 0

Alive(m) == child[m] \in {"booting", "waiting", "command"}

-------------------------------------------------------------------------------
(* xb: runLinux, runLinuxUserspaceNet, runLinuxRelay and runDarwin.           *)

\* LookPath of the tool: a mode whose tool is not installed is passed over.
Choose ==
    /\ xb = "choose"
    /\ IF mode \in Installed \cup Final
       THEN xb' = "prepare" /\ UNCHANGED mode
       ELSE mode' = After(mode) /\ UNCHANGED xb
    /\ UNCHANGED <<result, fileVars, netVars, childVars, signalVars, undoVars>>

\* Mutant of Return: the deferred os.Remove of the profile is left out.
Return_KeepsProfile(r) ==
    /\ result' = r
    /\ tty' = IF saved = "none" THEN tty ELSE saved
    /\ saved' = "none" /\ UNCHANGED profile
    /\ handler' = [handler EXCEPT ![mode] = IF @ = "armed" THEN "closing" ELSE @]
    /\ xb' = "returned"
    /\ UNCHANGED <<mode, pending, signals>>

\* The attempt returns.  Deferred: restoreTTY does nothing when nothing was saved,
\* stopSig tells the goroutine to end, the profile is removed.
Return(r) ==
    /\ result' = r
    /\ tty' = IF saved = "none" THEN tty ELSE saved
    /\ saved' = "none" /\ profile' = FALSE
    /\ handler' = [handler EXCEPT ![mode] = IF @ = "armed" THEN "closing" ELSE @]
    /\ xb' = "returned"
    /\ UNCHANGED <<mode, pending, signals>>

\* bwrap, the directory, the proxy socket of the relay or the profile is missing.
PrepareFails ==
    /\ xb = "prepare"
    /\ Return("failed")
    /\ UNCHANGED <<fileVars, netVars, childVars>>

\* Mutant of Prepare: the files of the attempt before are left.
Prepare_KeepsFiles ==
    /\ xb = "prepare"
    /\ UNCHANGED fileVars
    /\ profile' = (mode = "seatbelt")
    /\ xb' = "arm"
    /\ UNCHANGED <<mode, result, netVars, tty, saved, childVars, signalVars>>

Prepare ==
    /\ xb = "prepare"
    /\ IF mode \in Userspace THEN pidFile' = "none" /\ ready' = "none"
       ELSE UNCHANGED fileVars
    /\ profile' = (mode = "seatbelt")
    /\ xb' = "arm"
    /\ UNCHANGED <<mode, result, netVars, tty, saved, childVars, signalVars>>

\* forwardSignals: signals now go to the channel, before there is a process.
Arm ==
    /\ xb = "arm"
    /\ handler' = [handler EXCEPT ![mode] = "armed"]
    /\ xb' = "save"
    /\ UNCHANGED <<mode, result, fileVars, netVars, childVars, pending, signals, undoVars>>

\* What stty finds on its standard input: saveTTY sets no Stdin, and os/exec gives
\* such a process the null device, which has no settings to tell.
SttyInput == "null device"

SaveTTY ==
    /\ xb = "save"
    /\ saved' = IF SttyInput = "terminal" THEN tty ELSE "none"
    /\ xb' = "start"
    /\ UNCHANGED <<mode, result, fileVars, netVars, profile, tty, childVars, signalVars>>

StartFails ==
    /\ xb = "start"
    /\ Return("failed")
    /\ UNCHANGED <<fileVars, netVars, childVars>>

StartChild ==
    /\ xb = "start"
    /\ child' = [child EXCEPT ![mode] = "booting"]
    /\ xb' = IF mode \in Final THEN "wait" ELSE "pid"
    /\ UNCHANGED <<mode, result, fileVars, netVars, code, sent, began, signalVars, undoVars>>

\* waitForFile finds a number in sandbox-pid, and the tool is started on it.
ReadPid ==
    /\ xb = "pid" /\ pidFile # "none"
    /\ net' = pidFile
    /\ served' = served \cup {pidFile}
    /\ xb' = "ready"
    /\ UNCHANGED <<mode, result, fileVars, childVars, signalVars, undoVars>>

\* Kill(m) is cmd.Process.Kill: the child's exit follows.
Kill(m) == sent' = sent \cup {m}

\* Mutant of PidTimeout: the child is killed, and not waited for.
PidTimeout_NoWait ==
    /\ xb = "pid"
    /\ Kill(mode)
    /\ Return("failed")
    /\ UNCHANGED <<fileVars, netVars, child, code, began>>

\* ... or five seconds have passed.
PidTimeout ==
    /\ xb = "pid"
    /\ Kill(mode)
    /\ xb' = "reap"
    /\ UNCHANGED <<mode, result, fileVars, netVars, child, code, began, signalVars, undoVars>>

\* The tool does not start: "abort" is written, or an ignored error occurs, and
\* the child is waited for.
ToolFails ==
    /\ xb = "pid" /\ pidFile # "none"
    /\ ready' \in {"abort", "none"}
    /\ xb' = "reap"
    /\ UNCHANGED <<mode, result, pidFile, netVars, childVars, signalVars, undoVars>>

WriteReady ==
    /\ xb = "ready"
    /\ ready' = "ready"
    /\ xb' = "wait"
    /\ UNCHANGED <<mode, result, pidFile, netVars, childVars, signalVars, undoVars>>

\* Mutant of WriteReadyFails: the tool is left running.
WriteReadyFails_KeepsTool ==
    /\ xb = "ready"
    /\ ready' \in {"none", "ready"}
    /\ Kill(mode)
    /\ xb' = "reap"
    /\ UNCHANGED <<mode, result, pidFile, netVars, child, code, began, signalVars, undoVars>>

\* os.WriteFile may fail before or after it has created the file.
WriteReadyFails ==
    /\ xb = "ready"
    /\ ready' \in {"none", "ready"}
    /\ net' = "none" /\ UNCHANGED served
    /\ Kill(mode)
    /\ xb' = "reap"
    /\ UNCHANGED <<mode, result, pidFile, child, code, began, signalVars, undoVars>>

\* Mutant of Wait: the exit of the child is not waited for.
Wait_TooEarly ==
    /\ xb = "wait"
    /\ net' = "none" /\ UNCHANGED served
    /\ IF mode \in Userspace THEN pidFile' = "none" /\ ready' = "none"
       ELSE UNCHANGED fileVars
    /\ Return(code[mode])
    /\ UNCHANGED childVars

\* cmd.Wait of a child that was not killed; the tool and the files go after it.
Wait ==
    /\ xb = "wait" /\ child[mode] = "exited"
    /\ net' = "none" /\ UNCHANGED served
    /\ IF mode \in Userspace THEN pidFile' = "none" /\ ready' = "none"
       ELSE UNCHANGED fileVars
    /\ Return(code[mode])
    /\ UNCHANGED childVars

\* cmd.Wait on the paths that fail: the files stay.
Reap ==
    /\ xb = "reap" /\ child[mode] = "exited"
    /\ Return("failed")
    /\ UNCHANGED <<fileVars, netVars, childVars>>

\* Any error of an attempt makes runLinux try the next one; runDarwin is the only one.
Fallback ==
    /\ xb = "returned"
    /\ IF result = "failed" /\ mode \notin Final
       THEN mode' = After(mode) /\ xb' = "choose"
       ELSE xb' = "cleanup" /\ UNCHANGED mode
    /\ UNCHANGED <<result, fileVars, netVars, childVars, signalVars, undoVars>>

\* Cleanup calls the guardian's Stop (Guardian.CloseStopCh and on) ...
Cleanup ==
    /\ xb = "cleanup"
    /\ xb' = "stopping"
    /\ UNCHANGED <<mode, result, fileVars, netVars, childVars, signalVars, undoVars>>

\* ... and when that returns, if it does, the state directory is removed.
StopReturns ==
    /\ xb = "stopping"
    /\ pidFile' = "none" /\ ready' = "none"
    /\ xb' = "done"
    /\ UNCHANGED <<mode, result, netVars, childVars, signalVars, undoVars>>

-------------------------------------------------------------------------------
(* The network tool.                                                          *)

\* The tool ends by itself; nobody looks after it until the command has exited.
ToolExits ==
    /\ net # "none"
    /\ net' = "none"
    /\ UNCHANGED <<xb, mode, result, fileVars, served, undoVars, childVars, signalVars>>

-------------------------------------------------------------------------------
(* The child: bwrap, the setup script, the command.                           *)

WritePid(m) ==
    /\ m \in Userspace /\ child[m] = "booting"
    /\ pidFile' = m
    /\ child' = [child EXCEPT ![m] = "waiting"]
    /\ UNCHANGED <<xb, mode, result, ready, netVars, code, sent, began, signalVars, undoVars>>

\* Mutant of Begin: the shell insists on the word "ready".
Begin_ReadyOnly(m) ==
    /\ \/ m \in Userspace /\ child[m] = "waiting" /\ ready = "ready"
       \/ m \in Final /\ child[m] = "booting"
    /\ child' = [child EXCEPT ![m] = "command"]
    /\ began' = began \cup {m}
    /\ UNCHANGED <<xb, mode, result, fileVars, netVars, code, sent, signalVars, undoVars>>

\* The shell looks whether network-ready exists, not what it says, and execs.
Begin(m) ==
    /\ \/ m \in Userspace /\ child[m] = "waiting" /\ ready # "none"
       \/ m \in Final /\ child[m] = "booting"
    /\ child' = [child EXCEPT ![m] = "command"]
    /\ began' = began \cup {m}
    /\ UNCHANGED <<xb, mode, result, fileVars, netVars, code, sent, signalVars, undoVars>>

Exit(m, c) ==
    /\ child' = [child EXCEPT ![m] = "exited"]
    /\ code' = [code EXCEPT ![m] = c]
    /\ UNCHANGED <<xb, mode, result, fileVars, netVars, sent, began, signalVars, undoVars>>

\* A command may set the terminal, and set it back.
SetTTY(m) ==
    /\ child[m] = "command"
    /\ tty' \in {"cooked", "raw"} \ {tty}
    /\ UNCHANGED <<xb, mode, result, fileVars, netVars, profile, saved, childVars, signalVars>>

ScriptFails(m)  == child[m] \in {"booting", "waiting"} /\ Exit(m, "failed")
CommandExits(m) == child[m] = "command" /\ \E c \in {"ok", "failed"} : Exit(m, c)
\* A child that was sent a signal may exit as it likes, but it does exit.
Dies(m) == Alive(m) /\ m \in sent /\ \E c \in {"ok", "failed"} : Exit(m, c)

-------------------------------------------------------------------------------
(* Signals sent to xb.                                                        *)

Registered == {m \in Mode : handler[m] \in {"armed", "closing"}}

\* Without a registered channel the signal has its default effect: xb is gone,
\* without clean-up, and the kernel kills what dies with its parent, not so on macOS.
Signal ==
    /\ signals < MaxSignals /\ xb \notin {"done", "killed"}
    /\ signals' = signals + 1
    /\ IF Registered # {}
       THEN pending' = pending \cup Registered /\ UNCHANGED <<xb, sent>>
       ELSE xb' = "killed" /\ sent' = Mode \ {"seatbelt"} /\ UNCHANGED pending
    /\ UNCHANGED <<mode, result, fileVars, netVars, child, code, began, handler, undoVars>>

\* The goroutine takes one signal, passes it on if the process is there, and is
\* done: signal.Stop restores the default effect for the next signal.
Forward(m) ==
    /\ xb # "killed"
    /\ m \in Registered /\ m \in pending
    /\ sent' = IF child[m] # "none" THEN sent \cup {m} ELSE sent
    /\ pending' = pending \ {m}
    /\ handler' = [handler EXCEPT ![m] = "off"]
    /\ UNCHANGED <<xb, mode, result, fileVars, netVars, child, code, began, signals, undoVars>>

\* It finds the channel done closed; a signal it has not read is lost.
HandlerEnds(m) ==
    /\ xb # "killed"
    /\ handler[m] = "closing"
    /\ handler' = [handler EXCEPT ![m] = "off"]
    /\ pending' = pending \ {m}
    /\ UNCHANGED <<xb, mode, result, fileVars, netVars, childVars, signals, undoVars>>

-------------------------------------------------------------------------------
XbStep ==
    \/ Choose \/ PrepareFails \/ Prepare \/ Arm \/ SaveTTY \/ StartFails \/ StartChild
    \/ ReadPid \/ PidTimeout \/ ToolFails \/ WriteReady \/ WriteReadyFails
    \/ Wait \/ Reap \/ Fallback \/ Cleanup

ScriptStep(m) == WritePid(m) \/ Begin(m)

Next ==
    \/ XbStep \/ StopReturns \/ ToolExits \/ Signal
    \/ \E m \in Mode :
         \/ ScriptStep(m) \/ SetTTY(m) \/ ScriptFails(m) \/ CommandExits(m) \/ Dies(m)
         \/ Forward(m) \/ HandlerEnds(m)

Spec == Init /\ [][Next]_vars

\* Every process and goroutine that can run does; the deadline of waitForFile
\* passes; a child exits when it was sent a signal.  The command may run for ever,
\* and whether the guardian's Stop returns is a matter of its clients (Guardian).
FairSpec ==
    /\ Spec
    /\ WF_vars(XbStep)
    /\ \A m \in Mode :
         /\ WF_vars(ScriptStep(m)) /\ WF_vars(Dies(m))
         /\ WF_vars(Forward(m)) /\ WF_vars(HandlerEnds(m))

\* ... or does not run for ever.
EndingSpec == FairSpec /\ \A m \in Mode : WF_vars(CommandExits(m))

-------------------------------------------------------------------------------
\* Every variable has its type; an attempt that has returned has a result, and a
\* child that has exited, and only it, an exit code.
TypeOK ==
    /\ xb \in {"choose", "prepare", "arm", "save", "start", "pid", "ready", "wait", "reap",
               "returned", "cleanup", "stopping", "done", "killed"}
    /\ mode \in Mode /\ result \in {"none", "ok", "failed"}
    /\ pidFile \in Userspace \cup {"none"} /\ ready \in {"none", "abort", "ready"}
    /\ net \in Userspace \cup {"none"} /\ served \subseteq Userspace
    /\ profile \in BOOLEAN
    /\ tty \in {"cooked", "raw"} /\ saved \in {"none", "cooked", "raw"}
    /\ child \in [Mode -> {"none", "booting", "waiting", "command", "exited"}]
    /\ code \in [Mode -> {"none", "ok", "failed"}]
    /\ sent \subseteq Mode /\ began \subseteq Mode
    /\ handler \in [Mode -> {"off", "armed", "closing"}] /\ pending \subseteq Mode
    /\ signals \in 0..MaxSignals
    /\ xb \in {"returned", "cleanup", "stopping", "done"} => result # "none"
    /\ \A m \in Mode : code[m] # "none" <=> child[m] = "exited"

\* Two attempts never overlap: while one is made no process of an earlier one is
\* left, and none at all when xb decides on the next or cleans up.
OneAtATime == \A m \in Mode :
    Alive(m) /\ xb # "killed" => m = mode /\ xb \in {"pid", "ready", "wait", "reap"}

\* The handshake is with the sandbox of this attempt: a tool that runs was started on
\* the pid its shell wrote, the shell is not released by what an earlier attempt left,
\* and it does not go on to the command before a tool was started for its own sandbox,
\* or "abort" told it that none was. (Whether that tool still runs nobody looks.)
OwnHandshake ==
    /\ xb \in {"ready", "wait"} => net \in {mode, "none"}
    /\ xb \in {"arm", "save", "start", "pid", "ready"} /\ mode \in Userspace => ready = "none"
    /\ \A m \in Userspace : child[m] = "command" => m \in served \/ ready = "abort"

\* When xb is done no network tool is left, whichever step failed, and the profile
\* of sandbox-exec is gone.
LeavesNothing == xb = "done" => net = "none" /\ ~profile

\* The inductive invariant of the proof: the modes still to come have not been
\* tried; a sandbox-pid that is read is of this attempt; a tool runs only between the
\* handshake and the exit of its sandbox; whoever is told "ready" was served; and the
\* profile lives as long as its attempt.
Remaining(m) ==
    IF m \in Final THEN {m} ELSE IF m = "pasta" THEN Userspace \cup {"relay"}
    ELSE {"slirp4netns", "relay"}

BeforeStart == {"choose", "prepare", "arm", "save", "start"}

Untried == \A m \in Remaining(mode) :
    m # mode \/ xb \in BeforeStart => child[m] = "none"

PidInv ==
    /\ xb \in {"arm", "save", "start", "pid"} /\ mode \in Userspace => pidFile \in {mode, "none"}
    /\ xb \in {"pid", "ready"} => mode \in Userspace

NetInv == xb # "killed" =>
    net \in IF xb \in {"ready", "wait"} /\ mode \in Userspace THEN {mode, "none"} ELSE {"none"}

ServedInv ==
    /\ xb \in {"ready", "wait"} /\ mode \in Userspace => mode \in served
    /\ \A m \in Userspace :
         ready = "ready" /\ child[m] \in {"booting", "waiting"} => m \in served

ProfileInv ==
    xb \in {"choose", "prepare", "returned", "cleanup", "stopping", "done"} => ~profile

\* The attempts, what they leave and what the next one finds agree.
IInv ==
    /\ TypeOK /\ OneAtATime /\ OwnHandshake /\ LeavesNothing
    /\ Untried /\ PidInv /\ NetInv /\ ServedInv /\ ProfileInv

AbortLost == xb = "reap" /\ child[mode] = "waiting" /\ ready = "none"

\* xb comes to its clean-up, in which the guardian is told to stop, whatever fails on
\* the way, but for one case: the shell waits for a file that could not be written.
\* What the clean-up then waits for is Guardian's StopReturns.
ComesToCleanup == xb = "choose" ~> (xb \in {"stopping", "killed"} \/ AbortLost)

\* docs/ARCHITECTURE.md: slirp4netns is the "fallback if pasta not found", relay
\* the fallback when neither is there: the command is run in one of the modes.
RunsOnce == Cardinality(began) <= 1

\* The comment on saveTTY: the settings are "restored after the child exits".
TerminalRestored == xb = "done" => tty = "cooked"

\* The comment on forwardSignals: killing xb also terminates the sandboxed child
\* and allows the normal cleanup path to run.
KillEnds == signals > 0 ~> (xb \in {"stopping", "done", "killed"} \/ AbortLost)
===============================================================================
