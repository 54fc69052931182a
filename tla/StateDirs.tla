------------------------------- MODULE StateDirs -------------------------------
(***************************************************************************)
(* The directories ~/.xb/sandboxes/sandbox-<pid>: how an xb that starts    *)
(* and ends makes, registers and removes its own (Start and Cleanup in     *)
(* pkg/sandbox/sandbox.go, Start and Stop in pkg/guardian/proxy.go), and   *)
(* how xb --list and xb --allow read and prune all of them (ListRunning,   *)
(* liveUpdateRunning) while sandboxes come, go and crash.                  *)
(*                                                                         *)
(* A directory is named after a process id, which the system gives again   *)
(* to a later process.  What a file holds is told by who wrote it.         *)
(***************************************************************************)
EXTENDS Integers, FiniteSetsExt

CONSTANTS
    Sandbox,  \* processes that run xb <command>
    PidOf,    \* the process id of each, which is in the name of its directory
    PortOf,   \* 50000 + pid % 10000, the port of its guardian
    Lister,   \* processes that run xb --list or xb --allow
    CwdOf,    \* the directory in which each of both kinds is started
    Nobody    \* no sandbox

Pid == {PidOf[x] : x \in Sandbox}
Document == {"pid", "cwd", "command"}   \* in the order in which they are written

ASSUME DirsAssumption ==
    /\ Nobody \notin Sandbox /\ Sandbox \cap Lister = {}
    /\ PidOf \in [Sandbox -> Nat]
    /\ \A x, y \in Sandbox : PidOf[x] = PidOf[y] => PortOf[x] = PortOf[y]

VARIABLES
    pc,       \* where each process is
    there,    \* the directories that exist, by process id
    sock,     \* guardian.sock in each: the sandbox that bound it, or Nobody
    relay,    \* guardian-proxy.sock in each, of relay mode
    files,    \* who wrote pid, cwd and command in each, or Nobody
    todo,     \* the directories a lister has still to look at
    found,    \* the sandboxes it has found: [name, answered, cwd]
    told,     \* history: the pairs of a lister and a sandbox that it has updated
    last,     \* history: the last sandbox with each process id
    exposed,  \* history: those that were not let live by a lister, see Exposure
    dead,     \* history: the leftovers there were when a lister read the directory
    fresh,    \* history: the sandboxes begun since then
    due       \* history: those of its own directory that were registered then

dirVars == <<there, sock, relay, files>>
listVars == <<todo, found, told, dead, due>>
history == <<last, exposed, fresh>>
vars == <<pc, dirVars, listVars, history>>

NoFiles == [f \in Document |-> Nobody]

Init ==
    /\ pc = [p \in Sandbox \cup Lister |-> "new"]
    /\ there = {} /\ sock = [p \in Pid |-> Nobody]
    /\ relay = [p \in Pid |-> Nobody] /\ files = [p \in Pid |-> NoFiles]
    /\ todo = [l \in Lister |-> {}] /\ found = [l \in Lister |-> {}]
    /\ told = {} /\ last = [p \in Pid |-> Nobody]
    /\ exposed = {}
    /\ dead = [l \in Lister |-> {}] /\ fresh = [l \in Lister |-> {}]
    /\ due = [l \in Lister |-> {}]

Ended == {"done", "failed", "crashed"}
Alive(x) == pc[x] \notin Ended \cup {"new"}
\* The control socket accepts: from net.Listen to the close in Stop.
Listening(x) == pc[x] \in Document \cup {"launch", "running", "stop"}

Goto(p, s) == pc' = [pc EXCEPT ![p] = s]

-------------------------------------------------------------------------------
(* xb <command>                                                               *)

\* The system starts the process, with an id no live process has, and Start makes
\* the directory, or finds one.
Begin(x) ==
    /\ pc[x] = "new"
    /\ \A y \in Sandbox : PidOf[y] = PidOf[x] => ~Alive(y)
    /\ Goto(x, "bindPort")
    /\ there' = there \cup {PidOf[x]}
    /\ last' = [last EXCEPT ![PidOf[x]] = x]
    /\ fresh' = [l \in Lister |-> fresh[l] \cup {x}]
    /\ UNCHANGED <<sock, relay, files, listVars, exposed>>

HoldsPort(x) == pc[x] \in {"removeSock", "mkdir", "listen"} \/ Listening(x)

\* The proxy listener; when its port is taken, by a sandbox or another program,
\* Start returns an error and xb exits without Cleanup.
BindPort(x) ==
    /\ pc[x] = "bindPort"
    /\ \/ Goto(x, "failed")
       \/ /\ \A y \in Sandbox : HoldsPort(y) => PortOf[y] # PortOf[x]
          /\ Goto(x, "removeSock")
    /\ UNCHANGED <<dirVars, listVars, history>>

\* A socket left by an earlier process, which net.Listen would stumble over.
RemoveSock(x) ==
    /\ pc[x] = "removeSock"
    /\ sock' = [sock EXCEPT ![PidOf[x]] = Nobody]
    /\ Goto(x, "mkdir")
    /\ UNCHANGED <<there, relay, files, listVars, history>>

Mkdir(x) ==
    /\ pc[x] = "mkdir"
    /\ there' = there \cup {PidOf[x]}
    /\ Goto(x, "listen")
    /\ UNCHANGED <<sock, relay, files, listVars, history>>

\* A lister has dialled the directory in vain and is going to remove it.
Pruning(p) == \E l \in Lister : pc[l] \in {"unlink", "rmdir"} /\ Min(todo[l]) = p

\* Exposure: what a lister took for dead starts to listen before the lister has
\* removed its directory.
Listen(x) ==
    /\ pc[x] = "listen"
    /\ IF PidOf[x] \in there /\ sock[PidOf[x]] = Nobody
       THEN /\ sock' = [sock EXCEPT ![PidOf[x]] = x]
            /\ exposed' = IF Pruning(PidOf[x]) THEN exposed \cup {x} ELSE exposed
            /\ Goto(x, "pid")
       ELSE Goto(x, "failed") /\ UNCHANGED <<sock, exposed>>
    /\ UNCHANGED <<there, relay, files, listVars, last, fresh>>

NextDocument(d) == IF d = "pid" THEN "cwd" ELSE IF d = "cwd" THEN "command" ELSE "launch"

\* The three os.WriteFile of Start, whose errors are ignored.
WriteDocument(x) ==
    /\ pc[x] \in Document
    /\ files' = IF PidOf[x] \in there
                THEN [files EXCEPT ![PidOf[x]][pc[x]] = x] ELSE files
    /\ Goto(x, NextDocument(pc[x]))
    /\ UNCHANGED <<there, sock, relay, listVars, history>>

\* Mutant of Launch: Start returns at once when the command cannot be run.
Launch_NoCleanup(x) ==
    /\ pc[x] = "launch"
    /\ \/ PidOf[x] \in there /\ Goto(x, "running") /\ UNCHANGED <<there, relay>>
       \/ Goto(x, "done") /\ UNCHANGED <<there, relay>>
    /\ UNCHANGED <<sock, files, listVars, history>>

\* The command is run: over the directory, which bwrap binds into the sandbox, or
\* in relay mode, for which AddProxySock makes it again; or it cannot be run.
Launch(x) ==
    /\ pc[x] = "launch"
    /\ \/ PidOf[x] \in there /\ Goto(x, "running") /\ UNCHANGED <<there, relay>>
       \/ /\ there' = there \cup {PidOf[x]}
          /\ relay' = [relay EXCEPT ![PidOf[x]] = x]
          /\ Goto(x, "running")
       \/ Goto(x, "stop") /\ UNCHANGED <<there, relay>>
    /\ UNCHANGED <<sock, files, listVars, history>>

CommandExits(x) ==
    /\ pc[x] = "running"
    /\ Goto(x, "stop")
    /\ UNCHANGED <<dirVars, listVars, history>>

\* Stop closes the listeners, and a closed Unix listener removes its path.
CloseListeners(x) ==
    /\ pc[x] = "stop"
    /\ sock' = [sock EXCEPT ![PidOf[x]] = Nobody]
    /\ relay' = [relay EXCEPT ![PidOf[x]] = IF @ = x THEN Nobody ELSE @]
    /\ Goto(x, "remove")
    /\ UNCHANGED <<there, files, listVars, history>>

Clear(p) ==
    /\ sock' = [sock EXCEPT ![p] = Nobody]
    /\ relay' = [relay EXCEPT ![p] = Nobody]
    /\ files' = [files EXCEPT ![p] = NoFiles]

\* os.RemoveAll in Cleanup.
Remove(x) ==
    /\ pc[x] = "remove"
    /\ Clear(PidOf[x])
    /\ there' = there \ {PidOf[x]}
    /\ Goto(x, "done")
    /\ UNCHANGED <<listVars, history>>

\* xb is killed: the system closes its listeners, nothing is removed.
Crash(x) ==
    /\ Alive(x)
    /\ Goto(x, "crashed")
    /\ UNCHANGED <<dirVars, listVars, history>>

-------------------------------------------------------------------------------
(* xb --list and xb --allow                                                   *)

\* Where a sandbox listens and has written in which directory it runs; and the
\* sandboxes of a directory that are there.
WithCwd == {"command", "launch", "running", "stop"}
Registered(cwd) == {x \in Sandbox : pc[x] \in WithCwd /\ CwdOf[x] = cwd}

\* Mutant of ReadDir: an empty directory is not told from a full one.
ReadDir_Empty(l) ==
    /\ pc[l] = "new"
    /\ todo' = [todo EXCEPT ![l] = there]
    /\ dead' = [dead EXCEPT ![l] = {p \in there : ~Alive(last[p])}]
    /\ fresh' = [fresh EXCEPT ![l] = {}]
    /\ due' = [due EXCEPT ![l] = Registered(CwdOf[l])]
    /\ Goto(l, "dial")
    /\ UNCHANGED <<dirVars, found, told, last, exposed>>

ReadDir(l) ==
    /\ pc[l] = "new"
    /\ todo' = [todo EXCEPT ![l] = there]
    /\ dead' = [dead EXCEPT ![l] = {p \in there : ~Alive(last[p])}]
    /\ fresh' = [fresh EXCEPT ![l] = {}]
    /\ due' = [due EXCEPT ![l] = Registered(CwdOf[l])]
    /\ Goto(l, IF there = {} THEN "done" ELSE "dial")
    /\ UNCHANGED <<dirVars, found, told, last, exposed>>

\* The names come sorted.
Here(l) == Min(todo[l])
Forward(l) ==
    /\ todo' = [todo EXCEPT ![l] = @ \ {Here(l)}]
    /\ Goto(l, IF todo'[l] = {} THEN "tell" ELSE "dial")

\* Who answers on the control socket of a directory.
Answers(p) == {x \in Sandbox : sock[p] = x /\ Listening(x)}

\* Mutant of Dial: the socket is looked for and not dialled.
Dial_Stat(l) ==
    /\ pc[l] = "dial"
    /\ Goto(l, IF sock[Here(l)] # Nobody THEN "read" ELSE "unlink")
    /\ UNCHANGED <<dirVars, listVars, history>>

\* Mutant of Dial: a directory without its pid file is taken for dead.
Dial_PidFile(l) ==
    /\ pc[l] = "dial"
    /\ Goto(l, IF Answers(Here(l)) # {} /\ files[Here(l)]["pid"] # Nobody
               THEN "read" ELSE "unlink")
    /\ UNCHANGED <<dirVars, listVars, history>>

\* A sandbox is alive if its control socket can be dialled.
Dial(l) ==
    /\ pc[l] = "dial"
    /\ Goto(l, IF Answers(Here(l)) # {} THEN "read" ELSE "unlink")
    /\ UNCHANGED <<dirVars, listVars, history>>

\* ... within 100 ms.
DialTimesOut(l) ==
    /\ pc[l] = "dial" /\ Answers(Here(l)) # {}
    /\ exposed' = exposed \cup Answers(Here(l))
    /\ Goto(l, "unlink")
    /\ UNCHANGED <<dirVars, listVars, last, fresh>>

\* os.RemoveAll: what is in the directory, then the directory if it is empty.
Unlink(l) ==
    /\ pc[l] = "unlink"
    /\ Clear(Here(l))
    /\ Goto(l, "rmdir")
    /\ UNCHANGED <<there, listVars, history>>

IsEmpty(p) == sock[p] = Nobody /\ relay[p] = Nobody /\ files[p] = NoFiles

\* Mutant of Rmdir: the listing ends at the first leftover.
Rmdir_Last(l) ==
    /\ pc[l] = "rmdir"
    /\ there' = IF IsEmpty(Here(l)) THEN there \ {Here(l)} ELSE there
    /\ todo' = [todo EXCEPT ![l] = {}]
    /\ Goto(l, "tell")
    /\ UNCHANGED <<sock, relay, files, found, told, dead, due, history>>

Rmdir(l) ==
    /\ pc[l] = "rmdir"
    /\ there' = IF IsEmpty(Here(l)) THEN there \ {Here(l)} ELSE there
    /\ Forward(l)
    /\ UNCHANGED <<sock, relay, files, found, told, dead, due, history>>

\* pid, cwd and command as they are now, nothing for a file that is not there.
ReadFiles(l) ==
    /\ pc[l] = "read"
    /\ found' = [found EXCEPT ![l] = @ \cup {[name |-> Here(l), cwd |-> files[Here(l)]["cwd"]]}]
    /\ Forward(l)
    /\ UNCHANGED <<dirVars, told, dead, due, history>>

First(l) == CHOOSE e \in found[l] : \A f \in found[l] : e.name <= f.name

\* SendControl: who answers is asked to add the entry, which is not empty, and does.
Update(l, e) == told' = told \cup {<<l, x>> : x \in Answers(e.name)}

\* CWDMatches; of a sandbox with no document cwd nothing is known.
IsHere(l, e) == e.cwd # Nobody /\ CwdOf[e.cwd] = CwdOf[l]

\* Mutant of Tell: it is over with the first sandbox of the directory.
Tell_First(l) ==
    /\ pc[l] = "tell"
    /\ IF found[l] = {} \/ IsHere(l, First(l))
       THEN Goto(l, "done") ELSE UNCHANGED pc
    /\ IF found[l] # {} /\ IsHere(l, First(l)) THEN Update(l, First(l)) ELSE UNCHANGED told
    /\ found' = [found EXCEPT ![l] = {}]
    /\ UNCHANGED <<dirVars, todo, dead, due, history>>

\* liveUpdateRunning dials the sandboxes of the list again, one by one and by
\* name, those that were started in the directory of this xb.
Tell(l) ==
    /\ pc[l] = "tell"
    /\ IF found[l] = {}
       THEN Goto(l, "done") /\ UNCHANGED <<told, found>>
       ELSE /\ IF IsHere(l, First(l)) THEN Update(l, First(l)) ELSE UNCHANGED told
            /\ found' = [found EXCEPT ![l] = @ \ {First(l)}]
            /\ UNCHANGED pc
    /\ UNCHANGED <<dirVars, todo, dead, due, history>>

-------------------------------------------------------------------------------
Step(x) ==
    \/ BindPort(x) \/ RemoveSock(x) \/ Mkdir(x) \/ Listen(x) \/ WriteDocument(x)
    \/ Launch(x) \/ CloseListeners(x) \/ Remove(x)

ListStep(l) == Dial(l) \/ Unlink(l) \/ Rmdir(l) \/ ReadFiles(l) \/ Tell(l)

Next ==
    \/ \E x \in Sandbox : Begin(x) \/ Step(x) \/ CommandExits(x) \/ Crash(x)
    \/ \E l \in Lister : ReadDir(l) \/ ListStep(l) \/ DialTimesOut(l)

Spec == Init /\ [][Next]_vars

-------------------------------------------------------------------------------
(* Properties                                                                 *)

StarterPC ==
    {"new", "bindPort", "removeSock", "mkdir", "listen", "launch", "running",
     "stop", "remove"} \cup Document \cup Ended
ListerPC == {"new", "dial", "unlink", "rmdir", "read", "tell", "done"}

\* The state is well formed: only a directory that exists holds files, and a lister
\* that is at a directory has one to be at.
TypeOK ==
    /\ pc \in [Sandbox \cup Lister -> StarterPC \cup ListerPC]
    /\ \A x \in Sandbox : pc[x] \in StarterPC
    /\ \A l \in Lister : pc[l] \in ListerPC
    /\ there \subseteq Pid
    /\ sock \in [Pid -> Sandbox \cup {Nobody}]
    /\ relay \in [Pid -> Sandbox \cup {Nobody}]
    /\ files \in [Pid -> [Document -> Sandbox \cup {Nobody}]]
    /\ \A l \in Lister : pc[l] \in {"dial", "unlink", "rmdir", "read"} <=> todo[l] # {}
    /\ todo \in [Lister -> SUBSET Pid] /\ dead \in [Lister -> SUBSET Pid]
    /\ due \in [Lister -> SUBSET Sandbox]
    /\ found \in [Lister -> SUBSET [name : Pid, cwd : Sandbox \cup {Nobody}]]
    /\ told \subseteq Lister \X Sandbox
    /\ last \in [Pid -> Sandbox \cup {Nobody}] /\ fresh \in [Lister -> SUBSET Sandbox]
    /\ \A p \in Pid : p \notin there => IsEmpty(p)

\* Which documents a sandbox has written when it is at s.
Written(s) ==
    CASE s = "pid" -> {}
      [] s = "cwd" -> {"pid"}
      [] s = "command" -> {"pid", "cwd"}
      [] OTHER -> Document

Kept(x) ==
    /\ PidOf[x] \in there
    /\ sock[PidOf[x]] = x
    /\ \A f \in Written(pc[x]) : files[PidOf[x]][f] = x

\* A lister may take a sandbox that is starting for a leftover, but what it removes
\* the sandbox makes again: a sandbox that listens has its directory, its control
\* socket and the documents it has written, whatever listers do at the time.  Only
\* exposed ones lose them: the lister dialled just before they listened, or they
\* took more than the 100 ms that ListRunning waits (sandbox.go:458).
LiveKept == \A x \in Sandbox \ exposed : Listening(x) => Kept(x)

\* The leftovers of sandboxes that crashed or failed to start are gone after one
\* xb --list or xb --allow, unless a process that the system has given the same id
\* has begun to use the directory in the meantime (ListRunning).
PruneComplete ==
    \A l \in Lister : pc[l] = "done" =>
        \A p \in dead[l] : p \in there => \E x \in fresh[l] : PidOf[x] = p

\* xb --allow reaches all the sandboxes that run in its own directory, whatever
\* leftovers it prunes on the way and whoever comes and goes meanwhile: one that was
\* registered when it read ~/.xb/sandboxes and still listens when it is done has been
\* asked to add the entry (ListRunning, liveUpdateRunning), unless a lister's dial of
\* it took more than 100 ms, or met it before it listened, and its directory was
\* removed.
OwnDirTold ==
    \A l \in Lister : pc[l] = "done" =>
        \A x \in due[l] \ exposed : Listening(x) => <<l, x>> \in told

\* A sandbox that ends by itself, even after its directory was removed under it,
\* leaves no directory: those that are left are of sandboxes that were killed or
\* that did not get to the command (Start returns without Cleanup).
EndsClean ==
    \A p \in there : Alive(last[p]) \/ pc[last[p]] \in {"crashed", "failed"}

\* The inductive invariant of the proofs.  A live sandbox is the last with its id,
\* and a socket is of a sandbox of its directory.
LastInv == \A x \in Sandbox : Alive(x) => last[PidOf[x]] = x

NameInv == \A p \in Pid :
    /\ last[p] # Nobody => PidOf[last[p]] = p
    /\ sock[p] # Nobody => PidOf[sock[p]] = p
    /\ p \in there => last[p] # Nobody

OwnInv == LastInv /\ NameInv

\* A lister that is going to remove the directory of a sandbox that listens has
\* exposed it.
PruneOf(l) == \A x \in Sandbox \ exposed :
    Listening(x) /\ pc[l] \in {"unlink", "rmdir"} => Here(l) # PidOf[x]

\* A sandbox of its directory that was registered is still to be looked at, or found
\* with what it wrote, or told.
Late == WithCwd \cup {"remove"} \cup Ended
FoundOf(l) ==
    /\ pc[l] = "new" => due[l] = {}
    /\ pc[l] \in {"new", "done"} => found[l] = {}
    /\ \A x \in due[l] : pc[x] \in Late /\ CwdOf[x] = CwdOf[l]
    /\ \A x \in due[l] \ exposed : Listening(x) =>
         \/ PidOf[x] \in todo[l]
         \/ [name |-> PidOf[x], cwd |-> x] \in found[l]
         \/ <<l, x>> \in told

\* A leftover nobody has begun to use again is either still to be looked at or gone.
Leftover(l, p) ==
    /\ \A x \in Sandbox : PidOf[x] = p => ~Alive(x)
    /\ p \in there => p \in todo[l]
    /\ pc[l] = "rmdir" /\ Here(l) = p => IsEmpty(p)
    /\ pc[l] = "read" => Here(l) # p

DeadOf(l) == \A p \in dead[l] :
    \/ pc[l] = "new"
    \/ \E x \in fresh[l] : PidOf[x] = p
    \/ Leftover(l, p)

PruneInv == \A l \in Lister : PruneOf(l)
FoundInv == \A l \in Lister : FoundOf(l)
DeadInv  == \A l \in Lister : DeadOf(l)

\* Directories, sandboxes and listers agree.
IInv == TypeOK /\ LiveKept /\ EndsClean
        /\ OwnInv /\ PruneInv /\ FoundInv /\ DeadInv
===============================================================================
