---------------------------- MODULE StateDirsProofs ----------------------------
(***************************************************************************)
(* Proofs about StateDirs, for any number of sandboxes and listers and any *)
(* process ids: what a lister prunes, finds and updates.                   *)
(***************************************************************************)
EXTENDS StateDirs, WellFoundedInduction, TLAPS

USE DirsAssumption

\* A set of numbers that is not empty has a least element.
LEMMA Least ==
    ASSUME NEW S \in SUBSET Nat, S # {} PROVE \E n \in S : \A m \in S : n <= m
<1> DEFINE R == {ss \in Nat \X Nat : ss[1] < ss[2]}
<1>1. IsWellFoundedOn(R, Nat)
  BY NatLessThanWellFounded DEF OpToRel
<1>2. PICK n \in S : \A m \in S : ~(<<m, n>> \in R)
  <2> HIDE DEF R
  <2> QED BY <1>1, WFMin
<1>3. \A m \in S : ~(m < n)
  BY <1>2
<1> QED BY <1>3

\* The directory a lister is at is one of those it has still to look at.
LEMMA HereIn ==
    ASSUME TypeOK, NEW l \in Lister, todo[l] # {} PROVE Here(l) \in todo[l] /\ Here(l) \in Pid
<1>1. todo[l] \in SUBSET Pid /\ Pid \in SUBSET Nat
  BY DEF TypeOK, Pid
<1>2. \E n \in todo[l] : \A m \in todo[l] : n <= m
  BY <1>1, Least
<1> QED BY <1>1, <1>2 DEF Here, Min

\* Nothing is there at first.
LEMMA InitIInv == Init => IInv
<1> SUFFICES ASSUME Init PROVE IInv
  OBVIOUS
<1>1. TypeOK
  <2>1. \A p \in Sandbox \cup Lister : pc[p] = "new"
    BY DEF Init
  <2>2. pc \in [Sandbox \cup Lister -> StarterPC \cup ListerPC]
    BY DEF Init, StarterPC, ListerPC
  <2> QED BY <2>1, <2>2 DEF Init, TypeOK, StarterPC, ListerPC, NoFiles, IsEmpty
<1>2. LiveKept /\ EndsClean /\ PruneInv
  BY DEF Init, LiveKept, Listening, Document, EndsClean, PruneInv, PruneOf
<1>3. OwnInv /\ FoundInv /\ DeadInv
  BY DEF Init, OwnInv, LastInv, NameInv, FoundInv, FoundOf, DeadInv,
            DeadOf, Alive
<1> QED BY <1>1, <1>2, <1>3 DEF IInv

\* What a live sandbox does to its own directory disturbs neither what is known of
\* the others nor what a lister has found or has still to prune; what it has to show
\* is that it keeps its own directory, or leaves none.
LEMMA OwnStep ==
    ASSUME IInv, TypeOK', NEW x \in Sandbox, Alive(x),
           NEW s, s # "new", pc' = [pc EXCEPT ![x] = s],
           UNCHANGED <<listVars, last, fresh>>,
           \A p \in Pid \ {PidOf[x]} :
             /\ p \in there' <=> p \in there
             /\ sock'[p] = sock[p] /\ relay'[p] = relay[p] /\ files'[p] = files[p],
           sock'[PidOf[x]] \in {x, Nobody, sock[PidOf[x]]},
           pc[x] \in Late => s \in Late /\ (s \in WithCwd => pc[x] \in WithCwd),
           exposed \subseteq exposed',
           Listening(x)' /\ x \notin exposed' => Kept(x)' /\ ~Pruning(PidOf[x]),
           PidOf[x] \in there' => s # "done"
    PROVE  IInv'
<1>1. /\ \A y \in Sandbox : Alive(y)' => Alive(y)
      /\ \A l \in Lister : pc'[l] = pc[l]
      /\ PidOf[x] \in Pid /\ last[PidOf[x]] = x
      /\ \A y \in Sandbox : PidOf[y] \in Pid
  BY DEF IInv, TypeOK, Alive, OwnInv, LastInv, Pid
<1>2. OwnInv'
  <2>1. LastInv'
    BY <1>1 DEF IInv, OwnInv, LastInv
  <2>2. NameInv'
    BY <1>1 DEF IInv, OwnInv, NameInv
  <2> QED BY <2>1, <2>2 DEF OwnInv
<1>3. FoundInv'
  <2>1. \A y \in Sandbox : pc[y] \in Late =>
          pc'[y] \in Late /\ (Listening(y)' => Listening(y))
    BY DEF IInv, TypeOK, Late, WithCwd, Listening, Document, Ended
  <2> QED BY <1>1, <2>1 DEF IInv, TypeOK, FoundInv, FoundOf, listVars
<1>4. DeadInv'
  <2> SUFFICES ASSUME NEW l \in Lister, NEW p \in dead'[l],
                      pc[l] # "new", ~ \E y \in fresh[l] : PidOf[y] = p
               PROVE  Leftover(l, p)'
    BY <1>1 DEF DeadInv, DeadOf
  <2>1. Leftover(l, p)
    BY DEF IInv, DeadInv, DeadOf, listVars
  <2>2. p # PidOf[x] /\ p \in Pid
    BY <2>1 DEF IInv, TypeOK, Leftover, listVars
  <2>3. Here(l)' = Here(l) /\ todo'[l] = todo[l]
    BY DEF Here, listVars
  <2>4. IsEmpty(p) => IsEmpty(p)'
    BY <2>2 DEF IsEmpty
  <2> QED BY <1>1, <2>1, <2>2, <2>3, <2>4 DEF Leftover
<1>5. ASSUME NEW y \in Sandbox \ exposed', Listening(y)'
      PROVE  Kept(y)' /\ ~Pruning(PidOf[y])
  <2>1. CASE y = x
    BY <1>5, <2>1
  <2>2. CASE y # x
    <3>1. Listening(y) /\ Alive(y) /\ pc'[y] = pc[y]
      BY <1>5, <2>2 DEF IInv, TypeOK, Listening, Alive, Document, Ended
    <3>2. PidOf[y] # PidOf[x]
      BY <1>1, <2>2, <3>1 DEF IInv, OwnInv, LastInv
    <3>3. Kept(y)
      BY <3>1 DEF IInv, LiveKept
    <3>4. Kept(y)'
      BY <1>1, <3>1, <3>2, <3>3 DEF Kept
    <3>5. ~Pruning(PidOf[y])
      BY <3>1 DEF IInv, PruneInv, PruneOf, Pruning, Here
    <3> QED BY <3>4, <3>5
  <2> QED BY <2>1, <2>2
<1>6. LiveKept'
  BY <1>5 DEF LiveKept
<1>7. PruneInv'
  BY <1>1, <1>5 DEF PruneInv, PruneOf, Pruning, Here, listVars
<1>9. EndsClean'
  <2> SUFFICES ASSUME NEW p \in there' PROVE Alive(last[p])' \/ pc'[last[p]] \in {"crashed", "failed"}
    BY DEF EndsClean
  <2>1. last[p] \in Sandbox /\ PidOf[last[p]] = p /\ p \in Pid
    BY <1>2 DEF TypeOK, OwnInv, NameInv
  <2>2. CASE p = PidOf[x]
    BY <1>1, <2>2 DEF IInv, TypeOK, Alive, Ended
  <2>3. CASE p # PidOf[x]
    <3>1. last[p] # x /\ p \in there
      BY <2>1, <2>3
    <3> QED BY <2>1, <3>1 DEF IInv, TypeOK, EndsClean, Alive
  <2> QED BY <2>2, <2>3
<1> QED BY <1>2, <1>3, <1>4, <1>6, <1>7, <1>9 DEF IInv


\* Every step of a sandbox that has begun preserves the invariant.
LEMMA SandboxIInv ==
    ASSUME IInv, NEW x \in Sandbox, Step(x) \/ CommandExits(x) \/ Crash(x)
    PROVE  IInv'
<1> USE DEF dirVars, listVars, history, Document
<1>0. /\ TypeOK /\ PidOf[x] \in Pid /\ pc[x] \in StarterPC /\ x # Nobody
      /\ Listening(x) /\ x \notin exposed => Kept(x) /\ ~Pruning(PidOf[x])
      /\ Alive(x) => last[PidOf[x]] = x
  BY DEF IInv, TypeOK, Pid, LiveKept, PruneInv, PruneOf, Pruning, Here, OwnInv, LastInv
<1>1. CASE BindPort(x)
  <2>1. PICK s \in {"failed", "removeSock"} : pc' = [pc EXCEPT ![x] = s]
    BY <1>1 DEF BindPort, Goto
  <2>2. TypeOK'
    BY <1>0, <1>1, <2>1 DEF BindPort, TypeOK, StarterPC, ListerPC, Ended, IsEmpty
  <2>3. Alive(x) /\ ~Listening(x)'
    BY <1>0, <1>1, <2>1 DEF BindPort, TypeOK, Alive, Listening, Ended
  <2>4. pc[x] \in Late => s \in Late /\ (s \in WithCwd => pc[x] \in WithCwd)
    BY <1>1, <2>1 DEF BindPort, Late, WithCwd, Ended
  <2> QED BY <1>1, <2>1, <2>2, <2>3, <2>4, OwnStep DEF BindPort
<1>2. CASE RemoveSock(x)
  <2>1. pc' = [pc EXCEPT ![x] = "mkdir"]
    BY <1>2 DEF RemoveSock, Goto
  <2>2. TypeOK'
    BY <1>0, <1>2, <2>1 DEF RemoveSock, TypeOK, StarterPC, ListerPC, Ended, IsEmpty
  <2>3. Alive(x) /\ ~Listening(x)'
    BY <1>0, <1>2, <2>1 DEF RemoveSock, TypeOK, Alive, Listening, Ended
  <2>4. /\ \A p \in Pid \ {PidOf[x]} : sock'[p] = sock[p]
        /\ sock'[PidOf[x]] = Nobody
    BY <1>0, <1>2 DEF RemoveSock, TypeOK
  <2>5. pc[x] \in Late => "mkdir" \in Late /\ ("mkdir" \in WithCwd => pc[x] \in WithCwd)
    BY <1>2, <2>1 DEF RemoveSock, Late, WithCwd, Ended
  <2> QED BY <1>2, <2>1, <2>2, <2>3, <2>4, <2>5, OwnStep DEF RemoveSock
<1>3. CASE Mkdir(x)
  <2>1. pc' = [pc EXCEPT ![x] = "listen"]
    BY <1>3 DEF Mkdir, Goto
  <2>2. TypeOK'
    BY <1>0, <1>3, <2>1 DEF Mkdir, TypeOK, StarterPC, ListerPC, Ended, IsEmpty
  <2>3. Alive(x) /\ ~Listening(x)'
    BY <1>0, <1>3, <2>1 DEF Mkdir, TypeOK, Alive, Listening, Ended
  <2>4. pc[x] \in Late => "listen" \in Late /\ ("listen" \in WithCwd => pc[x] \in WithCwd)
    BY <1>3, <2>1 DEF Mkdir, Late, WithCwd, Ended
  <2> QED BY <1>3, <2>1, <2>2, <2>3, <2>4, OwnStep DEF Mkdir
<1>4. CASE Listen(x)
  <2>1. PICK s \in {"pid", "failed"} : pc' = [pc EXCEPT ![x] = s]
    BY <1>4 DEF Listen, Goto
  <2>2. TypeOK'
    <3>1. sock' \in [Pid -> Sandbox \cup {Nobody}]
      BY <1>0, <1>4 DEF Listen, TypeOK
    <3>2. \A p \in Pid : p \notin there' => IsEmpty(p)'
      BY <1>0, <1>4 DEF Listen, TypeOK, IsEmpty
    <3> QED BY <1>0, <1>4, <2>1, <3>1, <3>2 DEF Listen, TypeOK, StarterPC, ListerPC, Ended
  <2>3. Alive(x)
    BY <1>4 DEF Listen, Alive, Ended
  <2>4. /\ \A p \in Pid \ {PidOf[x]} : sock'[p] = sock[p]
        /\ sock'[PidOf[x]] \in {x, sock[PidOf[x]]}
        /\ exposed \subseteq exposed'
    BY <1>0, <1>4 DEF Listen, TypeOK
  <2>5. Listening(x)' /\ x \notin exposed' => Kept(x)' /\ ~Pruning(PidOf[x])
    BY <1>0, <1>4 DEF Listen, TypeOK, Goto, Listening, Kept, Written
  <2>6. pc[x] \in Late => s \in Late /\ (s \in WithCwd => pc[x] \in WithCwd)
    BY <1>4, <2>1 DEF Listen, Late, WithCwd, Ended
  <2> QED BY <1>4, <2>1, <2>2, <2>3, <2>4, <2>5, <2>6, OwnStep DEF Listen
<1>5. CASE WriteDocument(x)
  <2>1. PICK s \in {"cwd", "command", "launch"} :
          pc' = [pc EXCEPT ![x] = s] /\ s = NextDocument(pc[x])
    BY <1>5 DEF WriteDocument, Goto, NextDocument
  <2>2. TypeOK'
    <3>1. files' \in [Pid -> [Document -> Sandbox \cup {Nobody}]]
      BY <1>0, <1>5 DEF WriteDocument, TypeOK
    <3>2. \A p \in Pid : p \notin there' => IsEmpty(p)'
      BY <1>0, <1>5 DEF WriteDocument, TypeOK, IsEmpty
    <3> QED BY <1>0, <1>5, <2>1, <3>1, <3>2 DEF WriteDocument, TypeOK, StarterPC, ListerPC, Ended
  <2>3. Alive(x) /\ Listening(x)
    BY <1>5 DEF WriteDocument, Alive, Ended, Listening
  <2>4. /\ \A p \in Pid \ {PidOf[x]} : files'[p] = files[p]
        /\ files'[PidOf[x]]["cwd"] \in {x, files[PidOf[x]]["cwd"]}
    BY <1>0, <1>5 DEF WriteDocument, TypeOK
  <2>5. x \notin exposed' => Kept(x)' /\ ~Pruning(PidOf[x])
    <3> SUFFICES ASSUME x \notin exposed PROVE Kept(x)' /\ ~Pruning(PidOf[x])
      BY <1>5 DEF WriteDocument
    <3>1. Kept(x) /\ ~Pruning(PidOf[x])
      BY <1>0, <2>3
    <3>2. files' = [files EXCEPT ![PidOf[x]][pc[x]] = x]
      BY <1>5, <3>1 DEF WriteDocument, Kept
    <3>3. \A f \in Document : files'[PidOf[x]][f] = IF f = pc[x] THEN x ELSE files[PidOf[x]][f]
      BY <1>0, <1>5, <3>2 DEF TypeOK, WriteDocument
    <3>4. Written(s) \subseteq Written(pc[x]) \cup {pc[x]} /\ Written(s) \subseteq Document
      BY <1>5, <2>1 DEF WriteDocument, Written, NextDocument
    <3>5. \A f \in Written(pc'[x]) : files'[PidOf[x]][f] = x
      <4>1. pc'[x] = s
        BY <1>0, <2>1 DEF TypeOK
      <4>2. \A f \in Written(pc[x]) : files[PidOf[x]][f] = x
        BY <3>1 DEF Kept
      <4> QED BY <3>3, <3>4, <4>1, <4>2
    <3> QED BY <1>5, <3>1, <3>5 DEF WriteDocument, Kept
  <2>6. pc[x] \in Late => s \in Late /\ (s \in WithCwd => pc[x] \in WithCwd)
    BY <1>5, <2>1 DEF WriteDocument, Late, WithCwd, Ended, NextDocument
  <2> QED BY <1>5, <2>1, <2>2, <2>3, <2>4, <2>5, <2>6, OwnStep DEF WriteDocument
<1>6. CASE Launch(x)
  <2>1. PICK s \in {"running", "stop"} : pc' = [pc EXCEPT ![x] = s]
    BY <1>6 DEF Launch, Goto
  <2>2. TypeOK'
    <3>1. /\ relay' \in [Pid -> Sandbox \cup {Nobody}]
          /\ there \subseteq there' /\ there' \subseteq Pid
      BY <1>0, <1>6 DEF Launch, TypeOK
    <3>2. \A p \in Pid : p \notin there' => IsEmpty(p)'
      BY <1>0, <1>6 DEF Launch, TypeOK, IsEmpty
    <3> QED BY <1>0, <1>6, <2>1, <3>1, <3>2 DEF Launch, TypeOK, StarterPC, ListerPC, Ended
  <2>3. Alive(x) /\ Listening(x)
    BY <1>6 DEF Launch, Alive, Ended, Listening
  <2>4. \A p \in Pid \ {PidOf[x]} : /\ p \in there' <=> p \in there
                                    /\ relay'[p] = relay[p]
    BY <1>0, <1>6 DEF Launch, TypeOK
  <2>5. x \notin exposed' => Kept(x)' /\ ~Pruning(PidOf[x])
    BY <1>0, <1>6, <2>1, <2>3 DEF Launch, TypeOK, Kept, Written
  <2>6. pc[x] \in Late => s \in Late /\ (s \in WithCwd => pc[x] \in WithCwd)
    BY <1>6, <2>1 DEF Launch, Late, WithCwd, Ended
  <2> QED BY <1>6, <2>1, <2>2, <2>3, <2>4, <2>5, <2>6, OwnStep DEF Launch
<1>7. CASE CommandExits(x)
  <2>1. pc' = [pc EXCEPT ![x] = "stop"]
    BY <1>7 DEF CommandExits, Goto
  <2>2. TypeOK'
    BY <1>0, <1>7, <2>1 DEF CommandExits, TypeOK, StarterPC, ListerPC, Ended, IsEmpty
  <2>3. Alive(x) /\ Listening(x)
    BY <1>7 DEF CommandExits, Alive, Ended, Listening
  <2>4. x \notin exposed' => Kept(x)' /\ ~Pruning(PidOf[x])
    BY <1>0, <1>7, <2>1, <2>3 DEF CommandExits, TypeOK, Kept, Written
  <2>5. pc[x] \in Late => "stop" \in Late /\ ("stop" \in WithCwd => pc[x] \in WithCwd)
    BY <1>7, <2>1 DEF CommandExits, Late, WithCwd, Ended
  <2> QED BY <1>7, <2>1, <2>2, <2>3, <2>4, <2>5, OwnStep DEF CommandExits
<1>8. CASE CloseListeners(x)
  <2>1. pc' = [pc EXCEPT ![x] = "remove"]
    BY <1>8 DEF CloseListeners, Goto
  <2>2. TypeOK'
    <3>1. /\ sock' \in [Pid -> Sandbox \cup {Nobody}]
          /\ relay' \in [Pid -> Sandbox \cup {Nobody}]
      BY <1>0, <1>8 DEF CloseListeners, TypeOK
    <3>2. \A p \in Pid : p \notin there' => IsEmpty(p)'
      BY <1>0, <1>8 DEF CloseListeners, TypeOK, IsEmpty
    <3> QED BY <1>0, <1>8, <2>1, <3>1, <3>2
            DEF CloseListeners, TypeOK, StarterPC, ListerPC, Ended
  <2>3. Alive(x) /\ ~Listening(x)'
    BY <1>0, <1>8, <2>1 DEF CloseListeners, TypeOK, Alive, Listening, Ended
  <2>4. /\ \A p \in Pid \ {PidOf[x]} : sock'[p] = sock[p] /\ relay'[p] = relay[p]
        /\ sock'[PidOf[x]] = Nobody
    BY <1>0, <1>8 DEF CloseListeners, TypeOK
  <2>5. pc[x] \in Late => "remove" \in Late /\ ("remove" \in WithCwd => pc[x] \in WithCwd)
    BY <1>8, <2>1 DEF CloseListeners, Late, WithCwd, Ended
  <2> QED BY <1>8, <2>1, <2>2, <2>3, <2>4, <2>5, OwnStep DEF CloseListeners
<1>9. CASE Remove(x)
  <2>1. pc' = [pc EXCEPT ![x] = "done"]
    BY <1>9 DEF Remove, Goto
  <2>2. /\ sock' = [sock EXCEPT ![PidOf[x]] = Nobody]
        /\ relay' = [relay EXCEPT ![PidOf[x]] = Nobody]
        /\ files' = [files EXCEPT ![PidOf[x]] = NoFiles]
        /\ there' = there \ {PidOf[x]}
    BY <1>9 DEF Remove, Clear
  <2>3. TypeOK'
    <3>1. /\ sock' \in [Pid -> Sandbox \cup {Nobody}]
          /\ relay' \in [Pid -> Sandbox \cup {Nobody}]
          /\ files' \in [Pid -> [Document -> Sandbox \cup {Nobody}]]
      BY <1>0, <2>2 DEF TypeOK, NoFiles
    <3>2. \A p \in Pid : p \notin there' => IsEmpty(p)'
      BY <1>0, <2>2 DEF TypeOK, IsEmpty
    <3> QED BY <1>0, <1>9, <2>1, <2>2, <3>1, <3>2 DEF Remove, TypeOK, StarterPC, ListerPC, Ended
  <2>4. Alive(x) /\ ~Listening(x)'
    BY <1>0, <1>9, <2>1 DEF Remove, TypeOK, Alive, Listening, Ended
  <2>5. /\ \A p \in Pid \ {PidOf[x]} :
             sock'[p] = sock[p] /\ relay'[p] = relay[p] /\ files'[p] = files[p]
        /\ sock'[PidOf[x]] = Nobody /\ files'[PidOf[x]]["cwd"] = Nobody
    BY <1>0, <2>2 DEF TypeOK, NoFiles
  <2>6. pc[x] \in Late => "done" \in Late /\ ("done" \in WithCwd => pc[x] \in WithCwd)
    BY <1>9, <2>1 DEF Remove, Late, WithCwd, Ended
  <2> QED BY <1>9, <2>1, <2>2, <2>3, <2>4, <2>5, <2>6, OwnStep DEF Remove
<1>10. CASE Crash(x)
  <2>1. pc' = [pc EXCEPT ![x] = "crashed"]
    BY <1>10 DEF Crash, Goto
  <2>2. TypeOK'
    BY <1>0, <1>10, <2>1 DEF Crash, TypeOK, StarterPC, ListerPC, Ended, IsEmpty
  <2>3. Alive(x) /\ ~Listening(x)'
    BY <1>0, <1>10, <2>1 DEF Crash, TypeOK, Alive, Listening, Ended
  <2>4. pc[x] \in Late => "crashed" \in Late /\ ("crashed" \in WithCwd => pc[x] \in WithCwd)
    BY <1>10, <2>1 DEF Crash, Late, WithCwd, Ended
  <2> QED BY <1>10, <2>1, <2>2, <2>3, <2>4, OwnStep DEF Crash
<1> QED BY <1>1, <1>2, <1>3, <1>4, <1>5, <1>6, <1>7, <1>8, <1>9, <1>10 DEF Step


\* A sandbox that begins preserves the invariant.
LEMMA BeginIInv ==
    ASSUME IInv, NEW x \in Sandbox, Begin(x) PROVE IInv'
<1> USE DEF dirVars, listVars
<1>1. /\ PidOf[x] \in Pid /\ x # Nobody /\ pc' = [pc EXCEPT ![x] = "bindPort"]
      /\ there' = there \cup {PidOf[x]} /\ last' = [last EXCEPT ![PidOf[x]] = x]
      /\ fresh' = [l \in Lister |-> fresh[l] \cup {x}]
      /\ UNCHANGED <<sock, relay, files, todo, found, told, dead, due, exposed>>
      /\ \A y \in Sandbox : PidOf[y] \in Pid
  BY DEF Begin, Goto, Pid
<1>2. TypeOK'
  BY <1>1 DEF IInv, TypeOK, StarterPC, ListerPC, IsEmpty
<1>3. /\ \A y \in Sandbox \ {x} : pc'[y] = pc[y] /\ (Alive(y)' <=> Alive(y))
      /\ \A l \in Lister : pc'[l] = pc[l] /\ Here(l)' = Here(l)
      /\ Alive(x)' /\ ~Listening(x)' /\ pc[x] = "new" /\ ~Alive(x)
      /\ \A y \in Sandbox : PidOf[y] = PidOf[x] => ~Alive(y)
  BY <1>1 DEF Begin, IInv, TypeOK, Alive, Listening, Document, Ended, Here
<1>4. OwnInv'
  <2>1. LastInv'
    BY <1>1, <1>3 DEF IInv, TypeOK, OwnInv, LastInv
  <2>2. NameInv'
    BY <1>1 DEF IInv, TypeOK, OwnInv, NameInv
  <2> QED BY <2>1, <2>2 DEF OwnInv
<1>5. ASSUME NEW y \in Sandbox, Listening(y)' PROVE Listening(y) /\ pc'[y] = pc[y]
  BY <1>3, <1>5 DEF Listening
<1>6. LiveKept' /\ PruneInv'
  BY <1>1, <1>3, <1>5 DEF IInv, LiveKept, Kept, PruneInv, PruneOf
<1>7. FoundInv'
  <2>1. pc[x] \notin Late
    BY <1>3 DEF Late, WithCwd, Ended
  <2> QED BY <1>1, <1>3, <1>5, <2>1 DEF IInv, TypeOK, FoundInv, FoundOf
<1>8. DeadInv'
  <2> SUFFICES ASSUME NEW l \in Lister, NEW p \in dead[l], pc[l] # "new",
                      ~ \E y \in fresh[l] : PidOf[y] = p, p # PidOf[x]
               PROVE  Leftover(l, p)'
    BY <1>1, <1>3 DEF DeadInv, DeadOf
  <2>1. Leftover(l, p)
    BY DEF IInv, DeadInv, DeadOf
  <2> QED BY <1>1, <1>3, <2>1 DEF Leftover, IsEmpty
<1>9. EndsClean'
  <2> SUFFICES ASSUME NEW p \in there' PROVE Alive(last[p])' \/ pc'[last'[p]] \in {"crashed", "failed"}
    BY DEF EndsClean
  <2>1. CASE p = PidOf[x]
    BY <1>1, <1>3, <2>1 DEF IInv, TypeOK
  <2>2. CASE p # PidOf[x]
    <3>1. p \in there /\ last'[p] = last[p] /\ last[p] \in Sandbox /\ last[p] # x
      BY <1>1, <2>2 DEF IInv, TypeOK, OwnInv, NameInv
    <3> QED BY <1>3, <3>1 DEF IInv, EndsClean
  <2> QED BY <2>1, <2>2
<1> QED BY <1>2, <1>4, <1>6, <1>7, <1>8, <1>9 DEF IInv


\* A step of one lister leaves what is known of the others; and when it leaves the
\* directories alone, what is known of the sandboxes.
LEMMA OtherListers ==
    ASSUME IInv, NEW l \in Lister, NEW m \in Lister \ {l},
           pc'[m] = pc[m], todo'[m] = todo[m], found'[m] = found[m], dead'[m] = dead[m],
           fresh'[m] = fresh[m], due'[m] = due[m],
           \A x \in Sandbox : <<m, x>> \in told => <<m, x>> \in told',
           \A x \in Sandbox : pc'[x] = pc[x],
           UNCHANGED <<last>>, exposed \subseteq exposed', there' \subseteq there,
           \A p \in Pid : IsEmpty(p) => IsEmpty(p)'
    PROVE  PruneOf(m)' /\ FoundOf(m)' /\ DeadOf(m)'
<1>1. /\ Here(m)' = Here(m)
      /\ \A x \in Sandbox : (Alive(x)' => Alive(x)) /\ (Listening(x)' => Listening(x))
      /\ dead[m] \subseteq Pid
  BY DEF Here, Alive, Listening, IInv, TypeOK
<1>2. PruneOf(m)'
  BY <1>1 DEF IInv, PruneInv, PruneOf
<1>3. FoundOf(m)'
  BY <1>1 DEF IInv, TypeOK, FoundInv, FoundOf
<1>4. DeadOf(m)'
  <2> SUFFICES ASSUME NEW p \in dead[m], pc[m] # "new", ~ \E y \in fresh[m] : PidOf[y] = p
               PROVE  Leftover(m, p)'
    BY DEF DeadOf
  <2>1. Leftover(m, p)
    BY DEF IInv, DeadInv, DeadOf
  <2> QED BY <1>1, <2>1 DEF Leftover
<1> QED BY <1>2, <1>3, <1>4

LEMMA DirsAlone ==
    ASSUME IInv, \A x \in Sandbox : pc'[x] = pc[x],
           UNCHANGED <<dirVars, last>>, exposed \subseteq exposed'
    PROVE  OwnInv' /\ LiveKept' /\ EndsClean' /\ \A p \in Pid : IsEmpty(p) => IsEmpty(p)'
<1>1. \A x \in Sandbox : (Alive(x)' => Alive(x)) /\ (Listening(x)' => Listening(x))
  BY DEF Alive, Listening
<1>2. OwnInv'
  <2>1. LastInv' /\ NameInv'
    BY <1>1 DEF IInv, OwnInv, LastInv, NameInv, dirVars
  <2> QED BY <2>1 DEF OwnInv
<1>3. LiveKept'
  BY <1>1 DEF IInv, LiveKept, Kept, dirVars
<1>4. EndsClean'
  <2> SUFFICES ASSUME NEW p \in there PROVE Alive(last[p])' \/ pc'[last[p]] \in {"crashed", "failed"}
    BY DEF EndsClean, dirVars
  <2>1. last[p] \in Sandbox
    BY DEF IInv, TypeOK, OwnInv, NameInv
  <2> QED BY <2>1 DEF IInv, EndsClean, Alive
<1> QED BY <1>2, <1>3, <1>4 DEF IsEmpty, dirVars

\* A lister has read the directory.
LEMMA ReadDirIInv ==
    ASSUME IInv, NEW l \in Lister, ReadDir(l) PROVE IInv'
<1> USE DEF dirVars
<1>1. PICK s \in {"done", "dial"} : pc' = [pc EXCEPT ![l] = s] /\ (s = "dial" <=> there # {})
  BY DEF ReadDir, Goto
<1>2. TypeOK'
  <2>1. Registered(CwdOf[l]) \subseteq Sandbox
    BY DEF Registered
  <2>2. pc' \in [Sandbox \cup Lister -> StarterPC \cup ListerPC]
    BY <1>1 DEF IInv, TypeOK, StarterPC, ListerPC
  <2>3. \A m \in Lister : pc'[m] \in {"dial", "unlink", "rmdir", "read"} <=> todo'[m] # {}
    BY <1>1 DEF ReadDir, IInv, TypeOK
  <2> QED BY <1>1, <2>1, <2>2, <2>3 DEF ReadDir, IInv, TypeOK, ListerPC, IsEmpty
<1>3. (\A x \in Sandbox : pc'[x] = pc[x]) /\ \A m \in Lister \ {l} : pc'[m] = pc[m]
  BY <1>1 DEF IInv, TypeOK
<1>4. OwnInv' /\ LiveKept' /\ EndsClean' /\ \A p \in Pid : IsEmpty(p) => IsEmpty(p)'
  BY <1>3, DirsAlone DEF ReadDir
<1>5. \A m \in Lister \ {l} : PruneOf(m)' /\ FoundOf(m)' /\ DeadOf(m)'
  BY <1>3, <1>4, OtherListers DEF ReadDir, IInv, TypeOK
<1>6. PruneOf(l)' /\ FoundOf(l)'
  <2>1. /\ pc'[l] = s /\ todo'[l] = there /\ due'[l] = Registered(CwdOf[l])
        /\ exposed' = exposed /\ found'[l] = {}
    BY <1>1 DEF ReadDir, IInv, TypeOK, FoundInv, FoundOf
  <2>2. \A x \in due'[l] : pc'[x] \in Late /\ CwdOf[x] = CwdOf[l]
    BY <1>3, <2>1 DEF Registered, Late
  <2>3. \A x \in Sandbox \ exposed : Listening(x)' => PidOf[x] \in there
    BY <1>3 DEF IInv, LiveKept, Kept, Listening
  <2>4. due'[l] \subseteq Sandbox
    BY <2>1 DEF Registered
  <2> QED BY <2>1, <2>2, <2>3, <2>4 DEF PruneOf, FoundOf
<1>7. DeadOf(l)'
  <2>1. pc'[l] = s /\ dead'[l] = {p \in there : ~Alive(last[p])} /\ todo'[l] = there
    BY <1>1 DEF ReadDir, IInv, TypeOK
  <2>2. ASSUME NEW p \in dead'[l] PROVE Leftover(l, p)'
    <3>1. p \in there /\ ~Alive(last[p])
      BY <2>1, <2>2
    <3>2. \A x \in Sandbox : PidOf[x] = p => ~Alive(x)'
      BY <1>3, <3>1 DEF IInv, OwnInv, LastInv, Alive
    <3> QED BY <2>1, <3>1, <3>2 DEF Leftover
  <2> QED BY <2>2 DEF DeadOf
<1> QED BY <1>2, <1>4, <1>5, <1>6, <1>7 DEF IInv, PruneInv, FoundInv, DeadInv


\* A lister has dialled a directory, in vain or not, or too briefly.
LEMMA DialIInv ==
    ASSUME IInv, NEW l \in Lister, Dial(l) \/ DialTimesOut(l) PROVE IInv'
<1> USE DEF dirVars, listVars, history
<1>1. /\ UNCHANGED <<dirVars, listVars, last, fresh>> /\ exposed \subseteq exposed'
      /\ pc[l] = "dial"
  BY DEF Dial, DialTimesOut
<1>2. PICK s \in {"read", "unlink"} :
        /\ pc' = [pc EXCEPT ![l] = s]
        /\ s = "read" => Answers(Here(l)) # {}
        /\ s = "unlink" => Answers(Here(l)) = {} \/ exposed' = exposed \cup Answers(Here(l))
  BY DEF Dial, DialTimesOut, Goto
<1>3. exposed' \subseteq exposed \cup Answers(Here(l)) /\ Here(l)' = Here(l)
  BY DEF Dial, DialTimesOut, Here
<1>4. TypeOK'
  BY <1>1, <1>2 DEF IInv, TypeOK, StarterPC, ListerPC, IsEmpty
<1>5. (\A x \in Sandbox : pc'[x] = pc[x]) /\ (\A m \in Lister \ {l} : pc'[m] = pc[m]) /\ pc'[l] = s
  BY <1>2 DEF IInv, TypeOK
<1>6. OwnInv' /\ LiveKept' /\ EndsClean' /\ \A p \in Pid : IsEmpty(p) => IsEmpty(p)'
  BY <1>1, <1>5, DirsAlone
<1>7. \A m \in Lister \ {l} : PruneOf(m)' /\ FoundOf(m)' /\ DeadOf(m)'
  BY <1>1, <1>5, <1>6, OtherListers
<1>8. Here(l) \in Pid
  BY <1>1, HereIn DEF IInv, TypeOK
<1>9. PruneOf(l)'
  <2> SUFFICES ASSUME NEW x \in Sandbox \ exposed', Listening(x)', s = "unlink", Here(l) = PidOf[x]
               PROVE  FALSE
    BY <1>3, <1>5 DEF PruneOf
  <2>1. Listening(x) /\ x \notin exposed
    BY <1>1, <1>5 DEF Listening
  <2>2. x \in Answers(Here(l))
    BY <2>1 DEF IInv, LiveKept, Kept, Answers
  <2> QED BY <1>2, <2>2
<1>10. FoundOf(l)'
  <2>1. \A x \in Sandbox : Listening(x)' => Listening(x)
    BY <1>5 DEF Listening
  <2> QED BY <1>1, <1>5, <2>1 DEF IInv, TypeOK, FoundInv, FoundOf
<1>11. DeadOf(l)'
  <2> SUFFICES ASSUME NEW p \in dead[l], ~ \E y \in fresh[l] : PidOf[y] = p
               PROVE  Leftover(l, p)'
    BY <1>1 DEF DeadOf
  <2>1. Leftover(l, p)
    BY <1>1 DEF IInv, DeadInv, DeadOf
  <2>2. s = "read" => Here(l) # p
    <3> SUFFICES ASSUME NEW x \in Answers(Here(l)), Here(l) = p PROVE FALSE
      BY <1>2
    <3>1. x \in Sandbox /\ PidOf[x] = p
      BY <1>8 DEF Answers, IInv, OwnInv, NameInv
    <3>2. Alive(x)
      BY DEF Answers, Listening, Alive, Document, Ended
    <3> QED BY <2>1, <3>1, <3>2 DEF Leftover
  <2>3. \A x \in Sandbox : Alive(x)' => Alive(x)
    BY <1>5 DEF Alive
  <2> QED BY <1>1, <1>3, <1>5, <2>1, <2>2, <2>3 DEF Leftover
<1> QED BY <1>4, <1>6, <1>7, <1>9, <1>10, <1>11 DEF IInv, PruneInv, FoundInv, DeadInv

\* It removes what is in a directory ...
LEMMA UnlinkIInv ==
    ASSUME IInv, NEW l \in Lister, Unlink(l) PROVE IInv'
<1> USE DEF listVars, history
<1>0. PICK h \in Pid : h = Here(l)
  BY HereIn DEF Unlink, IInv, TypeOK
<1>1. /\ UNCHANGED <<there, listVars, history>> /\ pc[l] = "unlink"
      /\ pc' = [pc EXCEPT ![l] = "rmdir"]
      /\ sock' = [sock EXCEPT ![h] = Nobody] /\ relay' = [relay EXCEPT ![h] = Nobody]
      /\ files' = [files EXCEPT ![h] = NoFiles]
  BY <1>0 DEF Unlink, Clear, Goto
<1>2. Here(l)' = h
  BY <1>0, <1>1 DEF Here
<1>3. /\ \A p \in Pid : IsEmpty(p) => IsEmpty(p)'
      /\ IsEmpty(h)'
  <2>1. sock'[h] = Nobody /\ \A p \in Pid \ {h} : sock'[p] = sock[p]
    BY <1>1 DEF IInv, TypeOK
  <2>2. relay'[h] = Nobody /\ \A p \in Pid \ {h} : relay'[p] = relay[p]
    BY <1>1 DEF IInv, TypeOK
  <2>3. files'[h] = NoFiles /\ \A p \in Pid \ {h} : files'[p] = files[p]
    BY <1>1 DEF IInv, TypeOK
  <2>4. IsEmpty(h)'
    BY <2>1, <2>2, <2>3 DEF IsEmpty, NoFiles
  <2>5. ASSUME NEW p \in Pid \ {h}, IsEmpty(p) PROVE IsEmpty(p)'
    BY <2>1, <2>2, <2>3, <2>5 DEF IsEmpty, NoFiles
  <2> QED BY <2>4, <2>5
<1>4. TypeOK'
  <2>1. /\ sock' \in [Pid -> Sandbox \cup {Nobody}]
        /\ relay' \in [Pid -> Sandbox \cup {Nobody}]
        /\ files' \in [Pid -> [Document -> Sandbox \cup {Nobody}]]
    BY <1>1 DEF IInv, TypeOK, NoFiles
  <2> QED BY <1>1, <1>3, <2>1 DEF IInv, TypeOK, StarterPC, ListerPC
<1>5. (\A x \in Sandbox : pc'[x] = pc[x]) /\ (\A m \in Lister \ {l} : pc'[m] = pc[m])
      /\ pc'[l] = "rmdir"
  BY <1>1 DEF IInv, TypeOK
<1>6. \A x \in Sandbox : (Alive(x)' => Alive(x)) /\ (Listening(x)' => Listening(x))
  BY <1>5 DEF Alive, Listening
<1>7. \A m \in Lister \ {l} : PruneOf(m)' /\ FoundOf(m)' /\ DeadOf(m)'
  BY <1>1, <1>3, <1>5, OtherListers
<1>8. OwnInv'
  <2>1. LastInv' /\ NameInv'
    BY <1>1, <1>6 DEF IInv, TypeOK, OwnInv, LastInv, NameInv
  <2> QED BY <2>1 DEF OwnInv
<1>9. LiveKept'
  <2> SUFFICES ASSUME NEW x \in Sandbox \ exposed, Listening(x) PROVE Kept(x)'
    BY <1>1, <1>6 DEF LiveKept
  <2>1. Kept(x) /\ PidOf[x] # h /\ PidOf[x] \in Pid
    BY <1>0, <1>1 DEF IInv, LiveKept, PruneInv, PruneOf, Pid
  <2> QED BY <1>1, <1>5, <2>1 DEF IInv, TypeOK, Kept
<1>10. EndsClean'
  <2> SUFFICES ASSUME NEW p \in there PROVE Alive(last[p])' \/ pc'[last[p]] \in {"crashed", "failed"}
    BY <1>1 DEF EndsClean
  <2>1. last[p] \in Sandbox
    BY DEF IInv, TypeOK, OwnInv, NameInv
  <2> QED BY <1>1, <1>5, <2>1 DEF IInv, EndsClean, Alive
<1>11. PruneOf(l)'
  BY <1>0, <1>1, <1>2, <1>6 DEF IInv, PruneInv, PruneOf
<1>12. FoundOf(l)'
  BY <1>1, <1>5, <1>6 DEF IInv, TypeOK, FoundInv, FoundOf
<1>13. DeadOf(l)'
  <2> SUFFICES ASSUME NEW p \in dead[l], ~ \E y \in fresh[l] : PidOf[y] = p
               PROVE  Leftover(l, p)'
    BY <1>1 DEF DeadOf
  <2>1. Leftover(l, p)
    BY <1>1 DEF IInv, DeadInv, DeadOf
  <2> QED BY <1>1, <1>2, <1>3, <1>5, <1>6, <2>1 DEF Leftover
<1> QED BY <1>4, <1>7, <1>8, <1>9, <1>10, <1>11, <1>12, <1>13
        DEF IInv, PruneInv, FoundInv, DeadInv


\* ... then the directory, if it is empty, and goes on to the next.
LEMMA RmdirIInv ==
    ASSUME IInv, NEW l \in Lister, Rmdir(l) PROVE IInv'
<1> USE DEF history
<1>0. PICK h \in todo[l] : h = Here(l) /\ h \in Pid
  BY HereIn DEF Rmdir, IInv, TypeOK
<1>1. PICK s \in {"tell", "dial"} :
        /\ pc[l] = "rmdir" /\ pc' = [pc EXCEPT ![l] = s]
        /\ todo' = [todo EXCEPT ![l] = @ \ {h}]
        /\ s = "tell" <=> todo'[l] = {}
        /\ UNCHANGED <<sock, relay, files, found, told, dead, due, history>>
        /\ there' = IF IsEmpty(h) THEN there \ {h} ELSE there
  BY <1>0 DEF Rmdir, Forward, Goto
<1>2. there' \subseteq there /\ \A p \in Pid \ {h} : p \in there => p \in there'
  BY <1>1
<1>3. \A p \in Pid : IsEmpty(p) => IsEmpty(p)'
  BY <1>1 DEF IsEmpty
<1>4. TypeOK'
  <2>1. todo' \in [Lister -> SUBSET Pid] /\ pc' \in [Sandbox \cup Lister -> StarterPC \cup ListerPC]
    BY <1>1 DEF IInv, TypeOK, StarterPC, ListerPC
  <2>2. \A m \in Lister : pc'[m] \in {"dial", "unlink", "rmdir", "read"} <=> todo'[m] # {}
    BY <1>1 DEF IInv, TypeOK
  <2>3. \A p \in Pid : p \notin there' => IsEmpty(p)
    BY <1>1 DEF IInv, TypeOK
  <2> QED BY <1>1, <1>2, <1>3, <2>1, <2>2, <2>3 DEF IInv, TypeOK, ListerPC
<1>5. (\A x \in Sandbox : pc'[x] = pc[x]) /\ (\A m \in Lister \ {l} : pc'[m] = pc[m]) /\ pc'[l] = s
  BY <1>1 DEF IInv, TypeOK
<1>6. \A x \in Sandbox : (Alive(x)' => Alive(x)) /\ (Listening(x)' => Listening(x))
  BY <1>5 DEF Alive, Listening
<1>7. \A m \in Lister \ {l} : PruneOf(m)' /\ FoundOf(m)' /\ DeadOf(m)'
  BY <1>1, <1>2, <1>3, <1>5, OtherListers DEF IInv, TypeOK
<1>8. OwnInv'
  <2>1. LastInv' /\ NameInv'
    BY <1>1, <1>2, <1>6 DEF IInv, OwnInv, LastInv, NameInv
  <2> QED BY <2>1 DEF OwnInv
<1>9. LiveKept'
  <2> SUFFICES ASSUME NEW x \in Sandbox \ exposed, Listening(x) PROVE Kept(x)'
    BY <1>1, <1>6 DEF LiveKept
  <2>1. Kept(x) /\ PidOf[x] # h /\ PidOf[x] \in Pid
    BY <1>0, <1>1 DEF IInv, LiveKept, PruneInv, PruneOf, Pid
  <2> QED BY <1>1, <1>2, <1>5, <2>1 DEF Kept
<1>10. EndsClean'
  <2> SUFFICES ASSUME NEW p \in there PROVE Alive(last[p])' \/ pc'[last[p]] \in {"crashed", "failed"}
    BY <1>1, <1>2 DEF EndsClean
  <2>1. last[p] \in Sandbox
    BY DEF IInv, TypeOK, OwnInv, NameInv
  <2> QED BY <1>1, <1>5, <2>1 DEF IInv, EndsClean, Alive
<1>11. PruneOf(l)' /\ FoundOf(l)'
  <2>1. \A x \in Sandbox \ exposed : Listening(x) => PidOf[x] # h
    BY <1>0, <1>1 DEF IInv, PruneInv, PruneOf
  <2>2. todo'[l] = todo[l] \ {h}
    BY <1>1 DEF IInv, TypeOK
  <2> QED BY <1>1, <1>5, <1>6, <2>1, <2>2 DEF IInv, TypeOK, PruneOf, FoundInv, FoundOf
<1>12. DeadOf(l)'
  <2> SUFFICES ASSUME NEW p \in dead[l], ~ \E y \in fresh[l] : PidOf[y] = p
               PROVE  Leftover(l, p)'
    BY <1>1 DEF DeadOf
  <2>1. Leftover(l, p)
    BY <1>1 DEF IInv, DeadInv, DeadOf
  <2>2. p \in there' => p \in todo'[l]
    BY <1>0, <1>1, <2>1 DEF IInv, TypeOK, Leftover
  <2> QED BY <1>5, <1>6, <2>1, <2>2 DEF Leftover
<1> QED BY <1>4, <1>7, <1>8, <1>9, <1>10, <1>11, <1>12 DEF IInv, PruneInv, FoundInv, DeadInv

\* A lister reads the documents of a sandbox that has answered.
LEMMA ReadFilesIInv ==
    ASSUME IInv, NEW l \in Lister, ReadFiles(l) PROVE IInv'
<1> USE DEF dirVars, history
<1>0. PICK h \in todo[l] : h = Here(l) /\ h \in Pid
  BY HereIn DEF ReadFiles, IInv, TypeOK
<1> DEFINE e == [name |-> h, cwd |-> files[h]["cwd"]]
<1>1. PICK s \in {"tell", "dial"} :
        /\ pc[l] = "read" /\ pc' = [pc EXCEPT ![l] = s]
        /\ todo' = [todo EXCEPT ![l] = @ \ {h}]
        /\ s = "tell" <=> todo'[l] = {}
        /\ found' = [found EXCEPT ![l] = @ \cup {e}]
        /\ UNCHANGED <<dirVars, told, dead, due, history>>
  BY <1>0 DEF ReadFiles, Forward, Goto
<1>2. e \in [name : Pid, cwd : Sandbox \cup {Nobody}]
  BY DEF IInv, TypeOK, Document
<1>3. TypeOK'
  <2>1. todo' \in [Lister -> SUBSET Pid] /\ pc' \in [Sandbox \cup Lister -> StarterPC \cup ListerPC]
    BY <1>1 DEF IInv, TypeOK, StarterPC, ListerPC
  <2>2. \A m \in Lister : pc'[m] \in {"dial", "unlink", "rmdir", "read"} <=> todo'[m] # {}
    BY <1>1 DEF IInv, TypeOK
  <2>3. found' \in [Lister -> SUBSET [name : Pid, cwd : Sandbox \cup {Nobody}]]
    <3> HIDE DEF e
    <3> QED BY <1>1, <1>2 DEF IInv, TypeOK
  <2> QED BY <1>1, <2>1, <2>2, <2>3 DEF IInv, TypeOK, ListerPC, IsEmpty
<1>4. (\A x \in Sandbox : pc'[x] = pc[x]) /\ (\A m \in Lister \ {l} : pc'[m] = pc[m]) /\ pc'[l] = s
  BY <1>1 DEF IInv, TypeOK
<1>5. \A x \in Sandbox : (Alive(x)' => Alive(x)) /\ (Listening(x)' => Listening(x))
  BY <1>4 DEF Alive, Listening
<1>6. OwnInv' /\ LiveKept' /\ EndsClean' /\ \A p \in Pid : IsEmpty(p) => IsEmpty(p)'
  BY <1>1, <1>4, DirsAlone
<1>7. \A m \in Lister \ {l} : PruneOf(m)' /\ FoundOf(m)' /\ DeadOf(m)'
  BY <1>1, <1>4, <1>6, OtherListers DEF IInv, TypeOK
<1>8. PruneOf(l)'
  BY <1>4 DEF PruneOf
<1>9. FoundOf(l)'
  <2>1. found'[l] = found[l] \cup {e} /\ todo'[l] = todo[l] \ {h}
    BY <1>1 DEF IInv, TypeOK
  <2>2. ASSUME NEW x \in due[l] \ exposed, Listening(x), PidOf[x] = h
        PROVE  [name |-> PidOf[x], cwd |-> x] \in found'[l]
    <3>1. x \in Sandbox /\ Kept(x) /\ pc[x] \in Late
      BY <2>2 DEF IInv, TypeOK, LiveKept, FoundInv, FoundOf
    <3>2. "cwd" \in Written(pc[x])
      BY <2>2, <3>1 DEF Listening, Late, WithCwd, Ended, Document, Written
    <3>3. files[h]["cwd"] = x
      BY <2>2, <3>1, <3>2 DEF Kept
    <3> QED BY <2>1, <2>2, <3>3
  <2> HIDE DEF e
  <2> QED BY <1>1, <1>4, <1>5, <2>1, <2>2 DEF IInv, TypeOK, FoundInv, FoundOf
<1>10. DeadOf(l)'
  <2> SUFFICES ASSUME NEW p \in dead[l], ~ \E y \in fresh[l] : PidOf[y] = p
               PROVE  Leftover(l, p)'
    BY <1>1 DEF DeadOf
  <2>1. Leftover(l, p)
    BY <1>1 DEF IInv, DeadInv, DeadOf
  <2>2. p \in there' => p \in todo'[l]
    BY <1>0, <1>1, <2>1 DEF IInv, TypeOK, Leftover
  <2> QED BY <1>4, <1>5, <2>1, <2>2 DEF Leftover
<1> QED BY <1>3, <1>6, <1>7, <1>8, <1>9, <1>10 DEF IInv, PruneInv, FoundInv, DeadInv


\* xb --allow updates a sandbox of the list, or has come to its end.
LEMMA TellIInv ==
    ASSUME IInv, NEW l \in Lister, Tell(l) PROVE IInv'
<1> USE DEF dirVars, history
<1>1. /\ UNCHANGED <<dirVars, todo, dead, due, history>> /\ pc[l] = "tell"
      /\ pc' = [pc EXCEPT ![l] = "done"] \/ pc' = pc
  BY DEF Tell, Goto
<1>2. found'[l] \subseteq found[l] /\ \A m \in Lister \ {l} : found'[m] = found[m]
  BY DEF Tell, IInv, TypeOK
<1>3. told \subseteq told'
  BY DEF Tell, Update
<1>4. TypeOK'
  <2>1. told' \subseteq Lister \X Sandbox
    BY DEF Tell, Update, IInv, TypeOK, Answers
  <2>2. found' \in [Lister -> SUBSET [name : Pid, cwd : Sandbox \cup {Nobody}]]
    <3>1. found \in [Lister -> SUBSET [name : Pid, cwd : Sandbox \cup {Nobody}]]
      BY DEF IInv, TypeOK
    <3> QED BY <3>1 DEF Tell
  <2>3. pc' \in [Sandbox \cup Lister -> StarterPC \cup ListerPC]
    BY <1>1 DEF IInv, TypeOK, StarterPC, ListerPC
  <2>4. \A m \in Lister : pc'[m] \in {"dial", "unlink", "rmdir", "read"} <=> todo'[m] # {}
    BY <1>1 DEF IInv, TypeOK
  <2>5. (\A x \in Sandbox : pc'[x] \in StarterPC) /\ \A m \in Lister : pc'[m] \in ListerPC
    <3>1. \A x \in Sandbox : pc'[x] = pc[x]
      BY <1>1 DEF IInv, TypeOK
    <3>2. \A m \in Lister : pc'[m] \in {pc[m], "done"}
      BY <1>1 DEF IInv, TypeOK
    <3> QED BY <3>1, <3>2 DEF IInv, TypeOK, ListerPC
  <2> QED BY <1>1, <2>1, <2>2, <2>3, <2>4, <2>5 DEF IInv, TypeOK, IsEmpty
<1>5. (\A x \in Sandbox : pc'[x] = pc[x]) /\ (\A m \in Lister \ {l} : pc'[m] = pc[m])
      /\ pc'[l] \in {"tell", "done"}
  BY <1>1 DEF IInv, TypeOK
<1>6. \A x \in Sandbox : (Alive(x)' => Alive(x)) /\ (Listening(x)' => Listening(x))
  BY <1>5 DEF Alive, Listening
<1>7. OwnInv' /\ LiveKept' /\ EndsClean' /\ \A p \in Pid : IsEmpty(p) => IsEmpty(p)'
  BY <1>1, <1>5, DirsAlone
<1>8. \A m \in Lister \ {l} : PruneOf(m)' /\ FoundOf(m)' /\ DeadOf(m)'
  <2> SUFFICES ASSUME NEW m \in Lister \ {l} PROVE PruneOf(m)' /\ FoundOf(m)' /\ DeadOf(m)'
    OBVIOUS
  <2> QED BY <1>1, <1>2, <1>3, <1>5, <1>7, OtherListers
<1>9. PruneOf(l)' /\ FoundOf(l)'
  <2>1. ASSUME NEW x \in due[l] \ exposed, Listening(x),
               [name |-> PidOf[x], cwd |-> x] \in found[l]
        PROVE  [name |-> PidOf[x], cwd |-> x] \in found'[l] \/ <<l, x>> \in told'
    <3> DEFINE e == [name |-> PidOf[x], cwd |-> x]
    <3>1. /\ x \in Sandbox /\ x # Nobody /\ CwdOf[x] = CwdOf[l]
          /\ sock[PidOf[x]] = x
      BY <2>1 DEF IInv, TypeOK, LiveKept, Kept, FoundInv, FoundOf
    <3>2. e.name = PidOf[x] /\ e.cwd = x
      OBVIOUS
    <3> HIDE DEF e
    <3>3. CASE First(l) = e
      <4>1. IsHere(l, e) /\ x \in Answers(e.name)
        BY <2>1, <3>1, <3>2 DEF IsHere, Answers
      <4>2. found[l] # {}
        BY <2>1
      <4>3. told' = told \cup {<<l, y>> : y \in Answers(e.name)}
        BY <3>3, <4>1, <4>2 DEF Tell, Update
      <4> QED BY <4>1, <4>3
    <3>4. CASE First(l) # e
      <4>1. e \in found[l]
        BY <2>1 DEF e
      <4>2. e \in found'[l]
        BY <3>4, <4>1 DEF Tell, IInv, TypeOK
      <4> QED BY <4>2 DEF e
    <3> QED BY <3>3, <3>4
  <2>2. pc'[l] = "done" => found'[l] = {}
    BY <1>1 DEF Tell, IInv, TypeOK
  <2>3. FoundOf(l)'
    BY <1>1, <1>3, <1>5, <1>6, <2>1, <2>2 DEF IInv, TypeOK, FoundInv, FoundOf
  <2> QED BY <1>5, <2>3 DEF PruneOf
<1>10. DeadOf(l)'
  <2> SUFFICES ASSUME NEW p \in dead[l], ~ \E y \in fresh[l] : PidOf[y] = p
               PROVE  Leftover(l, p)'
    BY <1>1 DEF DeadOf
  <2>1. Leftover(l, p)
    BY <1>1 DEF IInv, DeadInv, DeadOf
  <2> QED BY <1>1, <1>5, <1>6, <2>1 DEF Leftover
<1> QED BY <1>4, <1>7, <1>8, <1>9, <1>10 DEF IInv, PruneInv, FoundInv, DeadInv

\* The invariant holds in every state, for any processes and any ids.
THEOREM AlwaysIInv == Spec => []IInv
<1>1. ASSUME IInv, UNCHANGED vars PROVE IInv'
  <2> USE <1>1 DEF vars, dirVars, listVars, history
  <2>1. TypeOK' /\ LiveKept' /\ EndsClean'
    BY DEF IInv, TypeOK, LiveKept, Kept, Listening, EndsClean, Alive, IsEmpty
  <2>2. OwnInv' /\ PruneInv' /\ FoundInv'
    BY DEF IInv, OwnInv, LastInv, NameInv, PruneInv, PruneOf, FoundInv, FoundOf, Alive,
           Listening, Here
  <2>3. DeadInv'
    BY DEF IInv, DeadInv, DeadOf, Leftover, Alive, IsEmpty, Here
  <2> QED BY <2>1, <2>2, <2>3 DEF IInv
<1>2. IInv /\ [Next]_vars => IInv'
  BY <1>1, BeginIInv, SandboxIInv, ReadDirIInv, DialIInv, UnlinkIInv, RmdirIInv, ReadFilesIInv,
     TellIInv DEF Next, ListStep
<1> QED BY InitIInv, <1>2, PTL DEF Spec

\* Every variable keeps its type, and only a directory that exists holds files.
THEOREM TypeCorrect == Spec => []TypeOK
<1>1. IInv => TypeOK
  BY DEF IInv
<1> QED BY AlwaysIInv, <1>1, PTL

\* However many listers prune, a sandbox that listens keeps its directory, socket and
\* documents unless a lister took it for dead in the 100 ms of its dial or just before
\* it listened.
THEOREM LiveStaysRegistered == Spec => []LiveKept
<1>1. IInv => LiveKept
  BY DEF IInv
<1> QED BY AlwaysIInv, <1>1, PTL

\* xb --allow has updated every sandbox that ran in its directory from before it looked
\* until it is done, but for those whose directory a lister has taken from them.
THEOREM OwnDirIsTold == Spec => []OwnDirTold
<1>1. ASSUME IInv, NEW l \in Lister, pc[l] = "done", NEW x \in due[l] \ exposed, Listening(x)
      PROVE  <<l, x>> \in told
  <2>1. todo[l] = {} /\ found[l] = {}
    BY <1>1 DEF IInv, TypeOK, FoundInv, FoundOf
  <2> QED BY <1>1, <2>1 DEF IInv, FoundInv, FoundOf
<1>2. IInv => OwnDirTold
  BY <1>1 DEF OwnDirTold
<1> QED BY AlwaysIInv, <1>2, PTL

\* A sandbox that ends by itself leaves no directory.
THEOREM EndLeavesNothing == Spec => []EndsClean
<1>1. IInv => EndsClean
  BY DEF IInv
<1> QED BY AlwaysIInv, <1>1, PTL

\* One xb --list removes every leftover there was when it read the directory.
THEOREM PruningIsComplete == Spec => []PruneComplete
<1>1. ASSUME IInv, NEW l \in Lister, pc[l] = "done", NEW p \in dead[l], p \in there
      PROVE  \E x \in fresh[l] : PidOf[x] = p
  <2>1. todo[l] = {}
    BY <1>1 DEF IInv, TypeOK
  <2> QED BY <1>1, <2>1 DEF IInv, DeadInv, DeadOf, Leftover
<1>2. IInv => PruneComplete
  BY <1>1 DEF PruneComplete
<1> QED BY AlwaysIInv, <1>2, PTL

===============================================================================
