------------------------------ MODULE RulesLock -------------------------------
(***************************************************************************)
(* The rule engine of pkg/guardian/rules.go as its goroutines execute it:  *)
(* a sync.RWMutex, two slices, a scan that reads one rule per step, a copy *)
(* of each list, an append per configured string.                          *)
(*                                                                         *)
(* The mutex (external, package sync) is modelled from its contract: a     *)
(* writer that has announced itself keeps new readers out, waits for those *)
(* that are in, and admits the waiting ones when it unlocks.               *)
(***************************************************************************)
EXTENDS RuleCalls

CONSTANTS
    NoProc,    \* the value of writer when nobody holds the write lock
    MaxRules   \* bound: no addition starts once a list has that many rules

ASSUME LockAssumption == NoProc \notin Proc /\ MaxRules \in Nat

VARIABLES
    pc,                   \* where each goroutine is inside its call
    request,              \* the call it is making, or NoCall
    pos,                  \* the index of its scan, the next rule it reads
    result,               \* the reason Check returns, "ok" for the others
    copy,                 \* what List has copied so far
    todo,                 \* the strings the writer has still to add
    allowList, denyList,  \* Rules.allowList and Rules.denyList
    readers, writer       \* the holders of Rules.mu

lockVars == <<readers, writer>>
listVars == <<allowList, denyList>>
vars     == <<pc, request, pos, result, copy, todo, allowList, denyList,
              readers, writer>>

NoTodo == [allow |-> <<>>, deny |-> <<>>]

\* NewRules: it adds the strings of a configuration one by one, and no other
\* goroutine can see the Rules before it returns; so it is the state after the
\* reset of a Replace by the goroutine that will be the watcher.
Init ==
    /\ \E c \in Config :
         todo = [allow |-> c.allow, deny |-> c.deny]
    /\ allowList = <<>> /\ denyList = <<>>
    /\ pc = [p \in Proc |-> IF p = Watcher THEN "new" ELSE "idle"]
    /\ request = [p \in Proc |-> NoCall]
    /\ pos = [p \in Proc |-> 1]
    /\ result = [p \in Proc |-> NoReply]
    /\ copy = [p \in Proc |-> NoTodo]
    /\ readers = {} /\ writer = Watcher

\* A goroutine enters Check, List, AddAllow, AddDeny or Replace.
Enter(p) ==
    /\ pc[p] = "idle"
    /\ \E c \in CallsOf(p) :
         /\ c.op = "add" => Len(allowList) < MaxRules /\ Len(denyList) < MaxRules
         /\ request' = [request EXCEPT ![p] = c]
         /\ pc' = [pc EXCEPT ![p] = IF c.op \in {"check", "list"}
                                    THEN "rlock" ELSE "lock"]
    /\ UNCHANGED <<pos, result, copy, todo, listVars, lockVars>>

\* mu.RLock(): admitted at once unless a writer has announced itself.
ReadEntry(p) == IF request[p].op = "check" THEN "scan" ELSE "copyAllow"

RLock(p) ==
    /\ pc[p] = "rlock"
    /\ IF writer = NoProc
       THEN /\ readers' = readers \cup {p}
            /\ pc' = [pc EXCEPT ![p] = ReadEntry(p)]
       ELSE /\ pc' = [pc EXCEPT ![p] = "rwait"]
            /\ UNCHANGED readers
    /\ UNCHANGED <<request, pos, result, copy, todo, listVars, writer>>

\* Check decides (any of its four returns): the deferred RUnlock comes next.
Answer(p, reason) ==
    /\ result' = [result EXCEPT ![p] = reason]
    /\ pos' = [pos EXCEPT ![p] = 1]
    /\ pc' = [pc EXCEPT ![p] = "runlock"]

\* The test of the trimmed host, before any list is read.
CheckHost(p) ==
    /\ pc[p] = "scan"
    /\ IF request[p].dest \in NoHost
       THEN Answer(p, "empty-host")
       ELSE /\ pc' = [pc EXCEPT ![p] = "scanDeny"]
            /\ UNCHANGED <<pos, result>>
    /\ UNCHANGED <<request, copy, todo, listVars, lockVars>>

\* Mutant of ScanDeny: the loop stops one rule too early.
ScanDeny_OffByOne(p) ==
    /\ pc[p] = "scanDeny"
    /\ IF pos[p] >= Len(denyList)
       THEN /\ pos' = [pos EXCEPT ![p] = 1]
            /\ pc' = [pc EXCEPT ![p] = "scanAllow"]
            /\ UNCHANGED result
       ELSE IF Matches(denyList[pos[p]], request[p].dest)
            THEN Answer(p, "blocklist")
            ELSE /\ pos' = [pos EXCEPT ![p] = @ + 1]
                 /\ UNCHANGED <<pc, result>>
    /\ UNCHANGED <<request, copy, todo, listVars, lockVars>>

\* One iteration of "for _, rule := range r.denyList".
ScanDeny(p) ==
    /\ pc[p] = "scanDeny"
    /\ IF pos[p] > Len(denyList)
       THEN /\ pos' = [pos EXCEPT ![p] = 1]
            /\ pc' = [pc EXCEPT ![p] = "scanAllow"]
            /\ UNCHANGED result
       ELSE IF Matches(denyList[pos[p]], request[p].dest)
            THEN Answer(p, "blocklist")
            ELSE /\ pos' = [pos EXCEPT ![p] = @ + 1]
                 /\ UNCHANGED <<pc, result>>
    /\ UNCHANGED <<request, copy, todo, listVars, lockVars>>

\* One iteration of "for _, rule := range r.allowList", and the last return.
ScanAllow(p) ==
    /\ pc[p] = "scanAllow"
    /\ IF pos[p] > Len(allowList)
       THEN Answer(p, "not-in-allowlist")
       ELSE IF Matches(allowList[pos[p]], request[p].dest)
            THEN Answer(p, "whitelist")
            ELSE /\ pos' = [pos EXCEPT ![p] = @ + 1]
                 /\ UNCHANGED <<pc, result>>
    /\ UNCHANGED <<request, copy, todo, listVars, lockVars>>

\* List copies the two slices one after the other.
CopyAllow(p) ==
    /\ pc[p] = "copyAllow"
    /\ copy' = [copy EXCEPT ![p].allow = allowList]
    /\ pc' = [pc EXCEPT ![p] = "copyDeny"]
    /\ UNCHANGED <<request, pos, result, todo, listVars, lockVars>>

CopyDeny(p) ==
    /\ pc[p] = "copyDeny"
    /\ copy' = [copy EXCEPT ![p].deny = denyList]
    /\ result' = [result EXCEPT ![p] = "ok"]
    /\ pc' = [pc EXCEPT ![p] = "runlock"]
    /\ UNCHANGED <<request, pos, todo, listVars, lockVars>>

RUnlock(p) ==
    /\ pc[p] = "runlock"
    /\ readers' = readers \ {p}
    /\ pc' = [pc EXCEPT ![p] = "return"]
    /\ UNCHANGED <<request, pos, result, copy, todo, listVars, writer>>

\* mu.Lock(): one writer at a time announces itself, keeping new readers out,
\* then (Acquire) waits for the readers that are in.
Announce(p) ==
    /\ pc[p] = "lock"
    /\ writer = NoProc
    /\ writer' = p
    /\ pc' = [pc EXCEPT ![p] = "drain"]
    /\ UNCHANGED <<request, pos, result, copy, todo, listVars, readers>>

\* Mutant of Acquire: the writer does not wait for the readers.
Acquire_WithoutDraining(p) ==
    /\ pc[p] = "drain"
    /\ IF request[p].op = "add"
       THEN /\ todo' = [allow |-> request[p].allow, deny |-> request[p].deny]
            /\ pc' = [pc EXCEPT ![p] = "apply"]
       ELSE /\ pc' = [pc EXCEPT ![p] = "reset"]
            /\ UNCHANGED todo
    /\ UNCHANGED <<request, pos, result, copy, listVars, lockVars>>

Acquire(p) ==
    /\ pc[p] = "drain"
    /\ readers = {}
    /\ IF request[p].op = "add"
       THEN /\ todo' = [allow |-> request[p].allow, deny |-> request[p].deny]
            /\ pc' = [pc EXCEPT ![p] = "apply"]
       ELSE /\ pc' = [pc EXCEPT ![p] = "reset"]
            /\ UNCHANGED todo
    /\ UNCHANGED <<request, pos, result, copy, listVars, lockVars>>

\* Mutant of Reset: the deny list is not emptied.
Reset_KeepsDeny(p) ==
    /\ pc[p] = "reset"
    /\ allowList' = <<>>
    /\ todo' = [allow |-> request[p].allow, deny |-> request[p].deny]
    /\ pc' = [pc EXCEPT ![p] = "apply"]
    /\ UNCHANGED <<request, pos, result, copy, denyList, lockVars>>

\* Replace: both lists become nil before the first string is added.
Reset(p) ==
    /\ pc[p] = "reset"
    /\ allowList' = <<>> /\ denyList' = <<>>
    /\ todo' = [allow |-> request[p].allow, deny |-> request[p].deny]
    /\ pc' = [pc EXCEPT ![p] = "apply"]
    /\ UNCHANGED <<request, pos, result, copy, lockVars>>

\* One call of addRule; the allow strings come before the deny strings.
ApplyAllow(p) ==
    /\ pc[p] \in {"apply", "new"}
    /\ todo.allow # <<>>
    /\ allowList' = AddRule(allowList, Head(todo.allow))
    /\ todo' = [todo EXCEPT !.allow = Tail(@)]
    /\ UNCHANGED <<pc, request, pos, result, copy, denyList, lockVars>>

ApplyDeny(p) ==
    /\ pc[p] \in {"apply", "new"}
    /\ todo.allow = <<>> /\ todo.deny # <<>>
    /\ denyList' = AddRule(denyList, Head(todo.deny))
    /\ todo' = [todo EXCEPT !.deny = Tail(@)]
    /\ UNCHANGED <<pc, request, pos, result, copy, allowList, lockVars>>

\* mu.Unlock() (or the return of NewRules): the waiting readers are admitted.
Waiting == {q \in Proc : pc[q] = "rwait"}

\* Mutant of Unlock: the readers that wait are not woken.
Unlock_ForgetsWaiting(p) ==
    /\ pc[p] \in {"apply", "new"}
    /\ todo = NoTodo
    /\ writer' = NoProc
    /\ pc' = [pc EXCEPT ![p] = IF @ = "new" THEN "idle" ELSE "return"]
    /\ result' = [result EXCEPT ![p] = IF pc[p] = "new" THEN @ ELSE "ok"]
    /\ UNCHANGED <<request, pos, copy, todo, listVars, readers>>

Unlock(p) ==
    /\ pc[p] \in {"apply", "new"}
    /\ todo = NoTodo
    /\ writer' = NoProc
    /\ readers' = readers \cup Waiting
    /\ pc' = [q \in Proc |->
                IF q = p THEN IF pc[p] = "new" THEN "idle" ELSE "return"
                ELSE IF q \in Waiting THEN ReadEntry(q)
                ELSE pc[q]]
    /\ result' = [result EXCEPT ![p] = IF pc[p] = "new" THEN @ ELSE "ok"]
    /\ UNCHANGED <<request, pos, copy, todo, listVars>>

Leave(p) ==
    /\ pc[p] = "return"
    /\ pc' = [pc EXCEPT ![p] = "idle"]
    /\ request' = [request EXCEPT ![p] = NoCall]
    /\ result' = [result EXCEPT ![p] = NoReply]
    /\ copy' = [copy EXCEPT ![p] = NoTodo]
    /\ UNCHANGED <<pos, todo, listVars, lockVars>>

Next == \E p \in Proc :
    \/ Enter(p) \/ Leave(p)
    \/ RLock(p) \/ CheckHost(p) \/ ScanDeny(p) \/ ScanAllow(p)
    \/ CopyAllow(p) \/ CopyDeny(p) \/ RUnlock(p)
    \/ Announce(p) \/ Acquire(p) \/ Reset(p) \/ ApplyAllow(p) \/ ApplyDeny(p)
    \/ Unlock(p)

Spec == Init /\ [][Next]_vars

\* A goroutine inside a call is scheduled again and again.  Only Announce can
\* be disabled and enabled for ever by the others; the mutex that orders the
\* writers of an RWMutex hands itself over to the writer that waits longest.
StepInside(p) ==
    \/ RLock(p) \/ CheckHost(p) \/ ScanDeny(p) \/ ScanAllow(p)
    \/ CopyAllow(p) \/ CopyDeny(p) \/ RUnlock(p)
    \/ Acquire(p) \/ Reset(p) \/ ApplyAllow(p) \/ ApplyDeny(p)
    \/ Unlock(p) \/ Leave(p)

FairSpec ==
    /\ Spec
    /\ \A p \in Proc : WF_vars(StepInside(p)) /\ SF_vars(Announce(p))

-------------------------------------------------------------------------------
ReadPCs == {"scan", "scanDeny", "scanAllow", "copyAllow", "copyDeny", "runlock"}
WritePCs == {"new", "reset", "apply"}
PCs == ReadPCs \cup WritePCs
       \cup {"idle", "rlock", "rwait", "lock", "drain", "return"}

Calls == UNION {CallsOf(p) : p \in Proc}
Strings == [allow : Seq(Value), deny : Seq(Value)]

\* Every variable has its type; the slices only ever hold parsed rules.
TypeOK ==
    /\ pc \in [Proc -> PCs]
    /\ \A p \in Proc : request[p] \in CallsOf(p) \cup {NoCall}
    /\ DOMAIN request = Proc
    /\ pos \in [Proc -> Nat \ {0}]
    /\ result \in [Proc -> Reasons \cup {"ok", NoReply}]
    /\ copy \in [Proc -> [allow : Seq(Rule), deny : Seq(Rule)]]
    /\ todo \in Strings
    /\ allowList \in Seq(Rule)
    /\ denyList \in Seq(Rule)
    /\ readers \subseteq Proc
    /\ writer \in Proc \cup {NoProc}

\* Readers and the writer exclude each other: while a goroutine changes the
\* slices, no other one reads or changes them, and while one scans or copies
\* them, none changes them.
Exclusion ==
    \A p \in Proc : pc[p] \in WritePCs =>
        \A q \in Proc \ {p} : pc[q] \notin ReadPCs \cup WritePCs

\* The inductive invariant of the proofs.  Who holds the lock is told by the pc;
\* the call a goroutine makes, its result and the strings left to add fit the pc;
\* a scan has seen no match so far, a copy of the allow list is still current.
LockInv ==
    /\ \A p \in Proc : p \in readers <=> pc[p] \in ReadPCs
    /\ \A p \in Proc : writer = p <=> pc[p] \in WritePCs \cup {"drain"}
    /\ \A p \in Proc : pc[p] \in WritePCs => readers = {}

CallInv == \A p \in Proc :
    /\ request[p] = NoCall <=> pc[p] \in {"idle", "new"}
    /\ pc[p] \in {"scan", "scanDeny", "scanAllow"} => request[p].op = "check"
    /\ pc[p] \in {"copyAllow", "copyDeny"} => request[p].op = "list"
    /\ pc[p] \in {"rlock", "rwait"} => request[p].op \in {"check", "list"}
    /\ pc[p] \in {"lock", "drain", "apply"} => request[p].op \in {"add", "replace"}
    /\ pc[p] = "reset" => request[p].op = "replace"
    /\ result[p] = NoReply <=> pc[p] \notin {"runlock", "return"}

TodoInv ==
    (\A p \in Proc : pc[p] \notin {"apply", "new"}) => todo = NoTodo

Unmatched(list, n, d) ==
    /\ n <= Len(list)
    /\ \A i \in 1..n : ~Matches(list[i], d)

ScanInv == \A p \in Proc :
    /\ pc[p] \in {"scanDeny", "scanAllow"} => request[p].dest \notin NoHost
    /\ pc[p] = "scanDeny" => Unmatched(denyList, pos[p] - 1, request[p].dest)
    /\ pc[p] = "scanAllow" =>
        /\ Unmatched(denyList, Len(denyList), request[p].dest)
        /\ Unmatched(allowList, pos[p] - 1, request[p].dest)
    /\ pc[p] \notin {"scanDeny", "scanAllow"} => pos[p] = 1
    /\ pc[p] = "copyDeny" => copy[p].allow = allowList

\* All of it: the lock, the calls, the strings to add and the scans agree.
IInv == TypeOK /\ LockInv /\ CallInv /\ TodoInv /\ ScanInv

\* The atomic store this engine implements: a string still to be added by the
\* writer already counts, because nobody can look at the lists before it is.
AbsReply(p) ==
    IF pc[p] = "apply" THEN "ok"
    ELSE IF result[p] # NoReply /\ request[p].op = "list"
    THEN [allow |-> RulesIn(copy[p].allow), deny |-> RulesIn(copy[p].deny)]
    ELSE result[p]

StoreAllow == RulesIn(allowList) \cup RulesOf(todo.allow)
StoreDeny  == RulesIn(denyList) \cup RulesOf(todo.deny)
StoreReply == [p \in Proc |-> AbsReply(p)]

Store == INSTANCE RuleStore WITH
    allow <- StoreAllow, deny <- StoreDeny, call <- request, reply <- StoreReply

\* Every Check, List, AddAllow, AddDeny and Replace takes effect at one instant
\* between its call and its return, whatever the other goroutines do: no verdict
\* mixes the lists of before and after a reload, no addition is lost.
ImplementsStore == Store!Spec

\* Every call returns: the read lock is never refused for ever to a connection
\* by a stream of reloads, nor the write lock to a reload by connections.
EveryCallReturns == \A p \in Proc : pc[p] # "idle" ~> pc[p] = "idle"
===============================================================================
