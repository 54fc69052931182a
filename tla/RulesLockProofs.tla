--------------------------- MODULE RulesLockProofs ----------------------------
(***************************************************************************)
(* Proofs about RulesLock: its inductive invariant, the exclusion of       *)
(* readers and writer, and that it implements the atomic RuleStore.        *)
(***************************************************************************)
EXTENDS RulesLock, TLAPS

(***************************************************************************)
(* Lemmas about the operators of the model.                                *)
(***************************************************************************)

\* What a goroutine may ask for has one of three shapes.
LEMMA CallShape ==
    ASSUME NEW p \in Proc, NEW c \in CallsOf(p)
    PROVE  /\ c.op \in {"check", "list", "add", "replace"}
           /\ c.op = "check" => c.dest \in Dest
           /\ c.op \in {"add", "replace"} =>
                /\ c.allow \in Seq(Value)
                /\ c.deny \in Seq(Value)
           /\ c # NoCall
<1>1. CASE p \in Conn
  BY <1>1, NothingAssumption DEF CallsOf, CheckCall
<1>2. CASE p \in Ctl /\ p \notin Conn
  <2>1. CASE c = ListCall
    BY <2>1, <1>2, NothingAssumption DEF ListCall
  <2>2. CASE \E v \in Value : c = AddAllowCall(v)
    BY <2>2, <1>2, NothingAssumption DEF AddAllowCall
  <2>3. CASE \E v \in Value : c = AddDenyCall(v)
    BY <2>3, <1>2, NothingAssumption DEF AddDenyCall
  <2> QED BY <1>2, <2>1, <2>2, <2>3 DEF CallsOf
<1>3. CASE p \notin Conn \cup Ctl
  BY <1>3, NothingAssumption, StoreAssumption DEF CallsOf, ReplaceCall
<1> QED BY <1>1, <1>2, <1>3

\* An addition keeps a list a list of parsed rules.
LEMMA AddRuleType ==
    ASSUME NEW list \in Seq(Rule), NEW v \in Value
    PROVE  AddRule(list, v) \in Seq(Rule)
BY DecisionAssumption DEF AddRule

\* Nothing is left of an empty list.
LEMMA EmptyRules == RulesIn(<<>>) = {} /\ RulesOf(<<>>) = {}
BY DEF RulesIn, RulesOf

\* Moving one string from those left to add into the list changes nothing in
\* what the two hold together.
LEMMA AddRuleMoves ==
    ASSUME NEW list \in Seq(Rule), NEW vs \in Seq(Value), vs # <<>>
    PROVE  RulesIn(AddRule(list, Head(vs))) \cup RulesOf(Tail(vs))
             = RulesIn(list) \cup RulesOf(vs)
<1> DEFINE v == Head(vs)
<1>1. v \in Value /\ Tail(vs) \in Seq(Value) /\ v = vs[1] /\ 1 \in DOMAIN vs
  OBVIOUS
<1>2. RulesOf(vs) = RulesOf(Tail(vs)) \cup ({Parse[v]} \ {NoRule})
  <2>1. \A i \in DOMAIN vs : i = 1 \/ (i - 1 \in DOMAIN Tail(vs)
                                        /\ Tail(vs)[i - 1] = vs[i])
    OBVIOUS
  <2>2. \A i \in DOMAIN Tail(vs) : i + 1 \in DOMAIN vs /\ Tail(vs)[i] = vs[i + 1]
    OBVIOUS
  <2>3. ASSUME NEW r \in RulesOf(vs), r # Parse[v]
        PROVE  r \in RulesOf(Tail(vs))
    <3>1. PICK i \in DOMAIN vs : r = Parse[vs[i]]
      BY DEF RulesOf
    <3>2. i - 1 \in DOMAIN Tail(vs) /\ Tail(vs)[i - 1] = vs[i]
      BY <1>1, <2>1, <2>3, <3>1
    <3> QED BY <3>1, <3>2 DEF RulesOf
  <2>4. ASSUME NEW r \in RulesOf(Tail(vs))
        PROVE  r \in RulesOf(vs)
    <3>1. PICK i \in DOMAIN Tail(vs) : r = Parse[Tail(vs)[i]]
      BY DEF RulesOf
    <3> QED BY <2>2, <3>1 DEF RulesOf
  <2>5. {Parse[v]} \ {NoRule} \subseteq RulesOf(vs)
    BY <1>1 DEF RulesOf
  <2>6. NoRule \notin RulesOf(vs)
    BY DEF RulesOf
  <2> QED BY <2>3, <2>4, <2>5, <2>6
<1>3. RulesIn(AddRule(list, v)) = RulesIn(list) \cup ({Parse[v]} \ {NoRule})
  <2>1. CASE Parse[v] = NoRule
    BY <2>1 DEF AddRule
  <2>2. CASE Parse[v] # NoRule
    <3>1. Parse[v] \in Rule
      BY <1>1, <2>2, DecisionAssumption
    <3>2. AddRule(list, v) = Append(list, Parse[v])
      BY <2>2 DEF AddRule
    <3>3. DOMAIN Append(list, Parse[v]) = DOMAIN list \cup {Len(list) + 1}
      BY <3>1
    <3>4. /\ \A i \in DOMAIN list : Append(list, Parse[v])[i] = list[i]
          /\ Append(list, Parse[v])[Len(list) + 1] = Parse[v]
      BY <3>1
    <3> QED BY <2>2, <3>2, <3>3, <3>4 DEF RulesIn
  <2> QED BY <2>1, <2>2
<1> QED BY <1>2, <1>3

\* A scan that saw no match up to the end tells that no rule of the list matches.
LEMMA UnmatchedAll ==
    ASSUME NEW list \in Seq(Rule), NEW d, Unmatched(list, Len(list), d)
    PROVE  ~ \E r \in RulesIn(list) : Matches(r, d)
BY DEF Unmatched, RulesIn

(***************************************************************************)
(* The invariant.                                                          *)
(***************************************************************************)
USE LockAssumption

\* NewRules holds the lock alone, nobody else is in a call.
THEOREM InitIInv == Init => IInv
<1> SUFFICES ASSUME Init PROVE IInv
  OBVIOUS
<1>1. PICK c \in Config : todo = [allow |-> c.allow, deny |-> c.deny]
  BY DEF Init
<1>2. c \in [allow : Seq(Value), deny : Seq(Value)]
  BY StoreAssumption
<1>3. Watcher \in Proc
  BY DEF Proc
<1>4. TypeOK
  BY <1>1, <1>2, <1>3 DEF Init, TypeOK, PCs, ReadPCs, WritePCs, Strings, NoTodo
<1>5. LockInv
  BY DEF Init, LockInv, ReadPCs, WritePCs
<1>6. CallInv
  BY DEF Init, CallInv
<1>7. TodoInv
  BY <1>3 DEF Init, TodoInv
<1>8. ScanInv
  BY DEF Init, ScanInv
<1> QED BY <1>4, <1>5, <1>6, <1>7, <1>8 DEF IInv

\* Every step of every goroutine keeps the invariant.
THEOREM NextIInv == IInv /\ [Next]_vars => IInv'
<1> SUFFICES ASSUME IInv, [Next]_vars PROVE IInv'
  OBVIOUS
<1> USE DEF IInv
<1> DEFINE Shape(c) ==
      /\ c.op \in {"check", "list", "add", "replace"}
      /\ c.op \in {"add", "replace"} => c.allow \in Seq(Value) /\ c.deny \in Seq(Value)
<1>0. ASSUME NEW p \in Proc, request[p] # NoCall
      PROVE  Shape(request[p]) 
  BY <1>0, CallShape DEF TypeOK
<1>1. ASSUME NEW p \in Proc, Enter(p) PROVE IInv'
  <2>1. TypeOK'
    BY <1>1 DEF TypeOK, PCs, ReadPCs, WritePCs, Enter, listVars, lockVars
  <2>2. LockInv'
    BY <1>1 DEF TypeOK, LockInv, ReadPCs, WritePCs, Enter, listVars, lockVars
  <2>3. CallInv'
    BY <1>1, <1>0, CallShape, NothingAssumption DEF TypeOK, CallInv, Reasons, Enter, listVars, lockVars
  <2>4. TodoInv'
    BY <1>1 DEF TypeOK, LockInv, TodoInv, WritePCs, Enter, listVars, lockVars
  <2>5. ScanInv'
    BY <1>1 DEF TypeOK, LockInv, ScanInv, ReadPCs, WritePCs, Unmatched, Enter, listVars, lockVars
  <2> QED BY <2>1, <2>2, <2>3, <2>4, <2>5
<1>2. ASSUME NEW p \in Proc, Leave(p) PROVE IInv'
  <2>1. TypeOK'
    BY <1>2 DEF TypeOK, PCs, ReadPCs, WritePCs, NoTodo, Leave, listVars, lockVars
  <2>2. LockInv'
    BY <1>2 DEF TypeOK, LockInv, ReadPCs, WritePCs, Leave, listVars, lockVars
  <2>3. CallInv'
    BY <1>2, <1>0, CallShape, NothingAssumption DEF TypeOK, CallInv, Reasons, Leave, listVars, lockVars
  <2>4. TodoInv'
    BY <1>2 DEF TypeOK, LockInv, TodoInv, WritePCs, Leave, listVars, lockVars
  <2>5. ScanInv'
    BY <1>2 DEF TypeOK, LockInv, ScanInv, ReadPCs, WritePCs, Unmatched, Leave, listVars, lockVars
  <2> QED BY <2>1, <2>2, <2>3, <2>4, <2>5
<1>3. ASSUME NEW p \in Proc, RLock(p) PROVE IInv'
  <2>1. TypeOK'
    BY <1>3 DEF TypeOK, PCs, ReadPCs, WritePCs, RLock, ReadEntry, listVars, lockVars
  <2>2. LockInv'
    <3>1. CASE writer = NoProc
      <4>1. PICK x \in {"scan", "copyAllow"} : pc' = [pc EXCEPT ![p] = x]
        BY <1>3, <3>1 DEF RLock, ReadEntry
      <4>2. readers' = readers \cup {p} /\ UNCHANGED writer
        BY <1>3, <3>1 DEF RLock
      <4> QED BY <3>1, <4>1, <4>2 DEF TypeOK, LockInv, ReadPCs, WritePCs
    <3>2. CASE writer # NoProc
      <4>1. /\ pc[p] = "rlock" /\ pc' = [pc EXCEPT ![p] = "rwait"]
            /\ UNCHANGED <<readers, writer>>
        BY <1>3, <3>2 DEF RLock
      <4> QED BY <4>1 DEF TypeOK, LockInv, ReadPCs, WritePCs
    <3> QED BY <3>1, <3>2
  <2>3. CallInv'
    BY <1>3, <1>0, CallShape, NothingAssumption DEF TypeOK, CallInv, Reasons, RLock, ReadEntry, listVars, lockVars
  <2>4. TodoInv'
    BY <1>3 DEF TypeOK, LockInv, TodoInv, WritePCs, RLock, ReadEntry, listVars, lockVars
  <2>5. ScanInv'
    BY <1>3 DEF TypeOK, LockInv, ScanInv, ReadPCs, WritePCs, Unmatched, RLock, ReadEntry, listVars, lockVars
  <2> QED BY <2>1, <2>2, <2>3, <2>4, <2>5
<1>4. ASSUME NEW p \in Proc, CheckHost(p) PROVE IInv'
  <2>0. /\ pc[p] \in {"scan"}
        /\ \E x \in {"scanDeny", "runlock"} : pc' = [pc EXCEPT ![p] = x]
        /\ \E x \in Nat \ {0} : pos' = [pos EXCEPT ![p] = x]
        /\ \E x \in Reasons \cup {NoReply, "ok"} : result' = [result EXCEPT ![p] = x]
        /\ UNCHANGED <<request, copy, todo, allowList, denyList, readers, writer>>
    BY <1>4 DEF TypeOK, Reasons, CheckHost, Answer, listVars, lockVars
  <2>1. TypeOK'
    BY <2>0 DEF TypeOK, PCs, ReadPCs
  <2>2. LockInv'
    BY <2>0 DEF TypeOK, LockInv, ReadPCs, WritePCs
  <2>3. CallInv'
    BY <1>4, <1>0, CallShape, NothingAssumption DEF TypeOK, CallInv, Reasons, CheckHost, Answer, listVars, lockVars
  <2>4. TodoInv'
    BY <1>4 DEF TypeOK, LockInv, TodoInv, WritePCs, CheckHost, Answer, listVars, lockVars
  <2>5. ScanInv'
    BY <1>4 DEF TypeOK, LockInv, ScanInv, ReadPCs, WritePCs, Unmatched, CheckHost, Answer, listVars, lockVars
  <2> QED BY <2>1, <2>2, <2>3, <2>4, <2>5
<1>5. ASSUME NEW p \in Proc, ScanDeny(p) PROVE IInv'
  <2>0. /\ pc[p] \in {"scanDeny"}
        /\ \E x \in {"scanDeny", "scanAllow", "runlock"} : pc' = [pc EXCEPT ![p] = x]
        /\ \E x \in Nat \ {0} : pos' = [pos EXCEPT ![p] = x]
        /\ \E x \in Reasons \cup {NoReply, "ok"} : result' = [result EXCEPT ![p] = x]
        /\ UNCHANGED <<request, copy, todo, allowList, denyList, readers, writer>>
    BY <1>5 DEF TypeOK, Reasons, ScanDeny, Answer, listVars, lockVars
  <2>1. TypeOK'
    BY <2>0 DEF TypeOK, PCs, ReadPCs
  <2>2. LockInv'
    BY <2>0 DEF TypeOK, LockInv, ReadPCs, WritePCs
  <2>3. CallInv'
    BY <1>5, <1>0, CallShape, NothingAssumption DEF TypeOK, CallInv, Reasons, ScanDeny, Answer, listVars, lockVars
  <2>4. TodoInv'
    BY <1>5 DEF TypeOK, LockInv, TodoInv, WritePCs, ScanDeny, Answer, listVars, lockVars
  <2>5. ScanInv'
    BY <1>5, SMTT(30) DEF TypeOK, LockInv, ScanInv, ReadPCs, WritePCs, Unmatched, ScanDeny, Answer, listVars, lockVars
  <2> QED BY <2>1, <2>2, <2>3, <2>4, <2>5
<1>6. ASSUME NEW p \in Proc, ScanAllow(p) PROVE IInv'
  <2>0. /\ pc[p] \in {"scanAllow"}
        /\ \E x \in {"scanAllow", "runlock"} : pc' = [pc EXCEPT ![p] = x]
        /\ \E x \in Nat \ {0} : pos' = [pos EXCEPT ![p] = x]
        /\ \E x \in Reasons \cup {NoReply, "ok"} : result' = [result EXCEPT ![p] = x]
        /\ UNCHANGED <<request, copy, todo, allowList, denyList, readers, writer>>
    BY <1>6 DEF TypeOK, Reasons, ScanAllow, Answer, listVars, lockVars
  <2>1. TypeOK'
    BY <2>0 DEF TypeOK, PCs, ReadPCs
  <2>2. LockInv'
    BY <2>0 DEF TypeOK, LockInv, ReadPCs, WritePCs
  <2>3. CallInv'
    BY <1>6, <1>0, CallShape, NothingAssumption DEF TypeOK, CallInv, Reasons, ScanAllow, Answer, listVars, lockVars
  <2>4. TodoInv'
    BY <1>6 DEF TypeOK, LockInv, TodoInv, WritePCs, ScanAllow, Answer, listVars, lockVars
  <2>5. ScanInv'
    BY <1>6, SMTT(30) DEF TypeOK, LockInv, ScanInv, ReadPCs, WritePCs, Unmatched, ScanAllow, Answer, listVars, lockVars
  <2> QED BY <2>1, <2>2, <2>3, <2>4, <2>5
<1>7. ASSUME NEW p \in Proc, CopyAllow(p) PROVE IInv'
  <2>1. TypeOK'
    BY <1>7 DEF TypeOK, PCs, ReadPCs, WritePCs, CopyAllow, listVars, lockVars
  <2>2. LockInv'
    BY <1>7 DEF TypeOK, LockInv, ReadPCs, WritePCs, CopyAllow, listVars, lockVars
  <2>3. CallInv'
    BY <1>7, <1>0, CallShape, NothingAssumption DEF TypeOK, CallInv, Reasons, CopyAllow, listVars, lockVars
  <2>4. TodoInv'
    BY <1>7 DEF TypeOK, LockInv, TodoInv, WritePCs, CopyAllow, listVars, lockVars
  <2>5. ScanInv'
    BY <1>7 DEF TypeOK, LockInv, ScanInv, ReadPCs, WritePCs, Unmatched, CopyAllow, listVars, lockVars
  <2> QED BY <2>1, <2>2, <2>3, <2>4, <2>5
<1>8. ASSUME NEW p \in Proc, CopyDeny(p) PROVE IInv'
  <2>1. TypeOK'
    BY <1>8 DEF TypeOK, PCs, ReadPCs, WritePCs, CopyDeny, listVars, lockVars
  <2>2. LockInv'
    BY <1>8 DEF TypeOK, LockInv, ReadPCs, WritePCs, CopyDeny, listVars, lockVars
  <2>3. CallInv'
    BY <1>8, <1>0, CallShape, NothingAssumption DEF TypeOK, CallInv, Reasons, CopyDeny, listVars, lockVars
  <2>4. TodoInv'
    BY <1>8 DEF TypeOK, LockInv, TodoInv, WritePCs, CopyDeny, listVars, lockVars
  <2>5. ScanInv'
    BY <1>8 DEF TypeOK, LockInv, ScanInv, ReadPCs, WritePCs, Unmatched, CopyDeny, listVars, lockVars
  <2> QED BY <2>1, <2>2, <2>3, <2>4, <2>5
<1>9. ASSUME NEW p \in Proc, RUnlock(p) PROVE IInv'
  <2>1. TypeOK'
    BY <1>9 DEF TypeOK, PCs, ReadPCs, WritePCs, RUnlock, listVars, lockVars
  <2>2. LockInv'
    BY <1>9 DEF TypeOK, LockInv, ReadPCs, WritePCs, RUnlock, listVars, lockVars
  <2>3. CallInv'
    BY <1>9, <1>0, CallShape, NothingAssumption DEF TypeOK, CallInv, Reasons, RUnlock, listVars, lockVars
  <2>4. TodoInv'
    BY <1>9 DEF TypeOK, LockInv, TodoInv, WritePCs, RUnlock, listVars, lockVars
  <2>5. ScanInv'
    BY <1>9 DEF TypeOK, LockInv, ScanInv, ReadPCs, WritePCs, Unmatched, RUnlock, listVars, lockVars
  <2> QED BY <2>1, <2>2, <2>3, <2>4, <2>5
<1>10. ASSUME NEW p \in Proc, Announce(p) PROVE IInv'
  <2>1. TypeOK'
    BY <1>10 DEF TypeOK, PCs, ReadPCs, WritePCs, Announce, listVars, lockVars
  <2>2. LockInv'
    BY <1>10 DEF TypeOK, LockInv, ReadPCs, WritePCs, Announce, listVars, lockVars
  <2>3. CallInv'
    BY <1>10, <1>0, CallShape, NothingAssumption DEF TypeOK, CallInv, Reasons, Announce, listVars, lockVars
  <2>4. TodoInv'
    BY <1>10 DEF TypeOK, LockInv, TodoInv, WritePCs, Announce, listVars, lockVars
  <2>5. ScanInv'
    BY <1>10 DEF TypeOK, LockInv, ScanInv, ReadPCs, WritePCs, Unmatched, Announce, listVars, lockVars
  <2> QED BY <2>1, <2>2, <2>3, <2>4, <2>5
<1>11. ASSUME NEW p \in Proc, Acquire(p) PROVE IInv'
  <2>0. /\ todo' \in Strings
        /\ \E x \in {"apply", "reset"} : pc' = [pc EXCEPT ![p] = x]
        /\ UNCHANGED <<request, pos, result, copy, allowList, denyList, readers, writer>>
    <3>1. request[p].op = "add" => Shape(request[p])
      BY <1>11, <1>0 DEF Acquire, CallInv
    <3>2. todo' \in Strings
      BY <1>11, <3>1 DEF TypeOK, Strings, Acquire
    <3> QED BY <1>11, <3>2 DEF Acquire, listVars, lockVars
  <2>1. TypeOK'
    BY <2>0 DEF TypeOK, PCs, WritePCs
  <2>2. LockInv'
    BY <1>11 DEF TypeOK, LockInv, ReadPCs, WritePCs, Acquire, listVars, lockVars
  <2>3. CallInv'
    BY <1>11, <1>0, CallShape, NothingAssumption, SMTT(30) DEF TypeOK, CallInv, Reasons, Acquire, listVars, lockVars
  <2>4. TodoInv'
    BY <1>11 DEF TypeOK, LockInv, TodoInv, WritePCs, Acquire, listVars, lockVars
  <2>5. ScanInv'
    BY <1>11 DEF TypeOK, LockInv, ScanInv, ReadPCs, WritePCs, Unmatched, Acquire, listVars, lockVars
  <2> QED BY <2>1, <2>2, <2>3, <2>4, <2>5
<1>12. ASSUME NEW p \in Proc, Reset(p) PROVE IInv'
  <2>0. todo' \in Strings
    <3>1. Shape(request[p]) /\ request[p].op = "replace"
      BY <1>12, <1>0 DEF Reset, CallInv
    <3> QED BY <1>12, <3>1 DEF Reset, Strings
  <2>1. TypeOK'
    BY <1>12, <2>0 DEF TypeOK, PCs, WritePCs, Reset, lockVars
  <2>2. LockInv'
    BY <1>12 DEF TypeOK, LockInv, ReadPCs, WritePCs, Reset, listVars, lockVars
  <2>3. CallInv'
    BY <1>12, <1>0, CallShape, NothingAssumption DEF TypeOK, CallInv, Reasons, Reset, listVars, lockVars
  <2>4. TodoInv'
    BY <1>12 DEF TypeOK, LockInv, TodoInv, WritePCs, Reset, listVars, lockVars
  <2>5. ScanInv'
    BY <1>12 DEF TypeOK, LockInv, ScanInv, ReadPCs, WritePCs, Unmatched, Reset, listVars, lockVars
  <2> QED BY <2>1, <2>2, <2>3, <2>4, <2>5
<1>13. ASSUME NEW p \in Proc, ApplyAllow(p) PROVE IInv'
  <2>0. allowList' \in Seq(Rule) /\ todo' \in Strings
    <3>1. todo.allow \in Seq(Value) /\ todo.allow # <<>>
      BY <1>13 DEF TypeOK, Strings, ApplyAllow
    <3>2. Head(todo.allow) \in Value /\ Tail(todo.allow) \in Seq(Value)
      BY <3>1
    <3> QED BY <1>13, <3>2, AddRuleType DEF TypeOK, Strings, ApplyAllow
  <2>1. TypeOK'
    BY <1>13, <2>0 DEF TypeOK, ApplyAllow, lockVars
  <2>2. LockInv'
    BY <1>13 DEF TypeOK, LockInv, ReadPCs, WritePCs, ApplyAllow, listVars, lockVars
  <2>3. CallInv'
    BY <1>13, <1>0, CallShape, NothingAssumption DEF TypeOK, CallInv, Reasons, ApplyAllow, listVars, lockVars
  <2>4. TodoInv'
    BY <1>13 DEF TypeOK, LockInv, TodoInv, WritePCs, ApplyAllow, listVars, lockVars
  <2>5. ScanInv'
    BY <1>13 DEF TypeOK, LockInv, ScanInv, ReadPCs, WritePCs, Unmatched, ApplyAllow, listVars, lockVars
  <2> QED BY <2>1, <2>2, <2>3, <2>4, <2>5
<1>14. ASSUME NEW p \in Proc, ApplyDeny(p) PROVE IInv'
  <2>0. denyList' \in Seq(Rule) /\ todo' \in Strings
    <3>1. todo.deny \in Seq(Value) /\ todo.deny # <<>>
      BY <1>14 DEF TypeOK, Strings, ApplyDeny
    <3>2. Head(todo.deny) \in Value /\ Tail(todo.deny) \in Seq(Value)
      BY <3>1
    <3> QED BY <1>14, <3>2, AddRuleType DEF TypeOK, Strings, ApplyDeny
  <2>1. TypeOK'
    BY <1>14, <2>0 DEF TypeOK, ApplyDeny, lockVars
  <2>2. LockInv'
    BY <1>14 DEF TypeOK, LockInv, ReadPCs, WritePCs, ApplyDeny, listVars, lockVars
  <2>3. CallInv'
    BY <1>14, <1>0, CallShape, NothingAssumption DEF TypeOK, CallInv, Reasons, ApplyDeny, listVars, lockVars
  <2>4. TodoInv'
    BY <1>14 DEF TypeOK, LockInv, TodoInv, WritePCs, ApplyDeny, listVars, lockVars
  <2>5. ScanInv'
    BY <1>14 DEF TypeOK, LockInv, ScanInv, ReadPCs, WritePCs, Unmatched, ApplyDeny, listVars, lockVars
  <2> QED BY <2>1, <2>2, <2>3, <2>4, <2>5
<1>15. ASSUME NEW p \in Proc, Unlock(p) PROVE IInv'
  <2>1. TypeOK'
    BY <1>15 DEF TypeOK, PCs, ReadPCs, WritePCs, NoTodo, Unlock, ReadEntry, Waiting, listVars, lockVars
  <2>2. LockInv'
    BY <1>15 DEF TypeOK, LockInv, ReadPCs, WritePCs, Unlock, ReadEntry, Waiting, listVars, lockVars
  <2>3. CallInv'
    BY <1>15, <1>0, CallShape, NothingAssumption DEF TypeOK, CallInv, Reasons, Unlock, ReadEntry, Waiting, listVars, lockVars
  <2>4. TodoInv'
    BY <1>15 DEF TypeOK, LockInv, TodoInv, WritePCs, Unlock, ReadEntry, Waiting, listVars, lockVars
  <2>5. ScanInv'
    BY <1>15 DEF TypeOK, LockInv, ScanInv, ReadPCs, WritePCs, Unmatched, Unlock, ReadEntry, Waiting, listVars, lockVars
  <2> QED BY <2>1, <2>2, <2>3, <2>4, <2>5
<1>16. ASSUME UNCHANGED vars PROVE IInv'
  BY <1>16 DEF vars, TypeOK, LockInv, CallInv, TodoInv, ScanInv
<1> QED BY <1>1, <1>2, <1>3, <1>4, <1>5, <1>6, <1>7, <1>8, <1>9, <1>10, <1>11, <1>12, <1>13, <1>14, <1>15, <1>16 DEF Next

\* Readers and the writer exclude each other.
LEMMA LockExcludes == IInv => Exclusion
BY DEF IInv, LockInv, Exclusion, ReadPCs, WritePCs

(***************************************************************************)
(* The refinement of the atomic store.                                     *)
(***************************************************************************)

\* While nobody is adding, the store holds what the two slices hold.
LEMMA QuietStore ==
    ASSUME IInv, \A q \in Proc : pc[q] \notin {"apply", "new"}
    PROVE  StoreAllow = RulesIn(allowList) /\ StoreDeny = RulesIn(denyList)
BY EmptyRules DEF IInv, TodoInv, NoTodo, StoreAllow, StoreDeny

\* A goroutine with the read lock sees the store in the two slices.
LEMMA ReaderSeesStore ==
    ASSUME IInv, NEW p \in Proc, pc[p] \in ReadPCs
    PROVE  StoreAllow = RulesIn(allowList) /\ StoreDeny = RulesIn(denyList)
<1>1. \A q \in Proc : pc[q] \notin {"apply", "new"}
  BY DEF IInv, LockInv, WritePCs
<1> QED BY <1>1, QuietStore

\* So does the goroutine that has announced itself and does not write yet.
LEMMA WriterSeesStore ==
    ASSUME IInv, NEW p \in Proc, pc[p] \in {"drain", "reset"}
    PROVE  StoreAllow = RulesIn(allowList) /\ StoreDeny = RulesIn(denyList)
<1>1. \A q \in Proc : pc[q] \notin {"apply", "new"}
  BY DEF IInv, LockInv, WritePCs
<1> QED BY <1>1, QuietStore

\* The store speaks of the same goroutines, calls, rules and verdicts.
LEMMA SameVocabulary ==
    /\ Store!Proc = Proc
    /\ \A p : Store!CallsOf(p) = CallsOf(p)
    /\ \A x, y, d : Store!Decide(x, y, d) = Decide(x, y, d)
    /\ \A vs : Store!RulesOf(vs) = RulesOf(vs)
<1>1. Store!Proc = Proc
  BY DEF Store!Proc, Proc
<1>2. \A p : Store!CallsOf(p) = CallsOf(p)
  BY DEF Store!CallsOf, CallsOf, Store!CheckCall, CheckCall, Store!ListCall, ListCall,
         Store!AddAllowCall, AddAllowCall, Store!AddDenyCall, AddDenyCall,
         Store!ReplaceCall, ReplaceCall
<1>3. \A x, y, d : Store!Decide(x, y, d) = Decide(x, y, d)
  BY DEF Store!Decide, Decide, Store!Matches, Matches
<1>4. \A vs : Store!RulesOf(vs) = RulesOf(vs)
  BY DEF Store!RulesOf, RulesOf
<1> QED BY <1>1, <1>2, <1>3, <1>4

\* The strings NewRules has still to add count as added: an initial store.
THEOREM InitRefines == Init => Store!Init
<1> SUFFICES ASSUME Init PROVE Store!Init
  OBVIOUS
<1>1. PICK c \in Config : todo = [allow |-> c.allow, deny |-> c.deny]
  BY DEF Init
<1>2. StoreAllow = RulesOf(c.allow) /\ StoreDeny = RulesOf(c.deny)
  BY <1>1, EmptyRules DEF Init, StoreAllow, StoreDeny
<1>3. StoreReply = [p \in Proc |-> NoReply]
  BY DEF Init, StoreReply, AbsReply
<1> QED BY <1>2, <1>3, SameVocabulary DEF Init, Store!Init

\* Every step of the engine is a step of the store or invisible there.
THEOREM NextRefines == IInv /\ [Next]_vars => [Store!Next]_(Store!vars)
<1> SUFFICES ASSUME IInv, Next PROVE Store!Next \/ UNCHANGED Store!vars
  BY DEF vars, Store!vars, StoreAllow, StoreDeny, StoreReply, AbsReply
<1> USE DEF Store!vars
<1>1. ASSUME NEW p \in Proc, Enter(p) PROVE Store!Invoke(p)
  <2>1. UNCHANGED <<StoreAllow, StoreDeny>>
    BY <1>1 DEF Enter, StoreAllow, StoreDeny, listVars
  <2>2. StoreReply' = StoreReply
    <3>1. pc[p] = "idle" /\ pc'[p] # "apply" /\ UNCHANGED <<result, copy>>
      BY <1>1 DEF Enter, IInv, TypeOK
    <3>2. AbsReply(p)' = AbsReply(p)
      BY <3>1 DEF AbsReply, IInv, CallInv
    <3>3. ASSUME NEW q \in Proc, q # p PROVE AbsReply(q)' = AbsReply(q)
      BY <1>1, <3>3 DEF Enter, AbsReply, IInv, TypeOK
    <3> QED BY <3>2, <3>3 DEF StoreReply
  <2>3. request[p] = NoCall /\ \E c \in CallsOf(p) : request' = [request EXCEPT ![p] = c]
    BY <1>1 DEF Enter, IInv, CallInv
  <2> QED BY <2>1, <2>2, <2>3, SameVocabulary DEF Store!Invoke
<1>2. ASSUME NEW p \in Proc, Leave(p) PROVE Store!Return(p)
  <2>1. UNCHANGED <<StoreAllow, StoreDeny>>
    BY <1>2 DEF Leave, StoreAllow, StoreDeny, listVars
  <2>2. StoreReply' = [StoreReply EXCEPT ![p] = NoReply]
    BY <1>2 DEF Leave, StoreReply, AbsReply, IInv, TypeOK, CallInv
  <2>3. StoreReply[p] # NoReply
    <3>1. pc[p] = "return" /\ result[p] # NoReply
      BY <1>2 DEF Leave, IInv, CallInv
    <3>2. copy[p].allow \in Seq(Rule) /\ copy[p].deny \in Seq(Rule)
      BY DEF IInv, TypeOK
    <3>3. RulesIn(copy[p].allow) \subseteq Rule /\ RulesIn(copy[p].deny) \subseteq Rule
      BY <3>2 DEF RulesIn
    <3> QED BY <3>1, <3>3, NothingAssumption DEF StoreReply, AbsReply
  <2> QED BY <1>2, <2>1, <2>2, <2>3 DEF Leave, Store!Return
<1>3. ASSUME NEW p \in Proc,
             RLock(p) \/ RUnlock(p) \/ Announce(p) \/ CopyAllow(p)
      PROVE  UNCHANGED Store!vars
  <2>1. UNCHANGED <<StoreAllow, StoreDeny, request, result>>
    BY <1>3 DEF RLock, RUnlock, Announce, CopyAllow, StoreAllow, StoreDeny, listVars
  <2>2. ASSUME NEW q \in Proc PROVE AbsReply(q)' = AbsReply(q)
    <3>1. pc[q] = "apply" <=> pc'[q] = "apply"
      BY <1>3 DEF IInv, TypeOK, RLock, RUnlock, Announce, CopyAllow, ReadEntry
    <3>2. copy'[q] = copy[q] \/ (result[q] = NoReply /\ q = p)
      BY <1>3 DEF IInv, TypeOK, CallInv, RLock, RUnlock, Announce, CopyAllow
    <3> QED BY <2>1, <3>1, <3>2 DEF AbsReply
  <2> QED BY <2>1, <2>2 DEF StoreReply
<1>4. ASSUME NEW p \in Proc, NEW reason \in Reasons, request[p].op = "check",
             pc[p] \in {"scan", "scanDeny", "scanAllow"},
             Answer(p, reason), UNCHANGED <<request, copy, todo, listVars>>,
             reason = Decide(StoreAllow, StoreDeny, request[p].dest)
      PROVE  Store!Check(p)
  <2>1. UNCHANGED <<StoreAllow, StoreDeny>>
    BY <1>4 DEF StoreAllow, StoreDeny, listVars
  <2>2. StoreReply' = [StoreReply EXCEPT ![p] = reason]
    <3>1. ASSUME NEW q \in Proc, q # p PROVE AbsReply(q)' = AbsReply(q)
      BY <1>4, <3>1 DEF Answer, IInv, TypeOK, AbsReply
    <3>2. AbsReply(p)' = reason
      BY <1>4 DEF Answer, IInv, TypeOK, AbsReply
    <3> QED BY <3>1, <3>2 DEF StoreReply
  <2>3. request[p] # NoCall /\ StoreReply[p] = NoReply
    BY <1>4 DEF IInv, CallInv, StoreReply, AbsReply
  <2> QED BY <1>4, <2>1, <2>2, <2>3, SameVocabulary DEF Store!Check, Store!Pending
<1>5. ASSUME NEW p \in Proc, CheckHost(p) \/ ScanDeny(p) \/ ScanAllow(p),
             UNCHANGED result
      PROVE  UNCHANGED Store!vars
  <2>1. UNCHANGED <<StoreAllow, StoreDeny, request, copy>>
    BY <1>5 DEF CheckHost, ScanDeny, ScanAllow, StoreAllow, StoreDeny, listVars
  <2>2. ASSUME NEW q \in Proc PROVE AbsReply(q)' = AbsReply(q)
    <3>1. pc[q] = "apply" <=> pc'[q] = "apply"
      BY <1>5 DEF IInv, TypeOK, CheckHost, ScanDeny, ScanAllow, Answer
    <3> QED BY <1>5, <2>1, <3>1 DEF AbsReply
  <2> QED BY <2>1, <2>2 DEF StoreReply
<1>6. ASSUME NEW p \in Proc, CheckHost(p)
      PROVE  Store!Check(p) \/ UNCHANGED Store!vars
  <2>1. CASE request[p].dest \in NoHost
    <3>1. Decide(StoreAllow, StoreDeny, request[p].dest) = "empty-host"
      BY <2>1 DEF Decide
    <3> QED BY <1>4, <1>6, <2>1, <3>1 DEF CheckHost, Reasons, IInv, CallInv
  <2>2. CASE request[p].dest \notin NoHost
    BY <1>5, <1>6, <2>2 DEF CheckHost
  <2> QED BY <2>1, <2>2
<1>7. ASSUME NEW p \in Proc, ScanDeny(p)
      PROVE  Store!Check(p) \/ UNCHANGED Store!vars
  <2>1. CASE pos[p] <= Len(denyList) /\ Matches(denyList[pos[p]], request[p].dest)
    <3>1. StoreDeny = RulesIn(denyList) /\ pos[p] \in DOMAIN denyList
      BY <1>7, <2>1, ReaderSeesStore DEF ScanDeny, ReadPCs, IInv, TypeOK
    <3>2. request[p].dest \notin NoHost
      BY <1>7 DEF ScanDeny, IInv, ScanInv
    <3>3. Decide(StoreAllow, StoreDeny, request[p].dest) = "blocklist"
      BY <2>1, <3>1, <3>2 DEF Decide, RulesIn
    <3>4. request[p].op = "check" /\ Answer(p, "blocklist")
      BY <1>7, <2>1 DEF ScanDeny, IInv, TypeOK, CallInv
    <3> QED BY <1>4, <1>7, <3>3, <3>4 DEF ScanDeny, Reasons
  <2>2. CASE ~(pos[p] <= Len(denyList) /\ Matches(denyList[pos[p]], request[p].dest))
    <3>1. UNCHANGED result
      BY <1>7, <2>2 DEF ScanDeny, IInv, TypeOK
    <3> QED BY <1>5, <1>7, <3>1
  <2> QED BY <2>1, <2>2
<1>8. ASSUME NEW p \in Proc, ScanAllow(p)
      PROVE  Store!Check(p) \/ UNCHANGED Store!vars
  <2>1. /\ request[p].dest \notin NoHost
        /\ request[p].op = "check"
        /\ pc[p] = "scanAllow"
    BY <1>8 DEF ScanAllow, IInv, ScanInv, CallInv
  <2>2. ~ \E r \in StoreDeny : Matches(r, request[p].dest)
    BY <2>1, ReaderSeesStore, UnmatchedAll DEF ReadPCs, IInv, TypeOK, ScanInv
  <2>3. StoreAllow = RulesIn(allowList)
    BY <2>1, ReaderSeesStore DEF ReadPCs
  <2>4. CASE pos[p] <= Len(allowList) /\ Matches(allowList[pos[p]], request[p].dest)
    <3>1. pos[p] \in DOMAIN allowList
      BY <2>4 DEF IInv, TypeOK
    <3>2. Decide(StoreAllow, StoreDeny, request[p].dest) = "whitelist"
      BY <2>1, <2>2, <2>3, <2>4, <3>1 DEF Decide, RulesIn
    <3>3. Answer(p, "whitelist")
      BY <1>8, <2>4 DEF ScanAllow, IInv, TypeOK
    <3> QED BY <1>4, <1>8, <2>1, <3>2, <3>3 DEF ScanAllow, Reasons
  <2>5. CASE pos[p] > Len(allowList)
    <3>1. Unmatched(allowList, Len(allowList), request[p].dest)
      BY <2>1, <2>5 DEF IInv, TypeOK, ScanInv, Unmatched
    <3>2. ~ \E r \in StoreAllow : Matches(r, request[p].dest)
      BY <2>3, <3>1, UnmatchedAll DEF IInv, TypeOK
    <3>3. Decide(StoreAllow, StoreDeny, request[p].dest) = "not-in-allowlist"
      BY <2>1, <2>2, <3>2 DEF Decide
    <3> QED BY <1>4, <1>8, <2>1, <2>5, <3>3 DEF ScanAllow, Reasons
  <2>6. CASE pos[p] <= Len(allowList) /\ ~Matches(allowList[pos[p]], request[p].dest)
    <3>1. UNCHANGED result
      BY <1>8, <2>6 DEF ScanAllow, IInv, TypeOK
    <3> QED BY <1>5, <1>8, <3>1
  <2> QED BY <2>4, <2>5, <2>6 DEF IInv, TypeOK
<1>9. ASSUME NEW p \in Proc, CopyDeny(p) PROVE Store!List(p)
  <2>1. UNCHANGED <<StoreAllow, StoreDeny, request>>
    BY <1>9 DEF CopyDeny, StoreAllow, StoreDeny, listVars
  <2>2. StoreAllow = RulesIn(allowList) /\ StoreDeny = RulesIn(denyList)
    BY <1>9, ReaderSeesStore DEF CopyDeny, ReadPCs
  <2>3. request[p].op = "list" /\ copy[p].allow = allowList
    BY <1>9 DEF CopyDeny, IInv, CallInv, ScanInv
  <2>4. AbsReply(p)' = [allow |-> StoreAllow, deny |-> StoreDeny]
    <3>1. /\ pc'[p] = "runlock" /\ result'[p] = "ok" /\ request'[p] = request[p]
          /\ copy'[p].allow = allowList /\ copy'[p].deny = denyList
      BY <1>9, <2>3 DEF CopyDeny, IInv, TypeOK
    <3> QED BY <2>2, <2>3, <3>1, NothingAssumption DEF AbsReply
  <2>5. ASSUME NEW q \in Proc, q # p PROVE AbsReply(q)' = AbsReply(q)
    BY <1>9, <2>5 DEF CopyDeny, IInv, TypeOK, AbsReply
  <2>6. StoreReply' = [StoreReply EXCEPT ![p] = [allow |-> StoreAllow, deny |-> StoreDeny]]
    BY <2>4, <2>5 DEF StoreReply
  <2>7. request[p] # NoCall /\ StoreReply[p] = NoReply
    BY <1>9 DEF CopyDeny, IInv, CallInv, StoreReply, AbsReply
  <2> QED BY <2>1, <2>3, <2>6, <2>7 DEF Store!List, Store!Pending
\* A writer takes effect when it starts to add.
<1>10. ASSUME NEW p \in Proc, pc[p] \in {"drain", "reset"},
              pc' = [pc EXCEPT ![p] = "apply"],
              UNCHANGED <<request, result, copy>>
       PROVE  /\ StoreReply' = [StoreReply EXCEPT ![p] = "ok"]
              /\ request[p] # NoCall /\ StoreReply[p] = NoReply
  <2>1. AbsReply(p)' = "ok"
    BY <1>10 DEF AbsReply, IInv, TypeOK
  <2>2. ASSUME NEW q \in Proc, q # p PROVE AbsReply(q)' = AbsReply(q)
    BY <1>10, <2>2 DEF AbsReply, IInv, TypeOK
  <2>3. request[p] # NoCall /\ StoreReply[p] = NoReply
    BY <1>10 DEF IInv, CallInv, StoreReply, AbsReply
  <2> QED BY <2>1, <2>2, <2>3 DEF StoreReply
<1>11. ASSUME NEW p \in Proc, Acquire(p) PROVE Store!Add(p) \/ UNCHANGED Store!vars
  <2>1. StoreAllow = RulesIn(allowList) /\ StoreDeny = RulesIn(denyList)
    BY <1>11, WriterSeesStore DEF Acquire
  <2>2. CASE request[p].op = "add"
    <3>1. /\ StoreAllow' = StoreAllow \cup RulesOf(request[p].allow)
          /\ StoreDeny' = StoreDeny \cup RulesOf(request[p].deny)
      BY <1>11, <2>1, <2>2 DEF Acquire, listVars, StoreAllow, StoreDeny
    <3>2. /\ pc[p] = "drain" /\ pc' = [pc EXCEPT ![p] = "apply"]
          /\ UNCHANGED <<request, result, copy>>
      BY <1>11, <2>2 DEF Acquire
    <3> QED BY <1>10, <2>2, <3>1, <3>2, SameVocabulary DEF Store!Add, Store!Pending
  <2>3. CASE request[p].op # "add"
    <3>1. UNCHANGED <<StoreAllow, StoreDeny, request, result, copy>>
      BY <1>11, <2>3 DEF Acquire, listVars, StoreAllow, StoreDeny
    <3>2. pc[p] = "drain" /\ pc' = [pc EXCEPT ![p] = "reset"]
      BY <1>11, <2>3 DEF Acquire
    <3> QED BY <3>1, <3>2 DEF StoreReply, AbsReply, IInv, TypeOK
  <2> QED BY <2>2, <2>3
<1>12. ASSUME NEW p \in Proc, Reset(p) PROVE Store!Replace(p)
  <2>1. /\ StoreAllow' = RulesOf(request[p].allow)
        /\ StoreDeny' = RulesOf(request[p].deny)
    BY <1>12, EmptyRules DEF Reset, StoreAllow, StoreDeny
  <2>2. request[p].op = "replace" /\ UNCHANGED request
    BY <1>12 DEF Reset, IInv, CallInv
  <2> QED BY <1>10, <1>12, <2>1, <2>2, SameVocabulary DEF Reset, Store!Replace, Store!Pending
<1>13. ASSUME NEW p \in Proc, ApplyAllow(p) \/ ApplyDeny(p)
       PROVE  UNCHANGED Store!vars
  <2>1. todo.allow \in Seq(Value) /\ todo.deny \in Seq(Value)
    BY DEF IInv, TypeOK, Strings
  <2>2. CASE ApplyAllow(p)
    <3>1. /\ todo.allow # <<>> /\ todo'.allow = Tail(todo.allow)
          /\ todo'.deny = todo.deny /\ denyList' = denyList
          /\ allowList' = AddRule(allowList, Head(todo.allow))
      BY <2>2 DEF ApplyAllow, IInv, TypeOK, Strings
    <3>2. StoreAllow' = StoreAllow
      BY <2>1, <3>1, AddRuleMoves DEF StoreAllow, IInv, TypeOK
    <3>3. StoreDeny' = StoreDeny
      BY <3>1 DEF StoreDeny
    <3> QED BY <2>2, <3>2, <3>3 DEF ApplyAllow, StoreReply, AbsReply
  <2>3. CASE ApplyDeny(p)
    <3>1. /\ todo.deny # <<>> /\ todo'.deny = Tail(todo.deny)
          /\ todo'.allow = todo.allow /\ allowList' = allowList
          /\ denyList' = AddRule(denyList, Head(todo.deny))
      BY <2>3 DEF ApplyDeny, IInv, TypeOK, Strings
    <3>2. StoreDeny' = StoreDeny
      BY <2>1, <3>1, AddRuleMoves DEF StoreDeny, IInv, TypeOK
    <3>3. StoreAllow' = StoreAllow
      BY <3>1 DEF StoreAllow
    <3> QED BY <2>3, <3>2, <3>3 DEF ApplyDeny, StoreReply, AbsReply
  <2> QED BY <1>13, <2>2, <2>3
<1>14. ASSUME NEW p \in Proc, Unlock(p) PROVE UNCHANGED Store!vars
  <2>1. UNCHANGED <<StoreAllow, StoreDeny, request, copy>>
    BY <1>14 DEF Unlock, listVars, StoreAllow, StoreDeny
  <2>2. AbsReply(p)' = AbsReply(p)
    BY <1>14, <2>1 DEF Unlock, AbsReply, IInv, TypeOK, CallInv
  <2>3. ASSUME NEW q \in Proc, q # p PROVE AbsReply(q)' = AbsReply(q)
    <3>1. result'[q] = result[q] /\ (pc[q] = "apply" <=> pc'[q] = "apply")
      BY <1>14, <2>3 DEF Unlock, Waiting, ReadEntry, IInv, TypeOK
    <3> QED BY <2>1, <3>1 DEF AbsReply
  <2> QED BY <2>1, <2>2, <2>3 DEF StoreReply
<1> QED BY <1>1, <1>2, <1>3, <1>6, <1>7, <1>8, <1>9, <1>11, <1>12, <1>13, <1>14,
             SameVocabulary
        DEF Next, Store!Next

(***************************************************************************)
(* The results.                                                            *)
(***************************************************************************)

\* The inductive invariant holds in every state of the engine.
THEOREM AlwaysIInv == Spec => []IInv
<1> QED BY InitIInv, NextIInv, PTL DEF Spec

\* Every variable keeps its type: the slices hold only parsed rules, whatever
\* strings a configuration or a control request brings.
THEOREM TypeCorrect == Spec => []TypeOK
<1>1. IInv => TypeOK
  BY DEF IInv
<1> QED BY <1>1, AlwaysIInv, PTL

\* No goroutine reads or changes the slices while another one changes them.
THEOREM MutualExclusion == Spec => []Exclusion
<1> QED BY LockExcludes, AlwaysIInv, PTL

\* The engine is an atomic store: Check, List, AddAllow, AddDeny and Replace of
\* any number of goroutines take effect one at a time, each inside its call.
THEOREM Linearizable == Spec => ImplementsStore
<1> QED BY InitRefines, NextRefines, AlwaysIInv, PTL DEF Spec, ImplementsStore, Store!Spec
===============================================================================
