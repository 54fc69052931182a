----------------------------- MODULE GuardianProofs -----------------------------
(***************************************************************************)
(* Proofs about Guardian: its types, that Stop leaves no goroutine behind, *)
(* and that the audit log tells what was done.                             *)
(***************************************************************************)
EXTENDS Guardian, FiniteSetTheorems, TLAPS

USE GuardianAssumption

(***************************************************************************)
(* Lemmas about the counting of goroutines.                                *)
(***************************************************************************)

\* A verdict is one of the reasons of Check.
LEMMA DecideType ==
    ASSUME NEW A, NEW D, NEW d PROVE Decide(A, D, d) \in Reasons
BY DEF Decide, Reasons

\* The sets that the wait group counts are finite.
LEMMA CountedSets ==
    ASSUME TypeOK
    PROVE  /\ IsFiniteSet(loops) /\ Cardinality(loops) \in Nat
           /\ IsFiniteSet(Live) /\ Cardinality(Live) \in Nat
<1>1. IsFiniteSet(Listener)
  <2>1. Listener = ({"proxy"} \cup {"control"}) \cup {"proxySock"}
    BY DEF Listener
  <2> QED BY <2>1, FS_Singleton, FS_Union
<1>2. Live \subseteq Conn /\ loops \subseteq Listener
  BY DEF Live, TypeOK
<1> QED BY <1>1, <1>2, FS_Subset, FS_CardinalityType

\* A connection that is accepted is one more live goroutine.
LEMMA OneMore ==
    ASSUME TypeOK, NEW c \in Conn, st[c] \notin LiveStates,
           NEW s \in LiveStates, st' = [st EXCEPT ![c] = s]
    PROVE  Live' = Live \cup {c} /\ Cardinality(Live') = Cardinality(Live) + 1
<1>1. Live' = Live \cup {c} /\ c \notin Live
  BY DEF Live, TypeOK
<1> QED BY <1>1, CountedSets, FS_AddElement

\* A handler that returns is one less.
LEMMA OneLess ==
    ASSUME TypeOK, NEW c \in Conn, st[c] \in LiveStates, st' = [st EXCEPT ![c] = "done"]
    PROVE  /\ Live' = Live \ {c} /\ Cardinality(Live') = Cardinality(Live) - 1
           /\ Cardinality(Live) > 0
<1>1. Live' = Live \ {c} /\ c \in Live
  BY DEF Live, TypeOK, LiveStates
<1>2. Cardinality(Live') = Cardinality(Live) - 1
  BY <1>1, CountedSets, FS_RemoveElement
<1>3. Cardinality(Live) > 0
  BY <1>1, CountedSets, FS_EmptySet
<1> QED BY <1>1, <1>2, <1>3

\* Any other move of a handler leaves their number alone.
LEMMA SameLive ==
    ASSUME TypeOK, TypeOK', \A c \in Conn : st[c] \in LiveStates <=> st'[c] \in LiveStates
    PROVE  Live' = Live
BY DEF Live


\* The counter is positive while a goroutine it counts runs.
LEMMA Counted ==
    ASSUME TypeOK, StopQuiesces
    PROVE  /\ \A c \in Conn : st[c] \in LiveStates => wg - 1 \in Nat
           /\ \A l \in loops : wg - 1 \in Nat
<1>1. \A c \in Conn : st[c] \in LiveStates => Live # {}
  BY DEF Live
<1>2. Live # {} => Cardinality(Live) > 0
  BY CountedSets, FS_EmptySet
<1>3. loops # {} => Cardinality(loops) > 0
  BY CountedSets, FS_EmptySet
<1> QED BY <1>1, <1>2, <1>3, CountedSets DEF StopQuiesces, TypeOK

(***************************************************************************)
(* Types.                                                                  *)
(***************************************************************************)

\* The types hold before Start has done anything.
THEOREM InitTypes == Init => TypeOK
<1> SUFFICES ASSUME Init PROVE TypeOK
  OBVIOUS
<1>1. allow \subseteq Rule /\ deny \subseteq Rule /\ unwritten \subseteq Conn
  BY DEF Init
<1>2. /\ st \in [Conn -> {"none"}] /\ mine \in [Conn -> {{}}]
      /\ reason \in [Conn -> {"none"}] /\ req \in [Conn -> {NoRequest}]
      /\ told \in [Conn -> {"none"}] /\ client \in [Conn -> {"none"}]
      /\ server \in [Conn -> {"none"}] /\ up \in [Conn -> {"none"}]
      /\ down \in [Conn -> {"none"}]
  BY DEF Init
<1>3. wg \in Nat /\ log \in Seq(EntryType) /\ main \in Mains /\ meta \in 0..2
  BY DEF Init, Mains
<1> QED BY <1>1, <1>2, <1>3 DEF Init, TypeOK

\* What logDecision writes is an entry.
LEMMA EntryTyped ==
    ASSUME TypeOK, NEW c \in Conn, reason[c] # "none"
    PROVE  Entry(c) \in EntryType
<1>1. req[c].dest \in Dest \cup {NoDest}
  BY DEF TypeOK, Request, Invalid, Unknown, NoRequest
<1> QED BY <1>1 DEF TypeOK, Entry, EntryType

\* What LogNewline does to the log.
LEMMA NewlineWritten ==
    ASSUME NEW c \in Conn, LogNewline(c)
    PROVE  \/ log' = log
           \/ log # <<>> /\ log' = [log EXCEPT ![Len(log)].ended = TRUE] /\ unwritten' = unwritten
<1>1. CASE log = <<>>
  <2>1. log' = log \/ log' = IF log = <<>> THEN log ELSE [log EXCEPT ![Len(log)].ended = TRUE]
    BY DEF LogNewline
  <2> QED BY <1>1, <2>1
<1>2. CASE log # <<>>
  <2>1. \/ log' = log
        \/ /\ log' = IF log = <<>> THEN log ELSE [log EXCEPT ![Len(log)].ended = TRUE]
           /\ unwritten' = unwritten
    BY DEF LogNewline
  <2>2. CASE log' = log
    BY <2>2
  <2>3. CASE /\ log' = IF log = <<>> THEN log ELSE [log EXCEPT ![Len(log)].ended = TRUE]
             /\ unwritten' = unwritten
    BY <1>2, <2>3, Zenon
  <2> QED BY <2>1, <2>2, <2>3, Zenon
<1> QED BY <1>1, <1>2

\* A newline marks the last entry and leaves the others as they are.
LEMMA LineEnded ==
    ASSUME log \in Seq(EntryType), log # <<>>,
           log' = [log EXCEPT ![Len(log)].ended = TRUE]
    PROVE  /\ log' \in Seq(EntryType) /\ Len(log') = Len(log) /\ DOMAIN log' = DOMAIN log
           /\ Len(log) \in DOMAIN log
           /\ \A i \in DOMAIN log :
                /\ log'[i].conn = log[i].conn /\ log'[i].dest = log[i].dest
                /\ log'[i].reason = log[i].reason
                /\ log'[i].ended = IF i = Len(log) THEN TRUE ELSE log[i].ended
<1>1. Len(log) \in Nat /\ Len(log) # 0 /\ DOMAIN log = 1..Len(log)
  OBVIOUS
<1>2. Len(log) \in DOMAIN log
  BY <1>1
<1>3. log[Len(log)] \in EntryType
  BY <1>2
<1>4. [log[Len(log)] EXCEPT !.ended = TRUE] \in EntryType
  BY <1>3 DEF EntryType
<1>5. log' = [log EXCEPT ![Len(log)] = [log[Len(log)] EXCEPT !.ended = TRUE]]
  OBVIOUS
<1>6. log' \in Seq(EntryType) /\ Len(log') = Len(log) /\ DOMAIN log' = DOMAIN log
  BY <1>1, <1>2, <1>4, <1>5
<1>7. ASSUME NEW i \in DOMAIN log
      PROVE  /\ log'[i].conn = log[i].conn /\ log'[i].dest = log[i].dest
             /\ log'[i].reason = log[i].reason
             /\ log'[i].ended = IF i = Len(log) THEN TRUE ELSE log[i].ended
  <2>1. CASE i = Len(log)
    BY <1>2, <1>3, <1>5, <2>1 DEF EntryType
  <2>2. CASE i # Len(log)
    BY <1>5, <2>2
  <2> QED BY <2>1, <2>2
<1> QED BY <1>2, <1>6, <1>7

\* Every step keeps the types; the counter stays a natural number because every
\* wg.Done is that of a goroutine that was counted.
LEMMA StepTypes ==
    ASSUME TypeOK, StopQuiesces, PhaseInv, AuditInv, Next
    PROVE  TypeOK'
<1>1. ASSUME StartFails PROVE TypeOK'
  BY <1>1 DEF TypeOK, Mains, LiveStates, Listener, StartFails, Reset, logVars, ruleVars, tunnelVars
<1>2. ASSUME OpenLog PROVE TypeOK'
  BY <1>2 DEF TypeOK, Mains, OpenLog, ruleVars, connVars
<1>3. ASSUME ListenProxy PROVE TypeOK'
  BY <1>3 DEF TypeOK, Mains, Listener, ListenProxy, logVars, ruleVars, connVars
<1>4. ASSUME ListenControl PROVE TypeOK'
  BY <1>4 DEF TypeOK, Mains, Listener, ListenControl, logVars, ruleVars, connVars
<1>5. ASSUME ServeProxy PROVE TypeOK'
  BY <1>5 DEF TypeOK, Mains, Listener, ServeProxy, logVars, ruleVars, connVars
<1>6. ASSUME SetMeta PROVE TypeOK'
  <2>1. meta' \in 0..2 /\ main' \in Mains
    BY <1>6 DEF TypeOK, PhaseInv, SetMeta, Mains
  <2> QED BY <1>6, <2>1 DEF TypeOK, SetMeta, logVars, ruleVars, connVars
<1>7. ASSUME AddProxySock PROVE TypeOK'
  <2>1. main' \in Mains
    BY <1>7 DEF AddProxySock, Mains
  <2>2. wg' \in Nat
    BY <1>7 DEF TypeOK, AddProxySock
  <2>3. open' \subseteq Listener /\ loops' \subseteq Listener
    BY <1>7 DEF TypeOK, AddProxySock, Listener
  <2> QED BY <1>7, <2>1, <2>2, <2>3 DEF TypeOK, AddProxySock, logVars, ruleVars, connVars
<1>8. ASSUME CommandExits PROVE TypeOK'
  BY <1>8 DEF TypeOK, Mains, CommandExits, logVars, ruleVars, connVars
<1>9. ASSUME CloseStopCh PROVE TypeOK'
  BY <1>9 DEF TypeOK, Mains, CloseStopCh, logVars, ruleVars, connVars
<1>10. ASSUME Wait PROVE TypeOK'
  BY <1>10 DEF TypeOK, Mains, Wait, logVars, ruleVars, connVars
<1>11. ASSUME CloseLog PROVE TypeOK'
  BY <1>11 DEF TypeOK, Mains, CloseLog, ruleVars, connVars
<1>12. ASSUME Reload PROVE TypeOK'
  BY <1>12 DEF TypeOK, Reload, mainVars, logVars, connVars
<1>13. ASSUME NEW l \in Listener, CloseListener(l) PROVE TypeOK'
  BY <1>13 DEF TypeOK, LiveStates, Listener, CloseListener, Reset, logVars, ruleVars, tunnelVars
<1>14. ASSUME NEW l \in Listener, LoopExit(l) PROVE TypeOK'
  BY <1>14, Counted DEF TypeOK, Listener, LoopExit, logVars, ruleVars, connVars
<1>15. ASSUME NEW c \in Conn, Accept(c) PROVE TypeOK'
  BY <1>15 DEF TypeOK, LiveStates, Accept, mainVars, logVars, ruleVars
<1>16. ASSUME NEW c \in Conn, ReadFirst(c) PROVE TypeOK'
  <2>1. wg' \in Nat
    BY <1>16, Counted DEF TypeOK, ReadFirst, End
  <2>2. st' \in [Conn -> LiveStates \cup {"none", "queued", "accepted", "reset", "done"}]
    BY <1>16 DEF TypeOK, ReadFirst, End, Goto, LiveStates
  <2>3. mine' \in [Conn -> SUBSET {"client", "server"}]
    BY <1>16 DEF TypeOK, ReadFirst, End
  <2>4. req' \in [Conn -> Request \cup {Invalid, Unknown, NoRequest}]
    BY <1>16 DEF TypeOK, ReadFirst, FirstRead
  <2>5. reason' \in [Conn -> Reasons \cup Refusals \cup {"none"}]
    BY <1>16 DEF TypeOK, ReadFirst, Refusals
  <2> QED BY <1>16, <2>1, <2>2, <2>3, <2>4, <2>5 DEF TypeOK, ReadFirst, mainVars, logVars, ruleVars
<1>17. ASSUME NEW c \in Conn, Check(c) PROVE TypeOK'
  BY <1>17, DecideType DEF TypeOK, LiveStates, Refusals, Check, Goto, mainVars, logVars, ruleVars, tunnelVars
<1>18. ASSUME NEW c \in Conn, Log(c) PROVE TypeOK'
  <2>1. wg' \in Nat
    BY <1>18, Counted DEF TypeOK, Log, LogReturns, End
  <2>2. st' \in [Conn -> LiveStates \cup {"none", "queued", "accepted", "reset", "done"}]
    <3>1. PICK s \in {"done", "replying", "newline"} : st' = [st EXCEPT ![c] = s]
      BY <1>18 DEF Log, LogReturns, End, Goto
    <3> QED BY <3>1 DEF TypeOK, LiveStates
  <2>3. mine' \in [Conn -> SUBSET {"client", "server"}]
    BY <1>18 DEF TypeOK, Log, LogReturns, End
  <2>4. log' \in Seq(EntryType)
    <3>1. Entry(c) \in EntryType
      BY <1>18, EntryTyped DEF Log, AuditInv, AuditOf
    <3>2. log' = log \/ log' = Append(log, Entry(c))
      BY <1>18 DEF Log
    <3> QED BY <3>1, <3>2 DEF TypeOK
  <2>5. unwritten' \subseteq Conn
    BY <1>18 DEF TypeOK, Log
  <2> QED BY <1>18, <2>1, <2>2, <2>3, <2>4, <2>5 DEF TypeOK, Log, mainVars, ruleVars
<1>35. ASSUME NEW c \in Conn, LogNewline(c) PROVE TypeOK'
  <2>1. wg' \in Nat
    BY <1>35, Counted DEF TypeOK, LiveStates, LogNewline, LogReturns, End
  <2>2. st' \in [Conn -> LiveStates \cup {"none", "queued", "accepted", "reset", "done"}]
    <3>1. PICK s \in {"done", "replying"} : st' = [st EXCEPT ![c] = s]
      BY <1>35 DEF LogNewline, LogReturns, End, Goto
    <3> QED BY <3>1 DEF TypeOK, LiveStates
  <2>3. mine' \in [Conn -> SUBSET {"client", "server"}]
    <3>1. LogReturns(c)
      BY <1>35 DEF LogNewline
    <3>2. mine' = mine \/ mine' = [mine EXCEPT ![c] = {}]
      BY <3>1 DEF LogReturns, End
    <3> QED BY <3>2 DEF TypeOK
  <2>4. log' \in Seq(EntryType)
    <3>1. CASE log' = log
      BY <3>1 DEF TypeOK
    <3>2. CASE log # <<>> /\ log' = [log EXCEPT ![Len(log)].ended = TRUE]
      BY <3>2, LineEnded DEF TypeOK
    <3>3. log' = log \/ (log # <<>> /\ log' = [log EXCEPT ![Len(log)].ended = TRUE])
      BY <1>35, NewlineWritten, Zenon
    <3> QED BY <3>1, <3>2, <3>3, Zenon
  <2>5. unwritten' \subseteq Conn
    BY <1>35 DEF TypeOK, LogNewline
  <2> QED BY <1>35, <2>1, <2>2, <2>3, <2>4, <2>5 DEF TypeOK, LogNewline, mainVars, ruleVars
<1>36. ASSUME NEW c \in Conn, Spawn(c) PROVE TypeOK'
  BY <1>36 DEF TypeOK, LiveStates, Spawn, mainVars, logVars, ruleVars, tunnelVars
<1>19. ASSUME NEW c \in Conn, Reply(c) PROVE TypeOK'
  <2>1. wg' \in Nat
    BY <1>19, Counted DEF TypeOK, Reply, End
  <2>2. st' \in [Conn -> LiveStates \cup {"none", "queued", "accepted", "reset", "done"}]
    <3>1. PICK s \in {"done", "dialing"} : st' = [st EXCEPT ![c] = s]
      BY <1>19 DEF Reply, End, Goto
    <3> QED BY <3>1 DEF TypeOK, LiveStates
  <2>3. mine' \in [Conn -> SUBSET {"client", "server"}]
    BY <1>19 DEF TypeOK, Reply, End
  <2>4. told' \in [Conn -> {"none", "200", "403"}]
    BY <1>19 DEF TypeOK, Reply
  <2> QED BY <1>19, <2>1, <2>2, <2>3, <2>4 DEF TypeOK, Reply, mainVars, logVars, ruleVars
<1>20. ASSUME NEW c \in Conn, Dial(c) PROVE TypeOK'
  <2>1. wg' \in Nat
    BY <1>20, Counted DEF TypeOK, Dial, End
  <2>2. st' \in [Conn -> LiveStates \cup {"none", "queued", "accepted", "reset", "done"}]
    BY <1>20 DEF TypeOK, Dial, End, Goto, LiveStates
  <2>3. mine' \in [Conn -> SUBSET {"client", "server"}]
    <3>1. PICK held \in SUBSET {"client", "server"} : mine' = [mine EXCEPT ![c] = held]
      BY <1>20 DEF Dial, End
    <3> QED BY <3>1 DEF TypeOK
  <2>4. /\ server' \in [Conn -> {"none", "open", "closed"}]
        /\ up' \in [Conn -> {"none", "read", "write", "done"}]
        /\ down' \in [Conn -> {"none", "read", "write", "done"}]
    <3>1. server' \in [Conn -> {"none", "open", "closed"}]
      <4>1. server' = [server EXCEPT ![c] = "open"] \/ server' = server
        BY <1>20 DEF Dial
      <4> QED BY <4>1 DEF TypeOK
    <3>2. up' \in [Conn -> {"none", "read", "write", "done"}]
      <4>1. up' = [up EXCEPT ![c] = "read"] \/ up' = up
        BY <1>20 DEF Dial
      <4> QED BY <4>1 DEF TypeOK
    <3>3. down' \in [Conn -> {"none", "read", "write", "done"}]
      <4>1. down' = [down EXCEPT ![c] = "read"] \/ down' = down
        BY <1>20 DEF Dial
      <4> QED BY <4>1 DEF TypeOK
    <3> QED BY <3>1, <3>2, <3>3
  <2> QED BY <1>20, <2>1, <2>2, <2>3, <2>4 DEF TypeOK, Dial, mainVars, logVars, ruleVars
<1>21. ASSUME NEW c \in Conn, PushPeek(c) PROVE TypeOK'
  <2>1. wg' \in Nat
    BY <1>21, Counted DEF TypeOK, PushPeek, End
  <2>2. st' \in [Conn -> LiveStates \cup {"none", "queued", "accepted", "reset", "done"}]
    BY <1>21 DEF TypeOK, PushPeek, End, Goto, LiveStates
  <2>3. mine' \in [Conn -> SUBSET {"client", "server"}]
    BY <1>21 DEF TypeOK, PushPeek, End
  <2>4. /\ up' \in [Conn -> {"none", "read", "write", "done"}]
        /\ down' \in [Conn -> {"none", "read", "write", "done"}]
    <3>1. up' \in [Conn -> {"none", "read", "write", "done"}]
      <4>1. up' = [up EXCEPT ![c] = "read"] \/ up' = up
        BY <1>21 DEF PushPeek
      <4> QED BY <4>1 DEF TypeOK
    <3>2. down' \in [Conn -> {"none", "read", "write", "done"}]
      <4>1. down' = [down EXCEPT ![c] = "read"] \/ down' = down
        BY <1>21 DEF PushPeek
      <4> QED BY <4>1 DEF TypeOK
    <3> QED BY <3>1, <3>2
  <2> QED BY <1>21, <2>1, <2>2, <2>3, <2>4 DEF TypeOK, PushPeek, mainVars, logVars, ruleVars
<1>22. ASSUME NEW c \in Conn, UpEnds(c) PROVE TypeOK'
  BY <1>22 DEF TypeOK, UpEnds, mainVars, logVars, ruleVars
<1>23. ASSUME NEW c \in Conn, DownEnds(c) PROVE TypeOK'
  BY <1>23 DEF TypeOK, DownEnds, mainVars, logVars, ruleVars
<1>24. ASSUME NEW c \in Conn, RelayEnds(c) PROVE TypeOK'
  BY <1>24, Counted DEF TypeOK, LiveStates, RelayEnds, End, Goto, mainVars, logVars, ruleVars
<1>25. ASSUME NEW c \in Conn, HandleControl(c) PROVE TypeOK'
  BY <1>25 DEF TypeOK, HandleControl, mainVars, logVars, connVars
<1>26. ASSUME NEW c \in Conn, ControlEnds(c) PROVE TypeOK'
  BY <1>26, Counted DEF TypeOK, LiveStates, ControlEnds, End, Goto, mainVars, logVars, ruleVars
<1>27. ASSUME NEW c \in Conn, Connect(c) PROVE TypeOK'
  BY <1>27 DEF TypeOK, LiveStates, Connect, Goto, mainVars, logVars, ruleVars, tunnelVars
<1>28. ASSUME NEW c \in Conn, SendFirst(c) PROVE TypeOK'
  BY <1>28 DEF TypeOK, SendFirst, mainVars, logVars, ruleVars, tunnelVars
<1>29. ASSUME NEW c \in Conn, CloseClient(c) PROVE TypeOK'
  BY <1>29 DEF TypeOK, CloseClient, mainVars, logVars, ruleVars, tunnelVars
<1>30. ASSUME NEW c \in Conn, CloseServer(c) PROVE TypeOK'
  BY <1>30 DEF TypeOK, CloseServer, mainVars, logVars, ruleVars
<1>31. ASSUME NEW c \in Conn, UpArrives(c) PROVE TypeOK'
  BY <1>31 DEF TypeOK, UpArrives, mainVars, logVars, ruleVars
<1>32. ASSUME NEW c \in Conn, UpTaken(c) PROVE TypeOK'
  BY <1>32 DEF TypeOK, UpTaken, mainVars, logVars, ruleVars
<1>33. ASSUME NEW c \in Conn, DownArrives(c) PROVE TypeOK'
  BY <1>33 DEF TypeOK, DownArrives, mainVars, logVars, ruleVars
<1>34. ASSUME NEW c \in Conn, DownTaken(c) PROVE TypeOK'
  BY <1>34 DEF TypeOK, DownTaken, mainVars, logVars, ruleVars
<1> QED BY <1>1, <1>2, <1>3, <1>4, <1>5, <1>6, <1>7, <1>8, <1>9, <1>10, <1>11, <1>12, <1>13, <1>14, <1>15, <1>16, <1>17, <1>18, <1>19, <1>20, <1>21, <1>22, <1>23, <1>24, <1>25, <1>26, <1>27, <1>28, <1>29, <1>30, <1>31, <1>32, <1>33, <1>34, <1>35, <1>36
        DEF Next, MainStep, HandlerStep, Clients

(***************************************************************************)
(* The wait group and the phases of the server.                            *)
(***************************************************************************)
phaseVars == <<main, stopCh, open, loops, meta, logFile>>

\* A step that starts and ends no goroutine and is none of the main goroutine.
LEMMA StayCounts ==
    ASSUME StopQuiesces, PhaseInv, Live' = Live, wg' = wg, UNCHANGED phaseVars
    PROVE  StopQuiesces' /\ PhaseInv'
BY DEF StopQuiesces, PhaseInv, phaseVars

\* A handler returns.
LEMMA EndCounts ==
    ASSUME TypeOK, StopQuiesces, PhaseInv, NEW c \in Conn, st[c] \in LiveStates,
           End(c), UNCHANGED phaseVars
    PROVE  StopQuiesces' /\ PhaseInv'
<1>1. Live' = Live \ {c} /\ Cardinality(Live') = Cardinality(Live) - 1
  BY OneLess DEF End, Goto
<1>2. wg' = wg - 1
  BY DEF End
<1> QED BY <1>1, <1>2, CountedSets DEF StopQuiesces, PhaseInv, phaseVars, TypeOK

\* Every step keeps the count and the phases.
LEMMA StepCounts ==
    ASSUME TypeOK, TypeOK', StopQuiesces, PhaseInv, AcceptInv, Next
    PROVE  StopQuiesces' /\ PhaseInv'
<1>1. ASSUME OpenLog PROVE StopQuiesces' /\ PhaseInv'
  <2>1. Live' = Live /\ wg' = wg /\ loops' = loops
    BY <1>1 DEF Live, OpenLog, connVars
  <2> QED BY <1>1, <2>1 DEF StopQuiesces, PhaseInv, TypeOK, Mains, OpenLog
<1>2. ASSUME ListenProxy PROVE StopQuiesces' /\ PhaseInv'
  <2>1. Live' = Live /\ wg' = wg /\ loops' = loops
    BY <1>2 DEF Live, ListenProxy, connVars
  <2> QED BY <1>2, <2>1 DEF StopQuiesces, PhaseInv, TypeOK, Mains, ListenProxy, logVars
<1>3. ASSUME SetMeta PROVE StopQuiesces' /\ PhaseInv'
  <2>1. Live' = Live /\ wg' = wg /\ loops' = loops
    BY <1>3 DEF Live, SetMeta, connVars
  <2> QED BY <1>3, <2>1 DEF StopQuiesces, PhaseInv, TypeOK, Mains, SetMeta, logVars
<1>4. ASSUME CommandExits PROVE StopQuiesces' /\ PhaseInv'
  <2>1. Live' = Live /\ wg' = wg /\ loops' = loops
    BY <1>4 DEF Live, CommandExits, connVars
  <2> QED BY <1>4, <2>1 DEF StopQuiesces, PhaseInv, TypeOK, Mains, CommandExits, logVars
<1>5. ASSUME CloseStopCh PROVE StopQuiesces' /\ PhaseInv'
  <2>1. Live' = Live /\ wg' = wg /\ loops' = loops
    BY <1>5 DEF Live, CloseStopCh, connVars
  <2> QED BY <1>5, <2>1 DEF StopQuiesces, PhaseInv, TypeOK, Mains, CloseStopCh, logVars
<1>6. ASSUME CloseLog PROVE StopQuiesces' /\ PhaseInv'
  <2>1. Live' = Live /\ wg' = wg /\ loops' = loops
    BY <1>6 DEF Live, CloseLog, connVars
  <2> QED BY <1>6, <2>1 DEF StopQuiesces, PhaseInv, TypeOK, Mains, CloseLog
<1>7. ASSUME StartFails PROVE StopQuiesces' /\ PhaseInv'
  <2>1. Live' = Live /\ wg' = wg /\ loops' = loops
    BY <1>7, SameLive DEF StartFails, Reset, LiveStates, TypeOK
  <2> QED BY <1>7, <2>1 DEF StopQuiesces, PhaseInv, StartFails, logVars
<1>8. ASSUME Wait PROVE StopQuiesces' /\ PhaseInv'
  <2>1. Live' = Live /\ wg' = wg /\ loops' = loops
    BY <1>8 DEF Live, Wait, connVars
  <2>2. Live = {} /\ loops = {}
    BY <1>8, CountedSets, FS_EmptySet DEF Wait, StopQuiesces
  <2> QED BY <1>8, <2>1, <2>2 DEF StopQuiesces, PhaseInv, Wait, logVars
<1>9. ASSUME ListenControl PROVE StopQuiesces' /\ PhaseInv'
  <2>1. Live' = Live
    BY <1>9 DEF Live, ListenControl, connVars
  <2>2. "control" \notin loops
    BY <1>9 DEF PhaseInv, ListenControl
  <2>3. Cardinality(loops') = Cardinality(loops) + 1
    BY <1>9, <2>2, CountedSets, FS_AddElement DEF ListenControl
  <2> QED BY <1>9, <2>1, <2>2, <2>3, CountedSets DEF StopQuiesces, PhaseInv, ListenControl, logVars, TypeOK
<1>10. ASSUME ServeProxy PROVE StopQuiesces' /\ PhaseInv'
  <2>1. Live' = Live
    BY <1>10 DEF Live, ServeProxy, connVars
  <2>2. "proxy" \notin loops
    BY <1>10 DEF PhaseInv, ServeProxy
  <2>3. Cardinality(loops') = Cardinality(loops) + 1
    BY <1>10, <2>2, CountedSets, FS_AddElement DEF ServeProxy
  <2> QED BY <1>10, <2>1, <2>2, <2>3, CountedSets DEF StopQuiesces, PhaseInv, ServeProxy, logVars, TypeOK
<1>11. ASSUME AddProxySock PROVE StopQuiesces' /\ PhaseInv'
  <2>1. Live' = Live
    BY <1>11 DEF Live, AddProxySock, connVars
  <2>2. CASE UNCHANGED <<wg, loops, open>>
    BY <1>11, <2>1, <2>2 DEF StopQuiesces, PhaseInv, AddProxySock, logVars
  <2>3. CASE wg' = wg + 1 /\ loops' = loops \cup {"proxySock"} /\ main' = "running"
    <3>1. Cardinality(loops') = Cardinality(loops) + 1
      BY <1>11, <2>3, CountedSets, FS_AddElement DEF PhaseInv, AddProxySock
    <3> QED BY <1>11, <2>1, <2>3, <3>1, CountedSets DEF StopQuiesces, PhaseInv, AddProxySock, logVars, TypeOK
  <2> QED BY <1>11, <2>2, <2>3 DEF AddProxySock
<1>12. ASSUME NEW l \in Listener, CloseListener(l) PROVE StopQuiesces' /\ PhaseInv'
  <2>1. Live' = Live /\ wg' = wg /\ loops' = loops
    BY <1>12, SameLive DEF CloseListener, Reset, LiveStates, TypeOK
  <2> QED BY <1>12, <2>1 DEF StopQuiesces, PhaseInv, CloseListener, logVars
<1>13. ASSUME NEW l \in Listener, LoopExit(l) PROVE StopQuiesces' /\ PhaseInv'
  <2>1. Live' = Live
    BY <1>13 DEF Live, LoopExit, connVars
  <2>2. Cardinality(loops') = Cardinality(loops) - 1
    BY <1>13, CountedSets, FS_RemoveElement DEF LoopExit
  <2> QED BY <1>13, <2>1, <2>2, CountedSets DEF StopQuiesces, PhaseInv, LoopExit, logVars, TypeOK
<1>14. ASSUME NEW c \in Conn, Spawn(c) PROVE StopQuiesces' /\ PhaseInv'
  <2>1. Live' = Live \cup {c} /\ Cardinality(Live') = Cardinality(Live) + 1
    <3>1. PICK s \in {"control", "reading"} : st' = [st EXCEPT ![c] = s]
      BY <1>14 DEF Spawn
    <3> QED BY <1>14, <3>1, OneMore DEF Spawn, LiveStates
  <2>2. loops # {} /\ wg' = wg + 1
    BY <1>14 DEF AcceptInv, Spawn
  <2>3. main \in {"serveProxy", "setMeta", "addSock", "running", "stop", "closeListeners"}
    <3>1. loops # {} => main \notin {"closeLog", "stopped"}
      BY DEF StopQuiesces
    <3> QED BY <2>2, <3>1 DEF PhaseInv, TypeOK, Mains
  <2>4. /\ UNCHANGED <<main, stopCh, open, loops, meta, logFile>> /\ logFile = "open"
        /\ wg' = Cardinality(loops') + Cardinality(Live')
    BY <1>14, <2>1, <2>2, <2>3, CountedSets
    DEF StopQuiesces, PhaseInv, Spawn, mainVars, logVars, TypeOK
  <2> QED BY <2>2, <2>3, <2>4 DEF StopQuiesces, PhaseInv
<1>15. ASSUME NEW c \in Conn, RelayEnds(c) PROVE StopQuiesces' /\ PhaseInv'
  <2>1. st[c] \in LiveStates /\ End(c) /\ UNCHANGED phaseVars
    BY <1>15 DEF RelayEnds, LiveStates, mainVars, logVars, phaseVars
  <2> QED BY <2>1, EndCounts
<1>16. ASSUME NEW c \in Conn, ControlEnds(c) PROVE StopQuiesces' /\ PhaseInv'
  <2>1. st[c] \in LiveStates /\ End(c) /\ UNCHANGED phaseVars
    BY <1>16 DEF ControlEnds, LiveStates, mainVars, logVars, phaseVars
  <2> QED BY <2>1, EndCounts
<1>17. ASSUME NEW c \in Conn, ReadFirst(c) PROVE StopQuiesces' /\ PhaseInv'
  <2>1. st[c] \in LiveStates /\ UNCHANGED phaseVars
    BY <1>17 DEF ReadFirst, LiveStates, mainVars, logVars, phaseVars
  <2>2. CASE End(c)
    BY <2>1, <2>2, EndCounts
  <2>3. CASE wg' = wg /\ \E s \in LiveStates : Goto(c, s)
    <3>1. Live' = Live
      BY <2>1, <2>3, SameLive DEF Goto, TypeOK
    <3> QED BY <2>1, <2>3, <3>1, StayCounts
  <2> QED BY <1>17, <2>2, <2>3 DEF ReadFirst, LiveStates
<1>18. ASSUME NEW c \in Conn, Log(c) PROVE StopQuiesces' /\ PhaseInv'
  <2>1. st[c] \in LiveStates /\ UNCHANGED phaseVars
    BY <1>18 DEF Log, LiveStates, mainVars, phaseVars
  <2>2. CASE End(c)
    BY <2>1, <2>2, EndCounts
  <2>3. CASE wg' = wg /\ \E s \in LiveStates : Goto(c, s)
    <3>1. Live' = Live
      BY <2>1, <2>3, SameLive DEF Goto, TypeOK
    <3> QED BY <2>1, <2>3, <3>1, StayCounts
  <2> QED BY <1>18, <2>2, <2>3 DEF Log, LogReturns, LiveStates
<1>35. ASSUME NEW c \in Conn, LogNewline(c) PROVE StopQuiesces' /\ PhaseInv'
  <2>1. st[c] \in LiveStates /\ UNCHANGED phaseVars
    BY <1>35 DEF LogNewline, LiveStates, mainVars, phaseVars
  <2>2. CASE End(c)
    BY <2>1, <2>2, EndCounts
  <2>3. CASE wg' = wg /\ \E s \in LiveStates : Goto(c, s)
    <3>1. Live' = Live
      BY <2>1, <2>3, SameLive DEF Goto, TypeOK
    <3> QED BY <2>1, <2>3, <3>1, StayCounts
  <2> QED BY <1>35, <2>2, <2>3 DEF LogNewline, LogReturns, LiveStates
<1>36. ASSUME NEW c \in Conn, Accept(c) PROVE StopQuiesces' /\ PhaseInv'
  <2>1. Live' = Live /\ wg' = wg /\ UNCHANGED phaseVars
    BY <1>36, SameLive DEF Accept, LiveStates, TypeOK, mainVars, logVars, phaseVars
  <2> QED BY <2>1, StayCounts
<1>19. ASSUME NEW c \in Conn, Reply(c) PROVE StopQuiesces' /\ PhaseInv'
  <2>1. st[c] \in LiveStates /\ UNCHANGED phaseVars
    BY <1>19 DEF Reply, LiveStates, mainVars, logVars, phaseVars
  <2>2. CASE End(c)
    BY <2>1, <2>2, EndCounts
  <2>3. CASE wg' = wg /\ \E s \in LiveStates : Goto(c, s)
    <3>1. Live' = Live
      BY <2>1, <2>3, SameLive DEF Goto, TypeOK
    <3> QED BY <2>1, <2>3, <3>1, StayCounts
  <2> QED BY <1>19, <2>2, <2>3 DEF Reply, LiveStates
<1>20. ASSUME NEW c \in Conn, Dial(c) PROVE StopQuiesces' /\ PhaseInv'
  <2>1. st[c] \in LiveStates /\ UNCHANGED phaseVars
    BY <1>20 DEF Dial, LiveStates, mainVars, logVars, phaseVars
  <2>2. CASE End(c)
    BY <2>1, <2>2, EndCounts
  <2>3. CASE wg' = wg /\ \E s \in LiveStates : Goto(c, s)
    <3>1. Live' = Live
      BY <2>1, <2>3, SameLive DEF Goto, TypeOK
    <3> QED BY <2>1, <2>3, <3>1, StayCounts
  <2> QED BY <1>20, <2>2, <2>3 DEF Dial, LiveStates
<1>21. ASSUME NEW c \in Conn, PushPeek(c) PROVE StopQuiesces' /\ PhaseInv'
  <2>1. st[c] \in LiveStates /\ UNCHANGED phaseVars
    BY <1>21 DEF PushPeek, LiveStates, mainVars, logVars, phaseVars
  <2>2. CASE End(c)
    BY <2>1, <2>2, EndCounts
  <2>3. CASE wg' = wg /\ \E s \in LiveStates : Goto(c, s)
    <3>1. Live' = Live
      BY <2>1, <2>3, SameLive DEF Goto, TypeOK
    <3> QED BY <2>1, <2>3, <3>1, StayCounts
  <2> QED BY <1>21, <2>2, <2>3 DEF PushPeek, LiveStates
<1>22. ASSUME NEW c \in Conn, Check(c) PROVE StopQuiesces' /\ PhaseInv'
  <2>1. Live' = Live /\ wg' = wg /\ UNCHANGED phaseVars
    BY <1>22, SameLive DEF Check, Goto, LiveStates, TypeOK, mainVars, logVars, phaseVars
  <2> QED BY <2>1, StayCounts
<1>23. ASSUME NEW c \in Conn, Connect(c) PROVE StopQuiesces' /\ PhaseInv'
  <2>1. Live' = Live /\ wg' = wg /\ UNCHANGED phaseVars
    BY <1>23, SameLive DEF Connect, Goto, LiveStates, TypeOK, mainVars, logVars, phaseVars
  <2> QED BY <2>1, StayCounts
<1>24. ASSUME NEW c \in Conn, UpEnds(c) PROVE StopQuiesces' /\ PhaseInv'
  <2>1. Live' = Live /\ wg' = wg /\ UNCHANGED phaseVars
    BY <1>24 DEF Live, UpEnds, mainVars, logVars, phaseVars
  <2> QED BY <2>1, StayCounts
<1>25. ASSUME NEW c \in Conn, DownEnds(c) PROVE StopQuiesces' /\ PhaseInv'
  <2>1. Live' = Live /\ wg' = wg /\ UNCHANGED phaseVars
    BY <1>25 DEF Live, DownEnds, mainVars, logVars, phaseVars
  <2> QED BY <2>1, StayCounts
<1>26. ASSUME NEW c \in Conn, HandleControl(c) PROVE StopQuiesces' /\ PhaseInv'
  <2>1. Live' = Live /\ wg' = wg /\ UNCHANGED phaseVars
    BY <1>26 DEF Live, HandleControl, connVars, mainVars, logVars, phaseVars
  <2> QED BY <2>1, StayCounts
<1>27. ASSUME NEW c \in Conn, SendFirst(c) PROVE StopQuiesces' /\ PhaseInv'
  <2>1. Live' = Live /\ wg' = wg /\ UNCHANGED phaseVars
    BY <1>27 DEF Live, SendFirst, mainVars, logVars, phaseVars
  <2> QED BY <2>1, StayCounts
<1>28. ASSUME NEW c \in Conn, CloseClient(c) PROVE StopQuiesces' /\ PhaseInv'
  <2>1. Live' = Live /\ wg' = wg /\ UNCHANGED phaseVars
    BY <1>28 DEF Live, CloseClient, mainVars, logVars, phaseVars
  <2> QED BY <2>1, StayCounts
<1>29. ASSUME NEW c \in Conn, CloseServer(c) PROVE StopQuiesces' /\ PhaseInv'
  <2>1. Live' = Live /\ wg' = wg /\ UNCHANGED phaseVars
    BY <1>29 DEF Live, CloseServer, mainVars, logVars, phaseVars
  <2> QED BY <2>1, StayCounts
<1>30. ASSUME NEW c \in Conn, UpArrives(c) PROVE StopQuiesces' /\ PhaseInv'
  <2>1. Live' = Live /\ wg' = wg /\ UNCHANGED phaseVars
    BY <1>30 DEF Live, UpArrives, mainVars, logVars, phaseVars
  <2> QED BY <2>1, StayCounts
<1>31. ASSUME NEW c \in Conn, UpTaken(c) PROVE StopQuiesces' /\ PhaseInv'
  <2>1. Live' = Live /\ wg' = wg /\ UNCHANGED phaseVars
    BY <1>31 DEF Live, UpTaken, mainVars, logVars, phaseVars
  <2> QED BY <2>1, StayCounts
<1>32. ASSUME NEW c \in Conn, DownArrives(c) PROVE StopQuiesces' /\ PhaseInv'
  <2>1. Live' = Live /\ wg' = wg /\ UNCHANGED phaseVars
    BY <1>32 DEF Live, DownArrives, mainVars, logVars, phaseVars
  <2> QED BY <2>1, StayCounts
<1>33. ASSUME NEW c \in Conn, DownTaken(c) PROVE StopQuiesces' /\ PhaseInv'
  <2>1. Live' = Live /\ wg' = wg /\ UNCHANGED phaseVars
    BY <1>33 DEF Live, DownTaken, mainVars, logVars, phaseVars
  <2> QED BY <2>1, StayCounts
<1>34. ASSUME Reload PROVE StopQuiesces' /\ PhaseInv'
  <2>1. Live' = Live /\ wg' = wg /\ UNCHANGED phaseVars
    BY <1>34 DEF Live, Reload, connVars, mainVars, logVars, phaseVars
  <2> QED BY <2>1, StayCounts
<1> QED BY <1>1, <1>2, <1>3, <1>4, <1>5, <1>6, <1>7, <1>8, <1>9, <1>10, <1>11, <1>12, <1>13, <1>14, <1>15, <1>16, <1>17, <1>18, <1>19, <1>20, <1>21, <1>22, <1>23, <1>24, <1>25, <1>26, <1>27, <1>28, <1>29, <1>30, <1>31, <1>32, <1>33, <1>34, <1>35, <1>36
        DEF Next, MainStep, HandlerStep, Clients

\* A loop does not end while it holds a connection that it has not counted.
LEMMA StepAccepts ==
    ASSUME TypeOK, AcceptInv, Next
    PROVE  AcceptInv'
<1>1. ASSUME NEW l \in Listener, LoopExit(l) PROVE AcceptInv'
  BY <1>1 DEF AcceptInv, LoopExit, connVars
<1>2. ASSUME NEW c \in Conn, Accept(c) PROVE AcceptInv'
  BY <1>2 DEF TypeOK, AcceptInv, Accept, mainVars
<1>3. ASSUME loops \subseteq loops',
             \A c \in Conn : st'[c] = "accepted" => st[c] = "accepted"
      PROVE  AcceptInv'
  BY <1>3 DEF AcceptInv
<1>4. ASSUME MainStep \/ StartFails \/ CommandExits \/ Reload PROVE AcceptInv'
  <2>1. loops \subseteq loops'
    BY <1>4 DEF MainStep, OpenLog, ListenProxy, ListenControl, ServeProxy, SetMeta,
       AddProxySock, CloseStopCh, Wait, CloseLog, CloseListener, StartFails, CommandExits,
       Reload, mainVars
  <2>2. \A c \in Conn : st'[c] = "accepted" => st[c] = "accepted"
    BY <1>4 DEF MainStep, OpenLog, ListenProxy, ListenControl, ServeProxy, SetMeta,
       AddProxySock, CloseStopCh, Wait, CloseLog, CloseListener, StartFails, CommandExits,
       Reload, Reset, connVars
  <2> QED BY <1>3, <2>1, <2>2
<1>5. ASSUME NEW c \in Conn, HandlerStep(c) \/ Dial(c) PROVE AcceptInv'
  <2>1. loops' = loops
    BY <1>5 DEF HandlerStep, Spawn, ReadFirst, Check, Log, LogNewline, Reply, PushPeek,
       RelayEnds, ControlEnds, Dial, mainVars
  <2>2. \E s \in LiveStates \cup {"done"} : st' = [st EXCEPT ![c] = s]
    BY <1>5 DEF HandlerStep, Spawn, ReadFirst, Check, Log, LogNewline, LogReturns, Reply,
       PushPeek, RelayEnds, ControlEnds, Dial, End, Goto, LiveStates
  <2> QED BY <1>3, <2>1, <2>2 DEF TypeOK, LiveStates
<1>6. ASSUME NEW c \in Conn, UpEnds(c) \/ DownEnds(c) \/ HandleControl(c) \/ Clients(c)
      PROVE  AcceptInv'
  <2>1. loops' = loops
    BY <1>6 DEF UpEnds, DownEnds, HandleControl, Clients, Connect, SendFirst, CloseClient,
       CloseServer, UpArrives, UpTaken, DownArrives, DownTaken, mainVars
  <2>2. st' = st \/ st' = [st EXCEPT ![c] = "queued"]
    BY <1>6 DEF UpEnds, DownEnds, HandleControl, Clients, Connect, SendFirst, CloseClient,
       CloseServer, UpArrives, UpTaken, DownArrives, DownTaken, Goto, connVars
  <2> QED BY <1>3, <2>1, <2>2 DEF TypeOK
<1> QED BY <1>1, <1>2, <1>4, <1>5, <1>6 DEF Next

(***************************************************************************)
(* The audit log.                                                          *)
(***************************************************************************)

\* So does the rest of the invariant: nothing runs, nothing is decided or logged.
THEOREM InitIInv == Init => IInv
<1> SUFFICES ASSUME Init PROVE IInv
  OBVIOUS
<1>1. TypeOK
  BY InitTypes
<1>2. Live = {} /\ loops = {} /\ wg = 0
  BY DEF Init, Live, LiveStates
<1>3. StopQuiesces
  BY <1>2, FS_EmptySet DEF Init, StopQuiesces
<1>4. PhaseInv
  BY <1>2 DEF Init, PhaseInv
<1>5. AcceptInv /\ AuditInv /\ LinesInv
  BY DEF Init, AcceptInv, AuditInv, AuditOf, LinesInv, Undecided, EntriesOf
<1> QED BY <1>1, <1>3, <1>4, <1>5 DEF IInv

\* A connection that a step does not touch, while nothing is logged.
LEMMA Untouched ==
    ASSUME NEW d \in Conn, AuditOf(d), log' = log, unwritten' = unwritten,
           st'[d] = st[d], req'[d] = req[d],
           reason'[d] = reason[d], told'[d] = told[d], server'[d] = server[d]
    PROVE  AuditOf(d)'
BY DEF AuditOf, Undecided, EntriesOf

\* An entry belongs to the connection that wrote it.
LEMMA LogEntries ==
    ASSUME TypeOK, NEW c \in Conn, log' = Append(log, Entry(c))
    PROVE  /\ EntriesOf(c)' = EntriesOf(c) \cup {Len(log) + 1}
           /\ \A d \in Conn \ {c} : EntriesOf(d)' = EntriesOf(d)
           /\ \A i \in DOMAIN log : log'[i] = log[i]
           /\ log'[Len(log) + 1] = Entry(c)
           /\ DOMAIN log' = DOMAIN log \cup {Len(log) + 1}
<1>1. /\ \A i \in DOMAIN log : log'[i] = log[i]
      /\ log'[Len(log) + 1] = Entry(c)
      /\ DOMAIN log' = DOMAIN log \cup {Len(log) + 1}
      /\ Len(log) + 1 \notin DOMAIN log
  BY DEF TypeOK
<1>2. Entry(c).conn = c
  BY DEF Entry
<1> QED BY <1>1, <1>2 DEF EntriesOf

\* Every step keeps the log in line with what was decided and done.
LEMMA StepAudit ==
    ASSUME IInv, TypeOK', Next
    PROVE  AuditInv'
<1> USE DEF IInv
<1>1. ASSUME OpenLog PROVE AuditInv'
  BY <1>1, Untouched DEF AuditInv, OpenLog, connVars
<1>2. ASSUME ListenProxy PROVE AuditInv'
  BY <1>2, Untouched DEF AuditInv, ListenProxy, connVars, logVars
<1>3. ASSUME ListenControl PROVE AuditInv'
  BY <1>3, Untouched DEF AuditInv, ListenControl, connVars, logVars
<1>4. ASSUME ServeProxy PROVE AuditInv'
  BY <1>4, Untouched DEF AuditInv, ServeProxy, connVars, logVars
<1>5. ASSUME SetMeta PROVE AuditInv'
  BY <1>5, Untouched DEF AuditInv, SetMeta, connVars, logVars
<1>6. ASSUME AddProxySock PROVE AuditInv'
  BY <1>6, Untouched DEF AuditInv, AddProxySock, connVars, logVars
<1>7. ASSUME CommandExits PROVE AuditInv'
  BY <1>7, Untouched DEF AuditInv, CommandExits, connVars, logVars
<1>8. ASSUME CloseStopCh PROVE AuditInv'
  BY <1>8, Untouched DEF AuditInv, CloseStopCh, connVars, logVars
<1>9. ASSUME Wait PROVE AuditInv'
  BY <1>9, Untouched DEF AuditInv, Wait, connVars, logVars
<1>10. ASSUME CloseLog PROVE AuditInv'
  BY <1>10, Untouched DEF AuditInv, CloseLog, connVars
<1>11. ASSUME Reload PROVE AuditInv'
  BY <1>11, Untouched DEF AuditInv, Reload, connVars, logVars
<1>12. ASSUME NEW l \in Listener, LoopExit(l) PROVE AuditInv'
  BY <1>12, Untouched DEF AuditInv, LoopExit, connVars, logVars
<1>13. ASSUME StartFails PROVE AuditInv'
  <2>1. ASSUME NEW d \in Conn PROVE AuditOf(d)'
    <3>1. /\ UNCHANGED <<log, unwritten, req, reason, told, server>>
          /\ st'[d] = st[d] \/ (st[d] = "queued" /\ st'[d] = "reset")
      BY <1>13 DEF StartFails, Reset, logVars, tunnelVars
    <3> QED BY <3>1 DEF AuditInv, AuditOf, Undecided, EntriesOf
  <2> QED BY <2>1 DEF AuditInv
<1>14. ASSUME NEW l \in Listener, CloseListener(l) PROVE AuditInv'
  <2>1. ASSUME NEW d \in Conn PROVE AuditOf(d)'
    <3>1. /\ UNCHANGED <<log, unwritten, req, reason, told, server>>
          /\ st'[d] = st[d] \/ (st[d] = "queued" /\ st'[d] = "reset")
      BY <1>14 DEF CloseListener, Reset, logVars, tunnelVars
    <3> QED BY <3>1 DEF AuditInv, AuditOf, Undecided, EntriesOf
  <2> QED BY <2>1 DEF AuditInv
<1>15. ASSUME NEW c \in Conn, UpEnds(c) PROVE AuditInv'
  BY <1>15, Untouched DEF AuditInv, UpEnds, logVars
<1>16. ASSUME NEW c \in Conn, DownEnds(c) PROVE AuditInv'
  BY <1>16, Untouched DEF AuditInv, DownEnds, logVars
<1>17. ASSUME NEW c \in Conn, UpArrives(c) PROVE AuditInv'
  BY <1>17, Untouched DEF AuditInv, UpArrives, logVars
<1>18. ASSUME NEW c \in Conn, UpTaken(c) PROVE AuditInv'
  BY <1>18, Untouched DEF AuditInv, UpTaken, logVars
<1>19. ASSUME NEW c \in Conn, DownArrives(c) PROVE AuditInv'
  BY <1>19, Untouched DEF AuditInv, DownArrives, logVars
<1>20. ASSUME NEW c \in Conn, DownTaken(c) PROVE AuditInv'
  BY <1>20, Untouched DEF AuditInv, DownTaken, logVars
<1>21. ASSUME NEW c \in Conn, HandleControl(c) PROVE AuditInv'
  BY <1>21, Untouched DEF AuditInv, HandleControl, connVars, logVars
<1>22. ASSUME NEW c \in Conn, CloseClient(c) PROVE AuditInv'
  BY <1>22, Untouched DEF AuditInv, CloseClient, logVars, tunnelVars
<1>23. ASSUME NEW c \in Conn, Accept(c) PROVE AuditInv'
  <2>1. ASSUME NEW d \in Conn \ {c} PROVE AuditOf(d)'
    <3>1. /\ UNCHANGED <<log, unwritten>> /\ st'[d] = st[d] /\ req'[d] = req[d]
          /\ reason'[d] = reason[d] /\ told'[d] = told[d] /\ server'[d] = server[d]
      BY <1>23 DEF TypeOK, Accept, End, Goto, logVars
    <3> QED BY <3>1, Untouched DEF AuditInv
  <2>2. AuditOf(c)'
    BY <1>23 DEF TypeOK, AuditInv, AuditOf, Undecided, EntriesOf, Accept, logVars
  <2> QED BY <2>1, <2>2 DEF AuditInv
<1>24. ASSUME NEW c \in Conn, ReadFirst(c) PROVE AuditInv'
  <2>1. ASSUME NEW d \in Conn \ {c} PROVE AuditOf(d)'
    <3>1. /\ UNCHANGED <<log, unwritten>> /\ st'[d] = st[d] /\ req'[d] = req[d]
          /\ reason'[d] = reason[d] /\ told'[d] = told[d] /\ server'[d] = server[d]
      BY <1>24 DEF TypeOK, ReadFirst, End, Goto, logVars
    <3> QED BY <3>1, Untouched DEF AuditInv
  <2>2. AuditOf(c)'
    BY <1>24 DEF TypeOK, AuditInv, AuditOf, Undecided, EntriesOf, ReadFirst, End, Goto, FirstRead, Invalid, Unknown, Refusals, logVars
  <2> QED BY <2>1, <2>2 DEF AuditInv
<1>25. ASSUME NEW c \in Conn, Check(c) PROVE AuditInv'
  <2>1. ASSUME NEW d \in Conn \ {c} PROVE AuditOf(d)'
    <3>1. /\ UNCHANGED <<log, unwritten>> /\ st'[d] = st[d] /\ req'[d] = req[d]
          /\ reason'[d] = reason[d] /\ told'[d] = told[d] /\ server'[d] = server[d]
      BY <1>25 DEF TypeOK, Check, End, Goto, logVars, tunnelVars
    <3> QED BY <3>1, Untouched DEF AuditInv
  <2>2. AuditOf(c)'
    BY <1>25, DecideType DEF TypeOK, AuditInv, AuditOf, Undecided, EntriesOf, Check, Goto, Denials, Reasons, Refusals, logVars, tunnelVars
  <2> QED BY <2>1, <2>2 DEF AuditInv
<1>26. ASSUME NEW c \in Conn, Reply(c) PROVE AuditInv'
  <2>1. ASSUME NEW d \in Conn \ {c} PROVE AuditOf(d)'
    <3>1. /\ UNCHANGED <<log, unwritten>> /\ st'[d] = st[d] /\ req'[d] = req[d]
          /\ reason'[d] = reason[d] /\ told'[d] = told[d] /\ server'[d] = server[d]
      BY <1>26 DEF TypeOK, Reply, End, Goto, logVars
    <3> QED BY <3>1, Untouched DEF AuditInv
  <2>2. AuditOf(c)'
    <3>1. /\ UNCHANGED <<log, unwritten, req, reason, server>>
          /\ told'[c] \in {"none", IF reason[c] = "whitelist" THEN "200" ELSE "403"}
          /\ st[c] = "replying"
          /\ st'[c] \in {"done", IF reason[c] = "whitelist" THEN "dialing" ELSE "done"}
      BY <1>26 DEF TypeOK, Reply, End, Goto, logVars
    <3>2. AuditOf(c) /\ ~Undecided(c) /\ ~Undecided(c)' /\ EntriesOf(c)' = EntriesOf(c)
      BY <3>1 DEF AuditInv, AuditOf, Undecided, EntriesOf, Reasons
    <3> QED BY <3>1, <3>2 DEF AuditOf, Denials
  <2> QED BY <2>1, <2>2 DEF AuditInv
<1>27. ASSUME NEW c \in Conn, Dial(c) PROVE AuditInv'
  <2>1. ASSUME NEW d \in Conn \ {c} PROVE AuditOf(d)'
    <3>1. /\ UNCHANGED <<log, unwritten>> /\ st'[d] = st[d] /\ req'[d] = req[d]
          /\ reason'[d] = reason[d] /\ told'[d] = told[d] /\ server'[d] = server[d]
      BY <1>27 DEF TypeOK, Dial, End, Goto, logVars
    <3> QED BY <3>1, Untouched DEF AuditInv
  <2>2. AuditOf(c)'
    <3>1. /\ UNCHANGED <<log, unwritten, req, reason, told>>
          /\ st[c] = "dialing" /\ st'[c] \in {"relay", "push", "done"}
      BY <1>27 DEF TypeOK, Dial, End, Goto, logVars
    <3>2. AuditOf(c) /\ reason[c] = "whitelist" /\ EntriesOf(c)' = EntriesOf(c)
      BY <3>1 DEF AuditInv, AuditOf, EntriesOf
    <3> QED BY <3>1, <3>2 DEF AuditOf, Undecided, Denials
  <2> QED BY <2>1, <2>2 DEF AuditInv
<1>28. ASSUME NEW c \in Conn, PushPeek(c) PROVE AuditInv'
  <2>1. ASSUME NEW d \in Conn \ {c} PROVE AuditOf(d)'
    <3>1. /\ UNCHANGED <<log, unwritten>> /\ st'[d] = st[d] /\ req'[d] = req[d]
          /\ reason'[d] = reason[d] /\ told'[d] = told[d] /\ server'[d] = server[d]
      BY <1>28 DEF TypeOK, PushPeek, End, Goto, logVars
    <3> QED BY <3>1, Untouched DEF AuditInv
  <2>2. AuditOf(c)'
    <3>1. /\ UNCHANGED <<log, unwritten, req, reason, server>>
          /\ told'[c] = told[c] /\ st[c] = "push"
          /\ st'[c] \in {"relay", "done"}
      BY <1>28 DEF TypeOK, PushPeek, End, Goto, logVars
    <3>2. AuditOf(c) /\ ~Undecided(c) /\ ~Undecided(c)' /\ EntriesOf(c)' = EntriesOf(c)
      BY <3>1 DEF AuditInv, AuditOf, Undecided, EntriesOf
    <3> QED BY <3>1, <3>2 DEF AuditOf, Denials
  <2> QED BY <2>1, <2>2 DEF AuditInv
<1>29. ASSUME NEW c \in Conn, RelayEnds(c) PROVE AuditInv'
  <2>1. ASSUME NEW d \in Conn \ {c} PROVE AuditOf(d)'
    <3>1. /\ UNCHANGED <<log, unwritten>> /\ st'[d] = st[d] /\ req'[d] = req[d]
          /\ reason'[d] = reason[d] /\ told'[d] = told[d] /\ server'[d] = server[d]
      BY <1>29 DEF TypeOK, RelayEnds, End, Goto, logVars
    <3> QED BY <3>1, Untouched DEF AuditInv
  <2>2. AuditOf(c)'
    <3>1. /\ UNCHANGED <<log, unwritten, req, reason, told, server>>
          /\ st[c] = "relay" /\ st'[c] = "done"
      BY <1>29 DEF TypeOK, RelayEnds, End, Goto, logVars
    <3>2. AuditOf(c) /\ ~Undecided(c) /\ ~Undecided(c)' /\ EntriesOf(c)' = EntriesOf(c)
      BY <3>1 DEF AuditInv, AuditOf, Undecided, EntriesOf
    <3> QED BY <3>1, <3>2 DEF AuditOf, Denials
  <2> QED BY <2>1, <2>2 DEF AuditInv
<1>30. ASSUME NEW c \in Conn, ControlEnds(c) PROVE AuditInv'
  <2>1. ASSUME NEW d \in Conn \ {c} PROVE AuditOf(d)'
    <3>1. /\ UNCHANGED <<log, unwritten>> /\ st'[d] = st[d] /\ req'[d] = req[d]
          /\ reason'[d] = reason[d] /\ told'[d] = told[d] /\ server'[d] = server[d]
      BY <1>30 DEF TypeOK, ControlEnds, End, Goto, logVars
    <3> QED BY <3>1, Untouched DEF AuditInv
  <2>2. AuditOf(c)'
    <3>1. /\ UNCHANGED <<log, unwritten, req, reason, told, server>>
          /\ st[c] = "control" /\ st'[c] = "done"
      BY <1>30 DEF TypeOK, ControlEnds, End, Goto, logVars
    <3>2. AuditOf(c) /\ EntriesOf(c)' = EntriesOf(c)
      BY <3>1 DEF AuditInv, AuditOf, Undecided, EntriesOf
    <3> QED BY <3>1, <3>2 DEF AuditOf, Undecided
  <2> QED BY <2>1, <2>2 DEF AuditInv
<1>31. ASSUME NEW c \in Conn, Connect(c) PROVE AuditInv'
  <2>1. ASSUME NEW d \in Conn \ {c} PROVE AuditOf(d)'
    <3>1. /\ UNCHANGED <<log, unwritten>> /\ st'[d] = st[d] /\ req'[d] = req[d]
          /\ reason'[d] = reason[d] /\ told'[d] = told[d] /\ server'[d] = server[d]
      BY <1>31 DEF TypeOK, Connect, End, Goto, logVars, tunnelVars
    <3> QED BY <3>1, Untouched DEF AuditInv
  <2>2. AuditOf(c)'
    BY <1>31 DEF TypeOK, AuditInv, AuditOf, Undecided, EntriesOf, Connect, Goto, logVars, tunnelVars
  <2> QED BY <2>1, <2>2 DEF AuditInv
<1>32. ASSUME NEW c \in Conn, SendFirst(c) PROVE AuditInv'
  <2>1. ASSUME NEW d \in Conn \ {c} PROVE AuditOf(d)'
    <3>1. /\ UNCHANGED <<log, unwritten>> /\ st'[d] = st[d] /\ req'[d] = req[d]
          /\ reason'[d] = reason[d] /\ told'[d] = told[d] /\ server'[d] = server[d]
      BY <1>32 DEF TypeOK, SendFirst, End, Goto, logVars, tunnelVars
    <3> QED BY <3>1, Untouched DEF AuditInv
  <2>2. AuditOf(c)'
    BY <1>32 DEF TypeOK, AuditInv, AuditOf, Undecided, EntriesOf, SendFirst, Invalid, Unknown, logVars, tunnelVars
  <2> QED BY <2>1, <2>2 DEF AuditInv
<1>33. ASSUME NEW c \in Conn, CloseServer(c) PROVE AuditInv'
  <2>1. ASSUME NEW d \in Conn \ {c} PROVE AuditOf(d)'
    <3>1. /\ UNCHANGED <<log, unwritten>> /\ st'[d] = st[d] /\ req'[d] = req[d]
          /\ reason'[d] = reason[d] /\ told'[d] = told[d] /\ server'[d] = server[d]
      BY <1>33 DEF TypeOK, CloseServer, End, Goto, logVars
    <3> QED BY <3>1, Untouched DEF AuditInv
  <2>2. AuditOf(c)'
    BY <1>33 DEF TypeOK, AuditInv, AuditOf, Undecided, EntriesOf, CloseServer, logVars
  <2> QED BY <2>1, <2>2 DEF AuditInv
<1>34. ASSUME NEW c \in Conn, Log(c) PROVE AuditInv'
  <2>1. /\ UNCHANGED <<req, reason, told, server>>
        /\ st[c] = "logging" /\ st'[c] \in {"done", "replying", "newline"}
        /\ st'[c] = "replying" => reason[c] \notin Refusals
        /\ unwritten \subseteq unwritten'
        /\ \A d \in Conn \ {c} :
             st'[d] = st[d] /\ (d \in unwritten' <=> d \in unwritten)
    BY <1>34 DEF TypeOK, Log, LogReturns, End, Goto
  <2>2. AuditOf(c) /\ EntriesOf(c) = {} /\ reason[c] # "none" /\ Undecided(c)
    BY <2>1 DEF AuditInv, AuditOf, Undecided
  <2>3. reason[c] \in Reasons \cup Refusals /\ ~Undecided(c)'
    BY <2>1, <2>2 DEF TypeOK, Undecided
  <2>4. CASE log' = log /\ c \in unwritten'
    <3>1. ASSUME NEW d \in Conn \ {c} PROVE AuditOf(d)'
      BY <2>1, <2>4 DEF AuditInv, AuditOf, Undecided, EntriesOf
    <3>2. EntriesOf(c)' = {}
      BY <2>2, <2>4 DEF EntriesOf
    <3>3. AuditOf(c)'
      BY <2>1, <2>2, <2>3, <2>4, <3>2 DEF AuditOf
    <3> QED BY <3>1, <3>3 DEF AuditInv
  <2>5. CASE log' = Append(log, Entry(c))
    <3>1. ASSUME NEW d \in Conn \ {c} PROVE AuditOf(d)'
      <4>1. EntriesOf(d)' = EntriesOf(d) /\ EntriesOf(d) \subseteq DOMAIN log
        BY <2>5, LogEntries DEF EntriesOf
      <4>2. AuditOf(d) /\ Undecided(d)' = Undecided(d)
        BY <2>1 DEF AuditInv, Undecided
      <4>3. \A i \in EntriesOf(d) : log'[i] = log[i] /\ i \in DOMAIN log'
        BY <2>5, <4>1, LogEntries
      <4>4. EntriesOf(d)' = {} \/ \E i \in DOMAIN log' : EntriesOf(d)' = {i}
        BY <4>1, <4>2, <4>3 DEF AuditOf
      <4> QED BY <2>1, <4>1, <4>2, <4>3, <4>4 DEF AuditOf
    <3>2. EntriesOf(c)' = {Len(log) + 1} /\ Len(log) + 1 \in DOMAIN log'
      BY <2>2, <2>5, LogEntries
    <3>3. log'[Len(log) + 1].reason = reason[c] /\ log'[Len(log) + 1].dest = req[c].dest
      BY <2>5, LogEntries DEF Entry
    <3>4. AuditOf(c)'
      BY <2>1, <2>2, <2>3, <3>2, <3>3 DEF AuditOf
    <3> QED BY <3>1, <3>4 DEF AuditInv
  <2> QED BY <1>34, <2>4, <2>5 DEF Log
<1>35. ASSUME NEW c \in Conn, LogNewline(c) PROVE AuditInv'
  <2>1. /\ UNCHANGED <<req, reason, told, server>>
        /\ st[c] = "newline" /\ st'[c] \in {"done", "replying"}
        /\ st'[c] = "replying" => reason[c] \notin Refusals
        /\ unwritten \subseteq unwritten'
        /\ \A d \in Conn \ {c} : st'[d] = st[d]
    BY <1>35 DEF TypeOK, LogNewline, LogReturns, End, Goto
  <2>2. /\ DOMAIN log' = DOMAIN log
        /\ \A i \in DOMAIN log : /\ log'[i].conn = log[i].conn
                                /\ log'[i].reason = log[i].reason
                                /\ log'[i].dest = log[i].dest
    BY <1>35, LineEnded DEF LogNewline, TypeOK
  <2>3. \A d \in Conn : EntriesOf(d)' = EntriesOf(d)
    BY <2>2 DEF EntriesOf
  <2>4. ASSUME NEW d \in Conn \ {c} PROVE AuditOf(d)'
    <3>1. AuditOf(d) /\ Undecided(d)' = Undecided(d)
      BY <2>1 DEF AuditInv, Undecided
    <3> QED BY <2>1, <2>2, <2>3, <3>1 DEF AuditOf, EntriesOf
  <2>5. AuditOf(c)'
    <3>1. AuditOf(c) /\ ~Undecided(c) /\ ~Undecided(c)' /\ reason[c] # "none"
      BY <2>1 DEF AuditInv, AuditOf, Undecided
    <3>2. reason[c] \in Reasons \cup Refusals
      BY <3>1 DEF TypeOK
    <3> QED BY <2>1, <2>2, <2>3, <3>1, <3>2 DEF AuditOf, EntriesOf
  <2> QED BY <2>4, <2>5 DEF AuditInv
<1>36. ASSUME NEW c \in Conn, Spawn(c) PROVE AuditInv'
  <2>1. ASSUME NEW d \in Conn \ {c} PROVE AuditOf(d)'
    <3>1. /\ UNCHANGED <<log, unwritten>> /\ st'[d] = st[d] /\ req'[d] = req[d]
          /\ reason'[d] = reason[d] /\ told'[d] = told[d] /\ server'[d] = server[d]
      BY <1>36 DEF TypeOK, Spawn, logVars, tunnelVars
    <3> QED BY <3>1, Untouched DEF AuditInv
  <2>2. AuditOf(c)'
    BY <1>36 DEF TypeOK, AuditInv, AuditOf, Undecided, EntriesOf, Spawn, logVars, tunnelVars
  <2> QED BY <2>1, <2>2 DEF AuditInv
<1> QED BY <1>1, <1>2, <1>3, <1>4, <1>5, <1>6, <1>7, <1>8, <1>9, <1>10, <1>11, <1>12, <1>13, <1>14, <1>15, <1>16, <1>17, <1>18, <1>19, <1>20, <1>21, <1>22, <1>23, <1>24, <1>25, <1>26, <1>27, <1>28, <1>29, <1>30, <1>31, <1>32, <1>33, <1>34, <1>35, <1>36
        DEF Next, MainStep, HandlerStep, Clients

\* A step that neither writes to the log nor enters or leaves logDecision.
LEMMA SameLines ==
    ASSUME LinesInv, UNCHANGED <<log, unwritten>>,
           \A c \in Conn : st'[c] = "newline" <=> st[c] = "newline",
           \A i \in DOMAIN log : log[i].conn \in Conn
    PROVE  LinesInv'
BY DEF LinesInv

\* logMu: the last entry alone may still wait for its newline.
LEMMA StepLines ==
    ASSUME TypeOK, TypeOK', LinesInv, Next
    PROVE  LinesInv'
<1>0. \A i \in DOMAIN log : log[i].conn \in Conn
  <2>1. log \in Seq(EntryType)
    BY DEF TypeOK
  <2>2. \A i \in DOMAIN log : log[i] \in EntryType
    BY <2>1
  <2> QED BY <2>2 DEF EntryType
<1>1. ASSUME MainStep \/ StartFails \/ CommandExits \/ Reload \/ \E l \in Listener : LoopExit(l)
      PROVE  LinesInv'
  <2>1. UNCHANGED <<log, unwritten>>
    BY <1>1 DEF MainStep, OpenLog, ListenProxy, ListenControl, ServeProxy, SetMeta,
       AddProxySock, CloseStopCh, Wait, CloseLog, CloseListener, StartFails, CommandExits,
       Reload, LoopExit, logVars
  <2>2. \A c \in Conn : st'[c] = "newline" <=> st[c] = "newline"
    BY <1>1 DEF MainStep, OpenLog, ListenProxy, ListenControl, ServeProxy, SetMeta,
       AddProxySock, CloseStopCh, Wait, CloseLog, CloseListener, StartFails, CommandExits,
       Reload, LoopExit, Reset, connVars
  <2> QED BY <1>0, <2>1, <2>2, SameLines
<1>2. ASSUME NEW c \in Conn,
             \/ Accept(c) \/ Spawn(c) \/ ReadFirst(c) \/ Check(c) \/ Reply(c) \/ PushPeek(c)
             \/ RelayEnds(c) \/ ControlEnds(c) \/ Dial(c)
      PROVE  LinesInv'
  <2>1. UNCHANGED <<log, unwritten>>
    BY <1>2 DEF Accept, Spawn, ReadFirst, Check, Reply, PushPeek, RelayEnds, ControlEnds,
       Dial, logVars
  <2>2. /\ st[c] # "newline"
        /\ \E s \in {"accepted", "control", "reading", "checking", "logging", "dialing",
                    "push", "relay", "done"} : st' = [st EXCEPT ![c] = s]
    BY <1>2 DEF Accept, Spawn, ReadFirst, Check, Reply, PushPeek, RelayEnds, ControlEnds,
       Dial, End, Goto
  <2> QED BY <1>0, <2>1, <2>2, SameLines DEF TypeOK
<1>3. ASSUME NEW c \in Conn, UpEnds(c) \/ DownEnds(c) \/ HandleControl(c) \/ Clients(c)
      PROVE  LinesInv'
  <2>1. UNCHANGED <<log, unwritten>>
    BY <1>3 DEF UpEnds, DownEnds, HandleControl, Clients, Connect, SendFirst, CloseClient,
       CloseServer, UpArrives, UpTaken, DownArrives, DownTaken, logVars
  <2>2. st' = st \/ (st[c] = "none" /\ st' = [st EXCEPT ![c] = "queued"])
    BY <1>3 DEF UpEnds, DownEnds, HandleControl, Clients, Connect, SendFirst, CloseClient,
       CloseServer, UpArrives, UpTaken, DownArrives, DownTaken, Goto, connVars
  <2> QED BY <1>0, <2>1, <2>2, SameLines DEF TypeOK
<1>4. ASSUME NEW c \in Conn, Log(c) PROVE LinesInv'
  <2>1. st[c] = "logging" /\ \A d \in Conn \ {c} : st'[d] = st[d]
    BY <1>4 DEF TypeOK, Log, LogReturns, End, Goto
  <2>2. \A d, e \in Conn : st'[d] = "newline" /\ st'[e] = "newline" => d = e
    <3>1. CASE st'[c] # "newline"
      BY <2>1, <3>1 DEF LinesInv
    <3>2. CASE \A d \in Conn : st[d] # "newline"
      BY <2>1, <3>2
    <3>3. st'[c] # "newline" \/ \A d \in Conn : st[d] # "newline"
      BY <1>4 DEF TypeOK, Log, LogReturns, End, Goto
    <3> QED BY <3>1, <3>2, <3>3
  <2>3. CASE log' = log /\ unwritten \subseteq unwritten'
    BY <1>0, <2>1, <2>2, <2>3 DEF LinesInv
  <2>4. CASE /\ log' = Append(log, Entry(c)) /\ unwritten' = unwritten
             /\ \A d \in Conn : st[d] # "newline"
             /\ st' = [st EXCEPT ![c] = "newline"]
    <3>1. \A i \in DOMAIN log : log'[i] = log[i] /\ (log[i].ended \/ log[i].conn \in unwritten)
      BY <1>0, <2>4, LogEntries DEF LinesInv
    <3>2. /\ DOMAIN log' = DOMAIN log \cup {Len(log) + 1} /\ Len(log') = Len(log) + 1
          /\ log'[Len(log) + 1].conn = c /\ st'[c] = "newline"
      BY <2>4, LogEntries DEF Entry, TypeOK
    <3> QED BY <2>2, <2>4, <3>1, <3>2 DEF LinesInv
  <2> QED BY <1>4, <2>3, <2>4 DEF Log, Goto
<1>5. ASSUME NEW c \in Conn, LogNewline(c) PROVE LinesInv'
  <2>1. /\ st[c] = "newline" /\ st'[c] # "newline"
        /\ \A d \in Conn \ {c} : st'[d] = st[d]
    BY <1>5 DEF TypeOK, LogNewline, LogReturns, End, Goto
  <2>2. \A d \in Conn : st'[d] # "newline"
    BY <2>1 DEF LinesInv
  <2>3. CASE log' = log /\ unwritten' = unwritten \cup {c}
    <3>1. \A i \in DOMAIN log : log[i].ended \/ log[i].conn \in unwritten'
      BY <1>0, <2>1, <2>3 DEF LinesInv
    <3> QED BY <2>2, <2>3, <3>1 DEF LinesInv
  <2>4. CASE log = <<>> /\ log' = log
    BY <2>2, <2>4 DEF LinesInv
  <2>5. CASE /\ log # <<>> /\ log' = [log EXCEPT ![Len(log)].ended = TRUE]
             /\ unwritten' = unwritten
    <3>1. /\ DOMAIN log' = DOMAIN log /\ Len(log') = Len(log)
          /\ \A i \in DOMAIN log :
               /\ log'[i].conn = log[i].conn
               /\ log'[i].ended = IF i = Len(log) THEN TRUE ELSE log[i].ended
      BY <2>5, LineEnded DEF TypeOK
    <3> QED BY <2>2, <2>5, <3>1 DEF LinesInv
  <2> QED BY <1>5, <2>3, <2>4, <2>5 DEF LogNewline
<1> QED BY <1>1, <1>2, <1>3, <1>4, <1>5 DEF Next, HandlerStep

\* What the invariant says of the log is what Audited says.
LEMMA AuditCounts == IInv => Audited
<1> SUFFICES ASSUME IInv PROVE Audited
  OBVIOUS
<1>1. ASSUME NEW c \in Conn
      PROVE  /\ Cardinality(EntriesOf(c)) \in
                  IF Undecided(c) THEN {0} ELSE IF c \in unwritten THEN {0, 1} ELSE {1}
             /\ \A i \in EntriesOf(c) : log[i].reason = reason[c] /\ log[i].dest = req[c].dest
             /\ told[c] = "200" \/ server[c] # "none" =>
                  reason[c] = "whitelist" /\ (c \in unwritten \/ EntriesOf(c) # {})
             /\ told[c] = "403" =>
                  reason[c] \in Denials /\ (c \in unwritten \/ EntriesOf(c) # {})
  <2>1. AuditOf(c)
    BY DEF IInv, AuditInv
  <2>2. EntriesOf(c) # {} => Cardinality(EntriesOf(c)) = 1
    BY <2>1, FS_Singleton DEF AuditOf
  <2>3. EntriesOf(c) = {} => Cardinality(EntriesOf(c)) = 0
    BY FS_EmptySet
  <2> QED BY <2>1, <2>2, <2>3 DEF AuditOf
<1>2. \A i \in DOMAIN log : i < Len(log) => log[i].ended \/ log[i].conn \in unwritten
  BY DEF IInv, LinesInv, TypeOK
<1> QED BY <1>1, <1>2 DEF Audited

(***************************************************************************)
(* The results.                                                            *)
(***************************************************************************)

\* The inductive invariant holds in every state.
THEOREM AlwaysIInv == Spec => []IInv
<1>1. IInv /\ [Next]_vars => IInv'
  <2>1. ASSUME IInv, Next PROVE IInv'
    BY <2>1, StepTypes, StepCounts, StepAccepts, StepAudit, StepLines DEF IInv
  <2>2. ASSUME IInv, UNCHANGED vars PROVE IInv'
    <3> USE <2>2 DEF vars, mainVars, logVars, ruleVars, connVars
    <3>1. TypeOK'
      BY DEF IInv, TypeOK
    <3>2. StopQuiesces' /\ PhaseInv'
      BY DEF IInv, StopQuiesces, PhaseInv, Live
    <3>3. AcceptInv' /\ AuditInv' /\ LinesInv'
      BY DEF IInv, AcceptInv, AuditInv, AuditOf, LinesInv, Undecided, EntriesOf
    <3> QED BY <3>1, <3>2, <3>3 DEF IInv
  <2> QED BY <2>1, <2>2
<1> QED BY <1>1, InitIInv, PTL DEF Spec

\* Every variable keeps its type; the wait group counter is never negative.
THEOREM TypeCorrect == Spec => []TypeOK
<1>1. IInv => TypeOK
  BY DEF IInv
<1> QED BY <1>1, AlwaysIInv, PTL

\* Stop gets past wg.Wait only when no goroutine of the guardian is left, and no
\* goroutine ever finds the log closed.
THEOREM StopLeavesNothing == Spec => []StopQuiesces
<1>1. IInv => StopQuiesces
  BY DEF IInv
<1> QED BY <1>1, AlwaysIInv, PTL

\* A decision is in the log, once, before it is acted on, unless logging it has failed;
\* and no entry is run into another, unless a write has failed.
THEOREM AuditComplete == Spec => []Audited
<1> QED BY AuditCounts, AlwaysIInv, PTL
===============================================================================
