----------------------------- MODULE TunnelSockets -----------------------------
(***************************************************************************)
(* What the operations of sockets preserve of the connections of Tunnel,   *)
(* whichever hop or end uses them; TunnelProofs applies it to each action. *)
(***************************************************************************)
EXTENDS Tunnel, SequenceTheorems, TLAPS

-------------------------------------------------------------------------------
(* Sequences                                                                  *)

\* What Take leaves in a queue.
LEMMA DropLemma ==
    ASSUME NEW S, NEW q \in Seq(S), NEW k \in 0..Len(q)
    PROVE  /\ SubSeq(q, k + 1, Len(q)) \in Seq(S)
           /\ Len(SubSeq(q, k + 1, Len(q))) = Len(q) - k
           /\ \A i \in 1..(Len(q) - k) : SubSeq(q, k + 1, Len(q))[i] = q[k + i]
<1>1. \A i \in (k + 1)..Len(q) : q[i] \in S
  OBVIOUS
<1>2. Len(q) \in Nat /\ k + 1 \in Int
  OBVIOUS
<1>. QED
  BY <1>1, <1>2, SubSeqProperties

\* What a reset leaves of a queue.
LEMMA BeforeLemma ==
    ASSUME NEW S, NEW q \in Seq(S), NEW p \in Before(q)
    PROVE  /\ p \in Seq(S)
           /\ Len(p) <= Len(q)
           /\ \A i \in 1..Len(p) : p[i] = q[i]
<1>1. PICK k \in 0..Len(q) : p = SubSeq(q, 1, k)
  BY DEF Before
<1>2. \A i \in 1..k : q[i] \in S
  OBVIOUS
<1>3. k \in Int /\ 1 \in Int
  OBVIOUS
<1>. QED
  BY <1>1, <1>2, <1>3, SubSeqProperties

\* What is peeked at.
LEMMA FirstLemma ==
    ASSUME NEW S, NEW q \in Seq(S), NEW k \in 0..Len(q)
    PROVE  /\ SubSeq(q, 1, k) \in Seq(S)
           /\ Len(SubSeq(q, 1, k)) = k
           /\ \A i \in 1..k : SubSeq(q, 1, k)[i] = q[i]
<1>1. \A i \in 1..k : q[i] \in S
  OBVIOUS
<1>2. k \in Int /\ 1 \in Int /\ k \in Nat
  OBVIOUS
<1>. QED
  BY <1>1, <1>2, SubSeqProperties

LEMMA AppendLemma ==
    ASSUME NEW S, NEW q \in Seq(S), NEW x \in S
    PROVE  /\ Append(q, x) \in Seq(S)
           /\ Len(Append(q, x)) = Len(q) + 1
           /\ \A i \in 1..Len(q) : Append(q, x)[i] = q[i]
           /\ Append(q, x)[Len(q) + 1] = x
BY AppendProperties

LEMMA PrefixLemma ==
    ASSUME NEW S, NEW s \in Seq(S), NEW t \in Seq(S)
    PROVE  IsPrefix(s, t) <=> Len(s) <= Len(t) /\ \A i \in 1..Len(s) : s[i] = t[i]
<1>1. SubSeq(s, 1, Len(s)) = s
  BY SubSeqFull
<1>2. CASE Len(s) <= Len(t)
  <2>1. /\ \A i \in 1..Len(s) : t[i] \in S
        /\ Len(s) \in Int /\ 1 \in Int
    BY <1>2
  <2>2. /\ SubSeq(t, 1, Len(s)) \in Seq(S)
        /\ Len(SubSeq(t, 1, Len(s))) = Len(s)
        /\ \A i \in 1..Len(s) : SubSeq(t, 1, Len(s))[i] = t[i]
    BY <2>1, SubSeqProperties
  <2>3. s = SubSeq(t, 1, Len(s)) <=> \A i \in 1..Len(s) : s[i] = t[i]
    BY <2>2, SeqEqual
  <2>. QED
    BY <1>1, <1>2, <2>3 DEF IsPrefix
<1>3. CASE ~(Len(s) <= Len(t))
  BY <1>3 DEF IsPrefix
<1>. QED
  BY <1>2, <1>3

-------------------------------------------------------------------------------
(* The way                                                                    *)

LEMMA GuardianIs == ASSUME shape \in Shapes PROVE Guardian \in {1, 2}
BY DEF Guardian

\* Every socket of the way is one of two of a connection ...
LEMMA PeerLemma ==
    ASSUME shape \in Shapes, NEW s \in Path
    PROVE  /\ s \in Socket
           /\ Peer(s) \in Path /\ Peer(s) # s /\ Peer(Peer(s)) = s
<1>1. CASE Guardian = 1
  BY <1>1 DEF Path, HopSocket, Hop, Of, End, Socket, Node, Peer
<1>2. CASE Guardian = 2
  BY <1>2 DEF Path, HopSocket, Hop, Of, End, Socket, Node, Peer
<1>. QED
  BY <1>1, <1>2, GuardianIs

\* ... and one of two of a hop, or that of an end.
LEMMA HopLemma ==
    ASSUME shape \in Shapes, NEW s \in HopSocket
    PROVE  /\ s \in Path /\ s \in Socket /\ s[1] \in Hop
           /\ Other(s) \in HopSocket /\ Other(s) # s /\ Other(Other(s)) = s
           /\ Other(s)[1] = s[1]
           /\ On(s) \in Path /\ On(s) # s /\ Peer(On(s)) = Other(s) /\ Peer(s) # Other(s)
<1>1. CASE Guardian = 1
  BY <1>1 DEF Path, HopSocket, Hop, Of, End, Socket, Node, Peer, Other, On
<1>2. CASE Guardian = 2
  BY <1>2 DEF Path, HopSocket, Hop, Of, End, Socket, Node, Peer, Other, On
<1>. QED
  BY <1>1, <1>2, GuardianIs

LEMMA NodeLemma ==
    ASSUME shape \in Shapes, NEW n \in Hop
    PROVE  /\ n \in Node
           /\ <<n, "back">> \in HopSocket /\ <<n, "front">> \in HopSocket
           /\ Other(<<n, "back">>) = <<n, "front">> /\ Other(<<n, "front">>) = <<n, "back">>
           /\ Peer(<<n, "front">>) = <<n + 1, "back">>
BY GuardianIs DEF HopSocket, Hop, Node, Other, Peer

LEMMA EndLemma ==
    ASSUME shape \in Shapes, NEW e \in End
    PROVE  Of(e) \in Path /\ Of(e) \in Socket /\ Of(e) \notin HopSocket
BY GuardianIs DEF Path, HopSocket, Hop, Of, End, Socket, Node

-------------------------------------------------------------------------------
(* The operations of sockets, one at a time: what they preserve of the        *)
(* connections, whatever hop uses them.                                       *)

SocketState == {"none", "open", "half", "closed"}

NetOK(st, q, rs, rd, wr) ==
    /\ st \in [Socket -> SocketState] /\ q \in [Socket -> Seq(Piece)]
    /\ rs \subseteq Socket /\ rd \in [Socket -> Nat] /\ wr \in [Socket -> Nat]
    /\ \A s \in Socket : /\ Len(q[s]) <= Capacity
                         /\ st[s] \in {"none", "closed"} => q[s] = <<>>
    /\ \A s \in Path :
          /\ st[s] = "none" => st[Peer(s)] = "none" /\ rd[s] = 0 /\ wr[s] = 0
          /\ s \in HopSocket => st[s] # "half"
          /\ s \in rs => Peer(s) \in rs
          /\ s \in rs /\ st[s] # "closed" =>
               st[Peer(s)] = "closed" /\ rd[Peer(s)] < wr[s]
          /\ rd[s] + Len(q[s]) <= wr[Peer(s)]
          /\ st[s] # "closed" /\ s \notin rs => rd[s] + Len(q[s]) = wr[Peer(s)]
          /\ \A i \in 1..Len(q[s]) : Fits(s, rd[s] + i, q[s][i])

NetInv == NetOK(state, queue, reset, read, written)
NetNext == NetOK(state', queue', reset', read', written')

\* What is closed stays as it is, an end that sends no more sends no more, and what
\* is counted only grows.
Onward ==
    \A t \in Path :
        /\ state[t] = "closed" =>
             state'[t] = "closed" /\ read'[t] = read[t] /\ written'[t] = written[t]
        /\ state[t] = "half" =>
             state'[t] \in {"half", "closed"} /\ written'[t] = written[t]
        /\ state[t] # "none" => state'[t] # "none"
        /\ read[t] <= read'[t] /\ written[t] <= written'[t]

LEMMA CountLemma ==
    ASSUME shape \in Shapes, NetInv, NEW t \in Path
    PROVE  /\ t \in Socket /\ Peer(t) \in Socket /\ Peer(Peer(t)) = t
           /\ state[t] \in SocketState /\ queue[t] \in Seq(Piece)
           /\ read[t] \in Nat /\ written[t] \in Nat /\ written[Peer(t)] \in Nat
           /\ Len(queue[t]) \in Nat
BY PeerLemma DEF NetInv, NetOK

LEMMA TakeNet ==
    ASSUME shape \in Shapes, NetInv, NEW s \in Path, NEW k \in 1..Len(queue[s]), Take(s, k)
    PROVE  NetNext /\ Onward
<1> USE DEF NetInv, NetNext, NetOK, Take
<1>1. s \in Socket /\ Peer(s) # s
  BY PeerLemma
<1>2. /\ queue[s] \in Seq(Piece) /\ k \in 0..Len(queue[s]) /\ k \in Nat /\ Len(queue[s]) \in Nat
  BY <1>1
<1>3. /\ queue'[s] \in Seq(Piece)
      /\ Len(queue'[s]) = Len(queue[s]) - k
      /\ \A i \in 1..Len(queue'[s]) : queue'[s][i] = queue[s][k + i]
  BY <1>1, <1>2, DropLemma
<1>4. /\ \A t \in Socket \ {s} : queue'[t] = queue[t] /\ read'[t] = read[t]
      /\ read'[s] = read[s] + k /\ read[s] \in Nat
      /\ state' = state /\ reset' = reset /\ written' = written
  BY <1>1
<1>5. /\ queue' \in [Socket -> Seq(Piece)] /\ read' \in [Socket -> Nat]
  BY <1>1, <1>2, <1>3
<1>6. state[s] \notin {"none", "closed"}
  BY <1>1, <1>2
<1>7. ASSUME NEW t \in Socket
      PROVE  /\ Len(queue'[t]) <= Capacity
             /\ state'[t] \in {"none", "closed"} => queue'[t] = <<>>
  BY <1>2, <1>3, <1>4, <1>6, <1>7, TunnelAssumption DEF TunnelAssumption
<1>8. ASSUME NEW t \in Path
      PROVE  /\ state'[t] = "none" => /\ state'[Peer(t)] = "none"
                                      /\ read'[t] = 0 /\ written'[t] = 0
             /\ t \in HopSocket => state'[t] # "half"
             /\ t \in reset' => Peer(t) \in reset'
             /\ t \in reset' /\ state'[t] # "closed" =>
                  state'[Peer(t)] = "closed" /\ read'[Peer(t)] < written'[t]
  <2>1. t \in Socket /\ Peer(t) \in Socket
    BY PeerLemma
  <2>2. state[t] = "none" => t # s
    BY <1>6
  <2>3. state[Peer(t)] = "closed" => Peer(t) # s
    BY <1>6
  <2>. QED
    BY <1>4, <2>1, <2>2, <2>3
<1>9. ASSUME NEW t \in Path
      PROVE  /\ read'[t] + Len(queue'[t]) <= written'[Peer(t)]
             /\ state'[t] # "closed" /\ t \notin reset' =>
                  read'[t] + Len(queue'[t]) = written'[Peer(t)]
             /\ \A i \in 1..Len(queue'[t]) : Fits(t, read'[t] + i, queue'[t][i])
  <2>1. t \in Socket /\ Peer(t) \in Socket
    BY PeerLemma
  <2>2. CASE t = s
    <3>1. ASSUME NEW i \in 1..Len(queue'[t])
          PROVE  Fits(t, read'[t] + i, queue'[t][i])
      <4>1. k + i \in 1..Len(queue[s]) /\ read'[t] + i = read[s] + (k + i)
        BY <1>2, <1>3, <1>4, <2>2
      <4>. QED
        BY <1>3, <2>2, <4>1
    <3>2. read'[t] + Len(queue'[t]) = read[t] + Len(queue[t])
      BY <1>2, <1>3, <1>4, <2>2
    <3>. QED
      BY <1>4, <2>1, <3>1, <3>2
  <2>3. CASE t # s
    BY <1>4, <2>1, <2>3
  <2>. QED
    BY <2>2, <2>3
<1>10. Onward
  <2>1. \A t \in Path : t \in Socket /\ read[t] \in Nat /\ written[t] \in Nat
    BY CountLemma
  <2> HIDE DEF NetInv, NetNext, NetOK
  <2>. QED
    BY <1>2, <1>4, <1>6, <2>1 DEF Onward
<1>. QED
  BY <1>4, <1>5, <1>7, <1>8, <1>9, <1>10

LEMMA WriteNet ==
    ASSUME shape \in Shapes, NetInv, NEW s \in Path, state[s] = "open",
           NEW x \in Piece, Write(s, x), Fits(Peer(s), written[s] + 1, x)
    PROVE  NetNext /\ Onward
<1> DEFINE p == Peer(s)
<1> USE DEF NetInv, NetNext, NetOK
<1>1. s \in Socket /\ p \in Path /\ p \in Socket /\ p # s /\ Peer(p) = s
  BY PeerLemma
<1>2. /\ state[s] # "closed" /\ s \notin reset /\ p \notin reset /\ state[p] # "none"
      /\ state[p] = "closed" \/ Len(queue[p]) < Capacity
  BY <1>1 DEF Write, CanWrite, WriteFails
<1>3. /\ queue[s] \in Seq(Piece) /\ queue[p] \in Seq(Piece)
      /\ read[s] \in Nat /\ read[p] \in Nat /\ written[s] \in Nat /\ written[p] \in Nat
      /\ Len(queue[s]) \in Nat /\ Len(queue[p]) \in Nat
  BY <1>1
<1>4. /\ state' = state /\ read' = read
      /\ written' \in [Socket -> Nat] /\ written'[s] = written[s] + 1
      /\ \A t \in Socket \ {s} : written'[t] = written[t]
  BY <1>1 DEF Write
<1>5. ASSUME state[p] # "closed" PROVE NetNext
  <2>1. reset' = reset /\ queue' = [queue EXCEPT ![p] = Append(@, x)]
    BY <1>5 DEF Write
  <2>2. /\ queue'[p] \in Seq(Piece) /\ Len(queue'[p]) = Len(queue[p]) + 1
        /\ \A i \in 1..Len(queue[p]) : queue'[p][i] = queue[p][i]
        /\ queue'[p][Len(queue[p]) + 1] = x
    BY <1>1, <1>3, <2>1, AppendLemma
  <2>3. /\ queue' \in [Socket -> Seq(Piece)]
        /\ \A t \in Socket \ {p} : queue'[t] = queue[t]
    BY <1>1, <2>1, <2>2
  <2>4. ASSUME NEW t \in Socket
        PROVE  /\ Len(queue'[t]) <= Capacity
               /\ state'[t] \in {"none", "closed"} => queue'[t] = <<>>
    <3>1. CASE t = p
      <4>1. Capacity \in Nat
        BY TunnelAssumption DEF TunnelAssumption
      <4>. QED
        BY <1>2, <1>3, <1>4, <1>5, <2>2, <3>1, <4>1
    <3>2. CASE t # p
      BY <1>4, <2>3, <3>2
    <3>. QED
      BY <3>1, <3>2
  <2>5. ASSUME NEW t \in Path
        PROVE  /\ state'[t] = "none" => /\ state'[Peer(t)] = "none"
                                        /\ read'[t] = 0 /\ written'[t] = 0
               /\ t \in HopSocket => state'[t] # "half"
               /\ t \in reset' => Peer(t) \in reset'
               /\ t \in reset' /\ state'[t] # "closed" =>
                    state'[Peer(t)] = "closed" /\ read'[Peer(t)] < written'[t]
    <3>1. t \in Socket /\ Peer(t) \in Socket
      BY PeerLemma
    <3>. QED
      BY <1>2, <1>4, <2>1, <3>1
  <2>6. ASSUME NEW t \in Path
        PROVE  /\ read'[t] + Len(queue'[t]) <= written'[Peer(t)]
               /\ state'[t] # "closed" /\ t \notin reset' =>
                    read'[t] + Len(queue'[t]) = written'[Peer(t)]
               /\ \A i \in 1..Len(queue'[t]) : Fits(t, read'[t] + i, queue'[t][i])
    <3>1. t \in Socket /\ Peer(t) \in Socket /\ Peer(Peer(t)) = t
      BY PeerLemma
    <3>2. CASE t = p
      <4>1. read[p] + Len(queue[p]) = written[s]
        BY <1>1, <1>2, <1>5
      <4>2. read'[t] + Len(queue'[t]) = written'[Peer(t)]
        BY <1>1, <1>3, <1>4, <2>2, <3>2, <4>1
      <4>3. ASSUME NEW i \in 1..Len(queue'[t])
            PROVE  Fits(t, read'[t] + i, queue'[t][i])
        <5>1. CASE i \in 1..Len(queue[p])
          BY <1>1, <1>4, <2>2, <3>2, <5>1
        <5>2. CASE i = Len(queue[p]) + 1
          <6>1. queue'[t][i] = x /\ read'[t] + i = written[s] + 1
            BY <1>3, <1>4, <2>2, <3>2, <4>1, <5>2
          <6>. QED
            BY <3>2, <6>1
        <5>. QED
          BY <1>3, <2>2, <3>2, <5>1, <5>2
      <4>. QED
        BY <1>1, <1>3, <1>4, <3>2, <4>2, <4>3
    <3>3. CASE t # p
      <4>1. Peer(t) # s
        BY <3>1, <3>3
      <4>. QED
        BY <1>4, <2>1, <2>3, <3>1, <3>3, <4>1
    <3>. QED
      BY <3>2, <3>3
  <2>. QED
    BY <1>4, <2>1, <2>3, <2>4, <2>5, <2>6
<1>6. ASSUME state[p] = "closed" PROVE NetNext
  <2>1. reset' = reset \cup {s, p}
    BY <1>6 DEF Write
  <2>2. PICK q \in Before(queue[s]) : queue' = [queue EXCEPT ![s] = q]
    BY <1>6 DEF Write
  <2>3. /\ q \in Seq(Piece) /\ Len(q) <= Len(queue[s]) /\ Len(q) \in Nat
        /\ \A i \in 1..Len(q) : q[i] = queue[s][i]
    BY <1>3, BeforeLemma
  <2>4. /\ queue' \in [Socket -> Seq(Piece)] /\ queue'[s] = q
        /\ \A t \in Socket \ {s} : queue'[t] = queue[t]
    BY <1>1, <2>2, <2>3
  <2>5. ASSUME NEW t \in Socket
        PROVE  /\ Len(queue'[t]) <= Capacity
               /\ state'[t] \in {"none", "closed"} => queue'[t] = <<>>
    <3>1. Len(queue[s]) <= Capacity /\ Capacity \in Nat
      BY <1>1, TunnelAssumption DEF TunnelAssumption
    <3>2. CASE t = s
      BY <1>2, <1>3, <1>4, <2>3, <2>4, <3>1, <3>2
    <3>3. CASE t # s
      BY <1>4, <2>4, <3>3
    <3>. QED
      BY <3>2, <3>3
  <2>6. read[p] < written'[s]
    BY <1>1, <1>3, <1>4
  <2>7. ASSUME NEW t \in Path
        PROVE  /\ state'[t] = "none" => /\ state'[Peer(t)] = "none"
                                        /\ read'[t] = 0 /\ written'[t] = 0
               /\ t \in HopSocket => state'[t] # "half"
               /\ t \in reset' => Peer(t) \in reset'
               /\ t \in reset' /\ state'[t] # "closed" =>
                    state'[Peer(t)] = "closed" /\ read'[Peer(t)] < written'[t]
    <3>1. t \in Socket /\ Peer(t) \in Socket
      BY PeerLemma
    <3>2. CASE t = s
      BY <1>1, <1>2, <1>4, <1>6, <2>1, <2>6, <3>2
    <3>3. CASE t = p
      BY <1>1, <1>2, <1>4, <1>6, <2>1, <3>3
    <3>4. CASE t # s /\ t # p
      BY <1>4, <2>1, <3>1, <3>4
    <3>. QED
      BY <3>2, <3>3, <3>4
  <2>8. ASSUME NEW t \in Path
        PROVE  /\ read'[t] + Len(queue'[t]) <= written'[Peer(t)]
               /\ state'[t] # "closed" /\ t \notin reset' =>
                    read'[t] + Len(queue'[t]) = written'[Peer(t)]
               /\ \A i \in 1..Len(queue'[t]) : Fits(t, read'[t] + i, queue'[t][i])
    <3>1. t \in Socket /\ Peer(t) \in Socket /\ Peer(Peer(t)) = t
      BY PeerLemma
    <3>2. CASE t = s
      <4>1. read[s] + Len(q) <= written[p]
        BY <1>3, <2>3
      <4>2. \A i \in 1..Len(q) : Fits(s, read[s] + i, q[i])
        BY <1>3, <2>3
      <4>. QED
        BY <1>1, <1>4, <2>1, <2>4, <3>2, <4>1, <4>2
    <3>3. CASE t = p
      <4>1. queue[p] = <<>> /\ queue'[p] = <<>> /\ Len(queue[p]) = 0
        BY <1>1, <1>6, <2>4
      <4>2. read[p] <= written[s]
        BY <1>1, <1>3
      <4>. QED
        BY <1>1, <1>3, <1>4, <1>6, <3>3, <4>1, <4>2
    <3>4. CASE t # s /\ t # p
      <4>1. Peer(t) # s
        BY <3>1, <3>4
      <4>. QED
        BY <1>4, <2>1, <2>4, <3>1, <3>4, <4>1
    <3>. QED
      BY <3>2, <3>3, <3>4
  <2>9. reset' \subseteq Socket
    BY <1>1, <2>1
  <2>. QED
    BY <1>4, <2>4, <2>5, <2>7, <2>8, <2>9
<1>7. Onward
  <2>1. \A t \in Path : t \in Socket /\ read[t] \in Nat /\ written[t] \in Nat
    BY CountLemma
  <2> HIDE DEF NetInv, NetNext, NetOK
  <2>. QED
    BY <1>3, <1>4, <2>1 DEF Onward
<1>. QED
  BY <1>5, <1>6, <1>7

LEMMA CloseNet ==
    ASSUME shape \in Shapes, NetInv, NEW s \in Path, state[s] # "none", Close(s)
    PROVE  NetNext /\ Onward
<1> DEFINE p == Peer(s)
<1> USE DEF NetInv, NetNext, NetOK
<1>1. s \in Socket /\ p \in Path /\ p \in Socket /\ p # s /\ Peer(p) = s
  BY PeerLemma
<1>2. state[p] # "none"
  BY <1>1
<1>3. /\ queue[s] \in Seq(Piece) /\ queue[p] \in Seq(Piece)
      /\ read[s] \in Nat /\ read[p] \in Nat /\ written[s] \in Nat /\ written[p] \in Nat
      /\ Len(queue[s]) \in Nat /\ Len(queue[p]) \in Nat
  BY <1>1
<1>4. /\ read' = read /\ written' = written
      /\ state' \in [Socket -> SocketState] /\ state'[s] = "closed"
      /\ \A t \in Socket \ {s} : state'[t] = state[t]
  BY <1>1 DEF Close, SocketState
<1>5. ASSUME queue[s] = <<>> PROVE NetNext
  <2>1. queue' = queue /\ reset' = reset
    BY <1>5 DEF Close
  <2>2. ASSUME NEW t \in Socket
        PROVE  /\ Len(queue'[t]) <= Capacity
               /\ state'[t] \in {"none", "closed"} => queue'[t] = <<>>
    BY <1>4, <1>5, <2>1
  <2>3. ASSUME NEW t \in Path
        PROVE  /\ state'[t] = "none" => /\ state'[Peer(t)] = "none"
                                        /\ read'[t] = 0 /\ written'[t] = 0
               /\ t \in HopSocket => state'[t] # "half"
               /\ t \in reset' => Peer(t) \in reset'
               /\ t \in reset' /\ state'[t] # "closed" =>
                    state'[Peer(t)] = "closed" /\ read'[Peer(t)] < written'[t]
    <3>1. t \in Socket /\ Peer(t) \in Socket /\ Peer(Peer(t)) = t
      BY PeerLemma
    <3>2. CASE t = s
      BY <1>1, <1>4, <2>1, <3>2
    <3>3. CASE t # s
      <4>1. state'[Peer(t)] = state[Peer(t)] \/ Peer(t) = s
        BY <1>4, <3>1
      <4>2. Peer(t) = s => t = p
        BY <3>1
      <4>. QED
        BY <1>2, <1>4, <2>1, <3>1, <3>3, <4>1, <4>2
    <3>. QED
      BY <3>2, <3>3
  <2>4. ASSUME NEW t \in Path
        PROVE  /\ read'[t] + Len(queue'[t]) <= written'[Peer(t)]
               /\ state'[t] # "closed" /\ t \notin reset' =>
                    read'[t] + Len(queue'[t]) = written'[Peer(t)]
               /\ \A i \in 1..Len(queue'[t]) : Fits(t, read'[t] + i, queue'[t][i])
    <3>1. t \in Socket
      BY PeerLemma
    <3>. QED
      BY <1>4, <2>1, <3>1
  <2>. QED
    BY <1>4, <2>1, <2>2, <2>3, <2>4
<1>6. ASSUME queue[s] # <<>> PROVE NetNext
  <2>1. reset' = reset \cup {s, p}
    BY <1>6 DEF Close
  <2>2. PICK q \in Before(queue[p]) : queue' = [queue EXCEPT ![s] = <<>>, ![p] = q]
    BY <1>6 DEF Close
  <2>3. /\ q \in Seq(Piece) /\ Len(q) <= Len(queue[p]) /\ Len(q) \in Nat
        /\ \A i \in 1..Len(q) : q[i] = queue[p][i]
        /\ queue[p] = <<>> => q = <<>>
    <3>1. /\ q \in Seq(Piece) /\ Len(q) <= Len(queue[p]) /\ Len(q) \in Nat
          /\ \A i \in 1..Len(q) : q[i] = queue[p][i]
      BY <1>3, BeforeLemma
    <3>2. queue[p] = <<>> => Len(q) = 0
      BY <3>1
    <3>. QED
      BY <3>1, <3>2, EmptySeq
  <2>4. /\ queue' \in [Socket -> Seq(Piece)] /\ queue'[s] = <<>> /\ queue'[p] = q
        /\ \A t \in Socket \ {s, p} : queue'[t] = queue[t]
    <3>1. <<>> \in Seq(Piece)
      BY EmptySeq
    <3>2. queue' = [[queue EXCEPT ![s] = <<>>] EXCEPT ![p] = q]
      BY <2>2
    <3>3. [queue EXCEPT ![s] = <<>>] \in [Socket -> Seq(Piece)]
      BY <3>1
    <3>. QED
      BY <1>1, <2>3, <3>2, <3>3
  <2>5. read[s] + 1 <= written[p]
    <3>1. Len(queue[s]) > 0
      BY <1>3, <1>6, EmptySeq
    <3>. QED
      BY <1>1, <1>3, <3>1
  <2>6. ASSUME NEW t \in Socket
        PROVE  /\ Len(queue'[t]) <= Capacity
               /\ state'[t] \in {"none", "closed"} => queue'[t] = <<>>
    <3>1. Len(queue[p]) <= Capacity /\ Capacity \in Nat /\ Len(queue'[s]) = 0
      BY <1>1, <2>4, TunnelAssumption DEF TunnelAssumption
    <3>2. CASE t = s
      BY <2>4, <3>1, <3>2
    <3>3. CASE t = p
      BY <1>1, <1>3, <1>4, <2>3, <2>4, <3>1, <3>3
    <3>4. CASE t # s /\ t # p
      BY <1>4, <2>4, <3>4
    <3>. QED
      BY <3>2, <3>3, <3>4
  <2>7. ASSUME NEW t \in Path
        PROVE  /\ state'[t] = "none" => /\ state'[Peer(t)] = "none"
                                        /\ read'[t] = 0 /\ written'[t] = 0
               /\ t \in HopSocket => state'[t] # "half"
               /\ t \in reset' => Peer(t) \in reset'
               /\ t \in reset' /\ state'[t] # "closed" =>
                    state'[Peer(t)] = "closed" /\ read'[Peer(t)] < written'[t]
    <3>1. t \in Socket /\ Peer(t) \in Socket /\ Peer(Peer(t)) = t
      BY PeerLemma
    <3>2. CASE t = s
      BY <1>1, <1>4, <2>1, <3>2
    <3>3. CASE t = p
      <4>1. read'[Peer(t)] < written'[t]
        BY <1>1, <1>3, <1>4, <2>5, <3>3
      <4>. QED
        BY <1>1, <1>2, <1>4, <2>1, <3>3, <4>1
    <3>4. CASE t # s /\ t # p
      <4>1. Peer(t) # s
        BY <3>1, <3>4
      <4>. QED
        BY <1>4, <2>1, <3>1, <3>4, <4>1
    <3>. QED
      BY <3>2, <3>3, <3>4
  <2>8. ASSUME NEW t \in Path
        PROVE  /\ read'[t] + Len(queue'[t]) <= written'[Peer(t)]
               /\ state'[t] # "closed" /\ t \notin reset' =>
                    read'[t] + Len(queue'[t]) = written'[Peer(t)]
               /\ \A i \in 1..Len(queue'[t]) : Fits(t, read'[t] + i, queue'[t][i])
    <3>1. t \in Socket
      BY PeerLemma
    <3>2. CASE t = s
      <4>1. Len(queue'[t]) = 0
        BY <2>4, <3>2
      <4>. QED
        BY <1>1, <1>3, <1>4, <2>5, <3>2, <4>1
    <3>3. CASE t = p
      <4>1. read[p] + Len(q) <= written[s]
        BY <1>1, <1>3, <2>3
      <4>2. \A i \in 1..Len(q) : Fits(p, read[p] + i, q[i])
        BY <1>1, <1>3, <2>3
      <4>. QED
        BY <1>1, <1>4, <2>1, <2>4, <3>3, <4>1, <4>2
    <3>4. CASE t # s /\ t # p
      BY <1>4, <2>1, <2>4, <3>1, <3>4
    <3>. QED
      BY <3>2, <3>3, <3>4
  <2>9. reset' \subseteq Socket
    BY <1>1, <2>1
  <2>. QED
    BY <1>4, <2>4, <2>6, <2>7, <2>8, <2>9
<1>7. Onward
  <2>1. \A t \in Path : t \in Socket /\ read[t] \in Nat /\ written[t] \in Nat
    BY CountLemma
  <2> HIDE DEF NetInv, NetNext, NetOK
  <2>. QED
    BY <1>4, <2>1 DEF Onward
<1>. QED
  BY <1>5, <1>6, <1>7

LEMMA ConnectNet ==
    ASSUME shape \in Shapes, NetInv, NEW n \in Hop, state[<<n, "front">>] = "none", Connect(n)
    PROVE  NetNext /\ Onward
<1> DEFINE f == <<n, "front">>
           b == <<n + 1, "back">>
<1> USE DEF NetInv, NetNext, NetOK
<1>1. /\ f \in HopSocket /\ f \in Path /\ f \in Socket
      /\ b = Peer(f) /\ b \in Path /\ b \in Socket /\ b # f /\ Peer(b) = f
  <2>1. f \in HopSocket /\ Peer(f) = b
    BY NodeLemma
  <2>2. f \in Path
    BY <2>1, HopLemma
  <2>3. Peer(f) \in Path /\ f \in Socket /\ Peer(f) # f /\ Peer(Peer(f)) = f
    BY <2>2, PeerLemma
  <2>4. Peer(f) \in Socket
    BY <2>3, PeerLemma
  <2>. QED
    BY <2>1, <2>2, <2>3, <2>4
<1> HIDE DEF f, b
<1>2. state' = [state EXCEPT ![f] = "open", ![b] = "open"]
  BY DEF Connect, f, b
<1>3. queue' = queue /\ reset' = reset /\ read' = read /\ written' = written
  BY DEF Connect
<1>4. state[f] = "none" /\ state[b] = "none"
  BY <1>1 DEF f
<1>5. /\ state' \in [Socket -> SocketState] /\ state'[f] = "open" /\ state'[b] = "open"
      /\ \A t \in Socket \ {f, b} : state'[t] = state[t]
  BY <1>1, <1>2 DEF SocketState
<1>6. /\ f \notin reset /\ b \notin reset
      /\ read[f] = 0 /\ written[f] = 0 /\ read[b] = 0 /\ written[b] = 0
      /\ queue[f] = <<>> /\ queue[b] = <<>>
  BY <1>1, <1>4
<1>7. ASSUME NEW t \in Socket
      PROVE  /\ Len(queue'[t]) <= Capacity
             /\ state'[t] \in {"none", "closed"} => queue'[t] = <<>>
  BY <1>3, <1>5
<1>8. ASSUME NEW t \in Path
      PROVE  /\ state'[t] = "none" => /\ state'[Peer(t)] = "none"
                                      /\ read'[t] = 0 /\ written'[t] = 0
             /\ t \in HopSocket => state'[t] # "half"
             /\ t \in reset' => Peer(t) \in reset'
             /\ t \in reset' /\ state'[t] # "closed" =>
                  state'[Peer(t)] = "closed" /\ read'[Peer(t)] < written'[t]
  <2>1. t \in Socket /\ Peer(t) \in Socket /\ Peer(Peer(t)) = t
    BY PeerLemma
  <2>2. CASE t \in {f, b}
    BY <1>3, <1>5, <1>6, <2>2
  <2>3. CASE t \notin {f, b}
    <3>1. Peer(t) \notin {f, b}
      BY <1>1, <2>1, <2>3
    <3>. QED
      BY <1>3, <1>5, <2>1, <2>3, <3>1
  <2>. QED
    BY <2>2, <2>3
<1>9. ASSUME NEW t \in Path
      PROVE  /\ read'[t] + Len(queue'[t]) <= written'[Peer(t)]
             /\ state'[t] # "closed" /\ t \notin reset' =>
                  read'[t] + Len(queue'[t]) = written'[Peer(t)]
             /\ \A i \in 1..Len(queue'[t]) : Fits(t, read'[t] + i, queue'[t][i])
  <2>1. t \in Socket
    BY PeerLemma
  <2>2. CASE t \in {f, b}
    <3>1. read[t] + Len(queue[t]) = written[Peer(t)] /\ Len(queue[t]) = 0
      <4>1. Len(queue[t]) = 0
        BY <1>6, <2>2, EmptySeq
      <4>2. Peer(t) \in {f, b}
        BY <1>1, <2>2
      <4>3. read[t] = 0 /\ written[Peer(t)] = 0
        BY <1>6, <2>2, <4>2
      <4>. QED
        BY <4>1, <4>3
    <3>. QED
      BY <1>3, <3>1
  <2>3. CASE t \notin {f, b}
    BY <1>3, <1>5, <2>1, <2>3
  <2>. QED
    BY <2>2, <2>3
<1>10. Onward
  <2>1. \A t \in Path : t \in Socket /\ read[t] \in Nat /\ written[t] \in Nat
    BY CountLemma
  <2> HIDE DEF NetInv, NetNext, NetOK
  <2>. QED
    BY <1>3, <1>4, <1>5, <2>1 DEF Onward
<1>. QED
  BY <1>3, <1>5, <1>7, <1>8, <1>9, <1>10

LEMMA CountNext ==
    ASSUME shape \in Shapes, NetNext, NEW t \in Path
    PROVE  /\ queue'[t] \in Seq(Piece) /\ Len(queue'[t]) \in Nat
           /\ read'[t] \in Nat /\ written'[t] \in Nat /\ written'[Peer(t)] \in Nat
           /\ read'[t] <= written'[Peer(t)]
<1>1. /\ t \in Socket /\ Peer(t) \in Socket
  BY PeerLemma
<1>2. /\ queue'[t] \in Seq(Piece) /\ read'[t] \in Nat
      /\ written'[t] \in Nat /\ written'[Peer(t)] \in Nat
      /\ read'[t] + Len(queue'[t]) <= written'[Peer(t)]
  BY <1>1 DEF NetNext, NetOK
<1>. QED
  BY <1>2, LenProperties

\* A step that leaves the sockets alone.
LEMMA NetSame ==
    ASSUME shape \in Shapes, NetInv, UNCHANGED netVars
    PROVE  /\ NetNext /\ Onward
           /\ state' = state /\ queue' = queue /\ read' = read /\ written' = written
<1>1. /\ state' = state /\ queue' = queue /\ reset' = reset
      /\ read' = read /\ written' = written
  BY DEF netVars
<1>2. \A t \in Path : read[t] \in Nat /\ written[t] \in Nat
  BY CountLemma
<1>3. Onward
  BY <1>1, <1>2 DEF Onward
<1>. QED
  BY <1>1, <1>3 DEF NetInv, NetNext

LEMMA HalfCloseNet ==
    ASSUME shape \in Shapes, NetInv, NEW e \in End, HalfClose(e)
    PROVE  NetNext /\ Onward
<1> DEFINE s == Of(e)
<1>1. s \in Path /\ s \in Socket /\ s \notin HopSocket
  BY EndLemma
<1>2. /\ state[s] = "open" /\ state' = [state EXCEPT ![s] = "half"]
      /\ queue' = queue /\ reset' = reset /\ read' = read /\ written' = written
  BY DEF HalfClose
<1> HIDE DEF s
<1>3. /\ state' \in [Socket -> SocketState] /\ state'[s] = "half"
      /\ \A t \in Socket \ {s} : state'[t] = state[t]
  BY <1>1, <1>2 DEF NetInv, NetOK, SocketState
<1>4. \A t \in Path : /\ t \in Socket /\ Peer(t) \in Socket
                      /\ read[t] \in Nat /\ written[t] \in Nat
  BY CountLemma
<1>5. NetNext
  BY <1>1, <1>2, <1>3, <1>4 DEF NetInv, NetNext, NetOK
<1>6. Onward
  BY <1>1, <1>2, <1>3, <1>4 DEF Onward
<1>. QED
  BY <1>5, <1>6

===============================================================================
