----------------------------- MODULE TunnelProofs ------------------------------
(***************************************************************************)
(* What Tunnel never does, for any number of pieces and any buffers.       *)
(***************************************************************************)
EXTENDS TunnelSockets

-------------------------------------------------------------------------------
(* Places                                                                     *)

\* As long as the guardian reads nothing too early, everything keeps its place.
LEMMA SameWay ==
    ASSUME UNCHANGED <<shape, early>>
    PROVE  /\ \A s : Shift(s)' = Shift(s) /\ Own(s)' = Own(s)
           /\ \A s, k : Place(s, k)' = Place(s, k)
           /\ \A s, k, x : Fits(s, k, x)' <=> Fits(s, k, x)
BY DEF Shift, Own, Behind, Place, Fits, Guardian, Script, Kept, Request, Upward,
       Downward, Pieces, Answers, From

\* ... and the way itself never changes.
LEMMA SameShape ==
    ASSUME shape' = shape
    PROVE  /\ Guardian' = Guardian /\ Hop' = Hop /\ HopSocket' = HopSocket /\ Path' = Path
           /\ Answers' = Answers
           /\ \A e : Of(e)' = Of(e) /\ Script(e)' = Script(e)
           /\ \A s : Own(s)' = Own(s)
BY DEF Guardian, Hop, HopSocket, Path, Of, Script, Upward, Downward, Pieces, Request,
       Own, Behind, Answers

LEMMA RequestLemma == Len(Request) = 2
BY DEF Request, Pieces

LEMMA ScriptLemma ==
    ASSUME TunnelAssumption, shape \in Shapes, NEW e \in End
    PROVE  Script(e) \in Seq(Piece) /\ Len(Script(e)) \in Nat
<1>1. ASSUME NEW n \in Nat, NEW kind \in {"request", "data"}
      PROVE  Pieces(kind, n) \in Seq(Piece)
  BY DEF Pieces, Piece
<1>2. Request \in Seq(Piece)
  BY <1>1 DEF Request
<1>3. Pieces("data", MaxUp) \in Seq(Piece) /\ Pieces("data", MaxDown) \in Seq(Piece)
  BY <1>1 DEF TunnelAssumption
<1>4. <<Ok>> \in Seq(Piece) /\ <<>> \in Seq(Piece)
  BY DEF Ok, Piece
<1>5. Upward \in Seq(Piece) /\ Downward \in Seq(Piece)
  <2>1. Upward \in Seq(Piece)
    BY <1>2, <1>3, ConcatProperties DEF Upward
  <2>2. CASE shape.upstream
    BY <1>3, <1>4, <2>1, <2>2, ConcatProperties DEF Downward
  <2>3. CASE ~shape.upstream
    BY <1>3, <1>4, <2>1, <2>3, ConcatProperties DEF Downward
  <2>. QED
    BY <2>1, <2>2, <2>3
<1>6. Script(e) \in Seq(Piece)
  BY <1>5 DEF Script
<1>. QED
  BY <1>6, LenProperties

LEMMA KeptLemma ==
    ASSUME NEW e \in End, early \in [End -> Nat]
    PROVE  Kept(e) \in Nat
BY RequestLemma DEF Kept

\* The guardian puts everything of an end behind its own answers, in the place that
\* follows what it keeps; the relay leaves everything where it is.
LEMMA ShiftLemma ==
    \A s : shape \in Shapes /\ early \in [End -> Nat] /\ s \in HopSocket =>
        /\ Own(s) \in Nat /\ Own(On(s)) \in Nat
        /\ Shift(s) \in Int /\ Shift(On(s)) \in Int
        /\ From(On(s)) = From(s)
        /\ s[1] = Guardian => /\ Own(s) = 0 /\ Shift(s) = 0
                              /\ Shift(On(s)) = Kept(From(s)) - Own(On(s))
        /\ s[1] # Guardian => Own(s) = Own(On(s)) /\ Shift(s) = Shift(On(s))
<1> SUFFICES ASSUME NEW s, shape \in Shapes, early \in [End -> Nat], s \in HopSocket
             PROVE  /\ Own(s) \in Nat /\ Own(On(s)) \in Nat
                    /\ Shift(s) \in Int /\ Shift(On(s)) \in Int
                    /\ From(On(s)) = From(s)
                    /\ s[1] = Guardian => /\ Own(s) = 0 /\ Shift(s) = 0
                                          /\ Shift(On(s)) = Kept(From(s)) - Own(On(s))
                    /\ s[1] # Guardian => Own(s) = Own(On(s)) /\ Shift(s) = Shift(On(s))
  OBVIOUS
<1>1. Answers \in Nat
  BY DEF Answers
<1>2. From(s) \in End /\ Kept(From(s)) \in Nat
  BY KeptLemma DEF From, End
<1>3. /\ s[1] \in Hop /\ s[2] \in {"back", "front"}
      /\ On(s) = IF s[2] = "back" THEN <<s[1] + 1, "back">> ELSE <<s[1] - 1, "front">>
  BY DEF HopSocket, On, Peer, Other
<1>4. From(On(s)) = From(s)
  BY <1>3 DEF From
<1>5. Own(s) \in Nat /\ Own(On(s)) \in Nat
  BY <1>1 DEF Own
<1>6. Shift(s) \in Int /\ Shift(On(s)) \in Int
  BY <1>2, <1>4, <1>5 DEF Shift
<1>7. CASE s[1] = Guardian
  <2>1. ~Behind(s) /\ Behind(On(s))
    BY <1>3, <1>7, GuardianIs DEF Behind
  <2>. QED
    BY <1>2, <1>4, <1>5, <1>6, <1>7, <2>1 DEF Own, Shift
<1>8. CASE s[1] # Guardian
  <2>1. (Behind(s) <=> Behind(On(s))) /\ On(s)[2] = s[2]
    BY <1>3, <1>8, GuardianIs DEF Behind, Hop
  <2>. QED
    BY <1>4, <1>5, <1>6, <1>8, <2>1 DEF Own, Shift
<1>. QED
  BY <1>4, <1>5, <1>6, <1>7, <1>8

LEMMA ShiftNext ==
    (\A s : shape \in Shapes /\ early \in [End -> Nat] /\ s \in HopSocket =>
        /\ Own(s) \in Nat /\ Own(On(s)) \in Nat
        /\ Shift(s) \in Int /\ Shift(On(s)) \in Int
        /\ From(On(s)) = From(s)
        /\ s[1] = Guardian => /\ Own(s) = 0 /\ Shift(s) = 0
                              /\ Shift(On(s)) = Kept(From(s)) - Own(On(s))
        /\ s[1] # Guardian => Own(s) = Own(On(s)) /\ Shift(s) = Shift(On(s)))'
BY ShiftLemma, PTL

\* What an end sends fits where it arrives.
LEMMA EndFits ==
    ASSUME shape \in Shapes, NEW e \in End, NEW k \in Nat \ {0}
    PROVE  Fits(Peer(Of(e)), k, Script(e)[k])
<1>1. From(Peer(Of(e))) = e /\ ~Behind(Peer(Of(e)))
  BY GuardianIs DEF From, Behind, Peer, Of, End
<1>. QED
  BY <1>1 DEF Fits, Own, Place, Shift

\* What fits before a hop fits behind it, in the same place.
LEMMA PassFits ==
    ASSUME shape \in Shapes, early \in [End -> Nat], NEW s \in HopSocket,
           NEW j \in Int, NEW k \in Int, NEW x, Fits(s, k, x),
           Place(On(s), j) = Place(s, k),
           s[1] = Guardian => j > Own(On(s)) /\ k > 0
    PROVE  Fits(On(s), j, x)
<1>1. CASE s[1] = Guardian
  <2>1. ~(k <= Own(s)) /\ ~(j <= Own(On(s)))
    BY <1>1, ShiftLemma
  <2>. QED
    BY <2>1, ShiftLemma DEF Fits
<1>2. CASE s[1] # Guardian
  <2>1. j = k
    BY <1>2, ShiftLemma DEF Place
  <2>. QED
    BY <1>2, <2>1, ShiftLemma DEF Fits, Place
<1>. QED
  BY <1>1, <1>2

-------------------------------------------------------------------------------
(* The invariant in two halves, the connections and the hops, and what is      *)
(* left of it by a step that does not touch something.                        *)

Phases == {"none", "dial", "peek", "answer", "await", "refused", "write", "copy",
           "leave", "over"}
Reasons == {"no", "eof", "reset", "closed", "write"}

HopTypeOK ==
    /\ held \in [Socket -> Seq(Piece)] /\ ended \in [Socket -> Reasons]
    /\ \A s \in Socket : Len(held[s]) <= 1 /\ (held[s] # <<>> => Copying(s))
    /\ phase \in [Node -> Phases] /\ first \in Seq(Piece)
    /\ got \in [End -> Seq(Piece)] /\ early \in [End -> Nat]

Within == \A e \in End : Sent(e) <= Len(Script(e))

LEMMA Halves ==
    IInv <=> /\ shape \in Shapes /\ NetInv /\ Within /\ HopTypeOK /\ GotInv
             /\ HeldInv /\ PhaseInv /\ SetUpInv /\ EndedInv /\ ChainInv
<1>1. ASSUME IInv PROVE NetInv /\ HopTypeOK
  BY <1>1 DEF IInv, NetInv, NetOK, HopTypeOK, TypeOK, ConnectionInv, LinkInv, SocketState,
              Phases, Reasons
<1>2. ASSUME shape \in Shapes, NetInv, Within, HopTypeOK PROVE TypeOK
  BY <1>2 DEF NetInv, NetOK, HopTypeOK, Within, TypeOK, SocketState, Phases, Reasons
<1>3. ASSUME NetInv PROVE ConnectionInv /\ LinkInv
  BY <1>3 DEF NetInv, NetOK, ConnectionInv, LinkInv
<1>. QED
  BY <1>1, <1>2, <1>3 DEF IInv, TypeOK, Within

LEMMA HalvesNext ==
    ASSUME shape \in Shapes, shape' = shape, NetNext,
           \A s \in Path : \A i, k, x :
               i \in 1..Len(queue'[s]) /\ k = read'[s] + i /\ Fits(s, k, x) => Fits(s, k, x)',
           Within', HopTypeOK', GotInv', HeldInv', PhaseInv', SetUpInv', EndedInv', ChainInv'
    PROVE  IInv'
<1>1. Path' = Path /\ HopSocket' = HopSocket
  BY SameShape
<1>2. TypeOK'
  BY DEF NetNext, NetOK, HopTypeOK, Within, TypeOK, SocketState, Phases, Reasons
<1>3. ConnectionInv'
  BY <1>1 DEF NetNext, NetOK, ConnectionInv
<1>4. LinkInv'
  BY <1>1 DEF NetNext, NetOK, LinkInv
<1>. QED
  BY <1>2, <1>3, <1>4 DEF IInv

\* What stays of an io.Copy that has ended.
LEMMA EndedStays ==
    ASSUME IInv, NetNext, Onward, shape' = shape, early' \in [End -> Nat],
           NEW s \in HopSocket, ended[s] # "no",
           \A t \in HopSocket : ended[t] # "no" => ended'[t] = ended[t],
           phase'[s[1]] = "copy",
           s[1] = Guardian => early' = early
    PROVE  /\ phase'[s[1]] = "copy" /\ state'[Other(s)] = "closed"
           /\ ended'[s] = "closed" => /\ state'[s] = "closed"
                                      /\ ended'[Other(s)] \notin {"no", "closed"}
           /\ ended'[s] = "eof" => /\ state'[Peer(s)] \in {"half", "closed"}
                                   /\ read'[s] = written'[Peer(s)]
                                   /\ (Place(On(s), written[Other(s)]) = Place(s, read[s]))'
           /\ ended'[s] = "reset" => /\ state'[Peer(s)] = "closed"
                                     /\ read'[Peer(s)] < written'[s]
           /\ ended'[s] = "write" => /\ state'[On(s)] = "closed"
                                     /\ read'[On(s)] < written'[Other(s)]
                                     /\ (Place(On(s), written[Other(s)]) < Place(s, read[s]))'
<1>1. shape \in Shapes /\ NetInv /\ HopTypeOK /\ EndedInv
  BY Halves
<1>2. /\ s \in Path /\ s \in Socket /\ Other(s) \in HopSocket /\ Other(s) \in Path
      /\ On(s) \in Path /\ Peer(s) \in Path
  BY <1>1, HopLemma, PeerLemma
<1>3. /\ state[Other(s)] = "closed" /\ ended'[s] = ended[s]
      /\ ended[s] = "closed" => /\ state[s] = "closed"
                                /\ ended[Other(s)] \notin {"no", "closed"}
      /\ ended[s] = "eof" => /\ state[Peer(s)] \in {"half", "closed"}
                             /\ read[s] = written[Peer(s)]
                             /\ Place(On(s), written[Other(s)]) = Place(s, read[s])
      /\ ended[s] = "reset" => /\ state[Peer(s)] = "closed"
                               /\ read[Peer(s)] < written[s]
      /\ ended[s] = "write" => /\ state[On(s)] = "closed"
                               /\ read[On(s)] < written[Other(s)]
                               /\ Place(On(s), written[Other(s)]) < Place(s, read[s])
  BY <1>1 DEF EndedInv
<1>4. /\ state'[Other(s)] = "closed" /\ written'[Other(s)] = written[Other(s)]
      /\ state[s] = "closed" => state'[s] = "closed"
      /\ ended[Other(s)] # "no" => ended'[Other(s)] = ended[Other(s)]
      /\ read[s] <= read'[s] /\ written[s] <= written'[s]
      /\ state[On(s)] = "closed" => state'[On(s)] = "closed" /\ read'[On(s)] = read[On(s)]
      /\ state[Peer(s)] \in {"half", "closed"} =>
           state'[Peer(s)] \in {"half", "closed"} /\ written'[Peer(s)] = written[Peer(s)]
      /\ state[Peer(s)] = "closed" =>
           state'[Peer(s)] = "closed" /\ read'[Peer(s)] = read[Peer(s)]
  BY <1>2, <1>3 DEF Onward
<1>5. /\ read[s] \in Nat /\ read'[s] \in Nat /\ written[s] \in Nat /\ written'[s] \in Nat
      /\ read[Peer(s)] \in Nat /\ read[On(s)] \in Nat /\ written[Other(s)] \in Nat
      /\ written[Peer(s)] \in Nat /\ read'[s] <= written'[Peer(s)]
  BY <1>1, <1>2, CountLemma, CountNext
<1>6. Shift(On(s))' - Shift(s)' = Shift(On(s)) - Shift(s)
  <2>1. s[1] # Guardian => Shift(s) = Shift(On(s)) /\ Shift(s)' = Shift(On(s))'
    BY <1>1, ShiftLemma, ShiftNext, SameShape DEF HopTypeOK
  <2>2. s[1] = Guardian => Shift(s)' = Shift(s) /\ Shift(On(s))' = Shift(On(s))
    BY SameWay
  <2>3. Shift(s) \in Int /\ Shift(On(s))' \in Int
    BY <1>1, ShiftLemma, ShiftNext, SameShape DEF HopTypeOK
  <2>. QED
    BY <2>1, <2>2, <2>3
<1>7. /\ Shift(s) \in Int /\ Shift(On(s)) \in Int
      /\ Shift(s)' \in Int /\ Shift(On(s))' \in Int
  BY <1>1, ShiftLemma, ShiftNext, SameShape DEF HopTypeOK
<1>8. ended'[s] = "eof" =>
        /\ state'[Peer(s)] \in {"half", "closed"} /\ read'[s] = written'[Peer(s)]
        /\ (Place(On(s), written[Other(s)]) = Place(s, read[s]))'
  BY <1>3, <1>4, <1>5, <1>6, <1>7 DEF Place
<1>9. ended'[s] = "write" =>
        /\ state'[On(s)] = "closed" /\ read'[On(s)] < written'[Other(s)]
        /\ (Place(On(s), written[Other(s)]) < Place(s, read[s]))'
  BY <1>3, <1>4, <1>5, <1>6, <1>7 DEF Place
<1>10. ended'[s] = "reset" => state'[Peer(s)] = "closed" /\ read'[Peer(s)] < written'[s]
  BY <1>3, <1>4, <1>5
<1>11. ended'[s] = "closed" => state'[s] = "closed" /\ ended'[Other(s)] \notin {"no", "closed"}
  BY <1>3, <1>4
<1>. QED
  BY <1>4, <1>8, <1>9, <1>10, <1>11

\* What stays of all of them, if none ends.
LEMMA EndedSame ==
    ASSUME IInv, NetNext, Onward, shape' = shape, early' \in [End -> Nat], ended' = ended,
           early' = early \/ phase[Guardian] # "copy",
           \A n \in Hop : phase[n] = "copy" => phase'[n] = "copy",
           \A s \in HopSocket :
               phase'[s[1]] = "copy" /\ state'[s] = "closed" => ended[Other(s)] # "no"
    PROVE  EndedInv' /\ ChainInv'
<1>1. shape \in Shapes /\ NetInv /\ EndedInv /\ ChainInv
  BY Halves
<1>2. ASSUME NEW s \in HopSocket, ended[s] # "no"
      PROVE  phase[s[1]] = "copy" /\ phase'[s[1]] = "copy" /\ (s[1] = Guardian => early' = early)
  BY <1>1, <1>2, HopLemma DEF EndedInv
<1>3. EndedInv'
  <2> SUFFICES ASSUME NEW s \in HopSocket
               PROVE  /\ (phase[s[1]] = "copy" /\ state[s] = "closed" => ended[Other(s)] # "no")'
                      /\ (ended[s] # "no" => phase[s[1]] = "copy" /\ state[Other(s)] = "closed")'
                      /\ (ended[s] = "closed" => /\ state[s] = "closed"
                                                 /\ ended[Other(s)] \notin {"no", "closed"})'
                      /\ (ended[s] = "eof" =>
                            /\ state[Peer(s)] \in {"half", "closed"}
                            /\ read[s] = written[Peer(s)]
                            /\ Place(On(s), written[Other(s)]) = Place(s, read[s]))'
                      /\ (ended[s] = "reset" => /\ state[Peer(s)] = "closed"
                                                /\ read[Peer(s)] < written[s])'
                      /\ (ended[s] = "write" =>
                            /\ state[On(s)] = "closed"
                            /\ read[On(s)] < written[Other(s)]
                            /\ Place(On(s), written[Other(s)]) < Place(s, read[s]))'
    BY SameShape DEF EndedInv
  <2>1. CASE ended[s] = "no"
    BY <2>1
  <2>2. CASE ended[s] # "no"
    BY <1>2, <2>2, EndedStays
  <2>. QED
    BY <2>1, <2>2
<1>4. ChainInv'
  <2> SUFFICES ASSUME NEW s \in HopSocket, NEW before, before = Other(Peer(s)),
                      ended'[s] = "eof", before \in HopSocket, phase'[before[1]] = "copy"
               PROVE  \/ ended'[before] \in {"eof", "reset", "write"}
                      \/ ended'[Peer(s)] = "write"
    BY SameShape DEF ChainInv
  <2>1. CASE phase[before[1]] = "copy"
    BY <1>1, <2>1 DEF ChainInv
  <2>2. CASE phase[before[1]] # "copy"
    <3>1. Other(before) = Peer(s) /\ Peer(s) \in HopSocket /\ Peer(s)[1] = before[1]
      <4>1. Other(before) \in HopSocket /\ Other(before)[1] = before[1]
        BY <1>1, HopLemma
      <4>2. Other(before) = Peer(s)
        BY DEF Other, Peer
      <4>. QED
        BY <4>1, <4>2
    <3>2. state'[Peer(s)] \in {"half", "closed"}
      BY <1>2, EndedStays
    <3>3. Peer(s) \in Path
      BY <1>1, <3>1, HopLemma
    <3>4. state'[Peer(s)] = "closed"
      BY <3>1, <3>2, <3>3 DEF NetNext, NetOK
    <3>5. Other(Peer(s)) = before
      OBVIOUS
    <3>6. ended[before] # "no"
      BY <3>1, <3>4, <3>5
    <3>. QED
      BY <1>2, <2>2, <3>6
  <2>. QED
    BY <2>1, <2>2
<1>. QED
  BY <1>3, <1>4

HeldOK(s) ==
    /\ Copying(s) => Place(On(s), written[Other(s)]) + Len(held[s]) = Place(s, read[s])
    /\ held[s] # <<>> => Fits(s, read[s], held[s][1])
    /\ phase[s[1]] = "copy" \/ written[Other(s)] > Own(On(s)) =>
         Place(On(s), written[Other(s)]) <= Place(s, read[s])

LEMMA HeldSame ==
    ASSUME UNCHANGED <<shape, early>>, NEW s, HeldOK(s),
           phase'[s[1]] = "copy" <=> phase[s[1]] = "copy", ended'[s] = ended[s],
           held'[s] = held[s], read'[s] = read[s], written'[Other(s)] = written[Other(s)]
    PROVE  HeldOK(s)'
BY SameWay DEF HeldOK, Copying

LEMMA GotSame ==
    ASSUME GotInv, UNCHANGED <<shape, early, got>>,
           \A e \in End : read'[Of(e)] = read[Of(e)]
    PROVE  GotInv'
BY SameWay, SameShape DEF GotInv

\* What stays of where the hops are, if they only copy.
LEMMA SetUpSame ==
    ASSUME IInv, NetNext, Onward, UNCHANGED <<shape, early, phase, first>>,
           \A t \in HopSocket : phase[t[1]] # "copy" =>
               state'[t] = state[t] /\ read'[t] = read[t] /\ written'[t] = written[t]
    PROVE  PhaseInv' /\ SetUpInv'
<1>1. shape \in Shapes /\ NetInv /\ PhaseInv /\ SetUpInv
  BY Halves
<1>2. ASSUME NEW n \in Hop, NEW side \in {"back", "front"}
      PROVE  /\ <<n, side>> \in HopSocket
             /\ phase[n] # "copy" =>
                  /\ state'[<<n, side>>] = state[<<n, side>>]
                  /\ read'[<<n, side>>] = read[<<n, side>>]
                  /\ written'[<<n, side>>] = written[<<n, side>>]
             /\ state[<<n, side>>] # "none" => state'[<<n, side>>] # "none"
  <2>1. <<n, side>> \in HopSocket
    BY DEF HopSocket
  <2>2. <<n, side>> \in Path
    BY <1>1, <2>1, HopLemma
  <2>. QED
    BY <2>1, <2>2 DEF Onward
<1>3. Guardian \in Hop /\ (shape.relay => 1 \in Hop)
  BY <1>1, GuardianIs DEF Hop
<1>4. PhaseInv'
  <2> SUFFICES ASSUME PhaseInv PROVE PhaseInv'
    BY <1>1
  <2>1. ASSUME NEW n \in Hop
        PROVE  /\ phase'[n] # "none" => state'[<<n, "back">>] # "none"
               /\ phase'[n] \in {"dial", "peek", "leave"} \cup Asking =>
                    state'[<<n, "back">>] = "open"
               /\ phase'[n] \in {"await", "refused", "write"} => state'[<<n, "front">>] = "open"
               /\ phase'[n] = "copy" => state'[<<n, "front">>] # "none"
               /\ phase'[n] = "over" => state'[<<n, "back">>] = "closed"
               /\ phase'[n] \in {"none", "peek", "answer", "dial"} =>
                    state'[<<n, "front">>] = "none"
    BY <1>2 DEF PhaseInv, Asking
  <2>2. shape.relay =>
          /\ phase[1] \in {"dial", "copy", "leave", "over"}
          /\ phase[1] \in {"dial", "leave"} =>
               phase[2] = "none" /\ state'[<<1, "front">>] = "none"
          /\ phase[1] = "over" => phase[2] = "none"
          /\ phase[1] = "copy" => phase[2] # "none"
    BY <1>2, <1>3 DEF PhaseInv
  <2>3. phase[Guardian] = "none" => shape.relay
    BY DEF PhaseInv
  <2>. QED
    BY <2>1, <2>2, <2>3, SameShape DEF PhaseInv, Asking
<1>5. SetUpInv'
  <2> DEFINE b == <<Guardian, "back">>
             f == <<Guardian, "front">>
  <2>1. CASE phase[Guardian] = "copy"
    <3>1. b \in Path /\ written[b] <= written'[b]
      <4>1. b \in Path
        BY <1>1, <1>2, <1>3, HopLemma
      <4>. QED
        BY <4>1 DEF Onward
    <3>2. written[b] \in Nat /\ written'[b] \in Nat /\ Answers \in Nat
      BY <1>1, <3>1, CountLemma, CountNext DEF Answers
    <3>3. written'[b] >= Answers
      BY <1>1, <2>1, <3>1, <3>2 DEF SetUpInv
    <3>4. shape.relay /\ phase[1] # "copy" =>
            read'[<<1, "back">>] = 0 /\ written'[<<1, "back">>] = 0
      BY <1>1, <1>2, <1>3 DEF SetUpInv
    <3>. QED
      BY <1>1, <2>1, <3>3, <3>4, SameShape DEF SetUpInv, Asking
  <2>2. CASE phase[Guardian] # "copy"
    <3>1. /\ read'[b] = read[b] /\ written'[b] = written[b]
          /\ read'[f] = read[f] /\ written'[f] = written[f]
      BY <1>2, <1>3, <2>2
    <3>2. shape.relay /\ phase[1] # "copy" =>
            read'[<<1, "back">>] = 0 /\ written'[<<1, "back">>] = 0
      BY <1>1, <1>2, <1>3 DEF SetUpInv
    <3>. QED
      BY <1>1, <2>2, <3>1, <3>2, SameShape, SameWay DEF SetUpInv, Asking
  <2>. QED
    BY <2>1, <2>2
<1>. QED
  BY <1>4, <1>5

-------------------------------------------------------------------------------
(* The steps of the ends                                                      *)

LEMMA HeldParts ==
    HeldInv <=> \A s \in HopSocket : HeldOK(s)
BY DEF HeldInv, HeldOK

LEMMA EndStep ==
    ASSUME IInv, NetNext, Onward, UNCHANGED <<shape, hopVars, early>>,
           \A t \in HopSocket :
               state'[t] = state[t] /\ read'[t] = read[t] /\ written'[t] = written[t],
           got' \in [End -> Seq(Piece)], GotInv', Within'
    PROVE  IInv'
<1>1. /\ shape \in Shapes /\ NetInv /\ Within /\ HopTypeOK /\ HeldInv /\ EndedInv
  BY Halves
<1>2. phase' = phase /\ first' = first /\ held' = held /\ ended' = ended
  BY DEF hopVars
<1>3. HopTypeOK'
  BY <1>1, <1>2 DEF HopTypeOK, Copying
<1>4. HeldInv'
  <2>1. ASSUME NEW s \in HopSocket PROVE HeldOK(s)'
    <3>1. HeldOK(s) /\ Other(s) \in HopSocket
      BY <1>1, HeldParts, HopLemma
    <3>. QED
      BY <1>2, <3>1, HeldSame
  <2>. QED
    BY <2>1, SameShape DEF HeldInv, HeldOK
<1>5. PhaseInv' /\ SetUpInv'
  BY <1>2, SetUpSame
<1>6. EndedInv' /\ ChainInv'
  <2>1. ASSUME NEW s \in HopSocket, phase'[s[1]] = "copy", state'[s] = "closed"
        PROVE  ended[Other(s)] # "no"
    BY <1>1, <1>2, <2>1 DEF EndedInv
  <2>. QED
    BY <1>1, <1>2, <2>1, EndedSame DEF HopTypeOK
<1>. QED
  BY <1>1, <1>3, <1>4, <1>5, <1>6, HalvesNext, SameWay

\* The sockets of the ends are not those of a hop, nor the same.
LEMMA EndsApart ==
    ASSUME shape \in Shapes, NEW d \in End, NEW e \in End, d # e
    PROVE  Of(d) # Of(e)
BY GuardianIs DEF End, Of

LEMMA SendInv ==
    ASSUME TunnelAssumption, IInv, NEW e \in End, Send(e)
    PROVE  IInv'
<1>1. /\ shape \in Shapes /\ NetInv /\ Within /\ HopTypeOK /\ GotInv
  BY Halves
<1>2. /\ Of(e) \in Path /\ Of(e) \in Socket /\ Of(e) \notin HopSocket
  BY <1>1, EndLemma
<1>3. /\ Sent(e) \in Nat /\ Len(Script(e)) \in Nat
      /\ Script(e) \in Seq(Piece) /\ Sent(e) < Len(Script(e))
  BY <1>1, <1>2, CountLemma, ScriptLemma DEF Sent, Send
<1>4. Script(e)[Sent(e) + 1] \in Piece
  <2>1. Sent(e) + 1 \in 1..Len(Script(e))
    BY <1>3
  <2>. QED
    BY <1>3, <2>1
<1>5. Fits(Peer(Of(e)), written[Of(e)] + 1, Script(e)[Sent(e) + 1])
  <2>1. Sent(e) + 1 \in Nat \ {0}
    BY <1>3
  <2>. QED
    BY <1>1, <2>1, EndFits DEF Sent
<1>6. NetNext /\ Onward
  BY <1>1, <1>2, <1>4, <1>5, WriteNet DEF Send
<1>7. /\ UNCHANGED <<shape, hopVars, got, early>> /\ state' = state /\ read' = read
      /\ written' = [written EXCEPT ![Of(e)] = @ + 1]
  BY DEF Send, Write
<1>8. \A t \in HopSocket : written'[t] = written[t]
  BY <1>1, <1>2, <1>7, HopLemma DEF NetInv, NetOK
<1>9. Within'
  <2>1. ASSUME NEW d \in End PROVE Sent(d)' <= Len(Script(d))
    <3>1. Of(d) \in Socket
      BY <1>1, EndLemma
    <3>2. CASE d = e
      BY <1>1, <1>2, <1>3, <1>7, <3>2, SameShape DEF Sent, NetInv, NetOK
    <3>3. CASE d # e
      BY <1>1, <1>2, <1>7, <3>1, <3>3, SameShape, EndsApart DEF Sent, NetInv, NetOK, Within
    <3>. QED
      BY <3>2, <3>3
  <2>. QED
    BY <1>7, <2>1, SameShape DEF Within
<1>10. GotInv'
  BY <1>1, <1>7, GotSame
<1>. QED
  BY <1>1, <1>6, <1>7, <1>8, <1>9, <1>10, EndStep DEF HopTypeOK

LEMMA ReceiveInv ==
    ASSUME IInv, NEW e \in End, Receive(e)
    PROVE  IInv'
<1> DEFINE x == Head(queue[Of(e)])
<1>1. /\ shape \in Shapes /\ NetInv /\ Within /\ HopTypeOK /\ GotInv
  BY Halves
<1>2. /\ Of(e) \in Path /\ Of(e) \in Socket /\ Of(e) \notin HopSocket
      /\ queue[Of(e)] \in Seq(Piece) /\ queue[Of(e)] # <<>> /\ read[Of(e)] \in Nat
  BY <1>1, EndLemma, CountLemma DEF Receive
<1>3. /\ Len(queue[Of(e)]) \in Nat /\ 1 \in 1..Len(queue[Of(e)])
      /\ x \in Piece /\ x = queue[Of(e)][1]
  BY <1>2, EmptySeq, LenProperties
<1>4. NetNext /\ Onward
  BY <1>1, <1>2, <1>3, TakeNet DEF Receive
<1>5. /\ UNCHANGED <<shape, hopVars, early>> /\ state' = state /\ written' = written
      /\ read' = [read EXCEPT ![Of(e)] = @ + 1]
      /\ got' = [got EXCEPT ![e] = Append(@, x)]
  BY DEF Receive, Take
<1>6. /\ read'[Of(e)] = read[Of(e)] + 1
      /\ \A t \in Socket \ {Of(e)} : read'[t] = read[t]
  BY <1>1, <1>2, <1>5 DEF NetInv, NetOK
<1>7. \A t \in HopSocket : read'[t] = read[t]
  BY <1>1, <1>2, <1>6, HopLemma
<1>8. Within'
  BY <1>1, <1>5, SameShape DEF Within, Sent
<1>9. /\ got[e] \in Seq(Piece) /\ Append(got[e], x) \in Seq(Piece)
      /\ Len(got[e]) \in Nat /\ Len(Append(got[e], x)) = Len(got[e]) + 1
      /\ \A i \in 1..Len(got[e]) : Append(got[e], x)[i] = got[e][i]
      /\ Append(got[e], x)[Len(got[e]) + 1] = x
  BY <1>1, <1>3, AppendLemma, LenProperties DEF HopTypeOK
<1>10. /\ got' \in [End -> Seq(Piece)] /\ got'[e] = Append(got[e], x)
       /\ \A d \in End \ {e} : got'[d] = got[d]
  BY <1>1, <1>5, <1>9 DEF HopTypeOK
<1>11. GotInv'
  <2>1. ASSUME NEW d \in End
        PROVE  /\ Len(got'[d]) = read'[Of(d)]
               /\ \A i \in 1..Len(got'[d]) : Fits(Of(d), i, got'[d][i])
    <3>1. CASE d = e
      <4>1. Len(got[e]) = read[Of(e)] /\ \A i \in 1..Len(got[e]) : Fits(Of(e), i, got[e][i])
        BY <1>1 DEF GotInv
      <4>2. Fits(Of(e), Len(got[e]) + 1, x)
        <5>1. Fits(Of(e), read[Of(e)] + 1, queue[Of(e)][1])
          BY <1>1, <1>2, <1>3 DEF NetInv, NetOK
        <5>. QED
          BY <1>3, <4>1, <5>1
      <4>3. ASSUME NEW i \in 1..Len(got'[d]) PROVE Fits(Of(d), i, got'[d][i])
        <5>1. i \in 1..Len(got[e]) \/ i = Len(got[e]) + 1
          BY <1>9, <1>10, <3>1
        <5>. QED
          BY <1>9, <1>10, <3>1, <4>1, <4>2, <5>1
      <4>. QED
        BY <1>6, <1>9, <1>10, <3>1, <4>1, <4>3
    <3>2. CASE d # e
      <4>1. Of(d) \in Socket /\ Of(d) # Of(e)
        BY <1>1, <3>2, EndLemma, EndsApart
      <4>. QED
        BY <1>1, <1>6, <1>10, <3>2, <4>1 DEF GotInv
    <3>. QED
      BY <3>1, <3>2
  <2>. QED
    BY <1>5, <2>1, SameWay, SameShape DEF GotInv
<1>. QED
  BY <1>4, <1>5, <1>7, <1>8, <1>10, <1>11, EndStep

LEMMA HalfCloseInv ==
    ASSUME IInv, NEW e \in End, HalfClose(e)
    PROVE  IInv'
<1>1. /\ shape \in Shapes /\ NetInv /\ Within /\ HopTypeOK /\ GotInv
  BY Halves
<1>2. NetNext /\ Onward
  BY <1>1, HalfCloseNet
<1>3. /\ UNCHANGED <<shape, hopVars, got, early>> /\ read' = read /\ written' = written
      /\ state' = [state EXCEPT ![Of(e)] = "half"]
  BY DEF HalfClose
<1>4. \A t \in HopSocket : state'[t] = state[t]
  BY <1>1, <1>3, HopLemma, EndLemma DEF NetInv, NetOK
<1>5. GotInv' /\ Within'
  BY <1>1, <1>3, GotSame, SameShape DEF Within, Sent
<1>. QED
  BY <1>1, <1>2, <1>3, <1>4, <1>5, EndStep DEF HopTypeOK

LEMMA EndClosesInv ==
    ASSUME IInv, NEW e \in End, EndCloses(e)
    PROVE  IInv'
<1>1. /\ shape \in Shapes /\ NetInv /\ Within /\ HopTypeOK /\ GotInv
  BY Halves
<1>2. Of(e) \in Path /\ state[Of(e)] # "none"
  BY <1>1, EndLemma DEF EndCloses
<1>3. NetNext /\ Onward
  BY <1>1, <1>2, CloseNet DEF EndCloses
<1>4. /\ UNCHANGED <<shape, hopVars, got, early>> /\ read' = read /\ written' = written
      /\ state' = [state EXCEPT ![Of(e)] = "closed"]
  BY DEF EndCloses, Close
<1>5. \A t \in HopSocket : state'[t] = state[t]
  BY <1>1, <1>4, HopLemma, EndLemma DEF NetInv, NetOK
<1>6. GotInv' /\ Within'
  BY <1>1, <1>4, GotSame, SameShape DEF Within, Sent
<1>. QED
  BY <1>1, <1>3, <1>4, <1>5, <1>6, EndStep DEF HopTypeOK

-------------------------------------------------------------------------------
(* The steps of an io.Copy                                                    *)

\* A hop that copies has both its connections.
LEMMA CopyConnected ==
    ASSUME IInv, NEW s \in HopSocket, phase[s[1]] = "copy"
    PROVE  state[s] # "none" /\ state[s] # "half"
<1>1. /\ shape \in Shapes /\ NetInv /\ PhaseInv
  BY Halves
<1>2. s[1] \in Hop /\ s \in {<<s[1], "back">>, <<s[1], "front">>} /\ s \in Path
  BY <1>1, HopLemma DEF HopSocket
<1>3. state[s] # "none"
  BY <1>1, <1>2 DEF PhaseInv
<1>. QED
  BY <1>1, <1>2, <1>3 DEF NetInv, NetOK

LEMMA CopyStep ==
    ASSUME IInv, NetNext, Onward, UNCHANGED <<shape, phase, first, got, early>>,
           NEW s \in HopSocket, Copying(s),
           \A t \in HopSocket : phase[t[1]] # "copy" =>
               state'[t] = state[t] /\ read'[t] = read[t] /\ written'[t] = written[t],
           \A e \in End : read'[Of(e)] = read[Of(e)] /\ written'[Of(e)] = written[Of(e)],
           \A t \in HopSocket \ {s} :
               /\ held'[t] = held[t] /\ ended'[t] = ended[t]
               /\ read'[t] = read[t] /\ written'[Other(t)] = written[Other(t)],
           HopTypeOK', HeldOK(s)', EndedInv', ChainInv'
    PROVE  IInv'
<1>1. /\ shape \in Shapes /\ Within /\ GotInv /\ HeldInv
  BY Halves
<1>2. HeldInv'
  <2>1. ASSUME NEW t \in HopSocket, t # s PROVE HeldOK(t)'
    <3>1. HeldOK(t)
      BY <1>1, HeldParts
    <3>. QED
      BY <2>1, <3>1, HeldSame
  <2>. QED
    BY <2>1, SameShape DEF HeldInv, HeldOK
<1>3. PhaseInv' /\ SetUpInv'
  BY SetUpSame
<1>4. GotInv' /\ Within'
  BY <1>1, GotSame, SameShape DEF Within, Sent
<1>. QED
  BY <1>1, <1>2, <1>3, <1>4, HalvesNext, SameWay

LEMMA CopyReadInv ==
    ASSUME IInv, NEW s \in HopSocket, CopyRead(s)
    PROVE  IInv'
<1> DEFINE x == Head(queue[s])
<1>1. /\ shape \in Shapes /\ NetInv /\ HopTypeOK /\ HeldInv /\ EndedInv
  BY Halves
<1>2. /\ s \in Path /\ s \in Socket /\ Other(s) \in Socket /\ Other(s) # s
      /\ queue[s] \in Seq(Piece) /\ queue[s] # <<>> /\ read[s] \in Nat
      /\ written[Other(s)] \in Nat
  BY <1>1, HopLemma, CountLemma DEF CopyRead
<1>3. /\ Len(queue[s]) \in Nat /\ 1 \in 1..Len(queue[s])
      /\ x \in Piece /\ x = queue[s][1]
  BY <1>2, EmptySeq, LenProperties
<1>4. /\ UNCHANGED <<shape, phase, first, ended, got, early>>
      /\ state' = state /\ written' = written
      /\ read' = [read EXCEPT ![s] = @ + 1] /\ held' = [held EXCEPT ![s] = <<x>>]
      /\ Copying(s) /\ held[s] = <<>>
  BY DEF CopyRead, Take
<1>5. NetNext /\ Onward
  BY <1>1, <1>2, <1>3, TakeNet DEF CopyRead
<1>6. /\ read'[s] = read[s] + 1
      /\ \A t \in Socket \ {s} : read'[t] = read[t] /\ held'[t] = held[t]
      /\ held'[s] = <<x>> /\ held' \in [Socket -> Seq(Piece)]
  BY <1>1, <1>2, <1>3, <1>4 DEF NetInv, NetOK, HopTypeOK
<1>7. HopTypeOK'
  BY <1>1, <1>4, <1>6 DEF HopTypeOK, Copying
<1>8. HeldOK(s)'
  <2>1. Fits(s, read'[s], x)
    <3>1. \A i \in 1..Len(queue[s]) : Fits(s, read[s] + i, queue[s][i])
      BY <1>1, <1>2 DEF NetInv, NetOK
    <3>2. Fits(s, read[s] + 1, queue[s][1])
      BY <1>3, <3>1
    <3>. QED
      BY <1>3, <1>6, <3>2
  <2>2. Shift(s) \in Int /\ Shift(On(s)) \in Int
    BY <1>1, ShiftLemma DEF HopTypeOK
  <2>3. Place(On(s), written[Other(s)]) \in Int
    BY <1>2, <2>2 DEF Place
  <2>4. Place(On(s), written[Other(s)]) + 1 = Place(s, read'[s])
    <3>1. Place(On(s), written[Other(s)]) + Len(held[s]) = Place(s, read[s])
      BY <1>1, <1>4 DEF HeldInv
    <3>2. Len(held[s]) = 0
      BY <1>4
    <3>3. Place(On(s), written[Other(s)]) = Place(s, read[s])
      BY <2>3, <3>1, <3>2
    <3>. QED
      BY <1>2, <1>6, <2>2, <3>3 DEF Place
  <2>. QED
    BY <1>4, <1>6, <2>1, <2>3, <2>4, SameWay DEF HeldOK
<1>9. EndedInv' /\ ChainInv'
  <2>1. ASSUME NEW t \in HopSocket, phase'[t[1]] = "copy", state'[t] = "closed"
        PROVE  ended[Other(t)] # "no"
    BY <1>1, <1>4, <2>1 DEF EndedInv
  <2>. QED
    BY <1>1, <1>4, <1>5, <2>1, EndedSame DEF HopTypeOK
<1>10. \A t \in HopSocket : phase[t[1]] # "copy" => read'[t] = read[t]
  BY <1>1, <1>4, <1>6, HopLemma DEF Copying
<1>11. \A e \in End : read'[Of(e)] = read[Of(e)]
  BY <1>1, <1>6, EndLemma
<1>12. \A t \in HopSocket \ {s} : held'[t] = held[t] /\ read'[t] = read[t]
  BY <1>1, <1>6, HopLemma
<1>. QED
  BY <1>4, <1>5, <1>7, <1>8, <1>9, <1>10, <1>11, <1>12, CopyStep

LEMMA CopyWriteInv ==
    ASSUME IInv, NEW s \in HopSocket, CopyWrite(s)
    PROVE  IInv'
<1> DEFINE x == held[s][1]
           o == Other(s)
<1>1. /\ shape \in Shapes /\ NetInv /\ HopTypeOK /\ HeldInv /\ EndedInv /\ SetUpInv
  BY Halves
<1>2. /\ s \in Path /\ s \in Socket /\ o \in HopSocket /\ o \in Path /\ o \in Socket
      /\ o # s /\ o[1] = s[1] /\ Peer(o) = On(s)
      /\ read[s] \in Nat /\ written[o] \in Nat
  <2>1. s \in Path /\ s \in Socket /\ o \in HopSocket /\ o # s /\ o[1] = s[1]
    BY <1>1, HopLemma
  <2>2. o \in Path /\ o \in Socket
    BY <1>1, <2>1, HopLemma
  <2>. QED
    BY <1>1, <2>1, <2>2, CountLemma DEF On
<1>3. /\ UNCHANGED <<shape, phase, first, ended, got, early>>
      /\ state' = state /\ read' = read
      /\ written' = [written EXCEPT ![o] = @ + 1] /\ held' = [held EXCEPT ![s] = <<>>]
      /\ Copying(s) /\ held[s] # <<>> /\ phase[s[1]] = "copy"
  BY DEF CopyWrite, Write, Copying
<1>4. x \in Piece /\ Len(held[s]) = 1
  <2>1. held[s] \in Seq(Piece) /\ Len(held[s]) \in Nat /\ Len(held[s]) <= 1
    BY <1>1, <1>2, LenProperties DEF HopTypeOK
  <2>2. Len(held[s]) # 0
    BY <1>3, <2>1, EmptySeq
  <2>3. Len(held[s]) = 1
    <3>1. \A n \in Nat : n <= 1 /\ n # 0 => n = 1
      OBVIOUS
    <3>. QED
      BY <2>1, <2>2, <3>1
  <2>4. 1 \in 1..Len(held[s])
    BY <2>3
  <2>. QED
    BY <2>1, <2>3, <2>4, ElementOfSeq
<1>5. state[o] = "open"
  <2>1. state[o] \in SocketState
    BY <1>1, <1>2, CountLemma
  <2>2. state[o] # "closed"
    BY DEF CopyWrite, Write, CanWrite, WriteFails
  <2>. QED
    BY <1>2, <1>3, <2>1, <2>2, CopyConnected DEF SocketState
<1>6. /\ Place(On(s), written[o]) + 1 = Place(s, read[s])
      /\ Place(On(s), written[o] + 1) = Place(s, read[s])
      /\ Fits(s, read[s], x) /\ Place(On(s), written[o]) \in Int
  <2>1. Place(On(s), written[o]) + 1 = Place(s, read[s]) /\ Fits(s, read[s], x)
    BY <1>1, <1>3, <1>4 DEF HeldInv
  <2>2. Shift(On(s)) \in Int
    BY <1>1, ShiftLemma DEF HopTypeOK
  <2>. QED
    BY <1>2, <2>1, <2>2 DEF Place
<1>7. Fits(Peer(o), written[o] + 1, x)
  <2>1. s[1] = Guardian => written[o] + 1 > Own(On(s)) /\ read[s] > 0
    <3> SUFFICES ASSUME s[1] = Guardian
                 PROVE  written[o] + 1 > Own(On(s)) /\ read[s] > 0
      OBVIOUS
    <3>1. s \in {<<Guardian, "back">>, <<Guardian, "front">>}
      BY DEF HopSocket
    <3>2. /\ Shift(s) = 0 /\ Shift(On(s)) = Kept(From(s)) - Own(On(s))
          /\ Own(On(s)) \in Nat
      BY <1>1, ShiftLemma DEF HopTypeOK
    <3>3. Kept(From(s)) \in Nat
      BY <1>1, KeptLemma DEF HopTypeOK, From, End
    <3>4. written[o] >= Own(On(s))
      <4>1. CASE s = <<Guardian, "back">>
        <5>1. Own(On(s)) = 0
          BY <4>1 DEF Own, On, Peer, Other
        <5>. QED
          BY <1>2, <5>1
      <4>2. CASE s = <<Guardian, "front">>
        <5>1. o = <<Guardian, "back">> /\ Own(On(s)) \in {Answers, 0}
          BY <4>2 DEF Own, Other
        <5>2. written[<<Guardian, "back">>] >= Answers
          BY <1>1, <1>3, <4>2 DEF SetUpInv
        <5>. QED
          BY <1>2, <5>1, <5>2 DEF Answers
      <4>. QED
        BY <3>1, <4>1, <4>2
    <3>. QED
      BY <1>2, <1>6, <3>2, <3>3, <3>4 DEF Place
  <2>2. written[o] + 1 \in Int /\ read[s] \in Int
    BY <1>2
  <2>. QED
    BY <1>1, <1>2, <1>6, <2>1, <2>2, PassFits DEF HopTypeOK
<1>8. NetNext /\ Onward
  BY <1>1, <1>2, <1>4, <1>5, <1>7, WriteNet DEF CopyWrite
<1>9. /\ written'[o] = written[o] + 1
      /\ \A t \in Socket \ {o} : written'[t] = written[t]
      /\ \A t \in Socket \ {s} : held'[t] = held[t]
      /\ held'[s] = <<>> /\ held' \in [Socket -> Seq(Piece)]
  BY <1>1, <1>2, <1>3, EmptySeq DEF NetInv, NetOK, HopTypeOK
<1>10. HopTypeOK'
  <2>1. Len(<<>>) = 0
    OBVIOUS
  <2>. QED
    BY <1>1, <1>3, <1>9, <2>1 DEF HopTypeOK, Copying
<1>11. HeldOK(s)'
  <2>1. /\ Place(On(s), written'[o]) + Len(held'[s]) = Place(s, read'[s])
        /\ Place(On(s), written'[o]) <= Place(s, read'[s])
    BY <1>3, <1>6, <1>9
  <2>. QED
    BY <1>3, <1>9, <2>1, SameWay DEF HeldOK
<1>12. EndedInv' /\ ChainInv'
  <2>1. ASSUME NEW t \in HopSocket, phase'[t[1]] = "copy", state'[t] = "closed"
        PROVE  ended[Other(t)] # "no"
    BY <1>1, <1>3, <2>1 DEF EndedInv
  <2>. QED
    BY <1>1, <1>3, <1>8, <2>1, EndedSame DEF HopTypeOK
<1>13. \A t \in HopSocket : phase[t[1]] # "copy" => written'[t] = written[t]
  BY <1>1, <1>2, <1>3, <1>9, HopLemma
<1>14. \A e \in End : written'[Of(e)] = written[Of(e)]
  BY <1>1, <1>2, <1>9, EndLemma
<1>15. \A t \in HopSocket \ {s} :
           held'[t] = held[t] /\ written'[Other(t)] = written[Other(t)]
  <2>1. ASSUME NEW t \in HopSocket, t # s
        PROVE  t \in Socket /\ Other(t) \in Socket /\ Other(t) # o
    <3>1. t \in Socket /\ Other(t) \in HopSocket /\ Other(Other(t)) = t /\ Other(o) = s
      BY <1>1, HopLemma
    <3>2. Other(t) \in Socket
      BY <1>1, <3>1, HopLemma
    <3>. QED
      BY <2>1, <3>1, <3>2
  <2>. QED
    BY <1>9, <2>1
<1> HIDE DEF o
<1>. QED
  BY <1>3, <1>8, <1>10, <1>11, <1>12, <1>13, <1>14, <1>15, CopyStep

LEMMA CopyEndsInv ==
    ASSUME IInv, NEW s \in HopSocket, CopyEnds(s)
    PROVE  IInv'
<1> DEFINE o == Other(s)
<1>1. /\ shape \in Shapes /\ NetInv /\ HopTypeOK /\ HeldInv /\ EndedInv /\ ChainInv
  BY Halves
<1>2. /\ s \in Path /\ s \in Socket /\ o \in HopSocket /\ o \in Path /\ o \in Socket
      /\ o # s /\ o[1] = s[1] /\ Other(o) = s /\ Peer(o) = On(s)
      /\ Peer(s) \in Path /\ Peer(s) # o /\ Peer(s) # s
  <2>1. /\ s \in Path /\ s \in Socket /\ o \in HopSocket /\ o # s /\ o[1] = s[1]
        /\ Other(o) = s /\ Peer(s) # o
    BY <1>1, HopLemma
  <2>2. o \in Path /\ o \in Socket /\ Peer(s) \in Path /\ Peer(s) # s
    BY <1>1, <2>1, HopLemma, PeerLemma
  <2>. QED
    BY <1>1, <2>1, <2>2 DEF On
<1>3. /\ UNCHANGED <<shape, phase, first, got, early>>
      /\ read' = read /\ written' = written /\ state' = [state EXCEPT ![o] = "closed"]
      /\ held' = [held EXCEPT ![s] = <<>>] /\ ended' = [ended EXCEPT ![s] = Why(s)]
      /\ phase[s[1]] = "copy" /\ ended[s] = "no"
      /\ held[s] = <<>> => NothingToRead(s)
      /\ held[s] # <<>> => WriteFails(o)
  BY DEF CopyEnds, Close, Copying
<1>4. state[s] # "none" /\ state[s] # "half" /\ state[o] # "none" /\ state[o] # "half"
  BY <1>2, <1>3, CopyConnected
<1>5. NetNext /\ Onward
  BY <1>1, <1>2, <1>4, CloseNet DEF CopyEnds
<1>6. /\ state'[o] = "closed" /\ \A t \in Socket \ {o} : state'[t] = state[t]
      /\ \A t \in Socket \ {s} : ended'[t] = ended[t] /\ held'[t] = held[t]
      /\ ended'[s] = Why(s) /\ held'[s] = <<>>
      /\ held' \in [Socket -> Seq(Piece)] /\ ended' \in [Socket -> Reasons]
      /\ Why(s) \in Reasons \ {"no"}
  <2>1. Why(s) \in Reasons \ {"no"}
    BY DEF Why, Reasons
  <2>. QED
    BY <1>1, <1>2, <1>3, <2>1, EmptySeq DEF NetInv, NetOK, HopTypeOK
<1>7. HopTypeOK'
  <2>1. Len(<<>>) = 0
    OBVIOUS
  <2>. QED
    BY <1>1, <1>3, <1>6, <2>1 DEF HopTypeOK, Copying
<1>8. HeldOK(s)'
  <2>1. Place(On(s), written[o]) <= Place(s, read[s])
    BY <1>1, <1>3 DEF HeldInv
  <2>2. ~Copying(s)'
    BY <1>6 DEF Copying
  <2>. QED
    BY <1>3, <1>6, <2>1, <2>2, SameWay DEF HeldOK
<1>9. \A t \in HopSocket : ended[t] # "no" => t # s /\ ended'[t] = ended[t]
  BY <1>1, <1>3, <1>6, HopLemma
<1>10. /\ state[s] = "closed" => ended[o] \notin {"no", "closed"}
       /\ state[o] # "closed"
  <2>1. state[s] = "closed" => ended[o] # "no"
    BY <1>1, <1>3 DEF EndedInv
  <2>2. ended[o] # "closed"
    BY <1>1, <1>2, <1>3 DEF EndedInv
  <2>3. state[o] # "closed"
    BY <1>1, <1>2, <1>3 DEF EndedInv
  <2>. QED
    BY <2>1, <2>2, <2>3
<1>11. Shift(s) \in Int /\ Shift(On(s)) \in Int /\ read[s] \in Nat /\ written[o] \in Nat
  BY <1>1, <1>2, ShiftLemma, CountLemma DEF HopTypeOK
<1>12. /\ Why(s) = "closed" => state[s] = "closed" /\ ended[o] \notin {"no", "closed"}
       /\ Why(s) = "eof" => /\ state[s] # "closed" /\ state[Peer(s)] \in {"half", "closed"}
                            /\ read[s] = written[Peer(s)]
                            /\ Place(On(s), written[o]) = Place(s, read[s])
       /\ Why(s) = "reset" => /\ state[s] # "closed" /\ state[Peer(s)] = "closed"
                              /\ read[Peer(s)] < written[s]
       /\ Why(s) = "write" => /\ state[On(s)] = "closed" /\ read[On(s)] < written[o]
                              /\ Place(On(s), written[o]) < Place(s, read[s])
  <2>1. CASE held[s] # <<>>
    <3>1. o \in reset
      BY <1>3, <1>10, <2>1 DEF WriteFails
    <3>2. state[On(s)] = "closed" /\ read[On(s)] < written[o]
      BY <1>1, <1>2, <1>10, <3>1 DEF NetInv, NetOK
    <3>3. Place(On(s), written[o]) + Len(held[s]) = Place(s, read[s])
      BY <1>1, <1>3 DEF HeldInv, Copying
    <3>4. Len(held[s]) \in Nat /\ Len(held[s]) # 0
      BY <1>1, <1>2, <2>1, EmptySeq, LenProperties DEF HopTypeOK
    <3>5. Place(On(s), written[o]) < Place(s, read[s])
      BY <1>11, <3>3, <3>4 DEF Place
    <3>. QED
      BY <2>1, <3>2, <3>5 DEF Why
  <2>2. CASE held[s] = <<>> /\ state[s] = "closed"
    BY <1>10, <2>2 DEF Why
  <2>3. CASE held[s] = <<>> /\ state[s] # "closed" /\ s \in reset
    <3>1. state[Peer(s)] = "closed" /\ read[Peer(s)] < written[s]
      BY <1>1, <1>2, <2>3 DEF NetInv, NetOK
    <3>. QED
      BY <2>3, <3>1 DEF Why
  <2>4. CASE held[s] = <<>> /\ state[s] # "closed" /\ s \notin reset
    <3>1. queue[s] = <<>> /\ state[Peer(s)] \in {"half", "closed"}
      BY <1>3, <2>4 DEF NothingToRead
    <3>2. read[s] = written[Peer(s)]
      <4>1. read[s] + Len(queue[s]) = written[Peer(s)] /\ Len(queue[s]) = 0
        BY <1>1, <1>2, <2>4, <3>1 DEF NetInv, NetOK
      <4>. QED
        BY <1>11, <4>1
    <3>3. Place(On(s), written[o]) = Place(s, read[s])
      <4>1. Place(On(s), written[o]) + Len(held[s]) = Place(s, read[s]) /\ Len(held[s]) = 0
        BY <1>1, <1>3, <2>4 DEF HeldInv, Copying
      <4>. QED
        BY <1>11, <4>1 DEF Place
    <3>. QED
      BY <2>4, <3>1, <3>2, <3>3 DEF Why
  <2>. QED
    BY <2>1, <2>2, <2>3, <2>4
<1>13. EndedInv'
  <2> SUFFICES ASSUME NEW t \in HopSocket
               PROVE  /\ (phase[t[1]] = "copy" /\ state[t] = "closed" => ended[Other(t)] # "no")'
                      /\ (ended[t] # "no" => phase[t[1]] = "copy" /\ state[Other(t)] = "closed")'
                      /\ (ended[t] = "closed" => /\ state[t] = "closed"
                                                 /\ ended[Other(t)] \notin {"no", "closed"})'
                      /\ (ended[t] = "eof" =>
                            /\ state[Peer(t)] \in {"half", "closed"}
                            /\ read[t] = written[Peer(t)]
                            /\ Place(On(t), written[Other(t)]) = Place(t, read[t]))'
                      /\ (ended[t] = "reset" => /\ state[Peer(t)] = "closed"
                                                /\ read[Peer(t)] < written[t])'
                      /\ (ended[t] = "write" =>
                            /\ state[On(t)] = "closed"
                            /\ read[On(t)] < written[Other(t)]
                            /\ Place(On(t), written[Other(t)]) < Place(t, read[t]))'
    BY <1>3, SameShape DEF EndedInv
  <2>1. phase'[t[1]] = "copy" /\ state'[t] = "closed" => ended'[Other(t)] # "no"
    <3>1. CASE t = o
      BY <1>2, <1>6, <3>1
    <3>2. CASE t # o
      <4>1. t \in Socket /\ Other(t) \in HopSocket
        BY <1>1, HopLemma
      <4>2. phase[t[1]] = "copy" /\ state[t] = "closed" => ended[Other(t)] # "no"
        BY <1>1 DEF EndedInv
      <4>. QED
        BY <1>3, <1>6, <1>9, <3>2, <4>1, <4>2
    <3>. QED
      BY <3>1, <3>2
  <2>2. CASE t = s
    <3>1. /\ state[s] = "closed" => state'[s] = "closed"
          /\ ended'[o] = ended[o]
          /\ state'[Peer(s)] = state[Peer(s)]
          /\ state[On(s)] = "closed" => state'[On(s)] = "closed"
      <4>1. Peer(s) \in Socket /\ On(s) \in Socket /\ On(s) # o
        BY <1>1, <1>2, PeerLemma
      <4>. QED
        BY <1>2, <1>6, <4>1
    <3>. QED
      BY <1>2, <1>3, <1>6, <1>12, <2>1, <2>2, <3>1, SameWay
  <2>3. CASE t # s
    <3>1. ended'[t] = ended[t]
      BY <1>1, <1>6, <2>3, HopLemma
    <3>2. CASE ended[t] = "no"
      BY <2>1, <3>1, <3>2
    <3>3. CASE ended[t] # "no"
      <4>1. phase'[t[1]] = "copy"
        BY <1>1, <1>3, <3>3 DEF EndedInv
      <4>2. early' \in [End -> Nat]
        BY <1>1, <1>3 DEF HopTypeOK
      <4>. QED
        BY <1>3, <1>5, <1>9, <2>1, <3>1, <3>3, <4>1, <4>2, EndedStays
    <3>. QED
      BY <3>2, <3>3
  <2>. QED
    BY <2>2, <2>3
<1>14. ChainInv'
  <2> SUFFICES ASSUME NEW t \in HopSocket, NEW before, before = Other(Peer(t)),
                      ended'[t] = "eof", before \in HopSocket, phase'[before[1]] = "copy"
               PROVE  \/ ended'[before] \in {"eof", "reset", "write"}
                      \/ ended'[Peer(t)] = "write"
    BY <1>3, SameShape DEF ChainInv
  <2>1. Peer(t) = Other(before) /\ Peer(t) \in HopSocket /\ Other(Peer(t)) = before
    <3>1. Other(before) \in HopSocket
      BY <1>1, HopLemma
    <3>2. Other(before) = Peer(t)
      BY DEF Other, Peer
    <3>. QED
      BY <3>1, <3>2
  <2>2. CASE t = s
    <3>1. state[s] # "closed" /\ state[Peer(s)] \in {"half", "closed"}
      BY <1>6, <1>12, <2>2
    <3>2. state[Peer(s)] = "closed"
      BY <1>1, <1>2, <2>1, <2>2, <3>1 DEF NetInv, NetOK
    <3>3. Peer(s)[1] = before[1] /\ Peer(Peer(s)) = s
      <4>1. Peer(Peer(s)) = s
        BY <1>1, <1>2, PeerLemma
      <4>2. Other(before)[1] = before[1]
        BY <1>1, HopLemma
      <4>. QED
        BY <2>1, <2>2, <4>1, <4>2
    <3>4. ended[before] # "no"
      <4>1. /\ Peer(s) \in HopSocket /\ Other(Peer(s)) = before
            /\ phase[Peer(s)[1]] = "copy"
        BY <1>3, <2>1, <2>2, <3>3
      <4>. QED
        BY <1>1, <3>2, <4>1 DEF EndedInv
    <3>5. ended[before] = "closed" => ended[Peer(s)] \notin {"no", "closed"}
      BY <1>1, <2>1, <2>2 DEF EndedInv
    <3>6. ended[Peer(s)] \notin {"eof", "reset"}
      <4>1. Peer(s) \in HopSocket /\ state[Peer(Peer(s))] \notin {"half", "closed"}
        BY <1>4, <2>1, <2>2, <3>1, <3>3
      <4>. QED
        BY <1>1, <4>1 DEF EndedInv
    <3>7. before \in Socket /\ Peer(s) \in Socket
      BY <1>1, <2>1, <2>2, HopLemma
    <3>8. ended[before] \in Reasons /\ ended[Peer(s)] \in Reasons
      BY <1>1, <3>7 DEF HopTypeOK
    <3>9. \/ ended[before] \in {"eof", "reset", "write"}
          \/ ended[Peer(s)] = "write"
      BY <3>4, <3>5, <3>6, <3>8 DEF Reasons
    <3>. QED
      BY <1>9, <2>1, <2>2, <3>9
  <2>3. CASE t # s
    <3>1. ended[t] = "eof"
      BY <1>1, <1>6, <2>3, HopLemma
    <3>2. \/ ended[before] \in {"eof", "reset", "write"}
          \/ ended[Peer(t)] = "write"
      BY <1>1, <1>3, <3>1 DEF ChainInv
    <3>. QED
      BY <1>9, <2>1, <3>2
  <2>. QED
    BY <2>2, <2>3
<1>15. \A t \in HopSocket : phase[t[1]] # "copy" => state'[t] = state[t]
  BY <1>1, <1>2, <1>3, <1>6, HopLemma
<1>16. \A t \in HopSocket \ {s} : held'[t] = held[t] /\ ended'[t] = ended[t]
  BY <1>1, <1>6, HopLemma
<1>17. Copying(s)
  BY <1>3 DEF Copying
<1> HIDE DEF o
<1>. QED
  BY <1>3, <1>5, <1>7, <1>8, <1>13, <1>14, <1>15, <1>16, <1>17, CopyStep

-------------------------------------------------------------------------------
(* The steps of the hops before they copy                                     *)

PhaseOK(n) ==
    /\ phase[n] # "none" => state[<<n, "back">>] # "none"
    /\ phase[n] \in {"dial", "peek", "leave"} \cup Asking => state[<<n, "back">>] = "open"
    /\ phase[n] \in {"await", "refused", "write"} => state[<<n, "front">>] = "open"
    /\ phase[n] = "copy" => state[<<n, "front">>] # "none"
    /\ phase[n] = "over" => state[<<n, "back">>] = "closed"
    /\ phase[n] \in {"none", "peek", "answer", "dial"} => state[<<n, "front">>] = "none"

LEMMA PhaseParts ==
    PhaseInv <=> /\ \A n \in Hop : PhaseOK(n)
                 /\ shape.relay =>
                      /\ phase[1] \in {"dial", "copy", "leave", "over"}
                      /\ phase[1] \in {"dial", "leave"} =>
                           phase[2] = "none" /\ state[<<1, "front">>] = "none"
                      /\ phase[1] = "over" => phase[2] = "none"
                      /\ phase[1] = "copy" => phase[2] # "none"
                 /\ phase[Guardian] = "none" => shape.relay
BY DEF PhaseInv, PhaseOK

LEMMA GuardianNode ==
    ASSUME shape \in Shapes
    PROVE  /\ Guardian \in Hop /\ Guardian \in Node
           /\ \A n \in Hop \ {Guardian} : n = 1 /\ n \in Node /\ Guardian = 2 /\ shape.relay
BY GuardianIs DEF Hop, Node, Guardian

\* What the guardian does before it copies, whatever it reads too early.
LEMMA GuardianStep ==
    ASSUME TunnelAssumption, IInv, NetNext, Onward, UNCHANGED <<shape, held, ended, got>>,
           NEW n, n = Guardian, phase[n] \notin {"none", "copy"},
           NEW p \in Phases \ {"none"}, phase' = [phase EXCEPT ![n] = p],
           first' \in Seq(Piece), early' \in [End -> Nat],
           \A s \in Path : \A i, k, x :
               i \in 1..Len(queue'[s]) /\ k = read'[s] + i /\ Fits(s, k, x) => Fits(s, k, x)',
           \A t \in HopSocket : t[1] # Guardian => state'[t] = state[t] /\ HeldOK(t)',
           \A e \in End : written'[Of(e)] = written[Of(e)],
           p = "copy" => /\ state'[<<n, "back">>] # "closed"
                         /\ state'[<<n, "front">>] # "closed",
           HeldOK(<<n, "back">>)', HeldOK(<<n, "front">>)',
           PhaseOK(n)', SetUpInv', GotInv'
    PROVE  IInv'
<1>1. /\ shape \in Shapes /\ NetInv /\ Within /\ HopTypeOK /\ PhaseInv /\ EndedInv
  BY Halves
<1>2. /\ Guardian \in Node /\ phase'[Guardian] = p /\ phase' \in [Node -> Phases]
      /\ \A m \in Node \ {Guardian} : phase'[m] = phase[m]
  BY <1>1, GuardianNode DEF HopTypeOK
<1>3. \A t \in HopSocket : /\ t[1] \in Node
                           /\ t[1] = Guardian =>
                                t = <<n, "back">> \/ t = <<n, "front">>
  BY <1>1, GuardianIs DEF HopSocket, Hop, Node
<1>4. HopTypeOK'
  <2>1. ASSUME NEW s \in Socket, held[s] # <<>> PROVE Copying(s)'
    <3>1. Copying(s) /\ s[1] \in Node
      BY <1>1, <2>1 DEF HopTypeOK, Socket
    <3>. QED
      BY <1>2, <3>1 DEF Copying
  <2>. QED
    BY <1>1, <1>2, <2>1 DEF HopTypeOK
<1>5. HeldInv'
  <2>1. \A t \in HopSocket : HeldOK(t)'
    BY <1>3
  <2>. QED
    BY <2>1, SameShape DEF HeldInv, HeldOK
<1>6. PhaseInv'
  <2>1. \A m \in Hop \ {Guardian} : PhaseOK(m)'
    <3>1. ASSUME NEW m \in Hop, m # Guardian PROVE PhaseOK(m)'
      <4>1. /\ m \in Node /\ phase'[m] = phase[m]
            /\ state'[<<m, "back">>] = state[<<m, "back">>]
            /\ state'[<<m, "front">>] = state[<<m, "front">>]
        BY <1>1, <1>2, <3>1, GuardianNode DEF HopSocket
      <4>2. PhaseOK(m)
        BY <1>1, PhaseParts
      <4>. QED
        BY <4>1, <4>2 DEF PhaseOK, Asking
    <3>. QED
      BY <3>1
  <2>2. shape.relay => phase[1] = "copy" /\ phase'[1] = "copy" /\ phase'[2] # "none"
    <3>1. shape.relay => Guardian = 2 /\ 1 \in Node
      BY DEF Guardian, Node
    <3>. QED
      BY <1>1, <1>2, <3>1, PhaseParts
  <2>3. \A m \in Hop : PhaseOK(m)'
    BY <2>1
  <2>. QED
    BY <1>2, <2>2, <2>3, SameShape DEF PhaseInv, PhaseOK
<1>7. EndedInv' /\ ChainInv'
  <2>1. ASSUME NEW t \in HopSocket, phase'[t[1]] = "copy", state'[t] = "closed"
        PROVE  ended[Other(t)] # "no"
    <3>1. t[1] # Guardian
      BY <1>2, <1>3, <2>1
    <3>2. phase[t[1]] = "copy" /\ state[t] = "closed"
      BY <1>2, <1>3, <2>1, <3>1
    <3>. QED
      BY <1>1, <3>2 DEF EndedInv
  <2>2. ASSUME NEW m \in Hop, phase[m] = "copy" PROVE phase'[m] = "copy"
    BY <1>1, <1>2, <2>2, GuardianNode
  <2>. QED
    BY <2>1, <2>2, EndedSame
<1>8. Within'
  BY <1>1, SameShape DEF Within, Sent
<1>. QED
  BY <1>1, <1>4, <1>5, <1>6, <1>7, <1>8, HalvesNext

\* ... and if it reads nothing too early.
LEMMA GuardianStepSame ==
    ASSUME TunnelAssumption, IInv, NetNext, Onward,
           UNCHANGED <<shape, held, ended, got, early>>,
           NEW n, n = Guardian, phase[n] \notin {"none", "copy"},
           NEW p \in Phases \ {"none"}, phase' = [phase EXCEPT ![n] = p],
           first' \in Seq(Piece),
           \A t \in HopSocket : t[1] # Guardian =>
               state'[t] = state[t] /\ read'[t] = read[t] /\ written'[t] = written[t],
           \A e \in End : read'[Of(e)] = read[Of(e)] /\ written'[Of(e)] = written[Of(e)],
           p = "copy" => /\ state'[<<n, "back">>] # "closed"
                         /\ state'[<<n, "front">>] # "closed",
           HeldOK(<<n, "back">>)', HeldOK(<<n, "front">>)',
           PhaseOK(n)', SetUpInv'
    PROVE  IInv'
<1>1. /\ shape \in Shapes /\ HopTypeOK /\ HeldInv /\ GotInv
  BY Halves
<1>2. ASSUME NEW t \in HopSocket, t[1] # Guardian PROVE HeldOK(t)'
  <2>1. HeldOK(t)
    BY <1>1, HeldParts
  <2>2. Other(t) \in HopSocket /\ Other(t)[1] # Guardian /\ t[1] \in Node
    BY <1>1, <1>2, HopLemma, NodeLemma
  <2>3. phase'[t[1]] = phase[t[1]]
    BY <1>1, <1>2, <2>2 DEF HopTypeOK
  <2>. QED
    BY <1>2, <2>1, <2>2, <2>3, HeldSame
<1>3. GotInv'
  BY <1>1, GotSame
<1>4. early' \in [End -> Nat]
  BY <1>1 DEF HopTypeOK
<1>. QED
  BY <1>2, <1>3, <1>4, GuardianStep, SameWay

\* The sockets of the guardian and the ends.
LEMMA Sides ==
    ASSUME shape \in Shapes, NEW n, n = Guardian,
           NEW b, b = <<n, "back">>, NEW f, f = <<n, "front">>
    PROVE  /\ b \in HopSocket /\ f \in HopSocket /\ b \in Path /\ f \in Path
           /\ b \in Socket /\ f \in Socket /\ b # f /\ b[1] = Guardian /\ f[1] = Guardian
           /\ Other(b) = f /\ Other(f) = b /\ Peer(f) = On(b) /\ Peer(b) = On(f)
           /\ Peer(f) = Of("destination") /\ From(b) = "client" /\ From(f) = "destination"
           /\ Own(On(b)) = 0 /\ Own(On(f)) = Answers
<1>1. Guardian \in Hop
  BY GuardianNode
<1>2. /\ b \in HopSocket /\ f \in HopSocket /\ Other(b) = f /\ Other(f) = b /\ b # f
      /\ b[1] = Guardian /\ f[1] = Guardian
  BY <1>1, NodeLemma
<1>3. b \in Path /\ f \in Path /\ b \in Socket /\ f \in Socket
  BY <1>2, HopLemma
<1>4. Peer(f) = On(b) /\ Peer(b) = On(f)
  BY <1>2 DEF On
<1>5. Peer(f) = Of("destination") /\ From(b) = "client" /\ From(f) = "destination"
  BY DEF Peer, Of, From
<1>6. Own(On(b)) = 0 /\ Own(On(f)) = Answers
  BY GuardianIs DEF Own, On, Behind, Peer, Other
<1>. QED
  BY <1>2, <1>3, <1>4, <1>5, <1>6

\* Only the guardian looks at a request, and while it does the relay copies.
LEMMA SetUpAt ==
    ASSUME IInv, NEW n \in Hop
    PROVE  /\ phase[n] \in {"peek", "answer", "await", "refused", "write"} => n = Guardian
           /\ shape.relay /\ phase[Guardian] # "none" => phase[1] = "copy"
<1>1. /\ shape \in Shapes /\ PhaseInv
  BY Halves
<1>2. shape.relay => /\ phase[1] \in {"dial", "copy", "leave", "over"} /\ Guardian = 2
                     /\ phase[1] # "copy" => phase[2] = "none"
  BY <1>1, PhaseParts DEF Guardian
<1>. QED
  BY <1>1, <1>2, GuardianNode

\* What a hop reads and writes before it copies.
LEMMA HeldNot ==
    ASSUME IInv, shape' = shape, held' = held, NEW s \in HopSocket,
           phase[s[1]] # "copy", phase'[s[1]] # "copy",
           written'[Other(s)] > Own(On(s)) =>
               (Place(On(s), written[Other(s)]) <= Place(s, read[s]))'
    PROVE  HeldOK(s)'
<1>1. shape \in Shapes /\ HopTypeOK
  BY Halves
<1>2. held[s] = <<>>
  BY <1>1, HopLemma DEF HopTypeOK, Copying
<1>. QED
  BY <1>2, SameShape DEF HeldOK, Copying

\* What SetUpInv and PhaseInv say of the guardian, whose node is n.
LEMMA GuardianFacts ==
    ASSUME IInv, NEW n, n = Guardian, phase[n] \notin {"none", "copy"},
           NEW b, b = <<n, "back">>, NEW f, f = <<n, "front">>
    PROVE  /\ PhaseOK(n)
           /\ phase[n] = "peek" => read[b] = 0 /\ early["client"] = 0
           /\ phase[n] \in {"peek", "answer"} => written[b] = 0
           /\ (phase[n] = "answer" => shape.connect) /\ (phase[n] = "await" => shape.upstream)
           /\ phase[n] \in {"dial", "await", "refused", "write"} => written[b] = Answers
           /\ phase[n] \in {"peek", "answer", "dial", "await"} \/ ~shape.upstream =>
                early["destination"] = 0
           /\ phase[n] = "await" => read[f] = 0 /\ written[f] = 0
           /\ phase[n] \in {"refused", "write"} => Place(On(f), written[b]) = Place(f, read[f])
           /\ phase[n] \in Asking =>
                /\ Place(On(b), written[f]) + Len(first) = read[b]
                /\ \A i \in 1..Len(first) : Fits(b, read[b] - Len(first) + i, first[i])
           /\ shape.connect \/ phase[n] = "peek" => first = <<>>
           /\ ~shape.connect => early["client"] = 0
           /\ shape.relay => phase[1] = "copy" /\ n = 2
           /\ HeldOK(b) /\ HeldOK(f)
           /\ read[b] \in Nat /\ written[b] \in Nat /\ read[f] \in Nat /\ written[f] \in Nat
           /\ first \in Seq(Piece) /\ Len(first) \in Nat
<1>1. /\ shape \in Shapes /\ NetInv /\ HopTypeOK /\ HeldInv /\ PhaseInv /\ SetUpInv
  BY Halves
<1>2. n \in Hop /\ b \in HopSocket /\ f \in HopSocket /\ b \in Path /\ f \in Path
  BY <1>1, GuardianNode, Sides
<1>3. PhaseOK(n) /\ HeldOK(b) /\ HeldOK(f)
  BY <1>1, <1>2, PhaseParts, HeldParts
<1>4. shape.relay => phase[1] = "copy" /\ n = 2
  BY <1>2, SetUpAt DEF Guardian
<1>5. read[b] \in Nat /\ written[b] \in Nat /\ read[f] \in Nat /\ written[f] \in Nat
  BY <1>1, <1>2, CountLemma
<1>6. first \in Seq(Piece) /\ Len(first) \in Nat
  BY <1>1, LenProperties DEF HopTypeOK
<1>. QED
  BY <1>1, <1>3, <1>4, <1>5, <1>6 DEF SetUpInv

\* A guardian that leaves keeps what it has read and written.
LEMMA AnswerInv ==
    ASSUME TunnelAssumption, IInv, NEW n \in Hop, Answer(n)
    PROVE  IInv'
<1> DEFINE b == <<n, "back">>
           f == <<n, "front">>
<1>1. /\ shape \in Shapes /\ NetInv /\ HopTypeOK
  BY Halves
<1>2. phase[n] = "answer" /\ n = Guardian
  BY SetUpAt DEF Answer
<1>3. /\ b \in HopSocket /\ f \in HopSocket /\ b \in Path /\ f \in Path
      /\ b \in Socket /\ f \in Socket /\ b # f /\ b[1] = n /\ f[1] = n
      /\ Other(b) = f /\ Other(f) = b /\ Peer(b) = On(f)
      /\ Own(On(b)) = 0 /\ Own(On(f)) = Answers
  BY <1>1, <1>2, Sides
<1>4. /\ state[b] = "open" /\ state[f] = "none" /\ written[b] = 0 /\ written[f] = 0
      /\ shape.connect /\ Answers = 1 /\ first = <<>>
      /\ read[f] = 0 /\ early["destination"] = 0
      /\ Place(On(b), written[f]) + Len(first) = read[b]
      /\ shape.relay => phase[1] = "copy" /\ n = 2
  <2>1. /\ PhaseOK(n) /\ written[b] = 0 /\ shape.connect /\ first = <<>>
        /\ early["destination"] = 0
        /\ Place(On(b), written[f]) + Len(first) = read[b]
        /\ shape.relay => phase[1] = "copy" /\ n = 2
    BY <1>2, GuardianFacts DEF Asking
  <2>2. state[b] = "open" /\ state[f] = "none"
    BY <1>2, <2>1 DEF PhaseOK, Asking
  <2>3. written[f] = 0 /\ read[f] = 0
    BY <1>1, <1>3, <2>2 DEF NetInv, NetOK
  <2>. QED
    BY <2>1, <2>2, <2>3 DEF Answers
<1>5. PICK a \in {Ok, Forbidden} :
          /\ \/ Write(b, a)
             \/ WriteFails(b) /\ UNCHANGED netVars
          /\ Enter(n, IF a = Ok THEN "dial" ELSE "leave")
  BY DEF Answer
<1>6. ~WriteFails(b)
  <2>1. Peer(b) \in Path /\ read[Peer(b)] \in Nat
    BY <1>1, <1>3, PeerLemma, CountLemma
  <2>2. b \notin reset
    <3>1. b \in reset => read[Peer(b)] < written[b]
      BY <1>1, <1>3, <1>4 DEF NetInv, NetOK
    <3>. QED
      BY <1>4, <2>1, <3>1
  <2>. QED
    BY <1>4, <2>2 DEF WriteFails
<1>7. Write(b, a)
  BY <1>5, <1>6
<1>8. NetNext /\ Onward
  <2>1. Fits(Peer(b), written[b] + 1, a)
    BY <1>3, <1>4 DEF Fits
  <2>2. a \in Piece
    BY DEF Ok, Forbidden, Piece
  <2>. QED
    BY <1>1, <1>3, <1>4, <1>7, <2>1, <2>2, WriteNet
<1>9. /\ UNCHANGED <<shape, first, held, ended, got, early>>
      /\ state' = state /\ read' = read
      /\ written'[b] = 1 /\ \A t \in Socket \ {b} : written'[t] = written[t]
  BY <1>1, <1>3, <1>4, <1>7 DEF Answer, Write, NetInv, NetOK
<1> DEFINE p == IF a = Ok THEN "dial" ELSE "leave"
<1>10. /\ phase' = [phase EXCEPT ![n] = p] /\ p \in Phases \ {"none"} /\ phase'[n] = p
       /\ shape.relay => phase'[1] = "copy"
  BY <1>1, <1>2, <1>4, <1>5, GuardianNode DEF Enter, Phases, HopTypeOK
<1>11. HeldOK(b)' /\ HeldOK(f)'
  BY <1>2, <1>3, <1>4, <1>9, <1>10, HeldNot
<1>12. PhaseOK(n)'
  BY <1>4, <1>9, <1>10 DEF PhaseOK, Asking
<1>13. SetUpInv'
  <2>1. \A i \in 1..Len(first) : FALSE
    BY <1>4
  <2>. QED
    BY <1>2, <1>3, <1>4, <1>9, <1>10, <2>1, SameShape, SameWay DEF SetUpInv, Asking
<1>14. \A t \in HopSocket : t[1] # Guardian => written'[t] = written[t]
  BY <1>1, <1>2, <1>3, <1>9, HopLemma
<1>15. \A e \in End : written'[Of(e)] = written[Of(e)]
  BY <1>1, <1>3, <1>9, EndLemma
<1>16. first' \in Seq(Piece)
  BY <1>1, <1>9 DEF HopTypeOK
<1> HIDE DEF p
<1>17. p # "copy"
  BY DEF p
<1>. QED
  BY <1>2, <1>8, <1>9, <1>10, <1>11, <1>12, <1>13, <1>14, <1>15, <1>16, <1>17, GuardianStepSame

LEMMA DialInv ==
    ASSUME TunnelAssumption, IInv, NEW n \in Hop, Dial(n)
    PROVE  IInv'
<1> DEFINE b == <<n, "back">>
           f == <<n, "front">>
<1>1. /\ shape \in Shapes /\ NetInv /\ HopTypeOK
  BY Halves
<1>2. phase[n] = "dial" /\ n = Guardian
  BY DEF Dial
<1>3. /\ b \in HopSocket /\ f \in HopSocket /\ b \in Path /\ f \in Path
      /\ b \in Socket /\ f \in Socket /\ b # f /\ b[1] = n /\ f[1] = n
      /\ Other(b) = f /\ Other(f) = b /\ From(f) = "destination"
      /\ Own(On(b)) = 0 /\ Own(On(f)) = Answers
  BY <1>1, <1>2, Sides
<1>4. /\ PhaseOK(n) /\ written[b] = Answers /\ early["destination"] = 0
      /\ Place(On(b), written[f]) + Len(first) = read[b]
      /\ \A i \in 1..Len(first) : Fits(b, read[b] - Len(first) + i, first[i])
      /\ shape.connect => first = <<>>
      /\ ~shape.connect => early["client"] = 0
      /\ shape.relay => phase[1] = "copy" /\ n = 2
  <2>1. phase[n] = "dial" /\ phase[n] \notin {"none", "copy"} /\ phase[n] \in Asking
    BY <1>2 DEF Asking
  <2>2. PhaseOK(n) /\ written[b] = Answers /\ early["destination"] = 0
    BY <1>2, <2>1, GuardianFacts
  <2>3. /\ Place(On(b), written[f]) + Len(first) = read[b]
        /\ \A i \in 1..Len(first) : Fits(b, read[b] - Len(first) + i, first[i])
    BY <1>2, <2>1, GuardianFacts
  <2>4. /\ shape.connect => first = <<>>
        /\ ~shape.connect => early["client"] = 0
        /\ shape.relay => phase[1] = "copy" /\ n = 2
    BY <1>2, <2>1, GuardianFacts
  <2>. QED
    BY <2>2, <2>3, <2>4
<1>5. state[b] = "open" /\ state[f] = "none"
  BY <1>2, <1>4 DEF PhaseOK, Asking
<1>6. written[f] = 0 /\ read[f] = 0 /\ Answers \in Nat
  BY <1>1, <1>3, <1>5 DEF NetInv, NetOK, Answers
<1>7. /\ UNCHANGED <<shape, first, held, ended, got, early>>
      /\ read' = read /\ written' = written
  BY DEF Dial, Connect, netVars
<1>8. (HeldOK(b)' /\ HeldOK(f)') \/ phase'[n] = "copy"
  BY <1>2, <1>3, <1>4, <1>6, <1>7, HeldNot
<1>9. first' \in Seq(Piece)
  BY <1>1, <1>7 DEF HopTypeOK
<1>10. CASE Connect(n)
  <2> DEFINE p == IF shape.upstream THEN "await" ELSE "write"
  <2>1. /\ phase' = [phase EXCEPT ![n] = p] /\ p \in Phases \ {"none"} /\ phase'[n] = p
        /\ shape.relay => phase'[1] = "copy"
    <3>1. Enter(n, p)
      BY <1>1, <1>2, <1>10, <1>5, <1>3 DEF Dial, Connect, Enter, netVars, NetInv, NetOK, SocketState
    <3>. QED
      BY <1>1, <1>2, <1>4, <3>1, GuardianNode DEF Enter, Phases, HopTypeOK
  <2>2. NetNext /\ Onward
    BY <1>1, <1>5, <1>10, ConnectNet
  <2>3. /\ state'[b] = "open" /\ state'[f] = "open"
        /\ \A t \in HopSocket : t[1] # Guardian => state'[t] = state[t]
    <3>1. state' = [state EXCEPT ![f] = "open", ![<<n + 1, "back">>] = "open"]
      BY <1>10 DEF Connect
    <3>2. <<n + 1, "back">> = Of("destination")
      BY <1>2 DEF Of
    <3>3. Of("destination") \notin HopSocket /\ Of("destination") \in Socket
      BY <1>1, EndLemma DEF End
    <3>4. /\ <<n + 1, "back">> \notin {b, f}
          /\ <<n + 1, "back">> \in Socket /\ <<n + 1, "back">> \notin HopSocket
      BY <1>3, <3>2, <3>3
    <3>5. state \in [Socket -> SocketState]
      BY <1>1 DEF NetInv, NetOK
    <3>6. /\ state'[f] = "open"
          /\ \A t \in Socket \ {f, <<n + 1, "back">>} : state'[t] = state[t]
      BY <1>3, <3>1, <3>4, <3>5
    <3>7. \A t \in HopSocket : t[1] # n => t \in Socket \ {f, <<n + 1, "back">>}
      BY <1>1, <1>3, <3>4, HopLemma
    <3>. QED
      BY <1>2, <1>3, <1>5, <3>4, <3>6, <3>7
  <2>4. PhaseOK(n)'
    BY <2>1, <2>3 DEF PhaseOK, Asking
  <2>5. ~shape.upstream => Place(On(f), written[b]) = Place(f, read[f])
    <3>1. /\ Shift(f) = 0 /\ Shift(On(f)) = Kept("destination") - Answers
      BY <1>1, <1>2, <1>3, ShiftLemma DEF HopTypeOK
    <3>2. ~shape.upstream => Kept("destination") = 0
      BY <1>4 DEF Kept
    <3>. QED
      BY <1>4, <1>6, <3>1, <3>2 DEF Place
  <2>6. SetUpInv'
    BY <1>2, <1>4, <1>6, <1>7, <2>1, <2>5, SameShape, SameWay DEF SetUpInv, Asking
  <2> HIDE DEF p
  <2>7. p # "copy"
    BY DEF p
  <2>. QED
    BY <1>2, <1>7, <1>8, <1>9, <2>1, <2>2, <2>3, <2>4, <2>6, <2>7, GuardianStepSame
<1>11. CASE ~Connect(n)
  <2>1. Enter(n, "leave") /\ UNCHANGED netVars
    BY <1>11 DEF Dial
  <2>2. /\ phase' = [phase EXCEPT ![n] = "leave"] /\ phase'[n] = "leave"
        /\ "leave" \in Phases \ {"none"}
        /\ shape.relay => phase'[1] = "copy"
    BY <1>1, <1>2, <1>4, <2>1, GuardianNode DEF Enter, Phases, HopTypeOK
  <2>3. NetNext /\ Onward /\ state' = state
    BY <1>1, <2>1, NetSame
  <2>4. PhaseOK(n)'
    BY <1>5, <2>2, <2>3 DEF PhaseOK, Asking
  <2>5. SetUpInv'
    BY <1>2, <1>4, <1>7, <2>2, SameShape, SameWay DEF SetUpInv, Asking
  <2>. QED
    BY <1>2, <1>7, <1>8, <1>9, <2>2, <2>3, <2>4, <2>5, GuardianStepSame
<1>. QED
  BY <1>10, <1>11

LEMMA OneFewer ==
    ASSUME NEW r \in Int, NEW l \in Int, NEW i \in Int
    PROVE  r - (l - 1) + i = r - l + (i + 1)
  OBVIOUS

LEMMA AfterWritten ==
    ASSUME NEW r \in Nat, NEW l \in Nat, NEW w \in Nat, NEW c \in Nat, w + c + l = r
    PROVE  /\ r - l + 1 = w + 1 + c
           /\ r - l + 1 > 0 /\ r - l + 1 \in Int
  OBVIOUS

\* A guardian that has read the request gives up the connection to the destination.
LEMMA GivesUp ==
    ASSUME TunnelAssumption, IInv, NEW n \in Hop, n = Guardian, phase[n] \in {"refused", "write"},
           Close(<<n, "front">>), Enter(n, "leave"),
           UNCHANGED <<shape, first, held, ended, got, early>>
    PROVE  IInv'
<1> DEFINE b == <<n, "back">>
           f == <<n, "front">>
<1>1. /\ shape \in Shapes /\ NetInv /\ HopTypeOK
  BY Halves
<1>2. phase[n] \in {"refused", "write"} /\ n = Guardian
  OBVIOUS
<1>3. /\ b \in HopSocket /\ f \in HopSocket /\ b \in Path /\ f \in Path
      /\ b \in Socket /\ f \in Socket /\ b # f /\ b[1] = n /\ f[1] = n
      /\ Other(b) = f /\ Other(f) = b /\ Peer(f) = On(b)
      /\ From(b) = "client" /\ Own(On(b)) = 0 /\ Own(On(f)) = Answers
  BY <1>1, <1>2, Sides
<1>4. /\ PhaseOK(n) /\ written[b] = Answers
      /\ ~shape.upstream => early["destination"] = 0
      /\ Place(On(b), written[f]) + Len(first) = read[b]
      /\ \A i \in 1..Len(first) : Fits(b, read[b] - Len(first) + i, first[i])
      /\ Place(On(f), written[b]) = Place(f, read[f])
      /\ shape.connect => first = <<>>
      /\ ~shape.connect => early["client"] = 0
      /\ shape.relay => phase[1] = "copy" /\ n = 2
      /\ first \in Seq(Piece) /\ Len(first) \in Nat
  <2>1. phase[n] \notin {"none", "copy"} /\ phase[n] \in Asking
    BY <1>2 DEF Asking
  <2>2. /\ PhaseOK(n) /\ written[b] = Answers
        /\ ~shape.upstream => early["destination"] = 0
        /\ Place(On(f), written[b]) = Place(f, read[f])
    BY <1>2, <2>1, GuardianFacts
  <2>3. /\ Place(On(b), written[f]) + Len(first) = read[b]
        /\ \A i \in 1..Len(first) : Fits(b, read[b] - Len(first) + i, first[i])
    BY <1>2, <2>1, GuardianFacts
  <2>4. /\ shape.connect => first = <<>>
        /\ ~shape.connect => early["client"] = 0
        /\ shape.relay => phase[1] = "copy" /\ n = 2
        /\ first \in Seq(Piece) /\ Len(first) \in Nat
    BY <1>2, <2>1, GuardianFacts
  <2>. QED
    BY <2>2, <2>3, <2>4
<1>5. state[b] = "open" /\ state[f] = "open"
  BY <1>2, <1>4 DEF PhaseOK, Asking
<1>6. /\ written[f] \in Nat /\ read[f] \in Nat /\ read[b] \in Nat /\ written[b] \in Nat
      /\ Answers \in Nat /\ Kept("client") \in Nat
      /\ Shift(b) = 0 /\ Shift(f) = 0 /\ Shift(On(b)) = Kept("client") /\ Shift(On(f)) \in Int
  <2>1. Answers \in Nat /\ Kept("client") \in Nat
    BY <1>1, KeptLemma DEF Answers, HopTypeOK, End
  <2>. QED
    BY <1>1, <1>2, <1>3, <2>1, CountLemma, ShiftLemma DEF HopTypeOK
<1>7. /\ Close(f) /\ Enter(n, "leave") /\ read' = read
      /\ UNCHANGED <<shape, first, held, ended, got, early>>
  BY DEF Close
<1>8. /\ phase' = [phase EXCEPT ![n] = "leave"] /\ phase'[n] = "leave"
      /\ "leave" \in Phases \ {"none"}
      /\ shape.relay => phase'[1] = "copy"
  BY <1>1, <1>2, <1>4, <1>7, GuardianNode DEF Enter, Phases, HopTypeOK
<1>9. NetNext /\ Onward
  BY <1>1, <1>3, <1>5, <1>7, CloseNet
<1>10. /\ written' = written /\ \A t \in Socket \ {f} : state'[t] = state[t]
  BY <1>1, <1>3, <1>7 DEF Close, NetInv, NetOK
<1>11. PhaseOK(n)'
  BY <1>3, <1>5, <1>8, <1>10 DEF PhaseOK, Asking
<1>12. HeldOK(b)' /\ HeldOK(f)'
  <2>1. Place(On(b), written[f]) <= Place(b, read[b])
    BY <1>4, <1>6 DEF Place
  <2>. QED
    BY <1>2, <1>3, <1>4, <1>6, <1>7, <1>8, <1>10, <2>1, SameWay, HeldNot
<1>13. SetUpInv'
  BY <1>2, <1>4, <1>7, <1>8, <1>10, SameShape, SameWay DEF SetUpInv, Asking
<1>14. first' \in Seq(Piece)
  BY <1>4, <1>7
<1>15. \A t \in HopSocket : t[1] # Guardian => state'[t] = state[t]
  BY <1>1, <1>2, <1>3, <1>10, HopLemma
<1>. QED
  BY <1>2, <1>7, <1>8, <1>9, <1>10, <1>11, <1>12, <1>13, <1>14, <1>15, GuardianStepSame

LEMMA RefuseInv ==
    ASSUME TunnelAssumption, IInv, NEW n \in Hop, Refuse(n)
    PROVE  IInv'
<1>1. phase[n] = "refused" /\ n = Guardian
  BY SetUpAt DEF Refuse
<1>. QED
  BY <1>1, GivesUp DEF Refuse

LEMMA WritePeekInv ==
    ASSUME TunnelAssumption, IInv, NEW n \in Hop, WritePeek(n)
    PROVE  IInv'
<1> DEFINE b == <<n, "back">>
           f == <<n, "front">>
<1>1. /\ shape \in Shapes /\ NetInv /\ HopTypeOK
  BY Halves
<1>2. phase[n] = "write" /\ n = Guardian
  BY SetUpAt DEF WritePeek
<1>3. /\ b \in HopSocket /\ f \in HopSocket /\ b \in Path /\ f \in Path
      /\ b \in Socket /\ f \in Socket /\ b # f /\ b[1] = n /\ f[1] = n
      /\ Other(b) = f /\ Other(f) = b /\ Peer(f) = On(b)
      /\ From(b) = "client" /\ Own(On(b)) = 0 /\ Own(On(f)) = Answers
  BY <1>1, <1>2, Sides
<1>4. /\ PhaseOK(n) /\ written[b] = Answers
      /\ ~shape.upstream => early["destination"] = 0
      /\ Place(On(b), written[f]) + Len(first) = read[b]
      /\ \A i \in 1..Len(first) : Fits(b, read[b] - Len(first) + i, first[i])
      /\ Place(On(f), written[b]) = Place(f, read[f])
      /\ shape.connect => first = <<>>
      /\ ~shape.connect => early["client"] = 0
      /\ shape.relay => phase[1] = "copy" /\ n = 2
      /\ first \in Seq(Piece) /\ Len(first) \in Nat
  <2>1. phase[n] \notin {"none", "copy"} /\ phase[n] \in Asking
    BY <1>2 DEF Asking
  <2>2. /\ PhaseOK(n) /\ written[b] = Answers
        /\ ~shape.upstream => early["destination"] = 0
        /\ Place(On(f), written[b]) = Place(f, read[f])
    BY <1>2, <2>1, GuardianFacts
  <2>3. /\ Place(On(b), written[f]) + Len(first) = read[b]
        /\ \A i \in 1..Len(first) : Fits(b, read[b] - Len(first) + i, first[i])
    BY <1>2, <2>1, GuardianFacts
  <2>4. /\ shape.connect => first = <<>>
        /\ ~shape.connect => early["client"] = 0
        /\ shape.relay => phase[1] = "copy" /\ n = 2
        /\ first \in Seq(Piece) /\ Len(first) \in Nat
    BY <1>2, <2>1, GuardianFacts
  <2>. QED
    BY <2>2, <2>3, <2>4
<1>5. state[b] = "open" /\ state[f] = "open"
  BY <1>2, <1>4 DEF PhaseOK, Asking
<1>6. /\ written[f] \in Nat /\ read[f] \in Nat /\ read[b] \in Nat /\ written[b] \in Nat
      /\ Answers \in Nat /\ Kept("client") \in Nat
      /\ Shift(b) = 0 /\ Shift(f) = 0 /\ Shift(On(b)) = Kept("client") /\ Shift(On(f)) \in Int
  <2>1. Answers \in Nat /\ Kept("client") \in Nat
    BY <1>1, KeptLemma DEF Answers, HopTypeOK, End
  <2>. QED
    BY <1>1, <1>2, <1>3, <2>1, CountLemma, ShiftLemma DEF HopTypeOK
<1>7. UNCHANGED <<shape, held, ended, got, early>> /\ read' = read
  BY DEF WritePeek, Write, Close, netVars
<1>8. held[b] = <<>> /\ held[f] = <<>> /\ Len(<<>>) = 0
  BY <1>1, <1>2, <1>3 DEF HopTypeOK, Copying
<1>9. CASE first = <<>>
  <2>1. Enter(n, "copy") /\ UNCHANGED <<netVars, first>>
    BY <1>9 DEF WritePeek
  <2>2. /\ phase' = [phase EXCEPT ![n] = "copy"] /\ phase'[n] = "copy"
        /\ "copy" \in Phases \ {"none"}
        /\ shape.relay => phase'[1] = "copy"
    BY <1>1, <1>2, <1>4, <2>1, GuardianNode DEF Enter, Phases, HopTypeOK
  <2>3. NetNext /\ Onward /\ state' = state /\ written' = written
    BY <1>1, <2>1, NetSame
  <2>4. PhaseOK(n)'
    BY <1>5, <2>2, <2>3 DEF PhaseOK, Asking
  <2>5. HeldOK(b)'
    <3>1. Place(On(b), written[f]) = Place(b, read[b]) /\ Place(b, read[b]) \in Int
      BY <1>4, <1>6, <1>8, <1>9 DEF Place
    <3>. QED
      BY <1>3, <1>7, <1>8, <2>3, <3>1, SameWay DEF HeldOK
  <2>6. HeldOK(f)'
    <3>1. Place(On(f), written[b]) = Place(f, read[f]) /\ Place(f, read[f]) \in Int
      BY <1>4, <1>6 DEF Place
    <3>. QED
      BY <1>3, <1>7, <1>8, <2>3, <3>1, SameWay DEF HeldOK
  <2>7. SetUpInv'
    BY <1>2, <1>4, <1>6, <1>7, <1>9, <2>1, <2>2, <2>3, SameShape, SameWay DEF SetUpInv, Asking
  <2>8. first' \in Seq(Piece)
    BY <1>4, <2>1
  <2>. QED
    BY <1>2, <1>5, <1>7, <2>2, <2>3, <2>4, <2>5, <2>6, <2>7, <2>8, GuardianStepSame
<1>10. CASE first # <<>> /\ WriteFails(f)
  <2>1. Close(f) /\ Enter(n, "leave") /\ UNCHANGED first
    BY <1>10 DEF WritePeek
  <2>. QED
    BY <1>2, <1>7, <2>1, GivesUp
<1>11. CASE first # <<>> /\ ~WriteFails(f)
  <2> DEFINE x == Head(first)
  <2>1. Write(f, x) /\ first' = Tail(first) /\ phase' = phase
    BY <1>11 DEF WritePeek
  <2>2. /\ x \in Piece /\ x = first[1] /\ 1 \in 1..Len(first)
        /\ first' \in Seq(Piece) /\ Len(first') = Len(first) - 1
        /\ \A i \in 1..Len(first') : first'[i] = first[i + 1] /\ i + 1 \in 1..Len(first)
    BY <1>4, <1>11, <2>1, EmptySeq, HeadTailProperties
  <2>3. Fits(On(b), written[f] + 1, x)
    <3> DEFINE k == read[b] - Len(first) + 1
    <3>1. Fits(b, k, x)
      BY <1>4, <2>2
    <3>2. /\ Place(On(b), written[f] + 1) = Place(b, k) /\ k > 0
          /\ written[f] + 1 > 0 /\ written[f] + 1 \in Int /\ k \in Int
      <4>1. written[f] + Kept("client") + Len(first) = read[b] /\ Len(first) \in Nat
        BY <1>4, <1>6 DEF Place
      <4>2. k = written[f] + 1 + Kept("client") /\ k > 0 /\ k \in Int
        BY <1>6, <4>1, AfterWritten
      <4> HIDE DEF k
      <4>. QED
        BY <1>6, <4>2 DEF Place
    <3> HIDE DEF k
    <3>. QED
      BY <1>1, <1>3, <3>1, <3>2, PassFits DEF HopTypeOK
  <2>4. NetNext /\ Onward
    BY <1>1, <1>3, <1>5, <2>1, <2>2, <2>3, WriteNet
  <2>5. /\ state' = state /\ written'[f] = written[f] + 1
        /\ \A t \in Socket \ {f} : written'[t] = written[t]
    BY <1>1, <1>3, <2>1 DEF Write, NetInv, NetOK
  <2>6. /\ phase' = [phase EXCEPT ![n] = "write"] /\ phase'[n] = "write"
        /\ "write" \in Phases \ {"none"}
        /\ shape.relay => phase'[1] = "copy"
    BY <1>1, <1>2, <1>4, <2>1, GuardianNode DEF Phases, HopTypeOK
  <2>7. PhaseOK(n)'
    BY <1>4, <2>1, <2>5 DEF PhaseOK, Asking
  <2>8. Place(On(b), written'[f]) + Len(first') = read[b]
    BY <1>4, <1>6, <2>2, <2>5 DEF Place
  <2>9. HeldOK(b)' /\ HeldOK(f)'
    <3>1. Place(On(b), written'[f]) <= Place(b, read[b])
      <4>1. Len(first') \in Nat /\ Place(On(b), written'[f]) \in Int
        BY <1>6, <2>2, <2>5, LenProperties DEF Place
      <4>. QED
        BY <1>6, <2>8, <4>1 DEF Place
    <3>2. written'[b] = written[b]
      BY <1>3, <2>5
    <3>. QED
      BY <1>2, <1>3, <1>4, <1>6, <1>7, <2>6, <3>1, <3>2, SameWay, HeldNot
  <2>10. \A i \in 1..Len(first') : Fits(b, read[b] - Len(first') + i, first'[i])
    <3>1. ASSUME NEW i \in 1..Len(first')
          PROVE  Fits(b, read[b] - Len(first') + i, first'[i])
      <4>1. read[b] - Len(first') + i = read[b] - Len(first) + (i + 1)
        <5>1. Len(first') = Len(first) - 1 /\ i \in Int
          BY <2>2
        <5>2. read[b] \in Int /\ Len(first) \in Int
          BY <1>4, <1>6
        <5>3. read[b] - (Len(first) - 1) + i = read[b] - Len(first) + (i + 1)
          BY <5>1, <5>2, OneFewer, Zenon
        <5>. QED
          BY <5>1, <5>3, Zenon
      <4>. QED
        BY <1>4, <2>2, <4>1
    <3>. QED
      BY <3>1
  <2>11. SetUpInv'
    <3>1. written'[b] = written[b] /\ ~shape.connect
      BY <1>3, <1>4, <1>11, <2>5
    <3>. QED
      BY <1>2, <1>4, <1>7, <2>1, <2>6, <2>8, <2>10, <3>1, SameShape, SameWay
         DEF SetUpInv, Asking
  <2>12. \A t \in HopSocket : t[1] # Guardian => written'[t] = written[t]
    BY <1>1, <1>2, <1>3, <2>5, HopLemma
  <2>13. \A e \in End : written'[Of(e)] = written[Of(e)]
    BY <1>1, <1>3, <2>5, EndLemma
  <2>. QED
    BY <1>2, <1>7, <2>2, <2>4, <2>5, <2>6, <2>7, <2>9, <2>11, <2>12, <2>13, GuardianStepSame
<1>. QED
  BY <1>9, <1>10, <1>11

\* What the relay does before it copies: the guardian has no connection yet.
LEMMA RelayStep ==
    ASSUME IInv, NetNext, Onward,
           UNCHANGED <<shape, first, held, ended, got, early, read, written>>,
           shape.relay, phase[1] \in {"dial", "leave"},
           NEW p \in {"copy", "leave", "over"}, NEW q \in {"none", "peek"},
           phase' = [phase EXCEPT ![1] = p, ![2] = q],
           p = "copy" => state' = [state EXCEPT ![<<1, "front">>] = "open",
                                                ![<<2, "back">>] = "open"] /\ q = "peek",
           p # "copy" => /\ \A t \in Socket \ {<<1, "back">>} : state'[t] = state[t]
                         /\ q = "none",
           state'[<<1, "back">>] = IF p = "over" THEN "closed" ELSE "open"
    PROVE  IInv'
<1>1. /\ shape \in Shapes /\ NetInv /\ Within /\ HopTypeOK /\ GotInv
      /\ HeldInv /\ PhaseInv /\ SetUpInv /\ EndedInv
  BY Halves
<1>2. /\ Guardian = 2 /\ 1 \in Hop /\ 2 \in Hop /\ 1 \in Node /\ 2 \in Node
      /\ \A n \in Hop : n = 1 \/ n = 2
  BY <1>1, GuardianIs DEF Guardian, Hop, Node
<1>3. /\ phase[2] = "none" /\ state[<<1, "front">>] = "none"
      /\ PhaseOK(1) /\ PhaseOK(2)
  BY <1>1, <1>2, PhaseParts
<1>4. /\ phase'[1] = p /\ phase'[2] = q /\ phase' \in [Node -> Phases]
      /\ \A m \in Node \ {1, 2} : phase'[m] = phase[m]
  <2>1. phase \in [Node -> Phases] /\ p \in Phases /\ q \in Phases
    BY <1>1 DEF HopTypeOK, Phases
  <2>2. phase' = [[phase EXCEPT ![1] = p] EXCEPT ![2] = q]
    OBVIOUS
  <2>3. [phase EXCEPT ![1] = p] \in [Node -> Phases]
    BY <2>1
  <2>. QED
    BY <1>2, <2>1, <2>2, <2>3
<1> DEFINE b1 == <<1, "back">>
           f1 == <<1, "front">>
           b2 == <<2, "back">>
           f2 == <<2, "front">>
<1>5. /\ \A t \in HopSocket : t \in Socket /\ t \in Path /\ t[1] \in {1, 2}
      /\ b1 \in HopSocket /\ f1 \in HopSocket /\ b2 \in HopSocket /\ f2 \in HopSocket
      /\ \A t \in HopSocket : t \in {b1, f1, b2, f2}
      /\ b1 # f1 /\ b1 # b2 /\ b1 # f2 /\ f1 # b2 /\ f1 # f2 /\ b2 # f2
      /\ Peer(f1) = b2
  <2>1. \A t \in HopSocket : t \in Socket /\ t \in Path
    BY <1>1, HopLemma
  <2>2. /\ b1 \in HopSocket /\ f1 \in HopSocket /\ b2 \in HopSocket /\ f2 \in HopSocket
        /\ b1 # f1 /\ b1 # b2 /\ b1 # f2 /\ f1 # b2 /\ f1 # f2 /\ b2 # f2
    BY <1>2 DEF HopSocket
  <2>3. \A t \in HopSocket : t \in {b1, f1, b2, f2} /\ t[1] \in {1, 2}
    BY <1>2 DEF HopSocket
  <2>4. Peer(f1) = b2
    BY DEF Peer
  <2>. QED
    BY <2>1, <2>2, <2>3, <2>4
<1>6. state[b1] = "open" /\ state[f2] = "none" /\ state[b2] = "none" /\ state[f1] = "none"
  <2>1. state[b1] = "open" /\ state[f2] = "none" /\ state[f1] = "none"
    BY <1>3 DEF PhaseOK
  <2>2. state[Peer(f1)] = "none"
    BY <1>1, <1>5, <2>1 DEF NetInv, NetOK
  <2>. QED
    BY <1>5, <2>1, <2>2
<1> HIDE DEF b1, f1, b2, f2
<1>7. /\ state'[f1] = IF p = "copy" THEN "open" ELSE "none"
      /\ state'[b2] = IF p = "copy" THEN "open" ELSE "none"
      /\ state'[f2] = "none"
      /\ state'[b1] = IF p = "over" THEN "closed" ELSE "open"
  <2>1. state \in [Socket -> SocketState]
    BY <1>1 DEF NetInv, NetOK
  <2>2. p = "copy" => state' = [state EXCEPT ![f1] = "open", ![b2] = "open"]
    BY DEF f1, b2
  <2>3. p # "copy" => \A t \in Socket \ {b1} : state'[t] = state[t]
    BY DEF b1
  <2>4. state'[b1] = IF p = "over" THEN "closed" ELSE "open"
    BY DEF b1
  <2>5. CASE p = "copy"
    BY <1>5, <1>6, <2>1, <2>2, <2>4, <2>5
  <2>6. CASE p # "copy"
    BY <1>5, <1>6, <2>3, <2>4, <2>6
  <2>. QED
    BY <2>5, <2>6
<1>8. \A t \in HopSocket : read[t] = 0 /\ written[t] = 0
  <2>1. read[b1] = 0 /\ written[b1] = 0
    BY <1>1 DEF SetUpInv, b1
  <2>2. \A t \in HopSocket : state[t] = "none" => read[t] = 0 /\ written[t] = 0
    BY <1>1, <1>5 DEF NetInv, NetOK
  <2>. QED
    BY <1>5, <1>6, <2>1, <2>2
<1>9. \A t \in HopSocket : held[t] = <<>> /\ ended[t] = "no"
  <2>1. ASSUME NEW t \in HopSocket PROVE held[t] = <<>> /\ ended[t] = "no"
    <3>1. phase[t[1]] # "copy"
      BY <1>3, <1>5
    <3>. QED
      BY <1>1, <1>5, <3>1 DEF HopTypeOK, Copying, EndedInv
  <2>. QED
    BY <2>1
<1>10. HopTypeOK'
  <2>1. ASSUME NEW s \in Socket, held[s] # <<>> PROVE Copying(s)'
    <3>1. Copying(s) /\ s[1] \in Node
      BY <1>1, <2>1 DEF HopTypeOK, Socket
    <3>2. s[1] # 1 /\ s[1] # 2
      BY <1>3, <3>1 DEF Copying
    <3>. QED
      BY <1>4, <3>1, <3>2 DEF Copying
  <2>. QED
    BY <1>1, <1>4, <2>1 DEF HopTypeOK
<1>11. HeldInv'
  <2>1. ASSUME NEW t \in HopSocket PROVE HeldOK(t)'
    <3>1. /\ Other(t) \in HopSocket
          /\ t[1] # Guardian => Shift(t) = Shift(On(t))
          /\ Own(On(t)) \in Nat /\ Shift(t) \in Int
      BY <1>1, HopLemma, ShiftLemma DEF HopTypeOK
    <3>2. /\ held'[t] = <<>> /\ Len(<<>>) = 0
          /\ read'[t] = 0 /\ written'[Other(t)] = 0
      <4>1. held' = held /\ read' = read /\ written' = written
        OBVIOUS
      <4>. QED
        BY <1>8, <1>9, <3>1, <4>1
    <3>3. CASE t[1] = 1
      <4>1. Place(On(t), 0) = Place(t, 0) /\ Place(t, 0) \in Int
        BY <1>2, <3>1, <3>3 DEF Place
      <4>. QED
        BY <3>2, <4>1, SameWay DEF HeldOK
    <3>4. CASE t[1] = 2
      BY <1>4, <3>1, <3>2, <3>4, SameWay DEF HeldOK, Copying
    <3>. QED
      BY <1>5, <3>3, <3>4
  <2>. QED
    BY <2>1, SameShape DEF HeldInv, HeldOK
<1>12. PhaseInv'
  <2>1. PhaseOK(1)' /\ PhaseOK(2)'
    BY <1>4, <1>7 DEF PhaseOK, Asking, b1, f1, b2, f2
  <2>2. \A n \in Hop : PhaseOK(n)'
    BY <1>2, <2>1
  <2>3. p # "copy" => state'[<<1, "front">>] = "none"
    BY <1>7 DEF f1
  <2>. QED
    BY <1>4, <2>2, <2>3, SameShape DEF PhaseInv, PhaseOK
<1>13. SetUpInv'
  <2>1. /\ read[<<2, "back">>] = 0 /\ early["client"] = 0 /\ written[<<2, "back">>] = 0
        /\ early["destination"] = 0 /\ first = <<>>
        /\ read[<<1, "back">>] = 0 /\ written[<<1, "back">>] = 0
    BY <1>1, <1>2, <1>3 DEF SetUpInv
  <2>. QED
    BY <1>2, <1>4, <2>1, SameShape, SameWay DEF SetUpInv, Asking
<1>14. EndedInv' /\ ChainInv'
  <2>1. \A t \in HopSocket :
            phase'[t[1]] = "copy" /\ state'[t] = "closed" => ended[Other(t)] # "no"
    <3>1. b1[1] = 1
      BY DEF b1
    <3>. QED
      BY <1>4, <1>5, <1>7, <3>1
  <2>2. \A n \in Hop : phase[n] = "copy" => phase'[n] = "copy"
    BY <1>2, <1>3
  <2>3. early' \in [End -> Nat]
    BY <1>1 DEF HopTypeOK
  <2>. QED
    BY <2>1, <2>2, <2>3, EndedSame
<1>15. GotInv' /\ Within'
  BY <1>1, GotSame, SameShape DEF Within, Sent
<1>. QED
  BY <1>1, <1>10, <1>11, <1>12, <1>13, <1>14, <1>15, HalvesNext, SameWay

LEMMA DialGuardianInv ==
    ASSUME IInv, DialGuardian
    PROVE  IInv'
<1>1. /\ shape \in Shapes /\ NetInv /\ HopTypeOK /\ PhaseInv
  BY Halves
<1>2. /\ 1 \in Hop /\ 2 \in Node /\ 1 \in Node /\ phase[1] = "dial" /\ shape.relay
  BY <1>1, GuardianIs DEF DialGuardian, Hop, Node
<1>3. state[<<1, "front">>] = "none" /\ state[<<1, "back">>] = "open" /\ phase[2] = "none"
  BY <1>1, <1>2, PhaseParts DEF PhaseOK
<1>4. CASE Connect(1) /\ phase' = [phase EXCEPT ![1] = "copy", ![2] = "peek"]
  <2>1. NetNext /\ Onward
    BY <1>1, <1>2, <1>3, <1>4, ConnectNet
  <2>2. /\ state' = [state EXCEPT ![<<1, "front">>] = "open", ![<<2, "back">>] = "open"]
        /\ read' = read /\ written' = written
    BY <1>4 DEF Connect
  <2>3. state'[<<1, "back">>] = "open"
    BY <1>1, <1>3, <2>2 DEF NetInv, NetOK, Socket, Node
  <2>4. UNCHANGED <<shape, first, held, ended, got, early>>
    BY DEF DialGuardian
  <2>. QED
    BY <1>2, <1>4, <2>1, <2>2, <2>3, <2>4, RelayStep
<1>5. CASE Enter(1, "leave") /\ UNCHANGED netVars
  <2>1. NetNext /\ Onward /\ state' = state /\ read' = read /\ written' = written
    BY <1>1, <1>5, NetSame
  <2>2. phase' = [phase EXCEPT ![1] = "leave", ![2] = "none"]
    BY <1>1, <1>2, <1>3, <1>5 DEF Enter, HopTypeOK
  <2>3. UNCHANGED <<shape, first, held, ended, got, early>>
    BY DEF DialGuardian
  <2>. QED
    BY <1>2, <1>3, <2>1, <2>2, <2>3, RelayStep
<1>. QED
  BY <1>4, <1>5 DEF DialGuardian

LEMMA LeaveInv ==
    ASSUME TunnelAssumption, IInv, NEW n \in Hop, Leave(n)
    PROVE  IInv'
<1> DEFINE b == <<n, "back">>
           f == <<n, "front">>
<1>1. /\ shape \in Shapes /\ NetInv /\ HopTypeOK /\ PhaseInv
  BY Halves
<1>2. /\ phase[n] = "leave" /\ Close(b) /\ phase' = [phase EXCEPT ![n] = "over"]
      /\ UNCHANGED <<shape, first, held, ended, got, early>>
  BY DEF Leave, Enter
<1>3. state[b] = "open"
  BY <1>1, <1>2, PhaseParts DEF PhaseOK
<1>4. b \in HopSocket /\ b \in Path /\ b \in Socket /\ n \in Node
  BY <1>1, NodeLemma, HopLemma
<1>5. NetNext /\ Onward
  BY <1>1, <1>2, <1>3, <1>4, CloseNet
<1>6. /\ read' = read /\ written' = written /\ state'[b] = "closed"
      /\ \A t \in Socket \ {b} : state'[t] = state[t]
  BY <1>1, <1>2, <1>4 DEF Close, NetInv, NetOK
<1>7. CASE n = Guardian
  <2>1. /\ f \in HopSocket /\ b[1] = n /\ f[1] = n
        /\ Other(b) = f /\ Other(f) = b /\ f # b
    BY <1>1, <1>7, Sides
  <2>2. /\ HeldOK(b) /\ HeldOK(f)
        /\ ~shape.upstream => early["destination"] = 0
        /\ shape.connect => first = <<>>
        /\ ~shape.connect => early["client"] = 0
        /\ shape.relay => phase[1] = "copy" /\ n = 2
        /\ first \in Seq(Piece)
    BY <1>2, <1>7, GuardianFacts
  <2>3. /\ phase'[n] = "over" /\ "over" \in Phases \ {"none"}
        /\ shape.relay => phase'[1] = "copy"
    BY <1>1, <1>2, <1>4, <1>7, <2>2, GuardianNode DEF Phases, HopTypeOK
  <2>4. HeldOK(b)' /\ HeldOK(f)'
    <3>1. /\ written[f] > Own(On(b)) => Place(On(b), written[f]) <= Place(b, read[b])
          /\ written[b] > Own(On(f)) => Place(On(f), written[b]) <= Place(f, read[f])
      BY <2>1, <2>2 DEF HeldOK
    <3>. QED
      BY <1>2, <1>4, <1>6, <2>1, <2>3, <3>1, SameWay, HeldNot
  <2>5. PhaseOK(n)'
    BY <1>6, <2>3 DEF PhaseOK, Asking
  <2>6. SetUpInv'
    BY <1>2, <1>7, <2>2, <2>3, SameShape, SameWay DEF SetUpInv, Asking
  <2>7. \A t \in HopSocket : t[1] # Guardian => state'[t] = state[t]
    BY <1>1, <1>6, <1>7, <2>1, HopLemma
  <2>. QED
    BY <1>2, <1>5, <1>6, <1>7, <2>2, <2>3, <2>4, <2>5, <2>6, <2>7, GuardianStepSame
<1>8. CASE n # Guardian
  <2>1. n = 1 /\ shape.relay /\ 2 \in Node
    BY <1>1, <1>8, GuardianNode DEF Node
  <2>2. phase[2] = "none"
    BY <1>1, <1>2, <2>1, PhaseParts
  <2>3. phase' = [phase EXCEPT ![1] = "over", ![2] = "none"]
    BY <1>1, <1>2, <2>1, <2>2 DEF HopTypeOK
  <2>. QED
    BY <1>2, <1>5, <1>6, <2>1, <2>3, RelayStep
<1>. QED
  BY <1>7, <1>8

\* What the client sent too early moves what comes behind it, on the connection to
\* the destination alone ...
LEMMA EarlyClient ==
    ASSUME shape \in Shapes, early \in [End -> Nat], shape' = shape,
           NEW j \in Nat, early' = [early EXCEPT !["client"] = j]
    PROVE  /\ \A s \in Path : s # Of("destination") =>
                /\ Shift(s)' = Shift(s) /\ Shift(s)' \in Int
                /\ \A k, x : Fits(s, k, x)' <=> Fits(s, k, x)
           /\ early' \in [End -> Nat] /\ early'["client"] = j
           /\ early'["destination"] = early["destination"]
<1>1. /\ early' \in [End -> Nat] /\ early'["client"] = j
      /\ early'["destination"] = early["destination"]
  BY DEF End
<1>2. Kept("destination")' = Kept("destination")
  BY <1>1 DEF Kept
<1>3. ASSUME NEW s \in Path, s # Of("destination")
      PROVE  Shift(s)' = Shift(s) /\ Shift(s)' \in Int
  <2>1. Behind(s) => From(s) = "destination"
    BY <1>3, GuardianIs DEF Path, HopSocket, Hop, Of, End, Behind, From
  <2>2. Behind(s)' <=> Behind(s)
    BY SameShape DEF Behind
  <2>3. Kept("destination") \in Nat /\ Own(s) \in Nat
    BY KeptLemma DEF End, Own, Answers
  <2>4. From(s)' = From(s)
    BY DEF From
  <2>. QED
    BY <1>2, <2>1, <2>2, <2>3, <2>4, SameShape DEF Shift
<1>4. ASSUME NEW s \in Path, s # Of("destination"), NEW k, NEW x
      PROVE  Fits(s, k, x)' <=> Fits(s, k, x)
  BY <1>3, <1>4, SameShape DEF Fits, Place, From
<1>. QED
  BY <1>1, <1>3, <1>4

\* ... and what the destination sent too early moves nothing on its own connection,
\* and behind the guardian only what comes after the answer to CONNECT.
LEMMA EarlyDestination ==
    ASSUME shape \in Shapes, early \in [End -> Nat], shape' = shape,
           NEW j \in Nat, early' = [early EXCEPT !["destination"] = j]
    PROVE  /\ \A s \in Path : ~Behind(s) \/ s[2] = "back" =>
                /\ Shift(s)' = Shift(s) /\ Shift(s)' \in Int
                /\ \A k, x : Fits(s, k, x)' <=> Fits(s, k, x)
           /\ \A s \in Path : \A k, x : k <= Own(s) => (Fits(s, k, x)' <=> Fits(s, k, x))
           /\ early' \in [End -> Nat] /\ early'["destination"] = j
           /\ early'["client"] = early["client"]
<1>1. /\ early' \in [End -> Nat] /\ early'["destination"] = j
      /\ early'["client"] = early["client"]
  BY DEF End
<1>2. Kept("client")' = Kept("client")
  BY <1>1 DEF Kept, Request, Pieces
<1>3. ASSUME NEW s \in Path, ~Behind(s) \/ s[2] = "back"
      PROVE  Shift(s)' = Shift(s) /\ Shift(s)' \in Int
  <2>1. Behind(s) => From(s) = "client"
    BY <1>3 DEF From
  <2>2. Behind(s)' <=> Behind(s)
    BY SameShape DEF Behind
  <2>3. Kept("client") \in Nat /\ Own(s) \in Nat
    BY KeptLemma DEF End, Own, Answers
  <2>4. From(s)' = From(s)
    BY DEF From
  <2>. QED
    BY <1>2, <2>1, <2>2, <2>3, <2>4, SameShape DEF Shift
<1>4. ASSUME NEW s \in Path, ~Behind(s) \/ s[2] = "back", NEW k, NEW x
      PROVE  Fits(s, k, x)' <=> Fits(s, k, x)
  BY <1>3, <1>4, SameShape DEF Fits, Place, From
<1>5. ASSUME NEW s \in Path, NEW k, NEW x, k <= Own(s)
      PROVE  Fits(s, k, x)' <=> Fits(s, k, x)
  BY <1>5, SameShape DEF Fits
<1>. QED
  BY <1>1, <1>3, <1>4, <1>5

LEMMA PeekInv ==
    ASSUME TunnelAssumption, IInv, NEW n \in Hop, Peek(n)
    PROVE  IInv'
<1> DEFINE b == <<n, "back">>
           f == <<n, "front">>
           d == <<n + 1, "back">>
<1>1. /\ shape \in Shapes /\ NetInv /\ HopTypeOK /\ GotInv /\ HeldInv
  BY Halves
<1>2. phase[n] = "peek" /\ n = Guardian
  BY SetUpAt DEF Peek
<1>3. /\ b \in HopSocket /\ f \in HopSocket /\ b \in Path /\ f \in Path
      /\ b \in Socket /\ f \in Socket /\ b # f /\ b[1] = n /\ f[1] = n
      /\ Other(b) = f /\ Other(f) = b /\ Peer(f) = On(b)
      /\ From(b) = "client" /\ Own(On(b)) = 0 /\ Own(On(f)) = Answers
      /\ Of("destination") = d /\ On(b) = d /\ d \in Path /\ d \notin HopSocket
  <2>1. d = Of("destination")
    BY <1>2 DEF Of
  <2>2. d \in Path /\ d \notin HopSocket
    BY <1>1, <2>1, EndLemma DEF End
  <2>. QED
    BY <1>1, <1>2, <2>1, <2>2, Sides
<1>4. /\ PhaseOK(n) /\ read[b] = 0 /\ early["client"] = 0 /\ written[b] = 0
      /\ early["destination"] = 0 /\ first = <<>>
      /\ shape.relay => phase[1] = "copy" /\ n = 2
  BY <1>2, GuardianFacts
<1>5. state[b] = "open" /\ state[f] = "none" /\ state[d] = "none"
  <2>1. state[b] = "open" /\ state[f] = "none"
    BY <1>2, <1>4 DEF PhaseOK
  <2>. QED
    BY <1>1, <1>3, <2>1 DEF NetInv, NetOK
<1>6. written[f] = 0 /\ read[f] = 0 /\ read[d] = 0 /\ Answers \in Nat
  BY <1>1, <1>3, <1>5 DEF NetInv, NetOK, Answers
<1>7. UNCHANGED <<shape, held, ended, got>> /\ written' = written /\ state' = state
  BY DEF Peek, Take, netVars
<1>8. phase'[n] # "copy" => HeldOK(b)' /\ HeldOK(f)'
  BY <1>2, <1>3, <1>6, <1>4, <1>7, HeldNot
<1>9. \A p \in Phases : Enter(n, p) =>
          /\ phase' = [phase EXCEPT ![n] = p] /\ phase'[n] = p
          /\ shape.relay => phase'[1] = "copy"
  BY <1>1, <1>2, <1>4, GuardianNode DEF Enter, HopTypeOK
<1>10. {"leave", "answer", "dial"} \subseteq Phases \ {"none", "copy"}
  BY DEF Phases
<1>11. CASE NothingToRead(b)
  <2>1. Enter(n, "leave") /\ UNCHANGED <<netVars, first, early>>
    BY <1>11 DEF Peek
  <2>2. NetNext /\ Onward /\ read' = read
    BY <1>1, <2>1, NetSame
  <2>3. PhaseOK(n)'
    BY <1>5, <1>7, <1>9, <1>10, <2>1 DEF PhaseOK, Asking
  <2>4. SetUpInv'
    BY <1>2, <1>4, <1>7, <1>9, <1>10, <2>1, <2>2, SameShape, SameWay DEF SetUpInv, Asking
  <2>5. first' \in Seq(Piece)
    BY <1>1, <2>1 DEF HopTypeOK
  <2>. QED
    BY <1>2, <1>7, <1>8, <1>9, <1>10, <2>1, <2>2, <2>3, <2>4, <2>5, GuardianStepSame
<1>12. CASE ~NothingToRead(b)
  <2>1. PICK k \in 1..Len(queue[b]) :
              /\ Take(b, k)
              /\ \/ Enter(n, "leave") /\ UNCHANGED <<first, early>>
                 \/ /\ k >= Len(Request)
                    /\ IF shape.connect
                       THEN /\ early' = [early EXCEPT !["client"] = k - Len(Request)]
                            /\ Enter(n, "answer") /\ UNCHANGED first
                       ELSE /\ first' = SubSeq(queue[b], 1, k)
                            /\ Enter(n, "dial") /\ UNCHANGED early
    BY <1>12 DEF Peek
  <2>2. NetNext /\ Onward
    BY <1>1, <1>3, <2>1, TakeNet
  <2>3. /\ k \in Nat /\ k > 0 /\ read'[b] = k
        /\ \A t \in Socket \ {b} : read'[t] = read[t]
    BY <1>1, <1>3, <1>4, <2>1 DEF Take, NetInv, NetOK
  <2>4. \A t \in HopSocket : t[1] # Guardian =>
            state'[t] = state[t] /\ read'[t] = read[t] /\ written'[t] = written[t]
    BY <1>1, <1>2, <1>3, <1>7, <2>3, HopLemma
  <2>5. \A e \in End : read'[Of(e)] = read[Of(e)] /\ written'[Of(e)] = written[Of(e)]
    BY <1>1, <1>3, <1>7, <2>3, EndLemma
  <2>6. CASE Enter(n, "leave") /\ UNCHANGED <<first, early>>
    <3>1. PhaseOK(n)'
      BY <1>5, <1>7, <1>9, <1>10, <2>6 DEF PhaseOK, Asking
    <3>2. SetUpInv'
      BY <1>2, <1>4, <1>7, <1>9, <1>10, <2>6, SameShape, SameWay DEF SetUpInv, Asking
    <3>3. first' \in Seq(Piece)
      BY <1>1, <2>6 DEF HopTypeOK
    <3>. QED
      BY <1>2, <1>7, <1>8, <1>9, <1>10, <2>2, <2>4, <2>5, <2>6, <3>1, <3>2, <3>3,
         GuardianStepSame
  <2>7. CASE ~shape.connect /\ first' = SubSeq(queue[b], 1, k) /\ Enter(n, "dial")
             /\ UNCHANGED early
    <3>1. PhaseOK(n)'
      BY <1>5, <1>7, <1>9, <1>10, <2>7 DEF PhaseOK, Asking
    <3>2. /\ first' \in Seq(Piece) /\ Len(first') = k
          /\ \A i \in 1..k : first'[i] = queue[b][i]
      <4>1. queue[b] \in Seq(Piece) /\ Len(queue[b]) \in Nat
        BY <1>1, <1>3, CountLemma
      <4>2. k \in 0..Len(queue[b])
        BY <2>3, <4>1
      <4>. QED
        BY <2>7, <4>1, <4>2, FirstLemma
    <3>3. \A i \in 1..Len(first') : Fits(b, read'[b] - Len(first') + i, first'[i])
      <4>1. ASSUME NEW i \in 1..k PROVE Fits(b, i, queue[b][i])
        <5>1. i \in 1..Len(queue[b]) /\ read[b] + i = i
          BY <1>1, <1>3, <1>4, <2>3, CountLemma
        <5>2. Fits(b, read[b] + i, queue[b][i])
          BY <1>1, <1>3, <5>1 DEF NetInv, NetOK
        <5>. QED
          BY <5>1, <5>2
      <4>2. \A i \in 1..k : read'[b] - Len(first') + i = i
        BY <2>3, <3>2
      <4>. QED
        BY <3>2, <4>1, <4>2
    <3>4. Place(On(b), written[f]) + Len(first') = read'[b]
      <4>1. Shift(On(b)) = Kept("client") /\ Kept("client") = 0
        <5>1. Kept("client") = 0
          BY <1>4, <2>7 DEF Kept
        <5>2. Shift(On(b)) = Kept("client") - 0
          BY <1>1, <1>2, <1>3, ShiftLemma DEF HopTypeOK
        <5>. QED
          BY <5>1, <5>2
      <4>. QED
        BY <1>6, <2>3, <3>2, <4>1 DEF Place
    <3>5. SetUpInv'
      <4>1. Answers = 0 /\ Guardian' = n /\ Answers' = 0
        BY <1>2, <1>7, <2>7, SameShape DEF Answers
      <4>2. phase'[n] = "dial" /\ (shape.relay => phase'[1] = "copy")
        BY <1>9, <1>10, <2>7
      <4>3. (\A i \in 1..Len(first) : Fits(b, read[b] - Len(first) + i, first[i]))'
        BY <1>7, <2>7, <3>3, SameWay
      <4>4. (Place(On(b), written[f]) + Len(first) = read[b])'
        BY <1>7, <2>7, <3>4, SameWay
      <4>. QED
        BY <1>4, <1>7, <2>7, <4>1, <4>2, <4>3, <4>4 DEF SetUpInv
    <3>. QED
      BY <1>2, <1>7, <1>8, <1>9, <1>10, <2>2, <2>4, <2>5, <2>7, <3>1, <3>2, <3>5,
         GuardianStepSame
  <2>8. CASE /\ k >= Len(Request) /\ shape.connect
             /\ early' = [early EXCEPT !["client"] = k - Len(Request)]
             /\ Enter(n, "answer") /\ UNCHANGED first
    <3>1. PhaseOK(n)'
      BY <1>5, <1>7, <1>9, <1>10, <2>8 DEF PhaseOK, Asking
    <3>2. k - 2 \in Nat /\ early' = [early EXCEPT !["client"] = k - 2]
      BY <2>3, <2>8, RequestLemma
    <3>3. /\ \A s \in Path : s # d =>
                /\ Shift(s)' = Shift(s) /\ Shift(s)' \in Int
                /\ \A j, x : Fits(s, j, x)' <=> Fits(s, j, x)
          /\ early' \in [End -> Nat] /\ early'["client"] = k - 2
          /\ early'["destination"] = early["destination"]
      BY <1>1, <1>3, <1>7, <3>2, EarlyClient DEF HopTypeOK
    <3>4. ASSUME NEW s \in Path, NEW i, NEW j, NEW x, i \in 1..Len(queue'[s]), Fits(s, j, x)
          PROVE  Fits(s, j, x)'
      <4>1. s # d
        <5>1. d \in Socket /\ queue'[d] = <<>> /\ Len(<<>>) = 0
          BY <1>1, <1>3, <1>5, <1>7, <2>2, PeerLemma DEF NetNext, NetOK
        <5>2. SUFFICES s = d => FALSE
          OBVIOUS
        <5>. QED
          BY <3>4, <5>1
      <4>. QED
        BY <3>3, <3>4, <4>1
    <3>5. GotInv'
      <4>1. ASSUME NEW e \in End
            PROVE  /\ Len(got[e]) = read'[Of(e)]
                   /\ \A i \in 1..Len(got[e]) : Fits(Of(e), i, got[e][i])'
        <5>1. /\ Len(got[e]) = read[Of(e)] /\ Of(e) \in Path
              /\ \A i \in 1..Len(got[e]) : Fits(Of(e), i, got[e][i])
          BY <1>1, EndLemma DEF GotInv
        <5>2. CASE Of(e) = d
          BY <1>6, <2>5, <5>1, <5>2
        <5>3. CASE Of(e) # d
          BY <1>7, <2>5, <3>3, <5>1, <5>3, SameShape
        <5>. QED
          BY <5>2, <5>3
      <4>. QED
        BY <1>7, <4>1, SameShape DEF GotInv
    <3>6. ASSUME NEW t \in HopSocket, t[1] # Guardian PROVE HeldOK(t)'
      <4>1. HeldOK(t) /\ Other(t) \in HopSocket /\ Other(t)[1] = t[1] /\ t[1] \in Node
        BY <1>1, HeldParts, HopLemma, NodeLemma
      <4>2. t \in Path /\ On(t) \in Path /\ t # d /\ On(t) # d
        <5>1. t \in Path /\ On(t) \in Path /\ Peer(On(t)) = Other(t)
          BY <1>1, HopLemma
        <5>2. Peer(d) = f
          BY <1>1, <1>3, PeerLemma
        <5>. QED
          BY <1>2, <1>3, <3>6, <4>1, <5>1, <5>2
      <4>3. /\ Place(t, read[t])' = Place(t, read[t])
            /\ Place(On(t), written[Other(t)])' = Place(On(t), written[Other(t)])
            /\ Fits(t, read[t], held[t][1])' <=> Fits(t, read[t], held[t][1])
        BY <1>7, <2>4, <3>3, <3>6, <4>2 DEF Place
      <4>4. (Copying(t)' <=> Copying(t)) /\ phase'[t[1]] = phase[t[1]]
        BY <1>1, <1>2, <1>7, <1>9, <1>10, <2>8, <3>6, <4>1 DEF Copying, HopTypeOK
      <4>. QED
        BY <1>7, <4>1, <4>3, <4>4, SameShape DEF HeldOK
    <3>7. (Place(On(b), written[f]) + Len(first) = read[b])'
      <4>1. Kept("client")' = k
        BY <1>7, <2>3, <2>8, <3>3, RequestLemma, SameShape DEF Kept, Request, Pieces
      <4>2. Shift(On(b))' = Kept("client")' - Own(On(b))'
        BY <1>1, <1>2, <1>3, <1>7, <3>3, ShiftNext, SameShape
      <4>3. Shift(On(b))' = k
        BY <1>3, <1>7, <2>3, <4>1, <4>2, SameShape
      <4>4. first' = <<>> /\ Len(<<>>) = 0
        BY <1>4, <2>8
      <4>. QED
        BY <1>6, <1>7, <2>3, <4>3, <4>4 DEF Place
    <3>8. SetUpInv'
      <4>1. first' = <<>> /\ \A i \in 1..Len(<<>>) : FALSE
        BY <1>4, <2>8
      <4>. QED
        BY <1>2, <1>4, <1>7, <1>9, <1>10, <2>8, <3>3, <3>7, <4>1, SameShape
           DEF SetUpInv, Asking
    <3>9. first' \in Seq(Piece)
      BY <1>1, <2>8 DEF HopTypeOK
    <3>. QED
      BY <1>2, <1>7, <1>8, <1>9, <1>10, <2>2, <2>4, <2>5, <2>8, <3>1, <3>3, <3>4, <3>5, <3>6,
         <3>8, <3>9, GuardianStep
  <2>. QED
    BY <2>1, <2>6, <2>7, <2>8
<1>. QED
  BY <1>11, <1>12

LEMMA AwaitInv ==
    ASSUME TunnelAssumption, IInv, NEW n \in Hop, Await(n)
    PROVE  IInv'
<1> DEFINE b == <<n, "back">>
           f == <<n, "front">>
<1>1. /\ shape \in Shapes /\ NetInv /\ HopTypeOK /\ GotInv /\ HeldInv
  BY Halves
<1>2. phase[n] = "await" /\ n = Guardian
  BY SetUpAt DEF Await
<1>3. /\ b \in HopSocket /\ f \in HopSocket /\ b \in Path /\ f \in Path
      /\ b \in Socket /\ f \in Socket /\ b # f /\ b[1] = n /\ f[1] = n
      /\ Other(b) = f /\ Other(f) = b /\ Peer(b) = On(f)
      /\ From(b) = "client" /\ From(f) = "destination"
      /\ Own(On(b)) = 0 /\ Own(On(f)) = Answers
  BY <1>1, <1>2, Sides
<1>4. /\ PhaseOK(n) /\ written[b] = Answers /\ read[f] = 0 /\ written[f] = 0
      /\ early["destination"] = 0 /\ shape.upstream
      /\ Place(On(b), written[f]) + Len(first) = read[b]
      /\ \A i \in 1..Len(first) : Fits(b, read[b] - Len(first) + i, first[i])
      /\ shape.connect => first = <<>>
      /\ ~shape.connect => early["client"] = 0
      /\ shape.relay => phase[1] = "copy" /\ n = 2
  <2>1. phase[n] = "await" /\ phase[n] \notin {"none", "copy"} /\ phase[n] \in Asking
    BY <1>2 DEF Asking
  <2>2. PhaseOK(n) /\ written[b] = Answers /\ read[f] = 0 /\ written[f] = 0
    BY <1>2, <2>1, GuardianFacts
  <2>3. early["destination"] = 0 /\ shape.upstream
    BY <1>2, <2>1, GuardianFacts
  <2>4. /\ Place(On(b), written[f]) + Len(first) = read[b]
        /\ \A i \in 1..Len(first) : Fits(b, read[b] - Len(first) + i, first[i])
    BY <1>2, <2>1, GuardianFacts
  <2>5. /\ shape.connect => first = <<>>
        /\ ~shape.connect => early["client"] = 0
        /\ shape.relay => phase[1] = "copy" /\ n = 2
    BY <1>2, <2>1, GuardianFacts
  <2>. QED
    BY <2>2, <2>3, <2>4, <2>5
<1>5. state[b] = "open" /\ state[f] = "open" /\ Answers \in Nat
  BY <1>2, <1>4 DEF PhaseOK, Asking, Answers
<1>6. UNCHANGED <<shape, first, held, ended, got>> /\ written' = written
  BY DEF Await, Take, Close
<1>7. phase'[n] # "copy" => HeldOK(b)' /\ HeldOK(f)'
  BY <1>2, <1>3, <1>4, <1>5, <1>6, HeldNot
<1>8. \A p \in Phases : Enter(n, p) =>
          /\ phase' = [phase EXCEPT ![n] = p] /\ phase'[n] = p
          /\ shape.relay => phase'[1] = "copy"
  BY <1>1, <1>2, <1>4, GuardianNode DEF Enter, HopTypeOK
<1>9. {"leave", "refused", "write"} \subseteq Phases \ {"none", "copy"}
  BY DEF Phases
<1>10. first' \in Seq(Piece)
  BY <1>1, <1>6 DEF HopTypeOK
<1>11. CASE NothingToRead(f)
  <2>1. Close(f) /\ Enter(n, "leave") /\ UNCHANGED early
    BY <1>11 DEF Await
  <2>2. NetNext /\ Onward
    BY <1>1, <1>3, <1>5, <2>1, CloseNet
  <2>3. /\ read' = read /\ \A t \in Socket \ {f} : state'[t] = state[t]
    BY <1>1, <1>3, <2>1 DEF Close, NetInv, NetOK
  <2>4. PhaseOK(n)'
    BY <1>3, <1>5, <1>8, <1>9, <2>1, <2>3 DEF PhaseOK, Asking
  <2>5. SetUpInv'
    BY <1>2, <1>4, <1>6, <1>8, <1>9, <2>1, SameShape, SameWay DEF SetUpInv, Asking
  <2>6. \A t \in HopSocket : t[1] # Guardian => state'[t] = state[t]
    BY <1>1, <1>2, <1>3, <2>3, HopLemma
  <2>. QED
    BY <1>2, <1>6, <1>7, <1>8, <1>9, <1>10, <2>1, <2>2, <2>3, <2>4, <2>5, <2>6,
       GuardianStepSame
<1>12. CASE ~NothingToRead(f)
  <2>1. PICK k \in 1..Len(queue[f]), p \in {"refused", "write"} :
              /\ Take(f, k)
              /\ early' = [early EXCEPT !["destination"] = k - 1]
              /\ Enter(n, p)
    BY <1>12 DEF Await
  <2>2. NetNext /\ Onward
    BY <1>1, <1>3, <2>1, TakeNet
  <2>3. /\ k \in Nat /\ k - 1 \in Nat /\ read'[f] = k /\ state' = state
        /\ \A t \in Socket \ {f} : read'[t] = read[t]
    BY <1>1, <1>3, <1>4, <2>1 DEF Take, NetInv, NetOK
  <2>4. \A t \in HopSocket : t[1] # Guardian => t # f /\ t # b /\ read'[t] = read[t]
    BY <1>1, <1>2, <1>3, <2>3, HopLemma
  <2>5. /\ \A s \in Path : ~Behind(s) \/ s[2] = "back" =>
                /\ Shift(s)' = Shift(s) /\ Shift(s)' \in Int
                /\ \A j, x : Fits(s, j, x)' <=> Fits(s, j, x)
        /\ \A s \in Path : \A j, x : j <= Own(s) => (Fits(s, j, x)' <=> Fits(s, j, x))
        /\ early' \in [End -> Nat] /\ early'["destination"] = k - 1
        /\ early'["client"] = early["client"]
    BY <1>1, <1>6, <2>1, <2>3, EarlyDestination DEF HopTypeOK
  \* Nothing but its answer has gone from the guardian to the client.
  <2>6. ASSUME NEW s \in Path, ~(~Behind(s) \/ s[2] = "back")
        PROVE  Own(s) = Answers /\ read'[s] + Len(queue'[s]) <= Own(s)
    <3>1. /\ s[2] = "front" /\ Own(s) = Answers
          /\ s[1] = n - 1 \/ (n = 2 /\ shape.relay /\ s[1] = 0)
      <4>1. s[2] \in {"back", "front"} /\ Behind(s)
        BY <2>6 DEF Path, HopSocket, Of, End
      <4>2. s[2] = "front" /\ s[1] < n /\ s[1] \in {0, 1, 2, 3}
        BY <1>1, <1>2, <2>6, <4>1, PeerLemma DEF Behind, Socket, Node
      <4>3. n \in {1, 2} /\ (n = 2 => shape.relay)
        BY <1>1, <1>2, GuardianIs DEF Guardian
      <4>. QED
        BY <4>1, <4>2, <4>3 DEF Own
    <3>2. Peer(s) = <<s[1] + 1, "back">>
      BY <3>1 DEF Peer
    <3>3. read'[s] + Len(queue'[s]) <= written[Peer(s)]
      BY <1>6, <2>2 DEF NetNext, NetOK
    <3>4. written[Peer(s)] <= Answers
      <4>1. CASE s[1] = n - 1
        <5>1. Peer(s) = b
          BY <1>2, <1>1, <3>2, <4>1, GuardianIs
        <5>. QED
          BY <1>4, <1>5, <5>1
      <4>2. CASE n = 2 /\ shape.relay /\ s[1] = 0
        <5> DEFINE f1 == <<1, "front">>
        <5>1. /\ f1 \in HopSocket /\ f1 \in Path /\ Other(f1) = <<1, "back">>
              /\ Peer(f1) = b /\ f1[1] = 1
          <6>1. 1 \in Hop
            BY <1>2, <4>2 DEF Hop
          <6>2. f1 \in HopSocket /\ Other(f1) = <<1, "back">>
            BY <1>1, <6>1, NodeLemma DEF Other
          <6>3. Peer(f1) = <<1 + 1, "back">>
            BY DEF Peer
          <6>. QED
            BY <1>1, <1>2, <4>2, <6>2, <6>3, HopLemma
        <5>2. Peer(s) = <<1, "back">> /\ <<1, "back">> \in Path
          BY <1>1, <3>2, <4>2, PeerLemma
        <5>3. /\ written[<<1, "back">>] \in Nat /\ read[f1] \in Nat /\ Len(queue[f1]) \in Nat
              /\ Shift(f1) = Shift(On(f1)) /\ Shift(f1) \in Int
          BY <1>1, <1>2, <4>2, <5>1, <5>2, CountLemma, ShiftLemma DEF HopTypeOK
        <5>4. Place(On(f1), written[<<1, "back">>]) <= Place(f1, read[f1])
          BY <1>1, <1>4, <4>2, <5>1 DEF HeldInv
        <5>5. read[f1] + Len(queue[f1]) <= written[b]
          BY <1>1, <5>1 DEF NetInv, NetOK
        <5> HIDE DEF f1
        <5>6. written[<<1, "back">>] <= read[f1]
          BY <5>3, <5>4 DEF Place
        <5>. QED
          BY <1>4, <1>5, <5>2, <5>3, <5>5, <5>6
      <4>. QED
        BY <3>1, <4>1, <4>2
    <3>5. /\ read'[s] \in Nat /\ Len(queue'[s]) \in Nat /\ written[Peer(s)] \in Nat
      BY <1>1, <2>2, CountNext, CountLemma
    <3>. QED
      BY <1>5, <3>1, <3>3, <3>4, <3>5
  <2>7. ASSUME NEW s \in Path, NEW i, NEW j, NEW x,
               i \in 1..Len(queue'[s]), j = read'[s] + i, Fits(s, j, x)
        PROVE  Fits(s, j, x)'
    <3>1. CASE ~Behind(s) \/ s[2] = "back"
      BY <2>5, <2>7, <3>1
    <3>2. CASE ~(~Behind(s) \/ s[2] = "back")
      <4>1. /\ Own(s) = Answers /\ read'[s] + Len(queue'[s]) <= Own(s)
            /\ read'[s] \in Nat /\ Len(queue'[s]) \in Nat
        BY <1>1, <2>2, <2>6, <3>2, CountNext
      <4>2. j <= Own(s)
        BY <1>5, <2>7, <4>1
      <4>. QED
        BY <2>5, <2>7, <4>2
    <3>. QED
      BY <3>1, <3>2
  <2>8. \A e \in End : read'[Of(e)] = read[Of(e)] /\ Of(e) \in Path
    BY <1>1, <1>3, <2>3, EndLemma
  <2>9. ASSUME NEW s \in Path, NEW j \in Nat, j <= read'[s], NEW x, Fits(s, j, x)
        PROVE  Fits(s, j, x)'
    <3>1. CASE ~Behind(s) \/ s[2] = "back"
      BY <2>5, <2>9, <3>1
    <3>2. CASE ~(~Behind(s) \/ s[2] = "back")
      <4>1. /\ Own(s) = Answers /\ read'[s] + Len(queue'[s]) <= Own(s)
            /\ read'[s] \in Nat /\ Len(queue'[s]) \in Nat
        BY <1>1, <2>2, <2>6, <3>2, CountNext
      <4>2. j <= Own(s)
        BY <1>5, <2>9, <4>1
      <4>. QED
        BY <2>5, <2>9, <4>2
    <3>. QED
      BY <3>1, <3>2
  <2>10. GotInv'
    <3>1. ASSUME NEW e \in End
          PROVE  /\ Len(got[e]) = read'[Of(e)]
                 /\ \A i \in 1..Len(got[e]) : Fits(Of(e), i, got[e][i])'
      <4>1. /\ Len(got[e]) = read[Of(e)] /\ Len(got[e]) \in Nat
            /\ \A i \in 1..Len(got[e]) : Fits(Of(e), i, got[e][i])
        BY <1>1, LenProperties DEF GotInv, HopTypeOK
      <4>2. ASSUME NEW i \in 1..Len(got[e]) PROVE Fits(Of(e), i, got[e][i])'
        <5>1. i \in Nat /\ i <= read'[Of(e)] /\ Of(e) \in Path
          BY <2>8, <4>1
        <5>2. \A s, x : s = Of(e) /\ x = got[e][i] => Fits(s, i, x)'
          BY <2>9, <4>1, <5>1
        <5>. QED
          BY <1>6, <5>2, SameShape
      <4>. QED
        BY <2>8, <4>1, <4>2
    <3>. QED
      BY <1>6, <3>1, SameShape DEF GotInv
  <2>11. ASSUME NEW t \in HopSocket, t[1] # Guardian PROVE HeldOK(t)'
    <3>1. /\ HeldOK(t) /\ t \in Path /\ On(t) \in Path /\ Other(t) \in Socket /\ t[1] \in Node
          /\ read[t] \in Nat /\ written[Other(t)] \in Nat /\ held[t] \in Seq(Piece)
      <4>1. HeldOK(t) /\ t \in Path /\ On(t) \in Path /\ Other(t) \in HopSocket /\ t[1] \in Node
        BY <1>1, HeldParts, HopLemma, NodeLemma
      <4>2. Other(t) \in Path /\ Other(t) \in Socket
        BY <1>1, <4>1, HopLemma
      <4>. QED
        BY <1>1, <4>1, <4>2, CountLemma, HopLemma DEF HopTypeOK
    <3>2. /\ Shift(t) = Shift(On(t)) /\ Shift(t)' = Shift(On(t))'
          /\ Shift(t) \in Int /\ Shift(t)' \in Int
      BY <1>1, <1>6, <2>5, <2>11, ShiftLemma, ShiftNext, SameShape DEF HopTypeOK
    <3>3. (Copying(t)' <=> Copying(t)) /\ phase'[t[1]] = phase[t[1]]
      BY <1>1, <1>2, <1>6, <1>8, <1>9, <2>1, <2>11, <3>1 DEF Copying, HopTypeOK
    <3>4. held[t] # <<>> => Fits(t, read[t], held[t][1])'
      <4>1. Fits(t, read[t], held[t][1]) => \A x, j : x = held[t][1] /\ j = read[t] => Fits(t, j, x)'
        BY <2>4, <2>9, <2>11, <3>1
      <4>2. held[t] # <<>> => \A x, j : x = held[t][1] /\ j = read[t] => Fits(t, j, x)'
        BY <3>1, <4>1 DEF HeldOK
      <4>. QED
        BY <1>6, <2>4, <2>11, <4>2
    <3>5. Len(held[t]) \in Nat
      BY <3>1, LenProperties
    <3>6. Copying(t) => (Place(On(t), written[Other(t)]) + Len(held[t]) = Place(t, read[t]))'
      <4>1. Copying(t) => written[Other(t)] + Shift(On(t)) + Len(held[t]) = read[t] + Shift(t)
        BY <3>1 DEF HeldOK, Place
      <4>2. Copying(t) => written[Other(t)] + Len(held[t]) = read[t]
        <5> DEFINE w == written[Other(t)]
                   h == Len(held[t])
                   r == read[t]
        <5>1. w \in Int /\ h \in Int /\ r \in Int
          BY <3>1, <3>5
        <5>2. Copying(t) => w + Shift(t) + h = r + Shift(t)
          BY <3>2, <4>1
        <5> HIDE DEF w, h, r
        <5>3. \A l \in Int : w + l + h = r + l => w + h = r
          BY <5>1
        <5>4. Copying(t) => w + h = r
          BY <3>2, <5>2, <5>3
        <5>. QED
          BY <5>4 DEF w, h, r
      <4>3. Copying(t) =>
              written[Other(t)] + Shift(On(t))' + Len(held[t]) = read[t] + Shift(t)'
        BY <3>1, <3>2, <3>5, <4>2
      <4>. QED
        BY <1>6, <2>4, <2>11, <4>3 DEF Place
    <3>7. phase[t[1]] = "copy" \/ written[Other(t)] > Own(On(t)) =>
            (Place(On(t), written[Other(t)]) <= Place(t, read[t]))'
      <4>1. phase[t[1]] = "copy" \/ written[Other(t)] > Own(On(t)) =>
              written[Other(t)] + Shift(On(t)) <= read[t] + Shift(t)
        BY <3>1 DEF HeldOK, Place
      <4>2. phase[t[1]] = "copy" \/ written[Other(t)] > Own(On(t)) =>
              written[Other(t)] <= read[t]
        BY <3>1, <3>2, <4>1
      <4>3. phase[t[1]] = "copy" \/ written[Other(t)] > Own(On(t)) =>
              written[Other(t)] + Shift(On(t))' <= read[t] + Shift(t)'
        BY <3>1, <3>2, <4>2
      <4>. QED
        BY <1>6, <2>4, <2>11, <4>3 DEF Place
    <3>. QED
      BY <1>6, <3>3, <3>4, <3>6, <3>7, SameShape DEF HeldOK
  <2>12. (Place(On(f), written[b]) = Place(f, read[f]))'
    <3>1. Kept("destination")' = k
      BY <1>4, <1>6, <2>3, <2>5 DEF Kept
    <3>2. Shift(f)' = 0 /\ Shift(On(f))' = Kept(From(f))' - Own(On(f))'
      BY <1>1, <1>2, <1>3, <1>6, <2>5, ShiftNext, SameShape
    <3>3. Kept(From(f))' = k
      BY <1>3, <3>1 DEF From
    <3>4. Shift(On(f))' = k - Answers
      BY <1>3, <1>6, <3>2, <3>3, SameShape
    <3>. QED
      BY <1>4, <1>5, <1>6, <2>3, <3>2, <3>4 DEF Place
  <2>13. /\ (Place(On(b), written[f]) + Len(first) = read[b])'
         /\ (\A i \in 1..Len(first) : Fits(b, read[b] - Len(first) + i, first[i]))'
    <3>1. On(b) \in Path /\ On(b)[2] = "back" /\ b[2] = "back"
      BY <1>1, <1>3, HopLemma DEF On, Peer, Other
    <3>2. Shift(On(b))' = Shift(On(b)) /\ \A j, x : Fits(b, j, x)' <=> Fits(b, j, x)
      BY <1>3, <2>5, <3>1
    <3>3. read'[b] = read[b]
      BY <1>3, <2>3
    <3>. QED
      BY <1>4, <1>6, <3>2, <3>3 DEF Place
  <2>14. SetUpInv'
    <3>1. Answers' = Answers /\ Guardian' = n
      BY <1>2, <1>6, SameShape
    <3>2. phase'[n] = p /\ (shape.relay => phase'[1] = "copy")
      BY <1>8, <1>9, <2>1
    <3>. QED
      BY <1>4, <1>6, <2>5, <2>12, <2>13, <3>1, <3>2 DEF SetUpInv
  <2>15. PhaseOK(n)'
    BY <1>5, <1>8, <1>9, <2>1, <2>3 DEF PhaseOK, Asking
  <2>. QED
    BY <1>2, <1>6, <1>7, <1>8, <1>9, <1>10, <2>1, <2>2, <2>3, <2>5, <2>7, <2>10, <2>11,
       <2>14, <2>15, GuardianStep
<1>. QED
  BY <1>11, <1>12

-------------------------------------------------------------------------------
(* The invariant holds                                                        *)

LEMMA InitInv ==
    ASSUME TunnelAssumption, Init
    PROVE  IInv
<1>1. /\ shape \in Shapes /\ reset = {} /\ first = <<>>
      /\ queue = [s \in Socket |-> <<>>] /\ held = [s \in Socket |-> <<>>]
      /\ read = [s \in Socket |-> 0] /\ written = [s \in Socket |-> 0]
      /\ ended = [s \in Socket |-> "no"]
      /\ got = [e \in End |-> <<>>] /\ early = [e \in End |-> 0]
  BY DEF Init
<1>2. /\ state = [s \in Socket |-> IF s \in {<<0, "front">>, <<1, "back">>}
                                   THEN "open" ELSE "none"]
      /\ phase = [n \in Node |-> IF n # 1 THEN "none"
                                 ELSE IF shape.relay THEN "dial" ELSE "peek"]
  BY DEF Init
<1>3. /\ <<>> \in Seq(Piece) /\ Len(<<>>) = 0 /\ Capacity \in Nat
  BY DEF TunnelAssumption
<1>4. \A s \in Path : /\ s \in Socket /\ Peer(s) \in Socket
                      /\ s \in {<<0, "front">>, <<1, "back">>} <=>
                           Peer(s) \in {<<0, "front">>, <<1, "back">>}
  <2>1. \A s \in Path : /\ s \in Socket /\ Peer(s) \in Path /\ Peer(Peer(s)) = s
    BY <1>1, PeerLemma
  <2>2. Peer(<<0, "front">>) = <<1, "back">> /\ Peer(<<1, "back">>) = <<0, "front">>
    BY DEF Peer
  <2>3. \A s \in Path : Peer(s) \in Socket
    BY <1>1, <2>1, PeerLemma
  <2>. QED
    BY <2>1, <2>2, <2>3
<1>5. NetInv
  <2>1. state \in [Socket -> SocketState]
    BY <1>2 DEF SocketState
  <2>2. \A s \in Path : /\ state[s] = "none" => state[Peer(s)] = "none"
                        /\ state[s] # "half"
    BY <1>2, <1>4
  <2>. QED
    BY <1>1, <1>3, <1>4, <2>1, <2>2 DEF NetInv, NetOK
<1>6. Within
  BY <1>1, ScriptLemma, EndLemma DEF Within, Sent
<1>7. phase \in [Node -> Phases] /\ \A n \in Node : phase[n] # "copy"
  BY <1>2 DEF Phases
<1>8. HopTypeOK
  BY <1>1, <1>3, <1>7 DEF HopTypeOK, Reasons
<1>9. GotInv
  BY <1>1, <1>3, EndLemma DEF GotInv
<1>10. \A s \in HopSocket : /\ s \in Socket /\ Other(s) \in Socket /\ s[1] \in Node
                            /\ Own(On(s)) \in Nat
  <2>1. \A s \in HopSocket : s \in Socket /\ Other(s) \in HopSocket
    BY <1>1, HopLemma
  <2>2. \A s \in HopSocket : Other(s) \in Socket /\ s[1] \in Node
    BY <1>1, <2>1, HopLemma, GuardianIs DEF Hop, Node
  <2>. QED
    BY <1>1, <1>8, <2>1, <2>2, ShiftLemma DEF HopTypeOK
<1>11. HeldInv
  BY <1>1, <1>7, <1>10 DEF HeldInv, Copying
<1>12. PhaseInv
  <2>1. \A n \in Hop : PhaseOK(n)
    <3>1. \A n \in Hop : n \in Node /\ <<n, "back">> \in Socket /\ <<n, "front">> \in Socket
      BY <1>1, GuardianIs DEF Hop, Node, Socket
    <3>2. \A n \in Hop : <<n, "front">> # <<0, "front">> /\ <<n, "front">> # <<1, "back">>
      BY DEF Hop
    <3>. QED
      BY <1>2, <3>1, <3>2 DEF PhaseOK, Asking
  <2>2. <<1, "front">> \in Socket /\ 1 \in Node /\ 2 \in Node
    BY DEF Socket, Node
  <2>. QED
    BY <1>2, <2>1, <2>2, PhaseParts DEF Guardian
<1>13. SetUpInv
  <2>1. /\ Guardian \in Node /\ <<Guardian, "back">> \in Socket /\ <<Guardian, "front">> \in Socket
        /\ <<1, "back">> \in Socket
    BY <1>1, GuardianIs DEF Node, Socket
  <2>2. phase[Guardian] \in {"none", "peek"}
    BY <1>2, <2>1 DEF Guardian
  <2>. QED
    BY <1>1, <2>1, <2>2 DEF SetUpInv, Asking, End
<1>14. EndedInv /\ ChainInv
  BY <1>1, <1>7, <1>10 DEF EndedInv, ChainInv
<1>. QED
  BY <1>1, <1>5, <1>6, <1>8, <1>9, <1>11, <1>12, <1>13, <1>14, Halves

LEMMA SameInv ==
    ASSUME IInv, UNCHANGED vars
    PROVE  IInv'
<1>1. /\ shape \in Shapes /\ NetInv /\ Within /\ HopTypeOK /\ GotInv
  BY Halves
<1>2. /\ UNCHANGED <<shape, early, got>> /\ UNCHANGED netVars /\ UNCHANGED hopVars
  BY DEF vars
<1>3. /\ NetNext /\ Onward
      /\ state' = state /\ read' = read /\ written' = written
  BY <1>1, <1>2, NetSame
<1>4. GotInv' /\ Within'
  BY <1>1, <1>2, <1>3, GotSame, SameShape DEF Within, Sent
<1>5. got' \in [End -> Seq(Piece)]
  BY <1>1, <1>2 DEF HopTypeOK
<1>. QED
  BY <1>2, <1>3, <1>4, <1>5, EndStep

LEMMA StepInv ==
    ASSUME TunnelAssumption, IInv, [Next]_vars
    PROVE  IInv'
<1>1. CASE DialGuardian
  BY <1>1, DialGuardianInv
<1>2. ASSUME NEW n \in Hop, SetUp(n) PROVE IInv'
  <2>1. CASE Peek(n)
    BY <2>1, PeekInv
  <2>2. CASE Answer(n)
    BY <2>2, AnswerInv
  <2>3. CASE Dial(n)
    BY <2>3, DialInv
  <2>4. CASE Await(n)
    BY <2>4, AwaitInv
  <2>5. CASE Refuse(n)
    BY <2>5, RefuseInv
  <2>6. CASE WritePeek(n)
    BY <2>6, WritePeekInv
  <2>7. CASE Leave(n)
    BY <2>7, LeaveInv
  <2>. QED
    BY <1>2, <2>1, <2>2, <2>3, <2>4, <2>5, <2>6, <2>7 DEF SetUp
<1>3. ASSUME NEW s \in HopSocket, Copy(s) PROVE IInv'
  BY <1>3, CopyReadInv, CopyWriteInv, CopyEndsInv DEF Copy
<1>4. ASSUME NEW e \in End, Send(e) \/ Receive(e) \/ HalfClose(e) \/ EndCloses(e)
      PROVE  IInv'
  BY <1>4, SendInv, ReceiveInv, HalfCloseInv, EndClosesInv
<1>5. CASE UNCHANGED vars
  BY <1>5, SameInv
<1>. QED
  BY <1>1, <1>2, <1>3, <1>4, <1>5 DEF Next

\* Tunnel's state is well formed in every behaviour: nothing is kept for a closed
\* socket, no system buffer overflows, and only a hop that copies holds a piece
\* (handleConnection, runRelay).
THEOREM TypeCorrect == Spec => []TypeOK
<1>1. Init => IInv
  BY InitInv, TunnelAssumption
<1>2. IInv /\ [Next]_vars => IInv'
  BY StepInv, TunnelAssumption
<1>3. IInv => TypeOK
  BY DEF IInv
<1>. QED
  BY <1>1, <1>2, <1>3, PTL DEF Spec

\* The inductive invariant of Tunnel: what is under way, held, written and kept of
\* each piece, and why each io.Copy of handleConnection and runRelay has ended.
THEOREM AlwaysIInv == Spec => []IInv
<1>1. Init => IInv
  BY InitInv, TunnelAssumption
<1>2. IInv /\ [Next]_vars => IInv'
  BY StepInv, TunnelAssumption
<1>. QED
  BY <1>1, <1>2, PTL DEF Spec

-------------------------------------------------------------------------------
(* What the ends receive                                                      *)

\* The way from an end to the other.
LEMMA WayLemma ==
    ASSUME shape \in Shapes, NEW e \in End, NEW o \in End, e # o,
           NEW s, s = Peer(Of(e))
    PROVE  /\ s \in HopSocket /\ Peer(s) = Of(e) /\ On(Other(s)) = Of(e)
           /\ From(s) = e /\ ~Behind(s)
           /\ Behind(Of(o)) /\ From(Of(o)) = e
           /\ Own(Of(o)) = IF o = "client" THEN Answers ELSE 0
           /\ Guardian = 1 => On(s) = Of(o) /\ Peer(Other(s)) = Of(o) /\ ~Behind(Other(s))
           /\ Guardian = 2 => /\ On(s) \in HopSocket /\ On(On(s)) = Of(o) /\ shape.relay
                              /\ Peer(Other(On(s))) = Of(o) /\ ~Behind(Other(On(s)))
                              /\ Peer(Other(s)) = On(s) /\ Peer(On(s)) = Other(s)
                              /\ On(Other(On(s))) = Other(s)
<1>1. (e = "client" /\ o = "destination") \/ (e = "destination" /\ o = "client")
  BY DEF End
<1>2. CASE Guardian = 1
  BY <1>1, <1>2 DEF HopSocket, Hop, Of, Peer, Other, On, From, Behind, Own
<1>3. CASE Guardian = 2
  <2>1. shape.relay
    BY <1>3 DEF Guardian
  <2>. QED
    BY <1>1, <1>3, <2>1 DEF HopSocket, Hop, Of, Peer, Other, On, From, Behind, Own
<1>. QED
  BY <1>2, <1>3, GuardianIs

\* What has passed a hop was read from it before, and was written to it before that.
LEMMA PassedLemma ==
    ASSUME IInv, NEW s \in HopSocket,
           phase[s[1]] = "copy" \/ read[On(s)] > Own(On(s))
    PROVE  /\ Place(On(s), read[On(s)]) <= Place(On(s), written[Other(s)])
           /\ Place(On(s), written[Other(s)]) <= Place(s, read[s])
           /\ Place(s, read[s]) <= Place(s, written[Peer(s)])
           /\ read[On(s)] \in Nat /\ written[Other(s)] \in Nat
           /\ read[s] \in Nat /\ written[Peer(s)] \in Nat
<1>1. /\ shape \in Shapes /\ NetInv /\ HopTypeOK /\ HeldInv /\ early \in [End -> Nat]
  BY Halves DEF HopTypeOK
<1>2. s \in Path /\ On(s) \in Path /\ Peer(On(s)) = Other(s)
  BY <1>1, HopLemma
<1>3. /\ read[On(s)] \in Nat /\ written[Other(s)] \in Nat
      /\ read[s] \in Nat /\ written[Peer(s)] \in Nat
      /\ Len(queue[s]) \in Nat /\ Len(queue[On(s)]) \in Nat
  BY <1>1, <1>2, CountLemma
<1>4. /\ read[On(s)] + Len(queue[On(s)]) <= written[Other(s)]
      /\ read[s] + Len(queue[s]) <= written[Peer(s)]
  BY <1>1, <1>2 DEF NetInv, NetOK
<1>5. read[On(s)] <= written[Other(s)] /\ read[s] <= written[Peer(s)]
  BY <1>3, <1>4
<1>6. Shift(s) \in Int /\ Shift(On(s)) \in Int /\ Own(On(s)) \in Nat
  BY <1>1, ShiftLemma
<1>7. phase[s[1]] = "copy" \/ written[Other(s)] > Own(On(s))
  BY <1>3, <1>5, <1>6
<1>8. Place(On(s), written[Other(s)]) <= Place(s, read[s])
  BY <1>1, <1>7 DEF HeldInv
<1>. QED
  BY <1>3, <1>5, <1>6, <1>8 DEF Place

\* What an end has received the other has sent.
LEMMA SentLemma ==
    ASSUME IInv, NEW e \in End, NEW o \in End, e # o, read[Of(o)] > Own(Of(o))
    PROVE  Place(Of(o), read[Of(o)]) <= Sent(e)
<1> DEFINE s == Peer(Of(e))
<1>1. /\ shape \in Shapes /\ NetInv /\ early \in [End -> Nat]
  BY Halves DEF HopTypeOK
<1>2. /\ s \in HopSocket /\ Peer(s) = Of(e) /\ ~Behind(s)
      /\ Guardian = 1 => On(s) = Of(o)
      /\ Guardian = 2 => On(s) \in HopSocket /\ On(On(s)) = Of(o) /\ Peer(On(s)) = Other(s)
  BY <1>1, WayLemma
<1> HIDE DEF s
<1>3. Shift(s) = 0 /\ Place(s, written[Peer(s)]) = Sent(e)
  <2>1. Shift(s) = 0
    BY <1>2 DEF Shift, Own
  <2>2. written[Of(e)] \in Nat
    BY <1>1, EndLemma, CountLemma
  <2>. QED
    BY <1>2, <2>1, <2>2 DEF Place, Sent
<1>4. CASE Guardian = 1
  <2>1. /\ Place(On(s), read[On(s)]) <= Place(On(s), written[Other(s)])
        /\ Place(On(s), written[Other(s)]) <= Place(s, read[s])
        /\ Place(s, read[s]) <= Place(s, written[Peer(s)])
        /\ read[On(s)] \in Nat /\ written[Other(s)] \in Nat
        /\ read[s] \in Nat /\ written[Peer(s)] \in Nat
    BY <1>2, <1>4, PassedLemma
  <2>2. Shift(s) \in Int /\ Shift(On(s)) \in Int
    BY <1>1, <1>2, ShiftLemma
  <2>. QED
    BY <1>2, <1>3, <1>4, <2>1, <2>2 DEF Place
<1>5. CASE Guardian = 2
  <2> DEFINE r == On(s)
  <2>1. /\ Place(On(r), read[On(r)]) <= Place(On(r), written[Other(r)])
        /\ Place(On(r), written[Other(r)]) <= Place(r, read[r])
        /\ Place(r, read[r]) <= Place(r, written[Peer(r)])
        /\ read[On(r)] \in Nat /\ written[Other(r)] \in Nat
        /\ read[r] \in Nat /\ written[Peer(r)] \in Nat
    BY <1>2, <1>5, PassedLemma
  <2>2. /\ Shift(s) \in Int /\ Shift(r) \in Int /\ Shift(On(r)) \in Int
        /\ Own(r) \in Nat /\ Own(On(r)) \in Nat
    BY <1>1, <1>2, <1>5, ShiftLemma
  <2>3. phase[s[1]] = "copy" \/ read[On(s)] > Own(On(s))
    <3>1. CASE r[1] = Guardian
      <4>1. /\ Own(r) = 0 /\ Shift(r) = 0
            /\ Shift(On(r)) = Kept(From(r)) - Own(On(r))
        BY <1>1, <1>2, <1>5, <3>1, ShiftLemma
      <4>2. Kept(From(r)) \in Nat
        BY <1>1, KeptLemma DEF From, End
      <4>. QED
        BY <1>2, <1>5, <2>1, <2>2, <4>1, <4>2 DEF Place
    <3>2. CASE r[1] # Guardian
      <4>1. Own(r) = Own(On(r)) /\ Shift(r) = Shift(On(r))
        BY <1>1, <1>2, <1>5, <3>2, ShiftLemma
      <4>. QED
        BY <1>2, <1>5, <2>1, <2>2, <4>1 DEF Place
    <3>. QED
      BY <3>1, <3>2
  <2>4. /\ Place(On(s), read[On(s)]) <= Place(On(s), written[Other(s)])
        /\ Place(On(s), written[Other(s)]) <= Place(s, read[s])
        /\ Place(s, read[s]) <= Place(s, written[Peer(s)])
        /\ read[On(s)] \in Nat /\ written[Other(s)] \in Nat
        /\ read[s] \in Nat /\ written[Peer(s)] \in Nat
    BY <1>2, <2>3, PassedLemma
  <2>. QED
    BY <1>2, <1>3, <1>5, <2>1, <2>2, <2>4 DEF Place
<1>. QED
  BY <1>1, <1>4, <1>5, GuardianIs

\* A part of a sequence that begins behind its end is empty.
LEMMA PartLemma ==
    ASSUME NEW S, NEW q \in Seq(S), NEW m \in Nat, NEW n \in Nat, n <= Len(q)
    PROVE  /\ SubSeq(q, m + 1, n) \in Seq(S)
           /\ Len(SubSeq(q, m + 1, n)) = IF m < n THEN n - m ELSE 0
           /\ \A i \in 1..Len(SubSeq(q, m + 1, n)) : SubSeq(q, m + 1, n)[i] = q[m + i]
<1>1. /\ \A i \in (m + 1)..n : q[i] \in S
      /\ m + 1 \in Int /\ n \in Int
  OBVIOUS
<1>2. /\ SubSeq(q, m + 1, n) \in Seq(S)
      /\ Len(SubSeq(q, m + 1, n)) = IF m + 1 <= n THEN n - (m + 1) + 1 ELSE 0
      /\ \A i \in 1..(n - (m + 1) + 1) : SubSeq(q, m + 1, n)[i] = q[m + 1 + i - 1]
  BY <1>1, SubSeqProperties
<1>. QED
  BY <1>2

\* An end receives, behind the answers of the guardian, what the other has sent,
\* and all of it once it has read to its place.
LEMMA ReceivedLemma ==
    ASSUME TunnelAssumption, IInv, NEW e \in End, NEW o \in End, e # o,
           NEW a, a = Own(Of(o)), NEW g, g = SubSeq(got[o], a + 1, Len(got[o]))
    PROVE  /\ IsPrefix(g, ForOther(e))
           /\ Len(g) = IF a < Len(got[o]) THEN Len(got[o]) - a ELSE 0
           /\ Len(ForOther(e)) = IF Kept(e) < Sent(e) THEN Sent(e) - Kept(e) ELSE 0
           /\ Place(Of(o), read[Of(o)]) = Sent(e) => g = ForOther(e)
           /\ Place(Of(o), read[Of(o)]) = Len(got[o]) + Kept(e) - a
           /\ Kept(e) \in Nat /\ Sent(e) \in Nat /\ Len(got[o]) \in Nat
<1> DEFINE f == ForOther(e)
           k == Kept(e)
<1>1. /\ shape \in Shapes /\ NetInv /\ Within /\ GotInv
      /\ got \in [End -> Seq(Piece)] /\ early \in [End -> Nat]
  BY Halves DEF HopTypeOK
<1>2. /\ k \in Nat /\ a \in Nat
      /\ got[o] \in Seq(Piece) /\ Len(got[o]) \in Nat /\ Len(got[o]) = read[Of(o)]
      /\ \A i \in 1..Len(got[o]) : Fits(Of(o), i, got[o][i])
  BY <1>1, KeptLemma, LenProperties DEF GotInv, Own, Answers
<1>3. /\ Script(e) \in Seq(Piece) /\ Len(Script(e)) \in Nat
      /\ Sent(e) \in Nat /\ Sent(e) <= Len(Script(e))
  BY <1>1, ScriptLemma, EndLemma, CountLemma DEF Within, Sent
<1>4. Shift(Of(o)) = k - a
  BY <1>1, WayLemma DEF Shift
<1>5. /\ g \in Seq(Piece) /\ Len(g) \in Nat
      /\ Len(g) = IF a < Len(got[o]) THEN Len(got[o]) - a ELSE 0
      /\ \A i \in 1..Len(g) : g[i] = got[o][a + i]
  <2> DEFINE q == got[o]
             n == Len(got[o])
  <2>1. /\ q \in Seq(Piece) /\ n \in Nat /\ n <= Len(q) /\ a \in Nat
        /\ g = SubSeq(q, a + 1, n)
    BY <1>2
  <2> HIDE DEF q, n
  <2>2. ASSUME NEW m \in Nat, NEW p, p = SubSeq(q, m + 1, n)
        PROVE  /\ p \in Seq(Piece)
               /\ Len(p) = IF m < n THEN n - m ELSE 0
               /\ \A i \in 1..Len(p) : p[i] = q[m + i]
    BY <2>1, <2>2, PartLemma
  <2>3. /\ g \in Seq(Piece)
        /\ Len(g) = IF a < n THEN n - a ELSE 0
        /\ \A i \in 1..Len(g) : g[i] = q[a + i]
    BY <2>1, <2>2, Zenon
  <2>. QED
    BY <2>3, LenProperties DEF q, n
<1>6. /\ f \in Seq(Piece) /\ Len(f) \in Nat
      /\ Len(f) = IF k < Sent(e) THEN Sent(e) - k ELSE 0
      /\ \A i \in 1..Len(f) : f[i] = Script(e)[k + i]
  <2> DEFINE q == Script(e)
             n == Sent(e)
  <2>1. /\ q \in Seq(Piece) /\ n \in Nat /\ n <= Len(q) /\ k \in Nat
        /\ f = SubSeq(q, k + 1, n)
    BY <1>2, <1>3 DEF ForOther
  <2> HIDE DEF q, n, k, f
  <2>2. /\ f \in Seq(Piece)
        /\ Len(f) = IF k < n THEN n - k ELSE 0
        /\ \A i \in 1..Len(f) : f[i] = q[k + i]
    BY <2>1, PartLemma
  <2>. QED
    BY <2>2, LenProperties DEF q, n
<1>7. ASSUME NEW i \in 1..Len(g) PROVE g[i] = Script(e)[k + i]
  <2>1. a + i \in 1..Len(got[o]) /\ ~(a + i <= a)
    BY <1>2, <1>5
  <2>2. Fits(Of(o), a + i, got[o][a + i]) /\ From(Of(o)) = e
    BY <1>1, <1>2, <2>1, WayLemma
  <2>3. Place(Of(o), a + i) = k + i
    BY <1>2, <1>4 DEF Place
  <2>. QED
    BY <1>5, <2>1, <2>2, <2>3 DEF Fits
<1>8. Place(Of(o), read[Of(o)]) = Len(got[o]) + k - a
  BY <1>2, <1>4 DEF Place
<1>9. Len(g) <= Len(f)
  <2>1. CASE a < Len(got[o])
    <3>1. Place(Of(o), read[Of(o)]) <= Sent(e)
      BY <1>2, <2>1, SentLemma
    <3>. QED
      BY <1>2, <1>3, <1>5, <1>6, <1>8, <2>1, <3>1
  <2>2. CASE ~(a < Len(got[o]))
    BY <1>5, <1>6, <2>2
  <2>. QED
    BY <2>1, <2>2
<1> HIDE DEF f, k
<1>10. \A i \in 1..Len(g) : g[i] = f[i]
  BY <1>5, <1>6, <1>7, <1>9
<1>11. IsPrefix(g, f)
  BY <1>5, <1>6, <1>9, <1>10, PrefixLemma
<1>12. Place(Of(o), read[Of(o)]) = Sent(e) => g = f
  <2> SUFFICES ASSUME Place(Of(o), read[Of(o)]) = Sent(e)
               PROVE  g = f
    OBVIOUS
  <2>1. Len(got[o]) - a = Sent(e) - k
    BY <1>2, <1>3, <1>8
  <2>2. Len(g) = Len(f)
    <3>1. CASE a < Len(got[o])
      BY <1>2, <1>3, <1>5, <1>6, <2>1, <3>1
    <3>2. CASE ~(a < Len(got[o]))
      BY <1>2, <1>3, <1>5, <1>6, <2>1, <3>2
    <3>. QED
      BY <3>1, <3>2
  <2>. QED
    BY <1>5, <1>6, <1>10, <2>2, SeqEqual
<1>13. Len(f) = IF k < Sent(e) THEN Sent(e) - k ELSE 0
  BY <1>6
<1>14. Len(g) = IF a < Len(got[o]) THEN Len(got[o]) - a ELSE 0
  BY <1>5
<1>15. k \in Nat /\ Sent(e) \in Nat /\ Len(got[o]) \in Nat
  BY <1>2, <1>3
<1>. QED
  BY <1>8, <1>11, <1>12, <1>13, <1>14, <1>15, Zenon DEF f, k

LEMMA InOrderLemma ==
    ASSUME TunnelAssumption, IInv
    PROVE  InOrder
<1>1. /\ shape \in Shapes /\ GotInv /\ got \in [End -> Seq(Piece)]
  BY Halves DEF HopTypeOK
<1>2. "client" \in End /\ "destination" \in End /\ "client" # "destination"
  BY DEF End
<1>3. Own(Of("client")) = Answers /\ Own(Of("destination")) = 0
  BY <1>1, <1>2, WayLemma
<1>4. got["destination"] \in Seq(Piece) /\ got["client"] \in Seq(Piece)
  BY <1>1, <1>2
<1>5. IsPrefix(got["destination"], ForOther("client"))
  <2>1. SubSeq(got["destination"], 0 + 1, Len(got["destination"])) = got["destination"]
    BY <1>4, SubSeqFull
  <2>. QED
    BY <1>2, <1>3, <2>1, ReceivedLemma
<1>6. IsPrefix(FromDestination, ForOther("destination"))
  BY <1>2, <1>3, ReceivedLemma DEF FromDestination
<1>7. ASSUME shape.connect, got["client"] # <<>> PROVE got["client"][1] \in {Ok, Forbidden}
  <2>1. 1 \in 1..Len(got["client"])
    BY <1>4, <1>7, EmptySeq, LenProperties
  <2>2. Fits(Of("client"), 1, got["client"][1])
    BY <1>1, <1>2, <2>1 DEF GotInv
  <2>3. Own(Of("client")) = 1
    BY <1>3, <1>7 DEF Answers
  <2>. QED
    BY <2>2, <2>3 DEF Fits
<1>. QED
  BY <1>5, <1>6, <1>7 DEF InOrder

\* Each end receives what the other sent, in order and without a gap, whatever the
\* hops buffer, whoever closes and wherever a reset strikes, but for what the
\* guardian keeps (handleConnection, runRelay).
THEOREM ReceivedInOrder == Spec => []InOrder
<1>1. IInv => InOrder
  BY InOrderLemma, TunnelAssumption
<1>. QED
  BY <1>1, AlwaysIInv, PTL

-------------------------------------------------------------------------------
(* The end of what an end receives                                            *)

\* Behind a guardian that copies, every hop does.
LEMMA AllCopy ==
    ASSUME IInv, Established, NEW s \in HopSocket
    PROVE  phase[s[1]] = "copy"
<1>1. /\ shape \in Shapes /\ PhaseInv /\ phase[Guardian] = "copy"
  BY Halves DEF Established
<1>2. s[1] \in Hop
  BY <1>1, HopLemma
<1>3. CASE s[1] = Guardian
  BY <1>1, <1>3
<1>4. CASE s[1] # Guardian
  <2>1. s[1] = 1 /\ Guardian = 2 /\ shape.relay
    BY <1>1, <1>2, <1>4, GuardianIs DEF Hop, Guardian
  <2>. QED
    BY <1>1, <2>1, PhaseParts
<1>. QED
  BY <1>3, <1>4

\* A hop that has passed on all that was written to it.
Drained(s) ==
    /\ read[s] = written[Peer(s)] /\ read[On(s)] = written[Other(s)]
    /\ Place(On(s), written[Other(s)]) = Place(s, read[s])

LEMMA DrainedLemma ==
    ASSUME IInv, NEW s \in HopSocket, phase[s[1]] = "copy",
           Place(On(s), read[On(s)]) >= Place(s, written[Peer(s)])
    PROVE  Drained(s)
<1>1. /\ shape \in Shapes /\ early \in [End -> Nat]
  BY Halves DEF HopTypeOK
<1>2. /\ Place(On(s), read[On(s)]) <= Place(On(s), written[Other(s)])
      /\ Place(On(s), written[Other(s)]) <= Place(s, read[s])
      /\ Place(s, read[s]) <= Place(s, written[Peer(s)])
      /\ read[On(s)] \in Nat /\ written[Other(s)] \in Nat
      /\ read[s] \in Nat /\ written[Peer(s)] \in Nat
  BY PassedLemma
<1>3. Shift(s) \in Int /\ Shift(On(s)) \in Int
  BY <1>1, ShiftLemma
<1>. QED
  BY <1>2, <1>3 DEF Place, Drained

\* The side of a hop towards an open end, closed, with nothing left to come: its
\* io.Copy in this direction has read the end, unless the hop could not pass on in
\* the other direction.
LEMMA SawEnd ==
    ASSUME IInv, NEW s \in HopSocket, phase[s[1]] = "copy", Drained(s),
           state[s] = "closed", state[Peer(s)] = "open"
    PROVE  ended[Other(s)] = "eof"
<1> DEFINE t == Other(s)
<1>1. /\ shape \in Shapes /\ EndedInv /\ NetInv /\ HopTypeOK /\ early \in [End -> Nat]
  BY Halves DEF HopTypeOK
<1>2. /\ t \in HopSocket /\ Other(t) = s /\ t[1] = s[1] /\ On(t) = Peer(s) /\ Peer(t) = On(s)
      /\ t \in Socket /\ s \in Socket
  <2>1. t \in HopSocket /\ Other(t) = s /\ t[1] = s[1] /\ s \in Socket
    BY <1>1, HopLemma
  <2>. QED
    BY <1>1, <2>1, HopLemma DEF On
<1>3. ended[t] \in Reasons /\ ended[s] \in Reasons
  BY <1>1, <1>2 DEF HopTypeOK
<1>4. /\ read[s] \in Nat /\ written[t] \in Nat /\ read[On(s)] \in Nat
  BY PassedLemma
<1>5. ended[t] # "no"
  BY <1>1, <1>2 DEF EndedInv
<1>6. ended[t] # "write"
  BY <1>1, <1>2 DEF EndedInv
<1>7. ended[t] # "reset"
  BY <1>1, <1>2, <1>4 DEF EndedInv, Drained
<1>8. ended[t] # "closed"
  <2> SUFFICES ASSUME ended[t] = "closed" PROVE FALSE
    OBVIOUS
  <2>1. ended[s] \in {"eof", "reset", "write"}
    BY <1>1, <1>2, <1>3 DEF EndedInv, Reasons
  <2>2. ended[s] # "eof" /\ ended[s] # "reset"
    BY <1>1 DEF EndedInv
  <2>3. ended[s] # "write"
    <3>1. Shift(s) \in Int /\ Shift(On(s)) \in Int
      BY <1>1, ShiftLemma
    <3>. QED
      BY <1>1, <1>4, <3>1 DEF EndedInv, Drained, Place
  <2>. QED
    BY <2>1, <2>2, <2>3
<1>. QED
  BY <1>3, <1>5, <1>6, <1>7, <1>8 DEF Reasons

\* An end that reads the end, and whose own bytes were all received, has received
\* everything.
LEMMA CompleteLemma ==
    ASSUME IInv, Established, NEW e \in End, NEW o \in End, e # o,
           Ended(e), state[Of(e)] = "open",
           Place(Of(o), read[Of(o)]) >= Sent(e)
    PROVE  Place(Of(e), read[Of(e)]) = Sent(o)
<1> DEFINE s == Peer(Of(e))
           t == Other(s)
<1>1. /\ shape \in Shapes /\ NetInv /\ HopTypeOK /\ EndedInv /\ ChainInv
      /\ early \in [End -> Nat]
  BY Halves DEF HopTypeOK
<1>2. /\ s \in HopSocket /\ Peer(s) = Of(e) /\ On(t) = Of(e) /\ ~Behind(s)
      /\ Guardian = 1 => On(s) = Of(o) /\ Peer(t) = Of(o) /\ ~Behind(t)
      /\ Guardian = 2 => /\ On(s) \in HopSocket /\ On(On(s)) = Of(o)
                         /\ Peer(Other(On(s))) = Of(o) /\ ~Behind(Other(On(s)))
                         /\ Peer(t) = On(s) /\ Peer(On(s)) = t /\ On(Other(On(s))) = t
  BY <1>1, WayLemma
<1>3. /\ s \in Path /\ t \in HopSocket /\ t \in Path /\ Of(e) \in Path /\ Of(e) \in Socket
      /\ Of(o) \in Path /\ t[1] = s[1] /\ Other(t) = s
  <2>1. s \in Path /\ t \in HopSocket /\ t[1] = s[1] /\ Other(t) = s
    BY <1>1, <1>2, HopLemma
  <2>. QED
    BY <1>1, <2>1, HopLemma, EndLemma
<1> HIDE DEF s, t
<1>4. /\ phase[s[1]] = "copy"
      /\ \A r \in HopSocket : phase[r[1]] = "copy"
  BY <1>2, AllCopy
<1>5. Place(s, written[Peer(s)]) = Sent(e) /\ written[Of(o)] \in Nat
  <2>1. Shift(s) = 0 /\ written[Of(e)] \in Nat /\ written[Of(o)] \in Nat
    BY <1>1, <1>2, <1>3, CountLemma DEF Shift, Own
  <2>. QED
    BY <1>2, <2>1 DEF Place, Sent
<1>6. /\ Drained(s)
      /\ Guardian = 2 => Drained(On(s))
  <2>1. CASE Guardian = 1
    BY <1>2, <1>4, <1>5, <2>1, DrainedLemma
  <2>2. CASE Guardian = 2
    <3> DEFINE r == On(s)
    <3>1. r \in HopSocket /\ On(r) = Of(o) /\ Peer(r) = Other(s) /\ phase[r[1]] = "copy"
      BY <1>2, <1>4, <2>2 DEF t
    <3>2. /\ Place(r, read[r]) <= Place(r, written[Other(s)])
          /\ Place(r, written[Other(s)]) <= Place(s, read[s])
          /\ Place(s, read[s]) <= Place(s, written[Peer(s)])
          /\ read[r] \in Nat /\ written[Other(s)] \in Nat /\ read[s] \in Nat
          /\ written[Peer(s)] \in Nat
      BY <1>2, <1>4, PassedLemma
    <3>3. /\ Place(On(r), read[On(r)]) <= Place(On(r), written[Other(r)])
          /\ Place(On(r), written[Other(r)]) <= Place(r, read[r])
          /\ read[On(r)] \in Nat /\ written[Other(r)] \in Nat
      BY <3>1, PassedLemma
    <3>4. Shift(s) \in Int /\ Shift(r) \in Int /\ Shift(On(r)) \in Int
      BY <1>1, <1>2, <3>1, ShiftLemma
    <3>5. Place(On(r), read[On(r)]) >= Place(s, written[Peer(s)])
      BY <1>5, <3>1
    <3>6. /\ Place(On(r), read[On(r)]) \in Int /\ Place(On(r), written[Other(r)]) \in Int
          /\ Place(r, read[r]) \in Int /\ Place(r, written[Other(s)]) \in Int
          /\ Place(s, read[s]) \in Int /\ Place(s, written[Peer(s)]) \in Int
      BY <3>2, <3>3, <3>4 DEF Place
    <3>7. /\ Place(r, read[r]) >= Place(s, written[Peer(s)])
          /\ Place(On(r), read[On(r)]) >= Place(r, written[Other(s)])
      BY <3>2, <3>3, <3>5, <3>6
    <3>. QED
      BY <1>2, <1>4, <3>1, <3>7, DrainedLemma
  <2>. QED
    BY <1>1, <2>1, <2>2, GuardianIs
<1>7. state[s] = "closed" /\ read[Of(e)] = written[s]
  <2>1. /\ queue[Of(e)] = <<>> /\ state[Of(e)] # "closed"
        /\ Of(e) \in reset \/ state[s] \in {"half", "closed"}
    BY DEF Ended, NothingToRead, s
  <2>2. /\ Of(e) \in reset => state[s] = "closed" /\ read[s] < written[Of(e)]
        /\ Of(e) \notin reset => read[Of(e)] + Len(queue[Of(e)]) = written[s]
        /\ state[s] # "half"
    BY <1>1, <1>2, <1>3, <2>1 DEF NetInv, NetOK, s
  <2>3. /\ read[s] \in Nat /\ written[Of(e)] \in Nat /\ read[Of(e)] \in Nat /\ written[s] \in Nat
        /\ read[s] = written[Of(e)]
    BY <1>1, <1>2, <1>3, <1>6, CountLemma DEF Drained
  <2>. QED
    BY <2>1, <2>2, <2>3
<1>8. ended[t] = "eof"
  BY <1>2, <1>4, <1>6, <1>7, SawEnd DEF t
<1>9. /\ read[t] = written[Peer(t)]
      /\ Place(Of(e), read[Of(e)]) = Place(t, read[t])
  BY <1>1, <1>2, <1>3, <1>7, <1>8 DEF EndedInv
<1>10. CASE Guardian = 1
  <2>1. Shift(t) = 0
    BY <1>2, <1>10 DEF Shift, Own
  <2>. QED
    BY <1>2, <1>5, <1>9, <1>10, <2>1 DEF Place, Sent
<1>11. CASE Guardian = 2
  <2> DEFINE r == On(s)
             u == Other(r)
  <2>1. /\ r \in HopSocket /\ u \in HopSocket /\ Other(u) = r /\ Peer(u) = Of(o)
        /\ Peer(t) = r /\ On(u) = t /\ Peer(r) = t /\ u \in Socket /\ Drained(r)
        /\ Shift(u) = 0 /\ On(r) = Of(o)
    <3>1. r \in HopSocket
      BY <1>2, <1>11
    <3>2. u \in HopSocket /\ Other(u) = r
      BY <1>1, <3>1, HopLemma
    <3>. QED
      BY <1>1, <1>2, <1>6, <1>11, <3>1, <3>2, HopLemma DEF Shift, Own
  <2> HIDE DEF r, u
  <2>2. ended[u] \in {"eof", "reset", "write"} \/ ended[r] = "write"
    <3>1. u = Other(Peer(t)) /\ phase[u[1]] = "copy"
      BY <1>4, <2>1 DEF u
    <3>. QED
      BY <1>1, <1>3, <1>8, <2>1, <3>1 DEF ChainInv
  <2>3. /\ read[r] \in Nat /\ written[u] \in Nat /\ read[Of(o)] \in Nat /\ read[t] \in Nat
        /\ written[r] \in Nat
    BY <1>1, <1>3, <2>1, CountLemma, HopLemma
  <2>4. ended[r] # "write"
    <3>1. Shift(r) \in Int /\ Shift(On(r)) \in Int
      BY <1>1, <2>1, ShiftLemma
    <3>2. /\ Place(On(r), written[u]) = Place(r, read[r]) /\ Place(r, read[r]) \in Int
      BY <2>1, <2>3, <3>1 DEF Drained, Place, u
    <3>3. ended[r] = "write" => Place(On(r), written[u]) < Place(r, read[r])
      BY <1>1, <2>1 DEF EndedInv, u
    <3>. QED
      BY <3>2, <3>3
  <2>5. ended[u] # "reset"
    <3>1. read[Of(o)] = written[u]
      BY <2>1 DEF Drained, u
    <3>2. ended[u] = "reset" => read[Of(o)] < written[u]
      BY <1>1, <2>1 DEF EndedInv
    <3>. QED
      BY <2>3, <3>1, <3>2
  <2>6. ended[u] # "write"
    <3>1. read[t] = written[r]
      BY <1>9, <2>1
    <3>2. ended[u] = "write" => read[t] < written[r]
      BY <1>1, <2>1 DEF EndedInv
    <3>. QED
      BY <2>3, <3>1, <3>2
  <2>7. read[u] = written[Of(o)] /\ Place(t, written[r]) = Place(u, read[u])
    BY <1>1, <2>1, <2>2, <2>4, <2>5, <2>6 DEF EndedInv
  <2>. QED
    BY <1>5, <1>9, <2>1, <2>7 DEF Place, Sent
<1>. QED
  BY <1>1, <1>10, <1>11, GuardianIs

\* An end that reads the end has received all, if the other has received all.
LEMMA WholeLemma ==
    ASSUME TunnelAssumption, IInv, Established, NEW e \in End, NEW o \in End, e # o,
           Ended(e), state[Of(e)] = "open",
           Own(Of(o)) <= Len(got[o]),
           SubSeq(got[o], Own(Of(o)) + 1, Len(got[o])) = ForOther(e)
    PROVE  SubSeq(got[e], Own(Of(e)) + 1, Len(got[e])) = ForOther(o)
<1> DEFINE a == Own(Of(o))
           g == SubSeq(got[o], a + 1, Len(got[o]))
<1>1. /\ Len(g) = IF a < Len(got[o]) THEN Len(got[o]) - a ELSE 0
      /\ Len(ForOther(e)) = IF Kept(e) < Sent(e) THEN Sent(e) - Kept(e) ELSE 0
      /\ Place(Of(o), read[Of(o)]) = Len(got[o]) + Kept(e) - a
      /\ Kept(e) \in Nat /\ Sent(e) \in Nat /\ Len(got[o]) \in Nat
  BY ReceivedLemma
<1>2. a \in Nat
  BY DEF Own, Answers
<1>3. a <= Len(got[o]) /\ Len(g) = Len(ForOther(e))
  OBVIOUS
<1> HIDE DEF a, g
<1>4. Place(Of(o), read[Of(o)]) >= Sent(e)
  <2>1. CASE a < Len(got[o])
    BY <1>1, <1>2, <1>3, <2>1
  <2>2. CASE ~(a < Len(got[o]))
    BY <1>1, <1>2, <1>3, <2>2
  <2>. QED
    BY <2>1, <2>2
<1>5. Place(Of(e), read[Of(e)]) = Sent(o)
  BY <1>4, CompleteLemma
<1>. QED
  BY <1>5, ReceivedLemma

\* A client that reads the end of the answer has all of it, through any number of
\* hops, when it kept its own side open and all it sent was received; no order of
\* the two io.Copy of handleConnection and runRelay loses the rest.
THEOREM AnswersComplete == Spec => []AnswerComplete
<1>1. ASSUME TunnelAssumption, IInv PROVE AnswerComplete
  <2> SUFFICES ASSUME Established, Ended("client"), state[Of("client")] = "open",
                      got["destination"] = ForOther("client")
               PROVE  FromDestination = ForOther("destination")
    BY DEF AnswerComplete
  <2>1. /\ shape \in Shapes /\ got \in [End -> Seq(Piece)]
        /\ "client" \in End /\ "destination" \in End /\ "client" # "destination"
    BY <1>1, Halves DEF HopTypeOK, End
  <2>2. Own(Of("client")) = Answers /\ Own(Of("destination")) = 0
    BY <2>1, WayLemma
  <2>3. /\ SubSeq(got["destination"], 0 + 1, Len(got["destination"])) = got["destination"]
        /\ 0 <= Len(got["destination"])
    BY <2>1, SubSeqFull, LenProperties
  <2>. QED
    BY <1>1, <2>1, <2>2, <2>3, WholeLemma DEF FromDestination
<1>. QED
  BY <1>1, AlwaysIInv, TunnelAssumption, PTL

\* The same of what the client sends: a destination that reads the end has all of
\* it, when it kept its own side open and the client received all it was sent.
THEOREM UploadsComplete == Spec => []UploadComplete
<1>1. ASSUME TunnelAssumption, IInv PROVE UploadComplete
  <2> SUFFICES ASSUME Established, Ended("destination"), state[Of("destination")] = "open",
                      FromDestination = ForOther("destination"),
                      shape.connect => got["client"] # <<>>
               PROVE  got["destination"] = ForOther("client")
    BY DEF UploadComplete
  <2>1. /\ shape \in Shapes /\ got["destination"] \in Seq(Piece) /\ got["client"] \in Seq(Piece)
        /\ "client" \in End /\ "destination" \in End /\ "client" # "destination"
    BY <1>1, Halves DEF HopTypeOK, End
  <2>2. Own(Of("client")) = Answers /\ Own(Of("destination")) = 0
    BY <2>1, WayLemma
  <2>3. SubSeq(got["destination"], 0 + 1, Len(got["destination"])) = got["destination"]
    BY <2>1, SubSeqFull
  <2>4. Answers <= Len(got["client"])
    BY <2>1, EmptySeq, LenProperties DEF Answers
  <2>. QED
    BY <1>1, <2>1, <2>2, <2>3, <2>4, WholeLemma DEF FromDestination
<1>. QED
  BY <1>1, AlwaysIInv, TunnelAssumption, PTL

===============================================================================
