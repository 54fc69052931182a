-------------------------------- MODULE Tunnel ---------------------------------
(***************************************************************************)
(* One connection on its way from a client in the sandbox to its           *)
(* destination: through the relay of relay mode (runRelay, cmd/xb/main.go), *)
(* the guardian (handleConnection, pkg/guardian/proxy.go) and, if there is *)
(* one, the upstream proxy (dialDest).  The client is node 0, the hops     *)
(* follow, the last is the guardian, and the destination, with the upstream *)
(* proxy, is the last node.                                                *)
(*                                                                         *)
(* A node faces the client with its "back" socket and the destination with *)
(* its "front" socket.  The bytes under way to a socket, in buffers of the *)
(* system and on the network, are the sequence queue[s].                   *)
(***************************************************************************)
EXTENDS Integers, Sequences, SequencesExt

CONSTANTS
    Shapes,    \* the ways there are: [relay, connect, upstream : BOOLEAN]
    MaxUp,     \* bound: pieces that the client sends after its request
    MaxDown,   \* bound: pieces that the destination sends
    Capacity   \* pieces that the system takes from a writer before it blocks

ASSUME TunnelAssumption ==
    /\ Shapes \subseteq [relay : BOOLEAN, connect : BOOLEAN, upstream : BOOLEAN]
    /\ MaxUp \in Nat /\ MaxDown \in Nat /\ Capacity \in Nat \ {0}

VARIABLES
    shape,    \* the way of this connection
    state,    \* of each socket: "none", "open", "half" (it sends no more), "closed"
    queue,    \* what is under way to each socket
    reset,    \* the sockets whose connection was reset
    read,     \* history: how many pieces were read from each socket
    written,  \* how many were written to each: where an end is in what it sends
    phase,    \* where handleConnection, or the relay, is at each hop
    first,    \* peek, as long as the guardian has to write it
    held,     \* what each io.Copy has read and not written, by the socket it reads
    ended,    \* how the io.Copy of each socket has ended, or "no"
    got,      \* what each end has received
    early     \* history: how many pieces of each end the guardian read too early

netVars == <<state, queue, reset, read, written>>
hopVars == <<phase, first, held, ended>>
vars == <<shape, netVars, hopVars, got, early>>

Node == 0..3
Socket == Node \X {"back", "front"}
End == {"client", "destination"}

Guardian == IF shape.relay THEN 2 ELSE 1
Hop == 1..Guardian
HopSocket == Hop \X {"back", "front"}
Of(e) == IF e = "client" THEN <<0, "front">> ELSE <<Guardian + 1, "back">>

Other(s) == <<s[1], IF s[2] = "back" THEN "front" ELSE "back">>
Peer(s) == IF s[2] = "back" THEN <<s[1] - 1, "front">> ELSE <<s[1] + 1, "back">>

Pieces(kind, n) == [i \in 1..n |-> <<kind, i>>]
Request == Pieces("request", 2)   \* it may come in two pieces
Ok == <<"ok", 1>>
Forbidden == <<"forbidden", 1>>
Upward == Request \o Pieces("data", MaxUp)
Downward == (IF shape.upstream THEN <<Ok>> ELSE <<>>) \o Pieces("data", MaxDown)

Init ==
    /\ shape \in Shapes
    /\ state = [s \in Socket |-> IF s \in {<<0, "front">>, <<1, "back">>}
                                 THEN "open" ELSE "none"]
    /\ queue = [s \in Socket |-> <<>>] /\ reset = {}
    /\ read = [s \in Socket |-> 0] /\ written = [s \in Socket |-> 0]
    /\ phase = [n \in Node |-> IF n # 1 THEN "none" ELSE IF shape.relay THEN "dial" ELSE "peek"]
    /\ first = <<>> /\ held = [s \in Socket |-> <<>>]
    /\ ended = [s \in Socket |-> "no"]
    /\ got = [e \in End |-> <<>>] /\ early = [e \in End |-> 0]

-------------------------------------------------------------------------------
(* Sockets                                                                    *)

\* A reset destroys what is under way: q is what had arrived before it.
Before(q) == {SubSeq(q, 1, k) : k \in 0..Len(q)}

Connect(n) ==
    /\ state' = [state EXCEPT ![<<n, "front">>] = "open", ![<<n + 1, "back">>] = "open"]
    /\ UNCHANGED <<queue, reset, read, written>>

\* Close: if there is something unread, the system resets the connection.
Close(s) ==
    /\ state' = [state EXCEPT ![s] = "closed"]
    /\ IF queue[s] = <<>> THEN UNCHANGED <<queue, reset>>
       ELSE /\ \E q \in Before(queue[Peer(s)]) :
                  queue' = [queue EXCEPT ![s] = <<>>, ![Peer(s)] = q]
            /\ reset' = reset \cup {s, Peer(s)}
    /\ UNCHANGED <<read, written>>

\* Read returns an error, or nothing because the peer sends no more.
NothingToRead(s) ==
    \/ state[s] = "closed"
    \/ queue[s] = <<>> /\ (s \in reset \/ state[Peer(s)] \in {"half", "closed"})

\* Read of k pieces.
Take(s, k) ==
    /\ queue' = [queue EXCEPT ![s] = SubSeq(@, k + 1, Len(@))]
    /\ read' = [read EXCEPT ![s] = @ + k]
    /\ UNCHANGED <<state, reset, written>>

WriteFails(s) == state[s] = "closed" \/ s \in reset
CanWrite(s) == ~WriteFails(s) /\ (state[Peer(s)] = "closed" \/ Len(queue[Peer(s)]) < Capacity)

\* Write of one piece; a peer that has closed answers it with a reset.
Write(s, x) ==
    /\ CanWrite(s)
    /\ written' = [written EXCEPT ![s] = @ + 1]
    /\ IF state[Peer(s)] # "closed"
       THEN queue' = [queue EXCEPT ![Peer(s)] = Append(@, x)] /\ UNCHANGED reset
       ELSE /\ \E q \in Before(queue[s]) : queue' = [queue EXCEPT ![s] = q]
            /\ reset' = reset \cup {s, Peer(s)}
    /\ UNCHANGED <<state, read>>

-------------------------------------------------------------------------------
(* The hops before they copy                                                  *)

Enter(n, p) == phase' = [phase EXCEPT ![n] = p]

\* The relay reaches the socket of the guardian, or closes the connection.
DialGuardian ==
    /\ shape.relay /\ phase[1] = "dial"
    /\ \/ Connect(1) /\ phase' = [phase EXCEPT ![1] = "copy", ![2] = "peek"]
       \/ Enter(1, "leave") /\ UNCHANGED netVars
    /\ UNCHANGED <<shape, first, held, ended, got, early>>

\* Mutant of Peek: all of what was read is forwarded, the CONNECT request too.
Peek_Forwards(n) ==
    /\ phase[n] = "peek"
    /\ LET s == <<n, "back">> IN
       IF NothingToRead(s)
       THEN Enter(n, "leave") /\ UNCHANGED <<netVars, first, early>>
       ELSE \E k \in 1..Len(queue[s]) :
              /\ Take(s, k)
              /\ \/ Enter(n, "leave") /\ UNCHANGED <<first, early>>
                 \/ /\ k >= Len(Request)
                    /\ first' = SubSeq(queue[s], 1, k)
                    /\ Enter(n, IF shape.connect THEN "answer" ELSE "dial")
                    /\ UNCHANGED early
    /\ UNCHANGED <<shape, held, ended, got>>

\* The only Read of handleConnection before the destination is known.  A request of
\* which it gets a part is denied, and so may any other be; Answer tells a client
\* that used CONNECT, nobody tells another.
Peek(n) ==
    /\ phase[n] = "peek"
    /\ LET s == <<n, "back">> IN
       IF NothingToRead(s)
       THEN Enter(n, "leave") /\ UNCHANGED <<netVars, first, early>>
       ELSE \E k \in 1..Len(queue[s]) :
              /\ Take(s, k)
              /\ \/ Enter(n, "leave") /\ UNCHANGED <<first, early>>
                 \/ /\ k >= Len(Request)
                    /\ IF shape.connect
                       THEN /\ early' = [early EXCEPT !["client"] = k - Len(Request)]
                            /\ Enter(n, "answer") /\ UNCHANGED first
                       ELSE /\ first' = SubSeq(queue[s], 1, k)
                            /\ Enter(n, "dial") /\ UNCHANGED early
    /\ UNCHANGED <<shape, held, ended, got>>

\* "200 Connection established" before the destination is dialled, or "403
\* Forbidden"; an error of the write is ignored.
Answer(n) ==
    /\ phase[n] = "answer"
    /\ LET s == <<n, "back">> IN
       \E a \in {Ok, Forbidden} :
          /\ \/ Write(s, a)
             \/ WriteFails(s) /\ UNCHANGED netVars
          /\ Enter(n, IF a = Ok THEN "dial" ELSE "leave")
    /\ UNCHANGED <<shape, first, held, ended, got, early>>

\* Mutant of Dial: an error of the dial is not looked at.
Dial_Unchecked(n) ==
    /\ phase[n] = "dial" /\ n = Guardian
    /\ Connect(n) \/ UNCHANGED netVars
    /\ Enter(n, IF shape.upstream THEN "await" ELSE "write")
    /\ UNCHANGED <<shape, first, held, ended, got, early>>

\* dialDest, as far as the connection to the destination or the upstream proxy.
Dial(n) ==
    /\ phase[n] = "dial" /\ n = Guardian
    /\ \/ Connect(n) /\ Enter(n, IF shape.upstream THEN "await" ELSE "write")
       \/ Enter(n, "leave") /\ UNCHANGED netVars
    /\ UNCHANGED <<shape, first, held, ended, got, early>>

\* http.ReadResponse reads through a bufio.Reader: as much as there is.  The answer
\* is 200, or the proxy refuses.
Await(n) ==
    /\ phase[n] = "await"
    /\ LET s == <<n, "front">> IN
       IF NothingToRead(s)
       THEN Close(s) /\ Enter(n, "leave") /\ UNCHANGED early
       ELSE \E k \in 1..Len(queue[s]) :
              /\ Take(s, k)
              /\ early' = [early EXCEPT !["destination"] = k - 1]
              /\ Enter(n, "write") \/ Enter(n, "refused")
    /\ UNCHANGED <<shape, first, held, ended, got>>

Refuse(n) ==
    /\ phase[n] = "refused"
    /\ Close(<<n, "front">>)
    /\ Enter(n, "leave")
    /\ UNCHANGED <<shape, first, held, ended, got, early>>

\* Mutant of WritePeek: the copying begins without it.
WritePeek_Skipped(n) ==
    /\ phase[n] = "write"
    /\ Enter(n, "copy") /\ first' = <<>> /\ UNCHANGED netVars
    /\ UNCHANGED <<shape, held, ended, got, early>>

\* What was peeked at goes first, except a CONNECT request.
WritePeek(n) ==
    /\ phase[n] = "write"
    /\ LET s == <<n, "front">> IN
       IF first = <<>> THEN Enter(n, "copy") /\ UNCHANGED <<netVars, first>>
       ELSE IF WriteFails(s) THEN Close(s) /\ Enter(n, "leave") /\ UNCHANGED first
       ELSE Write(s, Head(first)) /\ first' = Tail(first) /\ UNCHANGED phase
    /\ UNCHANGED <<shape, held, ended, got, early>>

\* The deferred Close of the client's connection.
Leave(n) ==
    /\ phase[n] = "leave"
    /\ Close(<<n, "back">>)
    /\ Enter(n, "over")
    /\ UNCHANGED <<shape, first, held, ended, got, early>>

-------------------------------------------------------------------------------
(* The two io.Copy of a hop: s is the socket that is read                     *)

Copying(s) == phase[s[1]] = "copy" /\ ended[s] = "no"

\* Mutant of CopyRead: what is read together with the end of the answer is dropped.
CopyRead_Last(s) ==
    /\ Copying(s) /\ held[s] = <<>>
    /\ state[s] # "closed" /\ queue[s] # <<>>
    /\ held' = [held EXCEPT ![s] = IF /\ s[2] = "front" /\ Len(queue[s]) = 1
                                      /\ state[Peer(s)] = "closed"
                                   THEN <<>> ELSE <<Head(queue[s])>>]
    /\ Take(s, 1)
    /\ UNCHANGED <<shape, phase, first, ended, got, early>>

CopyRead(s) ==
    /\ Copying(s) /\ held[s] = <<>>
    /\ state[s] # "closed" /\ queue[s] # <<>>
    /\ held' = [held EXCEPT ![s] = <<Head(queue[s])>>]
    /\ Take(s, 1)
    /\ UNCHANGED <<shape, phase, first, ended, got, early>>

CopyWrite(s) ==
    /\ Copying(s) /\ held[s] # <<>>
    /\ Write(Other(s), held[s][1])
    /\ held' = [held EXCEPT ![s] = <<>>]
    /\ UNCHANGED <<shape, phase, first, ended, got, early>>

\* Why io.Copy returns: its Write failed, its own socket was closed by the other
\* io.Copy, the connection was reset, or the peer sends no more.
Why(s) == IF held[s] # <<>> THEN "write"
          ELSE IF state[s] = "closed" THEN "closed"
          ELSE IF s \in reset THEN "reset" ELSE "eof"

\* Mutant of CopyEnds: the other connection is left open.
CopyEnds_NoClose(s) ==
    /\ Copying(s)
    /\ IF held[s] = <<>> THEN NothingToRead(s) ELSE WriteFails(Other(s))
    /\ held' = [held EXCEPT ![s] = <<>>]
    /\ ended' = [ended EXCEPT ![s] = Why(s)]
    /\ UNCHANGED <<shape, netVars, phase, first, got, early>>

\* io.Copy returns, and the connection that it wrote to is closed, in both directions.
CopyEnds(s) ==
    /\ Copying(s)
    /\ IF held[s] = <<>> THEN NothingToRead(s) ELSE WriteFails(Other(s))
    /\ Close(Other(s))
    /\ held' = [held EXCEPT ![s] = <<>>]
    /\ ended' = [ended EXCEPT ![s] = Why(s)]
    /\ UNCHANGED <<shape, phase, first, got, early>>

-------------------------------------------------------------------------------
(* The client and the destination                                             *)

Script(e) == IF e = "client" THEN Upward ELSE Downward
Sent(e) == written[Of(e)]

Send(e) ==
    /\ state[Of(e)] = "open" /\ Sent(e) < Len(Script(e))
    /\ Write(Of(e), Script(e)[Sent(e) + 1])
    /\ UNCHANGED <<shape, hopVars, got, early>>

Receive(e) ==
    /\ state[Of(e)] \in {"open", "half"} /\ queue[Of(e)] # <<>>
    /\ got' = [got EXCEPT ![e] = Append(@, Head(queue[Of(e)]))]
    /\ Take(Of(e), 1)
    /\ UNCHANGED <<shape, hopVars, early>>

\* It sends no more and goes on to receive.
HalfClose(e) ==
    /\ state[Of(e)] = "open"
    /\ state' = [state EXCEPT ![Of(e)] = "half"]
    /\ UNCHANGED <<shape, queue, reset, read, written, hopVars, got, early>>

EndCloses(e) ==
    /\ state[Of(e)] \in {"open", "half"}
    /\ Close(Of(e))
    /\ UNCHANGED <<shape, hopVars, got, early>>

-------------------------------------------------------------------------------
SetUp(n) == Peek(n) \/ Answer(n) \/ Dial(n) \/ Await(n) \/ Refuse(n)
            \/ WritePeek(n) \/ Leave(n)
Copy(s) == CopyRead(s) \/ CopyWrite(s) \/ CopyEnds(s)

Next ==
    \/ DialGuardian
    \/ \E n \in Hop : SetUp(n)
    \/ \E s \in HopSocket : Copy(s)
    \/ \E e \in End : Send(e) \/ Receive(e) \/ HalfClose(e) \/ EndCloses(e)

\* The goroutines of the hops run; the ends do what they like.
Fairness ==
    /\ WF_vars(DialGuardian)
    /\ \A n \in Node : WF_vars(n \in Hop /\ SetUp(n))
    /\ \A s \in Socket : WF_vars(s \in HopSocket /\ Copy(s))

Spec == Init /\ [][Next]_vars /\ Fairness

-------------------------------------------------------------------------------
(* Properties                                                                 *)

Piece == {"request", "ok", "forbidden", "data"} \X Nat

\* The state is well formed: nothing is kept for a socket that is closed, no system
\* buffer overflows, and only a hop that copies holds a piece.
TypeOK ==
    /\ shape \in Shapes
    /\ state \in [Socket -> {"none", "open", "half", "closed"}]
    /\ queue \in [Socket -> Seq(Piece)] /\ held \in [Socket -> Seq(Piece)]
    /\ read \in [Socket -> Nat] /\ written \in [Socket -> Nat]
    /\ ended \in [Socket -> {"no", "eof", "reset", "closed", "write"}]
    /\ \A s \in Socket :
          /\ Len(queue[s]) <= Capacity
          /\ state[s] \in {"none", "closed"} => queue[s] = <<>>
          /\ Len(held[s]) <= 1 /\ (held[s] # <<>> => Copying(s))
    /\ phase \in [Node -> {"none", "dial", "peek", "answer", "await", "refused", "write",
                           "copy", "leave", "over"}]
    /\ first \in Seq(Piece) /\ reset \subseteq Socket
    /\ got \in [End -> Seq(Piece)] /\ early \in [End -> Nat]
    /\ \A e \in End : Sent(e) <= Len(Script(e))

\* What the guardian keeps of what each end sends: a CONNECT request, the answer of
\* the upstream proxy, and two things it should forward: what the client sent so
\* early that it came in one read with its CONNECT request (proxy.go:274 forwards no
\* peek then), and what the destination sent so early that it came with the answer
\* of the upstream proxy (proxy.go:325 drops the bufio.Reader).
Kept(e) ==
    early[e] + (IF e = "client" THEN IF shape.connect THEN Len(Request) ELSE 0
                                ELSE IF shape.upstream THEN 1 ELSE 0)

\* What an end sent that is for the other.
ForOther(e) == SubSeq(Script(e), Kept(e) + 1, Sent(e))

\* The answers of the guardian itself, and what comes behind them.
Answers == IF shape.connect THEN 1 ELSE 0
FromDestination == SubSeq(got["client"], Answers + 1, Len(got["client"]))

\* Each end receives what the other sent, in order and without a gap, whatever the
\* hops buffer and whoever closes (handleConnection, runRelay), but for what the
\* guardian keeps; and a client that used CONNECT has an answer before it.
InOrder ==
    /\ IsPrefix(got["destination"], ForOther("client"))
    /\ IsPrefix(FromDestination, ForOther("destination"))
    /\ shape.connect /\ got["client"] # <<>> => got["client"][1] \in {Ok, Forbidden}

Established == phase[Guardian] = "copy"
Ended(e) == NothingToRead(Of(e))

\* A client that reads the end of the answer has all of it, through any number of
\* hops, when it kept its own side open and all it sent was read.  The exceptions
\* are two: a client that has ended its sending side loses the answer (io.Copy
\* returns and the connection to the destination is closed, proxy.go:281), and so
\* does one that sends while the destination closes, whose connection is reset.
AnswerComplete ==
    (/\ Established /\ Ended("client") /\ state[Of("client")] = "open"
     /\ got["destination"] = ForOther("client"))
    => FromDestination = ForOther("destination")

\* The same of what the client sends: a destination that reads the end has all of
\* it, when it kept its own side open and the client received all it was sent.
UploadComplete ==
    (/\ Established /\ Ended("destination") /\ state[Of("destination")] = "open"
     /\ FromDestination = ForOther("destination")
     /\ shape.connect => got["client"] # <<>>)
    => got["destination"] = ForOther("client")

Over(n) ==
    phase[n] \in {"none", "over"} \/ "no" \notin {ended[<<n, "back">>], ended[<<n, "front">>]}

\* A hop waits for an end that is open: one that does not read, or an upstream proxy
\* that does not answer.
Waits ==
    \/ phase[Guardian] = "await"
    \/ \E e \in End : Len(queue[Of(e)]) = Capacity /\ state[Of(e)] # "closed"

\* "When either side closes, close the other so the second goroutine unblocks"
\* (proxy.go:278): after an end has closed, both goroutines of every hop end, in
\* the relay too, unless one is waiting for the other end for ever.
AllEnd ==
    \A e \in End : (state[Of(e)] = "closed") ~> ((\A n \in Hop : Over(n)) \/ []Waits)

-------------------------------------------------------------------------------
(* The inductive invariant                                                    *)

\* The sockets of this way, and where goes what a hop reads from s.
Path == HopSocket \cup {Of(e) : e \in End}
On(s) == Peer(Other(s))

\* Whose pieces arrive at s, behind the guardian or not yet; the k-th of them is
\* an answer of the guardian, or has this place in what the end sends.
From(s) == IF s[2] = "back" THEN "client" ELSE "destination"
Behind(s) == IF s[2] = "back" THEN s[1] > Guardian ELSE s[1] < Guardian
Own(s) == IF Behind(s) /\ s[2] = "front" THEN Answers ELSE 0
Shift(s) == (IF Behind(s) THEN Kept(From(s)) ELSE 0) - Own(s)
Place(s, k) == k + Shift(s)
Fits(s, k, x) ==
    IF k <= Own(s) THEN x \in {Ok, Forbidden} ELSE x = Script(From(s))[Place(s, k)]

\* The two sockets of a connection.  A reset comes from a side that closes before it
\* has read everything, and strikes the other.
ConnectionInv ==
    \A s \in Path :
        /\ state[s] = "none" => /\ state[Peer(s)] = "none"
                                /\ read[s] = 0 /\ written[s] = 0
        /\ s \in HopSocket => state[s] # "half"
        /\ s \in reset => Peer(s) \in reset
        /\ s \in reset /\ state[s] # "closed" =>
             state[Peer(s)] = "closed" /\ read[Peer(s)] < written[s]

\* What is under way to s continues what was read from it, and is all of the rest
\* while the connection is whole.
LinkInv ==
    \A s \in Path :
        /\ read[s] + Len(queue[s]) <= written[Peer(s)]
        /\ state[s] # "closed" /\ s \notin reset =>
             read[s] + Len(queue[s]) = written[Peer(s)]
        /\ \A i \in 1..Len(queue[s]) : Fits(s, read[s] + i, queue[s][i])

GotInv ==
    \A e \in End :
        /\ Len(got[e]) = read[Of(e)]
        /\ \A i \in 1..Len(got[e]) : Fits(Of(e), i, got[e][i])

\* What a hop has read and not written continues what it has written.
HeldInv ==
    \A s \in HopSocket :
        /\ Copying(s) => Place(On(s), written[Other(s)]) + Len(held[s]) = Place(s, read[s])
        /\ held[s] # <<>> => Fits(s, read[s], held[s][1])
        /\ phase[s[1]] = "copy" \/ written[Other(s)] > Own(On(s)) =>
             Place(On(s), written[Other(s)]) <= Place(s, read[s])

\* Where a hop is tells what is connected, written and kept.
Asking == {"answer", "dial", "await", "refused", "write"}   \* the request is read
PhaseInv ==
    /\ \A n \in Hop :
          /\ phase[n] # "none" => state[<<n, "back">>] # "none"
          /\ phase[n] \in {"dial", "peek", "leave"} \cup Asking => state[<<n, "back">>] = "open"
          /\ phase[n] \in {"await", "refused", "write"} => state[<<n, "front">>] = "open"
          /\ phase[n] = "copy" => state[<<n, "front">>] # "none"
          /\ phase[n] = "over" => state[<<n, "back">>] = "closed"
          /\ phase[n] \in {"none", "peek", "answer", "dial"} => state[<<n, "front">>] = "none"
    /\ shape.relay =>
          /\ phase[1] \in {"dial", "copy", "leave", "over"}
          /\ phase[1] \in {"dial", "leave"} => phase[2] = "none" /\ state[<<1, "front">>] = "none"
          /\ phase[1] = "over" => phase[2] = "none"
          /\ phase[1] = "copy" => phase[2] # "none"
    /\ phase[Guardian] = "none" => shape.relay

SetUpInv ==
    LET b == <<Guardian, "back">>
        f == <<Guardian, "front">>
        p == phase[Guardian]
    IN  /\ p \in {"none", "peek"} => read[b] = 0 /\ early["client"] = 0
        /\ p \in {"none", "peek", "answer"} => written[b] = 0
        /\ (p = "answer" => shape.connect) /\ (p = "await" => shape.upstream)
        /\ p \in {"dial", "await", "refused", "write"} => written[b] = Answers
        /\ p = "copy" => written[b] >= Answers
        /\ p \in {"none", "peek", "answer", "dial", "await"} \/ ~shape.upstream =>
             early["destination"] = 0
        /\ p = "await" => read[f] = 0 /\ written[f] = 0
        /\ p \in {"refused", "write"} => Place(On(f), written[b]) = Place(f, read[f])
        /\ p \in Asking =>
             /\ Place(On(b), written[f]) + Len(first) = read[b]
             /\ \A i \in 1..Len(first) : Fits(b, read[b] - Len(first) + i, first[i])
        /\ shape.connect \/ p \in {"none", "peek", "copy"} => first = <<>>
        /\ ~shape.connect => early["client"] = 0
        /\ shape.relay /\ phase[1] # "copy" =>
             read[<<1, "back">>] = 0 /\ written[<<1, "back">>] = 0

\* Why an io.Copy has ended: what was true then stays true.
EndedInv ==
    \A s \in HopSocket :
        /\ phase[s[1]] = "copy" /\ state[s] = "closed" => ended[Other(s)] # "no"
        /\ ended[s] # "no" => phase[s[1]] = "copy" /\ state[Other(s)] = "closed"
        /\ ended[s] = "closed" => /\ state[s] = "closed"
                                  /\ ended[Other(s)] \notin {"no", "closed"}
        /\ ended[s] = "eof" => /\ state[Peer(s)] \in {"half", "closed"}
                               /\ read[s] = written[Peer(s)]
                               /\ Place(On(s), written[Other(s)]) = Place(s, read[s])
        /\ ended[s] = "reset" => /\ state[Peer(s)] = "closed"
                                 /\ read[Peer(s)] < written[s]
        /\ ended[s] = "write" => /\ state[On(s)] = "closed"
                                 /\ read[On(s)] < written[Other(s)]
                                 /\ Place(On(s), written[Other(s)]) < Place(s, read[s])

\* The end that one hop sees is the end that the hop before it saw, unless that hop
\* could not pass on in the other direction.
ChainInv ==
    \A s \in HopSocket :
        LET before == Other(Peer(s)) IN
        ended[s] = "eof" /\ before \in HopSocket /\ phase[before[1]] = "copy" =>
            \/ ended[before] \in {"eof", "reset", "write"}
            \/ ended[Peer(s)] = "write"

\* Together the parts are inductive.
IInv ==
    /\ TypeOK /\ ConnectionInv /\ LinkInv /\ GotInv /\ HeldInv
    /\ PhaseInv /\ SetUpInv /\ EndedInv /\ ChainInv
===============================================================================
