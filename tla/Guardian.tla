------------------------------- MODULE Guardian -------------------------------
(***************************************************************************)
(* The guardian of one sandbox, pkg/guardian/proxy.go and control.go: its  *)
(* start, its accept loops, the goroutine of every proxy and control       *)
(* connection, the audit log, and Stop.                                    *)
(*                                                                         *)
(* The rules are the two sets of RuleStore: RulesLock shows that Check,    *)
(* AddAllow, AddDeny and Replace are atomic, so each is one step here.     *)
(* Bytes are abstracted to what decides the control flow: which request    *)
(* the first segment of a client holds, and whether a direction of a       *)
(* tunnel waits for data, waits to deliver it, or has ended.               *)
(***************************************************************************)
EXTENDS RuleDecision, FiniteSets

CONSTANTS
    Conn,       \* connections clients may open
    ListenerOf, \* the listener each of them dials
    FirstOf,    \* what the first segment of each of them may hold
    Together,   \* bound: the sets of connections that are opened in one behaviour
    Update      \* the reloads the watcher may make, [allow, deny] sets of rules

\* In the order in which Stop closes them.
Listener == {"proxy", "control", "proxySock"}

NoDest == "nodest"
Request  == [kind : {"connect", "sniffed"}, dest : Dest]
\* "sniffed": the destination is the SNI of a ClientHello or a Host header.
Invalid  == [kind |-> "invalid", dest |-> NoDest]   \* CONNECT that does not parse
Unknown  == [kind |-> "unknown", dest |-> NoDest]   \* no SNI, no Host header
NoRequest == [kind |-> "none", dest |-> NoDest]

Denials == Reasons \ {"whitelist"}
Refusals == {"invalid-connect", "unknown-destination"}

ASSUME GuardianAssumption ==
    /\ IsFiniteSet(Conn)
    /\ ListenerOf \in [Conn -> Listener]
    /\ FirstOf \in [Conn -> SUBSET (Request \cup {Invalid, Unknown})]
    /\ Update \subseteq [allow : SUBSET Rule, deny : SUBSET Rule]
    /\ NoDest \notin Dest

VARIABLES
    main,      \* where the goroutine that calls Start, SetMeta and Stop is
    stopCh,    \* TRUE once stopCh is closed
    open,      \* the listeners that are open
    loops,     \* the listeners whose accept loop runs
    wg,        \* the counter of Server.wg
    logFile,   \* "none", "open", "closed"
    log,       \* the entries of this guardian in the audit log, each ended by its
               \* newline or not
    unwritten, \* history: the connections of which logDecision lost something
    meta,      \* how many of sandboxName and command SetMeta has written
    allow, deny,
    st,        \* where the goroutine of each connection is
    req,       \* what the first segment of the client holds
    reason,    \* the verdict of its destination
    told,      \* the status line sent to the client: "none", "200", "403"
    client,    \* the client's end: "none", "open", "closed" (nothing left to read)
    server,    \* the destination's end
    mine,      \* which of "client" and "server" the guardian holds open
    up, down   \* the two io.Copy: "none", "read", "write", "done"

mainVars == <<main, stopCh, open, loops, meta>>
ruleVars == <<allow, deny>>
logVars  == <<logFile, log, unwritten>>
connVars == <<st, req, reason, told, client, server, mine, up, down>>
tunnelVars == <<server, mine, up, down>>
vars == <<mainVars, wg, logVars, ruleVars, connVars>>

Init ==
    /\ main = "openLog" /\ stopCh = FALSE
    /\ open = {} /\ loops = {} /\ wg = 0
    /\ logFile = "none" /\ log = <<>> /\ unwritten = {} /\ meta = 0
    /\ \E u \in Update : allow = u.allow /\ deny = u.deny
    /\ st = [c \in Conn |-> "none"]
    /\ req = [c \in Conn |-> NoRequest]
    /\ reason = [c \in Conn |-> "none"]
    /\ told = [c \in Conn |-> "none"]
    /\ client = [c \in Conn |-> "none"]
    /\ server = [c \in Conn |-> "none"]
    /\ mine = [c \in Conn |-> {}]
    /\ up = [c \in Conn |-> "none"] /\ down = [c \in Conn |-> "none"]

-------------------------------------------------------------------------------
(* Start, SetMeta and Stop, called one after the other by sandbox.Start.      *)

\* What becomes of the connections that wait on a listener that is closed.
Reset(ls) == st' = [c \in Conn |-> IF st[c] = "queued" /\ ListenerOf[c] \in ls
                                  THEN "reset" ELSE st[c]]

\* The early returns of Start: it closes nothing of what it has opened and its
\* caller does not call Stop, but the process exits and the system closes it.
StartFails ==
    /\ main \in {"openLog", "listenProxy", "listenControl"}
    /\ main' = "failed"
    /\ open' = {}
    /\ Reset(open)
    /\ UNCHANGED <<stopCh, loops, meta, wg, logVars, ruleVars, req, reason, told,
                   client, tunnelVars>>

OpenLog ==
    /\ main = "openLog"
    /\ logFile' = "open"
    /\ main' = "listenProxy"
    /\ UNCHANGED <<stopCh, open, loops, meta, wg, log, unwritten, ruleVars, connVars>>

ListenProxy ==
    /\ main = "listenProxy"
    /\ open' = open \cup {"proxy"}
    /\ main' = "listenControl"
    /\ UNCHANGED <<stopCh, loops, meta, wg, logVars, ruleVars, connVars>>

\* The control listener, wg.Add and its loop ...
ListenControl ==
    /\ main = "listenControl"
    /\ open' = open \cup {"control"}
    /\ loops' = loops \cup {"control"}
    /\ wg' = wg + 1
    /\ main' = "serveProxy"
    /\ UNCHANGED <<stopCh, meta, logVars, ruleVars, connVars>>

\* ... and only then the loop of the listener that was opened first.
ServeProxy ==
    /\ main = "serveProxy"
    /\ loops' = loops \cup {"proxy"}
    /\ wg' = wg + 1
    /\ main' = "setMeta"
    /\ UNCHANGED <<stopCh, open, meta, logVars, ruleVars, connVars>>

\* SetMeta writes two fields, while connections may already be served.
SetMeta ==
    /\ main = "setMeta"
    /\ meta' = meta + 1
    /\ main' = IF meta' = 2 THEN "addSock" ELSE "setMeta"
    /\ UNCHANGED <<stopCh, open, loops, wg, logVars, ruleVars, connVars>>

\* The command runs in a mode without the socket, or runLinux has come to the relay
\* mode and calls AddProxySock; when it fails, that mode runs nothing.
AddProxySock ==
    /\ main = "addSock"
    /\ \/ /\ open' = open \cup {"proxySock"}
          /\ loops' = loops \cup {"proxySock"}
          /\ wg' = wg + 1
          /\ main' = "running"
       \/ /\ main' \in {"running", "stop"}
          /\ UNCHANGED <<open, loops, wg>>
    /\ UNCHANGED <<stopCh, meta, logVars, ruleVars, connVars>>

\* The command has exited: Cleanup calls Stop.
CommandExits ==
    /\ main = "running"
    /\ main' = "stop"
    /\ UNCHANGED <<stopCh, open, loops, meta, wg, logVars, ruleVars, connVars>>

\* Mutant of CloseStopCh: the channel is not closed.
CloseStopCh_Missing ==
    /\ main = "stop"
    /\ main' = "closeListeners"
    /\ UNCHANGED <<stopCh, open, loops, meta, wg, logVars, ruleVars, connVars>>

CloseStopCh ==
    /\ main = "stop"
    /\ stopCh' = TRUE
    /\ main' = "closeListeners"
    /\ UNCHANGED <<open, loops, meta, wg, logVars, ruleVars, connVars>>

\* A connection nobody has accepted is reset when its listener closes.
CloseListener(l) ==
    /\ main = "closeListeners"
    /\ l \in open
    /\ l = "control" => "proxy" \notin open
    /\ l = "proxySock" => open = {l}
    /\ open' = open \ {l}
    /\ Reset({l})
    /\ UNCHANGED <<main, stopCh, loops, meta, wg, logVars, ruleVars, req, reason,
                   told, client, tunnelVars>>

\* Mutant of Wait: Stop does not wait for the connections.
Wait_Missing ==
    /\ main = "closeListeners"
    /\ open = {}
    /\ main' = "closeLog"
    /\ UNCHANGED <<stopCh, open, loops, meta, wg, logVars, ruleVars, connVars>>

\* wg.Wait() returns.
Wait ==
    /\ main = "closeListeners"
    /\ open = {}
    /\ wg = 0
    /\ main' = "closeLog"
    /\ UNCHANGED <<stopCh, open, loops, meta, wg, logVars, ruleVars, connVars>>

CloseLog ==
    /\ main = "closeLog"
    /\ logFile' = "closed"
    /\ main' = "stopped"
    /\ UNCHANGED <<stopCh, open, loops, meta, wg, log, unwritten, ruleVars, connVars>>

-------------------------------------------------------------------------------
(* The accept loops.                                                          *)

\* Accept returns a connection: the loop holds it, and nobody waits for it yet.
Accept(c) ==
    /\ st[c] = "queued"
    /\ ListenerOf[c] \in loops \cap open
    /\ \A d \in Conn : ListenerOf[d] = ListenerOf[c] => st[d] # "accepted"
    /\ st' = [st EXCEPT ![c] = "accepted"]
    /\ mine' = [mine EXCEPT ![c] = {"client"}]
    /\ UNCHANGED <<mainVars, wg, logVars, ruleVars, req, reason, told, client, server,
                   up, down>>

\* Mutant of Spawn: no wg.Add before the goroutine starts.
Spawn_Uncounted(c) ==
    /\ st[c] = "accepted"
    /\ st' = [st EXCEPT ![c] =
                IF ListenerOf[c] = "control" THEN "control" ELSE "reading"]
    /\ UNCHANGED <<mainVars, wg, logVars, ruleVars, req, reason, told, client,
                   tunnelVars>>

\* wg.Add and the goroutine of the connection; the listener may be closed by now.
Spawn(c) ==
    /\ st[c] = "accepted"
    /\ wg' = wg + 1
    /\ st' = [st EXCEPT ![c] =
                IF ListenerOf[c] = "control" THEN "control" ELSE "reading"]
    /\ UNCHANGED <<mainVars, logVars, ruleVars, req, reason, told, client, tunnelVars>>

\* Accept fails: the loop ends when stopCh is closed and goes on when it is not.
LoopExit(l) ==
    /\ l \in loops
    /\ l \notin open /\ stopCh
    /\ \A c \in Conn : ListenerOf[c] = l => st[c] # "accepted"
    /\ loops' = loops \ {l}
    /\ wg' = wg - 1
    /\ UNCHANGED <<main, stopCh, open, meta, logVars, ruleVars, connVars>>

-------------------------------------------------------------------------------
(* handleConnection.                                                          *)

Goto(c, s) == st' = [st EXCEPT ![c] = s]

\* Mutant of End: wg.Done is called twice, deferred and by hand.
End_DoneTwice(c) ==
    /\ Goto(c, "done")
    /\ wg' = wg - 2
    /\ mine' = [mine EXCEPT ![c] = {}]

\* The deferred closes and wg.Done.
End(c) ==
    /\ Goto(c, "done")
    /\ wg' = wg - 1
    /\ mine' = [mine EXCEPT ![c] = {}]

\* What one Read of at most 4096 bytes may hold of the client's request: all of
\* it, or a first segment in which the destination is not to be found.
FirstRead(r) ==
    {r, Unknown} \cup (IF r.kind = "connect" THEN {Invalid} ELSE {})

ReadFirst(c) ==
    /\ st[c] = "reading"
    /\ \/ /\ req[c] # NoRequest
          /\ \E r \in FirstRead(req[c]) :
               /\ req' = [req EXCEPT ![c] = r]
               /\ IF r.kind = "invalid"
                  THEN /\ reason' = [reason EXCEPT ![c] = "invalid-connect"]
                       /\ Goto(c, "logging")
                  ELSE IF r.kind = "unknown"
                  THEN /\ reason' = [reason EXCEPT ![c] = "unknown-destination"]
                       /\ Goto(c, "logging")
                  ELSE Goto(c, "checking") /\ UNCHANGED reason
          /\ UNCHANGED <<wg, mine>>
       \/ /\ req[c] = NoRequest /\ client[c] = "closed"
          /\ End(c)
          /\ UNCHANGED <<req, reason>>
    /\ UNCHANGED <<mainVars, logVars, ruleVars, told, client, server, up, down>>

\* rules.Check, one atomic read of both lists.
Check(c) ==
    /\ st[c] = "checking"
    /\ reason' = [reason EXCEPT ![c] = Decide(allow, deny, req[c].dest)]
    /\ Goto(c, "logging")
    /\ UNCHANGED <<mainVars, wg, logVars, ruleVars, req, told, client, tunnelVars>>

\* logDecision returns: handleConnection returns too, or goes on to the reply.
LogReturns(c) ==
    IF reason[c] \in Refusals
    THEN End(c)
    ELSE Goto(c, "replying") /\ UNCHANGED <<wg, mine>>

\* An entry as it is written, without the newline that ends its line.
Entry(c) == [conn |-> c, dest |-> req[c].dest, reason |-> reason[c], meta |-> meta,
             ended |-> FALSE]

\* Mutant of Log: logMu is not taken.
Log_Unlocked(c) ==
    /\ st[c] = "logging"
    /\ log' = Append(log, Entry(c))
    /\ Goto(c, "newline")
    /\ UNCHANGED <<mainVars, wg, logFile, unwritten, ruleVars, req, reason, told, client,
                   tunnelVars>>

\* The first half of logDecision. Nothing is written when there is no file or the
\* entry cannot be marshalled; under logMu the entry is written, and an error of the
\* write is ignored. A part that a failed write leaves stands for no entry.
Log(c) ==
    /\ st[c] = "logging"
    /\ \/ /\ unwritten' = unwritten \cup {c}
          /\ LogReturns(c)
          /\ UNCHANGED log
       \/ /\ \A d \in Conn : st[d] # "newline"
          /\ \/ logFile = "open" /\ log' = Append(log, Entry(c)) /\ UNCHANGED unwritten
             \/ unwritten' = unwritten \cup {c} /\ UNCHANGED log
          /\ Goto(c, "newline") /\ UNCHANGED <<wg, mine>>
    /\ UNCHANGED <<mainVars, logFile, ruleVars, req, reason, told, client, server,
                   up, down>>

\* The second half: a newline, which ends the line the file ends with, and the
\* deferred Unlock; an error of this write is ignored as well.
LogNewline(c) ==
    /\ st[c] = "newline"
    /\ \/ /\ logFile = "open"
          /\ log' = IF log = <<>> THEN log ELSE [log EXCEPT ![Len(log)].ended = TRUE]
          /\ UNCHANGED unwritten
       \/ unwritten' = unwritten \cup {c} /\ UNCHANGED log
    /\ LogReturns(c)
    /\ UNCHANGED <<mainVars, logFile, ruleVars, req, reason, told, client, server,
                   up, down>>

\* The status line, for CONNECT only; a denied connection ends here.
Reply(c) ==
    /\ st[c] = "replying"
    /\ told' = [told EXCEPT ![c] =
                  IF req[c].kind # "connect" THEN "none"
                  ELSE IF reason[c] = "whitelist" THEN "200" ELSE "403"]
    /\ IF reason[c] = "whitelist"
       THEN Goto(c, "dialing") /\ UNCHANGED <<wg, mine>>
       ELSE End(c)
    /\ UNCHANGED <<mainVars, logVars, ruleVars, req, reason, client, server, up, down>>

\* dialDest, directly or through the upstream proxy, succeeds or fails; without
\* CONNECT the bytes already read are written to the server first.
Dial(c) ==
    /\ st[c] = "dialing"
    /\ \/ /\ server' = [server EXCEPT ![c] = "open"]
          /\ mine' = [mine EXCEPT ![c] = {"client", "server"}]
          /\ Goto(c, IF req[c].kind = "connect" THEN "relay" ELSE "push")
          /\ IF req[c].kind = "connect"
             THEN up' = [up EXCEPT ![c] = "read"] /\ down' = [down EXCEPT ![c] = "read"]
             ELSE UNCHANGED <<up, down>>
          /\ UNCHANGED wg
       \/ End(c) /\ UNCHANGED <<server, up, down>>
    /\ UNCHANGED <<mainVars, logVars, ruleVars, req, reason, told, client>>

\* The first write to a server that has closed may still succeed.
PushPeek(c) ==
    /\ st[c] = "push"
    /\ \/ /\ Goto(c, "relay")
          /\ up' = [up EXCEPT ![c] = "read"] /\ down' = [down EXCEPT ![c] = "read"]
          /\ UNCHANGED <<wg, mine>>
       \/ server[c] = "closed" /\ End(c) /\ UNCHANGED <<up, down>>
    /\ UNCHANGED <<mainVars, logVars, ruleVars, req, reason, told, client, server>>

\* Mutant of UpEnds: the connection to the server stays open.
UpEnds_KeepsServer(c) ==
    /\ st[c] = "relay"
    /\ \/ up[c] = "read" /\ (client[c] = "closed" \/ "client" \notin mine[c])
       \/ up[c] = "write" /\ (server[c] = "closed" \/ "server" \notin mine[c])
    /\ up' = [up EXCEPT ![c] = "done"]
    /\ UNCHANGED <<mainVars, wg, logVars, ruleVars, st, req, reason, told, client,
                   server, mine, down>>

\* One io.Copy ends: its reader is at the end or was closed here, or its writer
\* fails; it then closes the connection it writes to.
UpEnds(c) ==
    /\ st[c] = "relay"
    /\ \/ up[c] = "read" /\ (client[c] = "closed" \/ "client" \notin mine[c])
       \/ up[c] = "write" /\ (server[c] = "closed" \/ "server" \notin mine[c])
    /\ up' = [up EXCEPT ![c] = "done"]
    /\ mine' = [mine EXCEPT ![c] = @ \ {"server"}]
    /\ UNCHANGED <<mainVars, wg, logVars, ruleVars, st, req, reason, told, client,
                   server, down>>

DownEnds(c) ==
    /\ st[c] = "relay"
    /\ \/ down[c] = "read" /\ (server[c] = "closed" \/ "server" \notin mine[c])
       \/ down[c] = "write" /\ (client[c] = "closed" \/ "client" \notin mine[c])
    /\ down' = [down EXCEPT ![c] = "done"]
    /\ mine' = [mine EXCEPT ![c] = @ \ {"client"}]
    /\ UNCHANGED <<mainVars, wg, logVars, ruleVars, st, req, reason, told, client,
                   server, up>>

\* Both goroutines have reported on the channel done.
RelayEnds(c) ==
    /\ st[c] = "relay" /\ up[c] = "done" /\ down[c] = "done"
    /\ End(c)
    /\ UNCHANGED <<mainVars, logVars, ruleVars, req, reason, told, client, server,
                   up, down>>

-------------------------------------------------------------------------------
(* handleControl and the reloads of watchConfig.                              *)

\* One request line is read, executed and answered; list, stats, an empty value
\* and a line that is not a request change nothing.
HandleControl(c) ==
    /\ st[c] = "control" /\ client[c] = "open"
    /\ \E r \in Rule :
         \/ allow' = allow \cup {r} /\ UNCHANGED deny
         \/ deny' = deny \cup {r} /\ UNCHANGED allow
    /\ UNCHANGED <<mainVars, wg, logVars, connVars>>

ControlEnds(c) ==
    /\ st[c] = "control" /\ client[c] = "closed"
    /\ End(c)
    /\ UNCHANGED <<mainVars, logVars, ruleVars, req, reason, told, client, server,
                   up, down>>

\* ReplaceRules, called by the watcher; its select may still choose the ticker
\* after its stop channel is closed.
Reload ==
    /\ main \in {"addSock", "running", "stop", "closeListeners", "closeLog", "stopped"}
    /\ \E u \in Update : allow' = u.allow /\ deny' = u.deny
    /\ UNCHANGED <<mainVars, wg, logVars, connVars>>

-------------------------------------------------------------------------------
(* Clients and destinations: outside the guardian, so nothing here is fair.   *)

Connect(c) ==
    /\ st[c] = "none" /\ ListenerOf[c] \in open
    /\ \E S \in Together : {d \in Conn : st[d] # "none"} \cup {c} \subseteq S
    /\ Goto(c, "queued")
    /\ client' = [client EXCEPT ![c] = "open"]
    /\ UNCHANGED <<mainVars, wg, logVars, ruleVars, req, reason, told, tunnelVars>>

SendFirst(c) ==
    /\ ListenerOf[c] # "control"
    /\ st[c] \in {"queued", "reading"} /\ client[c] = "open" /\ req[c] = NoRequest
    /\ \E r \in FirstOf[c] : req' = [req EXCEPT ![c] = r]
    /\ UNCHANGED <<mainVars, wg, logVars, ruleVars, st, reason, told, client, tunnelVars>>

CloseClient(c) ==
    /\ client[c] = "open"
    /\ client' = [client EXCEPT ![c] = "closed"]
    /\ UNCHANGED <<mainVars, wg, logVars, ruleVars, st, req, reason, told, tunnelVars>>

CloseServer(c) ==
    /\ server[c] = "open"
    /\ server' = [server EXCEPT ![c] = "closed"]
    /\ UNCHANGED <<mainVars, wg, logVars, ruleVars, st, req, reason, told, client,
                   mine, up, down>>

\* Data arrives for a direction; the other end takes it, sooner or later or never.
UpArrives(c) ==
    /\ up[c] = "read" /\ client[c] = "open" /\ "client" \in mine[c]
    /\ up' = [up EXCEPT ![c] = "write"]
    /\ UNCHANGED <<mainVars, wg, logVars, ruleVars, st, req, reason, told, client,
                   server, mine, down>>

UpTaken(c) ==
    /\ up[c] = "write" /\ server[c] = "open" /\ "server" \in mine[c]
    /\ up' = [up EXCEPT ![c] = "read"]
    /\ UNCHANGED <<mainVars, wg, logVars, ruleVars, st, req, reason, told, client,
                   server, mine, down>>

DownArrives(c) ==
    /\ down[c] = "read" /\ server[c] = "open" /\ "server" \in mine[c]
    /\ down' = [down EXCEPT ![c] = "write"]
    /\ UNCHANGED <<mainVars, wg, logVars, ruleVars, st, req, reason, told, client,
                   server, mine, up>>

DownTaken(c) ==
    /\ down[c] = "write" /\ client[c] = "open" /\ "client" \in mine[c]
    /\ down' = [down EXCEPT ![c] = "read"]
    /\ UNCHANGED <<mainVars, wg, logVars, ruleVars, st, req, reason, told, client,
                   server, mine, up>>

-------------------------------------------------------------------------------
MainStep ==
    \/ OpenLog \/ ListenProxy \/ ListenControl \/ ServeProxy \/ SetMeta
    \/ AddProxySock \/ CloseStopCh \/ Wait \/ CloseLog
    \/ \E l \in Listener : CloseListener(l)

\* The steps the goroutine of a connection, or the loop that starts it, takes by itself.
HandlerStep(c) ==
    \/ Spawn(c) \/ ReadFirst(c) \/ Check(c) \/ Log(c) \/ LogNewline(c) \/ Reply(c)
    \/ PushPeek(c) \/ RelayEnds(c) \/ ControlEnds(c)

Clients(c) ==
    \/ Connect(c) \/ SendFirst(c) \/ CloseClient(c) \/ CloseServer(c)
    \/ UpArrives(c) \/ UpTaken(c) \/ DownArrives(c) \/ DownTaken(c)

Next ==
    \/ MainStep \/ StartFails \/ CommandExits \/ Reload
    \/ \E l \in Listener : LoopExit(l)
    \/ \E c \in Conn :
         \/ Accept(c) \/ HandlerStep(c) \/ Dial(c) \/ UpEnds(c) \/ DownEnds(c)
         \/ HandleControl(c) \/ Clients(c)

Spec == Init /\ [][Next]_vars

\* Every goroutine that can run does, and what it waits for may never come. None of
\* the steps joined here can happen over and over, so that fairness to the union is
\* fairness to each.
CodeFair ==
    /\ WF_vars(MainStep \/ \E l \in Listener : LoopExit(l))
    /\ \A c \in Conn : WF_vars(Accept(c) \/ HandlerStep(c) \/ UpEnds(c) \/ DownEnds(c))

FairSpec == Spec /\ CodeFair

\* Assumptions on the outside world: a destination takes what is sent to it, a dial
\* is answered (the system gives up on a direct one after minutes; an upstream proxy
\* that stays silent would hold it for ever), the clients of a command that has
\* exited are gone.
ServersRead == \A c \in Conn : WF_vars(UpTaken(c))
DialsAnswered == \A c \in Conn : WF_vars(Dial(c))
ClientsLeave == \A c \in Conn :
    WF_vars(main \notin {"running", "addSock"} /\ CloseClient(c))

PoliteSpec == FairSpec /\ ClientsLeave /\ ServersRead /\ DialsAnswered

-------------------------------------------------------------------------------
Mains == {"openLog", "listenProxy", "listenControl", "serveProxy", "setMeta",
          "addSock", "running", "stop", "closeListeners", "closeLog", "stopped",
          "failed"}
LiveStates == {"reading", "checking", "logging", "newline", "replying", "dialing",
               "push", "relay", "control"}

EntryType == [conn : Conn, dest : Dest \cup {NoDest},
              reason : Reasons \cup Refusals, meta : 0..2, ended : BOOLEAN]

\* Every variable has its type; the counter of the wait group is never negative.
TypeOK ==
    /\ main \in Mains /\ stopCh \in BOOLEAN
    /\ open \subseteq Listener /\ loops \subseteq Listener
    /\ wg \in Nat
    /\ logFile \in {"none", "open", "closed"} /\ log \in Seq(EntryType)
    /\ unwritten \subseteq Conn
    /\ meta \in 0..2
    /\ allow \subseteq Rule /\ deny \subseteq Rule
    /\ st \in [Conn -> LiveStates \cup {"none", "queued", "accepted", "reset", "done"}]
    /\ req \in [Conn -> Request \cup {Invalid, Unknown, NoRequest}]
    /\ reason \in [Conn -> Reasons \cup Refusals \cup {"none"}]
    /\ told \in [Conn -> {"none", "200", "403"}]
    /\ client \in [Conn -> {"none", "open", "closed"}]
    /\ server \in [Conn -> {"none", "open", "closed"}]
    /\ mine \in [Conn -> SUBSET {"client", "server"}]
    /\ up \in [Conn -> {"none", "read", "write", "done"}]
    /\ down \in [Conn -> {"none", "read", "write", "done"}]

Live == {c \in Conn : st[c] \in LiveStates}

\* The wait group counts the goroutines that run, so Stop gets past wg.Wait only
\* when every accept loop and every connection has ended, none is started after
\* it, and no entry is written to a closed log.
StopQuiesces ==
    /\ wg = Cardinality(loops) + Cardinality(Live)
    /\ main \in {"closeLog", "stopped"} => loops = {} /\ Live = {}
    /\ \A c \in Live : logFile = "open"

EntriesOf(c) == {i \in DOMAIN log : log[i].conn = c}
Undecided(c) == reason[c] = "none" \/ st[c] = "logging"

\* The audit log tells what was done. A decision is written at most once, with the
\* reason it was taken for, and never before it is taken; it is written before it is
\* acted on (the status line, the dial), unless marshalling or a write has failed:
\* those errors are ignored and the connection is served all the same. A server is
\* dialled and a client told "200" only after the verdict allow, "403" after a deny.
\* One entry is never run into another: the newline of the first has been written
\* when the second begins, unless that write failed.
Audited ==
    /\ \A c \in Conn :
         /\ Cardinality(EntriesOf(c)) \in
              IF Undecided(c) THEN {0} ELSE IF c \in unwritten THEN {0, 1} ELSE {1}
         /\ \A i \in EntriesOf(c) : log[i].reason = reason[c] /\ log[i].dest = req[c].dest
         /\ told[c] = "200" \/ server[c] # "none" =>
              reason[c] = "whitelist" /\ (c \in unwritten \/ EntriesOf(c) # {})
         /\ told[c] = "403" =>
              reason[c] \in Denials /\ (c \in unwritten \/ EntriesOf(c) # {})
    /\ \A i \in DOMAIN log : i < Len(log) => log[i].ended \/ log[i].conn \in unwritten

\* The inductive invariant of the proofs: what runs in which phase of Start and
\* Stop, and what is known of a connection in each state of its handler.
PhaseInv ==
    /\ stopCh => main \in {"closeListeners", "closeLog", "stopped"}
    /\ main \in {"openLog", "listenProxy", "listenControl", "failed"} =>
         loops = {} /\ Live = {}
    /\ main \in {"openLog", "closeLog", "stopped", "failed"} => open = {}
    /\ main = "serveProxy" => "proxy" \notin loops
    /\ main \in {"serveProxy", "setMeta", "addSock"} => "proxySock" \notin loops
    /\ main \notin {"openLog", "failed", "stopped"} => logFile = "open"
    /\ main \in {"openLog", "listenProxy", "listenControl", "serveProxy"} => meta = 0
    /\ main = "setMeta" => meta < 2

\* A connection that has been accepted and not yet counted is in the hands of its loop.
AcceptInv == \A c \in Conn : st[c] = "accepted" => ListenerOf[c] \in loops

AuditOf(c) ==
    /\ EntriesOf(c) = {} \/ \E i \in DOMAIN log : EntriesOf(c) = {i}
    /\ EntriesOf(c) = {} => Undecided(c) \/ c \in unwritten
    /\ Undecided(c) => EntriesOf(c) = {}
    /\ \A i \in EntriesOf(c) : log[i].reason = reason[c] /\ log[i].dest = req[c].dest
    /\ told[c] = "200" \/ server[c] # "none" => reason[c] = "whitelist" /\ ~Undecided(c)
    /\ told[c] = "403" => reason[c] \in Denials /\ ~Undecided(c)
    /\ st[c] \in {"none", "queued", "accepted", "reset", "reading", "checking", "control"} =>
         reason[c] = "none"
    /\ st[c] \in {"logging", "newline"} => reason[c] # "none"
    /\ st[c] = "replying" => reason[c] \in Reasons
    /\ st[c] \in {"dialing", "push", "relay"} => reason[c] = "whitelist"

AuditInv == \A c \in Conn : AuditOf(c)

\* At most one goroutine is between the two writes, that of the last entry: any
\* other entry that lacks its newline lost it to a failed write.
LinesInv ==
    /\ \A c, d \in Conn : st[c] = "newline" /\ st[d] = "newline" => c = d
    /\ \A i \in DOMAIN log :
         \/ log[i].ended
         \/ log[i].conn \in unwritten
         \/ i = Len(log) /\ st[log[i].conn] = "newline"

\* The phases, the count and the audit of every connection hold together.
IInv == TypeOK /\ StopQuiesces /\ PhaseInv /\ AcceptInv /\ AuditInv /\ LinesInv

\* A handler whose client is gone ends, whatever it was doing: a moment always comes
\* at which none of them is left.
HandlersEnd == []<>(\A c \in Live : client[c] # "closed")

\* Stop returns.
StopReturns == main = "stop" ~> main = "stopped"
===============================================================================
