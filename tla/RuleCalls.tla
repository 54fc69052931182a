------------------------------ MODULE RuleCalls -------------------------------
(***************************************************************************)
(* The vocabulary of the rule engine: the goroutines of a guardian and the *)
(* calls each of them makes on the Rules they share.                       *)
(***************************************************************************)
EXTENDS RuleDecision

CONSTANTS
    Conn,     \* goroutines of handleConnection: they call Check
    Ctl,      \* goroutines of handleControl: they call List, AddAllow, AddDeny
    Watcher,  \* the goroutine of watchConfig: it calls Replace
    Config,   \* the pairs of lists Replace and NewRules can be given
    NoCall, NoReply

ASSUME StoreAssumption ==
    /\ Config \subseteq [allow : Seq(Value), deny : Seq(Value)]
    /\ Config # {}
    /\ Watcher \notin Conn \cup Ctl
    /\ Conn \cap Ctl = {}

Proc == Conn \cup Ctl \cup {Watcher}

CheckCall(d)   == [op |-> "check", dest |-> d]
ListCall       == [op |-> "list"]
AddAllowCall(v) == [op |-> "add", allow |-> <<v>>, deny |-> <<>>]
AddDenyCall(v)  == [op |-> "add", allow |-> <<>>, deny |-> <<v>>]
ReplaceCall(c) == [op |-> "replace", allow |-> c.allow, deny |-> c.deny]

\* Which goroutine makes which calls.
CallsOf(p) ==
    IF p \in Conn THEN {CheckCall(d) : d \in Dest}
    ELSE IF p \in Ctl THEN {ListCall}
                           \cup {AddAllowCall(v) : v \in Value}
                           \cup {AddDenyCall(v) : v \in Value}
    ELSE {ReplaceCall(c) : c \in Config}

ASSUME NothingAssumption ==
    /\ \A p \in Proc : NoCall \notin CallsOf(p)
    /\ NoReply \notin Reasons \cup {"ok"}
    /\ NoReply \notin [allow : SUBSET Rule, deny : SUBSET Rule]
===============================================================================
