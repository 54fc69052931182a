------------------------------ MODULE RuleStore -------------------------------
(***************************************************************************)
(* What the rule engine of pkg/guardian/rules.go promises its callers: a   *)
(* store of two sets of rules on which every call takes effect in one      *)
(* instant between the call and its return.  Replace exchanges both lists  *)
(* at once, a verdict is the verdict of the lists of one instant.          *)
(***************************************************************************)
EXTENDS RuleCalls

VARIABLES
    allow, deny,  \* the two sets of rules
    call,         \* the call each goroutine is making, or NoCall
    reply         \* its result once it has taken effect, or NoReply

vars == <<allow, deny, call, reply>>

Init ==
    /\ \E c \in Config : allow = RulesOf(c.allow) /\ deny = RulesOf(c.deny)
    /\ call = [p \in Proc |-> NoCall]
    /\ reply = [p \in Proc |-> NoReply]

Invoke(p) ==
    /\ call[p] = NoCall
    /\ \E c \in CallsOf(p) : call' = [call EXCEPT ![p] = c]
    /\ UNCHANGED <<allow, deny, reply>>

Pending(p, op) == call[p] # NoCall /\ call[p].op = op /\ reply[p] = NoReply

Check(p) ==
    /\ Pending(p, "check")
    /\ reply' = [reply EXCEPT ![p] = Decide(allow, deny, call[p].dest)]
    /\ UNCHANGED <<allow, deny, call>>

List(p) ==
    /\ Pending(p, "list")
    /\ reply' = [reply EXCEPT ![p] = [allow |-> allow, deny |-> deny]]
    /\ UNCHANGED <<allow, deny, call>>

\* AddAllow and AddDeny
Add(p) ==
    /\ Pending(p, "add")
    /\ allow' = allow \cup RulesOf(call[p].allow)
    /\ deny' = deny \cup RulesOf(call[p].deny)
    /\ reply' = [reply EXCEPT ![p] = "ok"]
    /\ UNCHANGED call

Replace(p) ==
    /\ Pending(p, "replace")
    /\ allow' = RulesOf(call[p].allow)
    /\ deny' = RulesOf(call[p].deny)
    /\ reply' = [reply EXCEPT ![p] = "ok"]
    /\ UNCHANGED call

Return(p) ==
    /\ reply[p] # NoReply
    /\ call' = [call EXCEPT ![p] = NoCall]
    /\ reply' = [reply EXCEPT ![p] = NoReply]
    /\ UNCHANGED <<allow, deny>>

Next == \E p \in Proc :
    Invoke(p) \/ Check(p) \/ List(p) \/ Add(p) \/ Replace(p) \/ Return(p)

Spec == Init /\ [][Next]_vars
===============================================================================
