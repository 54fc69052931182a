----------------------------- MODULE RuleDecision -----------------------------
(***************************************************************************)
(* The decision function of pkg/guardian/rules.go, free of any state: what *)
(* addRule makes of a configured string, which rules match a destination,  *)
(* and the verdict of Check as a function of the two lists.                *)
(*                                                                         *)
(* How a string is parsed into a rule and how one rule matches one         *)
(* destination are parameters here: every module that uses this one is     *)
(* about the order and the atomicity in which the lists are read and       *)
(* written, whatever the patterns mean.                                    *)
(***************************************************************************)
EXTENDS Naturals, Sequences

CONSTANTS
    Rule,      \* rules, as stored in allowList and denyList
    Value,     \* strings of a configuration file or of a control request
    Dest,      \* destinations (host, port) that Check is asked about
    NoHost,    \* those destinations whose host is blank once trimmed
    NoRule,    \* what addRule makes of a blank string: nothing
    Parse,     \* Value -> Rule \cup {NoRule}, the parsing half of addRule
    MatchRel   \* the pairs <<rule, dest>> for which Rules.matches is true

ASSUME DecisionAssumption ==
    /\ NoRule \notin Rule
    /\ NoHost \subseteq Dest
    /\ Parse \in [Value -> Rule \cup {NoRule}]
    /\ MatchRel \subseteq Rule \X Dest

Matches(r, d) == <<r, d>> \in MatchRel

\* The "reason" of Check; the action is "allow" exactly for "whitelist".
Reasons == {"empty-host", "blocklist", "whitelist", "not-in-allowlist"}

\* The verdict when the lists hold the rules of the sets allow and deny: the
\* first match decides, the deny list is read first, so only membership counts.
Decide(allow, deny, d) ==
    IF d \in NoHost THEN "empty-host"
    ELSE IF \E r \in deny : Matches(r, d) THEN "blocklist"
    ELSE IF \E r \in allow : Matches(r, d) THEN "whitelist"
    ELSE "not-in-allowlist"

\* Mutant of AddRule: the test for a blank string is dropped.
AddRule_KeepsBlank(list, v) == Append(list, Parse[v])

\* addRule: a blank string leaves the list alone, any other string appends one
\* rule, without looking for a duplicate.
AddRule(list, v) ==
    IF Parse[v] = NoRule THEN list ELSE Append(list, Parse[v])

\* The rules of a list, and the rules that adding the strings of vs contributes.
RulesIn(list) == {list[i] : i \in DOMAIN list}
RulesOf(vs)   == {Parse[vs[i]] : i \in DOMAIN vs} \ {NoRule}
===============================================================================
