----------------------------- MODULE MCRulesLock ------------------------------
(* One connection, one control connection and the watcher; rules a and b,   *)
(* a destination each of them matches, one that a matches, and a blank host. *)
EXTENDS RulesLock

CONSTANTS c1, k1, w, a, b, none, blank, dab, nohost

MCRule  == {a, b}
MCValue == {a, b, blank}
MCParse == [v \in MCValue |-> IF v = blank THEN none ELSE v]
MCDest  == {dab, nohost}
MCMatch == {<<a, dab>>, <<b, dab>>}
MCConfig == {[allow |-> <<a>>, deny |-> <<>>],
             [allow |-> <<>>, deny |-> <<blank, b>>]}
===============================================================================
