------------------------------ MODULE MCStateDirs ------------------------------
(* Two sandboxes with one process id, one after the other, and a third with another *)
(* id and another port; two listers, in the directories of the first two.           *)
EXTENDS StateDirs, TLC
CONSTANTS x1, x2, x3, l1, l2, here, elsewhere

MCPidOf == [x \in Sandbox |-> IF x = x3 THEN 2 ELSE 1]
MCPortOf == MCPidOf
MCCwdOf == (x1 :> here @@ x2 :> elsewhere @@ x3 :> here @@ l1 :> here @@ l2 :> elsewhere)

\* Two sandboxes: with one id, and both listers; or with two, and one lister.
Small == pc[x3] = "new" \/ (pc[x2] = "new" /\ pc[l2] = "new")
===============================================================================
