----------------------------- MODULE MCHotReload ------------------------------
(* A built-in entry d, entries x and y of the user; xb --allow adds y, a       *)
(* second one adds x.                                                          *)
EXTENDS HotReload

CONSTANTS d, x, y, p1, p2, i1

MCAddOf == [p \in Cli |-> IF p = p1 THEN y ELSE x]
MCEdit  == {{x}, {x, y}}
===============================================================================
