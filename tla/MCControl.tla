------------------------------- MODULE MCControl -------------------------------
(* Forms nested a few deep with handlers among them, and the instruction inside *)
(* bds_bind at which a handler finds a slot that is not filled.                 *)
EXTENDS Control, TLC

Renamings == Permutations(Tags) \cup Permutations(Values)

NoWindows == {}
Binding   == {"binding"}
===============================================================================
