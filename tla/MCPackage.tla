------------------------------- MODULE MCPackage -------------------------------
(***************************************************************************)
(* Packages for TLC.                                                       *)
(***************************************************************************)
EXTENDS Package, TLC

CONSTANTS a, b, c, s1, s2, word

OneName == [s \in {s1, s2} |-> word]

Renamings == Permutations({a, b, c} ) \cup Permutations({s1, s2})
===============================================================================
