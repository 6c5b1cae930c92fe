------------------------------ MODULE MCCollector ------------------------------
(* A page of two conses, a page of two structures and a page of a type that takes *)
(* no part in SGC, so large that no cell fits.                                     *)
EXTENDS Collector, TLC

CONSTANTS k, l, m, n, Conses, Structures, Streams

MCPageOf   == (k :> Conses) @@ (l :> Conses) @@ (m :> Structures) @@ (n :> Structures)
MCTypeOf   == (Conses :> "cons") @@ (Structures :> "structure") @@ (Streams :> "stream")
MCSgcTypes == {"cons", "structure"}
Renamings  == Permutations({k, l}) \cup Permutations({m, n})
===============================================================================
