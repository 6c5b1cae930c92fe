------------------------------ MODULE MCHashTable ------------------------------
(***************************************************************************)
(* Hash tables for TLC, and what the documentation says of them that the   *)
(* code does not keep.                                                     *)
(***************************************************************************)
EXTENDS HashTable, TLC

\* Every function from the keys to two hash codes.  The second one moves about as
\* the table grows: modulo 1 .. 7 it is 0, 1, 2, 1, 0, 5, 5.
TwoCodes == [Keys -> {0, 5}]

\* The set of hash functions is closed under renaming the keys.
Renamings == Permutations(Keys) \cup Permutations(Values)

Arguments(s, n, d, k, t, u) ==
  [size |-> s, rn |-> n, rd |-> d, kind |-> k, tn |-> t, td |-> u]

\* Sizes, rehash sizes and thresholds at the edges of what is accepted.  All are
\* small binary fractions, so that the code's floating-point sums are exact.
EdgeTables ==
  { Arguments(0, 3, 2, "ratio", 1, 2),      \* :size 0 :rehash-threshold 1/2
    Arguments(1, 1, 1, "float", 1, 1),      \* :size 1 :rehash-size 1, :rehash-threshold 1.0
    Arguments(2, 1, 1, "fixnum", 2, 1) }    \* :size 2 :rehash-size 1, :rehash-threshold 2

\* (make-hash-table :size 0): rehash-size 1.5, rehash-threshold 0.7.
EmptyTable == {Arguments(0, 3, 2, "float", 7, 10)}

\* (make-hash-table :size 4)
SmallTable == {Arguments(4, 3, 2, "float", 7, 10)}

\* hash.d:38 says "We never allow a hashtable to become completely full -- no
\* matter what the REHASH-THRESHOLD is; we require that there is always at least
\* one empty table entry".
NeverFull == size > 0 /\ ~copy.on => \E j \in 0 .. size - 1 : self[j].key = NoKey

\* info/chap-18.texi:695 lets the function of maphash "use setf of gethash to
\* change the value part of the entry currently being processed", and says of
\* maphash that it "iterates over all entries".
WalkMayUpdate == [][Ending /\ walk.legal => Complete]_vars
===============================================================================
