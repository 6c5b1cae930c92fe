----------------------------- MODULE StackTheorems -----------------------------
(***************************************************************************)
(* What the proofs about stacks need to know: a sequence that is pushed,   *)
(* popped, cut, or changed at its top, and the least and greatest of a set *)
(* of numbers.                                                             *)
(***************************************************************************)
EXTENDS Integers, SequencesExt, FiniteSetsExt, SequenceTheorems, WellFoundedInduction, TLAPS

LEMMA FrontAndLast ==
  ASSUME NEW S, NEW s \in Seq(S), Len(s) # 0
  PROVE  /\ Front(s) \in Seq(S)
         /\ Len(Front(s)) = Len(s) - 1
         /\ \A i \in 1 .. Len(s) - 1 : Front(s)[i] = s[i]
         /\ Last(s) = s[Len(s)]
<1>1. Len(s) \in Nat /\ \A i \in 1 .. Len(s) - 1 : s[i] \in S
  BY ElementOfSeq
<1>2. Front(s) = SubSeq(s, 1, Len(s) - 1)
  BY DEF Front
<1>3. /\ SubSeq(s, 1, Len(s) - 1) \in Seq(S)
      /\ Len(SubSeq(s, 1, Len(s) - 1)) = IF 1 <= Len(s) - 1 THEN Len(s) - 1 - 1 + 1 ELSE 0
      /\ \A i \in 1 .. Len(s) - 1 - 1 + 1 : SubSeq(s, 1, Len(s) - 1)[i] = s[1 + i - 1]
  <2>1. 1 \in Int /\ Len(s) - 1 \in Int
    BY <1>1
  <2> QED
    BY <1>1, <2>1, SubSeqProperties
<1>4. Len(Front(s)) = Len(s) - 1
  <2> DEFINE n == Len(s)
             m == Len(SubSeq(s, 1, Len(s) - 1))
  <2>1. n \in Nat /\ n # 0 /\ m = IF 1 <= n - 1 THEN n - 1 - 1 + 1 ELSE 0
    BY <1>1, <1>3
  <2> HIDE DEF n, m
  <2>2. m = n - 1
    BY <2>1
  <2> QED
    BY <1>2, <2>2 DEF m, n
<1>5. \A i \in 1 .. Len(s) - 1 : Front(s)[i] = s[i]
  BY <1>1, <1>2, <1>3
<1>6. Last(s) = s[Len(s)]
  BY DEF Last
<1> QED
  BY <1>2, <1>3, <1>4, <1>5, <1>6

LEMMA PushedOn ==
  ASSUME NEW S, NEW s \in Seq(S), NEW e \in S
  PROVE  /\ Append(s, e) \in Seq(S)
         /\ Len(Append(s, e)) = Len(s) + 1
         /\ Append(s, e)[Len(s) + 1] = e
         /\ \A i \in 1 .. Len(s) : Append(s, e)[i] = s[i]
BY AppendProperties

LEMMA Replaced ==
  ASSUME NEW S, NEW s \in Seq(S), Len(s) # 0, NEW v \in Seq(S), Len(v) = 1
  PROVE  /\ Front(s) \o v \in Seq(S)
         /\ Len(Front(s) \o v) = Len(s)
         /\ (Front(s) \o v)[Len(s)] = v[1]
         /\ \A i \in 1 .. Len(s) - 1 : (Front(s) \o v)[i] = s[i]
<1> DEFINE u == Front(s)
           n == Len(s)
<1>1. u \in Seq(S) /\ Len(u) = n - 1 /\ \A i \in 1 .. n - 1 : u[i] = s[i]
  BY FrontAndLast
<1>2. n \in Nat \ {0}
  OBVIOUS
<1> HIDE DEF u, n
<1>3. /\ u \o v \in Seq(S)
      /\ Len(u \o v) = Len(u) + Len(v)
      /\ \A i \in 1 .. Len(u) + Len(v) :
           (u \o v)[i] = IF i <= Len(u) THEN u[i] ELSE v[i - Len(u)]
  BY <1>1, ConcatProperties, Zenon
<1>4. Len(u \o v) = n
  BY <1>1, <1>2, <1>3
<1>5. \A i \in 1 .. n : (u \o v)[i] = IF i <= n - 1 THEN u[i] ELSE v[i - (n - 1)]
  BY <1>1, <1>2, <1>3
<1>6. (u \o v)[n] = v[1]
  <2>1. n \in 1 .. n /\ ~(n <= n - 1) /\ n - (n - 1) = 1
    BY <1>2
  <2> QED
    BY <1>5, <2>1
<1>7. \A i \in 1 .. n - 1 : (u \o v)[i] = s[i]
  BY <1>1, <1>2, <1>5
<1> QED
  BY <1>3, <1>4, <1>6, <1>7 DEF u, n

LEMMA CutAt ==
  ASSUME NEW S, NEW s \in Seq(S), NEW m \in 0 .. Len(s)
  PROVE  /\ SubSeq(s, 1, m) \in Seq(S)
         /\ Len(SubSeq(s, 1, m)) = m
         /\ \A i \in 1 .. m : SubSeq(s, 1, m)[i] = s[i]
BY SubSeqProperties

LEMMA MinIs ==
  ASSUME NEW T \in SUBSET Nat, T # {}
  PROVE  Min(T) \in T /\ \A e \in T : Min(T) <= e
<1>1. PICK d \in T : \A e \in T : ~(<<e, d>> \in OpToRel(<, Nat))
  BY NatLessThanWellFounded, WFMin
<1>2. \A x, y \in Nat : x < y => <<x, y>> \in OpToRel(<, Nat)
  BY DEF OpToRel
<1>3. \A e \in T : ~(e < d)
  BY <1>1, <1>2, Zenon
<1>4. \A e \in T : d <= e
  BY <1>3
<1> QED
  BY <1>4 DEF Min

LEMMA MaxIs ==
  ASSUME NEW n \in Nat, NEW T \in SUBSET (1 .. n), T # {}
  PROVE  Max(T) \in T /\ \A e \in T : e <= Max(T)
<1> DEFINE R == {n - e : e \in T}
<1>1. R \in SUBSET Nat /\ R # {}
  <2>1. \A e \in T : n - e \in Nat
    OBVIOUS
  <2> QED
    BY <2>1
<1>2. Min(R) \in R /\ \A e \in R : Min(R) <= e
  BY <1>1, MinIs
<1>3. PICK d \in T : Min(R) = n - d
  BY <1>2
<1>4. \A e \in T : n - d <= n - e
  BY <1>2, <1>3
<1>5. \A e \in T : e <= d
  BY <1>4
<1> QED
  BY <1>5 DEF Max
================================================================================
