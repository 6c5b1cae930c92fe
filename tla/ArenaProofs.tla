------------------------------ MODULE ArenaProofs ------------------------------
(***************************************************************************)
(* Proofs about Arena: handlers that interrupt the allocator of cells      *)
(* anywhere but in the windows it leaves open do not make it hand out a    *)
(* cell twice or write into one that is in use, for any number of pages,   *)
(* handlers and cells asked for.  The windows "count" and "tested" are let  *)
(* in: they hurt only the lists that listqA takes at once.                 *)
(***************************************************************************)
EXTENDS Arena, StackTheorems, FiniteSetTheorems

USE ArenaAssumption

-------------------------------------------------------------------------------
(* Lists.                                                                  *)

Links == [Cells -> Cells \cup {Nil}]

\* No two cells of the list that starts at h link to the same one, and none to its first.
Good(h, l) ==
  /\ \A c, d \in List(h, l) : l[c] = l[d] /\ l[c] # Nil => c = d
  /\ \A c \in List(h, l) : l[c] # h

LEMMA NilIsNoCell == Nil \notin Cells
<1>1. \A c \in Cells : c >= 1
  BY DEF Cells
<1> QED
  BY <1>1 DEF Nil

LEMMA CellsFinite == IsFiniteSet(Cells) /\ Cells \subseteq Nat
<1>1. PerPage * MaxPages \in Nat
  OBVIOUS
<1> QED
  BY <1>1, FS_Interval DEF Cells

LEMMA ListLeast ==
  ASSUME NEW h, NEW l, NEW S \in SUBSET Cells, Closed(S, h, l)
  PROVE  List(h, l) \subseteq S
BY DEF List

LEMMA ListClosed ==
  ASSUME NEW h \in Cells \cup {Nil}, NEW l \in Links
  PROVE  List(h, l) \in SUBSET Cells /\ Closed(List(h, l), h, l)
<1>1. h # Nil => h \in List(h, l)
  <2>1. \A S \in SUBSET Cells : Closed(S, h, l) => h \in S \cup {Nil}
    BY DEF Closed
  <2> QED
    BY <2>1 DEF List
<1>2. ASSUME NEW c \in List(h, l), l[c] # Nil
      PROVE  l[c] \in List(h, l)
  <2>1. c \in Cells /\ l[c] \in Cells
    BY <1>2 DEF List, Links
  <2>2. ASSUME NEW S \in SUBSET Cells, Closed(S, h, l)
        PROVE  l[c] \in S
    <3>1. c \in S
      BY <2>2 DEF List
    <3> QED
      BY <1>2, <2>2, <3>1 DEF Closed
  <2> QED
    BY <2>1, <2>2 DEF List
<1> QED
  BY <1>1, <1>2 DEF List, Closed

LEMMA ListNil ==
  ASSUME NEW l
  PROVE  List(Nil, l) = {} /\ Good(Nil, l)
<1>1. Closed({}, Nil, l)
  BY DEF Closed
<1>2. List(Nil, l) \subseteq {}
  BY <1>1, ListLeast
<1> QED
  BY <1>2 DEF Good

\* The list that starts at the second cell lacks the first.
LEMMA ListPop ==
  ASSUME NEW l \in Links, NEW h \in Cells, Good(h, l)
  PROVE  /\ h \in List(h, l)
         /\ List(l[h], l) = List(h, l) \ {h}
         /\ Good(l[h], l)
<1> DEFINE L == List(h, l)
           M == List(l[h], l)
<1>1. L \in SUBSET Cells /\ Closed(L, h, l)
  BY ListClosed
<1>2. h \in L /\ \A c \in L : l[c] \in L \cup {Nil} /\ l[c] # h
  BY <1>1, NilIsNoCell DEF Closed, Good
<1>3. l[h] \in Cells \cup {Nil}
  BY DEF Links
<1>4. M \in SUBSET Cells /\ Closed(M, l[h], l)
  BY <1>3, ListClosed
<1>5. Closed(L \ {h}, l[h], l)
  BY <1>2 DEF Closed
<1>6. M \subseteq L \ {h}
  <2>1. L \ {h} \in SUBSET Cells
    BY <1>1
  <2> HIDE DEF L
  <2> QED
    BY <1>5, <2>1, ListLeast
<1>7. Closed(M \cup {h}, h, l)
  BY <1>4 DEF Closed
<1>8. L \subseteq M \cup {h}
  <2>1. M \cup {h} \in SUBSET Cells
    BY <1>4
  <2> HIDE DEF M
  <2> QED
    BY <1>7, <2>1, ListLeast
<1>9. M = L \ {h}
  BY <1>6, <1>8
<1>10. Good(l[h], l)
  <2>1. \A c, d \in L : l[c] = l[d] /\ l[c] # Nil => c = d
    BY DEF Good
  <2>2. ASSUME NEW c \in M
        PROVE  l[c] # l[h]
    <3>1. CASE l[h] = Nil
      BY <3>1, ListNil
    <3>2. CASE l[h] # Nil
      BY <1>2, <1>9, <2>1, <3>2
    <3> QED
      BY <3>1, <3>2
  <2> QED
    BY <1>9, <2>1, <2>2 DEF Good
<1> QED
  BY <1>2, <1>9, <1>10

\* The links of other cells do not matter.
LEMMA ListFrame ==
  ASSUME NEW h \in Cells \cup {Nil}, NEW l \in Links, NEW m \in Links,
         \A c \in List(h, l) : m[c] = l[c]
  PROVE  List(h, m) = List(h, l) /\ (Good(h, l) => Good(h, m))
<1> DEFINE L == List(h, l)
           M == List(h, m)
<1>1. L \in SUBSET Cells /\ Closed(L, h, l) /\ M \in SUBSET Cells /\ Closed(M, h, m)
  BY ListClosed
<1>2. \A c \in L : m[c] = l[c]
  OBVIOUS
<1>3. M \subseteq L
  <2>1. Closed(L, h, m)
    BY <1>1, <1>2 DEF Closed
  <2> HIDE DEF L
  <2> QED
    BY <1>1, <2>1, ListLeast
<1>4. L \subseteq M
  <2>1. Closed(M, h, l)
    BY <1>1, <1>2, <1>3 DEF Closed
  <2> HIDE DEF M
  <2> QED
    BY <1>1, <2>1, ListLeast
<1>5. L = M
  BY <1>3, <1>4
<1> QED
  BY <1>2, <1>5 DEF Good

\* A cell before the list.
LEMMA ListPush ==
  ASSUME NEW h \in Cells \cup {Nil}, NEW l \in Links, NEW m \in Links, Good(h, l),
         NEW c \in Cells, c \notin List(h, l), m[c] = h,
         \A d \in List(h, l) : m[d] = l[d]
  PROVE  List(c, m) = List(h, l) \cup {c} /\ Good(c, m)
<1> DEFINE L == List(h, l)
<1>1. L \in SUBSET Cells /\ Closed(L, h, l)
  BY ListClosed
<1>2. List(h, m) = L /\ Good(h, m)
  BY ListFrame
<1>3. \A d \in L : m[d] = l[d] /\ m[d] \in L \cup {Nil} /\ m[d] # h
  BY <1>1 DEF Closed, Good
<1>4. List(c, m) \in SUBSET Cells /\ Closed(List(c, m), c, m)
  BY ListClosed
<1>5. c # Nil
  BY NilIsNoCell
<1>6. List(c, m) \subseteq L \cup {c}
  <2>1. Closed(L \cup {c}, c, m)
    BY <1>1, <1>3 DEF Closed
  <2>2. L \cup {c} \in SUBSET Cells
    BY <1>1
  <2> HIDE DEF L
  <2> QED
    BY <2>1, <2>2, ListLeast
<1>7. c \in List(c, m)
  BY <1>4, <1>5 DEF Closed
<1>8. L \subseteq List(c, m)
  <2>1. Closed(List(c, m), h, m)
    BY <1>4, <1>7 DEF Closed
  <2>2. List(h, m) \subseteq List(c, m)
    BY <1>4, <2>1, ListLeast
  <2> QED
    BY <1>2, <2>2
<1>9. List(c, m) = L \cup {c}
  BY <1>6, <1>7, <1>8
<1>10. Good(c, m)
  <2>1. \A x, y \in L : m[x] = m[y] /\ m[x] # Nil => x = y
    BY <1>2 DEF Good
  <2>2. \A x \in L : m[x] # c
    BY <1>3, <1>5
  <2>3. m[c] # c
    BY <1>1, <1>5 DEF Closed
  <2> HIDE DEF L
  <2> QED
    BY <1>3, <1>9, <2>1, <2>2, <2>3 DEF Good
<1> QED
  BY <1>9, <1>10

\* What sweep_phase and add_page_to_freelist make of a set of cells when the list is
\* empty.
LEMMA ListSet ==
  ASSUME NEW G \in SUBSET Cells, G # {}, NEW m \in Links,
         \A c \in G : m[c] = IF c = Min(G) THEN Nil ELSE Max({d \in G : d < c})
  PROVE  Max(G) \in G /\ List(Max(G), m) = G /\ Good(Max(G), m)
<1> DEFINE n == PerPage * MaxPages
           below(c) == {d \in G : d < c}
<1>1. n \in Nat /\ G \subseteq 1 .. n /\ G \subseteq Nat
  BY DEF Cells
<1> HIDE DEF n
<1>2. Max(G) \in G /\ \A c \in G : c <= Max(G)
  BY <1>1, MaxIs
<1>3. Min(G) \in G /\ \A c \in G : Min(G) <= c
  BY <1>1, MinIs
<1>4. ASSUME NEW c \in G, c # Min(G)
      PROVE  m[c] \in G /\ m[c] < c /\ \A d \in G : d < c => d <= m[c]
  <2>1. Min(G) \in below(c)
    <3>1. Min(G) \in Nat /\ c \in Nat /\ Min(G) <= c
      BY <1>1, <1>3
    <3>2. Min(G) < c
      BY <1>4, <3>1
    <3> QED
      BY <1>3, <3>2
  <2>2. below(c) \in SUBSET (1 .. n)
    BY <1>1
  <2>3. m[c] = Max(below(c))
    BY <1>4
  <2>4. Max(below(c)) \in below(c) /\ \A d \in below(c) : d <= Max(below(c))
    <3> HIDE DEF below
    <3> QED
      BY <1>1, <2>1, <2>2, MaxIs
  <2> QED
    BY <2>3, <2>4
<1>5. \A c \in G : m[c] \in G \cup {Nil} /\ (c = Min(G) => m[c] = Nil)
  BY <1>4
<1>6. Max(G) \in Cells
  BY <1>2
<1>7. List(Max(G), m) \subseteq G
  <2>1. Closed(G, Max(G), m)
    BY <1>2, <1>5 DEF Closed
  <2> QED
    BY <2>1, ListLeast
<1>8. List(Max(G), m) \in SUBSET Cells /\ Closed(List(Max(G), m), Max(G), m)
  BY <1>6, ListClosed
<1>9. G \subseteq List(Max(G), m)
  <2> DEFINE R == G \ List(Max(G), m)
  <2>1. SUFFICES ASSUME R # {}
                 PROVE  FALSE
    OBVIOUS
  <2>2. R \in SUBSET (1 .. n)
    BY <1>1
  <2>3. Max(R) \in R /\ \A c \in R : c <= Max(R)
    <3> HIDE DEF R
    <3> QED
      BY <1>1, <2>1, <2>2, MaxIs
  <2>4. PICK c \in R : \A d \in R : d <= c
    BY <2>3
  <2>5. c \in G /\ c # Max(G)
    BY <1>6, <1>8, <2>4, NilIsNoCell DEF Closed
  <2> DEFINE U == {d \in G : c < d}
  <2>6. U \in SUBSET Nat /\ Max(G) \in U
    <3>1. Max(G) \in Nat /\ c \in Nat /\ c <= Max(G)
      BY <1>1, <1>2, <2>5
    <3>2. c < Max(G)
      BY <2>5, <3>1
    <3> QED
      BY <1>1, <1>2, <3>2
  <2>7. Min(U) \in U /\ \A d \in U : Min(U) <= d
    <3> HIDE DEF U
    <3> QED
      BY <2>6, MinIs
  <2>8. PICK d \in U : \A e \in U : d <= e
    BY <2>7
  <2>9. d \in List(Max(G), m)
    <3>1. ~(d <= c)
      BY <1>1, <2>5, <2>8
    <3> QED
      BY <2>4, <2>8, <3>1
  <2>10. d # Min(G)
    BY <1>1, <1>3, <2>5, <2>8
  <2>11. m[d] \in G /\ m[d] < d /\ c <= m[d]
    BY <1>4, <2>5, <2>8, <2>10
  <2>12. ~(c < m[d])
    <3>1. m[d] \in U => d <= m[d]
      BY <2>8
    <3>2. m[d] \in Nat /\ d \in Nat
      BY <1>1, <2>8, <2>11
    <3> QED
      BY <2>11, <3>1, <3>2
  <2>13. m[d] = c
    <3>1. m[d] \in Nat /\ c \in Nat
      BY <1>1, <2>5, <2>11
    <3> QED
      BY <2>11, <2>12, <3>1
  <2>14. c \in List(Max(G), m)
    BY <1>8, <2>5, <2>9, <2>13, NilIsNoCell DEF Closed
  <2> QED
    BY <2>4, <2>14
<1>10. List(Max(G), m) = G
  BY <1>7, <1>9
<1>11. ASSUME NEW c \in G, NEW d \in G, m[c] = m[d], m[c] # Nil
       PROVE  c = d
  <2>1. c # Min(G) /\ d # Min(G)
    BY <1>5, <1>11
  <2>2. m[c] < c /\ m[d] < d /\ (c < d => c <= m[d]) /\ (d < c => d <= m[c])
    BY <1>4, <2>1
  <2>3. m[c] \in Nat
    BY <1>1, <1>4, <2>1
  <2> QED
    BY <1>1, <1>11, <2>2, <2>3
<1>12. ASSUME NEW c \in G
       PROVE  m[c] # Max(G)
  <2>1. CASE c = Min(G)
    BY <1>5, <1>6, <2>1, NilIsNoCell
  <2>2. CASE c # Min(G)
    <3>1. m[c] < c /\ c <= Max(G)
      BY <1>2, <1>4, <2>2
    <3>2. m[c] \in Nat /\ c \in Nat /\ Max(G) \in Nat
      BY <1>1, <1>2, <1>4, <2>2
    <3> QED
      BY <3>1, <3>2
  <2> QED
    BY <2>1, <2>2
<1> QED
  BY <1>2, <1>10, <1>11, <1>12 DEF Good

\* The cells that follow a cell, as many as are asked for.
LEMMA WalkIs ==
  ASSUME link \in Links, NEW c \in Cells \cup {Nil}, NEW n \in Nat \ {0}
  PROVE  /\ Walk(c, n) \in [1 .. n -> Cells \cup {Nil}]
         /\ Walk(c, n)[1] = c
         /\ \A i \in 2 .. n : Walk(c, n)[i] = LinkOf(Walk(c, n)[i - 1])
<1> DEFINE Follows(w, k) == w[1] = c /\ \A i \in 2 .. k : w[i] = LinkOf(w[i - 1])
           T == {k \in Nat \ {0} : ~\E w \in [1 .. k -> Cells \cup {Nil}] : Follows(w, k)}
<1>1. T = {}
  <2>1. SUFFICES ASSUME T # {}
                 PROVE  FALSE
    OBVIOUS
  <2>2. T \in SUBSET Nat
    OBVIOUS
  <2>3. Min(T) \in T /\ \A e \in T : Min(T) <= e
    <3> HIDE DEF T
    <3> QED
      BY <2>1, <2>2, MinIs
  <2>4. PICK k \in T : \A e \in T : k <= e
    BY <2>3
  <2>5. CASE k = 1
    <3> DEFINE w == [i \in 1 .. 1 |-> c]
    <3>1. w \in [1 .. k -> Cells \cup {Nil}] /\ Follows(w, k)
      BY <2>5
    <3> QED
      BY <2>4, <3>1
  <2>6. CASE k # 1
    <3>1. k \in Nat \ {0} /\ k - 1 \in Nat \ {0} /\ ~(k <= k - 1)
      BY <2>4, <2>6
    <3>2. PICK w \in [1 .. k - 1 -> Cells \cup {Nil}] : Follows(w, k - 1)
      <4>1. k - 1 \notin T
        BY <2>4, <3>1
      <4> QED
        BY <3>1, <4>1
    <3> DEFINE v == [i \in 1 .. k |-> IF i < k THEN w[i] ELSE LinkOf(w[k - 1])]
    <3>3. \A x \in Cells \cup {Nil} : LinkOf(x) \in Cells \cup {Nil}
      BY NilIsNoCell DEF LinkOf, Links
    <3>4. v \in [1 .. k -> Cells \cup {Nil}]
      <4>1. \A i \in 1 .. k : v[i] \in Cells \cup {Nil}
        <5> TAKE i \in 1 .. k
        <5>1. CASE i < k
          <6>1. i \in 1 .. k - 1
            BY <3>1, <5>1
          <6> QED
            BY <5>1, <6>1
        <5>2. CASE ~(i < k)
          <6>1. k - 1 \in 1 .. k - 1
            BY <3>1
          <6> QED
            BY <3>3, <5>2, <6>1
        <5> QED
          BY <5>1, <5>2
      <4> QED
        BY <4>1
    <3>5. v[1] = c
      BY <3>1, <3>2
    <3>6. ASSUME NEW i \in 2 .. k
          PROVE  v[i] = LinkOf(v[i - 1])
      <4>1. i - 1 \in 1 .. k /\ i - 1 < k /\ i \in 1 .. k
        BY <3>1
      <4>2. v[i - 1] = w[i - 1]
        BY <4>1
      <4>3. CASE i < k
        <5>1. i \in 2 .. k - 1
          BY <3>1, <4>3
        <5> QED
          BY <3>2, <4>1, <4>2, <4>3, <5>1
      <4>4. CASE ~(i < k)
        <5>1. i = k
          BY <3>1, <4>4
        <5> QED
          BY <4>1, <4>2, <4>4, <5>1
      <4> QED
        BY <4>3, <4>4
    <3> QED
      BY <2>4, <3>4, <3>5, <3>6
  <2> QED
    BY <2>5, <2>6
<1>2. \E w \in [1 .. n -> Cells \cup {Nil}] : w[1] = c /\ \A i \in 2 .. n : w[i] = LinkOf(w[i - 1])
  BY <1>1
<1> QED
  BY <1>2 DEF Walk

\* Whoever follows the links of a list meets its cells, until it ends, and the list goes
\* on without them.
LEMMA WalkAlong ==
  ASSUME link \in Links, head \in Cells \cup {Nil}, Good(head, link),
         NEW n \in Nat \ {0}
  PROVE  LET run == Walk(head, n)
             taken == {run[i] : i \in 1 .. n} \ {Nil}
         IN /\ LinkOf(run[n]) \in Cells \cup {Nil}
            /\ List(LinkOf(run[n]), link) = OnList \ taken
            /\ Good(LinkOf(run[n]), link)
            /\ taken \subseteq OnList
<1> DEFINE run == Walk(head, n)
           upto(k) == {run[i] : i \in 1 .. k} \ {Nil}
<1>1. run[1] = head /\ \A i \in 2 .. n : run[i] = LinkOf(run[i - 1])
  BY WalkIs
<1>2. OnList \in SUBSET Cells /\ Nil \notin OnList
  BY NilIsNoCell DEF OnList, List
<1> HIDE DEF run
<1> DEFINE P(k) == /\ run[k] \in OnList \cup {Nil} /\ upto(k - 1) \subseteq OnList
                   /\ List(run[k], link) = OnList \ upto(k - 1) /\ Good(run[k], link)
           T == {k \in 1 .. n : ~P(k)}
<1>3. \A k \in 1 .. n : P(k) => /\ LinkOf(run[k]) \in OnList \cup {Nil}
                                /\ List(LinkOf(run[k]), link) = OnList \ upto(k)
                                /\ Good(LinkOf(run[k]), link)
                                /\ upto(k) \subseteq OnList
  <2> TAKE k \in 1 .. n
  <2> HAVE P(k)
  <2>1. upto(k) = upto(k - 1) \cup ({run[k]} \ {Nil})
    <3>1. \A i : i \in 1 .. k <=> i \in 1 .. k - 1 \/ i = k
      OBVIOUS
    <3> QED
      BY <3>1
  <2>2. CASE run[k] = Nil
    <3>1. LinkOf(run[k]) = Nil /\ upto(k) = upto(k - 1)
      BY <2>1, <2>2 DEF LinkOf
    <3> HIDE DEF upto
    <3> QED
      BY <2>2, <3>1
  <2>3. CASE run[k] # Nil
    <3>1. run[k] \in Cells /\ LinkOf(run[k]) = link[run[k]] /\ link[run[k]] \in Cells \cup {Nil}
      BY <1>2, <2>3 DEF LinkOf, Links
    <3>2. List(link[run[k]], link) = List(run[k], link) \ {run[k]} /\ Good(link[run[k]], link)
      BY <3>1, ListPop
    <3>3. upto(k) = upto(k - 1) \cup {run[k]}
      BY <2>1, <2>3
    <3>4. link[run[k]] \in Cells => link[run[k]] \in List(link[run[k]], link)
      BY <3>2, ListPop
    <3> HIDE DEF upto
    <3>5. List(LinkOf(run[k]), link) = OnList \ upto(k) /\ upto(k) \subseteq OnList
      BY <2>3, <3>1, <3>2, <3>3
    <3> QED
      BY <3>1, <3>2, <3>4, <3>5
  <2> QED
    BY <2>2, <2>3
<1>4. T = {}
  <2>1. SUFFICES ASSUME T # {}
                 PROVE  FALSE
    OBVIOUS
  <2>2. T \in SUBSET Nat
    OBVIOUS
  <2>3. Min(T) \in T /\ \A e \in T : Min(T) <= e
    <3> HIDE DEF T
    <3> QED
      BY <2>1, <2>2, MinIs
  <2>4. PICK k \in T : \A e \in T : k <= e
    BY <2>3
  <2>5. CASE k = 1
    <3>1. upto(k - 1) = {}
      BY <2>5
    <3>2. head \in OnList \cup {Nil}
      BY ListPop DEF OnList
    <3>3. P(k)
      BY <1>1, <2>5, <3>1, <3>2 DEF OnList
    <3> QED
      BY <2>4, <3>3
  <2>6. CASE k # 1
    <3>1. k - 1 \in 1 .. n /\ k \in 2 .. n /\ ~(k <= k - 1)
      BY <2>4, <2>6
    <3>2. P(k - 1)
      <4>1. k - 1 \notin T
        BY <2>4, <3>1
      <4> QED
        BY <3>1, <4>1
    <3>3. run[k] = LinkOf(run[k - 1])
      BY <1>1, <3>1
    <3>4. P(k)
      BY <1>3, <3>1, <3>2, <3>3
    <3> QED
      BY <2>4, <3>4
  <2> QED
    BY <2>5, <2>6
<1>5. P(n) /\ n \in 1 .. n
  BY <1>4
<1>6. /\ LinkOf(run[n]) \in Cells \cup {Nil}
      /\ List(LinkOf(run[n]), link) = OnList \ upto(n)
      /\ Good(LinkOf(run[n]), link)
      /\ upto(n) \subseteq OnList
  BY <1>2, <1>3, <1>5
<1> QED
  BY <1>6 DEF run

\* The first n cells of a list that has as many are different cells, and the list goes
\* on without them.
LEMMA WalkOnList ==
  ASSUME link \in Links, head \in Cells \cup {Nil}, Good(head, link),
         NEW n \in Nat \ {0}, n <= Cardinality(OnList)
  PROVE  LET run == Walk(head, n)
             taken == {run[i] : i \in 1 .. n}
         IN /\ \A i \in 1 .. n : run[i] \in OnList /\ \A j \in 1 .. i - 1 : run[i] # run[j]
            /\ List(LinkOf(run[n]), link) = OnList \ taken
            /\ Good(LinkOf(run[n]), link)
            /\ taken \subseteq OnList /\ Cardinality(taken) = n
<1> DEFINE run == Walk(head, n)
           upto(k) == {run[i] : i \in 1 .. k}
<1>1. run[1] = head /\ \A i \in 2 .. n : run[i] = LinkOf(run[i - 1])
  BY WalkIs
<1>2. OnList \in SUBSET Cells /\ IsFiniteSet(OnList)
  <2>1. OnList \in SUBSET Cells
    BY DEF OnList, List
  <2> QED
    BY <2>1, CellsFinite, FS_Subset
<1> HIDE DEF run
<1> DEFINE P(k) == /\ run[k] \in OnList /\ run[k] \notin upto(k - 1)
                   /\ List(run[k], link) = OnList \ upto(k - 1) /\ Good(run[k], link)
                   /\ IsFiniteSet(upto(k - 1)) /\ Cardinality(upto(k - 1)) = k - 1
           T == {k \in 1 .. n : ~P(k)}
<1>3. \A k \in 1 .. n : P(k) => /\ List(LinkOf(run[k]), link) = OnList \ upto(k)
                                /\ Good(LinkOf(run[k]), link)
                                /\ IsFiniteSet(upto(k)) /\ Cardinality(upto(k)) = k
  <2> TAKE k \in 1 .. n
  <2> HAVE P(k)
  <2>1. upto(k) = upto(k - 1) \cup {run[k]}
    <3>1. \A i : i \in 1 .. k <=> i \in 1 .. k - 1 \/ i = k
      OBVIOUS
    <3> QED
      BY <3>1
  <2>2. run[k] \in Cells /\ run[k] # Nil
    BY <1>2, NilIsNoCell
  <2>3. LinkOf(run[k]) = link[run[k]]
    BY <2>2 DEF LinkOf
  <2>4. List(link[run[k]], link) = List(run[k], link) \ {run[k]} /\ Good(link[run[k]], link)
    BY <2>2, ListPop
  <2>5. IsFiniteSet(upto(k)) /\ Cardinality(upto(k)) = k
    <3>1. IsFiniteSet(upto(k - 1)) /\ Cardinality(upto(k - 1)) = k - 1 /\ run[k] \notin upto(k - 1)
      OBVIOUS
    <3> HIDE DEF upto
    <3>2. Cardinality(upto(k - 1) \cup {run[k]}) = (k - 1) + 1
      BY <3>1, FS_AddElement
    <3> QED
      BY <2>1, <3>1, <3>2, FS_AddElement
  <2> HIDE DEF upto
  <2> QED
    BY <2>1, <2>3, <2>4, <2>5
<1>4. T = {}
  <2>1. SUFFICES ASSUME T # {}
                 PROVE  FALSE
    OBVIOUS
  <2>2. T \in SUBSET Nat
    OBVIOUS
  <2>3. Min(T) \in T /\ \A e \in T : Min(T) <= e
    <3> HIDE DEF T
    <3> QED
      BY <2>1, <2>2, MinIs
  <2>4. PICK k \in T : \A e \in T : k <= e
    BY <2>3
  <2>5. CASE k = 1
    <3>1. upto(k - 1) = {}
      BY <2>5
    <3>2. head # Nil
      <4>1. OnList # {}
        BY <1>2, FS_EmptySet
      <4> QED
        BY <4>1, ListNil DEF OnList
    <3>3. head \in Cells /\ head \in OnList
      BY <3>2, ListPop DEF OnList
    <3>4. IsFiniteSet(upto(k - 1)) /\ Cardinality(upto(k - 1)) = k - 1
      BY <2>5, <3>1, FS_EmptySet
    <3>5. P(k)
      BY <1>1, <2>5, <3>1, <3>3, <3>4 DEF OnList
    <3> QED
      BY <2>4, <3>5
  <2>6. CASE k # 1
    <3>1. k - 1 \in 1 .. n /\ k \in 2 .. n /\ ~(k <= k - 1)
      BY <2>4, <2>6
    <3>2. P(k - 1)
      <4>1. k - 1 \notin T
        BY <2>4, <3>1
      <4> QED
        BY <3>1, <4>1
    <3>3. run[k] = LinkOf(run[k - 1])
      BY <1>1, <3>1
    <3>4. /\ List(run[k], link) = OnList \ upto(k - 1) /\ Good(run[k], link)
          /\ IsFiniteSet(upto(k - 1)) /\ Cardinality(upto(k - 1)) = k - 1
      BY <1>3, <3>1, <3>2, <3>3
    <3>5. run[k] # Nil
      <4>1. SUFFICES ASSUME run[k] = Nil
                     PROVE  FALSE
        OBVIOUS
      <4>2. OnList \subseteq upto(k - 1)
        BY <3>4, <4>1, ListNil
      <4>3. Cardinality(OnList) <= k - 1
        BY <3>4, <4>2, FS_Subset
      <4>4. Cardinality(OnList) \in Nat
        BY <1>2, FS_CardinalityType
      <4> QED
        BY <3>1, <4>3, <4>4
    <3>6. run[k] \in Cells
      <4>1. run[k - 1] \in Cells
        BY <1>2, <3>2
      <4> QED
        BY <3>3, <3>5, <4>1 DEF LinkOf, Links
    <3>7. run[k] \in List(run[k], link)
      BY <3>4, <3>6, ListPop
    <3>8. P(k)
      BY <3>4, <3>7
    <3> QED
      BY <2>4, <3>8
  <2> QED
    BY <2>5, <2>6
<1>5. \A k \in 1 .. n : P(k)
  BY <1>4
<1>6. \A i \in 1 .. n : run[i] \in OnList /\ \A j \in 1 .. i - 1 : run[i] # run[j]
  BY <1>5
<1>7. n \in 1 .. n
  OBVIOUS
<1>8. /\ List(LinkOf(run[n]), link) = OnList \ upto(n) /\ Good(LinkOf(run[n]), link)
      /\ Cardinality(upto(n)) = n
  BY <1>3, <1>5, <1>7
<1>9. upto(n) \subseteq OnList
  BY <1>6
<1> QED
  BY <1>6, <1>8, <1>9 DEF run

-------------------------------------------------------------------------------
(* The inductive invariant.                                                *)

\* What an activity needs to go on: a cell it has read is one, a list it is asked for
\* has a cell, and of the cells saved the second is not there without the first.
Shape(a) ==
  /\ a.at \in {"next", "store", "count", "fill"} => a.p # Nil
  /\ a.at \in {"list", "tested"} => a.n # 0
  /\ a.free1 = Nil => a.free2 = Nil
  /\ a.free1 = a.free2 => a.free1 = Nil

\* The list is free cells, each on it once.  If no signal arrives where tm_nfree is not
\* the length of the list, there are tm_nfree of them but for one that was just taken.
ListInv ==
  /\ OnList \subseteq isFree
  /\ Good(head, link)
  /\ isFree \cap used = {}
  /\ Windows = {} => nfree = Cardinality(OnList) + (IF top.at = "count" THEN 1 ELSE 0)

\* Cells taken off the list still say free, cells saved do not, and both belong to one
\* activity.
OwnerInv ==
  \A i \in 1 .. Len(stack) :
    /\ Shape(stack[i])
    /\ Popped(stack[i]) \subseteq isFree \ OnList
    /\ Saved(stack[i]) \subseteq (1 .. PerPage * npage) \ (isFree \cup used)
    /\ \A j \in 1 .. Len(stack) : i # j =>
         Popped(stack[i]) \cap Popped(stack[j]) = {} /\ Saved(stack[i]) \cap Saved(stack[j]) = {}

\* An activity a that was interrupted by the handler b finds the list again as it
\* has read it.
Resumes(a, b) ==
  /\ b.allowed = "safe" => a.at \in {"run", "collected"}
  /\ b.allowed = "normal" =>
       /\ Windows = {} => a.at \notin {"count", "tested"}
       /\ a.at \in {"next", "store", "list", "tested"} => a.p = b.free1
       /\ a.at = "store" => a.tem = b.free2

RestInv == \A i \in 1 .. Len(stack) - 1 : Resumes(stack[i], stack[i + 1])

\* The activity that runs has read the list as it is.
ReadInv ==
  /\ top.at \in {"next", "store", "list", "tested"} => top.p = head
  /\ top.at = "store" => top.tem = LinkOf(head)
  /\ Windows = {} /\ top.at = "tested" => top.n <= nfree

IInv == TypeOK /\ ListInv /\ OwnerInv /\ RestInv /\ ReadInv

-------------------------------------------------------------------------------
(* Types and the stack.                                                    *)

LEMMA PageCells ==
  ASSUME NEW k \in 0 .. MaxPages
  PROVE  PerPage * k \in Nat /\ 1 .. PerPage * k \subseteq Cells
<1>1. PerPage * k \in Nat /\ PerPage * MaxPages \in Nat
  OBVIOUS
<1>2. PerPage * k <= PerPage * MaxPages
  OBVIOUS
<1> QED
  BY <1>1, <1>2 DEF Cells

LEMMA PagesGrow ==
  ASSUME NEW j \in 0 .. MaxPages, NEW k \in 0 .. MaxPages, j <= k
  PROVE  1 .. PerPage * j \subseteq 1 .. PerPage * k
<1>1. PerPage * j \in Nat /\ PerPage * k \in Nat
  OBVIOUS
<1>2. PerPage * j <= PerPage * k
  OBVIOUS
<1> QED
  BY <1>1, <1>2

LEMMA TopIs ==
  ASSUME TypeOK
  PROVE  /\ top = stack[Len(stack)] /\ top \in Activities
         /\ Len(stack) \in Nat \ {0}
         /\ \A i \in 1 .. Len(stack) : stack[i] \in Activities
<1>1. stack \in Seq(Activities) /\ Len(stack) \in 1 .. MaxDepth + 1
  BY DEF TypeOK
<1>2. \A i \in 1 .. Len(stack) : stack[i] \in Activities
  BY <1>1, ElementOfSeq
<1> QED
  BY <1>1, <1>2 DEF top, Last

\* A step of the activity on top.
LEMMA GoesOn ==
  ASSUME TypeOK, NEW a \in Activities, Goes(a)
  PROVE  /\ stack' \in Seq(Activities) /\ Len(stack') = Len(stack)
         /\ stack'[Len(stack)] = a /\ top' = a
         /\ \A i \in 1 .. Len(stack) - 1 : stack'[i] = stack[i]
<1>1. stack \in Seq(Activities) /\ Len(stack) # 0
  BY DEF TypeOK
<1>2. <<a>> \in Seq(Activities) /\ Len(<<a>>) = 1 /\ <<a>>[1] = a
  OBVIOUS
<1>3. stack' = Front(stack) \o <<a>>
  BY DEF Goes
<1>4. /\ stack' \in Seq(Activities) /\ Len(stack') = Len(stack)
      /\ stack'[Len(stack)] = a
      /\ \A i \in 1 .. Len(stack) - 1 : stack'[i] = stack[i]
  BY <1>1, <1>2, <1>3, Replaced
<1> QED
  BY <1>4 DEF top, Last

\* A step of a handler that starts.
LEMMA Started1 ==
  ASSUME TypeOK, NEW a \in Activities, stack' = Append(stack, a)
  PROVE  /\ stack' \in Seq(Activities) /\ Len(stack') = Len(stack) + 1
         /\ stack'[Len(stack) + 1] = a /\ top' = a
         /\ \A i \in 1 .. Len(stack) : stack'[i] = stack[i]
<1>1. stack \in Seq(Activities)
  BY DEF TypeOK
<1>2. /\ stack' \in Seq(Activities) /\ Len(stack') = Len(stack) + 1
      /\ stack'[Len(stack) + 1] = a
      /\ \A i \in 1 .. Len(stack) : stack'[i] = stack[i]
  BY <1>1, PushedOn
<1> QED
  BY <1>2 DEF top, Last

\* Steps that do not let a handler start keep the owners apart if each activity keeps
\* what it saved, and only the one on top takes a cell, from the list.
LEMMA OwnersStep ==
  ASSUME IInv, npage <= npage', npage' \in 0 .. MaxPages, Len(stack') \in 1 .. Len(stack),
         \A i \in 1 .. Len(stack') :
           /\ Shape(stack'[i]) /\ Saved(stack'[i]) = Saved(stack[i])
           /\ Popped(stack'[i]) \subseteq (isFree \ OnList)'
           /\ Saved(stack[i]) \cap (isFree \cup used)' = {}
           /\ \/ Popped(stack'[i]) \subseteq Popped(stack[i])
              \/ i = Len(stack') /\ Popped(stack'[i]) \subseteq OnList
  PROVE  OwnerInv'
<1>1. Len(stack) \in Nat \ {0} /\ npage \in 0 .. MaxPages
  BY TopIs DEF IInv, TypeOK
<1>2. 1 .. PerPage * npage \subseteq 1 .. PerPage * npage'
  BY <1>1, PagesGrow
<1>3. \A i \in 1 .. Len(stack') : i \in 1 .. Len(stack)
  BY <1>1
<1>4. ASSUME NEW i \in 1 .. Len(stack')
      PROVE  /\ Saved(stack[i]) \subseteq 1 .. PerPage * npage
             /\ Popped(stack[i]) \cap OnList = {}
             /\ \A j \in 1 .. Len(stack') : i # j =>
                  Popped(stack[i]) \cap Popped(stack[j]) = {} /\ Saved(stack[i]) \cap Saved(stack[j]) = {}
  BY <1>3 DEF IInv, OwnerInv
<1>5. ASSUME NEW i \in 1 .. Len(stack'), NEW j \in 1 .. Len(stack'), i # j
      PROVE  Popped(stack'[i]) \cap Popped(stack'[j]) = {}
  <2>1. /\ Popped(stack[i]) \cap Popped(stack[j]) = {}
        /\ Popped(stack[i]) \cap OnList = {} /\ Popped(stack[j]) \cap OnList = {}
    BY <1>4, <1>5
  <2>2. i # Len(stack') \/ j # Len(stack')
    BY <1>5
  <2> QED
    BY <2>1, <2>2
<1>6. ASSUME NEW i \in 1 .. Len(stack')
      PROVE  Saved(stack'[i]) \subseteq (1 .. PerPage * npage') \ (isFree \cup used)'
  BY <1>2, <1>4
<1>7. ASSUME NEW i \in 1 .. Len(stack'), NEW j \in 1 .. Len(stack'), i # j
      PROVE  Saved(stack'[i]) \cap Saved(stack'[j]) = {}
  BY <1>4, <1>7
<1> QED
  BY <1>5, <1>6, <1>7 DEF OwnerInv

\* Those below the top rest as they did when the one on top goes on, or when the
\* stack is cut.
LEMMA RestStep ==
  ASSUME IInv, Len(stack') \in 1 .. Len(stack),
         \A i \in 1 .. Len(stack') - 1 : stack'[i] = stack[i],
         LET a == stack'[Len(stack')]
             b == stack[Len(stack')]
         IN a.allowed = b.allowed /\ a.free1 = b.free1 /\ a.free2 = b.free2
  PROVE  RestInv'
<1>1. Len(stack) \in Nat \ {0}
  BY TopIs DEF IInv
<1>2. ASSUME NEW i \in 1 .. Len(stack') - 1
      PROVE  Resumes(stack'[i], stack'[i + 1])
  <2>1. i \in 1 .. Len(stack) - 1 /\ i + 1 \in 1 .. Len(stack')
    BY <1>1
  <2>2. Resumes(stack[i], stack[i + 1])
    BY <2>1 DEF IInv, RestInv
  <2>3. /\ stack'[i + 1].allowed = stack[i + 1].allowed
        /\ stack'[i + 1].free1 = stack[i + 1].free1 /\ stack'[i + 1].free2 = stack[i + 1].free2
    <3>1. CASE i + 1 = Len(stack')
      BY <3>1
    <3>2. CASE i + 1 # Len(stack')
      <4>1. i + 1 \in 1 .. Len(stack') - 1
        BY <1>1, <3>2
      <4> QED
        BY <4>1
    <3> QED
      BY <3>1, <3>2
  <2> QED
    BY <2>2, <2>3 DEF Resumes
<1> QED
  BY <1>2 DEF RestInv

LEMMA CountIs ==
  ASSUME IInv
  PROVE  /\ IsFiniteSet(OnList) /\ Cardinality(OnList) \in Nat
         /\ Windows = {} /\ top.at # "count" => nfree = Cardinality(OnList)
         /\ Windows = {} /\ top.at = "count" => nfree = Cardinality(OnList) + 1
<1>1. OnList \in SUBSET Cells
  BY DEF OnList, List
<1>2. IsFiniteSet(OnList)
  BY <1>1, CellsFinite, FS_Subset
<1>3. Cardinality(OnList) \in Nat
  BY <1>2, FS_CardinalityType
<1> QED
  BY <1>2, <1>3 DEF IInv, ListInv

\* What a step of the activity on top owes to the others.
LEMMA TopStep ==
  ASSUME IInv, NEW a \in Activities, Goes(a), Shape(a),
         a.free1 = top.free1, a.free2 = top.free2, a.allowed = top.allowed,
         npage <= npage', npage' \in 0 .. MaxPages,
         \A i \in 1 .. Len(stack) : Saved(stack[i]) \cap (isFree \cup used)' = {},
         \A i \in 1 .. Len(stack) - 1 : Popped(stack[i]) \subseteq (isFree \ OnList)',
         Popped(a) \subseteq (isFree \ OnList)',
         Popped(a) \subseteq Popped(top) \/ Popped(a) \subseteq OnList
  PROVE  OwnerInv' /\ RestInv'
<1>1. /\ Len(stack') = Len(stack) /\ stack'[Len(stack)] = a
      /\ \A i \in 1 .. Len(stack) - 1 : stack'[i] = stack[i]
  BY GoesOn DEF IInv
<1>2. top = stack[Len(stack)] /\ Len(stack) \in Nat \ {0}
  BY TopIs DEF IInv
<1>3. ASSUME NEW i \in 1 .. Len(stack')
      PROVE  /\ Shape(stack'[i]) /\ Saved(stack'[i]) = Saved(stack[i])
             /\ Popped(stack'[i]) \subseteq (isFree \ OnList)'
             /\ Saved(stack[i]) \cap (isFree \cup used)' = {}
             /\ \/ Popped(stack'[i]) \subseteq Popped(stack[i])
                \/ i = Len(stack') /\ Popped(stack'[i]) \subseteq OnList
  <2>1. i \in 1 .. Len(stack)
    BY <1>1
  <2>2. CASE i = Len(stack)
    BY <1>1, <1>2, <2>1, <2>2 DEF Saved
  <2>3. CASE i # Len(stack)
    <3>1. i \in 1 .. Len(stack) - 1
      BY <1>2, <2>1, <2>3
    <3> QED
      BY <1>1, <2>1, <3>1 DEF IInv, OwnerInv
  <2> QED
    BY <2>2, <2>3
<1>4. OwnerInv'
  <2>1. Len(stack') \in 1 .. Len(stack)
    BY <1>1, <1>2
  <2> QED
    BY <1>3, <2>1, OwnersStep
<1>5. RestInv'
  BY <1>1, <1>2, RestStep
<1> QED
  BY <1>4, <1>5

\* Steps of the activity on top that neither take a cell off the list nor put one on it.
LEMMA QuietStep ==
  ASSUME IInv, NEW a \in Activities, Goes(a), UNCHANGED <<head, nfree, memory>>,
         a.free1 = top.free1, a.free2 = top.free2, a.allowed = top.allowed,
         Shape(a), Popped(a) \subseteq Popped(top), top.at # "count", a.at # "count",
         a.at \in {"next", "store", "list", "tested"} => a.p = head,
         a.at = "store" => a.tem = LinkOf(head),
         Windows = {} /\ a.at = "tested" => a.n <= nfree
  PROVE  IInv'
<1>1. /\ stack' \in Seq(Activities) /\ Len(stack') = Len(stack)
      /\ stack'[Len(stack)] = a /\ top' = a
      /\ \A i \in 1 .. Len(stack) - 1 : stack'[i] = stack[i]
  BY GoesOn DEF IInv
<1>2. top = stack[Len(stack)] /\ Len(stack) \in Nat \ {0}
  BY TopIs DEF IInv
<1>3. /\ head' = head /\ nfree' = nfree /\ link' = link /\ isFree' = isFree /\ used' = used
      /\ npage' = npage
  BY DEF memory
<1>4. OnList' = OnList
  BY <1>3 DEF OnList, List, Closed
<1>5. TypeOK'
  BY <1>1, <1>3 DEF IInv, TypeOK
<1>6. ListInv'
  BY <1>1, <1>3, <1>4 DEF IInv, ListInv, Good, List, Closed
<1>7. OwnerInv' /\ RestInv'
  <2>1. \A i \in 1 .. Len(stack) :
          Saved(stack[i]) \cap (isFree \cup used)' = {} /\ Popped(stack[i]) \subseteq (isFree \ OnList)'
    BY <1>3, <1>4 DEF IInv, OwnerInv
  <2>2. Popped(a) \subseteq (isFree \ OnList)'
    BY <1>2, <2>1
  <2>3. npage <= npage' /\ npage' \in 0 .. MaxPages
    BY <1>3 DEF IInv, TypeOK
  <2> QED
    BY <2>1, <2>2, <2>3, TopStep
<1>8. ReadInv'
  <2>1. LinkOf(head)' = LinkOf(head)
    BY <1>3 DEF LinkOf
  <2> QED
    BY <1>1, <1>3, <2>1 DEF ReadInv
<1> QED
  BY <1>5, <1>6, <1>7, <1>8 DEF IInv

-------------------------------------------------------------------------------
(* Taking a cell.                                                          *)

LEMMA Runs0 == \A i \in {0} \cup (1 .. MaxRun) : i \in 0 .. MaxRun
OBVIOUS

LEMMA TopShape ==
  ASSUME IInv
  PROVE  /\ top \in Activities /\ Shape(top)
         /\ Popped(top) \subseteq isFree \ OnList
         /\ Saved(top) \cap (isFree \cup used) = {}
BY TopIs DEF IInv, OwnerInv

LEMMA TakeKeeps ==
  ASSUME IInv, Take
  PROVE  IInv'
<1> DEFINE a == [top EXCEPT !.at = "next", !.p = head]
<1>1. top \in Activities /\ Shape(top) /\ head \in Cells \cup {Nil} /\ head # Nil
  BY TopShape DEF IInv, TypeOK, Take
<1>2. a \in Activities /\ Shape(a) /\ Popped(a) = {}
  BY <1>1 DEF Activities, Locations, Shape, Popped
<1>3. /\ a.at = "next" /\ a.p = head
      /\ a.free1 = top.free1 /\ a.free2 = top.free2 /\ a.allowed = top.allowed
  BY <1>1 DEF Activities
<1>4. Goes(a) /\ UNCHANGED <<head, nfree, memory>> /\ top.at # "count"
  BY DEF Take
<1> HIDE DEF a
<1> QED
  BY <1>2, <1>3, <1>4, QuietStep

LEMMA Next1Keeps ==
  ASSUME IInv, Next1
  PROVE  IInv'
<1> DEFINE a == [top EXCEPT !.at = "store", !.tem = LinkOf(top.p)]
<1>1. top \in Activities /\ Shape(top) /\ top.at = "next"
  BY TopShape DEF Next1, Runs
<1>2. top.p = head /\ link \in Links
  BY <1>1 DEF IInv, ReadInv, TypeOK, Links
<1>3. LinkOf(top.p) \in Cells \cup {Nil}
  BY <1>1, <1>2 DEF LinkOf, Links, Activities
<1>4. a \in Activities /\ Shape(a) /\ Popped(a) = {}
  BY <1>1, <1>3 DEF Activities, Locations, Shape, Popped
<1>5. /\ a.at = "store" /\ a.p = head /\ a.tem = LinkOf(head)
      /\ a.free1 = top.free1 /\ a.free2 = top.free2 /\ a.allowed = top.allowed
  BY <1>1, <1>2 DEF Activities
<1>6. Goes(a) /\ UNCHANGED <<head, nfree, memory>> /\ top.at # "count"
  BY <1>1 DEF Next1
<1> HIDE DEF a
<1> QED
  BY <1>4, <1>5, <1>6, QuietStep

LEMMA StoreKeeps ==
  ASSUME IInv, Store
  PROVE  IInv'
<1> DEFINE a == [top EXCEPT !.at = "count", !.tem = Nil]
<1>1. top \in Activities /\ Shape(top) /\ top.at = "store"
  BY TopShape DEF Store, Runs
<1>2. /\ top.p = head /\ top.tem = LinkOf(head) /\ head \in Cells
      /\ head' = link[head] /\ nfree' = nfree /\ link' = link /\ isFree' = isFree
      /\ used' = used /\ npage' = npage
  BY <1>1 DEF IInv, ReadInv, TypeOK, Store, memory, Shape, Activities, LinkOf
<1>3. a \in Activities /\ Shape(a) /\ Popped(a) = {head} /\ Saved(a) = Saved(top)
  BY <1>1, <1>2 DEF Activities, Locations, Shape, Popped, Saved
<1>4. /\ a.at = "count" /\ a.free1 = top.free1 /\ a.free2 = top.free2
      /\ a.allowed = top.allowed
  BY <1>1 DEF Activities
<1>5. Goes(a)
  BY DEF Store
<1> HIDE DEF a
<1>6. /\ stack' \in Seq(Activities) /\ Len(stack') = Len(stack)
      /\ stack'[Len(stack)] = a /\ top' = a
      /\ \A i \in 1 .. Len(stack) - 1 : stack'[i] = stack[i]
  BY <1>3, <1>5, GoesOn DEF IInv
<1>7. top = stack[Len(stack)] /\ Len(stack) \in Nat \ {0}
  BY TopIs DEF IInv
<1>8. link \in Links /\ Good(head, link) /\ OnList \subseteq Cells
  BY DEF IInv, TypeOK, ListInv, Links, OnList, List
<1>9. head \in OnList /\ OnList' = OnList \ {head} /\ Good(head', link')
  <2>1. /\ head \in List(head, link) /\ List(link[head], link) = List(head, link) \ {head}
        /\ Good(link[head], link)
    BY <1>2, <1>8, ListPop
  <2>2. OnList' = List(link[head], link)
    BY <1>2 DEF OnList, List, Closed
  <2>3. Good(head', link')
    BY <1>2, <2>1
  <2> QED
    BY <2>1, <2>2, <2>3 DEF OnList
<1>10. TypeOK'
  <2>1. head' \in Cells \cup {Nil}
    BY <1>2, <1>8 DEF Links
  <2> QED
    BY <1>2, <1>6, <2>1 DEF IInv, TypeOK
<1>11. ListInv'
  <2>1. Cardinality(OnList') = Cardinality(OnList) - 1 /\ Cardinality(OnList) \in Nat
    <3>1. IsFiniteSet(OnList)
      BY <1>8, CellsFinite, FS_Subset
    <3> QED
      BY <1>9, <3>1, FS_RemoveElement, FS_CardinalityType
  <2>2. Windows = {} => nfree = Cardinality(OnList)
    BY <1>1, CountIs
  <2>3. Windows = {} => nfree' = Cardinality(OnList') + 1
    BY <1>2, <2>1, <2>2
  <2>4. OnList' \subseteq isFree' /\ Good(head, link)' /\ (isFree \cap used)' = {}
    BY <1>2, <1>9 DEF IInv, ListInv, Good, List, Closed
  <2> QED
    BY <1>4, <1>6, <2>3, <2>4 DEF ListInv
<1>12. OwnerInv' /\ RestInv'
  <2>1. \A i \in 1 .. Len(stack) :
          Saved(stack[i]) \cap (isFree \cup used)' = {} /\ Popped(stack[i]) \subseteq (isFree \ OnList)'
    BY <1>2, <1>9 DEF IInv, OwnerInv
  <2>2. Popped(a) \subseteq (isFree \ OnList)' /\ Popped(a) \subseteq OnList
    BY <1>2, <1>3, <1>9 DEF IInv, ListInv
  <2>3. npage <= npage' /\ npage' \in 0 .. MaxPages
    BY <1>2 DEF IInv, TypeOK
  <2> QED
    BY <1>3, <1>4, <1>5, <2>1, <2>2, <2>3, TopStep
<1>13. ReadInv'
  BY <1>4, <1>6 DEF ReadInv
<1> QED
  BY <1>10, <1>11, <1>12, <1>13 DEF IInv

LEMMA CountKeeps ==
  ASSUME IInv, Count
  PROVE  IInv'
<1> DEFINE a == [top EXCEPT !.at = "fill"]
<1>1. top \in Activities /\ Shape(top) /\ top.at = "count"
  BY TopShape DEF Count, Runs
<1>2. /\ nfree' = nfree - 1 /\ head' = head /\ link' = link /\ isFree' = isFree
      /\ used' = used /\ npage' = npage
  BY DEF Count, memory
<1>3. a \in Activities /\ Shape(a) /\ Popped(a) = Popped(top)
  BY <1>1 DEF Activities, Locations, Shape, Popped
<1>4. /\ a.at = "fill" /\ a.free1 = top.free1 /\ a.free2 = top.free2
      /\ a.allowed = top.allowed
  BY <1>1 DEF Activities
<1>5. Goes(a)
  BY DEF Count
<1> HIDE DEF a
<1>6. stack' \in Seq(Activities) /\ Len(stack') = Len(stack) /\ top' = a
  BY <1>3, <1>5, GoesOn DEF IInv
<1>7. OnList' = OnList
  BY <1>2 DEF OnList, List, Closed
<1>8. TypeOK'
  BY <1>2, <1>6 DEF IInv, TypeOK
<1>9. ListInv'
  <2>1. Windows = {} => nfree' = Cardinality(OnList')
    BY <1>1, <1>2, <1>7, CountIs
  <2> QED
    BY <1>2, <1>4, <1>6, <1>7, <2>1 DEF IInv, ListInv, Good, List, Closed
<1>10. OwnerInv' /\ RestInv'
  <2>1. \A i \in 1 .. Len(stack) :
          Saved(stack[i]) \cap (isFree \cup used)' = {} /\ Popped(stack[i]) \subseteq (isFree \ OnList)'
    BY <1>2, <1>7 DEF IInv, OwnerInv
  <2>2. Popped(a) \subseteq (isFree \ OnList)'
    BY <1>2, <1>3, <1>7, TopShape
  <2>3. npage <= npage' /\ npage' \in 0 .. MaxPages
    BY <1>2 DEF IInv, TypeOK
  <2> QED
    BY <1>3, <1>4, <1>5, <2>1, <2>2, <2>3, TopStep
<1>11. ReadInv'
  BY <1>4, <1>6 DEF ReadInv
<1> QED
  BY <1>8, <1>9, <1>10, <1>11 DEF IInv

LEMMA FillKeeps ==
  ASSUME IInv, Fill
  PROVE  IInv'
<1> DEFINE a == [top EXCEPT !.at = "run", !.p = Nil]
           p == top.p
<1>1. top \in Activities /\ Shape(top) /\ top.at = "fill"
  BY TopShape DEF Fill, Runs
<1>2. /\ nfree' = nfree /\ head' = head /\ link' = [link EXCEPT ![p] = Nil]
      /\ isFree' = isFree \ {p} /\ used' = used \cup {p} /\ npage' = npage
  BY DEF Fill
<1>3. a \in Activities /\ Shape(a) /\ Popped(a) = {}
  BY <1>1 DEF Activities, Locations, Shape, Popped
<1>4. /\ a.at = "run" /\ a.free1 = top.free1 /\ a.free2 = top.free2
      /\ a.allowed = top.allowed
  BY <1>1 DEF Activities
<1>5. Goes(a)
  BY DEF Fill
<1>6. Popped(top) = {p}
  BY <1>1 DEF Popped
<1> HIDE DEF a, p
<1>7. stack' \in Seq(Activities) /\ Len(stack') = Len(stack) /\ top' = a
  BY <1>3, <1>5, GoesOn DEF IInv
<1>8. p \in isFree \ OnList
  BY <1>6, TopShape
<1>9. link \in Links /\ head \in Cells \cup {Nil} /\ isFree \subseteq Cells
  <2>1. npage \in 0 .. MaxPages /\ isFree \subseteq 1 .. PerPage * npage
    BY DEF IInv, TypeOK
  <2> QED
    BY <2>1, PageCells DEF IInv, TypeOK, Links
<1>10. link' \in Links /\ \A c \in OnList : link'[c] = link[c]
  BY <1>2, <1>8, <1>9 DEF Links, OnList, List
<1>11. OnList' = OnList /\ Good(head, link)'
  <2>1. List(head, link') = List(head, link) /\ Good(head, link')
    BY <1>9, <1>10, ListFrame DEF OnList, IInv, ListInv
  <2> QED
    BY <1>2, <2>1 DEF OnList, List, Closed, Good
<1>12. TypeOK'
  BY <1>2, <1>7, <1>8, <1>10 DEF IInv, TypeOK, Links
<1>13. ListInv'
  <2>1. (Windows = {} => nfree' = Cardinality(OnList')) /\ Cardinality(OnList') \in Nat
    BY <1>1, <1>2, <1>11, CountIs
  <2>2. OnList' \subseteq isFree' /\ (isFree \cap used)' = {}
    BY <1>2, <1>8, <1>11 DEF IInv, ListInv
  <2> QED
    BY <1>4, <1>7, <1>11, <2>1, <2>2 DEF ListInv
<1>14. OwnerInv' /\ RestInv'
  <2>1. ASSUME NEW i \in 1 .. Len(stack)
        PROVE  Saved(stack[i]) \cap (isFree \cup used)' = {}
    <3>1. Saved(stack[i]) \cap (isFree \cup used) = {}
      BY DEF IInv, OwnerInv
    <3> QED
      BY <1>2, <1>8, <3>1
  <2>2. ASSUME NEW i \in 1 .. Len(stack) - 1
        PROVE  Popped(stack[i]) \subseteq (isFree \ OnList)'
    <3>1. Len(stack) \in Nat \ {0} /\ top = stack[Len(stack)]
      BY TopIs DEF IInv
    <3>2. i \in 1 .. Len(stack) /\ Len(stack) \in 1 .. Len(stack) /\ i # Len(stack)
      BY <3>1
    <3>3. Popped(stack[i]) \subseteq isFree \ OnList /\ Popped(stack[i]) \cap Popped(top) = {}
      BY <3>1, <3>2 DEF IInv, OwnerInv
    <3> QED
      BY <1>2, <1>6, <1>11, <3>3
  <2>3. npage <= npage' /\ npage' \in 0 .. MaxPages
    BY <1>2 DEF IInv, TypeOK
  <2> QED
    BY <1>3, <1>4, <1>5, <2>1, <2>2, <2>3, TopStep
<1>15. ReadInv'
  BY <1>4, <1>7 DEF ReadInv
<1> QED
  BY <1>12, <1>13, <1>14, <1>15 DEF IInv

-------------------------------------------------------------------------------
(* Filling the list.                                                       *)

\* The cells G become the list, which is empty; none of them is free, in use or saved.
LEMMA Refilled ==
  ASSUME IInv, top.at \in {"run", "collected"}, head = Nil,
         NEW G \in SUBSET Cells, G # {}, G \cap (isFree \cup used) = {},
         NEW a \in Activities, Goes(a), Shape(a), a.at \in {"collected", "grown"},
         a.free1 = top.free1, a.free2 = top.free2, a.allowed = top.allowed,
         npage <= npage', npage' \in 0 .. MaxPages, G \subseteq 1 .. PerPage * npage',
         \A i \in 1 .. Len(stack) : Saved(stack[i]) \cap G = {},
         link' = Prepended(G), head' = Max(G), isFree' = isFree \cup G, used' = used,
         nfree' = nfree + Cardinality(G)
  PROVE  IInv'
<1>1. /\ stack' \in Seq(Activities) /\ Len(stack') = Len(stack) /\ top' = a
  BY GoesOn DEF IInv
<1>2. link \in Links
  BY DEF IInv, TypeOK, Links
<1>3. link' \in Links /\ \A c \in G : link'[c] = IF c = Min(G) THEN Nil ELSE Max({d \in G : d < c})
  <2>1. \A c \in G : Prepended(G)[c] = IF c = Min(G) THEN Nil ELSE Max({d \in G : d < c})
    BY DEF Prepended
  <2>2. ASSUME NEW c \in G, c # Min(G)
        PROVE  Max({d \in G : d < c}) \in Cells
    <3> DEFINE below == {d \in G : d < c}
               n == PerPage * MaxPages
    <3>1. n \in Nat /\ below \in SUBSET (1 .. n) /\ G \in SUBSET Nat
      BY DEF Cells
    <3>2. Min(G) \in G /\ \A d \in G : Min(G) <= d
      BY <3>1, MinIs
    <3>3. Min(G) \in below
      <4>1. Min(G) \in Nat /\ c \in Nat /\ Min(G) <= c
        BY <3>1, <3>2
      <4>2. Min(G) < c
        BY <2>2, <4>1
      <4> QED
        BY <3>2, <4>2
    <3>4. Max(below) \in below
      <4> HIDE DEF below, n
      <4> QED
        BY <3>1, <3>3, MaxIs
    <3> QED
      BY <3>4
  <2>3. \A c \in Cells : Prepended(G)[c] = IF c \notin G THEN link[c] ELSE
                           IF c = Min(G) THEN Nil ELSE Max({d \in G : d < c})
    BY DEF Prepended
  <2>4. Prepended(G) = [c \in Cells |-> Prepended(G)[c]]
    BY DEF Prepended
  <2>5. ASSUME NEW c \in Cells
        PROVE  Prepended(G)[c] \in Cells \cup {Nil}
    <3>1. CASE c \notin G
      BY <1>2, <2>3, <3>1 DEF Links
    <3>2. CASE c \in G /\ c = Min(G)
      BY <2>3, <3>2
    <3>3. CASE c \in G /\ c # Min(G)
      <4>1. Prepended(G)[c] = Max({d \in G : d < c})
        BY <2>3, <3>3
      <4> QED
        BY <2>2, <3>3, <4>1
    <3> QED
      BY <3>1, <3>2, <3>3
  <2>6. Prepended(G) \in Links
    BY <2>4, <2>5 DEF Links
  <2> QED
    BY <2>1, <2>6
<1>4. Max(G) \in G /\ List(Max(G), link') = G /\ Good(Max(G), link')
  BY <1>3, ListSet
<1>5. OnList' = G /\ Good(head, link)'
  <2>1. OnList' = List(head', link')
    BY DEF OnList, List, Closed
  <2>2. Good(head, link)' <=> Good(head', link')
    BY DEF Good, List, Closed
  <2> QED
    BY <1>4, <2>1, <2>2
<1>6. IsFiniteSet(G) /\ Cardinality(G) \in Nat
  <2>1. IsFiniteSet(G)
    BY CellsFinite, FS_Subset
  <2> QED
    BY <2>1, FS_CardinalityType
<1>7. Windows = {} => nfree = 0
  <2>1. OnList = {}
    BY ListNil DEF OnList
  <2>2. Windows = {} => nfree = Cardinality(OnList)
    BY CountIs
  <2> QED
    BY <2>1, <2>2, FS_EmptySet
<1>8. 1 .. PerPage * npage \subseteq 1 .. PerPage * npage'
  BY PagesGrow DEF IInv, TypeOK
<1>9. TypeOK'
  <2>1. isFree' \subseteq 1 .. PerPage * npage' /\ used' \subseteq 1 .. PerPage * npage'
    BY <1>8 DEF IInv, TypeOK
  <2>2. head' \in Cells
    BY <1>4
  <2>4. nfree' \in Int
    BY <1>6 DEF IInv, TypeOK
  <2>3. Len(stack') \in 1 .. MaxDepth + 1
    BY <1>1 DEF IInv, TypeOK
  <2> QED
    BY <1>1, <1>3, <2>1, <2>2, <2>3, <2>4 DEF TypeOK, Links
<1>10. ListInv'
  <2>1. (Windows = {} => nfree' = Cardinality(OnList')) /\ Cardinality(OnList') \in Nat
    BY <1>5, <1>6, <1>7
  <2>2. OnList' \subseteq isFree' /\ (isFree \cap used)' = {}
    BY <1>5 DEF IInv, ListInv
  <2> QED
    BY <1>1, <1>5, <2>1, <2>2 DEF ListInv
<1>11. OwnerInv' /\ RestInv'
  <2>1. ASSUME NEW i \in 1 .. Len(stack)
        PROVE  Saved(stack[i]) \cap (isFree \cup used)' = {} /\ Popped(stack[i]) \subseteq (isFree \ OnList)'
    <3>1. Saved(stack[i]) \cap (isFree \cup used) = {} /\ Popped(stack[i]) \subseteq isFree
      BY DEF IInv, OwnerInv
    <3> QED
      BY <1>5, <3>1
  <2>2. Popped(a) = {}
    BY DEF Popped
  <2> QED
    BY <2>1, <2>2, TopStep
<1>12. ReadInv'
  BY <1>1 DEF ReadInv
<1> QED
  BY <1>9, <1>10, <1>11, <1>12 DEF IInv

\* What handlers have saved is held.
LEMMA HeldIs ==
  ASSUME TypeOK
  PROVE  \A i \in 1 .. Len(stack) : Saved(stack[i]) \subseteq Held
<1>1. DOMAIN stack = 1 .. Len(stack)
  BY LenProperties DEF TypeOK
<1> QED
  BY <1>1 DEF Held

LEMMA CollectKeeps ==
  ASSUME IInv, Collect
  PROVE  IInv'
<1> DEFINE a == [top EXCEPT !.at = "collected"]
           G == (1 .. PerPage * npage) \ (isFree \cup used \cup Held)
<1>1. top \in Activities /\ Shape(top) /\ top.at = "run" /\ head = Nil
  BY TopShape DEF Collect, Runs
<1>2. a \in Activities /\ Shape(a) /\ Popped(a) = {}
  BY <1>1 DEF Activities, Locations, Shape, Popped
<1>3. /\ a.at = "collected" /\ a.free1 = top.free1 /\ a.free2 = top.free2
      /\ a.allowed = top.allowed
  BY <1>1 DEF Activities
<1>4. Goes(a) /\ used' = used /\ npage' = npage
  BY DEF Collect
<1>5. /\ link' = Prepended(G) /\ head' = IF G = {} THEN head ELSE Max(G)
      /\ isFree' = isFree \cup G /\ nfree' = nfree + Cardinality(G)
  BY DEF Collect
<1>6. npage \in 0 .. MaxPages /\ G \subseteq 1 .. PerPage * npage /\ G \in SUBSET Cells
  BY PageCells DEF IInv, TypeOK
<1>7. G \cap (isFree \cup used \cup Held) = {}
  OBVIOUS
<1> HIDE DEF a, G
<1>8. CASE G = {}
  <2>1. Prepended(G) = link
    <3>1. link = [c \in Cells |-> link[c]]
      BY DEF IInv, TypeOK
    <3>2. Prepended(G) = [c \in Cells |-> link[c]]
      BY <1>8 DEF Prepended
    <3> QED
      BY <3>1, <3>2
  <2>2. nfree' = nfree
    BY <1>5, <1>8, FS_EmptySet DEF IInv, TypeOK
  <2>3. UNCHANGED <<head, nfree, memory>>
    BY <1>4, <1>5, <1>8, <2>1, <2>2 DEF memory
  <2> QED
    BY <1>1, <1>2, <1>3, <1>4, <2>3, QuietStep
<1>9. CASE G # {}
  <2>1. \A i \in 1 .. Len(stack) : Saved(stack[i]) \cap G = {}
    BY <1>7, HeldIs DEF IInv
  <2>2. head' = Max(G)
    BY <1>5, <1>9
  <2>3. npage <= npage' /\ npage' \in 0 .. MaxPages /\ G \subseteq 1 .. PerPage * npage'
    BY <1>4, <1>6
  <2> QED
    BY <1>1, <1>2, <1>3, <1>4, <1>5, <1>6, <1>7, <1>9, <2>1, <2>2, <2>3, Refilled
<1> QED
  BY <1>8, <1>9

LEMMA GrowKeeps ==
  ASSUME IInv, Grow
  PROVE  IInv'
<1> DEFINE a == [top EXCEPT !.at = "grown"]
           G == PerPage * npage + 1 .. PerPage * (npage + 1)
<1>1. /\ top \in Activities /\ Shape(top) /\ top.at \in {"run", "collected"} /\ head = Nil
      /\ npage < MaxPages
  BY TopShape DEF Grow
<1>2. a \in Activities /\ Shape(a)
  BY <1>1 DEF Activities, Locations, Shape
<1>3. /\ a.at = "grown" /\ a.free1 = top.free1 /\ a.free2 = top.free2
      /\ a.allowed = top.allowed
  BY <1>1 DEF Activities
<1>4. Goes(a) /\ used' = used /\ npage' = npage + 1
  BY DEF Grow
<1>5. link' = Prepended(G) /\ head' = Max(G) /\ isFree' = isFree \cup G /\ nfree' = nfree + PerPage
  BY DEF Grow
<1>6. npage \in 0 .. MaxPages /\ npage + 1 \in 0 .. MaxPages
  BY <1>1 DEF IInv, TypeOK
<1>7. G \subseteq 1 .. PerPage * (npage + 1) /\ G \in SUBSET Cells
  <2>1. PerPage * npage \in Nat /\ PerPage * (npage + 1) \in Nat /\ 1 .. PerPage * (npage + 1) \subseteq Cells
    BY <1>6, PageCells
  <2> QED
    BY <2>1
<1>8. G # {} /\ Cardinality(G) = PerPage
  <2>1. PerPage * npage \in Nat /\ PerPage * (npage + 1) = PerPage * npage + PerPage
    BY <1>6
  <2>2. PerPage \in Nat /\ PerPage # 0
    OBVIOUS
  <2> DEFINE k == PerPage * npage
  <2> HIDE DEF k
  <2>3. G = k + 1 .. k + PerPage /\ k \in Nat
    BY <2>1 DEF k
  <2>4. Cardinality(k + 1 .. k + PerPage) = IF k + 1 > k + PerPage THEN 0 ELSE k + PerPage - (k + 1) + 1
    BY <2>2, <2>3, FS_Interval
  <2>5. k + 1 \in k + 1 .. k + PerPage
    BY <2>2, <2>3
  <2>6. ~(k + 1 > k + PerPage) /\ k + PerPage - (k + 1) + 1 = PerPage
    BY <2>2, <2>3
  <2> HIDE DEF G
  <2>7. Cardinality(G) = PerPage
    BY <2>3, <2>4, <2>6, Zenon
  <2> QED
    BY <2>3, <2>5, <2>7
<1>9. G \cap (1 .. PerPage * npage) = {}
  <2>1. PerPage * npage \in Nat
    BY <1>6
  <2> QED
    BY <2>1
<1> HIDE DEF a, G
<1>10. G \cap (isFree \cup used) = {} /\ \A i \in 1 .. Len(stack) : Saved(stack[i]) \cap G = {}
  BY <1>9 DEF IInv, TypeOK, OwnerInv
<1>11. npage <= npage' /\ npage' \in 0 .. MaxPages /\ G \subseteq 1 .. PerPage * npage'
  BY <1>4, <1>6, <1>7
<1>12. nfree' = nfree + Cardinality(G)
  BY <1>5, <1>8
<1> QED
  BY <1>1, <1>2, <1>3, <1>4, <1>5, <1>7, <1>8, <1>10, <1>11, <1>12, Refilled

LEMMA ExhaustedKeeps ==
  ASSUME IInv, Exhausted
  PROVE  IInv'
<1> DEFINE a == [top EXCEPT !.at = "run"]
<1>1. top \in Activities /\ Shape(top) /\ top.at \in {"collected", "grown"}
  BY TopShape DEF Exhausted
<1>2. a \in Activities /\ Shape(a) /\ Popped(a) = {}
  BY <1>1 DEF Activities, Locations, Shape, Popped
<1>3. /\ a.at = "run" /\ a.free1 = top.free1 /\ a.free2 = top.free2
      /\ a.allowed = top.allowed
  BY <1>1 DEF Activities
<1>4. Goes(a) /\ UNCHANGED <<head, nfree, memory>>
  BY DEF Exhausted
<1> HIDE DEF a
<1> QED
  BY <1>1, <1>2, <1>3, <1>4, QuietStep

LEMMA ForgetKeeps ==
  ASSUME IInv, NEW c \in Cells, Forget(c)
  PROVE  IInv'
<1>1. /\ used' = used \ {c} /\ head' = head /\ nfree' = nfree /\ link' = link
      /\ isFree' = isFree /\ npage' = npage /\ stack' = stack
  BY DEF Forget
<1>2. OnList' = OnList /\ top' = top /\ (Good(head, link) <=> Good(head, link)')
  BY <1>1 DEF OnList, List, Closed, top, Good
<1>3. TypeOK'
  BY <1>1 DEF IInv, TypeOK
<1>4. ListInv'
  BY <1>1, <1>2 DEF IInv, ListInv
<1>5. OwnerInv'
  BY <1>1, <1>2 DEF IInv, OwnerInv
<1>6. RestInv'
  BY <1>1 DEF IInv, RestInv
<1>7. ReadInv'
  BY <1>1, <1>2 DEF IInv, ReadInv, LinkOf
<1> QED
  BY <1>3, <1>4, <1>5, <1>6, <1>7 DEF IInv

-------------------------------------------------------------------------------
(* A list at once.                                                         *)

LEMMA ListBeginKeeps ==
  ASSUME IInv, NEW n \in 1 .. MaxRun, ListBegin(n)
  PROVE  IInv'
<1> DEFINE a == [top EXCEPT !.at = "list", !.p = head, !.n = n]
<1>1. top \in Activities /\ Shape(top) /\ top.at = "run" /\ head \in Cells \cup {Nil}
  BY TopShape DEF ListBegin, Runs, IInv, TypeOK
<1>2. a \in Activities /\ Shape(a) /\ Popped(a) = {}
  <2>1. n \in 0 .. MaxRun
    BY Runs0
  <2>2. a \in Activities
    BY <1>1, <2>1 DEF Activities, Locations
  <2> QED
    BY <1>1, <2>1, <2>2 DEF Activities, Shape, Popped
<1>3. /\ a.at = "list" /\ a.p = head /\ a.free1 = top.free1 /\ a.free2 = top.free2
      /\ a.allowed = top.allowed
  BY <1>1 DEF Activities
<1>4. Goes(a) /\ UNCHANGED <<head, nfree, memory>>
  BY DEF ListBegin
<1> HIDE DEF a
<1> QED
  BY <1>1, <1>2, <1>3, <1>4, QuietStep

LEMMA ListTestKeeps ==
  ASSUME IInv, ListTest
  PROVE  IInv'
<1>1. /\ top \in Activities /\ Shape(top) /\ top.at = "list" /\ top.p = head
      /\ nfree \in Int /\ top.n \in Nat
  <2>1. top \in Activities /\ Shape(top) /\ top.at = "list"
    BY TopShape DEF ListTest, Runs
  <2>2. top.p = head /\ nfree \in Int /\ top.n \in Nat
    BY <2>1 DEF IInv, ReadInv, TypeOK, Activities
  <2> QED
    BY <2>1, <2>2
<1>2. UNCHANGED <<head, nfree, memory>>
  BY DEF ListTest
<1>3. CASE nfree < top.n
  <2> DEFINE a == [top EXCEPT !.at = "run", !.p = Nil, !.n = 0]
  <2>1. a \in Activities /\ Shape(a) /\ Popped(a) = {}
    <3>1. 0 \in 0 .. MaxRun
      BY Runs0
    <3>2. a \in Activities
      BY <1>1, <3>1 DEF Activities, Locations
    <3> QED
      BY <1>1, <3>1, <3>2 DEF Activities, Shape, Popped
  <2>2. /\ a.at = "run" /\ a.free1 = top.free1 /\ a.free2 = top.free2
        /\ a.allowed = top.allowed
    BY <1>1 DEF Activities
  <2>3. Goes(a)
    BY <1>3 DEF ListTest
  <2> HIDE DEF a
  <2> QED
    BY <1>1, <1>2, <2>1, <2>2, <2>3, QuietStep
<1>4. CASE ~(nfree < top.n)
  <2> DEFINE a == [top EXCEPT !.at = "tested"]
  <2>1. a \in Activities /\ Shape(a) /\ Popped(a) = {}
    BY <1>1 DEF Activities, Locations, Shape, Popped
  <2>2. /\ a.at = "tested" /\ a.p = head /\ a.free1 = top.free1 /\ a.free2 = top.free2
        /\ a.allowed = top.allowed /\ a.n = top.n
    BY <1>1 DEF Activities
  <2>3. Goes(a)
    BY <1>4 DEF ListTest
  <2>4. a.n <= nfree
    BY <1>1, <1>4, <2>2
  <2> HIDE DEF a
  <2> QED
    BY <1>1, <1>2, <2>1, <2>2, <2>3, <2>4, QuietStep
<1> QED
  BY <1>3, <1>4

LEMMA ListTakeKeeps ==
  ASSUME IInv, ListTake
  PROVE  IInv'
<1> DEFINE a == [top EXCEPT !.at = "run", !.p = Nil, !.n = 0]
           n == top.n
           run == Walk(head, n)
           taken == {run[i] : i \in 1 .. n} \ {Nil}
<1>1. /\ top \in Activities /\ Shape(top) /\ top.at = "tested"
      /\ top.p = head /\ (Windows = {} => n <= nfree) /\ n \in Nat \ {0}
  <2>1. top \in Activities /\ Shape(top) /\ top.at = "tested"
    BY TopShape DEF ListTake, Runs
  <2>2. top.p = head /\ (Windows = {} => n <= nfree)
    BY <2>1 DEF IInv, ReadInv
  <2>3. n \in Nat \ {0}
    BY <2>1 DEF Activities, Shape
  <2> QED
    BY <2>1, <2>2, <2>3
<1>2. a \in Activities /\ Shape(a) /\ Popped(a) = {}
  <2>1. 0 \in 0 .. MaxRun
    BY Runs0
  <2>2. a \in Activities
    BY <1>1, <2>1 DEF Activities, Locations
  <2> QED
    BY <1>1, <2>1, <2>2 DEF Activities, Shape, Popped
<1>3. /\ a.at = "run" /\ a.free1 = top.free1 /\ a.free2 = top.free2
      /\ a.allowed = top.allowed
  BY <1>1 DEF Activities
<1>4. Goes(a)
  BY DEF ListTake
<1> HIDE DEF a
<1>5. stack' \in Seq(Activities) /\ Len(stack') = Len(stack) /\ top' = a
  BY <1>2, <1>4, GoesOn DEF IInv
<1>6. /\ link \in Links /\ head \in Cells \cup {Nil} /\ Good(head, link)
      /\ OnList \subseteq isFree /\ OnList \subseteq Cells
  BY DEF IInv, TypeOK, ListInv, Links, OnList, List
<1>7. /\ IsFiniteSet(OnList) /\ Cardinality(OnList) \in Nat
      /\ Windows = {} => nfree = Cardinality(OnList)
  BY <1>1, CountIs
<1>8. /\ LinkOf(run[n]) \in Cells \cup {Nil}
      /\ List(LinkOf(run[n]), link) = OnList \ taken
      /\ Good(LinkOf(run[n]), link)
      /\ taken \subseteq OnList
  <2>1. n \in Nat \ {0}
    BY <1>1
  <2> HIDE DEF n
  <2> QED
    BY <1>6, <2>1, WalkAlong
<1>9. Windows = {} => Cardinality(taken) = n
  <2>1. SUFFICES ASSUME Windows = {}
                 PROVE  Cardinality(taken) = n
    OBVIOUS
  <2>2. n \in Nat \ {0} /\ n <= Cardinality(OnList)
    BY <1>1, <1>7, <2>1
  <2>3. \A i \in 1 .. n : run[i] \in OnList
    <3> HIDE DEF n
    <3> QED
      BY <1>6, <2>2, WalkOnList
  <2>4. Cardinality({run[i] : i \in 1 .. n}) = n
    <3> HIDE DEF n
    <3> QED
      BY <1>6, <2>2, WalkOnList
  <2>5. Nil \notin OnList
    BY <1>6, NilIsNoCell
  <2>6. {run[i] : i \in 1 .. n} = taken
    BY <2>3, <2>5
  <2> QED
    BY <2>4, <2>6
<1>10. /\ head' = LinkOf(run[n]) /\ used' = used \cup taken /\ isFree' = isFree \ taken
       /\ link' = [c \in Cells |-> IF c \in taken THEN Nil ELSE link[c]]
       /\ nfree' = nfree - n /\ npage' = npage
  <2>1. taken = {Walk(top.p, top.n)[i] : i \in 1 .. top.n} \ {Nil}
    BY <1>1
  <2>2. run = Walk(top.p, top.n)
    BY <1>1
  <2> HIDE DEF taken, run
  <2> QED
    BY <2>1, <2>2 DEF ListTake
<1>11. head' \in Cells \cup {Nil}
  BY <1>8, <1>10
<1> HIDE DEF taken, run
<1>12. link' \in Links /\ \A c \in OnList \ taken : link'[c] = link[c]
  BY <1>6, <1>10 DEF Links
<1>13. List(head', link') = OnList \ taken /\ Good(head', link')
  <2>1. List(head', link) = OnList \ taken /\ Good(head', link)
    BY <1>8, <1>10
  <2>2. \A c \in List(head', link) : link'[c] = link[c]
    BY <1>12, <2>1
  <2> QED
    BY <1>6, <1>11, <1>12, <2>1, <2>2, ListFrame
<1>14. OnList' = OnList \ taken /\ Good(head, link)'
  BY <1>13 DEF OnList, List, Closed, Good
<1>15. taken \subseteq isFree /\ taken \subseteq 1 .. PerPage * npage
  BY <1>6, <1>8 DEF IInv, TypeOK
<1>16. TypeOK'
  <2>1. isFree' \subseteq 1 .. PerPage * npage' /\ used' \subseteq 1 .. PerPage * npage'
    BY <1>10, <1>15 DEF IInv, TypeOK
  <2>2. nfree' \in Int /\ npage' \in 0 .. MaxPages /\ Len(stack') \in 1 .. MaxDepth + 1
    BY <1>1, <1>5, <1>10 DEF IInv, TypeOK
  <2> QED
    BY <1>5, <1>11, <1>12, <2>1, <2>2 DEF TypeOK, Links
<1>17. ListInv'
  <2>1. Windows = {} => Cardinality(OnList \ taken) = Cardinality(OnList) - n
    <3>1. Cardinality(OnList \ taken) = Cardinality(OnList) - Cardinality(OnList \cap taken)
      BY <1>7, FS_Difference
    <3>2. OnList \cap taken = taken
      BY <1>8
    <3> QED
      BY <1>9, <3>1, <3>2
  <2>2. (Windows = {} => nfree' = Cardinality(OnList')) /\ Cardinality(OnList') \in Nat
    <3>1. IsFiniteSet(OnList \ taken)
      BY <1>7, FS_Subset
    <3>2. Cardinality(OnList \ taken) \in Nat
      BY <3>1, FS_CardinalityType
    <3> QED
      BY <1>1, <1>7, <1>10, <1>14, <2>1, <3>2
  <2>3. OnList' \subseteq isFree' /\ (isFree \cap used)' = {}
    BY <1>6, <1>10, <1>14 DEF IInv, ListInv
  <2> QED
    BY <1>3, <1>5, <1>14, <2>2, <2>3 DEF ListInv
<1>18. OwnerInv' /\ RestInv'
  <2>1. ASSUME NEW i \in 1 .. Len(stack)
        PROVE  Saved(stack[i]) \cap (isFree \cup used)' = {} /\ Popped(stack[i]) \subseteq (isFree \ OnList)'
    <3>1. Saved(stack[i]) \cap (isFree \cup used) = {} /\ Popped(stack[i]) \subseteq isFree \ OnList
      BY DEF IInv, OwnerInv
    <3> QED
      BY <1>8, <1>10, <1>14, <1>15, <3>1
  <2>2. npage <= npage' /\ npage' \in 0 .. MaxPages
    BY <1>10 DEF IInv, TypeOK
  <2> QED
    BY <1>2, <1>3, <1>4, <2>1, <2>2, TopStep
<1>19. ReadInv'
  BY <1>3, <1>5 DEF ReadInv
<1> QED
  BY <1>16, <1>17, <1>18, <1>19 DEF IInv

-------------------------------------------------------------------------------
(* Handlers.                                                               *)

LEMMA HandlerAtAllocKeeps ==
  ASSUME IInv, Windows \subseteq {"count", "tested"}, HandlerAtAlloc
  PROVE  IInv'
<1>1. PICK level \in {"safe", "normal"} :
        stack' = Append(stack, Started("safe", level, Nil, Nil))
  BY DEF HandlerAtAlloc, LevelsOf
<1> DEFINE b == Started("safe", level, Nil, Nil)
<1>2. b \in Activities /\ Shape(b) /\ Popped(b) = {} /\ Saved(b) = {}
  BY DEF Started, Activities, Locations, Shape, Popped, Saved, Nil
<1>3. b.at = "run" /\ b.allowed = "safe"
  BY DEF Started
<1>4. stack' = Append(stack, b)
  BY <1>1
<1> HIDE DEF b
<1>5. /\ stack' \in Seq(Activities) /\ Len(stack') = Len(stack) + 1
      /\ stack'[Len(stack) + 1] = b /\ top' = b
      /\ \A i \in 1 .. Len(stack) : stack'[i] = stack[i]
  BY <1>2, <1>4, Started1 DEF IInv
<1>6. /\ head' = head /\ nfree' = nfree /\ link' = link /\ isFree' = isFree /\ used' = used
      /\ npage' = npage
  BY DEF HandlerAtAlloc, memory
<1>7. OnList' = OnList /\ (Good(head, link) <=> Good(head, link)')
  BY <1>6 DEF OnList, List, Closed, Good
<1>8. top = stack[Len(stack)] /\ Len(stack) \in Nat \ {0} /\ Len(stack) <= MaxDepth
  BY TopIs DEF IInv, HandlerAtAlloc
<1>9. top.at \in {"run", "collected"}
  BY DEF HandlerAtAlloc, Runs
<1>10. TypeOK'
  BY <1>5, <1>6, <1>8 DEF IInv, TypeOK
<1>11. ListInv'
  <2>1. (Windows = {} => nfree' = Cardinality(OnList')) /\ Cardinality(OnList') \in Nat
    BY <1>6, <1>7, <1>9, CountIs
  <2> QED
    BY <1>3, <1>5, <1>6, <1>7, <2>1 DEF IInv, ListInv
<1>12. OwnerInv'
  <2>1. ASSUME NEW i \in 1 .. Len(stack')
        PROVE  \/ i \in 1 .. Len(stack) /\ stack'[i] = stack[i]
               \/ Popped(stack'[i]) = {} /\ Saved(stack'[i]) = {} /\ Shape(stack'[i])
    <3>1. i \in 1 .. Len(stack) \/ i = Len(stack) + 1
      BY <1>5, <1>8
    <3> QED
      BY <1>2, <1>5, <3>1
  <2>2. ASSUME NEW i \in 1 .. Len(stack')
        PROVE  /\ Shape(stack'[i])
               /\ Popped(stack'[i]) \subseteq isFree' \ OnList'
               /\ Saved(stack'[i]) \subseteq (1 .. PerPage * npage') \ (isFree' \cup used')
    BY <1>6, <1>7, <2>1 DEF IInv, OwnerInv
  <2>3. ASSUME NEW i \in 1 .. Len(stack'), NEW j \in 1 .. Len(stack'), i # j
        PROVE  /\ Popped(stack'[i]) \cap Popped(stack'[j]) = {}
               /\ Saved(stack'[i]) \cap Saved(stack'[j]) = {}
    BY <2>1, <2>3 DEF IInv, OwnerInv
  <2>4. \A i \in 1 .. Len(stack') :
           /\ Popped(stack[i])' = Popped(stack'[i])
           /\ Saved(stack[i])' = Saved(stack'[i])
           /\ Shape(stack[i])' <=> Shape(stack'[i])
    BY DEF Popped, Saved, Shape
  <2> QED
    BY <2>2, <2>3, <2>4 DEF OwnerInv
<1>13. RestInv'
  <2>1. ASSUME NEW i \in 1 .. Len(stack') - 1
        PROVE  Resumes(stack'[i], stack'[i + 1])
    <3>1. CASE i = Len(stack)
      BY <1>3, <1>5, <1>8, <1>9, <3>1 DEF Resumes
    <3>2. CASE i # Len(stack)
      <4>1. i \in 1 .. Len(stack) - 1 /\ i \in 1 .. Len(stack) /\ i + 1 \in 1 .. Len(stack)
        BY <1>5, <1>8, <3>2
      <4> QED
        BY <1>5, <4>1 DEF IInv, RestInv
    <3> QED
      BY <3>1, <3>2
  <2> QED
    BY <2>1 DEF RestInv
<1>14. ReadInv'
  BY <1>3, <1>5 DEF ReadInv
<1> QED
  BY <1>10, <1>11, <1>12, <1>13, <1>14 DEF IInv

\* The first two cells of the list, and the list without them.
LEMMA TwoOff ==
  ASSUME link \in Links, head \in Cells \cup {Nil}, Good(head, link),
         NEW free1, free1 = head, NEW free2, free2 = LinkOf(head),
         NEW rest, rest = LinkOf(free2)
  PROVE  /\ free1 \in Cells \cup {Nil} /\ free2 \in Cells \cup {Nil} /\ rest \in Cells \cup {Nil}
         /\ free1 = Nil => free2 = Nil
         /\ free1 = free2 => free1 = Nil
         /\ {free1, free2} \ {Nil} \subseteq OnList
         /\ List(rest, link) = OnList \ {free1, free2} /\ Good(rest, link)
<1>1. CASE head = Nil
  <2>1. free1 = Nil /\ free2 = Nil /\ rest = Nil
    BY <1>1 DEF LinkOf
  <2>2. OnList = {} /\ List(Nil, link) = {} /\ Good(Nil, link)
    BY <1>1, ListNil DEF OnList
  <2> QED
    BY <2>1, <2>2
<1>2. CASE head # Nil
  <2>1. head \in Cells /\ free2 = link[head] /\ free2 \in Cells \cup {Nil}
    BY <1>2 DEF LinkOf, Links
  <2>2. head \in OnList /\ List(free2, link) = OnList \ {head} /\ Good(free2, link)
    BY <2>1, ListPop DEF OnList
  <2>3. free1 # free2
    BY <2>1, <2>2 DEF Good, OnList
  <2>4. CASE free2 = Nil
    <3>1. rest = Nil /\ List(Nil, link) = {} /\ OnList \subseteq Cells
      BY <2>4, ListNil DEF LinkOf, OnList, List
    <3>2. OnList \ {free1, free2} = {}
      BY <2>2, <2>4, <3>1
    <3> QED
      BY <1>2, <2>1, <2>2, <2>3, <2>4, <3>1, <3>2
  <2>5. CASE free2 # Nil
    <3>1. free2 \in Cells /\ rest = link[free2] /\ rest \in Cells \cup {Nil}
      BY <2>1, <2>5 DEF LinkOf, Links
    <3>2. /\ free2 \in List(free2, link) /\ List(rest, link) = List(free2, link) \ {free2}
          /\ Good(rest, link)
      BY <2>2, <3>1, ListPop
    <3> QED
      BY <1>2, <2>1, <2>2, <2>3, <2>5, <3>1, <3>2
  <2> QED
    BY <2>4, <2>5
<1> QED
  BY <1>1, <1>2

LEMMA InterruptKeeps ==
  ASSUME IInv, Windows \subseteq {"count", "tested"}, Interrupt
  PROVE  IInv'
<1> DEFINE free1 == head
           free2 == LinkOf(head)
           rest == LinkOf(free2)
           b == Started("normal", "normal", free1, free2)
<1>1. /\ top.level = "normal" /\ Len(stack) <= MaxDepth
      /\ Windows = {} => top.at \notin {"count", "tested"}
  <2>1. top \in Activities
    BY TopShape
  <2>2. top.level = "safe" \/ top.level = "normal"
    BY <2>1 DEF Activities
  <2> QED
    BY <2>2 DEF Interrupt, Interrupts
<1>2. Interrupts(free1, free2, rest)
  BY <1>1 DEF Interrupt
<1>3. /\ link \in Links /\ head \in Cells \cup {Nil} /\ Good(head, link)
      /\ OnList \subseteq isFree /\ isFree \subseteq 1 .. PerPage * npage /\ isFree \cap used = {}
  BY DEF IInv, TypeOK, ListInv, Links
<1>4. /\ free1 \in Cells \cup {Nil} /\ free2 \in Cells \cup {Nil} /\ rest \in Cells \cup {Nil}
      /\ free1 = Nil => free2 = Nil
      /\ free1 = free2 => free1 = Nil
      /\ {free1, free2} \ {Nil} \subseteq OnList
      /\ List(rest, link) = OnList \ {free1, free2} /\ Good(rest, link)
  <2> HIDE DEF free1, free2, rest
  <2> QED
    BY <1>3, TwoOff DEF free1, free2, rest
<1>5. /\ stack' = Append(stack, b) /\ head' = rest /\ isFree' = isFree \ {free1, free2}
      /\ nfree' = nfree - Cardinality({free1, free2} \ {Nil})
      /\ link' = link /\ used' = used /\ npage' = npage
  BY <1>1, <1>2 DEF Interrupts, LevelsOf
<1>6. top.at \in {"next", "store", "list", "tested"} => top.p = free1
  BY DEF IInv, ReadInv
<1>7. top.at = "store" => top.tem = free2
  BY DEF IInv, ReadInv
<1> HIDE DEF free1, free2, rest
<1>8. b \in Activities /\ Shape(b) /\ Popped(b) = {}
  <2>1. 0 \in 0 .. MaxRun
    BY Runs0
  <2>2. b \in Activities
    BY <1>4, <2>1 DEF Started, Activities, Locations
  <2> QED
    BY <1>4, <2>2 DEF Started, Shape, Popped
<1>9. /\ b.at = "run" /\ b.allowed = "normal" /\ b.free1 = free1 /\ b.free2 = free2
      /\ Saved(b) = {free1, free2} \ {Nil}
  BY DEF Started, Saved
<1> HIDE DEF b
<1>10. /\ stack' \in Seq(Activities) /\ Len(stack') = Len(stack) + 1
       /\ stack'[Len(stack) + 1] = b /\ top' = b
       /\ \A i \in 1 .. Len(stack) : stack'[i] = stack[i]
  BY <1>5, <1>8, Started1 DEF IInv
<1>11. OnList' = OnList \ {free1, free2} /\ Good(head, link)'
  BY <1>4, <1>5 DEF OnList, List, Closed, Good
<1>12. top = stack[Len(stack)] /\ Len(stack) \in Nat \ {0}
  BY TopIs DEF IInv
<1>13. /\ Windows = {} => nfree = Cardinality(OnList)
       /\ IsFiniteSet(OnList) /\ Cardinality(OnList) \in Nat
  BY <1>1, CountIs
<1>14. (Windows = {} => nfree' = Cardinality(OnList')) /\ Cardinality(OnList') \in Nat
  <2> DEFINE two == {free1, free2} \ {Nil}
  <2>1. Cardinality(OnList \ two) = Cardinality(OnList) - Cardinality(OnList \cap two)
    BY <1>13, FS_Difference
  <2>2. OnList \cap two = two /\ OnList \ two = OnList \ {free1, free2}
    <3>1. Nil \notin OnList
      BY NilIsNoCell DEF OnList, List
    <3> QED
      BY <1>4, <3>1
  <2>3. IsFiniteSet(OnList \ {free1, free2})
    BY <1>13, FS_Subset
  <2>4. Cardinality(OnList') \in Nat
    BY <1>11, <2>3, FS_CardinalityType
  <2>5. Windows = {} => nfree' = Cardinality(OnList) - Cardinality(two)
    BY <1>5, <1>13
  <2> HIDE DEF two
  <2> QED
    BY <1>11, <2>1, <2>2, <2>4, <2>5
<1>15. TypeOK'
  <2>1. head' \in Cells \cup {Nil} /\ isFree' \subseteq 1 .. PerPage * npage'
    BY <1>3, <1>4, <1>5
  <2>2. Len(stack') \in 1 .. MaxDepth + 1
    BY <1>1, <1>10, <1>12
  <2>3. nfree' \in Int
    <3>1. IsFiniteSet({free1, free2} \ {Nil})
      BY <1>4, <1>13, FS_Subset
    <3>2. Cardinality({free1, free2} \ {Nil}) \in Nat
      BY <3>1, FS_CardinalityType
    <3>3. nfree \in Int
      BY DEF IInv, TypeOK
    <3> QED
      BY <1>5, <3>2, <3>3
  <2> QED
    BY <1>5, <1>10, <2>1, <2>2, <2>3 DEF IInv, TypeOK
<1>16. ListInv'
  <2>1. OnList' \subseteq isFree' /\ (isFree \cap used)' = {}
    BY <1>3, <1>5, <1>11
  <2> QED
    BY <1>9, <1>10, <1>11, <1>14, <2>1 DEF ListInv
<1>17. OwnerInv'
  <2>1. /\ Saved(b) \subseteq isFree /\ Saved(b) \subseteq (1 .. PerPage * npage') \ (isFree \cup used)'
    BY <1>3, <1>4, <1>5, <1>9
  <2>2. ASSUME NEW i \in 1 .. Len(stack)
        PROVE  /\ Shape(stack[i])
               /\ Popped(stack[i]) \subseteq (isFree \ OnList)'
               /\ Saved(stack[i]) \subseteq (1 .. PerPage * npage') \ (isFree \cup used)'
               /\ Saved(stack[i]) \cap Saved(b) = {}
    <3>1. /\ Shape(stack[i]) /\ Popped(stack[i]) \subseteq isFree \ OnList
          /\ Saved(stack[i]) \subseteq (1 .. PerPage * npage) \ (isFree \cup used)
      BY DEF IInv, OwnerInv
    <3>2. Nil \notin isFree
      <4>1. npage \in 0 .. MaxPages
        BY DEF IInv, TypeOK
      <4> QED
        BY <1>3, <4>1, PageCells, NilIsNoCell
    <3> QED
      BY <1>4, <1>5, <1>11, <2>1, <3>1, <3>2
  <2>3. ASSUME NEW i \in 1 .. Len(stack'), i \notin 1 .. Len(stack)
        PROVE  i = Len(stack) + 1
    BY <1>10, <1>12, <2>3
  <2>4. \A i, j \in 1 .. Len(stack) : i # j =>
          Popped(stack[i]) \cap Popped(stack[j]) = {} /\ Saved(stack[i]) \cap Saved(stack[j]) = {}
    BY DEF IInv, OwnerInv
  <2>5. ASSUME NEW i \in 1 .. Len(stack')
        PROVE  /\ Shape(stack'[i]) /\ Popped(stack'[i]) \subseteq (isFree \ OnList)'
               /\ Saved(stack'[i]) \subseteq (1 .. PerPage * npage') \ (isFree \cup used)'
    BY <1>8, <1>10, <2>1, <2>2, <2>3
  <2>6. ASSUME NEW i \in 1 .. Len(stack'), NEW j \in 1 .. Len(stack'), i # j
        PROVE  Popped(stack'[i]) \cap Popped(stack'[j]) = {} /\ Saved(stack'[i]) \cap Saved(stack'[j]) = {}
    <3>1. CASE i \in 1 .. Len(stack) /\ j \in 1 .. Len(stack)
      BY <1>10, <2>4, <2>6, <3>1
    <3>2. CASE i \in 1 .. Len(stack) /\ j = Len(stack) + 1
      BY <1>8, <1>10, <2>2, <3>2
    <3>3. CASE j \in 1 .. Len(stack) /\ i = Len(stack) + 1
      BY <1>8, <1>10, <2>2, <3>3
    <3> QED
      BY <2>3, <2>6, <3>1, <3>2, <3>3
  <2> QED
    BY <2>5, <2>6 DEF OwnerInv
<1>18. RestInv'
  <2>1. ASSUME NEW i \in 1 .. Len(stack') - 1
        PROVE  Resumes(stack'[i], stack'[i + 1])
    <3>1. CASE i = Len(stack)
      <4>1. stack'[i] = top /\ stack'[i + 1] = b
        BY <1>10, <1>12, <3>1
      <4> QED
        BY <1>1, <1>6, <1>7, <1>9, <4>1 DEF Resumes
    <3>2. CASE i # Len(stack)
      <4>1. i \in 1 .. Len(stack) - 1 /\ i \in 1 .. Len(stack) /\ i + 1 \in 1 .. Len(stack)
        BY <1>10, <1>12, <3>2
      <4> QED
        BY <1>10, <4>1 DEF IInv, RestInv
    <3> QED
      BY <3>1, <3>2
  <2> QED
    BY <2>1 DEF RestInv
<1>19. ReadInv'
  BY <1>9, <1>10 DEF ReadInv
<1> QED
  BY <1>15, <1>16, <1>17, <1>18, <1>19 DEF IInv

\* The saved cells before the list, or instead of it.
LEMMA PutBack ==
  ASSUME link \in Links, head \in Cells \cup {Nil}, Good(head, link),
         IsFiniteSet(OnList), Cardinality(OnList) \in Nat,
         NEW free1 \in Cells \cup {Nil}, NEW free2 \in Cells \cup {Nil},
         free1 = Nil => free2 = Nil, free1 = free2 => free1 = Nil,
         free1 \notin OnList, free2 \notin OnList,
         NEW m, m = [c \in Cells |->
                       CASE c = free2 -> head
                         [] c = free1 /\ c # free2 -> free2
                         [] OTHER -> link[c]]
  PROVE  /\ m \in Links /\ Good(free1, m)
         /\ List(free1, m) \subseteq OnList \cup ({free1, free2} \ {Nil})
         /\ Cardinality(List(free1, m)) = IF free2 # Nil THEN Cardinality(OnList) + 2
                                          ELSE IF free1 # Nil THEN 1 ELSE 0
         /\ free1 # Nil => m[free1] = free2
<1>1. m \in Links
  BY DEF Links
<1>2. CASE free1 = Nil
  <2>1. List(free1, m) = {} /\ Good(free1, m)
    BY <1>2, ListNil
  <2> QED
    BY <1>1, <1>2, <2>1, FS_EmptySet
<1>3. CASE free1 # Nil /\ free2 = Nil
  <2>1. free1 \in Cells /\ m[free1] = Nil
    BY <1>3, NilIsNoCell
  <2>2. List(Nil, m) = {} /\ Good(Nil, m)
    BY ListNil
  <2>3. List(free1, m) = {} \cup {free1} /\ Good(free1, m)
    BY <1>1, <2>1, <2>2, ListPush
  <2>4. Cardinality({free1}) = 1
    BY FS_Singleton
  <2>5. List(free1, m) = {free1}
    BY <2>3
  <2> QED
    BY <1>1, <1>3, <2>1, <2>3, <2>4, <2>5
<1>4. CASE free2 # Nil
  <2>1. free1 \in Cells /\ free2 \in Cells /\ free1 # free2 /\ m[free1] = free2 /\ m[free2] = head
    BY <1>4
  <2>2. \A c \in OnList : m[c] = link[c]
    BY DEF OnList, List
  <2>3. List(free2, m) = OnList \cup {free2} /\ Good(free2, m)
    BY <1>1, <2>1, <2>2, ListPush DEF OnList
  <2>4. free1 \notin List(free2, m)
    BY <2>1, <2>3
  <2>5. List(free1, m) = List(free2, m) \cup {free1} /\ Good(free1, m)
    BY <1>1, <2>1, <2>3, <2>4, ListPush
  <2>6. /\ IsFiniteSet(OnList \cup {free2}) /\ Cardinality(OnList \cup {free2}) = Cardinality(OnList) + 1
    BY FS_AddElement
  <2>7. Cardinality((OnList \cup {free2}) \cup {free1}) = Cardinality(OnList \cup {free2}) + 1
    <3>1. free1 \notin OnList \cup {free2}
      BY <2>1
    <3> QED
      BY <2>6, <3>1, FS_AddElement
  <2>8. Cardinality(List(free1, m)) = Cardinality(OnList) + 2
    <3>1. List(free1, m) = (OnList \cup {free2}) \cup {free1}
      BY <2>3, <2>5
    <3> QED
      BY <2>6, <2>7, <3>1
  <2>9. List(free1, m) \subseteq OnList \cup ({free1, free2} \ {Nil})
    BY <2>1, <2>3, <2>5, NilIsNoCell
  <2> QED
    BY <1>1, <1>4, <2>1, <2>5, <2>8, <2>9
<1> QED
  BY <1>2, <1>3, <1>4

LEMMA HandlerReturnKeeps ==
  ASSUME IInv, HandlerReturn
  PROVE  IInv'
<1> DEFINE m == Len(stack) - 1
           a == stack[m]
           free1 == top.free1
           free2 == top.free2
<1>1. /\ top = stack[Len(stack)] /\ top \in Activities /\ top.at = "run"
      /\ Len(stack) \in Nat /\ m \in Nat \ {0} /\ m \in 1 .. Len(stack) /\ m + 1 = Len(stack)
      /\ Len(stack) \in 1 .. MaxDepth + 1
  BY TopIs DEF IInv, TypeOK, HandlerReturn, Runs
<1>2. /\ stack' \in Seq(Activities) /\ Len(stack') = m /\ top' = a
      /\ \A i \in 1 .. m : stack'[i] = stack[i]
  <2>1. stack \in Seq(Activities) /\ Len(stack) # 0 /\ stack' = Front(stack)
    BY <1>1 DEF IInv, TypeOK, HandlerReturn
  <2>2. /\ Front(stack) \in Seq(Activities) /\ Len(Front(stack)) = Len(stack) - 1
        /\ \A i \in 1 .. Len(stack) - 1 : Front(stack)[i] = stack[i]
    BY <2>1, FrontAndLast
  <2>3. m \in 1 .. m
    BY <1>1
  <2> QED
    BY <2>1, <2>2, <2>3 DEF top, Last
<1>3. Resumes(a, top)
  <2>1. m \in 1 .. Len(stack) - 1
    BY <1>1
  <2> QED
    BY <1>1, <2>1 DEF IInv, RestInv
<1>4. /\ link \in Links /\ head \in Cells \cup {Nil} /\ Good(head, link)
      /\ OnList \subseteq isFree /\ isFree \subseteq 1 .. PerPage * npage /\ isFree \cap used = {}
      /\ npage \in 0 .. MaxPages
  BY DEF IInv, TypeOK, ListInv, Links
<1>5. used' = used /\ npage' = npage
  BY DEF HandlerReturn
<1>6. /\ Windows = {} => nfree = Cardinality(OnList)
      /\ nfree \in Int /\ IsFiniteSet(OnList) /\ Cardinality(OnList) \in Nat
  BY <1>1, CountIs DEF IInv, TypeOK
<1>7. /\ Shape(top) /\ Saved(top) = {free1, free2} \ {Nil}
      /\ Saved(top) \subseteq (1 .. PerPage * npage) \ (isFree \cup used)
      /\ free1 \in Cells \cup {Nil} /\ free2 \in Cells \cup {Nil}
  BY <1>1 DEF IInv, OwnerInv, Saved, Activities
<1>8. /\ link' \in Links /\ Good(head', link') /\ head' \in Cells \cup {Nil}
      /\ List(head', link') \subseteq OnList \cup Saved(top)
      /\ OnList \cup Saved(top) \subseteq isFree' \cup Saved(top)
      /\ isFree \subseteq isFree' /\ isFree' \subseteq isFree \cup Saved(top)
      /\ List(head', link') \subseteq isFree'
      /\ (Windows = {} => nfree' = Cardinality(List(head', link'))) /\ nfree' \in Int
      /\ a.at \in {"next", "store", "list", "tested"} => a.p = head'
      /\ a.at = "store" => a.tem = LinkOf(head)'
      /\ Windows = {} => a.at \notin {"count", "tested"}
  <2>1. CASE top.allowed = "normal"
    <3>1. /\ head' = free1 /\ isFree' = isFree \cup Saved(top)
          /\ link' = [c \in Cells |->
                        CASE c = free2 -> head
                          [] c = free1 /\ c # free2 -> free2
                          [] OTHER -> link[c]]
          /\ nfree' = IF free2 # Nil THEN nfree + 2 ELSE IF free1 # Nil THEN 1 ELSE 0
      BY <2>1 DEF HandlerReturn
    <3>2. /\ free1 = Nil => free2 = Nil
          /\ free1 = free2 => free1 = Nil
      BY <1>7 DEF Shape
    <3>3. free1 \notin OnList /\ free2 \notin OnList
      <4>1. Nil \notin OnList
        BY NilIsNoCell DEF OnList, List
      <4> QED
        BY <1>4, <1>7, <4>1
    <3>4. /\ Windows = {} => a.at \notin {"count", "tested"}
          /\ a.at \in {"next", "store", "list", "tested"} => a.p = free1
          /\ a.at = "store" => a.tem = free2
      BY <1>3, <2>1 DEF Resumes
    <3>5. a.at = "store" => free1 # Nil
      <4>1. Shape(a)
        BY <1>1 DEF IInv, OwnerInv
      <4> QED
        BY <3>4, <4>1 DEF Shape
    <3> HIDE DEF a, free1, free2
    <3>6. /\ link' \in Links /\ Good(free1, link')
          /\ List(free1, link') \subseteq OnList \cup ({free1, free2} \ {Nil})
          /\ Cardinality(List(free1, link')) = IF free2 # Nil THEN Cardinality(OnList) + 2
                                               ELSE IF free1 # Nil THEN 1 ELSE 0
          /\ free1 # Nil => link'[free1] = free2
      BY <1>4, <1>6, <1>7, <3>1, <3>2, <3>3, PutBack
    <3>7. (Windows = {} => nfree' = Cardinality(List(head', link'))) /\ nfree' \in Int
      BY <1>6, <3>1, <3>6
    <3>8. List(head', link') \subseteq OnList \cup Saved(top) /\ List(head', link') \subseteq isFree'
      BY <1>4, <1>7, <3>1, <3>6
    <3>9. a.at = "store" => a.tem = LinkOf(head)'
      BY <3>1, <3>4, <3>5, <3>6 DEF LinkOf
    <3> QED
      BY <1>4, <1>7, <3>1, <3>4, <3>6, <3>7, <3>8, <3>9
  <2>2. CASE top.allowed # "normal"
    <3>1. head' = head /\ isFree' = isFree /\ link' = link /\ nfree' = nfree
      BY <2>2 DEF HandlerReturn
    <3>2. a.at \in {"run", "collected"}
      <4>1. top.allowed = "safe"
        BY <1>1, <2>2 DEF Activities
      <4> QED
        BY <1>3, <4>1 DEF Resumes
    <3> HIDE DEF a, free1, free2
    <3>3. List(head', link') = OnList /\ Good(head', link')
      BY <1>4, <3>1 DEF OnList
    <3> QED
      BY <1>4, <1>6, <3>1, <3>2, <3>3
  <2> QED
    BY <2>1, <2>2
<1> HIDE DEF free1, free2
<1>9. OnList' = List(head', link') /\ Good(head, link)'
  BY <1>8 DEF OnList, List, Closed, Good
<1>10. TypeOK'
  <2>1. isFree' \subseteq 1 .. PerPage * npage' /\ used' \subseteq 1 .. PerPage * npage'
    BY <1>4, <1>5, <1>7, <1>8 DEF IInv, TypeOK
  <2>2. m \in 1 .. MaxDepth + 1
    BY <1>1
  <2>3. nfree' \in Int
    BY <1>8
  <2> QED
    BY <1>2, <1>4, <1>5, <1>8, <2>1, <2>2, <2>3 DEF TypeOK, Links
<1>11. ListInv'
  <2>1. OnList' \subseteq isFree' /\ (isFree \cap used)' = {}
    BY <1>4, <1>5, <1>7, <1>8, <1>9
  <2>2. Windows = {} => nfree' = Cardinality(OnList') + 0
    BY <1>8, <1>9
  <2>3. Windows = {} => top'.at # "count"
    BY <1>2, <1>8
  <2> QED
    BY <1>9, <2>1, <2>2, <2>3 DEF ListInv
<1>12. \A i \in 1 .. m : i \in 1 .. Len(stack) /\ i # Len(stack)
  <2>1. Len(stack) \in Nat
    BY <1>1
  <2> QED
    BY <2>1
<1>13. OwnerInv'
  <2>1. ASSUME NEW i \in 1 .. m
        PROVE  /\ Shape(stack[i])
               /\ Popped(stack[i]) \subseteq (isFree \ OnList)'
               /\ Saved(stack[i]) \subseteq (1 .. PerPage * npage') \ (isFree \cup used)'
    <3>1. i \in 1 .. Len(stack) /\ i # Len(stack)
      BY <1>12
    <3>2. /\ Shape(stack[i]) /\ Popped(stack[i]) \subseteq isFree \ OnList
          /\ Saved(stack[i]) \subseteq (1 .. PerPage * npage) \ (isFree \cup used)
      BY <3>1 DEF IInv, OwnerInv
    <3>3. Saved(stack[i]) \cap Saved(top) = {}
      <4>1. Len(stack) \in 1 .. Len(stack)
        BY <1>1
      <4> QED
        BY <1>1, <3>1, <4>1 DEF IInv, OwnerInv
    <3>4. Popped(stack[i]) \cap Saved(top) = {}
      BY <1>7, <3>2
    <3> QED
      BY <1>5, <1>8, <1>9, <3>2, <3>3, <3>4
  <2>2. \A i, j \in 1 .. m : i # j =>
          Popped(stack[i]) \cap Popped(stack[j]) = {} /\ Saved(stack[i]) \cap Saved(stack[j]) = {}
    BY <1>12 DEF IInv, OwnerInv
  <2> HIDE DEF m
  <2> QED
    BY <1>2, <2>1, <2>2 DEF OwnerInv
<1>14. RestInv'
  <2>1. ASSUME NEW i \in 1 .. m - 1
        PROVE  Resumes(stack'[i], stack'[i + 1])
    <3>1. i \in 1 .. Len(stack) - 1 /\ i \in 1 .. m /\ i + 1 \in 1 .. m
      BY <1>1
    <3> QED
      BY <1>2, <3>1 DEF IInv, RestInv
  <2> HIDE DEF m
  <2> QED
    BY <1>2, <2>1 DEF RestInv
<1>15. ReadInv'
  BY <1>2, <1>8 DEF ReadInv
<1> QED
  BY <1>10, <1>11, <1>13, <1>14, <1>15 DEF IInv

LEMMA ThrowKeeps ==
  ASSUME IInv, NEW i \in DOMAIN stack, Throw(i)
  PROVE  IInv'
<1> DEFINE a == [stack[i] EXCEPT !.at = "run", !.p = Nil, !.tem = Nil, !.n = 0,
                                 !.level = "normal"]
           s == SubSeq(stack, 1, i - 1)
<1>1. /\ stack \in Seq(Activities) /\ Len(stack) \in 1 .. MaxDepth + 1 /\ top.at = "run"
      /\ i \in 1 .. Len(stack) /\ i - 1 \in 0 .. Len(stack) /\ i \in Nat \ {0}
  <2>1. stack \in Seq(Activities) /\ Len(stack) \in 1 .. MaxDepth + 1 /\ top.at = "run"
    BY DEF IInv, TypeOK, Throw, Runs
  <2>2. i \in 1 .. Len(stack)
    BY <2>1, LenProperties
  <2> QED
    BY <2>1, <2>2
<1>2. stack[i] \in Activities /\ Shape(stack[i])
  BY <1>1, TopIs DEF IInv, OwnerInv
<1>3. a \in Activities /\ Shape(a) /\ Popped(a) = {} /\ Saved(a) = Saved(stack[i])
  <2>1. 0 \in 0 .. MaxRun
    BY Runs0
  <2>2. a \in Activities
    BY <1>2, <2>1 DEF Activities, Locations
  <2> QED
    BY <1>2, <2>2 DEF Activities, Shape, Popped, Saved
<1>4. /\ a.at = "run" /\ a.allowed = stack[i].allowed
      /\ a.free1 = stack[i].free1 /\ a.free2 = stack[i].free2
  BY <1>2 DEF Activities
<1>5. stack' = Append(s, a)
  BY DEF Throw
<1> HIDE DEF a
<1>6. s \in Seq(Activities) /\ Len(s) = i - 1 /\ \A j \in 1 .. i - 1 : s[j] = stack[j]
  BY <1>1, CutAt
<1> HIDE DEF s
<1>7. /\ stack' \in Seq(Activities) /\ Len(stack') = i /\ stack'[i] = a
      /\ \A j \in 1 .. i - 1 : stack'[j] = stack[j]
  <2>1. /\ Append(s, a) \in Seq(Activities) /\ Len(Append(s, a)) = Len(s) + 1
        /\ Append(s, a)[Len(s) + 1] = a
        /\ \A j \in 1 .. Len(s) : Append(s, a)[j] = s[j]
    BY <1>3, <1>6, PushedOn
  <2>2. Len(s) + 1 = i
    BY <1>1, <1>6
  <2> QED
    BY <1>5, <1>6, <2>1, <2>2
<1>8. top' = a
  BY <1>7 DEF top, Last
<1>9. /\ head' = head /\ nfree' = nfree /\ link' = link /\ isFree' = isFree /\ used' = used
      /\ npage' = npage
  BY DEF Throw, memory
<1>10. OnList' = OnList /\ (Good(head, link) <=> Good(head, link)')
  BY <1>9 DEF OnList, List, Closed, Good
<1>11. TypeOK'
  <2>1. i \in 1 .. MaxDepth + 1
    BY <1>1
  <2> QED
    BY <1>7, <1>9, <2>1 DEF IInv, TypeOK
<1>12. ListInv'
  <2>1. (Windows = {} => nfree' = Cardinality(OnList')) /\ Cardinality(OnList') \in Nat
    BY <1>1, <1>9, <1>10, CountIs
  <2> QED
    BY <1>4, <1>8, <1>9, <1>10, <2>1 DEF IInv, ListInv
<1>13. OwnerInv'
  <2>1. ASSUME NEW j \in 1 .. Len(stack')
        PROVE  /\ Shape(stack'[j]) /\ Saved(stack'[j]) = Saved(stack[j])
               /\ Popped(stack'[j]) \subseteq (isFree \ OnList)'
               /\ Saved(stack[j]) \cap (isFree \cup used)' = {}
               /\ Popped(stack'[j]) \subseteq Popped(stack[j])
    <3>1. j \in 1 .. Len(stack)
      BY <1>1, <1>7
    <3>2. /\ Shape(stack[j]) /\ Popped(stack[j]) \subseteq (isFree \ OnList)'
          /\ Saved(stack[j]) \cap (isFree \cup used)' = {}
      BY <1>9, <1>10, <3>1 DEF IInv, OwnerInv
    <3>3. CASE j = i
      BY <1>3, <1>7, <3>2, <3>3
    <3>4. CASE j # i
      <4>1. j \in 1 .. i - 1
        BY <1>1, <1>7, <3>4
      <4> QED
        BY <1>7, <3>2, <4>1
    <3> QED
      BY <3>3, <3>4
  <2>2. npage <= npage' /\ npage' \in 0 .. MaxPages /\ Len(stack') \in 1 .. Len(stack)
    BY <1>1, <1>7, <1>9 DEF IInv, TypeOK
  <2> QED
    BY <2>1, <2>2, OwnersStep
<1>14. RestInv'
  <2>1. Len(stack') \in 1 .. Len(stack)
    BY <1>1, <1>7
  <2>2. \A j \in 1 .. Len(stack') - 1 : stack'[j] = stack[j]
    BY <1>7
  <2>3. LET x == stack'[Len(stack')]
            y == stack[Len(stack')]
        IN x.allowed = y.allowed /\ x.free1 = y.free1 /\ x.free2 = y.free2
    BY <1>4, <1>7
  <2> QED
    BY <2>1, <2>2, <2>3, RestStep
<1>15. ReadInv'
  BY <1>4, <1>8 DEF ReadInv
<1> QED
  BY <1>11, <1>12, <1>13, <1>14, <1>15 DEF IInv

-------------------------------------------------------------------------------
(* The invariant.                                                          *)

LEMMA InitInv ==
  ASSUME Init
  PROVE  IInv
<1> DEFINE a == Started("normal", "normal", Nil, Nil)
<1>1. a \in Activities /\ Shape(a) /\ Popped(a) = {} /\ Saved(a) = {} /\ a.at = "run"
  <2>1. 0 \in 0 .. MaxRun
    BY Runs0
  <2>2. a \in Activities
    BY <2>1 DEF Started, Activities, Locations
  <2> QED
    BY <2>2 DEF Started, Shape, Popped, Saved
<1>2. stack = <<a>>
  BY DEF Init
<1> HIDE DEF a
<1>3. stack \in Seq(Activities) /\ Len(stack) = 1 /\ stack[1] = a /\ top = a
  BY <1>1, <1>2 DEF top, Last
<1>4. head = Nil /\ OnList = {} /\ Good(head, link)
  BY ListNil DEF Init, OnList
<1>5. TypeOK
  <2>1. 1 \in 1 .. MaxDepth + 1 /\ 0 \in 0 .. MaxPages
    OBVIOUS
  <2>2. link \in [Cells -> Cells \cup {Nil}]
    BY DEF Init
  <2> QED
    BY <1>3, <2>1, <2>2 DEF Init, TypeOK
<1>6. ListInv
  BY <1>1, <1>3, <1>4, FS_EmptySet DEF Init, ListInv
<1>7. OwnerInv /\ RestInv
  <2>1. \A i \in 1 .. Len(stack) : i = 1
    BY <1>3
  <2>2. ASSUME NEW i \in 1 .. Len(stack) - 1
        PROVE  FALSE
    BY <1>3
  <2> QED
    BY <1>1, <1>3, <2>1, <2>2 DEF OwnerInv, RestInv
<1>8. ReadInv
  BY <1>1, <1>3 DEF ReadInv
<1> QED
  BY <1>5, <1>6, <1>7, <1>8 DEF IInv

LEMMA NextInv ==
  ASSUME IInv, Windows \subseteq {"count", "tested"}, [Next]_vars
  PROVE  IInv'
<1>1. CASE UNCHANGED vars
  <2>1. /\ head' = head /\ nfree' = nfree /\ link' = link /\ isFree' = isFree /\ used' = used
        /\ npage' = npage /\ stack' = stack
    BY <1>1 DEF vars, memory
  <2>2. OnList' = OnList /\ top' = top /\ (Good(head, link) <=> Good(head, link)')
    BY <2>1 DEF OnList, List, Closed, top, Good
  <2>3. TypeOK' /\ ListInv'
    BY <2>1, <2>2 DEF IInv, TypeOK, ListInv
  <2>4. OwnerInv' /\ RestInv'
    BY <2>1, <2>2 DEF IInv, OwnerInv, RestInv
  <2>5. ReadInv'
    BY <2>1, <2>2 DEF IInv, ReadInv, LinkOf
  <2> QED
    BY <2>3, <2>4, <2>5 DEF IInv
<1>2. CASE Take
  BY <1>2, TakeKeeps
<1>3. CASE Next1
  BY <1>3, Next1Keeps
<1>4. CASE Store
  BY <1>4, StoreKeeps
<1>5. CASE Count
  BY <1>5, CountKeeps
<1>6. CASE Fill
  BY <1>6, FillKeeps
<1>7. CASE Collect
  BY <1>7, CollectKeeps
<1>8. CASE Grow
  BY <1>8, GrowKeeps
<1>9. CASE Exhausted
  BY <1>9, ExhaustedKeeps
<1>10. CASE \E c \in Cells : Forget(c)
  BY <1>10, ForgetKeeps
<1>11. CASE \E n \in 1 .. MaxRun : ListBegin(n)
  BY <1>11, ListBeginKeeps
<1>12. CASE ListTest
  BY <1>12, ListTestKeeps
<1>13. CASE ListTake
  BY <1>13, ListTakeKeeps
<1>14. CASE HandlerAtAlloc
  BY <1>14, HandlerAtAllocKeeps
<1>15. CASE Interrupt
  BY <1>15, InterruptKeeps
<1>16. CASE HandlerReturn
  BY <1>16, HandlerReturnKeeps
<1>17. CASE \E i \in DOMAIN stack : Throw(i)
  BY <1>17, ThrowKeeps
<1> QED
  BY <1>1, <1>2, <1>3, <1>4, <1>5, <1>6, <1>7, <1>8, <1>9, <1>10, <1>11, <1>12, <1>13, <1>14,
     <1>15, <1>16, <1>17 DEF Next

\* The invariant holds when no signal arrives before CHECK_INTERRUPT of listqA or while
\* a handler of a safe point runs; signals may arrive where tm_nfree is behind.
THEOREM Invariance ==
  ASSUME Windows \subseteq {"count", "tested"} PROVE Spec => []IInv
BY InitInv, NextInv, PTL DEF Spec

-------------------------------------------------------------------------------
\* The lists, the cells and the stack keep their shape; only cells of pages that are
\* there are free or in use.
THEOREM TypeCorrect ==
  ASSUME Windows \subseteq {"count", "tested"} PROVE Spec => []TypeOK
BY Invariance, PTL DEF IInv

\* alloc_from_freelist and listqA hand a cell out once, whatever handlers allocate
\* between their instructions.
THEOREM NoCellTwiceHolds ==
  ASSUME Windows \subseteq {"count", "tested"} PROVE Spec => []NoCellTwice
<1>1. ASSUME IInv
      PROVE  NoCellTwice
  <2>1. DOMAIN stack = 1 .. Len(stack)
    BY <1>1, LenProperties DEF IInv, TypeOK
  <2>2. OnList \subseteq isFree /\ isFree \cap used = {}
    BY <1>1 DEF IInv, ListInv
  <2>3. \A i \in 1 .. Len(stack) :
          /\ Popped(stack[i]) \subseteq isFree \ OnList
          /\ Saved(stack[i]) \cap (isFree \cup used) = {}
          /\ \A j \in 1 .. Len(stack) : i # j =>
               Popped(stack[i]) \cap Popped(stack[j]) = {} /\ Saved(stack[i]) \cap Saved(stack[j]) = {}
    BY <1>1 DEF IInv, OwnerInv
  <2>4. ASSUME NEW i \in 1 .. Len(stack), NEW j \in 1 .. Len(stack), i # j
        PROVE  (Popped(stack[i]) \cup Saved(stack[i])) \cap (Popped(stack[j]) \cup Saved(stack[j])) = {}
    BY <2>3, <2>4
  <2>5. ASSUME NEW i \in 1 .. Len(stack)
        PROVE  /\ (Popped(stack[i]) \cup Saved(stack[i])) \cap (used \cup OnList) = {}
               /\ Popped(stack[i]) \cap Saved(stack[i]) = {}
    BY <2>2, <2>3
  <2> QED
    BY <2>1, <2>2, <2>4, <2>5 DEF NoCellTwice
<1> QED
  BY <1>1, Invariance, PTL

\* after_interrupt finds the cells it puts back as before_interrupt left them.
THEOREM SavedKeptHolds ==
  ASSUME Windows \subseteq {"count", "tested"} PROVE Spec => []SavedKept
<1>1. ASSUME IInv
      PROVE  SavedKept
  <2>1. DOMAIN stack = 1 .. Len(stack)
    BY <1>1, LenProperties DEF IInv, TypeOK
  <2> QED
    BY <1>1, <2>1 DEF IInv, OwnerInv, SavedKept
<1> QED
  BY <1>1, Invariance, PTL

\* The cell and the link that alloc_from_freelist has read are the first of the list
\* when it goes on, although handlers have run since.
THEOREM PopUndisturbedHolds ==
  ASSUME Windows \subseteq {"count", "tested"} PROVE Spec => []PopUndisturbed
<1>1. ASSUME IInv
      PROVE  PopUndisturbed
  BY <1>1 DEF IInv, ReadInv, PopUndisturbed, Runs
<1> QED
  BY <1>1, Invariance, PTL

\* listqA finds the cells it has counted.
THEOREM RunFitsHolds == ASSUME Windows = {} PROVE Spec => []RunFits
<1>1. ASSUME IInv, Windows = {}, top.at = "tested"
      PROVE  /\ top.p = head
             /\ \A i \in 1 .. top.n : /\ Walk(top.p, top.n)[i] \in isFree
                                      /\ \A j \in 1 .. i - 1 :
                                           Walk(top.p, top.n)[i] # Walk(top.p, top.n)[j]
  <2>1. top.p = head /\ top.n <= nfree
    BY <1>1 DEF IInv, ReadInv
  <2>2. top.n \in Nat \ {0}
    BY <1>1, TopShape DEF Activities, Shape
  <2>3. /\ link \in Links /\ head \in Cells \cup {Nil} /\ Good(head, link)
        /\ OnList \subseteq isFree /\ nfree = Cardinality(OnList)
    BY <1>1, CountIs DEF IInv, TypeOK, ListInv, Links
  <2> DEFINE n == top.n
  <2> HIDE DEF n
  <2>4. n \in Nat \ {0} /\ n <= Cardinality(OnList)
    BY <2>1, <2>2, <2>3 DEF n
  <2>5. \A i \in 1 .. n : /\ Walk(head, n)[i] \in OnList
                          /\ \A j \in 1 .. i - 1 : Walk(head, n)[i] # Walk(head, n)[j]
    BY <2>3, <2>4, WalkOnList
  <2> QED
    BY <2>1, <2>3, <2>5 DEF n
<1>2. IInv => RunFits
  BY <1>1 DEF RunFits, Runs
<1>3. Spec => []IInv
  BY Invariance
<1> QED
  BY <1>2, <1>3, PTL

-------------------------------------------------------------------------------
(* What cells in use hold.                                                 *)

\* The steps that write a link write it into cells that are not in use.
LEMMA ContentsStep ==
  ASSUME IInv, ContentsKept, [Next]_vars
  PROVE  ContentsKept'
<1>1. /\ link \in Links /\ used \subseteq Cells /\ top \in Activities /\ Shape(top)
      /\ npage \in 0 .. MaxPages
  <2>1. npage \in 0 .. MaxPages /\ used \subseteq 1 .. PerPage * npage
    BY DEF IInv, TypeOK
  <2> QED
    BY <2>1, PageCells, TopShape DEF IInv, TypeOK, Links
<1>2. ASSUME NEW G, G \cap used = {}, link' = Prepended(G), used' = used
      PROVE  ContentsKept'
  <2>1. \A c \in used : c \in Cells /\ c \notin G
    BY <1>1, <1>2
  <2>2. \A c \in used : link'[c] = link[c]
    BY <1>2, <2>1 DEF Prepended
  <2> QED
    BY <1>2, <2>2 DEF ContentsKept
<1>3. CASE link' = link /\ used' \subseteq used
  BY <1>3 DEF ContentsKept
<1>4. CASE Fill
  <2>1. top.p \in Cells
    BY <1>1, <1>4 DEF Fill, Runs, Shape, Activities
  <2>2. used' = used \cup {top.p} /\ link' = [link EXCEPT ![top.p] = Nil]
    BY <1>4 DEF Fill
  <2>3. \A c \in used' : c \in Cells /\ link'[c] = IF c = top.p THEN Nil ELSE link[c]
    BY <1>1, <2>1, <2>2 DEF Links
  <2> QED
    BY <2>2, <2>3 DEF ContentsKept
<1>5. CASE Collect
  <2> DEFINE G == (1 .. PerPage * npage) \ (isFree \cup used \cup Held)
  <2>1. G \cap used = {} /\ link' = Prepended(G) /\ used' = used
    BY <1>5 DEF Collect
  <2> HIDE DEF G
  <2> QED
    BY <1>2, <2>1
<1>6. CASE Grow
  <2> DEFINE G == PerPage * npage + 1 .. PerPage * (npage + 1)
  <2>1. PerPage * npage \in Nat /\ used \subseteq 1 .. PerPage * npage
    BY <1>1 DEF IInv, TypeOK
  <2>2. G \cap used = {}
    BY <2>1
  <2>3. link' = Prepended(G) /\ used' = used
    BY <1>6 DEF Grow
  <2> HIDE DEF G
  <2> QED
    BY <1>2, <2>2, <2>3
<1>7. CASE ListTake
  <2> DEFINE run == Walk(top.p, top.n)
             taken == {run[i] : i \in 1 .. top.n} \ {Nil}
  <2>1. /\ used' = used \cup taken
        /\ link' = [c \in Cells |-> IF c \in taken THEN Nil ELSE link[c]]
    BY <1>7 DEF ListTake
  <2>2. taken \subseteq Cells
    <3>1. top.p \in Cells \cup {Nil} /\ top.n \in Nat \ {0}
      BY <1>1, <1>7 DEF ListTake, Runs, Shape, Activities
    <3>2. run \in [1 .. top.n -> Cells \cup {Nil}]
      BY <1>1, <3>1, WalkIs
    <3> HIDE DEF run
    <3> QED
      BY <3>2
  <2> HIDE DEF taken, run
  <2>3. \A c \in used' : c \in Cells /\ link'[c] = IF c \in taken THEN Nil ELSE link[c]
    BY <1>1, <2>1, <2>2
  <2> QED
    BY <2>1, <2>3 DEF ContentsKept
<1>8. CASE HandlerReturn
  <2>1. used' = used
    BY <1>8 DEF HandlerReturn
  <2>2. CASE top.allowed = "normal"
    <3>1. link' = [c \in Cells |->
                     CASE c = top.free2 -> head
                       [] c = top.free1 /\ c # top.free2 -> top.free2
                       [] OTHER -> link[c]]
      BY <1>8, <2>2 DEF HandlerReturn
    <3>2. \A c \in used : c \in Cells /\ c # top.free1 /\ c # top.free2
      BY <1>1, NilIsNoCell, TopShape DEF Saved
    <3>3. \A c \in used : link'[c] = link[c]
      BY <3>1, <3>2
    <3> QED
      BY <2>1, <3>3 DEF ContentsKept
  <2>3. CASE top.allowed # "normal"
    BY <1>3, <1>8, <2>1, <2>3 DEF HandlerReturn
  <2> QED
    BY <2>2, <2>3
<1>9. CASE UNCHANGED <<link, used>>
  BY <1>3, <1>9
<1>10. CASE \E c \in Cells : Forget(c)
  BY <1>3, <1>10 DEF Forget
<1>11. CASE HandlerAtAlloc \/ Interrupt
  <2>1. Interrupt => UNCHANGED <<link, used>>
    BY DEF Interrupt, Interrupts
  <2>2. HandlerAtAlloc => UNCHANGED <<link, used>>
    BY DEF HandlerAtAlloc, memory
  <2> QED
    BY <1>9, <1>11, <2>1, <2>2
<1>12. CASE \/ Take \/ Next1 \/ Store \/ Count \/ Exhausted \/ ListTest
            \/ \E n \in 1 .. MaxRun : ListBegin(n)
            \/ \E i \in DOMAIN stack : Throw(i)
  <2>1. UNCHANGED <<link, used>>
    BY <1>12 DEF Take, Next1, Store, Count, Exhausted, ListTest, ListBegin, Throw, memory
  <2> QED
    BY <1>9, <2>1
<1>13. CASE UNCHANGED vars
  BY <1>9, <1>13 DEF vars, memory
<1> QED
  BY <1>4, <1>5, <1>6, <1>7, <1>8, <1>10, <1>11, <1>12, <1>13 DEF Next

\* No sweep, no new page and no returning handler writes a link of the free list into a
\* cell that the program has filled.
THEOREM ContentsKeptHolds ==
  ASSUME Windows \subseteq {"count", "tested"} PROVE Spec => []ContentsKept
<1>1. Init => ContentsKept
  BY DEF Init, ContentsKept
<1>2. IInv /\ ContentsKept /\ [Next]_vars => ContentsKept'
  BY ContentsStep
<1>3. Spec => []IInv
  BY Invariance
<1> QED
  BY <1>1, <1>2, <1>3, PTL DEF Spec
===============================================================================
