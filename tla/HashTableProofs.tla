--------------------------- MODULE HashTableProofs ---------------------------
(***************************************************************************)
(* Proofs about HashTable, for any keys, hash functions, sizes, rehash     *)
(* sizes and thresholds that make-hash-table accepts.                      *)
(***************************************************************************)
EXTENDS HashTable, FiniteSetTheorems, WellFoundedInduction, TLAPS

-------------------------------------------------------------------------------
(* Arithmetic.                                                             *)

\* Every nonempty set of natural numbers has the least element Least returns.
LEMMA LeastIsLeast ==
  ASSUME NEW S \in SUBSET Nat, S # {}
  PROVE  Least(S) \in S /\ \A e \in S : Least(S) <= e
<1>1. PICK d \in S : \A e \in S : ~(<<e, d>> \in OpToRel(<, Nat))
  BY NatLessThanWellFounded, WFMin
<1>2. \A x, y \in Nat : x < y => <<x, y>> \in OpToRel(<, Nat)
  BY DEF OpToRel
<1>3. \A e \in S : ~(e < d)
  BY <1>1, <1>2, Zenon
<1>4. \A e \in S : d <= e
  BY <1>3
<1>. QED
  BY <1>4 DEF Least

LEMMA ModRange ==
  ASSUME NEW n \in Nat \ {0}, NEW h \in Nat
  PROVE  h % n \in 0 .. n - 1
OBVIOUS

LEMMA ProbeRange ==
  ASSUME NEW n \in Nat, NEW h \in Nat, NEW d \in 0 .. n - 1
  PROVE  (IF (h % n) + d < n THEN (h % n) + d ELSE (h % n) + d - n) \in 0 .. n - 1
<1>1. n \in Nat \ {0}
  OBVIOUS
<1>. QED
  BY <1>1, ModRange

\* A rehash size of at least one makes the table larger.
LEMMA Growth ==
  ASSUME NEW a \in Nat, NEW b \in Nat \ {0}, NEW s \in Nat, a >= b
  PROVE  ((s + 1) * a) \div b \in Nat /\ ((s + 1) * a) \div b >= s + 1
OBVIOUS

-------------------------------------------------------------------------------
(* Probing.                                                                *)

\* The probe for a key visits every slot of the table exactly once.
LEMMA Probing ==
  ASSUME hash \in [Keys -> Nat], size \in Nat, NEW k \in Keys
  PROVE  /\ \A d \in 0 .. size - 1 : Pos(k, d) \in 0 .. size - 1
         /\ \A d, e \in 0 .. size - 1 : Pos(k, d) = Pos(k, e) => d = e
         /\ \A j \in 0 .. size - 1 : \E d \in 0 .. size - 1 : Pos(k, d) = j
<1>1. CASE size = 0
  BY <1>1
<1>2. CASE size # 0
  <2>. DEFINE s == hash[k] % size
  <2>1. s \in 0 .. size - 1
    BY <1>2, ModRange
  <2>2. \A d \in 0 .. size - 1 : Pos(k, d) = IF s + d < size THEN s + d ELSE s + d - size
    BY DEF Pos
  <2>. HIDE DEF s
  <2>3. \A d \in 0 .. size - 1 : Pos(k, d) \in 0 .. size - 1
    BY <2>1, <2>2
  <2>4. \A d, e \in 0 .. size - 1 : Pos(k, d) = Pos(k, e) => d = e
    BY <2>1, <2>2
  <2>5. ASSUME NEW j \in 0 .. size - 1
        PROVE  \E d \in 0 .. size - 1 : Pos(k, d) = j
    <3>1. CASE j >= s
      <4>1. j - s \in 0 .. size - 1 /\ s + (j - s) = j
        BY <2>1, <3>1
      <4>. QED
        BY <4>1, <2>1, <2>2
    <3>2. CASE j < s
      <4>1. j - s + size \in 0 .. size - 1 /\ s + (j - s + size) - size = j
            /\ ~(s + (j - s + size) < size)
        BY <2>1, <3>2
      <4>. QED
        BY <4>1, <2>1, <2>2
    <3>. QED
      BY <3>1, <3>2, <2>1
  <2>. QED
    BY <2>3, <2>4, <2>5
<1>. QED
  BY <1>1, <1>2

\* What gethash returns: the key's slot, or a free one, at the end of the part of
\* the probe it has looked at.
LEMMA Finding ==
  ASSUME Shape, NEW k \in Keys, HasRoom(k)
  PROVE  \E m \in Reached(k) :
           /\ m \in 0 .. size - 1 /\ Find(k) = Pos(k, m) /\ Find(k) \in 0 .. size - 1
           /\ self[Find(k)].key = IF Present(k) THEN k ELSE NoKey
<1>. DEFINE S == IF Present(k) THEN Hits(k) ELSE Frees(k)
            m == Least(S)
<1>1. S # {} /\ S \in SUBSET Nat /\ S \subseteq Reached(k) /\ Reached(k) \subseteq 0 .. size - 1
  <2>1. Reached(k) \subseteq 0 .. size - 1 /\ Reached(k) \subseteq Nat
    BY DEF Reached, Shape
  <2>2. S \subseteq Reached(k)
    BY DEF Hits, Frees
  <2>3. S # {}
    BY DEF HasRoom, Present
  <2>. QED
    BY <2>1, <2>2, <2>3
<1>2. m \in S
  <2>. HIDE DEF S
  <2>. QED
    BY <1>1, LeastIsLeast
<1>3. Find(k) = Pos(k, m)
  BY DEF Find
<1>4. self[Pos(k, m)].key = IF Present(k) THEN k ELSE NoKey
  <2>. HIDE DEF m
  <2>. QED
    BY <1>2 DEF Hits, Frees
<1>5. Pos(k, m) \in 0 .. size - 1
  <2>. HIDE DEF m, S
  <2>. QED
    BY <1>1, <1>2, Probing DEF Shape
<1>. HIDE DEF m, S
<1>. QED
  BY <1>1, <1>2, <1>3, <1>4, <1>5

\* Under Condition 3, gethash finds a key's entry wherever the table holds one.
LEMMA PresentIfHeld ==
  ASSUME Shape, ConditionThree, NEW k \in Keys
  PROVE  Present(k) <=> \E j \in 0 .. size - 1 : self[j].key = k
<1>1. ASSUME Present(k)
      PROVE  \E j \in 0 .. size - 1 : self[j].key = k
  BY <1>1, Probing DEF Present, Hits, Reached, Shape
<1>2. ASSUME NEW j \in 0 .. size - 1, self[j].key = k
      PROVE  Present(k)
  <2>1. PICK d \in 0 .. size - 1 : Pos(k, d) = j
    BY Probing DEF Shape
  <2>2. \A e \in 0 .. d - 1 : self[Pos(k, e)] # Never /\ self[Pos(k, e)].key # k
    BY <1>2, <2>1 DEF ConditionThree
  <2>. QED
    BY <1>2, <2>1, <2>2 DEF Present, Hits, Reached
<1>. QED
  BY <1>1, <1>2

\* Under Condition 3, a key has one slot at most.
LEMMA OneSlot ==
  ASSUME Shape, ConditionThree, NEW k \in Keys, NEW i \in 0 .. size - 1, NEW j \in 0 .. size - 1,
         self[i].key = k, self[j].key = k
  PROVE  i = j
<1>1. PICK d \in 0 .. size - 1 : Pos(k, d) = i
  BY Probing DEF Shape
<1>2. PICK e \in 0 .. size - 1 : Pos(k, e) = j
  BY Probing DEF Shape
<1>3. ~(d < e)
  <2>1. d < e => d \in 0 .. e - 1
    BY DEF Shape
  <2>. QED
    BY <1>1, <1>2, <2>1 DEF ConditionThree
<1>4. ~(e < d)
  <2>1. e < d => e \in 0 .. d - 1
    BY DEF Shape
  <2>. QED
    BY <1>1, <1>2, <2>1 DEF ConditionThree
<1>5. d = e
  BY <1>3, <1>4 DEF Shape
<1>. QED
  BY <1>1, <1>2, <1>5

-------------------------------------------------------------------------------
(* Condition 3.                                                            *)

\* Writing a key's entry into the slot gethash returned for it.
LEMMA StoreKeeps ==
  ASSUME Shape, ConditionThree, NEW k \in Keys, HasRoom(k),
         NEW r, r.key = k,
         self' = [self EXCEPT ![Find(k)] = r], UNCHANGED <<hash, size>>
  PROVE  ConditionThree'
<1>. SUFFICES ASSUME NEW x \in Keys, NEW d \in 0 .. size - 1, NEW e \in 0 .. d - 1,
                     self'[Pos(x, d)].key = x
              PROVE  self'[Pos(x, e)] # Never /\ self'[Pos(x, e)].key # x
  BY DEF ConditionThree, Pos
<1>. DEFINE f == Find(k)
<1>1. PICK m \in Reached(k) :
        /\ m \in 0 .. size - 1 /\ f = Pos(k, m) /\ f \in 0 .. size - 1
        /\ self[f].key = IF Present(k) THEN k ELSE NoKey
  BY Finding
<1>2. \A j \in 0 .. size - 1 : self'[j] = IF j = f THEN r ELSE self[j]
  BY DEF Shape
<1>3. Pos(x, d) \in 0 .. size - 1 /\ Pos(x, e) \in 0 .. size - 1 /\ e \in 0 .. size - 1
  <2>1. e \in 0 .. size - 1
    BY DEF Shape
  <2>. QED
    BY <2>1, Probing DEF Shape
<1>4. r # Never
  BY KeysAssumption DEF Never
<1>. HIDE DEF f
<1>5. CASE x # k
  <2>1. self[Pos(x, d)].key = x
    BY <1>2, <1>3, <1>5
  <2>2. self[Pos(x, e)] # Never /\ self[Pos(x, e)].key # x
    BY <2>1 DEF ConditionThree
  <2>. QED
    BY <2>2, <1>2, <1>3, <1>4, <1>5
<1>6. CASE x = k
  <2>1. \A c \in 0 .. m - 1 : self[Pos(k, c)] # Never /\ self[Pos(k, c)].key # k
    BY <1>1 DEF Reached
  <2>2. d = m
    <3>1. CASE Pos(k, d) = f
      BY <3>1, <1>1, Probing DEF Shape
    <3>2. CASE Pos(k, d) # f
      <4>1. self[Pos(k, d)].key = k
        BY <3>2, <1>2, <1>3, <1>6
      <4>2. Present(k)
        BY <4>1, <1>3, <1>6, PresentIfHeld
      <4>3. self[f].key = k
        BY <4>2, <1>1
      <4>. QED
        BY <4>1, <4>3, <3>2, <1>1, <1>3, <1>6, OneSlot
    <3>. QED
      BY <3>1, <3>2
  <2>3. Pos(k, e) # f
    BY <2>2, <1>1, <1>3, Probing DEF Shape
  <2>. QED
    BY <2>1, <2>2, <2>3, <1>2, <1>3, <1>6
<1>. QED
  BY <1>5, <1>6

\* Freeing the slot of a key.
LEMMA RemovalKeeps ==
  ASSUME Shape, ConditionThree, NEW f \in 0 .. size - 1,
         self' = [self EXCEPT ![f] = Freed], UNCHANGED <<hash, size>>
  PROVE  ConditionThree'
<1>. SUFFICES ASSUME NEW x \in Keys, NEW d \in 0 .. size - 1, NEW e \in 0 .. d - 1,
                     self'[Pos(x, d)].key = x
              PROVE  self'[Pos(x, e)] # Never /\ self'[Pos(x, e)].key # x
  BY DEF ConditionThree, Pos
<1>1. \A j \in 0 .. size - 1 : self'[j] = IF j = f THEN Freed ELSE self[j]
  BY DEF Shape
<1>2. Pos(x, d) \in 0 .. size - 1 /\ Pos(x, e) \in 0 .. size - 1
  <2>1. e \in 0 .. size - 1
    BY DEF Shape
  <2>. QED
    BY <2>1, Probing DEF Shape
<1>3. Freed # Never /\ Freed.key = NoKey /\ x # NoKey
  BY KeysAssumption DEF Freed, Never
<1>4. self[Pos(x, d)].key = x
  BY <1>1, <1>2, <1>3
<1>5. self[Pos(x, e)] # Never /\ self[Pos(x, e)].key # x
  BY <1>4 DEF ConditionThree
<1>. QED
  BY <1>1, <1>2, <1>3, <1>5

\* A body without entries.
LEMMA EmptyKeeps ==
  ASSUME hash' \in [Keys -> Nat], size' \in Nat, self' = [j \in 0 .. size' - 1 |-> Never]
  PROVE  ConditionThree'
<1>. SUFFICES ASSUME NEW k \in Keys, NEW d \in 0 .. size' - 1
              PROVE  self'[Pos(k, d)'].key # k
  BY DEF ConditionThree
<1>1. Pos(k, d)' \in 0 .. size' - 1
  <2>1. hash'[k] \in Nat
    OBVIOUS
  <2>. QED
    BY <2>1, ProbeRange DEF Pos
<1>2. self'[Pos(k, d)'] = Never
  BY <1>1
<1>. QED
  BY <1>2, KeysAssumption DEF Never

-------------------------------------------------------------------------------
(* Types.                                                                  *)

LEMMA MadeWell ==
  ASSUME made \in Tables
  PROVE  /\ made.size \in Nat /\ made.rn \in Nat /\ made.rd \in Nat \ {0} /\ made.rn >= made.rd
         /\ made.tn \in Nat /\ made.td \in Nat \ {0}
         /\ made.kind = "fixnum" => made.tn <= made.size
         /\ made.kind # "fixnum" => made.tn <= made.td
<1>1. /\ made.size \in 0 .. MaxSize /\ MaxSize \in Nat
      /\ made.rn \in Nat \ {0} /\ made.rd \in Nat \ {0} /\ (made.rd # 1 => made.rn > made.rd)
      /\ made.tn \in Nat /\ made.td \in Nat \ {0}
      /\ IF made.kind = "fixnum" THEN made.td = 1 /\ made.tn <= made.size
                                ELSE made.tn <= made.td
  BY TablesAssumption
<1>. QED
  BY <1>1

\* Twice the size times the threshold, rounded, is one more than the size at most.
LEMMA Rounded ==
  ASSUME NEW a \in Nat, NEW b \in Nat \ {0}, NEW s \in Nat, a <= b
  PROVE  /\ Nearby(2 * a * s + b, 2 * b) \in 0 .. s + 1
         /\ (2 * a * s + b) \div (2 * b) \in 0 .. s
<1>. DEFINE x == 2 * a * s + b
            c == 2 * b
            q == x \div c
<1>1. x \in Nat /\ c \in Nat \ {0}
  OBVIOUS
<1>2. a * s <= b * s
  OBVIOUS
<1>3. x <= c * s + b
  BY <1>2
<1>4. x < c * (s + 1)
  BY <1>3
<1>5. q \in Nat
  BY <1>1
<1>6. q <= s
  BY <1>1, <1>4, <1>5
<1>. QED
  BY <1>5, <1>6 DEF Nearby

LEMMA LimitsAtFirst ==
  ASSUME made \in Tables
  PROVE  FirstMax(made) \in 0 .. made.size + 1
<1>1. CASE made.kind = "fixnum"
  BY <1>1, MadeWell DEF FirstMax
<1>2. CASE made.kind = "float"
  BY <1>2, MadeWell, Rounded DEF FirstMax
<1>3. CASE made.kind \notin {"fixnum", "float"}
  <2>1. FirstMax(made) = (2 * made.tn * made.size + made.td) \div (2 * made.td)
    BY <1>3 DEF FirstMax
  <2>2. (2 * made.tn * made.size + made.td) \div (2 * made.td) \in 0 .. made.size
    BY <1>3, MadeWell, Rounded
  <2>. QED
    BY <2>1, <2>2, MadeWell
<1>. QED
  BY <1>1, <1>2, <1>3

\* An extension makes the table larger and leaves its limit below the new size.
LEMMA LimitsAfter ==
  ASSUME made \in Tables, size \in Nat, thresh \in Nat
  PROVE  /\ NewSize \in Nat /\ NewSize >= size + 1
         /\ NewMax \in 0 .. NewSize - 1
         /\ thresh + NewSize - size \in Nat
<1>1. NewSize \in Nat /\ NewSize >= size + 1
  BY MadeWell, Growth DEF NewSize
<1>2. thresh + NewSize - size \in Nat
  BY <1>1
<1>3. AskedMax \in Nat
  <2>1. CASE made.kind = "fixnum"
    BY <2>1, <1>2 DEF AskedMax
  <2>2. CASE made.kind = "float"
    BY <2>2, <1>1, MadeWell, Rounded DEF AskedMax
  <2>3. CASE made.kind \notin {"fixnum", "float"}
    BY <2>3 DEF AskedMax
  <2>. QED
    BY <2>1, <2>2, <2>3
<1>. QED
  BY <1>1, <1>2, <1>3 DEF NewMax

LEMMA SlotFacts ==
  /\ Never \in Slots /\ Freed \in Slots
  /\ \A k \in Keys, v \in Values : [key |-> k, val |-> v] \in Slots
BY DEF Never, Freed, Slots

LEMMA Idle ==
  NoCopy \in Copies /\ ~NoCopy.on /\ NoWalk \in Walks /\ ~NoWalk.on
<1>1. NoCopy \in Copies /\ ~NoCopy.on
  BY DEF NoCopy, Copies
<1>2. [k \in Keys |-> 0] \in [Keys -> 0 .. 2]
  OBVIOUS
<1>3. NoWalk \in Walks /\ ~NoWalk.on
  BY <1>2 DEF NoWalk, Walks
<1>. QED
  BY <1>1, <1>3

LEMMA ShapeInit == Init => Shape
<1>. SUFFICES ASSUME Init PROVE Shape
  OBVIOUS
<1>1. hash \in [Keys -> Nat] /\ made \in Tables
  BY KeysAssumption DEF Init
<1>2. size \in Nat /\ self \in [0 .. size - 1 -> Slots]
  BY <1>1, MadeWell, SlotFacts DEF Init
<1>3. maxEnt \in Nat /\ thresh \in Nat
  BY <1>1, MadeWell, LimitsAtFirst DEF Init
<1>. QED
  BY <1>1, <1>2, <1>3, Idle DEF Init, Shape

LEMMA Judging ==
  ASSUME walk \in Walks, NEW b \in BOOLEAN
  PROVE  /\ Judged(b) \in Walks
         /\ Judged(b).on = walk.on /\ Judged(b).n = walk.n
<1>1. CASE b
  BY <1>1 DEF Judged
<1>2. CASE ~b
  <2>. DEFINE zero == [k \in Keys |-> 0]
  <2>1. zero \in [Keys -> 0 .. 2]
    OBVIOUS
  <2>2. Judged(b) = [walk EXCEPT !.legal = FALSE, !.start = {}, !.seen = zero]
    BY <1>2 DEF Judged
  <2>. HIDE DEF zero
  <2>. QED
    BY <2>1, <2>2 DEF Walks
<1>. QED
  BY <1>1, <1>2

\* The next entry of a walk is a slot of the table that holds one.
LEMMA NextEntry ==
  ASSUME Shape, walk.on, Ahead # {}
  PROVE  Least(Ahead) \in 0 .. size - 1 /\ self[Least(Ahead)].key \in Keys
<1>1. walk.i \in Nat /\ walk.n \in Nat /\ walk.n <= size /\ size \in Nat
  BY DEF Shape, Walks
<1>2. walk.i .. walk.n - 1 \subseteq 0 .. size - 1
  BY <1>1
<1>3. Ahead \subseteq walk.i .. walk.n - 1
  BY DEF Ahead
<1>4. Ahead \in SUBSET Nat
  BY <1>1, <1>2, <1>3
<1>5. Least(Ahead) \in Ahead
  BY <1>4, LeastIsLeast
<1>. QED
  BY <1>2, <1>3, <1>5 DEF Ahead, Shape, Slots

\* The part of Shape an action leaves alone that only writes a slot.
LEMMA ShapeWrite ==
  ASSUME Shape, UNCHANGED <<hash, made, size, maxEnt, thresh, old, copy>>,
         self' \in [0 .. size - 1 -> Slots],
         NEW b \in BOOLEAN, walk' = Judged(b)
  PROVE  Shape'
BY Judging DEF Shape

LEMMA ShapeStep ==
  ASSUME Shape, [Next]_vars
  PROVE  Shape'
<1>1. ASSUME NEW k \in Keys, Lookup(k)
      PROVE  Shape'
  BY <1>1 DEF Lookup, table, Shape
<1>2. ASSUME NEW k \in Keys, Remove(k)
      PROVE  Shape'
  <2>1. CASE Present(k)
    <3>1. self' \in [0 .. size - 1 -> Slots]
      BY <1>2, <2>1, SlotFacts DEF Remove, Shape
    <3>2. walk' = Judged(Permitted(k)) /\ Permitted(k) \in BOOLEAN
      BY <1>2, <2>1 DEF Remove, Note, Permitted
    <3>. QED
      BY <1>2, <3>1, <3>2, ShapeWrite DEF Remove
  <2>2. CASE ~Present(k)
    BY <1>2, <2>2 DEF Remove, Shape
  <2>. QED
    BY <2>1, <2>2
<1>3. ASSUME Clear
      PROVE  Shape'
  <2>1. self' \in [0 .. size - 1 -> Slots]
    BY <1>3, SlotFacts DEF Clear, Shape
  <2>2. walk' = Judged(~walk.on)
    BY <1>3 DEF Clear, Note
  <2>. QED
    BY <1>3, <2>1, <2>2, ShapeWrite DEF Clear
<1>4. ASSUME NEW k \in Keys, NEW v \in Values, Put(k, v)
      PROVE  Shape'
  <2>1. self' \in [0 .. size - 1 -> Slots]
    BY <1>4, SlotFacts DEF Put, Store, Shape
  <2>2. walk' = Judged(Permitted(k)) /\ Permitted(k) \in BOOLEAN
    BY <1>4 DEF Put, Note, Permitted
  <2>. QED
    BY <1>4, <2>1, <2>2, ShapeWrite DEF Put
<1>5. ASSUME NEW k \in Keys, NEW v \in Values, PutGrow(k, v)
      PROVE  Shape'
  <2>1. /\ NewSize \in Nat /\ NewSize >= size + 1 /\ NewMax \in 0 .. NewSize - 1
        /\ thresh + NewSize - size \in Nat
    BY LimitsAfter DEF Shape
  <2>2. /\ hash' \in [Keys -> Nat] /\ made' \in Tables /\ maxEnt' \in Nat /\ thresh' \in Nat
        /\ size' \in Nat /\ size <= size'
    <3>1. /\ size' = NewSize /\ hash' = hash /\ made' = made /\ maxEnt' = maxEnt
          /\ thresh' = IF made.kind = "fixnum" THEN thresh + NewSize - size ELSE thresh
      BY <1>5 DEF PutGrow
    <3>2. /\ hash \in [Keys -> Nat] /\ made \in Tables /\ maxEnt \in Nat /\ thresh \in Nat
          /\ size \in Nat
      BY DEF Shape
    <3>3. thresh' \in Nat
      BY <2>1, <3>1, <3>2
    <3>4. size <= size'
      BY <2>1, <3>1, <3>2
    <3>. QED
      BY <2>1, <3>1, <3>2, <3>3, <3>4
  <2>3. self' \in [0 .. size' - 1 -> Slots]
    BY <1>5, SlotFacts DEF PutGrow
  <2>4. /\ copy' \in Copies
        /\ copy'.n \in 0 .. size' - 1 /\ copy'.i \in 0 .. copy'.n
        /\ old' \in [0 .. copy'.n - 1 -> Slots]
        /\ copy'.key \in Keys /\ copy'.val \in Values /\ copy'.max \in 0 .. size' - 1
    <3>1. copy' = [on |-> TRUE, i |-> 0, n |-> size, key |-> k, val |-> v, max |-> NewMax]
      BY <1>5 DEF PutGrow
    <3>2. NewMax \in Nat /\ size \in 0 .. NewSize - 1 /\ size' = NewSize
      BY <1>5, <2>1 DEF PutGrow, Shape
    <3>3. old' \in [0 .. size - 1 -> Slots]
      BY <1>5 DEF PutGrow, Shape
    <3>. QED
      BY <2>1, <3>1, <3>2, <3>3 DEF Copies, Shape
  <2>5. walk' \in Walks /\ (walk'.on => walk'.n <= size')
    <3>1. walk' = [Judged(Permitted(k)) EXCEPT !.grown = walk.on] /\ Permitted(k) \in BOOLEAN
      BY <1>5 DEF PutGrow, Permitted
    <3>2. Judged(Permitted(k)) \in Walks /\ walk \in Walks
      BY <3>1, Judging DEF Shape
    <3>3. walk' \in Walks /\ walk'.on = walk.on /\ walk'.n = walk.n
      BY <3>1, <3>2, Judging DEF Walks
    <3>4. walk.on => walk.n <= size
      BY DEF Shape
    <3>5. walk.n \in Nat /\ size \in Nat
      BY <3>2 DEF Walks, Shape
    <3>. QED
      BY <3>3, <3>4, <3>5, <2>2
  <2>. QED
    BY <2>2, <2>3, <2>4, <2>5 DEF Shape
<1>6. ASSUME CopySlot
      PROVE  Shape'
  <2>1. self' \in [0 .. size - 1 -> Slots]
    <3>1. old[copy.i] \in Slots
      BY <1>6 DEF CopySlot, Shape
    <3>. QED
      BY <1>6, <3>1 DEF CopySlot, Shape
  <2>2. copy' \in Copies /\ copy'.on /\ copy'.n = copy.n /\ copy'.i = copy.i + 1
        /\ copy'.key = copy.key /\ copy'.val = copy.val /\ copy'.max = copy.max
    <3>1. copy' = [copy EXCEPT !.i = @ + 1] /\ copy \in Copies /\ copy.on
      BY <1>6 DEF CopySlot, Shape
    <3>. QED
      BY <3>1 DEF Copies
  <2>3. copy'.i \in 0 .. copy'.n
    BY <1>6, <2>2 DEF CopySlot, Shape
  <2>. QED
    BY <1>6, <2>1, <2>2, <2>3 DEF CopySlot, Shape
<1>7. ASSUME PutGrown
      PROVE  Shape'
  <2>1. self' \in [0 .. size - 1 -> Slots]
    BY <1>7, SlotFacts DEF PutGrown, Store, Shape
  <2>2. NoCopy \in Copies /\ ~NoCopy.on
    BY Idle
  <2>3. maxEnt' \in Nat
    BY <1>7 DEF PutGrown, Shape
  <2>. QED
    BY <1>7, <2>1, <2>2, <2>3 DEF PutGrown, Shape
<1>8. NoWalk \in Walks /\ ~NoWalk.on
  BY Idle
<1>9. ASSUME WalkStart
      PROVE  Shape'
  <2>1. walk' \in Walks /\ walk'.n = size
    BY <1>9, <1>8 DEF WalkStart, Walks, NoWalk, Entries, Shape
  <2>. QED
    BY <1>9, <2>1 DEF WalkStart, table, Shape
<1>10. ASSUME WalkNext
       PROVE  Shape'
  <2>. DEFINE j == Least(Ahead)
  <2>1. j \in 0 .. size - 1 /\ self[j].key \in Keys
    BY <1>10, NextEntry DEF WalkNext
  <2>2. walk' = [walk EXCEPT !.i = After(j), !.cur = self[j].key,
                   !.seen[self[j].key] = IF walk.legal /\ @ < 2 THEN @ + 1 ELSE @]
    BY <1>10 DEF WalkNext
  <2>. HIDE DEF j
  <2>3. walk' \in Walks /\ walk'.on = walk.on /\ walk'.n = walk.n
    <3>1. walk \in Walks /\ walk.seen \in [Keys -> 0 .. 2] /\ After(j) \in Nat
      BY <2>1 DEF Shape, Walks, After
    <3>. DEFINE c == self[j].key
                seen == [walk.seen EXCEPT ![c] = IF walk.legal /\ @ < 2 THEN @ + 1 ELSE @]
    <3>2. seen \in [Keys -> 0 .. 2]
      <4>1. c \in Keys /\ walk.seen[c] \in 0 .. 2
        BY <2>1, <3>1
      <4>2. (IF walk.legal /\ walk.seen[c] < 2 THEN walk.seen[c] + 1 ELSE walk.seen[c]) \in 0 .. 2
        BY <4>1
      <4>. HIDE DEF c
      <4>. QED
        BY <3>1, <4>1, <4>2
    <3>3. walk' = [walk EXCEPT !.i = After(j), !.cur = c, !.seen = seen]
      BY <2>2
    <3>4. c \in Keys
      BY <2>1
    <3>. HIDE DEF seen, c
    <3>. QED
      BY <3>1, <3>2, <3>3, <3>4 DEF Walks
  <2>. QED
    BY <1>10, <2>3 DEF WalkNext, table, Shape
<1>11. ASSUME WalkEnd \/ WalkThrow
       PROVE  Shape'
  BY <1>8, <1>11 DEF WalkEnd, WalkThrow, table, Shape
<1>12. ASSUME UNCHANGED vars
       PROVE  Shape'
  BY <1>12 DEF vars, table, Shape
<1>. QED
  BY <1>1, <1>2, <1>3, <1>4, <1>5, <1>6, <1>7, <1>9, <1>10, <1>11, <1>12 DEF Next

-------------------------------------------------------------------------------
(* Condition 3 is invariant.                                               *)

LEMMA ThreeStep ==
  ASSUME Shape, ConditionThree, [Next]_vars
  PROVE  ConditionThree'
<1>1. ASSUME UNCHANGED <<hash, self, size>>
      PROVE  ConditionThree'
  BY <1>1 DEF ConditionThree, Pos
<1>2. ASSUME NEW k \in Keys, Remove(k)
      PROVE  ConditionThree'
  <2>1. CASE Present(k)
    <3>1. Find(k) \in 0 .. size - 1
      BY <2>1, Finding DEF HasRoom
    <3>. QED
      BY <1>2, <2>1, <3>1, RemovalKeeps DEF Remove
  <2>2. CASE ~Present(k)
    BY <1>1, <1>2, <2>2 DEF Remove
  <2>. QED
    BY <2>1, <2>2
<1>3. ASSUME NEW k \in Keys, NEW v \in Values, Store(k, v), UNCHANGED <<hash, size>>
      PROVE  ConditionThree'
  <2>. DEFINE r == [key |-> k, val |-> v]
  <2>1. r.key = k
    OBVIOUS
  <2>2. HasRoom(k) /\ self' = [self EXCEPT ![Find(k)] = r]
    BY <1>3 DEF Store
  <2>. HIDE DEF r
  <2>. QED
    BY <1>3, <2>1, <2>2, StoreKeeps
<1>4. ASSUME Clear
      PROVE  ConditionThree'
  <2>1. self' = [j \in 0 .. size' - 1 |-> Never] /\ size' \in Nat /\ hash' \in [Keys -> Nat]
    BY <1>4 DEF Clear, Shape
  <2>. QED
    BY <2>1, EmptyKeeps
<1>5. ASSUME NEW k \in Keys, NEW v \in Values, PutGrow(k, v)
      PROVE  ConditionThree'
  <2>1. self' = [j \in 0 .. size' - 1 |-> Never] /\ size' \in Nat /\ hash' \in [Keys -> Nat]
    BY <1>5, LimitsAfter DEF PutGrow, Shape
  <2>. QED
    BY <2>1, EmptyKeeps
<1>6. ASSUME CopySlot
      PROVE  ConditionThree'
  <2>. DEFINE o == old[copy.i]
  <2>1. o \in Slots /\ UNCHANGED <<hash, size>>
    BY <1>6 DEF CopySlot, Shape
  <2>2. CASE o.key = NoKey
    BY <1>1, <1>6, <2>2 DEF CopySlot
  <2>3. CASE o.key # NoKey
    <3>1. o.key \in Keys
      BY <2>1, <2>3 DEF Slots
    <3>2. HasRoom(o.key) /\ self' = [self EXCEPT ![Find(o.key)] = o]
      BY <1>6, <2>3 DEF CopySlot
    <3>. QED
      BY <2>1, <3>1, <3>2, StoreKeeps
  <2>. QED
    BY <2>2, <2>3
<1>7. ASSUME PutGrown
      PROVE  ConditionThree'
  <2>1. copy.key \in Keys /\ copy.val \in Values
    BY <1>7 DEF PutGrown, Shape
  <2>. QED
    BY <1>3, <1>7, <2>1 DEF PutGrown
<1>8. ASSUME NEW k \in Keys, NEW v \in Values, Put(k, v)
      PROVE  ConditionThree'
  BY <1>3, <1>8 DEF Put
<1>9. CASE UNCHANGED vars \/ WalkStart \/ WalkNext \/ WalkEnd \/ WalkThrow
           \/ (\E k \in Keys : Lookup(k))
  BY <1>1, <1>9 DEF vars, table, WalkStart, WalkNext, WalkEnd, WalkThrow, Lookup
<1>. QED
  BY <1>2, <1>4, <1>5, <1>6, <1>7, <1>8, <1>9 DEF Next

-------------------------------------------------------------------------------
(* The copy.                                                               *)

\* A slot that gethash returned for a key holds an entry afterwards; it held one before
\* exactly if the key had one.
LEMMA Storing ==
  ASSUME Shape, NEW k \in Keys, HasRoom(k), NEW r \in Slots, r.key = k,
         self' = [self EXCEPT ![Find(k)] = r]
  PROVE  /\ Find(k) \in 0 .. size - 1
         /\ Held(self') = Held(self) \cup {Find(k)}
         /\ Find(k) \in Held(self) <=> Present(k)
         /\ \A j \in 0 .. size - 1 : self'[j] = IF j = Find(k) THEN r ELSE self[j]
<1>. DEFINE f == Find(k)
<1>1. f \in 0 .. size - 1 /\ self[f].key = IF Present(k) THEN k ELSE NoKey
  BY Finding
<1>2. self \in [0 .. size - 1 -> Slots] /\ k # NoKey
  BY KeysAssumption DEF Shape
<1>. HIDE DEF f
<1>3. DOMAIN self = 0 .. size - 1 /\ DOMAIN self' = 0 .. size - 1
      /\ \A j \in 0 .. size - 1 : self'[j] = IF j = f THEN r ELSE self[j]
  BY <1>1, <1>2 DEF f
<1>4. Held(self') = Held(self) \cup {f}
  BY <1>1, <1>2, <1>3 DEF Held
<1>5. f \in Held(self) <=> Present(k)
  BY <1>1, <1>2, <1>3 DEF Held
<1>. QED
  BY <1>1, <1>3, <1>4, <1>5 DEF f

\* In a body that satisfies Condition 3 a key has one slot at most.
LEMMA UniqueSelf ==
  ASSUME Shape, ConditionThree
  PROVE  Unique(self)
<1>. SUFFICES ASSUME NEW i \in Held(self), NEW j \in Held(self), self[i].key = self[j].key
              PROVE  i = j
  BY DEF Unique
<1>1. i \in 0 .. size - 1 /\ j \in 0 .. size - 1 /\ self[i].key \in Keys
  BY DEF Shape, Held, Slots
<1>. QED
  BY <1>1, OneSlot

LEMMA UniqueNext == Shape' /\ ConditionThree' => Unique(self')
<1>1. Shape /\ ConditionThree => Unique(self)
  BY UniqueSelf
<1>2. (Shape /\ ConditionThree => Unique(self))'
  BY <1>1, PTL
<1>. QED
  BY <1>2

\* A body no slot of which was used holds nothing.
LEMMA NothingHeld ==
  ASSUME NEW n \in Nat
  PROVE  Held([j \in 0 .. n - 1 |-> Never]) = {}
BY DEF Held, Never

\* The key that a turn of the copy moves is not in the new body yet.
LEMMA Moving ==
  ASSUME Shape, ConditionThree, CopyInv, CopySlot, old[copy.i].key # NoKey
  PROVE  /\ copy.i \in Held(old) /\ old[copy.i] \in Slots /\ old[copy.i].key \in Keys
         /\ HasRoom(old[copy.i].key)
         /\ ~Present(old[copy.i].key)
         /\ self' = [self EXCEPT ![Find(old[copy.i].key)] = old[copy.i]]
<1>. DEFINE o == old[copy.i]
<1>1. /\ copy.on /\ copy.i \in 0 .. copy.n - 1 /\ copy.n \in Nat
      /\ old \in [0 .. copy.n - 1 -> Slots]
  BY DEF CopySlot, Shape
<1>2. copy.i \in Held(old) /\ o \in Slots /\ o.key \in Keys
  BY <1>1 DEF Held, Slots
<1>3. HasRoom(o.key) /\ self' = [self EXCEPT ![Find(o.key)] = o]
  BY DEF CopySlot
<1>. HIDE DEF o
<1>4. ASSUME Present(o.key)
      PROVE  FALSE
  <2>1. PICK j \in 0 .. size - 1 : self[j].key = o.key
    BY <1>2, <1>4, PresentIfHeld
  <2>2. j \in Held(self)
    BY <1>2, <2>1, KeysAssumption DEF Held, Shape
  <2>3. PICK i \in 0 .. copy.i - 1 : old[i] = self[j]
    BY <1>1, <2>2 DEF CopyInv
  <2>4. i \in Held(old) /\ i # copy.i
    BY <1>1, <1>2, <2>1, <2>3, KeysAssumption DEF Held
  <2>5. old[i].key = old[copy.i].key
    BY <2>1, <2>3 DEF o
  <2>. QED
    BY <1>1, <1>2, <2>4, <2>5 DEF CopyInv, Unique
<1>. QED
  BY <1>2, <1>3, <1>4 DEF o

LEMMA CopyStep ==
  ASSUME Shape, ConditionThree, CopyInv, [Next]_vars
  PROVE  CopyInv'
<1>1. ASSUME ~copy'.on
      PROVE  CopyInv'
  BY <1>1 DEF CopyInv
<1>2. ASSUME UNCHANGED <<self, size, old, copy>>
      PROVE  CopyInv'
  BY <1>2 DEF CopyInv, Held, Unique
<1>3. ASSUME NEW k \in Keys, NEW v \in Values, PutGrow(k, v)
      PROVE  CopyInv'
  <2>1. /\ old' = self /\ copy'.on /\ copy'.i = 0
        /\ self' = [j \in 0 .. NewSize - 1 |-> Never]
    BY <1>3 DEF PutGrow
  <2>2. Unique(old')
    BY <2>1, UniqueSelf
  <2>3. Held(self') = {}
    <3>1. NewSize \in Nat
      BY LimitsAfter DEF Shape
    <3>. QED
      BY <2>1, <3>1, NothingHeld
  <2>4. \A i \in Held(old') : ~(i < copy'.i)
    BY <2>1 DEF Held, Shape
  <2>. QED
    BY <2>2, <2>3, <2>4 DEF CopyInv
<1>4. ASSUME CopySlot
      PROVE  CopyInv'
  <2>1. /\ copy.on /\ copy.i \in 0 .. copy.n - 1 /\ copy.n \in Nat
        /\ DOMAIN old = 0 .. copy.n - 1
        /\ UNCHANGED <<old, size>>
    BY <1>4 DEF CopySlot, Shape
  <2>2. copy'.on /\ copy'.i = copy.i + 1
    BY <1>4 DEF CopySlot, Shape, Copies
  <2>3. Unique(old')
    BY <2>1 DEF CopyInv
  <2>4. 0 .. copy'.i - 1 = (0 .. copy.i - 1) \cup {copy.i}
    BY <2>1, <2>2
  <2>5. CASE old[copy.i].key = NoKey
    <3>1. self' = self
      BY <1>4, <2>5 DEF CopySlot
    <3>2. \A j \in Held(self') : \E i \in 0 .. copy'.i - 1 : old'[i] = self'[j]
      BY <2>1, <2>4, <3>1 DEF CopyInv
    <3>3. ASSUME NEW i \in Held(old), i < copy'.i
          PROVE  \E j \in 0 .. size - 1 : self[j] = old[i]
      <4>1. i # copy.i /\ i \in 0 .. copy.n - 1
        BY <2>1, <2>5 DEF Held
      <4>2. i < copy.i
        BY <2>1, <2>2, <3>3, <4>1
      <4>. QED
        BY <2>1, <4>2 DEF CopyInv
    <3>. QED
      BY <2>1, <2>3, <3>1, <3>2, <3>3 DEF CopyInv
  <2>6. CASE old[copy.i].key # NoKey
    <3>. DEFINE o == old[copy.i]
                f == Find(o.key)
    <3>1. /\ copy.i \in Held(old) /\ o \in Slots /\ o.key \in Keys /\ HasRoom(o.key)
          /\ ~Present(o.key) /\ self' = [self EXCEPT ![f] = o]
      BY <1>4, <2>6, Moving
    <3>2. /\ f \in 0 .. size - 1 /\ Held(self') = Held(self) \cup {f} /\ f \notin Held(self)
          /\ \A j \in 0 .. size - 1 : self'[j] = IF j = f THEN o ELSE self[j]
      BY <3>1, Storing
    <3>. HIDE DEF f
    <3>3. ASSUME NEW j \in Held(self')
          PROVE  \E i \in 0 .. copy'.i - 1 : old[i] = self'[j]
      <4>1. CASE j = f
        BY <2>4, <3>2, <4>1
      <4>2. CASE j # f
        <5>1. j \in Held(self) /\ self'[j] = self[j]
          BY <3>2, <3>3, <4>2 DEF Held, Shape
        <5>. QED
          BY <2>1, <2>4, <5>1 DEF CopyInv
      <4>. QED
        BY <4>1, <4>2
    <3>4. ASSUME NEW i \in Held(old), i < copy'.i
          PROVE  \E j \in 0 .. size - 1 : self'[j] = old[i]
      <4>1. CASE i = copy.i
        BY <3>2, <4>1
      <4>2. CASE i # copy.i
        <5>1. i < copy.i
          BY <2>1, <2>2, <3>4, <4>2 DEF Held
        <5>2. PICK j \in 0 .. size - 1 : self[j] = old[i]
          BY <2>1, <5>1 DEF CopyInv
        <5>3. j \in Held(self)
          BY <5>2 DEF Held, Shape
        <5>. QED
          BY <3>2, <5>2, <5>3
      <4>. QED
        BY <4>1, <4>2
    <3>. QED
      BY <2>1, <2>3, <3>3, <3>4 DEF CopyInv
  <2>. QED
    BY <2>5, <2>6
<1>5. ASSUME PutGrown
      PROVE  CopyInv'
  BY <1>1, <1>5, Idle DEF PutGrown
<1>6. ASSUME NEW k \in Keys, Remove(k)
      PROVE  CopyInv'
  BY <1>1, <1>6 DEF Remove, Callable
<1>7. ASSUME NEW k \in Keys, NEW v \in Values, Put(k, v)
      PROVE  CopyInv'
  BY <1>1, <1>7 DEF Put, Callable
<1>8. ASSUME Clear
      PROVE  CopyInv'
  BY <1>1, <1>8 DEF Clear, Callable
<1>9. CASE UNCHANGED vars \/ WalkStart \/ WalkNext \/ WalkEnd \/ WalkThrow
           \/ (\E k \in Keys : Lookup(k))
  BY <1>2, <1>9 DEF vars, table, WalkStart, WalkNext, WalkEnd, WalkThrow, Lookup
<1>. QED
  BY <1>3, <1>4, <1>5, <1>6, <1>7, <1>8, <1>9 DEF Next

-------------------------------------------------------------------------------
(* Counting.                                                               *)

LEMMA FinitelyHeld ==
  ASSUME NEW n \in Nat, NEW s \in [0 .. n - 1 -> Slots]
  PROVE  /\ Held(s) \subseteq 0 .. n - 1
         /\ IsFiniteSet(Held(s)) /\ Cardinality(Held(s)) \in Nat /\ Cardinality(Held(s)) <= n
<1>1. Held(s) \subseteq 0 .. n - 1
  BY DEF Held
<1>2. IsFiniteSet(0 .. n - 1) /\ Cardinality(0 .. n - 1) = n
  <2>1. 0 \in Int /\ n - 1 \in Int
    OBVIOUS
  <2>2. /\ IsFiniteSet(0 .. n - 1)
        /\ Cardinality(0 .. n - 1) = IF 0 > n - 1 THEN 0 ELSE n - 1 - 0 + 1
    BY <2>1, FS_Interval
  <2>. QED
    BY <2>2
<1>3. IsFiniteSet(Held(s)) /\ Cardinality(Held(s)) <= Cardinality(0 .. n - 1)
  BY <1>1, <1>2, FS_Subset
<1>. QED
  BY <1>1, <1>2, <1>3, FS_CardinalityType

LEMMA CountInit == Init => CountInv
<1>. SUFFICES ASSUME Init PROVE CountInv
  OBVIOUS
<1>1. ~copy.on /\ nent = 0
  BY Idle DEF Init
<1>2. Held(self) = {}
  <2>1. made.size \in Nat
    BY MadeWell DEF Init
  <2>. QED
    BY <2>1, NothingHeld DEF Init
<1>. QED
  BY <1>1, <1>2, FS_EmptySet DEF CountInv, Whole

\* An entry is added, or an existing one is overwritten.
LEMMA StoreCounts ==
  ASSUME Shape, NEW k \in Keys, NEW v \in Values, Store(k, v),
         nent = Cardinality(Held(self))
  PROVE  nent' = Cardinality(Held(self'))
<1>. DEFINE r == [key |-> k, val |-> v]
<1>1. r \in Slots /\ r.key = k
  BY SlotFacts
<1>2. /\ HasRoom(k) /\ self' = [self EXCEPT ![Find(k)] = r]
      /\ nent' = IF Present(k) THEN nent ELSE nent + 1
  BY DEF Store
<1>. HIDE DEF r
<1>3. Held(self') = Held(self) \cup {Find(k)} /\ (Find(k) \in Held(self) <=> Present(k))
  BY <1>1, <1>2, Storing
<1>4. IsFiniteSet(Held(self))
  BY FinitelyHeld DEF Shape
<1>. QED
  BY <1>2, <1>3, <1>4, FS_AddElement

LEMMA CountStep ==
  ASSUME Shape, ConditionThree, CopyInv, CountInv, [Next]_vars
  PROVE  CountInv'
<1>1. ASSUME ~copy.on, ~copy'.on, nent' = Cardinality(Held(self'))
      PROVE  CountInv'
  BY <1>1 DEF CountInv, Whole
<1>2. ASSUME UNCHANGED <<self, old, copy, nent>>
      PROVE  CountInv'
  BY <1>2 DEF CountInv, Whole, Held
<1>3. ASSUME ~copy.on
      PROVE  nent = Cardinality(Held(self))
  BY <1>3 DEF CountInv, Whole
<1>4. ASSUME NEW k \in Keys, Remove(k)
      PROVE  CountInv'
  <2>1. CASE Present(k)
    <3>1. /\ Find(k) \in 0 .. size - 1 /\ self[Find(k)].key = k
      BY <2>1, Finding DEF HasRoom
    <3>2. ~copy.on /\ ~copy'.on /\ self' = [self EXCEPT ![Find(k)] = Freed] /\ nent' = nent - 1
      BY <1>4, <2>1 DEF Remove, Callable
    <3>3. Find(k) \in Held(self) /\ Held(self') = Held(self) \ {Find(k)}
      BY <3>1, <3>2, KeysAssumption DEF Held, Freed, Shape
    <3>4. IsFiniteSet(Held(self))
      BY FinitelyHeld DEF Shape
    <3>. QED
      BY <1>1, <1>3, <3>2, <3>3, <3>4, FS_RemoveElement
  <2>2. CASE ~Present(k)
    BY <1>2, <1>4, <2>2 DEF Remove
  <2>. QED
    BY <2>1, <2>2
<1>5. ASSUME Clear
      PROVE  CountInv'
  <2>1. self' = [j \in 0 .. size - 1 |-> Never] /\ nent' = 0 /\ ~copy.on /\ ~copy'.on
    BY <1>5 DEF Clear, Callable, Shape
  <2>2. Held(self') = {}
    BY <2>1, NothingHeld DEF Shape
  <2>. QED
    BY <1>1, <2>1, <2>2, FS_EmptySet
<1>6. ASSUME NEW k \in Keys, NEW v \in Values, Put(k, v)
      PROVE  CountInv'
  <2>1. ~copy.on /\ ~copy'.on /\ Store(k, v)
    BY <1>6 DEF Put, Callable
  <2>. QED
    BY <1>1, <1>3, <2>1, StoreCounts
<1>7. ASSUME NEW k \in Keys, NEW v \in Values, PutGrow(k, v)
      PROVE  CountInv'
  <2>1. /\ old' = self /\ ~copy.on /\ copy'.on /\ copy'.i = 0 /\ nent' = nent
        /\ self' = [j \in 0 .. NewSize - 1 |-> Never]
    BY <1>7 DEF PutGrow, Callable
  <2>2. Held(self') = {}
    <3>1. NewSize \in Nat
      BY LimitsAfter DEF Shape
    <3>. QED
      BY <2>1, <3>1, NothingHeld
  <2>3. {i \in Held(old') : i < copy'.i} = {}
    BY <2>1 DEF Held, Shape
  <2>4. nent' = Cardinality(Held(old'))
    BY <1>3, <2>1
  <2>. QED
    BY <2>1, <2>2, <2>3, <2>4 DEF CountInv, Whole
<1>8. ASSUME CopySlot
      PROVE  CountInv'
  <2>1. /\ copy.on /\ copy.i \in 0 .. copy.n - 1 /\ copy.n \in Nat
        /\ old \in [0 .. copy.n - 1 -> Slots]
        /\ UNCHANGED <<old, nent>>
    BY <1>8 DEF CopySlot, Shape
  <2>2. copy'.on /\ copy'.i = copy.i + 1
    BY <1>8 DEF CopySlot, Shape, Copies
  <2>. DEFINE before == {i \in Held(old) : i < copy.i}
              after  == {i \in Held(old) : i < copy.i + 1}
  <2>3. Cardinality(Held(self)) = Cardinality(before) /\ nent = Cardinality(Held(old))
    BY <2>1 DEF CountInv, Whole
  <2>4. Held(old) \subseteq 0 .. copy.n - 1 /\ IsFiniteSet(Held(old))
    BY <2>1, FinitelyHeld
  <2>5. Cardinality(Held(self')) = Cardinality(after)
    <3>1. CASE old[copy.i].key = NoKey
      <4>1. self' = self
        BY <1>8, <3>1 DEF CopySlot
      <4>2. copy.i \notin Held(old)
        BY <3>1 DEF Held
      <4>3. after = before
        BY <2>1, <2>4, <4>2
      <4>. QED
        BY <2>3, <4>1, <4>3
    <3>2. CASE old[copy.i].key # NoKey
      <4>. DEFINE o == old[copy.i]
                  f == Find(o.key)
      <4>1. /\ copy.i \in Held(old) /\ o \in Slots /\ o.key \in Keys /\ HasRoom(o.key)
            /\ ~Present(o.key) /\ self' = [self EXCEPT ![f] = o]
        BY <1>8, <3>2, Moving
      <4>2. Held(self') = Held(self) \cup {f} /\ f \notin Held(self)
        BY <4>1, Storing
      <4>. HIDE DEF f, o
      <4>3. Cardinality(Held(self')) = Cardinality(Held(self)) + 1
        <5>1. IsFiniteSet(Held(self))
          BY FinitelyHeld DEF Shape
        <5>. QED
          BY <4>2, <5>1, FS_AddElement
      <4>4. after = before \cup {copy.i} /\ copy.i \notin before
        BY <2>1, <2>4, <4>1
      <4>5. IsFiniteSet(before)
        BY <2>4, FS_Subset
      <4>. HIDE DEF before, after
      <4>6. Cardinality(after) = Cardinality(before) + 1
        BY <4>4, <4>5, FS_AddElement
      <4>. QED
        BY <2>3, <4>3, <4>6
    <3>. QED
      BY <3>1, <3>2
  <2>. QED
    BY <2>1, <2>2, <2>3, <2>5 DEF CountInv, Whole
<1>9. ASSUME PutGrown
      PROVE  CountInv'
  <2>1. /\ copy.on /\ copy.i = copy.n /\ copy.n \in Nat /\ old \in [0 .. copy.n - 1 -> Slots]
        /\ copy.key \in Keys /\ copy.val \in Values /\ Store(copy.key, copy.val) /\ ~copy'.on
    BY <1>9, Idle DEF PutGrown, Shape
  <2>2. {i \in Held(old) : i < copy.i} = Held(old)
    BY <2>1, FinitelyHeld
  <2>3. nent = Cardinality(Held(self))
    BY <2>1, <2>2 DEF CountInv, Whole
  <2>4. nent' = Cardinality(Held(self'))
    BY <2>1, <2>3, StoreCounts
  <2>. QED
    BY <2>1, <2>4 DEF CountInv, Whole
<1>10. CASE UNCHANGED vars \/ WalkStart \/ WalkNext \/ WalkEnd \/ WalkThrow
            \/ (\E k \in Keys : Lookup(k))
  BY <1>2, <1>10 DEF vars, table, WalkStart, WalkNext, WalkEnd, WalkThrow, Lookup
<1>. QED
  BY <1>4, <1>5, <1>6, <1>7, <1>8, <1>9, <1>10 DEF Next

-------------------------------------------------------------------------------
(* Room.                                                                   *)

LEMMA LimitInit == Init => LimitInv
<1>. SUFFICES ASSUME Init PROVE LimitInv
  OBVIOUS
<1>1. made.size \in Nat
  BY MadeWell DEF Init
<1>. QED
  BY <1>1, LimitsAtFirst DEF Init, LimitInv

LEMMA LimitStep ==
  ASSUME Shape, LimitInv, [Next]_vars
  PROVE  LimitInv'
<1>1. ASSUME UNCHANGED <<maxEnt, size>>
      PROVE  LimitInv'
  BY <1>1 DEF LimitInv
<1>2. ASSUME NEW k \in Keys, NEW v \in Values, PutGrow(k, v)
      PROVE  LimitInv'
  <2>1. NewSize \in Nat /\ NewSize >= size + 1
    BY LimitsAfter DEF Shape
  <2>. QED
    BY <1>2, <2>1 DEF PutGrow, LimitInv, Shape
<1>3. ASSUME PutGrown
      PROVE  LimitInv'
  BY <1>3 DEF PutGrown, LimitInv, Shape
<1>4. CASE UNCHANGED vars \/ WalkStart \/ WalkNext \/ WalkEnd \/ WalkThrow \/ Clear \/ CopySlot
  BY <1>1, <1>4 DEF vars, table, WalkStart, WalkNext, WalkEnd, WalkThrow, Clear, CopySlot
<1>5. ASSUME NEW k \in Keys, Lookup(k) \/ Remove(k) \/ (\E v \in Values : Put(k, v))
      PROVE  LimitInv'
  BY <1>1, <1>5 DEF table, Lookup, Remove, Put
<1>. QED
  BY <1>2, <1>3, <1>4, <1>5 DEF Next

\* A body that is not full has a slot for every key: the probe visits them all.
LEMMA RoomIfNotFull ==
  ASSUME Shape, NEW k \in Keys, Cardinality(Held(self)) < size
  PROVE  HasRoom(k)
<1>. DEFINE S == {d \in 0 .. size - 1 : self[Pos(k, d)].key \in {k, NoKey}}
<1>1. PICK j \in 0 .. size - 1 : self[j].key = NoKey
  <2>. SUFFICES ASSUME \A j \in 0 .. size - 1 : self[j].key # NoKey PROVE FALSE
    OBVIOUS
  <2>1. Held(self) = 0 .. size - 1
    BY DEF Held, Shape
  <2>2. 0 \in Int /\ size - 1 \in Int
    BY DEF Shape
  <2>3. Cardinality(0 .. size - 1) = IF 0 > size - 1 THEN 0 ELSE size - 1 - 0 + 1
    BY <2>2, FS_Interval
  <2>. QED
    BY <2>1, <2>3 DEF Shape
<1>2. PICK c \in 0 .. size - 1 : Pos(k, c) = j
  BY Probing DEF Shape
<1>3. c \in S /\ S \in SUBSET Nat
  BY <1>1, <1>2 DEF Shape
<1>4. PICK m \in S : \A e \in S : m <= e
  <2>. HIDE DEF S
  <2>. QED
    BY <1>3, LeastIsLeast
<1>5. ASSUME NEW e \in 0 .. m - 1
      PROVE  self[Pos(k, e)] # Never /\ self[Pos(k, e)].key # k
  <2>1. e \in 0 .. size - 1 /\ ~(m <= e)
    BY <1>3, <1>4 DEF Shape
  <2>2. e \notin S
    BY <1>4, <2>1
  <2>. QED
    BY <2>1, <2>2 DEF Never
<1>6. m \in Reached(k) /\ self[Pos(k, m)].key \in {k, NoKey}
  BY <1>4, <1>5 DEF Reached
<1>. QED
  BY <1>6 DEF HasRoom, Present, Hits, Frees

LEMMA RoomLeft ==
  ASSUME Shape, CountInv, LimitInv
  PROVE  SetHasRoom
<1>1. ASSUME ~copy.on, ~Crowded, NEW k \in Keys
      PROVE  HasRoom(k)
  <2>1. nent = Cardinality(Held(self)) /\ nent \in Nat
    BY <1>1, FinitelyHeld DEF CountInv, Whole, Shape
  <2>2. nent + 1 < maxEnt
    BY <1>1, <2>1 DEF Crowded, Shape
  <2>3. nent < size
    BY <2>1, <2>2 DEF LimitInv, Shape
  <2>. QED
    BY <2>1, <2>3, RoomIfNotFull
<1>2. ASSUME copy.on
      PROVE  \A k \in Keys : HasRoom(k)
  <2>1. /\ copy.n \in 0 .. size - 1 /\ copy.n \in Nat /\ size \in Nat
        /\ old \in [0 .. copy.n - 1 -> Slots]
    BY <1>2 DEF Shape
  <2>2. IsFiniteSet(Held(old)) /\ Cardinality(Held(old)) \in Nat /\ Cardinality(Held(old)) <= copy.n
    BY <2>1, FinitelyHeld
  <2>3. Cardinality({i \in Held(old) : i < copy.i}) <= Cardinality(Held(old))
    BY <2>2, FS_Subset
  <2>4. Cardinality(Held(self)) = Cardinality({i \in Held(old) : i < copy.i})
    BY <1>2 DEF CountInv
  <2>5. Cardinality(Held(self)) \in Nat
    BY FinitelyHeld DEF Shape
  <2>6. Cardinality(Held(self)) < size
    BY <2>1, <2>2, <2>3, <2>4, <2>5
  <2>. QED
    BY <2>6, RoomIfNotFull
<1>3. ASSUME copy.on
      PROVE  /\ copy.key \in Keys
             /\ \A j \in copy.i .. copy.n - 1 : old[j].key # NoKey => old[j].key \in Keys
  <2>1. /\ copy.key \in Keys /\ copy.i \in 0 .. copy.n /\ copy.n \in 0 .. size - 1
        /\ old \in [0 .. copy.n - 1 -> Slots] /\ size \in Nat
    BY <1>3 DEF Shape
  <2>2. \A j \in copy.i .. copy.n - 1 : j \in 0 .. copy.n - 1
    BY <2>1
  <2>. QED
    BY <2>1, <2>2 DEF Slots
<1>. QED
  BY <1>1, <1>2, <1>3 DEF SetHasRoom

-------------------------------------------------------------------------------
(* Walks.                                                                  *)

\* A walk that is not counted any more, or was extended.
LEMMA WalkVoid ==
  ASSUME walk'.on => ~copy'.on, ~walk'.legal
  PROVE  WalkInv'
BY DEF WalkInv

\* Steps that leave every slot's key alone.
LEMMA WalkSame ==
  ASSUME Shape, WalkInv, UNCHANGED <<size, copy, walk>>, walk.on,
         \A j \in 0 .. size - 1 : self'[j].key = self[j].key
  PROVE  WalkInv'
<1>1. Entries' = Entries
  BY DEF Entries
<1>2. walk.i .. walk.n - 1 \subseteq 0 .. size - 1
  BY DEF Shape, Walks
<1>3. \A j \in walk.i .. walk.n - 1 : self'[j].key = self[j].key
  BY <1>2
<1>. QED
  BY <1>1, <1>3 DEF WalkInv

LEMMA WalkRemove ==
  ASSUME Shape, ConditionThree, WalkInv, walk.on, NEW k \in Keys, Remove(k), Present(k),
         Permitted(k)
  PROVE  WalkInv'
<1>. DEFINE f == Find(k)
<1>1. /\ f \in 0 .. size - 1 /\ self[f].key = k
      /\ self' = [self EXCEPT ![f] = Freed] /\ UNCHANGED <<size, copy, walk>> /\ k = walk.cur
      /\ self \in [0 .. size - 1 -> Slots]
  BY Finding DEF HasRoom, Remove, Note, Judged, Permitted, Shape
<1>. HIDE DEF f
<1>2. /\ \A j \in 0 .. size - 1 : self'[j] = IF j = f THEN Freed ELSE self[j]
      /\ Freed.key = NoKey /\ NoKey \notin Keys
  BY <1>1, KeysAssumption DEF Freed
<1>3. Entries' \subseteq Entries
  BY <1>1, <1>2 DEF Entries
<1>4. walk.i .. walk.n - 1 \subseteq 0 .. size - 1
  BY DEF Shape, Walks
<1>5. ASSUME walk.legal, ~walk.grown, NEW x \in walk.start
      PROVE  \/ walk.seen[x] = 0 /\ \E j \in walk.i .. walk.n - 1 : self'[j].key = x
             \/ walk.seen[x] = 1 /\ \A j \in walk.i .. walk.n - 1 : self'[j].key # x
  <2>1. walk.start \subseteq Keys
    BY DEF Shape, Walks
  <2>2. CASE walk.seen[x] = 1
    BY <1>2, <1>4, <1>5, <2>1, <2>2 DEF WalkInv
  <2>3. CASE walk.seen[x] # 1
    <3>1. walk.seen[x] = 0 /\ \E j \in walk.i .. walk.n - 1 : self[j].key = x
      BY <1>5, <2>3 DEF WalkInv
    <3>2. x # k
      BY <1>1, <1>2, <1>5, <2>3 DEF WalkInv
    <3>. QED
      BY <1>1, <1>2, <1>4, <3>1, <3>2
  <2>. QED
    BY <2>2, <2>3
<1>. QED
  BY <1>1, <1>3, <1>5 DEF WalkInv

LEMMA WalkAdvance ==
  ASSUME Shape, ConditionThree, WalkInv, WalkNext
  PROVE  WalkInv'
<1>. DEFINE m == Least(Ahead)
            c == self[m].key
<1>1. m \in Ahead /\ \A j \in Ahead : m <= j
  <2>1. Ahead \in SUBSET Nat /\ Ahead # {}
    <3>1. walk.i \in Nat /\ walk.n \in Nat
      BY DEF Shape, Walks
    <3>2. walk.i .. walk.n - 1 \subseteq Nat
      BY <3>1
    <3>. QED
      BY <3>2 DEF WalkNext, Ahead
  <2>. QED
    BY <2>1, LeastIsLeast
<1>2. m \in 0 .. size - 1 /\ c \in Keys
  BY NextEntry DEF WalkNext
<1>3. /\ walk' = [walk EXCEPT !.i = m + 1, !.cur = c,
                     !.seen[c] = IF walk.legal /\ @ < 2 THEN @ + 1 ELSE @]
      /\ UNCHANGED <<self, size, copy>> /\ ~copy.on /\ walk.on
  BY DEF WalkNext, After, table
<1>4. walk \in Walks /\ walk.seen \in [Keys -> 0 .. 2] /\ walk.start \subseteq Keys
  BY DEF Shape, Walks
<1>. HIDE DEF m
<1>5. /\ walk'.on /\ walk'.legal = walk.legal /\ walk'.grown = walk.grown
      /\ walk'.n = walk.n /\ walk'.start = walk.start /\ walk'.i = m + 1 /\ walk'.cur = c
  <2>. HIDE DEF c
  <2>. QED
    BY <1>3, <1>4 DEF Walks
<1>6. walk'.seen = [walk.seen EXCEPT ![c] = IF walk.legal /\ @ < 2 THEN @ + 1 ELSE @]
  <2>. HIDE DEF c
  <2>. QED
    BY <1>3, <1>4 DEF Walks
<1>. SUFFICES ASSUME walk'.legal, ~walk'.grown
              PROVE  /\ walk'.n = size' /\ Entries' \subseteq walk'.start
                     /\ walk'.cur # NoKey =>
                          walk'.cur \in walk'.start /\ walk'.seen[walk'.cur] = 1
                     /\ \A x \in walk'.start :
                          \/ /\ walk'.seen[x] = 0
                             /\ \E j \in walk'.i .. walk'.n - 1 : self'[j].key = x
                          \/ /\ walk'.seen[x] = 1
                             /\ \A j \in walk'.i .. walk'.n - 1 : self'[j].key # x
  <2>1. ~copy'.on
    BY <1>3
  <2>. QED
    BY <2>1 DEF WalkInv
<1>7. walk.legal /\ ~walk.grown
  BY <1>5
<1>8. /\ walk.n = size /\ Entries \subseteq walk.start
      /\ \A x \in walk.start :
           \/ walk.seen[x] = 0 /\ \E j \in walk.i .. walk.n - 1 : self[j].key = x
           \/ walk.seen[x] = 1 /\ \A j \in walk.i .. walk.n - 1 : self[j].key # x
  BY <1>3, <1>7 DEF WalkInv
<1>9. Entries' = Entries
  BY <1>3 DEF Entries
<1>10. c \in walk.start
  BY <1>2, <1>8 DEF Entries
<1>11. m \in walk.i .. walk.n - 1 /\ walk.i \in Nat /\ walk.n \in Nat
  BY <1>1, <1>4 DEF Ahead, Walks
<1>12. walk.seen[c] = 0
  BY <1>8, <1>10, <1>11
<1>13. walk'.seen[c] = 1 /\ \A x \in walk.start : x # c => walk'.seen[x] = walk.seen[x]
  <2>. HIDE DEF c
  <2>. QED
    BY <1>2, <1>4, <1>6, <1>7, <1>12
<1>14. \A j \in m + 1 .. walk.n - 1 : j \in walk.i .. walk.n - 1 /\ j \in 0 .. size - 1 /\ j # m
  BY <1>8, <1>11
<1>15. ASSUME NEW x \in walk.start
       PROVE  \/ walk'.seen[x] = 0 /\ \E j \in m + 1 .. walk.n - 1 : self[j].key = x
              \/ walk'.seen[x] = 1 /\ \A j \in m + 1 .. walk.n - 1 : self[j].key # x
  <2>1. CASE x = c
    <3>1. ASSUME NEW j \in m + 1 .. walk.n - 1, self[j].key = c
          PROVE  FALSE
      BY <1>2, <1>14, <3>1, OneSlot
    <3>. QED
      BY <1>13, <2>1, <3>1
  <2>2. CASE x # c /\ walk.seen[x] = 1
    BY <1>8, <1>13, <1>14, <2>2
  <2>3. CASE x # c /\ walk.seen[x] # 1
    <3>1. PICK j \in walk.i .. walk.n - 1 : self[j].key = x
      BY <1>8, <2>3
    <3>2. x # NoKey
      BY <1>4, KeysAssumption
    <3>3. j \in Ahead /\ j # m
      BY <2>3, <3>1, <3>2 DEF Ahead
    <3>4. j \in m + 1 .. walk.n - 1
      BY <1>1, <1>11, <3>1, <3>3
    <3>. QED
      BY <1>8, <1>13, <2>3, <3>1, <3>4
  <2>. QED
    BY <2>1, <2>2, <2>3
<1>16. walk'.n = size' /\ Entries' \subseteq walk'.start
  BY <1>3, <1>5, <1>8, <1>9
<1>17. walk'.cur \in walk'.start /\ walk'.seen[walk'.cur] = 1
  BY <1>5, <1>10, <1>13
<1>18. self' = self
  BY <1>3
<1>. HIDE DEF c
<1>. QED
  BY <1>5, <1>15, <1>16, <1>17, <1>18

LEMMA WalkStep ==
  ASSUME Shape, Shape', ConditionThree, WalkInv, [Next]_vars
  PROVE  WalkInv'
<1>1. ASSUME ~walk'.on
      PROVE  WalkInv'
  BY <1>1 DEF WalkInv
<1>2. ASSUME UNCHANGED <<self, size, copy, walk>>
      PROVE  WalkInv'
  BY <1>2 DEF WalkInv, Entries
<1>3. ASSUME walk.on, ~copy'.on, walk' = Judged(FALSE)
      PROVE  WalkInv'
  <2>1. ~walk'.legal
    BY <1>3 DEF Judged, Shape, Walks
  <2>. QED
    BY <1>3, <2>1, WalkVoid
<1>4. ASSUME NEW b \in BOOLEAN, walk' = Judged(b)
      PROVE  walk'.on = walk.on
  BY <1>4, Judging DEF Shape
<1>5. ASSUME NEW k \in Keys, Remove(k)
      PROVE  WalkInv'
  <2>1. CASE ~Present(k)
    BY <1>2, <1>5, <2>1 DEF Remove
  <2>2. CASE Present(k)
    <3>1. walk' = Judged(Permitted(k)) /\ Permitted(k) \in BOOLEAN /\ ~copy'.on
      BY <1>5, <2>2 DEF Remove, Note, Permitted, Callable
    <3>2. CASE ~walk.on
      BY <1>1, <1>4, <3>1, <3>2
    <3>3. CASE walk.on /\ Permitted(k)
      BY <1>5, <2>2, <3>3, WalkRemove
    <3>4. CASE walk.on /\ ~Permitted(k)
      BY <1>3, <3>1, <3>4
    <3>. QED
      BY <3>1, <3>2, <3>3, <3>4
  <2>. QED
    BY <2>1, <2>2
<1>6. ASSUME Clear
      PROVE  WalkInv'
  <2>1. walk' = Judged(~walk.on) /\ ~copy'.on /\ (~walk.on) \in BOOLEAN
    BY <1>6 DEF Clear, Note, Callable
  <2>2. CASE ~walk.on
    BY <1>1, <1>4, <2>1, <2>2
  <2>3. CASE walk.on
    BY <1>3, <2>1, <2>3
  <2>. QED
    BY <2>2, <2>3
<1>7. ASSUME NEW k \in Keys, NEW v \in Values, Put(k, v)
      PROVE  WalkInv'
  <2>1. /\ walk' = Judged(Permitted(k)) /\ Permitted(k) \in BOOLEAN /\ ~copy'.on
        /\ Store(k, v) /\ UNCHANGED <<size, copy>>
    BY <1>7 DEF Put, Note, Permitted, Callable
  <2>2. CASE ~walk.on
    BY <1>1, <1>4, <2>1, <2>2
  <2>3. CASE walk.on /\ Permitted(k)
    <3>1. Present(k) /\ walk' = walk
      BY <2>1, <2>3 DEF Permitted, Judged
    <3>2. Find(k) \in 0 .. size - 1 /\ self[Find(k)].key = k
      BY <3>1, Finding DEF HasRoom
    <3>3. self' = [self EXCEPT ![Find(k)] = [key |-> k, val |-> v]]
      BY <2>1 DEF Store
    <3>4. \A j \in 0 .. size - 1 : self'[j].key = self[j].key
      BY <3>2, <3>3 DEF Shape
    <3>. QED
      BY <2>1, <2>3, <3>1, <3>4, WalkSame
  <2>4. CASE walk.on /\ ~Permitted(k)
    BY <1>3, <2>1, <2>4
  <2>. QED
    BY <2>1, <2>2, <2>3, <2>4
<1>8. ASSUME NEW k \in Keys, NEW v \in Values, PutGrow(k, v)
      PROVE  WalkInv'
  <2>1. walk' = [Judged(Permitted(k)) EXCEPT !.grown = walk.on] /\ Permitted(k) \in BOOLEAN
    BY <1>8 DEF PutGrow, Permitted
  <2>2. Judged(Permitted(k)) \in Walks /\ Judged(Permitted(k)).on = walk.on
    BY <2>1, Judging DEF Shape
  <2>3. walk'.on = walk.on /\ walk'.grown = walk.on
    BY <2>1, <2>2 DEF Walks
  <2>4. walk.on \in BOOLEAN
    BY DEF Shape, Walks
  <2>. QED
    BY <2>3, <2>4 DEF WalkInv
<1>9. ASSUME CopySlot
      PROVE  WalkInv'
  <2>1. walk' = walk /\ copy.on
    BY <1>9 DEF CopySlot
  <2>. QED
    BY <2>1 DEF WalkInv
<1>10. ASSUME PutGrown
       PROVE  WalkInv'
  <2>1. walk' = walk /\ copy.on /\ ~copy'.on
    BY <1>10, Idle DEF PutGrown
  <2>. QED
    BY <2>1 DEF WalkInv
<1>11. ASSUME WalkStart
       PROVE  WalkInv'
  <2>. DEFINE zero == [k \in Keys |-> 0]
              start == Entries
  <2>1. /\ ~copy'.on /\ UNCHANGED <<self, size>>
        /\ walk' = [on |-> TRUE, n |-> size, i |-> 0, cur |-> NoKey, seen |-> zero,
                    start |-> start, legal |-> TRUE, grown |-> FALSE]
    BY <1>11 DEF WalkStart, Callable, NoWalk, table
  <2>2. Entries' = start
    BY <2>1 DEF Entries
  <2>3. ASSUME NEW x \in start
        PROVE  zero[x] = 0 /\ \E j \in 0 .. size - 1 : self'[j].key = x
    BY <2>1 DEF Entries
  <2>. HIDE DEF zero, start
  <2>. QED
    BY <2>1, <2>2, <2>3 DEF WalkInv
<1>12. ASSUME WalkNext
       PROVE  WalkInv'
  BY <1>12, WalkAdvance
<1>13. ASSUME WalkEnd \/ WalkThrow
       PROVE  WalkInv'
  BY <1>1, <1>13, Idle DEF WalkEnd, WalkThrow
<1>14. CASE UNCHANGED vars \/ (\E k \in Keys : Lookup(k))
  BY <1>2, <1>14 DEF vars, table, Lookup
<1>. QED
  BY <1>5, <1>6, <1>7, <1>8, <1>9, <1>10, <1>11, <1>12, <1>13, <1>14 DEF Next

-------------------------------------------------------------------------------
(* The invariant.                                                          *)

\* What every action preserves, from which the other invariants follow.
LEMMA TableInvHolds == Spec => []TableInv
<1>1. Init => TableInv
  <2>. SUFFICES ASSUME Init PROVE ConditionThree /\ CopyInv /\ WalkInv
    BY ShapeInit, CountInit, LimitInit DEF TableInv
  <2>1. Shape /\ self = [j \in 0 .. size - 1 |-> Never] /\ ~copy.on /\ ~walk.on
    BY ShapeInit, Idle DEF Init
  <2>2. \A k \in Keys, d \in 0 .. size - 1 : self[Pos(k, d)].key # k
    BY <2>1, Probing, KeysAssumption DEF Never, Shape
  <2>. QED
    BY <2>1, <2>2 DEF ConditionThree, CopyInv, WalkInv
<1>2. TableInv /\ [Next]_vars => TableInv'
  BY ShapeStep, ThreeStep, CopyStep, CountStep, LimitStep, WalkStep DEF TableInv
<1>. QED
  BY <1>1, <1>2, PTL DEF Spec

\* Types, and the agreement of the bodies and limits with ht_size: an extension always
\* makes the table larger, sets a limit that leaves a slot free, and nent is never
\* negative, whatever rehash size and threshold the table was made with.
THEOREM TypesHold == Spec => []TypeOK
<1>1. TableInv => TypeOK
  <2>. SUFFICES ASSUME TableInv PROVE nent \in Nat
    BY DEF TableInv, TypeOK
  <2>1. Shape /\ nent = Cardinality(Held(Whole))
    BY DEF TableInv, CountInv
  <2>2. CASE copy.on
    <3>1. copy.n \in Nat /\ old \in [0 .. copy.n - 1 -> Slots]
      BY <2>1, <2>2 DEF Shape
    <3>. QED
      BY <2>1, <2>2, <3>1, FinitelyHeld DEF Whole
  <2>3. CASE ~copy.on
    <3>1. size \in Nat /\ self \in [0 .. size - 1 -> Slots]
      BY <2>1 DEF Shape
    <3>. QED
      BY <2>1, <2>3, <3>1, FinitelyHeld DEF Whole
  <2>. QED
    BY <2>2, <2>3
<1>. QED
  BY <1>1, TableInvHolds, PTL

\* hash.d:386, "Condition 3": gethash finds a key's entry before it meets a slot that was
\* never used, after any history of sets, removals, clearings and extensions, for any
\* hash function.
THEOREM ConditionThreeHolds == Spec => []ConditionThree
<1>1. TableInv => ConditionThree
  BY DEF TableInv
<1>. QED
  BY <1>1, TableInvHolds, PTL

\* HASH-TABLE-COUNT is the number of entries: stores over an entry, reuse of removed slots
\* and extensions never make nent drift from the slots.
THEOREM CountHolds == Spec => []CountExact
<1>1. TableInv => CountExact
  BY DEF TableInv, CountInv, CountExact, Whole
<1>. QED
  BY <1>1, TableInvHolds, PTL

\* sethash, and every turn of the copying loop of extend_hashtable, is given a slot:
\* no entry is ever dropped for want of one.
THEOREM RoomHolds == Spec => []SetHasRoom
<1>1. TableInv => SetHasRoom
  BY RoomLeft DEF TableInv
<1>. QED
  BY <1>1, TableInvHolds, PTL

\* maphash.lisp: a walk whose function only changed or removed the entries it was called
\* with has called it exactly once for each entry there was when it began, unless the
\* table was extended in the meantime.
THEOREM WalkHolds == Spec => WalkVisitsAll
<1>1. TableInv /\ Ending /\ walk.legal /\ ~walk.grown => Complete
  <2>. SUFFICES ASSUME TableInv, Ending, walk.legal, ~walk.grown, NEW k \in walk.start
                PROVE  walk.seen[k] = 1
    BY DEF Complete
  <2>1. k # NoKey
    BY KeysAssumption DEF TableInv, Shape, Walks
  <2>2. \A j \in walk.i .. walk.n - 1 : self[j].key # k
    BY <2>1 DEF Ending, Ahead
  <2>. QED
    BY <2>2 DEF TableInv, WalkInv, Ending
<1>2. TableInv /\ [Next]_vars => [Ending /\ walk.legal /\ ~walk.grown => Complete]_vars
  BY <1>1
<1>. QED
  BY <1>2, TableInvHolds, PTL DEF Spec, WalkVisitsAll

-------------------------------------------------------------------------------
(* The map a table stands for.                                             *)

\* A body in which a key has one slot at most maps each key to the value beside it.
LEMMA Reading ==
  ASSUME NEW n \in Nat, NEW s \in [0 .. n - 1 -> Slots], Unique(s)
  PROVE  /\ \A k : k \in DOMAIN AsMap(s) <=> \E j \in Held(s) : s[j].key = k
         /\ \A j \in Held(s) : AsMap(s)[s[j].key] = s[j].val
<1>. DEFINE at(k) == {j \in DOMAIN s : s[j].key = k}
            D     == {x \in Keys : at(x) # {}}
<1>1. AsMap(s) = [k \in D |-> s[CHOOSE j \in at(k) : TRUE].val]
  BY DEF AsMap
<1>2. \A k : k \in D <=> \E j \in Held(s) : s[j].key = k
  BY KeysAssumption DEF Held, Slots
<1>3. ASSUME NEW j \in Held(s)
      PROVE  AsMap(s)[s[j].key] = s[j].val
  <2>. DEFINE c == CHOOSE i \in at(s[j].key) : TRUE
  <2>1. j \in at(s[j].key)
    BY DEF Held
  <2>2. c \in at(s[j].key)
    BY <2>1
  <2>3. c \in Held(s) /\ s[c].key = s[j].key
    BY <2>2 DEF Held
  <2>4. c = j
    BY <2>3 DEF Unique
  <2>5. s[j].key \in D
    BY <1>2
  <2>. QED
    BY <1>1, <2>4, <2>5
<1>. QED
  BY <1>1, <1>2, <1>3

LEMMA MapIsFunction ==
  ASSUME NEW s
  PROVE  AsMap(s) = [k \in DOMAIN AsMap(s) |-> AsMap(s)[k]]
BY DEF AsMap

\* Writing a slot that holds the key already, or nothing.
LEMMA MapAfterWrite ==
  ASSUME NEW n \in Nat, NEW s \in [0 .. n - 1 -> Slots], Unique(s),
         NEW f \in 0 .. n - 1, NEW r \in Slots, r.key # NoKey, s[f].key \in {NoKey, r.key},
         Unique([s EXCEPT ![f] = r])
  PROVE  AsMap([s EXCEPT ![f] = r]) = [x \in DOMAIN AsMap(s) \cup {r.key} |->
                                         IF x = r.key THEN r.val ELSE AsMap(s)[x]]
<1>. DEFINE t == [s EXCEPT ![f] = r]
<1>1. t \in [0 .. n - 1 -> Slots] /\ \A j \in 0 .. n - 1 : t[j] = IF j = f THEN r ELSE s[j]
  OBVIOUS
<1>0. Unique(t)
  OBVIOUS
<1>. HIDE DEF t
<1>2. Held(t) = Held(s) \cup {f} /\ Held(s) \subseteq 0 .. n - 1
  BY <1>1 DEF Held
<1>3. /\ \A k : k \in DOMAIN AsMap(s) <=> \E j \in Held(s) : s[j].key = k
      /\ \A j \in Held(s) : AsMap(s)[s[j].key] = s[j].val
  BY Reading
<1>4. /\ \A k : k \in DOMAIN AsMap(t) <=> \E j \in Held(t) : t[j].key = k
      /\ \A j \in Held(t) : AsMap(t)[t[j].key] = t[j].val
  BY <1>0, <1>1, Reading
<1>5. \A j \in Held(s) : s[j].key # r.key => j # f /\ t[j] = s[j]
  BY <1>1, <1>2 DEF Held
<1>6. DOMAIN AsMap(t) = DOMAIN AsMap(s) \cup {r.key}
  <2>1. ASSUME NEW k
        PROVE  k \in DOMAIN AsMap(t) <=> k = r.key \/ k \in DOMAIN AsMap(s)
    <3>1. CASE k = r.key
      BY <1>1, <1>2, <1>4, <3>1
    <3>2. CASE k # r.key
      <4>1. ASSUME k \in DOMAIN AsMap(t)
            PROVE  k \in DOMAIN AsMap(s)
        <5>1. PICK j \in Held(t) : t[j].key = k
          BY <1>4, <4>1
        <5>2. j # f /\ j \in Held(s) /\ t[j] = s[j]
          BY <1>1, <1>2, <3>2, <5>1
        <5>. QED
          BY <1>3, <5>1, <5>2
      <4>2. ASSUME k \in DOMAIN AsMap(s)
            PROVE  k \in DOMAIN AsMap(t)
        <5>1. PICK j \in Held(s) : s[j].key = k
          BY <1>3, <4>2
        <5>. QED
          BY <1>2, <1>4, <1>5, <3>2, <5>1
      <4>. QED
        BY <3>2, <4>1, <4>2
    <3>. QED
      BY <3>1, <3>2
  <2>. QED
    BY <2>1
<1>7. AsMap(t)[r.key] = r.val
  BY <1>1, <1>2, <1>4
<1>8. ASSUME NEW x \in DOMAIN AsMap(s), x # r.key
      PROVE  AsMap(t)[x] = AsMap(s)[x]
  <2>1. PICK j \in Held(s) : s[j].key = x
    BY <1>3
  <2>2. j \in Held(t) /\ t[j] = s[j]
    BY <1>2, <1>5, <1>8, <2>1
  <2>3. AsMap(s)[x] = s[j].val
    BY <1>3, <2>1
  <2>4. AsMap(t)[t[j].key] = t[j].val
    BY <1>4, <2>2
  <2>. QED
    BY <2>1, <2>2, <2>3, <2>4
<1>9. AsMap(t) = [k \in DOMAIN AsMap(t) |-> AsMap(t)[k]]
  BY MapIsFunction
<1>10. AsMap(t) = [x \in DOMAIN AsMap(s) \cup {r.key} |-> IF x = r.key THEN r.val ELSE AsMap(s)[x]]
  BY <1>6, <1>7, <1>8, <1>9, Zenon
<1>. QED
  BY <1>10 DEF t

\* Freeing a slot that holds an entry.
LEMMA MapAfterRemoval ==
  ASSUME NEW n \in Nat, NEW s \in [0 .. n - 1 -> Slots], Unique(s), NEW f \in Held(s)
  PROVE  AsMap([s EXCEPT ![f] = Freed]) = [x \in DOMAIN AsMap(s) \ {s[f].key} |-> AsMap(s)[x]]
<1>. DEFINE t == [s EXCEPT ![f] = Freed]
<1>0. t \in [0 .. n - 1 -> Slots]
  BY SlotFacts
<1>1. /\ t \in [0 .. n - 1 -> Slots] /\ f \in 0 .. n - 1
      /\ \A j \in 0 .. n - 1 : t[j] = IF j = f THEN Freed ELSE s[j]
  BY SlotFacts DEF Held
<1>. HIDE DEF t
<1>2. Held(t) = Held(s) \ {f} /\ \A j \in Held(t) : t[j] = s[j]
  BY <1>1 DEF Held, Freed
<1>3. Unique(t)
  BY <1>2 DEF Unique
<1>4. /\ \A k : k \in DOMAIN AsMap(s) <=> \E j \in Held(s) : s[j].key = k
      /\ \A j \in Held(s) : AsMap(s)[s[j].key] = s[j].val
  BY Reading
<1>5. /\ \A k : k \in DOMAIN AsMap(t) <=> \E j \in Held(t) : t[j].key = k
      /\ \A j \in Held(t) : AsMap(t)[t[j].key] = t[j].val
  BY <1>0, <1>3, Reading
<1>6. \A j \in Held(s) : s[j].key = s[f].key => j = f
  BY DEF Unique
<1>7. DOMAIN AsMap(t) = DOMAIN AsMap(s) \ {s[f].key}
  <2>1. ASSUME NEW k \in DOMAIN AsMap(t)
        PROVE  k \in DOMAIN AsMap(s) /\ k # s[f].key
    <3>1. PICK j \in Held(t) : t[j].key = k
      BY <1>5
    <3>2. j \in Held(s) /\ j # f /\ s[j].key = k
      BY <1>2, <3>1
    <3>. QED
      BY <1>4, <1>6, <3>2
  <2>2. ASSUME NEW k \in DOMAIN AsMap(s), k # s[f].key
        PROVE  k \in DOMAIN AsMap(t)
    <3>1. PICK j \in Held(s) : s[j].key = k
      BY <1>4
    <3>2. j \in Held(t) /\ t[j].key = k
      BY <1>2, <2>2, <3>1
    <3>. QED
      BY <1>5, <3>2
  <2>. QED
    BY <2>1, <2>2
<1>8. ASSUME NEW x \in DOMAIN AsMap(t)
      PROVE  AsMap(t)[x] = AsMap(s)[x]
  <2>1. PICK j \in Held(t) : t[j].key = x
    BY <1>5
  <2>2. AsMap(t)[x] = t[j].val
    BY <1>5, <2>1
  <2>3. j \in Held(s) /\ t[j] = s[j]
    BY <1>2
  <2>4. AsMap(s)[s[j].key] = s[j].val
    BY <1>4, <2>3
  <2>. QED
    BY <2>1, <2>2, <2>3, <2>4
<1>9. AsMap(t) = [k \in DOMAIN AsMap(t) |-> AsMap(t)[k]]
  BY MapIsFunction
<1>10. AsMap(t) = [x \in DOMAIN AsMap(s) \ {s[f].key} |-> AsMap(s)[x]]
  BY <1>7, <1>8, <1>9, Zenon
<1>. QED
  BY <1>10 DEF t

LEMMA MapOfNothing ==
  ASSUME NEW n \in Nat
  PROVE  AsMap([j \in 0 .. n - 1 |-> Never]) = [k \in {} |-> NoValue]
<1>. DEFINE s == [j \in 0 .. n - 1 |-> Never]
<1>1. Held(s) = {} /\ s \in [0 .. n - 1 -> Slots]
  BY NothingHeld, SlotFacts
<1>2. Unique(s)
  BY <1>1 DEF Unique
<1>. HIDE DEF s
<1>3. \A k : k \notin DOMAIN AsMap(s)
  BY <1>1, <1>2, Reading
<1>4. AsMap(s) = [k \in DOMAIN AsMap(s) |-> AsMap(s)[k]]
  BY MapIsFunction
<1>5. AsMap(s) = [k \in {} |-> NoValue]
  BY <1>3, <1>4
<1>. QED
  BY <1>5 DEF s

\* At the end of the copy the two bodies hold the same entries.
LEMMA MapOfCopy ==
  ASSUME Shape, ConditionThree, CopyInv, copy.on, copy.i = copy.n
  PROVE  AsMap(old) = AsMap(self)
<1>1. /\ copy.n \in Nat /\ old \in [0 .. copy.n - 1 -> Slots] /\ Unique(old)
      /\ size \in Nat /\ self \in [0 .. size - 1 -> Slots] /\ Unique(self)
  BY UniqueSelf DEF Shape, CopyInv
<1>2. /\ \A k : k \in DOMAIN AsMap(old) <=> \E i \in Held(old) : old[i].key = k
      /\ \A i \in Held(old) : AsMap(old)[old[i].key] = old[i].val
  BY <1>1, Reading
<1>3. /\ \A k : k \in DOMAIN AsMap(self) <=> \E j \in Held(self) : self[j].key = k
      /\ \A j \in Held(self) : AsMap(self)[self[j].key] = self[j].val
  BY <1>1, Reading
<1>4. \A j \in Held(self) : \E i \in Held(old) : old[i] = self[j]
  BY <1>1 DEF CopyInv, Held
<1>5. ASSUME NEW i \in Held(old)
      PROVE  \E j \in Held(self) : self[j] = old[i]
  <2>1. i < copy.i
    BY <1>1 DEF Held
  <2>2. PICK j \in 0 .. size - 1 : self[j] = old[i]
    BY <2>1 DEF CopyInv
  <2>3. j \in Held(self)
    BY <1>1, <2>2 DEF Held
  <2>. QED
    BY <2>2, <2>3
<1>6. ASSUME NEW k
      PROVE  k \in DOMAIN AsMap(old) <=> k \in DOMAIN AsMap(self)
  BY <1>2, <1>3, <1>4, <1>5
<1>7. ASSUME NEW k \in DOMAIN AsMap(old)
      PROVE  AsMap(old)[k] = AsMap(self)[k]
  <2>1. PICK i \in Held(old) : old[i].key = k
    BY <1>2
  <2>2. PICK j \in Held(self) : self[j] = old[i]
    BY <1>5
  <2>. QED
    BY <1>2, <1>3, <2>1, <2>2
<1>8. /\ AsMap(old) = [k \in DOMAIN AsMap(old) |-> AsMap(old)[k]]
      /\ AsMap(self) = [k \in DOMAIN AsMap(self) |-> AsMap(self)[k]]
  BY MapIsFunction
<1>. QED
  BY <1>6, <1>7, <1>8

-------------------------------------------------------------------------------
(* A table is a map.                                                       *)

LEMMA MapInit == Init => M!Init
<1>. SUFFICES ASSUME Init PROVE M!Init
  OBVIOUS
<1>1. ~copy.on /\ self = [j \in 0 .. made.size - 1 |-> Never] /\ reply = NoValue
  BY Idle DEF Init
<1>2. made.size \in Nat
  BY MadeWell DEF Init
<1>3. Contents = [k \in {} |-> NoValue]
  BY <1>1, <1>2, MapOfNothing DEF Contents, Whole
<1>. QED
  BY <1>1, <1>3 DEF M!Init

\* The keys of the map are those gethash finds.
LEMMA MapKeys ==
  ASSUME Shape, ConditionThree, ~copy.on, NEW k \in Keys
  PROVE  k \in DOMAIN Contents <=> Present(k)
<1>1. Unique(self) /\ self \in [0 .. size - 1 -> Slots] /\ size \in Nat /\ Contents = AsMap(self)
  BY UniqueSelf DEF Shape, Contents, Whole
<1>2. k \in DOMAIN AsMap(self) <=> \E j \in Held(self) : self[j].key = k
  BY <1>1, Reading
<1>3. (\E j \in Held(self) : self[j].key = k) <=> \E j \in 0 .. size - 1 : self[j].key = k
  BY <1>1, KeysAssumption DEF Held
<1>. QED
  BY <1>1, <1>2, <1>3, PresentIfHeld

\* An entry that is in a slot is in the map.
LEMMA MapValue ==
  ASSUME Shape, ConditionThree, ~copy.on, NEW j \in 0 .. size - 1, self[j].key \in Keys
  PROVE  self[j].key \in DOMAIN Contents /\ Contents[self[j].key] = self[j].val
<1>1. Unique(self) /\ self \in [0 .. size - 1 -> Slots] /\ size \in Nat /\ Contents = AsMap(self)
  BY UniqueSelf DEF Shape, Contents, Whole
<1>2. j \in Held(self)
  BY <1>1, KeysAssumption DEF Held
<1>. QED
  BY <1>1, <1>2, Reading

\* Storing an entry is a Put of the map that the body stood for.
LEMMA MapPut ==
  ASSUME Shape, Shape', ConditionThree, ConditionThree',
         NEW k \in Keys, NEW v \in Values, Store(k, v), ~copy'.on, UNCHANGED size,
         Contents = AsMap(self)
  PROVE  M!Next
<1>. DEFINE r == [key |-> k, val |-> v]
            f == Find(k)
<1>1. r \in Slots /\ r.key = k /\ r.val = v /\ k # NoKey
  BY SlotFacts, KeysAssumption
<1>2. HasRoom(k) /\ self' = [self EXCEPT ![f] = r] /\ reply' = v
  BY DEF Store
<1>3. f \in 0 .. size - 1 /\ self[f].key \in {NoKey, k}
  BY <1>2, Finding
<1>4. Unique(self) /\ self \in [0 .. size - 1 -> Slots] /\ size \in Nat
  BY UniqueSelf DEF Shape
<1>5. Unique(self')
  BY UniqueNext
<1>. HIDE DEF r, f
<1>6. AsMap(self') = [x \in DOMAIN AsMap(self) \cup {r.key} |->
                        IF x = r.key THEN r.val ELSE AsMap(self)[x]]
  <2>1. self[f].key \in {NoKey, r.key} /\ r.key # NoKey
    BY <1>1, <1>3
  <2>2. Unique([self EXCEPT ![f] = r])
    BY <1>2, <1>5
  <2>3. AsMap([self EXCEPT ![f] = r]) = [x \in DOMAIN AsMap(self) \cup {r.key} |->
                                            IF x = r.key THEN r.val ELSE AsMap(self)[x]]
    BY <1>1, <1>3, <1>4, <2>1, <2>2, MapAfterWrite
  <2>. QED
    BY <1>2, <2>3
<1>7. Contents' = AsMap(self')
  BY DEF Contents, Whole
<1>8. Contents' = [x \in DOMAIN Contents \cup {k} |-> IF x = k THEN v ELSE Contents[x]]
  BY <1>1, <1>6, <1>7
<1>9. M!Put(k, v)
  BY <1>2, <1>8 DEF M!Put
<1>. QED
  BY <1>9 DEF M!Next

\* Every step of a table is a step of the map or leaves the map and the reply alone.
LEMMA MapStep ==
  ASSUME TableInv, TableInv', [Next]_vars
  PROVE  [M!Next]_<<Contents, reply>>
<1>1. Shape /\ Shape' /\ ConditionThree /\ ConditionThree' /\ CopyInv
  BY DEF TableInv
<1>2. ASSUME UNCHANGED <<self, old, copy>>
      PROVE  Contents' = Contents
  BY <1>2 DEF Contents, Whole
<1>3. ASSUME NEW k \in Keys, ~copy.on, ~Present(k), reply' = Absent(k), Contents' = Contents
      PROVE  M!Next
  <2>1. k \notin DOMAIN Contents
    BY <1>1, <1>3, MapKeys
  <2>2. M!Miss(k)
    BY <1>3, <2>1 DEF M!Miss, Absent
  <2>. QED
    BY <2>2 DEF M!Next
<1>4. ASSUME NEW j \in 0 .. size - 1, self[j].key \in Keys, ~copy.on, reply' = self[j].val,
             Contents' = Contents
      PROVE  M!Next
  <2>1. self[j].key \in DOMAIN Contents /\ Contents[self[j].key] = self[j].val
    BY <1>1, <1>4, MapValue
  <2>2. M!Get(self[j].key)
    BY <1>4, <2>1 DEF M!Get
  <2>. QED
    BY <1>4, <2>2 DEF M!Next
<1>5. ASSUME NEW k \in Keys, Present(k)
      PROVE  Find(k) \in 0 .. size - 1 /\ self[Find(k)].key = k
  BY <1>1, <1>5, Finding DEF HasRoom
<1>6. ASSUME NEW k \in Keys, Lookup(k)
      PROVE  M!Next
  <2>1. ~copy.on /\ Contents' = Contents
    BY <1>2, <1>6 DEF Lookup, Callable, table
  <2>2. CASE Present(k)
    <3>1. reply' = self[Find(k)].val
      BY <1>6, <2>2 DEF Lookup
    <3>. QED
      BY <1>4, <1>5, <2>1, <2>2, <3>1
  <2>3. CASE ~Present(k)
    BY <1>3, <1>6, <2>1, <2>3 DEF Lookup
  <2>. QED
    BY <2>2, <2>3
<1>7. ASSUME NEW k \in Keys, Remove(k)
      PROVE  M!Next
  <2>1. ~copy.on /\ ~copy'.on
    BY <1>7 DEF Remove, Callable
  <2>2. CASE Present(k)
    <3>1. Find(k) \in 0 .. size - 1 /\ self[Find(k)].key = k
      BY <1>5, <2>2
    <3>2. Find(k) \in Held(self)
      BY <1>1, <3>1, KeysAssumption DEF Held, Shape
    <3>3. self' = [self EXCEPT ![Find(k)] = Freed] /\ reply' = Yes
      BY <1>7, <2>2 DEF Remove
    <3>4. Unique(self) /\ self \in [0 .. size - 1 -> Slots] /\ size \in Nat
      BY <1>1, UniqueSelf DEF Shape
    <3>5. AsMap([self EXCEPT ![Find(k)] = Freed])
            = [x \in DOMAIN AsMap(self) \ {self[Find(k)].key} |-> AsMap(self)[x]]
      BY <3>2, <3>4, MapAfterRemoval
    <3>6. Contents' = AsMap(self') /\ Contents = AsMap(self)
      BY <2>1 DEF Contents, Whole
    <3>7. k \in DOMAIN Contents
      BY <1>1, <2>1, <2>2, MapKeys
    <3>8. M!Remove(k)
      BY <3>1, <3>3, <3>5, <3>6, <3>7 DEF M!Remove
    <3>. QED
      BY <3>8 DEF M!Next
  <2>3. CASE ~Present(k)
    <3>1. Contents' = Contents /\ reply' = Absent(k)
      BY <1>2, <1>7, <2>3 DEF Remove
    <3>. QED
      BY <1>3, <2>1, <2>3, <3>1
  <2>. QED
    BY <2>2, <2>3
<1>8. ASSUME Clear
      PROVE  M!Next
  <2>1. /\ ~copy'.on /\ self' = [j \in 0 .. size - 1 |-> Never] /\ size \in Nat
        /\ reply' = reply
    BY <1>1, <1>8 DEF Clear, Callable, Shape
  <2>2. Contents' = [k \in {} |-> NoValue]
    <3>1. Contents' = AsMap(self')
      BY <2>1 DEF Contents, Whole
    <3>. QED
      BY <2>1, <3>1, MapOfNothing
  <2>3. M!Clear
    BY <2>1, <2>2 DEF M!Clear
  <2>. QED
    BY <2>3 DEF M!Next
<1>9. ASSUME NEW k \in Keys, NEW v \in Values, Put(k, v)
      PROVE  M!Next
  <2>1. Store(k, v) /\ ~copy.on /\ ~copy'.on /\ UNCHANGED size
    BY <1>9 DEF Put, Callable
  <2>2. Contents = AsMap(self)
    BY <2>1 DEF Contents, Whole
  <2>. QED
    BY <1>1, <2>1, <2>2, MapPut
<1>10. ASSUME NEW k \in Keys, NEW v \in Values, PutGrow(k, v)
       PROVE  UNCHANGED <<Contents, reply>>
  <2>1. ~copy.on /\ copy'.on /\ old' = self /\ reply' = reply
    BY <1>10 DEF PutGrow, Callable
  <2>. QED
    BY <2>1 DEF Contents, Whole
<1>11. ASSUME CopySlot
       PROVE  UNCHANGED <<Contents, reply>>
  <2>1. copy.on /\ copy'.on /\ old' = old /\ reply' = reply
    BY <1>1, <1>11 DEF CopySlot, Shape, Copies
  <2>. QED
    BY <2>1 DEF Contents, Whole
<1>12. ASSUME PutGrown
       PROVE  M!Next
  <2>1. /\ copy.on /\ copy.i = copy.n /\ copy.n \in Nat /\ old \in [0 .. copy.n - 1 -> Slots]
        /\ copy.key \in Keys /\ copy.val \in Values /\ Store(copy.key, copy.val)
        /\ ~copy'.on /\ UNCHANGED size
    BY <1>1, <1>12, Idle DEF PutGrown, Shape
  <2>2. Contents = AsMap(self)
    BY <1>1, <2>1, MapOfCopy DEF Contents, Whole
  <2>. QED
    BY <1>1, <2>1, <2>2, MapPut
<1>13. ASSUME WalkNext
       PROVE  M!Next
  <2>. DEFINE j == Least(Ahead)
  <2>1. ~copy.on /\ reply' = self[j].val /\ UNCHANGED <<self, old, copy>>
    BY <1>13 DEF WalkNext, table
  <2>2. j \in 0 .. size - 1 /\ self[j].key \in Keys
    BY <1>1, <1>13, NextEntry DEF WalkNext
  <2>. HIDE DEF j
  <2>. QED
    BY <1>2, <1>4, <2>1, <2>2
<1>14. CASE UNCHANGED vars \/ WalkStart \/ WalkEnd \/ WalkThrow
  BY <1>2, <1>14 DEF vars, table, WalkStart, WalkEnd, WalkThrow
<1>. QED
  BY <1>6, <1>7, <1>8, <1>9, <1>10, <1>11, <1>12, <1>13, <1>14 DEF Next

\* A table answers as a finite map does, whatever the keys, the hash function, the sizes
\* and the thresholds: no call, copy or walk loses, invents or mixes up an entry.
THEOREM TableIsMap == Spec => ActsAsMap
<1>1. TableInv /\ TableInv' /\ [Next]_vars => [M!Next]_<<Contents, reply>>
  BY MapStep
<1>. QED
  BY <1>1, MapInit, TableInvHolds, PTL DEF Spec, ActsAsMap, M!Spec
===============================================================================
