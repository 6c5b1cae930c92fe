---------------------------- MODULE CollectorProofs ----------------------------
(***************************************************************************)
(* Proofs about Collector: the write barrier, that no pointer dangles, and *)
(* that a heap collected with and without SGC implements Heap.             *)
(***************************************************************************)
EXTENDS Collector, TLAPS

\* The inductive invariant.  A collection of SGC is right because of the barrier, the
\* barrier holds when SGC starts because nothing in use points into a free list, and a
\* cell that is allocated points nowhere.
IInv == TypeOK /\ ListsApart /\ BarrierHolds /\ NoDangling

USE CollectorAssumption

LEMMA MarkedIsWithin ==
  ASSUME NEW from, NEW within \in SUBSET Cells
  PROVE  Marked(from, within) \subseteq within
BY DEF Marked

LEMMA MarkedHasFrom ==
  ASSUME NEW from, NEW within \in SUBSET Cells
  PROVE  from \cap within \subseteq Marked(from, within)
BY DEF Marked

LEMMA MarkedIsClosed ==
  ASSUME NEW from, NEW within \in SUBSET Cells,
         NEW d \in Marked(from, within), points[d] \in within
  PROVE  points[d] \in Marked(from, within)
<1> SUFFICES ASSUME NEW S \in SUBSET within, from \cap within \subseteq S,
                    \A e \in S : points[e] \in within => points[e] \in S
             PROVE  points[d] \in S
  BY DEF Marked
<1>1. d \in S
  BY DEF Marked
<1> QED
  BY <1>1

LEMMA InitInv == Init => IInv
BY DEF Init, IInv, TypeOK, ListsApart, BarrierHolds, NoDangling, Used, CellsOn, SgcPagesOf

\* What a full collection leaves.
LEMMA GbcKeepsPointers ==
  ASSUME IInv
  PROVE  /\ GbcGarbage \subseteq Used
         /\ roots \cap GbcGarbage = {}
         /\ \A c \in Used \ GbcGarbage : points[c] \in (Used \ GbcGarbage) \cup {Nil}
<1>1. Used \in SUBSET Cells
  BY DEF Used, CellsOn
<1>2. roots \cap Used \subseteq MarkedByGbc
  BY <1>1, MarkedHasFrom DEF MarkedByGbc
<1>3. \A c \in MarkedByGbc : points[c] \in Used => points[c] \in MarkedByGbc
  BY <1>1, MarkedIsClosed DEF MarkedByGbc
<1> QED
  BY <1>1, <1>2, <1>3 DEF GbcGarbage, IInv, NoDangling

\* What a collection of SGC leaves: a cell in use that survives is marked, or old on a
\* writable page and therefore marked, or on a protected page and behind the barrier.
LEMMA SgcKeepsPointers ==
  ASSUME IInv
  PROVE  /\ SgcGarbage \subseteq Used
         /\ roots \cap SgcGarbage = {}
         /\ \A c \in Used \ SgcGarbage : points[c] \in (Used \ SgcGarbage) \cup {Nil}
<1> DEFINE within == CellsOn(writable) \cap Used
           from   == roots \cup OldOnWritable
<1>1. within \in SUBSET Cells
  BY DEF CellsOn
<1>2. MarkedBySgc = Marked(from, within)
  BY DEF MarkedBySgc
<1>3. from \cap within \subseteq MarkedBySgc
  BY <1>1, <1>2, MarkedHasFrom
<1>4. \A c \in MarkedBySgc : points[c] \in within => points[c] \in MarkedBySgc
  BY <1>1, <1>2, MarkedIsClosed
<1>5. SgcGarbage \subseteq within
  BY DEF SgcGarbage, IInv, TypeOK, CellsOn
<1>6. roots \cap SgcGarbage = {}
  BY <1>3, <1>5 DEF SgcGarbage
<1>7. ASSUME NEW c \in Used \ SgcGarbage, points[c] \in SgcGarbage
      PROVE  FALSE
  <2>1. Sweepable(points[c]) /\ points[c] \notin MarkedBySgc /\ points[c] \in within
    BY <1>5, <1>7 DEF SgcGarbage, Sweepable, CellsOn
  <2>2. CASE PageOf[c] \notin writable
    <3>1. points[c] # Nil
      BY <1>5, <1>7, <1>1
    <3> QED
      BY <2>1, <2>2, <3>1 DEF IInv, BarrierHolds
  <2>3. CASE PageOf[c] \in writable
    <3>1. c \in within
      BY <2>3 DEF CellsOn, Used
    <3>2. c \in MarkedBySgc \/ c \in OldOnWritable
      BY <3>1 DEF SgcGarbage, OldOnWritable, CellsOn, IInv, TypeOK
    <3>3. c \in MarkedBySgc
      BY <3>1, <3>2, <1>3
    <3> QED
      BY <3>3, <1>4, <2>1
  <2> QED
    BY <2>2, <2>3
<1> QED
  BY <1>5, <1>6, <1>7 DEF IInv, NoDangling

LEMMA AllocInv ==
  ASSUME IInv, NEW c \in Cells, Alloc(c)
  PROVE  IInv'
<1>1. c \in isFree /\ c \in CellsOn(present) /\ c \notin Used
  BY DEF IInv, TypeOK, ListsApart, Alloc, Used
<1>2. Used' = Used \cup {c}
  BY <1>1 DEF Alloc, Used, CellsOn
<1>3. points[c] = Nil /\ points' = points
  BY <1>1 DEF IInv, TypeOK, Alloc
<1>4. TypeOK'
  BY <1>1, <1>2, <1>3 DEF IInv, TypeOK, Alloc, Touched, CellsOn, SgcPagesOf, Cons
<1>5. ListsApart'
  BY <1>1 DEF IInv, TypeOK, ListsApart, Alloc, Cons
<1>6. BarrierHolds'
  BY <1>2, <1>3 DEF IInv, BarrierHolds, Sweepable, Alloc, Touched, Cons
<1>7. NoDangling'
  BY <1>2, <1>3 DEF IInv, NoDangling, Alloc
<1> QED
  BY <1>4, <1>5, <1>6, <1>7 DEF IInv

LEMMA LinkInv ==
  ASSUME IInv, NEW c \in Cells, NEW d \in Cells, Link(c, d)
  PROVE  IInv'
<1>1. Used' = Used /\ c \in Used /\ d \in Used
  BY DEF IInv, NoDangling, Link, lists, Used, CellsOn
<1>2. TypeOK'
  BY <1>1 DEF IInv, TypeOK, Link, Touched, lists, CellsOn, SgcPagesOf, Cons
<1>3. ListsApart'
  BY DEF IInv, ListsApart, Link, lists, Cons
<1>4. BarrierHolds'
  BY <1>1 DEF IInv, TypeOK, BarrierHolds, Sweepable, Link, Touched, Cons
<1>5. NoDangling'
  BY <1>1 DEF IInv, TypeOK, NoDangling, Link
<1> QED
  BY <1>2, <1>3, <1>4, <1>5 DEF IInv

\* Fetch and Drop change the roots only.
LEMMA RootsInv ==
  ASSUME IInv, NEW c \in Cells, Fetch(c) \/ Drop(c)
  PROVE  IInv'
<1>1. /\ roots' \subseteq Used
      /\ UNCHANGED <<present, lists, strata, points>>
  BY DEF IInv, NoDangling, Fetch, Drop
<1>2. Used' = Used /\ Used \subseteq Cells
  BY <1>1 DEF lists, Used, CellsOn
<1>3. TypeOK'
  BY <1>1, <1>2 DEF IInv, TypeOK, lists, strata, CellsOn, SgcPagesOf, Cons
<1>4. ListsApart' /\ BarrierHolds' /\ NoDangling'
  BY <1>1, <1>2 DEF IInv, ListsApart, BarrierHolds, NoDangling, Sweepable, lists, strata, Cons
<1> QED
  BY <1>3, <1>4 DEF IInv

LEMMA AddPageInv ==
  ASSUME IInv, NEW p \in Pages, AddPage(p)
  PROVE  IInv' /\ Used' = Used
<1> DEFINE new == IF sgc_enabled THEN SgcPagesOf({p}) ELSE {}
<1>1. /\ p \notin present /\ present' = present \cup {p}
      /\ isFree' = isFree \cup CellsOn({p}) /\ free' = free \cup CellsOn({p})
      /\ sgcPages' = sgcPages \cup new
      /\ recent' = recent \cup {c \in CellsOn(new) : ~Cons(c)}
      /\ UNCHANGED <<altFree, writable, sgc_enabled, roots, points>>
  BY DEF AddPage
<1>2. new \subseteq {p}
  BY DEF SgcPagesOf
<1>3. Used' = Used
  BY <1>1 DEF Used, CellsOn
<1>4. \A c \in Used : PageOf[c] # p
  BY <1>1 DEF Used, CellsOn
<1>5. TypeOK'
  BY <1>1, <1>2, <1>3 DEF IInv, TypeOK, CellsOn, SgcPagesOf, Cons
<1>6. ListsApart'
  <2>1. free \cap CellsOn({p}) = {} /\ altFree \cap CellsOn({p}) = {}
    BY <1>1 DEF IInv, TypeOK, ListsApart, CellsOn
  <2> QED
    BY <1>1, <2>1 DEF IInv, ListsApart, CellsOn, SgcPagesOf, Cons
<1>7. BarrierHolds'
  BY <1>1, <1>2, <1>3, <1>4 DEF IInv, BarrierHolds, NoDangling, Sweepable, CellsOn, Cons
<1>8. NoDangling'
  BY <1>1, <1>3 DEF IInv, NoDangling
<1> QED
  BY <1>3, <1>5, <1>6, <1>7, <1>8 DEF IInv

\* A cell in use is on no free list, so that starting SGC with any chosen pages makes
\* only free cells sweepable.
LEMMA StartedInv ==
  ASSUME NEW chosen \in SUBSET Pages, NEW available, available = isFree',
         StartedWith(chosen, available),
         chosen \subseteq SgcPagesOf(present'),
         \A p \in chosen : TypeOf[p] = "cons" => CellsOn({p}) \subseteq isFree',
         isFree' \subseteq CellsOn(present'), present' \subseteq Pages,
         roots' \subseteq Used', points' \in [Cells -> Cells \cup {Nil}],
         \A c \in Used' : points'[c] \in Used' \cup {Nil},
         \A c \in Cells \ Used' : points'[c] = Nil,
         present' = present
  PROVE  IInv'
<1>1. /\ sgcPages' = chosen
      /\ altFree' = {c \in available : PageOf[c] \in SgcPagesOf(Pages) \ chosen}
      /\ free' = available \ altFree'
      /\ recent' = {c \in available \cap CellsOn(chosen) : ~Cons(c)}
      /\ writable' = chosen \cup (Pages \ present)
      /\ sgc_enabled' = TRUE
  BY DEF StartedWith
<1>2. available \subseteq Cells /\ Used' \subseteq Cells
  BY DEF CellsOn, Used
<1>3. \A c \in Used' : ~Sweepable(c)'
  BY <1>1 DEF Sweepable, Used, CellsOn, Cons
<1>4. TypeOK'
  BY <1>1, <1>2 DEF TypeOK, CellsOn, SgcPagesOf, Cons
<1>5. ListsApart'
  BY <1>1, <1>2 DEF ListsApart, SgcPagesOf, CellsOn, Cons
<1>6. BarrierHolds'
  BY <1>2, <1>3 DEF BarrierHolds
<1>7. NoDangling'
  BY DEF NoDangling
<1> QED
  BY <1>4, <1>5, <1>6, <1>7 DEF IInv

LEMMA StartInv ==
  ASSUME IInv, NEW chosen \in SUBSET Pages, sgc_start(chosen)
  PROVE  IInv' /\ Used' = Used
<1>1. /\ StartedWith(chosen, free) /\ ~sgc_enabled
      /\ UNCHANGED <<present, isFree, roots, points>>
      /\ chosen \subseteq {p \in SgcPagesOf(present) : Enough(p)}
  BY DEF sgc_start, Choices
<1>2. Used' = Used
  BY <1>1 DEF Used
<1>3. isFree' = free
  BY <1>1 DEF IInv, ListsApart
<1> QED
  BY <1>1, <1>2, <1>3, StartedInv DEF IInv, TypeOK, NoDangling, Enough

LEMMA QuitInv ==
  ASSUME IInv, sgc_quit
  PROVE  IInv' /\ Used' = Used
<1>1. /\ free' = free \cup altFree /\ altFree' = {}
      /\ recent' = {} /\ sgcPages' = {} /\ writable' = Pages
      /\ sgc_enabled' = FALSE
      /\ UNCHANGED <<present, isFree, roots, points>>
  BY DEF sgc_quit
<1>2. Used' = Used /\ Used \subseteq Cells
  BY <1>1 DEF Used, CellsOn
<1>3. TypeOK'
  BY <1>1, <1>2 DEF IInv, TypeOK, CellsOn, SgcPagesOf, Cons
<1>4. ListsApart'
  BY <1>1 DEF IInv, ListsApart
<1>5. BarrierHolds'
  BY <1>1, <1>2 DEF BarrierHolds
<1>6. NoDangling'
  BY <1>1, <1>2 DEF IInv, NoDangling
<1> QED
  BY <1>2, <1>3, <1>4, <1>5, <1>6 DEF IInv

\* Sweeping cells that nothing that is left points to.
LEMMA SweptKeepsPointers ==
  ASSUME IInv, NEW garbage \in SUBSET Used, Swept(garbage),
         UNCHANGED <<present, roots>>,
         roots \cap garbage = {},
         \A c \in Used \ garbage : points[c] \in (Used \ garbage) \cup {Nil}
  PROVE  /\ Used' = Used \ garbage
         /\ isFree' \subseteq CellsOn(present')
         /\ points' \in [Cells -> Cells \cup {Nil}]
         /\ \A c \in Used' : points'[c] = points[c]
         /\ \A c \in Cells \ Used' : points'[c] = Nil
         /\ roots' \subseteq Used'
         /\ \A c \in Used' : points'[c] \in Used' \cup {Nil}
<1>1. /\ isFree' = isFree \cup garbage
      /\ points' = [c \in Cells |-> IF c \in garbage THEN Nil ELSE points[c]]
  BY DEF Swept
<1>2. Used' = Used \ garbage /\ Used \subseteq Cells
  BY <1>1 DEF Used, CellsOn
<1>3. isFree' \subseteq CellsOn(present')
  BY <1>1 DEF IInv, TypeOK, Used, CellsOn
<1>4. points' \in [Cells -> Cells \cup {Nil}]
  BY <1>1 DEF IInv, TypeOK
<1>5. \A c \in Used' : points'[c] = points[c]
  BY <1>1, <1>2
<1>6. \A c \in Cells \ Used' : points'[c] = Nil
  BY <1>1, <1>2 DEF IInv, TypeOK
<1>7. roots' \subseteq Used'
  BY <1>2 DEF IInv, NoDangling
<1>8. \A c \in Used' : points'[c] \in Used' \cup {Nil}
  BY <1>2, <1>5
<1> QED
  BY <1>2, <1>3, <1>4, <1>5, <1>6, <1>7, <1>8

\* A collection that puts what it frees on the ordinary free lists.
LEMMA CollectedInv ==
  ASSUME IInv, NEW garbage \in SUBSET Used, Swept(garbage),
         free' = free \cup garbage,
         UNCHANGED <<present, altFree, strata, roots>>,
         roots \cap garbage = {},
         \A c \in Used \ garbage : points[c] \in (Used \ garbage) \cup {Nil},
         sgc_enabled => \A c \in garbage : Sweepable(c)
  PROVE  IInv'
<1>1. /\ Used' = Used \ garbage
      /\ isFree' \subseteq CellsOn(present')
      /\ points' \in [Cells -> Cells \cup {Nil}]
      /\ \A c \in Used' : points'[c] = points[c]
      /\ \A c \in Cells \ Used' : points'[c] = Nil
      /\ roots' \subseteq Used'
      /\ \A c \in Used' : points'[c] \in Used' \cup {Nil}
  BY SweptKeepsPointers
<1>2. isFree' = isFree \cup garbage /\ Used \subseteq Cells /\ Used \cap isFree = {}
  BY DEF Swept, Used, CellsOn
<1>3. TypeOK'
  BY <1>1, <1>2 DEF IInv, TypeOK, strata, CellsOn, SgcPagesOf, Cons
<1>4. ListsApart'
  BY <1>2 DEF IInv, ListsApart, strata, Sweepable, Cons
<1>5. BarrierHolds'
  BY <1>1 DEF IInv, BarrierHolds, Sweepable, strata, Cons
<1>6. NoDangling'
  BY <1>1 DEF NoDangling
<1> QED
  BY <1>3, <1>4, <1>5, <1>6 DEF IInv

LEMMA GbcInv ==
  ASSUME IInv, Gbc
  PROVE  IInv'
BY GbcKeepsPointers, CollectedInv DEF Gbc, strata

LEMMA GbcOfSgcInv ==
  ASSUME IInv, GbcOfSgc
  PROVE  IInv'
<1>1. \A c \in SgcGarbage : Sweepable(c)
  BY DEF SgcGarbage, Sweepable, CellsOn
<1> QED
  BY <1>1, SgcKeepsPointers, CollectedInv DEF GbcOfSgc

LEMMA GbcOfOthersInv ==
  ASSUME IInv, NEW chosen \in SUBSET Pages, GbcOfOthers(chosen)
  PROVE  IInv'
<1>1. /\ Swept(GbcGarbage)
      /\ UNCHANGED <<present, roots>>
      /\ chosen \in Choices'
      /\ StartedWith(chosen, free \cup altFree \cup GbcGarbage)
  BY DEF GbcOfOthers
<1>2. /\ Used' = Used \ GbcGarbage
      /\ isFree' \subseteq CellsOn(present')
      /\ points' \in [Cells -> Cells \cup {Nil}]
      /\ \A c \in Cells \ Used' : points'[c] = Nil
      /\ roots' \subseteq Used'
      /\ \A c \in Used' : points'[c] \in Used' \cup {Nil}
  BY <1>1, GbcKeepsPointers, SweptKeepsPointers
<1>3. isFree' = free \cup altFree \cup GbcGarbage
  BY <1>1 DEF Swept, IInv, ListsApart
<1>4. /\ chosen \subseteq SgcPagesOf(present')
      /\ \A p \in chosen : TypeOf[p] = "cons" => CellsOn({p}) \subseteq isFree'
  BY <1>1 DEF Choices, Enough, SgcPagesOf, CellsOn
<1>5. present' \subseteq Pages
  BY <1>1 DEF IInv, TypeOK
<1> QED
  BY <1>1, <1>2, <1>3, <1>4, <1>5, StartedInv

LEMMA NextInv == IInv /\ [Next]_vars => IInv'
<1> SUFFICES ASSUME IInv, [Next]_vars
             PROVE  IInv'
  OBVIOUS
<1>1. ASSUME NEW c \in Cells, Alloc(c)
      PROVE  IInv'
  BY <1>1, AllocInv
<1>2. ASSUME NEW c \in Cells, Fetch(c) \/ Drop(c)
      PROVE  IInv'
  BY <1>2, RootsInv
<1>3. ASSUME NEW c \in Cells, NEW d \in Cells, Link(c, d)
      PROVE  IInv'
  BY <1>3, LinkInv
<1>4. ASSUME NEW p \in Pages, AddPage(p)
      PROVE  IInv'
  BY <1>4, AddPageInv
<1>5. ASSUME NEW chosen \in SUBSET Pages, sgc_start(chosen)
      PROVE  IInv'
  BY <1>5, StartInv
<1>6. ASSUME NEW chosen \in SUBSET Pages, GbcOfOthers(chosen)
      PROVE  IInv'
  BY <1>6, GbcOfOthersInv
<1>7. CASE sgc_quit
  BY <1>7, QuitInv
<1>8. CASE Gbc
  BY <1>8, GbcInv
<1>9. CASE GbcOfSgc
  BY <1>9, GbcOfSgcInv
<1>10. CASE UNCHANGED vars
  <2>1. Used' = Used
    BY <1>10 DEF vars, lists, Used, CellsOn
  <2> QED
    BY <1>10, <2>1 DEF vars, lists, strata, IInv, TypeOK, ListsApart, BarrierHolds,
                       NoDangling, Sweepable, CellsOn, SgcPagesOf, Cons
<1> QED
  BY <1>1, <1>2, <1>3, <1>4, <1>5, <1>6, <1>7, <1>8, <1>9, <1>10 DEF Next

THEOREM Invariance == Spec => []IInv
BY InitInv, NextInv, PTL DEF Spec

-------------------------------------------------------------------------------
\* Types, and what pages and lists the cells in use and the free ones are on.
THEOREM TypeCorrect == Spec => []TypeOK
BY Invariance, PTL DEF IInv

\* No cell is handed out from a page SGC protects, and none twice: gbc.c and sgbc.c put
\* every free cell on one list.
THEOREM FreeListsApart == Spec => []ListsApart
BY Invariance, PTL DEF IInv

\* A protected page holds no pointer to a cell that a collection of SGC could free.
THEOREM BarrierCorrect == Spec => []BarrierHolds
BY Invariance, PTL DEF IInv

\* No cell in use points to a cell that sweep_phase or sgc_sweep_phase took back.
THEOREM PointersStand == Spec => []NoDangling
BY Invariance, PTL DEF IInv

-------------------------------------------------------------------------------
(* That the collectors implement Heap.                                     *)

content == [c \in Used |-> points[c]]

\* A collection that leaves no pointer to what it frees frees nothing that is reached.
LEMMA SweptReclaims ==
  ASSUME IInv, NEW garbage \in SUBSET Used, Swept(garbage),
         UNCHANGED <<present, roots>>,
         roots \cap garbage = {},
         \A c \in Used \ garbage : points[c] \in (Used \ garbage) \cup {Nil}
  PROVE  Memory!Next
<1> DEFINE left == Used \ garbage
<1>1. Used' = left /\ Used \subseteq Cells /\ \A c \in Used' : points'[c] = points[c]
  BY SweptKeepsPointers DEF Used, CellsOn
<1>2. left \in SUBSET DOMAIN content /\ roots \subseteq left
  BY DEF content, IInv, NoDangling
<1>3. Memory!Closed(left, content)
  BY DEF Memory!Closed, content
<1>4. garbage \cap Memory!Reached(roots, content) = {}
  <2> SUFFICES ASSUME NEW c \in garbage, c \in Memory!Reached(roots, content)
               PROVE  FALSE
    OBVIOUS
  <2>1. \A S \in SUBSET DOMAIN content :
          roots \subseteq S /\ Memory!Closed(S, content) => c \in S
    BY DEF Memory!Reached
  <2>2. c \in left
    BY <2>1, <1>2, <1>3
  <2> QED
    BY <2>2
<1>5. content' = [d \in Used' |-> content[d]]
  BY <1>1 DEF content
<1>6. Memory!Reclaim(garbage)
  BY <1>1, <1>4, <1>5 DEF Memory!Reclaim, content
<1>7. garbage \in SUBSET Cells
  BY <1>1
<1> QED
  BY <1>6, <1>7 DEF Memory!Next

LEMMA AllocMakes ==
  ASSUME IInv, NEW c \in Cells, Alloc(c)
  PROVE  Memory!Next
<1>1. c \in isFree /\ c \in CellsOn(present) /\ c \notin Used
  BY DEF IInv, TypeOK, ListsApart, Alloc, Used
<1>2. Used' = Used \cup {c}
  BY <1>1 DEF Alloc, Used, CellsOn
<1>3. points[c] = Nil /\ points' = points
  BY <1>1 DEF IInv, TypeOK, Alloc
<1>4. content' = [d \in Used' |-> IF d = c THEN Nil ELSE content[d]]
  BY <1>2, <1>3 DEF content
<1>5. Memory!Make(c)
  BY <1>1, <1>2, <1>4 DEF Memory!Make, Alloc, content
<1> QED
  BY <1>5 DEF Memory!Next

LEMMA ProgramSteps ==
  ASSUME IInv, NEW c \in Cells, NEW d \in Cells, Link(c, d) \/ Fetch(c) \/ Drop(c)
  PROVE  Memory!Next
<1>1. CASE Link(c, d)
  <2>1. Used' = Used /\ c \in Used
    BY <1>1 DEF IInv, NoDangling, Link, lists, Used, CellsOn
  <2>2. content' = [content EXCEPT ![c] = d]
    BY <1>1, <2>1 DEF Link, IInv, TypeOK, content, Used, CellsOn
  <2>3. Memory!Link(c, d)
    BY <1>1, <2>1, <2>2 DEF Memory!Link, Link, content
  <2> QED
    BY <2>3 DEF Memory!Next
<1>2. CASE Fetch(c) \/ Drop(c)
  <2>1. UNCHANGED <<present, isFree, points>>
    BY <1>2 DEF Fetch, Drop, lists
  <2>2. Used' = Used /\ content' = content
    BY <2>1 DEF Used, CellsOn, content
  <2>3. c \in roots /\ content[c] = points[c]
    BY <1>2 DEF Fetch, Drop, IInv, NoDangling, content
  <2>4. Memory!Fetch(c) \/ Memory!Drop(c)
    BY <1>2, <2>2, <2>3 DEF Memory!Fetch, Memory!Drop, Fetch, Drop, content
  <2> QED
    BY <2>4 DEF Memory!Next
<1> QED
  BY <1>1, <1>2

LEMMA Refinement == IInv /\ [Next]_vars => [Memory!Next]_(Memory!vars)
<1> SUFFICES ASSUME IInv, [Next]_vars
             PROVE  Memory!Next \/ UNCHANGED Memory!vars
  OBVIOUS
<1>0. ASSUME Used' = Used, UNCHANGED <<roots, points>>
      PROVE  UNCHANGED Memory!vars
  BY <1>0 DEF Memory!vars
<1>1. ASSUME NEW c \in Cells, Alloc(c)
      PROVE  Memory!Next
  BY <1>1, AllocMakes
<1>2. ASSUME NEW c \in Cells, Fetch(c) \/ Drop(c)
      PROVE  Memory!Next
  BY <1>2, ProgramSteps
<1>3. ASSUME NEW c \in Cells, NEW d \in Cells, Link(c, d)
      PROVE  Memory!Next
  BY <1>3, ProgramSteps
<1>4. ASSUME NEW p \in Pages, AddPage(p)
      PROVE  UNCHANGED Memory!vars
  BY <1>4, <1>0, AddPageInv DEF AddPage
<1>5. ASSUME NEW chosen \in SUBSET Pages, sgc_start(chosen)
      PROVE  UNCHANGED Memory!vars
  BY <1>5, <1>0, StartInv DEF sgc_start
<1>6. ASSUME NEW chosen \in SUBSET Pages, GbcOfOthers(chosen)
      PROVE  Memory!Next
  BY <1>6, GbcKeepsPointers, SweptReclaims DEF GbcOfOthers
<1>7. CASE sgc_quit
  BY <1>7, <1>0, QuitInv DEF sgc_quit
<1>8. CASE Gbc
  BY <1>8, GbcKeepsPointers, SweptReclaims DEF Gbc
<1>9. CASE GbcOfSgc
  BY <1>9, SgcKeepsPointers, SweptReclaims DEF GbcOfSgc
<1>10. CASE UNCHANGED vars
  <2>1. Used' = Used
    BY <1>10 DEF vars, lists, Used, CellsOn
  <2> QED
    BY <1>10, <1>0, <2>1 DEF vars
<1> QED
  BY <1>1, <1>2, <1>3, <1>4, <1>5, <1>6, <1>7, <1>8, <1>9, <1>10 DEF Next

\* Starting and quitting SGC are invisible to the program, and every collection, with SGC
\* or without, takes back only cells the program cannot reach.
THEOREM CollectorsImplementHeap == Spec => ImplementsHeap
<1>1. Init => Memory!Init
  BY DEF Init, Memory!Init, Used, CellsOn
<1> QED
  BY <1>1, InitInv, NextInv, Refinement, PTL DEF Spec, ImplementsHeap, Memory!Spec
===============================================================================
