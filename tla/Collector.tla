------------------------------- MODULE Collector -------------------------------
(***************************************************************************)
(* The garbage collector (o/gbc.c) and the stratified collector, SGC       *)
(* (o/sgbc.c).  When SGC is started, some pages with free cells are chosen *)
(* to hold what is allocated from then on; all others are write-protected. *)
(* A collection marks and sweeps on writable pages only.  What an old cell *)
(* points to is not looked at while its page is protected, for it can only *)
(* point to old cells; the first store into a page faults, and the handler *)
(* makes the page writable, after which its old cells count as roots.      *)
(*                                                                         *)
(* A cell has one pointer.  Free lists are sets, their order being Arena's *)
(* concern.  Marking, sweeping, starting and quitting run in no-interrupt  *)
(* regions and are steps.                                                  *)
(***************************************************************************)
EXTENDS Integers, FiniteSets

CONSTANTS
  Cells, Nil,
  Pages,
  PageOf,          \* the page of each cell
  TypeOf,          \* the type of the cells of each page
  SgcTypes,        \* the types with tm_sgc > 0
  MinFree          \* FSGC for the types other than "cons", at least 1

Types == {TypeOf[p] : p \in Pages}

ASSUME CollectorAssumption ==
  /\ Nil \notin Cells
  /\ PageOf \in [Cells -> Pages]
  /\ SgcTypes \subseteq Types
  /\ MinFree \in Nat \ {0}

VARIABLES
  present,         \* the pages that have been added
  isFree,          \* the cells whose header says free
  free,            \* the cells on the free lists tm_free
  altFree,         \* those on tm_alt_free
  recent,          \* the cells other than conses whose d.s is SGC_RECENT
  sgcPages,        \* SGC_PAGE_FLAG
  writable,        \* wrimap, and mprotect with it; all pages when SGC is off
  sgc_enabled,
  roots,           \* what the program holds: the stacks, the packages' symbols
  points           \* the pointer of each cell; Nil in a free one

lists  == <<isFree, free, altFree>>
strata == <<recent, sgcPages, writable, sgc_enabled>>
vars   == <<present, lists, strata, roots, points>>

CellsOn(pages) == {c \in Cells : PageOf[c] \in pages}
Cons(c)        == TypeOf[PageOf[c]] = "cons"
Used           == CellsOn(present) \ isFree

SgcPagesOf(pages) == {p \in pages : TypeOf[p] \in SgcTypes}

-------------------------------------------------------------------------------
(* Marking.                                                                *)

\* The cells marked when the marks go from the cells of a set to the cell each points
\* to, and stop at the cells outside within.
Marked(from, within) ==
  {c \in within :
     \A S \in SUBSET within :
       /\ from \cap within \subseteq S
       /\ \A d \in S : points[d] \in within => points[d] \in S
       => c \in S}

\* Mutant of OldOnWritable: the old cells of writable pages are forgotten.
OldForgotten == {}

\* "mark all non recent data on writable pages": neither SGC_OR_M nor free.
OldOnWritable ==
  {c \in CellsOn(writable) \cap Used :
     IF Cons(c) THEN PageOf[c] \notin sgcPages ELSE c \notin recent}

\* mark_phase, sgc_mark_phase
MarkedByGbc == Marked(roots, Used)
MarkedBySgc == Marked(roots \cup OldOnWritable, CellsOn(writable) \cap Used)

\* What sweep_phase and sgc_sweep_phase free.
GbcGarbage == Used \ MarkedByGbc
SgcGarbage ==
  {c \in CellsOn(sgcPages) \cap Used : c \notin MarkedBySgc /\ (Cons(c) \/ c \in recent)}

-------------------------------------------------------------------------------
(* The program.                                                            *)

\* Mutant of Touched: the handler unprotects the page and does not note it.
TouchedUnnoted(c) == writable

\* memprotect_handler, if the page of c is protected.
Touched(c) == writable \cup {PageOf[c]}

Alloc(c) ==
  /\ c \in free
  /\ free' = free \ {c}
  /\ isFree' = isFree \ {c}
  /\ roots' = roots \cup {c}
  /\ writable' = Touched(c)
  /\ UNCHANGED <<present, altFree, recent, sgcPages, sgc_enabled, points>>

Link(c, d) ==
  /\ c \in roots /\ d \in roots
  /\ points' = [points EXCEPT ![c] = d]
  /\ writable' = Touched(c)
  /\ UNCHANGED <<present, lists, recent, sgcPages, sgc_enabled, roots>>

Fetch(c) ==
  /\ c \in roots /\ points[c] # Nil
  /\ roots' = roots \cup {points[c]}
  /\ UNCHANGED <<present, lists, strata, points>>

Drop(c) ==
  /\ c \in roots
  /\ roots' = roots \ {c}
  /\ UNCHANGED <<present, lists, strata, points>>

\* add_page_to_freelist
AddPage(p) ==
  /\ p \notin present
  /\ present' = present \cup {p}
  /\ isFree' = isFree \cup CellsOn({p})
  /\ free' = free \cup CellsOn({p})
  /\ LET new == IF sgc_enabled THEN SgcPagesOf({p}) ELSE {} IN
       /\ sgcPages' = sgcPages \cup new
       /\ recent' = recent \cup {c \in CellsOn(new) : ~Cons(c)}
  /\ UNCHANGED <<altFree, writable, sgc_enabled, roots, points>>

-------------------------------------------------------------------------------
(* Starting and quitting SGC.                                              *)

\* The pages sgc_start may choose: conses have no recent bit, and take whole free
\* pages.
Enough(p) ==
  IF TypeOf[p] = "cons"
  THEN CellsOn({p}) \subseteq isFree
  ELSE Cardinality(CellsOn({p}) \cap isFree) >= MinFree

\* Mutant of Choices: conses are treated as the others.
ChoicesOfAnyRoom == SUBSET {p \in SgcPagesOf(present) : CellsOn({p}) \cap isFree # {}}

Choices == SUBSET {p \in SgcPagesOf(present) : Enough(p)}

\* Mutant of StartedWith: the cells of old pages stay on the free list.
StartedWithAll(chosen, available) ==
  /\ sgcPages' = chosen
  /\ free' = available
  /\ altFree' = {}
  /\ recent' = {c \in available \cap CellsOn(chosen) : ~Cons(c)}
  /\ writable' = chosen \cup (Pages \ present)
  /\ sgc_enabled' = TRUE

\* The end of sgc_start: of the free cells those on other pages are put aside.
StartedWith(chosen, available) ==
  /\ sgcPages' = chosen
  /\ altFree' = {c \in available : PageOf[c] \in SgcPagesOf(Pages) \ chosen}
  /\ free' = available \ altFree'
  /\ recent' = {c \in available \cap CellsOn(chosen) : ~Cons(c)}
  /\ writable' = chosen \cup (Pages \ present)
  /\ sgc_enabled' = TRUE

sgc_start(chosen) ==
  /\ ~sgc_enabled /\ chosen \in Choices
  /\ StartedWith(chosen, free)
  /\ UNCHANGED <<present, isFree, roots, points>>

\* Mutant of sgc_quit: the recent flags stay.
sgc_quitKeepsRecent ==
  /\ sgc_enabled
  /\ free' = free \cup altFree
  /\ altFree' = {}
  /\ sgcPages' = {} /\ writable' = Pages
  /\ sgc_enabled' = FALSE
  /\ UNCHANGED <<present, isFree, recent, roots, points>>

sgc_quit ==
  /\ sgc_enabled
  /\ free' = free \cup altFree
  /\ altFree' = {}
  /\ recent' = {} /\ sgcPages' = {} /\ writable' = Pages
  /\ sgc_enabled' = FALSE
  /\ UNCHANGED <<present, isFree, roots, points>>

-------------------------------------------------------------------------------
(* GBC                                                                     *)

Swept(garbage) ==
  /\ isFree' = isFree \cup garbage
  /\ points' = [c \in Cells |-> IF c \in garbage THEN Nil ELSE points[c]]

Gbc ==
  /\ ~sgc_enabled
  /\ Swept(GbcGarbage)
  /\ free' = free \cup GbcGarbage
  /\ UNCHANGED <<present, altFree, strata, roots>>

GbcOfSgc ==
  /\ sgc_enabled
  /\ Swept(SgcGarbage)
  /\ free' = free \cup SgcGarbage
  /\ UNCHANGED <<present, altFree, strata, roots>>

\* For a type without SGC pages, SGC is off during the collection: sgc_quit, a full
\* collection, and sgc_start.
GbcOfOthers(chosen) ==
  /\ sgc_enabled /\ SgcTypes # Types
  /\ Swept(GbcGarbage)
  /\ UNCHANGED <<present, roots>>
  /\ chosen \in Choices'
  /\ StartedWith(chosen, free \cup altFree \cup GbcGarbage)

-------------------------------------------------------------------------------
Init ==
  /\ present = {}
  /\ isFree = {} /\ free = {} /\ altFree = {}
  /\ recent = {} /\ sgcPages = {} /\ writable = Pages
  /\ sgc_enabled = FALSE
  /\ roots = {}
  /\ points = [c \in Cells |-> Nil]

Next ==
  \/ \E c \in Cells : Alloc(c) \/ Fetch(c) \/ Drop(c)
  \/ \E c, d \in Cells : Link(c, d)
  \/ \E p \in Pages : AddPage(p)
  \/ \E chosen \in SUBSET Pages : sgc_start(chosen) \/ GbcOfOthers(chosen)
  \/ sgc_quit \/ Gbc \/ GbcOfSgc

Spec == Init /\ [][Next]_vars
-------------------------------------------------------------------------------
\* Types: free lists hold cells of pages that are there, recent cells are not conses
\* and are on pages of SGC, these are writable and so are the pages to come, and a cell
\* that is not in use points nowhere.
TypeOK ==
  /\ present \subseteq Pages
  /\ isFree \subseteq CellsOn(present)
  /\ free \subseteq Cells /\ altFree \subseteq Cells
  /\ recent \subseteq {c \in CellsOn(sgcPages) : ~Cons(c)}
  /\ sgcPages \subseteq SgcPagesOf(present)
  /\ writable \in SUBSET Pages
  /\ sgcPages \cup (Pages \ present) \subseteq writable
  /\ sgc_enabled \in BOOLEAN
  /\ ~sgc_enabled => sgcPages = {} /\ writable = Pages
  /\ roots \subseteq Cells
  /\ points \in [Cells -> Cells \cup {Nil}]
  /\ \A c \in Cells \ Used : points[c] = Nil

\* A free cell is on one free list, and on the ordinary one while SGC is off; while it is
\* on, a cell handed out of a type that takes part in it is on one of its pages, and is
\* recent if it is not a cons.
ListsApart ==
  /\ free \cup altFree = isFree
  /\ free \cap altFree = {}
  /\ ~sgc_enabled => altFree = {}
  /\ sgc_enabled =>
       \A c \in free : TypeOf[PageOf[c]] \in SgcTypes =>
         PageOf[c] \in sgcPages /\ (Cons(c) \/ c \in recent)

\* What sgc_sweep_phase may free.
Sweepable(c) == PageOf[c] \in sgcPages /\ (Cons(c) \/ c \in recent)

\* The write barrier: what a cell on a protected page points to is not looked at by a
\* collection of SGC, and need not be, for it is nothing the collection could free.
BarrierHolds ==
  \A c \in Used :
    PageOf[c] \notin writable => points[c] = Nil \/ ~Sweepable(points[c])

\* No cell in use points to a cell that was taken back, and the program holds none.
NoDangling ==
  /\ roots \subseteq Used
  /\ \A c \in Used : points[c] \in Used \cup {Nil}

Memory == INSTANCE Heap WITH used <- Used, content <- [c \in Used |-> points[c]]

\* With SGC on or off, and while it is started and quit, the program sees a heap from
\* which only unreachable cells disappear, and only collections make them.
ImplementsHeap == Memory!Spec
===============================================================================
