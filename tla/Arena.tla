--------------------------------- MODULE Arena ---------------------------------
(***************************************************************************)
(* The cells of one type: the free list of its type manager (o/alloc.c),   *)
(* the sweep that refills it (o/gbc.c), and what a signal handler does to  *)
(* it (o/usig2.c).  Taking a cell off the list is not protected: a handler *)
(* may run between any two of its instructions and take cells itself.  Two *)
(* things keep that sound.  A handler that runs at an instruction where    *)
(* signals are merely allowed (sig_normal) is given the free list without  *)
(* its first two cells, and gets them put back when it returns.  A handler *)
(* that runs at a point of the allocator that is known to be safe          *)
(* (sig_safe) is given everything.                                         *)
(*                                                                         *)
(* One thread runs; its stack holds the program and the handlers that      *)
(* interrupted each other.                                                 *)
(***************************************************************************)
EXTENDS Integers, FiniteSets, FiniteSetsExt, Sequences, SequencesExt

CONSTANTS
  PerPage,         \* tm_nppage: the cells of a page
  MaxPages,        \* tm_maxpage, at the most
  MaxRun,          \* the longest list listqA is asked for
  MaxDepth,        \* bound: handlers that interrupt each other
  Windows          \* the instructions at which signals arrive that the code does
                   \* not guard and a program may be spared

ASSUME ArenaAssumption ==
  /\ PerPage \in Nat \ {0} /\ MaxPages \in Nat \ {0}
  /\ MaxRun \in Nat \ {0} /\ MaxDepth \in Nat \ {0}
  /\ Windows \subseteq {"count", "inSafe", "list", "tested"}

Cells == 1 .. PerPage * MaxPages
Nil   == 0

VARIABLES
  head,            \* tm_free
  link,            \* OBJ_LINK of a cell; Nil once the cell holds contents
  isFree,          \* the cells whose header says free
  nfree,           \* tm_nfree
  used,            \* the cells the program can reach
  npage,           \* tm_npage
  stack            \* the program and the handlers: what each is doing, with its
                   \* locals, signals_allowed in it (level) and when it was
                   \* invoked (allowed), and what before_interrupt saved

memory == <<link, isFree, used, npage>>
vars   == <<head, nfree, memory, stack>>

Started(allowed, level, free1, free2) ==
  [at |-> "run", p |-> Nil, tem |-> Nil, n |-> 0,
   level |-> level, allowed |-> allowed, free1 |-> free1, free2 |-> free2]

top == Last(stack)
Runs(at) == top.at = at

\* The activity on top goes on as a.
Goes(a) == stack' = Front(stack) \o <<a>>

LinkOf(c) == IF c = Nil THEN Nil ELSE link[c]

\* The n cells that follow the links from c.
Walk(c, n) ==
  CHOOSE w \in [1 .. n -> Cells \cup {Nil}] :
    w[1] = c /\ \A i \in 2 .. n : w[i] = LinkOf(w[i - 1])

\* The cells of the list that starts at a cell h, and goes on along the links l.
Closed(S, h, l) == h \in S \cup {Nil} /\ \A c \in S : l[c] \in S \cup {Nil}
List(h, l)      == {c \in Cells : \A S \in SUBSET Cells : Closed(S, h, l) => c \in S}

OnList == List(head, link)

Saved(a) == {a.free1, a.free2} \ {Nil}

-------------------------------------------------------------------------------
(* make_cons and alloc_object.                                             *)

\* Mutant of Take: the list is not tested for its end.
TakeUntested ==
  /\ top.at \in {"run", "collected", "grown"}
  /\ Goes([top EXCEPT !.at = "next", !.p = head])
  /\ UNCHANGED <<head, nfree, memory>>

\* alloc_from_freelist: p = tm->tm_free.
Take ==
  /\ top.at \in {"run", "collected", "grown"} /\ head # Nil
  /\ Goes([top EXCEPT !.at = "next", !.p = head])
  /\ UNCHANGED <<head, nfree, memory>>

\* tm->tm_free = OBJ_LINK(p), a read and a store.
Next1 ==
  /\ Runs("next")
  /\ Goes([top EXCEPT !.at = "store", !.tem = LinkOf(top.p)])
  /\ UNCHANGED <<head, nfree, memory>>

Store ==
  /\ Runs("store")
  /\ head' = top.tem
  /\ Goes([top EXCEPT !.at = "count", !.tem = Nil])
  /\ UNCHANGED <<nfree, memory>>

\* tm->tm_nfree--
Count ==
  /\ Runs("count")
  /\ nfree' = nfree - 1
  /\ Goes([top EXCEPT !.at = "fill"])
  /\ UNCHANGED <<head, memory>>

\* The caller gives the cell its type and contents.
Fill ==
  /\ Runs("fill")
  /\ used' = used \cup {top.p}
  /\ isFree' = isFree \ {top.p}
  /\ link' = [link EXCEPT ![top.p] = Nil]
  /\ Goes([top EXCEPT !.at = "run", !.p = Nil])
  /\ UNCHANGED <<head, nfree, npage>>

\* Mutant of Held: the C stack is not scanned.
HeldByNothing == {}

\* What mark_c_stack finds in the frames of invoke_handler.
Held == UNION {Saved(stack[i]) : i \in DOMAIN stack}

\* sweep_phase puts the cells garbage before those of the list.
Prepended(garbage) ==
  [c \in Cells |->
     CASE c \notin garbage -> link[c]
       [] c \in garbage /\ c = Min(garbage) -> head
       [] OTHER -> Max({d \in garbage : d < c})]

\* GBC: a cell that is neither free nor marked becomes free.
Collect ==
  /\ Runs("run") /\ head = Nil
  /\ LET garbage == (1 .. PerPage * npage) \ (isFree \cup used \cup Held) IN
       /\ link' = Prepended(garbage)
       /\ head' = IF garbage = {} THEN head ELSE Max(garbage)
       /\ isFree' = isFree \cup garbage
       /\ nfree' = nfree + Cardinality(garbage)
  /\ Goes([top EXCEPT !.at = "collected"])
  /\ UNCHANGED <<used, npage>>

\* alloc_after_adding_pages, add_page_to_freelist
Grow ==
  /\ top.at \in {"run", "collected"} /\ head = Nil /\ npage < MaxPages
  /\ LET page == PerPage * npage + 1 .. PerPage * (npage + 1) IN
       /\ link' = Prepended(page)
       /\ head' = Max(page)
       /\ isFree' = isFree \cup page
       /\ nfree' = nfree + PerPage
  /\ npage' = npage + 1
  /\ Goes([top EXCEPT !.at = "grown"])
  /\ UNCHANGED used

\* exhausted_report
Exhausted ==
  /\ top.at \in {"collected", "grown"} /\ head = Nil
  /\ Runs("collected") => npage = MaxPages
  /\ Goes([top EXCEPT !.at = "run"])
  /\ UNCHANGED <<head, nfree, memory>>

\* The program forgets a cell.
Forget(c) ==
  /\ Runs("run") /\ c \in used
  /\ used' = used \ {c}
  /\ UNCHANGED <<head, nfree, link, isFree, npage, stack>>

-------------------------------------------------------------------------------
(* listqA: n cells at once, straight from the list.                        *)

\* tail = tm->tm_free
ListBegin(n) ==
  /\ Runs("run")
  /\ Goes([top EXCEPT !.at = "list", !.p = head, !.n = n])
  /\ UNCHANGED <<head, nfree, memory>>

\* Mutant of ListTest: off by one.
ListTestByOne ==
  /\ Runs("list")
  /\ Goes(IF nfree < top.n - 1
          THEN [top EXCEPT !.at = "run", !.p = Nil, !.n = 0]
          ELSE [top EXCEPT !.at = "tested"])
  /\ UNCHANGED <<head, nfree, memory>>

\* tm->tm_nfree < n: cell by cell instead, by the steps of make_cons.
ListTest ==
  /\ Runs("list")
  /\ Goes(IF nfree < top.n
          THEN [top EXCEPT !.at = "run", !.p = Nil, !.n = 0]
          ELSE [top EXCEPT !.at = "tested"])
  /\ UNCHANGED <<head, nfree, memory>>

\* The region: the cells that follow tail become a list.
ListTake ==
  /\ Runs("tested")
  /\ LET run   == Walk(top.p, top.n)
         taken == {run[i] : i \in 1 .. top.n} \ {Nil} IN
       /\ head' = LinkOf(run[top.n])
       /\ used' = used \cup taken
       /\ isFree' = isFree \ taken
       /\ link' = [c \in Cells |-> IF c \in taken THEN Nil ELSE link[c]]
  /\ nfree' = nfree - top.n
  /\ Goes([top EXCEPT !.at = "run", !.p = Nil, !.n = 0])
  /\ UNCHANGED npage

-------------------------------------------------------------------------------
(* Signal handlers.                                                        *)

\* A handler runs at the level it was invoked at (sigusr1, sigio), or lowers it to
\* sig_normal (terminal_interrupt).
LevelsOf(allowed) == {allowed, "normal"}

\* CHECK_INTERRUPT in alloc_mem and at the end of GBC, and in listqA: the handler
\* is invoked at sig_safe and nothing is saved.
HandlerAtAlloc ==
  /\ Len(stack) <= MaxDepth
  /\ top.at \in {"run", "collected", "list"}
  /\ Runs("list") => "list" \in Windows
  /\ \E level \in LevelsOf("safe") : stack' = Append(stack, Started("safe", level, Nil, Nil))
  /\ UNCHANGED <<head, nfree, memory>>

\* A handler invoked at the level of what it interrupts, with free1 and free2 taken
\* from the list, which goes on with rest.
Interrupts(free1, free2, rest) ==
  /\ Len(stack) <= MaxDepth
  /\ top.level = "safe" => "inSafe" \in Windows
  /\ top.at \in {"count", "tested"} => top.at \in Windows
  /\ \E level \in LevelsOf(top.level) :
       stack' = Append(stack, Started(top.level, level, free1, free2))
  /\ head' = rest
  /\ isFree' = isFree \ {free1, free2}
  /\ nfree' = nfree - Cardinality({free1, free2} \ {Nil})
  /\ UNCHANGED <<link, used, npage>>

\* Mutant of Interrupt: one cell is taken away.
InterruptSavesOne ==
  IF top.level = "normal"
  THEN Interrupts(head, Nil, LinkOf(head))
  ELSE Interrupts(Nil, Nil, head)

\* main_signal_handler, at any other instruction: before_interrupt
\* takes the first two cells away below sig_safe.
Interrupt ==
  IF top.level = "normal"
  THEN Interrupts(head, LinkOf(head), LinkOf(LinkOf(head)))
  ELSE Interrupts(Nil, Nil, head)

\* Mutant of HandlerReturn: a single saved cell is put before the list the handler
\* leaves, as two are.
HandlerReturnKeepsList ==
  /\ Len(stack) > 1 /\ Runs("run")
  /\ IF top.allowed = "normal"
     THEN /\ head' = IF top.free1 = Nil THEN head ELSE top.free1
          /\ isFree' = isFree \cup Saved(top)
          /\ link' = [c \in Cells |->
                        CASE c = top.free2 -> head
                          [] c = top.free1 /\ c # top.free2 ->
                               IF top.free2 = Nil THEN head ELSE top.free2
                          [] OTHER -> link[c]]
          /\ nfree' = nfree + Cardinality(Saved(top))
     ELSE UNCHANGED <<head, isFree, link, nfree>>
  /\ stack' = Front(stack)
  /\ UNCHANGED <<used, npage>>

\* after_interrupt puts the saved cells before the list the handler leaves, or
\* instead of it when there are not two of them.
HandlerReturn ==
  /\ Len(stack) > 1 /\ Runs("run")
  /\ IF top.allowed = "normal"
     THEN /\ head' = top.free1
          /\ isFree' = isFree \cup Saved(top)
          /\ link' = [c \in Cells |->
                        CASE c = top.free2 -> head
                          [] c = top.free1 /\ c # top.free2 -> top.free2
                          [] OTHER -> link[c]]
          /\ nfree' = IF top.free2 # Nil THEN nfree + 2
                      ELSE IF top.free1 # Nil THEN 1 ELSE 0
     ELSE UNCHANGED <<head, isFree, link, nfree>>
  /\ stack' = Front(stack)
  /\ UNCHANGED <<used, npage>>

\* unwind: a throw leaves the handlers above the i-th activity, and sets
\* signals_allowed to sig_normal.
Throw(i) ==
  /\ Runs("run")
  /\ stack' = Append(SubSeq(stack, 1, i - 1),
                     [stack[i] EXCEPT !.at = "run", !.p = Nil, !.tem = Nil, !.n = 0,
                                      !.level = "normal"])
  /\ UNCHANGED <<head, nfree, memory>>

-------------------------------------------------------------------------------
Init ==
  /\ head = Nil
  /\ link = [c \in Cells |-> Nil]
  /\ isFree = {} /\ used = {}
  /\ nfree = 0 /\ npage = 0
  /\ stack = <<Started("normal", "normal", Nil, Nil)>>

Next ==
  \/ Take \/ Next1 \/ Store \/ Count \/ Fill
  \/ Collect \/ Grow \/ Exhausted
  \/ \E c \in Cells : Forget(c)
  \/ \E n \in 1 .. MaxRun : ListBegin(n)
  \/ ListTest \/ ListTake
  \/ HandlerAtAlloc \/ Interrupt \/ HandlerReturn
  \/ \E i \in DOMAIN stack : Throw(i)

Spec == Init /\ [][Next]_vars

-------------------------------------------------------------------------------
Locations == {"run", "next", "store", "count", "fill", "collected", "grown", "list", "tested"}

Activities ==
  [at : Locations, p : Cells \cup {Nil}, tem : Cells \cup {Nil}, n : 0 .. MaxRun,
   level : {"normal", "safe"}, allowed : {"normal", "safe"},
   free1 : Cells \cup {Nil}, free2 : Cells \cup {Nil}]

\* Every link leads to a cell or to the end of the list, and the cells of pages that
\* are not there are not free.
TypeOK ==
  /\ head \in Cells \cup {Nil}
  /\ link \in [Cells -> Cells \cup {Nil}]
  /\ isFree \subseteq 1 .. PerPage * npage
  /\ used \subseteq 1 .. PerPage * npage
  /\ nfree \in Int /\ npage \in 0 .. MaxPages
  /\ stack \in Seq(Activities) /\ Len(stack) \in 1 .. MaxDepth + 1

\* The cells an activity has taken off the list and not yet filled.
Popped(a) == IF a.at \in {"count", "fill"} THEN {a.p} ELSE {}

\* A cell is handed out once: a cell somebody took off the list is not in use, is not
\* the cell of somebody else that was interrupted, and is not saved to come back on
\* the list; and nothing in use is on the list.
NoCellTwice ==
  LET list == OnList IN
    /\ list \cap used = {}
    /\ \A i \in DOMAIN stack :
         /\ (Popped(stack[i]) \cup Saved(stack[i])) \cap (used \cup list) = {}
         /\ Popped(stack[i]) \cap Saved(stack[i]) = {}
         /\ \A j \in DOMAIN stack \ {i} :
              (Popped(stack[i]) \cup Saved(stack[i]))
                \cap (Popped(stack[j]) \cup Saved(stack[j])) = {}

\* The two cells before_interrupt took away are still not free when after_interrupt
\* wants them back ("should not be free"), whatever was collected meanwhile.
SavedKept ==
  \A i \in DOMAIN stack : Saved(stack[i]) \cap isFree = {}

\* Whoever runs between reading tm_free and storing its link is not deceived: the
\* cell it read is the first of the list, and the link it read is that cell's.
PopUndisturbed ==
  /\ top.at \in {"next", "store"} => top.p = head
  /\ Runs("store") => top.tem = LinkOf(head)

\* Once listqA has found tm_nfree large enough, there are that many cells from tail
\* on, each of them free.
RunFits ==
  Runs("tested") =>
    LET run == Walk(top.p, top.n) IN
      /\ top.p = head
      /\ \A i \in 1 .. top.n : run[i] \in isFree /\ \A j \in 1 .. i - 1 : run[i] # run[j]

\* What a cell in use holds is its owner's: no free-list link is written into it, by a
\* sweep or by after_interrupt.
ContentsKept == \A c \in used : link[c] = Nil
===============================================================================
