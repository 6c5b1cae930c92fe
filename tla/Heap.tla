---------------------------------- MODULE Heap ----------------------------------
(***************************************************************************)
(* What a garbage collector promises: cells are made, linked and followed  *)
(* by the program, and taken back only when it can no longer reach them.   *)
(* Each cell has one pointer, which stands for its contents.               *)
(***************************************************************************)
EXTENDS Naturals

CONSTANTS
  Cells,
  Nil              \* no cell, and not one of Cells

VARIABLES
  used,            \* the cells that are made and not taken back
  roots,           \* the cells the program holds
  content          \* the pointer of each used cell

vars == <<used, roots, content>>

Closed(S, next) == \A c \in S : next[c] = Nil \/ next[c] \in S

\* The cells reached from a set of cells by way of the pointers next.
Reached(from, next) ==
  {c \in Cells : \A S \in SUBSET DOMAIN next : from \subseteq S /\ Closed(S, next) => c \in S}

Make(c) ==
  /\ c \notin used
  /\ used' = used \cup {c}
  /\ roots' = roots \cup {c}
  /\ content' = [d \in used' |-> IF d = c THEN Nil ELSE content[d]]

Link(c, d) ==
  /\ c \in roots /\ d \in roots
  /\ content' = [content EXCEPT ![c] = d]
  /\ UNCHANGED <<used, roots>>

Fetch(c) ==
  /\ c \in roots /\ content[c] # Nil
  /\ roots' = roots \cup {content[c]}
  /\ UNCHANGED <<used, content>>

Drop(c) ==
  /\ c \in roots
  /\ roots' = roots \ {c}
  /\ UNCHANGED <<used, content>>

Reclaim(garbage) ==
  /\ garbage \cap Reached(roots, content) = {}
  /\ used' = used \ garbage
  /\ content' = [d \in used' |-> content[d]]
  /\ UNCHANGED roots

Init ==
  /\ used = {} /\ roots = {}
  /\ content = [c \in {} |-> Nil]

Next ==
  \/ \E c \in Cells : Make(c) \/ Fetch(c) \/ Drop(c)
  \/ \E c, d \in Cells : Link(c, d)
  \/ \E garbage \in SUBSET Cells : Reclaim(garbage)

Spec == Init /\ [][Next]_vars
===============================================================================
