------------------------------- MODULE HashTable -------------------------------
(***************************************************************************)
(* Hash tables: o/hash.d and lsp/gcl_hash.lsp, whose definitions of        *)
(* gethash, remhash, clrhash, maphash and hash-set replace the C ones in   *)
(* the finished image and call the C functions gethash and                 *)
(* extend_hashtable.                                                       *)
(*                                                                         *)
(* Open addressing with linear probing.  A slot has a key and a value; a   *)
(* slot that was never used holds OBJNULL in both, and remhash clears only *)
(* the key, so that later probes walk over it.  Adding an entry first      *)
(* extends a crowded table: the old slots are copied in order into a new   *)
(* array, one CopySlot each.  A walk (maphash) is a loop over the slots    *)
(* that calls a function, which may do anything to the table.              *)
(***************************************************************************)
EXTENDS Naturals, FiniteSets

CONSTANTS
  Keys, Values,
  NoKey,           \* OBJNULL in a key slot
  ObjNull,         \* OBJNULL in a value slot
  NoValue,         \* the answer NIL, NIL
  Failed,          \* gethash called FEerror
  Yes,             \* the answer T
  HashFunctions,   \* the possible hash functions of the table's test
  Tables,          \* the arguments make-hash-table is called with
  MaxSize          \* bound: a table this large is not extended

ASSUME KeysAssumption ==
  /\ NoKey \notin Keys /\ ObjNull \notin Values /\ NoValue # ObjNull
  /\ HashFunctions \subseteq [Keys -> Nat]
\* What MAKE-HASH-TABLE-INT accepts.  A number is n/d, a fixnum has d = 1.
ASSUME TablesAssumption ==
  /\ MaxSize \in Nat
  /\ \A t \in Tables :
       /\ t.size \in 0 .. MaxSize
       /\ t.rn \in Nat \ {0} /\ t.rd \in Nat \ {0} /\ (t.rd # 1 => t.rn > t.rd)
       /\ t.kind \in {"fixnum", "float", "ratio"}
       /\ t.tn \in Nat /\ t.td \in Nat \ {0}
       /\ IF t.kind = "fixnum" THEN t.td = 1 /\ t.tn <= t.size ELSE t.tn <= t.td

VARIABLES
  hash,        \* the hash function
  made,        \* the arguments of make-hash-table
  self,        \* ht_self: the slots, indexed from 0
  size,        \* ht_size
  nent,        \* ht_nent
  maxEnt,      \* ht_max_ent
  thresh,      \* ht_rhthresh, when it is a fixnum
  old,         \* the slots being copied by extend_hashtable
  copy,        \* where that copy is, and the entry to add after it
  walk,        \* the walk in progress
  reply        \* what the last call returned

table == <<self, size, nent, maxEnt, thresh>>
vars  == <<hash, made, table, old, copy, walk, reply>>

-------------------------------------------------------------------------------
(* Slots and probing.                                                      *)

\* A freed slot keeps its value in Lisp and holds NIL in C; what matters is that
\* the value is not OBJNULL.
Slots == [key : Keys \cup {NoKey}, val : Values \cup {ObjNull, NoValue}]
Never == [key |-> NoKey, val |-> ObjNull]
Freed == [key |-> NoKey, val |-> NoValue]

\* The slot at distance d from the key's own: up to the end, then from the start.
Pos(k, d) ==
  LET s == hash[k] % size IN IF s + d < size THEN s + d ELSE s + d - size

\* The distances a probe for k reaches: it stops at a slot that was never used,
\* and at the key.
Reached(k) ==
  {d \in 0 .. size - 1 : \A e \in 0 .. d - 1 :
     self[Pos(k, e)] # Never /\ self[Pos(k, e)].key # k}

Hits(k)  == {d \in Reached(k) : self[Pos(k, d)].key = k}
Frees(k) == {d \in Reached(k) : self[Pos(k, d)].key = NoKey}

Least(S)   == CHOOSE d \in S : \A e \in S : d <= e
Present(k) == Hits(k) # {}
HasRoom(k) == Present(k) \/ Frees(k) # {}

\* gethash: the index of the key's slot, else of the first free one.
Find(k) == Pos(k, Least(IF Present(k) THEN Hits(k) ELSE Frees(k)))

\* What a question about an absent key returns; a table of size 0 has a dummy
\* slot, and a table without a free slot signals "No free spot in hashtable".
Absent(k) == IF size = 0 \/ HasRoom(k) THEN NoValue ELSE Failed

-------------------------------------------------------------------------------
(* Sizes.                                                                  *)

\* nearbyint: to the nearest integer, half to even.
Nearby(a, b) ==
  LET q == a \div b
      r == a % b
  IN  IF 2 * r < b \/ (2 * r = b /\ q % 2 = 0) THEN q ELSE q + 1

FirstMax(t) ==
  CASE t.kind = "fixnum" -> t.tn
    [] t.kind = "float"  -> Nearby(2 * t.tn * t.size + t.td, 2 * t.td)
    [] OTHER             -> (2 * t.tn * t.size + t.td) \div (2 * t.td)

NewSize == ((size + 1) * made.rn) \div made.rd

\* The new ht_max_ent before it is adjusted, and a mutant of NewMax: the switch of
\* extend_hashtable has no case for a ratio, for which new_max_ent stays 0.
AskedMax ==
  CASE made.kind = "fixnum" -> thresh + NewSize - size
    [] made.kind = "float" -> (2 * made.tn * NewSize + made.td) \div (2 * made.td)
    [] OTHER -> 0

\* The new ht_max_ent.
NewMax == IF AskedMax >= NewSize \/ AskedMax = 0 THEN NewSize - 1 ELSE AskedMax

\* Mutant of Crowded: the entry about to be added is not counted.
CrowdedLate == nent >= maxEnt

\* The test that makes sethash extend the table, before it looks for the key.
Crowded == nent + 1 >= maxEnt

-------------------------------------------------------------------------------
(* Calls.                                                                  *)

\* No copy is under way, and if a walk is, its function is running.
Callable == ~copy.on /\ (walk.on => walk.cur # NoKey)

\* The walk knows whether its function kept to what maphash permits: to change or
\* remove the entry it was called with.  Once it did not, there is nothing to count.
Permitted(k) == walk.on => k = walk.cur /\ Present(k)
Judged(b) ==
  IF b THEN walk
  ELSE [walk EXCEPT !.legal = FALSE, !.start = {}, !.seen = [k \in Keys |-> 0]]
Note(b) == walk' = Judged(b)

\* gethash.
Lookup(k) ==
  /\ Callable
  /\ reply' = IF Present(k) THEN self[Find(k)].val ELSE Absent(k)
  /\ UNCHANGED <<hash, made, table, old, copy, walk>>

\* Mutant of Remove: the freed slot looks as if it had never been used.
RemoveToNever(k) ==
  /\ Callable
  /\ IF Present(k)
     THEN /\ self' = [self EXCEPT ![Find(k)] = Never]
          /\ nent' = nent - 1
          /\ reply' = Yes
          /\ Note(Permitted(k))
     ELSE reply' = Absent(k) /\ UNCHANGED <<self, nent, walk>>
  /\ UNCHANGED <<hash, made, size, maxEnt, thresh, old, copy>>

\* remhash: the slot is free again, and marked as used.
Remove(k) ==
  /\ Callable
  /\ IF Present(k)
     THEN /\ self' = [self EXCEPT ![Find(k)] = Freed]
          /\ nent' = nent - 1
          /\ reply' = Yes
          /\ Note(Permitted(k))
     ELSE reply' = Absent(k) /\ UNCHANGED <<self, nent, walk>>
  /\ UNCHANGED <<hash, made, size, maxEnt, thresh, old, copy>>

\* clrhash.
Clear ==
  /\ Callable
  /\ self' = [j \in DOMAIN self |-> Never]
  /\ nent' = 0
  /\ Note(~walk.on)
  /\ UNCHANGED <<hash, made, size, maxEnt, thresh, old, copy, reply>>

-------------------------------------------------------------------------------
(* hash-set, and the copy extend_hashtable makes.                          *)

\* Mutant of Store: nent counts every store.
StoreCountsAll(k, v) ==
  /\ HasRoom(k)
  /\ self' = [self EXCEPT ![Find(k)] = [key |-> k, val |-> v]]
  /\ nent' = nent + 1
  /\ reply' = v

\* What sethash does after the test.
Store(k, v) ==
  /\ HasRoom(k)
  /\ self' = [self EXCEPT ![Find(k)] = [key |-> k, val |-> v]]
  /\ nent' = IF Present(k) THEN nent ELSE nent + 1
  /\ reply' = v

Put(k, v) ==
  /\ Callable /\ ~Crowded
  /\ Store(k, v)
  /\ Note(Permitted(k))
  /\ UNCHANGED <<hash, made, size, maxEnt, thresh, old, copy>>

\* Mutant of PutGrow: the copy starts at the second slot.
PutGrowFromOne(k, v) ==
  /\ Callable /\ Crowded
  /\ NewSize <= MaxSize
  /\ old' = self
  /\ self' = [j \in 0 .. NewSize - 1 |-> Never]
  /\ size' = NewSize
  /\ thresh' = IF made.kind = "fixnum" THEN thresh + NewSize - size ELSE thresh
  /\ copy' = [on |-> TRUE, i |-> 1, n |-> size, key |-> k, val |-> v, max |-> NewMax]
  /\ walk' = [Judged(Permitted(k)) EXCEPT !.grown = walk.on]
  /\ UNCHANGED <<hash, made, nent, maxEnt, reply>>

\* The table is crowded: start the copy.
PutGrow(k, v) ==
  /\ Callable /\ Crowded
  /\ NewSize <= MaxSize
  /\ old' = self
  /\ self' = [j \in 0 .. NewSize - 1 |-> Never]
  /\ size' = NewSize
  /\ thresh' = IF made.kind = "fixnum" THEN thresh + NewSize - size ELSE thresh
  /\ copy' = [on |-> TRUE, i |-> 0, n |-> size, key |-> k, val |-> v, max |-> NewMax]
  /\ walk' = [Judged(Permitted(k)) EXCEPT !.grown = walk.on]
  /\ UNCHANGED <<hash, made, nent, maxEnt, reply>>

NoCopy == [on |-> FALSE, i |-> 0, n |-> 0, key |-> NoKey, val |-> ObjNull, max |-> 0]

\* One turn of the copying loop.
CopySlot ==
  /\ copy.on /\ copy.i < copy.n
  /\ LET o == old[copy.i] IN
       IF o.key = NoKey THEN UNCHANGED self
       ELSE HasRoom(o.key) /\ self' = [self EXCEPT ![Find(o.key)] = o]
  /\ copy' = [copy EXCEPT !.i = @ + 1]
  /\ UNCHANGED <<hash, made, size, nent, maxEnt, thresh, old, walk, reply>>

\* The copy is complete: store the entry it was made for.
PutGrown ==
  /\ copy.on /\ copy.i = copy.n
  /\ Store(copy.key, copy.val)
  /\ maxEnt' = copy.max
  /\ copy' = NoCopy /\ old' = <<>>
  /\ UNCHANGED <<hash, made, size, thresh, walk>>

-------------------------------------------------------------------------------
(* maphash.                                                                *)

NoWalk == [on |-> FALSE, n |-> 0, i |-> 0, cur |-> NoKey, seen |-> [k \in Keys |-> 0],
           start |-> {}, legal |-> TRUE, grown |-> FALSE]

Entries == {k \in Keys : \E j \in 0 .. size - 1 : self[j].key = k}

\* The number of slots is read once, here.
WalkStart ==
  /\ Callable /\ ~walk.on
  /\ walk' = [NoWalk EXCEPT !.on = TRUE, !.n = size, !.start = Entries]
  /\ UNCHANGED <<hash, made, table, old, copy, reply>>

\* The slots still to be examined that hold an entry.
Ahead == {j \in walk.i .. walk.n - 1 : self[j].key # NoKey}

\* Mutant of After: the loop's index is advanced twice.
AfterTwo(j) == j + 2

After(j) == j + 1

\* The function returned, if it was called, and is called with the next entry.
WalkNext ==
  /\ ~copy.on /\ walk.on /\ Ahead # {}
  /\ LET j == Least(Ahead) IN
       /\ walk' = [walk EXCEPT !.i = After(j), !.cur = self[j].key,
                               !.seen[self[j].key] = IF walk.legal /\ @ < 2 THEN @ + 1 ELSE @]
       /\ reply' = self[j].val
  /\ UNCHANGED <<hash, made, table, old, copy>>

WalkEnd ==
  /\ ~copy.on /\ walk.on /\ Ahead = {}
  /\ walk' = NoWalk
  /\ UNCHANGED <<hash, made, table, old, copy, reply>>

\* The function throws: the loop is gone.
WalkThrow ==
  /\ Callable /\ walk.on
  /\ walk' = NoWalk
  /\ UNCHANGED <<hash, made, table, old, copy, reply>>

-------------------------------------------------------------------------------
(* The specification.                                                      *)

\* MAKE-HASH-TABLE-INT.
Init ==
  /\ hash \in HashFunctions /\ made \in Tables
  /\ size = made.size /\ self = [j \in 0 .. made.size - 1 |-> Never]
  /\ nent = 0 /\ maxEnt = FirstMax(made)
  /\ thresh = made.tn
  /\ old = <<>>
  /\ copy = NoCopy
  /\ walk = NoWalk
  /\ reply = NoValue

Next ==
  \/ \E k \in Keys : Lookup(k) \/ Remove(k)
  \/ \E k \in Keys, v \in Values : Put(k, v) \/ PutGrow(k, v)
  \/ Clear
  \/ CopySlot \/ PutGrown
  \/ WalkStart \/ WalkNext \/ WalkEnd \/ WalkThrow

Spec == Init /\ [][Next]_vars

-------------------------------------------------------------------------------
(* Properties.                                                             *)

Copies == [on : BOOLEAN, i : Nat, n : Nat, key : Keys \cup {NoKey},
           val : Values \cup {ObjNull}, max : Nat]
Walks  == [on : BOOLEAN, n : Nat, i : Nat, cur : Keys \cup {NoKey}, seen : [Keys -> 0 .. 2],
           start : SUBSET Keys, legal : BOOLEAN, grown : BOOLEAN]

Shape ==
  /\ hash \in [Keys -> Nat] /\ made \in Tables
  /\ size \in Nat /\ self \in [0 .. size - 1 -> Slots]
  /\ maxEnt \in Nat /\ thresh \in Nat
  /\ copy \in Copies /\ walk \in Walks
  /\ copy.on => /\ copy.n \in 0 .. size - 1 /\ copy.i \in 0 .. copy.n
                /\ old \in [0 .. copy.n - 1 -> Slots]
                /\ copy.key \in Keys /\ copy.val \in Values /\ copy.max \in 0 .. size - 1
  /\ walk.on => walk.n <= size

\* Types, and the agreement of the bodies and limits with ht_size: an extension
\* always makes the table larger, and the limit it sets leaves a slot free.
TypeOK == Shape /\ nent \in Nat

\* hash.d:386, "Condition 3": a probe for a key that has an entry meets neither a
\* slot that was never used nor another entry for the key before it -- after any
\* history of sets, removals, clearings and extensions, and at every turn of the
\* copying loop.
ConditionThree ==
  \A k \in Keys, d \in 0 .. size - 1 :
    self[Pos(k, d)].key = k =>
      \A e \in 0 .. d - 1 : self[Pos(k, e)] # Never /\ self[Pos(k, e)].key # k

\* The slots of a body that hold an entry.
Held(s) == {j \in DOMAIN s : s[j].key # NoKey}

\* HASH-TABLE-COUNT returns the number of entries: what nent says stays true of
\* the slots through reuse of removed slots and through extensions.
CountExact == ~copy.on => nent = Cardinality(Held(self))

\* No entry is dropped for want of a slot: when sethash does not extend the table,
\* and at every turn of the copying loop, gethash returns a slot for the key.
SetHasRoom ==
  /\ ~copy.on /\ ~Crowded => \A k \in Keys : HasRoom(k)
  /\ copy.on => /\ HasRoom(copy.key)
                /\ \A j \in copy.i .. copy.n - 1 : old[j].key # NoKey => HasRoom(old[j].key)

\* The map a body stands for.
AsMap(s) ==
  LET at(k) == {j \in DOMAIN s : s[j].key = k}
  IN  [k \in {x \in Keys : at(x) # {}} |-> s[CHOOSE j \in at(k) : TRUE].val]

\* The body that is whole: while a table is being copied, the old one.
Whole == IF copy.on THEN old ELSE self

\* The map a table stands for.
Contents == AsMap(Whole)

M == INSTANCE KeyedMap WITH map <- Contents

\* A table answers as a finite map does, whatever its sizes, thresholds and hash
\* function: no call, copy or walk loses, invents or mixes up an entry.
ActsAsMap == M!Spec

\* The walk called its function once for each entry there was when it began.
Complete == \A k \in walk.start : walk.seen[k] = 1
Ending   == walk.on /\ Ahead = {} /\ ~walk'.on

\* A walk whose function only changed or removed the entries it was called with
\* calls it once for each entry there was when it began, unless the table was
\* extended in the meantime.
WalkVisitsAll == [][Ending /\ walk.legal /\ ~walk.grown => Complete]_vars

-------------------------------------------------------------------------------
(* Why they hold.                                                          *)

\* A key has one slot at most.
Unique(s) == \A i, j \in Held(s) : s[i].key = s[j].key => i = j

\* The old body is such, and the new one holds exactly the entries of the part that
\* has been copied.
CopyInv ==
  copy.on =>
    /\ Unique(old)
    /\ \A j \in Held(self) : \E i \in 0 .. copy.i - 1 : old[i] = self[j]
    /\ \A i \in Held(old) : i < copy.i => \E j \in 0 .. size - 1 : self[j] = old[i]

\* nent counts the body that is whole.
CountInv ==
  /\ nent = Cardinality(Held(Whole))
  /\ copy.on => Cardinality(Held(self)) = Cardinality({i \in Held(old) : i < copy.i})

\* A table that is not crowded has a slot that holds no entry.
LimitInv == maxEnt <= size + 1

\* A walk that WalkVisitsAll is about has yet to reach the entries it has not handed
\* out, and has passed those it has; and only an extension copies during a walk.
WalkInv ==
  walk.on =>
    /\ copy.on => walk.grown
    /\ walk.legal /\ ~walk.grown =>
         /\ walk.n = size
         /\ Entries \subseteq walk.start
         /\ walk.cur # NoKey => walk.cur \in walk.start /\ walk.seen[walk.cur] = 1
         /\ \A k \in walk.start :
              \/ walk.seen[k] = 0 /\ \E j \in walk.i .. walk.n - 1 : self[j].key = k
              \/ walk.seen[k] = 1 /\ \A j \in walk.i .. walk.n - 1 : self[j].key # k

\* What every action preserves.
TableInv == Shape /\ ConditionThree /\ CopyInv /\ CountInv /\ LimitInv /\ WalkInv
===============================================================================
