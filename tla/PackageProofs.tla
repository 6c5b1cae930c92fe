----------------------------- MODULE PackageProofs -----------------------------
(***************************************************************************)
(* Proofs about Package: when callers avoid the cases that the code does   *)
(* not check, a name means one symbol in every package, and keeps meaning  *)
(* it until somebody asks for a change.                                    *)
(*                                                                         *)
(* The second half says how far each unchecked case reaches.  The types    *)
(* survive all of them; a package has a symbol once, and homes are right,  *)
(* unless a symbol is unexported that was not exported; the use lists are  *)
(* right unless make-package is given a package it may not use.            *)
(***************************************************************************)
EXTENDS Package, TLAPS

USE PackageAssumption

Tables == [Packages -> [Symbols -> Nat]]

-------------------------------------------------------------------------------
(* Tables as bags.                                                         *)

LEMMA WithAt ==
  ASSUME NEW table \in Tables, NEW s \in Symbols, NEW p \in Packages
  PROVE  /\ With(table, s, p) \in Tables
         /\ With(table, s, p)[p][s] = table[p][s] + 1
         /\ \A q \in Packages, t \in Symbols :
              q # p \/ t # s => With(table, s, p)[q][t] = table[q][t]
BY DEF With, Tables

LEMMA LessAt ==
  ASSUME NEW table \in Tables, NEW s \in Symbols, NEW p \in Packages
  PROVE  /\ Less(table, s, p) \in Tables
         /\ table[p][s] <= 1 => Less(table, s, p)[p][s] = 0
         /\ \A q \in Packages, t \in Symbols :
              q # p \/ t # s => Less(table, s, p)[q][t] = table[q][t]
<1>1. (IF table[p][s] > 0 THEN table[p][s] - 1 ELSE 0) \in Nat
  BY DEF Tables
<1> QED
  BY <1>1 DEF Less, Tables

-------------------------------------------------------------------------------
(* The invariant.                                                          *)

\* t is in a package that p uses.
Sees(p, t) == \E q \in uses[p] : external[q][t] > 0

Has(p, t) == internal[p][t] > 0 \/ external[p][t] > 0

\* s is in p once, and nothing else of its name is.
Sole(p, s) ==
  /\ internal[p][s] + external[p][s] = 1
  /\ \A t \in Symbols : NameOf[t] = NameOf[s] /\ t # s => internal[p][t] = 0 /\ external[p][t] = 0

Bare(p, n) == \A t \in Symbols : NameOf[t] = n => internal[p][t] = 0 /\ external[p][t] = 0

Shielded(p, n) == \E x \in Symbols : NameOf[x] = n /\ shadowings[p][x] > 0 /\ Has(p, x)

\* NoConflict for a package and a name.
AgreedAt(p, n) ==
  \A s, t \in Symbols :
    NameOf[s] = n /\ NameOf[t] = n /\ s # t /\ Sees(p, t) /\ (Sees(p, s) \/ Has(p, s))
      => Shielded(p, n)

\* A symbol is in its home package.
HomePresent == \A s \in Symbols : home[s] # Nobody => Has(home[s], s)

UnmadeEmpty == \A p \in Packages : state[p] = "unmade" => \A n \in Names : Bare(p, n)

NoSelfUse == \A p \in Packages : p \notin uses[p]

IInv ==
  /\ TypeOK /\ PresentOnce /\ ShadowingsPresent /\ NoConflict /\ Mirrored
  /\ HomePresent /\ UnmadeEmpty /\ NoSelfUse

LEMMA Typed ==
  ASSUME TypeOK
  PROVE  /\ internal \in Tables /\ external \in Tables /\ shadowings \in Tables
         /\ \A p \in Packages, s \in Symbols :
              internal[p][s] \in Nat /\ external[p][s] \in Nat /\ shadowings[p][s] \in Nat
         /\ \A p \in Packages : uses[p] \subseteq Packages
BY DEF TypeOK, Tables

LEMMA TypedNext ==
  (TypeOK =>
     /\ \A p \in Packages, s \in Symbols :
          internal[p][s] \in Nat /\ external[p][s] \in Nat /\ shadowings[p][s] \in Nat
     /\ \A p \in Packages : uses[p] \subseteq Packages)'
<1>1. TypeOK =>
        /\ \A p \in Packages, s \in Symbols :
             internal[p][s] \in Nat /\ external[p][s] \in Nat /\ shadowings[p][s] \in Nat
        /\ \A p \in Packages : uses[p] \subseteq Packages
  BY Typed
<1> QED
  BY <1>1, PTL

LEMMA OnceIs ==
  ASSUME TypeOK
  PROVE  PresentOnce <=>
           \A p \in Packages, n \in Names :
             Bare(p, n) \/ \E s \in Symbols : NameOf[s] = n /\ Sole(p, s)
<1>1. ASSUME PresentOnce, NEW p \in Packages, NEW n \in Names, ~Bare(p, n)
      PROVE  \E s \in Symbols : NameOf[s] = n /\ Sole(p, s)
  <2>1. PICK s \in Symbols : NameOf[s] = n /\ ~(internal[p][s] = 0 /\ external[p][s] = 0)
    BY <1>1 DEF Bare
  <2>2. internal[p][s] + external[p][s] > 0
    BY <2>1, Typed
  <2>3. internal[p][s] + external[p][s] = 1
    BY <1>1, <2>2 DEF PresentOnce
  <2>4. ASSUME NEW t \in Symbols, NameOf[t] = NameOf[s], t # s
        PROVE  internal[p][t] = 0 /\ external[p][t] = 0
    <3>1. internal[p][t] + external[p][t] = 0
      BY <1>1, <2>2, <2>4 DEF PresentOnce
    <3> QED
      BY <3>1, Typed
  <2> QED
    BY <2>1, <2>3, <2>4 DEF Sole
<1>2. ASSUME \A p \in Packages, n \in Names :
               Bare(p, n) \/ \E s \in Symbols : NameOf[s] = n /\ Sole(p, s)
      PROVE  PresentOnce
  <2> SUFFICES ASSUME NEW p \in Packages, NEW s \in Symbols, NEW t \in Symbols,
                      NameOf[s] = NameOf[t], internal[p][s] + external[p][s] > 0
               PROVE  IF s = t THEN internal[p][s] + external[p][s] = 1
                               ELSE internal[p][t] + external[p][t] = 0
    BY DEF PresentOnce
  <2>1. ~Bare(p, NameOf[s])
    BY Typed DEF Bare
  <2>2. PICK x \in Symbols : NameOf[x] = NameOf[s] /\ Sole(p, x)
    BY <1>2, <2>1
  <2>3. x = s
    BY <2>2, Typed DEF Sole
  <2> QED
    BY <2>2, <2>3, Typed DEF Sole
<1> QED
  BY <1>1, <1>2

LEMMA AgreedIs ==
  ASSUME TypeOK
  PROVE  NoConflict <=> \A p \in Linked, n \in Names : AgreedAt(p, n)
<1>1. \A p \in Packages, t \in Symbols, n \in Names :
        t \in Inherited(n, p) <=> NameOf[t] = n /\ Sees(p, t)
  BY DEF Inherited, In, Sees
<1>2. \A p \in Packages, t \in Symbols :
        internal[p][t] + external[p][t] > 0 <=> Has(p, t)
  BY Typed DEF Has
<1>3. Linked \subseteq Packages /\ \A t \in Symbols : NameOf[t] \in Names
  BY DEF Linked
<1>4. ASSUME NoConflict, NEW p \in Linked, NEW n \in Names
      PROVE  AgreedAt(p, n)
  <2> SUFFICES ASSUME NEW s \in Symbols, NEW t \in Symbols,
                      NameOf[s] = n, NameOf[t] = n, s # t, Sees(p, t), Sees(p, s) \/ Has(p, s)
               PROVE  Shielded(p, n)
    BY DEF AgreedAt
  <2>1. /\ t \in Inherited(NameOf[t], p)
        /\ s \in Inherited(NameOf[s], p) \/ internal[p][s] + external[p][s] > 0
    BY <1>1, <1>2, <1>3
  <2>2. \E x \in Symbols : /\ NameOf[x] = NameOf[s] /\ shadowings[p][x] > 0
                           /\ internal[p][x] + external[p][x] > 0
    BY <1>4, <2>1 DEF NoConflict
  <2> QED
    BY <1>2, <1>3, <2>2 DEF Shielded
<1>5. ASSUME \A p \in Linked, n \in Names : AgreedAt(p, n)
      PROVE  NoConflict
  <2> SUFFICES ASSUME NEW p \in Linked, NEW s \in Symbols, NEW t \in Symbols,
                      NameOf[s] = NameOf[t], s # t, t \in Inherited(NameOf[t], p),
                      s \in Inherited(NameOf[s], p) \/ internal[p][s] + external[p][s] > 0
               PROVE  \E x \in Symbols : /\ NameOf[x] = NameOf[s] /\ shadowings[p][x] > 0
                                         /\ internal[p][x] + external[p][x] > 0
    BY DEF NoConflict
  <2>1. Sees(p, t) /\ (Sees(p, s) \/ Has(p, s))
    BY <1>1, <1>2, <1>3
  <2>2. Shielded(p, NameOf[s])
    BY <1>3, <1>5, <2>1 DEF AgreedAt
  <2> QED
    BY <1>2, <1>3, <2>2 DEF Shielded
<1> QED
  BY <1>4, <1>5

LEMMA OnceIsNext ==
  (TypeOK =>
     (PresentOnce <=>
        \A p \in Packages, n \in Names :
          Bare(p, n) \/ \E s \in Symbols : NameOf[s] = n /\ Sole(p, s)))'
<1>1. TypeOK =>
        (PresentOnce <=>
           \A p \in Packages, n \in Names :
             Bare(p, n) \/ \E s \in Symbols : NameOf[s] = n /\ Sole(p, s))
  BY OnceIs
<1> QED
  BY <1>1, PTL

LEMMA AgreedIsNext ==
  (TypeOK => (NoConflict <=> \A p \in Linked, n \in Names : AgreedAt(p, n)))'
<1>1. TypeOK => (NoConflict <=> \A p \in Linked, n \in Names : AgreedAt(p, n))
  BY AgreedIs
<1> QED
  BY <1>1, PTL

LEMMA HomeIs ==
  ASSUME TypeOK
  PROVE  HomePresent <=> \A q \in Packages, t \in Symbols : home[t] = q => Has(q, t)
BY DEF TypeOK, HomePresent

LEMMA HomeIsNext ==
  (TypeOK => (HomePresent <=> \A q \in Packages, t \in Symbols : home[t] = q => Has(q, t)))'
<1>1. TypeOK => (HomePresent <=> \A q \in Packages, t \in Symbols : home[t] = q => Has(q, t))
  BY HomeIs
<1> QED
  BY <1>1, PTL

-------------------------------------------------------------------------------
(* What find_symbol finds.                                                 *)

\* The three cases of a name n in p.
FoundPresent(p, n, x) ==
  /\ NameOf[x] = n /\ Sole(p, x) /\ Find(n, p) = x /\ Present(n, p)
  /\ Flag(n, p) = IF internal[p][x] > 0 THEN "internal" ELSE "external"

FoundInherited(p, n, x) ==
  /\ NameOf[x] = n /\ Bare(p, n) /\ Sees(p, x) /\ Find(n, p) = x /\ ~Present(n, p)
  /\ Flag(n, p) = "inherited"

FoundNone(p, n) ==
  /\ Bare(p, n) /\ (\A t \in Symbols : NameOf[t] = n => ~Sees(p, t))
  /\ Find(n, p) = Nobody /\ ~Present(n, p) /\ Flag(n, p) = "none"

LEMMA FindIs ==
  ASSUME TypeOK, PresentOnce, NEW p \in Packages, NEW n \in Names
  PROVE  \/ \E x \in Symbols : FoundPresent(p, n, x) \/ FoundInherited(p, n, x)
         \/ FoundNone(p, n)
<1>1. \A t \in Symbols : t \in Inherited(n, p) <=> NameOf[t] = n /\ Sees(p, t)
  BY DEF Inherited, In, Sees
<1>2. CASE \E s \in Symbols : NameOf[s] = n /\ Sole(p, s)
  <2>1. PICK s \in Symbols : NameOf[s] = n /\ Sole(p, s)
    BY <1>2
  <2>2. internal[p][s] \in Nat /\ external[p][s] \in Nat
    BY Typed
  <2>3. CASE internal[p][s] > 0
    <3>1. In(internal, n, p) = {s}
      BY <2>1, <2>3 DEF In, Sole
    <3>2. Flag(n, p) = "internal"
      BY <3>1 DEF Flag
    <3>3. Find(n, p) = s
      BY <3>1, <3>2 DEF Find
    <3> QED
      BY <2>1, <2>3, <3>2, <3>3 DEF FoundPresent, Present
  <2>4. CASE ~(internal[p][s] > 0)
    <3>1. external[p][s] > 0
      BY <2>1, <2>2, <2>4 DEF Sole
    <3>2. In(internal, n, p) = {} /\ In(external, n, p) = {s}
      BY <2>1, <2>4, <3>1 DEF In, Sole
    <3>3. Flag(n, p) = "external"
      BY <3>2 DEF Flag
    <3>4. Find(n, p) = s
      BY <3>2, <3>3 DEF Find
    <3> QED
      BY <2>1, <2>4, <3>3, <3>4 DEF FoundPresent, Present
  <2> QED
    BY <2>3, <2>4
<1>3. CASE Bare(p, n)
  <2>1. In(internal, n, p) = {} /\ In(external, n, p) = {}
    BY <1>3 DEF In, Bare
  <2>2. CASE Inherited(n, p) = {}
    <3>1. Flag(n, p) = "none"
      BY <2>1, <2>2 DEF Flag
    <3>2. Find(n, p) = Nobody
      BY <3>1 DEF Find
    <3> QED
      BY <1>1, <1>3, <2>2, <3>1, <3>2 DEF FoundNone, Present
  <2>3. CASE Inherited(n, p) # {}
    <3>1. Flag(n, p) = "inherited"
      BY <2>1, <2>3 DEF Flag
    <3>2. Inherited(n, p) \subseteq Symbols
      BY DEF Inherited, In
    <3>3. Find(n, p) = CHOOSE s \in Symbols : s \in Inherited(n, p)
      BY <3>1 DEF Find
    <3>4. Find(n, p) \in Symbols /\ Find(n, p) \in Inherited(n, p)
      BY <2>3, <3>2, <3>3
    <3> QED
      BY <1>1, <1>3, <3>1, <3>4 DEF FoundInherited, Present
  <2> QED
    BY <2>2, <2>3
<1> QED
  BY <1>2, <1>3, OnceIs

LEMMA FindIsNext ==
  (TypeOK /\ PresentOnce =>
     \A p \in Packages, n \in Names :
       \/ \E x \in Symbols : FoundPresent(p, n, x) \/ FoundInherited(p, n, x)
       \/ FoundNone(p, n))'
<1>1. TypeOK /\ PresentOnce =>
        \A p \in Packages, n \in Names :
          \/ \E x \in Symbols : FoundPresent(p, n, x) \/ FoundInherited(p, n, x)
          \/ FoundNone(p, n)
  BY FindIs
<1> QED
  BY <1>1, PTL

\* What a test without complaint means: another symbol of the name that p sees or has
\* is kept apart from s.
LEMMA AgreesIs ==
  ASSUME IInv, NEW p \in Linked, NEW s \in Symbols, Agrees(s, p),
         NEW t \in Symbols, NameOf[t] = NameOf[s], t # s, Sees(p, t) \/ Has(p, t)
  PROVE  Shielded(p, NameOf[s]) \/ Sole(p, s)
<1>1. TypeOK /\ PresentOnce /\ p \in Packages /\ NameOf[s] \in Names /\ s # Nobody
  BY DEF IInv, Linked
<1>2. PICK n : n = NameOf[s]
  OBVIOUS
<1>3. CASE \E x \in Symbols : FoundPresent(p, n, x)
  <2>1. PICK x \in Symbols : FoundPresent(p, n, x)
    BY <1>3
  <2>2. CASE x = s
    BY <1>2, <2>1, <2>2 DEF FoundPresent
  <2>3. CASE x # s
    <3>1. Find(NameOf[s], p) = x /\ x \notin {s, Nobody}
      BY <1>2, <2>1, <2>3 DEF FoundPresent
    <3>2. shadowings[p][x] > 0
      BY <3>1 DEF Agrees
    <3>3. Has(p, x)
      BY <1>1, <2>1, Typed DEF FoundPresent, Sole, Has
    <3> QED
      BY <1>2, <2>1, <3>2, <3>3 DEF Shielded, FoundPresent
  <2> QED
    BY <2>2, <2>3
<1>4. CASE \E x \in Symbols : FoundInherited(p, n, x)
  <2>1. PICK x \in Symbols : FoundInherited(p, n, x)
    BY <1>4
  <2>2. Sees(p, t)
    BY <1>1, <1>2, <2>1 DEF FoundInherited, Bare, Has
  <2>3. CASE x = s
    <3>1. AgreedAt(p, n)
      BY <1>1, <1>2, AgreedIs DEF IInv
    <3> QED
      BY <1>2, <2>1, <2>2, <2>3, <3>1 DEF AgreedAt, FoundInherited
  <2>4. CASE x # s
    <3>1. shadowings[p][x] > 0
      BY <1>2, <2>1, <2>4 DEF Agrees, FoundInherited
    <3>2. internal[p][x] + external[p][x] = 1
      BY <1>1, <3>1 DEF IInv, ShadowingsPresent
    <3> QED
      BY <1>1, <2>1, <3>2 DEF FoundInherited, Bare
  <2> QED
    BY <2>3, <2>4
<1>5. CASE FoundNone(p, n)
  BY <1>1, <1>2, <1>5 DEF FoundNone, Bare, Has
<1> QED
  BY <1>1, <1>2, <1>3, <1>4, <1>5, FindIs

-------------------------------------------------------------------------------
(* Steps that change one package, in the symbols of one name.              *)

Focused(p, n) ==
  /\ keyword' = keyword /\ state' = state /\ uses' = uses /\ usedBy' = usedBy
  /\ \A q \in Packages, t \in Symbols :
       q # p \/ NameOf[t] # n =>
         /\ internal'[q][t] = internal[q][t]
         /\ external'[q][t] = external[q][t]
         /\ shadowings'[q][t] = shadowings[q][t]

\* A shadowing symbol of name n is in the package once.
ShadowedAt(p, n) ==
  \A t \in Symbols :
    NameOf[t] = n /\ shadowings[p][t] > 0 =>
      shadowings[p][t] = 1 /\ internal[p][t] + external[p][t] = 1

\* The users of p agree on n.
UsersAgree(p, n) == \A u \in Linked : p \in uses[u] => AgreedAt(u, n)

LEMMA FocusedInv ==
  ASSUME IInv, TypeOK', NEW p \in Linked, NEW n \in Names, Focused(p, n),
         Bare(p, n)' \/ (\E s \in Symbols : NameOf[s] = n /\ Sole(p, s)'),
         ShadowedAt(p, n)', AgreedAt(p, n)', UsersAgree(p, n)', HomePresent'
  PROVE  IInv'
<1>1. /\ TypeOK /\ PresentOnce /\ ShadowingsPresent /\ NoConflict /\ Mirrored
      /\ UnmadeEmpty /\ NoSelfUse /\ p \in Packages
  BY DEF IInv, Linked
<1>2. /\ keyword' = keyword /\ state' = state /\ uses' = uses /\ usedBy' = usedBy
      /\ Linked' = Linked
  BY DEF Focused, Linked
<1>3. PresentOnce'
  <2> SUFFICES ASSUME NEW q \in Packages, NEW m \in Names
               PROVE  Bare(q, m)' \/ \E s \in Symbols : NameOf[s] = m /\ Sole(q, s)'
    BY OnceIsNext
  <2>1. CASE q = p /\ m = n
    BY <2>1
  <2>2. CASE q # p \/ m # n
    <3>1. \A t \in Symbols : NameOf[t] = m =>
            internal'[q][t] = internal[q][t] /\ external'[q][t] = external[q][t]
      BY <2>2 DEF Focused
    <3>2. Bare(q, m) => Bare(q, m)'
      BY <3>1 DEF Bare
    <3>3. \A s \in Symbols : NameOf[s] = m /\ Sole(q, s) => Sole(q, s)'
      BY <3>1 DEF Sole
    <3> QED
      BY <1>1, <3>2, <3>3, OnceIs
  <2> QED
    BY <2>1, <2>2
<1>4. ShadowingsPresent'
  <2> SUFFICES ASSUME NEW q \in Packages, NEW t \in Symbols, shadowings'[q][t] > 0
               PROVE  shadowings'[q][t] = 1 /\ internal'[q][t] + external'[q][t] = 1
    BY DEF ShadowingsPresent
  <2>1. CASE q = p /\ NameOf[t] = n
    BY <2>1 DEF ShadowedAt
  <2>2. CASE q # p \/ NameOf[t] # n
    BY <1>1, <2>2 DEF Focused, ShadowingsPresent
  <2> QED
    BY <2>1, <2>2
<1>5. NoConflict'
  <2> SUFFICES ASSUME NEW u \in Linked, NEW m \in Names
               PROVE  AgreedAt(u, m)'
    BY <1>2, AgreedIsNext
  <2>1. CASE m = n /\ (u = p \/ p \in uses[u])
    BY <1>2, <2>1 DEF UsersAgree
  <2>2. CASE ~(m = n /\ (u = p \/ p \in uses[u]))
    <3>1. u \in Packages /\ uses[u] \subseteq Packages /\ uses'[u] = uses[u]
      BY <1>1, <1>2, Typed DEF Linked
    <3>2. \A t \in Symbols : NameOf[t] = m =>
            /\ \A q \in uses[u] : external'[q][t] = external[q][t]
            /\ internal'[u][t] = internal[u][t]
            /\ external'[u][t] = external[u][t]
            /\ shadowings'[u][t] = shadowings[u][t]
      BY <2>2, <3>1 DEF Focused
    <3>3. \A t \in Symbols : NameOf[t] = m =>
            (Sees(u, t)' <=> Sees(u, t)) /\ (Has(u, t)' <=> Has(u, t))
      BY <3>1, <3>2 DEF Sees, Has
    <3>4. Shielded(u, m) => Shielded(u, m)'
      BY <3>2, <3>3 DEF Shielded
    <3>5. AgreedAt(u, m)
      BY <1>1, AgreedIs
    <3> QED
      BY <3>3, <3>4, <3>5 DEF AgreedAt
  <2> QED
    BY <2>1, <2>2
<1>6. Mirrored' /\ NoSelfUse'
  BY <1>1, <1>2 DEF Mirrored, NoSelfUse
<1>7. UnmadeEmpty'
  <2> SUFFICES ASSUME NEW q \in Packages, state[q] = "unmade", NEW m \in Names
               PROVE  Bare(q, m)'
    BY <1>2 DEF UnmadeEmpty
  <2>1. q # p
    BY DEF Linked
  <2> QED
    BY <1>1, <2>1 DEF UnmadeEmpty, Bare, Focused
<1> QED
  BY <1>3, <1>4, <1>5, <1>6, <1>7 DEF IInv

\* The users of a package agree still if it exports nothing new.
LEMMA QuietUsers ==
  ASSUME IInv, NEW p \in Linked, NEW n \in Names, Focused(p, n),
         \A t \in Symbols : NameOf[t] = n /\ external'[p][t] > 0 => external[p][t] > 0
  PROVE  UsersAgree(p, n)'
<1>1. TypeOK /\ NoConflict /\ NoSelfUse /\ uses' = uses /\ Linked' = Linked
  BY DEF IInv, Focused, Linked
<1> SUFFICES ASSUME NEW u \in Linked, p \in uses[u]
             PROVE  AgreedAt(u, n)'
  BY <1>1 DEF UsersAgree
<1>2. u \in Packages /\ u # p /\ uses[u] \subseteq Packages
  BY <1>1, Typed DEF Linked, NoSelfUse
<1>3. \A t \in Symbols : NameOf[t] = n => (Sees(u, t)' => Sees(u, t))
  BY <1>1, <1>2 DEF Sees, Focused
<1>4. \A t \in Symbols :
        (Has(u, t)' <=> Has(u, t)) /\ shadowings'[u][t] = shadowings[u][t]
  BY <1>2 DEF Has, Focused
<1>5. Shielded(u, n) => Shielded(u, n)'
  BY <1>4 DEF Shielded
<1>6. AgreedAt(u, n)
  BY <1>1, AgreedIs
<1> QED
  BY <1>3, <1>4, <1>5, <1>6 DEF AgreedAt

\* The same, with conditions that most of the operations meet.
LEMMA Focus ==
  ASSUME IInv, TypeOK', NEW p \in Linked, NEW n \in Names, Focused(p, n),
         Bare(p, n)' \/ (\E s \in Symbols : NameOf[s] = n /\ Sole(p, s)'),
         ShadowedAt(p, n)',
         \/ Shielded(p, n)'
         \/ /\ Shielded(p, n) => Shielded(p, n)'
            /\ \A t \in Symbols : NameOf[t] = n /\ Has(p, t)' => Has(p, t) \/ Sees(p, t)
         \/ \A t \in Symbols : NameOf[t] = n => ~Sees(p, t),
         \/ p = keyword
         \/ \A t \in Symbols : NameOf[t] = n /\ external'[p][t] > 0 => external[p][t] > 0,
         HomePresent'
  PROVE  IInv'
<1>1. /\ TypeOK /\ NoConflict /\ NoSelfUse /\ Mirrored /\ p \in Packages
      /\ uses' = uses /\ Linked' = Linked
  BY DEF IInv, Focused, Linked
<1>2. \A t \in Symbols : Sees(p, t)' <=> Sees(p, t)
  <2>1. uses[p] \subseteq Packages /\ p \notin uses[p]
    BY <1>1, Typed DEF NoSelfUse
  <2>2. \A q \in uses[p], t \in Symbols : external'[q][t] = external[q][t]
    BY <2>1 DEF Focused
  <2> QED
    BY <1>1, <2>2 DEF Sees
<1>3. AgreedAt(p, n)
  BY <1>1, AgreedIs
<1>4. AgreedAt(p, n)'
  BY <1>2, <1>3 DEF AgreedAt
<1>5. UsersAgree(p, n)'
  <2>1. CASE p = keyword
    <3>1. \A u \in Linked : p \notin uses[u]
      BY <1>1, <2>1 DEF Mirrored, Linked
    <3> QED
      BY <1>1, <3>1 DEF UsersAgree
  <2>2. CASE p # keyword
    BY <2>2, QuietUsers
  <2> QED
    BY <2>1, <2>2
<1> QED
  BY <1>4, <1>5, FocusedInv

-------------------------------------------------------------------------------
(* The operations on symbols.                                              *)

LEMMA InternInv ==
  ASSUME IInv, NEW s \in Symbols, NEW p \in Packages, Intern(s, p)
  PROVE  IInv'
<1>1. /\ TypeOK /\ PresentOnce /\ ShadowingsPresent /\ HomePresent /\ p \in Linked
      /\ Nobody \notin Packages
  BY DEF IInv, Intern
<1>2. PICK n \in Names : n = NameOf[s]
  OBVIOUS
<1>3. FoundNone(p, n)
  BY <1>1, <1>2, FindIs DEF Intern, FoundPresent, FoundInherited
<1>4. internal[p][s] = 0 /\ external[p][s] = 0
  BY <1>2, <1>3 DEF FoundNone, Bare
<1>5. /\ internal' \in Tables /\ external' \in Tables
      /\ internal'[p][s] + external'[p][s] = 1
      /\ \A q \in Packages, t \in Symbols : q # p \/ t # s =>
           internal'[q][t] = internal[q][t] /\ external'[q][t] = external[q][t]
      /\ p # keyword => external' = external
  <2>1. internal \in Tables /\ external \in Tables
    BY <1>1, Typed
  <2>2. CASE p = keyword
    BY <1>1, <1>4, <2>1, <2>2, WithAt DEF Intern, Linked
  <2>3. CASE p # keyword
    BY <1>1, <1>4, <2>1, <2>3, WithAt DEF Intern, Linked
  <2> QED
    BY <2>2, <2>3
<1>6. TypeOK'
  BY <1>1, <1>5 DEF Intern, TypeOK, Tables
<1>7. Focused(p, n)
  BY <1>2, <1>5 DEF Focused, Intern
<1>8. Sole(p, s)'
  BY <1>2, <1>3, <1>5 DEF Sole, FoundNone, Bare
<1>9. ShadowedAt(p, n)'
  <2>1. \A t \in Symbols : NameOf[t] = n => internal[p][t] + external[p][t] = 0
    BY <1>3 DEF FoundNone, Bare
  <2>2. \A t \in Symbols : NameOf[t] = n => ~(shadowings[p][t] > 0)
    BY <1>1, <2>1 DEF ShadowingsPresent
  <2> QED
    BY <2>2 DEF ShadowedAt, Intern
<1>10. HomePresent'
  <2> SUFFICES ASSUME NEW q \in Packages, NEW t \in Symbols, home'[t] = q
               PROVE  Has(q, t)'
    BY <1>6, HomeIsNext
  <2>1. CASE t = s /\ q = p
    BY <1>5, <2>1 DEF Has, Tables
  <2>2. CASE ~(t = s /\ q = p)
    <3>1. home[t] = q
      BY <1>1, <2>2 DEF Intern, TypeOK
    <3>2. Has(q, t)
      BY <1>1, <3>1, HomeIs
    <3> QED
      BY <1>5, <2>2, <3>2 DEF Has
  <2> QED
    BY <2>1, <2>2
<1> QED
  BY <1>1, <1>2, <1>3, <1>5, <1>6, <1>7, <1>8, <1>9, <1>10, Focus DEF FoundNone

\* The symbol that find_symbol finds in the package itself.
LEMMA PresentIs ==
  ASSUME TypeOK, PresentOnce, NEW p \in Packages, NEW n \in Names, Present(n, p)
  PROVE  \E x \in Symbols : x = Find(n, p) /\ FoundPresent(p, n, x)
BY FindIs DEF FoundPresent, FoundInherited, FoundNone

LEMMA UninternInv ==
  ASSUME IInv, NEW s \in Symbols, NEW p \in Packages, Unintern(s, p)
  PROVE  IInv'
<1>1. /\ TypeOK /\ PresentOnce /\ ShadowingsPresent /\ HomePresent /\ Mirrored /\ NoSelfUse
      /\ p \in Linked
  BY DEF IInv, Unintern
<1>2. PICK n \in Names : n = NameOf[s]
  OBVIOUS
<1>3. FoundPresent(p, n, s)
  BY <1>1, <1>2, PresentIs DEF Unintern
<1>4. /\ internal \in Tables /\ external \in Tables /\ shadowings \in Tables
      /\ internal[p][s] \in Nat /\ external[p][s] \in Nat /\ shadowings[p][s] \in Nat
  BY <1>1, Typed
<1>5. /\ internal' \in Tables /\ external' \in Tables
      /\ internal'[p][s] = 0 /\ external'[p][s] = 0
      /\ \A q \in Packages, t \in Symbols : q # p \/ t # s =>
           internal'[q][t] = internal[q][t] /\ external'[q][t] = external[q][t]
      /\ \A t \in Symbols : external'[p][t] > 0 => external[p][t] > 0
  <2>1. CASE internal[p][s] > 0
    <3>1. Flag(n, p) = "internal" /\ internal[p][s] = 1 /\ external[p][s] = 0
      BY <1>3, <1>4, <2>1 DEF FoundPresent, Sole
    <3>2. internal' = Less(internal, s, p) /\ external' = external
      BY <1>2, <3>1 DEF Unintern
    <3> QED
      BY <1>4, <3>1, <3>2, LessAt
  <2>2. CASE ~(internal[p][s] > 0)
    <3>1. Flag(n, p) # "internal" /\ internal[p][s] = 0 /\ external[p][s] = 1
      BY <1>3, <1>4, <2>2 DEF FoundPresent, Sole
    <3>2. external' = Less(external, s, p) /\ internal' = internal
      BY <1>2, <3>1 DEF Unintern
    <3> QED
      BY <1>4, <3>1, <3>2, LessAt
  <2> QED
    BY <2>1, <2>2
<1>6. /\ shadowings' \in Tables
      /\ shadowings'[p][s] = 0
      /\ \A q \in Packages, t \in Symbols : q # p \/ t # s =>
           shadowings'[q][t] = shadowings[q][t]
  <2>1. shadowings[p][s] <= 1
    BY <1>1, <1>4 DEF ShadowingsPresent
  <2>2. shadowings' = Less(shadowings, s, p)
    BY DEF Unintern
  <2> QED
    BY <1>4, <2>1, <2>2, LessAt
<1>7. TypeOK'
  <2>1. home' \in [Symbols -> Packages \cup {Nobody}]
    BY <1>1 DEF Unintern, Homeless, TypeOK
  <2> QED
    BY <1>1, <1>5, <1>6, <2>1 DEF Unintern, TypeOK, Tables
<1>8. Focused(p, n)
  BY <1>2, <1>5, <1>6 DEF Focused, Unintern
<1>9. Bare(p, n)'
  BY <1>2, <1>3, <1>5 DEF Bare, FoundPresent, Sole
<1>10. \A t \in Symbols : NameOf[t] = n => shadowings'[p][t] = 0
  <2> SUFFICES ASSUME NEW t \in Symbols, NameOf[t] = n, t # s
               PROVE  shadowings[p][t] = 0
    BY <1>6
  <2>1. internal[p][t] + external[p][t] = 0
    BY <1>3 DEF FoundPresent, Sole
  <2> QED
    BY <1>1, <2>1, Typed DEF ShadowingsPresent
<1>11. ShadowedAt(p, n)'
  BY <1>10 DEF ShadowedAt
<1>12. HomePresent'
  <2> SUFFICES ASSUME NEW q \in Packages, NEW t \in Symbols, home'[t] = q
               PROVE  Has(q, t)'
    BY <1>7, HomeIsNext
  <2>1. home[t] = q /\ ~(t = s /\ q = p)
    BY <1>1 DEF Unintern, Homeless, TypeOK
  <2>2. Has(q, t)
    BY <1>1, <2>1, HomeIs
  <2> QED
    BY <1>5, <2>1, <2>2 DEF Has
<1>13. CASE shadowings[p][s] = 0
  <2>1. ~Shielded(p, n)
    BY <1>1, <1>3, <1>4, <1>13 DEF Shielded, FoundPresent, Sole, Has
  <2> QED
    BY <1>1, <1>5, <1>7, <1>8, <1>9, <1>11, <1>12, <2>1, Focus DEF Bare, Has
<1>14. CASE shadowings[p][s] # 0
  <2>1. NoClash(n, p)
    BY <1>2, <1>4, <1>14 DEF Unintern
  <2>2. uses' = uses /\ uses[p] \subseteq Packages /\ p \notin uses[p]
    BY <1>1, <1>8, Typed DEF NoSelfUse, Focused
  <2>3. ASSUME NEW q \in uses[p], NEW t \in Symbols, NameOf[t] = n, external'[q][t] > 0
        PROVE  Flag(n, q) = "external" /\ Find(n, q) = t
    <3>1. external[q][t] > 0 /\ q \in Packages
      BY <1>5, <2>2, <2>3
    <3>2. PICK x \in Symbols : FoundPresent(q, n, x)
      BY <1>1, <2>3, <3>1, FindIs DEF FoundInherited, FoundNone, Bare
    <3>3. t = x
      BY <2>3, <3>1, <3>2 DEF FoundPresent, Sole
    <3>4. internal[q][x] \in Nat /\ external[q][x] \in Nat
      BY <1>1, <3>1, Typed
    <3>5. ~(internal[q][x] > 0)
      BY <3>1, <3>2, <3>3, <3>4 DEF FoundPresent, Sole
    <3> QED
      BY <3>2, <3>3, <3>5 DEF FoundPresent
  <2>4. ASSUME NEW t \in Symbols, NEW x \in Symbols, NameOf[t] = n, NameOf[x] = n,
               Sees(p, t)', Sees(p, x)'
        PROVE  t = x
    <3>1. PICK q \in uses[p] : external'[q][t] > 0
      BY <2>2, <2>4 DEF Sees
    <3>2. PICK r \in uses[p] : external'[r][x] > 0
      BY <2>2, <2>4 DEF Sees
    <3> QED
      BY <2>1, <2>3, <2>4, <3>1, <3>2 DEF NoClash
  <2>5. AgreedAt(p, n)'
    BY <1>9, <2>4 DEF AgreedAt, Bare, Has
  <2>6. UsersAgree(p, n)'
    BY <1>1, <1>5, <1>8, QuietUsers
  <2> QED
    BY <1>1, <1>7, <1>8, <1>9, <1>11, <1>12, <2>5, <2>6, FocusedInv
<1> QED
  BY <1>13, <1>14

\* A symbol that is found is there, or is seen where none of its name is.
LEMMA FoundIs ==
  ASSUME TypeOK, PresentOnce, NEW p \in Packages, NEW s \in Symbols, Find(NameOf[s], p) = s
  PROVE  FoundPresent(p, NameOf[s], s) \/ FoundInherited(p, NameOf[s], s)
<1>1. s # Nobody /\ NameOf[s] \in Names
  OBVIOUS
<1> QED
  BY <1>1, FindIs DEF FoundPresent, FoundInherited, FoundNone

LEMMA ExportInv ==
  ASSUME IInv, NEW s \in Symbols, NEW p \in Packages, Export(s, p)
  PROVE  IInv'
<1>1. /\ TypeOK /\ PresentOnce /\ ShadowingsPresent /\ NoConflict /\ HomePresent /\ Mirrored
      /\ NoSelfUse /\ p \in Linked
  BY DEF IInv, Export
<1>2. PICK n \in Names : n = NameOf[s]
  OBVIOUS
<1>3. FoundPresent(p, n, s) \/ FoundInherited(p, n, s)
  BY <1>1, <1>2, FoundIs DEF Export
<1>4. /\ internal \in Tables /\ external \in Tables
      /\ internal[p][s] \in Nat /\ external[p][s] \in Nat
  BY <1>1, Typed
<1>5. external[p][s] = 0
  <2>1. CASE FoundPresent(p, n, s)
    <3>1. internal[p][s] > 0
      BY <1>2, <2>1 DEF Export, FoundPresent
    <3> QED
      BY <1>4, <2>1, <3>1 DEF FoundPresent, Sole
  <2>2. CASE FoundInherited(p, n, s)
    BY <2>2 DEF FoundInherited, Bare
  <2> QED
    BY <1>3, <2>1, <2>2
<1>6. /\ external' \in Tables
      /\ external'[p][s] = 1
      /\ \A q \in Packages, t \in Symbols : q # p \/ t # s => external'[q][t] = external[q][t]
  BY <1>4, <1>5, WithAt DEF Export
<1>7. /\ internal' \in Tables
      /\ internal'[p][s] = 0
      /\ \A q \in Packages, t \in Symbols : q # p \/ t # s => internal'[q][t] = internal[q][t]
  <2>1. CASE FoundPresent(p, n, s)
    <3>1. Flag(n, p) = "internal" /\ internal[p][s] = 1
      BY <1>2, <1>4, <1>5, <2>1 DEF Export, FoundPresent, Sole
    <3>2. internal' = Less(internal, s, p)
      BY <1>2, <3>1 DEF Export
    <3> QED
      BY <1>4, <3>1, <3>2, LessAt
  <2>2. CASE FoundInherited(p, n, s)
    <3>1. Flag(n, p) # "internal" /\ internal[p][s] = 0
      BY <2>2 DEF FoundInherited, Bare
    <3>2. internal' = internal
      BY <1>2, <3>1 DEF Export
    <3> QED
      BY <1>4, <3>1, <3>2
  <2> QED
    BY <1>3, <2>1, <2>2
<1>8. TypeOK'
  BY <1>1, <1>6, <1>7 DEF Export, TypeOK, Tables
<1>9. Focused(p, n)
  BY <1>2, <1>6, <1>7 DEF Focused, Export
<1>10. Sole(p, s)'
  <2>1. \A t \in Symbols : NameOf[t] = n /\ t # s => internal[p][t] = 0 /\ external[p][t] = 0
    BY <1>2, <1>3 DEF FoundPresent, FoundInherited, Sole, Bare
  <2> QED
    BY <1>2, <1>6, <1>7, <2>1 DEF Sole
<1>11. \A t \in Symbols : NameOf[t] = n /\ shadowings[p][t] > 0 =>
         t = s /\ shadowings[p][t] = 1 /\ FoundPresent(p, n, s)
  <2> SUFFICES ASSUME NEW t \in Symbols, NameOf[t] = n, shadowings[p][t] > 0
               PROVE  t = s /\ shadowings[p][t] = 1 /\ FoundPresent(p, n, s)
    OBVIOUS
  <2>1. shadowings[p][t] = 1 /\ internal[p][t] + external[p][t] = 1
    BY <1>1 DEF ShadowingsPresent
  <2>2. FoundPresent(p, n, s)
    BY <1>3, <2>1 DEF FoundInherited, Bare
  <2> QED
    BY <2>1, <2>2 DEF FoundPresent, Sole
<1>12. ShadowedAt(p, n)'
  BY <1>2, <1>6, <1>7, <1>11 DEF ShadowedAt, Export
<1>13. HomePresent'
  <2> SUFFICES ASSUME NEW q \in Packages, NEW t \in Symbols, home'[t] = q
               PROVE  Has(q, t)'
    BY <1>8, HomeIsNext
  <2>1. CASE t = s /\ q = p
    BY <1>6, <2>1 DEF Has
  <2>2. CASE ~(t = s /\ q = p)
    <3>1. Has(q, t)
      BY <1>1, HomeIs DEF Export
    <3> QED
      BY <1>6, <1>7, <2>2, <3>1 DEF Has
  <2> QED
    BY <2>1, <2>2
<1>14. AgreedAt(p, n)'
  <2>1. uses' = uses /\ uses[p] \subseteq Packages /\ p \notin uses[p]
    BY <1>1, <1>9, Typed DEF NoSelfUse, Focused
  <2>2. \A t \in Symbols : Sees(p, t)' <=> Sees(p, t)
    BY <1>6, <2>1 DEF Sees
  <2>3. \A t \in Symbols : NameOf[t] = n /\ Has(p, t)' => t = s
    BY <1>2, <1>10 DEF Sole, Has
  <2>4. Has(p, s) \/ Sees(p, s)
    BY <1>3, <1>4 DEF FoundPresent, FoundInherited, Sole, Has
  <2>5. AgreedAt(p, n)
    BY <1>1, AgreedIs
  <2>6. Shielded(p, n) => Shielded(p, n)'
    BY <1>2, <1>6, <1>11 DEF Shielded, Has, Export
  <2> QED
    BY <2>2, <2>3, <2>4, <2>5, <2>6 DEF AgreedAt
<1>15. UsersAgree(p, n)'
  <2> SUFFICES ASSUME NEW u \in Linked, p \in uses[u]
               PROVE  AgreedAt(u, n)'
    BY <1>9 DEF UsersAgree, Focused, Linked
  <2>1. u \in Packages /\ u # p /\ uses[u] \subseteq Packages /\ uses' = uses
    BY <1>1, <1>9, Typed DEF Linked, NoSelfUse, Focused
  <2>2. Agrees(s, u)
    BY <1>1, <2>1 DEF Export, Mirrored
  <2>3. \A t \in Symbols : t # s => (Sees(u, t)' <=> Sees(u, t))
    BY <1>6, <2>1 DEF Sees
  <2>4. \A t \in Symbols :
          (Has(u, t)' <=> Has(u, t)) /\ shadowings'[u][t] = shadowings[u][t]
    BY <1>6, <1>7, <2>1 DEF Has, Export
  <2>5. Shielded(u, n) => Shielded(u, n)'
    BY <2>4 DEF Shielded
  <2>6. AgreedAt(u, n)
    BY <1>1, AgreedIs
  <2>7. ASSUME NEW t \in Symbols, NameOf[t] = n, t # s, Sees(u, t) \/ Has(u, t)
        PROVE  Shielded(u, n) \/ (Sees(u, t) /\ Has(u, s))
    <3>1. Shielded(u, n) \/ Sole(u, s)
      BY <1>2, <2>2, <2>7, AgreesIs
    <3>2. Sole(u, s) => Has(u, s) /\ ~Has(u, t)
      <4>1. internal[u][s] \in Nat /\ external[u][s] \in Nat
        BY <1>1, <2>1, Typed
      <4> QED
        BY <1>2, <2>7, <4>1 DEF Sole, Has
    <3> QED
      BY <2>7, <3>1, <3>2
  <2>8. ASSUME NEW t \in Symbols, NameOf[t] = n, t # s, Sees(u, t) \/ Has(u, t)
        PROVE  Shielded(u, n)
    BY <1>2, <2>6, <2>7, <2>8 DEF AgreedAt
  <2> QED
    BY <1>2, <2>3, <2>4, <2>5, <2>6, <2>8 DEF AgreedAt
<1> QED
  BY <1>1, <1>8, <1>9, <1>2, <1>10, <1>12, <1>13, <1>14, <1>15, FocusedInv

LEMMA UnexportInv ==
  ASSUME IInv, Slips = {}, NEW s \in Symbols, NEW p \in Packages, Unexport(s, p)
  PROVE  IInv'
<1>1. /\ TypeOK /\ PresentOnce /\ ShadowingsPresent /\ HomePresent /\ p \in Linked
  BY DEF IInv, Unexport
<1>2. PICK n \in Names : n = NameOf[s]
  OBVIOUS
<1>3. /\ internal \in Tables /\ external \in Tables
      /\ internal[p][s] \in Nat /\ external[p][s] \in Nat
  BY <1>1, Typed
<1>4. FoundPresent(p, n, s) /\ internal[p][s] = 0 /\ external[p][s] = 1
  <2>1. FoundPresent(p, n, s) \/ FoundInherited(p, n, s)
    BY <1>1, <1>2, FoundIs DEF Unexport
  <2>2. Flag(n, p) = "external"
    BY <1>2 DEF Unexport
  <2>3. FoundPresent(p, n, s) /\ ~(internal[p][s] > 0)
    BY <2>1, <2>2 DEF FoundPresent, FoundInherited
  <2> QED
    BY <1>3, <2>3 DEF FoundPresent, Sole
<1>5. /\ internal' \in Tables /\ external' \in Tables
      /\ internal'[p][s] = 1 /\ external'[p][s] = 0
      /\ \A q \in Packages, t \in Symbols : q # p \/ t # s =>
           internal'[q][t] = internal[q][t] /\ external'[q][t] = external[q][t]
  <2>1. internal' = With(internal, s, p) /\ external' = Less(external, s, p)
    BY DEF Unexport
  <2>2. /\ internal' \in Tables /\ internal'[p][s] = 1
        /\ \A q \in Packages, t \in Symbols : q # p \/ t # s =>
             internal'[q][t] = internal[q][t]
    BY <1>3, <1>4, <2>1, WithAt
  <2>3. /\ external' \in Tables /\ external'[p][s] = 0
        /\ \A q \in Packages, t \in Symbols : q # p \/ t # s =>
             external'[q][t] = external[q][t]
    BY <1>3, <1>4, <2>1, LessAt
  <2> QED
    BY <2>2, <2>3
<1>6. TypeOK'
  BY <1>1, <1>5 DEF Unexport, TypeOK, Tables
<1>7. Focused(p, n)
  BY <1>2, <1>5 DEF Focused, Unexport
<1>8. Sole(p, s)'
  BY <1>2, <1>4, <1>5 DEF Sole, FoundPresent
<1>9. ShadowedAt(p, n)'
  <2>1. \A t \in Symbols : internal'[p][t] + external'[p][t] = internal[p][t] + external[p][t]
    BY <1>4, <1>5
  <2> QED
    BY <1>1, <2>1 DEF ShadowedAt, ShadowingsPresent, Unexport
<1>10. \A q \in Packages, t \in Symbols : Has(q, t)' <=> Has(q, t)
  BY <1>4, <1>5 DEF Has
<1>11. HomePresent'
  BY <1>1, <1>6, <1>10, HomeIs, HomeIsNext DEF Unexport
<1>12. Shielded(p, n) => Shielded(p, n)'
  BY <1>10 DEF Shielded, Unexport
<1>13. \A t \in Symbols : NameOf[t] = n /\ external'[p][t] > 0 => external[p][t] > 0
  BY <1>4, <1>5
<1> QED
  BY <1>1, <1>2, <1>6, <1>7, <1>8, <1>9, <1>10, <1>11, <1>12, <1>13, Focus

LEMMA ImportInv ==
  ASSUME IInv, NEW s \in Symbols, NEW p \in Packages, Import(s, p)
  PROVE  IInv'
<1>1. /\ TypeOK /\ PresentOnce /\ ShadowingsPresent /\ HomePresent /\ p \in Linked
  BY DEF IInv, Import
<1>2. PICK n \in Names : n = NameOf[s]
  OBVIOUS
<1>3. FoundInherited(p, n, s) \/ FoundNone(p, n)
  BY <1>1, <1>2, FindIs DEF Import, FoundPresent, FoundInherited
<1>4. Bare(p, n) /\ internal \in Tables
  BY <1>1, <1>3, Typed DEF FoundInherited, FoundNone
<1>5. /\ internal' \in Tables
      /\ internal'[p][s] = 1
      /\ \A q \in Packages, t \in Symbols : q # p \/ t # s => internal'[q][t] = internal[q][t]
      /\ external' = external
  BY <1>2, <1>4, WithAt DEF Import, Bare
<1>6. TypeOK'
  <2>1. home' \in [Symbols -> Packages \cup {Nobody}]
    BY <1>1 DEF Import, TypeOK
  <2> QED
    BY <1>1, <1>5, <2>1 DEF Import, TypeOK, Tables
<1>7. Focused(p, n)
  BY <1>2, <1>5 DEF Focused, Import
<1>8. Sole(p, s)'
  BY <1>2, <1>4, <1>5 DEF Sole, Bare
<1>9. ~Shielded(p, n) /\ ShadowedAt(p, n)'
  <2>1. \A t \in Symbols : NameOf[t] = n => internal[p][t] + external[p][t] = 0
    BY <1>4 DEF Bare
  <2> QED
    BY <1>1, <2>1 DEF Shielded, ShadowedAt, ShadowingsPresent, Import
<1>10. HomePresent'
  <2> SUFFICES ASSUME NEW q \in Packages, NEW t \in Symbols, home'[t] = q
               PROVE  Has(q, t)'
    BY <1>6, HomeIsNext
  <2>1. CASE t = s /\ q = p
    BY <1>5, <2>1 DEF Has
  <2>2. CASE ~(t = s /\ q = p)
    <3>1. home[t] = q
      BY <1>1, <2>2 DEF Import, TypeOK
    <3>2. Has(q, t)
      BY <1>1, <3>1, HomeIs
    <3> QED
      BY <1>5, <2>2, <3>2 DEF Has
  <2> QED
    BY <2>1, <2>2
<1>11. \/ \A t \in Symbols : NameOf[t] = n /\ Has(p, t)' => Sees(p, t)
       \/ \A t \in Symbols : NameOf[t] = n => ~Sees(p, t)
  <2>1. \A t \in Symbols : NameOf[t] = n /\ Has(p, t)' => t = s
    BY <1>4, <1>5 DEF Bare, Has
  <2> QED
    BY <1>3, <2>1 DEF FoundInherited, FoundNone
<1> QED
  BY <1>1, <1>2, <1>5, <1>6, <1>7, <1>8, <1>9, <1>10, <1>11, Focus

\* A symbol that is present is noted as a shadowing one.
LEMMA NotedInv ==
  ASSUME IInv, NEW s \in Symbols, NEW p \in Packages,
         ShadowingPresent(s, p) \/ (Slips = {} /\ ShadowPresent(s, p))
  PROVE  IInv'
<1>1. /\ TypeOK /\ PresentOnce /\ ShadowingsPresent /\ HomePresent /\ p \in Linked
  BY DEF IInv, ShadowingPresent, ShadowPresent
<1>2. PICK n \in Names : n = NameOf[s]
  OBVIOUS
<1>3. /\ Find(n, p) = s /\ Present(n, p) /\ shadowings[p][s] = 0
      /\ shadowings' = With(shadowings, s, p)
      /\ UNCHANGED <<keyword, state, internal, external, uses, usedBy, made, home>>
  BY <1>2 DEF ShadowingPresent, ShadowPresent
<1>4. FoundPresent(p, n, s) /\ shadowings \in Tables
  BY <1>1, <1>2, <1>3, PresentIs, Typed
<1>5. /\ shadowings' \in Tables
      /\ shadowings'[p][s] = 1
      /\ \A q \in Packages, t \in Symbols : q # p \/ t # s =>
           shadowings'[q][t] = shadowings[q][t]
  BY <1>3, <1>4, WithAt
<1>6. TypeOK'
  BY <1>1, <1>3, <1>5 DEF TypeOK, Tables
<1>7. Focused(p, n)
  BY <1>2, <1>3, <1>5 DEF Focused
<1>8. Sole(p, s)'
  BY <1>3, <1>4 DEF Sole, FoundPresent
<1>9. ShadowedAt(p, n)'
  <2>1. internal'[p][s] + external'[p][s] = 1
    BY <1>8 DEF Sole
  <2> QED
    BY <1>1, <1>3, <1>5, <2>1 DEF ShadowedAt, ShadowingsPresent
<1>10. HomePresent'
  BY <1>1, <1>3, <1>6, HomeIs, HomeIsNext DEF Has
<1>11. Shielded(p, n)'
  <2>1. Has(p, s)'
    BY <1>8, <1>6, TypedNext DEF Sole, Has
  <2> QED
    BY <1>2, <1>5, <2>1 DEF Shielded
<1> QED
  BY <1>1, <1>2, <1>3, <1>6, <1>7, <1>8, <1>9, <1>10, <1>11, Focus

\* A symbol that becomes the only one of its name in p, and a shadowing one.
LEMMA PlacedInv ==
  ASSUME IInv, TypeOK', NEW p \in Linked, NEW s \in Symbols, Focused(p, NameOf[s]),
         internal'[p][s] + external'[p][s] = 1, shadowings'[p][s] = 1,
         \A t \in Symbols : NameOf[t] = NameOf[s] /\ t # s =>
           internal'[p][t] = 0 /\ external'[p][t] = 0 /\ shadowings'[p][t] = 0,
         \A t \in Symbols : external'[p][t] > 0 => external[p][t] > 0,
         \A q \in Packages, t \in Symbols : home'[t] = q /\ ~(t = s /\ q = p) =>
           home[t] = q /\ (q # p \/ NameOf[t] # NameOf[s])
  PROVE  IInv'
<1>1. TypeOK /\ HomePresent /\ p \in Packages
  BY DEF IInv, Linked
<1>2. PICK n \in Names : n = NameOf[s]
  OBVIOUS
<1>3. Sole(p, s)'
  BY DEF Sole
<1>4. Has(p, s)'
  BY <1>1, TypedNext DEF Has
<1>5. HomePresent'
  <2> SUFFICES ASSUME NEW q \in Packages, NEW t \in Symbols, home'[t] = q
               PROVE  Has(q, t)'
    BY HomeIsNext
  <2>1. CASE t = s /\ q = p
    BY <1>4, <2>1
  <2>2. CASE ~(t = s /\ q = p)
    <3>1. home[t] = q /\ (q # p \/ NameOf[t] # NameOf[s])
      BY <2>2
    <3>2. Has(q, t)
      BY <1>1, <3>1, HomeIs
    <3> QED
      BY <3>1, <3>2 DEF Has, Focused
  <2> QED
    BY <2>1, <2>2
<1>6. ShadowedAt(p, n)'
  <2> SUFFICES ASSUME NEW t \in Symbols, NameOf[t] = n, shadowings'[p][t] > 0
               PROVE  shadowings'[p][t] = 1 /\ internal'[p][t] + external'[p][t] = 1
    BY DEF ShadowedAt
  <2>1. t = s
    BY <1>2
  <2> QED
    BY <2>1
<1>7. Shielded(p, n)'
  BY <1>2, <1>4 DEF Shielded
<1> QED
  BY <1>2, <1>3, <1>5, <1>6, <1>7, Focus

LEMMA ShadowingReplaceInv ==
  ASSUME IInv, NEW s \in Symbols, NEW p \in Packages, ShadowingReplace(s, p)
  PROVE  IInv'
<1>1. /\ TypeOK /\ PresentOnce /\ ShadowingsPresent /\ HomePresent /\ p \in Linked
  BY DEF IInv, ShadowingReplace
<1>2. PICK n \in Names : n = NameOf[s]
  OBVIOUS
<1>3. PICK x \in Symbols : x = Find(n, p) /\ FoundPresent(p, n, x)
  BY <1>1, <1>2, PresentIs DEF ShadowingReplace
<1>4. /\ x # s
      /\ shadowings' = With(Less(shadowings, x, p), s, p)
      /\ home' = Homeless(x, p)
      /\ UNCHANGED <<keyword, state, uses, usedBy, made>>
  BY <1>2, <1>3 DEF ShadowingReplace
<1>5. IF Flag(n, p) = "internal"
      THEN internal' = With(Less(internal, x, p), s, p) /\ UNCHANGED external
      ELSE internal' = With(internal, s, p) /\ external' = Less(external, x, p)
  BY <1>2, <1>3 DEF ShadowingReplace
<1>6. /\ internal \in Tables /\ external \in Tables /\ shadowings \in Tables
      /\ internal[p][x] \in Nat /\ external[p][x] \in Nat /\ shadowings[p][x] \in Nat
  BY <1>1, Typed
<1>7. \A t \in Symbols : NameOf[t] = n /\ t # x => internal[p][t] = 0 /\ external[p][t] = 0
  BY <1>3 DEF FoundPresent, Sole
<1>8. /\ internal' \in Tables /\ external' \in Tables
      /\ internal'[p][s] = 1 /\ external'[p][s] = 0
      /\ internal'[p][x] = 0 /\ external'[p][x] = 0
      /\ \A q \in Packages, t \in Symbols : q # p \/ t \notin {s, x} =>
           internal'[q][t] = internal[q][t] /\ external'[q][t] = external[q][t]
  <2>1. CASE internal[p][x] > 0
    <3>1. Flag(n, p) = "internal" /\ internal[p][x] = 1 /\ external[p][x] = 0
      BY <1>3, <1>6, <2>1 DEF FoundPresent, Sole
    <3>2. PICK T : T = Less(internal, x, p)
      OBVIOUS
    <3>3. /\ T \in Tables /\ T[p][x] = 0
          /\ \A q \in Packages, t \in Symbols : q # p \/ t # x => T[q][t] = internal[q][t]
      BY <1>6, <3>1, <3>2, LessAt
    <3>4. internal' = With(T, s, p) /\ external' = external
      BY <1>5, <3>1, <3>2
    <3>5. T[p][s] = 0 /\ external[p][s] = 0
      BY <1>2, <1>4, <1>7, <3>3
    <3>6. /\ internal' \in Tables /\ internal'[p][s] = T[p][s] + 1
          /\ \A q \in Packages, t \in Symbols : q # p \/ t # s => internal'[q][t] = T[q][t]
      <4>1. T \in Tables /\ internal' = With(T, s, p)
        BY <3>3, <3>4
      <4>2. With(T, s, p) \in Tables
        BY <4>1, WithAt
      <4>3. With(T, s, p)[p][s] = T[p][s] + 1
        BY <4>1, WithAt
      <4>4. \A q \in Packages, t \in Symbols :
               q # p \/ t # s => With(T, s, p)[q][t] = T[q][t]
        BY <4>1, WithAt
      <4> QED
        BY <4>1, <4>2, <4>3, <4>4
    <3> QED
      BY <1>4, <1>6, <3>1, <3>3, <3>4, <3>5, <3>6
  <2>2. CASE ~(internal[p][x] > 0)
    <3>1. Flag(n, p) # "internal" /\ internal[p][x] = 0 /\ external[p][x] = 1
      BY <1>3, <1>6, <2>2 DEF FoundPresent, Sole
    <3>2. internal' = With(internal, s, p) /\ external' = Less(external, x, p)
      BY <1>5, <3>1
    <3>3. internal[p][s] = 0 /\ external[p][s] = 0
      BY <1>2, <1>4, <1>7
    <3>4. /\ external' \in Tables /\ external'[p][x] = 0
          /\ \A q \in Packages, t \in Symbols : q # p \/ t # x =>
               external'[q][t] = external[q][t]
      BY <1>6, <3>1, <3>2, LessAt
    <3>5. /\ internal' \in Tables /\ internal'[p][s] = internal[p][s] + 1
          /\ \A q \in Packages, t \in Symbols : q # p \/ t # s =>
               internal'[q][t] = internal[q][t]
      <4>1. internal \in Tables /\ internal' = With(internal, s, p)
        BY <1>6, <3>2
      <4>2. With(internal, s, p) \in Tables
        BY <4>1, WithAt
      <4>3. With(internal, s, p)[p][s] = internal[p][s] + 1
        BY <4>1, WithAt
      <4>4. \A q \in Packages, t \in Symbols :
               q # p \/ t # s => With(internal, s, p)[q][t] = internal[q][t]
        BY <4>1, WithAt
      <4> QED
        BY <4>1, <4>2, <4>3, <4>4
    <3> QED
      BY <1>4, <3>1, <3>3, <3>4, <3>5
  <2> QED
    BY <2>1, <2>2
<1>9. \A t \in Symbols : NameOf[t] = n /\ t # x => shadowings[p][t] = 0
  <2> SUFFICES ASSUME NEW t \in Symbols, NameOf[t] = n, t # x
               PROVE  shadowings[p][t] = 0
    OBVIOUS
  <2>1. internal[p][t] + external[p][t] = 0
    BY <1>7
  <2> QED
    BY <1>1, <2>1, Typed DEF ShadowingsPresent
<1>10. /\ shadowings' \in Tables
       /\ shadowings'[p][s] = 1 /\ shadowings'[p][x] = 0
       /\ \A q \in Packages, t \in Symbols : q # p \/ t \notin {s, x} =>
            shadowings'[q][t] = shadowings[q][t]
  <2>1. PICK T : T = Less(shadowings, x, p)
    OBVIOUS
  <2>2. shadowings[p][x] <= 1
    BY <1>1, <1>6 DEF ShadowingsPresent
  <2>3. /\ T \in Tables /\ T[p][x] = 0
        /\ \A q \in Packages, t \in Symbols : q # p \/ t # x => T[q][t] = shadowings[q][t]
    BY <1>6, <2>1, <2>2, LessAt
  <2>4. T[p][s] = 0
    BY <1>2, <1>4, <1>9, <2>3
  <2>5. /\ shadowings' \in Tables /\ shadowings'[p][s] = T[p][s] + 1
        /\ \A q \in Packages, t \in Symbols : q # p \/ t # s => shadowings'[q][t] = T[q][t]
    <3>1. T \in Tables /\ shadowings' = With(T, s, p)
      BY <1>4, <2>1, <2>3
    <3>2. With(T, s, p) \in Tables
      BY <3>1, WithAt
    <3>3. With(T, s, p)[p][s] = T[p][s] + 1
      BY <3>1, WithAt
    <3>4. \A q \in Packages, t \in Symbols :
             q # p \/ t # s => With(T, s, p)[q][t] = T[q][t]
      BY <3>1, WithAt
    <3> QED
      BY <3>1, <3>2, <3>3, <3>4
  <2> QED
    BY <1>4, <2>3, <2>4, <2>5
<1>11. TypeOK'
  <2>1. home' \in [Symbols -> Packages \cup {Nobody}]
    BY <1>1, <1>4 DEF Homeless, TypeOK
  <2> QED
    BY <1>1, <1>4, <1>8, <1>10, <2>1 DEF TypeOK, Tables
<1>12. NameOf[x] = n
  BY <1>3 DEF FoundPresent
<1>13. Focused(p, n)
  BY <1>2, <1>4, <1>8, <1>10, <1>12 DEF Focused
<1>14. \A t \in Symbols : NameOf[t] = n /\ t # s =>
         internal'[p][t] = 0 /\ external'[p][t] = 0 /\ shadowings'[p][t] = 0
  BY <1>7, <1>8, <1>9, <1>10
<1>15. \A t \in Symbols : external'[p][t] > 0 => external[p][t] > 0
  BY <1>8
<1>16. \A q \in Packages, t \in Symbols : home'[t] = q /\ ~(t = s /\ q = p) =>
         home[t] = q /\ (q # p \/ NameOf[t] # n)
  <2> SUFFICES ASSUME NEW q \in Packages, NEW t \in Symbols, home'[t] = q, ~(t = s /\ q = p)
               PROVE  home[t] = q /\ (q # p \/ NameOf[t] # n)
    OBVIOUS
  <2>1. home[t] = q /\ ~(t = x /\ q = p)
    BY <1>1, <1>4 DEF Homeless, TypeOK
  <2>2. Has(q, t)
    BY <1>1, <2>1, HomeIs
  <2> QED
    BY <1>7, <2>1, <2>2 DEF Has
<1> QED
  BY <1>1, <1>2, <1>8, <1>10, <1>11, <1>13, <1>14, <1>15, <1>16, PlacedInv

LEMMA ShadowingAddInv ==
  ASSUME IInv, NEW s \in Symbols, NEW p \in Packages,
         ShadowingAdd(s, p) \/ ShadowNew(s, p)
  PROVE  IInv'
<1>1. /\ TypeOK /\ PresentOnce /\ ShadowingsPresent /\ HomePresent /\ p \in Linked
  BY DEF IInv, ShadowingAdd, ShadowNew
<1>2. PICK n \in Names : n = NameOf[s]
  OBVIOUS
<1>3. /\ ~Present(n, p)
      /\ internal' = With(internal, s, p)
      /\ shadowings' = With(shadowings, s, p)
      /\ UNCHANGED <<keyword, state, external, uses, usedBy>>
      /\ made' = made \/ made' = made \cup {s}
      /\ home' = home \/ home' = [home EXCEPT ![s] = p]
  BY <1>2 DEF ShadowingAdd, ShadowNew
<1>4. Bare(p, n)
  BY <1>1, <1>3, FindIs DEF FoundPresent, FoundInherited, FoundNone
<1>5. \A t \in Symbols : NameOf[t] = n => shadowings[p][t] = 0
  <2> SUFFICES ASSUME NEW t \in Symbols, NameOf[t] = n
               PROVE  shadowings[p][t] = 0
    OBVIOUS
  <2>1. internal[p][t] + external[p][t] = 0
    BY <1>4 DEF Bare
  <2> QED
    BY <1>1, <2>1, Typed DEF ShadowingsPresent
<1>6. internal \in Tables /\ shadowings \in Tables /\ internal[p][s] = 0 /\ external[p][s] = 0
  BY <1>1, <1>2, <1>4, Typed DEF Bare
<1>7. /\ internal' \in Tables /\ internal'[p][s] = 1
      /\ \A q \in Packages, t \in Symbols : q # p \/ t # s => internal'[q][t] = internal[q][t]
  BY <1>3, <1>6, WithAt
<1>8. /\ shadowings' \in Tables /\ shadowings'[p][s] = 1
      /\ \A q \in Packages, t \in Symbols : q # p \/ t # s =>
           shadowings'[q][t] = shadowings[q][t]
  BY <1>2, <1>3, <1>5, <1>6, WithAt
<1>9. TypeOK'
  <2>1. home' \in [Symbols -> Packages \cup {Nobody}]
    BY <1>1, <1>3 DEF TypeOK
  <2> QED
    BY <1>1, <1>3, <1>7, <1>8, <2>1 DEF TypeOK, Tables
<1>10. Focused(p, n)
  BY <1>2, <1>3, <1>7, <1>8 DEF Focused
<1>11. \A t \in Symbols : NameOf[t] = n /\ t # s =>
         internal'[p][t] = 0 /\ external'[p][t] = 0 /\ shadowings'[p][t] = 0
  BY <1>3, <1>4, <1>5, <1>7, <1>8 DEF Bare
<1>12. \A q \in Packages, t \in Symbols : home'[t] = q /\ ~(t = s /\ q = p) =>
         home[t] = q /\ (q # p \/ NameOf[t] # n)
  <2> SUFFICES ASSUME NEW q \in Packages, NEW t \in Symbols, home'[t] = q, ~(t = s /\ q = p)
               PROVE  home[t] = q /\ (q # p \/ NameOf[t] # n)
    OBVIOUS
  <2>1. home[t] = q
    BY <1>1, <1>3 DEF TypeOK
  <2>2. Has(q, t)
    BY <1>1, <2>1, HomeIs
  <2> QED
    BY <1>4, <2>1, <2>2 DEF Has, Bare
<1> QED
  BY <1>1, <1>2, <1>3, <1>6, <1>7, <1>8, <1>9, <1>10, <1>11, <1>12, PlacedInv

-------------------------------------------------------------------------------
(* The operations on packages: the tables stay.                            *)

\* A step that leaves the tables alone, and after which the packages agree.
LEMMA LinksInv ==
  ASSUME IInv, TypeOK', UNCHANGED <<keyword, tables, made, home>>,
         \A p \in Packages : state'[p] = "unmade" => state[p] = "unmade",
         \A u \in Linked', n \in Names : AgreedAt(u, n)',
         Mirrored', NoSelfUse'
  PROVE  IInv'
<1>1. /\ TypeOK /\ PresentOnce /\ ShadowingsPresent /\ HomePresent /\ UnmadeEmpty
      /\ internal' = internal /\ external' = external /\ shadowings' = shadowings /\ home' = home
  BY DEF IInv, tables
<1>2. PresentOnce' /\ ShadowingsPresent'
  BY <1>1 DEF PresentOnce, ShadowingsPresent
<1>3. NoConflict'
  BY AgreedIsNext
<1>4. HomePresent' /\ UnmadeEmpty'
  BY <1>1 DEF HomePresent, UnmadeEmpty, Has, Bare
<1> QED
  BY <1>2, <1>3, <1>4 DEF IInv

\* Agreement is kept where nothing more is seen.
LEMMA AgreedStays ==
  ASSUME IInv, UNCHANGED tables, NEW u \in Linked, NEW n \in Names, uses'[u] \subseteq uses[u]
  PROVE  AgreedAt(u, n)'
<1>1. internal' = internal /\ external' = external /\ shadowings' = shadowings
  BY DEF tables
<1>2. \A t \in Symbols : (Sees(u, t)' => Sees(u, t)) /\ (Has(u, t)' <=> Has(u, t))
  BY <1>1 DEF Sees, Has
<1>3. Shielded(u, n) => Shielded(u, n)'
  BY <1>1, <1>2 DEF Shielded
<1>4. AgreedAt(u, n)
  BY AgreedIs DEF IInv
<1> QED
  BY <1>2, <1>3, <1>4 DEF AgreedAt

LEMMA MakePackageInv ==
  ASSUME IInv, Slips = {}, NEW p \in Packages, NEW used \in SUBSET Packages,
         MakePackage(p, used)
  PROVE  IInv'
<1>1. /\ TypeOK /\ Mirrored /\ NoSelfUse /\ UnmadeEmpty /\ state[p] = "unmade"
      /\ used \subseteq Linked /\ keyword \notin used /\ p \notin Linked
      /\ UNCHANGED <<keyword, tables, made, home>> /\ external' = external
      /\ internal' = internal
  BY DEF IInv, MakePackage, Linked, tables
<1>2. /\ state' = [state EXCEPT ![p] = "linked"]
      /\ uses' = [uses EXCEPT ![p] = used]
      /\ usedBy' = [q \in Packages |-> IF q \in used THEN usedBy[q] \cup {p} ELSE usedBy[q]]
      /\ \A q, r \in used : \A s \in Externals(q), t \in Externals(r) :
           NameOf[s] = NameOf[t] => s = t
  BY DEF MakePackage
<1>3. TypeOK'
  <2>1. usedBy' \in [Packages -> SUBSET Packages]
    BY <1>1, <1>2 DEF TypeOK
  <2> QED
    BY <1>1, <1>2, <2>1 DEF TypeOK, tables
<1>4. Linked' = Linked \cup {p}
  BY <1>1, <1>2 DEF Linked, TypeOK
<1>5. /\ uses'[p] = used
      /\ \A q \in Packages \ {p} : uses'[q] = uses[q]
  BY <1>1, <1>2 DEF TypeOK
<1>6. ASSUME NEW u \in Linked', NEW n \in Names
      PROVE  AgreedAt(u, n)'
  <2>1. CASE u = p
    <3>1. \A t \in Symbols : NameOf[t] = n => ~Has(u, t)'
      BY <1>1, <2>1 DEF UnmadeEmpty, Bare, Has
    <3>2. \A t \in Symbols : Sees(u, t)' => \E q \in used : t \in Externals(q)
      BY <1>1, <1>5, <2>1 DEF Sees, Externals
    <3> QED
      BY <1>2, <3>1, <3>2 DEF AgreedAt
  <2>2. CASE u # p
    <3>1. u \in Linked /\ u \in Packages
      BY <1>4, <2>2 DEF Linked
    <3> QED
      BY <1>1, <1>5, <2>2, <3>1, AgreedStays
  <2> QED
    BY <2>1, <2>2
<1>7. Mirrored'
  <2>1. \A q, r \in Packages : r \in uses'[q] <=> q \in usedBy'[r]
    <3> SUFFICES ASSUME NEW q \in Packages, NEW r \in Packages
                 PROVE  r \in uses'[q] <=> q \in usedBy'[r]
      OBVIOUS
    <3>1. r \in uses[q] <=> q \in usedBy[r]
      BY <1>1 DEF Mirrored
    <3>2. uses[p] = {}
      BY <1>1 DEF Mirrored
    <3> QED
      BY <1>2, <1>5, <3>1, <3>2
  <2>2. \A q \in Packages : uses'[q] # {} => q \in Linked'
    BY <1>1, <1>4, <1>5 DEF Mirrored
  <2>3. \A q \in Packages : uses'[q] \subseteq Linked' \ {keyword'}
    BY <1>1, <1>4, <1>5 DEF Mirrored
  <2> QED
    BY <2>1, <2>2, <2>3 DEF Mirrored
<1>8. NoSelfUse'
  BY <1>1, <1>5 DEF NoSelfUse
<1>9. \A q \in Packages : state'[q] = "unmade" => state[q] = "unmade"
  BY <1>2, <1>1 DEF TypeOK
<1> QED
  BY <1>1, <1>3, <1>6, <1>7, <1>8, <1>9, LinksInv

LEMMA UsePackageInv ==
  ASSUME IInv, NEW p \in Packages, NEW q \in Packages, UsePackage(q, p)
  PROVE  IInv'
<1>1. /\ TypeOK /\ PresentOnce /\ NoConflict /\ Mirrored /\ NoSelfUse
      /\ p \in Linked /\ q \in Linked /\ q # p /\ q # keyword
      /\ UNCHANGED <<keyword, state, tables, made, home>>
      /\ Linked' = Linked
  BY DEF IInv, UsePackage, Linked
<1>2. /\ internal' = internal /\ external' = external /\ shadowings' = shadowings
      /\ uses' = [uses EXCEPT ![p] = @ \cup {q}]
      /\ usedBy' = [usedBy EXCEPT ![q] = @ \cup {p}]
  BY DEF UsePackage, tables
<1>3. TypeOK'
  BY <1>1, <1>2 DEF TypeOK
<1>4. /\ uses'[p] = uses[p] \cup {q}
      /\ \A r \in Packages \ {p} : uses'[r] = uses[r]
  BY <1>1, <1>2 DEF TypeOK
<1>5. ASSUME NEW u \in Linked', NEW n \in Names
      PROVE  AgreedAt(u, n)'
  <2>1. u \in Linked /\ u \in Packages
    BY <1>1 DEF Linked
  <2>2. CASE u # p
    BY <1>1, <1>4, <2>1, <2>2, AgreedStays
  <2>3. CASE u = p
    <3>1. ASSUME NEW s \in Symbols, NEW t \in Symbols, NameOf[s] = n, NameOf[t] = n, s # t,
                 external[q][s] > 0, Sees(p, t) \/ Has(p, t)
          PROVE  Shielded(p, n)
      <4>1. Agrees(s, p)
        BY <3>1 DEF UsePackage, Externals
      <4>2. Shielded(p, n) \/ Sole(p, s)
        BY <1>1, <3>1, <4>1, AgreesIs
      <4>3. CASE Sole(p, s)
        <5>1. internal[p][s] \in Nat /\ external[p][s] \in Nat
          BY <1>1, Typed
        <5>2. Has(p, s) /\ ~Has(p, t)
          BY <3>1, <4>3, <5>1 DEF Sole, Has
        <5>3. AgreedAt(p, n)
          BY <1>1, AgreedIs
        <5> QED
          BY <3>1, <5>2, <5>3 DEF AgreedAt
      <4> QED
        BY <4>2, <4>3
    <3>2. ASSUME NEW s \in Symbols, NEW t \in Symbols, NameOf[s] = n, NameOf[t] = n, s # t,
                 Sees(p, t) \/ external[q][t] > 0,
                 Sees(p, s) \/ Has(p, s) \/ external[q][s] > 0
          PROVE  Shielded(p, n)
      <4>1. CASE external[q][t] > 0 /\ external[q][s] > 0
        <5>1. Sole(q, s) /\ Sole(q, t)
          <6>1. ~Bare(q, n)
            BY <3>2, <4>1 DEF Bare
          <6>2. PICK x \in Symbols : NameOf[x] = n /\ Sole(q, x)
            BY <1>1, <6>1, OnceIs
          <6> QED
            BY <3>2, <4>1, <6>2 DEF Sole
        <5> QED
          BY <3>2, <4>1, <5>1 DEF Sole
      <4>2. CASE ~(external[q][t] > 0 /\ external[q][s] > 0)
        <5>1. AgreedAt(p, n)
          BY <1>1, AgreedIs
        <5> QED
          BY <3>1, <3>2, <4>2, <5>1 DEF AgreedAt
      <4> QED
        BY <4>1, <4>2
    <3>3. \A t \in Symbols : Sees(p, t)' => Sees(p, t) \/ external[q][t] > 0
      BY <1>2, <1>4 DEF Sees
    <3>4. \A t \in Symbols : Has(p, t)' <=> Has(p, t)
      BY <1>2 DEF Has
    <3>5. Shielded(p, n) => Shielded(p, n)'
      BY <1>2, <3>4 DEF Shielded
    <3>6. AgreedAt(p, n)'
      BY <3>2, <3>3, <3>4, <3>5 DEF AgreedAt
    <3> QED
      BY <2>3, <3>6
  <2> QED
    BY <2>2, <2>3
<1>6. Mirrored'
  <2>1. \A r, v \in Packages : r \in uses'[v] <=> v \in usedBy'[r]
    <3> SUFFICES ASSUME NEW r \in Packages, NEW v \in Packages
                 PROVE  r \in uses'[v] <=> v \in usedBy'[r]
      OBVIOUS
    <3>1. r \in uses[v] <=> v \in usedBy[r]
      BY <1>1 DEF Mirrored
    <3>2. usedBy'[r] = IF r = q THEN usedBy[r] \cup {p} ELSE usedBy[r]
      BY <1>1, <1>2 DEF TypeOK
    <3> QED
      BY <1>4, <3>1, <3>2
  <2>2. \A r \in Packages : uses'[r] # {} => r \in Linked'
    BY <1>1, <1>4 DEF Mirrored
  <2>3. \A r \in Packages : uses'[r] \subseteq Linked' \ {keyword'}
    BY <1>1, <1>4 DEF Mirrored
  <2> QED
    BY <2>1, <2>2, <2>3 DEF Mirrored
<1>7. NoSelfUse'
  BY <1>1, <1>4 DEF NoSelfUse
<1> QED
  BY <1>1, <1>3, <1>5, <1>6, <1>7, LinksInv

LEMMA UnusePackageInv ==
  ASSUME IInv, NEW p \in Packages, NEW q \in Packages, UnusePackage(q, p)
  PROVE  IInv'
<1>1. /\ TypeOK /\ Mirrored /\ NoSelfUse /\ p \in Linked
      /\ UNCHANGED <<keyword, state, tables, made, home>>
      /\ Linked' = Linked
      /\ uses' = [uses EXCEPT ![p] = @ \ {q}]
      /\ usedBy' = [usedBy EXCEPT ![q] = @ \ {p}]
  BY DEF IInv, UnusePackage, Linked
<1>2. TypeOK'
  BY <1>1 DEF TypeOK, tables
<1>3. /\ \A r \in Packages : uses'[r] = IF r = p THEN uses[r] \ {q} ELSE uses[r]
      /\ \A r \in Packages : usedBy'[r] = IF r = q THEN usedBy[r] \ {p} ELSE usedBy[r]
  BY <1>1 DEF TypeOK
<1>4. \A u \in Linked', n \in Names : AgreedAt(u, n)'
  BY <1>1, <1>3, AgreedStays DEF Linked
<1>5. Mirrored'
  <2>1. \A r, v \in Packages : r \in uses'[v] <=> v \in usedBy'[r]
    <3> SUFFICES ASSUME NEW r \in Packages, NEW v \in Packages
                 PROVE  r \in uses'[v] <=> v \in usedBy'[r]
      OBVIOUS
    <3>1. r \in uses[v] <=> v \in usedBy[r]
      BY <1>1 DEF Mirrored
    <3> QED
      BY <1>3, <3>1
  <2>2. \A r \in Packages : uses'[r] \subseteq uses[r]
    BY <1>3
  <2> QED
    BY <1>1, <2>1, <2>2 DEF Mirrored
<1>6. NoSelfUse'
  BY <1>1, <1>3 DEF NoSelfUse
<1> QED
  BY <1>1, <1>2, <1>4, <1>5, <1>6, LinksInv

LEMMA DeletePackageInv ==
  ASSUME IInv, NEW p \in Packages, DeletePackage(p)
  PROVE  IInv'
<1>1. /\ TypeOK /\ Mirrored /\ NoSelfUse /\ p \in Linked
      /\ UNCHANGED <<keyword, tables, made, home>>
      /\ state' = [state EXCEPT ![p] = "deleted"]
      /\ uses' = [q \in Packages |-> IF q = p THEN {} ELSE uses[q] \ {p}]
      /\ usedBy' = [q \in Packages |-> IF q = p THEN {} ELSE usedBy[q] \ {p}]
  BY DEF IInv, DeletePackage
<1>2. TypeOK'
  <2>1. uses' \in [Packages -> SUBSET Packages] /\ usedBy' \in [Packages -> SUBSET Packages]
    BY <1>1 DEF TypeOK
  <2> QED
    BY <1>1, <2>1 DEF TypeOK, tables
<1>3. Linked' = Linked \ {p}
  BY <1>1 DEF TypeOK, Linked
<1>4. \A q \in Packages : uses'[q] \subseteq uses[q]
  BY <1>1
<1>5. \A u \in Linked', n \in Names : AgreedAt(u, n)'
  BY <1>1, <1>3, <1>4, AgreedStays DEF Linked
<1>6. Mirrored'
  <2>1. \A r, v \in Packages : r \in uses'[v] <=> v \in usedBy'[r]
    BY <1>1 DEF Mirrored
  <2>2. \A r \in Packages : uses'[r] # {} => r \in Linked'
    BY <1>1, <1>3, <1>4 DEF Mirrored
  <2>3. \A r \in Packages : uses'[r] \subseteq Linked' \ {keyword'}
    BY <1>1, <1>3, <1>4 DEF Mirrored
  <2> QED
    BY <2>1, <2>2, <2>3 DEF Mirrored
<1>7. NoSelfUse'
  BY <1>1, <1>4 DEF NoSelfUse
<1>8. \A q \in Packages : state'[q] = "unmade" => state[q] = "unmade"
  BY <1>1 DEF TypeOK
<1> QED
  BY <1>1, <1>2, <1>5, <1>6, <1>7, <1>8, LinksInv

-------------------------------------------------------------------------------
(* The invariant holds.                                                    *)

LEMMA InitInv == Init => IInv
<1> SUFFICES ASSUME Init
             PROVE  IInv
  OBVIOUS
<1>1. TypeOK
  <2>1. [p \in Packages |-> [s \in Symbols |-> 0]] \in [Packages -> [Symbols -> Nat]]
    OBVIOUS
  <2> QED
    BY <2>1 DEF Init, TypeOK
<1>2. \A p \in Packages, s \in Symbols :
        internal[p][s] = 0 /\ external[p][s] = 0 /\ shadowings[p][s] = 0
  BY DEF Init
<1>3. PresentOnce /\ ShadowingsPresent
  BY <1>2 DEF PresentOnce, ShadowingsPresent
<1>4. \A p \in Packages : uses[p] = {} /\ usedBy[p] = {}
  BY DEF Init
<1>5. NoConflict
  <2>1. \A p \in Linked, n \in Names : AgreedAt(p, n)
    BY <1>4 DEF AgreedAt, Sees, Linked
  <2> QED
    BY <1>1, <2>1, AgreedIs
<1>6. Mirrored /\ NoSelfUse
  BY <1>4 DEF Mirrored, NoSelfUse
<1>7. HomePresent /\ UnmadeEmpty
  BY <1>2 DEF Init, HomePresent, UnmadeEmpty, Bare
<1> QED
  BY <1>1, <1>3, <1>5, <1>6, <1>7 DEF IInv

LEMMA NextInv == Slips = {} /\ IInv /\ [Next]_vars => IInv'
<1> SUFFICES ASSUME Slips = {}, IInv, [Next]_vars
             PROVE  IInv'
  OBVIOUS
<1>1. ASSUME NEW p \in Packages, NEW s \in Symbols, Changing(s, p)
      PROVE  IInv'
  BY <1>1, UninternInv, UnexportInv, ShadowingReplaceInv, ShadowingAddInv DEF Changing
<1>2. ASSUME NEW p \in Packages, NEW s \in Symbols, Adding(s, p)
      PROVE  IInv'
  BY <1>2, InternInv, ExportInv, ImportInv, NotedInv DEF Adding
<1>3. ASSUME NEW p \in Packages, NEW used \in SUBSET Packages, MakePackage(p, used)
      PROVE  IInv'
  BY <1>3, MakePackageInv
<1>4. ASSUME NEW p \in Packages, NEW q \in Packages, UsePackage(q, p) \/ UnusePackage(q, p)
      PROVE  IInv'
  BY <1>4, UsePackageInv, UnusePackageInv
<1>5. ASSUME NEW p \in Packages, DeletePackage(p)
      PROVE  IInv'
  BY <1>5, DeletePackageInv
<1>6. CASE UNCHANGED vars
  <2>1. /\ keyword' = keyword /\ state' = state /\ internal' = internal
        /\ external' = external /\ shadowings' = shadowings /\ uses' = uses
        /\ usedBy' = usedBy /\ made' = made /\ home' = home
    BY <1>6 DEF vars, tables
  <2>2. TypeOK' /\ PresentOnce' /\ ShadowingsPresent'
    BY <2>1 DEF IInv, TypeOK, PresentOnce, ShadowingsPresent
  <2>3. NoConflict' /\ Mirrored'
    BY <2>1 DEF IInv, NoConflict, Mirrored, Linked, Inherited, In
  <2>4. HomePresent' /\ UnmadeEmpty' /\ NoSelfUse'
    BY <2>1 DEF IInv, HomePresent, UnmadeEmpty, NoSelfUse, Has, Bare
  <2> QED
    BY <2>2, <2>3, <2>4 DEF IInv
<1> QED
  BY <1>1, <1>2, <1>3, <1>4, <1>5, <1>6 DEF Next

THEOREM Invariance == ASSUME Slips = {} PROVE Spec => []IInv
BY InitInv, NextInv, PTL DEF Spec

\* No package can see two symbols of a name unless it has one that shadows the others.
THEOREM NoConflictCorrect == ASSUME Slips = {} PROVE Spec => []NoConflict
<1>1. IInv => NoConflict
  BY DEF IInv
<1> QED
  BY <1>1, Invariance, PTL

\* A lookup has one candidate to find, whatever the order of the lists it walks.
THEOREM LookupCorrect == ASSUME Slips = {} PROVE Spec => []LookupDetermined
<1>1. ASSUME IInv
      PROVE  LookupDetermined
  <2> SUFFICES ASSUME NEW p \in Packages, NEW n \in Names
               PROVE  /\ \A s, t \in In(internal, n, p) : s = t
                      /\ \A s, t \in In(external, n, p) : s = t
                      /\ Flag(n, p) = "inherited" => \A s, t \in Inherited(n, p) : s = t
    BY DEF LookupDetermined
  <2>1. TypeOK /\ PresentOnce /\ NoConflict /\ Mirrored
    BY <1>1 DEF IInv
  <2>2. Bare(p, n) \/ \E x \in Symbols : NameOf[x] = n /\ Sole(p, x)
    BY <2>1, OnceIs
  <2>3. \A s, t \in In(internal, n, p) : s = t
    BY <2>2 DEF In, Bare, Sole
  <2>4. \A s, t \in In(external, n, p) : s = t
    BY <2>2 DEF In, Bare, Sole
  <2>5. ASSUME Flag(n, p) = "inherited", NEW s \in Inherited(n, p), NEW t \in Inherited(n, p), s # t
        PROVE  FALSE
    <3>1. /\ s \in Symbols /\ NameOf[s] = n /\ Sees(p, s)
          /\ t \in Symbols /\ NameOf[t] = n /\ Sees(p, t)
      BY <2>5 DEF Inherited, In, Sees
    <3>2. p \in Linked
      BY <2>1, <3>1 DEF Mirrored, Sees
    <3>3. Shielded(p, n)
      BY <2>1, <2>5, <3>1, <3>2, AgreedIs DEF AgreedAt
    <3>4. Bare(p, n)
      BY <2>1, <2>5, FindIs DEF FoundPresent, FoundNone, FoundInherited
    <3> QED
      BY <3>3, <3>4 DEF Shielded, Bare, Has
  <2> QED
    BY <2>3, <2>4, <2>5
<1> QED
  BY <1>1, Invariance, PTL

-------------------------------------------------------------------------------
(* What a name refers to.                                                  *)

\* The symbol found stays the one found if it stays, and no other symbol of the name
\* comes into the package.
LEMMA FindStays ==
  ASSUME IInv, IInv', NEW p \in Linked, p \in Linked', NEW n \in Names, Flag(n, p) # "none",
         \A t \in Symbols : NameOf[t] = n =>
           /\ Has(p, t) => Has(p, t)'
           /\ Sees(p, t) => Sees(p, t)'
           /\ Has(p, t)' => Has(p, t) \/ Find(n, p) = t
  PROVE  Find(n, p)' = Find(n, p)
<1>1. /\ TypeOK /\ PresentOnce /\ TypeOK' /\ PresentOnce' /\ NoConflict' /\ p \in Packages
      /\ AgreedAt(p, n)'
  BY AgreedIsNext DEF IInv, Linked
<1>2. PICK x \in Symbols : FoundPresent(p, n, x) \/ FoundInherited(p, n, x)
  BY <1>1, FindIs DEF FoundNone
<1>3. NameOf[x] = n /\ Find(n, p) = x
  BY <1>2 DEF FoundPresent, FoundInherited
<1>4. ASSUME Has(p, x)'
      PROVE  Find(n, p)' = x
  <2>1. PICK y \in Symbols : FoundPresent(p, n, y)'
    BY <1>1, <1>3, <1>4, FindIsNext DEF FoundInherited, FoundNone, Bare, Has
  <2>2. y = x
    BY <1>3, <1>4, <2>1 DEF FoundPresent, Sole, Has
  <2> QED
    BY <2>1, <2>2 DEF FoundPresent
<1>5. CASE FoundPresent(p, n, x)
  <2>1. internal[p][x] \in Nat /\ external[p][x] \in Nat
    BY <1>1, Typed
  <2>2. Has(p, x)
    BY <1>5, <2>1 DEF FoundPresent, Sole, Has
  <2> QED
    BY <1>3, <1>4, <2>2
<1>6. CASE FoundInherited(p, n, x) /\ ~Has(p, x)'
  <2>1. \A t \in Symbols : NameOf[t] = n => ~Has(p, t)'
    BY <1>3, <1>6 DEF FoundInherited, Bare, Has
  <2>2. Sees(p, x)'
    BY <1>3, <1>6 DEF FoundInherited
  <2>3. PICK y \in Symbols : FoundInherited(p, n, y)'
    <3>1. \A y \in Symbols : ~FoundPresent(p, n, y)'
      <4> SUFFICES ASSUME NEW y \in Symbols, FoundPresent(p, n, y)'
                   PROVE  FALSE
        OBVIOUS
      <4>1. internal'[p][y] \in Nat /\ external'[p][y] \in Nat
        BY <1>1, TypedNext
      <4>2. ~Has(p, y)' /\ internal'[p][y] + external'[p][y] = 1
        BY <2>1 DEF FoundPresent, Sole
      <4> QED
        BY <4>1, <4>2 DEF Has
    <3> QED
      BY <1>1, <1>3, <2>2, <3>1, FindIsNext DEF FoundNone
  <2>4. x = y
    <3> SUFFICES ASSUME x # y
                 PROVE  FALSE
      OBVIOUS
    <3>1. NameOf[y] = n /\ Sees(p, y)'
      BY <2>3 DEF FoundInherited
    <3>2. Shielded(p, n)'
      BY <1>1, <1>3, <2>2, <3>1 DEF AgreedAt
    <3> QED
      BY <2>1, <3>2 DEF Shielded
  <2> QED
    BY <1>3, <2>3, <2>4 DEF FoundInherited
<1> QED
  BY <1>2, <1>3, <1>4, <1>5, <1>6

\* A step about s in q that keeps the packages and loses no symbol, and adds none but s,
\* which is found in q or nothing is.
Keeps(q, s) ==
  /\ uses' = uses /\ state' = state
  /\ \A r \in Packages, t \in Symbols :
       /\ Has(r, t) => Has(r, t)'
       /\ external[r][t] > 0 => external'[r][t] > 0
       /\ Has(r, t)' =>
            \/ Has(r, t)
            \/ r = q /\ t = s /\ (Find(NameOf[s], q) = s \/ Flag(NameOf[s], q) = "none")

LEMMA AddingKeeps ==
  ASSUME IInv, NEW q \in Packages, NEW s \in Symbols, Adding(s, q)
  PROVE  Keeps(q, s)
<1>1. /\ TypeOK /\ PresentOnce
      /\ internal \in Tables /\ external \in Tables /\ NameOf[s] \in Names
      /\ internal[q][s] \in Nat /\ external[q][s] \in Nat
  BY Typed DEF IInv
<1>2. /\ With(internal, s, q)[q][s] = internal[q][s] + 1
      /\ \A r \in Packages, t \in Symbols :
           r # q \/ t # s => With(internal, s, q)[r][t] = internal[r][t]
  BY <1>1, WithAt
<1>3. /\ With(external, s, q)[q][s] = external[q][s] + 1
      /\ \A r \in Packages, t \in Symbols :
           r # q \/ t # s => With(external, s, q)[r][t] = external[r][t]
  BY <1>1, WithAt
<1>4. \A r \in Packages, t \in Symbols :
        r # q \/ t # s => Less(internal, s, q)[r][t] = internal[r][t]
  BY <1>1, LessAt
<1>5. CASE Intern(s, q)
  <2>1. /\ uses' = uses /\ state' = state /\ Flag(NameOf[s], q) = "none"
        /\ \/ external' = With(external, s, q) /\ internal' = internal
           \/ internal' = With(internal, s, q) /\ external' = external
    BY <1>5 DEF Intern
  <2> QED
    BY <1>1, <1>2, <1>3, <2>1 DEF Keeps, Has
<1>6. CASE Export(s, q)
  <2>1. /\ uses' = uses /\ state' = state /\ Find(NameOf[s], q) = s
        /\ external' = With(external, s, q)
        /\ internal' = internal \/ internal' = Less(internal, s, q)
    BY <1>6 DEF Export
  <2>2. external'[q][s] > 0
    BY <1>1, <1>3, <2>1
  <2>3. \A r \in Packages, t \in Symbols : r # q \/ t # s =>
          internal'[r][t] = internal[r][t] /\ external'[r][t] = external[r][t]
    BY <1>3, <1>4, <2>1
  <2> QED
    BY <2>1, <2>2, <2>3 DEF Keeps, Has
<1>7. CASE Import(s, q)
  <2>1. /\ uses' = uses /\ state' = state /\ external' = external
        /\ internal' = With(internal, s, q)
        /\ ~Present(NameOf[s], q) /\ Find(NameOf[s], q) \in {s, Nobody}
    BY <1>7 DEF Import
  <2>2. Find(NameOf[s], q) = s \/ Flag(NameOf[s], q) = "none"
    BY <1>1, <2>1, FindIs DEF FoundPresent, FoundInherited, FoundNone
  <2> QED
    BY <1>1, <1>2, <2>1, <2>2 DEF Keeps, Has
<1>8. CASE ShadowingPresent(s, q) \/ ShadowPresent(s, q)
  <2>1. /\ uses' = uses /\ state' = state /\ external' = external /\ internal' = internal
    BY <1>8 DEF ShadowingPresent, ShadowPresent
  <2> QED
    BY <2>1 DEF Keeps, Has
<1> QED
  BY <1>5, <1>6, <1>7, <1>8 DEF Adding

\* U differs from T in package q and for the name n only.
Beside(q, n, T, U) ==
  /\ U \in Tables
  /\ \A r \in Packages, u \in Symbols : r # q \/ NameOf[u] # n => U[r][u] = T[r][u]

LEMMA BesideSteps ==
  ASSUME NEW T \in Tables, NEW q \in Packages, NEW t \in Symbols, NEW n, NameOf[t] = n
  PROVE  Beside(q, n, T, T) /\ Beside(q, n, T, With(T, t, q)) /\ Beside(q, n, T, Less(T, t, q))
<1>1. Beside(q, n, T, T)
  BY DEF Beside
<1>2. Beside(q, n, T, With(T, t, q))
  BY WithAt DEF Beside
<1>3. Beside(q, n, T, Less(T, t, q))
  BY LessAt DEF Beside
<1> QED
  BY <1>1, <1>2, <1>3

\* An operation on a symbol leaves the symbols of other names alone.
LEMMA ChangingFocused ==
  ASSUME IInv, NEW q \in Packages, NEW s \in Symbols, Changing(s, q)
  PROVE  Focused(q, NameOf[s])
<1>1. /\ TypeOK /\ PresentOnce /\ NameOf[s] \in Names
      /\ internal \in Tables /\ external \in Tables /\ shadowings \in Tables
  BY Typed DEF IInv
<1>2. PICK n \in Names : n = NameOf[s]
  OBVIOUS
<1>3. ASSUME keyword' = keyword, state' = state, uses' = uses, usedBy' = usedBy,
             Beside(q, n, internal, internal'), Beside(q, n, external, external'),
             Beside(q, n, shadowings, shadowings')
      PROVE  Focused(q, n)
  BY <1>3 DEF Focused, Beside
<1>4. /\ Beside(q, n, internal, internal) /\ Beside(q, n, internal, With(internal, s, q))
      /\ Beside(q, n, internal, Less(internal, s, q))
  BY <1>1, <1>2, BesideSteps
<1>5. Beside(q, n, external, external) /\ Beside(q, n, external, Less(external, s, q))
  BY <1>1, <1>2, BesideSteps
<1>6. /\ Beside(q, n, shadowings, shadowings) /\ Beside(q, n, shadowings, With(shadowings, s, q))
      /\ Beside(q, n, shadowings, Less(shadowings, s, q))
  BY <1>1, <1>2, BesideSteps
<1>7. CASE Unintern(s, q) \/ Unexport(s, q)
  <2>1. /\ keyword' = keyword /\ state' = state /\ uses' = uses /\ usedBy' = usedBy
        /\ \/ internal' = internal \/ internal' = Less(internal, s, q)
           \/ internal' = With(internal, s, q)
        /\ external' = external \/ external' = Less(external, s, q)
        /\ shadowings' = shadowings \/ shadowings' = Less(shadowings, s, q)
    BY <1>7 DEF Unintern, Unexport
  <2> QED
    BY <1>2, <1>3, <1>4, <1>5, <1>6, <2>1
<1>8. CASE ShadowingAdd(s, q) \/ ShadowNew(s, q)
  <2>1. /\ keyword' = keyword /\ state' = state /\ uses' = uses /\ usedBy' = usedBy
        /\ internal' = With(internal, s, q) /\ external' = external
        /\ shadowings' = With(shadowings, s, q)
    BY <1>8 DEF ShadowingAdd, ShadowNew
  <2> QED
    BY <1>2, <1>3, <1>4, <1>5, <1>6, <2>1
<1>9. CASE ShadowingReplace(s, q)
  <2>1. PICK x \in Symbols : x = Find(n, q) /\ NameOf[x] = n
    BY <1>1, <1>2, <1>9, PresentIs DEF ShadowingReplace, FoundPresent
  <2>2. PICK T : T = Less(internal, x, q)
    OBVIOUS
  <2>3. PICK U : U = Less(shadowings, x, q)
    OBVIOUS
  <2>4. /\ keyword' = keyword /\ state' = state /\ uses' = uses /\ usedBy' = usedBy
        /\ internal' = With(T, s, q) \/ internal' = With(internal, s, q)
        /\ external' = external \/ external' = Less(external, x, q)
        /\ shadowings' = With(U, s, q)
    BY <1>2, <1>9, <2>1, <2>2, <2>3 DEF ShadowingReplace
  <2>5. Beside(q, n, internal, T) /\ Beside(q, n, shadowings, U)
    BY <1>1, <2>1, <2>2, <2>3, BesideSteps
  <2>6. T \in Tables /\ U \in Tables
    BY <2>5 DEF Beside
  <2>7. Beside(q, n, T, With(T, s, q)) /\ Beside(q, n, U, With(U, s, q))
    BY <1>2, <2>6, BesideSteps
  <2>8. Beside(q, n, internal, With(T, s, q)) /\ Beside(q, n, shadowings, With(U, s, q))
    BY <2>5, <2>7 DEF Beside
  <2>9. Beside(q, n, external, Less(external, x, q))
    BY <1>1, <2>1, BesideSteps
  <2> QED
    BY <1>2, <1>3, <1>4, <1>5, <2>4, <2>8, <2>9
<1> QED
  BY <1>7, <1>8, <1>9 DEF Changing

LEMMA StepKeepsMeaning ==
  ASSUME IInv, IInv', [Next]_vars, NEW p \in Linked, NEW n \in Names,
         Flag(n, p) # "none", Find(n, p)' # Find(n, p)
  PROVE  \/ \E q \in Packages, s \in Symbols : NameOf[s] = n /\ Changing(s, q)
         \/ \E q \in Packages : UnusePackage(q, p) \/ DeletePackage(q)
<1>1. p \in Packages /\ uses[p] \subseteq Packages /\ TypeOK /\ state[p] = "linked"
  BY Typed DEF IInv, Linked
<1>2. ASSUME p \in Linked', uses[p] \subseteq uses'[p],
             \A r \in Packages, t \in Symbols : NameOf[t] = n =>
               /\ Has(r, t) => Has(r, t)'
               /\ external[r][t] > 0 => external'[r][t] > 0
               /\ r = p /\ Has(r, t)' => Has(r, t) \/ Find(n, p) = t
      PROVE  FALSE
  <2>1. \A t \in Symbols : NameOf[t] = n /\ Sees(p, t) => Sees(p, t)'
    BY <1>1, <1>2 DEF Sees
  <2> QED
    BY <1>1, <1>2, <2>1, FindStays
<1>3. ASSUME NEW q \in Packages, NEW s \in Symbols, Changing(s, q), NameOf[s] # n
      PROVE  FALSE
  <2>1. Focused(q, NameOf[s])
    BY <1>3, ChangingFocused
  <2>2. \A r \in Packages, t \in Symbols : NameOf[t] = n =>
          internal'[r][t] = internal[r][t] /\ external'[r][t] = external[r][t]
    BY <1>3, <2>1 DEF Focused
  <2>3. p \in Linked' /\ uses' = uses
    BY <2>1 DEF Focused, Linked
  <2> QED
    BY <1>2, <2>2, <2>3 DEF Has
<1>4. ASSUME NEW q \in Packages, NEW s \in Symbols, Adding(s, q)
      PROVE  FALSE
  <2>1. Keeps(q, s)
    BY <1>4, AddingKeeps
  <2>2. p \in Linked' /\ uses' = uses
    BY <2>1 DEF Keeps, Linked
  <2>3. \A r \in Packages, t \in Symbols :
          /\ Has(r, t) => Has(r, t)'
          /\ external[r][t] > 0 => external'[r][t] > 0
    BY <2>1 DEF Keeps
  <2>4. \A t \in Symbols : NameOf[t] = n /\ Has(p, t)' => Has(p, t) \/ Find(n, p) = t
    BY <1>1, <2>1 DEF Keeps
  <2> QED
    BY <1>2, <2>2, <2>3, <2>4
<1>5. ASSUME NEW q \in Packages, NEW used \in SUBSET Packages, MakePackage(q, used)
      PROVE  FALSE
  <2>1. /\ internal' = internal /\ external' = external /\ q # p
        /\ uses' = [uses EXCEPT ![q] = used] /\ state' = [state EXCEPT ![q] = "linked"]
    BY <1>1, <1>5 DEF MakePackage, tables
  <2>2. p \in Linked' /\ uses'[p] = uses[p]
    BY <1>1, <2>1 DEF Linked, TypeOK
  <2> QED
    BY <1>2, <2>1, <2>2 DEF Has
<1>6. ASSUME NEW q \in Packages, NEW r \in Packages, UsePackage(q, r)
      PROVE  FALSE
  <2>1. /\ internal' = internal /\ external' = external /\ state' = state
        /\ uses' = [uses EXCEPT ![r] = @ \cup {q}]
    BY <1>6 DEF UsePackage, tables
  <2>2. p \in Linked' /\ uses[p] \subseteq uses'[p]
    BY <1>1, <2>1 DEF Linked, TypeOK
  <2> QED
    BY <1>2, <2>1, <2>2 DEF Has
<1>7. ASSUME NEW q \in Packages, NEW r \in Packages, UnusePackage(q, r), r # p
      PROVE  FALSE
  <2>1. /\ internal' = internal /\ external' = external /\ state' = state
        /\ uses' = [uses EXCEPT ![r] = @ \ {q}]
    BY <1>7 DEF UnusePackage, tables
  <2>2. p \in Linked' /\ uses'[p] = uses[p]
    BY <1>1, <1>7, <2>1 DEF Linked, TypeOK
  <2> QED
    BY <1>2, <2>1, <2>2 DEF Has
<1>8. CASE UNCHANGED vars
  <2>1. /\ internal' = internal /\ external' = external /\ state' = state /\ uses' = uses
    BY <1>8 DEF vars, tables
  <2>2. p \in Linked'
    BY <2>1 DEF Linked
  <2> QED
    BY <1>2, <2>1, <2>2 DEF Has
<1> QED
  BY <1>3, <1>4, <1>5, <1>6, <1>7, <1>8 DEF Next

\* What a name refers to changes only by operations that are meant to change it.
THEOREM MeaningStays == ASSUME Slips = {} PROVE Spec => SameSymbol
<1>1. IInv /\ IInv' /\ [Next]_vars =>
        [\A p \in Linked, n \in Names :
           Flag(n, p) # "none" /\ Find(n, p)' # Find(n, p) =>
             \/ \E q \in Packages, s \in Symbols : NameOf[s] = n /\ Changing(s, q)
             \/ \E q \in Packages : UnusePackage(q, p) \/ DeletePackage(q)]_vars
  BY StepKeepsMeaning
<1> QED
  BY <1>1, Invariance, PTL DEF Spec, SameSymbol

-------------------------------------------------------------------------------
(* What each unchecked case endangers, and what it does not.               *)

\* No call damages the types, checked or not.
LEMMA TypedStep == TypeOK /\ [Next]_vars => TypeOK'
<1> SUFFICES ASSUME TypeOK, [Next]_vars
             PROVE  TypeOK'
  OBVIOUS
<1>1. internal \in Tables /\ external \in Tables /\ shadowings \in Tables
  BY Typed
<1>2. ASSUME NEW table \in Tables, NEW s \in Symbols, NEW p \in Packages
      PROVE  With(table, s, p) \in Tables /\ Less(table, s, p) \in Tables
  BY <1>2, WithAt, LessAt
<1>3. ASSUME NEW p \in Packages, NEW s \in Symbols, Changing(s, p) \/ Adding(s, p)
      PROVE  TypeOK'
  <2>1. ASSUME internal' \in Tables, external' \in Tables, shadowings' \in Tables,
               home' \in [Symbols -> Packages \cup {Nobody}], made' \subseteq Symbols,
               UNCHANGED <<keyword, state, uses, usedBy>>
        PROVE  TypeOK'
    BY <2>1 DEF TypeOK, Tables
  <2>2. ASSUME NEW x
        PROVE  Homeless(x, p) \in [Symbols -> Packages \cup {Nobody}]
    BY DEF Homeless, TypeOK
  <2>3. CASE Unintern(s, p)
    <3>1. internal' \in Tables /\ external' \in Tables /\ shadowings' \in Tables
      BY <1>1, <1>2, <2>3 DEF Unintern
    <3>2. home' \in [Symbols -> Packages \cup {Nobody}] /\ made' \subseteq Symbols
      BY <2>2, <2>3 DEF Unintern, TypeOK
    <3> QED
      BY <2>1, <2>3, <3>1, <3>2 DEF Unintern
  <2>4. CASE Unexport(s, p)
    BY <1>1, <1>2, <2>1, <2>4 DEF Unexport, TypeOK
  <2>5. CASE ShadowingReplace(s, p)
    <3> DEFINE x == Find(NameOf[s], p)
    <3>1. x \in Symbols
      BY <2>5 DEF ShadowingReplace, Present, Find, Flag, In
    <3> HIDE DEF x
    <3>2. /\ Less(internal, x, p) \in Tables /\ Less(external, x, p) \in Tables
          /\ Less(shadowings, x, p) \in Tables /\ With(internal, s, p) \in Tables
      BY <1>1, <1>2, <3>1
    <3>3. With(Less(internal, x, p), s, p) \in Tables /\ With(Less(shadowings, x, p), s, p) \in Tables
      BY <1>2, <3>2
    <3>4. /\ \/ internal' = With(Less(internal, x, p), s, p) /\ external' = external
             \/ internal' = With(internal, s, p) /\ external' = Less(external, x, p)
          /\ shadowings' = With(Less(shadowings, x, p), s, p) /\ home' = Homeless(x, p)
          /\ UNCHANGED <<keyword, state, uses, usedBy, made>>
      BY <2>5 DEF ShadowingReplace, x
    <3>5. home' \in [Symbols -> Packages \cup {Nobody}] /\ made' \subseteq Symbols
      BY <2>2, <3>4 DEF TypeOK
    <3> QED
      BY <1>1, <2>1, <3>2, <3>3, <3>4, <3>5
  <2>6. CASE ShadowingAdd(s, p)
    BY <1>1, <1>2, <2>1, <2>6 DEF ShadowingAdd, TypeOK
  <2>7. CASE ShadowNew(s, p)
    BY <1>1, <1>2, <2>1, <2>7 DEF ShadowNew, TypeOK
  <2>8. CASE Intern(s, p)
    <3>1. internal' \in Tables /\ external' \in Tables /\ shadowings' \in Tables
      BY <1>1, <1>2, <2>8 DEF Intern
    <3>2. home' \in [Symbols -> Packages \cup {Nobody}] /\ made' \subseteq Symbols
      BY <2>8 DEF Intern, TypeOK
    <3> QED
      BY <2>1, <2>8, <3>1, <3>2 DEF Intern
  <2>9. CASE Export(s, p)
    BY <1>1, <1>2, <2>1, <2>9 DEF Export, TypeOK
  <2>10. CASE Import(s, p)
    BY <1>1, <1>2, <2>1, <2>10 DEF Import, TypeOK
  <2>11. CASE ShadowingPresent(s, p) \/ ShadowPresent(s, p)
    BY <1>1, <1>2, <2>1, <2>11 DEF ShadowingPresent, ShadowPresent, TypeOK
  <2> QED
    BY <1>3, <2>3, <2>4, <2>5, <2>6, <2>7, <2>8, <2>9, <2>10, <2>11 DEF Changing, Adding
<1>4. ASSUME NEW p \in Packages, NEW used \in SUBSET Packages, MakePackage(p, used)
      PROVE  TypeOK'
  <2>1. usedBy' \in [Packages -> SUBSET Packages]
    BY <1>4 DEF MakePackage, TypeOK
  <2> QED
    BY <1>4, <2>1 DEF MakePackage, TypeOK, tables
<1>5. ASSUME NEW p \in Packages, NEW q \in Packages, UsePackage(q, p) \/ UnusePackage(q, p)
      PROVE  TypeOK'
  <2>1. uses' \in [Packages -> SUBSET Packages] /\ usedBy' \in [Packages -> SUBSET Packages]
    <3>1. /\ uses \in [Packages -> SUBSET Packages] /\ usedBy \in [Packages -> SUBSET Packages]
          /\ uses[p] \subseteq Packages /\ usedBy[q] \subseteq Packages
      BY DEF TypeOK
    <3>2. /\ uses[p] \cup {q} \in SUBSET Packages /\ uses[p] \ {q} \in SUBSET Packages
          /\ usedBy[q] \cup {p} \in SUBSET Packages /\ usedBy[q] \ {p} \in SUBSET Packages
      BY <3>1
    <3>3. \/ /\ uses' = [uses EXCEPT ![p] = uses[p] \cup {q}]
             /\ usedBy' = [usedBy EXCEPT ![q] = usedBy[q] \cup {p}]
          \/ /\ uses' = [uses EXCEPT ![p] = uses[p] \ {q}]
             /\ usedBy' = [usedBy EXCEPT ![q] = usedBy[q] \ {p}]
      BY <1>5 DEF UsePackage, UnusePackage
    <3> QED
      BY <3>1, <3>2, <3>3
  <2>2. UNCHANGED <<keyword, state, tables, made, home>>
    BY <1>5 DEF UsePackage, UnusePackage
  <2> QED
    BY <2>1, <2>2 DEF TypeOK, tables
<1>6. ASSUME NEW p \in Packages, DeletePackage(p)
      PROVE  TypeOK'
  <2>1. uses' \in [Packages -> SUBSET Packages] /\ usedBy' \in [Packages -> SUBSET Packages]
    BY <1>6 DEF DeletePackage, TypeOK
  <2> QED
    BY <1>6, <2>1 DEF DeletePackage, TypeOK, tables
<1>7. CASE UNCHANGED vars
  BY <1>7 DEF vars, tables, TypeOK
<1> QED
  BY <1>3, <1>4, <1>5, <1>6, <1>7 DEF Next

\* The invariant of the tables by themselves, whatever packages see of each other.
OnceInv == TypeOK /\ PresentOnce /\ HomePresent

\* A step that leaves p with s alone of its name, or with nothing of that name, gives
\* the symbol s no home but p, and takes p as a home from those that go.
Settles(s, p) ==
  /\ \A q \in Packages, t \in Symbols :
       q # p \/ NameOf[t] # NameOf[s] =>
         /\ internal'[q][t] = internal[q][t]
         /\ external'[q][t] = external[q][t]
         /\ shadowings'[q][t] = shadowings[q][t]
  /\ Bare(p, NameOf[s])' \/ Sole(p, s)'
  /\ \A t \in Symbols : home'[t] \in {home[t], Nobody} \/ (t = s /\ home'[t] = p)
  /\ \A t \in Symbols : NameOf[t] = NameOf[s] /\ home'[t] = p => t = s /\ Sole(p, s)'

LEMMA SettledInv ==
  ASSUME OnceInv, TypeOK', NEW s \in Symbols, NEW p \in Packages, Settles(s, p)
  PROVE  OnceInv'
<1>1. TypeOK /\ PresentOnce /\ HomePresent /\ NameOf[s] \in Names
  BY DEF OnceInv
<1>2. PresentOnce'
  <2> SUFFICES ASSUME NEW q \in Packages, NEW m \in Names
               PROVE  Bare(q, m)' \/ \E t \in Symbols : NameOf[t] = m /\ Sole(q, t)'
    BY OnceIsNext
  <2>1. CASE q = p /\ m = NameOf[s]
    BY <2>1 DEF Settles
  <2>2. CASE q # p \/ m # NameOf[s]
    <3>1. \A t \in Symbols : NameOf[t] = m =>
            internal'[q][t] = internal[q][t] /\ external'[q][t] = external[q][t]
      BY <2>2 DEF Settles
    <3>2. Bare(q, m) => Bare(q, m)'
      BY <3>1 DEF Bare
    <3>3. \A t \in Symbols : NameOf[t] = m /\ Sole(q, t) => Sole(q, t)'
      BY <3>1 DEF Sole
    <3> QED
      BY <1>1, <3>2, <3>3, OnceIs
  <2> QED
    BY <2>1, <2>2
<1>3. HomePresent'
  <2> SUFFICES ASSUME NEW q \in Packages, NEW t \in Symbols, home'[t] = q
               PROVE  Has(q, t)'
    BY HomeIsNext
  <2>1. CASE q = p /\ NameOf[t] = NameOf[s]
    <3>1. t = s /\ Sole(p, s)'
      BY <2>1 DEF Settles
    <3>2. internal'[p][s] + external'[p][s] = 1
      BY <3>1 DEF Sole
    <3> QED
      BY <2>1, <3>1, <3>2, TypedNext DEF Has
  <2>2. CASE q # p \/ NameOf[t] # NameOf[s]
    <3>1. home[t] = q
      BY <2>2 DEF Settles
    <3>2. Has(q, t)
      BY <1>1, <3>1, HomeIs
    <3> QED
      BY <2>2, <3>2 DEF Settles, Has
  <2> QED
    BY <2>1, <2>2
<1> QED
  BY <1>2, <1>3 DEF OnceInv

\* Shadowing symbols stay present if the one the step is about is, and is once in the
\* list, and no other of its name is.
LEMMA SettledShadows ==
  ASSUME OnceInv, ShadowingsPresent, NEW s \in Symbols, NEW p \in Packages, Settles(s, p),
         \A t \in Symbols : NameOf[t] = NameOf[s] /\ shadowings'[p][t] > 0 =>
           t = s /\ shadowings'[p][s] = 1 /\ Sole(p, s)'
  PROVE  ShadowingsPresent'
<1> SUFFICES ASSUME NEW q \in Packages, NEW t \in Symbols, shadowings'[q][t] > 0
             PROVE  shadowings'[q][t] = 1 /\ internal'[q][t] + external'[q][t] = 1
  BY DEF ShadowingsPresent
<1>1. CASE q = p /\ NameOf[t] = NameOf[s]
  BY <1>1 DEF Sole
<1>2. CASE q # p \/ NameOf[t] # NameOf[s]
  BY <1>2 DEF Settles, ShadowingsPresent
<1> QED
  BY <1>1, <1>2

\* What holds in p of the symbols of a name before a step.
LEMMA Before ==
  ASSUME OnceInv, NEW p \in Packages, NEW n \in Names
  PROVE  /\ \A t \in Symbols : Bare(p, n) /\ NameOf[t] = n => home[t] # p
         /\ \A x, t \in Symbols :
              Sole(p, x) /\ NameOf[x] = n /\ NameOf[t] = n /\ home[t] = p => t = x
         /\ ShadowingsPresent =>
              /\ \A t \in Symbols : Bare(p, n) /\ NameOf[t] = n => shadowings[p][t] = 0
              /\ \A x, t \in Symbols : Sole(p, x) /\ NameOf[x] = n /\ NameOf[t] = n /\ t # x
                                         => shadowings[p][t] = 0
              /\ \A t \in Symbols : shadowings[p][t] \in {0, 1}
         /\ ~Present(n, p) => Bare(p, n)
<1>1. TypeOK /\ PresentOnce /\ HomePresent
  BY DEF OnceInv
<1>2. \A t \in Symbols : internal[p][t] \in Nat /\ external[p][t] \in Nat /\ shadowings[p][t] \in Nat
  BY <1>1, Typed
<1>3. \A t \in Symbols : home[t] = p => Has(p, t)
  BY <1>1, HomeIs
<1>4. \A t \in Symbols : Bare(p, n) /\ NameOf[t] = n => ~Has(p, t) /\ internal[p][t] + external[p][t] = 0
  BY DEF Bare, Has
<1>5. \A x, t \in Symbols : Sole(p, x) /\ NameOf[x] = n /\ NameOf[t] = n /\ t # x
                              => ~Has(p, t) /\ internal[p][t] + external[p][t] = 0
  BY DEF Sole, Has
<1>6. ~Present(n, p) => Bare(p, n)
  BY <1>1, FindIs DEF FoundPresent, FoundInherited, FoundNone
<1>7. ASSUME ShadowingsPresent
      PROVE  /\ \A t \in Symbols : Bare(p, n) /\ NameOf[t] = n => shadowings[p][t] = 0
             /\ \A x, t \in Symbols : Sole(p, x) /\ NameOf[x] = n /\ NameOf[t] = n /\ t # x
                                        => shadowings[p][t] = 0
             /\ \A t \in Symbols : shadowings[p][t] \in {0, 1}
  <2>1. \A t \in Symbols : shadowings[p][t] = 0 \/
          (shadowings[p][t] = 1 /\ internal[p][t] + external[p][t] = 1)
    BY <1>2, <1>7 DEF ShadowingsPresent
  <2> QED
    BY <1>4, <1>5, <2>1
<1> QED
  BY <1>3, <1>4, <1>5, <1>6, <1>7

\* A symbol arrives where none of its name is.
LEMMA Arrives ==
  ASSUME OnceInv, NEW s \in Symbols, NEW p \in Packages, Bare(p, NameOf[s]),
         \/ internal' = With(internal, s, p) /\ external' = external
         \/ internal' = internal /\ external' = With(external, s, p),
         shadowings' = shadowings \/ shadowings' = With(shadowings, s, p),
         home' = home \/ home' = [home EXCEPT ![s] = p]
  PROVE  /\ Settles(s, p) /\ Sole(p, s)'
         /\ ShadowingsPresent => \A t \in Symbols : NameOf[t] = NameOf[s] /\ shadowings'[p][t] > 0 =>
                                   t = s /\ shadowings'[p][s] = 1
<1>1. /\ internal \in Tables /\ external \in Tables /\ shadowings \in Tables
      /\ home \in [Symbols -> Packages \cup {Nobody}]
  BY Typed DEF OnceInv, TypeOK
<1>2. internal[p][s] = 0 /\ external[p][s] = 0
  BY DEF Bare
<1>3. /\ internal'[p][s] + external'[p][s] = 1
      /\ \A q \in Packages, t \in Symbols : q # p \/ t # s =>
           internal'[q][t] = internal[q][t] /\ external'[q][t] = external[q][t]
  BY <1>1, <1>2, WithAt
<1>4. /\ \A q \in Packages, t \in Symbols : q # p \/ t # s => shadowings'[q][t] = shadowings[q][t]
      /\ shadowings'[p][s] \in {shadowings[p][s], shadowings[p][s] + 1}
  BY <1>1, WithAt
<1>5. Sole(p, s)'
  BY <1>3 DEF Sole, Bare
<1>6. \A t \in Symbols : home'[t] = IF t = s /\ home' # home THEN p ELSE home[t]
  BY <1>1
<1>7. Settles(s, p)
  <2>1. \A t \in Symbols : NameOf[t] = NameOf[s] => home[t] # p
    BY Before
  <2> QED
    BY <1>3, <1>4, <1>5, <1>6, <2>1 DEF Settles
<1>8. ASSUME ShadowingsPresent, NEW t \in Symbols, NameOf[t] = NameOf[s], shadowings'[p][t] > 0
      PROVE  t = s /\ shadowings'[p][s] = 1
  <2>1. shadowings[p][t] = 0 /\ shadowings[p][s] = 0
    BY <1>8, Before
  <2> QED
    BY <1>4, <1>8, <2>1
<1> QED
  BY <1>5, <1>7, <1>8

\* A symbol that is alone of its name in p moves from one table to the other.
LEMMA Moves ==
  ASSUME OnceInv, NEW s \in Symbols, NEW p \in Packages, Sole(p, s),
         \/ /\ internal[p][s] > 0
            /\ internal' = Less(internal, s, p) /\ external' = With(external, s, p)
         \/ /\ external[p][s] > 0
            /\ external' = Less(external, s, p) /\ internal' = With(internal, s, p),
         shadowings' = shadowings, home' = home
  PROVE  /\ Settles(s, p) /\ Sole(p, s)'
         /\ ShadowingsPresent => \A t \in Symbols : NameOf[t] = NameOf[s] /\ shadowings'[p][t] > 0 =>
                                   t = s /\ shadowings'[p][s] = 1
<1>1. internal \in Tables /\ external \in Tables /\ internal[p][s] \in Nat /\ external[p][s] \in Nat
  BY Typed DEF OnceInv
<1>2. internal[p][s] + external[p][s] = 1
  BY DEF Sole
<1>3. /\ internal'[p][s] + external'[p][s] = 1
      /\ \A q \in Packages, t \in Symbols : q # p \/ t # s =>
           internal'[q][t] = internal[q][t] /\ external'[q][t] = external[q][t]
  <2>1. CASE internal[p][s] > 0
    <3>1. internal[p][s] = 1 /\ external[p][s] = 0
      BY <1>1, <1>2, <2>1
    <3>2. internal' = Less(internal, s, p) /\ external' = With(external, s, p)
      BY <3>1
    <3>3. /\ internal'[p][s] = 0
          /\ \A q \in Packages, t \in Symbols : q # p \/ t # s => internal'[q][t] = internal[q][t]
      BY <1>1, <3>1, <3>2, LessAt
    <3>4. /\ external'[p][s] = 1
          /\ \A q \in Packages, t \in Symbols : q # p \/ t # s => external'[q][t] = external[q][t]
      BY <1>1, <3>1, <3>2, WithAt
    <3> QED
      BY <3>3, <3>4
  <2>2. CASE ~(internal[p][s] > 0)
    <3>1. internal[p][s] = 0 /\ external[p][s] = 1
      BY <1>1, <1>2, <2>2
    <3>2. external' = Less(external, s, p) /\ internal' = With(internal, s, p)
      BY <3>1
    <3>3. /\ external'[p][s] = 0
          /\ \A q \in Packages, t \in Symbols : q # p \/ t # s => external'[q][t] = external[q][t]
      BY <1>1, <3>1, <3>2, LessAt
    <3>4. /\ internal'[p][s] = 1
          /\ \A q \in Packages, t \in Symbols : q # p \/ t # s => internal'[q][t] = internal[q][t]
      BY <1>1, <3>1, <3>2, WithAt
    <3> QED
      BY <3>3, <3>4
  <2> QED
    BY <2>1, <2>2
<1>4. Sole(p, s)'
  BY <1>3 DEF Sole
<1>5. Settles(s, p)
  <2>1. \A t \in Symbols : NameOf[t] = NameOf[s] /\ home[t] = p => t = s
    BY Before
  <2> QED
    BY <1>3, <1>4, <2>1 DEF Settles
<1>6. ASSUME ShadowingsPresent, NEW t \in Symbols, NameOf[t] = NameOf[s], shadowings'[p][t] > 0
      PROVE  t = s /\ shadowings'[p][s] = 1
  <2>1. shadowings[p][t] = 1 /\ (t # s => shadowings[p][t] = 0)
    BY <1>6, Before
  <2> QED
    BY <2>1
<1> QED
  BY <1>4, <1>5, <1>6

\* What is left of a table and of the homes when x goes, which is alone of its name.
LEMMA Goes ==
  ASSUME OnceInv, NEW x \in Symbols, NEW p \in Packages, NEW n \in Names, FoundPresent(p, n, x),
         NEW int, NEW ext,
         IF Flag(n, p) = "internal" THEN int = Less(internal, x, p) /\ ext = external
                                    ELSE int = internal /\ ext = Less(external, x, p)
  PROVE  /\ int \in Tables /\ ext \in Tables
         /\ \A t \in Symbols : NameOf[t] = n => int[p][t] = 0 /\ ext[p][t] = 0
         /\ \A q \in Packages, t \in Symbols : q # p \/ NameOf[t] # n =>
              int[q][t] = internal[q][t] /\ ext[q][t] = external[q][t]
         /\ \A t \in Symbols : /\ Homeless(x, p)[t] \in {home[t], Nobody}
                               /\ NameOf[t] = n => Homeless(x, p)[t] # p
<1>1. /\ internal \in Tables /\ external \in Tables
      /\ internal[p][x] \in Nat /\ external[p][x] \in Nat
      /\ home \in [Symbols -> Packages \cup {Nobody}] /\ Nobody \notin Packages
  BY Typed DEF OnceInv, TypeOK
<1>2. Sole(p, x) /\ NameOf[x] = n /\ Flag(n, p) = IF internal[p][x] > 0 THEN "internal" ELSE "external"
  BY DEF FoundPresent
<1>3. /\ int \in Tables /\ ext \in Tables /\ int[p][x] = 0 /\ ext[p][x] = 0
      /\ \A q \in Packages, t \in Symbols : q # p \/ t # x =>
           int[q][t] = internal[q][t] /\ ext[q][t] = external[q][t]
  <2>1. CASE internal[p][x] > 0
    <3>1. internal[p][x] = 1 /\ external[p][x] = 0 /\ Flag(n, p) = "internal"
      BY <1>1, <1>2, <2>1 DEF Sole
    <3>2. int = Less(internal, x, p) /\ ext = external
      BY <3>1
    <3> QED
      BY <1>1, <3>1, <3>2, LessAt
  <2>2. CASE ~(internal[p][x] > 0)
    <3>1. internal[p][x] = 0 /\ external[p][x] = 1 /\ Flag(n, p) # "internal"
      BY <1>1, <1>2, <2>2 DEF Sole
    <3>2. int = internal /\ ext = Less(external, x, p)
      BY <3>1
    <3> QED
      BY <1>1, <3>1, <3>2, LessAt
  <2> QED
    BY <2>1, <2>2
<1>4. \A t \in Symbols : NameOf[t] = n => int[p][t] = 0 /\ ext[p][t] = 0
  BY <1>2, <1>3 DEF Sole
<1>5. \A t \in Symbols : NameOf[t] = n /\ home[t] = p => t = x
  BY <1>2, Before
<1>6. \A t \in Symbols : Homeless(x, p)[t] = IF t = x /\ home[x] = p THEN Nobody ELSE home[t]
  BY <1>1 DEF Homeless
<1> QED
  BY <1>1, <1>2, <1>3, <1>4, <1>5, <1>6

LEMMA ReplaceSettles ==
  ASSUME OnceInv, NEW s \in Symbols, NEW p \in Packages, ShadowingReplace(s, p)
  PROVE  /\ Settles(s, p) /\ Sole(p, s)'
         /\ ShadowingsPresent => \A t \in Symbols : NameOf[t] = NameOf[s] /\ shadowings'[p][t] > 0 =>
                                   t = s /\ shadowings'[p][s] = 1
<1>1. PICK n \in Names : n = NameOf[s]
  OBVIOUS
<1>2. PICK x \in Symbols : x = Find(n, p) /\ FoundPresent(p, n, x)
  BY <1>1, PresentIs DEF ShadowingReplace, OnceInv
<1>3. PICK int, ext :
        /\ IF Flag(n, p) = "internal" THEN int = Less(internal, x, p) /\ ext = external
                                      ELSE int = internal /\ ext = Less(external, x, p)
        /\ internal' = With(int, s, p) /\ external' = ext
  <2>1. CASE Flag(n, p) = "internal"
    <3>1. internal' = With(Less(internal, x, p), s, p) /\ external' = external
      BY <1>1, <1>2, <2>1 DEF ShadowingReplace
    <3> QED
      BY <2>1, <3>1
  <2>2. CASE Flag(n, p) # "internal"
    <3>1. internal' = With(internal, s, p) /\ external' = Less(external, x, p)
      BY <1>1, <1>2, <2>2 DEF ShadowingReplace
    <3> QED
      BY <2>2, <3>1
  <2> QED
    BY <2>1, <2>2
<1>4. IF Flag(n, p) = "internal" THEN int = Less(internal, x, p) /\ ext = external
                                 ELSE int = internal /\ ext = Less(external, x, p)
  BY <1>3
<1>5. /\ int \in Tables /\ ext \in Tables
      /\ \A t \in Symbols : NameOf[t] = n => int[p][t] = 0 /\ ext[p][t] = 0
      /\ \A q \in Packages, t \in Symbols : q # p \/ NameOf[t] # n =>
           int[q][t] = internal[q][t] /\ ext[q][t] = external[q][t]
      /\ \A t \in Symbols : /\ Homeless(x, p)[t] \in {home[t], Nobody}
                            /\ NameOf[t] = n => Homeless(x, p)[t] # p
  BY <1>2, <1>4, Goes
<1>6. /\ x # s /\ internal' = With(int, s, p) /\ external' = ext /\ home' = Homeless(x, p)
      /\ shadowings' = With(Less(shadowings, x, p), s, p)
  BY <1>1, <1>2, <1>3 DEF ShadowingReplace
<1>7. /\ internal'[p][s] = 1 /\ external'[p][s] = 0
      /\ \A q \in Packages, t \in Symbols : q # p \/ t # s =>
           internal'[q][t] = int[q][t] /\ external'[q][t] = ext[q][t]
  <2>1. int[p][s] = 0 /\ ext[p][s] = 0
    BY <1>1, <1>5
  <2>2. /\ With(int, s, p)[p][s] = int[p][s] + 1
        /\ \A q \in Packages, t \in Symbols : q # p \/ t # s => With(int, s, p)[q][t] = int[q][t]
    BY <1>5, WithAt
  <2>3. /\ internal'[p][s] = int[p][s] + 1
        /\ \A q \in Packages, t \in Symbols : q # p \/ t # s => internal'[q][t] = int[q][t]
    BY <1>6, <2>2
  <2> QED
    BY <1>6, <2>1, <2>3
<1>8. Sole(p, s)'
  BY <1>1, <1>5, <1>7 DEF Sole
<1>9. shadowings \in Tables /\ Less(shadowings, x, p) \in Tables /\ NameOf[x] = n /\ Sole(p, x)
  BY <1>2, Typed, LessAt DEF OnceInv, FoundPresent
<1>10. /\ shadowings'[p][s] = shadowings[p][s] + 1
       /\ shadowings[p][x] <= 1 => shadowings'[p][x] = 0
       /\ \A q \in Packages, t \in Symbols : q # p \/ (t # x /\ t # s) =>
            shadowings'[q][t] = shadowings[q][t]
  <2>1. PICK U : U = Less(shadowings, x, p)
    OBVIOUS
  <2>2. /\ U \in Tables /\ (shadowings[p][x] <= 1 => U[p][x] = 0)
        /\ \A q \in Packages, t \in Symbols : q # p \/ t # x => U[q][t] = shadowings[q][t]
    BY <1>9, <2>1, LessAt
  <2>3. shadowings' = With(U, s, p)
    BY <1>6, <2>1
  <2>4. /\ shadowings'[p][s] = U[p][s] + 1
        /\ \A q \in Packages, t \in Symbols : q # p \/ t # s => shadowings'[q][t] = U[q][t]
    BY <2>2, <2>3, WithAt
  <2> QED
    BY <1>6, <2>2, <2>4
<1>11. Settles(s, p)
  BY <1>1, <1>5, <1>6, <1>7, <1>8, <1>9, <1>10 DEF Settles
<1>12. ASSUME ShadowingsPresent, NEW t \in Symbols, NameOf[t] = n, shadowings'[p][t] > 0
       PROVE  t = s /\ shadowings'[p][s] = 1
  <2>1. shadowings[p][s] = 0 /\ shadowings[p][x] <= 1
    BY <1>1, <1>6, <1>9, <1>12, Before
  <2>2. t # x /\ t # s => shadowings[p][t] = 0
    BY <1>9, <1>12, Before
  <2> QED
    BY <1>10, <1>12, <2>1, <2>2
<1> QED
  BY <1>1, <1>8, <1>11, <1>12

LEMMA UninternSettles ==
  ASSUME OnceInv, NEW s \in Symbols, NEW p \in Packages, Unintern(s, p)
  PROVE  /\ Settles(s, p)
         /\ ShadowingsPresent => \A t \in Symbols : NameOf[t] = NameOf[s] => ~(shadowings'[p][t] > 0)
<1>1. PICK n \in Names : n = NameOf[s]
  OBVIOUS
<1>2. FoundPresent(p, n, s)
  BY <1>1, PresentIs DEF Unintern, OnceInv
<1>3. /\ \A t \in Symbols : NameOf[t] = n => internal'[p][t] = 0 /\ external'[p][t] = 0
      /\ \A q \in Packages, t \in Symbols : q # p \/ NameOf[t] # n =>
           internal'[q][t] = internal[q][t] /\ external'[q][t] = external[q][t]
      /\ \A t \in Symbols : /\ Homeless(s, p)[t] \in {home[t], Nobody}
                            /\ NameOf[t] = n => Homeless(s, p)[t] # p
  <2>1. IF Flag(n, p) = "internal" THEN internal' = Less(internal, s, p) /\ external' = external
                                   ELSE internal' = internal /\ external' = Less(external, s, p)
    BY <1>1 DEF Unintern
  <2> QED
    BY <1>2, <2>1, Goes
<1>4. home' = Homeless(s, p) /\ shadowings' = Less(shadowings, s, p) /\ shadowings \in Tables
  BY Typed DEF Unintern, OnceInv
<1>5. /\ \A q \in Packages, t \in Symbols : q # p \/ t # s => shadowings'[q][t] = shadowings[q][t]
      /\ shadowings[p][s] <= 1 => shadowings'[p][s] = 0
  BY <1>4, LessAt
<1>6. Settles(s, p)
  BY <1>1, <1>3, <1>4, <1>5 DEF Settles, Bare
<1>7. ASSUME ShadowingsPresent, NEW t \in Symbols, NameOf[t] = n
      PROVE  ~(shadowings'[p][t] > 0)
  <2>1. shadowings[p][s] <= 1 /\ (t # s => shadowings[p][t] = 0)
    BY <1>2, <1>7, Before DEF FoundPresent
  <2> QED
    BY <1>5, <2>1
<1> QED
  BY <1>1, <1>6, <1>7

\* A symbol that is there is noted once more as shadowing, or not.
LEMMA NotedSettles ==
  ASSUME OnceInv, NEW s \in Symbols, NEW p \in Packages,
         ShadowingPresent(s, p) \/ ("shadow" \notin Slips /\ ShadowPresent(s, p))
  PROVE  /\ Settles(s, p) /\ Sole(p, s)'
         /\ ShadowingsPresent => \A t \in Symbols : NameOf[t] = NameOf[s] /\ shadowings'[p][t] > 0 =>
                                   t = s /\ shadowings'[p][s] = 1
<1>1. /\ Present(NameOf[s], p) /\ Find(NameOf[s], p) = s /\ shadowings[p][s] = 0
      /\ shadowings' = With(shadowings, s, p)
      /\ UNCHANGED <<internal, external, home>>
  BY DEF ShadowingPresent, ShadowPresent
<1>2. NameOf[s] \in Names /\ Sole(p, s)
  BY <1>1, PresentIs DEF OnceInv, FoundPresent
<1>3. Sole(p, s)'
  BY <1>1, <1>2 DEF Sole
<1>4. /\ shadowings'[p][s] = 1
      /\ \A q \in Packages, t \in Symbols : q # p \/ t # s => shadowings'[q][t] = shadowings[q][t]
  <2>1. shadowings \in Tables
    BY Typed DEF OnceInv
  <2> QED
    BY <1>1, <2>1, WithAt
<1>5. Settles(s, p)
  <2>1. \A t \in Symbols : NameOf[t] = NameOf[s] /\ home[t] = p => t = s
    BY <1>2, Before
  <2> QED
    BY <1>1, <1>3, <1>4, <2>1 DEF Settles
<1>6. ASSUME ShadowingsPresent, NEW t \in Symbols, NameOf[t] = NameOf[s], shadowings'[p][t] > 0
      PROVE  t = s /\ shadowings'[p][s] = 1
  <2>1. t # s => shadowings[p][t] = 0
    BY <1>2, <1>6, Before
  <2> QED
    BY <1>4, <1>6, <2>1
<1> QED
  BY <1>3, <1>5, <1>6

\* Whatever a call does to a symbol, if it does not find it inherited and unexport it: at
\* the end the symbol is alone of its name in the package, or nothing is left of the name.
LEMMA SymbolSettles ==
  ASSUME OnceInv, TypeOK', NEW s \in Symbols, NEW p \in Packages,
         \/ Unintern(s, p) \/ ("unexport" \notin Slips /\ Unexport(s, p))
         \/ ShadowingReplace(s, p) \/ ShadowingAdd(s, p) \/ ShadowNew(s, p)
         \/ Intern(s, p) \/ Export(s, p) \/ Import(s, p) \/ ShadowingPresent(s, p)
         \/ ("shadow" \notin Slips /\ ShadowPresent(s, p))
  PROVE  /\ Settles(s, p)
         /\ ShadowingsPresent => \A t \in Symbols : NameOf[t] = NameOf[s] /\ shadowings'[p][t] > 0 =>
                                   t = s /\ shadowings'[p][s] = 1 /\ Sole(p, s)'
<1>1. TypeOK /\ PresentOnce /\ NameOf[s] \in Names
  BY DEF OnceInv
<1>2. CASE Unintern(s, p)
  BY <1>2, UninternSettles
<1>3. CASE "unexport" \notin Slips /\ Unexport(s, p)
  <2>1. Flag(NameOf[s], p) = "external" /\ Find(NameOf[s], p) = s
    BY <1>3 DEF Unexport
  <2>2. FoundPresent(p, NameOf[s], s)
    BY <1>1, <2>1, FoundIs DEF FoundInherited
  <2>3. Sole(p, s) /\ external[p][s] > 0
    <3>1. internal[p][s] \in Nat /\ external[p][s] \in Nat /\ ~(internal[p][s] > 0)
      BY <1>1, <2>1, <2>2, Typed DEF FoundPresent
    <3> QED
      BY <2>2, <3>1 DEF FoundPresent, Sole
  <2>4. /\ external' = Less(external, s, p) /\ internal' = With(internal, s, p)
        /\ shadowings' = shadowings /\ home' = home
    BY <1>3 DEF Unexport
  <2> QED
    BY <2>3, <2>4, Moves
<1>4. CASE ShadowingReplace(s, p)
  BY <1>4, ReplaceSettles
<1>5. CASE ShadowingAdd(s, p) \/ ShadowNew(s, p)
  <2>1. Bare(p, NameOf[s])
    BY <1>1, <1>5, Before DEF ShadowingAdd, ShadowNew
  <2>2. /\ internal' = With(internal, s, p) /\ external' = external
        /\ shadowings' = With(shadowings, s, p)
        /\ home' = home \/ home' = [home EXCEPT ![s] = p]
    BY <1>5 DEF ShadowingAdd, ShadowNew
  <2> QED
    BY <2>1, <2>2, Arrives
<1>6. CASE Intern(s, p) \/ Import(s, p)
  <2>1. Bare(p, NameOf[s])
    <3>1. ~Present(NameOf[s], p)
      BY <1>6 DEF Intern, Import, Present
    <3> QED
      BY <1>1, <3>1, Before
  <2>2. /\ \/ internal' = With(internal, s, p) /\ external' = external
           \/ internal' = internal /\ external' = With(external, s, p)
        /\ shadowings' = shadowings
        /\ home' = home \/ home' = [home EXCEPT ![s] = p]
    BY <1>6 DEF Intern, Import
  <2> QED
    BY <2>1, <2>2, Arrives
<1>7. CASE Export(s, p)
  <2>1. /\ Find(NameOf[s], p) = s /\ Flag(NameOf[s], p) # "external"
        /\ internal' = IF Flag(NameOf[s], p) = "internal" THEN Less(internal, s, p) ELSE internal
        /\ external' = With(external, s, p) /\ shadowings' = shadowings /\ home' = home
    BY <1>7 DEF Export
  <2>2. CASE FoundPresent(p, NameOf[s], s)
    <3>1. Sole(p, s) /\ internal[p][s] > 0 /\ Flag(NameOf[s], p) = "internal"
      BY <2>1, <2>2 DEF FoundPresent
    <3>2. internal' = Less(internal, s, p)
      BY <2>1, <3>1
    <3> QED
      BY <2>1, <3>1, <3>2, Moves
  <2>3. CASE FoundInherited(p, NameOf[s], s)
    <3>1. Bare(p, NameOf[s]) /\ internal' = internal
      BY <2>1, <2>3 DEF FoundInherited
    <3> QED
      BY <2>1, <3>1, Arrives
  <2> QED
    BY <1>1, <2>1, <2>2, <2>3, FoundIs
<1>8. CASE ShadowingPresent(s, p) \/ ("shadow" \notin Slips /\ ShadowPresent(s, p))
  BY <1>8, NotedSettles
<1> QED
  BY <1>2, <1>3, <1>4, <1>5, <1>6, <1>7, <1>8

LEMMA OnceStep == "unexport" \notin Slips /\ OnceInv /\ [Next]_vars => OnceInv'
<1> SUFFICES ASSUME "unexport" \notin Slips, OnceInv, [Next]_vars
             PROVE  OnceInv'
  OBVIOUS
<1>1. TypeOK'
  BY TypedStep DEF OnceInv
<1>2. ASSUME UNCHANGED <<internal, external, home>>
      PROVE  OnceInv'
  BY <1>1, <1>2 DEF OnceInv, PresentOnce, HomePresent, Has
<1>3. ASSUME NEW p \in Packages, NEW s \in Symbols, Changing(s, p) \/ Adding(s, p)
      PROVE  OnceInv'
  <2>1. CASE ShadowPresent(s, p)
    BY <1>2, <2>1 DEF ShadowPresent
  <2>2. CASE ~ShadowPresent(s, p)
    <3>1. Settles(s, p)
      BY <1>1, <1>3, <2>2, SymbolSettles DEF Changing, Adding
    <3> QED
      BY <1>1, <3>1, SettledInv
  <2> QED
    BY <2>1, <2>2
<1>4. ASSUME NEW p \in Packages, NEW used \in SUBSET Packages, MakePackage(p, used)
      PROVE  OnceInv'
  BY <1>2, <1>4 DEF MakePackage, tables
<1>5. ASSUME NEW p \in Packages, NEW q \in Packages, UsePackage(q, p) \/ UnusePackage(q, p)
      PROVE  OnceInv'
  BY <1>2, <1>5 DEF UsePackage, UnusePackage, tables
<1>6. ASSUME NEW p \in Packages, DeletePackage(p)
      PROVE  OnceInv'
  BY <1>2, <1>6 DEF DeletePackage, tables
<1>7. CASE UNCHANGED vars
  BY <1>2, <1>7 DEF vars, tables
<1> QED
  BY <1>3, <1>4, <1>5, <1>6, <1>7 DEF Next

LEMMA ShadowingsStep ==
  Slips \subseteq {"make"} /\ OnceInv /\ ShadowingsPresent /\ [Next]_vars => ShadowingsPresent'
<1> SUFFICES ASSUME Slips \subseteq {"make"}, OnceInv, ShadowingsPresent, [Next]_vars
             PROVE  ShadowingsPresent'
  OBVIOUS
<1>1. "unexport" \notin Slips /\ "shadow" \notin Slips
  OBVIOUS
<1>2. TypeOK'
  BY TypedStep DEF OnceInv
<1>3. ASSUME UNCHANGED <<internal, external, shadowings>>
      PROVE  ShadowingsPresent'
  BY <1>3 DEF ShadowingsPresent
<1>4. ASSUME NEW p \in Packages, NEW s \in Symbols, Changing(s, p) \/ Adding(s, p)
      PROVE  ShadowingsPresent'
  <2>1. /\ Settles(s, p)
        /\ \A t \in Symbols : NameOf[t] = NameOf[s] /\ shadowings'[p][t] > 0 =>
             t = s /\ shadowings'[p][s] = 1 /\ Sole(p, s)'
    BY <1>1, <1>2, <1>4, SymbolSettles DEF Changing, Adding
  <2> QED
    BY <2>1, SettledShadows
<1>5. ASSUME NEW p \in Packages, NEW used \in SUBSET Packages, MakePackage(p, used)
      PROVE  ShadowingsPresent'
  BY <1>3, <1>5 DEF MakePackage, tables
<1>6. ASSUME NEW p \in Packages, NEW q \in Packages, UsePackage(q, p) \/ UnusePackage(q, p)
      PROVE  ShadowingsPresent'
  BY <1>3, <1>6 DEF UsePackage, UnusePackage, tables
<1>7. ASSUME NEW p \in Packages, DeletePackage(p)
      PROVE  ShadowingsPresent'
  BY <1>3, <1>7 DEF DeletePackage, tables
<1>8. CASE UNCHANGED vars
  BY <1>3, <1>8 DEF vars, tables
<1> QED
  BY <1>4, <1>5, <1>6, <1>7, <1>8 DEF Next

\* Only the operations on packages touch the lists that mirror each other.
LEMMA MirroredStep ==
  "make" \notin Slips /\ TypeOK /\ Mirrored /\ [Next]_vars => Mirrored'
<1> SUFFICES ASSUME "make" \notin Slips, TypeOK, Mirrored, [Next]_vars
             PROVE  Mirrored'
  OBVIOUS
<1>1. /\ \A p, q \in Packages : q \in uses[p] <=> p \in usedBy[q]
      /\ \A p \in Packages : uses[p] # {} => p \in Linked
      /\ \A p \in Packages : uses[p] \subseteq Linked \ {keyword}
      /\ uses \in [Packages -> SUBSET Packages] /\ usedBy \in [Packages -> SUBSET Packages]
      /\ state \in [Packages -> {"unmade", "linked", "deleted"}]
  BY DEF Mirrored, TypeOK
<1>2. ASSUME UNCHANGED <<keyword, state, uses, usedBy>>
      PROVE  Mirrored'
  BY <1>2 DEF Mirrored, Linked
<1>3. ASSUME NEW p \in Packages, NEW s \in Symbols, Changing(s, p) \/ Adding(s, p)
      PROVE  Mirrored'
  <2>1. UNCHANGED <<keyword, state, uses, usedBy>>
    BY <1>3 DEF Changing, Adding, Unintern, Unexport, ShadowingReplace, ShadowingAdd, ShadowNew,
                Intern, Export, Import, ShadowingPresent, ShadowPresent
  <2> QED
    BY <1>2, <2>1
<1>4. ASSUME NEW p \in Packages, NEW used \in SUBSET Packages, MakePackage(p, used)
      PROVE  Mirrored'
  <2>1. /\ state[p] = "unmade" /\ used \subseteq Linked /\ keyword \notin used /\ keyword' = keyword
        /\ state' = [state EXCEPT ![p] = "linked"]
        /\ uses' = [uses EXCEPT ![p] = used]
        /\ usedBy' = [q \in Packages |-> IF q \in used THEN usedBy[q] \cup {p} ELSE usedBy[q]]
    BY <1>4 DEF MakePackage
  <2>2. p \notin Linked /\ uses[p] = {}
    BY <1>1, <2>1 DEF Linked
  <2>3. Linked' = Linked \cup {p}
    BY <1>1, <2>1 DEF Linked
  <2>4. \A q \in Packages : uses'[q] = IF q = p THEN used ELSE uses[q]
    BY <1>1, <2>1
  <2>5. \A r \in Packages : usedBy'[r] = IF r \in used THEN usedBy[r] \cup {p} ELSE usedBy[r]
    BY <2>1
  <2>6. \A q, r \in Packages : r \in uses'[q] <=> q \in usedBy'[r]
    <3>1. \A r \in Packages : p \notin usedBy[r]
      BY <1>1, <2>2
    <3>2. ASSUME NEW q \in Packages, NEW r \in Packages, q # p
          PROVE  r \in uses'[q] <=> q \in usedBy'[r]
      <4>1. uses'[q] = uses[q] /\ (q \in usedBy'[r] <=> q \in usedBy[r])
        BY <2>4, <2>5, <3>2
      <4> QED
        BY <1>1, <4>1
    <3>3. ASSUME NEW r \in Packages
          PROVE  r \in uses'[p] <=> p \in usedBy'[r]
      <4>1. uses'[p] = used /\ (p \in usedBy'[r] <=> r \in used)
        BY <2>4, <2>5, <3>1
      <4> QED
        BY <4>1
    <3> QED
      BY <3>2, <3>3
  <2>7. \A q \in Packages : uses'[q] # {} => q \in Linked'
    BY <1>1, <2>3, <2>4
  <2>8. \A q \in Packages : uses'[q] \subseteq Linked' \ {keyword'}
    BY <1>1, <2>1, <2>3, <2>4
  <2> QED
    BY <2>6, <2>7, <2>8 DEF Mirrored
<1>5. ASSUME NEW p \in Packages, NEW q \in Packages, UsePackage(q, p) \/ UnusePackage(q, p)
      PROVE  Mirrored'
  <2>1. /\ p \in Linked /\ Linked' = Linked /\ keyword' = keyword
        /\ uses[p] \subseteq Packages /\ usedBy[q] \subseteq Packages
    BY <1>1, <1>5 DEF UsePackage, UnusePackage, Linked
  <2>2. CASE UsePackage(q, p)
    <3>1. /\ q \in Linked \ {keyword}
          /\ uses' = [uses EXCEPT ![p] = uses[p] \cup {q}]
          /\ usedBy' = [usedBy EXCEPT ![q] = usedBy[q] \cup {p}]
      BY <2>2 DEF UsePackage
    <3>2. \A r \in Packages : /\ uses'[r] = IF r = p THEN uses[p] \cup {q} ELSE uses[r]
                              /\ usedBy'[r] = IF r = q THEN usedBy[q] \cup {p} ELSE usedBy[r]
      BY <1>1, <3>1
    <3>3. \A r, t \in Packages : t \in uses'[r] <=> r \in usedBy'[t]
      BY <1>1, <3>2
    <3>4. /\ \A r \in Packages : uses'[r] # {} => r \in Linked'
          /\ \A r \in Packages : uses'[r] \subseteq Linked' \ {keyword'}
      BY <1>1, <2>1, <3>1, <3>2
    <3> QED
      BY <3>3, <3>4 DEF Mirrored
  <2>3. CASE UnusePackage(q, p)
    <3>1. /\ uses' = [uses EXCEPT ![p] = uses[p] \ {q}]
          /\ usedBy' = [usedBy EXCEPT ![q] = usedBy[q] \ {p}]
      BY <2>3 DEF UnusePackage
    <3>2. \A r \in Packages : /\ uses'[r] = IF r = p THEN uses[p] \ {q} ELSE uses[r]
                              /\ usedBy'[r] = IF r = q THEN usedBy[q] \ {p} ELSE usedBy[r]
      BY <1>1, <3>1
    <3>3. \A r, t \in Packages : t \in uses'[r] <=> r \in usedBy'[t]
      BY <1>1, <3>2
    <3>4. /\ \A r \in Packages : uses'[r] # {} => r \in Linked'
          /\ \A r \in Packages : uses'[r] \subseteq Linked' \ {keyword'}
      BY <1>1, <2>1, <3>2
    <3> QED
      BY <3>3, <3>4 DEF Mirrored
  <2> QED
    BY <1>5, <2>2, <2>3
<1>6. ASSUME NEW p \in Packages, DeletePackage(p)
      PROVE  Mirrored'
  <2>1. /\ keyword' = keyword /\ state' = [state EXCEPT ![p] = "deleted"]
        /\ uses' = [q \in Packages |-> IF q = p THEN {} ELSE uses[q] \ {p}]
        /\ usedBy' = [q \in Packages |-> IF q = p THEN {} ELSE usedBy[q] \ {p}]
    BY <1>6 DEF DeletePackage
  <2>2. Linked' = Linked \ {p}
    BY <1>1, <2>1 DEF Linked
  <2>3. \A r \in Packages : /\ uses'[r] = IF r = p THEN {} ELSE uses[r] \ {p}
                            /\ usedBy'[r] = IF r = p THEN {} ELSE usedBy[r] \ {p}
    BY <2>1
  <2>4. \A r, t \in Packages : t \in uses'[r] <=> r \in usedBy'[t]
    <3>1. ASSUME NEW r \in Packages, NEW t \in Packages
          PROVE  t \in uses'[r] <=> r \in usedBy'[t]
      <4>1. uses'[r] = IF r = p THEN {} ELSE uses[r] \ {p}
        BY <2>3
      <4>2. usedBy'[t] = IF t = p THEN {} ELSE usedBy[t] \ {p}
        BY <2>3
      <4>3. t \in uses[r] <=> r \in usedBy[t]
        BY <1>1
      <4> QED
        BY <4>1, <4>2, <4>3
    <3> QED
      BY <3>1
  <2>5. /\ \A r \in Packages : uses'[r] # {} => r \in Linked'
        /\ \A r \in Packages : uses'[r] \subseteq Linked' \ {keyword'}
    BY <1>1, <2>1, <2>2, <2>3
  <2> QED
    BY <2>4, <2>5 DEF Mirrored
<1>7. CASE UNCHANGED vars
  BY <1>2, <1>7 DEF vars, tables
<1> QED
  BY <1>3, <1>4, <1>5, <1>6, <1>7 DEF Next

\* The packages' state is well-typed; in particular every bag holds a symbol a natural
\* number of times.  No case that the code leaves unchecked can change that.
THEOREM TypeCorrect == Spec => []TypeOK
<1>1. Init => TypeOK
  BY InitInv DEF IInv
<1> QED
  BY <1>1, TypedStep, PTL DEF Spec

LEMMA OnceAlways == ASSUME "unexport" \notin Slips PROVE Spec => []OnceInv
<1>1. Init => OnceInv
  BY InitInv DEF IInv, OnceInv
<1>2. OnceInv /\ [Next]_vars => OnceInv'
  BY OnceStep
<1> QED
  BY <1>1, <1>2, PTL DEF Spec

\* A package has one symbol of a name, and has it once, if no symbol is unexported that
\* its package does not export.
THEOREM PresentOnceCorrect == ASSUME "unexport" \notin Slips PROVE Spec => []PresentOnce
<1>1. OnceInv => PresentOnce
  BY DEF OnceInv
<1>2. Spec => []OnceInv
  BY OnceAlways
<1> QED
  BY <1>1, <1>2, PTL

\* A symbol is what its name refers to in its home package, under the same condition.
THEOREM HomesCorrect == ASSUME "unexport" \notin Slips PROVE Spec => []HomeKnows
<1>1. ASSUME OnceInv
      PROVE  HomeKnows
  <2> SUFFICES ASSUME NEW s \in Symbols, home[s] \in Linked
               PROVE  Find(NameOf[s], home[s]) = s
    BY DEF HomeKnows
  <2>1. PICK p \in Packages : p = home[s]
    BY DEF Linked
  <2>2. TypeOK /\ PresentOnce /\ Has(p, s) /\ NameOf[s] \in Names
    BY <1>1, <2>1 DEF OnceInv, HomePresent
  <2>3. PICK x \in Symbols : FoundPresent(p, NameOf[s], x)
    BY <2>2, FindIs DEF FoundInherited, FoundNone, Bare, Has
  <2>4. x = s
    BY <2>2, <2>3 DEF FoundPresent, Sole, Has
  <2> QED
    BY <2>1, <2>3, <2>4 DEF FoundPresent
<1>2. Spec => []OnceInv
  BY OnceAlways
<1> QED
  BY <1>1, <1>2, PTL

\* A package's shadowing symbols are in the package, whatever packages are made to use.
THEOREM ShadowingsCorrect == ASSUME Slips \subseteq {"make"} PROVE Spec => []ShadowingsPresent
<1>1. Init => ShadowingsPresent
  BY InitInv DEF IInv
<1>2. "unexport" \notin Slips
  OBVIOUS
<1>3. Spec => []OnceInv
  BY <1>2, OnceAlways
<1>4. OnceInv /\ ShadowingsPresent /\ [Next]_vars => ShadowingsPresent'
  BY ShadowingsStep
<1> QED
  BY <1>1, <1>3, <1>4, PTL DEF Spec

\* The use lists and the used-by lists mirror each other, whatever becomes of the symbols.
THEOREM MirroredCorrect == ASSUME "make" \notin Slips PROVE Spec => []Mirrored
<1>1. Init => Mirrored
  BY InitInv DEF IInv
<1>2. TypeOK /\ Mirrored /\ [Next]_vars => Mirrored'
  BY MirroredStep
<1>3. Spec => []TypeOK
  BY TypeCorrect
<1> QED
  BY <1>1, <1>2, <1>3, PTL DEF Spec
================================================================================
