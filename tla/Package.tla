-------------------------------- MODULE Package --------------------------------
(***************************************************************************)
(* Packages: o/package.d.  A package has two tables of symbols, internal   *)
(* and external, a list of shadowing symbols, and the lists of the         *)
(* packages it uses and is used by.  Every operation that could make a     *)
(* name mean two things checks the packages around it first, and signals a *)
(* continuable error; who continues with new input starts the call again,  *)
(* who does not leaves everything as it was.  A refused call is a call     *)
(* that changes nothing and no step here.                                  *)
(*                                                                         *)
(* A table's buckets and a shadowing list may hold a symbol several times, *)
(* so that they are bags: how often each symbol is in them.                *)
(***************************************************************************)
EXTENDS Integers

CONSTANTS
  Packages, Symbols, Names,
  NameOf,          \* the name of each symbol
  Nobody,          \* NIL: no symbol, no home package
  Slips,           \* the cases the code does not check that callers do not avoid
  MaxCopies        \* bound: a symbol is not unexported or shadowed once more

ASSUME PackageAssumption ==
  /\ NameOf \in [Symbols -> Names]
  /\ Nobody \notin Packages \cup Symbols
  /\ Slips \subseteq {"unexport", "shadow", "make"}
  /\ MaxCopies \in Nat

VARIABLES
  keyword,         \* keyword_package; Nobody in a system that has not made it
  state,           \* whether a package is not yet made, linked, or deleted
  internal,        \* p_internal, as a bag
  external,        \* p_external, as a bag
  shadowings,      \* p_shadowings, as a bag
  uses,            \* p_uselist
  usedBy,          \* p_usedbylist
  made,            \* the symbols there are
  home             \* s_hpack

tables == <<internal, external, shadowings>>
vars   == <<keyword, state, tables, uses, usedBy, made, home>>

Linked == {p \in Packages : state[p] = "linked"}

-------------------------------------------------------------------------------
(* find_symbol and the list operations.                                    *)

In(table, n, p) == {s \in Symbols : NameOf[s] = n /\ table[p][s] > 0}

Inherited(n, p) == UNION {In(external, n, q) : q \in uses[p]}

\* intern_flag
Flag(n, p) ==
  CASE In(internal, n, p) # {} -> "internal"
    [] In(internal, n, p) = {} /\ In(external, n, p) # {} -> "external"
    [] OTHER -> IF Inherited(n, p) # {} THEN "inherited" ELSE "none"

\* The symbol found.  Where a name has several candidates of the same kind the order of
\* a list decides, which is not modelled; LookupDetermined says where there are none.
Find(n, p) ==
  CASE Flag(n, p) = "internal"  -> CHOOSE s \in Symbols : s \in In(internal, n, p)
    [] Flag(n, p) = "external"  -> CHOOSE s \in Symbols : s \in In(external, n, p)
    [] Flag(n, p) = "inherited" -> CHOOSE s \in Symbols : s \in Inherited(n, p)
    [] OTHER -> Nobody

Present(n, p) == Flag(n, p) \in {"internal", "external"}

\* No conflict if p gets s under the name of s: nothing else is found there, or
\* what is found is a shadowing symbol.
Agrees(s, p) ==
  LET x == Find(NameOf[s], p) IN x \notin {s, Nobody} => shadowings[p][x] > 0

\* make_cons onto a list, and delete_eq, which deletes one occurrence if there is one
\* (its mutant does not look).
With(table, s, p) == [table EXCEPT ![p][s] = @ + 1]
LessBlindly(table, s, p) == [table EXCEPT ![p][s] = @ - 1]
Less(table, s, p) == [table EXCEPT ![p][s] = IF @ > 0 THEN @ - 1 ELSE 0]

\* Mutant of Homeless.
HomelessNever(s, p) == home

\* What removing s from p does to its home package.
Homeless(s, p) == IF home[s] = p THEN [home EXCEPT ![s] = Nobody] ELSE home

-------------------------------------------------------------------------------
(* Symbols.                                                                *)

\* intern, when it finds nothing: the keyword package gets an external symbol,
\* the others an internal one.
Intern(s, p) ==
  /\ p \in Linked /\ s \notin made
  /\ Flag(NameOf[s], p) = "none"
  /\ made' = made \cup {s}
  /\ home' = [home EXCEPT ![s] = p]
  /\ IF p = keyword
     THEN external' = With(external, s, p) /\ UNCHANGED internal
     ELSE internal' = With(internal, s, p) /\ UNCHANGED external
  /\ UNCHANGED <<keyword, state, shadowings, uses, usedBy>>

\* Mutant of NoClash: only the first used package is looked at.
NoClashOfOne(n, p) == TRUE

\* The test at L in unintern: the used packages do not export two symbols named n.
NoClash(n, p) ==
  \A q, r \in {u \in uses[p] : Flag(n, u) = "external"} : Find(n, q) = Find(n, r)

\* Mutant of Unintern: a shadowing symbol stays in the list.
UninternKeepsShadowing(s, p) ==
  /\ p \in Linked /\ s \in made
  /\ Present(NameOf[s], p) /\ Find(NameOf[s], p) = s
  /\ shadowings[p][s] > 0 => NoClash(NameOf[s], p)
  /\ IF Flag(NameOf[s], p) = "internal"
     THEN internal' = Less(internal, s, p) /\ UNCHANGED external
     ELSE external' = Less(external, s, p) /\ UNCHANGED internal
  /\ home' = Homeless(s, p)
  /\ UNCHANGED <<keyword, state, shadowings, uses, usedBy, made>>

Unintern(s, p) ==
  /\ p \in Linked /\ s \in made
  /\ Present(NameOf[s], p) /\ Find(NameOf[s], p) = s
  /\ shadowings[p][s] > 0 => NoClash(NameOf[s], p)
  /\ shadowings' = Less(shadowings, s, p)
  /\ IF Flag(NameOf[s], p) = "internal"
     THEN internal' = Less(internal, s, p) /\ UNCHANGED external
     ELSE external' = Less(external, s, p) /\ UNCHANGED internal
  /\ home' = Homeless(s, p)
  /\ UNCHANGED <<keyword, state, uses, usedBy, made>>

\* Mutant of Export: an internal symbol stays in its table as well.
ExportKeepsInternal(s, p) ==
  /\ p \in Linked /\ s \in made
  /\ Find(NameOf[s], p) = s /\ Flag(NameOf[s], p) # "external"
  /\ \A u \in usedBy[p] : Agrees(s, u)
  /\ external' = With(external, s, p)
  /\ UNCHANGED <<keyword, state, internal, shadowings, uses, usedBy, made, home>>

\* Mutant of Export: the users are not asked.
ExportUnasked(s, p) ==
  /\ p \in Linked /\ s \in made
  /\ Find(NameOf[s], p) = s /\ Flag(NameOf[s], p) # "external"
  /\ internal' = IF Flag(NameOf[s], p) = "internal" THEN Less(internal, s, p) ELSE internal
  /\ external' = With(external, s, p)
  /\ UNCHANGED <<keyword, state, shadowings, uses, usedBy, made, home>>

\* export: an inherited symbol becomes external without becoming internal.
Export(s, p) ==
  /\ p \in Linked /\ s \in made
  /\ Find(NameOf[s], p) = s /\ Flag(NameOf[s], p) # "external"
  /\ \A u \in usedBy[p] : Agrees(s, u)
  /\ internal' = IF Flag(NameOf[s], p) = "internal" THEN Less(internal, s, p) ELSE internal
  /\ external' = With(external, s, p)
  /\ UNCHANGED <<keyword, state, shadowings, uses, usedBy, made, home>>

\* unexport: the test that s is external is commented out, so that any symbol that
\* find_symbol finds is added to the internal ones.
Unexport(s, p) ==
  /\ p \in Linked \ {keyword} /\ s \in made
  /\ Find(NameOf[s], p) = s
  /\ "unexport" \in Slips \/ Flag(NameOf[s], p) = "external"
  /\ internal[p][s] < MaxCopies
  /\ external' = Less(external, s, p)
  /\ internal' = With(internal, s, p)
  /\ UNCHANGED <<keyword, state, shadowings, uses, usedBy, made, home>>

\* import
Import(s, p) ==
  /\ p \in Linked /\ s \in made
  /\ ~Present(NameOf[s], p) /\ Find(NameOf[s], p) \in {s, Nobody}
  /\ internal' = With(internal, s, p)
  /\ home' = IF home[s] = Nobody THEN [home EXCEPT ![s] = p] ELSE home
  /\ UNCHANGED <<keyword, state, external, shadowings, uses, usedBy, made>>

\* shadowing_import of a symbol that is present already.
ShadowingPresent(s, p) ==
  /\ p \in Linked /\ s \in made
  /\ Present(NameOf[s], p) /\ Find(NameOf[s], p) = s
  /\ shadowings[p][s] = 0
  /\ shadowings' = With(shadowings, s, p)
  /\ UNCHANGED <<keyword, state, internal, external, uses, usedBy, made, home>>

\* shadowing_import, when the name belongs to another symbol x that is present: x
\* goes.
ShadowingReplace(s, p) ==
  LET n == NameOf[s]
      x == Find(n, p)
  IN
  /\ p \in Linked /\ s \in made
  /\ Present(n, p) /\ x # s
  /\ IF Flag(n, p) = "internal"
     THEN internal' = With(Less(internal, x, p), s, p) /\ UNCHANGED external
     ELSE internal' = With(internal, s, p) /\ external' = Less(external, x, p)
  /\ shadowings' = With(Less(shadowings, x, p), s, p)
  /\ home' = Homeless(x, p)
  /\ UNCHANGED <<keyword, state, uses, usedBy, made>>

\* shadowing_import, when no symbol of the name is present.
ShadowingAdd(s, p) ==
  /\ p \in Linked /\ s \in made
  /\ ~Present(NameOf[s], p)
  /\ internal' = With(internal, s, p)
  /\ shadowings' = With(shadowings, s, p)
  /\ UNCHANGED <<keyword, state, external, uses, usedBy, made, home>>

\* shadow, when a symbol of the name is present: the argument s, which need not be
\* that symbol, is added to the list, even if it is there.
ShadowPresent(s, p) ==
  /\ p \in Linked /\ s \in made
  /\ Present(NameOf[s], p)
  /\ "shadow" \in Slips \/ (Find(NameOf[s], p) = s /\ shadowings[p][s] = 0)
  /\ shadowings[p][s] < MaxCopies
  /\ shadowings' = With(shadowings, s, p)
  /\ UNCHANGED <<keyword, state, internal, external, uses, usedBy, made, home>>

\* shadow, when none is present: a new symbol.
ShadowNew(s, p) ==
  /\ p \in Linked /\ s \notin made
  /\ ~Present(NameOf[s], p)
  /\ made' = made \cup {s}
  /\ home' = [home EXCEPT ![s] = p]
  /\ internal' = With(internal, s, p)
  /\ shadowings' = With(shadowings, s, p)
  /\ UNCHANGED <<keyword, state, external, uses, usedBy>>

-------------------------------------------------------------------------------
(* Packages.                                                               *)

Externals(q) == {s \in Symbols : external[q][s] > 0}

\* make_package: the packages to use are not checked against each other.
MakePackage(p, used) ==
  /\ state[p] = "unmade" /\ used \subseteq Linked
  /\ \/ "make" \in Slips
     \/ /\ keyword \notin used
        /\ \A q, r \in used : \A s \in Externals(q), t \in Externals(r) :
             NameOf[s] = NameOf[t] => s = t
  /\ state' = [state EXCEPT ![p] = "linked"]
  /\ uses' = [uses EXCEPT ![p] = used]
  /\ usedBy' = [q \in Packages |-> IF q \in used THEN usedBy[q] \cup {p} ELSE usedBy[q]]
  /\ UNCHANGED <<keyword, tables, made, home>>

\* Mutant of UsePackage: the symbols that q exports are not looked at.
UsePackageUnasked(q, p) ==
  /\ p \in Linked /\ q \in Linked \ {p, keyword}
  /\ q \notin uses[p]
  /\ uses' = [uses EXCEPT ![p] = @ \cup {q}]
  /\ usedBy' = [usedBy EXCEPT ![q] = @ \cup {p}]
  /\ UNCHANGED <<keyword, state, tables, made, home>>

\* use_package
UsePackage(q, p) ==
  /\ p \in Linked /\ q \in Linked \ {p, keyword}
  /\ q \notin uses[p]
  /\ \A s \in Externals(q) : Agrees(s, p)
  /\ uses' = [uses EXCEPT ![p] = @ \cup {q}]
  /\ usedBy' = [usedBy EXCEPT ![q] = @ \cup {p}]
  /\ UNCHANGED <<keyword, state, tables, made, home>>

\* unuse_package
UnusePackage(q, p) ==
  /\ p \in Linked /\ q \in uses[p]
  /\ uses' = [uses EXCEPT ![p] = @ \ {q}]
  /\ usedBy' = [usedBy EXCEPT ![q] = @ \ {p}]
  /\ UNCHANGED <<keyword, state, tables, made, home>>

\* Mutant of DeletePackage: the packages it uses are not told.
DeletePackageForgets(p) ==
  /\ p \in Linked \ {keyword}
  /\ state' = [state EXCEPT ![p] = "deleted"]
  /\ uses' = [q \in Packages |-> IF q = p THEN {} ELSE uses[q] \ {p}]
  /\ usedBy' = [usedBy EXCEPT ![p] = {}]
  /\ UNCHANGED <<keyword, tables, made, home>>

\* delete_package, continued when the package is in use: its users no longer use
\* it, it uses no others; its symbols keep it as their home.
DeletePackage(p) ==
  /\ p \in Linked \ {keyword}
  /\ state' = [state EXCEPT ![p] = "deleted"]
  /\ uses' = [q \in Packages |-> IF q = p THEN {} ELSE uses[q] \ {p}]
  /\ usedBy' = [q \in Packages |-> IF q = p THEN {} ELSE usedBy[q] \ {p}]
  /\ UNCHANGED <<keyword, tables, made, home>>

-------------------------------------------------------------------------------
Init ==
  /\ keyword \in Packages \cup {Nobody}
  /\ state = [p \in Packages |-> IF p = keyword THEN "linked" ELSE "unmade"]
  /\ internal = [p \in Packages |-> [s \in Symbols |-> 0]]
  /\ external = internal /\ shadowings = internal
  /\ uses = [p \in Packages |-> {}] /\ usedBy = uses
  /\ made = {}
  /\ home = [s \in Symbols |-> Nobody]

\* The operations whose meaning is to change what names refer to.
Changing(s, p) ==
  \/ Unintern(s, p) \/ Unexport(s, p)
  \/ ShadowingReplace(s, p) \/ ShadowingAdd(s, p) \/ ShadowNew(s, p)

\* The others.
Adding(s, p) ==
  Intern(s, p) \/ Export(s, p) \/ Import(s, p) \/ ShadowingPresent(s, p) \/ ShadowPresent(s, p)

Next ==
  \/ \E p \in Packages, s \in Symbols : Changing(s, p) \/ Adding(s, p)
  \/ \E p \in Packages, used \in SUBSET Packages : MakePackage(p, used)
  \/ \E p, q \in Packages : UsePackage(q, p) \/ UnusePackage(q, p)
  \/ \E p \in Packages : DeletePackage(p)

Spec == Init /\ [][Next]_vars

-------------------------------------------------------------------------------
(* Properties.                                                             *)

TypeOK ==
  /\ keyword \in Packages \cup {Nobody}
  /\ state \in [Packages -> {"unmade", "linked", "deleted"}]
  /\ internal \in [Packages -> [Symbols -> Nat]]
  /\ external \in [Packages -> [Symbols -> Nat]]
  /\ shadowings \in [Packages -> [Symbols -> Nat]]
  /\ uses \in [Packages -> SUBSET Packages]
  /\ usedBy \in [Packages -> SUBSET Packages]
  /\ made \subseteq Symbols
  /\ home \in [Symbols -> Packages \cup {Nobody}]

\* A symbol is in a package once: internal or external, and no other symbol of its
\* name is in the package.
PresentOnce ==
  \A p \in Packages : \A s, t \in Symbols :
    NameOf[s] = NameOf[t] /\ internal[p][s] + external[p][s] > 0
      => IF s = t THEN internal[p][s] + external[p][s] = 1
                  ELSE internal[p][t] + external[p][t] = 0

\* A shadowing symbol is in the list once, and present in the package: the list never
\* excuses a conflict between other symbols.
ShadowingsPresent ==
  \A p \in Packages, s \in Symbols :
    shadowings[p][s] > 0 => shadowings[p][s] = 1 /\ internal[p][s] + external[p][s] = 1

\* No name conflict: whatever two symbols of one name a package could see, one of
\* them is present and shadows the other.
NoConflict ==
  \A p \in Linked : \A s, t \in Symbols :
    /\ NameOf[s] = NameOf[t] /\ s # t
    /\ t \in Inherited(NameOf[t], p)
    /\ s \in Inherited(NameOf[s], p) \/ internal[p][s] + external[p][s] > 0
    => \E x \in Symbols : /\ NameOf[x] = NameOf[s] /\ shadowings[p][x] > 0
                          /\ internal[p][x] + external[p][x] > 0

\* What find_symbol finds depends neither on the order of a bucket nor on that of the use
\* list: of the kind it finds there is one candidate.
LookupDetermined ==
  \A p \in Packages, n \in Names :
    /\ \A s, t \in In(internal, n, p) : s = t
    /\ \A s, t \in In(external, n, p) : s = t
    /\ Flag(n, p) = "inherited" => \A s, t \in Inherited(n, p) : s = t

\* The use lists and the used-by lists are each other's inverse, and hold linked
\* packages only; nothing uses KEYWORD.
Mirrored ==
  /\ \A p, q \in Packages : q \in uses[p] <=> p \in usedBy[q]
  /\ \A p \in Packages : uses[p] # {} => p \in Linked
  /\ \A p \in Packages : uses[p] \subseteq Linked \ {keyword}

\* A symbol printed with the name of its home package is found there by that name.
HomeKnows ==
  \A s \in Symbols : home[s] \in Linked => Find(NameOf[s], home[s]) = s

\* What a name refers to in a package changes only by the operations that are meant
\* to change it, never by adding symbols to packages, by exporting them, or by making
\* and using packages.
SameSymbol ==
  [][ \A p \in Linked, n \in Names :
        Flag(n, p) # "none" /\ Find(n, p)' # Find(n, p) =>
          \/ \E q \in Packages, s \in Symbols : NameOf[s] = n /\ Changing(s, q)
          \/ \E q \in Packages : UnusePackage(q, p) \/ DeletePackage(q) ]_vars
================================================================================
