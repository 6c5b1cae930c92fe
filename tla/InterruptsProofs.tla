--------------------------- MODULE InterruptsProofs ---------------------------
(***************************************************************************)
(* Proofs about Interrupts, for any number of signals, any nesting and any *)
(* mixture of returns and throws: the discipline of saved levels and flags *)
(* puts both back and is transparent to the code that was interrupted; a   *)
(* signal is dropped by throws alone; a delayed SIGINT has its retry.      *)
(***************************************************************************)
EXTENDS Interrupts, SequenceTheorems, TLAPS

-------------------------------------------------------------------------------
(* What the three operations on the stack do to its records.               *)

Agree(n) == \A j \in 1 .. n : stack'[j] = stack[j]

LEMMA PushStack ==
  ASSUME stack \in Seq(Records), NEW r \in Records, Push(r)
  PROVE  /\ stack' \in Seq(Records)
         /\ Len(stack') = Len(stack) + 1
         /\ Agree(Len(stack)) /\ stack'[Len(stack) + 1] = r
BY DEF Push, Agree

LEMMA CutStack ==
  ASSUME stack \in Seq(Records), NEW n \in 0 .. Len(stack),
         stack' = SubSeq(stack, 1, n)
  PROVE  stack' \in Seq(Records) /\ Len(stack') = n /\ Agree(n)
<1>1. \A i \in 1 .. n : stack[i] \in Records
  BY ElementOfSeq, LenProperties
<1>2. n \in Int /\ 1 \in Int
  BY LenProperties
<1>3. /\ SubSeq(stack, 1, n) \in Seq(Records)
      /\ Len(SubSeq(stack, 1, n)) = IF 1 <= n THEN n - 1 + 1 ELSE 0
      /\ \A i \in 1 .. n - 1 + 1 : SubSeq(stack, 1, n)[i] = stack[1 + i - 1]
  BY <1>1, <1>2, SubSeqProperties
<1>. QED
  BY <1>3, LenProperties DEF Agree

LEMMA ReplaceStack ==
  ASSUME stack \in Seq(Records), Len(stack) > 0, NEW r \in Records,
         stack' = Replace(r)
  PROVE  /\ stack' \in Seq(Records)
         /\ Len(stack') = Len(stack)
         /\ Agree(Len(stack) - 1) /\ stack'[Len(stack)] = r
BY ExceptSeq, LenProperties DEF Replace, Agree

LEMMA ReplacePushStack ==
  ASSUME stack \in Seq(Records), Len(stack) > 0, NEW r \in Records, NEW q \in Records,
         stack' = Append(Replace(r), q)
  PROVE  /\ stack' \in Seq(Records)
         /\ Len(stack') = Len(stack) + 1
         /\ Agree(Len(stack) - 1)
         /\ stack'[Len(stack)] = r /\ stack'[Len(stack) + 1] = q
<1>1. /\ Replace(r) \in Seq(Records) /\ Len(Replace(r)) = Len(stack)
      /\ \A j \in 1 .. Len(stack) : Replace(r)[j] = IF j = Len(stack) THEN r ELSE stack[j]
  BY ExceptSeq, LenProperties DEF Replace
<1>. QED
  BY <1>1, LenProperties DEF Agree

-------------------------------------------------------------------------------
(* Type correctness.                                                       *)

LEMMA Successor ==
  ASSUME NEW m \in Nat
  PROVE  m + 1 \in 1 .. m + 1 /\ m + 1 - 1 = m
OBVIOUS

LEMMA TopKinds ==
  ASSUME TypeOK
  PROVE  /\ Len(stack) \in Nat \ {0} /\ Top \in Records
         /\ \A i \in 1 .. Len(stack) : stack[i] \in Records
<1>1. Len(stack) \in Nat \ {0}
  BY LenProperties DEF TypeOK
<1>2. \A i \in 1 .. Len(stack) : stack[i] \in Records
  BY ElementOfSeq DEF TypeOK
<1>. QED
  BY <1>1, <1>2 DEF Top

LEMMA KindOf ==
  ASSUME NEW r \in Records
  PROVE  /\ r.k = "frame" => r \in Frames
         /\ r.k = "region" => r \in Regions
         /\ r.k = "read" => r \in Reads
         /\ r.k = "main" => r \in Mains
         /\ r.k = "invoke" => r \in Invokes
         /\ r.k = "raise" => r \in Raises
BY DEF Records, Frames, Regions, Reads, Mains, Invokes, Raises

LEMMA GotoTyped ==
  ASSUME TypeOK, NEW p \in {"entry", "arm", "called", "save", "handler", "unblocked",
                            "lisp", "returned", "restore", "scan", "check"},
         \/ Top.k = "main" /\ p \in {"entry", "arm", "called"}
         \/ Top.k = "invoke" /\ p \in {"save", "handler", "unblocked", "lisp",
                                       "returned", "restore"}
         \/ Top.k = "raise" /\ p \in {"scan", "check"}
  PROVE  [Top EXCEPT !.pc = p] \in Records /\ [Top EXCEPT !.pc = p].k = Top.k
<1>1. Top \in Records
  BY TopKinds
<1>2. CASE Top.k = "main" /\ p \in {"entry", "arm", "called"}
  BY <1>1, <1>2, KindOf DEF Records, Mains
<1>3. CASE Top.k = "invoke" /\ p \in {"save", "handler", "unblocked", "lisp",
                                       "returned", "restore"}
  BY <1>1, <1>3, KindOf DEF Records, Invokes
<1>4. CASE Top.k = "raise" /\ p \in {"scan", "check"}
  BY <1>1, <1>4, KindOf DEF Records, Raises
<1>. QED
  BY <1>2, <1>3, <1>4

\* What the types say of a stack after a push, a pop or a replacement.
Grown == stack' \in Seq(Records) /\ Len(stack') > 0 /\ stack'[1].k = "frame"

LEMMA PushTyped ==
  ASSUME TypeOK, NEW r \in Records, Push(r)
  PROVE  Grown
BY TopKinds, PushStack DEF TypeOK, Agree, Grown

LEMMA PopTyped ==
  ASSUME TypeOK, Pop, Len(stack) > 1 \/ Top.k # "frame"
  PROVE  Grown
<1>1. Len(stack) - 1 \in 1 .. Len(stack)
  BY TopKinds DEF TypeOK, Top
<1>. QED
  BY <1>1, CutStack, TopKinds DEF TypeOK, Agree, Pop, Grown

LEMMA ReplaceTyped ==
  ASSUME TypeOK, NEW r \in Records, stack' = Replace(r), r.k = Top.k
  PROVE  Grown
BY TopKinds, ReplaceStack DEF TypeOK, Agree, Grown, Top

LEMMA ReplacePushTyped ==
  ASSUME TypeOK, NEW r \in Records, NEW q \in Records, r.k = Top.k,
         stack' = Append(Replace(r), q)
  PROVE  Grown
<1>1. /\ stack' \in Seq(Records) /\ Len(stack') = Len(stack) + 1
      /\ \A j \in 1 .. Len(stack) - 1 : stack'[j] = stack[j]
      /\ stack'[Len(stack)] = r
  BY TopKinds, ReplacePushStack DEF TypeOK, Agree
<1>2. Len(stack) \in Nat \ {0} /\ stack[1].k = "frame"
  BY TopKinds DEF TypeOK
<1>3. CASE Len(stack) > 1
  BY <1>1, <1>2, <1>3 DEF Grown
<1>4. CASE ~(Len(stack) > 1)
  BY <1>1, <1>2, <1>4 DEF Grown, Top
<1>. QED
  BY <1>3, <1>4

LEMMA InitTyped == Init => TypeOK
<1>. SUFFICES ASSUME Init PROVE TypeOK
  OBVIOUS
<1>. DEFINE f == [k |-> "frame", class |-> "catch", ish |-> 0]
<1>1. f \in Records /\ f.k = "frame" /\ stack = <<f>>
  BY DEF Init, Records, Frames
<1>. HIDE DEF f
<1>2. stack \in Seq(Records) /\ Len(stack) > 0 /\ stack[1].k = "frame"
  BY <1>1
<1>3. sig_normal \in Levels /\ 0 \in 0 .. MaxSends
  BY BoundsAssumption DEF Levels, sig_none, sig_normal, sig_at_read
<1>. QED
  BY <1>2, <1>3 DEF Init, TypeOK

LEMMA LevelsTyped == {sig_none, sig_normal, sig_try_to_delay, sig_safe, sig_at_read} \subseteq Levels
BY DEF Levels, sig_none, sig_normal, sig_try_to_delay, sig_safe, sig_at_read

\* Each action of the Lisp program keeps the types.
LEMMA LispTyped ==
  ASSUME TypeOK, Lisp
  PROVE  TypeOK'
<1>. USE DEF TypeOK, flags, kernel, ghost, Grown
<1>. Top \in Records /\ \A i \in 1 .. Len(stack) : stack[i] \in Records
  BY TopKinds
<1>1. ASSUME NEW c \in {"catch", "protect"}, PushFrame(c) PROVE TypeOK'
  <2>1. Frame(c) \in Records
    BY DEF Frame, Records, Frames
  <2>. QED
    BY <1>1, <2>1, PushTyped DEF PushFrame
<1>2. CASE PopFrame
  BY <1>2, PopTyped DEF PopFrame
<1>3. ASSUME NEW i \in DOMAIN stack, Throw(i) PROVE TypeOK'
  <2>1. i \in 1 .. Len(stack) /\ i \in 0 .. Len(stack)
    BY LenProperties
  <2>2. stack[i].ish \in {0, 1}
    BY <1>3, <2>1, KindOf DEF Throw, Frames
  <2>3. Grown
    BY <1>3, <2>1, CutStack DEF Throw, Agree
  <2>. QED
    BY <1>3, <2>2, <2>3, LevelsTyped DEF Throw
<1>4. ASSUME NEW g \in Collisions, BeginRegion(g) PROVE TypeOK'
  <2>1. Region(g) \in Records
    BY CollisionsAssumption DEF Region, Records, Regions
  <2>. QED
    BY <1>4, <2>1, PushTyped, LevelsTyped DEF BeginRegion
<1>5. CASE EndRegion
  <2>1. Top.old \in Levels
    BY <1>5, KindOf DEF EndRegion, Regions
  <2>. QED
    BY <1>5, <2>1, PopTyped DEF EndRegion
<1>6. CASE GentempRetry
  <2>1. [Top EXCEPT !.old = allowed] \in Records /\ [Top EXCEPT !.old = allowed].k = Top.k
    BY <1>6, KindOf DEF GentempRetry, Records, Regions
  <2>. QED
    BY <1>6, <2>1, ReplaceTyped, LevelsTyped DEF GentempRetry
<1>7. CASE BeginRead
  <2>1. Read \in Records
    BY DEF Read, Records, Reads
  <2>. QED
    BY <1>7, <2>1, PushTyped, LevelsTyped DEF BeginRead
<1>8. CASE EndRead
  <2>1. Top.old \in Levels
    BY <1>8, KindOf DEF EndRead, Reads
  <2>. QED
    BY <1>8, <2>1, PopTyped DEF EndRead
<1>9. CASE Allocate
  <2>1. Raise(sig_safe) \in Records
    BY LevelsTyped DEF Raise, Records, Raises
  <2>. QED
    BY <1>9, <2>1, PushTyped DEF Allocate
<1>10. CASE HandlerReturns
  <2>1. [Top EXCEPT !.pc = "returned"] \in Records /\ [Top EXCEPT !.pc = "returned"].k = Top.k
    BY <1>10, GotoTyped DEF HandlerReturns, At
  <2>. QED
    BY <1>10, <2>1, ReplaceTyped DEF HandlerReturns, Goto
<1>. QED
  BY <1>1, <1>2, <1>3, <1>4, <1>5, <1>6, <1>7, <1>8, <1>9, <1>10 DEF Lisp

\* So does each action of the kernel ...
LEMMA KernelTyped ==
  ASSUME TypeOK, Kernel
  PROVE  TypeOK'
<1>. USE DEF TypeOK, flags, ghost, Grown
<1>1. ASSUME NEW s \in Signals \ {ALRM}, Send(s) PROVE TypeOK'
  BY <1>1, BoundsAssumption DEF Send
<1>2. CASE AlarmFires
  BY <1>2 DEF AlarmFires, Signals
<1>3. ASSUME NEW s \in Signals, Deliver(s) PROVE TypeOK'
  <2>1. Main(s) \in Records
    BY LevelsTyped DEF Main, Records, Mains
  <2>. QED
    BY <1>3, <2>1, PushTyped DEF Deliver
<1>. QED
  BY <1>1, <1>2, <1>3 DEF Kernel

\* ... of main_signal_handler ...
LEMMA MainTyped ==
  ASSUME TypeOK, MainAllow \/ MainDelay \/ MainArm \/ MainReturn
  PROVE  TypeOK'
<1>. USE DEF TypeOK, flags, kernel, ghost, Grown
<1>. Top \in Records /\ (Top.k = "main" => Top \in Mains)
  BY TopKinds, KindOf
<1>1. CASE MainAllow
  <2>. DEFINE r == [Top EXCEPT !.pc = "called", !.lev = allowed]
  <2>1. Top \in Mains
    BY <1>1 DEF MainAllow, At
  <2>2. r \in Records /\ r.k = Top.k
    BY <2>1 DEF Records, Mains
  <2>3. Invoke(Top.sig, allowed) \in Records
    BY <2>1 DEF Invoke, Records, Invokes, Mains
  <2>. HIDE DEF r
  <2>4. stack' = Append(Replace(r), Invoke(Top.sig, allowed))
    BY <1>1 DEF MainAllow, r
  <2>5. Grown
    BY <2>2, <2>3, <2>4, ReplacePushTyped
  <2>. QED
    BY <1>1, <2>5, LevelsTyped DEF MainAllow
<1>2. CASE MainDelay
  <2>1. Top \in Mains
    BY <1>2 DEF MainDelay, At
  <2>2. [Top EXCEPT !.pc = "arm"] \in Records /\ [Top EXCEPT !.pc = "arm"].k = Top.k
    BY <2>1, GotoTyped DEF Mains
  <2>3. Grown
    BY <1>2, <2>2, ReplaceTyped DEF MainDelay, Goto
  <2>. QED
    BY <1>2, <2>1, <2>3 DEF MainDelay, Mains
<1>3. CASE MainArm
  BY <1>3, PopTyped DEF MainArm, At, Mains
<1>4. CASE MainReturn
  BY <1>4, PopTyped DEF MainReturn, At, Mains
<1>. QED
  BY <1>1, <1>2, <1>3, <1>4

\* ... of invoke_handler ...
LEMMA InvokeTyped ==
  ASSUME TypeOK,
         \/ InvokeCall \/ HandlerUnblock \/ SigintCallsLisp
         \/ SigalrmRaises \/ InvokeLeave \/ InvokeReturn
  PROVE  TypeOK'
<1>. USE DEF TypeOK, flags, kernel, ghost, Grown
<1>. /\ Top \in Records
     /\ At("invoke", "save") \/ At("invoke", "handler") \/ At("invoke", "unblocked")
        \/ At("invoke", "returned") \/ At("invoke", "restore")
     /\ Top \in Invokes
  BY TopKinds, KindOf DEF InvokeCall, HandlerUnblock, SigintCallsLisp, SigalrmRaises,
                         InvokeLeave, InvokeReturn, At
<1>1. CASE InvokeCall
  <2>. DEFINE r == [Top EXCEPT !.pc = IF Top.sig \in UserSignals THEN "lisp" ELSE "handler",
                               !.ish = inHandler]
  <2>1. r \in Records /\ r.k = Top.k
    BY DEF Records, Invokes
  <2>. HIDE DEF r
  <2>2. stack' = Replace(r)
    BY <1>1 DEF InvokeCall, r
  <2>3. Grown
    BY <2>1, <2>2, ReplaceTyped
  <2>. QED
    BY <1>1, <2>3 DEF InvokeCall, Invokes
<1>2. CASE HandlerUnblock
  BY <1>2, GotoTyped, ReplaceTyped DEF HandlerUnblock, Goto, Invokes
<1>3. CASE SigintCallsLisp
  BY <1>3, GotoTyped, ReplaceTyped, LevelsTyped DEF SigintCallsLisp, Goto, Invokes
<1>4. CASE SigalrmRaises
  <2>1. /\ [Top EXCEPT !.pc = "returned"] \in Records
        /\ [Top EXCEPT !.pc = "returned"].k = Top.k
    BY GotoTyped DEF Invokes
  <2>2. Raise(sig_try_to_delay) \in Records
    BY LevelsTyped DEF Raise, Records, Raises
  <2>. QED
    BY <1>4, <2>1, <2>2, ReplacePushTyped DEF SigalrmRaises
<1>5. CASE InvokeLeave
  BY <1>5, GotoTyped, ReplaceTyped, LevelsTyped DEF InvokeLeave, Goto, Invokes
<1>6. CASE InvokeReturn
  BY <1>6, PopTyped DEF InvokeReturn, Invokes
<1>. QED
  BY <1>1, <1>2, <1>3, <1>4, <1>5, <1>6

\* ... and of raise_pending_signals.
LEMMA RaiseTyped ==
  ASSUME TypeOK, RaiseScan \/ RaiseNext \/ RaiseReturn
  PROVE  TypeOK'
<1>. USE DEF TypeOK, flags, kernel, ghost, Grown
<1>. Top \in Records /\ Top \in Raises
  BY TopKinds, KindOf DEF RaiseScan, RaiseNext, RaiseReturn, At
<1>1. CASE RaiseScan
  <2>. DEFINE r == [Top EXCEPT !.snap = pending, !.pc = "check"]
  <2>1. r \in Records /\ r.k = Top.k
    BY DEF Records, Raises
  <2>. HIDE DEF r
  <2>2. stack' = Replace(r)
    BY <1>1 DEF RaiseScan, r
  <2>3. Grown
    BY <2>1, <2>2, ReplaceTyped
  <2>. QED
    BY <1>1, <2>3 DEF RaiseScan
<1>2. CASE RaiseNext
  <2>. DEFINE r == [Top EXCEPT !.pc = "scan"]
  <2>1. r \in Records /\ r.k = Top.k
    BY GotoTyped DEF Raises
  <2>. HIDE DEF r
  <2>2. PICK s \in Ready :
          /\ pending' = pending \ {s}
          /\ \/ stack' = Replace(r) /\ alarm' = FALSE
             \/ stack' = Append(Replace(r), Invoke(s, Top.cond)) /\ UNCHANGED alarm
    BY <1>2 DEF RaiseNext, Goto, r
  <2>3. Invoke(s, Top.cond) \in Records
    BY <2>2, LevelsTyped DEF Invoke, Records, Invokes, Raises, Ready
  <2>4. Grown
    BY <2>1, <2>2, <2>3, ReplaceTyped, ReplacePushTyped
  <2>. QED
    BY <1>2, <2>2, <2>4 DEF RaiseNext
<1>3. CASE RaiseReturn
  BY <1>3, PopTyped DEF RaiseReturn, Raises
<1>. QED
  BY <1>1, <1>2, <1>3

LEMMA StepTyped == TypeOK /\ [Next]_vars => TypeOK'
<1>. SUFFICES ASSUME TypeOK, [Next]_vars PROVE TypeOK'
  OBVIOUS
<1>1. CASE Lisp
  BY <1>1, LispTyped
<1>2. CASE Kernel
  BY <1>2, KernelTyped
<1>3. CASE Delivery
  BY <1>3, MainTyped, InvokeTyped, RaiseTyped DEF Delivery
<1>4. CASE UNCHANGED vars
  BY <1>4 DEF vars, TypeOK
<1>. QED
  BY <1>1, <1>2, <1>3, <1>4 DEF Next

\* Types: whatever the program, the kernel and the handlers do, the stack of
\* activations is well formed and every flag keeps a value of its range.
THEOREM TypesHold == Spec => []TypeOK
<1>. QED
  BY InitTyped, StepTyped, PTL DEF Spec

-------------------------------------------------------------------------------
(* What a step leaves of the marks and the passive activations below.      *)

LEMMA Unmoved ==
  ASSUME NEW n \in Nat, Agree(n)
  PROVE  /\ \A j \in 1 .. n :
              /\ Random(j)' <=> Random(j)
              /\ SavesFlag(j)' <=> SavesFlag(j)
              /\ Passive(j)' <=> Passive(j)
              /\ SavedLevel(j)' = SavedLevel(j)
         /\ \A j \in 0 .. n :
              /\ Marked(j)' <=> Marked(j)
              /\ PassiveTo(j)' <=> PassiveTo(j)
<1>1. ASSUME NEW j \in 1 .. n
      PROVE  /\ Random(j)' <=> Random(j)
             /\ SavesFlag(j)' <=> SavesFlag(j)
             /\ Passive(j)' <=> Passive(j)
             /\ SavedLevel(j)' = SavedLevel(j)
  <2>1. stack'[j] = stack[j]
    BY DEF Agree
  <2>. QED
    BY <2>1 DEF Random, SavesFlag, Passive, SavedLevel
<1>2. ASSUME NEW j \in 0 .. n
      PROVE  (Marked(j)' <=> Marked(j)) /\ (PassiveTo(j)' <=> PassiveTo(j))
  <2>1. \A i \in 1 .. j : i \in 1 .. n
    OBVIOUS
  <2>2. \A i \in 1 .. j : (Random(i)' <=> Random(i)) /\ (Passive(i)' <=> Passive(i))
    BY <1>1, <2>1
  <2>. QED
    BY <2>2 DEF Marked, PassiveTo
<1>. QED
  BY <1>1, <1>2

LEMMA MarkedStep ==
  ASSUME NEW n \in Nat
  PROVE  /\ Marked(n + 1) <=> Marked(n) \/ Random(n + 1)
         /\ PassiveTo(n + 1) <=> PassiveTo(n) /\ Passive(n + 1)
         /\ Marked(n + 1)' <=> Marked(n)' \/ Random(n + 1)'
         /\ PassiveTo(n + 1)' <=> PassiveTo(n)' /\ Passive(n + 1)'
<1>1. \A i : i \in 1 .. n + 1 <=> i \in 1 .. n \/ i = n + 1
  OBVIOUS
<1>. QED
  BY <1>1 DEF Marked, PassiveTo

-------------------------------------------------------------------------------
(* in_signal_handler.                                                      *)

\* A running handler's activation, and one that marks its interrupted code.
Running(r) == r.k = "invoke" /\ r.pc \notin {"save", "restore"}

LEMMA FlagPush ==
  ASSUME TypeOK, FlagInv, NEW r \in Records, Push(r), UNCHANGED inHandler,
         ~Running(r), r.k = "frame" => r.ish = inHandler
  PROVE  FlagInv'
<1>. PICK n \in Nat : n = Len(stack)
  BY TopKinds
<1>1. n \in Nat /\ Len(stack') = n + 1 /\ Agree(n) /\ stack'[n + 1] = r
  BY TopKinds, PushStack DEF TypeOK
<1>2. ~Random(n + 1)' /\ (SavesFlag(n + 1)' <=> r.k = "frame")
  BY <1>1 DEF Random, SavesFlag, Running
<1>3. (Marked(n)' <=> Marked(n)) /\ (Marked(n + 1)' <=> Marked(n)')
  <2>1. Marked(n)' <=> Marked(n)
    BY <1>1, Unmoved
  <2>2. Marked(n + 1)' <=> Marked(n)' \/ Random(n + 1)'
    BY MarkedStep
  <2>. QED
    BY <1>2, <2>1, <2>2
<1>4. inHandler' = 1 <=> Marked(Len(stack))'
  BY <1>1, <1>3 DEF FlagInv, Marked
<1>5. ASSUME NEW i \in 1 .. Len(stack'), SavesFlag(i)'
      PROVE  stack'[i].ish = 1 <=> Marked(i - 1)'
  <2>1. CASE i = n + 1
    BY <1>1, <1>2, <1>3, <1>5, <2>1 DEF FlagInv
  <2>2. CASE i # n + 1
    <3>1. i \in 1 .. n /\ i - 1 \in 0 .. n
      BY <1>1, <2>2
    <3>2. SavesFlag(i) /\ stack'[i] = stack[i] /\ (Marked(i - 1)' <=> Marked(i - 1))
      BY <1>1, <1>5, <3>1, Unmoved DEF Agree
    <3>. QED
      BY <3>1, <3>2 DEF FlagInv
  <2>. QED
    BY <2>1, <2>2
<1>. QED
  BY <1>4, <1>5 DEF FlagInv

LEMMA FlagCut ==
  ASSUME TypeOK, FlagInv, NEW n \in 0 .. Len(stack), stack' = SubSeq(stack, 1, n),
         inHandler' = 1 <=> Marked(n)
  PROVE  FlagInv'
<1>1. n \in Nat /\ Len(stack') = n /\ Agree(n)
  BY TopKinds, CutStack DEF TypeOK
<1>2. Marked(n)' <=> Marked(n)
  BY <1>1, Unmoved
<1>3. ASSUME NEW i \in 1 .. n, SavesFlag(i)'
      PROVE  stack'[i].ish = 1 <=> Marked(i - 1)'
  <2>1. i - 1 \in 0 .. n /\ i \in 1 .. Len(stack)
    BY TopKinds
  <2>2. SavesFlag(i) /\ stack'[i] = stack[i] /\ (Marked(i - 1)' <=> Marked(i - 1))
    BY <1>1, <1>3, <2>1, Unmoved DEF Agree
  <2>. QED
    BY <2>1, <2>2 DEF FlagInv
<1>4. inHandler' = 1 <=> Marked(Len(stack))'
  BY <1>1, <1>2 DEF Marked
<1>. QED
  BY <1>1, <1>3, <1>4 DEF FlagInv

LEMMA FlagReplace ==
  ASSUME TypeOK, FlagInv, NEW r \in Records, stack' = Replace(r),
         inHandler' = 1 <=> Marked(Len(stack) - 1) \/ (Running(r) /\ r.lev <= sig_normal),
         r.k = "frame" \/ Running(r) => (r.ish = 1 <=> Marked(Len(stack) - 1))
  PROVE  FlagInv'
<1>. PICK m \in Nat : m = Len(stack) - 1
  BY TopKinds
<1>1. m \in Nat /\ Len(stack) = m + 1 /\ Len(stack') = m + 1
      /\ Agree(m) /\ stack'[m + 1] = r
  BY TopKinds, ReplaceStack DEF TypeOK
<1>2. (Random(m + 1)' <=> Running(r) /\ r.lev <= sig_normal)
      /\ (SavesFlag(m + 1)' <=> r.k = "frame" \/ Running(r))
  BY <1>1 DEF Random, SavesFlag, Running
<1>3. (Marked(m)' <=> Marked(m)) /\ (Marked(m + 1)' <=> Marked(m)' \/ Random(m + 1)')
  <2>1. Marked(m)' <=> Marked(m)
    BY <1>1, m \in 0 .. m, Unmoved
  <2>2. Marked(m + 1)' <=> Marked(m)' \/ Random(m + 1)'
    BY MarkedStep
  <2>. QED
    BY <2>1, <2>2
<1>4. inHandler' = 1 <=> Marked(Len(stack))'
  <2>1. inHandler' = 1 <=> Marked(m) \/ (Running(r) /\ r.lev <= sig_normal)
    BY <1>1
  <2>2. inHandler' = 1 <=> Marked(m + 1)'
    BY <1>2, <1>3, <2>1
  <2>3. Marked(Len(stack))' <=> Marked(m + 1)'
    BY <1>1 DEF Marked
  <2>. QED
    BY <2>2, <2>3
<1>5. ASSUME NEW i \in 1 .. Len(stack'), SavesFlag(i)'
      PROVE  stack'[i].ish = 1 <=> Marked(i - 1)'
  <2>1. CASE i = m + 1
    BY <1>1, <1>2, <1>3, <1>5, <2>1 DEF Marked
  <2>2. CASE i # m + 1
    <3>1. i \in 1 .. m /\ i - 1 \in 0 .. m /\ i \in 1 .. Len(stack)
      BY <1>1, <2>2
    <3>2. SavesFlag(i) /\ stack'[i] = stack[i] /\ (Marked(i - 1)' <=> Marked(i - 1))
      BY <1>1, <1>5, <3>1, Unmoved DEF Agree
    <3>. QED
      BY <3>1, <3>2 DEF FlagInv
  <2>. QED
    BY <2>1, <2>2
<1>. QED
  BY <1>4, <1>5 DEF FlagInv

LEMMA FlagReplacePush ==
  ASSUME TypeOK, FlagInv, NEW r \in Records, NEW q \in Records,
         stack' = Append(Replace(r), q), UNCHANGED inHandler,
         Running(r) <=> Running(Top), Running(r) => r.lev = Top.lev /\ r.ish = Top.ish,
         r.k # "frame", Top.k # "frame", ~Running(q), q.k # "frame"
  PROVE  FlagInv'
<1>. PICK m \in Nat : m = Len(stack) - 1
  BY TopKinds
<1>1. /\ Len(stack) = m + 1 /\ Len(stack') = m + 2 /\ Agree(m)
      /\ stack'[m + 1] = r /\ stack'[m + 2] = q /\ stack[m + 1] = Top
  <2>1. Len(stack) > 0 /\ Len(stack) = m + 1 /\ Len(stack) + 1 = m + 2 /\ Len(stack) - 1 = m
    BY TopKinds
  <2>2. /\ Len(stack') = Len(stack) + 1 /\ Agree(Len(stack) - 1)
        /\ stack'[Len(stack)] = r /\ stack'[Len(stack) + 1] = q
    BY <2>1, ReplacePushStack DEF TypeOK
  <2>. QED
    BY <2>1, <2>2 DEF Top
<1>2. /\ Random(m + 1)' <=> Random(m + 1)
      /\ SavesFlag(m + 1)' => SavesFlag(m + 1) /\ stack'[m + 1].ish = stack[m + 1].ish
      /\ ~Random(m + 2)' /\ ~SavesFlag(m + 2)'
  BY <1>1 DEF Random, SavesFlag, Running
<1>3. Marked(m)' <=> Marked(m)
  BY <1>1, m \in 0 .. m, Unmoved
<1>4. Marked(Len(stack))' <=> Marked(Len(stack))
  <2>1. (Marked(m + 1) <=> Marked(m) \/ Random(m + 1))
        /\ (Marked(m + 1)' <=> Marked(m)' \/ Random(m + 1)')
    BY MarkedStep
  <2>2. Marked(m + 1 + 1)' <=> Marked(m + 1)' \/ Random(m + 1 + 1)'
    BY MarkedStep, m + 1 \in Nat
  <2>3. Marked(m + 2)' <=> Marked(m + 1)'
    BY <1>2, <2>2, m + 1 + 1 = m + 2
  <2>4. Marked(m + 2)' <=> Marked(m + 1)
    BY <1>2, <1>3, <2>1, <2>3
  <2>. QED
    BY <1>1, <2>4 DEF Marked
<1>5. ASSUME NEW i \in 1 .. Len(stack'), SavesFlag(i)'
      PROVE  stack'[i].ish = 1 <=> Marked(i - 1)'
  <2>0. i # m + 2 /\ i \in 1 .. m + 1
    BY <1>1, <1>2, <1>5
  <2>1. CASE i = m + 1
    <3>1. SavesFlag(m + 1) /\ stack'[i].ish = stack[m + 1].ish
      BY <1>2, <1>5, <2>1
    <3>2. m + 1 \in 1 .. Len(stack)
      BY <1>1, Successor, Zenon
    <3>3. m + 1 - 1 = m
      BY Successor, Zenon
    <3>4. stack[m + 1].ish = 1 <=> Marked(m)
      BY <3>1, <3>2, <3>3 DEF FlagInv
    <3>5. Marked(i - 1)' <=> Marked(m)'
      BY <2>1, <3>3
    <3>. QED
      BY <1>3, <3>1, <3>4, <3>5
  <2>2. CASE i # m + 1
    <3>1. i \in 1 .. m /\ i - 1 \in 0 .. m /\ i \in 1 .. Len(stack)
      BY <1>1, <2>0, <2>2
    <3>2. SavesFlag(i) /\ stack'[i] = stack[i] /\ (Marked(i - 1)' <=> Marked(i - 1))
      BY <1>1, <1>5, <3>1, Unmoved DEF Agree
    <3>. QED
      BY <3>1, <3>2 DEF FlagInv
  <2>. QED
    BY <2>1, <2>2
<1>. QED
  BY <1>4, <1>5 DEF FlagInv

\* A change of the top that starts and ends no running handler.
LEMMA FlagGoto ==
  ASSUME TypeOK, FlagInv, NEW r \in Records, stack' = Replace(r), UNCHANGED inHandler,
         r.k = Top.k, r.k # "frame", Running(r) <=> Running(Top),
         Running(r) => r.ish = Top.ish /\ r.lev = Top.lev
  PROVE  FlagInv'
<1>. PICK m \in Nat : m = Len(stack) - 1
  BY TopKinds
<1>1. Len(stack) = m + 1 /\ stack[m + 1] = Top
  BY TopKinds DEF Top
<1>2. /\ Random(m + 1) <=> (Running(Top) /\ Top.lev <= sig_normal)
      /\ SavesFlag(m + 1) <=> Running(Top)
  BY <1>1 DEF Random, SavesFlag, Running
<1>3. Marked(m + 1) <=> Marked(m) \/ Random(m + 1)
  BY MarkedStep
<1>4. Marked(Len(stack)) <=> Marked(m + 1)
  BY <1>1
<1>5. inHandler' = 1 <=> Marked(m) \/ (Running(r) /\ r.lev <= sig_normal)
  BY <1>2, <1>3, <1>4 DEF FlagInv
<1>6. Running(r) => (r.ish = 1 <=> Marked(m))
  BY <1>1, <1>2, m + 1 - 1 = m DEF FlagInv
<1>. QED
  BY <1>5, <1>6, FlagReplace

\* A pop of what saves no flag.
LEMMA FlagPop ==
  ASSUME TypeOK, FlagInv, Pop, UNCHANGED inHandler, ~Running(Top)
  PROVE  FlagInv'
<1>. PICK m \in Nat : m = Len(stack) - 1
  BY TopKinds
<1>1. Len(stack) = m + 1 /\ stack[m + 1] = Top /\ m \in 0 .. Len(stack)
  BY TopKinds DEF Top
<1>2. ~Random(m + 1)
  BY <1>1 DEF Random, Running
<1>3. Marked(Len(stack)) <=> Marked(m)
  BY <1>1, <1>2, MarkedStep
<1>. QED
  BY <1>1, <1>3, FlagCut DEF Pop, FlagInv

LEMMA InitFlag == Init => FlagInv
<1>. SUFFICES ASSUME Init PROVE FlagInv
  OBVIOUS
<1>1. Len(stack) = 1 /\ stack[1].k = "frame" /\ stack[1].ish = 0 /\ inHandler = 0
  BY DEF Init
<1>2. ~Marked(0) /\ ~Marked(1)
  BY <1>1 DEF Marked, Random
<1>. QED
  BY <1>1, <1>2 DEF FlagInv

LEMMA FlagStep ==
  ASSUME TypeOK, FlagInv, Next
  PROVE  FlagInv'
<1>. USE DEF flags, Running
<1>. Top \in Records /\ \A i \in 1 .. Len(stack) : stack[i] \in Records
  BY TopKinds
<1>1. ASSUME NEW c \in {"catch", "protect"}, PushFrame(c) PROVE FlagInv'
  <2>1. Frame(c) \in Records
    BY DEF Frame, Records, Frames, TypeOK
  <2>. QED
    BY <1>1, <2>1, FlagPush DEF PushFrame, Frame
<1>2. CASE PopFrame
  BY <1>2, FlagPop DEF PopFrame
<1>3. ASSUME NEW i \in DOMAIN stack, Throw(i) PROVE FlagInv'
  <2>1. i \in 1 .. Len(stack) /\ i \in 0 .. Len(stack) /\ stack[i].k = "frame"
    BY <1>3, LenProperties DEF TypeOK, Throw
  <2>2. (stack[i].ish = 1 <=> Marked(i - 1)) /\ ~Random(i)
    BY <2>1 DEF FlagInv, SavesFlag, Random
  <2>3. Marked(i) <=> Marked(i - 1)
    <3>1. i - 1 \in Nat /\ i - 1 + 1 = i
      BY <2>1
    <3>2. Marked(i - 1 + 1) <=> Marked(i - 1) \/ Random(i - 1 + 1)
      BY <3>1, MarkedStep
    <3>. QED
      BY <2>2, <3>1, <3>2
  <2>. QED
    BY <1>3, <2>1, <2>2, <2>3, FlagCut DEF Throw
<1>4. ASSUME NEW g \in Collisions, BeginRegion(g) PROVE FlagInv'
  <2>1. Region(g) \in Records
    BY CollisionsAssumption DEF Region, Records, Regions, TypeOK
  <2>. QED
    BY <1>4, <2>1, FlagPush DEF BeginRegion, Region
<1>5. CASE EndRegion
  BY <1>5, FlagPop DEF EndRegion
<1>6. CASE GentempRetry
  <2>1. [Top EXCEPT !.old = allowed] \in Records /\ [Top EXCEPT !.old = allowed].k = Top.k
    BY <1>6, KindOf DEF GentempRetry, Records, Regions, TypeOK
  <2>. QED
    BY <1>6, <2>1, FlagGoto DEF GentempRetry
<1>7. CASE BeginRead
  <2>1. Read \in Records
    BY DEF Read, Records, Reads, TypeOK
  <2>. QED
    BY <1>7, <2>1, FlagPush DEF BeginRead, Read
<1>8. CASE EndRead
  BY <1>8, FlagPop DEF EndRead
<1>9. CASE Allocate
  <2>1. Raise(sig_safe) \in Records
    BY LevelsTyped DEF Raise, Records, Raises, TypeOK
  <2>. QED
    BY <1>9, <2>1, FlagPush DEF Allocate, Raise
<1>10. CASE HandlerReturns
  <2>. DEFINE r == [Top EXCEPT !.pc = "returned"]
  <2>1. r \in Records /\ r.k = Top.k
    BY <1>10, GotoTyped DEF HandlerReturns, At
  <2>2. r.pc = "returned" /\ r.ish = Top.ish /\ r.lev = Top.lev /\ r.k = "invoke"
    BY <1>10, KindOf DEF HandlerReturns, At, Invokes
  <2>. HIDE DEF r
  <2>3. stack' = Replace(r) /\ Top.pc = "lisp" /\ UNCHANGED inHandler /\ Top.k = "invoke"
    BY <1>10 DEF HandlerReturns, Goto, r, At
  <2>. QED
    BY <2>1, <2>2, <2>3, FlagGoto
<1>11. CASE Kernel
  <2>1. CASE UNCHANGED <<stack, inHandler>>
    BY <2>1 DEF FlagInv, Marked, Random, SavesFlag
  <2>2. ASSUME NEW s \in Signals, Deliver(s) PROVE FlagInv'
    <3>1. Main(s) \in Records
      BY LevelsTyped DEF Main, Records, Mains, TypeOK
    <3>. QED
      BY <2>2, <3>1, FlagPush DEF Deliver, Main
  <2>. QED
    BY <1>11, <2>1, <2>2 DEF Kernel, Send, AlarmFires
<1>12. CASE MainAllow
  <2>. DEFINE r == [Top EXCEPT !.pc = "called", !.lev = allowed]
              q == Invoke(Top.sig, allowed)
  <2>1. Top \in Mains /\ UNCHANGED inHandler /\ stack' = Append(Replace(r), q)
    BY <1>12, KindOf DEF MainAllow, At
  <2>2. r \in Records /\ r.k = "main" /\ Top.k = "main"
    BY <2>1 DEF Records, Mains, TypeOK
  <2>3. q \in Records /\ q.k = "invoke" /\ q.pc = "save"
    BY <2>1 DEF Invoke, Records, Invokes, Mains, TypeOK
  <2>. HIDE DEF r, q
  <2>. QED
    BY <2>1, <2>2, <2>3, FlagReplacePush
<1>13. CASE MainDelay
  <2>1. /\ [Top EXCEPT !.pc = "arm"] \in Records
        /\ [Top EXCEPT !.pc = "arm"].k = Top.k
    BY <1>13, GotoTyped DEF MainDelay, At
  <2>. QED
    BY <1>13, <2>1, FlagGoto DEF MainDelay, Goto, At
<1>14. CASE MainArm
  BY <1>14, FlagPop DEF MainArm, At
<1>15. CASE MainReturn
  BY <1>15, FlagPop DEF MainReturn, At
<1>16. CASE InvokeCall
  <2>. DEFINE r == [Top EXCEPT !.pc = IF Top.sig \in UserSignals THEN "lisp" ELSE "handler",
                               !.ish = inHandler]
  <2>1. Top \in Invokes /\ stack' = Replace(r) /\ Top.k = "invoke" /\ Top.pc = "save"
    BY <1>16, KindOf DEF InvokeCall, At
  <2>2. r \in Records /\ r.k = "invoke" /\ r.pc \in {"lisp", "handler"}
        /\ r.ish = inHandler /\ r.lev = Top.lev
    BY <2>1 DEF Records, Invokes, TypeOK
  <2>. HIDE DEF r
  <2>3. PICK m \in Nat : m = Len(stack) - 1
    BY TopKinds
  <2>4. Len(stack) = m + 1 /\ stack[m + 1] = Top
    BY <2>3 DEF Top
  <2>5. ~Random(m + 1)
    BY <2>1, <2>4 DEF Random
  <2>6. Marked(m + 1) <=> Marked(m)
    BY <2>5, MarkedStep
  <2>7. inHandler = 1 <=> Marked(m)
    BY <2>4, <2>6 DEF FlagInv
  <2>8. inHandler' = 1 <=> Marked(m) \/ Top.lev <= sig_normal
    BY <1>16, <2>7 DEF InvokeCall
  <2>. QED
    BY <2>1, <2>2, <2>3, <2>7, <2>8, FlagReplace
<1>17. CASE HandlerUnblock
  <2>. DEFINE r == [Top EXCEPT !.pc = "unblocked"]
  <2>1. r \in Records /\ r.k = Top.k
    BY <1>17, GotoTyped DEF HandlerUnblock, At
  <2>2. r.pc = "unblocked" /\ r.ish = Top.ish /\ r.lev = Top.lev /\ r.k = "invoke"
    BY <1>17, KindOf DEF HandlerUnblock, At, Invokes
  <2>. HIDE DEF r
  <2>3. stack' = Replace(r) /\ Top.pc = "handler" /\ UNCHANGED inHandler /\ Top.k = "invoke"
    BY <1>17 DEF HandlerUnblock, Goto, r, At
  <2>. QED
    BY <2>1, <2>2, <2>3, FlagGoto
<1>18. CASE SigintCallsLisp
  <2>. DEFINE r == [Top EXCEPT !.pc = "lisp"]
  <2>1. r \in Records /\ r.k = Top.k
    BY <1>18, GotoTyped DEF SigintCallsLisp, At
  <2>2. r.pc = "lisp" /\ r.ish = Top.ish /\ r.lev = Top.lev /\ r.k = "invoke"
    BY <1>18, KindOf DEF SigintCallsLisp, At, Invokes
  <2>. HIDE DEF r
  <2>3. /\ stack' = Replace(r) /\ Top.pc = "unblocked" /\ UNCHANGED inHandler
        /\ Top.k = "invoke"
    BY <1>18 DEF SigintCallsLisp, Goto, r, At
  <2>. QED
    BY <2>1, <2>2, <2>3, FlagGoto
<1>19. CASE SigalrmRaises
  <2>. DEFINE r == [Top EXCEPT !.pc = "returned"]
              q == Raise(sig_try_to_delay)
  <2>1. r \in Records /\ r.k = Top.k
    BY <1>19, GotoTyped DEF SigalrmRaises, At
  <2>2. r.pc = "returned" /\ r.ish = Top.ish /\ r.lev = Top.lev /\ r.k = "invoke"
    BY <1>19, KindOf DEF SigalrmRaises, At, Invokes
  <2>3. q \in Records /\ q.k = "raise"
    BY LevelsTyped DEF Raise, Records, Raises, TypeOK
  <2>. HIDE DEF r, q
  <2>4. /\ stack' = Append(Replace(r), q) /\ Top.pc = "unblocked" /\ UNCHANGED inHandler
        /\ Top.k = "invoke"
    BY <1>19 DEF SigalrmRaises, r, q, At
  <2>. QED
    BY <2>1, <2>2, <2>3, <2>4, FlagReplacePush
<1>20. CASE InvokeLeave
  <2>. DEFINE r == [Top EXCEPT !.pc = "restore"]
  <2>1. r \in Records /\ r.k = "invoke" /\ r.pc = "restore"
    BY <1>20, KindOf, GotoTyped DEF InvokeLeave, At, Invokes
  <2>. HIDE DEF r
  <2>2. stack' = Replace(r) /\ inHandler' = Top.ish
    BY <1>20 DEF InvokeLeave, Goto, r
  <2>3. PICK m \in Nat : m = Len(stack) - 1
    BY TopKinds
  <2>4. Len(stack) = m + 1 /\ stack[m + 1] = Top /\ m + 1 - 1 = m
    BY <2>3 DEF Top
  <2>5. Top.ish = 1 <=> Marked(m)
    BY <1>20, <2>4 DEF FlagInv, SavesFlag, InvokeLeave, At
  <2>. QED
    BY <2>1, <2>2, <2>3, <2>5, FlagReplace
<1>21. CASE InvokeReturn
  BY <1>21, FlagPop DEF InvokeReturn, At
<1>22. CASE RaiseScan
  <2>. DEFINE r == [Top EXCEPT !.snap = pending, !.pc = "check"]
  <2>1. r \in Records /\ r.k = Top.k /\ Top.k = "raise"
    BY <1>22, KindOf DEF RaiseScan, At, Records, Raises, TypeOK
  <2>. HIDE DEF r
  <2>2. stack' = Replace(r) /\ UNCHANGED inHandler
    BY <1>22 DEF RaiseScan, r
  <2>. QED
    BY <2>1, <2>2, FlagGoto
<1>23. CASE RaiseNext
  <2>. DEFINE r == [Top EXCEPT !.pc = "scan"]
  <2>1. r \in Records /\ r.k = Top.k /\ Top.k = "raise" /\ Top \in Raises
    BY <1>23, GotoTyped, KindOf DEF RaiseNext, At
  <2>. HIDE DEF r
  <2>2. PICK s \in Ready : \/ stack' = Replace(r)
                          \/ stack' = Append(Replace(r), Invoke(s, Top.cond))
    BY <1>23 DEF RaiseNext, Goto, r
  <2>3. /\ Invoke(s, Top.cond) \in Records /\ Invoke(s, Top.cond).k = "invoke"
        /\ Invoke(s, Top.cond).pc = "save"
    BY <2>1, <2>2, LevelsTyped DEF Invoke, Records, Invokes, Raises, Ready, TypeOK
  <2>4. UNCHANGED inHandler
    BY <1>23 DEF RaiseNext
  <2>. QED
    BY <2>1, <2>2, <2>3, <2>4, FlagGoto, FlagReplacePush
<1>24. CASE RaiseReturn
  BY <1>24, FlagPop DEF RaiseReturn, At
<1>. QED
  BY <1>1, <1>2, <1>3, <1>4, <1>5, <1>6, <1>7, <1>8, <1>9, <1>10, <1>11, <1>12, <1>13,
     <1>14, <1>15, <1>16, <1>17, <1>18, <1>19, <1>20, <1>21, <1>22, <1>23, <1>24
     DEF Next, Lisp, Delivery

\* in_signal_handler is set exactly while a handler runs that interrupted code at
\* an arbitrary instruction, for any number of signals and any depth of nesting.
THEOREM HandlerFlagHolds == Spec => []HandlerFlag
<1>1. TypeOK /\ FlagInv /\ [Next]_vars => FlagInv'
  <2>1. UNCHANGED vars /\ FlagInv => FlagInv'
    BY DEF vars, FlagInv, Marked, Random, SavesFlag
  <2>. QED
    BY <2>1, FlagStep
<1>2. TypeOK /\ FlagInv => HandlerFlag
  <2>1. TypeOK => DOMAIN stack = 1 .. Len(stack)
    BY LenProperties DEF TypeOK
  <2>. QED
    BY <2>1 DEF FlagInv, HandlerFlag, Marked
<1>. QED
  BY InitTyped, StepTyped, InitFlag, <1>1, <1>2, PTL DEF Spec

-------------------------------------------------------------------------------
(* signals_allowed.                                                        *)

\* What LevelInv asks of the record at i.
SavedAt(i) ==
  /\ PassiveTo(i - 1) => SavedLevel(i) = sig_normal
  /\ stack[i].k = "invoke" => i > 1 /\ ~Passive(i - 1)
  /\ stack[i].k = "region" => ~stack[i].gentemp

\* The records a step does not move keep what LevelInv asks of them.
LEMMA SavedBelow ==
  ASSUME TypeOK, LevelInv, NEW n \in 0 .. Len(stack), Agree(n)
  PROVE  \A i \in 1 .. n : SavedAt(i)'
<1>. SUFFICES ASSUME NEW i \in 1 .. n PROVE SavedAt(i)'
  OBVIOUS
<1>1. n \in Nat /\ i \in 1 .. Len(stack) /\ i - 1 \in 0 .. n
  BY TopKinds
<1>2. SavedAt(i)
  BY <1>1 DEF LevelInv, SavedAt
<1>3. stack'[i] = stack[i] /\ SavedLevel(i)' = SavedLevel(i)
  BY <1>1, Unmoved DEF Agree
<1>4. PassiveTo(i - 1)' <=> PassiveTo(i - 1)
  BY <1>1, Unmoved
<1>5. i > 1 => (Passive(i - 1)' <=> Passive(i - 1))
  <2>1. i > 1 => i - 1 \in 1 .. n
    BY <1>1
  <2>. QED
    BY <1>1, <2>1, Unmoved
<1>. QED
  BY <1>2, <1>3, <1>4, <1>5 DEF SavedAt

LEMMA LevelCut ==
  ASSUME TypeOK, LevelInv, NEW n \in 0 .. Len(stack), stack' = SubSeq(stack, 1, n),
         PassiveTo(n) => allowed' = sig_normal
  PROVE  LevelInv'
<1>1. n \in Nat /\ Len(stack') = n /\ Agree(n)
  BY TopKinds, CutStack DEF TypeOK
<1>2. PassiveTo(n)' <=> PassiveTo(n)
  BY <1>1, Unmoved
<1>3. PassiveTo(Len(stack))' <=> PassiveTo(n)'
  BY <1>1 DEF PassiveTo
<1>4. \A i \in 1 .. n : SavedAt(i)'
  BY <1>1, SavedBelow
<1>. QED
  BY <1>1, <1>2, <1>3, <1>4 DEF LevelInv, SavedAt

\* A push of a record that is not a handler's, over a level it saves or leaves.
LEMMA LevelPush ==
  ASSUME TypeOK, LevelInv, NEW r \in Records, Push(r), r.k # "invoke",
         \/ r.k = "frame" /\ allowed' = allowed
         \/ r.k = "main" /\ r.pc = "entry" /\ allowed' = allowed
         \/ r.k = "region" /\ r.old = allowed /\ ~r.gentemp
         \/ r.k = "read" /\ r.old = allowed
         \/ r.k = "raise" /\ r.lev = allowed
  PROVE  LevelInv'
<1>. PICK n \in Nat : n = Len(stack)
  BY TopKinds
<1>1. Len(stack') = n + 1 /\ Agree(n) /\ stack'[n + 1] = r
  BY PushStack DEF TypeOK
<1>2. \A i \in 1 .. n : SavedAt(i)'
  BY <1>1, SavedBelow, n \in 0 .. n
<1>3. PassiveTo(n)' <=> PassiveTo(n)
  BY <1>1, Unmoved, n \in 0 .. n
<1>4. PassiveTo(n) => allowed = sig_normal
  BY DEF LevelInv
<1>5. SavedAt(n + 1)'
  <2>1. PassiveTo(n)' => SavedLevel(n + 1)' = sig_normal
    BY <1>1, <1>3, <1>4 DEF SavedLevel
  <2>2. PassiveTo(n + 1 - 1)' <=> PassiveTo(n)'
    BY n + 1 - 1 = n
  <2>. QED
    BY <1>1, <2>1, <2>2 DEF SavedAt
<1>6. PassiveTo(n + 1)' => allowed' = sig_normal
  <2>1. PassiveTo(n + 1)' <=> PassiveTo(n)' /\ Passive(n + 1)'
    BY MarkedStep
  <2>2. Passive(n + 1)' => allowed' = allowed
    BY <1>1 DEF Passive
  <2>. QED
    BY <1>3, <1>4, <2>1, <2>2
<1>7. PassiveTo(Len(stack))' <=> PassiveTo(n + 1)'
  BY <1>1 DEF PassiveTo
<1>8. \A i \in 1 .. n + 1 : SavedAt(i)'
  BY <1>2, <1>5
<1>. QED
  BY <1>1, <1>6, <1>7, <1>8 DEF LevelInv, SavedAt

\* A change of the top activation that keeps its kind and the level it saved.
LEMMA LevelGoto ==
  ASSUME TypeOK, LevelInv, NEW r \in Records, stack' = Replace(r), r.k = Top.k,
         \/ r.k = "invoke"
         \/ r.k = "raise" /\ r.lev = Top.lev
         \/ r.k = "main" /\ Top.pc = "entry" /\ r.pc = "arm" /\ allowed' = allowed
  PROVE  LevelInv'
<1>. PICK m \in Nat : m = Len(stack) - 1
  BY TopKinds
<1>1. /\ Len(stack) = m + 1 /\ Len(stack') = m + 1 /\ Agree(m)
      /\ stack'[m + 1] = r /\ stack[m + 1] = Top
  BY TopKinds, ReplaceStack DEF TypeOK, Top
<1>2. \A i \in 1 .. m : SavedAt(i)'
  BY <1>1, SavedBelow, m \in 0 .. m + 1
<1>3. PassiveTo(m)' <=> PassiveTo(m)
  BY <1>1, Unmoved, m \in 0 .. m
<1>4. m > 0 => (Passive(m)' <=> Passive(m))
  BY <1>1, Unmoved, m > 0 => m \in 1 .. m
<1>5. SavedAt(m + 1)
  BY <1>1 DEF LevelInv, SavedAt
<1>6. /\ PassiveTo(m) => SavedLevel(m + 1) = sig_normal
      /\ Top.k = "invoke" => m > 0 /\ ~Passive(m)
  BY <1>1, <1>5, m + 1 - 1 = m DEF SavedAt
<1>7. SavedAt(m + 1)'
  <2>1. PassiveTo(m)' => SavedLevel(m + 1)' = sig_normal
    BY <1>1, <1>3, <1>6 DEF SavedLevel
  <2>2. r.k = "invoke" => m > 0 /\ ~Passive(m)'
    BY <1>4, <1>6
  <2>. QED
    BY <1>1, <2>1, <2>2, m + 1 - 1 = m DEF SavedAt
<1>8. PassiveTo(m + 1)' => allowed' = sig_normal
  <2>1. PassiveTo(m + 1)' <=> PassiveTo(m)' /\ Passive(m + 1)'
    BY MarkedStep
  <2>2. PassiveTo(m + 1) <=> PassiveTo(m) /\ Passive(m + 1)
    BY MarkedStep
  <2>3. Passive(m + 1)' => Passive(m + 1) /\ allowed' = allowed
    BY <1>1 DEF Passive
  <2>4. PassiveTo(m + 1) => allowed = sig_normal
    BY <1>1 DEF LevelInv
  <2>. QED
    BY <1>3, <2>1, <2>2, <2>3, <2>4
<1>9. PassiveTo(Len(stack))' <=> PassiveTo(m + 1)'
  BY <1>1 DEF PassiveTo
<1>10. \A i \in 1 .. m + 1 : SavedAt(i)'
  BY <1>2, <1>7
<1>. QED
  BY <1>1, <1>8, <1>9, <1>10 DEF LevelInv, SavedAt

\* A call of a handler, or of raise_pending_signals by a handler, seen record by
\* record.
LEMMA LevelCallShape ==
  ASSUME TypeOK, LevelInv, NEW m \in Nat, NEW r, NEW q,
         Len(stack) = m + 1, Len(stack') = m + 2, Agree(m),
         stack'[m + 1] = r, stack'[m + 2] = q, stack[m + 1] = Top, r.k = Top.k,
         \/ r.k = "main" /\ Top.pc = "entry" /\ r.pc = "called" /\ r.lev = allowed
            /\ q.k = "invoke"
         \/ r.k = "raise" /\ r.lev = Top.lev /\ q.k = "invoke"
         \/ r.k = "invoke" /\ q.k = "raise"
  PROVE  LevelInv'
<1>0. /\ m + 1 - 1 = m /\ m + 2 - 1 = m + 1 /\ m \in 0 .. m /\ m \in 0 .. m + 1
      /\ m > 0 => m \in 1 .. m
      /\ \A i \in 1 .. m + 2 : i \in 1 .. m \/ i = m + 1 \/ i = m + 2
      /\ m + 1 \in 1 .. m + 1 /\ m + 1 \in 1 .. m + 2
  OBVIOUS
<1>1. stack'[m + 1] = r /\ stack'[m + 2] = q /\ stack[m + 1] = Top
  OBVIOUS
<1>2. \A i \in 1 .. m : SavedAt(i)'
  BY <1>0, SavedBelow
<1>3. PassiveTo(m)' <=> PassiveTo(m)
  BY <1>0, Unmoved
<1>4. m > 0 => (Passive(m)' <=> Passive(m))
  BY <1>0, Unmoved
<1>5. SavedAt(m + 1)
  BY <1>0 DEF LevelInv, SavedAt
<1>6. /\ PassiveTo(m) => SavedLevel(m + 1) = sig_normal
      /\ Top.k = "invoke" => m > 0 /\ ~Passive(m)
  BY <1>1, <1>5, <1>0 DEF SavedAt
<1>7. SavedAt(m + 1)'
  <2>1. PassiveTo(m + 1) <=> PassiveTo(m) /\ Passive(m + 1)
    BY MarkedStep
  <2>2. r.k = "main" /\ PassiveTo(m) => allowed = sig_normal
    BY <1>1, <2>1 DEF LevelInv, Passive
  <2>3. PassiveTo(m)' => SavedLevel(m + 1)' = sig_normal
    BY <1>1, <1>3, <1>6, <2>2 DEF SavedLevel
  <2>4. r.k = "invoke" => m > 0 /\ ~Passive(m)'
    BY <1>4, <1>6
  <2>. QED
    BY <1>1, <2>3, <2>4, <1>0 DEF SavedAt
<1>8. ~Passive(m + 1)' /\ ~PassiveTo(m + 1)'
  <2>1. ~Passive(m + 1)'
    BY <1>1 DEF Passive
  <2>2. PassiveTo(m + 1)' <=> PassiveTo(m)' /\ Passive(m + 1)'
    BY MarkedStep
  <2>. QED
    BY <2>1, <2>2
<1>9. SavedAt(m + 2)'
  BY <1>1, <1>8, <1>0 DEF SavedAt
<1>10. ~PassiveTo(Len(stack))'
  <2>1. m + 1 \in 1 .. Len(stack')
    BY <1>0
  <2>. QED
    BY <1>8, <2>1 DEF PassiveTo
<1>11. \A i \in 1 .. m + 2 : SavedAt(i)'
  BY <1>0, <1>2, <1>7, <1>9
<1>. QED
  BY <1>1, <1>10, <1>11 DEF LevelInv, SavedAt

LEMMA LevelCall ==
  ASSUME TypeOK, LevelInv, NEW r \in Records, NEW q \in Records,
         stack' = Append(Replace(r), q), r.k = Top.k,
         \/ r.k = "main" /\ Top.pc = "entry" /\ r.pc = "called" /\ r.lev = allowed
            /\ q.k = "invoke"
         \/ r.k = "raise" /\ r.lev = Top.lev /\ q.k = "invoke"
         \/ r.k = "invoke" /\ q.k = "raise"
  PROVE  LevelInv'
<1>. PICK m \in Nat : m = Len(stack) - 1
  BY TopKinds
<1>1. /\ Len(stack) = m + 1 /\ Len(stack') = m + 2 /\ Agree(m)
      /\ stack'[m + 1] = r /\ stack'[m + 2] = q /\ stack[m + 1] = Top
  <2>1. Len(stack) > 0 /\ Len(stack) = m + 1 /\ Len(stack) + 1 = m + 2 /\ Len(stack) - 1 = m
    BY TopKinds
  <2>2. /\ Len(stack') = Len(stack) + 1 /\ Agree(Len(stack) - 1)
        /\ stack'[Len(stack)] = r /\ stack'[Len(stack) + 1] = q
    BY <2>1, ReplacePushStack DEF TypeOK
  <2>. QED
    BY <2>1, <2>2 DEF Top
<1>. QED
  BY <1>1, LevelCallShape

\* A return: what is popped left the level alone, restores the level it saved, or
\* is a handler's, with the function that restores the level below it.
LEMMA LevelPop ==
  ASSUME TypeOK, LevelInv, Pop,
         \/ Top.k = "frame" /\ allowed' = allowed
         \/ Top.k = "main" /\ Top.pc # "called" /\ allowed' = allowed
         \/ Top.k = "main" /\ Top.pc = "called" /\ allowed' = Top.lev
         \/ Top.k \in {"region", "read"} /\ allowed' = Top.old
         \/ Top.k = "raise" /\ allowed' = Top.lev
         \/ Top.k = "invoke"
  PROVE  LevelInv'
<1>. PICK m \in Nat : m = Len(stack) - 1
  BY TopKinds
<1>1. Len(stack) = m + 1 /\ stack[m + 1] = Top /\ m \in 0 .. Len(stack)
  BY TopKinds DEF Top
<1>2. SavedAt(m + 1)
  BY <1>1 DEF LevelInv, SavedAt
<1>3. /\ PassiveTo(m) => SavedLevel(m + 1) = sig_normal
      /\ Top.k = "invoke" => m > 0 /\ ~Passive(m)
  BY <1>1, <1>2, m + 1 - 1 = m DEF SavedAt
<1>4. PassiveTo(m) => allowed' = sig_normal
  <2>1. PassiveTo(m + 1) <=> PassiveTo(m) /\ Passive(m + 1)
    BY MarkedStep
  <2>2. PassiveTo(m + 1) => allowed = sig_normal
    BY <1>1 DEF LevelInv
  <2>3. CASE Passive(m + 1)
    BY <1>1, <2>1, <2>2, <2>3 DEF Passive
  <2>4. CASE Top.k = "invoke"
    BY <1>3, <2>4, m > 0 => m \in 1 .. m DEF PassiveTo
  <2>5. CASE ~Passive(m + 1) /\ Top.k # "invoke"
    BY <1>1, <1>3, <2>5 DEF Passive, SavedLevel
  <2>. QED
    BY <2>3, <2>4, <2>5
<1>. QED
  BY <1>1, <1>4, LevelCut DEF Pop

LEMMA InitLevel == Init => LevelInv
<1>. SUFFICES ASSUME Init PROVE LevelInv
  OBVIOUS
<1>1. Len(stack) = 1 /\ stack[1].k = "frame" /\ allowed = sig_normal
  BY DEF Init
<1>. QED
  BY <1>1 DEF LevelInv, SavedLevel

LEMMA LevelLisp ==
  ASSUME TypeOK, LevelInv, Lisp, Collisions = {FALSE}
  PROVE  LevelInv'
<1>. Top \in Records /\ \A i \in 1 .. Len(stack) : stack[i] \in Records
  BY TopKinds
<1>1. ASSUME NEW c \in {"catch", "protect"}, PushFrame(c) PROVE LevelInv'
  <2>1. Frame(c) \in Records
    BY DEF Frame, Records, Frames, TypeOK
  <2>. QED
    BY <1>1, <2>1, LevelPush DEF PushFrame, Frame, flags
<1>2. CASE PopFrame
  BY <1>2, LevelPop DEF PopFrame, flags
<1>3. ASSUME NEW i \in DOMAIN stack, Throw(i) PROVE LevelInv'
  <2>1. i \in 0 .. Len(stack)
    BY LenProperties DEF TypeOK
  <2>. QED
    BY <1>3, <2>1, LevelCut DEF Throw
<1>4. ASSUME NEW g \in Collisions, BeginRegion(g) PROVE LevelInv'
  <2>1. Region(g) \in Records /\ ~g
    BY DEF Region, Records, Regions, TypeOK
  <2>. QED
    BY <1>4, <2>1, LevelPush DEF BeginRegion, Region
<1>5. CASE EndRegion
  BY <1>5, LevelPop DEF EndRegion
<1>6. ~GentempRetry
  BY TopKinds DEF LevelInv, GentempRetry, Top
<1>7. CASE BeginRead
  <2>1. Read \in Records
    BY DEF Read, Records, Reads, TypeOK
  <2>. QED
    BY <1>7, <2>1, LevelPush DEF BeginRead, Read
<1>8. CASE EndRead
  BY <1>8, LevelPop DEF EndRead
<1>9. CASE Allocate
  <2>1. Raise(sig_safe) \in Records
    BY LevelsTyped DEF Raise, Records, Raises, TypeOK
  <2>. QED
    BY <1>9, <2>1, LevelPush DEF Allocate, Raise
<1>10. CASE HandlerReturns
  <2>1. /\ [Top EXCEPT !.pc = "returned"] \in Records
        /\ [Top EXCEPT !.pc = "returned"].k = Top.k
    BY <1>10, GotoTyped DEF HandlerReturns, At
  <2>. QED
    BY <1>10, <2>1, LevelGoto DEF HandlerReturns, Goto, At
<1>. QED
  BY <1>1, <1>2, <1>3, <1>4, <1>5, <1>6, <1>7, <1>8, <1>9, <1>10 DEF Lisp

LEMMA LevelKernel ==
  ASSUME TypeOK, LevelInv, Kernel
  PROVE  LevelInv'
<1>1. CASE UNCHANGED <<stack, allowed>>
  BY <1>1 DEF LevelInv, PassiveTo, Passive, SavedLevel
<1>2. ASSUME NEW s \in Signals, Deliver(s) PROVE LevelInv'
  <2>1. Main(s) \in Records
    BY LevelsTyped DEF Main, Records, Mains, TypeOK
  <2>. QED
    BY <1>2, <2>1, LevelPush DEF Deliver, Main, flags
<1>. QED
  BY <1>1, <1>2 DEF Kernel, Send, AlarmFires, flags

LEMMA LevelDelivery ==
  ASSUME TypeOK, LevelInv, Delivery
  PROVE  LevelInv'
<1>. Top \in Records
  BY TopKinds
<1>1. CASE MainAllow
  <2>. DEFINE r == [Top EXCEPT !.pc = "called", !.lev = allowed]
              q == Invoke(Top.sig, allowed)
  <2>1. Top \in Mains /\ stack' = Append(Replace(r), q)
    BY <1>1, KindOf DEF MainAllow, At
  <2>2. r \in Records /\ r.k = "main" /\ r.pc = "called" /\ r.lev = allowed
    BY <2>1 DEF Records, Mains, TypeOK
  <2>3. q \in Records /\ q.k = "invoke"
    BY <2>1 DEF Invoke, Records, Invokes, Mains, TypeOK
  <2>. HIDE DEF r, q
  <2>. QED
    BY <1>1, <2>1, <2>2, <2>3, LevelCall DEF MainAllow, At
<1>2. CASE MainDelay
  <2>. DEFINE r == [Top EXCEPT !.pc = "arm"]
  <2>1. Top \in Mains /\ stack' = Replace(r)
    BY <1>2, KindOf DEF MainDelay, Goto, At
  <2>2. r \in Records /\ r.k = "main" /\ r.pc = "arm"
    BY <2>1 DEF Records, Mains, TypeOK
  <2>. HIDE DEF r
  <2>. QED
    BY <1>2, <2>1, <2>2, LevelGoto DEF MainDelay, At
<1>3. CASE MainArm
  BY <1>3, LevelPop DEF MainArm, At, flags
<1>4. CASE MainReturn
  BY <1>4, LevelPop DEF MainReturn, At
<1>5. CASE InvokeCall \/ HandlerUnblock \/ SigintCallsLisp \/ InvokeLeave
  <2>. DEFINE r(p) == [Top EXCEPT !.pc = p]
              c == [Top EXCEPT !.pc = IF Top.sig \in UserSignals THEN "lisp" ELSE "handler",
                               !.ish = inHandler]
  <2>1. Top \in Invokes /\ Top.k = "invoke"
    BY <1>5, KindOf DEF InvokeCall, HandlerUnblock, SigintCallsLisp, InvokeLeave, At
  <2>2. /\ c \in Records /\ c.k = "invoke"
        /\ \A p \in {"unblocked", "lisp", "restore"} : r(p) \in Records /\ r(p).k = "invoke"
    BY <2>1 DEF Records, Invokes, TypeOK
  <2>. HIDE DEF r, c
  <2>3. stack' \in {Replace(c), Replace(r("unblocked")), Replace(r("lisp")),
                    Replace(r("restore"))}
    BY <1>5 DEF InvokeCall, HandlerUnblock, SigintCallsLisp, InvokeLeave, Goto, r, c
  <2>. QED
    BY <2>1, <2>2, <2>3, LevelGoto
<1>6. CASE SigalrmRaises
  <2>. DEFINE r == [Top EXCEPT !.pc = "returned"]
              q == Raise(sig_try_to_delay)
  <2>1. Top \in Invokes /\ stack' = Append(Replace(r), q) /\ Top.k = "invoke"
    BY <1>6, KindOf DEF SigalrmRaises, At
  <2>2. r \in Records /\ r.k = "invoke"
    BY <2>1 DEF Records, Invokes, TypeOK
  <2>3. q \in Records /\ q.k = "raise"
    BY LevelsTyped DEF Raise, Records, Raises, TypeOK
  <2>. HIDE DEF r, q
  <2>. QED
    BY <2>1, <2>2, <2>3, LevelCall
<1>7. CASE InvokeReturn
  BY <1>7, LevelPop DEF InvokeReturn, At
<1>8. CASE RaiseScan
  <2>. DEFINE r == [Top EXCEPT !.snap = pending, !.pc = "check"]
  <2>1. r \in Records /\ r.k = Top.k /\ r.k = "raise" /\ r.lev = Top.lev
    BY <1>8, KindOf DEF RaiseScan, At, Records, Raises, TypeOK
  <2>. HIDE DEF r
  <2>2. stack' = Replace(r)
    BY <1>8 DEF RaiseScan, r
  <2>. QED
    BY <2>1, <2>2, LevelGoto
<1>9. CASE RaiseNext
  <2>. DEFINE r == [Top EXCEPT !.pc = "scan"]
  <2>1. r \in Records /\ r.k = Top.k /\ r.k = "raise" /\ r.lev = Top.lev /\ Top \in Raises
    BY <1>9, KindOf DEF RaiseNext, At, Records, Raises, TypeOK
  <2>. HIDE DEF r
  <2>2. PICK s \in Ready : \/ stack' = Replace(r)
                          \/ stack' = Append(Replace(r), Invoke(s, Top.cond))
    BY <1>9 DEF RaiseNext, Goto, r
  <2>3. Invoke(s, Top.cond) \in Records /\ Invoke(s, Top.cond).k = "invoke"
    BY <2>1, <2>2, LevelsTyped DEF Invoke, Records, Invokes, Raises, Ready, TypeOK
  <2>. QED
    BY <2>1, <2>2, <2>3, LevelGoto, LevelCall
<1>10. CASE RaiseReturn
  BY <1>10, LevelPop DEF RaiseReturn, At
<1>. QED
  BY <1>1, <1>2, <1>3, <1>4, <1>5, <1>6, <1>7, <1>8, <1>9, <1>10 DEF Delivery

\* Unless GENTEMP meets an interned name, no mixture of returns, throws and nested
\* handlers leaves a critical level behind, for any number of signals and any depth.
THEOREM LevelRestored == Collisions = {FALSE} => (Spec => []LevelAtBase)
<1>. SUFFICES ASSUME Collisions = {FALSE} PROVE Spec => []LevelAtBase
  OBVIOUS
<1>1. TypeOK /\ LevelInv /\ [Next]_vars => LevelInv'
  <2>1. UNCHANGED vars /\ LevelInv => LevelInv'
    BY DEF vars, LevelInv, PassiveTo, Passive, SavedLevel
  <2>. QED
    BY <2>1, LevelLisp, LevelKernel, LevelDelivery DEF Next
<1>2. TypeOK /\ LevelInv => LevelAtBase
  <2>1. TypeOK => DOMAIN stack = 1 .. Len(stack)
    BY LenProperties DEF TypeOK
  <2>. QED
    BY <2>1 DEF LevelInv, LevelAtBase, PassiveTo, Passive
<1>. QED
  BY InitTyped, StepTyped, InitLevel, <1>1, <1>2, PTL DEF Spec
-------------------------------------------------------------------------------
(* What is carried over handlers to the one place that may use it.         *)

\* An activation that runs Lisp code or has come from where the handler of SIGINT is
\* called.
Busy(r) ==
  \/ r.k \in {"frame", "region"}
  \/ r.k = "invoke" /\ r.pc # "save" /\ (r.sig = INT \/ r.pc = "lisp")

\* A record of C is on the stack, and no throw can reach it.
Carried(C) ==
  \E i \in 1 .. Len(stack) :
    stack[i] \in C /\ \A j \in (i + 1) .. Len(stack) : ~Busy(stack[j])

LEMMA BusyTop ==
  ASSUME TypeOK, NEW C, Top \notin C, Busy(Top)
  PROVE  ~Carried(C)
<1>1. Len(stack) \in Nat \ {0}
  BY TopKinds
<1>2. \A i \in 1 .. Len(stack) : i = Len(stack) \/ Len(stack) \in (i + 1) .. Len(stack)
  BY <1>1
<1>. QED
  BY <1>2 DEF Carried, Top

LEMMA CarriedPush ==
  ASSUME TypeOK, NEW C, NEW r \in Records, Push(r), r \in C \/ (Carried(C) /\ ~Busy(r))
  PROVE  Carried(C)'
<1>1. /\ Len(stack) \in Nat \ {0} /\ Len(stack') = Len(stack) + 1
      /\ Agree(Len(stack)) /\ stack'[Len(stack) + 1] = r
  BY TopKinds, PushStack DEF TypeOK
<1>2. CASE r \in C
  <2>1. Len(stack) + 1 \in 1 .. Len(stack')
    BY <1>1
  <2>2. \A j \in (Len(stack) + 1 + 1) .. Len(stack') : FALSE
    BY <1>1
  <2>3. stack'[Len(stack) + 1] \in C
    BY <1>1, <1>2
  <2>. QED
    BY <2>1, <2>2, <2>3 DEF Carried
<1>3. CASE Carried(C) /\ ~Busy(r)
  <2>1. PICK i \in 1 .. Len(stack) :
          stack[i] \in C /\ \A j \in (i + 1) .. Len(stack) : ~Busy(stack[j])
    BY <1>3 DEF Carried
  <2>2. i \in 1 .. Len(stack') /\ stack'[i] = stack[i]
    BY <1>1 DEF Agree
  <2>3. ASSUME NEW j \in (i + 1) .. Len(stack')
        PROVE  ~Busy(stack'[j])
    <3>1. j = Len(stack) + 1 \/ (j \in (i + 1) .. Len(stack) /\ j \in 1 .. Len(stack))
      BY <1>1, <2>1
    <3>. QED
      BY <1>1, <1>3, <2>1, <3>1 DEF Agree
  <2>. QED
    BY <2>1, <2>2, <2>3 DEF Carried, Busy
<1>. QED
  BY <1>2, <1>3

LEMMA CarriedPop ==
  ASSUME TypeOK, NEW C, Pop, Carried(C), Top \notin C
  PROVE  Carried(C)'
<1>1. Len(stack) \in Nat \ {0} /\ Len(stack) - 1 \in 0 .. Len(stack)
  BY TopKinds
<1>2. Len(stack') = Len(stack) - 1 /\ Agree(Len(stack) - 1)
  BY <1>1, CutStack DEF TypeOK, Pop
<1>3. PICK i \in 1 .. Len(stack) :
        stack[i] \in C /\ \A j \in (i + 1) .. Len(stack) : ~Busy(stack[j])
  BY DEF Carried
<1>4. i # Len(stack)
  BY <1>3 DEF Top
<1>5. i \in 1 .. Len(stack') /\ stack'[i] = stack[i]
  BY <1>1, <1>2, <1>4 DEF Agree
<1>6. ASSUME NEW j \in (i + 1) .. Len(stack')
      PROVE  ~Busy(stack'[j])
  <2>1. j \in (i + 1) .. Len(stack) /\ j \in 1 .. Len(stack) - 1
    BY <1>1, <1>2, <1>3
  <2>. QED
    BY <1>2, <1>3, <2>1 DEF Agree
<1>. QED
  BY <1>3, <1>5, <1>6 DEF Carried, Busy

LEMMA CarriedReplace ==
  ASSUME TypeOK, NEW C, NEW r \in Records, stack' = Replace(r), Carried(C),
         Busy(r) => Busy(Top), Top \notin C
  PROVE  Carried(C)'
<1>1. Len(stack) \in Nat \ {0}
  BY TopKinds
<1>2. Len(stack') = Len(stack) /\ Agree(Len(stack) - 1) /\ stack'[Len(stack)] = r
  BY <1>1, ReplaceStack DEF TypeOK
<1>3. PICK i \in 1 .. Len(stack) :
        stack[i] \in C /\ \A j \in (i + 1) .. Len(stack) : ~Busy(stack[j])
  BY DEF Carried
<1>4. i # Len(stack)
  BY <1>3 DEF Top
<1>5. i \in 1 .. Len(stack') /\ stack'[i] = stack[i]
  BY <1>1, <1>2, <1>4 DEF Agree
<1>6. ~Busy(r)
  BY BusyTop
<1>7. ASSUME NEW j \in (i + 1) .. Len(stack')
      PROVE  ~Busy(stack'[j])
  <2>1. j \in (i + 1) .. Len(stack) /\ (j = Len(stack) \/ j \in 1 .. Len(stack) - 1)
    BY <1>1, <1>2, <1>3
  <2>. QED
    BY <1>2, <1>3, <1>6, <2>1 DEF Agree
<1>. QED
  BY <1>3, <1>5, <1>7 DEF Carried, Busy

LEMMA CarriedReplacePush ==
  ASSUME TypeOK, NEW C, NEW r \in Records, NEW q \in Records, stack' = Append(Replace(r), q),
         \/ q \in C
         \/ Carried(C) /\ Top \notin C /\ (Busy(r) => Busy(Top)) /\ ~Busy(q)
  PROVE  Carried(C)'
<1>. DEFINE n == Len(stack)
<1>1. /\ n \in Nat \ {0} /\ Len(stack') = n + 1 /\ Agree(n - 1)
      /\ stack'[n] = r /\ stack'[n + 1] = q
  BY TopKinds, ReplacePushStack DEF TypeOK
<1>2. CASE q \in C
  <2>1. n + 1 \in 1 .. Len(stack') /\ \A j \in (n + 1 + 1) .. Len(stack') : FALSE
    BY <1>1
  <2>2. stack'[n + 1] \in C
    BY <1>1, <1>2
  <2>. QED
    BY <2>1, <2>2 DEF Carried
<1>3. CASE Carried(C) /\ Top \notin C /\ (Busy(r) => Busy(Top)) /\ ~Busy(q)
  <2>1. PICK i \in 1 .. n :
          stack[i] \in C /\ \A j \in (i + 1) .. n : ~Busy(stack[j])
    BY <1>3 DEF Carried
  <2>2. i # n
    BY <1>3, <2>1 DEF Top
  <2>3. i \in 1 .. Len(stack') /\ stack'[i] = stack[i]
    BY <1>1, <2>2 DEF Agree
  <2>4. ~Busy(r)
    BY <1>3, BusyTop
  <2>5. ASSUME NEW j \in (i + 1) .. Len(stack')
        PROVE  ~Busy(stack'[j])
    <3>1. j = n + 1 \/ j = n \/ (j \in (i + 1) .. n /\ j \in 1 .. n - 1)
      BY <1>1, <2>1
    <3>. QED
      BY <1>1, <1>3, <2>1, <2>4, <3>1 DEF Agree
  <2>. QED
    BY <2>1, <2>3, <2>5 DEF Carried, Busy
<1>. QED
  BY <1>2, <1>3

-------------------------------------------------------------------------------
(* InterruptNotLost.                                                       *)

\* The activations that are on their way to the handler of signal s.
Carriers(s) ==
  {r \in Records : /\ \/ r.k = "main" /\ r.pc = "entry"
                      \/ r.k = "invoke" /\ r.pc = "save"
                   /\ r.sig = s}

KeptInv == INT \in owed => INT \in kpend \cup pending \/ Carried(Carriers(INT))

\* Nothing below Lisp code carries the interrupt, so that it does not matter what
\* Lisp code does to the stack.
LEMMA KeptLisp ==
  ASSUME TypeOK, KeptInv, Lisp
  PROVE  KeptInv'
<1>1. kpend' = kpend /\ pending' = pending /\ owed' = owed
  BY DEF Lisp, PushFrame, PopFrame, Throw, BeginRegion, EndRegion, GentempRetry, BeginRead,
         EndRead, Allocate, HandlerReturns, flags, kernel, ghost
<1>2. CASE EndRead
  <2>1. Pop /\ Top \notin Carriers(INT)
    BY <1>2 DEF EndRead, Carriers
  <2>. QED
    BY <1>1, <2>1, CarriedPop DEF KeptInv
<1>3. CASE ~EndRead
  <2>1. InLisp \/ Top.k \in {"frame", "region"} \/ At("invoke", "lisp")
    BY <1>3 DEF Lisp, PushFrame, PopFrame, Throw, BeginRegion, EndRegion, GentempRetry,
                BeginRead, Allocate, HandlerReturns
  <2>2. Busy(Top) /\ Top \notin Carriers(INT)
    BY <2>1 DEF InLisp, At, Busy, Carriers
  <2>. QED
    BY <1>1, <2>2, BusyTop DEF KeptInv
<1>. QED
  BY <1>2, <1>3

LEMMA KeptKernel ==
  ASSUME TypeOK, KeptInv, Kernel
  PROVE  KeptInv'
<1>1. ASSUME NEW s \in Signals \ {ALRM}, Send(s)
      PROVE  KeptInv'
  BY <1>1 DEF Send, KeptInv, flags, Carried, Carriers, Busy
<1>2. CASE AlarmFires
  BY <1>2 DEF AlarmFires, KeptInv, flags, ghost, Carried, Carriers, Busy
<1>3. ASSUME NEW s \in Signals, Deliver(s)
      PROVE  KeptInv'
  <2>. DEFINE r == Main(s)
  <2>1. r \in Records
    BY LevelsTyped DEF Main, Records, Mains, TypeOK
  <2>2. ~Busy(r) /\ (s = INT => r \in Carriers(INT))
    BY <2>1 DEF Main, Busy, Carriers
  <2>3. Push(r) /\ kpend' = kpend \ {s} /\ pending' = pending /\ owed' = owed
    BY <1>3 DEF Deliver, flags, ghost
  <2>. HIDE DEF r
  <2>4. CASE s = INT
    BY <2>1, <2>2, <2>3, <2>4, CarriedPush DEF KeptInv
  <2>5. CASE s # INT
    BY <2>1, <2>2, <2>3, <2>5, CarriedPush DEF KeptInv
  <2>. QED
    BY <2>4, <2>5
<1>. QED
  BY <1>1, <1>2, <1>3 DEF Kernel

LEMMA KeptMain ==
  ASSUME TypeOK, KeptInv, MainAllow \/ MainDelay \/ MainArm \/ MainReturn
  PROVE  KeptInv'
<1>. Top \in Records /\ (Top.k = "main" => Top \in Mains)
  BY TopKinds, KindOf
<1>1. CASE MainAllow
  <2>. DEFINE r == [Top EXCEPT !.pc = "called", !.lev = allowed]
              q == Invoke(Top.sig, allowed)
  <2>1. Top \in Mains /\ Top.k = "main" /\ stack' = Append(Replace(r), q)
    BY <1>1 DEF MainAllow, At
  <2>2. r \in Records /\ r.k = "main"
    BY <2>1 DEF Records, Mains, TypeOK
  <2>3. q \in Records /\ q.k = "invoke" /\ q.pc = "save" /\ q.sig = Top.sig
    BY <2>1 DEF Invoke, Records, Invokes, Mains, TypeOK
  <2>4. kpend' = kpend /\ pending' = pending /\ owed' = owed
    BY <1>1 DEF MainAllow, ghost
  <2>. HIDE DEF r, q
  <2>5. /\ ~Busy(r) /\ ~Busy(q) /\ (Top.sig = INT => q \in Carriers(INT))
        /\ (Top.sig # INT => Top \notin Carriers(INT))
    BY <2>2, <2>3 DEF Busy, Carriers
  <2>6. Carried(Carriers(INT)) => Carried(Carriers(INT))'
    BY <2>1, <2>2, <2>3, <2>5, CarriedReplacePush
  <2>. QED
    BY <2>4, <2>6 DEF KeptInv
<1>2. CASE MainDelay
  <2>. DEFINE r == [Top EXCEPT !.pc = "arm"]
  <2>1. Top \in Mains /\ Top.k = "main" /\ stack' = Replace(r)
    BY <1>2 DEF MainDelay, At, Goto
  <2>2. r \in Records /\ r.k = "main"
    BY <2>1 DEF Records, Mains
  <2>3. kpend' = kpend /\ pending' = pending \cup {Top.sig} /\ owed' = owed
    BY <1>2 DEF MainDelay, kernel, ghost
  <2>. HIDE DEF r
  <2>4. ~Busy(r) /\ (Top.sig # INT => Top \notin Carriers(INT))
    BY <2>2 DEF Busy, Carriers
  <2>5. CASE Top.sig = INT
    BY <2>3, <2>5 DEF KeptInv
  <2>6. CASE Top.sig # INT
    BY <2>1, <2>2, <2>3, <2>4, <2>6, CarriedReplace DEF KeptInv
  <2>. QED
    BY <2>5, <2>6
<1>3. CASE MainArm \/ MainReturn
  <2>1. Pop /\ Top \notin Carriers(INT)
    BY <1>3 DEF MainArm, MainReturn, At, Carriers
  <2>2. kpend' = kpend /\ pending' = pending /\ owed' = owed
    BY <1>3 DEF MainArm, MainReturn, flags, ghost
  <2>. QED
    BY <2>1, <2>2, CarriedPop DEF KeptInv
<1>. QED
  BY <1>1, <1>2, <1>3

\* The handler of SIGALRM does not call Lisp but through SIGINT's.
LEMMA KeptInvoke ==
  ASSUME UserSignals = {}, TypeOK, KeptInv,
         \/ InvokeCall \/ HandlerUnblock \/ SigintCallsLisp \/ SigalrmRaises
         \/ InvokeLeave \/ InvokeReturn
  PROVE  KeptInv'
<1>1. Top \in Invokes /\ Top.k = "invoke" /\ Top.sig \in {INT, ALRM} /\ INT # ALRM
  <2>1. Top \in Records /\ Top.k = "invoke"
    BY TopKinds DEF InvokeCall, HandlerUnblock, SigintCallsLisp, SigalrmRaises, InvokeLeave,
                    InvokeReturn, At
  <2>2. Top \in Invokes
    BY <2>1, KindOf
  <2>. QED
    BY <2>1, <2>2, SignalsAssumption DEF Invokes, Signals
<1>2. kpend' = kpend
  BY DEF InvokeCall, HandlerUnblock, SigintCallsLisp, SigalrmRaises, InvokeLeave, InvokeReturn,
         kernel
<1>. DEFINE r(p) == [Top EXCEPT !.pc = p]
<1>3. \A p \in {"unblocked", "lisp", "returned", "restore"} :
        /\ r(p) \in Records /\ r(p).k = "invoke" /\ r(p).pc = p /\ r(p).sig = Top.sig
  BY <1>1 DEF Records, Invokes
<1>. HIDE DEF r
<1>4. CASE InvokeCall
  <2>. DEFINE c == [Top EXCEPT !.pc = IF Top.sig \in UserSignals THEN "lisp" ELSE "handler",
                               !.ish = inHandler]
  <2>1. stack' = Replace(c) /\ pending' = pending \ {Top.sig} /\ owed' = owed \ {Top.sig}
    BY <1>4 DEF InvokeCall
  <2>2. c \in Records /\ c.k = "invoke" /\ c.pc = "handler" /\ c.sig = Top.sig
    BY <1>1 DEF Records, Invokes, TypeOK
  <2>. HIDE DEF c
  <2>3. CASE Top.sig = INT
    BY <2>1, <2>3 DEF KeptInv
  <2>4. CASE Top.sig = ALRM
    <3>1. ~Busy(c) /\ Top \notin Carriers(INT)
      BY <1>1, <2>2, <2>4 DEF Busy, Carriers
    <3>. QED
      BY <1>1, <1>2, <2>1, <2>2, <2>4, <3>1, CarriedReplace DEF KeptInv
  <2>. QED
    BY <1>1, <2>3, <2>4
<1>5. CASE HandlerUnblock \/ SigintCallsLisp \/ InvokeLeave
  <2>1. PICK p \in {"unblocked", "lisp", "restore"} :
          stack' = Replace(r(p)) /\ (p = "lisp" => Top.sig = INT)
    BY <1>5 DEF HandlerUnblock, SigintCallsLisp, InvokeLeave, Goto, r
  <2>2. pending' = pending /\ owed' = owed
    BY <1>5 DEF HandlerUnblock, SigintCallsLisp, InvokeLeave, flags, kernel, ghost
  <2>3. Top.pc # "save"
    BY <1>5 DEF HandlerUnblock, SigintCallsLisp, InvokeLeave, At
  <2>4. Top \notin Carriers(INT) /\ (Busy(r(p)) => Busy(Top))
    BY <1>1, <1>3, <2>1, <2>3 DEF Carriers, Busy
  <2>. QED
    BY <1>2, <1>3, <2>1, <2>2, <2>4, CarriedReplace DEF KeptInv
<1>6. CASE SigalrmRaises
  <2>. DEFINE q == Raise(sig_try_to_delay)
  <2>1. stack' = Append(Replace(r("returned")), q) /\ Top.sig = ALRM
    BY <1>6 DEF SigalrmRaises, r
  <2>2. q \in Records /\ q.k = "raise"
    BY LevelsTyped DEF Raise, Records, Raises, TypeOK
  <2>3. pending' = pending /\ owed' = owed
    BY <1>6 DEF SigalrmRaises, flags, ghost
  <2>. HIDE DEF q
  <2>4. Top \notin Carriers(INT) /\ ~Busy(r("returned")) /\ ~Busy(q)
    BY <1>1, <1>3, <2>1, <2>2 DEF Carriers, Busy
  <2>. QED
    BY <1>2, <1>3, <2>1, <2>2, <2>3, <2>4, CarriedReplacePush DEF KeptInv
<1>7. CASE InvokeReturn
  <2>1. Pop /\ Top \notin Carriers(INT) /\ pending' = pending /\ owed' = owed
    BY <1>7 DEF InvokeReturn, At, Carriers, flags, ghost
  <2>. QED
    BY <1>2, <2>1, CarriedPop DEF KeptInv
<1>. QED
  BY <1>4, <1>5, <1>6, <1>7

LEMMA KeptRaise ==
  ASSUME TypeOK, KeptInv, RaiseScan \/ RaiseNext \/ RaiseReturn
  PROVE  KeptInv'
<1>1. Top \in Raises /\ Top.k = "raise" /\ Top \notin Carriers(INT)
  <2>1. Top \in Records /\ Top.k = "raise"
    BY TopKinds DEF RaiseScan, RaiseNext, RaiseReturn, At
  <2>. QED
    BY <2>1, KindOf DEF Carriers
<1>2. kpend' = kpend /\ owed' = owed
  BY DEF RaiseScan, RaiseNext, RaiseReturn, kernel, ghost
<1>3. CASE RaiseScan
  <2>. DEFINE r == [Top EXCEPT !.snap = pending, !.pc = "check"]
  <2>1. r \in Records /\ r.k = "raise"
    BY <1>1 DEF Records, Raises, TypeOK
  <2>2. stack' = Replace(r) /\ pending' = pending
    BY <1>3 DEF RaiseScan, flags
  <2>. HIDE DEF r
  <2>3. ~Busy(r)
    BY <2>1 DEF Busy
  <2>. QED
    BY <1>1, <1>2, <2>1, <2>2, <2>3, CarriedReplace DEF KeptInv
<1>4. CASE RaiseNext
  <2>. DEFINE r == [Top EXCEPT !.pc = "scan"]
  <2>1. r \in Records /\ r.k = "raise"
    BY <1>1 DEF Records, Raises
  <2>2. PICK s \in Ready : /\ pending' = pending \ {s}
                           /\ \/ s = ALRM /\ stack' = Replace(r)
                              \/ stack' = Append(Replace(r), Invoke(s, Top.cond))
    BY <1>4 DEF RaiseNext, Goto
  <2>. DEFINE q == Invoke(s, Top.cond)
  <2>3. q \in Records /\ q.k = "invoke" /\ q.pc = "save" /\ q.sig = s
    BY <1>1, <2>2, LevelsTyped DEF Invoke, Records, Invokes, Raises, Ready, TypeOK
  <2>. HIDE DEF r, q
  <2>4. ~Busy(r) /\ ~Busy(q) /\ (s = INT => q \in Carriers(INT))
    BY <2>1, <2>3 DEF Busy, Carriers
  <2>5. CASE s = ALRM /\ stack' = Replace(r)
    <3>1. Carried(Carriers(INT)) => Carried(Carriers(INT))'
      BY <1>1, <2>1, <2>4, <2>5, CarriedReplace
    <3>. QED
      BY <1>2, <2>2, <2>5, <3>1, SignalsAssumption DEF KeptInv
  <2>6. CASE stack' = Append(Replace(r), q)
    <3>1. Carried(Carriers(INT)) \/ s = INT => Carried(Carriers(INT))'
      BY <1>1, <2>1, <2>3, <2>4, <2>6, CarriedReplacePush
    <3>. QED
      BY <1>2, <2>2, <3>1 DEF KeptInv
  <2>. QED
    BY <2>2, <2>5, <2>6 DEF q
<1>5. CASE RaiseReturn
  BY <1>1, <1>2, <1>5, CarriedPop DEF RaiseReturn, KeptInv
<1>. QED
  BY <1>3, <1>4, <1>5

\* Unless the program has a handler of SIGUSR1 or SIGIO, an interrupt reaches its handler
\* whatever is delayed, nested and thrown, for any number of interrupts and any depth.
THEOREM InterruptKept == UserSignals = {} => (Spec => []InterruptNotLost)
<1>. SUFFICES ASSUME UserSignals = {} PROVE Spec => []InterruptNotLost
  OBVIOUS
<1>1. Init => KeptInv
  BY DEF Init, KeptInv
<1>2. TypeOK /\ KeptInv /\ [Next]_vars => KeptInv'
  <2>1. UNCHANGED vars /\ KeptInv => KeptInv'
    BY DEF vars, KeptInv, Carried, Carriers, Busy
  <2>. QED
    BY <2>1, KeptLisp, KeptKernel, KeptMain, KeptInvoke, KeptRaise DEF Next, Delivery
<1>3. TypeOK /\ KeptInv => InterruptNotLost
  <2>1. TypeOK => DOMAIN stack = 1 .. Len(stack)
    BY LenProperties DEF TypeOK
  <2>. QED
    BY <2>1 DEF KeptInv, Carried, Carriers, InterruptNotLost, OnItsWay
<1>. QED
  BY InitTyped, StepTyped, <1>1, <1>2, <1>3, PTL DEF Spec
-------------------------------------------------------------------------------
(* SignalsTransparent.                                                     *)

\* What Lisp code does to the stack, by the kind of the record it does it to.
LEMMA LispShape ==
  ASSUME TypeOK, Lisp, \A t \in DOMAIN stack : ~Throw(t)
  PROVE  /\ Top.k \in {"frame", "region", "read"} \/ At("invoke", "lisp")
         /\ \/ \E r \in Records : Push(r)
            \/ Pop
            \/ \E r \in Records : r.k = Top.k /\ stack' = Replace(r)
<1>1. CASE \E c \in {"catch", "protect"} : PushFrame(c)
  <2>1. PICK c \in {"catch", "protect"} : PushFrame(c)
    BY <1>1
  <2>2. Frame(c) \in Records
    BY DEF Frame, Records, Frames, TypeOK
  <2>. QED
    BY <2>1, <2>2 DEF PushFrame, InLisp
<1>2. CASE \E g \in Collisions : BeginRegion(g)
  <2>1. PICK g \in Collisions : BeginRegion(g)
    BY <1>2
  <2>2. Region(g) \in Records
    BY CollisionsAssumption DEF Region, Records, Regions, TypeOK
  <2>. QED
    BY <2>1, <2>2 DEF BeginRegion, InLisp
<1>3. CASE BeginRead
  <2>1. Read \in Records
    BY DEF Read, Records, Reads, TypeOK
  <2>. QED
    BY <1>3, <2>1 DEF BeginRead, InLisp
<1>4. CASE Allocate
  <2>1. Raise(sig_safe) \in Records
    BY LevelsTyped DEF Raise, Records, Raises, TypeOK
  <2>. QED
    BY <1>4, <2>1 DEF Allocate, InLisp
<1>5. CASE PopFrame \/ EndRegion \/ EndRead
  BY <1>5 DEF PopFrame, EndRegion, EndRead
<1>6. CASE GentempRetry
  <2>1. Top \in Regions
    BY <1>6, TopKinds, KindOf DEF GentempRetry
  <2>2. [Top EXCEPT !.old = allowed] \in Records /\ [Top EXCEPT !.old = allowed].k = Top.k
    BY <2>1 DEF Records, Regions, TypeOK
  <2>. QED
    BY <1>6, <2>2 DEF GentempRetry
<1>7. CASE HandlerReturns
  BY <1>7, GotoTyped DEF HandlerReturns, At, Goto
<1>. QED
  BY <1>1, <1>2, <1>3, <1>4, <1>5, <1>6, <1>7 DEF Lisp

\* What the functions of signal delivery do to the stack.
LEMMA DeliveryShape ==
  ASSUME TypeOK, Delivery
  PROVE  \/ Top.k # "frame" /\ Pop
         \/ \E r \in Records : r.k = Top.k /\ stack' = Replace(r)
         \/ \E r, q \in Records : /\ r.k = Top.k /\ stack' = Append(Replace(r), q)
                                  /\ \/ r.k = "main" /\ r.pc = "called"
                                     \/ "raise" \in {r.k, q.k}
<1>1. CASE MainAllow
  <2>. DEFINE r == [Top EXCEPT !.pc = "called", !.lev = allowed]
              q == Invoke(Top.sig, allowed)
  <2>1. Top \in Mains
    BY <1>1, TopKinds, KindOf DEF MainAllow, At
  <2>2. r \in Records /\ r.k = Top.k /\ r.k = "main" /\ r.pc = "called" /\ q \in Records
    BY <2>1 DEF Records, Mains, Invoke, Invokes, TypeOK
  <2>3. stack' = Append(Replace(r), q)
    BY <1>1 DEF MainAllow
  <2>. HIDE DEF r, q
  <2>. QED
    BY <2>2, <2>3
<1>2. CASE MainDelay \/ HandlerUnblock \/ SigintCallsLisp \/ InvokeLeave
  BY <1>2, GotoTyped DEF MainDelay, HandlerUnblock, SigintCallsLisp, InvokeLeave, At, Goto
<1>3. CASE MainArm \/ MainReturn \/ InvokeReturn \/ RaiseReturn
  BY <1>3 DEF MainArm, MainReturn, InvokeReturn, RaiseReturn, At
<1>4. CASE InvokeCall
  <2>. DEFINE r == [Top EXCEPT !.pc = IF Top.sig \in UserSignals THEN "lisp" ELSE "handler",
                               !.ish = inHandler]
  <2>1. Top \in Invokes
    BY <1>4, TopKinds, KindOf DEF InvokeCall, At
  <2>2. r \in Records /\ r.k = Top.k
    BY <2>1 DEF Records, Invokes, TypeOK
  <2>. HIDE DEF r
  <2>. QED
    BY <1>4, <2>2 DEF InvokeCall, r
<1>5. CASE SigalrmRaises
  <2>. DEFINE r == [Top EXCEPT !.pc = "returned"]
              q == Raise(sig_try_to_delay)
  <2>1. r \in Records /\ r.k = Top.k
    BY <1>5, GotoTyped DEF SigalrmRaises, At
  <2>2. q \in Records /\ q.k = "raise"
    BY LevelsTyped DEF Raise, Records, Raises, TypeOK
  <2>. HIDE DEF r, q
  <2>. QED
    BY <1>5, <2>1, <2>2 DEF SigalrmRaises, r, q
<1>6. CASE RaiseScan
  <2>. DEFINE r == [Top EXCEPT !.snap = pending, !.pc = "check"]
  <2>1. Top \in Raises
    BY <1>6, TopKinds, KindOf DEF RaiseScan, At
  <2>2. r \in Records /\ r.k = Top.k
    BY <2>1 DEF Records, Raises, TypeOK
  <2>. HIDE DEF r
  <2>. QED
    BY <1>6, <2>2 DEF RaiseScan, r
<1>7. CASE RaiseNext
  <2>. DEFINE r == [Top EXCEPT !.pc = "scan"]
  <2>1. Top \in Raises /\ r \in Records /\ r.k = Top.k /\ r.k = "raise"
    BY <1>7, TopKinds, KindOf, GotoTyped DEF RaiseNext, At, Raises
  <2>2. PICK s \in Ready : \/ stack' = Replace(r)
                          \/ stack' = Append(Replace(r), Invoke(s, Top.cond))
    BY <1>7 DEF RaiseNext, Goto
  <2>3. Invoke(s, Top.cond) \in Records
    BY <2>1, <2>2, LevelsTyped DEF Invoke, Records, Invokes, Raises, Ready, TypeOK
  <2>. HIDE DEF r
  <2>. QED
    BY <2>1, <2>2, <2>3
<1>. QED
  BY <1>1, <1>2, <1>3, <1>4, <1>5, <1>6, <1>7 DEF Delivery

\* On top of an activation of main_signal_handler that has not called its handler there
\* are only others, up to one that has.
NestInv ==
  \A j \in 1 .. Len(stack), i \in 1 .. Len(stack) :
    i < j /\ stack[i].k = "main" /\ (\A m \in i .. j : ~Restores(m)) => stack[j].k = "main"

LEMMA NestCut ==
  ASSUME NestInv, NEW n \in Nat, n <= Len(stack), Len(stack) \in Nat,
         Len(stack') = n, Agree(n)
  PROVE  NestInv'
<1>. SUFFICES ASSUME NEW j \in 1 .. n, NEW i \in 1 .. n, i < j, stack[i].k = "main",
                     \A m \in i .. j : ~Restores(m)'
              PROVE  stack[j].k = "main"
  BY DEF NestInv, Agree
<1>1. \A m \in i .. j : m \in 1 .. n
  OBVIOUS
<1>2. \A m \in i .. j : ~Restores(m)
  BY <1>1 DEF Restores, Agree
<1>. QED
  BY <1>2 DEF NestInv

\* Adding one record to a stack that NestInv holds for.
LEMMA NestPush ==
  ASSUME TypeOK, NestInv, NEW r \in Records, Push(r),
         r.k = "main" \/ Top.k # "main" \/ Top.pc = "called"
  PROVE  NestInv'
<1>. DEFINE n == Len(stack)
<1>1. n \in Nat \ {0} /\ Len(stack') = n + 1 /\ Agree(n) /\ stack'[n + 1] = r
  BY TopKinds, PushStack DEF TypeOK
<1>. SUFFICES ASSUME NEW j \in 1 .. n + 1, NEW i \in 1 .. n + 1, i < j, stack'[i].k = "main",
                     \A m \in i .. j : ~Restores(m)'
              PROVE  stack'[j].k = "main"
  BY <1>1 DEF NestInv
<1>2. \A m \in i .. j : m \in 1 .. n => ~Restores(m)
  BY <1>1 DEF Restores, Agree
<1>3. CASE j \in 1 .. n
  BY <1>1, <1>2, <1>3 DEF NestInv, Agree
<1>4. CASE j = n + 1
  <2>1. i \in 1 .. n /\ n \in 1 .. n /\ n \in i .. j /\ \A m \in i .. n : m \in i .. j /\ m \in 1 .. n
    BY <1>1, <1>4
  <2>2. stack[n].k = "main" /\ ~Restores(n)
    <3>1. stack[i].k = "main"
      BY <1>1, <2>1 DEF Agree
    <3>. QED
      BY <1>2, <2>1, <3>1 DEF NestInv
  <2>. QED
    BY <1>1, <1>4, <2>2 DEF Restores, Top
<1>. QED
  BY <1>1, <1>3, <1>4

LEMMA NestReplace ==
  ASSUME TypeOK, NestInv, NEW r \in Records, stack' = Replace(r), r.k = Top.k
  PROVE  NestInv'
<1>. DEFINE n == Len(stack)
<1>1. n \in Nat \ {0} /\ Len(stack') = n /\ Agree(n - 1) /\ stack'[n] = r
  BY TopKinds, ReplaceStack DEF TypeOK
<1>. SUFFICES ASSUME NEW j \in 1 .. n, NEW i \in 1 .. n, i < j, stack'[i].k = "main",
                     \A m \in i .. j : ~Restores(m)', stack'[j].k # "main"
              PROVE  FALSE
  BY <1>1 DEF NestInv
<1>2. \A m \in 1 .. n : stack'[m].k = stack[m].k /\ (m < n => stack'[m] = stack[m])
  BY <1>1 DEF Agree, Top
<1>3. \A m \in i .. j : m \in 1 .. n
  OBVIOUS
<1>4. stack[j].k # "main" /\ stack[i].k = "main"
  BY <1>2
<1>5. ASSUME NEW m \in i .. j
      PROVE  ~Restores(m)
  <2>1. CASE m < n
    BY <1>2, <1>3, <2>1 DEF Restores
  <2>2. CASE m = n
    <3>1. m = j
      BY <1>1, <2>2
    <3>. QED
      BY <1>2, <1>4, <3>1 DEF Restores
  <2>. QED
    BY <1>1, <1>3, <2>1, <2>2
<1>. QED
  BY <1>4, <1>5 DEF NestInv

LEMMA NestReplacePush ==
  ASSUME TypeOK, NestInv, NEW r \in Records, NEW q \in Records, r.k = Top.k,
         stack' = Append(Replace(r), q),
         (r.k = "main" /\ r.pc = "called") \/ "raise" \in {r.k, q.k}
  PROVE  NestInv'
<1>. DEFINE n == Len(stack)
<1>1. /\ n \in Nat \ {0} /\ Len(stack') = n + 1 /\ Agree(n - 1)
      /\ stack'[n] = r /\ stack'[n + 1] = q
  BY TopKinds, ReplacePushStack DEF TypeOK
<1>. SUFFICES ASSUME NEW j \in 1 .. n + 1, NEW i \in 1 .. n + 1, i < j, stack'[i].k = "main",
                     \A m \in i .. j : ~Restores(m)', stack'[j].k # "main"
              PROVE  FALSE
  BY <1>1 DEF NestInv
<1>2. \A m \in i .. j : /\ stack'[m].k # "raise"
                        /\ stack'[m].k = "main" => stack'[m].pc # "called"
  BY DEF Restores
<1>3. j # n + 1
  <2>1. j = n + 1 => n \in i .. j /\ n + 1 \in i .. j
    BY <1>1
  <2>. QED
    BY <1>1, <1>2, <2>1
<1>4. \A m \in 1 .. n : stack'[m].k = stack[m].k /\ (m < n => stack'[m] = stack[m])
  BY <1>1 DEF Agree, Top
<1>5. j \in 1 .. n /\ i \in 1 .. n /\ \A m \in i .. j : m \in 1 .. n
  BY <1>1, <1>3
<1>6. stack[j].k # "main" /\ stack[i].k = "main"
  BY <1>4, <1>5
<1>7. ASSUME NEW m \in i .. j
      PROVE  ~Restores(m)
  <2>1. CASE m < n
    BY <1>4, <1>5, <2>1 DEF Restores
  <2>2. CASE m = n
    <3>1. m = j
      BY <1>1, <1>5, <2>2
    <3>. QED
      BY <1>4, <1>5, <1>6, <3>1 DEF Restores
  <2>. QED
    BY <1>1, <1>5, <2>1, <2>2
<1>. QED
  BY <1>5, <1>6, <1>7 DEF NestInv

LEMMA NestStep ==
  ASSUME TypeOK, NestInv, [Next]_vars
  PROVE  NestInv'
<1>1. Len(stack) \in Nat \ {0} /\ DOMAIN stack = 1 .. Len(stack)
  BY TopKinds, LenProperties DEF TypeOK
<1>2. ASSUME Pop
      PROVE  NestInv'
  <2>1. /\ Len(stack) - 1 \in 0 .. Len(stack)
        /\ Len(stack) - 1 \in Nat /\ Len(stack) - 1 <= Len(stack)
    BY <1>1
  <2>2. Len(stack') = Len(stack) - 1 /\ Agree(Len(stack) - 1)
    BY <1>2, <2>1, CutStack DEF TypeOK, Pop
  <2>. QED
    BY <1>1, <2>1, <2>2, NestCut
<1>3. ASSUME NEW t \in DOMAIN stack, Throw(t)
      PROVE  NestInv'
  <2>1. t \in 0 .. Len(stack) /\ t \in Nat /\ t <= Len(stack)
    BY <1>1
  <2>2. Len(stack') = t /\ Agree(t)
    BY <1>3, <2>1, CutStack DEF TypeOK, Throw
  <2>. QED
    BY <1>1, <2>1, <2>2, NestCut
<1>4. CASE Lisp /\ \A t \in DOMAIN stack : ~Throw(t)
  BY <1>2, <1>4, LispShape, NestPush, NestReplace DEF At
<1>5. CASE Kernel
  <2>1. ASSUME NEW s \in Signals, Deliver(s)
        PROVE  NestInv'
    <3>1. Main(s) \in Records /\ Main(s).k = "main" /\ Push(Main(s))
      BY <2>1, LevelsTyped DEF Deliver, Main, Records, Mains, TypeOK
    <3>. QED
      BY <3>1, NestPush
  <2>2. UNCHANGED stack => NestInv'
    BY DEF NestInv, Restores
  <2>. QED
    BY <1>5, <2>1, <2>2 DEF Kernel, Send, AlarmFires
<1>6. CASE Delivery
  BY <1>2, <1>6, DeliveryShape, NestReplace, NestReplacePush
<1>7. CASE UNCHANGED vars
  BY <1>7 DEF vars, NestInv, Restores
<1>. QED
  BY <1>3, <1>4, <1>5, <1>6, <1>7 DEF Next
\* The level a still standing restorer has saved is the level that will be found.
LEMMA ResumesKept ==
  ASSUME Len(stack) \in Nat, Len(stack') \in Nat, NEW i \in 1 .. Len(stack), NEW l,
         NEW j \in (i + 1) .. Len(stack), Restores(j), stack[j].lev = l,
         \A m \in (i + 1) .. (j - 1) : ~Restores(m),
         j <= Len(stack'), Agree(j)
  PROVE  i <= Len(stack') /\ Resumes(i, l)'
<1>1. j \in (i + 1) .. Len(stack') /\ j \in 1 .. j /\ i <= Len(stack')
  OBVIOUS
<1>2. Restores(j)' /\ stack'[j].lev = l
  BY <1>1 DEF Restores, Agree
<1>3. ASSUME NEW m \in (i + 1) .. (j - 1)
      PROVE  ~Restores(m)'
  <2>1. m \in 1 .. j
    OBVIOUS
  <2>. QED
    BY <2>1 DEF Restores, Agree
<1>. QED
  BY <1>1, <1>2, <1>3 DEF Resumes

\* Interrupted code is told apart by what is on top: a restorer that stands, or nothing but
\* activations of main_signal_handler that have not called a handler.
LEMMA RestorerOrMain ==
  ASSUME TypeOK, NestInv, NEW i \in DOMAIN stack, NEW l \in Levels, Interrupted(i), Resumes(i, l)
  PROVE  \/ \E j \in (i + 1) .. Len(stack) :
              /\ Restores(j) /\ stack[j].lev = l
              /\ \A m \in (i + 1) .. (j - 1) : ~Restores(m)
         \/ /\ Top.k = "main" /\ Top.pc # "called" /\ allowed = l
            /\ \A j \in (i + 1) .. Len(stack) : ~Restores(j)
<1>1. Len(stack) \in Nat \ {0} /\ i \in 1 .. Len(stack) /\ i < Len(stack)
  BY TopKinds, LenProperties DEF TypeOK, Interrupted
<1>. SUFFICES ASSUME allowed = l, \A j \in (i + 1) .. Len(stack) : ~Restores(j)
              PROVE  Top.k = "main" /\ Top.pc # "called"
  BY DEF Resumes
<1>2. i + 1 \in 1 .. Len(stack) /\ Len(stack) \in (i + 1) .. Len(stack) /\ Len(stack) \in 1 .. Len(stack)
  BY <1>1
<1>3. i + 1 \in (i + 1) .. Len(stack)
  BY <1>1
<1>4. stack[i + 1].k = "main"
  BY <1>3 DEF Interrupted, Restores
<1>5. Top.k = "main"
  <2>1. CASE i + 1 = Len(stack)
    BY <1>4, <2>1 DEF Top
  <2>2. CASE i + 1 < Len(stack)
    BY <1>2, <1>4, <2>2 DEF NestInv, Top
  <2>. QED
    BY <1>1, <2>1, <2>2
<1>6. ~Restores(Len(stack))
  BY <1>2
<1>. QED
  BY <1>5, <1>6 DEF Restores, Top

\* A step of an activation that is no restorer disturbs nothing below itself.
LEMMA TransparentOther ==
  ASSUME TypeOK, NestInv, NEW i \in DOMAIN stack, NEW l \in Levels, Interrupted(i), Resumes(i, l),
         Top.k \notin {"main", "raise"}, Len(stack') \in Nat, Len(stack) - 1 <= Len(stack'),
         Agree(Len(stack) - 1)
  PROVE  i <= Len(stack') /\ Resumes(i, l)'
<1>1. Len(stack) \in Nat \ {0} /\ i \in 1 .. Len(stack) /\ i < Len(stack)
  BY TopKinds, LenProperties DEF TypeOK, Interrupted
<1>2. PICK j \in (i + 1) .. Len(stack) :
        /\ Restores(j) /\ stack[j].lev = l
        /\ \A m \in (i + 1) .. (j - 1) : ~Restores(m)
  BY RestorerOrMain
<1>3. j # Len(stack)
  BY <1>2 DEF Restores, Top
<1>4. j <= Len(stack') /\ Agree(j)
  BY <1>1, <1>3 DEF Agree
<1>. QED
  BY <1>1, <1>2, <1>4, ResumesKept

\* A throw that stops above interrupted code stops above a restorer.
LEMMA TransparentThrow ==
  ASSUME TypeOK, NestInv, NEW i \in DOMAIN stack, NEW l \in Levels, Interrupted(i), Resumes(i, l),
         NEW t \in DOMAIN stack, Throw(t), t > i
  PROVE  i <= Len(stack') /\ Resumes(i, l)'
<1>1. /\ Len(stack) \in Nat \ {0} /\ i \in 1 .. Len(stack) /\ i < Len(stack)
      /\ t \in 1 .. Len(stack) /\ t \in 0 .. Len(stack)
  BY TopKinds, LenProperties DEF TypeOK, Interrupted
<1>2. Len(stack') = t /\ Agree(t)
  BY <1>1, CutStack DEF TypeOK, Throw
<1>3. Top.k # "main" /\ stack[t].k = "frame"
  BY DEF Throw, InLisp, At
<1>4. PICK j \in (i + 1) .. Len(stack) :
        /\ Restores(j) /\ stack[j].lev = l
        /\ \A m \in (i + 1) .. (j - 1) : ~Restores(m)
  BY <1>3, RestorerOrMain
<1>5. j <= t
  <2>. SUFFICES ASSUME t < j
                PROVE  FALSE
    BY <1>1
  <2>1. t \in (i + 1) .. (j - 1) /\ i + 1 \in (i + 1) .. (j - 1) /\ i + 1 \in 1 .. Len(stack)
    BY <1>1
  <2>2. stack[i + 1].k = "main"
    BY <1>4, <2>1 DEF Interrupted, Restores
  <2>3. i + 1 # t
    BY <1>3, <2>2
  <2>4. i + 1 < t /\ \A m \in (i + 1) .. t : m \in (i + 1) .. (j - 1)
    BY <1>1, <2>1, <2>3
  <2>. QED
    BY <1>1, <1>3, <1>4, <2>1, <2>2, <2>4 DEF NestInv
<1>6. j <= Len(stack') /\ Agree(j)
  BY <1>1, <1>2, <1>5 DEF Agree
<1>. QED
  BY <1>1, <1>2, <1>4, <1>6, ResumesKept

\* A new record disturbs nothing below it, whatever it is, if it leaves the level alone.
LEMMA TransparentPush ==
  ASSUME TypeOK, NEW i \in DOMAIN stack, NEW l \in Levels, Interrupted(i), Resumes(i, l),
         NEW s \in Signals, Push(Main(s)), allowed' = allowed
  PROVE  i <= Len(stack') /\ Resumes(i, l)'
<1>1. Len(stack) \in Nat \ {0} /\ i \in 1 .. Len(stack)
  BY TopKinds, LenProperties DEF TypeOK
<1>2. Main(s) \in Records /\ Main(s).k = "main" /\ Main(s).pc = "entry"
  BY LevelsTyped DEF Main, Records, Mains, TypeOK
<1>3. Len(stack') = Len(stack) + 1 /\ Agree(Len(stack)) /\ stack'[Len(stack) + 1] = Main(s)
  BY <1>2, PushStack DEF TypeOK
<1>4. CASE allowed = l /\ \A j \in (i + 1) .. Len(stack) : ~Restores(j)
  <2>1. ASSUME NEW j \in (i + 1) .. Len(stack')
        PROVE  ~Restores(j)'
    <3>1. \/ j \in (i + 1) .. Len(stack) /\ j \in 1 .. Len(stack)
          \/ j = Len(stack) + 1
      BY <1>1, <1>3
    <3>. QED
      BY <1>2, <1>3, <1>4, <3>1 DEF Restores, Agree
  <2>. QED
    BY <1>1, <1>3, <1>4, <2>1 DEF Resumes
<1>5. CASE \E j \in (i + 1) .. Len(stack) :
             /\ Restores(j) /\ stack[j].lev = l
             /\ \A m \in (i + 1) .. (j - 1) : ~Restores(m)
  <2>1. PICK j \in (i + 1) .. Len(stack) :
             /\ Restores(j) /\ stack[j].lev = l
             /\ \A m \in (i + 1) .. (j - 1) : ~Restores(m)
    BY <1>5
  <2>2. Len(stack') \in Nat /\ j <= Len(stack') /\ Agree(j)
    BY <1>1, <1>3 DEF Agree
  <2>. QED
    BY <1>1, <2>1, <2>2, ResumesKept
<1>. QED
  BY <1>4, <1>5 DEF Resumes

\* Steps of a restorer, or of an activation that becomes one: the level saved is kept.
LEMMA TransparentReplace ==
  ASSUME TypeOK, NestInv, NEW i \in DOMAIN stack, NEW l \in Levels, Interrupted(i), Resumes(i, l),
         NEW r \in Records, Len(stack') \in Nat, Len(stack) <= Len(stack'),
         Agree(Len(stack) - 1), stack'[Len(stack)] = r,
         \/ r.k = "raise" /\ Top.k = "raise" /\ r.lev = Top.lev
         \/ r.k = "main" /\ r.pc = "called" /\ r.lev = allowed /\ Top.k = "main" /\ Top.pc # "called"
  PROVE  i <= Len(stack') /\ Resumes(i, l)'
<1>. DEFINE n == Len(stack)
<1>1. n \in Nat \ {0} /\ i \in 1 .. n /\ i < n /\ n \in (i + 1) .. Len(stack')
  BY TopKinds, LenProperties DEF TypeOK, Interrupted
<1>2. CASE \E j \in (i + 1) .. (n - 1) :
             /\ Restores(j) /\ stack[j].lev = l
             /\ \A m \in (i + 1) .. (j - 1) : ~Restores(m)
  <2>1. PICK j \in (i + 1) .. (n - 1) :
             /\ Restores(j) /\ stack[j].lev = l
             /\ \A m \in (i + 1) .. (j - 1) : ~Restores(m)
    BY <1>2
  <2>2. j \in (i + 1) .. Len(stack) /\ j <= Len(stack') /\ Agree(j)
    BY <1>1 DEF Agree
  <2>. QED
    BY <1>1, <2>1, <2>2, ResumesKept
<1>3. CASE /\ r.lev = l
           /\ \A m \in (i + 1) .. (n - 1) : ~Restores(m)
  <2>1. ASSUME NEW m \in (i + 1) .. (n - 1)
        PROVE  ~Restores(m)'
    <3>1. m \in 1 .. n - 1
      BY <1>1
    <3>. QED
      BY <1>3, <3>1 DEF Restores, Agree
  <2>2. stack'[n].lev = l /\ \/ stack'[n].k = "raise"
                             \/ stack'[n].k = "main" /\ stack'[n].pc = "called"
    BY <1>3
  <2>3. \E j \in (i + 1) .. Len(stack') :
          /\ \/ stack'[j].k = "raise"
             \/ stack'[j].k = "main" /\ stack'[j].pc = "called"
          /\ stack'[j].lev = l
          /\ \A m \in (i + 1) .. (j - 1) : ~Restores(m)'
    BY <1>1, <2>1, <2>2
  <2>. QED
    BY <1>1, <2>3 DEF Resumes, Restores
<1>4. CASE /\ Restores(n) /\ stack[n].lev = l
           /\ \A m \in (i + 1) .. (n - 1) : ~Restores(m)
  <2>1. r.lev = l
    BY <1>4 DEF Restores, Top
  <2>. QED
    BY <1>3, <1>4, <2>1
<1>5. CASE /\ allowed = l /\ ~Restores(n)
           /\ \A m \in (i + 1) .. (n - 1) : ~Restores(m)
  <2>1. r.lev = l
    BY <1>5 DEF Restores, Top
  <2>. QED
    BY <1>3, <1>5, <2>1
<1>6. \A m \in (i + 1) .. (n - 1) : m \in (i + 1) .. n
  BY <1>1
<1>7. ASSUME NEW j \in (i + 1) .. n
      PROVE  j = n \/ j \in (i + 1) .. (n - 1)
  BY <1>1
<1>. QED
  BY <1>1, <1>2, <1>4, <1>5, <1>6, <1>7 DEF Resumes

\* The steps that take the level from the record on top, and that do not touch it.
LEMMA TransparentPop ==
  ASSUME TypeOK, NestInv, NEW i \in DOMAIN stack, NEW l \in Levels, Interrupted(i), Resumes(i, l),
         Pop, Restores(Len(stack)) => allowed' = Top.lev,
         ~Restores(Len(stack)) => allowed' = allowed
  PROVE  i <= Len(stack') /\ Resumes(i, l)'
<1>. DEFINE n == Len(stack)
<1>1. n \in Nat \ {0} /\ i \in 1 .. n /\ i < n /\ n - 1 \in 0 .. n
  BY TopKinds, LenProperties DEF TypeOK, Interrupted
<1>2. Len(stack') = n - 1 /\ Agree(n - 1)
  BY <1>1, CutStack DEF TypeOK, Pop
<1>3. CASE \E j \in (i + 1) .. (n - 1) :
             /\ Restores(j) /\ stack[j].lev = l
             /\ \A m \in (i + 1) .. (j - 1) : ~Restores(m)
  <2>1. PICK j \in (i + 1) .. (n - 1) :
             /\ Restores(j) /\ stack[j].lev = l
             /\ \A m \in (i + 1) .. (j - 1) : ~Restores(m)
    BY <1>3
  <2>2. /\ j \in (i + 1) .. Len(stack) /\ j <= Len(stack') /\ Agree(j)
        /\ Len(stack) \in Nat /\ Len(stack') \in Nat
    BY <1>1, <1>2 DEF Agree
  <2>. QED
    BY <1>1, <2>1, <2>2, ResumesKept
<1>4. CASE /\ allowed' = l
           /\ \A m \in (i + 1) .. (n - 1) : ~Restores(m)
  <2>1. ASSUME NEW m \in (i + 1) .. Len(stack')
        PROVE  ~Restores(m)'
    <3>1. m \in 1 .. n - 1 /\ m \in (i + 1) .. (n - 1)
      BY <1>1, <1>2
    <3>. QED
      BY <1>2, <1>4, <3>1 DEF Restores, Agree
  <2>. QED
    BY <1>1, <1>2, <1>4, <2>1 DEF Resumes
<1>5. CASE /\ Restores(n) /\ stack[n].lev = l
           /\ \A m \in (i + 1) .. (n - 1) : ~Restores(m)
  BY <1>4, <1>5 DEF Top
<1>6. CASE /\ allowed = l /\ ~Restores(n)
           /\ \A m \in (i + 1) .. (n - 1) : ~Restores(m)
  BY <1>4, <1>6
<1>7. \A m \in (i + 1) .. (n - 1) : m \in (i + 1) .. n
  BY <1>1
<1>8. ASSUME NEW j \in (i + 1) .. n
      PROVE  j = n \/ j \in (i + 1) .. (n - 1)
  BY <1>1
<1>9. n \in (i + 1) .. n
  BY <1>1
<1>. QED
  BY <1>3, <1>5, <1>6, <1>7, <1>8, <1>9 DEF Resumes

LEMMA TransparentStep ==
  ASSUME TypeOK, NestInv, [Next]_vars, NEW i \in DOMAIN stack, NEW l \in Levels,
         Interrupted(i), Resumes(i, l), \A t \in 1 .. i : ~Throw(t)
  PROVE  i <= Len(stack') /\ Resumes(i, l)'
<1>. DEFINE n == Len(stack)
<1>1. n \in Nat \ {0} /\ DOMAIN stack = 1 .. n /\ n - 1 \in 0 .. n
  BY TopKinds, LenProperties DEF TypeOK
<1>2. ASSUME NEW r \in Records, stack' = Replace(r)
      PROVE  Len(stack') = n /\ Agree(n - 1) /\ stack'[n] = r
  BY <1>1, <1>2, ReplaceStack DEF TypeOK
<1>3. ASSUME NEW r \in Records, NEW q \in Records, stack' = Append(Replace(r), q)
      PROVE  Len(stack') = n + 1 /\ Agree(n - 1) /\ stack'[n] = r
  BY <1>1, <1>3, ReplacePushStack DEF TypeOK
<1>4. ASSUME \/ Pop
             \/ \E r \in Records : Push(r)
             \/ \E r \in Records : stack' = Replace(r)
             \/ \E r, q \in Records : stack' = Append(Replace(r), q)
      PROVE  Len(stack') \in Nat /\ n - 1 <= Len(stack') /\ Agree(n - 1)
  <2>1. CASE Pop
    <3>1. Len(stack') = n - 1 /\ Agree(n - 1)
      BY <1>1, <2>1, CutStack DEF TypeOK, Pop
    <3>. QED
      BY <1>1, <3>1
  <2>2. ASSUME NEW r \in Records, Push(r)
        PROVE  Len(stack') \in Nat /\ n - 1 <= Len(stack') /\ Agree(n - 1)
    <3>1. Len(stack') = n + 1 /\ Agree(n)
      BY <2>2, PushStack DEF TypeOK
    <3>. QED
      BY <1>1, <3>1 DEF Agree
  <2>3. ASSUME NEW r \in Records, stack' = Replace(r)
        PROVE  Len(stack') \in Nat /\ n - 1 <= Len(stack') /\ Agree(n - 1)
    BY <1>1, <1>2, <2>3
  <2>4. ASSUME NEW r \in Records, NEW q \in Records, stack' = Append(Replace(r), q)
        PROVE  Len(stack') \in Nat /\ n - 1 <= Len(stack') /\ Agree(n - 1)
    <3>1. Len(stack') = n + 1 /\ Agree(n - 1)
      BY <1>3, <2>4
    <3>. QED
      BY <1>1, <3>1
  <2>. QED
    BY <1>4, <2>1, <2>2, <2>3, <2>4
<1>6. CASE UNCHANGED <<stack, allowed>>
  BY <1>1, <1>6 DEF Resumes, Restores, Interrupted
<1>7. CASE Kernel
  <2>1. ASSUME NEW s \in Signals, Deliver(s)
        PROVE  i <= Len(stack') /\ Resumes(i, l)'
    BY <2>1, TransparentPush DEF Deliver, flags
  <2>. QED
    BY <1>6, <1>7, <2>1 DEF Kernel, Send, AlarmFires, flags
<1>8. CASE Lisp /\ \A t \in DOMAIN stack : ~Throw(t)
  <2>1. Len(stack') \in Nat /\ n - 1 <= Len(stack') /\ Agree(n - 1)
    BY <1>4, <1>8, LispShape
  <2>. QED
    BY <1>8, <2>1, LispShape, TransparentOther DEF At
<1>9. ASSUME NEW t \in DOMAIN stack, Throw(t)
      PROVE  i <= Len(stack') /\ Resumes(i, l)'
  <2>1. t > i
    BY <1>1, <1>9
  <2>. QED
    BY <1>9, <2>1, TransparentThrow
<1>10. CASE Delivery /\ Top.k = "invoke"
  <2>1. Len(stack') \in Nat /\ n - 1 <= Len(stack') /\ Agree(n - 1)
    BY <1>4, <1>10, DeliveryShape
  <2>. QED
    BY <1>10, <2>1, TransparentOther
<1>11. CASE MainAllow
  <2>. DEFINE r == [Top EXCEPT !.pc = "called", !.lev = allowed]
              q == Invoke(Top.sig, allowed)
  <2>1. Top \in Mains /\ Top.k = "main" /\ Top.pc # "called"
    BY <1>11, TopKinds, KindOf DEF MainAllow, At
  <2>2. r \in Records /\ r.k = "main" /\ r.pc = "called" /\ r.lev = allowed /\ q \in Records
    BY <2>1 DEF Records, Mains, Invoke, Invokes, TypeOK
  <2>3. stack' = Append(Replace(r), q)
    BY <1>11 DEF MainAllow
  <2>. HIDE DEF r, q
  <2>4. Len(stack') = n + 1 /\ Agree(n - 1) /\ stack'[n] = r
    BY <1>3, <2>2, <2>3
  <2>5. Len(stack') \in Nat /\ n <= Len(stack')
    BY <1>1, <2>4
  <2>. QED
    BY <2>1, <2>2, <2>4, <2>5, TransparentReplace
<1>12. CASE MainDelay
  <2>. DEFINE r == [Top EXCEPT !.pc = "arm"]
  <2>1. i \in Nat /\ n \in Nat
    BY <1>1
  <2>2. Top \in Mains /\ Top.k = "main" /\ Top.pc = "entry"
    BY <1>12, TopKinds, KindOf DEF MainDelay, At
  <2>3. r \in Records /\ r.k = "main" /\ r.pc = "arm"
    BY <2>2 DEF Records, Mains
  <2>4. stack' = Replace(r) /\ allowed' = allowed
    BY <1>12 DEF MainDelay, Goto
  <2>. HIDE DEF r
  <2>5. Len(stack') = n /\ Agree(n - 1)
    BY <1>2, <2>3, <2>4
  <2>6. \A j \in 1 .. n : j # n => j \in 1 .. n - 1
    BY <2>1
  <2>7. Len(stack') = n /\ \A j \in 1 .. n : j # n => stack'[j] = stack[j]
    BY <2>5, <2>6 DEF Agree
  <2>8. \A j \in 1 .. n : stack'[j] = stack[j] \/ (j = n /\ stack'[j] = r)
    BY <1>1, <1>2, <2>3, <2>4, <2>7
  <2>9. \A j \in 1 .. n : (Restores(j)' <=> Restores(j)) /\ (Restores(j) => stack'[j] = stack[j])
    BY <2>2, <2>3, <2>8 DEF Restores, Top
  <2>10. \A j \in (i + 1) .. n : j \in 1 .. n /\ \A m \in (i + 1) .. (j - 1) : m \in 1 .. n
    BY <1>1
  <2>11. ~Restores(n)
    BY <2>2 DEF Restores, Top
  <2>12. CASE allowed = l /\ \A j \in (i + 1) .. n : ~Restores(j)
    BY <1>1, <2>4, <2>7, <2>9, <2>10, <2>12 DEF Resumes
  <2>13. ASSUME NEW j \in (i + 1) .. n, Restores(j), stack[j].lev = l,
                \A m \in (i + 1) .. (j - 1) : ~Restores(m)
         PROVE  i <= Len(stack') /\ Resumes(i, l)'
    <3>1. j # n
      BY <2>11, <2>13
    <3>2. \A m \in 1 .. j : m \in 1 .. n /\ m # n
      BY <2>1, <3>1
    <3>3. Len(stack') \in Nat /\ j <= Len(stack')
      BY <2>1, <2>7
    <3>4. Agree(j)
      BY <2>7, <3>2 DEF Agree
    <3>. QED
      BY <1>1, <2>13, <3>3, <3>4, ResumesKept
  <2>. QED
    BY <2>12, <2>13 DEF Resumes
<1>13. CASE MainArm \/ MainReturn \/ RaiseReturn
  <2>1. Pop /\ (Restores(n) => allowed' = Top.lev) /\ (~Restores(n) => allowed' = allowed)
    BY <1>13 DEF MainArm, MainReturn, RaiseReturn, At, Restores, Top, flags
  <2>. QED
    BY <2>1, TransparentPop
<1>14. CASE RaiseScan
  <2>. DEFINE r == [Top EXCEPT !.snap = pending, !.pc = "check"]
  <2>1. Top \in Raises /\ Top.k = "raise"
    BY <1>14, TopKinds, KindOf DEF RaiseScan, At
  <2>2. r \in Records /\ r.k = "raise" /\ r.lev = Top.lev
    BY <2>1 DEF Records, Raises, TypeOK
  <2>3. stack' = Replace(r)
    BY <1>14 DEF RaiseScan
  <2>. HIDE DEF r
  <2>4. Len(stack') \in Nat /\ n <= Len(stack') /\ Agree(n - 1) /\ stack'[n] = r
    BY <1>1, <1>2, <2>2, <2>3
  <2>. QED
    BY <2>1, <2>2, <2>4, TransparentReplace
<1>15. CASE RaiseNext
  <2>. DEFINE r == [Top EXCEPT !.pc = "scan"]
  <2>1. Top \in Raises /\ Top.k = "raise"
    BY <1>15, TopKinds, KindOf DEF RaiseNext, At
  <2>2. r \in Records /\ r.k = "raise" /\ r.lev = Top.lev
    BY <2>1 DEF Records, Raises
  <2>3. PICK s \in Ready : \/ stack' = Replace(r)
                          \/ stack' = Append(Replace(r), Invoke(s, Top.cond))
    BY <1>15 DEF RaiseNext, Goto
  <2>4. Invoke(s, Top.cond) \in Records
    BY <2>1, <2>3, LevelsTyped DEF Invoke, Records, Invokes, Raises, Ready, TypeOK
  <2>. HIDE DEF r
  <2>5. Len(stack') \in Nat /\ n <= Len(stack') /\ Agree(n - 1) /\ stack'[n] = r
    BY <1>1, <1>2, <1>3, <2>2, <2>3, <2>4
  <2>. QED
    BY <2>1, <2>2, <2>5, TransparentReplace
<1>16. Delivery => \/ Top.k = "invoke"
                   \/ MainAllow \/ MainDelay \/ MainArm \/ MainReturn
                   \/ RaiseScan \/ RaiseNext \/ RaiseReturn
  BY DEF Delivery, InvokeCall, HandlerUnblock, SigintCallsLisp, SigalrmRaises, InvokeLeave,
         InvokeReturn, At
<1>. QED
  BY <1>6, <1>7, <1>8, <1>9, <1>10, <1>11, <1>12, <1>13, <1>14, <1>15, <1>16 DEF Next, vars

\* For any signals, any depth and any mixture of handlers and throws, code that a handler
\* interrupted and returns to goes on at the level at which it was interrupted.
THEOREM HandlersTransparent == Spec => SignalsTransparent
<1>1. Init => NestInv
  BY DEF Init, NestInv
<1>2. TypeOK /\ NestInv /\ [Next]_vars
        => [\A i \in DOMAIN stack, l \in Levels :
              Interrupted(i) /\ Resumes(i, l)
                => \/ \E t \in 1 .. i : Throw(t)
                   \/ i <= Len(stack') /\ Resumes(i, l)']_vars
  BY TransparentStep
<1>. QED
  BY InitTyped, StepTyped, NestStep, <1>1, <1>2, PTL DEF Spec, SignalsTransparent

-------------------------------------------------------------------------------
(* LostOnlyByThrow.                                                        *)

Found(C) == \E i \in 1 .. Len(stack) : stack[i] \in C

LEMMA FoundPush ==
  ASSUME TypeOK, NEW C, NEW r \in Records, Push(r), Found(C) \/ r \in C
  PROVE  Found(C)'
<1>1. /\ Len(stack) \in Nat \ {0} /\ Len(stack') = Len(stack) + 1
      /\ Agree(Len(stack)) /\ stack'[Len(stack) + 1] = r
  BY TopKinds, PushStack DEF TypeOK
<1>. QED
  BY <1>1 DEF Found, Agree

LEMMA FoundPop ==
  ASSUME TypeOK, NEW C, Pop, Found(C), Top \notin C
  PROVE  Found(C)'
<1>1. Len(stack) \in Nat \ {0} /\ Len(stack) - 1 \in 0 .. Len(stack)
  BY TopKinds
<1>2. Len(stack') = Len(stack) - 1 /\ Agree(Len(stack) - 1)
  BY <1>1, CutStack DEF TypeOK, Pop
<1>. QED
  BY <1>1, <1>2 DEF Found, Agree, Top

LEMMA FoundReplace ==
  ASSUME TypeOK, NEW C, NEW r \in Records, stack' = Replace(r), Found(C),
         Top \in C => r \in C
  PROVE  Found(C)'
<1>1. Len(stack) \in Nat \ {0}
  BY TopKinds
<1>2. Len(stack') = Len(stack) /\ Agree(Len(stack) - 1) /\ stack'[Len(stack)] = r
  BY <1>1, ReplaceStack DEF TypeOK
<1>. QED
  BY <1>1, <1>2 DEF Found, Agree, Top

LEMMA FoundReplacePush ==
  ASSUME TypeOK, NEW C, NEW r \in Records, NEW q \in Records, stack' = Append(Replace(r), q),
         q \in C \/ (Found(C) /\ Top \notin C)
  PROVE  Found(C)'
<1>1. /\ Len(stack) \in Nat \ {0} /\ Len(stack') = Len(stack) + 1 /\ Agree(Len(stack) - 1)
      /\ stack'[Len(stack) + 1] = q
  BY TopKinds, ReplacePushStack DEF TypeOK
<1>. QED
  BY <1>1 DEF Found, Agree, Top

\* SIGALRM comes from the timer, and the others' senders wait for a handler.
OwedInv == ALRM \notin owed

LEMMA OwedStep ==
  ASSUME OwedInv, [Next]_vars
  PROVE  OwedInv'
<1>1. owed' \subseteq owed \/ \E s \in Signals \ {ALRM} : owed' = owed \cup {s}
  BY DEF Next, Lisp, Kernel, Delivery, vars, PushFrame, PopFrame, Throw, BeginRegion, EndRegion,
         GentempRetry, BeginRead, EndRead, Allocate, HandlerReturns, Send, AlarmFires, Deliver,
         MainAllow, MainDelay, MainArm, MainReturn, InvokeCall, HandlerUnblock,
         SigintCallsLisp, SigalrmRaises, InvokeLeave, InvokeReturn, RaiseScan, RaiseNext,
         RaiseReturn, ghost
<1>. QED
  BY <1>1 DEF OwedInv

\* OnItsWay, with the records that carry the signal as a set.
Way(s) == s \in kpend \cup pending \/ Found(Carriers(s))

LEMMA WayDef ==
  ASSUME TypeOK, NEW s
  PROVE  OnItsWay(s) <=> Way(s)
<1>1. /\ DOMAIN stack = 1 .. Len(stack) /\ \A i \in 1 .. Len(stack) : stack[i] \in Records
  BY TopKinds, LenProperties DEF TypeOK
<1>. QED
  BY <1>1 DEF OnItsWay, Way, Found, Carriers

LEMMA WayKernel ==
  ASSUME TypeOK, NEW s \in owed, Way(s), Kernel
  PROVE  Way(s)'
<1>1. CASE UNCHANGED <<pending, stack>> /\ kpend \subseteq kpend'
  BY <1>1 DEF Way, Found, Carriers
<1>2. ASSUME NEW t \in Signals, Deliver(t)
      PROVE  Way(s)'
  <2>1. Main(t) \in Records
    BY LevelsTyped DEF Main, Records, Mains, TypeOK
  <2>2. t = s => Main(t) \in Carriers(s)
    BY <2>1 DEF Main, Carriers
  <2>3. Push(Main(t)) /\ kpend' = kpend \ {t} /\ pending' = pending
    BY <1>2 DEF Deliver, flags
  <2>4. Found(Carriers(s)) \/ t = s => Found(Carriers(s))'
    BY <2>1, <2>2, <2>3, FoundPush
  <2>. QED
    BY <2>3, <2>4 DEF Way
<1>. QED
  BY <1>1, <1>2 DEF Kernel, Send, AlarmFires, flags

LEMMA WayLisp ==
  ASSUME TypeOK, NEW s \in owed, Way(s), Lisp, \A t \in DOMAIN stack : ~Throw(t)
  PROVE  Way(s)'
<1>1. kpend' = kpend /\ pending' = pending
  BY DEF Lisp, PushFrame, PopFrame, Throw, BeginRegion, EndRegion, GentempRetry, BeginRead,
         EndRead, Allocate, HandlerReturns, flags, kernel
<1>2. Top \notin Carriers(s)
  BY LispShape DEF Carriers, At
<1>3. Found(Carriers(s)) => Found(Carriers(s))'
  BY <1>2, LispShape, FoundPush, FoundPop, FoundReplace
<1>. QED
  BY <1>1, <1>3 DEF Way

LEMMA WayMain ==
  ASSUME TypeOK, NEW s \in owed, Way(s), MainAllow \/ MainDelay
  PROVE  Way(s)'
<1>1. Top \in Mains /\ Top.k = "main"
  BY TopKinds, KindOf DEF MainAllow, MainDelay, At
<1>2. CASE MainAllow
  <2>. DEFINE r == [Top EXCEPT !.pc = "called", !.lev = allowed]
              q == Invoke(Top.sig, allowed)
  <2>1. r \in Records /\ q \in Records
    BY <1>1 DEF Records, Mains, Invoke, Invokes, TypeOK
  <2>2. stack' = Append(Replace(r), q) /\ kpend' = kpend /\ pending' = pending
    BY <1>2 DEF MainAllow
  <2>3. Top \in Carriers(s) => q \in Carriers(s)
    BY <2>1 DEF Carriers, Invoke
  <2>. HIDE DEF r, q
  <2>4. Found(Carriers(s)) => Found(Carriers(s))'
    BY <2>1, <2>2, <2>3, FoundReplacePush
  <2>. QED
    BY <2>2, <2>4 DEF Way
<1>3. CASE MainDelay
  <2>. DEFINE r == [Top EXCEPT !.pc = "arm"]
  <2>1. r \in Records
    BY <1>1 DEF Records, Mains
  <2>2. stack' = Replace(r) /\ kpend' = kpend /\ pending' = pending \cup {Top.sig}
    BY <1>3 DEF MainDelay, Goto, kernel
  <2>. HIDE DEF r
  <2>3. CASE Top.sig = s
    BY <2>2, <2>3 DEF Way
  <2>4. CASE Top.sig # s
    <3>1. Top \notin Carriers(s)
      BY <2>4 DEF Carriers
    <3>2. Found(Carriers(s)) => Found(Carriers(s))'
      BY <2>1, <2>2, <3>1, FoundReplace
    <3>. QED
      BY <2>2, <3>2 DEF Way
  <2>. QED
    BY <2>3, <2>4
<1>. QED
  BY <1>2, <1>3

LEMMA WayDelivery ==
  ASSUME TypeOK, OwedInv, NEW s \in owed, s \in owed', Way(s), Delivery, ~MainAllow, ~MainDelay
  PROVE  Way(s)'
<1>1. kpend' = kpend
  BY DEF Delivery, MainArm, MainReturn, InvokeCall, HandlerUnblock, SigintCallsLisp, SigalrmRaises,
         InvokeLeave, InvokeReturn, RaiseScan, RaiseNext, RaiseReturn, kernel
<1>2. Top \notin Carriers(s)
  <2>1. CASE InvokeCall
    BY <2>1 DEF InvokeCall, At, Carriers
  <2>2. CASE ~InvokeCall
    BY <2>2 DEF Delivery, MainArm, MainReturn, HandlerUnblock, SigintCallsLisp, SigalrmRaises,
                InvokeLeave, InvokeReturn, RaiseScan, RaiseNext, RaiseReturn, At, Carriers
  <2>. QED
    BY <2>1, <2>2
<1>3. Found(Carriers(s)) => Found(Carriers(s))'
  BY <1>2, DeliveryShape, FoundPop, FoundReplace, FoundReplacePush
<1>4. CASE RaiseNext
  <2>. DEFINE r == [Top EXCEPT !.pc = "scan"]
  <2>1. Top \in Raises /\ r \in Records
    BY <1>4, TopKinds, KindOf, GotoTyped DEF RaiseNext, At
  <2>2. PICK t \in Ready : /\ pending' = pending \ {t}
                           /\ \/ t = ALRM
                              \/ stack' = Append(Replace(r), Invoke(t, Top.cond))
    BY <1>4 DEF RaiseNext, Goto
  <2>3. Invoke(t, Top.cond) \in Records
    BY <2>1, <2>2, LevelsTyped DEF Invoke, Records, Invokes, Raises, Ready, TypeOK
  <2>4. t = s => Invoke(t, Top.cond) \in Carriers(s)
    BY <2>3 DEF Carriers, Invoke
  <2>. HIDE DEF r
  <2>5. t = s => Found(Carriers(s))'
    BY <2>1, <2>2, <2>3, <2>4, FoundReplacePush DEF OwedInv
  <2>. QED
    BY <1>1, <1>3, <2>2, <2>5 DEF Way
<1>5. CASE InvokeCall
  <2>1. pending' = pending \ {Top.sig} /\ s # Top.sig
    BY <1>5 DEF InvokeCall
  <2>. QED
    BY <1>1, <1>3, <2>1 DEF Way
<1>6. CASE UNCHANGED pending
  BY <1>1, <1>3, <1>6 DEF Way
<1>. QED
  BY <1>4, <1>5, <1>6 DEF Delivery, MainArm, MainReturn, HandlerUnblock, SigintCallsLisp,
     SigalrmRaises, InvokeLeave, InvokeReturn, RaiseScan, RaiseReturn, flags

\* For any signals, any depth and any nesting, only a throw out of what was interrupted
\* forgets a signal that was sent and not handled.
THEOREM LostByThrowOnly == Spec => LostOnlyByThrow
<1>1. Init => OwedInv
  BY DEF Init, OwedInv
<1>2. TypeOK /\ TypeOK' /\ OwedInv /\ [Next]_vars
        => [\A s \in owed : OnItsWay(s) /\ s \in owed' /\ ~OnItsWay(s)'
              => \E i \in DOMAIN stack : Throw(i)]_vars
  <2>. SUFFICES ASSUME TypeOK, TypeOK', OwedInv, Next, NEW s \in owed, OnItsWay(s), s \in owed',
                       \A i \in DOMAIN stack : ~Throw(i)
                PROVE  OnItsWay(s)'
    OBVIOUS
  <2>1. Way(s)
    BY WayDef
  <2>2. Way(s)'
    BY <2>1, WayKernel, WayLisp, WayMain, WayDelivery DEF Next
  <2>3. OnItsWay(s)' <=> Way(s)'
    <3>1. /\ DOMAIN stack' = 1 .. Len(stack')
          /\ \A i \in 1 .. Len(stack') : stack'[i] \in Records
      BY LenProperties, ElementOfSeq DEF TypeOK
    <3>. QED
      BY <3>1 DEF OnItsWay, Way, Found, Carriers
  <2>. QED
    BY <2>2, <2>3
<1>. QED
  BY InitTyped, StepTyped, OwedStep, <1>1, <1>2, PTL DEF Spec, LostOnlyByThrow

-------------------------------------------------------------------------------
(* RetryArmed.                                                             *)

Retriers == {r \in Records : Retries(r)}

\* The activation that will retry stands where no throw reaches it.
RetryInv == INT \in pending => alarm \/ ALRM \in kpend \/ Carried(Retriers)

LEMMA RetryLisp ==
  ASSUME TypeOK, RetryInv, Lisp
  PROVE  RetryInv'
<1>1. UNCHANGED <<pending, alarm, kpend>>
  BY DEF Lisp, PushFrame, PopFrame, Throw, BeginRegion, EndRegion, GentempRetry, BeginRead,
         EndRead, Allocate, HandlerReturns, flags, kernel
<1>2. CASE EndRead
  <2>1. Pop /\ Top \notin Retriers
    BY <1>2 DEF EndRead, Retriers, Retries
  <2>. QED
    BY <1>1, <2>1, CarriedPop DEF RetryInv
<1>3. CASE ~EndRead
  <2>1. InLisp \/ Top.k \in {"frame", "region"} \/ At("invoke", "lisp")
    BY <1>3 DEF Lisp, PushFrame, PopFrame, Throw, BeginRegion, EndRegion, GentempRetry,
                BeginRead, Allocate, HandlerReturns
  <2>2. Busy(Top) /\ Top \notin Retriers
    BY <2>1 DEF InLisp, At, Busy, Retriers, Retries
  <2>. QED
    BY <1>1, <2>2, BusyTop DEF RetryInv
<1>. QED
  BY <1>2, <1>3

LEMMA RetryKernel ==
  ASSUME TypeOK, RetryInv, Kernel
  PROVE  RetryInv'
<1>1. ASSUME NEW s \in Signals \ {ALRM}, Send(s)
      PROVE  RetryInv'
  BY <1>1 DEF Send, RetryInv, flags, Carried, Retriers, Retries, Busy
<1>2. CASE AlarmFires
  BY <1>2 DEF AlarmFires, RetryInv, flags, Carried, Retriers, Retries, Busy
<1>3. ASSUME NEW s \in Signals, Deliver(s)
      PROVE  RetryInv'
  <2>. DEFINE r == Main(s)
  <2>1. r \in Records
    BY LevelsTyped DEF Main, Records, Mains, TypeOK
  <2>2. ~Busy(r) /\ (s = ALRM => r \in Retriers)
    BY <2>1 DEF Main, Busy, Retriers, Retries
  <2>3. Push(r) /\ kpend' = kpend \ {s} /\ UNCHANGED <<pending, alarm>>
    BY <1>3 DEF Deliver, flags
  <2>. HIDE DEF r
  <2>4. Carried(Retriers) \/ s = ALRM => Carried(Retriers)'
    BY <2>1, <2>2, <2>3, CarriedPush
  <2>. QED
    BY <2>3, <2>4 DEF RetryInv
<1>. QED
  BY <1>1, <1>2, <1>3 DEF Kernel

LEMMA RetryMain ==
  ASSUME TypeOK, RetryInv, MainAllow \/ MainDelay \/ MainArm \/ MainReturn
  PROVE  RetryInv'
<1>. Top \in Records /\ (Top.k = "main" => Top \in Mains)
  BY TopKinds, KindOf
<1>1. CASE MainAllow
  <2>. DEFINE r == [Top EXCEPT !.pc = "called", !.lev = allowed]
              q == Invoke(Top.sig, allowed)
  <2>1. Top \in Mains /\ Top.k = "main" /\ Top.pc = "entry" /\ stack' = Append(Replace(r), q)
    BY <1>1 DEF MainAllow, At
  <2>2. r \in Records /\ r.k = "main"
    BY <2>1 DEF Records, Mains, TypeOK
  <2>3. q \in Records /\ q.k = "invoke" /\ q.pc = "save" /\ q.sig = Top.sig
    BY <2>1 DEF Invoke, Records, Invokes, Mains, TypeOK
  <2>4. UNCHANGED <<kpend, pending, alarm>>
    BY <1>1 DEF MainAllow
  <2>. HIDE DEF r, q
  <2>5. /\ ~Busy(r) /\ ~Busy(q)
        /\ Top.sig = ALRM => q \in Retriers
        /\ Top.sig # ALRM => Top \notin Retriers
    BY <2>1, <2>2, <2>3 DEF Busy, Retriers, Retries
  <2>6. Carried(Retriers) => Carried(Retriers)'
    BY <2>1, <2>2, <2>3, <2>5, CarriedReplacePush
  <2>. QED
    BY <2>4, <2>6 DEF RetryInv
<1>2. CASE MainDelay
  <2>. DEFINE r == [Top EXCEPT !.pc = "arm"]
  <2>1. Top \in Mains /\ Top.k = "main" /\ stack' = Replace(r)
    BY <1>2 DEF MainDelay, At, Goto
  <2>2. r \in Records /\ r.k = "main" /\ r.pc = "arm"
    BY <2>1 DEF Records, Mains
  <2>. HIDE DEF r
  <2>3. Len(stack') = Len(stack) /\ stack'[Len(stack)] = r /\ Len(stack) \in Nat \ {0}
    BY <2>1, <2>2, ReplaceStack, TopKinds DEF TypeOK
  <2>4. r \in Retriers
    BY <2>2 DEF Retriers, Retries
  <2>5. Len(stack) \in 1 .. Len(stack) /\ \A j \in (Len(stack) + 1) .. Len(stack) : FALSE
    BY <2>3
  <2>6. Carried(Retriers)'
    BY <2>3, <2>4, <2>5 DEF Carried
  <2>. QED
    BY <2>6 DEF RetryInv
<1>3. CASE MainArm
  BY <1>3 DEF MainArm, RetryInv
<1>4. CASE MainReturn
  <2>1. Pop /\ Top \notin Retriers /\ UNCHANGED <<pending, alarm, kpend>>
    BY <1>4 DEF MainReturn, At, Retriers, Retries
  <2>. QED
    BY <2>1, CarriedPop DEF RetryInv
<1>. QED
  BY <1>1, <1>2, <1>3, <1>4

\* The handler of SIGALRM stays on the way to raise_pending_signals; the handler of SIGINT
\* starts with SIGINT no longer pending.
LEMMA RetryInvoke ==
  ASSUME UserSignals = {}, TypeOK, RetryInv,
         \/ InvokeCall \/ HandlerUnblock \/ SigintCallsLisp \/ SigalrmRaises
         \/ InvokeLeave \/ InvokeReturn
  PROVE  RetryInv'
<1>1. Top \in Invokes /\ Top.k = "invoke" /\ Top.sig \in {INT, ALRM} /\ INT # ALRM
  <2>1. Top \in Records /\ Top.k = "invoke"
    BY TopKinds DEF InvokeCall, HandlerUnblock, SigintCallsLisp, SigalrmRaises, InvokeLeave,
                    InvokeReturn, At
  <2>2. Top \in Invokes
    BY <2>1, KindOf
  <2>. QED
    BY <2>1, <2>2, SignalsAssumption DEF Invokes, Signals
<1>2. UNCHANGED <<kpend, alarm>>
  BY DEF InvokeCall, HandlerUnblock, SigintCallsLisp, SigalrmRaises, InvokeLeave, InvokeReturn,
         kernel
<1>. DEFINE r(p) == [Top EXCEPT !.pc = p]
<1>3. \A p \in {"unblocked", "lisp", "returned", "restore"} :
        /\ r(p) \in Records /\ r(p).k = "invoke" /\ r(p).pc = p /\ r(p).sig = Top.sig
  BY <1>1 DEF Records, Invokes
<1>. HIDE DEF r
<1>4. ASSUME NEW c \in Records, stack' = Replace(c), Busy(c) => Busy(Top),
             Top \in Retriers => c \in Retriers
      PROVE  Carried(Retriers) => Carried(Retriers)'
  <2>1. CASE Top \notin Retriers
    BY <1>4, <2>1, CarriedReplace
  <2>2. CASE c \in Retriers
    <3>1. Len(stack') = Len(stack) /\ stack'[Len(stack)] = c /\ Len(stack) \in Nat \ {0}
      BY <1>4, ReplaceStack, TopKinds DEF TypeOK
    <3>2. Len(stack) \in 1 .. Len(stack) /\ \A j \in (Len(stack) + 1) .. Len(stack) : FALSE
      BY <3>1
    <3>. QED
      BY <2>2, <3>1, <3>2 DEF Carried
  <2>. QED
    BY <1>4, <2>1, <2>2
<1>5. CASE InvokeCall
  <2>. DEFINE c == [Top EXCEPT !.pc = IF Top.sig \in UserSignals THEN "lisp" ELSE "handler",
                               !.ish = inHandler]
  <2>1. stack' = Replace(c) /\ pending' = pending \ {Top.sig}
    BY <1>5 DEF InvokeCall
  <2>2. c \in Records /\ c.k = "invoke" /\ c.pc = "handler" /\ c.sig = Top.sig
    BY <1>1 DEF Records, Invokes, TypeOK
  <2>. HIDE DEF c
  <2>3. CASE Top.sig = INT
    BY <2>1, <2>3 DEF RetryInv
  <2>4. CASE Top.sig = ALRM
    <3>1. ~Busy(c) /\ c \in Retriers
      BY <1>1, <2>2, <2>4 DEF Busy, Retriers, Retries
    <3>. QED
      BY <1>1, <1>2, <1>4, <2>1, <2>2, <3>1 DEF RetryInv
  <2>. QED
    BY <1>1, <2>3, <2>4
<1>6. CASE HandlerUnblock \/ SigintCallsLisp \/ InvokeLeave
  <2>1. PICK p \in {"unblocked", "lisp", "restore"} :
          /\ stack' = Replace(r(p)) /\ (p = "lisp" => Top.sig = INT)
          /\ p # "unblocked" => Top.pc = "returned" \/ Top.sig = INT
    BY <1>6 DEF HandlerUnblock, SigintCallsLisp, InvokeLeave, At, Goto, r
  <2>2. pending' = pending /\ Top.pc # "save"
    BY <1>6 DEF HandlerUnblock, SigintCallsLisp, InvokeLeave, At, flags, kernel
  <2>3. (Busy(r(p)) => Busy(Top)) /\ (Top \in Retriers => r(p) \in Retriers)
    BY <1>1, <1>3, <2>1, <2>2 DEF Busy, Retriers, Retries
  <2>. QED
    BY <1>2, <1>3, <1>4, <2>1, <2>2, <2>3 DEF RetryInv
<1>7. CASE SigalrmRaises
  <2>. DEFINE q == Raise(sig_try_to_delay)
  <2>1. stack' = Append(Replace(r("returned")), q)
    BY <1>7 DEF SigalrmRaises, r
  <2>2. q \in Records /\ q.k = "raise" /\ q.pc = "scan"
    BY LevelsTyped DEF Raise, Records, Raises, TypeOK
  <2>. HIDE DEF q
  <2>3. q \in Retriers
    BY <2>2 DEF Retriers, Retries
  <2>4. Carried(Retriers)'
    BY <1>3, <2>1, <2>2, <2>3, CarriedReplacePush
  <2>. QED
    BY <2>4 DEF RetryInv
<1>8. CASE InvokeReturn
  <2>1. Pop /\ Top \notin Retriers /\ pending' = pending
    BY <1>8 DEF InvokeReturn, At, Retriers, Retries, flags
  <2>. QED
    BY <1>2, <2>1, CarriedPop DEF RetryInv
<1>. QED
  BY <1>5, <1>6, <1>7, <1>8

\* raise_pending_signals looks again after each signal, and takes SIGINT first.
LEMMA RetryRaise ==
  ASSUME TypeOK, RetryInv, RaiseScan \/ RaiseNext \/ RaiseReturn
  PROVE  RetryInv'
<1>1. Top \in Raises /\ Top.k = "raise" /\ Top.cond >= sig_try_to_delay
  <2>1. Top \in Records /\ Top.k = "raise"
    BY TopKinds DEF RaiseScan, RaiseNext, RaiseReturn, At
  <2>2. Top \in Raises
    BY <2>1, KindOf
  <2>. QED
    BY <2>1, <2>2 DEF Raises, sig_try_to_delay, sig_safe
<1>2. kpend' = kpend
  BY DEF RaiseScan, RaiseNext, RaiseReturn, kernel
<1>3. INT \in Top.snap => INT \in Ready
  BY <1>1 DEF Ready, SafetyRequired
<1>4. CASE RaiseScan
  <2>. DEFINE r == [Top EXCEPT !.snap = pending, !.pc = "check"]
  <2>1. r \in Records /\ r.k = "raise" /\ r.snap = pending
    BY <1>1 DEF Records, Raises, TypeOK
  <2>2. stack' = Replace(r) /\ pending' = pending
    BY <1>4 DEF RaiseScan, flags
  <2>. HIDE DEF r
  <2>3. INT \in pending => r \in Retriers
    BY <2>1 DEF Retriers, Retries
  <2>4. Len(stack') = Len(stack) /\ stack'[Len(stack)] = r /\ Len(stack) \in Nat \ {0}
    BY <2>1, <2>2, ReplaceStack, TopKinds DEF TypeOK
  <2>5. Len(stack) \in 1 .. Len(stack) /\ \A j \in (Len(stack) + 1) .. Len(stack) : FALSE
    BY <2>4
  <2>6. INT \in pending => Carried(Retriers)'
    BY <2>3, <2>4, <2>5 DEF Carried
  <2>. QED
    BY <2>2, <2>6 DEF RetryInv
<1>5. CASE RaiseNext
  <2>. DEFINE r == [Top EXCEPT !.pc = "scan"]
  <2>1. r \in Records /\ r.k = "raise" /\ r.pc = "scan" /\ Top.pc = "check"
    BY <1>1, <1>5 DEF Records, Raises, RaiseNext, At
  <2>2. PICK s \in Ready : /\ \A t \in Ready : Precedes(s, t)
                           /\ pending' = pending \ {s}
                           /\ \/ stack' = Replace(r)
                              \/ /\ stack' = Append(Replace(r), Invoke(s, Top.cond))
                                 /\ UNCHANGED alarm
    BY <1>5 DEF RaiseNext, Goto
  <2>3. INT \in Top.snap => s = INT
    BY <1>3, <2>2, SignalsAssumption DEF Precedes
  <2>. DEFINE q == Invoke(s, Top.cond)
  <2>4. q \in Records /\ q.k = "invoke" /\ q.pc = "save" /\ q.sig = s
    BY <1>1, <2>2, LevelsTyped DEF Invoke, Records, Invokes, Raises, Ready, TypeOK
  <2>. HIDE DEF r, q
  <2>5. ~Busy(r) /\ ~Busy(q) /\ r \in Retriers
    BY <2>1, <2>4 DEF Busy, Retriers, Retries
  <2>6. Top \in Retriers => s = INT
    BY <1>1, <2>1, <2>3 DEF Retriers, Retries
  <2>7. CASE stack' = Replace(r)
    <3>1. Len(stack') = Len(stack) /\ stack'[Len(stack)] = r /\ Len(stack) \in Nat \ {0}
      BY <2>1, <2>7, ReplaceStack, TopKinds DEF TypeOK
    <3>2. Len(stack) \in 1 .. Len(stack) /\ \A j \in (Len(stack) + 1) .. Len(stack) : FALSE
      BY <3>1
    <3>3. Carried(Retriers)'
      BY <2>5, <3>1, <3>2 DEF Carried
    <3>. QED
      BY <3>3 DEF RetryInv
  <2>8. CASE stack' = Append(Replace(r), q) /\ UNCHANGED alarm
    <3>1. CASE s = INT
      BY <2>2, <3>1 DEF RetryInv
    <3>2. CASE s # INT
      <4>1. Carried(Retriers) => Carried(Retriers)'
        BY <2>1, <2>4, <2>5, <2>6, <2>8, <3>2, CarriedReplacePush
      <4>. QED
        BY <1>2, <2>2, <2>8, <4>1 DEF RetryInv
    <3>. QED
      BY <3>1, <3>2
  <2>. QED
    BY <2>2, <2>7, <2>8 DEF q
<1>6. CASE RaiseReturn
  <2>1. Top \notin Retriers
    BY <1>1, <1>3, <1>6 DEF RaiseReturn, At, Retriers, Retries
  <2>. QED
    BY <1>2, <1>6, <2>1, CarriedPop DEF RaiseReturn, RetryInv, kernel
<1>. QED
  BY <1>4, <1>5, <1>6

\* Unless the program has a handler of SIGUSR1 or SIGIO, a delayed interrupt always has its
\* alarm, or somebody about to retry it, for any number of interrupts and any depth.
THEOREM RetryAlwaysArmed == UserSignals = {} => (Spec => []RetryArmed)
<1>. SUFFICES ASSUME UserSignals = {} PROVE Spec => []RetryArmed
  OBVIOUS
<1>1. Init => RetryInv
  BY DEF Init, RetryInv
<1>2. TypeOK /\ RetryInv /\ [Next]_vars => RetryInv'
  <2>1. UNCHANGED vars /\ RetryInv => RetryInv'
    BY DEF vars, RetryInv, Carried, Retriers, Retries, Busy
  <2>. QED
    BY <2>1, RetryLisp, RetryKernel, RetryMain, RetryInvoke, RetryRaise DEF Next, Delivery
<1>3. TypeOK /\ RetryInv => RetryArmed
  <2>1. TypeOK => DOMAIN stack = 1 .. Len(stack)
    BY LenProperties DEF TypeOK
  <2>. QED
    BY <2>1 DEF RetryInv, Carried, Retriers, RetryArmed
<1>. QED
  BY InitTyped, StepTyped, <1>1, <1>2, <1>3, PTL DEF Spec
===============================================================================
