------------------------------ MODULE Interrupts ------------------------------
(***************************************************************************)
(* Signal delivery in the GCL runtime: o/usig.c, o/usig2.c, the            *)
(* no-interrupt macros of h/object.h, and unwind of o/frame.c.             *)
(*                                                                         *)
(* One thread runs the Lisp program.  The kernel may interrupt it between  *)
(* any two steps and run main_signal_handler on top of it; a handler runs  *)
(* Lisp code, which may allocate, enter regions, be interrupted in turn,   *)
(* and leave by a throw that discards every activation above a frame.      *)
(* The C stack is therefore the heart of the state: `stack' holds, bottom  *)
(* first, the frames of the frame stack, the dynamic extents that saved    *)
(* signals_allowed in a C local, and the activations of the three C        *)
(* functions that run handlers.                                            *)
(***************************************************************************)
EXTENDS Naturals, Sequences, FiniteSets

CONSTANTS
  INT,             \* SIGINT
  ALRM,            \* SIGALRM
  UserSignals,     \* SIGUSR1 and SIGIO, the other signals with a handler
  Collisions,      \* the values of "GENTEMP's next name is already interned"
  MaxSends,        \* bound: signals sent from outside in one behaviour
  MaxDepth,        \* bound: depth of the stack at which a signal is delivered
  MaxScopes        \* bound: frames, regions and reads on the stack at once

Signals == UserSignals \cup {INT, ALRM}

ASSUME SignalsAssumption ==
  /\ INT # ALRM
  /\ INT \notin UserSignals /\ ALRM \notin UserSignals
ASSUME CollisionsAssumption == Collisions \subseteq BOOLEAN /\ FALSE \in Collisions
ASSUME BoundsAssumption == MaxSends \in Nat /\ MaxDepth \in Nat /\ MaxScopes \in Nat

VARIABLES
  allowed,         \* signals_allowed
  pending,         \* signals_pending, as a set
  inHandler,       \* in_signal_handler
  alarm,           \* an alarm(1) is running
  kpend,           \* signals the kernel holds for the process
  blocked,         \* the kernel's signal mask
  stack,           \* the C stack, bottom first
  sent,            \* number of signals sent so far
  owed             \* history: signals sent whose handler has not started since

flags  == <<allowed, pending, inHandler>>
kernel == <<kpend, blocked, alarm>>
ghost  == <<sent, owed>>
vars   == <<allowed, pending, inHandler, alarm, kpend, blocked, stack, sent, owed>>

-------------------------------------------------------------------------------
(* Levels of signals_allowed.                                              *)

sig_none         == 0
sig_normal       == 1
sig_try_to_delay == 2
sig_safe         == 3
sig_at_read      == 4

Levels == sig_none .. sig_at_read

\* The level a signal's handler requires (gcl_init_safety over the XX default).
SafetyRequired(s) ==
  IF s = INT THEN sig_try_to_delay ELSE IF s = ALRM THEN sig_normal ELSE sig_safe

\* The order of signals_handled: SIGINT first, SIGALRM last.
Precedes(s, t) == s = INT \/ t = ALRM \/ s = t \/ {s, t} \subseteq UserSignals

-------------------------------------------------------------------------------
(* The records of the stack.                                               *)

Frames  == [k : {"frame"}, class : {"catch", "protect"}, ish : {0, 1}]
Regions == [k : {"region"}, gentemp : BOOLEAN, old : Levels]
Reads   == [k : {"read"}, old : Levels]
Mains   == [k : {"main"}, sig : Signals, mask : SUBSET Signals, lev : Levels,
            pc : {"entry", "arm", "called"}]
Invokes == [k : {"invoke"}, sig : Signals, lev : Levels, ish : {0, 1},
            pc : {"save", "handler", "unblocked", "lisp", "returned", "restore"}]
Raises  == [k : {"raise"}, cond : {sig_try_to_delay, sig_safe}, lev : Levels,
            pc : {"scan", "check"}, snap : SUBSET Signals]

Records == Frames \cup Regions \cup Reads \cup Mains \cup Invokes \cup Raises

Frame(c)      == [k |-> "frame", class |-> c, ish |-> inHandler]
Region(g)     == [k |-> "region", gentemp |-> g, old |-> allowed]
Read          == [k |-> "read", old |-> allowed]
Main(s)       == [k |-> "main", sig |-> s, mask |-> blocked, lev |-> sig_none, pc |-> "entry"]
Invoke(s, l)  == [k |-> "invoke", sig |-> s, lev |-> l, ish |-> inHandler, pc |-> "save"]
Raise(c)      == [k |-> "raise", cond |-> c, lev |-> allowed, pc |-> "scan", snap |-> {}]

Top        == stack[Len(stack)]
Replace(r) == [stack EXCEPT ![Len(stack)] = r]
Push(r)    == stack' = Append(stack, r)
Pop        == stack' = SubSeq(stack, 1, Len(stack) - 1)
Goto(p)    == stack' = Replace([Top EXCEPT !.pc = p])
At(kd, p)  == Top.k = kd /\ Top.pc = p

\* The code on top of the stack is Lisp code, or C code called by it, that may
\* allocate, open an extent or throw.  The getc inside a read does neither.
InLisp == Top.k \in {"frame", "region"} \/ At("invoke", "lisp")

Scopes == Cardinality({i \in DOMAIN stack : stack[i].k \in {"frame", "region", "read"}})

-------------------------------------------------------------------------------
(* What the Lisp program does.                                             *)

\* frs_push: catch, block, tagbody and unwind-protect.
PushFrame(c) ==
  /\ InLisp /\ Scopes < MaxScopes
  /\ Push(Frame(c))
  /\ UNCHANGED <<flags, kernel, ghost>>

\* Mutant of PopFrame: the top level's frame may be popped too.
PopFrameOfTopLevel ==
  /\ Top.k = "frame"
  /\ Pop
  /\ UNCHANGED <<flags, kernel, ghost>>

\* frs_pop: the body of the frame's form returns.  The top level's frame stays.
PopFrame ==
  /\ Top.k = "frame" /\ Len(stack) > 1
  /\ Pop
  /\ UNCHANGED <<flags, kernel, ghost>>

\* Mutant of Throw: unwind does not reset in_signal_handler.
ThrowKeepsHandlerFlag(i) ==
  /\ InLisp
  /\ stack[i].k = "frame"
  /\ \A j \in (i + 1) .. Len(stack) : stack[j].k = "frame" => stack[j].class = "catch"
  /\ stack' = SubSeq(stack, 1, i)
  /\ allowed' = sig_normal
  /\ UNCHANGED <<pending, inHandler, kernel, ghost>>

\* unwind: throw, return-from, go, or an error that returns to a break level.
\* frs_top only descends over FRS_CATCH frames, so the jump goes to the target
\* or to the first unwind-protect on the way.
Throw(i) ==
  /\ InLisp
  /\ stack[i].k = "frame"
  /\ \A j \in (i + 1) .. Len(stack) : stack[j].k = "frame" => stack[j].class = "catch"
  /\ stack' = SubSeq(stack, 1, i)
  /\ inHandler' = stack[i].ish
  /\ allowed' = sig_normal
  /\ UNCHANGED <<pending, kernel, ghost>>

\* BEGIN_NO_INTERRUPT.
BeginRegion(g) ==
  /\ InLisp /\ Scopes < MaxScopes
  /\ Push(Region(g))
  /\ allowed' = sig_none
  /\ UNCHANGED <<pending, inHandler, kernel, ghost>>

\* END_NO_INTERRUPT.
EndRegion ==
  /\ Top.k = "region"
  /\ allowed' = Top.old
  /\ Pop
  /\ UNCHANGED <<pending, inHandler, kernel, ghost>>

\* GENTEMP found its new name interned and jumps back to ONCE_MORE, out of the
\* block: BEGIN_NO_INTERRUPT is executed again and END_NO_INTERRUPT is not.
GentempRetry ==
  /\ Top.k = "region" /\ Top.gentemp
  /\ stack' = Replace([Top EXCEPT !.old = allowed])
  /\ allowed' = sig_none
  /\ UNCHANGED <<pending, inHandler, kernel, ghost>>

\* The getc of a stream on a file, or a subprocess run by SYSTEM.
BeginRead ==
  /\ InLisp /\ Scopes < MaxScopes
  /\ Push(Read)
  /\ allowed' = sig_at_read
  /\ UNCHANGED <<pending, inHandler, kernel, ghost>>

EndRead ==
  /\ Top.k = "read"
  /\ allowed' = Top.old
  /\ Pop
  /\ UNCHANGED <<pending, inHandler, kernel, ghost>>

\* CHECK_INTERRUPT, which alloc_mem executes first, on every allocation.
Allocate ==
  /\ InLisp /\ pending # {}
  /\ Push(Raise(sig_safe))
  /\ UNCHANGED <<flags, kernel, ghost>>

-------------------------------------------------------------------------------
(* The kernel.                                                             *)

Send(s) ==
  /\ sent < MaxSends
  /\ kpend' = kpend \cup {s}
  /\ sent' = sent + 1
  /\ owed' = owed \cup {s}
  /\ UNCHANGED <<flags, blocked, alarm, stack>>

AlarmFires ==
  /\ alarm
  /\ alarm' = FALSE
  /\ kpend' = kpend \cup {ALRM}
  /\ UNCHANGED <<flags, blocked, stack, ghost>>

\* The handler is installed with an empty sa_mask and without SA_NODEFER: the
\* kernel blocks the signal itself until the handler returns.
Deliver(s) ==
  /\ s \in kpend \ blocked
  /\ Len(stack) < MaxDepth
  /\ kpend' = kpend \ {s}
  /\ blocked' = blocked \cup {s}
  /\ Push(Main(s))
  /\ UNCHANGED <<flags, alarm, ghost>>

-------------------------------------------------------------------------------
(* main_signal_handler.                                                    *)

\* The interrupted code allows the handler: run it now.
MainAllow ==
  /\ At("main", "entry")
  /\ allowed >= SafetyRequired(Top.sig)
  /\ stack' = Append(Replace([Top EXCEPT !.pc = "called", !.lev = allowed]),
                     Invoke(Top.sig, allowed))
  /\ allowed' = sig_none
  /\ blocked' = IF Top.sig \in UserSignals THEN blocked \ UserSignals ELSE blocked
  /\ UNCHANGED <<pending, inHandler, kpend, alarm, ghost>>

\* It does not: remember the signal ...
MainDelay ==
  /\ At("main", "entry")
  /\ allowed < SafetyRequired(Top.sig)
  /\ pending' = pending \cup {Top.sig}
  /\ Goto("arm")
  /\ UNCHANGED <<allowed, inHandler, kernel, ghost>>

\* Mutant of MainReturn: the level the handler left behind stays.
MainReturnKeepsLevel ==
  /\ At("main", "called")
  /\ blocked' = Top.mask
  /\ Pop
  /\ UNCHANGED <<flags, kpend, alarm, ghost>>

\* Mutant of MainArm: the delayed signal is not retried by an alarm.
MainArmNoAlarm ==
  /\ At("main", "arm")
  /\ blocked' = Top.mask
  /\ Pop
  /\ UNCHANGED <<flags, kpend, alarm, ghost>>

\* ... set the alarm and return.
MainArm ==
  /\ At("main", "arm")
  /\ alarm' = TRUE
  /\ blocked' = Top.mask
  /\ Pop
  /\ UNCHANGED <<flags, kpend, ghost>>

\* The handler returned; the kernel restores the mask.
MainReturn ==
  /\ At("main", "called")
  /\ allowed' = Top.lev
  /\ blocked' = Top.mask
  /\ Pop
  /\ UNCHANGED <<pending, inHandler, kpend, alarm, ghost>>

-------------------------------------------------------------------------------
(* invoke_handler.  At "save" it is in before_interrupt, at "restore" in   *)
(* after_interrupt.                                                        *)

\* Mutant of InvokeCall: signals_pending is cleared, not just the signal's bit.
InvokeCallClearsPending ==
  /\ At("invoke", "save")
  /\ pending' = {}
  /\ inHandler' = IF Top.lev <= sig_normal THEN 1 ELSE inHandler
  /\ allowed' = Top.lev
  /\ owed' = owed \ {Top.sig}
  /\ stack' = Replace([Top EXCEPT
                !.pc = IF Top.sig \in UserSignals THEN "lisp" ELSE "handler",
                !.ish = inHandler])
  /\ UNCHANGED <<kernel, sent>>

InvokeCall ==
  /\ At("invoke", "save")
  /\ pending' = pending \ {Top.sig}
  /\ inHandler' = IF Top.lev <= sig_normal THEN 1 ELSE inHandler
  /\ allowed' = Top.lev
  /\ owed' = owed \ {Top.sig}
  /\ stack' = Replace([Top EXCEPT
                !.pc = IF Top.sig \in UserSignals THEN "lisp" ELSE "handler",
                !.ish = inHandler])
  /\ UNCHANGED <<kernel, sent>>

\* sigint and sigalrm first unblock their own signal.
HandlerUnblock ==
  /\ At("invoke", "handler")
  /\ blocked' = blocked \ {Top.sig}
  /\ Goto("unblocked")
  /\ UNCHANGED <<flags, kpend, alarm, ghost>>

\* sigint: terminal_interrupt lowers the level and calls Lisp.
SigintCallsLisp ==
  /\ At("invoke", "unblocked") /\ Top.sig = INT
  /\ allowed' = sig_normal
  /\ Goto("lisp")
  /\ UNCHANGED <<pending, inHandler, kernel, ghost>>

\* sigalrm: look for signals that were delayed.
SigalrmRaises ==
  /\ At("invoke", "unblocked") /\ Top.sig = ALRM
  /\ stack' = Append(Replace([Top EXCEPT !.pc = "returned"]), Raise(sig_try_to_delay))
  /\ UNCHANGED <<flags, kernel, ghost>>

\* The Lisp function a handler called returns.
HandlerReturns ==
  /\ At("invoke", "lisp")
  /\ Goto("returned")
  /\ UNCHANGED <<flags, kernel, ghost>>

InvokeLeave ==
  /\ At("invoke", "returned")
  /\ allowed' = sig_none
  /\ inHandler' = Top.ish
  /\ Goto("restore")
  /\ UNCHANGED <<pending, kernel, ghost>>

InvokeReturn ==
  /\ At("invoke", "restore")
  /\ Pop
  /\ UNCHANGED <<flags, kernel, ghost>>

-------------------------------------------------------------------------------
(* raise_pending_signals.                                                  *)

\* AGAIN: read signals_pending into a local.
RaiseScan ==
  /\ At("raise", "scan")
  /\ stack' = Replace([Top EXCEPT !.snap = pending, !.pc = "check"])
  /\ UNCHANGED <<flags, kernel, ghost>>

Ready == {s \in Top.snap : Top.cond >= SafetyRequired(s)}

\* The first signal of the snapshot that the condition admits.
RaiseNext ==
  /\ At("raise", "check")
  /\ \E s \in Ready :
       /\ \A t \in Ready : Precedes(s, t)
       /\ pending' = pending \ {s}
       /\ IF s = ALRM /\ Top.cond >= sig_safe
          THEN /\ alarm' = FALSE
               /\ Goto("scan")
          ELSE /\ stack' = Append(Replace([Top EXCEPT !.pc = "scan"]),
                                  Invoke(s, Top.cond))
               /\ UNCHANGED alarm
  /\ UNCHANGED <<allowed, inHandler, kpend, blocked, ghost>>

\* Mutant of RaiseReturn: the level the handlers left behind stays.
RaiseReturnKeepsLevel ==
  /\ At("raise", "check") /\ Ready = {}
  /\ Pop
  /\ UNCHANGED <<flags, kernel, ghost>>

RaiseReturn ==
  /\ At("raise", "check") /\ Ready = {}
  /\ allowed' = Top.lev
  /\ Pop
  /\ UNCHANGED <<pending, inHandler, kernel, ghost>>

-------------------------------------------------------------------------------
(* The specification.                                                      *)

\* main calls install_default_signals and enters the top level's catch.
Init ==
  /\ allowed = sig_normal /\ pending = {} /\ inHandler = 0
  /\ alarm = FALSE /\ kpend = {} /\ blocked = {}
  /\ stack = <<[k |-> "frame", class |-> "catch", ish |-> 0]>>
  /\ sent = 0 /\ owed = {}

Lisp ==
  \/ \E c \in {"catch", "protect"} : PushFrame(c)
  \/ PopFrame
  \/ \E i \in DOMAIN stack : Throw(i)
  \/ \E g \in Collisions : BeginRegion(g)
  \/ EndRegion \/ GentempRetry
  \/ BeginRead \/ EndRead
  \/ Allocate
  \/ HandlerReturns

Kernel ==
  \/ \E s \in Signals \ {ALRM} : Send(s)
  \/ AlarmFires
  \/ \E s \in Signals : Deliver(s)

\* The C code of signal delivery, which only the kernel can hold up.
Delivery ==
  \/ MainAllow \/ MainDelay \/ MainArm \/ MainReturn
  \/ InvokeCall \/ HandlerUnblock \/ SigintCallsLisp \/ SigalrmRaises
  \/ InvokeLeave \/ InvokeReturn
  \/ RaiseScan \/ RaiseNext \/ RaiseReturn

Next == Lisp \/ Kernel \/ Delivery

Spec == Init /\ [][Next]_vars

\* The code above the topmost region is the region's own: no handler runs in it.
InRegion == \E i \in DOMAIN stack :
              /\ stack[i].k = "region"
              /\ \A j \in (i + 1) .. Len(stack) : stack[j].k = "frame"

\* What the program does besides delaying the alarm again: the C code of delivery, and
\* Lisp code that is leaving the extents of a region.
Progress ==
  \/ Delivery /\ ~(Top.k = "main" /\ Top.pc # "called" /\ Top.sig = ALRM)
  \/ InRegion /\ (PopFrame \/ EndRegion)

\* The alarm period is a second: an interrupted activation moves on between two
\* deliveries.  Regions are finite.  The timer, which knows nothing of the
\* program, does not hit a region every time.  Nothing is assumed of Lisp code
\* outside regions: it may loop without allocating, wait in a read, or stay in
\* a break level for ever.
Fairness ==
  /\ WF_vars(Delivery) /\ SF_vars(Progress) /\ SF_vars(EndRegion)
  /\ \A s \in Signals \ {ALRM} : WF_vars(Deliver(s))
  /\ SF_vars(AlarmFires /\ allowed >= sig_normal)
  /\ SF_vars(Deliver(ALRM) /\ allowed >= sig_normal)

FairSpec == Spec /\ Fairness

-------------------------------------------------------------------------------
(* Properties.                                                             *)

\* Types: each variable stays within its C type's meaningful values, the stack
\* holds only well-formed records, and the top level's frame is never popped.
TypeOK ==
  /\ allowed \in Levels /\ pending \subseteq Signals /\ inHandler \in {0, 1}
  /\ alarm \in BOOLEAN /\ kpend \subseteq Signals /\ blocked \subseteq Signals
  /\ stack \in Seq(Records) /\ Len(stack) > 0 /\ stack[1].k = "frame"
  /\ sent \in 0 .. MaxSends /\ owed \subseteq Signals

\* Whenever only frames are on the stack -- no region, read, handler or raise
\* -- signals_allowed is sig_normal: whatever mixture of returns, throws and
\* nested handlers led here, no critical level is left behind.
LevelAtBase == (\A i \in DOMAIN stack : stack[i].k = "frame") => allowed = sig_normal

\* The handlers that took effect at a level where the interrupted instruction
\* may be any, and have not yet returned.
Random(i) ==
  /\ stack[i].k = "invoke" /\ stack[i].lev <= sig_normal
  /\ stack[i].pc \notin {"save", "restore"}

\* in_signal_handler, which makes GBC refuse to move relocatable blocks, is set
\* exactly while such a handler is on the stack: throws reset it to what it was
\* at the frame, nested handlers restore it.
HandlerFlag == inHandler = 1 <=> \E i \in DOMAIN stack : Random(i)

\* Held by the kernel, or pending, or between the kernel's call of
\* main_signal_handler and the call of the handler.
OnItsWay(s) ==
  \/ s \in kpend \cup pending
  \/ \E i \in DOMAIN stack :
       \/ stack[i].k = "main" /\ stack[i].pc = "entry" /\ stack[i].sig = s
       \/ stack[i].k = "invoke" /\ stack[i].pc = "save" /\ stack[i].sig = s

\* A SIGINT that was sent and not yet handled is on its way to its handler: no
\* throw out of a handler, and no handler of another signal, forgets it.
InterruptNotLost == INT \in owed => OnItsWay(INT)

\* A signal sent from outside is forgotten only by a throw that discards the activation
\* carrying it to its handler: delaying, retrying, nesting, and the handlers of other
\* signals that run in between never drop it.
LostOnlyByThrow ==
  [][\A s \in owed : OnItsWay(s) /\ s \in owed' /\ ~OnItsWay(s)'
       => \E i \in DOMAIN stack : Throw(i)]_vars

\* The functions that set signals_allowed back when they return.
Restores(j) ==
  \/ stack[j].k = "raise"
  \/ stack[j].k = "main" /\ stack[j].pc = "called"

\* The code at i will find signals_allowed at level l once all above it has returned.
Resumes(i, l) ==
  \/ allowed = l /\ \A j \in (i + 1) .. Len(stack) : ~Restores(j)
  \/ \E j \in (i + 1) .. Len(stack) :
       /\ Restores(j) /\ stack[j].lev = l
       /\ \A m \in (i + 1) .. (j - 1) : ~Restores(m)

\* Interrupted is the code that main_signal_handler or raise_pending_signals runs on top of.
Interrupted(i) == i < Len(stack) /\ stack[i + 1].k \in {"main", "raise"}

\* Handlers are transparent to signals_allowed: interrupted code that is resumed, rather
\* than thrown over, goes on at the level it was interrupted at, whatever the handlers
\* on top of it, those that interrupted them, and the throws inside them did.
SignalsTransparent ==
  [][\A i \in DOMAIN stack, l \in Levels :
       Interrupted(i) /\ Resumes(i, l)
         => \/ \E t \in 1 .. i : Throw(t)
            \/ i <= Len(stack') /\ Resumes(i, l)']_vars

\* An activation that has set out to retry the delayed signals or to set the alarm.
Retries(r) ==
  \/ r.k = "main" /\ r.pc = "arm"
  \/ r.k = "main" /\ r.pc = "entry" /\ r.sig = ALRM
  \/ r.k = "invoke" /\ r.pc \in {"save", "handler", "unblocked"} /\ r.sig = ALRM
  \/ r.k = "raise" /\ (r.pc = "scan" \/ INT \in r.snap)

\* A delayed SIGINT has its alarm: the alarm runs, or is with the kernel, or some
\* activation is about to retry the signal or to set the alarm again.
RetryArmed ==
  INT \in pending => alarm \/ ALRM \in kpend \/ \E i \in DOMAIN stack : Retries(stack[i])

\* Lisp code runs or reads with SIGALRM masked: another handler took over, and
\* called Lisp or threw, between the kernel's entry and sigalrm's unblocking.
AlarmMasked == ALRM \in blocked /\ (InLisp \/ Top.k = "read")

\* A SIGINT is served even by a program that never allocates again: the alarm
\* retries it, unless that very mechanism has been masked.
InterruptServed == INT \in owed ~> (INT \notin owed \/ AlarmMasked)

-------------------------------------------------------------------------------
(* Why HandlerFlag and LevelAtBase hold: what the activations have saved   *)
(* for the moment they return, or are thrown to.                           *)

Marked(n) == \E i \in 1 .. n : Random(i)

SavesFlag(i) ==
  \/ stack[i].k = "frame"
  \/ stack[i].k = "invoke" /\ stack[i].pc \notin {"save", "restore"}

\* Frames and running handlers hold the value in_signal_handler has to take when
\* everything above them is gone.
FlagInv ==
  /\ (inHandler = 1 <=> Marked(Len(stack)))
  /\ \A i \in 1 .. Len(stack) : SavesFlag(i) => (stack[i].ish = 1 <=> Marked(i - 1))

\* Activations that leave signals_allowed as they found it.
Passive(i) ==
  \/ stack[i].k = "frame"
  \/ stack[i].k = "main" /\ stack[i].pc # "called"

PassiveTo(n) == \A i \in 1 .. n : Passive(i)

SavedLevel(i) ==
  CASE stack[i].k \in {"region", "read"} -> stack[i].old
    [] stack[i].k = "raise" -> stack[i].lev
    [] stack[i].k = "main" -> IF stack[i].pc = "called" THEN stack[i].lev ELSE sig_normal
    [] OTHER -> sig_normal

\* Above passive activations only, the level is normal, or saved as normal; a
\* handler runs on top of the function that restores the level; and GENTEMP meets
\* no interned name.
LevelInv ==
  /\ PassiveTo(Len(stack)) => allowed = sig_normal
  /\ \A i \in 1 .. Len(stack) :
       /\ PassiveTo(i - 1) => SavedLevel(i) = sig_normal
       /\ stack[i].k = "invoke" => i > 1 /\ ~Passive(i - 1)
       /\ stack[i].k = "region" => ~stack[i].gentemp
===============================================================================
