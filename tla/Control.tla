-------------------------------- MODULE Control --------------------------------
(***************************************************************************)
(* Non-local exits and dynamic binding: the frame stack (o/frame.c,        *)
(* h/frame.h), the bind stack (o/bds.c, h/bds.h), the forms that use them  *)
(* (o/catch.c, o/block.c, o/prog.c) and the signal handlers that run among *)
(* their steps (o/usig2.c).                                                *)
(*                                                                         *)
(* What the C stack holds is a sequence of activations: the forms being    *)
(* evaluated and the handlers that interrupted them.  The frame stack and  *)
(* the bind stack are kept beside it, and the question is whether the      *)
(* three agree however a form is left.  nlj_active tells the code after a  *)
(* setjmp whether it is there for the first time.                          *)
(*                                                                         *)
(* lex_env and ihs_top, saved and restored with the frames as bds_top is,  *)
(* are left out.                                                           *)
(***************************************************************************)
EXTENDS Integers, Sequences, SequencesExt, FiniteSetsExt

CONSTANTS
  Tags,            \* catch tags and block ids
  Symbols,         \* special variables
  Values,
  Nothing,         \* no tag, no symbol, no value
  MaxCode,         \* bound: activations
  MaxBinds,        \* bound: the size of the bind stack
  Windows          \* the instructions at which handlers run that the code does
                   \* not guard and a program may be spared

ASSUME ControlAssumption ==
  /\ Nothing \notin Tags \cup Symbols \cup Values
  /\ MaxCode \in Nat \ {0} /\ MaxBinds \in Nat
  /\ Windows \subseteq {"landing", "binding"}

VARIABLES
  code,            \* the activations, the innermost last
  frs,             \* the frame stack up to frs_top
  bds,             \* the slots of the bind stack
  bds_top,
  dbind,           \* s_dbind of the symbols
  nlj,             \* nlj_active, nlj_fr, nlj_tag
  in_signal_handler

binding == <<bds, bds_top, dbind>>
vars    == <<code, frs, binding, nlj, in_signal_handler>>

NoJump == [active |-> FALSE, fr |-> 0, tag |-> Nothing]

\* An activation: what it is, how far it is, its tag or symbol, the value a let found,
\* the jump an unwind-protect goes on with, what a handler's invoker saved.
Activation(kind, at, key, was, saved) ==
  [kind |-> kind, at |-> at, key |-> key, was |-> was, jump |-> NoJump, saved |-> saved]

top == Last(code)

\* Lisp code runs in the innermost activation.
Running == top.at \in {"body", "cleanup", "recleanup"}

Goes(a) == code' = Front(code) \o <<a>>
Calls(a) == Len(code) < MaxCode /\ code' = Append(code, a)

-------------------------------------------------------------------------------
(* The frame stack.                                                        *)

Kinds == {"catch", "tagbody", "errset", "protect"}

Class(kind) ==
  CASE kind = "errset"  -> "FRS_CATCHALL"
    [] kind = "protect" -> "FRS_PROTECT"
    [] OTHER            -> "FRS_CATCH"

\* frs_push, and the setjmp that belongs to the activation about to start.
Pushed(kind, tag) ==
  [class |-> Class(kind), tag |-> tag, jmpbuf |-> Len(code) + 1, bds_top |-> bds_top,
   handler |-> in_signal_handler]

\* frs_sch finds the frame of a block or tagbody, frs_sch_catch that of a catch or an
\* error-set, whichever is nearer.
frs_sch(tag) == {i \in DOMAIN frs : frs[i].class = "FRS_CATCH" /\ frs[i].tag = tag}
frs_sch_catch(tag) == frs_sch(tag) \cup {i \in DOMAIN frs : frs[i].class = "FRS_CATCHALL"}

\* Mutant of Stop: every frame is passed over, not only those of catches.
StopAtTarget(fr) == fr

\* Where the loop of unwind stops.
Stop(fr) == Max({i \in DOMAIN frs : i = fr \/ frs[i].class # "FRS_CATCH"})

\* Mutant of Undone: the innermost binding of a symbol is undone, the others are
\* dropped.
UndoneOnce(n) ==
  [s \in Symbols |->
     LET mine == {i \in n + 1 .. bds_top : bds[i].sym = s} IN
       IF mine = {} THEN dbind[s] ELSE bds[Max(mine)].val]

\* bds_unwind: the values as they are once the slots above n are undone, the topmost
\* first.
Undone(n) ==
  [s \in Symbols |->
     LET mine == {i \in n + 1 .. bds_top : bds[i].sym = s} IN
       IF mine = {} THEN dbind[s] ELSE bds[Min(mine)].val]

\* Mutant of Unwind: the frame of the target is popped too.
UnwindBelow(fr, tag) ==
  LET f == Stop(fr) IN
    /\ frs' = SubSeq(frs, 1, f - 1)
    /\ dbind' = Undone(frs[f].bds_top)
    /\ bds_top' = frs[f].bds_top
    /\ in_signal_handler' = frs[f].handler
    /\ nlj' = [active |-> TRUE, fr |-> fr, tag |-> tag]
    /\ code' = Append(SubSeq(code, 1, frs[f].jmpbuf - 1),
                      [code[frs[f].jmpbuf] EXCEPT !.at = "pushed"])
    /\ UNCHANGED bds

\* Mutant of Unwind: the bindings are undone, but stay on the bind stack.
UnwindKeepsBinds(fr, tag) ==
  LET f == Stop(fr) IN
    /\ frs' = SubSeq(frs, 1, f)
    /\ dbind' = Undone(frs[f].bds_top)
    /\ in_signal_handler' = frs[f].handler
    /\ nlj' = [active |-> TRUE, fr |-> fr, tag |-> tag]
    /\ code' = Append(SubSeq(code, 1, frs[f].jmpbuf - 1),
                      [code[frs[f].jmpbuf] EXCEPT !.at = "pushed"])
    /\ UNCHANGED <<bds, bds_top>>

\* unwind: no handler runs before its longjmp.
Unwind(fr, tag) ==
  LET f == Stop(fr) IN
    /\ frs' = SubSeq(frs, 1, f)
    /\ dbind' = Undone(frs[f].bds_top)
    /\ bds_top' = frs[f].bds_top
    /\ in_signal_handler' = frs[f].handler
    /\ nlj' = [active |-> TRUE, fr |-> fr, tag |-> tag]
    /\ code' = Append(SubSeq(code, 1, frs[f].jmpbuf - 1),
                      [code[frs[f].jmpbuf] EXCEPT !.at = "pushed"])
    /\ UNCHANGED bds

-------------------------------------------------------------------------------
(* catch and block, tagbody, error-set, unwind-protect; the ways to leave.  *)

Enter(kind, tag) ==
  /\ Running
  /\ Calls(Activation(kind, "pushed", tag, Nothing, Nothing))
  /\ frs' = Append(frs, Pushed(kind, tag))
  /\ UNCHANGED <<binding, nlj, in_signal_handler>>

\* After the setjmp, for the first time: the body.
Begin ==
  /\ top.at = "pushed" /\ ~nlj.active
  /\ Goes([top EXCEPT !.at = "body"])
  /\ UNCHANGED <<frs, binding, nlj, in_signal_handler>>

\* Mutant of Land: nlj_active is not reset.
LandActive ==
  /\ top.at = "pushed" /\ nlj.active /\ top.kind \in {"catch", "errset"}
  /\ frs' = Front(frs)
  /\ code' = Front(code)
  /\ UNCHANGED <<binding, nlj, in_signal_handler>>

\* After a longjmp, a catch or an error-set is over.
Land ==
  /\ top.at = "pushed" /\ nlj.active /\ top.kind \in {"catch", "errset"}
  /\ nlj' = [nlj EXCEPT !.active = FALSE]
  /\ frs' = Front(frs)
  /\ code' = Front(code)
  /\ UNCHANGED <<binding, in_signal_handler>>

\* A tagbody goes on from a label, with its frame.
LandTagbody ==
  /\ top.at = "pushed" /\ nlj.active /\ top.kind = "tagbody"
  /\ nlj' = [nlj EXCEPT !.active = FALSE]
  /\ Goes([top EXCEPT !.at = "body"])
  /\ UNCHANGED <<frs, binding, in_signal_handler>>

\* Mutant of LandProtect: the frame stays.
LandProtectKeepsFrame ==
  /\ top.at = "pushed" /\ nlj.active /\ top.kind = "protect"
  /\ nlj' = [nlj EXCEPT !.active = FALSE]
  /\ Goes([top EXCEPT !.at = "recleanup", !.jump = nlj])
  /\ UNCHANGED <<frs, binding, in_signal_handler>>

\* After a longjmp, an unwind-protect keeps nlj_fr and nlj_tag and cleans up.
LandProtect ==
  /\ top.at = "pushed" /\ nlj.active /\ top.kind = "protect"
  /\ nlj' = [nlj EXCEPT !.active = FALSE]
  /\ frs' = Front(frs)
  /\ Goes([top EXCEPT !.at = "recleanup", !.jump = nlj])
  /\ UNCHANGED <<binding, in_signal_handler>>

\* The body returns.
Leave ==
  /\ top.at = "body" /\ top.kind \in {"catch", "tagbody", "errset"}
  /\ frs' = Front(frs)
  /\ code' = Front(code)
  /\ UNCHANGED <<binding, nlj, in_signal_handler>>

LeaveProtected ==
  /\ top.at = "body" /\ top.kind = "protect"
  /\ frs' = Front(frs)
  /\ Goes([top EXCEPT !.at = "cleanup"])
  /\ UNCHANGED <<binding, nlj, in_signal_handler>>

LeaveCleanup ==
  /\ top.at = "cleanup"
  /\ code' = Front(code)
  /\ UNCHANGED <<frs, binding, nlj, in_signal_handler>>

\* The cleanup is over, the jump goes on.
GoOn == top.at = "recleanup" /\ Unwind(top.jump.fr, top.jump.tag)

Throw(tag) ==
  /\ Running /\ frs_sch_catch(tag) # {}
  /\ Unwind(Max(frs_sch_catch(tag)), tag)

\* return-from and go
ReturnFrom(tag) ==
  /\ Running /\ frs_sch(tag) # {}
  /\ Unwind(Max(frs_sch(tag)), tag)

-------------------------------------------------------------------------------
(* Dynamic binding: bds_bind and bds_unwind1, a store at a time, and setq.  *)

\* Mutant of Bind: the limit is not tested.
BindUnchecked(s) ==
  /\ Running
  /\ Calls(Activation("let", "top", s, Nothing, Nothing))
  /\ bds_top' = bds_top + 1
  /\ UNCHANGED <<frs, bds, dbind, nlj, in_signal_handler>>

\* ++bds_top, short of bds_limit
Bind(s) ==
  /\ Running /\ bds_top < MaxBinds
  /\ Calls(Activation("let", "top", s, Nothing, Nothing))
  /\ bds_top' = bds_top + 1
  /\ UNCHANGED <<frs, bds, dbind, nlj, in_signal_handler>>

\* bds_sym, bds_val
BindSlot ==
  /\ top.at = "top"
  /\ bds' = [bds EXCEPT ![bds_top] = [sym |-> top.key, val |-> dbind[top.key]]]
  /\ Goes([top EXCEPT !.at = "slot", !.was = dbind[top.key]])
  /\ UNCHANGED <<frs, bds_top, dbind, nlj, in_signal_handler>>

BindValue(v) ==
  /\ top.at = "slot"
  /\ dbind' = [dbind EXCEPT ![top.key] = v]
  /\ Goes([top EXCEPT !.at = "body"])
  /\ UNCHANGED <<frs, bds, bds_top, nlj, in_signal_handler>>

Unbind ==
  /\ top.at = "body" /\ top.kind = "let"
  /\ dbind' = [dbind EXCEPT ![bds[bds_top].sym] = bds[bds_top].val]
  /\ Goes([top EXCEPT !.at = "restored"])
  /\ UNCHANGED <<frs, bds, bds_top, nlj, in_signal_handler>>

UnbindTop ==
  /\ top.at = "restored"
  /\ bds_top' = bds_top - 1
  /\ code' = Front(code)
  /\ UNCHANGED <<frs, bds, dbind, nlj, in_signal_handler>>

Setq(s, v) ==
  /\ Running
  /\ dbind' = [dbind EXCEPT ![s] = v]
  /\ UNCHANGED <<code, frs, bds, bds_top, nlj, in_signal_handler>>

-------------------------------------------------------------------------------
(* A handler at any instruction (sig_normal).                              *)

\* invoke_handler, before_interrupt: the globals are saved, nlj_active not cleared.
Interrupt ==
  /\ top.at = "pushed" /\ nlj.active => "landing" \in Windows
  /\ top.at = "top" => "binding" \in Windows
  /\ Calls(Activation("handler", "body", Nothing, Nothing,
                      [nlj |-> nlj, bds_top |-> bds_top,
                       slot |-> IF bds_top = 0 THEN Nothing ELSE bds[bds_top],
                       handler |-> in_signal_handler]))
  /\ in_signal_handler' = TRUE
  /\ UNCHANGED <<frs, binding, nlj>>

\* after_interrupt
HandlerReturn ==
  /\ top.at = "body" /\ top.kind = "handler"
  /\ nlj' = top.saved.nlj
  /\ bds_top' = top.saved.bds_top
  /\ bds' = IF bds_top' = 0 THEN bds ELSE [bds EXCEPT ![bds_top'] = top.saved.slot]
  /\ in_signal_handler' = top.saved.handler
  /\ code' = Front(code)
  /\ UNCHANGED <<frs, dbind>>

-------------------------------------------------------------------------------
Init ==
  /\ code = <<Activation("top", "body", Nothing, Nothing, Nothing)>>
  /\ frs = << >>
  /\ bds = [i \in 1 .. MaxBinds |-> [sym |-> Nothing, val |-> Nothing]]
  /\ bds_top = 0
  /\ dbind \in [Symbols -> Values]
  /\ nlj = NoJump
  /\ in_signal_handler = FALSE

Next ==
  \/ \E tag \in Tags :
       Enter("catch", tag) \/ Enter("tagbody", tag) \/ Throw(tag) \/ ReturnFrom(tag)
  \/ \E kind \in {"errset", "protect"} : Enter(kind, Nothing)
  \/ Begin \/ Land \/ LandTagbody \/ LandProtect
  \/ Leave \/ LeaveProtected \/ LeaveCleanup \/ GoOn
  \/ \E s \in Symbols : Bind(s)
  \/ \E s \in Symbols, v \in Values : Setq(s, v)
  \/ BindSlot
  \/ \E v \in Values : BindValue(v)
  \/ Unbind \/ UnbindTop
  \/ Interrupt \/ HandlerReturn

Spec == Init /\ [][Next]_vars

-------------------------------------------------------------------------------
Jumps == [active : BOOLEAN, fr : Nat, tag : Tags \cup {Nothing}]
Slots == [sym : Symbols \cup {Nothing}, val : Values \cup {Nothing}]

Frames ==
  [class : {"FRS_CATCH", "FRS_CATCHALL", "FRS_PROTECT"}, tag : Tags \cup {Nothing},
   jmpbuf : Nat, bds_top : 0 .. MaxBinds, handler : BOOLEAN]

SavedGlobals ==
  [nlj : Jumps, bds_top : 0 .. MaxBinds, slot : Slots \cup {Nothing}, handler : BOOLEAN]

Activations ==
  [kind : Kinds \cup {"top", "let", "handler"},
   at : {"pushed", "body", "cleanup", "recleanup", "top", "slot", "restored"},
   key : Tags \cup Symbols \cup {Nothing}, was : Values \cup {Nothing}, jump : Jumps,
   saved : SavedGlobals \cup {Nothing}]

\* Types, and that the bind stack stays within its limits.
TypeOK ==
  /\ code \in Seq(Activations) /\ Len(code) \in 1 .. MaxCode
  /\ frs \in Seq(Frames)
  /\ bds \in [1 .. MaxBinds -> Slots] /\ bds_top \in 0 .. MaxBinds
  /\ dbind \in [Symbols -> Values]
  /\ nlj \in Jumps
  /\ in_signal_handler \in BOOLEAN

\* Whether an activation has a frame on the frame stack.
Framed(a) == a.kind \in Kinds /\ a.at \in {"pushed", "body"}

\* The frame stack holds the frames of the forms whose body runs, in their order, and
\* each would jump back into its own form: none is left behind by a form that is
\* over, and none is missing.
FramesMatch ==
  /\ \A i \in DOMAIN frs :
       /\ frs[i].jmpbuf \in DOMAIN code
       /\ LET a == code[frs[i].jmpbuf] IN
            Framed(a) /\ frs[i].class = Class(a.kind) /\ frs[i].tag = a.key
       /\ \A j \in 1 .. i - 1 : frs[j].jmpbuf < frs[i].jmpbuf
  /\ \A k \in DOMAIN code : Framed(code[k]) => \E i \in DOMAIN frs : frs[i].jmpbuf = k

\* The frame a jump is aimed at is there, and the one that was searched for, during the
\* jump and while the cleanup forms it passes run, whatever they do.
TargetStands ==
  LET stands(jump) ==
        /\ jump.fr \in DOMAIN frs
        /\ \/ frs[jump.fr].class = "FRS_CATCH" /\ frs[jump.fr].tag = jump.tag
           \/ frs[jump.fr].class = "FRS_CATCHALL"
  IN /\ nlj.active => stands(nlj)
     /\ \A k \in DOMAIN code : 
          code[k].at = "recleanup" =>
            stands(code[k].jump) /\ frs[code[k].jump.fr].jmpbuf < k

\* An unwind-protect is not left before its cleanup forms have begun, and having begun
\* they do not begin again: not by a throw, a return-from, an error-set that traps the
\* jump, or a handler that throws.
CleanupsRun ==
  [][\A k \in DOMAIN code :
       code[k].kind = "protect" =>
         IF Framed(code[k])
         THEN k \in DOMAIN code' /\ code'[k].kind = "protect"
         ELSE k \in DOMAIN code' => code'[k] = code[k]]_vars

\* The bindings of s that a step to a shorter code leaves.
LetsLeft(s) ==
  {k \in Len(code') + 1 .. Len(code) :
     code[k].kind = "let" /\ code[k].at # "top" /\ code[k].key = s}

\* However bindings are left, the special variable gets back the value that the
\* outermost of them found; a jump leaves the other variables alone.  "do this so that
\* an interrupt in the middle will leave the VALID part of the bds stack ie (<= bds_top)
\* in a valid state, so that a throw out will be ok" (h/bds.h).
BindingsUndone ==
  [][/\ nlj'.active /\ ~nlj.active =>
          \A s \in Symbols :
            dbind'[s] = IF LetsLeft(s) = {} THEN dbind[s] ELSE code[Min(LetsLeft(s))].was
     /\ top.at = "body" /\ Last(code').at = "restored" /\ Len(code') = Len(code) =>
          dbind'[top.key] = top.was]_vars

\* A handler that returns has left the bind stack as it found it, with no frame of its own
\* and no jump under way, whatever it bound, caught and threw meanwhile: what
\* after_interrupt puts back is what is there.
HandlersBalanced ==
  [][HandlerReturn =>
       /\ bds' = bds /\ bds_top' = bds_top
       /\ ~nlj.active /\ ~nlj'.active
       /\ \A i \in DOMAIN frs : frs[i].jmpbuf < Len(code)]_vars

\* Lisp code runs with nlj_active false, as the first frame it pushes assumes.
Quiet == Running => ~nlj.active
===============================================================================
