----------------------------- MODULE MCInterrupts -----------------------------
(***************************************************************************)
(* Signal delivery for TLC, and the sentences of the source's comments     *)
(* that the code does not keep.                                            *)
(***************************************************************************)
EXTENDS Interrupts

CONSTANT USR1

\* Only SIGINT and SIGALRM are in use, and every GENTEMP name is new.
NoUserSignals == {}
NamesNew == {FALSE}

\* One signal with a handler set by the user.
OneUserSignal == {USR1}

\* GENTEMP may also meet names that are interned already.
NamesMayCollide == {FALSE, TRUE}

\* o/usig2.c:113 says of signals_allowed "sig_none: definitely dont run
\* handler": no handler runs Lisp code on top of a region between
\* BEGIN_NO_INTERRUPT and END_NO_INTERRUPT.  An allocation in the region runs it.
NoHandlerAtNone ==
  \A i \in 1 .. Len(stack) - 1 :
    stack[i].k = "raise" /\ stack[i + 1].k = "invoke" /\ stack[i + 1].pc = "lisp"
      => stack[i].lev # sig_none
===============================================================================
