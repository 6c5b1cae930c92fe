-------------------------------- MODULE MCArena --------------------------------
(* A small heap, without the signals that arrive where the code does not guard. *)
EXTENDS Arena

NoWindows == {}
===============================================================================
