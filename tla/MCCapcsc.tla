------------------------------- MODULE MCCapcsc -------------------------------
(* Two readers for Capcsc. *)
EXTENDS Capcsc

CONSTANTS a, b
=============================================================================
