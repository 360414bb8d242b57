----------------------------- MODULE MCNssEvents -----------------------------
(***************************************************************************)
(* Instances of NssEvents: Cards holds as many cards as the tokens and the *)
(* forced insertions of the instance can make.                             *)
(***************************************************************************)
EXTENDS NssEvents

CONSTANTS c1, c2, c3, et, main, u1
=============================================================================
