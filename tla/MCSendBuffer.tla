----------------------------- MODULE MCSendBuffer -----------------------------
(* Two threads that send to one peer. *)
EXTENDS SendBuffer
=============================================================================
