----------------------------- MODULE MCReaderList -----------------------------
(***************************************************************************)
(* Five entries: a list of three with one in the middle, and room to remove *)
(* and add again after it.                                                 *)
(***************************************************************************)
EXTENDS ReaderList, TLC

CONSTANTS e1, e2, e3, e4, e5

MCSymmetry == Permutations(Entries)
=============================================================================
