------------------------------ MODULE MCRefCount ------------------------------
(***************************************************************************)
(* Three threads and four references: a thread can own two and hand one    *)
(* over while the two others free theirs.                                  *)
(***************************************************************************)
EXTENDS RefCount, TLC

CONSTANTS t1, t2, t3, r1, r2, r3, r4

MCSymmetry == Permutations(Threads) \cup Permutations(Refs)
=============================================================================
