------------------------------- MODULE MCVCard -------------------------------
(***************************************************************************)
(* Instances of VCard.  Lengths are real: a 4096 bit key makes signatures  *)
(* of 512 bytes out of two pieces of 256, so that chains pass the counts   *)
(* 512, 257, 256, 255, 1 and 0; Les holds no expected length, one below,   *)
(* at and above the limit of a short command.                              *)
(***************************************************************************)
EXTENDS VCard

CONSTANTS pkiA, pass, aca, e, gp, ms, v, w, hollow, absent, own

(* contents: own files, absent object (two zero bytes), two readable       *)
(* versions, and one whose values are all empty                            *)
MCContent == {v, w, hollow, absent, own}
MCTagLen == [c \in MCContent |-> IF c \in {v, w} THEN 6 ELSE IF c = own THEN 20 ELSE IF c = hollow THEN 4 ELSE 2]
MCValLen == [c \in MCContent |-> IF c \in {v, w} THEN 9 ELSE IF c = own THEN 260 ELSE IF c = hollow THEN 0 ELSE 2]
MCReadRanges == {<<0, 255>>, <<255, 255>>, <<4, 255>>, <<0, 0>>}
MCPropCommands ==
    {<<0, 0, 0, TRUE>>, <<1, 1, 0, TRUE>>, <<1, 0, 1, TRUE>>,
     <<2, 0, 0, TRUE>>, <<2, 0, 1, FALSE>>}
MCAcrCommands ==
    {<<0, 1, 0, TRUE>>, <<2, 0, 0, TRUE>>, <<17, 0, 2, TRUE>>,
     <<1, 0, 1, FALSE>>, <<17, 0, 7, FALSE>>, <<18, 0, 2, FALSE>>}
MCFewRanges == {<<0, 4>>, <<2, 255>>}
=============================================================================
