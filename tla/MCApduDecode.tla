---------------------------- MODULE MCApduDecode ----------------------------
(***************************************************************************)
(* Instance of ApduDecode: every combination of a length, a fifth byte and *)
(* length fields around the boundaries of the seven encodings, with the    *)
(* class bytes of every type.                                              *)
(***************************************************************************)
EXTENDS ApduDecode

MCLens == {3, 4, 5, 6, 7, 8, 9, 10, 259, 260, 261, 262, 263, 264, 265,
           65541, 65542, 65543, 65544}
MCWords == {0, 1, 2, 255, 256, 65535}
MCCommands ==
    [len : MCLens, cla : {0}, p3 : {0, 1, 2, 255}, ext : MCWords,
     tail : MCWords]
MCClassCommands ==
    [len : {4}, cla : Byte, p3 : {0}, ext : {0}, tail : {0}]
MCDataLengths == {0, 1, 2, 3, 254, 255, 256, 257, 65534, 65535}
MCExpectedLengths == {0, 1, 2, 255, 256, 257, 65535, 65536}
=============================================================================
