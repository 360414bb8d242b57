------------------------------ MODULE MCCacCards ------------------------------
(* Cards of two certificates for CacCards: lengths on both sides of the    *)
(* one-byte limit, one that no length can tell, and eleven certificates.   *)
EXTENDS CacCards

CONSTANTS t1, t2

MCTwoEach == {<<3, 254>>, <<255, 300>>, <<3, 65535>>, [i \in 1..11 |-> 3]}
MCShrinking == {<<3, 3>>, <<3>>}
MCGrowing == {<<3>>, <<3, 3>>}
MCWrap == {<<65533>>}
=============================================================================
