---------------------------- MODULE SimpleTlvTag ----------------------------
(***************************************************************************)
(* The tag and length bytes of Simple TLV (simpletlv.c) and the two-byte   *)
(* little-endian numbers (common.h).  A length below 255 takes one byte, a *)
(* longer one 255 and two bytes.  A byte string is a sequence of 0..255;   *)
(* Failed stands for the C functions' return value -1.                     *)
(***************************************************************************)
EXTENDS Integers, Sequences

(* the length byte that announces two more, and the first length that has  *)
(* no encoding                                                             *)
LongForm == 255
TooLong == 65535

Failed == <<>>

(* ushort2lebytes, lebytes2ushort *)
ushort2lebytes(n) == <<n % 256, (n \div 256) % 256>>
lebytes2ushort(p) == p[1] + 256 * p[2]

(* the bytes simpletlv_get_length counts for the tag and the length *)
header_length(datalen) == IF datalen < LongForm THEN 2 ELSE 4

(* variant for mutation: 255 still takes one byte *)
PutTagOneByte255(tag, datalen, outlen) ==
    IF outlen < 2 \/ (outlen < 4 /\ datalen >= LongForm) \/ tag \in {0, LongForm} \/ datalen >= TooLong
    THEN Failed
    ELSE IF datalen <= LongForm THEN <<tag, datalen>>
         ELSE LET b == ushort2lebytes(datalen) IN <<tag, LongForm, b[1], b[2]>>

(* simpletlv_put_tag into a buffer with room for outlen bytes *)
simpletlv_put_tag(tag, datalen, outlen) ==
    IF outlen < 2 \/ (outlen < 4 /\ datalen >= LongForm) \/ tag \in {0, LongForm} \/ datalen >= TooLong
    THEN Failed
    ELSE IF datalen < LongForm THEN <<tag, datalen>>
         ELSE LET b == ushort2lebytes(datalen) IN <<tag, LongForm, b[1], b[2]>>

(* simpletlv_read_tag from the bytes buf: the tag, the length and what     *)
(* follows, or Failed                                                      *)
simpletlv_read_tag(buf) ==
    IF Len(buf) < 2 \/ (buf[2] = LongForm /\ Len(buf) < 4) THEN Failed
    ELSE IF buf[2] # LongForm THEN <<buf[1], buf[2], SubSeq(buf, 3, Len(buf))>>
    ELSE <<buf[1], lebytes2ushort(<<buf[3], buf[4]>>), SubSeq(buf, 5, Len(buf))>>
=============================================================================
