------------------------------ MODULE SimpleTlv ------------------------------
(***************************************************************************)
(* Simple TLV structures (simpletlv.c).  A structure is a sequence of      *)
(* members [tag, type, value]: the value of a LEAF is a byte string, that  *)
(* of a COMPOUND a structure, and a member of type NONE is skipped.  The   *)
(* kind of buffer is the set of the parts it holds.                        *)
(***************************************************************************)
EXTENDS SimpleTlvTag, SequencesExt

TL == {"TL"}
VALUE == {"VALUE"}
BOTH == TL \cup VALUE

Leaf(tag, value) == [tag |-> tag, type |-> "LEAF", value |-> value]
Compound(tag, child) == [tag |-> tag, type |-> "COMPOUND", value |-> child]
Used(tlv) == SelectSeq(tlv, LAMBDA m : m.type # "NONE")

(* simpletlv_get_length, and the length of the value of one member *)
RECURSIVE simpletlv_get_length(_, _)
ChildLength(m) == IF m.type = "COMPOUND" THEN simpletlv_get_length(m.value, BOTH)
                  ELSE Len(m.value)
simpletlv_get_length(tlv, kind) ==
    LET Size(m) == (IF "TL" \in kind THEN header_length(ChildLength(m)) ELSE 0)
                   + (IF "VALUE" \in kind THEN ChildLength(m) ELSE 0)
    IN  IF kind # BOTH /\ \E i \in DOMAIN tlv : tlv[i].type = "COMPOUND" THEN -1
        ELSE FoldLeft(LAMBDA len, m : len + Size(m), 0, Used(tlv))

(* simpletlv_encode_internal into a buffer of outlen bytes, a new one of   *)
(* the expected length when outlen is 0: the return value and the bytes.   *)
(* A child is given the room that was left before its tag was put.         *)
RECURSIVE simpletlv_encode_internal(_, _, _)
simpletlv_encode_internal(tlv, kind, outlen) ==
    LET expect_len == simpletlv_get_length(tlv, kind)
        room == IF outlen = 0 THEN expect_len ELSE outlen
        failure == [rv |-> -1, out |-> <<>>]
        Encode(done, m) ==
            LET p_len == room - Len(done.out)
                head == IF "TL" \in kind THEN simpletlv_put_tag(m.tag, ChildLength(m), p_len)
                        ELSE <<>>
                body == IF "VALUE" \notin kind THEN [rv |-> 0, out |-> <<>>]
                        ELSE IF m.type = "LEAF" THEN [rv |-> 0, out |-> m.value]
                        ELSE simpletlv_encode_internal(m.value, kind, p_len)
            IN  IF done.rv < 0 \/ ("TL" \in kind /\ head = Failed) \/ body.rv < 0
                THEN failure
                ELSE LET out == done.out \o head \o body.out IN [rv |-> Len(out), out |-> out]
    IN  IF expect_len <= 0 THEN [rv |-> expect_len, out |-> <<>>]
        ELSE IF room < expect_len THEN failure
        ELSE FoldLeft(Encode, [rv |-> 0, out |-> <<>>], Used(tlv))

(* simpletlv_encode, simpletlv_encode_tl, simpletlv_encode_val *)
simpletlv_encode(tlv, outlen) == simpletlv_encode_internal(tlv, BOTH, outlen)
simpletlv_encode_tl(tlv, outlen) == simpletlv_encode_internal(tlv, TL, outlen)
simpletlv_encode_val(tlv, outlen) == simpletlv_encode_internal(tlv, VALUE, outlen)

(* simpletlv_merge; simpletlv_clone copies the values, so a clone is the   *)
(* structure itself                                                        *)
simpletlv_merge(a, b) == a \o b
simpletlv_clone(tlv) == tlv

(* simpletlv_parse: the members up to the first that is not complete *)
RECURSIVE simpletlv_parse(_)
simpletlv_parse(data) ==
    LET t == simpletlv_read_tag(data)
        vlen == t[2]
        p == t[3]
    IN  IF t = Failed \/ vlen > Len(p) THEN <<>>
        ELSE <<Leaf(t[1], SubSeq(p, 1, vlen))>>
             \o simpletlv_parse(SubSeq(p, vlen + 1, Len(p)))
=============================================================================
