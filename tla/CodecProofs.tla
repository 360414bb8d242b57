---------------------------- MODULE CodecProofs ----------------------------
(***************************************************************************)
(* The two codecs on bytes.  The decoder of module Apdu is the inverse of  *)
(* the encodings of ISO 7816-4, for every command of any length; what      *)
(* simpletlv_put_tag writes, simpletlv_read_tag reads and                  *)
(* simpletlv_get_length counts, for every tag and length.                  *)
(***************************************************************************)
EXTENDS ApduDecode, SimpleTlvTag, SequenceTheorems, TLAPS

(* Division of a number by 256 (the bytes of common.h). *)
LEMMA DivMod ==
    ASSUME NEW n \in Int
    PROVE  /\ n \div 256 \in Int /\ (n % 256) \in Int
           /\ (n % 256) >= 0 /\ (n % 256) <= 255
           /\ n = 256 * (n \div 256) + (n % 256)
  BY SMT

-----------------------------------------------------------------------------
(* The APDU decoder *)

(* the decoder's state is that of the command being processed *)
DecodedInv ==
    /\ raw = None => apdu = WrongLength /\ class = SetClass(0)
    /\ raw # None =>
         /\ raw \in Commands
         /\ apdu = vcard_apdu_new(raw)
         /\ class = SetClass(raw.cla)

(* the fields of a raw command as bounded numbers *)
RawFields(r) ==
    /\ r.len \in Nat /\ r.p3 \in Nat /\ r.ext \in Nat /\ r.tail \in Nat
    /\ r.p3 <= 255 /\ r.ext <= 65535 /\ r.tail <= 65535
    /\ (r.tail % 256) \in Nat /\ r.tail % 256 <= 255

(* The bytes of a command are bytes.                                       *)
LEMMA RawFieldTypes == ASSUME NEW r \in RawApdu PROVE RawFields(r)
<1>1. r.len \in Nat /\ r.p3 \in Byte /\ r.ext \in Word /\ r.tail \in Word
  BY DEF RawApdu
<1>2. \A b \in Byte : b \in Nat /\ b <= 255
  BY SMTT(30) DEF Byte
<1>3. ASSUME NEW w \in Word PROVE w \in Nat /\ w <= 65535
  BY SMTT(30) DEF Word
<1>4. (r.tail % 256) \in Nat /\ r.tail % 256 <= 255
  BY <1>1, <1>3, DivMod
<1>5. QED BY <1>1, <1>2, <1>3, <1>4 DEF RawFields

(* What vcard_apdu_new accepts is an encoding of the lengths it returns.   *)
LEMMA AcceptedIsEncoding ==
    ASSUME NEW r \in RawApdu, vcard_apdu_new(r).status = "SUCCESS"
    PROVE  Encodes(r, vcard_apdu_new(r).Lc, vcard_apdu_new(r).Le)
<1>0. RawFields(r)
  BY RawFieldTypes
<1>1. CASE r.len <= 5
  BY <1>0, <1>1, SMT DEF RawFields, vcard_apdu_new, SetLength, Lengths, WrongLength, LeShort,
     Encodes, EncodesShort
<1>2. CASE r.len > 5 /\ r.p3 = 0
  BY <1>0, <1>2, SMT DEF RawFields, vcard_apdu_new, SetLength, ExtendedLengths, Lengths,
     WrongLength, LeExtended, Encodes, EncodesExtended
<1>3. CASE r.len > 5 /\ r.p3 > 0
  BY <1>0, <1>3, SMT DEF RawFields, vcard_apdu_new, SetLength, ShortLengths, Lengths,
     WrongLength, LeShort, Encodes, EncodesShort
<1>4. QED BY <1>0, <1>1, <1>2, <1>3, SMT DEF RawFields

(* Every encoding is accepted and decodes to the lengths it encodes.       *)
LEMMA EncodingIsAccepted ==
    ASSUME NEW r \in RawApdu, NEW Lc \in Nat, NEW Le \in Nat,
           Lc <= 65535, Le <= 65536,
           Encodes(r, Lc, Le)
    PROVE  /\ vcard_apdu_new(r).status = "SUCCESS"
           /\ vcard_apdu_new(r).Lc = Lc
           /\ vcard_apdu_new(r).Le = Le
<1>0. RawFields(r)
  BY RawFieldTypes
<1>1. CASE EncodesShort(r, Lc, Le)
  BY <1>0, <1>1, SMT DEF RawFields, vcard_apdu_new, SetLength, ShortLengths, Lengths,
     WrongLength, LeShort, EncodesShort
<1>2. CASE EncodesExtended(r, Lc, Le)
  BY <1>0, <1>2, SMT DEF RawFields, vcard_apdu_new, SetLength, ExtendedLengths, Lengths,
     WrongLength, LeExtended, EncodesExtended
<1>3. QED BY <1>1, <1>2 DEF Encodes

(* The body of an accepted command and its Le field fill the command.      *)
LEMMA BodyOfAccepted ==
    ASSUME NEW r \in RawApdu, vcard_apdu_new(r).status = "SUCCESS"
    PROVE  LET a == vcard_apdu_new(r)
           IN  /\ a.Lc > 0 => a.body > 0
               /\ a.body > 0 => a.body + a.Lc + LeFieldLength(a) = r.len
<1>0. RawFields(r)
  BY RawFieldTypes
<1>1. CASE r.len <= 5
  BY <1>0, <1>1, SMT DEF RawFields, vcard_apdu_new, SetLength, Lengths, WrongLength,
     LeFieldLength
<1>2. CASE r.len > 5 /\ r.p3 = 0
  BY <1>0, <1>2, SMT DEF RawFields, vcard_apdu_new, SetLength, ExtendedLengths, Lengths,
     WrongLength, LeExtended, LeFieldLength
<1>3. CASE r.len > 5 /\ r.p3 > 0
  BY <1>0, <1>3, SMT DEF RawFields, vcard_apdu_new, SetLength, ShortLengths, Lengths,
     WrongLength, LeShort, LeFieldLength
<1>4. QED BY <1>0, <1>1, <1>2, <1>3, SMT DEF RawFields

(* The decoder's state is always that of the command being processed.      *)
THEOREM StateIsDecoded == Spec => []DecodedInv
<1>1. Init => DecodedInv
  BY DEF Init, DecodedInv
<1>2. DecodedInv /\ [Next]_vars => DecodedInv'
  <2> SUFFICES ASSUME DecodedInv, [Next]_vars PROVE DecodedInv'
    OBVIOUS
  <2>1. ASSUME NEW r \in Commands, Receive(r) PROVE DecodedInv'
    BY <2>1, CommandsAssumption DEF Receive, DecodedInv
  <2>2. CASE Done
    BY <2>2 DEF Done, DecodedInv
  <2>3. CASE UNCHANGED vars
    BY <2>3 DEF vars, DecodedInv
  <2>4. QED BY <2>1, <2>2, <2>3 DEF Next
<1>3. QED BY <1>1, <1>2, PTL DEF Spec

(* For every set of commands, what vcard_apdu_set_length accepts is an     *)
(* encoding of the lengths it returns.                                     *)
THEOREM DecoderSound == Spec => []DecodeSound
<1>1. DecodedInv => DecodeSound
  BY AcceptedIsEncoding, CommandsAssumption
     DEF DecodedInv, DecodeSound, WrongLength
<1>2. QED BY <1>1, StateIsDecoded, PTL

(* For every set of commands, each encoding is accepted with its lengths.  *)
THEOREM DecoderComplete == Spec => []DecodeComplete
<1>1. DecodedInv => DecodeComplete
  <2> SUFFICES ASSUME DecodedInv, raw # None,
                      NEW Lc \in DataLengths, NEW Le \in ExpectedLengths,
                      Encodes(raw, Lc, Le)
               PROVE  apdu.status = "SUCCESS" /\ apdu.Lc = Lc /\ apdu.Le = Le
    BY DEF DecodeComplete
  <2>1. raw \in RawApdu /\ apdu = vcard_apdu_new(raw)
    BY CommandsAssumption DEF DecodedInv
  <2>2. Lc \in Nat /\ Le \in Nat /\ Lc <= 65535 /\ Le <= 65536
    BY LengthsAssumption
  <2>3. QED BY <2>1, <2>2, EncodingIsAccepted
<1>2. QED BY <1>1, StateIsDecoded, PTL

(* For every set of commands, the data of an accepted command lies inside  *)
(* the bytes received.                                                     *)
THEOREM BodyStaysInside == Spec => []BodyInside
<1>1. DecodedInv => BodyInside
  BY BodyOfAccepted, CommandsAssumption
     DEF DecodedInv, BodyInside, WrongLength
<1>2. QED BY <1>1, StateIsDecoded, PTL

-----------------------------------------------------------------------------
(* Simple TLV *)

(* The high byte of a 16-bit number is a byte. *)
LEMMA HighByte ==
    ASSUME NEW q \in Int, NEW r \in Int, NEW n \in Int, r >= 0, r <= 255,
           n = 256 * q + r, n >= 0, n <= 65535
    PROVE  q >= 0 /\ q <= 255
  BY SMT

(* A number below 256 is its own low byte. *)
LEMMA SmallMod == ASSUME NEW q \in Int, q >= 0, q <= 255 PROVE (q % 256) = q
  BY SMT

(* The two bytes of a 16-bit number give the number back (common.h). *)
LEMMA UshortRoundTrip ==
    ASSUME NEW n \in Int, n >= 0, n <= TooLong
    PROVE  \E lo, hi \in Byte : /\ ushort2lebytes(n) = <<lo, hi>>
                                /\ lebytes2ushort(<<lo, hi>>) = n
<1> DEFINE q == n \div 256
           r == n % 256
<1>1. /\ q \in Int /\ r \in Int /\ r >= 0 /\ r <= 255
      /\ n = 256 * q + r
  BY DivMod
<1>2. ushort2lebytes(n) = <<r, q % 256>>
  BY DEF ushort2lebytes
<1> HIDE DEF q, r
<1>3. q >= 0 /\ q <= 255
  BY <1>1, HighByte, SMT DEF TooLong
<1>4. ushort2lebytes(n) = <<r, q>>
  BY <1>1, <1>2, <1>3, SmallMod
<1>5. lebytes2ushort(<<r, q>>) = n
  BY <1>1 DEF lebytes2ushort
<1>6. r \in Byte /\ q \in Byte
  BY <1>1, <1>3, SMT DEF Byte
<1> QED  BY <1>4, <1>5, <1>6

(* What simpletlv_put_tag refuses (simpletlv.c:181-199): a buffer without  *)
(* room for the tag and the length, the tags 0 and 255, and every length   *)
(* from 65535 on, although two bytes would hold 65535.  What it accepts    *)
(* takes exactly the bytes simpletlv_get_length counts.                    *)
THEOREM PutTagFits ==
    ASSUME NEW tag \in Byte, NEW datalen \in Nat, NEW outlen \in Nat
    PROVE  LET p == simpletlv_put_tag(tag, datalen, outlen) IN
           IF /\ tag # 0 /\ tag # LongForm /\ datalen < TooLong
              /\ header_length(datalen) <= outlen
           THEN p \in Seq(Byte) /\ Len(p) = header_length(datalen)
           ELSE p = Failed
<1>1. CASE ~ (/\ tag # 0 /\ tag # LongForm /\ datalen < TooLong
              /\ header_length(datalen) <= outlen)
  BY <1>1, SMT DEF simpletlv_put_tag, header_length, LongForm, TooLong
<1>2. CASE tag # 0 /\ tag # LongForm /\ datalen < LongForm /\ 2 <= outlen
  <2>1. simpletlv_put_tag(tag, datalen, outlen) = <<tag, datalen>>
    BY <1>2, SMT DEF simpletlv_put_tag, LongForm, TooLong
  <2>2. datalen \in Byte /\ header_length(datalen) = 2
    BY <1>2, SMT DEF Byte, header_length, LongForm
  <2>3. <<tag, datalen>> \in Seq(Byte) /\ Len(<<tag, datalen>>) = 2
    BY <2>2, SMT
  <2>4. datalen < TooLong
    BY <1>2, SMT DEF LongForm, TooLong
  <2> QED  BY <1>2, <2>1, <2>2, <2>3, <2>4, Zenon
<1>3. CASE /\ tag # 0 /\ tag # LongForm /\ datalen >= LongForm /\ datalen < TooLong
           /\ 4 <= outlen
  <2>1. datalen \in Int /\ datalen >= 0 /\ datalen <= TooLong
    BY <1>3, SMT DEF TooLong
  <2>2. PICK lo, hi \in Byte : ushort2lebytes(datalen) = <<lo, hi>>
    BY <2>1, UshortRoundTrip, Zenon
  <2>3. simpletlv_put_tag(tag, datalen, outlen) = <<tag, LongForm, lo, hi>>
    BY <1>3, <2>2, SMT DEF simpletlv_put_tag, LongForm, TooLong
  <2>4. <<tag, LongForm, lo, hi>> \in Seq(Byte) /\ Len(<<tag, LongForm, lo, hi>>) = 4
    BY SMT DEF Byte, LongForm
  <2>5. header_length(datalen) = 4
    BY <1>3, SMT DEF header_length, LongForm
  <2> QED  BY <1>3, <2>3, <2>4, <2>5, Zenon
<1> QED  BY <1>1, <1>2, <1>3, SMT DEF header_length, LongForm

(* What follows a prefix of k bytes. *)
LEMMA AfterPrefix ==
    ASSUME NEW p \in Seq(Int), NEW rest \in Seq(Int), NEW k \in Nat, Len(p) = k
    PROVE  SubSeq(p \o rest, k + 1, Len(p \o rest)) = rest
<1> DEFINE b == p \o rest
           s == SubSeq(b, k + 1, Len(b))
<1>1. b \in Seq(Int) /\ Len(b) = k + Len(rest) /\ Len(rest) \in Nat
  BY SMTT(20)
<1>2. \A i \in 1..Len(rest) : b[k + i] = rest[i]
  BY SMTT(20)
<1> HIDE DEF b
<1>3. s \in Seq(Int)
  BY <1>1, SMTT(20)
<1>4. Len(s) = Len(rest)
  BY <1>1, SMTT(20)
<1>5. ASSUME NEW i \in 1..Len(s)
      PROVE  s[i] = rest[i]
  <2>1. i \in 1..Len(rest)
    BY <1>4
  <2>2. s[i] = b[k + i]
    BY <1>1, <2>1, SMTT(20)
  <2> QED  BY <1>2, <2>1, <2>2, Zenon
<1> HIDE DEF s
<1>6. s = rest
  BY <1>3, <1>4, <1>5, SeqEqual, Zenon
<1> QED  BY <1>6 DEF s, b

(* The bytes of a prefix of k bytes. *)
LEMMA InPrefix ==
    ASSUME NEW p \in Seq(Int), NEW rest \in Seq(Int), NEW k \in Nat, Len(p) = k,
           NEW i \in 1..k
    PROVE  (p \o rest)[i] = p[i] /\ Len(p \o rest) >= k
<1>1. /\ Len(p \o rest) = Len(p) + Len(rest)
      /\ \A m \in 1..Len(p) + Len(rest) :
           (p \o rest)[m] = IF m <= Len(p) THEN p[m] ELSE rest[m - Len(p)]
  BY ConcatProperties, Zenon
<1>2. Len(rest) \in Nat
  OBVIOUS
<1>3. i \in 1..Len(p) + Len(rest) /\ i <= Len(p)
  BY <1>2, SMT
<1>4. (p \o rest)[i] = p[i]
  BY <1>1, <1>3, Zenon
<1>5. Len(p) + Len(rest) >= k
  BY <1>2, SMT
<1> QED  BY <1>1, <1>4, <1>5, Zenon

(* A header of two bytes and one of four in front of other bytes. *)
LEMMA Header2 ==
    ASSUME NEW rest \in Seq(Int), NEW a \in Int, NEW b \in Int
    PROVE  LET q == <<a, b>> \o rest IN
           q[1] = a /\ q[2] = b /\ Len(q) >= 2 /\ SubSeq(q, 3, Len(q)) = rest
<1> DEFINE p == <<a, b>>
<1>1. p \in Seq(Int) /\ 2 \in Nat /\ Len(p) = 2 /\ p[1] = a /\ p[2] = b
  BY SMTT(10)
<1> HIDE DEF p
<1>2. SubSeq(p \o rest, 3, Len(p \o rest)) = rest
  <2>1. SubSeq(p \o rest, 2 + 1, Len(p \o rest)) = rest
    BY <1>1, AfterPrefix, Zenon
  <2>2. 2 + 1 = 3
    OBVIOUS
  <2> QED  BY <2>1, <2>2, SMT
<1>3. \A i \in 1..2 : (p \o rest)[i] = p[i] /\ Len(p \o rest) >= 2
  BY <1>1, InPrefix, Zenon
<1>4. 1 \in 1..2 /\ 2 \in 1..2
  BY SMT
<1>5. LET q == p \o rest IN
      q[1] = a /\ q[2] = b /\ Len(q) >= 2 /\ SubSeq(q, 3, Len(q)) = rest
  BY <1>1, <1>2, <1>3, <1>4, Zenon
<1> QED  BY <1>5 DEF p

LEMMA Header4 ==
    ASSUME NEW rest \in Seq(Int), NEW a \in Int, NEW b \in Int, NEW c \in Int, NEW d \in Int
    PROVE  LET q == <<a, b, c, d>> \o rest IN
           /\ q[1] = a /\ q[2] = b /\ q[3] = c /\ q[4] = d /\ Len(q) >= 4
           /\ SubSeq(q, 5, Len(q)) = rest
<1> DEFINE p == <<a, b, c, d>>
<1>1. p \in Seq(Int) /\ 4 \in Nat /\ Len(p) = 4 /\ p[1] = a /\ p[2] = b /\ p[3] = c /\ p[4] = d
  BY SMTT(10)
<1> HIDE DEF p
<1>2. SubSeq(p \o rest, 5, Len(p \o rest)) = rest
  <2>1. SubSeq(p \o rest, 4 + 1, Len(p \o rest)) = rest
    BY <1>1, AfterPrefix, Zenon
  <2>2. 4 + 1 = 5
    OBVIOUS
  <2> QED  BY <2>1, <2>2, SMT
<1>3. \A i \in 1..4 : (p \o rest)[i] = p[i] /\ Len(p \o rest) >= 4
  BY <1>1, InPrefix, Zenon
<1>4. 1 \in 1..4 /\ 2 \in 1..4 /\ 3 \in 1..4 /\ 4 \in 1..4
  BY SMT
<1>5. LET q == p \o rest IN
      /\ q[1] = a /\ q[2] = b /\ q[3] = c /\ q[4] = d /\ Len(q) >= 4
      /\ SubSeq(q, 5, Len(q)) = rest
  BY <1>1, <1>2, <1>3, <1>4, Zenon
<1> QED  BY <1>5 DEF p

(* What was put is read back: tag, length and the bytes that follow, for   *)
(* every tag and length simpletlv_put_tag accepts (simpletlv.c:209-236).   *)
THEOREM ReadPut ==
    ASSUME NEW tag \in Byte, tag # 0, tag # LongForm,
           NEW datalen \in Nat, datalen < TooLong, NEW outlen \in Nat,
           header_length(datalen) <= outlen, NEW rest \in Seq(Byte)
    PROVE  simpletlv_read_tag(simpletlv_put_tag(tag, datalen, outlen) \o rest)
             = <<tag, datalen, rest>>
<1>1. /\ datalen \in Int /\ datalen >= 0 /\ datalen <= TooLong
      /\ tag \in Int /\ LongForm \in Int /\ outlen \in Int
  BY SMT DEF Byte, LongForm, TooLong
<1>2. rest \in Seq(Int)
  <2>1. Byte \subseteq Int
    BY SMT DEF Byte
  <2> QED  BY <2>1, SeqMonotonic, Zenon
<1>3. CASE datalen < LongForm
  <2>1. outlen >= 2
    BY <1>3, SMT DEF header_length
  <2>2. simpletlv_put_tag(tag, datalen, outlen) = <<tag, datalen>>
    <3>1. ~ (outlen < 2) /\ ~ (datalen >= LongForm) /\ ~ (datalen >= TooLong)
      BY <1>3, <2>1, SMT DEF LongForm, TooLong
    <3> QED  BY <1>3, <3>1, Zenon DEF simpletlv_put_tag
  <2> DEFINE buf == <<tag, datalen>> \o rest
  <2>3. /\ buf[1] = tag /\ buf[2] = datalen /\ Len(buf) >= 2
        /\ SubSeq(buf, 3, Len(buf)) = rest
    BY <1>1, <1>2, Header2, Zenon
  <2>4. Len(buf) \in Nat
    BY <1>1, <1>2, SMTT(10)
  <2> HIDE DEF buf
  <2>5. ~ (Len(buf) < 2) /\ buf[2] # LongForm
    BY <1>1, <1>3, <2>3, <2>4, SMTT(10)
  <2>6. simpletlv_read_tag(buf) = <<tag, datalen, rest>>
    BY <2>3, <2>5, Zenon DEF simpletlv_read_tag
  <2> QED  BY <2>2, <2>6 DEF buf
<1>4. CASE datalen >= LongForm
  <2>1. outlen >= 4
    BY <1>4, SMT DEF header_length, LongForm
  <2>2. PICK lo, hi \in Byte : /\ ushort2lebytes(datalen) = <<lo, hi>>
                               /\ lebytes2ushort(<<lo, hi>>) = datalen
    BY <1>1, UshortRoundTrip, Zenon
  <2>3. simpletlv_put_tag(tag, datalen, outlen) = <<tag, LongForm, lo, hi>>
    <3>1. ~ (outlen < 2) /\ ~ (outlen < 4) /\ ~ (datalen >= TooLong) /\ ~ (datalen < LongForm)
      BY <1>4, <2>1, SMT DEF LongForm, TooLong
    <3>2. <<lo, hi>>[1] = lo /\ <<lo, hi>>[2] = hi
      OBVIOUS
    <3> QED  BY <1>1, <2>2, <3>1, <3>2, Zenon DEF simpletlv_put_tag
  <2> DEFINE buf == <<tag, LongForm, lo, hi>> \o rest
  <2>4. lo \in Int /\ hi \in Int
    BY SMT DEF Byte
  <2>5. /\ buf[1] = tag /\ buf[2] = LongForm /\ buf[3] = lo /\ buf[4] = hi
        /\ Len(buf) >= 4 /\ SubSeq(buf, 5, Len(buf)) = rest
    BY <1>1, <1>2, <2>4, Header4, SMTT(10)
  <2>6. Len(buf) \in Nat
    BY <1>1, <1>2, <2>4, SMTT(10)
  <2> HIDE DEF buf
  <2>7. ~ (Len(buf) < 2) /\ ~ (Len(buf) < 4)
    BY <2>5, <2>6, SMTT(10)
  <2>8. simpletlv_read_tag(buf) = <<tag, datalen, rest>>
    BY <2>2, <2>5, <2>7, Zenon DEF simpletlv_read_tag
  <2> QED  BY <2>3, <2>8 DEF buf
<1> QED  BY <1>1, <1>3, <1>4, SMT
=============================================================================
