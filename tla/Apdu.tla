-------------------------------- MODULE Apdu --------------------------------
(***************************************************************************)
(* Decoding of a raw ISO 7816 command (card_7816.c): the class byte        *)
(* (vcard_apdu_set_class), the lengths Lc and Le (vcard_apdu_set_length)   *)
(* and the constructor that calls them (vcard_apdu_new).  Pure operators;  *)
(* ApduDecode checks them and VCard uses the class decoding.               *)
(*                                                                         *)
(* A raw command is abstracted to the bytes the decoder looks at:          *)
(*   len   the number of bytes (a_len)                                     *)
(*   cla   byte 0 (ah_cla)                                                 *)
(*   p3    byte 4 (ah_Le), meaningless when len < 5                        *)
(*   ext   bytes 5 and 6 as a big-endian number (ah_body[0], ah_body[1])   *)
(*   tail  the last two bytes as a big-endian number; the last byte alone  *)
(*         is tail % 256                                                   *)
(* The four fields are independent wherever the decoder reads them: ext is *)
(* read only when p3 = 0 and tail only after a body of at least one byte.  *)
(***************************************************************************)
EXTENDS Integers

Byte == 0 .. 255
Word == 0 .. 65535

RawApdu == [len : Nat, cla : Byte, p3 : Byte, ext : Word, tail : Word]

(* VCardAPDUType *)
GenType == {"ISO", "RFU", "PTS", "PROPRIETARY"}

(* a_type: the top nibble of the class byte *)
ApduType(cla) == 16 * (cla \div 16)

(* the types with channel and secure messaging bits *)
ChannelTypes == {0, 128, 144, 160}
(* the types that are ISO without these bits *)
PlainIsoTypes == {176, 192}
RfuTypes == {16 * k : k \in 1 .. 7}

(* cla & 0xe *)
SmBits(cla) == (cla % 16) - (cla % 2)

GenTypeOf(cla) ==
    CASE ApduType(cla) \in ChannelTypes \cup PlainIsoTypes -> "ISO"
      [] ApduType(cla) \in RfuTypes -> "RFU"
      [] OTHER -> IF cla = 255 THEN "PTS" ELSE "PROPRIETARY"

(* vcard_apdu_set_class *)
SetClass(cla) ==
    LET bits == ApduType(cla) \in ChannelTypes
    IN  [type    |-> ApduType(cla),
         gen     |-> GenTypeOf(cla),
         channel |-> IF bits THEN cla % 4 ELSE 0,
         sm      |-> IF bits THEN SmBits(cla) ELSE 0]

(* a length byte or word in which zero stands for the maximum *)
LeShort(b) == IF b = 0 THEN 256 ELSE b
(* variant for mutation: zero is not taken for the maximum *)
LeExtendedPlain(w) == w
LeExtended(w) == IF w = 0 THEN 65536 ELSE w

(* A decoded length: body is the offset of a_body in the command, 0 when   *)
(* the code leaves a_body NULL.                                            *)
Lengths(Lc, Le, body) ==
    [status |-> "SUCCESS", Lc |-> Lc, Le |-> Le, body |-> body]
WrongLength == [status |-> "WRONG_LENGTH", Lc |-> 0, Le |-> 0, body |-> 0]

(* variant for mutation: an extended Lc of zero is let through *)
ExtendedLengthsZeroLc(raw) ==
    LET L == raw.len - 4
    IN  CASE L < 3 -> WrongLength
          [] L = 3 -> Lengths(0, LeExtended(raw.ext), 0)
          [] L > 3 /\ L = raw.ext + 3 -> Lengths(raw.ext, 0, 7)
          [] L > 3 /\ L = raw.ext + 5 -> Lengths(raw.ext, LeExtended(raw.tail), 7)
          [] OTHER -> WrongLength

(* the extended branch of vcard_apdu_set_length: ah_Le is 0 and L > 1 *)
ExtendedLengths(raw) ==
    LET L == raw.len - 4
    IN  CASE L < 3 -> WrongLength
          [] L = 3 -> Lengths(0, LeExtended(raw.ext), 0)
          [] L > 3 /\ raw.ext > 0 /\ L = raw.ext + 3 -> Lengths(raw.ext, 0, 7)
          [] L > 3 /\ raw.ext > 0 /\ L = raw.ext + 5 ->
                 Lengths(raw.ext, LeExtended(raw.tail), 7)
          [] OTHER -> WrongLength

(* variant for mutation: only a command longer than announced is refused  *)
ShortLengthsLax(raw) ==
    LET L == raw.len - 4
    IN  CASE L <= raw.p3 + 1 -> Lengths(raw.p3, 0, 5)
          [] L = raw.p3 + 2 -> Lengths(raw.p3, LeShort(raw.tail % 256), 5)
          [] OTHER -> WrongLength

(* the short branch: ah_Le is Lc *)
ShortLengths(raw) ==
    LET L == raw.len - 4
    IN  CASE L = raw.p3 + 1 -> Lengths(raw.p3, 0, 5)
          [] L = raw.p3 + 2 -> Lengths(raw.p3, LeShort(raw.tail % 256), 5)
          [] OTHER -> WrongLength

(* vcard_apdu_set_length *)
SetLength(raw) ==
    CASE raw.len = 4 -> Lengths(0, 0, 0)
      [] raw.len = 5 -> Lengths(0, LeShort(raw.p3), 0)
      [] raw.len > 5 /\ raw.p3 = 0 -> ExtendedLengths(raw)
      [] OTHER -> ShortLengths(raw)

(* vcard_apdu_new: set_class cannot fail *)
vcard_apdu_new(raw) ==
    IF raw.len < 4 THEN WrongLength ELSE SetLength(raw)
=============================================================================
