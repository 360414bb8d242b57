----------------------------- MODULE ApduDecode -----------------------------
(***************************************************************************)
(* The commands a client sends, one after the other, and what the decoder  *)
(* of module Apdu makes of each.  The reference is the table of encodings  *)
(* of ISO 7816-4: a command with Lc bytes of data that expects Le bytes    *)
(* has a short and an extended encoding, and decoding is the inverse of    *)
(* encoding.                                                               *)
(***************************************************************************)
EXTENDS Apdu

CONSTANTS
    Commands,   \* the raw commands a client sends, a subset of RawApdu
    DataLengths, ExpectedLengths,  \* the Lc and Le of the reference commands
    None        \* no command is being processed

ASSUME CommandsAssumption == Commands \subseteq RawApdu /\ None \notin RawApdu
ASSUME LengthsAssumption ==
    /\ \A Lc \in DataLengths : Lc \in Nat /\ Lc <= 65535
    /\ \A Le \in ExpectedLengths : Le \in Nat /\ Le <= 65536

VARIABLES
    raw,      \* the command being processed
    class,    \* its decoded class
    apdu      \* its decoded lengths, or WrongLength when it is refused

vars == <<raw, class, apdu>>

(* vcard_process_apdu tests the type before anything else; VCARD_7816_PTS  *)
(* is the enumeration value 2.                                             *)
HandledAsPts(c) == c.type = 2

Init ==
    /\ raw = None
    /\ class = SetClass(0)
    /\ apdu = WrongLength

(* vreader_xfr_bytes hands the bytes to vcard_apdu_new *)
Receive(r) ==
    /\ raw = None
    /\ raw' = r
    /\ class' = SetClass(r.cla)
    /\ apdu' = vcard_apdu_new(r)

(* the response, or the WRONG_LENGTH status, is sent: vcard_apdu_delete *)
Done ==
    /\ raw # None
    /\ raw' = None
    /\ class' = SetClass(0)
    /\ apdu' = WrongLength

Next == Done \/ \E r \in Commands : Receive(r)

Spec == Init /\ [][Next]_vars

-----------------------------------------------------------------------------
(* The reference: r is the short, or the extended, encoding of a command   *)
(* with Lc data bytes and Le expected bytes; Le = 0 stands for none.       *)
EncodesShort(r, Lc, Le) ==
    /\ Lc <= 255 /\ Le <= 256
    /\ r.len = 4 + (IF Lc > 0 THEN 1 + Lc ELSE 0) + (IF Le > 0 THEN 1 ELSE 0)
    /\ Lc > 0 => r.p3 = Lc
    /\ Lc = 0 /\ Le > 0 => r.p3 = Le % 256
    /\ Lc > 0 /\ Le > 0 => r.tail % 256 = Le % 256

EncodesExtended(r, Lc, Le) ==
    /\ Lc > 0 \/ Le > 0
    /\ r.p3 = 0
    /\ r.len = 7 + Lc + (IF Lc > 0 /\ Le > 0 THEN 2 ELSE 0)
    /\ r.ext = (IF Lc > 0 THEN Lc ELSE Le % 65536)
    /\ Lc > 0 /\ Le > 0 => r.tail = Le % 65536

Encodes(r, Lc, Le) == EncodesShort(r, Lc, Le) \/ EncodesExtended(r, Lc, Le)

(* What vcard_apdu_set_length accepts is an encoding of the lengths it     *)
(* returns: no command is accepted with an Lc or Le it does not carry.     *)
DecodeSound ==
    apdu.status = "SUCCESS" => Encodes(raw, apdu.Lc, apdu.Le)

(* Every encoding of a command is accepted, with the lengths encoded: the  *)
(* boundary values (Le of 256 and 65536 sent as zero, one data byte, the   *)
(* largest short and extended data) included.                              *)
DecodeComplete ==
    raw # None =>
        \A Lc \in DataLengths, Le \in ExpectedLengths :
            Encodes(raw, Lc, Le) =>
                apdu.status = "SUCCESS" /\ apdu.Lc = Lc /\ apdu.Le = Le

(* the bytes the Le field takes after a body *)
LeFieldLength(a) ==
    IF a.Le = 0 THEN 0 ELSE IF a.body = 5 THEN 1 ELSE 2

(* The body the handlers copy from (a_body, a_Lc) lies inside the bytes    *)
(* received and never overlaps the trailing Le field; a handler that sees  *)
(* Lc > 0 has a non-NULL a_body.                                           *)
BodyInside ==
    apdu.status = "SUCCESS" =>
        /\ apdu.Lc > 0 => apdu.body > 0
        /\ apdu.body > 0 =>
             apdu.body + apdu.Lc + LeFieldLength(apdu) = raw.len

-----------------------------------------------------------------------------
(* What the comments of card_7816.c say and the code does not do.          *)

(* "case 0x4: proprietary SM, 0x8: header not authenticated, 0xc: header   *)
(* authenticated": the secure messaging values are the two bits above the  *)
(* channel bits.                                                           *)
SecureMessagingValues == class.sm \in {0, 4, 8, 12}

(* "first handle any PTS commands, which aren't really APDU's": a command  *)
(* whose class makes it a PTS request is handled as one.                   *)
PtsHandledFirst == class.gen = "PTS" => HandledAsPts(class)
=============================================================================
