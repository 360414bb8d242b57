------------------------------- MODULE VCard -------------------------------
(***************************************************************************)
(* A virtual CAC card processing the commands of its client: the routing   *)
(* of a command to the applet of its channel or to the ISO 7816 code       *)
(* (card_7816.c, vcard.c), the applets (cac.c, gp.c, msft.c) and the login *)
(* and key operations of the emulation (vcard_emul_nss.c).                 *)
(*                                                                         *)
(* One action is one command, processed from beginning to end: the caller, *)
(* vreader_xfr_bytes, processes one command of a card at a time.  A data   *)
(* response is abstracted to what it is (the instruction, the applet and   *)
(* the content or signature input it was made from) and a byte range of    *)
(* it.  Lengths are in bytes.                                              *)
(***************************************************************************)
EXTENDS Apdu, Sequences, FiniteSets

CONSTANTS
    Pki, Pt, Aca, Plain, Gp, Msft, \* the applets of the card, by kind
    Content,      \* what a buffer applet can present as its two files
    Objects,      \* the contents a token object can have
    OwnContent,   \* the content of the applets with static files
    TagLen, ValLen,  \* the length of each file of a content, 0 when NULL
    Block,        \* pieces of signature input
    BlockLen,     \* bytes in a piece
    KeyLen,       \* PK11_SignatureLen of the keys
    NeedLogin,    \* PK11_NeedLogin of the slot
    TokenX509,    \* PK11_DoesMechanism(slot, CKM_RSA_X_509)
    Clas,         \* the class bytes clients use
    Les,          \* the expected lengths clients send
    PropLens,     \* the lengths of encoded applet properties
    AcrLens,      \* the lengths of the ACA tables
    PropCommands, AcrCommands,  \* <<p1, p2, Lc, found>> of these commands
    ReadRanges,   \* the <<offset, size>> pairs clients read
    MaxBlocks,    \* bound: pieces accumulated for one signature
    None

Cac == Pki \cup Pt \cup Aca \cup Plain
Applet == Cac \cup Gp \cup Msft
Channel == 0 .. 3

ASSUME LengthAssumption ==
    /\ TagLen \in [Content -> Nat] /\ ValLen \in [Content -> Nat]
    /\ BlockLen \in Nat /\ KeyLen \in Nat \ {0} /\ MaxBlocks \in Nat
    /\ Les \subseteq Nat
    /\ PropLens \subseteq Nat \ {0} /\ AcrLens \subseteq Nat \ {0}
    /\ ReadRanges \subseteq Nat \X Nat
    /\ PropCommands \cup AcrCommands \subseteq Byte \X Byte \X Nat \X BOOLEAN
ASSUME CardAssumption ==
    /\ Clas \subseteq Byte
    /\ Objects \subseteq Content /\ OwnContent \in Content
    /\ NeedLogin \in BOOLEAN /\ TokenX509 \in BOOLEAN
    /\ None \notin Applet /\ None \notin Content
ASSUME KindAssumption ==
    /\ Pki \cap (Pt \cup Aca \cup Plain \cup Gp \cup Msft) = {}
    /\ Pt \cap (Aca \cup Plain \cup Gp \cup Msft) = {}
    /\ Aca \cap (Plain \cup Gp \cup Msft) = {}
    /\ Plain \cap (Gp \cup Msft) = {}
    /\ Gp \cap Msft = {}

VARIABLES
    current,  \* current_applet, per channel
    buf,      \* vcard_buffer_response
    sign,     \* sign_buffer of each PKI applet
    x509,     \* failedX509 of each key
    logged,   \* PK11_IsLoggedIn(slot)
    compat,   \* the VCARD_COMPAT_WINDOWS bit
    object,   \* the content of each token object (external)
    file,     \* the content the files of a passthrough applet hold
    resp,     \* the last response
    \* history, as the client knows it
    last,     \* the last command other than GET RESPONSE
    got,      \* bytes received of the response being chained
    sent,     \* signature input sent to a PKI applet and not yet used
    verified, \* the last VERIFY since the last reset had the right PIN
    seen,     \* contents read from a passthrough applet since its selection
    valid     \* contents of its object since its selection

card == <<current, buf, sign, x509, logged, compat, object, file, resp>>
history == <<last, got, sent, verified, seen, valid>>
vars == <<current, buf, sign, x509, logged, compat, object, file, resp,
          last, got, sent, verified, seen, valid>>

-----------------------------------------------------------------------------
(* Instructions.  OTHER stands for the instructions no code names and for  *)
(* the ones vcard7816_vm_process_apdu lists as unsupported.                *)
Instruction ==
    {"SELECT_FILE", "VERIFY", "GET_RESPONSE", "GET_DATA", "GET_PROPERTIES",
     "READ_BUFFER", "UPDATE_BUFFER", "SIGN_DECRYPT", "GET_ACR", "OTHER"}

Status ==
    {"SUCCESS", "RESPONSE_BYTES", "LE_ERROR", "WARNING_CHANGE",
     "COMMAND_NOT_SUPPORTED", "SECURE_NOT_SUPPORTED",
     "FUNCTION_NOT_SUPPORTED", "FILE_NOT_FOUND", "WRONG_PARAMETERS",
     "WRONG_PARAMETERS_IN_DATA", "DATA_NOT_FOUND", "DATA_INVALID",
     "P1_P2_INCORRECT", "CONDITION_NOT_SATISFIED", "INS_CODE_INVALID",
     "GENERAL", "MEMORY_FAILURE", "EXC_ERROR_CHANGE"}

(* what a response's data is: made by which command, of what *)
Source == [ins : Instruction \cup {"NONE"}, applet : Applet \cup {None},
           data : Seq(Block \cup Content)]
Src(i, a, d) == [ins |-> i, applet |-> a, data |-> d]
NoSrc == Src("NONE", None, <<>>)

Response == [ins : Instruction \cup {"NONE"}, sw : Status, sw2 : Byte,
             src : Source, off : Nat, len : Nat, total : Nat]
StatusOnly(i, s) == [ins |-> i, sw |-> s, sw2 |-> 0, src |-> NoSrc,
                     off |-> 0, len |-> 0, total |-> 0]

(* VCardBufferResponse: buffer_len, current - buffer, len *)
BufferResponse == [src : Source, total : Nat, off : Nat, len : Nat]
ASSUME NoneAssumption == None \notin BufferResponse

Smaller(a, b) == IF a < b THEN a ELSE b

(* vcard_response_new, vcard_response_new_bytes and                        *)
(* vcard_init_buffer_response: more than Le bytes go to the card's buffer  *)
Buffered(len, Le) == len > Le
(* variant for mutation: sw2 not clamped *)
DataAnswerUnclamped(src, len, Le) ==
    IF Buffered(len, Le)
    THEN [StatusOnly(src.ins, "RESPONSE_BYTES") EXCEPT !.sw2 = len, !.total = len]
    ELSE [StatusOnly(src.ins, "SUCCESS") EXCEPT !.src = src, !.len = len, !.total = len]
DataAnswer(src, len, Le) ==
    IF Buffered(len, Le)
    THEN [StatusOnly(src.ins, "RESPONSE_BYTES")
            EXCEPT !.sw2 = IF len > 255 THEN 0 ELSE len, !.total = len]
    ELSE [StatusOnly(src.ins, "SUCCESS")
            EXCEPT !.src = src, !.len = len, !.total = len]
NewBuffer(src, len) ==
    [src |-> src, total |-> len, off |-> 0, len |-> len]

(* variant for mutation: the unfinished response survives *)
KeptAlways(ins) == buf

(* vcard_process_apdu drops an unfinished response when the next command   *)
(* is not GET RESPONSE                                                     *)
KeptBuffer(ins) == IF ins = "GET_RESPONSE" THEN buf ELSE None

(* a command answered with a status, and one answered with data *)
AnswerStatus(ins, s) ==
    /\ resp' = StatusOnly(ins, s)
    /\ buf' = KeptBuffer(ins)
    /\ got' = IF ins = "GET_RESPONSE" THEN got ELSE 0
AnswerData(src, len, Le) ==
    /\ resp' = DataAnswer(src, len, Le)
    /\ buf' = IF Buffered(len, Le) THEN NewBuffer(src, len)
              ELSE KeptBuffer(src.ins)
    /\ got' = 0

-----------------------------------------------------------------------------
(* Routing: vcard_process_applet_apdu gives the command to the applet      *)
(* selected on the channel of its class byte, whatever else that byte      *)
(* says; what the applet does not handle goes to the ISO 7816 code, which  *)
(* looks at the class first.                                               *)
ChannelOf(cla) == SetClass(cla).channel
CurrentOf(cla) == current[ChannelOf(cla)]

PassedOn(a, ins, p1) ==
    IF a \in Cac
    THEN ins \in {"GET_RESPONSE", "VERIFY"} \/ (ins = "SELECT_FILE" /\ p1 # 2)
    ELSE ins # "GET_DATA"
ToVm(cla, ins, p1) ==
    CurrentOf(cla) = None \/ PassedOn(CurrentOf(cla), ins, p1)

VmAccepts(cla) == SetClass(cla).gen = "ISO" /\ SetClass(cla).sm = 0

(* the commands that leave everything but the response as it was *)
others == <<current, sign, x509, logged, compat, object, file,
            sent, verified, seen, valid>>
Remember(ins, a) ==
    last' = IF ins = "GET_RESPONSE" THEN last ELSE Src(ins, a, <<>>)
StatusReply(cla, ins, s) ==
    /\ AnswerStatus(ins, s)
    /\ Remember(ins, CurrentOf(cla))
    /\ UNCHANGED others
DataReply(cla, ins, len, Le) ==
    /\ AnswerData(Src(ins, CurrentOf(cla), <<>>), len, Le)
    /\ Remember(ins, CurrentOf(cla))
    /\ UNCHANGED others

-----------------------------------------------------------------------------
(* vcard7816_vm_process_apdu *)

(* a class the ISO 7816 code does not handle *)
VmRefuse(cla, ins, p1) ==
    /\ ToVm(cla, ins, p1)
    /\ ~VmAccepts(cla)
    /\ StatusReply(cla, ins, IF SetClass(cla).gen # "ISO"
                             THEN "COMMAND_NOT_SUPPORTED"
                             ELSE "SECURE_NOT_SUPPORTED")

(* everything but SELECT FILE, VERIFY and GET RESPONSE *)
VmUnsupported(cla, ins) ==
    /\ ins \notin {"SELECT_FILE", "VERIFY", "GET_RESPONSE"}
    /\ ToVm(cla, ins, 0)
    /\ VmAccepts(cla)
    /\ StatusReply(cla, ins, "COMMAND_NOT_SUPPORTED")

SelectBadP1(cla, p1) ==
    /\ p1 # 4
    /\ ToVm(cla, "SELECT_FILE", p1)
    /\ VmAccepts(cla)
    /\ StatusReply(cla, "SELECT_FILE", "FUNCTION_NOT_SUPPORTED")

(* reset_applet: cac_applet_pki_reset, cac_applet_passthrough_reset; the   *)
(* other applets have none                                                 *)
(* variants for mutation: the applet's reset function forgets its buffer *)
ResetSignForgotten(a) == sign
ResetFileForgotten(a) == file
ResetSign(a) == IF a \in Pki THEN [sign EXCEPT ![a] = <<>>] ELSE sign
ResetFile(a) == IF a \in Pt THEN [file EXCEPT ![a] = None] ELSE file

(* gp_response, or the FCI template around an AID of 11 or 7 bytes *)
SelectLen(a) == IF a \in Gp THEN 27 ELSE IF a \in Msft THEN 17 ELSE 13

(* SELECT FILE by AID: a is the applet found, or None, in which case the   *)
(* channel is left without an applet.  A selected applet is reset, also    *)
(* when another channel is using it.                                       *)
SelectApplet(cla, a, Le) ==
    /\ ToVm(cla, "SELECT_FILE", 4)
    /\ VmAccepts(cla)
    /\ current' = [current EXCEPT ![ChannelOf(cla)] = a]
    /\ sign' = ResetSign(a)
    /\ file' = ResetFile(a)
    /\ IF a = None
       THEN AnswerStatus("SELECT_FILE", "FILE_NOT_FOUND")
       ELSE AnswerData(Src("SELECT_FILE", a, <<>>), SelectLen(a), Le)
    /\ Remember("SELECT_FILE", a)
    /\ sent' = IF a \in Pki THEN [sent EXCEPT ![a] = <<>>] ELSE sent
    /\ seen' = IF a \in Pt THEN [seen EXCEPT ![a] = {}] ELSE seen
    /\ valid' = IF a \in Pt THEN [valid EXCEPT ![a] = {object[a]}] ELSE valid
    /\ UNCHANGED <<x509, logged, compat, object, verified>>

VerifyBadParameters(cla) ==
    /\ ToVm(cla, "VERIFY", 0)
    /\ VmAccepts(cla)
    /\ StatusReply(cla, "VERIFY", "WRONG_PARAMETERS")

(* vcard_emul_is_logged_in *)
IsLoggedIn == ~NeedLogin \/ logged

(* vcard_get_login_count: the emulation knows no count, the answer for     *)
(* Windows drivers is 3                                                    *)
LoginCount == IF compat THEN 3 ELSE -1

(* VERIFY without data, and its answer with a count, 63 Cx *)
VerifyQuery(cla) ==
    /\ ToVm(cla, "VERIFY", 0)
    /\ VmAccepts(cla)
    /\ IsLoggedIn \/ LoginCount < 0
    /\ StatusReply(cla, "VERIFY", IF IsLoggedIn THEN "SUCCESS"
                                  ELSE "DATA_NOT_FOUND")
VerifyCount(cla) ==
    /\ ToVm(cla, "VERIFY", 0)
    /\ VmAccepts(cla)
    /\ ~IsLoggedIn /\ LoginCount >= 0
    /\ resp' = [StatusOnly("VERIFY", "WARNING_CHANGE")
                  EXCEPT !.sw2 = 192 + Smaller(15, LoginCount)]
    /\ buf' = KeptBuffer("VERIFY")
    /\ got' = 0
    /\ Remember("VERIFY", CurrentOf(cla))
    /\ UNCHANGED others

(* vcard_emul_login: log out, then PK11_Authenticate, which needs no PIN   *)
(* when the token asks for none or is still logged in.  right: the PIN is  *)
(* the token's.                                                            *)
(* variant for mutation: the log out is missing *)
LogoutForgotten == logged
Logout == FALSE
Authenticates(state, right) == ~NeedLogin \/ state \/ right
VerifyLogin(cla, right) ==
    /\ ToVm(cla, "VERIFY", 0)
    /\ VmAccepts(cla)
    /\ logged' = (NeedLogin /\ Authenticates(Logout, right))
    /\ AnswerStatus("VERIFY", IF Authenticates(Logout, right) THEN "SUCCESS"
                              ELSE "CONDITION_NOT_SATISFIED")
    /\ Remember("VERIFY", CurrentOf(cla))
    /\ verified' = right
    /\ UNCHANGED <<current, sign, x509, compat, object, file, sent, seen,
                   valid>>

GetResponseEmpty(cla) ==
    /\ ToVm(cla, "GET_RESPONSE", 0)
    /\ VmAccepts(cla)
    /\ buf = None
    /\ StatusReply(cla, "GET_RESPONSE", "DATA_NOT_FOUND")

(* GET RESPONSE: copy up to Le bytes, announce up to 256 more, drop the    *)
(* buffer with its last byte.  sw2 is a byte.                              *)
BytesToCopy(Le) == Smaller(buf.len, Le)
(* variants for mutation: the bytes just copied counted again, a limit of  *)
(* 255, and a remainder of less than a full block dropped                  *)
NextByteCountStale(Le) == Smaller(256, buf.len)
NextByteCount255(Le) == Smaller(255, buf.len - BytesToCopy(Le))
NextByteCountWhole(Le) == IF buf.len - BytesToCopy(Le) >= 256 THEN 256 ELSE 0
NextByteCount(Le) == Smaller(256, buf.len - BytesToCopy(Le))
GetResponse(cla, Le) ==
    /\ ToVm(cla, "GET_RESPONSE", 0)
    /\ VmAccepts(cla)
    /\ buf # None
    /\ resp' = [ins |-> "GET_RESPONSE",
                sw |-> IF NextByteCount(Le) # 0 THEN "RESPONSE_BYTES"
                       ELSE "SUCCESS",
                sw2 |-> NextByteCount(Le) % 256,
                src |-> buf.src, off |-> buf.off, len |-> BytesToCopy(Le),
                total |-> buf.total]
    /\ buf' = IF NextByteCount(Le) = 0 THEN None
              ELSE [buf EXCEPT !.off = @ + BytesToCopy(Le),
                               !.len = @ - BytesToCopy(Le)]
    /\ got' = got + resp'.len
    /\ UNCHANGED <<others, last>>

-----------------------------------------------------------------------------
(* The CAC applets *)

(* get_properties: an expected length above the actual one is answered     *)
(* with 6C and the actual length, a byte                                   *)
(* variant for mutation: the exact length refused too *)
WrongLeExact(len, Le) == Le >= len
WrongLe(len, Le) == Le > len
PropertiesReply(cla, len, Le) ==
    IF WrongLe(len, Le)
    THEN /\ resp' = [StatusOnly("GET_PROPERTIES", "LE_ERROR")
                       EXCEPT !.sw2 = len % 256, !.total = len]
         /\ buf' = KeptBuffer("GET_PROPERTIES")
         /\ got' = 0
         /\ Remember("GET_PROPERTIES", CurrentOf(cla))
         /\ UNCHANGED others
    ELSE DataReply(cla, "GET_PROPERTIES", len, Le)

(* the p1 of GET PROPERTIES that take no tags, or a list of tags *)
PropertiesError(p1, p2, Lc, found) ==
    CASE p2 # 0 \/ p1 \notin {1, 2, 64} -> "P1_P2_INCORRECT"
      [] p2 = 0 /\ p1 = 1 /\ Lc # 0 -> "DATA_INVALID"
      [] p2 = 0 /\ p1 = 2 /\ Lc = 0 -> "DATA_INVALID"
      [] p2 = 0 /\ p1 = 2 /\ Lc # 0 /\ ~found -> "DATA_NOT_FOUND"
      [] OTHER -> "SUCCESS"
PropertiesRefused(cla, p1, p2, Lc, found) ==
    /\ CurrentOf(cla) \in Cac
    /\ PropertiesError(p1, p2, Lc, found) # "SUCCESS"
    /\ StatusReply(cla, "GET_PROPERTIES", PropertiesError(p1, p2, Lc, found))
(* a length in PropLens, whatever the tags asked for *)
GetProperties(cla, len, Le) ==
    /\ CurrentOf(cla) \in Cac
    /\ PropertiesReply(cla, len, Le)

(* SELECT FILE by object ID (p1 = 2) of a CAC applet; nothing is selected *)
SelectObject(cla, Lc, found) ==
    /\ CurrentOf(cla) \in Cac
    /\ StatusReply(cla, "SELECT_FILE",
                   CASE Lc # 2 -> "DATA_INVALID"
                     [] Lc = 2 /\ ~found -> "FILE_NOT_FOUND"
                     [] OTHER -> "SUCCESS")

(* the instructions a CAC applet handles or passes on *)
AppletInstructions(a) ==
    {"GET_PROPERTIES", "SELECT_FILE", "GET_RESPONSE", "VERIFY"}
      \cup (IF a \in Aca THEN {"GET_ACR"} ELSE {"READ_BUFFER", "UPDATE_BUFFER"})
      \cup (IF a \in Pki THEN {"SIGN_DECRYPT"} ELSE {})
CacUnsupported(cla, ins) ==
    /\ CurrentOf(cla) \in Cac
    /\ ins \notin AppletInstructions(CurrentOf(cla))
    /\ StatusReply(cla, ins, "INS_CODE_INVALID")

UpdateBuffer(cla) ==
    /\ CurrentOf(cla) \in Pki \cup Pt \cup Plain
    /\ StatusReply(cla, "UPDATE_BUFFER", IF CurrentOf(cla) \in Pki
                                         THEN "CONDITION_NOT_SATISFIED"
                                         ELSE "COMMAND_NOT_SUPPORTED")

(* READ BUFFER.  A passthrough applet whose files are not both present     *)
(* first reads its object from the token (vcard_emul_read_object) and      *)
(* makes both files from it; an empty file is NULL.                        *)
HasFiles(c) == c # None /\ TagLen[c] > 0 /\ ValLen[c] > 0
FilesOf(a) ==
    IF a \notin Pt THEN OwnContent
    ELSE IF file[a] # None /\ HasFiles(file[a]) THEN file[a] ELSE object[a]
FileLen(f, c) == IF f = "TAG" THEN TagLen[c] ELSE ValLen[c]
ReadSize(f, c, off, size) == Smaller(size, FileLen(f, c) - off)
LoadFiles(a) == file' = IF a \in Pt THEN [file EXCEPT ![a] = FilesOf(a)]
                        ELSE file
(* not exactly two bytes of data, or no such file *)
ReadRefused(cla, Lc, f) ==
    LET a == CurrentOf(cla)
    IN  /\ a \in Pki \cup Pt \cup Plain
        /\ Lc # 2 \/ f = "OTHER"
        /\ LoadFiles(a)
        /\ AnswerStatus("READ_BUFFER", "DATA_INVALID")
        /\ Remember("READ_BUFFER", a)
        /\ UNCHANGED <<current, sign, x509, logged, compat, object, sent,
                       verified, seen, valid>>
ReadBuffer(cla, f, off, size, Le) ==
    LET a == CurrentOf(cla)
        n == ReadSize(f, FilesOf(a), off, size)
    IN  /\ a \in Pki \cup Pt \cup Plain
        /\ LoadFiles(a)
        /\ IF n < 0
           THEN AnswerStatus("READ_BUFFER", "P1_P2_INCORRECT")
           ELSE AnswerData(Src("READ_BUFFER", a, <<FilesOf(a)>>), n, Le)
        /\ Remember("READ_BUFFER", a)
        /\ seen' = IF a \in Pt /\ n > 0
                   THEN [seen EXCEPT ![a] = @ \cup {FilesOf(a)}] ELSE seen
        /\ UNCHANGED <<current, sign, x509, logged, compat, object, sent,
                       verified, valid>>

(* GET ACR of the ACA applet: the data length each p1 requires, and what   *)
(* a table lookup by ACRID, AID or object ID can miss                      *)
AcrLc(p1) == CASE p1 = 1 -> 1 [] p1 = 17 -> 7 [] p1 = 18 -> 2 [] OTHER -> 0
AcrP1 == {0, 64, 65, 1, 16, 80, 81, 82, 17, 18, 32, 96, 33, 97}
AcrError(p1, p2, Lc, found) ==
    CASE p2 # 0 -> "P1_P2_INCORRECT"
      [] p2 = 0 /\ p1 \notin AcrP1 -> "COMMAND_NOT_SUPPORTED"
      [] p2 = 0 /\ p1 \in AcrP1 /\ Lc # AcrLc(p1) -> "DATA_INVALID"
      [] p2 = 0 /\ p1 \in {1, 17} /\ Lc = AcrLc(p1) /\ ~found ->
             "DATA_NOT_FOUND"
      [] p2 = 0 /\ p1 = 18 /\ Lc = AcrLc(p1) /\ ~found ->
             "WRONG_PARAMETERS_IN_DATA"
      [] OTHER -> "SUCCESS"
AcrRefused(cla, p1, p2, Lc, found) ==
    /\ CurrentOf(cla) \in Aca
    /\ AcrError(p1, p2, Lc, found) # "SUCCESS"
    /\ StatusReply(cla, "GET_ACR", AcrError(p1, p2, Lc, found))
(* a table of a length in AcrLens *)
GetAcr(cla, len, Le) ==
    /\ CurrentOf(cla) \in Aca
    /\ DataReply(cla, "GET_ACR", len, Le)

-----------------------------------------------------------------------------
(* SIGN/DECRYPT of a PKI applet *)

SignBadP2(cla) ==
    /\ CurrentOf(cla) \in Pki
    /\ StatusReply(cla, "SIGN_DECRYPT", "P1_P2_INCORRECT")

(* p1 = 0x80: keep the input, more will follow *)
SignMore(cla, body) ==
    LET p == CurrentOf(cla)
    IN  /\ p \in Pki
        /\ Len(sign[p]) + Len(body) <= MaxBlocks
        /\ sign' = [sign EXCEPT ![p] = @ \o body]
        /\ AnswerStatus("SIGN_DECRYPT", "SUCCESS")
        /\ Remember("SIGN_DECRYPT", p)
        /\ sent' = [sent EXCEPT ![p] = @ \o body]
        /\ UNCHANGED <<current, x509, logged, compat, object, file, verified,
                       seen, valid>>

(* any other p1 but 0: the input is refused and the accumulated one freed *)
SignBadP1(cla) ==
    LET p == CurrentOf(cla)
    IN  /\ p \in Pki
        /\ sign' = [sign EXCEPT ![p] = <<>>]
        /\ AnswerStatus("SIGN_DECRYPT", "P1_P2_INCORRECT")
        /\ Remember("SIGN_DECRYPT", p)
        /\ sent' = [sent EXCEPT ![p] = <<>>]
        /\ UNCHANGED <<current, x509, logged, compat, object, file, verified,
                       seen, valid>>

(* vcard_emul_map_error *)
MapError == {"CONDITION_NOT_SATISFIED", "DATA_INVALID", "MEMORY_FAILURE",
             "EXC_ERROR_CHANGE"}

(* vcard_emul_rsa_op: the status and the new failedX509 of each way it can *)
(* go.  The private key can be looked up only while the token shows it;    *)
(* the raw operation is tried unless it is known to fail, and a failure    *)
(* after a success is final; otherwise PKCS #1 is used, and from then on.  *)
Outcome(s, x) == [status |-> s, x509 |-> x]
KeyVisible == ~NeedLogin \/ logged
PkcsOutcomes(x) ==
    {Outcome("SUCCESS", "True")}
      \cup {Outcome(e, x) : e \in MapError \cup {"GENERAL"}}
(* variant for mutation: PKCS #1 also after the raw operation worked *)
RawFailureAlwaysPkcs(x) == PkcsOutcomes(x)
RawFailureOutcomes(x) ==
    IF x = "False" THEN {Outcome(e, x) : e \in MapError} ELSE PkcsOutcomes(x)
RsaOutcomes(x, size) ==
    {Outcome("CONDITION_NOT_SATISFIED", x)}
      \cup (CASE ~KeyVisible -> {}
              [] KeyVisible /\ size # KeyLen -> {Outcome("DATA_INVALID", x)}
              [] KeyVisible /\ size = KeyLen /\ x # "True" /\ TokenX509 ->
                     {Outcome("SUCCESS", "False")} \cup RawFailureOutcomes(x)
              [] OTHER -> PkcsOutcomes(x))

(* p1 = 0: sign everything accumulated and free it *)
SignFinal(cla, body, Le, o) ==
    LET p == CurrentOf(cla)
        input == sign[p] \o body
    IN  /\ p \in Pki
        /\ o \in RsaOutcomes(x509[p], BlockLen * Len(input))
        /\ x509' = [x509 EXCEPT ![p] = o.x509]
        /\ sign' = [sign EXCEPT ![p] = <<>>]
        /\ IF o.status = "SUCCESS"
           THEN AnswerData(Src("SIGN_DECRYPT", p, input), KeyLen, Le)
           ELSE AnswerStatus("SIGN_DECRYPT", o.status)
        /\ Remember("SIGN_DECRYPT", p)
        /\ sent' = [sent EXCEPT ![p] = <<>>]
        /\ UNCHANGED <<current, logged, compat, object, file, verified, seen,
                       valid>>

-----------------------------------------------------------------------------
(* The Global Platform and Microsoft applets answer GET DATA only *)

GpGetData(cla, tag, Le) ==
    /\ CurrentOf(cla) \in Gp
    /\ CASE tag = "9F7F" -> DataReply(cla, "GET_DATA", 45, Le)
         [] tag = "0066" -> DataReply(cla, "GET_DATA", 51, Le)
         [] OTHER -> StatusReply(cla, "GET_DATA", "DATA_NOT_FOUND")

MsftUnknownTag(cla) ==
    /\ CurrentOf(cla) \in Msft
    /\ StatusReply(cla, "GET_DATA", "DATA_NOT_FOUND")

(* tag 7F68: the client is a Windows driver *)
MsftGetData(cla, Le) ==
    /\ CurrentOf(cla) \in Msft
    /\ compat' = TRUE
    /\ AnswerData(Src("GET_DATA", CurrentOf(cla), <<>>), 31, Le)
    /\ Remember("GET_DATA", CurrentOf(cla))
    /\ UNCHANGED <<current, sign, x509, logged, object, file, sent, verified,
                   seen, valid>>

-----------------------------------------------------------------------------
(* vcard_reset, for power on and power off alike: the channels, the        *)
(* buffer and the login are cleared; the applets keep their state until    *)
(* they are selected again.                                                *)
Reset ==
    /\ current' = [ch \in Channel |-> None]
    /\ buf' = None
    /\ logged' = FALSE
    /\ resp' = StatusOnly("NONE", "SUCCESS")
    /\ last' = NoSrc
    /\ got' = 0
    /\ sent' = [p \in Pki |-> <<>>]
    /\ verified' = FALSE
    /\ UNCHANGED <<sign, x509, compat, object, file, seen, valid>>

(* the token's object is replaced (external) *)
ObjectChange(a, c) ==
    /\ object[a] # c
    /\ object' = [object EXCEPT ![a] = c]
    /\ valid' = [valid EXCEPT ![a] = @ \cup {c}]
    /\ UNCHANGED <<current, buf, sign, x509, logged, compat, file, resp,
                   last, got, sent, verified, seen>>

Init ==
    /\ current = [ch \in Channel |-> None]
    /\ buf = None
    /\ sign = [p \in Pki |-> <<>>]
    /\ x509 = [p \in Pki |-> "Unknown"]
    /\ logged = FALSE
    /\ compat = FALSE
    /\ object \in [Pt -> Objects]
    /\ file = [a \in Pt |-> None]
    /\ resp = StatusOnly("NONE", "SUCCESS")
    /\ last = NoSrc
    /\ got = 0
    /\ sent = [p \in Pki |-> <<>>]
    /\ verified = FALSE
    /\ seen = [a \in Pt |-> {}]
    /\ valid = [a \in Pt |-> {object[a]}]

(* one piece of signature input, or a command without data *)
Body == {<<>>} \cup {<<b>> : b \in Block}

VmCommand(cla) ==
    \/ \E ins \in Instruction, p1 \in {0, 4} : VmRefuse(cla, ins, p1)
    \/ \E ins \in Instruction : VmUnsupported(cla, ins)
    \/ \E p1 \in {0, 2} : SelectBadP1(cla, p1)
    \/ \E a \in Applet \cup {None}, Le \in Les : SelectApplet(cla, a, Le)
    \/ VerifyBadParameters(cla)
    \/ VerifyQuery(cla)
    \/ VerifyCount(cla)
    \/ \E right \in BOOLEAN : VerifyLogin(cla, right)
    \/ GetResponseEmpty(cla)
    \/ \E Le \in Les : GetResponse(cla, Le)

CacCommand(cla) ==
    \/ \E c \in PropCommands : PropertiesRefused(cla, c[1], c[2], c[3], c[4])
    \/ \E len \in PropLens, Le \in Les : GetProperties(cla, len, Le)
    \/ \E Lc \in {0, 2}, found \in BOOLEAN : SelectObject(cla, Lc, found)
    \/ \E ins \in Instruction : CacUnsupported(cla, ins)
    \/ UpdateBuffer(cla)
    \/ \E Lc \in {0, 2}, f \in {"TAG", "VALUE", "OTHER"} :
          ReadRefused(cla, Lc, f)
    \/ \E f \in {"TAG", "VALUE"}, r \in ReadRanges, Le \in Les :
          ReadBuffer(cla, f, r[1], r[2], Le)
    \/ \E c \in AcrCommands : AcrRefused(cla, c[1], c[2], c[3], c[4])
    \/ \E len \in AcrLens, Le \in Les : GetAcr(cla, len, Le)
    \/ SignBadP2(cla)
    \/ \E body \in Body : SignMore(cla, body)
    \/ SignBadP1(cla)
    \/ \E body \in Body, Le \in Les :
          CurrentOf(cla) \in Pki /\
          \E o \in RsaOutcomes(x509[CurrentOf(cla)],
                     BlockLen * Len(sign[CurrentOf(cla)] \o body)) :
             SignFinal(cla, body, Le, o)

GetDataCommand(cla) ==
    \/ \E tag \in {"9F7F", "0066", "OTHER"}, Le \in Les :
          GpGetData(cla, tag, Le)
    \/ MsftUnknownTag(cla)
    \/ \E Le \in Les : MsftGetData(cla, Le)

Next ==
    \/ \E cla \in Clas :
          VmCommand(cla) \/ CacCommand(cla) \/ GetDataCommand(cla)
    \/ Reset
    \/ \E a \in Pt, c \in Objects : ObjectChange(a, c)

Spec == Init /\ [][Next]_vars

-----------------------------------------------------------------------------
(* Type correctness of the card's state and of the client's history.       *)
TypeOK ==
    /\ current \in [Channel -> Applet \cup {None}]
    /\ buf \in BufferResponse \cup {None}
    /\ sign \in [Pki -> Seq(Block)]
    /\ x509 \in [Pki -> {"Unknown", "False", "True"}]
    /\ logged \in BOOLEAN /\ compat \in BOOLEAN /\ verified \in BOOLEAN
    /\ object \in [Pt -> Objects]
    /\ file \in [Pt -> Content \cup {None}]
    /\ resp \in Response
    /\ last \in Source
    /\ got \in Nat
    /\ sent \in [Pki -> Seq(Block)]
    /\ seen \in [Pt -> SUBSET Content]
    /\ valid \in [Pt -> SUBSET Content]

(* A response that did not fit is kept whole: what GET RESPONSE handed out *)
(* so far and what is left are the response, and there is always something *)
(* left while the buffer exists (vcard_init_buffer_response, GET RESPONSE  *)
(* of vcard7816_vm_process_apdu).                                          *)
ChainIntact ==
    buf # None =>
        /\ buf.off = got
        /\ buf.off + buf.len = buf.total
        /\ buf.len > 0

(* The count announced with 61 xx is the number of bytes the next GET      *)
(* RESPONSE can fetch, zero standing for 256 and more: a client that asks  *)
(* for what was announced is never answered DATA NOT FOUND.                *)
AnnouncedCount ==
    resp.sw = "RESPONSE_BYTES" =>
        buf # None /\ resp.sw2 = (IF buf.len >= 256 THEN 0 ELSE buf.len)

(* A buffered response belongs to the last command: GET RESPONSE never     *)
(* returns what an earlier command left behind (vcard_process_apdu clears  *)
(* the buffer before any other command, vcard_reset with the channels).    *)
BufferOwner ==
    buf # None => buf.src.ins = last.ins /\ buf.src.applet = last.applet

(* The end of a chain: a part that GET RESPONSE hands out starts where the  *)
(* last one ended, and when it answers 90 00 the client has received every *)
(* byte of the response, each exactly once and in order.  A change of a    *)
(* token object is no answer.                                              *)
ChainDelivered ==
    [][object' = object /\ resp'.ins = "GET_RESPONSE" /\ resp'.src # NoSrc =>
         /\ resp'.off = got
         /\ resp'.sw = "SUCCESS" => got' = resp'.total]_vars

(* A client that repeats a GET PROPERTIES answered 6C xx with the length   *)
(* xx (0 is 256) is not answered 6C again, also when xx is the length      *)
(* modulo 256.                                                             *)
WrongLeConverges ==
    resp.sw = "LE_ERROR" => ~WrongLe(resp.total, LeShort(resp.sw2))

(* Signature input never mixes: while a PKI applet is selected its buffer  *)
(* holds exactly what the client sent it since its last selection, card    *)
(* reset, or finished or refused operation; vcard_reset leaves the buffers *)
(* alone, so this rests on the reset at selection.                         *)
SignInputFresh ==
    \A ch \in Channel : current[ch] \in Pki =>
        sign[current[ch]] = sent[current[ch]]

(* a step that produces a signature *)
Signature ==
    /\ resp'.ins = "SIGN_DECRYPT"
    /\ resp'.src # NoSrc \/ resp'.sw = "RESPONSE_BYTES"

(* A signature is made only if the token needs no login or the last VERIFY *)
(* since the last reset had the right PIN: a failed VERIFY ends an earlier *)
(* login (vcard_emul_login logs out first) and so does a reset.            *)
SignAuthorised == [][Signature => ~NeedLogin \/ verified]_vars

(* Once a key's raw operation has worked it is always used, and once it    *)
(* was replaced by PKCS #1 that is kept ("stay with the PKCS version for   *)
(* future operations on this key", vcard_emul_rsa_op).                     *)
RawModeSticks ==
    [][\A p \in Pki : x509[p] # "Unknown" => x509'[p] = x509[p]]_vars

(* Reads of a passthrough applet are a snapshot: since the last selection  *)
(* of the applet only contents its object has had meanwhile are returned,  *)
(* and never two different ones, except contents with an empty file, which *)
(* cac_passthrough_container_process_apdu reads again each time.           *)
ReadSnapshot ==
    \A a \in Pt :
        /\ seen[a] \subseteq valid[a]
        /\ \A c, d \in seen[a] : HasFiles(c) /\ HasFiles(d) => c = d
=============================================================================
