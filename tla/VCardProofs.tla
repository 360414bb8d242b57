----------------------------- MODULE VCardProofs -----------------------------
(***************************************************************************)
(* Proofs about module VCard, for every set of applets, contents, lengths  *)
(* and class bytes.                                                        *)
(***************************************************************************)
EXTENDS VCard, TLAPS

-----------------------------------------------------------------------------
(* Type correctness *)

(* The values put in a status byte are bytes.                              *)
LEMMA Bytes ==
    /\ 0 \in Byte /\ 195 \in Byte
    /\ \A n \in Nat : n <= 255 => n \in Byte
    /\ \A n \in Nat : (n % 256) \in Byte
<1>1. \A n \in Nat : (n % 256) \in Nat /\ n % 256 <= 255
  BY SMT
<1>2. \A n \in Nat : n <= 255 => n \in Byte
  BY DEF Byte
<1>3. QED BY <1>1, <1>2

(* A class byte decodes to one of the four channels.                       *)
LEMMA ChannelType == ASSUME NEW cla \in Clas PROVE ChannelOf(cla) \in Channel
<1>1. cla \in Nat
  BY CardAssumption DEF Byte
<1>2. cla % 4 \in 0 .. 3
  BY <1>1, SMT
<1>3. QED BY <1>2 DEF ChannelOf, SetClass, Channel

(* What a status answer leaves behind.                                     *)
LEMMA StatusAnswerType ==
    ASSUME TypeOK, NEW ins \in Instruction, NEW s \in Status,
           AnswerStatus(ins, s)
    PROVE  /\ resp' \in Response
           /\ buf' \in BufferResponse \cup {None}
           /\ got' \in Nat
<1>1. NoSrc \in Source
  BY DEF NoSrc, Src, Source
<1>2. resp' \in Response
  BY <1>1, Bytes DEF AnswerStatus, StatusOnly, Response
<1>3. QED BY <1>2 DEF AnswerStatus, KeptBuffer, TypeOK

(* A response whose second status byte and lengths are set is a response. *)
LEMMA PatchedResponse ==
    ASSUME NEW r \in Response, NEW b \in Byte, NEW n \in Nat
    PROVE  /\ [r EXCEPT !.sw2 = b, !.total = n] \in Response
           /\ \A src \in Source : [r EXCEPT !.src = src, !.len = n, !.total = n] \in Response
BY DEF Response

(* What a data answer leaves behind.                                       *)
LEMMA DataAnswerType ==
    ASSUME TypeOK, NEW src \in Source, src.ins \in Instruction,
           NEW len \in Nat, NEW Le \in Nat, AnswerData(src, len, Le)
    PROVE  /\ resp' \in Response
           /\ buf' \in BufferResponse \cup {None}
           /\ got' \in Nat
<1>1. NoSrc \in Source
  BY DEF NoSrc, Src, Source
<1>2. StatusOnly(src.ins, "RESPONSE_BYTES") \in Response
      /\ StatusOnly(src.ins, "SUCCESS") \in Response
  BY <1>1, Bytes DEF StatusOnly, Response, Status
<1>3. (IF len > 255 THEN 0 ELSE len) \in Byte
  BY Bytes
<1>4. resp' \in Response
  BY <1>2, <1>3, PatchedResponse DEF AnswerData, DataAnswer
<1>5. NewBuffer(src, len) \in BufferResponse
  BY DEF NewBuffer, BufferResponse
<1>6. QED BY <1>4, <1>5 DEF AnswerData, KeptBuffer, TypeOK


(* the part of the state a command may leave alone *)
OthersType ==
    /\ current \in [Channel -> Applet \cup {None}]
    /\ sign \in [Pki -> Seq(Block)]
    /\ x509 \in [Pki -> {"Unknown", "False", "True"}]
    /\ logged \in BOOLEAN /\ compat \in BOOLEAN /\ verified \in BOOLEAN
    /\ object \in [Pt -> Objects]
    /\ file \in [Pt -> Content \cup {None}]
    /\ sent \in [Pki -> Seq(Block)]
    /\ seen \in [Pt -> SUBSET Content]
    /\ valid \in [Pt -> SUBSET Content]

(* the part every command sets *)
AnswerType ==
    /\ buf \in BufferResponse \cup {None}
    /\ resp \in Response
    /\ last \in Source
    /\ got \in Nat

(* TypeOK is these two parts.                                              *)
LEMMA TypeParts == TypeOK <=> OthersType /\ AnswerType
BY DEF TypeOK, OthersType, AnswerType

(* A command without the state of OthersType keeps its type.               *)
LEMMA OthersUnchanged ==
    ASSUME OthersType, UNCHANGED others PROVE OthersType'
BY DEF OthersType, others

(* The applet a command is routed to.                                      *)
LEMMA CurrentType ==
    ASSUME TypeOK, NEW cla \in Clas
    PROVE  CurrentOf(cla) \in Applet \cup {None}
BY ChannelType DEF TypeOK, CurrentOf

(* The source of a response without data.                                  *)
LEMMA SrcType ==
    ASSUME NEW ins \in Instruction \cup {"NONE"},
           NEW a \in Applet \cup {None},
           NEW d \in Seq(Block \cup Content)
    PROVE  Src(ins, a, d) \in Source
BY DEF Src, Source

(* The empty sequence is signature input and a response's data.            *)
LEMMA EmptySeq ==
    <<>> \in Seq(Block) /\ <<>> \in Seq(Block \cup Content)
OBVIOUS

(* What is remembered of a command.                                        *)
LEMMA RememberType ==
    ASSUME TypeOK, NEW ins \in Instruction, NEW a \in Applet \cup {None},
           Remember(ins, a)
    PROVE  last' \in Source
BY SrcType, EmptySeq DEF Remember, TypeOK

(* A command answered with a status and changing nothing else.             *)
LEMMA StatusReplyType ==
    ASSUME TypeOK, NEW cla \in Clas, NEW ins \in Instruction,
           NEW s \in Status, StatusReply(cla, ins, s)
    PROVE  TypeOK'
<1>1. AnswerType'
  BY StatusAnswerType, RememberType, CurrentType DEF StatusReply, AnswerType
<1>2. OthersType'
  BY TypeParts, OthersUnchanged DEF StatusReply
<1>3. QED BY <1>1, <1>2 DEF TypeOK, OthersType, AnswerType

(* A command answered with data and changing nothing else.                 *)
LEMMA DataReplyType ==
    ASSUME TypeOK, NEW cla \in Clas, NEW ins \in Instruction,
           NEW len \in Nat, NEW Le \in Nat, DataReply(cla, ins, len, Le)
    PROVE  TypeOK'
<1>1. Src(ins, CurrentOf(cla), <<>>) \in Source
      /\ Src(ins, CurrentOf(cla), <<>>).ins = ins
  BY SrcType, EmptySeq, CurrentType DEF Src
<1>2. AnswerType'
  BY <1>1, DataAnswerType, RememberType, CurrentType DEF DataReply, AnswerType
<1>3. OthersType'
  BY TypeParts, OthersUnchanged DEF DataReply
<1>4. QED BY <1>2, <1>3 DEF TypeOK, OthersType, AnswerType

(* The commands of vcard7816_vm_process_apdu keep the types.               *)
LEMMA VmCommandType ==
    ASSUME TypeOK, NEW cla \in Clas, VmCommand(cla)
    PROVE  TypeOK'
<1> USE DEF Instruction, Status
<1>1. ASSUME NEW ins \in Instruction, NEW p1 \in {0, 4}, VmRefuse(cla, ins, p1)
      PROVE  TypeOK'
  BY <1>1, StatusReplyType DEF VmRefuse
<1>2. ASSUME NEW ins \in Instruction, VmUnsupported(cla, ins) PROVE TypeOK'
  BY <1>2, StatusReplyType DEF VmUnsupported
<1>3. ASSUME NEW p1 \in {0, 2}, SelectBadP1(cla, p1) PROVE TypeOK'
  BY <1>3, StatusReplyType DEF SelectBadP1
<1>4. ASSUME NEW a \in Applet \cup {None}, NEW Le \in Les,
             SelectApplet(cla, a, Le)
      PROVE  TypeOK'
  <2>1. Le \in Nat /\ SelectLen(a) \in Nat
    BY LengthAssumption DEF SelectLen
  <2>2. Src("SELECT_FILE", a, <<>>) \in Source
        /\ Src("SELECT_FILE", a, <<>>).ins = "SELECT_FILE"
    BY SrcType, EmptySeq DEF Src
  <2>3. /\ resp' \in Response
        /\ buf' \in BufferResponse \cup {None}
        /\ got' \in Nat
    <3>1. CASE a = None
      BY <1>4, <3>1, StatusAnswerType DEF SelectApplet
    <3>2. CASE a # None
      BY <1>4, <3>2, <2>1, <2>2, DataAnswerType DEF SelectApplet
    <3>3. QED BY <3>1, <3>2
  <2>4. last' \in Source
    BY <1>4, RememberType DEF SelectApplet
  <2>5. current' \in [Channel -> Applet \cup {None}]
    BY <1>4, ChannelType DEF SelectApplet, TypeOK
  <2>6. sign' \in [Pki -> Seq(Block)] /\ sent' \in [Pki -> Seq(Block)]
    BY <1>4, EmptySeq DEF SelectApplet, ResetSign, TypeOK
  <2>7. file' \in [Pt -> Content \cup {None}]
    BY <1>4 DEF SelectApplet, ResetFile, TypeOK
  <2>8. seen' \in [Pt -> SUBSET Content] /\ valid' \in [Pt -> SUBSET Content]
    BY <1>4, CardAssumption DEF SelectApplet, TypeOK
  <2>9. QED BY <1>4, <2>3, <2>4, <2>5, <2>6, <2>7, <2>8 DEF SelectApplet, TypeOK
<1>5. CASE VerifyBadParameters(cla)
  BY <1>5, StatusReplyType DEF VerifyBadParameters
<1>6. CASE VerifyQuery(cla)
  BY <1>6, StatusReplyType DEF VerifyQuery
<1>7. CASE VerifyCount(cla)
  <2>1. 192 + Smaller(15, LoginCount) = 195
    BY <1>7, SMT DEF VerifyCount, LoginCount, Smaller
  <2>2. NoSrc \in Source
    BY SrcType, EmptySeq DEF NoSrc
  <2>3. StatusOnly("VERIFY", "WARNING_CHANGE") \in Response
    BY <2>2, Bytes DEF StatusOnly, Response
  <2>4. resp' \in Response
    BY <1>7, <2>1, <2>3, Bytes DEF VerifyCount, Response
  <2>5. buf' \in BufferResponse \cup {None} /\ got' \in Nat
    BY <1>7 DEF VerifyCount, KeptBuffer, TypeOK
  <2>6. last' \in Source
    BY <1>7, RememberType, CurrentType DEF VerifyCount
  <2>7. OthersType'
    BY <1>7, TypeParts, OthersUnchanged DEF VerifyCount
  <2>8. QED BY <2>4, <2>5, <2>6, <2>7 DEF TypeOK, OthersType
<1>8. ASSUME NEW right \in BOOLEAN, VerifyLogin(cla, right) PROVE TypeOK'
  <2>1. /\ resp' \in Response
        /\ buf' \in BufferResponse \cup {None}
        /\ got' \in Nat
    BY <1>8, StatusAnswerType DEF VerifyLogin
  <2>2. last' \in Source
    BY <1>8, RememberType, CurrentType DEF VerifyLogin
  <2>3. logged' \in BOOLEAN /\ verified' \in BOOLEAN
    BY <1>8, Zenon DEF VerifyLogin
  <2>4. QED BY <1>8, <2>1, <2>2, <2>3 DEF VerifyLogin, TypeOK
<1>9. CASE GetResponseEmpty(cla)
  BY <1>9, StatusReplyType DEF GetResponseEmpty
<1>10. ASSUME NEW Le \in Les, GetResponse(cla, Le) PROVE TypeOK'
  <2>1. buf \in BufferResponse /\ Le \in Nat
    BY <1>10, LengthAssumption DEF GetResponse, TypeOK
  <2>2. buf.len \in Nat /\ buf.off \in Nat /\ buf.total \in Nat
        /\ buf.src \in Source
    BY <2>1 DEF BufferResponse
  <2>3. BytesToCopy(Le) \in Nat /\ NextByteCount(Le) \in Nat
        /\ buf.len - BytesToCopy(Le) \in Nat
    BY <2>1, <2>2 DEF BytesToCopy, NextByteCount, Smaller
  <2>4. resp' \in Response
    BY <1>10, <2>2, <2>3, Bytes DEF GetResponse, Response
  <2>5. buf' \in BufferResponse \cup {None}
    <3> DEFINE n == BytesToCopy(Le)
    <3>1. buf.off + n \in Nat /\ buf.len - n \in Nat
      BY <2>2, <2>3
    <3> HIDE DEF n
    <3>2. [buf EXCEPT !.off = @ + n, !.len = @ - n] \in BufferResponse
      BY <2>1, <3>1 DEF BufferResponse
    <3>3. QED BY <1>10, <3>2 DEF GetResponse, n
  <2>6. got' \in Nat
    BY <1>10, <2>3 DEF GetResponse, TypeOK
  <2>7. OthersType' /\ last' \in Source
    BY <1>10, TypeParts, OthersUnchanged DEF GetResponse, AnswerType
  <2>8. QED BY <2>4, <2>5, <2>6, <2>7 DEF TypeOK, OthersType
<1>11. QED BY <1>1, <1>2, <1>3, <1>4, <1>5, <1>6, <1>7, <1>8, <1>9, <1>10
           DEF VmCommand

(* READ BUFFER presents a content.                                         *)
LEMMA FilesType ==
    ASSUME TypeOK, NEW a \in Pki \cup Pt \cup Plain
    PROVE  FilesOf(a) \in Content
BY CardAssumption DEF FilesOf, TypeOK

(* One piece of signature input is a sequence of pieces.                   *)
LEMMA BodyType ==
    ASSUME NEW body \in Body
    PROVE  body \in Seq(Block)
<1>1. CASE body = <<>>
  BY <1>1, EmptySeq
<1>2. ASSUME NEW b \in Block, body = <<b>> PROVE body \in Seq(Block)
  BY <1>2
<1>3. QED BY <1>1, <1>2 DEF Body

(* Signature input is a response's data.                                   *)
LEMMA InputIsData ==
    ASSUME NEW x \in Seq(Block)
    PROVE  x \in Seq(Block \cup Content)
<1>1. x \in [1 .. Len(x) -> Block] /\ Len(x) \in Nat
  OBVIOUS
<1>2. x \in [1 .. Len(x) -> Block \cup Content]
  BY <1>1
<1>3. QED BY <1>1, <1>2

(* The CAC applets' commands keep the types.                               *)
LEMMA CacCommandType ==
    ASSUME TypeOK, NEW cla \in Clas, CacCommand(cla)
    PROVE  TypeOK'
<1> USE DEF Instruction, Status
<1> DEFINE cur == CurrentOf(cla)
<1>0. cur \in Applet \cup {None}
  BY CurrentType
<1>1. ASSUME NEW c \in PropCommands,
             PropertiesRefused(cla, c[1], c[2], c[3], c[4])
      PROVE  TypeOK'
  BY <1>1, StatusReplyType DEF PropertiesRefused, PropertiesError
<1>2. ASSUME NEW len \in PropLens, NEW Le \in Les, GetProperties(cla, len, Le)
      PROVE  TypeOK'
  <2>1. len \in Nat /\ Le \in Nat
    BY LengthAssumption
  <2>2. CASE WrongLe(len, Le)
    <3>1. NoSrc \in Source
      BY SrcType, EmptySeq DEF NoSrc
    <3>2. StatusOnly("GET_PROPERTIES", "LE_ERROR") \in Response
      BY <3>1, Bytes DEF StatusOnly, Response
    <3>3. resp' \in Response
      <4>1. (len % 256) \in Byte
        BY <2>1, Bytes
      <4>2. resp' = [StatusOnly("GET_PROPERTIES", "LE_ERROR")
                       EXCEPT !.sw2 = len % 256, !.total = len]
        BY <1>2, <2>2 DEF GetProperties, PropertiesReply
      <4> DEFINE r == StatusOnly("GET_PROPERTIES", "LE_ERROR")
      <4>0. r \in Response
        BY <3>2
      <4> HIDE DEF r
      <4>3. [r EXCEPT !.sw2 = len % 256, !.total = len] \in Response
        <5> DEFINE b == len % 256
        <5>2. b \in Byte
          BY <4>1
        <5> HIDE DEF b
        <5>1. [r EXCEPT !.sw2 = b, !.total = len] \in Response
          BY <2>1, <4>0, <5>2, PatchedResponse
        <5> QED BY <5>1 DEF b
      <4>4. QED BY <4>2, <4>3 DEF r
    <3>4. buf' \in BufferResponse \cup {None} /\ got' \in Nat
      BY <1>2, <2>2 DEF GetProperties, PropertiesReply, KeptBuffer, TypeOK
    <3>5. last' \in Source
      BY <1>0, <1>2, <2>2, RememberType DEF GetProperties, PropertiesReply
    <3>6. OthersType'
      BY <1>2, <2>2, TypeParts, OthersUnchanged
         DEF GetProperties, PropertiesReply
    <3>7. QED BY <3>3, <3>4, <3>5, <3>6 DEF TypeOK, OthersType
  <2>3. CASE ~WrongLe(len, Le)
    BY <1>2, <2>1, <2>3, DataReplyType DEF GetProperties, PropertiesReply
  <2>4. QED BY <2>2, <2>3
<1>3. ASSUME NEW Lc \in {0, 2}, NEW found \in BOOLEAN,
             SelectObject(cla, Lc, found)
      PROVE  TypeOK'
  BY <1>3, StatusReplyType DEF SelectObject
<1>4. ASSUME NEW ins \in Instruction, CacUnsupported(cla, ins) PROVE TypeOK'
  BY <1>4, StatusReplyType DEF CacUnsupported
<1>5. CASE UpdateBuffer(cla)
  BY <1>5, StatusReplyType DEF UpdateBuffer
<1>6. ASSUME NEW Lc \in {0, 2}, NEW f \in {"TAG", "VALUE", "OTHER"},
             ReadRefused(cla, Lc, f)
      PROVE  TypeOK'
  <2>1. /\ resp' \in Response
        /\ buf' \in BufferResponse \cup {None}
        /\ got' \in Nat
    BY <1>6, StatusAnswerType DEF ReadRefused
  <2>2. last' \in Source
    BY <1>0, <1>6, RememberType DEF ReadRefused
  <2>3. file' \in [Pt -> Content \cup {None}]
    BY <1>6, FilesType DEF ReadRefused, LoadFiles, TypeOK
  <2>4. QED BY <1>6, <2>1, <2>2, <2>3 DEF ReadRefused, TypeOK
<1>7. ASSUME NEW f \in {"TAG", "VALUE"}, NEW r \in ReadRanges, NEW Le \in Les,
             ReadBuffer(cla, f, r[1], r[2], Le)
      PROVE  TypeOK'
  <2> DEFINE c == FilesOf(cur)
             n == ReadSize(f, c, r[1], r[2])
  <2>1. c \in Content
    BY <1>7, FilesType DEF ReadBuffer
  <2>2. Le \in Nat /\ r[1] \in Nat /\ r[2] \in Nat /\ FileLen(f, c) \in Nat
    BY <2>1, LengthAssumption DEF FileLen
  <2>3. n \in Int
    BY <2>2 DEF ReadSize, Smaller
  <2>4. <<c>> \in Seq(Block \cup Content)
    BY <2>1
  <2>5. Src("READ_BUFFER", cur, <<c>>) \in Source
        /\ Src("READ_BUFFER", cur, <<c>>).ins = "READ_BUFFER"
    BY <1>0, <2>4, SrcType DEF Src
  <2> HIDE DEF n, c
  <2>6. /\ resp' \in Response
        /\ buf' \in BufferResponse \cup {None}
        /\ got' \in Nat
    <3>1. CASE n < 0
      BY <1>7, <3>1, StatusAnswerType DEF ReadBuffer, n, c
    <3>2. CASE ~(n < 0)
      <4>1. AnswerData(Src("READ_BUFFER", cur, <<c>>), n, Le)
        BY <1>7, <3>2 DEF ReadBuffer, n, c
      <4>2. n \in Nat
        BY <2>3, <3>2
      <4>3. QED BY <4>1, <4>2, <2>2, <2>5, DataAnswerType
    <3>3. QED BY <3>1, <3>2
  <2>7. last' \in Source
    BY <1>0, <1>7, RememberType DEF ReadBuffer
  <2>8. file' \in [Pt -> Content \cup {None}]
        /\ seen' \in [Pt -> SUBSET Content]
    BY <1>7, FilesType DEF ReadBuffer, LoadFiles, TypeOK
  <2>9. QED BY <1>7, <2>6, <2>7, <2>8 DEF ReadBuffer, TypeOK
<1>8. ASSUME NEW c \in AcrCommands, AcrRefused(cla, c[1], c[2], c[3], c[4])
      PROVE  TypeOK'
  BY <1>8, StatusReplyType DEF AcrRefused, AcrError
<1>9. ASSUME NEW len \in AcrLens, NEW Le \in Les, GetAcr(cla, len, Le)
      PROVE  TypeOK'
  BY <1>9, LengthAssumption, DataReplyType DEF GetAcr
<1>10. CASE SignBadP2(cla)
  BY <1>10, StatusReplyType DEF SignBadP2
<1>11. ASSUME NEW body \in Body, SignMore(cla, body) PROVE TypeOK'
  <2>1. /\ resp' \in Response
        /\ buf' \in BufferResponse \cup {None}
        /\ got' \in Nat
    BY <1>11, StatusAnswerType DEF SignMore
  <2>2. last' \in Source
    BY <1>0, <1>11, RememberType DEF SignMore
  <2>3. body \in Seq(Block)
    BY BodyType
  <2>4. sign' \in [Pki -> Seq(Block)] /\ sent' \in [Pki -> Seq(Block)]
    BY <1>11, <2>3 DEF SignMore, TypeOK
  <2>5. QED BY <1>11, <2>1, <2>2, <2>4 DEF SignMore, TypeOK
<1>12. CASE SignBadP1(cla)
  <2>1. /\ resp' \in Response
        /\ buf' \in BufferResponse \cup {None}
        /\ got' \in Nat
    BY <1>12, StatusAnswerType DEF SignBadP1
  <2>2. last' \in Source
    BY <1>0, <1>12, RememberType DEF SignBadP1
  <2>3. sign' \in [Pki -> Seq(Block)] /\ sent' \in [Pki -> Seq(Block)]
    BY <1>12, EmptySeq DEF SignBadP1, TypeOK
  <2>4. QED BY <1>12, <2>1, <2>2, <2>3 DEF SignBadP1, TypeOK
<1>13. ASSUME NEW body \in Body, NEW Le \in Les, NEW o, cur \in Pki,
              o \in RsaOutcomes(x509[cur], BlockLen * Len(sign[cur] \o body)),
              SignFinal(cla, body, Le, o)
       PROVE  TypeOK'
  <2>1. o.status \in Status /\ o.x509 \in {"Unknown", "False", "True"}
    <3>1. x509[cur] \in {"Unknown", "False", "True"}
      BY <1>13 DEF TypeOK
    <3>2. QED BY <1>13, <3>1 DEF RsaOutcomes, RawFailureOutcomes, PkcsOutcomes,
                                 Outcome, MapError
  <2>2. sign[cur] \o body \in Seq(Block \cup Content)
    <3>1. sign[cur] \in Seq(Block)
      BY <1>13 DEF TypeOK
    <3>2. sign[cur] \in Seq(Block \cup Content)
          /\ body \in Seq(Block \cup Content)
      BY <3>1, BodyType, InputIsData
    <3>3. QED BY <3>2
  <2>3. Src("SIGN_DECRYPT", cur, sign[cur] \o body) \in Source
        /\ Src("SIGN_DECRYPT", cur, sign[cur] \o body).ins = "SIGN_DECRYPT"
    BY <1>0, <2>2, SrcType DEF Src
  <2>4. KeyLen \in Nat /\ Le \in Nat
    BY LengthAssumption
  <2>5. /\ resp' \in Response
        /\ buf' \in BufferResponse \cup {None}
        /\ got' \in Nat
    <3>1. CASE o.status = "SUCCESS"
      BY <1>13, <3>1, <2>3, <2>4, DataAnswerType DEF SignFinal
    <3>2. CASE o.status # "SUCCESS"
      BY <1>13, <3>2, <2>1, StatusAnswerType DEF SignFinal
    <3>3. QED BY <3>1, <3>2
  <2>6. last' \in Source
    BY <1>0, <1>13, RememberType DEF SignFinal
  <2>7. sign' \in [Pki -> Seq(Block)] /\ sent' \in [Pki -> Seq(Block)]
        /\ x509' \in [Pki -> {"Unknown", "False", "True"}]
    BY <1>13, <2>1, EmptySeq DEF SignFinal, TypeOK
  <2>8. QED BY <1>13, <2>5, <2>6, <2>7 DEF SignFinal, TypeOK
<1>14. QED BY <1>1, <1>2, <1>3, <1>4, <1>5, <1>6, <1>7, <1>8, <1>9, <1>10,
              <1>11, <1>12, <1>13 DEF CacCommand

(* The GET DATA applets' commands keep the types.                          *)
LEMMA GetDataCommandType ==
    ASSUME TypeOK, NEW cla \in Clas, GetDataCommand(cla)
    PROVE  TypeOK'
<1> USE DEF Instruction, Status
<1>1. ASSUME NEW tag \in {"9F7F", "0066", "OTHER"}, NEW Le \in Les,
             GpGetData(cla, tag, Le)
      PROVE  TypeOK'
  <2>1. Le \in Nat
    BY LengthAssumption
  <2>2. CASE DataReply(cla, "GET_DATA", 45, Le)
    BY <2>1, <2>2, DataReplyType
  <2>3. CASE DataReply(cla, "GET_DATA", 51, Le)
    BY <2>1, <2>3, DataReplyType
  <2>4. CASE StatusReply(cla, "GET_DATA", "DATA_NOT_FOUND")
    BY <2>4, StatusReplyType
  <2>5. QED BY <1>1, <2>2, <2>3, <2>4 DEF GpGetData
<1>2. CASE MsftUnknownTag(cla)
  BY <1>2, StatusReplyType DEF MsftUnknownTag
<1>3. ASSUME NEW Le \in Les, MsftGetData(cla, Le) PROVE TypeOK'
  <2>1. Le \in Nat /\ CurrentOf(cla) \in Applet \cup {None}
    BY LengthAssumption, CurrentType
  <2>2. Src("GET_DATA", CurrentOf(cla), <<>>) \in Source
        /\ Src("GET_DATA", CurrentOf(cla), <<>>).ins = "GET_DATA"
    BY <2>1, SrcType, EmptySeq DEF Src
  <2>3. /\ resp' \in Response
        /\ buf' \in BufferResponse \cup {None}
        /\ got' \in Nat
    BY <1>3, <2>1, <2>2, DataAnswerType DEF MsftGetData
  <2>4. last' \in Source
    BY <1>3, <2>1, RememberType DEF MsftGetData
  <2>5. QED BY <1>3, <2>3, <2>4 DEF MsftGetData, TypeOK
<1>4. QED BY <1>1, <1>2, <1>3 DEF GetDataCommand

(* The empty response of a reset card.                                     *)
LEMMA ResetResponseType ==
    StatusOnly("NONE", "SUCCESS") \in Response /\ NoSrc \in Source
<1>1. NoSrc \in Source
  BY SrcType, EmptySeq DEF NoSrc
<1>2. QED BY <1>1, Bytes DEF StatusOnly, Response, Status

(* The card's state and the client's history keep their types, for every   *)
(* card and client.                                                        *)
THEOREM TypeCorrect == Spec => []TypeOK
<1>1. Init => TypeOK
  <2> SUFFICES ASSUME Init PROVE TypeOK
    OBVIOUS
  <2>1. AnswerType
    BY ResetResponseType DEF Init, AnswerType
  <2>2. object \in [Pt -> Objects] /\ valid \in [Pt -> SUBSET Content]
    BY CardAssumption DEF Init
  <2>3. sign \in [Pki -> Seq(Block)] /\ sent \in [Pki -> Seq(Block)]
    BY EmptySeq DEF Init
  <2>4. current \in [Channel -> Applet \cup {None}]
        /\ file \in [Pt -> Content \cup {None}]
        /\ seen \in [Pt -> SUBSET Content]
    BY DEF Init
  <2>5. x509 \in [Pki -> {"Unknown", "False", "True"}]
        /\ logged \in BOOLEAN /\ compat \in BOOLEAN /\ verified \in BOOLEAN
    BY DEF Init
  <2>6. QED BY <2>1, <2>2, <2>3, <2>4, <2>5 DEF TypeOK, AnswerType
<1>2. TypeOK /\ [Next]_vars => TypeOK'
  <2> SUFFICES ASSUME TypeOK, [Next]_vars PROVE TypeOK'
    OBVIOUS
  <2>1. ASSUME NEW cla \in Clas, VmCommand(cla) PROVE TypeOK'
    BY <2>1, VmCommandType
  <2>2. ASSUME NEW cla \in Clas, CacCommand(cla) PROVE TypeOK'
    BY <2>2, CacCommandType
  <2>3. ASSUME NEW cla \in Clas, GetDataCommand(cla) PROVE TypeOK'
    BY <2>3, GetDataCommandType
  <2>4. CASE Reset
    BY <2>4, ResetResponseType, EmptySeq DEF Reset, TypeOK
  <2>5. ASSUME NEW a \in Pt, NEW c \in Objects, ObjectChange(a, c)
        PROVE  TypeOK'
    BY <2>5, CardAssumption DEF ObjectChange, TypeOK
  <2>6. CASE UNCHANGED vars
    BY <2>6 DEF vars, TypeOK
  <2>7. QED BY <2>1, <2>2, <2>3, <2>4, <2>5, <2>6 DEF Next
<1>3. QED BY <1>1, <1>2, PTL DEF Spec

-----------------------------------------------------------------------------
(* The response chain *)

(* What a step can do to the buffered response: nothing that matters, drop *)
(* it, refuse a GET RESPONSE, start a new one, or continue it.             *)
Cleared == buf' = None /\ resp'.sw # "RESPONSE_BYTES"
Refused == UNCHANGED <<buf, got, last>> /\ resp'.sw # "RESPONSE_BYTES"
Started(src, len) ==
    /\ src \in Source
    /\ len \in Nat /\ len > 0
    /\ buf' = NewBuffer(src, len)
    /\ got' = 0
    /\ resp'.sw2 = (IF len > 255 THEN 0 ELSE len)
    /\ last'.ins = src.ins /\ last'.applet = src.applet
ChainStep ==
    \/ Cleared
    \/ Refused
    \/ \E src \in Source, len \in Nat : Started(src, len)
    \/ \E cla \in Clas, Le \in Les : GetResponse(cla, Le)
    \/ UNCHANGED <<buf, resp, got, last>>

(* A status answer drops the buffer or refuses a GET RESPONSE.             *)
LEMMA StatusIsChainStep ==
    ASSUME NEW ins, NEW s, NEW a, s # "RESPONSE_BYTES",
           AnswerStatus(ins, s), Remember(ins, a)
    PROVE  ChainStep
<1>1. resp'.sw # "RESPONSE_BYTES"
  BY DEF AnswerStatus, StatusOnly
<1>2. CASE ins = "GET_RESPONSE"
  BY <1>1, <1>2 DEF AnswerStatus, Remember, KeptBuffer, ChainStep, Refused
<1>3. CASE ins # "GET_RESPONSE"
  BY <1>1, <1>3 DEF AnswerStatus, KeptBuffer, ChainStep, Cleared
<1>4. QED BY <1>2, <1>3

(* A data answer starts a chain or drops the buffer.                       *)
LEMMA DataIsChainStep ==
    ASSUME NEW src \in Source, src.ins # "GET_RESPONSE",
           NEW len \in Nat, NEW Le \in Nat,
           AnswerData(src, len, Le), Remember(src.ins, src.applet)
    PROVE  ChainStep
<1>1. CASE Buffered(len, Le)
  <2>1. len > 0
    BY <1>1 DEF Buffered
  <2>2. buf' = NewBuffer(src, len) /\ got' = 0
    BY <1>1 DEF AnswerData
  <2>3. resp'.sw2 = (IF len > 255 THEN 0 ELSE len)
    BY <1>1 DEF AnswerData, DataAnswer, StatusOnly
  <2>4. last'.ins = src.ins /\ last'.applet = src.applet
    BY DEF Remember, Src
  <2>5. Started(src, len)
    BY <2>1, <2>2, <2>3, <2>4 DEF Started
  <2>6. QED BY <2>5 DEF ChainStep
<1>2. CASE ~Buffered(len, Le)
  <2>1. resp'.sw # "RESPONSE_BYTES"
    BY <1>2 DEF AnswerData, DataAnswer, StatusOnly
  <2>2. buf' = None
    BY <1>2 DEF AnswerData, KeptBuffer
  <2>3. QED BY <2>1, <2>2 DEF ChainStep, Cleared
<1>3. QED BY <1>1, <1>2

(* A command answered with data and changing nothing else.                 *)
LEMMA DataReplyIsChainStep ==
    ASSUME TypeOK, NEW cla \in Clas, NEW ins \in Instruction,
           ins # "GET_RESPONSE", NEW len \in Nat, NEW Le \in Nat,
           DataReply(cla, ins, len, Le)
    PROVE  ChainStep
<1> DEFINE src == Src(ins, CurrentOf(cla), <<>>)
<1>1. src \in Source /\ src.ins = ins /\ src.applet = CurrentOf(cla)
  BY SrcType, EmptySeq, CurrentType DEF Src
<1>2. AnswerData(src, len, Le) /\ Remember(ins, CurrentOf(cla))
  BY DEF DataReply
<1> HIDE DEF src
<1>3. QED BY <1>1, <1>2, DataIsChainStep

(* Every step of the card treats the buffered response in one of the ways  *)
(* of ChainStep.                                                           *)
LEMMA NextIsChainStep ==
    ASSUME TypeOK, [Next]_vars
    PROVE  ChainStep
<1>1. ASSUME NEW cla \in Clas, NEW ins, NEW s, s # "RESPONSE_BYTES",
             StatusReply(cla, ins, s)
      PROVE  ChainStep
  BY <1>1, StatusIsChainStep DEF StatusReply
<1>2. ASSUME NEW cla \in Clas, VmCommand(cla) PROVE ChainStep
  <2>1. ASSUME NEW ins \in Instruction, NEW p1 \in {0, 4},
               VmRefuse(cla, ins, p1)
        PROVE  ChainStep
    BY <2>1, <1>1 DEF VmRefuse
  <2>2. ASSUME NEW ins \in Instruction, VmUnsupported(cla, ins)
        PROVE  ChainStep
    BY <2>2, <1>1 DEF VmUnsupported
  <2>3. ASSUME NEW p1 \in {0, 2}, SelectBadP1(cla, p1) PROVE ChainStep
    BY <2>3, <1>1 DEF SelectBadP1
  <2>4. ASSUME NEW a \in Applet \cup {None}, NEW Le \in Les,
               SelectApplet(cla, a, Le)
        PROVE  ChainStep
    <3> DEFINE src == Src("SELECT_FILE", a, <<>>)
    <3>1. src \in Source /\ src.ins = "SELECT_FILE" /\ src.applet = a
      BY SrcType, EmptySeq DEF Src, Instruction
    <3>2. SelectLen(a) \in Nat /\ Le \in Nat
      BY LengthAssumption DEF SelectLen
    <3>3. CASE a = None
      BY <2>4, <3>3, StatusIsChainStep DEF SelectApplet
    <3>4. CASE a # None
      <4>1. AnswerData(src, SelectLen(a), Le) /\ Remember("SELECT_FILE", a)
        BY <2>4, <3>4 DEF SelectApplet
      <4> HIDE DEF src
      <4>2. QED BY <4>1, <3>1, <3>2, DataIsChainStep
    <3>5. QED BY <3>3, <3>4
  <2>5. CASE VerifyBadParameters(cla)
    BY <2>5, <1>1 DEF VerifyBadParameters
  <2>6. CASE VerifyQuery(cla)
    BY <2>6, <1>1 DEF VerifyQuery
  <2>7. CASE VerifyCount(cla)
    BY <2>7 DEF VerifyCount, StatusOnly, KeptBuffer, ChainStep, Cleared
  <2>8. ASSUME NEW right \in BOOLEAN, VerifyLogin(cla, right)
        PROVE  ChainStep
    BY <2>8, StatusIsChainStep DEF VerifyLogin
  <2>9. CASE GetResponseEmpty(cla)
    BY <2>9, <1>1 DEF GetResponseEmpty
  <2>10. ASSUME NEW Le \in Les, GetResponse(cla, Le) PROVE ChainStep
    BY <2>10 DEF ChainStep
  <2>11. QED BY <1>2, <2>1, <2>2, <2>3, <2>4, <2>5, <2>6, <2>7, <2>8, <2>9,
                <2>10 DEF VmCommand
<1>3. ASSUME NEW cla \in Clas, CacCommand(cla) PROVE ChainStep
  <2> DEFINE cur == CurrentOf(cla)
  <2>0. cur \in Applet \cup {None}
    BY CurrentType
  <2>1. ASSUME NEW c \in PropCommands,
               PropertiesRefused(cla, c[1], c[2], c[3], c[4])
        PROVE  ChainStep
    BY <2>1, <1>1 DEF PropertiesRefused, PropertiesError
  <2>2. ASSUME NEW len \in PropLens, NEW Le \in Les,
               GetProperties(cla, len, Le)
        PROVE  ChainStep
    <3>1. CASE WrongLe(len, Le)
      BY <2>2, <3>1 DEF GetProperties, PropertiesReply, StatusOnly, KeptBuffer,
                        ChainStep, Cleared
    <3>2. CASE ~WrongLe(len, Le)
      BY <2>2, <3>2, LengthAssumption, DataReplyIsChainStep
         DEF GetProperties, PropertiesReply, Instruction
    <3>3. QED BY <3>1, <3>2
  <2>3. ASSUME NEW Lc \in {0, 2}, NEW found \in BOOLEAN,
               SelectObject(cla, Lc, found)
        PROVE  ChainStep
    BY <2>3, <1>1 DEF SelectObject
  <2>4. ASSUME NEW ins \in Instruction, CacUnsupported(cla, ins)
        PROVE  ChainStep
    BY <2>4, <1>1 DEF CacUnsupported
  <2>5. CASE UpdateBuffer(cla)
    BY <2>5, <1>1 DEF UpdateBuffer
  <2>6. ASSUME NEW Lc \in {0, 2}, NEW f \in {"TAG", "VALUE", "OTHER"},
               ReadRefused(cla, Lc, f)
        PROVE  ChainStep
    BY <2>6, StatusIsChainStep DEF ReadRefused
  <2>7. ASSUME NEW f \in {"TAG", "VALUE"}, NEW r \in ReadRanges,
               NEW Le \in Les, ReadBuffer(cla, f, r[1], r[2], Le)
        PROVE  ChainStep
    <3> DEFINE c == FilesOf(cur)
               n == ReadSize(f, c, r[1], r[2])
               src == Src("READ_BUFFER", cur, <<c>>)
    <3>1. c \in Content
      BY <2>7, FilesType DEF ReadBuffer
    <3>2. Le \in Nat /\ n \in Int
      BY <3>1, LengthAssumption DEF FileLen, ReadSize, Smaller
    <3>3. <<c>> \in Seq(Block \cup Content)
      BY <3>1
    <3>4. src \in Source /\ src.ins = "READ_BUFFER" /\ src.applet = cur
      BY <2>0, <3>3, SrcType DEF Src, Instruction
    <3>5. CASE n < 0
      BY <2>7, <3>5, StatusIsChainStep DEF ReadBuffer
    <3>6. CASE ~(n < 0)
      <4>1. AnswerData(src, n, Le) /\ Remember("READ_BUFFER", cur)
        BY <2>7, <3>6 DEF ReadBuffer
      <4>2. n \in Nat
        BY <3>2, <3>6
      <4> HIDE DEF src, n
      <4>3. QED BY <4>1, <4>2, <3>2, <3>4, DataIsChainStep
    <3>7. QED BY <3>5, <3>6
  <2>8. ASSUME NEW c \in AcrCommands,
               AcrRefused(cla, c[1], c[2], c[3], c[4])
        PROVE  ChainStep
    BY <2>8, <1>1 DEF AcrRefused, AcrError
  <2>9. ASSUME NEW len \in AcrLens, NEW Le \in Les, GetAcr(cla, len, Le)
        PROVE  ChainStep
    BY <2>9, LengthAssumption, DataReplyIsChainStep DEF GetAcr, Instruction
  <2>10. CASE SignBadP2(cla)
    BY <2>10, <1>1 DEF SignBadP2
  <2>11. ASSUME NEW body \in Body, SignMore(cla, body) PROVE ChainStep
    BY <2>11, StatusIsChainStep DEF SignMore
  <2>12. CASE SignBadP1(cla)
    BY <2>12, StatusIsChainStep DEF SignBadP1
  <2>13. ASSUME NEW body \in Body, NEW Le \in Les, NEW o, cur \in Pki,
                o \in RsaOutcomes(x509[cur], BlockLen * Len(sign[cur] \o body)),
                SignFinal(cla, body, Le, o)
         PROVE  ChainStep
    <3> DEFINE src == Src("SIGN_DECRYPT", cur, sign[cur] \o body)
    <3>1. src \in Source /\ src.ins = "SIGN_DECRYPT" /\ src.applet = cur
      <4>1. sign[cur] \in Seq(Block) /\ body \in Seq(Block)
        BY <2>13, BodyType DEF TypeOK
      <4>2. sign[cur] \o body \in Seq(Block)
        BY <4>1
      <4>3. sign[cur] \o body \in Seq(Block \cup Content)
        BY <4>2, InputIsData
      <4>4. QED BY <2>0, <4>3, SrcType DEF Src, Instruction
    <3>2. KeyLen \in Nat /\ Le \in Nat
      BY LengthAssumption
    <3>3. CASE o.status = "SUCCESS"
      <4>1. AnswerData(src, KeyLen, Le) /\ Remember("SIGN_DECRYPT", cur)
        BY <2>13, <3>3 DEF SignFinal
      <4> HIDE DEF src
      <4>2. QED BY <4>1, <3>1, <3>2, DataIsChainStep
    <3>4. CASE o.status # "SUCCESS"
      <4>1. o.status # "RESPONSE_BYTES"
        BY <2>13 DEF RsaOutcomes, RawFailureOutcomes, PkcsOutcomes, Outcome,
                     MapError
      <4>2. QED BY <2>13, <3>4, <4>1, StatusIsChainStep DEF SignFinal
    <3>5. QED BY <3>3, <3>4
  <2>14. QED BY <1>3, <2>1, <2>2, <2>3, <2>4, <2>5, <2>6, <2>7, <2>8, <2>9,
                <2>10, <2>11, <2>12, <2>13 DEF CacCommand
<1>4. ASSUME NEW cla \in Clas, GetDataCommand(cla) PROVE ChainStep
  <2>1. ASSUME NEW tag \in {"9F7F", "0066", "OTHER"}, NEW Le \in Les,
               GpGetData(cla, tag, Le)
        PROVE  ChainStep
    <3>1. Le \in Nat
      BY LengthAssumption
    <3>2. \/ DataReply(cla, "GET_DATA", 45, Le)
          \/ DataReply(cla, "GET_DATA", 51, Le)
          \/ StatusReply(cla, "GET_DATA", "DATA_NOT_FOUND")
      BY <2>1 DEF GpGetData
    <3>3. QED BY <1>1, <3>1, <3>2, DataReplyIsChainStep DEF Instruction
  <2>2. CASE MsftUnknownTag(cla)
    BY <2>2, <1>1 DEF MsftUnknownTag
  <2>3. ASSUME NEW Le \in Les, MsftGetData(cla, Le) PROVE ChainStep
    <3> DEFINE src == Src("GET_DATA", CurrentOf(cla), <<>>)
    <3>1. src \in Source /\ src.ins = "GET_DATA"
          /\ src.applet = CurrentOf(cla)
      BY CurrentType, SrcType, EmptySeq DEF Src, Instruction
    <3>2. AnswerData(src, 31, Le) /\ Remember("GET_DATA", CurrentOf(cla))
      BY <2>3 DEF MsftGetData
    <3>3. Le \in Nat
      BY LengthAssumption
    <3> HIDE DEF src
    <3>4. QED BY <3>1, <3>2, <3>3, DataIsChainStep
  <2>4. QED BY <1>4, <2>1, <2>2, <2>3 DEF GetDataCommand
<1>5. CASE Reset
  BY <1>5 DEF Reset, StatusOnly, ChainStep, Cleared
<1>6. ASSUME NEW a \in Pt, NEW c \in Objects, ObjectChange(a, c)
      PROVE  ChainStep
  BY <1>6 DEF ObjectChange, ChainStep
<1>7. CASE UNCHANGED vars
  BY <1>7 DEF vars, ChainStep
<1>8. QED BY <1>2, <1>3, <1>4, <1>5, <1>6, <1>7 DEF Next

ChainInv == ChainIntact /\ AnnouncedCount /\ BufferOwner

(* The three facts about the chain are preserved together: the count       *)
(* announced depends on what the buffer holds.                             *)
LEMMA ChainPreserved ==
    ASSUME TypeOK, ChainInv, ChainStep
    PROVE  ChainInv'
<1>1. CASE Cleared
  BY <1>1 DEF Cleared, ChainInv, ChainIntact, AnnouncedCount, BufferOwner
<1>2. CASE Refused
  BY <1>2 DEF Refused, ChainInv, ChainIntact, AnnouncedCount, BufferOwner
<1>3. ASSUME NEW src \in Source, NEW len \in Nat, Started(src, len)
      PROVE  ChainInv'
  <2>1. buf' \in BufferResponse
    BY <1>3 DEF Started, NewBuffer, BufferResponse
  <2>2. buf' # None
    BY <2>1, NoneAssumption
  <2>3. ChainIntact'
    BY <1>3 DEF Started, NewBuffer, ChainIntact
  <2>4. AnnouncedCount'
    BY <1>3, <2>2 DEF Started, NewBuffer, AnnouncedCount
  <2>5. BufferOwner'
    BY <1>3 DEF Started, NewBuffer, BufferOwner
  <2>6. QED BY <2>3, <2>4, <2>5 DEF ChainInv
<1>4. ASSUME NEW cla \in Clas, NEW Le \in Les, GetResponse(cla, Le)
      PROVE  ChainInv'
  <2> DEFINE n == BytesToCopy(Le)
             k == NextByteCount(Le)
  <2>1. buf \in BufferResponse /\ buf # None /\ Le \in Nat
    BY <1>4, LengthAssumption DEF GetResponse, TypeOK
  <2>2. buf.len \in Nat /\ buf.off \in Nat /\ buf.total \in Nat
    BY <2>1 DEF BufferResponse
  <2>3. buf.off = got /\ buf.off + buf.len = buf.total
    BY <2>1 DEF ChainInv, ChainIntact
  <2>4. n \in Nat /\ n <= buf.len /\ k \in Nat
        /\ k = (IF 256 < buf.len - n THEN 256 ELSE buf.len - n)
    BY <2>1, <2>2 DEF BytesToCopy, NextByteCount, Smaller
  <2>5. resp'.sw2 = k % 256 /\ resp'.len = n /\ got' = got + n
        /\ (resp'.sw = "RESPONSE_BYTES" => k # 0)
        /\ last' = last
    BY <1>4 DEF GetResponse
  <2>6. buf' = IF k = 0 THEN None
               ELSE [buf EXCEPT !.off = @ + n, !.len = @ - n]
    BY <1>4 DEF GetResponse
  <2> HIDE DEF n, k
  <2>7. CASE k = 0
    BY <2>5, <2>6, <2>7
       DEF ChainInv, ChainIntact, AnnouncedCount, BufferOwner
  <2>8. CASE k # 0
    <3>1. buf' = [buf EXCEPT !.off = @ + n, !.len = @ - n]
      BY <2>6, <2>8
    <3>2. /\ buf'.off = buf.off + n /\ buf'.len = buf.len - n
          /\ buf'.total = buf.total /\ buf'.src = buf.src
      BY <2>1, <3>1 DEF BufferResponse
    <3>3. buf' \in BufferResponse
      <4>1. buf.off + n \in Nat /\ buf.len - n \in Nat
        BY <2>2, <2>4
      <4>2. QED BY <2>1, <3>1, <4>1 DEF BufferResponse
    <3>4. buf' # None
      BY <3>3, NoneAssumption
    <3>5. ChainIntact'
      BY <2>2, <2>3, <2>4, <2>5, <2>8, <3>2 DEF ChainIntact
    <3>6. k % 256 = (IF buf'.len >= 256 THEN 0 ELSE buf'.len)
      BY <2>2, <2>4, <2>8, <3>2, SMT
    <3>7. AnnouncedCount'
      BY <2>5, <3>4, <3>6 DEF AnnouncedCount
    <3>8. BufferOwner'
      BY <2>1, <2>5, <3>2 DEF ChainInv, BufferOwner
    <3>9. QED BY <3>5, <3>7, <3>8 DEF ChainInv
  <2>9. QED BY <2>7, <2>8
<1>5. CASE UNCHANGED <<buf, resp, got, last>>
  BY <1>5 DEF ChainInv, ChainIntact, AnnouncedCount, BufferOwner
<1>6. QED BY <1>1, <1>2, <1>3, <1>4, <1>5 DEF ChainStep

(* A card without a buffered response satisfies the chain's invariant.     *)
LEMMA ChainInitially == Init => ChainInv
BY DEF Init, ChainInv, ChainIntact, AnnouncedCount, BufferOwner, StatusOnly

(* The chain's invariant holds in every reachable state.                   *)
THEOREM ChainInvariant == Spec => []ChainInv
<1>1. TypeOK /\ ChainInv /\ [Next]_vars => ChainInv'
  BY NextIsChainStep, ChainPreserved
<1>2. QED BY <1>1, ChainInitially, TypeCorrect, PTL DEF Spec

(* A response that does not fit the expected length is kept whole until    *)
(* GET RESPONSE has handed out its last byte.                              *)
THEOREM ChainStaysIntact == Spec => []ChainIntact
BY ChainInvariant, PTL DEF ChainInv

(* The count announced with 61 xx is what the buffer still holds.          *)
THEOREM AnnouncedCountRight == Spec => []AnnouncedCount
BY ChainInvariant, PTL DEF ChainInv

(* GET RESPONSE never returns the response of an earlier command.          *)
THEOREM BufferOwnerRight == Spec => []BufferOwner
BY ChainInvariant, PTL DEF ChainInv

-----------------------------------------------------------------------------
(* Signature input *)

(* Every step but those of five actions leaves the selection and the       *)
(* signature input alone.                                                  *)
SignStep ==
    \/ UNCHANGED <<current, sign, sent>>
    \/ \E cla \in Clas, a \in Applet \cup {None}, Le \in Les :
          SelectApplet(cla, a, Le)
    \/ \E cla \in Clas, body \in Body : SignMore(cla, body)
    \/ \E cla \in Clas : SignBadP1(cla)
    \/ \E cla \in Clas, body \in Body, Le \in Les :
          \E o \in RsaOutcomes(x509[CurrentOf(cla)],
                     BlockLen * Len(sign[CurrentOf(cla)] \o body)) :
             SignFinal(cla, body, Le, o)
    \/ Reset

(* Every step of the card treats the signature input as SignStep says.     *)
LEMMA NextIsSignStep == ASSUME [Next]_vars PROVE SignStep
<1>1. ASSUME NEW cla \in Clas, VmCommand(cla) PROVE SignStep
  BY <1>1 DEF VmCommand, SignStep, VmRefuse, VmUnsupported, SelectBadP1,
     VerifyBadParameters, VerifyQuery, VerifyCount, VerifyLogin,
     GetResponseEmpty, GetResponse, StatusReply, others
<1>2. ASSUME NEW cla \in Clas, CacCommand(cla) PROVE SignStep
  <2>1. CASE \E c \in PropCommands :
               PropertiesRefused(cla, c[1], c[2], c[3], c[4])
    BY <2>1 DEF PropertiesRefused, StatusReply, others, SignStep
  <2>2. CASE \E len \in PropLens, Le \in Les : GetProperties(cla, len, Le)
    BY <2>2 DEF GetProperties, PropertiesReply, DataReply, others, SignStep
  <2>3. CASE \E Lc \in {0, 2}, found \in BOOLEAN : SelectObject(cla, Lc, found)
    BY <2>3 DEF SelectObject, StatusReply, others, SignStep
  <2>4. CASE (\E ins \in Instruction : CacUnsupported(cla, ins))
             \/ UpdateBuffer(cla) \/ SignBadP2(cla)
    BY <2>4 DEF CacUnsupported, UpdateBuffer, SignBadP2, StatusReply, others,
                SignStep
  <2>5. CASE \E Lc \in {0, 2}, f \in {"TAG", "VALUE", "OTHER"} :
               ReadRefused(cla, Lc, f)
    BY <2>5 DEF ReadRefused, SignStep
  <2>6. CASE \E f \in {"TAG", "VALUE"}, r \in ReadRanges, Le \in Les :
               ReadBuffer(cla, f, r[1], r[2], Le)
    BY <2>6 DEF ReadBuffer, SignStep
  <2>7. CASE \E c \in AcrCommands : AcrRefused(cla, c[1], c[2], c[3], c[4])
    BY <2>7 DEF AcrRefused, StatusReply, others, SignStep
  <2>8. CASE \E len \in AcrLens, Le \in Les : GetAcr(cla, len, Le)
    BY <2>8 DEF GetAcr, DataReply, others, SignStep
  <2>9. CASE (\E body \in Body : SignMore(cla, body)) \/ SignBadP1(cla)
    BY <2>9 DEF SignStep
  <2>10. CASE \E body \in Body, Le \in Les :
               CurrentOf(cla) \in Pki /\
               \E o \in RsaOutcomes(x509[CurrentOf(cla)],
                          BlockLen * Len(sign[CurrentOf(cla)] \o body)) :
                  SignFinal(cla, body, Le, o)
    BY <2>10 DEF SignStep
  <2>11. QED BY <1>2, <2>1, <2>2, <2>3, <2>4, <2>5, <2>6, <2>7, <2>8, <2>9,
                <2>10 DEF CacCommand
<1>3. ASSUME NEW cla \in Clas, GetDataCommand(cla) PROVE SignStep
  BY <1>3 DEF GetDataCommand, GpGetData, MsftUnknownTag, MsftGetData,
     StatusReply, DataReply, others, SignStep
<1>4. CASE Reset
  BY <1>4 DEF SignStep
<1>5. ASSUME NEW a \in Pt, NEW c \in Objects, ObjectChange(a, c)
      PROVE  SignStep
  BY <1>5 DEF ObjectChange, SignStep
<1>6. CASE UNCHANGED vars
  BY <1>6 DEF vars, SignStep
<1>7. QED BY <1>1, <1>2, <1>3, <1>4, <1>5, <1>6 DEF Next

(* While a PKI applet is selected, the input it holds is what was sent to  *)
(* it since its selection, however commands on several channels, resets    *)
(* and failed operations are interleaved.                                  *)
THEOREM SignInputStaysFresh == Spec => []SignInputFresh
<1>1. Init => SignInputFresh
  BY DEF Init, SignInputFresh
<1>2. TypeOK /\ SignInputFresh /\ [Next]_vars => SignInputFresh'
  <2> SUFFICES ASSUME TypeOK, SignInputFresh, [Next]_vars
               PROVE  SignInputFresh'
    OBVIOUS
  <2>1. CASE UNCHANGED <<current, sign, sent>>
    BY <2>1 DEF SignInputFresh
  <2>2. ASSUME NEW cla \in Clas, NEW a \in Applet \cup {None}, NEW Le \in Les,
               SelectApplet(cla, a, Le)
        PROVE  SignInputFresh'
    <3>1. ChannelOf(cla) \in Channel
      BY ChannelType
    <3>2. \A ch \in Channel : current'[ch] =
            IF ch = ChannelOf(cla) THEN a ELSE current[ch]
      BY <2>2, <3>1 DEF SelectApplet, TypeOK
    <3>3. \A p \in Pki : /\ sign'[p] = IF p = a THEN <<>> ELSE sign[p]
                         /\ sent'[p] = IF p = a THEN <<>> ELSE sent[p]
      BY <2>2 DEF SelectApplet, ResetSign, TypeOK
    <3>4. QED BY <3>2, <3>3 DEF SignInputFresh
  <2>3. ASSUME NEW cla \in Clas, NEW body \in Body, SignMore(cla, body)
        PROVE  SignInputFresh'
    <3> DEFINE p == CurrentOf(cla)
    <3>1. p \in Pki /\ sign[p] = sent[p]
      BY <2>3, ChannelType DEF SignMore, SignInputFresh, CurrentOf
    <3>2. /\ sign' = [sign EXCEPT ![p] = sign[p] \o body]
          /\ sent' = [sent EXCEPT ![p] = sent[p] \o body]
          /\ current' = current
      BY <2>3 DEF SignMore
    <3> HIDE DEF p
    <3>3. QED BY <3>1, <3>2 DEF SignInputFresh, TypeOK
  <2>4. ASSUME NEW cla \in Clas, SignBadP1(cla) PROVE SignInputFresh'
    BY <2>4 DEF SignBadP1, SignInputFresh, TypeOK
  <2>5. ASSUME NEW cla \in Clas, NEW body \in Body, NEW Le \in Les, NEW o,
               SignFinal(cla, body, Le, o)
        PROVE  SignInputFresh'
    BY <2>5 DEF SignFinal, SignInputFresh, TypeOK
  <2>6. CASE Reset
    <3>1. None \notin Pki
      BY CardAssumption DEF Applet, Cac
    <3>2. QED BY <2>6, <3>1 DEF Reset, SignInputFresh
  <2>7. QED BY <2>1, <2>2, <2>3, <2>4, <2>5, <2>6, NextIsSignStep DEF SignStep
<1>3. QED BY <1>1, <1>2, TypeCorrect, PTL DEF Spec
-----------------------------------------------------------------------------
(* Answers *)

(* What a step can answer: a status alone, 6C with the actual length, data *)
(* of a command (a signature only with a visible key), or the next part of *)
(* a response; a change of a token object is no answer.                    *)
StatusAnswer ==
    resp'.src = NoSrc /\ resp'.sw \notin {"RESPONSE_BYTES", "LE_ERROR"}
LengthAnswer ==
    \E len \in PropLens :
        resp' = [StatusOnly("GET_PROPERTIES", "LE_ERROR")
                   EXCEPT !.sw2 = len % 256, !.total = len]
DataAnswered ==
    \E ins \in Instruction \ {"GET_RESPONSE"}, a \in Applet \cup {None} :
    \E d \in Seq(Block \cup Content), len \in Nat, Le \in Nat :
        /\ resp' = DataAnswer(Src(ins, a, d), len, Le)
        /\ ins = "SIGN_DECRYPT" => KeyVisible
AnswerStep ==
    \/ StatusAnswer
    \/ LengthAnswer
    \/ DataAnswered
    \/ \E cla \in Clas, Le \in Les : GetResponse(cla, Le)
    \/ UNCHANGED resp /\ (object' = object => UNCHANGED vars)

(* A command answered with a status other than 61 and 6C.                  *)
LEMMA StatusIsAnswer ==
    ASSUME NEW ins, NEW s, s \notin {"RESPONSE_BYTES", "LE_ERROR"},
           AnswerStatus(ins, s)
    PROVE  AnswerStep
BY DEF AnswerStatus, StatusOnly, AnswerStep, StatusAnswer

(* A command answered with data.                                           *)
LEMMA DataIsAnswer ==
    ASSUME NEW ins \in Instruction \ {"GET_RESPONSE"},
           NEW a \in Applet \cup {None}, NEW d \in Seq(Block \cup Content),
           NEW len \in Nat, NEW Le \in Nat,
           AnswerData(Src(ins, a, d), len, Le),
           ins = "SIGN_DECRYPT" => KeyVisible
    PROVE  AnswerStep
BY DEF AnswerData, AnswerStep, DataAnswered

(* Every step of the card answers in one of the ways of AnswerStep.        *)
LEMMA NextIsAnswerStep ==
    ASSUME TypeOK, [Next]_vars
    PROVE  AnswerStep
<1> DEFINE Other == Instruction \ {"GET_RESPONSE", "SIGN_DECRYPT"}
<1>1. ASSUME NEW cla \in Clas, NEW ins, NEW s,
             s \notin {"RESPONSE_BYTES", "LE_ERROR"}, StatusReply(cla, ins, s)
      PROVE  AnswerStep
  BY <1>1, StatusIsAnswer DEF StatusReply
<1>2. ASSUME NEW cla \in Clas, NEW ins \in Other, NEW len \in Nat,
             NEW Le \in Nat, DataReply(cla, ins, len, Le)
      PROVE  AnswerStep
  BY <1>2, CurrentType, EmptySeq, DataIsAnswer DEF DataReply
<1>3. \A Le \in Les : Le \in Nat
  BY LengthAssumption
<1>4. ASSUME NEW cla \in Clas, VmCommand(cla) PROVE AnswerStep
  <2>1. ASSUME NEW ins \in Instruction, NEW p1 \in {0, 4},
               VmRefuse(cla, ins, p1)
        PROVE  AnswerStep
    BY <2>1, <1>1 DEF VmRefuse
  <2>2. ASSUME NEW ins \in Instruction, VmUnsupported(cla, ins)
        PROVE  AnswerStep
    BY <2>2, <1>1 DEF VmUnsupported
  <2>3. ASSUME NEW p1 \in {0, 2}, SelectBadP1(cla, p1) PROVE AnswerStep
    BY <2>3, <1>1 DEF SelectBadP1
  <2>4. ASSUME NEW a \in Applet \cup {None}, NEW Le \in Les,
               SelectApplet(cla, a, Le)
        PROVE  AnswerStep
    <3>1. SelectLen(a) \in Nat /\ Le \in Nat
      BY <1>3 DEF SelectLen
    <3>2. "SELECT_FILE" \in Other
      BY DEF Instruction
    <3>3. CASE a = None
      BY <2>4, <3>3, StatusIsAnswer DEF SelectApplet
    <3>4. CASE a # None
      BY <2>4, <3>1, <3>2, <3>4, EmptySeq, DataIsAnswer DEF SelectApplet
    <3>5. QED BY <3>3, <3>4
  <2>5. CASE VerifyBadParameters(cla)
    BY <2>5, <1>1 DEF VerifyBadParameters
  <2>6. CASE VerifyQuery(cla)
    BY <2>6, <1>1 DEF VerifyQuery
  <2>7. CASE VerifyCount(cla)
    BY <2>7 DEF VerifyCount, StatusOnly, AnswerStep, StatusAnswer
  <2>8. ASSUME NEW right \in BOOLEAN, VerifyLogin(cla, right)
        PROVE  AnswerStep
    BY <2>8, StatusIsAnswer DEF VerifyLogin
  <2>9. CASE GetResponseEmpty(cla)
    BY <2>9, <1>1 DEF GetResponseEmpty
  <2>10. ASSUME NEW Le \in Les, GetResponse(cla, Le) PROVE AnswerStep
    BY <2>10 DEF AnswerStep
  <2>11. QED BY <1>4, <2>1, <2>2, <2>3, <2>4, <2>5, <2>6, <2>7, <2>8, <2>9,
                <2>10 DEF VmCommand
<1>5. ASSUME NEW cla \in Clas, CacCommand(cla) PROVE AnswerStep
  <2> DEFINE cur == CurrentOf(cla)
  <2>0. cur \in Applet \cup {None}
    BY CurrentType
  <2>1. ASSUME NEW c \in PropCommands,
               PropertiesRefused(cla, c[1], c[2], c[3], c[4])
        PROVE  AnswerStep
    BY <2>1, <1>1 DEF PropertiesRefused, PropertiesError
  <2>2. ASSUME NEW len \in PropLens, NEW Le \in Les,
               GetProperties(cla, len, Le)
        PROVE  AnswerStep
    <3>1. len \in Nat /\ Le \in Nat /\ "GET_PROPERTIES" \in Other
      BY <1>3, LengthAssumption DEF Instruction
    <3>2. CASE WrongLe(len, Le)
      BY <2>2, <3>2 DEF GetProperties, PropertiesReply, AnswerStep, LengthAnswer
    <3>3. CASE ~WrongLe(len, Le)
      BY <2>2, <3>1, <3>3, <1>2 DEF GetProperties, PropertiesReply
    <3>4. QED BY <3>2, <3>3
  <2>3. ASSUME NEW Lc \in {0, 2}, NEW found \in BOOLEAN,
               SelectObject(cla, Lc, found)
        PROVE  AnswerStep
    BY <2>3, <1>1 DEF SelectObject
  <2>4. ASSUME NEW ins \in Instruction, CacUnsupported(cla, ins)
        PROVE  AnswerStep
    BY <2>4, <1>1 DEF CacUnsupported
  <2>5. CASE UpdateBuffer(cla)
    BY <2>5, <1>1 DEF UpdateBuffer
  <2>6. ASSUME NEW Lc \in {0, 2}, NEW f \in {"TAG", "VALUE", "OTHER"},
               ReadRefused(cla, Lc, f)
        PROVE  AnswerStep
    BY <2>6, StatusIsAnswer DEF ReadRefused
  <2>7. ASSUME NEW f \in {"TAG", "VALUE"}, NEW r \in ReadRanges,
               NEW Le \in Les, ReadBuffer(cla, f, r[1], r[2], Le)
        PROVE  AnswerStep
    <3> DEFINE c == FilesOf(cur)
               n == ReadSize(f, c, r[1], r[2])
    <3>1. c \in Content
      BY <2>7, FilesType DEF ReadBuffer
    <3>2. Le \in Nat /\ n \in Int
      BY <3>1, LengthAssumption DEF FileLen, ReadSize, Smaller
    <3>3. <<c>> \in Seq(Block \cup Content)
      BY <3>1
    <3>4. CASE n < 0
      BY <2>7, <3>4, StatusIsAnswer DEF ReadBuffer
    <3>5. CASE ~(n < 0)
      <4>1. AnswerData(Src("READ_BUFFER", cur, <<c>>), n, Le)
        BY <2>7, <3>5 DEF ReadBuffer
      <4>2. n \in Nat
        BY <3>2, <3>5
      <4>3. "READ_BUFFER" \in Instruction \ {"GET_RESPONSE"}
        BY DEF Instruction
      <4> HIDE DEF n, c
      <4>4. QED BY <4>1, <4>2, <4>3, <2>0, <3>2, <3>3, DataIsAnswer
    <3>6. QED BY <3>4, <3>5
  <2>8. ASSUME NEW c \in AcrCommands,
               AcrRefused(cla, c[1], c[2], c[3], c[4])
        PROVE  AnswerStep
    BY <2>8, <1>1 DEF AcrRefused, AcrError
  <2>9. ASSUME NEW len \in AcrLens, NEW Le \in Les, GetAcr(cla, len, Le)
        PROVE  AnswerStep
    <3>1. len \in Nat /\ Le \in Nat /\ "GET_ACR" \in Other
      BY <1>3, LengthAssumption DEF Instruction
    <3>2. QED BY <2>9, <3>1, <1>2 DEF GetAcr
  <2>10. CASE SignBadP2(cla)
    BY <2>10, <1>1 DEF SignBadP2
  <2>11. ASSUME NEW body \in Body, SignMore(cla, body) PROVE AnswerStep
    BY <2>11, StatusIsAnswer DEF SignMore
  <2>12. CASE SignBadP1(cla)
    BY <2>12, StatusIsAnswer DEF SignBadP1
  <2>13. ASSUME NEW body \in Body, NEW Le \in Les, NEW o, cur \in Pki,
                o \in RsaOutcomes(x509[cur], BlockLen * Len(sign[cur] \o body)),
                SignFinal(cla, body, Le, o)
         PROVE  AnswerStep
    <3> DEFINE input == sign[cur] \o body
    <3>1. input \in Seq(Block \cup Content)
      <4>1. sign[cur] \in Seq(Block) /\ body \in Seq(Block)
        BY <2>13, BodyType DEF TypeOK
      <4>2. input \in Seq(Block)
        BY <4>1
      <4>3. QED BY <4>2, InputIsData
    <3>2. KeyLen \in Nat /\ Le \in Nat
      BY LengthAssumption
    <3>3. CASE o.status = "SUCCESS"
      <4>1. KeyVisible
        BY <2>13, <3>3 DEF RsaOutcomes, Outcome
      <4>2. AnswerData(Src("SIGN_DECRYPT", cur, input), KeyLen, Le)
        BY <2>13, <3>3 DEF SignFinal
      <4>3. "SIGN_DECRYPT" \in Instruction \ {"GET_RESPONSE"}
        BY DEF Instruction
      <4> HIDE DEF input
      <4>4. QED BY <4>1, <4>2, <4>3, <2>0, <3>1, <3>2, DataIsAnswer
    <3>4. CASE o.status # "SUCCESS"
      <4>1. o.status \notin {"RESPONSE_BYTES", "LE_ERROR"}
        BY <2>13 DEF RsaOutcomes, RawFailureOutcomes, PkcsOutcomes, Outcome,
                     MapError
      <4>2. QED BY <2>13, <3>4, <4>1, StatusIsAnswer DEF SignFinal
    <3>5. QED BY <3>3, <3>4
  <2>14. QED BY <1>5, <2>1, <2>2, <2>3, <2>4, <2>5, <2>6, <2>7, <2>8, <2>9,
                <2>10, <2>11, <2>12, <2>13 DEF CacCommand
<1>6. ASSUME NEW cla \in Clas, GetDataCommand(cla) PROVE AnswerStep
  <2>0. "GET_DATA" \in Other
    BY DEF Instruction
  <2>1. ASSUME NEW tag \in {"9F7F", "0066", "OTHER"}, NEW Le \in Les,
               GpGetData(cla, tag, Le)
        PROVE  AnswerStep
    <3>1. \/ DataReply(cla, "GET_DATA", 45, Le)
          \/ DataReply(cla, "GET_DATA", 51, Le)
          \/ StatusReply(cla, "GET_DATA", "DATA_NOT_FOUND")
      BY <2>1 DEF GpGetData
    <3>2. QED BY <1>1, <1>2, <1>3, <2>0, <3>1
  <2>2. CASE MsftUnknownTag(cla)
    BY <2>2, <1>1 DEF MsftUnknownTag
  <2>3. ASSUME NEW Le \in Les, MsftGetData(cla, Le) PROVE AnswerStep
    BY <2>3, <2>0, <1>3, CurrentType, EmptySeq, DataIsAnswer DEF MsftGetData
  <2>4. QED BY <1>6, <2>1, <2>2, <2>3 DEF GetDataCommand
<1>7. CASE Reset
  BY <1>7 DEF Reset, StatusOnly, AnswerStep, StatusAnswer
<1>8. ASSUME NEW a \in Pt, NEW c \in Objects, ObjectChange(a, c)
      PROVE  AnswerStep
  <2>1. object' # object
    BY <1>8 DEF ObjectChange, TypeOK
  <2>2. QED BY <1>8, <2>1 DEF ObjectChange, AnswerStep
<1>9. CASE UNCHANGED vars
  BY <1>9 DEF vars, AnswerStep
<1>10. QED BY <1>4, <1>5, <1>6, <1>7, <1>8, <1>9 DEF Next

(* A client answered 6C xx for its GET PROPERTIES that repeats it with xx  *)
(* is not answered 6C again, whatever the length is modulo 256.            *)
THEOREM WrongLeAlwaysConverges == Spec => []WrongLeConverges
<1>1. Init => WrongLeConverges
  BY DEF Init, StatusOnly, WrongLeConverges
<1>2. TypeOK /\ WrongLeConverges /\ [Next]_vars => WrongLeConverges'
  <2> SUFFICES ASSUME TypeOK, WrongLeConverges, [Next]_vars
               PROVE  WrongLeConverges'
    OBVIOUS
  <2>1. CASE StatusAnswer
    BY <2>1 DEF StatusAnswer, WrongLeConverges
  <2>2. ASSUME NEW len \in PropLens,
               resp' = [StatusOnly("GET_PROPERTIES", "LE_ERROR")
                          EXCEPT !.sw2 = len % 256, !.total = len]
        PROVE  WrongLeConverges'
    <3>1. resp'.total = len /\ resp'.sw2 = len % 256
      BY <2>2 DEF StatusOnly
    <3>2. len \in Nat /\ len > 0
      BY LengthAssumption
    <3>3. LeShort(len % 256) <= len
      BY <3>2, SMT DEF LeShort
    <3>4. QED BY <3>1, <3>2, <3>3 DEF WrongLeConverges, WrongLe, LeShort
  <2>3. CASE DataAnswered
    BY <2>3 DEF DataAnswered, DataAnswer, StatusOnly, WrongLeConverges
  <2>4. ASSUME NEW cla \in Clas, NEW Le \in Les, GetResponse(cla, Le)
        PROVE  WrongLeConverges'
    BY <2>4 DEF GetResponse, WrongLeConverges
  <2>5. CASE UNCHANGED resp
    BY <2>5 DEF WrongLeConverges
  <2>6. QED BY <2>1, <2>2, <2>3, <2>4, <2>5, NextIsAnswerStep
            DEF AnswerStep, LengthAnswer
<1>3. QED BY <1>1, <1>2, TypeCorrect, PTL DEF Spec

(* GET RESPONSE hands out the parts of a response in order, and ends with  *)
(* its last byte, for every response length and every way of fetching it.  *)
THEOREM ChainAlwaysDelivered == Spec => ChainDelivered
<1> DEFINE Delivered ==
      object' = object /\ resp'.ins = "GET_RESPONSE" /\ resp'.src # NoSrc =>
        /\ resp'.off = got
        /\ resp'.sw = "SUCCESS" => got' = resp'.total
<1>1. ASSUME TypeOK, ChainIntact, AnswerStep, ~UNCHANGED vars
      PROVE  Delivered
  <2>1. CASE StatusAnswer
    BY <2>1 DEF StatusAnswer
  <2>2. CASE LengthAnswer
    BY <2>2 DEF LengthAnswer, StatusOnly
  <2>3. CASE DataAnswered
    BY <2>3 DEF DataAnswered, DataAnswer, StatusOnly, Src
  <2>4. ASSUME NEW cla \in Clas, NEW Le \in Les, GetResponse(cla, Le)
        PROVE  Delivered
    <3> DEFINE n == BytesToCopy(Le)
               k == NextByteCount(Le)
    <3>1. buf \in BufferResponse /\ buf # None /\ Le \in Nat
      BY <1>1, <2>4, LengthAssumption DEF GetResponse, TypeOK
    <3>2. /\ buf.len \in Nat /\ buf.off \in Nat /\ buf.total \in Nat
          /\ buf.off = got /\ buf.off + buf.len = buf.total
      BY <1>1, <3>1 DEF BufferResponse, ChainIntact
    <3>3. n \in Nat /\ n <= buf.len /\ (k = 0 => n = buf.len)
      BY <3>1, <3>2 DEF BytesToCopy, NextByteCount, Smaller
    <3>4. /\ resp'.off = buf.off /\ resp'.total = buf.total
          /\ got' = got + n /\ (resp'.sw = "SUCCESS" => k = 0)
      BY <2>4 DEF GetResponse
    <3> HIDE DEF n, k
    <3>5. QED BY <3>2, <3>3, <3>4
  <2>5. CASE UNCHANGED resp /\ (object' = object => UNCHANGED vars)
    BY <1>1, <2>5
  <2>6. QED BY <1>1, <2>1, <2>2, <2>3, <2>4, <2>5 DEF AnswerStep
<1>2. TypeOK /\ ChainIntact /\ [Next]_vars => [Delivered]_vars
  BY <1>1, NextIsAnswerStep
<1>3. QED BY <1>2, TypeCorrect, ChainStaysIntact, PTL DEF Spec, ChainDelivered

-----------------------------------------------------------------------------
(* Login *)

(* Every step but VERIFY with data and a reset leaves the login alone.     *)
LEMMA NextIsLoginStep ==
    ASSUME [Next]_vars
    PROVE  \/ UNCHANGED <<logged, verified>>
           \/ \E cla \in Clas, right \in BOOLEAN : VerifyLogin(cla, right)
           \/ Reset
<1> DEFINE Kept == UNCHANGED <<logged, verified>>
<1>1. ASSUME NEW cla \in Clas, VmCommand(cla)
      PROVE  Kept \/ \E right \in BOOLEAN : VerifyLogin(cla, right)
  BY <1>1 DEF VmCommand, VmRefuse, VmUnsupported, SelectBadP1, SelectApplet,
     VerifyBadParameters, VerifyQuery, VerifyCount, GetResponseEmpty,
     GetResponse, StatusReply, others
<1>2. ASSUME NEW cla \in Clas, CacCommand(cla) PROVE Kept
  BY <1>2 DEF CacCommand, PropertiesRefused, GetProperties, PropertiesReply,
     SelectObject, CacUnsupported, UpdateBuffer, ReadRefused, ReadBuffer,
     AcrRefused, GetAcr, SignBadP2, SignMore, SignBadP1, SignFinal,
     StatusReply, DataReply, others
<1>3. ASSUME NEW cla \in Clas, GetDataCommand(cla) PROVE Kept
  BY <1>3 DEF GetDataCommand, GpGetData, MsftUnknownTag, MsftGetData,
     StatusReply, DataReply, others
<1>4. ASSUME NEW a \in Pt, NEW c \in Objects, ObjectChange(a, c) PROVE Kept
  BY <1>4 DEF ObjectChange
<1>5. CASE UNCHANGED vars
  BY <1>5 DEF vars
<1>6. QED BY <1>1, <1>2, <1>3, <1>4, <1>5 DEF Next

(* A token that is logged in was shown the right PIN by the last VERIFY    *)
(* since the last reset.                                                   *)
LoginVerified == logged => verified

(* The last response is a signature only with that login.                  *)
SignedResponse ==
    /\ resp.ins = "SIGN_DECRYPT"
    /\ resp.src # NoSrc \/ resp.sw = "RESPONSE_BYTES"
SignedVerified == SignedResponse => ~NeedLogin \/ verified

(* Every signature is made after the right PIN was given, and no failed    *)
(* VERIFY or reset has come between (vcard_emul_login, vcard_emul_rsa_op). *)
THEOREM SignAlwaysAuthorised == Spec => SignAuthorised
<1>1. Init => LoginVerified /\ SignedVerified
  BY DEF Init, LoginVerified, SignedVerified, SignedResponse, StatusOnly
<1>2. TypeOK /\ LoginVerified /\ SignedVerified /\ [Next]_vars
        => LoginVerified' /\ SignedVerified'
  <2> SUFFICES ASSUME TypeOK, LoginVerified, SignedVerified, [Next]_vars
               PROVE  LoginVerified' /\ SignedVerified'
    OBVIOUS
  <2>1. ASSUME NEW cla \in Clas, NEW right \in BOOLEAN, VerifyLogin(cla, right)
        PROVE  LoginVerified' /\ SignedVerified'
    <3>1. logged' => verified'
      BY <2>1, Zenon DEF VerifyLogin, Authenticates, Logout
    <3>2. resp'.ins = "VERIFY"
      BY <2>1 DEF VerifyLogin, AnswerStatus, StatusOnly
    <3>3. QED BY <3>1, <3>2 DEF LoginVerified, SignedVerified, SignedResponse
  <2>2. CASE Reset
    BY <2>2 DEF Reset, LoginVerified, SignedVerified, SignedResponse, StatusOnly
  <2>3. CASE UNCHANGED <<logged, verified>>
    <3>1. LoginVerified'
      BY <2>3 DEF LoginVerified
    <3>2. CASE StatusAnswer
      BY <3>1, <3>2 DEF StatusAnswer, SignedVerified, SignedResponse
    <3>3. CASE LengthAnswer
      BY <3>1, <3>3 DEF LengthAnswer, StatusOnly, SignedVerified, SignedResponse
    <3>4. CASE DataAnswered
      <4>1. resp'.ins = "SIGN_DECRYPT" => KeyVisible
        BY <3>4 DEF DataAnswered, DataAnswer, StatusOnly, Src
      <4>2. KeyVisible => ~NeedLogin \/ verified'
        BY <2>3 DEF KeyVisible, LoginVerified
      <4>3. QED BY <3>1, <4>1, <4>2 DEF SignedVerified, SignedResponse
    <3>5. ASSUME NEW cla \in Clas, NEW Le \in Les, GetResponse(cla, Le)
          PROVE  SignedVerified'
      BY <3>5 DEF GetResponse, SignedVerified, SignedResponse
    <3>6. CASE UNCHANGED resp
      BY <3>1, <2>3, <3>6 DEF SignedVerified, SignedResponse
    <3>7. QED BY <3>1, <3>2, <3>3, <3>4, <3>5, <3>6, NextIsAnswerStep
              DEF AnswerStep
  <2>4. QED BY <2>1, <2>2, <2>3, NextIsLoginStep
<1>3. TypeOK /\ LoginVerified /\ SignedVerified /\ [Next]_vars
        => [Signature => ~NeedLogin \/ verified]_vars
  <2> SUFFICES ASSUME TypeOK, LoginVerified, SignedVerified, [Next]_vars,
                      Signature
               PROVE  ~NeedLogin \/ verified
    OBVIOUS
  <2>1. SignedResponse' /\ SignedVerified'
    BY <1>2 DEF Signature, SignedResponse
  <2>2. resp'.ins = "SIGN_DECRYPT"
    BY DEF Signature
  <2>3. UNCHANGED verified
    <3>1. ASSUME NEW cla \in Clas, NEW right \in BOOLEAN,
                 VerifyLogin(cla, right)
          PROVE  FALSE
      BY <2>2, <3>1 DEF VerifyLogin, AnswerStatus, StatusOnly
    <3>2. CASE Reset
      BY <2>2, <3>2 DEF Reset, StatusOnly
    <3>3. QED BY <3>1, <3>2, NextIsLoginStep
  <2>4. QED BY <2>1, <2>3 DEF SignedVerified
<1>4. QED BY <1>1, <1>2, <1>3, TypeCorrect, PTL DEF Spec, SignAuthorised

-----------------------------------------------------------------------------
(* Raw RSA *)

(* Every step but the end of a signature leaves what is known of the keys  *)
(* alone.                                                                  *)
LEMMA NextIsKeyStep ==
    ASSUME [Next]_vars
    PROVE  \/ UNCHANGED x509
           \/ \E cla \in Clas, body \in Body, Le \in Les :
                 \E o \in RsaOutcomes(x509[CurrentOf(cla)],
                            BlockLen * Len(sign[CurrentOf(cla)] \o body)) :
                    SignFinal(cla, body, Le, o)
<1>1. ASSUME NEW cla \in Clas, VmCommand(cla) PROVE UNCHANGED x509
  BY <1>1 DEF VmCommand, VmRefuse, VmUnsupported, SelectBadP1, SelectApplet,
     VerifyBadParameters, VerifyQuery, VerifyCount, VerifyLogin,
     GetResponseEmpty, GetResponse, StatusReply, others
<1>2. ASSUME NEW cla \in Clas, CacCommand(cla)
      PROVE  \/ UNCHANGED x509
             \/ \E body \in Body, Le \in Les :
                   \E o \in RsaOutcomes(x509[CurrentOf(cla)],
                              BlockLen * Len(sign[CurrentOf(cla)] \o body)) :
                      SignFinal(cla, body, Le, o)
  BY <1>2 DEF CacCommand, PropertiesRefused, GetProperties, PropertiesReply,
     SelectObject, CacUnsupported, UpdateBuffer, ReadRefused, ReadBuffer,
     AcrRefused, GetAcr, SignBadP2, SignMore, SignBadP1,
     StatusReply, DataReply, others
<1>3. ASSUME NEW cla \in Clas, GetDataCommand(cla) PROVE UNCHANGED x509
  BY <1>3 DEF GetDataCommand, GpGetData, MsftUnknownTag, MsftGetData,
     StatusReply, DataReply, others
<1>4. ASSUME NEW a \in Pt, NEW c \in Objects, ObjectChange(a, c)
      PROVE  UNCHANGED x509
  BY <1>4 DEF ObjectChange
<1>5. CASE UNCHANGED vars
  BY <1>5 DEF vars
<1>6. CASE Reset
  BY <1>6 DEF Reset
<1>7. QED BY <1>1, <1>2, <1>3, <1>4, <1>5, <1>6 DEF Next

(* A raw operation can have worked only with a token that has it.          *)
RawNeedsToken == \A p \in Pki : x509[p] = "False" => TokenX509

(* What the end of a signature makes of the knowledge of its key.          *)
LEMMA OutcomeKnown ==
    ASSUME NEW x \in {"Unknown", "False", "True"}, NEW size,
           x = "False" => TokenX509,
           NEW o \in RsaOutcomes(x, size)
    PROVE  /\ x # "Unknown" => o.x509 = x
           /\ o.x509 = "False" => TokenX509
<1>1. CASE o = Outcome("CONDITION_NOT_SATISFIED", x)
  BY <1>1 DEF Outcome
<1>2. CASE ~KeyVisible
  BY <1>1, <1>2 DEF RsaOutcomes
<1>3. CASE KeyVisible /\ size # KeyLen
  BY <1>3 DEF RsaOutcomes, Outcome
<1>4. CASE KeyVisible /\ size = KeyLen /\ x # "True" /\ TokenX509
  BY <1>4 DEF RsaOutcomes, RawFailureOutcomes, PkcsOutcomes, Outcome
<1>5. CASE KeyVisible /\ size = KeyLen /\ ~(x # "True" /\ TokenX509)
  BY <1>1, <1>5 DEF RsaOutcomes, PkcsOutcomes, Outcome
<1>6. QED BY <1>2, <1>3, <1>4, <1>5

(* Once a key's raw operation has worked, or was replaced by PKCS #1, that *)
(* stays so (vcard_emul_rsa_op), whatever fails later and across resets.   *)
THEOREM RawModeAlwaysSticks == Spec => RawModeSticks
<1> DEFINE Sticks == \A p \in Pki : x509[p] # "Unknown" => x509'[p] = x509[p]
<1>1. Init => RawNeedsToken
  BY DEF Init, RawNeedsToken
<1>2. TypeOK /\ RawNeedsToken /\ [Next]_vars => RawNeedsToken' /\ Sticks
  <2> SUFFICES ASSUME TypeOK, RawNeedsToken, [Next]_vars
               PROVE  RawNeedsToken' /\ Sticks
    OBVIOUS
  <2>1. CASE UNCHANGED x509
    BY <2>1 DEF RawNeedsToken
  <2>2. ASSUME NEW cla \in Clas, NEW body \in Body, NEW Le \in Les,
               NEW o \in RsaOutcomes(x509[CurrentOf(cla)],
                           BlockLen * Len(sign[CurrentOf(cla)] \o body)),
               SignFinal(cla, body, Le, o)
        PROVE  RawNeedsToken' /\ Sticks
    <3> DEFINE p == CurrentOf(cla)
    <3>1. p \in Pki /\ x509' = [x509 EXCEPT ![p] = o.x509]
      BY <2>2 DEF SignFinal
    <3>2. x509[p] \in {"Unknown", "False", "True"} /\ (x509[p] = "False" => TokenX509)
      BY <3>1 DEF TypeOK, RawNeedsToken
    <3>3. /\ x509[p] # "Unknown" => o.x509 = x509[p]
          /\ o.x509 = "False" => TokenX509
      BY <3>2, OutcomeKnown
    <3> HIDE DEF p
    <3>4. QED BY <3>1, <3>3 DEF TypeOK, RawNeedsToken
  <2>3. QED BY <2>1, <2>2, NextIsKeyStep
<1>3. QED BY <1>1, <1>2, TypeCorrect, PTL DEF Spec, RawModeSticks

-----------------------------------------------------------------------------
(* Files of a passthrough applet *)

(* What is in the applet's files was in its object since the selection,    *)
(* and once contents with both files were read these are the files.        *)
FilesKept ==
    \A a \in Pt :
        /\ object[a] \in valid[a]
        /\ file[a] # None => file[a] \in valid[a]
        /\ seen[a] \subseteq valid[a]
        /\ \A c \in seen[a] : HasFiles(c) => file[a] = c

(* Every step but a selection, a read and a change of an object leaves the *)
(* files alone.                                                            *)
FileStep ==
    \/ UNCHANGED <<object, file, seen, valid>>
    \/ \E cla \in Clas, a \in Applet \cup {None}, Le \in Les :
          SelectApplet(cla, a, Le)
    \/ \E cla \in Clas, Lc \in {0, 2}, f \in {"TAG", "VALUE", "OTHER"} :
          ReadRefused(cla, Lc, f)
    \/ \E cla \in Clas, f \in {"TAG", "VALUE"}, r \in ReadRanges, Le \in Les :
          ReadBuffer(cla, f, r[1], r[2], Le)
    \/ \E a \in Pt, c \in Objects : ObjectChange(a, c)

(* Every step of the card treats the files as FileStep says.               *)
LEMMA NextIsFileStep == ASSUME [Next]_vars PROVE FileStep
<1>1. ASSUME NEW cla \in Clas, VmCommand(cla) PROVE FileStep
  BY <1>1 DEF VmCommand, FileStep, VmRefuse, VmUnsupported, SelectBadP1,
     VerifyBadParameters, VerifyQuery, VerifyCount, VerifyLogin,
     GetResponseEmpty, GetResponse, StatusReply, others
<1>2. ASSUME NEW cla \in Clas, CacCommand(cla) PROVE FileStep
  <2>1. CASE \E Lc \in {0, 2}, f \in {"TAG", "VALUE", "OTHER"} :
               ReadRefused(cla, Lc, f)
    BY <2>1 DEF FileStep
  <2>2. CASE \E f \in {"TAG", "VALUE"}, r \in ReadRanges, Le \in Les :
               ReadBuffer(cla, f, r[1], r[2], Le)
    BY <2>2 DEF FileStep
  <2>3. CASE UNCHANGED <<object, file, seen, valid>>
    BY <2>3 DEF FileStep
  <2>4. QED BY <1>2, <2>1, <2>2, <2>3 DEF CacCommand, PropertiesRefused,
       GetProperties, PropertiesReply, SelectObject, CacUnsupported,
       UpdateBuffer, AcrRefused, GetAcr, SignBadP2, SignMore, SignBadP1,
       SignFinal, StatusReply, DataReply, others
<1>3. ASSUME NEW cla \in Clas, GetDataCommand(cla) PROVE FileStep
  BY <1>3 DEF GetDataCommand, GpGetData, MsftUnknownTag, MsftGetData,
     StatusReply, DataReply, others, FileStep
<1>4. CASE Reset
  BY <1>4 DEF Reset, FileStep
<1>5. ASSUME NEW a \in Pt, NEW c \in Objects, ObjectChange(a, c)
      PROVE  FileStep
  BY <1>5 DEF FileStep
<1>6. CASE UNCHANGED vars
  BY <1>6 DEF vars, FileStep
<1>7. QED BY <1>1, <1>2, <1>3, <1>4, <1>5, <1>6 DEF Next

(* What a read puts into the files is in the object or was there before.   *)
LEMMA FilesOfKept ==
    ASSUME TypeOK, FilesKept, NEW a \in Pt
    PROVE  /\ FilesOf(a) \in valid[a]
           /\ FilesOf(a) # None
           /\ \A c \in seen[a] : HasFiles(c) => FilesOf(a) = c
<1>1. file[a] # None /\ HasFiles(file[a]) => FilesOf(a) = file[a]
  BY DEF FilesOf
<1>2. ~(file[a] # None /\ HasFiles(file[a])) => FilesOf(a) = object[a]
  BY DEF FilesOf
<1>3. object[a] # None
  BY CardAssumption DEF TypeOK
<1>4. \A c \in seen[a] : HasFiles(c) => file[a] = c /\ file[a] # None
  BY DEF FilesKept, HasFiles
<1>5. QED BY <1>1, <1>2, <1>3, <1>4 DEF FilesKept

(* Reads since a selection, on however many channels and whatever happens  *)
(* to the token's object, give contents the object has had since, and one  *)
(* version of them (cac_applet_passthrough_reset, READ BUFFER).            *)
THEOREM ReadAlwaysSnapshot == Spec => []ReadSnapshot
<1>1. Init => FilesKept
  BY DEF Init, FilesKept
<1>2. TypeOK /\ FilesKept /\ [Next]_vars => FilesKept'
  <2> SUFFICES ASSUME TypeOK, FilesKept, [Next]_vars PROVE FilesKept'
    OBVIOUS
  <2>1. CASE UNCHANGED <<object, file, seen, valid>>
    BY <2>1 DEF FilesKept
  <2>2. ASSUME NEW cla \in Clas, NEW a \in Applet \cup {None}, NEW Le \in Les,
               SelectApplet(cla, a, Le)
        PROVE  FilesKept'
    <3>1. object' = object
      BY <2>2 DEF SelectApplet
    <3>2. \A b \in Pt : /\ file'[b] = IF b = a THEN None ELSE file[b]
                        /\ seen'[b] = IF b = a THEN {} ELSE seen[b]
                        /\ valid'[b] = IF b = a THEN {object[b]} ELSE valid[b]
      BY <2>2 DEF SelectApplet, ResetFile, TypeOK
    <3>3. QED BY <3>1, <3>2 DEF FilesKept
  <2>3. ASSUME NEW cla \in Clas, NEW Lc \in {0, 2},
               NEW f \in {"TAG", "VALUE", "OTHER"}, ReadRefused(cla, Lc, f)
        PROVE  FilesKept'
    <3> DEFINE a == CurrentOf(cla)
    <3>1. UNCHANGED <<object, seen, valid>>
          /\ file' = IF a \in Pt THEN [file EXCEPT ![a] = FilesOf(a)] ELSE file
      BY <2>3 DEF ReadRefused, LoadFiles
    <3> HIDE DEF a
    <3>2. QED BY <3>1, FilesOfKept DEF FilesKept, TypeOK
  <2>4. ASSUME NEW cla \in Clas, NEW f \in {"TAG", "VALUE"},
               NEW r \in ReadRanges, NEW Le \in Les,
               ReadBuffer(cla, f, r[1], r[2], Le)
        PROVE  FilesKept'
    <3> DEFINE a == CurrentOf(cla)
    <3>1. /\ UNCHANGED <<object, valid>>
          /\ file' = IF a \in Pt THEN [file EXCEPT ![a] = FilesOf(a)] ELSE file
          /\ \/ seen' = seen
             \/ a \in Pt /\ seen' = [seen EXCEPT ![a] = @ \cup {FilesOf(a)}]
      BY <2>4 DEF ReadBuffer, LoadFiles
    <3> HIDE DEF a
    <3>2. CASE a \in Pt
      <4>1. \A b \in Pt \ {a} : file'[b] = file[b] /\ seen'[b] = seen[b]
        BY <3>1, <3>2 DEF TypeOK
      <4>2. file'[a] = FilesOf(a) /\ seen'[a] \subseteq seen[a] \cup {FilesOf(a)}
        BY <3>1, <3>2 DEF TypeOK
      <4>3. QED BY <3>1, <3>2, <4>1, <4>2, FilesOfKept DEF FilesKept
    <3>3. CASE a \notin Pt
      BY <3>1, <3>3 DEF FilesKept
    <3>4. QED BY <3>2, <3>3
  <2>5. ASSUME NEW a \in Pt, NEW c \in Objects, ObjectChange(a, c)
        PROVE  FilesKept'
    BY <2>5 DEF ObjectChange, FilesKept, TypeOK
  <2>6. QED BY <2>1, <2>2, <2>3, <2>4, <2>5, NextIsFileStep DEF FileStep
<1>3. FilesKept => ReadSnapshot
  BY DEF FilesKept, ReadSnapshot
<1>4. QED BY <1>1, <1>2, <1>3, TypeCorrect, PTL DEF Spec
=============================================================================
