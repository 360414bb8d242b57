--------------------------------- MODULE Aca ---------------------------------
(***************************************************************************)
(* The tables of the access control applet (cac-aca.c) and the bytes GET   *)
(* ACR answers from them, on a card with pki_applets PKI applets.          *)
(* A reply is its status word and its data.                                *)
(***************************************************************************)
EXTENDS SimpleTlv

Byte == 0 .. 255

Success(data) == [sw |-> "SUCCESS", data |-> data]
DataNotFound == [sw |-> "DATA_NOT_FOUND", data |-> <<>>]
WrongData == [sw |-> "WRONG_PARAMETERS_IN_DATA", data |-> <<>>]

(* An entry [acrid, type, applet, methods]; a method is <<provider, key>>. *)
AcrEntry(acrid, type, applet, methods) ==
    [acrid |-> acrid, type |-> type, applet |-> applet, methods |-> methods]
acr_table == <<
    AcrEntry(0, 0, 0, <<>>), AcrEntry(1, 1, 0, <<>>), AcrEntry(2, 0, \h1F, <<>>),
    AcrEntry(6, 6, 0, << <<\h1E, 0>> >>), AcrEntry(4, 4, \h1F, << <<\h1F, \h21>> >>),
    AcrEntry(8, 3, 0, << <<\h1D, 1>>, <<\h1E, 1>> >>), AcrEntry(9, 2, 0, << <<\h1D, 1>> >>),
    AcrEntry(10, 3, 0, << <<\h1D, 3>>, <<\h1E, 1>> >>), AcrEntry(11, 2, 0, << <<\h1D, 0>> >>),
    AcrEntry(16, 0, \h1E, <<>>), AcrEntry(17, 0, \h1D, <<>>) >>

(* cac_aca_get_acr: the value of an entry is the first 2n+3 bytes of the   *)
(* C structure, which holds a padding byte and the four bytes of n where   *)
(* the number of methods and the methods are documented.                   *)
EntryBytes(e) ==
    LET n == Len(e.methods)
    IN  SubSeq(<<e.acrid, e.type, e.applet, 0, n, 0, 0, 0>>, 1, 2 * n + 3)
cac_aca_get_acr(acrids, whole) ==
    LET found == SelectSeq(acr_table, LAMBDA e : e.acrid \in acrids)
    IN  (IF whole THEN <<Leaf(\hA1, <<Len(acr_table)>>)>> ELSE <<>>)
        \o [i \in DOMAIN found |-> Leaf(\hA0, EntryBytes(found[i]))]

(* The services: applet identifiers and AIDs, the PKI applets first.       *)
Rid == <<\hA0, 0, 0, 0, \h79>>
Service(id, aid) == [id |-> id, aid |-> aid]
service_table ==
    [i \in 1..10 |-> Service(\h60 + i, Rid \o <<1, i - 1>>)]
    \o << Service(\h40, <<\hA0, 0, 0, 1, \h16, \h30, 0>>),
          Service(\h4F, <<\hA0, 0, 0, 1, \h16, \hDB, 0>>),
          Service(\h4B, Rid \o <<2, \hFB>>), Service(\h41, Rid \o <<2, 0>>),
          Service(\h42, Rid \o <<2, 1>>), Service(\h4E, Rid \o <<2, \hFE>>),
          Service(\h4D, Rid \o <<2, \hFD>>), Service(\h50, Rid \o <<2, \hF2>>),
          Service(\h51, Rid \o <<2, \hF0>>), Service(\h52, Rid \o <<2, \hF1>>),
          Service(\h44, Rid \o <<\h12, 1>>), Service(\h45, Rid \o <<\h12, 2>>) >>

(* variant for mutation: the row of one more PKI applet is kept *)
PresentOneMore(table, pki_applets) ==
    [i \in 1..(pki_applets + Len(table) - 9) |->
        IF i <= pki_applets + 1 THEN table[i] ELSE table[i + 9 - pki_applets]]

(* The rows of a table that a card with that many PKI applets has: the     *)
(* first ten rows belong to PKI applets.                                   *)
Present(table, pki_applets) ==
    [i \in 1..(pki_applets + Len(table) - 10) |->
        IF i <= pki_applets THEN table[i] ELSE table[i + 10 - pki_applets]]

(* the first seven bytes of the C structure of an entry with a 7-byte AID  *)
StructBytes(id) == <<id, 0, 0, 0, 7, 0, 0>>

(* cac_aca_get_service_table: memcpy copies from the start of the entry,   *)
(* not from its applet_aid                                                 *)
cac_aca_get_service_table(pki_applets) ==
    LET rows == Present(service_table, pki_applets)
    IN  <<Leaf(\h94, <<12 + pki_applets>>)>>
        \o [i \in DOMAIN rows |->
               Leaf(\h93, <<rows[i].id, \h92, 7>> \o StructBytes(rows[i].id))]

(* The access rules of the objects of the applets: an instruction has its  *)
(* code, the identifier of its rule and the argument its rule looks at.    *)
Ins(code, acrid) == [code |-> code, acrid |-> acrid, config |-> 0, arg |-> <<>>]
InsP1(code, acrid, p1) == [code |-> code, acrid |-> acrid, config |-> 1, arg |-> <<p1>>]
InsData1(code, acrid, d) == [code |-> code, acrid |-> acrid, config |-> 4, arg |-> <<d>>]
UPDATE == \h58
READ == \h52
SIGN == \h42
VERIFY == \h20
AnyObject == <<\hFF, \hFF>>
Authentication == <<InsP1(\h82, \h11, 0), Ins(\h84, \h11), Ins(VERIFY, \h10)>>
Object(id, ins) == [id |-> id, ins |-> ins]
Applet(id, objects) == [id |-> id, objects |-> objects]

Open(id, update) == Object(id, <<Ins(UPDATE, update), Ins(READ, 0)>>)
Guarded(id, update, read) ==
    Object(id, <<Ins(UPDATE, update), InsData1(READ, 0, 1), Ins(READ, read)>>)
WithAuthentication(id, objects) ==
    Applet(id, objects \o <<Object(AnyObject, Authentication)>>)
WithoutObject(id) ==
    Applet(id, <<Object(AnyObject, <<Ins(UPDATE, 4), Ins(READ, 0)>> \o Authentication)>>)

applets_table ==
    [i \in 1..10 |->
        Applet(\h60 + i, <<Object(<<1, i - 1>>, <<Ins(UPDATE, 4), Ins(READ, 0), Ins(SIGN, 6)>>),
                           Object(AnyObject, <<Ins(VERIFY, \h10)>>)>>)]
    \o << Applet(\h1F, <<Object(AnyObject, <<Ins(VERIFY, 0)>>)>>),
          WithAuthentication(\hF4, <<Open(<<\hDB, 0>>, 4)>>),
          WithAuthentication(\h4B, <<Open(<<2, \hFB>>, 6)>>),
          WithAuthentication(\h41, <<Guarded(<<2, 0>>, 9, 8)>>),
          WithAuthentication(\h42, <<Guarded(<<2, 1>>, 11, 10)>>),
          WithAuthentication(\h40,
              <<Object(<<\h30, 0>>, <<Ins(UPDATE, 4), Ins(READ, 0), Ins(\hB0, 0)>>),
                Guarded(<<\h60, \h10>>, 4, 6), Guarded(<<\h60, \h30>>, 4, 6),
                Open(<<\h90, 0>>, 4)>>),
          WithAuthentication(\h4E, <<Open(<<2, \hFE>>, 4)>>),
          WithAuthentication(\h4D, <<Guarded(<<2, \hFD>>, 6, 6)>>),
          WithoutObject(\h50), WithoutObject(\h51), WithoutObject(\h52),
          WithAuthentication(\h44, <<Guarded(<<\h12, 1>>, 6, 6)>>),
          WithAuthentication(\h45, <<Guarded(<<\h12, 2>>, 6, 6)>>) >>

(* acr_applet_object_encode, acr_applet_encode *)
acr_applet_object_encode(o) ==
    o.id \o FlattenSeq([j \in DOMAIN o.ins |->
                 <<o.ins[j].code, o.ins[j].config>> \o o.ins[j].arg \o <<o.ins[j].acrid>>])
acr_applet_encode(a) ==
    <<a.id, Len(a.objects)>>
    \o FlattenSeq([i \in DOMAIN a.objects |->
           LET o == acr_applet_object_encode(a.objects[i]) IN <<\h82, Len(o) % 256>> \o o])

(* cac_aca_get_applet_acr_coid: the first object with that identifier *)
cac_aca_get_applet_acr_coid(pki_applets, coid) ==
    LET rows == Present(applets_table, pki_applets)
        objects == FlattenSeq([i \in DOMAIN rows |-> rows[i].objects])
        found == SelectSeq(objects, LAMBDA o : o.id = coid)
    IN  IF found = <<>> THEN <<>> ELSE <<Leaf(\h82, acr_applet_object_encode(found[1]))>>

(* aid_to_applet_id: 0 when no service has the AID *)
aid_to_applet_id(pki_applets, aid) ==
    LET found == SelectSeq(Present(service_table, pki_applets), LAMBDA e : e.aid = aid)
    IN  IF found = <<>> THEN 0 ELSE found[1].id

(* cac_aca_get_applet_acr: the rows of one applet, or the count and all    *)
AppletRows(rows) == [i \in DOMAIN rows |-> Leaf(\h80, acr_applet_encode(rows[i]))]
cac_aca_get_applet_acr(pki_applets) ==
    <<Leaf(\h81, <<13 + pki_applets>>)>> \o AppletRows(Present(applets_table, pki_applets))
cac_aca_get_applet_acr_aid(pki_applets, applet_id) ==
    AppletRows(SelectSeq(Present(applets_table, pki_applets), LAMBDA a : a.id = applet_id))

(* The access method providers.  cac_aca_get_amp reads the entries 1..3 of *)
(* an array that counts from 0 and copies, like the service table, from    *)
(* the start of each; the entry after the last one is zero.                *)
amp_table == <<\h1F, \h1E, \h1D>>
amp_aid == Rid \o <<3, 0>>
cac_aca_get_amp ==
    <<Leaf(\h91, <<Len(amp_table)>>)>>
    \o [i \in 1..Len(amp_table) |->
           IF i < Len(amp_table)
           THEN Leaf(\h90, <<amp_table[i + 1], \h92, 7>> \o StructBytes(amp_table[i + 1]))
           ELSE Leaf(\h90, <<0, \h92, 0>>)]

(* The applet information that precedes every table, and a reply in        *)
(* Simple TLV.                                                             *)
aca_properties == <<Leaf(1, <<\h10, 2, 6, 2, 2>>)>>
SimpleTlvReply(members) ==
    Success(simpletlv_encode(simpletlv_merge(aca_properties, members), 0).out)

(* cac_aca_get_acr_response_extended *)
AcrExtended ==
    FlattenSeq([i \in DOMAIN acr_table |->
        LET e == acr_table[i]
        IN  <<IF Len(e.methods) = 2 THEN 8 ELSE 6, e.acrid, e.type, e.applet>>
            \o (IF e.methods = <<>> THEN <<0, 0>> ELSE FlattenSeq(e.methods)) \o <<0>>])

(* cac_aca_get_applet_acr_response_extended *)
AppletAcrExtended(pki_applets) ==
    LET rows == Present(applets_table, pki_applets)
        Sized(s) == <<Len(s) % 256>> \o s
        Row(a) == <<a.id, Len(a.objects)>>
                  \o FlattenSeq([j \in DOMAIN a.objects |->
                         Sized(acr_applet_object_encode(a.objects[j]))])
    IN  FlattenSeq([i \in DOMAIN rows |-> Sized(Row(rows[i]))])

(* amp_table_extended, cac_aca_get_service_response_extended *)
amp_table_extended ==
    <<\h1F, 0, 7>> \o amp_aid \o <<\h12, 0, 0, 0, \h1E, 0, 7>> \o amp_aid
    \o <<\h10, 1, 0, 0, \h1D, 0, 7>> \o amp_aid \o <<1, 0, 0, 0>>
ServiceExtended(pki_applets) ==
    LET rows == Present(service_table, pki_applets)
    IN  FlattenSeq([i \in DOMAIN rows |-> <<rows[i].id, 0, 7>> \o rows[i].aid])

(* cac_aca_get_acr_response and its siblings, by the P1 that selects them  *)
(* in cac_applet_aca_process_apdu; body is the data of the command.        *)
GetAcr(pki_applets, p1, body) ==
    CASE p1 = \h00 -> SimpleTlvReply(cac_aca_get_acr(Byte, TRUE))
      [] p1 \in {\h40, \h41} -> Success(AcrExtended)
      [] p1 = \h01 -> LET r == cac_aca_get_acr({body[1]}, FALSE)
                      IN  IF r = <<>> THEN DataNotFound ELSE SimpleTlvReply(r)
      [] p1 = \h10 -> SimpleTlvReply(cac_aca_get_applet_acr(pki_applets))
      [] p1 \in {\h50, \h51, \h52} -> Success(AppletAcrExtended(pki_applets))
      [] p1 = \h11 -> LET id == aid_to_applet_id(pki_applets, body)
                      IN  IF id = 0 THEN DataNotFound
                          ELSE SimpleTlvReply(cac_aca_get_applet_acr_aid(pki_applets, id))
      [] p1 = \h12 -> LET r == cac_aca_get_applet_acr_coid(pki_applets, body)
                      IN  IF r = <<>> THEN WrongData ELSE SimpleTlvReply(r)
      [] p1 = \h20 -> SimpleTlvReply(cac_aca_get_amp)
      [] p1 = \h60 -> Success(amp_table_extended)
      [] p1 = \h21 -> SimpleTlvReply(cac_aca_get_service_table(pki_applets))
      [] p1 = \h61 -> Success(ServiceExtended(pki_applets))
=============================================================================
