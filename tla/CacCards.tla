------------------------------- MODULE CacCards -------------------------------
(***************************************************************************)
(* How a CAC card is put together (cac_card_init, cac.c) and what its      *)
(* applets then tell of themselves: the T and V files of READ BUFFER, the  *)
(* properties of GET PROPERTIES and the access tables of GET ACR.  The     *)
(* functions that build an applet fill function-static tables with         *)
(* pointers to their own locals and copy them, and the tables of the CCC   *)
(* applet are not copied at all: every card uses the same ones.  A card is *)
(* built by a thread of the program, one applet after the other.           *)
(*   Threads   the threads that build cards (one event thread per module)  *)
(*   CertLists the lists of certificate lengths a card may be given        *)
(*   KeyBits   the size of every key; MaxCards bounds the cards            *)
(***************************************************************************)
EXTENDS Aca

CONSTANTS Threads, CertLists, KeyBits, MaxCards

ASSUME BoundsAssumption ==
    /\ CertLists \subseteq Seq(Nat) /\ KeyBits \in Nat /\ MaxCards \in Nat

VARIABLES
    cards,      \* the finished cards: the sequences of their applets
    building,   \* what each thread builds: [certs, applets, filled], or Idle
    pointers,   \* the static object tables: whose locals the entries point to
    ccc,        \* the static tables of the CCC: [leaf, lengths]
    result      \* what the last cac_card_init returned

vars == <<cards, building, pointers, ccc, result>>

Idle == [idle |-> TRUE, certs |-> <<>>, applets |-> <<>>, filled |-> FALSE]
Active == {t \in Threads : ~building[t].idle}

-----------------------------------------------------------------------------
(* The applets of a card in the order cac_card_init adds them: the kind,   *)
(* the AID and the objects.                                                *)
Recipe(kind, aid, coids) == [kind |-> kind, aid |-> aid, coids |-> coids]
Simple(kind, oid) == Recipe(kind, Rid \o oid, <<oid>>)
AcaRecipe == Simple("aca", <<3, 0>>)
CccRecipe == Recipe("ccc", <<\hA0, 0, 0, 1, \h16, \hDB, 0>>, << <<\hDB, 0>> >>)
Plan(certs) ==
    [i \in 1..Len(certs) |-> Simple("pki", <<1, i - 1>>)]
    \o << AcaRecipe, CccRecipe,
          Recipe("empty", Rid \o <<2, \hF0>>, <<>>), Recipe("empty", Rid \o <<2, \hF1>>, <<>>),
          Recipe("empty", Rid \o <<2, \hF2>>, <<>>),
          Simple("empty", <<2, \hFB>>), Simple("empty", <<2, \hFE>>),
          Simple("empty", <<2, \hFD>>), Simple("passthrough", <<2, 0>>),
          Simple("passthrough", <<2, 1>>), Simple("empty", <<\h12, 1>>),
          Simple("empty", <<\h12, 2>>),
          Recipe("empty", <<\hA0, 0, 0, 1, \h16, \h30, 0>>,
                 << <<\h30, 0>>, <<\h60, \h10>>, <<\h60, \h30>>, <<\h90, 0>> >>) >>

(* cac_create_file: two length bytes and the T or V part, nothing when the *)
(* part is empty or cannot be encoded                                      *)
cac_create_file(tlv, kind) ==
    LET len == simpletlv_get_length(tlv, kind)
        e == simpletlv_encode_internal(tlv, kind, len)
    IN  IF len < 0 \/ e.rv <= 0 THEN <<>> ELSE ushort2lebytes(e.rv) \o e.out
EmptyFile == <<0, 0>>

(* The buffer of a PKI applet; the bytes of a certificate do not matter.   *)
PkiBuffer(cert_len) ==
    << Leaf(\h71, <<0>>), Leaf(\h70, [k \in 1..cert_len |-> 7]),
       Leaf(\h72, <<>>), Leaf(\hFE, <<>>) >>

(* The buffer of the CCC: a CardURL is the RID, the type of application,   *)
(* the object and the applet.  urls holds those of the PKI entries that    *)
(* are LEAF.                                                               *)
CardUrl(rid, type, oid, aid) == rid \o <<type>> \o oid \o aid \o <<0, 0, 0, 0, 0, 0>>
Generic(oid) == CardUrl(Rid, 1, oid, oid)
AccessControl(oid) == CardUrl(<<\hA0, 0, 0, 1, \h16>>, 1, oid, <<\h30, 0>>)
PkiUrl(i) == CardUrl(Rid, 4, <<1, i>>, <<1, i>>)
CommonUrls ==
    << Generic(<<2, \hFB>>), Generic(<<2, \hFE>>), Generic(<<2, \hFD>>), Generic(<<2, 0>>),
       Generic(<<2, 1>>), AccessControl(<<\h30, 0>>), AccessControl(<<\h60, \h10>>),
       AccessControl(<<\h60, \h30>>), AccessControl(<<\h90, 0>>),
       Generic(<<\h12, 1>>), Generic(<<\h12, 2>>) >>
CccBuffer(urls) ==
    << Leaf(\hF0, Rid \o <<3, 2, \h40, \h70, \h50, \h72, \h36, \h0E, 0, 0, \h58,
                           \hBD, 0, \h2C, \h19, \hB5>>),
       Leaf(\hF1, <<\h21>>), Leaf(\hF2, <<\h21>>) >>
    \o [i \in 1..(Len(CommonUrls) + Len(urls)) |-> Leaf(\hF3, (CommonUrls \o urls)[i])]
    \o << Leaf(\hF4, <<0>>), Leaf(\hF5, <<\h10>>),
          Leaf(\hF6, <<7>> \o Rid \o <<3, 0, 0, 0, 0, 0, 0, 0, 0, 0, 0>>) >>
    \o [i \in 1..6 |-> Leaf(<<\hF7, \hFA, \hFB, \hFC, \hFD, \hFE>>[i], <<>>)]

(* Properties: the applet information, the number of objects and, for each *)
(* object, its identifier and the lengths of its files.                    *)
Information == Leaf(1, <<\h10, 2, 6, 2, 3>>)
NumberObjects(n) == Leaf(\h40, <<n>>)
ObjectId(coid) == Leaf(\h41, coid)
BufferProperties(type, lengths) == Leaf(\h42, <<type>> \o lengths)
Unknown26 == Leaf(\h26, <<1>>)
Unknown39 == Leaf(\h39, <<0>>)
AcaAid == Leaf(\h3A, Rid \o <<3, 0>>)
KeyLength == IF KeyBits > 0 THEN (KeyBits \div 64) % 256 ELSE \h10

(* variant for mutation: the two length bytes of a file are not counted *)
LengthsWithoutHeader(tag, val) ==
    ushort2lebytes(Len(tag) - 2) \o ushort2lebytes(Len(val) - 2)

Lengths(tag, val) == ushort2lebytes(Len(tag)) \o ushort2lebytes(Len(val))
PkiObject(coid, lengths) ==
    Compound(\h51, <<ObjectId(coid), BufferProperties(0, lengths),
                     Leaf(\h43, <<6, KeyLength, 1, 1>>), Unknown26>>)
TvObject(coid, type, lengths) ==
    Compound(\h50, <<ObjectId(coid), BufferProperties(type, lengths), Unknown26>>)
(* "arbitrary sized buffers" of the applets without data *)
Arbitrary == <<\h60, 0, \h60, 0>>

AcaProperties ==
    << Leaf(1, <<\h10, 2, 6, 2, 2>>),
       Leaf(\h23, <<\h20, \h11, 0, 0, 0, 0, 0, 0, 0, 0, 0, \h58>>), Leaf(\h2A, <<2, 0>>),
       Leaf(\h2B, Rid),
       Leaf(\h22, <<0, 0, 0, \hDA, 1, \hB4, 3, \h30, 0, 0, 0, \h70, 0, \h51, 2, \h9D>>),
       Leaf(\h2C, <<0>>), Leaf(\h20, <<8, 1>>), Leaf(\h21, <<15>>),
       Leaf(\h32, <<3, 3, 3, 3>>), Leaf(\h30, <<8>>), Leaf(\h31, <<6, 8, 0, 0>>),
       Leaf(\h24, <<\hFF>>), Leaf(\h25, <<1, 0>>), Leaf(\h26, <<1>>) >>
CccProperties ==
    << Information, NumberObjects(1),
       Compound(\h50, <<ObjectId(<<\hDB, 0>>), BufferProperties(0, ccc.lengths)>>),
       Unknown39, AcaAid >>

(* An applet: its recipe, its files, its properties and how many of them   *)
(* GET PROPERTIES shows.  Those of the CCC are the static table.           *)
NewApplet(r, tag, val, properties, shown) ==
    [kind |-> r.kind, aid |-> r.aid, coids |-> r.coids, tag |-> tag, val |-> val,
     properties |-> properties, shown |-> shown]
PropertiesOf(a) == IF a.kind = "ccc" THEN CccProperties ELSE a.properties

-----------------------------------------------------------------------------
(* Building a card *)

Init ==
    /\ cards = <<>>
    /\ building = [t \in Threads |-> Idle]
    /\ pointers = [kind \in {"pki", "empty", "passthrough"} |-> [p \in 1..4 |-> <<>>]]
    /\ ccc = [leaf |-> {}, lengths |-> <<0, 0, 0, 0>>]
    /\ result = "NONE"

(* The recipe thread t works on, and the files of a PKI applet. *)
Current(t) == Plan(building[t].certs)[Len(building[t].applets) + 1]
CertBuffer(t) == PkiBuffer(building[t].certs[Len(building[t].applets) + 1])
TagFile(t) == cac_create_file(CertBuffer(t), TL)
ValFile(t) == cac_create_file(CertBuffer(t), VALUE)
Working(t, kinds) ==
    /\ ~building[t].idle
    /\ Len(building[t].applets) < Len(Plan(building[t].certs))
    /\ Current(t).kind \in kinds
AddApplet(t, a) ==
    building' = [building EXCEPT ![t].applets = Append(@, a), ![t].filled = FALSE]

(* cac_card_init is called; more than ten certificates are refused. *)
CardInit(t, certs) ==
    /\ building[t].idle
    /\ Len(cards) + Cardinality(Active) < MaxCards
    /\ IF Len(certs) > 10
       THEN result' = "FAIL" /\ UNCHANGED building
       ELSE /\ building' = [building EXCEPT ![t] = [Idle EXCEPT !.idle = FALSE, !.certs = certs]]
            /\ UNCHANGED result
    /\ UNCHANGED <<cards, pointers, ccc>>

(* The static object table gets pointers to the locals of thread t: the    *)
(* one object of a PKI or passthrough applet, each of an empty applet.  A  *)
(* PKI applet whose files cannot be made ends cac_card_init.               *)
Fill(t) ==
    /\ Working(t, {"pki", "empty", "passthrough"}) /\ ~building[t].filled
    /\ IF Current(t).kind = "pki" /\ (TagFile(t) = <<>> \/ ValFile(t) = <<>>)
       THEN /\ building' = [building EXCEPT ![t] = Idle] /\ result' = "FAIL"
            /\ UNCHANGED pointers
       ELSE /\ pointers' = [pointers EXCEPT ![Current(t).kind] =
                  [p \in 1..4 |-> IF p <= Len(Current(t).coids)
                                  THEN <<t, Len(building[t].applets)>> ELSE @[p]]]
            /\ building' = [building EXCEPT ![t].filled = TRUE]
            /\ UNCHANGED result
    /\ UNCHANGED <<cards, ccc>>

(* What entry p of the static table holds when it is copied: the object of *)
(* the thread it points to, or nothing defined once that thread has left   *)
(* the function.                                                           *)
Undefined == <<256, 256>>
Pointed(kind, p) ==
    LET u == pointers[kind][p][1]
        live == /\ building[u].filled /\ Len(building[u].applets) = pointers[kind][p][2]
                /\ Current(u).kind = kind /\ p \in DOMAIN Current(u).coids
        coid == IF live THEN Current(u).coids[p] ELSE Undefined
    IN  CASE kind = "pki" -> PkiObject(coid, IF live THEN Lengths(TagFile(u), ValFile(u))
                                              ELSE Undefined \o Undefined)
          [] kind = "empty" -> TvObject(coid, 1, Arbitrary)
          [] kind = "passthrough" -> TvObject(coid, 0, Arbitrary)

(* simpletlv_clone of the table, and the applet is added to the card. *)
Clone(t) ==
    /\ Working(t, {"pki", "empty", "passthrough"}) /\ building[t].filled
    /\ LET r == Current(t)
           objects == [p \in DOMAIN r.coids |-> Pointed(r.kind, p)]
           shown == <<Information, NumberObjects(Len(objects))>> \o objects
           long == IF r.kind = "pki" THEN <<Unknown39, AcaAid>> ELSE <<>>
           tag == CASE r.kind = "pki" -> TagFile(t) [] r.kind = "empty" -> EmptyFile
                    [] r.kind = "passthrough" -> <<>>
           val == CASE r.kind = "pki" -> ValFile(t) [] r.kind = "empty" -> EmptyFile
                    [] r.kind = "passthrough" -> <<>>
       IN  AddApplet(t, NewApplet(r, tag, val, simpletlv_clone(shown \o long), Len(shown)))
    /\ UNCHANGED <<cards, pointers, ccc, result>>

(* cac_new_aca_applet *)
NewAca(t) ==
    /\ Working(t, {"aca"})
    /\ AddApplet(t, NewApplet(Current(t), <<>>, <<>>, AcaProperties, 1))
    /\ UNCHANGED <<cards, pointers, ccc, result>>

(* variant for mutation: the last certificate gets no CardURL *)
AllButLast(count) == 0..(count - 2)

(* the CardURL entries cac_new_ccc_applet makes LEAF for its certificates *)
LeafEntries(count) == 0..(count - 1)

(* cac_new_ccc_applet: the entries of the card's certificates become LEAF  *)
(* and stay LEAF; one that is LEAF from an earlier card points into a      *)
(* frame that is gone, where the same URL or anything may be.              *)
NewCcc(t) ==
    /\ Working(t, {"ccc"})
    /\ \E same \in BOOLEAN :
         LET count == Len(building[t].certs)
             leaf == ccc.leaf \cup LeafEntries(count)
             order == SetToSortSeq(leaf, <)
             Url(i) == IF i < count \/ same THEN PkiUrl(i) ELSE [k \in 1..16 |-> 256]
             buffer == CccBuffer([k \in DOMAIN order |-> Url(order[k])])
             tag == cac_create_file(buffer, TL)
             val == cac_create_file(buffer, VALUE)
         IN  /\ ccc' = [leaf |-> leaf, lengths |-> Lengths(tag, val)]
             /\ AddApplet(t, NewApplet(Current(t), tag, val, <<>>, 3))
    /\ UNCHANGED <<cards, pointers, result>>

(* cac_card_init returns and the card is there. *)
Finish(t) ==
    /\ ~building[t].idle
    /\ Len(building[t].applets) = Len(Plan(building[t].certs))
    /\ cards' = Append(cards, building[t].applets)
    /\ building' = [building EXCEPT ![t] = Idle]
    /\ result' = "DONE"
    /\ UNCHANGED <<pointers, ccc>>

Next == \E t \in Threads :
    \/ \E certs \in CertLists : CardInit(t, certs)
    \/ Fill(t) \/ Clone(t) \/ NewAca(t) \/ NewCcc(t) \/ Finish(t)

Spec == Init /\ [][Next]_vars

-----------------------------------------------------------------------------
(* What a card answers *)

Applets(card) == Range(card)
PkiCount(card) == Cardinality({k \in DOMAIN card : card[k].kind = "pki"})
OnCard(card, aid) == CHOOSE a \in Applets(card) : a.aid = aid

(* get_properties: the shown members, or for each tag the first of that    *)
(* tag among them                                                          *)
get_properties(a, n, tags) ==
    LET all == SubSeq(PropertiesOf(a), 1, n)
        First(tag) == SelectSeq(all, LAMBDA m : m.tag = tag)
        cp == IF tags = <<>> THEN all ELSE [j \in DOMAIN tags |-> First(tags[j])[1]]
    IN  IF \E j \in DOMAIN tags : First(tags[j]) = <<>> THEN DataNotFound
        ELSE Success(simpletlv_encode(cp, 0).out)

(* cac_common_process_apdu: GET PROPERTIES by its P1 *)
GetProperties(a, p1, tags) ==
    CASE p1 = 1 -> get_properties(a, a.shown, <<>>)
      [] p1 = 2 -> get_properties(a, a.shown, tags)
      [] p1 = \h40 -> get_properties(a, Len(PropertiesOf(a)), <<>>)

-----------------------------------------------------------------------------
(* Properties *)

Shown == {a \in UNION {Applets(cards[c]) : c \in DOMAIN cards} : a.kind # "aca"}
WithFiles == {a \in Shown : a.kind \in {"pki", "ccc"}}

(* The tags and lengths of a T file; a byte that starts no tag gives a     *)
(* length of -1.                                                           *)
RECURSIVE ReadTags(_)
ReadTags(bytes) ==
    LET t == simpletlv_read_tag(bytes)
    IN  IF bytes = <<>> THEN <<>>
        ELSE IF t = Failed THEN << [tag |-> -1, len |-> -1] >>
        ELSE << [tag |-> t[1], len |-> t[2]] >> \o ReadTags(t[3])
TagsOf(a) == ReadTags(SubSeq(a.tag, 3, Len(a.tag)))
SumOf(tags) == FoldLeft(LAMBDA sum, t : sum + t.len, 0, tags)
(* where in the V file the value of the k-th tag is *)
ValueOf(a, k) ==
    LET from == 3 + SumOf(SubSeq(TagsOf(a), 1, k - 1))
    IN  SubSeq(a.val, from, from + TagsOf(a)[k].len - 1)

(* A reader that follows the T file of an applet splits its V file exactly *)
(* (cac.c:935-942): both files start with their own length, the lengths of *)
(* the T file add up to the V file, and a CardURL has 16 bytes.  The one-  *)
(* and three-byte lengths, two encoders and two files have to agree.       *)
FilesDecode ==
    \A a \in WithFiles :
        /\ lebytes2ushort(a.tag) = Len(a.tag) - 2
        /\ lebytes2ushort(a.val) = Len(a.val) - 2
        /\ SumOf(TagsOf(a)) = Len(a.val) - 2
        /\ a.kind = "pki" =>
             [k \in DOMAIN TagsOf(a) |-> TagsOf(a)[k].tag] = <<\h71, \h70, \h72, \hFE>>
        /\ \A k \in DOMAIN TagsOf(a) : TagsOf(a)[k].tag = \hF3 => TagsOf(a)[k].len = 16

(* GET PROPERTIES of every card tells the objects its applet selects by,   *)
(* in order and with their number, and the lengths its T and V files have  *)
(* (cac.c:993-996, 1733-1736), whatever other cards were built before,     *)
(* after or at the same time; the reply to a list of tags and the long     *)
(* reply agree with it.                                                    *)
PropertiesTrue ==
    \A a \in Shown :
        LET reply == GetProperties(a, 1, <<>>).data
            members == simpletlv_parse(reply)
            objects == SelectSeq(members, LAMBDA m : m.tag \in {\h50, \h51})
            child == [p \in DOMAIN objects |-> simpletlv_parse(objects[p].value)]
        IN  /\ simpletlv_encode(members, 0).out = reply
            /\ [p \in DOMAIN child |-> child[p][1].value] = a.coids
            /\ members[2].value = <<Len(a.coids)>>
            /\ a.kind \in {"pki", "ccc"} =>
                 LET told == child[1][2].value
                 IN  /\ Len(told) = 5
                     /\ lebytes2ushort(SubSeq(told, 2, 3)) = Len(a.tag)
                     /\ lebytes2ushort(SubSeq(told, 4, 5)) = Len(a.val)
            /\ simpletlv_parse(GetProperties(a, 2, <<\h40, 1>>).data)
                 = <<members[2], members[1]>>
            /\ SubSeq(simpletlv_parse(GetProperties(a, \h40, <<>>).data), 1, a.shown) = members

(* The objects and AIDs the CardURLs of a card's CCC name. *)
UrlsOf(card) ==
    LET a == OnCard(card, CccRecipe.aid)
    IN  {ValueOf(a, k) : k \in {j \in DOMAIN TagsOf(a) : TagsOf(a)[j].tag = \hF3}}
UrlTarget(url) == [aid |-> SubSeq(url, 1, 5) \o SubSeq(url, 9, 10), coid |-> SubSeq(url, 7, 8)]

(* What the CCC lists is what the card holds (cac.c:1637): each CardURL    *)
(* leads to an applet with that object, and every object of a PKI, empty   *)
(* or passthrough applet has its CardURL.  The table of the CCC is shared  *)
(* by all cards and only ever gains entries.                               *)
CccListsCard ==
    \A c \in DOMAIN cards :
        LET objects == UNION {{[aid |-> a.aid, coid |-> a.coids[p]] : p \in DOMAIN a.coids} :
                              a \in {b \in Applets(cards[c]) : b.kind \notin {"aca", "ccc"}}}
        IN  {UrlTarget(url) : url \in UrlsOf(cards[c])} = objects

(* The members of a Simple TLV reply of the access control applet, after   *)
(* the applet information and the count; the count is theirs.              *)
Members(card, p1, body) == Tail(simpletlv_parse(GetAcr(PkiCount(card), p1, body).data))
Counted(card, p1) ==
    LET m == Members(card, p1, <<>>) IN m[1].value = <<Len(m) - 1>>
RowObjects(row) == simpletlv_parse(SubSeq(row.value, 3, Len(row.value)))

(* The access tables describe this card (cac.c:599-695 and the tables of   *)
(* cac-aca.c): the counts are the numbers of entries, the services are the *)
(* card's applets, and every applet but the ACA and the CCC gets its own   *)
(* row by its AID, whose objects are those it selects by and the one of    *)
(* any object, and the rules of each object by its identifier.             *)
AccessTablesMatch ==
    \A c \in DOMAIN cards :
        LET card == cards[c]
            n == PkiCount(card)
            extended == GetAcr(n, \h61, <<>>).data
            others == {a \in Applets(card) : a.kind # "aca"}
        IN  /\ \A p1 \in {0, \h10, \h20, \h21} : Counted(card, p1)
            /\ {SubSeq(extended, 10 * k + 4, 10 * k + 10) : k \in 0..(Len(extended) \div 10 - 1)}
                 = {a.aid : a \in others}
            /\ \A a \in others :
                 /\ a.kind # "ccc" =>
                      LET rows == Members(card, \h11, a.aid)
                          objects == RowObjects(rows[1])
                      IN  /\ Len(rows) = 1
                          /\ rows[1].value[2] = Len(objects)
                          /\ {SubSeq(objects[p].value, 1, 2) : p \in DOMAIN objects}
                               = Range(a.coids) \cup {AnyObject}
                 /\ \A p \in DOMAIN a.coids :
                      /\ GetAcr(n, \h12, a.coids[p]).sw = "SUCCESS"
                      /\ SubSeq(Members(card, \h12, a.coids[p])[1].value, 1, 2) = a.coids[p]

(* "93 0A 40 92 07 A0 00 00 01 16 30 00" (cac-aca.c:229-232): an entry of  *)
(* the service table and of the table of access methods holds the full AID *)
(* of an applet of the card.                                               *)
TablesHoldAids ==
    \A c \in DOMAIN cards, p1 \in {\h20, \h21} :
        LET m == Members(cards[c], p1, <<>>)
        IN  \A k \in 2..Len(m) :
              SubSeq(m[k].value, 4, Len(m[k].value)) \in {a.aid : a \in Applets(cards[c])}
=============================================================================
