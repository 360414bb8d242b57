---------------------------- MODULE CapcscProofs ----------------------------
(***************************************************************************)
(* The PC/SC backend, for every set of readers and every length of the     *)
(* array: each VReader keeps a record of its own at the place it was       *)
(* given, the card it has is the one its record is connected to, and an    *)
(* APDU reaches the reader it is sent to.  As in the run, no call to pcscd *)
(* fails and the readers come and go as Gentle says; otherwise deleting a  *)
(* record can move others from under their readers (section 3 of README).  *)
(***************************************************************************)
EXTENDS Capcsc, FiniteSetTheorems, SequenceTheorems, TLAPS

-----------------------------------------------------------------------------
(* The inductive invariant *)

Handle == [name : Names \cup {Nobody}, made : Nat]
Card == [made : Nat, place : Nat]
RecordType == [name : Nat, index : Nat, state : Int, handle : Handle, connected : BOOLEAN,
               asked : BOOLEAN]
VReader == [name : Names, place : Nat, card : Card]
Steps == {"scan", "drop", "prepare", "wait", "process"}
EventType == [type : {"READER_INSERT", "READER_REMOVE", "CARD_INSERT", "CARD_REMOVE"},
              reader : Nat, card : Nat]
Entry == [name : Nat, state : Int, event : Int]
Use == [reader : Nat, card : Card]

TypeOK ==
    /\ plugged \subseteq Names /\ inside \in [Names -> Nat] /\ listed \subseteq Names
    /\ failures = 0
    /\ record \in [0 .. MaxReaders - 1 -> RecordType] /\ count \in 0 .. MaxReaders - 1
    /\ changed \in BOOLEAN /\ crashed = FALSE
    /\ thread \in [at : Steps, place : Int, matches : SUBSET Nat]
    /\ states \in Seq(Entry)
    /\ reader \in Seq(VReader)
    /\ queue \in Seq(EventType)
    /\ taken \in Seq(EventType) /\ user \in Seq(Use) /\ Len(taken) <= 1 /\ Len(user) <= 1

(* the VReader whose name the record at place p has *)
Owner(p) == record[p].name

(* The records are those of the VReaders that are alive, each at the place *)
(* its reader, the reader's card and the record itself remember; none is   *)
(* ahead of the card in its reader.                                        *)
Kept ==
    /\ \A p \in 0 .. count - 1 :
          /\ Owner(p) \in Alive /\ Owner(p) \notin freed
          /\ record[p].index = p /\ reader[Owner(p)].place = p
          /\ record[p].handle.name \in {Nobody, reader[Owner(p)].name}
          /\ record[p].state <= inside[reader[Owner(p)].name]
    /\ Alive \subseteq 1 .. Len(reader) /\ freed \subseteq 1 .. Len(reader)
    /\ \A v \in Alive : /\ reader[v].place \in 0 .. count - 1
                        /\ Owner(reader[v].place) = v
                        /\ reader[v].card # NoCard => reader[v].card.place = reader[v].place
    /\ \A k \in DOMAIN user : user[k].card.place = reader[user[k].reader].place
    /\ last.reached \in {last.sent, Nobody}

(* While a reader is plugged in, the VReaders that are alive are those in  *)
(* the list, for readers that are plugged in and listed; when none is      *)
(* plugged in at most one record is left.  So the record that is deleted   *)
(* is the sole one.                                                        *)
Regime ==
    /\ \A v, w \in list : reader[v].name = reader[w].name => v = w
    /\ plugged = {} => count <= 1
    /\ plugged # {} => \A v \in list : reader[v].name \in plugged /\ reader[v].name \in listed
    /\ plugged # {} \/ listed # {} => Alive \subseteq list

(* The entries the event thread waits with are for the records there are,  *)
(* or no reader was listed and the wait leads to a new scan.               *)
Aligned == Len(states) = count /\ \A k \in 1 .. count : states[k].name = Owner(k - 1)
Stale == listed = {} /\ states # <<>>

(* What the event thread holds at each of its steps: only the sole record  *)
(* has no match, the entries fit the records when they are processed, and  *)
(* what an entry tells of a card is not ahead of the card.                 *)
Told ==
    /\ thread.at = "drop" =>
          /\ changed /\ thread.place < MaxReaders
          /\ \A p \in 0 .. thread.place : p \notin thread.matches => p = 0 /\ listed = {}
    /\ thread.at = "prepare" => changed \/ Aligned \/ Stale
    /\ thread.at = "wait" => Aligned \/ Stale
    /\ thread.at = "process" =>
          /\ Aligned /\ thread.place \in 0 .. count
          /\ \A k \in 1 .. count : states[k].event = Unaware \/
                states[k].event \in 0 .. inside[reader[states[k].name].name]

CInv == TypeOK /\ Kept /\ Regime /\ Told /\ CardReady

-----------------------------------------------------------------------------
(* Numbers, sets and sequences                                             *)

(* The least of one number is that number.                                 *)
LEMMA MinOne == ASSUME NEW x \in Int PROVE Min({x}) = x
BY DEF Min

(* The least of two numbers is one of them and no greater than the other.  *)
LEMMA MinTwo == ASSUME NEW x \in Int, NEW y \in Int
   PROVE Min({x, y}) \in {x, y} /\ Min({x, y}) <= x /\ Min({x, y}) <= y
<1>1. \E z \in {x, y} : \A w \in {x, y} : z <= w
  <2>1. CASE x <= y
    BY <2>1
  <2>2. CASE y <= x
    BY <2>2
  <2> QED BY <2>1, <2>2
<1> QED BY <1>1 DEF Min

(* SetToSeq lists each element of a finite set, and none twice.            *)
LEMMA SetToSeqIs ==
    ASSUME NEW S, IsFiniteSet(S)
    PROVE  /\ SetToSeq(S) \in Seq(S)
           /\ \A i, j \in 1 .. Len(SetToSeq(S)) : SetToSeq(S)[i] = SetToSeq(S)[j] => i = j
<1>1. PICK f \in Bijection(1 .. Cardinality(S), S) : TRUE
  BY FS_CardinalityType DEF ExistsBijection
<1>2. f \in [1 .. Cardinality(S) -> S] /\ IsInjective(f)
  BY <1>1 DEF Bijection, Injection, IsInjective
<1>3. /\ SetToSeq(S) \in [1 .. Cardinality(S) -> S]
      /\ IsInjective(SetToSeq(S))
  BY <1>2 DEF SetToSeq
<1>4. Cardinality(S) \in Nat
  BY FS_CardinalityType
<1> HIDE DEF SetToSeq
<1>5. SetToSeq(S) \in Seq(S) /\ DOMAIN SetToSeq(S) = 1 .. Len(SetToSeq(S))
  BY <1>3, <1>4
<1> QED BY <1>3, <1>5 DEF IsInjective

(* A sequence with one more element                                        *)
LEMMA AppendIs ==
    ASSUME NEW S, NEW s \in Seq(S), NEW x \in S
    PROVE  /\ Append(s, x) \in Seq(S) /\ Len(Append(s, x)) = Len(s) + 1
           /\ Append(s, x)[Len(s) + 1] = x /\ \A i \in 1 .. Len(s) : Append(s, x)[i] = s[i]
OBVIOUS

(* Two sequences joined                                                    *)
LEMMA ConcatIs ==
    ASSUME NEW S, NEW s \in Seq(S), NEW t \in Seq(S)
    PROVE  /\ s \o t \in Seq(S) /\ Len(s \o t) = Len(s) + Len(t)
           /\ DOMAIN (s \o t) = 1 .. Len(s) + Len(t)
           /\ \A k \in 1 .. Len(s) : (s \o t)[k] = s[k]
           /\ \A k \in 1 .. Len(t) : (s \o t)[Len(s) + k] = t[k]
<1>1. /\ s \o t \in Seq(S) /\ Len(s \o t) = Len(s) + Len(t)
      /\ DOMAIN (s \o t) = 1 .. Len(s) + Len(t) /\ Len(s) \in Nat /\ Len(t) \in Nat
      /\ \A k \in 1 .. Len(s) + Len(t) : (s \o t)[k] = IF k <= Len(s) THEN s[k] ELSE t[k - Len(s)]
  OBVIOUS
<1>2. ASSUME NEW k \in 1 .. Len(t) PROVE (s \o t)[Len(s) + k] = t[k]
  <2>1. Len(s) + k \in 1 .. Len(s) + Len(t) /\ ~ (Len(s) + k <= Len(s)) /\ (Len(s) + k) - Len(s) = k
    BY <1>1
  <2> QED BY <2>1, <1>1
<1>3. ASSUME NEW k \in 1 .. Len(s) PROVE (s \o t)[k] = s[k]
  <2>1. k \in 1 .. Len(s) + Len(t) /\ k <= Len(s)
    BY <1>1
  <2> QED BY <2>1, <1>1
<1> QED BY <1>1, <1>2, <1>3

(* A sequence of at most one element                                       *)
LEMMA OneIs ==
    ASSUME NEW S, NEW s \in Seq(S), Len(s) <= 1
    PROVE  IF s = <<>> THEN DOMAIN s = {} ELSE DOMAIN s = {1}
<1>1. DOMAIN s = 1 .. Len(s) /\ Len(s) \in Nat /\ (Len(s) = 0 <=> s = <<>>)
  OBVIOUS
<1> QED BY <1>1

-----------------------------------------------------------------------------
(* VReaders and their records                                              *)

(* The record at a place below count has one reader, which has its name,   *)
(* and the name is not freed.                                              *)
LEMMA OwnerIs ==
    ASSUME TypeOK, Kept, NEW p \in 0 .. count - 1
    PROVE  /\ Owner(p) \in 1 .. Len(reader) /\ Owner(p) # 0
           /\ reader[Owner(p)] \in VReader
           /\ Reads(Owner(p)) = {reader[Owner(p)].name}
           /\ record[p] \in RecordType
           /\ \A q \in 0 .. count - 1 : Owner(p) = Owner(q) => p = q
<1>1. /\ Owner(p) \in Alive /\ Owner(p) \notin freed /\ Alive \subseteq 1 .. Len(reader)
      /\ \A q \in 0 .. count - 1 : reader[Owner(q)].place = q
  BY DEF Kept
<1>2. reader \in Seq(VReader) /\ record \in [0 .. MaxReaders - 1 -> RecordType]
      /\ count \in 0 .. MaxReaders - 1 /\ MaxReaders \in Nat
  BY NamesAssumption DEF TypeOK
<1>3. Owner(p) \in 1 .. Len(reader) /\ Owner(p) # 0
  BY <1>1, <1>2
<1> QED BY <1>1, <1>2, <1>3 DEF Reads

(* A VReader in the list has a record, at its place.                       *)
LEMMA ListIs ==
    ASSUME TypeOK, Kept, NEW v \in list
    PROVE  /\ v \in Alive /\ v \in 1 .. Len(reader) /\ reader[v] \in VReader /\ reader[v].name \in Names
           /\ reader[v].place \in 0 .. count - 1 /\ Owner(reader[v].place) = v
           /\ record[reader[v].place] \in RecordType
           /\ record[reader[v].place].state <= inside[reader[v].name]
<1>1. v \in Alive
  BY DEF Alive
<1>2. /\ v \in 1 .. Len(reader) /\ reader[v].place \in 0 .. count - 1 /\ Owner(reader[v].place) = v
  BY <1>1 DEF Kept
<1>3. reader[v] \in VReader /\ record[reader[v].place] \in RecordType
  BY <1>2, NamesAssumption DEF TypeOK
<1> QED BY <1>1, <1>2, <1>3 DEF Kept, VReader

(* vreader_get_reader_by_name with the name of a VReader in the list finds *)
(* that one.                                                               *)
LEMMA NamedIs ==
    ASSUME TypeOK, Kept, Regime, NEW v \in list
    PROVE  Named(reader[v].name) = {v} /\ Min(Named(reader[v].name)) = v
<1>1. Named(reader[v].name) = {v}
  BY DEF Named, Regime
<1>2. v \in Int
  BY DEF Kept, Alive
<1> QED BY <1>1, <1>2, MinOne

(* the VReaders the events of q, or the transmissions of q, refer to       *)
Readers(q) == {q[k].reader : k \in DOMAIN q}

(* The same by places in the sequence                                      *)
LEMMA ReadersIs ==
    ASSUME NEW S, NEW q \in Seq(S)
    PROVE  \A v : v \in Readers(q) <=> \E k \in 1 .. Len(q) : q[k].reader = v
<1>1. DOMAIN q = 1 .. Len(q)
  OBVIOUS
<1> QED BY <1>1 DEF Readers

(* An empty queue refers to no VReader.                                    *)
LEMMA NoReaders == Readers(<<>>) = {}
BY DEF Readers

(* vevent_queue_vevent adds the VReader of its event.                      *)
LEMMA AppendReaders ==
    ASSUME NEW q \in Seq(EventType), NEW e \in EventType
    PROVE  Readers(Append(q, e)) = Readers(q) \cup {e.reader}
<1> DEFINE u == Append(q, e)
<1>1. /\ u \in Seq(EventType) /\ Len(u) = Len(q) + 1 /\ Len(q) \in Nat /\ u[Len(q) + 1] = e
      /\ \A i \in 1 .. Len(q) : u[i] = q[i]
  BY AppendIs
<1>2. /\ \A i \in 1 .. Len(u) : i \in 1 .. Len(q) \/ i = Len(q) + 1
      /\ \A i \in 1 .. Len(q) : i \in 1 .. Len(u)
      /\ Len(q) + 1 \in 1 .. Len(u)
  BY <1>1
<1> HIDE DEF u
<1>3. /\ \A v : v \in Readers(u) <=> \E k \in 1 .. Len(u) : u[k].reader = v
      /\ \A v : v \in Readers(q) <=> \E k \in 1 .. Len(q) : q[k].reader = v
  BY <1>1, ReadersIs
<1>4. ASSUME NEW v PROVE v \in Readers(u) <=> v \in Readers(q) \cup {e.reader}
  BY <1>1, <1>2, <1>3
<1>5. Readers(u) = Readers(q) \cup {e.reader}
  BY <1>4
<1> QED BY <1>5 DEF u

(* An event that is taken off the queue keeps its VReader referred to.     *)
LEMMA TakenReaders ==
    ASSUME NEW q \in Seq(EventType), q # <<>>
    PROVE  Readers(q) = Readers(Tail(q)) \cup Readers(<<Head(q)>>)
<1> DEFINE t == Tail(q)
           h == <<Head(q)>>
<1>1. /\ t \in Seq(EventType) /\ Len(q) = Len(t) + 1 /\ Len(t) \in Nat
      /\ \A k \in 1 .. Len(t) : t[k] = q[k + 1]
      /\ h \in Seq(EventType) /\ Len(h) = 1 /\ h[1] = q[1]
  OBVIOUS
<1> HIDE DEF t, h
<1>2. \A k \in 1 .. Len(q) : k = 1 \/ (k - 1 \in 1 .. Len(t) /\ t[k - 1] = q[k])
  <2>1. ASSUME NEW k \in 1 .. Len(q), k # 1
        PROVE  k - 1 \in 1 .. Len(t) /\ t[k - 1] = q[k]
    <3>1. k - 1 \in 1 .. Len(t) /\ (k - 1) + 1 = k
      BY <2>1, <1>1
    <3> QED BY <3>1, <1>1
  <2> QED BY <2>1
<1>3. /\ \A k \in 1 .. Len(t) : k + 1 \in 1 .. Len(q)
      /\ 1 \in 1 .. Len(q) /\ 1 .. Len(h) = {1}
  BY <1>1
<1>4. /\ \A v : v \in Readers(q) <=> \E k \in 1 .. Len(q) : q[k].reader = v
      /\ \A v : v \in Readers(t) <=> \E k \in 1 .. Len(t) : t[k].reader = v
      /\ \A v : v \in Readers(h) <=> \E k \in 1 .. Len(h) : h[k].reader = v
  BY <1>1, ReadersIs
<1>5. ASSUME NEW v PROVE v \in Readers(q) <=> v \in Readers(t) \cup Readers(h)
  <2>1. v \in Readers(h) <=> v = q[1].reader
    BY <1>1, <1>3, <1>4
  <2>2. ASSUME v \in Readers(q) PROVE v \in Readers(t) \cup Readers(h)
    <3>1. PICK k \in 1 .. Len(q) : q[k].reader = v
      BY <2>2, <1>4
    <3>2. CASE k = 1
      BY <3>1, <3>2, <2>1
    <3>3. CASE k - 1 \in 1 .. Len(t) /\ t[k - 1] = q[k]
      BY <3>1, <3>3, <1>4
    <3> QED BY <3>2, <3>3, <1>2
  <2>3. ASSUME v \in Readers(t) PROVE v \in Readers(q)
    <3>1. PICK k \in 1 .. Len(t) : t[k].reader = v
      BY <2>3, <1>4
    <3>2. k + 1 \in 1 .. Len(q) /\ q[k + 1].reader = v
      BY <3>1, <1>1, <1>3
    <3> QED BY <3>2, <1>4
  <2>4. v \in Readers(h) => v \in Readers(q)
    BY <2>1, <1>3, <1>4
  <2> QED BY <2>2, <2>3, <2>4
<1>6. Readers(q) = Readers(t) \cup Readers(h)
  BY <1>5
<1> QED BY <1>6 DEF t, h

(* A VReader is alive when something refers to it.                         *)
LEMMA AliveIs ==
    /\ Alive = list \cup leaked \cup Readers(queue) \cup Readers(taken) \cup Readers(user)
    /\ Alive' = list' \cup leaked' \cup Readers(queue') \cup Readers(taken') \cup Readers(user')
BY DEF Alive, Readers

(* Where the event thread is when it starts something                      *)
LEMMA RestIs ==
    ASSUME NEW at \in Steps
    PROVE  /\ Rest(at) \in [at : Steps, place : Int, matches : SUBSET Nat]
           /\ Rest(at).at = at
BY DEF Rest

(* A reader with a card in it has a name.                                  *)
LEMMA PresentIs ==
    ASSUME TypeOK, NEW n, Present(n)
    PROVE  n \in Names /\ n # Nobody /\ inside[n] \in Nat
BY NobodyAssumption DEF TypeOK, Present

-----------------------------------------------------------------------------
(* Init and the world                                                      *)

(* The variables have their types at the start.                            *)
LEMMA TypeStart == Init => TypeOK
<1> SUFFICES ASSUME Init PROVE TypeOK
  OBVIOUS
<1> USE NamesAssumption DEF Init
<1>1. record \in [0 .. MaxReaders - 1 -> RecordType]
  BY DEF Blank, RecordType, Handle, NoHandle, Unaware
<1>2. thread \in [at : Steps, place : Int, matches : SUBSET Nat]
  BY DEF Rest, Steps
<1>3. /\ states = <<>> /\ reader = <<>> /\ queue = <<>> /\ taken = <<>> /\ user = <<>>
      /\ inside \in [Names -> Nat] /\ 0 \in 0 .. MaxReaders - 1
      /\ plugged = {} /\ listed = {} /\ failures = 0 /\ count = 0 /\ changed = FALSE /\ crashed = FALSE
  OBVIOUS
<1>4. \A S : <<>> \in Seq(S) /\ Len(<<>>) = 0
  OBVIOUS
<1>5. /\ states \in Seq(Entry) /\ reader \in Seq(VReader) /\ queue \in Seq(EventType)
      /\ taken \in Seq(EventType) /\ user \in Seq(Use) /\ Len(taken) <= 1 /\ Len(user) <= 1
  BY <1>3, <1>4
<1>6. changed \in BOOLEAN /\ plugged \subseteq Names /\ listed \subseteq Names
  BY <1>3
<1> QED BY <1>1, <1>2, <1>3, <1>5, <1>6, Zenon DEF TypeOK

(* At the start there is no reader, so every part of the invariant holds.  *)
LEMMA CStart == Init => CInv
<1> SUFFICES ASSUME Init PROVE CInv
  OBVIOUS
<1>1. TypeOK
  BY TypeStart
<1>2. /\ Alive = {} /\ list = {} /\ freed = {} /\ count = 0 /\ user = <<>> /\ thread.at = "scan"
      /\ last.reached = Nobody
  BY DEF Init, Alive, Rest
<1>3. 0 .. count - 1 = {} /\ DOMAIN user = {}
  BY <1>2
<1>4. Kept
  BY <1>2, <1>3 DEF Kept
<1>5. Regime
  BY <1>2 DEF Regime
<1>6. Told /\ CardReady
  BY <1>2 DEF Told, CardReady
<1> QED BY <1>1, <1>4, <1>5, <1>6 DEF CInv

(* MoveCard without its bound, which is a sum the provers do not see into  *)
LEMMA MoveIs ==
    ASSUME NEW n, MoveCard(n)
    PROVE  /\ n \in plugged /\ inside' = [inside EXCEPT ![n] = @ + 1]
           /\ UNCHANGED <<plugged, listed, plugs, failures>>
BY DEF MoveCard

(* A card moves: the state a record remembers is now that of an earlier    *)
(* card. A reader is plugged in when no record is left that names no       *)
(* reader, and unplugged when it is the sole one.                          *)
LEMMA WorldStep ==
    ASSUME Gentle, CInv, World
    PROVE  CInv'
<1> USE DEF CInv
<1>a. /\ plugged \subseteq Names /\ inside \in [Names -> Nat] /\ list \subseteq Alive
  BY DEF TypeOK, Alive
<1>b. UNCHANGED <<array, thread, states, library, told, user, last, crashed>>
  BY DEF World
<1>1. PICK n \in Names : MoveCard(n) \/ Plug(n) \/ Unplug(n)
  BY DEF World
<1>2. /\ inside' \in [Names -> Nat] /\ \A m \in Names : inside'[m] >= inside[m]
      /\ plugged' \subseteq Names /\ UNCHANGED <<listed, failures>>
  <2>1. CASE MoveCard(n)
    BY <2>1, <1>a, MoveIs
  <2>2. CASE Plug(n)
    BY <2>2, <1>a DEF Plug
  <2>3. CASE Unplug(n)
    <3>1. inside[n] % 2 \in Nat
      BY <1>a
    <3> QED BY <2>3, <3>1, <1>a DEF Unplug
  <2> QED BY <1>1, <2>1, <2>2, <2>3
<1>3. TypeOK'
  BY <1>2, <1>b DEF TypeOK, array, library, told
<1>4. Alive' = Alive
  BY <1>b DEF Alive, library, told
<1>5. Kept'
  <2>1. ASSUME NEW p \in 0 .. count - 1
        PROVE  record[p].state <= inside'[reader[Owner(p)].name]
    <3>1. record[p].state <= inside[reader[Owner(p)].name] /\ reader[Owner(p)].name \in Names
          /\ record[p].state \in Int
      BY OwnerIs DEF Kept, VReader, RecordType
    <3> QED BY <3>1, <1>2, <1>a
  <2> QED BY <2>1, <1>b, <1>4 DEF Kept, Owner, array, library, told
<1>6. Regime'
  <2>1. CASE MoveCard(n)
    BY <2>1, <1>b, <1>2, <1>4, MoveIs DEF Regime, array, library
  <2>2. CASE Plug(n)
    <3>1. CASE plugged = {}
      <4>1. count = 0
        <5>1. plugged \cap listed = {} /\ Cardinality({}) = 0
          BY <3>1, FS_EmptySet
        <5> QED BY <2>2, <5>1 DEF Plug
      <4>2. Alive = {}
        BY <4>1 DEF Kept
      <4> QED BY <4>1, <4>2, <1>4, <1>b, <1>a DEF Regime, array, library
    <3>2. CASE plugged # {}
      BY <2>2, <3>2, <1>b, <1>4 DEF Regime, Plug, array, library
    <3> QED BY <3>1, <3>2
  <2>3. CASE Unplug(n)
    <3>1. plugged = {n} /\ plugged' = {} /\ UNCHANGED listed
      BY <2>3 DEF Unplug
    <3>2. \A v \in Alive : v \in list /\ reader[v].name = n
      BY <3>1 DEF Regime
    <3>3. count <= 1
      <4>1. SUFFICES ASSUME 0 \in 0 .. count - 1, 1 \in 0 .. count - 1 PROVE FALSE
        BY DEF TypeOK
      <4>2. Owner(0) \in Alive /\ Owner(1) \in Alive
        BY <4>1 DEF Kept
      <4>3. Owner(0) = Owner(1)
        BY <4>2, <3>2 DEF Regime
      <4> QED BY <4>1, <4>3, OwnerIs
    <3> QED BY <3>1, <3>2, <3>3, <1>4, <1>b DEF Regime, array, library
  <2> QED BY <1>1, <2>1, <2>2, <2>3
<1>7. Told'
  <2>1. Aligned' = Aligned /\ Stale' = Stale
    BY <1>b, <1>2 DEF Aligned, Stale, Owner, array
  <2>2. ASSUME thread.at = "process", NEW k \in 1 .. count, states[k].event # Unaware
        PROVE  states[k].event \in 0 .. inside'[reader[states[k].name].name]
    <3>1. /\ states[k].event \in 0 .. inside[reader[states[k].name].name]
          /\ states[k].name = Owner(k - 1) /\ k - 1 \in 0 .. count - 1
      BY <2>2 DEF Told, Aligned, TypeOK
    <3>2. reader[states[k].name].name \in Names
      BY <3>1, OwnerIs DEF VReader
    <3> QED BY <3>1, <3>2, <1>2, <1>a
  <2> QED BY <2>1, <2>2, <1>b, <1>2 DEF Told, array, library
<1>8. CardReady'
  <2> SUFFICES ASSUME NEW v \in list, reader[v].name \in plugged',
                      record[reader[v].place].state = inside'[reader[v].name]
               PROVE  /\ reader[v].name \in plugged
                      /\ inside'[reader[v].name] = inside[reader[v].name]
                      /\ Present(reader[v].name)' <=> Present(reader[v].name)
    BY <1>b DEF CardReady, array, library
  <2> DEFINE m == reader[v].name
             r == record[reader[v].place]
  <2>1. m \in Names /\ r.state <= inside[m] /\ v \in Alive
    BY ListIs
  <2>2. inside'[m] = inside[m]
    BY <2>1, <1>2, <1>a
  <2>3. m \in plugged
    <3>1. CASE MoveCard(n) \/ Unplug(n)
      BY <3>1, MoveIs DEF Unplug
    <3>2. CASE Plug(n)
      <4>1. plugged # {}
        <5>1. SUFFICES ASSUME plugged = {} PROVE FALSE
          OBVIOUS
        <5>2. plugged \cap listed = {} /\ Cardinality({}) = 0
          BY <5>1, FS_EmptySet
        <5>3. count = 0
          BY <3>2, <5>2 DEF Plug
        <5> QED BY <5>3, <2>1 DEF Kept
      <4> QED BY <4>1 DEF Regime
    <3> QED BY <3>1, <3>2, <1>1
  <2>4. plugged' \cap {m} = {m} /\ UNCHANGED reader
    BY <1>b DEF library
  <2> QED BY <2>2, <2>3, <2>4 DEF Present
<1> QED BY <1>3, <1>5, <1>6, <1>7, <1>8

-----------------------------------------------------------------------------
(* The event thread: scan_for_readers                                      *)

(* What new_reader fills a record with                                     *)
LEMMA FreshIs ==
    ASSUME NEW n \in Nat, NEW p \in Nat
    PROVE  LET r == [Blank EXCEPT !.name = n, !.index = p]
           IN  /\ r \in RecordType
               /\ r.name = n /\ r.index = p /\ r.state = Unaware /\ r.handle = NoHandle
<1> DEFINE s == [Blank EXCEPT !.name = n]
<1>1. Blank \in RecordType /\ Blank.state = Unaware /\ Blank.handle = NoHandle
  BY DEF Blank, RecordType, Handle, NoHandle, Unaware
<1>2. s \in RecordType /\ s.name = n /\ s.state = Unaware /\ s.handle = NoHandle
  BY <1>1 DEF RecordType
<1> HIDE DEF s
<1>3. /\ [s EXCEPT !.index = p] \in RecordType
      /\ [s EXCEPT !.index = p].name = n /\ [s EXCEPT !.index = p].index = p
      /\ [s EXCEPT !.index = p].state = Unaware /\ [s EXCEPT !.index = p].handle = NoHandle
  BY <1>2 DEF RecordType
<1> QED BY <1>3 DEF s

(* new_readers puts the records after those there are and the VReaders at  *)
(* the end of the list, with an event for each.                            *)
LEMMA NewIs ==
    ASSUME TypeOK, NEW new \in Seq(Names), new_readers(new), count + Len(new) <= MaxReaders - 1
    PROVE  /\ record' \in [0 .. MaxReaders - 1 -> RecordType]
           /\ \A p \in 0 .. count - 1 : record'[p] = record[p]
           /\ \A p \in count .. count + Len(new) - 1 :
                 /\ record'[p].name = Len(reader) + p - count + 1 /\ record'[p].index = p
                 /\ record'[p].state = Unaware /\ record'[p].handle = NoHandle
           /\ count' = count + Len(new) /\ count' \in 0 .. MaxReaders - 1
           /\ reader' \in Seq(VReader) /\ Len(reader') = Len(reader) + Len(new)
           /\ \A v \in 1 .. Len(reader) : reader'[v] = reader[v]
           /\ \A k \in 1 .. Len(new) :
                 reader'[Len(reader) + k] = [name |-> new[k], place |-> count + k - 1, card |-> NoCard]
           /\ list' = list \cup (Len(reader) + 1) .. (Len(reader) + Len(new))
           /\ queue' \in Seq(EventType)
           /\ {queue'[k].reader : k \in DOMAIN queue'} =
                 {queue[k].reader : k \in DOMAIN queue}
                 \cup (Len(reader) + 1) .. (Len(reader) + Len(new))
<1> DEFINE more == [k \in DOMAIN new |-> [name |-> new[k], place |-> count + k - 1, card |-> NoCard]]
           says == [k \in DOMAIN new |-> [type |-> "READER_INSERT", reader |-> Len(reader) + k, card |-> 0]]
<1>1. /\ DOMAIN new = 1 .. Len(new) /\ Len(new) \in Nat /\ \A k \in 1 .. Len(new) : new[k] \in Names
      /\ count \in Nat /\ MaxReaders \in Nat /\ reader \in Seq(VReader) /\ Len(reader) \in Nat
      /\ queue \in Seq(EventType) /\ Len(queue) \in Nat
      /\ record \in [0 .. MaxReaders - 1 -> RecordType]
  BY NamesAssumption DEF TypeOK
<1>2. /\ more \in Seq(VReader) /\ Len(more) = Len(new) /\ DOMAIN more = 1 .. Len(new)
      /\ \A k \in 1 .. Len(new) :
            more[k] = [name |-> new[k], place |-> count + k - 1, card |-> NoCard]
  <2>1. \A k \in 1 .. Len(new) :
           [name |-> new[k], place |-> count + k - 1, card |-> NoCard] \in VReader
    BY <1>1 DEF VReader, Card, NoCard
  <2> QED BY <2>1, <1>1
<1>3. /\ says \in Seq(EventType) /\ Len(says) = Len(new)
      /\ \A k \in 1 .. Len(new) : says[k].reader = Len(reader) + k
  <2>1. \A k \in 1 .. Len(new) :
           [type |-> "READER_INSERT", reader |-> Len(reader) + k, card |-> 0] \in EventType
    BY <1>1 DEF EventType
  <2> QED BY <2>1, <1>1
<1>4. /\ record' = [p \in DOMAIN record |->
            IF p \in count..(count + Len(new) - 1)
            THEN [Blank EXCEPT !.name = Len(reader) + p - count + 1, !.index = p]
            ELSE record[p]]
  BY DEF new_readers
<1>c. /\ count' = count + Len(new) /\ reader' = reader \o more
      /\ list' = list \cup (Len(reader) + 1) .. (Len(reader) + Len(new))
      /\ queue' = queue \o says
  BY DEF new_readers
<1> HIDE DEF more, says
<1> DEFINE fresh(p) == [Blank EXCEPT !.name = Len(reader) + p - count + 1, !.index = p]
<1>5. ASSUME NEW p \in count .. count + Len(new) - 1
      PROVE  /\ p \in 0 .. MaxReaders - 1 /\ p \in DOMAIN record
             /\ record'[p] = fresh(p) /\ fresh(p) \in RecordType
             /\ fresh(p).name = Len(reader) + p - count + 1 /\ fresh(p).index = p
             /\ fresh(p).state = Unaware /\ fresh(p).handle = NoHandle
  <2>1. p \in 0 .. MaxReaders - 1 /\ p \in Int
    BY <1>1
  <2>2. p \in DOMAIN record /\ record'[p] = fresh(p)
    BY <2>1, <1>1, <1>4
  <2>3. Len(reader) + p - count + 1 \in Nat /\ p \in Nat
    BY <1>1, <2>1
  <2>4. /\ fresh(p) \in RecordType
        /\ fresh(p).name = Len(reader) + p - count + 1 /\ fresh(p).index = p
        /\ fresh(p).state = Unaware /\ fresh(p).handle = NoHandle
    <3> DEFINE m == Len(reader) + p - count + 1
               r == [Blank EXCEPT !.name = m, !.index = p]
    <3>1. fresh(p) = r /\ m = Len(reader) + p - count + 1
      OBVIOUS
    <3>2. m \in Nat /\ p \in Nat
      BY <2>3
    <3> HIDE DEF m, fresh
    <3>3. /\ r \in RecordType /\ r.name = m /\ r.index = p
          /\ r.state = Unaware /\ r.handle = NoHandle
      BY <3>2, FreshIs, Zenon
    <3> HIDE DEF r
    <3> QED BY <3>1, <3>3
  <2> HIDE DEF fresh
  <2> QED BY <2>1, <2>2, <2>4
<1>6. /\ record' \in [0 .. MaxReaders - 1 -> RecordType]
      /\ \A p \in 0 .. count - 1 : record'[p] = record[p]
  <2> HIDE DEF fresh
  <2>1. ASSUME NEW p \in DOMAIN record
        PROVE  record'[p] \in RecordType /\ (p \notin count .. count + Len(new) - 1 => record'[p] = record[p])
    <3>1. CASE p \in count .. count + Len(new) - 1
      BY <3>1, <1>5
    <3>2. CASE p \notin count .. count + Len(new) - 1
      BY <3>2, <1>1, <1>4
    <3> QED BY <3>1, <3>2
  <2>2. DOMAIN record' = 0 .. MaxReaders - 1 /\ record' = [p \in DOMAIN record' |-> record'[p]]
    BY <1>1, <1>4
  <2>3. record' \in [0 .. MaxReaders - 1 -> RecordType]
    BY <2>1, <2>2, <1>1
  <2>4. \A p \in 0 .. count - 1 : p \in DOMAIN record /\ p \notin count .. count + Len(new) - 1
    BY <1>1
  <2> QED BY <2>1, <2>3, <2>4
<1>7. \A p \in count .. count + Len(new) - 1 :
                 /\ record'[p].name = Len(reader) + p - count + 1 /\ record'[p].index = p
                 /\ record'[p].state = Unaware /\ record'[p].handle = NoHandle
  BY <1>5
<1>8. /\ reader' \in Seq(VReader) /\ Len(reader') = Len(reader) + Len(new)
      /\ \A v \in 1 .. Len(reader) : reader'[v] = reader[v]
      /\ \A k \in 1 .. Len(new) : reader'[Len(reader) + k] = more[k]
  <2>1. /\ reader \o more \in Seq(VReader) /\ Len(reader \o more) = Len(reader) + Len(more)
        /\ \A v \in 1 .. Len(reader) : (reader \o more)[v] = reader[v]
        /\ \A k \in 1 .. Len(more) : (reader \o more)[Len(reader) + k] = more[k]
    <3>1. reader \in Seq(VReader) /\ more \in Seq(VReader)
      BY <1>1, <1>2
    <3> QED BY <3>1, ConcatIs
  <2> QED BY <2>1, <1>2, <1>c
<1>9. /\ queue' \in Seq(EventType) /\ DOMAIN queue' = 1 .. Len(queue) + Len(new)
      /\ DOMAIN queue = 1 .. Len(queue)
      /\ \A k \in 1 .. Len(queue) : queue'[k] = queue[k]
      /\ \A k \in 1 .. Len(new) : queue'[Len(queue) + k] = says[k]
  <2>1. /\ queue \o says \in Seq(EventType) /\ DOMAIN (queue \o says) = 1 .. Len(queue) + Len(says)
        /\ \A v \in 1 .. Len(queue) : (queue \o says)[v] = queue[v]
        /\ \A k \in 1 .. Len(says) : (queue \o says)[Len(queue) + k] = says[k]
    <3>1. queue \in Seq(EventType) /\ says \in Seq(EventType)
      BY <1>1, <1>3
    <3> QED BY <3>1, ConcatIs
  <2>2. Len(says) = Len(new) /\ DOMAIN queue = 1 .. Len(queue)
    BY <1>1, <1>3
  <2> QED BY <2>1, <2>2, <1>c
<1>10. {queue'[k].reader : k \in DOMAIN queue'} =
                 {queue[k].reader : k \in DOMAIN queue}
                 \cup (Len(reader) + 1) .. (Len(reader) + Len(new))
  <2>1. ASSUME NEW k \in DOMAIN queue'
        PROVE  queue'[k].reader \in {queue[j].reader : j \in DOMAIN queue}
                                   \cup (Len(reader) + 1) .. (Len(reader) + Len(new))
    <3>1. CASE k \in 1 .. Len(queue)
      BY <3>1, <1>9
    <3>2. CASE k \notin 1 .. Len(queue)
      <4>1. k - Len(queue) \in 1 .. Len(new)
        BY <3>2, <1>9, <1>1
      <4>2. queue'[k] = says[k - Len(queue)]
        BY <4>1, <1>9, <1>1
      <4> QED BY <4>1, <4>2, <1>3, <1>1
    <3> QED BY <3>1, <3>2
  <2>2. ASSUME NEW v \in (Len(reader) + 1) .. (Len(reader) + Len(new))
        PROVE  \E k \in DOMAIN queue' : queue'[k].reader = v
    <3>1. v - Len(reader) \in 1 .. Len(new) /\ Len(queue) + (v - Len(reader)) \in DOMAIN queue'
      BY <1>1, <1>9
    <3>2. queue'[Len(queue) + (v - Len(reader))] = says[v - Len(reader)]
      BY <3>1, <1>9
    <3>3. says[v - Len(reader)].reader = Len(reader) + (v - Len(reader))
      BY <3>1, <1>3
    <3> QED BY <3>1, <3>2, <3>3, <1>1
  <2>3. \A j \in DOMAIN queue : j \in DOMAIN queue' /\ queue'[j].reader = queue[j].reader
    BY <1>9, <1>1
  <2> QED BY <2>1, <2>2, <2>3
<1>11. count' \in 0 .. MaxReaders - 1
  BY <1>1, <1>c
<1>12. \A k \in 1 .. Len(new) :
          reader'[Len(reader) + k] = [name |-> new[k], place |-> count + k - 1, card |-> NoCard]
  BY <1>2, <1>8
<1> QED BY <1>c, <1>6, <1>7, <1>8, <1>9, <1>10, <1>11, <1>12

(* the places of the records whose name reads as n                         *)
Found(n) == {p \in 0 .. (count - 1) : n \in Reads(record[p].name)}

(* While a reader is plugged in, at most one record has a name, and its    *)
(* reader is in the list.                                                  *)
LEMMA FoundIs ==
    ASSUME TypeOK, Kept, Regime, plugged # {}
    PROVE  /\ \A p \in 0 .. count - 1 : Owner(p) \in list /\ Found(reader[Owner(p)].name) = {p}
           /\ \A n : Found(n) # {} => \E p \in 0 .. count - 1 : Found(n) = {p} /\ Min(Found(n)) = p
<1>1. ASSUME NEW p \in 0 .. count - 1
      PROVE  Owner(p) \in list /\ Reads(Owner(p)) = {reader[Owner(p)].name}
    <2>1. Owner(p) \in Alive
      BY DEF Kept
    <2> QED BY <2>1, OwnerIs DEF Regime
<1>2. ASSUME NEW p \in 0 .. count - 1, NEW q \in 0 .. count - 1,
             reader[Owner(p)].name = reader[Owner(q)].name
      PROVE  p = q
  <2>1. Owner(p) = Owner(q)
    BY <1>1, <1>2 DEF Regime
  <2> QED BY <2>1, OwnerIs
<1>3. ASSUME NEW p \in 0 .. count - 1 PROVE Found(reader[Owner(p)].name) = {p}
  <2>1. \A q \in 0 .. count - 1 : reader[Owner(p)].name \in Reads(record[q].name) <=> q = p
    BY <1>1, <1>2, <1>3 DEF Owner
  <2> QED BY <2>1 DEF Found
<1>4. ASSUME NEW n, Found(n) # {}
      PROVE  \E p \in 0 .. count - 1 : Found(n) = {p} /\ Min(Found(n)) = p
  <2>1. PICK p \in 0 .. count - 1 : n \in Reads(Owner(p))
    BY <1>4 DEF Found, Owner
  <2>2. n = reader[Owner(p)].name
    BY <2>1, <1>1
  <2>3. Found(n) = {p}
    BY <2>2, <1>3
  <2>4. p \in Int
    OBVIOUS
  <2> QED BY <2>3, <2>4, MinOne
<1> QED BY <1>1, <1>3, <1>4

(* No call to PC/SC fails.                                                 *)
LEMMA NoFailure ==
    ASSUME MaxFailures = 0, TypeOK, NEW f \in Fails
    PROVE  f = FALSE /\ (Failed(f) => failures' = failures)
BY DEF TypeOK, Fails, Failed

(* What scan_for_readers does before it leaves the lock: the new readers   *)
(* have names no record has, and the others are matches.                   *)
LEMMA ScanIs ==
    ASSUME MaxFailures = 0, TypeOK, Kept, Regime, Scan
    PROVE  /\ thread.at = "scan" /\ changed' /\ listed' = plugged /\ failures' = failures
           /\ UNCHANGED <<plugged, inside, plugs, freed, states, leaked, told, user, last, crashed>>
           /\ \E new \in Seq(Names) :
                 /\ new_readers(new) /\ count + Len(new) <= MaxReaders - 1
                 /\ \A i, j \in 1 .. Len(new) : new[i] = new[j] => i = j
                 /\ \A i \in 1 .. Len(new) : new[i] \in plugged /\ Found(new[i]) = {}
           /\ thread'.at = "drop" /\ thread'.place = count' - 1
           /\ thread' = [at |-> thread'.at, place |-> thread'.place, matches |-> thread'.matches]
           /\ thread'.matches \subseteq Nat
           /\ plugged # {} => 0 .. count' - 1 \subseteq thread'.matches
<1> DEFINE unknown == SetToSeq({n \in plugged : Found(n) = {}})
           new == SubSeq(unknown, 1, Min({MaxReaders - 1 - count, Len(unknown)}))
           old == {Min(Found(n)) : n \in {m \in plugged : Found(m) # {}}}
<1>a. /\ count \in 0 .. MaxReaders - 1 /\ MaxReaders \in Nat /\ plugged \subseteq Names
      /\ IsFiniteSet(Names)
  BY NamesAssumption DEF TypeOK
<1>1. /\ thread.at = "scan" /\ changed' /\ listed' = plugged /\ failures' = failures
      /\ UNCHANGED <<plugged, inside, plugs, freed, states, leaked, told, user, last, crashed>>
      /\ new_readers(new)
      /\ thread' = [at |-> "drop", place |-> count' - 1, matches |-> old \cup count .. (count' - 1)]
  <2>1. PICK fail \in Fails :
         LET here == IF fail THEN {} ELSE plugged
             Foun(n) == {p \in 0..(count - 1) : n \in Reads(record[p].name)}
             unkn == SetToSeq({n \in here : Foun(n) = {}})
             ne == SubSeq(unkn, 1, Min({MaxReaders - 1 - count, Len(unkn)}))
         IN  /\ new_readers(ne)
             /\ thread' = [at |-> "drop", place |-> LastPlace(count'),
                           matches |-> {Min(Foun(n)) : n \in {m \in here : Foun(m) # {}}}
                                       \cup count..(count' - 1)]
             /\ listed' = IF fail THEN listed ELSE plugged
             /\ Failed(fail)
    BY DEF Scan
  <2>2. fail = FALSE /\ failures' = failures
    BY <2>1, NoFailure
  <2>3. thread.at = "scan" /\ changed'
        /\ UNCHANGED <<plugged, inside, plugs, freed, states, leaked, told, user, last, crashed>>
    BY DEF Scan, At, ScanChanges
  <2> QED BY <2>1, <2>2, <2>3, Zenon DEF Found, LastPlace
<1>2. /\ new \in Seq(Names) /\ Len(new) <= MaxReaders - 1 - count
      /\ \A i, j \in 1 .. Len(new) : new[i] = new[j] => i = j
      /\ \A i \in 1 .. Len(new) : new[i] \in plugged /\ Found(new[i]) = {}
  <2> DEFINE S == {n \in plugged : Found(n) = {}}
             m == Min({MaxReaders - 1 - count, Len(unknown)})
  <2>1. IsFiniteSet(S)
    BY <1>a, FS_Subset
  <2> HIDE DEF S
  <2>2. /\ unknown \in Seq(S)
        /\ \A i, j \in 1 .. Len(unknown) : unknown[i] = unknown[j] => i = j
    BY <2>1, SetToSeqIs DEF S
  <2> HIDE DEF unknown
  <2>3. m \in Nat /\ m <= Len(unknown) /\ m <= MaxReaders - 1 - count
    <3> DEFINE x == MaxReaders - 1 - count
               y == Len(unknown)
    <3>1. x \in Nat /\ y \in Nat
      BY <2>2, <1>a
    <3> HIDE DEF x, y
    <3>2. Min({x, y}) \in {x, y} /\ Min({x, y}) <= x /\ Min({x, y}) <= y
      BY <3>1, MinTwo
    <3>3. Min({x, y}) \in Nat
      BY <3>1, <3>2
    <3> QED BY <3>2, <3>3 DEF x, y
  <2> HIDE DEF m
  <2>4. /\ SubSeq(unknown, 1, m) \in Seq(S) /\ Len(SubSeq(unknown, 1, m)) = m
        /\ \A i \in 1 .. m : SubSeq(unknown, 1, m)[i] = unknown[i] /\ i \in 1 .. Len(unknown)
    BY <2>2, <2>3
  <2>5. new = SubSeq(unknown, 1, m)
    BY DEF m
  <2> HIDE DEF new
  <2>6. \A i \in 1 .. m : unknown[i] \in S
    BY <2>2, <2>4
  <2>7. S \subseteq Names
    BY <1>a DEF S
  <2>8. new \in Seq(Names)
    BY <2>4, <2>5, <2>7
  <2> QED BY <2>2, <2>3, <2>4, <2>5, <2>6, <2>8 DEF S
<1>3. count + Len(new) <= MaxReaders - 1 /\ Len(new) \in Nat
  <2> HIDE DEF new
  <2> QED BY <1>2, <1>a
<1>4. count' = count + Len(new) /\ count' \in Nat
  <2>1. count' = count + Len(new)
    BY <1>1, Zenon DEF new_readers
  <2> HIDE DEF new, old
  <2> QED BY <2>1, <1>a, <1>3
<1> HIDE DEF new
<1>5. old \subseteq Nat /\ (plugged # {} => 0 .. count - 1 \subseteq old)
  <2>1. CASE plugged = {}
    BY <2>1
  <2>2. CASE plugged # {}
    <3>1. old \subseteq 0 .. count - 1
      BY <2>2, FoundIs
    <3>2. ASSUME NEW p \in 0 .. count - 1 PROVE p \in old
      <4>1. /\ Owner(p) \in list /\ Found(reader[Owner(p)].name) = {p}
            /\ reader[Owner(p)].name \in plugged /\ p \in Int
        BY <2>2, FoundIs, <1>a DEF Regime
      <4>2. Min(Found(reader[Owner(p)].name)) = p
        BY <4>1, MinOne
      <4> QED BY <4>1, <4>2
    <3> QED BY <3>1, <3>2, <1>a
  <2> QED BY <2>1, <2>2
<1> HIDE DEF old
<1>6. count .. count' - 1 \subseteq Nat /\ 0 .. count' - 1 \subseteq (0 .. count - 1) \cup (count .. count' - 1)
  BY <1>a, <1>4
<1> QED BY <1>1, <1>2, <1>3, <1>5, <1>6

(* new_readers adds records that nothing has freed, for VReaders numbered  *)
(* after those there were. A new record is at its reader's place.          *)
LEMMA ScanKept ==
    ASSUME TypeOK, Kept, NEW new \in Seq(Names), new_readers(new),
           count + Len(new) <= MaxReaders - 1,
           UNCHANGED <<inside, freed, leaked, taken, user, last>>
    PROVE  /\ Alive' = Alive \cup (Len(reader) + 1) .. (Len(reader) + Len(new))
           /\ \A k \in 1 .. Len(new) :
                 /\ reader'[Len(reader) + k].place = count + k - 1
                 /\ reader'[Len(reader) + k].name = new[k]
                 /\ record'[count + k - 1].state = Unaware
           /\ Kept'
<1> DEFINE N == (Len(reader) + 1) .. (Len(reader) + Len(new))
<1>1. /\ record' \in [0 .. MaxReaders - 1 -> RecordType]
      /\ \A p \in 0 .. count - 1 : record'[p] = record[p]
      /\ \A p \in count .. count + Len(new) - 1 :
            /\ record'[p].name = Len(reader) + p - count + 1 /\ record'[p].index = p
            /\ record'[p].state = Unaware /\ record'[p].handle = NoHandle
      /\ count' = count + Len(new)
      /\ Len(reader') = Len(reader) + Len(new)
      /\ \A v \in 1 .. Len(reader) : reader'[v] = reader[v]
      /\ \A k \in 1 .. Len(new) :
            reader'[Len(reader) + k] = [name |-> new[k], place |-> count + k - 1, card |-> NoCard]
      /\ list' = list \cup N /\ Readers(queue') = Readers(queue) \cup N
  BY NewIs, Zenon DEF Readers
<1>2. /\ Len(new) \in Nat /\ Len(reader) \in Nat /\ count \in Nat
      /\ inside \in [Names -> Nat] /\ \A k \in 1 .. Len(new) : new[k] \in Names
  BY DEF TypeOK
<1>3. Alive' = Alive \cup N
  BY <1>1, AliveIs
<1>4. Alive \subseteq 1 .. Len(reader) /\ freed \subseteq 1 .. Len(reader)
  BY DEF Kept
<1>5. ASSUME NEW k \in 1 .. Len(new)
      PROVE  /\ reader'[Len(reader) + k].place = count + k - 1
             /\ reader'[Len(reader) + k].name = new[k]
             /\ reader'[Len(reader) + k].card = NoCard
             /\ record'[count + k - 1].name = Len(reader) + k
             /\ record'[count + k - 1].index = count + k - 1
             /\ record'[count + k - 1].state = Unaware
             /\ record'[count + k - 1].handle.name = Nobody
             /\ Len(reader) + k \in N /\ Len(reader) + k \notin freed
             /\ count + k - 1 \in 0 .. count' - 1
             /\ new[k] \in Names /\ Unaware <= inside[new[k]]
  <2>1. /\ count + k - 1 \in count .. count + Len(new) - 1
        /\ Len(reader) + (count + k - 1) - count + 1 = Len(reader) + k
        /\ Len(reader) + k \in N /\ Len(reader) + k \notin 1 .. Len(reader)
        /\ count + k - 1 \in 0 .. (count + Len(new)) - 1
    BY <1>2
  <2>2. new[k] \in Names /\ inside[new[k]] \in Nat
    BY <1>2
  <2>3. Unaware <= inside[new[k]]
    BY <2>2 DEF Unaware
  <2>4. /\ reader'[Len(reader) + k] = [name |-> new[k], place |-> count + k - 1, card |-> NoCard]
        /\ record'[count + k - 1].handle = NoHandle
    BY <2>1, <1>1
  <2> HIDE DEF N
  <2> QED BY <2>1, <2>2, <2>3, <2>4, <1>1, <1>4 DEF NoHandle
<1>6. /\ \A v \in N : v - Len(reader) \in 1 .. Len(new) /\ Len(reader) + (v - Len(reader)) = v
      /\ \A p \in 0 .. (count + Len(new)) - 1 : p \in 0 .. count - 1 \/
            (p - count + 1 \in 1 .. Len(new) /\ count + (p - count + 1) - 1 = p)
      /\ 0 .. count - 1 \subseteq 0 .. (count + Len(new)) - 1
      /\ 1 .. Len(reader) \subseteq 1 .. Len(reader') /\ N \subseteq 1 .. Len(reader')
  <2> DEFINE a == Len(reader)
             b == Len(new)
             c == Len(reader')
  <2>1. a \in Nat /\ b \in Nat /\ c = a + b /\ count \in Nat /\ N = (a + 1) .. (a + b)
    BY <1>2, <1>1
  <2> HIDE DEF a, b, c, N
  <2>2. \A v \in N : v - a \in 1 .. b /\ a + (v - a) = v
    BY <2>1
  <2>3. \A p \in 0 .. (count + b) - 1 : p \in 0 .. count - 1 \/
            (p - count + 1 \in 1 .. b /\ count + (p - count + 1) - 1 = p)
    BY <2>1
  <2>4. 0 .. count - 1 \subseteq 0 .. (count + b) - 1 /\ 1 .. a \subseteq 1 .. c /\ N \subseteq 1 .. c
    BY <2>1
  <2> QED BY <2>2, <2>3, <2>4 DEF a, b, c
<1> HIDE DEF N
<1>7. ASSUME NEW p \in 0 .. count' - 1
      PROVE  /\ record'[p].name \in Alive' /\ record'[p].name \notin freed'
             /\ record'[p].index = p /\ reader'[record'[p].name].place = p
             /\ record'[p].handle.name \in {Nobody, reader'[record'[p].name].name}
             /\ record'[p].state <= inside'[reader'[record'[p].name].name]
  <2>1. CASE p \in 0 .. count - 1
    <3>1. record'[p] = record[p] /\ record[p].name \in Alive
      BY <2>1, <1>1 DEF Kept, Owner
    <3>2. reader'[record[p].name] = reader[record[p].name]
      BY <3>1, <1>1, <1>4
    <3> QED BY <2>1, <3>1, <3>2, <1>3 DEF Kept, Owner
  <2>2. CASE p - count + 1 \in 1 .. Len(new) /\ count + (p - count + 1) - 1 = p
    <3>1. PICK k \in 1 .. Len(new) : count + k - 1 = p
      BY <2>2
    <3> QED BY <3>1, <1>5, <1>3
  <2> QED BY <2>1, <2>2, <1>6, <1>1
<1>8. ASSUME NEW v \in Alive'
      PROVE  /\ reader'[v].place \in 0 .. count' - 1 /\ record'[reader'[v].place].name = v
             /\ reader'[v].card # NoCard => reader'[v].card.place = reader'[v].place
  <2>1. CASE v \in Alive
    <3>1. reader'[v] = reader[v] /\ reader[v].place \in 0 .. count - 1
      BY <2>1, <1>1, <1>4 DEF Kept
    <3> QED BY <2>1, <3>1, <1>1, <1>6 DEF Kept, Owner
  <2>2. CASE v \in N
    <3>1. PICK k \in 1 .. Len(new) : Len(reader) + k = v
      BY <2>2, <1>6
    <3> QED BY <3>1, <1>5
  <2> QED BY <2>1, <2>2, <1>3
<1>9. /\ \A k \in DOMAIN user' : user'[k].card.place = reader'[user'[k].reader].place
      /\ last'.reached \in {last'.sent, Nobody}
  <2>1. ASSUME NEW k \in DOMAIN user PROVE user[k].reader \in 1 .. Len(reader)
    BY <1>4 DEF Alive
  <2> QED BY <2>1, <1>1 DEF Kept
<1>10. Alive' \subseteq 1 .. Len(reader') /\ freed' \subseteq 1 .. Len(reader')
  BY <1>3, <1>4, <1>6
<1>11. Kept'
  BY <1>7, <1>8, <1>9, <1>10 DEF Kept, Owner
<1> QED BY <1>3, <1>5, <1>11 DEF N

(* The scan keeps the invariant: the names of the new readers differ from  *)
(* each other and from those of the records, so the list still has one     *)
(* VReader for a name.                                                     *)
LEMMA ScanStep ==
    ASSUME MaxFailures = 0, CInv, Scan
    PROVE  CInv'
<1> USE DEF CInv
<1>1. /\ thread.at = "scan" /\ changed' /\ listed' = plugged /\ failures' = failures
      /\ UNCHANGED <<plugged, inside, plugs, freed, states, leaked, told, user, last, crashed>>
      /\ thread'.at = "drop" /\ thread'.place = count' - 1
      /\ thread' = [at |-> thread'.at, place |-> thread'.place, matches |-> thread'.matches]
      /\ thread'.matches \subseteq Nat
      /\ plugged # {} => 0 .. count' - 1 \subseteq thread'.matches
  BY ScanIs, Zenon
<1>2. PICK new \in Seq(Names) :
         /\ new_readers(new) /\ count + Len(new) <= MaxReaders - 1
         /\ \A i, j \in 1 .. Len(new) : new[i] = new[j] => i = j
         /\ \A i \in 1 .. Len(new) : new[i] \in plugged /\ Found(new[i]) = {}
  BY ScanIs, Zenon
<1> DEFINE N == (Len(reader) + 1) .. (Len(reader) + Len(new))
<1>3. /\ Alive' = Alive \cup N
      /\ \A k \in 1 .. Len(new) :
            /\ reader'[Len(reader) + k].place = count + k - 1
            /\ reader'[Len(reader) + k].name = new[k]
            /\ record'[count + k - 1].state = Unaware
      /\ Kept'
  BY <1>1, <1>2, ScanKept DEF told
<1>4. /\ record' \in [0 .. MaxReaders - 1 -> RecordType]
      /\ \A p \in 0 .. count - 1 : record'[p] = record[p]
      /\ count' = count + Len(new) /\ count' \in 0 .. MaxReaders - 1
      /\ reader' \in Seq(VReader)
      /\ \A v \in 1 .. Len(reader) : reader'[v] = reader[v]
      /\ list' = list \cup N /\ queue' \in Seq(EventType)
  BY <1>2, NewIs, Zenon
<1>5. /\ Len(new) \in Nat /\ Len(reader) \in Nat /\ count \in Nat /\ MaxReaders \in Nat
      /\ inside \in [Names -> Nat] /\ \A k \in 1 .. Len(new) : new[k] \in Names
      /\ plugged \subseteq Names
  BY NamesAssumption DEF TypeOK
<1>6. \A v \in N : \E k \in 1 .. Len(new) : v = Len(reader) + k
  <2>1. \A v \in N : v - Len(reader) \in 1 .. Len(new) /\ v = Len(reader) + (v - Len(reader))
    BY <1>5
  <2> HIDE DEF N
  <2> QED BY <2>1
<1> HIDE DEF N
<1>7. \A v \in list : /\ reader'[v] = reader[v] /\ record'[reader[v].place] = record[reader[v].place]
  BY ListIs, <1>4
<1>8. TypeOK'
  <2>1. thread' \in [at : Steps, place : Int, matches : SUBSET Nat]
    <3>1. count' - 1 \in Int
      BY <1>4, <1>5
    <3> QED BY <3>1, <1>1 DEF Steps
  <2>2. changed' \in BOOLEAN
    BY <1>1, <1>2 DEF Scan, ScanChanges
  <2> QED BY <2>1, <2>2, <1>1, <1>4 DEF TypeOK, told
<1>9. plugged = {} => Len(new) = 0 /\ count' <= 1
  <2>1. ASSUME plugged = {} PROVE Len(new) = 0
    BY <2>1, <1>2, <1>5
  <2> QED BY <2>1, <1>4, <1>5 DEF Regime
<1>10. Regime'
  <2>1. ASSUME NEW v \in list, NEW k \in 1 .. Len(new) PROVE reader[v].name # new[k]
    <3>1. new[k] \in plugged /\ Found(new[k]) = {}
      BY <1>2
    <3>2. reader[v].place \in 0 .. count - 1 /\ Owner(reader[v].place) = v
      BY ListIs
    <3> QED BY <3>1, <3>2, FoundIs
  <2>2. ASSUME NEW v \in list', NEW w \in list', reader'[v].name = reader'[w].name
        PROVE  v = w
    <3>1. CASE v \in list /\ w \in list
      BY <2>2, <3>1, <1>7 DEF Regime
    <3>2. CASE v \in list /\ w \in N
      BY <2>1, <2>2, <3>2, <1>3, <1>6, <1>7
    <3>3. CASE v \in N /\ w \in list
      BY <2>1, <2>2, <3>3, <1>3, <1>6, <1>7
    <3>4. CASE v \in N /\ w \in N
      <4>1. PICK i \in 1 .. Len(new), j \in 1 .. Len(new) :
                    v = Len(reader) + i /\ w = Len(reader) + j
        BY <3>4, <1>6
      <4>2. new[i] = new[j]
        BY <4>1, <2>2, <1>3
      <4> QED BY <4>1, <4>2, <1>2
    <3> QED BY <3>1, <3>2, <3>3, <3>4, <1>4
  <2>3. ASSUME plugged # {}, NEW v \in list' PROVE reader'[v].name \in plugged
    <3>1. CASE v \in list
      BY <2>3, <3>1, <1>7 DEF Regime
    <3>2. CASE v \in N
      BY <3>2, <1>2, <1>3, <1>6
    <3> QED BY <3>1, <3>2, <1>4
  <2>4. plugged # {} => Alive' \subseteq list'
    BY <1>3, <1>4 DEF Regime
  <2> QED BY <2>2, <2>3, <2>4, <1>1, <1>9 DEF Regime
<1>11. Told'
  <2>1. \A p \in 0 .. thread'.place : p \notin thread'.matches => p = 0 /\ listed' = {}
    <3>1. CASE plugged # {}
      BY <3>1, <1>1
    <3>2. CASE plugged = {}
      <4>1. \A p \in 0 .. count' - 1 : p = 0
        BY <3>2, <1>9, <1>4
      <4> QED BY <3>2, <4>1, <1>1
    <3> QED BY <3>1, <3>2
  <2>2. thread'.place < MaxReaders
    BY <1>1, <1>4, <1>5
  <2> QED BY <2>1, <2>2, <1>1 DEF Told
<1>12. CardReady'
  <2>1. ASSUME NEW v \in list',
               reader'[v].name \in plugged, record'[reader'[v].place].state = inside[reader'[v].name]
        PROVE  v \in list
    <3>1. ASSUME NEW k \in 1 .. Len(new), v = Len(reader) + k PROVE FALSE
      <4>1. inside[new[k]] = Unaware
        BY <2>1, <3>1, <1>3
      <4>2. inside[new[k]] \in Nat
        BY <1>5
      <4> QED BY <4>1, <4>2 DEF Unaware
    <3> QED BY <3>1, <1>4, <1>6
  <2>2. UNCHANGED <<plugged, inside>>
    BY <1>1
  <2>3. ASSUME NEW v \in list',
               reader'[v].name \in plugged, record'[reader'[v].place].state = inside[reader'[v].name]
        PROVE  IF Present(reader'[v].name)
               THEN /\ reader'[v].card.made = inside[reader'[v].name]
                    /\ record'[reader'[v].place].connected
                    /\ record'[reader'[v].place].handle =
                          [name |-> reader'[v].name, made |-> inside[reader'[v].name]]
               ELSE reader'[v].card = NoCard
    <3>1. v \in list
      BY <2>1, <2>3
    <3> QED BY <3>1, <2>3, <1>7 DEF CardReady
  <2> QED BY <2>2, <2>3, Zenon DEF CardReady, Present
<1> QED BY <1>3, <1>8, <1>10, <1>11, <1>12

(* The loop after the lock is left: a record has no match when no reader   *)
(* was listed, and it is the sole one then, so that the list is emptied.   *)
LEMMA DropStep ==
    ASSUME CInv, Drop
    PROVE  CInv'
<1> USE DEF CInv
<1> DEFINE p == thread.place
<1>1. /\ thread.at = "drop" /\ changed /\ p \in Int
      /\ UNCHANGED <<env, array, states, reader, leaked, told, user, last>>
      /\ \A q \in 0 .. p : q \notin thread.matches => q = 0 /\ listed = {}
      /\ p < MaxReaders /\ MaxReaders \in Nat
      /\ thread \in [at : Steps, place : Int, matches : SUBSET Nat]
  BY NamesAssumption DEF Drop, At, TypeOK, Told
<1>2. \/ p < 0 /\ thread' = Rest("prepare") /\ UNCHANGED <<list, queue, crashed>>
      \/ /\ p >= 0 /\ thread' = [thread EXCEPT !.place = p - 1]
         /\ UNCHANGED <<list, queue, crashed>>
      \/ /\ p >= 0 /\ p \notin thread.matches /\ thread' = [thread EXCEPT !.place = p - 1]
         /\ crashed' = (record[p].name = 0 /\ list # {})
         /\ \/ \E v \in list : list' = list \ {v} /\ queue' = Append(queue, Event("READER_REMOVE", v))
            \/ UNCHANGED <<list, queue>>
  <2>1. CASE p < 0
    <3>1. ~ (p >= 0)
      BY <2>1, <1>1
    <3>2. thread' = Rest("prepare") /\ UNCHANGED <<list, queue, crashed>>
      BY <2>1, <3>1, Zenon DEF Drop
    <3> QED BY <2>1, <3>2
  <2>2. CASE p >= 0 /\ p \in thread.matches
    BY <2>2, <1>1 DEF Drop
  <2>3. CASE p >= 0 /\ p \notin thread.matches
    BY <2>3, <1>1 DEF Drop, Named
  <2> QED BY <2>1, <2>2, <2>3, <1>1
<1> HIDE DEF p
<1>3. /\ thread' \in [at : Steps, place : Int, matches : SUBSET Nat]
      /\ thread'.at \in {"drop", "prepare"}
      /\ thread'.at = "drop" => thread'.place = p - 1 /\ thread'.matches = thread.matches /\ p >= 0
  <2>1. CASE thread' = Rest("prepare")
    BY <2>1, RestIs DEF Steps
  <2>2. CASE thread' = [thread EXCEPT !.place = p - 1] /\ p >= 0
    BY <2>2, <1>1
  <2> QED BY <1>2, <2>1, <2>2
<1>4. Told'
  <2>1. thread'.at = "drop" => thread'.place < MaxReaders /\
           \A q \in 0 .. thread'.place : q \notin thread'.matches => q = 0 /\ listed = {}
    BY <1>3, <1>1
  <2> QED BY <2>1, <1>1, <1>3 DEF Told, array, env
<1>5. p >= 0 /\ p \notin thread.matches =>
         /\ p = 0 /\ listed = {}
         /\ list # {} => plugged = {} /\ record[p].name # 0
  <2> SUFFICES ASSUME p >= 0, p \notin thread.matches
               PROVE  /\ p = 0 /\ listed = {}
                      /\ list # {} => plugged = {} /\ record[p].name # 0
    OBVIOUS
  <2>1. p = 0 /\ listed = {}
    BY <1>1
  <2>2. ASSUME list # {} PROVE plugged = {} /\ record[p].name # 0
    <3>1. PICK v \in list : TRUE
      BY <2>2
    <3>2. plugged = {}
      BY <3>1, <2>1 DEF Regime
    <3>3. reader[v].place \in 0 .. count - 1
      BY <3>1, ListIs
    <3>4. 0 \in 0 .. count - 1
      BY <3>3 DEF TypeOK
    <3> QED BY <3>2, <3>4, <2>1, OwnerIs DEF Owner
  <2> QED BY <2>1, <2>2
<1>6. crashed' = FALSE
  <2>1. crashed = FALSE
    BY DEF TypeOK
  <2> QED BY <2>1, <1>2, <1>5
<1>7. CASE UNCHANGED <<list, queue>>
  <2>1. TypeOK'
    BY <1>7, <1>1, <1>3, <1>6 DEF TypeOK, env, array, told
  <2>2. Alive' = Alive
    BY <1>7, <1>1 DEF Alive, told
  <2>3. Kept' /\ Regime' /\ CardReady'
    BY <1>7, <2>2, <1>1 DEF Kept, Owner, Regime, CardReady, Present, env, array
  <2> QED BY <2>1, <2>3, <1>4
<1>8. ASSUME NEW v \in list, p >= 0, p \notin thread.matches,
             list' = list \ {v}, queue' = Append(queue, Event("READER_REMOVE", v))
      PROVE  CInv'
  <2>1. plugged = {} /\ listed = {}
    BY <1>8, <1>5
  <2> DEFINE e == Event("READER_REMOVE", v)
  <2>2. e \in EventType /\ e.reader = v
    <3>1. v \in Nat /\ reader[v].card \in Card
      BY ListIs DEF VReader
    <3> QED BY <3>1 DEF Event, EventType, Card
  <2> HIDE DEF e
  <2>3. queue' = Append(queue, e) /\ queue \in Seq(EventType)
    BY <1>8 DEF e, TypeOK
  <2>4. queue' \in Seq(EventType) /\ Readers(queue') = Readers(queue) \cup {v}
    BY <2>2, <2>3, AppendIs, AppendReaders
  <2>5. TypeOK'
    BY <2>4, <1>1, <1>3, <1>6 DEF TypeOK, env, array, told
  <2>6. Alive' = Alive
    BY <2>4, <1>8, <1>1, AliveIs DEF told
  <2>7. Kept' /\ CardReady'
    BY <2>6, <1>8, <1>1 DEF Kept, Owner, CardReady, Present, env, array
  <2>8. Regime'
    BY <2>1, <2>6, <1>8, <1>1 DEF Regime, env, array
  <2> QED BY <2>5, <2>7, <2>8, <1>4
<1> QED BY <1>2, <1>7, <1>8

-----------------------------------------------------------------------------
(* The event thread: prepare_reader_states, the wait and the changes       *)

(* After prepare_reader_states the entries are those of the records,       *)
(* unless nothing was changed, and then they were or there is nothing to   *)
(* wait for.                                                               *)
LEMMA PrepareStep ==
    ASSUME CInv, Prepare
    PROVE  CInv'
<1> USE DEF CInv
<1>1. /\ thread'.at = "wait" /\ thread' = Rest("wait") /\ changed' = FALSE /\ thread.at = "prepare"
      /\ states' = IF changed THEN [k \in 1..count |-> [name |-> record[k - 1].name,
                                           state |-> record[k - 1].state, event |-> Unaware]]
                 ELSE states
      /\ UNCHANGED <<env, record, count, freed, library, told, user, last, crashed>>
  BY DEF Prepare, Rest, At
<1>2. states' \in Seq(Entry) /\ (changed => Aligned')
  <2>1. CASE changed
    <3> DEFINE e(k) == [name |-> record[k - 1].name, state |-> record[k - 1].state, event |-> Unaware]
    <3>1. \A k \in 1 .. count : e(k) \in Entry /\ e(k).name = record[k - 1].name
      <4>1. \A k \in 1 .. count : record[k - 1] \in RecordType
        BY NamesAssumption DEF TypeOK
      <4> QED BY <4>1 DEF RecordType, Entry, Unaware
    <3>2. states' = [k \in 1 .. count |-> e(k)]
      BY <1>1, <2>1
    <3> HIDE DEF e
    <3>3. count \in Nat
      BY DEF TypeOK
    <3>4. states' \in Seq(Entry) /\ Len(states') = count
      BY <3>1, <3>2, <3>3
    <3> QED BY <3>1, <3>2, <3>4, <1>1 DEF Aligned, Owner
  <2>2. CASE ~changed
    BY <2>2, <1>1 DEF TypeOK
  <2> QED BY <2>1, <2>2
<1>3. TypeOK'
  <2>1. thread' \in [at : Steps, place : Int, matches : SUBSET Nat]
    BY <1>1, RestIs DEF Steps
  <2> QED BY <2>1, <1>1, <1>2 DEF TypeOK, env, library, told
<1>4. Alive' = Alive
  BY <1>1 DEF Alive, library, told
<1>5. Kept' /\ Regime' /\ CardReady'
  BY <1>1, <1>4 DEF Kept, Owner, Regime, CardReady, Present, env, library, told
<1>6. Told'
  <2>1. ~changed => Aligned' = Aligned /\ Stale' = Stale
    BY <1>1 DEF Aligned, Stale, Owner, env
  <2>2. Aligned' \/ Stale'
    BY <2>1, <1>1, <1>2 DEF Told
  <2> QED BY <1>1, <2>2 DEF Told
<1> QED BY <1>3, <1>5, <1>6

(* SCardGetStatusChange tells the states of the readers now, which no      *)
(* later card is behind.                                                   *)
LEMMA WaitStep ==
    ASSUME CInv, Wait
    PROVE  CInv'
<1> USE DEF CInv
<1>1. /\ thread.at = "wait" /\ UNCHANGED <<env, array, library, told, user, last, crashed>>
  BY DEF Wait, At
<1>2. PICK names \in [DOMAIN states -> Names \cup {Nobody}] :
         /\ \A k \in DOMAIN states : names[k] \in Reads(states[k].name)
         /\ \/ thread' = Rest("scan") /\ states' = <<>>
            \/ /\ \A k \in DOMAIN states : names[k] \in plugged
               /\ listed = plugged
               /\ \E k \in DOMAIN states : states[k].state # inside[names[k]]
               /\ states' = [k \in DOMAIN states |->
                     [states[k] EXCEPT !.event = IF inside[names[k]] # states[k].state
                                                 THEN inside[names[k]] ELSE Unaware]]
               /\ thread' = [thread EXCEPT !.at = "process", !.place = 0]
  BY DEF Wait
<1>3. Alive' = Alive
  BY <1>1 DEF Alive, library, told
<1>4. Kept' /\ Regime' /\ CardReady'
  BY <1>1, <1>3 DEF Kept, Owner, Regime, CardReady, Present, env, array, library, told
<1>5. CASE thread' = Rest("scan") /\ states' = <<>>
  <2>1. TypeOK'
    BY <1>5, <1>1 DEF TypeOK, env, array, library, told, Rest, Steps
  <2> QED BY <2>1, <1>4, <1>5 DEF Told, Rest
<1>6. CASE /\ \A k \in DOMAIN states : names[k] \in plugged
           /\ listed = plugged
           /\ \E k \in DOMAIN states : states[k].state # inside[names[k]]
           /\ states' = [k \in DOMAIN states |->
                     [states[k] EXCEPT !.event = IF inside[names[k]] # states[k].state
                                                 THEN inside[names[k]] ELSE Unaware]]
           /\ thread' = [thread EXCEPT !.at = "process", !.place = 0]
  <2> DEFINE e(k) == IF inside[names[k]] # states[k].state THEN inside[names[k]] ELSE Unaware
             s(k) == [states[k] EXCEPT !.event = e(k)]
  <2>1. /\ DOMAIN states = 1 .. Len(states) /\ Len(states) \in Nat
        /\ \A k \in 1 .. Len(states) : states[k] \in Entry
        /\ inside \in [Names -> Nat] /\ plugged \subseteq Names /\ count \in Nat
    BY DEF TypeOK
  <2>2. Aligned
    BY <1>1, <1>6, <2>1 DEF Told, Stale
  <2>3. ASSUME NEW k \in 1 .. Len(states)
        PROVE  /\ e(k) \in Int /\ s(k) \in Entry /\ s(k).name = states[k].name /\ s(k).event = e(k)
               /\ e(k) = Unaware \/ e(k) \in 0 .. inside[reader[states[k].name].name]
    <3>1. /\ k - 1 \in 0 .. count - 1 /\ states[k].name = Owner(k - 1)
      BY <2>2, <2>1 DEF Aligned
    <3>2. Reads(states[k].name) = {reader[states[k].name].name}
      BY <3>1, OwnerIs
    <3>3. names[k] = reader[states[k].name].name /\ names[k] \in Names
      BY <3>2, <1>2, <1>6, <2>1
    <3>4. e(k) \in Int /\ (e(k) = Unaware \/ e(k) = inside[names[k]]) /\ inside[names[k]] \in Nat
      BY <3>3, <2>1 DEF Unaware
    <3> HIDE DEF e
    <3>5. e(k) = Unaware \/ e(k) \in 0 .. inside[reader[states[k].name].name]
      BY <3>3, <3>4
    <3> QED BY <3>4, <3>5, <2>1 DEF Entry
  <2>4. states' = [k \in 1 .. Len(states) |-> s(k)]
    BY <1>6, <2>1
  <2> HIDE DEF e, s
  <2>5. states' \in Seq(Entry) /\ Len(states') = Len(states)
    BY <2>1, <2>3, <2>4
  <2>6. thread' \in [at : Steps, place : Int, matches : SUBSET Nat]
        /\ thread'.at = "process" /\ thread'.place = 0
    <3> DEFINE t == [thread EXCEPT !.at = "process"]
    <3>1. thread \in [at : Steps, place : Int, matches : SUBSET Nat]
      BY DEF TypeOK
    <3>2. t \in [at : Steps, place : Int, matches : SUBSET Nat] /\ t.at = "process"
      BY <3>1 DEF Steps
    <3>3. thread' = [t EXCEPT !.place = 0]
      BY <1>6
    <3> HIDE DEF t
    <3> QED BY <3>2, <3>3
  <2>7. TypeOK'
    BY <2>5, <2>6, <1>1 DEF TypeOK, env, array, library, told
  <2>8. Aligned'
    BY <2>2, <2>3, <2>4, <2>5, <1>1 DEF Aligned, Owner, array
  <2>9. Told'
    <3>1. Len(states) = count /\ UNCHANGED <<count, inside, reader>>
      BY <2>2, <1>1 DEF Aligned, array, env, library
    <3>2. \A k \in 1 .. count : states'[k].event = Unaware \/
             states'[k].event \in 0 .. inside[reader[states'[k].name].name]
      BY <3>1, <2>3, <2>4
    <3>3. 0 \in 0 .. count
      BY <2>1
    <3> QED BY <3>1, <3>2, <3>3, <2>8, <2>6 DEF Told
  <2> QED BY <2>7, <2>9, <1>4
<1> QED BY <1>2, <1>5, <1>6

(* process_reader_change for the record at place p: the record becomes r   *)
ChangedRecord(p, r) ==
    /\ record' = [record EXCEPT ![p] = r]
    /\ r.name = record[p].name /\ r.index = record[p].index
    /\ r.state \in 0 .. inside[reader[Owner(p)].name]
    /\ r.handle.name \in {Nobody, reader[Owner(p)].name}

(* no VReader but that of the record at p has another card                 *)
ChangedReader(p) ==
    /\ reader' \in Seq(VReader) /\ Len(reader') = Len(reader)
    /\ \A w \in 1 .. Len(reader) :
          /\ reader'[w].name = reader[w].name /\ reader'[w].place = reader[w].place
          /\ w # Owner(p) => reader'[w] = reader[w]
    /\ reader'[Owner(p)].card # NoCard =>
          /\ reader'[Owner(p)].card.place \in {p, reader[Owner(p)].card.place}
          /\ reader'[Owner(p)].card.place # p => reader[Owner(p)].card # NoCard

(* when r has the state of its reader, the VReader is ready if it is in    *)
(* the list                                                                *)
ChangedReady(p, r) ==
    LET v == Owner(p)
        n == reader[v].name
    IN  v \in list /\ n \in plugged /\ r.state = inside[n] =>
          IF Present(n) THEN /\ reader'[v].card.made = inside[n] /\ r.connected
                             /\ r.handle = [name |-> n, made |-> inside[n]]
          ELSE reader'[v].card = NoCard

(* process_reader_change keeps the invariant if the record it changes      *)
(* stays that of its reader, and is ready once its state is that of the    *)
(* reader.                                                                 *)
LEMMA ChangeStep ==
    ASSUME CInv, NEW p \in 0 .. count - 1, thread.at = "process", thread.place = p,
           thread' = [thread EXCEPT !.place = p + 1],
           NEW r \in RecordType, ChangedRecord(p, r), ChangedReader(p), ChangedReady(p, r),
           queue' \in Seq(EventType), crashed' = FALSE, changed' \in BOOLEAN,
           Alive' = Alive, failures' = failures,
           UNCHANGED <<plugged, inside, listed, plugs, count, freed, states, list, told, user, last>>
    PROVE  CInv'
<1> USE DEF CInv
<1>1. /\ record \in [0 .. MaxReaders - 1 -> RecordType] /\ p \in 0 .. MaxReaders - 1
      /\ count \in Nat /\ p \in Nat /\ inside \in [Names -> Nat]
  BY NamesAssumption DEF TypeOK
<1>2. /\ record' \in [0 .. MaxReaders - 1 -> RecordType] /\ record'[p] = r
      /\ \A q \in 0 .. MaxReaders - 1 : q # p => record'[q] = record[q]
  BY <1>1 DEF ChangedRecord
<1>3. \A q \in 0 .. count - 1 :
            /\ q \in 0 .. MaxReaders - 1 /\ record'[q].name = record[q].name
            /\ record'[q].index = record[q].index
            /\ Owner(q)' = Owner(q) /\ Owner(q) \in 1 .. Len(reader) /\ reader[Owner(q)].name \in Names
            /\ reader'[Owner(q)].name = reader[Owner(q)].name
            /\ reader'[Owner(q)].place = reader[Owner(q)].place
  <2>1. ASSUME NEW q \in 0 .. count - 1
        PROVE  /\ q \in 0 .. MaxReaders - 1 /\ record'[q].name = record[q].name
               /\ record'[q].index = record[q].index
    <3>1. q \in 0 .. MaxReaders - 1
      BY NamesAssumption DEF TypeOK
    <3>2. r.name = record[p].name /\ r.index = record[p].index
      BY DEF ChangedRecord
    <3>3. CASE q = p
      BY <3>1, <3>2, <3>3, <1>2
    <3>4. CASE q # p
      BY <3>1, <3>4, <1>2
    <3> QED BY <3>3, <3>4
  <2> QED BY <2>1, OwnerIs DEF Owner, VReader, ChangedReader
<1>4. thread' \in [at : Steps, place : Int, matches : SUBSET Nat]
      /\ thread'.at = "process" /\ thread'.place = p + 1
  <2>1. thread \in [at : Steps, place : Int, matches : SUBSET Nat] /\ p + 1 \in Int
    BY <1>1 DEF TypeOK
  <2> QED BY <2>1
<1>5. TypeOK'
  BY <1>2, <1>4 DEF TypeOK, told, ChangedReader
<1>6. Kept'
  <2>1. ASSUME NEW q \in 0 .. count - 1
        PROVE  /\ record'[q].handle.name \in {Nobody, reader[Owner(q)].name}
               /\ record'[q].state <= inside[reader[Owner(q)].name]
    <3>1. CASE q = p
      BY <3>1, <1>1, <1>2, <1>3 DEF ChangedRecord
    <3>2. CASE q # p
      BY <3>2, <1>2, <1>3 DEF Kept
    <3> QED BY <3>1, <3>2
  <2>2. ASSUME NEW w \in Alive
        PROVE  /\ reader'[w].place \in 0 .. count - 1 /\ record'[reader'[w].place].name = w
               /\ reader'[w].card # NoCard => reader'[w].card.place = reader'[w].place
    <3>1. /\ reader[w].place \in 0 .. count - 1 /\ Owner(reader[w].place) = w /\ w \in 1 .. Len(reader)
          /\ reader[w].card # NoCard => reader[w].card.place = reader[w].place
      BY DEF Kept
    <3>2. reader'[w].place = reader[w].place /\ record'[reader[w].place].name = w
      BY <3>1, <1>3 DEF Owner
    <3>3. reader'[w].card # NoCard => reader'[w].card.place = reader'[w].place
      <4>1. CASE w = Owner(p)
        <5>1. reader[w].place = p
          BY <4>1 DEF Kept
        <5> QED BY <5>1, <4>1, <3>1, <3>2 DEF ChangedReader
      <4>2. CASE w # Owner(p)
        BY <4>2, <3>1, <3>2 DEF ChangedReader
      <4> QED BY <4>1, <4>2
    <3> QED BY <3>1, <3>2, <3>3
  <2>3. \A k \in DOMAIN user : user[k].reader \in 1 .. Len(reader)
    BY DEF Kept, Alive
  <2>4. \A k \in DOMAIN user' : user'[k].card.place = reader'[user'[k].reader].place
    BY <2>3 DEF ChangedReader, Kept
  <2>5. Alive' \subseteq 1 .. Len(reader') /\ freed' \subseteq 1 .. Len(reader')
    BY DEF Kept, ChangedReader
  <2>6. ASSUME NEW q \in 0 .. count - 1
        PROVE  /\ Owner(q)' \in Alive' /\ Owner(q)' \notin freed'
               /\ record'[q].index = q /\ reader'[Owner(q)'].place = q
               /\ record'[q].handle.name \in {Nobody, reader'[Owner(q)'].name}
               /\ record'[q].state <= inside'[reader'[Owner(q)'].name]
    BY <2>1, <1>3 DEF Kept
  <2>7. last'.reached \in {last'.sent, Nobody}
    BY DEF Kept
  <2> QED BY <2>2, <2>4, <2>5, <2>6, <2>7 DEF Kept, Owner
<1>7. \A w \in list : w \in 1 .. Len(reader) /\ reader'[w].name = reader[w].name
                     /\ reader'[w].place = reader[w].place
  BY ListIs DEF ChangedReader
<1>8. Regime'
  BY <1>7 DEF Regime
<1>9. CardReady'
  <2> SUFFICES ASSUME NEW v \in list, reader[v].name \in plugged,
                      record'[reader[v].place].state = inside[reader[v].name]
               PROVE  IF Present(reader[v].name)
                      THEN /\ reader'[v].card.made = inside[reader[v].name]
                           /\ record'[reader[v].place].connected
                           /\ record'[reader[v].place].handle =
                                 [name |-> reader[v].name, made |-> inside[reader[v].name]]
                      ELSE reader'[v].card = NoCard
    BY <1>7 DEF CardReady, Present
  <2>1. reader[v].place \in 0 .. count - 1 /\ Owner(reader[v].place) = v
    BY ListIs
  <2>2. CASE reader[v].place = p
    BY <2>1, <2>2, <1>2 DEF ChangedReady
  <2>3. CASE reader[v].place # p
    <3>1. v # Owner(p)
      BY <2>3 DEF Kept
    <3>2. reader'[v] = reader[v] /\ record'[reader[v].place] = record[reader[v].place]
      BY <3>1, <2>1, <2>3, <1>2, <1>3, ListIs DEF ChangedReader
    <3> QED BY <3>2 DEF CardReady
  <2> QED BY <2>2, <2>3
<1>10. Told'
  <2>1. Aligned /\ \A k \in 1 .. count : states[k].event = Unaware \/
                states[k].event \in 0 .. inside[reader[states[k].name].name]
    BY DEF Told
  <2>2. ASSUME NEW k \in 1 .. count
        PROVE  /\ k - 1 \in 0 .. count - 1 /\ states[k].name = Owner(k - 1)
               /\ reader'[states[k].name].name = reader[states[k].name].name
               /\ states[k].name = Owner(k - 1)'
    <3>1. k - 1 \in 0 .. count - 1
      BY <1>1
    <3> QED BY <3>1, <2>1, <1>3 DEF Aligned
  <2>3. Aligned'
    BY <2>1, <2>2, <1>3 DEF Aligned, Owner
  <2>4. p + 1 \in 0 .. count
    BY <1>1
  <2> QED BY <2>1, <2>2, <2>3, <2>4, <1>4 DEF Told
<1> QED BY <1>5, <1>6, <1>8, <1>9, <1>10

(* A VReader gets another card.                                            *)
LEMMA CardIs ==
    ASSUME NEW s \in Seq(VReader), NEW v \in 1 .. Len(s), NEW c \in Card
    PROVE  LET t == [s EXCEPT ![v].card = c]
           IN  /\ t \in Seq(VReader) /\ Len(t) = Len(s)
               /\ \A w \in 1 .. Len(s) : /\ t[w].name = s[w].name /\ t[w].place = s[w].place
                                         /\ w # v => t[w] = s[w]
               /\ t[v].card = c
<1> DEFINE r == [s[v] EXCEPT !.card = c]
           t == [s EXCEPT ![v] = r]
<1>1. s[v] \in VReader
  OBVIOUS
<1>2. r \in VReader /\ r.name = s[v].name /\ r.place = s[v].place /\ r.card = c
  BY <1>1 DEF VReader
<1>3. [s EXCEPT ![v].card = c] = t
  OBVIOUS
<1> HIDE DEF r
<1>4. /\ t \in Seq(VReader) /\ Len(t) = Len(s) /\ t[v] = r
      /\ \A w \in 1 .. Len(s) : w # v => t[w] = s[w]
  BY <1>2
<1> QED BY <1>2, <1>3, <1>4

(* A record without its handle and with another state                      *)
LEMMA RemovedRecord ==
    ASSUME NEW r \in RecordType, NEW e \in Int
    PROVE  LET q == [r EXCEPT !.connected = FALSE, !.handle = NoHandle, !.state = e]
           IN  /\ q \in RecordType /\ q.name = r.name /\ q.index = r.index
               /\ q.handle = NoHandle /\ q.state = e
BY DEF RecordType, Handle, NoHandle

(* The reader of the record that is looked at is in the list, or nobody is *)
(* there of its name.                                                      *)
LEMMA LookedAt ==
    ASSUME CInv, NEW p \in 0 .. count - 1
    PROVE  LET v == Owner(p)
               n == reader[v].name
           IN  /\ v \in list => Named(n) = {v} /\ Min(Named(n)) = v
               /\ v \notin list => Named(n) = {}
<1> USE DEF CInv
<1> DEFINE v == Owner(p)
           n == reader[v].name
<1>1. v \in list => Named(n) = {v} /\ Min(Named(n)) = v
  BY NamedIs
<1>2. ASSUME v \notin list PROVE Named(n) = {}
  <2>1. v \in Alive
    BY DEF Kept
  <2>2. plugged = {} /\ listed = {} /\ count <= 1
    BY <2>1, <1>2 DEF Regime
  <2>3. ASSUME NEW w \in list PROVE FALSE
    <3>1. reader[w].place \in 0 .. count - 1 /\ Owner(reader[w].place) = w
      BY ListIs
    <3>2. reader[w].place = p
      BY <3>1, <2>2 DEF TypeOK
    <3> QED BY <3>1, <3>2, <1>2
  <2> QED BY <2>3 DEF Named
<1> QED BY <1>1, <1>2

(* Each entry is for the record at its place, and what it tells is not     *)
(* ahead of the card: when it is the present the card is connected to,     *)
(* when it is the past the record waits for the next change.               *)
LEMMA ProcessStep ==
    ASSUME CInv, MaxFailures = 0, Process
    PROVE  CInv'
<1> USE DEF CInv
<1> DEFINE p == thread.place
           e == states[p + 1].event
           v == Owner(p)
           n == reader[v].name
<1>1. /\ thread.at = "process" /\ UNCHANGED <<plugged, inside, listed, plugs, states, list, told, user, last>>
      /\ p \in 0 .. count /\ Aligned /\ crashed = FALSE /\ count \in Nat
      /\ \A k \in 1 .. count : states[k].event = Unaware \/
                states[k].event \in 0 .. inside[reader[states[k].name].name]
      /\ thread \in [at : Steps, place : Int, matches : SUBSET Nat]
  BY DEF Process, At, Told, TypeOK
<1>2. CASE p = Len(states)
  <2>1. /\ thread' = Rest("prepare")
        /\ UNCHANGED <<array, reader, leaked, queue, failures, crashed>>
    BY <1>2 DEF Process
  <2>2. TypeOK'
    <3>1. thread' \in [at : Steps, place : Int, matches : SUBSET Nat]
      BY <2>1, RestIs DEF Steps
    <3> QED BY <3>1, <2>1, <1>1 DEF TypeOK, array, told
  <2>3. Alive' = Alive
    BY <2>1, <1>1 DEF Alive, told
  <2>4. Kept' /\ Regime' /\ CardReady' /\ Aligned'
    <3>1. UNCHANGED <<plugged, inside, listed, record, count, freed, states, reader, list, user, last>>
      BY <2>1, <1>1 DEF array
    <3>2. Kept'
      BY <3>1, <2>3 DEF Kept, Owner
    <3>3. Regime' /\ CardReady' /\ Aligned'
      BY <3>1, <2>3, <1>1 DEF Owner, Regime, CardReady, Present, Aligned
    <3> QED BY <3>2, <3>3
  <2>5. thread'.at = "prepare"
    BY <2>1, RestIs DEF Steps
  <2> QED BY <2>2, <2>4, <2>5 DEF Told
<1>3. CASE p # Len(states)
  <2>1. /\ p \in 0 .. count - 1 /\ p + 1 \in 1 .. count /\ states[p + 1].name = v
        /\ e = Unaware \/ e \in 0 .. inside[n]
    <3>1. p \in 0 .. count - 1 /\ p + 1 \in 1 .. count /\ (p + 1) - 1 = p
      BY <1>1, <1>3 DEF Aligned
    <3> QED BY <3>1, <1>1 DEF Aligned
  <2>2. /\ v \in 1 .. Len(reader) /\ v # 0 /\ v \in Alive /\ reader[v] \in VReader /\ n \in Names
        /\ Reads(record[p].name) = {n} /\ record[p].name # 0 /\ record[p] \in RecordType
        /\ record[p].handle.name \in {Nobody, n}
        /\ reader \in Seq(VReader) /\ inside[n] \in Nat /\ queue \in Seq(EventType)
    BY <2>1, OwnerIs DEF Owner, VReader, Kept, TypeOK
  <2>3. /\ thread' = [thread EXCEPT !.place = p + 1] /\ UNCHANGED <<count, freed>>
        /\ \/ /\ e = Unaware
              /\ UNCHANGED <<record, changed, reader, leaked, queue, failures, crashed>>
           \/ /\ e # Unaware /\ changed' = TRUE
              /\ crashed' = (record[p].name = 0 /\ list # {})
              /\ \E m \in {n} : IF e % 2 = 1 THEN insert_card(p, m) ELSE remove_card(p, m)
    BY <1>1, <1>3, <2>2 DEF Process
  <2>4. CASE e = Unaware /\ UNCHANGED <<record, changed, reader, leaked, queue, failures, crashed>>
    <3>1. thread' \in [at : Steps, place : Int, matches : SUBSET Nat]
          /\ thread'.at = "process" /\ thread'.place = p + 1 /\ p + 1 \in 0 .. count
      <4> HIDE DEF p
      <4> QED BY <2>1, <2>3, <1>1
    <3>2. TypeOK'
      BY <3>1, <2>4, <2>3, <1>1 DEF TypeOK, told
    <3>3. Alive' = Alive
      BY <2>4, <1>1 DEF Alive, told
    <3>4. UNCHANGED <<plugged, inside, listed, record, count, freed, states, reader, list, user, last>>
      BY <2>4, <2>3, <1>1
    <3>5. Kept'
      BY <3>3, <3>4 DEF Kept, Owner
    <3>6. Regime' /\ CardReady' /\ Aligned'
      BY <3>3, <3>4, <1>1 DEF Owner, Regime, CardReady, Present, Aligned
    <3> QED BY <3>1, <3>2, <3>5, <3>6, <2>4, <2>3, <1>1 DEF Told
  <2>5. CASE /\ e # Unaware /\ changed' = TRUE
             /\ crashed' = (record[p].name = 0 /\ list # {})
             /\ IF e % 2 = 1 THEN insert_card(p, n) ELSE remove_card(p, n)
    <3>1. e \in 0 .. inside[n] /\ crashed' = FALSE
      BY <2>1, <2>2, <2>5
    <3>2. e \in Nat
      BY <3>1
    <3>3. v \in list => Named(n) = {v} /\ Min(Named(n)) = v
      BY <2>1, LookedAt
    <3>4. v \notin list => Named(n) = {}
      BY <2>1, LookedAt
    <3> HIDE DEF e, n, v, p
    <3>5. CASE e % 2 = 1
      <4> DEFINE ok == Named(n) # {} /\ Present(n)
                 c == [made |-> inside[n], place |-> p]
                 r == [connect_card(record[p], n, ok) EXCEPT !.state = e]
                 say == [type |-> "CARD_INSERT", reader |-> v, card |-> inside[n]]
      <4>1. /\ record' = [record EXCEPT ![p] = r] /\ failures' = failures
            /\ reader' = IF ok THEN [reader EXCEPT ![Min(Named(n))].card = c] ELSE reader
            /\ queue' = IF ok THEN Append(queue, [type |-> "CARD_INSERT", reader |-> Min(Named(n)),
                                                card |-> inside[n]])
                      ELSE queue
            /\ leaked' = IF Named(n) # {} /\ ~ok THEN leaked \cup {Min(Named(n))} ELSE leaked
        <5>1. PICK fail \in Fails :
                LET w == Min(Named(n))
                    o == Named(n) # {} /\ Present(n) /\ ~fail
                IN  /\ record' = [record EXCEPT ![p] =
                          [connect_card(@, n, o) EXCEPT !.state = states[p + 1].event]]
                    /\ reader' = IF o THEN [reader EXCEPT ![w].card = [made |-> inside[n], place |-> p]]
                                 ELSE reader
                    /\ queue' = IF o THEN Append(queue, [type |-> "CARD_INSERT", reader |-> w,
                                                          card |-> inside[n]])
                                ELSE queue
                    /\ leaked' = IF Named(n) # {} /\ ~o THEN leaked \cup {w} ELSE leaked
                    /\ Failed(fail)
          BY <2>5, <3>5 DEF insert_card
        <5>2. fail = FALSE /\ failures' = failures
          BY <5>1, NoFailure
        <5>3. (Named(n) # {} /\ Present(n) /\ ~fail) = ok
          BY <5>2
        <5> QED BY <5>1, <5>2, <5>3, Zenon DEF e
      <4>2. CASE ok
        <5>1. v \in list /\ Min(Named(n)) = v
          BY <4>2, <3>3, <3>4
        <5> DEFINE h == [name |-> n, made |-> inside[n]]
                   r1 == [record[p] EXCEPT !.handle = h, !.connected = TRUE, !.asked = FALSE]
        <5>2. h \in Handle /\ h.name = n
          BY <2>2 DEF Handle
        <5>3. connect_card(record[p], n, ok) = r1
          BY <4>2 DEF connect_card
        <5> HIDE DEF h
        <5>4. r1 \in RecordType /\ r1.name = record[p].name /\ r1.index = record[p].index
              /\ r1.handle = h /\ r1.connected
          BY <5>2, <2>2 DEF RecordType
        <5> HIDE DEF r1
        <5>5. r = [r1 EXCEPT !.state = e]
          BY <5>3
        <5> HIDE DEF r
        <5>6. r \in RecordType /\ r.name = record[p].name /\ r.index = record[p].index
              /\ r.handle = h /\ r.connected /\ r.state = e
          BY <5>4, <5>5, <3>2 DEF RecordType
        <5>7. c \in Card /\ c.made = inside[n] /\ c.place = p
          BY <2>1, <2>2 DEF Card
        <5>8. say \in EventType /\ say.reader = v /\ queue' = Append(queue, say)
          BY <2>2, <4>1, <4>2, <5>1 DEF EventType
        <5> HIDE DEF c, say
        <5>9. reader' = [reader EXCEPT ![v].card = c]
          BY <4>1, <4>2, <5>1
        <5>10. /\ reader' \in Seq(VReader) /\ Len(reader') = Len(reader)
               /\ \A w \in 1 .. Len(reader) :
                     /\ reader'[w].name = reader[w].name /\ reader'[w].place = reader[w].place
                     /\ w # v => reader'[w] = reader[w]
               /\ reader'[v].card = c
          BY <5>7, <5>9, <2>2, CardIs
        <5>11. ChangedRecord(p, r)
          BY <5>6, <5>2, <4>1, <3>1 DEF ChangedRecord, n, v
        <5>12. ChangedReader(p)
          BY <5>10, <5>7 DEF ChangedReader, v
        <5>13. ChangedReady(p, r)
          BY <5>10, <5>7, <5>6, <4>2 DEF ChangedReady, n, v, h
        <5>14. queue' \in Seq(EventType) /\ Readers(queue') = Readers(queue) \cup {v}
          BY <5>8, <2>2, AppendIs, AppendReaders
        <5>15. Alive' = Alive
          BY <5>14, <5>1, <4>1, <4>2, <1>1, AliveIs DEF told
        <5>16. thread' = [thread EXCEPT !.place = p + 1] /\ thread.place = p
          BY <2>3 DEF p
        <5> QED BY <5>6, <5>11, <5>12, <5>13, <5>14, <5>15, <5>16, <4>1, <3>1, <2>5, <2>3, <2>1, <1>1,
                   ChangeStep
      <4>3. CASE ~ok
        <5>1. r = [record[p] EXCEPT !.state = e]
          BY <4>3 DEF connect_card
        <5> HIDE DEF r
        <5>2. r \in RecordType /\ r.name = record[p].name /\ r.index = record[p].index
              /\ r.handle = record[p].handle /\ r.state = e
          <6>1. record[p] \in RecordType /\ e \in Int
            BY <2>2, <3>2
          <6> QED BY <5>1, <6>1 DEF RecordType
        <5>3. ChangedRecord(p, r)
          BY <5>2, <4>1, <3>1, <2>2 DEF ChangedRecord, n, v
        <5>4. UNCHANGED <<reader, queue>>
          BY <4>1, <4>3
        <5>5. ChangedReader(p)
          BY <5>4, <2>2 DEF ChangedReader
        <5>6. ChangedReady(p, r)
          <6>1. ~ (v \in list /\ n \in plugged /\ e = inside[n])
            BY <4>3, <3>3, <3>5 DEF Present
          <6> QED BY <6>1, <5>2 DEF ChangedReady, n, v
        <5>7. Alive' = Alive
          <6>1. leaked' \in {leaked, leaked \cup {v}} /\ (leaked' # leaked => v \in list)
            BY <4>1, <3>3, <3>4
          <6> QED BY <6>1, <5>4, <1>1, AliveIs DEF told
        <5>8. thread' = [thread EXCEPT !.place = p + 1] /\ thread.place = p
          BY <2>3 DEF p
        <5> QED BY <5>2, <5>3, <5>4, <5>5, <5>6, <5>7, <5>8, <4>1, <3>1, <2>5, <2>3, <2>2, <2>1, <1>1,
                   ChangeStep
      <4> QED BY <4>2, <4>3
    <3>6. CASE e % 2 # 1
      <4> DEFINE r == [record[p] EXCEPT !.connected = FALSE, !.handle = NoHandle, !.state = e]
                 say == [type |-> "CARD_REMOVE", reader |-> v, card |-> 0]
      <4>1. /\ record' = [record EXCEPT ![p] = r] /\ UNCHANGED <<leaked, failures>>
            /\ IF Named(n) = {} THEN UNCHANGED <<reader, queue>>
               ELSE /\ reader' = [reader EXCEPT ![Min(Named(n))].card = NoCard]
                    /\ queue' = Append(queue, [type |-> "CARD_REMOVE", reader |-> Min(Named(n)), card |-> 0])
        BY <2>5, <3>6 DEF remove_card, e
      <4>2. r \in RecordType /\ r.name = record[p].name /\ r.index = record[p].index
            /\ r.handle = NoHandle /\ r.state = e
        <5>1. record[p] \in RecordType /\ e \in Int
          BY <2>2, <3>2
        <5> QED BY <5>1, RemovedRecord
      <4> HIDE DEF r
      <4>3. NoHandle.name = Nobody
        BY DEF NoHandle
      <4>4. ChangedRecord(p, r)
        BY <4>1, <4>2, <4>3, <3>1 DEF ChangedRecord, n, v
      <4>5. thread' = [thread EXCEPT !.place = p + 1] /\ thread.place = p
        BY <2>3 DEF p
      <4>6. ~ Present(n) \/ e # inside[n]
        BY <3>6 DEF Present
      <4>7. CASE v \in list
        <5>1. /\ reader' = [reader EXCEPT ![v].card = NoCard] /\ queue' = Append(queue, say)
          BY <4>1, <4>7, <3>3
        <5>2. say \in EventType /\ say.reader = v
          BY <2>2 DEF EventType
        <5> HIDE DEF say
        <5>3. queue' \in Seq(EventType) /\ Readers(queue') = Readers(queue) \cup {v}
          BY <5>1, <5>2, <2>2, AppendIs, AppendReaders
        <5>4. NoCard \in Card
          BY DEF NoCard, Card
        <5>5. /\ reader' \in Seq(VReader) /\ Len(reader') = Len(reader)
              /\ \A w \in 1 .. Len(reader) :
                    /\ reader'[w].name = reader[w].name /\ reader'[w].place = reader[w].place
                    /\ w # v => reader'[w] = reader[w]
              /\ reader'[v].card = NoCard
          BY <5>1, <5>4, <2>2, CardIs
        <5>6. ChangedReader(p)
          BY <5>5 DEF ChangedReader, v
        <5>7. ChangedReady(p, r)
          BY <5>5, <4>6, <4>2 DEF ChangedReady, n, v
        <5>8. Alive' = Alive
          BY <5>3, <4>7, <4>1, <1>1, AliveIs DEF told
        <5> QED BY <5>3, <5>6, <5>7, <5>8, <4>1, <4>2, <4>4, <4>5, <3>1, <2>5, <2>3, <2>1, <1>1, ChangeStep
      <4>8. CASE v \notin list
        <5>1. UNCHANGED <<reader, queue>>
          BY <4>1, <4>8, <3>4
        <5>2. ChangedReader(p)
          BY <5>1, <2>2 DEF ChangedReader
        <5>3. ChangedReady(p, r)
          BY <4>8 DEF ChangedReady, v
        <5>4. Alive' = Alive
          BY <5>1, <4>1, <1>1, AliveIs DEF told
        <5> QED BY <5>1, <5>2, <5>3, <5>4, <4>1, <4>2, <4>4, <4>5, <3>1, <2>5, <2>3, <2>2, <2>1, <1>1,
                   ChangeStep
      <4> QED BY <4>7, <4>8
    <3> QED BY <3>5, <3>6
  <2> QED BY <2>3, <2>4, <2>5
<1> QED BY <1>2, <1>3

-----------------------------------------------------------------------------
(* The application and the user                                            *)

(* A VReader whose event is taken stays alive.                             *)
LEMMA TakeStep ==
    ASSUME CInv, Take
    PROVE  CInv'
<1> USE DEF CInv
<1>1. /\ taken = <<>> /\ queue # <<>> /\ taken' = <<Head(queue)>> /\ queue' = Tail(queue)
      /\ UNCHANGED <<env, array, thread, states, reader, list, leaked, user, last, crashed>>
  BY DEF Take
<1>2. /\ queue \in Seq(EventType) /\ Head(queue) \in EventType /\ Tail(queue) \in Seq(EventType)
      /\ taken' \in Seq(EventType) /\ Len(taken') = 1 /\ taken'[1] = queue[1]
  BY <1>1 DEF TypeOK
<1>3. TypeOK'
  BY <1>1, <1>2 DEF TypeOK, env, array
<1>4. Alive' = Alive
  <2>1. Readers(queue) = Readers(queue') \cup Readers(taken') /\ Readers(taken) = {}
    BY <1>1, <1>2, TakenReaders, NoReaders
  <2> QED BY <2>1, <1>1, AliveIs
<1>5. Kept' /\ Regime' /\ CardReady'
  BY <1>1, <1>4 DEF Kept, Owner, Regime, CardReady, Present, env, array
<1>6. Told'
  BY <1>1 DEF Told, Aligned, Stale, Owner, env, array
<1> QED BY <1>3, <1>5, <1>6

(* delete_reader keeps the types, because the record is there.             *)
LEMMA DeleteType ==
    ASSUME TypeOK, Kept, NEW v \in Alive, delete_reader(reader[v].place)
    PROVE  record' \in [0 .. MaxReaders - 1 -> RecordType] /\ count' \in 0 .. MaxReaders - 1
<1> DEFINE i == reader[v].place
           nameless == [record EXCEPT ![i].name = 0]
<1>1. /\ i \in 0 .. count - 1 /\ record[i].index = i /\ count \in 0 .. MaxReaders - 1
      /\ MaxReaders \in Nat /\ record \in [0 .. MaxReaders - 1 -> RecordType]
  BY NamesAssumption DEF Kept, TypeOK
<1>2. /\ record' = [q \in DOMAIN record |->
                        IF q \in i..(count - 2) THEN nameless[q + 1] ELSE nameless[q]]
      /\ count' = count - 1
  BY <1>1 DEF delete_reader, DeleteCount
<1> HIDE DEF i
<1>3. nameless \in [0 .. MaxReaders - 1 -> RecordType]
  <2> DEFINE r == [record[i] EXCEPT !.name = 0]
  <2>1. i \in 0 .. MaxReaders - 1 /\ record[i] \in RecordType
    BY <1>1
  <2>2. r \in RecordType
    BY <2>1 DEF RecordType
  <2>3. nameless = [record EXCEPT ![i] = r]
    BY <2>1, <1>1
  <2> HIDE DEF r, nameless
  <2> QED BY <2>2, <2>3, <1>1
<1> HIDE DEF nameless
<1>4. \A q \in 0 .. MaxReaders - 1 : q \in i .. (count - 2) => q + 1 \in 0 .. MaxReaders - 1
  BY <1>1
<1>5. record' \in [0 .. MaxReaders - 1 -> RecordType]
  BY <1>1, <1>2, <1>3, <1>4
<1>6. count' \in 0 .. MaxReaders - 1
  <2>1. count' = count - 1
    BY <1>2, Zenon
  <2> QED BY <2>1, <1>1
<1> QED BY <1>5, <1>6

(* The last reference to a VReader is freed: it was the sole one, and its  *)
(* record the sole record, so that no other record moves.                  *)
LEMMA ReleaseStep ==
    ASSUME CInv, NEW v \in Alive, NEW others \in BOOLEAN, Release(v, others),
           UNCHANGED <<env, thread, states, library>>, TypeOK',
           UNCHANGED crashed, last'.reached \in {last'.sent, Nobody},
           Alive' \subseteq Alive, Alive \subseteq Alive' \cup {v},
           v \in Alive' <=> v \in list \cup leaked \/ others
                             \/ \E k \in DOMAIN queue : queue[k].reader = v,
           \A k \in DOMAIN user' : k \in DOMAIN user /\ user'[k] = user[k]
    PROVE  CInv'
<1> USE DEF CInv
<1>1. CASE v \in Alive'
  <2>1. UNCHANGED array /\ Alive' = Alive
    BY <1>1 DEF Release
  <2>2. Kept' /\ Regime' /\ CardReady' /\ Told'
    BY <2>1 DEF Kept, Owner, Regime, CardReady, Present, Told, Aligned, Stale, env, array, library
  <2> QED BY <2>2
<1>2. CASE v \notin Alive'
  <2>1. /\ thread.at # "process" /\ delete_reader(reader[v].place) /\ UNCHANGED changed
        /\ v \notin list
    BY <1>2 DEF Release
  <2>2. plugged = {} /\ listed = {} /\ count <= 1
    BY <2>1 DEF Regime
  <2>3. /\ reader[v].place = 0 /\ count = 1 /\ record[0].index = 0 /\ record[0].name = v
        /\ \A w \in Alive : w = v
    <3>1. \A w \in Alive : reader[w].place \in 0 .. count - 1 /\ Owner(reader[w].place) = w
      BY DEF Kept
    <3>2. count = 1 /\ \A w \in Alive : reader[w].place = 0
      <4>1. reader[v].place \in 0 .. count - 1 /\ count \in Nat
        BY <3>1 DEF TypeOK
      <4>2. count = 1
        BY <4>1, <2>2
      <4>3. 0 .. count - 1 = {0}
        BY <4>2
      <4> QED BY <4>2, <4>3, <3>1
    <3>3. Owner(0) = v /\ record[0].index = 0
      BY <3>1, <3>2 DEF Kept
    <3> QED BY <3>1, <3>2, <3>3 DEF Owner
  <2>4. /\ freed' = freed \cup {v} /\ count' = 0
        /\ v \in 1 .. Len(reader)
    BY <2>1, <2>3 DEF delete_reader, DeleteCount, Kept
  <2>5. Alive' = {} /\ list' = {} /\ list = {}
    <3>1. Alive' = {}
      BY <2>3, <1>2
    <3> QED BY <3>1, AliveIs DEF library
  <2>6. Kept'
    <3>1. \A k \in DOMAIN user' : user'[k].card.place = reader[user'[k].reader].place
      BY DEF Kept
    <3> QED BY <3>1, <2>4, <2>5 DEF Kept, library
  <2>7. Regime' /\ CardReady'
    BY <2>2, <2>4, <2>5 DEF Regime, CardReady, env
  <2>8. Told'
    <3>1. Aligned => Stale'
      <4>1. Aligned => Len(states) = 1
        BY <2>3 DEF Aligned
      <4> QED BY <4>1, <2>2 DEF Stale, env
    <3>2. Stale' <=> Stale
      BY DEF Stale, env
    <3> QED BY <3>1, <3>2, <2>1, <2>4 DEF Told, env
  <2> QED BY <2>6, <2>7, <2>8
<1> QED BY <1>1, <1>2

(* vevent_delete frees a reference the VReader may not have another of.    *)
LEMMA DeleteStep ==
    ASSUME CInv, Delete
    PROVE  CInv'
<1> USE DEF CInv
<1> DEFINE v == taken[1].reader
           others == user # <<>> /\ user[1].reader = v
<1>1. /\ taken # <<>> /\ taken' = <<>> /\ Release(v, others)
      /\ UNCHANGED <<env, thread, states, library, known, shown, user, last, crashed>>
  BY DEF Delete
<1>2. Readers(taken) = {v} /\ Readers(taken') = {}
      /\ (others <=> v \in Readers(user))
  <2>1. DOMAIN taken = {1} /\ (user # <<>> => DOMAIN user = {1}) /\ (user = <<>> => DOMAIN user = {})
    BY <1>1, OneIs DEF TypeOK
  <2> QED BY <2>1, <1>1, NoReaders DEF Readers
<1>3. v \in Readers(queue) <=> \E k \in DOMAIN queue : queue[k].reader = v
  BY DEF Readers
<1> HIDE DEF v, others
<1>4. /\ Alive' \subseteq Alive /\ Alive \subseteq Alive' \cup {v} /\ v \in Alive
      /\ v \in Alive' <=> v \in list \cup leaked \/ others
                             \/ \E k \in DOMAIN queue : queue[k].reader = v
  BY <1>1, <1>2, <1>3, AliveIs DEF library
<1>5. TypeOK'
  <2>1. taken' \in Seq(EventType) /\ Len(taken') <= 1
    BY <1>1
  <2>2. record' \in [0 .. MaxReaders - 1 -> RecordType] /\ count' \in 0 .. MaxReaders - 1
        /\ changed' \in BOOLEAN
    <3>1. CASE UNCHANGED array
      BY <3>1 DEF TypeOK, array
    <3>2. CASE delete_reader(reader[v].place) /\ UNCHANGED changed /\ v \notin list
      <4>1. record' \in [0 .. MaxReaders - 1 -> RecordType] /\ count' \in 0 .. MaxReaders - 1
        BY <3>2, <1>4, DeleteType, Zenon
      <4> QED BY <4>1, <3>2 DEF TypeOK
    <3> QED BY <3>1, <3>2, <1>1 DEF Release
  <2> QED BY <2>1, <2>2, <1>1 DEF TypeOK, env, library
<1>6. others \in BOOLEAN
  BY DEF others
<1>7. last'.reached \in {last'.sent, Nobody}
  BY <1>1 DEF Kept
<1> QED BY <1>1, <1>4, <1>5, <1>6, <1>7, ReleaseStep

(* A transmission starts with the place of the VReader's record.           *)
LEMMA BeginStep ==
    ASSUME CInv, Begin
    PROVE  CInv'
<1> USE DEF CInv
<1>1. PICK v \in list : reader[v].card # NoCard /\ user' = <<[reader |-> v, card |-> reader[v].card]>>
  BY DEF Begin
<1>2. user = <<>> /\ UNCHANGED <<env, array, thread, states, library, told, last, crashed>>
  BY DEF Begin
<1>3. /\ v \in Alive /\ v \in Nat /\ reader[v].card \in Card
      /\ reader[v].card.place = reader[v].place
  BY <1>1, ListIs DEF VReader, Kept
<1>4. /\ user' \in Seq(Use) /\ Len(user') = 1 /\ user'[1].reader = v /\ DOMAIN user' = {1}
      /\ user'[1].card = reader[v].card
  <2> DEFINE u == [reader |-> v, card |-> reader[v].card]
  <2>1. u \in Use /\ u.reader = v /\ u.card = reader[v].card
    BY <1>3 DEF Use
  <2> HIDE DEF u
  <2>2. user' = <<u>>
    BY <1>1 DEF u
  <2> QED BY <2>1, <2>2
<1>5. TypeOK'
  BY <1>2, <1>4 DEF TypeOK, env, array, library, told
<1>6. Alive' = Alive
  <2>1. Readers(user) = {} /\ Readers(user') = {v}
    BY <1>2, <1>4, NoReaders DEF Readers
  <2> QED BY <2>1, <1>2, <1>1, AliveIs DEF library, told
<1>7. Kept'
  <2>1. \A k \in DOMAIN user' : user'[k].card.place = reader[user'[k].reader].place
    BY <1>3, <1>4
  <2> QED BY <2>1, <1>2, <1>6 DEF Kept, Owner, env, array, library
<1>8. Regime' /\ CardReady'
  BY <1>2, <1>6 DEF Owner, Regime, CardReady, Present, env, array, library
<1>9. Told'
  BY <1>2 DEF Told, Aligned, Stale, Owner, env, array, library
<1> QED BY <1>5, <1>7, <1>8, <1>9

(* record r is connected to the card that is in reader n                   *)
Ready(r, n) == Present(n) /\ r.connected /\ r.handle = [name |-> n, made |-> inside[n]]

(* A record may change its handle, as long as one that is connected to the *)
(* card in its reader stays so.                                            *)
LEMMA HandleStep ==
    ASSUME CInv, NEW p \in 0 .. count - 1, NEW r \in RecordType,
           record' = [record EXCEPT ![p] = r],
           r.name = record[p].name, r.index = record[p].index, r.state = record[p].state,
           r.handle.name \in {Nobody, reader[Owner(p)].name},
           Ready(record[p], reader[Owner(p)].name) => r.connected /\ r.handle = record[p].handle,
           UNCHANGED <<env, count, changed, freed, thread, states, library, told, user, crashed>>,
           last'.reached \in {last'.sent, Nobody}
    PROVE  CInv'
<1> USE DEF CInv
<1>1. /\ record \in [0 .. MaxReaders - 1 -> RecordType] /\ p \in 0 .. MaxReaders - 1
      /\ count \in Nat /\ p \in Nat
  BY NamesAssumption DEF TypeOK
<1>2. /\ record' \in [0 .. MaxReaders - 1 -> RecordType] /\ record'[p] = r
      /\ \A q \in 0 .. MaxReaders - 1 : q # p => record'[q] = record[q]
  BY <1>1
<1>3. /\ \A q \in 0 .. count - 1 :
            /\ q \in 0 .. MaxReaders - 1 /\ record'[q].name = record[q].name
            /\ record'[q].index = record[q].index /\ record'[q].state = record[q].state
            /\ Owner(q)' = Owner(q)
  BY <1>1, <1>2, NamesAssumption DEF Owner, TypeOK
<1>4. TypeOK'
  BY <1>2 DEF TypeOK, env, library, told
<1>5. Alive' = Alive
  BY AliveIs DEF library, told
<1>6. Kept'
  <2>1. ASSUME NEW q \in 0 .. count - 1
        PROVE  record'[q].handle.name \in {Nobody, reader[Owner(q)].name}
    <3>1. CASE q = p
      BY <3>1, <1>2
    <3>2. CASE q # p
      BY <3>2, <1>2, <1>3 DEF Kept
    <3> QED BY <3>1, <3>2
  <2>2. UNCHANGED <<count, inside, reader, freed, user>>
    BY DEF env, library
  <2>3. \A q \in 0 .. count - 1 :
           /\ Owner(q)' \in Alive' /\ Owner(q)' \notin freed'
           /\ record'[q].index = q /\ reader'[Owner(q)'].place = q
           /\ record'[q].handle.name \in {Nobody, reader'[Owner(q)'].name}
           /\ record'[q].state <= inside'[reader'[Owner(q)'].name]
    BY <2>1, <2>2, <1>3, <1>5 DEF Kept
  <2>4. \A v \in Alive' :
           /\ reader'[v].place \in 0 .. count' - 1 /\ record'[reader'[v].place].name = v
           /\ reader'[v].card # NoCard => reader'[v].card.place = reader'[v].place
    BY <2>2, <1>3, <1>5 DEF Kept, Owner
  <2>5. /\ Alive' \subseteq 1 .. Len(reader') /\ freed' \subseteq 1 .. Len(reader')
        /\ \A k \in DOMAIN user' : user'[k].card.place = reader'[user'[k].reader].place
    BY <2>2, <1>5 DEF Kept
  <2> QED BY <2>2, <2>3, <2>4, <2>5 DEF Kept, Owner
<1>7. Regime'
  BY <1>5 DEF Regime, env, library
<1>8. CardReady'
  <2> SUFFICES ASSUME NEW v \in list, reader[v].name \in plugged,
                      record'[reader[v].place].state = inside[reader[v].name]
               PROVE  IF Present(reader[v].name)
                      THEN /\ reader[v].card.made = inside[reader[v].name]
                           /\ record'[reader[v].place].connected
                           /\ record'[reader[v].place].handle =
                                 [name |-> reader[v].name, made |-> inside[reader[v].name]]
                      ELSE reader[v].card = NoCard
    BY DEF CardReady, Present, env, library
  <2>1. reader[v].place \in 0 .. count - 1 /\ Owner(reader[v].place) = v
    BY ListIs
  <2>2. record[reader[v].place].state = inside[reader[v].name]
    BY <2>1, <1>3
  <2>3. CASE ~Present(reader[v].name)
    BY <2>2, <2>3 DEF CardReady
  <2>4. CASE Present(reader[v].name)
    <3>1. /\ reader[v].card.made = inside[reader[v].name]
          /\ Ready(record[reader[v].place], reader[v].name)
      BY <2>2, <2>4 DEF CardReady, Ready
    <3>2. CASE reader[v].place = p
      BY <3>1, <3>2, <2>1, <1>2, <2>4 DEF Ready
    <3>3. CASE reader[v].place # p
      BY <3>1, <3>3, <2>1, <1>2, <1>3, <2>4 DEF Ready
    <3> QED BY <3>2, <3>3
  <2> QED BY <2>3, <2>4
<1>9. Told'
  <2>1. Aligned' <=> Aligned
    <3>1. \A k \in 1 .. count : k - 1 \in 0 .. count - 1
      BY <1>1
    <3> QED BY <3>1, <1>3 DEF Aligned
  <2>2. Stale' <=> Stale
    BY DEF Stale, env
  <2> QED BY <2>1, <2>2 DEF Told, env, library
<1> QED BY <1>4, <1>6, <1>7, <1>8, <1>9

(* The record a transmission sends to is the one of its reader.            *)
LEMMA UserIs ==
    ASSUME TypeOK, Kept, user # <<>>
    PROVE  /\ user[1].card.place \in 0 .. count - 1 /\ Owner(user[1].card.place) = user[1].reader
           /\ user[1].reader \in Alive /\ 1 \in DOMAIN user
<1>1. 1 \in DOMAIN user
  BY DEF TypeOK
<1>2. user[1].reader \in Alive
  BY <1>1 DEF Alive
<1> QED BY <1>1, <1>2 DEF Kept

(* apdu_cb connects the record to the card in its reader, or to none.      *)
LEMMA TransmitStep ==
    ASSUME CInv, Transmit
    PROVE  CInv'
<1> USE DEF CInv
<1> DEFINE p == user[1].card.place
           v == user[1].reader
<1>1. /\ p \in 0 .. count - 1 /\ Owner(p) = v /\ record[p] \in RecordType
      /\ Reads(record[p].name) = {reader[v].name} /\ reader[v].name \in Names
      /\ record[p].handle.name \in {Nobody, reader[v].name}
  <2>1. user # <<>>
    BY DEF Transmit
  <2>2. p \in 0 .. count - 1 /\ Owner(p) = v
    BY <2>1, UserIs
  <2> HIDE DEF p, v
  <2> QED BY <2>2, OwnerIs DEF Owner, VReader, Kept
<1>2. UNCHANGED <<env, count, changed, freed, thread, states, library, told, user, crashed>>
  BY DEF Transmit
<1>3. PICK r \in IF record[p].connected THEN {record[p]}
                 ELSE {connect_card(record[p], n, Present(n)) :
                            n \in Reads(record[p].name) \cup {Nobody}} :
             /\ record' = [record EXCEPT ![p] = r]
             /\ last' = [sent |-> reader[v].name,
                         reached |-> IF r.connected /\ Valid(r.handle) THEN r.handle.name
                                     ELSE Nobody]
  BY DEF Transmit
<1> HIDE DEF p, v
<1>4. CASE record[p].connected
  <2>1. r = record[p]
    BY <1>3, <1>4
  <2>2. last'.reached \in {last'.sent, Nobody}
    BY <2>1, <1>1, <1>3
  <2>3. /\ r \in RecordType /\ r.name = record[p].name /\ r.index = record[p].index
        /\ r.state = record[p].state /\ r.handle.name \in {Nobody, reader[Owner(p)].name}
        /\ Ready(record[p], reader[Owner(p)].name) => r.connected /\ r.handle = record[p].handle
    BY <2>1, <1>1 DEF Ready
  <2> QED BY <2>2, <2>3, <1>1, <1>2, <1>3, HandleStep
<1>5. CASE ~record[p].connected
  <2>1. PICK n \in {reader[v].name, Nobody} : r = connect_card(record[p], n, Present(n))
    BY <1>1, <1>3, <1>5
  <2>2. CASE ~Present(n)
    <3>1. r = record[p]
      BY <2>1, <2>2 DEF connect_card
    <3>2. last'.reached \in {last'.sent, Nobody}
      BY <3>1, <1>1, <1>3
    <3>3. /\ r \in RecordType /\ r.name = record[p].name /\ r.index = record[p].index
          /\ r.state = record[p].state /\ r.handle.name \in {Nobody, reader[Owner(p)].name}
          /\ Ready(record[p], reader[Owner(p)].name) => r.connected /\ r.handle = record[p].handle
      BY <3>1, <1>1 DEF Ready
    <3> QED BY <3>2, <3>3, <1>1, <1>2, <1>3, HandleStep
  <2>3. CASE Present(n)
    <3> DEFINE h == [name |-> n, made |-> inside[n]]
    <3>1. n = reader[v].name /\ h \in Handle /\ h.name = n
      BY <2>1, <2>3, <1>1, PresentIs DEF Handle
    <3>2. r = [record[p] EXCEPT !.handle = h, !.connected = TRUE, !.asked = FALSE]
      BY <2>1, <2>3 DEF connect_card
    <3> HIDE DEF h
    <3>3. /\ r \in RecordType /\ r.name = record[p].name /\ r.index = record[p].index
          /\ r.state = record[p].state /\ r.handle = h
      BY <3>1, <3>2, <1>1 DEF RecordType
    <3>4. last'.reached \in {last'.sent, Nobody}
      BY <3>1, <3>3, <1>3
    <3>5. ~Ready(record[p], reader[Owner(p)].name)
      BY <1>5 DEF Ready
    <3> QED BY <3>1, <3>3, <3>4, <3>5, <1>1, <1>2, <1>3, HandleStep
  <2> QED BY <2>2, <2>3
<1> QED BY <1>4, <1>5

(* reset_cb connects the handle to the card that is in the reader now.     *)
LEMMA ResetStep ==
    ASSUME CInv, Reset
    PROVE  CInv'
<1> USE DEF CInv
<1> DEFINE p == user[1].card.place
           v == user[1].reader
           n == record[p].handle.name
           r == IF ~record[p].asked THEN [record[p] EXCEPT !.asked = TRUE]
                ELSE IF Present(n) THEN [record[p] EXCEPT !.handle.made = inside[n]] ELSE record[p]
<1>1. /\ p \in 0 .. count - 1 /\ Owner(p) = v /\ record[p] \in RecordType
      /\ n \in {Nobody, reader[v].name}
  <2>1. user # <<>>
    BY DEF Reset
  <2>2. p \in 0 .. count - 1 /\ Owner(p) = v
    BY <2>1, UserIs
  <2> HIDE DEF p, v
  <2> QED BY <2>2, OwnerIs DEF Kept
<1>2. /\ UNCHANGED <<env, count, changed, freed, thread, states, library, told, user, last, crashed>>
      /\ record' = [record EXCEPT ![p] = r]
  BY DEF Reset
<1> HIDE DEF p, v
<1>3. /\ r \in RecordType /\ r.name = record[p].name /\ r.index = record[p].index
      /\ r.state = record[p].state /\ r.handle.name = n
      /\ Ready(record[p], reader[Owner(p)].name) => r.connected /\ r.handle = record[p].handle
  <2>1. CASE ~record[p].asked
    BY <2>1, <1>1 DEF RecordType, Ready
  <2>2. CASE record[p].asked /\ ~Present(n)
    <3>1. r = record[p]
      BY <2>2, Zenon
    <3> HIDE DEF r
    <3> QED BY <3>1, <1>1 DEF Ready
  <2>3. CASE record[p].asked /\ Present(n)
    <3> DEFINE h == [record[p].handle EXCEPT !.made = inside[n]]
    <3>1. h \in Handle /\ h.name = n
      BY <2>3, <1>1, PresentIs DEF Handle, RecordType
    <3>2. Ready(record[p], reader[Owner(p)].name) => h = record[p].handle
      BY <1>1, <2>3 DEF Ready
    <3>3. r = [record[p] EXCEPT !.handle = h]
      BY <2>3, <1>1 DEF RecordType, Handle
    <3> HIDE DEF h, r
    <3> QED BY <3>1, <3>2, <3>3, <1>1 DEF RecordType, Ready
  <2> QED BY <2>1, <2>2, <2>3
<1> HIDE DEF r
<1>4. last'.reached \in {last'.sent, Nobody}
  BY <1>2 DEF Kept
<1> QED BY <1>1, <1>2, <1>3, <1>4, HandleStep

(* The end of a transmission frees its references.                         *)
LEMMA EndStep ==
    ASSUME CInv, End
    PROVE  CInv'
<1> USE DEF CInv
<1> DEFINE v == user[1].reader
           others == taken # <<>> /\ taken[1].reader = v
<1>1. /\ user # <<>> /\ user' = <<>> /\ Release(v, others)
      /\ last' = [sent |-> Nobody, reached |-> Nobody]
      /\ UNCHANGED <<env, thread, states, library, told, crashed>>
  BY DEF End
<1>2. Readers(user) = {v} /\ Readers(user') = {} /\ DOMAIN user' = {}
      /\ (others <=> v \in Readers(taken))
  <2>1. DOMAIN user = {1} /\ (taken # <<>> => DOMAIN taken = {1}) /\ (taken = <<>> => DOMAIN taken = {})
    BY <1>1, OneIs DEF TypeOK
  <2> QED BY <2>1, <1>1, NoReaders DEF Readers
<1>3. v \in Readers(queue) <=> \E k \in DOMAIN queue : queue[k].reader = v
  BY DEF Readers
<1> HIDE DEF v, others
<1>4. /\ Alive' \subseteq Alive /\ Alive \subseteq Alive' \cup {v} /\ v \in Alive
      /\ v \in Alive' <=> v \in list \cup leaked \/ others
                             \/ \E k \in DOMAIN queue : queue[k].reader = v
  BY <1>1, <1>2, <1>3, AliveIs DEF library, told
<1>5. TypeOK'
  <2>1. user' \in Seq(Use) /\ Len(user') <= 1
    BY <1>1
  <2>2. record' \in [0 .. MaxReaders - 1 -> RecordType] /\ count' \in 0 .. MaxReaders - 1
        /\ changed' \in BOOLEAN
    <3>1. CASE UNCHANGED array
      BY <3>1 DEF TypeOK, array
    <3>2. CASE delete_reader(reader[v].place) /\ UNCHANGED changed /\ v \notin list
      <4>1. record' \in [0 .. MaxReaders - 1 -> RecordType] /\ count' \in 0 .. MaxReaders - 1
        BY <3>2, <1>4, DeleteType, Zenon
      <4> QED BY <4>1, <3>2 DEF TypeOK
    <3> QED BY <3>1, <3>2, <1>1 DEF Release
  <2> QED BY <2>1, <2>2, <1>1 DEF TypeOK, env, library, told
<1>6. others \in BOOLEAN
  BY DEF others
<1>7. last'.reached \in {last'.sent, Nobody}
  BY <1>1
<1> QED BY <1>1, <1>2, <1>4, <1>5, <1>6, <1>7, ReleaseStep

-----------------------------------------------------------------------------
(* The invariant and what it says                                          *)

(* A step of anyone, or none                                               *)
LEMMA CapcscStep ==
    ASSUME Gentle, MaxFailures = 0, CInv, [Next]_vars
    PROVE  CInv'
<1>1. CASE World
  BY <1>1, WorldStep
<1>2. CASE Scan
  BY <1>2, ScanStep
<1>3. CASE Drop
  BY <1>3, DropStep
<1>4. CASE Prepare
  BY <1>4, PrepareStep
<1>5. CASE Wait
  BY <1>5, WaitStep
<1>6. CASE Process
  BY <1>6, ProcessStep
<1>7. CASE Take
  BY <1>7, TakeStep
<1>8. CASE Delete
  BY <1>8, DeleteStep
<1>9. CASE Begin
  BY <1>9, BeginStep
<1>10. CASE Transmit
  BY <1>10, TransmitStep
<1>11. CASE Reset
  BY <1>11, ResetStep
<1>12. CASE End
  BY <1>12, EndStep
<1>13. CASE UNCHANGED vars
  <2>1. UNCHANGED <<plugged, inside, listed, failures, record, count, changed, freed, thread, states,
                    reader, list, leaked, queue, taken, user, last, crashed>>
    BY <1>13 DEF vars, env, array, library, told
  <2>2. Alive' = Alive
    BY <2>1 DEF Alive
  <2>3. TypeOK' /\ Kept' /\ Regime' /\ CardReady'
    <3>1. TypeOK'
      BY <2>1 DEF CInv, TypeOK
    <3>2. Kept'
      BY <2>1, <2>2 DEF CInv, Kept, Owner
    <3>3. Regime' /\ CardReady'
      BY <2>1, <2>2 DEF CInv, Regime, CardReady, Present
    <3> QED BY <3>1, <3>2, <3>3
  <2>4. Told'
    BY <2>1 DEF CInv, Told, Aligned, Stale, Owner
  <2> QED BY <2>3, <2>4 DEF CInv
<1> QED BY <1>1, <1>2, <1>3, <1>4, <1>5, <1>6, <1>7, <1>8, <1>9, <1>10, <1>11, <1>12, <1>13
        DEF Next, EventThread, Application

(* The invariant holds whatever the interleaving.                          *)
LEMMA CapcscInvariant ==
    ASSUME Gentle, MaxFailures = 0
    PROVE  Spec => []CInv
<1>1. Init => CInv
  BY CStart
<1>2. CInv /\ [Next]_vars => CInv'
  BY CapcscStep
<1> QED BY <1>1, <1>2, PTL DEF Spec

(* The places of the records are those of the VReaders that are alive.     *)
LEMMA CountIs ==
    ASSUME TypeOK, Kept
    PROVE  count = Cardinality(Alive)
<1> DEFINE f == [p \in 0 .. count - 1 |-> Owner(p)]
<1>1. count \in Nat
  BY DEF TypeOK
<1>2. /\ f \in [0 .. count - 1 -> Alive]
      /\ \A p, q \in 0 .. count - 1 : f[p] = f[q] => p = q
      /\ \A v \in Alive : \E p \in 0 .. count - 1 : f[p] = v
  BY OwnerIs DEF Kept
<1> HIDE DEF f
<1>3. f \in Bijection(0 .. count - 1, Alive)
  BY <1>2 DEF Bijection, Injection, Surjection, IsInjective
<1>4. IsFiniteSet(0 .. count - 1) /\ Cardinality(0 .. count - 1) = count
  <2>1. Cardinality(0 .. count - 1) = IF 0 > count - 1 THEN 0 ELSE (count - 1) - 0 + 1
    BY <1>1, FS_Interval
  <2>2. IsFiniteSet(0 .. count - 1)
    BY <1>1, FS_Interval
  <2> QED BY <1>1, <2>1, <2>2
<1>5. Cardinality(0 .. count - 1) = Cardinality(Alive)
  BY <1>3, <1>4, FS_Bijection DEF ExistsBijection
<1> QED BY <1>4, <1>5

(* Each VReader that is alive keeps a record of its own at the place it    *)
(* was given, no other record is left, and no name is looked for that is   *)
(* NULL (capcsc.c:67, 83-88): whatever the event thread, the application   *)
(* and a user have in hand, a record is deleted when nothing holds its     *)
(* place any more.                                                         *)
THEOREM RecordsAlwaysNameReaders ==
    ASSUME Gentle, MaxFailures = 0
    PROVE  Spec => []RecordsNameReaders
<1>1. CInv => RecordsNameReaders
  <2> SUFFICES ASSUME CInv PROVE RecordsNameReaders
    OBVIOUS
  <2>1. TypeOK /\ Kept /\ ~ crashed /\ count = Cardinality(Alive)
    BY CountIs DEF CInv, TypeOK
  <2>2. ASSUME NEW v \in Alive
        PROVE  LET p == reader[v].place
               IN  p < count /\ record[p].name = v /\ record[p].index = p /\ v \notin freed
    BY <2>1 DEF Kept, Owner, TypeOK
  <2> QED BY <2>1, <2>2 DEF RecordsNameReaders
<1> QED BY <1>1, CapcscInvariant, PTL

(* Once a reader's record has the state of the reader, the VReader has the *)
(* card that is in it and the handle is connected to that card, or neither *)
(* has any (capcsc.c:339, 381).                                            *)
THEOREM CardAlwaysReady ==
    ASSUME Gentle, MaxFailures = 0
    PROVE  Spec => []CardReady
<1>1. CInv => CardReady
  BY DEF CInv
<1> QED BY <1>1, CapcscInvariant, PTL

(* The handle apdu_cb finds at the place its VCard was given is of the     *)
(* reader the APDU was sent to or of none (capcsc.c:268).                  *)
THEOREM ApduAlwaysReachesReader ==
    ASSUME Gentle, MaxFailures = 0
    PROVE  Spec => []ApduReachesReader
<1>1. CInv => ApduReachesReader
  <2> SUFFICES ASSUME CInv PROVE ApduReachesReader
    OBVIOUS
  <2>1. TypeOK /\ Kept
    BY DEF CInv
  <2>2. ASSUME NEW k \in DOMAIN user
        PROVE  LET p == user[k].card.place
               IN  p < count /\ record[p].name = user[k].reader
    <3>1. user[k].reader \in Alive
      BY DEF Alive
    <3>2. /\ reader[user[k].reader].place \in 0 .. count - 1
          /\ record[reader[user[k].reader].place].name = user[k].reader
          /\ user[k].card.place = reader[user[k].reader].place
      BY <2>1, <3>1 DEF Kept, Owner
    <3> QED BY <2>1, <3>2 DEF TypeOK
  <2> QED BY <2>1, <2>2 DEF ApduReachesReader, Kept
<1> QED BY <1>1, CapcscInvariant, PTL
=============================================================================
