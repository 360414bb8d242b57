---------------------------- MODULE VscClientProofs ----------------------------
(***************************************************************************)
(* vscclient, for every number of readers, requests and card changes: the  *)
(* messages on the socket keep their boundaries, the host's requests are   *)
(* answered in order, the answers about readers are not confused, and the  *)
(* host shows the cards that are in the readers.                           *)
(***************************************************************************)
EXTENDS VscClient, FiniteSetTheorems, SequenceTheorems, TLAPS

(* A set that has 0 and the successor of each of its numbers has them all: *)
(* otherwise the numbers up to one it lacks would be fewer than themselves *)
LEMMA SetInduction ==
    ASSUME NEW S, 0 \in S, \A n \in Nat : n \in S => n + 1 \in S
    PROVE  Nat \subseteq S
<1>1. SUFFICES ASSUME NEW x \in Nat, x \notin S PROVE FALSE
  OBVIOUS
<1> DEFINE T == {y \in 0 .. x : y \notin S}
           U == T \ {x}
           f == [y \in T |-> y - 1]
<1>2. \A y \in T : y \in Nat /\ y # 0 /\ y - 1 \in Nat /\ y - 1 \notin S /\ y - 1 < x
  BY <1>1
<1>3. f \in [T -> U]
  BY <1>2
<1>4. IsFiniteSet(T) /\ x \in T
  <2>1. IsFiniteSet(0 .. x) /\ T \in SUBSET (0 .. x) /\ x \in T
    BY <1>1, FS_Interval
  <2> HIDE DEF T
  <2> QED BY <2>1, FS_Subset
<1>5. IsFiniteSet(U) /\ Cardinality(U) = Cardinality(T) - 1 /\ Cardinality(T) \in Nat
  BY <1>4, FS_RemoveElement, FS_CardinalityType
<1>6. Cardinality(U) < Cardinality(T)
  BY <1>5
<1> HIDE DEF U, T, f
<1>7. \E y, z \in T : y # z /\ f[y] = f[z]
  BY <1>3, <1>4, <1>5, <1>6, FS_PigeonHole
<1> QED BY <1>2, <1>7 DEF f

(* FlattenSeq joins the sequences one after the other: what holds of the   *)
(* first and is kept by joining the next holds of all of them joined       *)
LEMMA FlattenInduction ==
    ASSUME NEW n \in Nat \ {0}, NEW f, Len(f) = n, NEW G, f[1] \in G[1],
           \A i \in 2 .. n : \A s \in G[i - 1] : s \o f[i] \in G[i]
    PROVE  FlattenSeq(f) \in G[n]
<1> DEFINE Joins(g, k) == /\ g = [i \in 1 .. k |-> g[i]]
                          /\ k >= 1 => g[1] = f[1]
                          /\ \A i \in 2 .. k : g[i] = g[i - 1] \o f[i]
           D == {k \in Nat : \E g : Joins(g, k)}
           Eq(h) == h = [i \in 1 .. n |-> IF i = 1 THEN f[i] ELSE h[i - 1] \o f[i]]
<1>1. 0 \in D
  <2>1. Joins([i \in 1 .. 0 |-> 0], 0)
    OBVIOUS
  <2> HIDE DEF Joins
  <2> QED BY <2>1
<1>2. ASSUME NEW k \in Nat, k \in D PROVE k + 1 \in D
  <2>1. PICK g : Joins(g, k)
    BY <1>2
  <2> DEFINE last == IF k = 0 THEN f[1] ELSE g[k] \o f[k + 1]
             h == [i \in 1 .. k + 1 |-> IF i = k + 1 THEN last ELSE g[i]]
  <2>2. \A i \in 1 .. k : h[i] = g[i]
    BY SMT
  <2>3. h[k + 1] = last
    BY SMT
  <2>4. h = [i \in 1 .. k + 1 |-> h[i]]
    OBVIOUS
  <2> HIDE DEF h
  <2>5. h[1] = f[1]
    <3>1. CASE k = 0
      BY <2>3, <3>1
    <3>2. CASE k # 0
      BY <2>1, <2>2, <3>2
    <3> QED BY <3>1, <3>2
  <2>6. ASSUME NEW i \in 2 .. k + 1 PROVE h[i] = h[i - 1] \o f[i]
    <3>1. CASE i = k + 1
      <4>1. k # 0 /\ i - 1 = k /\ h[k] = g[k]
        BY <3>1, <2>2
      <4> QED BY <4>1, <2>3, <3>1
    <3>2. CASE i # k + 1
      <4>1. i \in 2 .. k /\ h[i] = g[i] /\ h[i - 1] = g[i - 1]
        BY <3>2, <2>2
      <4> QED BY <4>1, <2>1
    <3> QED BY <3>1, <3>2
  <2>7. Joins(h, k + 1)
    BY <2>4, <2>5, <2>6
  <2> HIDE DEF Joins
  <2> QED BY <2>7
<1>3. Nat \subseteq D
  <2> HIDE DEF D
  <2> QED BY <1>1, <1>2, SetInduction
<1>4. PICK g : Joins(g, n)
  <2> HIDE DEF Joins
  <2> QED BY <1>3
<1>5. Eq(g)
  <2> DEFINE e(i) == IF i = 1 THEN f[i] ELSE g[i - 1] \o f[i]
  <2>1. ASSUME NEW i \in 1 .. n PROVE g[i] = e(i)
    <3>1. CASE i = 1
      BY <1>4, <3>1
    <3>2. CASE i # 1
      <4>1. i \in 2 .. n
        BY <3>2
      <4>2. g[i] = g[i - 1] \o f[i]
        BY <4>1, <1>4
      <4> QED BY <4>2, <3>2
    <3> QED BY <3>1, <3>2
  <2>2. g = [i \in 1 .. n |-> g[i]]
    BY <1>4
  <2> HIDE DEF e
  <2>3. g = [i \in 1 .. n |-> e(i)]
    BY <2>1, <2>2, Zenon
  <2> QED BY <2>3 DEF e
<1> DEFINE h == CHOOSE x : Eq(x)
<1>6. Eq(h)
  <2> HIDE DEF Eq
  <2> QED BY <1>5
<1>7. FlattenSeq(f) = h[n]
  BY DEF FlattenSeq
<1> HIDE DEF h
<1>8. h[1] = f[1] /\ \A i \in 2 .. n : h[i] = h[i - 1] \o f[i]
  <2> DEFINE e(i) == IF i = 1 THEN f[i] ELSE h[i - 1] \o f[i]
  <2>1. h = [i \in 1 .. n |-> e(i)]
    BY <1>6
  <2> HIDE DEF e
  <2>2. \A i \in 1 .. n : h[i] = e(i)
    BY <2>1, Zenon
  <2>3. \A i \in 1 .. n : h[i] = IF i = 1 THEN f[i] ELSE h[i - 1] \o f[i]
    BY <2>2 DEF e
  <2>4. 1 \in 1 .. n /\ \A i \in 2 .. n : i \in 1 .. n /\ i # 1
    OBVIOUS
  <2> QED BY <2>3, <2>4
<1> DEFINE E == {k \in Nat : k + 1 <= n => h[k + 1] \in G[k + 1]}
<1>9. 0 \in E
  BY <1>8
<1>10. ASSUME NEW k \in Nat, k \in E PROVE k + 1 \in E
  <2>1. CASE k + 2 <= n
    <3>1. k + 2 \in 2 .. n /\ (k + 2) - 1 = k + 1 /\ (k + 1) + 1 = k + 2
      BY <2>1
    <3>2. h[k + 1] \in G[k + 1]
      BY <1>10, <2>1
    <3>3. h[k + 2] = h[k + 1] \o f[k + 2]
      BY <3>1, <1>8
    <3>4. h[k + 2] \in G[k + 2]
      BY <3>1, <3>2, <3>3
    <3> QED BY <3>1, <3>4
  <2>2. CASE ~(k + 2 <= n)
    BY <2>2
  <2> QED BY <2>1, <2>2
<1>11. Nat \subseteq E
  <2> HIDE DEF E
  <2> QED BY <1>9, <1>10, SetInduction
<1> QED
  <2>1. n - 1 \in Nat /\ (n - 1) + 1 = n
    OBVIOUS
  <2>2. n - 1 \in E
    BY <1>11, <2>1
  <2> QED BY <2>1, <2>2, <1>7

-----------------------------------------------------------------------------
Event == [type : {"READER_INSERT", "CARD_INSERT", "CARD_REMOVE"}, reader : Readers]
Msg == [type : MessageTypes, id : Ids \cup {Undefined}, code : Codes, about : 0 .. NumReaders,
        n : Nat, re : MessageTypes, genuine : BOOLEAN]

(* What the client sends: answers belong to a request, and messages about  *)
(* a reader name one                                                       *)
Answering == {"APDU", "Error", "FlushComplete"}
AboutReader == {"ReaderAdd", "ATR", "CardRemove"}
Outgoing == {m \in Msg : /\ m.type \in Answering <=> m.n # 0
                         /\ m.type \in AboutReader => m.about \in Readers
                         /\ m.id = 0}

(* What the host sends: requests have a number, and an Error answers a     *)
(* message of the client, with the id or the refusal it has for it         *)
Incoming == {m \in Msg : /\ m.type \in {"APDU", "Flush"} <=> m.n # 0
                         /\ m.type = "Error" <=> m.re # "none"
                         /\ m.re \in {"none", "ReaderAdd"} \cup HostAnswers
                         /\ m.re \in AboutReader => m.about \in Readers
                         /\ m.code = "SUCCESS" => m.id \in Ids
                         /\ m.re = "ReaderAdd" => m.code \in {"SUCCESS"} \cup AddErrors
                         /\ m.re \in {"ReaderRemove", "CardRemove"} => m.code = "SUCCESS"}
Chunk == [part : {"header", "body"}, m : Incoming]

Steps == {"off", "idle", "insert", "announce", "check", "decision", "forward"}

TypeOK ==
    /\ present \in [Readers -> BOOLEAN]
    /\ events \in Seq(Event)
    /\ id \in [Readers -> Ids \cup {Undefined}]
    /\ pc \in Steps
    /\ pc \notin {"off", "idle"} => event \in Event
    /\ pending \in 0 .. NumReaders
    /\ socket_to_send \in Seq(Outgoing) /\ toHost \in Seq(Outgoing)
    /\ state \in {"HEADER", "MESSAGE"} /\ mhHeader \in Incoming
    /\ toClient \in Seq(Chunk)
    /\ allocated \in [Readers -> Ids \cup {Undefined}]
    /\ asked \in Nat /\ answered \in Seq(Nat)

LEMMA ConstantFacts ==
    /\ NumReaders \in Nat \ {0} /\ Readers \subseteq 0 .. NumReaders /\ None \notin Readers
    /\ None \in 0 .. NumReaders /\ 0 \in Ids /\ 0 \in Nat
BY ClientAssumption DEF Readers, None, Ids

LEMMA MessageType ==
    ASSUME NEW type \in MessageTypes, NEW i \in Ids \cup {Undefined}, NEW code \in Codes,
           NEW r \in 0 .. NumReaders, NEW n \in Nat, NEW re \in MessageTypes
    PROVE  Message(type, i, code, r, n, re) \in Msg
BY DEF Message, Msg

(* The message that send_msg queues is one of the client's *)
LEMMA SendType ==
    ASSUME NEW type \in MessageTypes, NEW i, NEW r \in 0 .. NumReaders, NEW n \in Nat,
           type \in Answering <=> n # 0, type \in AboutReader => r \in Readers
    PROVE  send_msg(type, i, r, n) \in Outgoing
<1>1. 0 \in Ids \cup {Undefined} /\ "none" \in Codes /\ "none" \in MessageTypes
  BY ConstantFacts DEF Codes, MessageTypes
<1>2. send_msg(type, i, r, n) \in Msg
  BY <1>1, MessageType DEF send_msg
<1>3. /\ send_msg(type, i, r, n).type = type /\ send_msg(type, i, r, n).about = r
      /\ send_msg(type, i, r, n).n = n /\ send_msg(type, i, r, n).id = 0
  BY DEF send_msg, Message
<1> QED BY <1>2, <1>3 DEF Outgoing

LEMMA CardMessageType ==
    ASSUME event \in Event, present \in [Readers -> BOOLEAN]
    PROVE  CardMessage \in Outgoing /\ CardMessage.type \in {"ATR", "CardRemove"}
           /\ CardMessage.about = event.reader
           /\ (CardMessage.type = "CardRemove" <=> event.type # "CARD_INSERT")
<1> DEFINE r == event.reader
           a == send_msg("ATR", id[r], r, 0)
           c == send_msg("CardRemove", id[r], r, 0)
<1>1. r \in Readers /\ r \in 0 .. NumReaders
  BY ConstantFacts DEF Event
<1>2. /\ "ATR" \in MessageTypes /\ "CardRemove" \in MessageTypes
      /\ "ATR" \notin Answering /\ "CardRemove" \notin Answering
  BY DEF MessageTypes, Answering
<1>3. a \in Outgoing /\ c \in Outgoing
  BY <1>1, <1>2, SendType, ConstantFacts
<1>4. a.type = "ATR" /\ a.about = r /\ c.type = "CardRemove" /\ c.about = r
  BY DEF send_msg, Message
<1>5. present[r] \in BOOLEAN
  BY <1>1
<1> HIDE DEF a, c, r
<1> DEFINE ag == [a EXCEPT !.genuine = present[r]]
<1>6. ag \in Msg
  BY <1>3, <1>5, Zenon DEF Msg, Outgoing
<1>7. ag.type = a.type /\ ag.about = a.about /\ ag.n = a.n /\ ag.id = a.id
  BY <1>3 DEF Msg, Outgoing
<1> HIDE DEF ag
<1>8. ag \in Outgoing
  BY <1>3, <1>6, <1>7 DEF Outgoing
<1>9. CASE event.type = "CARD_INSERT"
  <2>1. CardMessage = ag
    BY <1>9 DEF CardMessage, ag, a, r
  <2> QED BY <2>1, <1>4, <1>7, <1>8, <1>9 DEF r
<1>10. CASE event.type # "CARD_INSERT"
  <2>1. CardMessage = c
    BY <1>10 DEF CardMessage, c, r
  <2> QED BY <2>1, <1>3, <1>4, <1>10 DEF r
<1> QED BY <1>9, <1>10

(* A message is a header and, unless it is a Flush, its payload *)
LEMMA ChunksAre ==
    ASSUME NEW m \in Incoming
    PROVE  /\ Chunks(m) \in Seq(Chunk)
           /\ m.type = "Flush" => Chunks(m) = <<[part |-> "header", m |-> m]>>
           /\ m.type # "Flush" => Chunks(m) = <<[part |-> "header", m |-> m],
                                                [part |-> "body", m |-> m]>>
<1>1. CASE m.type = "Flush"
  BY <1>1 DEF Chunks, Chunk
<1>2. CASE m.type # "Flush"
  <2> DEFINE h == [part |-> "header", m |-> m]
             b == [part |-> "body", m |-> m]
  <2>1. h \in Chunk /\ b \in Chunk
    BY DEF Chunk
  <2>2. Chunks(m) = <<h>> \o <<b>>
    BY <1>2 DEF Chunks
  <2> HIDE DEF h, b
  <2>3. <<h>> \o <<b>> = <<h, b>>
    <3>1. <<h>> \in Seq(Chunk) /\ <<b>> \in Seq(Chunk) /\ <<h, b>> \in Seq(Chunk)
      BY <2>1
    <3>2. Len(<<h>>) = 1 /\ Len(<<b>>) = 1 /\ Len(<<h, b>>) = 2
          /\ <<h>>[1] = h /\ <<b>>[1] = b /\ <<h, b>>[1] = h /\ <<h, b>>[2] = b
      OBVIOUS
    <3> DEFINE s == <<h>>
               t == <<b>>
               u == <<h, b>>
    <3> HIDE DEF s, t, u
    <3>3. (s \o t) \in Seq(Chunk) /\ Len(s \o t) = 2 /\ (s \o t)[1] = h /\ (s \o t)[2] = b
      <4>1. s \in Seq(Chunk) /\ t \in Seq(Chunk) /\ Len(s) = 1 /\ Len(t) = 1 /\ s[1] = h /\ t[1] = b
        BY <3>1, <3>2 DEF s, t
      <4>2. /\ s \o t \in Seq(Chunk) /\ Len(s \o t) = Len(s) + Len(t)
            /\ \A i \in 1 .. Len(s) + Len(t) :
                  (s \o t)[i] = IF i <= Len(s) THEN s[i] ELSE t[i - Len(s)]
        BY <4>1, ConcatProperties
      <4>3. (s \o t)[1] = s[1] /\ (s \o t)[2] = t[1]
        BY <4>1, <4>2
      <4> QED BY <4>1, <4>2, <4>3
    <3>4. u \in Seq(Chunk) /\ Len(u) = 2 /\ u[1] = h /\ u[2] = b
      BY <3>1, <3>2 DEF u
    <3>5. \A i \in 1 .. 2 : (s \o t)[i] = u[i]
      <4>1. \A i \in 1 .. 2 : i = 1 \/ i = 2
        OBVIOUS
      <4> QED BY <4>1, <3>3, <3>4
    <3>6. s \o t = u
      BY <3>3, <3>4, <3>5, SeqEqual
    <3> QED BY <3>6 DEF s, t, u
  <2>4. <<h, b>> \in Seq(Chunk)
    BY <2>1
  <2> QED BY <1>2, <2>2, <2>3, <2>4 DEF h, b
<1> QED BY <1>1, <1>2

(* What the command exit says of the readers the host has given an id:     *)
(* messages of two types, which answer no request                          *)
Parting == {m \in Outgoing : /\ m.type \in {"CardRemove", "ReaderRemove"} /\ m.n = 0
                             /\ m.about \in Readers /\ id[m.about] # Undefined}

LEMMA PartingWords ==
    ASSUME TypeOK
    PROVE  FlattenSeq([r \in Readers |-> Farewell(r)]) \in Seq(Parting)
<1> DEFINE n == NumReaders
           f == [r \in Readers |-> Farewell(r)]
           G == [i \in 1 .. n |-> Seq(Parting)]
<1>1. n \in Nat \ {0} /\ Readers = 1 .. n
  BY ClientAssumption DEF Readers
<1>2. ASSUME NEW r \in Readers PROVE Farewell(r) \in Seq(Parting)
  <2> DEFINE c == send_msg("CardRemove", id[r], r, 0)
             d == send_msg("ReaderRemove", id[r], r, 0)
  <2>1. r \in 0 .. NumReaders /\ 0 \in Nat
    BY <1>1
  <2>2. "CardRemove" \in MessageTypes /\ "ReaderRemove" \in MessageTypes
    BY DEF MessageTypes
  <2>3. c \in Outgoing /\ d \in Outgoing
    BY <2>1, <2>2, SendType DEF Answering, AboutReader
  <2>4. /\ c.type = "CardRemove" /\ c.n = 0 /\ d.type = "ReaderRemove" /\ d.n = 0
        /\ c.about = r /\ d.about = r
    BY DEF send_msg, Message
  <2>6. \/ Farewell(r) = <<>>
        \/ id[r] # Undefined /\ Farewell(r) = <<c>> \o <<d>>
        \/ id[r] # Undefined /\ Farewell(r) = <<>> \o <<d>>
    BY DEF Farewell
  <2> HIDE DEF c, d
  <2>5. id[r] # Undefined => c \in Parting /\ d \in Parting
    BY <2>3, <2>4 DEF Parting
  <2>7. /\ id[r] # Undefined =>
              <<c>> \o <<d>> \in Seq(Parting) /\ <<>> \o <<d>> \in Seq(Parting)
        /\ <<>> \in Seq(Parting)
    BY <2>5
  <2> QED BY <2>6, <2>7
<1>3. f \in [1 .. n -> Seq(Parting)]
  <2> HIDE DEF n
  <2> QED BY <1>1, <1>2
<1>4. Len(f) = n
  BY <1>1, <1>3
<1>5. f[1] \in G[1] /\ \A i \in 2 .. n : \A s \in G[i - 1] : s \o f[i] \in G[i]
  <2> HIDE DEF f, n
  <2>1. 1 \in 1 .. n /\ \A i \in 2 .. n : i \in 1 .. n /\ i - 1 \in 1 .. n
    BY <1>1
  <2>2. \A i \in 1 .. n : G[i] = Seq(Parting) /\ f[i] \in Seq(Parting)
    BY <1>3
  <2>3. \A s, t \in Seq(Parting) : s \o t \in Seq(Parting)
    OBVIOUS
  <2> HIDE DEF G
  <2> QED BY <2>1, <2>2, <2>3
<1>6. FlattenSeq(f) \in G[n]
  <2> HIDE DEF f, n, G
  <2> QED BY <1>1, <1>4, <1>5, FlattenInduction
<1> QED BY <1>6, <1>1

-----------------------------------------------------------------------------
(* and the host's answers are those of Incoming *)
LEMMA ReplyType ==
    ASSUME NEW m \in Outgoing, NEW code \in Codes \ {"none"}, NEW i \in Ids \cup {Undefined},
           m.type \in {"ReaderAdd"} \cup HostAnswers, code = "SUCCESS" => i \in Ids,
           m.type # "ReaderAdd" => code = "SUCCESS"
    PROVE  Message("Error", i, code, m.about, 0, m.type) \in Incoming
<1> DEFINE a == Message("Error", i, code, m.about, 0, m.type)
<1>1. m.about \in 0 .. NumReaders /\ m.type \in MessageTypes
  BY DEF Outgoing, Msg
<1>2. a \in Msg
  BY <1>1, MessageType DEF MessageTypes
<1>3. /\ a.type = "Error" /\ a.n = 0 /\ a.re = m.type /\ a.about = m.about
      /\ a.code = code /\ a.id = i
  BY DEF Message
<1> HIDE DEF a
<1>4. m.type \in {"ReaderAdd", "ReaderRemove", "CardRemove"}
  BY ClientAssumption
<1>5. m.type \in AboutReader => m.about \in Readers
  BY DEF Outgoing
<1>6. (a.type \in {"APDU", "Flush"} <=> a.n # 0) /\ (a.type = "Error" <=> a.re # "none")
  BY <1>3, <1>4
<1>7. a.re \in {"none", "ReaderAdd"} \cup HostAnswers /\ (a.re \in AboutReader => a.about \in Readers)
  BY <1>3, <1>5
<1>8. /\ a.code = "SUCCESS" => a.id \in Ids
      /\ a.re = "ReaderAdd" => a.code \in {"SUCCESS"} \cup AddErrors
      /\ a.re \in {"ReaderRemove", "CardRemove"} => a.code = "SUCCESS"
  BY <1>3 DEF Codes
<1>9. a \in Incoming
  BY <1>2, <1>6, <1>7, <1>8 DEF Incoming
<1> QED BY <1>9 DEF a

(* The host's own messages *)
LEMMA HostSays ==
    /\ Message("Init", 0, "none", None, 0, "none") \in Incoming
    /\ \A type \in {"APDU", "Flush"}, i \in Ids, n \in Nat :
          n # 0 => Message(type, i, "none", None, n, "none") \in Incoming
<1>1. ASSUME NEW type \in {"Init", "APDU", "Flush"}, NEW i \in Ids, NEW n \in Nat,
             type # "Init" <=> n # 0
      PROVE  Message(type, i, "none", None, n, "none") \in Incoming
  <2> DEFINE a == Message(type, i, "none", None, n, "none")
  <2>1. type \in MessageTypes /\ "none" \in Codes /\ "none" \in MessageTypes
    BY DEF MessageTypes, Codes
  <2>2. a \in Msg
    BY <2>1, MessageType, ConstantFacts
  <2>3. a.type = type /\ a.n = n /\ a.re = "none" /\ a.code = "none"
    BY DEF Message
  <2> HIDE DEF a
  <2>4. (a.type \in {"APDU", "Flush"} <=> a.n # 0) /\ a.type # "Error"
    BY <1>1, <2>3
  <2>5. a.re \notin AboutReader /\ a.re # "ReaderRemove" /\ a.code # "SUCCESS"
    BY <2>3 DEF AboutReader
  <2>6. a \in Incoming
    BY <2>2, <2>3, <2>4, <2>5 DEF Incoming
  <2> QED BY <2>6 DEF a
<1> QED BY <1>1, ConstantFacts

(* A set of numbers has a smallest *)
LEMMA Smallest ==
    ASSUME NEW S \in SUBSET Nat, S # {}
    PROVE  \E x \in S : \A y \in S : x <= y
<1> DEFINE T == {n \in Nat : \A y \in S : n <= y}
<1>1. SUFFICES ASSUME ~ \E x \in S : \A y \in S : x <= y PROVE FALSE
  OBVIOUS
<1>2. 0 \in T
  OBVIOUS
<1>3. ASSUME NEW n \in Nat, n \in T PROVE n + 1 \in T
  <2>1. n \notin S
    BY <1>1, <1>3
  <2>2. \A y \in S : n <= y /\ n # y
    BY <1>3, <2>1
  <2> QED BY <2>2
<1>4. Nat \subseteq T
  <2> HIDE DEF T
  <2> QED BY <1>2, <1>3, SetInduction
<1>5. PICK s \in S : TRUE
  OBVIOUS
<1>6. s + 1 \in T
  BY <1>4, <1>5
<1> QED BY <1>5, <1>6

LEMMA ReaderById ==
    ASSUME NEW i
    PROVE  LET r == vreader_get_reader_by_id(i)
           IN r \in 0 .. NumReaders /\ (r # None => r \in Readers /\ id[r] = i /\ i # Undefined)
<1> DEFINE found == {r \in Readers : i # Undefined /\ id[r] = i}
           q == CHOOSE r \in found : \A q \in found : r <= q
<1>1. found \in SUBSET Nat
  BY ClientAssumption DEF Readers
<1>2. CASE found = {}
  BY <1>2, ClientAssumption DEF vreader_get_reader_by_id, None
<1>3. CASE found # {}
  <2>1. \E r \in found : \A p \in found : r <= p
    <3> HIDE DEF found
    <3> QED BY <1>1, <1>3, Smallest
  <2>2. q \in found
    <3> HIDE DEF found
    <3> QED BY <2>1
  <2>3. vreader_get_reader_by_id(i) = q
    BY <1>3 DEF vreader_get_reader_by_id
  <2> HIDE DEF q
  <2> QED BY <2>2, <2>3, ClientAssumption DEF Readers
<1> QED BY <1>2, <1>3

(* The queue at the start: every reader's insertion once, with that of its *)
(* card behind it if there is one                                          *)
StartQueue(k) ==
    {s \in Seq(Event) :
        /\ \A i \in 1 .. Len(s) : s[i].type # "CARD_REMOVE" /\ s[i].reader \in 1 .. k
        /\ \A i, j \in 1 .. Len(s) : s[i].type = "READER_INSERT" /\ s[i] = s[j] => i = j
        /\ \A i, j \in 1 .. Len(s) :
              s[i].type = "READER_INSERT" /\ s[j].type # "READER_INSERT"
              /\ s[i].reader = s[j].reader => i < j
        /\ \A i \in 1 .. Len(s) : s[i].type = "CARD_INSERT" => present[s[i].reader]
        /\ \A r \in 1 .. k : present[r] =>
              \E i \in 1 .. Len(s) : s[i].type = "CARD_INSERT" /\ s[i].reader = r}

LEMMA InitialEventsAre ==
    ASSUME NEW r \in Readers
    PROVE  LET t == InitialEvents(r)
           IN /\ t \in Seq(Event) /\ Len(t) \in {1, 2}
              /\ t[1] = LibraryEvent("READER_INSERT", r)
              /\ Len(t) = 2 => t[2] = LibraryEvent("CARD_INSERT", r)
              /\ Len(t) = 2 <=> present[r]
<1> DEFINE i == LibraryEvent("READER_INSERT", r)
           c == LibraryEvent("CARD_INSERT", r)
           a == <<i>>
           b == <<c>>
           e == <<>>
<1>1. i \in Event /\ c \in Event
  BY DEF LibraryEvent, Event
<1>2. CardEvent(r, TRUE) = c
  BY DEF CardEvent
<1>3. \/ present[r] /\ InitialEvents(r) = a \o b
      \/ ~present[r] /\ InitialEvents(r) = a \o e
  BY <1>2 DEF InitialEvents
<1> HIDE DEF i, c
<1>4. /\ a \in Seq(Event) /\ Len(a) = 1 /\ a[1] = i
      /\ b \in Seq(Event) /\ Len(b) = 1 /\ b[1] = c
      /\ e \in Seq(Event) /\ Len(e) = 0
  BY <1>1
<1> HIDE DEF a, b, e
<1>5. a \o b \in Seq(Event) /\ Len(a \o b) = 2 /\ (a \o b)[1] = i /\ (a \o b)[2] = c
  <2>1. /\ a \o b \in Seq(Event) /\ Len(a \o b) = Len(a) + Len(b)
        /\ \A k \in 1 .. Len(a) + Len(b) :
              (a \o b)[k] = IF k <= Len(a) THEN a[k] ELSE b[k - Len(a)]
    BY <1>4, ConcatProperties
  <2>2. (a \o b)[1] = a[1] /\ (a \o b)[2] = b[1]
    BY <1>4, <2>1
  <2> QED BY <1>4, <2>1, <2>2
<1>6. a \o e \in Seq(Event) /\ Len(a \o e) = 1 /\ (a \o e)[1] = i
  BY <1>4
<1> DEFINE t == InitialEvents(r)
<1>7. CASE present[r] /\ InitialEvents(r) = a \o b
  BY <1>5, <1>7 DEF i, c
<1>8. CASE ~present[r] /\ InitialEvents(r) = a \o e
  BY <1>6, <1>8 DEF i, c
<1> QED BY <1>3, <1>7, <1>8

LEMMA InitialQueue == Init => events \in StartQueue(NumReaders)
<1> SUFFICES ASSUME Init PROVE events \in StartQueue(NumReaders)
  OBVIOUS
<1> DEFINE n == NumReaders
           f == [r \in Readers |-> InitialEvents(r)]
           G == [k \in 1 .. n |-> StartQueue(k)]
<1>1. n \in Nat \ {0} /\ Readers = 1 .. n
  BY ConstantFacts DEF Readers
<1>2. f \in [1 .. n -> Seq(Event)]
  BY <1>1, InitialEventsAre
<1>3. Len(f) = n
  BY <1>1, <1>2
<1>4. f[1] \in G[1]
  <2> DEFINE t == InitialEvents(1)
  <2>1. 1 \in Readers /\ f[1] = t /\ G[1] = StartQueue(1)
    BY <1>1
  <2>2. /\ t \in Seq(Event) /\ Len(t) \in {1, 2}
        /\ t[1] = LibraryEvent("READER_INSERT", 1)
        /\ Len(t) = 2 => t[2] = LibraryEvent("CARD_INSERT", 1)
        /\ Len(t) = 2 <=> present[1]
    BY <2>1, InitialEventsAre
  <2> HIDE DEF t
  <2>3. t \in StartQueue(1)
    BY <2>2 DEF StartQueue, LibraryEvent
  <2> QED BY <2>1, <2>3
<1>5. ASSUME NEW k \in 2 .. n, NEW s \in G[k - 1] PROVE s \o f[k] \in G[k]
  <2> DEFINE t == InitialEvents(k)
             u == s \o t
             m == Len(s)
  <2>1. k \in Readers /\ k - 1 \in 1 .. n /\ k \in 1 .. n /\ f[k] = t
    BY <1>1
  <2>2. s \in StartQueue(k - 1)
    BY <1>5, <2>1
  <2>3. /\ t \in Seq(Event) /\ Len(t) \in {1, 2}
        /\ t[1] = LibraryEvent("READER_INSERT", k)
        /\ Len(t) = 2 => t[2] = LibraryEvent("CARD_INSERT", k)
        /\ Len(t) = 2 <=> present[k]
    BY <2>1, InitialEventsAre
  <2> HIDE DEF t
  <2>4. s \in Seq(Event)
    BY <2>2 DEF StartQueue
  <2>5. /\ u \in Seq(Event) /\ Len(u) = m + Len(t) /\ m \in Nat
        /\ \A i \in 1 .. m : u[i] = s[i]
        /\ \A i \in 1 .. Len(t) : u[m + i] = t[i]
    BY <2>3, <2>4
  <2>6. /\ u[m + 1] = LibraryEvent("READER_INSERT", k)
        /\ Len(t) = 2 => u[m + 2] = LibraryEvent("CARD_INSERT", k)
    BY <2>3, <2>5
  <2> HIDE DEF u, m
  <2>7. \A i \in 1 .. Len(u) : i \in 1 .. m \/ i = m + 1 \/ (i = m + 2 /\ Len(t) = 2)
    <3>1. CASE Len(t) = 1
      BY <2>5, <3>1
    <3>2. CASE Len(t) = 2
      BY <2>5, <3>2
    <3> QED BY <2>3, <3>1, <3>2
  <2>8. \A i \in 1 .. m : /\ u[i] = s[i] /\ s[i].type # "CARD_REMOVE"
                          /\ s[i].reader \in 1 .. k - 1 /\ i \in 1 .. Len(u)
    BY <2>2, <2>5 DEF StartQueue, m
  <2>9. /\ u[m + 1].type = "READER_INSERT" /\ u[m + 1].reader = k
        /\ Len(t) = 2 => u[m + 2].type = "CARD_INSERT" /\ u[m + 2].reader = k
        /\ m + 1 \in 1 .. Len(u) /\ (Len(t) = 2 => m + 2 \in 1 .. Len(u))
    BY <2>3, <2>5, <2>6 DEF LibraryEvent
  <2>10. \A i \in 1 .. Len(u) : u[i].type # "CARD_REMOVE" /\ u[i].reader \in 1 .. k
    BY <2>7, <2>8, <2>9, <2>1
  <2>11. ASSUME NEW i \in 1 .. Len(u), NEW j \in 1 .. Len(u),
                u[i].type = "READER_INSERT", u[i] = u[j]
         PROVE  i = j
    <3>1. CASE i \in 1 .. m
      <4>1. u[i].reader # k
        BY <3>1, <2>8, <2>1
      <4>2. j \in 1 .. m
        BY <4>1, <2>7, <2>9, <2>11
      <4> QED BY <3>1, <4>2, <2>2, <2>8, <2>11 DEF StartQueue, m
    <3>2. CASE i = m + 1
      <4>1. j \notin 1 .. m
        BY <3>2, <2>8, <2>9, <2>11, <2>1
      <4> QED BY <3>2, <4>1, <2>7, <2>9, <2>11
    <3>3. CASE i = m + 2 /\ Len(t) = 2
      BY <3>3, <2>9, <2>11
    <3> QED BY <2>7, <3>1, <3>2, <3>3
  <2>12. ASSUME NEW i \in 1 .. Len(u), NEW j \in 1 .. Len(u), u[i].type = "READER_INSERT",
                u[j].type # "READER_INSERT", u[i].reader = u[j].reader
         PROVE  i < j
    <3>1. CASE i \in 1 .. m
      <4>1. CASE j \in 1 .. m
        BY <3>1, <4>1, <2>2, <2>8, <2>12 DEF StartQueue, m
      <4>2. CASE j \notin 1 .. m
        BY <3>1, <4>2, <2>5, <2>7
      <4> QED BY <4>1, <4>2
    <3>2. CASE i = m + 1
      <4>1. j \notin 1 .. m
        BY <3>2, <2>8, <2>9, <2>12, <2>1
      <4> QED BY <3>2, <4>1, <2>5, <2>7, <2>9, <2>12
    <3>3. CASE i = m + 2 /\ Len(t) = 2
      BY <3>3, <2>9, <2>12
    <3> QED BY <2>7, <3>1, <3>2, <3>3
  <2>13. ASSUME NEW i \in 1 .. Len(u), u[i].type = "CARD_INSERT" PROVE present[u[i].reader]
    <3>1. CASE i \in 1 .. m
      BY <3>1, <2>2, <2>8, <2>13 DEF StartQueue, m
    <3>2. CASE i = m + 1
      BY <3>2, <2>9, <2>13
    <3>3. CASE i = m + 2 /\ Len(t) = 2
      BY <3>3, <2>9, <2>3
    <3> QED BY <2>7, <3>1, <3>2, <3>3
  <2>14. ASSUME NEW r \in 1 .. k, present[r]
         PROVE  \E i \in 1 .. Len(u) : u[i].type = "CARD_INSERT" /\ u[i].reader = r
    <3>1. CASE r = k
      BY <3>1, <2>3, <2>9, <2>14
    <3>2. CASE r # k
      <4>1. r \in 1 .. k - 1
        BY <3>2, <2>1
      <4>2. PICK i \in 1 .. m : s[i].type = "CARD_INSERT" /\ s[i].reader = r
        BY <4>1, <2>2, <2>14 DEF StartQueue, m
      <4> QED BY <4>2, <2>8
    <3> QED BY <3>1, <3>2
  <2>15. u \in StartQueue(k)
    BY <2>5, <2>10, <2>11, <2>12, <2>13, <2>14 DEF StartQueue
  <2> QED BY <2>1, <2>15 DEF u
<1>6. FlattenSeq(f) \in G[n]
  <2> HIDE DEF f, n, G
  <2> QED BY <1>1, <1>3, <1>4, <1>5, FlattenInduction
<1>7. events = FlattenSeq(f) /\ n \in 1 .. n
  BY <1>1 DEF Init
<1> QED BY <1>6, <1>7

LEMMA TypeInit == Init => TypeOK
<1> SUFFICES ASSUME Init PROVE TypeOK
  OBVIOUS
<1>1. events \in Seq(Event)
  BY InitialQueue DEF StartQueue
<1>2. present \in [Readers -> BOOLEAN]
  BY DEF Init
<1>3. send_msg("Init", 0, None, 0) \in Outgoing
  BY SendType, ConstantFacts DEF MessageTypes, Answering, AboutReader
<1>4. send_msg("none", 0, None, 0) \in Incoming
  <2> DEFINE m == send_msg("none", 0, None, 0)
  <2>1. m \in Outgoing
    BY SendType, ConstantFacts DEF MessageTypes, Answering, AboutReader
  <2>2. m.type = "none" /\ m.n = 0 /\ m.re = "none" /\ m.code = "none"
    BY DEF send_msg, Message
  <2> HIDE DEF m
  <2>3. m \in Incoming
    BY <2>1, <2>2 DEF Outgoing, Incoming, AboutReader
  <2> QED BY <2>3 DEF m
<1>5. <<send_msg("Init", 0, None, 0)>> \in Seq(Outgoing)
  BY <1>3
<1>6. /\ id = [r \in Readers |-> Undefined] /\ allocated = [r \in Readers |-> Undefined]
      /\ pc = "off" /\ pending = None /\ state = "HEADER"
      /\ socket_to_send = <<send_msg("Init", 0, None, 0)>>
      /\ mhHeader = send_msg("none", 0, None, 0)
      /\ toHost = <<>> /\ toClient = <<>> /\ asked = 0 /\ answered = <<>>
  BY DEF Init
<1> QED BY <1>1, <1>2, <1>4, <1>5, <1>6, ConstantFacts DEF TypeOK, Steps
LEMMA TypeStep == TypeOK /\ [Next]_vars => TypeOK'
<1> SUFFICES ASSUME TypeOK, [Next]_vars PROVE TypeOK'
  OBVIOUS
<1>0. CASE UNCHANGED vars
  BY <1>0 DEF TypeOK, vars, library, thread, socket, host, wire
<1> USE DEF TypeOK
<1>1. CASE TakeEvent
  <2>1. Head(events) \in Event /\ Tail(events) \in Seq(Event)
    BY <1>1 DEF TakeEvent
  <2>2. pc' \in {"insert", "check", "forward"}
    BY <1>1 DEF TakeEvent
  <2> QED BY <1>1, <2>1, <2>2 DEF TakeEvent, socket, wire, host, Steps
<1>2. CASE DropUnlessPending
  BY <1>2 DEF DropUnlessPending, Delete, library, socket, wire, host, Steps
<1>3. CASE WaitForDecision
  BY <1>3 DEF WaitForDecision, library, socket, wire, host, Steps
<1>4. CASE Decided
  <2>1. pc' \in {"idle", "forward"} /\ event' = event /\ pc = "decision"
    BY <1>4 DEF Decided, Delete
  <2> QED BY <1>4, <2>1 DEF Decided, library, socket, wire, host, Steps
<1>5. CASE ReaderInsert
  <2>1. event.reader \in 0 .. NumReaders
    BY <1>5, ClientAssumption DEF ReaderInsert, Event, Readers
  <2> QED BY <1>5, <2>1 DEF ReaderInsert, library, socket, wire, host, Steps
<1>6. CASE Announce
  <2>1. event.reader \in 0 .. NumReaders
    BY <1>6, ClientAssumption DEF Announce, Event, Readers
  <2>2. "ReaderAdd" \in MessageTypes /\ "ReaderAdd" \notin Answering /\ event.reader \in Readers
    BY <1>6 DEF MessageTypes, Answering, Announce, Event
  <2>3. send_msg("ReaderAdd", Undefined, event.reader, 0) \in Outgoing
    BY <2>1, <2>2, SendType, ConstantFacts
  <2> QED BY <1>6, <2>3 DEF Announce, library, socket, wire, host, Steps
<1>7. CASE Forward
  <2>1. CardMessage \in Outgoing
    BY <1>7, CardMessageType DEF Forward
  <2> QED BY <1>7, <2>1 DEF Forward, library, socket, wire, host, Steps
<1>8. CASE SocketSend
  <2>1. Head(socket_to_send) \in Outgoing /\ Tail(socket_to_send) \in Seq(Outgoing)
    BY <1>8 DEF SocketSend
  <2> QED BY <1>8, <2>1 DEF SocketSend, library, thread, socket, host
<1>9. CASE ReadHeader
  <2>1. Head(toClient) \in Chunk /\ Tail(toClient) \in Seq(Chunk)
    BY <1>9 DEF ReadHeader, Readable
  <2>2. Head(toClient).m \in Incoming
    BY <2>1 DEF Chunk
  <2> QED BY <1>9, <2>1, <2>2 DEF ReadHeader, library, thread, host
<1>10. ASSUME NEW type, ReadMessage(type)
       PROVE  /\ toClient' \in Seq(Chunk) /\ state' \in {"HEADER", "MESSAGE"}
              /\ UNCHANGED <<library, mhHeader, exited, toHost, host>>
              /\ mhHeader.n \in Nat /\ mhHeader.id \in Ids \cup {Undefined}
  BY <1>10 DEF ReadMessage, Readable, Msg, Incoming
<1>11. CASE OnApdu
  <2> DEFINE r == vreader_get_reader_by_id(mhHeader.id)
             type == IF r # None /\ present[r] THEN "APDU" ELSE "Error"
             m == send_msg(type, mhHeader.id, r, mhHeader.n)
  <2>1. type \in MessageTypes /\ type \in Answering /\ type \notin AboutReader
    BY DEF MessageTypes, Answering, AboutReader
  <2>2. r \in 0 .. NumReaders
    BY ReaderById
  <2>6. mhHeader.type = "APDU" /\ mhHeader.n # 0 /\ mhHeader.n \in Nat
    BY <1>11, <1>10 DEF OnApdu, ReadMessage, Incoming
  <2>3. m \in Outgoing
    <3> HIDE DEF type, r
    <3> QED BY <2>1, <2>2, <2>6, SendType
  <2>4. socket_to_send' = Append(socket_to_send, m) /\ UNCHANGED <<id, thread, pending>>
    BY <1>11 DEF OnApdu
  <2> HIDE DEF m
  <2>5. socket_to_send' \in Seq(Outgoing)
    BY <2>3, <2>4
  <2> QED BY <2>5, <2>4, <1>10, <1>11 DEF OnApdu, library, host, thread
<1>12. CASE OnFlush
  <2> DEFINE m == send_msg("FlushComplete", mhHeader.id, None, mhHeader.n)
  <2>1. "FlushComplete" \in MessageTypes /\ "FlushComplete" \in Answering
        /\ "FlushComplete" \notin AboutReader
    BY DEF MessageTypes, Answering, AboutReader
  <2>2. mhHeader.type = "Flush" /\ mhHeader.n # 0 /\ mhHeader.n \in Nat
    BY <1>12, <1>10 DEF OnFlush, ReadMessage, Incoming
  <2>3. m \in Outgoing
    BY <2>1, <2>2, SendType, ConstantFacts
  <2>4. socket_to_send' = Append(socket_to_send, m) /\ UNCHANGED <<id, thread, pending>>
    BY <1>12 DEF OnFlush
  <2> HIDE DEF m
  <2>5. socket_to_send' \in Seq(Outgoing)
    BY <2>3, <2>4
  <2> QED BY <2>5, <2>4, <1>10, <1>12 DEF OnFlush, library, host, thread
<1>13. CASE OnSuccess
  <2>1. id' \in [Readers -> Ids \cup {Undefined}] /\ pending' \in 0 .. NumReaders
    BY <1>13, <1>10, ClientAssumption DEF OnSuccess, None
  <2> QED BY <2>1, <1>10, <1>13 DEF OnSuccess, library, host, thread
<1>14. CASE OnRefusal
  <2>1. pending' \in 0 .. NumReaders
    BY <1>14, ClientAssumption DEF OnRefusal, None
  <2> QED BY <2>1, <1>10, <1>14 DEF OnRefusal, library, host, thread
<1>15. CASE OnInit
  <2> DEFINE m == send_msg("ReaderRemove", 0, None, 0)
  <2>1. "ReaderRemove" \in MessageTypes /\ "ReaderRemove" \notin Answering
        /\ "ReaderRemove" \notin AboutReader
    BY DEF MessageTypes, Answering, AboutReader
  <2>3. m \in Outgoing
    BY <2>1, SendType, ConstantFacts
  <2>4. socket_to_send' = Append(socket_to_send, m) /\ UNCHANGED <<id, event, lost, pending>>
        /\ pc' = "idle"
    BY <1>15 DEF OnInit
  <2> HIDE DEF m
  <2>5. socket_to_send' \in Seq(Outgoing)
    BY <2>3, <2>4
  <2> QED BY <2>5, <2>4, <1>10, <1>15 DEF OnInit, library, host, Steps
<1>16. CASE Exit
  <2>1. FlattenSeq([r \in Readers |-> Farewell(r)]) \in Seq(Outgoing)
    <3>1. FlattenSeq([r \in Readers |-> Farewell(r)]) \in Seq(Parting)
      BY PartingWords
    <3> QED BY <3>1 DEF Parting
  <2> HIDE DEF TypeOK
  <2>2. socket_to_send' \in Seq(Outgoing)
    BY <1>16, <2>1 DEF Exit, TypeOK
  <2> QED BY <1>16, <2>2 DEF Exit, library, thread, socket, wire, host, TypeOK
<1>17. ASSUME NEW r \in Readers, Move(r),
              UNCHANGED <<id, thread, pending, socket_to_send, socket, exited, wire, host>>
       PROVE  TypeOK'
  <2>1. CardEvent(r, ~present[r]) \in Event
    BY DEF CardEvent, LibraryEvent, Event
  <2>2. present' \in [Readers -> BOOLEAN]
    BY <1>17, Zenon DEF Move
  <2>3. events' \in Seq(Event)
    BY <1>17, <2>1 DEF Move
  <2> QED BY <1>17, <2>2, <2>3 DEF thread, socket, wire, host
<1>18. ASSUME NEW type, Receive(type)
       PROVE  /\ toHost # <<>> /\ Head(toHost) \in Outgoing /\ toHost' \in Seq(Outgoing)
              /\ Head(toHost).n \in Nat /\ Head(toHost).about \in 0 .. NumReaders
              /\ Head(toHost).type = type
              /\ UNCHANGED <<library, id, thread, pending, socket_to_send, socket, exited>>
  <2>1. toHost # <<>> /\ Head(toHost) \in Outgoing /\ toHost' \in Seq(Outgoing)
    BY <1>18 DEF Receive
  <2>2. Head(toHost).n \in Nat /\ Head(toHost).about \in 0 .. NumReaders
    BY <2>1 DEF Outgoing, Msg
  <2> QED BY <1>18, <2>1, <2>2 DEF Receive
<1>19. ASSUME NEW m \in Incoming, toClient' = toClient \o Chunks(m) PROVE toClient' \in Seq(Chunk)
  BY <1>19, ChunksAre
<1>20. ASSUME NEW type, Receive(type), ReplyTo(Head(toHost)) PROVE toClient' \in Seq(Chunk)
  <2>1. CASE Head(toHost).type \in HostAnswers
    <3>1. Head(toHost).id \in Ids
      BY <1>18, <1>20, ConstantFacts DEF Outgoing
    <3>2. Message("Error", Head(toHost).id, "SUCCESS", Head(toHost).about, 0, Head(toHost).type)
          \in Incoming
      BY <1>18, <1>20, <2>1, <3>1, ReplyType DEF Codes
    <3> QED BY <1>20, <1>19, <2>1, <3>2 DEF ReplyTo, Reply
  <2>2. CASE Head(toHost).type \notin HostAnswers
    BY <1>20, <2>2 DEF ReplyTo
  <2> QED BY <2>1, <2>2
<1>21. CASE HostInit
  <2>1. toClient' \in Seq(Chunk)
    BY <1>21, HostSays, <1>19 DEF HostInit
  <2> QED BY <1>21, <1>18, <2>1 DEF HostInit, host, library, thread, socket
<1>22. CASE HostReaderRemove
  BY <1>22, <1>18, <1>20 DEF HostReaderRemove, library, thread, socket
<1>23. CASE HostReaderAdd
  <2>1. toClient' \in Seq(Chunk) /\ allocated' \in [Readers -> Ids \cup {Undefined}]
    <3>1. CASE \E i \in FreeSlots :
                /\ \A j \in FreeSlots : i <= j
                /\ slots' = [slots EXCEPT ![i] = "empty"]
                /\ allocated' = [allocated EXCEPT ![Head(toHost).about] = i]
                /\ Reply("SUCCESS", i, Head(toHost))
      <4>1. PICK i \in FreeSlots :
                /\ allocated' = [allocated EXCEPT ![Head(toHost).about] = i]
                /\ Reply("SUCCESS", i, Head(toHost))
        BY <3>1
      <4>2. i \in Ids
        BY DEF FreeSlots
      <4>3. Message("Error", i, "SUCCESS", Head(toHost).about, 0, Head(toHost).type) \in Incoming
        BY <1>18, <1>23, <4>2, ReplyType DEF Codes, HostReaderAdd
      <4> QED BY <4>1, <4>2, <4>3, <1>19 DEF Reply
    <3>2. CASE /\ \E code \in AddErrors : Reply(code, Undefined, Head(toHost))
               /\ UNCHANGED <<slots, allocated>>
      <4>1. PICK code \in AddErrors : Reply(code, Undefined, Head(toHost))
        BY <3>2
      <4>2. code \in Codes \ {"none"} /\ code # "SUCCESS"
        BY ClientAssumption DEF Codes
      <4>3. Message("Error", Undefined, code, Head(toHost).about, 0, Head(toHost).type) \in Incoming
        BY <1>18, <1>23, <4>2, ReplyType DEF HostReaderAdd
      <4> QED BY <4>1, <3>2, <4>3, <1>19 DEF Reply
    <3> QED BY <1>23, <3>1, <3>2 DEF HostReaderAdd
  <2> QED BY <1>23, <1>18, <2>1 DEF HostReaderAdd, library, thread, socket
<1>24. ASSUME NEW type, HostCard(type) PROVE TypeOK'
  BY <1>24, <1>18, <1>20 DEF HostCard, library, thread, socket
<1>25. ASSUME NEW type, HostAnswered(type) PROVE TypeOK'
  BY <1>25, <1>18 DEF HostAnswered, library, thread, socket
<1>26. ASSUME NEW type \in {"APDU", "Flush"}, NEW i \in Ids, HostAsks(type, i) PROVE TypeOK'
  <2> DEFINE m == Message(type, i, "none", None, asked + 1, "none")
  <2>1. m \in Incoming
    BY HostSays
  <2>2. toClient' = toClient \o Chunks(m) /\ asked' \in Nat
    BY <1>26 DEF HostAsks
  <2>3. toClient' \in Seq(Chunk)
    BY <2>1, <2>2, <1>19
  <2> QED BY <1>26, <2>2, <2>3 DEF HostAsks, library, thread, socket
<1>27. 0 \in Ids
  BY ClientAssumption DEF Ids
<1> HIDE DEF TypeOK
<1>28. ASSUME NEW i \in Ids, CardCommand(i) PROVE TypeOK'
  BY <1>28, <1>17, ReaderById DEF CardCommand
<1> QED
  BY <1>0, <1>1, <1>2, <1>3, <1>4, <1>5, <1>6, <1>7, <1>8, <1>9, <1>11, <1>12, <1>13, <1>14,
     <1>15, <1>16, <1>17, <1>21, <1>22, <1>23, <1>24, <1>25, <1>26, <1>27, <1>28
     DEF Next, EventThread, SocketRead, HostHandles, CardMoves

-----------------------------------------------------------------------------
(* The host sends a whole message *)
Sends(m) == toClient' = toClient \o Chunks(m) /\ UNCHANGED <<state, mhHeader>>

-----------------------------------------------------------------------------
(* Marks on the elements of a sequence, 0 for the elements that have none: *)
(* which there are, and that any two of them stand in the relation Rel in  *)
(* the order of the sequence.                                              *)
Marks(F, s) == {F[s[i]] : i \in 1 .. Len(s)} \ {0}
Mark(x) == {x} \ {0}
Ordered(F, s, Rel) ==
    \A i, j \in 1 .. Len(s) :
        i < j /\ F[s[i]] # 0 /\ F[s[j]] # 0 => <<F[s[i]], F[s[j]]>> \in Rel
Before(X, Y, Rel) == \A x \in X, y \in Y : <<x, y>> \in Rel

LEMMA JoinMarks ==
    ASSUME NEW S, NEW F, NEW s \in Seq(S), NEW t \in Seq(S), NEW Rel
    PROVE  /\ Marks(F, s \o t) = Marks(F, s) \cup Marks(F, t)
           /\ Ordered(F, s \o t, Rel) <=> /\ Ordered(F, s, Rel) /\ Ordered(F, t, Rel)
                                          /\ Before(Marks(F, s), Marks(F, t), Rel)
<1> DEFINE u == s \o t
           n == Len(s)
<1>1. /\ u \in Seq(S) /\ Len(u) = n + Len(t) /\ n \in Nat /\ Len(t) \in Nat
      /\ \A i \in 1 .. n : u[i] = s[i]
      /\ \A i \in 1 .. Len(t) : u[n + i] = t[i]
  OBVIOUS
<1>2. \A i \in 1 .. Len(u) : i \in 1 .. n \/ (i - n \in 1 .. Len(t) /\ u[i] = t[i - n])
  <2>1. ASSUME NEW i \in 1 .. Len(u), i \notin 1 .. n
        PROVE  i - n \in 1 .. Len(t) /\ u[i] = t[i - n]
    <3>1. i - n \in 1 .. Len(t) /\ n + (i - n) = i
      BY <1>1, <2>1
    <3> QED BY <3>1, <1>1
  <2> QED BY <2>1
<1>3. /\ \A i \in 1 .. n : i \in 1 .. Len(u)
      /\ \A i \in 1 .. Len(t) : n + i \in 1 .. Len(u)
  BY <1>1
<1> HIDE DEF u, n
<1>4. Marks(F, u) = Marks(F, s) \cup Marks(F, t)
  <2>1. ASSUME NEW x \in Marks(F, u) PROVE x \in Marks(F, s) \cup Marks(F, t)
    <3>1. PICK i \in 1 .. Len(u) : x = F[u[i]] /\ x # 0
      BY <2>1 DEF Marks
    <3>2. CASE i \in 1 .. n
      BY <3>1, <3>2, <1>1 DEF Marks, n
    <3>3. CASE i - n \in 1 .. Len(t) /\ u[i] = t[i - n]
      BY <3>1, <3>3 DEF Marks
    <3> QED BY <3>2, <3>3, <1>2
  <2>2. ASSUME NEW x \in Marks(F, s) PROVE x \in Marks(F, u)
    BY <1>1, <1>3, <2>2 DEF Marks, n
  <2>3. ASSUME NEW x \in Marks(F, t) PROVE x \in Marks(F, u)
    BY <1>1, <1>3, <2>3 DEF Marks
  <2> QED BY <2>1, <2>2, <2>3
<1>5. ASSUME Ordered(F, u, Rel)
      PROVE  Ordered(F, s, Rel) /\ Ordered(F, t, Rel) /\ Before(Marks(F, s), Marks(F, t), Rel)
  <2>1. Ordered(F, s, Rel)
    BY <1>1, <1>3, <1>5 DEF Ordered, n
  <2>2. Ordered(F, t, Rel)
    <3>1. ASSUME NEW i \in 1 .. Len(t), NEW j \in 1 .. Len(t), i < j,
                 F[t[i]] # 0, F[t[j]] # 0
          PROVE  <<F[t[i]], F[t[j]]>> \in Rel
      <4>1. n + i \in 1 .. Len(u) /\ n + j \in 1 .. Len(u) /\ n + i < n + j
            /\ u[n + i] = t[i] /\ u[n + j] = t[j]
        BY <1>1, <1>3, <3>1
      <4> QED BY <4>1, <3>1, <1>5 DEF Ordered
    <3> QED BY <3>1 DEF Ordered
  <2>3. ASSUME NEW x \in Marks(F, s), NEW y \in Marks(F, t) PROVE <<x, y>> \in Rel
    <3>1. PICK i \in 1 .. n : x = F[s[i]] /\ x # 0
      BY DEF Marks, n
    <3>2. PICK j \in 1 .. Len(t) : y = F[t[j]] /\ y # 0
      BY DEF Marks
    <3>3. i \in 1 .. Len(u) /\ n + j \in 1 .. Len(u) /\ i < n + j
          /\ u[i] = s[i] /\ u[n + j] = t[j]
      BY <1>1, <1>3
    <3> QED BY <3>1, <3>2, <3>3, <1>5 DEF Ordered
  <2> QED BY <2>1, <2>2, <2>3 DEF Before
<1>6. ASSUME Ordered(F, s, Rel), Ordered(F, t, Rel), Before(Marks(F, s), Marks(F, t), Rel)
      PROVE  Ordered(F, u, Rel)
  <2>1. SUFFICES ASSUME NEW i \in 1 .. Len(u), NEW j \in 1 .. Len(u), i < j,
                        F[u[i]] # 0, F[u[j]] # 0
                 PROVE  <<F[u[i]], F[u[j]]>> \in Rel
    BY DEF Ordered
  <2>2. CASE j \in 1 .. n
    <3>1. i \in 1 .. n /\ u[i] = s[i] /\ u[j] = s[j]
      BY <1>1, <2>1, <2>2
    <3> QED BY <3>1, <2>1, <2>2, <1>6 DEF Ordered, n
  <2>3. CASE i \in 1 .. n /\ j \notin 1 .. n
    <3>1. u[i] = s[i] /\ u[j] = t[j - n] /\ j - n \in 1 .. Len(t)
      BY <1>1, <1>2, <2>3
    <3>2. F[u[i]] \in Marks(F, s) /\ F[u[j]] \in Marks(F, t)
      BY <3>1, <2>1, <2>3 DEF Marks, n
    <3> QED BY <3>2, <1>6 DEF Before
  <2>4. CASE i \notin 1 .. n /\ j \notin 1 .. n
    <3>1. /\ u[i] = t[i - n] /\ i - n \in 1 .. Len(t) /\ u[j] = t[j - n] /\ j - n \in 1 .. Len(t)
          /\ i - n < j - n
      BY <1>1, <1>2, <2>1, <2>4
    <3> QED BY <3>1, <2>1, <1>6 DEF Ordered
  <2> QED BY <1>1, <2>1, <2>2, <2>3, <2>4
<1> QED BY <1>4, <1>5, <1>6 DEF u

LEMMA OneMark ==
    ASSUME NEW F, NEW x, NEW Rel
    PROVE  Marks(F, <<x>>) = Mark(F[x]) /\ Ordered(F, <<x>>, Rel)
<1>1. Len(<<x>>) = 1 /\ <<x>>[1] = x
  OBVIOUS
<1> DEFINE s == <<x>>
<1> HIDE DEF s
<1>2. Len(s) = 1 /\ s[1] = x
  BY <1>1 DEF s
<1>3. Marks(F, s) = Mark(F[x]) /\ Ordered(F, s, Rel)
  BY <1>2 DEF Marks, Mark, Ordered
<1> QED BY <1>3 DEF s

LEMMA AppendMarks ==
    ASSUME NEW S, NEW F, NEW s \in Seq(S), NEW x \in S, NEW Rel
    PROVE  /\ Marks(F, Append(s, x)) = Marks(F, s) \cup Mark(F[x])
           /\ Ordered(F, Append(s, x), Rel) <=>
                 Ordered(F, s, Rel) /\ Before(Marks(F, s), Mark(F[x]), Rel)
<1>1. <<x>> \in Seq(S)
  OBVIOUS
<1>2. Append(s, x) = s \o <<x>>
  OBVIOUS
<1> DEFINE o == <<x>>
<1>3. Marks(F, o) = Mark(F[x]) /\ Ordered(F, o, Rel)
  BY OneMark
<1> HIDE DEF o
<1>4. /\ Marks(F, s \o o) = Marks(F, s) \cup Marks(F, o)
      /\ Ordered(F, s \o o, Rel) <=> /\ Ordered(F, s, Rel) /\ Ordered(F, o, Rel)
                                     /\ Before(Marks(F, s), Marks(F, o), Rel)
  BY <1>1, JoinMarks DEF o
<1> QED BY <1>2, <1>3, <1>4, Zenon DEF o

LEMMA TailMarks ==
    ASSUME NEW S, NEW F, NEW s \in Seq(S), s # <<>>, NEW Rel
    PROVE  /\ Marks(F, s) = Mark(F[Head(s)]) \cup Marks(F, Tail(s))
           /\ Ordered(F, s, Rel) <=> /\ Ordered(F, Tail(s), Rel)
                                     /\ Before(Mark(F[Head(s)]), Marks(F, Tail(s)), Rel)
<1>1. <<Head(s)>> \in Seq(S) /\ Tail(s) \in Seq(S)
  OBVIOUS
<1>2. s = <<Head(s)>> \o Tail(s)
  OBVIOUS
<1> DEFINE o == <<Head(s)>>
           t == Tail(s)
<1>3. Marks(F, o) = Mark(F[Head(s)]) /\ Ordered(F, o, Rel)
  BY OneMark
<1> HIDE DEF o, t
<1>4. /\ Marks(F, o \o t) = Marks(F, o) \cup Marks(F, t)
      /\ Ordered(F, o \o t, Rel) <=> /\ Ordered(F, o, Rel) /\ Ordered(F, t, Rel)
                                     /\ Before(Marks(F, o), Marks(F, t), Rel)
  BY <1>1, JoinMarks DEF o, t
<1> QED BY <1>2, <1>3, <1>4, Zenon DEF o, t

(* The mark of a message is that of its header, and its payload has none *)
OfHeader(F) == [c \in Chunk |-> IF c.part = "header" THEN F[c.m] ELSE 0]

LEMMA ChunkMarks ==
    ASSUME NEW s \in Seq(Chunk), NEW m \in Incoming, NEW F, NEW Rel
    PROVE  /\ Marks(OfHeader(F), s \o Chunks(m)) = Marks(OfHeader(F), s) \cup Mark(F[m])
           /\ Ordered(OfHeader(F), s \o Chunks(m), Rel) <=>
                 Ordered(OfHeader(F), s, Rel) /\ Before(Marks(OfHeader(F), s), Mark(F[m]), Rel)
<1> DEFINE G == OfHeader(F)
           h == [part |-> "header", m |-> m]
           b == [part |-> "body", m |-> m]
           t == Chunks(m)
<1>1. /\ t \in Seq(Chunk) /\ Len(t) \in {1, 2} /\ t[1] = h /\ (Len(t) = 2 => t[2] = b)
  <2>1. CASE m.type = "Flush"
    BY <2>1, ChunksAre
  <2>2. CASE m.type # "Flush"
    BY <2>2, ChunksAre
  <2> QED BY <2>1, <2>2
<1>2. G[h] = F[m] /\ G[b] = 0
  <2>1. h \in Chunk /\ b \in Chunk /\ h.part = "header" /\ h.m = m /\ b.part = "body"
    BY DEF Chunk
  <2> HIDE DEF h, b
  <2> QED BY <2>1 DEF OfHeader
<1> HIDE DEF G, h, b, t
<1>3. Marks(G, t) = Mark(F[m])
  <2>1. \A i \in 1 .. Len(t) : i = 1 \/ (i = 2 /\ Len(t) = 2)
    <3>1. CASE Len(t) = 1
      BY <3>1
    <3>2. CASE Len(t) = 2
      BY <3>2
    <3> QED BY <3>1, <3>2, <1>1
  <2>2. 1 \in 1 .. Len(t) /\ G[t[1]] = F[m]
    BY <1>1, <1>2
  <2>3. \A i \in 1 .. Len(t) : G[t[i]] = F[m] \/ G[t[i]] = 0
    BY <1>1, <1>2, <2>1
  <2> QED BY <2>2, <2>3 DEF Marks, Mark
<1>4. Ordered(G, t, Rel)
  BY <1>1, <1>2 DEF Ordered
<1>5. /\ Marks(G, s \o t) = Marks(G, s) \cup Marks(G, t)
      /\ Ordered(G, s \o t, Rel) <=> /\ Ordered(G, s, Rel) /\ Ordered(G, t, Rel)
                                     /\ Before(Marks(G, s), Marks(G, t), Rel)
  BY <1>1, JoinMarks
<1> QED BY <1>3, <1>4, <1>5, Zenon DEF G, t

-----------------------------------------------------------------------------
(* What a step does to the messages under way, on both sides: messages     *)
(* that answer nothing are queued, one is sent, the next header is read,   *)
(* its message is handled and a request answered, the host takes a message *)
(* and perhaps replies, or it asks.                                        *)
pipe == <<toHost, socket_to_send, state, mhHeader, toClient, asked, answered>>
inside == <<present, events, id, pc, event, lost, pending, exited>>

QueueWords(z) ==
    /\ z \in Seq(Outgoing) /\ \A i \in 1 .. Len(z) : z[i].n = 0
    /\ socket_to_send' = socket_to_send \o z
    /\ UNCHANGED <<toHost, state, mhHeader, toClient, asked, answered>>

SendOne ==
    /\ socket_to_send # <<>>
    /\ toHost' = Append(toHost, Head(socket_to_send))
    /\ socket_to_send' = Tail(socket_to_send)
    /\ UNCHANGED <<state, mhHeader, toClient, asked, answered>>

TakeHeader ==
    /\ toClient # <<>> /\ state = "HEADER" /\ state' = "MESSAGE"
    /\ mhHeader' = Head(toClient).m /\ toClient' = Tail(toClient)
    /\ UNCHANGED <<toHost, socket_to_send, asked, answered>>

Handle ==
    /\ state = "MESSAGE" /\ state' = "HEADER" /\ ~exited
    /\ toClient # <<>>
    /\ toClient' = IF mhHeader.type = "Flush" THEN toClient ELSE Tail(toClient)
    /\ \/ \E m \in Outgoing : /\ m.n = mhHeader.n /\ m.type \notin AboutReader \cup {"Init"}
                              /\ socket_to_send' = Append(socket_to_send, m)
       \/ mhHeader.n = 0 /\ UNCHANGED socket_to_send
    /\ UNCHANGED <<toHost, mhHeader, asked, answered>>

(* A reply is the Init of the host or says what message it answers *)
Replies(m, h) ==
    /\ m.n = 0
    /\ \/ m.type = "Init" /\ h.type = "Init"
       \/ m.type = "Error" /\ h.type # "Init" /\ m.re = h.type /\ m.about = h.about

HostTakes ==
    /\ toHost # <<>> /\ toHost' = Tail(toHost)
    /\ answered' = IF Head(toHost).n = 0 THEN answered ELSE Append(answered, Head(toHost).n)
    /\ \/ Head(toHost).type \notin {"ReaderAdd", "Init"} /\ UNCHANGED <<state, mhHeader, toClient>>
       \/ \E m \in Incoming : Replies(m, Head(toHost)) /\ Sends(m)
    /\ UNCHANGED <<socket_to_send, asked>>

HostAsksNext ==
    /\ asked' = asked + 1
    /\ \E m \in Incoming : m.n = asked + 1 /\ m.re = "none" /\ Sends(m)
    /\ UNCHANGED <<toHost, socket_to_send, answered>>

LEMMA OneWord ==
    ASSUME TypeOK, NEW m \in Outgoing, m.n = 0, socket_to_send' = Append(socket_to_send, m),
           UNCHANGED <<toHost, state, mhHeader, toClient, asked, answered>>
    PROVE  QueueWords(<<m>>)
<1> DEFINE z == <<m>>
<1>1. z \in Seq(Outgoing) /\ Len(z) = 1 /\ z[1] = m
  OBVIOUS
<1>2. socket_to_send' = socket_to_send \o z
  BY DEF TypeOK
<1> HIDE DEF z
<1>3. QueueWords(z)
  BY <1>1, <1>2 DEF QueueWords
<1> QED BY <1>3 DEF z

(* A reader's announcement *)
Announcement == send_msg("ReaderAdd", Undefined, event.reader, 0)

LEMMA AnnounceQueues ==
    ASSUME TypeOK, Announce
    PROVE  /\ QueueWords(<<Announcement>>)
           /\ Announcement \in Outgoing /\ Announcement.type = "ReaderAdd"
           /\ Announcement.about = event.reader
<1> DEFINE m == Announcement
<1>1. event.reader \in Readers
  BY DEF TypeOK, Announce, Event
<1>2. "ReaderAdd" \in MessageTypes /\ "ReaderAdd" \notin Answering
  BY DEF MessageTypes, Answering
<1>3. m \in Outgoing
  BY <1>1, <1>2, SendType, ConstantFacts DEF Announcement
<1>4. m.n = 0 /\ m.type = "ReaderAdd" /\ m.about = event.reader
  BY DEF send_msg, Message, Announcement
<1>5. socket_to_send' = Append(socket_to_send, m)
  BY DEF Announce, Announcement
<1> HIDE DEF m
<1>6. UNCHANGED <<toHost, state, mhHeader, toClient, asked, answered>>
  BY DEF Announce, wire, socket, host
<1>7. QueueWords(<<m>>)
  BY <1>3, <1>4, <1>5, <1>6, OneWord
<1> QED BY <1>3, <1>4, <1>7 DEF m

LEMMA ForwardQueues ==
    ASSUME TypeOK, Forward
    PROVE  /\ QueueWords(<<CardMessage>>)
           /\ CardMessage \in Outgoing /\ CardMessage.type \in {"ATR", "CardRemove"}
           /\ CardMessage.about = event.reader
           /\ CardMessage.type = "CardRemove" <=> event.type # "CARD_INSERT"
<1>1. event \in Event /\ present \in [Readers -> BOOLEAN]
  BY DEF TypeOK, Forward
<1>2. /\ CardMessage \in Outgoing /\ CardMessage.type \in {"ATR", "CardRemove"}
      /\ CardMessage.about = event.reader
      /\ CardMessage.type = "CardRemove" <=> event.type # "CARD_INSERT"
  BY <1>1, CardMessageType
<1>3. CardMessage.n = 0
  BY <1>2 DEF Outgoing, Answering, Msg
<1>4. socket_to_send' = Append(socket_to_send, CardMessage)
      /\ UNCHANGED <<toHost, state, mhHeader, toClient, asked, answered>>
  BY DEF Forward, wire, socket, host
<1>5. QueueWords(<<CardMessage>>)
  BY <1>2, <1>3, <1>4, OneWord
<1> QED BY <1>2, <1>5

Farewells == FlattenSeq([r \in Readers |-> Farewell(r)])

LEMMA ExitQueues ==
    ASSUME TypeOK, Exit
    PROVE  QueueWords(Farewells) /\ Farewells \in Seq(Parting)
<1> DEFINE z == Farewells
<1>1. z \in Seq(Parting)
  BY PartingWords DEF Farewells
<1>2. socket_to_send' = socket_to_send \o z
  BY DEF Exit, Farewells
<1> HIDE DEF z
<1>3. z \in Seq(Outgoing) /\ \A i \in 1 .. Len(z) : z[i].n = 0
  BY <1>1 DEF Parting
<1>4. UNCHANGED <<toHost, state, mhHeader, toClient, asked, answered>>
  BY DEF Exit, wire, socket, host
<1>5. QueueWords(z)
  BY <1>2, <1>3, <1>4 DEF QueueWords
<1> QED BY <1>1, <1>5 DEF z

LEMMA ReadHandles ==
    ASSUME TypeOK, OnApdu \/ OnFlush \/ OnSuccess \/ OnRefusal \/ OnInit
    PROVE  Handle
<1>1. ASSUME NEW type, ReadMessage(type)
      PROVE  /\ state = "MESSAGE" /\ state' = "HEADER" /\ mhHeader.type = type /\ ~exited
             /\ toClient # <<>>
             /\ toClient' = IF mhHeader.type = "Flush" THEN toClient ELSE Tail(toClient)
             /\ UNCHANGED <<toHost, mhHeader, asked, answered>>
             /\ mhHeader.n \in Nat
             /\ type \in {"APDU", "Flush"} <=> mhHeader.n # 0
  <2>1. mhHeader \in Incoming /\ state \in {"HEADER", "MESSAGE"}
    BY DEF TypeOK
  <2> QED BY <1>1, <2>1 DEF ReadMessage, Readable, host, Incoming, Msg
<1>2. CASE OnApdu
  <2> DEFINE r == vreader_get_reader_by_id(mhHeader.id)
             type == IF r # None /\ present[r] THEN "APDU" ELSE "Error"
             m == send_msg(type, mhHeader.id, r, mhHeader.n)
  <2>1. type \in MessageTypes /\ type \in Answering /\ type \notin AboutReader \cup {"Init"}
    BY DEF MessageTypes, Answering, AboutReader
  <2>2. r \in 0 .. NumReaders
    BY ReaderById
  <2>3. ReadMessage("APDU")
    BY <1>2 DEF OnApdu
  <2>4. m \in Outgoing
    <3> HIDE DEF type, r
    <3> QED BY <2>1, <2>2, <2>3, <1>1, SendType
  <2>5. m.n = mhHeader.n /\ m.type \notin AboutReader \cup {"Init"}
    <3> HIDE DEF type
    <3> QED BY <2>1 DEF send_msg, Message
  <2>6. socket_to_send' = Append(socket_to_send, m)
    BY <1>2 DEF OnApdu
  <2> HIDE DEF m
  <2> QED BY <1>1, <2>3, <2>4, <2>5, <2>6 DEF Handle
<1>3. CASE OnFlush
  <2> DEFINE m == send_msg("FlushComplete", mhHeader.id, None, mhHeader.n)
  <2>1. "FlushComplete" \in MessageTypes /\ "FlushComplete" \in Answering
        /\ "FlushComplete" \notin AboutReader \cup {"Init"}
    BY DEF MessageTypes, Answering, AboutReader
  <2>3. ReadMessage("Flush")
    BY <1>3 DEF OnFlush
  <2>4. m \in Outgoing
    BY <2>1, <2>3, <1>1, SendType, ConstantFacts
  <2>5. m.n = mhHeader.n /\ m.type \notin AboutReader \cup {"Init"}
    BY <2>1 DEF send_msg, Message
  <2>6. socket_to_send' = Append(socket_to_send, m)
    BY <1>3 DEF OnFlush
  <2> HIDE DEF m
  <2> QED BY <1>1, <2>3, <2>4, <2>5, <2>6 DEF Handle
<1>4. CASE OnSuccess \/ OnRefusal
  <2>1. ReadMessage("Error") /\ UNCHANGED socket_to_send
    BY <1>4 DEF OnSuccess, OnRefusal
  <2> QED BY <1>1, <2>1 DEF Handle
<1>5. CASE OnInit
  <2> DEFINE m == send_msg("ReaderRemove", 0, None, 0)
  <2>1. "ReaderRemove" \in MessageTypes /\ "ReaderRemove" \notin Answering
        /\ "ReaderRemove" \notin AboutReader \cup {"Init"}
    BY DEF MessageTypes, Answering, AboutReader
  <2>3. ReadMessage("Init")
    BY <1>5 DEF OnInit
  <2>4. m \in Outgoing
    BY <2>1, SendType, ConstantFacts
  <2>5. m.n = 0 /\ mhHeader.n = 0 /\ m.type \notin AboutReader \cup {"Init"}
    BY <2>1, <2>3, <1>1 DEF send_msg, Message
  <2>6. socket_to_send' = Append(socket_to_send, m)
    BY <1>5 DEF OnInit
  <2> HIDE DEF m
  <2> QED BY <1>1, <2>3, <2>4, <2>5, <2>6 DEF Handle
<1> QED BY <1>2, <1>3, <1>4, <1>5

LEMMA HostStep ==
    ASSUME TypeOK, HostHandles
    PROVE  HostTakes /\ UNCHANGED inside
<1>1. ASSUME NEW type, Receive(type)
      PROVE  /\ toHost # <<>> /\ toHost' = Tail(toHost)
             /\ Head(toHost) \in Outgoing /\ Head(toHost).type = type
             /\ UNCHANGED <<socket_to_send, state, mhHeader>> /\ UNCHANGED inside
             /\ type \in Answering <=> Head(toHost).n # 0
  <2>1. toHost # <<>> => Head(toHost) \in Outgoing
    BY DEF TypeOK
  <2> QED BY <1>1, <2>1 DEF Receive, socket, Outgoing, inside, library, thread
<1>2. CASE HostInit
  <2> DEFINE m == Message("Init", 0, "none", None, 0, "none")
  <2>1. m \in Incoming /\ m.n = 0 /\ m.type = "Init"
    BY HostSays DEF Message
  <2>2. Head(toHost).n = 0 /\ Receive("Init") /\ Head(toHost).type = "Init"
    BY <1>1, <1>2 DEF HostInit, Answering
  <2>3. toClient' = toClient \o Chunks(m) /\ UNCHANGED <<asked, answered>>
    BY <1>2 DEF HostInit, host
  <2> HIDE DEF m
  <2> QED BY <1>1, <2>1, <2>2, <2>3 DEF HostTakes, Sends, Replies
<1>3. ASSUME NEW type \in {"ReaderRemove", "ATR", "CardRemove"}, Receive(type),
             ReplyTo(Head(toHost)), UNCHANGED <<asked, answered>>
      PROVE  HostTakes
  <2> DEFINE h == Head(toHost)
             m == Message("Error", h.id, "SUCCESS", h.about, 0, h.type)
  <2>1. h \in Outgoing /\ h.id \in Ids /\ h.n = 0 /\ h.type \notin {"ReaderAdd", "Init"}
    BY <1>1, <1>3, ConstantFacts DEF Outgoing, Answering
  <2>2. CASE h.type \in HostAnswers
    <3>1. m \in Incoming
      BY <2>1, <2>2, ReplyType DEF Codes
    <3>2. Replies(m, h)
      BY <2>1 DEF Message, Replies
    <3>3. toClient' = toClient \o Chunks(m)
      BY <1>3, <2>2 DEF ReplyTo, Reply
    <3> HIDE DEF m
    <3> QED BY <1>1, <1>3, <2>1, <3>1, <3>2, <3>3 DEF HostTakes, Sends
  <2>3. CASE h.type \notin HostAnswers
    BY <1>1, <1>3, <2>1, <2>3 DEF HostTakes, ReplyTo
  <2> QED BY <2>2, <2>3
<1>4. CASE HostReaderRemove \/ \E type \in {"ATR", "CardRemove"} : HostCard(type)
  BY <1>1, <1>3, <1>4 DEF HostReaderRemove, HostCard
<1>5. CASE HostReaderAdd
  <2>1. \E i \in Ids \cup {Undefined}, code \in Codes \ {"none"} :
           Reply(code, i, Head(toHost)) /\ (code = "SUCCESS" => i \in Ids)
    BY <1>5, ClientAssumption DEF HostReaderAdd, FreeSlots, Codes
  <2>2. PICK i \in Ids \cup {Undefined}, code \in Codes \ {"none"} :
           Reply(code, i, Head(toHost)) /\ (code = "SUCCESS" => i \in Ids)
    BY <2>1
  <2> DEFINE m == Message("Error", i, code, Head(toHost).about, 0, Head(toHost).type)
  <2>3. Receive("ReaderAdd") /\ UNCHANGED <<asked, answered>>
    BY <1>5 DEF HostReaderAdd
  <2>4. m \in Incoming
    BY <1>1, <2>2, <2>3, ReplyType
  <2>5. Replies(m, Head(toHost)) /\ Head(toHost).n = 0
    BY <1>1, <2>3 DEF Message, Answering, Replies
  <2>6. toClient' = toClient \o Chunks(m)
    BY <2>2 DEF Reply
  <2> HIDE DEF m
  <2> QED BY <1>1, <2>3, <2>4, <2>5, <2>6 DEF HostTakes, Sends
<1>6. CASE \E type \in {"APDU", "Error", "FlushComplete"} : HostAnswered(type)
  <2>1. PICK type \in {"APDU", "Error", "FlushComplete"} : HostAnswered(type)
    BY <1>6
  <2>2. Receive(type) /\ Head(toHost).n # 0 /\ Head(toHost).type \notin {"ReaderAdd", "Init"}
    BY <1>1, <2>1 DEF HostAnswered, Answering
  <2> QED BY <1>1, <2>1, <2>2 DEF HostTakes, HostAnswered
<1> QED BY <1>2, <1>4, <1>5, <1>6, <1>1 DEF HostHandles

LEMMA AskStep ==
    ASSUME TypeOK, NEW type \in {"APDU", "Flush"}, NEW i \in Ids, HostAsks(type, i)
    PROVE  HostAsksNext /\ UNCHANGED inside
<1> DEFINE m == Message(type, i, "none", None, asked + 1, "none")
<1>1. asked + 1 \in Nat /\ asked + 1 # 0
  BY DEF TypeOK
<1>2. m \in Incoming
  BY <1>1, HostSays
<1>3. m.n = asked + 1 /\ m.re = "none"
  BY DEF Message
<1>4. toClient' = toClient \o Chunks(m)
  BY DEF HostAsks
<1> HIDE DEF m
<1> QED
  BY <1>2, <1>3, <1>4 DEF HostAsksNext, HostAsks, Sends, socket, inside, library, thread

LEMMA PipeSteps ==
    ASSUME TypeOK, [Next]_vars
    PROVE  \/ UNCHANGED pipe \/ \E z : QueueWords(z)
           \/ SendOne \/ TakeHeader \/ Handle \/ HostTakes \/ HostAsksNext
<1>1. CASE UNCHANGED vars
  BY <1>1 DEF vars, wire, socket, host, pipe
<1>2. CASE TakeEvent \/ DropUnlessPending \/ WaitForDecision \/ Decided \/ ReaderInsert
  BY <1>2 DEF pipe, wire, socket, host, TakeEvent, DropUnlessPending, WaitForDecision,
              Decided, ReaderInsert
<1>3. CASE SocketSend
  BY <1>3 DEF SocketSend, SendOne, socket, host
<1>4. CASE ReadHeader
  BY <1>4 DEF ReadHeader, TakeHeader, Readable, host
<1>5. CASE \/ \E r \in Readers : CardMoves(r)
           \/ \E i \in Ids : CardCommand(i)
  BY <1>5 DEF CardMoves, CardCommand, wire, socket, host, pipe
<1> QED
  BY <1>1, <1>2, <1>3, <1>4, <1>5, AnnounceQueues, ForwardQueues, ExitQueues, ReadHandles,
     HostStep, AskStep, ConstantFacts DEF Next, EventThread, SocketRead

-----------------------------------------------------------------------------
(* The chunks on their way: a header is followed by its payload, unless it *)
(* has none, and after that comes the next header.                         *)
Ends(c) == c.part = "body" \/ c.m.type = "Flush"
Body(m) == [part |-> "body", m |-> m]
StartsAt(i) == toClient # <<>> => toClient[i].part = "header"

Whole ==
    /\ \A i \in 1 .. Len(toClient) : ~Ends(toClient[i]) =>
          i < Len(toClient) /\ toClient[i + 1] = Body(toClient[i].m)
    /\ \A i \in 2 .. Len(toClient) : Ends(toClient[i - 1]) => toClient[i].part = "header"
    /\ state = "HEADER" \/ mhHeader.type = "Flush" =>
          (toClient # <<>> => toClient[1].part = "header")
    /\ state = "MESSAGE" /\ mhHeader.type # "Flush" =>
          toClient # <<>> /\ toClient[1] = Body(mhHeader)

LEMMA TailFacts ==
    ASSUME NEW S, NEW s \in Seq(S), s # <<>>
    PROVE  /\ Tail(s) \in Seq(S) /\ Len(s) = Len(Tail(s)) + 1
           /\ \A i \in 1 .. Len(Tail(s)) : Tail(s)[i] = s[i + 1]
           /\ Tail(s) # <<>> <=> Len(Tail(s)) >= 1
<1> DEFINE t == Tail(s)
<1>1. t \in Seq(S) /\ Len(s) = Len(t) + 1 /\ \A i \in 1 .. Len(t) : t[i] = s[i + 1]
  OBVIOUS
<1>2. t # <<>> <=> Len(t) >= 1
  <2> HIDE DEF t
  <2> QED BY <1>1, EmptySeq
<1> QED BY <1>1, <1>2

LEMMA WholeStep == TypeOK /\ Whole /\ [Next]_vars => Whole'
<1> SUFFICES ASSUME TypeOK, Whole, [Next]_vars PROVE Whole'
  OBVIOUS
<1>0. toClient \in Seq(Chunk) /\ state \in {"HEADER", "MESSAGE"} /\ mhHeader \in Incoming
  BY DEF TypeOK
<1>1. CASE UNCHANGED <<toClient, state, mhHeader>>
  BY <1>1 DEF Whole, Ends, Body
<1> DEFINE t == Tail(toClient)
<1>2. ASSUME toClient # <<>>
      PROVE  /\ t \in Seq(Chunk) /\ Len(toClient) = Len(t) + 1
             /\ \A i \in 1 .. Len(t) : t[i] = toClient[i + 1]
             /\ (t # <<>> <=> Len(t) >= 1)
  BY <1>0, <1>2, TailFacts
<1>3. ASSUME toClient # <<>>, toClient' = t
      PROVE  /\ (\A i \in 1 .. Len(toClient) : ~Ends(toClient[i]) =>
                    i < Len(toClient) /\ toClient[i + 1] = Body(toClient[i].m))'
             /\ (\A i \in 2 .. Len(toClient) : Ends(toClient[i - 1]) =>
                    toClient[i].part = "header")'
  BY <1>0, <1>2, <1>3 DEF Whole
<1> HIDE DEF t
<1>4. CASE TakeHeader
  <2>1. /\ toClient # <<>> /\ toClient' = t /\ state = "HEADER" /\ state' = "MESSAGE"
        /\ mhHeader' = toClient[1].m
    BY <1>4 DEF TakeHeader, t
  <2>2. toClient[1].part = "header" /\ 1 \in 1 .. Len(toClient)
    BY <1>0, <2>1 DEF Whole
  <2>3. CASE mhHeader'.type = "Flush"
    <3>1. Ends(toClient[1])
      BY <2>1, <2>3 DEF Ends
    <3>2. ASSUME t # <<>> PROVE t[1].part = "header"
      <4>0. Len(t) >= 1 /\ Len(toClient) = Len(t) + 1 /\ Len(t) \in Nat
        BY <1>2, <2>1, <3>2
      <4>1. 2 \in 2 .. Len(toClient) /\ 2 - 1 = 1
        BY <4>0
      <4>2. t[1] = toClient[1 + 1]
        BY <4>0, <1>2, <2>1
      <4> QED BY <4>1, <4>2, <3>1 DEF Whole
    <3> QED BY <2>1, <2>3, <3>2, <1>3 DEF Whole
  <2>4. CASE mhHeader'.type # "Flush"
    <3>1. ~Ends(toClient[1])
      BY <2>1, <2>2, <2>4 DEF Ends
    <3>2. 1 < Len(toClient) /\ toClient[1 + 1] = Body(mhHeader')
      BY <2>1, <2>2, <3>1 DEF Whole
    <3>3. t # <<>> /\ t[1] = toClient[1 + 1]
      <4>1. Len(t) >= 1 /\ Len(t) \in Nat
        BY <1>2, <2>1, <3>2
      <4> QED BY <4>1, <1>2, <2>1
    <3> QED BY <2>1, <2>4, <3>2, <3>3, <1>3 DEF Whole, Body
  <2> QED BY <2>3, <2>4
<1>5. CASE Handle
  BY <1>0, <1>2, <1>3, <1>5 DEF Handle, Whole, Ends, Body, t
<1>6. ASSUME NEW m \in Incoming, Sends(m) PROVE Whole'
  <2> DEFINE h == [part |-> "header", m |-> m]
             c == Chunks(m)
             n == Len(toClient)
             s == toClient \o c
  <2>1. /\ c \in Seq(Chunk) /\ Len(c) >= 1 /\ c[1] = h
        /\ Ends(h) => Len(c) = 1
        /\ ~Ends(h) => Len(c) = 2 /\ c[2] = Body(m)
    <3>1. CASE m.type = "Flush"
      BY <3>1, ChunksAre DEF Ends
    <3>2. CASE m.type # "Flush"
      BY <3>2, ChunksAre DEF Ends, Body
    <3> QED BY <3>1, <3>2
  <2>2. h.part = "header" /\ h.m = m /\ Ends(Body(m))
    BY DEF Ends, Body
  <2> HIDE DEF c, h
  <2>3. /\ s \in Seq(Chunk) /\ Len(s) = n + Len(c)
        /\ \A i \in 1 .. n : s[i] = toClient[i]
        /\ \A i \in 1 .. Len(c) : s[n + i] = c[i]
    BY <1>0, <2>1
  <2>4. toClient' = s /\ state' = state /\ mhHeader' = mhHeader /\ n \in Nat
    BY <1>0, <1>6 DEF Sends, c
  <2> HIDE DEF s, n
  <2>5. \A i \in 1 .. Len(s) : i \in 1 .. n \/ i = n + 1 \/ (i = n + 2 /\ Len(c) = 2)
    <3>1. Len(c) = 1 \/ Len(c) = 2
      BY <2>1
    <3>2. Len(s) = n + Len(c) /\ n \in Nat
      BY <2>3, <2>4
    <3>3. CASE Len(c) = 1
      <4>1. Len(s) = n + 1
        BY <3>2, <3>3
      <4> QED BY <4>1, <3>2
    <3>4. CASE Len(c) = 2
      <4>1. Len(s) = n + 2
        BY <3>2, <3>4
      <4> QED BY <4>1, <3>2, <3>4
    <3> QED BY <3>1, <3>3, <3>4
  <2>6. s[n + 1] = h /\ (Len(c) = 2 => s[n + 2] = Body(m))
    BY <2>1, <2>3
  <2>7. ASSUME NEW i \in 1 .. Len(s), ~Ends(s[i])
        PROVE  i < Len(s) /\ s[i + 1] = Body(s[i].m)
    <3>1. CASE i \in 1 .. n
      <4>1. s[i] = toClient[i] /\ i < n /\ toClient[i + 1] = Body(toClient[i].m)
        BY <3>1, <2>3, <2>7 DEF Whole, n
      <4>2. i + 1 \in 1 .. n
        BY <4>1, <2>4
      <4> QED BY <4>1, <4>2, <2>3, <2>1, <2>4
    <3>2. CASE i = n + 1
      <4>1. s[i] = h /\ ~Ends(h)
        BY <3>2, <2>6, <2>7
      <4>2. Len(c) = 2
        BY <4>1, <2>1
      <4>3. s[n + 2] = Body(m) /\ Len(s) = n + 2 /\ i + 1 = n + 2
        BY <3>2, <4>2, <2>3, <2>4, <2>6
      <4> QED BY <4>1, <4>3, <3>2, <2>2, <2>4
    <3>3. CASE i = n + 2 /\ Len(c) = 2
      BY <3>3, <2>2, <2>6, <2>7
    <3> QED BY <2>5, <3>1, <3>2, <3>3
  <2>8. ASSUME NEW i \in 2 .. Len(s), Ends(s[i - 1]) PROVE s[i].part = "header"
    <3>1. CASE i \in 1 .. n
      BY <3>1, <2>3, <2>8 DEF Whole, n
    <3>2. CASE i = n + 1
      BY <3>2, <2>2, <2>6
    <3>3. CASE i = n + 2 /\ Len(c) = 2
      BY <3>3, <2>1, <2>4, <2>6, <2>8
    <3> QED BY <2>3, <2>5, <3>1, <3>2, <3>3
  <2>9. toClient # <<>> => s[1] = toClient[1]
    BY <1>0, <2>3 DEF n
  <2>10. toClient = <<>> => s[1] = h
    BY <2>6, <2>4 DEF n
  <2>11. s # <<>>
    BY <2>3, <2>1, <2>4
  <2> QED BY <2>2, <2>4, <2>7, <2>8, <2>9, <2>10, <2>11 DEF Whole
<1> QED
  BY <1>1, <1>4, <1>5, <1>6, PipeSteps DEF pipe, QueueWords, SendOne, HostTakes, HostAsksNext

LEMMA WholeIsFramed == TypeOK /\ Whole => Framed
BY DEF TypeOK, Whole, Framed, Body

-----------------------------------------------------------------------------
(* The requests under way, from the answers at the host to the requests it *)
(* has sent: their numbers grow along the way, and none is missing.        *)
Num == [m \in Msg |-> m.n]
ChunkNum == OfHeader(Num)
Less == {p \in Nat \X Nat : p[1] < p[2]}
InHand == Mark(IF state = "MESSAGE" THEN mhHeader.n ELSE 0)

Straight ==
    /\ Ordered(Num, toHost, Less) /\ Ordered(Num, socket_to_send, Less)
    /\ Ordered(ChunkNum, toClient, Less)
    /\ Before(Marks(Num, toHost), Marks(Num, socket_to_send), Less)
    /\ Before(Marks(Num, toHost), InHand, Less)
    /\ Before(Marks(Num, toHost), Marks(ChunkNum, toClient), Less)
    /\ Before(Marks(Num, socket_to_send), InHand, Less)
    /\ Before(Marks(Num, socket_to_send), Marks(ChunkNum, toClient), Less)
    /\ Before(InHand, Marks(ChunkNum, toClient), Less)

UnderWay == Marks(Num, toHost) \cup Marks(Num, socket_to_send) \cup InHand
            \cup Marks(ChunkNum, toClient)

Complete ==
    /\ Len(answered) <= asked
    /\ UnderWay = (Len(answered) + 1) .. asked
    /\ AnswersInOrder

LEMMA StartsInOrder ==
    ASSUME Init PROVE Whole /\ Straight /\ Complete
<1> DEFINE m == send_msg("Init", 0, None, 0)
<1>1. m \in Outgoing
  BY SendType, ConstantFacts DEF MessageTypes, Answering, AboutReader
<1>2. /\ toHost = <<>> /\ toClient = <<>> /\ asked = 0 /\ answered = <<>>
      /\ state = "HEADER" /\ socket_to_send = <<m>>
  BY DEF Init
<1>3. Num[m] = 0
  <2>1. m.n = 0
    BY DEF send_msg, Message
  <2> HIDE DEF m
  <2> QED BY <1>1, <2>1 DEF Num, Outgoing
<1>4. Marks(Num, socket_to_send) = {} /\ Ordered(Num, socket_to_send, Less)
  <2>1. Marks(Num, <<m>>) = Mark(Num[m]) /\ Ordered(Num, <<m>>, Less)
    BY OneMark
  <2> HIDE DEF m
  <2> QED BY <1>2, <1>3, <2>1 DEF Mark
<1>5. /\ Marks(Num, toHost) = {} /\ Ordered(Num, toHost, Less)
      /\ Marks(ChunkNum, toClient) = {} /\ Ordered(ChunkNum, toClient, Less)
  <2> HIDE DEF m
  <2> QED BY <1>2 DEF Marks, Ordered
<1>6. InHand = {}
  BY <1>2 DEF InHand, Mark
<1>7. Whole
  BY <1>2 DEF Whole
<1>8. Straight
  BY <1>4, <1>5, <1>6 DEF Straight, Before
<1>9. AnswersInOrder
  <2>1. answered = [k \in 1 .. 0 |-> k] /\ Len(answered) = 0
    BY <1>2
  <2> QED BY <2>1 DEF AnswersInOrder
<1>10. UnderWay = {} /\ (Len(answered) + 1) .. asked = {}
  BY <1>2, <1>4, <1>5, <1>6 DEF UnderWay
<1> QED BY <1>2, <1>7, <1>8, <1>9, <1>10 DEF Complete

LEMMA CompleteStep ==
    ASSUME TypeOK, Whole, Straight, Complete, [Next]_vars
    PROVE  Straight' /\ Complete'
<1> DEFINE a == Marks(Num, toHost)
           b == Marks(Num, socket_to_send)
           c == InHand
           d == Marks(ChunkNum, toClient)
           oa == Ordered(Num, toHost, Less)
           ob == Ordered(Num, socket_to_send, Less)
           od == Ordered(ChunkNum, toClient, Less)
<1>1. /\ toHost \in Seq(Outgoing) /\ socket_to_send \in Seq(Outgoing) /\ toClient \in Seq(Chunk)
      /\ mhHeader \in Incoming /\ state \in {"HEADER", "MESSAGE"} /\ asked \in Nat
      /\ answered \in Seq(Nat)
  BY DEF TypeOK
<1>2. \A m \in Msg : Num[m] = m.n /\ m.n \in Nat
  BY DEF Num, Msg
<1>3. Outgoing \subseteq Msg /\ Incoming \subseteq Msg
  BY DEF Outgoing, Incoming
<1>4. Mark(0) = {} /\ \A x : Before({}, x, Less) /\ Before(x, {}, Less)
  BY DEF Mark, Before
<1>5. \A X, Y, Z : /\ Before(X \cup Y, Z, Less) <=> Before(X, Z, Less) /\ Before(Y, Z, Less)
                   /\ Before(Z, X \cup Y, Less) <=> Before(Z, X, Less) /\ Before(Z, Y, Less)
  BY DEF Before
<1>6. Straight <=> /\ oa /\ ob /\ od /\ Before(a, b, Less) /\ Before(a, c, Less)
                   /\ Before(a, d, Less) /\ Before(b, c, Less) /\ Before(b, d, Less)
                   /\ Before(c, d, Less)
  BY DEF Straight
<1>7. Straight' <=> /\ oa' /\ ob' /\ od' /\ Before(a', b', Less) /\ Before(a', c', Less)
                    /\ Before(a', d', Less) /\ Before(b', c', Less) /\ Before(b', d', Less)
                    /\ Before(c', d', Less)
  BY DEF Straight, Less
<1>8. UnderWay = a \cup b \cup c \cup d /\ UnderWay' = a' \cup b' \cup c' \cup d'
  BY DEF UnderWay
<1>9. ASSUME UNCHANGED answered, UnderWay' = UnderWay, UNCHANGED asked PROVE Complete'
  BY <1>9 DEF Complete, AnswersInOrder
<1>10. /\ c = Mark(IF state = "MESSAGE" THEN mhHeader.n ELSE 0)
       /\ c' = Mark(IF state' = "MESSAGE" THEN mhHeader'.n ELSE 0)
  BY DEF InHand
<1>11. /\ toHost' = toHost => a' = a /\ oa' = oa
       /\ socket_to_send' = socket_to_send => b' = b /\ ob' = ob
       /\ toClient' = toClient => d' = d /\ od' = od
  BY DEF Marks, Ordered, Num, ChunkNum, Less, OfHeader
<1> HIDE DEF a, b, c, d, oa, ob, od
<1>20. CASE UNCHANGED pipe
  BY <1>6, <1>7, <1>8, <1>9, <1>10, <1>11, <1>20 DEF pipe
<1>21. CASE \E z : QueueWords(z)
  <2>1. PICK z \in Seq(Outgoing) :
           /\ \A i \in 1 .. Len(z) : z[i].n = 0
           /\ socket_to_send' = socket_to_send \o z
           /\ UNCHANGED <<toHost, state, mhHeader, toClient, asked, answered>>
    BY <1>21 DEF QueueWords
  <2>2. \A i \in 1 .. Len(z) : Num[z[i]] = 0
    BY <2>1, <1>2, <1>3
  <2>3. Marks(Num, z) = {} /\ Ordered(Num, z, Less)
    BY <2>2 DEF Marks, Ordered
  <2>4. b' = b \cup Marks(Num, z) /\ (ob' <=> ob /\ Before(b, Marks(Num, z), Less))
    <3>1. Marks(Num, socket_to_send \o z) = Marks(Num, socket_to_send) \cup Marks(Num, z)
          /\ (Ordered(Num, socket_to_send \o z, Less) <=>
                 /\ Ordered(Num, socket_to_send, Less) /\ Ordered(Num, z, Less)
                 /\ Before(Marks(Num, socket_to_send), Marks(Num, z), Less))
      BY <1>1, JoinMarks
    <3> QED BY <3>1, <2>1, <2>3 DEF b, ob
  <2>5. b' = b /\ (ob' <=> ob)
    BY <2>3, <2>4, <1>4
  <2> QED BY <2>1, <2>5, <1>6, <1>7, <1>8, <1>9, <1>10, <1>11
<1>22. CASE SendOne
  <2> DEFINE h == Head(socket_to_send)
             M == Mark(Num[h])
  <2>1. h \in Outgoing
    BY <1>1, <1>22 DEF SendOne
  <2>2. a' = a \cup M /\ (oa' <=> oa /\ Before(a, M, Less))
    <3>1. toHost' = Append(toHost, h)
      BY <1>22 DEF SendOne
    <3> HIDE DEF h
    <3>2. Marks(Num, Append(toHost, h)) = Marks(Num, toHost) \cup Mark(Num[h])
          /\ (Ordered(Num, Append(toHost, h), Less) <=>
                 Ordered(Num, toHost, Less) /\ Before(Marks(Num, toHost), Mark(Num[h]), Less))
      BY <1>1, <2>1, AppendMarks
    <3> QED BY <3>1, <3>2 DEF a, oa
  <2>3. b = M \cup b' /\ (ob <=> ob' /\ Before(M, b', Less))
    <3>1. socket_to_send # <<>> /\ socket_to_send' = Tail(socket_to_send)
      BY <1>22 DEF SendOne
    <3>2. /\ Marks(Num, socket_to_send) = Mark(Num[Head(socket_to_send)])
                                          \cup Marks(Num, Tail(socket_to_send))
          /\ Ordered(Num, socket_to_send, Less) <=>
                /\ Ordered(Num, Tail(socket_to_send), Less)
                /\ Before(Mark(Num[Head(socket_to_send)]), Marks(Num, Tail(socket_to_send)), Less)
      BY <1>1, <3>1, TailMarks
    <3> QED BY <3>1, <3>2 DEF b, ob
  <2>4. c' = c /\ d' = d /\ (od' <=> od) /\ UNCHANGED <<asked, answered>>
    BY <1>22, <1>10, <1>11 DEF SendOne
  <2> HIDE DEF M
  <2>5. Straight'
    BY <2>2, <2>3, <2>4, <1>5, <1>6, <1>7
  <2>6. UnderWay' = UnderWay
    BY <2>2, <2>3, <2>4, <1>8
  <2> QED BY <2>4, <2>5, <2>6, <1>9
<1>23. CASE TakeHeader
  <2> DEFINE h == Head(toClient)
             M == Mark(ChunkNum[h])
  <2>1. h \in Chunk /\ h = toClient[1] /\ toClient # <<>> /\ h.m \in Incoming
    <3>1. toClient # <<>>
      BY <1>23 DEF TakeHeader
    <3>2. h \in Chunk /\ h = toClient[1]
      BY <3>1, <1>1
    <3> HIDE DEF h
    <3>3. h.m \in Incoming
      BY <3>2 DEF Chunk
    <3> QED BY <3>1, <3>2, <3>3
  <2>2. d = M \cup d' /\ (od <=> od' /\ Before(M, d', Less))
    <3>1. toClient # <<>> /\ toClient' = Tail(toClient)
      BY <1>23 DEF TakeHeader
    <3>2. /\ Marks(ChunkNum, toClient) = Mark(ChunkNum[Head(toClient)])
                                         \cup Marks(ChunkNum, Tail(toClient))
          /\ Ordered(ChunkNum, toClient, Less) <=>
                /\ Ordered(ChunkNum, Tail(toClient), Less)
                /\ Before(Mark(ChunkNum[Head(toClient)]), Marks(ChunkNum, Tail(toClient)), Less)
      BY <1>1, <3>1, TailMarks
    <3> QED BY <3>1, <3>2 DEF d, od
  <2>3. h.part = "header"
    BY <2>1, <1>23 DEF Whole, TakeHeader
  <2>4. ChunkNum[h] = h.m.n
    BY <2>1, <2>3, <1>2, <1>3 DEF ChunkNum, OfHeader
  <2>5. c = {} /\ c' = M
    BY <1>23, <1>10, <1>4, <2>4 DEF TakeHeader
  <2>6. a' = a /\ (oa' <=> oa) /\ b' = b /\ (ob' <=> ob) /\ UNCHANGED <<asked, answered>>
    BY <1>23, <1>11 DEF TakeHeader
  <2> HIDE DEF M
  <2>7. Straight'
    BY <2>2, <2>5, <2>6, <1>5, <1>6, <1>7
  <2>8. UnderWay' = UnderWay
    BY <2>2, <2>5, <2>6, <1>8
  <2> QED BY <2>6, <2>7, <2>8, <1>9
<1>24. CASE Handle
  <2>1. c = Mark(mhHeader.n) /\ c' = {}
    BY <1>24, <1>10, <1>4 DEF Handle
  <2>2. b' = b \cup c /\ (ob' <=> ob /\ Before(b, c, Less))
    <3>1. CASE mhHeader.n = 0 /\ UNCHANGED socket_to_send
      BY <3>1, <2>1, <1>4, <1>11
    <3>2. CASE \E m \in Outgoing : /\ m.n = mhHeader.n
                                   /\ socket_to_send' = Append(socket_to_send, m)
      <4>1. PICK m \in Outgoing : m.n = mhHeader.n /\ socket_to_send' = Append(socket_to_send, m)
        BY <3>2
      <4>2. Num[m] = mhHeader.n
        BY <4>1, <1>2, <1>3
      <4>3. Marks(Num, Append(socket_to_send, m)) = Marks(Num, socket_to_send) \cup Mark(Num[m])
            /\ (Ordered(Num, Append(socket_to_send, m), Less) <=>
                   /\ Ordered(Num, socket_to_send, Less)
                   /\ Before(Marks(Num, socket_to_send), Mark(Num[m]), Less))
        BY <1>1, AppendMarks
      <4> QED BY <4>1, <4>2, <4>3, <2>1 DEF b, ob
    <3> QED BY <1>24, <3>1, <3>2 DEF Handle
  <2>3. d' = d /\ (od' <=> od)
    <3>1. CASE mhHeader.type = "Flush"
      BY <3>1, <1>24, <1>11 DEF Handle
    <3>2. CASE mhHeader.type # "Flush"
      <4>1. toClient # <<>> /\ toClient' = Tail(toClient) /\ toClient[1] = Body(mhHeader)
        BY <3>2, <1>24 DEF Handle, Whole
      <4>2. Head(toClient) = Body(mhHeader) /\ Body(mhHeader) \in Chunk
        BY <4>1, <1>1 DEF Body, Chunk
      <4>3. ChunkNum[Head(toClient)] = 0
        BY <4>2 DEF ChunkNum, OfHeader, Body
      <4>4. /\ Marks(ChunkNum, toClient) = Mark(ChunkNum[Head(toClient)])
                                           \cup Marks(ChunkNum, Tail(toClient))
            /\ Ordered(ChunkNum, toClient, Less) <=>
                  /\ Ordered(ChunkNum, Tail(toClient), Less)
                  /\ Before(Mark(ChunkNum[Head(toClient)]), Marks(ChunkNum, Tail(toClient)), Less)
        BY <1>1, <4>1, TailMarks
      <4> QED BY <4>1, <4>3, <4>4, <1>4 DEF d, od
    <3> QED BY <3>1, <3>2
  <2>4. a' = a /\ (oa' <=> oa) /\ UNCHANGED <<asked, answered>>
    BY <1>24, <1>11 DEF Handle
  <2>5. Straight'
    BY <2>1, <2>2, <2>3, <2>4, <1>4, <1>5, <1>6, <1>7
  <2>6. UnderWay' = UnderWay
    BY <2>1, <2>2, <2>3, <2>4, <1>8
  <2> QED BY <2>4, <2>5, <2>6, <1>9
<1>25. CASE HostTakes
  <2> DEFINE h == Head(toHost)
             k == Len(answered)
  <2>1. h \in Outgoing /\ Num[h] = h.n /\ h.n \in Nat /\ k \in Nat
    BY <1>1, <1>2, <1>3, <1>25 DEF HostTakes
  <2>2. a = Mark(h.n) \cup a' /\ (oa <=> oa' /\ Before(Mark(h.n), a', Less))
    <3>1. toHost # <<>> /\ toHost' = Tail(toHost)
      BY <1>25 DEF HostTakes
    <3>2. /\ Marks(Num, toHost) = Mark(Num[Head(toHost)]) \cup Marks(Num, Tail(toHost))
          /\ Ordered(Num, toHost, Less) <=>
                /\ Ordered(Num, Tail(toHost), Less)
                /\ Before(Mark(Num[Head(toHost)]), Marks(Num, Tail(toHost)), Less)
      BY <1>1, <3>1, TailMarks
    <3> QED BY <2>1, <3>1, <3>2 DEF a, oa
  <2>3. d' = d /\ (od' <=> od) /\ c' = c
    <3>1. CASE UNCHANGED <<state, mhHeader, toClient>>
      BY <3>1, <1>10, <1>11
    <3>2. CASE \E m \in Incoming : Replies(m, Head(toHost)) /\ Sends(m)
      <4>1. PICK m \in Incoming : m.n = 0 /\ Sends(m)
        BY <3>2 DEF Replies
      <4>2. Num[m] = 0
        BY <4>1, <1>2, <1>3
      <4>3. Marks(OfHeader(Num), toClient \o Chunks(m)) = Marks(OfHeader(Num), toClient) \cup Mark(Num[m])
            /\ (Ordered(OfHeader(Num), toClient \o Chunks(m), Less) <=>
                   /\ Ordered(OfHeader(Num), toClient, Less)
                   /\ Before(Marks(OfHeader(Num), toClient), Mark(Num[m]), Less))
        BY <1>1, ChunkMarks
      <4>4. toClient' = toClient \o Chunks(m) /\ UNCHANGED <<state, mhHeader>>
        BY <4>1 DEF Sends
      <4> QED BY <4>2, <4>3, <4>4, <1>4, <1>10 DEF d, od, ChunkNum
    <3> QED BY <3>1, <3>2, <1>25 DEF HostTakes
  <2>4. b' = b /\ (ob' <=> ob) /\ asked' = asked
    BY <1>25, <1>11 DEF HostTakes
  <2>5. answered' = IF h.n = 0 THEN answered ELSE Append(answered, h.n)
    BY <1>25 DEF HostTakes
  <2> HIDE DEF h
  <2>6. Straight'
    BY <2>2, <2>3, <2>4, <1>5, <1>6, <1>7
  <2>7. CASE h.n = 0
    <3>1. UnderWay' = UnderWay /\ answered' = answered
      BY <2>2, <2>3, <2>4, <2>5, <2>7, <1>4, <1>8
    <3> QED BY <3>1, <2>4, <2>6, <1>9
  <2>8. CASE h.n # 0
    <3>1. Mark(h.n) = {h.n} /\ UnderWay = {h.n} \cup UnderWay'
      BY <2>2, <2>3, <2>4, <2>8, <1>8 DEF Mark
    <3>2. Before({h.n}, UnderWay', Less)
      <4>1. a = {h.n} \cup a' /\ Before({h.n}, a', Less)
        BY <2>2, <3>1, <1>6
      <4>2. /\ Before(a, b, Less) /\ Before(a, c, Less) /\ Before(a, d, Less)
        BY <1>6
      <4>3. /\ Before({h.n}, b', Less) /\ Before({h.n}, c', Less) /\ Before({h.n}, d', Less)
        BY <4>1, <4>2, <2>3, <2>4, <1>5
      <4> QED BY <4>1, <4>3, <1>5, <1>8
    <3>3. \A x \in UnderWay' : h.n < x
      BY <3>2 DEF Before, Less
    <3>4. UnderWay = (k + 1) .. asked
      BY DEF Complete
    <3>5. h.n \in (k + 1) .. asked
      BY <3>1, <3>4
    <3>6. k + 1 \in UnderWay
      BY <3>4, <3>5, <2>1, <1>1
    <3>7. h.n = k + 1
      BY <3>1, <3>3, <3>5, <3>6, <2>1
    <3>8. UnderWay' = (k + 2) .. asked
      <4>1. ASSUME NEW x \in UnderWay' PROVE x \in (k + 2) .. asked
        <5>1. x \in (k + 1) .. asked
          BY <3>1, <3>4
        <5>2. k + 1 < x
          BY <3>3, <3>7
        <5> QED BY <5>1, <5>2, <2>1, <1>1
      <4>2. ASSUME NEW x \in (k + 2) .. asked PROVE x \in UnderWay'
        <5>1. x \in (k + 1) .. asked /\ x # k + 1
          BY <2>1, <1>1
        <5>2. x \in {h.n} \cup UnderWay'
          BY <5>1, <3>1, <3>4
        <5> QED BY <5>1, <5>2, <3>7
      <4> QED BY <4>1, <4>2
    <3>9. answered' = Append(answered, k + 1)
      BY <2>5, <2>8, <3>7
    <3>10. Len(answered') = k + 1 /\ (k + 1) + 1 = k + 2
      BY <3>9, <1>1, <2>1
    <3>11. AnswersInOrder'
      <4>1. answered = [i \in 1 .. k |-> i]
        BY DEF Complete, AnswersInOrder
      <4>2. /\ answered' = [i \in 1 .. k + 1 |-> answered'[i]]
            /\ \A i \in 1 .. k + 1 : answered'[i] = i
        BY <3>9, <4>1, <1>1, <2>1
      <4> HIDE DEF k
      <4>3. answered' = [i \in 1 .. k + 1 |-> i]
        BY <4>2, Zenon
      <4> QED BY <4>3, <3>10 DEF AnswersInOrder
    <3>12. Len(answered') <= asked'
      BY <3>10, <3>5, <3>7, <2>4, <1>1
    <3> QED BY <2>4, <2>6, <3>8, <3>10, <3>11, <3>12 DEF Complete
  <2> QED BY <2>7, <2>8
<1>26. CASE HostAsksNext
  <2>1. PICK m \in Incoming : m.n = asked + 1 /\ Sends(m)
    BY <1>26 DEF HostAsksNext
  <2>2. Num[m] = asked + 1 /\ Mark(Num[m]) = {asked + 1}
    BY <2>1, <1>1, <1>2, <1>3 DEF Mark
  <2>3. d' = d \cup {asked + 1} /\ (od' <=> od /\ Before(d, {asked + 1}, Less))
    <3>1. Marks(OfHeader(Num), toClient \o Chunks(m)) = Marks(OfHeader(Num), toClient) \cup Mark(Num[m])
          /\ (Ordered(OfHeader(Num), toClient \o Chunks(m), Less) <=>
                 /\ Ordered(OfHeader(Num), toClient, Less)
                 /\ Before(Marks(OfHeader(Num), toClient), Mark(Num[m]), Less))
      BY <1>1, ChunkMarks
    <3>2. toClient' = toClient \o Chunks(m)
      BY <2>1 DEF Sends
    <3> QED BY <2>2, <3>1, <3>2 DEF d, od, ChunkNum
  <2>4. /\ a' = a /\ (oa' <=> oa) /\ b' = b /\ (ob' <=> ob) /\ c' = c
        /\ answered' = answered /\ asked' = asked + 1
    BY <1>26, <2>1, <1>10, <1>11 DEF HostAsksNext, Sends
  <2>5. UnderWay = (Len(answered) + 1) .. asked /\ Len(answered) \in Nat
    BY <1>1 DEF Complete
  <2>6. \A x \in UnderWay : <<x, asked + 1>> \in Less
    BY <2>5, <1>1 DEF Less
  <2>7. /\ Before(a, {asked + 1}, Less) /\ Before(b, {asked + 1}, Less)
        /\ Before(c, {asked + 1}, Less) /\ Before(d, {asked + 1}, Less)
    BY <2>6, <1>8 DEF Before
  <2>8. Straight'
    BY <2>3, <2>4, <2>7, <1>5, <1>6, <1>7
  <2>9. UnderWay' = UnderWay \cup {asked + 1}
    BY <2>3, <2>4, <1>8
  <2>10. Len(answered) <= asked
    BY DEF Complete
  <2>11. UnderWay' = (Len(answered') + 1) .. asked'
    BY <2>4, <2>5, <2>9, <2>10, <1>1
  <2>12. Len(answered') <= asked' /\ AnswersInOrder'
    BY <2>4, <2>10, <1>1 DEF Complete, AnswersInOrder
  <2> QED BY <2>8, <2>11, <2>12 DEF Complete
<1> QED
  BY <1>20, <1>21, <1>22, <1>23, <1>24, <1>25, <1>26, PipeSteps

-----------------------------------------------------------------------------
(* The announcements of readers under way, from the answer the client      *)
(* handles to the messages it has queued, the removals of cards, which the *)
(* host may answer too, and the Init that starts it all.  An announcement  *)
(* has the number of its reader as its mark, the others have numbers that  *)
(* no reader has.                                                          *)
Removal == NumReaders + 1
Start == NumReaders + 2
MarkOf(type, about) == IF type = "ReaderAdd" THEN about
                       ELSE IF type = "CardRemove" THEN Removal
                       ELSE IF type = "Init" THEN Start ELSE 0
Kind == [m \in Msg |-> MarkOf(m.type, m.about)]
Re == [m \in Msg |-> MarkOf(IF m.type = "Init" THEN "Init" ELSE m.re, m.about)]
ChunkRe == OfHeader(Re)

(* Nothing but removals may come after anything *)
Then == {p \in Nat \X Nat : p[2] = Removal}
Held == Mark(IF state = "MESSAGE" THEN Re[mhHeader] ELSE 0)

InTurn ==
    /\ Ordered(ChunkRe, toClient, Then)
    /\ Ordered(Kind, toHost, Then) /\ Ordered(Kind, socket_to_send, Then)
    /\ Before(Held, Marks(ChunkRe, toClient), Then)
    /\ Before(Held, Marks(Kind, toHost), Then)
    /\ Before(Held, Marks(Kind, socket_to_send), Then)
    /\ Before(Marks(ChunkRe, toClient), Marks(Kind, toHost), Then)
    /\ Before(Marks(ChunkRe, toClient), Marks(Kind, socket_to_send), Then)
    /\ Before(Marks(Kind, toHost), Marks(Kind, socket_to_send), Then)

Concerned == Held \cup Marks(ChunkRe, toClient) \cup Marks(Kind, toHost)
             \cup Marks(Kind, socket_to_send)

LEMMA MarksOfMessages ==
    /\ \A m \in Outgoing :
          /\ Kind[m] = MarkOf(m.type, m.about)
          /\ m.type = "ReaderAdd" => Kind[m] = m.about /\ m.about \in Readers
          /\ m.type = "CardRemove" => Kind[m] = Removal
          /\ m.type = "Init" => Kind[m] = Start
          /\ m.type \notin {"ReaderAdd", "CardRemove", "Init"} => Kind[m] = 0
    /\ \A m \in Incoming :
          /\ m.type # "Init" => Re[m] = MarkOf(m.re, m.about)
          /\ m.type = "Init" => Re[m] = Start
          /\ m.re = "ReaderAdd" => Re[m] = m.about /\ m.about \in Readers
          /\ m.re = "CardRemove" => Re[m] = Removal
          /\ m.type # "Init" /\ m.re \notin {"ReaderAdd", "CardRemove"} => Re[m] = 0
BY ClientAssumption DEF Outgoing, Incoming, Kind, Re, MarkOf, AboutReader

LEMMA TurnStep ==
    ASSUME TypeOK, Whole, InTurn
    PROVE  /\ UNCHANGED pipe \/ SendOne \/ TakeHeader \/ HostAsksNext =>
                 InTurn' /\ Concerned' = Concerned
           /\ \A z : /\ QueueWords(z) /\ Ordered(Kind, z, Then)
                     /\ Before(Concerned, Marks(Kind, z), Then)
                     => InTurn' /\ Concerned' = Concerned \cup Marks(Kind, z)
           /\ Handle => /\ InTurn' /\ Concerned = Held \cup Concerned'
                        /\ Before(Held, Concerned', Then)
           /\ HostTakes => InTurn' /\ Concerned' \subseteq Concerned
                           /\ Concerned \subseteq Concerned' \cup {Removal}
<1> DEFINE a == Held
           b == Marks(ChunkRe, toClient)
           c == Marks(Kind, toHost)
           d == Marks(Kind, socket_to_send)
           ob == Ordered(ChunkRe, toClient, Then)
           oc == Ordered(Kind, toHost, Then)
           od == Ordered(Kind, socket_to_send, Then)
<1>1. /\ toHost \in Seq(Outgoing) /\ socket_to_send \in Seq(Outgoing) /\ toClient \in Seq(Chunk)
      /\ mhHeader \in Incoming /\ state \in {"HEADER", "MESSAGE"}
  BY DEF TypeOK
<1>4. Mark(0) = {} /\ \A x : Before({}, x, Then) /\ Before(x, {}, Then)
  BY DEF Mark, Before
<1>5. \A X, Y, Z : /\ Before(X \cup Y, Z, Then) <=> Before(X, Z, Then) /\ Before(Y, Z, Then)
                   /\ Before(Z, X \cup Y, Then) <=> Before(Z, X, Then) /\ Before(Z, Y, Then)
  BY DEF Before
<1>6. InTurn <=> /\ ob /\ oc /\ od /\ Before(a, b, Then) /\ Before(a, c, Then)
                 /\ Before(a, d, Then) /\ Before(b, c, Then) /\ Before(b, d, Then)
                 /\ Before(c, d, Then)
  BY DEF InTurn
<1>7. InTurn' <=> /\ ob' /\ oc' /\ od' /\ Before(a', b', Then) /\ Before(a', c', Then)
                  /\ Before(a', d', Then) /\ Before(b', c', Then) /\ Before(b', d', Then)
                  /\ Before(c', d', Then)
  BY DEF InTurn, Then, Removal
<1>8. Concerned = a \cup b \cup c \cup d /\ Concerned' = a' \cup b' \cup c' \cup d'
  BY DEF Concerned
<1>9. /\ a = Mark(IF state = "MESSAGE" THEN Re[mhHeader] ELSE 0)
      /\ a' = Mark(IF state' = "MESSAGE" THEN Re[mhHeader'] ELSE 0)
  BY DEF Held, Re, MarkOf, Removal, Start
<1>11. /\ b' = Marks(ChunkRe, toClient') /\ ob' = Ordered(ChunkRe, toClient', Then)
       /\ c' = Marks(Kind, toHost') /\ oc' = Ordered(Kind, toHost', Then)
       /\ d' = Marks(Kind, socket_to_send') /\ od' = Ordered(Kind, socket_to_send', Then)
  BY DEF Marks, Ordered, Kind, ChunkRe, Re, Then, OfHeader, MarkOf, Removal, Start
<1> HIDE DEF a, b, c, d, ob, oc, od
<1>10. /\ toClient' = toClient => b' = b /\ ob' = ob
       /\ toHost' = toHost => c' = c /\ oc' = oc
       /\ socket_to_send' = socket_to_send => d' = d /\ od' = od
  BY <1>11, Zenon DEF b, c, d, ob, oc, od
<1>12. ASSUME NEW m \in Incoming, toClient' = toClient \o Chunks(m)
       PROVE  b' = b \cup Mark(Re[m]) /\ (ob' <=> ob /\ Before(b, Mark(Re[m]), Then))
  <2>1. /\ Marks(OfHeader(Re), toClient \o Chunks(m)) = Marks(OfHeader(Re), toClient) \cup Mark(Re[m])
        /\ Ordered(OfHeader(Re), toClient \o Chunks(m), Then) <=>
              /\ Ordered(OfHeader(Re), toClient, Then)
              /\ Before(Marks(OfHeader(Re), toClient), Mark(Re[m]), Then)
    BY <1>1, ChunkMarks
  <2> QED BY <1>11, <1>12, <2>1 DEF b, ob, ChunkRe
<1>13. ASSUME toClient # <<>>, toClient' = Tail(toClient)
       PROVE  /\ b = Mark(ChunkRe[Head(toClient)]) \cup b'
              /\ ob <=> ob' /\ Before(Mark(ChunkRe[Head(toClient)]), b', Then)
  <2>1. /\ Marks(ChunkRe, toClient) = Mark(ChunkRe[Head(toClient)]) \cup Marks(ChunkRe, Tail(toClient))
        /\ Ordered(ChunkRe, toClient, Then) <=>
              /\ Ordered(ChunkRe, Tail(toClient), Then)
              /\ Before(Mark(ChunkRe[Head(toClient)]), Marks(ChunkRe, Tail(toClient)), Then)
    BY <1>1, <1>13, TailMarks
  <2> QED BY <1>11, <1>13, <2>1 DEF b, ob
<1>20. ASSUME UNCHANGED pipe PROVE InTurn' /\ Concerned' = Concerned
  BY <1>6, <1>7, <1>8, <1>9, <1>10, <1>20 DEF pipe
<1>21. ASSUME NEW z, QueueWords(z), Ordered(Kind, z, Then), Before(Concerned, Marks(Kind, z), Then)
       PROVE  InTurn' /\ Concerned' = Concerned \cup Marks(Kind, z)
  <2>1. z \in Seq(Outgoing) /\ socket_to_send' = socket_to_send \o z
        /\ UNCHANGED <<toHost, state, mhHeader, toClient>>
    BY <1>21 DEF QueueWords
  <2>2. /\ Marks(Kind, socket_to_send \o z) = Marks(Kind, socket_to_send) \cup Marks(Kind, z)
        /\ Ordered(Kind, socket_to_send \o z, Then) <=>
              /\ Ordered(Kind, socket_to_send, Then) /\ Ordered(Kind, z, Then)
              /\ Before(Marks(Kind, socket_to_send), Marks(Kind, z), Then)
    BY <1>1, <2>1, JoinMarks
  <2>3. d' = d \cup Marks(Kind, z) /\ (od' <=> od /\ Before(d, Marks(Kind, z), Then))
    BY <2>1, <2>2, <1>11, <1>21 DEF d, od
  <2>4. /\ Before(a, Marks(Kind, z), Then) /\ Before(b, Marks(Kind, z), Then)
        /\ Before(c, Marks(Kind, z), Then) /\ Before(d, Marks(Kind, z), Then)
    BY <1>21, <1>8 DEF Before
  <2>5. a' = a /\ b' = b /\ (ob' <=> ob) /\ c' = c /\ (oc' <=> oc)
    BY <2>1, <1>9, <1>10
  <2> QED BY <2>3, <2>4, <2>5, <1>5, <1>6, <1>7, <1>8
<1>22. ASSUME SendOne PROVE InTurn' /\ Concerned' = Concerned
  <2> DEFINE h == Head(socket_to_send)
             M == Mark(Kind[h])
  <2>1. socket_to_send # <<>> /\ toHost' = Append(toHost, h) /\ socket_to_send' = Tail(socket_to_send)
    BY <1>22 DEF SendOne
  <2>2. h \in Outgoing
    BY <1>1, <2>1
  <2> HIDE DEF h
  <2>3. /\ Marks(Kind, Append(toHost, h)) = Marks(Kind, toHost) \cup Mark(Kind[h])
        /\ Ordered(Kind, Append(toHost, h), Then) <=>
              Ordered(Kind, toHost, Then) /\ Before(Marks(Kind, toHost), Mark(Kind[h]), Then)
    BY <1>1, <2>2, AppendMarks
  <2>4. c' = c \cup M /\ (oc' <=> oc /\ Before(c, M, Then))
    BY <2>1, <2>3, <1>11 DEF c, oc
  <2>5. /\ Marks(Kind, socket_to_send) = Mark(Kind[Head(socket_to_send)])
                                         \cup Marks(Kind, Tail(socket_to_send))
        /\ Ordered(Kind, socket_to_send, Then) <=>
              /\ Ordered(Kind, Tail(socket_to_send), Then)
              /\ Before(Mark(Kind[Head(socket_to_send)]), Marks(Kind, Tail(socket_to_send)), Then)
    BY <1>1, <2>1, TailMarks
  <2>6. d = M \cup d' /\ (od <=> od' /\ Before(M, d', Then))
    BY <2>1, <2>5, <1>11 DEF d, od, h
  <2>7. a' = a /\ b' = b /\ (ob' <=> ob)
    BY <1>22, <1>9, <1>10 DEF SendOne
  <2> HIDE DEF M
  <2>8. InTurn'
    BY <2>4, <2>6, <2>7, <1>5, <1>6, <1>7
  <2>9. Concerned' = Concerned
    BY <2>4, <2>6, <2>7, <1>8
  <2> QED BY <2>8, <2>9
<1>23. ASSUME TakeHeader PROVE InTurn' /\ Concerned' = Concerned
  <2> DEFINE h == Head(toClient)
             M == Mark(ChunkRe[h])
  <2>1. toClient # <<>> /\ toClient' = Tail(toClient)
    BY <1>23 DEF TakeHeader
  <2>2. h \in Chunk /\ h = toClient[1]
    BY <2>1, <1>1
  <2>3. h.part = "header"
    BY <2>1, <2>2, <1>23 DEF Whole, TakeHeader
  <2>4. ChunkRe[h] = Re[h.m]
    <3> HIDE DEF h
    <3> QED BY <2>2, <2>3 DEF ChunkRe, OfHeader
  <2>5. a = {} /\ a' = M
    BY <1>23, <1>9, <1>4, <2>4 DEF TakeHeader
  <2>6. c' = c /\ (oc' <=> oc) /\ d' = d /\ (od' <=> od)
    BY <1>23, <1>10 DEF TakeHeader
  <2>7. b = M \cup b' /\ (ob <=> ob' /\ Before(M, b', Then))
    BY <2>1, <1>13
  <2> HIDE DEF M
  <2>8. InTurn'
    BY <2>5, <2>6, <2>7, <1>5, <1>6, <1>7
  <2>9. Concerned' = Concerned
    BY <2>5, <2>6, <2>7, <1>8
  <2> QED BY <2>8, <2>9
<1>24. ASSUME Handle
       PROVE  InTurn' /\ Concerned = Held \cup Concerned' /\ Before(Held, Concerned', Then)
  <2>1. a' = {}
    BY <1>24, <1>9, <1>4 DEF Handle
  <2>2. d' = d /\ (od' <=> od)
    <3>1. CASE UNCHANGED socket_to_send
      BY <3>1, <1>10
    <3>2. CASE \E m \in Outgoing : m.type \notin AboutReader \cup {"Init"}
                                   /\ socket_to_send' = Append(socket_to_send, m)
      <4>1. PICK m \in Outgoing : m.type \notin AboutReader \cup {"Init"}
                                  /\ socket_to_send' = Append(socket_to_send, m)
        BY <3>2
      <4>2. Kind[m] = 0
        BY <4>1, MarksOfMessages DEF AboutReader
      <4>3. /\ Marks(Kind, Append(socket_to_send, m)) = Marks(Kind, socket_to_send) \cup Mark(Kind[m])
            /\ Ordered(Kind, Append(socket_to_send, m), Then) <=>
                  /\ Ordered(Kind, socket_to_send, Then)
                  /\ Before(Marks(Kind, socket_to_send), Mark(Kind[m]), Then)
        BY <1>1, AppendMarks
      <4> QED BY <4>1, <4>2, <4>3, <1>4, <1>11 DEF d, od
    <3> QED BY <1>24, <3>1, <3>2 DEF Handle
  <2>3. b' = b /\ (ob' <=> ob)
    <3>1. CASE mhHeader.type = "Flush"
      BY <3>1, <1>24, <1>10 DEF Handle
    <3>2. CASE mhHeader.type # "Flush"
      <4>1. toClient # <<>> /\ toClient' = Tail(toClient) /\ toClient[1] = Body(mhHeader)
        BY <3>2, <1>24 DEF Handle, Whole
      <4>2. Head(toClient) = Body(mhHeader) /\ Body(mhHeader) \in Chunk
        BY <4>1, <1>1 DEF Body, Chunk
      <4>3. ChunkRe[Head(toClient)] = 0
        BY <4>2 DEF ChunkRe, OfHeader, Body
      <4> QED BY <4>1, <4>3, <1>4, <1>13
    <3> QED BY <3>1, <3>2
  <2>4. c' = c /\ (oc' <=> oc)
    BY <1>24, <1>10 DEF Handle
  <2>5. InTurn'
    BY <2>1, <2>2, <2>3, <2>4, <1>4, <1>6, <1>7
  <2>6. Concerned = a \cup Concerned' /\ Before(a, Concerned', Then)
    <3>1. Concerned' = b \cup c \cup d
      BY <2>1, <2>2, <2>3, <2>4, <1>8
    <3>2. Before(a, b \cup c \cup d, Then)
      BY <1>5, <1>6
    <3> QED BY <3>1, <3>2, <1>8
  <2> QED BY <2>5, <2>6 DEF a
<1>25. ASSUME HostTakes
       PROVE  /\ InTurn' /\ Concerned' \subseteq Concerned
              /\ Concerned \subseteq Concerned' \cup {Removal}
  <2> DEFINE h == Head(toHost)
             M == Mark(Kind[h])
  <2>1. toHost # <<>> /\ toHost' = Tail(toHost) /\ UNCHANGED socket_to_send
    BY <1>25 DEF HostTakes
  <2>2. h \in Outgoing
    BY <1>1, <2>1
  <2>3. /\ Marks(Kind, toHost) = Mark(Kind[Head(toHost)]) \cup Marks(Kind, Tail(toHost))
        /\ Ordered(Kind, toHost, Then) <=>
              /\ Ordered(Kind, Tail(toHost), Then)
              /\ Before(Mark(Kind[Head(toHost)]), Marks(Kind, Tail(toHost)), Then)
    BY <1>1, <2>1, TailMarks
  <2>4. c = M \cup c' /\ (oc <=> oc' /\ Before(M, c', Then))
    BY <2>1, <2>3, <1>11 DEF c, oc
  <2>5. d' = d /\ (od' <=> od)
    BY <2>1, <1>10
  <2>6. CASE h.type \notin {"ReaderAdd", "Init"} /\ UNCHANGED <<state, mhHeader, toClient>>
    <3>1. a' = a /\ b' = b /\ (ob' <=> ob)
      BY <2>6, <1>9, <1>10
    <3>2. M \subseteq {Removal}
      BY <2>2, <2>6, MarksOfMessages DEF Mark
    <3> HIDE DEF M
    <3>3. InTurn'
      BY <3>1, <2>4, <2>5, <1>5, <1>6, <1>7
    <3> QED BY <3>1, <3>2, <3>3, <2>4, <2>5, <1>8
  <2>7. CASE \E m \in Incoming : Replies(m, h) /\ Sends(m)
    <3>1. PICK m \in Incoming : Replies(m, h) /\ Sends(m)
      BY <2>7
    <3>2. Re[m] = Kind[h]
      <4> HIDE DEF h
      <4> QED BY <2>2, <3>1, MarksOfMessages DEF Replies, AboutReader, MarkOf
    <3>3. b' = b \cup M /\ (ob' <=> ob /\ Before(b, M, Then))
      BY <3>1, <3>2, <1>12 DEF Sends
    <3>4. a' = a
      BY <3>1, <1>9 DEF Sends
    <3> HIDE DEF M
    <3>5. InTurn'
      BY <3>3, <3>4, <2>4, <2>5, <1>5, <1>6, <1>7
    <3> QED BY <3>3, <3>4, <3>5, <2>4, <2>5, <1>8
  <2> QED BY <1>25, <2>6, <2>7 DEF HostTakes
<1>26. ASSUME HostAsksNext PROVE InTurn' /\ Concerned' = Concerned
  <2>1. PICK m \in Incoming : m.n = asked + 1 /\ m.re = "none" /\ Sends(m)
    BY <1>26 DEF HostAsksNext
  <2>2. Re[m] = 0
    <3>1. m.n # 0
      BY <2>1 DEF TypeOK
    <3> QED BY <2>1, <3>1, MarksOfMessages DEF Incoming
  <2>3. b' = b /\ (ob' <=> ob)
    BY <2>1, <2>2, <1>12, <1>4 DEF Sends
  <2>4. a' = a /\ c' = c /\ (oc' <=> oc) /\ d' = d /\ (od' <=> od)
    BY <1>26, <2>1, <1>9, <1>10 DEF HostAsksNext, Sends
  <2> QED BY <2>3, <2>4, <1>6, <1>7, <1>8
<1> QED BY <1>20, <1>21, <1>22, <1>23, <1>24, <1>25, <1>26

-----------------------------------------------------------------------------
(* Where the event thread stands to what is under way: only the pending    *)
(* reader is announced, and once a removal is under way no reader is still *)
(* to be announced.                                                        *)
Quietly == "ReaderRemove" \notin HostAnswers
NoneComing == \A i \in 1 .. Len(events) : events[i].type # "READER_INSERT"

OneAnnounced == \A x \in Concerned : x \in {Removal, Start, pending}
NotStarted == Start \in Concerned /\ ~exited => pc = "off"
RemovalsLast ==
    /\ pc \in {"insert", "announce"} /\ ~exited => Removal \notin Concerned
    /\ Removal \in Concerned /\ ~exited => NoneComing
    /\ pc \in {"check", "decision", "forward"} /\ event.type = "CARD_REMOVE" => NoneComing
    /\ \A i, j \in 1 .. Len(events) :
          events[i].type = "READER_INSERT" /\ events[j].type = "CARD_REMOVE" => i < j
HandType ==
    /\ pc \in {"insert", "announce"} => event.type = "READER_INSERT"
    /\ pc \in {"check", "decision", "forward"} => event.type # "READER_INSERT"
OwnTurn == pc = "announce" => pending = event.reader /\ Concerned \cap Readers = {}

Orderly == InTurn /\ OneAnnounced /\ NotStarted /\ RemovalsLast /\ HandType /\ OwnTurn

LEMMA NumbersDiffer ==
    /\ 0 \notin Concerned /\ Removal \notin 0 .. NumReaders /\ Removal # 0 /\ 0 \notin Readers
    /\ Removal \notin Readers
    /\ Start \notin 0 .. NumReaders /\ Start # 0 /\ Start # Removal /\ Start \notin Readers
BY ConstantFacts DEF Concerned, Held, Marks, Mark, Removal, Start, Readers

(* Removals may come after any marks *)
LEMMA NumbersOnly ==
    /\ pending \in 0 .. NumReaders /\ OneAnnounced => Concerned \subseteq Nat
    /\ \A X, Y : X \subseteq Nat /\ Y \subseteq {Removal} => Before(X, Y, Then)
<1>1. Removal \in Nat /\ Start \in Nat /\ 0 .. NumReaders \subseteq Nat
  BY ConstantFacts DEF Removal, Start
<1> QED BY <1>1 DEF OneAnnounced, Before, Then

(* Every step of the client's inside but those of the event thread, the    *)
(* answers to announcements and the exit leaves it alone.                  *)
LEMMA InsideSteps ==
    ASSUME TypeOK
    PROVE  /\ SocketSend => SendOne /\ UNCHANGED inside
           /\ ReadHeader => TakeHeader /\ UNCHANGED inside
           /\ OnApdu \/ OnFlush => Handle /\ UNCHANGED inside
           /\ \A r \in Readers : CardMoves(r) =>
                 Move(r) /\ UNCHANGED pipe /\ UNCHANGED <<id, thread, pending, exited, allocated>>
           /\ \A i \in Ids : CardCommand(i) =>
                 \E r \in Readers :
                    Move(r) /\ UNCHANGED pipe /\ UNCHANGED <<id, thread, pending, exited, allocated>>
<1>1. SocketSend => SendOne /\ UNCHANGED inside
  BY DEF SocketSend, SendOne, socket, host, inside, library, thread
<1>2. ReadHeader => TakeHeader /\ UNCHANGED inside
  BY DEF ReadHeader, TakeHeader, Readable, host, inside, library, thread
<1>3. OnApdu \/ OnFlush => UNCHANGED inside
  BY DEF OnApdu, OnFlush, ReadMessage, host, inside, library, thread
<1>4. \A r \in Readers : CardMoves(r) =>
         Move(r) /\ UNCHANGED pipe /\ UNCHANGED <<id, thread, pending, exited, allocated>>
  BY DEF CardMoves, wire, socket, host, pipe, thread
<1>5. ASSUME NEW i \in Ids, CardCommand(i)
      PROVE  \E r \in Readers :
                Move(r) /\ UNCHANGED pipe /\ UNCHANGED <<id, thread, pending, exited, allocated>>
  BY <1>5, ReaderById DEF CardCommand, wire, socket, host, pipe, thread
<1> QED BY <1>1, <1>2, <1>3, <1>4, <1>5, ReadHandles

LEMMA OrderlyStep ==
    ASSUME Quietly, TypeOK, Whole, Orderly, [Next]_vars
    PROVE  Orderly'
<1> USE DEF Orderly
<1>a. /\ events \in Seq(Event) /\ pending \in 0 .. NumReaders /\ pc \in Steps
      /\ pc \notin {"off", "idle"} => event \in Event
      /\ mhHeader \in Incoming /\ state \in {"HEADER", "MESSAGE"}
  BY DEF TypeOK
<1>b. Removal' = Removal /\ Start' = Start
  BY DEF Removal, Start
<1>1. ASSUME InTurn', Concerned' \subseteq Concerned, UNCHANGED inside PROVE Orderly'
  BY <1>1, <1>b DEF OneAnnounced, NotStarted, RemovalsLast, HandType, OwnTurn, NoneComing, inside
<1>2. CASE UNCHANGED vars
  <2>1. UNCHANGED pipe /\ UNCHANGED inside
    BY <1>2 DEF vars, pipe, inside, library, thread, socket, wire, host
  <2> QED BY <2>1, <1>1, TurnStep
<1>3. CASE TakeEvent
  <2>1. UNCHANGED pipe
    BY <1>3 DEF TakeEvent, pipe, socket, wire, host
  <2>2. InTurn' /\ Concerned' = Concerned
    BY <2>1, TurnStep
  <2> DEFINE e == Head(events)
             t == Tail(events)
  <2>3. /\ e \in Event /\ e = events[1] /\ t \in Seq(Event) /\ Len(events) = Len(t) + 1
        /\ \A i \in 1 .. Len(t) : t[i] = events[i + 1]
    BY <1>3, <1>a DEF TakeEvent
  <2>4. /\ events' = t /\ event' = e /\ pending' = pending /\ exited' = exited /\ ~exited
        /\ pc' \in {"insert", "check", "forward"}
        /\ pc' = "insert" <=> e.type = "READER_INSERT"
        /\ Start \notin Concerned
    BY <1>3 DEF TakeEvent, NotStarted
  <2> HIDE DEF e, t
  <2>5. OneAnnounced' /\ NotStarted' /\ HandType' /\ OwnTurn'
    BY <2>2, <2>4, <1>b DEF OneAnnounced, NotStarted, HandType, OwnTurn
  <2>6. 1 \in 1 .. Len(events) /\ \A i \in 1 .. Len(t) : i + 1 \in 1 .. Len(events)
    BY <2>3
  <2>7. NoneComing => NoneComing'
    BY <2>3, <2>4, <2>6 DEF NoneComing
  <2>8. pc' = "insert" => Removal \notin Concerned
    BY <2>3, <2>4, <2>6 DEF RemovalsLast, NoneComing
  <2>9. e.type = "CARD_REMOVE" => NoneComing'
    <3>1. ASSUME e.type = "CARD_REMOVE", NEW i \in 1 .. Len(t), t[i].type = "READER_INSERT"
          PROVE  FALSE
      <4>1. i + 1 < 1
        BY <3>1, <2>3, <2>6 DEF RemovalsLast
      <4> QED BY <4>1
    <3> QED BY <3>1, <2>4 DEF NoneComing
  <2>10. \A i, j \in 1 .. Len(t) :
            t[i].type = "READER_INSERT" /\ t[j].type = "CARD_REMOVE" => i < j
    <3>1. ASSUME NEW i \in 1 .. Len(t), NEW j \in 1 .. Len(t),
                 t[i].type = "READER_INSERT", t[j].type = "CARD_REMOVE"
          PROVE  i < j
      <4>1. i + 1 < j + 1
        BY <3>1, <2>3, <2>6 DEF RemovalsLast
      <4> QED BY <4>1
    <3> QED BY <3>1
  <2>11. RemovalsLast'
    BY <2>2, <2>4, <2>7, <2>8, <2>9, <2>10, <1>b DEF RemovalsLast
  <2> QED BY <2>2, <2>5, <2>11
<1>4. CASE DropUnlessPending \/ WaitForDecision \/ Decided
  <2>1. UNCHANGED pipe /\ UNCHANGED <<events, pending, exited>>
    BY <1>4 DEF DropUnlessPending, WaitForDecision, Decided, pipe, socket, wire, host, library
  <2>2. InTurn' /\ Concerned' = Concerned
    BY <2>1, TurnStep
  <2>3. pc \in {"check", "decision"} /\ pc' \in {"idle", "decision", "forward"} /\ event' = event
    BY <1>4 DEF DropUnlessPending, WaitForDecision, Decided, Delete
  <2> QED
    BY <2>1, <2>2, <2>3, <1>b DEF OneAnnounced, NotStarted, RemovalsLast, HandType, OwnTurn, NoneComing
<1>5. CASE ReaderInsert
  <2>1. UNCHANGED pipe /\ UNCHANGED <<events, exited, event>>
    BY <1>5 DEF ReaderInsert, pipe, socket, wire, host, library
  <2>2. InTurn' /\ Concerned' = Concerned
    BY <2>1, TurnStep
  <2>3. /\ pc = "insert" /\ pc' = "announce" /\ pending = None /\ pending' = event.reader
        /\ Start \notin Concerned
    BY <1>5 DEF ReaderInsert, Turn, NotStarted
  <2>4. \A x \in Concerned : x = Removal
    BY <2>3, NumbersDiffer DEF OneAnnounced, None
  <2>5. Concerned \cap Readers = {}
    BY <2>4, NumbersDiffer
  <2> QED
    BY <2>1, <2>2, <2>3, <2>4, <2>5, <1>b
       DEF OneAnnounced, NotStarted, RemovalsLast, HandType, OwnTurn, NoneComing
<1>6. CASE Announce
  <2> DEFINE z == <<Announcement>>
  <2>1. /\ QueueWords(z) /\ Announcement \in Outgoing /\ Announcement.type = "ReaderAdd"
        /\ Announcement.about = event.reader
    BY <1>6, AnnounceQueues
  <2>2. Kind[Announcement] = event.reader /\ event.reader \in Readers
    BY <2>1, MarksOfMessages
  <2>3. Marks(Kind, z) = {event.reader} /\ Ordered(Kind, z, Then)
    <3>1. Marks(Kind, z) = Mark(Kind[Announcement]) /\ Ordered(Kind, z, Then)
      BY OneMark
    <3> HIDE DEF z
    <3> QED BY <3>1, <2>2, NumbersDiffer DEF Mark
  <2>4. /\ pc = "announce" /\ pc' = "idle" /\ ~exited
        /\ UNCHANGED <<events, event, pending, exited>>
    BY <1>6 DEF Announce, library
  <2>5. Concerned = {} /\ pending = event.reader
    <3>1. pending = event.reader /\ Concerned \cap Readers = {}
      BY <2>4 DEF OwnTurn
    <3>2. Removal \notin Concerned /\ Start \notin Concerned
      BY <2>4 DEF RemovalsLast, NotStarted
    <3>3. \A x \in Concerned : x \in {Removal, Start} \/ x \in Readers
      BY <2>2, <3>1 DEF OneAnnounced
    <3> QED BY <3>1, <3>2, <3>3
  <2>6. Before(Concerned, Marks(Kind, z), Then)
    BY <2>5 DEF Before
  <2>7. InTurn' /\ Concerned' = Concerned \cup Marks(Kind, z)
    <3> HIDE DEF z
    <3> QED BY <2>1, <2>3, <2>6, TurnStep
  <2>8. Concerned' = {event.reader}
    BY <2>3, <2>5, <2>7
  <2> HIDE DEF z
  <2>9. Removal \notin Concerned' /\ Start \notin Concerned'
    BY <2>8, <2>2, NumbersDiffer
  <2> QED
    BY <2>4, <2>5, <2>7, <2>8, <2>9, <1>b
       DEF OneAnnounced, NotStarted, RemovalsLast, HandType, OwnTurn, NoneComing
<1>7. CASE Forward
  <2> DEFINE z == <<CardMessage>>
  <2>1. /\ QueueWords(z) /\ CardMessage \in Outgoing /\ CardMessage.type \in {"ATR", "CardRemove"}
        /\ CardMessage.type = "CardRemove" <=> event.type # "CARD_INSERT"
    BY <1>7, ForwardQueues
  <2>2. Marks(Kind, z) = Mark(Kind[CardMessage]) /\ Ordered(Kind, z, Then)
    BY OneMark
  <2>3. \/ CardMessage.type = "ATR" /\ Mark(Kind[CardMessage]) = {}
        \/ CardMessage.type = "CardRemove" /\ Mark(Kind[CardMessage]) = {Removal}
    BY <2>1, MarksOfMessages, NumbersDiffer DEF Mark
  <2> HIDE DEF z
  <2>4. Concerned \subseteq Nat
    BY <1>a, NumbersOnly
  <2>5. Before(Concerned, Marks(Kind, z), Then)
    <3>1. Marks(Kind, z) \subseteq {Removal}
      BY <2>2, <2>3
    <3> QED BY <2>4, <3>1, NumbersOnly
  <2>6. InTurn' /\ Concerned' = Concerned \cup Mark(Kind[CardMessage])
    BY <2>1, <2>2, <2>5, TurnStep
  <2>7. /\ pc = "forward" /\ pc' = "idle" /\ ~exited
        /\ UNCHANGED <<events, event, pending, exited>>
        /\ Start \notin Concerned
    BY <1>7 DEF Forward, library, NotStarted
  <2>8. CardMessage.type = "CardRemove" => NoneComing
    BY <2>1, <2>7, <1>a DEF HandType, RemovalsLast, Event
  <2> QED
    BY <2>3, <2>6, <2>7, <2>8, <1>b, NumbersDiffer
       DEF OneAnnounced, NotStarted, RemovalsLast, HandType, OwnTurn, NoneComing
<1>8. CASE SocketSend
  BY <1>1, <1>8, InsideSteps, TurnStep
<1>9. CASE ReadHeader
  BY <1>1, <1>9, InsideSteps, TurnStep
<1>10. CASE OnApdu \/ OnFlush
  BY <1>1, <1>10, InsideSteps, TurnStep
<1>11. CASE OnSuccess \/ OnRefusal
  <2>1. Handle
    BY <1>11, ReadHandles
  <2>2. InTurn' /\ Concerned = Held \cup Concerned' /\ Before(Held, Concerned', Then)
    BY <2>1, TurnStep
  <2>3. /\ mhHeader.type = "Error" /\ state = "MESSAGE"
        /\ UNCHANGED <<events, event, pc, exited>>
        /\ pending' \in {None, pending}
    BY <1>11 DEF OnSuccess, OnRefusal, ReadMessage, library, thread
  <2>4. Re[mhHeader] # 0 /\ Held = {Re[mhHeader]}
    <3>1. mhHeader.re \in {"ReaderAdd", "CardRemove"}
      BY <2>3, <1>a, ClientAssumption DEF Incoming, Quietly
    <3> QED BY <2>3, <3>1, <1>a, MarksOfMessages, NumbersDiffer DEF Held, Mark
  <2>5. \A x \in Concerned' : x = Removal
    BY <2>2, <2>4 DEF Before, Then
  <2>6. ~exited /\ pc = "announce" => pending' = pending
    <3>1. ASSUME ~exited, pc = "announce" PROVE FALSE
      <4>1. /\ pending = event.reader /\ Concerned \cap Readers = {}
            /\ Removal \notin Concerned /\ Start \notin Concerned
        BY <3>1 DEF OwnTurn, RemovalsLast, NotStarted
      <4>2. event \in Event /\ event.type = "READER_INSERT"
        BY <3>1, <1>a DEF HandType
      <4>3. event.reader \in Readers
        BY <4>2 DEF Event
      <4>4. Re[mhHeader] \in Concerned
        BY <2>2, <2>4
      <4> QED BY <4>1, <4>3, <4>4 DEF OneAnnounced
    <3> QED BY <3>1
  <2>7. ~exited
    BY <2>1 DEF Handle
  <2> QED
    BY <2>2, <2>3, <2>5, <2>6, <2>7, <1>b, NumbersDiffer
       DEF OneAnnounced, NotStarted, RemovalsLast, HandType, OwnTurn, NoneComing
<1>12. CASE OnInit
  <2>1. Handle
    BY <1>12, ReadHandles
  <2>2. InTurn' /\ Concerned = Held \cup Concerned' /\ Before(Held, Concerned', Then)
    BY <2>1, TurnStep
  <2>3. /\ pc' = "idle" /\ UNCHANGED <<events, event, pending, exited>>
        /\ mhHeader.type = "Init" /\ state = "MESSAGE"
    BY <1>12 DEF OnInit, ReadMessage, library
  <2>4. Held = {Start}
    BY <2>3, <1>a, MarksOfMessages, NumbersDiffer DEF Held, Mark
  <2>5. Start \notin Concerned'
    BY <2>2, <2>4, NumbersDiffer DEF Before, Then
  <2> QED
    BY <2>2, <2>3, <2>5, <1>b DEF OneAnnounced, NotStarted, RemovalsLast, HandType, OwnTurn, NoneComing
<1>13. CASE HostHandles
  BY <1>1, <1>13, HostStep, TurnStep
<1>14. CASE \E type \in {"APDU", "Flush"}, i \in Ids : HostAsks(type, i)
  BY <1>1, <1>14, AskStep, TurnStep
<1>15. CASE Exit
  <2>1. QueueWords(Farewells) /\ Farewells \in Seq(Parting)
    BY <1>15, ExitQueues
  <2>2. \A i \in 1 .. Len(Farewells) : Kind[Farewells[i]] \in {0, Removal}
    BY <2>1, MarksOfMessages DEF Parting
  <2>3. Marks(Kind, Farewells) \subseteq {Removal}
    BY <2>2 DEF Marks
  <2>4. Ordered(Kind, Farewells, Then)
    BY <2>2, ConstantFacts DEF Ordered, Then, Removal
  <2>5. Concerned \subseteq Nat
    BY <1>a, NumbersOnly
  <2>6. Before(Concerned, Marks(Kind, Farewells), Then)
    BY <2>3, <2>5, NumbersOnly
  <2>7. InTurn' /\ Concerned' = Concerned \cup Marks(Kind, Farewells)
    BY <2>1, <2>4, <2>6, TurnStep
  <2>8. exited' /\ UNCHANGED <<events, event, pc, pending>>
    BY <1>15 DEF Exit, library, thread
  <2> QED
    BY <2>3, <2>7, <2>8, <1>b, NumbersDiffer
       DEF OneAnnounced, NotStarted, RemovalsLast, HandType, OwnTurn, NoneComing
<1>16. ASSUME NEW r \in Readers, Move(r), UNCHANGED pipe,
              UNCHANGED <<id, thread, pending, exited, allocated>>
       PROVE  Orderly'
  <2> DEFINE e == CardEvent(r, ~present[r])
  <2>1. InTurn' /\ Concerned' = Concerned
    BY <1>16, TurnStep
  <2>2. e \in Event /\ e.type # "READER_INSERT"
    BY DEF CardEvent, LibraryEvent, Event
  <2>3. events' = Append(events, e) /\ UNCHANGED <<pc, event, pending, exited>>
    BY <1>16 DEF Move, thread
  <2> HIDE DEF e
  <2>4. /\ Len(events') = Len(events) + 1 /\ events'[Len(events) + 1] = e
        /\ \A i \in 1 .. Len(events) : events'[i] = events[i]
        /\ Len(events) \in Nat
    BY <2>2, <2>3, <1>a
  <2>5. NoneComing => NoneComing'
    BY <2>2, <2>4 DEF NoneComing
  <2>6. ASSUME NEW i \in 1 .. Len(events'), NEW j \in 1 .. Len(events'),
               events'[i].type = "READER_INSERT", events'[j].type = "CARD_REMOVE"
        PROVE  i < j
    <3>1. i \in 1 .. Len(events) /\ events[i].type = "READER_INSERT"
      BY <2>2, <2>4, <2>6
    <3>2. CASE j \in 1 .. Len(events)
      BY <3>1, <3>2, <2>4, <2>6 DEF RemovalsLast
    <3>3. CASE j = Len(events) + 1
      BY <3>1, <3>3, <2>4
    <3> QED BY <3>2, <3>3, <2>4
  <2>7. RemovalsLast'
    BY <2>1, <2>3, <2>5, <2>6, <1>b DEF RemovalsLast
  <2> QED BY <2>1, <2>3, <2>7, <1>b DEF OneAnnounced, NotStarted, HandType, OwnTurn
<1> HIDE DEF Orderly
<1> QED
  BY <1>2, <1>3, <1>4, <1>5, <1>6, <1>7, <1>8, <1>9, <1>10, <1>11, <1>12, <1>13, <1>14, <1>15,
     <1>16, InsideSteps, ConstantFacts DEF Next, EventThread, SocketRead

LEMMA OrderlyStart ==
    ASSUME Init PROVE Orderly
<1> DEFINE m == send_msg("Init", 0, None, 0)
<1>1. m \in Outgoing /\ m.type = "Init"
  BY SendType, ConstantFacts DEF MessageTypes, Answering, AboutReader, send_msg, Message
<1>2. /\ toHost = <<>> /\ toClient = <<>> /\ state = "HEADER" /\ socket_to_send = <<m>>
      /\ pc = "off" /\ pending = None
  BY DEF Init
<1>3. Kind[m] = Start
  <2> HIDE DEF m
  <2> QED BY <1>1, MarksOfMessages
<1>4. Marks(Kind, socket_to_send) = {Start} /\ Ordered(Kind, socket_to_send, Then)
  <2>1. Marks(Kind, <<m>>) = Mark(Kind[m]) /\ Ordered(Kind, <<m>>, Then)
    BY OneMark
  <2> HIDE DEF m
  <2> QED BY <1>2, <1>3, <2>1, NumbersDiffer DEF Mark
<1>5. /\ Marks(Kind, toHost) = {} /\ Ordered(Kind, toHost, Then)
      /\ Marks(ChunkRe, toClient) = {} /\ Ordered(ChunkRe, toClient, Then)
  <2> HIDE DEF m
  <2> QED BY <1>2 DEF Marks, Ordered
<1>6. Held = {}
  BY <1>2 DEF Held, Mark
<1>7. InTurn /\ Concerned = {Start}
  BY <1>4, <1>5, <1>6 DEF InTurn, Before, Concerned
<1>8. \A i \in 1 .. Len(events) : events[i].type # "CARD_REMOVE"
  BY InitialQueue DEF StartQueue
<1> QED
  BY <1>2, <1>7, <1>8, NumbersDiffer
     DEF Orderly, OneAnnounced, NotStarted, RemovalsLast, HandType, OwnTurn

(* A reader without an answer is one of those concerned: a payload on its  *)
(* way has its header before it, or in the client's hand.                  *)
LEMMA UnansweredIsConcerned ==
    ASSUME TypeOK, Whole, NEW r \in Readers, Unanswered(r)
    PROVE  r \in Concerned
<1>1. /\ toHost \in Seq(Outgoing) /\ socket_to_send \in Seq(Outgoing) /\ toClient \in Seq(Chunk)
      /\ mhHeader \in Incoming /\ state \in {"HEADER", "MESSAGE"} /\ r # 0
  BY ConstantFacts DEF TypeOK, None
<1>2. ASSUME NEW m \in Queued, m.type = "ReaderAdd", m.about = r PROVE r \in Concerned
  <2> DEFINE s == socket_to_send
             t == toHost
             u == s \o t
  <2>1. PICK i \in DOMAIN u : m = u[i]
    BY <1>2 DEF Queued, Range
  <2>2. /\ u \in Seq(Outgoing) /\ Len(u) = Len(s) + Len(t)
        /\ \A k \in 1 .. Len(s) + Len(t) : u[k] = IF k <= Len(s) THEN s[k] ELSE t[k - Len(s)]
    BY <1>1, ConcatProperties
  <2>3. /\ i \in 1 .. Len(s) + Len(t) /\ Len(s) \in Nat /\ Len(t) \in Nat
        /\ m = IF i <= Len(s) THEN s[i] ELSE t[i - Len(s)]
    BY <2>1, <2>2, <1>1
  <2> HIDE DEF u
  <2>4. ASSUME m \in Outgoing PROVE Kind[m] = r
    BY <2>4, <1>2, MarksOfMessages
  <2>5. CASE i <= Len(s)
    <3>1. i \in 1 .. Len(s) /\ m = s[i]
      BY <2>3, <2>5
    <3>2. Kind[s[i]] = r
      BY <3>1, <2>4, <1>1
    <3>3. r \in Marks(Kind, s)
      BY <3>1, <3>2, <1>1 DEF Marks
    <3> QED BY <3>3 DEF Concerned
  <2>6. CASE ~(i <= Len(s))
    <3>1. i - Len(s) \in 1 .. Len(t) /\ m = t[i - Len(s)]
      BY <2>3, <2>6
    <3>2. Kind[t[i - Len(s)]] = r
      BY <3>1, <2>4, <1>1
    <3>3. r \in Marks(Kind, t)
      BY <3>1, <3>2, <1>1 DEF Marks
    <3> QED BY <3>3 DEF Concerned
  <2> QED BY <2>5, <2>6
<1>3. ASSUME state = "MESSAGE", Answers(mhHeader, r) PROVE r \in Concerned
  <2>1. Re[mhHeader] = r
    BY <1>1, <1>3, MarksOfMessages DEF Answers
  <2> QED BY <1>1, <1>3, <2>1 DEF Concerned, Held, Mark
<1>4. ASSUME NEW i \in 1 .. Len(toClient), toClient[i].part = "header", Answers(toClient[i].m, r)
      PROVE  r \in Concerned
  <2>4. toClient[i] \in Chunk
    BY <1>1
  <2>1. toClient[i] \in Chunk /\ toClient[i].m \in Incoming
    BY <2>4 DEF Chunk
  <2>2. Re[toClient[i].m] = r
    BY <2>1, <1>4, MarksOfMessages DEF Answers
  <2>3. ChunkRe[toClient[i]] = r
    BY <2>1, <2>2, <1>4 DEF ChunkRe, OfHeader
  <2> QED BY <1>1, <2>3 DEF Concerned, Marks
<1>5. ASSUME NEW i \in 1 .. Len(toClient), toClient[i].part # "header", Answers(toClient[i].m, r)
      PROVE  r \in Concerned
  <2>1. CASE i = 1
    <3>1. toClient # <<>>
      BY <1>1, <1>5
    <3>2. state = "MESSAGE" /\ toClient[1] = Body(mhHeader)
      BY <1>1, <1>5, <2>1, <3>1 DEF Whole
    <3>3. Answers(mhHeader, r)
      BY <1>5, <2>1, <3>2 DEF Body
    <3> QED BY <1>3, <3>2, <3>3
  <2>2. CASE i # 1
    <3> DEFINE k == i - 1
    <3>1. i \in 2 .. Len(toClient) /\ k \in 1 .. Len(toClient) /\ k + 1 = i
      BY <1>1, <2>2
    <3>2. ~Ends(toClient[k])
      BY <3>1, <1>5 DEF Whole
    <3> HIDE DEF k
    <3>3. toClient[i] = Body(toClient[k].m)
      BY <3>1, <3>2 DEF Whole
    <3>6. toClient[k] \in Chunk
      BY <1>1, <3>1
    <3>4. toClient[k].part = "header"
      BY <3>6, <3>2 DEF Chunk, Ends
    <3>5. Answers(toClient[k].m, r)
      BY <1>5, <3>3 DEF Body
    <3> QED BY <1>4, <3>1, <3>4, <3>5
  <2> QED BY <2>1, <2>2
<1>6. ASSUME NEW c \in Range(toClient), Answers(c.m, r) PROVE r \in Concerned
  <2>1. PICK i \in DOMAIN toClient : c = toClient[i]
    BY <1>6 DEF Range
  <2>2. i \in 1 .. Len(toClient)
    BY <2>1, <1>1
  <2> QED BY <1>4, <1>5, <1>6, <2>1, <2>2
<1> QED BY <1>2, <1>3, <1>6 DEF Unanswered

-----------------------------------------------------------------------------
(* What the host has allocated.  Once: no reader that has an id there is   *)
(* announced or to be announced again.  And rightly: an id in a message or *)
(* at the client is the one allocated.                                     *)
Heard == {toClient[i].m : i \in 1 .. Len(toClient)} \cup {mhHeader}
NotYet(r) == allocated[r] = Undefined
Grants(m) == m.re = "ReaderAdd" /\ m.code = "SUCCESS"

Named == \A r \in Readers : id[r] \in {Undefined, allocated[r]}
GrantsTrue == \A m \in Heard : Grants(m) => m.id = allocated[m.about]
AddsFresh == \A m \in Queued : m.type = "ReaderAdd" => NotYet(m.about)
CardsTold == \A m \in Queued : m.type \in {"ATR", "CardRemove"} => ~NotYet(m.about)
InsertFresh ==
    /\ pc \in {"insert", "announce"} => NotYet(event.reader)
    /\ pc = "insert" => event.reader \notin Concerned
ComingFresh ==
    \A i \in 1 .. Len(events) : events[i].type = "READER_INSERT" =>
        /\ NotYet(events[i].reader) /\ events[i].reader \notin Concerned
        /\ pc \in {"insert", "announce"} => event.reader # events[i].reader
ComingOnce ==
    \A i, j \in 1 .. Len(events) :
        events[i].type = "READER_INSERT" /\ events[i] = events[j] => i = j
ForwardTold == pc = "forward" => ~NotYet(event.reader)

(* A pending reader's announcement is still under way, unless a refusal    *)
(* leaves it pending for ever                                              *)
RefusalEnds == AddErrors \subseteq {"CANNOT_ADD_MORE_READERS"}
PendingUnderWay ==
    RefusalEnds /\ pending # None /\ ~exited => pc = "announce" \/ pending \in Concerned

Told == Named /\ GrantsTrue /\ AddsFresh /\ CardsTold
Allotted == /\ Told /\ InsertFresh /\ ComingFresh /\ ComingOnce /\ ForwardTold
            /\ PendingUnderWay

LEMMA RangeFacts ==
    ASSUME NEW S, NEW s \in Seq(S), NEW t \in Seq(S)
    PROVE  /\ Range(s) \subseteq S
           /\ Range(s \o t) = Range(s) \cup Range(t)
           /\ \A x \in S : Range(Append(s, x)) = Range(s) \cup {x}
           /\ s # <<>> => Range(s) = {Head(s)} \cup Range(Tail(s))
<1>1. \A u \in Seq(S) : Range(u) = {u[i] : i \in 1 .. Len(u)}
  BY DEF Range
<1>2. Range(s) \subseteq S
  BY <1>1
<1>3. Range(s \o t) = Range(s) \cup Range(t)
  <2> DEFINE u == s \o t
  <2>1. /\ u \in Seq(S) /\ Len(u) = Len(s) + Len(t) /\ Len(s) \in Nat /\ Len(t) \in Nat
        /\ \A i \in 1 .. Len(s) : u[i] = s[i]
        /\ \A i \in 1 .. Len(t) : u[Len(s) + i] = t[i]
    OBVIOUS
  <2> HIDE DEF u
  <2>2. \A i \in 1 .. Len(u) : i \in 1 .. Len(s) \/ i - Len(s) \in 1 .. Len(t)
    BY <2>1
  <2>3. \A i \in 1 .. Len(u) : u[i] \in Range(s) \cup Range(t)
    <3>1. ASSUME NEW i \in 1 .. Len(u) PROVE u[i] \in Range(s) \cup Range(t)
      <4>1. CASE i \in 1 .. Len(s)
        BY <4>1, <2>1, <1>1
      <4>2. CASE i - Len(s) \in 1 .. Len(t)
        <5>1. u[i] = t[i - Len(s)]
          BY <4>2, <2>1
        <5> QED BY <5>1, <4>2, <1>1
      <4> QED BY <4>1, <4>2, <2>2
    <3> QED BY <3>1
  <2>4. \A i \in 1 .. Len(s) : s[i] \in Range(u)
    BY <2>1, <1>1
  <2>5. \A i \in 1 .. Len(t) : t[i] \in Range(u)
    <3>1. ASSUME NEW i \in 1 .. Len(t) PROVE t[i] \in Range(u)
      <4>1. Len(s) + i \in 1 .. Len(u) /\ t[i] = u[Len(s) + i]
        BY <2>1
      <4> QED BY <4>1, <2>1, <1>1
    <3> QED BY <3>1
  <2>6. Range(u) \subseteq Range(s) \cup Range(t)
    BY <2>3, <2>1, <1>1
  <2>7. Range(s) \subseteq Range(u) /\ Range(t) \subseteq Range(u)
    BY <2>4, <2>5, <1>1
  <2> QED BY <2>6, <2>7 DEF u
<1>4. ASSUME NEW x \in S PROVE Range(Append(s, x)) = Range(s) \cup {x}
  <2> DEFINE u == Append(s, x)
  <2>1. /\ u \in Seq(S) /\ Len(u) = Len(s) + 1 /\ Len(s) \in Nat /\ u[Len(s) + 1] = x
        /\ \A i \in 1 .. Len(s) : u[i] = s[i]
    OBVIOUS
  <2> HIDE DEF u
  <2>2. \A i \in 1 .. Len(u) : i \in 1 .. Len(s) \/ i = Len(s) + 1
    BY <2>1
  <2>3. Range(u) \subseteq Range(s) \cup {x}
    BY <2>1, <2>2, <1>1
  <2>4. Range(s) \cup {x} \subseteq Range(u)
    <3>1. Len(s) + 1 \in 1 .. Len(u) /\ \A i \in 1 .. Len(s) : i \in 1 .. Len(u)
      BY <2>1
    <3> QED BY <2>1, <3>1, <1>1
  <2> QED BY <2>3, <2>4 DEF u
<1>5. ASSUME s # <<>> PROVE Range(s) = {Head(s)} \cup Range(Tail(s))
  <2> DEFINE u == Tail(s)
  <2>1. /\ u \in Seq(S) /\ Len(s) = Len(u) + 1 /\ Len(u) \in Nat /\ Head(s) = s[1]
        /\ \A i \in 1 .. Len(u) : u[i] = s[i + 1]
    BY <1>5
  <2> HIDE DEF u
  <2>2. \A i \in 1 .. Len(s) : i = 1 \/ (i - 1 \in 1 .. Len(u) /\ (i - 1) + 1 = i)
    BY <2>1
  <2>3. \A i \in 1 .. Len(s) : s[i] = Head(s) \/ s[i] \in Range(u)
    <3>1. ASSUME NEW i \in 1 .. Len(s), i # 1 PROVE s[i] \in Range(u)
      <4>1. i - 1 \in 1 .. Len(u) /\ s[i] = u[i - 1]
        BY <3>1, <2>1, <2>2
      <4> QED BY <4>1, <2>1, <1>1
    <3> QED BY <3>1, <2>1
  <2>4. \A i \in 1 .. Len(u) : u[i] \in Range(s)
    <3>1. ASSUME NEW i \in 1 .. Len(u) PROVE u[i] \in Range(s)
      <4>1. i + 1 \in 1 .. Len(s) /\ u[i] = s[i + 1]
        BY <2>1
      <4> QED BY <4>1, <1>1
    <3> QED BY <3>1
  <2>5. 1 \in 1 .. Len(s)
    BY <2>1
  <2>6. Range(s) \subseteq {Head(s)} \cup Range(u)
    BY <2>3, <1>1
  <2>7. {Head(s)} \cup Range(u) \subseteq Range(s)
    BY <2>4, <2>5, <2>1, <1>1
  <2> QED BY <2>6, <2>7 DEF u
<1> QED BY <1>2, <1>3, <1>4, <1>5

(* What a step of the pipe does to the messages in it *)
LEMMA MessagesStep ==
    ASSUME TypeOK
    PROVE  /\ Queued = Range(socket_to_send) \cup Range(toHost)
           /\ Queued \subseteq Outgoing /\ Heard \subseteq Incoming
           /\ UNCHANGED pipe \/ SendOne => Queued' = Queued /\ Heard' = Heard
           /\ TakeHeader => Queued' = Queued /\ Heard' \subseteq Heard
           /\ \A z : QueueWords(z) => Queued' = Queued \cup Range(z) /\ Heard' = Heard
           /\ Handle => /\ Heard' \subseteq Heard
                        /\ \A m \in Queued' : m \in Queued \/ m.type \notin AboutReader
           /\ HostTakes => /\ Queued' = Range(socket_to_send) \cup Range(Tail(toHost))
                           /\ Queued' \subseteq Queued /\ Head(toHost) \in Queued
           /\ \A m \in Incoming : Sends(m) => Heard' \subseteq Heard \cup {m}
           /\ UNCHANGED <<state, mhHeader, toClient>> => Heard' = Heard
<1> DEFINE s == socket_to_send
           t == toHost
<1>1. s \in Seq(Outgoing) /\ t \in Seq(Outgoing) /\ toClient \in Seq(Chunk) /\ mhHeader \in Incoming
  BY DEF TypeOK
<1>2. Queued = Range(s) \cup Range(t)
  <2>1. Range(s \o t) = Range(s) \cup Range(t)
    BY <1>1, RangeFacts
  <2> QED BY <2>1 DEF Queued
<1>3. Range(s) \subseteq Outgoing /\ Range(t) \subseteq Outgoing
  BY <1>1, RangeFacts
<1>4. Heard \subseteq Incoming
  <2>1. \A i \in 1 .. Len(toClient) : toClient[i] \in Chunk
    BY <1>1
  <2>2. \A i \in 1 .. Len(toClient) : toClient[i].m \in Incoming
    BY <2>1 DEF Chunk
  <2> QED BY <2>2, <1>1 DEF Heard
<1>5. ASSUME socket_to_send' \in Seq(Outgoing), toHost' \in Seq(Outgoing)
      PROVE  Queued' = Range(socket_to_send') \cup Range(toHost')
  <2>1. Range(socket_to_send' \o toHost') = Range(socket_to_send') \cup Range(toHost')
    BY <1>5, RangeFacts
  <2> QED BY <2>1 DEF Queued
<1>6. UNCHANGED <<mhHeader, toClient>> => Heard' = Heard
  BY DEF Heard
<1>7. UNCHANGED <<socket_to_send, toHost>> => Queued' = Queued
  BY DEF Queued
<1>8. SendOne => Queued' = Queued
  <2> SUFFICES ASSUME SendOne PROVE Queued' = Queued
    OBVIOUS
  <2>1. s # <<>> /\ socket_to_send' = Tail(s) /\ toHost' = Append(t, Head(s))
    BY DEF SendOne
  <2>2. Head(s) \in Outgoing /\ Tail(s) \in Seq(Outgoing) /\ Append(t, Head(s)) \in Seq(Outgoing)
    BY <1>1, <2>1
  <2>3. Range(s) = {Head(s)} \cup Range(Tail(s)) /\ Range(Append(t, Head(s))) = Range(t) \cup {Head(s)}
    BY <1>1, <2>1, <2>2, RangeFacts
  <2>4. Queued' = Range(Tail(s)) \cup Range(Append(t, Head(s)))
    BY <1>5, <2>1, <2>2
  <2> QED BY <1>2, <2>3, <2>4
<1>9. TakeHeader => Queued' = Queued /\ Heard' \subseteq Heard
  <2> SUFFICES ASSUME TakeHeader PROVE Heard' \subseteq Heard
    BY <1>7 DEF TakeHeader
  <2>1. toClient # <<>> /\ toClient' = Tail(toClient) /\ mhHeader' = Head(toClient).m
    BY DEF TakeHeader
  <2>2. /\ 1 \in 1 .. Len(toClient) /\ Head(toClient) = toClient[1]
        /\ \A i \in 1 .. Len(Tail(toClient)) :
              i + 1 \in 1 .. Len(toClient) /\ Tail(toClient)[i] = toClient[i + 1]
    BY <1>1, <2>1
  <2> QED BY <2>1, <2>2 DEF Heard
<1>10. ASSUME NEW z, QueueWords(z) PROVE Queued' = Queued \cup Range(z) /\ Heard' = Heard
  <2>1. z \in Seq(Outgoing) /\ socket_to_send' = s \o z /\ toHost' = t
    BY <1>10 DEF QueueWords
  <2>2. Range(s \o z) = Range(s) \cup Range(z) /\ s \o z \in Seq(Outgoing)
    BY <1>1, <2>1, RangeFacts
  <2>3. Queued' = Range(s \o z) \cup Range(t)
    BY <1>1, <1>5, <2>1, <2>2
  <2> QED BY <1>2, <1>6, <1>10, <2>2, <2>3 DEF QueueWords
<1>11. ASSUME Handle
       PROVE  /\ Heard' \subseteq Heard
              /\ \A m \in Queued' : m \in Queued \/ m.type \notin AboutReader
  <2>1. Heard' \subseteq Heard
    <3>1. toClient # <<>> /\ mhHeader' = mhHeader
          /\ (toClient' = toClient \/ toClient' = Tail(toClient))
      BY <1>11 DEF Handle
    <3>2. \A i \in 1 .. Len(Tail(toClient)) :
             i + 1 \in 1 .. Len(toClient) /\ Tail(toClient)[i] = toClient[i + 1]
      BY <1>1, <3>1
    <3> QED BY <3>1, <3>2 DEF Heard
  <2>2. CASE UNCHANGED socket_to_send
    BY <1>7, <1>11, <2>1, <2>2 DEF Handle
  <2>3. CASE \E m \in Outgoing : m.type \notin AboutReader
                                 /\ socket_to_send' = Append(socket_to_send, m)
    <3>1. PICK m \in Outgoing : m.type \notin AboutReader /\ socket_to_send' = Append(s, m)
      BY <2>3
    <3>2. Range(Append(s, m)) = Range(s) \cup {m} /\ Append(s, m) \in Seq(Outgoing)
      BY <1>1, <3>1, RangeFacts
    <3>3. Queued' = Range(Append(s, m)) \cup Range(t)
      BY <1>1, <1>5, <1>11, <3>1, <3>2 DEF Handle
    <3> QED BY <1>2, <2>1, <3>1, <3>2, <3>3
  <2> QED BY <1>11, <2>2, <2>3 DEF Handle
<1>12. ASSUME HostTakes
       PROVE  /\ Queued' = Range(s) \cup Range(Tail(t))
              /\ Queued' \subseteq Queued /\ Head(t) \in Queued
  <2>1. t # <<>> /\ toHost' = Tail(t) /\ socket_to_send' = s
    BY <1>12 DEF HostTakes
  <2>2. Range(t) = {Head(t)} \cup Range(Tail(t)) /\ Tail(t) \in Seq(Outgoing)
    BY <1>1, <2>1, RangeFacts
  <2>3. Queued' = Range(s) \cup Range(Tail(t))
    BY <1>1, <1>5, <2>1, <2>2
  <2> QED BY <1>2, <2>2, <2>3
<1>13. ASSUME NEW m \in Incoming, Sends(m) PROVE Heard' \subseteq Heard \cup {m}
  <2> DEFINE u == toClient
             v == Chunks(m)
             w == u \o v
  <2>1. v \in Seq(Chunk) /\ \A i \in 1 .. Len(v) : v[i].m = m
    <3>1. CASE m.type = "Flush"
      <4>1. v \in Seq(Chunk) /\ v = <<[part |-> "header", m |-> m]>>
        BY <3>1, ChunksAre
      <4> HIDE DEF v
      <4> QED BY <4>1
    <3>2. CASE m.type # "Flush"
      <4>1. v \in Seq(Chunk) /\ v = <<[part |-> "header", m |-> m], [part |-> "body", m |-> m]>>
        BY <3>2, ChunksAre
      <4> HIDE DEF v
      <4> QED BY <4>1
    <3> QED BY <3>1, <3>2
  <2>2. toClient' = w /\ mhHeader' = mhHeader
    BY <1>13 DEF Sends
  <2> HIDE DEF v
  <2>3. /\ Len(w) = Len(u) + Len(v) /\ Len(u) \in Nat /\ Len(v) \in Nat
        /\ \A i \in 1 .. Len(w) : w[i] = IF i <= Len(u) THEN u[i] ELSE v[i - Len(u)]
    BY <1>1, <2>1
  <2> HIDE DEF w
  <2>4. ASSUME NEW i \in 1 .. Len(w) PROVE w[i].m \in Heard \cup {m}
    <3>1. CASE i <= Len(u)
      BY <2>3, <3>1 DEF Heard
    <3>2. CASE ~(i <= Len(u))
      <4>1. i - Len(u) \in 1 .. Len(v) /\ w[i] = v[i - Len(u)]
        BY <2>3, <3>2
      <4> QED BY <2>1, <4>1
    <3> QED BY <3>1, <3>2
  <2>5. Heard' = {w[i].m : i \in 1 .. Len(w)} \cup {mhHeader}
    BY <2>2 DEF Heard
  <2> QED BY <2>4, <2>5 DEF Heard
<1> QED
  BY <1>2, <1>3, <1>4, <1>6, <1>7, <1>8, <1>9, <1>10, <1>11, <1>12, <1>13 DEF pipe, SendOne

(* The announcement the host takes is the only one of its reader *)
LEMMA TakenOnce ==
    ASSUME TypeOK, InTurn, HostTakes, Head(toHost).type = "ReaderAdd"
    PROVE  /\ Head(toHost).about \in Readers /\ Head(toHost).about \in Concerned
           /\ \A m \in Queued' : m.type = "ReaderAdd" => m.about # Head(toHost).about
<1> DEFINE h == Head(toHost)
           t == Tail(toHost)
<1>1. /\ toHost \in Seq(Outgoing) /\ toHost # <<>> /\ socket_to_send \in Seq(Outgoing)
      /\ t \in Seq(Outgoing) /\ h \in Outgoing
  BY DEF TypeOK, HostTakes
<1>2. h.about \in Readers /\ Kind[h] = h.about
  BY <1>1, MarksOfMessages
<1>3. /\ Marks(Kind, toHost) = Mark(Kind[h]) \cup Marks(Kind, t)
      /\ Before(Mark(Kind[h]), Marks(Kind, t), Then)
  BY <1>1, TailMarks DEF InTurn
<1> HIDE DEF h, t
<1>4. h.about \in Marks(Kind, toHost) /\ h.about \in Mark(Kind[h])
  BY <1>2, <1>3, NumbersDiffer DEF Mark
<1>9. h.about # Removal
  BY <1>2, NumbersDiffer
<1>10. \A X, Y : h.about \in X /\ Before(X, Y, Then) => h.about \notin Y
  BY <1>9 DEF Before, Then
<1>11. Before(Marks(Kind, toHost), Marks(Kind, socket_to_send), Then)
  BY DEF InTurn
<1>5. h.about \notin Marks(Kind, t) /\ h.about \notin Marks(Kind, socket_to_send)
  BY <1>3, <1>4, <1>10, <1>11
<1>6. ASSUME NEW u \in Seq(Outgoing), NEW m \in Range(u), m.type = "ReaderAdd", m.about = h.about
      PROVE  h.about \in Marks(Kind, u)
  <2>1. PICK i \in 1 .. Len(u) : m = u[i]
    BY <1>6 DEF Range
  <2>2. m \in Outgoing
    BY <2>1
  <2>3. Kind[u[i]] = h.about
    BY <1>6, <2>1, <2>2, MarksOfMessages
  <2> QED BY <2>1, <2>3, <1>2, NumbersDiffer DEF Marks
<1>7. Queued' = Range(socket_to_send) \cup Range(t)
  BY MessagesStep DEF t
<1>8. \A m \in Queued' : m.type = "ReaderAdd" => m.about # h.about
  BY <1>1, <1>5, <1>6, <1>7
<1> QED BY <1>2, <1>4, <1>8 DEF h, Concerned

LEMMA AllottedStart ==
    ASSUME Init PROVE Allotted
<1> DEFINE m == send_msg("Init", 0, None, 0)
           n == send_msg("none", 0, None, 0)
<1>1. m.type = "Init" /\ n.re = "none"
  BY DEF send_msg, Message
<1>2. /\ toHost = <<>> /\ toClient = <<>> /\ state = "HEADER" /\ socket_to_send = <<m>>
      /\ mhHeader = n /\ pc = "off" /\ pending = None
      /\ id = [r \in Readers |-> Undefined] /\ allocated = [r \in Readers |-> Undefined]
  BY DEF Init
<1>3. TypeOK /\ Orderly
  BY TypeInit, OrderlyStart
<1>4. Queued = {m} /\ Heard = {n}
  <2>1. Range(<<m>>) = {m} /\ Range(<<>>) = {}
    <3> HIDE DEF m
    <3> QED BY DEF Range
  <2>2. Queued = Range(socket_to_send) \cup Range(toHost)
    BY <1>3, MessagesStep
  <2> HIDE DEF m, n
  <2>3. Heard = {n}
    BY <1>2 DEF Heard
  <2> QED BY <1>2, <2>1, <2>2, <2>3
<1> HIDE DEF m, n
<1>5. Told
  BY <1>1, <1>2, <1>4 DEF Told, Named, GrantsTrue, AddsFresh, CardsTold, Grants
<1>6. events \in StartQueue(NumReaders) /\ events \in Seq(Event)
  BY InitialQueue DEF StartQueue
<1>7. ComingOnce
  BY <1>6 DEF StartQueue, ComingOnce
<1>8. Readers \cap Concerned = {}
  <2>1. \A x \in Concerned : x \in {Removal, Start}
    <3>1. \A x \in Concerned : x # 0
      BY NumbersDiffer
    <3> QED BY <3>1, <1>2, <1>3 DEF Orderly, OneAnnounced, None
  <2> QED BY <2>1, NumbersDiffer
<1>9. ComingFresh
  <2>2. \A i \in 1 .. Len(events) : events[i] \in Event
    BY <1>6
  <2>1. \A i \in 1 .. Len(events) : events[i].reader \in Readers
    BY <2>2 DEF Event
  <2> QED BY <1>2, <1>8, <2>1 DEF ComingFresh, NotYet
<1> QED
  BY <1>2, <1>5, <1>7, <1>9 DEF Allotted, InsertFresh, ForwardTold, PendingUnderWay

LEMMA AllottedStep ==
    ASSUME Quietly, RefusalEnds \/ "CardRemove" \notin HostAnswers,
           TypeOK, Whole, Orderly, Allotted, [Next]_vars
    PROVE  Allotted'
<1> USE DEF Allotted
<1>a. /\ events \in Seq(Event) /\ pending \in 0 .. NumReaders /\ pc \in Steps
      /\ pc \notin {"off", "idle"} => event \in Event
      /\ mhHeader \in Incoming /\ state \in {"HEADER", "MESSAGE"}
      /\ id \in [Readers -> Ids \cup {Undefined}] /\ allocated \in [Readers -> Ids \cup {Undefined}]
      /\ Undefined \notin Ids
  BY DEF TypeOK, Ids, Undefined
<1>b. InTurn /\ OneAnnounced /\ NotStarted /\ RemovalsLast /\ HandType /\ OwnTurn
  BY DEF Orderly
<1>c. Heard \subseteq Incoming /\ Queued \subseteq Outgoing /\ mhHeader \in Heard
  BY MessagesStep DEF Heard
<1>d. \A r \in Readers : NotYet(r) <=> allocated[r] = Undefined
  BY DEF NotYet
<1>1. ASSUME UNCHANGED <<id, allocated>>,
             \A m \in Queued' : m \in Queued \/ m.type \notin AboutReader,
             \A m \in Heard' : m \in Heard \/ ~Grants(m)
      PROVE  Told'
  BY <1>1 DEF Told, Named, GrantsTrue, AddsFresh, CardsTold, NotYet, Grants, AboutReader
<1>2. ASSUME UNCHANGED <<allocated, pc, event, events>>, Concerned' \subseteq Concerned
      PROVE  InsertFresh' /\ ComingFresh' /\ ComingOnce' /\ ForwardTold'
  BY <1>2 DEF InsertFresh, ComingFresh, ComingOnce, ForwardTold, NotYet
<1>3. ASSUME UNCHANGED <<id, pc, event, events, pending, exited, allocated>>,
             \A m \in Queued' : m \in Queued \/ m.type \notin AboutReader,
             \A m \in Heard' : m \in Heard \/ ~Grants(m),
             Concerned' \subseteq Concerned, Concerned \subseteq Concerned' \cup {Removal}
      PROVE  Allotted'
  <2>1. PendingUnderWay'
    BY <1>3, <1>a, NumbersDiffer DEF PendingUnderWay, RefusalEnds
  <2> QED BY <1>1, <1>2, <1>3, <2>1
<1>4. CASE UNCHANGED vars
  <2>1. UNCHANGED pipe /\ UNCHANGED inside /\ UNCHANGED allocated
    BY <1>4 DEF vars, pipe, inside, library, thread, socket, wire, host
  <2>2. Concerned' = Concerned /\ Queued' = Queued /\ Heard' = Heard
    BY <2>1, <1>b, TurnStep, MessagesStep
  <2> QED BY <2>1, <2>2, <1>3 DEF inside
<1>5. CASE SocketSend \/ ReadHeader
  <2>1. (SendOne \/ TakeHeader) /\ UNCHANGED inside
    BY <1>5, InsideSteps
  <2>2. Concerned' = Concerned /\ Queued' = Queued /\ Heard' \subseteq Heard
    BY <2>1, <1>b, TurnStep, MessagesStep
  <2>3. UNCHANGED allocated
    BY <1>5 DEF SocketSend, ReadHeader, host
  <2> QED BY <2>1, <2>2, <2>3, <1>3 DEF inside
<1>6. CASE OnApdu \/ OnFlush
  <2>1. Handle /\ UNCHANGED inside
    BY <1>6, InsideSteps
  <2>2. /\ Concerned = Held \cup Concerned' /\ Heard' \subseteq Heard
        /\ \A m \in Queued' : m \in Queued \/ m.type \notin AboutReader
    BY <2>1, <1>b, TurnStep, MessagesStep
  <2>3. UNCHANGED allocated /\ mhHeader.type \in {"APDU", "Flush"}
    BY <1>6 DEF OnApdu, OnFlush, ReadMessage, host
  <2>4. Held = {}
    <3>1. Re[mhHeader] = 0
      BY <2>3, <1>a, MarksOfMessages DEF Incoming
    <3> QED BY <3>1 DEF Held, Mark
  <2> QED BY <2>1, <2>2, <2>3, <2>4, <1>3 DEF inside
<1>7. CASE HostHandles /\ ~HostReaderAdd
  <2>1. HostTakes /\ UNCHANGED inside /\ UNCHANGED allocated
    BY <1>7, HostStep
       DEF HostHandles, HostInit, HostReaderRemove, HostCard, HostAnswered, host
  <2>2. /\ Concerned' \subseteq Concerned /\ Concerned \subseteq Concerned' \cup {Removal}
        /\ Queued' \subseteq Queued
    BY <2>1, <1>b, TurnStep, MessagesStep
  <2>3. \A m \in Heard' : m \in Heard \/ ~Grants(m)
    <3>1. CASE UNCHANGED <<state, mhHeader, toClient>>
      BY <3>1, MessagesStep
    <3>2. CASE \E m \in Incoming : Replies(m, Head(toHost)) /\ Sends(m)
      <4>1. PICK m \in Incoming : Replies(m, Head(toHost)) /\ Sends(m)
        BY <3>2
      <4>2. Heard' \subseteq Heard \cup {m}
        BY <4>1, MessagesStep
      <4>3. Head(toHost).type # "ReaderAdd"
        BY <1>7 DEF HostHandles, HostInit, HostReaderRemove, HostCard, HostAnswered, Receive
      <4>4. ~Grants(m)
        BY <4>1, <4>3 DEF Replies, Grants, Incoming
      <4> QED BY <4>2, <4>4
    <3> QED BY <2>1, <3>1, <3>2 DEF HostTakes
  <2> QED BY <2>1, <2>2, <2>3, <1>3 DEF inside
<1>8. ASSUME NEW type \in {"APDU", "Flush"}, NEW i \in Ids, HostAsks(type, i)
      PROVE  Allotted'
  <2>1. HostAsksNext /\ UNCHANGED inside /\ UNCHANGED allocated
    BY <1>8, AskStep DEF HostAsks
  <2>2. PICK m \in Incoming : m.re = "none" /\ Sends(m)
    BY <2>1 DEF HostAsksNext
  <2>3. Heard' \subseteq Heard \cup {m} /\ ~Grants(m)
    BY <2>2, MessagesStep DEF Grants
  <2>4. Queued' = Queued
    BY <2>1 DEF HostAsksNext, Queued
  <2>5. Concerned' = Concerned
    BY <2>1, <1>b, TurnStep
  <2> QED BY <2>1, <2>3, <2>4, <2>5, <1>3 DEF inside
<1>9. CASE TakeEvent
  <2>1. UNCHANGED pipe /\ UNCHANGED <<id, pending, exited, allocated>>
    BY <1>9 DEF TakeEvent, pipe, socket, wire, host
  <2>2. Concerned' = Concerned /\ Queued' = Queued /\ Heard' = Heard
    BY <2>1, <1>b, TurnStep, MessagesStep
  <2> DEFINE e == Head(events)
             t == Tail(events)
  <2>3. /\ e \in Event /\ e = events[1] /\ t \in Seq(Event) /\ Len(events) = Len(t) + 1
        /\ \A i \in 1 .. Len(t) : t[i] = events[i + 1] /\ t[i] \in Event
    BY <1>9, <1>a DEF TakeEvent
  <2>4. /\ events' = t /\ event' = e /\ ~exited /\ pc = "idle"
        /\ pc' = IF e.type = "READER_INSERT" THEN "insert"
                 ELSE IF id[e.reader] = Undefined THEN "check" ELSE "forward"
    BY <1>9 DEF TakeEvent, Stays
  <2> HIDE DEF e, t
  <2>5. 1 \in 1 .. Len(events) /\ \A i \in 1 .. Len(t) : i + 1 \in 1 .. Len(events) /\ i + 1 # 1
    BY <2>3
  <2>6. Told'
    BY <1>1, <2>1, <2>2
  <2>7. InsertFresh'
    <3>1. e.type = "READER_INSERT" => NotYet(e.reader) /\ e.reader \notin Concerned
      BY <2>3, <2>5 DEF ComingFresh
    <3> QED BY <2>1, <2>2, <2>4, <3>1 DEF InsertFresh, NotYet
  <2>8. ASSUME NEW i \in 1 .. Len(t), t[i].type = "READER_INSERT"
        PROVE  /\ NotYet(t[i].reader) /\ t[i].reader \notin Concerned
               /\ e.type = "READER_INSERT" => e.reader # t[i].reader
    <3>1. NotYet(t[i].reader) /\ t[i].reader \notin Concerned
      BY <2>3, <2>5, <2>8 DEF ComingFresh
    <3>2. e.type = "READER_INSERT" => e # t[i]
      BY <2>3, <2>5, <2>8 DEF ComingOnce
    <3>3. e.type = t[i].type /\ e.reader = t[i].reader => e = t[i]
      BY <2>3 DEF Event
    <3> QED BY <2>8, <3>1, <3>2, <3>3
  <2>9. ComingFresh'
    BY <2>1, <2>2, <2>4, <2>8 DEF ComingFresh, NotYet
  <2>10. ComingOnce'
    <3>1. ASSUME NEW i \in 1 .. Len(t), NEW j \in 1 .. Len(t),
                 t[i].type = "READER_INSERT", t[i] = t[j]
          PROVE  i = j
      <4>1. i + 1 = j + 1
        BY <2>3, <2>5, <3>1 DEF ComingOnce
      <4> QED BY <4>1
    <3> QED BY <3>1, <2>4 DEF ComingOnce
  <2>11. ForwardTold'
    <3>1. e.reader \in Readers
      BY <2>3 DEF Event
    <3> QED BY <2>1, <2>4, <3>1 DEF ForwardTold, NotYet, Told, Named
  <2>12. PendingUnderWay'
    BY <2>1, <2>2, <2>4 DEF PendingUnderWay, RefusalEnds
  <2> QED BY <2>6, <2>7, <2>9, <2>10, <2>11, <2>12
<1>10. CASE DropUnlessPending \/ WaitForDecision \/ Decided
  <2>1. UNCHANGED pipe /\ UNCHANGED <<events, id, pending, exited, allocated>>
    BY <1>10 DEF DropUnlessPending, WaitForDecision, Decided, pipe, socket, wire, host, library
  <2>2. Concerned' = Concerned /\ Queued' = Queued /\ Heard' = Heard
    BY <2>1, <1>b, TurnStep, MessagesStep
  <2>3. /\ pc \in {"check", "decision"} /\ pc' \in {"idle", "decision", "forward"}
        /\ event' = event /\ (pc' = "forward" => id[event.reader] # Undefined)
    BY <1>10 DEF DropUnlessPending, WaitForDecision, Decided, Delete, Stays
  <2>4. event.reader \in Readers
    BY <2>3, <1>a DEF Event
  <2>5. Told'
    BY <1>1, <2>1, <2>2
  <2>6. InsertFresh' /\ ComingFresh' /\ ComingOnce'
    BY <2>1, <2>2, <2>3 DEF InsertFresh, ComingFresh, ComingOnce, NotYet
  <2>7. ForwardTold'
    BY <2>1, <2>3, <2>4 DEF ForwardTold, NotYet, Told, Named
  <2>8. PendingUnderWay'
    BY <2>1, <2>2, <2>3 DEF PendingUnderWay, RefusalEnds
  <2> QED BY <2>5, <2>6, <2>7, <2>8
<1>11. CASE ReaderInsert
  <2>1. UNCHANGED pipe /\ UNCHANGED <<events, event, id, exited, allocated>>
    BY <1>11 DEF ReaderInsert, pipe, socket, wire, host, library
  <2>2. Concerned' = Concerned /\ Queued' = Queued /\ Heard' = Heard
    BY <2>1, <1>b, TurnStep, MessagesStep
  <2>3. pc = "insert" /\ pc' = "announce"
    BY <1>11 DEF ReaderInsert
  <2>4. Told'
    BY <1>1, <2>1, <2>2
  <2>5. InsertFresh' /\ ComingFresh' /\ ComingOnce' /\ ForwardTold' /\ PendingUnderWay'
    BY <2>1, <2>2, <2>3
       DEF InsertFresh, ComingFresh, ComingOnce, NotYet, ForwardTold, PendingUnderWay
  <2> QED BY <2>4, <2>5
<1>12. CASE Announce
  <2> DEFINE z == <<Announcement>>
  <2>1. /\ QueueWords(z) /\ Announcement \in Outgoing /\ Announcement.type = "ReaderAdd"
        /\ Announcement.about = event.reader
    BY <1>12, AnnounceQueues
  <2>2. Kind[Announcement] = event.reader /\ event.reader \in Readers
    BY <2>1, MarksOfMessages
  <2>3. /\ pc = "announce" /\ pc' = "idle" /\ ~exited
        /\ UNCHANGED <<events, event, pending, exited, id, allocated>>
    BY <1>12 DEF Announce, library, host
  <2>4. Marks(Kind, z) = {event.reader} /\ Ordered(Kind, z, Then) /\ Range(z) = {Announcement}
    <3>1. Marks(Kind, z) = Mark(Kind[Announcement]) /\ Ordered(Kind, z, Then)
      BY OneMark
    <3>2. Range(z) = {Announcement}
      <4> DEFINE A == Announcement
      <4> HIDE DEF A
      <4>1. Range(<<A>>) = {A}
        BY DEF Range
      <4> QED BY <4>1 DEF A
    <3> HIDE DEF z
    <3> QED BY <3>1, <3>2, <2>2, NumbersDiffer DEF Mark
  <2>5. Concerned = {}
    <3>1. \A x \in Concerned : x \in {Removal, Start, event.reader} /\ x \notin Readers
      BY <2>3, <1>b DEF OneAnnounced, OwnTurn
    <3>2. Removal \notin Concerned /\ Start \notin Concerned
      BY <2>3, <1>b DEF RemovalsLast, NotStarted
    <3> QED BY <3>1, <3>2, <2>2
  <2> HIDE DEF z
  <2>6. Concerned' = {event.reader}
    <3>1. Before(Concerned, Marks(Kind, z), Then)
      BY <2>5 DEF Before
    <3>2. Concerned' = Concerned \cup Marks(Kind, z)
      BY <2>1, <2>4, <3>1, <1>b, TurnStep
    <3> QED BY <3>2, <2>4, <2>5
  <2>7. Queued' = Queued \cup {Announcement} /\ Heard' = Heard
    <3>1. Queued' = Queued \cup Range(z) /\ Heard' = Heard
      BY <2>1, MessagesStep
    <3> QED BY <3>1, <2>4
  <2>8. NotYet(event.reader)
    BY <2>3 DEF InsertFresh
  <2>9. Told'
    <3>1. Named' /\ GrantsTrue'
      BY <2>3, <2>7 DEF Told, Named, GrantsTrue, Grants
    <3>2. AddsFresh' /\ CardsTold'
      BY <2>1, <2>3, <2>7, <2>8 DEF Told, AddsFresh, CardsTold, NotYet
    <3> QED BY <3>1, <3>2 DEF Told
  <2>10. InsertFresh' /\ ComingOnce' /\ ForwardTold'
    BY <2>3 DEF InsertFresh, ComingOnce, ForwardTold
  <2>11. ComingFresh'
    BY <2>3, <2>6 DEF ComingFresh, NotYet
  <2>12. PendingUnderWay'
    <3>1. pending' = event.reader
      BY <2>3, <1>b DEF OwnTurn
    <3> QED BY <3>1, <2>6 DEF PendingUnderWay
  <2> QED BY <2>9, <2>10, <2>11, <2>12
<1>13. CASE Forward
  <2> DEFINE z == <<CardMessage>>
             c == CardMessage
  <2>1. /\ QueueWords(z) /\ c \in Outgoing /\ c.type \in {"ATR", "CardRemove"}
        /\ c.about = event.reader
    BY <1>13, ForwardQueues
  <2>2. /\ pc = "forward" /\ pc' = "idle" /\ ~exited
        /\ UNCHANGED <<events, event, pending, exited, id, allocated>>
    BY <1>13 DEF Forward, library, host
  <2>3. Marks(Kind, z) = Mark(Kind[c]) /\ Ordered(Kind, z, Then) /\ Range(z) = {c}
    <3>1. Range(<<c>>) = {c}
      <4> HIDE DEF c
      <4> QED BY DEF Range
    <3> QED BY <3>1, OneMark
  <2> HIDE DEF z, c
  <2>4. Mark(Kind[c]) \subseteq {Removal}
    BY <2>1, MarksOfMessages DEF Mark
  <2>5. Concerned' = Concerned \cup Mark(Kind[c])
    <3>1. Concerned \subseteq Nat
      BY <1>a, <1>b, NumbersOnly
    <3>2. Before(Concerned, Marks(Kind, z), Then)
      BY <2>3, <2>4, <3>1, NumbersOnly
    <3> QED BY <2>1, <2>3, <3>2, <1>b, TurnStep
  <2>6. Queued' = Queued \cup {c} /\ Heard' = Heard
    <3>1. Queued' = Queued \cup Range(z) /\ Heard' = Heard
      BY <2>1, MessagesStep
    <3> QED BY <3>1, <2>3
  <2>7. ~NotYet(event.reader)
    BY <2>2 DEF ForwardTold
  <2>8. Told'
    <3>1. Named' /\ GrantsTrue'
      BY <2>2, <2>6 DEF Told, Named, GrantsTrue, Grants
    <3>2. AddsFresh' /\ CardsTold'
      BY <2>1, <2>2, <2>6, <2>7 DEF Told, AddsFresh, CardsTold, NotYet
    <3> QED BY <3>1, <3>2 DEF Told
  <2>9. InsertFresh' /\ ComingOnce' /\ ForwardTold'
    BY <2>2 DEF InsertFresh, ComingOnce, ForwardTold
  <2>10. ComingFresh'
    <3>1. \A i \in 1 .. Len(events) : events[i] \in Event
      BY <1>a
    <3>2. \A i \in 1 .. Len(events) : events[i].reader # Removal
      BY <3>1, NumbersDiffer DEF Event
    <3> QED BY <2>2, <2>4, <2>5, <3>2 DEF ComingFresh, NotYet
  <2>11. PendingUnderWay'
    BY <2>2, <2>5 DEF PendingUnderWay, RefusalEnds
  <2> QED BY <2>8, <2>9, <2>10, <2>11
<1>14. CASE OnSuccess \/ OnRefusal
  <2>1. Handle
    BY <1>14, ReadHandles
  <2>2. /\ Concerned = Held \cup Concerned' /\ Before(Held, Concerned', Then)
        /\ Heard' \subseteq Heard /\ UNCHANGED <<socket_to_send, toHost>>
    BY <2>1, <1>14, <1>b, TurnStep, MessagesStep DEF OnSuccess, OnRefusal, ReadMessage
  <2>3. /\ mhHeader.type = "Error" /\ state = "MESSAGE" /\ ~exited
        /\ UNCHANGED <<events, event, pc, exited, allocated>>
        /\ pending' \in {None, pending}
    BY <1>14 DEF OnSuccess, OnRefusal, ReadMessage, Readable, library, thread, host
  <2>4. Queued' = Queued
    BY <2>2 DEF Queued
  <2>5. mhHeader.re \in {"ReaderAdd", "CardRemove"}
    BY <2>3, <1>a, ClientAssumption DEF Incoming, Quietly
  <2>6. /\ Held = {Re[mhHeader]}
        /\ mhHeader.re = "ReaderAdd" => Held = {mhHeader.about} /\ mhHeader.about \in Readers
        /\ mhHeader.re = "CardRemove" => Held = {Removal}
    BY <2>3, <2>5, <1>a, MarksOfMessages, NumbersDiffer DEF Held, Mark
  <2>7. InsertFresh' /\ ComingFresh' /\ ComingOnce' /\ ForwardTold'
    BY <1>2, <2>2, <2>3
  <2>8. CASE OnRefusal
    <3>1. UNCHANGED id /\ mhHeader.code # "SUCCESS"
          /\ pending' = IF mhHeader.code = "CANNOT_ADD_MORE_READERS" THEN None ELSE pending
      BY <2>8 DEF OnRefusal
    <3>2. Told'
      BY <1>1, <2>2, <2>3, <2>4, <3>1
    <3>3. RefusalEnds => mhHeader.code = "CANNOT_ADD_MORE_READERS"
      BY <3>1, <1>a, <2>5 DEF Incoming, RefusalEnds
    <3>4. PendingUnderWay'
      BY <3>1, <3>3 DEF PendingUnderWay, RefusalEnds
    <3> QED BY <2>7, <3>2, <3>4
  <2>9. CASE OnSuccess
    <3>1. mhHeader.code = "SUCCESS" /\ pending' = None
      BY <2>9 DEF OnSuccess
    <3>2. pending # None => pending \in Readers /\ mhHeader.id = allocated[pending]
      <4> SUFFICES ASSUME pending # None
                   PROVE  pending \in Readers /\ mhHeader.id = allocated[pending]
        OBVIOUS
      <4>1. pending \in Readers
        BY <1>a, ConstantFacts DEF Readers, None
      <4>2. mhHeader.re = "ReaderAdd"
        <5>1. SUFFICES ASSUME mhHeader.re = "CardRemove" PROVE FALSE
          BY <2>5
        <5>2. "CardRemove" \in HostAnswers
          BY <5>1, <1>a DEF Incoming
        <5>3. Removal \in Concerned
          BY <5>1, <2>2, <2>6
        <5>4. pc # "announce"
          BY <5>3, <2>3, <1>b DEF RemovalsLast
        <5>5. pending \in Concerned
          BY <5>2, <5>4, <2>3 DEF PendingUnderWay
        <5>6. pending \in Concerned'
          BY <5>1, <5>5, <4>1, <2>2, <2>6, NumbersDiffer
        <5>7. pending = Removal
          BY <5>1, <5>6, <2>2, <2>6 DEF Before, Then
        <5> QED BY <5>7, <4>1, NumbersDiffer
      <4>3. mhHeader.about = pending
        BY <4>2, <2>2, <2>6, <1>b, NumbersDiffer DEF OneAnnounced
      <4> QED BY <4>1, <4>2, <4>3, <3>1, <1>c DEF Told, GrantsTrue, Grants
    <3>3. id' = IF pending = None THEN id ELSE [id EXCEPT ![pending] = mhHeader.id]
      BY <2>9 DEF OnSuccess
    <3>4. Named'
      BY <3>2, <3>3, <2>3, <1>a DEF Told, Named
    <3>5. Told'
      BY <3>4, <2>2, <2>3, <2>4 DEF Told, GrantsTrue, Grants, AddsFresh, CardsTold, NotYet
    <3>6. PendingUnderWay'
      BY <3>1 DEF PendingUnderWay, None
    <3> QED BY <2>7, <3>5, <3>6
  <2> QED BY <1>14, <2>8, <2>9
<1>15. CASE OnInit
  <2>1. Handle
    BY <1>15, ReadHandles
  <2>2. /\ Concerned = Held \cup Concerned' /\ Heard' \subseteq Heard
        /\ \A m \in Queued' : m \in Queued \/ m.type \notin AboutReader
    BY <2>1, <1>b, TurnStep, MessagesStep
  <2>3. /\ pc' = "idle" /\ UNCHANGED <<events, event, pending, id, exited, allocated>>
        /\ mhHeader.type = "Init" /\ state = "MESSAGE" /\ ~exited
    BY <1>15 DEF OnInit, ReadMessage, Readable, library, host
  <2>4. Held = {Start}
    BY <2>3, <1>a, MarksOfMessages, NumbersDiffer DEF Held, Mark
  <2>5. pc = "off"
    BY <2>2, <2>3, <2>4, <1>b DEF NotStarted
  <2>6. Told'
    BY <1>1, <2>2, <2>3
  <2>7. InsertFresh' /\ ComingFresh' /\ ComingOnce' /\ ForwardTold'
    BY <2>2, <2>3 DEF InsertFresh, ComingFresh, ComingOnce, ForwardTold, NotYet
  <2>8. PendingUnderWay'
    BY <2>2, <2>3, <2>4, <2>5, <1>a, NumbersDiffer DEF PendingUnderWay, RefusalEnds
  <2> QED BY <2>6, <2>7, <2>8
<1>16. CASE HostReaderAdd
  <2> DEFINE h == Head(toHost)
             r == h.about
  <2>1. HostTakes /\ UNCHANGED inside /\ h.type = "ReaderAdd"
    BY <1>16, HostStep DEF HostHandles, HostReaderAdd, Receive
  <2>2. /\ Concerned' \subseteq Concerned /\ Concerned \subseteq Concerned' \cup {Removal}
        /\ Queued' \subseteq Queued /\ h \in Queued
    BY <2>1, <1>b, TurnStep, MessagesStep
  <2>3. /\ r \in Readers /\ r \in Concerned
        /\ \A m \in Queued' : m.type = "ReaderAdd" => m.about # r
    BY <2>1, <1>b, TakenOnce
  <2>4. NotYet(r)
    BY <2>1, <2>2 DEF Told, AddsFresh
  <2>5. PendingUnderWay'
    BY <2>1, <2>2, <1>a, NumbersDiffer DEF PendingUnderWay, RefusalEnds, inside
  <2>6. CASE UNCHANGED allocated /\ \E code \in AddErrors : Reply(code, Undefined, h)
    <3>1. PICK code \in AddErrors : Reply(code, Undefined, h)
      BY <2>6
    <3> DEFINE m == Message("Error", Undefined, code, r, 0, h.type)
    <3>2. h \in Outgoing
      BY <2>2, <1>c
    <3>3. m \in Incoming /\ m.code = code
      BY <3>1, <3>2, <2>1, ReplyType, ClientAssumption DEF Codes, Message
    <3>4. Sends(m)
      BY <3>1, <1>16 DEF Reply, Sends, HostReaderAdd, Receive, socket
    <3> HIDE DEF m
    <3>5. Heard' \subseteq Heard \cup {m} /\ ~Grants(m)
      BY <3>1, <3>3, <3>4, MessagesStep, ClientAssumption DEF Grants
    <3> QED BY <1>3, <2>1, <2>2, <2>6, <3>5 DEF inside
  <2>7. ASSUME NEW i \in Ids, allocated' = [allocated EXCEPT ![r] = i], Reply("SUCCESS", i, h)
        PROVE  Allotted'
    <3> DEFINE m == Message("Error", i, "SUCCESS", r, 0, h.type)
    <3>1. h \in Outgoing
      BY <2>2, <1>c
    <3>2. m \in Incoming /\ m.about = r /\ m.id = i
      BY <3>1, <2>1, ReplyType DEF Codes, Message
    <3>3. Sends(m)
      BY <2>7, <1>16 DEF Reply, Sends, HostReaderAdd, Receive, socket
    <3> HIDE DEF m
    <3>4. Heard' \subseteq Heard \cup {m}
      BY <3>2, <3>3, MessagesStep
    <3> HIDE DEF r, h
    <3>5. allocated'[r] = i /\ \A q \in Readers : q # r => allocated'[q] = allocated[q]
      BY <2>3, <2>7, <1>a
    <3>6. allocated[r] = Undefined
      BY <2>4 DEF NotYet
    <3>7. id' = id /\ pc' = pc /\ event' = event /\ events' = events
      BY <2>1 DEF inside
    <3>8. Named'
      BY <3>5, <3>6, <3>7, <1>a, <2>3 DEF Told, Named
    <3>9. GrantsTrue'
      <4>1. ASSUME NEW g \in Heard, Grants(g) PROVE g.id = allocated'[g.about]
        <5>1. g \in Incoming /\ g.id = allocated[g.about]
          BY <4>1, <1>c DEF Told, GrantsTrue
        <5>2. g.about \in Readers /\ g.id \in Ids
          BY <4>1, <5>1 DEF Incoming, Grants, AboutReader
        <5>3. g.about # r
          BY <5>1, <5>2, <3>6, <1>a
        <5> QED BY <5>1, <5>2, <5>3, <3>5
      <4> QED BY <4>1, <3>2, <3>4, <3>5 DEF GrantsTrue, Grants
    <3>10. AddsFresh'
      <4>1. \A g \in Queued' : g.type = "ReaderAdd" => g.about \in Readers
        BY <2>2, <1>c DEF Outgoing, AboutReader
      <4> QED BY <4>1, <2>2, <2>3, <3>5 DEF Told, AddsFresh, NotYet
    <3>11. CardsTold'
      <4>1. ASSUME NEW g \in Queued', g.type \in {"ATR", "CardRemove"}
            PROVE  allocated'[g.about] # Undefined
        <5>1. g.about \in Readers /\ allocated[g.about] # Undefined
          BY <4>1, <2>2, <1>c DEF Told, CardsTold, NotYet, Outgoing, AboutReader
        <5> QED BY <5>1, <3>5, <3>6
      <4> QED BY <4>1 DEF CardsTold, NotYet
    <3>12. pc \in {"insert", "announce"} => event.reader # r /\ event.reader \in Readers
      <4>1. pc = "insert" => event.reader # r
        BY <2>3 DEF InsertFresh
      <4>2. pc = "announce" => event.reader # r
        BY <2>3, <1>b DEF OwnTurn
      <4>3. pc \in {"insert", "announce"} => event.reader \in Readers
        BY <1>a DEF Event
      <4> QED BY <4>1, <4>2, <4>3
    <3>13. InsertFresh'
      BY <3>5, <3>7, <3>12, <2>2 DEF InsertFresh, NotYet
    <3>14. ComingFresh'
      <4>1. ASSUME NEW k \in 1 .. Len(events), events[k].type = "READER_INSERT"
            PROVE  events[k].reader # r /\ events[k].reader \in Readers
        <5>1. events[k] \in Event
          BY <1>a
        <5> QED BY <4>1, <5>1, <2>3 DEF ComingFresh, Event
      <4> QED BY <4>1, <3>5, <3>7, <2>2 DEF ComingFresh, NotYet
    <3>15. ComingOnce'
      BY <3>7 DEF ComingOnce
    <3>16. ForwardTold'
      <4>1. pc = "forward" => event.reader \in Readers /\ allocated[event.reader] # Undefined
        BY <1>a DEF Event, ForwardTold, NotYet
      <4> QED BY <4>1, <3>5, <3>6, <3>7 DEF ForwardTold, NotYet
    <3> QED BY <2>5, <3>8, <3>9, <3>10, <3>11, <3>13, <3>14, <3>15, <3>16 DEF Told
  <2>8. FreeSlots \subseteq Ids
    BY DEF FreeSlots
  <2> QED BY <1>16, <2>6, <2>7, <2>8 DEF HostReaderAdd
<1>17. CASE Exit
  <2>1. QueueWords(Farewells) /\ Farewells \in Seq(Parting)
    BY <1>17, ExitQueues
  <2>2. exited' /\ UNCHANGED <<events, event, pc, pending, id, allocated>>
    BY <1>17 DEF Exit, library, thread, host
  <2>3. \A i \in 1 .. Len(Farewells) : Farewells[i] \in Parting
    BY <2>1
  <2>4. \A i \in 1 .. Len(Farewells) : Kind[Farewells[i]] \in {0, Removal}
    <3>1. \A m \in Parting : m \in Outgoing /\ m.type \in {"CardRemove", "ReaderRemove"}
      BY DEF Parting
    <3> QED BY <2>3, <3>1, MarksOfMessages
  <2>5. Marks(Kind, Farewells) \subseteq {Removal}
    BY <2>4 DEF Marks
  <2>6. Concerned' = Concerned \cup Marks(Kind, Farewells)
    <3>1. Ordered(Kind, Farewells, Then)
      BY <2>4, ConstantFacts DEF Ordered, Then, Removal
    <3>2. Concerned \subseteq Nat
      BY <1>a, <1>b, NumbersOnly
    <3>3. Before(Concerned, Marks(Kind, Farewells), Then)
      BY <2>5, <3>2, NumbersOnly
    <3> QED BY <2>1, <3>1, <3>3, <1>b, TurnStep
  <2>7. Queued' = Queued \cup Range(Farewells) /\ Heard' = Heard
    BY <2>1, MessagesStep
  <2>8. Range(Farewells) \subseteq Parting
    BY <2>1, RangeFacts
  <2>9. Told'
    <3>1. \A m \in Parting : m.type # "ReaderAdd" /\ ~NotYet(m.about)
      BY DEF Parting, Told, Named, NotYet
    <3>2. Named' /\ GrantsTrue'
      BY <2>2, <2>7 DEF Told, Named, GrantsTrue, Grants
    <3>3. AddsFresh' /\ CardsTold'
      BY <2>2, <2>7, <2>8, <3>1 DEF Told, AddsFresh, CardsTold, NotYet
    <3> QED BY <3>2, <3>3 DEF Told
  <2>10. InsertFresh'
    <3>1. pc = "insert" => event.reader # Removal
      BY <1>a, NumbersDiffer DEF Event
    <3> QED BY <3>1, <2>2, <2>5, <2>6 DEF InsertFresh, NotYet
  <2>11. ComingFresh'
    <3>1. \A i \in 1 .. Len(events) : events[i] \in Event
      BY <1>a
    <3>2. \A i \in 1 .. Len(events) : events[i].reader # Removal
      BY <3>1, NumbersDiffer DEF Event
    <3> QED BY <3>2, <2>2, <2>5, <2>6 DEF ComingFresh, NotYet
  <2>12. ComingOnce' /\ ForwardTold' /\ PendingUnderWay'
    BY <2>2 DEF ComingOnce, ForwardTold, NotYet, PendingUnderWay
  <2> QED BY <2>9, <2>10, <2>11, <2>12
<1>18. ASSUME NEW r \in Readers, Move(r), UNCHANGED pipe,
              UNCHANGED <<id, thread, pending, exited, allocated>>
       PROVE  Allotted'
  <2> DEFINE e == CardEvent(r, ~present[r])
  <2>1. Concerned' = Concerned /\ Queued' = Queued /\ Heard' = Heard
    BY <1>18, <1>b, TurnStep, MessagesStep
  <2>2. e \in Event /\ e.type # "READER_INSERT"
    BY DEF CardEvent, LibraryEvent, Event
  <2>3. events' = Append(events, e) /\ UNCHANGED <<pc, event, pending, exited, id, allocated>>
    BY <1>18 DEF Move, thread
  <2> HIDE DEF e
  <2>4. /\ Len(events') = Len(events) + 1 /\ events'[Len(events) + 1] = e
        /\ \A i \in 1 .. Len(events) : events'[i] = events[i]
        /\ Len(events) \in Nat
    BY <2>2, <2>3, <1>a
  <2>5. \A i \in 1 .. Len(events') : events'[i].type = "READER_INSERT" => i \in 1 .. Len(events)
    BY <2>2, <2>4
  <2>6. Told'
    BY <1>1, <2>1, <2>3
  <2>7. InsertFresh' /\ ForwardTold' /\ PendingUnderWay'
    BY <2>1, <2>3 DEF InsertFresh, ForwardTold, NotYet, PendingUnderWay, RefusalEnds
  <2>8. ComingFresh'
    BY <2>1, <2>3, <2>4, <2>5 DEF ComingFresh, NotYet
  <2>9. ComingOnce'
    BY <2>4, <2>5 DEF ComingOnce
  <2> QED BY <2>6, <2>7, <2>8, <2>9
<1> HIDE DEF Allotted
<1> QED
  BY <1>4, <1>5, <1>6, <1>7, <1>8, <1>9, <1>10, <1>11, <1>12, <1>13, <1>14, <1>15, <1>16,
     <1>17, <1>18, InsideSteps, ConstantFacts
     DEF Next, EventThread, SocketRead

-----------------------------------------------------------------------------
(* The last word that the elements of a sequence say, where F gives each   *)
(* element its word or "none"; w0 when none of them says any.              *)
IsLastWord(F, s, w0, w) ==
    \/ \E i \in 1 .. Len(s) : /\ F[s[i]] # "none" /\ w = F[s[i]]
                              /\ \A j \in 1 .. Len(s) : i < j => F[s[j]] = "none"
    \/ w = w0 /\ \A i \in 1 .. Len(s) : F[s[i]] = "none"
LastWord(F, s, w0) == CHOOSE w : IsLastWord(F, s, w0, w)

LEMMA LastWordIs ==
    ASSUME NEW S, NEW F, NEW s \in Seq(S), NEW w0
    PROVE  \A w : IsLastWord(F, s, w0, w) <=> w = LastWord(F, s, w0)
<1> DEFINE says == {i \in 1 .. Len(s) : F[s[i]] # "none"}
           behind == {Len(s) - i : i \in says}
<1>1. Len(s) \in Nat
  OBVIOUS
<1>2. \E w : IsLastWord(F, s, w0, w)
  <2>1. CASE says = {}
    BY <2>1 DEF IsLastWord
  <2>2. CASE says # {}
    <3>1. behind \in SUBSET Nat /\ behind # {}
      BY <1>1, <2>2
    <3> HIDE DEF behind
    <3>2. PICK k \in behind : \A l \in behind : k <= l
      BY <3>1, Smallest
    <3>3. PICK i \in says : k = Len(s) - i
      BY <3>2 DEF behind
    <3>4. \A j \in 1 .. Len(s) : i < j => F[s[j]] = "none"
      <4>1. ASSUME NEW j \in says PROVE j <= i
        <5>1. Len(s) - i <= Len(s) - j
          BY <3>2, <3>3, <4>1 DEF behind
        <5> QED BY <5>1, <1>1, <3>3, <4>1
      <4> QED BY <4>1, <3>3
    <3>5. IsLastWord(F, s, w0, F[s[i]])
      BY <3>3, <3>4 DEF IsLastWord
    <3> QED BY <3>5
  <2> QED BY <2>1, <2>2
<1>3. ASSUME NEW v, NEW w, IsLastWord(F, s, w0, v), IsLastWord(F, s, w0, w)
      PROVE  v = w
  <2>1. \A i, j \in 1 .. Len(s) : i < j \/ j < i \/ i = j
    BY <1>1
  <2> QED BY <1>3, <2>1 DEF IsLastWord
<1>4. IsLastWord(F, s, w0, LastWord(F, s, w0))
  BY <1>2 DEF LastWord
<1> QED BY <1>3, <1>4

LEMMA LastWordEmpty ==
    ASSUME NEW F, NEW w0
    PROVE  LastWord(F, <<>>, w0) = w0
<1>1. <<>> \in Seq({}) /\ Len(<<>>) = 0
  OBVIOUS
<1>2. IsLastWord(F, <<>>, w0, w0)
  BY <1>1 DEF IsLastWord
<1> QED BY <1>1, <1>2, LastWordIs

(* What is said last overrides what was said before ... *)
LEMMA LastWordAppend ==
    ASSUME NEW S, NEW F, NEW s \in Seq(S), NEW x \in S, NEW w0
    PROVE  LastWord(F, Append(s, x), w0) =
              IF F[x] # "none" THEN F[x] ELSE LastWord(F, s, w0)
<1> DEFINE u == Append(s, x)
           n == Len(s)
<1>1. /\ u \in Seq(S) /\ Len(u) = n + 1 /\ n \in Nat /\ u[n + 1] = x
      /\ \A i \in 1 .. n : u[i] = s[i]
  OBVIOUS
<1>2. /\ \A i \in 1 .. Len(u) : i \in 1 .. n \/ i = n + 1
      /\ \A i \in 1 .. n : i \in 1 .. Len(u) /\ i < n + 1
      /\ n + 1 \in 1 .. Len(u) /\ ~ \E i \in 1 .. Len(u) : n + 1 < i
  BY <1>1
<1> HIDE DEF u, n
<1>3. CASE F[x] # "none"
  <2>1. IsLastWord(F, u, w0, F[x])
    BY <1>1, <1>2, <1>3 DEF IsLastWord
  <2>2. LastWord(F, u, w0) = F[x]
    BY <2>1, <1>1, LastWordIs
  <2> QED BY <2>2, <1>3 DEF u
<1>4. CASE F[x] = "none"
  <2> DEFINE w == LastWord(F, s, w0)
  <2>1. IsLastWord(F, s, w0, w)
    BY LastWordIs
  <2> HIDE DEF w
  <2>2. IsLastWord(F, u, w0, w)
    BY <2>1, <1>1, <1>2, <1>4 DEF IsLastWord, n
  <2>3. LastWord(F, u, w0) = w
    BY <2>2, <1>1, LastWordIs
  <2> QED BY <2>3, <1>4 DEF u, w
<1> QED BY <1>3, <1>4

(* ... and what was said first only holds until something else is said *)
LEMMA LastWordTail ==
    ASSUME NEW S, NEW F, NEW s \in Seq(S), s # <<>>, NEW w0
    PROVE  LastWord(F, s, w0) =
              LastWord(F, Tail(s), IF F[Head(s)] # "none" THEN F[Head(s)] ELSE w0)
<1> DEFINE t == Tail(s)
           h == Head(s)
           w1 == IF F[h] # "none" THEN F[h] ELSE w0
           w == LastWord(F, t, w1)
<1>1. /\ t \in Seq(S) /\ Len(s) = Len(t) + 1 /\ Len(t) \in Nat /\ s[1] = h
      /\ \A i \in 1 .. Len(t) : t[i] = s[i + 1]
  OBVIOUS
<1>2. /\ \A i \in 1 .. Len(s) : i = 1 \/ (i - 1 \in 1 .. Len(t) /\ s[i] = t[i - 1] /\ 1 < i)
      /\ \A i \in 1 .. Len(t) : i + 1 \in 1 .. Len(s)
      /\ 1 \in 1 .. Len(s)
  <2>1. ASSUME NEW i \in 1 .. Len(s), i # 1
        PROVE  i - 1 \in 1 .. Len(t) /\ s[i] = t[i - 1] /\ 1 < i
    <3>1. i - 1 \in 1 .. Len(t) /\ (i - 1) + 1 = i /\ 1 < i
      BY <1>1, <2>1
    <3> QED BY <1>1, <3>1
  <2> QED BY <1>1, <2>1
<1> HIDE DEF t, h
<1>3. IsLastWord(F, t, w1, w)
  BY <1>1, LastWordIs
<1> HIDE DEF w
<1>4. IsLastWord(F, s, w0, w)
  <2>1. ASSUME NEW i \in 1 .. Len(t), F[t[i]] # "none", w = F[t[i]],
               \A j \in 1 .. Len(t) : i < j => F[t[j]] = "none"
        PROVE  IsLastWord(F, s, w0, w)
    <3>1. i + 1 \in 1 .. Len(s) /\ s[i + 1] = t[i]
      BY <1>1, <1>2
    <3>2. ASSUME NEW j \in 1 .. Len(s), i + 1 < j PROVE F[s[j]] = "none"
      <4>1. j - 1 \in 1 .. Len(t) /\ s[j] = t[j - 1] /\ i < j - 1
        BY <1>2, <3>2
      <4> QED BY <4>1, <2>1
    <3> QED BY <2>1, <3>1, <3>2 DEF IsLastWord
  <2>2. ASSUME w = w1, \A i \in 1 .. Len(t) : F[t[i]] = "none"
        PROVE  IsLastWord(F, s, w0, w)
    <3>1. \A j \in 1 .. Len(s) : j = 1 \/ F[s[j]] = "none"
      BY <1>2, <2>2
    <3>2. CASE F[h] # "none"
      BY <1>1, <1>2, <2>2, <3>1, <3>2 DEF IsLastWord
    <3>3. CASE F[h] = "none"
      BY <1>1, <1>2, <2>2, <3>1, <3>3 DEF IsLastWord
    <3> QED BY <3>2, <3>3
  <2> QED BY <1>3, <2>1, <2>2 DEF IsLastWord
<1> QED BY <1>4, LastWordIs DEF w, t, h

-----------------------------------------------------------------------------
(* The order of the client's first messages: its removal of an old reader  *)
(* of the host comes before any announcement.                              *)
Way == [m \in Msg |-> IF m.type = "ReaderAdd" THEN 1
                      ELSE IF m.type = "ReaderRemove" THEN 2 ELSE 0]
NoRemoveAfterAdd == {p \in Nat \X Nat : ~(p[1] = 1 /\ p[2] = 2)}
Ways == Marks(Way, toHost) \cup Marks(Way, socket_to_send)
RemoveThenAdd ==
    /\ Ordered(Way, toHost, NoRemoveAfterAdd) /\ Ordered(Way, socket_to_send, NoRemoveAfterAdd)
    /\ Before(Marks(Way, toHost), Marks(Way, socket_to_send), NoRemoveAfterAdd)

LEMMA WayOf ==
    \A m \in Outgoing : /\ Way[m] \in {0, 1, 2}
                        /\ m.type = "ReaderAdd" <=> Way[m] = 1
                        /\ m.type = "ReaderRemove" <=> Way[m] = 2
BY DEF Outgoing, Way

LEMMA WayStep ==
    ASSUME TypeOK, RemoveThenAdd
    PROVE  /\ Ways \subseteq {1, 2}
           /\ UNCHANGED <<toHost, socket_to_send>> \/ SendOne => RemoveThenAdd' /\ Ways' = Ways
           /\ \A m \in Outgoing :
                 /\ socket_to_send' = Append(socket_to_send, m) /\ UNCHANGED toHost
                 /\ Way[m] = 2 => 1 \notin Ways
                 => RemoveThenAdd' /\ Ways' = Ways \cup Mark(Way[m])
           /\ HostTakes => /\ RemoveThenAdd' /\ Ways = Mark(Way[Head(toHost)]) \cup Ways'
                           /\ Way[Head(toHost)] = 1 => 2 \notin Ways'
<1> DEFINE N == NoRemoveAfterAdd
           c == Marks(Way, toHost)
           d == Marks(Way, socket_to_send)
           oc == Ordered(Way, toHost, N)
           od == Ordered(Way, socket_to_send, N)
<1>1. toHost \in Seq(Outgoing) /\ socket_to_send \in Seq(Outgoing)
  BY DEF TypeOK
<1>2. c \subseteq {1, 2} /\ d \subseteq {1, 2}
  <2>1. /\ \A i \in 1 .. Len(toHost) : toHost[i] \in Outgoing
        /\ \A i \in 1 .. Len(socket_to_send) : socket_to_send[i] \in Outgoing
    BY <1>1
  <2> QED BY <2>1, WayOf DEF Marks
<1>3. \A X, Y, Z : /\ Before(X \cup Y, Z, N) <=> Before(X, Z, N) /\ Before(Y, Z, N)
                   /\ Before(Z, X \cup Y, N) <=> Before(Z, X, N) /\ Before(Z, Y, N)
  BY DEF Before
<1>4. RemoveThenAdd <=> oc /\ od /\ Before(c, d, N)
  BY DEF RemoveThenAdd
<1>5. RemoveThenAdd' <=> oc' /\ od' /\ Before(c', d', N)
  BY DEF RemoveThenAdd, NoRemoveAfterAdd
<1>6. Ways = c \cup d /\ Ways' = c' \cup d'
  BY DEF Ways
<1>7. /\ c' = Marks(Way, toHost') /\ oc' = Ordered(Way, toHost', N)
      /\ d' = Marks(Way, socket_to_send') /\ od' = Ordered(Way, socket_to_send', N)
  BY DEF Marks, Ordered, Way, NoRemoveAfterAdd
<1> HIDE DEF c, d, oc, od
<1>8. /\ toHost' = toHost => c' = c /\ oc' = oc
      /\ socket_to_send' = socket_to_send => d' = d /\ od' = od
  BY <1>7, Zenon DEF c, d, oc, od
<1>9. ASSUME UNCHANGED <<toHost, socket_to_send>> PROVE RemoveThenAdd' /\ Ways' = Ways
  BY <1>4, <1>5, <1>6, <1>8, <1>9
<1>10. ASSUME NEW m \in Outgoing, socket_to_send' = Append(socket_to_send, m), UNCHANGED toHost,
              Way[m] = 2 => 1 \notin Ways
       PROVE  RemoveThenAdd' /\ Ways' = Ways \cup Mark(Way[m])
  <2>1. /\ Marks(Way, Append(socket_to_send, m)) = Marks(Way, socket_to_send) \cup Mark(Way[m])
        /\ Ordered(Way, Append(socket_to_send, m), N) <=>
              /\ Ordered(Way, socket_to_send, N)
              /\ Before(Marks(Way, socket_to_send), Mark(Way[m]), N)
    BY <1>1, AppendMarks
  <2> DEFINE M == Mark(Way[m])
  <2>2. d' = d \cup M /\ (od' <=> od /\ Before(d, M, N)) /\ c' = c /\ (oc' <=> oc)
    BY <1>7, <1>8, <1>10, <2>1 DEF d, od
  <2>3. Before(d, M, N) /\ Before(c, M, N)
    <3>1. Way[m] \in {0, 1, 2}
      BY WayOf
    <3>2. M \subseteq {1, 2} /\ (2 \in M => 1 \notin c \cup d)
      BY <3>1, <1>6, <1>10 DEF Mark
    <3> HIDE DEF M
    <3> QED BY <3>2, <1>2 DEF Before, NoRemoveAfterAdd
  <2> HIDE DEF M
  <2>4. RemoveThenAdd'
    BY <2>2, <2>3, <1>3, <1>4, <1>5
  <2> QED BY <2>2, <2>4, <1>6 DEF M
<1>11. ASSUME SendOne PROVE RemoveThenAdd' /\ Ways' = Ways
  <2> DEFINE h == Head(socket_to_send)
             M == Mark(Way[h])
  <2>1. socket_to_send # <<>> /\ toHost' = Append(toHost, h) /\ socket_to_send' = Tail(socket_to_send)
    BY <1>11 DEF SendOne
  <2>2. h \in Outgoing
    BY <1>1, <2>1
  <2> HIDE DEF h
  <2>3. /\ Marks(Way, Append(toHost, h)) = Marks(Way, toHost) \cup Mark(Way[h])
        /\ Ordered(Way, Append(toHost, h), N) <=>
              Ordered(Way, toHost, N) /\ Before(Marks(Way, toHost), Mark(Way[h]), N)
    BY <1>1, <2>2, AppendMarks
  <2>4. c' = c \cup M /\ (oc' <=> oc /\ Before(c, M, N))
    BY <2>1, <2>3, <1>7 DEF c, oc
  <2>5. /\ Marks(Way, socket_to_send) = Mark(Way[Head(socket_to_send)])
                                        \cup Marks(Way, Tail(socket_to_send))
        /\ Ordered(Way, socket_to_send, N) <=>
              /\ Ordered(Way, Tail(socket_to_send), N)
              /\ Before(Mark(Way[Head(socket_to_send)]), Marks(Way, Tail(socket_to_send)), N)
    BY <1>1, <2>1, TailMarks
  <2>6. d = M \cup d' /\ (od <=> od' /\ Before(M, d', N))
    BY <2>1, <2>5, <1>7 DEF d, od, h
  <2> HIDE DEF M
  <2>7. RemoveThenAdd'
    BY <2>4, <2>6, <1>3, <1>4, <1>5
  <2> QED BY <2>4, <2>6, <2>7, <1>6
<1>12. ASSUME HostTakes
       PROVE  /\ RemoveThenAdd' /\ Ways = Mark(Way[Head(toHost)]) \cup Ways'
              /\ Way[Head(toHost)] = 1 => 2 \notin Ways'
  <2> DEFINE h == Head(toHost)
             M == Mark(Way[h])
  <2>1. toHost # <<>> /\ toHost' = Tail(toHost) /\ UNCHANGED socket_to_send
    BY <1>12 DEF HostTakes
  <2>2. /\ Marks(Way, toHost) = Mark(Way[Head(toHost)]) \cup Marks(Way, Tail(toHost))
        /\ Ordered(Way, toHost, N) <=>
              /\ Ordered(Way, Tail(toHost), N)
              /\ Before(Mark(Way[Head(toHost)]), Marks(Way, Tail(toHost)), N)
    BY <1>1, <2>1, TailMarks
  <2>3. c = M \cup c' /\ (oc <=> oc' /\ Before(M, c', N)) /\ d' = d /\ (od' <=> od)
    BY <2>1, <2>2, <1>7, <1>8 DEF c, oc
  <2>4. Way[h] = 1 => M = {1}
    BY DEF Mark
  <2> HIDE DEF M, h
  <2>5. RemoveThenAdd' /\ Before(M, c', N) /\ Before(M, d', N)
    BY <2>3, <1>3, <1>4, <1>5
  <2>6. M = {1} => 2 \notin c' /\ 2 \notin d'
    BY <2>5 DEF Before, NoRemoveAfterAdd
  <2> QED BY <2>3, <2>4, <2>5, <2>6, <1>6 DEF M, h
<1> QED BY <1>2, <1>6, <1>9, <1>10, <1>11, <1>12

(* The readers whose grant the client has not handled yet *)
Granted == [m \in Msg |-> IF Grants(m) THEN m.about ELSE 0]
ChunkGranted == OfHeader(Granted)
Grantees == Mark(IF state = "MESSAGE" THEN Granted[mhHeader] ELSE 0)
            \cup Marks(ChunkGranted, toClient)

LEMMA GrantedOf ==
    \A m \in Incoming : /\ Grants(m) => Granted[m] = m.about /\ Re[m] = m.about
                                        /\ m.about \in Readers /\ m.about # 0
                        /\ ~Grants(m) => Granted[m] = 0
BY MarksOfMessages, NumbersDiffer DEF Incoming, Granted, Grants

LEMMA HeadMarks ==
    ASSUME NEW S, NEW F, NEW s \in Seq(S), s # <<>>
    PROVE  Marks(F, s) = Mark(F[Head(s)]) \cup Marks(F, Tail(s))
<1>1. /\ Marks(F, s) = Mark(F[Head(s)]) \cup Marks(F, Tail(s))
      /\ Ordered(F, s, Then) <=> /\ Ordered(F, Tail(s), Then)
                                 /\ Before(Mark(F[Head(s)]), Marks(F, Tail(s)), Then)
  BY TailMarks
<1> QED BY <1>1

LEMMA GranteesStep ==
    ASSUME TypeOK, Whole
    PROVE  /\ Grantees \subseteq Held \cup Marks(ChunkRe, toClient)
           /\ \A q \in Held : q \in Grantees => q \in Marks(ChunkRe, toClient) \/ Grants(mhHeader)
           /\ UNCHANGED <<state, mhHeader, toClient>> \/ TakeHeader \/ HostAsksNext =>
                 Grantees' = Grantees
           /\ Handle => Grantees = Mark(Granted[mhHeader]) \cup Grantees'
           /\ \A m \in Incoming : Sends(m) => Grantees' = Grantees \cup Mark(Granted[m])
<1> DEFINE a == Mark(IF state = "MESSAGE" THEN Granted[mhHeader] ELSE 0)
           b == Marks(ChunkGranted, toClient)
<1>1. toClient \in Seq(Chunk) /\ mhHeader \in Incoming /\ state \in {"HEADER", "MESSAGE"}
  BY DEF TypeOK
<1>2. Grantees = a \cup b /\ Grantees' = a' \cup b'
  BY DEF Grantees
<1>3. /\ a' = Mark(IF state' = "MESSAGE" THEN Granted[mhHeader'] ELSE 0)
      /\ b' = Marks(ChunkGranted, toClient')
  BY DEF Granted, Grants, ChunkGranted, OfHeader, Marks
<1>4. Mark(0) = {}
  BY DEF Mark
<1>5. b \subseteq Marks(ChunkRe, toClient)
  <2>1. ASSUME NEW i \in 1 .. Len(toClient), ChunkGranted[toClient[i]] # 0
        PROVE  ChunkRe[toClient[i]] = ChunkGranted[toClient[i]]
    <3> DEFINE x == toClient[i]
    <3>0. x \in Chunk
      BY <1>1
    <3> HIDE DEF x
    <3>1. x \in Chunk /\ x.m \in Incoming
      BY <3>0 DEF Chunk
    <3>2. /\ ChunkGranted[x] = IF x.part = "header" THEN Granted[x.m] ELSE 0
          /\ ChunkRe[x] = IF x.part = "header" THEN Re[x.m] ELSE 0
      BY <3>1 DEF ChunkGranted, ChunkRe, OfHeader
    <3> QED BY <2>1, <3>1, <3>2, GrantedOf DEF x
  <2> QED BY <2>1 DEF Marks
<1>6. a \subseteq Held /\ (Grants(mhHeader) \/ a = {})
  BY <1>1, <1>4, GrantedOf DEF Held, Mark
<1> HIDE DEF a, b
<1>7. UNCHANGED <<state, mhHeader, toClient>> => Grantees' = Grantees
  BY <1>2, <1>3 DEF a, b
<1>8. ASSUME TakeHeader PROVE Grantees' = Grantees
  <2> DEFINE h == Head(toClient)
  <2>1. toClient # <<>> /\ toClient' = Tail(toClient) /\ mhHeader' = h.m
        /\ state = "HEADER" /\ state' = "MESSAGE"
    BY <1>8 DEF TakeHeader
  <2>2. h \in Chunk /\ h = toClient[1] /\ h.part = "header"
    BY <2>1, <1>1 DEF Whole
  <2> HIDE DEF h
  <2>3. ChunkGranted[h] = Granted[h.m]
    BY <2>2 DEF ChunkGranted, OfHeader
  <2>4. Marks(ChunkGranted, toClient) = Mark(ChunkGranted[Head(toClient)])
                                        \cup Marks(ChunkGranted, Tail(toClient))
    BY <1>1, <2>1, HeadMarks
  <2>5. a = {} /\ a' = Mark(ChunkGranted[h])
    BY <1>3, <1>4, <2>1, <2>3 DEF a
  <2> QED BY <1>2, <1>3, <2>1, <2>4, <2>5 DEF b, h
<1>9. ASSUME Handle PROVE Grantees = Mark(Granted[mhHeader]) \cup Grantees'
  <2>1. a' = {} /\ a = Mark(Granted[mhHeader])
    BY <1>9, <1>3, <1>4 DEF a, Handle
  <2>2. b' = b
    <3>1. CASE mhHeader.type = "Flush"
      BY <3>1, <1>9, <1>3 DEF Handle, b
    <3>2. CASE mhHeader.type # "Flush"
      <4>1. toClient # <<>> /\ toClient' = Tail(toClient) /\ toClient[1] = Body(mhHeader)
        BY <3>2, <1>9 DEF Handle, Whole
      <4>2. Head(toClient) = Body(mhHeader) /\ Body(mhHeader) \in Chunk
        BY <4>1, <1>1 DEF Body, Chunk
      <4>3. ChunkGranted[Head(toClient)] = 0
        BY <4>2 DEF ChunkGranted, OfHeader, Body
      <4>4. Marks(ChunkGranted, toClient) = Mark(ChunkGranted[Head(toClient)])
                                            \cup Marks(ChunkGranted, Tail(toClient))
        BY <1>1, <4>1, HeadMarks
      <4> QED BY <4>1, <4>3, <4>4, <1>3, <1>4 DEF b
    <3> QED BY <3>1, <3>2
  <2> QED BY <1>2, <2>1, <2>2
<1>10. ASSUME NEW m \in Incoming, Sends(m) PROVE Grantees' = Grantees \cup Mark(Granted[m])
  <2>1. Marks(OfHeader(Granted), toClient \o Chunks(m)) =
           Marks(OfHeader(Granted), toClient) \cup Mark(Granted[m])
    <3> DEFINE Rel == {}
    <3> HIDE DEF Rel
    <3>1. /\ Marks(OfHeader(Granted), toClient \o Chunks(m)) =
                Marks(OfHeader(Granted), toClient) \cup Mark(Granted[m])
          /\ Ordered(OfHeader(Granted), toClient \o Chunks(m), Rel) <=>
                /\ Ordered(OfHeader(Granted), toClient, Rel)
                /\ Before(Marks(OfHeader(Granted), toClient), Mark(Granted[m]), Rel)
      BY <1>1, ChunkMarks
    <3> QED BY <3>1
  <2>2. toClient' = toClient \o Chunks(m) /\ a' = a
    BY <1>10, <1>3 DEF Sends, a
  <2> QED BY <1>2, <1>3, <2>1, <2>2 DEF b, ChunkGranted
<1>11. HostAsksNext => Grantees' = Grantees
  <2>1. \A m \in Incoming : m.re = "none" => Granted[m] = 0
    BY GrantedOf DEF Grants
  <2> QED BY <2>1, <1>4, <1>10 DEF HostAsksNext
<1> QED BY <1>2, <1>5, <1>6, <1>7, <1>8, <1>9, <1>10, <1>11

(* The one place of the host, while the client has not left: it is with    *)
(* the one reader that has an id, which knows it or will hear of it; the   *)
(* client's removal finds none.                                            *)
NobodyYet == \A r \in Readers : NotYet(r)
OnePlace ==
    \A r \in Readers : ~NotYet(r) =>
        /\ allocated[r] = 0 /\ slots[0] # "none"
        /\ \A q \in Readers : ~NotYet(q) => q = r
KnownOrGranted == \A r \in Readers : ~NotYet(r) /\ id[r] = Undefined => r \in Grantees
RemovalFirst ==
    /\ RemoveThenAdd
    /\ 2 \in Ways => NobodyYet
    /\ pc = "off" => NobodyYet /\ 1 \notin Ways
Placed == /\ slots \in [Ids -> {"none", "empty", "card"}]
          /\ ~exited => OnePlace /\ KnownOrGranted /\ RemovalFirst

LEMMA PlacedStart ==
    ASSUME Init PROVE Placed
<1> DEFINE m == send_msg("Init", 0, None, 0)
<1>1. m.type = "Init"
  BY DEF send_msg, Message
<1>2. /\ toHost = <<>> /\ socket_to_send = <<m>>
      /\ allocated = [r \in Readers |-> Undefined]
  BY DEF Init
<1>3. m \in Outgoing
  BY <1>2, TypeInit DEF TypeOK
<1> HIDE DEF m
<1>4. Way[m] = 0
  <2>1. m.type # "ReaderAdd" /\ m.type # "ReaderRemove"
    BY <1>1
  <2> QED BY <1>3, <2>1, WayOf
<1>5. Marks(Way, socket_to_send) = {} /\ Ordered(Way, socket_to_send, NoRemoveAfterAdd)
  <2>1. Marks(Way, <<m>>) = Mark(Way[m]) /\ Ordered(Way, <<m>>, NoRemoveAfterAdd)
    BY OneMark
  <2> QED BY <2>1, <1>2, <1>4 DEF Mark
<1>6. Marks(Way, toHost) = {} /\ Ordered(Way, toHost, NoRemoveAfterAdd)
  BY <1>2 DEF Marks, Ordered
<1>7. RemovalFirst /\ NobodyYet
  BY <1>2, <1>5, <1>6 DEF RemovalFirst, RemoveThenAdd, Ways, Before, NobodyYet, NotYet
<1>8. slots \in [Ids -> {"none", "empty", "card"}]
  BY DEF Init
<1> QED BY <1>7, <1>8 DEF Placed, OnePlace, KnownOrGranted, NobodyYet

LEMMA PlacedStep ==
    ASSUME Quietly, Capacity <= 1, TypeOK, Whole, Orderly, Allotted, Placed, [Next]_vars
    PROVE  Placed'
<1> USE DEF Placed
<1>a. /\ pending \in 0 .. NumReaders /\ mhHeader \in Incoming /\ 0 \in Ids /\ Undefined \notin Ids
      /\ id \in [Readers -> Ids \cup {Undefined}] /\ allocated \in [Readers -> Ids \cup {Undefined}]
      /\ toHost \in Seq(Outgoing) /\ socket_to_send \in Seq(Outgoing)
  BY ConstantFacts DEF TypeOK, Ids, Undefined
<1>b. Mark(0) = {} /\ \A x : x # 0 => Mark(x) = {x}
  BY DEF Mark
<1>c. InTurn /\ OneAnnounced /\ NotStarted
  BY DEF Orderly
<1>1. ASSUME UNCHANGED <<slots, allocated, id, exited>>,
             RemoveThenAdd => RemoveThenAdd' /\ Ways' \subseteq Ways,
             pc' = "off" => pc = "off", Grantees \subseteq Grantees'
      PROVE  Placed'
  BY <1>1 DEF OnePlace, KnownOrGranted, RemovalFirst, NobodyYet, NotYet
<1>2. ASSUME UNCHANGED pipe, UNCHANGED <<slots, allocated, id, exited>>, pc' = "off" => pc = "off"
      PROVE  Placed'
  BY <1>1, <1>2, WayStep, GranteesStep DEF pipe
<1>3. CASE UNCHANGED vars
  BY <1>2, <1>3 DEF vars, pipe, thread, socket, wire, host
<1>4. CASE TakeEvent \/ DropUnlessPending \/ WaitForDecision \/ Decided \/ ReaderInsert
  BY <1>2, <1>4 DEF TakeEvent, DropUnlessPending, WaitForDecision, Decided, ReaderInsert, Delete,
                    pipe, socket, wire, host
<1>5. ASSUME NEW r \in Readers, CardMoves(r) PROVE Placed'
  BY <1>2, <1>5 DEF CardMoves, pipe, thread, socket, wire, host
<1>6. ASSUME NEW i \in Ids, CardCommand(i) PROVE Placed'
  BY <1>2, <1>6 DEF CardCommand, pipe, thread, socket, wire, host
<1>7. CASE SocketSend \/ ReadHeader
  <2>1. (SendOne \/ TakeHeader) /\ UNCHANGED inside
    BY <1>7, InsideSteps
  <2>2. UNCHANGED <<slots, allocated>>
    BY <1>7 DEF SocketSend, ReadHeader, host
  <2> QED BY <1>1, <2>1, <2>2, WayStep, GranteesStep DEF inside, SendOne, TakeHeader
<1>8. CASE OnApdu \/ OnFlush
  <2>1. Handle /\ UNCHANGED inside
    BY <1>8, InsideSteps
  <2>2. UNCHANGED <<slots, allocated>> /\ mhHeader.type \in {"APDU", "Flush"}
    BY <1>8 DEF OnApdu, OnFlush, ReadMessage, host
  <2>3. mhHeader.n # 0 /\ ~Grants(mhHeader)
    BY <1>a, <2>2 DEF Incoming, Grants
  <2>4. PICK m \in Outgoing : m.n = mhHeader.n /\ socket_to_send' = Append(socket_to_send, m)
    BY <2>1, <2>3 DEF Handle
  <2>5. Way[m] = 0
    BY <2>3, <2>4, WayOf DEF Outgoing, Answering
  <2>6. RemoveThenAdd => RemoveThenAdd' /\ Ways' = Ways
    <3>1. toHost' = toHost
      BY <2>1 DEF Handle
    <3>2. RemoveThenAdd => RemoveThenAdd' /\ Ways' = Ways \cup Mark(Way[m])
      BY <2>4, <2>5, <3>1, WayStep
    <3> QED BY <3>2, <2>5, <1>b
  <2>7. Grantees = Grantees'
    BY <2>1, <2>3, <1>a, <1>b, GranteesStep, GrantedOf
  <2> QED BY <1>1, <2>1, <2>2, <2>6, <2>7 DEF inside
<1>9. CASE Announce
  <2> DEFINE m == Announcement
  <2>1. m \in Outgoing /\ m.type = "ReaderAdd" /\ socket_to_send' = Append(socket_to_send, m)
        /\ pc' = "idle" /\ pc = "announce" /\ UNCHANGED <<toHost, state, mhHeader, toClient>>
        /\ UNCHANGED <<slots, allocated, id, exited>>
    BY <1>9, AnnounceQueues DEF Announce, Announcement, socket, wire, host
  <2> HIDE DEF m
  <2>2. Way[m] = 1
    BY <2>1, WayOf
  <2>3. RemoveThenAdd => RemoveThenAdd' /\ Ways' = Ways \cup {1}
    <3>1. RemoveThenAdd => RemoveThenAdd' /\ Ways' = Ways \cup Mark(Way[m])
      BY <2>1, <2>2, WayStep
    <3> QED BY <3>1, <2>2, <1>b
  <2>4. Grantees' = Grantees
    BY <2>1, GranteesStep
  <2> QED BY <2>1, <2>3, <2>4 DEF OnePlace, KnownOrGranted, RemovalFirst, NobodyYet, NotYet
<1>10. CASE Forward
  <2> DEFINE m == CardMessage
  <2>1. m \in Outgoing /\ m.type \in {"ATR", "CardRemove"}
        /\ socket_to_send' = Append(socket_to_send, m)
        /\ pc' = "idle" /\ UNCHANGED <<toHost, state, mhHeader, toClient>>
        /\ UNCHANGED <<slots, allocated, id, exited>>
    BY <1>10, ForwardQueues DEF Forward, socket, wire, host
  <2> HIDE DEF m
  <2>2. Way[m] = 0
    BY <2>1, WayOf
  <2>3. RemoveThenAdd => RemoveThenAdd' /\ Ways' = Ways
    <3>1. RemoveThenAdd => RemoveThenAdd' /\ Ways' = Ways \cup Mark(Way[m])
      BY <2>1, <2>2, WayStep
    <3> QED BY <3>1, <2>2, <1>b
  <2> QED BY <1>1, <2>1, <2>3, GranteesStep
<1>11. CASE OnSuccess \/ OnRefusal
  <2>1. Handle
    BY <1>11, ReadHandles
  <2>2. /\ mhHeader.type = "Error" /\ state = "MESSAGE"
        /\ UNCHANGED <<pc, exited, allocated, slots, socket_to_send, toHost>>
    BY <1>11 DEF OnSuccess, OnRefusal, ReadMessage, thread, host
  <2>3. RemoveThenAdd => RemoveThenAdd' /\ Ways' = Ways
    BY <2>2, WayStep
  <2>4. Grantees = Mark(Granted[mhHeader]) \cup Grantees'
    BY <2>1, GranteesStep
  <2>5. CASE OnRefusal
    <3>1. mhHeader.code # "SUCCESS" /\ UNCHANGED id
      BY <2>5 DEF OnRefusal
    <3>2. Grantees = Grantees'
      BY <2>4, <3>1, <1>a, <1>b, GrantedOf DEF Grants
    <3> QED BY <1>1, <2>2, <2>3, <3>1, <3>2
  <2>6. CASE OnSuccess
    <3>1. mhHeader.code = "SUCCESS"
          /\ id' = IF pending = None THEN id ELSE [id EXCEPT ![pending] = mhHeader.id]
      BY <2>6 DEF OnSuccess
    <3>2. mhHeader.id \in Ids
      BY <3>1, <1>a DEF Incoming
    <3>3. ASSUME NEW r \in Readers, r \in Grantees, r \notin Grantees' PROVE id'[r] # Undefined
      <4>1. r \in Concerned
        BY <3>3, GranteesStep DEF Concerned
      <4>2. r = pending /\ pending # None
        BY <4>1, <1>c, NumbersDiffer DEF OneAnnounced, None
      <4> QED BY <4>2, <3>1, <3>2, <1>a
    <3>4. \A r \in Readers : id[r] # Undefined => id'[r] # Undefined
      BY <3>1, <3>2, <1>a
    <3>5. KnownOrGranted => KnownOrGranted'
      BY <2>2, <3>3, <3>4 DEF KnownOrGranted, NotYet
    <3> QED BY <2>2, <2>3, <3>5 DEF OnePlace, RemovalFirst, NobodyYet, NotYet
  <2> QED BY <1>11, <2>5, <2>6
<1>12. CASE OnInit
  <2> DEFINE m == send_msg("ReaderRemove", 0, None, 0)
  <2>1. Handle
    BY <1>12, ReadHandles
  <2>2. /\ pc' = "idle" /\ UNCHANGED <<id, exited, allocated, slots, toHost>> /\ ~exited
        /\ mhHeader.type = "Init" /\ state = "MESSAGE"
        /\ socket_to_send' = Append(socket_to_send, m)
    BY <1>12 DEF OnInit, ReadMessage, Readable, host
  <2>3. m \in Outgoing /\ m.type = "ReaderRemove"
    <3>1. "ReaderRemove" \in MessageTypes /\ "ReaderRemove" \notin Answering
          /\ "ReaderRemove" \notin AboutReader
      BY DEF MessageTypes, Answering, AboutReader
    <3> QED BY <3>1, SendType, ConstantFacts DEF send_msg, Message
  <2> HIDE DEF m
  <2>4. pc = "off"
    <3>1. Held = {Start}
      BY <2>2, <1>a, MarksOfMessages, NumbersDiffer DEF Held, Mark
    <3> QED BY <3>1, <2>2, <1>c DEF NotStarted, Concerned
  <2>5. NobodyYet /\ 1 \notin Ways /\ RemoveThenAdd
    BY <2>2, <2>4 DEF RemovalFirst
  <2>6. RemoveThenAdd' /\ Ways' = Ways \cup {2}
    BY <2>2, <2>3, <2>5, <1>b, WayOf, WayStep
  <2>7. NobodyYet'
    BY <2>2, <2>5 DEF NobodyYet, NotYet
  <2> QED BY <2>2, <2>6, <2>7 DEF RemovalFirst, OnePlace, KnownOrGranted, NobodyYet
<1>13. CASE HostHandles
  <2> DEFINE h == Head(toHost)
  <2>1. HostTakes /\ UNCHANGED inside
    BY <1>13, HostStep
  <2>2. h \in Outgoing /\ h \in Queued /\ h.id = 0
    BY <2>1, MessagesStep DEF Outgoing
  <2>3. RemoveThenAdd => /\ RemoveThenAdd' /\ Ways = Mark(Way[h]) \cup Ways'
                         /\ Way[h] = 1 => 2 \notin Ways'
    BY <2>1, WayStep
  <2>4. Grantees \subseteq Grantees'
    <3>1. CASE UNCHANGED <<state, mhHeader, toClient>>
      BY <3>1, GranteesStep
    <3>2. CASE \E m \in Incoming : Replies(m, h) /\ Sends(m)
      BY <3>2, GranteesStep
    <3> QED BY <2>1, <3>1, <3>2 DEF HostTakes
  <2>5. ASSUME UNCHANGED <<slots, allocated>> PROVE Placed'
    BY <1>1, <2>1, <2>3, <2>4, <2>5 DEF inside
  <2>6. CASE HostInit \/ \E type \in {"APDU", "Error", "FlushComplete"} : HostAnswered(type)
    BY <2>5, <2>6 DEF HostInit, HostAnswered, host
  <2>7. CASE HostReaderRemove
    <3>1. UNCHANGED allocated /\ slots' = [slots EXCEPT ![h.id] = "none"] /\ h.type = "ReaderRemove"
      BY <2>7 DEF HostReaderRemove, Receive
    <3>2. slots' \in [Ids -> {"none", "empty", "card"}]
      BY <2>2, <3>1
    <3>3. Way[h] = 2
      BY <2>2, <3>1, WayOf
    <3>4. ~exited => NobodyYet
      BY <2>3, <3>3, <1>b DEF RemovalFirst
    <3>5. ~exited' => NobodyYet'
      BY <3>1, <3>4, <2>1 DEF NobodyYet, NotYet, inside
    <3>6. RemovalFirst => RemovalFirst'
      BY <2>1, <2>3, <3>1, <3>5 DEF RemovalFirst, NobodyYet, NotYet, inside
    <3> QED BY <2>1, <3>2, <3>5, <3>6 DEF inside, OnePlace, KnownOrGranted, NobodyYet
  <2>8. CASE \E type \in {"ATR", "CardRemove"} : HostCard(type)
    <3>1. UNCHANGED allocated
          /\ \E x \in {"card", "empty"} :
                slots' = [slots EXCEPT ![h.id] = IF @ = "none" THEN @ ELSE x]
      BY <2>8 DEF HostCard
    <3>2. /\ slots' \in [Ids -> {"none", "empty", "card"}]
          /\ slots[0] # "none" => slots'[0] # "none"
      BY <2>2, <3>1, <1>a
    <3>3. OnePlace => OnePlace'
      BY <3>1, <3>2 DEF OnePlace, NotYet
    <3>4. KnownOrGranted => KnownOrGranted'
      BY <3>1, <2>1, <2>4 DEF KnownOrGranted, NotYet, inside
    <3>5. RemovalFirst => RemovalFirst'
      BY <2>1, <2>3, <3>1 DEF RemovalFirst, NobodyYet, NotYet, inside
    <3> QED BY <2>1, <3>2, <3>3, <3>4, <3>5 DEF inside
  <2>9. CASE HostReaderAdd
    <3>1. h.type = "ReaderAdd"
      BY <2>9 DEF HostReaderAdd, Receive
    <3>2. CASE UNCHANGED <<slots, allocated>>
      BY <2>5, <3>2
    <3>3. ASSUME NEW i \in FreeSlots, slots' = [slots EXCEPT ![i] = "empty"],
                 allocated' = [allocated EXCEPT ![h.about] = i], Reply("SUCCESS", i, h)
          PROVE  Placed'
      <4> DEFINE m == Message("Error", i, "SUCCESS", h.about, 0, h.type)
                 r == h.about
      <4>1. i = 0 /\ slots[0] = "none" /\ i \in Ids
        BY <3>3, ClientAssumption DEF FreeSlots, Ids
      <4>2. slots' \in [Ids -> {"none", "empty", "card"}] /\ slots'[0] = "empty"
        BY <3>3, <4>1
      <4>3. r \in Readers
        BY <2>1, <3>1, <1>c, TakenOnce
      <4>4. ~exited => NobodyYet
        BY <4>1 DEF OnePlace, NobodyYet
      <4>5. m \in Incoming /\ m.about = r /\ Grants(m)
        BY <2>2, <3>1, <4>1, ReplyType DEF Codes, Message, Grants
      <4>6. Sends(m)
        BY <2>9, <3>3 DEF Reply, Sends, HostReaderAdd, Receive, socket
      <4> HIDE DEF m, r, h
      <4>7. r \in Grantees'
        BY <4>3, <4>5, <4>6, <1>b, GranteesStep, GrantedOf, NumbersDiffer
      <4>8. allocated'[r] = 0 /\ \A q \in Readers : q # r => allocated'[q] = allocated[q]
        BY <3>3, <4>1, <4>3, <1>a DEF r
      <4>9. ~exited => OnePlace' /\ KnownOrGranted'
        <5>1. NobodyYet => \A q \in Readers : ~NotYet(q)' => q = r
          BY <4>8 DEF NobodyYet, NotYet
        <5>2. 0 # Undefined
          BY DEF Undefined
        <5> QED BY <4>2, <4>4, <4>7, <4>8, <5>1, <5>2 DEF OnePlace, KnownOrGranted, NotYet
      <4>10. ~exited => RemovalFirst'
        <5>1. Way[h] = 1
          BY <2>2, <3>1, WayOf DEF h
        <5>2. ~exited => pc # "off"
          BY <2>3, <5>1, <1>b DEF RemovalFirst
        <5> QED BY <2>1, <2>3, <5>1, <5>2 DEF RemovalFirst, inside
      <4> QED BY <2>1, <4>2, <4>9, <4>10 DEF inside
    <3> QED BY <2>9, <3>2, <3>3 DEF HostReaderAdd
  <2> QED BY <1>13, <2>6, <2>7, <2>8, <2>9 DEF HostHandles
<1>14. ASSUME NEW type \in {"APDU", "Flush"}, NEW i \in Ids, HostAsks(type, i)
       PROVE  Placed'
  <2>1. HostAsksNext /\ UNCHANGED inside /\ UNCHANGED <<slots, allocated>>
    BY <1>14, AskStep DEF HostAsks
  <2> QED BY <1>1, <2>1, WayStep, GranteesStep DEF HostAsksNext, inside
<1>15. CASE Exit
  BY <1>15 DEF Exit, host
<1> HIDE DEF Placed
<1> QED
  BY <1>3, <1>4, <1>5, <1>6, <1>7, <1>8, <1>9, <1>10, <1>11, <1>12, <1>13, <1>14, <1>15,
     ConstantFacts DEF Next, EventThread, SocketRead

-----------------------------------------------------------------------------
(* The news of a reader on their way from the library to the host's place: *)
(* the last word in the queue of events, else the event in hand, else the  *)
(* last message to be sent, else the last on the wire, else what the host  *)
(* shows.  It is the truth for a reader that may still be accepted.        *)
EventWord(r) ==
    [e \in Event |-> IF e.reader # r THEN "none" ELSE IF e.type = "CARD_INSERT" THEN "card"
                     ELSE IF e.type = "CARD_REMOVE" THEN "empty" ELSE "none"]
MessageWord(r) ==
    [m \in Msg |-> IF m.about # r THEN "none" ELSE IF m.type = "ATR" THEN "card"
                   ELSE IF m.type = "CardRemove" THEN "empty" ELSE "none"]
Shows(r) == IF NotYet(r) THEN "empty" ELSE slots[0]
Sent(r) == LastWord(MessageWord(r), socket_to_send, LastWord(MessageWord(r), toHost, Shows(r)))
Passing(r) == pc \in {"check", "decision", "forward"} /\ event.reader = r
Latest(r) == LastWord(EventWord(r), events, IF Passing(r) THEN EventWord(r)[event] ELSE Sent(r))
Truth(r) == IF present[r] THEN "card" ELSE "empty"

Coming(r) == \E i \in 1 .. Len(events) : events[i].type = "READER_INSERT" /\ events[i].reader = r
Open(r) == \/ Coming(r) \/ pending = r \/ ~NotYet(r)
           \/ (pc \in {"insert", "announce"} /\ event.reader = r)
InsertFirst ==
    /\ \A i, j \in 1 .. Len(events) :
          /\ events[i].type = "READER_INSERT" /\ events[j].type # "READER_INSERT"
          /\ events[i].reader = events[j].reader
          => i < j
    /\ \A r \in Readers : Passing(r) => ~Coming(r)
Reported == ~exited /\ ~lost => \A r \in Readers : Open(r) => Latest(r) = Truth(r)

LEMMA InsertFirstStep ==
    ASSUME TypeOK, InsertFirst, [Next]_vars
    PROVE  InsertFirst'
<1>a. events \in Seq(Event)
  BY DEF TypeOK
<1>1. ASSUME UNCHANGED <<events, event>>,
             pc' \in {"check", "decision", "forward"} => pc \in {"check", "decision", "forward"}
      PROVE  InsertFirst'
  BY <1>1 DEF InsertFirst, Passing, Coming
<1>2. CASE TakeEvent
  <2> DEFINE e == Head(events)
             t == Tail(events)
  <2>1. /\ e \in Event /\ e = events[1] /\ t \in Seq(Event) /\ Len(events) = Len(t) + 1
        /\ \A i \in 1 .. Len(t) : t[i] = events[i + 1]
    BY <1>2, <1>a DEF TakeEvent
  <2>2. /\ events' = t /\ event' = e
        /\ pc' \in {"insert", "check", "forward"} /\ (pc' = "insert" <=> e.type = "READER_INSERT")
    BY <1>2 DEF TakeEvent
  <2> HIDE DEF e, t
  <2>3. 1 \in 1 .. Len(events) /\ \A i \in 1 .. Len(t) : i + 1 \in 1 .. Len(events)
    BY <2>1
  <2>4. ASSUME NEW i \in 1 .. Len(t), NEW j \in 1 .. Len(t), t[i].type = "READER_INSERT",
               t[j].type # "READER_INSERT", t[i].reader = t[j].reader
        PROVE  i < j
    <3>1. i + 1 < j + 1
      BY <2>1, <2>3, <2>4 DEF InsertFirst
    <3> QED BY <3>1
  <2>5. ASSUME NEW i \in 1 .. Len(t), t[i].type = "READER_INSERT", e.type # "READER_INSERT",
               t[i].reader = e.reader
        PROVE  FALSE
    <3>1. i + 1 < 1
      BY <2>1, <2>3, <2>5 DEF InsertFirst
    <3> QED BY <3>1
  <2> QED BY <2>2, <2>4, <2>5 DEF InsertFirst, Passing, Coming
<1>3. ASSUME NEW r \in Readers, Move(r), UNCHANGED <<pc, event>>
      PROVE  InsertFirst'
  <2> DEFINE e == CardEvent(r, ~present[r])
  <2>1. e \in Event /\ e.type # "READER_INSERT"
    BY DEF CardEvent, LibraryEvent, Event
  <2>2. events' = Append(events, e)
    BY <1>3 DEF Move
  <2> HIDE DEF e
  <2>3. /\ Len(events') = Len(events) + 1 /\ events'[Len(events) + 1] = e
        /\ \A i \in 1 .. Len(events) : events'[i] = events[i]
        /\ Len(events) \in Nat
    BY <2>1, <2>2, <1>a
  <2>4. \A i \in 1 .. Len(events') : i \in 1 .. Len(events) \/ i = Len(events) + 1
    BY <2>3
  <2> QED BY <1>3, <2>1, <2>3, <2>4 DEF InsertFirst, Passing, Coming
<1>4. CASE UNCHANGED vars
  BY <1>1, <1>4 DEF vars, library, thread
<1>5. CASE DropUnlessPending \/ WaitForDecision \/ Decided \/ ReaderInsert \/ Announce \/ Forward
  BY <1>1, <1>5 DEF DropUnlessPending, WaitForDecision, Decided, ReaderInsert, Announce, Forward,
                    Delete, library
<1>6. CASE SocketSend \/ SocketRead \/ Exit
  BY <1>1, <1>6 DEF SocketSend, SocketRead, ReadHeader, OnApdu, OnFlush, OnSuccess, OnRefusal,
                    OnInit, ReadMessage, Exit, library, thread
<1>7. CASE HostHandles
  <2>1. UNCHANGED inside
    BY <1>7, HostStep
  <2> QED BY <2>1, <1>1 DEF inside
<1>8. ASSUME NEW type, NEW i, HostAsks(type, i) PROVE InsertFirst'
  BY <1>1, <1>8 DEF HostAsks, library, thread
<1> QED
  BY <1>2, <1>3, <1>4, <1>5, <1>6, <1>7, <1>8, InsideSteps
     DEF Next, EventThread, thread

(* A word is sent with a message, and comes from the wire to the place *)
LEMMA SentStep ==
    ASSUME TypeOK, NEW r \in Readers
    PROVE  /\ UNCHANGED <<socket_to_send, toHost>> /\ Shows(r)' = Shows(r) => Sent(r)' = Sent(r)
           /\ SendOne /\ Shows(r)' = Shows(r) => Sent(r)' = Sent(r)
           /\ \A m \in Outgoing :
                 /\ socket_to_send' = Append(socket_to_send, m) /\ UNCHANGED toHost
                 /\ Shows(r)' = Shows(r)
                 => Sent(r)' = IF MessageWord(r)[m] # "none" THEN MessageWord(r)[m] ELSE Sent(r)
           /\ HostTakes /\ Shows(r)' = (IF MessageWord(r)[Head(toHost)] # "none"
                                        THEN MessageWord(r)[Head(toHost)] ELSE Shows(r))
                 => Sent(r)' = Sent(r)
<1> DEFINE F == MessageWord(r)
           s == socket_to_send
           t == toHost
           w == Shows(r)
<1>1. s \in Seq(Outgoing) /\ t \in Seq(Outgoing)
  BY DEF TypeOK
<1>2. /\ Sent(r) = LastWord(F, s, LastWord(F, t, w))
      /\ Sent(r)' = LastWord(F, s', LastWord(F, t', w'))
  BY DEF Sent, MessageWord
<1> HIDE DEF F, w
<1>3. CASE s' = s /\ t' = t /\ w' = w
  BY <1>2, <1>3
<1>4. ASSUME SendOne, w' = w PROVE Sent(r)' = Sent(r)
  <2>1. s # <<>> /\ t' = Append(t, Head(s)) /\ s' = Tail(s)
    BY <1>4 DEF SendOne
  <2> DEFINE h == Head(s)
  <2>2. h \in Outgoing
    BY <1>1, <2>1
  <2>3. LastWord(F, s, LastWord(F, t, w)) =
           LastWord(F, Tail(s), IF F[h] # "none" THEN F[h] ELSE LastWord(F, t, w))
    BY <1>1, <2>1, LastWordTail
  <2>4. LastWord(F, Append(t, h), w) = IF F[h] # "none" THEN F[h] ELSE LastWord(F, t, w)
    BY <1>1, <2>2, LastWordAppend
  <2> QED BY <1>2, <1>4, <2>1, <2>3, <2>4
<1>5. ASSUME NEW m \in Outgoing, s' = Append(s, m), t' = t, w' = w
      PROVE  Sent(r)' = IF F[m] # "none" THEN F[m] ELSE Sent(r)
  <2>1. \A v : LastWord(F, Append(s, m), v) = IF F[m] # "none" THEN F[m] ELSE LastWord(F, s, v)
    BY <1>1, LastWordAppend
  <2> QED BY <1>2, <1>5, <2>1
<1>6. ASSUME HostTakes, w' = IF F[Head(t)] # "none" THEN F[Head(t)] ELSE w
      PROVE  Sent(r)' = Sent(r)
  <2>1. t # <<>> /\ t' = Tail(t) /\ s' = s
    BY <1>6 DEF HostTakes
  <2>2. LastWord(F, t, w) = LastWord(F, Tail(t), IF F[Head(t)] # "none" THEN F[Head(t)] ELSE w)
    BY <1>1, <2>1, LastWordTail
  <2> QED BY <1>2, <1>6, <2>1, <2>2
<1> QED BY <1>3, <1>4, <1>5, <1>6 DEF F, w

LEMMA WordsOf ==
    ASSUME NEW r
    PROVE  /\ \A e \in Event :
                 /\ e.reader # r \/ e.type = "READER_INSERT" => EventWord(r)[e] = "none"
                 /\ e.reader = r /\ e.type = "CARD_INSERT" => EventWord(r)[e] = "card"
                 /\ e.reader = r /\ e.type = "CARD_REMOVE" => EventWord(r)[e] = "empty"
           /\ \A m \in Outgoing :
                 /\ m.about # r \/ m.type \notin {"ATR", "CardRemove"} => MessageWord(r)[m] = "none"
                 /\ m.about = r /\ m.type = "ATR" => MessageWord(r)[m] = "card"
                 /\ m.about = r /\ m.type = "CardRemove" => MessageWord(r)[m] = "empty"
BY DEF EventWord, MessageWord, Outgoing

LEMMA ReportedStart ==
    ASSUME Init PROVE InsertFirst /\ Reported
<1> DEFINE m == send_msg("Init", 0, None, 0)
<1>1. m.type = "Init"
  BY DEF send_msg, Message
<1>2. /\ toHost = <<>> /\ socket_to_send = <<m>> /\ pc = "off"
      /\ allocated = [r \in Readers |-> Undefined]
      /\ events \in StartQueue(NumReaders) /\ events \in Seq(Event)
  BY InitialQueue DEF Init, StartQueue
<1>3. m \in Outgoing
  BY <1>2, TypeInit DEF TypeOK
<1> HIDE DEF m
<1>4. InsertFirst
  BY <1>2 DEF InsertFirst, Passing, StartQueue
<1>5. ASSUME NEW r \in Readers PROVE Latest(r) = Truth(r)
  <2> DEFINE F == MessageWord(r)
             E == EventWord(r)
             w == LastWord(E, events, "empty")
  <2>1. Shows(r) = "empty" /\ ~Passing(r)
    BY <1>2 DEF Shows, NotYet, Passing
  <2>2. F[m] = "none"
    BY <1>1, <1>3, WordsOf
  <2>3. LastWord(F, toHost, "empty") = "empty"
    BY <1>2, LastWordEmpty
  <2>4. LastWord(F, socket_to_send, "empty") = "empty"
    <3>1. Len(socket_to_send) = 1 /\ socket_to_send[1] = m /\ socket_to_send \in Seq(Outgoing)
      BY <1>2, <1>3
    <3>2. IsLastWord(F, socket_to_send, "empty", "empty")
      BY <3>1, <2>2 DEF IsLastWord
    <3> QED BY <3>1, <3>2, LastWordIs
  <2>5. Latest(r) = w
    BY <2>1, <2>3, <2>4 DEF Latest, Sent
  <2>6. IsLastWord(E, events, "empty", w)
    BY <1>2, LastWordIs
  <2> HIDE DEF w, E, F
  <2>7. ASSUME NEW i \in 1 .. Len(events) PROVE E[events[i]] # "none" => E[events[i]] = "card" /\ present[r]
    <3>1. events[i] \in Event /\ events[i].type # "CARD_REMOVE"
          /\ (events[i].type = "CARD_INSERT" => present[events[i].reader])
      BY <1>2 DEF StartQueue
    <3>2. events[i].type \in {"READER_INSERT", "CARD_INSERT"}
      BY <3>1 DEF Event
    <3> QED BY <3>1, <3>2, WordsOf DEF E
  <2>8. CASE present[r]
    <3>1. PICK i \in 1 .. Len(events) : events[i].type = "CARD_INSERT" /\ events[i].reader = r
      BY <1>2, <2>8 DEF StartQueue, Readers
    <3>2. events[i] \in Event
      BY <1>2
    <3>3. E[events[i]] = "card"
      BY <3>1, <3>2, WordsOf DEF E
    <3>4. w = "card"
      BY <2>6, <2>7, <3>3 DEF IsLastWord
    <3> QED BY <3>4, <2>5, <2>8 DEF Truth
  <2>9. CASE ~present[r]
    <3>1. w = "empty"
      BY <2>6, <2>7, <2>9 DEF IsLastWord
    <3> QED BY <3>1, <2>5, <2>9 DEF Truth
  <2> QED BY <2>8, <2>9
<1> QED BY <1>4, <1>5 DEF Reported

LEMMA ReportedStep ==
    ASSUME Capacity <= 1, TypeOK, Whole, Orderly, Allotted, Placed, InsertFirst, Reported,
           [Next]_vars
    PROVE  Reported'
<1> SUFFICES ASSUME NEW r \in Readers, ~exited', ~lost', Open(r)'
             PROVE  Latest(r)' = Truth(r)'
  BY DEF Reported
<1> DEFINE E == EventWord(r)
           w == IF Passing(r) THEN E[event] ELSE Sent(r)
<1>a. /\ events \in Seq(Event) /\ (pc \notin {"off", "idle"} => event \in Event)
      /\ pending \in 0 .. NumReaders /\ mhHeader \in Incoming
      /\ id \in [Readers -> Ids \cup {Undefined}] /\ allocated \in [Readers -> Ids \cup {Undefined}]
  BY DEF TypeOK
<1>b. ~exited /\ ~lost /\ Open(r) => Latest(r) = Truth(r)
  BY DEF Reported
<1>c. OneAnnounced /\ HandType /\ OwnTurn
  BY DEF Orderly
<1>d. /\ Latest(r) = LastWord(E, events, w)
      /\ Latest(r)' = LastWord(E, events', w')
      /\ w' = IF Passing(r)' THEN E[event'] ELSE Sent(r)'
  BY DEF Latest, EventWord, Event
<1>e. Placed /\ ~exited => OnePlace /\ KnownOrGranted
  BY DEF Placed
<1> HIDE DEF w, E
<1>1. ASSUME UNCHANGED <<events, present>>, lost => lost', exited => exited',
             Open(r)' => Open(r), w' = w
      PROVE  Latest(r)' = Truth(r)'
  <2>1. Truth(r)' = Truth(r)
    BY <1>1 DEF Truth
  <2>2. ~exited /\ ~lost /\ Open(r)
    BY <1>1
  <2>3. Latest(r)' = Latest(r)
    BY <1>1, <1>d
  <2> QED BY <2>1, <2>2, <2>3, <1>b
<1>2. ASSUME UNCHANGED <<events, present, event, lost, exited>>, Open(r)' => Open(r),
             Passing(r)' <=> Passing(r), Sent(r)' = Sent(r)
      PROVE  Latest(r)' = Truth(r)'
  BY <1>1, <1>2, <1>d DEF w
<1>3. ASSUME UNCHANGED inside, UNCHANGED allocated, Sent(r)' = Sent(r)
      PROVE  Latest(r)' = Truth(r)'
  BY <1>2, <1>3 DEF inside, Open, Coming, NotYet, Passing
<1>4. ASSUME UNCHANGED <<slots, allocated>> PROVE Shows(r)' = Shows(r)
  BY <1>4 DEF Shows, NotYet
<1>5. CASE UNCHANGED vars
  <2>1. Sent(r)' = Sent(r)
    BY <1>4, <1>5, SentStep DEF vars, wire, host
  <2> QED BY <2>1, <1>3, <1>5 DEF vars, library, thread, host, inside
<1>6. CASE SocketSend \/ ReadHeader
  <2>1. (SendOne \/ TakeHeader) /\ UNCHANGED inside
    BY <1>6, InsideSteps
  <2>2. UNCHANGED <<slots, allocated>>
    BY <1>6 DEF SocketSend, ReadHeader, host
  <2>3. Sent(r)' = Sent(r)
    BY <2>1, <2>2, <1>4, SentStep DEF TakeHeader
  <2> QED BY <2>1, <2>2, <2>3, <1>3
<1>7. CASE OnApdu \/ OnFlush
  <2>1. Handle /\ UNCHANGED inside
    BY <1>7, InsideSteps
  <2>2. UNCHANGED <<slots, allocated>> /\ mhHeader.type \in {"APDU", "Flush"}
    BY <1>7 DEF OnApdu, OnFlush, ReadMessage, host
  <2>3. mhHeader.n # 0
    BY <1>a, <2>2 DEF Incoming
  <2>4. PICK m \in Outgoing : /\ m.type \notin AboutReader \cup {"Init"}
                              /\ socket_to_send' = Append(socket_to_send, m)
    BY <2>1, <2>3 DEF Handle
  <2>5. MessageWord(r)[m] = "none" /\ toHost' = toHost
    BY <2>1, <2>4, WordsOf DEF Handle, AboutReader
  <2>6. Sent(r)' = Sent(r)
    BY <2>2, <2>4, <2>5, <1>4, SentStep
  <2> QED BY <2>1, <2>2, <2>6, <1>3
<1>8. CASE OnSuccess \/ OnRefusal
  <2>1. /\ UNCHANGED <<events, present, pc, event, lost, exited, slots, allocated>>
        /\ UNCHANGED <<socket_to_send, toHost>> /\ pending' \in {None, pending}
    BY <1>8 DEF OnSuccess, OnRefusal, ReadMessage, library, thread, host
  <2>2. Sent(r)' = Sent(r)
    BY <2>1, <1>4, SentStep
  <2>3. Open(r)' => Open(r)
    <3>1. r # None
      BY ConstantFacts
    <3> QED BY <2>1, <3>1 DEF Open, Coming, NotYet
  <2> QED BY <2>1, <2>2, <2>3, <1>2 DEF Passing
<1>9. CASE OnInit
  <2> DEFINE m == send_msg("ReaderRemove", 0, None, 0)
  <2>1. /\ UNCHANGED <<events, present, event, lost, pending, exited, slots, allocated, toHost>>
        /\ pc' = "idle" /\ socket_to_send' = Append(socket_to_send, m)
        /\ mhHeader.type = "Init" /\ state = "MESSAGE" /\ ~exited
    BY <1>9 DEF OnInit, ReadMessage, Readable, library, host
  <2>2. m \in Outgoing /\ m.type = "ReaderRemove"
    <3>1. "ReaderRemove" \in MessageTypes /\ "ReaderRemove" \notin Answering
          /\ "ReaderRemove" \notin AboutReader
      BY DEF MessageTypes, Answering, AboutReader
    <3> QED BY <3>1, SendType, ConstantFacts DEF send_msg, Message
  <2> HIDE DEF m
  <2>3. MessageWord(r)[m] = "none"
    BY <2>2, WordsOf
  <2>4. pc = "off"
    <3>1. Held = {Start}
      BY <2>1, <1>a, MarksOfMessages, NumbersDiffer DEF Held, Mark
    <3> QED BY <3>1, <2>1 DEF Orderly, NotStarted, Concerned
  <2>5. Sent(r)' = Sent(r)
    BY <2>1, <2>2, <2>3, <1>4, SentStep
  <2>6. Open(r)' => Open(r)
    BY <2>1, <2>4 DEF Open, Coming, NotYet
  <2> QED BY <2>1, <2>4, <2>5, <2>6, <1>2 DEF Passing
<1>10. CASE WaitForDecision \/ ReaderInsert
  <2>1. /\ UNCHANGED <<events, present, event, lost, exited, slots, allocated>>
        /\ UNCHANGED <<socket_to_send, toHost>>
        /\ \/ pc = "check" /\ pc' = "decision" /\ pending' = pending
           \/ pc = "insert" /\ pc' = "announce" /\ pending' = event.reader
    BY <1>10 DEF WaitForDecision, ReaderInsert, library, wire, host
  <2>2. Sent(r)' = Sent(r)
    BY <2>1, <1>4, SentStep
  <2>3. Open(r)' => Open(r)
    BY <2>1 DEF Open, Coming, NotYet
  <2> QED BY <2>1, <2>2, <2>3, <1>2 DEF Passing
<1>11. CASE Announce
  <2> DEFINE m == Announcement
  <2>1. m \in Outgoing /\ m.type = "ReaderAdd" /\ socket_to_send' = Append(socket_to_send, m)
        /\ pc' = "idle" /\ pc = "announce"
        /\ UNCHANGED <<events, present, event, lost, exited, slots, allocated, pending, toHost>>
    BY <1>11, AnnounceQueues DEF Announce, Announcement, library, wire, host
  <2> HIDE DEF m
  <2>2. MessageWord(r)[m] = "none"
    BY <2>1, WordsOf
  <2>3. Sent(r)' = Sent(r)
    BY <2>1, <2>2, <1>4, SentStep
  <2>4. Open(r)' => Open(r)
    BY <2>1 DEF Open, Coming, NotYet
  <2> QED BY <2>1, <2>3, <2>4, <1>2 DEF Passing
<1>12. CASE Forward
  <2> DEFINE m == CardMessage
  <2>1. /\ m \in Outgoing /\ m.type \in {"ATR", "CardRemove"} /\ m.about = event.reader
        /\ (m.type = "CardRemove" <=> event.type # "CARD_INSERT")
        /\ socket_to_send' = Append(socket_to_send, m) /\ pc' = "idle" /\ pc = "forward"
        /\ UNCHANGED <<events, present, event, lost, exited, slots, allocated, pending, toHost>>
    BY <1>12, ForwardQueues DEF Forward, library, wire, host
  <2> HIDE DEF m
  <2>2. event \in Event /\ event.type \in {"CARD_INSERT", "CARD_REMOVE"}
    <3>1. event \in Event /\ event.type # "READER_INSERT"
      BY <2>1, <1>a, <1>c DEF HandType
    <3> QED BY <3>1 DEF Event
  <2>3. Sent(r)' = IF MessageWord(r)[m] # "none" THEN MessageWord(r)[m] ELSE Sent(r)
    BY <2>1, <1>4, SentStep
  <2>4. w' = w
    <3>1. CASE event.reader = r
      <4>1. E[event] = MessageWord(r)[m] /\ MessageWord(r)[m] # "none"
        BY <2>1, <2>2, <3>1, WordsOf DEF E
      <4> QED BY <4>1, <3>1, <2>1, <2>3, <1>d DEF w, Passing
    <3>2. CASE event.reader # r
      <4>1. MessageWord(r)[m] = "none"
        BY <2>1, <3>2, WordsOf
      <4> QED BY <4>1, <3>2, <2>1, <2>3, <1>d DEF w, Passing
    <3> QED BY <3>1, <3>2
  <2>5. Open(r)' => Open(r)
    BY <2>1 DEF Open, Coming, NotYet
  <2> QED BY <2>1, <2>4, <2>5, <1>1
<1>13. CASE TakeEvent
  <2> DEFINE e == Head(events)
  <2>1. /\ e \in Event /\ events # <<>> /\ Tail(events) \in Seq(Event) /\ e = events[1]
        /\ Len(events) = Len(Tail(events)) + 1
        /\ \A i \in 1 .. Len(Tail(events)) : Tail(events)[i] = events[i + 1]
    BY <1>13, <1>a DEF TakeEvent
  <2>2. /\ events' = Tail(events) /\ event' = e /\ pc = "idle"
        /\ pc' \in {"insert", "check", "forward"} /\ (pc' = "insert" <=> e.type = "READER_INSERT")
        /\ UNCHANGED <<present, lost, exited, slots, allocated, pending, socket_to_send, toHost>>
    BY <1>13 DEF TakeEvent, wire, host
  <2>3. Sent(r)' = Sent(r)
    BY <2>2, <1>4, SentStep
  <2>4. LastWord(E, events, Sent(r)) =
           LastWord(E, Tail(events), IF E[Head(events)] # "none" THEN E[Head(events)] ELSE Sent(r))
    BY <2>1, <1>a, LastWordTail
  <2> HIDE DEF e
  <2>5. w = Sent(r)
    BY <2>2 DEF w, Passing
  <2>6. w' = IF E[e] # "none" THEN E[e] ELSE Sent(r)
    <3>1. Passing(r)' <=> e.type # "READER_INSERT" /\ e.reader = r
      BY <2>2 DEF Passing
    <3>2. Passing(r)' => E[e] # "none"
      <4>1. e.type \in {"READER_INSERT", "CARD_INSERT", "CARD_REMOVE"}
        BY <2>1 DEF Event
      <4> QED BY <3>1, <4>1, <2>1, WordsOf DEF E
    <3>3. ~Passing(r)' => E[e] = "none"
      BY <3>1, <2>1, WordsOf DEF E
    <3> QED BY <3>2, <3>3, <2>2, <2>3, <1>d
  <2>7. Latest(r)' = Latest(r)
    BY <2>2, <2>4, <2>5, <2>6, <1>d DEF e
  <2>8. Open(r)
    <3>1. Coming(r)' => Coming(r)
      <4>1. \A i \in 1 .. Len(Tail(events)) : i + 1 \in 1 .. Len(events)
        BY <2>1
      <4> QED BY <4>1, <2>1, <2>2 DEF Coming
    <3>2. pc' = "insert" /\ e.reader = r => Coming(r)
      <4>1. 1 \in 1 .. Len(events)
        BY <2>1
      <4> QED BY <4>1, <2>1, <2>2 DEF Coming
    <3> QED BY <3>1, <3>2, <2>2 DEF Open, NotYet
  <2> QED BY <2>2, <2>7, <2>8, <1>b DEF Truth
<1>14. CASE DropUnlessPending \/ Decided
  <2>1. /\ UNCHANGED <<events, present, event, exited, slots, allocated, pending, id>>
        /\ UNCHANGED <<socket_to_send, toHost>> /\ ~exited
        /\ pc \in {"check", "decision"}
        /\ \/ pc' = "forward" /\ UNCHANGED lost
           \/ /\ pending # event.reader /\ pc' = "idle"
              /\ lost' = (lost \/ id[event.reader] # Undefined)
    BY <1>14, <1>a, ConstantFacts
       DEF DropUnlessPending, Decided, Delete, library, wire, host, Event
  <2>2. Sent(r)' = Sent(r)
    BY <2>1, <1>4, SentStep
  <2>3. Open(r)' => Open(r)
    BY <2>1 DEF Open, Coming, NotYet
  <2>4. CASE pc' = "forward" /\ UNCHANGED lost
    BY <2>1, <2>2, <2>3, <2>4, <1>2 DEF Passing
  <2>5. CASE event.reader # r
    <3>1. ~Passing(r) /\ ~Passing(r)'
      BY <2>1, <2>5 DEF Passing
    <3>2. w' = w
      BY <3>1, <2>2 DEF w
    <3>3. lost => lost'
      BY <2>1
    <3> QED BY <3>2, <3>3, <2>1, <2>3, <1>1
  <2>6. CASE /\ event.reader = r /\ pending # event.reader /\ pc' = "idle"
             /\ lost' = (lost \/ id[event.reader] # Undefined)
    <3>1. id[r] = Undefined /\ pending # r
      BY <2>6
    <3>2. ~Coming(r)
      BY <2>1, <2>6 DEF InsertFirst, Passing
    <3>3. NotYet(r)
      <4>1. SUFFICES ASSUME ~NotYet(r) PROVE FALSE
        OBVIOUS
      <4>2. r \in Concerned
        BY <4>1, <3>1, <2>1, <1>e, GranteesStep DEF KnownOrGranted, Concerned
      <4> QED BY <4>2, <3>1, <1>c, NumbersDiffer DEF OneAnnounced
    <3>4. ~Open(r)'
      BY <3>1, <3>2, <3>3, <2>1, <2>6 DEF Open, Coming, NotYet
    <3> QED BY <3>4
  <2> QED BY <2>1, <2>4, <2>5, <2>6
<1>15. CASE HostHandles
  <2> DEFINE h == Head(toHost)
  <2>1. HostTakes /\ UNCHANGED inside
    BY <1>15, HostStep
  <2>2. h \in Outgoing /\ h \in Queued /\ h.id = 0
    BY <2>1, MessagesStep DEF Outgoing
  <2>3. ~exited
    BY <2>1 DEF inside
  <2>4. ASSUME h.type \notin {"ATR", "CardRemove"}, Shows(r)' = Shows(r)
        PROVE  Sent(r)' = Sent(r)
    <3>1. MessageWord(r)[h] = "none"
      BY <2>2, <2>4, WordsOf
    <3> QED BY <3>1, <2>1, <2>4, SentStep
  <2>5. CASE HostInit \/ \E type \in {"APDU", "Error", "FlushComplete"} : HostAnswered(type)
    <3>1. UNCHANGED <<slots, allocated>> /\ h.type \notin {"ATR", "CardRemove"}
      BY <2>5 DEF HostInit, HostAnswered, Receive, host
    <3> QED BY <3>1, <2>1, <2>4, <1>3, <1>4
  <2>6. CASE HostReaderRemove
    <3>1. UNCHANGED allocated /\ h.type = "ReaderRemove"
      BY <2>6 DEF HostReaderRemove, Receive
    <3>2. NotYet(r)
      <4>1. 2 \in Ways
        <5>1. Way[h] = 2
          BY <2>2, <3>1, WayOf
        <5> QED BY <5>1, <2>1, <2>3, WayStep DEF Placed, RemovalFirst, Mark
      <4> QED BY <4>1, <2>3 DEF Placed, RemovalFirst, NobodyYet
    <3>3. Shows(r)' = Shows(r)
      BY <3>1, <3>2 DEF Shows, NotYet
    <3> QED BY <3>1, <3>3, <2>1, <2>4, <1>3
  <2>7. CASE \E type \in {"ATR", "CardRemove"} : HostCard(type)
    <3>1. PICK type \in {"ATR", "CardRemove"} : HostCard(type)
      BY <2>7
    <3>2. /\ UNCHANGED allocated /\ h.type = type
          /\ slots' = [slots EXCEPT ![h.id] = IF @ = "none" THEN @
                                              ELSE IF type = "ATR" THEN "card" ELSE "empty"]
      BY <3>1 DEF HostCard, Receive
    <3>3. /\ h.about \in Readers /\ ~NotYet(h.about)
      BY <2>2, <3>2 DEF Allotted, Told, CardsTold, Outgoing, AboutReader
    <3>4. slots[0] # "none"
      BY <3>3, <2>3, <1>e DEF OnePlace
    <3>5. slots'[0] = IF type = "ATR" THEN "card" ELSE "empty"
      BY <3>2, <3>4, <2>2, ConstantFacts DEF Placed
    <3>6. CASE h.about = r
      <4>1. MessageWord(r)[h] = slots'[0] /\ MessageWord(r)[h] # "none"
        BY <3>2, <3>5, <3>6, <2>2, WordsOf
      <4>2. Shows(r)' = slots'[0]
        BY <3>2, <3>3, <3>6 DEF Shows, NotYet
      <4>3. Sent(r)' = Sent(r)
        BY <4>1, <4>2, <2>1, SentStep
      <4> QED BY <4>3, <3>2, <2>1, <1>3
    <3>7. CASE h.about # r
      <4>1. MessageWord(r)[h] = "none"
        BY <3>7, <2>2, WordsOf
      <4>2. NotYet(r)
        BY <3>3, <3>7, <2>3, <1>e DEF OnePlace
      <4>3. Shows(r)' = Shows(r)
        BY <3>2, <4>2 DEF Shows, NotYet
      <4>4. Sent(r)' = Sent(r)
        BY <4>1, <4>3, <2>1, SentStep
      <4> QED BY <4>4, <3>2, <2>1, <1>3
    <3> QED BY <3>6, <3>7
  <2>8. CASE HostReaderAdd
    <3>1. h.type = "ReaderAdd"
      BY <2>8 DEF HostReaderAdd, Receive
    <3>2. CASE UNCHANGED <<slots, allocated>>
      BY <3>1, <3>2, <2>1, <2>4, <1>3, <1>4
    <3>3. ASSUME NEW i \in FreeSlots, slots' = [slots EXCEPT ![i] = "empty"],
                 allocated' = [allocated EXCEPT ![h.about] = i]
          PROVE  Latest(r)' = Truth(r)'
      <4>1. i = 0 /\ slots[0] = "none" /\ 0 \in Ids
        BY <3>3, ClientAssumption DEF FreeSlots, Ids
      <4>2. slots'[0] = "empty" /\ NotYet(r)
        BY <3>3, <4>1, <2>3, <1>e DEF Placed, OnePlace
      <4>3. Shows(r) = "empty" /\ Shows(r)' = "empty"
        BY <4>2 DEF Shows, NotYet
      <4>4. Sent(r)' = Sent(r)
        BY <4>3, <3>1, <2>4
      <4>5. h.about \in Concerned
        BY <2>1, <3>1, TakenOnce DEF Orderly
      <4>6. Open(r)
        <5>1. CASE h.about = r
          BY <4>5, <5>1, <1>c, NumbersDiffer DEF OneAnnounced, Open
        <5>2. CASE h.about # r
          <6>1. allocated'[r] = allocated[r]
            BY <3>3, <5>2, <1>a
          <6> QED BY <6>1, <2>1 DEF Open, Coming, NotYet, inside
        <5> QED BY <5>1, <5>2
      <4> QED BY <4>4, <4>6, <2>1, <1>2 DEF inside, Passing
    <3> QED BY <2>8, <3>2, <3>3 DEF HostReaderAdd
  <2> QED BY <1>15, <2>5, <2>6, <2>7, <2>8 DEF HostHandles
<1>16. ASSUME NEW type \in {"APDU", "Flush"}, NEW i \in Ids, HostAsks(type, i)
       PROVE  Latest(r)' = Truth(r)'
  <2>1. UNCHANGED inside
    BY <1>16, AskStep
  <2>2. UNCHANGED <<slots, allocated, socket_to_send, toHost>>
    BY <1>16 DEF HostAsks
  <2>3. Sent(r)' = Sent(r)
    BY <2>2, <1>4, SentStep
  <2> QED BY <2>1, <2>2, <2>3, <1>3
<1>17. CASE Exit
  BY <1>17 DEF Exit
<1>18. ASSUME NEW q \in Readers, Move(q), UNCHANGED pipe, UNCHANGED slots,
              UNCHANGED <<id, thread, pending, exited, allocated>>
       PROVE  Latest(r)' = Truth(r)'
  <2> DEFINE e == CardEvent(q, ~present[q])
  <2>1. /\ e \in Event /\ e.reader = q
        /\ e.type = IF present[q] THEN "CARD_REMOVE" ELSE "CARD_INSERT"
    BY DEF CardEvent, LibraryEvent, Event
  <2>2. /\ events' = Append(events, e) /\ present' = [present EXCEPT ![q] = ~@]
        /\ UNCHANGED <<pc, event, pending, exited, allocated, lost, socket_to_send, toHost>>
    BY <1>18 DEF Move, thread, pipe
  <2>3. Sent(r)' = Sent(r)
    BY <2>2, <1>4, <1>18, SentStep
  <2>4. w' = w
    BY <2>2, <2>3, <1>d DEF w, Passing
  <2>5. Latest(r)' = IF E[e] # "none" THEN E[e] ELSE Latest(r)
    BY <2>1, <2>2, <2>4, <1>a, <1>d, LastWordAppend
  <2>6. CASE q = r
    <3>1. present'[r] = ~present[r] /\ present[r] \in BOOLEAN
      BY <2>2, <2>6 DEF TypeOK
    <3>2. E[e] = Truth(r)' /\ E[e] # "none"
      <4> HIDE DEF e
      <4>1. Truth(r)' = IF present'[r] THEN "card" ELSE "empty"
        BY DEF Truth
      <4>2. CASE present[r]
        <5>1. ~present'[r] /\ e.type = "CARD_REMOVE" /\ e.reader = r
          BY <3>1, <4>2, <2>1, <2>6
        <5>2. E[e] = "empty"
          BY <5>1, <2>1, WordsOf DEF E
        <5> QED BY <5>1, <5>2, <4>1
      <4>3. CASE ~present[r]
        <5>1. present'[r] /\ e.type = "CARD_INSERT" /\ e.reader = r
          BY <3>1, <4>3, <2>1, <2>6
        <5>2. E[e] = "card"
          BY <5>1, <2>1, WordsOf DEF E
        <5> QED BY <5>1, <5>2, <4>1
      <4> QED BY <4>2, <4>3
    <3> QED BY <2>5, <3>2
  <2>7. CASE q # r
    <3>1. E[e] = "none"
      BY <2>1, <2>7, WordsOf DEF E
    <3>2. Truth(r)' = Truth(r)
      BY <2>2, <2>7 DEF Truth, TypeOK
    <3>3. Open(r)
      <4>1. /\ Len(events') = Len(events) + 1 /\ events'[Len(events) + 1] = e
            /\ \A i \in 1 .. Len(events) : events'[i] = events[i]
        BY <2>1, <2>2, <1>a
      <4>2. \A i \in 1 .. Len(events') : i \in 1 .. Len(events) \/ i = Len(events) + 1
        BY <4>1, <1>a
      <4>3. Coming(r)' => Coming(r)
        BY <4>1, <4>2, <2>1, <2>7 DEF Coming
      <4> QED BY <4>3, <2>2 DEF Open, NotYet
    <3> QED BY <2>2, <2>5, <3>1, <3>2, <3>3, <1>b
  <2> QED BY <2>6, <2>7
<1>19. /\ \A q \in Readers : CardMoves(q) => UNCHANGED slots
       /\ \A i \in Ids : CardCommand(i) => UNCHANGED slots
  BY DEF CardMoves, CardCommand, host
<1> QED
  BY <1>5, <1>6, <1>7, <1>8, <1>9, <1>10, <1>11, <1>12, <1>13, <1>14, <1>15, <1>16,
     <1>17, <1>18, <1>19, InsideSteps, ConstantFacts DEF Next, EventThread, SocketRead

-----------------------------------------------------------------------------
SInv == TypeOK /\ Whole /\ Straight /\ Complete

LEMMA SocketInvariant == Spec => []SInv
<1>1. Init => SInv
  BY TypeInit, StartsInOrder DEF SInv
<1>2. SInv /\ [Next]_vars => SInv'
  BY TypeStep, WholeStep, CompleteStep DEF SInv
<1> QED BY <1>1, <1>2, PTL DEF Spec

(* The socket's reader is always at a message boundary when it expects a   *)
(* header, and at the payload of the header it has read otherwise, for any *)
(* numbers of readers, requests and card changes (do_socket_read).         *)
THEOREM AlwaysFramed == Spec => []Framed
<1>1. SInv => Framed
  BY WholeIsFramed DEF SInv
<1> QED BY <1>1, SocketInvariant, PTL

(* The host's requests are answered one by one in the order they were made *)
(* (do_socket_read and the two queues), whatever the readers do.           *)
THEOREM AnswersAlwaysInOrder == Spec => []AnswersInOrder
<1>1. SInv => AnswersInOrder
  BY DEF SInv, Complete
<1> QED BY <1>1, SocketInvariant, PTL

LEMMA OrderlyInvariant ==
    ASSUME Quietly PROVE Spec => [](SInv /\ Orderly)
<1>1. Init => Orderly
  BY OrderlyStart
<1>2. SInv /\ Orderly /\ [Next]_vars => Orderly'
  BY OrderlyStep DEF SInv
<1> QED BY <1>1, <1>2, SocketInvariant, PTL DEF Spec

(* At most one reader's announcement is without an answer, so that no      *)
(* answer can be taken for another reader's (event_thread waits for its    *)
(* turn before it announces), as long as the host does not answer removals *)
(* of readers: the removal that on_host_init sends is not waited for.      *)
THEOREM OneAddAlways ==
    ASSUME "ReaderRemove" \notin HostAnswers
    PROVE  Spec => []OneAddAtATime
<1>1. Quietly
  BY DEF Quietly
<1>2. SInv /\ Orderly => OneAddAtATime
  <2> SUFFICES ASSUME SInv, Orderly, NEW r \in Readers, NEW q \in Readers,
                      Unanswered(r), Unanswered(q)
               PROVE  r = q
    BY DEF OneAddAtATime
  <2>1. r \in Concerned /\ q \in Concerned
    BY UnansweredIsConcerned DEF SInv
  <2> QED BY <2>1, NumbersDiffer DEF Orderly, OneAnnounced
<1> QED BY <1>1, <1>2, OrderlyInvariant, PTL

(* A reader has only the id the host allocated for it, and the host is     *)
(* told of cards only in readers it has accepted (event_thread and the     *)
(* VSC_SUCCESS branch of do_socket_read), when the host does not answer    *)
(* removals of readers and either refuses with the one code that ends the  *)
(* client's wait or does not answer removals of cards.                     *)
THEOREM AlwaysAnnouncedFirst ==
    ASSUME "ReaderRemove" \notin HostAnswers,
           AddErrors \subseteq {"CANNOT_ADD_MORE_READERS"} \/ "CardRemove" \notin HostAnswers
    PROVE  Spec => []AnnouncedFirst
<1>1. Quietly /\ (RefusalEnds \/ "CardRemove" \notin HostAnswers)
  BY DEF Quietly, RefusalEnds
<1>2. Init => Allotted
  BY AllottedStart
<1>3. SInv /\ Orderly /\ Allotted /\ [Next]_vars => Allotted'
  BY <1>1, AllottedStep DEF SInv
<1>4. Allotted => AnnouncedFirst
  BY DEF Allotted, Told, Named, CardsTold, NotYet, AnnouncedFirst
<1>5. Spec => [](SInv /\ Orderly)
  BY <1>1, OrderlyInvariant
<1> QED BY <1>2, <1>3, <1>4, <1>5, PTL DEF Spec

(* When everything is delivered and nobody removed a reader before its     *)
(* card was told, the host shows a card in the place of a reader exactly   *)
(* when there is one in the reader (event_thread, send_msg), on the        *)
(* conditions of AlwaysAnnouncedFirst and when the host has one place:     *)
(* send_msg leaves the reader_id of every header 0, so that the host would *)
(* show the cards of all readers in the first of several places.           *)
THEOREM HostAlwaysSeesCards ==
    ASSUME "ReaderRemove" \notin HostAnswers,
           AddErrors \subseteq {"CANNOT_ADD_MORE_READERS"} \/ "CardRemove" \notin HostAnswers,
           Capacity <= 1
    PROVE  Spec => []HostSeesCards
<1> DEFINE Shown == Allotted /\ Placed /\ InsertFirst /\ Reported
<1>1. Quietly /\ (RefusalEnds \/ "CardRemove" \notin HostAnswers)
  BY DEF Quietly, RefusalEnds
<1>2. Init => Shown
  BY AllottedStart, PlacedStart, ReportedStart
<1>3. SInv /\ Orderly /\ Shown /\ [Next]_vars => Shown'
  <2> SUFFICES ASSUME SInv, Orderly, Shown, [Next]_vars PROVE Shown'
    OBVIOUS
  <2>1. TypeOK /\ Whole
    BY DEF SInv
  <2>2. Allotted'
    BY <2>1, <1>1, AllottedStep
  <2>3. Placed'
    BY <2>1, <1>1, PlacedStep
  <2>4. InsertFirst'
    BY <2>1, InsertFirstStep
  <2>5. Reported'
    BY <2>1, ReportedStep
  <2> QED BY <2>2, <2>3, <2>4, <2>5
<1>4. SInv /\ Shown => HostSeesCards
  <2> SUFFICES ASSUME SInv, Shown, Quiet, ~exited, ~lost, NEW r \in Readers,
                      id[r] # Undefined, allocated[r] # Undefined
               PROVE  slots[id[r]] = IF present[r] THEN "card" ELSE "empty"
    BY DEF HostSeesCards
  <2>1. TypeOK
    BY DEF SInv
  <2>2. socket_to_send = <<>> /\ toHost = <<>>
    <3>1. Range(socket_to_send) = {} /\ Range(toHost) = {}
      BY <2>1, MessagesStep DEF Quiet
    <3>2. socket_to_send \in Seq(Outgoing) /\ toHost \in Seq(Outgoing)
      BY <2>1 DEF TypeOK
    <3> QED BY <3>1, <3>2, RangeFacts
  <2>3. ~NotYet(r) /\ Open(r)
    BY DEF NotYet, Open
  <2>4. Latest(r) = Truth(r)
    BY <2>3 DEF Reported
  <2>5. Latest(r) = Shows(r)
    <3>1. ~Passing(r) /\ events = <<>>
      BY DEF Passing, Quiet
    <3> QED BY <3>1, <2>2, LastWordEmpty DEF Latest, Sent
  <2>6. Shows(r) = slots[0]
    BY <2>3 DEF Shows
  <2>7. id[r] = 0
    BY <2>3 DEF Allotted, Told, Named, Placed, OnePlace
  <2> QED BY <2>4, <2>5, <2>6, <2>7 DEF Truth
<1>5. Spec => [](SInv /\ Orderly)
  BY <1>1, OrderlyInvariant
<1> HIDE DEF Shown
<1> QED BY <1>2, <1>3, <1>4, <1>5, PTL DEF Spec
=============================================================================
