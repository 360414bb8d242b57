---------------------------- MODULE NssEventsProofs ----------------------------
(***************************************************************************)
(* The events of one reader, for every number of cards, users, tokens and  *)
(* calls: the count of a card is the number of its owners, nothing points  *)
(* to a destroyed card, the application is told of every change once and   *)
(* in order, and a slot that has settled shows its token.                  *)
(***************************************************************************)
EXTENDS NssEvents, FiniteSetTheorems, TLAPS

(* A reader has one writer at a time: the application does not force the   *)
(* state of a slot whose token comes and goes                              *)
OneWriter == Moving \cap Calling = {}

(* The thread's place outside of vreader_insert_card and                   *)
(* vreader_queue_card_event: where it is, or where it goes on after them   *)
At(t) == IF pc[t] \in {"insert", "event"} THEN ret[t] ELSE pc[t]

MainAt == {"start", "start_mirror", "init_series", "init_drop", "idle", "reinsert", "remirror",
           "drop"}
ThreadAt == {"off", "wait", "look", "mirror", "same", "gone"}
StartUp == {"start", "start_mirror", "init_series", "init_drop"}

TypeOK ==
    /\ card \in CardOrNull /\ queue \in Seq(Event) /\ event \in Event \cup {None}
    /\ told \in Event
    /\ refs \in [Cards -> Int] /\ freed \subseteq Cards
    /\ pc \in [Writers -> MainAt \cup ThreadAt \cup {"insert", "event"}]
    /\ ret \in [Writers -> MainAt \cup ThreadAt]
    /\ arg \in [Writers -> CardOrNull]
    /\ evtype \in [Writers -> {"CARD_INSERT", "CARD_REMOVE", Unread}]
    /\ evcard \in [Writers -> CardOrNull \cup {Unread}]
    /\ held \in [Users -> CardOrNull]
    /\ token \in Nat /\ gen \in Nat /\ series \in Nat /\ seen \in Nat /\ missed \in Nat
    /\ own \in [Writers -> CardOrNull] /\ mirror \in [Cards -> Nat]
    /\ saved \in CardOrNull /\ kind \in Kinds

(* One of the writers is at work at a time: the start up comes before the  *)
(* event thread, and the application calls only readers whose token stays  *)
Turns ==
    /\ At(Main) \in MainAt /\ At(EventThread) \in ThreadAt
    /\ pc[EventThread] \notin {"off", "wait"} => pc[Main] = "idle" /\ kind \notin Calling
    /\ pc[Main] # "idle" => pc[EventThread] = "off" \/ kind \in Calling
    /\ pc[Main] # "idle" => pc[EventThread] \in {"off", "wait"}
    /\ kind \in Calling => ~changed /\ known

(* What a writer owns, it owns between its making or fetching of the card  *)
(* and its vcard_free *)
Owned ==
    /\ own[Main] # None => At(Main) \in {"init_series", "init_drop", "drop"}
    /\ own[EventThread] # None => At(EventThread) = "same"
    /\ saved # None => At(Main) \in {"idle", "reinsert", "drop"}

(* What is put into the reader is None or owned; what an event tells is    *)
(* what the writer has put there *)
Linked ==
    /\ \A t \in Writers :
        /\ pc[t] = "insert" => arg[t] \in {None, own[t]}
        /\ pc[t] # "event" => evcard[t] = Unread
        /\ pc[t] = "event" => arg[t] = card /\ evcard[t] \in {Unread, card}
    /\ kind \in Calling /\ pc[Main] # "insert" => arg[Main] = card

(* The event of the reader itself comes first, and nothing comes before it *)
ReaderFirst ==
    /\ \A i \in DOMAIN queue : i > 1 => queue[i].type # "READER_INSERT"
    /\ \A i \in DOMAIN queue : queue[i].type = "READER_INSERT" => queue[i].card = None
    /\ pc[Main] = "start" \/ ~known => queue = <<>> /\ card = None /\ told.card = None
    /\ ~known => pc[EventThread] = "wait"
    /\ ret[Main] # "start"

(* The last change that was told of or is queued is the state of the       *)
(* reader, when no writer is between its change and its event *)
LastTold ==
    (\A t \in Writers : pc[t] # "event")
        => card = IF Len(queue) = Leading THEN told.card ELSE queue[Len(queue)].card

IInv == TypeOK /\ Turns /\ Owned /\ Linked /\ ReaderFirst /\ CountExact /\ LastTold

-----------------------------------------------------------------------------
(* Counting owners *)
Is(a, b) == IF a = b THEN 1 ELSE 0
QueueCount(q, c) == Cardinality({i \in DOMAIN q : q[i].card = c})
HolderCount(S, f, c) == Cardinality({x \in S : f[x] = c})

LEMMA IsValue ==
    \A a, b : (a = b => Is(a, b) = 1) /\ (a # b => Is(a, b) = 0) /\ Is(a, b) \in {0, 1}
BY DEF Is

(* The positions of a card in a queue are finitely many *)
LEMMA QueueCountNat ==
    ASSUME NEW q \in Seq(Event), NEW c \in Cards
    PROVE  /\ IsFiniteSet({i \in DOMAIN q : q[i].card = c})
           /\ QueueCount(q, c) \in Nat
<1> DEFINE S == {i \in DOMAIN q : q[i].card = c}
<1>1. S \subseteq 1 .. Len(q) /\ Len(q) \in Nat
  OBVIOUS
<1>2. IsFiniteSet(1 .. Len(q))
  BY <1>1, FS_Interval
<1> HIDE DEF S
<1>3. IsFiniteSet(S)
  BY <1>1, <1>2, FS_Subset
<1>4. Cardinality(S) \in Nat
  BY <1>3, FS_CardinalityType
<1> QED BY <1>3, <1>4 DEF S, QueueCount

(* An event queued adds its reference *)
LEMMA AppendCount ==
    ASSUME NEW q \in Seq(Event), NEW e \in Event, NEW c \in Cards
    PROVE  QueueCount(Append(q, e), c) = QueueCount(q, c) + Is(e.card, c)
<1> DEFINE S == {i \in DOMAIN q : q[i].card = c}
           T == {i \in DOMAIN Append(q, e) : Append(q, e)[i].card = c}
           n == Len(q) + 1
<1>1. IsFiniteSet(S) /\ Cardinality(S) \in Nat
  BY QueueCountNat, FS_CardinalityType
<1>2. n \notin S
  OBVIOUS
<1>3. CASE e.card = c
  <2>1. T = S \cup {n}
    BY <1>3
  <2>2. Cardinality(S \cup {n}) = Cardinality(S) + 1
    <3> HIDE DEF S, n
    <3> QED BY <1>1, <1>2, FS_AddElement
  <2> QED BY <1>3, <2>1, <2>2, IsValue DEF QueueCount
<1>4. CASE e.card # c
  <2>1. T = S
    BY <1>4
  <2>2. QueueCount(Append(q, e), c) = QueueCount(q, c) /\ QueueCount(q, c) \in Nat
    BY <1>1, <2>1 DEF QueueCount
  <2> QED BY <1>4, <2>2, IsValue
<1> QED BY <1>3, <1>4

(* An event taken takes its reference with it *)
LEMMA TailCount ==
    ASSUME NEW q \in Seq(Event), q # <<>>, NEW c \in Cards
    PROVE  /\ QueueCount(q, c) = QueueCount(Tail(q), c) + Is(Head(q).card, c)
           /\ QueueCount(Tail(q), c) \in Nat
<1> DEFINE S == {i \in DOMAIN q : q[i].card = c}
           R == S \ {1}
           T == {i \in DOMAIN Tail(q) : Tail(q)[i].card = c}
           f == [i \in T |-> i + 1]
<1>1. /\ Tail(q) \in Seq(Event) /\ Head(q) = q[1]
      /\ DOMAIN q = 1 .. Len(q) /\ DOMAIN Tail(q) = 1 .. Len(q) - 1
      /\ \A i \in 1 .. Len(q) - 1 : Tail(q)[i] = q[i + 1]
      /\ Len(q) \in Nat \ {0}
  OBVIOUS
<1>2. IsFiniteSet(S) /\ IsFiniteSet(T) /\ Cardinality(S) \in Nat /\ Cardinality(T) \in Nat
  BY <1>1, QueueCountNat, FS_CardinalityType
<1>3. /\ IsFiniteSet(R) /\ Cardinality(R) \in Nat
      /\ 1 \in S => Cardinality(R) = Cardinality(S) - 1
      /\ 1 \notin S => Cardinality(R) = Cardinality(S)
  <2> HIDE DEF S
  <2> QED BY <1>2, FS_RemoveElement, FS_CardinalityType
<1>4. 1 \in S <=> Head(q).card = c
  BY <1>1
<1>5. Cardinality(T) = Cardinality(R)
  <2>1. f \in [T -> R]
    BY <1>1
  <2>2. \A i, j \in T : f[i] = f[j] => i = j
    BY <1>1
  <2>3. \A j \in R : j - 1 \in T /\ f[j - 1] = j
    BY <1>1
  <2>4. \A j \in R : \E i \in T : f[i] = j
    BY <2>3
  <2> HIDE DEF T, R, f
  <2>5. f \in Bijection(T, R)
    BY <2>1, <2>2, <2>4 DEF Bijection, Injection, Surjection, IsInjective
  <2> QED BY <2>5, <1>2, <1>3, FS_Bijection DEF ExistsBijection
<1> HIDE DEF S, R, T, f
<1>6. QueueCount(q, c) = Cardinality(S) /\ QueueCount(Tail(q), c) = Cardinality(T)
  BY DEF QueueCount, S, T
<1> QED BY <1>2, <1>3, <1>4, <1>5, <1>6, IsValue

(* One holder takes another card *)
LEMMA ExceptCount ==
    ASSUME NEW S, IsFiniteSet(S), NEW f \in [S -> CardOrNull], NEW x \in S,
           NEW d \in CardOrNull, NEW c \in Cards
    PROVE  /\ HolderCount(S, [f EXCEPT ![x] = d], c) + Is(f[x], c)
                = HolderCount(S, f, c) + Is(d, c)
           /\ HolderCount(S, f, c) \in Nat
           /\ HolderCount(S, [f EXCEPT ![x] = d], c) \in Nat
           /\ f[x] = c => HolderCount(S, f, c) >= 1
<1> DEFINE A == {y \in S : f[y] = c}
           B == {y \in S : [f EXCEPT ![x] = d][y] = c}
<1>1. IsFiniteSet(A) /\ IsFiniteSet(B)
  <2>1. A \in SUBSET S /\ B \in SUBSET S
    OBVIOUS
  <2> HIDE DEF A, B
  <2> QED BY <2>1, FS_Subset
<1>2. A \ {x} = B \ {x} /\ (x \in A <=> f[x] = c) /\ (x \in B <=> d = c)
  OBVIOUS
<1> HIDE DEF A, B
<1>3. /\ Cardinality(A) \in Nat /\ Cardinality(B) \in Nat
      /\ Cardinality(A \ {x}) \in Nat
  BY <1>1, FS_CardinalityType, FS_RemoveElement
<1>4. /\ x \in A => Cardinality(A \ {x}) = Cardinality(A) - 1
      /\ x \notin A => Cardinality(A \ {x}) = Cardinality(A)
      /\ x \in B => Cardinality(B \ {x}) = Cardinality(B) - 1
      /\ x \notin B => Cardinality(B \ {x}) = Cardinality(B)
  BY <1>1, FS_RemoveElement
<1>5. /\ HolderCount(S, f, c) = Cardinality(A)
      /\ HolderCount(S, [f EXCEPT ![x] = d], c) = Cardinality(B)
  BY DEF HolderCount, A, B
<1> QED BY <1>2, <1>3, <1>4, <1>5, IsValue

-----------------------------------------------------------------------------
(* What vcard_emul_mirror_card hands to vreader_insert_card: a new card    *)
(* made from the token, or NULL when there is no token that can be read *)
LEMMA Made ==
    ASSUME TypeOK, NEW t \in Writers, NEW next \in MainAt \cup ThreadAt, MirrorCard(t, next)
    PROVE  \E c \in CardOrNull :
              /\ c = None <=> token = 0 \/ token \in Unreadable
              /\ c # None => c \in Cards /\ refs[c] = 0 /\ c \notin freed
              /\ pc' = [pc EXCEPT ![t] = "insert"] /\ ret' = [ret EXCEPT ![t] = next]
              /\ arg' = [arg EXCEPT ![t] = c] /\ own' = [own EXCEPT ![t] = c]
              /\ refs' = vcard_reference(refs, c)
              /\ mirror' = IF c = None THEN mirror ELSE [mirror EXCEPT ![c] = token]
              /\ UNCHANGED <<card, queue, event, told, freed, evtype, evcard, held, token, gen,
                             changed, saved, commands, slot>>
<1> DEFINE found == token # 0 /\ token \notin Unreadable
           c == IF found THEN CHOOSE x \in Unborn : TRUE ELSE None
<1>1. found => Unborn # {}
  BY DEF MirrorCard
<1>2. (~found => c = None) /\ (found /\ Unborn # {} => c \in Unborn)
  OBVIOUS
<1>3. \A x \in Unborn : x \in Cards /\ refs[x] = 0 /\ x \notin freed /\ x # None
  BY PointerAssumption DEF Unborn
<1>4. /\ pc' = [pc EXCEPT ![t] = "insert"] /\ ret' = [ret EXCEPT ![t] = next]
      /\ arg' = [arg EXCEPT ![t] = c] /\ own' = [own EXCEPT ![t] = c]
      /\ refs' = vcard_reference(refs, c)
      /\ mirror' = IF c = None THEN mirror ELSE [mirror EXCEPT ![c] = token]
      /\ UNCHANGED <<card, queue, event, told, freed, evtype, evcard, held, token, gen,
                     changed, saved, commands, slot>>
  BY DEF MirrorCard, CallInsert, Untouched
<1> HIDE DEF c
<1>5. /\ c \in CardOrNull /\ (c = None <=> token = 0 \/ token \in Unreadable)
      /\ c # None => c \in Cards /\ refs[c] = 0 /\ c \notin freed
  BY <1>1, <1>2, <1>3 DEF CardOrNull
<1> QED BY <1>4, <1>5

(* References and destructions keep the counts integers *)
LEMMA CountTypes ==
    ASSUME NEW r \in [Cards -> Int], NEW c \in CardOrNull
    PROVE  /\ vcard_reference(r, c) \in [Cards -> Int] /\ vcard_free(r, c) \in [Cards -> Int]
           /\ Destroyed(r, c) \subseteq Cards
BY DEF vcard_reference, vcard_free, Destroyed, CardOrNull

LEMMA InitTypeOK == ASSUME Init PROVE TypeOK
<1> USE PointerAssumption, WriterAssumption, InstanceAssumption
<1>1. told \in Event /\ queue \in Seq(Event)
  BY DEF Init, vreader_new, Event, Type, CardOrNull
<1> QED BY <1>1 DEF Init, vreader_new, TypeOK, CardOrNull, MainAt, ThreadAt

(* The steps of the token and of the writers of vcard_emul_nss.c *)
LEMMA EmulTypeOK ==
    ASSUME TypeOK, Token \/ Initialise \/ EventThreadStep \/ Application \/ ApplicationStep
    PROVE  TypeOK'
<1> USE WriterAssumption, PointerAssumption
<1>1. Main \in Writers /\ EventThread \in Writers
  OBVIOUS
<1>2. [type |-> "READER_INSERT", card |-> None] \in Event /\ None \in CardOrNull
  BY DEF Event, Type, CardOrNull
<1>3. \A t \in Writers : own[t] \in CardOrNull
  BY DEF TypeOK
<1>4. ASSUME NEW t \in Writers, NEW next \in MainAt \cup ThreadAt, MirrorCard(t, next),
             series' \in Nat, seen' \in Nat
      PROVE  TypeOK'
  <2>1. PICK c \in CardOrNull :
          /\ c # None => c \in Cards
          /\ pc' = [pc EXCEPT ![t] = "insert"] /\ ret' = [ret EXCEPT ![t] = next]
          /\ arg' = [arg EXCEPT ![t] = c] /\ own' = [own EXCEPT ![t] = c]
          /\ refs' = vcard_reference(refs, c)
          /\ mirror' = IF c = None THEN mirror ELSE [mirror EXCEPT ![c] = token]
          /\ UNCHANGED <<card, queue, event, told, freed, evtype, evcard, held, token, gen,
                         changed, saved, commands, slot>>
    BY <1>4, Made
  <2>2. refs' \in [Cards -> Int]
    BY <2>1, CountTypes DEF TypeOK
  <2> QED BY <1>4, <2>1, <2>2 DEF TypeOK, slot
<1>5. ASSUME Token PROVE TypeOK'
  BY <1>5 DEF Token, TokenInsert, TokenRemove, TypeOK, readerVars, slot
<1>6. ASSUME Start PROVE TypeOK'
  BY <1>1, <1>2, <1>6 DEF Start, Untouched, TypeOK, emulVars, slot, vevent_queue, MainAt, ThreadAt
<1>7. ASSUME StartMirror PROVE TypeOK'
  BY <1>1, <1>4, <1>7 DEF StartMirror, MainAt, TypeOK
<1>8. ASSUME InitSeries PROVE TypeOK'
  BY <1>1, <1>2, <1>8 DEF InitSeries, CallInsert, Goto, Untouched, TypeOK, slot, MainAt
<1>9. ASSUME InitDrop PROVE TypeOK'
  <2>0. /\ vcard_free(refs, own[Main]) \in [Cards -> Int]
        /\ Destroyed(refs, own[Main]) \subseteq Cards
    BY <1>1, <1>3, CountTypes DEF TypeOK
  <2>1. refs' \in [Cards -> Int] /\ freed' \subseteq Cards
    BY <1>9, <2>0 DEF InitDrop, DropOwn, TypeOK
  <2>2. own' \in [Writers -> CardOrNull] /\ saved' \in CardOrNull
    BY <1>1, <1>2, <1>3, <1>9 DEF InitDrop, DropOwn, TypeOK
  <2> QED BY <1>1, <1>9, <2>1, <2>2 DEF InitDrop, Untouched, TypeOK, slot, MainAt, ThreadAt
<1>10. ASSUME Wake \/ AddReader PROVE TypeOK'
  <2>1. ASSUME Wake PROVE TypeOK'
    BY <1>1, <2>1 DEF Wake, Goto, Untouched, TypeOK, slot, ThreadAt
  <2>2. ASSUME AddReader PROVE TypeOK'
    BY <1>2, <2>2 DEF AddReader, Untouched, TypeOK, vevent_queue
  <2> QED BY <1>10, <2>1, <2>2
<1>11. ASSUME Look PROVE TypeOK'
  BY <1>1, <1>2, <1>11 DEF Look, CallInsert, Goto, Untouched, TypeOK, slot, ThreadAt
<1>12. ASSUME Mirror PROVE TypeOK'
  BY <1>1, <1>4, <1>12 DEF Mirror, ThreadAt, TypeOK
<1>13. ASSUME Same PROVE TypeOK'
  <2>1. /\ refs' \in [Cards -> Int] /\ freed' \subseteq Cards
        /\ own' \in [Writers -> CardOrNull]
    BY <1>1, <1>2, <1>3, <1>13, CountTypes DEF Same, DropOwn, TypeOK
  <2> QED BY <1>1, <1>13, <2>1 DEF Same, SeriesSeen, Goto, Untouched, TypeOK, slot, ThreadAt
<1>14. ASSUME Gone PROVE TypeOK'
  BY <1>1, <1>14 DEF Gone, Goto, Untouched, TypeOK, slot, ThreadAt
<1>15. ASSUME Application PROVE TypeOK'
  BY <1>1, <1>2, <1>15
  DEF Application, ForceRemove, ForceInsert, Replay, MayCall, CallInsert, CallQueueCardEvent,
      Goto, Untouched, TypeOK, slot, MainAt
<1>16. ASSUME ReinsertSaved PROVE TypeOK'
  <2>1. saved \in CardOrNull /\ refs' \in [Cards -> Int]
    BY <1>16, CountTypes DEF ReinsertSaved, TypeOK
  <2> QED BY <1>1, <1>16, <2>1 DEF ReinsertSaved, CallInsert, Untouched, TypeOK, slot, MainAt
<1>17. ASSUME ReinsertToken PROVE TypeOK'
  BY <1>1, <1>17 DEF ReinsertToken, Goto, Untouched, TypeOK, emulVars, slot, MainAt
<1>18. ASSUME Remirror PROVE TypeOK'
  BY <1>1, <1>4, <1>18 DEF Remirror, MainAt, TypeOK
<1>19. ASSUME Drop PROVE TypeOK'
  <2>1. /\ refs' \in [Cards -> Int] /\ freed' \subseteq Cards
        /\ own' \in [Writers -> CardOrNull]
    BY <1>1, <1>2, <1>3, <1>19, CountTypes DEF Drop, DropOwn, TypeOK
  <2> QED BY <1>1, <1>19, <2>1 DEF Drop, Goto, Untouched, TypeOK, slot, MainAt
<1> QED BY <1>5, <1>6, <1>7, <1>8, <1>9, <1>10, <1>11, <1>12, <1>13, <1>14, <1>15, <1>16,
           <1>17, <1>18, <1>19
        DEF Initialise, EventThreadStep, ApplicationStep

(* The steps of vreader.c and event.c *)
LEMMA ReaderTypeOK ==
    ASSUME TypeOK, UNCHANGED emulVars,
           \/ ConsumerStep
           \/ \E t \in Writers : WriterStep(t)
           \/ \E u \in Users : UserStep(u)
    PROVE  TypeOK'
<1> USE PointerAssumption DEF emulVars, slot
<1>1. ASSUME WaitNextEvent PROVE TypeOK'
  <2>1. Head(queue) \in Event /\ Tail(queue) \in Seq(Event)
    BY <1>1 DEF WaitNextEvent, TypeOK
  <2> QED BY <1>1, <2>1 DEF WaitNextEvent, TypeOK
<1>2. ASSUME DeleteEvent PROVE TypeOK'
  <2>1. event.card \in CardOrNull
    BY <1>2 DEF DeleteEvent, TypeOK, Event
  <2> QED BY <1>2, <2>1, CountTypes DEF DeleteEvent, TypeOK
<1>3. ASSUME NEW t \in Writers, InsertCard(t) PROVE TypeOK'
  <2>1. /\ vcard_free(refs, card) \in [Cards -> Int] /\ Destroyed(refs, card) \subseteq Cards
        /\ arg[t] \in CardOrNull
    BY CountTypes DEF TypeOK
  <2>2. refs' \in [Cards -> Int] /\ freed' \subseteq Cards
    BY <1>3, <2>1, CountTypes DEF InsertCard, SwapCard, TypeOK
  <2> QED BY <1>3, <2>1, <2>2 DEF InsertCard, SwapCard, TypeOK
<1>4. ASSUME NEW t \in Writers, ReadType(t) \/ ReadCard(t) PROVE TypeOK'
  <2>1. CASE ReadType(t) BY <2>1 DEF ReadType, TypeOK
  <2>2. CASE ReadCard(t) BY <2>2 DEF ReadCard, TypeOK
  <2> QED BY <1>4, <2>1, <2>2
<1>5. ASSUME NEW t \in Writers, QueueEvent(t) PROVE TypeOK'
  <2>1. evcard[t] \in CardOrNull /\ evtype[t] \in {"CARD_INSERT", "CARD_REMOVE"}
    BY <1>5 DEF QueueEvent, TypeOK
  <2>2. [type |-> evtype[t], card |-> evcard[t]] \in Event
    BY <2>1 DEF Event, Type
  <2>3. refs' \in [Cards -> Int]
    BY <1>5, <2>1, CountTypes DEF QueueEvent, EventReference, TypeOK
  <2>4. queue' \in Seq(Event)
    BY <1>5, <2>2 DEF QueueEvent, vevent_queue, TypeOK
  <2> QED BY <1>5, <2>3, <2>4 DEF QueueEvent, TypeOK
<1>6. ASSUME NEW u \in Users, UserStep(u) PROVE TypeOK'
  <2>1. held[u] \in CardOrNull /\ None \in CardOrNull /\ card \in CardOrNull
    BY DEF TypeOK, CardOrNull
  <2>2. CASE GetCard(u)
    <3>1. refs' \in [Cards -> Int]
      BY <2>1, <2>2, CountTypes DEF GetCard, UserReference, TypeOK
    <3> QED BY <2>1, <2>2, <3>1 DEF GetCard, TypeOK
  <2>3. CASE FreeCard(u)
    <3>1. refs' \in [Cards -> Int] /\ Destroyed(refs, held[u]) \subseteq Cards
      BY <2>1, <2>3, CountTypes DEF FreeCard, TypeOK
    <3> QED BY <2>1, <2>3, <3>1 DEF FreeCard, TypeOK
  <2> QED BY <1>6, <2>2, <2>3 DEF UserStep
<1> QED BY <1>1, <1>2, <1>3, <1>4, <1>5, <1>6 DEF ConsumerStep, WriterStep

LEMMA NextTypeOK == ASSUME TypeOK, [Next]_vars PROVE TypeOK'
<1>1. ASSUME UNCHANGED vars PROVE TypeOK'
  BY <1>1 DEF vars, readerVars, emulVars, slot, TypeOK
<1> QED BY <1>1, EmulTypeOK, ReaderTypeOK DEF Next

-----------------------------------------------------------------------------
(* Who is at work and what they own: the writers of vcard_emul_nss.c *)
LEMMA EmulTurns ==
    ASSUME OneWriter, TypeOK, Turns, Owned,
           Token \/ Initialise \/ EventThreadStep \/ Application \/ ApplicationStep
    PROVE  Turns' /\ Owned'
<1> USE WriterAssumption DEF Turns, Owned, At
<1>1. Main \in Writers /\ EventThread \in Writers /\ Main # EventThread
  OBVIOUS
<1>2. ASSUME NEW t \in Writers, NEW next \in MainAt \cup ThreadAt, MirrorCard(t, next)
      PROVE  /\ pc' = [pc EXCEPT ![t] = "insert"] /\ ret' = [ret EXCEPT ![t] = next]
             /\ \A u \in Writers : u # t => own'[u] = own[u]
             /\ changed' = changed /\ saved' = saved /\ known' = known /\ kind' = kind
  BY <1>2 DEF MirrorCard, CallInsert, TypeOK, slot
<1>3. CASE Token
  <2>1. kind \notin Calling
    BY <1>3 DEF OneWriter, Token, TokenInsert, TokenRemove, TokenMoves
  <2> QED BY <1>3, <2>1 DEF Token, TokenInsert, TokenRemove, readerVars, slot
<1>4. CASE Start
  BY <1>1, <1>4 DEF Start, Untouched, TypeOK, emulVars, slot, MainAt, ThreadAt
<1>5. CASE StartMirror
  <2>1. MirrorCard(Main, "init_series") /\ "init_series" \in MainAt
    BY <1>5 DEF StartMirror, MainAt
  <2> QED BY <1>1, <1>2, <1>5, <2>1 DEF StartMirror, TypeOK
<1>6. CASE InitSeries
  BY <1>1, <1>6 DEF InitSeries, CallInsert, Goto, Untouched, TypeOK, slot, MainAt
<1>7. CASE InitDrop
  BY <1>1, <1>7 DEF InitDrop, DropOwn, Untouched, TypeOK, slot, MainAt, ThreadAt
<1>8. CASE Wake
  BY <1>1, <1>8 DEF Wake, Goto, Untouched, TypeOK, slot, ThreadAt
<1>9. CASE AddReader
  BY <1>1, <1>9 DEF AddReader, Untouched, TypeOK
<1>10. CASE Look
  BY <1>1, <1>10 DEF Look, CallInsert, Goto, Untouched, TypeOK, slot, ThreadAt
<1>11. CASE Mirror
  <2>1. MirrorCard(EventThread, "same") /\ "same" \in ThreadAt
    BY <1>11 DEF Mirror, ThreadAt
  <2> QED BY <1>1, <1>2, <1>11, <2>1 DEF Mirror, TypeOK
<1>12. CASE Same
  BY <1>1, <1>12 DEF Same, DropOwn, Goto, Untouched, TypeOK, slot, ThreadAt
<1>13. CASE Gone
  BY <1>1, <1>13 DEF Gone, Goto, Untouched, TypeOK, slot, ThreadAt
<1>14. CASE Application
  BY <1>1, <1>14
  DEF Application, ForceRemove, ForceInsert, Replay, MayCall, CallInsert, CallQueueCardEvent,
      Goto, Untouched, TypeOK, slot, MainAt
<1>15. CASE ReinsertSaved
  BY <1>1, <1>15 DEF ReinsertSaved, CallInsert, Untouched, TypeOK, slot, MainAt
<1>16. CASE ReinsertToken
  BY <1>1, <1>16 DEF ReinsertToken, Goto, Untouched, TypeOK, emulVars, slot, MainAt
<1>17. CASE Remirror
  <2>1. MirrorCard(Main, "drop") /\ "drop" \in MainAt
    BY <1>17 DEF Remirror, MainAt
  <2> QED BY <1>1, <1>2, <1>17, <2>1 DEF Remirror, TypeOK
<1>18. CASE Drop
  BY <1>1, <1>18 DEF Drop, DropOwn, Goto, Untouched, TypeOK, slot, MainAt
<1> QED BY <1>3, <1>4, <1>5, <1>6, <1>7, <1>8, <1>9, <1>10, <1>11, <1>12, <1>13, <1>14, <1>15,
           <1>16, <1>17, <1>18
        DEF Initialise, EventThreadStep, ApplicationStep

(* ... and the steps of vreader.c and event.c *)
LEMMA ReaderTurns ==
    ASSUME TypeOK, Turns, Owned, UNCHANGED emulVars,
           \/ ConsumerStep
           \/ \E t \in Writers : WriterStep(t)
           \/ \E u \in Users : UserStep(u)
    PROVE  Turns' /\ Owned'
<1> USE WriterAssumption DEF Turns, Owned, At, emulVars, slot
<1>1. CASE pc' = pc /\ ret' = ret
  BY <1>1
<1>2. ASSUME NEW t \in Writers, InsertCard(t) \/ QueueEvent(t) PROVE Turns' /\ Owned'
  <2>1. /\ ret' = ret /\ pc[t] \in {"insert", "event"}
        /\ pc' = [pc EXCEPT ![t] = "event"] \/ pc' = [pc EXCEPT ![t] = ret[t]]
    BY <1>2 DEF InsertCard, QueueEvent
  <2>2. \A u \in Writers : At(u)' = At(u)
    BY <2>1 DEF TypeOK, MainAt, ThreadAt
  <2>3. \A u \in Writers : u # t => pc'[u] = pc[u]
    BY <2>1 DEF TypeOK
  <2> HIDE DEF At
  <2>4. Main \in Writers /\ EventThread \in Writers /\ Main # EventThread
    OBVIOUS
  <2> QED BY <2>1, <2>2, <2>3, <2>4
<1>3. ASSUME NEW t \in Writers, ReadType(t) \/ ReadCard(t) PROVE pc' = pc /\ ret' = ret
  BY <1>3 DEF ReadType, ReadCard
<1>4. ConsumerStep \/ (\E u \in Users : UserStep(u)) => pc' = pc /\ ret' = ret
  BY DEF ConsumerStep, WaitNextEvent, DeleteEvent, UserStep, GetCard, FreeCard
<1> QED BY <1>1, <1>2, <1>3, <1>4 DEF WriterStep

-----------------------------------------------------------------------------
(* What the writers put into the reader and tell of it *)
LEMMA EmulLinked ==
    ASSUME OneWriter, TypeOK, Turns, Owned, Linked,
           Token \/ Initialise \/ EventThreadStep \/ Application \/ ApplicationStep
    PROVE  Linked'
<1> USE WriterAssumption DEF Linked
<1>1. Main \in Writers /\ EventThread \in Writers /\ Main # EventThread
  OBVIOUS
<1>2. ASSUME NEW t \in Writers, NEW next \in MainAt \cup ThreadAt, MirrorCard(t, next),
             pc[t] \notin {"insert", "event"}, t = Main \/ kind \notin Calling
      PROVE  Linked'
  <2>1. PICK c \in CardOrNull :
          /\ pc' = [pc EXCEPT ![t] = "insert"]
          /\ arg' = [arg EXCEPT ![t] = c] /\ own' = [own EXCEPT ![t] = c]
          /\ card' = card /\ evcard' = evcard /\ kind' = kind
    BY <1>2, Made DEF slot
  <2> QED BY <1>1, <1>2, <2>1 DEF TypeOK
<1>3. CASE Token
  BY <1>3 DEF Token, TokenInsert, TokenRemove, readerVars, slot
<1>4. CASE Start
  BY <1>1, <1>4 DEF Start, Turns, Untouched, TypeOK, emulVars, slot
<1>5. CASE StartMirror
  <2>1. MirrorCard(Main, "init_series") /\ "init_series" \in MainAt /\ pc[Main] = "start_mirror"
    BY <1>5 DEF StartMirror, MainAt
  <2> QED BY <1>1, <1>2, <2>1
<1>6. CASE InitSeries
  BY <1>1, <1>6 DEF InitSeries, CallInsert, Goto, Untouched, TypeOK, slot
<1>7. CASE InitDrop
  BY <1>1, <1>7 DEF InitDrop, Turns, DropOwn, Untouched, TypeOK, slot
<1>8. CASE Wake
  BY <1>1, <1>8 DEF Wake, Goto, Untouched, TypeOK, slot
<1>9. CASE AddReader
  BY <1>1, <1>9 DEF AddReader, Untouched, TypeOK
<1>10. CASE Look
  <2>1. kind \notin Calling
    BY <1>10 DEF Look, Turns
  <2> QED BY <1>1, <1>10, <2>1 DEF Look, CallInsert, Goto, Untouched, TypeOK, slot
<1>11. CASE Mirror
  <2>1. /\ MirrorCard(EventThread, "same") /\ "same" \in ThreadAt
        /\ pc[EventThread] = "mirror" /\ kind \notin Calling
    BY <1>11 DEF Mirror, ThreadAt, Turns
  <2> QED BY <1>1, <1>2, <2>1
<1>12. CASE Same
  BY <1>1, <1>12 DEF Same, DropOwn, Goto, Untouched, TypeOK, slot
<1>13. CASE Gone
  BY <1>1, <1>13 DEF Gone, Goto, Untouched, TypeOK, slot
<1>14. CASE Application
  <2>1. CASE ForceRemove
    BY <1>1, <2>1 DEF ForceRemove, MayCall, CallInsert, Untouched, TypeOK, slot
  <2>2. CASE ForceInsert
    BY <1>1, <2>2 DEF ForceInsert, MayCall, Goto, Untouched, TypeOK, slot
  <2>3. CASE Replay
    BY <1>1, <2>3 DEF Replay, MayCall, CallQueueCardEvent, Untouched, TypeOK, slot
  <2> QED BY <1>14, <2>1, <2>2, <2>3 DEF Application
<1>15. CASE ReinsertSaved
  BY <1>1, <1>15 DEF ReinsertSaved, CallInsert, Untouched, TypeOK, slot
<1>16. CASE ReinsertToken
  BY <1>1, <1>16 DEF ReinsertToken, Goto, Untouched, TypeOK, emulVars, slot
<1>17. CASE Remirror
  <2>1. MirrorCard(Main, "drop") /\ "drop" \in MainAt /\ pc[Main] = "remirror"
    BY <1>17 DEF Remirror, MainAt
  <2> QED BY <1>1, <1>2, <2>1
<1>18. CASE Drop
  BY <1>1, <1>18 DEF Drop, DropOwn, Goto, Untouched, TypeOK, slot
<1> QED BY <1>3, <1>4, <1>5, <1>6, <1>7, <1>8, <1>9, <1>10, <1>11, <1>12, <1>13, <1>14, <1>15,
           <1>16, <1>17, <1>18
        DEF Initialise, EventThreadStep, ApplicationStep

(* Nobody else is between its change and its event when a writer changes   *)
(* what is in the reader *)
LEMMA Alone ==
    ASSUME TypeOK, Turns, NEW t \in Writers, pc[t] \in {"insert", "event"}
    PROVE  /\ \A u \in Writers \ {t} : pc[u] \notin {"insert", "event"}
           /\ kind \in Calling => t = Main
BY WriterAssumption DEF Turns, TypeOK

LEMMA ReaderLinked ==
    ASSUME TypeOK, Turns, Linked, UNCHANGED emulVars,
           \/ ConsumerStep
           \/ \E t \in Writers : WriterStep(t)
           \/ \E u \in Users : UserStep(u)
    PROVE  Linked'
<1> USE WriterAssumption DEF Linked, emulVars, slot
<1>1. CASE pc' = pc /\ arg' = arg /\ card' = card /\ evcard' = evcard
  BY <1>1
<1>2. ASSUME NEW t \in Writers, InsertCard(t) PROVE Linked'
  <2>1. /\ \A u \in Writers \ {t} : pc[u] \notin {"insert", "event"}
        /\ kind \in Calling => t = Main
    BY <1>2, Alone DEF InsertCard
  <2> QED BY <1>2, <2>1 DEF InsertCard, SwapCard, TypeOK
<1>3. ASSUME NEW t \in Writers, QueueEvent(t) PROVE Linked'
  <2>1. ret[t] \notin {"insert", "event"}
    BY DEF TypeOK, MainAt, ThreadAt
  <2> QED BY <1>3, <2>1 DEF QueueEvent, TypeOK
<1>4. ASSUME NEW t \in Writers, ReadCard(t) PROVE Linked'
  BY <1>4 DEF ReadCard, TypeOK
<1>5. ASSUME NEW t \in Writers, ReadType(t)
      PROVE  pc' = pc /\ arg' = arg /\ card' = card /\ evcard' = evcard
  BY <1>5 DEF ReadType
<1>6. ConsumerStep \/ (\E u \in Users : UserStep(u))
        => pc' = pc /\ arg' = arg /\ card' = card /\ evcard' = evcard
  BY DEF ConsumerStep, WaitNextEvent, DeleteEvent, UserStep, GetCard, FreeCard
<1> QED BY <1>1, <1>2, <1>3, <1>4, <1>5, <1>6 DEF WriterStep

-----------------------------------------------------------------------------
(* The order of the events queued: the steps of the emulator that queue    *)
(* nothing *)
LEMMA QuietOrder ==
    ASSUME TypeOK, Turns, ReaderFirst, LastTold, UNCHANGED <<card, queue, told>>,
           ~known' <=> ~known, ~known => pc'[EventThread] = pc[EventThread],
           pc'[Main] = "start" => pc[Main] = "start", ret'[Main] # "start",
           (\A t \in Writers : pc'[t] # "event") => \A t \in Writers : pc[t] # "event"
    PROVE  ReaderFirst' /\ LastTold'
<1>1. ReaderFirst'
  BY DEF ReaderFirst
<1>2. Leading' = Leading
  BY DEF Leading
<1> QED BY <1>1, <1>2 DEF LastTold

(* ... and those that queue the event of the reader *)
LEMMA ReaderInsertOrder ==
    ASSUME TypeOK, Turns, ReaderFirst, LastTold, pc[Main] = "start" \/ ~known,
           queue' = vevent_queue(queue, [type |-> "READER_INSERT", card |-> None]),
           UNCHANGED <<card, told>>, known', pc'[Main] # "start", ret' = ret
    PROVE  ReaderFirst' /\ LastTold'
<1>1. queue = <<>> /\ card = None /\ told.card = None
  BY DEF ReaderFirst
<1>2. queue' = <<[type |-> "READER_INSERT", card |-> None]>>
  BY <1>1 DEF vevent_queue
<1>3. ReaderFirst'
  BY <1>2 DEF ReaderFirst
<1>4. Leading' = 1 /\ Len(queue') = 1
  BY <1>2 DEF Leading
<1> QED BY <1>1, <1>3, <1>4 DEF LastTold

LEMMA EmulOrder ==
    ASSUME TypeOK, Turns, ReaderFirst, LastTold,
           Token \/ Initialise \/ EventThreadStep \/ Application \/ ApplicationStep
    PROVE  ReaderFirst' /\ LastTold'
<1> USE WriterAssumption
<1>1. Main \in Writers /\ EventThread \in Writers /\ Main # EventThread
  OBVIOUS
<1>4. ~known => pc[EventThread] = "wait" /\ pc[Main] = "idle" /\ ret[Main] # "start"
  BY DEF ReaderFirst, Turns
<1>2. CASE Start
  BY <1>1, <1>2, <1>4, ReaderInsertOrder DEF Start, ReaderFirst, Untouched, TypeOK, emulVars, slot
<1>3. CASE AddReader
  <2>1. pc[Main] # "start"
    BY <1>3 DEF AddReader, Turns
  <2> QED BY <1>3, <2>1, ReaderInsertOrder DEF AddReader, Untouched
<1>5. ASSUME NEW t \in Writers, NEW next \in {"init_series", "same", "drop"}, MirrorCard(t, next),
             pc[t] # "event", known
      PROVE  ReaderFirst' /\ LastTold'
  <2>1. /\ UNCHANGED <<card, queue, told>> /\ known' = known
        /\ pc' = [pc EXCEPT ![t] = "insert"] /\ ret' = [ret EXCEPT ![t] = next]
    BY <1>5 DEF MirrorCard, CallInsert, Untouched, slot
  <2>2. ret'[Main] # "start"
    BY <1>1, <1>5, <2>1 DEF TypeOK, ReaderFirst
  <2> QED BY <1>1, <1>5, <2>1, <2>2, QuietOrder DEF TypeOK
<1>6. CASE Token
  BY <1>4, <1>6, QuietOrder DEF Token, TokenInsert, TokenRemove, readerVars, slot, ReaderFirst
<1>7. CASE StartMirror \/ Mirror \/ Remirror
  <2>1. known
    BY <1>4, <1>7 DEF StartMirror, Mirror, Remirror
  <2>2. \E t \in Writers : \E next \in {"init_series", "same", "drop"} :
            MirrorCard(t, next) /\ pc[t] # "event"
    BY <1>1, <1>7 DEF StartMirror, Mirror, Remirror
  <2> QED BY <1>5, <2>1, <2>2
<1>8. CASE InitSeries
  BY <1>1, <1>4, <1>8, QuietOrder
  DEF InitSeries, CallInsert, Goto, Untouched, TypeOK, slot, ReaderFirst
<1>9. CASE InitDrop
  <2>1. pc[EventThread] \in {"off", "wait"}
    BY <1>9 DEF InitDrop, Turns
  <2> QED BY <1>1, <1>4, <1>9, <2>1, QuietOrder
          DEF InitDrop, DropOwn, Untouched, TypeOK, slot, ReaderFirst
<1>10. CASE Wake
  BY <1>1, <1>4, <1>10, QuietOrder DEF Wake, Goto, Untouched, TypeOK, slot, ReaderFirst
<1>11. CASE Look
  BY <1>1, <1>4, <1>11, QuietOrder DEF Look, CallInsert, Goto, Untouched, TypeOK, slot, ReaderFirst
<1>12. CASE Same
  BY <1>1, <1>4, <1>12, QuietOrder DEF Same, DropOwn, Goto, Untouched, TypeOK, slot, ReaderFirst
<1>13. CASE Gone
  BY <1>1, <1>4, <1>13, QuietOrder DEF Gone, Goto, Untouched, TypeOK, slot, ReaderFirst
<1>14. CASE ForceRemove
  BY <1>1, <1>14, QuietOrder
  DEF ForceRemove, MayCall, CallInsert, Untouched, TypeOK, slot, ReaderFirst
<1>15. CASE ForceInsert
  BY <1>1, <1>15, QuietOrder DEF ForceInsert, MayCall, Goto, Untouched, TypeOK, slot, ReaderFirst
<1>16. CASE Replay
  BY <1>1, <1>16, QuietOrder
  DEF Replay, MayCall, CallQueueCardEvent, Untouched, TypeOK, slot, ReaderFirst
<1>17. CASE ReinsertSaved
  BY <1>1, <1>4, <1>17, QuietOrder
  DEF ReinsertSaved, CallInsert, Untouched, TypeOK, slot, ReaderFirst
<1>18. CASE ReinsertToken
  BY <1>1, <1>4, <1>18, QuietOrder
  DEF ReinsertToken, Goto, Untouched, TypeOK, emulVars, slot, ReaderFirst
<1>19. CASE Drop
  BY <1>1, <1>4, <1>19, QuietOrder DEF Drop, DropOwn, Goto, Untouched, TypeOK, slot, ReaderFirst
<1> QED BY <1>2, <1>3, <1>6, <1>7, <1>8, <1>9, <1>10, <1>11, <1>12, <1>13, <1>14, <1>15,
           <1>16, <1>17, <1>18, <1>19
        DEF Initialise, EventThreadStep, Application, ApplicationStep

(* A card event comes last, a delivered one is the last the consumer was   *)
(* told of *)
LEMMA ReaderOrder ==
    ASSUME TypeOK, Turns, Linked, ReaderFirst, LastTold, UNCHANGED emulVars,
           \/ ConsumerStep
           \/ \E t \in Writers : WriterStep(t)
           \/ \E u \in Users : UserStep(u)
    PROVE  ReaderFirst' /\ LastTold'
<1> USE WriterAssumption DEF emulVars, slot
<1>1. ASSUME UNCHANGED <<card, queue, told, pc, ret>> PROVE ReaderFirst' /\ LastTold'
  BY <1>1, QuietOrder DEF ReaderFirst
<1>3. ASSUME NEW t \in Writers, pc[t] \in {"insert", "event"}
      PROVE  known /\ pc[Main] # "start" /\ (t # Main => pc[Main] = "idle")
  BY <1>3 DEF Turns, ReaderFirst
<1>4. ASSUME NEW t \in Writers, InsertCard(t) PROVE ReaderFirst' /\ LastTold'
  <2>1. /\ known' /\ pc' = [pc EXCEPT ![t] = "event"] /\ UNCHANGED <<queue, told, ret>>
    BY <1>3, <1>4 DEF InsertCard
  <2>2. pc'[Main] # "start" /\ pc'[t] = "event"
    BY <1>3, <1>4, <2>1 DEF InsertCard, TypeOK
  <2> QED BY <2>1, <2>2 DEF ReaderFirst, LastTold
<1>5. ASSUME NEW t \in Writers, QueueEvent(t) PROVE ReaderFirst' /\ LastTold'
  <2> DEFINE e == [type |-> evtype[t], card |-> evcard[t]]
  <2>1. /\ known /\ pc' = [pc EXCEPT ![t] = ret[t]] /\ ret[Main] # "start"
        /\ ret' = ret /\ told' = told /\ card' = card
        /\ queue' = Append(queue, e)
    BY <1>3, <1>5 DEF QueueEvent, vevent_queue, ReaderFirst
  <2>2. e.type # "READER_INSERT" /\ e.card = card /\ e \in Event
    BY <1>5 DEF QueueEvent, TypeOK, Linked, Event, Type
  <2>3. pc'[Main] # "start"
    BY <1>3, <1>5, <2>1 DEF QueueEvent, TypeOK
  <2> HIDE DEF e
  <2>4. /\ Len(queue') = Len(queue) + 1 /\ queue'[Len(queue')] = e
        /\ \A i \in DOMAIN queue : queue'[i] = queue[i]
        /\ DOMAIN queue' = 1 .. Len(queue) + 1 /\ DOMAIN queue = 1 .. Len(queue)
        /\ Len(queue) \in Nat /\ queue' # <<>>
    BY <2>1, <2>2 DEF TypeOK
  <2>5. ReaderFirst'
    BY <2>1, <2>2, <2>3, <2>4 DEF ReaderFirst
  <2>6. Len(queue') # Leading'
    BY <2>2, <2>4 DEF Leading
  <2> QED BY <2>1, <2>2, <2>4, <2>5, <2>6 DEF LastTold
<1>6. ASSUME WaitNextEvent PROVE ReaderFirst' /\ LastTold'
  <2>1. /\ queue # <<>> /\ queue' = Tail(queue) /\ Head(queue) = queue[1]
        /\ Len(queue) \in Nat \ {0} /\ Len(queue') = Len(queue) - 1
        /\ \A i \in 1 .. Len(queue) - 1 : queue'[i] = queue[i + 1]
        /\ DOMAIN queue' = 1 .. Len(queue) - 1 /\ DOMAIN queue = 1 .. Len(queue)
    BY <1>6 DEF WaitNextEvent, TypeOK
  <2>2. /\ told' = IF queue[1].type = "READER_INSERT" THEN told ELSE queue[1]
        /\ UNCHANGED <<card, pc, ret>>
    BY <1>6, <2>1 DEF WaitNextEvent
  <2>3. ReaderFirst'
    BY <2>1, <2>2 DEF ReaderFirst
  <2>4. Leading' = 0
    BY <2>1 DEF Leading, ReaderFirst
  <2>5. LastTold'
    <3>1. CASE Len(queue) = 1
      BY <2>1, <2>2, <2>4, <3>1 DEF LastTold, Leading
    <3>2. CASE Len(queue) # 1
      <4>1. queue'[Len(queue')] = queue[Len(queue)] /\ Len(queue') # Leading'
        BY <2>1, <2>4, <3>2
      <4>2. Len(queue) # Leading
        BY <2>1, <3>2 DEF Leading
      <4> QED BY <2>2, <4>1, <4>2 DEF LastTold
    <3> QED BY <3>1, <3>2
  <2> QED BY <2>3, <2>5
<1>7. ASSUME NEW t \in Writers, ReadType(t) \/ ReadCard(t)
      PROVE  UNCHANGED <<card, queue, told, pc, ret>>
  BY <1>7 DEF ReadType, ReadCard
<1>8. DeleteEvent \/ (\E u \in Users : UserStep(u)) => UNCHANGED <<card, queue, told, pc, ret>>
  BY DEF DeleteEvent, UserStep, GetCard, FreeCard
<1> QED BY <1>1, <1>4, <1>5, <1>6, <1>7, <1>8 DEF ConsumerStep, WriterStep

-----------------------------------------------------------------------------
(* The owners of a card, one kind of owner at a time *)
EventCard == IF event = None THEN None ELSE event.card
Holding(c) ==
    Is(card, c) + Is(saved, c) + Is(EventCard, c) + QueueCount(queue, c)
    + HolderCount(Users, held, c) + HolderCount(Writers, own, c)

LEMMA WritersFinite == IsFiniteSet(Writers)
<1>1. IsFiniteSet({EventThread}) /\ IsFiniteSet({Main})
  BY FS_Singleton
<1>2. IsFiniteSet({EventThread} \cup {Main})
  BY <1>1, FS_Union
<1>3. Writers = {EventThread} \cup {Main}
  BY WriterAssumption
<1> QED BY <1>2, <1>3

LEMMA HolderCountNat ==
    ASSUME NEW S, IsFiniteSet(S), NEW f \in [S -> CardOrNull], NEW c \in Cards
    PROVE  /\ HolderCount(S, f, c) \in Nat
           /\ \A x \in S : f[x] = c => HolderCount(S, f, c) >= 1
<1> DEFINE A == {x \in S : f[x] = c}
<1>1. A \in SUBSET S
  OBVIOUS
<1> HIDE DEF A
<1>2. Cardinality(A) \in Nat /\ (Cardinality(A) = 0 <=> A = {})
  BY <1>1, FS_Subset, FS_CardinalityType, FS_EmptySet
<1> QED BY <1>2 DEF A, HolderCount

LEMMA CountForm ==
    /\ CountExact <=> \A c \in Cards : refs[c] = Holding(c) /\ (c \in freed => refs[c] = 0)
    /\ CountExact' <=> \A c \in Cards : refs'[c] = Holding(c)' /\ (c \in freed' => refs'[c] = 0)
<1>1. \A c \in Cards : c # None
  BY PointerAssumption
<1>2. \A c \in Cards : Holders(c) = Holding(c)
  BY <1>1 DEF Holders, Holding, EventCard, QueueCount, HolderCount, Is
<1>3. \A c \in Cards : Holders(c)' = Holding(c)'
  BY <1>1 DEF Holders, Holding, EventCard, QueueCount, HolderCount, Is
<1> QED BY <1>2, <1>3 DEF CountExact

(* The parts are natural numbers *)
LEMMA HoldingParts ==
    ASSUME TypeOK, NEW c \in Cards
    PROVE  /\ QueueCount(queue, c) \in Nat /\ HolderCount(Users, held, c) \in Nat
           /\ HolderCount(Writers, own, c) \in Nat /\ Holding(c) \in Nat
<1>1. /\ QueueCount(queue, c) \in Nat /\ HolderCount(Users, held, c) \in Nat
      /\ HolderCount(Writers, own, c) \in Nat
  BY QueueCountNat, HolderCountNat, WritersFinite, UsersAssumption DEF TypeOK
<1>2. Is(card, c) \in {0, 1} /\ Is(saved, c) \in {0, 1} /\ Is(EventCard, c) \in {0, 1}
  BY IsValue
<1> QED BY <1>1, <1>2 DEF Holding

(* A card that is owned is alive *)
LEMMA Alive ==
    ASSUME TypeOK, CountExact, NEW c \in Cards,
           \/ card = c \/ saved = c \/ EventCard = c
           \/ \E i \in DOMAIN queue : queue[i].card = c
           \/ \E u \in Users : held[u] = c
           \/ \E t \in Writers : own[t] = c
    PROVE  c \notin freed /\ refs[c] >= 1
<1>1. /\ Is(card, c) \in Nat /\ Is(saved, c) \in Nat /\ Is(EventCard, c) \in Nat
      /\ card = c => Is(card, c) = 1
      /\ saved = c => Is(saved, c) = 1
      /\ EventCard = c => Is(EventCard, c) = 1
  BY IsValue
<1>2. /\ QueueCount(queue, c) \in Nat
      /\ \A i \in DOMAIN queue : queue[i].card = c => QueueCount(queue, c) >= 1
  <2> DEFINE S == {i \in DOMAIN queue : queue[i].card = c}
  <2>1. IsFiniteSet(S) /\ QueueCount(queue, c) \in Nat /\ QueueCount(queue, c) = Cardinality(S)
    BY QueueCountNat DEF TypeOK, QueueCount
  <2>2. \A i \in DOMAIN queue : queue[i].card = c => i \in S
    OBVIOUS
  <2> HIDE DEF S
  <2>3. S # {} => Cardinality(S) # 0
    BY <2>1, FS_EmptySet
  <2> QED BY <2>1, <2>2, <2>3
<1>3. /\ HolderCount(Users, held, c) \in Nat /\ HolderCount(Writers, own, c) \in Nat
      /\ \A u \in Users : held[u] = c => HolderCount(Users, held, c) >= 1
      /\ \A t \in Writers : own[t] = c => HolderCount(Writers, own, c) >= 1
  BY HolderCountNat, WritersFinite, UsersAssumption DEF TypeOK
<1>4. Holding(c) >= 1
  BY <1>1, <1>2, <1>3 DEF Holding
<1> QED BY <1>4, CountForm

(* A reference made with its owner, one freed with its owner *)
LEMMA GainCount ==
    ASSUME TypeOK, CountExact, NEW d \in CardOrNull, d \notin freed,
           \A c \in Cards : Holding(c)' = Holding(c) + Is(d, c),
           refs' = vcard_reference(refs, d), freed' = freed
    PROVE  CountExact'
<1> SUFFICES ASSUME NEW c \in Cards
             PROVE  refs'[c] = Holding(c)' /\ (c \in freed' => refs'[c] = 0)
  BY CountForm
<1>1. refs[c] = Holding(c) /\ (c \in freed => refs[c] = 0) /\ refs[c] \in Int
  BY CountForm DEF TypeOK
<1>2. CASE d = c
  <2>1. refs'[c] = refs[c] + 1
    BY <1>2, PointerAssumption DEF vcard_reference, TypeOK
  <2> QED BY <1>1, <1>2, <2>1, IsValue
<1>3. CASE d # c
  <2>1. refs'[c] = refs[c]
    BY <1>3 DEF vcard_reference, TypeOK, CardOrNull
  <2>2. Is(d, c) = 0
    BY <1>3, IsValue
  <2> QED BY <1>1, <2>1, <2>2
<1> QED BY <1>2, <1>3

LEMMA LoseCount ==
    ASSUME TypeOK, CountExact, NEW d \in CardOrNull,
           \A c \in Cards : Holding(c)' + Is(d, c) = Holding(c) /\ Holding(c)' \in Nat,
           refs' = vcard_free(refs, d), freed' = freed \cup Destroyed(refs, d)
    PROVE  CountExact'
<1> SUFFICES ASSUME NEW c \in Cards
             PROVE  refs'[c] = Holding(c)' /\ (c \in freed' => refs'[c] = 0)
  BY CountForm
<1>1. refs[c] = Holding(c) /\ (c \in freed => refs[c] = 0) /\ refs[c] \in Int
  BY CountForm DEF TypeOK
<1>2. CASE d = c
  <2>1. refs'[c] = refs[c] - 1 /\ freed' = freed \cup (IF refs[c] = 1 THEN {c} ELSE {})
    BY <1>2, PointerAssumption DEF vcard_free, Destroyed, TypeOK
  <2>2. Is(d, c) = 1
    BY <1>2, IsValue
  <2> QED BY <1>1, <2>1, <2>2
<1>3. CASE d # c
  <2>1. refs'[c] = refs[c] /\ (c \in freed' => c \in freed)
    BY <1>3 DEF vcard_free, Destroyed, TypeOK, CardOrNull
  <2>2. Is(d, c) = 0
    BY <1>3, IsValue
  <2> QED BY <1>1, <2>1, <2>2
<1> QED BY <1>2, <1>3

(* What a change of one owner does to the sum *)
LEMMA OwnChange ==
    ASSUME TypeOK, NEW t \in Writers, NEW d \in CardOrNull, own' = [own EXCEPT ![t] = d],
           UNCHANGED <<card, saved, event, queue, held>>, NEW c \in Cards
    PROVE  Holding(c)' + Is(own[t], c) = Holding(c) + Is(d, c) /\ Holding(c)' \in Nat
<1>1. /\ HolderCount(Writers, own', c) + Is(own[t], c) = HolderCount(Writers, own, c) + Is(d, c)
      /\ HolderCount(Writers, own, c) \in Nat /\ HolderCount(Writers, own', c) \in Nat
  BY ExceptCount, WritersFinite DEF TypeOK
<1>2. QueueCount(queue, c) \in Nat /\ HolderCount(Users, held, c) \in Nat
  BY HoldingParts
<1>3. /\ Is(card, c) \in Nat /\ Is(saved, c) \in Nat /\ Is(EventCard, c) \in Nat
      /\ Is(own[t], c) \in Nat /\ Is(d, c) \in Nat
  BY IsValue
<1>4. /\ HolderCount(Writers, own, c)' = HolderCount(Writers, own', c)
      /\ HolderCount(Users, held, c)' = HolderCount(Users, held, c)
      /\ QueueCount(queue, c)' = QueueCount(queue, c)
      /\ Is(card, c)' = Is(card, c) /\ Is(saved, c)' = Is(saved, c)
      /\ Is(EventCard, c)' = Is(EventCard, c)
  BY DEF HolderCount, QueueCount, EventCard, Is
<1> QED BY <1>1, <1>2, <1>3, <1>4 DEF Holding

LEMMA HeldChange ==
    ASSUME TypeOK, NEW u \in Users, NEW d \in CardOrNull, held' = [held EXCEPT ![u] = d],
           UNCHANGED <<card, saved, event, queue, own>>, NEW c \in Cards
    PROVE  Holding(c)' + Is(held[u], c) = Holding(c) + Is(d, c) /\ Holding(c)' \in Nat
<1>1. /\ HolderCount(Users, held', c) + Is(held[u], c) = HolderCount(Users, held, c) + Is(d, c)
      /\ HolderCount(Users, held, c) \in Nat /\ HolderCount(Users, held', c) \in Nat
  BY ExceptCount, UsersAssumption DEF TypeOK
<1>2. QueueCount(queue, c) \in Nat /\ HolderCount(Writers, own, c) \in Nat
  BY HoldingParts
<1>3. /\ Is(card, c) \in Nat /\ Is(saved, c) \in Nat /\ Is(EventCard, c) \in Nat
      /\ Is(held[u], c) \in Nat /\ Is(d, c) \in Nat
  BY IsValue
<1>4. /\ HolderCount(Users, held, c)' = HolderCount(Users, held', c)
      /\ HolderCount(Writers, own, c)' = HolderCount(Writers, own, c)
      /\ QueueCount(queue, c)' = QueueCount(queue, c)
      /\ Is(card, c)' = Is(card, c) /\ Is(saved, c)' = Is(saved, c)
      /\ Is(EventCard, c)' = Is(EventCard, c)
  BY DEF HolderCount, QueueCount, EventCard, Is
<1>5. Holding(c)' = Is(card, c) + Is(saved, c) + Is(EventCard, c) + QueueCount(queue, c)
                    + HolderCount(Users, held', c) + HolderCount(Writers, own, c)
  BY <1>4 DEF Holding
<1> QED BY <1>1, <1>2, <1>3, <1>5 DEF Holding

LEMMA QueueChange ==
    ASSUME TypeOK, NEW e \in Event, queue' = Append(queue, e),
           UNCHANGED <<card, saved, event, held, own>>, NEW c \in Cards
    PROVE  Holding(c)' = Holding(c) + Is(e.card, c)
<1>1. QueueCount(queue', c) = QueueCount(queue, c) + Is(e.card, c)
  BY AppendCount DEF TypeOK
<1>2. /\ QueueCount(queue, c) \in Nat /\ HolderCount(Writers, own, c) \in Nat
      /\ HolderCount(Users, held, c) \in Nat
  BY HoldingParts
<1>3. /\ Is(card, c) \in Nat /\ Is(saved, c) \in Nat /\ Is(EventCard, c) \in Nat
      /\ Is(e.card, c) \in Nat
  BY IsValue
<1>4. /\ HolderCount(Users, held, c)' = HolderCount(Users, held, c)
      /\ HolderCount(Writers, own, c)' = HolderCount(Writers, own, c)
      /\ QueueCount(queue, c)' = QueueCount(queue', c)
      /\ Is(card, c)' = Is(card, c) /\ Is(saved, c)' = Is(saved, c)
      /\ Is(EventCard, c)' = Is(EventCard, c)
  BY DEF HolderCount, QueueCount, EventCard, Is
<1> QED BY <1>1, <1>2, <1>3, <1>4 DEF Holding

(* Nobody's ownership changes *)
LEMMA KeepCount ==
    ASSUME CountExact, UNCHANGED <<card, saved, event, queue, held, own, refs, freed>>
    PROVE  CountExact'
<1>1. \A c \in Cards : Holders(c)' = Holders(c)
  BY DEF Holders
<1> QED BY <1>1 DEF CountExact

(* The event of the reader itself holds no card *)
LEMMA ReaderInsertCount ==
    ASSUME TypeOK, CountExact, UNCHANGED <<card, saved, event, held, own, refs, freed>>,
           queue' = vevent_queue(queue, [type |-> "READER_INSERT", card |-> None])
    PROVE  CountExact'
<1> DEFINE e == [type |-> "READER_INSERT", card |-> None]
<1>1. e \in Event /\ e.card = None /\ queue' = Append(queue, e)
  BY DEF Event, Type, CardOrNull, vevent_queue
<1> HIDE DEF e
<1>2. \A c \in Cards : Holding(c)' = Holding(c) + Is(e.card, c)
  BY <1>1, QueueChange
<1>3. \A c \in Cards : Is(e.card, c) = 0 /\ Holding(c) \in Nat
  BY <1>1, IsValue, HoldingParts, PointerAssumption
<1>4. \A c \in Cards : Holding(c)' = Holding(c)
  BY <1>2, <1>3
<1> QED BY <1>4, CountForm

(* The caller's reference is freed *)
LEMMA DropCount ==
    ASSUME TypeOK, CountExact, NEW t \in Writers, DropOwn(t),
           UNCHANGED <<card, saved, event, queue, held>>
    PROVE  CountExact'
<1>1. own[t] \in CardOrNull /\ None \in CardOrNull
  BY DEF TypeOK, CardOrNull
<1>2. ASSUME NEW c \in Cards
      PROVE  Holding(c)' + Is(own[t], c) = Holding(c) /\ Holding(c)' \in Nat
  <2>1. Holding(c)' + Is(own[t], c) = Holding(c) + Is(None, c) /\ Holding(c)' \in Nat
    BY <1>1, OwnChange DEF DropOwn
  <2>2. Is(None, c) = 0 /\ Holding(c) \in Nat
    BY IsValue, PointerAssumption, HoldingParts
  <2> QED BY <2>1, <2>2
<1> QED BY <1>1, <1>2, LoseCount DEF DropOwn

(* A writer that owned nothing references a card *)
LEMMA TakeCount ==
    ASSUME TypeOK, CountExact, NEW t \in Writers, own[t] = None, NEW d \in CardOrNull,
           d \notin freed, own' = [own EXCEPT ![t] = d], refs' = vcard_reference(refs, d),
           UNCHANGED <<card, saved, event, queue, held, freed>>
    PROVE  CountExact'
<1>1. ASSUME NEW c \in Cards PROVE Holding(c)' = Holding(c) + Is(d, c)
  <2>1. Holding(c)' + Is(own[t], c) = Holding(c) + Is(d, c) /\ Holding(c)' \in Nat
    BY OwnChange
  <2>2. Is(own[t], c) = 0
    BY IsValue, PointerAssumption
  <2> QED BY <2>1, <2>2
<1> QED BY <1>1, GainCount

LEMMA EmulCount ==
    ASSUME TypeOK, Turns, Owned, CountExact,
           Token \/ Initialise \/ EventThreadStep \/ Application \/ ApplicationStep
    PROVE  CountExact'
<1> USE WriterAssumption
<1>1. Main \in Writers /\ EventThread \in Writers /\ Main # EventThread
  OBVIOUS
<1>2. None \notin freed
  BY PointerAssumption DEF TypeOK
<1>3. ASSUME NEW t \in Writers, NEW next \in MainAt \cup ThreadAt, MirrorCard(t, next),
             own[t] = None
      PROVE  CountExact'
  <2>1. PICK c \in CardOrNull :
          /\ c # None => c \notin freed
          /\ own' = [own EXCEPT ![t] = c] /\ refs' = vcard_reference(refs, c)
          /\ UNCHANGED <<card, saved, event, queue, held, freed>>
    BY <1>3, Made
  <2> QED BY <1>2, <1>3, <2>1, TakeCount
<1>4. CASE Token
  BY <1>4, KeepCount DEF Token, TokenInsert, TokenRemove, readerVars
<1>5. CASE Start
  BY <1>5, ReaderInsertCount DEF Start, Untouched, emulVars
<1>6. CASE StartMirror \/ Mirror \/ Remirror
  <2>1. \E t \in Writers : \E next \in {"init_series", "same", "drop"} :
            MirrorCard(t, next) /\ own[t] = None
    BY <1>1, <1>6 DEF StartMirror, Mirror, Remirror, Owned, At
  <2> QED BY <1>3, <2>1 DEF MainAt, ThreadAt
<1>7. CASE InitSeries
  BY <1>7, KeepCount DEF InitSeries, Untouched
<1>8. CASE InitDrop
  <2>1. CASE kind = "soft"
    <3>1. /\ saved' = own[Main] /\ own' = [own EXCEPT ![Main] = None]
          /\ UNCHANGED <<card, event, queue, held, refs, freed>>
      BY <1>8, <2>1 DEF InitDrop, Untouched
    <3>2. saved = None
      BY <1>8 DEF InitDrop, Owned, At
    <3>3. ASSUME NEW c \in Cards PROVE Holding(c)' = Holding(c)
      <4>1. /\ HolderCount(Writers, own', c) + Is(own[Main], c)
                 = HolderCount(Writers, own, c) + Is(None, c)
            /\ HolderCount(Writers, own, c) \in Nat /\ HolderCount(Writers, own', c) \in Nat
        <5>1. None \in CardOrNull /\ own \in [Writers -> CardOrNull]
          BY DEF CardOrNull, TypeOK
        <5> QED BY <1>1, <3>1, <5>1, ExceptCount, WritersFinite
      <4>2. QueueCount(queue, c) \in Nat /\ HolderCount(Users, held, c) \in Nat
        BY HoldingParts
      <4>3. /\ Is(card, c) \in Nat /\ Is(EventCard, c) \in Nat /\ Is(own[Main], c) \in Nat
            /\ Is(None, c) = 0 /\ Is(saved, c) = 0
        BY <3>2, IsValue, PointerAssumption
      <4>4. /\ HolderCount(Writers, own, c)' = HolderCount(Writers, own', c)
            /\ HolderCount(Users, held, c)' = HolderCount(Users, held, c)
            /\ QueueCount(queue, c)' = QueueCount(queue, c)
            /\ Is(card, c)' = Is(card, c) /\ Is(saved, c)' = Is(own[Main], c)
            /\ Is(EventCard, c)' = Is(EventCard, c)
        BY <3>1 DEF HolderCount, QueueCount, EventCard, Is
      <4> QED BY <4>1, <4>2, <4>3, <4>4 DEF Holding
    <3> QED BY <3>1, <3>3, CountForm
  <2>2. CASE kind # "soft"
    BY <1>1, <1>8, <2>2, DropCount DEF InitDrop, Untouched
  <2> QED BY <2>1, <2>2
<1>9. CASE Wake
  BY <1>9, KeepCount DEF Wake, Untouched
<1>10. CASE AddReader
  BY <1>10, ReaderInsertCount DEF AddReader, Untouched
<1>11. CASE Look
  BY <1>11, KeepCount DEF Look, Untouched
<1>12. CASE Same
  BY <1>1, <1>12, DropCount DEF Same, Untouched
<1>13. CASE Gone
  BY <1>13, KeepCount DEF Gone, Untouched
<1>14. CASE Application
  BY <1>14, KeepCount DEF Application, ForceRemove, ForceInsert, Replay, MayCall, Untouched
<1>15. CASE ReinsertSaved
  <2>1. own[Main] = None /\ saved \in CardOrNull /\ saved \notin freed
    BY <1>15, Alive DEF ReinsertSaved, Owned, At, TypeOK, CardOrNull
  <2> QED BY <1>1, <1>15, <2>1, TakeCount DEF ReinsertSaved, Untouched
<1>16. CASE ReinsertToken
  BY <1>16, KeepCount DEF ReinsertToken, Untouched, emulVars
<1>17. CASE Drop
  BY <1>1, <1>17, DropCount DEF Drop, Untouched
<1> QED BY <1>4, <1>5, <1>6, <1>7, <1>8, <1>9, <1>10, <1>11, <1>12, <1>13, <1>14, <1>15,
           <1>16, <1>17
        DEF Initialise, EventThreadStep, ApplicationStep

(* The card that goes into the reader is the caller's, so that it outlives *)
(* the one it takes the place of even when they are the same *)
LEMMA InsertCount ==
    ASSUME TypeOK, Linked, CountExact, UNCHANGED emulVars, NEW t \in Writers, InsertCard(t)
    PROVE  CountExact'
<1>1. /\ card' = arg[t] /\ refs' = vcard_reference(vcard_free(refs, card), arg[t])
      /\ freed' = freed \cup Destroyed(refs, card)
      /\ UNCHANGED <<saved, event, queue, held, own>>
  BY DEF InsertCard, SwapCard, emulVars
<1>2. arg[t] \in {None, own[t]} /\ arg[t] \in CardOrNull /\ card \in CardOrNull
  BY DEF InsertCard, Linked, TypeOK
<1> SUFFICES ASSUME NEW c \in Cards
             PROVE  refs'[c] = Holding(c)' /\ (c \in freed' => refs'[c] = 0)
  BY CountForm
<1>3. /\ refs[c] = Holding(c) /\ (c \in freed => refs[c] = 0) /\ refs[c] \in Int
      /\ c # None /\ refs \in [Cards -> Int]
  BY CountForm, PointerAssumption DEF TypeOK
<1>4. /\ QueueCount(queue, c) \in Nat /\ HolderCount(Users, held, c) \in Nat
      /\ HolderCount(Writers, own, c) \in Nat
      /\ own[t] = c => HolderCount(Writers, own, c) >= 1
  BY HoldingParts, HolderCountNat, WritersFinite DEF TypeOK
<1>5. Is(saved, c) \in Nat /\ Is(EventCard, c) \in Nat
  BY IsValue
<1>6. /\ HolderCount(Writers, own, c)' = HolderCount(Writers, own, c)
      /\ HolderCount(Users, held, c)' = HolderCount(Users, held, c)
      /\ QueueCount(queue, c)' = QueueCount(queue, c)
      /\ Is(card, c)' = Is(arg[t], c) /\ Is(saved, c)' = Is(saved, c)
      /\ Is(EventCard, c)' = Is(EventCard, c)
  BY <1>1 DEF HolderCount, QueueCount, EventCard, Is
<1> DEFINE others == Is(saved, c) + Is(EventCard, c) + QueueCount(queue, c)
                     + HolderCount(Users, held, c) + HolderCount(Writers, own, c)
<1>7. others \in Nat /\ (own[t] = c => others >= 1)
  BY <1>4, <1>5
<1>8. Holding(c) = Is(card, c) + others /\ Holding(c)' = Is(arg[t], c) + others
  <2>1. Is(card, c) \in Nat /\ Is(arg[t], c) \in Nat
    BY IsValue
  <2>2. Holding(c)' = Is(arg[t], c) + Is(saved, c) + Is(EventCard, c) + QueueCount(queue, c)
                      + HolderCount(Users, held, c) + HolderCount(Writers, own, c)
    BY <1>6 DEF Holding
  <2> QED BY <1>4, <1>5, <2>1, <2>2 DEF Holding
<1> HIDE DEF others
<1>9. CASE card = c /\ arg[t] = c
  <2>1. Is(card, c) = 1 /\ Is(arg[t], c) = 1
    BY <1>9, IsValue
  <2>2. refs[c] = others + 1 /\ others >= 1
    BY <1>2, <1>3, <1>7, <1>8, <1>9, <2>1
  <2>3. refs'[c] = refs[c] /\ freed' = freed
    BY <1>1, <1>3, <1>7, <1>9, <2>2 DEF vcard_reference, vcard_free, Destroyed
  <2> QED BY <1>3, <1>7, <1>8, <2>1, <2>2, <2>3
<1>10. CASE card = c /\ arg[t] # c
  <2>1. Is(card, c) = 1 /\ Is(arg[t], c) = 0
    BY <1>10, IsValue
  <2>2. refs[c] = others + 1
    BY <1>3, <1>7, <1>8, <2>1
  <2>3. refs'[c] = refs[c] - 1 /\ (c \in freed' => c \in freed \/ refs[c] = 1)
    BY <1>1, <1>2, <1>3, <1>10 DEF vcard_reference, vcard_free, Destroyed, CardOrNull
  <2> QED BY <1>3, <1>7, <1>8, <2>1, <2>2, <2>3
<1>11. CASE card # c /\ arg[t] = c
  <2>1. Is(card, c) = 0 /\ Is(arg[t], c) = 1
    BY <1>11, IsValue
  <2>2. refs[c] = others /\ others >= 1
    BY <1>2, <1>3, <1>7, <1>8, <1>11, <2>1
  <2>3. refs'[c] = refs[c] + 1 /\ (c \in freed' => c \in freed)
    BY <1>1, <1>2, <1>3, <1>11 DEF vcard_reference, vcard_free, Destroyed, CardOrNull
  <2> QED BY <1>3, <1>7, <1>8, <2>1, <2>2, <2>3
<1>12. CASE card # c /\ arg[t] # c
  <2>1. Is(card, c) = 0 /\ Is(arg[t], c) = 0
    BY <1>12, IsValue
  <2>2. refs'[c] = refs[c] /\ (c \in freed' => c \in freed)
    BY <1>1, <1>2, <1>3, <1>12 DEF vcard_reference, vcard_free, Destroyed, CardOrNull
  <2> QED BY <1>3, <1>7, <1>8, <2>1, <2>2
<1> QED BY <1>9, <1>10, <1>11, <1>12

LEMMA ReaderCount ==
    ASSUME TypeOK, Linked, CountExact, UNCHANGED emulVars,
           \/ ConsumerStep
           \/ \E t \in Writers : WriterStep(t)
           \/ \E u \in Users : UserStep(u)
    PROVE  CountExact'
<1> USE DEF emulVars, slot
<1>1. None \in CardOrNull /\ \A c \in Cards : Is(None, c) = 0
  BY IsValue, PointerAssumption DEF CardOrNull
<1>2. ASSUME NEW t \in Writers, QueueEvent(t) PROVE CountExact'
  <2> DEFINE e == [type |-> evtype[t], card |-> evcard[t]]
  <2>1. /\ refs' = vcard_reference(refs, evcard[t]) /\ queue' = Append(queue, e)
        /\ UNCHANGED <<card, saved, event, held, own, freed>>
    BY <1>2 DEF QueueEvent, EventReference, vevent_queue
  <2>2. evcard[t] = card /\ e.card = card /\ e \in Event /\ card \in CardOrNull
    BY <1>2 DEF QueueEvent, Linked, TypeOK, Event, Type
  <2>3. card \notin freed
    BY <2>2, Alive, PointerAssumption DEF CardOrNull, TypeOK
  <2> HIDE DEF e
  <2>4. \A c \in Cards : Holding(c)' = Holding(c) + Is(card, c)
    BY <2>1, <2>2, QueueChange
  <2> QED BY <2>1, <2>2, <2>3, <2>4, GainCount
<1>3. ASSUME WaitNextEvent PROVE CountExact'
  <2>1. /\ event = None /\ queue # <<>> /\ event' = Head(queue) /\ queue' = Tail(queue)
        /\ UNCHANGED <<card, saved, held, own, refs, freed>>
    BY <1>3 DEF WaitNextEvent
  <2>2. Head(queue) \in Event /\ Head(queue) # None
    BY <2>1, EventAssumption DEF TypeOK
  <2>3. ASSUME NEW c \in Cards PROVE Holding(c)' = Holding(c)
    <3>1. /\ QueueCount(queue, c) = QueueCount(Tail(queue), c) + Is(Head(queue).card, c)
          /\ QueueCount(Tail(queue), c) \in Nat
      BY <2>1, TailCount DEF TypeOK
    <3>2. HolderCount(Writers, own, c) \in Nat /\ HolderCount(Users, held, c) \in Nat
      BY HoldingParts
    <3>3. /\ Is(card, c) \in Nat /\ Is(saved, c) \in Nat /\ Is(Head(queue).card, c) \in Nat
          /\ Is(EventCard, c) = 0
      BY <1>1, <2>1, IsValue DEF EventCard
    <3>4. Holding(c)' = Is(card, c) + Is(saved, c) + Is(Head(queue).card, c)
                        + QueueCount(Tail(queue), c) + HolderCount(Users, held, c)
                        + HolderCount(Writers, own, c)
      BY <2>1, <2>2 DEF Holding, HolderCount, QueueCount, EventCard, Is
    <3> QED BY <3>1, <3>2, <3>3, <3>4 DEF Holding
  <2> QED BY <2>1, <2>3, CountForm
<1>4. ASSUME DeleteEvent PROVE CountExact'
  <2>1. /\ event # None /\ event' = None /\ refs' = vcard_free(refs, event.card)
        /\ freed' = freed \cup Destroyed(refs, event.card)
        /\ UNCHANGED <<card, saved, queue, held, own>>
    BY <1>4 DEF DeleteEvent
  <2>2. event.card \in CardOrNull /\ EventCard = event.card
    BY <2>1 DEF TypeOK, Event, EventCard
  <2>3. ASSUME NEW c \in Cards
        PROVE  Holding(c)' + Is(event.card, c) = Holding(c) /\ Holding(c)' \in Nat
    <3>1. /\ HolderCount(Writers, own, c) \in Nat /\ HolderCount(Users, held, c) \in Nat
          /\ QueueCount(queue, c) \in Nat
      BY HoldingParts
    <3>2. Is(card, c) \in Nat /\ Is(saved, c) \in Nat /\ Is(event.card, c) \in Nat
      BY IsValue
    <3>3. Holding(c)' = Is(card, c) + Is(saved, c) + Is(None, c) + QueueCount(queue, c)
                        + HolderCount(Users, held, c) + HolderCount(Writers, own, c)
      BY <2>1 DEF Holding, HolderCount, QueueCount, EventCard, Is
    <3>4. Is(None, c) = 0
      BY <1>1
    <3>5. Holding(c) = Is(card, c) + Is(saved, c) + Is(event.card, c) + QueueCount(queue, c)
                       + HolderCount(Users, held, c) + HolderCount(Writers, own, c)
      BY <2>2 DEF Holding
    <3> QED BY <3>1, <3>2, <3>3, <3>4, <3>5
  <2> QED BY <2>1, <2>2, <2>3, LoseCount
<1>5. ASSUME NEW u \in Users, GetCard(u) PROVE CountExact'
  <2>1. /\ held[u] = None /\ card \in CardOrNull /\ card \notin freed
        /\ refs' = vcard_reference(refs, card) /\ held' = [held EXCEPT ![u] = card]
        /\ UNCHANGED <<card, saved, event, queue, own, freed>>
    BY <1>5, Alive DEF GetCard, UserReference, TypeOK, CardOrNull
  <2>2. ASSUME NEW c \in Cards PROVE Holding(c)' = Holding(c) + Is(card, c)
    <3>1. Holding(c)' + Is(held[u], c) = Holding(c) + Is(card, c) /\ Holding(c)' \in Nat
      BY <2>1, HeldChange
    <3> QED BY <1>1, <2>1, <3>1
  <2> QED BY <2>1, <2>2, GainCount
<1>6. ASSUME NEW u \in Users, FreeCard(u) PROVE CountExact'
  <2>1. /\ held[u] \in CardOrNull /\ refs' = vcard_free(refs, held[u])
        /\ freed' = freed \cup Destroyed(refs, held[u]) /\ held' = [held EXCEPT ![u] = None]
        /\ UNCHANGED <<card, saved, event, queue, own>>
    BY <1>6 DEF FreeCard, TypeOK
  <2>2. ASSUME NEW c \in Cards
        PROVE  Holding(c)' + Is(held[u], c) = Holding(c) /\ Holding(c)' \in Nat
    <3>1. Holding(c)' + Is(held[u], c) = Holding(c) + Is(None, c) /\ Holding(c)' \in Nat
      BY <1>1, <2>1, HeldChange
    <3> QED BY <1>1, <3>1, HoldingParts
  <2> QED BY <2>1, <2>2, LoseCount
<1>7. ASSUME NEW t \in Writers, ReadType(t) \/ ReadCard(t) PROVE CountExact'
  BY <1>7, KeepCount DEF ReadType, ReadCard
<1> QED BY <1>2, <1>3, <1>4, <1>5, <1>6, <1>7, InsertCount
        DEF ConsumerStep, WriterStep, UserStep

-----------------------------------------------------------------------------
(* The start: nothing is owned, queued or told *)
LEMMA InitIInv == ASSUME OneWriter, Init PROVE IInv
<1> USE PointerAssumption, WriterAssumption, InstanceAssumption
<1>1. TypeOK
  BY InitTypeOK
<1>2. Main \in Writers /\ EventThread \in Writers /\ Main # EventThread
  OBVIOUS
<1>3. /\ pc[Main] = IF kind = "new" THEN "idle" ELSE "start"
      /\ pc[EventThread] = IF kind = "new" THEN "wait" ELSE "off"
      /\ ret = [t \in Writers |-> "off"] /\ own = [t \in Writers |-> None]
      /\ evcard = [t \in Writers |-> Unread] /\ arg = [t \in Writers |-> None]
      /\ \A t \in Writers : pc[t] \notin {"insert", "event"}
  BY <1>2 DEF Init, vreader_new
<1>4. /\ card = None /\ queue = <<>> /\ event = None /\ told.card = None /\ saved = None
      /\ (kind = "new" => kind \notin Calling) /\ (changed <=> kind = "new")
      /\ (known <=> kind # "new")
  BY DEF Init, vreader_new
<1>5. Turns
  BY <1>2, <1>3, <1>4 DEF Turns, At, MainAt, ThreadAt
<1>6. Owned
  BY <1>2, <1>3, <1>4 DEF Owned
<1>7. Linked
  BY <1>2, <1>3, <1>4 DEF Linked
<1>8. ReaderFirst
  BY <1>2, <1>3, <1>4 DEF ReaderFirst
<1>9. LastTold
  BY <1>4 DEF LastTold, Leading
<1>10. CountExact
  <2> SUFFICES ASSUME NEW c \in Cards
               PROVE  refs[c] = Holding(c) /\ (c \in freed => refs[c] = 0)
    BY CountForm
  <2>1. refs[c] = 0 /\ held = [u \in Users |-> None]
    BY DEF Init, vreader_new
  <2>2. Is(card, c) = 0 /\ Is(saved, c) = 0 /\ Is(EventCard, c) = 0
    BY <1>4, IsValue DEF EventCard
  <2>3. /\ {i \in DOMAIN queue : queue[i].card = c} = {}
        /\ {u \in Users : held[u] = c} = {} /\ {t \in Writers : own[t] = c} = {}
    BY <1>3, <1>4, <2>1
  <2>4. Cardinality({}) = 0
    BY FS_EmptySet
  <2>5. /\ QueueCount(queue, c) = 0 /\ HolderCount(Users, held, c) = 0
        /\ HolderCount(Writers, own, c) = 0
    BY <2>3, <2>4 DEF QueueCount, HolderCount
  <2> QED BY <2>1, <2>2, <2>5 DEF Holding
<1> QED BY <1>1, <1>5, <1>6, <1>7, <1>8, <1>9, <1>10 DEF IInv

(* Every step keeps the invariant *)
LEMMA NextIInv == ASSUME OneWriter, IInv, [Next]_vars PROVE IInv'
<1> USE DEF IInv
<1>1. TypeOK'
  BY NextTypeOK
<1>2. CASE Token \/ Initialise \/ EventThreadStep \/ Application \/ ApplicationStep
  BY <1>1, <1>2, EmulTurns, EmulLinked, EmulOrder, EmulCount
<1>3. CASE /\ UNCHANGED emulVars
           /\ \/ ConsumerStep
              \/ \E t \in Writers : WriterStep(t)
              \/ \E u \in Users : UserStep(u)
  BY <1>1, <1>3, ReaderTurns, ReaderLinked, ReaderOrder, ReaderCount
<1>4. CASE UNCHANGED vars
  BY <1>1, <1>4, KeepCount
  DEF vars, readerVars, emulVars, slot, Turns, Owned, At, Linked, ReaderFirst, LastTold, Leading
<1> QED BY <1>2, <1>3, <1>4 DEF Next

LEMMA Invariance == ASSUME OneWriter PROVE Spec => []IInv
<1>1. Init => IInv
  BY InitIInv
<1>2. IInv /\ [Next]_vars => IInv'
  BY NextIInv
<1> QED BY <1>1, <1>2, PTL DEF Spec

LEMMA QueuedTypes == ASSUME TypeOK PROVE \A i \in DOMAIN queue : queue[i].card \in CardOrNull
<1>1. \A i \in DOMAIN queue : queue[i] \in Event
  BY DEF TypeOK
<1>2. \A e \in Event : e.card \in CardOrNull
  BY DEF Event
<1> QED BY <1>1, <1>2

(* vcard_reference and vcard_free are paired: the count of every card is   *)
(* the number of its owners, so that no card leaks and none is freed twice *)
THEOREM CountAlwaysExact == ASSUME OneWriter PROVE Spec => []CountExact
<1>1. IInv => CountExact
  BY DEF IInv
<1> QED BY <1>1, Invariance, PTL

(* Nothing in a reader, in its queue or in the threads that use it points  *)
(* to a card that vcard_free has destroyed *)
THEOREM PointersAlwaysAlive == ASSUME OneWriter PROVE Spec => []PointersAlive
<1>1. ASSUME IInv PROVE PointersAlive
  <2>1. TypeOK /\ CountExact /\ Linked
    BY <1>1 DEF IInv
  <2>2. None \notin freed /\ Unread \notin freed
    BY <2>1, PointerAssumption DEF TypeOK
  <2>3. card \notin freed /\ saved \notin freed
    BY <2>1, <2>2, Alive DEF TypeOK, CardOrNull
  <2>4. ASSUME NEW i \in DOMAIN queue PROVE queue[i].card \notin freed
    <3>1. queue[i].card \in CardOrNull
      BY <2>1, <2>4, QueuedTypes
    <3> QED BY <2>1, <2>2, <3>1, Alive DEF CardOrNull
  <2>5. event # None => event.card \notin freed
    <3>1. event # None => EventCard = event.card /\ event.card \in CardOrNull
      BY <2>1 DEF EventCard, TypeOK, Event
    <3> QED BY <2>1, <2>2, <3>1, Alive DEF CardOrNull
  <2>6. ASSUME NEW u \in Users PROVE held[u] \notin freed
    <3>1. held[u] \in CardOrNull
      BY <2>1 DEF TypeOK
    <3> QED BY <2>1, <2>2, <3>1, Alive DEF CardOrNull
  <2>7. ASSUME NEW t \in Writers
        PROVE  /\ own[t] \notin freed /\ evcard[t] \notin freed
               /\ pc[t] = "insert" => arg[t] \notin freed
    <3>1. own[t] \in CardOrNull
      BY <2>1 DEF TypeOK
    <3>2. own[t] \notin freed
      BY <2>1, <2>2, <3>1, Alive DEF CardOrNull
    <3> QED BY <2>1, <2>2, <2>3, <3>2 DEF Linked
  <2> QED BY <2>3, <2>4, <2>5, <2>6, <2>7 DEF PointersAlive
<1> QED BY <1>1, Invariance, PTL

(* The cards of the queued card events, behind the event of the reader *)
LEMMA QueuedForm ==
    ASSUME TypeOK
    PROVE  /\ Len(queue) \in Nat /\ Leading \in {0, 1} /\ Leading <= Len(queue)
           /\ QueuedCards \in Seq(CardOrNull) /\ Len(QueuedCards) = Len(queue) - Leading
           /\ \A i \in 1 .. Len(queue) - Leading : QueuedCards[i] = queue[i + Leading].card
<1> DEFINE n == Len(queue) - Leading
<1>1. Len(queue) \in Nat /\ Leading \in {0, 1} /\ Leading <= Len(queue) /\ n \in Nat
  BY DEF TypeOK, Leading
<1>2. QueuedCards = [i \in 1 .. n |-> queue[i + Leading].card]
  BY DEF QueuedCards
<1>3. \A i \in 1 .. n : i + Leading \in DOMAIN queue
  BY <1>1 DEF TypeOK
<1> HIDE DEF n
<1>4. QueuedCards \in Seq(CardOrNull) /\ Len(QueuedCards) = n
  BY <1>1, <1>2, <1>3, QueuedTypes
<1> QED BY <1>1, <1>2, <1>4 DEF n

(* vreader_queue_card_event: when no writer is at work, the last event     *)
(* queued or told says what the reader holds *)
THEOREM LastEventAlwaysTellsState == ASSUME OneWriter PROVE Spec => []LastEventTellsState
<1>1. ASSUME IInv PROVE LastEventTellsState
  <2>1. SUFFICES ASSUME AtRest PROVE History[Len(History)] = card
    BY DEF LastEventTellsState
  <2>2. card = IF Len(queue) = Leading THEN told.card ELSE queue[Len(queue)].card
    BY <1>1, <2>1 DEF AtRest, IInv, LastTold
  <2>3. /\ Len(queue) \in Nat /\ Leading \in {0, 1} /\ Leading <= Len(queue)
        /\ QueuedCards \in Seq(CardOrNull) /\ Len(QueuedCards) = Len(queue) - Leading
        /\ \A i \in 1 .. Len(queue) - Leading : QueuedCards[i] = queue[i + Leading].card
    BY <1>1, QueuedForm DEF IInv
  <2> DEFINE n == Len(queue) - Leading
  <2>4. n \in Nat /\ Len(QueuedCards) = n /\ QueuedCards \in Seq(CardOrNull)
    BY <2>3
  <2>6. told.card \in CardOrNull
    BY <1>1 DEF IInv, TypeOK, Event
  <2>7. Len(History) = n + 1 /\ History[n + 1] = IF n = 0 THEN told.card ELSE QueuedCards[n]
    BY <2>4, <2>6 DEF History
  <2>8. CASE n = 0
    BY <2>2, <2>3, <2>7, <2>8 DEF n
  <2>9. CASE n # 0
    <3>1. QueuedCards[n] = queue[n + Leading].card /\ n + Leading = Len(queue)
      BY <2>3, <2>9 DEF n
    <3>2. Len(queue) # Leading
      BY <2>3, <2>9 DEF n
    <3> QED BY <2>2, <2>7, <2>9, <3>1, <3>2
  <2> QED BY <2>8, <2>9
<1> QED BY <1>1, Invariance, PTL

-----------------------------------------------------------------------------
(* The refinement of ReaderEvents.  Changes are owed to the application    *)
(* from vreader_insert_card, or from a replay, until they are delivered. *)
LEMMA OwedForm ==
    /\ Linked => Owed = QueuedCards \o (IF Unqueued = {} THEN <<>> ELSE <<card>>)
    /\ Linked' => Owed' = QueuedCards' \o (IF Unqueued' = {} THEN <<>> ELSE <<card'>>)
<1>1. Unqueued # {} => (CHOOSE t \in Unqueued : TRUE) \in Unqueued
  OBVIOUS
<1>2. Unqueued' # {} => (CHOOSE t \in Unqueued' : TRUE) \in Unqueued'
  OBVIOUS
<1>3. ASSUME Linked, Unqueued # {} PROVE arg[CHOOSE t \in Unqueued : TRUE] = card
  BY <1>1, <1>3 DEF Unqueued, Linked
<1>4. ASSUME Linked', Unqueued' # {} PROVE arg'[CHOOSE t \in Unqueued' : TRUE] = card'
  BY <1>2, <1>4 DEF Unqueued, Linked
<1> QED BY <1>3, <1>4 DEF Owed

ToldStep == [Told!Next]_(Told!vars)

(* No change is owed or delivered *)
LEMMA NothingOwed ==
    ASSUME Linked, Linked', UNCHANGED <<card, told>>, QueuedCards' = QueuedCards,
           Unqueued' = Unqueued
    PROVE  ToldStep
<1>1. Owed' = Owed
  BY OwedForm
<1> QED BY <1>1 DEF ToldStep, Told!vars

(* A change is owed as soon as it is made *)
LEMMA ChangeOwed ==
    ASSUME TypeOK, TypeOK', Linked, Linked', told' = told, QueuedCards' = QueuedCards,
           Unqueued = {}, Unqueued' # {}
    PROVE  ToldStep
<1>1. QueuedCards \in Seq(CardOrNull) /\ card' \in CardOrNull
  BY QueuedForm DEF TypeOK
<1>2. Owed = QueuedCards /\ Owed' = Append(QueuedCards, card')
  BY <1>1, OwedForm
<1>3. Told!Change(card')
  BY <1>2 DEF Told!Change
<1> QED BY <1>1, <1>3 DEF ToldStep, Told!Next, CardOrNull

(* The steps of the emulator: only a replay owes the application a change *)
LEMMA EmulTold ==
    ASSUME IInv, IInv',
           Token \/ Initialise \/ EventThreadStep \/ Application \/ ApplicationStep
    PROVE  ToldStep
<1> USE WriterAssumption DEF IInv
<1>1. Main \in Writers /\ EventThread \in Writers /\ Main # EventThread
  OBVIOUS
<1>2. ASSUME UNCHANGED <<card, told, queue>>,
             \A t \in Writers : pc'[t] = "event" <=> pc[t] = "event"
      PROVE  ToldStep
  <2>1. QueuedCards' = QueuedCards /\ Unqueued' = Unqueued
    BY <1>2 DEF QueuedCards, Leading, Unqueued
  <2> QED BY <1>2, <2>1, NothingOwed
<1>3. ASSUME queue = <<>>,
             queue' = vevent_queue(queue, [type |-> "READER_INSERT", card |-> None])
      PROVE  QueuedCards' = QueuedCards
  <2>1. queue' = <<[type |-> "READER_INSERT", card |-> None]>>
    BY <1>3 DEF vevent_queue
  <2>2. Leading = 0 /\ Leading' = 1 /\ Len(queue) = 0 /\ Len(queue') = 1
    BY <1>3, <2>1 DEF Leading
  <2> QED BY <2>2 DEF QueuedCards
<1>4. CASE Token
  BY <1>2, <1>4 DEF Token, TokenInsert, TokenRemove, readerVars
<1>5. CASE Start
  <2>1. UNCHANGED <<card, told>> /\ QueuedCards' = QueuedCards
    BY <1>3, <1>5 DEF Start, Untouched, ReaderFirst
  <2>2. \A t \in Writers : pc[t] # "event" /\ pc'[t] # "event"
    BY <1>1, <1>5 DEF Start, Turns, TypeOK
  <2>3. Unqueued' = Unqueued
    BY <2>2 DEF Unqueued
  <2> QED BY <2>1, <2>3, NothingOwed
<1>6. CASE AddReader
  <2>1. UNCHANGED <<card, told>> /\ QueuedCards' = QueuedCards
    BY <1>3, <1>6 DEF AddReader, Untouched, ReaderFirst
  <2>2. Unqueued' = Unqueued
    BY <1>6 DEF AddReader, Unqueued
  <2> QED BY <2>1, <2>2, NothingOwed
<1>7. CASE StartMirror \/ Mirror \/ Remirror
  BY <1>1, <1>2, <1>7 DEF StartMirror, Mirror, Remirror, MirrorCard, CallInsert, Untouched, TypeOK
<1>8. CASE InitSeries
  BY <1>1, <1>2, <1>8 DEF InitSeries, CallInsert, Goto, Untouched, TypeOK
<1>9. CASE InitDrop
  BY <1>1, <1>2, <1>9 DEF InitDrop, Turns, Untouched, TypeOK
<1>10. CASE Wake \/ Look \/ Same \/ Gone
  BY <1>1, <1>2, <1>10 DEF Wake, Look, Same, Gone, CallInsert, Goto, Untouched, TypeOK
<1>11. CASE ForceRemove \/ ForceInsert
  BY <1>1, <1>2, <1>11 DEF ForceRemove, ForceInsert, MayCall, CallInsert, Goto, Untouched, TypeOK
<1>12. CASE Replay
  <2>1. /\ UNCHANGED <<card, told, queue>> /\ pc[Main] = "idle" /\ kind \in Calling
        /\ pc' = [pc EXCEPT ![Main] = "event"]
    BY <1>12 DEF Replay, MayCall, CallQueueCardEvent, Untouched
  <2>2. Unqueued = {} /\ Main \in Unqueued'
    BY <1>1, <2>1 DEF Unqueued, Turns, TypeOK
  <2>3. QueuedCards' = QueuedCards
    BY <2>1 DEF QueuedCards, Leading
  <2> QED BY <2>1, <2>2, <2>3, ChangeOwed
<1>13. CASE ReinsertSaved \/ ReinsertToken \/ Drop
  BY <1>1, <1>2, <1>13
  DEF ReinsertSaved, ReinsertToken, Drop, CallInsert, Goto, Untouched, TypeOK
<1> QED BY <1>4, <1>5, <1>6, <1>7, <1>8, <1>9, <1>10, <1>11, <1>12, <1>13
        DEF Initialise, EventThreadStep, Application, ApplicationStep

(* A card event is appended to the cards queued *)
LEMMA QueuedAppend ==
    ASSUME TypeOK, ReaderFirst, NEW e \in Event, e.type # "READER_INSERT",
           queue' = Append(queue, e)
    PROVE  QueuedCards' = Append(QueuedCards, e.card)
<1>1. Leading' = Leading
  BY DEF TypeOK, Leading
<1>2. /\ Len(queue) \in Nat /\ Leading \in {0, 1} /\ Leading <= Len(queue)
      /\ QueuedCards = [i \in 1 .. Len(queue) - Leading |-> queue[i + Leading].card]
      /\ QueuedCards' = [i \in 1 .. Len(queue) + 1 - Leading |-> queue'[i + Leading].card]
  BY <1>1, QueuedForm DEF QueuedCards, TypeOK
<1>3. /\ \A i \in 1 .. Len(queue) : queue'[i] = queue[i]
      /\ queue'[Len(queue) + 1] = e
  BY DEF TypeOK
<1> DEFINE n == Len(queue) - Leading
<1>4. n \in Nat /\ Len(QueuedCards) = n /\ QueuedCards \in Seq(CardOrNull)
  BY <1>2, QueuedForm
<1>5. QueuedCards' = [i \in 1 .. n + 1 |-> IF i = n + 1 THEN e.card ELSE QueuedCards[i]]
  <2>1. \A i \in 1 .. n : i + Leading \in 1 .. Len(queue)
    BY <1>2
  <2>2. n + 1 + Leading = Len(queue) + 1 /\ Len(queue) + 1 - Leading = n + 1
    BY <1>2
  <2>3. \A i \in 1 .. n + 1 :
            queue'[i + Leading].card = IF i = n + 1 THEN e.card ELSE QueuedCards[i]
    BY <1>2, <1>3, <2>1, <2>2
  <2> QED BY <1>2, <2>2, <2>3
<1> HIDE DEF n
<1>6. Append(QueuedCards, e.card)
        = [i \in 1 .. n + 1 |-> IF i = n + 1 THEN e.card ELSE QueuedCards[i]]
  BY <1>4
<1> QED BY <1>5, <1>6

(* What vevent_wait_next_vevent takes: the event of the reader, or the     *)
(* oldest of the cards queued *)
LEMMA QueuedTail ==
    ASSUME TypeOK, ReaderFirst, queue # <<>>, queue' = Tail(queue)
    PROVE  /\ Leading = 1 => QueuedCards' = QueuedCards
           /\ Leading = 0 => /\ QueuedCards # <<>> /\ Head(QueuedCards) = queue[1].card
                             /\ QueuedCards' = Tail(QueuedCards)
<1>1. /\ Len(queue) \in Nat \ {0} /\ Len(queue') = Len(queue) - 1 /\ queue' \in Seq(Event)
      /\ \A i \in 1 .. Len(queue) - 1 : queue'[i] = queue[i + 1]
      /\ DOMAIN queue = 1 .. Len(queue) /\ DOMAIN queue' = 1 .. Len(queue) - 1
  BY DEF TypeOK
<1>2. Leading' = 0
  BY <1>1 DEF Leading, ReaderFirst
<1>3. QueuedCards' = [i \in 1 .. Len(queue) - 1 |-> queue[i + 1].card]
  BY <1>1, <1>2 DEF QueuedCards
<1>4. CASE Leading = 1
  <2>1. QueuedCards = [i \in 1 .. Len(queue) - Leading |-> queue[i + Leading].card]
    BY DEF QueuedCards
  <2>2. QueuedCards = [i \in 1 .. Len(queue) - 1 |-> queue[i + 1].card]
    BY <1>4, <2>1, Zenon
  <2> QED BY <1>3, <1>4, <2>2
<1>5. CASE Leading = 0
  <2>1. /\ QueuedCards \in Seq(CardOrNull) /\ Len(QueuedCards) = Len(queue)
        /\ \A i \in 1 .. Len(queue) : QueuedCards[i] = queue[i].card
    BY <1>1, <1>5, QueuedForm
  <2>2. QueuedCards # <<>> /\ Head(QueuedCards) = QueuedCards[1]
    BY <1>1, <2>1
  <2>3. /\ Tail(QueuedCards) \in Seq(CardOrNull)
        /\ DOMAIN Tail(QueuedCards) = 1 .. Len(queue) - 1
        /\ \A i \in 1 .. Len(queue) - 1 : Tail(QueuedCards)[i] = queue[i + 1].card
    BY <1>1, <2>1
  <2>4. Tail(QueuedCards) = [i \in 1 .. Len(queue) - 1 |-> Tail(QueuedCards)[i]]
    <3>1. \A q \in Seq(CardOrNull) : q = [i \in DOMAIN q |-> q[i]]
      OBVIOUS
    <3> HIDE DEF QueuedCards
    <3> QED BY <2>3, <3>1
  <2>5. Tail(QueuedCards) = [i \in 1 .. Len(queue) - 1 |-> queue[i + 1].card]
    BY <2>3, <2>4
  <2> QED BY <1>1, <1>3, <1>5, <2>1, <2>2, <2>5
<1> QED BY <1>4, <1>5 DEF Leading

LEMMA ReaderTold ==
    ASSUME IInv, IInv', UNCHANGED emulVars,
           \/ ConsumerStep
           \/ \E t \in Writers : WriterStep(t)
           \/ \E u \in Users : UserStep(u)
    PROVE  ToldStep
<1> USE WriterAssumption DEF IInv
<1>1. ASSUME UNCHANGED <<card, told, queue, pc>> PROVE ToldStep
  <2>1. QueuedCards' = QueuedCards /\ Unqueued' = Unqueued
    BY <1>1 DEF QueuedCards, Leading, Unqueued
  <2> QED BY <1>1, <2>1, NothingOwed
<1>2. ASSUME NEW t \in Writers, InsertCard(t) PROVE ToldStep
  <2>1. /\ pc[t] = "insert" /\ pc' = [pc EXCEPT ![t] = "event"] /\ UNCHANGED <<told, queue>>
    BY <1>2 DEF InsertCard
  <2>2. Unqueued = {} /\ t \in Unqueued'
    BY <2>1, Alone DEF Unqueued, TypeOK
  <2>3. QueuedCards' = QueuedCards
    BY <2>1 DEF QueuedCards, Leading
  <2> QED BY <2>1, <2>2, <2>3, ChangeOwed
<1>3. ASSUME NEW t \in Writers, QueueEvent(t) PROVE ToldStep
  <2> DEFINE e == [type |-> evtype[t], card |-> evcard[t]]
  <2>1. /\ pc[t] = "event" /\ pc' = [pc EXCEPT ![t] = ret[t]]
        /\ UNCHANGED <<told, card>> /\ queue' = Append(queue, e)
    BY <1>3 DEF QueueEvent, vevent_queue
  <2>2. e.type # "READER_INSERT" /\ e.card = card /\ e \in Event
    BY <1>3 DEF QueueEvent, TypeOK, Linked, Event, Type
  <2> HIDE DEF e
  <2>3. ret[t] # "event"
    BY DEF TypeOK, MainAt, ThreadAt
  <2>4. Unqueued # {} /\ Unqueued' = {}
    BY <2>1, <2>3, Alone DEF Unqueued, TypeOK
  <2>5. QueuedCards' = Append(QueuedCards, card)
    BY <2>1, <2>2, QueuedAppend
  <2>6. QueuedCards \in Seq(CardOrNull) /\ card \in CardOrNull
    BY QueuedForm DEF TypeOK
  <2>7. Owed = QueuedCards \o <<card>> /\ Owed' = QueuedCards' \o <<>>
    BY <2>4, OwedForm
  <2>8. Owed' = Owed
    BY <2>5, <2>6, <2>7
  <2> QED BY <2>1, <2>8 DEF ToldStep, Told!vars
<1>4. ASSUME WaitNextEvent PROVE ToldStep
  <2>1. /\ queue # <<>> /\ queue' = Tail(queue) /\ Head(queue) = queue[1]
        /\ told' = IF Head(queue).type = "READER_INSERT" THEN told ELSE Head(queue)
        /\ UNCHANGED <<card, pc>>
    BY <1>4 DEF WaitNextEvent, TypeOK
  <2>2. Unqueued' = Unqueued
    BY <2>1 DEF Unqueued
  <2>3. CASE Leading = 1
    <3>1. UNCHANGED told
      BY <2>1, <2>3 DEF Leading
    <3>2. QueuedCards' = QueuedCards
      BY <2>1, <2>3, QueuedTail
    <3> QED BY <2>1, <2>2, <3>1, <3>2, NothingOwed
  <2>4. CASE Leading = 0
    <3>1. /\ QueuedCards # <<>> /\ Head(QueuedCards) = queue[1].card
          /\ QueuedCards' = Tail(QueuedCards) /\ told' = queue[1]
      BY <2>1, <2>4, QueuedTail DEF Leading
    <3>2. QueuedCards \in Seq(CardOrNull) /\ card \in CardOrNull
      BY QueuedForm DEF TypeOK
    <3>3. Owed # <<>> /\ Head(Owed) = told'.card /\ Owed' = Tail(Owed)
      <4>1. CASE Unqueued = {}
        <5>1. Owed = QueuedCards /\ Owed' = QueuedCards'
          BY <2>2, <3>1, <3>2, <4>1, OwedForm
        <5> QED BY <3>1, <5>1
      <4>2. CASE Unqueued # {}
        <5>1. Owed = QueuedCards \o <<card>> /\ Owed' = QueuedCards' \o <<card>>
          BY <2>1, <2>2, <4>2, OwedForm
        <5>2. /\ QueuedCards \o <<card>> # <<>>
              /\ Head(QueuedCards \o <<card>>) = Head(QueuedCards)
              /\ Tail(QueuedCards \o <<card>>) = Tail(QueuedCards) \o <<card>>
          BY <3>1, <3>2
        <5> QED BY <3>1, <5>1, <5>2
      <4> QED BY <4>1, <4>2
    <3>4. Told!Tell
      BY <2>1, <3>3 DEF Told!Tell
    <3> QED BY <3>4 DEF ToldStep, Told!Next
  <2> QED BY <2>3, <2>4 DEF Leading
<1>5. ASSUME NEW t \in Writers, ReadType(t) \/ ReadCard(t)
      PROVE  UNCHANGED <<card, told, queue, pc>>
  BY <1>5 DEF ReadType, ReadCard
<1>6. DeleteEvent \/ (\E u \in Users : UserStep(u)) => UNCHANGED <<card, told, queue, pc>>
  BY DEF DeleteEvent, UserStep, GetCard, FreeCard
<1> QED BY <1>1, <1>2, <1>3, <1>4, <1>5, <1>6 DEF ConsumerStep, WriterStep

(* What ToldOnceInOrder says of every finite behaviour: one event for each *)
(* insertion, each removal and each replay of vreader_queue_card_event, in *)
(* order, with the card it is about *)
ToldInOrder == Told!Init /\ [][Told!Next]_(Told!vars)

(* The reader and its event queue implement the steps of ReaderEvents *)
THEOREM AlwaysToldInOrder == ASSUME OneWriter PROVE Spec => ToldInOrder
<1>1. ASSUME Init PROVE Told!Init
  <2>1. card = None /\ queue = <<>> /\ told.card = None /\ Unqueued = {}
    BY <1>1 DEF Init, vreader_new, Unqueued
  <2>2. Leading = 0 /\ Len(queue) = 0
    BY <2>1 DEF Leading
  <2>3. Owed = <<>>
    BY <2>1, <2>2 DEF Owed, QueuedCards
  <2> QED BY <2>1, <2>3 DEF Told!Init
<1>2. ASSUME IInv, IInv', [Next]_vars PROVE [Told!Next]_(Told!vars)
  <2>1. CASE Token \/ Initialise \/ EventThreadStep \/ Application \/ ApplicationStep
    BY <1>2, <2>1, EmulTold DEF ToldStep
  <2>2. CASE /\ UNCHANGED emulVars
             /\ \/ ConsumerStep
                \/ \E t \in Writers : WriterStep(t)
                \/ \E u \in Users : UserStep(u)
    BY <1>2, <2>2, ReaderTold DEF ToldStep
  <2>3. CASE UNCHANGED vars
    <3>1. UNCHANGED <<card, told, queue, pc>>
      BY <2>3 DEF vars, readerVars
    <3>2. QueuedCards' = QueuedCards /\ Unqueued' = Unqueued
      BY <3>1 DEF QueuedCards, Leading, Unqueued
    <3> QED BY <1>2, <3>1, <3>2, NothingOwed DEF ToldStep, IInv
  <2> QED BY <1>2, <2>1, <2>2, <2>3 DEF Next
<1> QED BY <1>1, <1>2, Invariance, PTL DEF Spec, ToldInOrder

-----------------------------------------------------------------------------
(* A reader whose token may move (the application does not call it).  The  *)
(* series of tokens are not used twice. *)
Fresh ==
    /\ token \in {0, gen}
    /\ series <= gen /\ seen <= gen /\ missed <= gen

(* While vcard_emul_init runs the token stays, so that the card it inserts *)
(* is the token's *)
Boot ==
    /\ At(Main) \in StartUp \cup {"idle"}
    /\ At(Main) = "idle" => pc[Main] = "idle"
    /\ At(Main) \in StartUp =>
        /\ ~changed /\ known /\ missed = 0
        /\ pc[Main] \in {"start", "start_mirror"} => card = None /\ ~present /\ series = 0
        /\ pc[Main] # "start" => token # 0
        /\ pc[Main] \in {"insert", "event"} => ret[Main] = "init_series"
        /\ pc[Main] = "insert" => Mirrored(arg[Main], token)
        /\ pc[Main] \in {"event", "init_series", "init_drop"} => Mirrored(card, token)
        /\ pc[Main] = "init_drop" => present /\ series = token

(* A slot that has no reader yet *)
Unknown == ~known => changed /\ card = None /\ ~present /\ series = 0 /\ missed = 0

(* The token a new slot appeared with: nothing has happened since *)
Missed ==
    known /\ missed # 0 /\ token = missed
        => pc[EventThread] = "wait" /\ ~changed /\ card = None

(* vcard_emul_event_thread.  Between its calls the thread remembers what   *)
(* the reader holds: nothing unless present, the token's card if the       *)
(* series is the token's.  While it handles an event, the token is the one *)
(* it has seen or there is another event to handle. *)
Handling ==
    LET at == pc[EventThread]
        next == ret[EventThread]
        done == IF at = "insert" THEN arg[EventThread] ELSE card
    IN  /\ at \in {"wait", "look"} =>
            /\ ~present => card = None
            /\ token # 0 /\ token = series => Mirrored(card, token)
        /\ at = "wait" /\ ~changed => Mirrored(card, token)
        /\ at \notin {"off", "wait", "look"} => changed \/ token = seen
        /\ at \in {"insert", "event"} => next \in {"mirror", "gone", "same"}
        /\ at \in {"mirror", "insert", "event"} /\ At(EventThread) = "mirror"
            => seen # 0 /\ done = None
        /\ at \in {"gone", "insert", "event"} /\ At(EventThread) = "gone"
            => seen = 0 /\ done = None
        /\ at \in {"same", "insert", "event"} /\ At(EventThread) = "same"
            => seen # 0 /\ (token = seen => Mirrored(done, token))

SInv == kind \notin Calling => Fresh /\ Boot /\ Unknown /\ Missed /\ Handling

(* Nothing the reader's state depends on changes *)
LEMMA Untold ==
    ASSUME SInv, UNCHANGED <<card, token, gen, changed, present, series, seen, mirror, slot>>,
           pc' = pc, ret' = ret, arg' = arg
    PROVE  SInv'
BY DEF SInv, Fresh, Boot, Unknown, Missed, Handling, Mirrored, At, slot

(* The steps of vreader.c and event.c *)
LEMMA ReaderSInv ==
    ASSUME TypeOK, Turns, Linked, ReaderFirst, SInv, UNCHANGED emulVars,
           \/ ConsumerStep
           \/ \E t \in Writers : WriterStep(t)
           \/ \E u \in Users : UserStep(u)
    PROVE  SInv'
<1> USE WriterAssumption DEF emulVars, slot
<1>1. Main \in Writers /\ EventThread \in Writers /\ Main # EventThread
  OBVIOUS
<1>2. \A c, n : Mirrored(c, n)' <=> Mirrored(c, n)
  BY DEF Mirrored
<1>3. ASSUME NEW t \in Writers, InsertCard(t) \/ QueueEvent(t), kind \notin Calling
      PROVE  Fresh' /\ Boot' /\ Unknown' /\ Missed' /\ Handling'
  <2>1. /\ ret' = ret /\ arg' = arg /\ UNCHANGED <<token, gen, changed, present, series, seen>>
        /\ UNCHANGED <<known, missed>>
        /\ \A u \in Writers : u # t => pc'[u] = pc[u]
        /\ pc[t] \in {"insert", "event"}
    BY <1>3 DEF InsertCard, QueueEvent, TypeOK
  <2>2. \/ pc[t] = "insert" /\ pc'[t] = "event" /\ card' = arg[t]
        \/ pc[t] = "event" /\ pc'[t] = ret[t] /\ card' = card
    BY <1>3 DEF InsertCard, SwapCard, QueueEvent, TypeOK
  <2>3. Fresh /\ Boot /\ Unknown /\ Missed /\ Handling
    BY <1>3 DEF SInv
  <2>4. Fresh'
    BY <2>1, <2>3 DEF Fresh
  <2>5. Unknown' /\ Missed'
    <3>1. known /\ (missed # 0 => token # missed)
      BY <1>1, <1>3, <2>1, <2>3 DEF Missed, ReaderFirst, Turns
    <3> QED BY <2>1, <3>1 DEF Unknown, Missed
  <2>6. CASE t = Main
    <3>1. Boot'
      BY <1>1, <1>2, <2>1, <2>2, <2>3, <2>6 DEF Boot, At, StartUp
    <3>2. Handling'
      BY <1>1, <1>3, <2>1, <2>3, <2>6 DEF Handling, Turns
    <3> QED BY <2>4, <2>5, <3>1, <3>2
  <2>7. CASE t = EventThread
    <3>1. Boot'
      BY <1>1, <2>1, <2>3, <2>7 DEF Boot, At, StartUp, Turns
    <3>2. Handling'
      BY <1>1, <1>2, <2>1, <2>2, <2>3, <2>7 DEF Handling, At
    <3> QED BY <2>4, <2>5, <3>1, <3>2
  <2> QED BY <2>6, <2>7
<1>4. ASSUME NEW t \in Writers, ReadType(t) \/ ReadCard(t)
      PROVE  card' = card /\ pc' = pc /\ ret' = ret /\ arg' = arg
  BY <1>4 DEF ReadType, ReadCard
<1>5. ConsumerStep \/ (\E u \in Users : UserStep(u))
        => card' = card /\ pc' = pc /\ ret' = ret /\ arg' = arg
  BY DEF ConsumerStep, WaitNextEvent, DeleteEvent, UserStep, GetCard, FreeCard
<1> QED BY <1>3, <1>4, <1>5, Untold DEF WriterStep, SInv

(* A new card is nobody's yet: what a card in use mirrors stays *)
LEMMA MirrorKept ==
    ASSUME TypeOK, CountExact, missed' = missed, NEW c \in CardOrNull,
           c # None => refs[c] = 0,
           mirror' = IF c = None THEN mirror ELSE [mirror EXCEPT ![c] = token],
           NEW n
    PROVE  /\ card' = card => (Mirrored(card, n)' <=> Mirrored(card, n))
           /\ n # 0 /\ n # missed /\ n \notin Unreadable /\ c # None /\ n = token
                => Mirrored(c, n)'
<1>1. card # None => card \in Cards /\ refs[card] >= 1
  BY Alive DEF TypeOK, CardOrNull
<1>2. card # None => card # c
  BY <1>1 DEF TypeOK
<1>3. card # None => mirror'[card] = mirror[card]
  BY <1>1, <1>2 DEF TypeOK
<1>4. c # None => mirror'[c] = token
  BY DEF TypeOK, CardOrNull
<1>5. card' = card => (Mirrored(card, n)' <=> Mirrored(card, n))
  BY <1>3 DEF Mirrored
<1> QED BY <1>4, <1>5 DEF Mirrored

LEMMA EmulSInv ==
    ASSUME OneWriter, Early = FALSE, IInv, SInv,
           Token \/ Initialise \/ EventThreadStep \/ Application \/ ApplicationStep
    PROVE  SInv'
<1> USE WriterAssumption
<1> USE DEF IInv
<1>1. Main \in Writers /\ EventThread \in Writers /\ Main # EventThread
  OBVIOUS
<1>2. SUFFICES ASSUME kind \notin Calling, kind' = kind
               PROVE  Fresh' /\ Boot' /\ Unknown' /\ Missed' /\ Handling'
  <2>1. kind' = kind
    BY DEF Token, TokenInsert, TokenRemove, Initialise, Start, StartMirror, InitSeries, InitDrop,
           EventThreadStep, Wake, AddReader, Look, Mirror, Same, Gone, Application, ForceRemove,
           ForceInsert, Replay, MayCall, ApplicationStep, ReinsertSaved, ReinsertToken, Remirror,
           Drop, MirrorCard, emulVars, slot
  <2> QED BY <1>2, <2>1 DEF SInv
<1>3. Fresh /\ Boot /\ Unknown /\ Missed /\ Handling
  BY <1>2 DEF SInv
<1>4. ~known => pc[EventThread] = "wait" /\ pc[Main] = "idle"
  BY DEF ReaderFirst, Turns
<1>5. UNCHANGED <<mirror, missed>> => \A c, n : Mirrored(c, n)' <=> Mirrored(c, n)
  BY DEF Mirrored
<1>6. Application => FALSE
  BY <1>2 DEF Application, ForceRemove, ForceInsert, Replay, MayCall
<1>7. ApplicationStep => FALSE
  BY <1>3 DEF ApplicationStep, ReinsertSaved, ReinsertToken, Remirror, Drop, Boot, At, StartUp
<1>8. CASE Token
  <2>1. /\ pc[EventThread] # "off" /\ changed' /\ UNCHANGED <<present, series, seen, known, missed>>
        /\ UNCHANGED <<card, pc, ret, arg, mirror>>
        /\ \/ token = 0 /\ gen' = gen + 1 /\ token' = gen + 1
           \/ token # 0 /\ token' = 0 /\ gen' = gen
    BY <1>8 DEF Token, TokenInsert, TokenRemove, TokenMoves, Started, readerVars, slot
  <2>2. pc[Main] = "idle"
    BY <1>2, <2>1 DEF Turns
  <2>3. Fresh' /\ Boot'
    BY <1>3, <2>1, <2>2 DEF Fresh, Boot, At, StartUp, TypeOK
  <2>4. Unknown' /\ Missed'
    BY <1>3, <2>1 DEF Fresh, Unknown, Missed, TypeOK
  <2>5. Handling'
    <3>1. token' # seen \/ seen = 0
      BY <1>3, <2>1 DEF Fresh, TypeOK
    <3>2. token' # 0 => token' # series /\ token' # seen
      BY <1>3, <2>1 DEF Fresh, TypeOK
    <3>3. Mirrored(None, 0)'
      BY DEF Mirrored
    <3> QED BY <1>3, <2>1, <3>1, <3>2, <3>3 DEF Handling, At
  <2> QED BY <2>3, <2>4, <2>5
<1>9. CASE Start
  <2>1. /\ pc[Main] = "start" /\ pc[EventThread] = "off"
        /\ UNCHANGED <<card, ret, arg, token, gen, changed, present, series, seen, known, missed>>
        /\ UNCHANGED mirror
    BY <1>2, <1>9 DEF Start, Turns, Untouched, emulVars, slot
  <2>2. \/ token # 0 /\ pc'[Main] = "start_mirror" /\ pc'[EventThread] = "off"
        \/ token = 0 /\ pc'[Main] = "idle" /\ pc'[EventThread] = "wait"
    BY <1>1, <1>9, <2>1 DEF Start, TypeOK
  <2>3. Fresh' /\ Unknown' /\ Missed'
    BY <1>3, <2>1, <2>2 DEF Fresh, Boot, Unknown, Missed, At, StartUp
  <2>4. Boot'
    BY <1>3, <2>1, <2>2 DEF Boot, At, StartUp
  <2>5. Handling'
    BY <1>3, <2>1, <2>2 DEF Boot, Handling, Mirrored, At, StartUp
  <2> QED BY <2>3, <2>4, <2>5
<1>10. CASE StartMirror
  <2>1. PICK c \in CardOrNull :
          /\ c = None <=> token = 0 \/ token \in Unreadable
          /\ c # None => refs[c] = 0
          /\ pc' = [pc EXCEPT ![Main] = "insert"] /\ ret' = [ret EXCEPT ![Main] = "init_series"]
          /\ arg' = [arg EXCEPT ![Main] = c]
          /\ mirror' = IF c = None THEN mirror ELSE [mirror EXCEPT ![c] = token]
          /\ UNCHANGED <<card, token, gen, changed, known, missed>>
    BY <1>1, <1>10, Made DEF StartMirror, MainAt, slot
  <2>2. /\ pc[Main] = "start_mirror" /\ UNCHANGED <<present, series, seen>>
        /\ pc[EventThread] = "off"
    BY <1>2, <1>10 DEF StartMirror, Turns
  <2>3. Fresh' /\ Unknown' /\ Missed'
    BY <1>3, <2>1, <2>2 DEF Fresh, Boot, Unknown, Missed, At, StartUp
  <2>4. /\ pc'[Main] = "insert" /\ ret'[Main] = "init_series" /\ arg'[Main] = c
        /\ pc'[EventThread] = "off"
    BY <1>1, <2>1, <2>2 DEF TypeOK
  <2>5. token # 0 /\ missed = 0 /\ ~changed /\ known
    BY <1>3, <2>2 DEF Boot, At, StartUp
  <2>6. Mirrored(c, token)'
    <3>1. CASE c = None
      BY <2>1, <2>5, <3>1 DEF Mirrored
    <3>2. CASE c # None
      BY <2>1, <2>5, <3>2, MirrorKept DEF Mirrored
    <3> QED BY <3>1, <3>2
  <2>7. Boot'
    BY <2>1, <2>4, <2>5, <2>6 DEF Boot, At, StartUp
  <2>8. Handling'
    BY <2>4 DEF Handling, At
  <2> QED BY <2>3, <2>7, <2>8
<1>11. CASE InitSeries
  <2>1. /\ pc[Main] = "init_series" /\ pc[EventThread] = "off"
        /\ token # 0 /\ missed = 0 /\ ~changed /\ known /\ Mirrored(card, token)
    BY <1>2, <1>3, <1>11 DEF InitSeries, Turns, Boot, At, StartUp
  <2>2. /\ present' /\ series' = token /\ pc' = [pc EXCEPT ![Main] = "init_drop"]
        /\ UNCHANGED <<card, ret, arg, token, gen, changed, seen, known, missed, mirror>>
    BY <1>11, <2>1 DEF InitSeries, Goto, Untouched, slot
  <2>3. pc'[Main] = "init_drop" /\ pc'[EventThread] = "off"
    BY <1>1, <2>1, <2>2 DEF TypeOK
  <2>4. Fresh' /\ Unknown' /\ Missed'
    BY <1>3, <2>1, <2>2 DEF Fresh, Unknown, Missed, TypeOK
  <2>5. Boot'
    BY <1>5, <2>1, <2>2, <2>3 DEF Boot, At, StartUp
  <2>6. Handling'
    BY <2>3 DEF Handling, At
  <2> QED BY <2>4, <2>5, <2>6
<1>12. CASE InitDrop
  <2>1. /\ pc[Main] = "init_drop" /\ pc[EventThread] = "off"
        /\ token # 0 /\ missed = 0 /\ ~changed /\ known /\ Mirrored(card, token)
        /\ present /\ series = token
    BY <1>2, <1>3, <1>12 DEF InitDrop, Turns, Boot, At, StartUp
  <2>2. /\ UNCHANGED <<card, ret, arg, token, gen, changed, present, series, seen, known>>
        /\ UNCHANGED <<missed, mirror>>
        /\ pc'[Main] = "idle" /\ pc'[EventThread] \in {"off", "wait"}
    BY <1>1, <1>12 DEF InitDrop, Untouched, slot, TypeOK
  <2>3. Fresh' /\ Unknown' /\ Missed'
    BY <1>3, <2>1, <2>2 DEF Fresh, Unknown, Missed
  <2>4. Boot'
    BY <2>2 DEF Boot, At, StartUp
  <2>5. Handling'
    BY <1>5, <2>1, <2>2 DEF Handling, At
  <2> QED BY <2>3, <2>4, <2>5
<1>13. pc[EventThread] # "off" => pc[Main] = "idle"
  BY <1>2 DEF Turns
<1>14. CASE Wake
  <2>1. /\ pc[EventThread] = "wait" /\ known /\ changed /\ ~changed'
        /\ pc' = [pc EXCEPT ![EventThread] = "look"]
        /\ UNCHANGED <<card, ret, arg, token, gen, present, series, seen, known, missed, mirror>>
    BY <1>14 DEF Wake, Goto, Untouched, slot
  <2>2. pc'[Main] = "idle" /\ pc'[EventThread] = "look"
    BY <1>1, <1>13, <2>1 DEF TypeOK
  <2>3. Fresh' /\ Unknown' /\ Missed' /\ Boot'
    BY <1>3, <2>1, <2>2 DEF Fresh, Unknown, Missed, Boot, At, StartUp
  <2>4. Handling'
    BY <1>3, <1>5, <2>1, <2>2 DEF Handling, At
  <2> QED BY <2>3, <2>4
<1>15. CASE AddReader
  <2>1. /\ pc[EventThread] = "wait" /\ ~known /\ ~changed' /\ known' /\ missed' = token
        /\ UNCHANGED <<card, pc, ret, arg, token, gen, present, series, seen, mirror>>
    BY <1>15 DEF AddReader, Untouched
  <2>2. Fresh' /\ Unknown' /\ Missed' /\ Boot'
    BY <1>3, <1>13, <2>1 DEF Fresh, Unknown, Missed, Boot, At, StartUp, TypeOK
  <2>3. Handling'
    BY <1>3, <2>1 DEF Unknown, Handling, Mirrored, At
  <2> QED BY <2>2, <2>3
<1>16. CASE Look
  <2>1. /\ pc[EventThread] = "look" /\ seen' = token
        /\ UNCHANGED <<card, token, gen, changed, present, series, known, missed, mirror>>
    BY <1>16 DEF Look, Untouched, slot
  <2>2. /\ pc'[Main] = "idle" /\ known
        /\ \/ /\ token # 0 /\ token = series /\ pc'[EventThread] = "same"
           \/ /\ present /\ pc'[EventThread] = "insert" /\ arg'[EventThread] = None
              /\ ret'[EventThread] = IF token # 0 THEN "mirror" ELSE "gone"
           \/ /\ ~present /\ pc'[EventThread] = IF token # 0 THEN "mirror" ELSE "gone"
    BY <1>1, <1>4, <1>13, <1>16, <2>1 DEF Look, CallInsert, Goto, TypeOK
  <2>3. Fresh' /\ Unknown' /\ Missed' /\ Boot'
    BY <1>3, <2>1, <2>2 DEF Fresh, Unknown, Missed, Boot, At, StartUp, TypeOK
  <2>4. Handling'
    BY <1>3, <1>5, <2>1, <2>2 DEF Handling, At
  <2> QED BY <2>3, <2>4
<1>17. CASE Mirror
  <2>1. PICK c \in CardOrNull :
          /\ c = None <=> token = 0 \/ token \in Unreadable
          /\ c # None => refs[c] = 0
          /\ pc' = [pc EXCEPT ![EventThread] = "insert"]
          /\ ret' = [ret EXCEPT ![EventThread] = "same"]
          /\ arg' = [arg EXCEPT ![EventThread] = c]
          /\ mirror' = IF c = None THEN mirror ELSE [mirror EXCEPT ![c] = token]
          /\ UNCHANGED <<card, token, gen, changed, known, missed>>
    BY <1>1, <1>17, Made DEF Mirror, ThreadAt, slot
  <2>2. pc[EventThread] = "mirror" /\ UNCHANGED <<present, series, seen>>
    BY <1>17 DEF Mirror
  <2>3. /\ pc'[EventThread] = "insert" /\ ret'[EventThread] = "same" /\ arg'[EventThread] = c
        /\ pc'[Main] = "idle"
    BY <1>1, <1>13, <2>1, <2>2 DEF TypeOK
  <2>4. seen # 0 /\ known /\ (changed \/ token = seen) /\ (missed # 0 => token # missed)
    BY <1>3, <1>4, <2>2 DEF Handling, Missed, At
  <2>5. token = seen => Mirrored(c, token)'
    <3>1. CASE c = None
      BY <2>1, <3>1 DEF Mirrored
    <3>2. CASE c # None
      BY <2>1, <2>4, <3>2, MirrorKept DEF Mirrored
    <3> QED BY <3>1, <3>2
  <2>6. Fresh' /\ Unknown' /\ Missed' /\ Boot'
    BY <1>3, <2>1, <2>2, <2>3, <2>4 DEF Fresh, Unknown, Missed, Boot, At, StartUp
  <2>7. Handling'
    BY <2>1, <2>2, <2>3, <2>4, <2>5 DEF Handling, At
  <2> QED BY <2>6, <2>7
<1>18. CASE Same
  <2>1. /\ pc[EventThread] = "same" /\ series' = seen /\ present'
        /\ pc'[EventThread] = "wait" /\ pc'[Main] = "idle"
        /\ UNCHANGED <<card, ret, arg, token, gen, changed, seen, known, missed, mirror>>
    BY <1>1, <1>13, <1>18 DEF Same, SeriesSeen, Goto, Untouched, slot, TypeOK
  <2>2. known /\ (changed \/ token = seen) /\ (missed # 0 => token # missed)
        /\ (token = seen => Mirrored(card, token))
    BY <1>3, <1>4, <2>1 DEF Handling, Missed, At
  <2>3. Fresh' /\ Unknown' /\ Missed' /\ Boot'
    BY <1>3, <2>1, <2>2 DEF Fresh, Unknown, Missed, Boot, At, StartUp
  <2>4. Handling'
    BY <1>5, <2>1, <2>2 DEF Handling, At
  <2> QED BY <2>3, <2>4
<1>19. CASE Gone
  <2>1. /\ pc[EventThread] = "gone" /\ series' = 0 /\ ~present'
        /\ pc'[EventThread] = "wait" /\ pc'[Main] = "idle"
        /\ UNCHANGED <<card, ret, arg, token, gen, changed, seen, known, missed, mirror>>
    BY <1>1, <1>13, <1>19 DEF Gone, Goto, Untouched, slot, TypeOK
  <2>2. known /\ (changed \/ token = seen) /\ seen = 0 /\ card = None
        /\ (missed # 0 => token # missed)
    BY <1>3, <1>4, <2>1 DEF Handling, Missed, At
  <2>3. Fresh' /\ Unknown' /\ Missed' /\ Boot'
    BY <1>3, <2>1, <2>2 DEF Fresh, Unknown, Missed, Boot, At, StartUp, TypeOK
  <2>4. Handling'
    BY <2>1, <2>2 DEF Handling, Mirrored, At
  <2> QED BY <2>3, <2>4
<1> QED BY <1>6, <1>7, <1>8, <1>9, <1>10, <1>11, <1>12, <1>14, <1>15, <1>16, <1>17, <1>18, <1>19
        DEF Initialise, EventThreadStep

LEMMA InitSInv == ASSUME Init PROVE SInv
<1> USE WriterAssumption
<1>1. /\ pc[Main] = IF kind = "new" THEN "idle" ELSE "start"
      /\ pc[EventThread] = IF kind = "new" THEN "wait" ELSE "off"
      /\ card = None /\ (changed <=> kind = "new") /\ (known <=> kind # "new")
      /\ missed = 0 /\ ~present /\ series = 0 /\ seen = 0 /\ token \in {0, 1} /\ gen = token
  BY DEF Init, vreader_new
<1> QED BY <1>1 DEF SInv, Fresh, Boot, Unknown, Missed, Handling, At, StartUp

(* vcard_emul_event_thread: a slot whose events have all been handled      *)
(* shows the card of the token that is in it, and none for an empty slot,  *)
(* a token that cannot be read or the token a new slot appeared with *)
THEOREM SlotAlwaysMirrorsToken ==
    ASSUME OneWriter, Early = FALSE
    PROVE  Spec => []SlotMirrorsToken
<1>1. Init => SInv
  BY InitSInv
<1>2. IInv /\ SInv /\ [Next]_vars => SInv'
  <2>1. SUFFICES ASSUME IInv, SInv, [Next]_vars PROVE SInv'
    OBVIOUS
  <2>2. CASE Token \/ Initialise \/ EventThreadStep \/ Application \/ ApplicationStep
    BY <2>1, <2>2, EmulSInv
  <2>3. CASE /\ UNCHANGED emulVars
             /\ \/ ConsumerStep
                \/ \E t \in Writers : WriterStep(t)
                \/ \E u \in Users : UserStep(u)
    BY <2>1, <2>3, ReaderSInv DEF IInv
  <2>4. CASE UNCHANGED vars
    BY <2>1, <2>4, Untold DEF vars, readerVars, emulVars
  <2> QED BY <2>1, <2>2, <2>3, <2>4 DEF Next
<1>3. IInv /\ SInv => SlotMirrorsToken
  BY DEF SInv, SlotMirrorsToken, Settled, Handling
<1> QED BY <1>1, <1>2, <1>3, Invariance, PTL DEF Spec
=============================================================================
