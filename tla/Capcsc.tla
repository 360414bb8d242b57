------------------------------- MODULE Capcsc -------------------------------
(***************************************************************************)
(* The PC/SC backend (src/src/capcsc.c): the event thread that lists the   *)
(* readers, waits for changes and tells them through the event queue, the  *)
(* application that takes the events, and a user who sends APDUs to a      *)
(* card.  A reader is known to PC/SC by its name and to libcacard by a     *)
(* VReader, numbered here in the order they are made; its SCardReader is a *)
(* record of an array, and the VReader, its VCards and the event thread    *)
(* know the record by its place in the array.  Deleting a record moves the *)
(* later ones down.  The array keeps what was behind the last record.      *)
(***************************************************************************)
EXTENDS Integers, Sequences, SequencesExt, FiniteSetsExt

CONSTANTS
    Names,        \* the names of the readers PC/SC may find
    MaxReaders,   \* CAPCSC_MAX_READERS
    MaxMoves,     \* bound: how often cards are put in or taken out
    MaxPlugs,     \* bound: how many readers are plugged in
    MaxFailures,  \* bound: SCardConnect or SCardListReaders fails
    Gentle        \* only the sole reader is unplugged, and the next one is
                  \* plugged in after its record is gone

ASSUME NamesAssumption == IsFiniteSet(Names) /\ MaxReaders \in Nat \ {0}

VARIABLES
    plugged,   \* the readers plugged in
    inside,    \* inside[n]: how often the card of reader n moved; odd: it is in
    listed,    \* the readers of the last SCardListReaders
    plugs,     \* how many readers were plugged in
    failures,  \* how often a call to PC/SC failed
    record,    \* PCSCContext.readers
    count,     \* reader_count
    changed,   \* readers_changed
    freed,     \* the names (by the VReader they were copied for) g_free took
    thread,    \* the event thread: where it is, the place it is at, the matches
    states,    \* reader_states without the entry for new readers
    reader,    \* the VReaders made so far
    list,      \* those in the list of readers
    leaked,    \* those whose reference insert_card kept
    queue,     \* the event queue
    taken,     \* the event the application holds, or <<>>
    user,      \* the VReader and VCard of a transmission under way, or <<>>
    known,     \* the readers the application was told of
    shown,     \* shown[n]: the card it was told is in reader n, or 0
    last,      \* the reader the last APDU was sent to and the one it reached
    crashed    \* strcmp was called with NULL

env == <<plugged, inside, listed, plugs, failures>>
array == <<record, count, changed, freed>>
library == <<reader, list, leaked, queue>>
told == <<taken, known, shown>>
vars == <<env, array, thread, states, library, told, user, last, crashed>>

Unaware == -1     \* SCARD_STATE_UNAWARE
Nobody == "NONE"  \* no reader; also what a freed name may have become
ASSUME NobodyAssumption == Nobody \notin Names
NoCard == [made |-> 0, place |-> 0]
NoHandle == [name |-> Nobody, made |-> 0]
Blank == [name |-> 0, index |-> 0, state |-> Unaware, handle |-> NoHandle,
          connected |-> FALSE, asked |-> FALSE]

At(at) == ~crashed /\ thread.at = at
Rest(at) == [at |-> at, place |-> -1, matches |-> {}]

Present(n) == n \in plugged /\ inside[n] % 2 = 1

(* What a name pointer of a record reads as: NULL nothing, a freed one the *)
(* old name or something else.                                             *)
Reads(v) == IF v = 0 THEN {}
            ELSE {reader[v].name} \cup (IF v \in freed THEN {Nobody} ELSE {})
(* vreader_get_reader_by_name *)
Named(n) == {v \in list : reader[v].name = n}

Event(type, v) == [type |-> type, reader |-> v, card |-> reader[v].card.made]

-----------------------------------------------------------------------------
Init ==
    /\ plugged = {} /\ inside = [n \in Names |-> 0] /\ listed = {}
    /\ plugs = 0 /\ failures = 0
    /\ record = [p \in 0..(MaxReaders - 1) |-> Blank] /\ count = 0
    /\ changed = FALSE /\ freed = {}
    /\ thread = Rest("scan")
    /\ states = <<>>
    /\ reader = <<>> /\ list = {} /\ leaked = {} /\ queue = <<>>
    /\ taken = <<>> /\ known = {} /\ shown = [n \in Names |-> 0]
    /\ user = <<>> /\ last = [sent |-> Nobody, reached |-> Nobody]
    /\ crashed = FALSE

(* The world: a card is put in or taken out, a reader plugged or unplugged *)
(* with its card.                                                          *)
MoveCard(n) ==
    /\ n \in plugged /\ MapThenSumSet(LAMBDA m : inside[m], Names) < MaxMoves
    /\ inside' = [inside EXCEPT ![n] = @ + 1]
    /\ UNCHANGED <<plugged, listed, plugs, failures>>
Plug(n) ==
    /\ n \notin plugged /\ plugs < MaxPlugs
    /\ Gentle => count = Cardinality(plugged \cap listed)
    /\ plugged' = plugged \cup {n} /\ plugs' = plugs + 1
    /\ UNCHANGED <<inside, listed, failures>>
Unplug(n) ==
    /\ n \in plugged
    /\ Gentle => plugged = {n}
    /\ plugged' = plugged \ {n}
    /\ inside' = [inside EXCEPT ![n] = @ + (@ % 2)]
    /\ UNCHANGED <<listed, plugs, failures>>
World ==
    /\ ~crashed
    /\ \E n \in Names : MoveCard(n) \/ Plug(n) \/ Unplug(n)
    /\ UNCHANGED <<array, thread, states, library, told, user, last, crashed>>

-----------------------------------------------------------------------------
(* The event thread *)

(* variant for mutation: the new readers are not noted as a change *)
ScanQuietly == changed

(* readers_changed after scan_for_readers *)
ScanChanges == TRUE

(* variant for mutation: the loop over the records leaves out the last *)
LastButOne(n) == n - 2

(* where the loop over n records starts *)
LastPlace(n) == n - 1

(* new_reader: the records and VReaders after the names of new are added *)
new_readers(new) ==
    /\ record' = [p \in DOMAIN record |->
          IF p \in count..(count + Len(new) - 1)
          THEN [Blank EXCEPT !.name = Len(reader) + p - count + 1, !.index = p]
          ELSE record[p]]
    /\ count' = count + Len(new)
    /\ reader' = reader \o [k \in DOMAIN new |->
          [name |-> new[k], place |-> count + k - 1, card |-> NoCard]]
    /\ list' = list \cup (Len(reader) + 1)..(Len(reader) + Len(new))
    /\ queue' = queue \o [k \in DOMAIN new |->
          [type |-> "READER_INSERT", reader |-> Len(reader) + k, card |-> 0]]

(* Whether a call to PC/SC fails. *)
Fails == {f \in BOOLEAN : f => failures < MaxFailures}
Failed(f) == failures' = failures + (IF f THEN 1 ELSE 0)

(* scan_for_readers under the lock: the readers are listed, the new ones   *)
(* get a record while there is room, and those found are matches.  When    *)
(* the list fails nothing matches.                                         *)
Scan ==
    /\ At("scan")
    /\ changed' = ScanChanges
    /\ \E fail \in Fails :
         LET here == IF fail THEN {} ELSE plugged
             Found(n) == {p \in 0..(count - 1) : n \in Reads(record[p].name)}
             unknown == SetToSeq({n \in here : Found(n) = {}})
             new == SubSeq(unknown, 1, Min({MaxReaders - 1 - count, Len(unknown)}))
         IN  /\ new_readers(new)
             /\ thread' = [at |-> "drop", place |-> LastPlace(count'),
                           matches |-> {Min(Found(n)) : n \in {m \in here : Found(m) # {}}}
                                       \cup count..(count' - 1)]
             /\ listed' = IF fail THEN listed ELSE plugged
             /\ Failed(fail)
    /\ UNCHANGED <<plugged, inside, plugs, freed, states, leaked, told, user, last, crashed>>

(* The loop after the lock is left: the VReader named by the next record   *)
(* without a match is removed from the list.  Its record stays.            *)
Drop ==
    /\ At("drop")
    /\ LET p == thread.place
       IN  CASE p < 0 -> /\ thread' = Rest("prepare")
                         /\ UNCHANGED <<list, queue, crashed>>
             [] p >= 0 /\ p \in thread.matches ->
                   /\ thread' = [thread EXCEPT !.place = p - 1]
                   /\ UNCHANGED <<list, queue, crashed>>
             [] p >= 0 /\ p \notin thread.matches ->
                   /\ thread' = [thread EXCEPT !.place = p - 1]
                   /\ crashed' = (record[p].name = 0 /\ list # {})
                   /\ \/ \E n \in Reads(record[p].name) :
                           \E v \in Named(n) :
                             /\ list' = list \ {v}
                             /\ queue' = Append(queue, Event("READER_REMOVE", v))
                      \/ /\ \/ record[p].name = 0
                            \/ \E n \in Reads(record[p].name) : Named(n) = {}
                         /\ UNCHANGED <<list, queue>>
    /\ UNCHANGED <<env, array, states, reader, leaked, told, user, last>>

(* prepare_reader_states when readers_changed is set *)
Prepare ==
    /\ At("prepare")
    /\ thread' = Rest("wait")
    /\ states' = IF changed
                 THEN [k \in 1..count |-> [name |-> record[k - 1].name,
                                           state |-> record[k - 1].state, event |-> Unaware]]
                 ELSE states
    /\ changed' = FALSE
    /\ UNCHANGED <<env, record, count, freed, library, told, user, last, crashed>>

(* SCardGetStatusChange: a name that is not of a reader, or readers other  *)
(* than those listed, lead to a new scan; else the entries whose state is  *)
(* not that of the reader are changed.  The names are read without the     *)
(* lock.  A wait that reports nothing is left out.                         *)
Wait ==
    /\ At("wait")
    /\ \E names \in [DOMAIN states -> Names \cup {Nobody}] :
         /\ \A k \in DOMAIN states : names[k] \in Reads(states[k].name)
         /\ \/ /\ (\E k \in DOMAIN states : names[k] \notin plugged) \/ listed # plugged
               /\ thread' = Rest("scan") /\ states' = <<>>
            \/ /\ \A k \in DOMAIN states : names[k] \in plugged
               /\ listed = plugged
               /\ \E k \in DOMAIN states : states[k].state # inside[names[k]]
               /\ states' = [k \in DOMAIN states |->
                     [states[k] EXCEPT !.event = IF inside[names[k]] # states[k].state
                                                 THEN inside[names[k]] ELSE Unaware]]
               /\ thread' = [thread EXCEPT !.at = "process", !.place = 0]
    /\ UNCHANGED <<env, array, library, told, user, last, crashed>>

(* variant for mutation: a record that is connected stays so *)
ConnectOnce(r, n, ok) ==
    IF r.connected \/ ~ok THEN r
    ELSE [r EXCEPT !.handle = [name |-> n, made |-> inside[n]],
                   !.connected = TRUE, !.asked = FALSE]

(* connect_card: record r after SCardConnect to reader n, which worked if  *)
(* ok; request_count starts again.                                         *)
connect_card(r, n, ok) ==
    IF ok THEN [r EXCEPT !.handle = [name |-> n, made |-> inside[n]],
                         !.connected = TRUE, !.asked = FALSE]
    ELSE r

(* insert_card for the record at place p: the VReader of its name gets a   *)
(* VCard that sends to the record.  When SCardConnect fails the reference  *)
(* to the VReader stays.                                                   *)
insert_card(p, n) ==
    \E fail \in Fails :
      LET v == Min(Named(n))
          ok == Named(n) # {} /\ Present(n) /\ ~fail
      IN  /\ record' = [record EXCEPT ![p] =
                [connect_card(@, n, ok) EXCEPT !.state = states[p + 1].event]]
          /\ reader' = IF ok THEN [reader EXCEPT ![v].card = [made |-> inside[n], place |-> p]]
                       ELSE reader
          /\ queue' = IF ok THEN Append(queue, [type |-> "CARD_INSERT", reader |-> v,
                                                card |-> inside[n]])
                      ELSE queue
          /\ leaked' = IF Named(n) # {} /\ ~ok THEN leaked \cup {v} ELSE leaked
          /\ Failed(fail)

(* remove_card: the handle is given back, the VReader loses its card. *)
remove_card(p, n) ==
    LET v == Min(Named(n))
    IN  /\ record' = [record EXCEPT ![p] =
              [@ EXCEPT !.connected = FALSE, !.handle = NoHandle,
                         !.state = states[p + 1].event]]
        /\ IF Named(n) = {} THEN UNCHANGED <<reader, queue>>
           ELSE /\ reader' = [reader EXCEPT ![v].card = NoCard]
                /\ queue' = Append(queue, [type |-> "CARD_REMOVE", reader |-> v, card |-> 0])
        /\ UNCHANGED <<leaked, failures>>

(* The entries are looked at in turn under the lock: entry k is for the    *)
(* record at place k - 1 now.  process_reader_change takes one that        *)
(* changed, and remembers its state.  After the last the lock is left.     *)
Process ==
    /\ At("process")
    /\ LET p == thread.place
       IN  IF p = Len(states)
           THEN /\ thread' = Rest("prepare")
                /\ UNCHANGED <<array, reader, leaked, queue, failures, crashed>>
           ELSE /\ thread' = [thread EXCEPT !.place = p + 1]
                /\ UNCHANGED <<count, freed>>
                /\ IF states[p + 1].event = Unaware
                   THEN UNCHANGED <<record, changed, reader, leaked, queue, failures, crashed>>
                   ELSE /\ changed' = TRUE
                        /\ crashed' = (record[p].name = 0 /\ list # {})
                        /\ \E n \in Reads(record[p].name) \cup
                                    (IF record[p].name = 0 THEN {Nobody} ELSE {}) :
                             IF states[p + 1].event % 2 = 1 THEN insert_card(p, n)
                             ELSE remove_card(p, n)
    /\ UNCHANGED <<plugged, inside, listed, plugs, states, list, told, user, last>>

-----------------------------------------------------------------------------
(* The application and the user *)

(* variant for mutation: the later records move down, the count stays *)
DeleteKeepsCount(n) == n

(* reader_count after delete_reader *)
DeleteCount(n) == n - 1

(* delete_reader for the record whose place the record at place p holds as *)
(* its index: its name goes and the later records move down, with the      *)
(* index they had.                                                         *)
delete_reader(p) ==
    LET i == record[p].index
        nameless == [record EXCEPT ![i].name = 0]
    IN  /\ freed' = freed \cup {record[i].name}
        /\ record' = [q \in DOMAIN record |->
                        IF q \in i..(count - 2) THEN nameless[q + 1] ELSE nameless[q]]
        /\ count' = DeleteCount(count)

(* variant for mutation: the reference of a transmission does not count *)
ReleaseEarly(v, others) ==
    IF v \in list \cup leaked \/ \E k \in DOMAIN queue : queue[k].reader = v
    THEN UNCHANGED array
    ELSE /\ thread.at # "process"
         /\ delete_reader(reader[v].place)
         /\ UNCHANGED changed

(* A reference to VReader v is freed; the last one deletes its record,     *)
(* under the lock (delete_reader_cb).                                      *)
Release(v, others) ==
    IF v \in list \cup leaked \/ others \/ \E k \in DOMAIN queue : queue[k].reader = v
    THEN UNCHANGED array
    ELSE /\ thread.at # "process"
         /\ delete_reader(reader[v].place)
         /\ UNCHANGED changed

(* vevent_wait_next_vevent *)
Take ==
    /\ ~crashed
    /\ taken = <<>> /\ queue # <<>>
    /\ taken' = <<Head(queue)>> /\ queue' = Tail(queue)
    /\ LET e == Head(queue)
           n == reader[e.reader].name
       IN  /\ known' = CASE e.type = "READER_INSERT" -> known \cup {n}
                         [] e.type = "READER_REMOVE" -> known \ {n}
                         [] OTHER -> known
           /\ shown' = IF e.type \in {"CARD_INSERT", "CARD_REMOVE"}
                       THEN [shown EXCEPT ![n] = e.card] ELSE shown
    /\ UNCHANGED <<env, array, thread, states, reader, list, leaked, user, last, crashed>>

(* vevent_delete *)
Delete ==
    /\ ~crashed
    /\ taken # <<>>
    /\ taken' = <<>>
    /\ Release(taken[1].reader, user # <<>> /\ user[1].reader = taken[1].reader)
    /\ UNCHANGED <<env, thread, states, library, known, shown, user, last, crashed>>

(* vreader_xfr_bytes or a power-on takes a reference to the VCard *)
Begin ==
    /\ ~crashed
    /\ user = <<>>
    /\ \E v \in list :
         /\ reader[v].card # NoCard
         /\ user' = <<[reader |-> v, card |-> reader[v].card]>>
    /\ UNCHANGED <<env, array, thread, states, library, told, last, crashed>>

(* SCardTransmit reaches the card of a handle that has not moved since.    *)
Valid(handle) ==
    /\ handle.name \in plugged /\ handle.made = inside[handle.name]
    /\ handle.made % 2 = 1

(* apdu_cb: the record is connected if it is not; what the APDU reaches is *)
(* decided by its handle.                                                  *)
Transmit ==
    /\ ~crashed
    /\ user # <<>>
    /\ LET p == user[1].card.place
       IN  \E r \in IF record[p].connected THEN {record[p]}
                    ELSE {connect_card(record[p], n, Present(n)) :
                            n \in Reads(record[p].name) \cup {Nobody}} :
             /\ record' = [record EXCEPT ![p] = r]
             /\ last' = [sent |-> reader[user[1].reader].name,
                         reached |-> IF r.connected /\ Valid(r.handle) THEN r.handle.name
                                     ELSE Nobody]
    /\ UNCHANGED <<env, count, changed, freed, thread, states, library, told, user, crashed>>

(* reset_cb: the first request after a connect is dropped, a later one     *)
(* reconnects the handle.                                                  *)
Reset ==
    /\ ~crashed
    /\ user # <<>>
    /\ LET p == user[1].card.place
           n == record[p].handle.name
       IN  record' = [record EXCEPT ![p] =
              IF ~@.asked THEN [@ EXCEPT !.asked = TRUE]
              ELSE IF Present(n) THEN [@ EXCEPT !.handle.made = inside[n]] ELSE @]
    /\ UNCHANGED <<env, count, changed, freed, thread, states, library, told, user, last, crashed>>

(* the references of the transmission are freed *)
End ==
    /\ ~crashed
    /\ user # <<>>
    /\ user' = <<>> /\ last' = [sent |-> Nobody, reached |-> Nobody]
    /\ Release(user[1].reader, taken # <<>> /\ taken[1].reader = user[1].reader)
    /\ UNCHANGED <<env, thread, states, library, told, crashed>>

EventThread == Scan \/ Drop \/ Prepare \/ Wait \/ Process
Application == Take \/ Delete
Next == World \/ EventThread \/ Application \/ Begin \/ Transmit \/ Reset \/ End

(* The event thread runs again and again and the application takes its     *)
(* events; cards and readers move, and a user comes, when they like.       *)
Fairness == WF_vars(EventThread) /\ WF_vars(Application)
Spec == Init /\ [][Next]_vars /\ Fairness

-----------------------------------------------------------------------------
(* Properties *)

Alive == list \cup leaked \cup {queue[k].reader : k \in DOMAIN queue}
         \cup {taken[k].reader : k \in DOMAIN taken} \cup {user[k].reader : k \in DOMAIN user}

(* Each VReader that is alive keeps a record of its own with its name, at  *)
(* the place it was given and the record remembers (capcsc.c:67, 83-88);   *)
(* there is no other record, and no name is looked for that is NULL.       *)
RecordsNameReaders ==
    /\ ~crashed
    /\ count = Cardinality(Alive)
    /\ \A v \in Alive :
         LET p == reader[v].place
         IN  p < count /\ record[p].name = v /\ record[p].index = p /\ v \notin freed

(* Once the state of a reader's record is the state of the reader, the     *)
(* reader has the card that is in it and the record is connected to that   *)
(* card, so that the next APDU reaches it (capcsc.c:339, 381); or neither  *)
(* there is.                                                               *)
CardReady ==
    \A v \in list :
        LET n == reader[v].name
            r == record[reader[v].place]
        IN  n \in plugged /\ r.state = inside[n] =>
              IF Present(n) THEN /\ reader[v].card.made = inside[n]
                                 /\ r.connected /\ r.handle = [name |-> n, made |-> inside[n]]
              ELSE reader[v].card = NoCard

(* An APDU reaches the reader it was sent to or none: while a VCard is in  *)
(* use the record it sends to is the one of its reader (capcsc.c:268),     *)
(* whatever the event thread and the application do meanwhile.             *)
ApduReachesReader ==
    /\ last.reached \in {last.sent, Nobody}
    /\ \A k \in DOMAIN user :
         LET p == user[k].card.place
         IN  p < count /\ record[p].name = user[k].reader

(* When the cards have come to rest the application has been told the card *)
(* that is in each reader (capcsc.c:452-460), also when cards moved while  *)
(* the thread listed readers, or was telling of an earlier move.           *)
CardsTold ==
    \A n \in Names : <>[](n \in plugged => shown[n] = IF Present(n) THEN inside[n] ELSE 0)

(* When the readers have come to rest the application knows those plugged  *)
(* in and no other (capcsc.c:152-160).                                     *)
ReadersTold == \A n \in Names : <>[](n \in known <=> n \in plugged)
=============================================================================
