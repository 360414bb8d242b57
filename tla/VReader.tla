------------------------------- MODULE VReader -------------------------------
(***************************************************************************)
(* One reader (vreader.c) and the event queue (event.c): the card in the   *)
(* reader, the references to cards, the events queued and the thread that  *)
(* waits for them.  Writers are threads that call vreader_insert_card or   *)
(* vreader_queue_card_event; Users call vreader_xfr_bytes, vreader_power_on*)
(* or vreader_power_off; the consumer calls vevent_wait_next_vevent.       *)
(*                                                                         *)
(* A critical section of the reader's lock or of the queue's lock is one   *)
(* step, and so is one change of a card's reference count (RefCount looks  *)
(* inside those).  vreader_queue_card_event reads reader->card twice       *)
(* without the lock, in an order C leaves open: two steps, in any order.   *)
(***************************************************************************)
EXTENDS Integers, Sequences, FiniteSets

CONSTANTS
    Cards,      \* the VCard objects that may be created
    Writers,
    Users,
    None,       \* the null pointer
    Unread      \* an argument of vevent_new not evaluated yet

ASSUME PointerAssumption == None \notin Cards /\ Unread \notin Cards /\ None # Unread
ASSUME UsersAssumption == IsFiniteSet(Users)

VARIABLES
    card,       \* reader->card
    queue,      \* vevent_queue_head ... vevent_queue_tail
    event,      \* the event the consumer holds, or None
    told,       \* the last card event the consumer was given
    refs,       \* reference_count of each card
    freed,      \* cards destroyed
    pc,         \* where each writer is
    ret,        \* where a writer goes on after vreader_insert_card
    arg,        \* the card argument of vreader_insert_card
    evtype,     \* vreader_queue_card_event: the first read of reader->card
    evcard,     \* and the second
    held        \* the reference of a user, from vreader_get_card

readerVars == <<card, queue, event, told, refs, freed, pc, ret, arg, evtype, evcard, held>>

CardOrNull == Cards \cup {None}
Type == {"READER_INSERT", "CARD_INSERT", "CARD_REMOVE"}
Event == [type : Type, card : CardOrNull]

ASSUME EventAssumption == None \notin Event

(* vcard_reference and vcard_free; freeing the last reference destroys     *)
vcard_reference(r, c) == IF c = None THEN r ELSE [r EXCEPT ![c] = @ + 1]
vcard_free(r, c) == IF c = None THEN r ELSE [r EXCEPT ![c] = @ - 1]
Destroyed(r, c) == IF c # None /\ r[c] = 1 THEN {c} ELSE {}

(* A reader starts without a card and nothing queued *)
vreader_new ==
    /\ card = None /\ queue = <<>> /\ event = None
    /\ told = [type |-> "CARD_REMOVE", card |-> None]
    /\ refs = [c \in Cards |-> 0] /\ freed = {}
    /\ arg = [t \in Writers |-> None]
    /\ evtype = [t \in Writers |-> Unread] /\ evcard = [t \in Writers |-> Unread]
    /\ held = [u \in Users |-> None]

-----------------------------------------------------------------------------
(* A writer t calls vreader_insert_card(reader, c) and goes on at next     *)
CallInsert(t, c, next) ==
    /\ arg' = [arg EXCEPT ![t] = c]
    /\ pc' = [pc EXCEPT ![t] = "insert"]
    /\ ret' = [ret EXCEPT ![t] = next]

(* ... or vreader_queue_card_event(reader) alone *)
CallQueueCardEvent(t, next) ==
    /\ pc' = [pc EXCEPT ![t] = "event"]
    /\ ret' = [ret EXCEPT ![t] = next]
    /\ UNCHANGED arg

(* the card goes into the reader, under the lock: what the reader had is   *)
(* freed, the new card is referenced                                       *)
SwapCard(c) ==
    /\ card' = c
    /\ refs' = vcard_reference(vcard_free(refs, card), c)
    /\ freed' = freed \cup Destroyed(refs, card)

InsertCard(t) ==
    /\ pc[t] = "insert"
    /\ SwapCard(arg[t])
    /\ pc' = [pc EXCEPT ![t] = "event"]
    /\ UNCHANGED <<queue, event, told, ret, arg, evtype, evcard, held>>

(* the lock is released; the arguments of vevent_new read reader->card     *)
ReadType(t) ==
    /\ pc[t] = "event" /\ evtype[t] = Unread
    /\ evtype' = [evtype EXCEPT ![t] = IF card = None THEN "CARD_REMOVE" ELSE "CARD_INSERT"]
    /\ UNCHANGED <<card, queue, event, told, refs, freed, pc, ret, arg, evcard, held>>

ReadCard(t) ==
    /\ pc[t] = "event" /\ evcard[t] = Unread
    /\ evcard' = [evcard EXCEPT ![t] = card]
    /\ UNCHANGED <<card, queue, event, told, refs, freed, pc, ret, arg, evtype, held>>

(* variant for mutation: at the head *)
vevent_push(q, e) == <<e>> \o q

(* variant for mutation: the new event is not linked to the tail *)
vevent_unlinked(q, e) == IF q = <<>> THEN <<e>> ELSE q

(* vevent_queue_vevent: at the tail *)
vevent_queue(q, e) == Append(q, e)

(* the reference an event holds to its card *)
EventReference(c) == vcard_reference(refs, c)

(* vevent_new references the card it was given; the event is queued *)
QueueEvent(t) ==
    /\ pc[t] = "event" /\ evtype[t] # Unread /\ evcard[t] # Unread
    /\ refs' = EventReference(evcard[t])
    /\ queue' = vevent_queue(queue, [type |-> evtype[t], card |-> evcard[t]])
    /\ evtype' = [evtype EXCEPT ![t] = Unread]
    /\ evcard' = [evcard EXCEPT ![t] = Unread]
    /\ pc' = [pc EXCEPT ![t] = ret[t]]
    /\ UNCHANGED <<card, event, told, freed, ret, arg, held>>

-----------------------------------------------------------------------------
(* vevent_wait_next_vevent sleeps until the queue holds an event           *)
WaitNextEvent ==
    /\ event = None /\ queue # <<>>
    /\ event' = Head(queue) /\ queue' = Tail(queue)
    /\ told' = IF Head(queue).type = "READER_INSERT" THEN told ELSE Head(queue)
    /\ UNCHANGED <<card, refs, freed, pc, ret, arg, evtype, evcard, held>>

(* vevent_delete *)
DeleteEvent ==
    /\ event # None
    /\ refs' = vcard_free(refs, event.card)
    /\ freed' = freed \cup Destroyed(refs, event.card)
    /\ event' = None
    /\ UNCHANGED <<card, queue, told, pc, ret, arg, evtype, evcard, held>>

(* vreader_get_card, under the lock; without a card the call answers       *)
(* VREADER_NO_CARD and changes nothing                                     *)
(* variant for mutation: the card is used without a reference *)
UserBorrows(c) == refs
UserReference(c) == vcard_reference(refs, c)
GetCard(u) ==
    /\ held[u] = None /\ card # None
    /\ held' = [held EXCEPT ![u] = card]
    /\ refs' = UserReference(card)
    /\ UNCHANGED <<card, queue, event, told, freed, pc, ret, arg, evtype, evcard>>

(* the APDU or the reset is done (module VCard) and the reference is freed *)
FreeCard(u) ==
    /\ held[u] # None
    /\ refs' = vcard_free(refs, held[u])
    /\ freed' = freed \cup Destroyed(refs, held[u])
    /\ held' = [held EXCEPT ![u] = None]
    /\ UNCHANGED <<card, queue, event, told, pc, ret, arg, evtype, evcard>>

WriterStep(t) == InsertCard(t) \/ ReadType(t) \/ ReadCard(t) \/ QueueEvent(t)
ConsumerStep == WaitNextEvent \/ DeleteEvent
UserStep(u) == GetCard(u) \/ FreeCard(u)
=============================================================================
