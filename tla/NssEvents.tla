------------------------------ MODULE NssEvents ------------------------------
(***************************************************************************)
(* The callers of VReader in vcard_emul_nss.c, for one reader: the start   *)
(* up of vcard_emul_init, the event thread that adds readers for new slots *)
(* and follows the token in a slot, and the application's thread, which    *)
(* may force a removal or an insertion and may replay the insertion        *)
(* events.  The PKCS #11 token is external: it comes and goes by itself.   *)
(* PK11_IsPresent notices a new token and gives the slot a new series, so  *)
(* series are the generations of the token; 0 is "no token" and the        *)
(* initial vreader_emul->series.                                           *)
(***************************************************************************)
EXTENDS VReader

CONSTANTS
    EventThread, Main,  \* the two writers
    Kinds,              \* the readers of the instance: "soft" has a saved card and
                        \* no token events, "still" and "moving" are hardware slots
                        \* found at start up, "new" is a slot that appears later
    Moving,             \* those whose token comes and goes
    Calling,            \* those for which the application calls
    Early,              \* whether the token may move during vcard_emul_init
    Commands,           \* what the application's thread may call
    MaxCommands,        \* bound on those calls
    MaxSeries,          \* bound on the tokens put into the slot
    Unreadable          \* tokens without certificates: no card mirrors them

ASSUME WriterAssumption == Writers = {EventThread, Main} /\ EventThread # Main
ASSUME InstanceAssumption ==
    /\ Kinds \subseteq {"soft", "still", "moving", "new"}
    /\ Moving \subseteq Kinds \ {"soft"} /\ Calling \subseteq Kinds \ {"new"}
    /\ Early \in BOOLEAN
    /\ MaxCommands \in Nat /\ MaxSeries \in Nat
    /\ Commands \subseteq {"remove", "insert", "replay"}
    /\ Unreadable \subseteq Nat

VARIABLES
    token,      \* the token in the slot, 0 for none
    gen,        \* tokens so far
    changed,    \* a slot event SECMOD_WaitForAnyTokenEvent has not returned
    present,    \* vreader_emul->present
    series,     \* vreader_emul->series
    seen,       \* the event thread's local variable series
    own,        \* the reference of a writer to the card it just made
    mirror,     \* the token each card was made from
    saved,      \* vreader_emul->saved_vcard
    commands,   \* calls of the application so far
    known,      \* the slot has a reader
    missed,     \* the token that was in a new slot when its reader was added
    kind        \* the kind of this reader

slot == <<known, missed, kind>>
emulVars == <<token, gen, changed, present, series, seen, own, mirror, saved, commands, slot>>
vars == <<readerVars, emulVars>>

Init ==
    /\ vreader_new
    /\ kind \in Kinds
    /\ token \in (IF kind = "soft" THEN {1} ELSE {0, 1}) /\ gen = token
    /\ changed = (kind = "new") /\ known = (kind # "new") /\ missed = 0
    /\ present = FALSE /\ series = 0 /\ seen = 0
    /\ pc = [t \in Writers |-> IF kind = "new" THEN IF t = Main THEN "idle" ELSE "wait"
                               ELSE IF t = Main THEN "start" ELSE "off"]
    /\ ret = [t \in Writers |-> "off"]
    /\ own = [t \in Writers |-> None]
    /\ mirror = [c \in Cards |-> 0]
    /\ saved = None /\ commands = 0

Started == pc[EventThread] # "off"

(* parts of the reader a step of the emulator leaves alone *)
Untouched == UNCHANGED <<card, event, told, evtype, evcard, held>>
Goto(t, label) == pc' = [pc EXCEPT ![t] = label] /\ UNCHANGED <<ret, arg>>

-----------------------------------------------------------------------------
(* The token.  A change is a slot event.                                   *)
TokenMoves == kind \in Moving /\ (Early \/ Started)

TokenInsert ==
    /\ TokenMoves /\ token = 0 /\ gen < MaxSeries
    /\ gen' = gen + 1 /\ token' = gen + 1 /\ changed' = TRUE
    /\ UNCHANGED <<readerVars, present, series, seen, own, mirror, saved, commands, slot>>

TokenRemove ==
    /\ TokenMoves /\ token # 0
    /\ token' = 0 /\ changed' = TRUE
    /\ UNCHANGED <<readerVars, gen, present, series, seen, own, mirror, saved, commands, slot>>

(* vcard_emul_mirror_card, vcard_emul_make_card: a new card with one       *)
(* reference, or NULL when no certificate is found; its caller inserts it  *)
Unborn == {c \in Cards : refs[c] = 0 /\ c \notin freed}
MirrorCard(t, next) ==
    LET found == token # 0 /\ token \notin Unreadable
        c == IF found THEN CHOOSE x \in Unborn : TRUE ELSE None
    IN  /\ found => Unborn # {}
        /\ CallInsert(t, c, next)
        /\ own' = [own EXCEPT ![t] = c]
        /\ refs' = vcard_reference(refs, c)
        /\ mirror' = IF c = None THEN mirror ELSE [mirror EXCEPT ![c] = token]
        /\ UNCHANGED <<queue, freed, token, gen, changed, saved, commands, slot>>
        /\ Untouched

(* variant for mutation: the caller's reference is forgotten *)
ForgetOwn(t) == own' = [own EXCEPT ![t] = None] /\ UNCHANGED <<refs, freed>>

(* the caller's vcard_free once the card is in the reader *)
DropOwn(t) ==
    /\ refs' = vcard_free(refs, own[t])
    /\ freed' = freed \cup Destroyed(refs, own[t])
    /\ own' = [own EXCEPT ![t] = None]

-----------------------------------------------------------------------------
(* vcard_emul_init: the reader is added, and the card if there is a token  *)
Start ==
    /\ pc[Main] = "start"
    /\ queue' = vevent_queue(queue, [type |-> "READER_INSERT", card |-> None])
    /\ pc' = IF token # 0 THEN [pc EXCEPT ![Main] = "start_mirror"]
             ELSE [pc EXCEPT ![Main] = "idle", ![EventThread] = "wait"]
    /\ Untouched
    /\ UNCHANGED <<refs, freed, ret, arg, emulVars>>

StartMirror ==
    /\ pc[Main] = "start_mirror"
    /\ MirrorCard(Main, "init_series")
    /\ UNCHANGED <<present, series, seen>>

(* vcard_emul_init_series *)
InitSeries ==
    /\ pc[Main] = "init_series"
    /\ present' = (token # 0) /\ series' = token
    /\ IF token = 0 THEN CallInsert(Main, None, "init_drop") ELSE Goto(Main, "init_drop")
    /\ Untouched
    /\ UNCHANGED <<queue, refs, freed, token, gen, changed, seen, own, mirror, saved, commands, slot>>

(* a soft card is saved; the event thread starts for hardware only *)
InitDrop ==
    /\ pc[Main] = "init_drop"
    /\ IF kind = "soft"
       THEN saved' = own[Main] /\ own' = [own EXCEPT ![Main] = None] /\ UNCHANGED <<refs, freed>>
       ELSE DropOwn(Main) /\ UNCHANGED saved
    /\ pc' = [pc EXCEPT ![Main] = "idle", ![EventThread] = IF kind = "soft" THEN "off" ELSE "wait"]
    /\ Untouched
    /\ UNCHANGED <<queue, ret, arg, token, gen, changed, present, series, seen, mirror, commands, slot>>

-----------------------------------------------------------------------------
(* vcard_emul_event_thread *)
Wake ==
    /\ pc[EventThread] = "wait" /\ changed /\ known
    /\ changed' = FALSE
    /\ Goto(EventThread, "look")
    /\ Untouched
    /\ UNCHANGED <<queue, refs, freed, token, gen, present, series, seen, own, mirror, saved, commands, slot>>

(* the slot has no reader: it is added, the token in it is not looked at.  *)
(* A token that moves before the thread waits again is another slot event. *)
AddReader ==
    /\ pc[EventThread] = "wait" /\ changed /\ ~known
    /\ changed' = FALSE /\ known' = TRUE /\ missed' = token
    /\ queue' = vevent_queue(queue, [type |-> "READER_INSERT", card |-> None])
    /\ Untouched
    /\ UNCHANGED <<refs, freed, pc, ret, arg, token, gen, present, series, seen, own, mirror,
                   saved, commands, kind>>

(* PK11_IsPresent and PK11_GetSlotSeries *)
Look ==
    /\ pc[EventThread] = "look"
    /\ seen' = token
    /\ LET after == IF token # 0 THEN "mirror" ELSE "gone"
       IN  IF token # 0 /\ token = series THEN Goto(EventThread, "same")
           ELSE IF present THEN CallInsert(EventThread, None, after)
           ELSE Goto(EventThread, after)
    /\ Untouched
    /\ UNCHANGED <<queue, refs, freed, token, gen, changed, present, series, own, mirror, saved, commands, slot>>

Mirror ==
    /\ pc[EventThread] = "mirror"
    /\ MirrorCard(EventThread, "same")
    /\ UNCHANGED <<present, series, seen>>

(* variant for mutation: the series is asked for again after the mirroring *)
SeriesNow == token

(* what the thread remembers after a token it found in the slot *)
SeriesSeen == seen
Same ==
    /\ pc[EventThread] = "same"
    /\ DropOwn(EventThread)
    /\ series' = SeriesSeen /\ present' = TRUE
    /\ Goto(EventThread, "wait")
    /\ Untouched
    /\ UNCHANGED <<queue, token, gen, changed, seen, mirror, saved, commands, slot>>

Gone ==
    /\ pc[EventThread] = "gone"
    /\ series' = 0 /\ present' = FALSE
    /\ Goto(EventThread, "wait")
    /\ Untouched
    /\ UNCHANGED <<queue, refs, freed, token, gen, changed, seen, own, mirror, saved, commands, slot>>

-----------------------------------------------------------------------------
(* The application's thread.  vreader_card_is_present comes first, on its  *)
(* own; the reader may change before the insertion.                        *)
MayCall(command) ==
    /\ pc[Main] = "idle" /\ kind \in Calling
    /\ command \in Commands /\ commands < MaxCommands
    /\ commands' = commands + 1
    /\ Untouched
    /\ UNCHANGED <<queue, refs, freed, token, gen, changed, present, series, seen, own, mirror, saved, slot>>

ForceRemove == MayCall("remove") /\ card # None /\ CallInsert(Main, None, "idle")
ForceInsert == MayCall("insert") /\ card = None /\ Goto(Main, "reinsert")
Replay == MayCall("replay") /\ CallQueueCardEvent(Main, "idle")

(* the saved soft card, or the token if there still is one *)
ReinsertSaved ==
    /\ pc[Main] = "reinsert" /\ saved # None
    /\ own' = [own EXCEPT ![Main] = saved]
    /\ refs' = vcard_reference(refs, saved)
    /\ CallInsert(Main, saved, "drop")
    /\ Untouched
    /\ UNCHANGED <<queue, freed, token, gen, changed, present, series, seen, mirror, saved, commands, slot>>

ReinsertToken ==
    /\ pc[Main] = "reinsert" /\ saved = None
    /\ Goto(Main, IF token = 0 THEN "idle" ELSE "remirror")
    /\ Untouched
    /\ UNCHANGED <<queue, refs, freed, emulVars>>

Remirror ==
    /\ pc[Main] = "remirror"
    /\ MirrorCard(Main, "drop")
    /\ UNCHANGED <<present, series, seen>>

Drop ==
    /\ pc[Main] = "drop"
    /\ DropOwn(Main)
    /\ Goto(Main, "idle")
    /\ Untouched
    /\ UNCHANGED <<queue, token, gen, changed, present, series, seen, mirror, saved, commands, slot>>

-----------------------------------------------------------------------------
Token == TokenInsert \/ TokenRemove
Initialise == Start \/ StartMirror \/ InitSeries \/ InitDrop
EventThreadStep == Wake \/ AddReader \/ Look \/ Mirror \/ Same \/ Gone
Application == ForceRemove \/ ForceInsert \/ Replay
ApplicationStep == ReinsertSaved \/ ReinsertToken \/ Remirror \/ Drop

Next ==
    \/ Token \/ Initialise \/ EventThreadStep \/ Application \/ ApplicationStep
    \/ ConsumerStep /\ UNCHANGED emulVars
    \/ \E t \in Writers : WriterStep(t) /\ UNCHANGED emulVars
    \/ \E u \in Users : UserStep(u) /\ UNCHANGED emulVars

(* The threads run: a thread that can take a step some day takes one.  The *)
(* token need not move and the application need not call anything.         *)
Fairness ==
    /\ WF_vars(ConsumerStep /\ UNCHANGED emulVars)
    /\ \A t \in Writers : WF_vars(WriterStep(t) /\ UNCHANGED emulVars)
    /\ WF_vars(Initialise) /\ WF_vars(EventThreadStep) /\ WF_vars(ApplicationStep)
    /\ \A u \in Users : WF_vars(FreeCard(u) /\ UNCHANGED emulVars)

Spec == Init /\ [][Next]_vars /\ Fairness

-----------------------------------------------------------------------------
(* A card that anything still points to is not destroyed: the reader, the  *)
(* saved card, a queued event, the event being handled, an APDU or a reset *)
(* in flight, an insertion under way, or a thread about to reference the   *)
(* card it read for its event.                                             *)
PointersAlive ==
    /\ card \notin freed /\ saved \notin freed
    /\ \A i \in DOMAIN queue : queue[i].card \notin freed
    /\ event # None => event.card \notin freed
    /\ \A u \in Users : held[u] \notin freed
    /\ \A t \in Writers : own[t] \notin freed /\ evcard[t] \notin freed
    /\ \A t \in Writers : pc[t] = "insert" => arg[t] \notin freed

(* The count of a card is the number of its owners, so that a card nothing *)
(* owns has been destroyed and none leaks.                                 *)
Holders(c) ==
    LET one(p) == IF p THEN 1 ELSE 0
    IN  one(card = c) + one(saved = c) + one(event # None /\ event.card = c)
        + Cardinality({i \in DOMAIN queue : queue[i].card = c})
        + Cardinality({u \in Users : held[u] = c})
        + Cardinality({t \in Writers : own[t] = c})
CountExact == \A c \in Cards : refs[c] = Holders(c) /\ (c \in freed => refs[c] = 0)

(* Once the event thread has handled every slot event, and no command of   *)
(* the application has come between, the reader holds the card made from   *)
(* the token that is in the slot, and none for an empty slot or a token    *)
(* that cannot be read.  The token a new slot appears with is not mirrored *)
(* (vcard_emul_nss.c:838); every later one in that slot is.                *)
Mirrored(c, n) ==
    IF n = 0 \/ n = missed \/ n \in Unreadable THEN c = None
    ELSE c # None /\ mirror[c] = n
Settled == pc[EventThread] = "wait" /\ ~changed
SlotMirrorsToken == kind \notin Calling /\ Settled => Mirrored(card, token)

(* What the application is told of a token that stays: if it can be read,  *)
(* in the end the last event is the insertion of the card made from it; if *)
(* it is gone, the last event is a removal.                                *)
TokenTold ==
    kind \in Moving =>
        \A n \in 0..MaxSeries : token = n ~> (token # n \/ Mirrored(told.card, n))

(* ReaderEvents, seen through the queue: the changes of which no event has *)
(* been delivered are those of the card events queued, and those a writer  *)
(* has made and not queued yet.  The event of the reader itself is its     *)
(* first one, so that it is at the head of the queue or gone.              *)
Leading == IF queue # <<>> /\ queue[1].type = "READER_INSERT" THEN 1 ELSE 0
QueuedCards == [i \in 1 .. Len(queue) - Leading |-> queue[i + Leading].card]
Unqueued == {t \in Writers : pc[t] = "event"}
Owed == QueuedCards \o (IF Unqueued = {} THEN <<>> ELSE <<arg[CHOOSE t \in Unqueued : TRUE]>>)
Told == INSTANCE ReaderEvents WITH owed <- Owed, told <- told.card

(* With one writer at a time the reader and its queue implement that: one  *)
(* event for each insertion and each removal, in order, none lost.         *)
ToldOnceInOrder == Told!Spec

(* The events as docs/libcacard.txt promises them ("one event for each     *)
(* card insertion, each card removal"): a removal is told only of a reader *)
(* the application was told holds a card.                                  *)
History == <<told.card>> \o QueuedCards
OneEventEach == \A i \in 1..Len(History) - 1 : ~(History[i] = None /\ History[i + 1] = None)

(* The events as the comment on vreader_queue_card_event promises them     *)
(* ("based on vreader state"): when no writer is at work, the last event   *)
(* queued tells what the reader holds.                                     *)
AtRest == \A t \in Writers : pc[t] \in {"off", "wait", "idle"}
LastEventTellsState == AtRest => History[Len(History)] = card
=============================================================================
