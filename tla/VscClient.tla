------------------------------- MODULE VscClient -------------------------------
(***************************************************************************)
(* vscclient, the application in the tree: it tells the host (the virtual  *)
(* CCID reader in qemu) of the readers and cards of the library over a     *)
(* socket and passes the host's APDUs on to them.  Two threads work: the   *)
(* main loop (socket and command line) and the event thread, which waits   *)
(* for library events and, after announcing a reader, for the host's       *)
(* decision on it.                                                         *)
(*                                                                         *)
(* The library is what module ReaderEvents promises: every change of a     *)
(* reader is queued once and in order.  The host is external: it answers   *)
(* the message types of HostAnswers with VSC_Error, has Capacity places    *)
(* for readers, and refuses a further one with a code of AddErrors.        *)
(* A message is one chunk on the wire when it is only a header, else two.  *)
(***************************************************************************)
EXTENDS Integers, Sequences, FiniteSets, SequencesExt

CONSTANTS
    NumReaders,     \* the readers, in the order of the reader list
    Capacity,       \* readers the host can take
    HostAnswers,    \* message types the host answers with VSC_Error
    AddErrors,      \* codes of its refusals
    MaxMoves,       \* card changes in a behaviour
    MaxRequests,    \* APDUs and Flushes the host sends
    Exits           \* is the command exit given?

ASSUME ClientAssumption ==
    /\ NumReaders \in Nat \ {0} /\ Capacity \in 0..NumReaders
    /\ HostAnswers \subseteq {"ReaderAdd", "ReaderRemove", "CardRemove"}
    /\ AddErrors \subseteq {"CANNOT_ADD_MORE_READERS", "GENERAL_ERROR"}
    /\ MaxMoves \in Nat /\ MaxRequests \in Nat /\ Exits \in BOOLEAN

Readers == 1..NumReaders
None == 0
Ids == 0..(NumReaders - 1)
Undefined == -1     \* VSCARD_UNDEFINED_READER_ID

VARIABLES
    present, events, moves,     \* the library: is a card in each reader, the queue
    id,                         \* VReader.id as the host set it
    pc, event,                  \* the event thread and the event in its hand
    pending,                    \* pending_reader
    socket_to_send,             \* messages send_msg queued
    state, mhHeader,            \* do_socket_read: static state and header
    exited,                     \* exit(0) was called
    toHost, toClient,           \* the socket, one sequence for each direction
    slots,                      \* the host's places: "none", "empty" or "card"
    allocated,                  \* the id the host gave each reader's ReaderAdd
    asked, answered,            \* the host's requests and the answers it got
    lost                        \* an event of an accepted reader was deleted

library == <<present, events, moves>>
thread == <<pc, event, lost>>
socket == <<state, mhHeader>>
host == <<slots, allocated, asked, answered>>
wire == <<toHost, toClient>>
vars == <<library, id, thread, pending, socket_to_send, socket, exited, wire, host>>

(* about, n, re and genuine are not on the wire: the reader a message      *)
(* concerns, the request it belongs to, the type it answers, and whether   *)
(* its ATR was read from a card                                            *)
Message(type, i, code, r, n, re) ==
    [type |-> type, id |-> i, code |-> code, about |-> r, n |-> n, re |-> re, genuine |-> TRUE]

(* send_msg leaves reader_id 0 in the header whatever id it is given *)
send_msg(type, i, r, n) == Message(type, 0, "none", r, n, "none")

-----------------------------------------------------------------------------
(* The library: each reader's insertion is queued by vcard_emul_init, and  *)
(* that of a card that is there already; cards come and go after that.     *)
LibraryEvent(type, r) == [type |-> type, reader |-> r]
CardEvent(r, in) == LibraryEvent(IF in THEN "CARD_INSERT" ELSE "CARD_REMOVE", r)

InitialEvents(r) ==
    <<LibraryEvent("READER_INSERT", r)>> \o
    (IF present[r] THEN <<CardEvent(r, TRUE)>> ELSE <<>>)

Init ==
    /\ present \in [Readers -> BOOLEAN]
    /\ events = FlattenSeq([r \in Readers |-> InitialEvents(r)])
    /\ moves = 0
    /\ id = [r \in Readers |-> Undefined]
    /\ pc = "off" /\ event = LibraryEvent("none", None) /\ lost = FALSE
    /\ pending = None
    /\ socket_to_send = <<send_msg("Init", 0, None, 0)>>
    /\ state = "HEADER" /\ mhHeader = send_msg("none", 0, None, 0)
    /\ exited = FALSE
    /\ toHost = <<>> /\ toClient = <<>>
    /\ slots \in {[i \in Ids |-> IF i = 0 THEN left ELSE "none"] :
                    left \in IF Capacity = 0 THEN {"none"} ELSE {"none", "empty", "card"}}
    /\ allocated = [r \in Readers |-> Undefined]
    /\ asked = 0 /\ answered = <<>>

Move(r) ==
    /\ moves < MaxMoves
    /\ present' = [present EXCEPT ![r] = ~@]
    /\ events' = Append(events, CardEvent(r, ~present[r]))
    /\ moves' = moves + 1

(* Somebody puts in or takes out a card *)
CardMoves(r) ==
    /\ Move(r) /\ ~exited
    /\ UNCHANGED <<id, thread, pending, socket_to_send, socket, exited, wire, host>>

-----------------------------------------------------------------------------
(* The event thread.  It takes an event and reads the id of its reader. *)
Stays(r) == id[r] = Undefined

TakeEvent ==
    /\ pc = "idle" /\ events # <<>> /\ ~exited
    /\ event' = Head(events) /\ events' = Tail(events)
    /\ pc' = IF event'.type = "READER_INSERT" THEN "insert"
             ELSE IF Stays(event'.reader) THEN "check" ELSE "forward"
    /\ UNCHANGED <<present, moves, id, pending, lost, socket_to_send, socket, exited, wire, host>>

Delete ==
    /\ pc' = "idle"
    /\ lost' = (lost \/ id[event.reader] # Undefined)
    /\ UNCHANGED event

(* Under the lock: no id was seen, and the reader is not the one the host *)
(* is still deciding on, so the event is deleted ...                      *)
DropUnlessPending ==
    /\ pc = "check" /\ ~exited
    /\ pending # event.reader
    /\ Delete
    /\ UNCHANGED <<library, id, pending, socket_to_send, socket, exited, wire, host>>

(* variant for mutation: the event is deleted without waiting for the host *)
WaitForNothing ==
    /\ pc = "check" /\ ~exited
    /\ pending = event.reader
    /\ Delete
    /\ UNCHANGED <<library, id, pending, socket_to_send, socket, exited, wire, host>>

(* ... or it is, and the thread waits for the decision ... *)
WaitForDecision ==
    /\ pc = "check" /\ ~exited
    /\ pending = event.reader
    /\ pc' = "decision"
    /\ UNCHANGED <<library, id, event, lost, pending, socket_to_send, socket, exited, wire, host>>

(* ... and looks at the id again *)
Decided ==
    /\ pc = "decision" /\ pending = None /\ ~exited
    /\ IF Stays(event.reader) THEN Delete ELSE pc' = "forward" /\ UNCHANGED <<event, lost>>
    /\ UNCHANGED <<library, id, pending, socket_to_send, socket, exited, wire, host>>

(* variant for mutation: a reader is announced while another one is pending *)
TurnNotAwaited == TRUE

(* READER_INSERT: one reader at a time *)
Turn == pending = None

ReaderInsert ==
    /\ pc = "insert" /\ Turn /\ ~exited
    /\ pending' = event.reader
    /\ pc' = "announce"
    /\ UNCHANGED <<library, id, event, lost, socket_to_send, socket, exited, wire, host>>

Announce ==
    /\ pc = "announce" /\ ~exited
    /\ socket_to_send' = Append(socket_to_send, send_msg("ReaderAdd", Undefined, event.reader, 0))
    /\ pc' = "idle"
    /\ UNCHANGED <<library, id, event, lost, pending, socket, exited, wire, host>>

(* CARD_INSERT powers the card on for its ATR, which stays unset when the  *)
(* card has gone in the meantime                                           *)
CardMessage ==
    LET r == event.reader
    IN IF event.type = "CARD_INSERT"
       THEN [send_msg("ATR", id[r], r, 0) EXCEPT !.genuine = present[r]]
       ELSE send_msg("CardRemove", id[r], r, 0)

Forward ==
    /\ pc = "forward" /\ ~exited
    /\ socket_to_send' = Append(socket_to_send, CardMessage)
    /\ pc' = "idle"
    /\ UNCHANGED <<library, id, event, lost, pending, socket, exited, wire, host>>

-----------------------------------------------------------------------------
(* The main loop.  do_socket_send writes what the socket takes. *)
SocketSend ==
    /\ socket_to_send # <<>> /\ ~exited
    /\ toHost' = Append(toHost, Head(socket_to_send))
    /\ socket_to_send' = Tail(socket_to_send)
    /\ UNCHANGED <<library, id, thread, pending, socket, exited, toClient, host>>

Chunks(m) ==
    <<[part |-> "header", m |-> m]>> \o
    (IF m.type = "Flush" THEN <<>> ELSE <<[part |-> "body", m |-> m]>>)

(* do_socket_read is called when there is input *)
Readable == toClient # <<>> /\ ~exited

ReadHeader ==
    /\ Readable /\ state = "HEADER"
    /\ mhHeader' = Head(toClient).m
    /\ toClient' = Tail(toClient)
    /\ state' = "MESSAGE"
    /\ UNCHANGED <<library, id, thread, pending, socket_to_send, exited, toHost, host>>

(* variant for mutation: a payload is read for Flush as well *)
ReadPayloadAlways(type) ==
    /\ Readable /\ state = "MESSAGE" /\ mhHeader.type = type
    /\ toClient' = Tail(toClient)
    /\ state' = "HEADER"
    /\ UNCHANGED <<library, mhHeader, exited, toHost, host>>

(* The payload is read (there is none to read for Flush) and handled *)
ReadMessage(type) ==
    /\ Readable /\ state = "MESSAGE" /\ mhHeader.type = type
    /\ toClient' = IF type = "Flush" THEN toClient ELSE Tail(toClient)
    /\ state' = "HEADER"
    /\ UNCHANGED <<library, mhHeader, exited, toHost, host>>

vreader_get_reader_by_id(i) ==
    LET found == {r \in Readers : i # Undefined /\ id[r] = i}
    IN IF found = {} THEN None ELSE CHOOSE r \in found : \A q \in found : r <= q

(* variant for mutation: no answer when there is no card *)
ApduSilent ==
    /\ ReadMessage("APDU")
    /\ LET r == vreader_get_reader_by_id(mhHeader.id)
       IN socket_to_send' = IF r # None /\ present[r]
                            THEN Append(socket_to_send, send_msg("APDU", mhHeader.id, r, mhHeader.n))
                            ELSE socket_to_send
    /\ UNCHANGED <<id, thread, pending>>

(* VSC_APDU: the card's answer, or VSC_Error without reader or card *)
OnApdu ==
    /\ ReadMessage("APDU")
    /\ LET r == vreader_get_reader_by_id(mhHeader.id)
           type == IF r # None /\ present[r] THEN "APDU" ELSE "Error"
       IN socket_to_send' = Append(socket_to_send, send_msg(type, mhHeader.id, r, mhHeader.n))
    /\ UNCHANGED <<id, thread, pending>>

OnFlush ==
    /\ ReadMessage("Flush")
    /\ socket_to_send' = Append(socket_to_send,
                                send_msg("FlushComplete", mhHeader.id, None, mhHeader.n))
    /\ UNCHANGED <<id, thread, pending>>

(* VSC_Error with VSC_SUCCESS: the pending reader, if any, gets the id *)
OnSuccess ==
    /\ ReadMessage("Error") /\ mhHeader.code = "SUCCESS"
    /\ IF pending = None
       THEN UNCHANGED <<id, pending>>
       ELSE id' = [id EXCEPT ![pending] = mhHeader.id] /\ pending' = None
    /\ UNCHANGED <<thread, socket_to_send>>

(* variant for mutation: a refused reader takes the id of the message *)
OnRefusalAccepts ==
    /\ ReadMessage("Error") /\ mhHeader.code # "SUCCESS"
    /\ id' = IF pending = None THEN id ELSE [id EXCEPT ![pending] = 0]
    /\ pending' = None
    /\ UNCHANGED <<thread, socket_to_send>>

(* variant for mutation: the refused reader stays pending *)
OnRefusalForgets ==
    /\ ReadMessage("Error") /\ mhHeader.code # "SUCCESS"
    /\ UNCHANGED <<id, pending, thread, socket_to_send>>

(* Any other code is a refusal; only one of them ends the wait *)
OnRefusal ==
    /\ ReadMessage("Error") /\ mhHeader.code # "SUCCESS"
    /\ pending' = IF mhHeader.code = "CANNOT_ADD_MORE_READERS" THEN None ELSE pending
    /\ UNCHANGED <<id, thread, socket_to_send>>

(* on_host_init: an old reader of the host is removed, the thread starts *)
OnInit ==
    /\ ReadMessage("Init")
    /\ socket_to_send' = Append(socket_to_send, send_msg("ReaderRemove", 0, None, 0))
    /\ pc' = "idle"
    /\ UNCHANGED <<id, event, lost, pending>>

(* The commands insert and remove, for a reader named by its id *)
CardCommand(i) ==
    /\ vreader_get_reader_by_id(i) # None /\ ~exited
    /\ Move(vreader_get_reader_by_id(i))
    /\ UNCHANGED <<id, thread, pending, socket_to_send, socket, exited, wire, host>>

(* The command exit queues the removals and ends the program *)
Farewell(r) ==
    IF id[r] = Undefined THEN <<>>
    ELSE (IF present[r] THEN <<send_msg("CardRemove", id[r], r, 0)>> ELSE <<>>)
         \o <<send_msg("ReaderRemove", id[r], r, 0)>>

Exit ==
    /\ Exits /\ ~exited /\ exited' = TRUE
    /\ socket_to_send' = socket_to_send \o FlattenSeq([r \in Readers |-> Farewell(r)])
    /\ UNCHANGED <<library, id, thread, pending, socket, wire, host>>

-----------------------------------------------------------------------------
(* The host handles the messages in the order they come. *)
Receive(type) ==
    /\ toHost # <<>> /\ Head(toHost).type = type
    /\ toHost' = Tail(toHost)
    /\ UNCHANGED <<library, id, thread, pending, socket_to_send, socket, exited>>

Reply(code, i, m) == toClient' = toClient \o Chunks(Message("Error", i, code, m.about, 0, m.type))
ReplyTo(m) == IF m.type \in HostAnswers THEN Reply("SUCCESS", m.id, m) ELSE UNCHANGED toClient

HostInit ==
    /\ Receive("Init")
    /\ toClient' = toClient \o Chunks(Message("Init", 0, "none", None, 0, "none"))
    /\ UNCHANGED host

HostReaderRemove ==
    /\ Receive("ReaderRemove")
    /\ slots' = [slots EXCEPT ![Head(toHost).id] = "none"]
    /\ ReplyTo(Head(toHost))
    /\ UNCHANGED <<allocated, asked, answered>>

FreeSlots == {i \in Ids : i < Capacity /\ slots[i] = "none"}

HostReaderAdd ==
    /\ Receive("ReaderAdd")
    /\ LET r == Head(toHost).about
       IN \/ \E i \in FreeSlots :
                /\ \A j \in FreeSlots : i <= j
                /\ slots' = [slots EXCEPT ![i] = "empty"]
                /\ allocated' = [allocated EXCEPT ![r] = i]
                /\ Reply("SUCCESS", i, Head(toHost))
          \/ /\ FreeSlots = {}
             /\ \E code \in AddErrors : Reply(code, Undefined, Head(toHost))
             /\ UNCHANGED <<slots, allocated>>
    /\ UNCHANGED <<asked, answered>>

HostCard(type) ==
    /\ Receive(type)
    /\ LET i == Head(toHost).id
       IN slots' = [slots EXCEPT ![i] = IF @ = "none" THEN @
                                        ELSE IF type = "ATR" THEN "card" ELSE "empty"]
    /\ ReplyTo(Head(toHost))
    /\ UNCHANGED <<allocated, asked, answered>>

HostAnswered(type) ==
    /\ Receive(type)
    /\ answered' = Append(answered, Head(toHost).n)
    /\ UNCHANGED <<toClient, slots, allocated, asked>>

(* The host asks for the answer to an APDU, or for the end of all *)
HostAsks(type, i) ==
    /\ asked < MaxRequests /\ asked' = asked + 1
    /\ type = "APDU" => slots[i] = "card"
    /\ toClient' = toClient \o Chunks(Message(type, i, "none", None, asked + 1, "none"))
    /\ UNCHANGED <<library, id, thread, pending, socket_to_send, socket, exited, toHost,
                   slots, allocated, answered>>

-----------------------------------------------------------------------------
EventThread ==
    \/ TakeEvent \/ DropUnlessPending \/ WaitForDecision \/ Decided
    \/ ReaderInsert \/ Announce \/ Forward

SocketRead == ReadHeader \/ OnApdu \/ OnFlush \/ OnSuccess \/ OnRefusal \/ OnInit

HostHandles ==
    \/ HostInit \/ HostReaderRemove \/ HostReaderAdd
    \/ \E type \in {"ATR", "CardRemove"} : HostCard(type)
    \/ \E type \in {"APDU", "Error", "FlushComplete"} : HostAnswered(type)

Next ==
    \/ EventThread \/ SocketSend \/ SocketRead \/ HostHandles \/ Exit
    \/ \E r \in Readers : CardMoves(r)
    \/ \E i \in Ids : CardCommand(i)
    \/ \E i \in Ids : HostAsks("APDU", i)
    \/ HostAsks("Flush", 0)

(* The threads run, the main loop serves the socket in both directions and *)
(* the host handles what it gets.  Nobody need move a card, ask or exit.   *)
Fairness ==
    /\ WF_vars(EventThread) /\ WF_vars(SocketSend) /\ WF_vars(SocketRead)
    /\ WF_vars(HostHandles)

Spec == Init /\ [][Next]_vars /\ Fairness

-----------------------------------------------------------------------------
MessageTypes == {"none", "Init", "Error", "ReaderAdd", "ReaderRemove", "ATR", "CardRemove",
                 "APDU", "Flush", "FlushComplete"}
Codes == {"none", "SUCCESS"} \cup AddErrors

Queued == Range(socket_to_send \o toHost)

(* When everything is delivered, the host shows a card in the place of a   *)
(* reader exactly when there is one in the reader (send_msg and the event  *)
(* thread), unless the deletion told by lost happened.                     *)
Quiet == events = <<>> /\ pc = "idle" /\ pending = None /\ Queued = {} /\ toClient = <<>>

HostSeesCards ==
    Quiet /\ ~exited /\ ~lost =>
        \A r \in Readers : id[r] # Undefined /\ allocated[r] # Undefined =>
            slots[id[r]] = IF present[r] THEN "card" ELSE "empty"

(* The host's requests are answered one by one in the order they were      *)
(* made: FlushComplete comes after the answers to all earlier APDUs        *)
(* (do_socket_read).                                                       *)
AnswersInOrder == answered = [k \in 1..Len(answered) |-> k]

(* The reader of the socket is at a message boundary when it expects a     *)
(* header, and else at the payload of the header it has read, if that has  *)
(* one (the static state of do_socket_read).                               *)
Framed ==
    IF state = "HEADER"
    THEN toClient # <<>> => Head(toClient).part = "header"
    ELSE mhHeader.type # "Flush" => /\ toClient # <<>>
                                    /\ Head(toClient) = [part |-> "body", m |-> mhHeader]

(* At most one ReaderAdd is without an answer (event_thread waits for its  *)
(* turn, so that the answers cannot be confused).                          *)
Answers(m, r) == m.re = "ReaderAdd" /\ m.about = r
Unanswered(r) ==
    \/ \E m \in Queued : m.type = "ReaderAdd" /\ m.about = r
    \/ \E c \in Range(toClient) : Answers(c.m, r)
    \/ state = "MESSAGE" /\ Answers(mhHeader, r)

OneAddAtATime == \A r, q \in Readers : Unanswered(r) /\ Unanswered(q) => r = q

(* The host is told of cards only in readers it has accepted (the waits of *)
(* event_thread before it forwards a card event), and a reader has only    *)
(* the id the host allocated for it (the VSC_SUCCESS branch of             *)
(* do_socket_read gives the id to the pending reader).                     *)
AnnouncedFirst ==
    /\ \A r \in Readers : id[r] \in {Undefined, allocated[r]}
    /\ \A m \in Queued : m.type \in {"ATR", "CardRemove"} => allocated[m.about] # Undefined

(* An event is deleted only when the host has refused its reader (the      *)
(* check of event_thread under pending_reader_lock).                       *)
DeletedWereRefused == ~lost

(* Every ATR that is sent was read from a card (vreader_power_on in        *)
(* event_thread).                                                          *)
AtrIsTheCards == \A m \in Queued : m.type = "ATR" => m.genuine

(* After the command exit the host has no reader of the client left        *)
(* (do_command queues their removals).                                     *)
ExitRemovesReaders ==
    exited /\ toHost = <<>> =>
        \A r \in Readers : id[r] # Undefined => slots[id[r]] = "none"

(* The event thread never waits for ever for a decision on a reader        *)
(* (pending_reader_condition).                                             *)
Waiting == pc \in {"decision", "insert"}
WaitsEnd == Waiting ~> (~Waiting \/ exited)

(* Every APDU is answered (do_socket_read). *)
Requests(type) ==
    {c.m.n : c \in {d \in Range(toClient) : d.m.type = type}}
ApduAnswered ==
    \A k \in 1..MaxRequests : k \in Requests("APDU") ~> (k \in Range(answered) \/ exited)

(* Every Flush is answered by FlushComplete (do_socket_read). *)
FlushAnswered ==
    \A k \in 1..MaxRequests : k \in Requests("Flush") ~> (k \in Range(answered) \/ exited)
=============================================================================
