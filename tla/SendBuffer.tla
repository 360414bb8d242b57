----------------------------- MODULE SendBuffer -----------------------------
(***************************************************************************)
(* How vscclient sends (src/src/vscclient.c): every thread appends   *)
(* its messages to socket_to_send under socket_to_send_lock; the main loop *)
(* writes what the socket takes and removes it, without the lock.  The     *)
(* main loop watches the socket for output only while there is something   *)
(* to send; an idle callback, added with each message, updates the watch.  *)
(***************************************************************************)
EXTENDS Integers, Sequences

CONSTANTS
    Threads,      \* the threads that send; "main" runs the main loop too
    Sizes,        \* the sizes a message can have, header and payload
    MaxMessages,  \* bound: how many messages are sent
    Locked        \* no message is added between a write and the removal of
                  \* what was written

ASSUME SizesAssumption == Sizes \subseteq Nat \ {0} /\ Locked \in BOOLEAN

VARIABLES
    sent,      \* the messages in the order they got the lock, byte by byte
    messages,  \* how many there are
    buffer,    \* socket_to_send
    idles,     \* socket_prepare_sending callbacks that have not run
    watch,     \* the watch has G_IO_OUT
    main,      \* what the main loop does: "poll", "written", "removing"
    written,   \* the bytes of the last write that are still in the buffer
    rest,      \* what g_byte_array_remove_range leaves, before it is stored
    wire       \* what the socket took

vars == <<sent, messages, buffer, idles, watch, main, written, rest, wire>>

Init ==
    /\ sent = <<>> /\ messages = 0 /\ buffer = <<>> /\ idles = 0
    /\ watch = FALSE /\ main = "poll" /\ written = 0 /\ rest = <<>> /\ wire = <<>>

(* A byte is known by its message and its position in it. *)
Bytes(m, size) == [k \in 1..size |-> <<m, k>>]

(* variant for mutation: no callback is added *)
IdleForgotten(n) == n

(* the callbacks after send_msg added its own *)
IdleAdded(n) == n + 1

(* send_msg: header and payload are appended and the callback is added. *)
send_msg(t) ==
    /\ messages < MaxMessages
    /\ t = "main" => main = "poll"
    /\ Locked => main = "poll"
    /\ \E size \in Sizes :
         /\ sent' = sent \o Bytes(messages + 1, size)
         /\ buffer' = buffer \o Bytes(messages + 1, size)
    /\ messages' = messages + 1
    /\ idles' = IdleAdded(idles)
    /\ UNCHANGED <<watch, main, written, rest, wire>>

(* update_socket_watch for a buffer of these bytes *)
WatchFor(bytes) == bytes # <<>>

(* socket_prepare_sending *)
socket_prepare_sending ==
    /\ main = "poll" /\ idles > 0
    /\ idles' = idles - 1
    /\ watch' = WatchFor(buffer)
    /\ UNCHANGED <<sent, messages, buffer, main, written, rest, wire>>

(* do_socket_send: the socket takes some of the bytes *)
Write ==
    /\ main = "poll" /\ watch
    /\ \E bw \in 1..Len(buffer) :
         /\ wire' = wire \o SubSeq(buffer, 1, bw)
         /\ written' = bw
    /\ main' = "written"
    /\ UNCHANGED <<sent, messages, buffer, idles, watch, rest>>

(* variant for mutation: a partial write counts as a whole one *)
RemoveAll(bw) == <<>>

(* what is left after the first bw bytes *)
remove_range(bw) == SubSeq(buffer, bw + 1, Len(buffer))

(* g_byte_array_remove_range moves what follows to the front ... *)
MoveDown ==
    /\ main = "written"
    /\ rest' = remove_range(written)
    /\ main' = "removing"
    /\ UNCHANGED <<sent, messages, buffer, idles, watch, written, wire>>

(* variant for mutation: the watch stays when the buffer is empty *)
WatchStays(bytes) == watch

(* the watch when do_socket_send is left with these bytes *)
WatchAfter(bytes) == IF bytes = <<>> THEN FALSE ELSE watch

(* ... and stores the length; an empty buffer ends the watch for output. *)
Store ==
    /\ main = "removing"
    /\ buffer' = rest
    /\ watch' = WatchAfter(rest)
    /\ main' = "poll" /\ written' = 0 /\ rest' = <<>>
    /\ UNCHANGED <<sent, messages, idles, wire>>

Main == socket_prepare_sending \/ Write \/ MoveDown \/ Store
Next == (\E t \in Threads : send_msg(t)) \/ Main

(* The main loop runs its callbacks and the peer takes what is sent. *)
Spec == Init /\ [][Next]_vars /\ WF_vars(Main)

-----------------------------------------------------------------------------
(* Properties *)

(* The peer gets the bytes of every message once, whole and in the order   *)
(* the messages got the lock (vscclient.c:200-214 against 168-174): when   *)
(* the main loop is between two callbacks, what it wrote and what is left  *)
(* in the buffer make up what was sent.                                    *)
WireInOrder == main = "poll" => sent = wire \o buffer

(* The main loop never comes to do_socket_send with nothing to send, where *)
(* it would lose its watch, for input too (vscclient.c:165, 549-551).      *)
WatchHasBytes == watch /\ main = "poll" => buffer # <<>>

(* Every message comes to the wire (vscclient.c:212): no message waits in  *)
(* the buffer while the watch is off and no callback will turn it on.      *)
AllSent == <>[](wire = sent)
=============================================================================
