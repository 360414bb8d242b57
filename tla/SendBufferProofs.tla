-------------------------- MODULE SendBufferProofs --------------------------
(***************************************************************************)
(* Proofs about the send buffer of vscclient (SendBuffer): for any threads *)
(* and sizes the main loop is never called with nothing to send, and if no *)
(* message comes between a write and the removal of what was written, the  *)
(* peer gets every byte once and in order.                                 *)
(***************************************************************************)
EXTENDS SendBuffer, SequenceTheorems, TLAPS

Byte == Nat \X Nat

TypeOK ==
    /\ sent \in Seq(Byte) /\ buffer \in Seq(Byte) /\ rest \in Seq(Byte) /\ wire \in Seq(Byte)
    /\ messages \in Nat /\ main \in {"poll", "written", "removing"}
    /\ main = "written" => written \in 1..Len(buffer)

(* What is still to be written, whatever the main loop is doing. *)
Left == CASE main = "poll" -> buffer
          [] main = "written" -> SubSeq(buffer, written + 1, Len(buffer))
          [] main = "removing" -> rest

(* The wire and what is left make up what was sent.  WireInOrder alone is  *)
(* not inductive: it says nothing of the states inside a removal.          *)
Order == sent = wire \o Left

(* The bytes of a message are a sequence that is not empty (send_msg). *)
LEMMA BytesType ==
    ASSUME NEW m \in Nat, NEW size \in Sizes
    PROVE  Bytes(m, size) \in Seq(Byte) /\ Bytes(m, size) # <<>>
  BY SizesAssumption, SMT DEF Bytes, Byte

(* Appending a sequence that is not empty gives one that is not empty. *)
LEMMA Appended ==
    ASSUME NEW s \in Seq(Byte), NEW t \in Seq(Byte), t # <<>>
    PROVE  s \o t \in Seq(Byte) /\ s \o t # <<>> /\ Len(s \o t) = Len(s) + Len(t)
  BY ConcatProperties, ConcatEqualIffEmpty, SMT

(* Concatenation of the sequences of bytes is associative. *)
LEMMA Regroup ==
    ASSUME NEW s \in Seq(Byte), NEW t \in Seq(Byte), NEW u \in Seq(Byte)
    PROVE  (s \o t) \o u = s \o (t \o u)
  BY ConcatAssociative

(* The sequences keep their type, and a write is never longer than the     *)
(* buffer until it is removed, also when messages come in between.         *)
LEMMA TypeInvariant == Spec => []TypeOK
  <1>1. Init => TypeOK
    BY EmptySeq, SMT DEF Init, TypeOK
  <1>2. TypeOK /\ [Next]_vars => TypeOK'
    <2> SUFFICES ASSUME TypeOK, [Next]_vars PROVE TypeOK'
      OBVIOUS
    <2>1. ASSUME NEW t \in Threads, send_msg(t) PROVE TypeOK'
      <3>1. PICK size \in Sizes : /\ sent' = sent \o Bytes(messages + 1, size)
                                  /\ buffer' = buffer \o Bytes(messages + 1, size)
        BY <2>1 DEF send_msg
      <3>2. Bytes(messages + 1, size) \in Seq(Byte) /\ Bytes(messages + 1, size) # <<>>
        BY BytesType, SMT DEF TypeOK
      <3>3. sent' \in Seq(Byte) /\ buffer' \in Seq(Byte) /\ Len(buffer') >= Len(buffer)
        BY <3>1, <3>2, Appended, LenProperties, SMT DEF TypeOK
      <3> QED BY <2>1, <3>3, LenProperties, SMT DEF TypeOK, send_msg
    <2>2. CASE socket_prepare_sending
      BY <2>2, SMT DEF TypeOK, socket_prepare_sending
    <2>3. CASE Write
      <3>1. PICK bw \in 1..Len(buffer) : wire' = wire \o SubSeq(buffer, 1, bw) /\ written' = bw
        BY <2>3 DEF Write
      <3>2. SubSeq(buffer, 1, bw) \in Seq(Byte)
        BY SubSeqProperties, LenProperties, SMT DEF TypeOK
      <3>3. wire' \in Seq(Byte)
        BY <3>1, <3>2, ConcatProperties DEF TypeOK
      <3> QED BY <2>3, <3>1, <3>3, SMT DEF TypeOK, Write
    <2>4. CASE MoveDown
      <3>1. SubSeq(buffer, written + 1, Len(buffer)) \in Seq(Byte)
        BY <2>4, SubSeqProperties, LenProperties, SMT DEF TypeOK, MoveDown
      <3> QED BY <2>4, <3>1, SMT DEF TypeOK, MoveDown, remove_range
    <2>5. CASE Store
      BY <2>5, EmptySeq, SMT DEF TypeOK, Store
    <2>6. CASE UNCHANGED vars
      BY <2>6, SMT DEF TypeOK, vars
    <2> QED BY <2>1, <2>2, <2>3, <2>4, <2>5, <2>6 DEF Next, Main
  <1> QED BY <1>1, <1>2, PTL DEF Spec

(* do_socket_send is never called with an empty buffer (vscclient.c:165):  *)
(* the watch asks for output only while there are bytes.  This holds for   *)
(* any threads, also when messages come in the middle of a removal.        *)
THEOREM WatchAlwaysHasBytes == Spec => []WatchHasBytes
  <1>1. Init => WatchHasBytes
    BY DEF Init, WatchHasBytes
  <1>2. TypeOK /\ WatchHasBytes /\ [Next]_vars => WatchHasBytes'
    <2> SUFFICES ASSUME TypeOK, WatchHasBytes, [Next]_vars PROVE WatchHasBytes'
      OBVIOUS
    <2>1. ASSUME NEW t \in Threads, send_msg(t) PROVE WatchHasBytes'
      <3>1. PICK size \in Sizes : buffer' = buffer \o Bytes(messages + 1, size)
        BY <2>1 DEF send_msg
      <3>2. Bytes(messages + 1, size) \in Seq(Byte) /\ Bytes(messages + 1, size) # <<>>
        BY BytesType, SMT DEF TypeOK
      <3>3. buffer' # <<>>
        BY <3>1, <3>2, Appended DEF TypeOK
      <3> QED BY <3>3 DEF WatchHasBytes
    <2>2. CASE socket_prepare_sending
      BY <2>2 DEF socket_prepare_sending, WatchFor, WatchHasBytes
    <2>3. CASE Write
      BY <2>3 DEF Write, WatchHasBytes
    <2>4. CASE MoveDown
      BY <2>4 DEF MoveDown, WatchHasBytes
    <2>5. CASE Store
      BY <2>5 DEF Store, WatchAfter, WatchHasBytes
    <2>6. CASE UNCHANGED vars
      BY <2>6 DEF vars, WatchHasBytes
    <2> QED BY <2>1, <2>2, <2>3, <2>4, <2>5, <2>6 DEF Next, Main
  <1> QED BY <1>1, <1>2, TypeInvariant, PTL DEF Spec

(* With no message between a write and its removal the peer gets the       *)
(* stream of the messages (vscclient.c:168-174).                           *)
THEOREM WireAlwaysInOrder == ASSUME Locked PROVE Spec => []WireInOrder
  <1>1. Init => Order
    BY EmptySeq, ConcatEmptySeq, SMT DEF Init, Order, Left
  <1>2. TypeOK /\ Order /\ [Next]_vars => Order'
    <2> SUFFICES ASSUME TypeOK, Order, [Next]_vars PROVE Order'
      OBVIOUS
    <2>1. ASSUME NEW t \in Threads, send_msg(t) PROVE Order'
      <3>1. PICK size \in Sizes : /\ sent' = sent \o Bytes(messages + 1, size)
                                  /\ buffer' = buffer \o Bytes(messages + 1, size)
        BY <2>1 DEF send_msg
      <3>2. Bytes(messages + 1, size) \in Seq(Byte)
        BY BytesType, SMT DEF TypeOK
      <3>3. main = "poll" /\ main' = "poll" /\ wire' = wire
        BY <2>1, Locked DEF send_msg
      <3>4. sent = wire \o buffer
        BY <3>3 DEF Order, Left
      <3>5. (wire \o buffer) \o Bytes(messages + 1, size)
              = wire \o (buffer \o Bytes(messages + 1, size))
        BY <3>2, Regroup DEF TypeOK
      <3>6. sent' = wire \o (buffer \o Bytes(messages + 1, size))
        BY <3>1, <3>4, <3>5
      <3> QED BY <3>1, <3>3, <3>6 DEF Order, Left
    <2>2. CASE socket_prepare_sending
      BY <2>2 DEF socket_prepare_sending, Order, Left
    <2>3. CASE Write
      <3>1. PICK bw \in 1..Len(buffer) : wire' = wire \o SubSeq(buffer, 1, bw) /\ written' = bw
        BY <2>3 DEF Write
      <3> DEFINE front == SubSeq(buffer, 1, bw)
                 back == SubSeq(buffer, bw + 1, Len(buffer))
      <3>2. front \in Seq(Byte) /\ back \in Seq(Byte)
        BY SubSeqProperties, LenProperties, SMT DEF TypeOK
      <3>3. front \o back = SubSeq(buffer, 1, Len(buffer))
        BY ConcatAdjacentSubSeq, LenProperties, SMT DEF TypeOK
      <3>4. buffer = front \o back
        BY <3>3, SubSeqFull DEF TypeOK
      <3>5. sent = wire \o buffer /\ sent' = sent /\ buffer' = buffer
        BY <2>3 DEF Write, Order, Left
      <3>6. (wire \o front) \o back = wire \o (front \o back)
        BY <3>2, Regroup DEF TypeOK
      <3>7. sent' = wire' \o back
        BY <3>1, <3>4, <3>5, <3>6
      <3>8. Left' = back
        BY <2>3, <3>1 DEF Write, Left
      <3> QED BY <3>7, <3>8 DEF Order
    <2>4. CASE MoveDown
      BY <2>4 DEF MoveDown, remove_range, Order, Left
    <2>5. CASE Store
      BY <2>5 DEF Store, Order, Left
    <2>6. CASE UNCHANGED vars
      BY <2>6 DEF vars, Order, Left
    <2> QED BY <2>1, <2>2, <2>3, <2>4, <2>5, <2>6 DEF Next, Main
  <1>3. Order => WireInOrder
    BY DEF Order, Left, WireInOrder
  <1> QED BY <1>1, <1>2, <1>3, TypeInvariant, PTL DEF Spec
=============================================================================
