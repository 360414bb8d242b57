---------------------------- MODULE RefCountProofs ----------------------------
(***************************************************************************)
(* An object whose count is changed under its lock (a VReader) is          *)
(* destroyed exactly once, after its last reference, for every number of   *)
(* threads and references.                                                 *)
(***************************************************************************)
EXTENDS RefCount, FiniteSetTheorems, TLAPS

Inside(t) == pc[t] \in {"reference", "free"}

(* Only the owner of the lock is between the read and the write, and the   *)
(* count it read is still right                                            *)
Exclusive == \A t \in Threads : Inside(t) => lock = t /\ reg[t] = count

CountRight == count = Cardinality(Live)

(* A reference to free is the thread's own; a reference to make is new,    *)
(* and the thread that makes it has one                                    *)
InHand ==
    \A t \in Threads :
        /\ pc[t] = "free" => ref[t] \in Live /\ owner[ref[t]] = t
        /\ pc[t] = "reference" => /\ ref[t] \in Refs \ Live /\ to[t] \in Threads
                                  /\ Live # {}

(* Thread t has freed the last reference and will destroy the object *)
Last(t) == pc[t] = "decide" /\ reg[t] <= 1

Fate ==
    /\ Live # {} => destroyed = 0 /\ \A t \in Threads : ~Last(t)
    /\ Live = {} => \/ destroyed = 1 /\ \A t \in Threads : ~Last(t)
                    \/ destroyed = 0 /\ \E t \in Threads : \A u \in Threads : Last(u) <=> u = t

IInv == TypeOK /\ Exclusive /\ CountRight /\ InHand /\ Fate

(* The live references are finitely many, and none means count 0 *)
LEMMA LiveFinite ==
    /\ IsFiniteSet(Live) /\ Cardinality(Live) \in Nat
    /\ Cardinality(Live) = 0 <=> Live = {}
<1>1. Live \subseteq Refs BY DEF Live
<1>2. IsFiniteSet(Live) BY <1>1, FS_Subset, ObjectAssumption
<1> QED BY <1>2, FS_CardinalityType, FS_EmptySet

(* Init satisfies the invariant *)
LEMMA InitIInv == ASSUME Locked, Init PROVE IInv
<1>1. TypeOK BY LiveFinite, ObjectAssumption DEF Init, TypeOK
<1>2. Exclusive /\ CountRight /\ InHand BY DEF Init, Exclusive, CountRight, InHand, Inside
<1>3. Fate BY DEF Init, Fate, Last
<1> QED BY <1>1, <1>2, <1>3 DEF IInv

(* The steps that only read: a thread enters the critical section *)
LEMMA EnterIInv ==
    ASSUME Locked, IInv, NEW t \in Threads, ReferenceRead(t) \/ FreeRead(t)
    PROVE  IInv'
<1> USE DEF IInv
<1>1. lock = None /\ lock' = t /\ owner' = owner /\ count' = count /\ destroyed' = destroyed
  BY DEF ReferenceRead, FreeRead, Acquire
<1>2. Live' = Live BY <1>1 DEF Live
<1>3. TypeOK'
  <2>1. CASE ReferenceRead(t) BY <2>1, <1>1 DEF ReferenceRead, TypeOK
  <2>2. CASE FreeRead(t) BY <2>2, <1>1 DEF FreeRead, TypeOK, Live
  <2> QED BY <2>1, <2>2
<1>4. \A u \in Threads : ~Inside(u)
  BY <1>1, ObjectAssumption DEF Exclusive
<1>5. \A u \in Threads : u # t => pc'[u] = pc[u] /\ reg'[u] = reg[u]
  BY DEF ReferenceRead, FreeRead, TypeOK
<1>6. pc'[t] \in {"reference", "free"} /\ reg'[t] = count
  BY DEF ReferenceRead, FreeRead, TypeOK
<1>7. Exclusive'
  BY <1>1, <1>4, <1>5, <1>6 DEF Exclusive, Inside
<1>8. CountRight' BY <1>1, <1>2 DEF CountRight
<1>9. InHand'
  <2>1. CASE ReferenceRead(t)
    <3>1. pc'[t] = "reference" /\ ref'[t] \in Refs \ Live /\ to'[t] \in Threads /\ Live # {}
      BY <2>1 DEF ReferenceRead, TypeOK
    <3> QED BY <3>1, <1>2, <1>4, <1>5 DEF InHand, Inside
  <2>2. CASE FreeRead(t)
    <3>1. pc'[t] = "free" /\ ref'[t] \in Live /\ owner[ref'[t]] = t
      BY <2>2 DEF FreeRead, TypeOK, Live
    <3> QED BY <3>1, <1>1, <1>2, <1>4, <1>5 DEF InHand, Inside
  <2> QED BY <2>1, <2>2
<1>10. \A u \in Threads : Last(u)' <=> Last(u)
  <2>1. pc[t] = "idle" BY DEF ReferenceRead, FreeRead
  <2> QED BY <2>1, <1>5, <1>6 DEF Last
<1>11. Fate' BY <1>1, <1>2, <1>10 DEF Fate
<1> QED BY <1>3, <1>7, <1>8, <1>9, <1>11

(* The new reference is counted *)
LEMMA ReferenceIInv ==
    ASSUME Locked, IInv, NEW t \in Threads, ReferenceWrite(t)
    PROVE  IInv'
<1> USE DEF IInv
<1> DEFINE r == ref[t]
<1>1. /\ pc[t] = "reference" /\ Inside(t) /\ reg[t] = count /\ lock = t
      /\ r \in Refs \ Live /\ to[t] \in Threads /\ Live # {}
  BY DEF ReferenceWrite, Exclusive, InHand, Inside
<1>2. owner' = [owner EXCEPT ![r] = to[t]] /\ destroyed' = destroyed /\ lock' = None
  BY DEF ReferenceWrite, Release
<1>3. Live' = Live \cup {r}
  BY <1>1, <1>2, ObjectAssumption DEF Live, TypeOK
<1>4. count' = count + 1 BY <1>1 DEF ReferenceWrite
<1>5. CountRight'
  BY <1>1, <1>3, <1>4, LiveFinite, FS_AddElement DEF CountRight
<1>6. TypeOK'
  <2>1. owner' \in [Refs -> Threads \cup {None}] BY <1>1, <1>2 DEF TypeOK
  <2>2. count' \in Nat BY <1>4 DEF TypeOK
  <2> QED BY <2>1, <2>2, <1>2 DEF ReferenceWrite, TypeOK
<1>7. \A u \in Threads : u # t => pc'[u] = pc[u] /\ ~Inside(u)
  BY <1>1 DEF ReferenceWrite, TypeOK, Exclusive
<1>8. pc'[t] = "idle" BY DEF ReferenceWrite, TypeOK
<1>9. Exclusive' /\ InHand'
  BY <1>7, <1>8 DEF Exclusive, InHand, Inside
<1>10. \A u \in Threads : Last(u)' => Last(u)
  BY <1>7, <1>8 DEF Last, ReferenceWrite
<1>11. Fate' BY <1>1, <1>2, <1>3, <1>10 DEF Fate
<1> QED BY <1>5, <1>6, <1>9, <1>11

(* The freed reference is no longer counted, and the thread that freed the *)
(* last one knows it from the count it read                                *)
LEMMA FreeIInv ==
    ASSUME Locked, IInv, NEW t \in Threads, FreeWrite(t)
    PROVE  IInv'
<1> USE DEF IInv
<1> DEFINE r == ref[t]
<1>1. /\ pc[t] = "free" /\ reg[t] = count /\ lock = t /\ r \in Live /\ owner[r] = t
  BY DEF FreeWrite, Exclusive, InHand, Inside
<1>2. owner' = [owner EXCEPT ![r] = None] /\ destroyed' = destroyed /\ lock' = None
      /\ reg' = reg
  BY DEF FreeWrite, Release
<1>3. Live' = Live \ {r} BY <1>1, <1>2 DEF Live, TypeOK
<1>4. count' = count - 1 BY <1>1 DEF FreeWrite
<1>5. CountRight' /\ Cardinality(Live) > 0
  <2>1. Live # {} BY <1>1
  <2>2. Cardinality(Live) > 0 BY <2>1, LiveFinite
  <2>3. Cardinality(Live') = Cardinality(Live) - 1
    BY <1>1, <1>3, LiveFinite, FS_RemoveElement
  <2> QED BY <2>2, <2>3, <1>4 DEF CountRight
<1>6. TypeOK'
  <2>1. owner' \in [Refs -> Threads \cup {None}] BY <1>1, <1>2 DEF TypeOK, Live
  <2>2. count' \in Nat BY <1>4, <1>5 DEF TypeOK, CountRight
  <2> QED BY <2>1, <2>2, <1>2 DEF FreeWrite, TypeOK
<1>7. \A u \in Threads : u # t => pc'[u] = pc[u] /\ ~Inside(u)
  BY <1>1 DEF FreeWrite, TypeOK, Exclusive
<1>8. pc'[t] = "decide" BY DEF FreeWrite, TypeOK
<1>9. Exclusive' /\ InHand'
  BY <1>7, <1>8 DEF Exclusive, InHand, Inside
<1>10. destroyed = 0 /\ \A u \in Threads : ~Last(u) BY <1>1 DEF Fate
<1>11. \A u \in Threads : u # t => ~Last(u)'
  BY <1>2, <1>7, <1>10 DEF Last
<1>12. Last(t)' <=> Live' = {}
  <2>1. count = 1 <=> Live' = {}
    <3>1. Cardinality(Live') = count - 1
      BY <1>1, <1>3, LiveFinite, FS_RemoveElement DEF CountRight
    <3>2. Cardinality(Live') = 0 <=> Live' = {}
      <4>1. IsFiniteSet(Live') BY <1>3, LiveFinite, FS_Subset
      <4> QED BY <4>1, FS_EmptySet
    <3> QED BY <3>1, <3>2 DEF TypeOK
  <2>2. Last(t)' <=> count <= 1 BY <1>1, <1>2, <1>8 DEF Last
  <2> QED BY <2>1, <2>2, <1>5 DEF CountRight, TypeOK
<1>13. Fate' BY <1>2, <1>10, <1>11, <1>12 DEF Fate
<1> QED BY <1>5, <1>6, <1>9, <1>13

(* The thread that freed the last reference destroys the object *)
LEMMA DecideIInv ==
    ASSUME Locked, IInv, NEW t \in Threads, Decide(t)
    PROVE  IInv'
<1> USE DEF IInv
<1>1. /\ UNCHANGED <<owner, count, lock, reg, ref, to>> /\ Live' = Live
      /\ pc[t] = "decide" /\ pc'[t] = "idle"
      /\ \A u \in Threads : u # t => pc'[u] = pc[u]
  BY DEF Decide, Live, TypeOK
<1>2. destroyed' = IF Last(t) THEN destroyed + 1 ELSE destroyed
  BY <1>1 DEF Decide, WasLast, Last
<1>3. TypeOK' BY <1>1, <1>2 DEF Decide, TypeOK
<1>4. Exclusive' /\ CountRight' /\ InHand'
  BY <1>1 DEF Exclusive, CountRight, InHand, Inside
<1>5. ~Last(t)' /\ \A u \in Threads : u # t => (Last(u)' <=> Last(u))
  BY <1>1 DEF Last
<1>6. Fate'
  <2>1. CASE Last(t)
    <3>1. Live = {} /\ destroyed = 0 /\ \A u \in Threads : Last(u) <=> u = t
      BY <2>1 DEF Fate
    <3> QED BY <3>1, <2>1, <1>1, <1>2, <1>5 DEF Fate
  <2>2. CASE ~Last(t)
    <3>1. destroyed' = destroyed /\ \A u \in Threads : Last(u)' <=> Last(u)
      BY <2>2, <1>2, <1>5
    <3> QED BY <3>1, <1>1 DEF Fate
  <2> QED BY <2>1, <2>2
<1> QED BY <1>3, <1>4, <1>6

(* Every step keeps the invariant *)
LEMMA NextIInv == ASSUME Locked, IInv, [Next]_vars PROVE IInv'
<1>1. CASE UNCHANGED vars
  BY <1>1 DEF vars, IInv, TypeOK, Exclusive, CountRight, InHand, Fate, Inside, Last, Live
<1>2. CASE Next
  BY <1>2, EnterIInv, ReferenceIInv, FreeIInv, DecideIInv DEF Next
<1> QED BY <1>1, <1>2

(* vreader_free destroys a reader once, when its last reference is freed,  *)
(* and never while a thread owns one, because vreader_reference and        *)
(* vreader_free change the count and read it under the reader's lock.      *)
THEOREM ReaderDestroyedOnce == ASSUME Locked PROVE Spec => []DestroyedOnce
<1>1. Init => IInv BY InitIInv
<1>2. IInv /\ [Next]_vars => IInv' BY NextIInv
<1>3. IInv => DestroyedOnce
  BY DEF IInv, TypeOK, Fate, DestroyedOnce, Last
<1> QED BY <1>1, <1>2, <1>3, PTL DEF Spec

(* Every variable keeps its type, the count of a VReader above all: it     *)
(* never falls below 0.                                                    *)
THEOREM CountTypeCorrect == ASSUME Locked PROVE Spec => []TypeOK
<1>1. Init => IInv BY InitIInv
<1>2. IInv /\ [Next]_vars => IInv' BY NextIInv
<1>3. IInv => TypeOK BY DEF IInv
<1> QED BY <1>1, <1>2, <1>3, PTL DEF Spec
=============================================================================
