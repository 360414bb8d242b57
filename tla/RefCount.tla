------------------------------- MODULE RefCount -------------------------------
(***************************************************************************)
(* The reference count of one shared object, step by step.  A VReader      *)
(* changes its count under its lock and decides from the value it read     *)
(* there (vreader_reference, vreader_free).  A VCard has no lock: its      *)
(* count is read and written back by plain C, and vcard_free reads it once *)
(* more to decide (vcard_reference, vcard_free).  Locked tells which.      *)
(*                                                                         *)
(* References are a set with an owner each: a thread that owns one may     *)
(* take another and hand it to any thread (an event queued for the         *)
(* consumer, a list entry), or free it.                                    *)
(***************************************************************************)
EXTENDS Integers, FiniteSets

CONSTANTS
    Threads,
    Refs,       \* the references that can exist at the same time
    Locked,
    None

ASSUME ObjectAssumption ==
    /\ IsFiniteSet(Refs) /\ Locked \in BOOLEAN
    /\ None \notin Threads /\ None \notin Refs

VARIABLES
    owner,      \* the owner of each reference, None for one that does not exist
    count,      \* reference_count
    lock,       \* the thread in the critical section, or None
    pc, reg,    \* where a thread is, and the count it read
    ref, to,    \* the reference it makes or frees, and for whom
    destroyed   \* how often the object was destroyed

vars == <<owner, count, lock, pc, reg, ref, to, destroyed>>

Live == {r \in Refs : owner[r] # None}
Busy(r) == \E t \in Threads : ref[t] = r

Init ==
    /\ owner \in [Refs -> Threads \cup {None}] /\ Live # {}
    /\ count = Cardinality(Live)
    /\ lock = None /\ destroyed = 0
    /\ pc = [t \in Threads |-> "idle"]
    /\ reg = [t \in Threads |-> 0]
    /\ ref = [t \in Threads |-> None] /\ to = [t \in Threads |-> None]

(* variant for mutation: the lock is not taken *)
AcquireNothing(t) == UNCHANGED lock

(* g_mutex_lock and g_mutex_unlock, or nothing *)
Acquire(t) == IF Locked THEN lock = None /\ lock' = t ELSE UNCHANGED lock
Release == IF Locked THEN lock' = None ELSE UNCHANGED lock

(* A thread reads the count, for a new reference ... *)
ReferenceRead(t) ==
    /\ pc[t] = "idle"
    /\ \E r \in Refs, u \in Threads :
        /\ \E s \in Live : owner[s] = t
        /\ r \notin Live /\ ~Busy(r)
        /\ ref' = [ref EXCEPT ![t] = r] /\ to' = [to EXCEPT ![t] = u]
    /\ Acquire(t)
    /\ reg' = [reg EXCEPT ![t] = count]
    /\ pc' = [pc EXCEPT ![t] = "reference"]
    /\ UNCHANGED <<owner, count, destroyed>>

(* ... and writes it back *)
ReferenceWrite(t) ==
    /\ pc[t] = "reference"
    /\ count' = reg[t] + 1
    /\ owner' = [owner EXCEPT ![ref[t]] = to[t]]
    /\ Release
    /\ pc' = [pc EXCEPT ![t] = "idle"]
    /\ ref' = [ref EXCEPT ![t] = None] /\ to' = [to EXCEPT ![t] = None]
    /\ UNCHANGED <<reg, destroyed>>

(* The same for a reference to free *)
FreeRead(t) ==
    /\ pc[t] = "idle"
    /\ \E r \in Live : owner[r] = t /\ ~Busy(r) /\ ref' = [ref EXCEPT ![t] = r]
    /\ Acquire(t)
    /\ reg' = [reg EXCEPT ![t] = count]
    /\ pc' = [pc EXCEPT ![t] = "free"]
    /\ UNCHANGED <<owner, count, to, destroyed>>

FreeWrite(t) ==
    /\ pc[t] = "free"
    /\ count' = reg[t] - 1
    /\ owner' = [owner EXCEPT ![ref[t]] = None]
    /\ Release
    /\ pc' = [pc EXCEPT ![t] = "decide"]
    /\ ref' = [ref EXCEPT ![t] = None]
    /\ UNCHANGED <<reg, to, destroyed>>

(* variant for mutation: the count is read again after the lock *)
WasLastRereads(t) == count = 0

(* vreader_free compares the value it read under the lock, vcard_free the  *)
(* count as it is now                                                      *)
WasLast(t) == IF Locked THEN reg[t] <= 1 ELSE count = 0

Decide(t) ==
    /\ pc[t] = "decide"
    /\ destroyed' = IF WasLast(t) THEN destroyed + 1 ELSE destroyed
    /\ pc' = [pc EXCEPT ![t] = "idle"]
    /\ UNCHANGED <<owner, count, lock, reg, ref, to>>

Next ==
    \E t \in Threads :
        ReferenceRead(t) \/ ReferenceWrite(t) \/ FreeRead(t) \/ FreeWrite(t) \/ Decide(t)

Spec == Init /\ [][Next]_vars

-----------------------------------------------------------------------------
(* Every variable has its type *)
TypeOK ==
    /\ owner \in [Refs -> Threads \cup {None}]
    /\ (Locked => count \in Nat) /\ count \in Int /\ destroyed \in Nat
    /\ lock \in Threads \cup {None}
    /\ pc \in [Threads -> {"idle", "reference", "free", "decide"}]
    /\ reg \in [Threads -> Int]
    /\ ref \in [Threads -> Refs \cup {None}] /\ to \in [Threads -> Threads \cup {None}]

(* The object is destroyed only when no thread owns a reference to it, and *)
(* then only once; when the last free has returned it has been destroyed.  *)
DestroyedOnce ==
    /\ destroyed > 0 => Live = {}
    /\ destroyed <= 1
    /\ Live = {} /\ (\A t \in Threads : pc[t] = "idle") => destroyed = 1
=============================================================================
