------------------------------ MODULE ReaderList ------------------------------
(***************************************************************************)
(* The list of readers of vreader.c: doubly linked entries, changed under  *)
(* vreader_list_mutex.  A removed entry is deleted after the mutex is      *)
(* released.  An entry here is an allocation: it holds one reader and is   *)
(* not used again, so that a link to a deleted entry shows.                *)
(***************************************************************************)
EXTENDS Integers, Sequences, SequencesExt, FiniteSets

CONSTANTS
    Entries,    \* the VReaderListEntry objects that may be allocated
    None,       \* the null pointer
    Ends        \* TRUE: the first and the last of several readers may be removed

ASSUME EntryAssumption == IsFiniteSet(Entries) /\ None \notin Entries /\ Ends \in BOOLEAN

VARIABLES
    head, tail,     \* of the VReaderList
    next, prev,     \* of each entry
    removed,        \* dequeued entries vreader_remove_reader still has to delete
    deleted,        \* deleted entries
    listed          \* history: the readers added and not removed, in order

vars == <<head, tail, next, prev, removed, deleted, listed>>

Init ==
    /\ head = None /\ tail = None
    /\ next = [e \in Entries |-> None] /\ prev = [e \in Entries |-> None]
    /\ removed = {} /\ deleted = {} /\ listed = <<>>

(* The entries met from head with vreader_list_get_next, as               *)
(* vreader_copy_list, vreader_get_reader_by_id and vreader_remove_reader   *)
(* go through them                                                         *)
Follow(first, link) ==
    LET size == Cardinality(Entries)
        at[k \in 0..size] ==
            IF k = 0 THEN first ELSE IF at[k - 1] = None THEN None ELSE link[at[k - 1]]
        met == {k \in 0..size : at[k] # None}
    IN  [k \in 1..Cardinality(met) |-> at[k - 1]]

Walk == Follow(head, next)

(* vreader_queue *)
vreader_queue(e) ==
    /\ next' = IF head = None THEN [next EXCEPT ![e] = None]
               ELSE [next EXCEPT ![e] = None, ![tail] = e]
    /\ prev' = [prev EXCEPT ![e] = tail]
    /\ head' = IF head = None THEN e ELSE head
    /\ tail' = e

Fresh == Entries \ (deleted \cup removed \cup ToSet(listed))

vreader_add_reader ==
    \E e \in Fresh :
        /\ vreader_queue(e)
        /\ listed' = Append(listed, e)
        /\ UNCHANGED <<removed, deleted>>

(* vreader_dequeue.  The last entry moves only the tail, the first only    *)
(* the head; the links of the neighbour change only in the middle.         *)
InTheMiddle(e) == next[e] # None /\ prev[e] # None
NewTail(e) == IF next[e] = None THEN prev[e] ELSE tail
NewHead(e) == IF next[e] # None /\ prev[e] = None THEN next[e] ELSE head

(* variant for mutation: only the links forward are mended *)
DequeueForwardOnly(e) ==
    LET emptied == NewTail(e) = None \/ NewHead(e) = None
    IN  /\ head' = IF emptied THEN None ELSE NewHead(e)
        /\ tail' = IF emptied THEN None ELSE NewTail(e)
        /\ next' = IF InTheMiddle(e) THEN [next EXCEPT ![prev[e]] = next[e], ![e] = None]
                   ELSE [next EXCEPT ![e] = None]
        /\ prev' = [prev EXCEPT ![e] = None]

vreader_dequeue(e) ==
    LET emptied == NewTail(e) = None \/ NewHead(e) = None
    IN  /\ head' = IF emptied THEN None ELSE NewHead(e)
        /\ tail' = IF emptied THEN None ELSE NewTail(e)
        /\ next' = IF InTheMiddle(e) THEN [next EXCEPT ![prev[e]] = next[e], ![e] = None]
                   ELSE [next EXCEPT ![e] = None]
        /\ prev' = IF InTheMiddle(e) THEN [prev EXCEPT ![next[e]] = prev[e], ![e] = None]
                   ELSE [prev EXCEPT ![e] = None]

(* vreader_remove_reader of a reader that is on the list: its entry is the *)
(* one the walk finds                                                      *)
AtAnEnd(e) == Len(listed) > 1 /\ e \in {listed[1], listed[Len(listed)]}

vreader_remove_reader ==
    \E i \in 1..Len(listed) :
        LET e == listed[i]
        IN  /\ e \in ToSet(Walk)
            /\ Ends \/ ~AtAnEnd(e)
            /\ vreader_dequeue(e)
            /\ removed' = removed \cup {e}
            /\ listed' = RemoveAt(listed, i)
            /\ UNCHANGED deleted

vreader_list_entry_delete ==
    \E e \in removed :
        /\ removed' = removed \ {e} /\ deleted' = deleted \cup {e}
        /\ UNCHANGED <<head, tail, next, prev, listed>>

Next == vreader_add_reader \/ vreader_remove_reader \/ vreader_list_entry_delete

Spec == Init /\ [][Next]_vars

-----------------------------------------------------------------------------
(* Going through the list meets the readers added and not removed, each    *)
(* once, in the order they were added, and ends after the last one: what   *)
(* vreader_get_reader_list copies and the lookups search.  The links back  *)
(* and the tail describe the same list, so that the next reader added or   *)
(* removed finds its neighbours.                                           *)
WalkIsList ==
    /\ Walk = listed
    /\ Follow(tail, prev) = Reverse(listed)
=============================================================================
