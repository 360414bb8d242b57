----------------------------- MODULE ReaderEvents -----------------------------
(***************************************************************************)
(* What a reader and its event queue promise to the application that waits *)
(* for events: every card put into the reader and every removal is told    *)
(* exactly once, in the order it happened, with the card it concerned, and *)
(* nothing else is told.                                                   *)
(***************************************************************************)
EXTENDS Sequences

CONSTANTS Cards, None

VARIABLES
    card,   \* what is in the reader
    owed,   \* changes the application was not told of yet, oldest first
    told    \* the last change it was told of

vars == <<card, owed, told>>

Init == card = None /\ owed = <<>> /\ told = None

(* A card is put in, or (None) taken out *)
Change(c) ==
    /\ card' = c
    /\ owed' = Append(owed, c)
    /\ UNCHANGED told

Tell ==
    /\ owed # <<>>
    /\ told' = Head(owed) /\ owed' = Tail(owed)
    /\ UNCHANGED card

Next == Tell \/ \E c \in Cards \cup {None} : Change(c)

Spec == Init /\ [][Next]_vars /\ WF_vars(Tell)
=============================================================================
