---------------------------- MODULE SequenceList ----------------------------
(***************************************************************************)
(* What a linked list promises: it is a sequence, with insertion, removal  *)
(* and retrieval at an index, until it is destroyed.  A caller that names  *)
(* an index the list does not have, or has it write into its items, is     *)
(* promised nothing any more.                                              *)
(***************************************************************************)
EXTENDS Integers, Sequences, SequencesExt

CONSTANTS Data, NULL

VARIABLES list, result, destroyed, misused

listvars == <<list, result, destroyed, misused>>

Init == list = <<>> /\ result = NULL /\ destroyed = FALSE /\ misused = FALSE

InsertItem(index, d) ==
    /\ index \in 0..Len(list)
    /\ list' = InsertAt(list, index + 1, d)
    /\ UNCHANGED <<result, destroyed, misused>>

RemoveItem(index) ==
    /\ index \in 0..Len(list) - 1
    /\ list' = RemoveAt(list, index + 1)
    /\ UNCHANGED <<result, destroyed, misused>>

\* An index that is not in the list is answered by NULL.
RetrieveItem(index) ==
    /\ result' = IF index \in 0..Len(list) - 1 THEN list[index + 1] ELSE NULL
    /\ UNCHANGED <<list, destroyed, misused>>

Destroy ==
    /\ list' = <<>>
    /\ destroyed' = TRUE
    /\ UNCHANGED <<result, misused>>

Misuse == misused'

Next ==
    /\ ~destroyed
    /\ \/ \E index \in 0..Len(list), d \in Data : InsertItem(index, d)
       \/ \E index \in 0..Len(list) : RemoveItem(index) \/ RetrieveItem(index)
       \/ Destroy
       \/ Misuse

Spec == Init /\ [][Next]_listvars
=============================================================================
