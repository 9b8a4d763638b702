----------------------------- MODULE LinkedList -----------------------------
(***************************************************************************)
(* DataStructures/Lists/LinkedList.c on a heap of nodes, with the Queue of *)
(* Queue.c, which calls it with fixed indexes.  Every operation runs to    *)
(* its end before the next one; the destructor, a loop that reads a length *)
(* it changes, is one step per turn.  An operation that follows NULL ends  *)
(* the program.                                                            *)
(***************************************************************************)
EXTENDS Integers, Sequences, FiniteSets

CONSTANTS
    Node,       \* bound of the model: the nodes malloc can return
    Data,       \* what is stored
    MinLength,  \* bound of the model: how far length may fall below 0
    NULL

ASSUME ListAssumption ==
    /\ IsFiniteSet(Node)
    /\ NULL \notin Node \cup Data
    /\ MinLength \in Int /\ MinLength <= 0

VARIABLES
    head,       \* first node, or NULL
    length,
    next,       \* the next field of every node, stale ones included
    data,       \* the data field
    heap,       \* the nodes that are allocated
    pc,         \* "ready", "destroying", "destroyed" or "crashed"
    i,          \* the loop variable of the destructor
    result,     \* what the last retrieve or peek returned
    misused     \* history: a call has named an index the list does not have,
                \* or a sort has written into an item

vars == <<head, length, next, data, heap, pc, i, result, misused>>

Indexes == -1..Cardinality(Node) + 1

Init ==
    /\ head = NULL
    /\ length = 0
    /\ next = [n \in Node |-> NULL]
    /\ data = [n \in Node |-> NULL]
    /\ heap = {}
    /\ pc = "ready"
    /\ i = 0
    /\ result = NULL
    /\ misused = FALSE

\* The node k steps from the head, NULL past the end.
Walk(k) ==
    LET step[j \in 0..Cardinality(Node)] ==
            IF j = 0 THEN head
            ELSE IF step[j - 1] = NULL THEN NULL ELSE next[step[j - 1]]
    IN  step[k]

\* iterate_ll
Iterate(index) ==
    IF index < 0 \/ index >= length THEN NULL ELSE Walk(index)

Crash ==
    /\ pc' = "crashed"
    /\ UNCHANGED <<head, length, next, data, heap, i, result>>

----------------------------------------------------------------------------
\* Insertion

\* Mutant: the new node is put behind the one that had its index.
Link_Behind(n, index, d) ==
    LET cursor == IF Iterate(index) = NULL THEN Iterate(index - 1) ELSE Iterate(index)
    IN  /\ data' = [data EXCEPT ![n] = d]
        /\ heap' = heap \cup {n}
        /\ IF cursor = NULL
           THEN head' = n /\ next' = [next EXCEPT ![n] = head]
           ELSE next' = [next EXCEPT ![n] = next[cursor], ![cursor] = n] /\ UNCHANGED head

\* Mutant: the chain behind the new node is forgotten.
Link_Cuts(n, index, d) ==
    LET cursor == Iterate(index - 1)
    IN  /\ data' = [data EXCEPT ![n] = d]
        /\ heap' = heap \cup {n}
        /\ IF index = 0
           THEN head' = n /\ next' = [next EXCEPT ![n] = head]
           ELSE next' = [next EXCEPT ![n] = NULL, ![cursor] = n] /\ UNCHANGED head

\* The node n is put where the node of that index was.
Link(n, index, d) ==
    LET cursor == Iterate(index - 1)
    IN  /\ data' = [data EXCEPT ![n] = d]
        /\ heap' = heap \cup {n}
        /\ IF index = 0
           THEN head' = n /\ next' = [next EXCEPT ![n] = head]
           ELSE /\ next' = [next EXCEPT ![n] = next[cursor], ![cursor] = n]
                /\ UNCHANGED head

Inserting(index, d) ==
    /\ pc = "ready"
    /\ misused' = (misused \/ index \notin 0..length)
    /\ IF index # 0 /\ Iterate(index - 1) = NULL THEN Crash
       ELSE /\ \E n \in Node \ heap : Link(n, index, d)
            /\ length' = length + 1
            /\ UNCHANGED <<pc, i, result>>

Insert == \E index \in Indexes, d \in Data : Inserting(index, d)

----------------------------------------------------------------------------
\* Removal

\* Mutant: the head is not freed.
Unlink_Leaks(index) ==
    IF index = 0
    THEN /\ head' = IF head = NULL THEN NULL ELSE next[head]
         /\ UNCHANGED <<next, heap>>
    ELSE LET cursor == Iterate(index - 1)
         IN  /\ next' = [next EXCEPT ![cursor] = next[next[cursor]]]
             /\ heap' = heap \ {next[cursor]}
             /\ UNCHANGED head

\* The node at index is taken out and freed; an empty list has no head to free.
Unlink(index) ==
    IF index = 0
    THEN /\ head' = IF head = NULL THEN NULL ELSE next[head]
         /\ heap' = heap \ {head}
         /\ UNCHANGED next
    ELSE LET cursor == Iterate(index - 1)
         IN  /\ next' = [next EXCEPT ![cursor] = next[next[cursor]]]
             /\ heap' = heap \ {next[cursor]}
             /\ UNCHANGED head

\* The length goes down even when there was nothing to remove.
Removing(index) ==
    /\ pc = "ready"
    /\ length > MinLength
    /\ misused' = (misused \/ index \notin 0..length - 1)
    /\ IF index # 0 /\ (Iterate(index - 1) = NULL \/ next[Iterate(index - 1)] = NULL)
       THEN Crash
       ELSE /\ Unlink(index)
            /\ length' = length - 1
            /\ UNCHANGED <<data, pc, i, result>>

Remove == \E index \in Indexes : Removing(index)

----------------------------------------------------------------------------
\* Retrieval, sorting

\* Mutant: the node is returned for its data.
Retrieving_Node(index) ==
    /\ pc = "ready"
    /\ result' = Iterate(index)
    /\ UNCHANGED <<head, length, next, data, heap, pc, i, misused>>

Retrieving(index) ==
    /\ pc = "ready"
    /\ result' = IF Iterate(index) = NULL THEN NULL ELSE data[Iterate(index)]
    /\ UNCHANGED <<head, length, next, data, heap, pc, i, misused>>

Retrieve == \E index \in Indexes : Retrieving(index)

\* bubble_sort_ll takes the data of the first node for a node.  Undefined
\* behaviour: the bytes behind small data are zero, which ends both loops; or
\* they are an address that is none, which ends the program; or the item holds
\* pointers (as a ThreadJob does), the loops follow them and the swaps write
\* into the item, and elsewhere.
Sort ==
    /\ pc = "ready"
    /\ \/ UNCHANGED vars
       \/ Iterate(0) # NULL /\ Crash /\ UNCHANGED misused
       \/ \E d \in Data :
             /\ Iterate(0) # NULL
             /\ data' = [data EXCEPT ![Iterate(0)] = d]
             /\ misused' = TRUE
             /\ UNCHANGED <<head, length, next, heap, pc, i, result>>

----------------------------------------------------------------------------
\* linked_list_destructor

Destroy ==
    /\ pc = "ready"
    /\ pc' = "destroying"
    /\ i' = 0
    /\ UNCHANGED <<head, length, next, data, heap, result, misused>>

DestroyNext ==
    /\ pc = "destroying"
    /\ IF i < length
       THEN /\ Unlink(0)
            /\ length' = length - 1
            /\ i' = i + 1
            /\ UNCHANGED pc
       ELSE /\ pc' = "destroyed"
            /\ UNCHANGED <<head, length, next, heap, i>>
    /\ UNCHANGED <<data, result, misused>>

----------------------------------------------------------------------------
\* Queue.c

\* Mutant: push inserts before the last item.
Push_Last(d) == Inserting(IF length = 0 THEN 0 ELSE length - 1, d)

Push(d) == Inserting(length, d)

Peek == Retrieving(0)

Pop == Removing(0)

Next ==
    \/ Insert \/ Remove \/ Retrieve \/ Sort
    \/ Destroy \/ DestroyNext
    \/ (\E d \in Data : Push(d)) \/ Peek \/ Pop

Spec == Init /\ [][Next]_vars

----------------------------------------------------------------------------
\* Properties

\* The number of nodes of the chain, and their data in order.
Size == Cardinality({k \in 0..Cardinality(Node) : Walk(k) # NULL})
Chain == [k \in 1..Size |-> data[Walk(k - 1)]]

\* The type of every variable.
TypeOK ==
    /\ head \in Node \cup {NULL}
    /\ length \in MinLength..Cardinality(Node)
    /\ next \in [Node -> Node \cup {NULL}]
    /\ data \in [Node -> Data \cup {NULL}]
    /\ heap \subseteq Node
    /\ pc \in {"ready", "destroying", "destroyed", "crashed"}
    /\ i \in 0..Cardinality(Node)
    /\ result \in Data \cup {NULL}
    /\ misused \in BOOLEAN

\* Every node of the chain is allocated and every allocated node is in the
\* chain: nothing is used after it was freed and nothing is lost, until the
\* destructor is done.
NoLeakNoDangling ==
    pc # "destroyed" => heap = {Walk(k) : k \in 0..Size - 1}

\* "Length refers to the number of nodes in the chain" (LinkedList.h:43): so
\* it is as long as the list is not misused.  A removal of what is not there
\* takes it below that number, where it stays; nothing takes it above.
LengthCounts == length <= Size /\ (misused \/ length = Size)

\* Push, peek and pop are those of a first-in first-out queue, as long as
\* nothing is popped from an empty one and nothing is sorted in place.
QueueDiscipline == [][~misused' =>
    /\ \A d \in Data : Push(d) => Chain' = Append(Chain, d)
    /\ Peek => result' = (IF Chain = <<>> THEN NULL ELSE Head(Chain)) /\ Chain' = Chain
    /\ Pop => Chain' = Tail(Chain)]_vars

\* What happens to the nodes is what can happen to a sequence, until a caller
\* names an index it does not have or a sort writes into an item: nothing is
\* lost, doubled or moved, and the turns of the destructor are removals.  What the destructor leaves is no
\* list any more.
List == INSTANCE SequenceList WITH
    list      <- IF pc = "destroyed" THEN <<>> ELSE Chain,
    destroyed <- pc = "destroyed"
ImplementsSequence == List!Spec

\* Insert, remove and retrieve do it at the index they are given.
AtIndex == [][~misused' =>
    \A index \in Indexes :
        /\ \A d \in Data : Inserting(index, d) => List!InsertItem(index, d)
        /\ Removing(index) => List!RemoveItem(index)
        /\ Retrieving(index) => List!RetrieveItem(index)]_vars
=============================================================================
