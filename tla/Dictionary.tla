----------------------------- MODULE Dictionary -----------------------------
(***************************************************************************)
(* Dictionary.c: entries in a binary search tree (BinarySearchTree.c) and  *)
(* a list of the keys.  The n-th node that create_node_bst makes is the    *)
(* number n; the list of keys is a sequence, LinkedList gives its code.    *)
(* Keys are integers with the order of compare, which answers 1, 0 or -1   *)
(* (BinarySearchTree.h:38).  Every call runs to its end.                   *)
(***************************************************************************)
EXTENDS Integers, Sequences, FiniteSets

CONSTANTS
    Keys,
    Values,
    MaxCalls,   \* bound of the model: the number of insertions
    NULL        \* no value

ASSUME DictionaryAssumption ==
    /\ Keys \subseteq Int
    /\ NULL \notin Values
    /\ MaxCalls \in Nat

VARIABLES
    nodes,      \* the nodes made so far, each with its entry
    head,       \* the root of the tree, or None
    keys,       \* the list of keys
    pc,         \* "ready" or "crashed"
    call,       \* history: the last call that returned
    result      \* what the last search answered

vars == <<nodes, head, keys, pc, call, result>>

None == 0       \* the null pointer, for links

Init ==
    /\ nodes = <<>>
    /\ head = None
    /\ keys = <<>>
    /\ pc = "ready"
    /\ call = <<>>
    /\ result = NULL

----------------------------------------------------------------------------
\* The tree

NewNode(k, v) == [key |-> k, value |-> v, next |-> None, previous |-> None]

\* The direction iterate_bst takes at a node: 1 when the node is greater.
Direction(n, k) ==
    IF nodes[n].key > k THEN 1 ELSE IF nodes[n].key < k THEN -1 ELSE 0

\* Where that leads; None when there is no node or the node is the one.
Turn(n, k) ==
    CASE Direction(n, k) = 1  -> nodes[n].next
      [] Direction(n, k) = -1 -> nodes[n].previous
      [] OTHER                -> None

\* Mutant: the children of the root are not descended into.
Iterate_Root(k) == IF Turn(head, k) = None THEN head ELSE Turn(head, k)

\* iterate_bst: down from the root until there is nowhere left to move.
Iterate(k) ==
    LET at[j \in 0..Len(nodes)] ==
            IF j = 0 THEN head
            ELSE IF Turn(at[j - 1], k) = None THEN at[j - 1] ELSE Turn(at[j - 1], k)
    IN  at[Len(nodes)]

\* Mutant: the sides are exchanged.
Attach_Swapped(c, side, node) ==
    nodes' = Append(IF side = 1 THEN [nodes EXCEPT ![c].previous = Len(nodes) + 1]
                    ELSE [nodes EXCEPT ![c].next = Len(nodes) + 1], node)

\* A new node becomes a child of c.
Attach(c, side, node) ==
    nodes' = Append(IF side = 1 THEN [nodes EXCEPT ![c].next = Len(nodes) + 1]
                    ELSE [nodes EXCEPT ![c].previous = Len(nodes) + 1], node)

\* insert_bst; duplicates are not added.
InsertBst(k, v) ==
    \/ /\ head = None
       /\ nodes' = Append(nodes, NewNode(k, v))
       /\ head' = Len(nodes) + 1
    \/ /\ head # None
       /\ Direction(Iterate(k), k) # 0
       /\ Attach(Iterate(k), Direction(Iterate(k), k), NewNode(k, v))
       /\ UNCHANGED head
    \/ /\ head # None
       /\ Direction(Iterate(k), k) = 0
       /\ UNCHANGED <<nodes, head>>

\* Mutant: the node next to the key's place is answered.
SearchBst_Adjacent(k) == nodes[Iterate(k)].value

\* search_bst, and the value of the entry it answers.
SearchBst(k) ==
    IF Direction(Iterate(k), k) = 0 THEN nodes[Iterate(k)].value ELSE NULL

----------------------------------------------------------------------------
\* The dictionary

\* Mutant: the key is put at the front of the list.
ListKey_First(k) == keys' = <<k>> \o keys

\* The key is listed, whether or not it is new.
ListKey(k) == keys' = Append(keys, k)

Insert(k, v) ==
    /\ pc = "ready"
    /\ Len(keys) < MaxCalls
    /\ InsertBst(k, v)
    /\ ListKey(k)
    /\ call' = <<k, v>>
    /\ UNCHANGED <<pc, result>>

\* Mutant: the node is answered, not its value.
Search_Node(k) ==
    /\ pc = "ready"
    /\ head # None
    /\ result' = Iterate(k)
    /\ call' = <<k>>
    /\ UNCHANGED <<nodes, head, keys, pc>>

Search(k) ==
    /\ pc = "ready"
    /\ head # None
    /\ result' = SearchBst(k)
    /\ call' = <<k>>
    /\ UNCHANGED <<nodes, head, keys, pc>>

Crash == pc' = "crashed" /\ UNCHANGED <<nodes, head, keys, call, result>>

\* iterate_bst follows the root of the empty tree.
SearchEmpty ==
    /\ pc = "ready"
    /\ head = None
    /\ Crash

\* dictionary_destructor follows the root of the empty tree, and of any other
\* it frees the first entry twice: once in entry_destructor, once itself.
Destroy ==
    /\ pc = "ready"
    /\ Crash

Next ==
    \/ \E k \in Keys, v \in Values : Insert(k, v)
    \/ \E k \in Keys : Search(k)
    \/ SearchEmpty
    \/ Destroy

Spec == Init /\ [][Next]_vars

----------------------------------------------------------------------------
\* Properties

Nodes == 1..Len(nodes)
Links == Nodes \cup {None}

\* The type of every variable.
TypeOK ==
    /\ nodes \in Seq([key : Keys, value : Values, next : Links, previous : Links])
    /\ head \in Links
    /\ keys \in Seq(Keys)
    /\ pc \in {"ready", "crashed"}
    /\ call \in {<<>>} \cup {<<k>> : k \in Keys} \cup (Keys \X Values)
    /\ result \in Values \cup {NULL}

\* The nodes of the tree under n.
Subtree(n) ==
    LET down[d \in 0..Len(nodes)] ==
            IF d = 0 THEN {n} \ {None}
            ELSE down[d - 1] \cup {m \in Nodes : \E p \in down[d - 1] :
                                      m \in {nodes[p].next, nodes[p].previous}}
    IN  down[Len(nodes)]

\* The tree is a search tree, at every depth and one way round throughout: one
\* link of every node leads to all that is smaller under it, the other to all
\* that is greater.  Which is which is the code's choice.
OrderedBy(smaller, greater) == \A n \in Nodes :
    /\ \A m \in Subtree(nodes[n][smaller]) : nodes[m].key < nodes[n].key
    /\ \A m \in Subtree(nodes[n][greater]) : nodes[m].key > nodes[n].key
Ordered == OrderedBy("next", "previous") \/ OrderedBy("previous", "next")

\* No node is lost, shared or under itself: each is under the root, which no
\* link leads to, and every other is at the end of exactly one link.
TreeShape ==
    /\ Subtree(head) = Nodes
    /\ \A n \in Nodes :
         Cardinality({p \in Nodes : nodes[p].next = n})
           + Cardinality({p \in Nodes : nodes[p].previous = n})
             = IF n = head THEN 0 ELSE 1

\* The list of keys ("for easy iteration", Dictionary.h:29) names the keys of
\* the tree in the order they came first; a key inserted again is there again.
FirstCalls == {j \in DOMAIN keys : \A i \in 1..j - 1 : keys[i] # keys[j]}
KeysListed ==
    /\ Cardinality(FirstCalls) = Len(nodes)
    /\ \A j \in FirstCalls :
         nodes[Cardinality({i \in FirstCalls : i <= j})].key = keys[j]

\* The dictionary is a map in which the first value of a key stays, and every
\* search answers it.
Stored == [k \in {nodes[n].key : n \in Subtree(head)} |->
             nodes[CHOOSE n \in Subtree(head) : nodes[n].key = k].value]
Map == INSTANCE FirstWinsMap WITH dict <- Stored
ImplementsMap == Map!Spec
=============================================================================
