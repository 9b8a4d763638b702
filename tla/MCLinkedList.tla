--------------------------- MODULE MCLinkedList ---------------------------
(* LinkedList for TLC.  Nodes, and the data in them, are interchangeable.  *)
EXTENDS LinkedList, TLC

Alike == Permutations(Node) \cup Permutations(Data)
MinusTwo == -2
=============================================================================
