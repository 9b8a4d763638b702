---------------------------- MODULE MCDictionary ----------------------------
(* Dictionary for TLC: all orders of up to four insertions of four keys,   *)
(* which give every shape of tree with up to four nodes.                   *)
EXTENDS Dictionary, TLC

FourKeys == 1..4
Alike == Permutations(Values)
=============================================================================
