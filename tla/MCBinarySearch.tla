--------------------------- MODULE MCBinarySearch ---------------------------
(* BinarySearch for TLC: every list of up to six items out of four.        *)
EXTENDS BinarySearch

FourKeys == 1..4
=============================================================================
