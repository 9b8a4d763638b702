---------------------------- MODULE MCLiveRelay ----------------------------
(* LiveRelay for TLC.  Viewers and broadcasters are interchangeable when   *)
(* none of them is singled out by Stalling or Leaving.                     *)
EXTENDS LiveRelay, TLC

Interchangeable == Permutations(Broadcasters) \cup Permutations(Viewers)
=============================================================================
