---------------------------- MODULE LossyRelay ----------------------------
(***************************************************************************)
(* What the live stream of backend/main.c promises to its users, without   *)
(* locks and threads: a piece of an upload is taken over whole or, when it *)
(* does not fit, dropped whole; what has been taken over goes in one chunk *)
(* and in order to one viewer; nothing is lost or repeated in between,     *)
(* except what was on its way to a viewer that left.                       *)
(***************************************************************************)
EXTENDS Integers, Sequences

CONSTANTS Broadcasters, Viewers,
          Capacity,      \* pending data stays below this size
          MaxPiece,      \* largest piece
          MaxBytes,      \* bound of the model: bytes of one upload
          Leaving        \* viewers that may leave

VARIABLES taken,         \* bytes of each upload taken over or dropped
          pending,       \* bytes no viewer got yet
          got            \* chunks each viewer got

relayvars == <<taken, pending, got>>

Init ==
    /\ taken = [b \in Broadcasters |-> 0]
    /\ pending = <<>>
    /\ got = [v \in Viewers |-> <<>>]

Offer(b) == \E n \in 1..MaxPiece :
    /\ taken[b] + n <= MaxBytes
    /\ taken' = [taken EXCEPT ![b] = @ + n]
    /\ pending' = IF Len(pending) + n < Capacity
                  THEN pending \o [i \in 1..n |-> <<b, taken[b] + i>>]
                  ELSE pending
    /\ UNCHANGED got

Take(v) ==
    /\ pending # <<>>
    /\ got' = [got EXCEPT ![v] = Append(@, pending)]
    /\ pending' = <<>>
    /\ UNCHANGED taken

Lose ==
    /\ Leaving # {}
    /\ pending' = <<>>
    /\ UNCHANGED <<taken, got>>

Next ==
    \/ \E b \in Broadcasters : Offer(b)
    \/ \E v \in Viewers : Take(v)
    \/ Lose

Spec == Init /\ [][Next]_relayvars
=============================================================================
