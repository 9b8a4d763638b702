---------------------------- MODULE FirstWinsMap ----------------------------
(***************************************************************************)
(* What a dictionary promises: the first value inserted under a key stays, *)
(* and a search answers it, or NULL for a key that has none.  Of a search  *)
(* before the first insertion nothing is promised.                         *)
(***************************************************************************)
CONSTANTS Keys, Values, NULL

VARIABLES
    dict,       \* the value of every key that has one
    call,       \* the last call: <<key, value>> inserted, or <<key>> searched
    result      \* what the last search answered

mapvars == <<dict, call, result>>

Init == dict = <<>> /\ call = <<>> /\ result = NULL

Insert(k, v) ==
    /\ call' = <<k, v>>
    /\ dict' = [key \in DOMAIN dict \cup {k} |->
                  IF key \in DOMAIN dict THEN dict[key] ELSE v]
    /\ UNCHANGED result

Search(k) ==
    /\ DOMAIN dict # {}
    /\ call' = <<k>>
    /\ result' = IF k \in DOMAIN dict THEN dict[k] ELSE NULL
    /\ UNCHANGED dict

Next == \E k \in Keys : Search(k) \/ \E v \in Values : Insert(k, v)

Spec == Init /\ [][Next]_mapvars
=============================================================================
