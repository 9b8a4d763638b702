--------------------------- MODULE AnswerService ---------------------------
(***************************************************************************)
(* What the server of backend/main.c promises each client, as if it were   *)
(* the only one: the client asks once, receives a complete answer to what  *)
(* it asked for, message by message, and then the connection is closed.    *)
(***************************************************************************)
EXTENDS Naturals, Sequences

CONSTANTS Clients,
          Asks,        \* the requests clients make
          NoAsk,       \* the request of a client that has made none
          Answers(_)   \* the complete answers to a request: message sequences

VARIABLES asked, got, closed, left

servicevars == <<asked, got, closed, left>>

Init ==
    /\ asked  = [c \in Clients |-> NoAsk]
    /\ got    = [c \in Clients |-> <<>>]
    /\ closed = [c \in Clients |-> FALSE]
    /\ left   = [c \in Clients |-> FALSE]

Ask(c) == \E a \in Asks :
    /\ asked[c] = NoAsk
    /\ asked' = [asked EXCEPT ![c] = a]
    /\ UNCHANGED <<got, closed, left>>

\* The next message of one of the answers.
Give(c) == \E answer \in Answers(asked[c]) :
    /\ ~closed[c] /\ ~left[c]
    /\ Len(got[c]) < Len(answer)
    /\ SubSeq(answer, 1, Len(got[c])) = got[c]
    /\ got' = [got EXCEPT ![c] = Append(@, answer[Len(@) + 1])]
    /\ UNCHANGED <<asked, closed, left>>

Close(c) ==
    /\ ~closed[c]
    /\ left[c] \/ got[c] \in Answers(asked[c])
    /\ closed' = [closed EXCEPT ![c] = TRUE]
    /\ UNCHANGED <<asked, got, left>>

Leave(c) ==
    /\ left' = [left EXCEPT ![c] = TRUE]
    /\ UNCHANGED <<asked, got, closed>>

Next == \E c \in Clients : Ask(c) \/ Give(c) \/ Close(c) \/ Leave(c)

Spec == Init /\ [][Next]_servicevars
=============================================================================
