------------------------- MODULE SequentialService -------------------------
(***************************************************************************)
(* What a server that handles one client after the other promises while it *)
(* runs: clients are taken in the order they came, and each is answered at *)
(* most once, by the function for what its message asks for or, when there *)
(* is none, by NotFound.                                                   *)
(***************************************************************************)
EXTENDS Sequences, Integers

CONSTANTS
    Clients, Messages, Functions, NoClient, NoMessage, NoAnswer, NotFound,
    Meant,      \* the uris that each message may be read to ask for
    Garbled     \* messages that may be read to ask for anything

VARIABLES
    routes,     \* the function of every uri that has one
    waiting,    \* the clients that have come, in order
    current,    \* the one that is handled
    asked,
    got,
    over        \* the server has ended

svars == <<routes, waiting, current, asked, got, over>>

Init ==
    /\ routes = <<>>
    /\ waiting = <<>>
    /\ current = NoClient
    /\ asked \in [Clients -> {NoMessage}]
    /\ got \in [Clients -> {NoAnswer}]
    /\ over = FALSE

\* Once there is a function for a uri it stays, and nothing is registered when
\* somebody has been served.
Register ==
    /\ current = NoClient /\ ~over
    /\ got \in [Clients -> {NoAnswer}]
    /\ DOMAIN routes \subseteq DOMAIN routes'
    /\ \A uri \in DOMAIN routes : routes'[uri] = routes[uri]
    /\ UNCHANGED <<waiting, current, asked, got, over>>

Come(c) ==
    /\ c \notin {waiting[i] : i \in DOMAIN waiting} \cup {current}
    /\ asked[c] = NoMessage /\ got[c] = NoAnswer
    /\ waiting' = Append(waiting, c)
    /\ UNCHANGED <<routes, current, asked, got, over>>

Ask(c, m) ==
    /\ asked[c] = NoMessage
    /\ asked' = [asked EXCEPT ![c] = m]
    /\ UNCHANGED <<routes, waiting, current, got, over>>

Take ==
    /\ current = NoClient /\ ~over
    /\ waiting # <<>>
    /\ current' = Head(waiting)
    /\ waiting' = Tail(waiting)
    /\ UNCHANGED <<routes, asked, got, over>>

Found(uri) == IF uri \in DOMAIN routes THEN routes[uri] ELSE NotFound

\* The answers a message may ask for.
Answers(m) ==
    {Found(uri) : uri \in Meant[m]}
      \cup {a \in {NotFound} \cup {routes[uri] : uri \in DOMAIN routes} : m \in Garbled}

\* The server may have ended with the answer.
Answer ==
    /\ current # NoClient /\ ~over
    /\ asked[current] # NoMessage
    /\ got[current] = NoAnswer
    /\ \E a \in Answers(asked[current]) : got' = [got EXCEPT ![current] = a]
    /\ current' = NoClient
    /\ over' \in BOOLEAN
    /\ UNCHANGED <<routes, waiting, asked>>

End ==
    /\ ~over
    /\ over' = TRUE
    /\ current' = NoClient
    /\ UNCHANGED <<routes, waiting, asked, got>>

Next ==
    \/ Register \/ Take \/ Answer \/ End
    \/ \E c \in Clients : Come(c) \/ \E m \in Messages : Ask(c, m)

Spec == Init /\ [][Next]_svars
=============================================================================
