---------------------------- MODULE BinarySearch ----------------------------
(***************************************************************************)
(* binary_search_ll of LinkedList.c: one step per turn of its loop, for    *)
(* any list, sorted or not, and any query.  Items are integers and compare *)
(* is the one of the callers, which answers 1, 0 or -1.  Positions count   *)
(* from 0, as retrieve does.                                               *)
(***************************************************************************)
EXTENDS Integers, Sequences

CONSTANTS
    Keys,       \* the items, and the queries
    MaxLength   \* bound of the model: the longest list

ASSUME SearchAssumption == Keys \subseteq Int /\ MaxLength \in Nat

VARIABLES
    list,           \* the items of the list; constant
    query,          \* constant
    position,
    min_checked,
    max_checked,
    pc,             \* "loop" or "done"
    found,          \* what the search returns
    probes          \* history: the turns that retrieved data, up to MaxLength + 1

vars == <<list, query, position, min_checked, max_checked, pc, found, probes>>

Lists == UNION {[1..n -> Keys] : n \in 0..MaxLength}

Init ==
    /\ list \in Lists
    /\ query \in Keys
    /\ position = Len(list) \div 2
    /\ min_checked = 0
    /\ max_checked = Len(list)
    /\ pc = "loop"
    /\ found = FALSE
    /\ probes = 0

\* retrieve: the data at a position of the list.  It answers NULL to any other
\* one, and compare follows it: there is no step then.
Present(p) == p \in 0..Len(list) - 1
Retrieve(p) == list[p + 1]

Searching == pc = "loop" /\ max_checked > min_checked

Probing ==
    /\ Searching
    /\ Present(position)
    /\ probes' = IF probes > MaxLength THEN probes ELSE probes + 1
    /\ UNCHANGED <<list, query>>

\* Mutant: the loop goes on although the position does not move.
MoveTo_NoBreak(middle) ==
    /\ position' = middle
    /\ UNCHANGED <<pc, found>>

\* The position moves to the middle, or the loop is left when it is there.
MoveTo(middle) ==
    /\ position' = middle
    /\ pc' = IF position = middle THEN "done" ELSE "loop"
    /\ UNCHANGED found

\* Mutant: the upper bound is taken for one that is still in the range.
Above_Inclusive ==
    /\ Probing /\ Retrieve(position) > query
    /\ max_checked' = position - 1
    /\ MoveTo((min_checked + position) \div 2)
    /\ UNCHANGED min_checked

\* Mutant: the middle is rounded up.
Below_RoundsUp ==
    /\ Probing /\ Retrieve(position) < query
    /\ min_checked' = position
    /\ MoveTo((max_checked + position + 1) \div 2)
    /\ UNCHANGED max_checked

\* Mutant: the lower bound is forgotten.
Below_KeepsMin ==
    /\ Probing /\ Retrieve(position) < query
    /\ MoveTo((max_checked + position) \div 2)
    /\ UNCHANGED <<min_checked, max_checked>>

\* The data is above the query.
Above ==
    /\ Probing /\ Retrieve(position) > query
    /\ max_checked' = position
    /\ MoveTo((min_checked + position) \div 2)
    /\ UNCHANGED min_checked

\* The data is below the query.
Below ==
    /\ Probing /\ Retrieve(position) < query
    /\ min_checked' = position
    /\ MoveTo((max_checked + position) \div 2)
    /\ UNCHANGED max_checked

Equal ==
    /\ Probing /\ Retrieve(position) = query
    /\ found' = TRUE
    /\ pc' = "done"
    /\ UNCHANGED <<position, min_checked, max_checked>>

Exhausted ==
    /\ pc = "loop"
    /\ max_checked <= min_checked
    /\ pc' = "done"
    /\ UNCHANGED <<list, query, position, min_checked, max_checked, found, probes>>

Next == Above \/ Below \/ Equal \/ Exhausted

Spec == Init /\ [][Next]_vars
FairSpec == Spec /\ WF_vars(Next)

----------------------------------------------------------------------------
\* Properties

\* The type of every variable.
TypeOK ==
    /\ list \in Lists
    /\ query \in Keys
    /\ position \in 0..Len(list)
    /\ min_checked \in 0..Len(list)
    /\ max_checked \in 0..Len(list)
    /\ pc \in {"loop", "done"}
    /\ found \in BOOLEAN
    /\ probes \in 0..MaxLength + 1

\* The search never leaves the list, sorted or not: compare gets no NULL.
StaysInside == Searching => Present(position)

\* On a sorted list, which LinkedList.h:57 requires, the answer is right, with
\* duplicates and at both ends.
Sorted == \A j, k \in 1..Len(list) : j < k => list[j] <= list[k]
Occurs == \E j \in 1..Len(list) : list[j] = query
SearchCorrect == Sorted /\ pc = "done" => found = Occurs

PowerOfTwo[n \in 0..MaxLength + 1] == IF n = 0 THEN 1 ELSE 2 * PowerOfTwo[n - 1]

\* The range is halved: n items cost at most log2(n) + 2 turns, one more than
\* a search that does not look at min_checked again.
Logarithmic == probes > 1 => PowerOfTwo[probes - 2] <= Len(list)

\* Every turn that does not end the search makes its range smaller.
Narrows == [][pc' = "loop" => max_checked' - min_checked' < max_checked - min_checked]_vars

\* The search ends, sorted list or not: the test for a position that does not
\* move is what the loop's own condition lacks.
Terminates == <>(pc # "loop")
=============================================================================
