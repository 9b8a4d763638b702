------------------------- MODULE BinarySearchProofs -------------------------
(***************************************************************************)
(* Partial correctness of binary_search_ll for lists of every length over  *)
(* any integers, and the variant of its loop.  That it ends (Terminates)   *)
(* is checked by TLC; Narrows is what the end rests on.                    *)
(*                                                                         *)
(* The argument is the usual one, but for the lower bound: min_checked is  *)
(* a position that has been looked at, so the range may hold an item that  *)
(* is known to be too small, and the loop ends when the position does not  *)
(* move any more, not when the range is empty.                             *)
(***************************************************************************)
EXTENDS BinarySearch, NaturalInduction

\* The position is in the range, which is never empty but for the empty list,
\* and it is only the lower bound when nothing else is left.
RangeInv == pc = "loop" =>
    \/ Len(list) = 0 /\ max_checked = 0 /\ min_checked = 0
    \/ /\ min_checked <= position /\ position < max_checked
       /\ min_checked = position => max_checked = position + 1

\* Outside the range everything is too small or too large.
BoundsInv == Sorted =>
    \A k \in 1..Len(list) :
        /\ k - 1 < min_checked => list[k] < query
        /\ k - 1 >= max_checked => list[k] > query

FoundInv == pc = "loop" => ~found

IInv == TypeOK /\ RangeInv /\ BoundsInv /\ FoundInv /\ SearchCorrect

----------------------------------------------------------------------------
LEMMA Middle ==
    ASSUME NEW a \in Nat, NEW b \in Nat, a <= b
    PROVE  /\ (a + b) \div 2 \in Nat
           /\ a <= (a + b) \div 2 /\ (a + b) \div 2 <= b
           /\ a < b => (a + b) \div 2 < b
           /\ (b + a) \div 2 = (a + b) \div 2
           /\ (a + b) \div 2 = a <=> b <= a + 1
  BY SMT

LEMMA Half ==
    ASSUME NEW n \in Nat
    PROVE  /\ n \div 2 \in 0..n
           /\ n # 0 => n \div 2 < n
           /\ n # 0 /\ n \div 2 = 0 => n = 1
  BY SMT

LEMMA ListFacts ==
    ASSUME NEW l \in Lists
    PROVE  /\ Len(l) \in Nat
           /\ \A k \in 1..Len(l) : l[k] \in Keys /\ l[k] \in Int
<1>1. PICK n \in 0..MaxLength : l \in [1..n -> Keys]
  BY DEF Lists
<1>2. l \in Seq(Keys) /\ Len(l) = n
  BY <1>1, SearchAssumption
<1>3. ASSUME NEW k \in 1..Len(l) PROVE l[k] \in Keys
  BY <1>1, <1>2
<1>4. n \in Nat
  BY SearchAssumption
<1>5. QED
  BY <1>2, <1>3, <1>4, SearchAssumption

LEMMA InitInv == Init => IInv
<1> SUFFICES ASSUME Init PROVE IInv
  OBVIOUS
<1>1. Len(list) \in Nat /\ \A k \in 1..Len(list) : list[k] \in Int
  BY ListFacts DEF Init
<1>2. /\ Len(list) \div 2 \in 0..Len(list)
      /\ Len(list) # 0 => Len(list) \div 2 < Len(list)
      /\ Len(list) # 0 /\ Len(list) \div 2 = 0 => Len(list) = 1
  BY <1>1, Half
<1>3. TypeOK
  <2>1. 0 \in 0..Len(list) /\ Len(list) \in 0..Len(list) /\ 0 \in 0..MaxLength + 1
    BY <1>1, SearchAssumption
  <2>2. QED
    BY <1>2, <2>1 DEF Init, TypeOK
<1>4. RangeInv /\ BoundsInv /\ FoundInv /\ SearchCorrect
  BY <1>1, <1>2 DEF Init, RangeInv, BoundsInv, FoundInv, SearchCorrect
<1>5. QED
  BY <1>3, <1>4 DEF IInv

\* What a turn that does not find the query starts from.
LEMMA ProbingFacts ==
    ASSUME IInv, Probing
    PROVE  /\ Len(list) \in Nat /\ position \in Nat
           /\ min_checked \in Nat /\ max_checked \in Nat
           /\ min_checked <= position /\ position < max_checked
           /\ min_checked = position => max_checked = position + 1
           /\ max_checked <= Len(list)
           /\ position + 1 \in 1..Len(list)
           /\ query \in Int
           /\ \A k \in 1..Len(list) : list[k] \in Int
           /\ list' = list /\ query' = query
           /\ probes' \in 0..MaxLength + 1
           /\ ~found /\ pc = "loop"
<1>1. Len(list) \in Nat /\ \A k \in 1..Len(list) : list[k] \in Int
  BY ListFacts DEF IInv, TypeOK
<1>2. /\ pc = "loop" /\ max_checked > min_checked
      /\ position \in 0..Len(list) - 1
      /\ list' = list /\ query' = query
      /\ probes' = IF probes > MaxLength THEN probes ELSE probes + 1
  BY DEF Probing, Searching, Present
<1>3. /\ position \in 0..Len(list)
      /\ min_checked \in 0..Len(list)
      /\ max_checked \in 0..Len(list)
      /\ query \in Keys /\ probes \in 0..MaxLength + 1
  BY DEF IInv, TypeOK
<1>4. /\ min_checked <= position /\ position < max_checked
      /\ min_checked = position => max_checked = position + 1
  BY <1>1, <1>2, <1>3 DEF IInv, RangeInv
<1>5. probes' \in 0..MaxLength + 1
  BY <1>2, <1>3, SearchAssumption
<1>6. QED
  BY <1>1, <1>2, <1>3, <1>4, <1>5, SearchAssumption DEF IInv, FoundInv

LEMMA AboveInv ==
    ASSUME IInv, Above
    PROVE  IInv' /\ (pc' = "loop" => max_checked' - min_checked' < max_checked - min_checked)
<1> DEFINE middle == (min_checked + position) \div 2
<1>1. Probing /\ list[position + 1] > query
  BY DEF Above, Retrieve
<1>2. /\ max_checked' = position /\ min_checked' = min_checked
      /\ position' = middle /\ found' = found
      /\ pc' = IF position = middle THEN "done" ELSE "loop"
  BY DEF Above, MoveTo
<1>3. /\ middle \in Nat /\ min_checked <= middle /\ middle <= position
      /\ min_checked < position => middle < position
      /\ middle = min_checked => position <= min_checked + 1
  BY <1>1, ProbingFacts, Middle
<1> HIDE DEF middle
<1>4. TypeOK'
  BY <1>1, <1>2, <1>3, ProbingFacts DEF IInv, TypeOK
<1>5. RangeInv'
  BY <1>1, <1>2, <1>3, ProbingFacts DEF RangeInv
<1>6. ASSUME Sorted
      PROVE  \A k \in 1..Len(list) :
                 /\ k - 1 < min_checked => list[k] < query
                 /\ k - 1 >= position => list[k] > query
  BY <1>1, <1>6, ProbingFacts DEF IInv, BoundsInv, Sorted
<1>7. BoundsInv'
  BY <1>1, <1>2, <1>6, ProbingFacts DEF BoundsInv, Sorted
<1>8. SearchCorrect'
  <2>1. ASSUME Sorted, pc' = "done"
        PROVE  ~Occurs
    <3>1. position = min_checked
      BY <1>1, <1>2, <1>3, <2>1, ProbingFacts
    <3>2. QED
      BY <1>1, <1>6, <2>1, <3>1, ProbingFacts DEF Occurs
  <2>2. (Sorted' <=> Sorted) /\ (Occurs' <=> Occurs) /\ found' = FALSE
    <3>1. found = FALSE
      BY <1>1, ProbingFacts DEF IInv, TypeOK
    <3>2. QED
      BY <1>1, <1>2, <3>1, ProbingFacts DEF Sorted, Occurs
  <2>3. Occurs' \in BOOLEAN
    BY DEF Occurs
  <2>4. QED
    BY <2>1, <2>2, <2>3 DEF SearchCorrect
<1>9. FoundInv'
  BY <1>1, <1>2, ProbingFacts DEF FoundInv
<1>10. QED
  BY <1>1, <1>2, <1>4, <1>5, <1>7, <1>8, <1>9, ProbingFacts DEF IInv

LEMMA BelowInv ==
    ASSUME IInv, Below
    PROVE  IInv' /\ (pc' = "loop" => max_checked' - min_checked' < max_checked - min_checked)
<1> DEFINE middle == (max_checked + position) \div 2
<1>1. Probing /\ list[position + 1] < query
  BY DEF Below, Retrieve
<1>2. /\ min_checked' = position /\ max_checked' = max_checked
      /\ position' = middle /\ found' = found
      /\ pc' = IF position = middle THEN "done" ELSE "loop"
  BY DEF Below, MoveTo
<1>3. /\ middle \in Nat /\ position <= middle /\ middle < max_checked
      /\ middle = position <=> max_checked <= position + 1
  BY <1>1, ProbingFacts, Middle
<1> HIDE DEF middle
<1>4. TypeOK'
  BY <1>1, <1>2, <1>3, ProbingFacts DEF IInv, TypeOK
<1>5. RangeInv'
  BY <1>1, <1>2, <1>3, ProbingFacts DEF RangeInv
<1>6. ASSUME Sorted
      PROVE  \A k \in 1..Len(list) :
                 /\ k - 1 <= position => list[k] < query
                 /\ k - 1 >= max_checked => list[k] > query
  BY <1>1, <1>6, ProbingFacts DEF IInv, BoundsInv, Sorted
<1>7. BoundsInv'
  BY <1>1, <1>2, <1>6, ProbingFacts DEF BoundsInv, Sorted
<1>8. SearchCorrect'
  <2>1. ASSUME Sorted, pc' = "done"
        PROVE  ~Occurs
    <3>1. max_checked = position + 1
      BY <1>1, <1>2, <1>3, <2>1, ProbingFacts
    <3>2. QED
      BY <1>1, <1>6, <2>1, <3>1, ProbingFacts DEF Occurs
  <2>2. (Sorted' <=> Sorted) /\ (Occurs' <=> Occurs) /\ found' = FALSE
    <3>1. found = FALSE
      BY <1>1, ProbingFacts DEF IInv, TypeOK
    <3>2. QED
      BY <1>1, <1>2, <3>1, ProbingFacts DEF Sorted, Occurs
  <2>3. Occurs' \in BOOLEAN
    BY DEF Occurs
  <2>4. QED
    BY <2>1, <2>2, <2>3 DEF SearchCorrect
<1>9. FoundInv'
  BY <1>1, <1>2, ProbingFacts DEF FoundInv
<1>10. pc' = "loop" => min_checked < position
  BY <1>1, <1>2, <1>3, ProbingFacts
<1>11. QED
  BY <1>1, <1>2, <1>4, <1>5, <1>7, <1>8, <1>9, <1>10, ProbingFacts DEF IInv

LEMMA EqualInv ==
    ASSUME IInv, Equal
    PROVE  IInv' /\ (pc' = "loop" => max_checked' - min_checked' < max_checked - min_checked)
<1>1. Probing /\ list[position + 1] = query
  BY DEF Equal, Retrieve
<1>2. /\ max_checked' = max_checked /\ min_checked' = min_checked
      /\ position' = position /\ found' = TRUE /\ pc' = "done"
  BY DEF Equal
<1>3. TypeOK'
  BY <1>1, <1>2, ProbingFacts DEF IInv, TypeOK
<1>4. BoundsInv'
  BY <1>1, <1>2, ProbingFacts DEF IInv, BoundsInv, Sorted
<1>5. Occurs' = TRUE
  BY <1>1, <1>2, ProbingFacts DEF Occurs
<1>6. SearchCorrect'
  BY <1>2, <1>5 DEF SearchCorrect
<1>7. QED
  BY <1>2, <1>3, <1>4, <1>6 DEF IInv, RangeInv, FoundInv

\* The range is only empty when the list is: the loop is not left for that
\* otherwise.
LEMMA ExhaustedInv ==
    ASSUME IInv, Exhausted
    PROVE  IInv' /\ pc' # "loop"
<1>1. /\ pc = "loop" /\ max_checked <= min_checked /\ pc' = "done"
      /\ UNCHANGED <<list, query, position, min_checked, max_checked, found, probes>>
  BY DEF Exhausted
<1>2. Len(list) = 0
  BY <1>1, ListFacts DEF IInv, TypeOK, RangeInv
<1>. found = FALSE
  BY <1>1 DEF IInv, TypeOK, FoundInv
<1>3. TypeOK' /\ BoundsInv' /\ RangeInv' /\ FoundInv'
  BY <1>1 DEF IInv, TypeOK, BoundsInv, RangeInv, FoundInv, Sorted
<1>4. Occurs' = FALSE
  BY <1>1, <1>2 DEF Occurs
<1>5. SearchCorrect'
  BY <1>1, <1>2, <1>4 DEF SearchCorrect
<1>6. QED
  BY <1>1, <1>3, <1>5 DEF IInv

LEMMA StepInv == IInv /\ [Next]_vars => IInv'
<1> SUFFICES ASSUME IInv, [Next]_vars PROVE IInv'
  OBVIOUS
<1>1. CASE Next
  BY <1>1, AboveInv, BelowInv, EqualInv, ExhaustedInv DEF Next
<1>2. CASE UNCHANGED vars
  BY <1>2 DEF vars, IInv, TypeOK, RangeInv, BoundsInv, FoundInv, SearchCorrect, Sorted, Occurs
<1>3. QED
  BY <1>1, <1>2

LEMMA Invariance == Spec => []IInv
  BY InitInv, StepInv, PTL DEF Spec

----------------------------------------------------------------------------
\* Types, for lists of every length: no bound, no position leaves the list.
THEOREM TypeCorrect == Spec => []TypeOK
<1>1. IInv => TypeOK
  BY DEF IInv
<1>2. QED
  BY <1>1, Invariance, PTL

\* retrieve (LinkedList.c:206) is given a position of the list at every turn,
\* so compare is never given NULL, whether or not the list is sorted.
THEOREM ProbesStayInside == Spec => []StaysInside
<1>1. IInv => StaysInside
  BY ListFacts DEF IInv, TypeOK, RangeInv, StaysInside, Searching, Present
<1>2. QED
  BY <1>1, Invariance, PTL

\* The answer on a sorted list: TRUE exactly when the query is in the list.
THEOREM AnswerIsRight == Spec => []SearchCorrect
<1>1. IInv => SearchCorrect
  BY DEF IInv
<1>2. QED
  BY <1>1, Invariance, PTL

\* The variant of the loop: every turn makes the range smaller or ends it.
THEOREM RangeNarrows == Spec => Narrows
<1>1. IInv /\ Next => (pc' = "loop" => max_checked' - min_checked' < max_checked - min_checked)
  BY AboveInv, BelowInv, EqualInv, ExhaustedInv DEF Next
<1>2. IInv /\ [Next]_vars =>
        [pc' = "loop" => max_checked' - min_checked' < max_checked - min_checked]_vars
  BY <1>1
<1>3. QED
  BY <1>2, Invariance, PTL DEF Spec, Narrows

----------------------------------------------------------------------------
\* The number of turns

\* The powers of two are what their recursion says.
LEMMA Powers ==
    /\ PowerOfTwo[0] = 1
    /\ \A n \in 0..MaxLength + 1 : PowerOfTwo[n] \in Nat \ {0}
    /\ \A n \in 1..MaxLength + 1 : PowerOfTwo[n] = 2 * PowerOfTwo[n - 1]
<1> PICK N : N = MaxLength + 1
  OBVIOUS
<1> PICK step : step = [x \in Nat \ {0} |-> 2 * x]
  OBVIOUS
<1>1. N \in Nat /\ 0 \in 0..N
  BY SearchAssumption
<1>2. step \in [Nat \ {0} -> Nat \ {0}]
  OBVIOUS
<1>3. PICK f : Iteration(f, Nat \ {0}, 1, step, N)
  <2> PICK S, a : S = Nat \ {0} /\ a = 1
    OBVIOUS
  <2>1. a \in S /\ step \in [S -> S]
    BY <1>2
  <2>2. \E f : Iteration(f, S, a, step, N)
    BY <1>1, <2>1, Iterates
  <2> QED BY <2>2
<1>4. /\ f \in [0..N -> Nat \ {0}] /\ f[0] = 1
      /\ \A n \in 1..N : f[n] = step[f[n - 1]]
  BY <1>3 DEF Iteration
<1>5. \A n \in 1..N : f[n] = 2 * f[n - 1]
  <2> SUFFICES ASSUME NEW n \in 1..N PROVE f[n] = 2 * f[n - 1]
    OBVIOUS
  <2>1. n - 1 \in 0..N
    BY <1>1
  <2> QED BY <1>4, <2>1
<1> DEFINE Rec(g) == g = [n \in 0..MaxLength + 1 |-> IF n = 0 THEN 1 ELSE 2 * g[n - 1]]
<1>6. \A n \in 0..N : f[n] = IF n = 0 THEN 1 ELSE 2 * f[n - 1]
  BY <1>1, <1>4, <1>5
<1>7. f = [n \in 0..N |-> IF n = 0 THEN 1 ELSE 2 * f[n - 1]]
  BY <1>4, <1>6
<1>8. Rec(f)
  BY <1>7
<1>9. PowerOfTwo = CHOOSE g : Rec(g)
  BY DEF PowerOfTwo
<1>10. Rec(PowerOfTwo)
  <2> HIDE DEF Rec
  <2> QED BY <1>8, <1>9
<1> PICK g : g = PowerOfTwo
  OBVIOUS
<1>11. g = [n \in 0..N |-> IF n = 0 THEN 1 ELSE 2 * g[n - 1]]
  BY <1>10
<1>12. g[0] = 1 /\ \A n \in 1..N : g[n] = 2 * g[n - 1]
  <2>1. \A n \in 0..N : g[n] = IF n = 0 THEN 1 ELSE 2 * g[n - 1]
    <3> PICK rec : rec = [n \in 0..N |-> IF n = 0 THEN 1 ELSE 2 * g[n - 1]]
      OBVIOUS
    <3>1. \A n \in 0..N : rec[n] = IF n = 0 THEN 1 ELSE 2 * g[n - 1]
      OBVIOUS
    <3>2. g = rec
      BY <1>11
    <3> QED BY <3>1, <3>2
  <2>2. \A n \in 1..N : n \in 0..N /\ n # 0
    BY <1>1
  <2> QED BY <1>1, <2>1, <2>2
<1>13. \A n \in 0..N : g[n] \in Nat \ {0}
  <2> PICK S : S = {n \in 0..N : g[n] \in Nat \ {0}}
    OBVIOUS
  <2>1. 0 \in S
    BY <1>1, <1>12
  <2>2. ASSUME NEW n \in 0..N - 1, n \in S PROVE n + 1 \in S
    <3>1. n + 1 \in 1..N /\ (n + 1) - 1 = n /\ n + 1 \in 0..N
      BY <1>1
    <3>2. g[n + 1] = 2 * g[n]
      BY <1>12, <3>1
    <3> QED BY <2>2, <3>1, <3>2
  <2> QED BY <1>1, <2>1, <2>2, Induction
<1> QED BY <1>12, <1>13

\* Doubling a factor and halving the other one does not make a product larger.
LEMMA Doubled ==
    ASSUME NEW x \in Nat, NEW a \in Nat, NEW b \in Nat, 2 * a <= b
    PROVE  (2 * x) * a <= x * b
<1>1. PICK c \in Nat : b = 2 * a + c
  <2>1. b - 2 * a \in Nat /\ b = 2 * a + (b - 2 * a)
    OBVIOUS
  <2> QED BY <2>1
<1>2. x * b = x * (2 * a) + x * c
  BY <1>1
<1>3. x * (2 * a) = (2 * x) * a /\ x * c \in Nat /\ (2 * x) * a \in Nat
  OBVIOUS
<1> QED BY <1>2, <1>3

\* A product is not smaller than one of its factors, nor larger than twice itself.
LEMMA Grows ==
    ASSUME NEW x \in Nat, NEW a \in Nat
    PROVE  /\ x * a \in Int /\ (2 * x) * a \in Int
           /\ a # 0 => x <= x * a
           /\ x * a <= (2 * x) * a
<1>1. x * a \in Nat /\ (2 * x) * a = 2 * (x * a)
  OBVIOUS
<1>2. ASSUME a # 0 PROVE x <= x * a
  <2>1. PICK k \in Nat : a = k + 1
    <3>1. a - 1 \in Nat /\ a = (a - 1) + 1
      BY <1>2
    <3> QED BY <3>1
  <2>2. x * (k + 1) = x * k + x
    OBVIOUS
  <2>3. x * k \in Nat
    OBVIOUS
  <2> QED BY <2>1, <2>2, <2>3
<1> QED BY <1>1, <1>2

\* The loop looks at the middle of its range; with every turn the items of the
\* range but one are at most half as many.
CostInv ==
    /\ pc = "loop" => position = (min_checked + max_checked) \div 2
    /\ pc = "loop" /\ Len(list) > 0 =>
          PowerOfTwo[probes] * (max_checked - min_checked - 1) <= Len(list) - 1
    /\ pc = "loop" /\ probes > 0 => PowerOfTwo[probes - 1] <= Len(list)
    /\ Logarithmic

LEMMA InitCost == Init => CostInv
<1> SUFFICES ASSUME Init PROVE CostInv
  OBVIOUS
<1>1. Len(list) \in Nat
  BY ListFacts DEF Init
<1>2. (0 + Len(list)) \div 2 = Len(list) \div 2 /\ 1 * (Len(list) - 0 - 1) = Len(list) - 1
  BY <1>1
<1> QED BY <1>1, <1>2, Powers DEF Init, CostInv, Logarithmic

\* The range after a turn that goes on: its items but one are half as many.
LEMMA Halves ==
    ASSUME IInv, CostInv, Above \/ Below
    PROVE  /\ pc' = "loop" => /\ position' = (min_checked' + max_checked') \div 2
                              /\ 2 * (max_checked' - min_checked' - 1) <= max_checked - min_checked - 1
                              /\ max_checked' - min_checked' - 1 \in Nat
                              /\ max_checked - min_checked - 1 \in Nat \ {0}
           /\ max_checked - min_checked - 1 \in Nat
<1>1. Probing
  BY DEF Above, Below
<1>2. /\ position = (min_checked + max_checked) \div 2
      /\ min_checked \in Nat /\ max_checked \in Nat
      /\ min_checked <= position /\ position < max_checked
      /\ position \in Nat
      /\ min_checked = position => max_checked = position + 1
  BY <1>1, ProbingFacts DEF CostInv
<1>3. 2 * position <= min_checked + max_checked /\ min_checked + max_checked <= 2 * position + 1
  BY <1>2
<1>4. CASE Above
  <2>1. /\ max_checked' = position /\ min_checked' = min_checked
        /\ position' = (min_checked + position) \div 2
        /\ pc' = "loop" => position # (min_checked + position) \div 2
    BY <1>4 DEF Above, MoveTo
  <2>2. pc' = "loop" => min_checked < position
    BY <1>2, <2>1
  <2> QED BY <1>2, <1>3, <2>1, <2>2
<1>5. CASE Below
  <2>1. /\ max_checked' = max_checked /\ min_checked' = position
        /\ position' = (max_checked + position) \div 2
        /\ pc' = "loop" => position # (max_checked + position) \div 2
    BY <1>5 DEF Below, MoveTo
  <2>2. pc' = "loop" => position + 1 < max_checked
    BY <1>2, <2>1
  <2>3. (max_checked + position) \div 2 = (position + max_checked) \div 2
    BY <1>2
  <2> QED BY <1>2, <1>3, <2>1, <2>2, <2>3
<1> QED BY <1>4, <1>5

\* A turn that looks at an item costs one, and halves the range if it goes on.
LEMMA ProbeCost ==
    ASSUME IInv, IInv', CostInv, Above \/ Below
    PROVE  CostInv'
<1> PICK n, w, v, p, power :
        /\ n = Len(list) /\ w = max_checked - min_checked - 1
        /\ v = max_checked' - min_checked' - 1 /\ p = probes
        /\ power = PowerOfTwo[probes]
  OBVIOUS
<1>1. /\ Probing /\ list' = list /\ n \in Nat /\ n > 0 /\ pc = "loop"
      /\ probes \in 0..MaxLength + 1 /\ MaxLength \in Nat
      /\ probes' = IF probes > MaxLength THEN probes ELSE probes + 1
  <2>1. Probing
    BY DEF Above, Below
  <2> QED BY <2>1, ProbingFacts, SearchAssumption DEF IInv, TypeOK, Probing
<1>2. /\ power \in Nat \ {0}
      /\ probes > 0 => power = 2 * PowerOfTwo[probes - 1] /\ PowerOfTwo[probes - 1] \in Nat
  BY <1>1, Powers
<1>3. /\ w \in Nat /\ power * w <= n - 1
      /\ pc' = "loop" => v \in Nat /\ w # 0 /\ 2 * v <= w
                         /\ position' = (min_checked' + max_checked') \div 2
  BY <1>1, Halves DEF CostInv
<1>4. pc' = "loop" => (2 * power) * v <= n - 1
  <2> SUFFICES ASSUME pc' = "loop" PROVE (2 * power) * v <= n - 1
    OBVIOUS
  <2>1. (2 * power) * v <= power * w /\ (2 * power) * v \in Int /\ power * w \in Int
    BY <1>2, <1>3, Doubled
  <2> QED BY <1>1, <1>3, <2>1
<1>5. pc' = "loop" => power <= n - 1
  <2> SUFFICES ASSUME pc' = "loop" PROVE power <= n - 1
    OBVIOUS
  <2>1. power <= power * w /\ power * w \in Int
    BY <1>2, <1>3, Grows
  <2> QED BY <1>1, <1>2, <1>3, <2>1
<1>6. CASE probes > MaxLength
  <2>1. probes' = probes /\ probes > 0
    BY <1>1, <1>6
  <2>2. pc' = "loop" => power * v <= n - 1
    <3> SUFFICES ASSUME pc' = "loop" PROVE power * v <= n - 1
      OBVIOUS
    <3>1. power * v <= (2 * power) * v /\ power * v \in Int /\ (2 * power) * v \in Int
      BY <1>2, <1>3, Grows
    <3> QED BY <1>1, <1>4, <3>1
  <2>3. Logarithmic'
    BY <1>1, <2>1 DEF CostInv, Logarithmic
  <2>4. pc' = "loop" => PowerOfTwo[probes'] * (max_checked' - min_checked' - 1) <= Len(list') - 1
    BY <1>1, <2>1, <2>2
  <2>5. pc' = "loop" /\ probes' > 0 => PowerOfTwo[probes' - 1] <= Len(list')
    BY <1>1, <2>1 DEF CostInv
  <2> QED BY <1>3, <2>3, <2>4, <2>5 DEF CostInv
<1>7. CASE probes <= MaxLength
  <2>1. probes' = probes + 1 /\ probes + 1 \in 1..MaxLength + 1
    BY <1>1, <1>7
  <2>2. PowerOfTwo[probes + 1] = 2 * power
    BY <1>1, <2>1, Powers
  <2>3. probes' - 1 = probes /\ probes' - 2 = probes - 1
    BY <1>1, <2>1
  <2>4. Logarithmic'
    BY <1>1, <2>1, <2>3 DEF CostInv, Logarithmic
  <2>5. pc' = "loop" => PowerOfTwo[probes'] * (max_checked' - min_checked' - 1) <= Len(list') - 1
    BY <1>1, <1>4, <2>1, <2>2
  <2>6. pc' = "loop" => PowerOfTwo[probes' - 1] <= Len(list')
    BY <1>1, <1>2, <1>5, <2>3
  <2> QED BY <1>3, <2>4, <2>5, <2>6 DEF CostInv
<1> QED BY <1>1, <1>6, <1>7

LEMMA StepCost ==
    ASSUME IInv, IInv', CostInv, [Next]_vars
    PROVE  CostInv'
<1>1. CASE Above \/ Below
  BY <1>1, ProbeCost
<1>2. CASE Equal
  <2>1. /\ pc' = "done" /\ list' = list /\ pc = "loop" /\ probes \in 0..MaxLength + 1
        /\ probes' = probes \/ probes' = probes + 1
    BY <1>2, SearchAssumption DEF Equal, Probing, Searching, IInv, TypeOK
  <2>2. probes' = probes => Logarithmic'
    BY <2>1 DEF CostInv, Logarithmic
  <2>3. probes' = probes + 1 => Logarithmic'
    <3>1. (probes + 1) - 2 = probes - 1 /\ (probes + 1 > 1 => probes > 0)
      BY <2>1
    <3> QED BY <2>1, <3>1 DEF CostInv, Logarithmic
  <2> QED BY <2>1, <2>2, <2>3 DEF CostInv
<1>3. CASE Exhausted
  BY <1>3 DEF Exhausted, CostInv, Logarithmic
<1>4. CASE UNCHANGED vars
  BY <1>4 DEF vars, CostInv, Logarithmic
<1> QED BY <1>1, <1>2, <1>3, <1>4 DEF Next

\* On a list of n items, of any length, the search looks at no more than
\* log2(n) + 2 of them, sorted or not.
THEOREM TurnsAreFew == Spec => []Logarithmic
<1>1. IInv /\ CostInv /\ [Next]_vars /\ IInv' => CostInv'
  BY StepCost
<1>2. CostInv => Logarithmic
  BY DEF CostInv
<1> QED BY <1>1, <1>2, InitCost, Invariance, PTL DEF Spec
=============================================================================
