-------------------------- MODULE NaturalInduction --------------------------
(***************************************************************************)
(* Induction over sets of numbers, and the functions that recursion over   *)
(* numbers defines.  The theorems of the library that say so are about     *)
(* operators; these are about sets and functions.                          *)
(***************************************************************************)
EXTENDS Integers, FiniteSetTheorems, TLAPS

\* A set of naturals that has an element has a least one.
LEMMA LeastNatural ==
    ASSUME NEW S, S \subseteq Nat, S # {}
    PROVE  \E x \in S : \A y \in S : x <= y
<1> DEFINE Upto(n) == 1..n
           Below == {Upto(n) : n \in S}
<1>1. \A n \in S : Upto(n) \in FiniteSubsetsOf(Nat)
  BY FS_Interval DEF FiniteSubsetsOf
<1>2. Below \subseteq FiniteSubsetsOf(Nat) /\ Below # {}
  BY <1>1
<1>3. PICK B \in Below : \A C \in Below : ~(<<C, B>> \in StrictSubsetOrdering(Nat))
  BY <1>2, FS_StrictSubsetOrderingWellFounded, WFMin, Zenon
<1>4. PICK x \in S : B = Upto(x)
  BY <1>3
<1>5. ASSUME NEW y \in S, y < x PROVE FALSE
  <2>1. x \in Upto(x) /\ x \notin Upto(y) /\ Upto(y) \subseteq Upto(x) /\ Upto(x) \subseteq Nat
    BY <1>5
  <2>2. <<Upto(y), Upto(x)>> \in StrictSubsetOrdering(Nat)
    BY <2>1 DEF StrictSubsetOrdering
  <2> QED BY <1>3, <1>4, <2>2
<1> QED BY <1>5

\* What holds of 0 and of the successor of every number it holds of, up to N,
\* holds of all numbers up to N.
LEMMA Induction ==
    ASSUME NEW N \in Nat, NEW S, 0 \in S, \A n \in 0..N - 1 : n \in S => n + 1 \in S
    PROVE  0..N \subseteq S
<1> SUFFICES ASSUME ~(0..N \subseteq S) PROVE FALSE
  OBVIOUS
<1> DEFINE Others == (0..N) \ S
<1>1. Others \subseteq Nat /\ Others # {}
  OBVIOUS
<1>2. PICK x \in Others : \A y \in Others : x <= y
  BY <1>1, LeastNatural
<1>3. x \in 1..N /\ x - 1 \in 0..N - 1 /\ (x - 1) + 1 = x
  BY <1>2
<1>4. x - 1 \notin Others
  BY <1>2, <1>3
<1> QED BY <1>2, <1>3, <1>4

\* f is what a first value and a step that depends on the number define on 0..N.
Recurrence(f, S, a, step, N) ==
    /\ f \in [0..N -> S]
    /\ f[0] = a
    /\ \A n \in 1..N : f[n] = step[<<n, f[n - 1]>>]

\* Such a function exists.
LEMMA Recursion ==
    ASSUME NEW S, NEW a \in S, NEW N \in Nat, NEW step \in [(1..N) \X S -> S]
    PROVE  \E f : Recurrence(f, S, a, step, N)
<1> DEFINE Upto(f, n) ==
             f \in [0..n -> S] /\ f[0] = a /\ \A i \in 1..n : f[i] = step[<<i, f[i - 1]>>]
           Done == {n \in 0..N : \E f : Upto(f, n)}
<1>1. 0 \in Done
  <2>1. Upto([i \in 0..0 |-> a], 0)
    OBVIOUS
  <2>2. 0 \in 0..N
    OBVIOUS
  <2> HIDE DEF Upto
  <2> QED BY <2>1, <2>2
<1>2. ASSUME NEW n \in 0..N - 1, n \in Done PROVE n + 1 \in Done
  <2>1. PICK f : Upto(f, n)
    BY <1>2
  <2> DEFINE g == [i \in 0..n + 1 |-> IF i = n + 1 THEN step[<<n + 1, f[n]>>] ELSE f[i]]
  <2>2. f[n] \in S /\ n + 1 # 0 /\ 0 \in 0..n + 1 /\ n + 1 \in 1..N
    BY <2>1
  <2>3. step[<<n + 1, f[n]>>] \in S
    BY <2>2
  <2>4. g \in [0..n + 1 -> S] /\ g[0] = a
    BY <2>1, <2>2, <2>3
  <2>5. ASSUME NEW i \in 1..n + 1 PROVE g[i] = step[<<i, g[i - 1]>>]
    <3>1. CASE i = n + 1
      <4>1. i \in 0..n + 1 /\ i - 1 = n /\ n \in 0..n + 1 /\ n # n + 1
        BY <3>1
      <4>2. g[i] = step[<<n + 1, f[n]>>] /\ g[i - 1] = f[n]
        BY <3>1, <4>1
      <4> QED BY <3>1, <4>2
    <3>2. CASE i # n + 1
      <4>1. i \in 1..n /\ i - 1 \in 0..n /\ i - 1 # n + 1 /\ i \in 0..n + 1 /\ i - 1 \in 0..n + 1
        BY <3>2
      <4>2. g[i] = f[i] /\ g[i - 1] = f[i - 1]
        BY <3>2, <4>1
      <4> QED BY <2>1, <4>1, <4>2
    <3> QED BY <3>1, <3>2
  <2>6. Upto(g, n + 1)
    BY <2>4, <2>5
  <2>7. n + 1 \in 0..N
    OBVIOUS
  <2> HIDE DEF g, Upto
  <2> QED BY <2>6, <2>7
<1>3. 0..N \subseteq Done
  <2> HIDE DEF Done
  <2> QED BY <1>1, <1>2, Induction
<1>4. PICK f : Upto(f, N)
  BY <1>3
<1> QED BY <1>4 DEF Recurrence

\* f is what a first value and a step define on 0..N.
Iteration(f, S, a, step, N) ==
    /\ f \in [0..N -> S]
    /\ f[0] = a
    /\ \A n \in 1..N : f[n] = step[f[n - 1]]

\* A first value and a step define a function.
LEMMA Iterates ==
    ASSUME NEW S, NEW a \in S, NEW step \in [S -> S], NEW N \in Nat
    PROVE  \E f : Iteration(f, S, a, step, N)
<1> PICK counted : counted = [p \in (1..N) \X S |-> step[p[2]]]
  OBVIOUS
<1>1. /\ counted \in [(1..N) \X S -> S]
      /\ \A n \in 1..N, x \in S : counted[<<n, x>>] = step[x]
  OBVIOUS
<1>2. PICK f : Recurrence(f, S, a, counted, N)
  <2>1. counted \in [(1..N) \X S -> S]
    BY <1>1
  <2> QED BY <2>1, Recursion, Zenon
<1>3. \A n \in 1..N : f[n - 1] \in S
  <2>1. \A n \in 1..N : n - 1 \in 0..N
    OBVIOUS
  <2> QED BY <1>2, <2>1 DEF Recurrence
<1>4. \A n \in 1..N : f[n] = step[f[n - 1]]
  BY <1>1, <1>2, <1>3 DEF Recurrence
<1> QED BY <1>2, <1>4 DEF Iteration, Recurrence
=============================================================================
