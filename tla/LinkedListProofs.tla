-------------------------- MODULE LinkedListProofs --------------------------
(***************************************************************************)
(* Proofs about LinkedList, for any nodes, data and bounds: the nodes from *)
(* the head on are a sequence without repetition, the same as the heap,    *)
(* and each operation does to it what a list promises.                     *)
(***************************************************************************)
EXTENDS LinkedList, NaturalInduction, SequenceTheorems

LEMMA FunctionIsSeq ==
    ASSUME NEW S, NEW n \in Nat, NEW f \in [1..n -> S]
    PROVE  f \in Seq(S) /\ Len(f) = n
<1>1. f \in Seq(S)
  BY SeqDef
<1>2. DOMAIN f = 1..Len(f) /\ Len(f) \in Nat /\ DOMAIN f = 1..n
  BY <1>1, LenProperties
<1> QED BY <1>1, <1>2

----------------------------------------------------------------------------
\* Insertion into a sequence and removal from one

LEMMA InsertedItems ==
    ASSUME NEW S, NEW s \in Seq(S), NEW p \in 1..Len(s) + 1, NEW e \in S
    PROVE  /\ List!InsertAt(s, p, e) \in Seq(S)
           /\ Len(List!InsertAt(s, p, e)) = Len(s) + 1
           /\ \A k \in 1..Len(s) + 1 :
                List!InsertAt(s, p, e)[k] = IF k < p THEN s[k] ELSE IF k = p THEN e ELSE s[k - 1]
<1> DEFINE a == SubSeq(s, 1, p - 1)
           b == SubSeq(s, p, Len(s))
           m == <<e>>
           t == (a \o m) \o b
<1>1. Len(s) \in Nat /\ p \in Int /\ p - 1 \in Int
  BY LenProperties
<1>2. \A k \in 1..Len(s) : s[k] \in S
  BY ElementOfSeq
<1>3. a \in Seq(S) /\ Len(a) = p - 1 /\ \A k \in 1..p - 1 : a[k] = s[k]
  <2>1. \A k \in 1..p - 1 : s[k] \in S
    BY <1>1, <1>2
  <2>2. a \in Seq(S) /\ Len(a) = (IF 1 <= p - 1 THEN (p - 1) - 1 + 1 ELSE 0)
        /\ \A k \in 1..(p - 1) - 1 + 1 : a[k] = s[1 + k - 1]
    BY <1>1, <2>1, SubSeqProperties
  <2> HIDE DEF a
  <2>3. (p - 1) - 1 + 1 = p - 1 /\ \A k \in 1..p - 1 : 1 + k - 1 = k
    BY <1>1
  <2> QED BY <1>1, <2>2, <2>3
<1>4. b \in Seq(S) /\ Len(b) = Len(s) - p + 1 /\ \A k \in 1..Len(s) - p + 1 : b[k] = s[p + k - 1]
  <2>1. \A k \in p..Len(s) : s[k] \in S
    BY <1>1, <1>2
  <2>2. b \in Seq(S) /\ Len(b) = (IF p <= Len(s) THEN Len(s) - p + 1 ELSE 0)
        /\ \A k \in 1..Len(s) - p + 1 : b[k] = s[p + k - 1]
    BY <1>1, <2>1, SubSeqProperties
  <2> HIDE DEF b
  <2> QED BY <1>1, <2>2
<1>5. m \in Seq(S) /\ Len(m) = 1 /\ m[1] = e
  OBVIOUS
<1> HIDE DEF a, b, m
<1>6. a \o m \in Seq(S) /\ Len(a \o m) = p /\ \A k \in 1..p : (a \o m)[k] = IF k < p THEN s[k] ELSE e
  <2>1. a \o m \in Seq(S) /\ Len(a \o m) = Len(a) + Len(m)
        /\ \A k \in 1..Len(a) + Len(m) : (a \o m)[k] = IF k <= Len(a) THEN a[k] ELSE m[k - Len(a)]
    BY <1>3, <1>5, ConcatProperties
  <2>2. Len(a) + Len(m) = p
    BY <1>1, <1>3, <1>5
  <2>3. ASSUME NEW k \in 1..p PROVE (a \o m)[k] = IF k < p THEN s[k] ELSE e
    <3>1. CASE k < p
      BY <1>1, <1>3, <2>1, <2>2, <3>1
    <3>2. CASE ~(k < p)
      <4>1. k = p /\ k - Len(a) = 1 /\ ~(k <= Len(a))
        BY <1>1, <1>3, <3>2
      <4> QED BY <1>5, <2>1, <2>2, <3>2, <4>1
    <3> QED BY <3>1, <3>2
  <2> QED BY <2>1, <2>2, <2>3
<1>7. t \in Seq(S) /\ Len(t) = Len(s) + 1
      /\ \A k \in 1..Len(s) + 1 : t[k] = IF k < p THEN s[k] ELSE IF k = p THEN e ELSE s[k - 1]
  <2> DEFINE u == a \o m
  <2>1. u \in Seq(S) /\ Len(u) = p /\ \A k \in 1..p : u[k] = IF k < p THEN s[k] ELSE e
    BY <1>6
  <2>2. t = u \o b
    OBVIOUS
  <2> HIDE DEF t, u
  <2>3. t \in Seq(S) /\ Len(t) = Len(u) + Len(b)
        /\ \A k \in 1..Len(u) + Len(b) : t[k] = IF k <= Len(u) THEN u[k] ELSE b[k - Len(u)]
    BY <1>4, <2>1, <2>2, ConcatProperties
  <2>4. Len(u) + Len(b) = Len(s) + 1
    BY <1>1, <1>4, <2>1
  <2>5. ASSUME NEW k \in 1..Len(s) + 1
        PROVE  t[k] = IF k < p THEN s[k] ELSE IF k = p THEN e ELSE s[k - 1]
    <3>1. CASE k <= p
      <4>1. k \in 1..p /\ t[k] = u[k]
        BY <1>1, <2>1, <2>3, <2>4, <3>1
      <4>2. k < p \/ (k = p /\ ~(k < p))
        BY <1>1, <3>1
      <4> QED BY <2>1, <4>1, <4>2
    <3>2. CASE ~(k <= p)
      <4>1. k - p \in 1..Len(s) - p + 1 /\ p + (k - p) - 1 = k - 1 /\ ~(k < p) /\ k # p
        BY <1>1, <3>2
      <4>2. t[k] = b[k - p]
        BY <2>1, <2>3, <2>4, <3>2
      <4> QED BY <1>4, <4>1, <4>2
    <3> QED BY <3>1, <3>2
  <2> QED BY <2>3, <2>4, <2>5
<1>8. List!InsertAt(s, p, e) = t
  BY DEF List!InsertAt, a, b, m
<1> QED BY <1>7, <1>8

LEMMA RemovedItems ==
    ASSUME NEW S, NEW s \in Seq(S), NEW p \in 1..Len(s)
    PROVE  /\ List!RemoveAt(s, p) \in Seq(S)
           /\ Len(List!RemoveAt(s, p)) = Len(s) - 1
           /\ \A k \in 1..Len(s) - 1 :
                List!RemoveAt(s, p)[k] = IF k < p THEN s[k] ELSE s[k + 1]
<1> DEFINE a == SubSeq(s, 1, p - 1)
           b == SubSeq(s, p + 1, Len(s))
           t == a \o b
<1>1. Len(s) \in Nat /\ p \in Int /\ p - 1 \in Int /\ p + 1 \in Int
  BY LenProperties
<1>2. \A k \in 1..Len(s) : s[k] \in S
  BY ElementOfSeq
<1>3. a \in Seq(S) /\ Len(a) = p - 1 /\ \A k \in 1..p - 1 : a[k] = s[k]
  <2>1. \A k \in 1..p - 1 : s[k] \in S
    BY <1>1, <1>2
  <2>2. a \in Seq(S) /\ Len(a) = (IF 1 <= p - 1 THEN (p - 1) - 1 + 1 ELSE 0)
        /\ \A k \in 1..(p - 1) - 1 + 1 : a[k] = s[1 + k - 1]
    BY <1>1, <2>1, SubSeqProperties
  <2> HIDE DEF a
  <2>3. (p - 1) - 1 + 1 = p - 1 /\ \A k \in 1..p - 1 : 1 + k - 1 = k
    BY <1>1
  <2> QED BY <1>1, <2>2, <2>3
<1>4. b \in Seq(S) /\ Len(b) = Len(s) - p /\ \A k \in 1..Len(s) - p : b[k] = s[p + k]
  <2>1. \A k \in p + 1..Len(s) : s[k] \in S
    BY <1>1, <1>2
  <2>2. b \in Seq(S) /\ Len(b) = (IF p + 1 <= Len(s) THEN Len(s) - (p + 1) + 1 ELSE 0)
        /\ \A k \in 1..Len(s) - (p + 1) + 1 : b[k] = s[(p + 1) + k - 1]
    BY <1>1, <2>1, SubSeqProperties
  <2> HIDE DEF b
  <2>3. Len(b) = Len(s) - p
    BY <1>1, <2>2
  <2>4. ASSUME NEW k \in 1..Len(s) - p PROVE b[k] = s[p + k]
    <3>1. k \in 1..Len(s) - (p + 1) + 1 /\ (p + 1) + k - 1 = p + k
      BY <1>1
    <3> QED BY <2>2, <3>1
  <2> QED BY <2>2, <2>3, <2>4
<1> HIDE DEF a, b
<1>5. t \in Seq(S) /\ Len(t) = Len(a) + Len(b)
      /\ \A k \in 1..Len(a) + Len(b) : t[k] = IF k <= Len(a) THEN a[k] ELSE b[k - Len(a)]
  BY <1>3, <1>4, ConcatProperties
<1> HIDE DEF t
<1>6. Len(a) + Len(b) = Len(s) - 1
  BY <1>1, <1>3, <1>4
<1>7. ASSUME NEW k \in 1..Len(s) - 1 PROVE t[k] = IF k < p THEN s[k] ELSE s[k + 1]
  <2>1. CASE k < p
    BY <1>1, <1>3, <1>5, <1>6, <2>1
  <2>2. CASE ~(k < p)
    <3>1. k - Len(a) \in 1..Len(s) - p /\ p + (k - Len(a)) = k + 1 /\ ~(k <= Len(a))
      BY <1>1, <1>3, <2>2
    <3> QED BY <1>4, <1>5, <1>6, <2>2, <3>1
  <2> QED BY <2>1, <2>2
<1>8. List!RemoveAt(s, p) = t
  BY DEF List!RemoveAt, t, a, b
<1> QED BY <1>5, <1>6, <1>7, <1>8

LEMMA AppendInserts ==
    ASSUME NEW S, NEW c \in Seq(S), NEW d \in S
    PROVE  List!InsertAt(c, Len(c) + 1, d) = Append(c, d)
<1>1. Len(c) \in Nat
  BY LenProperties
<1>2. PICK p \in 1..Len(c) + 1 : p = Len(c) + 1
  BY <1>1
<1>3. PICK u : u = List!InsertAt(c, p, d)
  OBVIOUS
<1>4. u \in Seq(S) /\ Len(u) = Len(c) + 1
      /\ \A k \in 1..Len(c) + 1 : u[k] = IF k < p THEN c[k] ELSE IF k = p THEN d ELSE c[k - 1]
  <2>1. PICK m \in 1..Len(c) + 1 : m = p
    OBVIOUS
  <2>2. /\ List!InsertAt(c, m, d) \in Seq(S)
        /\ Len(List!InsertAt(c, m, d)) = Len(c) + 1
        /\ \A k \in 1..Len(c) + 1 :
             List!InsertAt(c, m, d)[k] = IF k < m THEN c[k] ELSE IF k = m THEN d ELSE c[k - 1]
    BY InsertedItems
  <2> HIDE DEF List!InsertAt
  <2> QED BY <1>3, <2>1, <2>2
<1>5. /\ Append(c, d) \in Seq(S) /\ Len(Append(c, d)) = Len(c) + 1
      /\ \A k \in 1..Len(c) : Append(c, d)[k] = c[k]
      /\ Append(c, d)[Len(c) + 1] = d
  BY AppendProperties
<1>6. ASSUME NEW k \in 1..Len(u) PROVE u[k] = Append(c, d)[k]
  <2>1. k \in 1..Len(c) + 1 /\ (k < p => k \in 1..Len(c)) /\ (~(k < p) => k = p)
    BY <1>1, <1>2, <1>4
  <2> QED BY <1>2, <1>4, <1>5, <2>1
<1>7. u = Append(c, d)
  BY <1>4, <1>5, <1>6, SeqEqual
<1> HIDE DEF List!InsertAt
<1> QED BY <1>2, <1>3, <1>7

LEMMA TailRemoves ==
    ASSUME NEW S, NEW c \in Seq(S), c # <<>>
    PROVE  List!RemoveAt(c, 1) = Tail(c)
<1>1. Len(c) \in Nat /\ Len(c) # 0
  BY EmptySeq, LenProperties
<1>2. PICK p \in 1..Len(c) : p = 1
  BY <1>1
<1>3. PICK u : u = List!RemoveAt(c, p)
  OBVIOUS
<1>4. u \in Seq(S) /\ Len(u) = Len(c) - 1
      /\ \A k \in 1..Len(c) - 1 : u[k] = IF k < p THEN c[k] ELSE c[k + 1]
  BY <1>3, RemovedItems
<1>5. Tail(c) \in Seq(S) /\ Len(Tail(c)) = Len(c) - 1
      /\ \A k \in 1..Len(Tail(c)) : Tail(c)[k] = c[k + 1]
  BY HeadTailProperties
<1>6. ASSUME NEW k \in 1..Len(u) PROVE u[k] = Tail(c)[k]
  <2>1. k \in 1..Len(c) - 1 /\ k \in 1..Len(Tail(c)) /\ ~(k < p)
    BY <1>1, <1>2, <1>4, <1>5
  <2> QED BY <1>4, <1>5, <2>1
<1>7. u = Tail(c)
  BY <1>4, <1>5, <1>6, SeqEqual
<1> HIDE DEF List!RemoveAt
<1> QED BY <1>2, <1>3, <1>7

----------------------------------------------------------------------------
\* The chain of nodes

\* The nodes from head on are s, each once, and they are the heap.
Chained(s) ==
    /\ s \in Seq(Node)
    /\ \A j, k \in 1..Len(s) : s[j] = s[k] => j = k
    /\ head = IF Len(s) = 0 THEN NULL ELSE s[1]
    /\ \A k \in 1..Len(s) : next[s[k]] = IF k = Len(s) THEN NULL ELSE s[k + 1]
    /\ heap = {s[k] : k \in 1..Len(s)}

\* The length falls behind when a caller names an index that is not there.
Counted(s) == length <= Len(s) /\ (misused \/ length = Len(s))

\* There are as many nodes as a sequence has that has none twice.
LEMMA OnceEachFits ==
    ASSUME NEW s \in Seq(Node), \A j, k \in 1..Len(s) : s[j] = s[k] => j = k
    PROVE  /\ Len(s) \in Nat /\ DOMAIN s = 1..Len(s) /\ \A k \in 1..Len(s) : s[k] \in Node
           /\ Cardinality(Node) \in Nat /\ Len(s) <= Cardinality(Node)
<1>1. IsFiniteSet(Node)
  BY ListAssumption DEF ListAssumption
<1>2. Len(s) \in Nat /\ DOMAIN s = 1..Len(s) /\ s \in [1..Len(s) -> Node] /\ \A k \in 1..Len(s) : s[k] \in Node
  BY LenProperties, ElementOfSeq
<1>3. s \in Injection(1..Len(s), Node)
  BY <1>2 DEF Injection, IsInjective
<1>4. Cardinality(1..Len(s)) <= Cardinality(Node)
  BY <1>1, <1>3, FS_Injection
<1>5. Cardinality(1..Len(s)) = Len(s) /\ Cardinality(Node) \in Nat
  <2>1. Cardinality(1..Len(s)) = Len(s)
    <3>1. PICK m \in Nat : m = Len(s)
      BY <1>2
    <3>2. Cardinality(1..m) = IF 1 > m THEN 0 ELSE m - 1 + 1
      BY FS_Interval
    <3>3. Cardinality(1..m) = m
      BY <3>2
    <3> QED BY <3>1, <3>3
  <2>2. Cardinality(Node) \in Nat
    BY <1>1, FS_CardinalityType
  <2> QED BY <1>2, <2>1, <2>2
<1> QED BY <1>2, <1>4, <1>5

LEMMA ChainedFits ==
    ASSUME NEW s, Chained(s)
    PROVE  /\ Len(s) \in Nat /\ DOMAIN s = 1..Len(s) /\ \A k \in 1..Len(s) : s[k] \in Node
           /\ Cardinality(Node) \in Nat /\ Len(s) <= Cardinality(Node)
BY OnceEachFits DEF Chained

\* Walk goes along s, and then stays at NULL.
LEMMA WalkAlong ==
    ASSUME TypeOK, NEW s, Chained(s)
    PROVE  \A k \in 0..Cardinality(Node) : Walk(k) = IF k < Len(s) THEN s[k + 1] ELSE NULL
<1> DEFINE N == Cardinality(Node)
           S == Node \cup {NULL}
           follow(x) == IF x = NULL THEN NULL ELSE next[x]
           go == [x \in S |-> follow(x)]
           Def(step) == step = [j \in 0..N |-> IF j = 0 THEN head ELSE follow(step[j - 1])]
<1>1. N \in Nat /\ Len(s) \in Nat /\ \A k \in 1..Len(s) : s[k] \in Node
  BY ChainedFits
<1>2. head \in S /\ (\A x \in S : follow(x) \in S) /\ go \in [S -> S]
  BY DEF TypeOK
<1>3. PICK f : Iteration(f, S, head, go, N)
  <2> HIDE DEF go, N, S
  <2> QED BY <1>1, <1>2, Iterates
<1>4. Def(f)
  <2> HIDE DEF follow, S
  <2>1. f \in [0..N -> S] /\ f[0] = head /\ \A j \in 1..N : f[j] = go[f[j - 1]]
    BY <1>3 DEF Iteration
  <2>2. ASSUME NEW j \in 0..N PROVE f[j] = IF j = 0 THEN head ELSE follow(f[j - 1])
    <3>1. CASE j = 0
      BY <2>1, <3>1
    <3>2. CASE j # 0
      <4>1. j \in 1..N /\ j - 1 \in 0..N
        BY <1>1, <3>2
      <4>2. f[j - 1] \in S
        BY <2>1, <4>1
      <4> QED BY <2>1, <3>2, <4>1, <4>2
    <3> QED BY <3>1, <3>2
  <2> HIDE DEF go
  <2> QED BY <2>1, <2>2
<1> DEFINE at == CHOOSE step : Def(step)
<1>5. Def(at)
  <2> HIDE DEF Def
  <2> QED BY <1>4
<1>6. ASSUME NEW k \in 0..N PROVE Walk(k) = at[k]
  BY DEF Walk
<1>7. at[0] = head /\ \A j \in 1..N : at[j] = follow(at[j - 1])
  <2> HIDE DEF at, follow
  <2>1. \A j \in 0..N : at[j] = IF j = 0 THEN head ELSE follow(at[j - 1])
    BY <1>5
  <2> QED BY <1>1, <2>1
<1> HIDE DEF at, Def
<1> DEFINE T == {k \in 0..N : at[k] = IF k < Len(s) THEN s[k + 1] ELSE NULL}
<1>8. 0 \in T
  BY <1>1, <1>7 DEF Chained
<1>9. ASSUME NEW k \in 0..N - 1, k \in T PROVE k + 1 \in T
  <2>1. k + 1 \in 1..N /\ (k + 1) - 1 = k /\ k + 1 \in 0..N
    BY <1>1
  <2>2. at[k + 1] = follow(at[k])
    BY <1>7, <2>1
  <2>3. CASE k < Len(s)
    <3>1. k + 1 \in 1..Len(s) /\ at[k] = s[k + 1] /\ s[k + 1] # NULL
      BY <1>1, <1>9, <2>3, ListAssumption DEF ListAssumption
    <3>2. at[k + 1] = next[s[k + 1]]
      BY <2>2, <3>1
    <3>3. next[s[k + 1]] = IF k + 1 = Len(s) THEN NULL ELSE s[(k + 1) + 1]
      BY <3>1 DEF Chained
    <3> QED BY <1>1, <2>1, <2>3, <3>2, <3>3
  <2>4. CASE ~(k < Len(s))
    <3>1. at[k] = NULL /\ ~(k + 1 < Len(s))
      BY <1>1, <1>9, <2>4
    <3> QED BY <2>1, <2>2, <3>1
  <2> QED BY <2>3, <2>4
<1>10. 0..N \subseteq T
  <2> HIDE DEF T
  <2> QED BY <1>1, <1>8, <1>9, Induction
<1> QED BY <1>6, <1>10

\* What the properties say of the chain, said of s.
ChainOf(s) ==
    /\ Size = Len(s)
    /\ Chain \in Seq(Data \cup {NULL}) /\ Len(Chain) = Len(s)
    /\ \A k \in 1..Len(s) : Chain[k] = data[s[k]]
    /\ heap = {Walk(k) : k \in 0..Size - 1}

ChainLaw == \A s : TypeOK /\ Chained(s) => ChainOf(s)

LEMMA ChainIs == ChainLaw
<1> SUFFICES ASSUME NEW s, TypeOK, Chained(s) PROVE ChainOf(s)
  BY DEF ChainLaw
<1> DEFINE N == Cardinality(Node)
           L == Len(s)
<1>1. N \in Nat /\ L \in Nat /\ L <= N /\ \A k \in 1..L : s[k] \in Node /\ s[k] # NULL
  BY ChainedFits, ListAssumption DEF ListAssumption
<1>2. \A k \in 0..N : Walk(k) = IF k < L THEN s[k + 1] ELSE NULL
  BY WalkAlong
<1> HIDE DEF N, L
<1>3. {k \in 0..N : Walk(k) # NULL} = 0..L - 1
  <2>1. \A k \in 0..L - 1 : k \in 0..N /\ k < L /\ k + 1 \in 1..L
    BY <1>1
  <2>2. \A k \in 0..N : k < L => k \in 0..L - 1
    BY <1>1
  <2> QED BY <1>1, <1>2, <2>1, <2>2
<1>4. Cardinality(0..L - 1) = L
  <2>1. Cardinality(0..L - 1) = IF 0 > L - 1 THEN 0 ELSE (L - 1) - 0 + 1
    BY <1>1, FS_Interval
  <2> QED BY <1>1, <2>1
<1>5. Size = L
  BY <1>3, <1>4 DEF Size, N
<1>6. ASSUME NEW k \in 1..L PROVE k - 1 \in 0..L - 1 /\ Walk(k - 1) = s[k]
  <2>1. k - 1 \in 0..N /\ k - 1 < L /\ (k - 1) + 1 = k
    BY <1>1
  <2> QED BY <1>1, <1>2, <2>1
<1>7. Chain \in [1..L -> Data \cup {NULL}] /\ \A k \in 1..L : Chain[k] = data[s[k]]
  <2>1. \A k \in 1..L : data[s[k]] \in Data \cup {NULL}
    BY <1>1 DEF TypeOK
  <2> QED BY <1>5, <1>6, <2>1 DEF Chain
<1>8. Chain \in Seq(Data \cup {NULL}) /\ Len(Chain) = L
  BY <1>1, <1>7, FunctionIsSeq
<1>9. heap = {Walk(k) : k \in 0..Size - 1}
  <2>1. \A k \in 0..L - 1 : k + 1 \in 1..L /\ (k + 1) - 1 = k
    BY <1>1
  <2>2. heap = {s[k] : k \in 1..L}
    BY DEF Chained, L
  <2>3. {s[k] : k \in 1..L} \subseteq {Walk(k) : k \in 0..L - 1}
    BY <1>6
  <2>4. \A k \in 0..L - 1 : Walk(k) = s[k + 1]
    BY <1>6, <2>1
  <2> QED BY <1>5, <2>1, <2>2, <2>3, <2>4
<1> QED BY <1>5, <1>7, <1>8, <1>9 DEF L, ChainOf

\* iterate_ll: the node of an index the list has.
LEMMA IterateIs ==
    ASSUME TypeOK, NEW s, Chained(s), length <= Len(s), NEW index \in Int
    PROVE  Iterate(index) = IF index \in 0..length - 1 THEN s[index + 1] ELSE NULL
<1>1. Len(s) \in Nat /\ Cardinality(Node) \in Nat /\ Len(s) <= Cardinality(Node) /\ length \in Int
  BY ChainedFits, ListAssumption DEF TypeOK, ListAssumption
<1>2. CASE index \in 0..length - 1
  <2>1. index \in 0..Cardinality(Node) /\ index < Len(s) /\ ~(index < 0 \/ index >= length)
    BY <1>1, <1>2
  <2>2. Walk(index) = s[index + 1]
    BY <2>1, WalkAlong
  <2> QED BY <1>2, <2>1, <2>2 DEF Iterate
<1>3. CASE index \notin 0..length - 1
  <2>1. index < 0 \/ index >= length
    BY <1>1, <1>3
  <2> QED BY <1>3, <2>1 DEF Iterate
<1> QED BY <1>2, <1>3

\* A node that is put in at place p.
LEMMA LinkChains ==
    ASSUME TypeOK, NEW s, Chained(s), NEW p \in 1..Len(s) + 1, NEW n \in Node \ heap,
           heap' = heap \cup {n},
           p = 1 => head' = n /\ next' = [next EXCEPT ![n] = head],
           p # 1 => /\ next' = [next EXCEPT ![n] = next[s[p - 1]], ![s[p - 1]] = n]
                    /\ head' = head,
           NEW t, t = List!InsertAt(s, p, n)
    PROVE  Chained(t)' /\ Len(t) = Len(s) + 1
<1> DEFINE L == Len(s)
<1>1. L \in Nat /\ p \in Nat /\ \A k \in 1..L : s[k] \in Node /\ s[k] \in heap /\ s[k] # n
  BY ChainedFits DEF Chained
<1>2. /\ t \in Seq(Node) /\ Len(t) = L + 1
      /\ \A k \in 1..L + 1 : t[k] = IF k < p THEN s[k] ELSE IF k = p THEN n ELSE s[k - 1]
  BY InsertedItems, SMTT(30) DEF Chained
<1>3. /\ \A j, k \in 1..L : s[j] = s[k] => j = k
      /\ head = IF L = 0 THEN NULL ELSE s[1]
      /\ \A k \in 1..L : next[s[k]] = IF k = L THEN NULL ELSE s[k + 1]
      /\ heap = {s[k] : k \in 1..L}
      /\ next \in [Node -> Node \cup {NULL}]
  BY DEF Chained, TypeOK
<1> HIDE DEF L
<1>4. ASSUME NEW j \in 1..L + 1, NEW k \in 1..L + 1, t[j] = t[k] PROVE j = k
  <2> DEFINE old(x) == IF x < p THEN x ELSE x - 1
  <2>1. ASSUME NEW x \in 1..L + 1, x # p
        PROVE  old(x) \in 1..L /\ t[x] = s[old(x)] /\ t[x] # n
    <3>0. p \in 1..L + 1
      BY DEF L
    <3>1. CASE x < p
      <4>1. x \in 1..L /\ old(x) = x
        BY <1>1, <3>0, <3>1
      <4>2. t[x] = s[x] /\ s[x] # n
        BY <1>1, <1>2, <3>1, <4>1
      <4> QED BY <4>1, <4>2
    <3>2. CASE ~(x < p)
      <4>1. x - 1 \in 1..L /\ old(x) = x - 1
        BY <1>1, <2>1, <3>0, <3>2
      <4>2. t[x] = s[x - 1] /\ s[x - 1] # n
        BY <1>1, <1>2, <2>1, <3>2, <4>1
      <4> QED BY <4>1, <4>2
    <3> QED BY <3>1, <3>2
  <2>2. CASE j = p \/ k = p
    BY <1>2, <1>4, <2>1, <2>2
  <2>3. CASE j # p /\ k # p
    <3>1. old(j) = old(k)
      <4> HIDE DEF old
      <4> QED BY <1>3, <1>4, <2>1, <2>3
    <3> QED BY <1>1, <2>3, <3>1
  <2> QED BY <2>2, <2>3
<1>5. head' = t[1]
  <2>1. CASE p = 1
    <3>1. 1 \in 1..L + 1 /\ ~(1 < p)
      BY <1>1, <2>1
    <3>2. t[1] = n
      BY <1>2, <2>1, <3>1
    <3> QED BY <2>1, <3>2
  <2>2. CASE p # 1
    <3>1. L # 0 /\ 1 < p /\ 1 \in 1..L + 1
      BY <1>1, <2>2 DEF L
    <3> QED BY <1>2, <1>3, <2>2, <3>1
  <2> QED BY <2>1, <2>2
<1>6. ASSUME NEW k \in 1..L + 1
      PROVE  next'[t[k]] = IF k = L + 1 THEN NULL ELSE t[k + 1]
  <2>0. p \in 1..L + 1
    BY DEF L
  <2>1. CASE p = 1 /\ k = p
    <3>1. t[k] = n /\ next'[n] = head
      BY <1>2, <1>3, <2>0, <2>1
    <3>2. k # L + 1 => L # 0 /\ t[k + 1] = s[1]
      <4> SUFFICES ASSUME k # L + 1 PROVE L # 0 /\ t[k + 1] = s[1]
        OBVIOUS
      <4>1. k = 1 /\ L # 0 /\ 2 \in 1..L + 1 /\ ~(2 < p) /\ 2 # p /\ k + 1 = 2 /\ 2 - 1 = 1
        BY <1>1, <2>1
      <4>2. t[2] = s[2 - 1]
        BY <1>2, <4>1
      <4> QED BY <4>1, <4>2
    <3>3. k = L + 1 => L = 0
      BY <1>1, <2>1
    <3> QED BY <1>3, <3>1, <3>2, <3>3
  <2>2. CASE p # 1 /\ k = p
    <3>1. p - 1 \in 1..L /\ (p - 1) + 1 = p /\ (p - 1 = L <=> k = L + 1)
      BY <1>1, <2>0, <2>2
    <3>2. t[k] = n /\ next'[n] = next[s[p - 1]]
      BY <1>1, <1>2, <1>3, <2>2, <3>1
    <3>3. next[s[p - 1]] = IF k = L + 1 THEN NULL ELSE s[p]
      BY <1>3, <3>1
    <3>4. k # L + 1 => t[k + 1] = s[p]
      BY <1>1, <1>2, <2>0, <2>2
    <3> QED BY <3>2, <3>3, <3>4
  <2>3. CASE p # 1 /\ k = p - 1
    <3>1. k \in 1..L /\ k < p /\ k + 1 = p /\ k # L + 1
      BY <1>1, <2>0, <2>3
    <3>2. t[k] = s[p - 1] /\ t[k + 1] = n /\ s[p - 1] \in Node
      BY <1>1, <1>2, <2>0, <2>3, <3>1
    <3>3. next'[s[p - 1]] = n
      BY <1>3, <2>3, <3>2
    <3> QED BY <3>1, <3>2, <3>3
  <2>4. CASE k # p /\ (p = 1 \/ k # p - 1)
    <3> DEFINE o == IF k < p THEN k ELSE k - 1
    <3>1. o \in 1..L /\ t[k] = s[o] /\ (k < p => k + 1 < p) /\ (~(k < p) => o + 1 = k)
      BY <1>1, <1>2, <2>0, <2>4
    <3>2. next'[s[o]] = next[s[o]]
      <4>1. CASE p = 1
        BY <1>1, <1>3, <3>1, <4>1
      <4>2. CASE p # 1
        <5>1. p - 1 \in 1..L /\ o # p - 1
          BY <1>1, <2>0, <2>4, <4>2
        <5>2. s[o] # s[p - 1]
          BY <1>3, <3>1, <5>1
        <5> QED BY <1>1, <1>3, <3>1, <4>2, <5>1, <5>2
      <4> QED BY <4>1, <4>2
    <3>3. next[s[o]] = IF o = L THEN NULL ELSE s[o + 1]
      BY <1>3, <3>1
    <3>4. CASE k < p
      <4>1. o = k /\ k # L /\ k # L + 1 /\ k + 1 \in 1..L + 1 /\ t[k + 1] = s[k + 1]
        BY <1>1, <1>2, <2>0, <3>1, <3>4
      <4> QED BY <3>1, <3>2, <3>3, <4>1
    <3>5. CASE ~(k < p)
      <4>1. (o = L <=> k = L + 1) /\ (k # L + 1 => k + 1 \in 1..L + 1 /\ t[k + 1] = s[k])
        BY <1>1, <1>2, <2>0, <2>4, <3>5
      <4> QED BY <3>1, <3>2, <3>3, <3>5, <4>1
    <3> QED BY <3>4, <3>5
  <2> QED BY <2>1, <2>2, <2>3, <2>4
<1>7. heap' = {t[k] : k \in 1..L + 1}
  <2>1. ASSUME NEW k \in 1..L + 1 PROVE t[k] \in heap'
    <3>0. p \in 1..L + 1
      BY DEF L
    <3>1. CASE k < p
      <4>1. k \in 1..L /\ t[k] = s[k]
        BY <1>1, <1>2, <3>0, <3>1
      <4> QED BY <1>1, <4>1
    <3>2. CASE k = p
      BY <1>1, <1>2, <3>2
    <3>3. CASE ~(k < p) /\ k # p
      <4>1. k - 1 \in 1..L /\ t[k] = s[k - 1]
        BY <1>1, <1>2, <3>0, <3>3
      <4> QED BY <1>1, <4>1
    <3> QED BY <3>1, <3>2, <3>3
  <2>2. n \in {t[k] : k \in 1..L + 1}
    BY <1>2 DEF L
  <2>3. ASSUME NEW j \in 1..L PROVE s[j] \in {t[k] : k \in 1..L + 1}
    <3>1. CASE j < p
      BY <1>1, <1>2, <3>1
    <3>2. CASE ~(j < p)
      <4>1. j + 1 \in 1..L + 1 /\ t[j + 1] = s[j]
        BY <1>1, <1>2, <3>2
      <4> QED BY <4>1
    <3> QED BY <3>1, <3>2
  <2> QED BY <1>3, <2>1, <2>2, <2>3
<1>8. L + 1 # 0
  BY <1>1
<1> QED BY <1>2, <1>4, <1>5, <1>6, <1>7, <1>8 DEF Chained, L

\* A node that is taken out at place p.
LEMMA UnlinkChains ==
    ASSUME TypeOK, NEW s, Chained(s), NEW p \in 1..Len(s),
           p = 1 => head' = next[head] /\ heap' = heap \ {head} /\ next' = next,
           p # 1 => /\ next' = [next EXCEPT ![s[p - 1]] = next[next[s[p - 1]]]]
                    /\ heap' = heap \ {next[s[p - 1]]}
                    /\ head' = head,
           NEW t, t = List!RemoveAt(s, p)
    PROVE  Chained(t)' /\ Len(t) = Len(s) - 1
<1> DEFINE L == Len(s)
<1>1. L \in Nat /\ p \in Nat /\ \A k \in 1..L : s[k] \in Node /\ s[k] \in heap
  BY ChainedFits DEF Chained
<1>2. /\ t \in Seq(Node) /\ Len(t) = L - 1
      /\ \A k \in 1..L - 1 : t[k] = IF k < p THEN s[k] ELSE s[k + 1]
  BY RemovedItems DEF Chained
<1>3. /\ \A j, k \in 1..L : s[j] = s[k] => j = k
      /\ head = IF L = 0 THEN NULL ELSE s[1]
      /\ \A k \in 1..L : next[s[k]] = IF k = L THEN NULL ELSE s[k + 1]
      /\ heap = {s[k] : k \in 1..L}
      /\ next \in [Node -> Node \cup {NULL}]
  BY DEF Chained, TypeOK
<1>0. p \in 1..L
  BY DEF L
<1> HIDE DEF L
<1> DEFINE old(x) == IF x < p THEN x ELSE x + 1
<1>4. \A x \in 1..L - 1 : old(x) \in 1..L /\ old(x) # p /\ t[x] = s[old(x)]
  BY <1>0, <1>1, <1>2
<1>5. ASSUME NEW j \in 1..L - 1, NEW k \in 1..L - 1, t[j] = t[k] PROVE j = k
  <2>1. old(j) = old(k)
    <3> HIDE DEF old
    <3> QED BY <1>3, <1>4, <1>5
  <2> QED BY <1>1, <2>1
<1>6. head' = IF L - 1 = 0 THEN NULL ELSE t[1]
  <2>1. CASE p = 1
    <3>1. head = s[1] /\ 1 \in 1..L /\ next[s[1]] = IF 1 = L THEN NULL ELSE s[1 + 1]
      BY <1>0, <1>1, <1>3, <2>1
    <3>2. L - 1 # 0 => t[1] = s[1 + 1]
      <4> SUFFICES ASSUME L - 1 # 0 PROVE t[1] = s[1 + 1]
        OBVIOUS
      <4>1. 1 \in 1..L - 1 /\ ~(1 < p)
        BY <1>0, <1>1, <2>1
      <4> QED BY <1>2, <4>1
    <3>3. L - 1 = 0 <=> 1 = L
      BY <1>1
    <3> QED BY <2>1, <3>1, <3>2, <3>3
  <2>2. CASE p # 1
    <3>1. L - 1 # 0 /\ L # 0 /\ 1 < p /\ 1 \in 1..L - 1
      BY <1>0, <1>1, <2>2
    <3> QED BY <1>2, <1>3, <2>2, <3>1
  <2> QED BY <2>1, <2>2
<1>7. ASSUME p # 1
      PROVE  /\ p - 1 \in 1..L /\ next[s[p - 1]] = s[p]
             /\ next[next[s[p - 1]]] = IF p = L THEN NULL ELSE s[p + 1]
  <2>1. p - 1 \in 1..L /\ p - 1 # L /\ (p - 1) + 1 = p
    BY <1>0, <1>1, <1>7
  <2> QED BY <1>0, <1>3, <2>1
<1>8. ASSUME NEW k \in 1..L - 1
      PROVE  next'[t[k]] = IF k = L - 1 THEN NULL ELSE t[k + 1]
  <2>1. t[k] = s[old(k)] /\ old(k) \in 1..L /\ s[old(k)] \in Node
    <3> HIDE DEF old
    <3> QED BY <1>1, <1>4
  <2>2. next[s[old(k)]] = IF old(k) = L THEN NULL ELSE s[old(k) + 1]
    <3> HIDE DEF old
    <3> QED BY <1>3, <2>1
  <2>3. CASE p # 1 /\ k = p - 1
    <3>1. old(k) = p - 1 /\ (k = L - 1 <=> p = L) /\ k + 1 = p
      BY <1>0, <1>1, <2>3
    <3>2. next'[s[p - 1]] = next[next[s[p - 1]]]
      BY <1>3, <2>1, <2>3, <3>1
    <3>3. k # L - 1 => t[k + 1] = s[p + 1]
      BY <1>0, <1>1, <1>2, <2>3
    <3> QED BY <1>7, <2>1, <2>3, <3>1, <3>2, <3>3
  <2>4. CASE p = 1 \/ k # p - 1
    <3>1. next'[s[old(k)]] = next[s[old(k)]]
      <4>1. CASE p = 1
        BY <4>1
      <4>2. CASE p # 1
        <5>1. p - 1 \in 1..L /\ old(k) # p - 1
          BY <1>0, <1>1, <2>4, <4>2
        <5>2. s[old(k)] # s[p - 1]
          <6> HIDE DEF old
          <6> QED BY <1>3, <2>1, <5>1
        <5> HIDE DEF old
        <5> QED BY <1>3, <2>1, <4>2, <5>1, <5>2
      <4> QED BY <4>1, <4>2
    <3>2. CASE k < p
      <4>1. old(k) = k /\ k # L /\ (k # L - 1 => t[k + 1] = s[k + 1])
        BY <1>0, <1>1, <1>2, <2>4, <3>2
      <4>2. k # L - 1
        BY <1>0, <1>1, <2>4, <3>2
      <4> QED BY <2>1, <2>2, <3>1, <4>1, <4>2
    <3>3. CASE ~(k < p)
      <4>1. (old(k) = L <=> k = L - 1) /\ (k # L - 1 => t[k + 1] = s[old(k) + 1])
        BY <1>0, <1>1, <1>2, <3>3
      <4> HIDE DEF old
      <4> QED BY <2>1, <2>2, <3>1, <4>1
    <3> QED BY <3>2, <3>3
  <2> QED BY <2>3, <2>4
<1>9. heap' = {t[k] : k \in 1..L - 1}
  <2>1. heap' = heap \ {s[p]}
    <3>1. CASE p = 1
      BY <1>0, <1>1, <1>3, <3>1
    <3>2. CASE p # 1
      BY <1>7, <3>2
    <3> QED BY <3>1, <3>2
  <2>2. ASSUME NEW k \in 1..L - 1 PROVE t[k] \in heap /\ t[k] # s[p]
    <3> HIDE DEF old
    <3>1. old(k) \in 1..L /\ old(k) # p /\ t[k] = s[old(k)]
      BY <1>4
    <3>2. s[old(k)] \in heap /\ s[old(k)] # s[p]
      BY <1>0, <1>1, <1>3, <3>1
    <3> QED BY <3>1, <3>2
  <2>3. ASSUME NEW j \in 1..L, j # p PROVE s[j] \in {t[k] : k \in 1..L - 1}
    <3>1. CASE j < p
      <4>1. j \in 1..L - 1 /\ t[j] = s[j]
        BY <1>0, <1>1, <1>2, <3>1
      <4> QED BY <4>1
    <3>2. CASE ~(j < p)
      <4>1. j - 1 \in 1..L - 1 /\ t[j - 1] = s[j]
        BY <1>0, <1>1, <1>2, <2>3, <3>2
      <4> QED BY <4>1
    <3> QED BY <3>1, <3>2
  <2> QED BY <1>3, <2>1, <2>2, <2>3
<1> QED BY <1>2, <1>5, <1>6, <1>8, <1>9 DEF Chained, L

----------------------------------------------------------------------------
\* What the operations do to the chain

Good(s) == TypeOK /\ Chained(s) /\ Counted(s)

LEMMA GoodFits ==
    ASSUME NEW s, Good(s)
    PROVE  /\ Len(s) \in Nat /\ length \in Int /\ length <= Len(s) /\ misused \in BOOLEAN
           /\ Cardinality(Node) \in Nat /\ Len(s) <= Cardinality(Node)
           /\ \A k \in 1..Len(s) : s[k] \in Node /\ s[k] # NULL
BY ChainedFits, ListAssumption DEF Good, Counted, TypeOK, ListAssumption

LEMMA Inserts ==
    ASSUME NEW s, Good(s), NEW index \in Int, NEW d \in Data, Inserting(index, d)
    PROVE  \/ /\ misused' /\ pc' = "crashed"
              /\ UNCHANGED <<head, length, next, data, heap, i, result>>
           \/ /\ index \in 0..Len(s) /\ length' = length + 1 /\ UNCHANGED <<pc, i, result>>
              /\ head' \in Node /\ next' \in [Node -> Node \cup {NULL}]
              /\ data' \in [Node -> Data \cup {NULL}] /\ heap' \subseteq Node
              /\ \E t : /\ Chained(t)' /\ Counted(t)' /\ Len(t) = Len(s) + 1
                        /\ \A k \in 1..Len(s) + 1 :
                             data'[t[k]] = IF k < index + 1 THEN data[s[k]]
                                           ELSE IF k = index + 1 THEN d ELSE data[s[k - 1]]
<1>1. /\ Len(s) \in Nat /\ length \in Int /\ length <= Len(s) /\ misused \in BOOLEAN
      /\ \A k \in 1..Len(s) : s[k] \in Node /\ s[k] # NULL
  BY GoodFits
<1>2. TypeOK /\ Chained(s) /\ length <= Len(s) /\ (misused \/ length = Len(s))
  BY DEF Good, Counted
<1>3. misused' = (misused \/ index \notin 0..length)
  BY DEF Inserting
<1>4. PICK cursor : cursor = Iterate(index - 1)
  OBVIOUS
<1>5. cursor = IF index - 1 \in 0..length - 1 THEN s[(index - 1) + 1] ELSE NULL
  BY <1>1, <1>2, <1>4, IterateIs
<1>6. CASE index # 0 /\ cursor = NULL
  <2>1. Crash
    BY <1>4, <1>6 DEF Inserting
  <2>2. index - 1 \notin 0..length - 1
    <3>1. index - 1 \in 0..length - 1 => (index - 1) + 1 \in 1..Len(s)
      BY <1>1
    <3> QED BY <1>1, <1>5, <1>6, <3>1
  <2>3. index \notin 0..length
    BY <1>1, <1>6, <2>2
  <2> QED BY <1>3, <2>1, <2>3 DEF Crash
<1>7. CASE ~(index # 0 /\ cursor = NULL)
  <2>1. PICK n \in Node \ heap : Link(n, index, d)
    BY <1>4, <1>7 DEF Inserting
  <2>2. length' = length + 1 /\ UNCHANGED <<pc, i, result>>
    BY <1>4, <1>7 DEF Inserting
  <2>3. index \in 0..Len(s) /\ (index # 0 => index \in 1..length /\ cursor = s[index])
    BY <1>1, <1>5, <1>7
  <2>4. /\ data' = [data EXCEPT ![n] = d]
        /\ heap' = heap \cup {n}
        /\ index = 0 => head' = n /\ next' = [next EXCEPT ![n] = head]
        /\ index # 0 => next' = [next EXCEPT ![n] = next[cursor], ![cursor] = n] /\ head' = head
    BY <1>4, <2>1 DEF Link
  <2>5. PICK p \in 1..Len(s) + 1 : p = index + 1
    BY <1>1, <2>3
  <2>6. (p = 1 <=> index = 0) /\ p - 1 = index
    BY <2>5
  <2>7. PICK t : t = List!InsertAt(s, p, n)
    OBVIOUS
  <2>8. Chained(t)' /\ Len(t) = Len(s) + 1
    BY <1>2, <2>3, <2>4, <2>6, <2>7, LinkChains
  <2>9. Counted(t)'
    <3>1. length' <= Len(t)
      BY <1>1, <2>2, <2>8
    <3>2. misused' \/ length' = Len(t)
      BY <1>1, <1>2, <1>3, <2>2, <2>8
    <3> QED BY <3>1, <3>2 DEF Counted
  <2>10. ASSUME NEW k \in 1..Len(s) + 1
         PROVE  data'[t[k]] = IF k < index + 1 THEN data[s[k]]
                              ELSE IF k = index + 1 THEN d ELSE data[s[k - 1]]
    <3>1. t[k] = IF k < p THEN s[k] ELSE IF k = p THEN n ELSE s[k - 1]
      BY <1>2, <2>7, InsertedItems DEF Chained
    <3>2. data \in [Node -> Data \cup {NULL}]
      BY <1>2 DEF TypeOK
    <3>3. \A j \in 1..Len(s) : s[j] # n /\ s[j] \in Node
      BY <1>1, <1>2 DEF Chained
    <3>4. CASE k < p
      <4>1. k \in 1..Len(s)
        BY <1>1, <3>4
      <4> QED BY <2>4, <2>5, <3>1, <3>2, <3>3, <3>4, <4>1
    <3>5. CASE k = p
      <4>1. t[k] = n /\ ~(k < p)
        BY <3>1, <3>5
      <4> QED BY <2>4, <2>5, <3>2, <3>5, <4>1
    <3>6. CASE ~(k < p) /\ k # p
      <4>1. k - 1 \in 1..Len(s)
        BY <1>1, <3>6
      <4> QED BY <2>4, <2>5, <3>1, <3>2, <3>3, <3>6, <4>1
    <3> QED BY <3>4, <3>5, <3>6
  <2>11. /\ head' \in Node /\ next' \in [Node -> Node \cup {NULL}]
         /\ data' \in [Node -> Data \cup {NULL}] /\ heap' \subseteq Node
    <3>1. /\ head \in Node \cup {NULL} /\ next \in [Node -> Node \cup {NULL}]
          /\ data \in [Node -> Data \cup {NULL}] /\ heap \subseteq Node
      BY <1>2 DEF TypeOK
    <3>2. data' \in [Node -> Data \cup {NULL}] /\ heap' \subseteq Node
      BY <2>4, <3>1
    <3>3. CASE index = 0
      BY <2>4, <3>1, <3>2, <3>3
    <3>4. CASE index # 0
      <4>1. cursor \in Node /\ head = s[1] /\ s[1] \in Node
        <5>1. index \in 1..Len(s) /\ 1 \in 1..Len(s) /\ Len(s) # 0
          BY <1>1, <2>3, <3>4
        <5> QED BY <1>1, <1>2, <2>3, <3>4, <5>1 DEF Chained
      <4>2. next[cursor] \in Node \cup {NULL}
        BY <3>1, <4>1
      <4> QED BY <2>4, <3>1, <3>2, <3>4, <4>1, <4>2
    <3> QED BY <3>3, <3>4
  <2> QED BY <2>2, <2>3, <2>8, <2>9, <2>10, <2>11
<1> QED BY <1>6, <1>7

LEMMA Removes ==
    ASSUME NEW s, Good(s), NEW index \in Int, Removing(index)
    PROVE  \/ /\ misused' /\ pc' = "crashed"
              /\ UNCHANGED <<head, length, next, data, heap, i, result>>
           \/ /\ Len(s) = 0 /\ misused' /\ length' = length - 1
              /\ UNCHANGED <<head, next, data, heap, pc, i, result>>
           \/ /\ index \in 0..Len(s) - 1 /\ length' = length - 1 /\ UNCHANGED <<data, pc, i, result>>
              /\ head' \in Node \cup {NULL} /\ next' \in [Node -> Node \cup {NULL}] /\ heap' \subseteq Node
              /\ Chained(List!RemoveAt(s, index + 1))'
              /\ Counted(List!RemoveAt(s, index + 1))'
<1>1. /\ Len(s) \in Nat /\ length \in Int /\ length <= Len(s) /\ misused \in BOOLEAN
      /\ \A k \in 1..Len(s) : s[k] \in Node /\ s[k] # NULL
  BY GoodFits
<1>2. TypeOK /\ Chained(s) /\ length <= Len(s) /\ (misused \/ length = Len(s))
  BY DEF Good, Counted
<1>3. misused' = (misused \/ index \notin 0..length - 1)
  BY DEF Removing
<1>4. PICK cursor : cursor = Iterate(index - 1)
  OBVIOUS
<1>5. cursor = IF index - 1 \in 0..length - 1 THEN s[(index - 1) + 1] ELSE NULL
  BY <1>1, <1>2, <1>4, IterateIs
<1>6. /\ head = IF Len(s) = 0 THEN NULL ELSE s[1]
      /\ \A k \in 1..Len(s) : next[s[k]] = IF k = Len(s) THEN NULL ELSE s[k + 1]
  BY <1>2 DEF Chained
<1>7. /\ head \in Node \cup {NULL} /\ next \in [Node -> Node \cup {NULL}] /\ heap \subseteq Node
  BY <1>2 DEF TypeOK
<1>8. CASE index # 0 /\ (cursor = NULL \/ next[cursor] = NULL)
  <2>1. Crash
    BY <1>4, <1>8 DEF Removing
  <2>2. index \notin 0..length - 1
    <3> SUFFICES ASSUME index \in 0..length - 1 PROVE FALSE
      OBVIOUS
    <3>1. index - 1 \in 0..length - 1 /\ (index - 1) + 1 = index /\ index \in 1..Len(s) /\ index # Len(s)
          /\ index + 1 \in 1..Len(s)
      BY <1>1, <1>8
    <3>2. cursor = s[index] /\ next[s[index]] = s[index + 1]
      BY <1>5, <1>6, <3>1
    <3> QED BY <1>1, <1>8, <3>1, <3>2
  <2> QED BY <1>3, <2>1, <2>2 DEF Crash
<1>9. CASE ~(index # 0 /\ (cursor = NULL \/ next[cursor] = NULL))
  <2>1. Unlink(index) /\ length' = length - 1 /\ UNCHANGED <<data, pc, i, result>>
    BY <1>4, <1>9 DEF Removing
  <2>2. /\ index = 0 => /\ head' = IF head = NULL THEN NULL ELSE next[head]
                        /\ heap' = heap \ {head}
                        /\ next' = next
        /\ index # 0 => /\ next' = [next EXCEPT ![cursor] = next[next[cursor]]]
                        /\ heap' = heap \ {next[cursor]}
                        /\ head' = head
    BY <1>4, <2>1 DEF Unlink
  <2>3. CASE index = 0 /\ Len(s) = 0
    <3>1. head = NULL /\ NULL \notin heap
      BY <1>6, <1>7, <2>3, ListAssumption DEF ListAssumption
    <3>2. index \notin 0..length - 1
      BY <1>1, <2>3
    <3> QED BY <1>3, <2>1, <2>2, <2>3, <3>1, <3>2
  <2>4. CASE ~(index = 0 /\ Len(s) = 0)
    <3>1. index # 0 => index \in 1..length /\ cursor = s[index]
      BY <1>1, <1>5, <1>9
    <3>2. index # 0 => index # Len(s)
      <4>1. index # 0 => index \in 1..Len(s)
        BY <1>1, <3>1
      <4> QED BY <1>6, <1>9, <3>1, <4>1
    <3>3. index \in 0..Len(s) - 1
      BY <1>1, <2>4, <3>1, <3>2
    <3>4. PICK p \in 1..Len(s) : p = index + 1
      BY <1>1, <3>3
    <3>5. (p = 1 <=> index = 0) /\ p - 1 = index
      BY <3>4
    <3>6. index = 0 => head # NULL
      BY <1>1, <1>6, <2>4
    <3>7. PICK t : t = List!RemoveAt(s, p)
      OBVIOUS
    <3>8. Chained(t)' /\ Len(t) = Len(s) - 1
      BY <1>2, <2>2, <3>1, <3>5, <3>6, <3>7, UnlinkChains
    <3>9. Counted(t)'
      <4>1. length' <= Len(t)
        BY <1>1, <2>1, <3>8
      <4>2. misused' \/ length' = Len(t)
        BY <1>1, <1>2, <1>3, <2>1, <3>8
      <4> QED BY <4>1, <4>2 DEF Counted
    <3>10. head' \in Node \cup {NULL} /\ next' \in [Node -> Node \cup {NULL}] /\ heap' \subseteq Node
      <4>1. CASE index = 0
        BY <1>7, <2>2, <3>6, <4>1
      <4>2. CASE index # 0
        <5>1. cursor \in Node /\ next[cursor] \in Node
          BY <1>1, <1>7, <1>9, <3>1, <4>2
        <5> QED BY <1>7, <2>2, <4>2, <5>1
      <4> QED BY <4>1, <4>2
    <3>11. t = List!RemoveAt(s, index + 1)
      BY <3>4, <3>7
    <3> HIDE DEF List!RemoveAt
    <3>12. Chained(List!RemoveAt(s, index + 1))' /\ Counted(List!RemoveAt(s, index + 1))'
      BY <3>8, <3>9, <3>11
    <3> QED BY <2>1, <3>3, <3>10, <3>12
  <2> QED BY <2>3, <2>4
<1> QED BY <1>8, <1>9

----------------------------------------------------------------------------
\* The invariant

ListInv == TypeOK /\ \E s : Chained(s) /\ Counted(s)

LEMMA InitList == Init => ListInv
<1> SUFFICES ASSUME Init PROVE ListInv
  OBVIOUS
<1>1. PICK s : s = <<>>
  OBVIOUS
<1>2. s \in Seq(Node) /\ Len(s) = 0
  BY <1>1, EmptySeq
<1>3. Chained(s) /\ Counted(s)
  BY <1>2 DEF Init, Chained, Counted
<1>4. TypeOK
  <2>1. Cardinality(Node) \in Nat
    BY ListAssumption, FS_CardinalityType DEF ListAssumption
  <2>2. 0 \in MinLength..Cardinality(Node) /\ 0 \in 0..Cardinality(Node)
    BY <2>1, ListAssumption DEF ListAssumption
  <2>3. /\ head = NULL /\ length = 0 /\ next = [n \in Node |-> NULL] /\ data = [n \in Node |-> NULL]
        /\ heap = {} /\ pc = "ready" /\ i = 0 /\ result = NULL /\ misused = FALSE
    BY DEF Init
  <2>4. next \in [Node -> Node \cup {NULL}] /\ data \in [Node -> Data \cup {NULL}]
    BY <2>3
  <2> QED BY <2>2, <2>3, <2>4 DEF TypeOK
<1> QED BY <1>3, <1>4 DEF ListInv

\* A step that leaves the nodes alone leaves the chain alone.
LEMMA SameChain ==
    ASSUME NEW s, Chained(s), UNCHANGED <<head, next, heap>>
    PROVE  Chained(s)'
BY DEF Chained

LEMMA InsertKeeps ==
    ASSUME NEW s, Good(s), NEW index \in Int, NEW d \in Data, Inserting(index, d)
    PROVE  ListInv'
<1>1. /\ Len(s) \in Nat /\ length \in Int /\ length <= Len(s) /\ misused \in BOOLEAN
      /\ Cardinality(Node) \in Nat /\ MinLength \in Int
  BY GoodFits, ListAssumption DEF ListAssumption
<1>2. misused' \in BOOLEAN /\ TypeOK /\ Chained(s) /\ length <= Len(s)
  BY <1>1 DEF Inserting, Good, Counted
<1>3. CASE /\ misused' /\ pc' = "crashed"
           /\ UNCHANGED <<head, length, next, data, heap, i, result>>
  <2>1. TypeOK'
    BY <1>2, <1>3 DEF TypeOK
  <2>2. Chained(s)' /\ Counted(s)'
    BY <1>2, <1>3, SameChain DEF Counted
  <2> QED BY <2>1, <2>2 DEF ListInv
<1>4. CASE ~(/\ misused' /\ pc' = "crashed"
             /\ UNCHANGED <<head, length, next, data, heap, i, result>>)
  <2>1. /\ length' = length + 1 /\ UNCHANGED <<pc, i, result>>
        /\ head' \in Node /\ next' \in [Node -> Node \cup {NULL}]
        /\ data' \in [Node -> Data \cup {NULL}] /\ heap' \subseteq Node
        /\ \E t : Chained(t)' /\ Counted(t)'
    BY <1>4, Inserts
  <2>2. PICK t : Chained(t)' /\ Counted(t)'
    BY <2>1
  <2>3. Len(t) \in Nat /\ Len(t) <= Cardinality(Node)
    BY <2>2, OnceEachFits DEF Chained
  <2>4. length' \in MinLength..Cardinality(Node)
    <3>1. length' <= Len(t) /\ length \in MinLength..Cardinality(Node)
      BY <1>2, <2>2 DEF Counted, TypeOK
    <3> QED BY <1>1, <2>1, <2>3, <3>1
  <2>5. TypeOK'
    BY <1>2, <2>1, <2>4 DEF TypeOK
  <2> QED BY <2>2, <2>5 DEF ListInv
<1> QED BY <1>3, <1>4

LEMMA RemoveKeeps ==
    ASSUME NEW s, Good(s), NEW index \in Int, Removing(index)
    PROVE  ListInv'
<1>1. /\ Len(s) \in Nat /\ length \in Int /\ length <= Len(s) /\ misused \in BOOLEAN
      /\ Cardinality(Node) \in Nat /\ MinLength \in Int
  BY GoodFits, ListAssumption DEF ListAssumption
<1>2. misused' \in BOOLEAN /\ TypeOK /\ Chained(s) /\ length <= Len(s) /\ length > MinLength
  BY <1>1 DEF Removing, Good, Counted
<1>3. length' = length - 1 => length' \in MinLength..Cardinality(Node)
  BY <1>1, <1>2 DEF TypeOK
<1>4. CASE /\ misused' /\ pc' = "crashed"
           /\ UNCHANGED <<head, length, next, data, heap, i, result>>
  <2>1. TypeOK'
    BY <1>2, <1>4 DEF TypeOK
  <2>2. Chained(s)' /\ Counted(s)'
    BY <1>2, <1>4, SameChain DEF Counted
  <2> QED BY <2>1, <2>2 DEF ListInv
<1>5. CASE /\ Len(s) = 0 /\ misused' /\ length' = length - 1
           /\ UNCHANGED <<head, next, data, heap, pc, i, result>>
  <2>1. TypeOK'
    BY <1>2, <1>3, <1>5 DEF TypeOK
  <2>2. Chained(s)' /\ Counted(s)'
    BY <1>1, <1>2, <1>5, SameChain DEF Counted
  <2> QED BY <2>1, <2>2 DEF ListInv
<1>6. CASE /\ length' = length - 1 /\ UNCHANGED <<data, pc, i, result>>
           /\ head' \in Node \cup {NULL} /\ next' \in [Node -> Node \cup {NULL}] /\ heap' \subseteq Node
           /\ Chained(List!RemoveAt(s, index + 1))'
           /\ Counted(List!RemoveAt(s, index + 1))'
  <2>1. TypeOK'
    BY <1>2, <1>3, <1>6 DEF TypeOK
  <2>2. PICK t : t = List!RemoveAt(s, index + 1)
    OBVIOUS
  <2>3. Chained(t)' /\ Counted(t)'
    BY <1>6, <2>2
  <2> QED BY <2>1, <2>3 DEF ListInv
<1> QED BY <1>4, <1>5, <1>6, Removes

\* A turn of the destructor takes the first node out of a chain that has one.
LEMMA DestroysFirst ==
    ASSUME NEW s, Good(s), DestroyNext, i < length
    PROVE  /\ Len(s) # 0 /\ length' = length - 1 /\ UNCHANGED <<data, pc, result, misused>> /\ i' = i + 1
           /\ head' \in Node \cup {NULL} /\ next' = next /\ heap' \subseteq Node
           /\ Chained(List!RemoveAt(s, 1))'
           /\ Counted(List!RemoveAt(s, 1))'
<1>1. /\ Len(s) \in Nat /\ length \in Int /\ length <= Len(s) /\ i \in Nat
      /\ \A k \in 1..Len(s) : s[k] \in Node /\ s[k] # NULL
  BY GoodFits DEF Good, TypeOK
<1>2. TypeOK /\ Chained(s) /\ length <= Len(s) /\ (misused \/ length = Len(s))
  BY DEF Good, Counted
<1>3. Unlink(0) /\ length' = length - 1 /\ i' = i + 1 /\ UNCHANGED <<data, pc, result, misused>>
  BY DEF DestroyNext
<1>4. 1 \in 1..Len(s) /\ Len(s) # 0 /\ head # NULL
  BY <1>1, <1>2 DEF Chained
<1>5. head' = next[head] /\ heap' = heap \ {head} /\ next' = next
  BY <1>3, <1>4 DEF Unlink
<1>6. PICK p \in 1..Len(s) : p = 1
  BY <1>4
<1>7. PICK t : t = List!RemoveAt(s, p)
  OBVIOUS
<1>8. Chained(t)' /\ Len(t) = Len(s) - 1
  BY <1>2, <1>5, <1>6, <1>7, UnlinkChains
<1>9. Counted(t)'
  <2>1. length' <= Len(t)
    BY <1>1, <1>3, <1>8
  <2>2. misused' \/ length' = Len(t)
    BY <1>1, <1>2, <1>3, <1>8
  <2> QED BY <2>1, <2>2 DEF Counted
<1>10. head' \in Node \cup {NULL} /\ heap' \subseteq Node
  <2>1. head \in Node /\ heap \subseteq Node /\ next \in [Node -> Node \cup {NULL}]
    BY <1>2, <1>4 DEF TypeOK
  <2> QED BY <1>5, <2>1
<1>11. t = List!RemoveAt(s, 1)
  BY <1>6, <1>7
<1> HIDE DEF List!RemoveAt
<1>12. Chained(List!RemoveAt(s, 1))' /\ Counted(List!RemoveAt(s, 1))'
  BY <1>8, <1>9, <1>11
<1> QED BY <1>3, <1>4, <1>5, <1>10, <1>12

LEMMA ListStep == ListInv /\ [Next]_vars => ListInv'
<1> SUFFICES ASSUME ListInv, [Next]_vars PROVE ListInv'
  OBVIOUS
<1>1. PICK s : Good(s)
  BY DEF ListInv, Good
<1>2. TypeOK /\ Chained(s) /\ Counted(s)
  BY <1>1 DEF Good
<1>3. /\ Len(s) \in Nat /\ length \in Int /\ length <= Len(s)
      /\ Cardinality(Node) \in Nat /\ Len(s) <= Cardinality(Node) /\ MinLength \in Int
      /\ \A k \in 1..Len(s) : s[k] \in Node /\ s[k] # NULL
  BY <1>1, GoodFits, ListAssumption DEF ListAssumption
<1>4. \A index \in Indexes : index \in Int
  BY <1>3 DEF Indexes
<1>5. ASSUME TypeOK', UNCHANGED <<head, length, next, heap, misused>>
      PROVE  ListInv'
  <2>1. Chained(s)' /\ Counted(s)'
    BY <1>2, <1>5, SameChain DEF Counted
  <2> QED BY <1>5, <2>1 DEF ListInv
<1>6. ASSUME NEW index \in Int, NEW d \in Data, Inserting(index, d) PROVE ListInv'
  BY <1>1, <1>6, InsertKeeps
<1>7. ASSUME NEW index \in Int, Removing(index) PROVE ListInv'
  BY <1>1, <1>7, RemoveKeeps
<1>8. ASSUME NEW index \in Int, Retrieving(index) PROVE ListInv'
  <2>1. PICK n : n = Iterate(index)
    OBVIOUS
  <2>2. n = IF index \in 0..length - 1 THEN s[index + 1] ELSE NULL
    BY <1>2, <1>3, <2>1, IterateIs
  <2>3. n \in Node \cup {NULL}
    BY <1>3, <2>2
  <2>4. result' \in Data \cup {NULL}
    BY <1>2, <1>8, <2>1, <2>3 DEF Retrieving, TypeOK
  <2>5. TypeOK' /\ UNCHANGED <<head, length, next, heap, misused>>
    BY <1>2, <1>8, <2>4 DEF Retrieving, TypeOK
  <2> QED BY <1>5, <2>5
<1>9. CASE Sort
  <2>1. CASE UNCHANGED vars \/ (Crash /\ UNCHANGED misused)
    <3>1. TypeOK' /\ UNCHANGED <<head, length, next, heap, misused>>
      BY <1>2, <2>1 DEF Crash, vars, TypeOK
    <3> QED BY <1>5, <3>1
  <2>2. ASSUME NEW n, NEW d \in Data, data' = [data EXCEPT ![n] = d], misused' = TRUE,
               UNCHANGED <<head, length, next, heap, pc, i, result>>
        PROVE  ListInv'
    <3>1. TypeOK'
      BY <1>2, <2>2 DEF TypeOK
    <3>2. Chained(s)' /\ Counted(s)'
      BY <1>2, <1>3, <2>2, SameChain DEF Counted
    <3> QED BY <3>1, <3>2 DEF ListInv
  <2>3. \/ UNCHANGED vars \/ (Crash /\ UNCHANGED misused)
        \/ \E n : \E d \in Data : /\ data' = [data EXCEPT ![n] = d] /\ misused' = TRUE
                                /\ UNCHANGED <<head, length, next, heap, pc, i, result>>
    BY <1>9 DEF Sort
  <2> QED BY <2>1, <2>2, <2>3
<1>10. CASE Destroy
  <2>1. TypeOK' /\ UNCHANGED <<head, length, next, heap, misused>>
    BY <1>2, <1>3, <1>10 DEF Destroy, TypeOK
  <2> QED BY <1>5, <2>1
<1>11. CASE DestroyNext
  <2>1. CASE i < length
    <3>1. /\ length' = length - 1 /\ UNCHANGED <<data, pc, result, misused>> /\ i' = i + 1
          /\ head' \in Node \cup {NULL} /\ next' = next /\ heap' \subseteq Node
          /\ Chained(List!RemoveAt(s, 1))'
          /\ Counted(List!RemoveAt(s, 1))'
      BY <1>1, <1>11, <2>1, DestroysFirst
    <3>2. length' \in MinLength..Cardinality(Node) /\ i' \in 0..Cardinality(Node)
      <4>1. i \in 0..Cardinality(Node) /\ MinLength <= 0
        BY <1>2, ListAssumption DEF TypeOK, ListAssumption
      <4> QED BY <1>3, <2>1, <3>1, <4>1
    <3>3. TypeOK'
      BY <1>2, <3>1, <3>2 DEF TypeOK
    <3>4. PICK t : t = List!RemoveAt(s, 1)
      OBVIOUS
    <3>5. Chained(t)' /\ Counted(t)'
      BY <3>1, <3>4
    <3> QED BY <3>3, <3>5 DEF ListInv
  <2>2. CASE ~(i < length)
    <3>1. TypeOK' /\ UNCHANGED <<head, length, next, heap, misused>>
      BY <1>2, <1>11, <2>2 DEF DestroyNext, TypeOK
    <3> QED BY <1>5, <3>1
  <2> QED BY <2>1, <2>2
<1>12. CASE UNCHANGED vars
  <2>1. TypeOK' /\ UNCHANGED <<head, length, next, heap, misused>>
    BY <1>2, <1>12 DEF vars, TypeOK
  <2> QED BY <1>5, <2>1
<1> QED BY <1>3, <1>4, <1>6, <1>7, <1>8, <1>9, <1>10, <1>11, <1>12
        DEF Next, Insert, Remove, Retrieve, Push, Peek, Pop

LEMMA AlwaysList == Spec => []ListInv
<1>1. Init => ListInv
  BY InitList
<1>2. ListInv /\ [Next]_vars => ListInv'
  BY ListStep
<1> QED BY <1>1, <1>2, PTL DEF Spec

\* Every variable has its type.
THEOREM TypeCorrect == Spec => []TypeOK
<1>1. ListInv => TypeOK
  BY DEF ListInv
<1> QED BY <1>1, AlwaysList, PTL

\* The nodes that are allocated are those of the chain: none is lost, and none
\* is used that is free.
THEOREM NothingLeaks == Spec => []NoLeakNoDangling
<1>1. ListInv => NoLeakNoDangling
  BY ChainIs DEF ChainLaw, ListInv, NoLeakNoDangling, ChainOf
<1> QED BY <1>1, AlwaysList, PTL

\* The length is the number of nodes, until a caller names an index that is
\* not there, and never more than it.
THEOREM LengthIsCount == Spec => []LengthCounts
<1>1. ListInv => LengthCounts
  BY ChainIs DEF ChainLaw, ListInv, LengthCounts, ChainOf, Counted
<1> QED BY <1>1, AlwaysList, PTL

----------------------------------------------------------------------------
\* The chain is a sequence

\* As long as every index is one the list has.
LEMMA InsertsItem ==
    ASSUME NEW s, Good(s), TypeOK', NEW index \in Int, NEW d \in Data, Inserting(index, d), ~misused'
    PROVE  /\ index \in 0..Len(Chain) /\ length = Len(Chain)
           /\ Chain' = List!InsertAt(Chain, index + 1, d)
           /\ UNCHANGED <<pc, result, misused>>
<1>1. ChainOf(s) /\ \A t : Chained(t)' => ChainOf(t)'
  <2>1. ChainLaw'
    BY ChainIs, PTL
  <2> QED BY <2>1, ChainIs DEF Good, ChainLaw
<1>2. Len(s) \in Nat /\ misused \in BOOLEAN /\ Counted(s)
  BY GoodFits DEF Good
<1>3. misused' = misused /\ pc' = pc /\ length = Len(s)
  <2>1. ~misused /\ misused' = FALSE
    BY <1>2 DEF Inserting
  <2> QED BY <1>2, <2>1, Inserts DEF Counted
<1>4. /\ index \in 0..Len(s) /\ UNCHANGED result
      /\ \E t : /\ Chained(t)' /\ Len(t) = Len(s) + 1
                /\ \A k \in 1..Len(s) + 1 :
                     data'[t[k]] = IF k < index + 1 THEN data[s[k]]
                                   ELSE IF k = index + 1 THEN d ELSE data[s[k - 1]]
  BY Inserts
<1>5. PICK t : /\ Chained(t)' /\ Len(t) = Len(s) + 1
               /\ \A k \in 1..Len(s) + 1 :
                    data'[t[k]] = IF k < index + 1 THEN data[s[k]]
                                  ELSE IF k = index + 1 THEN d ELSE data[s[k - 1]]
  BY <1>4
<1>6. ChainOf(t)'
  BY <1>1, <1>5
<1> DEFINE D == Data \cup {NULL}
<1>7. PICK c, e : c = Chain /\ e = Chain'
  OBVIOUS
<1>8. /\ c \in Seq(D) /\ Len(c) = Len(s) /\ \A k \in 1..Len(s) : c[k] = data[s[k]]
      /\ e \in Seq(D) /\ Len(e) = Len(s) + 1 /\ \A k \in 1..Len(s) + 1 : e[k] = data'[t[k]]
  BY <1>1, <1>5, <1>6, <1>7 DEF ChainOf
<1>9. PICK p \in 1..Len(c) + 1 : p = index + 1
  BY <1>2, <1>4, <1>8
<1>10. PICK u : u = List!InsertAt(c, p, d)
  OBVIOUS
<1>11. d \in D
  OBVIOUS
<1> HIDE DEF D
<1>12. /\ u \in Seq(D) /\ Len(u) = Len(c) + 1
       /\ \A k \in 1..Len(c) + 1 : u[k] = IF k < p THEN c[k] ELSE IF k = p THEN d ELSE c[k - 1]
  BY <1>8, <1>10, <1>11, InsertedItems
<1>13. ASSUME NEW k \in 1..Len(e) PROVE e[k] = u[k]
  <2>0. k \in 1..Len(s) + 1 /\ k \in 1..Len(c) + 1 /\ p \in 1..Len(s) + 1
    BY <1>8
  <2>1. CASE k < p
    <3>1. k \in 1..Len(s)
      BY <1>2, <2>0, <2>1
    <3> QED BY <1>5, <1>8, <1>9, <1>12, <2>0, <2>1, <3>1
  <2>2. CASE k = p
    <3>1. ~(k < p)
      BY <2>0, <2>2
    <3> QED BY <1>5, <1>8, <1>9, <1>12, <2>0, <2>2, <3>1
  <2>3. CASE ~(k < p) /\ k # p
    <3>1. k - 1 \in 1..Len(s)
      BY <1>2, <2>0, <2>3
    <3>2. e[k] = data'[t[k]] /\ data'[t[k]] = data[s[k - 1]]
      BY <1>5, <1>8, <1>9, <2>0, <2>3
    <3>3. u[k] = c[k - 1] /\ c[k - 1] = data[s[k - 1]]
      BY <1>8, <1>12, <2>0, <2>3, <3>1
    <3> QED BY <3>2, <3>3
  <2> QED BY <2>1, <2>2, <2>3
<1>14. e = u
  BY <1>8, <1>12, <1>13, SeqEqual
<1> HIDE DEF List!InsertAt
<1> QED BY <1>3, <1>4, <1>7, <1>8, <1>9, <1>10, <1>14

\* The data along a chain without the node at p.
LEMMA ChainWithout ==
    ASSUME NEW s, Good(s), TypeOK', NEW p \in 1..Len(s), Chained(List!RemoveAt(s, p))', data' = data
    PROVE  Chain' = List!RemoveAt(Chain, p)
<1>1. ChainOf(s) /\ \A t : Chained(t)' => ChainOf(t)'
  <2>1. ChainLaw'
    BY ChainIs, PTL
  <2> QED BY <2>1, ChainIs DEF Good, ChainLaw
<1>2. Len(s) \in Nat /\ s \in Seq(Node)
  BY GoodFits DEF Good, Chained
<1>3. PICK t : t = List!RemoveAt(s, p)
  OBVIOUS
<1>4. /\ Chained(t)' /\ Len(t) = Len(s) - 1
      /\ \A k \in 1..Len(s) - 1 : t[k] = IF k < p THEN s[k] ELSE s[k + 1]
  <2>1. Chained(t)'
    BY <1>3
  <2> QED BY <1>2, <1>3, <2>1, RemovedItems
<1>5. ChainOf(t)'
  BY <1>1, <1>4
<1> DEFINE D == Data \cup {NULL}
<1>6. PICK c, e : c = Chain /\ e = Chain'
  OBVIOUS
<1>7. /\ c \in Seq(D) /\ Len(c) = Len(s) /\ \A k \in 1..Len(s) : c[k] = data[s[k]]
      /\ e \in Seq(D) /\ Len(e) = Len(s) - 1 /\ \A k \in 1..Len(s) - 1 : e[k] = data[t[k]]
  BY <1>1, <1>4, <1>5, <1>6 DEF ChainOf
<1>8. PICK u : u = List!RemoveAt(c, p)
  OBVIOUS
<1> HIDE DEF D
<1>9. /\ u \in Seq(D) /\ Len(u) = Len(c) - 1
      /\ \A k \in 1..Len(c) - 1 : u[k] = IF k < p THEN c[k] ELSE c[k + 1]
  BY <1>7, <1>8, RemovedItems
<1>10. ASSUME NEW k \in 1..Len(e) PROVE e[k] = u[k]
  <2>0. k \in 1..Len(s) - 1 /\ k \in 1..Len(c) - 1 /\ k \in 1..Len(s) /\ k + 1 \in 1..Len(s)
    BY <1>2, <1>7
  <2>1. e[k] = data[t[k]]
    BY <1>7, <2>0
  <2>2. CASE k < p
    <3>1. t[k] = s[k] /\ u[k] = c[k] /\ c[k] = data[s[k]]
      BY <1>4, <1>7, <1>9, <2>0, <2>2
    <3> QED BY <2>1, <3>1
  <2>3. CASE ~(k < p)
    <3>1. t[k] = s[k + 1] /\ u[k] = c[k + 1] /\ c[k + 1] = data[s[k + 1]]
      BY <1>4, <1>7, <1>9, <2>0, <2>3
    <3> QED BY <2>1, <3>1
  <2> QED BY <2>2, <2>3
<1>11. e = u
  BY <1>7, <1>9, <1>10, SeqEqual
<1> HIDE DEF List!RemoveAt
<1> QED BY <1>6, <1>8, <1>11

LEMMA RemovesItem ==
    ASSUME NEW s, Good(s), TypeOK', NEW index \in Int, Removing(index), ~misused'
    PROVE  /\ index \in 0..Len(Chain) - 1
           /\ Chain' = List!RemoveAt(Chain, index + 1)
           /\ UNCHANGED <<pc, result, misused>>
<1>1. Len(s) \in Nat /\ misused \in BOOLEAN /\ Len(Chain) = Len(s)
  BY GoodFits, ChainIs DEF ChainLaw, Good, ChainOf
<1>2. misused' = misused
  BY <1>1 DEF Removing
<1>3. /\ index \in 0..Len(s) - 1 /\ UNCHANGED <<data, pc, result>>
      /\ Chained(List!RemoveAt(s, index + 1))'
  BY Removes
<1>4. PICK p \in 1..Len(s) : p = index + 1
  BY <1>1, <1>3
<1> HIDE DEF List!RemoveAt
<1>5. Chained(List!RemoveAt(s, p))'
  BY <1>3, <1>4
<1>6. Chain' = List!RemoveAt(Chain, p)
  BY <1>3, <1>5, ChainWithout
<1> QED BY <1>1, <1>2, <1>3, <1>4, <1>6

LEMMA RetrievesItem ==
    ASSUME NEW s, Good(s), NEW index \in Int, Retrieving(index)
    PROVE  /\ ~misused => result' = IF index \in 0..Len(Chain) - 1 THEN Chain[index + 1] ELSE NULL
           /\ Chain' = Chain /\ UNCHANGED <<pc, misused>>
<1>1. /\ Len(s) \in Nat /\ length \in Int /\ \A k \in 1..Len(s) : s[k] \in Node /\ s[k] # NULL
  BY GoodFits
<1>2. Len(Chain) = Len(s) /\ \A k \in 1..Len(s) : Chain[k] = data[s[k]]
  BY ChainIs DEF ChainLaw, Good, ChainOf
<1>3. TypeOK /\ Chained(s) /\ length <= Len(s) /\ (misused \/ length = Len(s))
  BY DEF Good, Counted
<1>4. PICK n : n = Iterate(index)
  OBVIOUS
<1>5. n = IF index \in 0..length - 1 THEN s[index + 1] ELSE NULL
  BY <1>3, <1>4, IterateIs
<1>6. result' = IF n = NULL THEN NULL ELSE data[n]
  BY <1>4 DEF Retrieving
<1>7. ASSUME ~misused
      PROVE  result' = IF index \in 0..Len(Chain) - 1 THEN Chain[index + 1] ELSE NULL
  <2>1. length = Len(Chain)
    BY <1>2, <1>3, <1>7
  <2>2. CASE index \in 0..length - 1
    <3>1. index + 1 \in 1..Len(s)
      BY <1>1, <1>2, <2>1, <2>2
    <3> QED BY <1>1, <1>2, <1>5, <1>6, <2>1, <2>2, <3>1
  <2>3. CASE index \notin 0..length - 1
    BY <1>5, <1>6, <2>1, <2>3
  <2> QED BY <2>2, <2>3
<1>8. Chain' = Chain /\ UNCHANGED <<pc, misused>>
  BY DEF Retrieving, Chain, Size, Walk
<1> QED BY <1>7, <1>8

\* A call at an index the list has does to the chain what it says.
THEOREM WorksAtIndex == Spec => AtIndex
<1> DEFINE Step == ~misused' =>
        \A index \in Indexes :
            /\ \A d \in Data : Inserting(index, d) => List!InsertItem(index, d)
            /\ Removing(index) => List!RemoveItem(index)
            /\ Retrieving(index) => List!RetrieveItem(index)
<1>1. ListInv /\ ListInv' => Step
  <2> SUFFICES ASSUME ListInv, ListInv', ~misused', NEW index \in Indexes
               PROVE  /\ \A d \in Data : Inserting(index, d) => List!InsertItem(index, d)
                      /\ Removing(index) => List!RemoveItem(index)
                      /\ Retrieving(index) => List!RetrieveItem(index)
    OBVIOUS
  <2>1. PICK s : Good(s)
    BY DEF ListInv, Good
  <2>2. TypeOK' /\ index \in Int
    <3>1. Cardinality(Node) \in Nat
      BY <2>1, GoodFits
    <3> QED BY <3>1 DEF ListInv, Indexes
  <2>3. ASSUME NEW d \in Data, Inserting(index, d) PROVE List!InsertItem(index, d)
    <3>1. /\ index \in 0..Len(Chain) /\ Chain' = List!InsertAt(Chain, index + 1, d)
          /\ UNCHANGED <<pc, result, misused>> /\ pc = "ready"
      BY <2>1, <2>2, <2>3, InsertsItem DEF Inserting
    <3> QED BY <3>1 DEF List!InsertItem
  <2>4. ASSUME Removing(index) PROVE List!RemoveItem(index)
    <3>1. /\ index \in 0..Len(Chain) - 1 /\ Chain' = List!RemoveAt(Chain, index + 1)
          /\ UNCHANGED <<pc, result, misused>> /\ pc = "ready"
      BY <2>1, <2>2, <2>4, RemovesItem DEF Removing
    <3> QED BY <3>1 DEF List!RemoveItem
  <2>5. ASSUME Retrieving(index) PROVE List!RetrieveItem(index)
    <3>1. /\ ~misused => result' = IF index \in 0..Len(Chain) - 1 THEN Chain[index + 1] ELSE NULL
          /\ Chain' = Chain /\ UNCHANGED <<pc, misused>> /\ pc = "ready"
      BY <2>1, <2>2, <2>5, RetrievesItem DEF Retrieving
    <3> QED BY <3>1 DEF List!RetrieveItem
  <2> QED BY <2>3, <2>4, <2>5
<1> QED BY <1>1, AlwaysList, PTL DEF AtIndex

\* The queue gives back first what was pushed first.
THEOREM FirstInFirstOut == Spec => QueueDiscipline
<1> DEFINE Step == ~misused' =>
        /\ \A d \in Data : Push(d) => Chain' = Append(Chain, d)
        /\ Peek => result' = (IF Chain = <<>> THEN NULL ELSE Head(Chain)) /\ Chain' = Chain
        /\ Pop => Chain' = Tail(Chain)
<1>1. ListInv /\ ListInv' => Step
  <2> SUFFICES ASSUME ListInv, ListInv', ~misused'
               PROVE  /\ \A d \in Data : Push(d) => Chain' = Append(Chain, d)
                      /\ Peek => result' = (IF Chain = <<>> THEN NULL ELSE Head(Chain)) /\ Chain' = Chain
                      /\ Pop => Chain' = Tail(Chain)
    OBVIOUS
  <2>1. PICK s : Good(s)
    BY DEF ListInv, Good
  <2> DEFINE D == Data \cup {NULL}
  <2>2. TypeOK' /\ length \in Int /\ Chain \in Seq(D) /\ Len(Chain) \in Nat
    BY <2>1, GoodFits, ChainIs DEF ChainLaw, ListInv, Good, ChainOf
  <2>3. PICK c \in Seq(D) : c = Chain
    BY <2>2
  <2>4. ASSUME NEW d \in Data, Push(d) PROVE Chain' = Append(Chain, d)
    <3>1. length = Len(c) /\ Chain' = List!InsertAt(c, Len(c) + 1, d)
      BY <2>1, <2>2, <2>3, <2>4, InsertsItem DEF Push
    <3>2. d \in D
      OBVIOUS
    <3> HIDE DEF D
    <3>3. List!InsertAt(c, Len(c) + 1, d) = Append(c, d)
      BY <3>2, AppendInserts
    <3> QED BY <2>3, <3>1, <3>3
  <2>5. ASSUME Peek PROVE result' = (IF Chain = <<>> THEN NULL ELSE Head(Chain)) /\ Chain' = Chain
    <3>1. /\ ~misused => result' = IF 0 \in 0..Len(Chain) - 1 THEN Chain[0 + 1] ELSE NULL
          /\ Chain' = Chain /\ UNCHANGED <<pc, misused>>
      BY <2>1, <2>5, RetrievesItem DEF Peek
    <3>2. result' = IF 0 \in 0..Len(c) - 1 THEN c[1] ELSE NULL
      BY <2>3, <3>1
    <3>3. 0 \in 0..Len(c) - 1 <=> c # <<>>
      <4> HIDE DEF D
      <4>1. Len(c) \in Nat /\ (c # <<>> => Len(c) # 0) /\ (c = <<>> => Len(c) = 0)
        BY EmptySeq, LenProperties
      <4> QED BY <4>1
    <3>4. Head(c) = c[1]
      OBVIOUS
    <3> QED BY <2>3, <3>1, <3>2, <3>3, <3>4
  <2>6. ASSUME Pop PROVE Chain' = Tail(Chain)
    <3>1. 0 \in 0..Len(c) - 1 /\ Chain' = List!RemoveAt(c, 0 + 1)
      BY <2>1, <2>2, <2>3, <2>6, RemovesItem DEF Pop
    <3> HIDE DEF D
    <3>2. Len(c) \in Nat /\ c # <<>>
      BY <3>1, EmptySeq, LenProperties
    <3>3. List!RemoveAt(c, 1) = Tail(c)
      BY <3>2, TailRemoves
    <3> QED BY <2>3, <3>1, <3>3
  <2> QED BY <2>4, <2>5, <2>6
<1> QED BY <1>1, AlwaysList, PTL DEF QueueDiscipline

\* What a step does to the nodes is a step of a sequence, or none.
THEOREM ListIsSequence == Spec => ImplementsSequence
<1>1. Init => List!Init
  <2> SUFFICES ASSUME Init PROVE List!Init
    OBVIOUS
  <2>1. PICK s : s = <<>>
    OBVIOUS
  <2>2. s \in Seq(Node) /\ Len(s) = 0
    BY <2>1, EmptySeq
  <2>3. Chained(s) /\ TypeOK
    BY <2>2, InitList DEF Init, Chained, ListInv
  <2>4. Len(Chain) = 0 /\ Chain \in Seq(Data \cup {NULL})
    BY <2>2, <2>3, ChainIs DEF ChainLaw, ChainOf
  <2>5. Chain = <<>>
    BY <2>4, EmptySeq
  <2>6. pc = "ready" /\ result = NULL /\ misused = FALSE
    BY DEF Init
  <2> QED BY <2>5, <2>6 DEF List!Init
<1>2. ListInv /\ ListInv' /\ [Next]_vars => [List!Next]_(List!listvars)
  <2> SUFFICES ASSUME ListInv, ListInv', [Next]_vars PROVE [List!Next]_(List!listvars)
    OBVIOUS
  <2>1. PICK s : Good(s)
    BY DEF ListInv, Good
  <2>2. /\ TypeOK' /\ TypeOK /\ Len(Chain) = Len(s) /\ Len(s) \in Nat
        /\ \A index \in Indexes : index \in Int
        /\ length \in Int
    BY <2>1, GoodFits, ChainIs DEF ChainLaw, ListInv, Good, ChainOf, Indexes
  <2>3. ASSUME UNCHANGED <<head, next, data, result, misused>>, pc # "destroyed", pc' # "destroyed"
        PROVE  UNCHANGED List!listvars
    <3>1. Chain' = Chain
      BY <2>3 DEF Chain, Size, Walk
    <3> QED BY <2>3, <3>1 DEF List!listvars
  <2>4. ASSUME misused', pc # "destroyed" PROVE List!Next
    BY <2>4 DEF List!Next, List!Misuse
  <2>5. ASSUME NEW index \in Int, NEW d \in Data, Inserting(index, d) PROVE List!Next
    <3>1. pc = "ready"
      BY <2>5 DEF Inserting
    <3>2. CASE misused'
      BY <2>4, <3>1, <3>2
    <3>3. CASE ~misused'
      <4>1. /\ index \in 0..Len(Chain) /\ Chain' = List!InsertAt(Chain, index + 1, d)
            /\ UNCHANGED <<pc, result, misused>>
        BY <2>1, <2>2, <2>5, <3>3, InsertsItem
      <4>2. List!InsertItem(index, d)
        BY <3>1, <4>1 DEF List!InsertItem
      <4> QED BY <3>1, <4>1, <4>2 DEF List!Next
    <3> QED BY <3>2, <3>3
  <2>6. ASSUME NEW index \in Int, Removing(index) PROVE List!Next
    <3>1. pc = "ready"
      BY <2>6 DEF Removing
    <3>2. CASE misused'
      BY <2>4, <3>1, <3>2
    <3>3. CASE ~misused'
      <4>1. /\ index \in 0..Len(Chain) - 1 /\ Chain' = List!RemoveAt(Chain, index + 1)
            /\ UNCHANGED <<pc, result, misused>>
        BY <2>1, <2>2, <2>6, <3>3, RemovesItem
      <4>2. List!RemoveItem(index)
        BY <3>1, <4>1 DEF List!RemoveItem
      <4>3. index \in 0..Len(Chain)
        BY <2>2, <4>1
      <4> QED BY <3>1, <4>2, <4>3 DEF List!Next
    <3> QED BY <3>2, <3>3
  <2>7. ASSUME NEW index \in Int, Retrieving(index) PROVE List!Next
    <3>1. pc = "ready"
      BY <2>7 DEF Retrieving
    <3>2. /\ ~misused => result' = IF index \in 0..Len(Chain) - 1 THEN Chain[index + 1] ELSE NULL
          /\ Chain' = Chain /\ UNCHANGED <<pc, misused>>
      BY <2>1, <2>7, RetrievesItem
    <3>3. CASE misused'
      BY <2>4, <3>1, <3>3
    <3>4. CASE ~misused'
      <4>1. PICK at \in 0..Len(Chain) : at = IF index \in 0..Len(Chain) - 1 THEN index ELSE Len(Chain)
        BY <2>2
      <4>2. result' = IF at \in 0..Len(Chain) - 1 THEN Chain[at + 1] ELSE NULL
        BY <2>2, <3>2, <3>4, <4>1
      <4>3. List!RetrieveItem(at)
        BY <3>1, <3>2, <4>2 DEF List!RetrieveItem
      <4> QED BY <3>1, <4>1, <4>3 DEF List!Next
    <3> QED BY <3>3, <3>4
  <2>8. CASE Sort \/ Destroy
    <3>1. CASE UNCHANGED <<head, next, data, result, misused>> /\ pc # "destroyed" /\ pc' # "destroyed"
      BY <2>3, <3>1
    <3>2. CASE misused' /\ pc # "destroyed"
      BY <2>4, <3>2
    <3> QED BY <2>8, <3>1, <3>2 DEF Sort, Destroy, Crash, vars
  <2>9. CASE DestroyNext
    <3>1. pc = "destroying" /\ UNCHANGED <<data, result, misused>>
      BY <2>9 DEF DestroyNext
    <3>2. CASE i < length
      <4>1. /\ Len(s) # 0 /\ UNCHANGED <<data, pc, result, misused>> /\ Chained(List!RemoveAt(s, 1))'
        BY <2>1, <2>9, <3>2, DestroysFirst
      <4>2. PICK p \in 1..Len(s) : p = 1
        BY <2>2, <4>1
      <4> HIDE DEF List!RemoveAt
      <4>3. Chained(List!RemoveAt(s, p))'
        BY <4>1, <4>2
      <4>4. Chain' = List!RemoveAt(Chain, p)
        BY <2>1, <2>2, <4>1, <4>3, ChainWithout
      <4>5. Chain' = List!RemoveAt(Chain, 0 + 1) /\ 0 \in 0..Len(Chain) - 1 /\ 0 \in 0..Len(Chain)
        BY <2>2, <4>1, <4>2, <4>4
      <4>6. List!RemoveItem(0)
        BY <3>1, <4>1, <4>5 DEF List!RemoveItem
      <4> QED BY <3>1, <4>5, <4>6 DEF List!Next
    <3>3. CASE ~(i < length)
      <4>1. pc' = "destroyed"
        BY <2>9, <3>3 DEF DestroyNext
      <4> QED BY <3>1, <4>1 DEF List!Next, List!Destroy
    <3> QED BY <3>2, <3>3
  <2>10. CASE UNCHANGED vars
    <3>1. Chain' = Chain
      BY <2>10 DEF vars, Chain, Size, Walk
    <3> QED BY <2>10, <3>1 DEF vars, List!listvars
  <2>11. 0 \in Int
    OBVIOUS
  <2> QED BY <2>2, <2>5, <2>6, <2>7, <2>8, <2>9, <2>10, <2>11
          DEF Next, Insert, Remove, Retrieve, Push, Peek, Pop
<1> QED BY <1>1, <1>2, AlwaysList, PTL DEF Spec, ImplementsSequence, List!Spec
=============================================================================
