-------------------------- MODULE DictionaryProofs --------------------------
(***************************************************************************)
(* Proofs about Dictionary, for any keys, values and number of calls: the  *)
(* tree keeps its shape and its order, whatever is inserted, and the       *)
(* dictionary is a map in which the first value of a key stays.            *)
(***************************************************************************)
EXTENDS Dictionary, NaturalInduction, SequenceTheorems

Node == [key : Keys, value : Values, next : Links, previous : Links]

\* Links lead to nodes that were made later, so that they end.
Linked ==
    /\ head = IF nodes = <<>> THEN None ELSE 1
    /\ \A n \in Nodes : /\ nodes[n].next \in n + 1..Len(nodes) \cup {None}
                        /\ nodes[n].previous \in n + 1..Len(nodes) \cup {None}

\* No two links lead to the same node.
OneParent == \A p, q \in Nodes :
    /\ nodes[p].next # None => nodes[p].next # nodes[q].previous
    /\ nodes[p].next # None /\ nodes[p].next = nodes[q].next => p = q
    /\ nodes[p].previous # None /\ nodes[p].previous = nodes[q].previous => p = q

AllUnder == Subtree(head) = Nodes

\* No key is there twice, and the list and the tree have the same.
UniqueKeys == \A m, n \in Nodes : nodes[m].key = nodes[n].key => m = n
SameKeys == {nodes[n].key : n \in Nodes} = {keys[j] : j \in DOMAIN keys}

\* The order iterate_bst relies on: it turns to next for what is smaller.
SearchOrder == \A n \in Nodes :
    /\ \A m \in Subtree(nodes[n].next) : nodes[m].key < nodes[n].key
    /\ \A m \in Subtree(nodes[n].previous) : nodes[m].key > nodes[n].key

TreeInv == TypeOK /\ Linked /\ OneParent /\ AllUnder /\ SearchOrder /\ UniqueKeys

LEMMA NodeTypes ==
    TypeOK => /\ Len(nodes) \in Nat /\ DOMAIN nodes = Nodes
              /\ \A n \in Nodes : nodes[n] \in Node /\ nodes[n].key \in Int
<1> SUFFICES ASSUME TypeOK
             PROVE  /\ Len(nodes) \in Nat /\ DOMAIN nodes = Nodes
                    /\ \A n \in Nodes : nodes[n] \in Node /\ nodes[n].key \in Int
  OBVIOUS
<1> DEFINE S == Node
<1>1. nodes \in Seq(S)
  BY DEF TypeOK, Node
<1>2. Len(nodes) \in Nat /\ DOMAIN nodes = Nodes
  <2> HIDE DEF S
  <2> QED BY <1>1, LenProperties DEF Nodes
<1>3. \A n \in Nodes : nodes[n] \in S
  <2> HIDE DEF S
  <2> QED BY <1>1, ElementOfSeq DEF Nodes
<1>4. \A n \in Nodes : nodes[n] \in Node
  BY <1>3
<1>5. ASSUME NEW n \in Nodes PROVE nodes[n].key \in Int
  <2>1. nodes[n].key \in Keys
    BY <1>4 DEF Node
  <2> QED BY <2>1, DictionaryAssumption DEF DictionaryAssumption
<1> QED BY <1>2, <1>4, <1>5

----------------------------------------------------------------------------
\* The nodes under a node

Children(p) == {nodes[p].next, nodes[p].previous} \ {None}

\* Subtree(n) is the least set that has n and the children of all it has.
SubtreeLaw(n) ==
    /\ Subtree(n) \subseteq Nodes
    /\ n # None => n \in Subtree(n)
    /\ \A p \in Subtree(n) : Children(p) \subseteq Subtree(n)
    /\ \A D \in SUBSET Nodes :
         (n \in D \/ n = None) /\ (\A p \in D : Children(p) \subseteq D) => Subtree(n) \subseteq D

LEMMA SubtreeIsLeast == TypeOK /\ Linked => \A n \in Links : SubtreeLaw(n)
<1> SUFFICES ASSUME TypeOK, Linked, NEW n \in Links PROVE SubtreeLaw(n)
  OBVIOUS
<1> DEFINE N == Len(nodes)
           More(D) == D \cup {m \in Nodes : \E p \in D : m \in {nodes[p].next, nodes[p].previous}}
           step == [D \in SUBSET Nodes |-> More(D)]
           first == {n} \ {None}
           Def(down) == down = [d \in 0..N |-> IF d = 0 THEN first ELSE More(down[d - 1])]
<1>1. N \in Nat /\ Nodes = 1..N /\ None \notin Nodes /\ Nodes \subseteq Nat
  BY NodeTypes DEF Nodes, None
<1>2. first \in SUBSET Nodes /\ step \in [SUBSET Nodes -> SUBSET Nodes]
  BY DEF Links
<1>3. PICK f \in [0..N -> SUBSET Nodes] : f[0] = first /\ \A d \in 1..N : f[d] = step[f[d - 1]]
  <2>1. PICK f : Iteration(f, SUBSET Nodes, first, step, N)
    <3> HIDE DEF first, step, N
    <3> QED BY <1>1, <1>2, Iterates
  <2> QED BY <2>1 DEF Iteration
<1>4. Def(f)
  <2>1. ASSUME NEW d \in 0..N PROVE f[d] = IF d = 0 THEN first ELSE More(f[d - 1])
    <3>1. CASE d = 0
      BY <1>3, <3>1
    <3>2. CASE d # 0
      <4>1. d \in 1..N /\ d - 1 \in 0..N
        BY <1>1, <3>2
      <4>2. f[d - 1] \in SUBSET Nodes
        BY <1>3, <4>1
      <4> QED BY <1>3, <3>2, <4>1, <4>2
    <3> QED BY <3>1, <3>2
  <2> HIDE DEF More, first, step
  <2> QED BY <1>3, <2>1
<1> DEFINE g == CHOOSE down : Def(down)
<1>5. Def(g)
  <2> HIDE DEF Def
  <2> QED BY <1>4
<1>6. Subtree(n) = g[N]
  BY DEF Subtree
<1>7. g[0] = first /\ \A d \in 1..N : g[d] = More(g[d - 1])
  <2> HIDE DEF g, More, first
  <2>1. \A d \in 0..N : g[d] = IF d = 0 THEN first ELSE More(g[d - 1])
    BY <1>5
  <2> QED BY <1>1, <2>1
<1> HIDE DEF g, Def
<1>8. \A d \in 0..N : g[d] \subseteq Nodes /\ (n # None => n \in g[d])
  <2> DEFINE S == {d \in 0..N : g[d] \subseteq Nodes /\ (n # None => n \in g[d])}
  <2>1. 0 \in S
    BY <1>1, <1>2, <1>7
  <2>2. ASSUME NEW d \in 0..N - 1, d \in S PROVE d + 1 \in S
    <3>1. d + 1 \in 1..N /\ (d + 1) - 1 = d /\ d + 1 \in 0..N
      BY <1>1
    <3>2. g[d + 1] = More(g[d])
      BY <1>7, <3>1
    <3> QED BY <2>2, <3>1, <3>2
  <2>3. 0..N \subseteq S
    <3> HIDE DEF S
    <3> QED BY <1>1, <2>1, <2>2, Induction
  <2> QED BY <2>3
\* a node is reached before as many turns as its number
<1>9. \A d \in 0..N : \A m \in g[d] : \A e \in m - 1..N : m \in g[e]
  <2> DEFINE S == {d \in 0..N : \A m \in g[d] : \A e \in m - 1..N : m \in g[e]}
  <2>1. 0 \in S
    <3>1. \A m \in g[0] : m = n /\ n # None /\ m \in 1..N
      BY <1>1, <1>2, <1>7
    <3>2. \A m \in g[0] : \A e \in m - 1..N : e \in 0..N
      BY <1>1, <3>1
    <3> QED BY <1>1, <1>8, <3>1, <3>2
  <2>2. ASSUME NEW d \in 0..N - 1, d \in S PROVE d + 1 \in S
    <3>1. d + 1 \in 1..N /\ (d + 1) - 1 = d /\ d + 1 \in 0..N /\ d \in 0..N
      BY <1>1
    <3>2. g[d + 1] = More(g[d])
      BY <1>7, <3>1
    <3>3. ASSUME NEW m \in g[d + 1], NEW e \in m - 1..N PROVE m \in g[e]
      <4>1. CASE m \in g[d]
        BY <2>2, <4>1
      <4>2. CASE m \notin g[d]
        <5>1. PICK p \in g[d] : m \in Nodes /\ m \in {nodes[p].next, nodes[p].previous}
          BY <3>2, <4>2
        <5>2. p \in Nodes /\ m \in p + 1..N
          BY <1>1, <1>8, <3>1, <5>1 DEF Linked
        <5>3. e \in 1..N /\ e - 1 \in p - 1..N
          BY <1>1, <5>2
        <5>4. p \in g[e - 1]
          BY <2>2, <5>3
        <5>5. g[e] = More(g[e - 1])
          BY <1>7, <5>3
        <5> QED BY <5>1, <5>4, <5>5
      <4> QED BY <4>1, <4>2
    <3> QED BY <3>1, <3>3
  <2>3. 0..N \subseteq S
    <3> HIDE DEF S
    <3> QED BY <1>1, <2>1, <2>2, Induction
  <2> QED BY <2>3
<1>10. ASSUME NEW p \in g[N], NEW m \in Children(p) PROVE m \in g[N]
  <2>1. p \in Nodes /\ N \in 0..N
    BY <1>1, <1>8
  <2>2. m \in p + 1..N /\ m \in {nodes[p].next, nodes[p].previous} /\ m \in Nodes
    BY <1>1, <2>1 DEF Children, Linked
  <2>3. N - 1 \in p - 1..N /\ N \in 1..N
    BY <1>1, <2>1, <2>2
  <2>4. p \in g[N - 1]
    BY <1>9, <2>1, <2>3
  <2>5. g[N] = More(g[N - 1])
    BY <1>7, <2>3
  <2> QED BY <2>2, <2>4, <2>5
<1>11. ASSUME NEW D \in SUBSET Nodes, n \in D \/ n = None, \A p \in D : Children(p) \subseteq D
       PROVE  g[N] \subseteq D
  <2> DEFINE S == {d \in 0..N : g[d] \subseteq D}
  <2>1. 0 \in S
    BY <1>1, <1>7, <1>11
  <2>2. ASSUME NEW d \in 0..N - 1, d \in S PROVE d + 1 \in S
    <3>1. d + 1 \in 1..N /\ (d + 1) - 1 = d /\ d + 1 \in 0..N
      BY <1>1
    <3>2. g[d + 1] = More(g[d])
      BY <1>7, <3>1
    <3>3. \A p \in D : \A m \in Nodes : m \in {nodes[p].next, nodes[p].previous} => m \in D
      BY <1>1, <1>11 DEF Children
    <3> QED BY <2>2, <3>1, <3>2, <3>3
  <2>3. 0..N \subseteq S
    <3> HIDE DEF S
    <3> QED BY <1>1, <2>1, <2>2, Induction
  <2> QED BY <1>1, <2>3
<1>12. N \in 0..N
  BY <1>1
<1> QED BY <1>6, <1>8, <1>10, <1>11, <1>12 DEF SubtreeLaw

\* The nodes under a node are the node and those under its two children.
LEMMA Branches ==
    TypeOK /\ Linked => \A n \in Nodes :
        /\ nodes[n].next \in Links /\ nodes[n].previous \in Links
        /\ Subtree(n) = {n} \cup Subtree(nodes[n].next) \cup Subtree(nodes[n].previous)
        /\ Subtree(nodes[n].next) \subseteq n + 1..Len(nodes)
        /\ Subtree(nodes[n].previous) \subseteq n + 1..Len(nodes)
<1> SUFFICES ASSUME TypeOK, Linked, NEW n \in Nodes
             PROVE  /\ nodes[n].next \in Links /\ nodes[n].previous \in Links
                    /\ Subtree(n) = {n} \cup Subtree(nodes[n].next) \cup Subtree(nodes[n].previous)
                    /\ Subtree(nodes[n].next) \subseteq n + 1..Len(nodes)
                    /\ Subtree(nodes[n].previous) \subseteq n + 1..Len(nodes)
  OBVIOUS
<1>1. Len(nodes) \in Nat /\ Nodes = 1..Len(nodes) /\ n \in Links
  BY NodeTypes DEF Nodes, Links
<1> DEFINE a == nodes[n].next
           b == nodes[n].previous
<1>2. /\ a \in n + 1..Len(nodes) \cup {None} /\ b \in n + 1..Len(nodes) \cup {None}
      /\ a \in Links /\ b \in Links /\ a # n /\ b # n
  BY <1>1 DEF Linked, Links, None
<1>3. SubtreeLaw(n) /\ SubtreeLaw(a) /\ SubtreeLaw(b)
  BY <1>1, <1>2, SubtreeIsLeast
<1>4. Children(n) = {a, b} \ {None}
  BY DEF Children
<1>5. \A m \in Nodes : Children(m) \subseteq m + 1..Len(nodes)
  BY DEF Linked, Children
<1> HIDE DEF a, b
<1>6. Subtree(n) \subseteq {n} \cup Subtree(a) \cup Subtree(b)
  <2> DEFINE D == {n} \cup Subtree(a) \cup Subtree(b)
  <2>1. D \in SUBSET Nodes
    BY <1>3 DEF SubtreeLaw
  <2>2. \A p \in D : Children(p) \subseteq D
    BY <1>3, <1>4 DEF SubtreeLaw
  <2> QED BY <1>3, <2>1, <2>2 DEF SubtreeLaw
<1>7. n \in Subtree(n) /\ Subtree(n) \in SUBSET Nodes
  BY <1>1, <1>3 DEF SubtreeLaw, None
<1>8. (a \in Subtree(n) \/ a = None) /\ (b \in Subtree(n) \/ b = None)
  BY <1>3, <1>4, <1>7 DEF SubtreeLaw
<1>9. Subtree(a) \subseteq Subtree(n) /\ Subtree(b) \subseteq Subtree(n)
  BY <1>3, <1>7, <1>8 DEF SubtreeLaw
<1>10. ASSUME NEW c \in {a, b} PROVE Subtree(c) \subseteq n + 1..Len(nodes)
  <2> DEFINE D == n + 1..Len(nodes)
  <2>1. D \in SUBSET Nodes /\ (c \in D \/ c = None)
    BY <1>1, <1>2, <1>10
  <2>2. \A p \in D : Children(p) \subseteq D
    BY <1>1, <1>5, <2>1
  <2> HIDE DEF D
  <2>3. Subtree(c) \subseteq D
    BY <1>3, <1>10, <2>1, <2>2 DEF SubtreeLaw
  <2> QED BY <2>3 DEF D
<1> QED BY <1>2, <1>6, <1>7, <1>9, <1>10 DEF a, b

LEMMA NothingUnderNone == TypeOK /\ Linked => Subtree(None) = {}
<1> SUFFICES ASSUME TypeOK, Linked PROVE Subtree(None) = {}
  OBVIOUS
<1>1. SubtreeLaw(None)
  BY SubtreeIsLeast DEF Links
<1>2. {} \in SUBSET Nodes
  OBVIOUS
<1> QED BY <1>1, <1>2 DEF SubtreeLaw

\* What is under a node and not the node has its parent there too.
LEMMA ParentUnder ==
    TypeOK /\ Linked /\ OneParent =>
        \A n \in Links, m \in Nodes : m \in Subtree(n) /\ m # n =>
            /\ \E p \in Subtree(n) : m \in Children(p)
            /\ \A p \in Nodes : m \in Children(p) => p \in Subtree(n)
<1> SUFFICES ASSUME TypeOK, Linked, OneParent, NEW n \in Links, NEW m \in Nodes,
                    m \in Subtree(n), m # n
             PROVE  /\ \E p \in Subtree(n) : m \in Children(p)
                    /\ \A p \in Nodes : m \in Children(p) => p \in Subtree(n)
  OBVIOUS
<1>1. SubtreeLaw(n)
  BY SubtreeIsLeast
<1>2. PICK q \in Subtree(n) : m \in Children(q)
  <2> SUFFICES ASSUME \A p \in Subtree(n) : m \notin Children(p) PROVE FALSE
    OBVIOUS
  <2> DEFINE D == Subtree(n) \ {m}
  <2>1. D \in SUBSET Nodes /\ (n \in D \/ n = None)
    BY <1>1 DEF SubtreeLaw
  <2>2. \A p \in D : Children(p) \subseteq D
    BY <1>1 DEF SubtreeLaw
  <2>3. Subtree(n) \subseteq D
    BY <1>1, <2>1, <2>2 DEF SubtreeLaw
  <2> QED BY <2>3
<1>3. q \in Nodes
  BY <1>1, <1>2 DEF SubtreeLaw
<1>4. ASSUME NEW p \in Nodes, m \in Children(p) PROVE p = q
  BY <1>2, <1>3, <1>4 DEF Children, OneParent
<1> QED BY <1>2, <1>4

----------------------------------------------------------------------------
\* Where a search ends

\* What lies on the way from the root to n when k is looked for.
OnTheWay(n, k) ==
    /\ \A p \in Nodes : /\ n \in Subtree(nodes[p].next) => nodes[p].key > k
                        /\ n \in Subtree(nodes[p].previous) => nodes[p].key < k
    /\ \A m \in Nodes : nodes[m].key = k => m \in Subtree(n)

LEMMA Turns ==
    TypeOK /\ Linked => \A n \in Nodes, k \in Keys :
        /\ Turn(n, k) \in n + 1..Len(nodes) \cup {None}
        /\ Direction(n, k) = 1 <=> nodes[n].key > k
        /\ Direction(n, k) = -1 <=> nodes[n].key < k
        /\ Direction(n, k) = 0 <=> nodes[n].key = k
        /\ Direction(n, k) \in {1, -1, 0}
        /\ nodes[n].key > k => Turn(n, k) = nodes[n].next
        /\ nodes[n].key < k => Turn(n, k) = nodes[n].previous
        /\ nodes[n].key = k => Turn(n, k) = None
<1> SUFFICES ASSUME TypeOK, Linked, NEW n \in Nodes, NEW k \in Keys
             PROVE  /\ Turn(n, k) \in n + 1..Len(nodes) \cup {None}
                    /\ Direction(n, k) = 1 <=> nodes[n].key > k
                    /\ Direction(n, k) = -1 <=> nodes[n].key < k
                    /\ Direction(n, k) = 0 <=> nodes[n].key = k
                    /\ Direction(n, k) \in {1, -1, 0}
                    /\ nodes[n].key > k => Turn(n, k) = nodes[n].next
                    /\ nodes[n].key < k => Turn(n, k) = nodes[n].previous
                    /\ nodes[n].key = k => Turn(n, k) = None
  OBVIOUS
<1>1. k \in Int /\ nodes[n].key \in Int
  BY NodeTypes, DictionaryAssumption DEF DictionaryAssumption
<1>2. nodes[n].next \in n + 1..Len(nodes) \cup {None} /\ nodes[n].previous \in n + 1..Len(nodes) \cup {None}
  BY DEF Linked
<1>3. CASE nodes[n].key > k
  BY <1>1, <1>2, <1>3 DEF Turn, Direction
<1>4. CASE nodes[n].key < k
  BY <1>1, <1>2, <1>4 DEF Turn, Direction
<1>5. CASE nodes[n].key = k
  BY <1>1, <1>2, <1>5 DEF Turn, Direction
<1> QED BY <1>1, <1>3, <1>4, <1>5

LEMMA RootOnTheWay ==
    TreeInv /\ head # None => \A k \in Keys : head \in Nodes /\ OnTheWay(head, k)
<1> SUFFICES ASSUME TreeInv, head # None, NEW k \in Keys PROVE head \in Nodes /\ OnTheWay(head, k)
  OBVIOUS
<1> USE DEF TreeInv
<1>1. head = 1 /\ head \in Nodes /\ Len(nodes) \in Nat /\ Nodes = 1..Len(nodes)
  BY NodeTypes DEF Linked, Links, Nodes, TypeOK
<1>2. ASSUME NEW p \in Nodes PROVE head \notin Subtree(nodes[p].next) /\ head \notin Subtree(nodes[p].previous)
  BY <1>1, Branches
<1> QED BY <1>1, <1>2 DEF OnTheWay, AllUnder

LEMMA TurnOnTheWay ==
    TreeInv => \A k \in Keys, n \in Nodes :
        OnTheWay(n, k) /\ Turn(n, k) # None => Turn(n, k) \in Nodes /\ OnTheWay(Turn(n, k), k)
<1> SUFFICES ASSUME TreeInv, NEW k \in Keys, NEW n \in Nodes, OnTheWay(n, k), Turn(n, k) # None
             PROVE  Turn(n, k) \in Nodes /\ OnTheWay(Turn(n, k), k)
  OBVIOUS
<1> USE DEF TreeInv
<1> DEFINE t == Turn(n, k)
<1>1. /\ Len(nodes) \in Nat /\ Nodes = 1..Len(nodes) /\ Nodes \subseteq Links /\ None \notin Nodes
      /\ k \in Int /\ \A m \in Nodes : nodes[m].key \in Int
  BY NodeTypes, DictionaryAssumption DEF DictionaryAssumption, Nodes, Links, None
<1>2. t \in Nodes /\ t \in Children(n)
  BY <1>1, Turns DEF Children
<1>3. /\ nodes[n].next \in Links /\ nodes[n].previous \in Links
      /\ Subtree(n) = {n} \cup Subtree(nodes[n].next) \cup Subtree(nodes[n].previous)
  BY Branches
<1>4. \/ nodes[n].key > k /\ t = nodes[n].next
      \/ nodes[n].key < k /\ t = nodes[n].previous
  BY <1>1, Turns
<1> HIDE DEF t
<1>5. ASSUME NEW p \in Nodes, t \in Subtree(nodes[p].next) PROVE nodes[p].key > k
  <2>1. CASE t = nodes[p].next
    BY <1>1, <1>2, <1>4, <2>1 DEF OneParent
  <2>2. CASE t # nodes[p].next
    <3>1. nodes[p].next \in Links
      BY Branches
    <3>2. n \in Subtree(nodes[p].next)
      BY <1>2, <1>5, <2>2, <3>1, ParentUnder
    <3> QED BY <3>2 DEF OnTheWay
  <2> QED BY <2>1, <2>2
<1>6. ASSUME NEW p \in Nodes, t \in Subtree(nodes[p].previous) PROVE nodes[p].key < k
  <2>1. CASE t = nodes[p].previous
    BY <1>1, <1>2, <1>4, <2>1 DEF OneParent
  <2>2. CASE t # nodes[p].previous
    <3>1. nodes[p].previous \in Links
      BY Branches
    <3>2. n \in Subtree(nodes[p].previous)
      BY <1>2, <1>6, <2>2, <3>1, ParentUnder
    <3> QED BY <3>2 DEF OnTheWay
  <2> QED BY <2>1, <2>2
<1>7. ASSUME NEW m \in Nodes, nodes[m].key = k PROVE m \in Subtree(t)
  <2>1. m \in Subtree(n)
    BY <1>7 DEF OnTheWay
  <2>2. /\ m \in Subtree(nodes[n].next) => nodes[m].key < nodes[n].key
        /\ m \in Subtree(nodes[n].previous) => nodes[m].key > nodes[n].key
    BY DEF SearchOrder
  <2> QED BY <1>1, <1>3, <1>4, <1>7, <2>1, <2>2
<1> QED BY <1>2, <1>5, <1>6, <1>7 DEF OnTheWay, t

\* The search ends where the key is, or where it would have to be.
LEMMA SearchEnds ==
    TreeInv /\ head # None => \A k \in Keys :
        /\ Iterate(k) \in Nodes
        /\ Turn(Iterate(k), k) = None
        /\ OnTheWay(Iterate(k), k)
        /\ \A m \in Nodes : nodes[m].key = k => m = Iterate(k)
<1> SUFFICES ASSUME TreeInv, head # None, NEW k \in Keys
             PROVE  /\ Iterate(k) \in Nodes
                    /\ Turn(Iterate(k), k) = None
                    /\ OnTheWay(Iterate(k), k)
                    /\ \A m \in Nodes : nodes[m].key = k => m = Iterate(k)
  OBVIOUS
<1>0. TypeOK /\ Linked /\ OneParent /\ AllUnder /\ SearchOrder /\ UniqueKeys
  BY DEF TreeInv
<1> DEFINE N == Len(nodes)
           further(n) == IF Turn(n, k) = None THEN n ELSE Turn(n, k)
           step == [n \in Nodes |-> further(n)]
           Def(at) == at = [j \in 0..N |-> IF j = 0 THEN head ELSE further(at[j - 1])]
<1>1. N \in Nat /\ Nodes = 1..N /\ None \notin Nodes
  BY <1>0, NodeTypes DEF Nodes, None
<1>2. \A n \in Nodes : Turn(n, k) \in n + 1..N \cup {None} /\ further(n) \in Nodes
  BY <1>0, <1>1, Turns
<1>3. head \in Nodes /\ OnTheWay(head, k) /\ step \in [Nodes -> Nodes] /\ head = 1
  BY <1>0, <1>2, RootOnTheWay DEF Linked
<1>4. PICK f : Iteration(f, Nodes, head, step, N)
  <2> HIDE DEF step, N
  <2> QED BY <1>1, <1>3, Iterates
<1>5. Def(f)
  <2> HIDE DEF further
  <2>1. f \in [0..N -> Nodes] /\ f[0] = head /\ \A n \in 1..N : f[n] = step[f[n - 1]]
    BY <1>4 DEF Iteration
  <2>2. ASSUME NEW j \in 0..N PROVE f[j] = IF j = 0 THEN head ELSE further(f[j - 1])
    <3>1. CASE j = 0
      BY <2>1, <3>1
    <3>2. CASE j # 0
      <4>1. j \in 1..N /\ j - 1 \in 0..N
        BY <1>1, <3>2
      <4>2. f[j - 1] \in Nodes
        BY <2>1, <4>1
      <4> QED BY <2>1, <3>2, <4>1, <4>2
    <3> QED BY <3>1, <3>2
  <2> HIDE DEF step
  <2> QED BY <2>1, <2>2
<1> DEFINE at == CHOOSE a : Def(a)
<1>6. Def(at)
  <2> HIDE DEF Def
  <2> QED BY <1>5
<1>7. Iterate(k) = at[N]
  BY DEF Iterate
<1>8. at[0] = head /\ \A j \in 1..N : at[j] = further(at[j - 1])
  <2> HIDE DEF at, further
  <2>1. \A j \in 0..N : at[j] = IF j = 0 THEN head ELSE further(at[j - 1])
    BY <1>6
  <2> QED BY <1>1, <2>1
<1> HIDE DEF at, Def
<1> DEFINE S == {j \in 0..N : /\ at[j] \in Nodes
                              /\ OnTheWay(at[j], k)
                              /\ at[j] >= j + 1 \/ Turn(at[j], k) = None}
<1>9. 0 \in S
  BY <1>1, <1>3, <1>8
<1>10. ASSUME NEW j \in 0..N - 1, j \in S PROVE j + 1 \in S
  <2>1. j + 1 \in 1..N /\ (j + 1) - 1 = j /\ j + 1 \in 0..N
    BY <1>1
  <2>2. at[j + 1] = further(at[j])
    BY <1>8, <2>1
  <2>3. CASE Turn(at[j], k) = None
    BY <1>10, <2>1, <2>2, <2>3
  <2>4. CASE Turn(at[j], k) # None
    <3>1. at[j + 1] = Turn(at[j], k) /\ at[j] >= j + 1
      BY <1>10, <2>2, <2>4
    <3>2. at[j + 1] \in Nodes /\ OnTheWay(at[j + 1], k)
      BY <1>10, <2>4, <3>1, TurnOnTheWay
    <3>3. at[j + 1] \in at[j] + 1..N
      BY <1>2, <1>10, <2>4, <3>1
    <3>4. at[j + 1] >= (j + 1) + 1
      BY <1>1, <1>10, <3>1, <3>3
    <3> QED BY <2>1, <3>2, <3>4
  <2> QED BY <2>3, <2>4
<1>11. 0..N \subseteq S
  <2> HIDE DEF S
  <2> QED BY <1>1, <1>9, <1>10, Induction
<1>12. at[N] \in Nodes /\ OnTheWay(at[N], k) /\ Turn(at[N], k) = None
  BY <1>1, <1>11
<1> DEFINE c == Iterate(k)
<1>13. c \in Nodes /\ OnTheWay(c, k) /\ Turn(c, k) = None
  BY <1>7, <1>12
<1> HIDE DEF c
<1>14. ASSUME NEW m \in Nodes, nodes[m].key = k PROVE m = c
  <2>1. m \in Subtree(c)
    BY <1>13, <1>14 DEF OnTheWay
  <2>2. Subtree(c) = {c} \cup Subtree(nodes[c].next) \cup Subtree(nodes[c].previous)
    BY <1>0, <1>13, Branches
  <2>3. /\ m \in Subtree(nodes[c].next) => nodes[m].key < nodes[c].key
        /\ m \in Subtree(nodes[c].previous) => nodes[m].key > nodes[c].key
    BY <1>0, <1>13 DEF SearchOrder
  <2>4. nodes[c].key \in Int /\ nodes[m].key \in Int /\ k \in Int
    BY <1>0, <1>13, <1>14, NodeTypes
  <2>5. CASE m \in Subtree(nodes[c].next)
    <3>1. Turn(c, k) = nodes[c].next
      BY <1>0, <1>13, <1>14, <2>3, <2>4, <2>5, Turns
    <3> QED BY <1>0, <1>13, <2>5, <3>1, NothingUnderNone
  <2>6. CASE m \in Subtree(nodes[c].previous)
    <3>1. Turn(c, k) = nodes[c].previous
      BY <1>0, <1>13, <1>14, <2>3, <2>4, <2>6, Turns
    <3> QED BY <1>0, <1>13, <2>6, <3>1, NothingUnderNone
  <2> QED BY <2>1, <2>2, <2>5, <2>6
<1> QED BY <1>13, <1>14 DEF c

----------------------------------------------------------------------------
\* What an insertion does

\* There is one node more, for k and v; on that side of c, if c is a node.
Grown(c, side, k, v) ==
    /\ nodes' \in Seq(Node')
    /\ Len(nodes') = Len(nodes) + 1
    /\ nodes'[Len(nodes) + 1] = NewNode(k, v)
    /\ \A p \in Nodes :
         /\ nodes'[p].key = nodes[p].key /\ nodes'[p].value = nodes[p].value
         /\ nodes'[p].next = IF p = c /\ side = 1 THEN Len(nodes) + 1 ELSE nodes[p].next
         /\ nodes'[p].previous = IF p = c /\ side = -1 THEN Len(nodes) + 1 ELSE nodes[p].previous

\* c has a free place on that side, where the search for k ends.
Place(c, side, k) ==
    /\ c \in Nodes
    /\ OnTheWay(c, k)
    /\ side = 1 => nodes[c].next = None /\ nodes[c].key > k
    /\ side = -1 => nodes[c].previous = None /\ nodes[c].key < k

\* A key that is new gets its node.
New(c, side, k, v) ==
    /\ Grown(c, side, k, v)
    /\ side \in {1, -1}
    /\ \/ Nodes = {} /\ head' = 1
       \/ Place(c, side, k) /\ head' = head
    /\ \A m \in Nodes : nodes[m].key # k

LEMMA AttachGrows ==
    ASSUME TypeOK, NEW c \in Nodes, NEW side \in {1, -1}, NEW k \in Keys, NEW v \in Values,
           Attach(c, side, NewNode(k, v))
    PROVE  Grown(c, side, k, v)
<1> DEFINE L == Len(nodes)
           more == 0..L + 1
           S == [key : Keys, value : Values, next : more, previous : more]
           new == NewNode(k, v)
           par == IF side = 1 THEN [nodes[c] EXCEPT !.next = L + 1]
                  ELSE [nodes[c] EXCEPT !.previous = L + 1]
           old == [nodes EXCEPT ![c] = par]
<1>1. L \in Nat /\ Nodes = 1..L /\ c \in 1..L /\ Links \subseteq more /\ L + 1 \in more /\ None \in more
  BY NodeTypes DEF Nodes, Links, None
<1>2. nodes \in Seq(S)
  <2>1. Node \subseteq S
    <3> HIDE DEF more
    <3> QED BY <1>1 DEF Node
  <2>2. nodes \in Seq(Node)
    BY DEF TypeOK, Node
  <2> HIDE DEF S
  <2> QED BY <2>1, <2>2, SeqMonotonic
<1>3. nodes[c] \in S
  <2> HIDE DEF S
  <2> QED BY <1>1, <1>2, ElementOfSeq
<1>4. par \in S /\ new \in S
  <2> HIDE DEF more
  <2> QED BY <1>1, <1>3 DEF NewNode
<1>5. nodes' = Append(old, new)
  <2>1. CASE side = 1
    BY <2>1 DEF Attach
  <2>2. CASE side # 1
    BY <2>2 DEF Attach
  <2> QED BY <2>1, <2>2
<1>6. old \in Seq(S) /\ Len(old) = L /\ \A j \in 1..L : old[j] = IF j = c THEN par ELSE nodes[j]
  <2> HIDE DEF S, par
  <2> QED BY <1>1, <1>2, <1>4, ExceptSeq
<1>7. nodes' \in Seq(S) /\ Len(nodes') = L + 1 /\ nodes'[L + 1] = new
      /\ \A j \in 1..L : nodes'[j] = old[j]
  <2> HIDE DEF S, old, new, L
  <2>1. Append(old, new) \in Seq(S) /\ Len(Append(old, new)) = L + 1
        /\ (\A j \in 1..L : Append(old, new)[j] = old[j]) /\ Append(old, new)[L + 1] = new
    BY <1>4, <1>6, AppendProperties
  <2> QED BY <1>5, <2>1
<1>8. \A j \in Nodes : nodes'[j] = IF j = c THEN par ELSE nodes[j]
  <2> HIDE DEF old, par
  <2> QED BY <1>1, <1>6, <1>7
<1>9. Links' = more
  <2>1. Nodes' = 1..L + 1
    BY <1>7 DEF Nodes
  <2> QED BY <1>1, <2>1 DEF Links, None
<1>10. Node' = S
  BY <1>9 DEF Node
<1>11. ASSUME NEW p \in Nodes
       PROVE  /\ nodes'[p].key = nodes[p].key /\ nodes'[p].value = nodes[p].value
              /\ nodes'[p].next = IF p = c /\ side = 1 THEN L + 1 ELSE nodes[p].next
              /\ nodes'[p].previous = IF p = c /\ side = -1 THEN L + 1 ELSE nodes[p].previous
  <2>1. CASE p # c
    BY <1>8, <2>1
  <2>2. CASE p = c
    <3>1. nodes'[p] = par /\ nodes[c] \in Node
      BY <1>8, <2>2, NodeTypes
    <3>2. CASE side = 1
      BY <2>2, <3>1, <3>2 DEF Node
    <3>3. CASE side = -1
      BY <2>2, <3>1, <3>3 DEF Node
    <3> QED BY <3>2, <3>3
  <2> QED BY <2>1, <2>2
<1> HIDE DEF S
<1> QED BY <1>7, <1>10, <1>11 DEF Grown

LEMMA FirstGrows ==
    ASSUME TypeOK, nodes = <<>>, NEW k \in Keys, NEW v \in Values,
           nodes' = Append(nodes, NewNode(k, v))
    PROVE  Nodes = {} /\ Grown(None, 1, k, v)
<1> DEFINE S == [key : Keys, value : Values, next : 0..1, previous : 0..1]
           new == NewNode(k, v)
<1>1. Len(nodes) = 0 /\ nodes \in Seq(S) /\ new \in S
  <2>1. new \in S
    BY DEF NewNode, None
  <2> HIDE DEF S
  <2> QED BY <2>1, EmptySeq
<1>2. nodes' \in Seq(S) /\ Len(nodes') = 1 /\ nodes'[1] = new
  <2>1. PICK s : s = nodes
    OBVIOUS
  <2> HIDE DEF S, new
  <2>2. s \in Seq(S) /\ Len(s) = 0
    BY <1>1, <2>1
  <2>3. Append(s, new) \in Seq(S) /\ Len(Append(s, new)) = Len(s) + 1 /\ Append(s, new)[Len(s) + 1] = new
    BY <1>1, <2>2, AppendProperties
  <2> QED BY <2>1, <2>2, <2>3 DEF new
<1>3. Nodes = {} /\ Links' = 0..1
  BY <1>1, <1>2 DEF Nodes, Links, None
<1>4. Node' = S
  BY <1>3 DEF Node
<1> HIDE DEF S
<1> QED BY <1>1, <1>2, <1>3, <1>4 DEF Grown

\* An insertion makes a node for a new key, and changes nothing for another.
LEMMA InsertCases ==
    ASSUME TreeInv, NEW k \in Keys, NEW v \in Values, Insert(k, v)
    PROVE  \/ \E c, side : New(c, side, k, v)
           \/ nodes' = nodes /\ head' = head /\ \E m \in Nodes : nodes[m].key = k
<1> USE DEF TreeInv
<1>1. InsertBst(k, v)
  BY DEF Insert
<1>2. head = IF nodes = <<>> THEN None ELSE 1
  BY DEF Linked
<1>3. CASE head = None
  <2>1. nodes = <<>> /\ nodes' = Append(nodes, NewNode(k, v)) /\ head' = Len(nodes) + 1
    BY <1>1, <1>2, <1>3 DEF InsertBst, None
  <2>2. Nodes = {} /\ Grown(None, 1, k, v)
    BY <2>1, FirstGrows
  <2>3. Len(nodes) = 0
    BY <2>1, EmptySeq
  <2>4. New(None, 1, k, v)
    BY <2>1, <2>2, <2>3 DEF New
  <2> QED BY <2>4
<1>4. CASE head # None
  <2>1. PICK c, side : c = Iterate(k) /\ side = Direction(c, k)
    OBVIOUS
  <2>2. c \in Nodes /\ Turn(c, k) = None /\ OnTheWay(c, k) /\ \A m \in Nodes : nodes[m].key = k => m = c
    BY <1>4, <2>1, SearchEnds
  <2>3. /\ side = 1 <=> nodes[c].key > k
        /\ side = -1 <=> nodes[c].key < k
        /\ side = 0 <=> nodes[c].key = k
        /\ side \in {1, -1, 0}
        /\ nodes[c].key > k => nodes[c].next = None
        /\ nodes[c].key < k => nodes[c].previous = None
    BY <2>1, <2>2, Turns
  <2>4. CASE side = 0
    <3>1. nodes' = nodes /\ head' = head
      BY <1>1, <1>4, <2>1, <2>4 DEF InsertBst
    <3> QED BY <2>2, <2>3, <2>4, <3>1
  <2>5. CASE side # 0
    <3>1. Attach(c, side, NewNode(k, v)) /\ head' = head
      BY <1>1, <1>4, <2>1, <2>5 DEF InsertBst
    <3>2. side \in {1, -1}
      BY <2>3, <2>5
    <3>3. Grown(c, side, k, v)
      BY <2>2, <3>1, <3>2, AttachGrows
    <3>4. Place(c, side, k)
      BY <2>2, <2>3 DEF Place
    <3>5. \A m \in Nodes : nodes[m].key # k
      BY <2>2, <2>3, <2>5
    <3> QED BY <3>1, <3>2, <3>3, <3>4, <3>5 DEF New
  <2> QED BY <2>4, <2>5
<1> QED BY <1>3, <1>4

LEMMA NewNodes ==
    ASSUME TypeOK, NEW c, NEW side, NEW k \in Keys, NEW v \in Values, New(c, side, k, v)
    PROVE  /\ Len(nodes) \in Nat /\ Nodes = 1..Len(nodes) /\ Len(nodes') = Len(nodes) + 1
           /\ Nodes' = Nodes \cup {Len(nodes) + 1} /\ Len(nodes) + 1 \notin Nodes
           /\ Links' = Links \cup {Len(nodes) + 1} /\ Len(nodes) + 1 # None
           /\ Links = Nodes \cup {None} /\ None \notin Nodes
<1>1. Len(nodes) \in Nat /\ Len(nodes') = Len(nodes) + 1
  BY NodeTypes DEF New, Grown
<1> QED BY <1>1 DEF Nodes, Links, None

LEMMA StaysLinked ==
    ASSUME TreeInv, NEW c, NEW side, NEW k \in Keys, NEW v \in Values, New(c, side, k, v)
    PROVE  Linked'
<1> DEFINE L == Len(nodes)
<1>1. /\ L \in Nat /\ Nodes = 1..L /\ Len(nodes') = L + 1 /\ Nodes' = Nodes \cup {L + 1}
      /\ None \notin Nodes
  BY NewNodes DEF TreeInv
<1>2. nodes' # <<>>
  BY <1>1, EmptySeq
<1>3. Nodes # {} => nodes # <<>>
  BY <1>1, EmptySeq
<1>4. head' = 1
  BY <1>3 DEF New, Place, TreeInv, Linked
<1>5. ASSUME NEW n \in Nodes
      PROVE  /\ nodes'[n].next \in n + 1..L + 1 \cup {None}
             /\ nodes'[n].previous \in n + 1..L + 1 \cup {None}
  <2>1. /\ nodes[n].next \in n + 1..L \cup {None} /\ nodes[n].previous \in n + 1..L \cup {None}
    BY DEF TreeInv, Linked
  <2>2. /\ nodes'[n].next \in {L + 1, nodes[n].next}
        /\ nodes'[n].previous \in {L + 1, nodes[n].previous}
    BY DEF New, Grown
  <2> QED BY <1>1, <2>1, <2>2
<1>6. nodes'[L + 1].next = None /\ nodes'[L + 1].previous = None
  BY DEF New, Grown, NewNode
<1> QED BY <1>1, <1>2, <1>4, <1>5, <1>6 DEF Linked, None

\* The new node is under what its parent is under.
LEMMA SubtreeGrows ==
    ASSUME TreeInv, TypeOK', NEW c, NEW side, NEW k \in Keys, NEW v \in Values, New(c, side, k, v)
    PROVE  /\ \A n \in Links : Subtree(n)' = Subtree(n) \cup {m \in {Len(nodes) + 1} : c \in Subtree(n)}
           /\ \A n \in {Len(nodes) + 1} : Subtree(n)' = {n}
<1>0. TypeOK /\ Linked /\ Linked'
  BY StaysLinked DEF TreeInv
<1> DEFINE L == Len(nodes)
<1>1. /\ L \in Nat /\ Nodes = 1..L /\ Nodes' = Nodes \cup {L + 1} /\ L + 1 \notin Nodes
      /\ Links' = Links \cup {L + 1} /\ L + 1 # None /\ Links = Nodes \cup {None} /\ None \notin Nodes
  BY <1>0, NewNodes
<1>2. (TypeOK /\ Linked => \A n \in Links : SubtreeLaw(n))'
  BY SubtreeIsLeast, PTL
<1>3. ASSUME NEW n \in Links'
      PROVE  /\ Subtree(n)' \subseteq Nodes'
             /\ n # None => n \in Subtree(n)'
             /\ \A p \in Subtree(n)' : Children(p)' \subseteq Subtree(n)'
             /\ \A D \in SUBSET Nodes' :
                  (n \in D \/ n = None) /\ (\A p \in D : Children(p)' \subseteq D) => Subtree(n)' \subseteq D
  <2>1. SubtreeLaw(n)'
    BY <1>0, <1>2
  <2> QED BY <2>1 DEF SubtreeLaw, None
<1>4. \A p \in Nodes : Children(p)' = Children(p) \cup {m \in {L + 1} : p = c}
  <2>1. ASSUME NEW p \in Nodes, p # c PROVE Children(p)' = Children(p)
    BY <2>1 DEF Children, New, Grown
  <2>2. ASSUME c \in Nodes PROVE Children(c)' = Children(c) \cup {L + 1}
    <3>1. Place(c, side, k) /\ side \in {1, -1}
      BY <2>2 DEF New
    <3>2. CASE side = 1
      <4>1. nodes[c].next = None /\ nodes'[c].next = L + 1 /\ nodes'[c].previous = nodes[c].previous
        BY <2>2, <3>1, <3>2 DEF Place, New, Grown
      <4> QED BY <1>1, <4>1 DEF Children
    <3>3. CASE side = -1
      <4>1. nodes[c].previous = None /\ nodes'[c].previous = L + 1 /\ nodes'[c].next = nodes[c].next
        BY <2>2, <3>1, <3>3 DEF Place, New, Grown
      <4> QED BY <1>1, <4>1 DEF Children
    <3> QED BY <3>1, <3>2, <3>3
  <2> QED BY <2>1, <2>2
<1>5. \A p \in {L + 1} : Children(p)' = {}
  BY DEF Children, New, Grown, NewNode
<1>6. ASSUME NEW n \in Links
      PROVE  Subtree(n)' = Subtree(n) \cup {m \in {L + 1} : c \in Subtree(n)}
  <2>1. SubtreeLaw(n) /\ n \in Links'
    BY <1>0, <1>1, SubtreeIsLeast
  <2>2. Subtree(n) \subseteq Nodes
    BY <2>1 DEF SubtreeLaw
  <2>3. Subtree(n)' \subseteq Subtree(n) \cup {m \in {L + 1} : c \in Subtree(n)}
    <3> DEFINE D == Subtree(n) \cup {m \in {L + 1} : c \in Subtree(n)}
    <3>1. D \in SUBSET Nodes' /\ (n \in D \/ n = None)
      BY <1>1, <2>1 DEF SubtreeLaw
    <3>2. ASSUME NEW p \in D PROVE Children(p)' \subseteq D
      <4>1. CASE p = L + 1
        BY <1>5, <4>1
      <4>2. CASE p # L + 1
        <5>1. p \in Subtree(n) /\ p \in Nodes
          BY <2>2, <4>2
        <5>2. Children(p) \subseteq Subtree(n)
          BY <2>1, <5>1 DEF SubtreeLaw
        <5> QED BY <1>4, <5>1, <5>2
      <4> QED BY <4>1, <4>2
    <3> HIDE DEF D
    <3>3. Subtree(n)' \subseteq D
      BY <1>3, <2>1, <3>1, <3>2
    <3> QED BY <3>3 DEF D
  <2>4. Subtree(n) \subseteq Subtree(n)'
    <3> DEFINE D == Subtree(n)' \cap Nodes
    <3>1. D \in SUBSET Nodes /\ (n \in D \/ n = None)
      BY <1>1, <1>3, <2>1
    <3>2. ASSUME NEW p \in D PROVE Children(p) \subseteq D
      <4>1. Children(p) \subseteq Nodes
        BY <1>0, <1>1 DEF Children, Linked
      <4>2. Children(p)' \subseteq Subtree(n)'
        BY <1>3, <2>1
      <4> QED BY <1>4, <4>1, <4>2
    <3> HIDE DEF D
    <3>3. Subtree(n) \subseteq D
      BY <2>1, <3>1, <3>2 DEF SubtreeLaw
    <3> QED BY <3>3 DEF D
  <2>5. c \in Subtree(n) => L + 1 \in Subtree(n)'
    <3> SUFFICES ASSUME c \in Subtree(n) PROVE L + 1 \in Subtree(n)'
      OBVIOUS
    <3>1. c \in Nodes /\ c \in Subtree(n)'
      BY <2>2, <2>4
    <3>2. L + 1 \in Children(c)'
      BY <1>4, <3>1
    <3> QED BY <1>3, <2>1, <3>1, <3>2
  <2> QED BY <2>3, <2>4, <2>5
<1>7. ASSUME NEW n \in {L + 1} PROVE Subtree(n)' = {n}
  <2>1. n \in Links' /\ {n} \in SUBSET Nodes' /\ n # None
    BY <1>1
  <2>2. \A p \in {n} : Children(p)' \subseteq {n}
    BY <1>5
  <2>3. Subtree(n)' \subseteq {n} /\ n \in Subtree(n)'
    BY <1>3, <2>1, <2>2
  <2> QED BY <2>3
<1> QED BY <1>6, <1>7

----------------------------------------------------------------------------
\* The tree keeps its shape and its order

LEMMA TypeStep == TreeInv /\ [Next]_vars => TypeOK'
<1> SUFFICES ASSUME TreeInv, [Next]_vars PROVE TypeOK'
  OBVIOUS
<1>0. TypeOK
  BY DEF TreeInv
<1>1. ASSUME UNCHANGED <<nodes, head>>, keys' \in Seq(Keys), pc' \in {"ready", "crashed"},
             call' \in {<<>>} \cup {<<k>> : k \in Keys} \cup (Keys \X Values),
             result' \in Values \cup {NULL}
      PROVE  TypeOK'
  BY <1>0, <1>1 DEF TypeOK, Links, Nodes
<1>2. ASSUME NEW k \in Keys, NEW v \in Values, Insert(k, v) PROVE TypeOK'
  <2>1. keys' \in Seq(Keys)
    BY <1>0, <1>2, AppendProperties DEF Insert, ListKey, TypeOK
  <2>2. call' \in Keys \X Values /\ pc' = pc /\ result' = result
    BY <1>2 DEF Insert
  <2>3. CASE \E c, side : New(c, side, k, v)
    <3>1. PICK c, side : New(c, side, k, v)
      BY <2>3
    <3>2. nodes' \in Seq(Node')
      BY <3>1 DEF New, Grown
    <3>3. /\ Len(nodes) \in Nat /\ Nodes = 1..Len(nodes) /\ Links' = Links \cup {Len(nodes) + 1}
          /\ head \in Links
      BY <1>0, <3>1, NewNodes DEF TypeOK
    <3>4. Nodes = {} => Len(nodes) + 1 = 1
      BY <3>3
    <3>5. head' \in Links'
      BY <3>1, <3>3, <3>4 DEF New
    <3> QED BY <1>0, <2>1, <2>2, <3>2, <3>5 DEF TypeOK, Node
  <2>4. CASE nodes' = nodes /\ head' = head
    BY <1>0, <1>1, <2>1, <2>2, <2>4 DEF TypeOK
  <2> QED BY <1>2, <2>3, <2>4, InsertCases
<1>3. ASSUME NEW k \in Keys, Search(k) PROVE TypeOK'
  <2>1. Iterate(k) \in Nodes
    BY <1>3, SearchEnds DEF Search
  <2>2. nodes[Iterate(k)].value \in Values
    BY <1>0, <2>1, NodeTypes DEF Node
  <2>3. result' \in Values \cup {NULL}
    BY <1>3, <2>2 DEF Search, SearchBst
  <2> QED BY <1>0, <1>1, <1>3, <2>3 DEF Search, TypeOK
<1>4. CASE SearchEmpty \/ Destroy
  BY <1>0, <1>1, <1>4 DEF SearchEmpty, Destroy, Crash, TypeOK
<1>5. CASE UNCHANGED vars
  BY <1>0, <1>1, <1>5 DEF vars, TypeOK
<1> QED BY <1>2, <1>3, <1>4, <1>5 DEF Next

\* The new link leads to a node to which no other leads.
LEMMA StaysOneParent ==
    ASSUME TreeInv, NEW c, NEW side, NEW k \in Keys, NEW v \in Values, New(c, side, k, v)
    PROVE  OneParent'
<1> DEFINE L == Len(nodes)
<1>1. /\ L \in Nat /\ Nodes = 1..L /\ Nodes' = Nodes \cup {L + 1} /\ L + 1 \notin Nodes
      /\ L + 1 # None /\ None \notin Nodes
  BY NewNodes DEF TreeInv
<1>2. nodes'[L + 1].next = None /\ nodes'[L + 1].previous = None
  BY DEF New, Grown, NewNode
<1>3. \A p \in Nodes : /\ nodes[p].next \in Nodes \cup {None}
                       /\ nodes[p].previous \in Nodes \cup {None}
  BY Branches, <1>1 DEF TreeInv, Links
<1>4. \A p \in Nodes :
         /\ nodes'[p].next = IF p = c /\ side = 1 THEN L + 1 ELSE nodes[p].next
         /\ nodes'[p].previous = IF p = c /\ side = -1 THEN L + 1 ELSE nodes[p].previous
  BY DEF New, Grown
<1>5. \A p, q \in Nodes :
         /\ nodes[p].next # None => nodes[p].next # nodes[q].previous
         /\ nodes[p].next # None /\ nodes[p].next = nodes[q].next => p = q
         /\ nodes[p].previous # None /\ nodes[p].previous = nodes[q].previous => p = q
  BY DEF TreeInv, OneParent
<1> HIDE DEF L
<1>6. ASSUME NEW p \in Nodes', NEW q \in Nodes'
      PROVE  /\ nodes'[p].next # None => nodes'[p].next # nodes'[q].previous
             /\ nodes'[p].next # None /\ nodes'[p].next = nodes'[q].next => p = q
             /\ nodes'[p].previous # None /\ nodes'[p].previous = nodes'[q].previous => p = q
  <2>1. CASE p = L + 1 \/ q = L + 1
    BY <1>1, <1>2, <2>1
  <2>2. CASE p \in Nodes /\ q \in Nodes
    <3>1. nodes'[p].next # None => nodes'[p].next # nodes'[q].previous
      BY <1>1, <1>3, <1>4, <1>5, <2>2
    <3>2. nodes'[p].next # None /\ nodes'[p].next = nodes'[q].next => p = q
      BY <1>1, <1>3, <1>4, <1>5, <2>2
    <3>3. nodes'[p].previous # None /\ nodes'[p].previous = nodes'[q].previous => p = q
      BY <1>1, <1>3, <1>4, <1>5, <2>2
    <3> QED BY <3>1, <3>2, <3>3
  <2> QED BY <1>1, <2>1, <2>2
<1> QED BY <1>6 DEF OneParent

LEMMA StaysUnder ==
    ASSUME TreeInv, TypeOK', NEW c, NEW side, NEW k \in Keys, NEW v \in Values, New(c, side, k, v)
    PROVE  AllUnder' /\ UniqueKeys'
<1> DEFINE L == Len(nodes)
<1>1. /\ L \in Nat /\ Nodes = 1..L /\ Nodes' = Nodes \cup {L + 1} /\ L + 1 \notin Nodes
      /\ Links = Nodes \cup {None}
  BY NewNodes DEF TreeInv
<1>2. Subtree(head) = Nodes /\ head \in Links
  BY DEF TreeInv, AllUnder, TypeOK
<1>3. Subtree(head)' = Nodes'
  <2>1. PICK h, n : h = head /\ n = head'
    OBVIOUS
  <2>2. Subtree(h) = Nodes /\ Subtree(head)' = Subtree(n)' /\ h \in Links
    BY <1>2, <2>1
  <2>3. CASE Nodes = {} /\ n = L + 1
    <3>1. Subtree(n)' = {n}
      BY <2>3, SubtreeGrows
    <3> QED BY <1>1, <2>2, <2>3, <3>1
  <2>4. CASE c \in Nodes /\ n = h
    <3>1. \A i \in Links : Subtree(i)' = Subtree(i) \cup {m \in {Len(nodes) + 1} : c \in Subtree(i)}
      BY SubtreeGrows
    <3>2. Subtree(h)' = Subtree(h) \cup {m \in {L + 1} : c \in Subtree(h)}
      BY <2>2, <3>1
    <3> QED BY <1>1, <2>2, <2>4, <3>2
  <2> QED BY <1>1, <2>1, <2>3, <2>4 DEF New, Place
<1>4. UniqueKeys'
  <2>1. nodes'[L + 1].key = k /\ \A p \in Nodes : nodes'[p].key = nodes[p].key /\ nodes[p].key # k
    BY DEF New, Grown, NewNode
  <2>2. \A m, n \in Nodes : nodes[m].key = nodes[n].key => m = n
    BY DEF TreeInv, UniqueKeys
  <2> QED BY <1>1, <2>1, <2>2 DEF UniqueKeys
<1> QED BY <1>3, <1>4 DEF AllUnder

LEMMA StaysOrderedStep ==
    ASSUME TreeInv, TypeOK', NEW c, NEW side, NEW k \in Keys, NEW v \in Values, New(c, side, k, v)
    PROVE  SearchOrder'
<1> DEFINE L == Len(nodes)
<1>1. /\ L \in Nat /\ Nodes = 1..L /\ Nodes' = Nodes \cup {L + 1} /\ L + 1 \notin Nodes
      /\ Links' = Links \cup {L + 1} /\ Links = Nodes \cup {None}
  BY NewNodes DEF TreeInv
<1>2. \A m \in Nodes : nodes'[m].key = nodes[m].key
  BY DEF New, Grown
<1>3. nodes'[L + 1] = NewNode(k, v) /\ nodes'[L + 1].key = k
  BY DEF New, Grown, NewNode
<1>4. /\ \A n \in Links : Subtree(n)' = Subtree(n) \cup {m \in {L + 1} : c \in Subtree(n)}
      /\ \A n \in {L + 1} : Subtree(n)' = {n}
  BY SubtreeGrows
<1>5. \A n \in Links : Subtree(n) \subseteq Nodes
  BY SubtreeIsLeast DEF SubtreeLaw, TreeInv
<1>6. Subtree(None) = {}
  BY NothingUnderNone DEF TreeInv
<1>7. None \in Links /\ (c \in Nodes => Place(c, side, k)) /\ (Nodes # {} => c \in Nodes)
  BY <1>1 DEF New, Place
<1> HIDE DEF L
<1>8. ASSUME NEW n \in Nodes', NEW a, a = nodes'[n].next, NEW m \in Subtree(a)'
      PROVE  nodes'[m].key < nodes'[n].key
  <2>1. CASE n = L + 1
    <3>1. a = None
      BY <1>3, <1>8, <2>1 DEF NewNode
    <3>2. Subtree(a)' = Subtree(None) \cup {i \in {L + 1} : c \in Subtree(None)}
      BY <1>4, <1>7, <3>1
    <3> QED BY <1>6, <1>8, <3>2
  <2>2. CASE n \in Nodes /\ n = c /\ side = 1
    <3>1. a = L + 1 /\ nodes[c].key > k
      BY <1>7, <1>8, <2>2 DEF New, Grown, Place, L
    <3>2. m = L + 1
      BY <1>4, <1>8, <3>1
    <3>3. nodes[c].key \in Int /\ k \in Int
      BY <1>7, <2>2, NodeTypes, DictionaryAssumption DEF TreeInv, DictionaryAssumption
    <3> QED BY <1>2, <1>3, <2>2, <3>1, <3>2, <3>3
  <2>3. CASE n \in Nodes /\ ~(n = c /\ side = 1)
    <3>1. a = nodes[n].next /\ a \in Links
      BY <1>8, <2>3, Branches DEF New, Grown, TreeInv
    <3>2. m \in Subtree(a) \/ (m = L + 1 /\ c \in Subtree(a))
      BY <1>4, <1>8, <3>1
    <3>3. CASE m \in Subtree(a)
      <4>1. nodes[m].key < nodes[n].key /\ m \in Nodes
        BY <1>5, <2>3, <3>1, <3>3 DEF TreeInv, SearchOrder
      <4> QED BY <1>2, <2>3, <4>1
    <3>4. CASE m = L + 1 /\ c \in Subtree(a)
      <4>1. nodes[n].key > k
        BY <1>5, <1>7, <2>3, <3>1, <3>4 DEF Place, OnTheWay
      <4>2. nodes[n].key \in Int /\ k \in Int
        BY <2>3, NodeTypes, DictionaryAssumption DEF TreeInv, DictionaryAssumption
      <4> QED BY <1>2, <1>3, <2>3, <3>4, <4>1, <4>2
    <3> QED BY <3>2, <3>3, <3>4
  <2> QED BY <1>1, <2>1, <2>2, <2>3 DEF L
<1>9. ASSUME NEW n \in Nodes', NEW a, a = nodes'[n].previous, NEW m \in Subtree(a)'
      PROVE  nodes'[m].key > nodes'[n].key
  <2>1. CASE n = L + 1
    <3>1. a = None
      BY <1>3, <1>9, <2>1 DEF NewNode
    <3>2. Subtree(a)' = Subtree(None) \cup {i \in {L + 1} : c \in Subtree(None)}
      BY <1>4, <1>7, <3>1
    <3> QED BY <1>6, <1>9, <3>2
  <2>2. CASE n \in Nodes /\ n = c /\ side = -1
    <3>1. a = L + 1 /\ nodes[c].key < k
      BY <1>7, <1>9, <2>2 DEF New, Grown, Place, L
    <3>2. m = L + 1
      BY <1>4, <1>9, <3>1
    <3>3. nodes[c].key \in Int /\ k \in Int
      BY <1>7, <2>2, NodeTypes, DictionaryAssumption DEF TreeInv, DictionaryAssumption
    <3> QED BY <1>2, <1>3, <2>2, <3>1, <3>2, <3>3
  <2>3. CASE n \in Nodes /\ ~(n = c /\ side = -1)
    <3>1. a = nodes[n].previous /\ a \in Links
      BY <1>9, <2>3, Branches DEF New, Grown, TreeInv
    <3>2. m \in Subtree(a) \/ (m = L + 1 /\ c \in Subtree(a))
      BY <1>4, <1>9, <3>1
    <3>3. CASE m \in Subtree(a)
      <4>1. nodes[m].key > nodes[n].key /\ m \in Nodes
        BY <1>5, <2>3, <3>1, <3>3 DEF TreeInv, SearchOrder
      <4> QED BY <1>2, <2>3, <4>1
    <3>4. CASE m = L + 1 /\ c \in Subtree(a)
      <4>1. nodes[n].key < k
        BY <1>5, <1>7, <2>3, <3>1, <3>4 DEF Place, OnTheWay
      <4>2. nodes[n].key \in Int /\ k \in Int
        BY <2>3, NodeTypes, DictionaryAssumption DEF TreeInv, DictionaryAssumption
      <4> QED BY <1>2, <1>3, <2>3, <3>4, <4>1, <4>2
    <3> QED BY <3>2, <3>3, <3>4
  <2> QED BY <1>1, <2>1, <2>2, <2>3 DEF L
<1>10. ASSUME NEW n \in Nodes'
       PROVE  /\ \A m \in Subtree(nodes[n].next)' : nodes'[m].key < nodes'[n].key
              /\ \A m \in Subtree(nodes[n].previous)' : nodes'[m].key > nodes'[n].key
  <2>1. PICK a, b : a = nodes'[n].next /\ b = nodes'[n].previous
    OBVIOUS
  <2>2. Subtree(nodes[n].next)' = Subtree(a)' /\ Subtree(nodes[n].previous)' = Subtree(b)'
    BY <2>1
  <2> QED BY <1>8, <1>9, <2>1, <2>2
<1> QED BY <1>10 DEF SearchOrder

LEMMA InitTree == Init => TreeInv
<1> SUFFICES ASSUME Init PROVE TreeInv
  OBVIOUS
<1>1. nodes = <<>> /\ Len(nodes) = 0 /\ head = None /\ Nodes = {} /\ Links = {None}
  BY EmptySeq DEF Init, Nodes, Links
<1>2. TypeOK
  <2> DEFINE S == [key : Keys, value : Values, next : Links, previous : Links]
  <2>1. nodes \in Seq(S)
    <3> HIDE DEF S
    <3> QED BY <1>1, EmptySeq
  <2>2. keys \in Seq(Keys)
    BY EmptySeq DEF Init
  <2> QED BY <1>1, <2>1, <2>2 DEF Init, TypeOK
<1>3. Linked
  BY <1>1 DEF Linked
<1>4. OneParent /\ UniqueKeys
  BY <1>1 DEF OneParent, UniqueKeys
<1>5. AllUnder
  BY <1>1, <1>2, <1>3, NothingUnderNone DEF AllUnder
<1>6. SearchOrder
  BY <1>1 DEF SearchOrder
<1> QED BY <1>2, <1>3, <1>4, <1>5, <1>6 DEF TreeInv

\* The tree after a step is the tree before it, but for the node of a new key.
LEMMA SameTree ==
    ASSUME TreeInv, TypeOK', UNCHANGED <<nodes, head>>
    PROVE  TreeInv'
<1>1. nodes' = nodes /\ head' = head /\ Nodes' = Nodes
  BY DEF Nodes
<1>2. Linked'
  BY <1>1 DEF TreeInv, Linked
<1>3. OneParent' /\ UniqueKeys'
  BY <1>1 DEF TreeInv, OneParent, UniqueKeys
<1>4. \A n : Subtree(n)' = Subtree(n)
  BY <1>1 DEF Subtree
<1>5. AllUnder'
  BY <1>1, <1>4 DEF TreeInv, AllUnder
<1>6. SearchOrder'
  BY <1>1, <1>4 DEF TreeInv, SearchOrder
<1> QED BY <1>2, <1>3, <1>5, <1>6 DEF TreeInv

LEMMA TreeStep == TreeInv /\ [Next]_vars => TreeInv'
<1> SUFFICES ASSUME TreeInv, [Next]_vars PROVE TreeInv'
  OBVIOUS
<1>1. TypeOK'
  BY TypeStep
<1>2. ASSUME NEW k \in Keys, NEW v \in Values, Insert(k, v) PROVE TreeInv'
  <2>1. CASE \E c, side : New(c, side, k, v)
    <3>1. PICK c, side : New(c, side, k, v)
      BY <2>1
    <3>2. Linked' /\ OneParent'
      BY <3>1, StaysLinked, StaysOneParent
    <3>3. AllUnder' /\ UniqueKeys'
      BY <1>1, <3>1, StaysUnder
    <3>4. SearchOrder'
      BY <1>1, <3>1, StaysOrderedStep
    <3> QED BY <1>1, <3>2, <3>3, <3>4 DEF TreeInv
  <2>2. CASE nodes' = nodes /\ head' = head
    BY <1>1, <2>2, SameTree
  <2> QED BY <1>2, <2>1, <2>2, InsertCases
<1>3. CASE ~\E k \in Keys, v \in Values : Insert(k, v)
  <2>1. UNCHANGED <<nodes, head>>
    BY <1>3 DEF Next, vars, Search, SearchEmpty, Destroy, Crash
  <2> QED BY <1>1, <2>1, SameTree
<1> QED BY <1>2, <1>3

LEMMA AlwaysTree == Spec => []TreeInv
<1>1. Init => TreeInv
  BY InitTree
<1>2. TreeInv /\ [Next]_vars => TreeInv'
  BY TreeStep
<1> QED BY <1>1, <1>2, PTL DEF Spec

\* Every variable has its type.
THEOREM TypeCorrect == Spec => []TypeOK
<1>1. TreeInv => TypeOK
  BY DEF TreeInv
<1> QED BY <1>1, AlwaysTree, PTL

\* At every depth one link of every node leads to the smaller keys under it and
\* the other to the greater ones, the same way round in the whole tree.
THEOREM StaysOrdered == Spec => []Ordered
<1>1. TreeInv => Ordered
  BY DEF TreeInv, SearchOrder, Ordered, OrderedBy
<1> QED BY <1>1, AlwaysTree, PTL

\* insert_bst loses no node, hangs none below itself and none twice.
THEOREM KeepsShape == Spec => []TreeShape
<1>1. TreeInv => TreeShape
  <2> SUFFICES ASSUME TreeInv PROVE TreeShape
    OBVIOUS
  <2>1. Subtree(head) = Nodes /\ head \in Links
    BY DEF TreeInv, AllUnder, TypeOK
  <2>2. ASSUME NEW n \in Nodes \ {head}
        PROVE  Cardinality({p \in Nodes : nodes[p].next = n})
                 + Cardinality({p \in Nodes : nodes[p].previous = n}) = 1
    <3> DEFINE A == {p \in Nodes : nodes[p].next = n}
               B == {p \in Nodes : nodes[p].previous = n}
    <3>1. PICK p \in Subtree(head) : n \in Children(p)
      BY <2>1, ParentUnder DEF TreeInv
    <3>2. p \in Nodes /\ n # None /\ n \in {nodes[p].next, nodes[p].previous}
      BY <2>1, <3>1 DEF Children
    <3>3. CASE n = nodes[p].next
      <4>1. A = {p} /\ B = {}
        BY <3>2, <3>3 DEF TreeInv, OneParent
      <4>2. Cardinality(A) = 1 /\ Cardinality(B) = 0
        <5> HIDE DEF A, B
        <5> QED BY <4>1, FS_Singleton, FS_EmptySet
      <4> QED BY <4>2
    <3>4. CASE n = nodes[p].previous
      <4>1. A = {} /\ B = {p}
        BY <3>2, <3>4 DEF TreeInv, OneParent
      <4>2. Cardinality(A) = 0 /\ Cardinality(B) = 1
        <5> HIDE DEF A, B
        <5> QED BY <4>1, FS_Singleton, FS_EmptySet
      <4> QED BY <4>2
    <3> QED BY <3>2, <3>3, <3>4
  <2>3. ASSUME NEW n \in Nodes, n = head
        PROVE  Cardinality({p \in Nodes : nodes[p].next = n})
                 + Cardinality({p \in Nodes : nodes[p].previous = n}) = 0
    <3>1. Len(nodes) \in Nat
      BY NodeTypes DEF TreeInv
    <3>2. n = 1
      BY <2>3, <3>1 DEF TreeInv, Linked, Nodes, None
    <3>3. ASSUME NEW p \in Nodes PROVE nodes[p].next # n /\ nodes[p].previous # n
      BY <3>1, <3>2 DEF TreeInv, Linked, Nodes, None
    <3> DEFINE A == {p \in Nodes : nodes[p].next = n}
               B == {p \in Nodes : nodes[p].previous = n}
    <3>4. A = {} /\ B = {}
      BY <3>3
    <3>5. Cardinality(A) = 0 /\ Cardinality(B) = 0
      <4> HIDE DEF A, B
      <4> QED BY <3>4, FS_EmptySet
    <3> QED BY <3>5
  <2> QED BY <2>1, <2>2, <2>3 DEF TreeShape
<1> QED BY <1>1, AlwaysTree, PTL

----------------------------------------------------------------------------
\* The list of keys

KeysInv == TreeInv /\ SameKeys /\ KeysListed

\* The first calls up to j.
Before(j) == {i \in FirstCalls : i <= j}

LEMMA FirstCallsFinite ==
    TypeOK => /\ Len(keys) \in Nat /\ DOMAIN keys = 1..Len(keys) /\ FirstCalls \subseteq 1..Len(keys)
              /\ IsFiniteSet(FirstCalls) /\ Cardinality(FirstCalls) \in Nat
              /\ \A j \in FirstCalls : Cardinality(Before(j)) \in 1..Cardinality(FirstCalls)
<1> SUFFICES ASSUME TypeOK
             PROVE  /\ Len(keys) \in Nat /\ DOMAIN keys = 1..Len(keys) /\ FirstCalls \subseteq 1..Len(keys)
                    /\ IsFiniteSet(FirstCalls) /\ Cardinality(FirstCalls) \in Nat
                    /\ \A j \in FirstCalls : Cardinality(Before(j)) \in 1..Cardinality(FirstCalls)
  OBVIOUS
<1>1. Len(keys) \in Nat /\ DOMAIN keys = 1..Len(keys)
  BY LenProperties DEF TypeOK
<1>2. FirstCalls \subseteq 1..Len(keys)
  BY <1>1 DEF FirstCalls
<1>3. IsFiniteSet(FirstCalls) /\ Cardinality(FirstCalls) \in Nat
  <2>1. IsFiniteSet(1..Len(keys))
    BY <1>1, FS_Interval
  <2> QED BY <1>2, <2>1, FS_Subset, FS_CardinalityType
<1>4. ASSUME NEW j \in FirstCalls PROVE Cardinality(Before(j)) \in 1..Cardinality(FirstCalls)
  <2>1. j \in Before(j) /\ Before(j) \subseteq FirstCalls
    BY <1>1, <1>2 DEF Before
  <2>2. IsFiniteSet(Before(j)) /\ Cardinality(Before(j)) <= Cardinality(FirstCalls)
    BY <1>3, <2>1, FS_Subset
  <2>3. Cardinality(Before(j)) \in Nat /\ Cardinality(Before(j)) # 0
    BY <2>1, <2>2, FS_CardinalityType, FS_EmptySet
  <2> QED BY <1>3, <2>2, <2>3
<1> QED BY <1>1, <1>2, <1>3, <1>4

LEMMA ListGrows ==
    ASSUME TypeOK, NEW k \in Keys, ListKey(k)
    PROVE  /\ DOMAIN keys' = DOMAIN keys \cup {Len(keys) + 1}
           /\ \A j \in DOMAIN keys : keys'[j] = keys[j]
           /\ keys'[Len(keys) + 1] = k
           /\ FirstCalls' = FirstCalls \cup {j \in {Len(keys) + 1} : \A i \in DOMAIN keys : keys[i] # k}
<1> DEFINE L == Len(keys)
<1>1. L \in Nat /\ DOMAIN keys = 1..L
  BY FirstCallsFinite
<1>2. keys' \in Seq(Keys) /\ Len(keys') = L + 1 /\ keys'[L + 1] = k /\ \A j \in 1..L : keys'[j] = keys[j]
  BY AppendProperties DEF TypeOK, ListKey
<1>3. DOMAIN keys' = 1..L + 1
  BY <1>2, LenProperties
<1> HIDE DEF L
<1>4. ASSUME NEW j \in 1..L PROVE j \in FirstCalls' <=> j \in FirstCalls
  <2>1. \A i \in 1..j - 1 : keys'[i] = keys[i] /\ keys'[j] = keys[j]
    BY <1>1, <1>2
  <2>2. j \in DOMAIN keys /\ j \in DOMAIN keys'
    BY <1>1, <1>3
  <2> QED BY <2>1, <2>2 DEF FirstCalls
<1>5. L + 1 \in FirstCalls' <=> \A i \in DOMAIN keys : keys[i] # k
  <2>1. 1..(L + 1) - 1 = DOMAIN keys /\ L + 1 \in DOMAIN keys'
    BY <1>1, <1>3
  <2> QED BY <1>1, <1>2, <2>1 DEF FirstCalls
<1>6. FirstCalls' \subseteq DOMAIN keys' /\ FirstCalls \subseteq DOMAIN keys /\ L + 1 \notin DOMAIN keys
  BY <1>1 DEF FirstCalls
<1>7. DOMAIN keys' = DOMAIN keys \cup {L + 1}
  BY <1>1, <1>3
<1> QED BY <1>1, <1>2, <1>4, <1>5, <1>6, <1>7 DEF L

LEMMA KeysStep == KeysInv /\ [Next]_vars => KeysInv'
<1> SUFFICES ASSUME KeysInv, [Next]_vars PROVE KeysInv'
  OBVIOUS
<1>1. TreeInv /\ TreeInv' /\ TypeOK /\ TypeOK'
  BY TreeStep DEF KeysInv, TreeInv
<1>2. ASSUME NEW k \in Keys, NEW v \in Values, Insert(k, v) PROVE SameKeys' /\ KeysListed'
  <2> DEFINE N == Len(nodes)
             L == Len(keys)
  <2>1. /\ DOMAIN keys' = DOMAIN keys \cup {L + 1}
        /\ \A j \in DOMAIN keys : keys'[j] = keys[j]
        /\ keys'[L + 1] = k
        /\ FirstCalls' = FirstCalls \cup {j \in {L + 1} : \A i \in DOMAIN keys : keys[i] # k}
    BY <1>1, <1>2, ListGrows DEF Insert
  <2>2. /\ L \in Nat /\ DOMAIN keys = 1..L /\ FirstCalls \subseteq 1..L
        /\ IsFiniteSet(FirstCalls) /\ Cardinality(FirstCalls) \in Nat
        /\ \A j \in FirstCalls : Cardinality(Before(j)) \in 1..Cardinality(FirstCalls)
    BY <1>1, FirstCallsFinite
  <2>3. /\ {nodes[n].key : n \in Nodes} = {keys[j] : j \in DOMAIN keys}
        /\ Cardinality(FirstCalls) = N
        /\ \A j \in FirstCalls : nodes[Cardinality(Before(j))].key = keys[j]
    BY DEF KeysInv, SameKeys, KeysListed, Before
  <2> HIDE DEF L
  <2>4. CASE \E c, side : New(c, side, k, v)
    <3>1. PICK c, side : New(c, side, k, v)
      BY <2>4
    <3>2. /\ N \in Nat /\ Nodes = 1..N /\ Len(nodes') = N + 1 /\ Nodes' = Nodes \cup {N + 1}
      BY <1>1, <3>1, NewNodes
    <3>3. nodes'[N + 1].key = k /\ \A p \in Nodes : nodes'[p].key = nodes[p].key /\ nodes[p].key # k
      BY <3>1 DEF New, Grown, NewNode
    <3> HIDE DEF N
    <3>4. \A i \in DOMAIN keys : keys[i] # k
      BY <2>3, <3>3
    <3>5. FirstCalls' = FirstCalls \cup {L + 1} /\ L + 1 \notin FirstCalls
      BY <2>1, <2>2, <3>4
    <3>6. Cardinality(FirstCalls') = N + 1
      BY <2>2, <2>3, <3>5, FS_AddElement
    <3>7. ASSUME NEW j \in FirstCalls PROVE nodes'[Cardinality(Before(j)')].key = keys'[j]
      <4>1. Before(j)' = Before(j)
        BY <2>2, <3>5 DEF Before
      <4>2. Cardinality(Before(j)) \in Nodes
        BY <2>2, <2>3, <3>2
      <4> QED BY <2>1, <2>2, <2>3, <3>3, <4>1, <4>2
    <3>8. ASSUME NEW j \in {L + 1} PROVE nodes'[Cardinality(Before(j)')].key = keys'[j]
      <4>1. \A i \in FirstCalls' : i <= j
        BY <2>2, <3>5
      <4>2. Before(j)' = FirstCalls'
        BY <4>1 DEF Before
      <4> QED BY <2>1, <3>3, <3>6, <4>2
    <3>9. KeysListed'
      BY <3>2, <3>5, <3>6, <3>7, <3>8 DEF KeysListed, Before
    <3>10. SameKeys'
      <4>1. {nodes'[n].key : n \in Nodes'} = {nodes[n].key : n \in Nodes} \cup {k}
        BY <3>2, <3>3
      <4>2. {keys'[j] : j \in DOMAIN keys'} = {keys[j] : j \in DOMAIN keys} \cup {k}
        BY <2>1
      <4> QED BY <2>3, <4>1, <4>2 DEF SameKeys
    <3> QED BY <3>9, <3>10
  <2>5. CASE nodes' = nodes /\ \E m \in Nodes : nodes[m].key = k
    <3>1. ~\A i \in DOMAIN keys : keys[i] # k
      BY <2>3, <2>5
    <3>2. FirstCalls' = FirstCalls /\ Nodes' = Nodes
      BY <2>1, <2>5, <3>1 DEF Nodes
    <3>3. ASSUME NEW j \in FirstCalls PROVE nodes'[Cardinality(Before(j)')].key = keys'[j]
      <4>1. Before(j)' = Before(j)
        BY <3>2 DEF Before
      <4> QED BY <2>1, <2>2, <2>3, <2>5, <4>1
    <3>4. KeysListed'
      BY <2>3, <2>5, <3>2, <3>3 DEF KeysListed, Before
    <3>5. SameKeys'
      <4>1. {keys'[j] : j \in DOMAIN keys'} = {keys[j] : j \in DOMAIN keys} \cup {k}
        BY <2>1
      <4> QED BY <2>3, <2>5, <3>2, <4>1 DEF SameKeys
    <3> QED BY <3>4, <3>5
  <2> QED BY <1>1, <1>2, <2>4, <2>5, InsertCases
<1>3. CASE ~\E k \in Keys, v \in Values : Insert(k, v)
  <2>1. UNCHANGED <<nodes, keys>>
    BY <1>3 DEF Next, vars, Search, SearchEmpty, Destroy, Crash
  <2>2. Nodes' = Nodes /\ FirstCalls' = FirstCalls
    BY <2>1 DEF Nodes, FirstCalls
  <2>3. SameKeys' /\ KeysListed'
    BY <2>1, <2>2 DEF KeysInv, SameKeys, KeysListed
  <2> QED BY <1>1, <2>3 DEF KeysInv
<1> QED BY <1>1, <1>2, <1>3 DEF KeysInv

LEMMA AlwaysKeys == Spec => []KeysInv
<1>1. Init => KeysInv
  <2> SUFFICES ASSUME Init PROVE SameKeys /\ KeysListed
    BY InitTree DEF KeysInv
  <2>1. Len(nodes) = 0 /\ Len(keys) = 0 /\ keys \in Seq(Keys)
    BY EmptySeq DEF Init
  <2>2. Nodes = {} /\ DOMAIN keys = {} /\ FirstCalls = {}
    BY <2>1, LenProperties DEF Nodes, FirstCalls
  <2> QED BY <2>1, <2>2, FS_EmptySet DEF SameKeys, KeysListed
<1>2. KeysInv /\ [Next]_vars => KeysInv'
  BY KeysStep
<1> QED BY <1>1, <1>2, PTL DEF Spec

\* The list of keys has every key of the tree, in the order they came first.
THEOREM ListsKeys == Spec => []KeysListed
<1>1. KeysInv => KeysListed
  BY DEF KeysInv
<1> QED BY <1>1, AlwaysKeys, PTL

----------------------------------------------------------------------------
\* The dictionary is a map

\* A map with the keys of the nodes and their values.
MapOfNodes ==
    /\ Stored = [k \in {nodes[n].key : n \in Nodes} |-> Stored[k]]
    /\ DOMAIN Stored = {nodes[n].key : n \in Nodes}
    /\ \A n \in Nodes : Stored[nodes[n].key] = nodes[n].value

LEMMA StoredIs == TreeInv => MapOfNodes
<1> SUFFICES ASSUME TreeInv PROVE MapOfNodes
  OBVIOUS
<1>1. Subtree(head) = Nodes
  BY DEF TreeInv, AllUnder
<1> DEFINE D == {nodes[n].key : n \in Nodes}
           at(k) == CHOOSE n \in Nodes : nodes[n].key = k
<1>2. Stored = [k \in D |-> nodes[at(k)].value]
  BY <1>1 DEF Stored
<1>3. ASSUME NEW n \in Nodes PROVE at(nodes[n].key) = n
  <2>1. at(nodes[n].key) \in Nodes /\ nodes[at(nodes[n].key)].key = nodes[n].key
    OBVIOUS
  <2> HIDE DEF at
  <2> QED BY <2>1 DEF TreeInv, UniqueKeys
<1> HIDE DEF at
<1> QED BY <1>2, <1>3 DEF MapOfNodes

LEMMA MapInit == Init => Map!Init
<1> SUFFICES ASSUME Init PROVE Map!Init
  OBVIOUS
<1>1. TreeInv /\ Len(nodes) = 0
  BY InitTree, EmptySeq DEF Init
<1>2. Nodes = {}
  BY <1>1 DEF Nodes
<1>3. Stored = [k \in {} |-> Stored[k]]
  BY <1>1, <1>2, StoredIs DEF MapOfNodes
<1>4. Stored = <<>>
  BY <1>3
<1> QED BY <1>4 DEF Map!Init, Init

LEMMA MapInsert ==
    ASSUME TreeInv, TreeInv', NEW k \in Keys, NEW v \in Values, Insert(k, v)
    PROVE  Map!Insert(k, v)
<1> DEFINE D == {nodes[n].key : n \in Nodes}
           E == {nodes'[n].key : n \in Nodes'}
<1>1. /\ Stored = [x \in D |-> Stored[x]]
      /\ DOMAIN Stored = D
      /\ \A n \in Nodes : Stored[nodes[n].key] = nodes[n].value
  BY StoredIs DEF MapOfNodes
<1>2. (TreeInv => MapOfNodes)'
  BY StoredIs, PTL
<1>3. /\ Stored' = [x \in E |-> Stored'[x]]
      /\ \A n \in Nodes' : Stored'[nodes'[n].key] = nodes'[n].value
  BY <1>2 DEF MapOfNodes
<1> DEFINE goal == [x \in D \cup {k} |-> IF x \in D THEN Stored[x] ELSE v]
<1>4. Stored' = goal
  <2>1. CASE \E c, side : New(c, side, k, v)
    <3>1. PICK c, side : New(c, side, k, v)
      BY <2>1
    <3>2. Nodes' = Nodes \cup {Len(nodes) + 1}
      BY <3>1, NewNodes DEF TreeInv
    <3>3. /\ \A p \in Nodes : /\ nodes'[p].key = nodes[p].key /\ nodes'[p].value = nodes[p].value
                              /\ nodes[p].key # k
          /\ nodes'[Len(nodes) + 1].key = k /\ nodes'[Len(nodes) + 1].value = v
      BY <3>1 DEF New, Grown, NewNode
    <3>4. E = D \cup {k} /\ k \notin D
      BY <3>2, <3>3
    <3>5. ASSUME NEW x \in E PROVE Stored'[x] = IF x \in D THEN Stored[x] ELSE v
      <4>1. CASE x \in D
        <5>1. PICK n \in Nodes : x = nodes[n].key
          BY <4>1
        <5> QED BY <1>1, <1>3, <3>2, <3>3, <4>1, <5>1
      <4>2. CASE x \notin D
        BY <1>3, <3>2, <3>3, <3>4, <4>2
      <4> QED BY <4>1, <4>2
    <3> HIDE DEF D, E
    <3> QED BY <1>3, <3>4, <3>5
  <2>2. CASE nodes' = nodes /\ \E m \in Nodes : nodes[m].key = k
    <3>1. E = D /\ D \cup {k} = D
      BY <2>2 DEF Nodes
    <3>2. \A x \in D : Stored'[x] = Stored[x]
      BY <1>1, <1>3, <2>2 DEF Nodes
    <3> HIDE DEF D, E
    <3> QED BY <1>3, <3>1, <3>2
  <2> QED BY <2>1, <2>2, InsertCases
<1>5. Stored' = [x \in DOMAIN Stored \cup {k} |-> IF x \in DOMAIN Stored THEN Stored[x] ELSE v]
  BY <1>1, <1>4
<1>6. call' = <<k, v>> /\ result' = result
  BY DEF Insert
<1> QED BY <1>5, <1>6 DEF Map!Insert

LEMMA MapSearch ==
    ASSUME TreeInv, TreeInv', NEW k \in Keys, Search(k)
    PROVE  Map!Search(k) /\ Stored' = Stored
<1> DEFINE D == {nodes[n].key : n \in Nodes}
<1>1. DOMAIN Stored = D /\ \A n \in Nodes : Stored[nodes[n].key] = nodes[n].value
  BY StoredIs DEF MapOfNodes
<1>2. nodes' = nodes /\ head' = head /\ head # None
  BY DEF Search
<1>3. Stored' = Stored
  BY <1>2 DEF Stored, Subtree, Nodes
<1>4. PICK c : c = Iterate(k)
  OBVIOUS
<1>5. c \in Nodes /\ \A m \in Nodes : nodes[m].key = k => m = c
  BY <1>2, <1>4, SearchEnds
<1>6. Direction(c, k) = 0 <=> nodes[c].key = k
  BY <1>5, Turns DEF TreeInv
<1>7. k \in D <=> nodes[c].key = k
  BY <1>5
<1>8. SearchBst(k) = IF Direction(c, k) = 0 THEN nodes[c].value ELSE NULL
  BY <1>4 DEF SearchBst
<1>9. result' = IF k \in DOMAIN Stored THEN Stored[k] ELSE NULL
  <2>1. result' = SearchBst(k)
    BY DEF Search
  <2>2. CASE nodes[c].key = k
    <3>1. Stored[k] = nodes[c].value
      BY <1>1, <1>5, <2>2
    <3> HIDE DEF D
    <3> QED BY <1>1, <1>6, <1>7, <1>8, <2>1, <2>2, <3>1
  <2>3. CASE nodes[c].key # k
    <3> HIDE DEF D
    <3> QED BY <1>1, <1>6, <1>7, <1>8, <2>1, <2>3
  <2> QED BY <2>2, <2>3
<1>10. DOMAIN Stored # {}
  BY <1>1, <1>5
<1>11. call' = <<k>>
  BY DEF Search
<1> QED BY <1>3, <1>9, <1>10, <1>11 DEF Map!Search

\* The dictionary over the tree is the map: the first value of a key stays, and
\* a search answers it or NULL; a crash is the end of its steps.
THEOREM DictionaryIsMap == Spec => ImplementsMap
<1>1. TreeInv /\ TreeInv' /\ [Next]_vars => [Map!Next]_(Map!mapvars)
  <2> SUFFICES ASSUME TreeInv, TreeInv', [Next]_vars PROVE [Map!Next]_(Map!mapvars)
    OBVIOUS
  <2>1. ASSUME NEW k \in Keys, NEW v \in Values, Insert(k, v) PROVE Map!Next
    BY <2>1, MapInsert DEF Map!Next
  <2>2. ASSUME NEW k \in Keys, Search(k) PROVE Map!Next
    BY <2>2, MapSearch DEF Map!Next
  <2>3. CASE SearchEmpty \/ Destroy \/ UNCHANGED vars
    <3>1. UNCHANGED <<nodes, head, call, result>>
      BY <2>3 DEF SearchEmpty, Destroy, Crash, vars
    <3>2. Stored' = Stored
      BY <3>1 DEF Stored, Subtree, Nodes
    <3> QED BY <3>1, <3>2 DEF Map!mapvars
  <2> QED BY <2>1, <2>2, <2>3 DEF Next
<1>2. Init => Map!Init
  BY MapInit
<1> QED BY <1>1, <1>2, AlwaysTree, PTL DEF Spec, ImplementsMap, Map!Spec
=============================================================================
