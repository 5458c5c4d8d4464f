----------------------------- MODULE Dict_proofs -----------------------------
(***************************************************************************)
(* Theorems about Dict, for every set of keys, number of lists, hash       *)
(* function and number of nodes: the lists stay sound, the iterator never  *)
(* comes to a freed node, and every step is one SymbolTable allows.        *)
(*                                                                         *)
(* The lists are described by a function c that gives the nodes of each    *)
(* list in their order, and l, the number of them.  The lemmas take the    *)
(* table and the heap as parameters, so that they can be used before and   *)
(* after a step.                                                           *)
(***************************************************************************)
EXTENDS Dict, FiniteSetTheorems, WellFoundedInduction, TLAPS

Heap  == [Nodes -> NodeT \cup {FREED, LEAKED}]
Heads == [Lists -> Nodes \cup {NULL}]

LiveIn(h, p) == p # NULL /\ h[p] \notin {FREED, LEAKED}
NextIn(h, p) == IF LiveIn(h, p) THEN h[p].next ELSE NULL
ChainIn(h, p) ==
  LET walk[n \in 1 .. NumNodes] == IF n = 1 THEN p ELSE NextIn(h, walk[n - 1])
  IN  [n \in {m \in 1 .. NumNodes : walk[m] # NULL} |-> walk[n]]

(***************************************************************************)
(* The n nodes s are what the pointer p leads to: each is allocated and    *)
(* points to the next one, the last to nothing, and none comes twice.      *)
(***************************************************************************)
IsChain(h, p, n, s) ==
  /\ n \in Nat
  /\ s \in [1 .. n -> Nodes]
  /\ p = IF n = 0 THEN NULL ELSE s[1]
  /\ \A m \in 1 .. n : /\ LiveIn(h, s[m])
                       /\ h[s[m]].next = IF m < n THEN s[m + 1] ELSE NULL
  /\ \A m1, m2 \in 1 .. n : s[m1] = s[m2] => m1 = m2

(***************************************************************************)
(* The lists c from the heads d hold every allocated node, each key in its *)
(* own list and only once.                                                 *)
(***************************************************************************)
Sound(d, h, l, c) ==
  /\ \A j \in Lists : IsChain(h, d[j], l[j], c[j])
  /\ \A j \in Lists : \A m \in 1 .. l[j] : Hash[h[c[j][m]].key] = j
  /\ \A p \in Nodes : LiveIn(h, p) => \E j \in Lists : \E m \in 1 .. l[j] : p = c[j][m]
  /\ \A p, q \in Nodes :
       LiveIn(h, p) /\ LiveIn(h, q) /\ h[p].key = h[q].key => p = q

-----------------------------------------------------------------------------
(***************************************************************************)
(* Induction is by the least counterexample.                               *)
(***************************************************************************)
LEMMA LeastNatural ==
  ASSUME NEW S \in SUBSET Nat, S # {}
  PROVE  \E m \in S : \A n \in S : m <= n
<1>1. PICK m \in S : \A n \in S : ~ (<<n, m>> \in OpToRel(<, Nat))
  BY NatLessThanWellFounded, WFMin
<1>2. \A n \in S : ~ (n < m)
  BY <1>1 DEF OpToRel
<1>3. \A n \in S : n \in Nat
  OBVIOUS
<1> QED
  BY <1>2, <1>3

(* Nodes that are all different are no more than there are nodes. *)
LEMMA ChainFits ==
  ASSUME NEW h, NEW p, NEW n, NEW s, IsChain(h, p, n, s)
  PROVE  n <= NumNodes /\ NumNodes \in Nat
<1>1. n \in Nat /\ s \in [1 .. n -> Nodes] /\ \A a, b \in 1 .. n : s[a] = s[b] => a = b
  BY DEF IsChain
<1>2. IsFiniteSet(Nodes)
  BY DictAssumption
<1>3. IsFiniteSet(1 .. n) /\ Cardinality(1 .. n) = n
  BY <1>1, FS_Interval
<1>4. Cardinality(1 .. n) <= Cardinality(Nodes)
  <2>1. s \in Injection(1 .. n, Nodes)
    BY <1>1 DEF Injection, IsInjective
  <2> QED
    BY <1>2, <2>1, FS_Injection
<1> QED
  BY <1>2, <1>3, <1>4, FS_CardinalityType DEF NumNodes

(***************************************************************************)
(* Chain walks along the nodes p leads to, and finds all of them.          *)
(***************************************************************************)
LEMMA ChainIs ==
  ASSUME NEW h, NEW p, NEW n, NEW s, IsChain(h, p, n, s)
  PROVE  ChainIn(h, p) = s
<1> DEFINE N    == NumNodes
           W    == [m \in 1 .. N |-> IF m <= n THEN s[m] ELSE NULL]
           walk == CHOOSE f : f = [m \in 1 .. N |-> IF m = 1 THEN p ELSE NextIn(h, f[m - 1])]
<1>1. /\ n \in Nat /\ N \in Nat /\ n <= N
      /\ s \in [1 .. n -> Nodes]
      /\ \A m \in 1 .. n : s[m] # NULL
  <2>1. n <= N /\ N \in Nat
    BY ChainFits
  <2> QED
    BY <2>1 DEF IsChain, LiveIn
<1>2. \A m \in 1 .. N : W[m] = IF m = 1 THEN p ELSE NextIn(h, W[m - 1])
  <2> SUFFICES ASSUME NEW m \in 1 .. N
               PROVE  W[m] = IF m = 1 THEN p ELSE NextIn(h, W[m - 1])
    OBVIOUS
  <2>1. CASE m = 1
    BY <1>1, <2>1 DEF IsChain
  <2>2. CASE m # 1
    <3>1. m - 1 \in 1 .. N
      BY <1>1, <2>2
    <3>2. CASE m - 1 <= n
      <4>1. W[m - 1] = s[m - 1] /\ m - 1 \in 1 .. n
        BY <1>1, <3>1, <3>2
      <4>2. NextIn(h, s[m - 1]) = IF m - 1 < n THEN s[m] ELSE NULL
        BY <1>1, <4>1 DEF IsChain, NextIn
      <4> QED
        BY <1>1, <2>2, <4>1, <4>2
    <3>3. CASE ~(m - 1 <= n)
      BY <1>1, <2>2, <3>1, <3>3 DEF NextIn, LiveIn
    <3> QED
      BY <3>2, <3>3
  <2> QED
    BY <2>1, <2>2
<1>3. walk = [m \in 1 .. N |-> IF m = 1 THEN p ELSE NextIn(h, walk[m - 1])]
  <2>1. W = [m \in 1 .. N |-> IF m = 1 THEN p ELSE NextIn(h, W[m - 1])]
    BY <1>2
  <2> QED
    BY <2>1
<1>4. \A m \in 1 .. N : walk[m] = W[m]
  <2> DEFINE S == {m \in 1 .. N : walk[m] # W[m]}
  <2> HIDE DEF walk, W
  <2> SUFFICES ASSUME S # {} PROVE FALSE
    OBVIOUS
  <2>1. PICK m \in S : \A x \in S : m <= x
    <3>1. S \in SUBSET Nat
      BY <1>1
    <3> HIDE DEF S
    <3> QED
      BY <3>1, LeastNatural
  <2>2. m \in 1 .. N /\ walk[m] = IF m = 1 THEN p ELSE NextIn(h, walk[m - 1])
    BY <1>3, <2>1
  <2>3. m # 1 => walk[m - 1] = W[m - 1]
    BY <1>1, <2>1
  <2> QED
    BY <1>2, <2>1, <2>2, <2>3
<1>5. ChainIn(h, p) = [m \in {x \in 1 .. N : walk[x] # NULL} |-> walk[m]]
  BY DEF ChainIn
<1>6. {x \in 1 .. N : walk[x] # NULL} = 1 .. n
  BY <1>1, <1>4
<1> QED
  BY <1>1, <1>4, <1>5, <1>6

LEMMA ListsHold ==
  ASSUME NEW h, NEW d, NEW l, NEW c, Sound(d, h, l, c), NEW j \in Lists
  PROVE  /\ l[j] \in Nat /\ c[j] \in [1 .. l[j] -> Nodes]
         /\ d[j] = IF l[j] = 0 THEN NULL ELSE c[j][1]
         /\ \A m \in 1 .. l[j] : /\ c[j][m] \in Nodes /\ LiveIn(h, c[j][m])
                                 /\ Hash[h[c[j][m]].key] = j
                                 /\ h[c[j][m]].next = IF m < l[j] THEN c[j][m + 1] ELSE NULL
         /\ ChainIn(h, d[j]) = c[j]
<1>1. IsChain(h, d[j], l[j], c[j])
  BY DEF Sound
<1>2. ChainIn(h, d[j]) = c[j]
  BY <1>1, ChainIs
<1>3. \A m \in 1 .. l[j] : Hash[h[c[j][m]].key] = j
  BY DEF Sound
<1>4. \A m \in 1 .. l[j] : c[j][m] \in Nodes
  BY <1>1 DEF IsChain
<1> QED
  BY <1>1, <1>2, <1>3, <1>4 DEF IsChain

(* A node is in one place of one list. *)
LEMMA OnePlace ==
  ASSUME NEW h, NEW d, NEW l, NEW c, Sound(d, h, l, c),
         NEW j1 \in Lists, NEW j2 \in Lists, NEW m1 \in 1 .. l[j1], NEW m2 \in 1 .. l[j2],
         c[j1][m1] = c[j2][m2]
  PROVE  j1 = j2 /\ m1 = m2
<1>1. j1 = j2
  BY DEF Sound
<1> QED
  BY <1>1 DEF Sound, IsChain

(* What an allocated node holds. *)
LEMMA LiveNode ==
  ASSUME NEW h \in Heap, NEW p, p \in Nodes, LiveIn(h, p)
  PROVE  /\ h[p] \in NodeT
         /\ h[p].next \in Nodes \cup {NULL} /\ h[p].key \in Keys /\ h[p].val \in Values
         /\ Hash[h[p].key] \in Lists
<1>1. h[p] \in NodeT
  BY DEF Heap, LiveIn
<1> QED
  BY <1>1, DictAssumption DEF NodeT, Lists

-----------------------------------------------------------------------------
(***************************************************************************)
(* What the operations do to the lists.                                    *)
(***************************************************************************)

(* The lists depend on which nodes are allocated, their successors and keys. *)
LEMMA SoundKept ==
  ASSUME NEW h, NEW d, NEW l, NEW c, Sound(d, h, l, c), NEW g,
         \A p \in Nodes : /\ LiveIn(g, p) <=> LiveIn(h, p)
                          /\ LiveIn(h, p) => g[p].next = h[p].next /\ g[p].key = h[p].key
  PROVE  Sound(d, g, l, c)
<1>1. ASSUME NEW j \in Lists PROVE IsChain(g, d[j], l[j], c[j])
  <2>1. IsChain(h, d[j], l[j], c[j])
    BY DEF Sound
  <2>2. \A m \in 1 .. l[j] : c[j][m] \in Nodes /\ LiveIn(h, c[j][m])
    BY ListsHold
  <2>3. \A m \in 1 .. l[j] : LiveIn(g, c[j][m]) /\ g[c[j][m]].next = h[c[j][m]].next
    BY <2>2
  <2> QED
    BY <2>1, <2>3 DEF IsChain
<1>2. ASSUME NEW j \in Lists, NEW m \in 1 .. l[j] PROVE Hash[g[c[j][m]].key] = j
  BY ListsHold
<1>3. \A p \in Nodes : LiveIn(g, p) => \E j \in Lists : \E m \in 1 .. l[j] : p = c[j][m]
  BY DEF Sound
<1>4. \A p, q \in Nodes : LiveIn(g, p) /\ LiveIn(g, q) /\ g[p].key = g[q].key => p = q
  BY DEF Sound
<1> QED
  BY <1>1, <1>2, <1>3, <1>4 DEF Sound

(* Another value in a node that is allocated changes no list. *)
WithValue(h, q, v) == [h EXCEPT ![q].val = v]

LEMMA SoundUpdate ==
  ASSUME NEW h \in Heap, NEW d, NEW l, NEW c, Sound(d, h, l, c),
         NEW q \in Nodes, LiveIn(h, q), NEW v \in Values,
         NEW g, g = WithValue(h, q, v)
  PROVE  /\ g \in Heap
         /\ Sound(d, g, l, c)
         /\ \A p \in Nodes : /\ LiveIn(g, p) <=> LiveIn(h, p)
                             /\ LiveIn(h, p) => /\ g[p].next = h[p].next /\ g[p].key = h[p].key
                                                /\ g[p].val = IF p = q THEN v ELSE h[p].val
<1>1. h[q] \in NodeT
  BY LiveNode
<1>2. g[q] = [h[q] EXCEPT !.val = v] /\ g[q] \in NodeT /\ \A p \in Nodes : p # q => g[p] = h[p]
  BY <1>1 DEF Heap, NodeT, WithValue
<1>3. g[q].next = h[q].next /\ g[q].key = h[q].key /\ g[q].val = v
  BY <1>1, <1>2 DEF NodeT
<1>4. \A p \in Nodes : LiveIn(g, p) <=> LiveIn(h, p)
  BY <1>2, DictAssumption DEF LiveIn
<1>5. \A p \in Nodes : LiveIn(h, p) => /\ g[p].next = h[p].next /\ g[p].key = h[p].key
                                       /\ g[p].val = IF p = q THEN v ELSE h[p].val
  BY <1>2, <1>3
<1>7. Sound(d, g, l, c)
  BY <1>4, <1>5, SoundKept
<1>8. g \in Heap
  BY <1>2 DEF Heap, WithValue
<1> QED
  BY <1>4, <1>5, <1>7, <1>8

(* Nothing is allocated or freed by a node that is lost. *)
Leak(h, q) == [h EXCEPT ![q] = LEAKED]

LEMMA SoundLeak ==
  ASSUME NEW h \in Heap, NEW d, NEW l, NEW c, Sound(d, h, l, c),
         NEW q \in Nodes, h[q] = FREED, NEW g, g = Leak(h, q)
  PROVE  /\ g \in Heap
         /\ Sound(d, g, l, c)
         /\ \A p \in Nodes : /\ LiveIn(g, p) <=> LiveIn(h, p)
                             /\ LiveIn(h, p) => g[p] = h[p]
<1>1. g \in Heap
  BY DEF Heap, Leak
<1>2. \A p \in Nodes : /\ LiveIn(g, p) <=> LiveIn(h, p)
                       /\ LiveIn(h, p) => g[p] = h[p]
  BY DEF Heap, LiveIn, Leak
<1>4. Sound(d, g, l, c)
  BY <1>2, SoundKept
<1> QED
  BY <1>1, <1>2, <1>4

(* A new node comes to the front of the list of its key. *)
Longer(l, b)        == [j \in Lists |-> IF j = b THEN l[j] + 1 ELSE l[j]]
InFront(l, c, b, p) == [j \in Lists |-> IF j = b
                                          THEN [m \in 1 .. l[b] + 1 |-> IF m = 1 THEN p ELSE c[b][m - 1]]
                                          ELSE c[j]]

WithHead(d, b, p)          == [d EXCEPT ![b] = p]
Allocate(h, p, k, v, next) == [h EXCEPT ![p] = [next |-> next, key |-> k, val |-> v]]

LEMMA SoundInsert ==
  ASSUME NEW h \in Heap, NEW d \in Heads, NEW l, NEW c, Sound(d, h, l, c),
         NEW k \in Keys, NEW v \in Values, NEW p \in Nodes, h[p] = FREED,
         \A q \in Nodes : LiveIn(h, q) => h[q].key # k,
         NEW g, g = Allocate(h, p, k, v, d[Hash[k]]),
         NEW e, e = WithHead(d, Hash[k], p)
  PROVE  /\ g \in Heap /\ e \in Heads
         /\ Sound(e, g, Longer(l, Hash[k]), InFront(l, c, Hash[k], p))
         /\ LiveIn(g, p) /\ g[p].key = k /\ g[p].val = v /\ ~LiveIn(h, p)
         /\ \A q \in Nodes \ {p} : g[q] = h[q] /\ (LiveIn(g, q) <=> LiveIn(h, q))
<1> DEFINE b  == Hash[k]
           l2 == Longer(l, b)
           c2 == InFront(l, c, b, p)
<1>1. b \in Lists
  BY DictAssumption DEF Lists
<1>2. /\ g[p] = [next |-> d[b], key |-> k, val |-> v]
      /\ g[p] \in NodeT
      /\ g[p].next = d[b] /\ g[p].key = k /\ g[p].val = v
      /\ \A q \in Nodes \ {p} : g[q] = h[q]
  BY <1>1 DEF Heap, Heads, NodeT, Allocate
<1>3. g \in Heap /\ e \in Heads
  BY <1>1, <1>2 DEF Heap, Heads, Allocate, WithHead
<1>4. LiveIn(g, p) /\ ~LiveIn(h, p) /\ \A q \in Nodes \ {p} : LiveIn(g, q) <=> LiveIn(h, q)
  BY <1>2, DictAssumption DEF LiveIn
<1>5. /\ e[b] = p /\ \A j \in Lists : j # b => e[j] = d[j]
      /\ \A j \in Lists : j # b => l2[j] = l[j] /\ c2[j] = c[j]
      /\ l2[b] = l[b] + 1
      /\ c2[b] = [m \in 1 .. l[b] + 1 |-> IF m = 1 THEN p ELSE c[b][m - 1]]
  BY <1>1 DEF Longer, InFront, Heads, WithHead
<1>6. \A j \in Lists : \A m \in 1 .. l[j] : c[j][m] \in Nodes \ {p} /\ g[c[j][m]] = h[c[j][m]]
  BY <1>2, <1>4, ListsHold
<1> HIDE DEF b, l2, c2
<1>7. ASSUME NEW j \in Lists, j # b PROVE IsChain(g, e[j], l2[j], c2[j])
  <2>1. IsChain(h, d[j], l[j], c[j])
    BY DEF Sound
  <2>2. \A m \in 1 .. l[j] : LiveIn(g, c[j][m]) /\ g[c[j][m]].next = h[c[j][m]].next
    <3>1. \A m \in 1 .. l[j] : LiveIn(h, c[j][m])
      BY ListsHold
    <3> QED
      BY <1>4, <1>6, <3>1
  <2>3. IsChain(g, d[j], l[j], c[j])
    BY <2>1, <2>2 DEF IsChain
  <2> QED
    BY <1>5, <1>7, <2>3
<1>8. IsChain(g, e[b], l2[b], c2[b])
  <2> DEFINE n == l[b]
             s == c[b]
             t == c2[b]
  <2>1. /\ n \in Nat /\ s \in [1 .. n -> Nodes]
        /\ d[b] = IF n = 0 THEN NULL ELSE s[1]
        /\ \A m1, m2 \in 1 .. n : s[m1] = s[m2] => m1 = m2
    BY <1>1 DEF Sound, IsChain
  <2>2. \A m \in 1 .. n : /\ s[m] \in Nodes \ {p} /\ LiveIn(g, s[m])
                          /\ g[s[m]].next = IF m < n THEN s[m + 1] ELSE NULL
    <3>1. \A m \in 1 .. n : LiveIn(h, s[m]) /\ h[s[m]].next = IF m < n THEN s[m + 1] ELSE NULL
      BY <1>1, ListsHold
    <3> QED
      BY <1>1, <1>4, <1>6, <3>1
  <2>3. t = [m \in 1 .. n + 1 |-> IF m = 1 THEN p ELSE s[m - 1]]
    BY <1>5
  <2> HIDE DEF n, s, t
  <2>4. t \in [1 .. n + 1 -> Nodes] /\ t[1] = p /\ \A m \in 1 .. n : t[m + 1] = s[m]
    BY <2>1, <2>2, <2>3
  <2>5. ASSUME NEW m \in 1 .. n + 1
        PROVE  LiveIn(g, t[m]) /\ g[t[m]].next = IF m < n + 1 THEN t[m + 1] ELSE NULL
    <3>1. CASE m = 1
      <4>1. m < n + 1 => n # 0 /\ t[m + 1] = s[1]
        BY <2>1, <2>4, <3>1
      <4> QED
        BY <1>2, <1>4, <2>1, <2>4, <3>1, <4>1
    <3>2. CASE m # 1
      <4>1. PICK x \in 1 .. n : m = x + 1
        <5>1. m - 1 \in 1 .. n /\ m = (m - 1) + 1
          BY <2>1, <3>2
        <5> QED
          BY <5>1
      <4>2. t[m] = s[x] /\ (m < n + 1 => x < n /\ t[m + 1] = s[x + 1]) /\ (~(m < n + 1) => ~(x < n))
        BY <2>1, <2>4, <4>1
      <4> QED
        BY <2>2, <4>1, <4>2
    <3> QED
      BY <3>1, <3>2
  <2>6. \A m1, m2 \in 1 .. n + 1 : t[m1] = t[m2] => m1 = m2
    BY <2>1, <2>2, <2>3
  <2>7. IsChain(g, p, n + 1, t)
    <3>1. n + 1 \in Nat /\ n + 1 # 0
      BY <2>1
    <3> QED
      BY <2>4, <2>5, <2>6, <3>1 DEF IsChain
  <2> QED
    BY <1>1, <1>5, <2>7 DEF n, t
<1>9. ASSUME NEW j \in Lists, NEW m \in 1 .. l2[j] PROVE Hash[g[c2[j][m]].key] = j
  <2>1. CASE j # b
    BY <1>5, <1>6, <2>1, ListsHold
  <2>2. CASE j = b /\ m = 1
    BY <1>2, <1>5, <2>2, ListsHold DEF b
  <2>3. CASE j = b /\ m # 1
    <3>1. l[b] \in Nat
      BY <1>1, ListsHold
    <3>2. m - 1 \in 1 .. l[b] /\ c2[j][m] = c[b][m - 1]
      BY <1>5, <2>3, <3>1
    <3> QED
      BY <1>1, <1>6, <2>3, <3>2, ListsHold
  <2> QED
    BY <2>1, <2>2, <2>3
<1>10. ASSUME NEW q \in Nodes, LiveIn(g, q)
       PROVE  \E j \in Lists : \E m \in 1 .. l2[j] : q = c2[j][m]
  <2>1. CASE q = p
    <3>1. 1 \in 1 .. l2[b] /\ c2[b][1] = p
      BY <1>1, <1>5, ListsHold
    <3> QED
      BY <1>1, <2>1, <3>1
  <2>2. CASE q # p
    <3>0. PICK j \in Lists : \E m \in 1 .. l[j] : q = c[j][m]
      BY <1>4, <1>10, <2>2 DEF Sound
    <3>1. PICK m \in 1 .. l[j] : q = c[j][m]
      BY <3>0
    <3>2. CASE j = b
      <4>1. m + 1 \in 1 .. l2[b] /\ c2[b][m + 1] = q
        BY <1>1, <1>5, <3>1, <3>2, ListsHold
      <4> QED
        BY <1>1, <4>1
    <3>3. CASE j # b
      BY <1>5, <3>1, <3>3
    <3> QED
      BY <3>2, <3>3
  <2> QED
    BY <2>1, <2>2
<1>11. ASSUME NEW q1 \in Nodes, NEW q2 \in Nodes, LiveIn(g, q1), LiveIn(g, q2),
              g[q1].key = g[q2].key
       PROVE  q1 = q2
  <2>1. CASE q1 = p \/ q2 = p
    <3>1. \A q \in Nodes \ {p} : LiveIn(g, q) => g[q].key # k
      BY <1>2, <1>4
    <3> QED
      BY <1>2, <1>11, <2>1, <3>1
  <2>2. CASE q1 # p /\ q2 # p
    BY <1>2, <1>4, <1>11, <2>2 DEF Sound
  <2> QED
    BY <2>1, <2>2
<1>12. Sound(e, g, l2, c2)
  BY <1>7, <1>8, <1>9, <1>10, <1>11 DEF Sound
<1> QED
  BY <1>2, <1>3, <1>4, <1>12 DEF l2, c2, b

(* The node at place m of a list is taken out of it. *)
Shorter(l, b)       == [j \in Lists |-> IF j = b THEN l[j] - 1 ELSE l[j]]
Without(l, c, b, m) == [j \in Lists |-> IF j = b
                                          THEN [x \in 1 .. l[b] - 1 |-> IF x < m THEN c[b][x] ELSE c[b][x + 1]]
                                          ELSE c[j]]

LEMMA SoundUnlink ==
  ASSUME NEW h \in Heap, NEW d \in Heads, NEW l, NEW c, Sound(d, h, l, c),
         NEW b \in Lists, NEW m \in 1 .. l[b], NEW p, p = c[b][m],
         NEW g, NEW e,
         \/ /\ d[b] = p
            /\ e = [d EXCEPT ![b] = h[p].next]
            /\ g = [h EXCEPT ![p] = FREED]
         \/ \E prev \in Nodes :
              /\ LiveIn(h, prev) /\ h[prev].next = p
              /\ g = [h EXCEPT ![prev].next = h[p].next, ![p] = FREED]
              /\ e = d
  PROVE  /\ g \in Heap /\ e \in Heads
         /\ Sound(e, g, Shorter(l, b), Without(l, c, b, m))
         /\ p \in Nodes /\ LiveIn(h, p) /\ ~LiveIn(g, p)
         /\ \A q \in Nodes \ {p} : /\ LiveIn(g, q) <=> LiveIn(h, q)
                                   /\ LiveIn(h, q) => g[q].key = h[q].key /\ g[q].val = h[q].val
<1> DEFINE n   == l[b]
           s   == c[b]
           aft == IF m < n THEN s[m + 1] ELSE NULL
           l2  == Shorter(l, b)
           c2  == Without(l, c, b, m)
           t   == [x \in 1 .. n - 1 |-> IF x < m THEN s[x] ELSE s[x + 1]]
<1>1. /\ n \in Nat /\ s \in [1 .. n -> Nodes] /\ m \in 1 .. n
      /\ d[b] = s[1]
      /\ \A x \in 1 .. n : /\ s[x] \in Nodes /\ LiveIn(h, s[x])
                           /\ h[s[x]].next = IF x < n THEN s[x + 1] ELSE NULL
      /\ \A x, y \in 1 .. n : s[x] = s[y] => x = y
  <2>1. IsChain(h, d[b], l[b], c[b])
    BY DEF Sound
  <2> QED
    BY <2>1 DEF IsChain
<1>2. p \in Nodes /\ LiveIn(h, p) /\ h[p].next = aft /\ h[p] \in NodeT /\ aft \in Nodes \cup {NULL}
  BY <1>1, LiveNode
<1>3. /\ l2[b] = n - 1 /\ c2[b] = t
      /\ \A j \in Lists : j # b => l2[j] = l[j] /\ c2[j] = c[j]
  BY DEF Shorter, Without
\* What either way of taking it out comes to.
<1>4. /\ g \in Heap /\ e \in Heads
      /\ g[p] = FREED
      /\ e[b] = (IF m = 1 THEN aft ELSE d[b]) /\ \A j \in Lists : j # b => e[j] = d[j]
      /\ \A q \in Nodes \ {p} : /\ LiveIn(g, q) <=> LiveIn(h, q)
                                /\ LiveIn(h, q) =>
                                     /\ g[q].key = h[q].key /\ g[q].val = h[q].val
                                     /\ g[q].next = IF m > 1 /\ q = s[m - 1] THEN aft ELSE h[q].next
  <2>1. CASE d[b] = p /\ e = [d EXCEPT ![b] = h[p].next] /\ g = [h EXCEPT ![p] = FREED]
    <3>1. m = 1
      <4>1. s[1] = s[m] /\ 1 \in 1 .. n
        BY <1>1, <2>1
      <4> QED
        BY <1>1, <4>1
    <3>2. g \in Heap /\ e \in Heads
      BY <1>2, <2>1 DEF Heap, Heads
    <3>3. /\ g[p] = FREED /\ \A q \in Nodes \ {p} : g[q] = h[q]
          /\ e[b] = aft /\ \A j \in Lists : j # b => e[j] = d[j]
      BY <1>2, <2>1 DEF Heap, Heads
    <3> QED
      BY <3>1, <3>2, <3>3 DEF LiveIn
  <2>2. CASE \E prev \in Nodes :
               /\ LiveIn(h, prev) /\ h[prev].next = p
               /\ g = [h EXCEPT ![prev].next = h[p].next, ![p] = FREED]
               /\ e = d
    <3>1. PICK prev \in Nodes :
            /\ LiveIn(h, prev) /\ h[prev].next = p
            /\ g = [h EXCEPT ![prev].next = h[p].next, ![p] = FREED]
            /\ e = d
      BY <2>2
    <3>2. PICK j \in Lists : \E x \in 1 .. l[j] : prev = c[j][x]
      BY <3>1 DEF Sound
    <3>3. PICK x \in 1 .. l[j] : prev = c[j][x]
      BY <3>2
    <3>4. x < l[j] /\ p = c[j][x + 1] /\ l[j] \in Nat
      <4>1. h[prev].next = (IF x < l[j] THEN c[j][x + 1] ELSE NULL) /\ l[j] \in Nat
        BY <3>3, ListsHold
      <4> QED
        BY <1>2, <3>1, <4>1 DEF LiveIn
    <3>5. x + 1 \in 1 .. l[j]
      BY <3>4
    <3>6. j = b /\ x + 1 = m
      <4>1. c[j][x + 1] = c[b][m]
        BY <3>4
      <4> HIDE DEF n, s
      <4> QED
        BY <3>5, <4>1, OnePlace
    <3>7. m > 1 /\ prev = s[m - 1] /\ prev # p
      BY <1>1, <3>3, <3>4, <3>5, <3>6
    <3>8. h[prev] \in NodeT
      BY <3>1, LiveNode
    <3>9. /\ g[p] = FREED
          /\ g[prev] = [h[prev] EXCEPT !.next = aft] /\ g[prev] \in NodeT
          /\ \A q \in Nodes \ {p, prev} : g[q] = h[q]
      BY <1>2, <3>1, <3>7, <3>8 DEF Heap, NodeT
    <3>10. g[prev].key = h[prev].key /\ g[prev].val = h[prev].val /\ g[prev].next = aft
      BY <3>8, <3>9 DEF NodeT
    <3>11. g \in Heap /\ e \in Heads
      BY <3>1, <3>9 DEF Heap
    <3>12. LiveIn(g, prev)
      BY <3>1, <3>9, DictAssumption DEF LiveIn
    <3>13. \A q \in Nodes \ {p} : /\ LiveIn(g, q) <=> LiveIn(h, q)
                                  /\ LiveIn(h, q) =>
                                       /\ g[q].key = h[q].key /\ g[q].val = h[q].val
                                       /\ g[q].next = IF q = prev THEN aft ELSE h[q].next
      <4>1. \A q \in Nodes \ {p, prev} : LiveIn(g, q) <=> LiveIn(h, q)
        BY <3>9 DEF LiveIn
      <4> HIDE DEF n, s, aft
      <4>2. TAKE q \in Nodes \ {p}
      <4>3. CASE q = prev
        BY <3>1, <3>10, <3>12, <4>3
      <4>4. CASE q # prev
        <5>1. g[q] = h[q] /\ (LiveIn(g, q) <=> LiveIn(h, q))
          BY <3>9, <4>1, <4>4
        <5> QED
          BY <4>4, <5>1
      <4> QED
        BY <4>3, <4>4
    <3>14. m > 1 /\ m # 1 /\ \A q : q = prev <=> (m > 1 /\ q = s[m - 1])
      BY <1>1, <3>7
    <3> HIDE DEF n, s, aft
    <3> QED
      BY <3>1, <3>9, <3>11, <3>13, <3>14
  <2> QED
    BY <2>1, <2>2
<1>5. ~LiveIn(g, p)
  BY <1>4 DEF LiveIn
<1>6. ASSUME NEW j \in Lists, j # b PROVE IsChain(g, e[j], l2[j], c2[j])
  <2>1. IsChain(h, d[j], l[j], c[j])
    BY DEF Sound
  <2>2. \A x \in 1 .. l[j] : c[j][x] \in Nodes /\ LiveIn(h, c[j][x])
    BY ListsHold
  <2>3. \A x \in 1 .. l[j] : c[j][x] # p /\ (m > 1 => c[j][x] # s[m - 1])
    <3>1. \A y \in 1 .. n : \A x \in 1 .. l[j] : c[j][x] # c[b][y]
      BY <1>6, OnePlace
    <3> QED
      BY <1>1, <3>1
  <2>4. \A x \in 1 .. l[j] : LiveIn(g, c[j][x]) /\ g[c[j][x]].next = h[c[j][x]].next
    BY <1>4, <2>2, <2>3
  <2>5. IsChain(g, d[j], l[j], c[j])
    BY <2>1, <2>4 DEF IsChain
  <2> QED
    BY <1>3, <1>4, <1>6, <2>5
<1>7. IsChain(g, e[b], l2[b], c2[b])
  <2> HIDE DEF n, s, aft, l2, c2
  <2>1. t \in [1 .. n - 1 -> Nodes] /\ n - 1 \in Nat
    BY <1>1
  <2>2. /\ \A x \in 1 .. n - 1 : t[x] = IF x < m THEN s[x] ELSE s[x + 1]
        /\ \A x \in 1 .. n - 1 : x \in 1 .. n /\ x + 1 \in 1 .. n
    BY <1>1
  <2> HIDE DEF t
  <2>3. e[b] = IF n - 1 = 0 THEN NULL ELSE t[1]
    <3>1. CASE m = 1
      BY <1>1, <1>4, <2>1, <2>2, <3>1 DEF aft
    <3>2. CASE m # 1
      BY <1>1, <1>4, <2>1, <2>2, <3>2
    <3> QED
      BY <3>1, <3>2
  <2>4. ASSUME NEW x \in 1 .. n - 1
        PROVE  LiveIn(g, t[x]) /\ g[t[x]].next = IF x < n - 1 THEN t[x + 1] ELSE NULL
    <3>1. t[x] # p /\ t[x] \in Nodes
      BY <1>1, <2>1, <2>2 DEF s
    <3>2. CASE x < m
      <4>1. t[x] = s[x] /\ h[s[x]].next = s[x + 1] /\ LiveIn(h, t[x])
        BY <1>1, <2>2, <3>2
      <4>2. CASE x = m - 1
        <5>1. g[t[x]].next = aft
          BY <1>1, <1>4, <3>1, <4>1, <4>2
        <5>2. x < n - 1 => t[x + 1] = s[m + 1] /\ m < n
          BY <1>1, <2>2, <4>2
        <5>3. ~(x < n - 1) => ~(m < n)
          BY <1>1, <4>2
        <5> QED
          BY <1>4, <3>1, <4>1, <5>1, <5>2, <5>3 DEF aft
      <4>3. CASE x # m - 1
        <5>1. m > 1 => t[x] # s[m - 1]
          BY <1>1, <2>2, <4>1, <4>3
        <5>2. x < n - 1 /\ t[x + 1] = s[x + 1]
          BY <1>1, <2>2, <3>2, <4>3
        <5> QED
          BY <1>4, <3>1, <4>1, <5>1, <5>2
      <4> QED
        BY <4>2, <4>3
    <3>3. CASE ~(x < m)
      <4>1. /\ t[x] = s[x + 1] /\ LiveIn(h, t[x])
            /\ h[s[x + 1]].next = IF x + 1 < n THEN s[x + 2] ELSE NULL
        BY <1>1, <2>2, <3>3
      <4>2. m > 1 => t[x] # s[m - 1]
        BY <1>1, <2>2, <3>3, <4>1
      <4>3. x < n - 1 => t[x + 1] = s[x + 2]
        <5>1. x < n - 1 => x + 1 \in 1 .. n - 1 /\ ~(x + 1 < m) /\ (x + 1) + 1 = x + 2
          BY <1>1, <3>3
        <5>2. x < n - 1 => t[x + 1] = s[(x + 1) + 1]
          BY <2>2, <5>1
        <5> QED
          BY <5>1, <5>2
      <4> QED
        BY <1>1, <1>4, <3>1, <4>1, <4>2, <4>3
    <3> QED
      BY <3>2, <3>3
  <2>5. \A x, y \in 1 .. n - 1 : t[x] = t[y] => x = y
    BY <1>1, <2>2
  <2>6. IsChain(g, e[b], n - 1, t)
    BY <2>1, <2>3, <2>4, <2>5 DEF IsChain
  <2> QED
    BY <1>3, <2>6
<1>8. ASSUME NEW j \in Lists, NEW x \in 1 .. l2[j]
      PROVE  Hash[g[c2[j][x]].key] = j
  <2>1. \E y \in 1 .. l[j] : c2[j][x] = c[j][y] /\ c[j][y] # p
    <3>1. CASE j # b
      BY <1>3, <3>1, OnePlace
    <3>2. CASE j = b
      <4>1. x \in 1 .. n - 1 /\ c2[j][x] = IF x < m THEN s[x] ELSE s[x + 1]
        BY <1>3, <3>2
      <4>2. CASE x < m
        <5>1. x \in 1 .. n /\ x # m
          BY <1>1, <4>1, <4>2
        <5> QED
          BY <1>1, <3>2, <4>1, <4>2, <5>1
      <4>3. CASE ~(x < m)
        <5>1. x + 1 \in 1 .. n /\ x + 1 # m
          BY <1>1, <4>1, <4>3
        <5> QED
          BY <1>1, <3>2, <4>1, <4>3, <5>1
      <4> QED
        BY <4>2, <4>3
    <3> QED
      BY <3>1, <3>2
  <2>2. PICK y \in 1 .. l[j] : c2[j][x] = c[j][y] /\ c[j][y] # p
    BY <2>1
  <2>3. c[j][y] \in Nodes \ {p} /\ LiveIn(h, c[j][y]) /\ Hash[h[c[j][y]].key] = j
    BY <2>2, ListsHold
  <2> QED
    BY <1>4, <2>2, <2>3
<1>9. ASSUME NEW q \in Nodes, LiveIn(g, q)
      PROVE  \E j \in Lists : \E x \in 1 .. l2[j] : q = c2[j][x]
  <2>1. q # p /\ LiveIn(h, q)
    BY <1>4, <1>5, <1>9
  <2>2. PICK j \in Lists : \E x \in 1 .. l[j] : q = c[j][x]
    BY <2>1 DEF Sound
  <2>3. PICK x \in 1 .. l[j] : q = c[j][x]
    BY <2>2
  <2>4. CASE j # b
    BY <1>3, <2>3, <2>4
  <2>5. CASE j = b
    <3>1. x # m
      BY <2>1, <2>3, <2>5
    <3>2. CASE x < m
      <4>1. x \in 1 .. n - 1 /\ t[x] = q
        BY <1>1, <2>3, <2>5, <3>2
      <4> QED
        BY <1>3, <4>1
    <3>3. CASE x > m
      <4>1. x - 1 \in 1 .. n - 1 /\ t[x - 1] = q
        BY <1>1, <2>3, <2>5, <3>3
      <4> QED
        BY <1>3, <4>1
    <3> QED
      BY <1>1, <2>3, <2>5, <3>1, <3>2, <3>3
  <2> QED
    BY <2>4, <2>5
<1>10. \A q1, q2 \in Nodes : LiveIn(g, q1) /\ LiveIn(g, q2) /\ g[q1].key = g[q2].key => q1 = q2
  BY <1>4, <1>5 DEF Sound
<1>11. Sound(e, g, l2, c2)
  BY <1>6, <1>7, <1>8, <1>9, <1>10 DEF Sound
<1> QED
  BY <1>2, <1>4, <1>5, <1>11

-----------------------------------------------------------------------------
(***************************************************************************)
(* Reading the table.                                                      *)
(***************************************************************************)
ValueIn(h, k) ==
  IF \E p \in Nodes : LiveIn(h, p) /\ h[p].key = k
    THEN h[CHOOSE p \in Nodes : LiveIn(h, p) /\ h[p].key = k].val
    ELSE NULL

LEMMA ValueIs ==
  ASSUME NEW h, NEW d, NEW l, NEW c, Sound(d, h, l, c), NEW k
  PROVE  /\ \A q \in Nodes : LiveIn(h, q) /\ h[q].key = k => ValueIn(h, k) = h[q].val
         /\ (\A q \in Nodes : LiveIn(h, q) => h[q].key # k) => ValueIn(h, k) = NULL
<1>1. ASSUME NEW q \in Nodes, LiveIn(h, q), h[q].key = k
      PROVE  ValueIn(h, k) = h[q].val
  <2> DEFINE r == CHOOSE p \in Nodes : LiveIn(h, p) /\ h[p].key = k
  <2>1. r \in Nodes /\ LiveIn(h, r) /\ h[r].key = k
    BY <1>1
  <2>2. r = q
    BY <1>1, <2>1 DEF Sound
  <2> QED
    BY <1>1, <2>2 DEF ValueIn
<1> QED
  BY <1>1 DEF ValueIn

(* lookup finds the node of a key if there is one. *)
LEMMA LookupFinds ==
  ASSUME TypeOK, NEW l, NEW c, Sound(dict, heap, l, c), NEW k \in Keys
  PROVE  /\ \A q \in Nodes : LiveIn(heap, q) /\ heap[q].key = k => lookup(k) = q
         /\ (\A q \in Nodes : LiveIn(heap, q) => heap[q].key # k) => lookup(k) = NULL
<1> DEFINE b     == Hash[k]
           found == {m \in 1 .. l[b] : heap[c[b][m]].key = k}
<1>1. b \in Lists
  BY DictAssumption DEF Lists
<1>2. Chain(dict[b]) = c[b] /\ DOMAIN c[b] = 1 .. l[b] /\ l[b] \in Nat
  <2>1. Chain(dict[b]) = ChainIn(heap, dict[b])
    BY DEF Chain, ChainIn, NextOf, NextIn, Live, LiveIn
  <2> QED
    BY <1>1, <2>1, ListsHold
<1>3. \A m \in 1 .. l[b] : c[b][m] \in Nodes /\ LiveIn(heap, c[b][m])
  BY <1>1, ListsHold
<1>4. lookup(k) = IF found = {} THEN NULL ELSE c[b][Min(found)]
  <2>1. \A p : Live(p) <=> LiveIn(heap, p)
    BY DEF Live, LiveIn
  <2>2. {n \in 1 .. l[b] : Live(c[b][n]) /\ heap[c[b][n]].key = k} = found
    BY <1>3, <2>1
  <2> HIDE DEF found
  <2> QED
    BY <1>2, <2>2, Zenon DEF lookup
<1>5. ASSUME NEW q \in Nodes, LiveIn(heap, q), heap[q].key = k
      PROVE  lookup(k) = q
  <2>1. PICK j \in Lists : \E m \in 1 .. l[j] : q = c[j][m]
    BY <1>5 DEF Sound
  <2>2. PICK m \in 1 .. l[j] : q = c[j][m]
    BY <2>1
  <2>3. j = b
    BY <1>5, <2>2, ListsHold
  <2>4. \A n \in found : n = m
    <3>1. \A n \in 1 .. l[b] : heap[c[b][n]].key = k => c[b][n] = q
      BY <1>3, <1>5 DEF Sound
    <3> QED
      BY <1>1, <2>2, <2>3, <3>1, OnePlace
  <2>5. found = {m} /\ m \in Nat
    BY <1>2, <1>5, <2>2, <2>3, <2>4
  <2>6. Min({m}) = m
    BY <2>5 DEF Min
  <2> HIDE DEF found, b
  <2>7. lookup(k) = c[b][m]
    BY <1>4, <2>5, <2>6
  <2> QED
    BY <2>2, <2>3, <2>7
<1>6. ASSUME \A q \in Nodes : LiveIn(heap, q) => heap[q].key # k
      PROVE  lookup(k) = NULL
  BY <1>3, <1>4, <1>6
<1> QED
  BY <1>5, <1>6

-----------------------------------------------------------------------------
(***************************************************************************)
(* The iterator.  It goes through the places of the lists in their order:  *)
(* From is what it has not come to when it is at place m of list ix.       *)
(***************************************************************************)
Pointer(l, c, ix, m) == IF m <= l[ix] THEN c[ix][m] ELSE NULL

From(l, c, ix, m) ==
  {q \in Nodes : \E j \in Lists : \E x \in 1 .. l[j] :
                   q = c[j][x] /\ (j > ix \/ (j = ix /\ x >= m))}

IterAt(l, c, ix, cur, nd, S) ==
  \/ nd = NULL /\ cur = NULL /\ ix = DICTSIZE - 1 /\ S = {}
  \/ \E m \in 1 .. l[ix] : /\ nd = c[ix][m] /\ cur = Pointer(l, c, ix, m + 1)
                           /\ S = From(l, c, ix, m)

LEMMA AdvanceVisits ==
  ASSUME NEW h, NEW d \in Heads, NEW l, NEW c, Sound(d, h, l, c),
         NEW ix \in Lists, NEW m \in 1 .. l[ix] + 1,
         NEW p, p = Pointer(l, c, ix, m),
         NEW step, step = Advance(d, h, ix, p)
  PROVE  /\ step.i \in Lists
         /\ IterAt(l, c, step.i, step.current, step.result, From(l, c, ix, m))
<1> DEFINE later == Later(d, ix)
<1>1. l[ix] \in Nat /\ m \in Nat /\ m >= 1 /\ m <= l[ix] + 1 /\ ix \in Nat
      /\ DICTSIZE - 1 \in Lists /\ DICTSIZE \in Nat
  BY ListsHold, DictAssumption DEF Lists
<1>2. CASE m <= l[ix]
  <2>1. p = c[ix][m] /\ p \in Nodes /\ LiveIn(h, p) /\ h[p].next = Pointer(l, c, ix, m + 1)
    <3>1. m \in 1 .. l[ix]
      BY <1>1, <1>2
    <3>2. c[ix][m] \in Nodes /\ LiveIn(h, c[ix][m])
          /\ h[c[ix][m]].next = IF m < l[ix] THEN c[ix][m + 1] ELSE NULL
      BY <3>1, ListsHold
    <3>3. m < l[ix] <=> m + 1 <= l[ix]
      BY <1>1
    <3> QED
      BY <1>2, <3>2, <3>3 DEF Pointer
  <2>2. p # NULL /\ MovedOn(h, p) = h[p].next
    BY <2>1 DEF LiveIn, MovedOn
  <2>3. step = [result |-> p, i |-> ix, current |-> h[p].next]
    BY <2>2 DEF Advance
  <2>4. step.result = p /\ step.i = ix /\ step.current = h[p].next
    BY <2>3
  <2> QED
    BY <1>1, <1>2, <2>1, <2>4 DEF IterAt
<1>3. CASE ~(m <= l[ix])
  <2>1. m = l[ix] + 1 /\ p = NULL
    BY <1>1, <1>3 DEF Pointer
  <2>2. \A j \in Lists : d[j] = NULL <=> l[j] = 0
    BY ListsHold, DictAssumption
  <2>3. \A j \in Lists : \A x \in 1 .. l[j] : ~(j = ix /\ x >= m)
    BY <1>1, <2>1
  <2>4. CASE later = {}
    <3>1. \A j \in Lists : j > ix => l[j] = 0
      BY <2>2, <2>4 DEF Later
    <3>2. From(l, c, ix, m) = {}
      BY <2>3, <3>1 DEF From
    <3>3. step = [result |-> NULL, i |-> DICTSIZE - 1, current |-> NULL]
      BY <2>1, <2>4 DEF Advance, MovedOn
    <3>4. step.result = NULL /\ step.i = DICTSIZE - 1 /\ step.current = NULL
      BY <3>3
    <3> QED
      BY <1>1, <3>2, <3>4 DEF IterAt
  <2>5. CASE later # {}
    <3> DEFINE at == Min(later)
    <3>1. later \in SUBSET Nat
      BY DictAssumption DEF Later, Lists
    <3>2. \E x \in later : \A y \in later : x <= y
      BY <2>5, <3>1, LeastNatural
    <3>3. at \in later /\ \A y \in later : at <= y
      BY <3>2 DEF Min
    <3>4. at \in Lists /\ at > ix /\ d[at] # NULL /\ l[at] \in Nat /\ l[at] # 0 /\ at \in Nat
      BY <2>2, <3>1, <3>3, ListsHold DEF Later
    <3>5. 1 \in 1 .. l[at] /\ d[at] = c[at][1]
      BY <3>4, ListsHold
    <3>6. LiveIn(h, d[at]) /\ h[d[at]].next = Pointer(l, c, at, 2)
      <4>1. LiveIn(h, c[at][1]) /\ h[c[at][1]].next = IF 1 < l[at] THEN c[at][1 + 1] ELSE NULL
        BY <3>4, <3>5, ListsHold
      <4>2. 1 < l[at] <=> 2 <= l[at]
        BY <3>4
      <4> QED
        BY <3>5, <4>1, <4>2 DEF Pointer
    <3>7. step = [result |-> d[at], i |-> at, current |-> h[d[at]].next]
      BY <2>1, <2>5, <3>6 DEF Advance, MovedOn, LiveIn
    <3>8. step.result = d[at] /\ step.i = at /\ step.current = h[d[at]].next
      BY <3>7
    <3>9. From(l, c, ix, m) = From(l, c, at, 1)
      <4>1. \A j \in Lists : j > ix /\ j # at /\ l[j] # 0 => j > at
        <5>1. \A j \in Lists : j > ix /\ l[j] # 0 => j \in later
          BY <2>2 DEF Later
        <5> QED
          BY <3>3, <3>4, <5>1 DEF Lists
      <4>2. \A j \in Lists : \A x \in 1 .. l[j] : j > ix <=> (j > at \/ (j = at /\ x >= 1))
        <5> SUFFICES ASSUME NEW j \in Lists, NEW x \in 1 .. l[j]
                     PROVE  j > ix <=> (j > at \/ (j = at /\ x >= 1))
          OBVIOUS
        <5>1. l[j] # 0 /\ x >= 1 /\ j \in Int
          BY ListsHold DEF Lists
        <5> HIDE DEF at
        <5> QED
          BY <1>1, <3>4, <4>1, <5>1
      <4> HIDE DEF at
      <4> QED
        BY <2>3, <4>2 DEF From
    <3> HIDE DEF at
    <3>10. \E x \in 1 .. l[at] : /\ d[at] = c[at][x] /\ h[d[at]].next = Pointer(l, c, at, x + 1)
                                 /\ From(l, c, ix, m) = From(l, c, at, x)
      BY <3>5, <3>6, <3>9
    <3> QED
      BY <3>4, <3>8, <3>10 DEF IterAt
  <2> QED
    BY <2>4, <2>5
<1> QED
  BY <1>2, <1>3

(* From the next place on, the node at this one is left out. *)
LEMMA FromNext ==
  ASSUME NEW h, NEW d, NEW l, NEW c, Sound(d, h, l, c), NEW ix \in Lists, NEW m \in 1 .. l[ix]
  PROVE  /\ c[ix][m] \in From(l, c, ix, m)
         /\ From(l, c, ix, m + 1) = From(l, c, ix, m) \ {c[ix][m]}
<1>1. /\ c[ix][m] \in Nodes /\ m \in Int /\ m >= m /\ l[ix] \in Nat
      /\ \A x \in 1 .. l[ix] : (x >= m + 1 <=> x >= m /\ x # m)
  BY ListsHold
<1>2. c[ix][m] \in From(l, c, ix, m)
  BY <1>1 DEF From
<1>3. \A j \in Lists : ~(j > j)
  BY DEF Lists
<1>4. \A j \in Lists : \A x \in 1 .. l[j] : c[j][x] = c[ix][m] <=> j = ix /\ x = m
  BY OnePlace
<1>5. \A j \in Lists : \A x \in 1 .. l[j] :
        (j > ix \/ (j = ix /\ x >= m + 1)) <=>
        (j > ix \/ (j = ix /\ x >= m)) /\ c[j][x] # c[ix][m]
  BY <1>1, <1>3, <1>4
<1>6. \A q \in Nodes : q \in From(l, c, ix, m + 1) <=> q \in From(l, c, ix, m) /\ q # c[ix][m]
  BY <1>5 DEF From
<1> QED
  BY <1>2, <1>6 DEF From

(* At the first place everything is still to come. *)
LEMMA FromFirst ==
  ASSUME NEW h, NEW d, NEW l, NEW c, Sound(d, h, l, c)
  PROVE  From(l, c, 0, 1) = {q \in Nodes : LiveIn(h, q)}
<1>1. \A j \in Lists : \A x \in 1 .. l[j] : j > 0 \/ (j = 0 /\ x >= 1)
  BY ListsHold DEF Lists
<1>2. \A q \in Nodes : LiveIn(h, q) <=> \E j \in Lists : \E x \in 1 .. l[j] : q = c[j][x]
  <2>1. \A j \in Lists : \A x \in 1 .. l[j] : LiveIn(h, c[j][x])
    BY ListsHold
  <2> QED
    BY <2>1 DEF Sound
<1> QED
  BY <1>1, <1>2 DEF From

(* Taking out the node at a place moves those behind it one place forward. *)
LEMMA FromWithout ==
  ASSUME NEW h, NEW d, NEW l, NEW c, Sound(d, h, l, c), NEW ix \in Lists, NEW m \in 1 .. l[ix]
  PROVE  LET l2 == Shorter(l, ix)
             c2 == Without(l, c, ix, m)
         IN  /\ m \in 1 .. l2[ix] + 1
             /\ Pointer(l2, c2, ix, m) = Pointer(l, c, ix, m + 1)
             /\ From(l2, c2, ix, m) = From(l, c, ix, m + 1)
<1> DEFINE l2 == Shorter(l, ix)
           c2 == Without(l, c, ix, m)
<1>1. l[ix] \in Nat /\ m \in Nat /\ m >= 1 /\ m <= l[ix]
  BY ListsHold
<1>2. /\ l2[ix] = l[ix] - 1
      /\ c2[ix] = [x \in 1 .. l[ix] - 1 |-> IF x < m THEN c[ix][x] ELSE c[ix][x + 1]]
      /\ \A j \in Lists : j # ix => l2[j] = l[j] /\ c2[j] = c[j]
  BY DEF Shorter, Without
<1> HIDE DEF l2, c2
<1>3. m \in 1 .. l2[ix] + 1
  BY <1>1, <1>2
<1>4. Pointer(l2, c2, ix, m) = Pointer(l, c, ix, m + 1)
  <2>1. m <= l2[ix] <=> m + 1 <= l[ix]
    BY <1>1, <1>2
  <2>2. m <= l2[ix] => m \in 1 .. l[ix] - 1 /\ ~(m < m)
    BY <1>1, <1>2
  <2> QED
    BY <1>2, <2>1, <2>2 DEF Pointer
<1>5. ASSUME NEW q \in Nodes
      PROVE  (\E x \in 1 .. l2[ix] : q = c2[ix][x] /\ x >= m) <=>
             (\E x \in 1 .. l[ix] : q = c[ix][x] /\ x >= m + 1)
  <2>1. ASSUME NEW x \in 1 .. l2[ix], q = c2[ix][x], x >= m
        PROVE  \E y \in 1 .. l[ix] : q = c[ix][y] /\ y >= m + 1
    <3>1. x + 1 \in 1 .. l[ix] /\ x + 1 >= m + 1 /\ q = c[ix][x + 1]
      BY <1>1, <1>2, <2>1
    <3> QED
      BY <3>1
  <2>2. ASSUME NEW x \in 1 .. l[ix], q = c[ix][x], x >= m + 1
        PROVE  \E y \in 1 .. l2[ix] : q = c2[ix][y] /\ y >= m
    <3>1. x - 1 \in 1 .. l2[ix] /\ x - 1 >= m /\ q = c2[ix][x - 1]
      BY <1>1, <1>2, <2>2
    <3> QED
      BY <3>1
  <2> QED
    BY <2>1, <2>2
<1>6. \A j \in Lists : j > ix => l2[j] = l[j] /\ c2[j] = c[j]
  BY <1>2 DEF Lists
<1>7. ASSUME NEW q \in Nodes
      PROVE  (\E j \in Lists : \E x \in 1 .. l2[j] : q = c2[j][x] /\ (j > ix \/ (j = ix /\ x >= m))) <=>
             (\E j \in Lists : \E x \in 1 .. l[j] : q = c[j][x] /\ (j > ix \/ (j = ix /\ x >= m + 1)))
  BY <1>5, <1>6
<1>8. From(l2, c2, ix, m) = From(l, c, ix, m + 1)
  BY <1>7 DEF From
<1> QED
  BY <1>3, <1>4, <1>8 DEF l2, c2

(* Chain, from the middle of a list, finds the rest of it. *)
LEMMA ChainFrom ==
  ASSUME NEW h, NEW d, NEW l, NEW c, Sound(d, h, l, c), NEW j \in Lists, NEW m \in 1 .. l[j] + 1
  PROVE  ChainIn(h, Pointer(l, c, j, m)) = [x \in 1 .. l[j] - m + 1 |-> c[j][x + m - 1]]
<1> DEFINE n == l[j]
           s == c[j]
           k == n - m + 1
           t == [x \in 1 .. k |-> s[x + m - 1]]
<1>1. /\ n \in Nat /\ s \in [1 .. n -> Nodes] /\ m \in 1 .. n + 1
      /\ \A x \in 1 .. n : LiveIn(h, s[x]) /\ h[s[x]].next = IF x < n THEN s[x + 1] ELSE NULL
      /\ \A x, y \in 1 .. n : s[x] = s[y] => x = y
  <2>1. IsChain(h, d[j], l[j], c[j])
    BY DEF Sound
  <2> QED
    BY <2>1 DEF IsChain
<1>2. k \in Nat /\ \A x \in 1 .. k : x + m - 1 \in 1 .. n /\ (x < k <=> x + m - 1 < n)
  BY <1>1
<1>3. t \in [1 .. k -> Nodes]
  BY <1>1, <1>2
<1>4. Pointer(l, c, j, m) = IF k = 0 THEN NULL ELSE t[1]
  <2>1. CASE m = n + 1
    BY <1>1, <2>1 DEF Pointer
  <2>2. CASE m <= n
    <3>1. k # 0 /\ 1 \in 1 .. k /\ 1 + m - 1 = m
      BY <1>1, <2>2
    <3> QED
      BY <2>2, <3>1 DEF Pointer
  <2> QED
    BY <1>1, <2>1, <2>2
<1>5. ASSUME NEW x \in 1 .. k
      PROVE  LiveIn(h, t[x]) /\ h[t[x]].next = IF x < k THEN t[x + 1] ELSE NULL
  <2>1. x + m - 1 \in 1 .. n /\ (x < k <=> x + m - 1 < n) /\ t[x] = s[x + m - 1]
    BY <1>2
  <2>2. x < k => x + 1 \in 1 .. k /\ (x + 1) + m - 1 = (x + m - 1) + 1
    BY <1>1, <1>2
  <2>3. x < k => t[x + 1] = s[(x + m - 1) + 1]
    BY <2>2
  <2> HIDE DEF t, k, s, n
  <2> QED
    BY <1>1, <2>1, <2>3
<1>6. \A x, y \in 1 .. k : t[x] = t[y] => x = y
  <2>1. \A x, y \in 1 .. k : t[x] = t[y] => x + m - 1 = y + m - 1
    BY <1>1, <1>2
  <2>2. TAKE x, y \in 1 .. k
  <2>3. x + m - 1 = y + m - 1 => x = y
    BY <1>1, <1>2
  <2> QED
    BY <2>1, <2>3
<1>7. IsChain(h, Pointer(l, c, j, m), k, t)
  <2> HIDE DEF t, k, s, n
  <2> QED
    BY <1>2, <1>3, <1>4, <1>5, <1>6 DEF IsChain
<1> QED
  BY <1>7, ChainIs

(***************************************************************************)
(* What Dict shows of its iterator as the set of keys still to visit.      *)
(***************************************************************************)
ToVisitIn(d, h, ix, cur, nd) ==
  LET ahead   == UNION {{ChainIn(h, p)[x] : x \in DOMAIN ChainIn(h, p)} :
                          p \in {cur} \cup {d[j] : j \in ix + 1 .. DICTSIZE - 1}}
      reached == {nd} \cup ahead
  IN  {h[p].key : p \in {q \in reached : LiveIn(h, q)}}

LEMMA ToVisitIs ==
  ASSUME NEW h, NEW d, NEW l, NEW c, Sound(d, h, l, c), NEW ix \in Lists, NEW cur, NEW nd, NEW S,
         IterAt(l, c, ix, cur, nd, S)
  PROVE  ToVisitIn(d, h, ix, cur, nd) = {h[q].key : q \in S}
<1> DEFINE Elems(p) == {ChainIn(h, p)[x] : x \in DOMAIN ChainIn(h, p)}
           later    == ix + 1 .. DICTSIZE - 1
           ahead    == UNION {Elems(p) : p \in {cur} \cup {d[j] : j \in later}}
           reached  == {q \in {nd} \cup ahead : LiveIn(h, q)}
<1>1. \A q : q \in ahead <=> q \in Elems(cur) \/ \E j \in later : q \in Elems(d[j])
  <2> HIDE DEF Elems, later
  <2> QED
    OBVIOUS
<1>2. \A j \in Lists : j \in later <=> j > ix
  BY DictAssumption DEF Lists
<1>3. \A j \in later : j \in Lists
  BY DictAssumption DEF Lists
<1>4. \A j \in Lists : \A q : q \in Elems(d[j]) <=> \E x \in 1 .. l[j] : q = c[j][x]
  <2> SUFFICES ASSUME NEW j \in Lists
               PROVE  \A q : q \in Elems(d[j]) <=> \E x \in 1 .. l[j] : q = c[j][x]
    OBVIOUS
  <2>1. ChainIn(h, d[j]) = c[j] /\ DOMAIN c[j] = 1 .. l[j]
    BY ListsHold
  <2> QED
    BY <2>1
<1>5. reached = S
  <2>1. CASE nd = NULL /\ cur = NULL /\ ix = DICTSIZE - 1 /\ S = {}
    <3>1. later = {}
      BY <2>1, DictAssumption
    <3>2. ChainIn(h, NULL) = [x \in 1 .. 0 |-> NULL]
      <4>1. IsChain(h, NULL, 0, [x \in 1 .. 0 |-> NULL])
        BY DEF IsChain
      <4> QED
        BY <4>1, ChainIs
    <3>3. Elems(cur) = {}
      BY <2>1, <3>2
    <3>4. ~LiveIn(h, nd)
      BY <2>1 DEF LiveIn
    <3> HIDE DEF Elems, later, ahead
    <3> QED
      BY <1>1, <2>1, <3>1, <3>3, <3>4
  <2>2. CASE \E m \in 1 .. l[ix] : /\ nd = c[ix][m] /\ cur = Pointer(l, c, ix, m + 1)
                                   /\ S = From(l, c, ix, m)
    <3>1. PICK m \in 1 .. l[ix] : /\ nd = c[ix][m] /\ cur = Pointer(l, c, ix, m + 1)
                                  /\ S = From(l, c, ix, m)
      BY <2>2
    <3>2. l[ix] \in Nat /\ m + 1 \in 1 .. l[ix] + 1
      BY ListsHold
    <3>3. ChainIn(h, cur) = [x \in 1 .. l[ix] - (m + 1) + 1 |-> c[ix][x + (m + 1) - 1]]
      <4>1. \A k \in 1 .. l[ix] + 1 :
              ChainIn(h, Pointer(l, c, ix, k)) = [x \in 1 .. l[ix] - k + 1 |-> c[ix][x + k - 1]]
        BY ChainFrom
      <4> QED
        BY <3>1, <3>2, <4>1
    <3>4. \A q : q \in Elems(cur) <=> \E x \in 1 .. l[ix] : x >= m + 1 /\ q = c[ix][x]
      <4>1. ASSUME NEW x \in 1 .. l[ix] - (m + 1) + 1
            PROVE  x + (m + 1) - 1 \in 1 .. l[ix] /\ x + (m + 1) - 1 >= m + 1
        BY <3>2
      <4>2. ASSUME NEW x \in 1 .. l[ix], x >= m + 1
            PROVE  x - m \in 1 .. l[ix] - (m + 1) + 1 /\ (x - m) + (m + 1) - 1 = x
        BY <3>2, <4>2
      <4> QED
        BY <3>3, <4>1, <4>2
    <3>5. \A q : q \in {nd} \cup Elems(cur) <=> \E x \in 1 .. l[ix] : x >= m /\ q = c[ix][x]
      <4>1. \A x \in 1 .. l[ix] : x >= m <=> x = m \/ x >= m + 1
        BY <3>2
      <4>2. m >= m
        BY <3>2
      <4> HIDE DEF Elems
      <4> QED
        BY <3>1, <3>4, <4>1, <4>2
    <3>6. \A j \in Lists : ~(j > j)
      BY DEF Lists
    <3>7. \A q : q \in {nd} \cup ahead <=>
                   \E j \in Lists : \E x \in 1 .. l[j] : q = c[j][x] /\ (j > ix \/ (j = ix /\ x >= m))
      <4> HIDE DEF Elems, later, ahead
      <4>1. \A q : q \in {nd} \cup ahead <=>
                     \/ \E x \in 1 .. l[ix] : x >= m /\ q = c[ix][x]
                     \/ \E j \in later : q \in Elems(d[j])
        BY <1>1, <3>5
      <4>2. \A q : (\E j \in later : q \in Elems(d[j])) <=>
                     \E j \in Lists : j > ix /\ \E x \in 1 .. l[j] : q = c[j][x]
        BY <1>2, <1>3, <1>4
      <4> QED
        BY <3>6, <4>1, <4>2
    <3>8. \A j \in Lists : \A x \in 1 .. l[j] : c[j][x] \in Nodes /\ LiveIn(h, c[j][x])
      BY ListsHold
    <3> HIDE DEF ahead
    <3> QED
      BY <3>1, <3>7, <3>8 DEF From
  <2> QED
    BY <2>1, <2>2 DEF IterAt
<1>6. ToVisitIn(d, h, ix, cur, nd) = {h[p].key : p \in reached}
  BY DEF ToVisitIn
<1> QED
  BY <1>5, <1>6

-----------------------------------------------------------------------------
(***************************************************************************)
(* The inductive invariant.                                                *)
(***************************************************************************)
DictInv ==
  /\ TypeOK
  /\ pc # "serialize" => address_origin = 0
  /\ \E l, c : /\ Sound(dict, heap, l, c)
               /\ pc # "idle" => \E S : IterAt(l, c, i, current, node, S)

TableIn(h) == [k \in Keys |-> ValueIn(h, k)]

(* The variables of SymbolTable, before and after a step. *)
LEMMA Mapping ==
  /\ Table = TableIn(heap) /\ Table' = TableIn(heap')
  /\ ToVisit = IF pc = "idle" THEN {} ELSE ToVisitIn(dict, heap, i, current, node)
  /\ ToVisit' = IF pc' = "idle" THEN {} ELSE ToVisitIn(dict', heap', i', current', node')
BY DEF Table, TableIn, ValueOf, ValueIn, ToVisit, ToVisitIn, ChainSet, Range, Chain, ChainIn, NextOf,
       NextIn, Live, LiveIn

(* A key whose node is not touched keeps its value. *)
LEMMA SameValue ==
  ASSUME NEW h, NEW d, NEW l, NEW c, Sound(d, h, l, c),
         NEW g, NEW e, NEW l2, NEW c2, Sound(e, g, l2, c2),
         NEW p, NEW k, LiveIn(h, p) => h[p].key # k, LiveIn(g, p) => g[p].key # k,
         \A q \in Nodes \ {p} : /\ LiveIn(g, q) <=> LiveIn(h, q)
                                /\ LiveIn(h, q) => g[q].key = h[q].key /\ g[q].val = h[q].val
  PROVE  ValueIn(g, k) = ValueIn(h, k)
<1>1. CASE \E q \in Nodes : LiveIn(h, q) /\ h[q].key = k
  <2>1. PICK q \in Nodes : LiveIn(h, q) /\ h[q].key = k
    BY <1>1
  <2>2. q # p /\ LiveIn(g, q) /\ g[q].key = k /\ g[q].val = h[q].val
    BY <2>1
  <2>3. ValueIn(h, k) = h[q].val
    BY <2>1, ValueIs
  <2>4. ValueIn(g, k) = g[q].val
    BY <2>2, ValueIs
  <2> QED
    BY <2>2, <2>3, <2>4
<1>2. CASE \A q \in Nodes : LiveIn(h, q) => h[q].key # k
  <2>1. \A q \in Nodes : LiveIn(g, q) => g[q].key # k
    BY <1>2
  <2>2. ValueIn(h, k) = NULL
    BY <1>2, ValueIs
  <2>3. ValueIn(g, k) = NULL
    BY <2>1, ValueIs
  <2> QED
    BY <2>2, <2>3
<1> QED
  BY <1>1, <1>2

(* Changing the node of one key changes the value of that key. *)
LEMMA OneValue ==
  ASSUME NEW h, NEW d, NEW l, NEW c, Sound(d, h, l, c),
         NEW g, NEW e, NEW l2, NEW c2, Sound(e, g, l2, c2),
         NEW p \in Nodes, NEW k \in Keys, NEW w,
         LiveIn(h, p) => h[p].key = k,
         IF LiveIn(g, p) THEN g[p].key = k /\ g[p].val = w
                         ELSE w = NULL /\ LiveIn(h, p),
         \A q \in Nodes \ {p} : /\ LiveIn(g, q) <=> LiveIn(h, q)
                                /\ LiveIn(h, q) => g[q].key = h[q].key /\ g[q].val = h[q].val
  PROVE  TableIn(g) = [TableIn(h) EXCEPT ![k] = w]
<1>1. ASSUME NEW k2 \in Keys, k2 # k PROVE ValueIn(g, k2) = ValueIn(h, k2)
  BY <1>1, SameValue
<1>2. ValueIn(g, k) = w
  <2>1. CASE LiveIn(g, p)
    BY <2>1, ValueIs
  <2>2. CASE ~LiveIn(g, p)
    <3>1. \A q \in Nodes : LiveIn(g, q) => g[q].key # k
      BY <2>2 DEF Sound
    <3> QED
      BY <2>2, <3>1, ValueIs
  <2> QED
    BY <2>1, <2>2
<1> QED
  BY <1>1, <1>2 DEF TableIn

(* The values of the keys, as SymbolTable has them. *)
LEMMA TableType ==
  ASSUME NEW h \in Heap, NEW d, NEW l, NEW c, Sound(d, h, l, c)
  PROVE  \A k \in Keys : /\ TableIn(h)[k] \in Values \cup {NULL}
                         /\ TableIn(h)[k] # NULL <=> \E q \in Nodes : LiveIn(h, q) /\ h[q].key = k
<1> SUFFICES ASSUME NEW k \in Keys
             PROVE  /\ ValueIn(h, k) \in Values \cup {NULL}
                    /\ ValueIn(h, k) # NULL <=> \E q \in Nodes : LiveIn(h, q) /\ h[q].key = k
  BY DEF TableIn
<1>1. CASE \E q \in Nodes : LiveIn(h, q) /\ h[q].key = k
  <2>1. PICK q \in Nodes : LiveIn(h, q) /\ h[q].key = k
    BY <1>1
  <2>2. ValueIn(h, k) = h[q].val /\ h[q].val \in Values
    BY <2>1, ValueIs, LiveNode
  <2> QED
    BY <2>1, <2>2, DictAssumption
<1>2. CASE \A q \in Nodes : LiveIn(h, q) => h[q].key # k
  BY <1>2, ValueIs
<1> QED
  BY <1>1, <1>2

(***************************************************************************)
(* add, with what it does to the lists and to the map.                     *)
(***************************************************************************)
LEMMA AddEffect ==
  ASSUME TypeOK, NEW l, NEW c, Sound(dict, heap, l, c), NEW k \in Keys, NEW v \in Values, add(k, v)
  PROVE  /\ dict' \in Heads /\ heap' \in Heap
         /\ \E l2, c2 : Sound(dict', heap', l2, c2)
         /\ \/ TableIn(heap') = TableIn(heap)
            \/ TableIn(heap') = [TableIn(heap) EXCEPT ![k] = v]
<1>1. heap \in Heap /\ dict \in Heads
  BY DEF TypeOK, Heap, Heads
<1>2. CASE lookup(k) # NULL /\ heap' = Updated(k, v) /\ UNCHANGED dict
  <2>1. PICK q \in Nodes : LiveIn(heap, q) /\ heap[q].key = k
    BY <1>2, LookupFinds
  <2>2. heap' = WithValue(heap, q, v)
    BY <1>2, <2>1, LookupFinds DEF Updated, WithValue
  <2>3. /\ heap' \in Heap
        /\ Sound(dict, heap', l, c)
        /\ \A p \in Nodes : /\ LiveIn(heap', p) <=> LiveIn(heap, p)
                            /\ LiveIn(heap, p) =>
                                 /\ heap'[p].next = heap[p].next /\ heap'[p].key = heap[p].key
                                 /\ heap'[p].val = IF p = q THEN v ELSE heap[p].val
    BY <1>1, <2>1, <2>2, SoundUpdate
  <2>4. TableIn(heap') = [TableIn(heap) EXCEPT ![k] = v]
    BY <2>1, <2>3, OneValue
  <2> QED
    BY <1>1, <1>2, <2>3, <2>4
<1>3. ASSUME lookup(k) = NULL, NEW p \in Nodes, heap[p] = FREED,
             heap' = [heap EXCEPT ![p] = [next |-> dict[Hash[k]], key |-> k, val |-> v]],
             dict' = [dict EXCEPT ![Hash[k]] = p]
      PROVE  /\ dict' \in Heads /\ heap' \in Heap
             /\ \E l2, c2 : Sound(dict', heap', l2, c2)
             /\ TableIn(heap') = [TableIn(heap) EXCEPT ![k] = v]
  <2>1. \A q \in Nodes : LiveIn(heap, q) => heap[q].key # k
    BY <1>3, LookupFinds DEF LiveIn
  <2>0. /\ p \in Nodes /\ heap[p] = FREED
        /\ heap' = Allocate(heap, p, k, v, dict[Hash[k]])
        /\ dict' = WithHead(dict, Hash[k], p)
    BY <1>3 DEF Allocate, WithHead
  <2>2. /\ heap' \in Heap /\ dict' \in Heads
        /\ Sound(dict', heap', Longer(l, Hash[k]), InFront(l, c, Hash[k], p))
        /\ LiveIn(heap', p) /\ heap'[p].key = k /\ heap'[p].val = v /\ ~LiveIn(heap, p)
        /\ \A q \in Nodes \ {p} : heap'[q] = heap[q] /\ (LiveIn(heap', q) <=> LiveIn(heap, q))
    BY <1>1, <2>0, <2>1, SoundInsert
  <2>3. TableIn(heap') = [TableIn(heap) EXCEPT ![k] = v]
    BY <2>2, OneValue
  <2> QED
    BY <2>2, <2>3
<1>4. ASSUME NEW p \in Nodes, heap[p] = FREED, heap' = [heap EXCEPT ![p] = LEAKED], dict' = dict
      PROVE  /\ dict' \in Heads /\ heap' \in Heap
             /\ \E l2, c2 : Sound(dict', heap', l2, c2)
             /\ TableIn(heap') = TableIn(heap)
  <2>0. p \in Nodes /\ heap[p] = FREED /\ heap' = Leak(heap, p)
    BY <1>4 DEF Leak
  <2>1. /\ heap' \in Heap
        /\ Sound(dict, heap', l, c)
        /\ \A q \in Nodes : /\ LiveIn(heap', q) <=> LiveIn(heap, q)
                            /\ LiveIn(heap, q) => heap'[q] = heap[q]
    BY <1>1, <2>0, SoundLeak
  <2>2. ~LiveIn(heap, p) /\ ~LiveIn(heap', p)
    BY <1>4, <2>1 DEF LiveIn
  <2>3. \A k2 \in Keys : ValueIn(heap', k2) = ValueIn(heap, k2)
    BY <2>1, <2>2, SameValue
  <2> QED
    BY <1>1, <1>4, <2>1, <2>3 DEF TableIn
<1> QED
  BY <1>2, <1>3, <1>4 DEF add

(* delete, on the node at place m of list b. *)
LEMMA DeleteEffect ==
  ASSUME TypeOK, NEW l, NEW c, Sound(dict, heap, l, c),
         NEW b \in Lists, NEW m \in 1 .. l[b], NEW k, k = heap[c[b][m]].key, delete(k)
  PROVE  /\ dict' \in Heads /\ heap' \in Heap
         /\ Sound(dict', heap', Shorter(l, b), Without(l, c, b, m))
         /\ k \in Keys
         /\ TableIn(heap') = [TableIn(heap) EXCEPT ![k] = NULL]
         /\ \A q \in Nodes \ {c[b][m]} : LiveIn(heap, q) => heap'[q].key = heap[q].key
<1> DEFINE p == c[b][m]
<1>1. heap \in Heap /\ dict \in Heads
  BY DEF TypeOK, Heap, Heads
<1>2. p \in Nodes /\ LiveIn(heap, p) /\ Hash[k] = b
  BY ListsHold
<1>3. k \in Keys
  BY <1>1, <1>2, LiveNode
<1>4. lookup(k) = p
  BY <1>2, <1>3, LookupFinds
<1>5. \/ /\ dict[b] = p
         /\ dict' = [dict EXCEPT ![b] = heap[p].next]
         /\ heap' = [heap EXCEPT ![p] = FREED]
      \/ \E prev \in Nodes :
           /\ LiveIn(heap, prev) /\ heap[prev].next = p
           /\ heap' = [heap EXCEPT ![prev].next = heap[p].next, ![p] = FREED]
           /\ dict' = dict
  BY <1>2, <1>4 DEF delete, Unlink, Live, LiveIn
<1>6. /\ heap' \in Heap /\ dict' \in Heads
      /\ Sound(dict', heap', Shorter(l, b), Without(l, c, b, m))
      /\ ~LiveIn(heap', p)
      /\ \A q \in Nodes \ {p} : /\ LiveIn(heap', q) <=> LiveIn(heap, q)
                                /\ LiveIn(heap, q) =>
                                     heap'[q].key = heap[q].key /\ heap'[q].val = heap[q].val
  BY <1>1, <1>5, SoundUnlink
<1>7. TableIn(heap') = [TableIn(heap) EXCEPT ![k] = NULL]
  BY <1>2, <1>3, <1>6, OneValue
<1> QED
  BY <1>3, <1>6, <1>7

-----------------------------------------------------------------------------
(***************************************************************************)
(* Every step keeps the invariant and is a step of SymbolTable.            *)
(***************************************************************************)
AbstractStep == [Abstract!SNext]_Abstract!svars

LEMMA AddStep ==
  ASSUME DictInv, NEW k \in Keys, NEW v \in Values, Add(k, v)
  PROVE  DictInv' /\ AbstractStep
<1>1. TypeOK /\ pc = "idle" /\ add(k, v) /\ UNCHANGED <<pc, address_origin, iterVars>>
  BY DEF DictInv, Add
<1>2. PICK l, c : Sound(dict, heap, l, c)
  BY DEF DictInv
<1>3. /\ dict' \in Heads /\ heap' \in Heap
      /\ \E l2, c2 : Sound(dict', heap', l2, c2)
      /\ \/ TableIn(heap') = TableIn(heap)
         \/ TableIn(heap') = [TableIn(heap) EXCEPT ![k] = v]
  BY <1>1, <1>2, AddEffect
<1>4. DictInv'
  BY <1>1, <1>3 DEF DictInv, TypeOK, iterVars, Heads, Heap
<1>5. ToVisit = {} /\ ToVisit' = {} /\ Table = TableIn(heap) /\ Table' = TableIn(heap')
  BY <1>1, Mapping
<1>6. CASE TableIn(heap') = TableIn(heap)
  BY <1>1, <1>4, <1>5, <1>6 DEF AbstractStep, Abstract!svars
<1>7. CASE TableIn(heap') = [TableIn(heap) EXCEPT ![k] = v]
  <2>1. Abstract!Put(k, v)
    BY <1>1, <1>5, <1>7 DEF Abstract!Put
  <2> QED
    BY <1>4, <2>1 DEF AbstractStep, Abstract!SNext, Values, Abstract!Values
<1> QED
  BY <1>3, <1>6, <1>7

(* A key that is found has a place in a list. *)
LEMMA KeyHasPlace ==
  ASSUME TypeOK, NEW l, NEW c, Sound(dict, heap, l, c), NEW k \in Keys, lookup(k) # NULL
  PROVE  \E j \in Lists : \E m \in 1 .. l[j] : heap[c[j][m]].key = k
<1>1. PICK q \in Nodes : LiveIn(heap, q) /\ heap[q].key = k
  BY LookupFinds
<1> QED
  BY <1>1 DEF Sound

LEMMA DeleteStep ==
  ASSUME DictInv, NEW k \in Keys, Delete(k)
  PROVE  DictInv' /\ AbstractStep
<1>1. TypeOK /\ pc = "idle" /\ delete(k) /\ UNCHANGED <<pc, address_origin, iterVars>>
  BY DEF DictInv, Delete
<1>2. PICK l, c : Sound(dict, heap, l, c)
  BY DEF DictInv
<1>3. lookup(k) # NULL
  BY <1>1 DEF delete
<1>4. PICK j \in Lists : \E m \in 1 .. l[j] : heap[c[j][m]].key = k
  BY <1>1, <1>2, <1>3, KeyHasPlace
<1>5. PICK m \in 1 .. l[j] : heap[c[j][m]].key = k
  BY <1>4
<1>6. /\ dict' \in Heads /\ heap' \in Heap
      /\ Sound(dict', heap', Shorter(l, j), Without(l, c, j, m))
      /\ TableIn(heap') = [TableIn(heap) EXCEPT ![k] = NULL]
  BY <1>1, <1>2, <1>5, DeleteEffect
<1>7. DictInv'
  BY <1>1, <1>6 DEF DictInv, TypeOK, iterVars, Heads, Heap
<1>8. ToVisit = {} /\ ToVisit' = {} /\ Table = TableIn(heap) /\ Table' = TableIn(heap')
  BY <1>1, Mapping
<1>9. Abstract!Remove(k)
  BY <1>1, <1>6, <1>8 DEF Abstract!Remove
<1> QED
  BY <1>7, <1>9 DEF AbstractStep, Abstract!SNext

(* The pointers of the iterator are nodes or null. *)
LEMMA IterType ==
  ASSUME NEW h, NEW d, NEW l, NEW c, Sound(d, h, l, c), NEW ix \in Lists, NEW cur, NEW nd, NEW S,
         IterAt(l, c, ix, cur, nd, S)
  PROVE  /\ {cur, nd} \subseteq Nodes \cup {NULL}
         /\ \A p \in {cur, nd} : p # NULL => p \in Nodes /\ LiveIn(h, p)
         /\ nd = NULL => S = {}
<1>1. CASE nd = NULL /\ cur = NULL /\ ix = DICTSIZE - 1 /\ S = {}
  BY <1>1
<1>2. CASE \E m \in 1 .. l[ix] : /\ nd = c[ix][m] /\ cur = Pointer(l, c, ix, m + 1)
                                 /\ S = From(l, c, ix, m)
  <2>1. PICK m \in 1 .. l[ix] : nd = c[ix][m] /\ cur = Pointer(l, c, ix, m + 1)
    BY <1>2
  <2>2. l[ix] \in Nat /\ \A x \in 1 .. l[ix] : c[ix][x] \in Nodes /\ LiveIn(h, c[ix][x])
    BY ListsHold
  <2>3. cur = NULL \/ \E x \in 1 .. l[ix] : cur = c[ix][x]
    BY <2>1, <2>2 DEF Pointer
  <2>4. nd # NULL
    BY <2>1, <2>2, DictAssumption
  <2> QED
    BY <2>1, <2>2, <2>3, <2>4
<1> QED
  BY <1>1, <1>2 DEF IterAt

(***************************************************************************)
(* The beginning of a loop: all keys are still to be visited.              *)
(***************************************************************************)
LEMMA BeginStep ==
  ASSUME DictInv, pc = "idle", pc' \in {"serialize", "initialize"}, Moves(First),
         address_origin' \in (IF pc' = "serialize" THEN Values ELSE {0}), UNCHANGED <<dict, heap>>
  PROVE  DictInv' /\ AbstractStep
<1>1. TypeOK /\ dict \in Heads /\ heap \in Heap
  BY DEF DictInv, TypeOK, Heads, Heap
<1>2. PICK l, c : Sound(dict, heap, l, c)
  BY DEF DictInv
<1>3. 0 \in Lists /\ 1 \in 1 .. l[0] + 1 /\ dict[0] = Pointer(l, c, 0, 1)
  <2>1. 0 \in Lists
    BY DictAssumption DEF Lists
  <2>2. l[0] \in Nat /\ dict[0] = IF l[0] = 0 THEN NULL ELSE c[0][1]
    BY <1>2, <2>1, ListsHold
  <2> QED
    BY <2>1, <2>2 DEF Pointer
<1> DEFINE all == {q \in Nodes : LiveIn(heap, q)}
<1>4. i' \in Lists /\ IterAt(l, c, i', current', node', all)
  <2>1. /\ First.i \in Lists
        /\ IterAt(l, c, First.i, First.current, First.result, From(l, c, 0, 1))
    BY <1>1, <1>2, <1>3, AdvanceVisits DEF First
  <2> QED
    BY <1>2, <2>1, FromFirst DEF Moves
<1>5. DictInv'
  <2>1. {current', node'} \subseteq Nodes \cup {NULL}
    BY <1>2, <1>4, IterType
  <2>2. TypeOK'
    BY <1>1, <1>4, <2>1, DictAssumption DEF TypeOK, Values
  <2> QED
    BY <1>2, <1>4, <2>2 DEF DictInv
<1>6. ToVisit = {} /\ ToVisit' = {heap[q].key : q \in all} /\ Table = TableIn(heap) /\ Table' = Table
  BY <1>2, <1>4, Mapping, ToVisitIs
<1>7. Abstract!Present = {heap[q].key : q \in all}
  BY <1>1, <1>2, <1>6, TableType, LiveNode DEF Abstract!Present
<1>8. Abstract!Begin(pc')
  BY <1>6, <1>7 DEF Abstract!Begin, Values, Abstract!Values
<1> QED
  BY <1>5, <1>8 DEF AbstractStep, Abstract!SNext

(***************************************************************************)
(* The keys left when the iterator has moved on by one.                    *)
(***************************************************************************)
KeysAt(h, S) == {h[q].key : q \in S}

LEMMA KeysLeft ==
  ASSUME NEW h \in Heap, NEW d, NEW l, NEW c, Sound(d, h, l, c), NEW ix \in Lists, NEW m \in 1 .. l[ix],
         NEW g, \A q \in Nodes \ {c[ix][m]} : LiveIn(h, q) => g[q].key = h[q].key
  PROVE  /\ h[c[ix][m]].key \in KeysAt(h, From(l, c, ix, m))
         /\ KeysAt(g, From(l, c, ix, m + 1)) = KeysAt(h, From(l, c, ix, m)) \ {h[c[ix][m]].key}
<1> DEFINE p == c[ix][m]
           A == From(l, c, ix, m)
           B == From(l, c, ix, m + 1)
<1>1. p \in A /\ B = A \ {p}
  BY FromNext
<1>2. \A q \in A : q \in Nodes /\ LiveIn(h, q)
  BY ListsHold DEF From
<1> HIDE DEF A, B
<1>3. \A q \in B : q # p /\ g[q].key = h[q].key /\ h[q].key # h[p].key
  BY <1>1, <1>2 DEF Sound
<1> HIDE DEF p
<1>4. KeysAt(g, B) = KeysAt(h, B)
  BY <1>3 DEF KeysAt
<1>5. KeysAt(h, B) = KeysAt(h, A) \ {h[p].key}
  BY <1>1, <1>3 DEF KeysAt
<1>6. h[p].key \in KeysAt(h, A)
  BY <1>1 DEF KeysAt
<1> QED
  BY <1>4, <1>5, <1>6 DEF A, B, p

LEMMA SerializeStepStep ==
  ASSUME DictInv, SerializeStep
  PROVE  DictInv' /\ AbstractStep
<1>1. /\ TypeOK /\ dict \in Heads /\ heap \in Heap
      /\ pc = "serialize" /\ node # NULL
      /\ add(heap[node].key, Relocated(heap[node].val))
  BY DEF DictInv, SerializeStep, TypeOK, Heads, Heap
<1>2. PICK l, c : Sound(dict, heap, l, c) /\ \E S : IterAt(l, c, i, current, node, S)
  BY <1>1 DEF DictInv
<1>3. PICK S : IterAt(l, c, i, current, node, S)
  BY <1>2
<1>4. i \in Lists
  BY <1>1 DEF TypeOK
<1>5. PICK m \in 1 .. l[i] : /\ node = c[i][m] /\ current = Pointer(l, c, i, m + 1)
                             /\ S = From(l, c, i, m)
  BY <1>1, <1>3 DEF IterAt
<1> DEFINE k == heap[node].key
           v == heap[node].val
           w == Relocated(v)
<1>6. node \in Nodes /\ LiveIn(heap, node) /\ k \in Keys /\ v \in Values /\ w \in Values
  <2>1. node \in Nodes /\ LiveIn(heap, node)
    BY <1>2, <1>4, <1>5, ListsHold
  <2>2. k \in Keys /\ v \in Values
    BY <1>1, <2>1, LiveNode
  <2>3. address_origin \in Values
    BY <1>1 DEF TypeOK
  <2>4. w \in Values
    BY <2>2, <2>3, DictAssumption DEF Relocated, Values
  <2> QED
    BY <2>1, <2>2, <2>4
<1>7. lookup(k) = node /\ node # NULL
  BY <1>1, <1>2, <1>6, LookupFinds
<1>8. heap' = WithValue(heap, node, w) /\ dict' = dict
  BY <1>1, <1>7 DEF add, Updated, WithValue
<1> HIDE DEF k, v, w
<1>9. /\ heap' \in Heap
      /\ Sound(dict, heap', l, c)
      /\ \A p \in Nodes : /\ LiveIn(heap', p) <=> LiveIn(heap, p)
                          /\ LiveIn(heap, p) =>
                               /\ heap'[p].next = heap[p].next /\ heap'[p].key = heap[p].key
                               /\ heap'[p].val = IF p = node THEN w ELSE heap[p].val
  BY <1>1, <1>2, <1>6, <1>8, SoundUpdate
<1>10. TableIn(heap') = [TableIn(heap) EXCEPT ![k] = w] /\ TableIn(heap)[k] = v
  <2>1. heap[node].key = k /\ heap'[node].val = w
    BY <1>6, <1>9 DEF k
  <2>2. TableIn(heap') = [TableIn(heap) EXCEPT ![k] = w]
    BY <1>2, <1>6, <1>9, <2>1, OneValue
  <2>3. ValueIn(heap, k) = heap[node].val
    BY <1>2, <1>6, <2>1, ValueIs
  <2> QED
    BY <1>6, <2>2, <2>3 DEF TableIn, v
<1>11. /\ Table = TableIn(heap) /\ Table' = TableIn(heap')
       /\ ToVisit = {heap[q].key : q \in S}
  BY <1>1, <1>2, <1>3, <1>4, Mapping, ToVisitIs
<1>12. /\ k \in {heap[q].key : q \in S}
       /\ {heap'[q].key : q \in From(l, c, i, m + 1)} = {heap[q].key : q \in S} \ {k}
  <2>1. \A q \in Nodes \ {c[i][m]} : LiveIn(heap, q) => heap'[q].key = heap[q].key
    BY <1>9
  <2>2. heap \in Heap /\ m \in 1 .. l[i]
    BY <1>1, <1>5
  <2>3. /\ heap[c[i][m]].key \in KeysAt(heap, From(l, c, i, m))
        /\ KeysAt(heap', From(l, c, i, m + 1)) =
           KeysAt(heap, From(l, c, i, m)) \ {heap[c[i][m]].key}
    BY <1>2, <1>4, <2>1, <2>2, KeysLeft
  <2> QED
    BY <1>5, <2>3 DEF k, KeysAt
<1>13. w = (Table[k] - 1 + address_origin) % Cardinal
  BY <1>10, <1>11 DEF w, Relocated
<1>14. CASE Moves(Advance(dict', heap', i, current)) /\ UNCHANGED <<pc, address_origin>>
  <2>1. m + 1 \in 1 .. l[i] + 1
    BY <1>2, <1>4, ListsHold
  <2>2. i' \in Lists /\ IterAt(l, c, i', current', node', From(l, c, i, m + 1))
    <3> DEFINE step == Advance(dict, heap', i, current)
    <3>1. step.i \in Lists /\ IterAt(l, c, step.i, step.current, step.result, From(l, c, i, m + 1))
      BY <1>1, <1>4, <1>5, <1>9, <2>1, AdvanceVisits
    <3> QED
      BY <1>8, <1>14, <3>1 DEF Moves
  <2>3. {current', node'} \subseteq Nodes \cup {NULL}
    BY <1>9, <2>2, IterType
  <2>4. TypeOK'
    BY <1>1, <1>8, <1>9, <1>14, <2>2, <2>3 DEF TypeOK, Heap
  <2>5. DictInv'
    BY <1>1, <1>8, <1>9, <1>14, <2>2, <2>4 DEF DictInv
  <2>6. ToVisit' = {heap'[q].key : q \in From(l, c, i, m + 1)}
    BY <1>1, <1>8, <1>9, <1>14, <2>2, Mapping, ToVisitIs
  <2>7. Abstract!Relocate(k)
    BY <1>1, <1>10, <1>11, <1>12, <1>13, <1>14, <2>6 DEF Abstract!Relocate
  <2> QED
    BY <1>6, <2>5, <2>7 DEF AbstractStep, Abstract!SNext
<1>15. CASE pc' = "idle" /\ node' = NULL /\ address_origin' = 0 /\ UNCHANGED <<i, current>>
  <2>1. TypeOK'
    BY <1>1, <1>8, <1>9, <1>15, DictAssumption DEF TypeOK, Heap, Values
  <2>2. DictInv'
    BY <1>8, <1>9, <1>15, <2>1 DEF DictInv
  <2>3. ToVisit' = {}
    BY <1>15, Mapping
  <2>4. Abstract!Relocate(k)
    BY <1>1, <1>10, <1>11, <1>12, <1>13, <1>15, <2>3 DEF Abstract!Relocate, Abstract!End
  <2> QED
    BY <1>6, <2>2, <2>4 DEF AbstractStep, Abstract!SNext
<1> QED
  BY <1>14, <1>15 DEF SerializeStep

LEMMA InitializeStepStep ==
  ASSUME DictInv, InitializeStep
  PROVE  DictInv' /\ AbstractStep
<1>1. /\ TypeOK /\ dict \in Heads /\ heap \in Heap
      /\ pc = "initialize" /\ node # NULL
      /\ delete(heap[node].key)
      /\ Moves(Advance(dict', heap', i, current))
      /\ UNCHANGED <<pc, address_origin>>
  BY DEF DictInv, InitializeStep, TypeOK, Heads, Heap
<1>2. PICK l, c : Sound(dict, heap, l, c) /\ \E S : IterAt(l, c, i, current, node, S)
  BY <1>1 DEF DictInv
<1>3. PICK S : IterAt(l, c, i, current, node, S)
  BY <1>2
<1>4. i \in Lists
  BY <1>1 DEF TypeOK
<1>5. PICK m \in 1 .. l[i] : /\ node = c[i][m] /\ current = Pointer(l, c, i, m + 1)
                             /\ S = From(l, c, i, m)
  BY <1>1, <1>3 DEF IterAt
<1> DEFINE k  == heap[node].key
           l2 == Shorter(l, i)
           c2 == Without(l, c, i, m)
<1>6. /\ dict' \in Heads /\ heap' \in Heap
      /\ Sound(dict', heap', l2, c2)
      /\ k \in Keys
      /\ TableIn(heap') = [TableIn(heap) EXCEPT ![k] = NULL]
      /\ \A q \in Nodes \ {c[i][m]} : LiveIn(heap, q) => heap'[q].key = heap[q].key
  BY <1>1, <1>2, <1>4, <1>5, DeleteEffect
<1>7. /\ m \in 1 .. l2[i] + 1
      /\ Pointer(l2, c2, i, m) = current
      /\ From(l2, c2, i, m) = From(l, c, i, m + 1)
  BY <1>2, <1>4, <1>5, FromWithout
<1>8. /\ k \in {heap[q].key : q \in S}
      /\ {heap'[q].key : q \in From(l, c, i, m + 1)} = {heap[q].key : q \in S} \ {k}
  <2>1. \A q \in Nodes \ {c[i][m]} : LiveIn(heap, q) => heap'[q].key = heap[q].key
    BY <1>6
  <2>2. heap \in Heap /\ m \in 1 .. l[i]
    BY <1>1, <1>5
  <2>3. /\ heap[c[i][m]].key \in KeysAt(heap, From(l, c, i, m))
        /\ KeysAt(heap', From(l, c, i, m + 1)) =
           KeysAt(heap, From(l, c, i, m)) \ {heap[c[i][m]].key}
    BY <1>2, <1>4, <2>1, <2>2, KeysLeft
  <2> QED
    BY <1>5, <2>3 DEF KeysAt
<1> HIDE DEF k, l2, c2
<1>9. i' \in Lists /\ IterAt(l2, c2, i', current', node', From(l, c, i, m + 1))
  <2> DEFINE step == Advance(dict', heap', i, current)
  <2>1. step.i \in Lists /\ IterAt(l2, c2, step.i, step.current, step.result, From(l2, c2, i, m))
    BY <1>4, <1>6, <1>7, AdvanceVisits
  <2> QED
    BY <1>1, <1>7, <2>1 DEF Moves
<1>10. DictInv'
  <2>1. {current', node'} \subseteq Nodes \cup {NULL}
    BY <1>6, <1>9, IterType
  <2>2. TypeOK'
    BY <1>1, <1>6, <1>9, <2>1 DEF TypeOK, Heap, Heads
  <2>3. address_origin' = 0
    BY <1>1 DEF DictInv
  <2> QED
    BY <1>6, <1>9, <2>2, <2>3 DEF DictInv
<1>11. /\ Table = TableIn(heap) /\ Table' = TableIn(heap')
       /\ ToVisit = {heap[q].key : q \in S}
       /\ ToVisit' = {heap'[q].key : q \in From(l, c, i, m + 1)}
  BY <1>1, <1>2, <1>3, <1>4, <1>6, <1>9, Mapping, ToVisitIs
<1>12. Abstract!Clear(k)
  BY <1>1, <1>6, <1>8, <1>11 DEF Abstract!Clear
<1> QED
  BY <1>6, <1>10, <1>12 DEF AbstractStep, Abstract!SNext

LEMMA LoopEndStep ==
  ASSUME DictInv, LoopEnd
  PROVE  DictInv' /\ AbstractStep
<1>1. /\ TypeOK /\ pc # "idle" /\ node = NULL /\ pc' = "idle" /\ address_origin' = 0
      /\ UNCHANGED <<dict, heap, iterVars>>
  BY DEF DictInv, LoopEnd
<1>2. PICK l, c : Sound(dict, heap, l, c) /\ \E S : IterAt(l, c, i, current, node, S)
  BY <1>1 DEF DictInv
<1>3. PICK S : IterAt(l, c, i, current, node, S)
  BY <1>2
<1>4. S = {} /\ i \in Lists
  BY <1>1, <1>2, <1>3, IterType DEF TypeOK
<1>5. ToVisit = {} /\ ToVisit' = {} /\ Table' = Table
  BY <1>1, <1>2, <1>3, <1>4, Mapping, ToVisitIs
<1>6. DictInv'
  BY <1>1, <1>2, DictAssumption DEF DictInv, TypeOK, iterVars, Values
<1>7. Abstract!Finish
  BY <1>1, <1>5 DEF Abstract!Finish, Abstract!End
<1> QED
  BY <1>6, <1>7 DEF AbstractStep, Abstract!SNext

LEMMA InitDict ==
  ASSUME Init
  PROVE  DictInv /\ Abstract!SInit
<1> DEFINE l == [j \in Lists |-> 0]
           c == [j \in Lists |-> [x \in 1 .. 0 |-> NULL]]
<1>1. \A p \in Nodes : ~LiveIn(heap, p)
  BY DEF Init, LiveIn
<1>2. \A j \in Lists : IsChain(heap, dict[j], l[j], c[j])
  BY DEF Init, IsChain
<1>3. Sound(dict, heap, l, c)
  BY <1>1, <1>2 DEF Sound
<1>4. TypeOK
  BY DictAssumption DEF Init, TypeOK, Lists, Values
<1>5. DictInv
  BY <1>3, <1>4 DEF DictInv, Init
<1>6. \A k \in Keys : ValueIn(heap, k) = NULL
  BY <1>1 DEF ValueIn
<1>7. Table = [k \in Keys |-> NULL] /\ ToVisit = {}
  BY <1>6, Mapping DEF TableIn, Init
<1> QED
  BY <1>5, <1>7 DEF Abstract!SInit, Init

LEMMA EveryStep ==
  ASSUME DictInv, [Next]_vars
  PROVE  DictInv' /\ AbstractStep
<1>1. CASE SerializeBegin
  BY <1>1, BeginStep DEF SerializeBegin
<1>2. CASE InitializeBegin
  <2>1. address_origin' = 0
    BY <1>2 DEF InitializeBegin, DictInv
  <2> QED
    BY <1>2, <2>1, BeginStep DEF InitializeBegin
<1>3. CASE UNCHANGED vars
  <2>1. /\ UNCHANGED <<dict, heap, i, current, node, pc, address_origin>>
    BY <1>3 DEF vars, iterVars
  <2>2. DictInv'
    BY <2>1 DEF DictInv, TypeOK
  <2>3. Table' = Table /\ ToVisit' = ToVisit
    BY <2>1, Mapping
  <2> QED
    BY <2>1, <2>2, <2>3 DEF AbstractStep, Abstract!svars
<1> QED
  BY <1>1, <1>2, <1>3, AddStep, DeleteStep, SerializeStepStep, InitializeStepStep, LoopEndStep
     DEF Next, Loop

THEOREM DictInvariance == Spec => []DictInv
<1>1. Init => DictInv
  BY InitDict
<1>2. DictInv /\ [Next]_vars => DictInv'
  BY EveryStep
<1> QED
  BY <1>1, <1>2, PTL DEF Spec

-----------------------------------------------------------------------------
(***************************************************************************)
(* Every pointer is null or the address of a node, and what a relocation   *)
(* leaves in a node is a 16-bit value (dict.c, assembler.c:46).            *)
(***************************************************************************)
THEOREM TypesHold == Spec => []TypeOK
<1>1. DictInv => TypeOK
  BY DEF DictInv
<1> QED
  BY <1>1, DictInvariance, PTL

(***************************************************************************)
(* No sequence of calls, failed ones included, breaks a list: an allocated *)
(* node is in the list of its key, once, and so is found and freed.        *)
(***************************************************************************)
THEOREM ListsStaySound == Spec => []ChainsSound
<1>1. DictInv => ChainsSound
  <2> SUFFICES ASSUME DictInv PROVE ChainsSound
    OBVIOUS
  <2>1. PICK l, c : Sound(dict, heap, l, c)
    BY DEF DictInv
  <2>2. \A p : Live(p) <=> LiveIn(heap, p)
    BY DEF Live, LiveIn
  <2>3. \A j \in Lists : Chain(dict[j]) = c[j] /\ DOMAIN c[j] = 1 .. l[j]
    <3>1. \A p : Chain(p) = ChainIn(heap, p)
      BY DEF Chain, ChainIn, NextOf, NextIn, Live, LiveIn
    <3> QED
      BY <2>1, <3>1, ListsHold
  <2>4. \A p : p \in Linked <=> \E j \in Lists : \E x \in 1 .. l[j] : p = c[j][x]
    <3>1. ASSUME NEW j \in Lists, NEW p
          PROVE  p \in ChainSet(dict[j]) <=> \E x \in 1 .. l[j] : p = c[j][x]
      <4>1. ChainSet(dict[j]) = {c[j][x] : x \in 1 .. l[j]}
        BY <2>3 DEF ChainSet, Range
      <4> QED
        BY <4>1
    <3>2. \A p : p \in Linked <=> \E j \in Lists : p \in ChainSet(dict[j])
      BY DEF Linked
    <3> QED
      BY <3>1, <3>2
  <2>5. \A p \in Nodes : Live(p) <=> p \in Linked
    <3>1. \A j \in Lists : \A x \in 1 .. l[j] : LiveIn(heap, c[j][x])
      BY <2>1, ListsHold
    <3> QED
      BY <2>1, <2>2, <2>4, <3>1 DEF Sound
  <2>6. ASSUME NEW j \in Lists, NEW m \in 1 .. l[j], NEW n \in 1 .. l[j]
        PROVE  /\ Hash[heap[c[j][n]].key] = j
               /\ heap[c[j][m]].key = heap[c[j][n]].key => m = n
    <3>1. /\ c[j][m] \in Nodes /\ LiveIn(heap, c[j][m])
          /\ c[j][n] \in Nodes /\ LiveIn(heap, c[j][n]) /\ Hash[heap[c[j][n]].key] = j
      BY <2>1, ListsHold
    <3>2. heap[c[j][m]].key = heap[c[j][n]].key => c[j][m] = c[j][n]
      BY <2>1, <3>1 DEF Sound
    <3> QED
      BY <2>1, <3>1, <3>2, OnePlace
  <2>7. ASSUME NEW j \in Lists, NEW chain, chain = Chain(dict[j])
        PROVE  \A m, n \in DOMAIN chain :
                 /\ Hash[heap[chain[n]].key] = j
                 /\ heap[chain[m]].key = heap[chain[n]].key => m = n
    <3>1. chain = c[j] /\ DOMAIN chain = 1 .. l[j]
      BY <2>3, <2>7
    <3> QED
      BY <2>6, <3>1
  <2> QED
    BY <2>5, <2>7 DEF ChainsSound
<1> QED
  BY <1>1, DictInvariance, PTL

(***************************************************************************)
(* Neither loop, deleting or changing the pair it is at, ever comes to a   *)
(* node that is not allocated (dict.c:110, assembler.c:47).                *)
(***************************************************************************)
THEOREM IteratorStaysSafe == Spec => []IteratorIsSafe
<1>1. DictInv => IteratorIsSafe
  <2> SUFFICES ASSUME DictInv, pc # "idle", NEW p \in {node, current}, p # NULL PROVE Live(p)
    BY DEF IteratorIsSafe
  <2>1. PICK l, c : Sound(dict, heap, l, c) /\ \E S : IterAt(l, c, i, current, node, S)
    BY DEF DictInv
  <2>2. i \in Lists
    BY DEF DictInv, TypeOK
  <2>3. LiveIn(heap, p)
    BY <2>1, <2>2, IterType
  <2> QED
    BY <2>3 DEF Live, LiveIn
<1> QED
  BY <1>1, DictInvariance, PTL

(***************************************************************************)
(* The lists and the iterator implement a map and the set of keys a loop   *)
(* has still to visit: add, delete and both loops do what SymbolTable, on  *)
(* which assemble() relies, allows and nothing else.                       *)
(***************************************************************************)
THEOREM DictIsSymbolTable == Spec => ImplementsSymbolTable
<1>1. Init => Abstract!SInit
  BY InitDict
<1>2. DictInv /\ [Next]_vars => [Abstract!SNext]_Abstract!svars
  BY EveryStep DEF AbstractStep
<1> QED
  BY <1>1, <1>2, DictInvariance, PTL DEF Spec, ImplementsSymbolTable, Abstract!SSpec
==============================================================================
