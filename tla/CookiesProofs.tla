---------------------------- MODULE CookiesProofs ----------------------------
(***************************************************************************)
(* Proofs about Cookies: for any cookies, hosts, paths and times, as long  *)
(* as all lists together have no more than four nodes, the bound up to     *)
(* which the shape of a tree follows from the order of its nodes.          *)
(*                                                                         *)
(*   - A list is a tree of one of nine shapes (Shapes).  What insert(),    *)
(*     erase() and equal_range() find and leave is shown shape by shape,   *)
(*     whatever the order of the cookies; what loops over them do, along   *)
(*     the folds they are modelled as, with the lemmas of FoldLemmas.      *)
(*   - insert() leaves a cookie of the name, domain and path inserted,     *)
(*     wherever it looked (InsertIs): so each set that get() puts together *)
(*     has one of every cookie that went into it (MergeIs).                *)
(*   - On one path operator< is the order of the names (LessIs).  A tree   *)
(*     in that order (Sorted) stays so, add() finds the cookie it replaces *)
(*     (ListAddSorted), and erase() takes the one it is to, and no other   *)
(*     (EraseKeySorted).                                                   *)
(* JarInv says this of the lists there are: the inductive invariant is     *)
(* CookiesInv.                                                             *)
(***************************************************************************)
EXTENDS Cookies, FiniteSetTheorems, TLAPS

-----------------------------------------------------------------------------
(* Trees, and their cookies in order.                                      *)

\* A position has a rank of its own.
LEMMA RankOrder ==
  /\ \A i \in 1..15 : Rank[i] \in 1..15
  /\ \A i, j \in 1..15 : Rank[i] = Rank[j] => i = j
BY DEF Rank

\* The sets of nodes that a tree of up to four has.
Shapes == {{}, {1}, {1, 2}, {1, 3}, {1, 2, 3}} \cup {{1, 2, 3, g} : g \in 4..7}

\* The trees of cookies of C.
Trees(C) == UNION {[D -> C] : D \in Shapes}

\* How many nodes a tree has.
Nodes(tree) == Cardinality(DOMAIN tree)

\* How many nodes each shape has.
LEMMA ShapeSizes ==
  ASSUME NEW D \in Shapes
  PROVE  /\ IsFiniteSet(D) /\ D \subseteq 1..7 /\ Cardinality(D) \in 0..4
         /\ Cardinality(D) = 0 <=> D = {}
         /\ Cardinality(D) = 1 <=> D = {1}
         /\ Cardinality(D) = 2 <=> D \in {{1, 2}, {1, 3}}
         /\ Cardinality(D) = 3 <=> D = {1, 2, 3}
         /\ Cardinality(D) = 4 <=> \E g \in 4..7 : D = {1, 2, 3, g}
<1>1. IsFiniteSet({}) /\ Cardinality({}) = 0
  BY FS_EmptySet
<1>2. IsFiniteSet({1}) /\ Cardinality({1}) = 1
  BY FS_Singleton
<1>3. IsFiniteSet({1, 2}) /\ Cardinality({1, 2}) = 2
  <2>1. {1, 2} = {1} \cup {2} OBVIOUS
  <2> QED BY <1>2, <2>1, FS_AddElement
<1>4. IsFiniteSet({1, 3}) /\ Cardinality({1, 3}) = 2
  <2>1. {1, 3} = {1} \cup {3} OBVIOUS
  <2> QED BY <1>2, <2>1, FS_AddElement
<1>5. IsFiniteSet({1, 2, 3}) /\ Cardinality({1, 2, 3}) = 3
  <2>1. {1, 2, 3} = {1, 2} \cup {3} OBVIOUS
  <2> QED BY <1>3, <2>1, FS_AddElement
<1>6. ASSUME NEW g \in 4..7
      PROVE  IsFiniteSet({1, 2, 3, g}) /\ Cardinality({1, 2, 3, g}) = 4
  <2> DEFINE S == {1, 2, 3}
  <2>1. {1, 2, 3, g} = S \cup {g} /\ g \notin S
    OBVIOUS
  <2> HIDE DEF S
  <2>2. IsFiniteSet(S) /\ Cardinality(S) = 3
    BY <1>5 DEF S
  <2>3. IsFiniteSet(S \cup {g}) /\ Cardinality(S \cup {g}) = 4
    BY <2>1, <2>2, FS_AddElement
  <2> QED BY <2>1, <2>3
<1>7. CASE D = {} BY <1>1, <1>7
<1>8. CASE D = {1} BY <1>2, <1>8
<1>9. CASE D = {1, 2} BY <1>3, <1>9
<1>10. CASE D = {1, 3} BY <1>4, <1>10
<1>11. CASE D = {1, 2, 3} BY <1>5, <1>11
<1>12. CASE \E g \in 4..7 : D = {1, 2, 3, g}
  <2>1. PICK g \in 4..7 : D = {1, 2, 3, g}
    BY <1>12
  <2>2. IsFiniteSet(D) /\ Cardinality(D) = 4 /\ D \subseteq 1..7
    BY <1>6, <2>1
  <2> QED BY <2>1, <2>2
<1> QED BY <1>7, <1>8, <1>9, <1>10, <1>11, <1>12 DEF Shapes

\* A tree has one of the shapes, and a cookie at each node.
LEMMA TreeIs ==
  ASSUME NEW C, NEW t \in Trees(C)
  PROVE  /\ t \in [DOMAIN t -> C] /\ DOMAIN t \in Shapes /\ IsFiniteSet(DOMAIN t)
         /\ DOMAIN t \subseteq 1..7 /\ Nodes(t) \in 0..4
<1>1. t \in [DOMAIN t -> C] /\ DOMAIN t \in Shapes
  BY DEF Trees
<1> QED BY <1>1, ShapeSizes DEF Nodes

\* The nodes of a tree, or of a part of it, are numbered from left to right.
LEMMA NodeNumbers ==
  ASSUME NEW t, DOMAIN t \subseteq 1..15
  PROVE  /\ IsFiniteSet(DOMAIN t) /\ Nodes(t) \in Nat
         /\ \A k \in 0..(Nodes(t) - 1) :
              /\ NodeAt(t, k) \in DOMAIN t
              /\ Cardinality(Smaller(t, NodeAt(t, k))) = k
         /\ \A i \in DOMAIN t : /\ Cardinality(Smaller(t, i)) \in 0..(Nodes(t) - 1)
                                /\ NodeAt(t, Cardinality(Smaller(t, i))) = i
<1> DEFINE D == DOMAIN t
           n == Nodes(t)
           f == [i \in D |-> Cardinality(Smaller(t, i))]
<1>1. IsFiniteSet(D) /\ n \in Nat
  <2>1. D \in SUBSET Nat /\ \A i \in D : i <= 15
    OBVIOUS
  <2>2. IsFiniteSet(D)
    BY <2>1, FS_BoundedSetOfNaturals
  <2> QED BY <2>2, FS_CardinalityType DEF Nodes
<1>2. ASSUME NEW i \in D
      PROVE  IsFiniteSet(Smaller(t, i)) /\ f[i] \in 0..(n - 1)
  <2>1. Smaller(t, i) \in SUBSET D /\ i \notin Smaller(t, i)
    BY RankOrder DEF Smaller
  <2>2. /\ IsFiniteSet(Smaller(t, i)) /\ Cardinality(Smaller(t, i)) <= Cardinality(D)
        /\ Cardinality(D) # Cardinality(Smaller(t, i))
    BY <1>1, <2>1, FS_Subset
  <2>3. Cardinality(Smaller(t, i)) \in Nat
    BY <2>2, FS_CardinalityType
  <2> QED BY <1>1, <2>2, <2>3 DEF Nodes
<1>3. ASSUME NEW i \in D, NEW j \in D, Rank[i] < Rank[j]
      PROVE  f[i] # f[j]
  <2>1. Smaller(t, i) \in SUBSET Smaller(t, j) /\ i \in Smaller(t, j) /\ i \notin Smaller(t, i)
    BY <1>3, RankOrder DEF Smaller
  <2>2. Cardinality(Smaller(t, j)) # Cardinality(Smaller(t, i))
    BY <1>2, <2>1, FS_Subset
  <2> QED BY <2>2
<1>4. ASSUME NEW i \in D, NEW j \in D, f[i] = f[j]
      PROVE  i = j
  <2>1. ~(Rank[i] < Rank[j]) /\ ~(Rank[j] < Rank[i])
    BY <1>3, <1>4
  <2>2. Rank[i] \in 1..15 /\ Rank[j] \in 1..15
    BY RankOrder
  <2> QED BY <2>1, <2>2, RankOrder
<1>5. f \in [D -> 0..(n - 1)]
  BY <1>2
<1>6. f \in Surjection(D, 0..(n - 1))
  <2> HIDE DEF f, n
  <2>1. f \in Injection(D, 0..(n - 1))
    BY <1>4, <1>5 DEF Injection, IsInjective
  <2>2. IsFiniteSet(0..(n - 1)) /\ Cardinality(0..(n - 1)) = n
    BY <1>1, FS_Interval
  <2>3. Cardinality(D) = n
    BY DEF n, Nodes
  <2> QED BY <2>1, <2>2, <2>3, FS_Injection
<1>7. ASSUME NEW k \in 0..(n - 1)
      PROVE  NodeAt(t, k) \in D /\ f[NodeAt(t, k)] = k
  <2>1. \E i \in D : f[i] = k
    BY <1>6 DEF Surjection
  <2> QED BY <2>1 DEF NodeAt
<1>8. \A i \in D : NodeAt(t, f[i]) = i
  <2> HIDE DEF f
  <2> QED BY <1>2, <1>4, <1>7
<1> QED BY <1>1, <1>2, <1>7, <1>8

\* What a tree holds, in order.
LEMMA InOrderIs ==
  ASSUME NEW C, NEW t, DOMAIN t \subseteq 1..15, \A i \in DOMAIN t : t[i] \in C
  PROVE  /\ InOrder(t) \in Seq(C) /\ Len(InOrder(t)) = Nodes(t)
         /\ \A k \in 1..Nodes(t) : /\ NodeAt(t, k - 1) \in DOMAIN t
                                   /\ InOrder(t)[k] = t[NodeAt(t, k - 1)]
         /\ \A c : c \in ToSet(InOrder(t)) <=> \E i \in DOMAIN t : t[i] = c
<1> DEFINE n == Nodes(t)
           s == InOrder(t)
<1>1. n \in Nat /\ s = [k \in 1..n |-> t[NodeAt(t, k - 1)]]
  BY NodeNumbers DEF InOrder, Nodes
<1>2. ASSUME NEW k \in 1..n
      PROVE  NodeAt(t, k - 1) \in DOMAIN t /\ s[k] = t[NodeAt(t, k - 1)]
  <2>1. k - 1 \in 0..(n - 1)
    BY <1>1
  <2> QED BY <1>1, <2>1, NodeNumbers
<1>3. s \in Seq(C) /\ Len(s) = n
  <2> HIDE DEF n, s
  <2> QED BY <1>1, <1>2
<1>4. ASSUME NEW i \in DOMAIN t
      PROVE  \E k \in 1..n : s[k] = t[i]
  <2> DEFINE k == Cardinality(Smaller(t, i))
  <2>1. k \in 0..(n - 1) /\ NodeAt(t, k) = i
    BY NodeNumbers
  <2>2. k + 1 \in 1..n /\ (k + 1) - 1 = k
    BY <1>1, <2>1
  <2>3. s[k + 1] = t[i]
    BY <1>2, <2>1, <2>2
  <2> QED BY <2>2, <2>3
<1>5. ASSUME NEW c
      PROVE  c \in ToSet(s) <=> \E i \in DOMAIN t : t[i] = c
  <2>1. DOMAIN s = 1..n
    BY <1>1
  <2>2. c \in ToSet(s) <=> \E k \in 1..n : s[k] = c
    BY <2>1 DEF ToSet
  <2> HIDE DEF s, n
  <2> QED BY <1>2, <1>4, <2>2
<1> QED BY <1>2, <1>3, <1>5

\* It is a sequence of what is in the tree.
LEMMA InOrderHolds ==
  ASSUME NEW C, NEW t, DOMAIN t \subseteq 1..15, \A i \in DOMAIN t : t[i] \in C
  PROVE  /\ InOrder(t) \in Seq(C) /\ Len(InOrder(t)) = Nodes(t)
         /\ ToSet(InOrder(t)) = Range(t)
<1>1. InOrder(t) \in Seq(C) /\ Len(InOrder(t)) = Nodes(t)
  BY InOrderIs
<1>2. \A c : c \in ToSet(InOrder(t)) <=> \E i \in DOMAIN t : t[i] = c
  BY InOrderIs
<1>3. ToSet(InOrder(t)) = Range(t)
  BY <1>2, Zenon DEF Range
<1> QED BY <1>1, <1>3

-----------------------------------------------------------------------------
(* insert(), and what add() and the lists are made of.                     *)

Inserts == INSTANCE FoldLemmas WITH Op <- Insert

\* The place for a new node is free, and next to the nodes there are.
LEMMA GapIs ==
  ASSUME NEW D \in Shapes, NEW lefts
  PROVE  LET g == Descend(D, 1, lefts)
         IN /\ g \in 1..15 /\ g \notin D
            /\ D = {} => g = 1
            /\ D = {1} => g \in {2, 3}
            /\ D = {1, 2, 3} => g \in 4..7
<1> DEFINE g == Descend(D, 1, lefts)
<1>1. CASE D = {} BY <1>1 DEF Descend
<1>2. CASE D = {1} BY <1>2 DEF Descend
<1>3. CASE D = {1, 2} BY <1>3 DEF Descend
<1>4. CASE D = {1, 3} BY <1>4 DEF Descend
<1>5. CASE D = {1, 2, 3} BY <1>5 DEF Descend
<1>6. CASE \E h \in 4..7 : D = {1, 2, 3, h}
  <2>1. PICK h \in 4..7 : D = {1, 2, 3, h}
    BY <1>6
  <2> QED BY <2>1 DEF Descend
<1> QED BY <1>1, <1>2, <1>3, <1>4, <1>5, <1>6 DEF Shapes

\* At the node before it the way down went right.
LEMMA GapIsRight ==
  ASSUME NEW D \in Shapes, NEW lefts, NEW p \in D
  PROVE  LET g == Descend(D, 1, lefts)
         IN Rank[p] < Rank[g] /\ (\A j \in D : Rank[j] < Rank[g] => Rank[j] <= Rank[p])
              => p \notin lefts
<1> DEFINE g == Descend(D, 1, lefts)
<1> SUFFICES ASSUME p \in lefts, Rank[p] < Rank[g],
                    \A j \in D : Rank[j] < Rank[g] => Rank[j] <= Rank[p]
             PROVE  FALSE
  OBVIOUS
<1>1. /\ Rank[1] = 8 /\ Rank[2] = 4 /\ Rank[3] = 12 /\ Rank[4] = 2 /\ Rank[5] = 6
      /\ Rank[6] = 10 /\ Rank[7] = 14 /\ Rank[8] = 1 /\ Rank[9] = 3 /\ Rank[10] = 5
      /\ Rank[11] = 7 /\ Rank[12] = 9 /\ Rank[13] = 11 /\ Rank[14] = 13 /\ Rank[15] = 15
  BY DEF Rank
<1>2. CASE D = {1} BY <1>1, <1>2 DEF Descend
<1>3. CASE D = {1, 2} BY <1>1, <1>3 DEF Descend
<1>4. CASE D = {1, 3} BY <1>1, <1>4 DEF Descend
<1>5. CASE D = {1, 2, 3} BY <1>1, <1>5 DEF Descend
<1>6. CASE D = {1, 2, 3, 4} BY <1>1, <1>6 DEF Descend
<1>7. CASE D = {1, 2, 3, 5} BY <1>1, <1>7 DEF Descend
<1>8. CASE D = {1, 2, 3, 6} BY <1>1, <1>8 DEF Descend
<1>9. CASE D = {1, 2, 3, 7} BY <1>1, <1>9 DEF Descend
<1> QED BY <1>2, <1>3, <1>4, <1>5, <1>6, <1>7, <1>8, <1>9 DEF Shapes

\* The node before a place, if there is one.
LEMMA PredecessorIs ==
  ASSUME NEW t, NEW g, DOMAIN t \subseteq 1..15, Smaller(t, g) # {}
  PROVE  LET p == Predecessor(t, g)
         IN /\ p \in DOMAIN t /\ Rank[p] < Rank[g]
            /\ \A j \in DOMAIN t : Rank[j] < Rank[g] => Rank[j] <= Rank[p]
<1> DEFINE S == Smaller(t, g)
           T == {15 - Rank[i] : i \in S}
<1>1. S \subseteq 1..15 /\ \A i \in S : Rank[i] \in 1..15
  BY RankOrder DEF Smaller
<1>2. T \subseteq Nat /\ T # {}
  BY <1>1
<1>3. PICK n \in T : \A m \in T : n <= m
  <2> HIDE DEF T
  <2> QED BY <1>2, Inserts!LeastNatural
<1>4. PICK i \in S : n = 15 - Rank[i]
  BY <1>3
<1>5. \A j \in S : Rank[j] <= Rank[i]
  <2> TAKE j \in S
  <2>1. 15 - Rank[j] \in T
    OBVIOUS
  <2>2. 15 - Rank[i] <= 15 - Rank[j]
    BY <1>3, <1>4, <2>1
  <2> QED BY <1>1, <2>2
<1>6. Predecessor(t, g) \in S /\ \A j \in S : Rank[j] <= Rank[Predecessor(t, g)]
  BY <1>5 DEF Predecessor
<1> QED BY <1>6 DEF Smaller

\* What insert() finds is neither less nor greater.
LEMMA FoundIs ==
  ASSUME NEW C, NEW t \in Trees(C), NEW c, Found(t, c)
  PROVE  LET p == Predecessor(t, Gap(t, c))
         IN p \in DOMAIN t /\ ~Less(t[p], c) /\ ~Less(c, t[p])
<1> DEFINE g == Gap(t, c)
           p == Predecessor(t, g)
<1>1. DOMAIN t \in Shapes /\ DOMAIN t \subseteq 1..15
  BY TreeIs
<1>2. Smaller(t, g) # {} /\ ~Less(t[p], c)
  BY DEF Found
<1>3. /\ p \in DOMAIN t /\ Rank[p] < Rank[g]
      /\ \A j \in DOMAIN t : Rank[j] < Rank[g] => Rank[j] <= Rank[p]
  BY <1>1, <1>2, PredecessorIs
<1>4. p \notin Above(t, c)
  <2> HIDE DEF p
  <2> QED BY <1>1, <1>3, GapIsRight DEF Gap
<1> QED BY <1>2, <1>3, <1>4 DEF Above

\* Three cookies make a tree.
LEMMA BalancedIs ==
  ASSUME NEW C, NEW s \in Seq(C), Len(s) = 3
  PROVE  /\ Balanced(s) \in Trees(C) /\ Nodes(Balanced(s)) = 3 /\ Range(Balanced(s)) = ToSet(s)
         /\ Balanced(s)[2] = s[1] /\ Balanced(s)[1] = s[2] /\ Balanced(s)[3] = s[3]
         /\ DOMAIN Balanced(s) = {1, 2, 3}
<1> DEFINE b == Balanced(s)
<1>1. DOMAIN b = {1, 2, 3} /\ {1, 2, 3} \in Shapes
  BY DEF Balanced, Shapes
<1>2. b[1] = s[2] /\ b[2] = s[1] /\ b[3] = s[3]
  BY DEF Balanced
<1>3. DOMAIN s = {1, 2, 3} /\ \A i \in {1, 2, 3} : s[i] \in C
  <2>1. DOMAIN s = 1..Len(s)
    OBVIOUS
  <2>2. \A i \in 1..Len(s) : s[i] \in C
    OBVIOUS
  <2>3. 1..Len(s) = {1, 2, 3}
    OBVIOUS
  <2> QED BY <2>1, <2>2, <2>3
<1>4. b = [i \in {1, 2, 3} |-> b[i]]
  BY <1>1 DEF Balanced
<1> HIDE DEF b
<1>5. b \in [{1, 2, 3} -> C]
  BY <1>2, <1>3, <1>4
<1>6. b \in Trees(C)
  BY <1>1, <1>5 DEF Trees
<1>7. Range(b) = ToSet(s)
  BY <1>1, <1>2, <1>3 DEF Range, ToSet
<1>8. Nodes(b) = 3
  BY <1>1, ShapeSizes DEF Nodes
<1> QED BY <1>1, <1>2, <1>6, <1>7, <1>8 DEF b

\* The first elements of a string.
LEMMA FrontIs ==
  ASSUME NEW s \in Seq(Nat), NEW n \in Nat, n <= Len(s)
  PROVE  /\ SubSeq(s, 1, n) \in Seq(Nat) /\ Len(SubSeq(s, 1, n)) = n
         /\ \A j \in 1..n : SubSeq(s, 1, n)[j] = s[j]
<1>1. \A j \in 1..n : s[j] \in Nat
  OBVIOUS
<1>2. SubSeq(s, 1, n) \in Seq(Nat)
  BY <1>1
<1>3. Len(SubSeq(s, 1, n)) = n
  OBVIOUS
<1>4. ASSUME NEW j \in 1..n
      PROVE  SubSeq(s, 1, n)[j] = s[j]
  OBVIOUS
<1> QED BY <1>2, <1>3, <1>4

\* Of two different strings one is before the other.
LEMMA BeforeTotal ==
  ASSUME NEW s \in Seq(Nat), NEW t \in Seq(Nat), ~Before(s, t), ~Before(t, s)
  PROVE  s = t
<1> DEFINE Ends(i) == i > Len(s) \/ i > Len(t) \/ s[i] # t[i]
           T == {i \in Nat : i > 0 /\ Ends(i)}
<1>1. Len(s) \in Nat /\ Len(t) \in Nat
  OBVIOUS
<1>2. T \subseteq Nat /\ Len(s) + 1 \in T
  BY <1>1
<1>3. PICK i \in T : \A j \in T : i <= j
  <2> HIDE DEF T
  <2> QED BY <1>2, Inserts!LeastNatural
<1>4. i \in Nat /\ i > 0 /\ Ends(i)
  OBVIOUS
<1>5. \A j \in 1..(i - 1) : j <= Len(s) /\ j <= Len(t) /\ s[j] = t[j]
  <2> TAKE j \in 1..(i - 1)
  <2>1. j \notin T
    <3> HIDE DEF T
    <3> QED BY <1>3, <1>4
  <2> QED BY <2>1, <1>1
<1>6. i - 1 <= Len(s) /\ i - 1 <= Len(t)
  <2>1. CASE i = 1
    BY <2>1, <1>1
  <2>2. CASE i > 1
    <3>1. i - 1 \in 1..(i - 1)
      BY <1>4, <2>2
    <3> QED BY <3>1, <1>5
  <2> QED BY <1>4, <2>1, <2>2
<1>7. ASSUME NEW p \in Seq(Nat), NEW q \in Seq(Nat), i - 1 <= Len(p), i <= Len(q),
             \A j \in 1..(i - 1) : p[j] = q[j]
      PROVE  IsPrefix(SubSeq(q, 1, i - 1), p)
  <2> DEFINE r == SubSeq(q, 1, i - 1)
  <2>1. r \in Seq(Nat) /\ Len(r) = i - 1 /\ \A j \in 1..(i - 1) : r[j] = q[j]
    <3>1. i - 1 \in Nat /\ i - 1 <= Len(q)
      BY <1>4, <1>7
    <3> QED BY <3>1, FrontIs
  <2> HIDE DEF r
  <2> DEFINE n == i - 1
             v == SubSeq(p, 1, n)
  <2>2. n \in Nat /\ SubSeq(r, 1, n) = r
    BY <1>4, <2>1
  <2>3. v \in Seq(Nat) /\ Len(v) = n /\ \A j \in 1..n : v[j] = p[j]
    <3>1. n \in Nat /\ n <= Len(p)
      BY <1>7, <2>2
    <3> HIDE DEF n
    <3> QED BY <3>1, FrontIs
  <2>4. SubSeq(r, 1, Len(r)) = SubSeq(p, 1, Len(r))
    <3>1. Len(r) = n /\ \A j \in 1..n : r[j] = v[j]
      BY <1>7, <2>1, <2>3
    <3> HIDE DEF n, v
    <3>2. r = v
      BY <2>1, <2>2, <2>3, <3>1
    <3> QED BY <2>2, <3>1, <3>2 DEF v
  <2> QED BY <2>1, <2>4, <1>7 DEF IsPrefix, r
<1>8. ~(i <= Len(t) /\ (Len(s) < i \/ s[i] < t[i]))
  <2>1. SUFFICES ASSUME i <= Len(t), Len(s) < i \/ s[i] < t[i] PROVE FALSE
    OBVIOUS
  <2>2. i \in 1..Len(t) /\ IsPrefix(SubSeq(t, 1, i - 1), s)
    BY <1>1, <1>4, <1>5, <1>6, <1>7, <2>1
  <2> QED BY <2>1, <2>2 DEF Before
<1>9. ~(i <= Len(s) /\ (Len(t) < i \/ t[i] < s[i]))
  <2>1. SUFFICES ASSUME i <= Len(s), Len(t) < i \/ t[i] < s[i] PROVE FALSE
    OBVIOUS
  <2>2. i \in 1..Len(s) /\ IsPrefix(SubSeq(s, 1, i - 1), t)
    BY <1>1, <1>4, <1>5, <1>6, <1>7, <2>1
  <2> QED BY <2>1, <2>2 DEF Before
<1>10. i > Len(s) /\ i > Len(t)
  <2>1. ASSUME i <= Len(s), i <= Len(t) PROVE FALSE
    <3>1. s[i] \in Nat /\ t[i] \in Nat /\ s[i] # t[i]
      BY <1>1, <1>4, <2>1
    <3> QED BY <1>8, <1>9, <2>1, <3>1
  <2> QED BY <1>1, <1>4, <1>8, <1>9, <2>1
<1>11. Len(s) = i - 1 /\ Len(t) = i - 1 /\ \A j \in 1..(i - 1) : s[j] = t[j]
  BY <1>1, <1>4, <1>5, <1>6, <1>10
<1> QED BY <1>11

\* A cookie that is neither less nor greater than another has its name, domain and path.
LEMMA IdentityIs ==
  ASSUME NEW c \in TypeOf, NEW d \in TypeOf, ~Less(c, d), ~Less(d, c)
  PROVE  Identity(c) = Identity(d)
<1>1. /\ c.name \in Nat /\ d.name \in Nat /\ DomainOf(c) \in Seq(Nat) /\ DomainOf(d) \in Seq(Nat)
      /\ PathOf(c) \in Seq(Nat) /\ PathOf(d) \in Seq(Nat)
  BY DEF TypeOf, DomainOf, PathOf
<1>2. c.name = d.name
  BY <1>1 DEF Less
<1>3. DomainOf(c) = DomainOf(d)
  BY <1>1, BeforeTotal DEF Less
<1>4. PathOf(c) = PathOf(d)
  BY <1>1, BeforeTotal DEF Less
<1> QED BY <1>2, <1>3, <1>4 DEF Identity

\* A cookie put in its place.
LEMMA PlaceIs ==
  ASSUME NEW C, NEW t \in Trees(C), NEW c \in C, Nodes(t) <= 3
  PROVE  LET u == Place(t, Gap(t, c), c)
         IN /\ u \in Trees(C) /\ Nodes(u) = Nodes(t) + 1 /\ Range(u) = Range(t) \cup {c}
<1> DEFINE D == DOMAIN t
           g == Gap(t, c)
           new == [i \in D \cup {g} |-> IF i = g THEN c ELSE t[i]]
           u == Place(t, g, c)
<1>1. t \in [D -> C] /\ D \in Shapes /\ IsFiniteSet(D) /\ D \subseteq 1..7 /\ Nodes(t) \in 0..4
  BY TreeIs
<1>2. /\ g \in 1..15 /\ g \notin D
      /\ D = {} => g = 1
      /\ D = {1} => g \in {2, 3}
      /\ D = {1, 2, 3} => g \in 4..7
  BY <1>1, GapIs DEF Gap
<1>3. /\ DOMAIN new = D \cup {g} /\ new[g] = c /\ \A i \in D : new[i] = t[i]
      /\ new \in [D \cup {g} -> C]
  BY <1>1, <1>2
<1>4. Range(new) = Range(t) \cup {c}
  <2> HIDE DEF new, g
  <2> QED BY <1>2, <1>3 DEF Range
<1>5. Nodes(new) = Nodes(t) + 1
  BY <1>1, <1>2, <1>3, FS_AddElement DEF Nodes
<1>6. u = IF Nodes(new) = 3 THEN Balanced(InOrder(new)) ELSE new
  BY DEF Place, Nodes
<1> HIDE DEF new, g, u
<1>7. CASE Nodes(t) = 2
  <2>1. DOMAIN new \subseteq 1..15 /\ \A i \in DOMAIN new : new[i] \in C
    BY <1>1, <1>2, <1>3
  <2>2. /\ InOrder(new) \in Seq(C) /\ Len(InOrder(new)) = Nodes(new)
        /\ ToSet(InOrder(new)) = Range(new)
    BY <2>1, InOrderHolds
  <2>3. Len(InOrder(new)) = 3
    BY <1>5, <1>7, <2>2
  <2>4. /\ u = Balanced(InOrder(new)) /\ u \in Trees(C) /\ Nodes(u) = 3
        /\ Range(u) = ToSet(InOrder(new))
    BY <1>5, <1>6, <1>7, <2>2, <2>3, BalancedIs
  <2>5. Range(u) = Range(t) \cup {c} /\ Nodes(u) = Nodes(t) + 1
    BY <1>4, <1>7, <2>2, <2>4
  <2> QED BY <2>4, <2>5 DEF g, u
<1>8. CASE Nodes(t) # 2
  <2>1. u = new
    BY <1>1, <1>5, <1>6, <1>8
  <2>2. D \in {{}, {1}, {1, 2, 3}}
    <3>1. /\ Nodes(t) = 0 => D = {}
          /\ Nodes(t) = 1 => D = {1}
          /\ Nodes(t) = 3 => D = {1, 2, 3}
      BY <1>1, ShapeSizes DEF Nodes
    <3>2. Nodes(t) \in {0, 1, 3}
      BY <1>1, <1>8
    <3> QED BY <3>1, <3>2
  <2>3. D \cup {g} \in Shapes
    <3>1. CASE D = {}
      <4>1. D \cup {g} = {1}
        BY <1>2, <3>1
      <4> QED BY <4>1 DEF Shapes
    <3>2. CASE D = {1}
      <4>1. D \cup {g} = {1, 2} \/ D \cup {g} = {1, 3}
        BY <1>2, <3>2
      <4> QED BY <4>1 DEF Shapes
    <3>3. CASE D = {1, 2, 3}
      <4>1. D \cup {g} = {1, 2, 3, g} /\ g \in 4..7
        BY <1>2, <3>3
      <4> QED BY <4>1 DEF Shapes
    <3> QED BY <2>2, <3>1, <3>2, <3>3
  <2>4. new \in Trees(C)
    BY <1>3, <2>3 DEF Trees
  <2> QED BY <1>4, <1>5, <2>1, <2>4 DEF u, g
<1> QED BY <1>7, <1>8

\* insert(): afterwards there is a cookie with the name, domain and path of c.
LEMMA InsertIs ==
  ASSUME NEW C, C \subseteq TypeOf, NEW t \in Trees(C), NEW c \in C, Nodes(t) <= 3
  PROVE  LET u == Insert(t, c)
         IN /\ u \in Trees(C) /\ Nodes(u) <= Nodes(t) + 1
            /\ Range(t) \subseteq Range(u) /\ Range(u) \subseteq Range(t) \cup {c}
            /\ \E d \in Range(u) : Identity(d) = Identity(c)
<1> DEFINE p == Predecessor(t, Gap(t, c))
<1>1. CASE Found(t, c)
  <2>1. Insert(t, c) = t
    BY <1>1 DEF Insert
  <2>2. p \in DOMAIN t /\ ~Less(t[p], c) /\ ~Less(c, t[p])
    BY <1>1, FoundIs
  <2>3. t[p] \in C /\ Nodes(t) \in 0..4
    BY <2>2, TreeIs
  <2>4. Identity(t[p]) = Identity(c) /\ t[p] \in Range(t)
    <3> HIDE DEF p
    <3> QED BY <2>2, <2>3, IdentityIs DEF Range
  <2> QED BY <2>1, <2>3, <2>4
<1>2. CASE ~Found(t, c)
  <2>1. Insert(t, c) = Place(t, Gap(t, c), c)
    BY <1>2 DEF Insert
  <2>2. Nodes(t) \in 0..4
    BY TreeIs
  <2> QED BY <2>1, <2>2, PlaceIs
<1> QED BY <1>1, <1>2

-----------------------------------------------------------------------------
(* erase(), and lists put into one.                                        *)

\* Many cookies inserted: the tree holds them, and has one of each identity.
InsertedUpTo(C, t, s, k) ==
  {u \in Trees(C) : /\ Nodes(u) <= Nodes(t) + k
                    /\ Range(t) \subseteq Range(u) /\ Range(u) \subseteq Range(t) \cup ToSet(s)
                    /\ \A j \in 1..k : \E d \in Range(u) : Identity(d) = Identity(s[j])}

\* One insert() after the other.
LEMMA InsertAllIs ==
  ASSUME NEW C, C \subseteq TypeOf, NEW t \in Trees(C), NEW s \in Seq(C),
         Nodes(t) + Len(s) <= 4
  PROVE  InsertAll(t, s) \in InsertedUpTo(C, t, s, Len(s))
<1> DEFINE G == [k \in 0..Len(s) |-> InsertedUpTo(C, t, s, k)]
<1>1. Len(s) \in Nat /\ Nodes(t) \in 0..4
  BY TreeIs
<1>2. t \in G[0]
  BY <1>1 DEF InsertedUpTo
<1>3. ASSUME NEW k \in 1..Len(s), NEW x \in G[k - 1]
      PROVE  Insert(x, s[k]) \in G[k]
  <2>1. k - 1 \in 0..Len(s) /\ k \in 0..Len(s) /\ s[k] \in C /\ s[k] \in ToSet(s)
    BY <1>1 DEF ToSet
  <2>2. /\ x \in Trees(C) /\ Nodes(x) <= Nodes(t) + (k - 1)
        /\ Range(t) \subseteq Range(x) /\ Range(x) \subseteq Range(t) \cup ToSet(s)
        /\ \A j \in 1..(k - 1) : \E d \in Range(x) : Identity(d) = Identity(s[j])
    BY <2>1 DEF InsertedUpTo
  <2>3. Nodes(x) <= 3 /\ Nodes(x) \in 0..4
    BY <1>1, <2>1, <2>2, TreeIs
  <2> DEFINE u == Insert(x, s[k])
  <2>4. /\ u \in Trees(C) /\ Nodes(u) <= Nodes(x) + 1
        /\ Range(x) \subseteq Range(u) /\ Range(u) \subseteq Range(x) \cup {s[k]}
        /\ \E d \in Range(u) : Identity(d) = Identity(s[k])
    BY <2>1, <2>2, <2>3, InsertIs
  <2> HIDE DEF u
  <2>5. Nodes(u) <= Nodes(t) + k
    <3>1. Nodes(u) \in 0..4
      BY <2>4, TreeIs
    <3> QED BY <1>1, <2>1, <2>2, <2>3, <2>4, <3>1
  <2>6. Range(t) \subseteq Range(u) /\ Range(u) \subseteq Range(t) \cup ToSet(s)
    BY <2>1, <2>2, <2>4
  <2>7. \A j \in 1..k : \E d \in Range(u) : Identity(d) = Identity(s[j])
    <3> TAKE j \in 1..k
    <3>1. CASE j = k
      BY <2>4, <3>1
    <3>2. CASE j # k
      <4>1. j \in 1..(k - 1)
        BY <2>1, <3>2
      <4> QED BY <2>2, <2>4, <4>1
    <3> QED BY <3>1, <3>2
  <2> QED BY <2>1, <2>4, <2>5, <2>6, <2>7 DEF InsertedUpTo, u
<1>4. Inserts!Folded(t, s) \in G[Len(s)]
  <2> HIDE DEF G
  <2> QED BY <1>2, <1>3, Inserts!FoldAlong
<1>5. Inserts!Folded(t, s) = InsertAll(t, s)
  BY DEF InsertAll, FoldLeft, MapThenFoldSet, Max, Inserts!Folded, Inserts!FoldLeft,
         Inserts!MapThenFoldSet, Inserts!Max
<1>6. G[Len(s)] = InsertedUpTo(C, t, s, Len(s))
  BY <1>1
<1> QED BY <1>4, <1>5, <1>6

\* The rest of a tree.
LEMMA WithoutIs ==
  ASSUME NEW C, NEW t \in Trees(C), NEW i \in DOMAIN t
  PROVE  LET r == Without(t, i)
         IN /\ r \in [DOMAIN t \ {i} -> C] /\ DOMAIN r = DOMAIN t \ {i}
            /\ \A j \in DOMAIN t \ {i} : r[j] = t[j]
            /\ Nodes(r) = Nodes(t) - 1 /\ DOMAIN r \subseteq 1..7
<1>1. t \in [DOMAIN t -> C] /\ IsFiniteSet(DOMAIN t) /\ DOMAIN t \subseteq 1..7
  BY TreeIs
<1>2. DOMAIN Without(t, i) = DOMAIN t \ {i} /\ \A j \in DOMAIN t \ {i} : Without(t, i)[j] = t[j]
  BY DEF Without, Restrict
<1>3. Without(t, i) \in [DOMAIN t \ {i} -> C]
  BY <1>1 DEF Without, Restrict
<1>4. Nodes(Without(t, i)) = Nodes(t) - 1
  BY <1>1, <1>2, FS_RemoveElement DEF Nodes
<1> QED BY <1>1, <1>2, <1>3, <1>4

\* A node erased: what is left is the rest.
LEMMA EraseAtIs ==
  ASSUME NEW C, NEW t \in Trees(C), NEW i \in DOMAIN t
  PROVE  LET u == EraseAt(t, i)
         IN /\ u \in Trees(C) /\ Nodes(u) = Nodes(t) - 1 /\ DOMAIN u \subseteq DOMAIN t
            /\ Range(u) = {t[j] : j \in DOMAIN t \ {i}}
<1> DEFINE D == DOMAIN t
           n == Nodes(t)
           u == EraseAt(t, i)
           r == Without(t, i)
           heir == IF 3 \in D THEN 3 ELSE 2
           v == [Without(t, heir) EXCEPT ![1] = t[heir]]
<1>1. t \in [D -> C] /\ D \in Shapes /\ D \subseteq 1..7 /\ n \in 0..4
  BY TreeIs
<1>2. /\ r \in [D \ {i} -> C] /\ DOMAIN r = D \ {i}
      /\ \A j \in D \ {i} : r[j] = t[j]
      /\ Nodes(r) = n - 1 /\ DOMAIN r \subseteq 1..7
  BY WithoutIs
<1>3. Range(r) = {t[j] : j \in D \ {i}}
  <2> HIDE DEF r
  <2> QED BY <1>2 DEF Range
<1>4. /\ n = 0 <=> D = {}
      /\ n = 1 <=> D = {1}
      /\ n = 2 <=> D \in {{1, 2}, {1, 3}}
      /\ n = 3 <=> D = {1, 2, 3}
      /\ n = 4 <=> \E g \in 4..7 : D = {1, 2, 3, g}
  BY <1>1, ShapeSizes DEF Nodes
<1>5. u = IF n = 4 THEN Balanced(InOrder(r)) ELSE IF n > 1 /\ i = 1 THEN v ELSE r
  BY DEF EraseAt, Nodes
<1> HIDE DEF u, n
<1>6. CASE n = 4
  <2>1. DOMAIN r \subseteq 1..15 /\ \A j \in DOMAIN r : r[j] \in C
    BY <1>2
  <2>2. InOrder(r) \in Seq(C) /\ Len(InOrder(r)) = Nodes(r) /\ ToSet(InOrder(r)) = Range(r)
    <3> HIDE DEF r
    <3> QED BY <2>1, InOrderHolds
  <2>3. Len(InOrder(r)) = 3
    BY <1>2, <1>6, <2>2
  <2>4. u = Balanced(InOrder(r)) /\ u \in Trees(C) /\ Nodes(u) = 3 /\ Range(u) = Range(r)
    <3> HIDE DEF r
    <3> QED BY <1>5, <1>6, <2>2, <2>3, BalancedIs
  <2>5. DOMAIN Balanced(InOrder(r)) = {1, 2, 3} /\ {1, 2, 3} \subseteq D
    <3> HIDE DEF r
    <3> QED BY <1>4, <1>6, <2>2, <2>3, BalancedIs
  <2> QED BY <1>3, <1>6, <2>4, <2>5 DEF u, n
<1>7. CASE n # 4 /\ ~(n > 1 /\ i = 1)
  <2>1. u = r
    BY <1>5, <1>7
  <2>2. D \ {i} \in {{}, {1}, {1, 2}, {1, 3}}
    <3>1. CASE n = 0
      BY <1>4, <3>1
    <3>2. CASE n = 1
      BY <1>4, <3>2
    <3>3. CASE n = 2
      <4>1. i # 1 /\ D \in {{1, 2}, {1, 3}}
        BY <1>4, <1>7, <3>3
      <4>2. D \ {i} = {1}
        BY <4>1
      <4> QED BY <4>2
    <3>4. CASE n = 3
      <4>1. i # 1 /\ D = {1, 2, 3}
        BY <1>4, <1>7, <3>4
      <4>2. D \ {i} = {1, 2} \/ D \ {i} = {1, 3}
        BY <4>1
      <4> QED BY <4>2
    <3> QED BY <1>1, <1>7, <3>1, <3>2, <3>3, <3>4
  <2>3. D \ {i} \in Shapes
    BY <2>2 DEF Shapes
  <2>4. r \in Trees(C)
    BY <1>2, <2>3 DEF Trees
  <2> QED BY <1>2, <1>3, <2>1, <2>4 DEF u, n
<1>8. CASE n # 4 /\ n > 1 /\ i = 1
  <2>1. u = v /\ heir \in D /\ heir # 1 /\ heir \in {2, 3} /\ 1 \in D
    BY <1>1, <1>4, <1>5, <1>8
  <2>2. /\ Without(t, heir) \in [D \ {heir} -> C]
        /\ \A j \in D \ {heir} : Without(t, heir)[j] = t[j]
        /\ Nodes(Without(t, heir)) = n - 1 /\ DOMAIN Without(t, heir) = D \ {heir}
    <3> HIDE DEF heir
    <3>1. heir \in DOMAIN t
      BY <2>1
    <3>2. /\ Without(t, heir) \in [DOMAIN t \ {heir} -> C]
          /\ \A j \in DOMAIN t \ {heir} : Without(t, heir)[j] = t[j]
      BY <3>1, WithoutIs
    <3>3. /\ Nodes(Without(t, heir)) = Nodes(t) - 1
          /\ DOMAIN Without(t, heir) = DOMAIN t \ {heir}
      BY <3>1, WithoutIs
    <3> QED BY <3>2, <3>3 DEF n
  <2>3. D \ {heir} = {1} \/ D \ {heir} = {1, 2}
    BY <1>1, <1>4, <1>8
  <2>4. D \ {heir} \in Shapes
    BY <2>3 DEF Shapes
  <2> HIDE DEF heir
  <2>5. /\ v \in [D \ {heir} -> C] /\ DOMAIN v = D \ {heir} /\ v[1] = t[heir]
        /\ \A j \in D \ {1, heir} : v[j] = t[j]
    <3>1. t[heir] \in C /\ 1 \in D \ {heir}
      BY <1>1, <2>1
    <3> DEFINE w == Without(t, heir)
    <3>2. v = [w EXCEPT ![1] = t[heir]]
      OBVIOUS
    <3> HIDE DEF w, v
    <3> QED BY <2>2, <3>1, <3>2 DEF w
  <2> HIDE DEF v
  <2>6. v \in Trees(C)
    BY <2>4, <2>5 DEF Trees
  <2>7. Nodes(v) = n - 1
    BY <2>2, <2>5 DEF Nodes
  <2>8. Range(v) = {t[j] : j \in D \ {i}}
    BY <1>8, <2>1, <2>5 DEF Range
  <2> QED BY <2>1, <2>5, <2>6, <2>7, <2>8 DEF u, n
<1> QED BY <1>6, <1>7, <1>8

Erases == INSTANCE FoldLemmas WITH Op <- EraseNth
Prunes == INSTANCE FoldLemmas WITH Op <- EraseKey
Merges == INSTANCE FoldLemmas WITH Op <- InsertAll

\* What is left of a tree.
Remains(C, t) == {u \in Trees(C) : DOMAIN u \subseteq DOMAIN t /\ Range(u) \subseteq Range(t)}

\* erase() by key takes nodes that are there.
LEMMA EraseKeyIs ==
  ASSUME NEW C, NEW t \in Trees(C), NEW c
  PROVE  EraseKey(t, c) \in Remains(C, t)
<1> DEFINE m     == Match(t, c)
           lower == Descend(DOMAIN t, 2 * m, DOMAIN t \ Under(t, c))
           upper == Descend(DOMAIN t, 2 * m + 1, Above(t, c))
           first == Cardinality(Smaller(t, lower))
           past  == Cardinality(Smaller(t, upper))
           count == past - first
           s     == [k \in 1..count |-> first]
           n     == Nodes(t)
           G     == [k \in 0..Len(s) |->
                       {u \in Trees(C) : Nodes(u) = n - k /\ DOMAIN u \subseteq DOMAIN t
                                          /\ Range(u) \subseteq Range(t)}]
<1>1. IsFiniteSet(DOMAIN t) /\ DOMAIN t \subseteq 1..7 /\ n \in 0..4
  BY TreeIs
<1>2. \A g : Cardinality(Smaller(t, g)) \in Nat /\ Cardinality(Smaller(t, g)) <= n
  <2> TAKE g
  <2>1. Smaller(t, g) \in SUBSET DOMAIN t
    BY DEF Smaller
  <2> QED BY <1>1, <2>1, FS_Subset, FS_CardinalityType DEF Nodes
<1>3. first \in Nat /\ past \in Nat /\ past <= n
  <2> HIDE DEF n, lower, upper
  <2> QED BY <1>2
<1> HIDE DEF lower, upper, first, past, n
<1>4. /\ s \in Seq(Nat) /\ \A k \in 1..Len(s) : s[k] = first /\ first + k <= past
  <2>1. CASE count > 0
    BY <1>3, <2>1
  <2>2. CASE ~(count > 0)
    <3>1. s = <<>>
      BY <1>3, <2>2
    <3> HIDE DEF s
    <3> QED BY <3>1
  <2> QED BY <2>1, <2>2
<1> HIDE DEF s
<1>5. t \in G[0]
  <2>1. 0 \in 0..Len(s) /\ n - 0 = n
    BY <1>1, <1>4
  <2>2. Nodes(t) = n - 0
    BY <2>1 DEF n
  <2> QED BY <2>1, <2>2
<1>6. ASSUME NEW k \in 1..Len(s), NEW x \in G[k - 1]
      PROVE  EraseNth(x, s[k]) \in G[k]
  <2>1. k - 1 \in 0..Len(s) /\ k \in 0..Len(s) /\ k \in Nat /\ s[k] = first
    BY <1>4
  <2>2. /\ x \in Trees(C) /\ Nodes(x) = n - (k - 1) /\ DOMAIN x \subseteq DOMAIN t
        /\ Range(x) \subseteq Range(t)
    BY <2>1
  <2>3. DOMAIN x \subseteq 1..15
    BY <2>2, TreeIs
  <2>4. first \in 0..(Nodes(x) - 1)
    <3>1. first + k <= past
      BY <1>4
    <3> QED BY <1>1, <1>3, <2>1, <2>2, <3>1
  <2>5. NodeAt(x, first) \in DOMAIN x
    BY <2>3, <2>4, NodeNumbers
  <2> DEFINE u == EraseAt(x, NodeAt(x, first))
             i == NodeAt(x, first)
  <2>6. /\ u \in Trees(C) /\ Nodes(u) = Nodes(x) - 1
        /\ Range(u) = {x[j] : j \in DOMAIN x \ {i}}
        /\ DOMAIN u \subseteq DOMAIN x
    BY <2>2, <2>5, EraseAtIs
  <2>7. EraseNth(x, s[k]) = u
    BY <2>1 DEF EraseNth
  <2> HIDE DEF u, i
  <2>8. Range(u) \subseteq Range(t)
    BY <2>2, <2>6 DEF Range
  <2>9. Nodes(u) = n - k
    BY <1>1, <2>1, <2>2, <2>6
  <2>10. DOMAIN u \subseteq DOMAIN t
    BY <2>2, <2>6
  <2> QED BY <2>1, <2>6, <2>7, <2>8, <2>9, <2>10
<1>7. Erases!Folded(t, s) \in G[Len(s)]
  <2> HIDE DEF G
  <2> QED BY <1>4, <1>5, <1>6, Erases!FoldAlong
<1>8. Erases!Folded(t, s) = FoldLeft(EraseNth, t, s)
  BY DEF FoldLeft, MapThenFoldSet, Max, Erases!Folded, Erases!FoldLeft,
         Erases!MapThenFoldSet, Erases!Max
<1>9. /\ FoldLeft(EraseNth, t, s) \in Trees(C)
      /\ DOMAIN FoldLeft(EraseNth, t, s) \subseteq DOMAIN t
      /\ Range(FoldLeft(EraseNth, t, s)) \subseteq Range(t)
  <2>1. Len(s) \in 0..Len(s)
    BY <1>4
  <2>2. Erases!Folded(t, s) \in
          {u \in Trees(C) :
             Nodes(u) = n - Len(s) /\ DOMAIN u \subseteq DOMAIN t /\ Range(u) \subseteq Range(t)}
    BY <1>7, <2>1
  <2> QED BY <1>1, <1>8, <2>1, <2>2
<1>10. EraseKey(t, c) = IF m \in DOMAIN t THEN FoldLeft(EraseNth, t, s) ELSE t
  BY DEF EraseKey, s, first, past, lower, upper
<1> HIDE DEF m
<1>11. t \in Remains(C, t)
  BY DEF Remains
<1>12. FoldLeft(EraseNth, t, s) \in Remains(C, t)
  BY <1>9 DEF Remains
<1> QED BY <1>10, <1>11, <1>12

\* Many cookies erased.
LEMMA PruneIs ==
  ASSUME NEW C, NEW t \in Trees(C), NEW B, NEW s \in Seq(B)
  PROVE  FoldLeft(EraseKey, t, s) \in Remains(C, t)
<1> DEFINE G == [k \in 0..Len(s) |-> Remains(C, t)]
<1>1. Len(s) \in Nat
  OBVIOUS
<1>2. t \in G[0]
  BY <1>1 DEF Remains
<1>3. ASSUME NEW k \in 1..Len(s), NEW x \in G[k - 1]
      PROVE  EraseKey(x, s[k]) \in G[k]
  <2>1. k - 1 \in 0..Len(s) /\ k \in 0..Len(s)
    BY <1>1
  <2>2. x \in Trees(C) /\ DOMAIN x \subseteq DOMAIN t /\ Range(x) \subseteq Range(t)
    BY <2>1 DEF Remains
  <2> DEFINE u == EraseKey(x, s[k])
  <2>3. u \in Trees(C) /\ DOMAIN u \subseteq DOMAIN x /\ Range(u) \subseteq Range(x)
    BY <2>2, EraseKeyIs DEF Remains
  <2> HIDE DEF u
  <2>4. u \in Remains(C, t)
    BY <2>2, <2>3 DEF Remains
  <2> QED BY <2>1, <2>4 DEF u
<1>4. Prunes!Folded(t, s) \in G[Len(s)]
  <2> HIDE DEF G
  <2> QED BY <1>2, <1>3, Prunes!FoldAlong
<1>5. Prunes!Folded(t, s) = FoldLeft(EraseKey, t, s)
  BY DEF FoldLeft, MapThenFoldSet, Max, Prunes!Folded, Prunes!FoldLeft,
         Prunes!MapThenFoldSet, Prunes!Max
<1> QED BY <1>1, <1>4, <1>5

\* The lists of the first k levels in one.
MergedUpTo(C, lists, sizes, k) ==
  {u \in Trees(C) :
     /\ Nodes(u) <= sizes[k]
     /\ \A d \in Range(u) : \E j \in DOMAIN lists : d \in ToSet(lists[j])
     /\ \A j \in 1..k : \A c \in ToSet(lists[j]) : \E d \in Range(u) : Identity(d) = Identity(c)}

\* The lists of all levels in one.
LEMMA MergeIs ==
  ASSUME NEW C, C \subseteq TypeOf, NEW lists \in Seq(Seq(C)),
         NEW sizes \in [0..Len(lists) -> 0..4], sizes[0] = 0,
         \A k \in 1..Len(lists) : sizes[k - 1] + Len(lists[k]) <= sizes[k]
  PROVE  FoldLeft(InsertAll, Empty, lists) \in MergedUpTo(C, lists, sizes, Len(lists))
<1> DEFINE G == [k \in 0..Len(lists) |-> MergedUpTo(C, lists, sizes, k)]
<1>1. Len(lists) \in Nat /\ DOMAIN lists = 1..Len(lists)
  OBVIOUS
<1>2. Empty \in G[0]
  <2>1. DOMAIN Empty = {} /\ {} \in Shapes /\ Empty \in [{} -> C]
    BY DEF Empty, Shapes
  <2>2. Empty \in Trees(C)
    BY <2>1 DEF Trees
  <2>3. Nodes(Empty) = 0 /\ Range(Empty) = {}
    BY <2>1, FS_EmptySet DEF Nodes, Range
  <2> QED BY <1>1, <2>2, <2>3 DEF MergedUpTo
<1>3. ASSUME NEW k \in 1..Len(lists), NEW x \in G[k - 1]
      PROVE  InsertAll(x, lists[k]) \in G[k]
  <2> DEFINE s == lists[k]
             u == InsertAll(x, s)
  <2>1. /\ k - 1 \in 0..Len(lists) /\ k \in 0..Len(lists) /\ k \in Nat /\ k \in DOMAIN lists
        /\ s \in Seq(C)
    BY <1>1
  <2>2. /\ x \in Trees(C) /\ Nodes(x) <= sizes[k - 1]
        /\ \A d \in Range(x) : \E j \in DOMAIN lists : d \in ToSet(lists[j])
        /\ \A j \in 1..(k - 1) : \A c \in ToSet(lists[j]) :
             \E d \in Range(x) : Identity(d) = Identity(c)
    BY <2>1 DEF MergedUpTo
  <2>3. /\ Nodes(x) \in 0..4 /\ Len(s) \in Nat /\ sizes[k - 1] \in 0..4 /\ sizes[k] \in 0..4
        /\ sizes[k - 1] + Len(s) <= sizes[k]
    BY <2>1, <2>2, TreeIs
  <2> HIDE DEF s
  <2>4. Nodes(x) + Len(s) <= 4 /\ Nodes(x) + Len(s) <= sizes[k]
    <3>1. \A m \in 0..4, l \in Nat, y, z \in 0..4 :
            m <= y /\ y + l <= z => m + l <= 4 /\ m + l <= z
      OBVIOUS
    <3>2. Nodes(x) <= sizes[k - 1]
      BY <2>2
    <3> QED BY <2>3, <3>1, <3>2
  <2>5. u \in InsertedUpTo(C, x, s, Len(s))
    BY <2>1, <2>2, <2>4, InsertAllIs
  <2> HIDE DEF u
  <2>6. /\ u \in Trees(C) /\ Nodes(u) <= Nodes(x) + Len(s)
        /\ Range(x) \subseteq Range(u) /\ Range(u) \subseteq Range(x) \cup ToSet(s)
        /\ \A j \in 1..Len(s) : \E d \in Range(u) : Identity(d) = Identity(s[j])
    BY <2>5 DEF InsertedUpTo
  <2>7. Nodes(u) <= sizes[k]
    <3>1. Nodes(u) \in 0..4
      BY <2>6, TreeIs
    <3> QED BY <2>3, <2>4, <2>6, <3>1
  <2>8. \A d \in Range(u) : \E j \in DOMAIN lists : d \in ToSet(lists[j])
    BY <2>1, <2>2, <2>6 DEF s
  <2>9. \A j \in 1..k : \A c \in ToSet(lists[j]) : \E d \in Range(u) : Identity(d) = Identity(c)
    <3> TAKE j \in 1..k
    <3>1. CASE j = k
      <4> TAKE c \in ToSet(lists[j])
      <4>1. \E i \in 1..Len(s) : c = s[i]
        BY <2>1, <3>1 DEF ToSet, s
      <4> QED BY <2>6, <4>1
    <3>2. CASE j # k
      <4>1. j \in 1..(k - 1)
        BY <2>1, <3>2
      <4> QED BY <2>2, <2>6, <4>1
    <3> QED BY <3>1, <3>2
  <2> QED BY <2>1, <2>6, <2>7, <2>8, <2>9 DEF MergedUpTo, u, s
<1>4. Merges!Folded(Empty, lists) \in G[Len(lists)]
  <2> HIDE DEF G
  <2> QED BY <1>2, <1>3, Merges!FoldAlong
<1>5. Merges!Folded(Empty, lists) = FoldLeft(InsertAll, Empty, lists)
  BY DEF FoldLeft, MapThenFoldSet, Max, Merges!Folded, Merges!FoldLeft,
         Merges!MapThenFoldSet, Merges!Max
<1>6. G[Len(lists)] = MergedUpTo(C, lists, sizes, Len(lists))
  BY <1>1
<1> QED BY <1>4, <1>5, <1>6

-----------------------------------------------------------------------------
(* On one path: the order is one, and erase() takes one cookie.            *)

\* From left to right the names grow.
Sorted(t) == \A i, j \in DOMAIN t : Rank[i] < Rank[j] => t[i].name < t[j].name

\* The cookies of a domain on one path.
OfPath(d, p) == {c \in TypeOf : DomainOf(c) = d /\ PathOf(c) = p}

\* On one path operator< is the order of the names.
LEMMA LessIs ==
  ASSUME NEW d, NEW p, NEW c \in OfPath(d, p), NEW e \in OfPath(d, p)
  PROVE  /\ Less(c, e) <=> c.name < e.name
         /\ Identity(c) = Identity(e) <=> c.name = e.name
         /\ c.name \in Nat
<1>1. /\ c.name \in Nat /\ e.name \in Nat /\ d \in Seq(Nat) /\ p \in Seq(Nat)
      /\ DomainOf(c) = d /\ DomainOf(e) = d /\ PathOf(c) = p /\ PathOf(e) = p
  BY DEF OfPath, TypeOf, DomainOf, PathOf
<1>2. ~Before(d, d) /\ ~Before(p, p)
  BY <1>1 DEF Before
<1> QED BY <1>1, <1>2 DEF Less, Identity

\* A search in a tree that is in order ends between the nodes that are less and the
\* others.
LEMMA GapSplits ==
  ASSUME NEW D \in Shapes, NEW lefts, NEW i \in D,
         \A j, k \in D : Rank[j] < Rank[k] /\ j \in lefts => k \in lefts
  PROVE  LET g == Descend(D, 1, lefts)
         IN (Rank[i] < Rank[g] => i \notin lefts) /\ (Rank[g] < Rank[i] => i \in lefts)
<1>0. /\ Rank[1] = 8 /\ Rank[2] = 4 /\ Rank[3] = 12 /\ Rank[4] = 2 /\ Rank[5] = 6
      /\ Rank[6] = 10 /\ Rank[7] = 14 /\ Rank[8] = 1 /\ Rank[9] = 3 /\ Rank[10] = 5
      /\ Rank[11] = 7 /\ Rank[12] = 9 /\ Rank[13] = 11 /\ Rank[14] = 13 /\ Rank[15] = 15
  BY DEF Rank
<1>1. CASE D = {1} BY <1>0, <1>1 DEF Descend
<1>2. CASE D = {1, 2} BY <1>0, <1>2 DEF Descend
<1>3. CASE D = {1, 3} BY <1>0, <1>3 DEF Descend
<1>4. CASE D = {1, 2, 3} BY <1>0, <1>4 DEF Descend
<1>5. CASE D = {1, 2, 3, 4} BY <1>0, <1>5 DEF Descend
<1>6. CASE D = {1, 2, 3, 5} BY <1>0, <1>6 DEF Descend
<1>7. CASE D = {1, 2, 3, 6} BY <1>0, <1>7 DEF Descend
<1>8. CASE D = {1, 2, 3, 7} BY <1>0, <1>8 DEF Descend
<1> QED BY <1>1, <1>2, <1>3, <1>4, <1>5, <1>6, <1>7, <1>8 DEF Shapes

\* equal_range() in a tree that is in order: the one node, and nothing beside it.
LEMMA MatchSplits ==
  ASSUME NEW D \in Shapes, NEW e \in D
  PROVE  LET U == {i \in D : Rank[i] < Rank[e]}
             A == {i \in D : Rank[e] < Rank[i]}
         IN /\ Descend(A \cup U, 1, D \ U) = e
            /\ {i \in D : Rank[i] < Rank[Descend(D, 2 * e, D \ U)]} = U
            /\ {i \in D : Rank[i] < Rank[Descend(D, 2 * e + 1, A)]} = U \cup {e}
<1>0. /\ Rank[1] = 8 /\ Rank[2] = 4 /\ Rank[3] = 12 /\ Rank[4] = 2 /\ Rank[5] = 6
      /\ Rank[6] = 10 /\ Rank[7] = 14 /\ Rank[8] = 1 /\ Rank[9] = 3 /\ Rank[10] = 5
      /\ Rank[11] = 7 /\ Rank[12] = 9 /\ Rank[13] = 11 /\ Rank[14] = 13 /\ Rank[15] = 15
  BY DEF Rank
<1> DEFINE U == {i \in D : Rank[i] < Rank[e]}
           A == {i \in D : Rank[e] < Rank[i]}
           m == Descend(A \cup U, 1, D \ U)
           lower == Descend(D, 2 * e, D \ U)
           upper == Descend(D, 2 * e + 1, A)
<1>1. e \in 1..7 /\ D \subseteq 1..7
  BY ShapeSizes
<1>2. CASE e = 1
  <2>1. m = e
    BY <1>0, <1>1, <1>2 DEF Descend, Shapes
  <2>2. {i \in D : Rank[i] < Rank[lower]} = U
    BY <1>0, <1>2 DEF Descend, Shapes
  <2>3. {i \in D : Rank[i] < Rank[upper]} = U \cup {e}
    BY <1>0, <1>2 DEF Descend, Shapes
  <2> QED BY <2>1, <2>2, <2>3
<1>3. CASE e = 2
  <2>1. m = e
    BY <1>0, <1>1, <1>3 DEF Descend, Shapes
  <2>2. {i \in D : Rank[i] < Rank[lower]} = U
    BY <1>0, <1>3 DEF Descend, Shapes
  <2>3. {i \in D : Rank[i] < Rank[upper]} = U \cup {e}
    BY <1>0, <1>3 DEF Descend, Shapes
  <2> QED BY <2>1, <2>2, <2>3
<1>4. CASE e = 3
  <2>1. m = e
    BY <1>0, <1>1, <1>4 DEF Descend, Shapes
  <2>2. {i \in D : Rank[i] < Rank[lower]} = U
    BY <1>0, <1>4 DEF Descend, Shapes
  <2>3. {i \in D : Rank[i] < Rank[upper]} = U \cup {e}
    BY <1>0, <1>4 DEF Descend, Shapes
  <2> QED BY <2>1, <2>2, <2>3
<1>5. CASE e = 4
  <2>1. m = e
    BY <1>0, <1>1, <1>5 DEF Descend, Shapes
  <2>2. {i \in D : Rank[i] < Rank[lower]} = U
    BY <1>0, <1>5 DEF Descend, Shapes
  <2>3. {i \in D : Rank[i] < Rank[upper]} = U \cup {e}
    BY <1>0, <1>5 DEF Descend, Shapes
  <2> QED BY <2>1, <2>2, <2>3
<1>6. CASE e = 5
  <2>1. m = e
    BY <1>0, <1>1, <1>6 DEF Descend, Shapes
  <2>2. {i \in D : Rank[i] < Rank[lower]} = U
    BY <1>0, <1>6 DEF Descend, Shapes
  <2>3. {i \in D : Rank[i] < Rank[upper]} = U \cup {e}
    BY <1>0, <1>6 DEF Descend, Shapes
  <2> QED BY <2>1, <2>2, <2>3
<1>7. CASE e = 6
  <2>1. m = e
    BY <1>0, <1>1, <1>7 DEF Descend, Shapes
  <2>2. {i \in D : Rank[i] < Rank[lower]} = U
    BY <1>0, <1>7 DEF Descend, Shapes
  <2>3. {i \in D : Rank[i] < Rank[upper]} = U \cup {e}
    BY <1>0, <1>7 DEF Descend, Shapes
  <2> QED BY <2>1, <2>2, <2>3
<1>8. CASE e = 7
  <2>1. m = e
    BY <1>0, <1>1, <1>8 DEF Descend, Shapes
  <2>2. {i \in D : Rank[i] < Rank[lower]} = U
    BY <1>0, <1>8 DEF Descend, Shapes
  <2>3. {i \in D : Rank[i] < Rank[upper]} = U \cup {e}
    BY <1>0, <1>8 DEF Descend, Shapes
  <2> QED BY <2>1, <2>2, <2>3
<1> QED BY <1>1, <1>2, <1>3, <1>4, <1>5, <1>6, <1>7, <1>8

\* The cookies of a tree in order are in order.
LEMMA InOrderSorted ==
  ASSUME NEW t, DOMAIN t \subseteq 1..15, Sorted(t), NEW k \in 1..Nodes(t), NEW l \in 1..Nodes(t),
         k < l
  PROVE  InOrder(t)[k].name < InOrder(t)[l].name
<1> DEFINE i == NodeAt(t, k - 1)
           j == NodeAt(t, l - 1)
<1>1. IsFiniteSet(DOMAIN t) /\ Nodes(t) \in Nat
  BY NodeNumbers
<1>2. /\ i \in DOMAIN t /\ Cardinality(Smaller(t, i)) = k - 1
      /\ j \in DOMAIN t /\ Cardinality(Smaller(t, j)) = l - 1
  <2>1. k - 1 \in 0..(Nodes(t) - 1) /\ l - 1 \in 0..(Nodes(t) - 1)
    BY <1>1
  <2> QED BY <2>1, NodeNumbers
<1>3. InOrder(t)[k] = t[i] /\ InOrder(t)[l] = t[j]
  BY <1>1 DEF InOrder, Nodes
<1> HIDE DEF i, j
<1>4. Rank[i] \in 1..15 /\ Rank[j] \in 1..15
  BY <1>2, RankOrder
<1>5. Rank[i] < Rank[j]
  <2> SUFFICES ASSUME Rank[j] <= Rank[i]
               PROVE  FALSE
    BY <1>4
  <2>1. Smaller(t, j) \in SUBSET Smaller(t, i)
    <3>1. \A h \in DOMAIN t : Rank[h] \in 1..15
      BY RankOrder
    <3> QED BY <1>4, <3>1 DEF Smaller
  <2>2. Smaller(t, i) \in SUBSET DOMAIN t
    BY DEF Smaller
  <2>3. IsFiniteSet(Smaller(t, i))
    BY <1>1, <2>2, FS_Subset
  <2>4. Cardinality(Smaller(t, j)) <= Cardinality(Smaller(t, i))
    BY <2>1, <2>3, FS_Subset
  <2> QED BY <1>1, <1>2, <2>4
<1> QED BY <1>2, <1>3, <1>5 DEF Sorted

\* The tree of three nodes is in order when the sequence is.
LEMMA BalancedSorted ==
  ASSUME NEW C, NEW s \in Seq(C), Len(s) = 3,
         \A k, l \in 1..3 : k < l => s[k].name < s[l].name
  PROVE  Sorted(Balanced(s))
<1> DEFINE b == Balanced(s)
<1>1. DOMAIN b = {1, 2, 3} /\ b[2] = s[1] /\ b[1] = s[2] /\ b[3] = s[3]
  BY BalancedIs
<1>2. s[1].name < s[2].name /\ s[2].name < s[3].name /\ s[1].name < s[3].name
  OBVIOUS
<1>3. Rank[1] = 8 /\ Rank[2] = 4 /\ Rank[3] = 12
  BY DEF Rank
<1> HIDE DEF b
<1>4. ASSUME NEW i \in {1, 2, 3}, NEW j \in {1, 2, 3}, Rank[i] < Rank[j]
      PROVE  b[i].name < b[j].name
  BY <1>1, <1>2, <1>3, <1>4
<1> QED BY <1>1, <1>4 DEF Sorted, b

\* A tree without one of its nodes is in order if it was.
LEMMA EraseAtSorted ==
  ASSUME NEW C, NEW t \in Trees(C), Sorted(t), NEW i \in DOMAIN t
  PROVE  Sorted(EraseAt(t, i))
<1> DEFINE D == DOMAIN t
           n == Nodes(t)
           u == EraseAt(t, i)
           r == Without(t, i)
           heir == IF 3 \in D THEN 3 ELSE 2
           w == Without(t, heir)
           v == [w EXCEPT ![1] = t[heir]]
<1>1. t \in [D -> C] /\ D \in Shapes /\ D \subseteq 1..7 /\ n \in 0..4
  BY TreeIs
<1>2. /\ r \in [D \ {i} -> C] /\ DOMAIN r = D \ {i}
      /\ \A j \in D \ {i} : r[j] = t[j]
      /\ Nodes(r) = n - 1 /\ DOMAIN r \subseteq 1..7
  BY WithoutIs
<1>3. Sorted(r)
  <2> HIDE DEF r
  <2> QED BY <1>2 DEF Sorted
<1>4. /\ n = 0 <=> D = {}
      /\ n = 1 <=> D = {1}
      /\ n = 2 <=> D \in {{1, 2}, {1, 3}}
      /\ n = 3 <=> D = {1, 2, 3}
      /\ n = 4 <=> \E g \in 4..7 : D = {1, 2, 3, g}
  BY <1>1, ShapeSizes DEF Nodes
<1>5. u = IF n = 4 THEN Balanced(InOrder(r)) ELSE IF n > 1 /\ i = 1 THEN v ELSE r
  BY DEF EraseAt, Nodes
<1> HIDE DEF u, n
<1>6. CASE n = 4
  <2> HIDE DEF r
  <2>1. DOMAIN r \subseteq 1..15 /\ (\A j \in DOMAIN r : r[j] \in C) /\ Nodes(r) = 3
    BY <1>2, <1>6
  <2>2. InOrder(r) \in Seq(C) /\ Len(InOrder(r)) = 3
    BY <2>1, InOrderHolds
  <2>3. \A k, l \in 1..3 : k < l => InOrder(r)[k].name < InOrder(r)[l].name
    BY <1>3, <2>1, InOrderSorted
  <2>4. Sorted(Balanced(InOrder(r)))
    BY <2>2, <2>3, BalancedSorted
  <2> QED BY <1>5, <1>6, <2>4 DEF u
<1>7. CASE n # 4 /\ ~(n > 1 /\ i = 1)
  BY <1>3, <1>5, <1>7 DEF u
<1>8. CASE n # 4 /\ n > 1 /\ i = 1
  <2>1. u = v /\ heir \in D /\ heir \in {2, 3} /\ 1 \in D
    BY <1>1, <1>4, <1>5, <1>8
  <2>2. D \in {{1, 2}, {1, 3}, {1, 2, 3}}
    BY <1>1, <1>4, <1>8
  <2>3. Rank[1] = 8 /\ Rank[2] = 4 /\ Rank[3] = 12
    BY DEF Rank
  <2>4. w \in [D \ {heir} -> C] /\ \A j \in D \ {heir} : w[j] = t[j]
    <3> HIDE DEF heir
    <3> QED BY <2>1, WithoutIs
  <2> HIDE DEF w
  <2>5. DOMAIN v = D \ {heir} /\ v[1] = t[heir] /\ \A j \in D \ {1, heir} : v[j] = t[j]
    BY <2>1, <2>4
  <2> HIDE DEF v
  <2>6. CASE D = {1, 2} \/ D = {1, 3}
    <3>1. DOMAIN v = {1}
      BY <2>5, <2>6
    <3> QED BY <2>1, <2>3, <3>1 DEF Sorted, u
  <2>7. CASE D = {1, 2, 3}
    <3>1. DOMAIN v = {1, 2} /\ v[1] = t[3] /\ v[2] = t[2]
      BY <2>5, <2>7
    <3>2. t[2].name < t[3].name
      BY <2>3, <2>7 DEF Sorted
    <3>3. ASSUME NEW j \in {1, 2}, NEW k \in {1, 2}, Rank[j] < Rank[k]
          PROVE  v[j].name < v[k].name
      BY <2>3, <3>1, <3>2, <3>3
    <3> QED BY <2>1, <3>1, <3>3 DEF Sorted, u
  <2> QED BY <2>2, <2>6, <2>7
<1> QED BY <1>6, <1>7, <1>8

\* Two cookies of a tree in order have not the same name.
LEMMA NamesDiffer ==
  ASSUME NEW C, NEW t \in Trees(C), Sorted(t), \A c \in C : c.name \in Nat,
         NEW i \in DOMAIN t, NEW j \in DOMAIN t, t[i].name = t[j].name
  PROVE  i = j
<1>1. Rank[i] \in 1..15 /\ Rank[j] \in 1..15 /\ (Rank[i] = Rank[j] => i = j)
  <2>1. i \in 1..15 /\ j \in 1..15
    BY TreeIs
  <2> QED BY <2>1, RankOrder
<1>2. t[i].name \in Nat /\ t[j].name \in Nat
  BY TreeIs
<1>3. ~(Rank[i] < Rank[j]) /\ ~(Rank[j] < Rank[i])
  BY <1>2 DEF Sorted
<1> QED BY <1>1, <1>3

\* In a tree that is in order erase() by key takes the cookie of that name, and no
\* other.
LEMMA EraseKeySorted ==
  ASSUME NEW d, NEW p, NEW t \in Trees(OfPath(d, p)), Sorted(t), NEW c \in OfPath(d, p)
  PROVE  /\ Sorted(EraseKey(t, c))
         /\ Range(EraseKey(t, c)) = {e \in Range(t) : e.name # c.name}
<1> DEFINE C == OfPath(d, p)
           D == DOMAIN t
           A == Above(t, c)
           U == Under(t, c)
           m == Match(t, c)
<1>1. t \in [D -> C] /\ D \in Shapes /\ IsFiniteSet(D) /\ D \subseteq 1..7
  BY TreeIs
<1>2. /\ c.name \in Nat
      /\ \A i \in D : /\ t[i].name \in Nat /\ t[i] \in C
                      /\ i \in A <=> c.name < t[i].name
                      /\ i \in U <=> t[i].name < c.name
  <2>1. \A i \in D : t[i] \in C
    BY <1>1
  <2> QED BY <2>1, LessIs DEF Above, Under
<1>3. A \subseteq D /\ U \subseteq D
  BY DEF Above, Under
<1> HIDE DEF C
<1>4. \A i \in D : Rank[i] \in 1..15
  BY <1>1, RankOrder
<1>5. CASE \E e \in D : t[e].name = c.name
  <2>1. PICK e \in D : t[e].name = c.name
    BY <1>5
  <2>2. \A i \in D : /\ Rank[i] < Rank[e] => t[i].name < c.name
                     /\ Rank[e] < Rank[i] => c.name < t[i].name
                     /\ Rank[i] = Rank[e] => i = e
    <3>1. \A i \in 1..15 : Rank[i] = Rank[e] => i = e
      BY <1>1, RankOrder
    <3> QED BY <1>1, <2>1, <3>1 DEF Sorted
  <2>3. A = {i \in D : Rank[e] < Rank[i]} /\ U = {i \in D : Rank[i] < Rank[e]}
    BY <1>2, <1>3, <1>4, <2>1, <2>2
  <2>4. /\ Descend(A \cup U, 1, D \ U) = e
        /\ {i \in D : Rank[i] < Rank[Descend(D, 2 * e, D \ U)]} = U
        /\ {i \in D : Rank[i] < Rank[Descend(D, 2 * e + 1, A)]} = U \cup {e}
    <3> HIDE DEF A, U
    <3> QED BY <1>1, <2>3, MatchSplits
  <2>5. m = e
    BY <2>4 DEF Match
  <2>6. e \notin U /\ IsFiniteSet(U) /\ Cardinality(U) \in Nat
        /\ Cardinality(U \cup {e}) = Cardinality(U) + 1
    <3>1. e \notin U
      BY <1>2, <2>1
    <3>2. U \in SUBSET D
      BY <1>3
    <3> HIDE DEF U
    <3> QED BY <1>1, <3>1, <3>2, FS_Subset, FS_CardinalityType, FS_AddElement
  <2> DEFINE first == Cardinality(U)
             s == [k \in 1..1 |-> first]
  <2>7. EraseKey(t, c) = FoldLeft(EraseNth, t, s)
    <3> DEFINE lower == Descend(D, 2 * m, D \ U)
               upper == Descend(D, 2 * m + 1, A)
    <3>1. Smaller(t, lower) = U /\ Smaller(t, upper) = U \cup {e}
      BY <2>4, <2>5 DEF Smaller
    <3>2. EraseKey(t, c) =
            IF m \in D
              THEN FoldLeft(EraseNth, t,
                            [k \in 1..(Cardinality(Smaller(t, upper)) - Cardinality(Smaller(t, lower)))
                               |-> Cardinality(Smaller(t, lower))])
              ELSE t
      BY DEF EraseKey
    <3> HIDE DEF lower, upper, m, A, U
    <3>3. Cardinality(Smaller(t, upper)) - Cardinality(Smaller(t, lower)) = 1
      BY <2>6, <3>1
    <3> QED BY <2>1, <2>5, <3>1, <3>2, <3>3
  <2>8. NodeAt(t, first) = e
    <3>1. Smaller(t, e) = U
      BY <2>3 DEF Smaller
    <3>2. DOMAIN t \subseteq 1..15
      BY <1>1
    <3> QED BY <3>1, <3>2, <2>1, NodeNumbers
  <2> HIDE DEF first
  <2> DEFINE G == [k \in 0..1 |-> IF k = 0 THEN {t} ELSE {EraseNth(t, first)}]
  <2>9. s \in Seq({first}) /\ Len(s) = 1 /\ s[1] = first
    OBVIOUS
  <2> HIDE DEF s
  <2>10. Erases!Folded(t, s) \in G[Len(s)]
    <3>1. t \in G[0]
      OBVIOUS
    <3>2. ASSUME NEW k \in 1..Len(s), NEW x \in G[k - 1]
          PROVE  EraseNth(x, s[k]) \in G[k]
      <4>1. k = 1
        BY <2>9
      <4> QED BY <2>9, <4>1
    <3> HIDE DEF G
    <3> QED BY <2>9, <3>1, <3>2, Erases!FoldAlong
  <2>11. Erases!Folded(t, s) = FoldLeft(EraseNth, t, s)
    BY DEF FoldLeft, MapThenFoldSet, Max, Erases!Folded, Erases!FoldLeft,
           Erases!MapThenFoldSet, Erases!Max
  <2>12. EraseKey(t, c) = EraseAt(t, e)
    <3>1. G[Len(s)] = {EraseNth(t, first)}
      BY <2>9
    <3>2. FoldLeft(EraseNth, t, s) = EraseNth(t, first)
      BY <2>10, <2>11, <3>1
    <3> QED BY <2>7, <2>8, <3>2 DEF EraseNth
  <2>13. Sorted(EraseAt(t, e)) /\ Range(EraseAt(t, e)) = {t[j] : j \in D \ {e}}
    BY EraseAtSorted, EraseAtIs DEF C
  <2>14. {t[j] : j \in D \ {e}} = {x \in Range(t) : x.name # c.name}
    <3>1. \A j \in D : t[j].name = c.name <=> j = e
      <4>1. \A x \in OfPath(d, p) : x.name \in Nat
        BY LessIs
      <4>2. \A j \in D : t[j].name = t[e].name => j = e
        BY <4>1, NamesDiffer
      <4> QED BY <2>1, <4>2
    <3> QED BY <3>1 DEF Range
  <2> QED BY <2>12, <2>13, <2>14
<1>6. CASE \A e \in D : t[e].name # c.name
  <2>1. A \cup U = D
    BY <1>2, <1>3, <1>6
  <2>2. m \notin D
    BY <1>1, <2>1, GapIs DEF Match
  <2>3. EraseKey(t, c) = t
    BY <2>2 DEF EraseKey
  <2>4. Range(t) = {e \in Range(t) : e.name # c.name}
    BY <1>6 DEF Range
  <2> QED BY <2>3, <2>4
<1> QED BY <1>5, <1>6

\* Of a tree that is in order the cookies with the names of s are taken.
LEMMA PruneSorted ==
  ASSUME NEW d, NEW p, NEW t \in Trees(OfPath(d, p)), Sorted(t), NEW s \in Seq(OfPath(d, p))
  PROVE  LET u == FoldLeft(EraseKey, t, s)
         IN Sorted(u) /\ Range(u) = {e \in Range(t) : \A j \in 1..Len(s) : e.name # s[j].name}
<1> DEFINE C == OfPath(d, p)
           G == [k \in 0..Len(s) |->
                   {u \in Trees(C) :
                      /\ Sorted(u)
                      /\ Range(u) = {e \in Range(t) : \A j \in 1..k : e.name # s[j].name}}]
<1>1. Len(s) \in Nat
  OBVIOUS
<1>2. t \in G[0]
  <2>1. Range(t) = {e \in Range(t) : \A j \in 1..0 : e.name # s[j].name}
    OBVIOUS
  <2> QED BY <1>1, <2>1
<1>3. ASSUME NEW k \in 1..Len(s), NEW x \in G[k - 1]
      PROVE  EraseKey(x, s[k]) \in G[k]
  <2>1. k - 1 \in 0..Len(s) /\ k \in 0..Len(s) /\ k \in Nat /\ s[k] \in C
    BY <1>1
  <2>2. /\ x \in Trees(C) /\ Sorted(x)
        /\ Range(x) = {e \in Range(t) : \A j \in 1..(k - 1) : e.name # s[j].name}
    BY <2>1
  <2> DEFINE u == EraseKey(x, s[k])
  <2>3. u \in Trees(C)
    BY <2>2, EraseKeyIs DEF Remains
  <2>4. Sorted(u) /\ Range(u) = {e \in Range(x) : e.name # s[k].name}
    BY <2>1, <2>2, EraseKeySorted
  <2>5. 1..k = 1..(k - 1) \cup {k}
    BY <2>1
  <2> HIDE DEF u, C
  <2>6. Range(u) = {e \in Range(t) : \A j \in 1..k : e.name # s[j].name}
    BY <2>2, <2>4, <2>5
  <2> QED BY <2>1, <2>3, <2>4, <2>6 DEF u
<1>4. Prunes!Folded(t, s) \in G[Len(s)]
  <2> HIDE DEF G
  <2> QED BY <1>2, <1>3, Prunes!FoldAlong
<1>5. Prunes!Folded(t, s) = FoldLeft(EraseKey, t, s)
  BY DEF FoldLeft, MapThenFoldSet, Max, Prunes!Folded, Prunes!FoldLeft,
         Prunes!MapThenFoldSet, Prunes!Max
<1> QED BY <1>1, <1>4, <1>5

\* In a tree that is in order the place for a new cookie is between those less and
\* those greater.
LEMMA GapSorted ==
  ASSUME NEW d, NEW p, NEW t \in Trees(OfPath(d, p)), Sorted(t), NEW c \in OfPath(d, p),
         ~Found(t, c)
  PROVE  LET g == Gap(t, c)
         IN \A i \in DOMAIN t : \/ Rank[i] < Rank[g] /\ t[i].name < c.name
                                \/ Rank[g] < Rank[i] /\ c.name < t[i].name
<1> DEFINE C == OfPath(d, p)
           D == DOMAIN t
           g == Gap(t, c)
           q == Predecessor(t, g)
<1>1. t \in [D -> C] /\ D \in Shapes /\ IsFiniteSet(D) /\ D \subseteq 1..7 /\ Nodes(t) \in 0..4
  BY TreeIs
<1>2. g \in 1..15 /\ g \notin D
  BY <1>1, GapIs DEF Gap
<1>3. /\ c.name \in Nat
      /\ \A i \in D : /\ t[i].name \in Nat /\ t[i] \in C
                      /\ i \in Above(t, c) <=> c.name < t[i].name
                      /\ Less(t[i], c) <=> t[i].name < c.name
  <2>1. \A i \in D : t[i] \in C
    BY <1>1
  <2> QED BY <2>1, LessIs DEF Above
<1>4. /\ Rank[g] \in 1..15
      /\ \A i \in D : Rank[i] \in 1..15 /\ Rank[i] # Rank[g]
  BY <1>1, <1>2, RankOrder
<1>5. \A i \in D : /\ Rank[i] < Rank[g] => i \notin Above(t, c)
                   /\ Rank[g] < Rank[i] => i \in Above(t, c)
  <2>1. \A j, k \in D : Rank[j] < Rank[k] /\ j \in Above(t, c) => k \in Above(t, c)
    BY <1>3 DEF Sorted
  <2> QED BY <1>1, <2>1, GapSplits DEF Gap
<1>6. \A i \in D : Rank[g] < Rank[i] => c.name < t[i].name
  BY <1>3, <1>5
<1>7. \A i \in D : Rank[i] < Rank[g] => t[i].name < c.name
  <2> SUFFICES ASSUME NEW i \in D, Rank[i] < Rank[g]
               PROVE  t[i].name < c.name
    OBVIOUS
  <2>1. i \in Smaller(t, g)
    BY DEF Smaller
  <2>2. DOMAIN t \subseteq 1..15
    BY <1>1
  <2>3. /\ q \in D /\ Rank[q] < Rank[g]
        /\ \A j \in D : Rank[j] < Rank[g] => Rank[j] <= Rank[q]
    <3>1. Smaller(t, g) # {}
      BY <2>1
    <3> HIDE DEF g
    <3> QED BY <2>2, <3>1, PredecessorIs
  <2>4. Less(t[q], c)
    BY <2>1 DEF Found
  <2> HIDE DEF g, q, C
  <2>5. t[q].name < c.name
    BY <1>3, <2>3, <2>4
  <2>6. CASE i = q
    BY <2>5, <2>6
  <2>7. CASE i # q
    <3>1. Rank[i] < Rank[q]
      <4>1. Rank[i] <= Rank[q] /\ Rank[i] # Rank[q] /\ Rank[i] \in 1..15 /\ Rank[q] \in 1..15
        <5>1. i \in 1..15 /\ q \in 1..15
          BY <1>1, <2>3
        <5> QED BY <2>3, <2>7, <5>1, RankOrder
      <4> QED BY <4>1
    <3>2. t[i].name < t[q].name
      BY <2>3, <3>1 DEF Sorted
    <3>3. t[i].name \in Nat /\ t[q].name \in Nat
      BY <1>3, <2>3
    <3> QED BY <1>3, <2>5, <3>2, <3>3
  <2> QED BY <2>6, <2>7
<1> QED BY <1>4, <1>6, <1>7

\* A tree that is in order stays so with a cookie that is not in it.
LEMMA PlaceSorted ==
  ASSUME NEW d, NEW p, NEW t \in Trees(OfPath(d, p)), Sorted(t), NEW c \in OfPath(d, p),
         Nodes(t) <= 3, ~Found(t, c)
  PROVE  Sorted(Place(t, Gap(t, c), c))
<1> DEFINE C == OfPath(d, p)
           D == DOMAIN t
           g == Gap(t, c)
           new == [i \in D \cup {g} |-> IF i = g THEN c ELSE t[i]]
           u == Place(t, g, c)
<1>1. t \in [D -> C] /\ D \in Shapes /\ D \subseteq 1..7
  BY TreeIs
<1>2. g \in 1..15 /\ g \notin D
  BY <1>1, GapIs DEF Gap
<1>3. \A i \in D : \/ Rank[i] < Rank[g] /\ t[i].name < c.name
                   \/ Rank[g] < Rank[i] /\ c.name < t[i].name
  BY GapSorted
<1>4. /\ Rank[g] \in 1..15
      /\ \A i \in D : Rank[i] \in 1..15
  BY <1>1, <1>2, RankOrder
<1>8. /\ DOMAIN new = D \cup {g} /\ new[g] = c /\ \A i \in D : new[i] = t[i]
      /\ new \in [D \cup {g} -> C]
  BY <1>1, <1>2
<1> HIDE DEF new, g
<1>9. Sorted(new)
  <2> SUFFICES ASSUME NEW i \in D \cup {g}, NEW j \in D \cup {g}, Rank[i] < Rank[j]
               PROVE  new[i].name < new[j].name
    BY <1>8 DEF Sorted
  <2>1. CASE i = g /\ j = g
    BY <1>4, <2>1
  <2>2. CASE i = g /\ j \in D
    BY <1>3, <1>4, <1>8, <2>2
  <2>3. CASE i \in D /\ j = g
    BY <1>3, <1>4, <1>8, <2>3
  <2>4. CASE i \in D /\ j \in D
    BY <1>8, <2>4 DEF Sorted
  <2> QED BY <2>1, <2>2, <2>3, <2>4
<1>10. u = IF Nodes(new) = 3 THEN Balanced(InOrder(new)) ELSE new
  BY DEF Place, Nodes, new
<1>11. CASE Nodes(new) = 3
  <2>1. DOMAIN new \subseteq 1..15 /\ \A i \in DOMAIN new : new[i] \in C
    BY <1>1, <1>2, <1>8
  <2> HIDE DEF C
  <2>2. InOrder(new) \in Seq(C) /\ Len(InOrder(new)) = 3
    BY <1>11, <2>1, InOrderHolds
  <2>3. \A k, l \in 1..3 : k < l => InOrder(new)[k].name < InOrder(new)[l].name
    BY <1>9, <1>11, <2>1, InOrderSorted
  <2>4. Sorted(Balanced(InOrder(new)))
    BY <2>2, <2>3, BalancedSorted
  <2> QED BY <1>10, <1>11, <2>4 DEF g
<1> QED BY <1>9, <1>10, <1>11 DEF g

\* A tree of other cookies, of fewer.
LEMMA TreeOfThose ==
  ASSUME NEW C, NEW t \in Trees(C), NEW B, Range(t) \subseteq B
  PROVE  t \in Trees(B)
<1>1. t \in [DOMAIN t -> C] /\ DOMAIN t \in Shapes
  BY TreeIs
<1>2. t \in [DOMAIN t -> B]
  BY <1>1 DEF Range
<1> QED BY <1>1, <1>2 DEF Trees

\* A place for a fifth node there is, but no shape has five.
LEMMA FifthNode ==
  ASSUME NEW C, NEW t \in Trees(C), NEW c, Nodes(t) = 4, ~Found(t, c)
  PROVE  Cardinality(DOMAIN Insert(t, c)) = 5
<1> DEFINE D == DOMAIN t
           g == Gap(t, c)
           new == [i \in D \cup {g} |-> IF i = g THEN c ELSE t[i]]
<1>1. D \in Shapes /\ IsFiniteSet(D)
  BY TreeIs
<1>2. g \notin D
  BY <1>1, GapIs DEF Gap
<1>3. DOMAIN new = D \cup {g}
  OBVIOUS
<1>4. Cardinality(D \cup {g}) = 5
  <2> HIDE DEF g
  <2>1. Cardinality(D) = 4
    BY DEF Nodes
  <2> QED BY <1>1, <1>2, <2>1, FS_AddElement
<1>5. Insert(t, c) = IF Cardinality(DOMAIN new) = 3 THEN Balanced(InOrder(new)) ELSE new
  BY DEF Insert, Place
<1> HIDE DEF new, g
<1> QED BY <1>3, <1>4, <1>5

\* cookies_list_t::add(): afterwards there is the cookie, and of each that there was one
\* with its name, domain and path.
LEMMA ListAddIs ==
  ASSUME NEW C, C \subseteq TypeOf, NEW t \in Trees(C), NEW c \in C,
         Cardinality(DOMAIN ListAdd(t, c)) <= 4
  PROVE  LET u == ListAdd(t, c)
         IN /\ u \in Trees(C) /\ Range(u) \subseteq Range(t) \cup {c}
            /\ \A e \in Range(t) \cup {c} : \E f \in Range(u) : Identity(f) = Identity(e)
<1> DEFINE q == Predecessor(t, Gap(t, c))
           r == EraseAt(t, q)
           u == ListAdd(t, c)
<1>1. t \in [DOMAIN t -> C] /\ Nodes(t) \in 0..4
  BY TreeIs
<1>2. CASE Found(t, c)
  <2>1. u = Insert(r, c)
    BY <1>2 DEF ListAdd
  <2>2. q \in DOMAIN t /\ ~Less(t[q], c) /\ ~Less(c, t[q])
    BY <1>2, FoundIs
  <2> HIDE DEF q
  <2>3. t[q] \in C /\ c \in TypeOf /\ t[q] \in TypeOf
    BY <1>1, <2>2
  <2>4. Identity(t[q]) = Identity(c)
    BY <2>2, <2>3, IdentityIs
  <2>5. r \in Trees(C) /\ Nodes(r) = Nodes(t) - 1 /\ Range(r) = {t[j] : j \in DOMAIN t \ {q}}
    BY <2>2, EraseAtIs
  <2> HIDE DEF r
  <2>6. /\ Insert(r, c) \in Trees(C)
        /\ Range(r) \subseteq Range(Insert(r, c)) /\ Range(Insert(r, c)) \subseteq Range(r) \cup {c}
        /\ \E f \in Range(Insert(r, c)) : Identity(f) = Identity(c)
    <3>1. Nodes(r) <= 3
      BY <1>1, <2>5
    <3> QED BY <2>5, <3>1, InsertIs
  <2>7. Range(r) \subseteq Range(t) /\ \A e \in Range(t) : e \in Range(r) \/ e = t[q]
    BY <2>2, <2>5 DEF Range
  <2> HIDE DEF u
  <2>8. ASSUME NEW e \in Range(t) \cup {c}
        PROVE  \E f \in Range(u) : Identity(f) = Identity(e)
    <3>1. CASE e \in Range(r)
      BY <2>1, <2>6, <3>1
    <3>2. CASE Identity(e) = Identity(c)
      BY <2>1, <2>6, <3>2
    <3> QED BY <2>4, <2>7, <3>1, <3>2
  <2>9. u \in Trees(C) /\ Range(u) \subseteq Range(t) \cup {c}
    BY <2>1, <2>6, <2>7
  <2> QED BY <2>8, <2>9 DEF u
<1>3. CASE ~Found(t, c)
  <2>1. u = Insert(t, c)
    BY <1>3 DEF ListAdd
  <2>2. Nodes(t) <= 3
    <3>1. CASE Nodes(t) = 4
      BY <1>3, <2>1, <3>1, FifthNode
    <3> QED BY <1>1, <3>1
  <2>3. /\ Insert(t, c) \in Trees(C)
        /\ Range(t) \subseteq Range(Insert(t, c)) /\ Range(Insert(t, c)) \subseteq Range(t) \cup {c}
        /\ \E f \in Range(Insert(t, c)) : Identity(f) = Identity(c)
    BY <2>2, InsertIs
  <2> HIDE DEF u
  <2>4. ASSUME NEW e \in Range(t) \cup {c}
        PROVE  \E f \in Range(u) : Identity(f) = Identity(e)
    BY <2>1, <2>3
  <2> QED BY <2>1, <2>3, <2>4 DEF u
<1> QED BY <1>2, <1>3

\* add() on one path: the cookie takes the place of the one of its name.
LEMMA ListAddSorted ==
  ASSUME NEW d, NEW p, NEW t \in Trees(OfPath(d, p)), Sorted(t), NEW c \in OfPath(d, p),
         Cardinality(DOMAIN ListAdd(t, c)) <= 4
  PROVE  LET u == ListAdd(t, c)
         IN Sorted(u) /\ Range(u) = {e \in Range(t) : e.name # c.name} \cup {c}
<1> DEFINE C == OfPath(d, p)
           q == Predecessor(t, Gap(t, c))
           r == EraseAt(t, q)
           u == ListAdd(t, c)
<1>1. t \in [DOMAIN t -> C] /\ Nodes(t) \in 0..4 /\ C \subseteq TypeOf /\ DOMAIN t \in Shapes
  BY TreeIs DEF OfPath
<1>2. \A x \in C : /\ x.name \in Nat /\ c.name \in Nat
                   /\ (Less(x, c) <=> x.name < c.name) /\ (Less(c, x) <=> c.name < x.name)
  BY LessIs
<1>3. \A x \in C : ~Less(x, c) /\ ~Less(c, x) => x.name = c.name
  BY <1>2
<1> HIDE DEF C
<1>4. CASE Found(t, c)
  <2>1. u = Insert(r, c)
    BY <1>4 DEF ListAdd
  <2>2. q \in DOMAIN t /\ ~Less(t[q], c) /\ ~Less(c, t[q])
    BY <1>4, FoundIs
  <2> HIDE DEF q
  <2>3. t[q].name = c.name
    BY <1>1, <1>3, <2>2
  <2>4. /\ r \in Trees(C) /\ Nodes(r) = Nodes(t) - 1 /\ Sorted(r)
        /\ Range(r) = {t[j] : j \in DOMAIN t \ {q}}
    BY <2>2, EraseAtIs, EraseAtSorted DEF C
  <2>5. Range(r) = {e \in Range(t) : e.name # c.name}
    <3>1. \A x \in OfPath(d, p) : x.name \in Nat
      BY LessIs
    <3>2. \A j \in DOMAIN t : t[j].name = t[q].name => j = q
      BY <2>2, <3>1, NamesDiffer
    <3> HIDE DEF r
    <3> QED BY <2>2, <2>3, <2>4, <3>2 DEF Range
  <2> HIDE DEF r
  <2>6. ~Found(r, c)
    <3> DEFINE h == Predecessor(r, Gap(r, c))
    <3> SUFFICES ASSUME Found(r, c)
                 PROVE  FALSE
      OBVIOUS
    <3>1. h \in DOMAIN r /\ ~Less(r[h], c) /\ ~Less(c, r[h])
      BY <2>4, FoundIs
    <3> HIDE DEF h
    <3>2. r[h] \in C /\ r[h] \in Range(r)
      BY <2>4, <3>1, TreeIs DEF Range
    <3>3. r[h].name = c.name
      BY <1>3, <3>1, <3>2
    <3> QED BY <2>5, <3>2, <3>3
  <2>7. Nodes(r) <= 3
    BY <1>1, <2>4
  <2>8. Insert(r, c) = Place(r, Gap(r, c), c)
    BY <2>6 DEF Insert
  <2>9. Sorted(Insert(r, c)) /\ Range(Insert(r, c)) = Range(r) \cup {c}
    BY <2>4, <2>6, <2>7, <2>8, PlaceSorted, PlaceIs DEF C
  <2> QED BY <2>1, <2>5, <2>9
<1>5. CASE ~Found(t, c)
  <2>1. u = Insert(t, c) /\ u = Place(t, Gap(t, c), c)
    BY <1>5 DEF ListAdd, Insert
  <2>2. Nodes(t) <= 3
    <3>1. CASE Nodes(t) = 4
      <4>1. Cardinality(DOMAIN Insert(t, c)) = 5
        BY <1>5, <3>1, FifthNode
      <4>2. Cardinality(DOMAIN Insert(t, c)) <= 4
        BY <2>1
      <4> QED BY <4>1, <4>2
    <3> QED BY <1>1, <3>1
  <2>3. Sorted(u) /\ Range(u) = Range(t) \cup {c}
    BY <1>5, <2>1, <2>2, PlaceSorted, PlaceIs
  <2>4. \A e \in Range(t) : e.name # c.name
    <3> SUFFICES ASSUME NEW j \in DOMAIN t, t[j].name = c.name
                 PROVE  FALSE
      BY DEF Range
    <3>1. t[j].name \in Nat
      BY <1>1, <1>2
    <3>2. t[j].name < c.name \/ c.name < t[j].name
      BY <1>5, GapSorted
    <3> QED BY <3>1, <3>2
  <2> QED BY <2>3, <2>4
<1> QED BY <1>4, <1>5

-----------------------------------------------------------------------------
(* The jar: what Add keeps.                                                *)

\* The cookies a domain may have: its own, from a host it goes with.
Filed(d) == {c \in TypeOf : DomainOf(c) = d /\ c.origin_domain # <<>>
                            /\ DomainMatched(d, c.origin_domain)}

\* Those it has: with a value, on one path the last that was set.
Held(d) == {c \in Filed(d) : /\ Identity(c) \in DOMAIN last
                             /\ OnePath(d) => c.value = last[Identity(c)]}

\* The nodes of the lists of some domains.
Spots(j, D) == UNION {{d} \X DOMAIN j[d] : d \in D}

\* A domain more, and its nodes.
LEMMA SpotsAdd ==
  ASSUME NEW j, NEW D, NEW d, d \notin D, IsFiniteSet(Spots(j, D)), IsFiniteSet(DOMAIN j[d])
  PROVE  /\ IsFiniteSet(Spots(j, D \cup {d}))
         /\ Cardinality(Spots(j, D \cup {d})) = Cardinality(Spots(j, D)) + Cardinality(DOMAIN j[d])
         /\ Cardinality(Spots(j, D)) \in Nat /\ Cardinality(DOMAIN j[d]) \in Nat
<1> DEFINE P == Spots(j, D)
           Q == {d} \X DOMAIN j[d]
<1>1. IsFiniteSet(Q) /\ Cardinality(Q) = Cardinality(DOMAIN j[d])
  <2>1. IsFiniteSet({d}) /\ Cardinality({d}) = 1
    BY FS_Singleton
  <2>2. Cardinality(DOMAIN j[d]) \in Nat
    BY FS_CardinalityType
  <2>3. IsFiniteSet(Q) /\ Cardinality(Q) = Cardinality({d}) * Cardinality(DOMAIN j[d])
    BY <2>1, FS_Product
  <2> QED BY <2>1, <2>2, <2>3
<1>2. Spots(j, D \cup {d}) = P \cup Q
  BY DEF Spots
<1>3. P \cap Q = {}
  BY DEF Spots
<1>4. Cardinality(P) \in Nat /\ Cardinality(DOMAIN j[d]) \in Nat
  BY FS_CardinalityType
<1> HIDE DEF P, Q
<1>5. /\ IsFiniteSet(P \cup Q)
      /\ Cardinality(P \cup Q) = Cardinality(P) + Cardinality(Q) - Cardinality(P \cap Q)
  BY <1>1, FS_Union DEF P
<1>6. Cardinality(P \cap Q) = 0
  BY <1>3, FS_EmptySet
<1>7. /\ IsFiniteSet(Spots(j, D \cup {d}))
      /\ Cardinality(Spots(j, D \cup {d})) = Cardinality(P) + Cardinality(DOMAIN j[d])
  <2> DEFINE n == Cardinality(DOMAIN j[d])
  <2>1. Cardinality(Q) = n /\ n \in Nat
    BY <1>1, <1>4
  <2> HIDE DEF n
  <2>2. Cardinality(P \cup Q) = Cardinality(P) + n
    BY <1>4, <1>5, <1>6, <2>1
  <2> QED BY <1>2, <1>5, <2>2 DEF n
<1> QED BY <1>4, <1>7 DEF P

\* Some domains have no more nodes than all.
LEMMA SpotsOfSome ==
  ASSUME NEW j, NEW D, NEW E, D \subseteq E, IsFiniteSet(Spots(j, E))
  PROVE  /\ IsFiniteSet(Spots(j, D)) /\ Cardinality(Spots(j, D)) \in Nat
         /\ Cardinality(Spots(j, E)) \in Nat
         /\ Cardinality(Spots(j, D)) <= Cardinality(Spots(j, E))
<1>1. Spots(j, D) \in SUBSET Spots(j, E)
  BY DEF Spots
<1> QED BY <1>1, FS_Subset, FS_CardinalityType

\* What the jar is at any time.
JarInv ==
  /\ \A d \in DOMAIN jar : jar[d] \in Trees(Held(d)) /\ (OnePath(d) => Sorted(jar[d]))
  /\ IsFiniteSet(Spots(jar, DOMAIN jar))
  /\ Cardinality(Spots(jar, DOMAIN jar)) <= Capacity

\* On one path: the cookies held are of one path.
LEMMA HeldOfPath ==
  ASSUME NEW d, OnePath(d), NEW t \in Trees(Held(d))
  PROVE  \E p : t \in Trees(OfPath(d, p))
<1>1. CASE Range(t) = {}
  <2>1. Range(t) \subseteq OfPath(d, 0)
    BY <1>1
  <2> QED BY <2>1, TreeOfThose
<1>2. CASE Range(t) # {}
  <2>1. PICK c : c \in Range(t)
    BY <1>2
  <2>2. Range(t) \subseteq Held(d)
    BY TreeIs DEF Range
  <2>3. ASSUME NEW e \in Range(t)
        PROVE  e \in OfPath(d, PathOf(c))
    <3>1. e \in Held(d) /\ c \in Held(d)
      BY <2>1, <2>2
    <3>2. Identity(e) \in DOMAIN last /\ Identity(c) \in DOMAIN last /\ e \in TypeOf
          /\ DomainOf(e) = d /\ DomainOf(c) = d
      BY <3>1 DEF Held, Filed
    <3>3. Identity(e)[2] = d /\ Identity(c)[2] = d /\ Identity(e)[3] = PathOf(e)
          /\ Identity(c)[3] = PathOf(c)
      BY <3>2 DEF Identity
    <3>4. PathOf(e) = PathOf(c)
      BY <3>2, <3>3 DEF OnePath
    <3> QED BY <3>2, <3>4 DEF OfPath
  <2> QED BY <2>3, TreeOfThose
<1> QED BY <1>1, <1>2

\* The size of what add() makes is a number.
LEMMA ListAddSize ==
  ASSUME NEW C, C \subseteq TypeOf, NEW t \in Trees(C), NEW c \in C
  PROVE  Cardinality(DOMAIN ListAdd(t, c)) \in Nat
<1> DEFINE q == Predecessor(t, Gap(t, c))
           r == EraseAt(t, q)
<1>1. Nodes(t) \in 0..4
  BY TreeIs
<1>2. CASE Found(t, c)
  <2>1. r \in Trees(C) /\ Nodes(r) = Nodes(t) - 1
    <3>1. q \in DOMAIN t
      BY <1>2, FoundIs
    <3> QED BY <3>1, EraseAtIs
  <2>2. Nodes(r) <= 3
    BY <1>1, <2>1
  <2> HIDE DEF r
  <2>3. Insert(r, c) \in Trees(C)
    BY <2>1, <2>2, InsertIs
  <2>4. ListAdd(t, c) = Insert(r, c)
    BY <1>2 DEF ListAdd, r
  <2> QED BY <2>3, <2>4, TreeIs DEF Nodes
<1>3. CASE ~Found(t, c) /\ Nodes(t) = 4
  <2>1. ListAdd(t, c) = Insert(t, c)
    BY <1>3 DEF ListAdd
  <2> QED BY <1>3, <2>1, FifthNode
<1>4. CASE ~Found(t, c) /\ Nodes(t) # 4
  <2>1. ListAdd(t, c) = Insert(t, c) /\ Nodes(t) <= 3
    BY <1>1, <1>4 DEF ListAdd
  <2>2. Insert(t, c) \in Trees(C)
    BY <2>1, InsertIs
  <2> QED BY <2>1, <2>2, TreeIs DEF Nodes
<1> QED BY <1>2, <1>3, <1>4

\* The cookie that is added.
LEMMA ReceivedIs ==
  ASSUME NEW r \in Received, NEW v \in Values
  PROVE  LET c == [f \in DOMAIN r \cup {"value"} |-> IF f = "value" THEN v ELSE r[f]]
         IN c \in TypeOf /\ c.value = v /\ c.origin_domain # <<>>
<1> DEFINE c == [f \in DOMAIN r \cup {"value"} |-> IF f = "value" THEN v ELSE r[f]]
<1>1. r \in [name : Nat, domain : Seq(Nat) \cup {None}, path : Seq(Nat) \cup {None},
             origin_domain : Seq(Nat) \ {<<>>}, origin_path : Seq(Nat),
             secure : BOOLEAN, expires : Nat \cup {None}]
  BY CookiesAssumption
<1>2. DOMAIN r = {"name", "domain", "path", "origin_domain", "origin_path", "secure", "expires"}
  BY <1>1
<1>3. c = [name |-> r.name, value |-> v, domain |-> r.domain, path |-> r.path,
           origin_domain |-> r.origin_domain, origin_path |-> r.origin_path,
           secure |-> r.secure, expires |-> r.expires]
  BY <1>2
<1> HIDE DEF c
<1>4. c \in TypeOf
  BY <1>1, <1>3 DEF TypeOf
<1>5. c.value = v /\ c.origin_domain # <<>>
  BY <1>1, <1>3
<1> QED BY <1>4, <1>5 DEF c

\* Of every cookie of a list there is one of its name, domain and path afterwards.
Kept(d) == \A c \in Range(jar[d]) : \E e \in Range(jar'[d]) : Identity(e) = Identity(c)

\* Add keeps the jar, and loses nothing.
LEMMA AddKeeps ==
  ASSUME JarInv, Add
  PROVE  JarInv' /\ \A d \in DOMAIN jar : Kept(d)
<1> DEFINE Made(r, v) == [f \in DOMAIN r \cup {"value"} |-> IF f = "value" THEN v ELSE r[f]]
<1>1. PICK r \in Received, v \in Values :
        LET c    == Made(r, v)
            d    == Home(c)
            list == ListAdd(Stored(d), c)
        IN /\ DomainMatched(d, c.origin_domain)
           /\ Count(DOMAIN jar \ {d}) + Cardinality(DOMAIN list) <= Capacity
           /\ jar' = [e \in DOMAIN jar \cup {d} |-> IF e = d THEN list ELSE jar[e]]
           /\ last' = [i \in DOMAIN last \cup {Identity(c)} |->
                         IF i = Identity(c) THEN v ELSE last[i]]
  BY DEF Add
<1> DEFINE c    == Made(r, v)
           d    == Home(c)
           t    == Stored(d)
           list == ListAdd(t, c)
<1>2. c \in TypeOf /\ c.value = v /\ c.origin_domain # <<>>
  BY ReceivedIs
<1>3. /\ DomainMatched(d, c.origin_domain) /\ d = DomainOf(c)
      /\ Count(DOMAIN jar \ {d}) + Cardinality(DOMAIN list) <= Capacity
      /\ jar' = [e \in DOMAIN jar \cup {d} |-> IF e = d THEN list ELSE jar[e]]
      /\ last' = [i \in DOMAIN last \cup {Identity(c)} |-> IF i = Identity(c) THEN v ELSE last[i]]
  BY <1>1 DEF Home
<1> HIDE DEF c, d, list
<1>4. c \in Filed(d)
  BY <1>2, <1>3 DEF Filed
<1>5. t \in Trees(Held(d)) /\ (OnePath(d) => Sorted(t))
  <2>1. CASE d \in DOMAIN jar
    BY <2>1 DEF JarInv, Stored
  <2>2. CASE d \notin DOMAIN jar
    <3>1. t = Empty
      BY <2>2 DEF Stored
    <3>2. DOMAIN Empty = {} /\ {} \in Shapes /\ Empty \in [{} -> Held(d)]
      BY DEF Empty, Shapes
    <3> QED BY <3>1, <3>2 DEF Trees, Sorted
  <2> QED BY <2>1, <2>2
<1>6. d \in DOMAIN jar => t = jar[d]
  BY DEF Stored
<1> HIDE DEF t
<1>7. t \in Trees(Filed(d)) /\ Filed(d) \subseteq TypeOf /\ Range(t) \subseteq Held(d)
  <2>1. Range(t) \subseteq Held(d)
    BY <1>5, TreeIs DEF Range
  <2>2. Range(t) \subseteq Filed(d)
    BY <2>1 DEF Held
  <2>3. t \in Trees(Filed(d))
    BY <1>5, <2>2, TreeOfThose
  <2> QED BY <2>1, <2>3 DEF Filed
<1>8. Cardinality(DOMAIN list) \in Nat
  BY <1>4, <1>7, ListAddSize DEF list
<1>9. /\ IsFiniteSet(Spots(jar, DOMAIN jar \ {d}))
      /\ Cardinality(Spots(jar, DOMAIN jar \ {d})) \in Nat
      /\ Count(DOMAIN jar \ {d}) = Cardinality(Spots(jar, DOMAIN jar \ {d}))
  <2>1. DOMAIN jar \ {d} \subseteq DOMAIN jar
    OBVIOUS
  <2> QED BY <2>1, SpotsOfSome DEF JarInv, Count, Spots
<1>10. Cardinality(DOMAIN list) <= 4
  BY <1>3, <1>8, <1>9, CookiesAssumption
<1>11. /\ list \in Trees(Filed(d)) /\ Range(list) \subseteq Range(t) \cup {c}
       /\ \A e \in Range(t) \cup {c} : \E f \in Range(list) : Identity(f) = Identity(e)
  BY <1>4, <1>7, <1>10, ListAddIs DEF list
<1>12. /\ DOMAIN jar' = DOMAIN jar \cup {d} /\ jar'[d] = list
       /\ \A e \in DOMAIN jar \ {d} : jar'[e] = jar[e]
  BY <1>3
<1>13. /\ DOMAIN last' = DOMAIN last \cup {Identity(c)} /\ last'[Identity(c)] = v
       /\ \A i \in DOMAIN last \ {Identity(c)} : last'[i] = last[i]
  BY <1>3
<1>14. \A e : OnePath(e)' => OnePath(e)
  BY <1>13 DEF OnePath
<1>15. IsFiniteSet(Spots(jar', DOMAIN jar')) /\ Cardinality(Spots(jar', DOMAIN jar')) <= Capacity
  <2> DEFINE E == DOMAIN jar \ {d}
  <2>1. Spots(jar', E) = Spots(jar, E)
    BY <1>12 DEF Spots
  <2>2. DOMAIN jar' = E \cup {d} /\ d \notin E /\ IsFiniteSet(DOMAIN jar'[d])
    BY <1>11, <1>12, TreeIs
  <2>3. /\ IsFiniteSet(Spots(jar', E \cup {d}))
        /\ Cardinality(Spots(jar', E \cup {d})) = Cardinality(Spots(jar', E)) + Cardinality(DOMAIN jar'[d])
    <3> HIDE DEF E
    <3>1. IsFiniteSet(Spots(jar', E))
      BY <1>9, <2>1 DEF E
    <3> QED BY <2>2, <3>1, SpotsAdd
  <2> QED BY <1>3, <1>9, <1>12, <2>1, <2>2, <2>3
<1>16. ASSUME NEW e \in DOMAIN jar', e # d
       PROVE  jar'[e] \in Trees(Held(e)') /\ (OnePath(e)' => Sorted(jar'[e]))
  <2>1. e \in DOMAIN jar /\ jar'[e] = jar[e]
    BY <1>12, <1>16
  <2>2. jar[e] \in Trees(Held(e)) /\ (OnePath(e) => Sorted(jar[e]))
    BY <2>1 DEF JarInv
  <2>3. Range(jar[e]) \subseteq Held(e)'
    <3> SUFFICES ASSUME NEW f \in Range(jar[e])
                 PROVE  f \in Held(e)'
      OBVIOUS
    <3>1. f \in Held(e)
      BY <2>2, TreeIs DEF Range
    <3>2. f \in Filed(e) /\ Identity(f) \in DOMAIN last /\ DomainOf(f) = e
          /\ (OnePath(e) => f.value = last[Identity(f)])
      BY <3>1 DEF Held, Filed
    <3>3. Identity(f) # Identity(c)
      BY <1>3, <1>16, <3>2 DEF Identity
    <3>4. Identity(f) \in DOMAIN last' /\ last'[Identity(f)] = last[Identity(f)]
      BY <1>13, <3>2, <3>3
    <3> QED BY <1>14, <3>2, <3>4 DEF Held
  <2>4. jar[e] \in Trees(Held(e)')
    BY <2>2, <2>3, TreeOfThose
  <2> QED BY <1>14, <2>1, <2>2, <2>4
<1>17. list \in Trees(Held(d)') /\ (OnePath(d)' => Sorted(list))
  <2>1. CASE ~OnePath(d)'
    <3>1. ASSUME NEW f \in Range(list)
          PROVE  f \in Held(d)'
      <4>1. f \in Filed(d)
        BY <1>11, TreeIs DEF Range
      <4>2. Identity(f) \in DOMAIN last'
        BY <1>7, <1>11, <1>13 DEF Held
      <4> QED BY <2>1, <4>1, <4>2 DEF Held
    <3>2. Range(list) \subseteq Held(d)'
      BY <3>1
    <3>3. list \in Trees(Held(d)')
      BY <1>11, <3>2, TreeOfThose
    <3> QED BY <2>1, <3>3
  <2>2. CASE OnePath(d)'
    <3> DEFINE p == PathOf(c)
    <3>1. OnePath(d) /\ Sorted(t)
      BY <1>5, <1>14, <2>2
    <3>2. c \in OfPath(d, p)
      BY <1>2, <1>3 DEF OfPath
    <3>3. Range(t) \subseteq OfPath(d, p)
      <4> SUFFICES ASSUME NEW f \in Range(t)
                   PROVE  f \in OfPath(d, p)
        OBVIOUS
      <4>1. f \in TypeOf /\ DomainOf(f) = d /\ Identity(f) \in DOMAIN last
        BY <1>7 DEF Held, Filed
      <4>2. Identity(f) \in DOMAIN last' /\ Identity(c) \in DOMAIN last'
        BY <1>13, <4>1
      <4>3. /\ Identity(f)[2] = d /\ Identity(c)[2] = d /\ Identity(f)[3] = PathOf(f)
            /\ Identity(c)[3] = p
        BY <1>3, <4>1 DEF Identity
      <4>4. PathOf(f) = p
        BY <2>2, <4>2, <4>3 DEF OnePath
      <4> QED BY <4>1, <4>4 DEF OfPath
    <3>4. t \in Trees(OfPath(d, p))
      BY <1>5, <3>3, TreeOfThose
    <3>5. Sorted(list) /\ Range(list) = {f \in Range(t) : f.name # c.name} \cup {c}
      <4> HIDE DEF p
      <4> QED BY <1>10, <3>1, <3>2, <3>4, ListAddSorted DEF list
    <3>6. ASSUME NEW f \in Range(list)
          PROVE  f \in Held(d)'
      <4>1. f \in Filed(d)
        BY <1>11, TreeIs DEF Range
      <4>2. CASE f = c
        BY <1>2, <1>13, <4>1, <4>2 DEF Held
      <4>3. CASE f # c
        <5>1. f \in Range(t) /\ f.name # c.name
          BY <3>5, <4>3
        <5>2. Identity(f) \in DOMAIN last /\ f.value = last[Identity(f)]
          BY <1>7, <3>1, <5>1 DEF Held
        <5>3. Identity(f) # Identity(c)
          BY <5>1 DEF Identity
        <5>4. Identity(f) \in DOMAIN last' /\ f.value = last'[Identity(f)]
          BY <1>13, <5>2, <5>3
        <5> QED BY <4>1, <5>4 DEF Held
      <4> QED BY <4>2, <4>3
    <3>7. Range(list) \subseteq Held(d)'
      BY <3>6
    <3>8. list \in Trees(Held(d)')
      BY <1>11, <3>7, TreeOfThose
    <3> QED BY <3>5, <3>8
  <2> QED BY <2>1, <2>2
<1>18. \A e \in DOMAIN jar' : jar'[e] \in Trees(Held(e)') /\ (OnePath(e)' => Sorted(jar'[e]))
  BY <1>12, <1>16, <1>17
<1>19. JarInv'
  BY <1>15, <1>18 DEF JarInv
<1>20. ASSUME NEW e \in DOMAIN jar
       PROVE  Kept(e)
  <2>1. CASE e = d
    BY <1>6, <1>11, <1>12, <2>1 DEF Kept
  <2>2. CASE e # d
    BY <1>12, <2>2 DEF Kept
  <2> QED BY <2>1, <2>2
<1> QED BY <1>19, <1>20

-----------------------------------------------------------------------------
(* What a request takes from a list.                                       *)

\* Some cookies of a tree, in order.
LEMMA PartIs ==
  ASSUME NEW C, NEW t \in Trees(C), NEW S, S \subseteq DOMAIN t
  PROVE  LET s == InOrder(Restrict(t, S))
         IN s \in Seq(C) /\ Len(s) <= Nodes(t) /\ Len(s) \in 0..4 /\ ToSet(s) = {t[i] : i \in S}
<1> DEFINE r == Restrict(t, S)
           s == InOrder(r)
<1>1. t \in [DOMAIN t -> C] /\ IsFiniteSet(DOMAIN t) /\ DOMAIN t \subseteq 1..7 /\ Nodes(t) \in 0..4
  BY TreeIs
<1>2. DOMAIN r = S /\ \A i \in S : r[i] = t[i]
  BY DEF Restrict
<1> HIDE DEF r
<1>3. DOMAIN r \subseteq 1..15 /\ \A i \in DOMAIN r : r[i] \in C
  BY <1>1, <1>2
<1>4. s \in Seq(C) /\ Len(s) = Nodes(r) /\ ToSet(s) = Range(r)
  BY <1>3, InOrderHolds
<1>5. Nodes(r) <= Nodes(t) /\ Nodes(r) \in Nat
  <2>1. S \in SUBSET DOMAIN t
    OBVIOUS
  <2> QED BY <1>1, <1>2, <2>1, FS_Subset, FS_CardinalityType DEF Nodes
<1>6. Range(r) = {t[i] : i \in S}
  BY <1>2 DEF Range
<1> HIDE DEF s
<1>7. Len(s) <= Nodes(t) /\ Len(s) \in 0..4
  BY <1>1, <1>4, <1>5
<1> QED BY <1>4, <1>6, <1>7 DEF r, s

\* The same put into a set, and read from it again.
LEMMA PickedIs ==
  ASSUME NEW C, C \subseteq TypeOf, NEW t \in Trees(C), NEW S, S \subseteq DOMAIN t
  PROVE  LET w == InOrder(InsertAll(Empty, InOrder(Restrict(t, S))))
         IN /\ w \in Seq(C) /\ Len(w) <= Nodes(t) /\ Len(w) \in 0..4
            /\ ToSet(w) \subseteq {t[i] : i \in S}
            /\ \A i \in S : \E e \in ToSet(w) : Identity(e) = Identity(t[i])
<1> DEFINE s == InOrder(Restrict(t, S))
           u == InsertAll(Empty, s)
           w == InOrder(u)
<1>1. s \in Seq(C) /\ Len(s) <= Nodes(t) /\ Len(s) \in 0..4 /\ ToSet(s) = {t[i] : i \in S}
  BY PartIs
<1>2. Empty \in Trees(C) /\ Nodes(Empty) = 0 /\ Range(Empty) = {}
  <2>1. DOMAIN Empty = {} /\ {} \in Shapes /\ Empty \in [{} -> C]
    BY DEF Empty, Shapes
  <2> QED BY <2>1, FS_EmptySet DEF Trees, Nodes, Range
<1> HIDE DEF s
<1>3. u \in InsertedUpTo(C, Empty, s, Len(s))
  <2>1. Nodes(Empty) + Len(s) <= 4
    <3> DEFINE n == Len(s)
    <3>1. n \in 0..4
      BY <1>1
    <3> HIDE DEF n
    <3>2. Nodes(Empty) + n <= 4
      BY <1>2, <3>1
    <3> QED BY <3>2 DEF n
  <2> QED BY <1>1, <1>2, <2>1, InsertAllIs
<1> HIDE DEF u
<1>4. /\ u \in Trees(C) /\ Nodes(u) <= Len(s) /\ Range(u) \subseteq ToSet(s)
      /\ \A j \in 1..Len(s) : \E d \in Range(u) : Identity(d) = Identity(s[j])
  BY <1>1, <1>2, <1>3 DEF InsertedUpTo
<1>5. w \in Seq(C) /\ Len(w) = Nodes(u) /\ ToSet(w) = Range(u)
  <2>1. u \in [DOMAIN u -> C] /\ DOMAIN u \subseteq 1..7
    BY <1>4, TreeIs
  <2>2. DOMAIN u \subseteq 1..15 /\ \A i \in DOMAIN u : u[i] \in C
    BY <2>1
  <2> QED BY <2>2, InOrderHolds
<1>6. Nodes(u) \in 0..4 /\ Nodes(t) \in 0..4
  BY <1>4, TreeIs
<1> HIDE DEF w
<1>7. Len(w) <= Nodes(t) /\ Len(w) \in 0..4
  BY <1>1, <1>4, <1>5, <1>6
<1>8. ASSUME NEW i \in S
      PROVE  \E e \in ToSet(w) : Identity(e) = Identity(t[i])
  <2>1. t[i] \in ToSet(s)
    BY <1>1
  <2>2. \E j \in 1..Len(s) : s[j] = t[i]
    BY <1>1, <2>1 DEF ToSet
  <2> QED BY <1>4, <1>5, <2>2
<1>9. ToSet(w) \subseteq {t[i] : i \in S}
  BY <1>1, <1>4, <1>5
<1> QED BY <1>5, <1>7, <1>8, <1>9 DEF s, u, w

\* Below as PathMatched() has it: the part of the comparison that is right.
LEMMA BelowMatches ==
  ASSUME NEW path \in Seq(Nat), NEW asked \in Seq(Nat), Below(asked, path)
  PROVE  PathMatched(path, asked)
<1>1. /\ Len(path) <= Len(asked) /\ Len(path) \in Nat /\ Len(asked) \in Nat
      /\ SubSeq(path, 1, Len(path)) = SubSeq(asked, 1, Len(path))
  BY DEF Below, IsPrefix
<1>2. \A i \in 1..Len(path) : path[i] = asked[i]
  <2> TAKE i \in 1..Len(path)
  <2>1. SubSeq(path, 1, Len(path))[i] = path[i] /\ SubSeq(asked, 1, Len(path))[i] = asked[i]
    BY <1>1
  <2> QED BY <1>1, <2>1
<1>3. {i \in 1..Len(path) : i <= Len(asked) /\ path[i] # asked[i]} = {}
  BY <1>2
<1>4. Compare(path, asked) = Len(path) - Len(asked)
  BY <1>3 DEF Compare
<1>5. path = asked => Len(path) = Len(asked)
  OBVIOUS
<1>6. path # asked => Len(path) < Len(asked)
  <2> SUFFICES ASSUME Len(path) = Len(asked)
               PROVE  path = asked
    BY <1>1
  <2> QED BY <1>2
<1>7. CASE path = asked
  BY <1>1, <1>4, <1>5, <1>7 DEF PathMatched
<1>8. CASE path # asked
  <2>1. Last(path) = Slash \/ asked[Len(path) + 1] = Slash
    BY <1>8 DEF Below
  <2> QED BY <1>1, <1>4, <1>6, <1>8, <2>1 DEF PathMatched
<1> QED BY <1>7, <1>8

-----------------------------------------------------------------------------
(* Domains.                                                                *)

\* Sequences are the same when their elements are.
LEMMA SameSequence ==
  ASSUME NEW S, NEW s \in Seq(S), NEW t \in Seq(S), Len(s) = Len(t),
         \A k \in 1..Len(s) : s[k] = t[k]
  PROVE  s = t
OBVIOUS

\* A domain without its first labels is one of its suffixes.
LEMMA CutIs ==
  ASSUME NEW s \in Seq(Nat), NEW i \in 0..Len(s)
  PROVE  /\ Cut(s, i) \in Seq(Nat) /\ Len(Cut(s, i)) = Len(s) - i /\ Cut(s, i) \in Suffixes(s)
         /\ \A k \in 1..(Len(s) - i) : Cut(s, i)[k] = s[i + k]
<1>1. Len(s) \in Nat /\ i \in Nat /\ i <= Len(s)
  OBVIOUS
<1>2. Cut(s, i) = SubSeq(s, i + 1, Len(s))
  BY DEF Cut
<1>3. Cut(s, i) \in Seq(Nat) /\ Len(Cut(s, i)) = Len(s) - i
  BY <1>1, <1>2
<1>4. \A k \in 1..(Len(s) - i) : Cut(s, i)[k] = s[i + k]
  BY <1>1, <1>2
<1>5. CASE i < Len(s)
  <2>1. i + 1 \in 1..Len(s)
    BY <1>1, <1>5
  <2> QED BY <1>2, <1>3, <1>4, <2>1 DEF Suffixes
<1>6. CASE i = Len(s)
  <2>1. Cut(s, i) = <<>>
    BY <1>3, <1>6
  <2> QED BY <1>3, <1>4, <2>1 DEF Suffixes
<1> QED BY <1>1, <1>5, <1>6

\* A suffix is the domain without some labels.
LEMMA SuffixIs ==
  ASSUME NEW s \in Seq(Nat), NEW d \in Suffixes(s)
  PROVE  d \in Seq(Nat) /\ Len(d) \in 0..Len(s) /\ d = Cut(s, Len(s) - Len(d))
<1>1. Len(s) \in Nat
  OBVIOUS
<1>2. CASE d = <<>>
  <2>1. Cut(s, Len(s) - Len(d)) \in Seq(Nat) /\ Len(Cut(s, Len(s) - Len(d))) = 0
    <3>1. Len(s) - Len(d) = Len(s) /\ Len(s) \in 0..Len(s)
      BY <1>1, <1>2
    <3> QED BY <1>1, <3>1, CutIs
  <2> QED BY <1>1, <1>2, <2>1
<1>3. CASE d # <<>>
  <2>1. PICK l \in 1..Len(s) : d = SubSeq(s, l, Len(s))
    BY <1>3 DEF Suffixes
  <2>2. d \in Seq(Nat) /\ Len(d) = Len(s) - l + 1
    BY <1>1, <2>1
  <2>3. Len(s) - Len(d) + 1 = l
    BY <1>1, <2>2
  <2> QED BY <1>1, <2>1, <2>2, <2>3 DEF Cut
<1> QED BY <1>2, <1>3

\* A suffix of a suffix.
LEMMA SuffixOfSuffix ==
  ASSUME NEW s \in Seq(Nat), NEW d \in Suffixes(s), NEW e \in Suffixes(d)
  PROVE  e \in Suffixes(s)
<1> DEFINE i == Len(s) - Len(d)
           n == Len(d) - Len(e)
<1>1. d \in Seq(Nat) /\ Len(d) \in 0..Len(s) /\ d = Cut(s, i) /\ Len(s) \in Nat
  BY SuffixIs
<1>2. e \in Seq(Nat) /\ Len(e) \in 0..Len(d) /\ e = Cut(d, n)
  BY <1>1, SuffixIs
<1>3. i \in 0..Len(s) /\ n \in 0..Len(d) /\ i + n \in 0..Len(s) /\ Len(d) = Len(s) - i
      /\ Len(e) = Len(s) - (i + n) /\ Len(e) = Len(d) - n
  BY <1>1, <1>2
<1> HIDE DEF i, n
<1>4. /\ \A k \in 1..(Len(s) - i) : Cut(s, i)[k] = s[i + k]
      /\ \A k \in 1..(Len(d) - n) : Cut(d, n)[k] = d[n + k]
      /\ Cut(s, i + n) \in Seq(Nat) /\ Len(Cut(s, i + n)) = Len(s) - (i + n)
      /\ \A k \in 1..(Len(s) - (i + n)) : Cut(s, i + n)[k] = s[(i + n) + k]
      /\ Cut(s, i + n) \in Suffixes(s)
  BY <1>1, <1>3, CutIs
<1>5. \A k \in 1..Len(e) : e[k] = Cut(s, i + n)[k]
  <2> TAKE k \in 1..Len(e)
  <2>1. k \in 1..(Len(d) - n) /\ k \in 1..(Len(s) - (i + n)) /\ n + k \in 1..(Len(s) - i)
        /\ (i + n) + k = i + (n + k)
    BY <1>1, <1>2, <1>3
  <2>2. e[k] = d[n + k] /\ d[n + k] = s[i + (n + k)]
    BY <1>1, <1>2, <1>4, <2>1
  <2> QED BY <1>4, <2>1, <2>2
<1>6. e = Cut(s, i + n)
  <2> DEFINE f == Cut(s, i + n)
  <2>1. f \in Seq(Nat) /\ e \in Seq(Nat) /\ Len(e) = Len(f) /\ \A k \in 1..Len(e) : e[k] = f[k]
    BY <1>2, <1>3, <1>4, <1>5
  <2> HIDE DEF f
  <2> QED BY <2>1, SameSequence DEF f
<1> QED BY <1>4, <1>6

\* A domain that a cookie's host goes with has a site in common with it.
LEMMA SiteIs ==
  ASSUME NEW host \in Seq(Nat), NEW d \in Suffixes(host), d # <<>>,
         NEW o \in Seq(Nat), o # <<>>, DomainMatched(d, o)
  PROVE  \/ d = o
         \/ \E x \in Suffixes(host) \cap Suffixes(o) : Len(x) > 1 /\ x # PublicSuffix
<1> DEFINE n == Len(d) - Len(o)
<1>1. d \in Seq(Nat) /\ Len(d) \in Nat /\ Len(d) > 0 /\ Len(o) \in Nat /\ Len(o) > 0
  BY SuffixIs
<1>2. CASE n = 0
  BY <1>2 DEF DomainMatched, Covers
<1>3. CASE n < 0
  <2>1. ~IsPublic(d) /\ d = Cut(o, -n)
    BY <1>1, <1>3 DEF DomainMatched, Covers
  <2>2. -n \in 0..Len(o)
    BY <1>1, <1>3
  <2>3. d \in Suffixes(o)
    <3> HIDE DEF n
    <3> QED BY <2>1, <2>2, CutIs
  <2>4. Len(d) > 1 /\ d # PublicSuffix
    <3>1. ~IsPublic(d)
      BY <2>1
    <3>2. Len(d) # 1 /\ d # PublicSuffix
      BY <3>1 DEF IsPublic
    <3> DEFINE l == Len(d)
    <3>3. l \in Nat /\ l > 0 /\ l # 1
      BY <1>1, <3>2
    <3> HIDE DEF l
    <3>4. l > 1
      BY <3>3
    <3> QED BY <3>2, <3>4 DEF l
  <2> QED BY <2>3, <2>4
<1>4. CASE n > 0
  <2>1. ~IsPublic(o) /\ o = Cut(d, n)
    BY <1>1, <1>4 DEF DomainMatched, Covers
  <2>2. n \in 0..Len(d)
    BY <1>1, <1>4
  <2>3. o \in Suffixes(d) /\ o \in Suffixes(host) /\ o \in Suffixes(o)
    <3> HIDE DEF n
    <3>1. o \in Suffixes(d)
      BY <1>1, <2>1, <2>2, CutIs
    <3>2. o \in Suffixes(o)
      <4>1. 0 \in 0..Len(o) /\ Len(o) - 0 = Len(o)
        BY <1>1
      <4>2. Cut(o, 0) \in Suffixes(o) /\ Cut(o, 0) = SubSeq(o, 1, Len(o))
        BY <4>1, CutIs DEF Cut
      <4>3. SubSeq(o, 1, Len(o)) = o
        OBVIOUS
      <4> QED BY <4>2, <4>3
    <3> QED BY <3>1, <3>2, SuffixOfSuffix
  <2>4. Len(o) > 1 /\ o # PublicSuffix
    <3>1. ~IsPublic(o)
      BY <2>1
    <3>2. Len(o) # 1 /\ o # PublicSuffix
      BY <3>1 DEF IsPublic
    <3> DEFINE l == Len(o)
    <3>3. l \in Nat /\ l > 0 /\ l # 1
      BY <1>1, <3>2
    <3> HIDE DEF l
    <3>4. l > 1
      BY <3>3
    <3> QED BY <3>2, <3>4 DEF l
  <2> QED BY <2>3, <2>4
<1> QED BY <1>1, <1>2, <1>3, <1>4

-----------------------------------------------------------------------------
(* What Get keeps, and what it sends.                                      *)

\* What get_inner() leaves of a list.
LEMMA PrunedIs ==
  ASSUME JarInv, NEW d \in DOMAIN jar, NEW path
  PROVE  LET u == Pruned(d, path)
         IN /\ u \in Trees(Held(d)) /\ DOMAIN u \subseteq DOMAIN jar[d]
            /\ OnePath(d) => /\ Sorted(u)
                             /\ \A c \in Range(jar[d]) : Expired(c) \/ c \in Range(u)
<1> DEFINE t == jar[d]
           S == Eligible(t, path) \cap Outdated(t)
           w == InOrder(InsertAll(Empty, InOrder(Restrict(t, S))))
           u == Pruned(d, path)
<1>1. t \in Trees(Held(d)) /\ (OnePath(d) => Sorted(t))
  BY DEF JarInv
<1>2. S \subseteq DOMAIN t /\ \A i \in S : Expired(t[i])
  BY DEF Eligible, Outdated
<1>3. u = FoldLeft(EraseKey, t, w)
  BY DEF Pruned, Stale
<1> HIDE DEF t, S, u
<1>4. w \in Seq(Held(d)) /\ ToSet(w) \subseteq {t[i] : i \in S}
  <2>1. Held(d) \subseteq TypeOf
    BY DEF Held, Filed
  <2> QED BY <1>1, <1>2, <2>1, PickedIs
<1> HIDE DEF w
<1>5. u \in Trees(Held(d)) /\ DOMAIN u \subseteq DOMAIN t
  BY <1>1, <1>3, <1>4, PruneIs DEF Remains
<1>6. CASE OnePath(d)
  <2>1. PICK p : t \in Trees(OfPath(d, p))
    BY <1>1, <1>6, HeldOfPath
  <2>2. Range(t) \subseteq OfPath(d, p) /\ \A c \in OfPath(d, p) : c.name \in Nat
    <3>1. Range(t) \subseteq OfPath(d, p)
      BY <2>1, TreeIs DEF Range
    <3> QED BY <3>1, LessIs
  <2>3. \A k \in 1..Len(w) : \E i \in S : w[k] = t[i] /\ t[i] \in OfPath(d, p)
    <3> TAKE k \in 1..Len(w)
    <3>1. w[k] \in ToSet(w)
      BY <1>4 DEF ToSet
    <3>2. PICK i \in S : w[k] = t[i]
      BY <1>4, <3>1
    <3>3. t[i] \in Range(t)
      BY <1>2, <3>2 DEF Range
    <3> QED BY <2>2, <3>2, <3>3
  <2>4. w \in Seq(OfPath(d, p))
    <3>1. \A k \in 1..Len(w) : w[k] \in OfPath(d, p)
      BY <2>3
    <3>2. w \in Seq(Held(d)) /\ Len(w) \in Nat
      BY <1>4
    <3>3. w = [k \in 1..Len(w) |-> w[k]]
      BY <3>2
    <3> QED BY <3>1, <3>2, <3>3
  <2>5. /\ Sorted(u)
        /\ Range(u) = {e \in Range(t) : \A j \in 1..Len(w) : e.name # w[j].name}
    BY <1>1, <1>3, <1>6, <2>1, <2>4, PruneSorted
  <2>6. ASSUME NEW c \in Range(t), c \notin Range(u)
        PROVE  Expired(c)
    <3>1. PICK j \in 1..Len(w) : c.name = w[j].name
      BY <2>5, <2>6
    <3>2. PICK i \in S : w[j] = t[i]
      BY <2>3
    <3>3. PICK k \in DOMAIN t : c = t[k]
      BY DEF Range
    <3>4. k = i
      <4>1. t[k].name = t[i].name /\ i \in DOMAIN t
        BY <1>2, <3>1, <3>2, <3>3
      <4> QED BY <1>1, <1>6, <2>1, <2>2, <4>1, NamesDiffer
    <3> QED BY <1>2, <3>2, <3>3, <3>4
  <2>7. \A c \in Range(t) : Expired(c) \/ c \in Range(u)
    BY <2>6
  <2> QED BY <1>5, <2>5, <2>7 DEF t, u
<1> QED BY <1>5, <1>6 DEF t, u

\* Get keeps the jar, and on one path takes only what is expired.
LEMMA GetKeeps ==
  ASSUME JarInv, Get
  PROVE  /\ JarInv'
         /\ \A d \in DOMAIN jar : OnePath(d) =>
              \A c \in Range(jar[d]) : Expired(c) \/ c \in Range(jar'[d])
<1>1. PICK path : /\ DOMAIN jar' = DOMAIN jar /\ last' = last
                  /\ \A d \in DOMAIN jar : jar'[d] \in {jar[d], Pruned(d, path)}
  <2>1. PICK r \in Requests :
          LET levels == [k \in 1..Cardinality(Visited(r.host)) |-> Cut(r.host, k - 1)]
          IN /\ jar' = [d \in DOMAIN jar |->
                           IF d \in ToSet(levels) THEN Pruned(d, r.path) ELSE jar[d]]
             /\ last' = last
    BY DEF Get
  <2>2. DOMAIN jar' = DOMAIN jar /\ \A d \in DOMAIN jar : jar'[d] \in {jar[d], Pruned(d, r.path)}
    BY <2>1
  <2> QED BY <2>1, <2>2
<1>2. ASSUME NEW d \in DOMAIN jar
      PROVE  /\ jar'[d] \in Trees(Held(d)) /\ DOMAIN jar'[d] \subseteq DOMAIN jar[d]
             /\ OnePath(d) => /\ Sorted(jar'[d])
                              /\ \A c \in Range(jar[d]) : Expired(c) \/ c \in Range(jar'[d])
  <2>1. CASE jar'[d] = jar[d]
    BY <2>1 DEF JarInv
  <2>2. CASE jar'[d] = Pruned(d, path)
    BY <2>2, PrunedIs
  <2> QED BY <1>1, <2>1, <2>2
<1>3. \A d : (OnePath(d)' <=> OnePath(d)) /\ Held(d)' = Held(d)
  BY <1>1 DEF OnePath, Held
<1>4. IsFiniteSet(Spots(jar', DOMAIN jar')) /\ Cardinality(Spots(jar', DOMAIN jar')) <= Capacity
  <2>1. Spots(jar', DOMAIN jar') \in SUBSET Spots(jar, DOMAIN jar)
    BY <1>1, <1>2 DEF Spots
  <2>2. IsFiniteSet(Spots(jar, DOMAIN jar)) /\ Cardinality(Spots(jar, DOMAIN jar)) <= Capacity
    BY DEF JarInv
  <2>3. /\ IsFiniteSet(Spots(jar', DOMAIN jar'))
        /\ Cardinality(Spots(jar', DOMAIN jar')) <= Cardinality(Spots(jar, DOMAIN jar))
        /\ Cardinality(Spots(jar', DOMAIN jar')) \in Nat
        /\ Cardinality(Spots(jar, DOMAIN jar)) \in Nat
    BY <2>1, <2>2, FS_Subset, FS_CardinalityType
  <2> QED BY <2>2, <2>3, CookiesAssumption
<1>5. JarInv'
  BY <1>1, <1>2, <1>3, <1>4 DEF JarInv
<1> QED BY <1>2, <1>5

\* How many domains of a host are visited.
LEMMA VisitedIs ==
  ASSUME NEW host \in Seq(Nat)
  PROVE  /\ IsFiniteSet(Visited(host)) /\ Cardinality(Visited(host)) \in 0..Len(host)
         /\ \A n \in Nat : 0..n \subseteq Visited(host) => n + 1 <= Cardinality(Visited(host))
<1> DEFINE V == Visited(host)
<1>1. Len(host) \in Nat /\ V \in SUBSET (0..(Len(host) - 1))
  BY DEF Visited
<1>2. IsFiniteSet(0..(Len(host) - 1)) /\ Cardinality(0..(Len(host) - 1)) = Len(host)
  <2>1. 0 \in Int /\ Len(host) - 1 \in Int
    BY <1>1
  <2>2. /\ IsFiniteSet(0..(Len(host) - 1))
        /\ Cardinality(0..(Len(host) - 1)) = IF 0 > Len(host) - 1 THEN 0 ELSE (Len(host) - 1) - 0 + 1
    BY <2>1, FS_Interval
  <2> QED BY <1>1, <2>2
<1> HIDE DEF V
<1>3. IsFiniteSet(V) /\ Cardinality(V) <= Len(host) /\ Cardinality(V) \in Nat
  BY <1>1, <1>2, FS_Subset, FS_CardinalityType
<1>4. ASSUME NEW n \in Nat, 0..n \subseteq V
      PROVE  n + 1 <= Cardinality(V)
  <2>1. Cardinality(0..n) = IF 0 > n THEN 0 ELSE n - 0 + 1
    <3>1. 0 \in Int /\ n \in Int
      OBVIOUS
    <3> QED BY <3>1, FS_Interval
  <2>2. Cardinality(0..n) = n + 1
    BY <2>1
  <2>3. 0..n \in SUBSET V
    BY <1>4
  <2>4. Cardinality(0..n) <= Cardinality(V)
    BY <1>3, <2>3, FS_Subset
  <2> QED BY <2>2, <2>4
<1>5. Cardinality(V) \in 0..Len(host)
  BY <1>1, <1>3
<1> QED BY <1>3, <1>4, <1>5 DEF V

\* What get() returns for a request.
Sent(r) ==
  LET levels == [k \in 1..Cardinality(Visited(r.host)) |-> Cut(r.host, k - 1)]
      lists  == [k \in DOMAIN levels |-> Inner(levels[k], r.path)]
  IN InOrder(FoldLeft(InsertAll, Empty, lists))

\* The cookies a host may get.
Sendable(host) == UNION {Filed(Cut(host, i)) : i \in 0..(Len(host) - 1)}

\* What get_inner() returns of a list.
LEMMA InnerIs ==
  ASSUME JarInv, NEW d, NEW path
  PROVE  LET t == Stored(d)
             w == Inner(d, path)
         IN /\ t \in Trees(Filed(d)) /\ w \in Seq(Filed(d)) /\ Len(w) <= Nodes(t) /\ Len(w) \in 0..4
            /\ ToSet(w) \subseteq {t[i] : i \in Eligible(t, path) \ Outdated(t)}
            /\ \A i \in Eligible(t, path) \ Outdated(t) :
                 \E e \in ToSet(w) : Identity(e) = Identity(t[i])
<1> DEFINE t == Stored(d)
           S == Eligible(t, path) \ Outdated(t)
           w == Inner(d, path)
<1>1. t \in Trees(Filed(d))
  <2>1. CASE d \in DOMAIN jar
    <3>1. t \in Trees(Held(d))
      BY <2>1 DEF JarInv, Stored
    <3>2. Range(t) \subseteq Filed(d)
      BY <3>1, TreeIs DEF Range, Held
    <3> HIDE DEF t
    <3> QED BY <3>1, <3>2, TreeOfThose
  <2>2. CASE d \notin DOMAIN jar
    <3>1. t = Empty
      BY <2>2 DEF Stored
    <3>2. DOMAIN Empty = {} /\ {} \in Shapes /\ Empty \in [{} -> Filed(d)]
      BY DEF Empty, Shapes
    <3> QED BY <3>1, <3>2 DEF Trees
  <2> QED BY <2>1, <2>2
<1>2. w = InOrder(InsertAll(Empty, InOrder(Restrict(t, S))))
  BY DEF Inner, Fresh
<1>3. S \subseteq DOMAIN t
  BY DEF Eligible
<1>4. Filed(d) \subseteq TypeOf
  BY DEF Filed
<1> HIDE DEF t, S, w
<1>5. /\ w \in Seq(Filed(d)) /\ Len(w) <= Nodes(t) /\ Len(w) \in 0..4
      /\ ToSet(w) \subseteq {t[i] : i \in S}
      /\ \A i \in S : \E e \in ToSet(w) : Identity(e) = Identity(t[i])
  BY <1>1, <1>2, <1>3, <1>4, PickedIs
<1> QED BY <1>1, <1>5 DEF t, S, w

\* The cookies of a list are those of its tree.
LEMMA ListOf ==
  ASSUME JarInv, NEW d \in DOMAIN jar
  PROVE  ToSet(InOrder(jar[d])) = Range(jar[d])
<1>1. jar[d] \in Trees(Held(d))
  BY DEF JarInv
<1>2. DOMAIN jar[d] \subseteq 1..15 /\ \A i \in DOMAIN jar[d] : jar[d][i] \in Held(d)
  BY <1>1, TreeIs
<1> QED BY <1>2, InOrderHolds

\* What a list has for a request is stored, and the host may have it.
LEMMA MayGo ==
  ASSUME JarInv, NEW host \in Seq(Nat), NEW j \in 0..(Len(host) - 1), NEW path,
         NEW i \in Eligible(Stored(Cut(host, j)), path) \ Outdated(Stored(Cut(host, j)))
  PROVE  Stored(Cut(host, j))[i] \in MayGoTo(host)
<1> DEFINE d == Cut(host, j)
           t == Stored(d)
           c == t[i]
<1>1. i \in DOMAIN t /\ ~c.secure /\ ~Expired(c)
  BY DEF Eligible, Outdated
<1>2. d \in Suffixes(host)
  <2>1. Len(host) \in Nat
    OBVIOUS
  <2>2. j \in 0..Len(host)
    BY <2>1
  <2> QED BY <2>2, CutIs
<1> HIDE DEF d
<1>3. d \in DOMAIN jar /\ t = jar[d]
  BY <1>1 DEF Stored, Empty
<1> HIDE DEF t
<1>4. c \in ToSet(InOrder(jar[d]))
  <2>1. c \in Range(jar[d])
    BY <1>1, <1>3 DEF Range
  <2> QED BY <1>3, <2>1, ListOf
<1>5. DomainOf(c) = d
  <2>1. t \in Trees(Held(d))
    BY <1>3 DEF JarInv
  <2>2. c \in Held(d)
    BY <1>1, <2>1, TreeIs
  <2> QED BY <2>2 DEF Held, Filed
<1>6. c \in AllStored
  BY <1>3, <1>4 DEF AllStored
<1> HIDE DEF c
<1>7. c \in MayGoTo(host)
  BY <1>1, <1>2, <1>5, <1>6 DEF MayGoTo
<1> QED BY <1>7 DEF c, t, d

\* get() returns cookies that the host may get, stored and not expired, and of each that
\* is eligible and not expired, in a list it visits, one with its name, domain and path.
LEMMA SentIs ==
  ASSUME JarInv, NEW r \in Requests
  PROVE  /\ Sent(r) \in Seq(TypeOf) /\ Len(Sent(r)) \in 0..4
         /\ ToSet(Sent(r)) \subseteq Sendable(r.host) /\ ToSet(Sent(r)) \subseteq MayGoTo(r.host)
         /\ \A k \in 1..Cardinality(Visited(r.host)) :
              LET t == Stored(Cut(r.host, k - 1))
              IN \A i \in Eligible(t, r.path) \ Outdated(t) :
                   \E e \in ToSet(Sent(r)) : Identity(e) = Identity(t[i])
<1> DEFINE host == r.host
           n == Cardinality(Visited(host))
           level(k) == Cut(host, k - 1)
           lists == [k \in 1..n |-> Inner(level(k), r.path)]
           upto(k) == {level(j) : j \in 1..k} \cap DOMAIN jar
           sizes == [k \in 0..n |-> Cardinality(Spots(jar, upto(k)))]
           C == Sendable(host)
           u == FoldLeft(InsertAll, Empty, lists)
<1>1. host \in Seq(Nat) /\ Len(host) \in Nat
  BY CookiesAssumption
<1>2. n \in Nat /\ n <= Len(host)
  BY <1>1, VisitedIs
<1>3. Sent(r) = InOrder(u)
  BY DEF Sent
<1> HIDE DEF host, n
<1>4. ASSUME NEW k \in 1..n
      PROVE  /\ level(k) \in Seq(Nat) /\ Len(level(k)) = Len(host) - (k - 1)
             /\ Filed(level(k)) \subseteq C
  <2>1. k - 1 \in 0..Len(host) /\ k - 1 \in 0..(Len(host) - 1)
    BY <1>1, <1>2
  <2> QED BY <1>1, <2>1, CutIs DEF Sendable
<1>5. ASSUME NEW k \in 1..n
      PROVE  level(k) \notin upto(k - 1)
  <2> SUFFICES ASSUME NEW j \in 1..(k - 1), level(j) = level(k)
               PROVE  FALSE
    OBVIOUS
  <2>1. j \in 1..n
    BY <1>2
  <2>2. Len(host) - (j - 1) = Len(host) - (k - 1)
    BY <1>4, <2>1
  <2> QED BY <1>1, <1>2, <2>2
<1>6. C \subseteq TypeOf
  BY DEF Sendable, Filed
<1> HIDE DEF C
<1>7. ASSUME NEW k \in 1..n
      PROVE  /\ lists[k] \in Seq(C) /\ Len(lists[k]) <= Nodes(Stored(level(k)))
             /\ Len(lists[k]) \in 0..4
             /\ ToSet(lists[k]) \subseteq {Stored(level(k))[i] :
                  i \in Eligible(Stored(level(k)), r.path) \ Outdated(Stored(level(k)))}
             /\ \A i \in Eligible(Stored(level(k)), r.path) \ Outdated(Stored(level(k))) :
                  \E e \in ToSet(lists[k]) : Identity(e) = Identity(Stored(level(k))[i])
  <2> DEFINE d == level(k)
             w == Inner(d, r.path)
  <2>1. lists[k] = w
    OBVIOUS
  <2> HIDE DEF w, lists, d
  <2>2. /\ w \in Seq(Filed(d)) /\ Len(w) <= Nodes(Stored(d)) /\ Len(w) \in 0..4
        /\ ToSet(w) \subseteq {Stored(d)[i] : i \in Eligible(Stored(d), r.path) \ Outdated(Stored(d))}
        /\ \A i \in Eligible(Stored(d), r.path) \ Outdated(Stored(d)) :
             \E e \in ToSet(w) : Identity(e) = Identity(Stored(d)[i])
    BY InnerIs DEF w
  <2>3. Filed(d) \subseteq C
    BY <1>4 DEF d
  <2>4. w \in Seq(C)
    BY <2>2, <2>3
  <2> QED BY <2>1, <2>2, <2>4 DEF d
<1>8. lists \in Seq(Seq(C)) /\ Len(lists) = n /\ DOMAIN lists = 1..n
  <2>1. lists \in [1..n -> Seq(C)]
    BY <1>7
  <2> HIDE DEF lists
  <2> QED BY <1>2, <2>1
<1> HIDE DEF lists
<1>9. ASSUME NEW k \in 0..n
      PROVE  IsFiniteSet(Spots(jar, upto(k))) /\ sizes[k] \in 0..4
  <2> DEFINE D == upto(k)
  <2>1. D \subseteq DOMAIN jar /\ IsFiniteSet(Spots(jar, DOMAIN jar))
        /\ Cardinality(Spots(jar, DOMAIN jar)) <= Capacity
    BY DEF JarInv
  <2>2. sizes[k] = Cardinality(Spots(jar, D))
    OBVIOUS
  <2> HIDE DEF D, sizes
  <2>3. /\ IsFiniteSet(Spots(jar, D)) /\ Cardinality(Spots(jar, D)) \in Nat
        /\ Cardinality(Spots(jar, D)) <= Cardinality(Spots(jar, DOMAIN jar))
        /\ Cardinality(Spots(jar, DOMAIN jar)) \in Nat
    BY <2>1, SpotsOfSome
  <2>4. Cardinality(Spots(jar, D)) <= 4
    BY <2>1, <2>3, CookiesAssumption
  <2> QED BY <2>2, <2>3, <2>4 DEF D
<1>10. sizes[0] = 0
  <2>1. upto(0) = {}
    OBVIOUS
  <2>2. Spots(jar, {}) = {}
    BY DEF Spots
  <2>3. sizes[0] = Cardinality(Spots(jar, upto(0)))
    BY <1>2
  <2> HIDE DEF sizes, upto
  <2> QED BY <2>1, <2>2, <2>3, FS_EmptySet
<1>11. ASSUME NEW k \in 1..n
       PROVE  sizes[k - 1] + Len(lists[k]) <= sizes[k]
  <2> DEFINE D == upto(k - 1)
             d == level(k)
  <2>1. k - 1 \in 0..n /\ k \in 0..n
    BY <1>2
  <2>2. /\ sizes[k - 1] = Cardinality(Spots(jar, D)) /\ sizes[k] = Cardinality(Spots(jar, upto(k)))
        /\ IsFiniteSet(Spots(jar, D)) /\ sizes[k - 1] \in 0..4 /\ sizes[k] \in 0..4
    BY <1>9, <2>1
  <2>3. Len(lists[k]) <= Nodes(Stored(d)) /\ Len(lists[k]) \in 0..4 /\ d \notin D
    BY <1>5, <1>7
  <2>4. 1..k = 1..(k - 1) \cup {k}
    BY <2>1
  <2>5. upto(k) = IF d \in DOMAIN jar THEN D \cup {d} ELSE D
    BY <2>4
  <2> HIDE DEF D, d, sizes, upto
  <2>6. CASE d \in DOMAIN jar
    <3>1. Stored(d) = jar[d] /\ IsFiniteSet(DOMAIN jar[d])
      BY <2>6, TreeIs DEF Stored, JarInv
    <3>2. /\ Cardinality(Spots(jar, D \cup {d})) = Cardinality(Spots(jar, D)) + Cardinality(DOMAIN jar[d])
          /\ Cardinality(DOMAIN jar[d]) \in Nat
      BY <2>2, <2>3, <3>1, SpotsAdd
    <3>3. Nodes(Stored(d)) = Cardinality(DOMAIN jar[d])
      BY <3>1 DEF Nodes
    <3>4. sizes[k] = sizes[k - 1] + Nodes(Stored(d)) /\ Nodes(Stored(d)) \in Nat
      BY <2>2, <2>5, <2>6, <3>2, <3>3
    <3> QED BY <2>2, <2>3, <3>4
  <2>7. CASE d \notin DOMAIN jar
    <3>1. Nodes(Stored(d)) = 0
      BY <2>7, FS_EmptySet DEF Stored, Nodes, Empty
    <3>2. sizes[k] = sizes[k - 1]
      BY <2>2, <2>5, <2>7
    <3> QED BY <2>2, <2>3, <3>1, <3>2
  <2> QED BY <2>6, <2>7
<1>12. sizes \in [0..n -> 0..4]
  BY <1>9
<1> HIDE DEF sizes
<1>13. u \in MergedUpTo(C, lists, sizes, n)
  <2>1. FoldLeft(InsertAll, Empty, lists) \in MergedUpTo(C, lists, sizes, Len(lists))
    BY <1>6, <1>8, <1>10, <1>11, <1>12, MergeIs
  <2> QED BY <1>8, <2>1
<1> HIDE DEF u
<1>14. /\ u \in Trees(C) /\ Nodes(u) <= sizes[n]
       /\ \A d \in Range(u) : \E j \in DOMAIN lists : d \in ToSet(lists[j])
       /\ \A j \in 1..n : \A c \in ToSet(lists[j]) : \E d \in Range(u) : Identity(d) = Identity(c)
  BY <1>13 DEF MergedUpTo
<1>15. InOrder(u) \in Seq(C) /\ ToSet(InOrder(u)) = Range(u) /\ Len(InOrder(u)) \in 0..4
  <2>1. u \in [DOMAIN u -> C] /\ DOMAIN u \subseteq 1..7
    BY <1>14, TreeIs
  <2>2. DOMAIN u \subseteq 1..15 /\ \A i \in DOMAIN u : u[i] \in C
    BY <2>1
  <2>3. Nodes(u) \in 0..4
    BY <1>14, TreeIs
  <2> QED BY <2>2, <2>3, InOrderHolds
<1>16. Sent(r) \in Seq(TypeOf) /\ ToSet(Sent(r)) \subseteq C /\ Len(Sent(r)) \in 0..4
  <2>1. InOrder(u) \in Seq(TypeOf)
    BY <1>6, <1>15
  <2>2. Range(u) \subseteq C
    BY <1>14, TreeIs DEF Range
  <2> QED BY <1>3, <1>15, <2>1, <2>2
<1>17. ASSUME NEW k \in 1..n,
              NEW i \in Eligible(Stored(level(k)), r.path) \ Outdated(Stored(level(k)))
       PROVE  \E e \in ToSet(Sent(r)) : Identity(e) = Identity(Stored(level(k))[i])
  BY <1>3, <1>7, <1>14, <1>15
<1>18. ToSet(Sent(r)) \subseteq MayGoTo(host)
  <2> SUFFICES ASSUME NEW e \in ToSet(Sent(r))
               PROVE  e \in MayGoTo(host)
    OBVIOUS
  <2>1. PICK k \in 1..n : e \in ToSet(lists[k])
    BY <1>3, <1>8, <1>14, <1>15
  <2>2. PICK i \in Eligible(Stored(level(k)), r.path) \ Outdated(Stored(level(k))) :
          e = Stored(level(k))[i]
    BY <1>7, <2>1
  <2>3. k - 1 \in 0..(Len(host) - 1)
    BY <1>1, <1>2
  <2> QED BY <1>1, <2>2, <2>3, MayGo
<1> QED BY <1>16, <1>17, <1>18 DEF C, n, host

\* What is written of a list: its cookies, of each name one.
LEMMA OnePerNameIs ==
  ASSUME NEW C, NEW s \in Seq(C), Len(s) \in 0..4
  PROVE  /\ OnePerName(s) \subseteq ToSet(s)
         /\ \A c, e \in OnePerName(s) : c.name = e.name => c = e
         /\ \A c \in ToSet(s) : \E e \in OnePerName(s) : e.name = c.name
<1> DEFINE n == Len(s)
           Lasts == {i \in 1..n : \A j \in (i + 1)..n : s[j].name # s[i].name}
<1>1. n \in 0..4 /\ ToSet(s) = {s[i] : i \in 1..n} /\ OnePerName(s) = {s[i] : i \in Lasts}
  <2>1. DOMAIN s = 1..n
    OBVIOUS
  <2> QED BY <2>1 DEF ToSet, OnePerName
<1> HIDE DEF n
<1>2. ASSUME NEW i \in Lasts, NEW j \in Lasts, s[i].name = s[j].name
      PROVE  i = j
  <2>1. i \in 1..n /\ j \in 1..n /\ i \notin (j + 1)..n /\ j \notin (i + 1)..n
    BY <1>2
  <2> QED BY <1>1, <2>1
<1>3. ASSUME NEW i \in 1..n
      PROVE  \E j \in Lasts : s[j].name = s[i].name
  <2> DEFINE Same == {j \in 1..n : s[j].name = s[i].name}
  <2>1. i \in Same /\ Same \subseteq 1..4
    BY <1>1
  <2>2. PICK m \in Same : \A j \in Same : j <= m
    <3> HIDE DEF Same
    <3>1. CASE 4 \in Same
      BY <2>1, <3>1
    <3>2. CASE 4 \notin Same /\ 3 \in Same
      BY <2>1, <3>2
    <3>3. CASE 4 \notin Same /\ 3 \notin Same /\ 2 \in Same
      BY <2>1, <3>3
    <3>4. CASE 4 \notin Same /\ 3 \notin Same /\ 2 \notin Same
      BY <2>1, <3>4
    <3> QED BY <3>1, <3>2, <3>3, <3>4
  <2>3. m \in 1..n /\ s[m].name = s[i].name
    OBVIOUS
  <2>4. ASSUME NEW j \in (m + 1)..n
        PROVE  s[j].name # s[m].name
    <3>1. j \in 1..n /\ ~(j <= m)
      BY <1>1, <2>3
    <3> QED BY <2>2, <2>3, <3>1
  <2> QED BY <2>3, <2>4
<1> HIDE DEF Lasts
<1>4. Lasts \subseteq 1..n
  BY DEF Lasts
<1> QED BY <1>1, <1>2, <1>3, <1>4

-----------------------------------------------------------------------------
(* The theorems.                                                           *)

\* The invariant: the jar in order, and the last request's cookies its host's.
CookiesInv ==
  /\ JarInv /\ now \in 0..MaxNow
  /\ got.cookies \subseteq TypeOf /\ got.host \in Seq(Nat)
  /\ \A c, e \in got.cookies : c.name = e.name => c = e
  /\ got.cookies \subseteq Sendable(got.host)

\* It holds at first: the jar is empty.
LEMMA InitKeeps ==
  ASSUME Init
  PROVE  CookiesInv
<1>1. DOMAIN jar = {}
  BY DEF Init
<1>2. JarInv
  <2>1. Spots(jar, DOMAIN jar) = {}
    BY <1>1 DEF Spots
  <2> QED BY <1>1, <2>1, FS_EmptySet, CookiesAssumption DEF JarInv
<1>3. got.cookies = {} /\ got.host = <<>> /\ now = 0
  BY DEF Init, NoRequest
<1>4. <<>> \in Seq(Nat)
  OBVIOUS
<1> QED BY <1>2, <1>3, <1>4, CookiesAssumption DEF CookiesInv

\* No request, no cookies.
LEMMA NoneSent ==
  ASSUME got' = NoRequest
  PROVE  got'.cookies = {} /\ got'.host \in Seq(Nat)
<1>1. got'.cookies = {} /\ got'.host = <<>>
  BY DEF NoRequest
<1>2. <<>> \in Seq(Nat)
  OBVIOUS
<1> QED BY <1>1, <1>2

\* Every step keeps it.
LEMMA NextKeeps ==
  ASSUME CookiesInv, [Next]_vars
  PROVE  CookiesInv'
<1>1. CASE Add
  <2>1. now' = now /\ got' = NoRequest
    BY <1>1 DEF Add
  <2>2. JarInv'
    BY <1>1, AddKeeps DEF CookiesInv
  <2> QED BY <2>1, <2>2, NoneSent DEF CookiesInv
<1>2. CASE Get
  <2>1. PICK r \in Requests :
          /\ got' = [host |-> r.host, path |-> r.path, cookies |-> OnePerName(Sent(r))]
          /\ now' = now
    BY <1>2 DEF Get, Sent
  <2>2. JarInv'
    BY <1>2, GetKeeps DEF CookiesInv
  <2> DEFINE s == Sent(r)
             w == OnePerName(s)
  <2>3. /\ s \in Seq(TypeOf) /\ Len(s) \in 0..4 /\ ToSet(s) \subseteq Sendable(r.host)
        /\ r.host \in Seq(Nat)
    BY SentIs, CookiesAssumption DEF CookiesInv
  <2>4. got'.cookies = w /\ got'.host = r.host
    BY <2>1
  <2> HIDE DEF s
  <2>6. w \subseteq ToSet(s) /\ \A c, e \in w : c.name = e.name => c = e
    BY <2>3, OnePerNameIs
  <2>7. ToSet(s) \subseteq TypeOf
    BY <2>3 DEF ToSet
  <2> HIDE DEF w
  <2>5. Sendable(r.host)' = Sendable(r.host)
    BY DEF Sendable, Filed
  <2> QED BY <2>1, <2>2, <2>3, <2>4, <2>5, <2>6, <2>7 DEF CookiesInv
<1>3. CASE Tick
  <2>1. got' = NoRequest /\ jar' = jar /\ last' = last /\ now' = now + 1 /\ now < MaxNow
    BY <1>3 DEF Tick
  <2>2. JarInv'
    <3>1. \A d : (OnePath(d)' <=> OnePath(d)) /\ Held(d)' = Held(d)
      BY <2>1 DEF OnePath, Held
    <3> QED BY <2>1, <3>1 DEF CookiesInv, JarInv
  <2>3. now' \in 0..MaxNow
    BY <2>1, CookiesAssumption DEF CookiesInv
  <2> QED BY <2>1, <2>2, <2>3, NoneSent DEF CookiesInv
<1>4. CASE UNCHANGED vars
  <2>1. jar' = jar /\ now' = now /\ last' = last /\ got' = got
    BY <1>4 DEF vars
  <2>2. JarInv'
    <3>1. \A d : (OnePath(d)' <=> OnePath(d)) /\ Held(d)' = Held(d)
      BY <2>1 DEF OnePath, Held
    <3> QED BY <2>1, <3>1 DEF CookiesInv, JarInv
  <2> QED BY <2>1, <2>2 DEF CookiesInv
<1> QED BY <1>1, <1>2, <1>3, <1>4 DEF Next

\* The invariant holds in every state: each list is a tree of cookies of its domain,
\* from hosts that go with it, and in order where they have one path.
THEOREM CookiesInvariance == Spec => []CookiesInv
<1>1. Init => CookiesInv
  BY InitKeeps
<1>2. CookiesInv /\ [Next]_vars => CookiesInv'
  BY NextKeeps
<1> QED BY <1>1, <1>2, PTL DEF Spec

\* The types of the variables: what the jar holds are cookies, filed under their
\* domain, and no list is longer than the bound.
THEOREM CookiesTypes == Spec => []TypeOK
<1>1. CookiesInv => TypeOK
  <2> SUFFICES ASSUME CookiesInv
               PROVE  TypeOK
    OBVIOUS
  <2>1. ASSUME NEW d \in DOMAIN jar
        PROVE  /\ InOrder(jar[d]) \in Seq(TypeOf) /\ Len(InOrder(jar[d])) <= Capacity
               /\ \A c \in ToSet(InOrder(jar[d])) : DomainOf(c) = d
    <3> DEFINE t == jar[d]
    <3>1. t \in Trees(Held(d))
      BY DEF CookiesInv, JarInv
    <3>2. Held(d) \subseteq TypeOf /\ \A c \in Held(d) : DomainOf(c) = d
      BY DEF Held, Filed
    <3>3. Nodes(t) <= Capacity
      <4>1. {d} \subseteq DOMAIN jar /\ IsFiniteSet(Spots(jar, DOMAIN jar))
            /\ Cardinality(Spots(jar, DOMAIN jar)) <= Capacity
        BY DEF CookiesInv, JarInv
      <4>2. Spots(jar, {}) = {} /\ {} \cup {d} = {d} /\ d \notin {}
        BY DEF Spots
      <4>3. IsFiniteSet(Spots(jar, {})) /\ Cardinality(Spots(jar, {})) = 0
        BY <4>2, FS_EmptySet
      <4>4. IsFiniteSet(DOMAIN jar[d]) /\ Nodes(t) = Cardinality(DOMAIN jar[d])
        BY <3>1, TreeIs DEF Nodes
      <4>5. /\ Cardinality(Spots(jar, {} \cup {d})) = Cardinality(Spots(jar, {})) + Cardinality(DOMAIN jar[d])
            /\ Cardinality(DOMAIN jar[d]) \in Nat
        BY <4>2, <4>3, <4>4, SpotsAdd
      <4>6. /\ Cardinality(Spots(jar, {d})) <= Cardinality(Spots(jar, DOMAIN jar))
            /\ Cardinality(Spots(jar, {d})) \in Nat /\ Cardinality(Spots(jar, DOMAIN jar)) \in Nat
        BY <4>1, SpotsOfSome
      <4>7. Cardinality(Spots(jar, {d})) = Nodes(t)
        BY <4>2, <4>3, <4>4, <4>5
      <4> QED BY <4>1, <4>6, <4>7, CookiesAssumption
    <3> HIDE DEF t
    <3>4. DOMAIN t \subseteq 1..15 /\ \A i \in DOMAIN t : t[i] \in Held(d)
      BY <3>1, TreeIs
    <3>5. InOrder(t) \in Seq(Held(d)) /\ Len(InOrder(t)) = Nodes(t) /\ ToSet(InOrder(t)) = Range(t)
      BY <3>4, InOrderHolds
    <3>6. InOrder(t) \in Seq(TypeOf)
      BY <3>2, <3>5
    <3>7. \A c \in ToSet(InOrder(t)) : DomainOf(c) = d
      BY <3>2, <3>4, <3>5 DEF Range
    <3> QED BY <3>3, <3>5, <3>6, <3>7 DEF t
  <2> QED BY <2>1 DEF TypeOK, CookiesInv
<1> QED BY <1>1, CookiesInvariance, PTL

\* No cookie goes to another site: host and origin have a domain in common that is
\* not public, or the domain itself set it.
THEOREM SentToTheirSite == Spec => []SentToItsSite
<1>1. CookiesInv => SentToItsSite
  <2> SUFFICES ASSUME CookiesInv, NEW c \in got.cookies
               PROVE  /\ DomainOf(c) \in Suffixes(got.host)
                      /\ \/ DomainOf(c) = c.origin_domain
                         \/ \E d \in Suffixes(got.host) \cap Suffixes(c.origin_domain) :
                              Len(d) > 1 /\ d # PublicSuffix
    BY DEF SentToItsSite
  <2> DEFINE host == got.host
  <2>1. host \in Seq(Nat) /\ Len(host) \in Nat /\ c \in Sendable(host)
    BY DEF CookiesInv
  <2>2. PICK i \in 0..(Len(host) - 1) : c \in Filed(Cut(host, i))
    BY <2>1 DEF Sendable
  <2> DEFINE d == Cut(host, i)
  <2>3. /\ DomainOf(c) = d /\ c.origin_domain # <<>> /\ c.origin_domain \in Seq(Nat)
        /\ DomainMatched(d, c.origin_domain)
    BY <2>2 DEF Filed, TypeOf
  <2>4. d \in Suffixes(host) /\ d # <<>>
    <3>1. i \in 0..Len(host) /\ Len(host) - i > 0
      BY <2>1, <2>2
    <3>2. d \in Suffixes(host) /\ Len(d) = Len(host) - i
      BY <2>1, <3>1, CutIs
    <3>3. Len(d) # 0
      BY <2>1, <3>1, <3>2
    <3> QED BY <3>2, <3>3
  <2> HIDE DEF host, d
  <2>5. \/ d = c.origin_domain
        \/ \E x \in Suffixes(host) \cap Suffixes(c.origin_domain) : Len(x) > 1 /\ x # PublicSuffix
    BY <2>1, <2>3, <2>4, SiteIs
  <2> QED BY <2>3, <2>4, <2>5 DEF host
<1> QED BY <1>1, CookiesInvariance, PTL

\* Where the cookies of a domain have one path, its list holds each once, with the
\* value that was set last.
THEOREM LatestIsHeld == Spec => []LatestOnOnePath
<1>1. CookiesInv => LatestOnOnePath
  <2> SUFFICES ASSUME CookiesInv, NEW d \in DOMAIN jar, OnePath(d)
               PROVE  LET s == InOrder(jar[d])
                      IN \A k \in 1..Len(s) :
                           /\ s[k].value = last[Identity(s[k])]
                           /\ \A l \in 1..Len(s) : Identity(s[k]) = Identity(s[l]) => k = l
    BY DEF LatestOnOnePath
  <2> DEFINE t == jar[d]
             s == InOrder(t)
  <2>1. t \in Trees(Held(d)) /\ Sorted(t)
    BY DEF CookiesInv, JarInv
  <2> HIDE DEF t
  <2>2. PICK p : t \in Trees(OfPath(d, p))
    BY <2>1, HeldOfPath
  <2>3. DOMAIN t \subseteq 1..15 /\ \A i \in DOMAIN t : t[i] \in Held(d) /\ t[i] \in OfPath(d, p)
    <3>1. DOMAIN t \subseteq 1..7 /\ \A i \in DOMAIN t : t[i] \in Held(d)
      BY <2>1, TreeIs
    <3>2. \A i \in DOMAIN t : t[i] \in OfPath(d, p)
      BY <2>2, TreeIs
    <3> QED BY <3>1, <3>2
  <2>4. Len(s) = Nodes(t) /\ Nodes(t) \in Nat /\ \A k \in 1..Len(s) : \E i \in DOMAIN t : s[k] = t[i]
    <3>1. \A i \in DOMAIN t : t[i] \in Held(d)
      BY <2>3
    <3>2. DOMAIN t \subseteq 1..15
      BY <2>3
    <3> DEFINE C == Held(d)
    <3> HIDE DEF C
    <3>3. \A i \in DOMAIN t : t[i] \in C
      BY <3>1 DEF C
    <3>4. Len(s) = Nodes(t)
      BY <3>3, <3>2, InOrderIs
    <3>5. \A k \in 1..Nodes(t) : NodeAt(t, k - 1) \in DOMAIN t /\ s[k] = t[NodeAt(t, k - 1)]
      <4>1. \A k \in 1..Nodes(t) : /\ NodeAt(t, k - 1) \in DOMAIN t
                                   /\ InOrder(t)[k] = t[NodeAt(t, k - 1)]
        <5> HIDE DEF s
        <5> QED BY <3>3, <3>2, InOrderIs, ZenonT(30)
      <4> QED BY <4>1
    <3>6. Nodes(t) \in Nat
      BY <3>2, NodeNumbers
    <3> HIDE DEF s
    <3> QED BY <3>4, <3>5, <3>6
  <2> HIDE DEF s
  <2>5. \A k \in 1..Len(s) : s[k].value = last[Identity(s[k])]
    BY <2>3, <2>4 DEF Held
  <2>6. \A k, l \in 1..Len(s) : k < l => s[k].name < s[l].name
    BY <2>1, <2>3, <2>4, InOrderSorted DEF s
  <2>7. \A k \in 1..Len(s) : s[k].name \in Nat
    <3>1. \A c \in OfPath(d, p) : c.name \in Nat
      BY LessIs
    <3> QED BY <2>3, <2>4, <3>1
  <2>8. ASSUME NEW k \in 1..Len(s), NEW l \in 1..Len(s), Identity(s[k]) = Identity(s[l])
        PROVE  k = l
    <3>1. s[k].name = s[l].name
      BY <2>8 DEF Identity
    <3>2. ~(k < l) /\ ~(l < k)
      BY <2>6, <2>7, <3>1
    <3> QED BY <2>4, <3>2
  <2> QED BY <2>5, <2>8 DEF s, t
<1> QED BY <1>1, CookiesInvariance, PTL

\* A domain that goes with an origin has a label.
LEMMA DomainHasLabel ==
  ASSUME NEW d \in Seq(Nat), NEW o \in Seq(Nat), o # <<>>, DomainMatched(d, o)
  PROVE  Len(d) > 0 /\ Len(d) \in Nat
<1>1. Len(d) \in Nat /\ Len(o) \in Nat /\ Len(o) > 0
  OBVIOUS
<1>2. CASE Len(d) = 0
  <2> DEFINE n == Len(o)
  <2>1. Covers(d, o, n)
    <3>1. -(Len(d) - Len(o)) = n /\ Len(d) - Len(o) < 0
      BY <1>1, <1>2
    <3> QED BY <3>1 DEF DomainMatched
  <2>2. n \in Nat /\ n > 0 /\ n - 1 \in 0..Len(o) /\ n - 1 \in 0..(n - 1) /\ Len(o) - (n - 1) = 1
    BY <1>1
  <2> HIDE DEF n
  <2>3. Len(Cut(o, n - 1)) = 1
    BY <2>2, CutIs
  <2>4. IsPublic(Cut(o, n - 1))
    BY <2>3 DEF IsPublic
  <2>5. PublicOnTheWay(o, n)
    BY <2>2, <2>4 DEF PublicOnTheWay
  <2> QED BY <2>1, <2>5 DEF Covers
<1> QED BY <1>1, <1>2

\* What is due is sent.
LEMMA DueIsSent ==
  ASSUME JarInv, NEW r \in Requests, NEW d \in DOMAIN jar, NEW c \in Range(jar[d]),
         Due(c, r.host, r.path)
  PROVE  \E e \in ToSet(Sent(r)) : Identity(e) = Identity(c)
<1> DEFINE host == r.host
           n == Len(host) - Len(d)
           t == jar[d]
<1>1. host \in Seq(Nat) /\ Len(host) \in Nat /\ r.path \in Seq(Nat)
  BY CookiesAssumption
<1>2. PICK i \in DOMAIN t : c = t[i]
  BY DEF Range
<1>3. c \in Filed(d) /\ c \in TypeOf
  <2>1. t \in Trees(Held(d))
    BY DEF JarInv
  <2> HIDE DEF t
  <2> QED BY <1>2, <2>1, TreeIs DEF Held, Filed
<1>4. /\ DomainOf(c) = d /\ d \in Seq(Nat) /\ PathOf(c) \in Seq(Nat) /\ Len(d) > 0 /\ Len(d) \in Nat
  <2>1. /\ DomainOf(c) = d /\ PathOf(c) \in Seq(Nat) /\ d \in Seq(Nat)
        /\ c.origin_domain \in Seq(Nat) /\ c.origin_domain # <<>> /\ DomainMatched(d, c.origin_domain)
    BY <1>3 DEF Filed, TypeOf, DomainOf, PathOf
  <2> QED BY <2>1, DomainHasLabel
<1>5. /\ d \in Suffixes(host) /\ Below(r.path, PathOf(c)) /\ ~Expired(c) /\ ~c.secure
      /\ \A e \in Suffixes(host) : Len(e) > Len(d) => e # PublicSuffix /\ e \notin Addresses
  BY <1>4 DEF Due
<1>6. Len(d) <= Len(host) /\ d = Cut(host, n) /\ n \in 0..(Len(host) - 1)
  <2>1. Len(d) \in 0..Len(host) /\ d = Cut(host, n)
    BY <1>1, <1>5, SuffixIs
  <2> QED BY <1>1, <1>4, <2>1
<1>7. \A j \in 0..(n - 1) : ~IsPublic(Cut(host, j))
  <2> TAKE j \in 0..(n - 1)
  <2> DEFINE e == Cut(host, j)
  <2>1. j \in 0..Len(host) /\ Len(host) - j > Len(d) /\ Len(host) - j \in Nat
    BY <1>1, <1>4, <1>6
  <2>2. e \in Suffixes(host) /\ Len(e) = Len(host) - j
    BY <1>1, <2>1, CutIs
  <2> HIDE DEF e
  <2>3. Len(e) > Len(d) /\ Len(e) # 1
    BY <1>4, <2>1, <2>2
  <2>4. e # PublicSuffix /\ e \notin Addresses
    BY <1>5, <2>2, <2>3
  <2> QED BY <2>3, <2>4 DEF IsPublic, e
<1>8. 0..n \subseteq Visited(host)
  <2> SUFFICES ASSUME NEW m \in 0..n
               PROVE  m \in Visited(host)
    OBVIOUS
  <2>1. m \in 0..(Len(host) - 1)
    BY <1>1, <1>6
  <2>2. \A j \in 0..(m - 1) : j \in 0..(n - 1)
    BY <1>6
  <2> QED BY <1>7, <2>1, <2>2 DEF Visited
<1>9. n + 1 \in 1..Cardinality(Visited(host)) /\ (n + 1) - 1 = n
  <2>1. n \in Nat
    BY <1>1, <1>6
  <2> HIDE DEF n
  <2>2. n + 1 <= Cardinality(Visited(host)) /\ Cardinality(Visited(host)) \in 0..Len(host)
    BY <1>1, <1>8, <2>1, VisitedIs
  <2> QED BY <1>1, <2>1, <2>2
<1>10. Stored(Cut(host, (n + 1) - 1)) = t
  BY <1>6, <1>9 DEF Stored
<1>11. i \in Eligible(t, r.path) \ Outdated(t)
  <2>1. PathMatched(PathOf(c), r.path)
    BY <1>1, <1>4, <1>5, BelowMatches
  <2> QED BY <1>2, <1>5, <2>1 DEF Eligible, Outdated
<1> DEFINE k == n + 1
<1>12. k \in 1..Cardinality(Visited(r.host)) /\ Stored(Cut(r.host, k - 1)) = t
  BY <1>9, <1>10
<1> HIDE DEF n, t, k, host
<1>13. \E e \in ToSet(Sent(r)) : Identity(e) = Identity(t[i])
  BY <1>11, <1>12, SentIs
<1> QED BY <1>2, <1>13

\* Of all the cookies due to a request, of its domain and those above, each is written
\* in it, or another of its name that the host may have.
THEOREM AllDueIsSent == Spec => AllDueSent
<1> DEFINE Given == \A c \in AllStored :
                      Due(c, got'.host, got'.path) =>
                        \E e \in got'.cookies \cap MayGoTo(got'.host) : e.name = c.name
<1>1. CookiesInv /\ [Next]_vars => [Get => Given]_vars
  <2> SUFFICES ASSUME CookiesInv, Get
               PROVE  Given
    OBVIOUS
  <2>1. PICK r \in Requests :
          got' = [host |-> r.host, path |-> r.path, cookies |-> OnePerName(Sent(r))]
    BY DEF Get, Sent
  <2> DEFINE s == Sent(r)
             w == OnePerName(s)
  <2>2. got'.host = r.host /\ got'.path = r.path /\ got'.cookies = w
    BY <2>1
  <2>3. s \in Seq(TypeOf) /\ Len(s) \in 0..4 /\ ToSet(s) \subseteq MayGoTo(r.host)
    BY SentIs DEF CookiesInv
  <2>4. ASSUME NEW c \in AllStored, Due(c, got'.host, got'.path)
        PROVE  \E e \in got'.cookies \cap MayGoTo(got'.host) : e.name = c.name
    <3>1. PICK d \in DOMAIN jar : c \in ToSet(InOrder(jar[d]))
      BY DEF AllStored
    <3>2. c \in Range(jar[d]) /\ Due(c, r.host, r.path)
      BY <2>2, <2>4, <3>1, ListOf DEF CookiesInv
    <3>3. PICK f \in ToSet(s) : Identity(f) = Identity(c)
      BY <3>2, DueIsSent DEF CookiesInv
    <3> HIDE DEF s
    <3>4. f.name = c.name
      BY <3>3 DEF Identity
    <3>5. PICK e \in w : e.name = f.name
      BY <2>3, OnePerNameIs
    <3>6. e \in ToSet(s)
      BY <2>3, <3>5, OnePerNameIs
    <3> HIDE DEF w
    <3> QED BY <2>2, <2>3, <3>4, <3>5, <3>6
  <2> QED BY <2>4
<1> QED BY <1>1, CookiesInvariance, PTL DEF Spec, AllDueSent

\* Where the cookies of a domain have one path, none is taken from its list before it is
\* expired.
THEOREM NoneIsLost == Spec => NothingLost
<1> DEFINE Safe == \A d \in DOMAIN jar : OnePath(d) =>
                     \A c \in ToSet(InOrder(jar[d])) :
                       Expired(c) \/ \E e \in ToSet(InOrder(jar'[d])) : Identity(e) = Identity(c)
<1>1. CookiesInv /\ [Next]_vars => [Safe]_vars
  <2> SUFFICES ASSUME CookiesInv, Next
               PROVE  Safe
    OBVIOUS
  <2>1. JarInv /\ JarInv'
    BY NextKeeps DEF CookiesInv
  <2>2. \A d \in DOMAIN jar : ToSet(InOrder(jar[d])) = Range(jar[d])
    BY <2>1, ListOf
  <2>3. \A d \in DOMAIN jar' : ToSet(InOrder(jar'[d])) = Range(jar'[d])
    <3> TAKE d \in DOMAIN jar'
    <3>1. jar'[d] \in Trees(Held(d)')
      BY <2>1 DEF JarInv
    <3>2. DOMAIN jar'[d] \subseteq 1..15 /\ \A i \in DOMAIN jar'[d] : jar'[d][i] \in Held(d)'
      BY <3>1, TreeIs
    <3> QED BY <3>2, InOrderHolds
  <2>4. CASE Add
    <3>1. \A d \in DOMAIN jar : d \in DOMAIN jar' /\ Kept(d)
      <4>1. DOMAIN jar \subseteq DOMAIN jar'
        BY <2>4 DEF Add
      <4> QED BY <2>1, <2>4, <4>1, AddKeeps
    <3> QED BY <2>2, <2>3, <3>1 DEF Kept
  <2>5. CASE Get
    <3>1. \A d \in DOMAIN jar : OnePath(d) =>
            \A c \in Range(jar[d]) : Expired(c) \/ c \in Range(jar'[d])
      BY <2>1, <2>5, GetKeeps
    <3>2. DOMAIN jar \subseteq DOMAIN jar'
      BY <2>5 DEF Get
    <3> QED BY <2>2, <2>3, <3>1, <3>2
  <2>6. CASE Tick
    BY <2>6 DEF Tick
  <2> QED BY <2>4, <2>5, <2>6 DEF Next
<1> QED BY <1>1, CookiesInvariance, PTL DEF Spec, NothingLost
=============================================================================
