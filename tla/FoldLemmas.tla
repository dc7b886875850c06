----------------------------- MODULE FoldLemmas -----------------------------
(***************************************************************************)
(* What FoldLeft computes, for any operator: the facts an induction along  *)
(* a sequence needs.  FoldInduction is that induction, with a set for each *)
(* position in place of a predicate: those sets are of the values the      *)
(* accumulator may have there.                                             *)
(***************************************************************************)
EXTENDS Integers, SequencesExt, WellFoundedInduction, TLAPS

CONSTANT Op(_, _)

\* Every set of naturals with an element has a least one.
LEMMA LeastNatural ==
  ASSUME NEW S, S \subseteq Nat, S # {}
  PROVE  \E n \in S : \A m \in S : n <= m
<1>1. IsWellFoundedOn(OpToRel(<, Nat), Nat)
  BY NatLessThanWellFounded
<1>2. PICK n \in S : \A m \in S : <<m, n>> \notin OpToRel(<, Nat)
  BY <1>1, WFMin
<1>3. \A m \in S : <<m, n>> \in OpToRel(<, Nat) <=> m < n
  BY DEF OpToRel
<1>4. \A m \in S : ~(m < n)
  BY <1>2, <1>3, Zenon
<1> QED
  BY <1>4

\* Induction over the naturals, for a set rather than a predicate.
LEMMA NaturalInduction ==
  ASSUME NEW S, 0 \in S, \A n \in Nat : n \in S => n + 1 \in S
  PROVE  Nat \subseteq S
<1>1. SUFFICES ASSUME Nat \ S # {} PROVE FALSE
  OBVIOUS
<1>2. PICK n \in Nat \ S : \A m \in Nat \ S : n <= m
  BY <1>1, LeastNatural
<1>3. n # 0 /\ n - 1 \in Nat /\ n - 1 \notin Nat \ S
  BY <1>2
<1> QED
  BY <1>3

\* Max() of a set of numbers up to n is its greatest element.
LEMMA MaxIsGreatest ==
  ASSUME NEW n \in Nat, NEW s \in SUBSET (1..n), s # {}
  PROVE  Max(s) \in s /\ \A i \in s : i <= Max(s)
<1> DEFINE Has(k) == \A t \in SUBSET (1..k) : t # {} => \E i \in t : \A j \in t : i >= j
           S == {k \in Nat : Has(k)}
<1>1. Has(0)
  <2>1. \A t \in SUBSET (1..0) : t = {}
    OBVIOUS
  <2> QED
    BY <2>1
<1>2. ASSUME NEW k \in Nat, Has(k) PROVE Has(k + 1)
  <2>1. SUFFICES ASSUME NEW t \in SUBSET (1..(k + 1)), t # {}, k + 1 \notin t
                 PROVE  \E i \in t : \A j \in t : i >= j
    OBVIOUS
  <2>2. t \in SUBSET (1..k)
    BY <2>1
  <2> QED
    BY <1>2, <2>1, <2>2
<1>3. Has(n)
  <2> HIDE DEF Has
  <2>1. 0 \in S /\ \A k \in Nat : k \in S => k + 1 \in S
    BY <1>1, <1>2
  <2>2. Nat \subseteq S
    <3> HIDE DEF S
    <3> QED
      BY <2>1, NaturalInduction
  <2> QED
    BY <2>2
<1>4. \E i \in s : \A j \in s : i >= j
  BY <1>3
<1> QED
  BY <1>4 DEF Max

Folded(a, s) == FoldLeft(Op, a, s)

\* The function FoldLeft chooses, on the sets of the first n positions.
IsFold(h, n, a, s) ==
  h = [t \in SUBSET (1..n) |-> IF t = {} THEN a ELSE Op(h[t \ {Max(t)}], s[Max(t)])]

\* There is one.
LEMMA FoldExists ==
  ASSUME NEW n \in Nat, NEW a, NEW s
  PROVE  \E h : IsFold(h, n, a, s)
<1> DEFINE Has(k) == \E h : IsFold(h, k, a, s)
           S == {k \in Nat : Has(k)}
<1>1. Has(0)
  <2> DEFINE h == [t \in SUBSET (1..0) |-> a]
  <2>1. \A t \in SUBSET (1..0) : t = {}
    OBVIOUS
  <2>2. IsFold(h, 0, a, s)
    BY <2>1 DEF IsFold
  <2> QED
    BY <2>2
<1>2. ASSUME NEW k \in Nat, Has(k) PROVE Has(k + 1)
  <2>1. PICK g : IsFold(g, k, a, s)
    BY <1>2
  <2> DEFINE h == [t \in SUBSET (1..(k + 1)) |->
                     IF k + 1 \in t THEN Op(g[t \ {k + 1}], s[k + 1]) ELSE g[t]]
             Next(t) == IF t = {} THEN a ELSE Op(h[t \ {Max(t)}], s[Max(t)])
  <2>2. ASSUME NEW t \in SUBSET (1..(k + 1)), k + 1 \in t
        PROVE  h[t] = Next(t)
    <3>1. t \ {k + 1} \in SUBSET (1..k) /\ t \ {k + 1} \in SUBSET (1..(k + 1))
      OBVIOUS
    <3>2. k + 1 \in Nat /\ t # {}
      BY <2>2
    <3>3. Max(t) = k + 1
      <4>1. Max(t) \in t /\ \A i \in t : i <= Max(t)
        BY <3>2, MaxIsGreatest
      <4>2. Max(t) \in 1..(k + 1) /\ k + 1 <= Max(t)
        BY <2>2, <4>1
      <4> QED
        BY <4>2
    <3>4. h[t] = Op(g[t \ {k + 1}], s[k + 1])
      BY <2>2
    <3>5. h[t \ {k + 1}] = g[t \ {k + 1}]
      BY <3>1
    <3> HIDE DEF h
    <3> QED
      BY <3>2, <3>3, <3>4, <3>5
  <2>3. ASSUME NEW t \in SUBSET (1..(k + 1)), k + 1 \notin t, t # {}
        PROVE  h[t] = Next(t)
    <3>1. t \in SUBSET (1..k) /\ h[t] = g[t]
      BY <2>3
    <3>2. g[t] = Op(g[t \ {Max(t)}], s[Max(t)])
      BY <2>1, <2>3, <3>1 DEF IsFold
    <3>3. t \ {Max(t)} \in SUBSET (1..(k + 1)) /\ k + 1 \notin t \ {Max(t)}
      BY <2>3
    <3>4. h[t \ {Max(t)}] = g[t \ {Max(t)}]
      BY <3>3
    <3> HIDE DEF h
    <3> QED
      BY <2>3, <3>1, <3>2, <3>4
  <2>4. h[{}] = a
    <3>1. {} \in SUBSET (1..k) /\ {} \in SUBSET (1..(k + 1)) /\ k + 1 \notin {}
      OBVIOUS
    <3>2. g[{}] = a
      BY <2>1, <3>1 DEF IsFold
    <3> QED
      BY <3>1, <3>2
  <2>5. \A t \in SUBSET (1..(k + 1)) : h[t] = Next(t)
    <3> HIDE DEF h
    <3> QED
      BY <2>2, <2>3, <2>4
  <2>6. h = [t \in SUBSET (1..(k + 1)) |-> h[t]]
    OBVIOUS
  <2>7. IsFold(h, k + 1, a, s)
    <3> HIDE DEF h
    <3> QED
      BY <2>5, <2>6 DEF IsFold
  <2> QED
    BY <2>7
<1>3. Has(n)
  <2> HIDE DEF Has
  <2>1. 0 \in S /\ \A k \in Nat : k \in S => k + 1 \in S
    BY <1>1, <1>2
  <2>2. Nat \subseteq S
    <3> HIDE DEF S
    <3> QED
      BY <2>1, NaturalInduction
  <2> QED
    BY <2>2
<1> QED
  BY <1>3

\* The accumulators of a fold: one for each position, one operation apart.
Accumulates(acc, a, s) ==
  /\ acc = [k \in 0..Len(s) |-> acc[k]] /\ acc[0] = a
  /\ \A k \in 1..Len(s) : acc[k] = Op(acc[k - 1], s[k])
  /\ acc[Len(s)] = Folded(a, s)

\* A fold is the last of its accumulators.
LEMMA FoldAccumulates ==
  ASSUME NEW B, NEW a, NEW s \in Seq(B)
  PROVE  \E acc : Accumulates(acc, a, s)
<1> DEFINE n == Len(s)
           E(g) == g = [t \in SUBSET DOMAIN s |->
                          IF t = {} THEN a ELSE Op(g[t \ {Max(t)}], s[Max(t)])]
           f == CHOOSE g : E(g)
<1>0. n \in Nat /\ DOMAIN s = 1..n
  OBVIOUS
<1>1. \E h : E(h)
  <2>1. PICK h : IsFold(h, n, a, s)
    <3> HIDE DEF n
    <3> QED BY <1>0, FoldExists, Zenon
  <2>2. E(h)
    <3> HIDE DEF n
    <3> QED BY <1>0, <2>1 DEF IsFold
  <2> QED BY <2>2
<1>2. E(f)
  <2> HIDE DEF E
  <2> QED BY <1>1
<1>3. Folded(a, s) = f[DOMAIN s]
  BY DEF Folded, FoldLeft, MapThenFoldSet
<1> DEFINE acc == [k \in 0..n |-> f[1..k]]
<1>4. ASSUME NEW k \in Nat, k < n
      PROVE  f[1..(k + 1)] = Op(f[1..k], s[k + 1])
  <2> HIDE DEF n, f, E
  <2>0. n \in Nat /\ k + 1 <= n
    BY <1>0, <1>4
  <2>1. 1..(k + 1) \in SUBSET (1..n)
    BY <2>0, <1>4
  <2>2. 1..(k + 1) # {}
    <3>1. k + 1 \in 1..(k + 1)
      BY <1>4
    <3> QED BY <3>1
  <2>3. (1..(k + 1)) \ {k + 1} = 1..k
    OBVIOUS
  <2>4. Max(1..(k + 1)) = k + 1
    <3>1. Max(1..(k + 1)) \in 1..(k + 1) /\ \A i \in 1..(k + 1) : i <= Max(1..(k + 1))
      BY <2>0, <2>1, <2>2, MaxIsGreatest
    <3>2. k + 1 \in 1..(k + 1)
      BY <1>4
    <3> QED
      BY <3>1, <3>2
  <2>5. f[1..(k + 1)] = Op(f[(1..(k + 1)) \ {Max(1..(k + 1))}], s[Max(1..(k + 1))])
    BY <1>0, <1>2, <2>1, <2>2 DEF E
  <2> QED
    BY <2>3, <2>4, <2>5
<1>5. f[1..0] = a
  <2>1. 1..0 = {} OBVIOUS
  <2> HIDE DEF n, f
  <2> QED BY <1>2, <2>1
<1>6. acc = [k \in 0..n |-> acc[k]] /\ acc[0] = a /\ acc[n] = f[DOMAIN s]
  <2> HIDE DEF n, f
  <2> QED BY <1>0, <1>5
<1>7. \A k \in 1..n : acc[k] = Op(acc[k - 1], s[k])
  <2> TAKE k \in 1..n
  <2>1. k - 1 \in Nat /\ k - 1 < n /\ (k - 1) + 1 = k
    <3> HIDE DEF n
    <3> QED BY <1>0
  <2>2. f[1..k] = Op(f[1..(k - 1)], s[k])
    <3> HIDE DEF n, f
    <3> QED BY <1>4, <2>1
  <2> HIDE DEF f
  <2> QED BY <2>2, <1>0
<1> HIDE DEF f, acc
<1> QED
  BY <1>3, <1>6, <1>7, Zenon DEF Accumulates

\* What holds of the base, and is handed on by each element, holds of the fold.
LEMMA FoldAlong ==
  ASSUME NEW B, NEW a, NEW s \in Seq(B), NEW G, a \in G[0],
         \A k \in 1..Len(s) : \A x \in G[k - 1] : Op(x, s[k]) \in G[k]
  PROVE  Folded(a, s) \in G[Len(s)]
<1>1. PICK acc : Accumulates(acc, a, s)
  BY FoldAccumulates, Zenon
<1> DEFINE Has(k) == k <= Len(s) => acc[k] \in G[k]
           S == {k \in Nat : Has(k)}
<1>2. Has(0)
  BY <1>1 DEF Accumulates
<1>3. ASSUME NEW k \in Nat, Has(k) PROVE Has(k + 1)
  <2>1. SUFFICES ASSUME k + 1 <= Len(s) PROVE acc[k + 1] \in G[k + 1]
    OBVIOUS
  <2>2. k + 1 \in 1..Len(s) /\ (k + 1) - 1 = k /\ acc[k] \in G[k]
    BY <1>3, <2>1
  <2>3. acc[k + 1] = Op(acc[k], s[k + 1])
    BY <1>1, <2>2 DEF Accumulates
  <2> QED
    BY <2>2, <2>3
<1>4. Has(Len(s))
  <2> HIDE DEF Has
  <2>1. 0 \in S
    BY <1>2
  <2>2. ASSUME NEW k \in Nat, k \in S PROVE k + 1 \in S
    BY <1>3, <2>2
  <2>3. Nat \subseteq S
    <3> HIDE DEF S
    <3> QED
      BY <2>1, <2>2, NaturalInduction
  <2> QED
    BY <2>3
<1>5. acc[Len(s)] = Folded(a, s)
  BY <1>1 DEF Accumulates
<1> QED
  BY <1>4, <1>5

Closes(A, B) == \A x \in A, y \in B : Op(x, y) \in A

HasHistory(A, a, s) ==
  \E acc \in [0..Len(s) -> A] :
    /\ acc[0] = a
    /\ \A k \in 1..Len(s) : acc[k] = Op(acc[k - 1], s[k])
    /\ acc[Len(s)] = Folded(a, s)

\* The accumulators stay in a set the operation does not leave.
LEMMA FoldHistory ==
  ASSUME NEW A, NEW B, NEW a \in A, NEW s \in Seq(B),
         Closes(A, B)
  PROVE  HasHistory(A, a, s)
<1>1. PICK acc : Accumulates(acc, a, s)
  BY FoldAccumulates, Zenon
<1> DEFINE Has(k) == k <= Len(s) => acc[k] \in A
           S == {k \in Nat : Has(k)}
<1>2. Has(0)
  BY <1>1 DEF Accumulates
<1>3. ASSUME NEW k \in Nat, Has(k) PROVE Has(k + 1)
  <2>1. SUFFICES ASSUME k + 1 <= Len(s) PROVE acc[k + 1] \in A
    OBVIOUS
  <2>2. k + 1 \in 1..Len(s) /\ (k + 1) - 1 = k /\ acc[k] \in A /\ s[k + 1] \in B
    BY <1>3, <2>1
  <2>3. acc[k + 1] = Op(acc[k], s[k + 1])
    BY <1>1, <2>2 DEF Accumulates
  <2> QED
    BY <2>2, <2>3 DEF Closes
<1>4. \A k \in 0..Len(s) : acc[k] \in A
  <2> HIDE DEF Has
  <2>1. 0 \in S
    BY <1>2
  <2>2. ASSUME NEW k \in Nat, k \in S PROVE k + 1 \in S
    BY <1>3, <2>2
  <2>3. Nat \subseteq S
    <3> HIDE DEF S
    <3> QED
      BY <2>1, <2>2, NaturalInduction
  <2> QED
    BY <2>3 DEF Has
<1>5. acc \in [0..Len(s) -> A]
  BY <1>1, <1>4 DEF Accumulates
<1> QED
  BY <1>1, <1>5 DEF Accumulates, HasHistory

\* A fold over no element is its base.
LEMMA FoldEmpty ==
  ASSUME NEW A, NEW B, NEW a \in A, Closes(A, B)
  PROVE  Folded(a, <<>>) = a
<1>1. <<>> \in Seq(B) /\ Len(<<>>) = 0
  OBVIOUS
<1>2. HasHistory(A, a, <<>>)
  BY <1>1, FoldHistory, Zenon
<1> QED
  BY <1>1, <1>2 DEF HasHistory

\* FoldAlong for accumulators of one type.
LEMMA FoldInduction ==
  ASSUME NEW A, NEW B, NEW a \in A, NEW s \in Seq(B),
         Closes(A, B),
         NEW G \in [0..Len(s) -> SUBSET A], a \in G[0],
         \A k \in 1..Len(s) : \A x \in G[k - 1] : Op(x, s[k]) \in G[k]
  PROVE  Folded(a, s) \in G[Len(s)]
BY FoldAlong, Zenon

Unrolls(a, s) ==
  \A k \in 0..(Len(s) - 1) :
    Folded(a, SubSeq(s, 1, k + 1)) = Op(Folded(a, SubSeq(s, 1, k)), s[k + 1])

\* A fold over one more element is one more operation.
LEMMA FoldStep ==
  ASSUME NEW A, NEW B, NEW a \in A, NEW s \in Seq(B), Closes(A, B)
  PROVE  Unrolls(a, s)
<1>0. SUFFICES ASSUME NEW k \in 0..(Len(s) - 1)
               PROVE  Folded(a, SubSeq(s, 1, k + 1)) = Op(Folded(a, SubSeq(s, 1, k)), s[k + 1])
  BY DEF Unrolls
<1> DEFINE t == SubSeq(s, 1, k)
           u == SubSeq(s, 1, k + 1)
<1>1. /\ t \in Seq(B) /\ Len(t) = k /\ \A j \in 1..k : t[j] = s[j]
      /\ u \in Seq(B) /\ Len(u) = k + 1 /\ \A j \in 1..(k + 1) : u[j] = s[j]
  OBVIOUS
<1> HIDE DEF t, u
<1>2. HasHistory(A, a, u)
  BY <1>1, FoldHistory, Zenon
<1>3. PICK acc \in [0..Len(u) -> A] :
             /\ acc[0] = a
             /\ \A j \in 1..Len(u) : acc[j] = Op(acc[j - 1], u[j])
             /\ acc[Len(u)] = Folded(a, u)
  BY <1>2, Zenon DEF HasHistory
<1> DEFINE G == [j \in 0..Len(t) |-> {acc[j]}]
<1>4. G \in [0..Len(t) -> SUBSET A] /\ a \in G[0]
  BY <1>1, <1>3
<1>5. \A j \in 1..Len(t) : \A x \in G[j - 1] : Op(x, t[j]) \in G[j]
  <2> TAKE j \in 1..Len(t)
  <2>0. k \in Nat /\ j \in 1..k /\ j \in 1..(k + 1)
    BY <1>1
  <2>1. j \in 0..Len(t) /\ j - 1 \in 0..Len(t) /\ j \in 1..Len(u) /\ t[j] = u[j]
    <3> HIDE DEF G
    <3>1. Len(t) = k /\ Len(u) = k + 1
      BY <1>1
    <3>2. t[j] = s[j]
      BY <1>1, <2>0
    <3>3. u[j] = s[j]
      BY <1>1, <2>0
    <3>4. j \in 0..k /\ j - 1 \in 0..k
      BY <2>0
    <3> QED
      BY <2>0, <3>1, <3>2, <3>3, <3>4
  <2>2. acc[j] = Op(acc[j - 1], t[j])
    BY <1>3, <2>1
  <2> QED
    BY <2>1, <2>2
<1>6. Folded(a, t) \in G[Len(t)]
  <2> HIDE DEF G
  <2> QED BY <1>1, <1>4, <1>5, FoldInduction, Zenon
<1>7. Folded(a, t) = acc[k]
  BY <1>1, <1>6
<1>8. Folded(a, u) = Op(acc[k], s[k + 1])
  BY <1>1, <1>3
<1> QED
  BY <1>7, <1>8 DEF t, u

=============================================================================
