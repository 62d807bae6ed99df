------------------------- MODULE SequenceInduction -------------------------
(***************************************************************************)
(* Induction and recursion for the proofs about sequences.  The provers    *)
(* cannot instantiate the library's induction theorems, whose parameter is *)
(* an operator; here the induction hypothesis is a set of numbers and the  *)
(* step of a recursion is a function, which first-order provers can name.  *)
(***************************************************************************)
EXTENDS Integers, Sequences, SequencesExt, FiniteSets, WellFoundedInduction, TLAPS

\* Every inhabited set of natural numbers has a least element.
LEMMA LeastNatural ==
  ASSUME NEW T, T \subseteq Nat, T # {}
  PROVE  \E x \in T : \A y \in T : x <= y
<1>1. PICK x \in T : \A y \in T : ~(<<y, x>> \in OpToRel(<, Nat))
  BY NatLessThanWellFounded, WFMin
<1>2. \A y \in T : ~(y < x)
  BY <1>1 DEF OpToRel
<1> QED BY <1>2

\* Induction up to a bound: a set that has 0 and with each number the next one.
LEMMA UpTo ==
  ASSUME NEW n \in Nat, NEW G, 0 \in G, \A i \in 1..n : i - 1 \in G => i \in G
  PROVE  \A i \in 0..n : i \in G
<1> DEFINE T == {i \in 0..n : i \notin G}
<1> SUFFICES ASSUME T # {} PROVE FALSE
  OBVIOUS
<1>1. T \subseteq Nat
  OBVIOUS
<1> HIDE DEF T
<1>2. PICK x \in T : \A y \in T : x <= y
  BY <1>1, LeastNatural
<1> USE DEF T
<1>3. x \in 1..n /\ x - 1 \in 0..n /\ ~(x <= x - 1)
  BY <1>2
<1> QED BY <1>2, <1>3

\* f[i] is what i steps make of the base.
Recursion(f, X, n, base, step) ==
  /\ f \in [0..n -> X]
  /\ f[0] = base
  /\ \A i \in 1..n : f[i] = step[<<i, f[i - 1]>>]

\* A recursion of n steps has a result.
LEMMA BoundedRecursion ==
  ASSUME NEW X, NEW n \in Nat, NEW base \in X, NEW step \in [(1..n) \X X -> X]
  PROVE  \E f : Recursion(f, X, n, base, step)
<1> DEFINE Ok(f, k) == f[0] = base /\ \A i \in 1..k : f[i] = step[<<i, f[i - 1]>>]
           G == {k \in 0..n : \E f \in [0..k -> X] : Ok(f, k)}
<1>1. 0 \in G
  <2> DEFINE f == [i \in 0..0 |-> base]
  <2>1. f \in [0..0 -> X] /\ f[0] = base
    OBVIOUS
  <2>2. \A i \in 1..0 : FALSE
    OBVIOUS
  <2> HIDE DEF f
  <2> QED BY <2>1, <2>2
<1>2. ASSUME NEW k \in 1..n, k - 1 \in G PROVE k \in G
  <2>1. PICK f \in [0..(k - 1) -> X] : Ok(f, k - 1)
    BY <1>2
  <2>2. /\ k \in Int /\ k - 1 \in 0..(k - 1) /\ k \notin 0..(k - 1)
        /\ \A i \in 0..k : i \in 0..(k - 1) \/ i = k
        /\ \A i \in 1..k : i - 1 \in 0..(k - 1) /\ (i \in 1..(k - 1) \/ i = k)
        /\ 0 \in 0..(k - 1)
    OBVIOUS
  <2>3. step[<<k, f[k - 1]>>] \in X
    BY <2>2
  <2> DEFINE g == [i \in 0..k |-> IF i = k THEN step[<<k, f[k - 1]>>] ELSE f[i]]
  <2>4. g \in [0..k -> X]
    BY <2>2, <2>3
  <2>5. /\ g[k] = step[<<k, f[k - 1]>>]
        /\ \A i \in 0..(k - 1) : g[i] = f[i]
    BY <2>2
  <2> HIDE DEF g
  <2>6. Ok(g, k)
    <3>1. g[0] = base
      BY <2>1, <2>2, <2>5
    <3>2. \A i \in 1..(k - 1) : g[i] = step[<<i, g[i - 1]>>]
      <4>1. \A i \in 1..(k - 1) : i \in 0..(k - 1) /\ i - 1 \in 0..(k - 1)
        BY <2>2
      <4>2. \A i \in 1..(k - 1) : f[i] = step[<<i, f[i - 1]>>]
        BY <2>1
      <4> QED BY <2>5, <4>1, <4>2
    <3>3. g[k] = step[<<k, g[k - 1]>>]
      BY <2>2, <2>5
    <3> QED BY <2>2, <3>1, <3>2, <3>3
  <2> QED BY <2>4, <2>6
<1> HIDE DEF G
<1>3. n \in G
  BY <1>1, <1>2, UpTo
<1> QED BY <1>3 DEF G, Recursion

\* Induction from a bound down: a set that has the number after the bound, and
\* each number that all later ones are in the set with.
LEMMA DownTo ==
  ASSUME NEW n \in Nat, NEW G, n + 1 \in G,
         \A j \in 1..n : (\A i \in 1..(n + 1) : j < i => i \in G) => j \in G
  PROVE  \A j \in 1..(n + 1) : j \in G
<1> DEFINE H == {k \in 0..n : \A i \in 1..(n + 1) : n - k < i => i \in G}
<1>1. 0 \in H
  <2>1. \A i \in 1..(n + 1) : n - 0 < i => i = n + 1
    OBVIOUS
  <2> QED BY <2>1
<1>2. ASSUME NEW k \in 1..n, k - 1 \in H PROVE k \in H
  <2>1. \A i \in 1..(n + 1) : n - (k - 1) < i => i \in G
    BY <1>2
  <2>2. n - (k - 1) \in 1..n /\ k \in 0..n
    OBVIOUS
  <2>3. n - (k - 1) \in G
    BY <2>1, <2>2
  <2>4. \A i \in 1..(n + 1) : n - k < i => n - (k - 1) < i \/ i = n - (k - 1)
    OBVIOUS
  <2>5. \A i \in 1..(n + 1) : n - k < i => i \in G
    BY <2>1, <2>3, <2>4
  <2> QED BY <2>2, <2>5
<1> HIDE DEF H
<1>3. \A k \in 0..n : k \in H
  BY <1>1, <1>2, UpTo, Zenon
<1>4. n \in H
  BY <1>3
<1>5. \A i \in 1..(n + 1) : n - n < i
  OBVIOUS
<1> QED BY <1>4, <1>5 DEF H

\* A recursion over positions that puts something before what it makes of a
\* later position.
GoesBack(S, n, pre, next) ==
  pre \in [1..n -> Seq(S)] /\ next \in [1..n -> 1..(n + 1)] /\ \A i \in 1..n : i < next[i]
BackRecursion(f, S, n, pre, next) ==
  /\ f \in [1..(n + 1) -> Seq(S)]
  /\ f[n + 1] = <<>> /\ \A i \in 1..n : f[i] = pre[i] \o f[next[i]]

\* It has a result.
LEMMA BackRecursionExists ==
  ASSUME NEW S, NEW n \in Nat, NEW pre, NEW next, GoesBack(S, n, pre, next)
  PROVE  \E f : BackRecursion(f, S, n, pre, next)
<1> USE DEF GoesBack
<1> DEFINE Ok(f, k) == f[n + 1] = <<>> /\ \A i \in 1..n : n - k < i => f[i] = pre[i] \o f[next[i]]
           G == {k \in 0..n : \E f \in [1..(n + 1) -> Seq(S)] : Ok(f, k)}
<1>1. 0 \in G
  <2> DEFINE f == [i \in 1..(n + 1) |-> <<>>]
  <2>1. f \in [1..(n + 1) -> Seq(S)] /\ f[n + 1] = <<>>
    OBVIOUS
  <2>2. 0 \in 0..n /\ \A i \in 1..n : ~(n - 0 < i)
    OBVIOUS
  <2> HIDE DEF f
  <2>3. Ok(f, 0)
    BY <2>1, <2>2
  <2> HIDE DEF Ok
  <2> QED BY <2>1, <2>2, <2>3
<1>2. ASSUME NEW k \in 1..n, k - 1 \in G PROVE k \in G
  <2>1. PICK f \in [1..(n + 1) -> Seq(S)] : Ok(f, k - 1)
    BY <1>2
  <2> DEFINE j == n + 1 - k
             new == pre[j] \o f[next[j]]
             g == [i \in 1..(n + 1) |-> IF i = j THEN new ELSE f[i]]
  <2>2. /\ j \in 1..n /\ j \in 1..(n + 1) /\ n + 1 \in 1..(n + 1) /\ j # n + 1 /\ k \in 0..n
        /\ \A i \in 1..n : i \in 1..(n + 1) /\ (n - k < i => i = j \/ (n - (k - 1) < i /\ j < i))
    OBVIOUS
  <2> HIDE DEF j
  <2>3. \A i \in 1..n : next[i] \in 1..(n + 1) /\ (j <= i => next[i] # j)
    <3> TAKE i \in 1..n
    <3>1. next[i] \in 1..(n + 1) /\ i < next[i]
      OBVIOUS
    <3> QED BY <2>2, <3>1
  <2>4. new \in Seq(S)
    <3>1. pre[j] \in Seq(S) /\ f[next[j]] \in Seq(S)
      BY <2>2, <2>3
    <3> QED BY <3>1
  <2> HIDE DEF new
  <2>5. g \in [1..(n + 1) -> Seq(S)] /\ g[j] = new /\ \A i \in 1..(n + 1) : i # j => g[i] = f[i]
    BY <2>2, <2>4
  <2> HIDE DEF g
  <2>6. g[n + 1] = <<>>
    BY <2>1, <2>2, <2>5
  <2>7. ASSUME NEW i \in 1..n, n - k < i PROVE g[i] = pre[i] \o g[next[i]]
    <3>1. CASE i = j
      <4>1. next[j] \in 1..(n + 1) /\ next[j] # j
        BY <2>2, <2>3
      <4> QED BY <2>5, <3>1, <4>1 DEF new
    <3>2. CASE n - (k - 1) < i /\ j < i
      <4>1. i \in 1..(n + 1) /\ i # j /\ next[i] \in 1..(n + 1) /\ next[i] # j
        BY <2>2, <2>3, <3>2
      <4>2. f[i] = pre[i] \o f[next[i]]
        BY <2>1, <3>2
      <4> QED BY <2>5, <4>1, <4>2
    <3> QED BY <2>2, <2>7, <3>1, <3>2
  <2> QED BY <2>2, <2>5, <2>6, <2>7
<1> HIDE DEF G
<1>3. \A k \in 0..n : k \in G
  BY <1>1, <1>2, UpTo, Zenon
<1>4. n \in G /\ \A i \in 1..n : n - n < i
  BY <1>3
<1> QED BY <1>4 DEF G, BackRecursion

\* What is in a sequence.
LEMMA InSequence ==
  ASSUME NEW s, NEW x
  PROVE  x \in ToSet(s) <=> \E i \in DOMAIN s : s[i] = x
BY DEF ToSet

\* The elements of a concatenation are those of its parts.
LEMMA InConcatenation ==
  ASSUME NEW S, NEW a \in Seq(S), NEW b \in Seq(S), NEW x
  PROVE  x \in ToSet(a \o b) <=> x \in ToSet(a) \/ x \in ToSet(b)
<1> DEFINE w == a \o b
<1>1. \A i \in DOMAIN w : (i \in DOMAIN a /\ w[i] = a[i])
                         \/ (i - Len(a) \in DOMAIN b /\ w[i] = b[i - Len(a)])
  OBVIOUS
<1>2. \A i \in DOMAIN a : i \in DOMAIN w /\ w[i] = a[i]
  OBVIOUS
<1>3. \A i \in DOMAIN b : i + Len(a) \in DOMAIN w /\ w[i + Len(a)] = b[i]
  OBVIOUS
<1> HIDE DEF w
<1>4. x \in ToSet(w) <=> x \in ToSet(a) \/ x \in ToSet(b)
  BY <1>1, <1>2, <1>3, InSequence
<1> QED BY <1>4 DEF w

\* FlattenSeq is the last of the prefixes it is built from.
LEMMA FlattenPrefixes ==
  ASSUME NEW S, NEW ss \in Seq(Seq(S))
  PROVE  \E f \in [0..Len(ss) -> Seq(S)] :
           /\ f[0] = <<>>
           /\ \A i \in 1..Len(ss) : f[i] = f[i - 1] \o ss[i]
           /\ FlattenSeq(ss) = f[Len(ss)]
<1> DEFINE n == Len(ss)
           step == [q \in (1..n) \X Seq(S) |-> q[2] \o ss[q[1]]]
<1>1. n \in Nat /\ \A i \in 1..n : ss[i] \in Seq(S)
  OBVIOUS
<1> HIDE DEF n
<1>2. \A q \in (1..n) \X Seq(S) : q[2] \o ss[q[1]] \in Seq(S)
  BY <1>1
<1>3. step \in [(1..n) \X Seq(S) -> Seq(S)] /\ <<>> \in Seq(S)
  BY <1>2
<1>4. \A i \in 1..n, x \in Seq(S) : step[<<i, x>>] = x \o ss[i]
  OBVIOUS
<1> HIDE DEF step
<1>5. PICK f : Recursion(f, Seq(S), n, <<>>, step)
  BY <1>1, <1>3, BoundedRecursion
<1>6. \A i \in 1..n : f[i - 1] \in Seq(S) /\ f[i] = f[i - 1] \o ss[i]
  <2>1. \A i \in 1..n : i - 1 \in 0..n
    BY <1>1
  <2>2. \A i \in 1..n : f[i - 1] \in Seq(S)
    BY <1>5, <2>1 DEF Recursion
  <2> QED BY <1>4, <1>5, <2>2 DEF Recursion
<1>7. FlattenSeq(ss) = f[n]
  <2>1. CASE n = 0
    BY <1>5, <2>1 DEF FlattenSeq, n, Recursion
  <2>2. CASE n # 0
    <3> DEFINE Body(g) == [i \in 1..n |-> IF i = 1 THEN ss[i] ELSE g[i - 1] \o ss[i]]
               k == CHOOSE g : g = Body(g)
               h == [i \in 1..n |-> f[i]]
    <3>1. FlattenSeq(ss) = k[n]
      BY <2>2 DEF FlattenSeq, n
    <3>2. f[1] = ss[1]
      <4>1. 1 \in 1..n /\ 1 - 1 = 0
        BY <1>1, <2>2
      <4>2. f[1] = f[0] \o ss[1]
        BY <1>6, <4>1
      <4> QED BY <1>1, <1>5, <4>1, <4>2 DEF Recursion
    <3>3. \A i \in 1..n : i # 1 => i - 1 \in 1..n
      BY <1>1
    <3>4. h = Body(h)
      BY <1>6, <3>2, <3>3
    <3> HIDE DEF h
    <3>5. k = Body(k)
      BY <3>4
    <3> HIDE DEF k
    <3>6. \A i \in 1..n : k[i] = IF i = 1 THEN ss[i] ELSE k[i - 1] \o ss[i]
      BY <3>5
    <3> DEFINE G == {i \in 0..n : i = 0 \/ k[i] = f[i]}
    <3>7. 0 \in G
      BY <1>1
    <3>8. \A i \in 1..n : i - 1 \in G => i \in G
      <4> SUFFICES ASSUME NEW i \in 1..n, i - 1 \in G PROVE i \in G
        OBVIOUS
      <4>1. i \in 0..n /\ (i = 1 \/ i - 1 # 0)
        BY <1>1
      <4>2. k[i] = f[i]
        BY <1>6, <3>2, <3>6, <4>1
      <4> QED BY <4>1, <4>2
    <3> HIDE DEF G
    <3>9. n \in G
      <4>1. \A i \in 0..n : i \in G
        BY <1>1, <3>7, <3>8, UpTo, Zenon
      <4> QED BY <1>1, <4>1
    <3> QED BY <2>2, <3>1, <3>9 DEF G
  <2> QED BY <2>1, <2>2
<1> QED BY <1>5, <1>6, <1>7 DEF n, Recursion

\* A flattened sequence has the elements of its parts.
LEMMA FlattenElements ==
  ASSUME NEW S, NEW ss \in Seq(Seq(S))
  PROVE  /\ FlattenSeq(ss) \in Seq(S)
         /\ \A x : x \in ToSet(FlattenSeq(ss)) <=> \E i \in 1..Len(ss) : x \in ToSet(ss[i])
<1> DEFINE n == Len(ss)
<1>1. PICK f \in [0..n -> Seq(S)] :
           /\ f[0] = <<>>
           /\ \A i \in 1..n : f[i] = f[i - 1] \o ss[i]
           /\ FlattenSeq(ss) = f[n]
  BY FlattenPrefixes
<1>2. n \in Nat /\ \A i \in 1..n : ss[i] \in Seq(S)
  OBVIOUS
<1> HIDE DEF n
<1>3. \A i \in 1..n : i - 1 \in 0..n
  BY <1>2
<1> DEFINE G == {k \in 0..n : \A x : x \in ToSet(f[k]) <=> \E i \in 1..k : x \in ToSet(ss[i])}
<1>4. 0 \in G
  <2>1. 0 \in 0..n /\ ToSet(f[0]) = {} /\ 1..0 = {}
    BY <1>1, <1>2 DEF ToSet
  <2> QED BY <2>1
<1>5. ASSUME NEW k \in 1..n, k - 1 \in G PROVE k \in G
  <2>1. \A x : x \in ToSet(f[k]) <=> x \in ToSet(f[k - 1]) \/ x \in ToSet(ss[k])
    <3>1. f[k - 1] \in Seq(S) /\ ss[k] \in Seq(S) /\ f[k] = f[k - 1] \o ss[k]
      BY <1>1, <1>2, <1>3
    <3> QED BY <3>1, InConcatenation
  <2>2. \A i \in 1..k : i \in 1..(k - 1) \/ i = k
    BY <1>2
  <2>3. \A i \in 1..(k - 1) : i \in 1..k
    BY <1>2
  <2>4. k \in 0..n /\ k \in 1..k
    BY <1>2
  <2>5. \A x : x \in ToSet(f[k - 1]) <=> \E i \in 1..(k - 1) : x \in ToSet(ss[i])
    BY <1>5
  <2>6. \A x : x \in ToSet(f[k]) <=> \E i \in 1..k : x \in ToSet(ss[i])
    BY <2>1, <2>2, <2>3, <2>4, <2>5
  <2> QED BY <2>4, <2>6
<1> HIDE DEF G
<1>6. n \in G
  <2>1. \A i \in 0..n : i \in G
    BY <1>2, <1>4, <1>5, UpTo, Zenon
  <2> QED BY <1>2, <2>1
<1> QED BY <1>1, <1>2, <1>6 DEF G, n
=============================================================================
