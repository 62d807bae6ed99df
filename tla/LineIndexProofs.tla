-------------------------- MODULE LineIndexProofs --------------------------
(***************************************************************************)
(* Positions, percent coding and UTF-8, for every text and every sequence  *)
(* of bytes: the position of a character leads back to it, what the server *)
(* decodes is what it encoded, and the lossy reading of bytes is a text,   *)
(* the same text when they are one.                                        *)
(***************************************************************************)
EXTENDS LineIndex, SequenceInduction, SequenceTheorems

----------------------------------------------------------------------------
(* Prefix sums.                                                            *)

\* g[n] is what the first n elements of s weigh.
Counts(g, f, s) ==
  /\ g \in [0..Len(s) -> Nat] /\ g[0] = 0
  /\ \A i \in 1..Len(s) : g[i] = g[i - 1] + f[s[i]]

\* The recursion of Sum has a solution, and Sum is its last value.
LEMMA SumCounts ==
  ASSUME NEW C, NEW f \in [C -> Nat], NEW s \in Seq(C)
  PROVE  \E g : Counts(g, f, s) /\ Sum(f, s) = g[Len(s)]
<1> DEFINE n == Len(s)
           step == [q \in (1..n) \X Nat |-> q[2] + f[s[q[1]]]]
<1>1. n \in Nat /\ \A i \in 1..n : f[s[i]] \in Nat
  OBVIOUS
<1> HIDE DEF n
<1>2. step \in [(1..n) \X Nat -> Nat] /\ \A i \in 1..n, x \in Nat : step[<<i, x>>] = x + f[s[i]]
  BY <1>1
<1> HIDE DEF step
<1>3. PICK g : Recursion(g, Nat, n, 0, step)
  BY <1>1, <1>2, BoundedRecursion
<1>4. \A i \in 1..n : i - 1 \in 0..n
  BY <1>1
<1>5. g \in [0..n -> Nat] /\ g[0] = 0 /\ \A i \in 1..n : g[i] = g[i - 1] + f[s[i]]
  <2>1. g \in [0..n -> Nat] /\ g[0] = 0 /\ \A i \in 1..n : g[i] = step[<<i, g[i - 1]>>]
    BY <1>3 DEF Recursion
  <2>2. \A i \in 1..n : g[i - 1] \in Nat
    BY <1>4, <2>1
  <2> QED BY <1>2, <2>1, <2>2
<1>6. Sum(f, s) = g[n]
  <2> DEFINE Body(h) == [i \in 0..n |-> IF i = 0 THEN 0 ELSE h[i - 1] + f[s[i]]]
             k == CHOOSE h : h = Body(h)
  <2>1. Sum(f, s) = k[n]
    BY DEF Sum, n
  <2>2. \A i \in 0..n : i = 0 \/ i \in 1..n
    BY <1>1
  <2>3. g = Body(g)
    BY <1>5, <2>2
  <2>4. k = Body(k)
    BY <2>3
  <2> HIDE DEF k
  <2>5. \A i \in 0..n : k[i] = IF i = 0 THEN 0 ELSE k[i - 1] + f[s[i]]
    BY <2>4
  <2> DEFINE G == {i \in 0..n : k[i] = g[i]}
  <2>6. 0 \in G
    BY <1>1, <1>5, <2>5
  <2>7. \A i \in 1..n : i - 1 \in G => i \in G
    <3> SUFFICES ASSUME NEW i \in 1..n, k[i - 1] = g[i - 1] PROVE i \in 0..n /\ k[i] = g[i]
      OBVIOUS
    <3>1. i \in 0..n /\ i # 0
      BY <1>1
    <3> QED BY <1>5, <2>5, <3>1
  <2> HIDE DEF G
  <2>8. \A i \in 0..n : i \in G
    BY <1>1, <2>6, <2>7, UpTo, Zenon
  <2> QED BY <1>1, <2>1, <2>8 DEF G
<1> QED BY <1>5, <1>6 DEF Counts, n

\* A slice weighs the difference of the prefixes.
LEMMA SumSlice ==
  ASSUME NEW C, NEW f \in [C -> Nat], NEW s \in Seq(C), NEW g, Counts(g, f, s),
         NEW a \in 0..Len(s), NEW b \in a..Len(s)
  PROVE  Sum(f, SubSeq(s, a + 1, b)) = g[b] - g[a]
<1> DEFINE w == SubSeq(s, a + 1, b)
           m == b - a
<1>1. Len(s) \in Nat /\ a \in Nat /\ b \in Nat /\ m \in Nat /\ a + m = b
  OBVIOUS
<1>2. w \in Seq(C) /\ Len(w) = m /\ \A i \in 1..m : w[i] = s[a + i]
  <2>1. a + 1 \in 1..(Len(s) + 1) /\ b \in a..Len(s) /\ \A i \in (a + 1)..b : i \in 1..Len(s)
    BY <1>1
  <2>2. w \in Seq(C)
    BY <2>1, SubSeqProperties
  <2>3. Len(w) = m
    BY <1>1
  <2>4. \A i \in 1..m : w[i] = s[a + i]
    BY <1>1
  <2> QED BY <2>2, <2>3, <2>4
<1> HIDE DEF w
<1>3. PICK h : Counts(h, f, w) /\ Sum(f, w) = h[Len(w)]
  BY <1>2, SumCounts
<1>4. h \in [0..m -> Nat] /\ h[0] = 0 /\ \A i \in 1..m : h[i] = h[i - 1] + f[w[i]]
  BY <1>2, <1>3 DEF Counts
<1>5. g \in [0..Len(s) -> Nat] /\ \A i \in 1..Len(s) : g[i] = g[i - 1] + f[s[i]]
  BY DEF Counts
<1> HIDE DEF m
<1> DEFINE G == {i \in 0..m : h[i] = g[a + i] - g[a]}
<1>6. 0 \in G
  <2>1. a + 0 = a /\ 0 \in 0..m
    BY <1>1
  <2>2. g[a] \in Nat
    BY <1>5
  <2> QED BY <1>4, <2>1, <2>2
<1>7. \A i \in 1..m : i - 1 \in G => i \in G
  <2> SUFFICES ASSUME NEW i \in 1..m, h[i - 1] = g[a + (i - 1)] - g[a] PROVE i \in 0..m /\ h[i] = g[a + i] - g[a]
    OBVIOUS
  <2>1. i \in 0..m /\ i - 1 \in 0..m /\ a + i \in 1..Len(s) /\ (a + i) - 1 \in 0..Len(s) /\ a + (i - 1) = (a + i) - 1
    BY <1>1
  <2>2. h[i] = h[i - 1] + f[s[a + i]] /\ g[a + i] = g[(a + i) - 1] + f[s[a + i]]
    BY <1>2, <1>4, <1>5, <2>1
  <2>3. g[a] \in Nat /\ g[(a + i) - 1] \in Nat /\ f[s[a + i]] \in Nat
    <3>1. g[a] \in Nat
      BY <1>5
    <3>2. g[(a + i) - 1] \in Nat
      BY <1>5, <2>1
    <3>3. f[s[a + i]] \in Nat
      BY <2>1
    <3> QED BY <3>1, <3>2, <3>3
  <2> QED BY <2>1, <2>2, <2>3
<1> HIDE DEF G
<1>8. \A i \in 0..m : i \in G
  BY <1>1, <1>6, <1>7, UpTo, Zenon
<1>9. h[m] = g[b] - g[a]
  <2>1. m \in 0..m
    BY <1>1
  <2>2. h[m] = g[a + m] - g[a]
    BY <1>8, <2>1 DEF G
  <2> QED BY <1>1, <2>2
<1> QED BY <1>2, <1>3, <1>9 DEF w

\* Where every element weighs something, a longer prefix weighs more.
LEMMA CountsGrow ==
  ASSUME NEW C, NEW f \in [C -> Nat \ {0}], NEW s \in Seq(C), NEW g, Counts(g, f, s)
  PROVE  \A i \in 0..Len(s) : \A j \in 0..Len(s) : j < i => g[j] < g[i]
<1> DEFINE n == Len(s)
           G == {i \in 0..n : \A j \in 0..n : j < i => g[j] < g[i]}
<1>1. n \in Nat /\ \A i \in 1..n : f[s[i]] \in Nat \ {0}
  OBVIOUS
<1>2. g \in [0..n -> Nat] /\ \A i \in 1..n : g[i] = g[i - 1] + f[s[i]]
  BY DEF Counts
<1> HIDE DEF n
<1>3. 0 \in G
  BY <1>1
<1>4. \A i \in 1..n : i - 1 \in G => i \in G
  <2> SUFFICES ASSUME NEW i \in 1..n, i - 1 \in G, NEW j \in 0..n, j < i PROVE g[j] < g[i]
    BY <1>1
  <2>1. i - 1 \in 0..n /\ i \in 0..n /\ (j = i - 1 \/ j < i - 1)
    BY <1>1
  <2>5. g[i - 1] \in Nat /\ g[i] \in Nat /\ g[j] \in Nat
    BY <1>2, <2>1
  <2>2. g[i - 1] < g[i]
    <3>1. g[i] = g[i - 1] + f[s[i]]
      BY <1>2
    <3>2. f[s[i]] \in Nat \ {0}
      BY <1>1
    <3> QED BY <2>5, <3>1, <3>2
  <2>3. CASE j = i - 1
    BY <2>2, <2>3, <2>5
  <2>4. CASE j < i - 1
    <3>1. g[j] < g[i - 1]
      BY <2>1, <2>4
    <3> QED BY <2>2, <2>5, <3>1
  <2> QED BY <2>1, <2>3, <2>4
<1> HIDE DEF G
<1>5. \A i \in 0..n : i \in G
  BY <1>1, <1>3, <1>4, UpTo, Zenon
<1> QED BY <1>5 DEF G, n

----------------------------------------------------------------------------
(* Texts.                                                                  *)

\* B[n] and U[n] are the bytes and the code units of the first n characters.
Measures(text, B, U) == Counts(B, Utf8, text) /\ Counts(U, Utf16, text)

\* Every character is at least a byte and a code unit.
LEMMA Widths ==
  /\ Utf8 \in [Char -> Nat] /\ Utf16 \in [Char -> Nat]
  /\ Utf8 \in [Char -> Nat \ {0}] /\ Utf16 \in [Char -> Nat \ {0}]
<1>1. \A n \in 1..4 : n \in Nat /\ n \in Nat \ {0}
  OBVIOUS
<1>2. \A n \in 1..2 : n \in Nat /\ n \in Nat \ {0}
  OBVIOUS
<1> QED BY <1>1, <1>2, WidthAssumption, Zenon

\* Every text can be measured.
LEMMA TextsMeasure ==
  ASSUME NEW text \in Seq(Char)
  PROVE  \E B, U : Measures(text, B, U)
<1>1. PICK B : Counts(B, Utf8, text)
  BY Widths, SumCounts
<1>2. PICK U : Counts(U, Utf16, text)
  BY Widths, SumCounts
<1> QED BY <1>1, <1>2 DEF Measures

\* A later boundary is a larger offset, and as a column no smaller one.
LEMMA BoundariesGrow ==
  ASSUME NEW text \in Seq(Char), NEW B, NEW U, Measures(text, B, U)
  PROVE  /\ B \in [0..Len(text) -> Nat] /\ B[0] = 0
         /\ U \in [0..Len(text) -> Nat]
         /\ \A i, j \in 0..Len(text) : j < i => B[j] < B[i] /\ U[j] < U[i]
<1>1. Utf8 \in [Char -> Nat \ {0}] /\ Utf16 \in [Char -> Nat \ {0}]
  BY Widths
<1>2. \A i, j \in 0..Len(text) : j < i => B[j] < B[i]
  BY <1>1, CountsGrow DEF Measures
<1>3. \A i, j \in 0..Len(text) : j < i => U[j] < U[i]
  BY <1>1, CountsGrow DEF Measures
<1> QED BY <1>2, <1>3 DEF Measures, Counts

\* The boundaries of a text, and the slices between them.
LEMMA SlicesMeasure ==
  ASSUME NEW text \in Seq(Char), NEW B, NEW U, Measures(text, B, U)
  PROVE  /\ \A n \in 0..Len(text) : Bytes(SubSeq(text, 1, n)) = B[n]
         /\ Bytes(text) = B[Len(text)]
         /\ Boundaries(text) = {B[n] : n \in 0..Len(text)}
         /\ \A i, j \in 0..Len(text) : i <= j =>
              /\ Slice(text, B[i], B[j]) = SubSeq(text, i + 1, j)
              /\ Sum(Utf16, SubSeq(text, i + 1, j)) = U[j] - U[i]
              /\ Bytes(SubSeq(text, i + 1, j)) = B[j] - B[i]
<1> DEFINE N == Len(text)
<1>1. Utf8 \in [Char -> Nat] /\ Utf16 \in [Char -> Nat] /\ N \in Nat
  BY Widths
<1>2. /\ B \in [0..N -> Nat] /\ B[0] = 0
      /\ \A i, j \in 0..N : j < i => B[j] < B[i]
  BY BoundariesGrow
<1>3. \A i \in 0..N : \A j \in i..N : Bytes(SubSeq(text, i + 1, j)) = B[j] - B[i]
  <2>1. Counts(B, Utf8, text)
    BY DEF Measures
  <2> HIDE DEF N
  <2>2. \A i \in 0..N : \A j \in i..N : Sum(Utf8, SubSeq(text, i + 1, j)) = B[j] - B[i]
    BY <1>1, <2>1, SumSlice DEF N
  <2> QED BY <2>2 DEF Bytes
<1>4. \A i \in 0..N : \A j \in i..N : Sum(Utf16, SubSeq(text, i + 1, j)) = U[j] - U[i]
  BY <1>1, SumSlice DEF Measures
<1>5. \A n \in 0..N : Bytes(SubSeq(text, 1, n)) = B[n]
  <2> TAKE n \in 0..N
  <2>0. B[n] \in Nat
    BY <1>2
  <2>1. 0 \in 0..N /\ n \in 0..N /\ 0 + 1 = 1 /\ B[n] - 0 = B[n]
    BY <1>1, <2>0
  <2>2. Bytes(SubSeq(text, 0 + 1, n)) = B[n] - B[0]
    BY <1>3, <2>1
  <2> QED BY <1>2, <2>1, <2>2
<1>6. Bytes(text) = B[N]
  <2>1. SubSeq(text, 1, N) = text /\ N \in 0..N
    BY <1>1, SubSeqFull
  <2> QED BY <1>5, <2>1
<1>7. Boundaries(text) = {B[n] : n \in 0..N}
  BY <1>5 DEF Boundaries
<1>8. \A i \in 0..N : i = CHOOSE n \in 0..N : Bytes(SubSeq(text, 1, n)) = B[i]
  <2> TAKE i \in 0..N
  <2>1. \A n \in 0..N : Bytes(SubSeq(text, 1, n)) = B[i] <=> n = i
    <3> TAKE n \in 0..N
    <3>1. n < i \/ i < n \/ n = i
      BY <1>1
    <3>2. B[n] = B[i] <=> n = i
      BY <1>2, <3>1
    <3> QED BY <1>5, <3>2
  <2> QED BY <2>1
<1>9. \A i, j \in 0..N : i <= j => Slice(text, B[i], B[j]) = SubSeq(text, i + 1, j)
  BY <1>8, Zenon DEF Slice
<1>10. \A i, j \in 0..N : i <= j => j \in i..N
  BY <1>1
<1> HIDE DEF N
<1>11. \A i, j \in 0..N : i <= j =>
              /\ Slice(text, B[i], B[j]) = SubSeq(text, i + 1, j)
              /\ Sum(Utf16, SubSeq(text, i + 1, j)) = U[j] - U[i]
              /\ Bytes(SubSeq(text, i + 1, j)) = B[j] - B[i]
  BY <1>3, <1>4, <1>9, <1>10
<1> QED BY <1>5, <1>6, <1>7, <1>11 DEF N

\* The lines start at boundaries, the first at 0, each after the one before.
StartsOf(text, ss) ==
  /\ ss \in Seq(Nat) /\ Len(ss) >= 1 /\ ss[1] = 0
  /\ \A i, j \in 1..Len(ss) : i < j => ss[i] < ss[j]
  /\ \A i \in 1..Len(ss) : ss[i] \in Boundaries(text)

\* line_starts(text) is such a sequence.
LEMMA LinesStart ==
  ASSUME NEW text \in Seq(Char)
  PROVE  StartsOf(text, line_starts(text))
<1> DEFINE n == Len(text)
<1>1. PICK B, U : Measures(text, B, U)
  BY TextsMeasure
<1>2. n \in Nat /\ \A i \in 1..n : i \in 0..n /\ i - 1 \in 0..n /\ i - 1 < i /\ i # 0
  OBVIOUS
<1>3. /\ B \in [0..n -> Nat] /\ B[0] = 0 /\ \A i, j \in 0..n : j < i => B[j] < B[i]
      /\ Boundaries(text) = {B[i] : i \in 0..n}
      /\ \A i \in 0..n : Bytes(SubSeq(text, 1, i)) = B[i]
  BY <1>1, BoundariesGrow, SlicesMeasure
<1> HIDE DEF n
<1> DEFINE Add(x, i) == IF text[i] = Newline THEN Append(x, Bytes(SubSeq(text, 1, i))) ELSE x
           step == [q \in (1..n) \X Seq(Nat) |-> Add(q[2], q[1])]
           base == <<0>>
<1>4. \A i \in 1..n, x \in Seq(Nat) : Add(x, i) \in Seq(Nat)
  <2>1. \A i \in 1..n : Bytes(SubSeq(text, 1, i)) \in Nat
    BY <1>2, <1>3
  <2> QED BY <2>1
<1>5. step \in [(1..n) \X Seq(Nat) -> Seq(Nat)] /\ base \in Seq(Nat)
  BY <1>4
<1>6. \A i \in 1..n, x \in Seq(Nat) : step[<<i, x>>] = Add(x, i)
  OBVIOUS
<1>20. Len(base) = 1 /\ base[1] = 0
  OBVIOUS
<1> HIDE DEF step, base
<1>7. PICK f : Recursion(f, Seq(Nat), n, base, step)
  BY <1>2, <1>5, BoundedRecursion
<1>8. /\ f \in [0..n -> Seq(Nat)] /\ f[0] = base
      /\ \A i \in 1..n : f[i] = Add(f[i - 1], i)
  <2>1. f \in [0..n -> Seq(Nat)] /\ f[0] = base /\ \A i \in 1..n : f[i] = step[<<i, f[i - 1]>>]
    BY <1>7 DEF Recursion
  <2>2. \A i \in 1..n : f[i - 1] \in Seq(Nat)
    BY <1>2, <2>1
  <2> QED BY <1>6, <2>1, <2>2
<1>9. line_starts(text) = f[n]
  <2> DEFINE Body(h) == [i \in 0..n |-> IF i = 0 THEN <<0>>
                                        ELSE IF text[i] = Newline THEN Append(h[i - 1], Bytes(SubSeq(text, 1, i))) ELSE h[i - 1]]
             k == CHOOSE h : h = Body(h)
  <2>1. line_starts(text) = k[n]
    BY DEF line_starts, n
  <2>2. \A i \in 0..n : i = 0 \/ i \in 1..n
    BY <1>2
  <2>3. f = Body(f)
    BY <1>8, <2>2 DEF base
  <2>4. k = Body(k)
    BY <2>3
  <2> HIDE DEF k
  <2>5. \A i \in 0..n : k[i] = IF i = 0 THEN <<0>> ELSE Add(k[i - 1], i)
    BY <2>4
  <2> DEFINE G == {i \in 0..n : k[i] = f[i]}
  <2>6. 0 \in G
    <3>1. 0 \in 0..n
      BY <1>2
    <3>2. k[0] = <<0>>
      BY <2>5, <3>1
    <3> QED BY <1>8, <3>1, <3>2 DEF base
  <2>7. \A i \in 1..n : i - 1 \in G => i \in G
    <3> SUFFICES ASSUME NEW i \in 1..n, k[i - 1] = f[i - 1] PROVE i \in 0..n /\ k[i] = f[i]
      OBVIOUS
    <3>1. k[i] = Add(k[i - 1], i)
      BY <1>2, <2>5
    <3> QED BY <1>2, <1>8, <3>1
  <2> HIDE DEF G
  <2>8. \A i \in 0..n : i \in G
    BY <1>2, <2>6, <2>7, UpTo, Zenon
  <2> QED BY <1>2, <2>1, <2>8 DEF G
<1> DEFINE Starts(x, m) == /\ x \in Seq(Nat) /\ Len(x) >= 1 /\ x[1] = 0
                           /\ \A i, j \in 1..Len(x) : i < j => x[i] < x[j]
                           /\ \A i \in 1..Len(x) : x[i] \in Boundaries(text)
                           /\ \A i \in 1..Len(x) : x[i] <= B[m]
           H == {m \in 0..n : Starts(f[m], m)}
<1>10. 0 \in H
  <2>1. 0 \in 0..n /\ 0 \in Boundaries(text) /\ base \in Seq(Nat) /\ \A i \in 1..1 : i = 1
    BY <1>2, <1>3, <1>5
  <2>2. Starts(base, 0)
    BY <1>3, <1>20, <2>1
  <2> QED BY <1>8, <2>1, <2>2
<1>11. ASSUME NEW m \in 1..n, m - 1 \in H PROVE m \in H
  <2> DEFINE x == f[m - 1]
             b == B[m]
  <2>1. Starts(x, m - 1)
    BY <1>11
  <2>2. b \in Nat /\ B[m - 1] \in Nat /\ B[m - 1] < b /\ b \in Boundaries(text) /\ Bytes(SubSeq(text, 1, m)) = b
    BY <1>2, <1>3
  <2>3. f[m] = IF text[m] = Newline THEN Append(x, b) ELSE x
    BY <1>8, <2>2
  <2> HIDE DEF x, b
  <2>4. \A i \in 1..Len(x) : x[i] \in Nat /\ x[i] < b
    <3> TAKE i \in 1..Len(x)
    <3>1. x[i] \in Nat /\ x[i] <= B[m - 1]
      BY <2>1
    <3> QED BY <2>2, <3>1
  <2>5. CASE text[m] # Newline
    <3>1. Starts(x, m)
      BY <2>1, <2>2, <2>4 DEF b
    <3> QED BY <1>2, <2>3, <2>5, <3>1
  <2>6. CASE text[m] = Newline
    <3> DEFINE w == Append(x, b)
    <3>1. Len(x) \in Nat /\ Len(x) >= 1
      BY <2>1
    <3>2. /\ w \in Seq(Nat) /\ Len(w) = Len(x) + 1 /\ w[Len(x) + 1] = b
          /\ \A i \in 1..Len(x) : w[i] = x[i]
      BY <2>1, <2>2
    <3> HIDE DEF w
    <3>3. \A i \in 1..Len(w) : i \in 1..Len(x) \/ i = Len(x) + 1
      BY <3>1, <3>2
    <3>4. w[1] = 0 /\ Len(w) >= 1
      BY <2>1, <3>1, <3>2
    <3>5. \A i, j \in 1..Len(w) : i < j => w[i] < w[j]
      <4> SUFFICES ASSUME NEW i \in 1..Len(w), NEW j \in 1..Len(w), i < j PROVE w[i] < w[j]
        OBVIOUS
      <4>1. i \in 1..Len(x)
        BY <3>1, <3>2
      <4>2. CASE j \in 1..Len(x)
        BY <2>1, <3>2, <4>1, <4>2
      <4>3. CASE j = Len(x) + 1
        BY <2>4, <3>2, <4>1, <4>3
      <4> QED BY <3>3, <4>2, <4>3
    <3>6. \A i \in 1..Len(w) : w[i] \in Boundaries(text)
      BY <2>1, <2>2, <3>2, <3>3
    <3>7. \A i \in 1..Len(w) : w[i] <= B[m]
      <4> TAKE i \in 1..Len(w)
      <4>1. CASE i \in 1..Len(x)
        BY <2>2, <2>4, <3>2, <4>1 DEF b
      <4>2. CASE i = Len(x) + 1
        BY <2>2, <3>2, <4>2 DEF b
      <4> QED BY <3>3, <4>1, <4>2
    <3>8. Starts(w, m)
      BY <3>2, <3>4, <3>5, <3>6, <3>7
    <3> QED BY <1>2, <2>3, <2>6, <3>8 DEF w
  <2> QED BY <2>5, <2>6
<1> HIDE DEF H
<1>12. \A i \in 0..n : i \in H
  BY <1>2, <1>10, <1>11, UpTo, Zenon
<1>13. Starts(f[n], n)
  BY <1>2, <1>12 DEF H
<1> QED BY <1>9, <1>13 DEF StartsOf

\* Boundary i is o: it lies on line l, which starts at boundary a.
OnLine(text, B, U, i, l, a) ==
  LET ss == line_starts(text)
  IN  /\ l \in 1..Len(ss) /\ a \in 0..i /\ ss[l] = B[a]
      /\ l = Len(ss) \/ ss[l + 1] > B[i]
      /\ line_col(text, B[i]).line = l - 1 /\ line_col(text, B[i]).col = U[i] - U[a]

\* line_col gives a boundary the line it lies on, and its distance in code
\* units from the start of that line.
LEMMA BoundaryIsOnLine ==
  ASSUME NEW text \in Seq(Char), NEW B, NEW U, Measures(text, B, U), NEW i \in 0..Len(text)
  PROVE  \E l, a : OnLine(text, B, U, i, l, a)
<1> DEFINE N == Len(text)
           ss == line_starts(text)
           o == B[i]
           Holds(l) == ss[l] <= o /\ (l = Len(ss) \/ ss[l + 1] > o)
           line == CHOOSE l \in DOMAIN ss : Holds(l)
<1>1. N \in Nat /\ i \in 0..N /\ N \in 0..N
  OBVIOUS
<1>2. /\ B \in [0..N -> Nat] /\ B[0] = 0
      /\ \A x, y \in 0..N : y < x => B[y] < B[x]
  BY BoundariesGrow
<1>3. /\ Bytes(text) = B[N] /\ Boundaries(text) = {B[n] : n \in 0..N}
      /\ \A x, y \in 0..N : x <= y => Slice(text, B[x], B[y]) = SubSeq(text, x + 1, y)
      /\ \A x, y \in 0..N : x <= y => Sum(Utf16, SubSeq(text, x + 1, y)) = U[y] - U[x]
  BY SlicesMeasure
<1>4. StartsOf(text, ss)
  BY LinesStart
<1>5. o \in Nat /\ ~(o > Bytes(text))
  <2>1. B[i] \in Nat /\ B[N] \in Nat
    BY <1>1, <1>2
  <2>2. i < N \/ i = N
    BY <1>1
  <2>3. B[i] < B[N] \/ B[i] = B[N]
    BY <1>1, <1>2, <2>2
  <2> QED BY <1>3, <2>1, <2>3
<1>6. line_col(text, o) = [line |-> line - 1, col |-> Sum(Utf16, Slice(text, ss[line], o))]
  BY <1>5 DEF line_col
<1> HIDE DEF N, o, ss
<1>7. Len(ss) \in Nat /\ DOMAIN ss = 1..Len(ss) /\ \A l \in 1..Len(ss) : ss[l] \in Nat
  BY <1>4 DEF StartsOf
<1>8. \E l \in DOMAIN ss : Holds(l)
  <2> DEFINE T == {d \in 0..Len(ss) : Len(ss) - d \in 1..Len(ss) /\ ss[Len(ss) - d] <= o}
  <2>1. Len(ss) - 1 \in T
    <3>1. Len(ss) >= 1 /\ ss[1] = 0
      BY <1>4 DEF StartsOf
    <3>2. Len(ss) - 1 \in 0..Len(ss) /\ Len(ss) - (Len(ss) - 1) = 1 /\ 1 \in 1..Len(ss) /\ 0 <= o
      BY <1>5, <1>7, <3>1
    <3> QED BY <3>1, <3>2
  <2>2. T \subseteq Nat /\ T # {}
    <3>1. 0..Len(ss) \subseteq Nat
      BY <1>7
    <3>2. T \subseteq 0..Len(ss)
      OBVIOUS
    <3> HIDE DEF T
    <3> QED BY <2>1, <3>1, <3>2
  <2> HIDE DEF T
  <2>3. PICK d \in T : \A y \in T : d <= y
    BY <2>2, LeastNatural
  <2> DEFINE l == Len(ss) - d
  <2>4. d \in 0..Len(ss) /\ l \in 1..Len(ss) /\ ss[l] <= o
    BY <2>3 DEF T
  <2>5. ASSUME l # Len(ss) PROVE ss[l + 1] > o
    <3>1. d - 1 \in 0..Len(ss) /\ Len(ss) - (d - 1) = l + 1 /\ l + 1 \in 1..Len(ss) /\ ~(d <= d - 1)
      <4> DEFINE z == Len(ss)
      <4>1. z \in Nat /\ d \in 0..z /\ z - d \in 1..z /\ z - d # z
        BY <1>7, <2>4, <2>5
      <4> HIDE DEF z
      <4>2. d - 1 \in 0..z /\ z - (d - 1) = (z - d) + 1 /\ (z - d) + 1 \in 1..z /\ ~(d <= d - 1)
        BY <4>1
      <4> QED BY <4>2 DEF z
    <3>2. d - 1 \notin T
      BY <2>3, <3>1
    <3>3. ~(ss[l + 1] <= o)
      BY <3>1, <3>2 DEF T
    <3>4. ss[l + 1] \in Nat
      BY <1>7, <3>1
    <3> QED BY <1>5, <3>3, <3>4
  <2> QED BY <1>7, <2>4, <2>5
<1>9. line \in 1..Len(ss) /\ Holds(line)
  BY <1>7, <1>8
<1> HIDE DEF line
<1>10. PICK a \in 0..N : ss[line] = B[a]
  BY <1>3, <1>4, <1>9 DEF StartsOf
<1>11. a <= i
  <2>1. ~(i < a)
    <3> SUFFICES ASSUME i < a PROVE FALSE
      OBVIOUS
    <3>1. B[i] < B[a] /\ B[a] <= B[i]
      BY <1>1, <1>2, <1>9, <1>10 DEF o
    <3>2. B[i] \in Nat /\ B[a] \in Nat
      BY <1>1, <1>2
    <3> QED BY <3>1, <3>2
  <2> QED BY <1>1, <2>1
<1>12. a \in 0..i
  BY <1>1, <1>11
<1>13. Sum(Utf16, Slice(text, ss[line], o)) = U[i] - U[a]
  BY <1>1, <1>3, <1>10, <1>11 DEF o
<1>14. line_col(text, o).line = line - 1 /\ line_col(text, o).col = U[i] - U[a]
  BY <1>6, <1>13
<1>15. OnLine(text, B, U, i, line, a)
  BY <1>9, <1>10, <1>12, <1>14 DEF OnLine, o, ss
<1> QED BY <1>15

\* The characters of a line are those from boundary a to boundary e; offset
\* gives the first boundary m there that is at or past the column, or e.
Names(text, B, U, line, col, a, e, m) ==
  LET ss == line_starts(text)
  IN  /\ a \in 0..Len(text) /\ e \in 0..Len(text) /\ m \in 0..Len(text) /\ a <= m /\ m <= e
      /\ B[a] = line_start(text, line)
      /\ B[e] = IF line + 1 < Len(ss) THEN ss[line + 2] ELSE Bytes(text)
      /\ offset(text, line, col) = B[m]
      /\ \A x \in 0..Len(text) : a <= x /\ x < m => U[x] - U[a] < col
      /\ m = e \/ U[m] - U[a] >= col

\* The start of a line is the start of one of the lines there are.
LEMMA LineStartIs ==
  ASSUME NEW text \in Seq(Char), NEW line \in Nat
  PROVE  \E l \in 1..Len(line_starts(text)) :
           /\ line_start(text, line) = line_starts(text)[l]
           /\ l = IF line >= Len(line_starts(text)) THEN Len(line_starts(text)) ELSE line + 1
<1> DEFINE ss == line_starts(text)
<1>1. ss \in Seq(Nat) /\ Len(ss) >= 1 /\ Len(ss) \in Nat
  BY LinesStart DEF StartsOf
<1>2. line_start(text, line) = IF line >= Len(ss) THEN Last(ss) ELSE ss[line + 1]
  BY DEF line_start
<1> HIDE DEF ss
<1>3. Last(ss) = ss[Len(ss)]
  BY DEF Last
<1> DEFINE l == IF line >= Len(ss) THEN Len(ss) ELSE line + 1
<1>4. l \in 1..Len(ss)
  BY <1>1
<1>5. line_start(text, line) = ss[l]
  BY <1>2, <1>3
<1> QED BY <1>4, <1>5 DEF ss

\* offset finds such a boundary on every line and for every column.
LEMMA OffsetNames ==
  ASSUME NEW text \in Seq(Char), NEW B, NEW U, Measures(text, B, U), NEW line \in Nat, NEW col \in Nat
  PROVE  \E a, e, m : Names(text, B, U, line, col, a, e, m)
<1> DEFINE N == Len(text)
           ss == line_starts(text)
           from == line_start(text, line)
           end == IF line + 1 < Len(ss) THEN ss[line + 2] ELSE Bytes(text)
<1>1. N \in Nat /\ N \in 0..N
  OBVIOUS
<1>2. /\ B \in [0..N -> Nat] /\ U \in [0..N -> Nat]
      /\ \A x, y \in 0..N : y < x => B[y] < B[x]
  BY BoundariesGrow
<1>3. /\ Bytes(text) = B[N] /\ Boundaries(text) = {B[n] : n \in 0..N}
      /\ \A x, y \in 0..N : x <= y => Slice(text, B[x], B[y]) = SubSeq(text, x + 1, y)
      /\ \A x, y \in 0..N : x <= y => Sum(Utf16, SubSeq(text, x + 1, y)) = U[y] - U[x]
      /\ \A x, y \in 0..N : x <= y => Bytes(SubSeq(text, x + 1, y)) = B[y] - B[x]
  BY SlicesMeasure
<1>4. StartsOf(text, ss)
  BY LinesStart
<1>5. PICK l \in 1..Len(ss) : from = ss[l] /\ l = IF line >= Len(ss) THEN Len(ss) ELSE line + 1
  BY LineStartIs
<1>6. offset(text, line, col) =
        LET chars == Slice(text, from, end)
            hits == {n \in 1..Len(chars) : Sum(Utf16, SubSeq(chars, 1, n - 1)) >= col}
        IN  from + Bytes(IF hits = {} THEN chars ELSE SubSeq(chars, 1, (CHOOSE n \in hits : \A k \in hits : n <= k) - 1))
  BY DEF offset
<1> HIDE DEF N, ss, from, end
<1>7. Len(ss) \in Nat /\ \A k \in 1..Len(ss) : ss[k] \in Boundaries(text)
  BY <1>4 DEF StartsOf
<1>8. PICK a \in 0..N : from = B[a]
  BY <1>3, <1>5, <1>7
<1>9. PICK e \in 0..N : end = B[e] /\ a <= e
  <2>1. CASE line + 1 < Len(ss)
    <3>1. l = line + 1 /\ line + 2 \in 1..Len(ss) /\ l < line + 2
      BY <1>5, <1>7, <2>1
    <3>2. PICK e \in 0..N : ss[line + 2] = B[e]
      BY <1>3, <1>7, <3>1
    <3>3. B[a] < B[e]
      BY <1>4, <1>5, <1>8, <3>1, <3>2 DEF StartsOf
    <3>4. ~(e < a)
      <4>1. B[a] \in Nat /\ B[e] \in Nat
        BY <1>2
      <4> QED BY <1>2, <3>3, <4>1
    <3>5. a <= e
      BY <1>1, <3>4
    <3> QED BY <2>1, <3>2, <3>5 DEF end
  <2>2. CASE ~(line + 1 < Len(ss))
    <3>1. end = B[N] /\ a <= N
      BY <1>1, <1>3, <2>2 DEF end
    <3> QED BY <1>1, <3>1
  <2> QED BY <2>1, <2>2
<1> DEFINE chars == SubSeq(text, a + 1, e)
           w == e - a
<1>10. Slice(text, from, end) = chars
  BY <1>3, <1>8, <1>9
<1>11. w \in Nat /\ a \in Nat /\ e \in Nat /\ a + w = e
  BY <1>1, <1>9
<1>12. Len(chars) = w
  BY <1>1, <1>9 DEF N
<1>13. ASSUME NEW n \in 0..w
       PROVE  /\ a + n \in 0..N /\ a <= a + n
              /\ SubSeq(chars, 1, n) = SubSeq(text, a + 1, a + n)
  <2>1. a + n \in 0..N /\ a <= a + n
    BY <1>1, <1>11
  <2>2. SubSeq(chars, 1, n) = SubSeq(text, a + 1, a + n)
    <3> DEFINE lhs == SubSeq(chars, 1, n)
               rhs == SubSeq(text, a + 1, a + n)
    <3>1. chars \in Seq(Char) /\ rhs \in Seq(Char) /\ Len(rhs) = n /\ \A k \in 1..n : rhs[k] = text[a + k]
      <4>1. \A k \in (a + 1)..e : k \in 1..Len(text)
        BY <1>1, <1>11 DEF N
      <4>2. \A k \in (a + 1)..(a + n) : k \in 1..Len(text)
        BY <1>11, <4>1
      <4>3. chars \in Seq(Char) /\ rhs \in Seq(Char)
        BY <1>11, <4>1, <4>2, SubSeqProperties
      <4>4. Len(rhs) = n /\ \A k \in 1..n : rhs[k] = text[a + k]
        BY <1>11
      <4> QED BY <4>3, <4>4
    <3>2. \A k \in 1..w : chars[k] = text[a + k]
      BY <1>11
    <3> HIDE DEF chars, rhs
    <3>3. lhs \in Seq(Char) /\ Len(lhs) = n /\ \A k \in 1..n : lhs[k] = chars[k]
      BY <1>11, <1>12, <3>1
    <3> HIDE DEF lhs
    <3>4. \A k \in 1..n : lhs[k] = rhs[k]
      <4> TAKE k \in 1..n
      <4>1. k \in 1..w
        BY <1>11
      <4> QED BY <3>1, <3>2, <3>3, <4>1
    <3>5. lhs = rhs
      BY <3>1, <3>3, <3>4, SeqEqual
    <3> QED BY <3>5 DEF lhs, rhs
  <2> QED BY <2>1, <2>2
<1> DEFINE hits == {n \in 1..w : Sum(Utf16, SubSeq(chars, 1, n - 1)) >= col}
           first == CHOOSE n \in hits : \A k \in hits : n <= k
<1>14. offset(text, line, col) = from + Bytes(IF hits = {} THEN chars ELSE SubSeq(chars, 1, first - 1))
  BY <1>6, <1>10, <1>12
<1>15. Bytes(chars) = B[e] - B[a] /\ \A n \in 0..w : Bytes(SubSeq(chars, 1, n)) = B[a + n] - B[a]
  BY <1>3, <1>9, <1>13
<1>16. \A n \in 0..w : Sum(Utf16, SubSeq(chars, 1, n)) = U[a + n] - U[a]
  BY <1>3, <1>13
<1> HIDE DEF chars, w
<1>17. \A n \in 1..w : n - 1 \in 0..w
  BY <1>11
<1>18. \A n \in 1..w : n \in hits <=> U[a + (n - 1)] - U[a] >= col
  BY <1>16, <1>17
<1>19. \A x \in 0..N : a <= x /\ x < e => (x - a) + 1 \in 1..w /\ a + (((x - a) + 1) - 1) = x
  BY <1>1, <1>11
<1>20. hits \subseteq Nat /\ \A n \in hits : n \in 1..w
  OBVIOUS
<1> HIDE DEF hits
<1>21. CASE hits = {}
  <2>1. \A x \in 0..N : a <= x /\ x < e => U[x] - U[a] < col
    <3> SUFFICES ASSUME NEW x \in 0..N, a <= x, x < e PROVE U[x] - U[a] < col
      OBVIOUS
    <3>1. ~(U[x] - U[a] >= col)
      BY <1>18, <1>19, <1>21
    <3>2. U[x] \in Nat /\ U[a] \in Nat
      BY <1>2
    <3> QED BY <3>1, <3>2
  <2>2. offset(text, line, col) = B[e]
    <3>1. offset(text, line, col) = B[a] + (B[e] - B[a])
      BY <1>8, <1>14, <1>15, <1>21
    <3>2. B[a] \in Nat /\ B[e] \in Nat
      BY <1>2
    <3> QED BY <3>1, <3>2
  <2>3. e <= e
    BY <1>11
  <2>4. Names(text, B, U, line, col, a, e, e)
    BY <1>8, <1>9, <2>1, <2>2, <2>3 DEF Names, N, ss, from, end
  <2> QED BY <2>4
<1>22. CASE hits # {}
  <2>1. first \in hits /\ \A k \in hits : first <= k
    BY <1>20, <1>22, LeastNatural
  <2> HIDE DEF first
  <2> DEFINE m == a + (first - 1)
  <2>2. first \in 1..w /\ first - 1 \in 0..w /\ m \in 0..N /\ a <= m /\ m < e
    BY <1>1, <1>11, <1>20, <2>1
  <2>3. U[m] - U[a] >= col
    BY <1>18, <2>1, <2>2
  <2>4. \A x \in 0..N : a <= x /\ x < m => U[x] - U[a] < col
    <3> SUFFICES ASSUME NEW x \in 0..N, a <= x, x < m PROVE U[x] - U[a] < col
      OBVIOUS
    <3> DEFINE n == (x - a) + 1
    <3>1. x < e /\ n \in Nat /\ ~(first <= n)
      BY <1>11, <2>2
    <3>2. n \in 1..w /\ a + (n - 1) = x
      BY <1>19, <3>1
    <3> HIDE DEF n
    <3>3. n \notin hits
      BY <2>1, <3>1
    <3>4. ~(U[x] - U[a] >= col)
      BY <1>18, <3>2, <3>3
    <3>5. U[x] \in Nat /\ U[a] \in Nat
      BY <1>2
    <3> QED BY <3>4, <3>5
  <2>5. offset(text, line, col) = B[m]
    <3>1. offset(text, line, col) = B[a] + (B[m] - B[a])
      BY <1>8, <1>14, <1>15, <1>22, <2>2
    <3>2. B[a] \in Nat /\ B[m] \in Nat
      BY <1>2, <2>2
    <3> QED BY <3>1, <3>2
  <2> HIDE DEF m
  <2>6. m <= e
    BY <1>1, <2>2
  <2>7. Names(text, B, U, line, col, a, e, m)
    BY <1>8, <1>9, <2>2, <2>3, <2>4, <2>5, <2>6 DEF Names, N, ss, from, end
  <2> QED BY <2>7
<1> QED BY <1>21, <1>22

\* The position of a boundary leads back to it.
LEMMA PositionComesBack ==
  ASSUME NEW text \in Seq(Char), NEW o \in Boundaries(text)
  PROVE  /\ line_col(text, o).line \in Nat /\ line_col(text, o).col \in Nat
         /\ offset(text, line_col(text, o).line, line_col(text, o).col) = o
<1> DEFINE N == Len(text)
           ss == line_starts(text)
<1>1. PICK B, U : Measures(text, B, U)
  BY TextsMeasure
<1>2. /\ B \in [0..N -> Nat] /\ U \in [0..N -> Nat]
      /\ \A x, y \in 0..N : y < x => B[y] < B[x]
      /\ \A x, y \in 0..N : y < x => U[y] < U[x]
  BY <1>1, BoundariesGrow
<1>3. Bytes(text) = B[N] /\ Boundaries(text) = {B[n] : n \in 0..N}
  BY <1>1, SlicesMeasure
<1>4. PICK i \in 0..N : o = B[i]
  BY <1>3
<1>5. PICK l, a : OnLine(text, B, U, i, l, a)
  BY <1>1, BoundaryIsOnLine
<1>6. ss \in Seq(Nat) /\ Len(ss) \in Nat /\ N \in Nat
  BY LinesStart DEF StartsOf
<1> DEFINE line == line_col(text, o).line
           col == line_col(text, o).col
<1>7. /\ l \in 1..Len(ss) /\ a \in 0..i /\ ss[l] = B[a] /\ (l = Len(ss) \/ ss[l + 1] > B[i])
      /\ line = l - 1 /\ col = U[i] - U[a]
  BY <1>4, <1>5 DEF OnLine
<1> HIDE DEF N, ss, line, col
<1>8. a \in 0..N /\ U[a] \in Nat /\ U[i] \in Nat /\ (a < i \/ a = i)
  <2>1. a \in 0..N /\ (a < i \/ a = i)
    BY <1>6, <1>7
  <2> QED BY <1>2, <2>1
<1>9. line \in Nat /\ col \in Nat
  <2>1. U[a] <= U[i]
    BY <1>2, <1>8
  <2> QED BY <1>6, <1>7, <1>8, <2>1
<1>10. PICK b, e, m : Names(text, B, U, line, col, b, e, m)
  BY <1>1, <1>9, OffsetNames
<1>11. /\ b \in 0..N /\ e \in 0..N /\ m \in 0..N /\ b <= m /\ m <= e
       /\ B[b] = line_start(text, line)
       /\ B[e] = IF line + 1 < Len(ss) THEN ss[line + 2] ELSE Bytes(text)
       /\ offset(text, line, col) = B[m]
       /\ \A x \in 0..N : b <= x /\ x < m => U[x] - U[b] < col
       /\ m = e \/ U[m] - U[b] >= col
  BY <1>10 DEF Names, N, ss
<1>12. b = a
  <2>1. line_start(text, line) = ss[l]
    <3>1. ~(line >= Len(ss)) /\ line + 1 = l
      BY <1>6, <1>7
    <3> QED BY <1>9, <3>1, LineStartIs DEF ss
  <2>2. B[b] = B[a] /\ B[a] \in Nat /\ B[b] \in Nat
    BY <1>2, <1>7, <1>8, <1>11, <2>1
  <2>3. b < a \/ a < b \/ b = a
    BY <1>6, <1>8, <1>11
  <2> QED BY <1>2, <1>8, <1>11, <2>2, <2>3
<1>13. i <= e
  <2>1. ~(e < i)
    <3> SUFFICES ASSUME e < i PROVE FALSE
      OBVIOUS
    <3>1. B[e] < B[i] /\ B[e] \in Nat /\ B[i] \in Nat
      BY <1>2, <1>11
    <3>2. CASE line + 1 < Len(ss)
      <4>1. B[e] = ss[l + 1] /\ l # Len(ss)
        <5>1. line + 1 = l /\ line + 2 = l + 1 /\ l # Len(ss)
          BY <1>6, <1>7, <3>2
        <5> QED BY <1>11, <3>2, <5>1
      <4> QED BY <1>7, <3>1, <4>1
    <3>3. CASE ~(line + 1 < Len(ss))
      <4>1. B[e] = B[N] /\ N \in 0..N /\ (i = N \/ i < N)
        BY <1>3, <1>6, <1>11, <3>3
      <4>2. B[N] \in Nat
        BY <1>2, <4>1
      <4>3. i = N \/ B[i] < B[N]
        BY <1>2, <4>1
      <4> QED BY <3>1, <4>1, <4>2, <4>3
    <3> QED BY <3>2, <3>3
  <2> QED BY <1>6, <1>11, <2>1
<1>14. ~(i < m)
  <2> SUFFICES ASSUME i < m PROVE FALSE
    OBVIOUS
  <2>1. a <= i
    BY <1>6, <1>8
  <2>2. U[i] - U[a] < col
    BY <1>11, <1>12, <2>1
  <2> QED BY <1>7, <1>8, <2>2
<1>15. ~(m < i)
  <2> SUFFICES ASSUME m < i PROVE FALSE
    OBVIOUS
  <2>1. m # e
    BY <1>6, <1>11, <1>13
  <2>2. U[m] - U[a] >= U[i] - U[a]
    BY <1>7, <1>11, <1>12, <2>1
  <2>3. U[m] < U[i] /\ U[m] \in Nat
    BY <1>2, <1>11
  <2> QED BY <1>8, <2>2, <2>3
<1>16. m = i
  BY <1>6, <1>11, <1>14, <1>15
<1>17. offset(text, line, col) = o
  BY <1>4, <1>11, <1>16
<1> QED BY <1>9, <1>17 DEF line, col

\* A position names a boundary, and every boundary before it on the line or on
\* a later one is at a smaller column.
LEMMA PositionNames ==
  ASSUME NEW text \in Seq(Char), NEW line \in Nat, NEW col \in Nat
  PROVE  /\ offset(text, line, col) \in Boundaries(text)
         /\ \A b \in Boundaries(text) :
              b < offset(text, line, col) /\ line_col(text, b).line >= line => line_col(text, b).col < col
<1> DEFINE N == Len(text)
           ss == line_starts(text)
<1>1. PICK B, U : Measures(text, B, U)
  BY TextsMeasure
<1>2. /\ B \in [0..N -> Nat] /\ U \in [0..N -> Nat]
      /\ \A x, y \in 0..N : y < x => B[y] < B[x]
      /\ \A x, y \in 0..N : y < x => U[y] < U[x]
  BY <1>1, BoundariesGrow
<1>3. Boundaries(text) = {B[n] : n \in 0..N}
  BY <1>1, SlicesMeasure
<1>4. StartsOf(text, ss)
  BY LinesStart
<1>5. PICK a, e, m : Names(text, B, U, line, col, a, e, m)
  BY <1>1, OffsetNames
<1> HIDE DEF N, ss
<1>6. /\ a \in 0..N /\ m \in 0..N /\ B[a] = line_start(text, line)
      /\ offset(text, line, col) = B[m]
      /\ \A x \in 0..N : a <= x /\ x < m => U[x] - U[a] < col
  BY <1>5 DEF Names, N
<1>7. Len(ss) \in Nat /\ N \in Nat
  BY <1>4 DEF StartsOf, N
<1>8. ASSUME NEW x \in 0..N, B[x] < B[m], line_col(text, B[x]).line >= line
      PROVE  line_col(text, B[x]).col < col
  <2>1. PICK l, c : OnLine(text, B, U, x, l, c)
    BY <1>1, BoundaryIsOnLine DEF N
  <2>2. /\ l \in 1..Len(ss) /\ c \in 0..x /\ ss[l] = B[c]
        /\ line_col(text, B[x]).line = l - 1 /\ line_col(text, B[x]).col = U[x] - U[c]
    BY <2>1 DEF OnLine, ss
  <2>3. ~(line >= Len(ss)) /\ (line + 1 = l \/ line + 1 < l) /\ line + 1 \in 1..Len(ss)
    <3>1. l - 1 >= line
      BY <1>8, <2>2
    <3> QED BY <1>7, <2>2, <3>1
  <2>4. B[a] = ss[line + 1]
    BY <1>6, <2>3, LineStartIs DEF ss
  <2>5. c \in 0..N /\ c <= x
    BY <1>7, <2>2
  <2>6. B[a] \in Nat /\ B[c] \in Nat /\ U[a] \in Nat /\ U[c] \in Nat /\ U[x] \in Nat
    BY <1>2, <1>6, <2>5
  <2>7. B[a] <= B[c]
    <3>1. CASE line + 1 = l
      BY <2>2, <2>4, <2>6, <3>1
    <3>2. CASE line + 1 < l
      <4>1. ss[line + 1] < ss[l]
        BY <1>4, <2>2, <2>3, <3>2 DEF StartsOf
      <4> QED BY <2>2, <2>4, <2>6, <4>1
    <3>3. line + 1 = l \/ line + 1 < l
      BY <2>3
    <3> QED BY <3>1, <3>2, <3>3, Zenon
  <2>8. a <= c
    <3>1. ~(c < a)
      BY <1>2, <1>6, <2>5, <2>6, <2>7
    <3> QED BY <1>6, <1>7, <2>5, <3>1
  <2>9. U[a] <= U[c]
    <3>1. a = c \/ a < c
      BY <1>6, <2>5, <2>8
    <3> QED BY <1>2, <1>6, <2>5, <2>6, <3>1
  <2>10. x < m
    <3>1. B[x] \in Nat /\ B[m] \in Nat
      BY <1>2, <1>6
    <3>2. x < m \/ x = m \/ m < x
      BY <1>6, <1>7
    <3>3. ~(m < x) /\ x # m
      BY <1>2, <1>6, <1>8, <3>1
    <3> QED BY <3>2, <3>3
  <2>11. a <= x
    BY <1>6, <1>7, <2>5, <2>8
  <2>12. U[x] - U[a] < col
    BY <1>6, <2>10, <2>11
  <2> QED BY <2>2, <2>6, <2>9, <2>12
<1> QED BY <1>3, <1>6, <1>8

\* A span of the text that line_col accepts starts at a boundary.
LEMMA AcceptedIsBoundary ==
  ASSUME NEW text \in Seq(Char), NEW o \in 0..Bytes(text), ~line_col_panics(text, o)
  PROVE  o \in Boundaries(text)
<1>1. PICK B, U : Measures(text, B, U)
  BY TextsMeasure
<1>2. Len(text) \in 0..Len(text) /\ Bytes(text) = B[Len(text)] /\ Boundaries(text) = {B[n] : n \in 0..Len(text)}
  BY <1>1, SlicesMeasure
<1>3. Bytes(text) \in Boundaries(text)
  BY <1>2
<1>4. B[Len(text)] \in Nat
  BY <1>1, <1>2, BoundariesGrow
<1>5. o < Bytes(text) \/ o = Bytes(text)
  BY <1>2, <1>4
<1> QED BY <1>3, <1>5 DEF line_col_panics

----------------------------------------------------------------------------
(* Percent coding.                                                         *)

Byte == 0..255
Escape(b) == IF b \in Safe THEN <<b>> ELSE <<Percent, HexDigit(b \div 16), HexDigit(b % 16)>>

\* Two hexadecimal digits name their byte, and none of them is a plus sign.
LEMMA DigitsNameByte ==
  ASSUME NEW b \in Byte
  PROVE  /\ HexDigit(b \div 16) \in Byte /\ HexDigit(b % 16) \in Byte
         /\ Radix16(HexDigit(b \div 16), HexDigit(b % 16)) = b
<1>1. ASSUME NEW x \in 0..15 PROVE HexDigit(x) \in Byte /\ HexDigit(x) # 43 /\ HexValue(HexDigit(x)) = x
  BY DEF HexDigit, HexValue, Digits, Byte
<1>2. b \div 16 \in 0..15 /\ b % 16 \in 0..15 /\ 16 * (b \div 16) + (b % 16) = b
  BY DEF Byte
<1> QED BY <1>1, <1>2 DEF Radix16

\* An escape is three bytes.
LEMMA EscapeIsBytes ==
  ASSUME NEW b \in Byte
  PROVE  Escape(b) \in Seq(Byte)
<1>1. Percent \in Byte
  BY DEF Percent, Byte
<1> QED BY <1>1, DigitsNameByte DEF Escape

\* A byte is a number, and so is the digit it stands for.
LEMMA BytesAreNumbers ==
  ASSUME NEW b \in Byte
  PROVE  b \in Int /\ HexValue(b) \in Int
<1>1. b \in Int
  BY DEF Byte
<1>2. CASE b \in Digits \/ b \in 65..70 \/ b \in 97..102
  BY <1>1, <1>2 DEF HexValue, Digits
<1>3. CASE ~(b \in Digits \/ b \in 65..70 \/ b \in 97..102)
  BY <1>1, <1>3 DEF HexValue, Digits
<1> QED BY <1>1, <1>2, <1>3

\* What decoding makes of the bytes of s from the i-th on, given what it makes
\* of the rest.
Escaped(s, i) == s[i] = Percent /\ i + 2 <= Len(s) /\ Radix16(s[i + 1], s[i + 2]) # -1
Decodes(s, f) ==
  \A i \in 1..(Len(s) + 1) :
    f[i] = IF i > Len(s) THEN <<>>
           ELSE IF Escaped(s, i) THEN <<Radix16(s[i + 1], s[i + 2])>> \o f[i + 3]
           ELSE <<s[i]>> \o f[i + 1]

\* Reading a position of a byte string gives a number.
LEMMA EscapedByte ==
  ASSUME NEW s \in Seq(Byte), NEW i \in 1..Len(s)
  PROVE  s[i] \in Int /\ (Escaped(s, i) => Radix16(s[i + 1], s[i + 2]) \in Int)
<1>1. s[i] \in Int
  BY BytesAreNumbers
<1>2. \A j \in 1..Len(s) : HexValue(s[j]) \in Int
  BY BytesAreNumbers
<1>3. ASSUME i + 2 <= Len(s) PROVE Radix16(s[i + 1], s[i + 2]) \in Int
  <2>1. i + 1 \in 1..Len(s) /\ i + 2 \in 1..Len(s)
    BY <1>3
  <2>2. HexValue(s[i + 1]) \in Int /\ HexValue(s[i + 2]) \in Int
    BY <1>2, <2>1
  <2> QED BY <2>2 DEF Radix16
<1> QED BY <1>1, <1>3 DEF Escaped

\* The recursion of unescape has a solution: it goes through the bytes from the
\* last to the first.
LEMMA DecodesExists ==
  ASSUME NEW s \in Seq(Byte)
  PROVE  \E f : f = [i \in 1..(Len(s) + 1) |->
                      IF i > Len(s) THEN <<>>
                      ELSE IF Escaped(s, i) THEN <<Radix16(s[i + 1], s[i + 2])>> \o f[i + 3]
                      ELSE <<s[i]>> \o f[i + 1]]
<1> DEFINE n == Len(s)
           First(i) == IF Escaped(s, i) THEN <<Radix16(s[i + 1], s[i + 2])>> ELSE <<s[i]>>
           After(i) == IF Escaped(s, i) THEN i + 3 ELSE i + 1
           pre == [i \in 1..n |-> First(i)]
           next == [i \in 1..n |-> After(i)]
<1>1. n \in Nat
  OBVIOUS
<1>2. \A i \in 1..n : First(i) \in Seq(Int)
  BY EscapedByte
<1>3. \A i \in 1..n : After(i) \in 1..(n + 1) /\ i < After(i)
  BY DEF Escaped
<1>4. GoesBack(Int, n, pre, next)
  BY <1>2, <1>3 DEF GoesBack
<1>5. \A i \in 1..n : pre[i] = First(i) /\ next[i] = After(i)
  OBVIOUS
<1> HIDE DEF pre, next, n
<1>0. PICK f : BackRecursion(f, Int, n, pre, next)
  BY <1>1, <1>4, BackRecursionExists
<1>6. f \in [1..(n + 1) -> Seq(Int)] /\ f[n + 1] = <<>> /\ \A i \in 1..n : f[i] = pre[i] \o f[next[i]]
  BY <1>0 DEF BackRecursion
<1> DEFINE Rest(i) == IF i > n THEN <<>>
                      ELSE IF Escaped(s, i) THEN <<Radix16(s[i + 1], s[i + 2])>> \o f[i + 3]
                      ELSE <<s[i]>> \o f[i + 1]
<1>7. ASSUME NEW i \in 1..(n + 1) PROVE f[i] = Rest(i)
  <2>1. CASE i > n
    <3>1. i = n + 1
      BY <1>1, <2>1
    <3> QED BY <1>6, <2>1, <3>1
  <2>2. CASE ~(i > n)
    <3>1. i \in 1..n
      BY <1>1, <2>2
    <3>2. f[i] = First(i) \o f[After(i)]
      BY <1>5, <1>6, <3>1
    <3> QED BY <2>2, <3>2
  <2> QED BY <2>1, <2>2
<1>8. f = [i \in 1..(n + 1) |-> Rest(i)]
  BY <1>6, <1>7
<1> QED BY <1>8 DEF n

\* unescape is the first value of the function that decodes from every
\* position: its recursive definition has a solution.
LEMMA Decoding ==
  ASSUME NEW s \in Seq(Byte)
  PROVE  \E f : Decodes(s, f) /\ unescape(s) = f[1]
<1> DEFINE n == Len(s)
           Body(f) == [i \in 1..(n + 1) |->
                        IF i > n THEN <<>>
                        ELSE IF Escaped(s, i) THEN <<Radix16(s[i + 1], s[i + 2])>> \o f[i + 3]
                        ELSE <<s[i]>> \o f[i + 1]]
           f == CHOOSE g : g = Body(g)
<1>1. \E g : g = Body(g)
  BY DecodesExists
<1>2. f = Body(f)
  BY <1>1
<1>3. unescape(s) = f[1]
  BY DEF unescape, Escaped
<1> HIDE DEF f
<1>4. Decodes(s, f)
  BY <1>2 DEF Decodes
<1> QED BY <1>3, <1>4

Grows(a, b) == Len(a) <= Len(b) /\ \A i \in 1..Len(a) : b[i] = a[i]

\* What is encoded stays at its place while the rest is encoded.
LEMMA EncodedStays ==
  ASSUME NEW n \in Nat, NEW e \in [0..n -> Seq(Byte)], NEW ss \in [1..n -> Seq(Byte)],
         \A i \in 1..n : e[i] = e[i - 1] \o ss[i]
  PROVE  \A j \in 0..n : Grows(e[j], e[n])
<1> DEFINE H == {m \in 0..n : \A j \in 0..m : Grows(e[j], e[m])}
<1>1. \A a \in Seq(Byte) : Grows(a, a)
  BY DEF Grows
<1>2. 0 \in H
  <2>1. 0 \in 0..n /\ e[0] \in Seq(Byte) /\ \A j \in 0..0 : j = 0
    OBVIOUS
  <2> QED BY <1>1, <2>1
<1>3. ASSUME NEW m \in 1..n, m - 1 \in H PROVE m \in H
  <2>1. /\ m \in 0..n /\ m - 1 \in 0..n /\ \A j \in 0..m : j = m \/ (j \in 0..(m - 1) /\ j \in 0..n)
    OBVIOUS
  <2>2. e[m] \in Seq(Byte) /\ e[m - 1] \in Seq(Byte) /\ ss[m] \in Seq(Byte) /\ e[m] = e[m - 1] \o ss[m]
    BY <2>1
  <2>3. \A a, b, c \in Seq(Byte) : Grows(a, b) => Grows(a, b \o c)
    <3> SUFFICES ASSUME NEW a \in Seq(Byte), NEW b \in Seq(Byte), NEW c \in Seq(Byte), Grows(a, b) PROVE Grows(a, b \o c)
      OBVIOUS
    <3>1. Len(a) \in Nat /\ Len(b) \in Nat /\ Len(b \o c) \in Nat /\ Len(b) <= Len(b \o c)
      OBVIOUS
    <3>2. \A i \in 1..Len(b) : (b \o c)[i] = b[i]
      OBVIOUS
    <3>3. Len(a) <= Len(b) /\ \A i \in 1..Len(a) : b[i] = a[i]
      BY DEF Grows
    <3>4. \A i \in 1..Len(a) : i \in 1..Len(b)
      BY <3>1, <3>3
    <3> DEFINE w == b \o c
    <3> HIDE DEF w
    <3>5. Len(a) <= Len(w)
      <4>1. Len(a) <= Len(b) /\ Len(b) <= Len(w) /\ Len(w) \in Nat
        BY <3>1, <3>3 DEF w
      <4> QED BY <3>1, <4>1
    <3>6. \A i \in 1..Len(a) : w[i] = a[i]
      BY <3>2, <3>3, <3>4, Zenon DEF w
    <3> QED BY <3>5, <3>6 DEF Grows, w
  <2>4. \A j \in 0..(m - 1) : Grows(e[j], e[m - 1])
    BY <1>3
  <2>5. ASSUME NEW j \in 0..m PROVE Grows(e[j], e[m])
    <3>1. CASE j = m
      BY <1>1, <2>2, <3>1
    <3>2. CASE j \in 0..(m - 1) /\ j \in 0..n
      <4>1. e[j] \in Seq(Byte) /\ Grows(e[j], e[m - 1])
        BY <2>4, <3>2
      <4>2. Grows(e[j], e[m - 1] \o ss[m])
        BY <2>2, <2>3, <4>1
      <4> QED BY <2>2, <4>2
    <3> QED BY <2>1, <3>1, <3>2
  <2> QED BY <2>1, <2>5
<1> HIDE DEF H
<1>4. \A i \in 0..n : i \in H
  BY <1>2, <1>3, UpTo, Zenon
<1>5. n \in H
  BY <1>4
<1> QED BY <1>5 DEF H

\* What follows the decoded byte is what is decoded after its escape.
ReadsOne(f, a, b) == f[Len(a) + 1] = <<b>> \o f[Len(a \o Escape(b)) + 1]

\* Decoding reads one byte of the path from each escape.
LEMMA DecodeOne ==
  ASSUME NEW s \in Seq(Byte), NEW f, Decodes(s, f),
         NEW a \in Seq(Byte), NEW b \in Byte, Grows(a \o Escape(b), s)
  PROVE  ReadsOne(f, a, b)
<1> USE DEF ReadsOne
<1> DEFINE n == Len(a)
<1>1. n \in Nat /\ Len(s) \in Nat
  OBVIOUS
<1>2. CASE b \in Safe
  <2> DEFINE w == a \o <<b>>
  <2>1. Escape(b) = <<b>>
    BY <1>2 DEF Escape
  <2>2. Len(w) = n + 1 /\ w[n + 1] = b /\ Grows(w, s)
    BY <2>1
  <2> HIDE DEF w, n
  <2>3. n + 1 <= Len(s) /\ s[n + 1] = b
    BY <1>1, <2>2 DEF Grows
  <2>4. b # Percent
    BY <1>2 DEF Safe, Digits, Slash, Percent
  <2>5. f[n + 1] = <<b>> \o f[(n + 1) + 1]
    <3>1. n + 1 \in 1..(Len(s) + 1) /\ ~(n + 1 > Len(s))
      BY <1>1, <2>3
    <3>2. ~Escaped(s, n + 1)
      BY <2>3, <2>4 DEF Escaped
    <3> QED BY <2>3, <3>1, <3>2 DEF Decodes
  <2> QED BY <2>1, <2>2, <2>5 DEF w, n
<1>3. CASE b \notin Safe
  <2> DEFINE hi == HexDigit(b \div 16)
             lo == HexDigit(b % 16)
             w == a \o <<Percent, hi, lo>>
  <2>1. Escape(b) = <<Percent, hi, lo>>
    BY <1>3 DEF Escape
  <2>2. Radix16(hi, lo) = b /\ b # -1 /\ hi \in Byte /\ lo \in Byte
    <3>1. b # -1
      BY DEF Byte
    <3> QED BY <3>1, DigitsNameByte
  <2> HIDE DEF hi, lo
  <2>3. Percent \in Byte
    BY DEF Percent, Byte
  <2>4. Len(w) = n + 3 /\ w[n + 1] = Percent /\ w[n + 2] = hi /\ w[n + 3] = lo
    BY <2>2, <2>3
  <2>5. Grows(w, s)
    BY <2>1
  <2> HIDE DEF w, n
  <2>6. n + 3 <= Len(s) /\ s[n + 1] = Percent /\ s[n + 2] = hi /\ s[n + 3] = lo
    <3>1. n + 3 <= Len(s) /\ \A i \in 1..(n + 3) : s[i] = w[i]
      BY <2>4, <2>5 DEF Grows
    <3>2. n + 1 \in 1..(n + 3) /\ n + 2 \in 1..(n + 3) /\ n + 3 \in 1..(n + 3)
      BY <1>1
    <3> QED BY <2>4, <3>1, <3>2
  <2>7. /\ n + 1 \in 1..(Len(s) + 1) /\ ~(n + 1 > Len(s)) /\ (n + 1) + 2 <= Len(s)
        /\ (n + 1) + 1 = n + 2 /\ (n + 1) + 2 = n + 3 /\ (n + 1) + 3 = (n + 3) + 1
    BY <1>1, <2>6
  <2>8. Escaped(s, n + 1) /\ Radix16(s[(n + 1) + 1], s[(n + 1) + 2]) = b
    BY <2>2, <2>6, <2>7 DEF Escaped
  <2>9. f[n + 1] = <<b>> \o f[(n + 3) + 1]
    BY <2>7, <2>8 DEF Decodes
  <2> QED BY <2>1, <2>4, <2>9 DEF w, n
<1> QED BY <1>2, <1>3

\* Bytes come back from their escapes.
LEMMA DecodeEncode ==
  ASSUME NEW p \in Seq(Byte)
  PROVE  /\ unescape(percent_encode_path(p)) = p
         /\ p # <<>> /\ Head(p) = Slash => percent_encode_path(p) # <<>> /\ Head(percent_encode_path(p)) = Slash
<1> DEFINE n == Len(p)
           ss == [i \in DOMAIN p |-> Escape(p[i])]
           s == percent_encode_path(p)
<1>1. n \in Nat /\ DOMAIN p = 1..n /\ \A i \in 1..n : p[i] \in Byte
  OBVIOUS
<1>2. s = FlattenSeq(ss)
  BY DEF percent_encode_path, Escape
<1>3. ss \in [1..n -> Seq(Byte)] /\ \A i \in 1..n : ss[i] = Escape(p[i])
  BY <1>1, EscapeIsBytes
<1> HIDE DEF n, ss
<1>4. ss \in Seq(Seq(Byte)) /\ Len(ss) = n
  BY <1>1, <1>3
<1>5. PICK e \in [0..n -> Seq(Byte)] : /\ e[0] = <<>>
                                       /\ \A i \in 1..n : e[i] = e[i - 1] \o ss[i]
                                       /\ s = e[n]
  BY <1>2, <1>4, FlattenPrefixes
<1> HIDE DEF s
<1>6. s \in Seq(Byte) /\ \A j \in 0..n : Grows(e[j], s)
  <2>1. \A j \in 0..n : Grows(e[j], e[n])
    BY <1>1, <1>3, <1>5, EncodedStays, Zenon
  <2>2. n \in 0..n
    BY <1>1
  <2> QED BY <1>5, <2>1, <2>2
<1>7. PICK f : Decodes(s, f) /\ unescape(s) = f[1]
  BY <1>6, Decoding
<1> DEFINE G == {m \in 0..n : f[Len(e[n - m]) + 1] = SubSeq(p, n - m + 1, n)}
<1>8. 0 \in G
  <2>1. 0 \in 0..n /\ n - 0 = n /\ Len(s) \in Nat /\ n - 0 + 1 = n + 1
    BY <1>1, <1>6
  <2>2. SubSeq(p, n + 1, n) = <<>>
    BY <1>1, SubSeqEmpty
  <2>3. f[Len(s) + 1] = <<>>
    <3>1. Len(s) + 1 \in 1..(Len(s) + 1) /\ Len(s) + 1 > Len(s)
      BY <2>1
    <3> QED BY <1>7, <3>1 DEF Decodes
  <2> QED BY <1>5, <2>1, <2>2, <2>3
<1>9. ASSUME NEW m \in 1..n, m - 1 \in G PROVE m \in G
  <2> DEFINE j == n - m + 1
             a == e[j - 1]
             b == p[j]
  <2>1. m \in 0..n /\ j \in 1..n /\ j - 1 \in 0..n /\ j \in 0..n /\ n - m = j - 1 /\ n - (m - 1) = j
    BY <1>1
  <2>2. a \in Seq(Byte) /\ b \in Byte /\ e[j] = a \o Escape(b)
    BY <1>1, <1>3, <1>5, <2>1
  <2>3. f[Len(e[j]) + 1] = SubSeq(p, j + 1, n)
    BY <1>9, <2>1
  <2>4. Grows(a \o Escape(b), s)
    BY <1>6, <2>1, <2>2
  <2>5. <<b>> \o SubSeq(p, j + 1, n) = SubSeq(p, j, n)
    <3>1. j \in 1..Len(p) /\ n \in j..Len(p)
      BY <1>1, <2>1 DEF n
    <3> QED BY <3>1, SubSeqRecursiveFirst
  <2> HIDE DEF a, b
  <2>6. f[Len(a) + 1] = <<b>> \o f[Len(a \o Escape(b)) + 1]
    <3>1. s \in Seq(Byte) /\ Decodes(s, f) /\ a \in Seq(Byte) /\ b \in Byte /\ Grows(a \o Escape(b), s)
      BY <1>6, <1>7, <2>2, <2>4
    <3>2. ReadsOne(f, a, b)
      BY <3>1, DecodeOne
    <3> QED BY <3>2 DEF ReadsOne
  <2>7. f[Len(e[j - 1]) + 1] = SubSeq(p, j, n)
    BY <2>2, <2>3, <2>5, <2>6 DEF a
  <2> QED BY <2>1, <2>7
<1> HIDE DEF G
<1>10. \A i \in 0..n : i \in G
  BY <1>1, <1>8, <1>9, UpTo, Zenon
<1>11. unescape(s) = p
  <2>1. n \in 0..n /\ n - n = 0 /\ 0 + 1 = 1 /\ Len(<<>>) = 0
    BY <1>1
  <2>2. f[Len(e[n - n]) + 1] = SubSeq(p, n - n + 1, n)
    BY <1>10, <2>1 DEF G
  <2>3. f[1] = SubSeq(p, 1, n)
    BY <1>5, <2>1, <2>2
  <2>4. SubSeq(p, 1, n) = p
    BY SubSeqFull DEF n
  <2> QED BY <1>7, <2>3, <2>4
<1>12. ASSUME p # <<>>, Head(p) = Slash PROVE s # <<>> /\ Head(s) = Slash
  <2>1. n # 0 /\ p[1] = Slash
    BY <1>12 DEF n
  <2>2. 1 \in 1..n /\ 1 \in 0..n /\ 1 - 1 = 0
    BY <1>1, <2>1
  <2>3. Escape(Slash) = <<Slash>>
    BY DEF Escape, Safe
  <2>4. e[1] = <<>> \o <<Slash>>
    BY <1>3, <1>5, <2>1, <2>2, <2>3
  <2>5. Len(e[1]) = 1 /\ e[1][1] = Slash
    BY <2>4
  <2>6. 1 <= Len(s) /\ s[1] = Slash
    BY <1>6, <2>2, <2>5 DEF Grows
  <2> QED BY <1>6, <2>6
<1> QED BY <1>11, <1>12 DEF s

----------------------------------------------------------------------------
(* UTF-8.                                                                  *)

\* A byte that continues a character starts none.
LEMMA CharLens ==
  ASSUME NEW b \in Byte
  PROVE  CharLen(b) \in 0..4 /\ \A first, i : Follows(first, i, b) => CharLen(b) = 0
<1>1. b \in Int /\ CharLen(b) \in 0..4
  BY DEF CharLen, Byte
<1>2. b \in 128..191 => CharLen(b) = 0
  BY <1>1 DEF CharLen
<1>3. ASSUME NEW first, NEW i, Follows(first, i, b) PROVE b \in 128..191
  <2>1. b \in 128..191 \/ b \in 160..191 \/ b \in 128..159 \/ b \in 144..191 \/ b \in 128..143
    BY <1>3, Zenon DEF Follows
  <2> QED BY <1>1, <2>1
<1> QED BY <1>1, <1>2, <1>3

\* Bytes that begin a character and do not finish it end before the end.
LEMMA BrokenEnds ==
  ASSUME NEW s \in Seq(Byte), NEW j \in 1..Len(s), ~CharAt(s, j)
  PROVE  Broken(s, j) \in 1..(Len(s) + 1) /\ j < Broken(s, j)
<1> DEFINE n == Len(s)
           k == CharLen(s[j])
           F(i) == Follows(s[j], i, s[j + i - 1])
           begins(e) == \A i \in 2..(e - j) : i < k /\ F(i)
           stops(e) == e <= n => ~(e - j + 1 <= k /\ Follows(s[j], e - j + 1, s[e]))
           T == {x \in 0..(n - j) : begins(n + 1 - x)}
<1>1. n \in Nat /\ j \in 1..n /\ k \in 0..4
  <2>1. s[j] \in Byte
    OBVIOUS
  <2> QED BY <2>1, CharLens
<1>2. Broken(s, j) = CHOOSE e \in (j + 1)..(n + 1) : begins(e) /\ stops(e)
  BY DEF Broken
<1>3. ~(k > 0 /\ j + k <= n + 1 /\ \A i \in 2..k : F(i))
  BY DEF CharAt
<1> HIDE DEF n, k, F
<1>4. n - j \in T
  <2>1. n - j \in 0..(n - j) /\ n + 1 - (n - j) = j + 1 /\ \A i \in 2..((j + 1) - j) : FALSE
    BY <1>1
  <2> QED BY <2>1
<1>5. PICK x \in T : \A y \in T : x <= y
  <2>1. T \subseteq Nat
    BY <1>1
  <2> HIDE DEF T
  <2> QED BY <1>4, <2>1, LeastNatural
<1> DEFINE e == n + 1 - x
<1>6. x \in 0..(n - j) /\ begins(e)
  BY <1>5
<1>7. e \in (j + 1)..(n + 1)
  BY <1>1, <1>6
<1>8. stops(e)
  <2> SUFFICES ASSUME e <= n, e - j + 1 <= k, Follows(s[j], e - j + 1, s[e]) PROVE FALSE
    OBVIOUS
  <2>0. e \in Int /\ j \in Int /\ n \in Int /\ k \in Int /\ j + (e - j + 1) - 1 = e
    BY <1>1, <1>7
  <2>1. F(e - j + 1)
    BY <2>0 DEF F
  <2>2. \A i \in 2..(e - j + 1) : F(i)
    <3>1. \A i \in 2..(e - j + 1) : i \in 2..(e - j) \/ i = e - j + 1
      BY <2>0
    <3> QED BY <1>6, <2>1, <3>1
  <2>3. CASE e - j + 1 = k
    <3>1. k > 0 /\ j + k <= n + 1
      BY <1>7, <2>0, <2>3
    <3> QED BY <1>3, <2>2, <2>3, <3>1
  <2>4. CASE e - j + 1 < k
    <3>1. x - 1 \in 0..(n - j) /\ n + 1 - (x - 1) = e + 1 /\ ~(x <= x - 1)
      BY <1>1, <1>6, <2>0
    <3>2. \A i \in 2..((e + 1) - j) : i \in 2..(e - j + 1) /\ i < k
      BY <2>0, <2>4
    <3>3. x - 1 \in T
      BY <2>2, <3>1, <3>2
    <3> QED BY <1>5, <3>1, <3>3
  <2> QED BY <2>0, <2>3, <2>4
<1> HIDE DEF begins, stops, e
<1>9. Broken(s, j) \in (j + 1)..(n + 1)
  BY <1>2, <1>6, <1>7, <1>8
<1> QED BY <1>1, <1>9 DEF n

\* What a reader makes of the bytes of s from the j-th on, given what it makes
\* of the rest.
Reads(s, f) ==
  \A j \in 1..(Len(s) + 1) :
    f[j] = IF j > Len(s) THEN <<>>
           ELSE IF CharAt(s, j) THEN SubSeq(s, j, j + CharLen(s[j]) - 1) \o f[j + CharLen(s[j])]
           ELSE Replacement \o f[Broken(s, j)]

\* A character has its bytes, and the reader goes on after it.
LEMMA OneCharacter ==
  ASSUME NEW s \in Seq(Byte), NEW j \in 1..Len(s), CharAt(s, j)
  PROVE  LET c == SubSeq(s, j, j + CharLen(s[j]) - 1)
         IN  /\ CharLen(s[j]) \in 1..4
             /\ j + CharLen(s[j]) \in 1..(Len(s) + 1) /\ j < j + CharLen(s[j])
             /\ c \in Seq(Byte) /\ Len(c) = CharLen(s[j])
             /\ \A i \in 1..CharLen(s[j]) : c[i] = s[j + i - 1]
<1> DEFINE k == CharLen(s[j])
<1>1. s[j] \in Byte
  OBVIOUS
<1>2. k \in 1..4 /\ j + k <= Len(s) + 1
  BY <1>1, CharLens DEF CharAt
<1> HIDE DEF k
<1>3. j + k \in 1..(Len(s) + 1) /\ j < j + k /\ j + k - 1 \in j..Len(s) /\ j \in 1..(Len(s) + 1)
  BY <1>2
<1> DEFINE c == SubSeq(s, j, j + k - 1)
<1>4. c \in Seq(Byte)
  <2>1. \A i \in j..(j + k - 1) : i \in 1..Len(s)
    BY <1>3
  <2> QED BY <1>3, <2>1, SubSeqProperties
<1>5. Len(c) = k /\ \A i \in 1..k : c[i] = s[j + i - 1]
  BY <1>2, <1>3
<1> HIDE DEF c
<1>6. /\ k \in 1..4 /\ j + k \in 1..(Len(s) + 1) /\ j < j + k
      /\ c \in Seq(Byte) /\ Len(c) = k /\ \A i \in 1..k : c[i] = s[j + i - 1]
  BY <1>2, <1>3, <1>4, <1>5
<1> QED BY <1>6 DEF c, k

\* from_utf8_lossy is the first value of the function that reads from every
\* position: its recursive definition has a solution.
LEMMA Reading ==
  ASSUME NEW s \in Seq(Byte)
  PROVE  \E f : Reads(s, f) /\ from_utf8_lossy(s) = f[1]
<1> DEFINE n == Len(s)
           First(j) == IF CharAt(s, j) THEN SubSeq(s, j, j + CharLen(s[j]) - 1) ELSE Replacement
           After(j) == IF CharAt(s, j) THEN j + CharLen(s[j]) ELSE Broken(s, j)
           pre == [j \in 1..n |-> First(j)]
           next == [j \in 1..n |-> After(j)]
           Body(f) == [j \in 1..(n + 1) |->
                        IF j > n THEN <<>>
                        ELSE IF CharAt(s, j) THEN SubSeq(s, j, j + CharLen(s[j]) - 1) \o f[j + CharLen(s[j])]
                        ELSE Replacement \o f[Broken(s, j)]]
           g == CHOOSE f : f = Body(f)
<1>1. n \in Nat
  OBVIOUS
<1>2. Replacement \in Seq(Byte)
  BY DEF Replacement, Byte
<1>3. \A j \in 1..n : First(j) \in Seq(Byte) /\ After(j) \in 1..(n + 1) /\ j < After(j)
  <2> SUFFICES ASSUME NEW j \in 1..n PROVE First(j) \in Seq(Byte) /\ After(j) \in 1..(n + 1) /\ j < After(j)
    OBVIOUS
  <2>1. CASE CharAt(s, j)
    BY <2>1, OneCharacter
  <2>2. CASE ~CharAt(s, j)
    BY <1>2, <2>2, BrokenEnds
  <2> QED BY <2>1, <2>2
<1>4. GoesBack(Byte, n, pre, next)
  <2> HIDE DEF First, After
  <2> QED BY <1>3 DEF GoesBack
<1>5. \A j \in 1..n : pre[j] = First(j) /\ next[j] = After(j)
  OBVIOUS
<1>6. from_utf8_lossy(s) = g[1]
  BY DEF from_utf8_lossy
<1> HIDE DEF pre, next
<1>7. PICK f : BackRecursion(f, Byte, n, pre, next)
  <2> HIDE DEF n
  <2> QED BY <1>1, <1>4, BackRecursionExists
<1>8. f \in [1..(n + 1) -> Seq(Byte)] /\ f[n + 1] = <<>> /\ \A j \in 1..n : f[j] = First(j) \o f[After(j)]
  BY <1>5, <1>7 DEF BackRecursion
<1>9. ASSUME NEW j \in 1..(n + 1)
      PROVE  f[j] = IF j > n THEN <<>>
                    ELSE IF CharAt(s, j) THEN SubSeq(s, j, j + CharLen(s[j]) - 1) \o f[j + CharLen(s[j])]
                    ELSE Replacement \o f[Broken(s, j)]
  <2> HIDE DEF n
  <2>1. CASE j > n
    <3>1. j = n + 1
      BY <1>1, <2>1
    <3> QED BY <1>8, <2>1, <3>1
  <2>2. CASE ~(j > n)
    <3>1. j \in 1..n
      BY <1>1, <2>2
    <3> QED BY <1>8, <2>2, <3>1
  <2> QED BY <2>1, <2>2
<1>10. f = Body(f)
  <2> HIDE DEF n
  <2> QED BY <1>8, <1>9
<1>11. g = Body(g)
  BY <1>10
<1> HIDE DEF g
<1>12. Reads(s, g)
  BY <1>11 DEF Reads
<1> QED BY <1>6, <1>12

\* The bytes of one character.
IsChar(c) ==
  /\ c \in Seq(Byte) /\ Len(c) \in 1..4 /\ CharLen(c[1]) = Len(c)
  /\ \A i \in 2..Len(c) : Follows(c[1], i, c[i])

\* A character before a text is a text.
LEMMA OneMore ==
  ASSUME NEW c, IsChar(c), NEW u \in Seq(Byte), IsUtf8(u)
  PROVE  c \o u \in Seq(Byte) /\ IsUtf8(c \o u)
<1> DEFINE w == c \o u
           k == Len(c)
<1>1. /\ c \in Seq(Byte) /\ k \in 1..4 /\ CharLen(c[1]) = k /\ \A i \in 2..k : Follows(c[1], i, c[i])
  BY DEF IsChar
<1>2. w \in Seq(Byte) /\ Len(w) = k + Len(u) /\ Len(u) \in Nat
  BY <1>1
<1>3. (\A i \in 1..k : w[i] = c[i]) /\ \A i \in 1..Len(u) : w[i + k] = u[i]
  BY <1>1
<1> HIDE DEF w, k
<1>4. CharAt(w, 1) /\ CharLen(w[1]) = k
  <2>1. 1 \in 1..k /\ k > 0 /\ 1 + k <= Len(w) + 1
    BY <1>1, <1>2
  <2>2. w[1] = c[1]
    BY <1>3, <2>1
  <2>3. \A i \in 2..k : i \in 1..k /\ 1 + i - 1 = i
    BY <1>1
  <2>4. \A i \in 2..k : Follows(w[1], i, w[1 + i - 1])
    BY <1>1, <1>3, <2>2, <2>3
  <2> QED BY <1>1, <2>1, <2>2, <2>4 DEF CharAt
<1>5. ASSUME NEW j \in 1..Len(u), CharAt(u, j) PROVE CharAt(w, j + k) /\ CharLen(w[j + k]) = CharLen(u[j])
  <2> DEFINE m == CharLen(u[j])
  <2>1. w[j + k] = u[j]
    BY <1>3
  <2>2. m > 0 /\ j + m <= Len(u) + 1 /\ \A i \in 2..m : Follows(u[j], i, u[j + i - 1])
    BY <1>5 DEF CharAt
  <2>3. m \in 0..4
    <3>1. u[j] \in Byte
      OBVIOUS
    <3> QED BY <3>1, CharLens
  <2> HIDE DEF m
  <2>a. k \in Nat /\ Len(u) \in Nat /\ Len(w) = k + Len(u)
    BY <1>1, <1>2
  <2>b. j + m <= Len(u) + 1
    BY <2>2
  <2>4. (j + k) + m <= Len(w) + 1
    BY <2>3, <2>a, <2>b
  <2>5. \A i \in 2..m : j + i - 1 \in 1..Len(u) /\ (j + k) + i - 1 = (j + i - 1) + k
    BY <2>3, <2>a, <2>b
  <2>6. \A i \in 2..m : Follows(w[j + k], i, w[(j + k) + i - 1])
    BY <1>3, <2>1, <2>2, <2>5
  <2> QED BY <2>1, <2>2, <2>4, <2>6 DEF CharAt, m
<1>6. ASSUME NEW i \in 1..Len(w) PROVE \E j \in 1..i : CharAt(w, j) /\ i < j + CharLen(w[j])
  <2>1. CASE i <= k
    <3>1. 1 \in 1..i /\ i < 1 + k
      BY <1>1, <1>2, <2>1
    <3> QED BY <1>4, <3>1
  <2>2. CASE k < i
    <3>1. i - k \in 1..Len(u)
      BY <1>1, <1>2, <2>2
    <3>2. PICK j \in 1..(i - k) : CharAt(u, j) /\ i - k < j + CharLen(u[j])
      BY <3>1 DEF IsUtf8
    <3>3. j \in 1..Len(u) /\ j + k \in 1..i
      BY <1>1, <1>2, <3>1
    <3>4. CharAt(w, j + k) /\ CharLen(w[j + k]) = CharLen(u[j])
      BY <1>5, <3>2, <3>3
    <3>5. CharLen(u[j]) \in 0..4
      <4>1. u[j] \in Byte
        BY <3>3
      <4> QED BY <4>1, CharLens
    <3>6. i < (j + k) + CharLen(u[j])
      <4> DEFINE m == CharLen(u[j])
      <4>1. m \in 0..4 /\ i - k < j + m
        BY <3>2, <3>5
      <4> HIDE DEF m
      <4>2. i < (j + k) + m
        BY <1>1, <1>2, <3>3, <4>1
      <4> QED BY <4>2 DEF m
    <3> QED BY <3>3, <3>4, <3>6
  <2> QED BY <1>1, <1>2, <2>1, <2>2
<1>7. IsUtf8(w)
  BY <1>6 DEF IsUtf8
<1> QED BY <1>2, <1>7 DEF w

\* Whatever the bytes, what is read is a text.
LEMMA LossyIsText ==
  ASSUME NEW s \in Seq(Byte)
  PROVE  from_utf8_lossy(s) \in Seq(Byte) /\ IsUtf8(from_utf8_lossy(s))
<1> DEFINE n == Len(s)
<1>1. PICK f : Reads(s, f) /\ from_utf8_lossy(s) = f[1]
  BY Reading
<1>2. n \in Nat
  OBVIOUS
<1> DEFINE G == {j \in 1..(n + 1) : f[j] \in Seq(Byte) /\ IsUtf8(f[j])}
<1>3. n + 1 \in G
  <2>1. n + 1 \in 1..(n + 1) /\ n + 1 > n
    BY <1>2
  <2>2. f[n + 1] = <<>>
    BY <1>1, <2>1 DEF Reads
  <2>3. <<>> \in Seq(Byte) /\ \A i \in 1..Len(<<>>) : FALSE
    OBVIOUS
  <2>4. IsUtf8(<<>>)
    BY <2>3 DEF IsUtf8
  <2> HIDE DEF n
  <2> QED BY <2>1, <2>2, <2>3, <2>4
<1>4. ASSUME NEW j \in 1..n, \A i \in 1..(n + 1) : j < i => i \in G PROVE j \in G
  <2>1. j \in 1..(n + 1) /\ ~(j > n)
    BY <1>2
  <2>2. CASE CharAt(s, j)
    <3> DEFINE k == CharLen(s[j])
               c == SubSeq(s, j, j + k - 1)
    <3>1. /\ k \in 1..4 /\ j + k \in 1..(n + 1) /\ j < j + k
          /\ c \in Seq(Byte) /\ Len(c) = k /\ \A i \in 1..k : c[i] = s[j + i - 1]
      BY <2>2, OneCharacter
    <3>2. f[j] = c \o f[j + k]
      BY <1>1, <2>1, <2>2 DEF Reads
    <3>3. \A i \in 2..k : Follows(s[j], i, s[j + i - 1])
      BY <2>2 DEF CharAt
    <3>4. s[j + 1 - 1] = s[j]
      <4>1. j + 1 - 1 = j
        BY <1>2
      <4> QED BY <4>1
    <3> HIDE DEF c
    <3>5. CharLen(c[1]) = k /\ c[1] = s[j]
      <4>1. 1 \in 1..k
        BY <3>1
      <4>2. c[1] = s[j]
        BY <3>1, <3>4, <4>1
      <4> QED BY <4>2
    <3> HIDE DEF k
    <3>6. IsChar(c)
      <4>1. \A i \in 2..k : i \in 1..k
        BY <3>1
      <4>2. \A i \in 2..k : Follows(c[1], i, c[i])
        BY <3>1, <3>3, <3>5, <4>1
      <4> QED BY <3>1, <3>5, <4>2 DEF IsChar
    <3>7. f[j + k] \in Seq(Byte) /\ IsUtf8(f[j + k])
      BY <1>4, <3>1
    <3>8. f[j] \in Seq(Byte) /\ IsUtf8(f[j])
      BY <3>2, <3>6, <3>7, OneMore
    <3> QED BY <2>1, <3>8
  <2>3. CASE ~CharAt(s, j)
    <3> DEFINE e == Broken(s, j)
    <3>1. e \in 1..(n + 1) /\ j < e
      BY <2>3, BrokenEnds
    <3>2. f[j] = Replacement \o f[e]
      BY <1>1, <2>1, <2>3 DEF Reads
    <3> HIDE DEF e
    <3>3. IsChar(Replacement)
      <4>1. Replacement \in Seq(Byte) /\ Len(Replacement) = 3 /\ Replacement[1] = 239 /\ Replacement[2] = 191 /\ Replacement[3] = 189
        BY DEF Replacement, Byte
      <4>2. CharLen(239) = 3 /\ \A i \in 2..3 : i = 2 \/ i = 3
        BY DEF CharLen
      <4>3. Follows(239, 2, 191) /\ Follows(239, 3, 189)
        BY DEF Follows
      <4> QED BY <4>1, <4>2, <4>3 DEF IsChar
    <3>4. f[e] \in Seq(Byte) /\ IsUtf8(f[e])
      BY <1>4, <3>1
    <3>5. f[j] \in Seq(Byte) /\ IsUtf8(f[j])
      BY <3>2, <3>3, <3>4, OneMore
    <3> QED BY <2>1, <3>5
  <2> QED BY <2>2, <2>3
<1> HIDE DEF G, n
<1>5. \A j \in 1..(n + 1) : j \in G
  BY <1>2, <1>3, <1>4, DownTo, Zenon
<1>6. 1 \in 1..(n + 1)
  BY <1>2
<1> QED BY <1>1, <1>5, <1>6 DEF G

\* A text is read as it is.
LEMMA LossyKeepsText ==
  ASSUME NEW s \in Seq(Byte), IsUtf8(s)
  PROVE  from_utf8_lossy(s) = s
<1> DEFINE n == Len(s)
           Starts(j) == j = n + 1 \/ CharLen(s[j]) > 0
<1>1. PICK f : Reads(s, f) /\ from_utf8_lossy(s) = f[1]
  BY Reading
<1>2. n \in Nat /\ \A j \in 1..n : s[j] \in Byte
  OBVIOUS
<1>3. \A j \in 1..n : CharLen(s[j]) \in 0..4 /\ \A first, i : Follows(first, i, s[j]) => CharLen(s[j]) = 0
  BY <1>2, CharLens
\* Inside a character no character starts.
<1>4. ASSUME NEW j \in 1..n, CharAt(s, j), NEW i \in 1..n, j < i, i < j + CharLen(s[j]) PROVE ~(CharLen(s[i]) > 0)
  <2>1. i - j + 1 \in 2..CharLen(s[j]) /\ j + (i - j + 1) - 1 = i
    <3> DEFINE k == CharLen(s[j])
    <3>1. k \in 0..4 /\ i < j + k
      BY <1>3, <1>4
    <3> HIDE DEF k
    <3>2. i - j + 1 \in 2..k /\ j + (i - j + 1) - 1 = i
      BY <1>2, <1>4, <3>1
    <3> QED BY <3>2 DEF k
  <2>2. Follows(s[j], i - j + 1, s[j + (i - j + 1) - 1])
    BY <1>4, <2>1 DEF CharAt
  <2>3. CharLen(s[i]) = 0
    BY <1>3, <2>1, <2>2
  <2> QED BY <2>3
\* Where one may start, one does.
<1>5. ASSUME NEW i \in 1..n, CharLen(s[i]) > 0 PROVE CharAt(s, i)
  <2>1. PICK j \in 1..i : CharAt(s, j) /\ i < j + CharLen(s[j])
    BY DEF IsUtf8
  <2>2. j \in 1..n /\ (j = i \/ j < i)
    BY <1>2
  <2> QED BY <1>4, <1>5, <2>1, <2>2
<1>6. ASSUME NEW i \in 1..n, CharAt(s, i) PROVE Starts(i + CharLen(s[i]))
  <2> DEFINE e == i + CharLen(s[i])
  <2>1. CharLen(s[i]) \in 1..4 /\ e \in 1..(n + 1)
    BY <1>6, OneCharacter
  <2> SUFFICES ASSUME e \in 1..n PROVE CharLen(s[e]) > 0
    BY <1>2, <2>1
  <2>2. PICK j \in 1..e : CharAt(s, j) /\ e < j + CharLen(s[j])
    BY DEF IsUtf8
  <2>3. j \in 1..n /\ CharLen(s[j]) \in 1..4 /\ CharLen(s[i]) > 0 /\ CharLen(s[j]) > 0
    <3>1. j \in 1..n
      BY <1>2
    <3> QED BY <1>3, <2>1, <2>2, <3>1 DEF CharAt
  <2>4. ~(j < i)
    <3> SUFFICES ASSUME j < i PROVE FALSE
      OBVIOUS
    <3>1. i < j + CharLen(s[j])
      BY <2>1, <2>2, <2>3
    <3> QED BY <1>4, <2>2, <2>3, <3>1
  <2>5. j # i
    BY <2>1, <2>2
  <2>6. ~(i < j /\ j < e)
    BY <1>4, <1>6, <2>3
  <2>7. j = e
    BY <1>2, <2>1, <2>3, <2>4, <2>5, <2>6
  <2> QED BY <2>3, <2>7
<1> DEFINE G == {j \in 1..(n + 1) : Starts(j) => f[j] = SubSeq(s, j, n)}
<1>7. n + 1 \in G
  <2>1. n + 1 \in 1..(n + 1) /\ n + 1 > n
    BY <1>2
  <2>2. f[n + 1] = <<>>
    BY <1>1, <2>1 DEF Reads
  <2>3. SubSeq(s, n + 1, n) = <<>>
    BY <1>2, SubSeqEmpty
  <2> QED BY <2>1, <2>2, <2>3
<1>8. ASSUME NEW j \in 1..n, \A i \in 1..(n + 1) : j < i => i \in G PROVE j \in G
  <2>1. j \in 1..(n + 1) /\ ~(j > n) /\ j # n + 1
    BY <1>2
  <2> SUFFICES ASSUME CharLen(s[j]) > 0 PROVE f[j] = SubSeq(s, j, n)
    BY <2>1
  <2> DEFINE k == CharLen(s[j])
             c == SubSeq(s, j, j + k - 1)
  <2>2. CharAt(s, j)
    BY <1>5
  <2>3. /\ k \in 1..4 /\ j + k \in 1..(n + 1) /\ j < j + k
        /\ c \in Seq(Byte) /\ Len(c) = k /\ \A i \in 1..k : c[i] = s[j + i - 1]
    BY <2>2, OneCharacter
  <2>4. f[j] = c \o f[j + k]
    BY <1>1, <2>1, <2>2 DEF Reads
  <2>5. f[j + k] = SubSeq(s, j + k, n)
    BY <1>6, <1>8, <2>2, <2>3
  <2> HIDE DEF k
  <2>6. c \o SubSeq(s, j + k, n) = SubSeq(s, j, n)
    <3> DEFINE m == j + k - 1
    <3>1. m \in Int /\ m + 1 = j + k /\ m >= j - 1 /\ m <= n /\ n \in m..Len(s) /\ j \in 1..(Len(s) + 1) /\ m \in (j - 1)..Len(s)
      BY <1>2, <2>3 DEF n
    <3> HIDE DEF m, n
    <3>2. SubSeq(s, j, m) \o SubSeq(s, m + 1, n) = SubSeq(s, j, n)
      BY <3>1, ConcatAdjacentSubSeq
    <3> QED BY <3>1, <3>2 DEF m
  <2> QED BY <2>4, <2>5, <2>6
<1> HIDE DEF G, n
<1>9. \A j \in 1..(n + 1) : j \in G
  BY <1>2, <1>7, <1>8, DownTo, Zenon
<1>10. 1 \in 1..(n + 1) /\ Starts(1)
  <2>1. 1 \in 1..(n + 1) /\ (n = 0 \/ 1 \in 1..n)
    BY <1>2
  <2>2. CASE n = 0
    BY <2>1, <2>2
  <2>3. CASE 1 \in 1..n
    <3>1. PICK j \in 1..1 : CharAt(s, j)
      BY <2>3 DEF IsUtf8, n
    <3>2. j = 1
      OBVIOUS
    <3> QED BY <2>1, <3>1, <3>2 DEF CharAt
  <2> QED BY <2>1, <2>2, <2>3
<1>11. f[1] = SubSeq(s, 1, n)
  BY <1>9, <1>10 DEF G
<1>12. SubSeq(s, 1, n) = s
  BY SubSeqFull DEF n
<1> QED BY <1>1, <1>11, <1>12

\* A leading slash is read as one.
LEMMA LossyHead ==
  ASSUME NEW s \in Seq(Byte), s # <<>>, Head(s) = Slash
  PROVE  from_utf8_lossy(s) # <<>> /\ Head(from_utf8_lossy(s)) = Slash
<1>1. PICK f : Reads(s, f) /\ from_utf8_lossy(s) = f[1]
  BY Reading
<1>2. Len(s) \in Nat /\ 1 \in 1..Len(s) /\ 1 \in 1..(Len(s) + 1) /\ ~(1 > Len(s)) /\ s[1] = Slash
  OBVIOUS
<1>3. CharLen(s[1]) = 1
  BY <1>2 DEF CharLen, Slash
<1>4. CharAt(s, 1)
  <2>1. 1 + 1 <= Len(s) + 1 /\ \A i \in 2..1 : FALSE
    BY <1>2
  <2> QED BY <1>3, <2>1 DEF CharAt
<1>5. f[1] = SubSeq(s, 1, 1 + 1 - 1) \o f[1 + 1]
  BY <1>1, <1>2, <1>3, <1>4 DEF Reads
<1>6. SubSeq(s, 1, 1 + 1 - 1) = <<Slash>>
  <2>1. SubSeq(s, 1, 1) = <<s[1]>> \o SubSeq(s, 1 + 1, 1)
    <3>1. 1 \in 1..Len(s) /\ 1 \in 1..Len(s)
      BY <1>2
    <3> QED BY <3>1, SubSeqRecursiveFirst
  <2>2. SubSeq(s, 1 + 1, 1) = <<>>
    BY SubSeqEmpty
  <2>3. <<Slash>> \o <<>> = <<Slash>>
    OBVIOUS
  <2>4. SubSeq(s, 1, 1) = <<Slash>>
    BY <1>2, <2>1, <2>2, <2>3, Zenon
  <2>5. 1 + 1 - 1 = 1
    OBVIOUS
  <2> QED BY <2>4, <2>5, Zenon
<1>7. f[1] \in Seq(Byte)
  BY <1>1, LossyIsText
<1>8. Slash \in Byte
  BY DEF Slash, Byte
<1> DEFINE u == f[1 + 1]
<1> HIDE DEF u
<1>9. f[1] = <<Slash>> \o u
  BY <1>5, <1>6 DEF u
<1> QED BY <1>1, <1>7, <1>9

\* Unescaped bytes are bytes, and a leading slash stays.
LEMMA UnescapedBytes ==
  ASSUME NEW s \in Seq(Byte)
  PROVE  /\ unescape(s) \in Seq(Byte)
         /\ s # <<>> /\ Head(s) = Slash => unescape(s) # <<>> /\ Head(unescape(s)) = Slash
<1> DEFINE n == Len(s)
<1>1. PICK f : Decodes(s, f) /\ unescape(s) = f[1]
  BY Decoding
<1>2. n \in Nat /\ \A j \in 1..n : s[j] \in Byte
  OBVIOUS
<1>3. \A b \in Byte : b \in Int /\ HexValue(b) \in (-1)..15
  <2> SUFFICES ASSUME NEW b \in Byte PROVE b \in Int /\ HexValue(b) \in (-1)..15
    OBVIOUS
  <2>1. b \in Int
    BY DEF Byte
  <2>2. CASE b \in Digits \/ b \in 65..70 \/ b \in 97..102
    BY <2>1, <2>2 DEF HexValue, Digits
  <2>3. CASE ~(b \in Digits \/ b \in 65..70 \/ b \in 97..102)
    BY <2>1, <2>3 DEF HexValue, Digits
  <2> QED BY <2>1, <2>2, <2>3
<1>4. ASSUME NEW i \in 1..n, Escaped(s, i) PROVE Radix16(s[i + 1], s[i + 2]) \in Byte
  <2>1. i + 1 \in 1..n /\ i + 2 \in 1..n
    BY <1>2, <1>4 DEF Escaped
  <2> DEFINE x == HexValue(s[i + 1])
             y == HexValue(s[i + 2])
  <2>2. x \in (-1)..15 /\ y \in (-1)..15
    BY <1>2, <1>3, <2>1
  <2>3. Radix16(s[i + 1], s[i + 2]) # -1
    BY <1>4 DEF Escaped
  <2>4. Radix16(s[i + 1], s[i + 2]) = IF y = -1 THEN -1 ELSE IF s[i + 1] = 43 THEN y
                                       ELSE IF x = -1 THEN -1 ELSE 16 * x + y
    BY DEF Radix16
  <2> HIDE DEF x, y
  <2> QED BY <2>2, <2>3, <2>4 DEF Byte
<1> DEFINE G == {j \in 1..(n + 1) : f[j] \in Seq(Byte)}
<1>5. n + 1 \in G
  <2>1. n + 1 \in 1..(n + 1) /\ n + 1 > n
    BY <1>2
  <2>2. f[n + 1] = <<>>
    BY <1>1, <2>1 DEF Decodes
  <2>3. f[n + 1] \in Seq(Byte)
    BY <2>2
  <2> QED BY <2>1, <2>3
<1>6. ASSUME NEW j \in 1..n, \A i \in 1..(n + 1) : j < i => i \in G PROVE j \in G
  <2>1. j \in 1..(n + 1) /\ ~(j > n)
    BY <1>2
  <2>2. CASE Escaped(s, j)
    <3> DEFINE b == Radix16(s[j + 1], s[j + 2])
    <3>1. f[j] = <<b>> \o f[j + 3]
      BY <1>1, <2>1, <2>2 DEF Decodes
    <3>2. b \in Byte
      BY <1>4, <2>2
    <3>3. j + 3 \in 1..(n + 1) /\ j < j + 3
      BY <1>2, <2>2 DEF Escaped
    <3>4. f[j + 3] \in Seq(Byte)
      BY <1>6, <3>3
    <3>5. PICK u : u = f[j + 3]
      OBVIOUS
    <3> HIDE DEF b
    <3>6. <<b>> \o u \in Seq(Byte)
      BY <3>2, <3>4, <3>5
    <3>7. f[j] \in Seq(Byte)
      BY <3>1, <3>5, <3>6
    <3> QED BY <2>1, <3>7
  <2>3. CASE ~Escaped(s, j)
    <3>1. f[j] = <<s[j]>> \o f[j + 1]
      BY <1>1, <2>1, <2>3 DEF Decodes
    <3>2. s[j] \in Byte /\ j + 1 \in 1..(n + 1) /\ j < j + 1
      BY <1>2
    <3>3. f[j + 1] \in Seq(Byte)
      BY <1>6, <3>2
    <3>4. PICK u : u = f[j + 1]
      OBVIOUS
    <3>5. <<s[j]>> \o u \in Seq(Byte)
      BY <3>2, <3>3, <3>4
    <3>6. f[j] \in Seq(Byte)
      BY <3>1, <3>4, <3>5
    <3> QED BY <2>1, <3>6
  <2> QED BY <2>2, <2>3
<1> HIDE DEF G, n
<1>7. \A j \in 1..(n + 1) : j \in G
  BY <1>2, <1>5, <1>6, DownTo, Zenon
<1>8. f[1] \in Seq(Byte)
  <2>1. 1 \in 1..(n + 1)
    BY <1>2
  <2> QED BY <1>7, <2>1 DEF G
<1>9. ASSUME s # <<>>, Head(s) = Slash PROVE f[1] # <<>> /\ Head(f[1]) = Slash
  <2>1. 1 \in 1..n /\ 1 \in 1..(n + 1) /\ ~(1 > n) /\ s[1] = Slash
    BY <1>2, <1>9 DEF n
  <2>2. ~Escaped(s, 1)
    BY <2>1 DEF Escaped, Slash, Percent
  <2> DEFINE u == f[1 + 1]
  <2>3. f[1] = <<Slash>> \o u
    BY <1>1, <2>1, <2>2 DEF Decodes, n
  <2>4. 1 + 1 \in 1..(n + 1)
    BY <1>2, <2>1
  <2>5. u \in Seq(Byte) /\ Slash \in Byte
    BY <1>7, <2>4 DEF G, Slash, Byte
  <2> HIDE DEF u
  <2> QED BY <2>3, <2>5
<1> QED BY <1>1, <1>8, <1>9

\* A path that is a text comes back from its URI.
LEMMA TextComesBack ==
  ASSUME NEW p \in Seq(Byte), p # <<>>, Head(p) = Slash, IsUtf8(p)
  PROVE  uri_to_path(path_to_uri(p)) = p
<1>1. from_utf8_lossy(p) = p
  BY LossyKeepsText
<1>2. path_to_uri(p) = percent_encode_path(p)
  BY <1>1, DecodeEncode DEF path_to_uri
<1>3. unescape(percent_encode_path(p)) = p
  BY DecodeEncode
<1> QED BY <1>1, <1>2, <1>3 DEF uri_to_path, percent_decode
=============================================================================
