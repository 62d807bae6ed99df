----------------------------- MODULE CliProofs -----------------------------
(***************************************************************************)
(* Proofs about a run of `ita`, for every command line and file system:    *)
(* the roles of the files, and what the threads of `ita check` add up to.  *)
(***************************************************************************)
EXTENDS CliCorrect, LineIndexProofs, FiniteSetTheorems

----------------------------------------------------------------------------
(* Sequences of paths.                                                     *)

IsSeq(s) == s \in Seq(ToSet(s))

\* A sequence over any set is one over its own elements.
LEMMA SeqOfElements ==
  ASSUME NEW S, NEW s \in Seq(S)
  PROVE  IsSeq(s) /\ ToSet(s) \subseteq S
<1>1. Len(s) \in Nat /\ DOMAIN s = 1..Len(s) /\ \A i \in 1..Len(s) : s[i] \in S
  OBVIOUS
<1>2. \A i \in 1..Len(s) : s[i] \in ToSet(s)
  BY <1>1, InSequence
<1>3. s \in [1..Len(s) -> ToSet(s)]
  BY <1>1, <1>2
<1>4. s \in Seq(ToSet(s))
  BY <1>1, <1>3
<1>5. ToSet(s) \subseteq S
  BY <1>1, InSequence
<1> QED BY <1>4, <1>5 DEF IsSeq

\* Keep keeps the elements of the set and adds none.
LEMMA KeepElements ==
  ASSUME NEW S, NEW s \in Seq(S), NEW T
  PROVE  Keep(s, T) \in Seq(S) /\ ToSet(Keep(s, T)) = ToSet(s) \cap T
<1> DEFINE n == Len(s)
           Add(x, i) == IF s[i] \in T THEN Append(x, s[i]) ELSE x
           step == [q \in (1..n) \X Seq(S) |-> Add(q[2], q[1])]
<1>1. n \in Nat /\ DOMAIN s = 1..n /\ \A i \in 1..n : s[i] \in S
  OBVIOUS
<1> HIDE DEF n
<1>2. \A i \in 1..n, x \in Seq(S) : Add(x, i) \in Seq(S)
  BY <1>1
<1>3. step \in [(1..n) \X Seq(S) -> Seq(S)] /\ <<>> \in Seq(S)
  BY <1>2
<1>4. \A i \in 1..n, x \in Seq(S) : step[<<i, x>>] = Add(x, i)
  OBVIOUS
<1> HIDE DEF step
<1>5. PICK f : Recursion(f, Seq(S), n, <<>>, step)
  BY <1>1, <1>3, BoundedRecursion
<1>6. /\ f[0] = <<>>
      /\ \A i \in 0..n : f[i] \in Seq(S)
      /\ \A i \in 1..n : i - 1 \in 0..n /\ f[i] = Add(f[i - 1], i)
  <2>1. \A i \in 1..n : i - 1 \in 0..n
    BY <1>1
  <2>2. \A i \in 0..n : f[i] \in Seq(S)
    BY <1>5 DEF Recursion
  <2>3. \A i \in 1..n : f[i] = step[<<i, f[i - 1]>>]
    BY <1>5 DEF Recursion
  <2> QED BY <1>4, <1>5, <2>1, <2>2, <2>3 DEF Recursion
<1>7. Keep(s, T) = f[n]
  <2> DEFINE Body(g) == [i \in 0..n |-> IF i = 0 THEN <<>>
                                        ELSE IF s[i] \in T THEN Append(g[i - 1], s[i]) ELSE g[i - 1]]
             k == CHOOSE g : g = Body(g)
  <2>1. Keep(s, T) = k[n]
    BY DEF Keep, n
  <2>2. \A i \in 0..n : i = 0 \/ i \in 1..n
    BY <1>1
  <2>3. f \in [0..n -> Seq(S)]
    BY <1>5 DEF Recursion
  <2>4. f = Body(f)
    BY <1>6, <2>2, <2>3
  <2>5. k = Body(k)
    BY <2>4
  <2> HIDE DEF k
  <2>6. \A i \in 0..n : k[i] = IF i = 0 THEN <<>> ELSE Add(k[i - 1], i)
    BY <2>5
  <2> DEFINE G == {i \in 0..n : k[i] = f[i]}
  <2>7. 0 \in G
    BY <1>1, <1>6, <2>6
  <2>8. \A i \in 1..n : i - 1 \in G => i \in G
    <3> SUFFICES ASSUME NEW i \in 1..n, k[i - 1] = f[i - 1] PROVE i \in 0..n /\ k[i] = f[i]
      OBVIOUS
    <3>1. i \in 0..n /\ i # 0
      BY <1>1
    <3>2. k[i] = Add(k[i - 1], i)
      BY <2>6, <3>1
    <3> QED BY <1>6, <3>1, <3>2
  <2> HIDE DEF G
  <2>9. \A i \in 0..n : i \in G
    BY <1>1, <2>7, <2>8, UpTo, Zenon
  <2> QED BY <1>1, <2>1, <2>9 DEF G
<1>8. ToSet(f[n]) = ToSet(s) \cap T
  <2> DEFINE H == {k \in 0..n : \A x : x \in ToSet(f[k]) <=> x \in T /\ \E i \in 1..k : s[i] = x}
  <2>1. 0 \in H
    <3>1. 0 \in 0..n /\ ToSet(f[0]) = {} /\ 1..0 = {}
      BY <1>1, <1>6 DEF ToSet
    <3> QED BY <3>1
  <2>2. ASSUME NEW k \in 1..n, k - 1 \in H PROVE k \in H
    <3>1. \A x : x \in ToSet(f[k - 1]) <=> x \in T /\ \E i \in 1..(k - 1) : s[i] = x
      BY <2>2
    <3>2. k \in 0..n /\ (\A i \in 1..k : i \in 1..(k - 1) \/ i = k) /\ k \in 1..k
          /\ (\A i \in 1..(k - 1) : i \in 1..k)
      BY <1>1
    <3>3. f[k - 1] \in Seq(S) /\ f[k] = Add(f[k - 1], k) /\ s[k] \in S
      BY <1>1, <1>6
    <3>4. ASSUME s[k] \in T, NEW x PROVE x \in ToSet(f[k]) <=> x \in ToSet(f[k - 1]) \/ x = s[k]
      <4> DEFINE a == f[k - 1]
      <4>1. a \in Seq(S) /\ f[k] = Append(a, s[k])
        BY <3>3, <3>4
      <4> HIDE DEF a
      <4> DEFINE w == Append(a, s[k])
      <4>2. /\ \A i \in DOMAIN w : (i \in DOMAIN a /\ w[i] = a[i]) \/ w[i] = s[k]
            /\ \A i \in DOMAIN a : i \in DOMAIN w /\ w[i] = a[i]
            /\ Len(a) + 1 \in DOMAIN w /\ w[Len(a) + 1] = s[k]
        BY <4>1
      <4> HIDE DEF w
      <4>3. x \in ToSet(w) <=> x \in ToSet(a) \/ x = s[k]
        BY <4>2, InSequence
      <4> QED BY <4>1, <4>3 DEF w, a
    <3>5. \A x : x \in ToSet(f[k]) <=> x \in ToSet(f[k - 1]) \/ (x = s[k] /\ s[k] \in T)
      BY <3>3, <3>4
    <3>6. \A x : x \in ToSet(f[k]) <=> x \in T /\ \E i \in 1..k : s[i] = x
      BY <3>1, <3>2, <3>5
    <3> QED BY <3>2, <3>6
  <2> HIDE DEF H
  <2>3. \A i \in 0..n : i \in H
    BY <1>1, <2>1, <2>2, UpTo, Zenon
  <2>4. n \in H
    <3>1. n \in 0..n
      BY <1>1
    <3> QED BY <2>3, <3>1
  <2>5. \A x : x \in ToSet(f[n]) <=> x \in T /\ \E i \in 1..n : s[i] = x
    BY <2>4, Zenon DEF H
  <2> QED BY <1>1, <2>5, InSequence
<1>9. f[n] \in Seq(S)
  BY <1>1, <1>6
<1> QED BY <1>7, <1>8, <1>9

----------------------------------------------------------------------------
(* How the files are split.                                                *)

Files == Len(to_check)
Size == chunk_size(Files)
Chunks == CeilDiv(Files, Size)
\* How many files the first k chunks have.
Upto(k) == IF k * Size < Files THEN k * Size ELSE Files

\* What is left when a number is divided, rounding up.
LEMMA RoundedUp ==
  ASSUME NEW n \in Nat, NEW d \in Nat \ {0}
  PROVE  /\ CeilDiv(n, d) \in Nat /\ n <= CeilDiv(n, d) * d
         /\ \A k \in 1..CeilDiv(n, d) : (k - 1) * d \in Nat /\ (k - 1) * d < n
<1> DEFINE q == CeilDiv(n, d)
<1>1. q \in Nat /\ d * q <= n + d - 1 /\ n + d - 1 < d * q + d
  BY DEF CeilDiv
<1> HIDE DEF q
<1>2. d * q = q * d /\ q * d \in Nat
  BY <1>1
<1>3. n <= q * d /\ q * d - d < n
  BY <1>1, <1>2
<1>4. ASSUME NEW k \in 1..q PROVE (k - 1) * d \in Nat /\ (k - 1) * d < n
  <2>1. k - 1 \in Nat /\ q - k \in Nat
    BY <1>1
  <2>2. (k - 1) * d \in Nat /\ (q - k) * d \in Nat
    BY <2>1
  <2>3. (k - 1) * d = q * d - d - (q - k) * d
    BY <1>1, <2>1
  <2> QED BY <1>2, <1>3, <2>2, <2>3
<1> QED BY <1>1, <1>3, <1>4 DEF q

\* Every thread has at least one file to check.
LEMMA SizeIsPositive ==
  ASSUME run \in Runs, IsSeq(to_check)
  PROVE  Files \in Nat /\ Size \in Nat \ {0}
<1>1. Files \in Nat
  BY DEF Files, IsSeq
<1>2. check_worker_count(Files) \in Nat \ {0}
  <2>1. args.jobs \in Nat \ {0}
    BY RunsAssumption DEF args
  <2> QED BY <1>1, <2>1 DEF check_worker_count
<1>3. CeilDiv(Files, check_worker_count(Files)) \in Nat
  BY <1>1, <1>2, RoundedUp
<1> QED BY <1>1, <1>3 DEF Size, chunk_size

\* The chunks follow one another without a gap and end with the last file.
LEMMA ChunksCover ==
  ASSUME run \in Runs, IsSeq(to_check)
  PROVE  /\ Chunks \in Nat /\ Upto(0) = 0 /\ Upto(Chunks) = Files
         /\ \A k \in 0..Chunks : Upto(k) \in 0..Files
         /\ \A k \in 1..Chunks :
              /\ k - 1 \in 0..Chunks /\ Upto(k - 1) < Upto(k)
              /\ Len(Chunk(k)) = Upto(k) - Upto(k - 1)
              /\ DOMAIN Chunk(k) = 1..Len(Chunk(k))
              /\ \A i \in 1..Len(Chunk(k)) : /\ Upto(k - 1) + i \in 1..Files
                                             /\ Chunk(k)[i] = to_check[Upto(k - 1) + i]
<1>1. Files \in Nat /\ Size \in Nat \ {0}
  BY SizeIsPositive
<1>2. /\ Chunks \in Nat /\ Files <= Chunks * Size
      /\ \A k \in 1..Chunks : (k - 1) * Size \in Nat /\ (k - 1) * Size < Files
  BY <1>1, RoundedUp DEF Chunks
<1>3. Upto(0) = 0 /\ Upto(Chunks) = Files
  <2>1. 0 * Size = 0 /\ Chunks * Size \in Int
    BY <1>1, <1>2
  <2> QED BY <1>1, <1>2, <2>1 DEF Upto
<1>4. ASSUME NEW k \in 0..Chunks PROVE Upto(k) \in 0..Files
  <2>1. k * Size \in Nat
    BY <1>1, <1>2
  <2> QED BY <1>1, <2>1 DEF Upto
<1>5. ASSUME NEW k \in 1..Chunks
      PROVE  /\ k - 1 \in 0..Chunks /\ Upto(k - 1) < Upto(k)
             /\ Len(Chunk(k)) = Upto(k) - Upto(k - 1)
             /\ DOMAIN Chunk(k) = 1..Len(Chunk(k))
             /\ \A i \in 1..Len(Chunk(k)) : /\ Upto(k - 1) + i \in 1..Files
                                            /\ Chunk(k)[i] = to_check[Upto(k - 1) + i]
  <2> DEFINE lo == (k - 1) * Size
             hi == Upto(k)
  <2>1. lo \in Nat /\ lo < Files /\ Upto(k - 1) = lo
    BY <1>2 DEF Upto
  <2>2. k * Size = lo + Size
    BY <1>1, <1>2
  <2> HIDE DEF lo
  <2>3. hi \in 0..Files /\ lo < hi
    BY <1>1, <2>1, <2>2 DEF Upto
  <2>4. Chunk(k) = SubSeq(to_check, lo + 1, hi)
    BY DEF Chunk, Upto, Size, Files, lo
  <2> HIDE DEF hi
  <2>5. to_check \in Seq(ToSet(to_check)) /\ Len(to_check) = Files
    BY DEF IsSeq, Files
  <2>6. /\ Len(Chunk(k)) = hi - lo /\ DOMAIN Chunk(k) = 1..(hi - lo)
        /\ \A i \in 1..(hi - lo) : Chunk(k)[i] = to_check[lo + i]
    BY <1>1, <2>1, <2>3, <2>4, <2>5
  <2>7. \A i \in 1..(hi - lo) : lo + i \in 1..Files
    BY <1>1, <2>1, <2>3
  <2>8. k - 1 \in 0..Chunks
    BY <1>2
  <2> QED BY <2>1, <2>3, <2>6, <2>7, <2>8 DEF hi
<1> QED BY <1>2, <1>3, <1>4, <1>5

\* The command line, and what is in a file, do not change.
LEMMA RunStays ==
  ASSUME run' = run
  PROVE  /\ args' = args /\ t' = t
         /\ \A p : /\ Code(p)' = Code(p) /\ Panics(p)' = Panics(p)
                   /\ check_and_print(p)' = check_and_print(p)
<1>1. args' = args /\ t' = t /\ \A p : Code(p)' = Code(p)
  BY DEF Code, t, args
<1>2. ASSUME NEW p PROVE Panics(p)' = Panics(p) /\ check_and_print(p)' = check_and_print(p)
  <2>1. Shown(p)' = Shown(p)
    BY <1>1 DEF Shown
  <2>2. \A d : At(p, d)' = At(p, d)
    BY <1>1 DEF At
  <2>3. Outcomes(p)' = Outcomes(p)
    BY <1>1 DEF Outcomes
  <2>4. render_dark_records(p)' = render_dark_records(p)
    BY <1>1, <2>2 DEF render_dark_records
  <2>5. \A d : Entry(p, d)' = Entry(p, d)
    BY <2>2 DEF Entry
  <2>6. check_and_print(p)' = check_and_print(p)
    BY <1>1, <2>1, <2>3, <2>4, <2>5 DEF check_and_print
  <2>7. \A text, d : excerpt_panics(text, d)' = excerpt_panics(text, d)
    BY <1>1 DEF excerpt_panics
  <2>8. Panics(p)' = Panics(p)
    BY <1>1, <2>1, <2>7 DEF Panics
  <2> QED BY <2>6, <2>8
<1> QED BY <1>1, <1>2

----------------------------------------------------------------------------
(* The threads.                                                            *)

SomePanics == run.index_panics \/ \E p \in ToSet(to_check) : Panics(p)

\* Thread k has what one thread would have collected from the first m files
\* of its chunk, all of them once it has finished; the first j threads are
\* joined, and the main thread has what one thread would have collected by then.
Collected(k, m) == results[k] = SubSeq(Sequential, Upto(k - 1) + 1, Upto(k - 1) + m)
PoolInv ==
  /\ worker \in [1..Chunks -> {"running", "finished", "panicked", "joined"}]
  /\ DOMAIN results = 1..Chunks
  /\ \A k \in 1..Chunks :
       /\ \E m \in 0..Len(Chunk(k)) : /\ Collected(k, m)
                                      /\ worker[k] \in {"finished", "joined"} => m = Len(Chunk(k))
       /\ worker[k] = "panicked" => SomePanics
  /\ \E j \in 0..Chunks : /\ \A k \in 1..Chunks : worker[k] = "joined" <=> k <= j
                          /\ outputs = SubSeq(Sequential, 1, Upto(j))

\* The thread that computes the index still has a file to check.
IndexInv == index \in DOMAIN worker => Unchecked(index)

CheckInv ==
  /\ run \in Runs /\ pc \in {"main", "load", "spawn", "join", "unwind", "exit"}
  /\ IsSeq(found.declarations_only) /\ IsSeq(sources) /\ IsSeq(to_check) /\ InPathOrder
  /\ pc \in {"main", "load", "spawn"} => worker = <<>> /\ outputs = <<>> /\ index = Nobody
  /\ pc \in {"join", "unwind"} => PoolInv /\ IndexInv
  /\ pc = "unwind" => SomePanics
  /\ pc # "exit" => stdout = <<>>

\* One thread collects one result per file, in the order of the files.
LEMMA SequentialIsSeq ==
  ASSUME IsSeq(to_check)
  PROVE  /\ Sequential \in Seq(ToSet(Sequential)) /\ Len(Sequential) = Files
         /\ DOMAIN to_check = 1..Files /\ Files \in Nat
         /\ \A i \in 1..Files : Sequential[i] = check_and_print(to_check[i])
<1>1. Files \in Nat /\ DOMAIN to_check = 1..Files
  BY DEF IsSeq, Files
<1>2. Sequential = [i \in 1..Files |-> check_and_print(to_check[i])]
  BY <1>1 DEF Sequential
<1>3. DOMAIN Sequential = 1..Files /\ \A i \in 1..Files : Sequential[i] = check_and_print(to_check[i])
  BY <1>2
<1>4. \A i \in 1..Files : Sequential[i] \in ToSet(Sequential)
  BY <1>3, InSequence
<1>5. Sequential \in [1..Files -> ToSet(Sequential)]
  BY <1>2, <1>3, <1>4
<1> HIDE DEF Sequential
<1> QED BY <1>1, <1>3, <1>5

\* While the command line and the files to check stay, so does how they are
\* split and what is in them.
LEMMA SplitStays ==
  ASSUME run' = run, to_check' = to_check
  PROVE  /\ Files' = Files /\ Size' = Size /\ Chunks' = Chunks
         /\ \A k : Upto(k)' = Upto(k) /\ Chunk(k)' = Chunk(k)
         /\ Sequential' = Sequential /\ SomePanics' = SomePanics
<1>1. Files' = Files /\ args' = args
  BY DEF Files, args
<1>2. Size' = Size /\ Chunks' = Chunks /\ \A k : Upto(k)' = Upto(k)
  BY <1>1 DEF Size, Chunks, chunk_size, check_worker_count, Upto
<1>3. \A k : Chunk(k)' = Chunk(k)
  BY <1>1 DEF Chunk, chunk_size, check_worker_count
<1>4. Sequential' = Sequential /\ SomePanics' = SomePanics
  BY RunStays DEF Sequential, SomePanics
<1> QED BY <1>1, <1>2, <1>3, <1>4

\* What PoolInv says is about these variables only.
LEMMA PoolStays ==
  ASSUME PoolInv, UNCHANGED <<run, to_check, worker, results, outputs>>
  PROVE  PoolInv'
<1>1. /\ Chunks' = Chunks /\ Sequential' = Sequential /\ SomePanics' = SomePanics
      /\ \A k : Upto(k)' = Upto(k) /\ Chunk(k)' = Chunk(k)
  BY SplitStays
<1>2. \A k, m : Collected(k, m)' <=> Collected(k, m)
  BY <1>1 DEF Collected
<1> QED BY <1>1, <1>2 DEF PoolInv

\* Thread k takes the next file of its chunk.
LEMMA NextFile ==
  ASSUME run \in Runs, IsSeq(to_check), NEW k \in 1..Chunks, NEW m \in 0..Len(Chunk(k)), Collected(k, m)
  PROVE  /\ Len(results[k]) = m
         /\ m < Len(Chunk(k)) =>
              /\ Chunk(k)[m + 1] \in ToSet(to_check)
              /\ Append(results[k], check_and_print(Chunk(k)[m + 1]))
                   = SubSeq(Sequential, Upto(k - 1) + 1, Upto(k - 1) + m + 1)
<1> DEFINE lo == Upto(k - 1)
           S == ToSet(Sequential)
<1>1. /\ Upto(k) \in 0..Files /\ lo \in 0..Files /\ lo < Upto(k)
      /\ Len(Chunk(k)) = Upto(k) - lo
      /\ \A i \in 1..Len(Chunk(k)) : lo + i \in 1..Files /\ Chunk(k)[i] = to_check[lo + i]
  BY ChunksCover
<1>2. /\ Sequential \in Seq(S) /\ Len(Sequential) = Files /\ Files \in Nat
      /\ DOMAIN to_check = 1..Files
      /\ \A i \in 1..Files : Sequential[i] = check_and_print(to_check[i])
  BY SequentialIsSeq
<1>3. results[k] = SubSeq(Sequential, lo + 1, lo + m)
  BY DEF Collected
<1> HIDE DEF lo, S
<1>4. m \in Nat /\ lo \in Nat /\ lo + m <= Files
  BY <1>1, <1>2
<1>5. Len(results[k]) = m
  BY <1>2, <1>3, <1>4
<1>6. ASSUME m < Len(Chunk(k))
      PROVE  /\ Chunk(k)[m + 1] \in ToSet(to_check)
             /\ Append(results[k], check_and_print(Chunk(k)[m + 1])) = SubSeq(Sequential, lo + 1, lo + m + 1)
  <2>1. m + 1 \in 1..Len(Chunk(k)) /\ lo + (m + 1) = lo + m + 1
    BY <1>1, <1>2, <1>4, <1>6
  <2>2. lo + m + 1 \in 1..Files /\ Chunk(k)[m + 1] = to_check[lo + m + 1]
    BY <1>1, <2>1
  <2>3. Chunk(k)[m + 1] \in ToSet(to_check)
    BY <1>2, <2>2, InSequence
  <2>4. Append(SubSeq(Sequential, lo + 1, lo + m), Sequential[lo + m + 1]) = SubSeq(Sequential, lo + 1, lo + m + 1)
    BY <1>2, <1>4, <2>2
  <2> QED BY <1>2, <1>3, <2>2, <2>3, <2>4
<1> QED BY <1>5, <1>6 DEF lo

\* Joining the next thread.
LEMMA NextChunk ==
  ASSUME run \in Runs, IsSeq(to_check), NEW k \in 1..Chunks, Collected(k, Len(Chunk(k)))
  PROVE  SubSeq(Sequential, 1, Upto(k - 1)) \o results[k] = SubSeq(Sequential, 1, Upto(k))
<1> DEFINE lo == Upto(k - 1)
           hi == Upto(k)
           S == ToSet(Sequential)
<1>1. hi \in 0..Files /\ lo \in 0..Files /\ lo < hi /\ Len(Chunk(k)) = hi - lo
  BY ChunksCover
<1>2. Sequential \in Seq(S) /\ Len(Sequential) = Files /\ Files \in Nat
  BY SequentialIsSeq
<1>3. results[k] = SubSeq(Sequential, lo + 1, lo + (hi - lo))
  BY <1>1 DEF Collected
<1> HIDE DEF lo, hi, S
<1>4. lo + (hi - lo) = hi
  BY <1>1, <1>2
<1>5. 1 \in 1..(Files + 1) /\ lo \in (1 - 1)..Files /\ hi \in lo..Files
  BY <1>1, <1>2
<1>6. SubSeq(Sequential, 1, lo) \o SubSeq(Sequential, lo + 1, hi) = SubSeq(Sequential, 1, hi)
  BY <1>2, <1>5, ConcatAdjacentSubSeq
<1> QED BY <1>3, <1>4, <1>6 DEF lo, hi

\* What a thread's step leaves alone.
LEMMA OtherThreads ==
  ASSUME PoolInv, run' = run, to_check' = to_check
  PROVE  /\ Chunks' = Chunks /\ Sequential' = Sequential /\ SomePanics' = SomePanics
         /\ \A i : Upto(i)' = Upto(i) /\ Chunk(i)' = Chunk(i)
         /\ \A i, m : results'[i] = results[i] => (Collected(i, m)' <=> Collected(i, m))
BY SplitStays DEF Collected

\* A check adds the next result of its chunk, or panics over a file that makes
\* any thread panic (check_and_print).
LEMMA CheckFilePool ==
  ASSUME run \in Runs, IsSeq(to_check), PoolInv, NEW k \in 1..Chunks, CheckFile(k)
  PROVE  PoolInv'
<1> DEFINE Done(w, i, m) == w[i] \in {"finished", "joined"} => m = Len(Chunk(i))
<1>1. run' = run /\ to_check' = to_check /\ outputs' = outputs
  BY DEF CheckFile, Loaded
<1>2. /\ Chunks' = Chunks /\ Sequential' = Sequential /\ SomePanics' = SomePanics
      /\ \A i : Upto(i)' = Upto(i) /\ Chunk(i)' = Chunk(i)
      /\ \A i, m : results'[i] = results[i] => (Collected(i, m)' <=> Collected(i, m))
  BY <1>1, OtherThreads
<1>3. PICK m \in 0..Len(Chunk(k)) : Collected(k, m)
  BY DEF PoolInv
<1>4. /\ worker[k] = "running" /\ Len(results[k]) = m /\ m < Len(Chunk(k))
      /\ Chunk(k)[m + 1] \in ToSet(to_check)
      /\ Append(results[k], check_and_print(Chunk(k)[m + 1])) = SubSeq(Sequential, Upto(k - 1) + 1, Upto(k - 1) + m + 1)
  BY <1>3, NextFile DEF CheckFile, Unchecked
<1>5. CASE Panics(Chunk(k)[m + 1])
  <2>1. worker' = [worker EXCEPT ![k] = "panicked"] /\ results' = results
    BY <1>4, <1>5 DEF CheckFile
  <2>2. SomePanics
    BY <1>4, <1>5 DEF SomePanics
  <2>3. worker' \in [1..Chunks -> {"running", "finished", "panicked", "joined"}] /\ DOMAIN results' = 1..Chunks
    BY <2>1 DEF PoolInv
  <2>4. \A i \in 1..Chunks : worker'[i] \in {"finished", "joined"} <=> worker[i] \in {"finished", "joined"}
    BY <1>4, <2>1 DEF PoolInv
  <2>5. \A i \in 1..Chunks : \E l \in 0..Len(Chunk(i)) : Collected(i, l) /\ Done(worker', i, l)
    BY <2>4 DEF PoolInv
  <2>6. \A i \in 1..Chunks : worker'[i] = "joined" <=> worker[i] = "joined"
    BY <1>4, <2>1 DEF PoolInv
  <2>7. \E j \in 0..Chunks : /\ \A i \in 1..Chunks : worker'[i] = "joined" <=> i <= j
                             /\ outputs' = SubSeq(Sequential, 1, Upto(j))
    BY <1>1, <2>6 DEF PoolInv
  <2> QED BY <1>2, <2>1, <2>2, <2>3, <2>5, <2>7 DEF PoolInv
<1>6. CASE ~Panics(Chunk(k)[m + 1])
  <2>1. worker' = worker /\ results' = [results EXCEPT ![k] = Append(@, check_and_print(Chunk(k)[m + 1]))]
    BY <1>4, <1>6 DEF CheckFile
  <2>2. DOMAIN results' = 1..Chunks /\ results'[k] = SubSeq(Sequential, Upto(k - 1) + 1, Upto(k - 1) + m + 1)
        /\ \A i \in 1..Chunks : i # k => results'[i] = results[i]
    BY <1>4, <2>1 DEF PoolInv
  <2>3. m + 1 \in 0..Len(Chunk(k)) /\ Upto(k - 1) + (m + 1) = Upto(k - 1) + m + 1
    <3> DEFINE u == Upto(k - 1)
               l == Len(Chunk(k))
    <3>1. u \in Int /\ l \in Nat /\ m \in 0..l /\ m < l
      BY <1>4, ChunksCover, SizeIsPositive
    <3> HIDE DEF u, l
    <3>2. m + 1 \in 0..l /\ u + (m + 1) = u + m + 1
      BY <3>1
    <3> QED BY <3>2 DEF u, l
  <2>4. Collected(k, m + 1)'
    BY <1>2, <2>2, <2>3 DEF Collected
  <2>5. \A i \in 1..Chunks : \E l \in 0..Len(Chunk(i)) : Collected(i, l)' /\ Done(worker, i, l)
    BY <1>2, <1>4, <2>2, <2>3, <2>4 DEF PoolInv
  <2> QED BY <1>1, <1>2, <2>1, <2>2, <2>5 DEF PoolInv
<1> QED BY <1>5, <1>6

\* A thread that ends has the results of its whole chunk.
LEMMA EndWorkerPool ==
  ASSUME run \in Runs, IsSeq(to_check), PoolInv, NEW k \in 1..Chunks, EndWorker(k)
  PROVE  PoolInv'
<1> DEFINE Done(w, i, m) == w[i] \in {"finished", "joined"} => m = Len(Chunk(i))
<1>1. /\ run' = run /\ to_check' = to_check /\ outputs' = outputs /\ results' = results
      /\ worker[k] = "running" /\ worker' = [worker EXCEPT ![k] = "finished"] /\ Len(results[k]) = Len(Chunk(k))
  BY DEF EndWorker, Loaded
<1>2. /\ Chunks' = Chunks /\ Sequential' = Sequential /\ SomePanics' = SomePanics
      /\ \A i : Upto(i)' = Upto(i) /\ Chunk(i)' = Chunk(i)
      /\ \A i, m : Collected(i, m)' <=> Collected(i, m)
  BY <1>1, OtherThreads
<1>3. worker' \in [1..Chunks -> {"running", "finished", "panicked", "joined"}]
  BY <1>1 DEF PoolInv
<1>4. \A i \in 1..Chunks : i # k => worker'[i] = worker[i]
  BY <1>1 DEF PoolInv
<1>5. PICK m \in 0..Len(Chunk(k)) : Collected(k, m)
  BY DEF PoolInv
<1>6. m = Len(Chunk(k))
  BY <1>1, <1>5, NextFile
<1>7. \A i \in 1..Chunks : \E l \in 0..Len(Chunk(i)) : Collected(i, l) /\ Done(worker', i, l)
  BY <1>4, <1>5, <1>6 DEF PoolInv
<1>8. \A i \in 1..Chunks : (worker'[i] = "joined" <=> worker[i] = "joined") /\ (worker'[i] = "panicked" <=> worker[i] = "panicked")
  BY <1>1 DEF PoolInv
<1>9. \E j \in 0..Chunks : /\ \A i \in 1..Chunks : worker'[i] = "joined" <=> i <= j
                           /\ outputs' = SubSeq(Sequential, 1, Upto(j))
  BY <1>1, <1>8 DEF PoolInv
<1> QED BY <1>1, <1>2, <1>3, <1>7, <1>8, <1>9 DEF PoolInv

\* A join appends the next chunk's results, since all chunks before it are
\* joined; or it meets a panic (run_check).
LEMMA JoinPool ==
  ASSUME run \in Runs, IsSeq(to_check), PoolInv, NEW k \in 1..Chunks, Join(k)
  PROVE  PoolInv' /\ (pc' = "unwind" => SomePanics') /\ pc' \in {"join", "unwind"}
<1> DEFINE Done(w, i, m) == w[i] \in {"finished", "joined"} => m = Len(Chunk(i))
<1>1. /\ run' = run /\ to_check' = to_check /\ results' = results /\ pc = "join"
      /\ worker[k] \in {"finished", "panicked"} /\ \A i \in 1..(k - 1) : worker[i] = "joined"
  BY DEF Join, Loaded
<1>2. /\ Chunks' = Chunks /\ Sequential' = Sequential /\ SomePanics' = SomePanics
      /\ \A i : Upto(i)' = Upto(i) /\ Chunk(i)' = Chunk(i)
      /\ \A i, m : Collected(i, m)' <=> Collected(i, m)
  BY <1>1, OtherThreads
<1>3. CASE worker[k] = "panicked"
  <2>1. worker' = worker /\ outputs' = outputs /\ pc' = "unwind"
    BY <1>3 DEF Join
  <2>2. SomePanics
    BY <1>3 DEF PoolInv
  <2> QED BY <1>1, <1>2, <2>1, <2>2, PoolStays
<1>4. CASE worker[k] = "finished"
  <2>1. outputs' = outputs \o results[k] /\ worker' = [worker EXCEPT ![k] = "joined"] /\ pc' = pc
    BY <1>4 DEF Join
  <2>2. PICK j \in 0..Chunks : /\ \A i \in 1..Chunks : worker[i] = "joined" <=> i <= j
                               /\ outputs = SubSeq(Sequential, 1, Upto(j))
    BY DEF PoolInv
  <2>3. Chunks \in Nat
    BY ChunksCover
  <2>4. j = k - 1
    <3>1. ~(k <= j)
      BY <1>4, <2>2
    <3>2. k = 1 \/ (k - 1 \in 1..Chunks /\ k - 1 \in 1..(k - 1))
      BY <2>3
    <3>3. k = 1 \/ k - 1 <= j
      BY <1>1, <2>2, <3>2
    <3> QED BY <2>3, <3>1, <3>3
  <2>5. Collected(k, Len(Chunk(k)))
    BY <1>4 DEF PoolInv
  <2>6. outputs' = SubSeq(Sequential, 1, Upto(k))
    BY <2>1, <2>2, <2>4, <2>5, NextChunk
  <2>7. \A i \in 1..Chunks : i <= k <=> i <= k - 1 \/ i = k
    BY <2>3
  <2>8. \A i \in 1..Chunks : worker'[i] = "joined" <=> i <= k
    BY <1>4, <2>1, <2>2, <2>4, <2>7 DEF PoolInv
  <2>9. \A i \in 1..Chunks : (worker'[i] \in {"finished", "joined"} <=> worker[i] \in {"finished", "joined"})
                             /\ (worker'[i] = "panicked" <=> worker[i] = "panicked")
    BY <1>4, <2>1 DEF PoolInv
  <2>10. \A i \in 1..Chunks : \E l \in 0..Len(Chunk(i)) : Collected(i, l) /\ Done(worker', i, l)
    BY <2>9 DEF PoolInv
  <2>11. worker' \in [1..Chunks -> {"running", "finished", "panicked", "joined"}] /\ k \in 0..Chunks
    BY <2>1, <2>3 DEF PoolInv
  <2> QED BY <1>1, <1>2, <2>1, <2>6, <2>8, <2>9, <2>10, <2>11 DEF PoolInv
<1> QED BY <1>1, <1>3, <1>4

\* A panic of the index ends the thread that computes it and threads that wait
\* for it; none of them had finished (run_check).
LEMMA FinishIndexPool ==
  ASSUME run \in Runs, IsSeq(to_check), PoolInv, IndexInv, NEW k \in 1..Chunks, FinishIndex(k)
  PROVE  PoolInv'
<1> DEFINE Done(w, i, m) == w[i] \in {"finished", "joined"} => m = Len(Chunk(i))
<1>1. run' = run /\ to_check' = to_check /\ outputs' = outputs /\ results' = results
  BY DEF FinishIndex, Loaded
<1>2. CASE ~run.index_panics
  <2>1. worker' = worker
    BY <1>2 DEF FinishIndex
  <2> QED BY <1>1, <2>1, PoolStays
<1>3. CASE run.index_panics
  <2>1. PICK waiting \in SUBSET {i \in DOMAIN worker : Unchecked(i)} :
          worker' = [i \in DOMAIN worker |-> IF i \in waiting \cup {k} THEN "panicked" ELSE worker[i]]
    BY <1>3 DEF FinishIndex
  <2>2. DOMAIN worker = 1..Chunks /\ \A i \in 1..Chunks : worker[i] \in {"running", "finished", "panicked", "joined"}
    BY DEF PoolInv
  <2>3. worker[k] = "running" /\ \A i \in waiting : worker[i] = "running"
    BY <2>2 DEF FinishIndex, IndexInv, Unchecked
  <2>4. /\ worker' \in [1..Chunks -> {"running", "finished", "panicked", "joined"}]
        /\ \A i \in 1..Chunks : worker'[i] = worker[i] \/ (worker[i] = "running" /\ worker'[i] = "panicked")
    BY <2>1, <2>2, <2>3
  <2>5. \A i \in 1..Chunks : /\ worker'[i] \in {"finished", "joined"} <=> worker[i] \in {"finished", "joined"}
                             /\ worker'[i] = "joined" <=> worker[i] = "joined"
    BY <2>4
  <2>6. /\ Chunks' = Chunks /\ Sequential' = Sequential /\ SomePanics' = SomePanics
        /\ \A i : Upto(i)' = Upto(i) /\ Chunk(i)' = Chunk(i)
        /\ \A i, m : Collected(i, m)' <=> Collected(i, m)
    BY <1>1, OtherThreads
  <2>7. \A i \in 1..Chunks : \E l \in 0..Len(Chunk(i)) : Collected(i, l) /\ Done(worker', i, l)
    BY <2>5 DEF PoolInv
  <2>8. \E j \in 0..Chunks : /\ \A i \in 1..Chunks : worker'[i] = "joined" <=> i <= j
                             /\ outputs' = SubSeq(Sequential, 1, Upto(j))
    BY <1>1, <2>5 DEF PoolInv
  <2>9. SomePanics
    BY <1>3 DEF SomePanics
  <2>10. DOMAIN results' = 1..Chunks
    BY <1>1 DEF PoolInv
  <2> QED BY <2>4, <2>6, <2>7, <2>8, <2>9, <2>10 DEF PoolInv
<1> QED BY <1>2, <1>3

\* The thread that computes the index neither ends nor is joined meanwhile.
LEMMA IndexNext ==
  ASSUME PoolInv, IndexInv, run' = run, to_check' = to_check, NEW k \in 1..Chunks,
         Join(k) \/ Worker(k)
  PROVE  IndexInv'
<1>1. Chunks' = Chunks /\ \A i : Chunk(i)' = Chunk(i)
  BY SplitStays
<1>2. DOMAIN worker = 1..Chunks /\ DOMAIN results = 1..Chunks
  BY DEF PoolInv
<1>4. Nobody \notin 1..Chunks /\ Ready \notin 1..Chunks
  BY DEF Nobody, Ready
<1>5. ASSUME DOMAIN worker' = DOMAIN worker, index' = index,
             index \in DOMAIN worker => worker'[index] = worker[index] /\ results'[index] = results[index]
      PROVE  IndexInv'
  BY <1>1, <1>5 DEF IndexInv, Unchecked
<1>6. CASE Join(k)
  <2>1. /\ worker[k] \in {"finished", "panicked"} /\ index' = index /\ results' = results
        /\ worker' = worker \/ worker' = [worker EXCEPT ![k] = "joined"]
    BY <1>6 DEF Join
  <2>2. index \in DOMAIN worker => index # k
    BY <2>1 DEF IndexInv, Unchecked
  <2>3. DOMAIN worker' = DOMAIN worker /\ \A i \in DOMAIN worker : i # k => worker'[i] = worker[i]
    BY <2>1
  <2> QED BY <1>5, <2>1, <2>2, <2>3
<1>7. CASE EndWorker(k)
  <2>1. /\ Len(results[k]) = Len(Chunk(k)) /\ index' = index /\ results' = results
        /\ worker' = [worker EXCEPT ![k] = "finished"]
    BY <1>7 DEF EndWorker
  <2>2. index \in DOMAIN worker => index # k
    <3> SUFFICES ASSUME index = k PROVE FALSE
      BY <1>2
    <3>1. Len(results[k]) < Len(Chunk(k))
      BY <1>2 DEF IndexInv, Unchecked
    <3>2. Len(Chunk(k)) < Len(Chunk(k))
      BY <2>1, <3>1
    <3>3. Len(Chunk(k)) \in Nat
      BY DEF PoolInv
    <3> QED BY <3>2, <3>3
  <2>3. DOMAIN worker' = DOMAIN worker /\ \A i \in DOMAIN worker : i # k => worker'[i] = worker[i]
    BY <2>1
  <2> QED BY <1>5, <2>1, <2>2, <2>3
<1>8. CASE ClaimIndex(k)
  <2>1. Unchecked(k) /\ index' = k /\ worker' = worker /\ results' = results
    BY <1>8 DEF ClaimIndex
  <2>2. Unchecked(k)'
    BY <1>1, <2>1 DEF Unchecked
  <2> QED BY <2>1, <2>2 DEF IndexInv
<1>9. CASE FinishIndex(k) \/ CheckFile(k)
  <2>1. (index' = Nobody \/ index' = Ready) /\ DOMAIN worker' = 1..Chunks
    BY <1>2, <1>9 DEF FinishIndex, CheckFile
  <2> QED BY <1>4, <2>1 DEF IndexInv
<1> QED BY <1>6, <1>7, <1>8, <1>9 DEF Worker

----------------------------------------------------------------------------
(* Loading.                                                                *)

\* A directory has finitely many files below it.
LEMMA WalkIsFinite ==
  ASSUME run \in Runs, NEW root
  PROVE  IsFiniteSet(Walk(t, root))
<1> DEFINE F == {g \in t.files : Last(g) \in RbNames /\ IsPrefix(canonicalize(t, root), g)}
           named == [f \in F |-> root \o SubSeq(f, Len(canonicalize(t, root)) + 1, Len(f))]
<1>1. IsFiniteSet(F)
  <2>1. IsFiniteSet(t.files) /\ F \in SUBSET t.files
    BY RunsAssumption DEF t
  <2> HIDE DEF F
  <2> QED BY <2>1, FS_Subset
<1>2. Walk(t, root) = {named[f] : f \in F}
  BY DEF Walk
<1> HIDE DEF F, named
<1>3. [f \in F |-> named[f]] \in Surjection(F, Walk(t, root))
  BY <1>2 DEF Surjection
<1> QED BY <1>1, <1>3, FS_Surjection

\* A root brings in finitely many files, so that their orders are sequences.
LEMMA WalkedIsFinite ==
  ASSUME run \in Runs, NEW i
  PROVE  IsFiniteSet(Walked(i).out)
<1> DEFINE root == args.roots[i]
<1>1. IsFiniteSet(Walk(t, root))
  BY WalkIsFinite
<1>2. IsFiniteSet({root}) /\ IsFiniteSet({})
  BY FS_Singleton, FS_EmptySet
<1>3. Walked(i).out \in SUBSET Walk(t, root) \/ Walked(i).out \in {{root}, {}}
  BY DEF Walked, discover_rb_files
<1> HIDE DEF root
<1> QED BY <1>1, <1>2, <1>3, FS_Subset

\* An order of a finite set is a sequence of its elements.
LEMMA OrdersAreSeqs ==
  ASSUME NEW S, IsFiniteSet(S), NEW q \in Orders(S)
  PROVE  q \in Seq(S)
<1>1. Cardinality(S) \in Nat
  BY FS_CardinalityType
<1>2. q \in [1..Cardinality(S) -> S]
  BY DEF Orders
<1> QED BY <1>1, <1>2

\* The schemas found are a sequence of paths, and no find is left out.
LEMMA SchemasAreSeq ==
  ASSUME NEW tree, NEW R, NEW roots \in Seq(R)
  PROVE  /\ IsSeq(Schemas(tree, roots))
         /\ \A i \in 1..Len(roots) : LET p == find_upward(tree, roots[i], "schema.rb")
                                     IN  p # NoPath => p \in ToSet(Schemas(tree, roots))
<1> DEFINE n == Len(roots)
           Find(i) == find_upward(tree, roots[i], "schema.rb")
           S == {Find(i) : i \in 1..n}
           Add(x, i) == AddNew(x, Find(i))
           step == [q \in (1..n) \X Seq(S) |-> Add(q[2], q[1])]
<1>1. n \in Nat
  OBVIOUS
<1>2. \A i \in 1..n : Find(i) \in S
  OBVIOUS
<1> HIDE DEF n, S, Find
<1>3. \A i \in 1..n, x \in Seq(S) : Add(x, i) \in Seq(S)
  BY <1>2 DEF AddNew
<1> HIDE DEF Add
<1>4. step \in [(1..n) \X Seq(S) -> Seq(S)] /\ <<>> \in Seq(S)
  BY <1>3
<1>5. \A i \in 1..n, x \in Seq(S) : step[<<i, x>>] = Add(x, i)
  OBVIOUS
<1> HIDE DEF step
<1>6. PICK f : Recursion(f, Seq(S), n, <<>>, step)
  BY <1>1, <1>4, BoundedRecursion
<1>7. /\ f[0] = <<>> /\ f \in [0..n -> Seq(S)]
      /\ \A i \in 1..n : i - 1 \in 0..n /\ f[i] = Add(f[i - 1], i)
  <2>1. \A i \in 1..n : i - 1 \in 0..n
    BY <1>1
  <2>2. \A i \in 0..n : f[i] \in Seq(S)
    BY <1>6 DEF Recursion
  <2>3. \A i \in 1..n : f[i] = step[<<i, f[i - 1]>>]
    BY <1>6 DEF Recursion
  <2> QED BY <1>5, <1>6, <2>1, <2>2, <2>3 DEF Recursion
<1>8. Schemas(tree, roots) = f[n]
  <2> DEFINE Body(g) == [i \in 0..n |-> IF i = 0 THEN <<>> ELSE Add(g[i - 1], i)]
             k == CHOOSE g : g = Body(g)
  <2>1. Schemas(tree, roots) = k[n]
    BY DEF Schemas, n, Add, Find
  <2>2. \A i \in 0..n : i = 0 \/ i \in 1..n
    BY <1>1
  <2>3. f = Body(f)
    BY <1>7, <2>2
  <2>4. k = Body(k)
    BY <2>3
  <2> HIDE DEF k
  <2>5. \A i \in 0..n : k[i] = IF i = 0 THEN <<>> ELSE Add(k[i - 1], i)
    BY <2>4
  <2> DEFINE G == {i \in 0..n : k[i] = f[i]}
  <2>6. 0 \in G
    BY <1>1, <1>7, <2>5
  <2>7. \A i \in 1..n : i - 1 \in G => i \in G
    <3> SUFFICES ASSUME NEW i \in 1..n, k[i - 1] = f[i - 1] PROVE i \in 0..n /\ k[i] = f[i]
      OBVIOUS
    <3>1. i \in 0..n /\ i # 0
      BY <1>1
    <3>2. k[i] = Add(k[i - 1], i)
      BY <2>5, <3>1
    <3> QED BY <1>7, <3>1, <3>2
  <2> HIDE DEF G
  <2>8. \A i \in 0..n : i \in G
    BY <1>1, <2>6, <2>7, UpTo, Zenon
  <2> QED BY <1>1, <2>1, <2>8 DEF G
<1>9. f[n] \in Seq(S)
  BY <1>1, <1>7
<1>10. ASSUME NEW i \in 1..n, Find(i) # NoPath PROVE Find(i) \in ToSet(f[n])
  <2> DEFINE H == {k \in 0..n : i <= k => Find(i) \in ToSet(f[k])}
  <2>1. 0 \in H
    BY <1>1
  <2>2. ASSUME NEW k \in 1..n, k - 1 \in H PROVE k \in H
    <3> DEFINE x == f[k - 1]
               y == f[k]
    <3>1. x \in Seq(S) /\ y = AddNew(x, Find(k)) /\ k \in 0..n
      BY <1>1, <1>7 DEF Add
    <3>2. /\ \A c \in DOMAIN x : c \in DOMAIN y /\ y[c] = x[c]
          /\ Find(k) # NoPath => \E c \in DOMAIN y : y[c] = Find(k)
      <4>1. CASE Find(k) = NoPath \/ Contains(x, Find(k))
        <5>1. y = x
          BY <3>1, <4>1 DEF AddNew
        <5> HIDE DEF x, y
        <5>2. Find(k) # NoPath => \E c \in DOMAIN x : x[c] = Find(k)
          BY <3>1, <4>1 DEF Contains
        <5> QED BY <5>1, <5>2
      <4>2. CASE ~(Find(k) = NoPath \/ Contains(x, Find(k)))
        <5>1. y = Append(x, Find(k))
          BY <3>1, <4>2 DEF AddNew
        <5> HIDE DEF x, y
        <5>2. Len(x) + 1 \in DOMAIN y /\ y[Len(x) + 1] = Find(k)
          BY <3>1, <5>1
        <5>3. \A c \in DOMAIN x : c \in DOMAIN y /\ y[c] = x[c]
          BY <3>1, <5>1
        <5> QED BY <5>2, <5>3
      <4> QED BY <4>1, <4>2
    <3>3. \A p : p \in ToSet(x) => p \in ToSet(y)
      BY <3>2, InSequence
    <3>4. Find(k) # NoPath => Find(k) \in ToSet(y)
      BY <3>2, InSequence
    <3>5. i <= k => i = k \/ i <= k - 1
      BY <1>1
    <3> QED BY <1>10, <2>2, <3>1, <3>3, <3>4, <3>5
  <2> HIDE DEF H
  <2>3. \A k \in 0..n : k \in H
    BY <1>1, <2>1, <2>2, UpTo, Zenon
  <2>4. n \in H /\ i <= n
    BY <1>1, <2>3
  <2> QED BY <2>4 DEF H
<1> QED BY <1>8, <1>9, <1>10, SeqOfElements DEF n, Find

\* What a path is loaded as: project code if a root brought it in or it is a
\* schema, ignored if a root ignored it and it is not project code.
Named(x) == x \in ToSet(found.declarations_only) \/ \E i \in DOMAIN args.roots : x \in Walked(i).out
\* build_project loads as project code what can be read of the named paths, and
\* as evidence what can be read of the other ignored ones.
LEMMA LoadedRoles ==
  ASSUME run \in Runs, IsSeq(found.declarations_only), LoadSources
  PROVE  /\ IsSeq(sources')
         /\ \A x : x \in ToSet(sources') <=> Named(x) /\ readable(t, x)
         /\ \A x : x \in ignored' <=> /\ \E i \in DOMAIN args.roots : x \in Walked(i).ignored
                                      /\ ~Named(x) /\ readable(t, x)
<1> DEFINE roots == args.roots
           n == Len(roots)
           F == UNION {Walked(i).out : i \in DOMAIN roots}
           D == found.declarations_only
           I == UNION {Walked(i).ignored : i \in DOMAIN roots}
<1>1. n \in Nat /\ DOMAIN roots = 1..n
  BY RunsAssumption DEF args
<1>2. PICK order \in [DOMAIN roots -> UNION {Orders(Walked(i).out) : i \in DOMAIN roots}] :
         /\ \A i \in DOMAIN roots : ToSet(order[i]) = Walked(i).out
         /\ sources' = Load(FlattenSeq(order), D, I).sources
         /\ ignored' = Load(FlattenSeq(order), D, I).ignored
  BY DEF LoadSources
<1>3. \A i \in DOMAIN roots : order[i] \in Seq(F)
  <2> SUFFICES ASSUME NEW i \in DOMAIN roots PROVE order[i] \in Seq(F)
    OBVIOUS
  <2>1. PICK j \in DOMAIN roots : order[i] \in Orders(Walked(j).out)
    BY <1>2
  <2>2. order[i] \in Seq(Walked(j).out)
    BY <2>1, WalkedIsFinite, OrdersAreSeqs
  <2>3. Walked(j).out \subseteq F
    OBVIOUS
  <2> HIDE DEF F
  <2> QED BY <2>2, <2>3, SeqMonotonic
<1>4. order \in Seq(Seq(F)) /\ Len(order) = n
  <2> HIDE DEF F
  <2>1. order \in [1..n -> Seq(F)]
    BY <1>1, <1>2, <1>3
  <2> HIDE DEF n
  <2> QED BY <1>1, <2>1
<1> DEFINE rb == FlattenSeq(order)
           more == Keep(D, ToSet(D) \ ToSet(rb))
           all == rb \o more
           S == F \cup ToSet(D)
<1>5. rb \in Seq(F) /\ \A x : x \in ToSet(rb) <=> \E i \in DOMAIN roots : x \in Walked(i).out
  <2> HIDE DEF F
  <2>1. rb \in Seq(F) /\ \A x : x \in ToSet(rb) <=> \E i \in 1..Len(order) : x \in ToSet(order[i])
    BY <1>4, FlattenElements
  <2>2. 1..Len(order) = DOMAIN roots
    BY <1>1, <1>4
  <2>3. \A i \in DOMAIN roots : ToSet(order[i]) = Walked(i).out
    BY <1>2
  <2> HIDE DEF n, rb, roots
  <2>4. \A x : (\E i \in DOMAIN roots : x \in ToSet(order[i])) <=> \E i \in DOMAIN roots : x \in Walked(i).out
    BY <2>3, Zenon
  <2> QED BY <2>1, <2>2, <2>4, Zenon
<1>6. more \in Seq(ToSet(D)) /\ ToSet(more) = ToSet(D) \cap (ToSet(D) \ ToSet(rb))
  <2> HIDE DEF rb
  <2>1. D \in Seq(ToSet(D))
    BY DEF IsSeq
  <2> HIDE DEF D
  <2> QED BY <2>1, KeepElements
<1>7. rb \in Seq(S) /\ more \in Seq(S)
  <2>1. F \subseteq S /\ ToSet(D) \subseteq S
    OBVIOUS
  <2> HIDE DEF F, S, D, rb, more
  <2> QED BY <1>5, <1>6, <2>1, SeqMonotonic
<1>8. all \in Seq(S) /\ \A x : x \in ToSet(all) <=> Named(x)
  <2> HIDE DEF rb, more, S
  <2>1. all \in Seq(S) /\ \A x : x \in ToSet(all) <=> x \in ToSet(rb) \/ x \in ToSet(more)
    BY <1>7, InConcatenation
  <2> HIDE DEF all
  <2> QED BY <1>5, <1>6, <2>1 DEF Named
<1>9. /\ sources' = Keep(all, {p \in ToSet(all) : readable(t, p)})
      /\ ignored' = {p \in I : p \notin ToSet(all) /\ readable(t, p)}
  <2> HIDE DEF I
  <2> QED BY <1>2 DEF Load
<1> HIDE DEF all, S
<1>10. /\ sources' \in Seq(S)
       /\ ToSet(sources') = ToSet(all) \cap {p \in ToSet(all) : readable(t, p)}
  BY <1>8, <1>9, KeepElements
<1>11. IsSeq(sources')
  <2> DEFINE s == sources'
  <2>1. s \in Seq(S)
    BY <1>10
  <2> HIDE DEF s
  <2>2. IsSeq(s)
    BY <2>1, SeqOfElements
  <2> QED BY <2>2 DEF s
<1> QED BY <1>8, <1>9, <1>10, <1>11

----------------------------------------------------------------------------
(* Every step keeps CheckInv.                                              *)

\* Nothing is loaded, started or printed before main.
LEMMA CheckInvInit == Init => CheckInv
<1>1. IsSeq(<<>>)
  BY DEF IsSeq
<1>2. DOMAIN <<>> = {}
  OBVIOUS
<1> QED BY <1>1, <1>2 DEF Init, CheckInv, NotFound, InPathOrder

\* The threads when they have just been started.
Fresh ==
  /\ run \in Runs /\ IsSeq(to_check) /\ outputs = <<>>
  /\ worker = [k \in 1..Chunks |-> "running"] /\ results = [k \in 1..Chunks |-> <<>>]
\* Threads that were just started have collected nothing and none is joined.
LEMMA FreshPool == Fresh => PoolInv
<1> SUFFICES ASSUME Fresh PROVE PoolInv
  OBVIOUS
<1>1. Files \in Nat
  BY SizeIsPositive DEF Fresh
<1>2. /\ Chunks \in Nat /\ Upto(0) = 0
      /\ \A k \in 0..Chunks : Upto(k) \in 0..Files
      /\ \A k \in 1..Chunks : k - 1 \in 0..Chunks /\ Upto(k - 1) < Upto(k) /\ Len(Chunk(k)) = Upto(k) - Upto(k - 1)
  BY ChunksCover DEF Fresh
<1>3. \A k \in 1..Chunks : Upto(k - 1) \in Nat /\ Len(Chunk(k)) \in Nat
  BY <1>1, <1>2
<1>4. ASSUME NEW k \in 1..Chunks PROVE 0 \in 0..Len(Chunk(k)) /\ Collected(k, 0)
  <2>1. SubSeq(Sequential, Upto(k - 1) + 1, Upto(k - 1) + 0) = <<>>
    BY <1>3, SubSeqEmpty
  <2> QED BY <1>3, <2>1 DEF Collected, Fresh
<1>5. outputs = SubSeq(Sequential, 1, Upto(0))
  BY <1>2, SubSeqEmpty DEF Fresh
<1>6. \A k \in 1..Chunks : ~(k <= 0) /\ worker[k] = "running"
  BY <1>2 DEF Fresh
<1>7. \E j \in 0..Chunks : /\ \A k \in 1..Chunks : worker[k] = "joined" <=> k <= j
                           /\ outputs = SubSeq(Sequential, 1, Upto(j))
  BY <1>2, <1>5, <1>6
<1> QED BY <1>4, <1>6, <1>7 DEF PoolInv, Fresh

\* The files to check are those kept, in another order.
LEMMA SpawnedFiles ==
  ASSUME IsSeq(sources), Spawn
  PROVE  IsSeq(to_check') /\ ToSet(to_check') \subseteq ToSet(sources) \ ToSet(found.declarations_only)
<1> DEFINE n == Len(Kept)
           K == ToSet(Kept)
           s == to_check'
<1>1. Kept \in Seq(ToSet(sources)) /\ K = ToSet(sources) \cap (ToSet(sources) \ ToSet(found.declarations_only))
  BY KeepElements DEF Kept, IsSeq
<1>2. n \in Nat /\ \A i \in 1..n : Kept[i] \in K
  BY <1>1, InSequence
<1>3. PICK order \in Orders(1..n) : s = [i \in DOMAIN order |-> Kept[order[i]]]
  BY DEF Spawn
<1> HIDE DEF n, K, s
<1>4. IsFiniteSet(1..n)
  BY <1>2, FS_Interval
<1>5. order \in Seq(1..n)
  BY <1>3, <1>4, OrdersAreSeqs
<1> DEFINE m == Len(order)
<1>6. m \in Nat /\ DOMAIN order = 1..m /\ \A i \in 1..m : order[i] \in 1..n
  <2> DEFINE I == 1..n
  <2>1. order \in Seq(I)
    BY <1>5
  <2> HIDE DEF I
  <2>2. m \in Nat /\ DOMAIN order = 1..m /\ \A i \in 1..m : order[i] \in I
    BY <2>1
  <2> QED BY <2>2 DEF I
<1> HIDE DEF m
<1>7. s \in [1..m -> K]
  BY <1>2, <1>3, <1>6
<1>8. s \in Seq(K)
  BY <1>6, <1>7
<1>9. IsSeq(s) /\ ToSet(s) \subseteq K
  BY <1>8, SeqOfElements
<1> QED BY <1>1, <1>9 DEF s

\* The start of the threads establishes the invariant of the pool.
LEMMA SpawnPool ==
  ASSUME run \in Runs, IsSeq(sources), Spawn, outputs = <<>>
  PROVE  IsSeq(to_check') /\ PoolInv'
<1>1. run' = run /\ outputs' = outputs
  BY DEF Spawn
<1>2. IsSeq(to_check')
  BY SpawnedFiles
<1>3. worker' = [k \in 1..Chunks' |-> "running"] /\ results' = [k \in 1..Chunks' |-> <<>>]
  BY <1>1 DEF Spawn, Chunks, Size, Files, chunk_size, check_worker_count, args
<1>4. Fresh'
  BY <1>1, <1>2, <1>3 DEF Fresh
<1> QED BY <1>2, <1>4, FreshPool, PTL

\* Once every thread is joined the main thread has what one thread would have.
LEMMA AllJoined ==
  ASSUME run \in Runs, IsSeq(to_check), PoolInv, \A k \in DOMAIN worker : worker[k] = "joined"
  PROVE  outputs = Sequential
<1>1. PICK j \in 0..Chunks : /\ \A k \in 1..Chunks : worker[k] = "joined" <=> k <= j
                             /\ outputs = SubSeq(Sequential, 1, Upto(j))
  BY DEF PoolInv
<1>2. Chunks \in Nat /\ Upto(Chunks) = Files
  BY ChunksCover
<1>3. \A k \in 1..Chunks : k <= j
  BY <1>1 DEF PoolInv
<1>4. j = Chunks
  BY <1>1, <1>2, <1>3
<1> QED BY <1>1, <1>2, <1>4, SequentialIsSeq, SubSeqFull

\* Every step of the process keeps the invariant, one case per action.
LEMMA CheckInvNext == CheckInv /\ [Next]_vars => CheckInv'
<1> SUFFICES ASSUME CheckInv, [Next]_vars PROVE CheckInv'
  OBVIOUS
<1>1. run \in Runs /\ IsSeq(found.declarations_only) /\ IsSeq(sources) /\ IsSeq(to_check)
  BY DEF CheckInv
<1>2. CASE UNCHANGED <<run, Loaded, Pool, stdout, pc>>
  <2>1. SomePanics' = SomePanics
    BY <1>2, SplitStays DEF Loaded
  <2>2. PoolInv => PoolInv'
    BY <1>2, PoolStays DEF Loaded, Pool
  <2>3. IndexInv' <=> IndexInv
    BY <1>2, SplitStays DEF Loaded, Pool, IndexInv, Unchecked
  <2> QED BY <1>2, <2>1, <2>2, <2>3 DEF CheckInv, Loaded, Pool, InPathOrder
<1>3. CASE UNCHANGED <<run, Loaded>> /\ pc' = "exit"
  BY <1>3 DEF CheckInv, Loaded, InPathOrder
<1>4. CASE build_project
  <2>1. IsSeq(found'.declarations_only)
    <3>1. args.roots \in Seq(ToSet(args.roots))
      BY <1>1, RunsAssumption DEF args
    <3>2. IsSeq(Schemas(t, args.roots))
      BY <3>1, SchemasAreSeq
    <3>3. found' = wire_declaration_sources(t, args.roots)
      BY <1>4 DEF build_project
    <3>4. found'.declarations_only = Schemas(t, args.roots)
      BY <3>3 DEF wire_declaration_sources
    <3> QED BY <3>2, <3>4
  <2>2. pc = "main" /\ pc' = "load" /\ UNCHANGED <<run, sources, to_check, worker, outputs, index, stdout>>
    BY <1>4 DEF build_project, Pool
  <2> QED BY <2>1, <2>2 DEF CheckInv, InPathOrder
<1>5. CASE LoadSources
  <2>1. IsSeq(sources')
    BY <1>1, <1>5, LoadedRoles
  <2>2. pc = "load" /\ pc' = "spawn" /\ UNCHANGED <<run, found, to_check, worker, outputs, index, stdout>>
    BY <1>5 DEF LoadSources, Pool
  <2> QED BY <2>1, <2>2 DEF CheckInv, InPathOrder
<1>6. CASE Spawn
  <2>1. pc = "spawn" /\ pc' = "join" /\ UNCHANGED <<run, found, sources, index, stdout>>
    BY <1>6 DEF Spawn
  <2>2. outputs = <<>> /\ index = Nobody
    BY <2>1 DEF CheckInv
  <2>3. IsSeq(to_check') /\ PoolInv'
    BY <1>1, <1>6, <2>2, SpawnPool
  <2>4. InPathOrder'
    <3>1. PICK order \in Orders(1..Len(Kept)) :
            /\ \A i, j \in DOMAIN order : i < j => ~PathLess(Kept[order[j]], Kept[order[i]])
            /\ to_check' = [i \in DOMAIN order |-> Kept[order[i]]]
      BY <1>6 DEF Spawn
    <3>2. DOMAIN to_check' = DOMAIN order /\ \A i \in DOMAIN order : to_check'[i] = Kept[order[i]]
      BY <3>1
    <3>3. \A i, j \in DOMAIN order : i < j => ~PathLess(to_check'[j], to_check'[i])
      BY <3>1, <3>2, Zenon
    <3> QED BY <3>2, <3>3 DEF InPathOrder, PathLess
  <2>5. IndexInv'
    <3>1. DOMAIN worker' = 1..Chunks'
      BY <2>3 DEF PoolInv
    <3>2. Nobody \notin 1..Chunks'
      BY DEF Nobody
    <3> QED BY <2>1, <2>2, <3>1, <3>2 DEF IndexInv
  <2> QED BY <2>1, <2>3, <2>4, <2>5 DEF CheckInv
<1>7. ASSUME NEW k \in DOMAIN worker, pc \in {"join", "unwind"},
             Join(k) \/ CheckFile(k) \/ EndWorker(k) \/ FinishIndex(k)
      PROVE  CheckInv'
  <2>1. PoolInv /\ IndexInv /\ k \in 1..Chunks
    BY <1>7 DEF CheckInv, PoolInv
  <2>2. UNCHANGED <<run, Loaded, stdout>>
    BY <1>7 DEF Join, CheckFile, EndWorker, FinishIndex
  <2>3. SomePanics' = SomePanics
    BY <2>2, SplitStays DEF Loaded
  <2>4. PoolInv' /\ pc' \in {"join", "unwind"} /\ (pc' = "unwind" => SomePanics')
    <3>1. CASE Join(k)
      BY <1>1, <2>1, <3>1, JoinPool
    <3>2. CASE CheckFile(k)
      <4>1. pc' = pc
        BY <3>2 DEF CheckFile
      <4> QED BY <1>1, <1>7, <2>1, <2>3, <3>2, <4>1, CheckFilePool DEF CheckInv
    <3>3. CASE EndWorker(k)
      <4>1. pc' = pc
        BY <3>3 DEF EndWorker
      <4> QED BY <1>1, <1>7, <2>1, <2>3, <3>3, <4>1, EndWorkerPool DEF CheckInv
    <3>4. CASE FinishIndex(k)
      <4>1. pc' = pc
        BY <3>4 DEF FinishIndex
      <4> QED BY <1>1, <1>7, <2>1, <2>3, <3>4, <4>1, FinishIndexPool DEF CheckInv
    <3> QED BY <1>7, <3>1, <3>2, <3>3, <3>4
  <2>5. IndexInv'
    BY <1>7, <2>1, <2>2, IndexNext DEF Worker, Loaded
  <2> QED BY <1>7, <2>2, <2>4, <2>5 DEF CheckInv, Loaded, InPathOrder
<1>8. ASSUME NEW k \in DOMAIN worker, Worker(k), pc = "exit"
      PROVE  CheckInv'
  <2>1. UNCHANGED <<run, Loaded, pc>>
    BY <1>8 DEF Worker, ClaimIndex, FinishIndex, CheckFile, EndWorker
  <2> QED BY <1>8, <2>1 DEF CheckInv, Loaded, InPathOrder
<1>9. ASSUME NEW k \in DOMAIN worker PROVE pc \in {"join", "unwind"} \/ pc = "exit"
  BY <1>9 DEF CheckInv
<1>10. CASE Refuse \/ Unwind \/ Report \/ Locate \/ Serve
  <2>1. UNCHANGED <<run, Loaded>> /\ pc' = "exit"
    BY <1>10 DEF Refuse, Unwind, Report, Locate, Serve, Exit
  <2> QED BY <1>3, <2>1
<1>11. ASSUME NEW k \in DOMAIN worker, Join(k) PROVE CheckInv'
  BY <1>7, <1>11 DEF Join
<1>12. ASSUME NEW k \in DOMAIN worker, Worker(k) PROVE CheckInv'
  <2>1. CASE ClaimIndex(k) /\ pc \in {"join", "unwind"}
    <3>1. PoolInv /\ IndexInv /\ k \in 1..Chunks
      BY <1>12, <2>1 DEF CheckInv, PoolInv
    <3>2. UNCHANGED <<run, pc, Loaded, worker, results, outputs, stdout>>
      BY <2>1 DEF ClaimIndex
    <3>3. PoolInv' /\ SomePanics' = SomePanics
      BY <3>1, <3>2, PoolStays, SplitStays DEF Loaded
    <3>4. IndexInv'
      BY <2>1, <3>1, <3>2, IndexNext DEF Worker, Loaded
    <3> QED BY <2>1, <3>2, <3>3, <3>4 DEF CheckInv, Loaded, InPathOrder
  <2> QED BY <1>7, <1>8, <1>9, <1>12, <2>1 DEF Worker
<1>13. CASE UNCHANGED vars
  BY <1>2, <1>13 DEF vars, Loaded, Pool
<1> QED BY <1>4, <1>5, <1>6, <1>10, <1>11, <1>12, <1>13 DEF Next, Main

----------------------------------------------------------------------------
(* The report.                                                             *)

\* What a finished run says is not taken back.
LEMMA EndedStays ==
  ASSUME pc = "exit", [Next]_vars
  PROVE  UNCHANGED <<run, pc, to_check, stdout, census, exit>>
<1>1. CASE UNCHANGED vars
  BY <1>1 DEF vars
<1>2. ASSUME Main PROVE FALSE
  BY <1>2 DEF Main, Refuse, build_project, LoadSources, Spawn, Join, Unwind, Report, Locate, Serve
<1>3. ASSUME NEW k \in DOMAIN worker, Worker(k)
      PROVE  UNCHANGED <<run, pc, to_check, stdout, census, exit>>
  BY <1>3 DEF Worker, ClaimIndex, FinishIndex, CheckFile, EndWorker, Loaded
<1> QED BY <1>1, <1>2, <1>3 DEF Next

\* An exit of `ita check` is one of these three.
LEMMA HowItEnds ==
  ASSUME CheckInv, [Next]_vars, pc # "exit", pc' = "exit", args.cmd = "check"
  PROVE  Refuse \/ Unwind \/ Report
<1>1. CASE UNCHANGED vars
  BY <1>1 DEF vars
<1>2. ASSUME Main PROVE Refuse \/ Unwind \/ Report
  <2>1. ~build_project /\ ~LoadSources /\ ~Spawn
    BY DEF build_project, LoadSources, Spawn
  <2>2. ~Locate /\ ~Serve
    BY DEF Locate, Serve
  <2>3. \A k \in DOMAIN worker : ~Join(k)
    BY DEF Join
  <2> QED BY <1>2, <2>1, <2>2, <2>3 DEF Main
<1>3. ASSUME NEW k \in DOMAIN worker, Worker(k) PROVE FALSE
  BY <1>3 DEF Worker, ClaimIndex, FinishIndex, CheckFile, EndWorker
<1> QED BY <1>1, <1>2, <1>3 DEF Next

\* No report is claimed before the process has ended.
LEMMA ReportedInit == Init => ReportIsSequential /\ ExitTells
BY DEF Init, ReportIsSequential, ExitTells, Checked, Ended

\* When Report runs every chunk is joined, so what it prints and decides on are
\* the results of one thread; every other end of a check prints nothing.
LEMMA ReportedNext ==
  ASSUME CheckInv, ReportIsSequential, ExitTells, [Next]_vars
  PROVE  ReportIsSequential' /\ ExitTells'
<1> DEFINE Wrong(p) == \E d \in ToSet(Code(p).diags) : d.severity = "error"
<1>1. CASE ~(args'.cmd = "check" /\ pc' = "exit")
  BY <1>1 DEF ReportIsSequential, ExitTells, Checked, Ended
<1>2. CASE pc = "exit"
  <2>1. UNCHANGED <<run, pc, to_check, stdout, census, exit>>
    BY <1>2, EndedStays
  <2>2. args' = args /\ Sequential' = Sequential /\ \A p : Panics(p)' = Panics(p) /\ Code(p)' = Code(p)
    BY <2>1, RunStays, SplitStays
  <2>3. Footer(Sequential)' = Footer(Sequential)
    BY <2>1, <2>2 DEF Footer
  <2>4. ReportIsSequential'
    BY <2>1, <2>2, <2>3 DEF ReportIsSequential, Checked, Ended, InPathOrder
  <2>5. ExitTells'
    BY <2>1, <2>2 DEF ExitTells, Checked, Ended
  <2> QED BY <2>4, <2>5
<1>3. CASE args'.cmd = "check" /\ pc' = "exit" /\ pc # "exit"
  <2>1. run' = run
    BY <1>3 DEF Next, Main, Worker, Refuse, build_project, LoadSources, Spawn, Join, Unwind, Report, Locate, Serve,
                ClaimIndex, FinishIndex, CheckFile, EndWorker, vars
  <2>2. args' = args /\ \A p : Panics(p)' = Panics(p) /\ Code(p)' = Code(p)
    BY <2>1, RunStays
  <2>3. CASE Refuse
    BY <2>3 DEF Refuse, Exit, ReportIsSequential, ExitTells, Checked, Ended
  <2>4. CASE Unwind
    <3>1. exit' = 101 /\ stdout = <<>> /\ stdout' = stdout /\ to_check' = to_check /\ SomePanics
      BY <2>4 DEF Unwind, Exit, Loaded, CheckInv
    <3>2. ExitTells'
      BY <3>1 DEF ExitTells, Checked
    <3>3. ReportIsSequential'
      BY <2>1, <2>2, <3>1 DEF ReportIsSequential, Checked, SomePanics
    <3> QED BY <3>2, <3>3
  <2>5. CASE Report
    <3>1. /\ to_check' = to_check /\ run \in Runs /\ IsSeq(to_check) /\ PoolInv
          /\ \A k \in DOMAIN worker : worker[k] = "joined"
      BY <2>5 DEF Report, Loaded, CheckInv
    <3>2. outputs = Sequential
      BY <3>1, AllJoined
    <3>3. Sequential' = Sequential
      BY <2>1, <3>1, SplitStays
    <3>4. Footer(Sequential)' = Footer(Sequential)
      BY <2>2, <3>1, <3>3 DEF Footer
    <3>5. CASE args.dark = "unwritable"
      <4>1. exit' = 2
        BY <2>5, <3>5 DEF Report, Exit
      <4> QED BY <4>1 DEF ReportIsSequential, ExitTells, Checked
    <3>6. CASE args.dark # "unwritable"
      <4>1. /\ stdout' = Printed(Sequential) \o Footer(Sequential)
            /\ census' = IF args.dark = "on" THEN Records(Sequential) ELSE census
            /\ exit' = IF \E o \in ToSet(Sequential) : o.error THEN 1 ELSE 0
        BY <2>5, <3>2, <3>6 DEF Report, Exit
      <4>2. ReportIsSequential'
        <5>1. InPathOrder'
          BY <3>1 DEF CheckInv, InPathOrder
        <5>2. exit' # 101
          BY <4>1
        <5> QED BY <2>2, <3>3, <3>4, <4>1, <5>1, <5>2 DEF ReportIsSequential, Checked
      <4>3. (\E o \in ToSet(Sequential) : o.error) <=> \E p \in ToSet(to_check) : Wrong(p)
        <5>1. \A p : check_and_print(p).error <=> Wrong(p)
          BY DEF check_and_print
        <5>2. /\ DOMAIN to_check = 1..Files /\ DOMAIN Sequential = 1..Files
              /\ \A i \in 1..Files : Sequential[i] = check_and_print(to_check[i])
          BY <3>1, SequentialIsSeq
        <5> HIDE DEF Wrong
        <5>3. /\ \A x : x \in ToSet(Sequential) <=> \E i \in 1..Files : Sequential[i] = x
              /\ \A x : x \in ToSet(to_check) <=> \E i \in 1..Files : to_check[i] = x
          <6>1. /\ \A x : x \in ToSet(Sequential) <=> \E i \in DOMAIN Sequential : Sequential[i] = x
                /\ \A x : x \in ToSet(to_check) <=> \E i \in DOMAIN to_check : to_check[i] = x
            BY InSequence, Zenon
          <6> QED BY <5>2, <6>1, Zenon
        <5>4. ASSUME NEW o \in ToSet(Sequential) PROVE \E p \in ToSet(to_check) : o = check_and_print(p)
          <6>1. PICK i \in 1..Files : Sequential[i] = o
            BY <5>3
          <6>2. o = check_and_print(to_check[i]) /\ to_check[i] \in ToSet(to_check)
            BY <5>2, <5>3, <6>1
          <6> QED BY <6>2
        <5>5. ASSUME NEW p \in ToSet(to_check) PROVE check_and_print(p) \in ToSet(Sequential)
          BY <5>2, <5>3
        <5> QED BY <5>1, <5>4, <5>5, Zenon
      <4>4. ExitTells'
        BY <2>2, <3>1, <4>1, <4>3 DEF ExitTells
      <4> QED BY <4>2, <4>4
    <3> QED BY <3>5, <3>6
  <2> QED BY <1>3, <2>2, <2>3, <2>4, <2>5, HowItEnds
<1> QED BY <1>1, <1>2, <1>3

\* ReportsLikeOneThread: for every set of files, every number of threads and
\* every order in which they run and the directories are walked, the report,
\* the agent's footer and the census of a check are those of one thread that
\* checks the files in the order of their paths; a check that panics prints
\* nothing and one of its files has a diagnostic inside a character
\* (run_check, check_and_print).
THEOREM ReportsLikeOneThread == Spec => []ReportIsSequential
<1>1. CheckInv /\ ReportIsSequential /\ ExitTells /\ [Next]_vars => CheckInv' /\ ReportIsSequential' /\ ExitTells'
  BY CheckInvNext, ReportedNext
<1> QED BY CheckInvInit, ReportedInit, <1>1, PTL DEF Spec

\* ExitCodeTells: the exit code of a check is 1 if one of its files has an
\* error and 0 if none has, in every format, also if the format prints none of
\* the errors and whichever thread found them (run_check, check_and_print).
THEOREM ExitCodeTells == Spec => []ExitTells
<1>1. CheckInv /\ ReportIsSequential /\ ExitTells /\ [Next]_vars => CheckInv' /\ ReportIsSequential' /\ ExitTells'
  BY CheckInvNext, ReportedNext
<1> QED BY CheckInvInit, ReportedInit, <1>1, PTL DEF Spec

----------------------------------------------------------------------------
(* The roles of the files.                                                 *)

\* A root that is a directory brings in or ignores what is below it.
LEMMA WalkedRoles ==
  ASSUME run \in Runs, NEW i \in DOMAIN args.roots, is_dir(t, args.roots[i]), NEW p \in Walk(t, args.roots[i])
  PROVE  p \in Walked(i).out \/ p \in Walked(i).ignored
<1> DEFINE root == args.roots[i]
<1>1. ~is_file(t, root)
  <2>1. t.files \cap t.dirs = {}
    BY RunsAssumption DEF t
  <2> QED BY <2>1 DEF is_file, is_dir
<1> QED BY <1>1 DEF Walked, discover_rb_files

\* The roles are settled by LoadSources and no later step changes them.
LEMMA OneRoleNext ==
  ASSUME CheckInv, OneRole, [Next]_vars
  PROVE  OneRole'
<1>1. CASE LoadSources
  <2>1. run' = run /\ args' = args /\ t' = t
    BY <1>1, RunStays DEF LoadSources
  <2>2. /\ IsSeq(sources')
        /\ \A x : x \in ToSet(sources') <=> Named(x) /\ readable(t, x)
        /\ \A x : x \in ignored' <=> /\ \E i \in DOMAIN args.roots : x \in Walked(i).ignored
                                     /\ ~Named(x) /\ readable(t, x)
    BY <1>1, LoadedRoles DEF CheckInv
  <2>3. \A x : Contains(sources', x) <=> x \in ToSet(sources')
    <3>1. DOMAIN sources' = 1..Len(sources')
      BY <2>2 DEF IsSeq
    <3> QED BY <3>1, InSequence DEF Contains
  <2>4. ASSUME NEW r \in ToSet(args.roots), is_dir(t, r), NEW p \in Walk(t, r), readable(t, p)
        PROVE  p \in ToSet(sources') <=> p \notin ignored'
    <3>1. PICK i \in DOMAIN args.roots : args.roots[i] = r
      BY InSequence
    <3>2. p \in Walked(i).out \/ p \in Walked(i).ignored
      BY <2>4, <3>1, WalkedRoles DEF CheckInv
    <3> QED BY <2>2, <2>4, <3>2 DEF Named
  <2> QED BY <2>1, <2>3, <2>4 DEF OneRole
<1>2. CASE ~LoadSources /\ pc' \in {"spawn", "join", "unwind"}
  <2>1. UNCHANGED <<run, sources, ignored>> /\ pc \in {"spawn", "join", "unwind"}
    <3>1. CASE UNCHANGED vars
      BY <1>2, <3>1 DEF vars
    <3>2. ~Refuse /\ ~build_project /\ ~Unwind /\ ~Report /\ ~Locate /\ ~Serve
      BY <1>2 DEF Refuse, build_project, Unwind, Report, Locate, Serve, Exit
    <3>3. CASE Spawn
      BY <3>3 DEF Spawn
    <3>4. ASSUME NEW k \in DOMAIN worker, Join(k) \/ Worker(k)
          PROVE  UNCHANGED <<run, sources, ignored>> /\ pc \in {"spawn", "join", "unwind"}
      BY <1>2, <3>4 DEF Join, Worker, ClaimIndex, FinishIndex, CheckFile, EndWorker, Loaded
    <3> QED BY <1>2, <3>1, <3>2, <3>3, <3>4 DEF Next, Main
  <2>2. args' = args /\ t' = t
    BY <2>1, RunStays
  <2> QED BY <2>1, <2>2 DEF OneRole
<1>3. CASE pc' \notin {"spawn", "join", "unwind"}
  BY <1>3 DEF OneRole
<1> QED BY <1>1, <1>2, <1>3

\* EveryFileHasOneRole: for all roots, links and --ignore entries, a readable
\* .rb file below a root is project code or ignored evidence and never both
\* (build_project, discover_rb_files).
THEOREM EveryFileHasOneRole == Spec => []OneRole
<1>1. Init => OneRole
  BY DEF Init, OneRole
<1>2. CheckInv /\ OneRole /\ [Next]_vars => CheckInv' /\ OneRole'
  BY CheckInvNext, OneRoleNext
<1> QED BY CheckInvInit, <1>1, <1>2, PTL DEF Spec

----------------------------------------------------------------------------
(* The names of documents.                                                 *)

\* What a document is known by is absolute, and a text when the editor named it.
LEMMA KnownNames ==
  ASSUME run \in Runs, args.cmd = "server"
  PROVE  /\ Known \in Seq(Byte) /\ Known # <<>> /\ Head(Known) = Slash
         /\ args.opened = "editor" \/ IsUtf8(args.document) => IsUtf8(Known)
<1> DEFINE d == args.document
<1>1. d \in Seq(Byte) /\ d # <<>> /\ Head(d) = Slash
  BY RunsAssumption DEF args, Byte
<1>2. unescape(d) \in Seq(Byte) /\ unescape(d) # <<>> /\ Head(unescape(d)) = Slash
  BY <1>1, UnescapedBytes
<1> DEFINE u == unescape(d)
           k == from_utf8_lossy(u)
<1>3. u \in Seq(Byte) /\ u # <<>> /\ Head(u) = Slash
  BY <1>2
<1>4. uri_to_path(d) = k
  BY DEF uri_to_path, percent_decode
<1> HIDE DEF u
<1>5. k \in Seq(Byte) /\ IsUtf8(k) /\ k # <<>> /\ Head(k) = Slash
  BY <1>3, LossyIsText, LossyHead
<1> HIDE DEF k
<1> QED BY <1>1, <1>4, <1>5 DEF Known

\* Only the server echoes a name: that of the document it knows.
LEMMA EchoedNext ==
  ASSUME CheckInv, UriRoundTrip, [Next]_vars
  PROVE  UriRoundTrip'
<1>1. CASE Serve
  <2>1. run' = run /\ run \in Runs /\ args.cmd = "server" /\ echoed' = uri_to_path(path_to_uri(Known))
    BY <1>1 DEF CheckInv, Serve
  <2>2. args' = args /\ Known' = Known
    BY <2>1, RunStays DEF Known
  <2>3. ASSUME args.opened = "editor" \/ IsUtf8(args.document) PROVE echoed' = Known
    BY <2>1, <2>3, KnownNames, TextComesBack
  <2> QED BY <2>2, <2>3 DEF UriRoundTrip
<1>2. CASE ~Serve
  <2>1. run' = run /\ echoed' = echoed
    <3>1. CASE UNCHANGED vars
      BY <3>1 DEF vars
    <3>2. CASE Refuse \/ build_project \/ LoadSources \/ Spawn \/ Unwind \/ Report \/ Locate
      BY <3>2 DEF Refuse, build_project, LoadSources, Spawn, Unwind, Report, Locate
    <3>3. ASSUME NEW k \in DOMAIN worker, Join(k) \/ Worker(k) PROVE run' = run /\ echoed' = echoed
      BY <3>3 DEF Join, Worker, ClaimIndex, FinishIndex, CheckFile, EndWorker
    <3> QED BY <1>2, <3>1, <3>2, <3>3 DEF Next, Main
  <2>2. args' = args /\ Known' = Known
    BY <2>1, RunStays DEF Known
  <2> QED BY <2>1, <2>2 DEF UriRoundTrip
<1> QED BY <1>1, <1>2

\* NamesComeBack: for every absolute URI an editor opens a document with, also
\* one whose escapes are no UTF-8, and for every absolute path on disk that is
\* UTF-8, the path the server reads from the URI it writes is the path it knows
\* the document by (percent_encode_path, percent_decode, path_to_uri,
\* uri_to_path).  Of a path on disk that is not UTF-8 it says nothing:
\* to_string_lossy has replaced bytes, and another path comes back.
THEOREM NamesComeBack == Spec => []UriRoundTrip
<1>1. Init => UriRoundTrip
  BY DEF Init, UriRoundTrip
<1>2. CheckInv /\ UriRoundTrip /\ [Next]_vars => CheckInv' /\ UriRoundTrip'
  BY CheckInvNext, EchoedNext
<1> QED BY CheckInvInit, <1>1, <1>2, PTL DEF Spec

----------------------------------------------------------------------------
(* What is checked.                                                        *)

OwnSchema(r) == r \o <<"db", "schema.rb">>

\* The upward search from a directory with a schema of its own finds that one,
\* in the caller's form.
LEMMA FindsOwnSchema ==
  ASSUME run \in Runs, NEW r, r \in Seq(ToSet(r)), is_dir(t, r), is_file(t, OwnSchema(r))
  PROVE  find_upward(t, r, "schema.rb") = OwnSchema(r) /\ OwnSchema(r) # NoPath
<1> DEFINE rel == <<"db", "schema.rb">>
           dirs == upward_dirs(t, r)
           hits == {d \in dirs : canonicalize(t, d.dir \o rel) \in t.files}
           before(d, e) == d.level < e.level \/ (d.level = e.level /\ d.form <= e.form)
           own == [level |-> 1, form |-> 1, dir |-> r]
           starts == {[form |-> 1, dir |-> r], [form |-> 2, dir |-> upward_start(t, r)]}
           up(c) == SubSeq(c[2].dir, 1, Len(c[2].dir) - c[1] + 1)
<1>1. NoPath \notin DOMAIN t.real /\ NoPath \notin t.dirs
  BY RunsAssumption DEF t
<1>2. r # NoPath
  BY <1>1 DEF is_dir, canonicalize
<1>3. dirs = Ascent(starts)
  BY DEF upward_dirs, LexicalStart
<1>4. Len(r) \in Nat /\ SubSeq(r, 1, Len(r)) = r
  BY SubSeqFull
<1>5. ASSUME NEW d \in dirs
      PROVE  d.level \in 1..Levels /\ d.form \in {1, 2} /\ (d.level = 1 /\ d.form = 1 => d.dir = r)
  <2>1. PICK c \in (1..Levels) \X starts : d = [level |-> c[1], form |-> c[2].form, dir |-> up(c)]
    BY <1>3 DEF Ascent
  <2>2. d.level = c[1] /\ d.form = c[2].form /\ d.dir = up(c) /\ c[1] \in 1..Levels /\ c[2] \in starts
    BY <2>1
  <2>3. c[2].form \in {1, 2} /\ (c[2].form = 1 => c[2].dir = r)
    BY <2>2
  <2>4. c[1] = 1 /\ c[2].form = 1 => up(c) = r
    <3>1. SUFFICES ASSUME c[1] = 1, c[2].form = 1 PROVE up(c) = r
      OBVIOUS
    <3>2. up(c) = SubSeq(r, 1, Len(r) - 1 + 1) /\ Len(r) - 1 + 1 = Len(r)
      BY <1>4, <2>3, <3>1
    <3> QED BY <1>4, <3>2
  <2> QED BY <2>2, <2>3, <2>4
<1>6. own \in dirs
  <2> DEFINE c == <<1, [form |-> 1, dir |-> r]>>
  <2>1. c \in (1..Levels) \X starts
    BY DEF Levels
  <2>2. c[2].dir = r /\ c[2].form = 1 /\ c[1] = 1
    OBVIOUS
  <2>3. 1 <= Len(r) + 1 /\ Len(r) - 1 + 1 = Len(r)
    BY <1>4
  <2>4. own = [level |-> c[1], form |-> c[2].form, dir |-> up(c)]
    BY <1>4, <2>2, <2>3
  <2>5. c[2].dir # NoPath /\ c[1] <= Len(c[2].dir) + 1
    BY <1>2, <2>2, <2>3
  <2> HIDE DEF c, starts
  <2> QED BY <1>3, <2>1, <2>4, <2>5 DEF Ascent
<1> HIDE DEF dirs
<1>7. own \in hits
  BY <1>6 DEF is_file, OwnSchema
<1>8. \A e \in hits : before(own, e)
  BY <1>5 DEF Levels
<1> DEFINE d == CHOOSE x \in hits : \A e \in hits : before(x, e)
<1>9. d \in hits /\ before(d, own)
  BY <1>7, <1>8
<1>10. find_upward(t, r, "schema.rb") = d.dir \o rel
  BY <1>7 DEF find_upward, Nearest, dirs
<1> HIDE DEF d
<1>11. d.dir = r
  <2>1. d.level \in 1..Levels /\ d.form \in {1, 2} /\ (d.level = 1 /\ d.form = 1 => d.dir = r)
    BY <1>5, <1>9
  <2>2. d.level < 1 \/ (d.level = 1 /\ d.form <= 1)
    BY <1>9
  <2> QED BY <2>1, <2>2 DEF Levels
<1>12. OwnSchema(r) # NoPath
  <2>1. Len(OwnSchema(r)) = Len(r) + 2
    BY DEF OwnSchema
  <2>2. Len(NoPath) = 1
    BY DEF NoPath
  <2>3. Len(r) + 2 # 1
    BY <1>4
  <2> DEFINE own2 == OwnSchema(r)
  <2> HIDE DEF own2
  <2>4. Len(own2) # Len(NoPath)
    BY <2>1, <2>2, <2>3 DEF own2
  <2> QED BY ONLY <2>4 DEF own2
<1> QED BY <1>10, <1>11, <1>12 DEF OwnSchema

\* A root's schema is found before the files are loaded; what is loaded as code
\* can be read and is not evidence; nothing is checked before that.
ScopeInv ==
  /\ pc \in {"load", "spawn"} => \A r \in ToSet(args.roots) :
        is_dir(t, r) /\ is_file(t, OwnSchema(r)) => OwnSchema(r) \in ToSet(found.declarations_only)
  /\ pc = "spawn" => \A p \in ToSet(sources) : p \notin ignored /\ is_file(t, p)
  /\ pc \in {"main", "load", "spawn"} => to_check = <<>>
  /\ OnlyProjectCode

\* Nothing is found, loaded or checked before main.
LEMMA ScopeInit == Init => ScopeInv
<1>1. ToSet(<<>>) = {}
  BY DEF ToSet
<1> QED BY <1>1 DEF Init, ScopeInv, OnlyProjectCode

\* build_project finds the roots' schemas, LoadSources keeps evidence apart, and
\* Spawn takes the schemas out of what it checks.
LEMMA ScopeNext ==
  ASSUME CheckInv, ScopeInv, [Next]_vars
  PROVE  ScopeInv'
<1>1. run \in Runs /\ IsSeq(found.declarations_only) /\ IsSeq(sources) /\ IsSeq(to_check)
  BY DEF CheckInv
<1>2. ToSet(<<>>) = {}
  BY DEF ToSet
<1>3. CASE build_project
  <2>1. pc = "main" /\ pc' = "load" /\ run' = run /\ to_check' = to_check /\ to_check = <<>>
    BY <1>3 DEF build_project, ScopeInv
  <2>2. args' = args /\ t' = t
    BY <2>1, RunStays
  <2>3. found'.declarations_only = Schemas(t, args.roots)
    <3>1. found' = wire_declaration_sources(t, args.roots)
      BY <1>3 DEF build_project
    <3> QED BY <3>1 DEF wire_declaration_sources
  <2>4. args.roots \in Seq(ToSet(args.roots)) /\ \A r \in ToSet(args.roots) : r \in Seq(ToSet(r))
    BY <1>1, RunsAssumption DEF args
  <2>5. ASSUME NEW r \in ToSet(args.roots), is_dir(t, r), is_file(t, OwnSchema(r))
        PROVE  OwnSchema(r) \in ToSet(Schemas(t, args.roots))
    <3>1. PICK i \in DOMAIN args.roots : args.roots[i] = r
      BY InSequence
    <3>2. i \in 1..Len(args.roots)
      BY <2>4, <3>1
    <3>3. find_upward(t, r, "schema.rb") = OwnSchema(r) /\ OwnSchema(r) # NoPath
      BY <1>1, <2>4, <2>5, FindsOwnSchema
    <3>4. LET p == find_upward(t, args.roots[i], "schema.rb")
          IN  p # NoPath => p \in ToSet(Schemas(t, args.roots))
      BY <2>4, <3>2, SchemasAreSeq
    <3> QED BY <3>1, <3>3, <3>4
  <2>6. OnlyProjectCode'
    BY <1>2, <2>1 DEF OnlyProjectCode
  <2>7. \A r : OwnSchema(r)' = OwnSchema(r)
    BY DEF OwnSchema
  <2> QED BY <2>1, <2>2, <2>3, <2>5, <2>6, <2>7 DEF ScopeInv
<1>4. CASE LoadSources
  <2>1. pc = "load" /\ pc' = "spawn" /\ run' = run /\ to_check' = to_check /\ to_check = <<>> /\ found' = found
    BY <1>4 DEF LoadSources, ScopeInv
  <2>2. args' = args /\ t' = t
    BY <2>1, RunStays
  <2>3. ASSUME NEW p \in ToSet(sources') PROVE p \notin ignored' /\ is_file(t, p)
    <3>1. Named(p) /\ readable(t, p) /\ (p \in ignored' => ~Named(p))
      BY <1>1, <1>4, LoadedRoles
    <3> QED BY <3>1 DEF readable
  <2>4. OnlyProjectCode'
    BY <1>2, <2>1 DEF OnlyProjectCode
  <2> QED BY <2>1, <2>2, <2>3, <2>4 DEF ScopeInv
<1>5. CASE Spawn
  <2>1. /\ pc = "spawn" /\ pc' = "join" /\ UNCHANGED <<run, found, ignored>>
    BY <1>5 DEF Spawn
  <2>2. args' = args /\ t' = t
    BY <2>1, RunStays
  <2>3. ToSet(to_check') \subseteq ToSet(sources) \ ToSet(found.declarations_only)
    BY <1>1, <1>5, SpawnedFiles
  <2>4. ASSUME NEW p \in ToSet(to_check')
        PROVE  /\ p \notin ToSet(found.declarations_only) /\ p \notin ignored
               /\ \A r \in ToSet(args.roots) : is_dir(t, r) => p # OwnSchema(r)
    BY <2>1, <2>3, <2>4 DEF ScopeInv
  <2>5. OnlyProjectCode'
    BY <2>1, <2>2, <2>4 DEF OnlyProjectCode, OwnSchema
  <2> QED BY <2>1, <2>5 DEF ScopeInv
<1>6. CASE UNCHANGED <<run, Loaded>> /\ (pc' = pc \/ pc' \in {"join", "unwind", "exit"})
  <2>1. args' = args /\ t' = t
    BY <1>6, RunStays
  <2>2. OnlyProjectCode'
    BY <1>6, <2>1 DEF OnlyProjectCode, ScopeInv, Loaded
  <2> QED BY <1>6, <2>1, <2>2 DEF ScopeInv, Loaded
<1>7. CASE UNCHANGED vars
  BY <1>6, <1>7 DEF vars, Loaded
<1>8. CASE Refuse \/ Unwind \/ Report \/ Locate \/ Serve
  <2>1. UNCHANGED <<run, Loaded>> /\ pc' = "exit"
    BY <1>8 DEF Refuse, Unwind, Report, Locate, Serve, Exit
  <2> QED BY <1>6, <2>1
<1>9. ASSUME NEW k \in DOMAIN worker, Join(k) \/ Worker(k) PROVE ScopeInv'
  <2>1. UNCHANGED <<run, Loaded>> /\ (pc' = pc \/ pc' \in {"join", "unwind", "exit"})
    BY <1>9 DEF Join, Worker, ClaimIndex, FinishIndex, CheckFile, EndWorker
  <2> QED BY <1>6, <2>1
<1> QED BY <1>3, <1>4, <1>5, <1>7, <1>8, <1>9 DEF Next, Main

\* OnlyProjectCodeIsChecked: for all roots, links and --ignore entries, no file
\* is checked that is ignored, that was found as a schema, or that is the
\* schema of a root, spelled as the walk of that root spells it
\* (wire_declaration_sources, upward_dirs, build_project, run_check).
THEOREM OnlyProjectCodeIsChecked == Spec => []OnlyProjectCode
<1>1. ScopeInv => OnlyProjectCode
  BY DEF ScopeInv
<1>2. CheckInv /\ ScopeInv /\ [Next]_vars => CheckInv' /\ ScopeInv'
  BY CheckInvNext, ScopeNext
<1> QED BY CheckInvInit, ScopeInit, <1>1, <1>2, PTL DEF Spec

----------------------------------------------------------------------------
(* Positions.                                                              *)

\* The files whose results are collected, by their thread or by the main one,
\* did not make it panic.
Calm ==
  /\ \A k \in 1..Chunks : \A i \in 1..Len(results[k]) : ~Panics(to_check[Upto(k - 1) + i])
  /\ \A i \in 1..Len(outputs) : ~Panics(to_check[i])
\* So no diagnostic of a reported file lies inside a character; what is checked
\* are files; and an offset was computed from the location on the command line.
PositionInv ==
  /\ pc \in {"join", "unwind"} => Calm
  /\ Checked => \A p \in ToSet(to_check) : ~Panics(p)
  /\ \A p \in ToSet(to_check) : is_file(t, p)
  /\ asked # -1 => Located /\ asked = offset(Code(Target).text, args.line - 1, args.col - 1)

\* Nothing is collected, reported or asked for before main.
LEMMA PositionInit == Init => PositionInv
<1>1. ToSet(<<>>) = {}
  BY DEF ToSet
<1> QED BY <1>1 DEF Init, PositionInv, Checked, Ended

\* A thread goes on only if the file did not make it panic.
LEMMA CheckFileCalm ==
  ASSUME run \in Runs, IsSeq(to_check), PoolInv, Calm, NEW k \in 1..Chunks, CheckFile(k)
  PROVE  Calm'
<1>1. run' = run /\ to_check' = to_check /\ outputs' = outputs
  BY DEF CheckFile, Loaded
<1>2. Chunks' = Chunks /\ (\A i : Upto(i)' = Upto(i)) /\ \A p : Panics(p)' = Panics(p)
  BY <1>1, SplitStays, RunStays
<1>3. PICK m \in 0..Len(Chunk(k)) : Collected(k, m)
  BY DEF PoolInv
<1>4. Len(results[k]) = m /\ m < Len(Chunk(k))
  BY <1>3, NextFile DEF CheckFile, Unchecked
<1>5. \A i \in 1..Len(Chunk(k)) : Chunk(k)[i] = to_check[Upto(k - 1) + i]
  BY ChunksCover
<1>6. CASE Panics(Chunk(k)[m + 1])
  <2>1. results' = results
    BY <1>4, <1>6 DEF CheckFile
  <2> QED BY <1>1, <1>2, <2>1 DEF Calm
<1>7. CASE ~Panics(Chunk(k)[m + 1])
  <2>1. results' = [results EXCEPT ![k] = Append(@, check_and_print(Chunk(k)[m + 1]))]
    BY <1>4, <1>7 DEF CheckFile
  <2>2. \A i \in 1..Chunks : i # k => results'[i] = results[i]
    BY <2>1 DEF PoolInv
  <2>3. Len(results'[k]) = m + 1
    <3>1. results[k] \in Seq(ToSet(Sequential))
      <4>1. /\ Upto(k - 1) \in 0..Files /\ Upto(k) \in 0..Files /\ Len(Chunk(k)) = Upto(k) - Upto(k - 1)
        BY ChunksCover
      <4>2. Sequential \in Seq(ToSet(Sequential)) /\ Len(Sequential) = Files /\ Files \in Nat
        BY SequentialIsSeq
      <4> DEFINE lo == Upto(k - 1)
      <4>3. \A i \in (lo + 1)..(lo + m) : i \in 1..Len(Sequential)
        BY <4>1, <4>2
      <4>4. lo \in Nat /\ m \in Nat
        BY <4>1, <4>2
      <4> HIDE DEF lo
      <4>5. SubSeq(Sequential, lo + 1, lo + m) \in Seq(ToSet(Sequential))
        <5> DEFINE q == Sequential
                   S == ToSet(Sequential)
        <5>1. q \in Seq(S) /\ \A i \in (lo + 1)..(lo + m) : i \in 1..Len(q)
          BY <4>2, <4>3
        <5> HIDE DEF q, S
        <5>2. \A i \in (lo + 1)..(lo + m) : q[i] \in S
          BY <5>1
        <5>3. lo + 1 \in Int /\ lo + m \in Int
          BY <4>4
        <5>4. SubSeq(q, lo + 1, lo + m) \in Seq(S)
          BY <5>2, <5>3, SubSeqProperties, Zenon
        <5> QED BY <5>4 DEF q, S
      <4> QED BY <1>3, <4>5 DEF Collected, lo
    <3>2. results'[k] = Append(results[k], check_and_print(Chunk(k)[m + 1]))
      BY <2>1 DEF PoolInv
    <3> DEFINE q == results[k]
               o == check_and_print(Chunk(k)[m + 1])
    <3>3. Len(q) = m /\ q \in Seq(ToSet(Sequential))
      BY <1>4, <3>1
    <3> HIDE DEF q, o
    <3>4. Len(Append(q, o)) = Len(q) + 1
      BY <3>3
    <3> QED BY <3>2, <3>3, <3>4 DEF q, o
  <2>4. m \in Nat /\ m + 1 \in 1..Len(Chunk(k)) /\ \A i \in 1..(m + 1) : i \in 1..m \/ i = m + 1
    <3> DEFINE l == Len(Chunk(k))
    <3>1. m \in 0..l /\ m < l /\ l \in Nat
      BY <1>4, ChunksCover, SizeIsPositive
    <3> HIDE DEF l
    <3>2. m \in Nat /\ m + 1 \in 1..l /\ \A i \in 1..(m + 1) : i \in 1..m \/ i = m + 1
      BY <3>1
    <3> QED BY <3>2 DEF l
  <2>5. \A i \in 1..(m + 1) : ~Panics(to_check[Upto(k - 1) + i])
    BY <1>4, <1>5, <1>7, <2>4 DEF Calm
  <2>6. \A j \in 1..Chunks : \A i \in 1..Len(results'[j]) : ~Panics(to_check[Upto(j - 1) + i])
    BY <2>2, <2>3, <2>5 DEF Calm
  <2> QED BY <1>1, <1>2, <2>6 DEF Calm
<1> QED BY <1>6, <1>7

\* What the main thread joins did not panic.
LEMMA JoinCalm ==
  ASSUME run \in Runs, IsSeq(to_check), PoolInv, Calm, NEW k \in 1..Chunks, Join(k)
  PROVE  Calm'
<1>1. run' = run /\ to_check' = to_check /\ results' = results
  BY DEF Join, Loaded
<1>2. /\ Chunks' = Chunks /\ Sequential' = Sequential /\ (\A i : Upto(i)' = Upto(i) /\ Chunk(i)' = Chunk(i))
      /\ \A p : Panics(p)' = Panics(p)
  BY <1>1, SplitStays, RunStays
<1>3. CASE worker[k] = "panicked"
  <2>1. outputs' = outputs
    BY <1>3 DEF Join
  <2> QED BY <1>1, <1>2, <2>1 DEF Calm
<1>4. CASE worker[k] # "panicked"
  <2>1. worker[k] = "finished" /\ outputs' = outputs \o results[k] /\ \A j \in 1..(k - 1) : worker[j] = "joined"
    BY <1>4 DEF Join
  <2>2. PICK j \in 0..Chunks : /\ \A i \in 1..Chunks : worker[i] = "joined" <=> i <= j
                               /\ outputs = SubSeq(Sequential, 1, Upto(j))
    BY DEF PoolInv
  <2>3. Chunks \in Nat
    BY ChunksCover
  <2>4. j = k - 1
    <3>1. ~(k <= j)
      BY <2>1, <2>2
    <3>2. k = 1 \/ (k - 1 \in 1..Chunks /\ k - 1 \in 1..(k - 1))
      BY <2>3
    <3>3. k = 1 \/ k - 1 <= j
      BY <2>1, <2>2, <3>2
    <3> QED BY <2>3, <3>1, <3>3
  <2>5. Collected(k, Len(Chunk(k)))
    BY <2>1 DEF PoolInv
  <2> DEFINE lo == Upto(k - 1)
             hi == Upto(k)
  <2>6. lo \in 0..Files /\ hi \in 0..Files /\ lo < hi /\ Len(Chunk(k)) = hi - lo /\ Files \in Nat
    BY ChunksCover, SequentialIsSeq
  <2>7. outputs' = SubSeq(Sequential, 1, hi) /\ outputs = SubSeq(Sequential, 1, lo)
    BY <2>1, <2>2, <2>4, <2>5, NextChunk
  <2>8. Sequential \in Seq(ToSet(Sequential)) /\ Len(Sequential) = Files
    BY SequentialIsSeq
  <2>9. Len(results[k]) = hi - lo
    <3>1. Len(Chunk(k)) \in 0..Len(Chunk(k))
      BY <2>6
    <3>2. Len(results[k]) = Len(Chunk(k))
      BY <2>5, <3>1, NextFile
    <3> QED BY <2>6, <3>2
  <2> HIDE DEF lo, hi
  <2>10. Len(outputs') = hi /\ Len(outputs) = lo
    <3> DEFINE S == ToSet(Sequential)
               q == Sequential
    <3>1. q \in Seq(S) /\ Len(q) = Files
      BY <2>8
    <3> HIDE DEF S, q
    <3>2. Len(SubSeq(q, 1, hi)) = hi /\ Len(SubSeq(q, 1, lo)) = lo
      BY <2>6, <3>1
    <3> QED BY <2>7, <3>2 DEF q
  <2>11. \A i \in 1..hi : i \in 1..lo \/ (i - lo \in 1..(hi - lo) /\ lo + (i - lo) = i)
    BY <2>6
  <2>12. \A i \in 1..(hi - lo) : ~Panics(to_check[lo + i])
    BY <2>9 DEF Calm, lo
  <2>13. \A i \in 1..hi : ~Panics(to_check[i])
    BY <2>10, <2>11, <2>12 DEF Calm
  <2> QED BY <1>1, <1>2, <2>10, <2>13 DEF Calm
<1> QED BY <1>3, <1>4

\* When everything is joined, no file makes a thread panic.
LEMMA ReportCalm ==
  ASSUME run \in Runs, IsSeq(to_check), PoolInv, Calm, \A k \in DOMAIN worker : worker[k] = "joined"
  PROVE  \A p \in ToSet(to_check) : ~Panics(p)
<1>1. outputs = Sequential
  BY AllJoined
<1>2. Len(outputs) = Files /\ DOMAIN to_check = 1..Files
  BY <1>1, SequentialIsSeq
<1>3. \A p \in ToSet(to_check) : \E i \in 1..Files : to_check[i] = p
  BY <1>2, InSequence
<1> QED BY <1>2, <1>3 DEF Calm

\* Only Locate computes an offset, and only Spawn says what is checked.
LEMMA PositionNext ==
  ASSUME CheckInv, ScopeInv, PositionInv, [Next]_vars
  PROVE  PositionInv'
<1> DEFINE Asked == asked # -1 => Located /\ asked = offset(Code(Target).text, args.line - 1, args.col - 1)
           Are == \A p \in ToSet(to_check) : is_file(t, p)
           Done == Checked => \A p \in ToSet(to_check) : ~Panics(p)
<1>1. run \in Runs /\ IsSeq(sources) /\ IsSeq(to_check) /\ Asked /\ Are /\ Done
  BY DEF CheckInv, PositionInv
<1>2. run' = run
  BY DEF Next, Main, Worker, Refuse, build_project, LoadSources, Spawn, Join, Unwind, Report, Locate, Serve,
         ClaimIndex, FinishIndex, CheckFile, EndWorker, vars
<1>3. args' = args /\ t' = t /\ Target' = Target /\ (\A p : Panics(p)' = Panics(p) /\ Code(p)' = Code(p))
      /\ (Located' <=> Located)
  <2>1. args' = args /\ t' = t /\ \A p : Panics(p)' = Panics(p) /\ Code(p)' = Code(p)
    BY <1>2, RunStays
  <2> QED BY <2>1 DEF Target, Located
<1>4. asked' = asked => Asked'
  BY <1>1, <1>3
<1>5. to_check' = to_check => Are'
  BY <1>1, <1>3
<1>6. to_check' = to_check /\ (Checked' => Checked) => Done'
  BY <1>1, <1>3
<1>7. UNCHANGED <<to_check, results, outputs>> /\ Calm => Calm'
  <2> SUFFICES ASSUME UNCHANGED <<to_check, results, outputs>>, Calm PROVE Calm'
    OBVIOUS
  <2>1. Chunks' = Chunks /\ \A i : Upto(i)' = Upto(i)
    BY <1>2, SplitStays
  <2> QED BY <1>3, <2>1 DEF Calm
<1> HIDE DEF Asked, Are, Done
<1>8. CASE /\ UNCHANGED <<to_check, results, outputs, asked>>
           /\ pc' \in {"join", "unwind"} => pc \in {"join", "unwind"}
           /\ Checked' => Checked
  BY <1>4, <1>5, <1>6, <1>7, <1>8 DEF PositionInv, Asked, Are, Done
<1>9. CASE UNCHANGED vars
  <2>1. Checked' => Checked
    BY <1>3, <1>9 DEF Checked, Ended, vars
  <2> QED BY <1>8, <1>9, <2>1 DEF vars
<1>10. CASE Refuse \/ Unwind \/ Serve \/ build_project \/ LoadSources
  <2>1. UNCHANGED <<to_check, results, outputs, asked>> /\ pc' \notin {"join", "unwind"}
    BY <1>10 DEF Refuse, Unwind, Serve, build_project, LoadSources, Loaded, Pool, Exit
  <2>2. ~Checked'
    BY <1>3, <1>10 DEF Refuse, Unwind, Serve, build_project, LoadSources, Exit, Checked, Ended
  <2> QED BY <1>8, <2>1, <2>2
<1>11. CASE Spawn
  <2>1. /\ pc = "spawn" /\ pc' = "join" /\ asked' = asked /\ outputs' = outputs
    BY <1>11 DEF Spawn
  <2>2. outputs = <<>> /\ \A p \in ToSet(sources) : is_file(t, p)
    BY <2>1 DEF CheckInv, ScopeInv
  <2>3. ToSet(to_check') \subseteq ToSet(sources)
    BY <1>1, <1>11, SpawnedFiles
  <2>4. Are'
    BY <1>3, <2>2, <2>3 DEF Are
  <2>5. results' = [k \in 1..Chunks' |-> <<>>]
    BY <1>2, <1>11 DEF Spawn, Chunks, Size, Files, chunk_size, check_worker_count, args
  <2>6. \A k \in 1..Chunks' : results'[k] = <<>>
    BY <2>5
  <2>7. Len(<<>>) = 0 /\ 1..0 = {}
    OBVIOUS
  <2>8. Calm'
    BY <2>1, <2>2, <2>6, <2>7 DEF Calm
  <2>9. Done'
    BY <2>1 DEF Done, Checked, Ended
  <2> QED BY <1>4, <2>1, <2>4, <2>8, <2>9 DEF PositionInv, Asked, Are, Done
<1>12. CASE Report
  <2>1. /\ UNCHANGED <<to_check, asked>> /\ pc = "join" /\ pc' = "exit"
        /\ \A k \in DOMAIN worker : worker[k] = "joined"
    BY <1>12 DEF Report, Exit, Loaded
  <2>2. PoolInv /\ Calm
    BY <2>1 DEF CheckInv, PositionInv
  <2>3. \A p \in ToSet(to_check) : ~Panics(p)
    BY <1>1, <2>1, <2>2, ReportCalm
  <2>4. Done'
    BY <1>3, <2>1, <2>3 DEF Done
  <2> QED BY <1>4, <1>5, <2>1, <2>4 DEF PositionInv, Asked, Are, Done
<1>13. CASE Locate
  <2>1. /\ to_check' = to_check /\ pc' = "exit" /\ args.cmd # "check"
        /\ IF ~Located THEN asked' = asked ELSE asked' = offset(Code(Target).text, args.line - 1, args.col - 1)
    BY <1>13 DEF Locate, Exit, Loaded
  <2>2. Asked'
    <3>1. CASE Located
      BY <1>3, <2>1, <3>1 DEF Asked
    <3>2. CASE ~Located
      BY <1>4, <2>1, <3>2
    <3> QED BY <3>1, <3>2
  <2>3. Done'
    BY <1>3, <2>1 DEF Done, Checked
  <2> QED BY <1>5, <2>1, <2>2, <2>3 DEF PositionInv, Asked, Are, Done
<1>14. ASSUME NEW k \in DOMAIN worker, Join(k) \/ CheckFile(k) \/ EndWorker(k) \/ ClaimIndex(k) \/ FinishIndex(k)
       PROVE  PositionInv'
  <2>1. UNCHANGED <<to_check, asked, exit>> /\ (pc' = pc \/ (pc = "join" /\ pc' = "unwind"))
    BY <1>14 DEF Join, CheckFile, EndWorker, ClaimIndex, FinishIndex, Loaded
  <2>2. Checked' => Checked
    BY <1>3, <2>1 DEF Checked, Ended
  <2>3. ASSUME pc \in {"join", "unwind"} PROVE Calm'
    <3>1. PoolInv /\ Calm /\ k \in 1..Chunks
      BY <1>14, <2>3 DEF CheckInv, PositionInv, PoolInv
    <3>2. CASE Join(k)
      BY <1>1, <3>1, <3>2, JoinCalm
    <3>3. CASE CheckFile(k)
      BY <1>1, <3>1, <3>3, CheckFileCalm
    <3>4. CASE EndWorker(k) \/ ClaimIndex(k) \/ FinishIndex(k)
      <4>1. UNCHANGED <<to_check, results, outputs>>
        BY <3>4 DEF EndWorker, ClaimIndex, FinishIndex, Loaded
      <4> QED BY <1>7, <3>1, <4>1
    <3> QED BY <1>14, <3>2, <3>3, <3>4
  <2>4. pc' \in {"join", "unwind"} => Calm'
    BY <2>1, <2>3
  <2> QED BY <1>4, <1>5, <1>6, <2>1, <2>2, <2>4 DEF PositionInv, Asked, Are, Done
<1> QED BY <1>9, <1>10, <1>11, <1>12, <1>13, <1>14 DEF Next, Main, Worker

\* The report has an entry for every diagnostic that is shown.
LEMMA ShownIsPrinted ==
  ASSUME run \in Runs, IsSeq(to_check), NEW p \in ToSet(to_check), NEW d \in ToSet(Shown(p)),
         \A f \in ToSet(to_check) : is_file(t, f),
         stdout = Printed(Sequential) \o Footer(Sequential)
  PROVE  Entry(p, d) \in ToSet(stdout) /\ d \in ToSet(Code(p).diags)
<1> DEFINE shown(f) == [i \in DOMAIN Shown(f) |-> Entry(f, Shown(f)[i])]
           out(f) == shown(f) \o Outcomes(f)
           part(f) == ToSet(shown(f)) \cup ToSet(Outcomes(f))
           tail == ToSet(Footer(Sequential))
           S == (UNION {part(f) : f \in ToSet(to_check)}) \cup tail
<1>0. tail \subseteq S /\ \A f \in ToSet(to_check) : part(f) \subseteq S
  <2> HIDE DEF part, tail
  <2> QED OBVIOUS
<1> HIDE DEF S
<1>1. ASSUME NEW f \in ToSet(to_check)
      PROVE  /\ Code(f).diags \in Seq(ToSet(Code(f).diags)) /\ Code(f).outcomes \in Nat
  <2>1. canonicalize(t, f) \in run.tree.files
    BY DEF is_file, t
  <2>2. canonicalize(t, f) \in DOMAIN run.rb
    BY <2>1, RunsAssumption
  <2> QED BY <2>2, RunsAssumption DEF Code
<1>2. ASSUME NEW f \in ToSet(to_check)
      PROVE  /\ Len(Shown(f)) \in Nat /\ DOMAIN Shown(f) = 1..Len(Shown(f))
             /\ ToSet(Shown(f)) \subseteq ToSet(Code(f).diags)
  <2> DEFINE X == ToSet(Code(f).diags)
             T == {x \in X : args.format # "agent" \/ x.constraint}
  <2>1. Shown(f) = Keep(Code(f).diags, T)
    BY DEF Shown
  <2>2. Code(f).diags \in Seq(X)
    BY <1>1
  <2> HIDE DEF X, T
  <2>3. Keep(Code(f).diags, T) \in Seq(X) /\ ToSet(Keep(Code(f).diags, T)) = X \cap T
    BY <2>2, KeepElements DEF X
  <2>4. Shown(f) \in Seq(X) /\ ToSet(Shown(f)) \subseteq X
    BY <2>1, <2>3
  <2> QED BY <2>4 DEF X
<1>3. ASSUME NEW f \in ToSet(to_check) PROVE shown(f) \in Seq(S) /\ Outcomes(f) \in Seq(S)
  <2> DEFINE a == shown(f)
             b == Outcomes(f)
             n == Len(Shown(f))
  <2>1. ToSet(a) \subseteq S /\ ToSet(b) \subseteq S
    <3>1. part(f) \subseteq S
      BY <1>0
    <3>2. ToSet(a) \subseteq part(f) /\ ToSet(b) \subseteq part(f)
      <4> HIDE DEF shown
      <4> QED BY Zenon
    <3> QED BY <3>1, <3>2, Zenon
  <2>2. n \in Nat /\ a = [i \in 1..n |-> Entry(f, Shown(f)[i])]
    BY <1>2
  <2>3. \E m \in Nat : b = [i \in 1..m |-> b[i]]
    <3>1. CASE args.format = "agent"
      <4> DEFINE m == Code(f).outcomes
      <4>1. m \in Nat /\ b = [i \in 1..m |-> [kind |-> "outcome", path |-> f]]
        BY <1>1, <3>1 DEF Outcomes
      <4> HIDE DEF m, b
      <4>2. b = [i \in 1..m |-> b[i]]
        BY <4>1
      <4> QED BY <4>1, <4>2
    <3>2. CASE args.format # "agent"
      <4>1. b = <<>>
        BY <3>2 DEF Outcomes
      <4> HIDE DEF b
      <4>2. b = [i \in 1..0 |-> b[i]]
        BY <4>1
      <4> QED BY <4>2
    <3> QED BY <3>1, <3>2
  <2>4. PICK m \in Nat : b = [i \in 1..m |-> b[i]]
    BY <2>3
  <2>5. DOMAIN a = 1..n /\ a = [i \in 1..n |-> a[i]]
    BY <2>2
  <2> HIDE DEF a, b, n
  <2>6. DOMAIN b = 1..m
    BY <2>4
  <2>7. (\A i \in 1..n : a[i] \in S) /\ (\A i \in 1..m : b[i] \in S)
    BY <2>1, <2>5, <2>6, InSequence
  <2>8. a \in [1..n -> S] /\ b \in [1..m -> S]
    BY <2>4, <2>5, <2>7
  <2>9. a \in Seq(S) /\ b \in Seq(S)
    BY <2>2, <2>8
  <2> QED BY <2>9 DEF a, b
<1>4. Footer(Sequential) \in Seq(S)
  <2> DEFINE a == Footer(Sequential)
             foot == [kind |-> "footer", checked |-> Len(to_check), blocks |-> Blocks(Sequential)]
  <2>1. ToSet(a) \subseteq S
    BY <1>0
  <2>2. a = <<>> \/ a = <<foot>>
    BY DEF Footer
  <2> HIDE DEF foot, a
  <2> DEFINE F == {foot}
  <2>6. foot \in F
    OBVIOUS
  <2> HIDE DEF F
  <2>7. <<>> \in Seq(F) /\ <<foot>> \in Seq(F)
    BY <2>6
  <2>3. a \in Seq(F)
    BY <2>2, <2>7
  <2>4. a \in Seq(ToSet(a))
    BY <2>3, SeqOfElements DEF IsSeq
  <2>5. a \in Seq(S)
    BY <2>1, <2>4, SeqMonotonic
  <2> QED BY <2>5 DEF a
<1>5. Entry(p, d) \in ToSet(shown(p))
  <2>1. PICK i \in DOMAIN Shown(p) : Shown(p)[i] = d
    BY InSequence
  <2>2. i \in DOMAIN shown(p) /\ shown(p)[i] = Entry(p, d)
    BY <2>1
  <2> HIDE DEF shown
  <2> QED BY <2>2, InSequence
<1> HIDE DEF shown
<1>6. \A f \in ToSet(to_check) : out(f) \in Seq(S)
  BY <1>3
<1>7. Entry(p, d) \in ToSet(out(p))
  <2>1. \A x : x \in ToSet(shown(p) \o Outcomes(p)) <=> x \in ToSet(shown(p)) \/ x \in ToSet(Outcomes(p))
    BY <1>3, InConcatenation
  <2> QED BY <1>5, <2>1
<1>8. \A f : check_and_print(f).out = out(f)
  BY DEF check_and_print, shown
<1> HIDE DEF out
<1> DEFINE ss == [i \in DOMAIN Sequential |-> Sequential[i].out]
<1>9. /\ DOMAIN to_check = 1..Files /\ Files \in Nat /\ DOMAIN Sequential = 1..Files
      /\ \A i \in 1..Files : Sequential[i] = check_and_print(to_check[i])
  BY SequentialIsSeq
<1>10. \A i \in 1..Files : to_check[i] \in ToSet(to_check)
  BY <1>9, InSequence
<1>11. ss = [i \in 1..Files |-> out(to_check[i])]
  BY <1>8, <1>9
<1>12. Printed(Sequential) = FlattenSeq(ss)
  BY DEF Printed
<1> HIDE DEF ss
<1>13. ss \in Seq(Seq(S)) /\ Len(ss) = Files
  <2>1. ss \in [1..Files -> Seq(S)]
    BY <1>6, <1>10, <1>11
  <2> QED BY <1>9, <2>1
<1>14. PICK i \in 1..Files : to_check[i] = p
  BY <1>9, InSequence
<1>15. ss[i] = out(p)
  BY <1>11, <1>14
<1>16. FlattenSeq(ss) \in Seq(S) /\ Entry(p, d) \in ToSet(FlattenSeq(ss))
  BY <1>7, <1>13, <1>15, FlattenElements
<1>17. Entry(p, d) \in ToSet(stdout)
  <2> DEFINE a == FlattenSeq(ss)
             b == Footer(Sequential)
  <2>1. a \in Seq(S) /\ b \in Seq(S) /\ stdout = a \o b /\ Entry(p, d) \in ToSet(a)
    BY <1>4, <1>12, <1>16
  <2> HIDE DEF a, b
  <2> QED BY <2>1, InConcatenation
<1> QED BY <1>2, <1>17

\* A position printed by a check, and one typed by hand, name what they should.
LEMMA PositionsFollow ==
  ASSUME CheckInv, ReportIsSequential, PositionInv
  PROVE  PositionsLeadBack
<1>1. run \in Runs /\ IsSeq(to_check)
  BY DEF CheckInv
<1>2. ASSUME NEW f, is_file(t, f)
      PROVE  /\ Code(f).text \in Seq(Char)
             /\ \A d \in ToSet(Code(f).diags) : d.start \in 0..Bytes(Code(f).text)
  <2>1. canonicalize(t, f) \in run.tree.files
    BY <1>2 DEF is_file, t
  <2>2. canonicalize(t, f) \in DOMAIN run.rb
    BY <1>1, <2>1, RunsAssumption
  <2> QED BY <1>1, <2>2, RunsAssumption DEF Code
<1>3. ASSUME Checked, NEW p \in ToSet(to_check), NEW d \in ToSet(Shown(p))
      PROVE  \E e \in ToSet(stdout) :
                e.kind = "diagnostic" /\ e.at.path = p /\ e.level = d.severity
                /\ offset(Code(p).text, e.at.line - 1, e.at.col - 1) = d.start
  <2>1. stdout = Printed(Sequential) \o Footer(Sequential)
    BY <1>3 DEF ReportIsSequential, Checked
  <2>2. is_file(t, p) /\ \A f \in ToSet(to_check) : is_file(t, f)
    BY DEF PositionInv
  <2>3. Entry(p, d) \in ToSet(stdout) /\ d \in ToSet(Code(p).diags)
    BY <1>1, <2>1, <2>2, ShownIsPrinted
  <2> DEFINE text == Code(p).text
             pos == line_col(text, d.start)
  <2>4. text \in Seq(Char) /\ d.start \in 0..Bytes(text)
    BY <1>2, <2>2, <2>3
  <2>5. ~line_col_panics(text, d.start)
    BY <1>3 DEF PositionInv, Panics
  <2>6. d.start \in Boundaries(text)
    BY <2>4, <2>5, AcceptedIsBoundary
  <2>7. pos.line \in Nat /\ pos.col \in Nat /\ offset(text, pos.line, pos.col) = d.start
    BY <2>4, <2>6, PositionComesBack
  <2>8. /\ Entry(p, d).kind = "diagnostic" /\ Entry(p, d).at.path = p /\ Entry(p, d).level = d.severity
        /\ Entry(p, d).at.line = pos.line + 1 /\ Entry(p, d).at.col = pos.col + 1
    BY DEF Entry, At
  <2> HIDE DEF pos, text
  <2>9. Entry(p, d).at.line - 1 = pos.line /\ Entry(p, d).at.col - 1 = pos.col
    BY <2>7, <2>8
  <2>10. offset(text, Entry(p, d).at.line - 1, Entry(p, d).at.col - 1) = d.start
    BY <2>7, <2>9
  <2> QED BY <2>3, <2>8, <2>10 DEF text
<1>4. ASSUME asked # -1
      PROVE  /\ asked \in Boundaries(Code(Target).text)
             /\ \A b \in {x \in Boundaries(Code(Target).text) : x < asked} :
                   line_col(Code(Target).text, b).line >= args.line - 1 => line_col(Code(Target).text, b).col < args.col - 1
  <2> DEFINE text == Code(Target).text
             line == args.line - 1
             col == args.col - 1
  <2>1. Located /\ asked = offset(text, line, col)
    BY <1>4 DEF PositionInv
  <2>2. text \in Seq(Char)
    BY <1>2, <2>1 DEF Located, readable
  <2>3. line \in Nat /\ col \in Nat
    BY <1>1, <2>1, RunsAssumption DEF Located, args
  <2> HIDE DEF text, line, col
  <2>4. /\ asked \in Boundaries(text)
        /\ \A b \in Boundaries(text) : b < asked /\ line_col(text, b).line >= line => line_col(text, b).col < col
    BY <2>1, <2>2, <2>3, PositionNames
  <2> QED BY <2>4 DEF text, line, col
<1> QED BY <1>3, <1>4 DEF PositionsLeadBack

\* PositionsComeBack: for every text, also one with characters of several bytes
\* or code units, and for every number of threads, the position a check prints
\* for a diagnostic leads `ita definition` and `ita hover` back to the byte the
\* diagnostic starts at; and every location typed by hand, past the end of its
\* line or of the file too, names the first character of the line at or past
\* the column (LineIndex::line_col, LineIndex::offset, check_and_print,
\* parse_location_arg).
THEOREM PositionsComeBack == Spec => []PositionsLeadBack
<1> DEFINE Inv == CheckInv /\ ScopeInv /\ ReportIsSequential /\ ExitTells /\ PositionInv
<1>1. Init => Inv
  BY CheckInvInit, ScopeInit, ReportedInit, PositionInit
<1>2. Inv /\ [Next]_vars => Inv'
  BY CheckInvNext, ScopeNext, ReportedNext, PositionNext
<1>3. Inv => PositionsLeadBack
  BY PositionsFollow
<1> QED BY <1>1, <1>2, <1>3, PTL DEF Spec

----------------------------------------------------------------------------
(* The closed world.                                                       *)

\* The directories of the walk from the real directory of a root.
LEMMA ResolvedWalk ==
  ASSUME NEW r, upward_start(t, r) # NoPath, upward_start(t, r) \in Seq(ToSet(upward_start(t, r)))
  PROVE  /\ \A d \in ResolvedDirs(t, r) : \E n \in 0..Len(upward_start(t, r)) :
              d = [level |-> Len(upward_start(t, r)) - n + 1, form |-> 1, dir |-> SubSeq(upward_start(t, r), 1, n)]
         /\ \A n \in 0..Len(upward_start(t, r)) : Len(upward_start(t, r)) - n < Levels =>
              [level |-> Len(upward_start(t, r)) - n + 1, form |-> 1, dir |-> SubSeq(upward_start(t, r), 1, n)] \in ResolvedDirs(t, r)
<1> DEFINE dir == upward_start(t, r)
           N == Len(dir)
           start == [form |-> 1, dir |-> dir]
           At1(n) == [level |-> N - n + 1, form |-> 1, dir |-> SubSeq(dir, 1, n)]
           up(c) == [level |-> c[1], form |-> c[2].form, dir |-> SubSeq(c[2].dir, 1, Len(c[2].dir) - c[1] + 1)]
           Q == {q \in (1..Levels) \X {start} : q[2].dir # NoPath /\ q[1] <= Len(q[2].dir) + 1}
<1>1. N \in Nat
  OBVIOUS
<1>2. ResolvedDirs(t, r) = {up(c) : c \in Q}
  BY DEF ResolvedDirs, Ascent
<1>3. start.form = 1 /\ start.dir = dir /\ dir # NoPath
  OBVIOUS
<1> HIDE DEF N, start, dir
<1>4. ASSUME NEW d \in ResolvedDirs(t, r) PROVE \E n \in 0..N : d = At1(n)
  <2>1. PICK c \in Q : d = up(c)
    BY <1>2
  <2>2. c[1] \in 1..Levels /\ c[2] = start /\ c[1] <= N + 1
    BY <1>3 DEF N
  <2> DEFINE n == N - c[1] + 1
  <2>3. n \in 0..N /\ N - n + 1 = c[1]
    BY <1>1, <2>2 DEF Levels
  <2>4. up(c) = [level |-> c[1], form |-> 1, dir |-> SubSeq(dir, 1, n)]
    BY <1>3, <2>2 DEF N
  <2> QED BY <2>1, <2>3, <2>4
<1>5. ASSUME NEW n \in 0..N, N - n < Levels PROVE At1(n) \in ResolvedDirs(t, r)
  <2> DEFINE c == <<N - n + 1, start>>
  <2>1. N - n + 1 \in 1..Levels /\ N - n + 1 <= N + 1 /\ N - (N - n + 1) + 1 = n
    BY <1>1, <1>5 DEF Levels
  <2>2. c \in Q
    BY <1>3, <2>1 DEF N
  <2>3. up(c) = [level |-> N - n + 1, form |-> 1, dir |-> SubSeq(dir, 1, N - (N - n + 1) + 1)]
    BY <1>3 DEF N
  <2> QED BY <1>2, <2>1, <2>2, <2>3
<1> QED BY <1>4, <1>5 DEF dir, N

\* The nearest Gemfile above a root.
LEMMA NearestGemfile ==
  ASSUME NEW r, BundleDir(r) # NoPath, upward_start(t, r) \in Seq(ToSet(upward_start(t, r)))
  PROVE  \E n \in 0..Len(upward_start(t, r)) :
           /\ BundleDir(r) = SubSeq(upward_start(t, r), 1, n) /\ Len(BundleDir(r)) = n
           /\ is_file(t, Append(SubSeq(upward_start(t, r), 1, n), "Gemfile"))
           /\ \A m \in 0..Len(upward_start(t, r)) :
                is_file(t, Append(SubSeq(upward_start(t, r), 1, m), "Gemfile")) => m <= n
<1> DEFINE dir == upward_start(t, r)
           N == Len(dir)
           has(n) == is_file(t, Append(SubSeq(dir, 1, n), "Gemfile"))
           hits == {n \in 0..N : has(n)}
           top == CHOOSE n \in hits : \A m \in hits : m <= n
<1>1. N \in Nat /\ \A n \in 0..N : Len(SubSeq(dir, 1, n)) = n
  OBVIOUS
<1>2. BundleDir(r) = IF hits = {} THEN NoPath ELSE SubSeq(dir, 1, top)
  BY DEF BundleDir
<1> HIDE DEF N, dir, has
<1>3. hits # {}
  BY <1>2
<1>4. \E n \in hits : \A m \in hits : m <= n
  <2> DEFINE T == {x \in 0..N : N - x \in hits}
  <2>1. PICK n \in hits : TRUE
    BY <1>3
  <2>2. n \in 0..N /\ N - n \in 0..N /\ N - (N - n) = n
    BY <1>1
  <2>3. N - n \in T /\ T \subseteq 0..N
    BY <2>1, <2>2
  <2>4. 0..N \subseteq Nat
    BY <1>1
  <2> HIDE DEF T
  <2>5. PICK x \in T : \A y \in T : x <= y
    <3>1. T \subseteq Nat /\ T # {}
      BY <2>3, <2>4
    <3> QED BY <3>1, LeastNatural
  <2>6. x \in 0..N /\ N - x \in hits
    BY <2>5 DEF T
  <2>7. ASSUME NEW m \in hits PROVE m <= N - x
    <3>1. m \in 0..N /\ N - m \in 0..N /\ N - (N - m) = m
      BY <1>1
    <3>2. N - m \in T
      BY <3>1 DEF T
    <3>3. x <= N - m
      BY <2>5, <3>2
    <3> QED BY <1>1, <2>6, <3>1, <3>3
  <2> QED BY <2>6, <2>7
<1>5. top \in hits /\ \A m \in hits : m <= top
  BY <1>4
<1> HIDE DEF top
<1>6. top \in 0..N /\ has(top) /\ BundleDir(r) = SubSeq(dir, 1, top)
  BY <1>2, <1>3, <1>5
<1>7. \A m \in 0..N : has(m) => m <= top
  BY <1>5
<1> QED BY <1>1, <1>6, <1>7 DEF has, N, dir

\* The walk finds the lock of the bundle.
LEMMA FindsBundleLock ==
  ASSUME NEW r, BundleDir(r) # NoPath, upward_start(t, r) # NoPath,
         upward_start(t, r) \in Seq(ToSet(upward_start(t, r))), WithinReach(r)
  PROVE  gems_detected(t, r) /\ find_upward_file(t, r, "Gemfile.lock") = Append(BundleDir(r), "Gemfile.lock")
<1> DEFINE dir == upward_start(t, r)
           N == Len(dir)
           dirs == ResolvedDirs(t, r)
           At1(n) == [level |-> N - n + 1, form |-> 1, dir |-> SubSeq(dir, 1, n)]
           rel == <<"Gemfile.lock">>
           hits == {d \in dirs : canonicalize(t, d.dir \o rel) \in t.files}
           before(d, e) == d.level < e.level \/ (d.level = e.level /\ d.form <= e.form)
           Lock(n) == Append(SubSeq(dir, 1, n), "Gemfile.lock")
           Gemfile(n) == Append(SubSeq(dir, 1, n), "Gemfile")
<1>1. PICK n \in 0..N : /\ BundleDir(r) = SubSeq(dir, 1, n) /\ Len(BundleDir(r)) = n
                        /\ is_file(t, Gemfile(n))
                        /\ \A m \in 0..N : is_file(t, Gemfile(m)) => m <= n
  BY NearestGemfile
<1>2. /\ N - n < Levels /\ is_file(t, Lock(n))
      /\ \A m \in 0..N : is_file(t, Lock(m)) => m <= n
  <2>1. N \in Nat /\ \A m \in 0..N : m <= n \/ m \in (n + 1)..N
    OBVIOUS
  <2>2. /\ N - n < Levels /\ is_file(t, Lock(n)) /\ \A m \in (n + 1)..N : ~is_file(t, Lock(m))
    BY <1>1 DEF WithinReach
  <2> QED BY <2>1, <2>2
<1>3. /\ \A d \in dirs : \E m \in 0..N : d = At1(m)
      /\ \A m \in 0..N : N - m < Levels => At1(m) \in dirs
  BY ResolvedWalk
<1>4. N \in Nat /\ \A m \in 0..N : SubSeq(dir, 1, m) \o rel = Lock(m)
  OBVIOUS
<1>5. \A m : At1(m).level = N - m + 1 /\ At1(m).form = 1 /\ At1(m).dir = SubSeq(dir, 1, m)
  OBVIOUS
<1>6. find_upward_file(t, r, "Gemfile.lock")
        = IF hits = {} THEN NoPath ELSE (CHOOSE d \in hits : \A e \in hits : before(d, e)).dir \o rel
  BY DEF find_upward_file, Nearest
<1>7. gems_detected(t, r)
  BY <1>1, <1>2, <1>3, <1>5 DEF gems_detected, HasGems
<1> HIDE DEF dirs, N, At1, dir, rel
<1>8. At1(n) \in hits
  BY <1>2, <1>3, <1>4, <1>5 DEF is_file
<1>9. ASSUME NEW e \in hits PROVE \E m \in 0..N : e = At1(m) /\ m <= n
  <2>1. PICK m \in 0..N : e = At1(m)
    BY <1>3
  <2>2. is_file(t, Lock(m))
    BY <1>4, <1>5, <2>1 DEF is_file
  <2> QED BY <1>2, <2>1, <2>2
<1>10. \A e \in hits : before(At1(n), e)
  <2> TAKE e \in hits
  <2>1. PICK m \in 0..N : e = At1(m) /\ m <= n
    BY <1>9
  <2>2. e.level = N - m + 1 /\ e.form = 1 /\ At1(n).level = N - n + 1 /\ At1(n).form = 1
    BY <1>5, <2>1
  <2>3. N - n + 1 < N - m + 1 \/ N - n + 1 = N - m + 1
    BY <1>4, <2>1
  <2> QED BY <2>2, <2>3
<1> DEFINE d == CHOOSE x \in hits : \A e \in hits : before(x, e)
<1>11. d \in hits /\ before(d, At1(n))
  BY <1>8, <1>10
<1> HIDE DEF d
<1>12. d.dir = SubSeq(dir, 1, n)
  <2>1. PICK m \in 0..N : d = At1(m) /\ m <= n
    BY <1>9, <1>11
  <2>2. N - m + 1 <= N - n + 1
    <3>1. d.level = N - m + 1 /\ At1(n).level = N - n + 1
      BY <1>5, <2>1
    <3>2. N - m + 1 < N - n + 1 \/ N - m + 1 = N - n + 1
      BY <1>11, <3>1
    <3> QED BY <1>4, <3>2
  <2>3. m = n
    BY <1>4, <2>1, <2>2
  <2> QED BY <1>5, <2>1, <2>3
<1>13. find_upward_file(t, r, "Gemfile.lock") = d.dir \o rel
  BY <1>6, <1>8 DEF d
<1>14. find_upward_file(t, r, "Gemfile.lock") = Lock(n)
  BY <1>4, <1>12, <1>13
<1> QED BY <1>1, <1>7, <1>14

\* The directories an upward walk starts from are paths.
LEMMA StartsArePaths ==
  ASSUME run \in Runs, NEW r \in ToSet(args.roots)
  PROVE  /\ upward_start(t, r) # NoPath => IsSeq(upward_start(t, r))
         /\ LexicalStart(t, r) # NoPath => IsSeq(LexicalStart(t, r))
<1>1. ASSUME NEW p, IsSeq(p), p # <<>> PROVE IsSeq(Front(p))
  <2> DEFINE S == ToSet(p)
  <2>1. p \in Seq(S)
    BY <1>1 DEF IsSeq
  <2> HIDE DEF S
  <2>2. SubSeq(p, 1, Len(p) - 1) \in Seq(S)
    <3>1. \A i \in 1..(Len(p) - 1) : i \in 1..Len(p)
      BY <2>1
    <3>2. Len(p) - 1 \in Int
      BY <2>1
    <3> QED BY <2>1, <3>1, <3>2, SubSeqProperties
  <2>3. Front(p) \in Seq(S)
    BY <2>2 DEF Front
  <2> QED BY <2>3, SeqOfElements
<1>2. IsSeq(r)
  BY RunsAssumption DEF args, IsSeq
<1>3. LexicalStart(t, r) # NoPath => IsSeq(LexicalStart(t, r))
  BY <1>1, <1>2 DEF LexicalStart, parent
<1>4. ASSUME upward_start(t, r) # NoPath PROVE IsSeq(upward_start(t, r))
  <2> DEFINE real == canonicalize(t, r)
  <2>1. real # NoPath
    BY <1>4 DEF upward_start
  <2>2. r \in DOMAIN t.real /\ real = t.real[r]
    BY <2>1 DEF canonicalize
  <2>3. IsSeq(real)
    BY <2>2, RunsAssumption DEF t, IsSeq
  <2> HIDE DEF real
  <2>4. upward_start(t, r) = real \/ (real # <<>> /\ upward_start(t, r) = Front(real))
    BY <1>4 DEF upward_start, parent, real
  <2> QED BY <1>1, <2>3, <2>4
<1> QED BY <1>3, <1>4

\* A walk visits one directory for each level and form.
LEMMA UpwardWalk ==
  ASSUME run \in Runs, NEW r \in ToSet(args.roots)
  PROVE  /\ \A d \in upward_dirs(t, r) : d.level \in 1..Levels /\ d.form \in 1..2 /\ IsSeq(d.dir)
         /\ \A d, e \in upward_dirs(t, r) : d.level = e.level /\ d.form = e.form => d.dir = e.dir
<1> DEFINE a == [form |-> 1, dir |-> LexicalStart(t, r)]
           b == [form |-> 2, dir |-> upward_start(t, r)]
           up(c) == [level |-> c[1], form |-> c[2].form, dir |-> SubSeq(c[2].dir, 1, Len(c[2].dir) - c[1] + 1)]
           Q == {q \in (1..Levels) \X {a, b} : q[2].dir # NoPath /\ q[1] <= Len(q[2].dir) + 1}
<1>1. upward_dirs(t, r) = {up(c) : c \in Q}
  BY DEF upward_dirs, Ascent
<1>2. a.form = 1 /\ b.form = 2 /\ (a.dir # NoPath => IsSeq(a.dir)) /\ (b.dir # NoPath => IsSeq(b.dir))
  BY StartsArePaths
<1> HIDE DEF a, b
<1>3. ASSUME NEW c \in Q
      PROVE  up(c).level \in 1..Levels /\ up(c).form \in 1..2 /\ IsSeq(up(c).dir) /\ (c[2] = a \/ c[2] = b)
  <2>1. c[1] \in 1..Levels /\ (c[2] = a \/ c[2] = b) /\ c[2].dir # NoPath /\ c[1] <= Len(c[2].dir) + 1
    OBVIOUS
  <2>2. up(c).level = c[1] /\ up(c).form = c[2].form /\ up(c).dir = SubSeq(c[2].dir, 1, Len(c[2].dir) - c[1] + 1)
    OBVIOUS
  <2> DEFINE p == c[2].dir
             m == Len(p) - c[1] + 1
             S == ToSet(p)
  <2>3. p \in Seq(S)
    BY <1>2, <2>1 DEF IsSeq
  <2>4. c[1] \in Nat /\ 1 <= c[1]
    BY <2>1 DEF Levels
  <2> HIDE DEF p, S
  <2>5. m \in Int /\ \A i \in 1..m : i \in 1..Len(p)
    BY <2>3, <2>4
  <2>6. SubSeq(p, 1, m) \in Seq(S)
    <3>1. \A i \in 1..m : p[i] \in S
      BY <2>3, <2>5
    <3> HIDE DEF m
    <3> QED BY <2>5, <3>1, SubSeqProperties
  <2>7. IsSeq(SubSeq(p, 1, m))
    BY <2>6, SeqOfElements
  <2>8. c[2].form = 1 \/ c[2].form = 2
    BY <1>2, <2>1
  <2>9. c[2].form \in 1..2
    BY <2>8
  <2> QED BY <2>1, <2>2, <2>7, <2>9 DEF p
<1>4. ASSUME NEW c \in Q, NEW e \in Q, up(c).level = up(e).level, up(c).form = up(e).form
      PROVE  up(c).dir = up(e).dir
  <2>1. c[1] = e[1] /\ c[2].form = e[2].form
    BY <1>4
  <2>2. c[2] = e[2]
    BY <1>2, <1>3, <2>1
  <2> QED BY <2>1, <2>2
<1> HIDE DEF Q, up
<1> QED BY <1>1, <1>3, <1>4

\* Where an upward walk finds what it looks for, and the order it looks in.
Hits(dirs, rel, kind) == {d \in dirs : canonicalize(t, d.dir \o rel) \in kind}
Before(d, e) == d.level < e.level \/ (d.level = e.level /\ d.form <= e.form)
\* Nearest is a place of the walk, and no other one is before it.
LEMMA NearestIsFirst ==
  ASSUME NEW dirs, \A d \in dirs : d.level \in 1..Levels /\ d.form \in 1..2, NEW rel, NEW kind,
         Hits(dirs, rel, kind) # {}
  PROVE  \E d \in Hits(dirs, rel, kind) :
            /\ \A e \in Hits(dirs, rel, kind) : Before(d, e)
            /\ Nearest(t, dirs, rel, kind) = d.dir \o rel
<1> DEFINE H == Hits(dirs, rel, kind)
           T == {2 * d.level + d.form : d \in H}
           f == CHOOSE d \in H : \A e \in H : Before(d, e)
<1>1. \A d \in H : d.level \in Nat /\ d.form \in 1..2 /\ 2 * d.level + d.form \in Nat
  BY DEF Hits, Levels
<1>2. Nearest(t, dirs, rel, kind) = f.dir \o rel
  BY DEF Nearest, Hits, Before
<1> HIDE DEF H
<1>3. PICK x \in T : \A y \in T : x <= y
  <2>1. T \subseteq Nat /\ T # {}
    BY <1>1 DEF H
  <2> HIDE DEF T
  <2> QED BY <2>1, LeastNatural
<1>4. PICK d \in H : x = 2 * d.level + d.form
  BY <1>3
<1>5. ASSUME NEW e \in H PROVE Before(d, e)
  <2>1. 2 * d.level + d.form <= 2 * e.level + e.form
    BY <1>3, <1>4
  <2>2. d.level \in Nat /\ d.form \in 1..2 /\ e.level \in Nat /\ e.form \in 1..2
    BY <1>1
  <2> QED BY <2>1, <2>2 DEF Before
<1>6. f \in H /\ \A e \in H : Before(f, e)
  BY <1>5
<1> HIDE DEF f
<1> QED BY <1>2, <1>6 DEF H

\* The gems of a root lie below the nearest sorbet/rbi, when that has gems.
LEMMA GemsBelowRbi ==
  ASSUME run \in Runs, NEW r \in ToSet(args.roots),
         find_upward_dir(t, r, <<"sorbet", "rbi", "gems">>) # NoPath,
         find_upward_dir(t, r, <<"sorbet", "rbi">>) # NoPath =>
            is_dir(t, Append(find_upward_dir(t, r, <<"sorbet", "rbi">>), "gems"))
  PROVE  /\ find_upward_dir(t, r, <<"sorbet", "rbi">>) # NoPath
         /\ find_upward_dir(t, r, <<"sorbet", "rbi", "gems">>) = Append(find_upward_dir(t, r, <<"sorbet", "rbi">>), "gems")
         /\ is_dir(t, find_upward_dir(t, r, <<"sorbet", "rbi", "gems">>))
<1> DEFINE dirs == upward_dirs(t, r)
           rbi == <<"sorbet", "rbi">>
           gems == <<"sorbet", "rbi", "gems">>
           R == Hits(dirs, rbi, t.dirs)
           G == Hits(dirs, gems, t.dirs)
<1>1. /\ \A d \in dirs : d.level \in 1..Levels /\ d.form \in 1..2 /\ IsSeq(d.dir)
      /\ \A d, e \in dirs : d.level = e.level /\ d.form = e.form => d.dir = e.dir
  BY UpwardWalk
<1>2. /\ find_upward_dir(t, r, gems) = Nearest(t, dirs, gems, t.dirs)
      /\ find_upward_dir(t, r, rbi) = Nearest(t, dirs, rbi, t.dirs)
  BY DEF find_upward_dir
<1>3. NoPath \notin DOMAIN t.real /\ NoPath \notin t.dirs
  BY RunsAssumption DEF t
<1>4. \A d \in dirs : d.dir \o gems = Append(d.dir \o rbi, "gems") /\ d.dir \o gems # <<>> /\ Front(d.dir \o gems) = d.dir \o rbi
  <2> SUFFICES ASSUME NEW d \in dirs
               PROVE  d.dir \o gems = Append(d.dir \o rbi, "gems") /\ d.dir \o gems # <<>> /\ Front(d.dir \o gems) = d.dir \o rbi
    OBVIOUS
  <2> DEFINE p == d.dir
             S == ToSet(p) \cup {"sorbet", "rbi", "gems"}
  <2>1. p \in Seq(S)
    <3>1. p \in Seq(ToSet(p))
      BY <1>1 DEF IsSeq
    <3> HIDE DEF p
    <3> QED BY <3>1
  <2> HIDE DEF p, S
  <2>2. p \o gems = Append(p \o rbi, "gems")
    BY <2>1
  <2> DEFINE w == p \o rbi
  <2>3. w \in Seq(S)
    BY <2>1 DEF S
  <2> HIDE DEF w
  <2>4. "gems" \in S
    BY DEF S
  <2>5. Append(w, "gems") # <<>> /\ Front(Append(w, "gems")) = w
    <3> DEFINE v == Append(w, "gems")
    <3>1. v \in Seq(S) /\ Len(v) = Len(w) + 1 /\ Len(w) \in Nat /\ \A i \in 1..Len(w) : v[i] = w[i]
      BY <2>3, <2>4
    <3> HIDE DEF v
    <3>2. Len(v) - 1 = Len(w) /\ v # <<>>
      BY <3>1
    <3>3. SubSeq(v, 1, Len(w)) = w
      <4> DEFINE u == SubSeq(v, 1, Len(w))
      <4>1. u \in Seq(S) /\ Len(u) = Len(w) /\ \A i \in 1..Len(w) : u[i] = v[i]
        <5>1. \A i \in 1..Len(w) : v[i] \in S
          BY <2>3, <3>1
        <5>2. u \in Seq(S)
          BY <3>1, <5>1, SubSeqProperties
        <5> QED BY <3>1, <5>2
      <4> HIDE DEF u
      <4>2. u = w
        BY <2>3, <3>1, <4>1, SeqEqual
      <4> QED BY <4>2 DEF u
    <3> QED BY <3>2, <3>3 DEF Front, v
  <2> QED BY <2>2, <2>5 DEF p, w
<1>5. G \subseteq R
  <2> SUFFICES ASSUME NEW d \in G PROVE d \in R
    OBVIOUS
  <2>1. d \in dirs /\ canonicalize(t, d.dir \o gems) \in t.dirs
    BY DEF Hits
  <2>2. d.dir \o gems \in DOMAIN t.real
    BY <1>3, <2>1 DEF canonicalize
  <2>3. is_dir(t, Front(d.dir \o gems))
    <3> DEFINE p == d.dir \o gems
    <3>1. p \in DOMAIN t.real /\ p # <<>>
      BY <1>4, <2>1, <2>2
    <3> HIDE DEF p
    <3>2. is_dir(t, Front(p))
      BY <3>1, RunsAssumption DEF t
    <3> QED BY <3>2 DEF p
  <2> QED BY <1>4, <2>1, <2>3 DEF Hits, is_dir
<1> HIDE DEF dirs, rbi, gems
<1>6. G # {}
  BY <1>2 DEF Nearest, Hits, gems
<1>7. PICK g \in G : (\A e \in G : Before(g, e)) /\ Nearest(t, dirs, gems, t.dirs) = g.dir \o gems
  BY <1>1, <1>6, NearestIsFirst
<1>8. PICK d \in R : (\A e \in R : Before(d, e)) /\ Nearest(t, dirs, rbi, t.dirs) = d.dir \o rbi
  BY <1>1, <1>5, <1>6, NearestIsFirst
<1>9. find_upward_dir(t, r, rbi) # NoPath
  <2>1. canonicalize(t, d.dir \o rbi) \in t.dirs
    BY <1>8 DEF Hits
  <2> QED BY <1>2, <1>3, <1>8, <2>1 DEF canonicalize
<1>10. d \in G
  <2>1. is_dir(t, Append(d.dir \o rbi, "gems")) /\ d \in dirs
    BY <1>2, <1>8, <1>9 DEF rbi, Hits
  <2> QED BY <1>4, <2>1 DEF is_dir, Hits
<1>11. g.dir = d.dir
  <2>1. Before(g, d) /\ Before(d, g) /\ g \in dirs /\ d \in dirs
    BY <1>5, <1>7, <1>8, <1>10 DEF Hits
  <2>2. g.level \in Nat /\ g.form \in Nat /\ d.level \in Nat /\ d.form \in Nat
    BY <1>1, <2>1 DEF Levels
  <2>3. g.level = d.level /\ g.form = d.form
    BY <2>1, <2>2 DEF Before
  <2> QED BY <1>1, <2>1, <2>3
<1>12. find_upward_dir(t, r, gems) = Append(find_upward_dir(t, r, rbi), "gems")
  BY <1>2, <1>4, <1>7, <1>8, <1>11 DEF Hits
<1>13. is_dir(t, find_upward_dir(t, r, gems))
  BY <1>2, <1>7 DEF Hits, is_dir
<1> QED BY <1>9, <1>12, <1>13 DEF rbi, gems

\* The world is closed only if every root is gemless or covered, in the project
\* whose declarations the run reads.
ClosedInv ==
  closed => wire_closed_world(t, args.roots) /\ found = wire_declaration_sources(t, args.roots)

\* Only build_project closes the world.
LEMMA ClosedNext ==
  ASSUME ClosedInv, [Next]_vars
  PROVE  ClosedInv'
<1>1. run' = run
  BY DEF Next, Main, Worker, Refuse, build_project, LoadSources, Spawn, Join, Unwind, Report, Locate, Serve,
         ClaimIndex, FinishIndex, CheckFile, EndWorker, vars
<1>2. args' = args /\ t' = t
  BY <1>1, RunStays
<1>3. \/ closed' = closed /\ found' = found
      \/ closed' = wire_closed_world(t, args.roots) /\ found' = wire_declaration_sources(t, args.roots)
  BY DEF Next, Main, Worker, Refuse, build_project, LoadSources, Spawn, Join, Unwind, Report, Locate, Serve,
         ClaimIndex, FinishIndex, CheckFile, EndWorker, vars, Loaded
<1> QED BY <1>2, <1>3 DEF ClosedInv

\* The run reads the RBIs of a root whose sorbet/rbi no other root's differs from.
LEMMA ReadsSharedRbis ==
  ASSUME run \in Runs, ClosedInv, closed, NEW r \in ToSet(args.roots), RbisShared(r),
         find_upward_dir(t, r, <<"sorbet", "rbi">>) # NoPath
  PROVE  found.rbi_dir = find_upward_dir(t, r, <<"sorbet", "rbi">>)
<1> DEFINE rbi(q) == find_upward_dir(t, q, <<"sorbet", "rbi">>)
           finds == [i \in DOMAIN args.roots |-> rbi(args.roots[i])]
           hits == {i \in DOMAIN finds : finds[i] # NoPath}
           first == CHOOSE i \in hits : \A j \in hits : i <= j
<1>1. args.roots \in Seq(ToSet(args.roots))
  BY RunsAssumption DEF args
<1>2. DOMAIN args.roots = 1..Len(args.roots) /\ Len(args.roots) \in Nat
  BY <1>1
<1>3. found.rbi_dir = FirstRoot(finds)
  BY DEF ClosedInv, wire_declaration_sources
<1>4. PICK k \in DOMAIN args.roots : args.roots[k] = r
  BY InSequence
<1>5. \A q \in ToSet(args.roots) : rbi(q) \in {NoPath, rbi(r)}
  BY DEF RbisShared
<1> HIDE DEF rbi
<1>6. DOMAIN finds = DOMAIN args.roots /\ \A i \in DOMAIN args.roots : finds[i] = rbi(args.roots[i])
  OBVIOUS
<1>7. FirstRoot(finds) = IF hits = {} THEN NoPath ELSE finds[first]
  BY DEF FirstRoot
<1> HIDE DEF finds
<1>8. k \in hits
  BY <1>4, <1>6 DEF rbi
<1>9. \E i \in hits : \A j \in hits : i <= j
  <2>1. hits \subseteq Nat /\ hits # {}
    BY <1>2, <1>6, <1>8
  <2> HIDE DEF hits
  <2> QED BY <2>1, LeastNatural
<1>10. first \in hits
  BY <1>9
<1> HIDE DEF first
<1>11. finds[first] = rbi(args.roots[first]) /\ finds[first] # NoPath /\ args.roots[first] \in ToSet(args.roots)
  BY <1>6, <1>10, InSequence
<1>12. finds[first] = rbi(r)
  BY <1>5, <1>11
<1> QED BY <1>3, <1>7, <1>8, <1>12 DEF rbi

\* A closed world is earned by every root the walks are made for.
LEMMA ClosedFollows ==
  ASSUME run \in Runs, ClosedInv, closed, NEW r \in ToSet(args.roots), WithinReach(r), RbisShared(r)
  PROVE  Bundle(r) \subseteq DeclaredGems
<1> DEFINE dir == upward_start(t, r)
           lock == find_upward_file(t, r, "Gemfile.lock")
           gems_dir == find_upward_dir(t, r, <<"sorbet", "rbi", "gems">>)
           rbi == find_upward_dir(t, r, <<"sorbet", "rbi">>)
<1>1. gems_detected(t, r) => tapioca_coverage_complete(t, r)
  BY DEF ClosedInv, wire_closed_world
<1>2. dir # NoPath
  <2> SUFFICES ASSUME dir = NoPath PROVE FALSE
    OBVIOUS
  <2>1. tapioca_coverage_complete(t, r)
    BY <1>1 DEF gems_detected
  <2>2. lock # NoPath
    BY <2>1 DEF tapioca_coverage_complete
  <2>3. ResolvedDirs(t, r) = {}
    BY DEF ResolvedDirs, Ascent
  <2>4. lock = NoPath
    BY <2>3 DEF find_upward_file, Nearest
  <2> QED BY <2>2, <2>4
<1>3. dir \in Seq(ToSet(dir)) /\ BundleDir(r) # NoPath
  BY <1>2, StartsArePaths DEF IsSeq, WithinReach
<1>4. tapioca_coverage_complete(t, r) /\ lock = Append(BundleDir(r), "Gemfile.lock")
  BY <1>1, <1>2, <1>3, FindsBundleLock
<1>5. /\ gems_dir # NoPath
      /\ parse_gemfile_lock_gems(t.locks[canonicalize(t, lock)]) \subseteq gem_rbi_names(t, gems_dir)
  BY <1>4 DEF tapioca_coverage_complete
<1>6. parse_gemfile_lock_gems(t.locks[canonicalize(t, lock)]) = Bundle(r)
  BY <1>4 DEF BundleLock, Bundle
<1>7. rbi # NoPath /\ gems_dir = Append(rbi, "gems") /\ is_dir(t, gems_dir)
  <2>1. rbi # NoPath => is_dir(t, Append(rbi, "gems"))
    BY DEF RbisShared
  <2> QED BY <1>5, <2>1, GemsBelowRbi
<1>8. found.rbi_dir = rbi
  BY <1>7, ReadsSharedRbis
<1> HIDE DEF lock, gems_dir, rbi
<1>9. DeclaredGems = gem_rbi_names(t, gems_dir)
  BY <1>7, <1>8 DEF DeclaredGems
<1> QED BY <1>5, <1>6, <1>9

\* ClosedWorldEarned: wherever the Gemfiles, locks, RBIs and links lie, and for
\* any number of roots, a closed world has an RBI, in the directory the run reads
\* RBIs from, for every gem in the GEM sections of the bundle of each root for
\* which all of this holds: the Gemfile is fewer than Levels directories up; its
\* lock lies beside it; no lock without a Gemfile lies nearer; the nearest
\* sorbet/rbi has gems; and no other root finds another sorbet/rbi.  The code
\* ensures none of these, and where one fails the conclusion can fail
\* (wire_closed_world, gems_detected, find_upward_file,
\* tapioca_coverage_complete, wire_declaration_sources).
THEOREM ClosedWorldEarned == Spec => []ClosedWorldIsEarned
<1> DEFINE Inv == CheckInv /\ ClosedInv
<1>1. Init => Inv
  BY CheckInvInit DEF Init, ClosedInv
<1>2. Inv /\ [Next]_vars => Inv'
  BY CheckInvNext, ClosedNext
<1>3. Inv => ClosedWorldIsEarned
  BY ClosedFollows DEF CheckInv, ClosedWorldIsEarned
<1> HIDE DEF Inv
<1> QED BY <1>1, <1>2, <1>3, PTL DEF Spec
=============================================================================
