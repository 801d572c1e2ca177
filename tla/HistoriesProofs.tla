---------------------------- MODULE HistoriesProofs ----------------------------
(***************************************************************************)
(* Lemmas about Filter, for any sequences over any set.  Filter is defined  *)
(* by recursion, so the proofs go by induction; the provers cannot          *)
(* instantiate the induction theorems of the library, which have a          *)
(* predicate for parameter, so the first section derives induction over     *)
(* sets instead, from the fact that strict inclusion of finite sets is      *)
(* well-founded.                                                            *)
(***************************************************************************)
EXTENDS Histories, Integers, FiniteSetTheorems, SequenceTheorems, TLAPS

-----------------------------------------------------------------------------
(* Induction *)

(* A set of natural numbers that is not empty has a least element: the      *)
(* intervals 0 .. k are finite, and grow with k.                            *)
LEMMA LeastNat ==
  ASSUME NEW T, T \subseteq Nat, T # {}
  PROVE  \E x \in T : \A y \in T : x <= y
<1>1. PICK n \in T : TRUE
  OBVIOUS
<1> DEFINE S == 0 .. n
           Candidates == {k \in T : k <= n}
           Intervals == {0 .. k : k \in Candidates}
<1>2. IsFiniteSet(S)
  BY <1>1, FS_Interval
<1>3. IsWellFoundedOn(StrictSubsetOrdering(S), SUBSET S)
  BY <1>2, FS_FiniteSubsetsOfFinite, FS_StrictSubsetOrderingWellFounded
<1>4. Intervals \subseteq SUBSET S /\ Intervals # {}
  BY <1>1
<1>5. PICK X \in Intervals : \A Y \in Intervals : ~(<<Y, X>> \in StrictSubsetOrdering(S))
  <2> HIDE DEF Intervals, S
  <2> QED BY <1>3, <1>4, WFMin
<1>6. PICK x \in Candidates : X = 0 .. x
  BY <1>5
<1>7. ASSUME NEW y \in T, y < x PROVE FALSE
  <2>1. y \in Candidates /\ 0 .. y \in Intervals
    BY <1>6, <1>7
  <2>2. <<0 .. y, 0 .. x>> \in (SUBSET S) \X (SUBSET S)
    BY <2>1, <1>4, <1>6
  <2>3. 0 .. y \subseteq 0 .. x /\ 0 .. y # 0 .. x
    <3>1. x \in 0 .. x /\ x \notin 0 .. y
      BY <1>6, <1>7
    <3> QED BY <3>1, <1>6, <1>7
  <2>4. <<0 .. y, 0 .. x>> \in StrictSubsetOrdering(S)
    <3> HIDE DEF S
    <3> QED BY <2>2, <2>3 DEF StrictSubsetOrdering
  <2> QED BY <2>1, <2>4, <1>5, <1>6
<1> QED BY <1>6, <1>7

(* Induction over the natural numbers. *)
LEMMA InductionNat ==
  ASSUME NEW T, 0 \in T, \A n \in Nat : n \in T => n + 1 \in T
  PROVE  Nat \subseteq T
<1> DEFINE Out == Nat \ T
<1>1. SUFFICES ASSUME Out # {} PROVE FALSE
  OBVIOUS
<1>2. PICK x \in Out : \A y \in Out : x <= y
  <2>1. Out \subseteq Nat
    OBVIOUS
  <2> HIDE DEF Out
  <2> QED BY <1>1, <2>1, LeastNat
<1>3. x # 0 /\ x \in Nat
  OBVIOUS
<1>4. x - 1 \in Nat /\ x - 1 \in T
  BY <1>2, <1>3
<1> QED BY <1>4, <1>3, (x - 1) + 1 = x

(* Induction over sequences, by the element that is appended last. *)
LEMMA InductionSeq ==
  ASSUME NEW S, NEW T, <<>> \in T,
         \A s \in Seq(S), e \in S : s \in T => Append(s, e) \in T
  PROVE  Seq(S) \subseteq T
<1> DEFINE N == {n \in Nat : \A s \in Seq(S) : Len(s) = n => s \in T}
<1>1. 0 \in N
  BY EmptySeq
<1>2. ASSUME NEW n \in Nat, n \in N PROVE n + 1 \in N
  <2> SUFFICES ASSUME NEW s \in Seq(S), Len(s) = n + 1 PROVE s \in T
    OBVIOUS
  <2>1. PICK t \in Seq(S), e \in S : s = Append(t, e)
    BY SequenceEmptyOrAppend, EmptySeq
  <2>2. Len(t) = n
    BY <2>1, AppendProperties, LenProperties
  <2> QED BY <1>2, <2>1, <2>2
<1>3. Nat \subseteq N
  <2> HIDE DEF N
  <2> QED BY <1>1, <1>2, InductionNat
<1> QED BY <1>3, LenProperties

-----------------------------------------------------------------------------
(* Recursion: for every first value and every step, a function that starts  *)
(* with the one and goes on with the other.                                 *)

Steps(V) == [Nat \X V -> V]

(* Those that are defined up to n. *)
Iterates(v0, step, n, V) ==
  {g \in [0 .. n -> V] : g[0] = v0 /\ \A k \in 0 .. n - 1 : g[k + 1] = step[<<k, g[k]>>]}

IsIteration(f, V, v0, step) ==
  f \in [Nat -> V] /\ f[0] = v0 /\ \A n \in Nat : f[n + 1] = step[<<n, f[n]>>]

(* Two of them have the same values. *)
LEMMA IteratesAgree ==
  ASSUME NEW V, NEW v0, NEW step, NEW n \in Nat, NEW m \in Nat,
         NEW g \in Iterates(v0, step, n, V), NEW h \in Iterates(v0, step, m, V),
         NEW k \in Nat, k <= n, k <= m
  PROVE  g[k] = h[k]
<1> DEFINE T == {i \in Nat : i <= n /\ i <= m => g[i] = h[i]}
<1>1. 0 \in T
  BY DEF Iterates
<1>2. ASSUME NEW i \in Nat, i \in T PROVE i + 1 \in T
  <2> SUFFICES ASSUME i + 1 <= n, i + 1 <= m PROVE g[i + 1] = h[i + 1]
    OBVIOUS
  <2>1. i \in 0 .. n - 1 /\ i \in 0 .. m - 1 /\ g[i] = h[i]
    BY <1>2
  <2> QED BY <2>1 DEF Iterates
<1>3. Nat \subseteq T
  <2> HIDE DEF T
  <2> QED BY <1>1, <1>2, InductionNat
<1> QED BY <1>3

(* There is one for each n. *)
LEMMA IteratesExist ==
  ASSUME NEW V, NEW v0 \in V, NEW step \in Steps(V), NEW n \in Nat
  PROVE  Iterates(v0, step, n, V) # {}
<1> DEFINE T == {i \in Nat : Iterates(v0, step, i, V) # {}}
<1>1. 0 \in T
  <2>1. [i \in 0 .. 0 |-> v0] \in Iterates(v0, step, 0, V)
    BY DEF Iterates
  <2> QED BY <2>1
<1>2. ASSUME NEW i \in Nat, i \in T PROVE i + 1 \in T
  <2>1. PICK g \in Iterates(v0, step, i, V) : TRUE
    BY <1>2
  <2> DEFINE h == [k \in 0 .. i + 1 |-> IF k = i + 1 THEN step[<<i, g[i]>>] ELSE g[k]]
  <2>2. g \in [0 .. i -> V] /\ g[i] \in V
    BY DEF Iterates
  <2>3. h \in [0 .. i + 1 -> V]
    <3>1. step[<<i, g[i]>>] \in V
      BY <2>2 DEF Steps
    <3>2. \A k \in 0 .. i + 1 : k # i + 1 => k \in 0 .. i
      OBVIOUS
    <3> QED BY <3>1, <3>2, <2>2
  <2>4. ASSUME NEW k \in 0 .. (i + 1) - 1 PROVE h[k + 1] = step[<<k, h[k]>>]
    <3>1. h[k] = g[k] /\ k \in 0 .. i
      OBVIOUS
    <3>2. CASE k = i
      <4>1. h[k + 1] = step[<<i, g[i]>>]
        BY <3>2
      <4> QED BY <3>1, <3>2, <4>1
    <3>3. CASE k # i
      <4>1. k \in 0 .. i - 1 /\ k + 1 # i + 1 /\ k + 1 \in 0 .. i + 1
        BY <3>1, <3>3
      <4>2. g[k + 1] = step[<<k, g[k]>>]
        BY <4>1 DEF Iterates
      <4> QED BY <4>1, <4>2, <3>1
    <3> QED BY <3>2, <3>3
  <2>5. h[0] = v0
    BY DEF Iterates
  <2>6. h \in Iterates(v0, step, i + 1, V)
    <3> HIDE DEF h
    <3> QED BY <2>3, <2>4, <2>5 DEF Iterates
  <2> QED BY <2>6
<1>3. Nat \subseteq T
  <2> HIDE DEF T
  <2> QED BY <1>1, <1>2, InductionNat
<1> QED BY <1>3

(* Together they are one function on all the natural numbers. *)
LEMMA RecursionNat ==
  ASSUME NEW V, NEW v0 \in V, NEW step \in Steps(V)
  PROVE  \E f : IsIteration(f, V, v0, step)
<1> DEFINE G == [n \in Nat |-> CHOOSE g \in Iterates(v0, step, n, V) : TRUE]
           f == [n \in Nat |-> G[n][n]]
<1>1. ASSUME NEW n \in Nat PROVE G[n] \in Iterates(v0, step, n, V)
  <2>1. Iterates(v0, step, n, V) # {}
    BY IteratesExist
  <2> QED BY <2>1
<1>2. f \in [Nat -> V]
  <2>1. ASSUME NEW n \in Nat PROVE G[n][n] \in V
    <3> HIDE DEF G
    <3> QED BY <1>1 DEF Iterates
  <2> QED BY <2>1
<1>3. f[0] = v0
  <2>1. f[0] = G[0][0]
    OBVIOUS
  <2> HIDE DEF G, f
  <2> QED BY <1>1, <2>1 DEF Iterates
<1>4. ASSUME NEW n \in Nat PROVE f[n + 1] = step[<<n, f[n]>>]
  <2>1. f[n] = G[n][n] /\ f[n + 1] = G[n + 1][n + 1]
    OBVIOUS
  <2> HIDE DEF G, f
  <2>2. G[n + 1][n] = G[n][n]
    BY <1>1, IteratesAgree, n + 1 \in Nat, n <= n + 1
  <2>3. n \in 0 .. (n + 1) - 1
    OBVIOUS
  <2>4. G[n + 1][n + 1] = step[<<n, G[n + 1][n]>>]
    BY <1>1, <2>3, n + 1 \in Nat DEF Iterates
  <2> QED BY <2>1, <2>2, <2>4
<1> HIDE DEF f
<1> QED BY <1>2, <1>3, <1>4 DEF IsIteration

-----------------------------------------------------------------------------
(* The function inside Filter: how it goes on, *)
Kept(kept, n, s, A) ==
  IF n = 0 THEN <<>> ELSE IF s[n] \in A THEN Append(kept[n - 1], s[n]) ELSE kept[n - 1]

(* and itself: what is kept of the first n elements. *)
KeptOf(s, A) == CHOOSE kept : kept = [n \in Nat |-> Kept(kept, n, s, A)]

(* Filter by the recursive function, *)
LEMMA FilterIsKept ==
  ASSUME NEW s, NEW A PROVE Filter(s, A) = KeptOf(s, A)[Len(s)]
BY DEF Filter, KeptOf, Kept

(* There is such a function. *)
LEMMA KeptExists ==
  ASSUME NEW s, NEW A
  PROVE  \E kept : kept = [n \in Nat |-> Kept(kept, n, s, A)]
<1> DEFINE V == Seq({s[n] : n \in Nat})
           step == [p \in Nat \X V |->
                      IF s[p[1] + 1] \in A THEN Append(p[2], s[p[1] + 1]) ELSE p[2]]
<1>1. <<>> \in V
  OBVIOUS
<1>2. step \in Steps(V)
  <2>1. ASSUME NEW p \in Nat \X V
        PROVE  (IF s[p[1] + 1] \in A THEN Append(p[2], s[p[1] + 1]) ELSE p[2]) \in V
    <3>1. p[2] \in V /\ s[p[1] + 1] \in {s[n] : n \in Nat}
      OBVIOUS
    <3> QED BY <3>1
  <2> QED BY <2>1 DEF Steps
<1>3. PICK f : f \in [Nat -> V] /\ f[0] = <<>> /\ \A n \in Nat : f[n + 1] = step[<<n, f[n]>>]
  <2> DEFINE v0 == <<>>
  <2>1. v0 \in V
    BY <1>1
  <2> HIDE DEF step, V, v0
  <2>2. \E f : IsIteration(f, V, v0, step)
    BY <2>1, <1>2, RecursionNat
  <2> QED BY <2>2 DEF v0, IsIteration
<1>4. ASSUME NEW n \in Nat, n # 0
      PROVE f[n] = IF s[n] \in A THEN Append(f[n - 1], s[n]) ELSE f[n - 1]
  <2> DEFINE p == <<n - 1, f[n - 1]>>
  <2>1. n - 1 \in Nat /\ (n - 1) + 1 = n /\ p \in Nat \X V
    <3> HIDE DEF V, step
    <3> QED BY <1>3, <1>4
  <2>2. f[n] = step[p]
    <3> HIDE DEF step
    <3> QED BY <1>3, <2>1
  <2>3. p[1] = n - 1 /\ p[2] = f[n - 1]
    OBVIOUS
  <2>4. step[p] = IF s[p[1] + 1] \in A THEN Append(p[2], s[p[1] + 1]) ELSE p[2]
    <3> HIDE DEF p, V
    <3> QED BY <2>1
  <2> HIDE DEF step, p
  <2> QED BY <2>1, <2>2, <2>3, <2>4
<1>5. f = [n \in Nat |-> Kept(f, n, s, A)]
  <2> HIDE DEF V, step
  <2> QED BY <1>3, <1>4 DEF Kept
<1> QED BY <1>5

(* which looks at one element at a time. *)
LEMMA KeptStep ==
  ASSUME NEW s, NEW A
  PROVE  /\ KeptOf(s, A)[0] = <<>>
         /\ \A n \in Nat : n # 0 =>
              KeptOf(s, A)[n] = IF s[n] \in A THEN Append(KeptOf(s, A)[n - 1], s[n])
                                              ELSE KeptOf(s, A)[n - 1]
<1> DEFINE K == KeptOf(s, A)
<1>1. K = [n \in Nat |-> Kept(K, n, s, A)]
  BY KeptExists DEF KeptOf
<1> HIDE DEF K
<1>2. /\ K[0] = <<>>
      /\ \A n \in Nat : n # 0 => K[n] = IF s[n] \in A THEN Append(K[n - 1], s[n]) ELSE K[n - 1]
  BY <1>1 DEF Kept
<1> QED BY <1>2 DEF K

(* What is kept of the first elements does not depend on the later ones. *)
LEMMA KeptOfLonger ==
  ASSUME NEW S, NEW s \in Seq(S), NEW e \in S, NEW A, NEW k \in Nat, k <= Len(s)
  PROVE  KeptOf(Append(s, e), A)[k] = KeptOf(s, A)[k]
<1> DEFINE se == Append(s, e)
           T == {n \in Nat : n <= Len(s) => KeptOf(se, A)[n] = KeptOf(s, A)[n]}
<1>1. 0 \in T
  BY KeptStep
<1>2. ASSUME NEW n \in Nat, n \in T PROVE n + 1 \in T
  <2> SUFFICES ASSUME n + 1 <= Len(s) PROVE KeptOf(se, A)[n + 1] = KeptOf(s, A)[n + 1]
    OBVIOUS
  <2>1. se[n + 1] = s[n + 1]
    BY AppendProperties
  <2>2. KeptOf(se, A)[n] = KeptOf(s, A)[n]
    BY <1>2, LenProperties
  <2>3. n + 1 # 0 /\ (n + 1) - 1 = n /\ n + 1 \in Nat
    OBVIOUS
  <2> HIDE DEF se
  <2>4. /\ KeptOf(se, A)[n + 1] = IF se[n + 1] \in A THEN Append(KeptOf(se, A)[n], se[n + 1])
                                    ELSE KeptOf(se, A)[n]
        /\ KeptOf(s, A)[n + 1] = IF s[n + 1] \in A THEN Append(KeptOf(s, A)[n], s[n + 1])
                                    ELSE KeptOf(s, A)[n]
    BY <2>3, KeptStep
  <2> QED BY <2>1, <2>2, <2>4
<1>3. Nat \subseteq T
  <2> HIDE DEF T
  <2> QED BY <1>1, <1>2, InductionNat
<1> QED BY <1>3

-----------------------------------------------------------------------------
(* What Filter makes of the empty sequence, *)
LEMMA FilterEmpty == \A A : Filter(<<>>, A) = <<>>
  BY FilterIsKept, KeptStep

(* and of a sequence that gets one more element. *)
LEMMA FilterAppend ==
  ASSUME NEW S, NEW s \in Seq(S), NEW e \in S, NEW A
  PROVE  Filter(Append(s, e), A) = IF e \in A THEN Append(Filter(s, A), e) ELSE Filter(s, A)
<1> DEFINE n == Len(s)
           se == Append(s, e)
<1>1. n \in Nat /\ Len(se) = n + 1 /\ se[n + 1] = e
  BY LenProperties, AppendProperties
<1>2. KeptOf(se, A)[n] = KeptOf(s, A)[n]
  <2>1. n \in Nat /\ n <= Len(s)
    BY <1>1
  <2> HIDE DEF n
  <2> QED BY <2>1, KeptOfLonger
<1> HIDE DEF n, se
<1>3. KeptOf(se, A)[n + 1] = IF e \in A THEN Append(KeptOf(se, A)[n], e) ELSE KeptOf(se, A)[n]
  <2>1. n + 1 # 0 /\ (n + 1) - 1 = n /\ n + 1 \in Nat
    BY <1>1
  <2> QED BY <2>1, <1>1, KeptStep
<1>4. Filter(se, A) = KeptOf(se, A)[n + 1] /\ Filter(s, A) = KeptOf(s, A)[n]
  BY <1>1, FilterIsKept DEF n
<1> QED BY <1>2, <1>3, <1>4 DEF se

(* It contains nothing else than elements of s that are in A. *)
LEMMA FilterType ==
  ASSUME NEW S, NEW s \in Seq(S), NEW A
  PROVE  Filter(s, A) \in Seq(S \cap A) /\ Filter(s, A) \in Seq(S)
<1> DEFINE T == {t \in Seq(S) : Filter(t, A) \in Seq(S \cap A)}
<1>1. <<>> \in T
  BY FilterEmpty, EmptySeq
<1>2. ASSUME NEW t \in Seq(S), NEW e \in S, t \in T PROVE Append(t, e) \in T
  <2>1. Filter(Append(t, e), A) = IF e \in A THEN Append(Filter(t, A), e) ELSE Filter(t, A)
    BY FilterAppend
  <2>2. CASE e \in A
    BY <1>2, <2>1, <2>2, AppendProperties
  <2>3. CASE e \notin A
    BY <1>2, <2>1, <2>3, AppendProperties
  <2> QED BY <2>2, <2>3
<1>3. Seq(S) \subseteq T
  <2> HIDE DEF T
  <2> QED BY <1>1, <1>2, InductionSeq
<1>4. Filter(s, A) \in Seq(S \cap A)
  BY <1>3
<1>5. Seq(S \cap A) \subseteq Seq(S)
  OBVIOUS
<1> QED BY <1>4, <1>5

(* Appending to the second part appends to the whole. *)
LEMMA AppendOfConcat ==
  ASSUME NEW S, NEW s \in Seq(S), NEW t \in Seq(S), NEW e \in S
  PROVE  s \o Append(t, e) = Append(s \o t, e)
<1> DEFINE one == <<e>>
<1>1. one \in Seq(S) /\ s \o t \in Seq(S)
  BY ConcatProperties
<1>2. Append(t, e) = t \o one
  BY AppendIsConcat
<1>3. Append(s \o t, e) = (s \o t) \o one
  BY <1>1, AppendIsConcat
<1> HIDE DEF one
<1>4. (s \o t) \o one = s \o (t \o one)
  BY <1>1, ConcatAssociative
<1> QED BY <1>2, <1>3, <1>4

(* It can be taken part by part. *)
LEMMA FilterConcat ==
  ASSUME NEW S, NEW s \in Seq(S), NEW t \in Seq(S), NEW A
  PROVE  Filter(s \o t, A) = Filter(s, A) \o Filter(t, A)
<1> DEFINE T == {u \in Seq(S) : Filter(s \o u, A) = Filter(s, A) \o Filter(u, A)}
<1>0. Filter(s, A) \in Seq(S)
  BY FilterType
<1>1. <<>> \in T
  BY <1>0, FilterEmpty, EmptySeq, ConcatEmptySeq
<1>2. ASSUME NEW u \in Seq(S), NEW e \in S, u \in T PROVE Append(u, e) \in T
  <2>0. Filter(u, A) \in Seq(S) /\ s \o u \in Seq(S) /\ Append(u, e) \in Seq(S)
    BY FilterType, ConcatProperties, AppendProperties
  <2>1. Filter(Append(u, e), A) = IF e \in A THEN Append(Filter(u, A), e) ELSE Filter(u, A)
    BY FilterAppend
  <2>2. s \o Append(u, e) = Append(s \o u, e)
    BY AppendOfConcat
  <2>3. Filter(Append(s \o u, e), A) =
          IF e \in A THEN Append(Filter(s \o u, A), e) ELSE Filter(s \o u, A)
    BY <2>0, FilterAppend
  <2>4. Filter(s, A) \o Append(Filter(u, A), e) = Append(Filter(s, A) \o Filter(u, A), e)
    BY <1>0, <2>0, AppendOfConcat
  <2>5. Filter(s \o u, A) = Filter(s, A) \o Filter(u, A)
    BY <1>2
  <2> QED BY <2>0, <2>1, <2>2, <2>3, <2>4, <2>5
<1>3. Seq(S) \subseteq T
  <2> HIDE DEF T
  <2> QED BY <1>1, <1>2, InductionSeq
<1> QED BY <1>3

(* Nothing is left out of a sequence over A, *)
LEMMA FilterAll ==
  ASSUME NEW S, NEW s \in Seq(S), NEW A, S \subseteq A
  PROVE  Filter(s, A) = s
<1> DEFINE T == {t \in Seq(S) : Filter(t, A) = t}
<1>1. <<>> \in T
  BY FilterEmpty, EmptySeq
<1>2. ASSUME NEW t \in Seq(S), NEW e \in S, t \in T PROVE Append(t, e) \in T
  BY <1>2, FilterAppend, AppendProperties
<1>3. Seq(S) \subseteq T
  <2> HIDE DEF T
  <2> QED BY <1>1, <1>2, InductionSeq
<1> QED BY <1>3

(* and everything of one over a set that has no element in A. *)
LEMMA FilterNone ==
  ASSUME NEW S, NEW s \in Seq(S), NEW A, S \cap A = {}
  PROVE  Filter(s, A) = <<>>
<1> DEFINE T == {t \in Seq(S) : Filter(t, A) = <<>>}
<1>1. <<>> \in T
  BY FilterEmpty, EmptySeq
<1>2. ASSUME NEW t \in Seq(S), NEW e \in S, t \in T PROVE Append(t, e) \in T
  BY <1>2, FilterAppend, AppendProperties
<1>3. Seq(S) \subseteq T
  <2> HIDE DEF T
  <2> QED BY <1>1, <1>2, InductionSeq
<1> QED BY <1>3

(* One element is kept or not, *)
LEMMA FilterOne ==
  ASSUME NEW S, NEW e \in S, NEW A
  PROVE  Filter(<<e>>, A) = IF e \in A THEN <<e>> ELSE <<>>
<1> DEFINE none == <<>>
<1>1. none \in Seq(S) /\ Filter(none, A) = none /\ Append(none, e) = <<e>>
  BY FilterEmpty, EmptySeq
<1> HIDE DEF none
<1>2. Filter(Append(none, e), A) = IF e \in A THEN Append(Filter(none, A), e) ELSE Filter(none, A)
  BY <1>1, FilterAppend
<1> QED BY <1>1, <1>2 DEF none

(* to filter twice is to filter once for both, *)
LEMMA FilterTwice ==
  ASSUME NEW S, NEW s \in Seq(S), NEW A, NEW B
  PROVE  Filter(Filter(s, A), B) = Filter(s, A \cap B)
<1> DEFINE both == A \cap B
           T == {t \in Seq(S) : Filter(Filter(t, A), B) = Filter(t, both)}
<1>1. <<>> \in T
  BY FilterEmpty, EmptySeq
<1>2. ASSUME NEW t \in Seq(S), NEW e \in S, t \in T PROVE Append(t, e) \in T
  <2> DEFINE kept == Filter(t, A)
  <2>1. kept \in Seq(S) /\ Filter(kept, B) = Filter(t, both)
    BY <1>2, FilterType
  <2>2. Filter(Append(t, e), A) = IF e \in A THEN Append(kept, e) ELSE kept
    BY FilterAppend
  <2>3. Filter(Append(t, e), both) = IF e \in both THEN Append(Filter(t, both), e) ELSE Filter(t, both)
    BY FilterAppend
  <2>0. e \in both <=> e \in A /\ e \in B
    OBVIOUS
  <2> HIDE DEF kept, both
  <2>4. Filter(Append(kept, e), B) = IF e \in B THEN Append(Filter(kept, B), e) ELSE Filter(kept, B)
    BY <2>1, FilterAppend
  <2>5. Filter(Filter(Append(t, e), A), B) = Filter(Append(t, e), both)
    <3>1. CASE e \in A
      <4>1. Filter(Append(t, e), A) = Append(kept, e)
        BY <3>1, <2>2
      <4>2. Filter(Append(t, e), both) = IF e \in B THEN Append(Filter(kept, B), e) ELSE Filter(kept, B)
        BY <2>1, <2>3, <2>0, <3>1
      <4>3. QED
        BY <2>4, <4>1, <4>2
    <3>2. CASE e \notin A
      BY <2>1, <2>2, <2>3, <2>0, <3>2
    <3>3. QED
      BY <3>1, <3>2
  <2> QED BY <2>5, AppendProperties
<1>3. Seq(S) \subseteq T
  <2> HIDE DEF T
  <2> QED BY <1>1, <1>2, InductionSeq
<1> QED BY <1>3

(* so for the second one if the first filter lets pass all that it does.    *)
LEMMA FilterWithin ==
  ASSUME NEW S, NEW s \in Seq(S), NEW A, NEW B, B \subseteq A
  PROVE  Filter(Filter(s, A), B) = Filter(s, B)
<1>1. A \cap B = B
  OBVIOUS
<1> QED BY <1>1, FilterTwice

(* A sequence is its first elements and the others. *)
LEMMA SplitSeq ==
  ASSUME NEW S, NEW s \in Seq(S), NEW n \in 0 .. Len(s)
  PROVE  /\ SubSeq(s, 1, n) \in Seq(S)
         /\ SubSeq(s, n + 1, Len(s)) \in Seq(S)
         /\ s = SubSeq(s, 1, n) \o SubSeq(s, n + 1, Len(s))
<1>1. Len(s) \in Nat /\ \A i \in 1 .. Len(s) : s[i] \in S
  BY LenProperties, ElementOfSeq
<1>2. SubSeq(s, 1, n) \in Seq(S)
  BY <1>1, SubSeqProperties
<1>3. SubSeq(s, n + 1, Len(s)) \in Seq(S)
  BY <1>1, SubSeqProperties
<1>4. SubSeq(s, 1, n) \o SubSeq(s, n + 1, Len(s)) = SubSeq(s, 1, Len(s))
  <2> DEFINE l == Len(s)
  <2>1. 1 \in 1 .. l + 1 /\ n \in 1 - 1 .. l /\ l \in n .. l
    BY <1>1
  <2> HIDE DEF l
  <2>2. SubSeq(s, 1, n) \o SubSeq(s, n + 1, l) = SubSeq(s, 1, l)
    BY <2>1, ConcatAdjacentSubSeq DEF l
  <2> QED BY <2>2 DEF l
<1>5. SubSeq(s, 1, Len(s)) = s
  BY SubSeqFull
<1> QED BY <1>2, <1>3, <1>4, <1>5

(* The first part of a sequence is a prefix of it. *)
LEMMA FirstPart ==
  ASSUME NEW S, NEW s \in Seq(S), NEW t \in Seq(S)
  PROVE  Len(s) <= Len(s \o t) /\ SubSeq(s \o t, 1, Len(s)) = s
<1>1. Len(s) \in Nat /\ Len(t) \in Nat
  BY LenProperties
<1>2. /\ s \o t \in Seq(S) /\ Len(s \o t) = Len(s) + Len(t)
      /\ \A i \in 1 .. Len(s) : (s \o t)[i] = s[i]
  BY <1>1, ConcatProperties
<1> DEFINE n == Len(s)
           st == s \o t
<1>3. n \in Nat /\ st \in Seq(S) /\ n <= Len(st) /\ \A i \in 1 .. n : st[i] = s[i]
  BY <1>1, <1>2
<1>4. \A i \in 1 .. n : st[i] \in S
  BY <1>3, LenProperties
<1> HIDE DEF st
<1>5. /\ SubSeq(st, 1, n) \in Seq(S) /\ Len(SubSeq(st, 1, n)) = n
      /\ \A i \in 1 .. n : SubSeq(st, 1, n)[i] = st[i]
  <2> HIDE DEF n
  <2> QED BY <1>3, <1>4, SubSeqProperties
<1>6. SubSeq(st, 1, n) = s
  BY <1>3, <1>5, SeqEqual
<1> QED BY <1>3, <1>6 DEF st

(* e is the element of t that follows its first Len(s) ones: the next one   *)
(* to hand over when s was.                                                 *)
Follows(s, e, t) == Len(s) < Len(t) /\ t[Len(s) + 1] = e

(* An element behind the first part of a list follows that part. *)
LEMMA FollowsFirst ==
  ASSUME NEW S, NEW s \in Seq(S), NEW e \in S, NEW t \in Seq(S)
  PROVE  Follows(s, e, s \o (<<e>> \o t))
<1> DEFINE et == <<e>> \o t
<1>1. et \in Seq(S) /\ Len(et) = 1 + Len(t) /\ et[1] = e
  BY ConcatProperties, LenProperties
<1>2. Len(s) \in Nat /\ Len(t) \in Nat
  BY LenProperties
<1> HIDE DEF et
<1>3. Len(s \o et) = Len(s) + Len(et) /\ (s \o et)[Len(s) + 1] = et[1]
  BY <1>1, <1>2
<1> QED BY <1>1, <1>2, <1>3 DEF Follows, et

(* It still is when t goes on. *)
LEMMA FollowsLonger ==
  ASSUME NEW S, NEW s \in Seq(S), NEW e, NEW t \in Seq(S), NEW u \in Seq(S), Follows(s, e, t)
  PROVE  Follows(s, e, t \o u)
<1> DEFINE n == Len(s)
           m == Len(t)
           tu == t \o u
<1>1. n \in Nat /\ m \in Nat /\ n < m /\ t[n + 1] = e
  BY LenProperties DEF Follows
<1>2. m <= Len(tu) /\ \A i \in 1 .. m : tu[i] = t[i]
  <2> HIDE DEF n
  <2> QED BY ConcatProperties, LenProperties
<1>3. Len(tu) \in Nat
  BY ConcatProperties, LenProperties
<1> HIDE DEF n, m, tu
<1>4. n < Len(tu) /\ n + 1 \in 1 .. m
  BY <1>1, <1>2, <1>3
<1> QED BY <1>1, <1>2, <1>4 DEF Follows, n, tu

-----------------------------------------------------------------------------
(* The elements of a sequence are what it is a sequence of; *)
LEMMA ElementsType ==
  ASSUME NEW S, NEW s \in Seq(S)
  PROVE  Elements(s) \subseteq S /\ (Elements(s) = {} <=> s = <<>>)
<1>1. DOMAIN s = 1 .. Len(s) /\ Len(s) \in Nat /\ \A n \in 1 .. Len(s) : s[n] \in S
  BY LenProperties
<1>2. s # <<>> => Len(s) \in Nat \ {0}
  BY EmptySeq
<1>3. s = <<>> => Len(s) = 0
  BY EmptySeq
<1> DEFINE n == Len(s)
<1>4. DOMAIN s = 1 .. n /\ n \in Nat /\ (s # <<>> => n >= 1) /\ (s = <<>> => n = 0)
  BY <1>1, <1>2, <1>3
<1> HIDE DEF n
<1>5. s # <<>> => 1 \in DOMAIN s
  BY <1>4
<1>6. s = <<>> => DOMAIN s = {}
  BY <1>4
<1> QED BY <1>1, <1>5, <1>6 DEF Elements

(* two sequences together have the elements of both, *)
LEMMA ElementsConcat ==
  ASSUME NEW S, NEW s \in Seq(S), NEW t \in Seq(S)
  PROVE  Elements(s \o t) = Elements(s) \cup Elements(t)
<1> DEFINE st == s \o t
           m == Len(s)
           n == Len(t)
<1>1. /\ m \in Nat /\ n \in Nat
      /\ DOMAIN s = 1 .. m /\ DOMAIN t = 1 .. n
      /\ st \in Seq(S) /\ Len(st) = m + n
      /\ \A i \in 1 .. m + n : st[i] = IF i <= m THEN s[i] ELSE t[i - m]
  BY LenProperties, ConcatProperties
<1>2. DOMAIN st = 1 .. m + n
  BY <1>1, LenProperties
<1> HIDE DEF st, m, n
<1>3. \A i \in DOMAIN s : i \in DOMAIN st /\ st[i] = s[i]
  BY <1>1, <1>2
<1>4. \A i \in DOMAIN t : i + m \in DOMAIN st /\ st[i + m] = t[i]
  <2> TAKE i \in DOMAIN t
  <2>1. i + m \in 1 .. m + n /\ ~(i + m <= m) /\ (i + m) - m = i
    BY <1>1
  <2> QED BY <2>1, <1>1, <1>2
<1>5. \A i \in DOMAIN st : (i \in DOMAIN s /\ st[i] = s[i]) \/ (i - m \in DOMAIN t /\ st[i] = t[i - m])
  BY <1>1, <1>2
<1>6. Elements(st) = Elements(s) \cup Elements(t)
  BY <1>3, <1>4, <1>5 DEF Elements
<1> QED BY <1>6 DEF st

(* An appended element is one of the elements. *)
LEMMA ElementsAppend ==
  ASSUME NEW S, NEW s \in Seq(S), NEW e \in S
  PROVE  Elements(Append(s, e)) = Elements(s) \cup {e}
<1>1. <<e>> \in Seq(S) /\ Elements(<<e>>) = {e}
  BY DEF Elements
<1>2. Append(s, e) = s \o <<e>>
  BY AppendIsConcat
<1> DEFINE one == <<e>>
<1>3. one \in Seq(S) /\ Elements(one) = {e}
  BY <1>1
<1> HIDE DEF one
<1>4. Elements(s \o one) = Elements(s) \cup Elements(one)
  BY <1>3, ElementsConcat
<1> QED BY <1>2, <1>3, <1>4 DEF one

(* that of a sequence without its first element, *)
LEMMA ElementsTail ==
  ASSUME NEW S, NEW s \in Seq(S), s # <<>>
  PROVE  Elements(s) = {Head(s)} \cup Elements(Tail(s))
<1> DEFINE one == <<Head(s)>>
           rest == Tail(s)
<1>1. one \in Seq(S) /\ rest \in Seq(S) /\ s = one \o rest /\ Elements(one) = {Head(s)}
  BY HeadTailProperties DEF Elements
<1> HIDE DEF one, rest
<1>2. Elements(one \o rest) = Elements(one) \cup Elements(rest)
  BY <1>1, ElementsConcat
<1> QED BY <1>1, <1>2 DEF rest

(* and repeat none if neither does and they have none in common.            *)
LEMMA NoRepeatsConcat ==
  ASSUME NEW S, NEW s \in Seq(S), NEW t \in Seq(S)
  PROVE  NoRepeats(s \o t) <=>
           NoRepeats(s) /\ NoRepeats(t) /\ Elements(s) \cap Elements(t) = {}
<1> DEFINE st == s \o t
           m == Len(s)
           n == Len(t)
<1>1. /\ m \in Nat /\ n \in Nat
      /\ DOMAIN s = 1 .. m /\ DOMAIN t = 1 .. n
      /\ st \in Seq(S) /\ Len(st) = m + n
      /\ \A i \in 1 .. m + n : st[i] = IF i <= m THEN s[i] ELSE t[i - m]
  BY LenProperties, ConcatProperties
<1>2. DOMAIN st = 1 .. m + n
  BY <1>1, LenProperties
<1> HIDE DEF st, m, n
<1>3. \A i \in DOMAIN s : i \in DOMAIN st /\ st[i] = s[i]
  BY <1>1, <1>2
<1>4. \A i \in DOMAIN t : i + m \in DOMAIN st /\ st[i + m] = t[i]
  <2> TAKE i \in DOMAIN t
  <2>1. i + m \in 1 .. m + n /\ ~(i + m <= m) /\ (i + m) - m = i
    BY <1>1
  <2> QED BY <2>1, <1>1, <1>2
<1>5. \A i \in DOMAIN st :
        \/ i \in DOMAIN s /\ st[i] = s[i]
        \/ i - m \in DOMAIN t /\ st[i] = t[i - m] /\ i > m
  BY <1>1, <1>2
<1>6. ASSUME NoRepeats(st) PROVE NoRepeats(s)
  BY <1>3, <1>6 DEF NoRepeats
<1>7. ASSUME NoRepeats(st), NEW i \in DOMAIN t, NEW j \in DOMAIN t, t[i] = t[j] PROVE i = j
  <2>1. i + m = j + m
    BY <1>4, <1>7 DEF NoRepeats
  <2> QED BY <2>1, <1>1
<1>8. ASSUME NoRepeats(st), NEW i \in DOMAIN s, NEW j \in DOMAIN t, s[i] = t[j] PROVE FALSE
  <2>1. i = j + m
    BY <1>3, <1>4, <1>8 DEF NoRepeats
  <2> QED BY <2>1, <1>1
<1>9. ASSUME NoRepeats(s), NoRepeats(t), \A i \in DOMAIN s, j \in DOMAIN t : s[i] # t[j],
             NEW i \in DOMAIN st, NEW j \in DOMAIN st, st[i] = st[j]
      PROVE  i = j
  <2>1. CASE i \in DOMAIN s /\ st[i] = s[i] /\ j \in DOMAIN s /\ st[j] = s[j]
    BY <2>1, <1>9 DEF NoRepeats
  <2>2. CASE i - m \in DOMAIN t /\ st[i] = t[i - m] /\ j - m \in DOMAIN t /\ st[j] = t[j - m]
    <3>1. i - m = j - m
      BY <2>2, <1>9 DEF NoRepeats
    <3> QED BY <3>1, <1>1, <1>2
  <2>3. CASE i \in DOMAIN s /\ st[i] = s[i] /\ j - m \in DOMAIN t /\ st[j] = t[j - m]
    BY <2>3, <1>9
  <2>4. CASE j \in DOMAIN s /\ st[j] = s[j] /\ i - m \in DOMAIN t /\ st[i] = t[i - m]
    BY <2>4, <1>9
  <2> QED BY <1>5, <2>1, <2>2, <2>3, <2>4
<1>10. NoRepeats(st) => NoRepeats(s) /\ NoRepeats(t) /\ Elements(s) \cap Elements(t) = {}
  BY <1>6, <1>7, <1>8 DEF NoRepeats, Elements
<1>11. NoRepeats(s) /\ NoRepeats(t) /\ Elements(s) \cap Elements(t) = {} => NoRepeats(st)
  <2> SUFFICES ASSUME NoRepeats(s), NoRepeats(t), Elements(s) \cap Elements(t) = {}
               PROVE  NoRepeats(st)
    OBVIOUS
  <2>1. \A i \in DOMAIN s, j \in DOMAIN t : s[i] # t[j]
    BY DEF Elements
  <2> QED BY <1>9, <2>1 DEF NoRepeats
<1> QED BY <1>10, <1>11 DEF st
=============================================================================
