---------------------------- MODULE QueueTheorems ----------------------------
(***************************************************************************)
(* Facts about queues, for any queue: what taking entries off, appending,  *)
(* inserting, splitting and reversing do to a queue's members, to their    *)
(* order and to their distinctness.  Without is computed by recursion over *)
(* the queue; what it computes is proved by the least counterexample, for  *)
(* the set of the lengths for which the claim holds (UpTo).                *)
(***************************************************************************)
EXTENDS Queues, SequencesExt, WellFoundedInduction, SequenceTheorems, TLAPS

\* A nonempty set of naturals has a least member.
LEMMA LeastNat ==
  ASSUME NEW T, T \subseteq Nat, T # {}
  PROVE  \E n \in T : \A m \in T : n <= m
<1> DEFINE R == {x \in Nat \X Nat : x[1] < x[2]}
<1>1. IsWellFoundedOn(R, Nat)
  BY NatLessThanWellFounded DEF OpToRel
<1> HIDE DEF R
<1>2. \E n \in T : \A m \in T : <<m, n>> \notin R
  BY <1>1, WFMin
<1>3. PICK n \in T : \A m \in T : <<m, n>> \notin R
  BY <1>2
<1>4. ASSUME NEW m \in T PROVE n <= m
  <2>1. m < n => <<m, n>> \in R
    BY DEF R
  <2>2. ~(m < n)
    BY <1>3, <2>1
  <2> QED
    BY <2>2
<1> QED
  BY <1>4

\* Induction up to n, for a set.
LEMMA UpTo ==
  ASSUME NEW n \in Nat, NEW P, 0 \in P,
         \A i \in 0..n : i \in P /\ i < n => i + 1 \in P
  PROVE  \A i \in 0..n : i \in P
<1> SUFFICES ASSUME NEW j \in 0..n, j \notin P PROVE FALSE
  OBVIOUS
<1> DEFINE T == {i \in 0..n : i \notin P}
<1>1. T \subseteq Nat /\ T # {}
  OBVIOUS
<1>2. PICK k \in T : \A m \in T : k <= m
  BY <1>1, LeastNat
<1>3. k # 0 /\ k - 1 \in 0..n /\ k - 1 \notin T
  BY <1>2
<1> QED
  BY <1>2, <1>3

\* One round of Kept.
KeptBody(q, S, f, i) ==
  IF i = 0 THEN <<>>
  ELSE IF q[i] \in S THEN f[i - 1] ELSE Append(f[i - 1], q[i])

\* The recursion that defines Kept has a solution on every queue.
LEMMA KeptExists ==
  ASSUME NEW q, NEW S, NEW n \in Nat
  PROVE  \A m \in 0..n : \E f : f = [i \in 0..m |-> KeptBody(q, S, f, i)]
<1> DEFINE P == {m \in 0..n : \E f : f = [i \in 0..m |-> KeptBody(q, S, f, i)]}
<1>1. 0 \in P
  <2>1. [i \in 0..0 |-> <<>>] = [i \in 0..0 |-> KeptBody(q, S, [j \in 0..0 |-> <<>>], i)]
    BY DEF KeptBody
  <2> QED
    BY <2>1
<1>2. ASSUME NEW m \in 0..n, m \in P, m < n PROVE m + 1 \in P
  <2>1. PICK f : f = [i \in 0..m |-> KeptBody(q, S, f, i)]
    BY <1>2
  <2> DEFINE g == [i \in 0..(m+1) |-> IF i = m + 1 THEN KeptBody(q, S, f, i) ELSE f[i]]
  <2>2. ASSUME NEW i \in 0..(m+1) PROVE g[i] = KeptBody(q, S, g, i)
    <3>1. CASE i = 0
      BY <2>1, <3>1 DEF KeptBody
    <3>2. CASE i # 0
      <4>1. g[i-1] = f[i-1] /\ i - 1 \in 0..m
        BY <3>2
      <4>2. g[i] = KeptBody(q, S, f, i)
        <5>1. i = m + 1 \/ i \in 0..m
          OBVIOUS
        <5>2. ASSUME i \in 0..m PROVE f[i] = KeptBody(q, S, f, i)
          BY <2>1, <5>2
        <5> QED
          BY <5>1, <5>2
      <4> QED
        BY <4>1, <4>2, <3>2 DEF KeptBody
    <3> QED
      BY <3>1, <3>2
  <2>3. g = [i \in 0..(m+1) |-> KeptBody(q, S, g, i)]
    BY <2>2
  <2> HIDE DEF g
  <2> QED
    BY <2>3, <1>2
<1> HIDE DEF P
<1>3. \A m \in 0..n : m \in P
  BY <1>1, <1>2, UpTo
<1> QED
  BY <1>3 DEF P

\* Kept satisfies its defining equation.
LEMMA KeptRec ==
  ASSUME NEW A, NEW q \in Seq(A), NEW S
  PROVE  /\ Kept(q, S)[0] = <<>>
         /\ \A i \in 1..Len(q) :
              Kept(q, S)[i] = IF q[i] \in S THEN Kept(q, S)[i - 1]
                                ELSE Append(Kept(q, S)[i - 1], q[i])
<1>1. \E f : f = [i \in 0..Len(q) |-> KeptBody(q, S, f, i)]
  <2>1. Len(q) \in Nat /\ Len(q) \in 0..Len(q)
    <3>1. Len(q) \in Nat
      BY LenProperties
    <3> QED
      BY <3>1
  <2> QED
    BY <2>1, KeptExists
<1> DEFINE K == Kept(q, S)
<1>2. K = [i \in 0..Len(q) |-> KeptBody(q, S, K, i)]
  BY <1>1 DEF Kept, KeptBody
<1> HIDE DEF K
<1>3. \A i \in 0..Len(q) : K[i] = KeptBody(q, S, K, i)
  BY <1>2
<1> QED
  BY <1>3 DEF K, KeptBody

Embeds(w, q, S, n) ==
  \E k \in [1..Len(w) -> 1..n] :
    /\ \A i \in 1..Len(w) : w[i] = q[k[i]]
    /\ \A i, j \in 1..Len(w) : i < j => k[i] < k[j]
    /\ \A m \in 1..n : q[m] \notin S <=> \E i \in 1..Len(w) : k[i] = m

\* Without keeps the entries that are not in S, each once and in their order.
LEMMA WithoutEmbeds ==
  ASSUME NEW A, NEW q \in Seq(A), NEW S
  PROVE  Without(q, S) \in Seq(A) /\ Embeds(Without(q, S), q, S, Len(q))
<1> DEFINE K == Kept(q, S)
           P == {n \in 0..Len(q) : K[n] \in Seq(A) /\ Embeds(K[n], q, S, n)}
<1>1. Len(q) \in Nat
  OBVIOUS
<1>2. 0 \in P
  <2>1. K[0] = <<>>
    BY KeptRec
  <2> HIDE DEF K
  <2> HIDE DEF K
  <2>2. Len(K[0]) = 0 /\ K[0] \in Seq(A)
    BY <2>1
  <2> DEFINE k == [i \in 1..Len(K[0]) |-> 0]
  <2>3. /\ k \in [1..Len(K[0]) -> 1..0]
        /\ \A i \in 1..Len(K[0]) : K[0][i] = q[k[i]]
        /\ \A i, j \in 1..Len(K[0]) : i < j => k[i] < k[j]
        /\ \A m \in 1..0 : q[m] \notin S <=> \E i \in 1..Len(K[0]) : k[i] = m
    BY <2>2
  <2> HIDE DEF k
  <2>4. Embeds(K[0], q, S, 0)
    BY <2>3 DEF Embeds
  <2> QED
    BY <1>1, <2>2, <2>4
<1>3. ASSUME NEW n \in 0..Len(q), n \in P, n < Len(q) PROVE n + 1 \in P
  <2>0. n + 1 \in 1..Len(q) /\ q[n + 1] \in A
    BY <1>3
  <2>1. K[n + 1] = IF q[n + 1] \in S THEN K[n] ELSE Append(K[n], q[n + 1])
    BY <2>0, KeptRec
  <2> HIDE DEF K
  <2>2. PICK k \in [1..Len(K[n]) -> 1..n] :
          /\ \A i \in 1..Len(K[n]) : K[n][i] = q[k[i]]
          /\ \A i, j \in 1..Len(K[n]) : i < j => k[i] < k[j]
          /\ \A m \in 1..n : q[m] \notin S <=> \E i \in 1..Len(K[n]) : k[i] = m
    BY <1>3 DEF Embeds
  <2>3. CASE q[n + 1] \in S
    <3>1. k \in [1..Len(K[n + 1]) -> 1..(n + 1)]
      BY <2>1, <2>3
    <3>2. ASSUME NEW m \in 1..(n + 1)
          PROVE  q[m] \notin S <=> \E i \in 1..Len(K[n]) : k[i] = m
      <4>1. CASE m = n + 1
        BY <4>1, <2>2, <2>3
      <4>2. CASE m # n + 1
        BY <4>2, <2>2
      <4> QED
        BY <4>1, <4>2
    <3>3. K[n + 1] = K[n]
      BY <2>1, <2>3
    <3>4. Embeds(K[n + 1], q, S, n + 1)
      BY <2>2, <3>1, <3>2, <3>3 DEF Embeds
    <3> QED
      BY <1>3, <2>0, <3>3, <3>4
  <2>4. CASE q[n + 1] \notin S
    <3> DEFINE l == Len(K[n])
               h == [i \in 1..(l + 1) |-> IF i = l + 1 THEN n + 1 ELSE k[i]]
               w == K[n + 1]
    <3>1. /\ w \in Seq(A) /\ Len(w) = l + 1 /\ l \in Nat
          /\ \A i \in 1..l : w[i] = K[n][i]
          /\ w[l + 1] = q[n + 1]
      BY <1>3, <2>0, <2>1, <2>4
    <3>2. /\ h \in [1..(l + 1) -> 1..(n + 1)]
          /\ h[l + 1] = n + 1
          /\ \A i \in 1..l : h[i] = k[i]
          /\ \A i \in 1..l : k[i] \in 1..n
          /\ \A i \in 1..(l + 1) : i = l + 1 \/ i \in 1..l
          /\ l + 1 \in 1..(l + 1)
      <4> HIDE DEF w
      <4>1. k \in [1..l -> 1..n] /\ l \in Nat /\ n \in Nat
        BY <2>2, <3>1
      <4> HIDE DEF l
      <4>2. \A i \in 1..(l + 1) : i = l + 1 \/ i \in 1..l
        BY <4>1
      <4>3. \A i \in 1..l : k[i] \in 1..n /\ i \in 1..(l + 1) /\ i # l + 1
        BY <4>1
      <4>4. l + 1 \in 1..(l + 1)
        BY <4>1
      <4>5. \A i \in 1..(l + 1) :
              (IF i = l + 1 THEN n + 1 ELSE k[i]) \in 1..(n + 1)
        BY <4>1, <4>2, <4>3
      <4> QED
        BY <4>2, <4>3, <4>4, <4>5
    <3>3. /\ \A i \in 1..l : K[n][i] = q[k[i]]
          /\ \A i, j \in 1..l : i < j => k[i] < k[j]
          /\ \A m \in 1..n : q[m] \notin S <=> \E i \in 1..l : k[i] = m
      BY <2>2
    <3> HIDE DEF l, h, w
    <3>4. \A i \in 1..(l + 1) : w[i] = q[h[i]]
      BY <3>1, <3>2, <3>3
    <3>5. ASSUME NEW i \in 1..(l + 1), NEW j \in 1..(l + 1), i < j
          PROVE  h[i] < h[j]
      <4>1. i \in 1..l
        BY <3>1, <3>5
      <4>2. CASE j = l + 1
        BY <4>1, <4>2, <3>2
      <4>3. CASE j \in 1..l
        BY <4>1, <4>3, <3>2, <3>3, <3>5
      <4> QED
        BY <4>2, <4>3, <3>2
    <3>6. ASSUME NEW m \in 1..(n + 1)
          PROVE  q[m] \notin S <=> \E i \in 1..(l + 1) : h[i] = m
      <4>1. CASE m = n + 1
        BY <4>1, <2>4, <3>2
      <4>2. CASE m # n + 1
        <5>1. m \in 1..n
          BY <4>2
        <5>2. (\E i \in 1..(l + 1) : h[i] = m) <=> \E i \in 1..l : k[i] = m
          BY <3>1, <3>2, <4>2
        <5> QED
          BY <5>1, <5>2, <3>3
      <4> QED
        BY <4>1, <4>2
    <3>7. l + 1 = Len(w)
      BY <3>1
    <3>8. Embeds(w, q, S, n + 1)
      <4>1. h \in [1..Len(w) -> 1..(n + 1)]
        BY <3>2, <3>7
      <4>2. /\ \A i \in 1..Len(w) : w[i] = q[h[i]]
            /\ \A i, j \in 1..Len(w) : i < j => h[i] < h[j]
        BY <3>4, <3>5, <3>7
      <4>3. \A m \in 1..(n + 1) :
              q[m] \notin S <=> \E i \in 1..Len(w) : h[i] = m
        BY <3>6, <3>7
      <4> QED
        BY <4>1, <4>2, <4>3, Zenon DEF Embeds
    <3> QED
      BY <2>0, <3>1, <3>8 DEF w
  <2> QED
    BY <2>3, <2>4
<1> HIDE DEF P
<1>4. \A i \in 0..Len(q) : i \in P /\ i < Len(q) => i + 1 \in P
  BY <1>3
<1>5. \A i \in 0..Len(q) : i \in P
  BY <1>1, <1>2, <1>4, UpTo
<1>6. Len(q) \in P
  BY <1>1, <1>5
<1> QED
  BY <1>6 DEF P, Without

\* What is left of a queue over A is one.
LEMMA WithoutType ==
  ASSUME NEW A, NEW q \in Seq(A), NEW S
  PROVE  Without(q, S) \in Seq(A)
BY WithoutEmbeds

\* The members of what is left.
LEMMA WithoutRange ==
  ASSUME NEW A, NEW q \in Seq(A), NEW S
  PROVE  Range(Without(q, S)) = Range(q) \ S
<1> DEFINE w == Without(q, S)
<1>1. w \in Seq(A) /\ Embeds(w, q, S, Len(q))
  BY WithoutEmbeds
<1> HIDE DEF w
<1>2. /\ Range(w) = {w[i] : i \in 1..Len(w)}
      /\ Range(q) = {q[i] : i \in 1..Len(q)}
  BY <1>1 DEF Range
<1>3. PICK k \in [1..Len(w) -> 1..Len(q)] :
        /\ \A i \in 1..Len(w) : w[i] = q[k[i]]
        /\ \A i, j \in 1..Len(w) : i < j => k[i] < k[j]
        /\ \A m \in 1..Len(q) : q[m] \notin S <=> \E i \in 1..Len(w) : k[i] = m
  BY <1>1, Zenon DEF Embeds
<1>4. ASSUME NEW x PROVE x \in Range(w) <=> x \in Range(q) \ S
  BY <1>2, <1>3
<1> QED
  BY <1>4 DEF w

\* A queue without duplicates has none afterwards.
LEMMA WithoutDistinct ==
  ASSUME NEW A, NEW q \in Seq(A), NEW S, IsInjective(q)
  PROVE  IsInjective(Without(q, S))
<1> DEFINE w == Without(q, S)
<1>1. w \in Seq(A) /\ Embeds(w, q, S, Len(q))
  BY WithoutEmbeds
<1> HIDE DEF w
<1>2. PICK k \in [1..Len(w) -> 1..Len(q)] :
        /\ \A i \in 1..Len(w) : w[i] = q[k[i]]
        /\ \A i, j \in 1..Len(w) : i < j => k[i] < k[j]
        /\ \A m \in 1..Len(q) : q[m] \notin S <=> \E i \in 1..Len(w) : k[i] = m
  BY <1>1, Zenon DEF Embeds
<1>3. ASSUME NEW i \in 1..Len(w), NEW j \in 1..Len(w), w[i] = w[j]
      PROVE  i = j
  <2>1. q[k[i]] = q[k[j]] /\ k[i] \in DOMAIN q /\ k[j] \in DOMAIN q
    BY <1>2, <1>3
  <2>2. k[i] = k[j]
    BY <2>1 DEF IsInjective
  <2>3. i \in Int /\ j \in Int
    BY <1>1
  <2> QED
    BY <1>2, <2>2, <2>3
<1>4. DOMAIN w = 1..Len(w)
  BY <1>1
<1> QED
  BY <1>3, <1>4 DEF w, IsInjective

\* Taking entries off makes no queue longer.
LEMMA WithoutLen ==
  ASSUME NEW A, NEW q \in Seq(A), NEW S
  PROVE  Len(Without(q, S)) <= Len(q)
<1> DEFINE K == Kept(q, S)
           P == {n \in 0..Len(q) : K[n] \in Seq(A) /\ Len(K[n]) <= n}
<1>0. Len(q) \in Nat
  OBVIOUS
<1>1. 0 \in P
  <2>1. K[0] = <<>>
    BY KeptRec
  <2> HIDE DEF K
  <2>2. K[0] \in Seq(A) /\ Len(K[0]) = 0
    BY <2>1
  <2> QED
    BY <1>0, <2>2
<1>2. ASSUME NEW n \in 0..Len(q), n \in P, n < Len(q) PROVE n + 1 \in P
  <2>1. n + 1 \in 1..Len(q) /\ q[n + 1] \in A
    BY <1>2
  <2>2. K[n + 1] = IF q[n + 1] \in S THEN K[n] ELSE Append(K[n], q[n + 1])
    BY <2>1, KeptRec
  <2> HIDE DEF K
  <2>3. K[n] \in Seq(A) /\ Len(K[n]) <= n
    BY <1>2
  <2>4. K[n + 1] \in Seq(A) /\ Len(K[n + 1]) <= n + 1
    BY <2>1, <2>2, <2>3
  <2> QED
    BY <2>1, <2>4
<1> HIDE DEF P
<1>3. \A n \in 0..Len(q) : n \in P /\ n < Len(q) => n + 1 \in P
  BY <1>2
<1>4. \A n \in 0..Len(q) : n \in P
  BY <1>0, <1>1, <1>3, UpTo
<1>5. Len(q) \in P
  BY <1>0, <1>4
<1> QED
  BY <1>5 DEF P, Without

\* Min of a set of naturals is its least member.
LEMMA MinNat ==
  ASSUME NEW T, T \subseteq Nat, T # {}
  PROVE  Min(T) \in T /\ \A m \in T : Min(T) <= m
<1>1. \E n \in T : \A m \in T : n <= m
  BY LeastNat
<1> QED
  BY <1>1 DEF Min

\* InsertAt, entry by entry.
LEMMA InsertAtFacts ==
  ASSUME NEW A, NEW q \in Seq(A), NEW i \in 1..(Len(q) + 1), NEW x \in A
  PROVE  /\ InsertAt(q, i, x) \in Seq(A)
         /\ Len(InsertAt(q, i, x)) = Len(q) + 1
         /\ \A j \in 1..(Len(q) + 1) :
              InsertAt(q, i, x)[j] = IF j < i THEN q[j]
                                     ELSE IF j = i THEN x ELSE q[j - 1]
<1> DEFINE a == SubSeq(q, 1, i - 1)
           b == SubSeq(q, i, Len(q))
<1>1. a \in Seq(A) /\ Len(a) = i - 1 /\ \A j \in 1..(i - 1) : a[j] = q[j]
  OBVIOUS
<1>2. /\ b \in Seq(A) /\ Len(b) = Len(q) - i + 1
      /\ \A j \in 1..(Len(q) - i + 1) : b[j] = q[i + j - 1]
  OBVIOUS
<1>3. InsertAt(q, i, x) = a \o <<x>> \o b
  BY DEF InsertAt
<1> HIDE DEF a, b
<1> DEFINE c == a \o <<x>>
<1>4. /\ c \in Seq(A) /\ Len(c) = i
      /\ \A j \in 1..i : c[j] = IF j < i THEN q[j] ELSE x
  BY <1>1
<1>5. InsertAt(q, i, x) = c \o b
  BY <1>3
<1> HIDE DEF c
<1> DEFINE w == c \o b
<1>6. w \in Seq(A) /\ Len(w) = Len(q) + 1
  <2>1. c \in Seq(A) /\ b \in Seq(A) /\ Len(c) = i /\ Len(b) = Len(q) - i + 1
    BY <1>2, <1>4
  <2>2. w \in Seq(A) /\ Len(w) = Len(c) + Len(b)
    BY <2>1, ConcatProperties
  <2>3. Len(q) \in Nat /\ i \in Nat
    OBVIOUS
  <2> QED
    BY <2>1, <2>2, <2>3
<1>7. ASSUME NEW j \in 1..(Len(q) + 1)
      PROVE  w[j] = IF j < i THEN q[j] ELSE IF j = i THEN x ELSE q[j - 1]
  <2>1. CASE j <= i
    BY <2>1, <1>2, <1>4
  <2>2. CASE j > i
    <3>1. j - i \in 1..(Len(q) - i + 1) /\ w[j] = b[j - i]
      BY <2>2, <1>2, <1>4
    <3>2. i + (j - i) - 1 = j - 1
      BY <2>2
    <3>3. b[j - i] = q[i + (j - i) - 1]
      BY <3>1, <1>2
    <3>4. ~(j < i) /\ j # i
      BY <2>2
    <3> QED
      BY <3>1, <3>2, <3>3, <3>4
  <2>3. j <= i \/ j > i
    OBVIOUS
  <2> QED
    BY <2>1, <2>2, <2>3, Zenon
<1> QED
  BY <1>5, <1>6, <1>7

\* The members of a queue over A are in A.
LEMMA RangeSeq ==
  ASSUME NEW A, NEW q \in Seq(A)
  PROVE  /\ Range(q) = {q[i] : i \in 1..Len(q)}
         /\ Range(q) \subseteq A
BY DEF Range

\* The empty queue.
LEMMA EmptyRange == Range(<<>>) = {} /\ IsInjective(<<>>)
BY DEF Range, IsInjective

\* enqueue_tail.
LEMMA AppendRange ==
  ASSUME NEW A, NEW q \in Seq(A), NEW x \in A
  PROVE  /\ Range(Append(q, x)) = Range(q) \cup {x}
         /\ IsInjective(q) /\ x \notin Range(q) => IsInjective(Append(q, x))
<1> DEFINE w == Append(q, x)
<1>1. /\ w \in Seq(A) /\ Len(w) = Len(q) + 1 /\ Len(q) \in Nat
      /\ \A i \in 1..Len(q) : w[i] = q[i]
      /\ w[Len(q) + 1] = x
      /\ DOMAIN w = 1..(Len(q) + 1) /\ DOMAIN q = 1..Len(q)
  OBVIOUS
<1>2. \A i \in 1..(Len(q) + 1) : i = Len(q) + 1 \/ i \in 1..Len(q)
  BY <1>1
<1>3. Len(q) + 1 \in 1..(Len(q) + 1) /\ \A i \in 1..Len(q) : i \in 1..(Len(q) + 1)
  BY <1>1
<1> HIDE DEF w
<1>4. Range(w) = Range(q) \cup {x}
  BY <1>1, <1>2, <1>3 DEF Range
<1>5. ASSUME IsInjective(q), x \notin Range(q) PROVE IsInjective(w)
  <2>1. \A i \in 1..Len(q) : q[i] # x
    BY <1>1, <1>5 DEF Range
  <2> QED
    BY <1>1, <1>2, <1>5, <2>1 DEF IsInjective
<1> QED
  BY <1>4, <1>5 DEF w

\* An entry put in somewhere.
LEMMA InsertRange ==
  ASSUME NEW A, NEW q \in Seq(A), NEW k \in 1..(Len(q) + 1), NEW x \in A
  PROVE  /\ Range(InsertAt(q, k, x)) = Range(q) \cup {x}
         /\ IsInjective(q) /\ x \notin Range(q) => IsInjective(InsertAt(q, k, x))
<1> DEFINE w == InsertAt(q, k, x)
<1>1. /\ w \in Seq(A) /\ Len(w) = Len(q) + 1 /\ Len(q) \in Nat
      /\ \A j \in 1..(Len(q) + 1) :
           w[j] = IF j < k THEN q[j] ELSE IF j = k THEN x ELSE q[j - 1]
  BY InsertAtFacts
<1>2. DOMAIN w = 1..(Len(q) + 1) /\ DOMAIN q = 1..Len(q)
  BY <1>1
<1> HIDE DEF w
<1>3. ASSUME NEW j \in 1..(Len(q) + 1), j # k
      PROVE  /\ j < k => j \in 1..Len(q) /\ w[j] = q[j]
             /\ ~(j < k) => j - 1 \in 1..Len(q) /\ w[j] = q[j - 1]
  BY <1>1, <1>3
<1>4. w[k] = x
  BY <1>1
<1>5. ASSUME NEW i \in 1..Len(q)
      PROVE  \E j \in 1..(Len(q) + 1) : w[j] = q[i]
  <2>1. CASE i < k
    <3>1. i \in 1..(Len(q) + 1) /\ i # k
      BY <1>1, <2>1
    <3> QED
      BY <2>1, <3>1, <1>3
  <2>2. CASE ~(i < k)
    <3>1. i + 1 \in 1..(Len(q) + 1) /\ i + 1 # k /\ ~(i + 1 < k) /\ (i + 1) - 1 = i
      BY <1>1, <2>2
    <3> QED
      BY <3>1, <1>3
  <2> QED
    BY <2>1, <2>2
<1>6. Range(w) = Range(q) \cup {x}
  <2>1. ASSUME NEW y PROVE y \in Range(w) => y \in Range(q) \cup {x}
    BY <1>2, <1>3, <1>4 DEF Range
  <2>2. ASSUME NEW y PROVE y \in Range(q) \cup {x} => y \in Range(w)
    <3>1. k \in DOMAIN w
      BY <1>2
    <3> QED
      BY <3>1, <1>2, <1>4, <1>5 DEF Range
  <2> QED
    BY <2>1, <2>2
<1>7. ASSUME IsInjective(q), x \notin Range(q) PROVE IsInjective(w)
  <2>1. \A i \in 1..Len(q) : q[i] # x
    BY <1>2, <1>7 DEF Range
  <2>2. \A i, j \in 1..Len(q) : q[i] = q[j] => i = j
    BY <1>2, <1>7 DEF IsInjective
  <2>3. ASSUME NEW i \in 1..(Len(q) + 1), NEW j \in 1..(Len(q) + 1), w[i] = w[j]
        PROVE  i = j
    <3>1. CASE i = k
      BY <3>1, <1>3, <1>4, <2>1, <2>3
    <3>2. CASE j = k
      BY <3>2, <1>3, <1>4, <2>1, <2>3
    <3>3. CASE i # k /\ j # k
      <4>1. CASE i < k /\ j < k
        BY <4>1, <1>3, <2>2, <2>3, <3>3
      <4>2. CASE i < k /\ ~(j < k)
        BY <4>2, <1>3, <2>2, <2>3, <3>3
      <4>3. CASE ~(i < k) /\ j < k
        BY <4>3, <1>3, <2>2, <2>3, <3>3
      <4>4. CASE ~(i < k) /\ ~(j < k)
        BY <4>4, <1>3, <2>2, <2>3, <3>3
      <4> QED
        BY <4>1, <4>2, <4>3, <4>4
    <3> QED
      BY <3>1, <3>2, <3>3
  <2> QED
    BY <1>2, <2>3 DEF IsInjective
<1> QED
  BY <1>6, <1>7 DEF w

\* dequeue_head.
LEMMA TailRange ==
  ASSUME NEW A, NEW q \in Seq(A), q # <<>>
  PROVE  /\ Tail(q) \in Seq(A) /\ Head(q) \in A
         /\ Range(q) = {Head(q)} \cup Range(Tail(q))
         /\ IsInjective(q) => IsInjective(Tail(q)) /\ Head(q) \notin Range(Tail(q))
<1> DEFINE w == Tail(q)
<1>1. /\ w \in Seq(A) /\ Len(w) = Len(q) - 1 /\ Len(q) \in Nat \ {0}
      /\ \A i \in 1..(Len(q) - 1) : w[i] = q[i + 1]
      /\ DOMAIN w = 1..(Len(q) - 1) /\ DOMAIN q = 1..Len(q)
      /\ Head(q) = q[1] /\ Head(q) \in A
  OBVIOUS
<1> HIDE DEF w
<1>2. /\ \A i \in 1..(Len(q) - 1) : i + 1 \in 1..Len(q) /\ i + 1 # 1
      /\ \A i \in 1..Len(q) : i = 1 \/ (i - 1 \in 1..(Len(q) - 1) /\ (i - 1) + 1 = i)
      /\ 1 \in 1..Len(q)
  BY <1>1
<1>3. Range(q) = {q[1]} \cup Range(w)
  <2>1. ASSUME NEW y PROVE y \in Range(q) => y \in {q[1]} \cup Range(w)
    <3>1. ASSUME NEW i \in 1..Len(q), i # 1 PROVE q[i] = w[i - 1] /\ i - 1 \in DOMAIN w
      BY <1>1, <1>2, <3>1
    <3>2. \A i \in 1..Len(q) : q[i] \in {q[1]} \cup Range(w)
      BY <3>1 DEF Range
    <3>3. Range(q) = {q[i] : i \in 1..Len(q)}
      BY <1>1, RangeSeq
    <3> QED
      BY <3>2, <3>3
  <2>2. ASSUME NEW y PROVE y \in {q[1]} \cup Range(w) => y \in Range(q)
    <3>1. Range(q) = {q[i] : i \in 1..Len(q)}
      BY <1>1, RangeSeq
    <3>2. q[1] \in Range(q)
      BY <1>1, <3>1
    <3>3. ASSUME NEW j \in 1..(Len(q) - 1) PROVE w[j] \in Range(q)
      <4>1. w[j] = q[j + 1] /\ j + 1 \in 1..Len(q)
        BY <1>1, <1>2
      <4> QED
        BY <3>1, <4>1
    <3> QED
      BY <1>1, <3>2, <3>3 DEF Range
  <2> QED
    BY <2>1, <2>2
<1>4. ASSUME IsInjective(q) PROVE IsInjective(w) /\ q[1] \notin Range(w)
  <2>1. \A i, j \in 1..Len(q) : q[i] = q[j] => i = j
    BY <1>1, <1>4 DEF IsInjective
  <2>2. ASSUME NEW i \in 1..(Len(q) - 1), NEW j \in 1..(Len(q) - 1), w[i] = w[j]
        PROVE  i = j
    BY <1>1, <1>2, <2>1, <2>2
  <2>3. ASSUME NEW i \in 1..(Len(q) - 1) PROVE w[i] # q[1]
    BY <1>1, <1>2, <2>1
  <2> QED
    BY <1>1, <2>2, <2>3 DEF IsInjective, Range
<1> QED
  BY <1>1, <1>3, <1>4 DEF w

\* A queue cut in two.
LEMMA SplitRange ==
  ASSUME NEW A, NEW q \in Seq(A), NEW n \in 0..Len(q)
  PROVE  /\ SubSeq(q, 1, n) \in Seq(A) /\ SubSeq(q, n + 1, Len(q)) \in Seq(A)
         /\ Len(SubSeq(q, 1, n)) = n
         /\ Range(q) = Range(SubSeq(q, 1, n)) \cup Range(SubSeq(q, n + 1, Len(q)))
         /\ IsInjective(q) =>
              /\ IsInjective(SubSeq(q, 1, n))
              /\ IsInjective(SubSeq(q, n + 1, Len(q)))
              /\ Range(SubSeq(q, 1, n)) \cap Range(SubSeq(q, n + 1, Len(q))) = {}
<1> DEFINE a == SubSeq(q, 1, n)
           b == SubSeq(q, n + 1, Len(q))
<1>1. /\ a \in Seq(A) /\ Len(a) = n /\ \A j \in 1..n : a[j] = q[j]
      /\ DOMAIN a = 1..n
  OBVIOUS
<1>2. /\ b \in Seq(A) /\ Len(b) = Len(q) - n
      /\ \A j \in 1..(Len(q) - n) : b[j] = q[n + j]
      /\ DOMAIN b = 1..(Len(q) - n) /\ DOMAIN q = 1..Len(q) /\ Len(q) \in Nat
  OBVIOUS
<1> HIDE DEF a, b
<1>3. /\ \A i \in 1..Len(q) : i \in 1..n \/ (i - n \in 1..(Len(q) - n) /\ n + (i - n) = i)
      /\ \A i \in 1..n : i \in 1..Len(q)
      /\ \A i \in 1..(Len(q) - n) : n + i \in 1..Len(q) /\ n + i \notin 1..n
  BY <1>2
<1>4. Range(q) = Range(a) \cup Range(b)
  <2>1. /\ Range(a) = {a[i] : i \in 1..n} /\ Range(q) = {q[i] : i \in 1..Len(q)}
        /\ Range(b) = {b[i] : i \in 1..(Len(q) - n)}
    BY <1>1, <1>2, RangeSeq
  <2>2. ASSUME NEW i \in 1..Len(q) PROVE q[i] \in Range(a) \cup Range(b)
    <3>1. CASE i \in 1..n
      BY <1>1, <2>1, <3>1
    <3>2. CASE i - n \in 1..(Len(q) - n) /\ n + (i - n) = i
      <4>1. b[i - n] = q[i]
        BY <1>2, <3>2
      <4> QED
        BY <2>1, <3>2, <4>1
    <3> QED
      BY <1>3, <3>1, <3>2
  <2>3. \A i \in 1..n : a[i] \in Range(q)
    BY <1>1, <1>3, <2>1
  <2>4. ASSUME NEW i \in 1..(Len(q) - n) PROVE b[i] \in Range(q)
    <3>1. b[i] = q[n + i] /\ n + i \in 1..Len(q)
      BY <1>2, <1>3
    <3> QED
      BY <2>1, <3>1
  <2> QED
    BY <2>1, <2>2, <2>3, <2>4
<1>5. ASSUME IsInjective(q)
      PROVE  IsInjective(a) /\ IsInjective(b) /\ Range(a) \cap Range(b) = {}
  <2>1. \A i, j \in 1..Len(q) : q[i] = q[j] => i = j
    BY <1>2, <1>5 DEF IsInjective
  <2>2. IsInjective(a)
    BY <1>1, <1>3, <2>1 DEF IsInjective
  <2>3. ASSUME NEW i \in 1..(Len(q) - n), NEW j \in 1..(Len(q) - n), b[i] = b[j]
        PROVE  i = j
    BY <1>2, <1>3, <2>1, <2>3
  <2>4. ASSUME NEW i \in 1..n, NEW j \in 1..(Len(q) - n) PROVE a[i] # b[j]
    BY <1>1, <1>2, <1>3, <2>1
  <2>5. Range(a) \cap Range(b) = {}
    BY <1>1, <1>2, <2>4 DEF Range
  <2> QED
    BY <1>2, <2>2, <2>3, <2>5 DEF IsInjective
<1> QED
  BY <1>1, <1>2, <1>4, <1>5 DEF a, b

\* What stays behind keeps its order.
LEMMA WithoutOrder ==
  ASSUME NEW A, NEW q \in Seq(A), NEW S
  PROVE  \A i, j \in DOMAIN Without(q, S) : i < j =>
           \E a, b \in DOMAIN q : /\ a < b
                                  /\ Without(q, S)[i] = q[a]
                                  /\ Without(q, S)[j] = q[b]
<1> DEFINE w == Without(q, S)
<1>1. w \in Seq(A) /\ Embeds(w, q, S, Len(q))
  BY WithoutEmbeds
<1>2. DOMAIN w = 1..Len(w) /\ DOMAIN q = 1..Len(q)
  BY <1>1
<1> HIDE DEF w
<1>3. PICK k \in [1..Len(w) -> 1..Len(q)] :
        /\ \A i \in 1..Len(w) : w[i] = q[k[i]]
        /\ \A i, j \in 1..Len(w) : i < j => k[i] < k[j]
        /\ \A m \in 1..Len(q) : q[m] \notin S <=> \E i \in 1..Len(w) : k[i] = m
  BY <1>1, Zenon DEF Embeds
<1>4. ASSUME NEW i \in DOMAIN w, NEW j \in DOMAIN w, i < j
      PROVE  \E a, b \in DOMAIN q : a < b /\ w[i] = q[a] /\ w[j] = q[b]
  <2>1. /\ k[i] \in DOMAIN q /\ k[j] \in DOMAIN q /\ k[i] < k[j]
        /\ w[i] = q[k[i]] /\ w[j] = q[k[j]]
    BY <1>2, <1>3, <1>4
  <2> QED
    BY <2>1
<1> QED
  BY <1>4 DEF w

\* A queue reversed.
LEMMA ReverseRange ==
  ASSUME NEW A, NEW q \in Seq(A)
  PROVE  /\ Reverse(q) \in Seq(A) /\ Range(Reverse(q)) = Range(q)
         /\ IsInjective(q) => IsInjective(Reverse(q))
         /\ q # <<>> => Reverse(q) # <<>>
<1> DEFINE w == Reverse(q)
<1>1. /\ Len(q) \in Nat /\ DOMAIN q = 1..Len(q) /\ DOMAIN w = 1..Len(q)
      /\ \A i \in 1..Len(q) : w[i] = q[(Len(q) - i) + 1] /\ q[i] \in A
      /\ \A i \in 1..Len(q) : (Len(q) - i) + 1 \in 1..Len(q)
  BY DEF Reverse
<1>2. w \in Seq(A) /\ Len(w) = Len(q)
  <2>1. w = [i \in 1..Len(q) |-> q[(Len(q) - i) + 1]]
    BY DEF Reverse
  <2>2. \A i \in 1..Len(q) : q[(Len(q) - i) + 1] \in A
    BY <1>1
  <2> HIDE DEF w
  <2> QED
    BY <1>1, <2>1, <2>2
<1> HIDE DEF w
<1>3. Range(w) = Range(q)
  <2>1. ASSUME NEW i \in 1..Len(q) PROVE q[i] = w[(Len(q) - i) + 1]
    <3> DEFINE k == (Len(q) - i) + 1
    <3>1. k \in 1..Len(q) /\ (Len(q) - k) + 1 = i
      BY <1>1
    <3> HIDE DEF k
    <3>2. w[k] = q[i]
      BY <1>1, <3>1
    <3> QED
      BY <3>2 DEF k
  <2>2. Range(w) = {w[i] : i \in 1..Len(q)} /\ Range(q) = {q[i] : i \in 1..Len(q)}
    BY <1>1 DEF Range
  <2> QED
    BY <1>1, <2>1, <2>2
<1>4. ASSUME IsInjective(q) PROVE IsInjective(w)
  <2> SUFFICES ASSUME NEW i \in 1..Len(q), NEW j \in 1..Len(q), w[i] = w[j]
               PROVE  i = j
    BY <1>1 DEF IsInjective
  <2>1. (Len(q) - i) + 1 = (Len(q) - j) + 1
    BY <1>1, <1>4 DEF IsInjective
  <2> QED
    BY <1>1, <2>1
<1>5. q # <<>> => w # <<>>
  BY <1>2
<1> QED
  BY <1>2, <1>3, <1>4, <1>5 DEF w

\* What is left of a part of a queue is a queue.
LEMMA KeptType ==
  ASSUME NEW A, NEW q \in Seq(A), NEW S
  PROVE  \A n \in 0..Len(q) : Kept(q, S)[n] \in Seq(A)
<1> DEFINE K == Kept(q, S)
           P == {n \in 0..Len(q) : K[n] \in Seq(A)}
<1>0. Len(q) \in Nat
  OBVIOUS
<1>1. 0 \in P
  <2>1. K[0] = <<>>
    BY KeptRec
  <2> HIDE DEF K
  <2>2. K[0] \in Seq(A)
    BY <2>1
  <2> QED
    BY <1>0, <2>2
<1>2. ASSUME NEW n \in 0..Len(q), n \in P, n < Len(q) PROVE n + 1 \in P
  <2>1. n + 1 \in 1..Len(q) /\ q[n + 1] \in A
    BY <1>2
  <2>2. K[n + 1] = IF q[n + 1] \in S THEN K[n] ELSE Append(K[n], q[n + 1])
    BY <2>1, KeptRec
  <2> HIDE DEF K
  <2>3. K[n + 1] \in Seq(A)
    BY <1>2, <2>1, <2>2
  <2> QED
    BY <2>1, <2>3
<1> HIDE DEF P
<1>3. \A n \in 0..Len(q) : n \in P /\ n < Len(q) => n + 1 \in P
  BY <1>2
<1>4. \A n \in 0..Len(q) : n \in P
  BY <1>0, <1>1, <1>3, UpTo
<1> QED
  BY <1>4 DEF P

\* Taking entries off two queues that are joined.
LEMMA WithoutConcat ==
  ASSUME NEW A, NEW a \in Seq(A), NEW b \in Seq(A), NEW S
  PROVE  Without(a \o b, S) = Without(a, S) \o Without(b, S)
<1>0. ASSUME NEW u \in Seq(A), NEW v \in Seq(A), NEW x \in A
      PROVE  Append(u \o v, x) = u \o Append(v, x)
  <2>1. <<x>> \in Seq(A) /\ u \o v \in Seq(A)
    OBVIOUS
  <2>2. Append(u \o v, x) = (u \o v) \o <<x>> /\ Append(v, x) = v \o <<x>>
    BY <2>1, AppendIsConcat
  <2>3. (u \o v) \o <<x>> = u \o (v \o <<x>>)
    BY <2>1, ConcatAssociative
  <2> QED
    BY <2>2, <2>3
<1> DEFINE q == a \o b
           K == Kept(q, S)
           Ka == Kept(a, S)
           Kb == Kept(b, S)
           n == Len(a)
           P == {i \in 0..Len(a) : K[i] = Ka[i]}
           Q == {i \in 0..Len(b) : K[n + i] = Ka[n] \o Kb[i]}
<1>1. /\ q \in Seq(A) /\ Len(q) = Len(a) + Len(b) /\ Len(a) \in Nat /\ Len(b) \in Nat
      /\ \A i \in 1..Len(a) : q[i] = a[i]
      /\ \A i \in 1..Len(b) : q[n + i] = b[i]
      /\ \A i \in 1..Len(b) : b[i] \in A
  OBVIOUS
<1> HIDE DEF q
<1>2. /\ K[0] = <<>>
      /\ \A i \in 1..Len(q) :
           K[i] = IF q[i] \in S THEN K[i - 1] ELSE Append(K[i - 1], q[i])
  BY <1>1, KeptRec
<1>3. /\ Ka[0] = <<>>
      /\ \A i \in 1..Len(a) :
           Ka[i] = IF a[i] \in S THEN Ka[i - 1] ELSE Append(Ka[i - 1], a[i])
  BY KeptRec
<1>4. /\ Kb[0] = <<>>
      /\ \A i \in 1..Len(b) :
           Kb[i] = IF b[i] \in S THEN Kb[i - 1] ELSE Append(Kb[i - 1], b[i])
  BY KeptRec
<1>5. /\ \A i \in 0..Len(a) : Ka[i] \in Seq(A)
      /\ \A i \in 0..Len(b) : Kb[i] \in Seq(A)
  BY KeptType
<1> HIDE DEF K, Ka, Kb
<1>6. 0 \in P
  BY <1>1, <1>2, <1>3
<1>7. ASSUME NEW i \in 0..Len(a), i \in P, i < Len(a) PROVE i + 1 \in P
  <2>1. i + 1 \in 1..Len(a) /\ i + 1 \in 1..Len(q) /\ (i + 1) - 1 = i
    BY <1>1, <1>7
  <2>2. K[i + 1] = IF q[i + 1] \in S THEN K[i] ELSE Append(K[i], q[i + 1])
    BY <1>2, <2>1
  <2>3. Ka[i + 1] = IF a[i + 1] \in S THEN Ka[i] ELSE Append(Ka[i], a[i + 1])
    BY <1>3, <2>1
  <2>4. q[i + 1] = a[i + 1]
    BY <1>1, <2>1
  <2> QED
    BY <1>7, <2>1, <2>2, <2>3, <2>4
<1>8. \A i \in 0..Len(a) : i \in P
  <2> HIDE DEF P
  <2>1. \A i \in 0..Len(a) : i \in P /\ i < Len(a) => i + 1 \in P
    BY <1>7
  <2> QED
    BY <1>1, <1>6, <2>1, UpTo
<1>9. K[n] = Ka[n] /\ Ka[n] \in Seq(A)
  BY <1>1, <1>5, <1>8
<1>10. 0 \in Q
  <2>1. Ka[n] \o Kb[0] = Ka[n] /\ n + 0 = n /\ 0 \in 0..Len(b)
    BY <1>1, <1>4, <1>9
  <2> QED
    BY <1>9, <2>1
<1>11. ASSUME NEW i \in 0..Len(b), i \in Q, i < Len(b) PROVE i + 1 \in Q
  <2>1. /\ i + 1 \in 1..Len(b) /\ n + (i + 1) \in 1..Len(q) /\ (i + 1) - 1 = i
        /\ (n + (i + 1)) - 1 = n + i
    BY <1>1, <1>11
  <2>2. K[n + (i + 1)] = IF q[n + (i + 1)] \in S THEN K[n + i]
                         ELSE Append(K[n + i], q[n + (i + 1)])
    BY <1>2, <2>1
  <2>3. Kb[i + 1] = IF b[i + 1] \in S THEN Kb[i] ELSE Append(Kb[i], b[i + 1])
    BY <1>4, <2>1
  <2>4. q[n + (i + 1)] = b[i + 1] /\ b[i + 1] \in A
    BY <1>1, <2>1
  <2>5. Append(Ka[n] \o Kb[i], b[i + 1]) = Ka[n] \o Append(Kb[i], b[i + 1])
    <3>1. Ka[n] \in Seq(A) /\ Kb[i] \in Seq(A) /\ b[i + 1] \in A
      BY <1>5, <1>9, <2>4
    <3> HIDE DEF n
    <3> QED
      BY <1>0, <3>1, Zenon
  <2>6. K[n + i] = Ka[n] \o Kb[i]
    BY <1>11
  <2>7. K[n + (i + 1)] = Ka[n] \o Kb[i + 1]
    <3> HIDE DEF n
    <3> QED
      BY <2>2, <2>3, <2>4, <2>5, <2>6, Zenon
  <2>8. i + 1 \in 0..Len(b)
    BY <1>11
  <2> QED
    BY <2>7, <2>8
<1>12. \A i \in 0..Len(b) : i \in Q
  <2> HIDE DEF Q
  <2>1. \A i \in 0..Len(b) : i \in Q /\ i < Len(b) => i + 1 \in Q
    BY <1>11
  <2> QED
    BY <1>1, <1>10, <2>1, UpTo
<1>13. K[n + Len(b)] = Ka[n] \o Kb[Len(b)]
  <2>1. Len(b) \in 0..Len(b)
    BY <1>1
  <2>2. Len(b) \in Q
    BY <1>12, <2>1
  <2> QED
    BY <2>2
<1>14. K[Len(q)] = Ka[Len(a)] \o Kb[Len(b)]
  BY <1>1, <1>13
<1> QED
  BY <1>14 DEF K, Ka, Kb, Without, q

\* Taking entries off in two goes.
LEMMA WithoutTwice ==
  ASSUME NEW A, NEW q \in Seq(A), NEW S, NEW T
  PROVE  Without(Without(q, S), T) = Without(q, S \cup T)
<1> DEFINE K == Kept(q, S)
           L == Kept(q, S \cup T)
           P == {i \in 0..Len(q) : Without(K[i], T) = L[i]}
<1>1. Len(q) \in Nat
  OBVIOUS
<1>2. /\ K[0] = <<>>
      /\ \A i \in 1..Len(q) :
           K[i] = IF q[i] \in S THEN K[i - 1] ELSE Append(K[i - 1], q[i])
  BY KeptRec
<1>3. /\ L[0] = <<>>
      /\ \A i \in 1..Len(q) :
           L[i] = IF q[i] \in S \cup T THEN L[i - 1] ELSE Append(L[i - 1], q[i])
  BY KeptRec
<1>4. \A i \in 0..Len(q) : K[i] \in Seq(A)
  BY KeptType
<1> HIDE DEF K, L
<1>5. Without(<<>>, T) = <<>>
  <2>1. <<>> \in Seq(A) /\ Len(<<>>) = 0
    OBVIOUS
  <2>2. Kept(<<>>, T)[0] = <<>>
    BY <2>1, KeptRec
  <2> QED
    BY <2>1, <2>2 DEF Without
<1>6. ASSUME NEW x \in A
      PROVE  Without(<<x>>, T) = IF x \in T THEN <<>> ELSE <<x>>
  <2>1. <<x>> \in Seq(A) /\ Len(<<x>>) = 1 /\ <<x>>[1] = x /\ 1 \in 1..1 /\ 1 - 1 = 0
    OBVIOUS
  <2>2. Kept(<<x>>, T)[0] = <<>>
    BY <2>1, KeptRec
  <2>3. Kept(<<x>>, T)[1] = IF x \in T THEN Kept(<<x>>, T)[0]
                            ELSE Append(Kept(<<x>>, T)[0], x)
    <3>1. \A i \in 1..Len(<<x>>) :
            Kept(<<x>>, T)[i] = IF <<x>>[i] \in T THEN Kept(<<x>>, T)[i - 1]
                                ELSE Append(Kept(<<x>>, T)[i - 1], <<x>>[i])
      <4>1. \A w \in Seq(A) : \A i \in 1..Len(w) :
              Kept(w, T)[i] = IF w[i] \in T THEN Kept(w, T)[i - 1]
                              ELSE Append(Kept(w, T)[i - 1], w[i])
        BY KeptRec
      <4> QED
        BY <2>1, <4>1, Zenon
    <3>2. 1 \in 1..Len(<<x>>)
      BY <2>1
    <3>3. Kept(<<x>>, T)[1] = IF <<x>>[1] \in T THEN Kept(<<x>>, T)[1 - 1]
                              ELSE Append(Kept(<<x>>, T)[1 - 1], <<x>>[1])
      BY <3>1, <3>2, Zenon
    <3> QED
      BY <2>1, <3>3, Zenon
  <2>4. Without(<<x>>, T) = Kept(<<x>>, T)[1]
    BY <2>1 DEF Without
  <2>5. Append(<<>>, x) = <<x>>
    OBVIOUS
  <2> QED
    BY <2>2, <2>3, <2>4, <2>5
<1>7. 0 \in P
  BY <1>1, <1>2, <1>3, <1>5
<1>8. ASSUME NEW i \in 0..Len(q), i \in P, i < Len(q) PROVE i + 1 \in P
  <2>1. i + 1 \in 1..Len(q) /\ (i + 1) - 1 = i /\ q[i + 1] \in A
    BY <1>1, <1>8
  <2> DEFINE x == q[i + 1]
  <2>2. K[i + 1] = IF x \in S THEN K[i] ELSE Append(K[i], x)
    BY <1>2, <2>1
  <2>3. L[i + 1] = IF x \in S \cup T THEN L[i] ELSE Append(L[i], x)
    BY <1>3, <2>1
  <2>4. Without(K[i], T) = L[i] /\ K[i] \in Seq(A) /\ Without(K[i], T) \in Seq(A)
    BY <1>4, <1>8, WithoutType
  <2> HIDE DEF x
  <2>5. x \in A /\ <<x>> \in Seq(A)
    BY <2>1 DEF x
  <2>6. Append(K[i], x) = K[i] \o <<x>> /\ Append(L[i], x) = L[i] \o <<x>>
    <3>1. ASSUME NEW w \in Seq(A) PROVE Append(w, x) = w \o <<x>>
      BY <2>5
    <3>2. L[i] \in Seq(A)
      BY <2>4
    <3> QED
      BY <2>4, <3>1, <3>2, Zenon
  <2>7. Without(K[i] \o <<x>>, T) = L[i] \o Without(<<x>>, T)
    <3>1. \A u, v \in Seq(A) : Without(u \o v, T) = Without(u, T) \o Without(v, T)
      BY WithoutConcat
    <3>2. Without(K[i] \o <<x>>, T) = Without(K[i], T) \o Without(<<x>>, T)
      BY <2>4, <2>5, <3>1, Zenon
    <3> QED
      BY <2>4, <3>2
  <2>8. L[i] \o <<>> = L[i]
    BY <2>4
  <2>9. Without(K[i + 1], T) = L[i + 1]
    <3>1. CASE x \in S
      BY <2>2, <2>3, <2>4, <3>1
    <3>2. CASE x \notin S /\ x \in T
      BY <1>6, <2>2, <2>3, <2>5, <2>6, <2>7, <2>8, <3>2
    <3>3. CASE x \notin S /\ x \notin T
      BY <1>6, <2>2, <2>3, <2>5, <2>6, <2>7, <3>3
    <3> QED
      BY <3>1, <3>2, <3>3
  <2> QED
    BY <2>1, <2>9
<1>9. \A i \in 0..Len(q) : i \in P
  <2> HIDE DEF P
  <2>1. \A i \in 0..Len(q) : i \in P /\ i < Len(q) => i + 1 \in P
    BY <1>8
  <2> QED
    BY <1>1, <1>7, <2>1, UpTo
<1>10. Without(K[Len(q)], T) = L[Len(q)]
  BY <1>1, <1>9
<1> QED
  BY <1>10 DEF K, L, Without

\* A queue that loses nothing, and one that loses everything.
LEMMA WithoutNone ==
  ASSUME NEW A, NEW q \in Seq(A), NEW S, Range(q) \cap S = {}
  PROVE  Without(q, S) = q
<1> DEFINE K == Kept(q, S)
           P == {i \in 0..Len(q) : K[i] = SubSeq(q, 1, i)}
<1>1. Len(q) \in Nat /\ \A i \in 1..Len(q) : q[i] \notin S
  BY RangeSeq
<1>2. /\ K[0] = <<>>
      /\ \A i \in 1..Len(q) :
           K[i] = IF q[i] \in S THEN K[i - 1] ELSE Append(K[i - 1], q[i])
  BY KeptRec
<1> HIDE DEF K
<1>3. 0 \in P
  <2>1. SubSeq(q, 1, 0) = <<>>
    OBVIOUS
  <2>2. K[0] = SubSeq(q, 1, 0) /\ 0 \in 0..Len(q)
    BY <1>1, <1>2, <2>1
  <2> QED
    BY <2>2
<1>4. ASSUME NEW i \in 0..Len(q), i \in P, i < Len(q) PROVE i + 1 \in P
  <2>1. i + 1 \in 1..Len(q) /\ (i + 1) - 1 = i /\ i + 1 \in 0..Len(q)
    BY <1>1, <1>4
  <2>2. K[i + 1] = Append(SubSeq(q, 1, i), q[i + 1])
    BY <1>1, <1>2, <1>4, <2>1
  <2>3. Append(SubSeq(q, 1, i), q[i + 1]) = SubSeq(q, 1, i + 1)
    BY <2>1
  <2>4. K[i + 1] = SubSeq(q, 1, i + 1)
    BY <2>2, <2>3
  <2> QED
    BY <2>1, <2>4
<1>5. \A i \in 0..Len(q) : i \in P
  <2> HIDE DEF P
  <2>1. \A i \in 0..Len(q) : i \in P /\ i < Len(q) => i + 1 \in P
    BY <1>4
  <2> QED
    BY <1>1, <1>3, <2>1, UpTo
<1>6. K[Len(q)] = SubSeq(q, 1, Len(q)) /\ SubSeq(q, 1, Len(q)) = q
  BY <1>1, <1>5
<1> QED
  BY <1>6 DEF K, Without

LEMMA WithoutAll ==
  ASSUME NEW A, NEW q \in Seq(A), NEW S, Range(q) \subseteq S
  PROVE  Without(q, S) = <<>>
<1>1. Without(q, S) \in Seq(A) /\ Range(Without(q, S)) = {}
  BY WithoutType, WithoutRange
<1>2. ASSUME Without(q, S) # <<>> PROVE FALSE
  <2>1. Without(q, S)[1] \in Range(Without(q, S))
    <3>1. Len(Without(q, S)) \in Nat /\ Len(Without(q, S)) # 0
      BY <1>1, <1>2
    <3>2. Range(Without(q, S)) = {Without(q, S)[i] : i \in 1..Len(Without(q, S))}
      BY <1>1, RangeSeq
    <3>3. 1 \in 1..Len(Without(q, S))
      BY <3>1
    <3> QED
      BY <3>2, <3>3
  <2> QED
    BY <1>1, <2>1
<1> QED
  BY <1>2

\* One queue after another.
LEMMA ConcatRange ==
  ASSUME NEW A, NEW q \in Seq(A), NEW r \in Seq(A)
  PROVE  q \o r \in Seq(A) /\ Range(q \o r) = Range(q) \cup Range(r)
<1> DEFINE w == q \o r
<1>1. /\ w \in Seq(A) /\ Len(w) = Len(q) + Len(r) /\ Len(q) \in Nat /\ Len(r) \in Nat
      /\ \A i \in 1..Len(q) : w[i] = q[i]
      /\ \A i \in 1..Len(r) : w[Len(q) + i] = r[i]
  OBVIOUS
<1> HIDE DEF w
<1>2. /\ Range(w) = {w[i] : i \in 1..Len(w)}
      /\ Range(q) = {q[i] : i \in 1..Len(q)} /\ Range(r) = {r[i] : i \in 1..Len(r)}
  BY <1>1, RangeSeq
<1>3. ASSUME NEW x \in Range(w) PROVE x \in Range(q) \cup Range(r)
  <2>1. PICK i \in 1..Len(w) : x = w[i]
    BY <1>2
  <2>2. CASE i <= Len(q)
    <3>1. i \in 1..Len(q) /\ x = q[i]
      BY <1>1, <2>1, <2>2
    <3> QED
      BY <1>2, <3>1
  <2>3. CASE i > Len(q)
    <3>1. i - Len(q) \in 1..Len(r) /\ Len(q) + (i - Len(q)) = i
      BY <1>1, <2>3
    <3>2. x = r[i - Len(q)]
      BY <1>1, <2>1, <3>1
    <3> QED
      BY <1>2, <3>1, <3>2
  <2> QED
    BY <1>1, <2>2, <2>3
<1>4. ASSUME NEW x \in Range(q) \cup Range(r) PROVE x \in Range(w)
  <2>1. CASE x \in Range(q)
    <3>1. PICK i \in 1..Len(q) : x = q[i]
      BY <1>2, <2>1
    <3>2. i \in 1..Len(w) /\ x = w[i]
      BY <1>1, <3>1
    <3> QED
      BY <1>2, <3>2
  <2>2. CASE x \in Range(r)
    <3>1. PICK i \in 1..Len(r) : x = r[i]
      BY <1>2, <2>2
    <3>2. Len(q) + i \in 1..Len(w) /\ x = w[Len(q) + i]
      BY <1>1, <3>1
    <3> QED
      BY <1>2, <3>2
  <2> QED
    BY <2>1, <2>2
<1> QED
  BY <1>1, <1>3, <1>4 DEF w
=============================================================================
