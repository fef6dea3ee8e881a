---------------------------- MODULE TotalsProofs ----------------------------
(***************************************************************************)
(* Facts about sums, for sequences of any length, and the induction they   *)
(* rest on.  The provers cannot instantiate an induction rule that takes a *)
(* predicate, so the rules here take the SET of the values for which the   *)
(* claim holds.                                                            *)
(***************************************************************************)
EXTENDS Totals, SequencesExt, FiniteSetTheorems, SequenceTheorems, TLAPS

\* Induction over the naturals, for a set instead of a predicate.  A number
\* outside T, and all below it, could be moved down by one without collision.
LEMMA SetInduction ==
  ASSUME NEW T, 0 \in T, \A n \in Nat : n \in T => n + 1 \in T
  PROVE  Nat \subseteq T
<1> SUFFICES ASSUME NEW m \in Nat, m \notin T PROVE FALSE
  OBVIOUS
<1> DEFINE f == [k \in 0..m |-> IF k \in T THEN k ELSE k - 1]
<1>1. m > 0
  OBVIOUS
<1>2. f \in [0..m -> 0..(m - 1)]
  BY <1>1
<1>3. \A j, k \in 0..m : j # k => f[j] # f[k]
  <2>1. \A k \in 0..m : k \notin T => k > 0 /\ k - 1 \notin T
    OBVIOUS
  <2> QED BY <2>1
<1>4. /\ IsFiniteSet(0..m) /\ Cardinality(0..m) = m + 1
      /\ IsFiniteSet(0..(m - 1)) /\ Cardinality(0..(m - 1)) = m
  BY <1>1, FS_Interval
<1> HIDE DEF f
<1>5. Cardinality(0..(m - 1)) < Cardinality(0..m)
  BY <1>4
<1>6. \E x, y \in 0..m : x # y /\ f[x] = f[y]
  BY <1>2, <1>4, <1>5, FS_PigeonHole, Zenon
<1> QED
  BY <1>3, <1>6

\* The values a loop goes through: a before it, F[i] turns them in turn i.
IsTrace(g, a, F, n) == g[0] = a /\ \A i \in 1..n : g[i] = F[i][g[i - 1]]

\* A loop of n turns over the values V has a trace.
LEMMA TraceExists ==
  ASSUME NEW V, NEW a \in V, NEW n \in Nat, NEW F \in [1..n -> [V -> V]]
  PROVE  \E g \in [0..n -> V] : IsTrace(g, a, F, n)
<1> DEFINE Trace(g, m) == g[0] = a /\ \A i \in 1..m : g[i] = F[i][g[i - 1]]
           P(m) == m <= n => \E g \in [0..m -> V] : Trace(g, m)
           T == {m \in Nat : P(m)}
<1>1. P(0)
  <2> DEFINE g == [i \in 0..0 |-> a]
  <2>1. g \in [0..0 -> V] /\ Trace(g, 0)
    OBVIOUS
  <2> QED BY <2>1
<1>2. ASSUME NEW m \in Nat, P(m) PROVE P(m + 1)
  <2> SUFFICES ASSUME m + 1 <= n
               PROVE  \E g \in [0..(m + 1) -> V] : Trace(g, m + 1)
    OBVIOUS
  <2>0. m <= n
    OBVIOUS
  <2>1. PICK g \in [0..m -> V] : Trace(g, m)
    BY <1>2, <2>0
  <2> DEFINE h == [i \in 0..(m + 1) |-> IF i <= m THEN g[i] ELSE F[m + 1][g[m]]]
  <2>2. F[m + 1][g[m]] \in V
    BY <2>0
  <2>3. h \in [0..(m + 1) -> V]
    BY <2>2
  <2>4. Trace(h, m + 1)
    BY <2>1
  <2> QED
    BY <2>3, <2>4
<1> HIDE DEF P
<1>3. 0 \in T /\ \A m \in Nat : m \in T => m + 1 \in T
  BY <1>1, <1>2
<1>4. Nat \subseteq T
  BY <1>3, SetInduction
<1>5. P(n)
  BY <1>4
<1> QED
  BY <1>5 DEF P, IsTrace

\* Numbers have partial sums.
LEMMA PartialSums ==
  ASSUME NEW n \in Nat, NEW h \in [1..n -> Nat]
  PROVE  \E s \in [0..n -> Nat] :
           s[0] = 0 /\ \A i \in 1..n : s[i] = s[i - 1] + h[i]
<1> DEFINE F == [i \in 1..n |-> [x \in Nat |-> x + h[i]]]
<1>1. 0 \in Nat /\ F \in [1..n -> [Nat -> Nat]]
  OBVIOUS
<1>2. PICK g \in [0..n -> Nat] : IsTrace(g, 0, F, n)
  <2> HIDE DEF F
  <2> QED BY <1>1, TraceExists
<1>3. ASSUME NEW i \in 1..n PROVE g[i] = g[i - 1] + h[i]
  <2>1. g[i - 1] \in Nat
    OBVIOUS
  <2>2. F[i][g[i - 1]] = g[i - 1] + h[i]
    BY <2>1
  <2> QED BY <1>2, <2>2 DEF IsTrace
<1> QED
  BY <1>2, <1>3 DEF IsTrace

\* What Total computes: the last of the partial sums, however they are named.
LEMMA TotalTrace ==
  ASSUME NEW h \in Seq(Nat), NEW g \in [0..Len(h) -> Nat],
         g[0] = 0, \A i \in 1..Len(h) : g[i] = g[i - 1] + h[i]
  PROVE  Total(h) = g[Len(h)]
<1> DEFINE Sum(f) == f = [i \in 0..Len(h) |-> IF i = 0 THEN 0 ELSE f[i - 1] + h[i]]
           sum == CHOOSE f : Sum(f)
<1>1. Len(h) \in Nat
  BY LenProperties
<1>2. Sum(g)
  BY <1>1
<1>3. Sum(sum)
  <2> HIDE DEF Sum
  <2> QED BY <1>2
<1>4. Total(h) = sum[Len(h)]
  BY DEF Total
<1> HIDE DEF sum
<1>5. \A i \in 0..Len(h) : sum[i] = IF i = 0 THEN 0 ELSE sum[i - 1] + h[i]
  BY <1>3
<1> DEFINE T == {i \in Nat : i <= Len(h) => sum[i] = g[i]}
<1>6. 0 \in T
  BY <1>5, <1>1
<1>7. \A i \in Nat : i \in T => i + 1 \in T
  BY <1>5, <1>1
<1> HIDE DEF T
<1>8. Nat \subseteq T
  BY <1>6, <1>7, SetInduction
<1> QED
  BY <1>1, <1>4, <1>8 DEF T

\* A total is the last of some partial sums.
LEMMA TotalSums ==
  ASSUME NEW h \in Seq(Nat)
  PROVE  \E s \in [0..Len(h) -> Nat] :
           /\ s[0] = 0 /\ \A i \in 1..Len(h) : s[i] = s[i - 1] + h[i]
           /\ Total(h) = s[Len(h)]
<1>1. Len(h) \in Nat /\ h \in [1..Len(h) -> Nat]
  BY LenProperties
<1>2. PICK s \in [0..Len(h) -> Nat] :
        s[0] = 0 /\ \A i \in 1..Len(h) : s[i] = s[i - 1] + h[i]
  BY <1>1, PartialSums
<1> QED
  BY <1>2, TotalTrace

\* The empty sum.
LEMMA TotalEmpty == Total(<<>>) = 0
<1>1. <<>> \in Seq(Nat) /\ Len(<<>>) = 0
  BY EmptySeq
<1> QED
  BY <1>1, TotalSums

\* The sum of naturals is one.
LEMMA TotalType ==
  ASSUME NEW h \in Seq(Nat)
  PROVE  Total(h) \in Nat
<1>1. Len(h) \in Nat
  BY LenProperties
<1> QED
  BY <1>1, TotalSums

\* One more number adds itself.
LEMMA TotalAppend ==
  ASSUME NEW h \in Seq(Nat), NEW x \in Nat
  PROVE  Total(Append(h, x)) = Total(h) + x
<1> DEFINE a == Append(h, x)
<1>1. /\ Len(h) \in Nat /\ a \in Seq(Nat) /\ Len(a) = Len(h) + 1
      /\ a[Len(h) + 1] = x /\ \A i \in 1..Len(h) : a[i] = h[i]
  BY LenProperties, AppendProperties
<1> HIDE DEF a
<1>2. PICK s \in [0..Len(h) -> Nat] :
           /\ s[0] = 0 /\ \A i \in 1..Len(h) : s[i] = s[i - 1] + h[i]
           /\ Total(h) = s[Len(h)]
  BY TotalSums
<1> DEFINE g == [i \in 0..Len(a) |-> IF i <= Len(h) THEN s[i] ELSE s[Len(h)] + x]
<1>3. g \in [0..Len(a) -> Nat]
  BY <1>1, SMTT(30)
<1>4. g[0] = 0 /\ \A i \in 1..Len(a) : g[i] = g[i - 1] + a[i]
  BY <1>1, <1>2
<1>5. g[Len(a)] = s[Len(h)] + x
  BY <1>1
<1> HIDE DEF g
<1>6. Total(a) = g[Len(a)]
  BY <1>1, <1>3, <1>4, TotalTrace
<1> QED
  BY <1>2, <1>5, <1>6 DEF a

\* Induction over sequences, for a set instead of a predicate.
LEMMA SeqInduction ==
  ASSUME NEW S, NEW T, <<>> \in T,
         \A s \in Seq(S), e \in S : s \in T => Append(s, e) \in T
  PROVE  Seq(S) \subseteq T
<1> DEFINE P(n) == \A s \in Seq(S) : Len(s) = n => s \in T
           N == {n \in Nat : P(n)}
<1>1. P(0)
  BY EmptySeq
<1>2. ASSUME NEW n \in Nat, P(n) PROVE P(n + 1)
  <2> SUFFICES ASSUME NEW s \in Seq(S), Len(s) = n + 1 PROVE s \in T
    OBVIOUS
  <2>1. s # <<>>
    BY EmptySeq
  <2>2. PICK r \in Seq(S), e \in S : s = Append(r, e)
    BY <2>1, SequenceEmptyOrAppend
  <2>3. Len(r) \in Nat /\ Len(s) = Len(r) + 1
    BY <2>2, AppendProperties, LenProperties
  <2>4. r \in T
    BY <1>2, <2>3
  <2> QED
    BY <2>2, <2>4
<1> HIDE DEF P
<1>3. 0 \in N /\ \A n \in Nat : n \in N => n + 1 \in N
  BY <1>1, <1>2
<1>4. Nat \subseteq N
  BY <1>3, SetInduction
<1>5. \A s \in Seq(S) : Len(s) \in Nat /\ P(Len(s))
  BY <1>4, LenProperties
<1> QED
  BY <1>5 DEF P

\* Appending to the second part of a concatenation.
LEMMA ConcatAppend ==
  ASSUME NEW S, NEW p \in Seq(S), NEW q \in Seq(S), NEW e \in S
  PROVE  p \o Append(q, e) = Append(p \o q, e)
<1>1. <<e>> \in Seq(S) /\ p \o q \in Seq(S)
  BY ConcatProperties
<1>2. Append(q, e) = q \o <<e>> /\ Append(p \o q, e) = (p \o q) \o <<e>>
  BY <1>1, AppendIsConcat
<1> QED
  BY <1>1, <1>2, ConcatAssociative

\* The sum of a concatenation is the sum of both sums.
LEMMA TotalConcat ==
  ASSUME NEW p \in Seq(Nat), NEW q \in Seq(Nat)
  PROVE  p \o q \in Seq(Nat) /\ Total(p \o q) = Total(p) + Total(q)
<1> DEFINE T == {r \in Seq(Nat) : Total(p \o r) = Total(p) + Total(r)}
<1>0. Total(p) \in Nat
  BY TotalType
<1>1. <<>> \in T
  BY <1>0, EmptySeq, ConcatEmptySeq, TotalEmpty
<1>2. ASSUME NEW r \in Seq(Nat), NEW e \in Nat, r \in T PROVE Append(r, e) \in T
  <2>1. p \o r \in Seq(Nat) /\ Append(r, e) \in Seq(Nat)
    BY ConcatProperties, AppendProperties
  <2>2. /\ Total(p \o Append(r, e)) = Total(p \o r) + e
        /\ Total(Append(r, e)) = Total(r) + e
    <3>1. p \o Append(r, e) = Append(p \o r, e)
      BY ConcatAppend
    <3>2. Total(Append(p \o r, e)) = Total(p \o r) + e
      BY <2>1, TotalAppend
    <3> QED BY <3>1, <3>2, TotalAppend
  <2>3. Total(p) \in Nat /\ Total(r) \in Nat
    BY TotalType
  <2> QED
    BY <1>2, <2>1, <2>2, <2>3
<1> HIDE DEF T
<1>3. Seq(Nat) \subseteq T
  BY <1>1, <1>2, SeqInduction
<1>4. p \o q \in Seq(Nat)
  BY ConcatProperties
<1> QED
  BY <1>3, <1>4 DEF T

\* Changing one number changes the total by the difference.
LEMMA TotalExcept ==
  ASSUME NEW q \in Seq(Nat), NEW i \in 1..Len(q), NEW y \in Nat
  PROVE  /\ [q EXCEPT ![i] = y] \in Seq(Nat)
         /\ Total([q EXCEPT ![i] = y]) + q[i] = Total(q) + y
<1> DEFINE P(h) == \A k \in 1..Len(h) : \A x \in Nat :
                     Total([h EXCEPT ![k] = x]) + h[k] = Total(h) + x
           T == {h \in Seq(Nat) : P(h)}
<1>1. P(<<>>)
  BY EmptySeq
<1>2. ASSUME NEW h \in Seq(Nat), NEW e \in Nat, P(h) PROVE P(Append(h, e))
  <2>1. PICK a \in Seq(Nat) : a = Append(h, e)
    BY AppendProperties
  <2>2. PICK n \in Nat : n = Len(h)
    BY LenProperties
  <2>3. /\ Len(a) = n + 1 /\ a[n + 1] = e /\ \A j \in 1..n : a[j] = h[j]
    BY <2>1, <2>2, AppendProperties
  <2>4. Total(h) \in Nat /\ Total(a) = Total(h) + e
    BY <2>1, TotalAppend, TotalType
  <2> SUFFICES ASSUME NEW k \in 1..(n + 1), NEW x \in Nat
               PROVE  Total([a EXCEPT ![k] = x]) + a[k] = Total(a) + x
    BY <2>1, <2>3
  <2>5. PICK c : c = [a EXCEPT ![k] = x]
    OBVIOUS
  <2>6. /\ c \in Seq(Nat) /\ Len(c) = n + 1
        /\ \A j \in 1..(n + 1) : c[j] = IF j = k THEN x ELSE a[j]
    BY <2>3, <2>5, ExceptSeq
  <2>7. CASE k = n + 1
    <3>1. PICK d \in Seq(Nat) : d = Append(h, x)
      BY AppendProperties
    <3>2. Len(d) = n + 1 /\ d[n + 1] = x /\ \A j \in 1..n : d[j] = h[j]
      BY <2>2, <3>1, AppendProperties
    <3>3. c = d
      <4>1. \A j \in 1..(n + 1) : c[j] = d[j]
        <5> TAKE j \in 1..(n + 1)
        <5>1. CASE j = n + 1
          BY <2>6, <2>7, <3>2, <5>1
        <5>2. CASE j \in 1..n
          <6>1. j # k
            BY <2>7, <5>2
          <6> QED BY <2>3, <2>6, <3>2, <5>2, <6>1
        <5> QED BY <5>1, <5>2
      <4> QED BY <2>6, <3>2, <4>1, SeqEqual
    <3>4. Total(d) = Total(h) + x
      BY <3>1, TotalAppend
    <3>5. Total(c) + a[k] = Total(a) + x
      BY <2>3, <2>4, <2>7, <3>3, <3>4
    <3> QED BY <2>5, <3>5
  <2>8. CASE k # n + 1
    <3>0. k \in 1..n
      BY <2>8
    <3>1. PICK d : d = [h EXCEPT ![k] = x]
      OBVIOUS
    <3>2. /\ d \in Seq(Nat) /\ Len(d) = n
          /\ \A j \in 1..n : d[j] = IF j = k THEN x ELSE h[j]
      BY <2>2, <3>0, <3>1, ExceptSeq
    <3>3. Total(d) + h[k] = Total(h) + x
      BY <1>2, <2>2, <3>0, <3>1
    <3>4. PICK b \in Seq(Nat) : b = Append(d, e)
      BY <3>2, AppendProperties
    <3>5. Len(b) = n + 1 /\ b[n + 1] = e /\ \A j \in 1..n : b[j] = d[j]
      BY <3>2, <3>4, AppendProperties
    <3>6. c = b
      <4>1. \A j \in 1..(n + 1) : c[j] = b[j]
        <5> TAKE j \in 1..(n + 1)
        <5>1. CASE j = n + 1
          BY <2>3, <2>6, <3>0, <3>5, <5>1
        <5>2. CASE j \in 1..n
          BY <2>3, <2>6, <3>2, <3>5, <5>2
        <5> QED BY <5>1, <5>2
      <4> QED BY <2>6, <3>5, <4>1, SeqEqual
    <3>7. Total(b) = Total(d) + e
      BY <3>2, <3>4, TotalAppend
    <3>8. Total(d) \in Nat /\ h[k] \in Nat /\ a[k] = h[k]
      BY <2>2, <2>3, <3>0, <3>2, TotalType, ElementOfSeq
    <3>9. Total(c) + a[k] = Total(a) + x
      <4>1. (Total(d) + e) + h[k] = (Total(h) + e) + x
        <5>1. PICK u \in Nat, v \in Nat, w \in Nat :
                u = Total(d) /\ v = h[k] /\ w = Total(h)
          BY <2>4, <3>8
        <5>2. u + v = w + x
          BY <3>3, <5>1, Zenon
        <5>3. (u + e) + v = (w + e) + x
          BY <5>2
        <5> QED BY <5>1, <5>3, Zenon
      <4> QED BY <2>4, <3>6, <3>7, <3>8, <4>1, Zenon
    <3> QED BY <2>5, <3>9
  <2> QED
    BY <2>7, <2>8
<1> HIDE DEF P
<1>3. <<>> \in T /\ \A h \in Seq(Nat), e \in Nat : h \in T => Append(h, e) \in T
  BY <1>1, <1>2, EmptySeq, AppendProperties
<1>4. Seq(Nat) \subseteq T
  BY <1>3, SeqInduction
<1>5. P(q)
  BY <1>4
<1> QED
  BY <1>5, ExceptSeq DEF P

\* No number exceeds the total.
LEMMA TotalElement ==
  ASSUME NEW h \in Seq(Nat), NEW k \in 1..Len(h)
  PROVE  h[k] <= Total(h)
<1> DEFINE c == [h EXCEPT ![k] = 0]
<1>1. c \in Seq(Nat) /\ Total(c) + h[k] = Total(h) + 0
  BY TotalExcept
<1> HIDE DEF c
<1>2. Total(c) \in Nat /\ Total(h) \in Nat /\ h[k] \in Nat
  BY <1>1, TotalType, ElementOfSeq
<1> QED
  BY <1>1, <1>2

\* Nothing adds up to nothing.
LEMMA TotalZero ==
  ASSUME NEW h \in Seq(Nat), \A i \in 1..Len(h) : h[i] = 0
  PROVE  Total(h) = 0
<1>1. Len(h) \in Nat
  BY LenProperties
<1> DEFINE g == [i \in 0..Len(h) |-> 0]
<1>2. g \in [0..Len(h) -> Nat] /\ g[0] = 0 /\ g[Len(h)] = 0
      /\ \A i \in 1..Len(h) : g[i] = g[i - 1] + h[i]
  BY <1>1
<1> HIDE DEF g
<1> QED
  BY <1>2, TotalTrace

-----------------------------------------------------------------------------
(* The sum of the weights of a sequence's elements.                        *)

Weigh(q, w) == Total([i \in 1..Len(q) |-> w[q[i]]])

\* The weights are a sequence of numbers.
LEMMA WeightsType ==
  ASSUME NEW S, NEW w \in [S -> Nat], NEW q \in Seq(S)
  PROVE  LET h == [i \in 1..Len(q) |-> w[q[i]]] IN
         h \in Seq(Nat) /\ Len(h) = Len(q) /\ \A i \in 1..Len(q) : h[i] = w[q[i]]
<1>1. PICK n \in Nat : n = Len(q)
  BY LenProperties
<1>2. \A i \in 1..n : w[q[i]] \in Nat
  BY <1>1, ElementOfSeq
<1> DEFINE h == [i \in 1..n |-> w[q[i]]]
<1>3. h \in Seq(Nat) /\ Len(h) = n /\ \A i \in 1..n : h[i] = w[q[i]]
  BY <1>2, IsASeq
<1> QED
  BY <1>1, <1>3

\* So their sum is a number.
LEMMA WeighType ==
  ASSUME NEW S, NEW w \in [S -> Nat], NEW q \in Seq(S)
  PROVE  Weigh(q, w) \in Nat
  BY WeightsType, TotalType DEF Weigh

\* Nothing weighs nothing.
LEMMA WeighEmpty ==
  ASSUME NEW w
  PROVE  Weigh(<<>>, w) = 0
<1>1. [i \in 1..Len(<<>>) |-> w[(<<>>)[i]]] = <<>>
  BY EmptySeq
<1> QED
  BY <1>1, TotalEmpty DEF Weigh

\* One more element adds its weight.
LEMMA WeighAppend ==
  ASSUME NEW S, NEW w \in [S -> Nat], NEW q \in Seq(S), NEW e \in S
  PROVE  Weigh(Append(q, e), w) = Weigh(q, w) + w[e]
<1>1. PICK a \in Seq(S) : a = Append(q, e)
  BY AppendProperties
<1>2. PICK n \in Nat : n = Len(q)
  BY LenProperties
<1>3. Len(a) = n + 1 /\ a[n + 1] = e /\ \A i \in 1..n : a[i] = q[i]
  BY <1>1, <1>2, AppendProperties
<1> DEFINE h == [i \in 1..Len(q) |-> w[q[i]]]
           g == [i \in 1..Len(a) |-> w[a[i]]]
<1>4. /\ h \in Seq(Nat) /\ Len(h) = n /\ \A i \in 1..n : h[i] = w[q[i]]
      /\ g \in Seq(Nat) /\ Len(g) = n + 1
      /\ \A i \in 1..(n + 1) : g[i] = w[a[i]]
  BY <1>2, <1>3, WeightsType
<1> HIDE DEF h, g
<1>5. w[e] \in Nat
  OBVIOUS
<1>6. PICK b \in Seq(Nat) : b = Append(h, w[e])
  BY <1>4, <1>5, AppendProperties
<1>7. Len(b) = n + 1 /\ b[n + 1] = w[e] /\ \A i \in 1..n : b[i] = h[i]
  BY <1>4, <1>5, <1>6, AppendProperties
<1>8. \A i \in 1..(n + 1) : g[i] = b[i]
  <2> TAKE i \in 1..(n + 1)
  <2>1. CASE i = n + 1
    BY <1>3, <1>4, <1>7, <2>1
  <2>2. CASE i \in 1..n
    <3>1. a[i] = q[i] /\ h[i] = w[q[i]] /\ b[i] = h[i] /\ g[i] = w[a[i]]
      BY <1>3, <1>4, <1>7, <2>2
    <3> QED BY <3>1
  <2> QED BY <2>1, <2>2
<1>9. g = b
  BY <1>4, <1>7, <1>8, SeqEqual
<1>10. Total(g) = Total(h) + w[e]
  BY <1>4, <1>5, <1>6, <1>9, TotalAppend
<1> QED
  BY <1>1, <1>10 DEF Weigh, h, g

\* One element weighs its weight.
LEMMA WeighSingle ==
  ASSUME NEW S, NEW w \in [S -> Nat], NEW e \in S
  PROVE  Weigh(<<e>>, w) = w[e]
<1>1. <<>> \in Seq(S) /\ Append(<<>>, e) = <<e>>
  BY EmptySeq
<1>2. Weigh(<<e>>, w) = 0 + w[e]
  BY <1>1, WeighAppend, WeighEmpty
<1> QED
  BY <1>2

\* A concatenation weighs what its parts weigh.
LEMMA WeighConcat ==
  ASSUME NEW S, NEW w \in [S -> Nat], NEW p \in Seq(S), NEW q \in Seq(S)
  PROVE  Weigh(p \o q, w) = Weigh(p, w) + Weigh(q, w)
<1> DEFINE T == {r \in Seq(S) : Weigh(p \o r, w) = Weigh(p, w) + Weigh(r, w)}
<1>0. Weigh(p, w) \in Nat
  BY WeighType
<1>1. <<>> \in T
  BY <1>0, EmptySeq, ConcatEmptySeq, WeighEmpty
<1>2. ASSUME NEW r \in Seq(S), NEW e \in S, r \in T PROVE Append(r, e) \in T
  <2>1. p \o r \in Seq(S) /\ Append(r, e) \in Seq(S)
    BY ConcatProperties, AppendProperties
  <2>2. /\ Weigh(p \o Append(r, e), w) = Weigh(p \o r, w) + w[e]
        /\ Weigh(Append(r, e), w) = Weigh(r, w) + w[e]
    <3>1. p \o Append(r, e) = Append(p \o r, e)
      BY ConcatAppend, SMTT(30)
    <3>2. Weigh(Append(p \o r, e), w) = Weigh(p \o r, w) + w[e]
      BY <2>1, WeighAppend
    <3> QED BY <3>1, <3>2, WeighAppend
  <2>3. PICK x \in Nat, y \in Nat : x = Weigh(r, w) /\ y = w[e]
    BY WeighType
  <2>4. PICK z \in Nat : z = Weigh(p, w)
    BY <1>0
  <2>5. Weigh(p \o r, w) = z + x
    BY <1>2, <2>3, <2>4
  <2>6. (z + x) + y = z + (x + y)
    OBVIOUS
  <2>7. Weigh(p \o Append(r, e), w) = Weigh(p, w) + Weigh(Append(r, e), w)
    BY <2>2, <2>3, <2>4, <2>5, <2>6, Zenon
  <2> QED
    BY <2>1, <2>7
<1> HIDE DEF T
<1>3. Seq(S) \subseteq T
  BY <1>1, <1>2, SeqInduction
<1> QED
  BY <1>3 DEF T

\* What is taken from the front takes its weight along.
LEMMA WeighTail ==
  ASSUME NEW S, NEW w \in [S -> Nat], NEW q \in Seq(S), q # <<>>
  PROVE  Weigh(q, w) = w[Head(q)] + Weigh(Tail(q), w)
<1>1. /\ Head(q) \in S /\ Tail(q) \in Seq(S) /\ <<Head(q)>> \in Seq(S)
  BY HeadTailProperties
<1>2. q = <<Head(q)>> \o Tail(q)
  <2>1. PICK n \in Nat : n = Len(q)
    BY LenProperties
  <2>2. PICK a, b \in Seq(S) : a = <<Head(q)>> /\ b = Tail(q)
    BY <1>1
  <2>3. /\ Len(a) = 1 /\ a[1] = q[1] /\ n > 0 /\ Len(b) = n - 1
        /\ \A i \in 1..(n - 1) : b[i] = q[i + 1]
    BY <2>1, <2>2, EmptySeq, HeadTailProperties
  <2>4. PICK c \in Seq(S) : c = a \o b
    BY ConcatProperties
  <2>5. /\ Len(c) = n
        /\ \A i \in 1..n : c[i] = IF i <= 1 THEN a[i] ELSE b[i - 1]
    <3>1. Len(c) = Len(a) + Len(b)
          /\ \A i \in 1..(Len(a) + Len(b)) :
               c[i] = IF i <= Len(a) THEN a[i] ELSE b[i - Len(a)]
      BY <2>4, ConcatProperties
    <3>2. Len(a) + Len(b) = n
      BY <2>3
    <3> QED BY <2>3, <3>1, <3>2
  <2>6. \A i \in 1..n : c[i] = q[i]
    <3> TAKE i \in 1..n
    <3>1. CASE i = 1
      BY <2>3, <2>5, <3>1
    <3>2. CASE i # 1
      <4>1. i - 1 \in 1..(n - 1) /\ ~(i <= 1) /\ (i - 1) + 1 = i
        BY <3>2
      <4> QED BY <2>3, <2>5, <4>1
    <3> QED BY <3>1, <3>2
  <2>7. c = q
    BY <2>1, <2>5, <2>6, SeqEqual
  <2> QED BY <2>2, <2>4, <2>7
<1>3. Weigh(<<Head(q)>> \o Tail(q), w) = Weigh(<<Head(q)>>, w) + Weigh(Tail(q), w)
  BY <1>1, WeighConcat
<1> QED
  BY <1>1, <1>2, <1>3, WeighSingle

\* No element outweighs its sequence.
LEMMA WeighElement ==
  ASSUME NEW S, NEW w \in [S -> Nat], NEW q \in Seq(S), NEW k \in 1..Len(q)
  PROVE  w[q[k]] <= Weigh(q, w)
<1> DEFINE h == [i \in 1..Len(q) |-> w[q[i]]]
<1>1. h \in Seq(Nat) /\ Len(h) = Len(q) /\ \A i \in 1..Len(q) : h[i] = w[q[i]]
  BY WeightsType
<1> HIDE DEF h
<1>2. h[k] <= Total(h)
  BY <1>1, TotalElement
<1> QED
  BY <1>1, <1>2 DEF Weigh, h

\* The sequences differ at most in their k-th element.
SameBut(q, c, k) ==
  Len(c) = Len(q) /\ \A i \in 1..Len(q) : i # k => c[i] = q[i]

Balanced(a, b, c, d) == a + b = c + d

\* Replacing an element exchanges its weight.
LEMMA WeighExcept ==
  ASSUME NEW S, NEW w \in [S -> Nat], NEW q \in Seq(S), NEW k \in 1..Len(q),
         NEW c \in Seq(S), SameBut(q, c, k)
  PROVE  Balanced(Weigh(c, w), w[q[k]], Weigh(q, w), w[c[k]])
<1>1. PICK n \in Nat : n = Len(q)
  BY LenProperties
<1>2. Len(c) = n /\ \A i \in 1..n : i # k => c[i] = q[i]
  BY <1>1 DEF SameBut
<1> DEFINE h == [i \in 1..Len(q) |-> w[q[i]]]
           g == [i \in 1..Len(c) |-> w[c[i]]]
<1>3. /\ h \in Seq(Nat) /\ Len(h) = n /\ \A i \in 1..n : h[i] = w[q[i]]
      /\ g \in Seq(Nat) /\ Len(g) = n /\ \A i \in 1..n : g[i] = w[c[i]]
  BY <1>1, <1>2, WeightsType
<1>4. Weigh(q, w) = Total(h) /\ Weigh(c, w) = Total(g)
  BY DEF Weigh
<1> HIDE DEF h, g
<1>5. PICK y \in Nat : y = w[c[k]]
  BY <1>1, <1>2, ElementOfSeq
<1>6. PICK b : b = [h EXCEPT ![k] = y]
  OBVIOUS
<1>7. /\ b \in Seq(Nat) /\ Len(b) = n
      /\ \A i \in 1..n : b[i] = IF i = k THEN y ELSE h[i]
  BY <1>1, <1>3, <1>6, ExceptSeq, SMTT(30)
<1>8. Total(b) + h[k] = Total(h) + y
  <2>1. h \in Seq(Nat) /\ k \in 1..Len(h)
    BY <1>1, <1>3
  <2>2. Total([h EXCEPT ![k] = y]) + h[k] = Total(h) + y
    BY <2>1, TotalExcept, Zenon
  <2> QED BY <1>6, <2>2, Zenon
<1>9. \A i \in 1..n : g[i] = b[i]
  <2> TAKE i \in 1..n
  <2>1. CASE i = k
    BY <1>2, <1>3, <1>5, <1>7, <2>1
  <2>2. CASE i # k
    <3>1. c[i] = q[i] /\ b[i] = h[i] /\ h[i] = w[q[i]] /\ g[i] = w[c[i]]
      BY <1>2, <1>3, <1>7, <2>2
    <3> QED BY <3>1
  <2> QED BY <2>1, <2>2
<1>10. g = b
  BY <1>3, <1>7, <1>9, SeqEqual
<1>11. h[k] = w[q[k]]
  BY <1>1, <1>3
<1> QED
  BY <1>2, <1>4, <1>5, <1>8, <1>10, <1>11 DEF Balanced

\* A weight of one is that of a single element.
LEMMA WeighOne ==
  ASSUME NEW S, NEW w \in [S -> Nat], NEW q \in Seq(S), Weigh(q, w) = 1
  PROVE  \E k \in 1..Len(q) :
           w[q[k]] = 1 /\ \A i \in 1..Len(q) : i # k => w[q[i]] = 0
<1>1. PICK n \in Nat : n = Len(q)
  BY LenProperties
<1> DEFINE h == [i \in 1..Len(q) |-> w[q[i]]]
<1>2. h \in Seq(Nat) /\ Len(h) = n /\ \A i \in 1..n : h[i] = w[q[i]]
  BY <1>1, WeightsType
<1>3. Total(h) = 1
  BY DEF Weigh
<1> HIDE DEF h
<1>4. PICK k \in 1..n : h[k] # 0
  BY <1>2, <1>3, TotalZero
<1>5. PICK c : c = [h EXCEPT ![k] = 0]
  OBVIOUS
<1>6. /\ c \in Seq(Nat) /\ Len(c) = n
      /\ \A i \in 1..n : c[i] = IF i = k THEN 0 ELSE h[i]
  BY <1>2, <1>5, ExceptSeq
<1>7. Total(c) + h[k] = Total(h) + 0
  BY <1>2, <1>5, TotalExcept
<1>8. Total(c) \in Nat /\ h[k] \in Nat
  BY <1>2, <1>6, TotalType, ElementOfSeq
<1>9. Total(c) = 0 /\ h[k] = 1
  BY <1>3, <1>4, <1>7, <1>8
<1>10. ASSUME NEW i \in 1..n, i # k PROVE h[i] = 0
  <2>1. c[i] <= 0 /\ c[i] = h[i] /\ c[i] \in Nat
    BY <1>6, <1>9, <1>10, TotalElement, ElementOfSeq
  <2> QED BY <2>1
<1>11. w[q[k]] = 1 /\ \A i \in 1..n : i # k => w[q[i]] = 0
  BY <1>2, <1>9, <1>10
<1> QED
  BY <1>1, <1>11

-----------------------------------------------------------------------------
(* The largest of finitely many numbers.                                   *)

\* A finite set of numbers has a largest one.
LEMMA FiniteMax ==
  ASSUME NEW N \in SUBSET Nat, IsFiniteSet(N), N # {}
  PROVE  \E m \in N : \A y \in N : m >= y
<1> DEFINE P(n) == \A T \in SUBSET Nat :
                     IsFiniteSet(T) /\ Cardinality(T) = n /\ T # {} =>
                       \E m \in T : \A y \in T : m >= y
           I == {n \in Nat : P(n)}
<1>1. P(0)
  BY FS_EmptySet
<1>2. ASSUME NEW n \in Nat, P(n) PROVE P(n + 1)
  <2> SUFFICES ASSUME NEW T \in SUBSET Nat, IsFiniteSet(T),
                      Cardinality(T) = n + 1, T # {}
               PROVE  \E m \in T : \A y \in T : m >= y
    OBVIOUS
  <2>1. PICK x : x \in T
    OBVIOUS
  <2>2. PICK U \in SUBSET Nat : U = T \ {x}
    OBVIOUS
  <2>3. IsFiniteSet(U) /\ Cardinality(U) = n
    <3>1. IsFiniteSet(U) /\ Cardinality(U) = Cardinality(T) - 1
      BY <2>1, <2>2, FS_RemoveElement
    <3> QED BY <3>1
  <2>4. CASE U = {}
    BY <2>1, <2>2, <2>4
  <2>5. CASE U # {}
    <3>1. PICK m \in U : \A y \in U : m >= y
      BY <1>2, <2>3, <2>5
    <3>2. x \in Nat /\ m \in Nat /\ m \in T /\ \A y \in T : y = x \/ y \in U
      BY <2>1, <2>2
    <3>3. CASE m >= x
      BY <3>1, <3>2, <3>3
    <3>4. CASE ~(m >= x)
      BY <2>1, <2>2, <3>1, <3>2, <3>4
    <3> QED BY <3>3, <3>4
  <2> QED BY <2>4, <2>5
<1> HIDE DEF P
<1>3. 0 \in I /\ \A n \in Nat : n \in I => n + 1 \in I
  BY <1>1, <1>2
<1>4. Nat \subseteq I
  BY <1>3, SetInduction
<1>5. Cardinality(N) \in Nat
  BY FS_CardinalityType
<1>6. P(Cardinality(N))
  BY <1>4, <1>5
<1> QED
  BY <1>6 DEF P

-----------------------------------------------------------------------------
(* Concatenating the sequences in a sequence.                              *)

\* The prefixes that FlattenSeq goes through, however they are named.
LEMMA FlattenTrace ==
  ASSUME NEW S, NEW q \in Seq(Seq(S)), NEW g \in [0..Len(q) -> Seq(S)],
         g[0] = <<>>, \A i \in 1..Len(q) : g[i] = g[i - 1] \o q[i]
  PROVE  FlattenSeq(q) = g[Len(q)]
<1>1. PICK n \in Nat : n = Len(q)
  BY LenProperties
<1>2. CASE n = 0
  <2>1. q = <<>>
    BY <1>1, <1>2, EmptySeq
  <2> QED BY <1>1, <1>2, <2>1 DEF FlattenSeq
<1>3. CASE n # 0
  <2> DEFINE Flat(f) == f = [i \in 1..Len(q) |-> IF i = 1 THEN q[i] ELSE f[i - 1] \o q[i]]
             flat == CHOOSE f : Flat(f)
             h == [i \in 1..Len(q) |-> g[i]]
  <2>1. \A i \in 1..n : q[i] \in Seq(S)
    BY <1>1, ElementOfSeq
  <2>2. g[1] = q[1]
    <3>1. 1 \in 1..n /\ 1 - 1 = 0
      BY <1>3
    <3>2. g[1] = g[1 - 1] \o q[1]
      BY <1>1, <3>1
    <3>3. g[1] = <<>> \o q[1] /\ q[1] \in Seq(S)
      BY <2>1, <3>1, <3>2
    <3> QED BY <3>3, ConcatEmptySeq
  <2>3. Flat(h)
    <3>1. \A i \in 1..n : h[i] = IF i = 1 THEN q[i] ELSE h[i - 1] \o q[i]
      <4> TAKE i \in 1..n
      <4>1. CASE i = 1
        BY <1>1, <2>2, <4>1
      <4>2. CASE i # 1
        <5>1. i - 1 \in 1..n
          BY <4>2
        <5>5. g[i] = g[i - 1] \o q[i]
          BY <1>1, Zenon
        <5>2. h[i] = g[i]
          BY <1>1
        <5>3. PICK j \in 1..n : j = i - 1
          BY <5>1
        <5>4. h[j] = g[j]
          BY <1>1
        <5> QED BY <4>2, <5>2, <5>3, <5>4, <5>5
      <4> QED BY <4>1, <4>2
    <3>2. h = [i \in 1..Len(q) |-> h[i]]
      OBVIOUS
    <3> HIDE DEF h
    <3> QED BY <1>1, <3>1, <3>2
  <2>4. Flat(flat)
    <3> HIDE DEF Flat, h
    <3> QED BY <2>3
  <2>5. FlattenSeq(q) = flat[Len(q)]
    BY <1>1, <1>3 DEF FlattenSeq
  <2> HIDE DEF flat
  <2>6. \A i \in 1..n : flat[i] = IF i = 1 THEN q[i] ELSE flat[i - 1] \o q[i]
    BY <1>1, <2>4
  <2> DEFINE T == {i \in Nat : i + 1 <= n => flat[i + 1] = g[i + 1]}
  <2>7. 0 \in T
    BY <1>3, <2>2, <2>6
  <2>8. ASSUME NEW i \in Nat, i \in T PROVE i + 1 \in T
    <3> SUFFICES ASSUME (i + 1) + 1 <= n PROVE flat[(i + 1) + 1] = g[(i + 1) + 1]
      OBVIOUS
    <3>1. PICK j : j = (i + 1) + 1
      OBVIOUS
    <3>2. j \in 1..n /\ j # 1 /\ j - 1 = i + 1 /\ i + 1 <= n
      BY <3>1
    <3>3. flat[j - 1] = g[j - 1]
      BY <2>8, <3>2
    <3>4. flat[j] = flat[j - 1] \o q[j] /\ g[j] = g[j - 1] \o q[j]
      BY <1>1, <2>6, <3>2
    <3> QED BY <3>1, <3>3, <3>4
  <2> HIDE DEF T
  <2>9. Nat \subseteq T
    BY <2>7, <2>8, SetInduction
  <2>10. n - 1 \in T /\ (n - 1) + 1 = n
    BY <1>3, <2>9
  <2> QED BY <1>1, <2>5, <2>10 DEF T
<1> QED
  BY <1>2, <1>3

\* A concatenation is the last of some prefixes.
LEMMA FlattenPrefixes ==
  ASSUME NEW S, NEW q \in Seq(Seq(S))
  PROVE  \E g \in [0..Len(q) -> Seq(S)] :
           /\ g[0] = <<>> /\ \A i \in 1..Len(q) : g[i] = g[i - 1] \o q[i]
           /\ FlattenSeq(q) = g[Len(q)]
<1>1. PICK n \in Nat : n = Len(q)
  BY LenProperties
<1> DEFINE V == Seq(S)
           F == [i \in 1..n |-> [x \in V |-> x \o q[i]]]
<1>2. \A i \in 1..n : \A x \in V : x \o q[i] \in V
  BY <1>1, ElementOfSeq, ConcatProperties
<1>3. <<>> \in V /\ F \in [1..n -> [V -> V]]
  BY <1>2, EmptySeq
<1>4. PICK g \in [0..n -> V] : IsTrace(g, <<>>, F, n)
  <2> HIDE DEF V, F
  <2> QED BY <1>3, TraceExists
<1>5. g[0] = <<>> /\ \A i \in 1..n : g[i] = g[i - 1] \o q[i]
  <2>1. g[0] = <<>> /\ \A i \in 1..n : g[i] = F[i][g[i - 1]]
    BY <1>4, Zenon DEF IsTrace
  <2>2. \A i \in 1..n : g[i - 1] \in V
    BY <1>4
  <2>3. \A i \in 1..n : \A x \in V : F[i][x] = x \o q[i]
    OBVIOUS
  <2> HIDE DEF V, F
  <2> QED BY <2>1, <2>2, <2>3
<1> QED
  BY <1>1, <1>4, <1>5, FlattenTrace

\* The concatenation of nothing is empty.
LEMMA FlattenEmpty == FlattenSeq(<<>>) = <<>>
  BY EmptySeq DEF FlattenSeq

\* It is a sequence of the same elements.
LEMMA FlattenType ==
  ASSUME NEW S, NEW q \in Seq(Seq(S))
  PROVE  FlattenSeq(q) \in Seq(S)
<1>1. PICK n \in Nat : n = Len(q)
  BY LenProperties
<1>2. PICK g \in [0..n -> Seq(S)] : FlattenSeq(q) = g[n]
  BY <1>1, FlattenPrefixes
<1> QED
  BY <1>2

\* One more sequence is added at the end.
LEMMA FlattenAppend ==
  ASSUME NEW S, NEW q \in Seq(Seq(S)), NEW x \in Seq(S)
  PROVE  FlattenSeq(Append(q, x)) = FlattenSeq(q) \o x
<1>1. PICK n \in Nat : n = Len(q)
  BY LenProperties
<1>2. PICK a \in Seq(Seq(S)) : a = Append(q, x)
  BY AppendProperties
<1>3. Len(a) = n + 1 /\ a[n + 1] = x /\ \A i \in 1..n : a[i] = q[i]
  BY <1>1, <1>2, AppendProperties
<1>4. PICK g \in [0..n -> Seq(S)] :
        /\ g[0] = <<>> /\ \A i \in 1..n : g[i] = g[i - 1] \o q[i]
        /\ FlattenSeq(q) = g[n]
  BY <1>1, FlattenPrefixes
<1>5. PICK y \in Seq(S) : y = g[n] \o x
  <2>1. g[n] \in Seq(S)
    BY <1>4
  <2> QED BY <2>1, ConcatProperties
<1> DEFINE h == [i \in 0..(n + 1) |-> IF i <= n THEN g[i] ELSE y]
<1>6. h \in [0..(n + 1) -> Seq(S)] /\ h[0] = <<>> /\ h[n + 1] = y
  BY <1>4
<1>7. \A i \in 1..(n + 1) : h[i] = h[i - 1] \o a[i]
  <2> TAKE i \in 1..(n + 1)
  <2>1. CASE i = n + 1
    <3>1. h[(n + 1) - 1] = g[n] /\ h[n + 1] = y /\ a[n + 1] = x
      BY <1>3
    <3> QED BY <1>5, <2>1, <3>1
  <2>2. CASE i # n + 1
    <3>1. i \in 1..n /\ i - 1 \in 0..n
      BY <2>2
    <3>2. h[i] = g[i] /\ h[i - 1] = g[i - 1]
      BY <3>1
    <3> QED BY <1>3, <1>4, <3>1, <3>2
  <2> QED BY <2>1, <2>2
<1> HIDE DEF h
<1>8. FlattenSeq(a) = h[n + 1]
  BY <1>3, <1>6, <1>7, FlattenTrace
<1> QED
  BY <1>2, <1>4, <1>5, <1>6, <1>8

=============================================================================
