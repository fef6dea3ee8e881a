---------------------------- MODULE BufferProofs ----------------------------
(***************************************************************************)
(* Proofs about Buffer, for blocks of any size and any number of bytes:    *)
(* the list of blocks implements the queue of ByteQueue.                   *)
(*                                                                         *)
(* A buffer is looked at as the sequence of the used parts of its blocks.  *)
(* One turn of a loop of buffer.c adds a byte to the last part or a part   *)
(* with one byte, or takes a byte from the first or the first part away.   *)
(***************************************************************************)
EXTENDS Buffer, TotalsProofs

-----------------------------------------------------------------------------
(* The concatenation of the parts (FlattenSeq), see also TotalsProofs.     *)

\* A sequence is added at the beginning.
LEMMA FlattenFirst ==
  ASSUME NEW S, NEW x \in Seq(S), NEW q \in Seq(Seq(S))
  PROVE  FlattenSeq(<<x>> \o q) = x \o FlattenSeq(q)
<1>0. PICK U : U = Seq(S)
  OBVIOUS
<1> DEFINE T == {r \in Seq(U) : FlattenSeq(<<x>> \o r) = x \o FlattenSeq(r)}
<1>1. <<x>> \in Seq(U) /\ <<>> \in Seq(U) /\ Append(<<>>, x) = <<x>>
  BY <1>0, EmptySeq
<1>2. <<>> \in T
  <2>1. FlattenSeq(Append(<<>>, x)) = FlattenSeq(<<>>) \o x
    <3>1. <<>> \in Seq(Seq(S))
      BY EmptySeq
    <3> QED BY <3>1, FlattenAppend
  <2>2. FlattenSeq(<<x>>) = x
    BY <1>1, <2>1, FlattenEmpty, ConcatEmptySeq
  <2>3. <<x>> \o <<>> = <<x>> /\ x \o <<>> = x
    BY <1>1, ConcatEmptySeq
  <2> QED BY <1>1, <2>2, <2>3, FlattenEmpty
<1>3. ASSUME NEW r \in Seq(U), NEW e \in U, r \in T PROVE Append(r, e) \in T
  <2>1. <<x>> \o r \in Seq(U) /\ Append(r, e) \in Seq(U)
    <3>1. <<x>> \o r \in Seq(U)
      BY <1>1, ConcatProperties, Zenon
    <3> QED BY <3>1, AppendProperties
  <2>2. <<x>> \o Append(r, e) = Append(<<x>> \o r, e)
    <3>1. PICK o : o = <<x>>
      OBVIOUS
    <3>2. o \o Append(r, e) = Append(o \o r, e)
      BY <1>1, <3>1, ConcatAppend
    <3> QED BY <3>1, <3>2
  <2>3. FlattenSeq(Append(<<x>> \o r, e)) = FlattenSeq(<<x>> \o r) \o e
    BY <1>0, <2>1, FlattenAppend
  <2>4. FlattenSeq(Append(r, e)) = FlattenSeq(r) \o e
    BY <1>0, FlattenAppend
  <2>5. FlattenSeq(r) \in Seq(S) /\ e \in Seq(S)
    BY <1>0, FlattenType
  <2>6. (x \o FlattenSeq(r)) \o e = x \o (FlattenSeq(r) \o e)
    BY <2>5, ConcatAssociative, SMTT(30)
  <2>7. FlattenSeq(<<x>> \o r) = x \o FlattenSeq(r)
    BY <1>3
  <2>8. FlattenSeq(<<x>> \o Append(r, e)) = x \o FlattenSeq(Append(r, e))
    BY <2>2, <2>3, <2>4, <2>6, <2>7, Zenon
  <2> QED BY <2>1, <2>8
<1> HIDE DEF T
<1>4. Seq(U) \subseteq T
  BY <1>2, <1>3, SeqInduction
<1> QED
  BY <1>0, <1>4 DEF T

\* A sequence of one.
LEMMA One ==
  ASSUME NEW S, NEW c \in S
  PROVE  <<c>> \in Seq(S) /\ Len(<<c>>) = 1 /\ <<c>>[1] = c
  OBVIOUS

\* Concatenation is associative, with one element first.
LEMMA OneFirst ==
  ASSUME NEW S, NEW c \in S, NEW a \in Seq(S), NEW f \in Seq(S)
  PROVE  (<<c>> \o a) \o f = <<c>> \o (a \o f)
<1>1. PICK o \in Seq(S) : o = <<c>>
  BY One
<1>2. (o \o a) \o f = o \o (a \o f)
  BY ConcatAssociative
<1> QED
  BY <1>1, <1>2

\* The last element and the others.
EndsIn(q, r, x, n) ==
  /\ q = Append(r, x) /\ Len(q) = n + 1 /\ Len(r) = n
  /\ q[n + 1] = x /\ \A i \in 1..n : q[i] = r[i]

\* There is a last one.
LEMMA LastElement ==
  ASSUME NEW U, NEW n \in Nat, NEW q \in Seq(U), Len(q) = n + 1
  PROVE  \E r \in Seq(U), x \in U : EndsIn(q, r, x, n)
<1>1. q # <<>>
  BY EmptySeq
<1>2. PICK r \in Seq(U), x \in U : q = Append(r, x)
  BY <1>1, SequenceEmptyOrAppend
<1>3. Len(r) \in Nat /\ Len(q) = Len(r) + 1
  BY <1>2, AppendProperties, LenProperties
<1>4. Len(r) = n
  BY <1>3
<1> QED
  BY <1>2, <1>4, AppendProperties DEF EndsIn

\* Two sequences that differ in their last element, or in their first.
LastDiffer(p, q, n) ==
  Len(q) = n + 1 /\ Len(p) = n + 1 /\ \A i \in 1..n : p[i] = q[i]

FirstDiffer(p, q, n) ==
  Len(q) = n + 1 /\ Len(p) = n + 1 /\ \A i \in 2..(n + 1) : p[i] = q[i]

\* One element more at the end, or one less at the beginning.
Grown(x, y, c) == y = Append(x, c)

Shrunk(x, y, c) == x = <<c>> \o y

\* Both are kept by a concatenation.
LEMMA GrownConcat ==
  ASSUME NEW S, NEW c \in S, NEW f \in Seq(S), NEW x \in Seq(S), NEW y, Grown(x, y, c)
  PROVE  Grown(f \o x, f \o y, c)
  BY ConcatAppend DEF Grown

\* The latter: a byte less at the beginning.
LEMMA ShrunkConcat ==
  ASSUME NEW S, NEW c \in S, NEW f \in Seq(S), NEW x, NEW y \in Seq(S), Shrunk(x, y, c)
  PROVE  Shrunk(x \o f, y \o f, c)
  BY OneFirst DEF Shrunk

\* The last sequence gets one element more, and so does the concatenation.
LEMMA FlattenGrows ==
  ASSUME NEW S, NEW n \in Nat, NEW q \in Seq(Seq(S)), NEW p \in Seq(Seq(S)), NEW c \in S,
         LastDiffer(p, q, n), Grown(q[n + 1], p[n + 1], c)
  PROVE  Grown(FlattenSeq(q), FlattenSeq(p), c)
<1>0. PICK U : U = Seq(S)
  OBVIOUS
<1>1. PICK r \in Seq(U), x \in U : EndsIn(q, r, x, n)
  <2>1. q \in Seq(U) /\ Len(q) = n + 1
    BY <1>0 DEF LastDiffer
  <2> QED BY <2>1, LastElement, Zenon
<1>2. PICK t \in Seq(U), y \in U : EndsIn(p, t, y, n)
  <2>1. p \in Seq(U) /\ Len(p) = n + 1
    BY <1>0 DEF LastDiffer
  <2> QED BY <2>1, LastElement, Zenon
<1>3. \A i \in 1..n : r[i] = t[i]
  BY <1>1, <1>2 DEF LastDiffer, EndsIn
<1>4. r = t
  BY <1>1, <1>2, <1>3, SeqEqual DEF EndsIn
<1>5. x \in Seq(S) /\ y \in Seq(S) /\ r \in Seq(Seq(S)) /\ Grown(x, y, c)
  BY <1>0, <1>1, <1>2 DEF EndsIn
<1>6. PICK f \in Seq(S) : f = FlattenSeq(r)
  BY <1>5, FlattenType
<1>7. FlattenSeq(q) = f \o x
  BY <1>1, <1>5, <1>6, FlattenAppend DEF EndsIn
<1>8. FlattenSeq(p) = f \o y
  BY <1>2, <1>4, <1>5, <1>6, FlattenAppend DEF EndsIn
<1>9. Grown(f \o x, f \o y, c)
  BY <1>5, GrownConcat, Zenon
<1> QED
  BY <1>7, <1>8, <1>9

\* The first sequence and the others.
LEMMA FlattenSplit ==
  ASSUME NEW S, NEW q \in Seq(Seq(S)), q # <<>>
  PROVE  /\ q[1] \in Seq(S) /\ Tail(q) \in Seq(Seq(S))
         /\ FlattenSeq(q) = q[1] \o FlattenSeq(Tail(q))
<1>0. PICK U : U = Seq(S)
  OBVIOUS
<1>1. PICK n \in Nat : n = Len(q) /\ n >= 1
  BY LenProperties, EmptySeq
<1>2. q[1] \in U /\ Tail(q) \in Seq(U) /\ Len(Tail(q)) = n - 1
      /\ \A i \in 1..(n - 1) : Tail(q)[i] = q[i + 1]
  BY <1>0, <1>1, HeadTailProperties, ElementOfSeq
<1>11. PICK t \in Seq(U) : t = Tail(q)
  BY <1>2
<1>3. PICK o \in Seq(U) : o = <<q[1]>> /\ Len(o) = 1 /\ o[1] = q[1]
  BY <1>2, One, Zenon
<1>4. Len(t) = n - 1 /\ Len(o) = 1 /\ o[1] = q[1] /\ \A i \in 1..(n - 1) : t[i] = q[i + 1]
  BY <1>2, <1>3, <1>11
<1>5. PICK r \in Seq(U) : r = o \o t
  BY ConcatProperties
<1>6. Len(r) = n /\ \A i \in 1..n : r[i] = IF i <= 1 THEN o[i] ELSE t[i - 1]
  <2>1. /\ Len(r) = Len(o) + Len(t)
        /\ \A i \in 1..(Len(o) + Len(t)) : r[i] = IF i <= Len(o) THEN o[i] ELSE t[i - Len(o)]
    BY <1>5, ConcatProperties, Zenon
  <2>2. Len(o) = 1 /\ Len(o) + Len(t) = n
    BY <1>1, <1>4
  <2> QED BY <2>1, <2>2, Zenon
<1>7. \A i \in 1..n : r[i] = q[i]
  <2> TAKE i \in 1..n
  <2>0. r[i] = IF i <= 1 THEN o[i] ELSE t[i - 1]
    BY <1>6
  <2>1. CASE i = 1
    BY <1>4, <2>0, <2>1
  <2>2. CASE i # 1
    <3>1. PICK j \in 1..(n - 1) : j = i - 1
      BY <2>2
    <3>2. t[j] = q[j + 1] /\ j + 1 = i
      BY <1>4, <3>1
    <3> QED BY <2>0, <2>2, <3>1, <3>2
  <2> QED BY <2>1, <2>2
<1>8. r = q
  BY <1>0, <1>1, <1>6, <1>7, SeqEqual
<1>9. FlattenSeq(<<q[1]>> \o t) = q[1] \o FlattenSeq(t)
  BY <1>0, <1>2, FlattenFirst
<1>10. <<q[1]>> \o t = q
  BY <1>3, <1>5, <1>8
<1> QED
  BY <1>0, <1>2, <1>11, <1>9, <1>10

\* A single sequence is the concatenation.
LEMMA FlattenSingle ==
  ASSUME NEW S, NEW q \in Seq(Seq(S)), Len(q) = 1
  PROVE  q[1] \in Seq(S) /\ FlattenSeq(q) = q[1]
<1>0. 1 # 0
  OBVIOUS
<1>1. q # <<>>
  BY <1>0, EmptySeq, Zenon
<1>2. Tail(q) = <<>>
  <2>1. Tail(q) \in Seq(Seq(S)) /\ Len(Tail(q)) = 0
    BY <1>1, HeadTailProperties
  <2> QED BY <2>1, EmptySeq
<1>3. q[1] \in Seq(S) /\ FlattenSeq(q) = q[1] \o FlattenSeq(<<>>)
  BY <1>1, <1>2, FlattenSplit
<1> QED
  BY <1>3, FlattenEmpty, ConcatEmptySeq

\* The first element is taken from the first sequence.
LEMMA FlattenShrinks ==
  ASSUME NEW S, NEW n \in Nat, NEW q \in Seq(Seq(S)), NEW p \in Seq(Seq(S)), NEW c \in S,
         FirstDiffer(p, q, n), Shrunk(q[1], p[1], c)
  PROVE  Shrunk(FlattenSeq(q), FlattenSeq(p), c)
<1>0. PICK U : U = Seq(S)
  OBVIOUS
<1>1. q # <<>> /\ p # <<>>
  BY EmptySeq DEF FirstDiffer
<1>2. PICK r \in Seq(U), t \in Seq(U) : r = Tail(q) /\ t = Tail(p)
  BY <1>0, <1>1, HeadTailProperties
<1>3. Len(r) = n /\ Len(t) = n /\ \A i \in 1..n : r[i] = q[i + 1] /\ t[i] = p[i + 1]
  BY <1>0, <1>1, <1>2, HeadTailProperties DEF FirstDiffer
<1>4. \A i \in 1..n : r[i] = t[i]
  <2> TAKE i \in 1..n
  <2>1. PICK j \in 2..(n + 1) : j = i + 1
    OBVIOUS
  <2>2. p[j] = q[j]
    BY DEF FirstDiffer
  <2> QED BY <1>3, <2>1, <2>2
<1>5. r = t
  BY <1>3, <1>4, SeqEqual
<1>6. /\ FlattenSeq(q) = q[1] \o FlattenSeq(r)
      /\ FlattenSeq(p) = p[1] \o FlattenSeq(r) /\ p[1] \in Seq(S)
  BY <1>1, <1>2, <1>5, FlattenSplit
<1>7. PICK f \in Seq(S) : f = FlattenSeq(r)
  BY <1>0, FlattenType
<1>8. Shrunk(q[1] \o f, p[1] \o f, c)
  BY <1>6, ShrunkConcat, Zenon
<1> QED
  BY <1>6, <1>7, <1>8

-----------------------------------------------------------------------------
(* The parts of the blocks that are in use.                                *)

Byte == Bytes \cup {Junk}

Block == [1..BlockSize -> Byte]

Struct == [blocks : Seq(Block), start_offset : Nat, end_offset : Nat, size : Nat]

\* The offsets are within the blocks, and in order if there is only one.
Sound(b) ==
  /\ b \in Struct
  /\ b.start_offset < BlockSize /\ b.end_offset <= BlockSize
  /\ b.blocks = <<>> => b.start_offset = 0
  /\ Len(b.blocks) = 1 => b.start_offset <= b.end_offset

Parts(b) == [i \in 1..Len(b.blocks) |-> Used(b, i)]

\* A part of a block is a sequence of bytes.
LEMMA Slice ==
  ASSUME NEW k \in Block, NEW f \in Nat, NEW t \in Nat, f <= t, t <= BlockSize
  PROVE  /\ SubSeq(k, f + 1, t) \in Seq(Byte) /\ Len(SubSeq(k, f + 1, t)) = t - f
         /\ \A i \in 1..(t - f) : SubSeq(k, f + 1, t)[i] = k[f + i]
<1>1. \A i \in (f + 1)..t : k[i] \in Byte
  BY BufferAssumption DEF Block
<1>2. /\ SubSeq(k, f + 1, t) \in Seq(Byte)
      /\ Len(SubSeq(k, f + 1, t)) = IF f + 1 <= t THEN t - (f + 1) + 1 ELSE 0
      /\ \A i \in 1..(t - (f + 1) + 1) : SubSeq(k, f + 1, t)[i] = k[(f + 1) + i - 1]
  BY <1>1, SubSeqProperties
<1>3. PICK s : s = SubSeq(k, f + 1, t)
  OBVIOUS
<1>4. Len(s) = t - f /\ s \in Seq(Byte)
  BY <1>2, <1>3
<1>5. \A i \in 1..(t - f) : s[i] = k[f + i]
  <2> TAKE i \in 1..(t - f)
  <2>1. i \in 1..(t - (f + 1) + 1) /\ (f + 1) + i - 1 = f + i
    OBVIOUS
  <2> QED BY <1>2, <1>3, <2>1
<1> QED
  BY <1>3, <1>4, <1>5

\* Only the bytes in use matter.
LEMMA SliceEqual ==
  ASSUME NEW k \in Block, NEW l \in Block, NEW f \in Nat, NEW t \in Nat, f <= t, t <= BlockSize,
         \A i \in (f + 1)..t : l[i] = k[i]
  PROVE  SubSeq(l, f + 1, t) = SubSeq(k, f + 1, t)
<1>1. PICK p \in Seq(Byte) : p = SubSeq(k, f + 1, t)
  BY Slice
<1>2. PICK q \in Seq(Byte) : q = SubSeq(l, f + 1, t)
  BY Slice
<1>3. /\ Len(p) = t - f /\ \A i \in 1..(t - f) : p[i] = k[f + i]
      /\ Len(q) = t - f /\ \A i \in 1..(t - f) : q[i] = l[f + i]
  BY <1>1, <1>2, Slice
<1>4. \A i \in 1..(t - f) : p[i] = q[i]
  <2> TAKE i \in 1..(t - f)
  <2>1. PICK j \in (f + 1)..t : j = f + i
    OBVIOUS
  <2>2. l[j] = k[j]
    OBVIOUS
  <2> QED BY <1>3, <2>1, <2>2
<1> QED
  BY <1>1, <1>2, <1>3, <1>4, SeqEqual

\* A byte is written behind the part in use.
LEMMA SliceGrows ==
  ASSUME NEW k \in Block, NEW l \in Block, NEW f \in Nat, NEW t \in Nat, f <= t, t < BlockSize,
         \A i \in 1..BlockSize : i # t + 1 => l[i] = k[i]
  PROVE  Grown(SubSeq(k, f + 1, t), SubSeq(l, f + 1, t + 1), l[t + 1])
<1>0. PICK u \in Nat : u = t + 1 /\ f <= u /\ u <= BlockSize /\ t <= BlockSize
  BY BufferAssumption
<1>1. PICK p \in Seq(Byte) : p = SubSeq(k, f + 1, t)
  BY <1>0, Slice
<1>2. PICK q \in Seq(Byte) : q = SubSeq(l, f + 1, u)
  BY <1>0, Slice
<1>3. PICK c \in Byte : c = l[t + 1]
  BY BufferAssumption DEF Block
<1>4. Len(p) = t - f /\ \A i \in 1..(t - f) : p[i] = k[f + i]
  BY <1>0, <1>1, Slice
<1>5. Len(q) = (t + 1) - f /\ \A i \in 1..((t + 1) - f) : q[i] = l[f + i]
  BY <1>0, <1>2, Slice
<1>6. PICK a \in Seq(Byte) : a = Append(p, c)
  BY AppendProperties
<1>7. Len(a) = (t - f) + 1 /\ a[(t - f) + 1] = c /\ \A i \in 1..(t - f) : a[i] = p[i]
  BY <1>4, <1>6, AppendProperties
<1>8. \A i \in 1..((t + 1) - f) : q[i] = a[i]
  <2> TAKE i \in 1..((t + 1) - f)
  <2>1. q[i] = l[f + i]
    BY <1>5
  <2>2. CASE i = (t - f) + 1
    <3>1. f + i = t + 1
      BY <2>2
    <3> QED BY <1>3, <1>7, <2>1, <2>2, <3>1
  <2>3. CASE i # (t - f) + 1
    <3>1. i \in 1..(t - f) /\ f + i \in 1..BlockSize /\ f + i # t + 1
      BY <2>3, BufferAssumption
    <3>2. l[f + i] = k[f + i]
      BY <3>1
    <3>3. a[i] = p[i] /\ p[i] = k[f + i]
      BY <1>4, <1>7, <3>1
    <3> QED BY <2>1, <3>2, <3>3
  <2> QED BY <2>2, <2>3
<1>9. Len(q) = Len(a)
  BY <1>5, <1>7
<1>10. q = a
  BY <1>5, <1>8, <1>9, SeqEqual
<1> QED
  BY <1>0, <1>1, <1>2, <1>3, <1>6, <1>10 DEF Grown

\* The first byte of the part in use is taken.
LEMMA SliceShrinks ==
  ASSUME NEW k \in Block, NEW l \in Block, NEW f \in Nat, NEW t \in Nat, f < t, t <= BlockSize,
         \A i \in 1..BlockSize : i # f + 1 => l[i] = k[i]
  PROVE  Shrunk(SubSeq(k, f + 1, t), SubSeq(l, (f + 1) + 1, t), k[f + 1])
<1>1. k \in Seq(Byte) /\ Len(k) = BlockSize
  BY BufferAssumption DEF Block
<1>2. f + 1 \in 1..Len(k) /\ t \in (f + 1)..Len(k)
  BY <1>1, BufferAssumption
<1>3. SubSeq(k, f + 1, t) = <<k[f + 1]>> \o SubSeq(k, (f + 1) + 1, t)
  BY <1>1, <1>2, SubSeqRecursiveFirst
<1>4. SubSeq(l, (f + 1) + 1, t) = SubSeq(k, (f + 1) + 1, t)
  <2>1. PICK g \in Nat : g = f + 1
    OBVIOUS
  <2>2. g <= t /\ \A i \in (g + 1)..t : i \in 1..BlockSize /\ i # f + 1
    BY <2>1, BufferAssumption
  <2>3. \A i \in (g + 1)..t : l[i] = k[i]
    BY <2>2
  <2>4. SubSeq(l, g + 1, t) = SubSeq(k, g + 1, t)
    BY <2>2, <2>3, SliceEqual
  <2> QED BY <2>1, <2>4
<1> QED
  BY <1>3, <1>4, Zenon DEF Shrunk

\* The parts are sequences of bytes, and together they are what is stored.
LEMMA PartsType ==
  ASSUME NEW b, Sound(b)
  PROVE  /\ Parts(b) \in Seq(Seq(Byte)) /\ Len(Parts(b)) = Len(b.blocks)
         /\ \A i \in 1..Len(b.blocks) : Parts(b)[i] = Used(b, i)
         /\ Stored(b) = FlattenSeq(Parts(b)) /\ Stored(b) \in Seq(Byte)
<1>1. PICK n \in Nat : n = Len(b.blocks)
  BY LenProperties DEF Sound, Struct
<1>2. \A i \in 1..n : b.blocks[i] \in Block
  BY <1>1, ElementOfSeq DEF Sound, Struct
<1>3. ASSUME NEW i \in 1..n PROVE Used(b, i) \in Seq(Byte)
  <2>1. PICK f \in Nat, t \in Nat :
          /\ f = IF i = 1 THEN b.start_offset ELSE 0
          /\ t = IF i = Len(b.blocks) THEN b.end_offset ELSE BlockSize
    BY BufferAssumption DEF Sound, Struct
  <2>2. f + 1 \in Int /\ t \in Int /\ \A j \in (f + 1)..t : b.blocks[i][j] \in Byte
    BY <1>2, <2>1, BufferAssumption DEF Block, Sound, Struct
  <2>3. Used(b, i) = SubSeq(b.blocks[i], f + 1, t)
    BY <2>1 DEF Used
  <2> QED BY <2>2, <2>3, SubSeqProperties
<1>4. Parts(b) \in [1..n -> Seq(Byte)]
  BY <1>1, <1>3 DEF Parts
<1>5. Parts(b) \in Seq(Seq(Byte)) /\ Len(Parts(b)) = n
  BY <1>4
<1>6. Stored(b) = FlattenSeq(Parts(b))
  BY DEF Stored, Parts
<1>7. \A i \in 1..n : Parts(b)[i] = Used(b, i)
  BY <1>1 DEF Parts
<1> QED
  BY <1>1, <1>5, <1>6, <1>7, FlattenType

-----------------------------------------------------------------------------
(* One turn of the loop in buffer_append.                                  *)

\* Two buffers with the same blocks, but for the last of the second, and the
\* same beginning.
SameFront(b, t, n) ==
  /\ t.start_offset = b.start_offset /\ t.size = b.size
  /\ \A i \in 1..n : t.blocks[i] = b.blocks[i]

\* An assignment to an element, and one to a byte in a block.
StoreIn(q, m, k) == [q EXCEPT ![m] = k]

AssignByte(r, m, x, c) == [r EXCEPT !.blocks[m][x] = c, !.end_offset = @ + 1]

\* The last element of a sequence is replaced.
LEMMA ReplaceLast ==
  ASSUME NEW S, NEW n \in Nat, NEW q \in Seq(S), Len(q) = n + 1, NEW k \in S
  PROVE  /\ StoreIn(q, n + 1, k) \in Seq(S) /\ Len(StoreIn(q, n + 1, k)) = n + 1
         /\ StoreIn(q, n + 1, k)[n + 1] = k
         /\ \A i \in 1..n : StoreIn(q, n + 1, k)[i] = q[i]
<1>1. PICK c : c = [q EXCEPT ![n + 1] = k]
  OBVIOUS
<1>2. /\ c \in Seq(S) /\ Len(c) = n + 1
      /\ \A i \in 1..(n + 1) : c[i] = IF i = n + 1 THEN k ELSE q[i]
  BY <1>1, ExceptSeq
<1>3. c[n + 1] = k /\ \A i \in 1..n : c[i] = q[i]
  BY <1>2
<1> QED
  BY <1>1, <1>2, <1>3 DEF StoreIn

\* A byte is written to a block.
LEMMA WriteByte ==
  ASSUME NEW j \in Block, NEW c \in Byte, NEW e \in 1..BlockSize
  PROVE  /\ StoreIn(j, e, c) \in Block /\ StoreIn(j, e, c)[e] = c
         /\ \A i \in 1..BlockSize : i # e => StoreIn(j, e, c)[i] = j[i]
  BY DEF Block, StoreIn

\* A byte is written, and the end moves on.
LEMMA Assigned ==
  ASSUME NEW r \in Struct, NEW m, NEW x, NEW c, NEW w \in Seq(Block),
         w = StoreIn(r.blocks, m, StoreIn(r.blocks[m], x, c))
  PROVE  LET t == AssignByte(r, m, x, c) IN
         /\ t \in Struct /\ t.blocks = w /\ t.end_offset = r.end_offset + 1
         /\ t.start_offset = r.start_offset /\ t.size = r.size
<1>1. AssignByte(r, m, x, c) =
        [r EXCEPT !.blocks = StoreIn(r.blocks, m, StoreIn(r.blocks[m], x, c)),
                  !.end_offset = r.end_offset + 1]
  BY Zenon DEF AssignByte, StoreIn
<1>2. PICK f \in Nat : f = r.end_offset + 1
  BY DEF Struct
<1>3. AssignByte(r, m, x, c) = [r EXCEPT !.blocks = w, !.end_offset = f]
  BY <1>1, <1>2, Zenon
<1> QED BY <1>2, <1>3 DEF Struct

\* What PutByte does if there is no room.
LEMMA PutInNewBlock ==
  ASSUME NEW b, Sound(b), NEW c \in Byte, NEW n \in Nat, n = Len(b.blocks),
         b.blocks = <<>> \/ b.end_offset = BlockSize
  PROVE  LET t == PutByte(b, c) IN
         /\ t \in Struct /\ Len(t.blocks) = n + 1 /\ SameFront(b, t, n)
         /\ t.blocks[n + 1] \in Block /\ t.blocks[n + 1][1] = c /\ t.end_offset = 1
<1> DEFINE j == [i \in 1..BlockSize |-> Junk]
           r == [block_add(b) EXCEPT !.end_offset = 0]
<1>1. j \in Block
  BY DEF Block, Byte
<1>2. PICK q \in Seq(Block) : q = Append(b.blocks, j)
  BY <1>1, AppendProperties DEF Sound, Struct
<1>3. Len(q) = n + 1 /\ q[n + 1] = j /\ \A i \in 1..n : q[i] = b.blocks[i]
  BY <1>1, <1>2, AppendProperties DEF Sound, Struct
<1>4. /\ r \in Struct /\ r.blocks = q /\ r.end_offset = 0
      /\ r.start_offset = b.start_offset /\ r.size = b.size
  BY <1>2 DEF block_add, Sound, Struct
<1>5. PICK t : t = PutByte(b, c)
  OBVIOUS
<1>6. t = AssignByte(r, Len(r.blocks), r.end_offset + 1, c)
  BY <1>5, Zenon DEF PutByte, AssignByte
<1> HIDE DEF r, j
<1>7. PICK k \in Block : k = StoreIn(j, 1, c) /\ k[1] = c
  BY <1>1, BufferAssumption, WriteByte
<1>8. PICK p \in Seq(Block) :
        /\ p = StoreIn(q, n + 1, k) /\ Len(p) = n + 1
        /\ p[n + 1] = k /\ \A i \in 1..n : p[i] = q[i]
  <2>1. Len(q) = n + 1
    BY <1>3
  <2> QED BY <2>1, ReplaceLast, SMTT(30)
<1>9. Len(r.blocks) = n + 1 /\ r.end_offset + 1 = 1
  BY <1>3, <1>4
<1>10. p = StoreIn(r.blocks, n + 1, StoreIn(r.blocks[n + 1], 1, c))
  BY <1>3, <1>4, <1>7, <1>8, Zenon
<1>11. /\ t \in Struct /\ t.blocks = p /\ t.end_offset = 1
       /\ t.start_offset = b.start_offset /\ t.size = b.size
  BY <1>4, <1>6, <1>9, <1>10, Assigned
<1>12. \A i \in 1..n : t.blocks[i] = b.blocks[i]
  BY <1>3, <1>8, <1>11
<1>13. SameFront(b, t, n)
  BY <1>11, <1>12 DEF SameFront
<1> QED
  BY <1>5, <1>7, <1>8, <1>11, <1>13

\* The last of n + 1 blocks, from the byte e on, has room; and what c in it
\* leaves behind.
Room(b, n, e) == n + 1 = Len(b.blocks) /\ e = b.end_offset /\ e < BlockSize

PutLast(b, t, n, e, c) ==
  /\ t \in Struct /\ Len(t.blocks) = n + 1 /\ SameFront(b, t, n)
  /\ t.end_offset = e + 1
  /\ t.blocks[n + 1] \in Block /\ t.blocks[n + 1][e + 1] = c
  /\ \A i \in 1..BlockSize : i # e + 1 => t.blocks[n + 1][i] = b.blocks[n + 1][i]

\* What it does in the last block.
LEMMA PutInLastBlock ==
  ASSUME NEW b, Sound(b), NEW c \in Byte, NEW n \in Nat, NEW e \in Nat, Room(b, n, e)
  PROVE  PutLast(b, PutByte(b, c), n, e, c)
<1>0. n + 1 = Len(b.blocks) /\ e = b.end_offset /\ e < BlockSize
  BY DEF Room
<1>7. PICK t : t = PutByte(b, c)
  OBVIOUS
<1>1. PICK q \in Seq(Block) : q = b.blocks /\ Len(q) = n + 1
  BY <1>0 DEF Sound, Struct
<1>2. b \in Struct /\ e + 1 \in 1..BlockSize
  BY <1>0, BufferAssumption DEF Sound
<1>3. PICK j \in Block : j = q[n + 1]
  BY <1>1, ElementOfSeq
<1>4. PICK k \in Block : /\ k = StoreIn(j, e + 1, c) /\ k[e + 1] = c
                         /\ \A i \in 1..BlockSize : i # e + 1 => k[i] = j[i]
  <2>1. PICK f \in 1..BlockSize : f = e + 1
    BY <1>2
  <2> QED BY <2>1, WriteByte
<1>5. PICK p \in Seq(Block) :
        /\ p = StoreIn(q, n + 1, k) /\ Len(p) = n + 1
        /\ p[n + 1] = k /\ \A i \in 1..n : p[i] = q[i]
  BY <1>1, ReplaceLast
<1>6. b.blocks # <<>> /\ b.end_offset # BlockSize
  BY <1>0, EmptySeq, BufferAssumption DEF Sound, Struct
<1>8. t = AssignByte(b, Len(b.blocks), b.end_offset + 1, c)
  BY <1>6, <1>7 DEF PutByte, AssignByte
<1>9. p = StoreIn(b.blocks, n + 1, StoreIn(b.blocks[n + 1], e + 1, c))
  BY <1>1, <1>3, <1>4, <1>5, Zenon
<1>10. /\ t \in Struct /\ t.blocks = p /\ t.end_offset = e + 1
       /\ t.start_offset = b.start_offset /\ t.size = b.size
  BY <1>0, <1>2, <1>8, <1>9, Assigned
<1>11. \A i \in 1..n : t.blocks[i] = b.blocks[i]
  BY <1>1, <1>5, <1>10
<1>12. SameFront(b, t, n)
  BY <1>10, <1>11 DEF SameFront
<1> QED
  BY <1>1, <1>3, <1>4, <1>5, <1>7, <1>10, <1>12 DEF PutLast

\* A sequence of one byte of a block.
LEMMA SliceOne ==
  ASSUME NEW k \in Block, NEW f \in Nat, f < BlockSize
  PROVE  SubSeq(k, f + 1, f + 1) = <<k[f + 1]>>
<1>1. k[f + 1] \in Byte /\ f <= f + 1 /\ f + 1 <= BlockSize /\ f + 1 \in Nat
  BY BufferAssumption DEF Block
<1>2. PICK t \in Nat : t = f + 1 /\ f <= t /\ t <= BlockSize
  BY <1>1
<1>3. PICK p \in Seq(Byte) : p = SubSeq(k, f + 1, t)
  BY <1>2, Slice
<1>4. Len(p) = t - f /\ \A i \in 1..(t - f) : p[i] = k[f + i]
  BY <1>2, <1>3, Slice
<1>5. t - f = 1 /\ 1 \in 1..(t - f)
  BY <1>2
<1>6. Len(p) = 1 /\ p[1] = k[f + 1]
  BY <1>4, <1>5
<1>7. PICK o \in Seq(Byte) : o = <<k[f + 1]>> /\ Len(o) = 1 /\ o[1] = k[f + 1]
  BY <1>1, One
<1>8. \A i \in 1..1 : p[i] = o[i]
  BY <1>6, <1>7
<1>9. p = o
  BY <1>6, <1>7, <1>8, SeqEqual
<1> QED
  BY <1>2, <1>3, <1>7, <1>9

\* There is no room in the last block, or there is none.
Full(b) == b.blocks = <<>> \/ b.end_offset = BlockSize

\* A byte is put into a new block: there is one part more.
LEMMA PutByteNew ==
  ASSUME NEW b, Sound(b), NEW c \in Byte,
         Full(b)
  PROVE  LET t == PutByte(b, c) IN
         Sound(t) /\ t.size = b.size /\ Grown(Stored(b), Stored(t), c)
<1>1. PICK n \in Nat : n = Len(b.blocks)
  BY LenProperties DEF Sound, Struct
<1>2. PICK t : t = PutByte(b, c)
  OBVIOUS
<1>3. /\ t \in Struct /\ Len(t.blocks) = n + 1 /\ SameFront(b, t, n)
      /\ t.blocks[n + 1] \in Block /\ t.blocks[n + 1][1] = c /\ t.end_offset = 1
  BY <1>1, <1>2, PutInNewBlock DEF Full
<1>4. n = 0 => b.start_offset = 0
  BY <1>1, EmptySeq DEF Sound, Struct
<1>5. n # 0 => b.end_offset = BlockSize
  <2>1. b.blocks = <<>> => n = 0
    BY <1>1, EmptySeq
  <2> QED BY <2>1 DEF Full
<1>6. Sound(t)
  <2>1. t.blocks # <<>>
    BY <1>1, <1>3, EmptySeq
  <2>2. t.start_offset = b.start_offset /\ b.start_offset < BlockSize /\ 1 <= BlockSize
    BY <1>3, BufferAssumption DEF Sound, SameFront
  <2>3. n + 1 = 1 => t.start_offset <= 1
    BY <1>4, <2>2
  <2> QED BY <1>3, <2>1, <2>2, <2>3 DEF Sound
<1>7. ASSUME NEW i \in 1..n PROVE Used(t, i) = Used(b, i)
  <2>1. t.blocks[i] = b.blocks[i] /\ t.start_offset = b.start_offset
    BY <1>3 DEF SameFront
  <2>2. i # n + 1 /\ (i = n => b.end_offset = BlockSize)
    BY <1>5
  <2> QED BY <1>1, <1>3, <2>1, <2>2 DEF Used
<1>8. Used(t, n + 1) = <<c>>
  <2>1. PICK k \in Block : k = t.blocks[n + 1] /\ k[1] = c
    BY <1>3
  <2>2. 0 = IF n + 1 = 1 THEN t.start_offset ELSE 0
    BY <1>3, <1>4 DEF SameFront
  <2>3. Used(t, n + 1) = SubSeq(k, 0 + 1, 1)
    <3>1. n + 1 = Len(t.blocks)
      BY <1>3
    <3> QED BY <1>3, <2>1, <2>2, <3>1 DEF Used
  <2>4. PICK f \in Nat : f = 0 /\ f + 1 = 1 /\ f < BlockSize
    BY BufferAssumption
  <2>5. SubSeq(k, f + 1, f + 1) = <<k[f + 1]>>
    BY <2>4, SliceOne
  <2> QED BY <2>1, <2>3, <2>4, <2>5
<1>9. PICK p \in Seq(Seq(Byte)) : p = Parts(b) /\ Len(p) = n /\ \A i \in 1..n : p[i] = Used(b, i)
  BY <1>1, PartsType
<1>10. PICK q \in Seq(Seq(Byte)) :
         q = Parts(t) /\ Len(q) = n + 1 /\ \A i \in 1..(n + 1) : q[i] = Used(t, i)
  BY <1>3, <1>6, PartsType
<1>11. q = Append(p, <<c>>)
  <2>1. PICK U : U = Seq(Byte)
    OBVIOUS
  <2>2. PICK x \in U : x = <<c>>
    BY <2>1, One
  <2>3. PICK a \in Seq(U) : /\ a = Append(p, x) /\ Len(a) = n + 1 /\ a[n + 1] = x
                            /\ \A i \in 1..n : a[i] = p[i]
    <3>1. p \in Seq(U)
      BY <1>9, <2>1
    <3>2. PICK a \in Seq(U) : a = Append(p, x)
      BY <3>1, AppendProperties
    <3>3. Len(a) = Len(p) + 1 /\ a[Len(p) + 1] = x /\ \A i \in 1..Len(p) : a[i] = p[i]
      BY <3>1, <3>2, AppendProperties
    <3> QED BY <1>9, <3>2, <3>3
  <2>4. \A i \in 1..(n + 1) : q[i] = a[i]
    <3> TAKE i \in 1..(n + 1)
    <3>1. CASE i = n + 1
      BY <1>8, <1>10, <2>2, <2>3, <3>1
    <3>2. CASE i # n + 1
      <4>1. i \in 1..n
        BY <3>2
      <4> QED BY <1>7, <1>9, <1>10, <2>3, <4>1
    <3> QED BY <3>1, <3>2
  <2>5. q = a
    BY <1>10, <2>1, <2>3, <2>4, SeqEqual
  <2> QED BY <2>2, <2>3, <2>5
<1>12. Grown(Stored(b), Stored(t), c)
  <2>1. Stored(b) = FlattenSeq(p) /\ Stored(t) = FlattenSeq(q) /\ Stored(b) \in Seq(Byte)
    BY <1>6, <1>9, <1>10, PartsType
  <2>2. FlattenSeq(q) = FlattenSeq(p) \o <<c>>
    BY <1>11, One, FlattenAppend
  <2>3. PICK s \in Seq(Byte) : s = Stored(b)
    BY <2>1
  <2>4. s \o <<c>> = Append(s, c)
    BY AppendIsConcat
  <2> QED BY <2>1, <2>2, <2>3, <2>4 DEF Grown
<1> QED
  BY <1>2, <1>3, <1>6, <1>12 DEF SameFront

\* A byte is put into the last block: the last part grows.
LEMMA PutByteLast ==
  ASSUME NEW b, Sound(b), NEW c \in Byte,
         ~Full(b)
  PROVE  LET t == PutByte(b, c) IN
         Sound(t) /\ t.size = b.size /\ Grown(Stored(b), Stored(t), c)
<1>1. PICK n \in Nat : n + 1 = Len(b.blocks)
  <2>1. PICK m \in Nat : m = Len(b.blocks) /\ m # 0
    BY LenProperties, EmptySeq DEF Full, Sound, Struct
  <2>2. m - 1 \in Nat /\ (m - 1) + 1 = m
    BY <2>1
  <2> QED BY <2>1, <2>2
<1>2. PICK e \in Nat : e = b.end_offset /\ e < BlockSize
  BY BufferAssumption DEF Full, Sound, Struct
<1>3. PICK t : t = PutByte(b, c)
  OBVIOUS
<1>4. /\ t \in Struct /\ Len(t.blocks) = n + 1 /\ SameFront(b, t, n)
      /\ t.end_offset = e + 1
      /\ t.blocks[n + 1] \in Block /\ t.blocks[n + 1][e + 1] = c
      /\ \A i \in 1..BlockSize : i # e + 1 => t.blocks[n + 1][i] = b.blocks[n + 1][i]
  <2>1. Room(b, n, e)
    BY <1>1, <1>2 DEF Room
  <2>2. PutLast(b, t, n, e, c)
    BY <1>3, <2>1, PutInLastBlock, Zenon
  <2> QED BY <2>2 DEF PutLast
<1>5. Sound(t)
  <2>1. t.blocks # <<>>
    BY <1>1, <1>4, EmptySeq
  <2>2. /\ t.start_offset = b.start_offset /\ b.start_offset < BlockSize
        /\ e + 1 <= BlockSize /\ b.start_offset \in Nat
    BY <1>2, <1>4, BufferAssumption DEF Sound, SameFront, Struct
  <2>3. n + 1 = 1 => t.start_offset <= e + 1
    <3>1. Len(b.blocks) = 1 => b.start_offset <= e
      BY <1>2, Zenon DEF Sound
    <3>2. n + 1 = 1 => Len(b.blocks) = 1
      BY <1>1, Zenon
    <3>3. PICK s \in Nat : s = b.start_offset
      BY <2>2
    <3>4. n + 1 = 1 => s <= e
      BY <3>1, <3>2, <3>3, Zenon
    <3>5. n + 1 = 1 => s <= e + 1
      BY <3>4
    <3> QED BY <2>2, <3>3, <3>5, Zenon
  <2> QED BY <1>4, <2>1, <2>2, <2>3 DEF Sound
<1>6. PICK p \in Seq(Seq(Byte)) :
        p = Parts(b) /\ Len(p) = n + 1 /\ \A i \in 1..(n + 1) : p[i] = Used(b, i)
  BY <1>1, PartsType
<1>7. PICK q \in Seq(Seq(Byte)) :
        q = Parts(t) /\ Len(q) = n + 1 /\ \A i \in 1..(n + 1) : q[i] = Used(t, i)
  BY <1>4, <1>5, PartsType
<1>8. LastDiffer(q, p, n)
  <2>1. ASSUME NEW i \in 1..n PROVE q[i] = p[i]
    <3>1. t.blocks[i] = b.blocks[i] /\ t.start_offset = b.start_offset
      BY <1>4 DEF SameFront
    <3>2. i # n + 1 /\ i \in 1..(n + 1)
      OBVIOUS
    <3>3. Used(t, i) = Used(b, i)
      BY <1>1, <1>4, <3>1, <3>2 DEF Used
    <3> QED BY <1>6, <1>7, <3>2, <3>3
  <2> QED BY <1>6, <1>7, <2>1 DEF LastDiffer
<1>9. Grown(p[n + 1], q[n + 1], c)
  <2>1. PICK k \in Block : k = b.blocks[n + 1]
    BY <1>1, ElementOfSeq DEF Sound, Struct
  <2>2. PICK l \in Block : l = t.blocks[n + 1] /\ l[e + 1] = c
    BY <1>4
  <2>3. PICK f \in Nat : f = (IF n + 1 = 1 THEN b.start_offset ELSE 0) /\ f <= e
    <3>1. Len(b.blocks) = 1 => b.start_offset <= e
      BY <1>2, Zenon DEF Sound
    <3>2. b.start_offset \in Nat
      BY DEF Sound, Struct
    <3>3. n + 1 = 1 => Len(b.blocks) = 1
      BY <1>1, Zenon
    <3>4. PICK s \in Nat : s = b.start_offset
      BY <3>2
    <3>5. n + 1 = 1 => s <= e
      BY <3>1, <3>3, <3>4, Zenon
    <3>6. PICK f \in Nat : f = (IF n + 1 = 1 THEN s ELSE 0) /\ f <= e
      BY <3>5
    <3> QED BY <3>4, <3>6
  <2>4. Used(b, n + 1) = SubSeq(k, f + 1, e)
    BY <1>1, <1>2, <2>1, <2>3 DEF Used
  <2>5. Used(t, n + 1) = SubSeq(l, f + 1, e + 1)
    <3>1. t.start_offset = b.start_offset
      BY <1>4 DEF SameFront
    <3> QED BY <1>4, <2>2, <2>3, <3>1 DEF Used
  <2>6. \A i \in 1..BlockSize : i # e + 1 => l[i] = k[i]
    BY <1>4, <2>1, <2>2
  <2>7. Grown(SubSeq(k, f + 1, e), SubSeq(l, f + 1, e + 1), l[e + 1])
    BY <1>2, <2>3, <2>6, SliceGrows
  <2>8. n + 1 \in 1..(n + 1)
    OBVIOUS
  <2> QED BY <1>6, <1>7, <2>2, <2>4, <2>5, <2>7, <2>8
<1>10. Grown(FlattenSeq(p), FlattenSeq(q), c)
  BY <1>8, <1>9, FlattenGrows
<1>11. Stored(b) = FlattenSeq(p) /\ Stored(t) = FlattenSeq(q)
  BY <1>5, <1>6, <1>7, PartsType
<1> QED
  BY <1>3, <1>4, <1>5, <1>10, <1>11 DEF SameFront

\* A turn of the loop in buffer_append adds the byte to what is stored.
LEMMA PutByteAdds ==
  ASSUME NEW b, Sound(b), NEW c \in Byte
  PROVE  LET t == PutByte(b, c) IN
         Sound(t) /\ t.size = b.size /\ Grown(Stored(b), Stored(t), c)
  BY PutByteNew, PutByteLast


-----------------------------------------------------------------------------
(* One turn of the loop in buffer_read.                                    *)

\* The first of n + 1 blocks holds bytes from f to e.
HoldsFirst(b, n, f, e) ==
  /\ n + 1 = Len(b.blocks) /\ f = b.start_offset
  /\ e = IF n = 0 THEN b.end_offset ELSE BlockSize
  /\ f < e /\ e <= BlockSize

\* If anything is stored, the first block holds some of it.
LEMMA FirstHolds ==
  ASSUME NEW b, Sound(b), Stored(b) # <<>>
  PROVE  \E n, f, e \in Nat : HoldsFirst(b, n, f, e)
<1>1. PICK m \in Nat : m = Len(b.blocks)
  BY LenProperties DEF Sound, Struct
<1>2. PICK p \in Seq(Seq(Byte)) :
        /\ Len(p) = m /\ \A i \in 1..m : p[i] = Used(b, i)
        /\ Stored(b) = FlattenSeq(p)
  BY <1>1, PartsType
<1>3. m # 0
  <2> SUFFICES ASSUME m = 0 PROVE FALSE
    OBVIOUS
  <2>1. p = <<>>
    BY <1>2, EmptySeq
  <2> QED BY <1>2, <2>1, FlattenEmpty
<1>4. PICK n \in Nat : n + 1 = m
  <2>1. m - 1 \in Nat /\ (m - 1) + 1 = m
    BY <1>3
  <2> QED BY <2>1
<1>5. PICK f \in Nat, g \in Nat, z \in Nat :
        /\ f = b.start_offset /\ g = b.end_offset /\ z = BlockSize
        /\ f < z /\ g <= z
  BY BufferAssumption DEF Sound, Struct
<1>6. n = 0 => f <= g
  <2>1. n = 0 => Len(b.blocks) = 1
    BY <1>1, <1>4
  <2> QED BY <1>5, <2>1 DEF Sound
<1>7. n = 0 => f # g
  <2> SUFFICES ASSUME n = 0, f = g PROVE FALSE
    OBVIOUS
  <2>1. m = 1
    BY <1>4
  <2>2. Len(p) = 1 /\ p[1] = Used(b, 1)
    BY <1>2, <2>1
  <2>3. Stored(b) = Used(b, 1)
    BY <1>2, <2>2, FlattenSingle
  <2>4. PICK k \in Block : k = b.blocks[1]
    <3>1. 1 \in 1..Len(b.blocks) /\ b.blocks \in Seq(Block)
      BY <1>1, <2>1 DEF Sound, Struct
    <3>2. b.blocks[1] \in Block
      BY <3>1, ElementOfSeq, Zenon
    <3> QED BY <3>2
  <2>5. Used(b, 1) = SubSeq(k, f + 1, g)
    BY <1>1, <1>5, <2>1, <2>4 DEF Used
  <2>6. SubSeq(k, f + 1, f) \in Seq(Byte) /\ Len(SubSeq(k, f + 1, f)) = f - f
    BY <1>5, Slice
  <2>7. SubSeq(k, f + 1, f) = <<>>
    BY <2>6, EmptySeq
  <2> QED BY <2>3, <2>5, <2>7
<1>8. PICK e \in Nat : e = (IF n = 0 THEN g ELSE z) /\ f < e /\ e <= z
  BY <1>5, <1>6, <1>7
<1>9. HoldsFirst(b, n, f, e)
  BY <1>1, <1>4, <1>5, <1>8 DEF HoldsFirst
<1> QED
  BY <1>9

\* What remains if the first block is removed.
DropFirst(b) == [block_remove([b EXCEPT !.start_offset = @ + 1]) EXCEPT !.start_offset = 0]

FirstGone(b, t, n) ==
  /\ t \in Struct /\ Len(t.blocks) = n /\ t.start_offset = 0
  /\ t.end_offset = b.end_offset /\ t.size = b.size
  /\ \A i \in 1..n : t.blocks[i] = b.blocks[i + 1]

\* That is what removing it does.
LEMMA DropFirstDrops ==
  ASSUME NEW b \in Struct, NEW n \in Nat, n + 1 = Len(b.blocks)
  PROVE  FirstGone(b, DropFirst(b), n)
<1>1. PICK q \in Seq(Block) : q = b.blocks /\ Len(q) = n + 1
  BY DEF Struct
<1>2. q # <<>>
  BY <1>1, EmptySeq
<1>3. PICK r \in Seq(Block) : r = Tail(q)
  BY <1>2, HeadTailProperties
<1>4. Len(r) = n /\ \A i \in 1..n : r[i] = q[i + 1]
  BY <1>1, <1>2, <1>3, HeadTailProperties
<1>5. PICK t : t = DropFirst(b)
  OBVIOUS
<1>6. /\ t \in Struct /\ t.blocks = r /\ t.start_offset = 0
      /\ t.end_offset = b.end_offset /\ t.size = b.size
  BY <1>1, <1>3, <1>5 DEF DropFirst, block_remove, Struct
<1>7. FirstGone(b, t, n)
  BY <1>1, <1>4, <1>6 DEF FirstGone
<1> QED
  BY <1>5, <1>7

\* What remains if the first byte of the first block is taken.
Advance(b) ==
  LET next == [b EXCEPT !.start_offset = @ + 1]
  IN [next EXCEPT !.blocks[1][next.start_offset] = Junk]

FirstLess(b, t, n, x) ==
  /\ t \in Struct /\ Len(t.blocks) = n + 1 /\ t.start_offset = x
  /\ t.end_offset = b.end_offset /\ t.size = b.size
  /\ \A i \in 2..(n + 1) : t.blocks[i] = b.blocks[i]
  /\ t.blocks[1] \in Block
  /\ \A i \in 1..BlockSize : i # x => t.blocks[1][i] = b.blocks[1][i]

\* The first element of a sequence is replaced.
LEMMA ReplaceFirst ==
  ASSUME NEW S, NEW n \in Nat, NEW q \in Seq(S), Len(q) = n + 1, NEW k \in S
  PROVE  /\ StoreIn(q, 1, k) \in Seq(S) /\ Len(StoreIn(q, 1, k)) = n + 1
         /\ StoreIn(q, 1, k)[1] = k
         /\ \A i \in 2..(n + 1) : StoreIn(q, 1, k)[i] = q[i]
<1>1. PICK c : c = [q EXCEPT ![1] = k]
  OBVIOUS
<1>2. /\ c \in Seq(S) /\ Len(c) = n + 1
      /\ \A i \in 1..(n + 1) : c[i] = IF i = 1 THEN k ELSE q[i]
  BY <1>1, ExceptSeq
<1>3. c[1] = k /\ \A i \in 2..(n + 1) : c[i] = q[i]
  BY <1>2
<1> QED
  BY <1>1, <1>2, <1>3 DEF StoreIn

\* That is what the assignments do.
LEMMA AdvanceAdvances ==
  ASSUME NEW b \in Struct, NEW n \in Nat, n + 1 = Len(b.blocks),
         NEW x \in 1..BlockSize, x = b.start_offset + 1
  PROVE  FirstLess(b, Advance(b), n, x)
<1>1. PICK q \in Seq(Block) : q = b.blocks /\ Len(q) = n + 1
  BY DEF Struct
<1>2. PICK j \in Block : j = q[1]
  BY <1>1, ElementOfSeq
<1>3. PICK k \in Block : /\ k = StoreIn(j, x, Junk)
                         /\ \A i \in 1..BlockSize : i # x => k[i] = j[i]
  <2>1. Junk \in Byte
    BY DEF Byte
  <2> QED BY <2>1, WriteByte
<1>4. PICK p \in Seq(Block) :
        /\ p = StoreIn(q, 1, k) /\ Len(p) = n + 1
        /\ p[1] = k /\ \A i \in 2..(n + 1) : p[i] = q[i]
  BY <1>1, ReplaceFirst
<1> DEFINE next == [b EXCEPT !.start_offset = @ + 1]
<1>5. /\ next \in Struct /\ next.blocks = q /\ next.start_offset = x
      /\ next.end_offset = b.end_offset /\ next.size = b.size
  BY <1>1 DEF Struct
<1>6. PICK t : t = Advance(b)
  OBVIOUS
<1>7. t = [next EXCEPT !.blocks =
             StoreIn(next.blocks, 1, StoreIn(next.blocks[1], next.start_offset, Junk))]
  BY <1>6, Zenon DEF Advance, StoreIn
<1> HIDE DEF next
<1>8. t = [next EXCEPT !.blocks = p]
  BY <1>2, <1>3, <1>4, <1>5, <1>7, Zenon
<1>9. /\ t \in Struct /\ t.blocks = p /\ t.start_offset = x
      /\ t.end_offset = b.end_offset /\ t.size = b.size
  BY <1>5, <1>8 DEF Struct
<1>10. FirstLess(b, t, n, x)
  BY <1>1, <1>2, <1>3, <1>4, <1>9 DEF FirstLess
<1> QED
  BY <1>6, <1>10


\* One element and nothing are taken away from a sequence of one.
LEMMA ShrunkOne ==
  ASSUME NEW S, NEW c \in S, NEW f \in Seq(S)
  PROVE  Shrunk(<<c>> \o f, f, c)
  BY DEF Shrunk

\* The last byte of the first block is taken: the first part goes.
LEMMA TakeLastByte ==
  ASSUME NEW b, Sound(b), NEW n \in Nat, NEW f \in Nat, NEW e \in Nat,
         HoldsFirst(b, n, f, e), f + 1 = BlockSize
  PROVE  LET t == DropFirst(b) IN
         Sound(t) /\ t.size = b.size /\ Shrunk(Stored(b), Stored(t), b.blocks[1][f + 1])
<1>0. /\ n + 1 = Len(b.blocks) /\ f = b.start_offset /\ f < BlockSize
      /\ e = (IF n = 0 THEN b.end_offset ELSE BlockSize) /\ e = f + 1
  BY BufferAssumption DEF HoldsFirst
<1>1. PICK t : t = DropFirst(b)
  OBVIOUS
<1>2. FirstGone(b, t, n)
  BY <1>0, <1>1, DropFirstDrops DEF Sound
<1>3. /\ t \in Struct /\ Len(t.blocks) = n /\ t.start_offset = 0
      /\ t.end_offset = b.end_offset /\ t.size = b.size
      /\ \A i \in 1..n : t.blocks[i] = b.blocks[i + 1]
  BY <1>2 DEF FirstGone
<1>4. Sound(t)
  BY <1>3, BufferAssumption DEF Sound, Struct
<1>5. PICK p \in Seq(Seq(Byte)) :
        /\ Len(p) = n + 1 /\ Stored(b) = FlattenSeq(p)
        /\ \A i \in 1..(n + 1) : p[i] = Used(b, i)
  BY <1>0, PartsType
<1>6. PICK q \in Seq(Seq(Byte)) :
        Len(q) = n /\ Stored(t) = FlattenSeq(q) /\ \A i \in 1..n : q[i] = Used(t, i)
  BY <1>3, <1>4, PartsType
<1>7. p # <<>>
  BY <1>5, EmptySeq
<1>8. ASSUME NEW i \in 1..n PROVE Used(b, i + 1) = Used(t, i)
  <2>1. t.blocks[i] = b.blocks[i + 1] /\ i + 1 # 1 /\ (i + 1 = n + 1 <=> i = n)
    BY <1>3
  <2> QED BY <1>0, <1>3, <2>1 DEF Used
<1>9. q = Tail(p)
  <2>1. PICK U : U = Seq(Byte)
    OBVIOUS
  <2>2. PICK r \in Seq(U) : r = Tail(p)
    BY <1>7, <2>1, HeadTailProperties
  <2>3. Len(r) = n /\ \A i \in 1..n : r[i] = p[i + 1]
    BY <1>5, <1>7, <2>1, <2>2, HeadTailProperties
  <2>4. \A i \in 1..n : q[i] = r[i]
    <3> TAKE i \in 1..n
    <3>1. PICK j \in 1..(n + 1) : j = i + 1
      OBVIOUS
    <3>2. p[j] = Used(b, j)
      BY <1>5
    <3> QED BY <1>6, <1>8, <2>3, <3>1, <3>2
  <2>5. q \in Seq(U)
    BY <2>1
  <2> QED BY <1>6, <2>2, <2>3, <2>4, <2>5, SeqEqual
<1>10. PICK k \in Block : k = b.blocks[1]
  <2>1. 1 \in 1..Len(b.blocks) /\ b.blocks \in Seq(Block)
    BY <1>0 DEF Sound, Struct
  <2>2. b.blocks[1] \in Block
    BY <2>1, ElementOfSeq, Zenon
  <2> QED BY <2>2
<1>11. p[1] = <<k[f + 1]>>
  <2>1. Used(b, 1) = SubSeq(k, f + 1, e)
    <3>1. 1 = Len(b.blocks) <=> n = 0
      <4>1. 1 = n + 1 <=> n = 0
        OBVIOUS
      <4> QED BY <1>0, <4>1, Zenon
    <3> QED BY <1>0, <1>10, <3>1 DEF Used
  <2>2. SubSeq(k, f + 1, f + 1) = <<k[f + 1]>>
    BY <1>0, SliceOne
  <2>3. 1 \in 1..(n + 1)
    OBVIOUS
  <2> QED BY <1>0, <1>5, <2>1, <2>2, <2>3
<1>12. k[f + 1] \in Byte
  BY <1>0, BufferAssumption DEF Block
<1>13. PICK g \in Seq(Byte) : g = FlattenSeq(q)
  BY FlattenType
<1>14. Stored(b) = <<k[f + 1]>> \o g
  BY <1>5, <1>7, <1>9, <1>11, <1>13, FlattenSplit
<1>15. Shrunk(<<k[f + 1]>> \o g, g, k[f + 1])
  BY <1>12, ShrunkOne
<1> QED
  BY <1>1, <1>3, <1>4, <1>6, <1>10, <1>13, <1>14, <1>15

\* Another byte of it is taken: the first part shrinks.
LEMMA TakeOtherByte ==
  ASSUME NEW b, Sound(b), NEW n \in Nat, NEW f \in Nat, NEW e \in Nat,
         HoldsFirst(b, n, f, e), f + 1 # BlockSize
  PROVE  LET t == Advance(b) IN
         Sound(t) /\ t.size = b.size /\ Shrunk(Stored(b), Stored(t), b.blocks[1][f + 1])
<1>0. /\ n + 1 = Len(b.blocks) /\ f = b.start_offset /\ f + 1 < BlockSize
      /\ e = (IF n = 0 THEN b.end_offset ELSE BlockSize) /\ f < e /\ e <= BlockSize
  BY BufferAssumption DEF HoldsFirst
<1>1. PICK t : t = Advance(b)
  OBVIOUS
<1>2. PICK x \in 1..BlockSize : x = f + 1 /\ x \in Nat /\ x < BlockSize /\ x <= e
  BY <1>0, BufferAssumption
<1>3. FirstLess(b, t, n, x)
  BY <1>0, <1>1, <1>2, AdvanceAdvances DEF Sound
<1>4. /\ t \in Struct /\ Len(t.blocks) = n + 1 /\ t.start_offset = x
      /\ t.end_offset = b.end_offset /\ t.size = b.size
      /\ \A i \in 2..(n + 1) : t.blocks[i] = b.blocks[i]
      /\ t.blocks[1] \in Block
      /\ \A i \in 1..BlockSize : i # x => t.blocks[1][i] = b.blocks[1][i]
  BY <1>3 DEF FirstLess
<1>5. Sound(t)
  <2>1. t.blocks # <<>>
    BY <1>4, EmptySeq
  <2>2. n = 0 => e = t.end_offset
    BY <1>0, <1>4
  <2>3. n + 1 = 1 => x <= t.end_offset
    BY <1>2, <2>2
  <2>4. t.end_offset <= BlockSize
    BY <1>4 DEF Sound
  <2> QED BY <1>2, <1>4, <2>1, <2>3, <2>4 DEF Sound
<1>6. PICK p \in Seq(Seq(Byte)) :
        /\ Len(p) = n + 1 /\ Stored(b) = FlattenSeq(p)
        /\ \A i \in 1..(n + 1) : p[i] = Used(b, i)
  BY <1>0, PartsType
<1>7. PICK q \in Seq(Seq(Byte)) :
        /\ Len(q) = n + 1 /\ Stored(t) = FlattenSeq(q)
        /\ \A i \in 1..(n + 1) : q[i] = Used(t, i)
  BY <1>4, <1>5, PartsType
<1>8. FirstDiffer(q, p, n)
  <2>1. ASSUME NEW i \in 2..(n + 1) PROVE q[i] = p[i]
    <3>0. i # 1 /\ i \in 1..(n + 1)
      OBVIOUS
    <3>1. t.blocks[i] = b.blocks[i] /\ i # 1 /\ i \in 1..(n + 1)
      BY <1>4, <3>0, Zenon
    <3>2. Used(t, i) = Used(b, i)
      BY <1>0, <1>4, <3>1 DEF Used
    <3> QED BY <1>6, <1>7, <3>1, <3>2
  <2> QED BY <1>6, <1>7, <2>1 DEF FirstDiffer
<1>9. PICK k \in Block : k = b.blocks[1]
  <2>1. 1 \in 1..Len(b.blocks) /\ b.blocks \in Seq(Block)
    BY <1>0 DEF Sound, Struct
  <2>2. b.blocks[1] \in Block
    BY <2>1, ElementOfSeq, Zenon
  <2> QED BY <2>2
<1>10. PICK l \in Block : l = t.blocks[1]
  BY <1>4
<1>11. 1 = Len(b.blocks) <=> n = 0
  <2>1. 1 = n + 1 <=> n = 0
    OBVIOUS
  <2> QED BY <1>0, <2>1, Zenon
<1>12. Used(b, 1) = SubSeq(k, f + 1, e)
  BY <1>0, <1>9, <1>11 DEF Used
<1>13. Used(t, 1) = SubSeq(l, (f + 1) + 1, e)
  BY <1>0, <1>2, <1>4, <1>10, <1>11 DEF Used
<1>14. \A i \in 1..BlockSize : i # f + 1 => l[i] = k[i]
  BY <1>2, <1>4, <1>9, <1>10
<1>15. Shrunk(SubSeq(k, f + 1, e), SubSeq(l, (f + 1) + 1, e), k[f + 1])
  BY <1>0, <1>14, SliceShrinks
<1>16. Shrunk(p[1], q[1], k[f + 1])
  <2>1. 1 \in 1..(n + 1)
    OBVIOUS
  <2>2. p[1] = Used(b, 1) /\ q[1] = Used(t, 1)
    BY <1>6, <1>7, <2>1
  <2> QED BY <1>12, <1>13, <1>15, <2>2
<1>17. k[f + 1] \in Byte
  BY <1>0, BufferAssumption DEF Block
<1>18. Shrunk(FlattenSeq(p), FlattenSeq(q), k[f + 1])
  BY <1>8, <1>16, <1>17, FlattenShrinks
<1> QED
  BY <1>1, <1>4, <1>5, <1>6, <1>7, <1>9, <1>18

\* A turn of the loop in buffer_read moves the first byte that is stored to
\* the array.
LEMMA TakeByteTakes ==
  ASSUME NEW b, Sound(b), Stored(b) # <<>>, NEW d
  PROVE  LET r == TakeByte([b |-> b, data |-> d]) IN
         \E t, c : /\ r = [b |-> t, data |-> Append(d, c)] /\ c \in Byte
                   /\ Sound(t) /\ t.size = b.size /\ Shrunk(Stored(b), Stored(t), c)
<1>1. PICK n, f, e \in Nat : HoldsFirst(b, n, f, e)
  BY FirstHolds
<1>2. PICK q \in Seq(Block) : q = b.blocks /\ Len(q) = n + 1
  BY <1>1 DEF HoldsFirst, Sound, Struct
<1>3. q # <<>> /\ Head(q) = q[1] /\ q[1] \in Block
  <2>1. q # <<>>
    BY <1>2, EmptySeq
  <2> QED BY <1>2, <2>1, ElementOfSeq
<1>4. PICK c : c = q[1][f + 1]
  OBVIOUS
<1>5. c \in Byte
  BY <1>1, <1>3, <1>4, BufferAssumption DEF HoldsFirst, Block
<1>6. PICK t : t = IF f + 1 = BlockSize THEN DropFirst(b) ELSE Advance(b)
  OBVIOUS
<1>7. TakeByte([b |-> b, data |-> d]) = [b |-> t, data |-> Append(d, c)]
  <2> DEFINE next == [b EXCEPT !.start_offset = @ + 1]
  <2>1. next.start_offset = f + 1
    BY <1>1 DEF HoldsFirst, Sound, Struct
  <2>2. PICK r : r = [b |-> b, data |-> d] /\ r.b = b /\ r.data = d
    <3>1. [b |-> b, data |-> d].b = b /\ [b |-> b, data |-> d].data = d
      OBVIOUS
    <3> QED BY <3>1, Zenon
  <2>5. r.b.blocks # <<>>
    BY <1>2, <1>3, <2>2
  <2>6. TakeByte(r) =
          LET n2 == [r.b EXCEPT !.start_offset = @ + 1]
          IN [data |-> Append(r.data, Head(r.b.blocks)[n2.start_offset]),
              b    |-> IF n2.start_offset = BlockSize THEN DropFirst(r.b) ELSE Advance(r.b)]
    BY <2>5, Zenon DEF TakeByte, DropFirst, Advance
  <2>3. TakeByte([b |-> b, data |-> d]) =
          [data |-> Append(d, Head(b.blocks)[next.start_offset]),
           b    |-> IF next.start_offset = BlockSize THEN DropFirst(b) ELSE Advance(b)]
    BY <2>2, <2>6, Zenon
  <2> HIDE DEF next
  <2>4. Head(b.blocks)[next.start_offset] = c
    BY <1>2, <1>3, <1>4, <2>1
  <2> QED BY <1>6, <2>1, <2>3, <2>4, Zenon
<1>8. Sound(t) /\ t.size = b.size /\ Shrunk(Stored(b), Stored(t), c)
  <2>1. CASE f + 1 = BlockSize
    BY <1>1, <1>2, <1>4, <1>6, <2>1, TakeLastByte
  <2>2. CASE f + 1 # BlockSize
    BY <1>1, <1>2, <1>4, <1>6, <2>2, TakeOtherByte
  <2> QED BY <2>1, <2>2
<1> QED
  BY <1>5, <1>7, <1>8


-----------------------------------------------------------------------------
(* The loops.                                                              *)

\* The first i + 1 elements.
LEMMA PrefixGrows ==
  ASSUME NEW S, NEW s \in Seq(S), NEW i \in Nat, i + 1 <= Len(s)
  PROVE  /\ SubSeq(s, 1, i) \in Seq(S) /\ s[i + 1] \in S
         /\ Grown(SubSeq(s, 1, i), SubSeq(s, 1, i + 1), s[i + 1])
<1>1. PICK n \in Nat : n = Len(s)
  BY LenProperties
<1>2. 1 \in 1..n /\ i + 1 \in 1..n /\ (i + 1) - 1 = i
  BY <1>1
<1>3. \A j \in 1..i : s[j] \in S
  BY <1>1, <1>2, ElementOfSeq
<1>4. PICK p \in Seq(S) : p = SubSeq(s, 1, i)
  <2>1. 1 \in Int /\ i \in Int
    OBVIOUS
  <2>2. SubSeq(s, 1, i) \in Seq(S)
    BY <1>3, <2>1, SubSeqProperties, Zenon
  <2> QED BY <2>2
<1>5. s[i + 1] \in S
  BY <1>1, <1>2, ElementOfSeq
<1>6. PICK j \in 1..n : j = i + 1 /\ j - 1 = i
  BY <1>2
<1>7. SubSeq(s, 1, j) = SubSeq(s, 1, j - 1) \o <<s[j]>>
  BY <1>1, <1>2, <1>6, SubSeqRecursiveSecond
<1>8. Append(p, s[i + 1]) = p \o <<s[i + 1]>>
  BY <1>5, AppendIsConcat
<1> QED
  BY <1>4, <1>5, <1>6, <1>7, <1>8 DEF Grown

\* A sequence that grows by the elements of another, one after the other.
LEMMA GrownTrace ==
  ASSUME NEW S, NEW a \in Seq(S), NEW s \in Seq(S), NEW n \in Nat, n = Len(s),
         NEW h, h[0] = a, \A i \in 1..n : Grown(h[i - 1], h[i], s[i])
  PROVE  h[n] = a \o s
<1> DEFINE T == {i \in Nat : i <= n => h[i] = a \o SubSeq(s, 1, i)}
<1>1. 0 \in T
  <2>1. SubSeq(s, 1, 0) = <<>>
    BY SubSeqEmpty
  <2> QED BY <2>1, ConcatEmptySeq
<1>2. ASSUME NEW i \in Nat, i \in T PROVE i + 1 \in T
  <2> SUFFICES ASSUME i + 1 <= n PROVE h[i + 1] = a \o SubSeq(s, 1, i + 1)
    OBVIOUS
  <2>1. PICK p \in Seq(S) : p = SubSeq(s, 1, i)
    BY PrefixGrows
  <2>2. h[i] = a \o p
    BY <1>2, <2>1
  <2>3. PICK c \in S : c = s[i + 1]
    BY PrefixGrows
  <2>4. SubSeq(s, 1, i + 1) = Append(p, c)
    BY <2>1, <2>3, PrefixGrows DEF Grown
  <2>5. PICK j \in 1..n : j = i + 1 /\ j - 1 = i
    OBVIOUS
  <2>6. h[i + 1] = Append(h[i], c)
    BY <2>3, <2>5 DEF Grown
  <2>7. a \o Append(p, c) = Append(a \o p, c)
    <3>1. Grown(p, Append(p, c), c)
      BY DEF Grown
    <3>2. Grown(a \o p, a \o Append(p, c), c)
      BY <3>1, GrownConcat, Zenon
    <3> QED BY <3>2 DEF Grown
  <2> QED BY <2>2, <2>4, <2>6, <2>7
<1> HIDE DEF T
<1>3. n \in T
  BY <1>1, <1>2, SetInduction
<1>4. h[n] = a \o SubSeq(s, 1, n)
  BY <1>3 DEF T
<1> QED
  BY <1>4, SubSeqFull

\* The buffer before and after each turn of the loop in buffer_append.
Appending(g, b, s, n) ==
  n = Len(s) /\ g[0] = b /\ \A i \in 1..n : g[i] = PutByte(g[i - 1], s[i])

AddSize(b, n) == [b EXCEPT !.size = @ + n]

\* That is what the loop goes through.
LEMMA AppendTrace ==
  ASSUME NEW b, NEW s, NEW n \in Nat, NEW V, NEW g \in [0..n -> V], Appending(g, b, s, n)
  PROVE  buffer_append(b, s) = AddSize(g[n], n)
<1>0. n = Len(s) /\ g[0] = b /\ \A i \in 1..n : g[i] = PutByte(g[i - 1], s[i])
  BY DEF Appending
<1> DEFINE Turn(f) == f = [i \in 0..Len(s) |-> IF i = 0 THEN b ELSE PutByte(f[i - 1], s[i])]
           turn == CHOOSE f : Turn(f)
<1>1. Turn(g)
  <2>1. \A i \in 0..n : g[i] = IF i = 0 THEN b ELSE PutByte(g[i - 1], s[i])
    BY <1>0
  <2> QED BY <1>0, <2>1
<1>2. Turn(turn)
  <2> HIDE DEF Turn
  <2> QED BY <1>1
<1>3. buffer_append(b, s) = AddSize(turn[Len(s)], Len(s))
  BY DEF buffer_append, AddSize
<1> HIDE DEF turn
<1>4. \A i \in 0..n : turn[i] = IF i = 0 THEN b ELSE PutByte(turn[i - 1], s[i])
  BY <1>0, <1>2
<1> DEFINE T == {i \in Nat : i <= n => turn[i] = g[i]}
<1>5. 0 \in T
  BY <1>0, <1>4
<1>6. ASSUME NEW i \in Nat, i \in T PROVE i + 1 \in T
  <2> SUFFICES ASSUME i + 1 <= n PROVE turn[i + 1] = g[i + 1]
    OBVIOUS
  <2>1. PICK j \in 1..n : j = i + 1 /\ j - 1 = i
    OBVIOUS
  <2>2. turn[j - 1] = g[j - 1]
    BY <1>6, <2>1
  <2>3. turn[j] = PutByte(turn[j - 1], s[j]) /\ g[j] = PutByte(g[j - 1], s[j])
    BY <1>0, <1>4
  <2> QED BY <2>1, <2>2, <2>3
<1> HIDE DEF T
<1>7. n \in T
  BY <1>5, <1>6, SetInduction
<1>8. turn[n] = g[n]
  BY <1>7 DEF T
<1> QED
  BY <1>0, <1>3, <1>8, Zenon

\* The size of a sound buffer is the number of bytes in it.
Good(b) == Sound(b) /\ b.size = Len(Stored(b))

\* Another size, and nothing else, is set.
LEMMA Resize ==
  ASSUME NEW b, Sound(b), NEW n \in Nat
  PROVE  LET t == [b EXCEPT !.size = n] IN
         Sound(t) /\ t.size = n /\ Stored(t) = Stored(b) /\ t.blocks = b.blocks
<1>1. PICK t : t = [b EXCEPT !.size = n]
  OBVIOUS
<1>2. /\ t \in Struct /\ t.blocks = b.blocks /\ t.start_offset = b.start_offset
      /\ t.end_offset = b.end_offset /\ t.size = n
  BY <1>1 DEF Sound, Struct
<1>3. Sound(t)
  BY <1>2 DEF Sound
<1>4. Stored(t) = Stored(b)
  <2>1. \A i : Used(t, i) = Used(b, i)
    BY <1>2 DEF Used
  <2> QED BY <1>2, <2>1 DEF Stored
<1> QED
  BY <1>1, <1>2, <1>3, <1>4

\* buffer_append stores the input behind what is stored.
LEMMA AppendStores ==
  ASSUME NEW b, Good(b), NEW s \in Seq(Byte)
  PROVE  LET t == buffer_append(b, s) IN Good(t) /\ Stored(t) = Stored(b) \o s
<1>1. PICK n \in Nat : n = Len(s)
  BY LenProperties
<1> DEFINE V == {x \in Struct : Sound(x) /\ x.size = b.size}
           F == [i \in 1..n |-> [x \in V |-> PutByte(x, s[i])]]
<1>2. \A i \in 1..n : s[i] \in Byte
  BY <1>1, ElementOfSeq
<1>3. b \in V
  BY DEF Good, Sound
<1>4. ASSUME NEW i \in 1..n, NEW x \in V PROVE PutByte(x, s[i]) \in V
  <2>1. Sound(PutByte(x, s[i])) /\ PutByte(x, s[i]).size = x.size
    BY <1>2, PutByteAdds
  <2> QED BY <2>1 DEF Sound
<1>5. F \in [1..n -> [V -> V]]
  BY <1>4
<1>6. PICK g \in [0..n -> V] : IsTrace(g, b, F, n)
  <2> HIDE DEF V, F
  <2> QED BY <1>3, <1>5, TraceExists
<1>7. g[0] = b /\ \A i \in 1..n : g[i] = PutByte(g[i - 1], s[i])
  <2>1. g[0] = b /\ \A i \in 1..n : g[i] = F[i][g[i - 1]]
    BY <1>6, Zenon DEF IsTrace
  <2>2. \A i \in 1..n : g[i - 1] \in V
    BY <1>6
  <2>3. \A i \in 1..n : \A x \in V : F[i][x] = PutByte(x, s[i])
    OBVIOUS
  <2> HIDE DEF V, F
  <2> QED BY <2>1, <2>2, <2>3
<1>8. buffer_append(b, s) = AddSize(g[n], n)
  <2> HIDE DEF V, F
  <2>1. Appending(g, b, s, n)
    BY <1>1, <1>7 DEF Appending
  <2>2. g \in [0..n -> V]
    BY <1>6
  <2> QED BY <2>1, <2>2, AppendTrace, Zenon
<1> DEFINE h == [i \in 0..n |-> Stored(g[i])]
<1>9. \A i \in 0..n : Sound(g[i]) /\ g[i].size = b.size
  OBVIOUS
<1>10. \A i \in 1..n : Grown(h[i - 1], h[i], s[i])
  <2> TAKE i \in 1..n
  <2>1. PICK x : x = g[i - 1] /\ Sound(x)
    BY <1>9
  <2>2. Grown(Stored(x), Stored(PutByte(x, s[i])), s[i])
    BY <1>2, <2>1, PutByteAdds
  <2>3. PutByte(x, s[i]) = g[i]
    BY <1>7, <2>1
  <2>4. h[i - 1] = Stored(x) /\ h[i] = Stored(g[i])
    BY <2>1
  <2> QED BY <2>2, <2>3, <2>4, Zenon
<1>11. h[0] = Stored(b) /\ h[n] = Stored(g[n])
  BY <1>7
<1> HIDE DEF V, F, h
<1>12. PICK a \in Seq(Byte) : a = Stored(b) /\ b.size = Len(a)
  BY PartsType DEF Good
<1>13. h[n] = a \o s
  BY <1>1, <1>10, <1>11, <1>12, GrownTrace
<1>14. PICK u : u = g[n] /\ Sound(u) /\ u.size = Len(a)
  BY <1>9, <1>12
<1>15. Len(a \o s) = Len(a) + n /\ Len(a) + n \in Nat
  BY <1>1, ConcatProperties, LenProperties
<1>16. buffer_append(b, s) = [u EXCEPT !.size = Len(a) + n]
  BY <1>8, <1>14, Zenon DEF AddSize
<1> QED
  <2>1. PICK m \in Nat : m = Len(a) + n
    BY <1>15
  <2>2. PICK t : t = [u EXCEPT !.size = m]
    OBVIOUS
  <2>3. Sound(t) /\ t.size = m /\ Stored(t) = Stored(u)
    BY <1>14, <2>2, Resize
  <2>4. Stored(u) = Stored(b) \o s /\ m = Len(Stored(u))
    BY <1>11, <1>12, <1>13, <1>14, <1>15, <2>1, Zenon
  <2>5. t = buffer_append(b, s)
    BY <1>16, <2>1, <2>2, Zenon
  <2>6. Good(t) /\ Stored(t) = Stored(b) \o s
    BY <2>3, <2>4, Zenon DEF Good
  <2> QED BY <2>5, <2>6, Zenon


\* A buffer without blocks holds nothing.
LEMMA NoBlocks ==
  ASSUME NEW b, Sound(b), Len(b.blocks) = 0
  PROVE  Stored(b) = <<>>
<1>1. PICK p \in Seq(Seq(Byte)) : Len(p) = 0 /\ Stored(b) = FlattenSeq(p)
  BY PartsType
<1>2. p = <<>>
  BY <1>1, EmptySeq
<1> QED
  BY <1>1, <1>2, FlattenEmpty

\* Nothing is stored, but there is a block.
Hollow(b) == Stored(b) = <<>> /\ b.blocks # <<>>

\* It is the only one.
LEMMA NothingStored ==
  ASSUME NEW b, Sound(b), Hollow(b)
  PROVE  Len(b.blocks) = 1
<1>1. PICK m \in Nat : m = Len(b.blocks) /\ m # 0
  BY LenProperties, EmptySeq DEF Hollow, Sound, Struct
<1> SUFFICES ASSUME m # 1 PROVE FALSE
  BY <1>1
<1>2. PICK p \in Seq(Seq(Byte)) :
        Len(p) = m /\ Stored(b) = FlattenSeq(p) /\ \A i \in 1..m : p[i] = Used(b, i)
  BY <1>1, PartsType
<1>3. p # <<>>
  BY <1>1, <1>2, EmptySeq
<1>4. PICK k \in Block : k = b.blocks[1]
  <2>1. 1 \in 1..Len(b.blocks) /\ b.blocks \in Seq(Block)
    BY <1>1 DEF Sound, Struct
  <2>2. b.blocks[1] \in Block
    BY <2>1, ElementOfSeq, Zenon
  <2> QED BY <2>2
<1>5. PICK f, z \in Nat : f = b.start_offset /\ z = BlockSize /\ f < z
  BY BufferAssumption DEF Sound, Struct
<1>6. Used(b, 1) = SubSeq(k, f + 1, z)
  BY <1>1, <1>4, <1>5 DEF Used
<1>7. PICK s \in Seq(Byte) : s = SubSeq(k, f + 1, z) /\ Len(s) = z - f
  <2>1. f <= z /\ z <= BlockSize
    BY <1>5
  <2>2. SubSeq(k, f + 1, z) \in Seq(Byte) /\ Len(SubSeq(k, f + 1, z)) = z - f
    BY <2>1, Slice, Zenon
  <2> QED BY <2>2
<1>8. s # <<>>
  <2>1. Len(s) # 0
    BY <1>5, <1>7
  <2> QED BY <2>1, EmptySeq, Zenon
<1>9. p[1] = s
  <2>1. 1 \in 1..m
    BY <1>1
  <2> QED BY <1>2, <1>6, <1>7, <2>1
<1>10. PICK t \in Seq(Byte) : t = FlattenSeq(Tail(p))
  BY <1>3, FlattenSplit, FlattenType
<1>11. Stored(b) = s \o t
  BY <1>2, <1>3, <1>9, <1>10, FlattenSplit
<1> QED
  <2>1. s \o t = <<>>
    BY <1>11, Zenon DEF Hollow
  <2> QED BY <1>8, <2>1, ConcatEqualIffEmpty

\* Removing the block of an empty buffer loses nothing.
LEMMA DropEmptyKeeps ==
  ASSUME NEW b, Good(b)
  PROVE  Good(DropEmpty(b)) /\ Stored(DropEmpty(b)) = Stored(b)
<1>1. CASE ~(b.size = 0 /\ b.blocks # <<>>)
  BY <1>1 DEF DropEmpty
<1>2. CASE b.size = 0 /\ b.blocks # <<>>
  <2>1. Stored(b) = <<>>
    BY <1>2, PartsType, EmptySeq DEF Good
  <2>2. Len(b.blocks) = 1
    BY <1>2, <2>1, NothingStored DEF Good, Hollow
  <2>3. PICK r \in Seq(Block) : r = Tail(b.blocks) /\ Len(r) = 0
    <3>1. PICK q \in Seq(Block) : q = b.blocks /\ q # <<>> /\ Len(q) = 1
      BY <1>2, <2>2 DEF Good, Sound, Struct
    <3>2. Tail(q) \in Seq(Block) /\ Len(Tail(q)) = 0
      BY <3>1, HeadTailProperties
    <3> QED BY <3>1, <3>2
  <2>4. PICK t : t = [block_remove(b) EXCEPT !.start_offset = 0]
    OBVIOUS
  <2>5. DropEmpty(b) = t
    BY <1>2, <2>4 DEF DropEmpty
  <2>6. /\ t \in Struct /\ t.blocks = r /\ t.start_offset = 0 /\ t.size = 0
        /\ t.end_offset = b.end_offset
    BY <1>2, <2>3, <2>4 DEF block_remove, Good, Sound, Struct
  <2>7. Sound(t)
    <3>1. t.start_offset < BlockSize /\ b.end_offset <= BlockSize
      BY <2>6, BufferAssumption DEF Good, Sound
    <3>2. Len(t.blocks) # 1
      <4>1. 0 # 1
        OBVIOUS
      <4> QED BY <2>3, <2>6, <4>1, Zenon
    <3> QED BY <2>6, <3>1, <3>2, Zenon DEF Sound
  <2>8. Stored(t) = <<>>
    BY <2>3, <2>6, <2>7, NoBlocks
  <2>9. Good(t)
    BY <2>6, <2>7, <2>8, EmptySeq DEF Good
  <2> QED BY <2>1, <2>5, <2>8, <2>9
<1> QED
  BY <1>1, <1>2

\* What a loop of buffer_read goes through: the array and the buffer hold
\* what was stored.
ReadStates(b) ==
  {x \in [b : Struct, data : Seq(Byte)] :
     Sound(x.b) /\ x.b.size = b.size /\ Stored(b) = x.data \o Stored(x.b)}

\* Two sequences are the two parts of a third.
Splits(z, d, u) == z = d \o u

\* An element moves from the second part to the first.
LEMMA SplitMoves ==
  ASSUME NEW S, NEW c \in S, NEW d \in Seq(S), NEW s \in Seq(S), NEW u, Shrunk(u, s, c),
         NEW z, Splits(z, d, u)
  PROVE  Splits(z, Append(d, c), s)
<1>1. PICK o \in Seq(S) : o = <<c>>
  BY One
<1>2. (d \o o) \o s = d \o (o \o s)
  BY ConcatAssociative, SMTT(30)
<1>3. Append(d, c) = d \o o
  BY <1>1, AppendIsConcat, SMTT(30)
<1> QED
  BY <1>1, <1>2, <1>3, Zenon DEF Splits, Shrunk

\* A turn keeps that, and adds a byte to the array.
LEMMA TakeByteKeeps ==
  ASSUME NEW b, NEW x \in ReadStates(b), Stored(x.b) # <<>>
  PROVE  TakeByte(x) \in ReadStates(b) /\ Len(TakeByte(x).data) = Len(x.data) + 1
<1>1. PICK a, d : a = x.b /\ d = x.data
  OBVIOUS
<1>2. /\ x = [b |-> a, data |-> d] /\ d \in Seq(Byte) /\ Sound(a) /\ a.size = b.size
      /\ Stored(b) = d \o Stored(a) /\ Stored(a) # <<>>
  BY <1>1 DEF ReadStates
<1>3. PICK t, c : /\ TakeByte([b |-> a, data |-> d]) = [b |-> t, data |-> Append(d, c)]
                  /\ c \in Byte /\ Sound(t) /\ t.size = a.size
                  /\ Shrunk(Stored(a), Stored(t), c)
  BY <1>2, TakeByteTakes
<1>4. PICK s \in Seq(Byte) : s = Stored(t)
  BY <1>3, PartsType
<1>5. PICK e \in Seq(Byte) : e = Append(d, c) /\ Len(e) = Len(d) + 1
  BY <1>2, <1>3, AppendProperties
<1>6. Splits(Stored(b), d, Stored(a)) /\ d \in Seq(Byte) /\ c \in Byte
  BY <1>2, <1>3 DEF Splits
<1>7. Shrunk(Stored(a), s, c)
  BY <1>3, <1>4
<1>8. Splits(Stored(b), Append(d, c), s)
  BY <1>6, <1>7, SplitMoves, Zenon
<1>9. Stored(b) = e \o Stored(t)
  BY <1>4, <1>5, <1>8, Zenon DEF Splits
<1>10. PICK y : y = TakeByte(x)
  OBVIOUS
<1>11. y = [b |-> t, data |-> e]
  BY <1>2, <1>3, <1>5, <1>10, Zenon
<1>12. /\ y \in [b : Struct, data : Seq(Byte)] /\ y.b = t /\ y.data = e
  BY <1>3, <1>11 DEF Sound
<1>13. y \in ReadStates(b)
  BY <1>2, <1>3, <1>9, <1>12, Zenon DEF ReadStates
<1> QED
  BY <1>1, <1>5, <1>10, <1>12, <1>13

\* The array and the buffer before and after each turn.
Reading(g, b, n) ==
  /\ g[0] = [b |-> b, data |-> <<>>]
  /\ \A i \in 1..n : g[i] = TakeByte(g[i - 1])

SubSize(b, n) == [b EXCEPT !.size = @ - n]

\* That is what the loop goes through.
LEMMA ReadTrace ==
  ASSUME NEW b, NEW size, NEW n \in Nat, n = (IF size < b.size THEN size ELSE b.size),
         NEW V, NEW g \in [0..n -> V], Reading(g, b, n)
  PROVE  buffer_read(b, size) =
           [b |-> DropEmpty(SubSize(g[n].b, n)), data |-> g[n].data, size |-> n]
<1>0. /\ g[0] = [b |-> b, data |-> <<>>]
      /\ \A i \in 1..n : g[i] = TakeByte(g[i - 1])
  BY DEF Reading
<1> DEFINE Turn(f) ==
             f = [i \in 0..n |-> IF i = 0 THEN [b |-> b, data |-> <<>>] ELSE TakeByte(f[i - 1])]
           turn == CHOOSE f : Turn(f)
<1>1. Turn(g)
  <2>1. \A i \in 0..n : g[i] = IF i = 0 THEN [b |-> b, data |-> <<>>] ELSE TakeByte(g[i - 1])
    BY <1>0
  <2> QED BY <2>1
<1>2. Turn(turn)
  <2> HIDE DEF Turn
  <2> QED BY <1>1
<1>3. buffer_read(b, size) =
        [b |-> DropEmpty(SubSize(turn[n].b, n)), data |-> turn[n].data, size |-> n]
  BY Zenon DEF buffer_read, SubSize
<1> HIDE DEF turn
<1>4. \A i \in 0..n : turn[i] = IF i = 0 THEN [b |-> b, data |-> <<>>] ELSE TakeByte(turn[i - 1])
  BY <1>2
<1> DEFINE T == {i \in Nat : i <= n => turn[i] = g[i]}
<1>5. 0 \in T
  BY <1>0, <1>4
<1>6. ASSUME NEW i \in Nat, i \in T PROVE i + 1 \in T
  <2> SUFFICES ASSUME i + 1 <= n PROVE turn[i + 1] = g[i + 1]
    OBVIOUS
  <2>1. PICK j \in 1..n : j = i + 1 /\ j - 1 = i
    OBVIOUS
  <2>2. turn[j - 1] = g[j - 1]
    BY <1>6, <2>1
  <2>3. turn[j] = TakeByte(turn[j - 1]) /\ g[j] = TakeByte(g[j - 1])
    BY <1>0, <1>4
  <2> QED BY <2>1, <2>2, <2>3
<1> HIDE DEF T
<1>7. n \in T
  BY <1>5, <1>6, SetInduction
<1>8. turn[n] = g[n]
  BY <1>7 DEF T
<1> QED
  BY <1>3, <1>8, Zenon


\* A turn of the loop, where there is one to take.
TakeIfAny(x) == IF Stored(x.b) # <<>> THEN TakeByte(x) ELSE x

\* The array of a read holds the first n bytes that were stored, the buffer
\* the others.
Took(b, r, n) ==
  /\ Good(r.b) /\ r.size = n /\ r.data \in Seq(Byte) /\ n <= Len(r.data)
  /\ Splits(Stored(b), SubSeq(r.data, 1, n), Stored(r.b))

\* While less than all was read, there is something left.
LEMMA SomethingLeft ==
  ASSUME NEW b, NEW x \in ReadStates(b), Len(x.data) < Len(Stored(b))
  PROVE  Stored(x.b) # <<>>
<1>1. PICK d \in Seq(Byte) : d = x.data
  BY DEF ReadStates
<1>2. PICK s \in Seq(Byte) : s = Stored(x.b)
  BY PartsType DEF ReadStates
<1>3. Stored(b) = d \o s
  BY <1>1, <1>2 DEF ReadStates
<1> SUFFICES ASSUME s = <<>> PROVE FALSE
  BY <1>2
<1>4. d \o s = d
  BY ConcatEmptySeq
<1>5. Len(d) \in Nat /\ Len(d) < Len(d)
  BY <1>1, <1>3, <1>4, LenProperties
<1> QED
  BY <1>5

\* The loop of n turns, for no more than what is stored.
LEMMA ReadLoop ==
  ASSUME NEW b, Good(b), NEW n \in Nat, n <= Len(Stored(b))
  PROVE  \E g \in [0..n -> ReadStates(b)] : Reading(g, b, n) /\ Len(g[n].data) = n
<1>0. PICK z \in Nat : z = Len(Stored(b)) /\ n <= z
  BY PartsType, LenProperties DEF Good
<1> DEFINE a == [b |-> b, data |-> <<>>]
           F == [i \in 1..n |-> [x \in ReadStates(b) |-> TakeIfAny(x)]]
<1>1. a \in ReadStates(b)
  <2>1. <<>> \in Seq(Byte) /\ <<>> \o Stored(b) = Stored(b)
    BY PartsType, EmptySeq, ConcatEmptySeq DEF Good
  <2>2. a \in [b : Struct, data : Seq(Byte)] /\ a.b = b /\ a.data = <<>>
    BY <2>1 DEF Good, Sound
  <2> HIDE DEF a
  <2> QED BY <2>1, <2>2 DEF Good, ReadStates
<1>2. \A x \in ReadStates(b) : TakeIfAny(x) \in ReadStates(b)
  BY TakeByteKeeps DEF TakeIfAny
<1>3. F \in [1..n -> [ReadStates(b) -> ReadStates(b)]]
  BY <1>2
<1>4. PICK g \in [0..n -> ReadStates(b)] : IsTrace(g, a, F, n)
  <2> HIDE DEF a, F
  <2> QED BY <1>1, <1>3, TraceExists
<1>5. g[0] = a /\ \A i \in 1..n : g[i] = TakeIfAny(g[i - 1])
  <2>1. g[0] = a /\ \A i \in 1..n : g[i] = F[i][g[i - 1]]
    BY <1>4, Zenon DEF IsTrace
  <2>2. \A i \in 1..n : g[i - 1] \in ReadStates(b)
    BY <1>4
  <2>3. \A i \in 1..n : \A x \in ReadStates(b) : F[i][x] = TakeIfAny(x)
    OBVIOUS
  <2> HIDE DEF F, a
  <2> QED BY <2>1, <2>2, <2>3
<1> HIDE DEF F
<1>6. ASSUME NEW i \in 1..n, Len(g[i - 1].data) = i - 1
      PROVE  g[i] = TakeByte(g[i - 1]) /\ Len(g[i].data) = i
  <2>1. PICK x \in ReadStates(b) : x = g[i - 1] /\ Len(x.data) = i - 1
    BY <1>4, <1>6
  <2>2. Len(x.data) < Len(Stored(b))
    BY <1>0, <2>1
  <2>3. Stored(x.b) # <<>>
    BY <2>2, SomethingLeft
  <2>4. g[i] = TakeByte(x)
    BY <1>5, <2>1, <2>3 DEF TakeIfAny
  <2>5. Len(TakeByte(x).data) = (i - 1) + 1
    BY <2>1, <2>3, TakeByteKeeps
  <2> QED BY <2>1, <2>4, <2>5
<1> DEFINE T == {i \in Nat : i <= n => Len(g[i].data) = i}
<1>7. 0 \in T
  <2>1. a.data = <<>>
    OBVIOUS
  <2>2. Len(g[0].data) = 0
    BY <1>5, <2>1, EmptySeq
  <2> QED BY <2>2
<1>8. ASSUME NEW i \in Nat, i \in T PROVE i + 1 \in T
  <2> SUFFICES ASSUME i + 1 <= n PROVE Len(g[i + 1].data) = i + 1
    OBVIOUS
  <2>1. PICK j \in 1..n : j = i + 1 /\ j - 1 = i
    OBVIOUS
  <2>2. Len(g[j - 1].data) = j - 1
    BY <1>8, <2>1
  <2> QED BY <1>6, <2>1, <2>2
<1> HIDE DEF T
<1>9. Nat \subseteq T
  BY <1>7, <1>8, SetInduction
<1>10. \A i \in 0..n : Len(g[i].data) = i
  BY <1>9 DEF T
<1>11. \A i \in 1..n : g[i] = TakeByte(g[i - 1])
  <2> TAKE i \in 1..n
  <2>1. i - 1 \in 0..n
    OBVIOUS
  <2>2. Len(g[i - 1].data) = i - 1
    BY <1>10, <2>1
  <2> QED BY <1>6, <2>2
<1>12. Reading(g, b, n)
  BY <1>5, <1>11 DEF Reading
<1>13. Len(g[n].data) = n
  BY <1>10
<1> QED
  BY <1>4, <1>12, <1>13

\* buffer_read takes what is asked for, or all.
LEMMA ReadTakes ==
  ASSUME NEW b, Good(b), NEW size \in Nat, NEW n \in Nat,
         n = (IF size < b.size THEN size ELSE b.size)
  PROVE  Took(b, buffer_read(b, size), n)
<1>1. PICK z \in Nat : z = b.size /\ z = Len(Stored(b)) /\ n <= z
  BY PartsType, LenProperties DEF Good
<1>2. PICK g \in [0..n -> ReadStates(b)] : Reading(g, b, n) /\ Len(g[n].data) = n
  <2>1. n <= Len(Stored(b))
    BY <1>1
  <2> QED BY <2>1, ReadLoop, Zenon
<1>3. PICK x \in ReadStates(b) : x = g[n] /\ Len(x.data) = n
  BY <1>2
<1>4. PICK r : r = buffer_read(b, size)
  OBVIOUS
<1>5. r = [b |-> DropEmpty(SubSize(x.b, n)), data |-> x.data, size |-> n]
  BY <1>2, <1>3, <1>4, ReadTrace, ZenonT(60)
<1>6. PICK a, d : a = x.b /\ d = x.data
  OBVIOUS
<1>7. d \in Seq(Byte) /\ Sound(a) /\ a.size = z /\ Stored(b) = d \o Stored(a) /\ Len(d) = n
  BY <1>1, <1>3, <1>6 DEF ReadStates
<1>8. PICK s \in Seq(Byte) : s = Stored(a)
  BY <1>7, PartsType
<1>9. Len(s) = z - n /\ z - n \in Nat
  BY <1>1, <1>7, <1>8, ConcatProperties, LenProperties
<1>10. PICK u : u = SubSize(a, n)
  OBVIOUS
<1>11. u = [a EXCEPT !.size = z - n]
  BY <1>7, <1>10, Zenon DEF SubSize
<1>12. Sound(u) /\ u.size = z - n /\ Stored(u) = s
  BY <1>7, <1>8, <1>9, <1>11, Resize
<1>13. Good(u)
  BY <1>9, <1>12 DEF Good
<1>14. PICK w : w = DropEmpty(u) /\ Good(w) /\ Stored(w) = s
  BY <1>12, <1>13, DropEmptyKeeps
<1>15. r.b = w /\ r.data = d /\ r.size = n
  BY <1>5, <1>6, <1>10, <1>14
<1>16. SubSeq(d, 1, n) = d
  BY <1>7, SubSeqFull
<1>17. Splits(Stored(b), SubSeq(d, 1, n), Stored(w))
  BY <1>7, <1>8, <1>14, <1>16, Zenon DEF Splits
<1>18. n <= Len(d)
  BY <1>7
<1> QED
  BY <1>4, <1>7, <1>14, <1>15, <1>17, <1>18, Zenon DEF Took


-----------------------------------------------------------------------------
(* Detaching a block.                                                      *)

\* A new buffer is empty.
LEMMA NewIsGood == Good(buffer_new) /\ Stored(buffer_new) = <<>>
<1>1. PICK b : b = buffer_new
  OBVIOUS
<1>2. <<>> \in Seq(Block) /\ Len(<<>>) = 0
  BY EmptySeq
<1>3. /\ b \in Struct /\ b.blocks = <<>> /\ b.start_offset = 0 /\ b.end_offset = 0
      /\ b.size = 0
  BY <1>1, <1>2 DEF buffer_new, Struct
<1>4. Sound(b)
  <2>1. Len(b.blocks) # 1 /\ 0 < BlockSize /\ 0 <= BlockSize
    BY <1>2, <1>3, BufferAssumption
  <2> QED BY <1>3, <2>1 DEF Sound
<1>5. Stored(b) = <<>>
  BY <1>2, <1>3, <1>4, NoBlocks
<1> QED
  BY <1>1, <1>2, <1>3, <1>4, <1>5 DEF Good

\* The caller gets a block that begins with what was stored.
LEMMA DetachTakes ==
  ASSUME NEW b, Good(b), NEW n \in Nat, Detachable(b, n)
  PROVE  Took(b, [b |-> buffer_new, data |-> Head(b.blocks), size |-> n], n)
<1>1. Len(b.blocks) = 1 /\ b.start_offset = 0 /\ b.size = n /\ b.blocks \in Seq(Block)
  BY DEF Detachable, Good, Sound, Struct
<1>2. PICK k \in Block : k = b.blocks[1] /\ k = Head(b.blocks)
  <2>1. 1 \in 1..Len(b.blocks)
    BY <1>1
  <2>2. b.blocks[1] \in Block
    BY <1>1, <2>1, ElementOfSeq, Zenon
  <2>3. Head(b.blocks) = b.blocks[1]
    BY <1>1, EmptySeq
  <2> QED BY <2>2, <2>3
<1>3. PICK e \in Nat : e = b.end_offset /\ e <= BlockSize
  BY DEF Good, Sound, Struct
<1>4. PICK p \in Seq(Seq(Byte)) :
        Len(p) = 1 /\ Stored(b) = FlattenSeq(p) /\ \A i \in 1..1 : p[i] = Used(b, i)
  BY <1>1, PartsType DEF Good
<1>5. Stored(b) = Used(b, 1)
  BY <1>4, FlattenSingle
<1>6. Used(b, 1) = SubSeq(k, 0 + 1, e)
  BY <1>1, <1>2, <1>3 DEF Used
<1>7. PICK f \in Nat : f = 0 /\ f <= e
  BY <1>3
<1>8. SubSeq(k, f + 1, e) \in Seq(Byte) /\ Len(SubSeq(k, f + 1, e)) = e - f
  BY <1>3, <1>7, Slice, Zenon
<1>9. n = e
  <2>1. Len(Stored(b)) = n
    BY <1>1 DEF Good
  <2>2. Len(Stored(b)) = e - f
    BY <1>5, <1>6, <1>7, <1>8, Zenon
  <2> QED BY <1>7, <2>1, <2>2
<1>10. Stored(b) = SubSeq(k, 1, n)
  <2>1. 0 + 1 = 1
    OBVIOUS
  <2> QED BY <1>5, <1>6, <1>9, <2>1, Zenon
<1>11. PICK s \in Seq(Byte) : s = SubSeq(k, 1, n)
  BY <1>10, PartsType DEF Good
<1>12. Splits(Stored(b), SubSeq(k, 1, n), Stored(buffer_new))
  <2>1. s \o <<>> = s
    BY ConcatEmptySeq
  <2> QED BY <1>10, <1>11, <2>1, NewIsGood, Zenon DEF Splits
<1>13. k \in Seq(Byte) /\ Len(k) = BlockSize
  BY BufferAssumption DEF Block
<1>14. n <= Len(k)
  BY <1>3, <1>9, <1>13
<1>15. PICK r : r = [b |-> buffer_new, data |-> k, size |-> n]
  OBVIOUS
<1>16. r.b = buffer_new /\ r.data = k /\ r.size = n
  BY <1>15
<1>17. Took(b, r, n)
  BY <1>12, <1>13, <1>14, <1>16, NewIsGood, Zenon DEF Took
<1> QED
  BY <1>2, <1>15, <1>17, Zenon

\* Whether it copies or detaches, buffer_read_alloc takes what is asked for.
LEMMA AllocTakes ==
  ASSUME NEW b, Good(b), NEW n \in Nat, n <= b.size
  PROVE  Took(b, buffer_read_alloc(b, n), n)
<1>1. CASE Detachable(b, n)
  BY <1>1, DetachTakes, Zenon DEF buffer_read_alloc
<1>2. CASE ~Detachable(b, n)
  <2>1. b.size \in Nat
    BY DEF Good, Sound, Struct
  <2>2. n = IF n < b.size THEN n ELSE b.size
    BY <2>1
  <2>3. Took(b, buffer_read(b, n), n)
    BY <2>2, ReadTakes
  <2> QED BY <1>2, <2>3, Zenon DEF buffer_read_alloc
<1> QED
  BY <1>1, <1>2

-----------------------------------------------------------------------------
(* Prefixes, and the first element of a kind.                              *)

\* A prefix is a sequence.
LEMMA Prefix ==
  ASSUME NEW S, NEW s \in Seq(S), NEW n \in Nat, n <= Len(s)
  PROVE  /\ SubSeq(s, 1, n) \in Seq(S) /\ Len(SubSeq(s, 1, n)) = n
         /\ \A i \in 1..n : SubSeq(s, 1, n)[i] = s[i]
<1>1. Len(s) \in Nat /\ 1 \in Int /\ n \in Int
  BY LenProperties
<1>2. \A i \in 1..n : s[i] \in S
  BY <1>1, ElementOfSeq
<1>3. PICK p : p = SubSeq(s, 1, n)
  OBVIOUS
<1>4. /\ p \in Seq(S) /\ Len(p) = IF 1 <= n THEN n - 1 + 1 ELSE 0
      /\ \A i \in 1..(n - 1 + 1) : p[i] = s[1 + i - 1]
  BY <1>1, <1>2, <1>3, SubSeqProperties
<1>5. Len(p) = n
  BY <1>4
<1>6. \A i \in 1..n : p[i] = s[i]
  <2> TAKE i \in 1..n
  <2>1. i \in 1..(n - 1 + 1) /\ 1 + i - 1 = i
    OBVIOUS
  <2> QED BY <1>4, <2>1
<1> QED
  BY <1>3, <1>4, <1>5, <1>6

\* A prefix of a prefix is a prefix.
LEMMA PrefixOfPrefix ==
  ASSUME NEW S, NEW s \in Seq(S), NEW n \in Nat, n <= Len(s), NEW m \in Nat, m <= n
  PROVE  SubSeq(SubSeq(s, 1, n), 1, m) = SubSeq(s, 1, m)
<1>1. PICK z \in Nat : z = Len(s)
  BY LenProperties
<1>2. PICK p \in Seq(S) : p = SubSeq(s, 1, n)
  BY Prefix
<1>3. Len(p) = n /\ \A i \in 1..n : p[i] = s[i]
  BY <1>2, Prefix
<1>4. PICK q \in Seq(S) : q = SubSeq(p, 1, m)
  BY <1>3, Prefix
<1>5. Len(q) = m /\ \A i \in 1..m : q[i] = p[i]
  BY <1>3, <1>4, Prefix
<1>6. m <= Len(s)
  BY <1>1
<1>7. PICK r \in Seq(S) : r = SubSeq(s, 1, m)
  BY <1>6, Prefix
<1>8. Len(r) = m /\ \A i \in 1..m : r[i] = s[i]
  BY <1>6, <1>7, Prefix
<1>9. \A i \in 1..m : q[i] = r[i]
  BY <1>3, <1>5, <1>8
<1>10. q = r
  BY <1>5, <1>8, <1>9, SeqEqual
<1> QED
  BY <1>2, <1>4, <1>7, <1>10

\* The two parts of a sequence, as the queue names them.
Parted(z, p, s, n) == p = SubSeq(z, 1, n) /\ s = SubSeq(z, n + 1, Len(z))

\* They are the parts it was split into.
LEMMA SplitParts ==
  ASSUME NEW S, NEW p \in Seq(S), NEW s \in Seq(S), NEW z, Splits(z, p, s),
         NEW n \in Nat, n = Len(p)
  PROVE  Parted(z, p, s, n)
<1>1. PICK m \in Nat : m = Len(s)
  BY LenProperties
<1>2. z \in Seq(S) /\ Len(z) = n + m
  BY <1>1, ConcatProperties DEF Splits
<1>3. \A i \in 1..(n + m) : z[i] = IF i <= n THEN p[i] ELSE s[i - n]
  BY <1>1, ConcatProperties DEF Splits
<1>4. PICK q \in Seq(S) : q = SubSeq(z, 1, n)
  <2>1. n <= Len(z)
    BY <1>2
  <2> QED BY <1>2, <2>1, Prefix
<1>5. Len(q) = n /\ \A i \in 1..n : q[i] = z[i]
  <2>1. n <= Len(z)
    BY <1>2
  <2> QED BY <1>2, <1>4, <2>1, Prefix
<1>6. \A i \in 1..n : q[i] = p[i]
  BY <1>3, <1>5
<1>7. q = p
  BY <1>5, <1>6, SeqEqual
<1>8. \A i \in (n + 1)..(n + m) : z[i] \in S
  BY <1>2, ElementOfSeq
<1>9. PICK r : r = SubSeq(z, n + 1, n + m)
  OBVIOUS
<1>10. /\ r \in Seq(S) /\ Len(r) = IF n + 1 <= n + m THEN (n + m) - (n + 1) + 1 ELSE 0
       /\ \A i \in 1..((n + m) - (n + 1) + 1) : r[i] = z[(n + 1) + i - 1]
  BY <1>8, <1>9, SubSeqProperties
<1>11. Len(r) = m
  BY <1>10
<1>12. \A i \in 1..m : r[i] = s[i]
  <2> TAKE i \in 1..m
  <2>1. i \in 1..((n + m) - (n + 1) + 1) /\ (n + 1) + i - 1 = n + i
    OBVIOUS
  <2>2. r[i] = z[n + i]
    BY <1>10, <2>1
  <2>3. PICK j \in 1..(n + m) : j = n + i /\ ~(j <= n) /\ j - n = i
    OBVIOUS
  <2>4. z[j] = s[j - n]
    BY <1>3, <2>3
  <2> QED BY <2>2, <2>3, <2>4
<1>13. r = s
  BY <1>1, <1>10, <1>11, <1>12, SeqEqual
<1> QED
  BY <1>2, <1>4, <1>7, <1>9, <1>13 DEF Parted


\* The first c in s, or 0.
First(s, c) ==
  LET I == {i \in 1..Len(s) : s[i] = c} IN IF I # {} THEN Min(I) ELSE 0

\* It is what buffer_find_char computes, and what the queue does.
LEMMA FindFirst ==
  /\ \A b, c : buffer_find_char(b, c) = First(Stored(b), c)
  /\ \A s : Queue!CString(s) =
              IF First(s, "NUL") = 0 THEN s ELSE SubSeq(s, 1, First(s, "NUL") - 1)
<1>1. \A b, c : buffer_find_char(b, c) = First(Stored(b), c)
  BY DEF buffer_find_char, SelectInSeq, First
<1>2. \A s : Queue!CString(s) =
               IF First(s, "NUL") = 0 THEN s ELSE SubSeq(s, 1, First(s, "NUL") - 1)
  BY DEF Queue!CString, Queue!SelectInSeq, Queue!Min, First, Min
<1> QED
  BY <1>1, <1>2

\* A set of numbers has a least one.
LEMMA Least ==
  ASSUME NEW n \in Nat, NEW I \in SUBSET (1..n), I # {}
  PROVE  Min(I) \in I /\ \A j \in I : Min(I) <= j
<1> DEFINE T == {m \in Nat : \A j \in I : j > m}
<1>1. \E k \in I : \A j \in I : k <= j
  <2> SUFFICES ASSUME ~\E k \in I : \A j \in I : k <= j PROVE FALSE
    OBVIOUS
  <2>1. 0 \in T
    OBVIOUS
  <2>2. ASSUME NEW m \in Nat, m \in T PROVE m + 1 \in T
    <3>1. m + 1 \notin I
      BY <2>2
    <3>2. ASSUME NEW j \in I PROVE j > m + 1
      <4>1. j > m /\ j \in Nat /\ j # m + 1
        BY <2>2, <3>1
      <4> QED BY <4>1
    <3> QED BY <3>2
  <2> HIDE DEF T
  <2>3. n \in T
    BY <2>1, <2>2, SetInduction
  <2>4. PICK i : i \in I /\ i \in 1..n
    OBVIOUS
  <2>5. i > n
    BY <2>3, <2>4 DEF T
  <2> QED BY <2>4, <2>5
<1> QED
  BY <1>1 DEF Min

\* Where it is.
IsFirst(s, c, n) == n \in 1..Len(s) /\ s[n] = c /\ \A j \in 1..Len(s) : s[j] = c => n <= j

\* First finds it,
LEMMA FirstFound ==
  ASSUME NEW S, NEW s \in Seq(S), NEW c
  PROVE  /\ First(s, c) \in 0..Len(s)
         /\ First(s, c) = 0 => \A i \in 1..Len(s) : s[i] # c
         /\ First(s, c) # 0 => IsFirst(s, c, First(s, c))
<1>1. PICK n \in Nat : n = Len(s)
  BY LenProperties
<1> DEFINE I == {i \in 1..Len(s) : s[i] = c}
<1>2. First(s, c) = IF I # {} THEN Min(I) ELSE 0
  BY DEF First
<1>3. CASE I = {}
  BY <1>1, <1>2, <1>3
<1>4. CASE I # {}
  <2>1. I \in SUBSET (1..n)
    BY <1>1
  <2>2. Min(I) \in I /\ \A j \in I : Min(I) <= j
    <3> HIDE DEF I
    <3> QED BY <1>4, <2>1, Least
  <2> QED BY <1>1, <1>2, <1>4, <2>2 DEF IsFirst
<1> QED
  BY <1>3, <1>4

\* and there is no other.
LEMMA FirstUnique ==
  ASSUME NEW S, NEW s \in Seq(S), NEW c, NEW n, IsFirst(s, c, n)
  PROVE  First(s, c) = n
<1>1. PICK z \in Nat : z = Len(s)
  BY LenProperties
<1>2. n \in 1..z /\ s[n] = c /\ \A j \in 1..z : s[j] = c => n <= j
  BY <1>1 DEF IsFirst
<1>3. First(s, c) # 0
  BY <1>1, <1>2, FirstFound
<1>4. PICK m : m = First(s, c) /\ IsFirst(s, c, m)
  BY <1>3, FirstFound
<1>5. m \in 1..z /\ s[m] = c /\ \A j \in 1..z : s[j] = c => m <= j
  BY <1>1, <1>4 DEF IsFirst
<1>6. m <= n /\ n <= m
  BY <1>2, <1>5
<1> QED
  BY <1>2, <1>4, <1>5, <1>6

\* Writing a NUL leaves the string before it.
LEMMA TerminatedString ==
  ASSUME NEW S, NEW d \in Seq(S), NEW m \in Nat, m + 1 <= Len(d)
  PROVE  Terminated(d, m + 1) = Queue!CString(SubSeq(d, 1, m))
<1>1. PICK z \in Nat : z = Len(d) /\ m + 1 <= z /\ m <= z
  BY LenProperties
<1>2. PICK U : U = S \cup {"NUL"}
  OBVIOUS
<1>3. d \in Seq(U) /\ "NUL" \in U
  BY <1>2, SeqMonotonic
<1>4. PICK e : e = [d EXCEPT ![m + 1] = "NUL"]
  OBVIOUS
<1>5. /\ e \in Seq(U) /\ Len(e) = z
      /\ \A i \in 1..z : e[i] = IF i = m + 1 THEN "NUL" ELSE d[i]
  <2>1. PICK j \in 1..Len(d) : j = m + 1
    BY <1>1
  <2>2. PICK c \in U : c = "NUL"
    BY <1>3
  <2>3. e = [d EXCEPT ![j] = c]
    BY <1>4, <2>1, <2>2
  <2>4. d \in Seq(U)
    BY <1>3
  <2>5. /\ e \in Seq(U) /\ Len(e) = Len(d)
        /\ \A i \in 1..Len(d) : e[i] = IF i = j THEN c ELSE d[i]
    BY <2>3, <2>4, ExceptSeq
  <2> QED BY <1>1, <2>1, <2>2, <2>5
<1>6. Terminated(d, m + 1) = SubSeq(d, 1, First(e, "NUL") - 1)
  BY <1>4 DEF Terminated, SelectInSeq, First
<1>7. PICK p \in Seq(S) : p = SubSeq(d, 1, m)
  BY <1>1, Prefix
<1>8. Len(p) = m /\ \A i \in 1..m : p[i] = d[i]
  BY <1>1, <1>7, Prefix
<1>9. CASE First(p, "NUL") = 0
  <2>1. \A i \in 1..m : d[i] # "NUL"
    BY <1>8, <1>9, FirstFound
  <2>2. IsFirst(e, "NUL", m + 1)
    <3>1. e[m + 1] = "NUL" /\ m + 1 \in 1..z
      BY <1>1, <1>5
    <3>2. ASSUME NEW j \in 1..z, e[j] = "NUL" PROVE m + 1 <= j
      <4> SUFFICES ASSUME ~(m + 1 <= j) PROVE FALSE
        OBVIOUS
      <4>1. j \in 1..m /\ j # m + 1
        OBVIOUS
      <4> QED BY <1>5, <2>1, <3>2, <4>1
    <3> QED BY <1>5, <3>1, <3>2 DEF IsFirst
  <2>3. First(e, "NUL") = m + 1
    BY <1>5, <2>2, FirstUnique
  <2>4. (m + 1) - 1 = m
    OBVIOUS
  <2>5. Queue!CString(p) = p
    BY <1>9, FindFirst
  <2> QED BY <1>6, <1>7, <2>3, <2>4, <2>5
<1>10. CASE First(p, "NUL") # 0
  <2>1. PICK k : k = First(p, "NUL") /\ IsFirst(p, "NUL", k)
    BY <1>10, FirstFound
  <2>2. k \in 1..m /\ d[k] = "NUL" /\ \A j \in 1..m : d[j] = "NUL" => k <= j
    BY <1>8, <2>1 DEF IsFirst
  <2>3. IsFirst(e, "NUL", k)
    <3>1. k \in 1..z /\ e[k] = "NUL"
      BY <1>1, <1>5, <2>2
    <3>2. ASSUME NEW j \in 1..z, e[j] = "NUL" PROVE k <= j
      <4>1. CASE j \in 1..m
        BY <1>5, <2>2, <3>2, <4>1
      <4>2. CASE j \notin 1..m
        BY <2>2, <4>2
      <4> QED BY <4>1, <4>2
    <3> QED BY <1>5, <3>1, <3>2 DEF IsFirst
  <2>4. First(e, "NUL") = k
    BY <1>5, <2>3, FirstUnique
  <2>5. PICK l \in Nat : l = k - 1 /\ l <= m
    BY <2>2
  <2>6. SubSeq(p, 1, l) = SubSeq(d, 1, l)
    BY <1>1, <1>7, <2>5, PrefixOfPrefix
  <2>7. Queue!CString(p) = SubSeq(p, 1, k - 1)
    BY <1>10, <2>1, FindFirst
  <2> QED BY <1>6, <1>7, <2>4, <2>5, <2>6, <2>7
<1> QED
  BY <1>9, <1>10


-----------------------------------------------------------------------------
(* What the calls do to the queue.                                         *)

\* What a read leaves and returns, if it took the first n bytes.
LEMMA TookPrefix ==
  ASSUME NEW b, Good(b), NEW r, NEW n \in Nat, Took(b, r, n)
  PROVE  /\ Good(r.b) /\ r.size = n /\ r.data \in Seq(Byte) /\ n <= Len(r.data)
         /\ SubSeq(r.data, 1, n) = SubSeq(Stored(b), 1, n)
         /\ Stored(r.b) = SubSeq(Stored(b), n + 1, Len(Stored(b)))
<1>1. /\ Good(r.b) /\ r.size = n /\ r.data \in Seq(Byte) /\ n <= Len(r.data)
      /\ Splits(Stored(b), SubSeq(r.data, 1, n), Stored(r.b))
  BY DEF Took
<1>2. PICK p \in Seq(Byte) : p = SubSeq(r.data, 1, n) /\ Len(p) = n
  <2>1. SubSeq(r.data, 1, n) \in Seq(Byte) /\ Len(SubSeq(r.data, 1, n)) = n
    BY <1>1, Prefix, Zenon
  <2> QED BY <2>1
<1>3. PICK s \in Seq(Byte) : s = Stored(r.b)
  BY <1>1, PartsType DEF Good
<1>4. PICK z : z = Stored(b)
  OBVIOUS
<1>5. Splits(z, p, s)
  BY <1>1, <1>2, <1>3, <1>4
<1>6. p = SubSeq(z, 1, n) /\ s = SubSeq(z, n + 1, Len(z))
  <2>1. n = Len(p)
    BY <1>2
  <2>2. Parted(z, p, s, n)
    BY <1>5, <2>1, SplitParts, Zenon
  <2> QED BY <2>2 DEF Parted
<1> QED
  BY <1>1, <1>2, <1>3, <1>4, <1>6

\* buffer_find_char finds a byte in the queue.
LEMMA FindWithin ==
  ASSUME NEW b, Good(b), NEW c, NEW n, n = buffer_find_char(b, c)
  PROVE  n = First(Stored(b), c) /\ n \in Nat /\ n <= b.size
<1>1. PICK s \in Seq(Byte) : s = Stored(b) /\ b.size = Len(s)
  BY PartsType DEF Good
<1>2. n = First(s, c)
  BY <1>1, FindFirst
<1>3. Len(s) \in Nat /\ First(s, c) \in 0..Len(s)
  BY FirstFound, LenProperties
<1> QED
  BY <1>1, <1>2, <1>3

\* What remains of the queue behind the first n bytes.
Behind(b, n) == SubSeq(Stored(b), n + 1, Len(Stored(b)))

\* Nothing is taken.
LEMMA BehindNothing ==
  ASSUME NEW b, Good(b)
  PROVE  Behind(b, 0) = Stored(b)
<1>1. PICK s \in Seq(Byte) : s = Stored(b)
  BY PartsType DEF Good
<1>2. SubSeq(s, 1, Len(s)) = s
  BY SubSeqFull
<1>3. 0 + 1 = 1
  OBVIOUS
<1> QED
  BY <1>1, <1>2, <1>3, Zenon DEF Behind

\* buffer_read_chunk returns what precedes the terminator.
LEMMA ChunkRead ==
  ASSUME NEW b, Good(b), NEW c, NEW n, n = First(Stored(b), c)
  PROVE  LET r == buffer_read_chunk(b, c) IN
         /\ Good(r.b) /\ Stored(r.b) = Behind(b, n)
         /\ r.value = IF n = 0 THEN Null ELSE Queue!CString(SubSeq(Stored(b), 1, n - 1))
<1>1. n = buffer_find_char(b, c) /\ n \in Nat /\ n <= b.size
  <2>1. n = buffer_find_char(b, c)
    BY FindFirst
  <2> QED BY <2>1, FindWithin
<1>2. CASE n = 0
  <2>1. PICK r : r = buffer_read_chunk(b, c) /\ r = [b |-> b, value |-> Null]
    BY <1>1, <1>2, Zenon DEF buffer_read_chunk, ReadResult
  <2>2. r.b = b /\ r.value = Null
    BY <2>1
  <2> QED BY <1>2, <2>1, <2>2, BehindNothing
<1>3. CASE n # 0
  <2>1. PICK a : a = buffer_read_alloc(b, n)
    OBVIOUS
  <2>2. Took(b, a, n)
    BY <1>1, <2>1, AllocTakes
  <2>3. /\ Good(a.b) /\ a.size = n /\ a.data \in Seq(Byte) /\ n <= Len(a.data)
        /\ SubSeq(a.data, 1, n) = SubSeq(Stored(b), 1, n)
        /\ Stored(a.b) = SubSeq(Stored(b), n + 1, Len(Stored(b)))
    BY <1>1, <2>2, TookPrefix
  <2>4. PICK r : /\ r = buffer_read_chunk(b, c)
                 /\ r = [b |-> a.b, value |-> Terminated(a.data, a.size)]
    BY <1>1, <1>3, <2>1, Zenon DEF buffer_read_chunk, ReadResult
  <2>5. r.b = a.b /\ r.value = Terminated(a.data, n)
    BY <2>3, <2>4
  <2>6. PICK m \in Nat : m + 1 = n /\ m = n - 1 /\ m <= n
    BY <1>1, <1>3
  <2>7. Terminated(a.data, n) = Queue!CString(SubSeq(a.data, 1, m))
    BY <2>3, <2>6, TerminatedString
  <2>8. SubSeq(a.data, 1, m) = SubSeq(Stored(b), 1, m)
    <3>1. PICK d \in Seq(Byte) : d = a.data /\ n <= Len(d)
      BY <2>3
    <3>2. PICK s \in Seq(Byte) : s = Stored(b) /\ n <= Len(s)
      BY <1>1, PartsType DEF Good
    <3>3. SubSeq(SubSeq(d, 1, n), 1, m) = SubSeq(d, 1, m)
      BY <1>1, <2>6, <3>1, PrefixOfPrefix
    <3>4. SubSeq(SubSeq(s, 1, n), 1, m) = SubSeq(s, 1, m)
      BY <1>1, <2>6, <3>2, PrefixOfPrefix
    <3> QED BY <2>3, <3>1, <3>2, <3>3, <3>4, Zenon
  <2>9. r.value = Queue!CString(SubSeq(Stored(b), 1, n - 1))
    BY <2>5, <2>6, <2>7, <2>8, Zenon
  <2> QED BY <1>3, <2>3, <2>4, <2>5, <2>9, Zenon DEF Behind
<1> QED
  BY <1>2, <1>3


\* The text of a line of n bytes.
LEMMA LineText ==
  ASSUME NEW S, NEW s \in Seq(S), NEW n \in Nat, n = Len(s), n # 0
  PROVE  Queue!Line(s) = IF n >= 2 /\ s[n - 1] = "CR"
                         THEN SubSeq(s, 1, n - 2) ELSE SubSeq(s, 1, n - 1)
<1>1. PICK m \in Nat : m = n - 1 /\ m <= Len(s) /\ m <= n
  OBVIOUS
<1>2. PICK t \in Seq(S) : t = SubSeq(s, 1, m)
  BY <1>1, Prefix
<1>3. Len(t) = m /\ \A i \in 1..m : t[i] = s[i]
  BY <1>1, <1>2, Prefix
<1>4. Queue!Line(s) = IF t # <<>> /\ t[Len(t)] = "CR" THEN SubSeq(t, 1, Len(t) - 1) ELSE t
  BY <1>1, <1>2 DEF Queue!Line, Queue!Front, Queue!Last
<1>5. CASE n >= 2
  <2>1. t # <<>>
    <3>1. Len(t) # 0
      BY <1>1, <1>3, <1>5
    <3> QED BY <3>1, EmptySeq, Zenon
  <2>2. t[Len(t)] = s[n - 1]
    BY <1>1, <1>3, <1>5
  <2>3. PICK l \in Nat : l = Len(t) - 1 /\ l = n - 2 /\ l <= m
    <3>1. PICK l \in Nat : l = m - 1 /\ l = n - 2 /\ l <= m
      BY <1>1, <1>5
    <3> QED BY <1>3, <3>1
  <2>4. SubSeq(t, 1, l) = SubSeq(s, 1, l)
    BY <1>1, <1>2, <2>3, PrefixOfPrefix
  <2> QED BY <1>1, <1>2, <1>4, <1>5, <2>1, <2>2, <2>3, <2>4
<1>6. CASE ~(n >= 2)
  <2>1. t = <<>>
    <3>1. Len(t) = 0
      BY <1>1, <1>3, <1>6
    <3> QED BY <3>1, EmptySeq
  <2>2. Queue!Line(s) = t
    BY <1>4, <2>1
  <2> QED BY <1>1, <1>2, <1>6, <2>2, Zenon
<1> QED
  BY <1>5, <1>6

\* buffer_read_line returns a line without its end.
LEMMA LineRead ==
  ASSUME NEW b, Good(b), NEW n, n = First(Stored(b), "NL")
  PROVE  LET r == buffer_read_line(b) IN
         /\ Good(r.b) /\ Stored(r.b) = Behind(b, n)
         /\ r.value = IF n = 0 THEN Null
                      ELSE Queue!CString(Queue!Line(SubSeq(Stored(b), 1, n)))
<1>1. n = buffer_find_char(b, "NL") /\ n \in Nat /\ n <= b.size
  <2>1. n = buffer_find_char(b, "NL")
    BY FindFirst
  <2> QED BY <2>1, FindWithin
<1>2. CASE n = 0
  <2>1. PICK r : r = buffer_read_line(b) /\ r = [b |-> b, value |-> Null]
    BY <1>1, <1>2, Zenon DEF buffer_read_line, ReadResult
  <2>2. r.b = b /\ r.value = Null
    BY <2>1
  <2> QED BY <1>2, <2>1, <2>2, BehindNothing
<1>3. CASE n # 0
  <2>1. PICK a : a = buffer_read_alloc(b, n)
    OBVIOUS
  <2>2. Took(b, a, n)
    BY <1>1, <2>1, AllocTakes
  <2>3. /\ Good(a.b) /\ a.size = n /\ a.data \in Seq(Byte) /\ n <= Len(a.data)
        /\ SubSeq(a.data, 1, n) = SubSeq(Stored(b), 1, n)
        /\ Stored(a.b) = SubSeq(Stored(b), n + 1, Len(Stored(b)))
    BY <1>1, <2>2, TookPrefix
  <2>4. PICK d \in Seq(Byte) : d = a.data /\ n <= Len(d)
    BY <2>3
  <2>5. PICK p \in Seq(Byte) : p = SubSeq(d, 1, n)
    BY <1>1, <2>4, Prefix
  <2>6. Len(p) = n /\ \A i \in 1..n : p[i] = d[i]
    BY <1>1, <2>4, <2>5, Prefix
  <2> DEFINE crlf == n >= 2 /\ d[n - 1] = "CR"
  <2>7. PICK r : /\ r = buffer_read_line(b) /\ r.b = a.b
                 /\ r.value = IF crlf THEN Terminated(d, n - 1) ELSE Terminated(d, n)
    <3>1. buffer_read_line(b) =
            IF crlf THEN [b |-> a.b, value |-> Terminated(d, n - 1)]
            ELSE [b |-> a.b, value |-> Terminated(d, n)]
      BY <1>1, <1>3, <2>1, <2>3, <2>4, Zenon DEF buffer_read_line, ReadResult
    <3> HIDE DEF crlf
    <3>2. PICK v : v = IF crlf THEN Terminated(d, n - 1) ELSE Terminated(d, n)
      OBVIOUS
    <3>3. buffer_read_line(b) = [b |-> a.b, value |-> v]
      BY <3>1, <3>2
    <3> QED BY <3>2, <3>3
  <2>8. Queue!Line(p) = IF crlf THEN SubSeq(p, 1, n - 2) ELSE SubSeq(p, 1, n - 1)
    <3>1. n >= 2 => p[n - 1] = d[n - 1]
      BY <1>1, <2>6
    <3>2. Queue!Line(p) = IF n >= 2 /\ p[n - 1] = "CR"
                          THEN SubSeq(p, 1, n - 2) ELSE SubSeq(p, 1, n - 1)
      BY <1>1, <1>3, <2>6, LineText
    <3> QED BY <3>1, <3>2
  <2>9. r.value = Queue!CString(Queue!Line(p))
    <3>1. CASE crlf
      <4>1. PICK m \in Nat : m + 1 = n - 1 /\ m = n - 2 /\ m <= n /\ m + 1 <= n
        BY <1>1, <3>1
      <4>2. m + 1 <= Len(d)
        BY <1>1, <2>4, <4>1, LenProperties
      <4>3. Terminated(d, m + 1) = Queue!CString(SubSeq(d, 1, m))
        BY <4>2, TerminatedString
      <4>4. SubSeq(p, 1, m) = SubSeq(d, 1, m)
        BY <1>1, <2>4, <2>5, <4>1, PrefixOfPrefix
      <4> HIDE DEF crlf
      <4> QED BY <2>7, <2>8, <3>1, <4>1, <4>3, <4>4, Zenon
    <3>2. CASE ~crlf
      <4>1. PICK m \in Nat : m + 1 = n /\ m = n - 1 /\ m <= n
        BY <1>1, <1>3
      <4>2. Terminated(d, m + 1) = Queue!CString(SubSeq(d, 1, m))
        BY <2>4, <4>1, TerminatedString
      <4>3. SubSeq(p, 1, m) = SubSeq(d, 1, m)
        BY <1>1, <2>4, <2>5, <4>1, PrefixOfPrefix
      <4> HIDE DEF crlf
      <4> QED BY <2>7, <2>8, <3>2, <4>1, <4>2, <4>3, Zenon
    <3> QED BY <3>1, <3>2
  <2>10. p = SubSeq(Stored(b), 1, n)
    BY <2>3, <2>4, <2>5
  <2> QED BY <1>3, <2>3, <2>7, <2>9, <2>10, Zenon DEF Behind
<1> QED
  BY <1>2, <1>3

\* buffer_slurp returns all.
LEMMA SlurpRead ==
  ASSUME NEW b, Good(b)
  PROVE  LET r == buffer_slurp(b) IN
         /\ Good(r.b) /\ Stored(r.b) = Behind(b, Len(Stored(b))) /\ r.value = Stored(b)
<1>1. PICK n \in Nat : n = b.size /\ n = Len(Stored(b)) /\ n <= b.size
  BY DEF Good, Sound, Struct
<1>2. PICK a : a = buffer_read_alloc(b, n)
  OBVIOUS
<1>3. Took(b, a, n)
  BY <1>1, <1>2, AllocTakes
<1>4. /\ Good(a.b) /\ a.size = n /\ SubSeq(a.data, 1, n) = SubSeq(Stored(b), 1, n)
      /\ Stored(a.b) = SubSeq(Stored(b), n + 1, Len(Stored(b)))
  BY <1>3, TookPrefix
<1>5. SubSeq(Stored(b), 1, n) = Stored(b)
  BY <1>1, PartsType, SubSeqFull DEF Good
<1>6. PICK r : r = buffer_slurp(b) /\ r = [b |-> a.b, value |-> SubSeq(a.data, 1, a.size)]
  BY <1>1, <1>2, Zenon DEF buffer_slurp, ReadResult
<1>7. r.b = a.b /\ r.value = SubSeq(a.data, 1, n)
  BY <1>4, <1>6
<1> QED
  BY <1>1, <1>4, <1>5, <1>6, <1>7, Zenon DEF Behind


\* The bytes that a call appends.
LEMMA InputType ==
  ASSUME NEW input \in BoundedSeq(Bytes, MaxAppend)
  PROVE  input \in Queue!Inputs /\ input \in Seq(Byte)
<1>1. PICK m \in 0..MaxAppend : input \in [1..m -> Bytes]
  BY DEF BoundedSeq, SeqOf
<1>2. m \in Nat
  BY BufferAssumption
<1>3. input \in [1..m -> Byte]
  BY <1>1 DEF Byte
<1>4. input \in Seq(Byte)
  BY <1>2, <1>3
<1>5. input \in Queue!Inputs
  BY DEF Queue!Inputs, Queue!BoundedSeq, Queue!SeqOf, BoundedSeq, SeqOf
<1> QED
  BY <1>4, <1>5

\* What the queue does, if n bytes are taken.
LEMMA Takes ==
  ASSUME NEW n, NEW v, Stored(buf') = Behind(buf, n), ret' = v
  PROVE  Queue!Take(n, v)
  BY DEF Queue!Take, Behind

-----------------------------------------------------------------------------
(* The refinement.                                                         *)

\* The inductive invariant.
BufferGood == Good(buf)

\* A new buffer is an empty queue.
LEMMA BufferGoodInit == BufferInit => BufferGood /\ Queue!Init
  BY NewIsGood DEF BufferInit, BufferGood, Queue!Init, Null, Queue!NULL

\* buffer_append.
LEMMA AppendsStep ==
  ASSUME BufferGood, NEW input \in BoundedSeq(Bytes, MaxAppend), Appends(input)
  PROVE  BufferGood' /\ Queue!Next
<1>1. input \in Queue!Inputs /\ input \in Seq(Byte)
  BY InputType
<1>2. buf' = buffer_append(buf, input) /\ ret' = Null
  BY DEF Appends
<1>3. Good(buf') /\ Stored(buf') = Stored(buf) \o input
  BY <1>1, <1>2, AppendStores DEF BufferGood
<1>4. Queue!AppendBytes(input)
  BY <1>2, <1>3 DEF Queue!AppendBytes, Null, Queue!NULL
<1> QED
  BY <1>1, <1>3, <1>4 DEF BufferGood, Queue!Next

\* buffer_read.
LEMMA ReadsStep ==
  ASSUME BufferGood, NEW size \in 0..(buf.size + 1), Reads(size)
  PROVE  BufferGood' /\ Queue!Next
<1>1. PICK z \in Nat : z = buf.size /\ z = Len(Stored(buf))
  BY DEF BufferGood, Good, Sound, Struct
<1>2. size \in Nat /\ size \in 0..(Len(Stored(buf)) + 1)
  BY <1>1
<1>3. PICK n \in Nat : n = (IF size < buf.size THEN size ELSE buf.size)
  BY <1>1, <1>2
<1>4. PICK r : r = buffer_read(buf, size)
  OBVIOUS
<1>5. Took(buf, r, n)
  BY <1>2, <1>3, <1>4, ReadTakes DEF BufferGood
<1>6. /\ Good(r.b) /\ r.size = n /\ SubSeq(r.data, 1, n) = SubSeq(Stored(buf), 1, n)
      /\ Stored(r.b) = SubSeq(Stored(buf), n + 1, Len(Stored(buf)))
  BY <1>5, TookPrefix DEF BufferGood
<1>7. buf' = r.b /\ ret' = SubSeq(r.data, 1, r.size)
  BY <1>4, Zenon DEF Reads
<1>8. Queue!Take(n, SubSeq(Stored(buf), 1, n))
  BY <1>6, <1>7, Takes DEF Behind
<1>9. n = IF size < Len(Stored(buf)) THEN size ELSE Len(Stored(buf))
  BY <1>1, <1>3
<1>10. Queue!Read(size)
  BY <1>8, <1>9, Zenon DEF Queue!Read
<1> QED
  BY <1>2, <1>6, <1>7, <1>10 DEF BufferGood, Queue!Next

\* buffer_read_line.
LEMMA LineStep ==
  ASSUME BufferGood, Returns(buffer_read_line(buf))
  PROVE  BufferGood' /\ Queue!Next
<1>1. PICK n : n = First(Stored(buf), "NL")
  OBVIOUS
<1>2. PICK v : v = IF n = 0 THEN Null ELSE Queue!CString(Queue!Line(SubSeq(Stored(buf), 1, n)))
  OBVIOUS
<1>3. Good(buf') /\ Stored(buf') = Behind(buf, n) /\ ret' = v
  BY <1>1, <1>2, LineRead DEF BufferGood, Returns
<1>4. Queue!Take(n, v)
  BY <1>3, Takes
<1>5. Queue!ReadLine
  <2>1. Queue!ReadLine <=>
          LET m == First(Stored(buf), "NL")
          IN Queue!Take(m, IF m = 0 THEN Null
                           ELSE Queue!CString(Queue!Line(SubSeq(Stored(buf), 1, m))))
    BY Zenon DEF Queue!ReadLine, Queue!SelectInSeq, Queue!Min, First, Min, Null, Queue!NULL
  <2> QED BY <1>1, <1>2, <1>4, <2>1, Zenon
<1> QED
  BY <1>3, <1>5 DEF BufferGood, Queue!Next

\* buffer_read_chunk.
LEMMA ChunkStep ==
  ASSUME BufferGood, NEW c \in Bytes, Returns(buffer_read_chunk(buf, c))
  PROVE  BufferGood' /\ Queue!Next
<1>1. PICK n : n = First(Stored(buf), c)
  OBVIOUS
<1>2. PICK v : v = IF n = 0 THEN Null ELSE Queue!CString(SubSeq(Stored(buf), 1, n - 1))
  OBVIOUS
<1>3. Good(buf') /\ Stored(buf') = Behind(buf, n) /\ ret' = v
  BY <1>1, <1>2, ChunkRead DEF BufferGood, Returns
<1>4. Queue!Take(n, v)
  BY <1>3, Takes
<1>5. Queue!ReadChunk(c)
  <2>1. Queue!ReadChunk(c) <=>
          LET m == First(Stored(buf), c)
          IN Queue!Take(m, IF m = 0 THEN Null ELSE Queue!CString(SubSeq(Stored(buf), 1, m - 1)))
    BY Zenon DEF Queue!ReadChunk, Queue!SelectInSeq, Queue!Min, First, Min, Null, Queue!NULL
  <2> QED BY <1>1, <1>2, <1>4, <2>1, Zenon
<1> QED
  BY <1>3, <1>5 DEF BufferGood, Queue!Next

\* buffer_slurp.
LEMMA SlurpStep ==
  ASSUME BufferGood, Returns(buffer_slurp(buf))
  PROVE  BufferGood' /\ Queue!Next
<1>1. Good(buf') /\ Stored(buf') = Behind(buf, Len(Stored(buf))) /\ ret' = Stored(buf)
  BY SlurpRead DEF BufferGood, Returns
<1>2. Queue!Slurp
  BY <1>1, Takes DEF Queue!Slurp
<1> QED
  BY <1>1, <1>2 DEF BufferGood, Queue!Next

\* buffer_free and buffer_new.
LEMMA ReplacesStep ==
  ASSUME Replaces
  PROVE  BufferGood' /\ Queue!Next
<1>1. Good(buf') /\ Stored(buf') = <<>> /\ ret' = Null
  BY NewIsGood DEF Replaces
<1>2. Queue!Renew
  BY <1>1 DEF Queue!Renew, Null, Queue!NULL
<1> QED
  BY <1>1, <1>2 DEF BufferGood, Queue!Next

\* The lists of blocks that src/common/buffer.c keeps implement a queue of
\* bytes, for blocks of any size: every append, read, line, chunk, slurp and
\* purge does to the bytes in the blocks what the same call does to the queue,
\* and returns what that returns, whether the bytes span blocks, are copied or
\* leave with their block; and buffer_size reports how many there are.
THEOREM BufferImplementsQueue == BufferSpec => BufferIsQueue
<1>1. BufferInit => BufferGood /\ Queue!Init
  BY BufferGoodInit
<1>2. BufferGood /\ [BufferNext]_bufferVars => BufferGood' /\ [Queue!Next]_Queue!vars
  <2> SUFFICES ASSUME BufferGood, [BufferNext]_bufferVars
               PROVE  BufferGood' /\ [Queue!Next]_Queue!vars
    OBVIOUS
  <2>1. ASSUME NEW input \in BoundedSeq(Bytes, MaxAppend), Appends(input)
        PROVE  BufferGood' /\ Queue!Next
    BY <2>1, AppendsStep
  <2>2. ASSUME NEW size \in 0..buf.size + 1, Reads(size)
        PROVE  BufferGood' /\ Queue!Next
    BY <2>2, ReadsStep
  <2>3. CASE Returns(buffer_read_line(buf))
    BY <2>3, LineStep
  <2>4. ASSUME NEW c \in Bytes, Returns(buffer_read_chunk(buf, c))
        PROVE  BufferGood' /\ Queue!Next
    BY <2>4, ChunkStep
  <2>5. CASE Returns(buffer_slurp(buf))
    BY <2>5, SlurpStep
  <2>6. CASE Replaces
    BY <2>6, ReplacesStep
  <2>7. CASE UNCHANGED bufferVars
    BY <2>7 DEF bufferVars, BufferGood, Queue!vars
  <2> QED BY <2>1, <2>2, <2>3, <2>4, <2>5, <2>6, <2>7 DEF BufferNext
<1>3. BufferGood => SizeFollows
  BY DEF BufferGood, Good, SizeFollows
<1> QED
  BY <1>1, <1>2, <1>3, PTL DEF BufferSpec, BufferIsQueue, Queue!Spec


=============================================================================
