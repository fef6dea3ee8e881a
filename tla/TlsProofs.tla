------------------------------ MODULE TlsProofs ------------------------------
(***************************************************************************)
(* What the functions of module Tls do to a connection: which fields of    *)
(* the record each leaves alone, and what it does to the others.           *)
(***************************************************************************)
EXTENDS Tls, TotalsProofs

TlsFields ==
  {"tls", "process", "faults", "active", "events", "pending", "timer", "left",
   "age", "input_size", "input", "input_buffer", "output", "output_buffer",
   "read_handler", "drain_handler", "error_handler", "timeout_handler",
   "line_too_long_handler", "hs", "in", "rbuf", "out", "sent_close", "link"}

\* A connection is a record that has the fields tls.c uses, and perhaps more.
IsConn(s) == TlsFields \subseteq DOMAIN s

\* Between s and t no field but those in F has changed.
Only(s, t, F) == DOMAIN t = DOMAIN s /\ \A f \in DOMAIN s \ F : t[f] = s[f]

\* A list of watchers of A, each at most once.
Injective(q) == \A i, j \in 1..Len(q) : q[i] = q[j] => i = j
Listed(q, A) == q \in Seq(A) /\ Injective(q)

-----------------------------------------------------------------------------
(* Records.                                                                *)

\* Nothing has changed when nothing is done.
LEMMA OnlyRefl ==
  ASSUME NEW s, NEW F
  PROVE  Only(s, s, F)
  BY DEF Only

\* Two steps change what either changes.
LEMMA OnlyTrans ==
  ASSUME NEW s, NEW t, NEW u, NEW F, NEW G, NEW H,
         Only(s, t, F), Only(t, u, G), F \subseteq H, G \subseteq H
  PROVE  Only(s, u, H)
  BY DEF Only

\* A field that may change need not.
LEMMA OnlyMore ==
  ASSUME NEW s, NEW t, NEW F, Only(s, t, F), NEW G, F \subseteq G
  PROVE  Only(s, t, G)
  BY DEF Only

\* A field that is not among those that change keeps its value.
LEMMA OnlyKeeps ==
  ASSUME NEW s, NEW t, NEW F, Only(s, t, F), NEW f \in DOMAIN s, f \notin F
  PROVE  t[f] = s[f]
  BY DEF Only

\* What is left is a connection.
LEMMA OnlyConn ==
  ASSUME NEW s, NEW t, NEW F, Only(s, t, F), IsConn(s)
  PROVE  IsConn(t) /\ DOMAIN t = DOMAIN s
  BY DEF Only, IsConn

-----------------------------------------------------------------------------
(* Lists of watchers.                                                      *)

\* The empty list.
LEMMA ListedEmpty ==
  ASSUME NEW A
  PROVE  Listed(<<>>, A)
  BY EmptySeq DEF Listed, Injective

\* There is no other list of no watchers.
LEMMA ListedNone ==
  ASSUME NEW q, Listed(q, {})
  PROVE  q = <<>>
<1>1. q \in Seq({}) /\ Len(q) \in Nat /\ DOMAIN q = 1..Len(q)
  BY LenProperties DEF Listed
<1>2. Len(q) = 0
  BY <1>1, ElementOfSeq
<1> QED
  BY <1>1, <1>2, EmptySeq

\* A list of watchers is one of more of them.
LEMMA ListedMore ==
  ASSUME NEW A, NEW B, A \subseteq B, NEW q, Listed(q, A)
  PROVE  Listed(q, B)
  BY SeqMonotonic DEF Listed

\* Adding a watcher that is not on the list.
LEMMA ListedAppend ==
  ASSUME NEW A, NEW q, Listed(q, A), NEW w \in A, w \notin Range(q)
  PROVE  Listed(Append(q, w), A) /\ w \in Range(Append(q, w))
<1>1. /\ q \in Seq(A) /\ Len(q) \in Nat /\ DOMAIN q = 1..Len(q)
      /\ \A i, j \in 1..Len(q) : q[i] = q[j] => i = j
      /\ \A i \in 1..Len(q) : q[i] # w
  BY LenProperties DEF Listed, Injective, Range
<1>2. PICK n \in Nat : n = Len(q)
  BY <1>1
<1>3. /\ Append(q, w) \in Seq(A) /\ Len(Append(q, w)) = n + 1
      /\ \A i \in 1..n : Append(q, w)[i] = q[i]
      /\ Append(q, w)[n + 1] = w
  BY <1>1, <1>2, AppendProperties
<1>4. PICK a : a = Append(q, w)
  OBVIOUS
<1>5. ASSUME NEW i \in 1..(n + 1), NEW j \in 1..(n + 1), a[i] = a[j]
      PROVE  i = j
  <2>1. CASE i \in 1..n /\ j \in 1..n
    BY <2>1, <1>1, <1>2, <1>3, <1>4, <1>5
  <2>2. CASE i = n + 1 /\ j \in 1..n
    BY <2>2, <1>1, <1>2, <1>3, <1>4, <1>5
  <2>3. CASE j = n + 1 /\ i \in 1..n
    BY <2>3, <1>1, <1>2, <1>3, <1>4, <1>5
  <2> QED
    BY <2>1, <2>2, <2>3
<1>6. Listed(a, A)
  BY <1>3, <1>4, <1>5 DEF Listed, Injective
<1>7. w \in Range(a)
  <2>1. n + 1 \in DOMAIN a /\ a[n + 1] = w
    BY <1>2, <1>3, <1>4
  <2> QED BY <2>1 DEF Range
<1> QED BY <1>4, <1>6, <1>7

\* A list without its last watcher.
LEMMA ListedFront ==
  ASSUME NEW A, NEW q, Listed(q, A), q # <<>>
  PROVE  /\ Listed(Front(q), A) /\ Last(q) \in A
         /\ Last(q) \notin Range(Front(q))
<1>1. /\ q \in Seq(A) /\ Len(q) \in Nat /\ DOMAIN q = 1..Len(q)
      /\ \A i, j \in 1..Len(q) : q[i] = q[j] => i = j
  BY LenProperties DEF Listed, Injective
<1>2. PICK n \in Nat : n = Len(q)
  BY <1>1
<1>3. n > 0
  BY <1>1, <1>2, EmptySeq
<1>4. q[n] \in A
  BY <1>1, <1>2, <1>3, ElementOfSeq
<1>5. /\ SubSeq(q, 1, n - 1) \in Seq(A)
      /\ Len(SubSeq(q, 1, n - 1)) = n - 1
      /\ \A i \in 1..(n - 1) : SubSeq(q, 1, n - 1)[i] = q[i]
  <2>1. 1 \in 1..(n + 1) /\ n - 1 \in (1 - 1)..n
    BY <1>2, <1>3
  <2>2. \A i \in 1..(n - 1) : q[i] \in A
    BY <1>1, <1>2, <1>3, ElementOfSeq
  <2> QED
    BY <2>1, <2>2, <1>1, <1>2, <1>3, SubSeqProperties
<1>6. PICK a : a = SubSeq(q, 1, n - 1)
  OBVIOUS
<1>7. Listed(a, A)
  BY <1>1, <1>2, <1>5, <1>6 DEF Listed, Injective
<1>8. DOMAIN a = 1..(n - 1)
  BY <1>5, <1>6, LenProperties
<1>9. q[n] \notin Range(a)
  BY <1>1, <1>2, <1>3, <1>5, <1>6, <1>8 DEF Range
<1> QED
  BY <1>2, <1>4, <1>6, <1>7, <1>9 DEF Front, Last

\* No list of the four watchers is longer than four.
LEMMA ListedLen ==
  ASSUME NEW A, A \subseteq IoWatchers, NEW q, Listed(q, A)
  PROVE  Len(q) <= 4
<1>1. /\ q \in Seq(A) /\ Len(q) \in Nat
      /\ \A i, j \in 1..Len(q) : q[i] = q[j] => i = j
  BY LenProperties DEF Listed, Injective
<1>2. PICK n \in Nat : n = Len(q)
  BY <1>1
<1>3. \A i \in 1..n : q[i] \in {"init", "read", "write", "shutdown"}
  BY <1>1, <1>2, ElementOfSeq DEF IoWatchers
<1>4. \A i, j \in 1..n : q[i] = q[j] => i = j
  BY <1>1, <1>2
<1>5. ASSUME n > 4 PROVE FALSE
  <2>1. 1 \in 1..n /\ 2 \in 1..n /\ 3 \in 1..n /\ 4 \in 1..n /\ 5 \in 1..n
    BY <1>5
  <2>2. /\ q[1] # q[2] /\ q[1] # q[3] /\ q[1] # q[4] /\ q[1] # q[5]
        /\ q[2] # q[3] /\ q[2] # q[4] /\ q[2] # q[5]
        /\ q[3] # q[4] /\ q[3] # q[5] /\ q[4] # q[5]
    BY <2>1, <1>4
  <2> QED
    BY <2>1, <2>2, <1>3
<1> QED
  BY <1>2, <1>5

\* The index of the first match.
LEMMA FirstIndex ==
  ASSUME NEW S, S \subseteq Nat, NEW k \in S
  PROVE  Min(S) \in S /\ \A x \in S : Min(S) <= x
<1> DEFINE P == {n \in Nat : \A x \in S : n <= x}
<1>1. \E m \in S : \A x \in S : m <= x
  <2>1. SUFFICES ASSUME \A m \in S : \E x \in S : x < m PROVE FALSE
    OBVIOUS
  <2>2. 0 \in P
    OBVIOUS
  <2>3. ASSUME NEW n \in Nat, n \in P PROVE n + 1 \in P
    <3>1. n \notin S
      BY <2>1, <2>3
    <3> QED
      BY <2>3, <3>1
  <2>4. Nat \subseteq P
    BY <2>2, <2>3, SetInduction
  <2>5. k \in Nat /\ k + 1 \in P
    BY <2>4
  <2> QED
    BY <2>5
<1> QED
  BY <1>1 DEF Min

\* Taking a watcher off the list.
LEMMA ListedRemove ==
  ASSUME NEW A, NEW q, Listed(q, A), NEW w
  PROVE  Listed(RemoveFirst(q, w), A \ {w})
<1>1. /\ q \in Seq(A) /\ Len(q) \in Nat /\ DOMAIN q = 1..Len(q)
      /\ \A i, j \in 1..Len(q) : q[i] = q[j] => i = j
      /\ \A i \in 1..Len(q) : q[i] \in A
  BY LenProperties, ElementOfSeq DEF Listed, Injective
<1>2. PICK n \in Nat : n = Len(q)
  BY <1>1
<1>3. CASE \A i \in 1..n : q[i] # w
  <2>1. RemoveFirst(q, w) = q
    BY <1>2, <1>3 DEF RemoveFirst
  <2>2. q \in Seq(A \ {w})
    BY <1>1, <1>2, <1>3, IsASeq
  <2> QED
    BY <1>1, <2>1, <2>2 DEF Listed, Injective
<1>4. CASE \E i \in 1..n : q[i] = w
  <2> DEFINE I == {i \in 1..Len(q) : q[i] = w}
  <2>1. PICK k \in 1..n : q[k] = w
    BY <1>4
  <2>2. Min(I) \in I
    <3>1. I \subseteq Nat /\ k \in I
      BY <1>2, <2>1
    <3> QED
      BY <3>1, FirstIndex
  <2>3. Min(I) = k
    BY <1>1, <1>2, <2>1, <2>2
  <2>4. SelectInSeq(q, LAMBDA v : v = w) = k
    BY <1>2, <2>1, <2>3 DEF SelectInSeq
  <2>5. RemoveFirst(q, w) = SubSeq(q, 1, k - 1) \o SubSeq(q, k + 1, n)
    BY <1>2, <2>1, <2>4 DEF RemoveFirst, RemoveAt
  <2>6. \A i \in 1..n : i # k => q[i] \in A \ {w}
    BY <1>1, <1>2, <2>1
  <2>7. PICK a : a = SubSeq(q, 1, k - 1)
    OBVIOUS
  <2>8. PICK b : b = SubSeq(q, k + 1, n)
    OBVIOUS
  <2>9. /\ a \in Seq(A \ {w}) /\ Len(a) = k - 1
        /\ \A i \in 1..(k - 1) : a[i] = q[i]
    <3>1. 1 \in 1..(n + 1) /\ k - 1 \in 0..n
      BY <2>1
    <3>2. \A i \in 1..(k - 1) : q[i] \in A \ {w}
      BY <2>1, <2>6
    <3> QED
      BY <3>1, <3>2, <1>1, <1>2, <2>1, <2>7, SubSeqProperties
  <2>10. /\ b \in Seq(A \ {w}) /\ Len(b) = n - k
         /\ \A i \in 1..(n - k) : b[i] = q[k + i]
    <3>1. k + 1 \in 1..(n + 1) /\ n \in k..n
      BY <2>1
    <3>2. \A i \in (k + 1)..n : q[i] \in A \ {w}
      BY <2>1, <2>6
    <3>3. /\ b \in Seq(A \ {w})
          /\ Len(b) = IF k + 1 <= n THEN n - (k + 1) + 1 ELSE 0
          /\ \A i \in 1..n - (k + 1) + 1 : b[i] = q[k + 1 + i - 1]
      BY <3>1, <3>2, <2>8, SubSeqProperties
    <3>4. Len(b) = n - k
      BY <3>3, <2>1
    <3>5. ASSUME NEW i \in 1..(n - k) PROVE b[i] = q[k + i]
      <4>1. i \in 1..n - (k + 1) + 1 /\ k + 1 + i - 1 = k + i
        BY <2>1
      <4> QED
        BY <4>1, <3>3
    <3> QED
      BY <3>3, <3>4, <3>5
  <2>11. PICK c : c = a \o b
    OBVIOUS
  <2>12. /\ c \in Seq(A \ {w}) /\ Len(c) = n - 1
         /\ \A i \in 1..(k - 1) : c[i] = q[i]
         /\ \A i \in k..(n - 1) : c[i] = q[i + 1]
    <3>1. /\ c \in Seq(A \ {w}) /\ Len(c) = Len(a) + Len(b)
          /\ \A i \in 1..(Len(a) + Len(b)) :
               c[i] = IF i <= Len(a) THEN a[i] ELSE b[i - Len(a)]
      BY <2>9, <2>10, <2>11, ConcatProperties
    <3>2. Len(a) + Len(b) = n - 1
      BY <2>1, <2>9, <2>10
    <3>3. ASSUME NEW i \in 1..(k - 1) PROVE c[i] = q[i]
      <4>1. i \in 1..(n - 1) /\ i <= k - 1
        BY <2>1
      <4> QED
        BY <4>1, <3>1, <3>2, <2>9
    <3>4. ASSUME NEW i \in k..(n - 1) PROVE c[i] = q[i + 1]
      <4>1. i \in 1..(n - 1) /\ ~(i <= k - 1) /\ i - (k - 1) \in 1..(n - k)
        BY <2>1
      <4>2. c[i] = b[i - (k - 1)]
        BY <4>1, <3>1, <3>2, <2>9
      <4>3. b[i - (k - 1)] = q[k + (i - (k - 1))]
        BY <4>1, <2>10
      <4> QED
        BY <4>2, <4>3, <2>1
    <3> QED
      BY <3>1, <3>2, <3>3, <3>4
  <2>13. ASSUME NEW i \in 1..(n - 1), NEW j \in 1..(n - 1), c[i] = c[j]
         PROVE  i = j
    <3>1. /\ i \in 1..(k - 1) \/ i \in k..(n - 1)
          /\ j \in 1..(k - 1) \/ j \in k..(n - 1)
      BY <2>1
    <3>2. /\ i \in 1..n /\ j \in 1..n /\ i + 1 \in 1..n /\ j + 1 \in 1..n
      BY <2>1
    <3> QED
      BY <3>1, <3>2, <2>1, <2>12, <2>13, <1>1, <1>2
  <2>14. RemoveFirst(q, w) = c
    BY <2>5, <2>7, <2>8, <2>11
  <2> QED
    BY <2>12, <2>13, <2>14 DEF Listed, Injective
<1> QED
  BY <1>3, <1>4

-----------------------------------------------------------------------------
(* The watchers.                                                           *)

\* What libev keeps of a connection: the pending watchers are active ones.
Watched(s) == IsConn(s) /\ Listed(s.pending, s.active)

\* The three fields of a connection that libev keeps for its I/O watchers.
WatchFields == {"active", "pending", "events"}

\* The watcher w waits for the event e.
SetsEvent(s, t, w, e) == t.events = [s.events EXCEPT ![w] = e]

\* ev_io_start.
LEMMA IoStart ==
  ASSUME NEW s, Watched(s), NEW w, NEW e, NEW t, t = ev_io_start(s, w, e)
  PROVE  /\ Watched(t) /\ Only(s, t, WatchFields)
         /\ t.active = s.active \cup {w}
         /\ SetsEvent(s, t, w, e)
<1>1. /\ Only(s, t, {"active", "events"})
      /\ t.active = s.active \cup {w}
      /\ SetsEvent(s, t, w, e)
  BY DEF ev_io_start, SetsEvent, Only, Watched, IsConn, TlsFields
<1>2. t.pending = s.pending
  BY <1>1 DEF Only, Watched, IsConn, TlsFields
<1>3. Listed(t.pending, t.active)
  BY <1>1, <1>2, ListedMore DEF Watched
<1>4. IsConn(t) /\ Only(s, t, WatchFields)
  BY <1>1 DEF Only, Watched, IsConn, WatchFields
<1> QED
  BY <1>1, <1>3, <1>4 DEF Watched

\* ev_io_stop: the watcher is not pending any more.
LEMMA IoStop ==
  ASSUME NEW s, Watched(s), NEW w, NEW t, t = ev_io_stop(s, w)
  PROVE  /\ Watched(t) /\ Only(s, t, {"active", "pending"})
         /\ t.active = s.active \ {w}
<1>1. /\ Only(s, t, {"active", "pending"})
      /\ t.active = s.active \ {w}
      /\ t.pending = RemoveFirst(s.pending, w)
  BY DEF ev_io_stop, ClearPending, Only, Watched, IsConn, TlsFields
<1>2. Listed(t.pending, t.active)
  BY <1>1, ListedRemove DEF Watched
<1>3. IsConn(t)
  BY <1>1 DEF Only, Watched, IsConn
<1> QED
  BY <1>1, <1>2, <1>3 DEF Watched

\* ev_feed_event, for an active watcher.
LEMMA FeedEvent ==
  ASSUME NEW s, Watched(s), NEW w \in s.active, NEW t, t = ev_feed_event(s, w)
  PROVE  Watched(t) /\ Only(s, t, {"pending"}) /\ w \in Range(t.pending)
<1>1. CASE w \in Range(s.pending)
  BY <1>1, OnlyRefl DEF ev_feed_event
<1>2. CASE w \notin Range(s.pending)
  <2>1. Only(s, t, {"pending"}) /\ t.pending = Append(s.pending, w)
    BY <1>2 DEF ev_feed_event, Only, Watched, IsConn, TlsFields
  <2>2. t.active = s.active /\ IsConn(t)
    BY <2>1 DEF Only, Watched, IsConn, TlsFields
  <2>3. Listed(t.pending, t.active) /\ w \in Range(t.pending)
    BY <1>2, <2>1, <2>2, ListedAppend DEF Watched
  <2> QED
    BY <2>1, <2>2, <2>3 DEF Watched
<1> QED
  BY <1>1, <1>2

\* A watcher that is started and fed.
LEMMA StartFed ==
  ASSUME NEW s, Watched(s), NEW w, NEW e, NEW t,
         t = ev_feed_event(ev_io_start(s, w, e), w)
  PROVE  /\ Watched(t) /\ Only(s, t, WatchFields)
         /\ t.active = s.active \cup {w}
         /\ SetsEvent(s, t, w, e)
<1>1. PICK u : u = ev_io_start(s, w, e)
  OBVIOUS
<1>2. /\ Watched(u) /\ Only(s, u, WatchFields)
      /\ u.active = s.active \cup {w}
      /\ SetsEvent(s, u, w, e)
  BY <1>1, IoStart
<1>3. Watched(t) /\ Only(u, t, {"pending"})
  BY <1>1, <1>2, FeedEvent
<1>4. Only(s, t, WatchFields)
  <2>1. {"pending"} \subseteq WatchFields
    BY DEF WatchFields
  <2> QED
    BY <2>1, <1>2, <1>3, OnlyTrans
<1>5. t.active = u.active /\ t.events = u.events
  BY <1>2, <1>3 DEF Only, Watched, IsConn, TlsFields
<1> QED
  BY <1>2, <1>3, <1>4, <1>5 DEF SetsEvent

\* Stopping a watcher if it is active.
LEMMA StopIfActiveOnly ==
  ASSUME NEW s, Watched(s), NEW w, NEW t, t = StopIfActive(s, w)
  PROVE  /\ Watched(t) /\ Only(s, t, {"active", "pending"})
         /\ t.active = s.active \ {w}
<1>1. CASE w \in s.active
  BY <1>1, IoStop DEF StopIfActive
<1>2. CASE w \notin s.active
  BY <1>2, OnlyRefl DEF StopIfActive
<1> QED
  BY <1>1, <1>2

\* Stopping the watchers of the connection leaves none active, none pending.
LEMMA StopActiveOnly ==
  ASSUME NEW s, Watched(s), NEW t, t = StopActive(s)
  PROVE  /\ Watched(t) /\ Only(s, t, {"active", "pending"})
         /\ t.active = s.active \ IoWatchers
<1>1. PICK a : a = StopIfActive(s, "init")
  OBVIOUS
<1>2. PICK b : b = StopIfActive(a, "read")
  OBVIOUS
<1>3. PICK c : c = StopIfActive(b, "write")
  OBVIOUS
<1>4. t = StopIfActive(c, "shutdown")
  BY <1>1, <1>2, <1>3 DEF StopActive
<1>5. /\ Watched(a) /\ Only(s, a, {"active", "pending"})
      /\ a.active = s.active \ {"init"}
  BY <1>1, StopIfActiveOnly
<1>6. /\ Watched(b) /\ Only(a, b, {"active", "pending"})
      /\ b.active = a.active \ {"read"}
  BY <1>2, <1>5, StopIfActiveOnly
<1>7. /\ Watched(c) /\ Only(b, c, {"active", "pending"})
      /\ c.active = b.active \ {"write"}
  BY <1>3, <1>6, StopIfActiveOnly
<1>8. /\ Watched(t) /\ Only(c, t, {"active", "pending"})
      /\ t.active = c.active \ {"shutdown"}
  BY <1>4, <1>7, StopIfActiveOnly
<1>9. Only(s, b, {"active", "pending"})
  BY <1>5, <1>6, OnlyTrans
<1>10. Only(s, c, {"active", "pending"})
  BY <1>7, <1>9, OnlyTrans
<1>11. Only(s, t, {"active", "pending"})
  BY <1>8, <1>10, OnlyTrans
<1> QED
  BY <1>5, <1>6, <1>7, <1>8, <1>11 DEF IoWatchers

\* ev_invoke_pending: the watcher that is invoked stays active.
LEMMA PopPendingOnly ==
  ASSUME NEW s, Watched(s), s.pending # <<>>, NEW t, t = PopPending(s)
  PROVE  /\ Watched(t) /\ Only(s, t, {"pending"})
         /\ Last(s.pending) \in s.active
         /\ Last(s.pending) \notin Range(t.pending)
<1>1. Only(s, t, {"pending"}) /\ t.pending = Front(s.pending)
  BY DEF PopPending, Only, Watched, IsConn, TlsFields
<1>2. t.active = s.active /\ IsConn(t)
  BY <1>1 DEF Only, Watched, IsConn, TlsFields
<1>3. /\ Listed(Front(s.pending), s.active) /\ Last(s.pending) \in s.active
      /\ Last(s.pending) \notin Range(Front(s.pending))
  BY ListedFront DEF Watched
<1> QED
  BY <1>1, <1>2, <1>3 DEF Watched

-----------------------------------------------------------------------------
(* The timer.                                                              *)

\* The timer and the clock are within their bounds.
Timed(s) ==
  /\ IsConn(s) /\ s.timer \subseteq {"armed", "due"}
  /\ s.left \in 0..Timeout /\ s.age \in 0..Timeout

\* ev_timer_start, with no more than the timeout.
LEMMA TimerStart ==
  ASSUME NEW s, IsConn(s), NEW n, NEW t, t = ev_timer_start(s, n)
  PROVE  /\ Only(s, t, {"timer", "left"})
         /\ Timed(s) /\ n \in 0..Timeout => Timed(t)
<1>1. CASE "armed" \in s.timer
  BY <1>1, OnlyRefl DEF ev_timer_start
<1>2. CASE "armed" \notin s.timer
  <2>1. /\ Only(s, t, {"timer", "left"})
        /\ t.timer = s.timer \cup {"armed"} /\ t.left = n
    BY <1>2 DEF ev_timer_start, Only, IsConn, TlsFields
  <2>2. t.age = s.age /\ IsConn(t)
    BY <2>1 DEF Only, IsConn, TlsFields
  <2> QED
    BY <2>1, <2>2 DEF Timed
<1> QED
  BY <1>1, <1>2

\* ev_timer_stop.
LEMMA TimerStop ==
  ASSUME NEW s, IsConn(s), NEW t, t = ev_timer_stop(s)
  PROVE  Only(s, t, {"timer"}) /\ (Timed(s) => Timed(t)) /\ t.timer = {}
<1>1. Only(s, t, {"timer"}) /\ t.timer = {}
  BY DEF ev_timer_stop, Only, IsConn, TlsFields
<1>2. t.age = s.age /\ t.left = s.left /\ IsConn(t)
  BY <1>1 DEF Only, IsConn, TlsFields
<1> QED
  BY <1>1, <1>2 DEF Timed

\* last_activity = ev_now().
LEMMA TouchOnly ==
  ASSUME NEW s, IsConn(s), NEW t, t = Touch(s)
  PROVE  Only(s, t, {"age"}) /\ (Timed(s) => Timed(t))
<1>1. Only(s, t, {"age"}) /\ t.age = 0
  BY DEF Touch, Only, IsConn, TlsFields
<1>2. t.timer = s.timer /\ t.left = s.left /\ IsConn(t)
  BY <1>1 DEF Only, IsConn, TlsFields
<1> QED
  BY <1>1, <1>2, TlsAssumption DEF Timed

-----------------------------------------------------------------------------
(* OpenSSL and the socket.                                                 *)

\* What is on its way in the two directions, and the handshake.
Streams(s, P) ==
  /\ IsConn(s) /\ HS \in P /\ CloseNotify \in P
  /\ s.in \in Seq(Seq(P)) /\ s.rbuf \in Seq(P)
  /\ s.out \in Seq(P) /\ Len(s.out) <= OutCapacity
  /\ s.hs \in Seq({"recv", "send"})
  /\ s.sent_close \in {"yes", "no"}

SslFields == {"hs", "in", "rbuf", "out"}

Codes == {"done", "want_read", "want_write", "zero_return", "error"}

\* What every call of the library gives.
Result(s, x, F, P) ==
  /\ x.code \in Codes /\ x.got \in Seq(P)
  /\ Only(s, x.next, F) /\ Streams(x.next, P)
  /\ x.code = "zero_return" => PeerClosed(x.next)

\* The parts of an outcome.
LEMMA OutcomeParts ==
  ASSUME NEW code, NEW got, NEW next, NEW x, x = Outcome(code, got, next)
  PROVE  x.code = code /\ x.got = got /\ x.next = next
  BY DEF Outcome

\* A sequence that is not empty, with and without its first element.
LEMMA HeadTail ==
  ASSUME NEW S, NEW q \in Seq(S), q # <<>>
  PROVE  Head(q) \in S /\ Tail(q) \in Seq(S) /\ Len(Tail(q)) = Len(q) - 1
  BY HeadTailProperties

\* One message of the handshake.
LEMMA HandshakeStepOnly ==
  ASSUME NEW P, NEW s, Streams(s, P), NEW t, t = HandshakeStep(s)
  PROVE  Streams(t, P) /\ Only(s, t, SslFields)
<1>1. /\ s.in \in Seq(Seq(P)) /\ s.out \in Seq(P)
      /\ s.hs \in Seq({"recv", "send"}) /\ IsConn(s)
      /\ HS \in P /\ CloseNotify \in P
  BY DEF Streams
<1>2. CASE t = s
  BY <1>2, OnlyRefl
<1>3. CASE /\ s.hs # <<>> /\ s.in # <<>>
           /\ t = [s EXCEPT !.in = Tail(@), !.hs = Tail(@)]
  <2>1. /\ Only(s, t, {"in", "hs"})
        /\ t.in = Tail(s.in) /\ t.hs = Tail(s.hs)
    BY <1>1, <1>3 DEF Only, IsConn, TlsFields
  <2>2. /\ t.rbuf = s.rbuf /\ t.out = s.out /\ t.sent_close = s.sent_close
        /\ IsConn(t) /\ Only(s, t, SslFields)
    BY <1>1, <2>1 DEF Only, IsConn, TlsFields, SslFields
  <2>3. t.in \in Seq(Seq(P)) /\ t.hs \in Seq({"recv", "send"})
    BY <1>1, <1>3, <2>1, HeadTail
  <2> QED
    BY <1>1, <2>2, <2>3 DEF Streams
<1>4. CASE /\ s.hs # <<>> /\ Room(s) > 0
           /\ t = [s EXCEPT !.out = Append(@, HS), !.hs = Tail(@)]
  <2>1. /\ Only(s, t, {"out", "hs"})
        /\ t.out = Append(s.out, HS) /\ t.hs = Tail(s.hs)
    BY <1>1, <1>4 DEF Only, IsConn, TlsFields
  <2>2. /\ t.rbuf = s.rbuf /\ t.in = s.in /\ t.sent_close = s.sent_close
        /\ IsConn(t) /\ Only(s, t, SslFields)
    BY <1>1, <2>1 DEF Only, IsConn, TlsFields, SslFields
  <2>3. t.hs \in Seq({"recv", "send"})
    BY <1>1, <1>4, <2>1, HeadTail
  <2>4. PICK n \in Nat : n = Len(s.out)
    BY <1>1, LenProperties
  <2>5. t.out \in Seq(P) /\ Len(t.out) = n + 1
    BY <1>1, <2>1, <2>4, AppendProperties
  <2>6. n + 1 <= OutCapacity
    BY <1>4, <2>4, TlsAssumption DEF Room
  <2> QED
    BY <1>1, <2>2, <2>3, <2>5, <2>6 DEF Streams
<1> QED
  BY <1>2, <1>3, <1>4 DEF HandshakeStep

\* As many messages of the handshake as can be exchanged.
LEMMA HandshakeOnly ==
  ASSUME NEW P, NEW s, Streams(s, P), NEW t, t = Handshake(s)
  PROVE  Streams(t, P) /\ Only(s, t, SslFields)
<1>1. PICK a : a = HandshakeStep(s)
  OBVIOUS
<1>2. PICK b : b = HandshakeStep(a)
  OBVIOUS
<1>3. t = HandshakeStep(b)
  BY <1>1, <1>2 DEF Handshake
<1>4. Streams(a, P) /\ Only(s, a, SslFields)
  BY <1>1, HandshakeStepOnly
<1>5. Streams(b, P) /\ Only(a, b, SslFields)
  BY <1>2, <1>4, HandshakeStepOnly
<1>6. Streams(t, P) /\ Only(b, t, SslFields)
  BY <1>3, <1>5, HandshakeStepOnly
<1> QED
  BY <1>4, <1>5, <1>6, OnlyTrans

\* A handshake that cannot go on.
LEMMA WantResult ==
  ASSUME NEW P, NEW s, Streams(s, P), s.hs # <<>>, NEW x, x = Want(s)
  PROVE  /\ Result(s, x, SslFields, P) /\ x.next = s /\ x.got = <<>>
         /\ x.code # "done" /\ x.code # "zero_return"
<1>1. Head(s.hs) \in {"recv", "send"}
  BY HeadTail DEF Streams
<1>2. x.next = s /\ x.got = <<>>
  BY DEF Want, Outcome
<1>3. x.code \in {"want_read", "want_write", "error"}
  BY <1>1 DEF Want, Outcome
<1> QED
  BY <1>2, <1>3, OnlyRefl, EmptySeq DEF Result, Codes

\* An outcome that is not read data.
LEMMA PlainResult ==
  ASSUME NEW P, NEW s, NEW t, Streams(t, P), NEW F, Only(s, t, F), NEW code \in Codes,
         code = "zero_return" => PeerClosed(t),
         NEW x, x = Outcome(code, <<>>, t)
  PROVE  Result(s, x, F, P) /\ x.next = t /\ x.got = <<>> /\ x.code = code
<1>1. x.next = t /\ x.got = <<>> /\ x.code = code
  BY DEF Outcome
<1> QED
  BY <1>1, EmptySeq DEF Result

\* SSL_accept and SSL_connect.
LEMMA HandshakeResult ==
  ASSUME NEW P, NEW s, Streams(s, P), NEW x, x = SSL_handshake(s)
  PROVE  Result(s, x, SslFields, P) /\ x.code # "zero_return"
<1>1. PICK h : h = Handshake(s)
  OBVIOUS
<1>2. Streams(h, P) /\ Only(s, h, SslFields)
  BY <1>1, HandshakeOnly
<1>3. x \in {Outcome("error", <<>>, s), Outcome("want_write", <<>>, s),
             Outcome("done", <<>>, h)} \/ (h.hs # <<>> /\ x = Want(h))
  BY <1>1 DEF SSL_handshake
<1>4. CASE x = Outcome("error", <<>>, s) \/ x = Outcome("want_write", <<>>, s)
  <2>1. Only(s, s, SslFields) /\ "error" \in Codes /\ "want_write" \in Codes
    BY OnlyRefl DEF Codes
  <2> QED
    BY <1>4, <2>1, PlainResult
<1>5. CASE x = Outcome("done", <<>>, h)
  <2>1. "done" \in Codes
    BY DEF Codes
  <2> QED
    BY <1>5, <2>1, <1>2, PlainResult
<1>6. CASE h.hs # <<>> /\ x = Want(h)
  BY <1>6, <1>2, WantResult DEF Result
<1> QED
  BY <1>3, <1>4, <1>5, <1>6

\* The two halves of a sequence that is cut after its n-th element.
LEMMA Cut ==
  ASSUME NEW S, NEW q \in Seq(S), NEW n \in 0..Len(q)
  PROVE  /\ SubSeq(q, 1, n) \in Seq(S) /\ Len(SubSeq(q, 1, n)) = n
         /\ \A i \in 1..n : SubSeq(q, 1, n)[i] = q[i]
         /\ SubSeq(q, n + 1, Len(q)) \in Seq(S)
         /\ Len(SubSeq(q, n + 1, Len(q))) = Len(q) - n
         /\ \A i \in 1..(Len(q) - n) : SubSeq(q, n + 1, Len(q))[i] = q[n + i]
<1>1. PICK m \in Nat : m = Len(q)
  BY LenProperties
<1>2. n \in Nat /\ n <= m
  BY <1>1
<1>3. \A i \in 1..m : q[i] \in S
  BY <1>1, ElementOfSeq
<1>4. (\A i \in 1..n : q[i] \in S) /\ (\A i \in (n + 1)..m : q[i] \in S)
  BY <1>2, <1>3
<1>5. /\ SubSeq(q, 1, n) \in Seq(S)
      /\ Len(SubSeq(q, 1, n)) = IF 1 <= n THEN n - 1 + 1 ELSE 0
      /\ \A i \in 1..n - 1 + 1 : SubSeq(q, 1, n)[i] = q[1 + i - 1]
  BY <1>2, <1>4, SubSeqProperties
<1>6. /\ SubSeq(q, n + 1, m) \in Seq(S)
      /\ Len(SubSeq(q, n + 1, m)) = IF n + 1 <= m THEN m - (n + 1) + 1 ELSE 0
      /\ \A i \in 1..m - (n + 1) + 1 : SubSeq(q, n + 1, m)[i] = q[n + 1 + i - 1]
  BY <1>2, <1>4, SubSeqProperties
<1>7. \A i \in 1..n : SubSeq(q, 1, n)[i] = q[i]
  <2> SUFFICES ASSUME NEW i \in 1..n PROVE SubSeq(q, 1, n)[i] = q[i]
    OBVIOUS
  <2>1. i \in 1..n - 1 + 1 /\ 1 + i - 1 = i
    BY <1>2
  <2> QED
    BY <2>1, <1>5
<1>8. \A i \in 1..(m - n) : SubSeq(q, n + 1, m)[i] = q[n + i]
  <2> SUFFICES ASSUME NEW i \in 1..(m - n) PROVE SubSeq(q, n + 1, m)[i] = q[n + i]
    OBVIOUS
  <2>1. i \in 1..m - (n + 1) + 1 /\ n + 1 + i - 1 = n + i
    BY <1>2
  <2> QED
    BY <2>1, <1>6
<1>9. Len(SubSeq(q, 1, n)) = n /\ Len(SubSeq(q, n + 1, m)) = m - n
  BY <1>2, <1>5, <1>6
<1> QED
  BY <1>1, <1>5, <1>6, <1>7, <1>8, <1>9

\* Data that is there is read, but never more than was asked for.
LEMMA TakeReadResult ==
  ASSUME NEW P, NEW s, Streams(s, P), NEW size \in Nat, NEW x,
         x = TakeRead(s, size)
  PROVE  /\ Result(s, x, SslFields, P) /\ x.code = "done" /\ Len(x.got) <= size
<1>1. s.rbuf \in Seq(P) /\ IsConn(s)
  BY DEF Streams
<1>2. PICK m \in Nat : m = Len(s.rbuf)
  BY <1>1, LenProperties
<1>3. PICK n \in 0..m : n = (IF size < m THEN size ELSE m)
  OBVIOUS
<1>4. n <= size
  BY <1>3
<1>5. PICK t : t = [s EXCEPT !.rbuf = SubSeq(s.rbuf, n + 1, m)]
  OBVIOUS
<1>6. x = Outcome("done", SubSeq(s.rbuf, 1, n), t)
  BY <1>2, <1>3, <1>5 DEF TakeRead
<1>7. x.code = "done" /\ x.got = SubSeq(s.rbuf, 1, n) /\ x.next = t
  BY <1>6 DEF Outcome
<1>8. Only(s, t, {"rbuf"}) /\ t.rbuf = SubSeq(s.rbuf, n + 1, m)
  BY <1>1, <1>5 DEF Only, IsConn, TlsFields
<1>9. /\ t.hs = s.hs /\ t.in = s.in /\ t.out = s.out
      /\ t.sent_close = s.sent_close /\ IsConn(t) /\ Only(s, t, SslFields)
  BY <1>1, <1>8 DEF Only, IsConn, TlsFields, SslFields
<1>10. /\ x.got \in Seq(P) /\ Len(x.got) = n /\ t.rbuf \in Seq(P)
  BY <1>1, <1>2, <1>7, <1>8, Cut
<1>11. Streams(t, P)
  BY <1>9, <1>10 DEF Streams
<1> QED
  BY <1>4, <1>7, <1>9, <1>10, <1>11 DEF Result, Codes

\* Results of a call that begins where another step has ended.
LEMMA ResultTrans ==
  ASSUME NEW P, NEW s, NEW t, NEW x, NEW F, Only(s, t, F), Result(t, x, F, P)
  PROVE  Result(s, x, F, P)
  BY OnlyTrans DEF Result

\* SSL_read.
LEMMA ReadResult ==
  ASSUME NEW P, NEW s, Streams(s, P), NEW size \in Nat, NEW x,
         x = SSL_read(s, size)
  PROVE  /\ Result(s, x, SslFields, P)
         /\ x.code = "done" => Len(x.got) <= size
<1>1. PICK h : h = Handshake(s)
  OBVIOUS
<1>2. Streams(h, P) /\ Only(s, h, SslFields)
  BY <1>1, HandshakeOnly
<1>3. PICK r : r = [h EXCEPT !.hs = <<"recv", "send", "recv">>]
  OBVIOUS
<1>4. PICK k : k = Handshake(r)
  OBVIOUS
<1>5. PICK d : d = [h EXCEPT !.rbuf = Head(h.in), !.in = Tail(@)]
  OBVIOUS
<1>6. /\ h.in \in Seq(Seq(P)) /\ IsConn(h)
  BY <1>2 DEF Streams
<1>7. Streams(k, P) /\ Only(h, k, SslFields)
  <2>1. Only(h, r, {"hs"}) /\ r.hs = <<"recv", "send", "recv">>
    BY <1>3, <1>6 DEF Only, IsConn, TlsFields
  <2>2. /\ r.rbuf = h.rbuf /\ r.in = h.in /\ r.out = h.out
        /\ r.sent_close = h.sent_close /\ IsConn(r) /\ Only(h, r, SslFields)
    BY <1>6, <2>1 DEF Only, IsConn, TlsFields, SslFields
  <2>3. r.hs \in Seq({"recv", "send"})
    BY <2>1
  <2>4. Streams(r, P)
    BY <1>2, <2>2, <2>3 DEF Streams
  <2>5. Streams(k, P) /\ Only(r, k, SslFields)
    BY <1>4, <2>4, HandshakeOnly
  <2> QED
    BY <2>2, <2>5, OnlyTrans
<1>8. ASSUME h.in # <<>>
      PROVE  Streams(d, P) /\ Only(h, d, SslFields)
  <2>1. Only(h, d, {"rbuf", "in"}) /\ d.rbuf = Head(h.in) /\ d.in = Tail(h.in)
    BY <1>5, <1>6 DEF Only, IsConn, TlsFields
  <2>2. /\ d.hs = h.hs /\ d.out = h.out
        /\ d.sent_close = h.sent_close /\ IsConn(d) /\ Only(h, d, SslFields)
    BY <1>6, <2>1 DEF Only, IsConn, TlsFields, SslFields
  <2>3. d.rbuf \in Seq(P) /\ d.in \in Seq(Seq(P))
    BY <1>6, <1>8, <2>1, HeadTail
  <2> QED
    BY <1>2, <1>8, <2>1, <2>2, <2>3 DEF Streams
<1>9. \/ x = Outcome("error", <<>>, s)
      \/ h.hs # <<>> /\ x = Want(h)
      \/ x = TakeRead(h, size)
      \/ x = Outcome("want_read", <<>>, h)
      \/ PeerClosed(h) /\ x = Outcome("zero_return", <<>>, h)
      \/ h.in # <<>> /\ x = TakeRead(d, size)
      \/ k.hs # <<>> /\ x = Want(k)
      \/ x = Outcome("want_read", <<>>, k)
  BY <1>1, <1>3, <1>4, <1>5, Zenon DEF SSL_read
<1>10. "error" \in Codes /\ "want_read" \in Codes /\ "zero_return" \in Codes
  BY DEF Codes
<1>11. "error" # "done" /\ "want_read" # "done" /\ "zero_return" # "done"
  OBVIOUS
<1>12. Only(s, k, SslFields) /\ Only(s, s, SslFields)
  BY <1>2, <1>7, OnlyTrans, OnlyRefl
<1>13. CASE x = Outcome("error", <<>>, s)
  BY <1>13, <1>10, <1>11, <1>12, PlainResult
<1>14. CASE h.hs # <<>> /\ x = Want(h)
  BY <1>14, <1>2, WantResult, ResultTrans
<1>15. CASE x = TakeRead(h, size)
  BY <1>15, <1>2, TakeReadResult, ResultTrans
<1>16. CASE x = Outcome("want_read", <<>>, h)
  BY <1>16, <1>10, <1>11, <1>2, PlainResult
<1>20. CASE PeerClosed(h) /\ x = Outcome("zero_return", <<>>, h)
  <2>1. "zero_return" = "zero_return" => PeerClosed(h)
    BY <1>20
  <2>2. Result(s, x, SslFields, P) /\ x.code = "zero_return"
    BY <1>20, <1>10, <1>2, <2>1, PlainResult
  <2> QED
    BY <2>2, <1>11
<1>17. CASE h.in # <<>> /\ x = TakeRead(d, size)
  <2>1. Only(s, d, SslFields)
    BY <1>17, <1>2, <1>8, OnlyTrans
  <2> QED
    BY <1>17, <2>1, <1>8, TakeReadResult, ResultTrans
<1>18. CASE k.hs # <<>> /\ x = Want(k)
  BY <1>18, <1>12, <1>7, WantResult, ResultTrans
<1>19. CASE x = Outcome("want_read", <<>>, k)
  BY <1>19, <1>10, <1>11, <1>12, <1>7, PlainResult
<1> QED
  BY <1>9, <1>13, <1>14, <1>15, <1>16, <1>17, <1>18, <1>19, <1>20

\* SSL_write: a part of the data, as large as there is room for.
LEMMA WriteResult ==
  ASSUME NEW P, NEW s, Streams(s, P), NEW data \in Seq(P), NEW x,
         x = SSL_write(s, data)
  PROVE  /\ Result(s, x, SslFields, P) /\ x.code # "zero_return"
         /\ \E n \in 0..Len(data) : x.got = SubSeq(data, 1, n) /\ Len(x.got) = n
<1>1. PICK h : h = Handshake(s)
  OBVIOUS
<1>2. Streams(h, P) /\ Only(s, h, SslFields)
  BY <1>1, HandshakeOnly
<1>3. h.out \in Seq(P) /\ IsConn(h) /\ Len(h.out) <= OutCapacity
  BY <1>2 DEF Streams
<1>4. PICK m \in Nat : m = Len(data)
  BY LenProperties
<1>5. PICK o \in Nat : o = Len(h.out)
  BY <1>3, LenProperties
<1>6. OutCapacity \in Nat /\ o <= OutCapacity
  BY <1>3, <1>5, TlsAssumption
<1>7. Room(h) = OutCapacity - o
  BY <1>5 DEF Room
<1>8. PICK n \in 0..m : n = (IF OutCapacity - o < m THEN OutCapacity - o ELSE m)
  <2>1. PICK r \in Nat : r = OutCapacity - o
    BY <1>6
  <2>2. (IF r < m THEN r ELSE m) \in 0..m
    BY <2>1
  <2> QED
    BY <2>1, <2>2
<1>9. o + n <= OutCapacity
  BY <1>6, <1>8
<1>10. PICK w : w = SubSeq(data, 1, n)
  OBVIOUS
<1>11. w \in Seq(P) /\ Len(w) = n
  BY <1>4, <1>10, Cut
<1>12. PICK t : t = [h EXCEPT !.out = @ \o w]
  OBVIOUS
<1>13. Streams(t, P) /\ Only(h, t, SslFields)
  <2>1. Only(h, t, {"out"}) /\ t.out = h.out \o w
    BY <1>3, <1>12 DEF Only, IsConn, TlsFields
  <2>2. /\ t.hs = h.hs /\ t.in = h.in /\ t.rbuf = h.rbuf
        /\ t.sent_close = h.sent_close /\ IsConn(t) /\ Only(h, t, SslFields)
    BY <1>3, <2>1 DEF Only, IsConn, TlsFields, SslFields
  <2>3. t.out \in Seq(P) /\ Len(t.out) = o + n
    BY <1>3, <1>5, <1>11, <2>1, ConcatProperties
  <2> QED
    BY <1>2, <1>9, <2>2, <2>3 DEF Streams
<1>14. \/ x = Outcome("error", <<>>, s)
       \/ h.hs # <<>> /\ x = Want(h)
       \/ x = Outcome("want_write", <<>>, h)
       \/ x = Outcome("done", w, t)
  BY <1>1, <1>4, <1>7, <1>8, <1>10, <1>12, Zenon DEF SSL_write
<1>15. /\ "error" \in Codes /\ "want_write" \in Codes /\ "done" \in Codes
  BY DEF Codes
<1>16. Only(s, s, SslFields) /\ Only(s, t, SslFields)
  BY <1>2, <1>13, OnlyTrans, OnlyRefl
<1>17. ASSUME x.got = <<>>
       PROVE  \E i \in 0..Len(data) : x.got = SubSeq(data, 1, i) /\ Len(x.got) = i
  <2>1. SubSeq(data, 1, 0) \in Seq(P) /\ Len(SubSeq(data, 1, 0)) = 0
    BY <1>4, Cut
  <2>2. SubSeq(data, 1, 0) = <<>> /\ Len(<<>>) = 0
    BY <2>1, EmptySeq
  <2>3. 0 \in 0..Len(data)
    BY <1>4
  <2> QED
    BY <1>17, <2>2, <2>3
<1>18. CASE x = Outcome("error", <<>>, s)
  <2>1. Result(s, x, SslFields, P) /\ x.got = <<>> /\ x.code # "zero_return"
    BY <1>18, <1>15, <1>16, PlainResult
  <2> QED
    BY <2>1, <1>17
<1>19. CASE h.hs # <<>> /\ x = Want(h)
  <2>1. Result(s, x, SslFields, P) /\ x.got = <<>> /\ x.code # "zero_return"
    BY <1>19, <1>2, WantResult, ResultTrans
  <2> QED
    BY <2>1, <1>17
<1>20. CASE x = Outcome("want_write", <<>>, h)
  <2>1. Result(s, x, SslFields, P) /\ x.got = <<>> /\ x.code # "zero_return"
    BY <1>20, <1>15, <1>2, PlainResult
  <2> QED
    BY <2>1, <1>17
<1>21. CASE x = Outcome("done", w, t)
  <2>1. x.code = "done" /\ x.got = w /\ x.next = t
    BY <1>21 DEF Outcome
  <2> QED
    BY <2>1, <1>4, <1>10, <1>11, <1>13, <1>15, <1>16 DEF Result
<1> QED
  BY <1>14, <1>18, <1>19, <1>20, <1>21

\* SSL_shutdown: the alert is sent once, when there is room for it.
LEMMA ShutdownResult ==
  ASSUME NEW P, NEW s, Streams(s, P), NEW x, x = SSL_shutdown(s)
  PROVE  Result(s, x, {"out", "sent_close"}, P) /\ x.code # "zero_return"
<1>1. /\ IsConn(s) /\ s.out \in Seq(P) /\ Len(s.out) <= OutCapacity
      /\ s.sent_close \in {"yes", "no"} /\ CloseNotify \in P
  BY DEF Streams
<1>2. PICK t : t = [s EXCEPT !.out = Append(@, CloseNotify), !.sent_close = "yes"]
  OBVIOUS
<1>3. PICK c : c = (IF s.sent_close = "yes" THEN s ELSE t)
  OBVIOUS
<1>4. \/ x = Outcome("error", <<>>, s)
      \/ x = Outcome("want_write", <<>>, s)
      \/ /\ s.sent_close = "yes" \/ Room(s) # 0
         /\ \/ x = Outcome("error", <<>>, c) \/ x = Outcome("want_read", <<>>, c)
            \/ x = Outcome("done", <<>>, c)
  BY <1>1, <1>2, <1>3 DEF SSL_shutdown
<1>5. ASSUME s.sent_close = "yes" \/ Room(s) # 0
      PROVE  Streams(c, P) /\ Only(s, c, {"out", "sent_close"})
  <2>1. CASE s.sent_close = "yes"
    BY <2>1, <1>3, OnlyRefl
  <2>2. CASE Room(s) # 0 /\ c = t
    <3>1. /\ Only(s, t, {"out", "sent_close"})
          /\ t.out = Append(s.out, CloseNotify) /\ t.sent_close = "yes"
      BY <1>1, <1>2 DEF Only, IsConn, TlsFields
    <3>2. t.hs = s.hs /\ t.in = s.in /\ t.rbuf = s.rbuf /\ IsConn(t)
      BY <1>1, <3>1 DEF Only, IsConn, TlsFields
    <3>3. PICK n \in Nat : n = Len(s.out)
      BY <1>1, LenProperties
    <3>4. t.out \in Seq(P) /\ Len(t.out) = n + 1
      BY <1>1, <3>1, <3>3, AppendProperties
    <3>5. n + 1 <= OutCapacity
      BY <1>1, <2>2, <3>3, TlsAssumption DEF Room
    <3> QED
      BY <2>2, <3>1, <3>2, <3>4, <3>5 DEF Streams
  <2> QED
    BY <1>3, <1>5, <2>1, <2>2
<1>6. /\ "error" \in Codes /\ "want_write" \in Codes /\ "done" \in Codes
      /\ "want_read" \in Codes /\ Only(s, s, {"out", "sent_close"})
  BY OnlyRefl DEF Codes
<1>7. CASE x = Outcome("error", <<>>, s) \/ x = Outcome("want_write", <<>>, s)
  BY <1>7, <1>6, PlainResult
<1>8. CASE /\ s.sent_close = "yes" \/ Room(s) # 0
           /\ \/ x = Outcome("error", <<>>, c) \/ x = Outcome("want_read", <<>>, c)
              \/ x = Outcome("done", <<>>, c)
  BY <1>8, <1>5, <1>6, PlainResult
<1> QED
  BY <1>4, <1>7, <1>8

-----------------------------------------------------------------------------
(* The data of a connection, and what keeps it sound.                      *)

\* The buffers: a line that is read in parts is never too long, and of a
\* request for data less has been read than was asked for.
Buffered(s, P) ==
  /\ IsConn(s)
  /\ s.output \in Seq(P) /\ s.output_buffer \in Seq(P)
  /\ s.input \in Seq(P) /\ s.input_buffer \in Seq(P)
  /\ Len(s.input_buffer) <= LINE_MAX_SIZE
  /\ s.input_size \in Nat
  /\ s.input_size = 0 => s.input = <<>>
  /\ s.input_size > 0 => Len(s.input) < s.input_size

\* The events the watchers W wait for.
Eventful(s, W) == IsConn(s) /\ s.events \in [W -> {"r", "w"}]

\* The data of a connection has the types and the bounds it is to have.
Sound(s, P, W) ==
  Streams(s, P) /\ Timed(s) /\ Buffered(s, P) /\ Eventful(s, W)

SoundFields ==
  {"in", "rbuf", "out", "hs", "sent_close", "timer", "left", "age", "output",
   "output_buffer", "input", "input_buffer", "input_size", "events"}

\* The data stays sound when none of it changes.
LEMMA SoundKept ==
  ASSUME NEW P, NEW W, NEW s, NEW t, NEW F, Only(s, t, F), Sound(s, P, W),
         F \cap SoundFields = {}
  PROVE  Sound(t, P, W)
<1>1. IsConn(s)
  BY DEF Sound, Streams
<1>2. IsConn(t)
  BY <1>1, OnlyConn
<1>3. \A f \in SoundFields : t[f] = s[f]
  <2>1. SoundFields \subseteq DOMAIN s
    BY <1>1 DEF IsConn, TlsFields, SoundFields
  <2> QED
    BY <2>1, OnlyKeeps
<1>4. /\ t.in = s.in /\ t.rbuf = s.rbuf /\ t.out = s.out /\ t.hs = s.hs
      /\ t.sent_close = s.sent_close /\ t.timer = s.timer /\ t.left = s.left
      /\ t.age = s.age /\ t.output = s.output
      /\ t.output_buffer = s.output_buffer /\ t.input = s.input
      /\ t.input_buffer = s.input_buffer /\ t.input_size = s.input_size
      /\ t.events = s.events
  BY <1>3 DEF SoundFields
<1>5. Streams(t, P)
  BY <1>2, <1>4 DEF Sound, Streams
<1>6. Timed(t)
  BY <1>2, <1>4 DEF Sound, Timed
<1>7. Buffered(t, P)
  BY <1>2, <1>4 DEF Sound, Buffered
<1>8. Eventful(t, W)
  BY <1>2, <1>4 DEF Sound, Eventful
<1> QED
  BY <1>5, <1>6, <1>7, <1>8 DEF Sound

\* The parts stay as they are when their fields do.
LEMMA StreamsKept ==
  ASSUME NEW P, NEW s, NEW t, NEW F, Only(s, t, F), Streams(s, P),
         F \cap {"in", "rbuf", "out", "hs", "sent_close"} = {}
  PROVE  Streams(t, P)
<1>1. IsConn(s)
  BY DEF Streams
<1>2. /\ t.in = s.in /\ t.rbuf = s.rbuf /\ t.out = s.out /\ t.hs = s.hs
      /\ t.sent_close = s.sent_close /\ IsConn(t)
  BY <1>1 DEF Only, IsConn, TlsFields
<1> QED
  BY <1>2 DEF Streams

\* The timer of a connection stays as it is when its fields do.
LEMMA TimedKept ==
  ASSUME NEW s, NEW t, NEW F, Only(s, t, F), Timed(s),
         F \cap {"timer", "left", "age"} = {}
  PROVE  Timed(t)
<1>1. IsConn(s)
  BY DEF Timed
<1>2. t.timer = s.timer /\ t.left = s.left /\ t.age = s.age /\ IsConn(t)
  BY <1>1 DEF Only, IsConn, TlsFields
<1> QED
  BY <1>2 DEF Timed

BufferFields ==
  {"output", "output_buffer", "input", "input_buffer", "input_size"}

\* So do the input and output buffers.
LEMMA BufferedKept ==
  ASSUME NEW P, NEW s, NEW t, NEW F, Only(s, t, F), Buffered(s, P),
         F \cap BufferFields = {}
  PROVE  Buffered(t, P)
<1>1. IsConn(s)
  BY DEF Buffered
<1>2. /\ t.output = s.output /\ t.output_buffer = s.output_buffer
      /\ t.input = s.input /\ t.input_buffer = s.input_buffer
      /\ t.input_size = s.input_size /\ IsConn(t)
  BY <1>1 DEF Only, IsConn, TlsFields, BufferFields
<1> QED
  BY <1>2 DEF Buffered

\* So do the events that the watchers wait for.
LEMMA EventfulKept ==
  ASSUME NEW W, NEW s, NEW t, NEW F, Only(s, t, F), Eventful(s, W),
         "events" \notin F
  PROVE  Eventful(t, W)
<1>1. IsConn(s)
  BY DEF Eventful
<1>2. t.events = s.events /\ IsConn(t)
  BY <1>1 DEF Only, IsConn, TlsFields
<1> QED
  BY <1>2 DEF Eventful

\* A call of the library keeps the data sound.
LEMMA SoundCall ==
  ASSUME NEW P, NEW W, NEW s, Sound(s, P, W), NEW x, NEW F, Result(s, x, F, P),
         F = SslFields \/ F = {"out", "sent_close"}
  PROVE  Sound(x.next, P, W)
<1>1. Only(s, x.next, F) /\ Streams(x.next, P)
  BY DEF Result
<1>2. F \subseteq {"hs", "in", "rbuf", "out", "sent_close"}
  BY DEF SslFields
<1>3. Timed(x.next)
  BY <1>1, <1>2, TimedKept DEF Sound
<1>4. Buffered(x.next, P)
  BY <1>1, <1>2, BufferedKept DEF Sound, BufferFields
<1>5. Eventful(x.next, W)
  BY <1>1, <1>2, EventfulKept DEF Sound
<1> QED
  BY <1>1, <1>3, <1>4, <1>5 DEF Sound

\* Starting a watcher keeps the data sound.
LEMMA SoundStart ==
  ASSUME NEW P, NEW W, NEW s, Sound(s, P, W), NEW t, Only(s, t, WatchFields),
         NEW w, NEW e \in {"r", "w"}, SetsEvent(s, t, w, e)
  PROVE  Sound(t, P, W)
<1>1. IsConn(t)
  BY OnlyConn DEF Sound, Streams
<1>2. t.events \in [W -> {"r", "w"}]
  BY DEF Sound, Eventful, SetsEvent
<1>3. Streams(t, P) /\ Timed(t)
  BY StreamsKept, TimedKept DEF Sound, WatchFields
<1>4. Buffered(t, P)
  BY BufferedKept DEF Sound, WatchFields, BufferFields
<1> QED
  BY <1>1, <1>2, <1>3, <1>4 DEF Sound, Eventful

-----------------------------------------------------------------------------
(* The exported functions.                                                 *)

\* tls_free, of a connection that has not been freed: no watcher of tls.c is
\* left on libev's lists.
LEMMA FreeOnly ==
  ASSUME NEW P, NEW W, NEW s, Watched(s), Sound(s, P, W), s.tls # "freed",
         NEW t, t = tls_free(s)
  PROVE  /\ Watched(t) /\ Sound(t, P, W)
         /\ Only(s, t, {"active", "pending", "timer", "tls"})
         /\ \A w : w \in t.active <=> w \in s.active /\ w \notin IoWatchers
         /\ t.tls = "freed"
<1>1. PICK a : a = StopActive(s)
  OBVIOUS
<1>2. /\ Watched(a) /\ Only(s, a, {"active", "pending"})
      /\ a.active = s.active \ IoWatchers
  BY <1>1, StopActiveOnly
<1>3. IsConn(a) /\ Sound(a, P, W)
  BY <1>2, SoundKept DEF Watched, SoundFields
<1>4. PICK b : b = (IF "armed" \in s.timer THEN ev_timer_stop(a) ELSE a)
  OBVIOUS
<1>5. Only(a, b, {"timer"}) /\ Timed(b)
  BY <1>3, <1>4, TimerStop, OnlyRefl DEF Sound
<1>6. t = [b EXCEPT !.tls = "freed"]
  BY <1>1, <1>4 DEF tls_free
<1>7. IsConn(b)
  BY <1>3, <1>5, OnlyConn
<1>8. Only(b, t, {"tls"}) /\ t.tls = "freed"
  BY <1>6, <1>7 DEF Only, IsConn, TlsFields
<1>9. Only(a, t, {"timer", "tls"})
  BY <1>5, <1>8, OnlyTrans
<1>10. Only(s, t, {"active", "pending", "timer", "tls"})
  BY <1>2, <1>9, OnlyTrans
<1>11. t.active = a.active /\ t.pending = a.pending /\ IsConn(t)
  BY <1>3, <1>9 DEF Only, IsConn, TlsFields
<1>12. Watched(t)
  BY <1>2, <1>11 DEF Watched
<1>13. Timed(t)
  BY <1>5, <1>8, TimedKept
<1>14. Streams(t, P) /\ Buffered(t, P) /\ Eventful(t, W)
  BY <1>3, <1>9, StreamsKept, BufferedKept, EventfulKept DEF Sound, BufferFields
<1> QED
  BY <1>2, <1>8, <1>10, <1>11, <1>12, <1>13, <1>14 DEF Sound

\* A watcher that is started and fed, with sound data.
LEMMA StartFedSound ==
  ASSUME NEW P, NEW W, NEW s, Watched(s), Sound(s, P, W), NEW w,
         NEW e \in {"r", "w"}, NEW t, t = ev_feed_event(ev_io_start(s, w, e), w)
  PROVE  /\ Watched(t) /\ Sound(t, P, W) /\ Only(s, t, WatchFields)
         /\ t.active = s.active \cup {w}
<1>1. /\ Watched(t) /\ Only(s, t, WatchFields)
      /\ t.active = s.active \cup {w}
      /\ SetsEvent(s, t, w, e)
  BY StartFed
<1> QED
  BY <1>1, SoundStart

\* tls_read, when no other request is in progress.
LEMMA ReadOnly ==
  ASSUME NEW P, NEW W, NEW s, Watched(s), Sound(s, P, W), "read" \notin s.active,
         s.input = <<>>, NEW handler, NEW size \in Nat, NEW t,
         t = tls_read(s, handler, size)
  PROVE  /\ Watched(t) /\ Sound(t, P, W)
         /\ Only(s, t, {"read_handler", "input_size", "active", "pending", "events"})
         /\ t.active = s.active \cup {"read"}
         /\ t.read_handler = handler /\ t.input_size = size
<1>1. PICK a : a = [s EXCEPT !.read_handler = handler, !.input_size = size]
  OBVIOUS
<1>2. IsConn(s)
  BY DEF Watched
<1>3. /\ Only(s, a, {"read_handler", "input_size"})
      /\ a.read_handler = handler /\ a.input_size = size
  BY <1>1, <1>2 DEF Only, IsConn, TlsFields
<1>4. /\ a.active = s.active /\ a.pending = s.pending /\ IsConn(a)
      /\ a.output = s.output /\ a.output_buffer = s.output_buffer
      /\ a.input = s.input /\ a.input_buffer = s.input_buffer
  BY <1>2, <1>3 DEF Only, IsConn, TlsFields
<1>5. Watched(a)
  BY <1>4 DEF Watched
<1>6. Buffered(a, P)
  <2>1. Len(<<>>) = 0
    BY EmptySeq
  <2> QED
    BY <1>3, <1>4, <2>1 DEF Sound, Buffered
<1>7. Streams(a, P) /\ Timed(a) /\ Eventful(a, W)
  BY <1>3, StreamsKept, TimedKept, EventfulKept DEF Sound
<1>8. t = ev_feed_event(ev_io_start(a, "read", "r"), "read")
  BY <1>1 DEF tls_read
<1>9. /\ Watched(t) /\ Sound(t, P, W) /\ Only(a, t, WatchFields)
      /\ t.active = a.active \cup {"read"}
  BY <1>5, <1>6, <1>7, <1>8, StartFedSound DEF Sound
<1>10. Only(s, t, {"read_handler", "input_size", "active", "pending", "events"})
  BY <1>3, <1>9, OnlyTrans DEF WatchFields
<1>11. t.read_handler = a.read_handler /\ t.input_size = a.input_size
  BY <1>4, <1>9 DEF Only, IsConn, TlsFields, WatchFields
<1> QED
  BY <1>3, <1>4, <1>9, <1>10, <1>11

\* The write watcher is active once there is something to write.
LEMMA StartWritingOnly ==
  ASSUME NEW P, NEW W, NEW s, Watched(s), Sound(s, P, W), NEW t,
         t = StartWriting(s)
  PROVE  /\ Watched(t) /\ Sound(t, P, W) /\ Only(s, t, WatchFields)
         /\ t.active = s.active \cup {"write"}
<1>1. CASE "write" \in s.active
  BY <1>1, OnlyRefl DEF StartWriting
<1>2. CASE "write" \notin s.active
  BY <1>2, StartFedSound DEF StartWriting
<1> QED
  BY <1>1, <1>2

\* What is written is added to the buffer.
LEMMA WriteBufferedOnly ==
  ASSUME NEW P, NEW W, NEW s, Watched(s), Sound(s, P, W), NEW data \in Seq(P),
         NEW t, t = write_buffered(s, data)
  PROVE  /\ Watched(t) /\ Sound(t, P, W)
         /\ Only(s, t, {"output_buffer", "active", "pending", "events"})
         /\ t.active = s.active \cup {"write"}
         /\ t.output_buffer = s.output_buffer \o data
<1>1. PICK a : a = [s EXCEPT !.output_buffer = @ \o data]
  OBVIOUS
<1>2. IsConn(s)
  BY DEF Watched
<1>3. /\ Only(s, a, {"output_buffer"}) /\ a.output_buffer = s.output_buffer \o data
  BY <1>1, <1>2 DEF Only, IsConn, TlsFields
<1>4. /\ a.active = s.active /\ a.pending = s.pending /\ IsConn(a)
      /\ a.output = s.output /\ a.input = s.input
      /\ a.input_buffer = s.input_buffer /\ a.input_size = s.input_size
  BY <1>2, <1>3 DEF Only, IsConn, TlsFields
<1>5. Watched(a)
  BY <1>4 DEF Watched
<1>6. a.output_buffer \in Seq(P)
  BY <1>3, ConcatProperties DEF Sound, Buffered
<1>7. Buffered(a, P)
  BY <1>4, <1>6 DEF Sound, Buffered
<1>8. Streams(a, P) /\ Timed(a) /\ Eventful(a, W)
  BY <1>3, StreamsKept, TimedKept, EventfulKept DEF Sound
<1>9. t = StartWriting(a)
  BY <1>1 DEF write_buffered
<1>10. /\ Watched(t) /\ Sound(t, P, W) /\ Only(a, t, WatchFields)
       /\ t.active = a.active \cup {"write"}
  BY <1>5, <1>7, <1>8, <1>9, StartWritingOnly DEF Sound
<1>11. Only(s, t, {"output_buffer", "active", "pending", "events"})
  BY <1>3, <1>10, OnlyTrans DEF WatchFields
<1>12. t.output_buffer = a.output_buffer
  BY <1>4, <1>10 DEF Only, IsConn, TlsFields, WatchFields
<1> QED
  BY <1>3, <1>4, <1>10, <1>11, <1>12

\* One sequence after the other; the provers do not look into it.
Cat(x, y) == x \o y

\* Parentheses do not matter.
LEMMA CatAssoc ==
  ASSUME NEW S
  PROVE  \A x, y, z \in Seq(S) : /\ Cat(Cat(x, y), z) = Cat(x, Cat(y, z))
                                 /\ Cat(x, y) \in Seq(S)
<1> TAKE x, y, z \in Seq(S)
<1>1. (x \o y) \o z = x \o (y \o z)
  BY ConcatAssociative
<1>2. x \o y \in Seq(S)
  BY ConcatProperties
<1> QED
  BY <1>1, <1>2, Zenon DEF Cat

\* Nothing is added by the empty sequence.
LEMMA CatEmpty ==
  ASSUME NEW S
  PROVE  \A x \in Seq(S) : Cat(x, <<>>) = x /\ Cat(<<>>, x) = x
<1> TAKE x \in Seq(S)
<1>1. x \o <<>> = x /\ <<>> \o x = x
  BY ConcatEmptySeq
<1> QED
  BY <1>1, Zenon DEF Cat

\* write_buffered: what is queued comes after all that was queued before.
LEMMA WriteBufferedCat ==
  ASSUME NEW P, NEW W, NEW s, Watched(s), Sound(s, P, W), NEW data \in Seq(P),
         NEW t, t = write_buffered(s, data)
  PROVE  /\ Watched(t) /\ Sound(t, P, W)
         /\ Only(s, t, {"output", "output_buffer", "active", "pending", "events"})
         /\ t.active = s.active \cup {"write"}
         /\ Cat(t.output, t.output_buffer) = Cat(Cat(s.output, s.output_buffer), data)
<1>1. /\ Watched(t) /\ Sound(t, P, W)
      /\ Only(s, t, {"output_buffer", "active", "pending", "events"})
      /\ t.active = s.active \cup {"write"}
      /\ t.output_buffer = Cat(s.output_buffer, data)
  BY WriteBufferedOnly DEF Cat
<1>2. Only(s, t, {"output", "output_buffer", "active", "pending", "events"})
  BY <1>1, OnlyMore
<1>3. t.output = s.output
  BY <1>1 DEF Only, Watched, IsConn, TlsFields
<1>4. s.output \in Seq(P) /\ s.output_buffer \in Seq(P)
  BY DEF Sound, Buffered
<1>5. Cat(s.output, Cat(s.output_buffer, data)) = Cat(Cat(s.output, s.output_buffer), data)
  <2>1. \A x, y, z \in Seq(P) : Cat(Cat(x, y), z) = Cat(x, Cat(y, z))
    BY CatAssoc
  <2> QED BY <1>4, <2>1
<1> QED
  BY <1>1, <1>2, <1>3, <1>5

\* tls_write: the data is taken over, or added to the buffer.
LEMMA WriteOnly ==
  ASSUME NEW P, NEW W, NEW s, Watched(s), Sound(s, P, W), NEW data \in Seq(P),
         NEW t, t = tls_write(s, data)
  PROVE  /\ Watched(t) /\ Sound(t, P, W)
         /\ Only(s, t, {"output", "output_buffer", "active", "pending", "events"})
         /\ t.active = s.active \cup {"write"}
         /\ Cat(t.output, t.output_buffer) = Cat(Cat(s.output, s.output_buffer), data)
<1>0. s.output \in Seq(P) /\ s.output_buffer \in Seq(P)
  BY DEF Sound, Buffered
<1>1. CASE s.output = <<>> /\ s.output_buffer = <<>>
  <2>1. PICK a : a = [s EXCEPT !.output = data]
    OBVIOUS
  <2>2. IsConn(s)
    BY DEF Watched
  <2>3. Only(s, a, {"output"}) /\ a.output = data
    BY <2>1, <2>2 DEF Only, IsConn, TlsFields
  <2>4. /\ a.active = s.active /\ a.pending = s.pending /\ IsConn(a)
        /\ a.output_buffer = s.output_buffer /\ a.input = s.input
        /\ a.input_buffer = s.input_buffer /\ a.input_size = s.input_size
    BY <2>2, <2>3 DEF Only, IsConn, TlsFields
  <2>5. Watched(a)
    BY <2>4 DEF Watched
  <2>6. Buffered(a, P)
    BY <2>3, <2>4 DEF Sound, Buffered
  <2>7. Streams(a, P) /\ Timed(a) /\ Eventful(a, W)
    BY <2>3, StreamsKept, TimedKept, EventfulKept DEF Sound
  <2>8. t = StartWriting(a)
    BY <1>1, <2>1 DEF tls_write
  <2>9. /\ Watched(t) /\ Sound(t, P, W) /\ Only(a, t, WatchFields)
        /\ t.active = a.active \cup {"write"}
    BY <2>5, <2>6, <2>7, <2>8, StartWritingOnly DEF Sound
  <2>10. Only(s, t, {"output", "output_buffer", "active", "pending", "events"})
    BY <2>3, <2>9, OnlyTrans DEF WatchFields
  <2>11. t.output = data /\ t.output_buffer = <<>>
    BY <1>1, <2>3, <2>4, <2>9 DEF Only, IsConn, TlsFields, WatchFields
  <2>12. Cat(data, <<>>) = data /\ Cat(Cat(<<>>, <<>>), data) = data
    <3>1. \A x \in Seq(P) : Cat(x, <<>>) = x /\ Cat(<<>>, x) = x
      BY CatEmpty
    <3>2. <<>> \in Seq(P)
      BY EmptySeq
    <3> QED BY <3>1, <3>2
  <2>13. Cat(t.output, t.output_buffer) = data
    BY <2>11, <2>12
  <2>14. Cat(Cat(s.output, s.output_buffer), data) = data
    BY <1>1, <2>12
  <2> QED
    BY <2>4, <2>9, <2>10, <2>13, <2>14
<1>2. CASE ~(s.output = <<>> /\ s.output_buffer = <<>>)
  <2>1. t = write_buffered(s, data)
    BY <1>2 DEF tls_write
  <2> QED
    BY <2>1, WriteBufferedCat
<1> QED
  BY <1>1, <1>2

ShutdownFields ==
  {"error_handler", "timeout_handler", "drain_handler", "active", "pending", "events"}

\* tls_shutdown: the handlers are the library's own again, and the shutdown
\* begins when nothing is left to write.
LEMMA ShutdownOnly ==
  ASSUME NEW P, NEW W, NEW s, Watched(s), Sound(s, P, W), NEW t,
         t = tls_shutdown(s)
  PROVE  /\ Watched(t) /\ Sound(t, P, W) /\ Only(s, t, ShutdownFields)
         /\ t.active = IF "write" \in s.active THEN s.active
                       ELSE s.active \cup {"shutdown"}
         /\ t.error_handler = "NULL"
         /\ t.timeout_handler = "default_timeout_handler"
         /\ t.drain_handler = "start_shutdown"
<1>1. PICK a : a = [s EXCEPT !.error_handler = "NULL",
                             !.timeout_handler = "default_timeout_handler"]
  OBVIOUS
<1>2. PICK b : b = [a EXCEPT !.drain_handler = "start_shutdown"]
  OBVIOUS
<1>3. IsConn(s)
  BY DEF Watched
<1>4. /\ Only(s, a, {"error_handler", "timeout_handler"})
      /\ a.error_handler = "NULL"
      /\ a.timeout_handler = "default_timeout_handler"
  BY <1>1, <1>3 DEF Only, IsConn, TlsFields
<1>5. IsConn(a) /\ a.active = s.active /\ a.pending = s.pending
  BY <1>3, <1>4 DEF Only, IsConn, TlsFields
<1>6. Only(a, b, {"drain_handler"}) /\ b.drain_handler = "start_shutdown"
  BY <1>2, <1>5 DEF Only, IsConn, TlsFields
<1>7. /\ IsConn(b) /\ b.active = a.active /\ b.pending = a.pending
      /\ b.error_handler = a.error_handler /\ b.timeout_handler = a.timeout_handler
  BY <1>5, <1>6 DEF Only, IsConn, TlsFields
<1>8. Watched(b)
  BY <1>5, <1>7 DEF Watched
<1>9. Sound(a, P, W)
  BY <1>4, SoundKept DEF SoundFields
<1>10. Sound(b, P, W)
  BY <1>6, <1>9, SoundKept DEF SoundFields
<1>11. Only(s, b, ShutdownFields)
  BY <1>4, <1>6, OnlyTrans DEF ShutdownFields
<1>12. t = IF "write" \in a.active THEN b ELSE start_shutdown(b)
  BY <1>1, <1>2 DEF tls_shutdown, tls_on_drain
<1>13. CASE "write" \in s.active
  BY <1>13, <1>4, <1>5, <1>6, <1>7, <1>8, <1>10, <1>11, <1>12
<1>14. CASE "write" \notin s.active
  <2>1. t = ev_feed_event(ev_io_start(b, "shutdown", "w"), "shutdown")
    BY <1>5, <1>12, <1>14 DEF start_shutdown
  <2>2. /\ Watched(t) /\ Sound(t, P, W) /\ Only(b, t, WatchFields)
        /\ t.active = b.active \cup {"shutdown"}
    BY <1>8, <1>10, <2>1, StartFedSound
  <2>3. Only(s, t, ShutdownFields)
    BY <1>11, <2>2, OnlyTrans DEF ShutdownFields, WatchFields
  <2>4. /\ t.error_handler = b.error_handler
        /\ t.timeout_handler = b.timeout_handler
        /\ t.drain_handler = b.drain_handler
    BY <1>7, <2>2 DEF Only, IsConn, TlsFields, WatchFields
  <2> QED
    BY <1>4, <1>5, <1>6, <1>7, <1>14, <2>2, <2>3, <2>4
<1> QED
  BY <1>13, <1>14

TimeoutFields == {"timer", "left", "age", "timeout_handler"}

\* tls_on_timeout.
LEMMA OnTimeoutOnly ==
  ASSUME NEW P, NEW W, NEW s, Watched(s), Sound(s, P, W), NEW handler, NEW t,
         t = tls_on_timeout(s, handler)
  PROVE  /\ Watched(t) /\ Sound(t, P, W) /\ Only(s, t, TimeoutFields)
         /\ t.timeout_handler = handler
<1>1. PICK a : a = (IF "armed" \in s.timer THEN ev_timer_stop(s) ELSE s)
  OBVIOUS
<1>2. PICK b : b = [a EXCEPT !.timeout_handler = handler]
  OBVIOUS
<1>3. IsConn(s) /\ Timed(s)
  BY DEF Watched, Sound
<1>4. Only(s, a, {"timer"}) /\ Timed(a)
  BY <1>1, <1>3, TimerStop, OnlyRefl
<1>5. IsConn(a)
  BY <1>4 DEF Timed
<1>6. Only(a, b, {"timeout_handler"}) /\ b.timeout_handler = handler
  BY <1>2, <1>5 DEF Only, IsConn, TlsFields
<1>7. IsConn(b) /\ Timed(b)
  BY <1>4, <1>6, TimedKept DEF Timed
<1>8. Only(s, b, TimeoutFields)
  BY <1>4, <1>6, OnlyTrans DEF TimeoutFields
<1>9. PICK c : c = ev_timer_start(b, Timeout)
  OBVIOUS
<1>10. Only(b, c, {"timer", "left"}) /\ Timed(c)
  BY <1>7, <1>9, TimerStart, TlsAssumption
<1>11. PICK d : d = Touch(c)
  OBVIOUS
<1>12. Only(c, d, {"age"}) /\ Timed(d)
  BY <1>10, <1>11, TouchOnly DEF Timed
<1>13. Only(b, d, {"timer", "left", "age"})
  BY <1>10, <1>12, OnlyTrans
<1>14. Only(s, d, TimeoutFields)
  BY <1>8, <1>13, OnlyTrans DEF TimeoutFields
<1>15. d.timeout_handler = handler
  BY <1>6, <1>7, <1>13 DEF Only, IsConn, TlsFields
<1>16. t = b \/ t = d
  BY <1>1, <1>2, <1>9, <1>11 DEF tls_on_timeout
<1>17. Only(s, t, TimeoutFields) /\ Timed(t) /\ t.timeout_handler = handler
  BY <1>6, <1>7, <1>8, <1>12, <1>14, <1>15, <1>16
<1>18. Streams(t, P) /\ Buffered(t, P) /\ Eventful(t, W)
  BY <1>17, StreamsKept, BufferedKept, EventfulKept
     DEF Sound, BufferFields, TimeoutFields
<1>19. t.active = s.active /\ t.pending = s.pending /\ IsConn(t)
  BY <1>3, <1>17 DEF Only, IsConn, TlsFields, TimeoutFields
<1> QED
  BY <1>17, <1>18, <1>19 DEF Sound, Watched

NewFields ==
  {"tls", "active", "pending", "timer", "left", "age", "input_size", "input",
   "input_buffer", "output", "output_buffer", "read_handler", "drain_handler",
   "error_handler", "timeout_handler", "line_too_long_handler", "hs"}

\* tls_new: no watcher is active, no handler is set, nothing is buffered.
LEMMA NewOnly ==
  ASSUME NEW P, NEW W, NEW s, Streams(s, P), Eventful(s, W), NEW t, t = tls_new(s)
  PROVE  /\ Watched(t) /\ Sound(t, P, W) /\ Only(s, t, NewFields)
         /\ t.tls = "live" /\ t.active = {} /\ t.timer = {}
         /\ t.error_handler = "NULL"
         /\ t.timeout_handler = "default_timeout_handler"
         /\ t.drain_handler = "NULL" /\ t.read_handler = "NULL"
         /\ t.line_too_long_handler = "default_line_too_long_handler"
         /\ t.output = <<>> /\ t.output_buffer = <<>>
         /\ t.input = <<>> /\ t.input_buffer = <<>> /\ t.hs = InitialHandshake
<1>1. IsConn(s)
  BY DEF Streams
<1>2. Only(s, t, NewFields)
  BY <1>1 DEF tls_new, Only, IsConn, TlsFields, NewFields
<1>3. /\ t.tls = "live" /\ t.active = {} /\ t.pending = <<>> /\ t.timer = {}
      /\ t.left = 0 /\ t.age = 0 /\ t.input_size = 0
      /\ t.input = <<>> /\ t.input_buffer = <<>>
      /\ t.output = <<>> /\ t.output_buffer = <<>>
      /\ t.read_handler = "NULL" /\ t.drain_handler = "NULL"
      /\ t.error_handler = "NULL"
      /\ t.timeout_handler = "default_timeout_handler"
      /\ t.line_too_long_handler = "default_line_too_long_handler"
      /\ t.hs = InitialHandshake
  BY <1>1 DEF tls_new, IsConn, TlsFields
<1>4. IsConn(t)
  BY <1>1, <1>2, OnlyConn
<1>5. Watched(t)
  BY <1>3, <1>4, ListedEmpty DEF Watched
<1>6. /\ t.in = s.in /\ t.rbuf = s.rbuf /\ t.out = s.out
      /\ t.sent_close = s.sent_close /\ t.events = s.events
  BY <1>1, <1>2 DEF Only, IsConn, TlsFields, NewFields
<1>7. Streams(t, P)
  BY <1>3, <1>4, <1>6, TlsAssumption DEF Streams
<1>8. Timed(t)
  BY <1>3, <1>4, TlsAssumption DEF Timed
<1>9. Buffered(t, P)
  <2>1. <<>> \in Seq(P) /\ Len(<<>>) = 0 /\ 0 <= LINE_MAX_SIZE
    BY EmptySeq, TlsAssumption
  <2> QED
    BY <1>3, <1>4, <2>1 DEF Buffered
<1>10. Eventful(t, W)
  BY <1>4, <1>6 DEF Eventful
<1> QED
  BY <1>2, <1>3, <1>5, <1>7, <1>8, <1>9, <1>10 DEF Sound

\* A poll feeds the watchers in the list it is given, and the clock advances.
LEMMA PolledOnly ==
  ASSUME NEW P, NEW W, NEW s, Watched(s), Sound(s, P, W), s.pending = <<>>,
         NEW order, Listed(order, s.active), NEW ticks \in 0..1,
         NEW t, t = Polled(s, order, ticks)
  PROVE  /\ Watched(t) /\ Sound(t, P, W)
         /\ Only(s, t, {"pending", "age", "left", "timer"})
         /\ t.pending = order
<1>1. IsConn(s) /\ Timed(s)
  BY DEF Watched, Sound
<1>2. PICK age \in 0..Timeout : age = s.age
  BY <1>1 DEF Timed
<1>3. PICK left \in 0..Timeout : left = s.left
  BY <1>1 DEF Timed
<1>4. PICK a : a = [s EXCEPT !.pending = @ \o order,
                      !.age = IF @ + ticks < Timeout THEN @ + ticks ELSE Timeout,
                      !.left = @ - (IF ticks < @ THEN ticks ELSE @)]
  OBVIOUS
<1>5. /\ Only(s, a, {"pending", "age", "left"})
      /\ a.pending = s.pending \o order
      /\ a.age = (IF age + ticks < Timeout THEN age + ticks ELSE Timeout)
      /\ a.left = left - (IF ticks < left THEN ticks ELSE left)
  BY <1>1, <1>2, <1>3, <1>4 DEF Only, IsConn, TlsFields
<1>6. a.age \in 0..Timeout /\ a.left \in 0..Timeout
  BY <1>5, TlsAssumption
<1>7. a.pending = order
  <2>1. order \in Seq(s.active)
    BY DEF Listed
  <2> QED
    BY <2>1, <1>5, ConcatEmptySeq
<1>8. IsConn(a) /\ a.timer = s.timer /\ a.active = s.active
  BY <1>1, <1>5 DEF Only, IsConn, TlsFields
<1>9. t = IF "armed" \in a.timer /\ a.left = 0 THEN [a EXCEPT !.timer = {"due"}] ELSE a
  BY <1>4, Zenon DEF Polled
<1>10. Only(a, t, {"timer"}) /\ t.timer \in {a.timer, {"due"}}
  <2>1. CASE t = a
    BY <2>1, OnlyRefl
  <2>2. CASE t = [a EXCEPT !.timer = {"due"}]
    BY <2>2, <1>8 DEF Only, IsConn, TlsFields
  <2> QED
    BY <1>9, <2>1, <2>2
<1>11. Only(s, t, {"pending", "age", "left", "timer"})
  BY <1>5, <1>10, OnlyTrans
<1>12. /\ IsConn(t) /\ t.age = a.age /\ t.left = a.left
       /\ t.active = s.active /\ t.pending = order
  BY <1>7, <1>8, <1>10 DEF Only, IsConn, TlsFields
<1>13. Watched(t)
  BY <1>12 DEF Watched
<1>14. Timed(t)
  BY <1>1, <1>6, <1>8, <1>10, <1>12 DEF Timed
<1>15. Streams(t, P) /\ Buffered(t, P) /\ Eventful(t, W)
  BY <1>11, StreamsKept, BufferedKept, EventfulKept DEF Sound, BufferFields
<1> QED
  BY <1>11, <1>12, <1>13, <1>14, <1>15 DEF Sound

\* An order in which all watchers of a set are fed is a list of them.
LEMMA OrderListed ==
  ASSUME NEW A, A \subseteq IoWatchers \cup {"input"},
         NEW order \in SetToAllKPermutations(A)
  PROVE  Listed(order, A)
<1>1. PICK B \in SUBSET A : order \in SetToSeqs(B)
  BY DEF SetToAllKPermutations
<1>2. IsFiniteSet(IoWatchers \cup {"input"})
  <2>0. IsFiniteSet({} \cup {"input"})
    BY FS_EmptySet, FS_AddElement
  <2>1. IsFiniteSet({"input", "init"})
    <3>1. ({} \cup {"input"}) \cup {"init"} = {"input", "init"}
      OBVIOUS
    <3> QED
      BY <2>0, <3>1, FS_AddElement
  <2>2. IsFiniteSet({"input", "init"} \cup {"read"})
    BY <2>1, FS_AddElement
  <2>3. IsFiniteSet(({"input", "init"} \cup {"read"}) \cup {"write"})
    BY <2>2, FS_AddElement
  <2>4. IsFiniteSet((({"input", "init"} \cup {"read"}) \cup {"write"}) \cup {"shutdown"})
    BY <2>3, FS_AddElement
  <2>5. IoWatchers \cup {"input"} =
          (({"input", "init"} \cup {"read"}) \cup {"write"}) \cup {"shutdown"}
    BY DEF IoWatchers
  <2> QED
    BY <2>4, <2>5
<1>3. Cardinality(B) \in Nat
  BY <1>1, <1>2, FS_Subset, FS_CardinalityType
<1>4. PICK n \in Nat : n = Cardinality(B)
  BY <1>3
<1>5. order \in [1..n -> B] /\ \A i, j \in 1..n : i # j => order[i] # order[j]
  BY <1>1, <1>4 DEF SetToSeqs
<1>6. order \in Seq(A) /\ Len(order) = n
  BY <1>1, <1>5, SeqDef, LenProperties
<1> QED
  BY <1>5, <1>6 DEF Listed, Injective

-----------------------------------------------------------------------------
(* The buffers of the callbacks.                                           *)

\* The buffer of the lines holds something else, which is not too long.
LEMMA InputBufferOnly ==
  ASSUME NEW P, NEW W, NEW s, Watched(s), Sound(s, P, W), NEW b \in Seq(P),
         Len(b) <= LINE_MAX_SIZE, NEW t, t = [s EXCEPT !.input_buffer = b]
  PROVE  Watched(t) /\ Sound(t, P, W) /\ Only(s, t, {"input_buffer"})
<1>1. IsConn(s)
  BY DEF Watched
<1>2. Only(s, t, {"input_buffer"}) /\ t.input_buffer = b
  BY <1>1 DEF Only, IsConn, TlsFields
<1>3. /\ t.output = s.output /\ t.output_buffer = s.output_buffer
      /\ t.input = s.input /\ t.input_size = s.input_size
      /\ t.pending = s.pending /\ t.active = s.active /\ IsConn(t)
  BY <1>1, <1>2 DEF Only, IsConn, TlsFields
<1>4. Streams(t, P) /\ Timed(t) /\ Eventful(t, W)
  BY <1>2, StreamsKept, TimedKept, EventfulKept DEF Sound
<1>5. Buffered(t, P)
  BY <1>2, <1>3 DEF Sound, Buffered
<1> QED
  BY <1>2, <1>3, <1>4, <1>5 DEF Sound, Watched

\* The buffer of the data holds something else, less than was asked for.
LEMMA InputOnly ==
  ASSUME NEW P, NEW W, NEW s, Watched(s), Sound(s, P, W), NEW b \in Seq(P),
         s.input_size > 0, Len(b) < s.input_size,
         NEW t, t = [s EXCEPT !.input = b]
  PROVE  Watched(t) /\ Sound(t, P, W) /\ Only(s, t, {"input"}) /\ t.input = b
<1>1. IsConn(s)
  BY DEF Watched
<1>2. Only(s, t, {"input"}) /\ t.input = b
  BY <1>1 DEF Only, IsConn, TlsFields
<1>3. /\ t.output = s.output /\ t.output_buffer = s.output_buffer
      /\ t.input_buffer = s.input_buffer /\ t.input_size = s.input_size
      /\ t.pending = s.pending /\ t.active = s.active /\ IsConn(t)
  BY <1>1, <1>2 DEF Only, IsConn, TlsFields
<1>4. Streams(t, P) /\ Timed(t) /\ Eventful(t, W)
  BY <1>2, StreamsKept, TimedKept, EventfulKept DEF Sound
<1>5. Buffered(t, P)
  BY <1>2, <1>3 DEF Sound, Buffered
<1> QED
  BY <1>2, <1>3, <1>4, <1>5 DEF Sound, Watched

\* Some of the output is written, or the buffer is taken over.
LEMMA OutputOnly ==
  ASSUME NEW P, NEW W, NEW s, Watched(s), Sound(s, P, W), NEW t,
         Only(s, t, {"output", "output_buffer"}),
         t.output \in Seq(P), t.output_buffer \in Seq(P)
  PROVE  Watched(t) /\ Sound(t, P, W)
<1>1. IsConn(s)
  BY DEF Watched
<1>3. /\ t.input = s.input /\ t.input_buffer = s.input_buffer
      /\ t.input_size = s.input_size
      /\ t.pending = s.pending /\ t.active = s.active /\ IsConn(t)
  BY <1>1 DEF Only, IsConn, TlsFields
<1>4. Streams(t, P) /\ Timed(t) /\ Eventful(t, W)
  BY StreamsKept, TimedKept, EventfulKept DEF Sound
<1>5. Buffered(t, P)
  BY <1>3 DEF Sound, Buffered
<1> QED
  BY <1>3, <1>4, <1>5 DEF Sound, Watched

\* last_activity is set by every callback.
LEMMA TouchSound ==
  ASSUME NEW P, NEW W, NEW s, Watched(s), Sound(s, P, W), NEW t, t = Touch(s)
  PROVE  Watched(t) /\ Sound(t, P, W) /\ Only(s, t, {"age"})
<1>1. IsConn(s) /\ Timed(s)
  BY DEF Watched, Sound
<1>2. Only(s, t, {"age"}) /\ Timed(t)
  BY <1>1, TouchOnly
<1>3. t.pending = s.pending /\ t.active = s.active /\ IsConn(t)
  BY <1>1, <1>2 DEF Only, IsConn, TlsFields
<1>4. Streams(t, P) /\ Buffered(t, P) /\ Eventful(t, W)
  BY <1>2, StreamsKept, BufferedKept, EventfulKept DEF Sound, BufferFields
<1> QED
  BY <1>2, <1>3, <1>4 DEF Sound, Watched

\* The first line that is complete, if there is one.
LEMMA FirstLine ==
  ASSUME NEW P, NEW q \in Seq(P), NEW n, n = SelectInSeq(q, IsLine)
  PROVE  n \in 0..Len(q) /\ (n > 0 => q[n] \in P /\ IsLine(q[n]))
<1> DEFINE I == {i \in 1..Len(q) : IsLine(q[i])}
<1>1. n = IF I # {} THEN Min(I) ELSE 0
  BY DEF SelectInSeq
<1>2. CASE I = {}
  BY <1>1, <1>2
<1>3. CASE I # {}
  <2>1. PICK k : k \in I
    BY <1>3
  <2>2. Min(I) \in I
    <3>1. I \subseteq Nat
      OBVIOUS
    <3> HIDE DEF I
    <3> QED BY <2>1, <3>1, FirstIndex
  <2> QED
    BY <1>1, <1>3, <2>2
<1> QED
  BY <1>2, <1>3

=============================================================================
