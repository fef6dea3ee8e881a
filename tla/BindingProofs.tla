---------------------------- MODULE BindingProofs ----------------------------
(***************************************************************************)
(* Proofs about Binding, for commands of any size and any number of calls. *)
(*                                                                         *)
(* Two things are hard.  That a command is queued at most once per attempt *)
(* is a matter of counting: the attempts, the first pieces of the command  *)
(* that are under way on the connection and on those that were closed, and *)
(* the copies that were queued.  That success means that the command was   *)
(* queued rests on the dialogue: as long as no failed call has left its    *)
(* connection behind, the connection shows how far the call has got.       *)
(***************************************************************************)
EXTENDS Binding, TotalsProofs

-----------------------------------------------------------------------------
(* The types.                                                              *)

Keywords == {"MOIN", "PUSH", "QUIT", "BAIL"}

Sessions == {"handle_handshake", "handle_connection", "handle_push", "closed"}

AnyConn == [io : {"fresh", "up", "stuck", "lost"}, to : Seq(Pieces),
            from : Seq(Responses), session : Sessions, input : Seq(Pieces)]

\* What handle_push is waiting for is not complete.
Conns == {c \in AnyConn : Len(c.input) < DataSize}

Typed ==
  /\ lang \in {"Perl", "Python"}
  /\ state \in {"NONE", "NEW", "MOIN"} /\ (state = "NONE" => lang = "Perl" \/ pc = "gone")
  /\ pc \in {"idle", "write", "read", "gone"} /\ req \in {"MOIN", "PUSH", "DATA"}
  /\ calls \in 0..MaxCalls
  /\ kind \in [Calls -> {"none", "result", "command"}]
  /\ tries \in [Calls -> 0..2] /\ queued \in [Calls -> Nat]
  /\ result \in [Calls -> {"none", "ok", "doubtful", "error"}]
  /\ kept \in BOOLEAN /\ (kept => lang = "Python")
  /\ conn \in Conns /\ late \in Seq(Conns)
  /\ pc \in {"write", "read"} =>
       /\ req # "MOIN" <=> state = "MOIN"
       /\ calls \in Calls /\ tries[calls] \in 1..2

\* The pieces are the lines and those of the commands.
LEMMA PieceFacts ==
  /\ \A kw \in Keywords : Line(kw) \in Pieces /\ <<Line(kw)>> \in Seq(Pieces)
  /\ \A n \in Calls :
       /\ Data(n) \in Seq(Pieces) /\ Len(Data(n)) = DataSize /\ Data(n) # <<>>
       /\ \A i \in 1..DataSize : Data(n)[i] \in Pieces
<1>1. \A kw \in Keywords : Line(kw) \in Pieces
      BY DEF Pieces, Keywords
<1>2. ASSUME NEW n \in Calls
      PROVE  /\ Data(n) \in Seq(Pieces) /\ Len(Data(n)) = DataSize /\ Data(n) # <<>>
             /\ \A i \in 1..DataSize : Data(n)[i] \in Pieces
  <2>1. \A i \in 1..DataSize : Data(n)[i] \in Range(Data(n))
        BY DEF Data, Range
  <2>2. \A i \in 1..DataSize : Data(n)[i] \in Pieces
        BY <2>1 DEF Pieces
  <2>3. Data(n) \in [1..DataSize -> Pieces]
        BY <2>2 DEF Data
  <2> QED BY <2>2, <2>3, BindingAssumption, LenProperties, EmptySeq
<1> QED BY <1>1, <1>2

\* A connection that nothing was written to.
LEMMA FreshConn == Fresh \in Conns
BY BindingAssumption, EmptySeq DEF Fresh, Conns, AnyConn, Sessions

\* Writing adds to what is under way.
LEMMA SentConn ==
  ASSUME NEW c \in Conns, NEW q \in Seq(Pieces)
  PROVE  /\ Sent(c, q) \in Conns /\ Sent(c, q).to = c.to \o q
         /\ Sent(c, q).input = c.input /\ Sent(c, q).io = "up"
         /\ Sent(c, q).session = c.session /\ Sent(c, q).from = c.from
<1>1. c.to \o q \in Seq(Pieces)
      BY ConcatProperties DEF Conns, AnyConn
<1> QED BY <1>1 DEF Sent, Conns, AnyConn

-----------------------------------------------------------------------------
(* Counting the first pieces of a command.                                 *)

\* The m-th command is recognized by its first piece.
First(m) == [p \in Pieces |-> IF p = Data(m)[1] THEN 1 ELSE 0]

\* The first pieces of the m-th command that a connection carries to the server,
\* or that the server waits with for the rest.
Load(c, m) == Weigh(c.to, First(m)) + Weigh(c.input, First(m))

Loads(m) == [c \in Conns |-> Load(c, m)]

\* On all connections.
Carried(c, l, m) == Load(c, m) + Weigh(l, Loads(m))

\* The weights are functions, and the sums are numbers.
LEMMA LoadType ==
  ASSUME NEW m \in Calls
  PROVE  /\ First(m) \in [Pieces -> Nat] /\ Loads(m) \in [Conns -> Nat]
         /\ \A c \in Conns : Load(c, m) \in Nat /\ Loads(m)[c] = Load(c, m)
         /\ \A c \in Conns : Weigh(c.to, First(m)) \in Nat /\ Weigh(c.input, First(m)) \in Nat
         /\ \A l \in Seq(Conns) : Weigh(l, Loads(m)) \in Nat
<1>1. First(m) \in [Pieces -> Nat]
      BY DEF First
<1>2. \A c \in Conns : Weigh(c.to, First(m)) \in Nat /\ Weigh(c.input, First(m)) \in Nat
      BY <1>1, WeighType DEF Conns, AnyConn
<1>3. \A c \in Conns : Load(c, m) \in Nat
      BY <1>2 DEF Load
<1>4. Loads(m) \in [Conns -> Nat] /\ \A c \in Conns : Loads(m)[c] = Load(c, m)
      BY <1>3 DEF Loads
<1> QED BY <1>1, <1>2, <1>3, <1>4, WeighType

\* A sequence without a first piece weighs nothing.
LEMMA WeighNone ==
  ASSUME NEW S, NEW w \in [S -> Nat], NEW q \in Seq(S), \A i \in 1..Len(q) : w[q[i]] = 0
  PROVE  Weigh(q, w) = 0
<1> DEFINE h == [i \in 1..Len(q) |-> w[q[i]]]
<1>1. h \in Seq(Nat) /\ Len(h) = Len(q) /\ \A i \in 1..Len(q) : h[i] = w[q[i]]
      BY WeightsType
<1>2. \A i \in 1..Len(h) : h[i] = 0
      BY <1>1
<1> QED BY <1>1, <1>2, TotalZero DEF Weigh

\* Without its k-th element a sequence is lighter by the weight of that.
LEMMA WeighRemove ==
  ASSUME NEW S, NEW w \in [S -> Nat], NEW q \in Seq(S), NEW k \in 1..Len(q)
  PROVE  /\ RemoveAt(q, k) \in Seq(S)
         /\ Weigh(RemoveAt(q, k), w) + w[q[k]] = Weigh(q, w)
<1> DEFINE a == SubSeq(q, 1, k - 1)
           b == SubSeq(q, k + 1, Len(q))
           e == Append(a, q[k])
<1>0. PICK n \in Nat : n = Len(q)
      BY LenProperties
<1>n. k \in Nat /\ 1 <= k /\ k <= n /\ q \in [1..n -> S] /\ q[k] \in S
      BY <1>0, LenProperties
<1>1. a \in Seq(S) /\ Len(a) = k - 1 /\ \A i \in 1..(k - 1) : a[i] = q[i]
      BY <1>0, <1>n, SubSeqProperties
<1>2. b \in Seq(S) /\ Len(b) = n - k /\ \A i \in 1..(n - k) : b[i] = q[k + i]
      BY <1>0, <1>n, SubSeqProperties
<1>3. e \in Seq(S) /\ Len(e) = k /\ e[k] = q[k] /\ \A i \in 1..(k - 1) : e[i] = q[i]
      BY <1>1, <1>n, AppendProperties
<1> HIDE DEF a, b, e
<1>4. /\ e \o b \in Seq(S) /\ Len(e \o b) = Len(e) + Len(b)
      /\ \A i \in 1..(Len(e) + Len(b)) :
           (e \o b)[i] = IF i <= Len(e) THEN e[i] ELSE b[i - Len(e)]
      BY <1>2, <1>3, ConcatProperties
<1>p. PICK f : f = e \o b
      OBVIOUS
<1>l. Len(e) = k /\ Len(e) + Len(b) = n
      BY <1>2, <1>3, <1>n
<1>r. /\ f \in Seq(S) /\ Len(f) = n
      /\ \A i \in 1..n : f[i] = IF i <= k THEN e[i] ELSE b[i - k]
      BY <1>l, <1>4, <1>p, Zenon
<1>5. \A i \in 1..n : f[i] = q[i]
  <2> SUFFICES ASSUME NEW i \in 1..n PROVE f[i] = q[i]
      OBVIOUS
  <2>1. CASE i < k
    <3>1. i \in 1..(k - 1) /\ i <= k
          BY <2>1, <1>n
    <3>2. f[i] = e[i]
          BY <3>1, <1>r
    <3>3. e[i] = q[i]
          BY <3>1, <1>3
    <3> QED BY <3>2, <3>3
  <2>2. CASE i = k
        BY <2>2, <1>3, <1>r, <1>n
  <2>3. CASE i > k
    <3>1. i - k \in 1..(n - k) /\ k + (i - k) = i
          BY <2>3, <1>n
    <3>2. f[i] = b[i - k]
          BY <2>3, <1>r, <1>n, SMTT(30)
    <3>3. b[i - k] = q[k + (i - k)]
          BY <3>1, <1>2
    <3> QED BY <3>1, <3>2, <3>3
  <2> QED BY <2>1, <2>2, <2>3, <1>n
<1>6. e \o b = q
      BY <1>0, <1>r, <1>5, <1>p, SeqEqual
<1>7. Weigh(q, w) = Weigh(e, w) + Weigh(b, w)
      BY <1>2, <1>3, <1>6, WeighConcat
<1>8. Weigh(e, w) = Weigh(a, w) + w[q[k]]
      BY <1>1, <1>n, WeighAppend DEF e
<1>9. RemoveAt(q, k) = a \o b
      BY DEF RemoveAt, a, b
<1>10. a \o b \in Seq(S) /\ Weigh(a \o b, w) = Weigh(a, w) + Weigh(b, w)
      BY <1>1, <1>2, WeighConcat, ConcatProperties
<1>11. Weigh(a, w) \in Nat /\ Weigh(b, w) \in Nat /\ w[q[k]] \in Nat
      BY <1>1, <1>2, <1>n, WeighType
<1> QED BY <1>7, <1>8, <1>9, <1>10, <1>11

\* A line is no first piece, and a command has one.
LEMMA FirstPieces ==
  ASSUME NEW m \in Calls
  PROVE  /\ \A kw \in Keywords : First(m)[Line(kw)] = 0 /\ Weigh(<<Line(kw)>>, First(m)) = 0
         /\ \A n \in Calls : Weigh(Data(n), First(m)) = IF n = m THEN 1 ELSE 0
<1>w. First(m) \in [Pieces -> Nat]
      BY LoadType
<1>d. ASSUME NEW n \in Calls, NEW i \in 1..DataSize
      PROVE  First(m)[Data(n)[i]] = IF n = m /\ i = 1 THEN 1 ELSE 0
  <2>1. Data(n)[i] \in Pieces
        BY PieceFacts
  <2>2. Data(n)[i] = Data(m)[1] <=> n = m /\ i = 1
        BY BindingAssumption DEF Data, Calls
  <2> QED BY <2>1, <2>2 DEF First
<1>1. ASSUME NEW kw \in Keywords
      PROVE  First(m)[Line(kw)] = 0 /\ Weigh(<<Line(kw)>>, First(m)) = 0
  <2>1. Line(kw) \in Pieces
        BY PieceFacts
  <2>2. First(m)[Line(kw)] = 0
        BY <2>1, BindingAssumption DEF First, Line, Data, Calls, Keywords
  <2> QED BY <2>1, <2>2, <1>w, WeighSingle
<1>2. ASSUME NEW n \in Calls
      PROVE  Weigh(Data(n), First(m)) = IF n = m THEN 1 ELSE 0
  <2>1. Data(n) \in Seq(Pieces) /\ Len(Data(n)) = DataSize /\ Data(n) # <<>>
        BY PieceFacts
  <2>2. /\ Head(Data(n)) = Data(n)[1] /\ Tail(Data(n)) \in Seq(Pieces)
        /\ Len(Tail(Data(n))) = DataSize - 1
        /\ \A i \in 1..(DataSize - 1) : Tail(Data(n))[i] = Data(n)[i + 1]
        BY <2>1, BindingAssumption, HeadTailProperties
  <2>3. \A i \in 1..Len(Tail(Data(n))) : First(m)[Tail(Data(n))[i]] = 0
        BY <2>2, <1>d, BindingAssumption
  <2>4. Weigh(Tail(Data(n)), First(m)) = 0
        BY <2>2, <2>3, <1>w, WeighNone
  <2>5. Weigh(Data(n), First(m)) = First(m)[Head(Data(n))] + Weigh(Tail(Data(n)), First(m))
        BY <2>1, <1>w, WeighTail
  <2>6. First(m)[Data(n)[1]] = IF n = m THEN 1 ELSE 0
        BY <1>d, BindingAssumption
  <2> QED BY <2>2, <2>4, <2>5, <2>6
<1> QED BY <1>1, <1>2

-----------------------------------------------------------------------------
(* What the server does with a connection.                                 *)

\* What remains when the server has taken the next piece and answered.
After(o, c, s, a, q) ==
  /\ o.conn \in AnyConn /\ o.queue = q
  /\ o.conn.io = c.io /\ o.conn.session = s
  /\ o.conn.to = (IF s = "closed" THEN <<>> ELSE Tail(c.to))
  /\ o.conn.from = c.from \o a /\ o.conn.input = c.input

\* That is what an outcome is.
LEMMA OutcomeFacts ==
  ASSUME NEW c \in AnyConn, c.to # <<>>, NEW s \in Sessions, NEW a \in Seq(Responses),
         NEW q, NEW o \in Outcome(c, s, a, q)
  PROVE  After(o, c, s, a, q)
<1>1. c.to \in Seq(Pieces) /\ Tail(c.to) \in Seq(Pieces) /\ <<>> \in Seq(Pieces)
      BY HeadTailProperties, EmptySeq DEF AnyConn
<1>2. PICK f \in Seq(Responses) : f = c.from \o a
      BY ConcatProperties DEF AnyConn
<1>3. PICK t \in Seq(Pieces) : t = IF s = "closed" THEN <<>> ELSE Tail(c.to)
      BY <1>1
<1> DEFINE e == [c EXCEPT !.to = t, !.session = s, !.from = f]
<1>4. o = [conn |-> e, queue |-> q]
      BY <1>2, <1>3 DEF Outcome
<1>5. /\ e \in AnyConn /\ e.io = c.io /\ e.session = s /\ e.to = t
      /\ e.from = f /\ e.input = c.input
      BY DEF AnyConn
<1>6. o.conn = e /\ o.queue = q
      BY <1>4
<1> HIDE DEF e
<1> QED BY <1>2, <1>3, <1>5, <1>6 DEF After

Got(c) == Append(c.input, Head(c.to))

\* A line based handler takes the piece.
TookLine(c, o) ==
  /\ c.session \in {"handle_handshake", "handle_connection"}
  /\ \E s \in Sessions, a \in Seq(Responses) : o \in Outcome(c, s, a, 0)

\* handle_push takes the piece and waits for more.
TookPart(c, o) ==
  /\ c.session = "handle_push" /\ Len(Got(c)) < DataSize
  /\ o \in Outcome([c EXCEPT !.input = Got(c)], "handle_push", <<>>, 0)

\* handle_push has what was announced, and refuses it or queues a command.
TookAll(c, o, r, q) ==
  /\ c.session = "handle_push" /\ Len(Got(c)) >= DataSize
  /\ o \in Outcome([c EXCEPT !.input = <<>>], "handle_connection", <<r>>, q)
  /\ \/ r = "FAIL" /\ q = 0
     \/ r = "OKAY" /\ q \in Calls /\ Got(c) = Data(q)

\* That is all the server may do.
LEMMA ServeCases ==
  ASSUME NEW c \in Conns, NEW o \in Serve(c)
  PROVE  /\ c.to # <<>> /\ Got(c) \in Seq(Pieces) /\ Head(c.to) \in Pieces
         /\ \/ TookLine(c, o) \/ TookPart(c, o)
            \/ \E r \in Responses, q \in 0..MaxCalls : TookAll(c, o, r, q)
<1>1. c.to # <<>>
      BY DEF Serve
<1>2. Head(c.to) \in Pieces /\ Got(c) \in Seq(Pieces) /\ Len(Got(c)) \in Nat
      BY <1>1, HeadTailProperties, AppendProperties, LenProperties DEF Conns, AnyConn, Got
<1>a. <<>> \in Seq(Responses) /\ \A a \in Responses : <<a>> \in Seq(Responses)
      BY EmptySeq
<1>s. c.session \in Sessions
      BY DEF Conns, AnyConn
<1>3. CASE c.session = "handle_handshake"
  <2>1. o \in handle_handshake(c, Head(c.to))
        BY <1>1, <1>3 DEF Serve
  <2> QED BY <2>1, <1>1, <1>2, <1>3, <1>a
          DEF TookLine, handle_handshake, Otherwise, Responses, Sessions
<1>4. CASE c.session = "handle_connection"
  <2>1. o \in handle_connection(c, Head(c.to))
        BY <1>1, <1>4 DEF Serve
  <2> QED BY <2>1, <1>1, <1>2, <1>4, <1>a
          DEF TookLine, handle_connection, Otherwise, Responses, Sessions
<1>5. CASE c.session = "handle_push"
  <2>1. o \in handle_push(c, Head(c.to))
        BY <1>1, <1>5 DEF Serve
  <2>2. CASE Len(Got(c)) < DataSize
        BY <2>1, <2>2, <1>1, <1>2, <1>5 DEF TookPart, handle_push, Got
  <2>3. CASE ~(Len(Got(c)) < DataSize)
    <3>1. \/ o \in Outcome([c EXCEPT !.input = <<>>], "handle_connection", <<"FAIL">>, 0)
          \/ \E q \in Calls :
               /\ Got(c) = Data(q)
               /\ o \in Outcome([c EXCEPT !.input = <<>>], "handle_connection", <<"OKAY">>, q)
          BY <2>1, <2>3 DEF handle_push, Got
    <3>2. 0 \in 0..MaxCalls /\ Calls \subseteq 0..MaxCalls /\ "FAIL" \in Responses /\ "OKAY" \in Responses
          BY BindingAssumption DEF Calls, Responses
    <3>3. Len(Got(c)) >= DataSize
          BY <2>3, <1>2, BindingAssumption
    <3>4. \E r \in Responses, q \in 0..MaxCalls : TookAll(c, o, r, q)
          BY <3>1, <3>2, <3>3, <1>5 DEF TookAll
    <3> QED BY <3>4, <1>1, <1>2
  <2> QED BY <2>2, <2>3
<1>6. c.session # "closed"
      BY <1>1 DEF Serve
<1> QED BY <1>3, <1>4, <1>5, <1>6, <1>s DEF Sessions

\* A served connection is one, and what it has lost was queued at most once.
LEMMA ServeFacts ==
  ASSUME NEW c \in Conns, NEW o \in Serve(c)
  PROVE  /\ o.conn \in Conns /\ o.queue \in 0..MaxCalls /\ o.conn.io = c.io
         /\ \A m \in Calls :
              Load(o.conn, m) + (IF o.queue = m THEN 1 ELSE 0) <= Load(c, m)
<1>c. /\ c \in AnyConn /\ c.to \in Seq(Pieces) /\ c.input \in Seq(Pieces)
      /\ Len(c.input) \in Nat /\ Len(c.input) < DataSize
      BY LenProperties DEF Conns, AnyConn
<1>1. c.to # <<>> /\ Got(c) \in Seq(Pieces) /\ Head(c.to) \in Pieces
      BY ServeCases
<1>t. Tail(c.to) \in Seq(Pieces)
      BY <1>c, <1>1, HeadTailProperties
<1>e. <<>> \in Seq(Pieces) /\ <<>> \in Seq(Responses) /\ Len(<<>>) = 0
      BY EmptySeq
<1>w. ASSUME NEW m \in Calls
      PROVE  /\ Weigh(c.to, First(m)) = First(m)[Head(c.to)] + Weigh(Tail(c.to), First(m))
             /\ Weigh(Got(c), First(m)) = Weigh(c.input, First(m)) + First(m)[Head(c.to)]
             /\ Weigh(<<>>, First(m)) = 0
             /\ Weigh(c.to, First(m)) \in Nat /\ Weigh(Tail(c.to), First(m)) \in Nat
             /\ Weigh(c.input, First(m)) \in Nat /\ First(m)[Head(c.to)] \in Nat
             /\ Weigh(Got(c), First(m)) \in Nat
  <2>1. First(m) \in [Pieces -> Nat]
        BY LoadType
  <2> QED BY <2>1, <1>c, <1>1, <1>t, WeighTail, WeighAppend, WeighEmpty, WeighType DEF Got
<1>z. 0 \in 0..MaxCalls /\ \A m \in Calls : m # 0 /\ m \in Nat
      BY BindingAssumption DEF Calls
<1>2. CASE TookLine(c, o)
  <2>1. PICK s \in Sessions, a \in Seq(Responses) : o \in Outcome(c, s, a, 0)
        BY <1>2 DEF TookLine
  <2>2. /\ o.conn \in AnyConn /\ o.queue = 0 /\ o.conn.io = c.io
        /\ o.conn.to = (IF s = "closed" THEN <<>> ELSE Tail(c.to))
        /\ o.conn.input = c.input
        BY <2>1, <1>c, <1>1, OutcomeFacts DEF After
  <2>3. o.conn \in Conns
        BY <2>2, <1>c DEF Conns
  <2>4. \A m \in Calls : Load(o.conn, m) <= Load(c, m)
        BY <2>2, <1>w DEF Load
  <2>5. \A m \in Calls : Load(o.conn, m) \in Nat
        BY <2>3, LoadType
  <2> QED BY <2>2, <2>3, <2>4, <2>5, <1>z
<1>3. CASE TookPart(c, o)
  <2> DEFINE d == [c EXCEPT !.input = Got(c)]
  <2>1. d \in AnyConn /\ d.to = c.to /\ d.input = Got(c) /\ d.io = c.io
        BY <1>c, <1>1 DEF AnyConn
  <2>2. o \in Outcome(d, "handle_push", <<>>, 0) /\ Len(Got(c)) < DataSize
        BY <1>3 DEF TookPart
  <2> HIDE DEF d
  <2>s. "handle_push" \in Sessions /\ "handle_push" # "closed" /\ d.to # <<>>
        BY <2>1, <1>1 DEF Sessions
  <2>a. PICK s \in Sessions, a \in Seq(Responses) : s = "handle_push" /\ a = <<>>
        BY <2>s, <1>e
  <2>b. o \in Outcome(d, s, a, 0)
        BY <2>2, <2>a
  <2>o. /\ o.conn \in AnyConn /\ o.queue = 0 /\ o.conn.io = d.io
        /\ o.conn.to = (IF s = "closed" THEN <<>> ELSE Tail(d.to))
        /\ o.conn.input = d.input
        BY <2>1, <2>b, <2>s, OutcomeFacts DEF After
  <2>3. /\ o.conn \in AnyConn /\ o.queue = 0 /\ o.conn.io = c.io
        /\ o.conn.to = Tail(c.to) /\ o.conn.input = Got(c)
        BY <2>1, <2>a, <2>s, <2>o
  <2>4. o.conn \in Conns
        BY <2>2, <2>3 DEF Conns
  <2>5. \A m \in Calls : Load(o.conn, m) = Load(c, m) /\ Load(c, m) \in Nat
        BY <2>3, <1>w DEF Load
  <2> QED BY <2>3, <2>4, <2>5, <1>z
<1>4. ASSUME NEW r \in Responses, NEW q \in 0..MaxCalls, TookAll(c, o, r, q)
      PROVE  /\ o.conn \in Conns /\ o.queue \in 0..MaxCalls /\ o.conn.io = c.io
             /\ \A m \in Calls :
                  Load(o.conn, m) + (IF o.queue = m THEN 1 ELSE 0) <= Load(c, m)
  <2> DEFINE d == [c EXCEPT !.input = <<>>]
  <2>1. d \in AnyConn /\ d.to = c.to /\ d.input = <<>> /\ d.io = c.io
        BY <1>c, <1>e DEF AnyConn
  <2>2. /\ o \in Outcome(d, "handle_connection", <<r>>, q)
        /\ q # 0 => q \in Calls /\ Got(c) = Data(q)
        BY <1>4 DEF TookAll
  <2>r. <<r>> \in Seq(Responses)
        OBVIOUS
  <2> HIDE DEF d
  <2>s. "handle_connection" \in Sessions /\ "handle_connection" # "closed" /\ d.to # <<>>
        BY <2>1, <1>1 DEF Sessions
  <2>a. PICK s \in Sessions, a \in Seq(Responses) : s = "handle_connection" /\ a = <<r>>
        BY <2>s, <2>r
  <2>b. o \in Outcome(d, s, a, q)
        BY <2>2, <2>a
  <2>o. /\ o.conn \in AnyConn /\ o.queue = q /\ o.conn.io = d.io
        /\ o.conn.to = (IF s = "closed" THEN <<>> ELSE Tail(d.to))
        /\ o.conn.input = d.input
        BY <2>1, <2>b, <2>s, OutcomeFacts DEF After
  <2>3. /\ o.conn \in AnyConn /\ o.queue = q /\ o.conn.io = c.io
        /\ o.conn.to = Tail(c.to) /\ o.conn.input = <<>>
        BY <2>1, <2>a, <2>s, <2>o
  <2>4. o.conn \in Conns
        BY <2>3, <1>e, BindingAssumption DEF Conns
  <2>5. ASSUME NEW m \in Calls
        PROVE  Load(o.conn, m) + (IF o.queue = m THEN 1 ELSE 0) <= Load(c, m)
    <3>1. Load(c, m) = Weigh(Got(c), First(m)) + Weigh(Tail(c.to), First(m))
          BY <1>w DEF Load
    <3>2. Load(o.conn, m) = Weigh(Tail(c.to), First(m))
          BY <2>3, <1>w DEF Load
    <3>3. q = m => Weigh(Got(c), First(m)) = 1
          BY <2>2, <1>z, FirstPieces
    <3> QED BY <3>1, <3>2, <3>3, <2>3, <1>w
  <2> QED BY <2>3, <2>4, <2>5
<1> QED BY <1>2, <1>3, <1>4, ServeCases

-----------------------------------------------------------------------------
(* What the client does with a connection that it gives up.                *)

\* The first pieces on the way are on the way still, or are lost.
LEMMA DisconnectFacts ==
  ASSUME NEW c \in Conns, NEW l \in Seq(Conns), NEW s,
         NEW d \in nscang_client_disconnect(c, s, l)
  PROVE  /\ d.conn = Fresh /\ d.late \in Seq(Conns)
         /\ \A m \in Calls : Carried(d.conn, d.late, m) <= Carried(c, l, m)
<1>1. PICK e \in (IF s = "MOIN" THEN send_quit(c) ELSE {c}) :
        d = [conn |-> Fresh, late |-> Abandon(e, l)]
      BY DEF nscang_client_disconnect
<1>2. e = c \/ e = Sent(c, <<Line("QUIT")>>)
      BY DEF send_quit
<1>q. <<Line("QUIT")>> \in Seq(Pieces)
      BY PieceFacts DEF Keywords
<1>3. e \in Conns
      BY <1>2, <1>q, SentConn
<1>4. ASSUME NEW m \in Calls
      PROVE  Load(e, m) = Load(c, m)
  <2>1. CASE e = c
        BY <2>1
  <2>2. CASE e = Sent(c, <<Line("QUIT")>>)
    <3>1. e.to = c.to \o <<Line("QUIT")>> /\ e.input = c.input
          BY <2>2, <1>q, SentConn
    <3>2. Weigh(<<Line("QUIT")>>, First(m)) = 0
          BY FirstPieces DEF Keywords
    <3>3. c.to \in Seq(Pieces) /\ First(m) \in [Pieces -> Nat] /\ Weigh(c.to, First(m)) \in Nat
          BY LoadType DEF Conns, AnyConn
    <3>4. Weigh(e.to, First(m)) = Weigh(c.to, First(m)) + Weigh(<<Line("QUIT")>>, First(m))
          BY <3>1, <3>3, <1>q, WeighConcat
    <3> QED BY <3>1, <3>2, <3>3, <3>4 DEF Load
  <2> QED BY <2>1, <2>2, <1>2
<1> DEFINE f == [e EXCEPT !.from = <<>>]
<1>5. f \in Conns /\ f.to = e.to /\ f.input = e.input
      BY <1>3, EmptySeq DEF Conns, AnyConn
<1>6. \A m \in Calls : Load(f, m) = Load(c, m)
      BY <1>4, <1>5 DEF Load
<1>7. d.conn = Fresh /\ d.late = IF Finished(e) THEN l ELSE Append(l, f)
      BY <1>1 DEF Abandon
<1> HIDE DEF f
<1>8. d.late \in Seq(Conns)
      BY <1>5, <1>7, AppendProperties
<1>9. ASSUME NEW m \in Calls
      PROVE  Carried(d.conn, d.late, m) <= Carried(c, l, m)
  <2>1. /\ Loads(m) \in [Conns -> Nat] /\ Loads(m)[f] = Load(f, m) /\ Load(c, m) \in Nat
        /\ Weigh(l, Loads(m)) \in Nat
        BY <1>5, LoadType
  <2>2. Weigh(Append(l, f), Loads(m)) = Weigh(l, Loads(m)) + Load(c, m)
        BY <2>1, <1>5, <1>6, WeighAppend
  <2>3. Load(d.conn, m) = 0
        BY <1>7, WeighEmpty DEF Load, Fresh
  <2> QED BY <2>1, <2>2, <2>3, <1>7 DEF Carried
<1> QED BY <1>7, <1>8, <1>9

\* The same of the step.
LEMMA DisconnectStep ==
  ASSUME NEW c \in Conns, NEW l \in Seq(Conns), NEW s, Disconnect(c, s, l)
  PROVE  /\ conn' = Fresh /\ late' \in Seq(Conns)
         /\ \A m \in Calls : Carried(conn', late', m) <= Carried(c, l, m)
BY DisconnectFacts DEF Disconnect

\* A connection that the client left or was left with: it is as good as new, or
\* the next call has to be told.
Left ==
  /\ conn' \in Conns /\ late' \in Seq(Conns)
  /\ kept' \in BOOLEAN /\ (kept' => lang = "Python")
  /\ ~kept' \/ conn'.io = "fresh" => conn' = Fresh /\ state' # "MOIN"
  /\ state' \in {"NONE", "NEW", "MOIN"} /\ (state' = "NONE" => lang = "Perl")

\* The call returns with an error.
Returned ==
  /\ pc' = "idle" /\ req' = "MOIN" /\ tries' = tries
  /\ result' = [result EXCEPT ![calls] = "error"]

\* The call begins again.
Restarted ==
  /\ pc' = "write" /\ req' = "MOIN" /\ state' = "NEW" /\ result' = result
  /\ tries[calls] = 1 /\ tries' = [tries EXCEPT ![calls] = 2]
  /\ lang = "Perl" => kind[calls] = "result"

Ended(c, l) ==
  /\ Left /\ (Returned \/ Restarted)
  /\ \A m \in Calls : Carried(conn', late', m) <= Carried(c, l, m)

\* Every failure ends an attempt in one of these ways.
LEMMA FailFacts ==
  ASSUME Typed, pc \in {"write", "read"}, NEW err, NEW c \in Conns, NEW l \in Seq(Conns),
         NEW s \in {"NONE", "NEW", "MOIN"}, s = "NONE" => lang = "Perl",
         c.io = "fresh" => c = Fresh /\ s # "MOIN",
         Fail(err, c, s, l)
  PROVE  Ended(c, l)
<1>0. /\ lang \in {"Perl", "Python"} /\ calls \in Calls /\ tries \in [Calls -> 0..2]
      /\ kept \in BOOLEAN /\ (kept => lang = "Python")
      BY DEF Typed
<1>i. Fresh.io = "fresh"
      BY DEF Fresh
<1>c. \A m \in Calls : Carried(c, l, m) \in Nat
      BY LoadType DEF Carried
<1>1. CASE Retries(err)
  <2>1. Retry(c, s, l)
        BY <1>1 DEF Fail
  <2>2. /\ conn' = Fresh /\ late' \in Seq(Conns)
        /\ \A m \in Calls : Carried(conn', late', m) <= Carried(c, l, m)
        BY <2>1, DisconnectStep DEF Retry
  <2>3. Left
        BY <2>1, <2>2, FreshConn DEF Retry, Left
  <2>4. Restarted
        BY <2>1, <1>0, <1>1 DEF Retry, Restarted, Retries, FirstRequest
  <2> QED BY <2>2, <2>3, <2>4 DEF Ended
<1>2. CASE ~Retries(err)
  <2>1. GiveUp(c, s, l)
        BY <1>2 DEF Fail
  <2>2. Returned
        BY <2>1 DEF GiveUp, Return, Returned
  <2>3. CASE lang = "Perl"
    <3>1. Disconnect(c, s, l) /\ state' = "NONE" /\ kept' = kept
          BY <2>1, <2>3 DEF GiveUp
    <3>2. /\ conn' = Fresh /\ late' \in Seq(Conns)
          /\ \A m \in Calls : Carried(conn', late', m) <= Carried(c, l, m)
          BY <3>1, DisconnectStep
    <3>3. Left
          BY <3>1, <3>2, <2>3, <1>0, FreshConn DEF Left
    <3> QED BY <3>2, <3>3, <2>2 DEF Ended
  <2>4. CASE lang = "Python"
    <3>1. conn' = c /\ late' = l /\ state' = s /\ kept' = (c.io # "fresh")
          BY <2>1, <2>4 DEF GiveUp
    <3>2. Left
          BY <3>1, <2>4 DEF Left
    <3>3. \A m \in Calls : Carried(conn', late', m) <= Carried(c, l, m)
          BY <3>1, <1>c
    <3> QED BY <3>2, <3>3, <2>2 DEF Ended
  <2> QED BY <2>3, <2>4, <1>0
<1> QED BY <1>1, <1>2

-----------------------------------------------------------------------------
(* The dialogue.                                                           *)

\* No answer will come.
Dead(c) == c.session = "closed" /\ c.from \in {<<>>, <<"BAIL">>}

\* Nothing was asked, and no answer is outstanding.
Quiet(c, s) ==
  /\ c.to = <<>> /\ c.input = <<>>
  /\ (c.session = s /\ c.from = <<>>) \/ Dead(c)

\* The answer is there; a BAIL may have followed it.
Answered(c, a, s) ==
  /\ c.to = <<>> /\ c.input = <<>>
  /\ \/ c.session = s /\ c.from = <<a>>
     \/ c.session = "closed" /\ c.from = <<a, "BAIL">>

\* The server has not, or not completely, read what the client has sent.
Asked(c, request, s) ==
  /\ c.to # <<>> /\ c.input \o c.to = request
  /\ c.session = s /\ c.from = <<>>

Greeting(c) ==
  \/ Dead(c)
  \/ c.input = <<>> /\ c.to = <<Line("MOIN")>> /\ c.session = "handle_handshake" /\ c.from = <<>>
  \/ Answered(c, "MOIN", "handle_connection")
  \/ \E a \in {"version", "other"} : Answered(c, a, "handle_handshake")

Announcing(c) ==
  \/ Dead(c)
  \/ c.input = <<>> /\ c.to = <<Line("PUSH")>> /\ c.session = "handle_connection" /\ c.from = <<>>
  \/ Answered(c, "OKAY", "handle_push")
  \/ Answered(c, "FAIL", "handle_connection")

Submitting(c, n, copies) ==
  \/ Dead(c)
  \/ Asked(c, Data(n), "handle_push")
  \/ Answered(c, "OKAY", "handle_connection") /\ copies >= 1
  \/ Answered(c, "FAIL", "handle_connection")

\* A connection is as good as new until it is written to.
Untouched == conn.io = "fresh" => conn = Fresh /\ state # "MOIN"

\* How far the call has got, if the connection is its own.
Dialogue ==
  ~kept =>
    /\ pc \in {"idle", "write"} /\ state # "MOIN" => conn = Fresh
    /\ pc = "idle" /\ state = "MOIN" => Quiet(conn, "handle_connection")
    /\ pc = "write" /\ req = "PUSH" => Quiet(conn, "handle_connection")
    /\ pc = "write" /\ req = "DATA" => Quiet(conn, "handle_push")
    /\ pc = "read" /\ req = "MOIN" => Greeting(conn)
    /\ pc = "read" /\ req = "PUSH" => Announcing(conn)
    /\ pc = "read" /\ req = "DATA" => Submitting(conn, calls, queued[calls])

\* The attempt that has not sent its command yet.
Due(m) ==
  IF m = calls /\ (pc = "write" \/ (pc = "read" /\ req # "DATA")) THEN 1 ELSE 0

\* Every attempt sends the command once, and what is sent is queued once.
Counted ==
  \A m \in Calls : queued[m] + Carried(conn, late, m) + Due(m) <= tries[m]

Attempts ==
  \A m \in Calls :
    /\ m > calls => tries[m] = 0
    /\ tries[m] <= IF kind[m] = "command" THEN 1 ELSE 2
    /\ kind[m] = "command" => lang = "Perl"

Reported ==
  \A m \in Calls :
    /\ result[m] = "ok" => queued[m] >= 1
    /\ result[m] = "doubtful" => lang = "Python"

Inv == Typed /\ Untouched /\ Dialogue /\ Counted /\ Attempts /\ Reported

\* Short sequences of answers.
LEMMA Answers ==
  ASSUME NEW a \in Responses, NEW b \in Responses
  PROVE  /\ Append(<<>>, a) = <<a>> /\ Append(<<a>>, b) = <<a, b>> /\ <<>> \o <<a>> = <<a>>
         /\ Head(<<a>>) = a /\ Head(<<a, b>>) = a
         /\ SubSeq(<<a>>, 2, 1) = <<>> /\ SubSeq(<<a, b>>, 3, 2) = <<>>
         /\ SubSeq(<<a, b>>, 2, 2) = <<b>>
<1>1. <<a>> \in Seq(Responses) /\ <<a, b>> \in Seq(Responses) /\ <<>> \in Seq(Responses) /\ <<b>> \in Seq(Responses)
      BY EmptySeq
<1>2. PICK p, q, r : p = <<a>> /\ q = <<a, b>> /\ r = <<b>>
      OBVIOUS
<1>3. /\ Len(p) = 1 /\ p[1] = a /\ Len(q) = 2 /\ q[1] = a /\ q[2] = b /\ Len(r) = 1 /\ r[1] = b
      BY <1>2
<1>4. p \in Seq(Responses) /\ q \in Seq(Responses) /\ r \in Seq(Responses)
      BY <1>1, <1>2
<1>5. Append(p, b) = q
  <2>1. PICK t : t = Append(p, b)
        OBVIOUS
  <2>2. /\ t \in Seq(Responses) /\ Len(t) = Len(p) + 1
        /\ \A i \in 1..Len(p) : t[i] = p[i]
        /\ t[Len(p) + 1] = b
        BY <2>1, <1>4, AppendProperties, Zenon, SMTT(30)
  <2>3. Len(t) = 2 /\ t[1] = a /\ t[2] = b
        BY <2>2, <1>3
  <2>4. t = q
        BY <2>2, <2>3, <1>3, <1>4, SeqEqual
  <2> QED BY <2>1, <2>4
<1>6. Append(<<>>, a) = <<a>>
      BY EmptySeq
<1>7. <<>> \o p = p
      BY <1>4, ConcatEmptySeq
<1>8. SubSeq(p, 2, 1) = <<>> /\ SubSeq(q, 3, 2) = <<>>
      BY SubSeqEmpty
<1>9. SubSeq(q, 2, 2) = r
  <2>1. \A i \in 2..2 : q[i] \in Responses
        BY <1>3
  <2>2. SubSeq(q, 2, 2) \in Seq(Responses) /\ Len(SubSeq(q, 2, 2)) = 1
        BY <2>1, SubSeqProperties
  <2>3. SubSeq(q, 2, 2)[1] = b
        BY <2>1, <1>3, SubSeqProperties
  <2> QED BY <2>2, <2>3, <1>3, <1>4, SeqEqual
<1> QED BY <1>2, <1>5, <1>6, <1>7, <1>8, <1>9

-----------------------------------------------------------------------------
(* Every step preserves the invariant.                                     *)

\* The sums are numbers.
LEMMA CarriedType ==
  ASSUME NEW c \in Conns, NEW l \in Seq(Conns)
  PROVE  \A m \in Calls : Carried(c, l, m) \in Nat /\ Due(m) \in 0..1
BY LoadType DEF Carried, Due

\* An attempt that fails.
LEMMA EndedKeeps ==
  ASSUME Inv, pc \in {"write", "read"}, NEW c \in Conns, NEW l \in Seq(Conns), Ended(c, l),
         \A m \in Calls : Carried(c, l, m) <= Carried(conn, late, m),
         UNCHANGED <<lang, calls, kind, queued>>
  PROVE  Inv'
<1>0. Typed /\ Untouched /\ Dialogue /\ Counted /\ Attempts /\ Reported
      BY DEF Inv
<1>t. /\ calls \in Calls /\ tries \in [Calls -> 0..2] /\ queued \in [Calls -> Nat]
      /\ result \in [Calls -> {"none", "ok", "doubtful", "error"}]
      /\ conn \in Conns /\ late \in Seq(Conns)
      BY <1>0 DEF Typed
<1>1. Left /\ (Returned \/ Restarted)
      BY DEF Ended
<1>n. Calls \subseteq Nat
      BY DEF Calls
<1>2. Typed'
  <2>1. /\ tries' \in [Calls -> 0..2] /\ tries'[calls] \in 1..2
        /\ result' \in [Calls -> {"none", "ok", "doubtful", "error"}]
    <3>1. tries[calls] \in 1..2
          BY <1>0 DEF Typed
    <3>2. CASE Returned
          BY <3>1, <3>2, <1>t DEF Returned
    <3>3. CASE Restarted
      <4>1. result' = result /\ tries' = [tries EXCEPT ![calls] = 2] /\ 2 \in 0..2
            BY <3>3 DEF Restarted
      <4>2. tries' \in [Calls -> 0..2] /\ tries'[calls] = 2
            BY <4>1, <1>t
      <4> QED BY <4>1, <4>2, <1>t
    <3> QED BY <3>2, <3>3, <1>1
  <2>2. /\ pc' \in {"idle", "write"} /\ req' = "MOIN"
        /\ pc' = "write" => state' = "NEW"
        BY <1>1 DEF Returned, Restarted
  <2>3. kept' \in BOOLEAN
        BY <1>1, Zenon DEF Left
  <2> QED BY <1>0, <1>1, <1>t, <2>1, <2>2, <2>3 DEF Typed, Left
<1>3. Untouched'
      BY <1>1 DEF Untouched, Left
<1>4. Dialogue'
      BY <1>1 DEF Dialogue, Left, Returned, Restarted
<1>5. Counted'
  <2> SUFFICES ASSUME NEW m \in Calls
               PROVE  queued'[m] + Carried(conn', late', m) + Due(m)' <= tries'[m]
      BY DEF Counted
  <2>1. /\ Carried(conn, late, m) \in Nat /\ Carried(conn', late', m) \in Nat
        /\ Carried(c, l, m) \in Nat /\ Due(m) \in 0..1
        BY <1>t, <1>1, CarriedType DEF Left
  <2>2. Carried(conn', late', m) <= Carried(conn, late, m)
        BY <2>1 DEF Ended
  <2>3. queued[m] + Carried(conn, late, m) + Due(m) <= tries[m] /\ queued[m] \in Nat /\ tries[m] \in 0..2
        BY <1>0, <1>t DEF Counted
  <2>4. CASE Returned
    <3>1. Due(m)' = 0 /\ tries' = tries
          BY <2>4 DEF Returned, Due
    <3> QED BY <3>1, <2>1, <2>2, <2>3
  <2>5. CASE Restarted
    <3>1. Due(m)' = IF m = calls THEN 1 ELSE 0
          BY <2>5 DEF Restarted, Due
    <3>2. tries'[m] = IF m = calls THEN tries[m] + 1 ELSE tries[m]
          BY <2>5, <1>t DEF Restarted
    <3> QED BY <3>1, <3>2, <2>1, <2>2, <2>3, SMTT(30)
  <2> QED BY <2>4, <2>5, <1>1
<1>6. Attempts'
      BY <1>0, <1>1, <1>t, <1>n DEF Attempts, Returned, Restarted, Typed
<1>7. Reported'
      BY <1>0, <1>1, <1>t DEF Reported, Returned, Restarted
<1> QED BY <1>2, <1>3, <1>4, <1>5, <1>6, <1>7 DEF Inv

\* Steps of the server and of the network, which leave the client alone: the
\* invariant is a matter of the connections.
LEMMA NetworkKeeps ==
  ASSUME Inv, UNCHANGED clientVars, conn' \in Conns, late' \in Seq(Conns),
         queued' \in [Calls -> Nat], \A m \in Calls : queued'[m] >= queued[m],
         Untouched', Dialogue',
         \A m \in Calls :
           queued'[m] + Carried(conn', late', m) <= queued[m] + Carried(conn, late, m)
  PROVE  Inv'
<1>0. Typed /\ Counted /\ Attempts /\ Reported
      BY DEF Inv
<1>1. Typed'
      BY <1>0 DEF Typed, clientVars
<1>2. Counted'
  <2> SUFFICES ASSUME NEW m \in Calls
               PROVE  queued'[m] + Carried(conn', late', m) + Due(m)' <= tries'[m]
      BY DEF Counted
  <2>1. Due(m)' = Due(m) /\ tries' = tries
        BY DEF Due, clientVars
  <2>2. /\ conn \in Conns /\ late \in Seq(Conns) /\ tries[m] \in 0..2
        /\ queued[m] \in Nat /\ queued'[m] \in Nat
        BY <1>0 DEF Typed
  <2>3. /\ Carried(conn, late, m) \in Nat /\ Carried(conn', late', m) \in Nat
        /\ Due(m) \in 0..1
        BY <2>2, CarriedType
  <2>4. queued[m] + Carried(conn, late, m) + Due(m) <= tries[m]
        BY <1>0 DEF Counted
  <2> QED BY <2>1, <2>2, <2>3, <2>4
<1>3. Attempts'
      BY <1>0 DEF Attempts, clientVars
<1>4. Reported'
  <2>1. \A m \in Calls : queued[m] \in Nat /\ queued'[m] \in Nat
        BY <1>0 DEF Typed
  <2> QED BY <1>0, <2>1 DEF Reported, clientVars
<1> QED BY <1>1, <1>2, <1>3, <1>4 DEF Inv

\* The same of a connection that was closed by the client, or by the network.
LEMMA LateKeeps ==
  ASSUME Inv, UNCHANGED <<clientVars, conn>>, late' \in Seq(Conns),
         queued' \in [Calls -> Nat], \A m \in Calls : queued'[m] >= queued[m],
         \A m \in Calls :
           queued'[m] + Carried(conn, late', m) <= queued[m] + Carried(conn, late, m)
  PROVE  Inv'
<1>0. Typed /\ Untouched /\ Dialogue
      BY DEF Inv
<1>1. conn' \in Conns
      BY <1>0 DEF Typed
<1>2. Untouched'
      BY <1>0 DEF Untouched, clientVars
<1>3. Dialogue'
  <2>1. pc = "read" => calls \in Calls
        BY <1>0 DEF Typed
  <2>2. calls \in Calls => queued[calls] \in Nat /\ queued'[calls] \in Nat /\ queued'[calls] >= queued[calls]
        BY <1>0 DEF Typed
  <2> QED BY <1>0, <2>1, <2>2 DEF Dialogue, Submitting, clientVars
<1> QED BY <1>1, <1>2, <1>3, NetworkKeeps DEF clientVars

-----------------------------------------------------------------------------
(* The server's part in the dialogue.                                      *)

\* A piece that moves from one sequence to the other.
LEMMA Shift ==
  ASSUME NEW S, NEW p \in Seq(S), NEW q \in Seq(S), q # <<>>
  PROVE  /\ Append(p, Head(q)) \o Tail(q) = p \o q
         /\ Append(p, Head(q)) \in Seq(S) /\ Tail(q) \in Seq(S)
         /\ Len(Append(p, Head(q))) + Len(Tail(q)) = Len(p \o q)
         /\ Len(Append(p, Head(q))) \in Nat /\ Len(Tail(q)) \in Nat
<1>1. Head(q) \in S /\ Tail(q) \in Seq(S) /\ <<Head(q)>> \in Seq(S)
      BY HeadTailProperties
<1>2. q = <<Head(q)>> \o Tail(q)
  <2>1. PICK n \in Nat : n = Len(q)
        BY LenProperties
  <2>2. SubSeq(q, 1, n) = <<q[1]>> \o SubSeq(q, 2, n)
    <3>1. 1 \in 1..Len(q) /\ n \in 1..Len(q)
          BY <2>1, EmptySeq, LenProperties
    <3>2. SubSeq(q, 1, n) = <<q[1]>> \o SubSeq(q, 1 + 1, n)
          BY <3>1, SubSeqRecursiveFirst
    <3>3. 1 + 1 = 2
          OBVIOUS
    <3> QED BY <3>2, <3>3
  <2>3. SubSeq(q, 1, n) = q
        BY <2>1, SubSeqFull
  <2>4. Tail(q) = SubSeq(q, 2, n)
        BY <2>1, TailIsSubSeq
  <2>5. Head(q) = q[1]
        BY HeadTailProperties
  <2> QED BY <2>2, <2>3, <2>4, <2>5
<1>3. Append(p, Head(q)) = p \o <<Head(q)>>
      BY <1>1, AppendIsConcat
<1>4. (p \o <<Head(q)>>) \o Tail(q) = p \o (<<Head(q)>> \o Tail(q))
      BY <1>1, ConcatAssociative
<1>5. Append(p, Head(q)) \o Tail(q) = p \o q
      BY <1>2, <1>3, <1>4
<1>6. Append(p, Head(q)) \in Seq(S)
      BY <1>1, AppendProperties
<1>7. Len(Append(p, Head(q)) \o Tail(q)) = Len(Append(p, Head(q))) + Len(Tail(q))
      BY <1>1, <1>6, ConcatProperties
<1> QED BY <1>1, <1>5, <1>6, <1>7, LenProperties

\* A handler's answer to the only request there is.
LEMMA OneAnswer ==
  ASSUME NEW c \in AnyConn, NEW p, c.to = <<p>>, c.input = <<>>, c.from = <<>>,
         NEW s \in Sessions, s # "closed", NEW a \in Responses, NEW q,
         NEW o \in Outcome(c, s, <<a>>, q)
  PROVE  Answered(o.conn, a, s) /\ o.queue = q
<1>1. c.to # <<>> /\ Tail(c.to) = <<>>
      OBVIOUS
<1>2. <<a>> \in Seq(Responses)
      OBVIOUS
<1>3. After(o, c, s, <<a>>, q)
      BY <1>1, <1>2, OutcomeFacts, Zenon
<1>4. /\ o.queue = q /\ o.conn.session = s
      /\ o.conn.to = (IF s = "closed" THEN <<>> ELSE Tail(c.to))
      /\ o.conn.from = c.from \o <<a>> /\ o.conn.input = c.input
      BY <1>3 DEF After
<1>5. c.from \o <<a>> = <<a>>
      BY <1>2, Answers
<1> QED BY <1>1, <1>4, <1>5 DEF Answered

\* The server greets.
LEMMA ServeGreeting ==
  ASSUME NEW c \in Conns, NEW o \in Serve(c), Greeting(c)
  PROVE  Greeting(o.conn)
<1>1. c.to # <<>> /\ c.session # "closed" /\ c \in AnyConn
      BY ServeCases DEF TookLine, TookPart, TookAll, Conns
<1>2. /\ c.input = <<>> /\ c.to = <<Line("MOIN")>>
      /\ c.session = "handle_handshake" /\ c.from = <<>>
      BY <1>1 DEF Greeting, Dead, Answered
<1>3. Head(c.to).kw = "MOIN"
      BY <1>2 DEF Line
<1>4. o \in handle_handshake(c, Head(c.to))
      BY <1>1, <1>2 DEF Serve
<1>5. \/ o \in Outcome(c, "handle_connection", <<"MOIN">>, 0)
      \/ \E a \in {"version", "other"} : o \in Outcome(c, "handle_handshake", <<a>>, 0)
      BY <1>2, <1>3, <1>4 DEF handle_handshake
<1>6. CASE o \in Outcome(c, "handle_connection", <<"MOIN">>, 0)
  <2>1. Answered(o.conn, "MOIN", "handle_connection")
        BY <1>1, <1>2, <1>6, OneAnswer DEF Responses, Sessions
  <2> QED BY <2>1 DEF Greeting
<1>7. ASSUME NEW a \in {"version", "other"}, o \in Outcome(c, "handle_handshake", <<a>>, 0)
      PROVE  Greeting(o.conn)
  <2>1. Answered(o.conn, a, "handle_handshake")
        BY <1>1, <1>2, <1>7, OneAnswer DEF Responses, Sessions
  <2> QED BY <2>1 DEF Greeting
<1> QED BY <1>5, <1>6, <1>7

\* The server expects a command, or not.
LEMMA ServeAnnouncing ==
  ASSUME NEW c \in Conns, NEW o \in Serve(c), Announcing(c)
  PROVE  Announcing(o.conn)
<1>1. c.to # <<>> /\ c.session # "closed" /\ c \in AnyConn
      BY ServeCases DEF TookLine, TookPart, TookAll, Conns
<1>2. /\ c.input = <<>> /\ c.to = <<Line("PUSH")>>
      /\ c.session = "handle_connection" /\ c.from = <<>>
      BY <1>1 DEF Announcing, Dead, Answered
<1>3. Head(c.to).kw = "PUSH"
      BY <1>2 DEF Line
<1>4. o \in handle_connection(c, Head(c.to))
      BY <1>1, <1>2 DEF Serve
<1>5. \/ o \in Outcome(c, "handle_push", <<"OKAY">>, 0)
      \/ o \in Outcome(c, "handle_connection", <<"FAIL">>, 0)
      BY <1>2, <1>3, <1>4 DEF handle_connection
<1>6. CASE o \in Outcome(c, "handle_push", <<"OKAY">>, 0)
  <2>1. Answered(o.conn, "OKAY", "handle_push")
        BY <1>1, <1>2, <1>6, OneAnswer DEF Responses, Sessions
  <2> QED BY <2>1 DEF Announcing
<1>7. CASE o \in Outcome(c, "handle_connection", <<"FAIL">>, 0)
  <2>1. Answered(o.conn, "FAIL", "handle_connection")
        BY <1>1, <1>2, <1>7, OneAnswer DEF Responses, Sessions
  <2> QED BY <2>1 DEF Announcing
<1> QED BY <1>5, <1>6, <1>7

\* The server queues the command that was sent, and no other.
LEMMA ServeSubmitting ==
  ASSUME NEW c \in Conns, NEW o \in Serve(c), NEW n \in Calls, NEW copies \in Nat,
         Submitting(c, n, copies)
  PROVE  Submitting(o.conn, n, copies + (IF o.queue = n THEN 1 ELSE 0))
<1>1. c.to # <<>> /\ c.session # "closed" /\ c \in AnyConn
      BY ServeCases DEF TookLine, TookPart, TookAll, Conns
<1>2. c.input \o c.to = Data(n) /\ c.session = "handle_push" /\ c.from = <<>>
      BY <1>1 DEF Submitting, Dead, Answered, Asked
<1>t. c.to \in Seq(Pieces) /\ c.input \in Seq(Pieces)
      BY <1>1 DEF AnyConn
<1>3. /\ Got(c) \o Tail(c.to) = Data(n)
      /\ Got(c) \in Seq(Pieces) /\ Tail(c.to) \in Seq(Pieces)
      /\ Len(Got(c)) + Len(Tail(c.to)) = DataSize
      /\ Len(Got(c)) \in Nat /\ Len(Tail(c.to)) \in Nat
  <2>1. Len(Data(n)) = DataSize
        BY PieceFacts
  <2>2. /\ Append(c.input, Head(c.to)) \o Tail(c.to) = c.input \o c.to
        /\ Append(c.input, Head(c.to)) \in Seq(Pieces) /\ Tail(c.to) \in Seq(Pieces)
        /\ Len(Append(c.input, Head(c.to))) + Len(Tail(c.to)) = Len(c.input \o c.to)
        /\ Len(Append(c.input, Head(c.to))) \in Nat /\ Len(Tail(c.to)) \in Nat
        BY <1>1, <1>t, Shift, Zenon
  <2> QED BY <2>1, <2>2, <1>2, Zenon DEF Got
<1>4. CASE TookPart(c, o)
  <2> DEFINE d == [c EXCEPT !.input = Got(c)]
  <2>1. d \in AnyConn /\ d.to = c.to /\ d.input = Got(c) /\ d.from = <<>>
        BY <1>1, <1>2, <1>3 DEF AnyConn
  <2>2. PICK s \in Sessions, a \in Seq(Responses) :
          s = "handle_push" /\ a = <<>> /\ o \in Outcome(d, s, a, 0)
        BY <1>4, EmptySeq DEF TookPart, Sessions
  <2>3. Len(Got(c)) < DataSize
        BY <1>4 DEF TookPart
  <2> HIDE DEF d
  <2>4. d.to # <<>>
        BY <2>1, <1>1
  <2>o. After(o, d, s, a, 0)
        BY <2>1, <2>2, <2>4, OutcomeFacts, Zenon
  <2>5. /\ o.queue = 0 /\ o.conn.session = s
        /\ o.conn.to = (IF s = "closed" THEN <<>> ELSE Tail(d.to))
        /\ o.conn.from = d.from \o a /\ o.conn.input = d.input
        BY <2>o DEF After
  <2>6. Tail(c.to) # <<>>
    <3>1. Len(Tail(c.to)) # 0
      <4>1. PICK i, j : i = Len(Got(c)) /\ j = Len(Tail(c.to))
            OBVIOUS
      <4>2. i \in Nat /\ j \in Nat /\ i + j = DataSize /\ i < DataSize
            BY <4>1, <2>3, <1>3, Zenon
      <4>3. j # 0
            BY <4>2
      <4> QED BY <4>1, <4>3
    <3> QED BY <3>1, EmptySeq
  <2>7. d.from \o a = <<>>
        BY <2>1, <2>2, EmptySeq, ConcatEmptySeq
  <2>8. Asked(o.conn, Data(n), "handle_push")
        BY <2>1, <2>2, <2>5, <2>6, <2>7, <1>3 DEF Asked
  <2> QED BY <2>8 DEF Submitting
<1>5. ASSUME NEW r \in Responses, NEW q \in 0..MaxCalls, TookAll(c, o, r, q)
      PROVE  Submitting(o.conn, n, copies + (IF o.queue = n THEN 1 ELSE 0))
  <2> DEFINE d == [c EXCEPT !.input = <<>>]
  <2>1. d \in AnyConn /\ d.to = c.to /\ d.input = <<>> /\ d.from = <<>>
        BY <1>1, <1>2, EmptySeq DEF AnyConn
  <2>2. PICK s \in Sessions, a \in Seq(Responses) :
          s = "handle_connection" /\ a = <<r>> /\ o \in Outcome(d, s, a, q)
    <3>1. <<r>> \in Seq(Responses) /\ "handle_connection" \in Sessions
          BY DEF Sessions
    <3>2. o \in Outcome(d, "handle_connection", <<r>>, q)
          BY <1>5 DEF TookAll
    <3> QED BY <3>1, <3>2, Zenon
  <2>3. /\ Len(Got(c)) >= DataSize
        /\ \/ r = "FAIL" /\ q = 0
           \/ r = "OKAY" /\ q \in Calls /\ Got(c) = Data(q)
        BY <1>5 DEF TookAll
  <2> HIDE DEF d
  <2>4. d.to # <<>>
        BY <2>1, <1>1
  <2>o. After(o, d, s, a, q)
        BY <2>1, <2>2, <2>4, OutcomeFacts, Zenon
  <2>5. /\ o.queue = q /\ o.conn.session = s
        /\ o.conn.to = (IF s = "closed" THEN <<>> ELSE Tail(d.to))
        /\ o.conn.from = d.from \o a /\ o.conn.input = d.input
        BY <2>o DEF After
  <2>6. Tail(c.to) = <<>>
        BY <2>3, <1>3, BindingAssumption, EmptySeq
  <2>7. Got(c) = Data(n)
        BY <2>6, <1>3, ConcatEmptySeq
  <2>8. d.from \o a = <<r>>
        BY <2>1, <2>2, Answers
  <2>9. Answered(o.conn, r, "handle_connection")
        BY <2>1, <2>2, <2>5, <2>6, <2>8 DEF Answered
  <2>10. CASE r = "FAIL"
        BY <2>9, <2>10 DEF Submitting
  <2>11. CASE r = "OKAY"
    <3>1. Data(q) = Data(n) /\ q \in Calls
          BY <2>3, <2>7, <2>11
    <3>2. Data(q)[1] = Data(n)[1]
          BY <3>1
    <3>3. q = n
          BY <3>1, <3>2, BindingAssumption DEF Data
    <3>4. copies + (IF o.queue = n THEN 1 ELSE 0) >= 1
          BY <3>3, <2>5
    <3> QED BY <3>4, <2>9, <2>11 DEF Submitting
  <2> QED BY <2>3, <2>10, <2>11
<1> QED BY <1>2, <1>4, <1>5, ServeCases DEF TookLine

-----------------------------------------------------------------------------
(* The steps of the server and of the network.                             *)

\* Queueing counts.
LEMMA QueueFacts ==
  ASSUME Typed, NEW q \in 0..MaxCalls, Queue(q)
  PROVE  /\ queued' \in [Calls -> Nat]
         /\ \A m \in Calls :
              /\ queued'[m] = queued[m] + (IF q = m THEN 1 ELSE 0)
              /\ queued'[m] >= queued[m] /\ queued[m] \in Nat
<1>1. queued \in [Calls -> Nat] /\ \A m \in Calls : m # 0 /\ queued[m] \in Nat
      BY DEF Typed, Calls
<1>2. CASE q = 0
      BY <1>1, <1>2 DEF Queue
<1>3. CASE q # 0
  <2>1. q \in Calls /\ queued' = [queued EXCEPT ![q] = queued[q] + 1]
        BY <1>3, BindingAssumption DEF Queue, Calls
  <2>2. queued[q] + 1 \in Nat
        BY <2>1, <1>1
  <2>3. queued' \in [Calls -> Nat]
        BY <2>1, <2>2, <1>1
  <2> QED BY <2>1, <2>3, <1>1
<1> QED BY <1>2, <1>3

\* The server reads the next piece.
LEMMA ServerStepKeeps == Inv /\ ServerStep => Inv'
<1> SUFFICES ASSUME Inv, ServerStep PROVE Inv'
    OBVIOUS
<1>0. Typed /\ Untouched /\ Dialogue
      BY DEF Inv
<1>c. conn \in Conns /\ late \in Seq(Conns)
      BY <1>0 DEF Typed
<1>1. PICK o \in Serve(conn) : conn' = o.conn /\ Queue(o.queue)
      BY DEF ServerStep
<1>2. late' = late /\ UNCHANGED clientVars
      BY DEF ServerStep
<1>3. conn.to # <<>>
      BY <1>c, ServeCases
<1>4. /\ conn' \in Conns /\ o.queue \in 0..MaxCalls /\ conn'.io = conn.io
      /\ \A m \in Calls : Load(conn', m) + (IF o.queue = m THEN 1 ELSE 0) <= Load(conn, m)
      BY <1>c, <1>1, ServeFacts
<1>5. /\ queued' \in [Calls -> Nat]
      /\ \A m \in Calls :
           /\ queued'[m] = queued[m] + (IF o.queue = m THEN 1 ELSE 0)
           /\ queued'[m] >= queued[m] /\ queued[m] \in Nat
      BY <1>0, <1>1, <1>4, QueueFacts
<1>6. ASSUME NEW m \in Calls
      PROVE  queued'[m] + Carried(conn', late', m) <= queued[m] + Carried(conn, late, m)
  <2>1. Load(conn, m) \in Nat /\ Load(conn', m) \in Nat /\ Weigh(late, Loads(m)) \in Nat
        BY <1>c, <1>4, LoadType
  <2>2. Load(conn', m) + (IF o.queue = m THEN 1 ELSE 0) <= Load(conn, m)
        BY <1>4
  <2>3. queued'[m] = queued[m] + (IF o.queue = m THEN 1 ELSE 0) /\ queued[m] \in Nat
        BY <1>5
  <2>4. /\ Carried(conn', late', m) = Load(conn', m) + Weigh(late, Loads(m))
        /\ Carried(conn, late, m) = Load(conn, m) + Weigh(late, Loads(m))
        BY <1>2 DEF Carried
  <2> QED BY <2>1, <2>2, <2>3, <2>4
<1>7. conn # Fresh /\ ~Quiet(conn, "handle_connection") /\ ~Quiet(conn, "handle_push")
      BY <1>3 DEF Fresh, Quiet
<1>8. Untouched'
      BY <1>0, <1>4, <1>7 DEF Untouched
<1>9. Dialogue'
  <2> SUFFICES ASSUME ~kept, pc # "gone"
               PROVE  /\ pc = "read"
                      /\ req = "MOIN" => Greeting(conn')
                      /\ req = "PUSH" => Announcing(conn')
                      /\ req = "DATA" => Submitting(conn', calls, queued'[calls])
      BY <1>2 DEF Dialogue, clientVars
  <2>1. CASE pc = "read"
    <3>1. calls \in Calls /\ queued[calls] \in Nat
          BY <2>1, <1>0 DEF Typed
    <3>2. req = "MOIN" => Greeting(conn')
          BY <2>1, <1>0, <1>c, <1>1, ServeGreeting DEF Dialogue
    <3>3. req = "PUSH" => Announcing(conn')
          BY <2>1, <1>0, <1>c, <1>1, ServeAnnouncing DEF Dialogue
    <3>4. req = "DATA" => Submitting(conn', calls, queued[calls] + (IF o.queue = calls THEN 1 ELSE 0))
          BY <2>1, <3>1, <1>0, <1>c, <1>1, ServeSubmitting DEF Dialogue
    <3> QED BY <2>1, <3>1, <3>2, <3>3, <3>4, <1>5
  <2> QED BY <2>1, <1>0, <1>7 DEF Typed, Dialogue
<1> QED BY <1>2, <1>4, <1>5, <1>6, <1>8, <1>9, <1>c, NetworkKeeps

\* The server reads the next piece on a connection that the client has closed.
LEMMA LateStepKeeps == Inv /\ LateStep => Inv'
<1> SUFFICES ASSUME Inv, LateStep PROVE Inv'
    OBVIOUS
<1>0. Typed
      BY DEF Inv
<1>c. conn \in Conns /\ late \in Seq(Conns)
      BY <1>0 DEF Typed
<1>1. PICK i \in 1..Len(late) : \E o \in Serve(late[i]) :
         /\ late' = IF Finished(o.conn) THEN RemoveAt(late, i)
                    ELSE [late EXCEPT ![i] = [o.conn EXCEPT !.from = <<>>]]
         /\ Queue(o.queue)
      BY DEF LateStep
<1>2. PICK o \in Serve(late[i]) :
         /\ late' = IF Finished(o.conn) THEN RemoveAt(late, i)
                    ELSE [late EXCEPT ![i] = [o.conn EXCEPT !.from = <<>>]]
         /\ Queue(o.queue)
      BY <1>1
<1>3. UNCHANGED <<clientVars, conn>>
      BY DEF LateStep
<1>i. late[i] \in Conns
      BY <1>c, ElementOfSeq
<1>4. /\ o.conn \in Conns /\ o.queue \in 0..MaxCalls
      /\ \A m \in Calls : Load(o.conn, m) + (IF o.queue = m THEN 1 ELSE 0) <= Load(late[i], m)
      BY <1>i, ServeFacts
<1>5. /\ queued' \in [Calls -> Nat]
      /\ \A m \in Calls :
           /\ queued'[m] = queued[m] + (IF o.queue = m THEN 1 ELSE 0)
           /\ queued'[m] >= queued[m] /\ queued[m] \in Nat
      BY <1>0, <1>2, <1>4, QueueFacts
<1> DEFINE e == [o.conn EXCEPT !.from = <<>>]
           l == [late EXCEPT ![i] = e]
<1>6. e \in Conns /\ e.to = o.conn.to /\ e.input = o.conn.input
      BY <1>4, EmptySeq DEF Conns, AnyConn
<1>7. \A m \in Calls : Load(e, m) = Load(o.conn, m)
      BY <1>6 DEF Load
<1>8. late' = IF Finished(o.conn) THEN RemoveAt(late, i) ELSE l
      BY <1>2
<1> HIDE DEF e
<1>9. /\ l \in Seq(Conns) /\ Len(l) = Len(late)
      /\ \A j \in 1..Len(late) : l[j] = IF j = i THEN e ELSE late[j]
      BY <1>c, <1>6, ExceptSeq
<1> HIDE DEF l
<1>10. SameBut(late, l, i) /\ l[i] = e
      BY <1>9 DEF SameBut
<1>11. ASSUME NEW m \in Calls
       PROVE  queued'[m] + Carried(conn, late', m) <= queued[m] + Carried(conn, late, m)
  <2>1. Loads(m) \in [Conns -> Nat]
        BY LoadType
  <2>2. Weigh(RemoveAt(late, i), Loads(m)) + Loads(m)[late[i]] = Weigh(late, Loads(m))
        BY <2>1, <1>c, WeighRemove
  <2>3. Balanced(Weigh(l, Loads(m)), Loads(m)[late[i]], Weigh(late, Loads(m)), Loads(m)[l[i]])
        BY <2>1, <1>c, <1>9, <1>10, WeighExcept
  <2>4. Loads(m)[late[i]] = Load(late[i], m) /\ Loads(m)[l[i]] = Load(o.conn, m)
        BY <1>i, <1>6, <1>7, <1>10, LoadType
  <2>5. /\ Weigh(late, Loads(m)) \in Nat /\ Weigh(l, Loads(m)) \in Nat
        /\ Weigh(RemoveAt(late, i), Loads(m)) \in Nat
        BY <2>1, <1>c, <1>9, WeighRemove, WeighType
  <2>6. Load(late[i], m) \in Nat /\ Load(o.conn, m) \in Nat /\ Load(conn, m) \in Nat
        BY <1>i, <1>4, <1>c, LoadType
  <2>7. Weigh(l, Loads(m)) + Load(late[i], m) = Weigh(late, Loads(m)) + Load(o.conn, m)
        BY <2>3, <2>4 DEF Balanced
  <2>8. Weigh(RemoveAt(late, i), Loads(m)) + Load(late[i], m) = Weigh(late, Loads(m))
        BY <2>2, <2>4
  <2>9. /\ queued'[m] = queued[m] + (IF o.queue = m THEN 1 ELSE 0) /\ queued[m] \in Nat
        /\ Load(o.conn, m) + (IF o.queue = m THEN 1 ELSE 0) <= Load(late[i], m)
        BY <1>4, <1>5
  <2>12. ASSUME NEW x \in Nat, x = Weigh(late', Loads(m)),
                queued'[m] + x <= queued[m] + Weigh(late, Loads(m))
         PROVE  queued'[m] + Carried(conn, late', m) <= queued[m] + Carried(conn, late, m)
    <3>1. Carried(conn, late', m) = Load(conn, m) + x
          BY <2>12 DEF Carried
    <3>2. Carried(conn, late, m) = Load(conn, m) + Weigh(late, Loads(m))
          BY DEF Carried
    <3>3. queued'[m] \in Nat
          BY <2>9
    <3>4. PICK a, b, y, z : a = queued'[m] /\ b = queued[m] /\ y = Load(conn, m)
                              /\ z = Weigh(late, Loads(m))
          OBVIOUS
    <3>5. a \in Nat /\ b \in Nat /\ y \in Nat /\ z \in Nat /\ a + x <= b + z
          BY <3>3, <3>4, <2>5, <2>6, <2>9, <2>12, Zenon
    <3>6. a + (y + x) <= b + (y + z)
          BY <3>5
    <3> QED BY <3>1, <3>2, <3>4, <3>6, Zenon
  <2>10. CASE Finished(o.conn)
    <3>1. late' = RemoveAt(late, i)
          BY <2>10, <1>8
    <3>2. queued'[m] + Weigh(late', Loads(m)) <= queued[m] + Weigh(late, Loads(m))
          BY <3>1, <2>5, <2>6, <2>8, <2>9, SMTT(30)
    <3>3. Weigh(late', Loads(m)) \in Nat
          BY <3>1, <2>5
    <3> QED BY <3>2, <3>3, <2>12
  <2>11. CASE ~Finished(o.conn)
    <3>1. late' = l
          BY <2>11, <1>8
    <3>2. queued'[m] + Weigh(late', Loads(m)) <= queued[m] + Weigh(late, Loads(m))
          BY <3>1, <2>5, <2>6, <2>7, <2>9, SMTT(30)
    <3>3. Weigh(late', Loads(m)) \in Nat
          BY <3>1, <2>5
    <3> QED BY <3>2, <3>3, <2>12
  <2> QED BY <2>10, <2>11
<1>12. late' \in Seq(Conns)
  <2>1. RemoveAt(late, i) \in Seq(Conns)
    <3>1. PICK w : w = [c \in Conns |-> 0]
          OBVIOUS
    <3>2. w \in [Conns -> Nat]
          BY <3>1
    <3> QED BY <3>2, <1>c, WeighRemove
  <2> QED BY <2>1, <1>8, <1>9
<1> QED BY <1>3, <1>5, <1>11, <1>12, LateKeeps

\* A connection that the client has closed breaks.
LEMMA LateBreakKeeps == Inv /\ LateBreak => Inv'
<1> SUFFICES ASSUME Inv, LateBreak PROVE Inv'
    OBVIOUS
<1>0. /\ conn \in Conns /\ late \in Seq(Conns) /\ queued \in [Calls -> Nat]
      BY DEF Inv, Typed
<1>1. PICK i \in 1..Len(late) : late' = RemoveAt(late, i)
      BY DEF LateBreak
<1>2. UNCHANGED <<clientVars, conn>> /\ queued' = queued
      BY DEF LateBreak
<1>i. late[i] \in Conns
      BY <1>0, ElementOfSeq
<1>3. \A m \in Calls : queued[m] \in Nat /\ queued'[m] >= queued[m]
      BY <1>0, <1>2
<1>4. ASSUME NEW m \in Calls
      PROVE  queued'[m] + Carried(conn, late', m) <= queued[m] + Carried(conn, late, m)
  <2>1. /\ Loads(m) \in [Conns -> Nat] /\ Load(conn, m) \in Nat
        BY <1>0, LoadType
  <2>2. /\ RemoveAt(late, i) \in Seq(Conns)
        /\ Weigh(RemoveAt(late, i), Loads(m)) + Loads(m)[late[i]] = Weigh(late, Loads(m))
        BY <2>1, <1>0, WeighRemove
  <2>3. /\ Weigh(RemoveAt(late, i), Loads(m)) \in Nat /\ Loads(m)[late[i]] \in Nat
        /\ Weigh(late, Loads(m)) \in Nat
        BY <2>1, <2>2, <1>0, <1>i, WeighType
  <2>4. Weigh(late', Loads(m)) <= Weigh(late, Loads(m)) /\ Weigh(late', Loads(m)) \in Nat
        BY <2>2, <2>3, <1>1
  <2> QED BY <2>1, <2>3, <2>4, <1>2, <1>3 DEF Carried
<1>5. late' \in Seq(Conns)
  <2>1. PICK w : w = [c \in Conns |-> 0]
        OBVIOUS
  <2>2. w \in [Conns -> Nat]
        BY <2>1
  <2> QED BY <2>2, <1>0, <1>1, WeighRemove
<1>6. queued' \in [Calls -> Nat]
      BY <1>0, <1>2
<1> QED BY <1>2, <1>3, <1>4, <1>5, <1>6, LateKeeps

\* What is lost with a connection.
LEMMA LostLoad ==
  ASSUME NEW c \in Conns, NEW d \in Conns, NEW l \in Seq(Conns), d.to = <<>>, d.input = <<>>
  PROVE  \A m \in Calls : Carried(d, l, m) <= Carried(c, l, m)
<1> SUFFICES ASSUME NEW m \in Calls PROVE Carried(d, l, m) <= Carried(c, l, m)
    OBVIOUS
<1>1. Load(d, m) = 0
      BY WeighEmpty DEF Load
<1>2. Load(c, m) \in Nat /\ Weigh(l, Loads(m)) \in Nat
      BY LoadType
<1> QED BY <1>1, <1>2 DEF Carried

\* A timeout of the server.
LEMMA ServerBailKeeps == Inv /\ ServerBail => Inv'
<1> SUFFICES ASSUME Inv, ServerBail PROVE Inv'
    OBVIOUS
<1>0. Typed /\ Untouched /\ Dialogue
      BY DEF Inv
<1>c. conn \in Conns /\ conn \in AnyConn /\ late \in Seq(Conns) /\ queued \in [Calls -> Nat]
      BY <1>0 DEF Typed, Conns
<1>1. /\ conn.session # "closed" /\ conn.io # "fresh"
      /\ UNCHANGED clientVars /\ late' = late /\ queued' = queued
      BY DEF ServerBail
<1>2. PICK f : f = Append(conn.from, "BAIL")
      OBVIOUS
<1>3. f \in Seq(Responses)
      BY <1>2, <1>c, AppendProperties DEF AnyConn, Responses
<1>4. conn' = [conn EXCEPT !.session = "closed", !.to = <<>>, !.input = <<>>, !.from = f]
      BY <1>2 DEF ServerBail
<1>5. /\ conn' \in AnyConn /\ conn'.session = "closed" /\ conn'.to = <<>> /\ conn'.input = <<>>
      /\ conn'.from = f /\ conn'.io = conn.io
      BY <1>3, <1>4, <1>c, EmptySeq DEF AnyConn, Sessions
<1>6. conn' \in Conns
      BY <1>5, EmptySeq, BindingAssumption DEF Conns
<1>7. conn # Fresh
      BY <1>1 DEF Fresh
<1>8. Untouched'
      BY <1>1, <1>5 DEF Untouched
<1>d. ASSUME conn.from = <<>> PROVE Dead(conn')
      BY <1>d, <1>2, <1>5, Answers DEF Dead, Responses
<1>q. ASSUME NEW s, Quiet(conn, s) PROVE Quiet(conn', s)
      BY <1>q, <1>d, <1>1, <1>5 DEF Quiet, Dead
<1>a. ASSUME NEW a \in Responses, NEW s, Answered(conn, a, s) PROVE Answered(conn', a, s)
  <2>1. conn.from = <<a>>
        BY <1>a, <1>1 DEF Answered
  <2>2. f = <<a, "BAIL">>
        BY <2>1, <1>2, Answers, SMTT(30) DEF Responses
  <2> QED BY <2>2, <1>5 DEF Answered
<1>r. {"MOIN", "OKAY", "FAIL", "version", "other"} \subseteq Responses
      BY DEF Responses
<1>9. Dialogue'
  <2> SUFFICES ASSUME ~kept PROVE Dialogue'
      BY <1>1 DEF Dialogue, clientVars
  <2>1. Greeting(conn) => Greeting(conn')
        BY <1>1, <1>d, <1>a, <1>r DEF Greeting, Dead
  <2>2. Announcing(conn) => Announcing(conn')
        BY <1>1, <1>d, <1>a, <1>r DEF Announcing, Dead
  <2>3. Submitting(conn, calls, queued[calls]) => Submitting(conn', calls, queued[calls])
        BY <1>1, <1>d, <1>a, <1>r DEF Submitting, Dead, Asked
  <2> QED BY <2>1, <2>2, <2>3, <1>0, <1>1, <1>7, <1>q DEF Dialogue, clientVars
<1>10. \A m \in Calls : queued'[m] >= queued[m] /\ queued[m] \in Nat
      BY <1>1, <1>c
<1>11. \A m \in Calls :
         queued'[m] + Carried(conn', late', m) <= queued[m] + Carried(conn, late, m)
  <2>1. \A m \in Calls : Carried(conn', late, m) <= Carried(conn, late, m)
        BY <1>5, <1>6, <1>c, LostLoad
  <2>2. \A m \in Calls : Carried(conn', late, m) \in Nat /\ Carried(conn, late, m) \in Nat
        BY <1>6, <1>c, CarriedType
  <2> QED BY <2>1, <2>2, <1>1, <1>10
<1> QED BY <1>1, <1>6, <1>8, <1>9, <1>10, <1>11, <1>c, NetworkKeeps

\* The connection breaks.
LEMMA BreakKeeps == Inv /\ Break => Inv'
<1> SUFFICES ASSUME Inv, Break PROVE Inv'
    OBVIOUS
<1>0. Typed /\ Untouched /\ Dialogue
      BY DEF Inv
<1>c. conn \in Conns /\ late \in Seq(Conns) /\ queued \in [Calls -> Nat]
      BY <1>0 DEF Typed
<1>1. /\ conn.io # "fresh" /\ conn' = [Fresh EXCEPT !.io = "lost", !.session = "closed"]
      /\ UNCHANGED clientVars /\ late' = late /\ queued' = queued
      BY DEF Break
<1>2. /\ conn' \in Conns /\ conn'.session = "closed" /\ conn'.to = <<>> /\ conn'.input = <<>>
      /\ conn'.from = <<>> /\ conn'.io = "lost"
  <2>1. Fresh \in Conns
        BY FreshConn
  <2>2. Fresh.to = <<>> /\ Fresh.input = <<>> /\ Fresh.from = <<>>
        BY DEF Fresh
  <2> QED BY <2>1, <2>2, <1>1 DEF Conns, AnyConn, Sessions
<1>3. conn # Fresh
      BY <1>1 DEF Fresh
<1>4. Untouched'
      BY <1>2 DEF Untouched
<1>d. Dead(conn') /\ Quiet(conn', "handle_connection") /\ Quiet(conn', "handle_push")
      BY <1>2 DEF Dead, Quiet
<1>5. Dialogue'
  <2>1. Greeting(conn') /\ Announcing(conn') /\ Submitting(conn', calls', queued'[calls'])
        BY <1>d DEF Greeting, Announcing, Submitting
  <2>2. pc' = pc /\ state' = state /\ req' = req /\ kept' = kept
        BY <1>1 DEF clientVars
  <2>3. ~kept' /\ pc' \in {"idle", "write"} /\ state' # "MOIN" => conn' = Fresh
        BY <2>2, <1>0, <1>3 DEF Dialogue
  <2> QED BY <2>1, <2>3, <1>d DEF Dialogue
<1>6. \A m \in Calls : queued'[m] >= queued[m] /\ queued[m] \in Nat
      BY <1>1, <1>c
<1>7. \A m \in Calls :
        queued'[m] + Carried(conn', late', m) <= queued[m] + Carried(conn, late, m)
  <2>1. \A m \in Calls : Carried(conn', late, m) <= Carried(conn, late, m)
        BY <1>2, <1>c, LostLoad
  <2>2. \A m \in Calls : Carried(conn', late, m) \in Nat /\ Carried(conn, late, m) \in Nat
        BY <1>2, <1>c, CarriedType
  <2> QED BY <2>1, <2>2, <1>1, <1>6
<1> QED BY <1>1, <1>2, <1>4, <1>5, <1>6, <1>7, <1>c, NetworkKeeps

-----------------------------------------------------------------------------
(* The steps of the client.                                                *)

\* The object is destroyed.
LEMMA DestroyKeeps == Inv /\ destroy => Inv'
<1> SUFFICES ASSUME Inv, destroy PROVE Inv'
    OBVIOUS
<1>0. Typed /\ Counted /\ Attempts /\ Reported
      BY DEF Inv
<1>c. conn \in Conns /\ late \in Seq(Conns) /\ queued \in [Calls -> Nat] /\ tries \in [Calls -> 0..2]
      BY <1>0 DEF Typed
<1>1. /\ pc = "idle" /\ pc' = "gone" /\ state' = "NONE" /\ Disconnect(conn, state, late)
      /\ UNCHANGED <<lang, req, calls, kind, tries, result, kept, queued>>
      BY DEF destroy
<1>2. /\ conn' = Fresh /\ late' \in Seq(Conns)
      /\ \A m \in Calls : Carried(conn', late', m) <= Carried(conn, late, m)
      BY <1>1, <1>c, DisconnectStep
<1>3. Typed'
      BY <1>0, <1>1, <1>2, FreshConn DEF Typed
<1>4. Untouched' /\ Dialogue'
      BY <1>1, <1>2 DEF Untouched, Dialogue
<1>5. Counted'
  <2> SUFFICES ASSUME NEW m \in Calls
               PROVE  queued'[m] + Carried(conn', late', m) + Due(m)' <= tries'[m]
      BY DEF Counted
  <2>1. Due(m)' = 0 /\ Due(m) = 0 /\ tries' = tries /\ queued' = queued
        BY <1>1 DEF Due
  <2>2. /\ Carried(conn, late, m) \in Nat /\ Carried(conn', late', m) \in Nat
        /\ queued[m] \in Nat /\ tries[m] \in 0..2
        BY <1>c, <1>2, CarriedType, FreshConn
  <2>3. queued[m] + Carried(conn, late, m) + Due(m) <= tries[m]
        BY <1>0 DEF Counted
  <2> QED BY <2>1, <2>2, <2>3, <1>2
<1>6. Attempts' /\ Reported'
      BY <1>0, <1>1 DEF Attempts, Reported
<1> QED BY <1>3, <1>4, <1>5, <1>6 DEF Inv

\* The call after an error cannot set up the client again.
LEMMA InitFailsKeeps == Inv /\ init_Fails => Inv'
<1> SUFFICES ASSUME Inv, init_Fails PROVE Inv'
    OBVIOUS
<1>0. Typed /\ Untouched /\ Dialogue /\ Counted /\ Attempts /\ Reported
      BY DEF Inv
<1>1. PICK k \in {"result", "command"} :
        /\ pc = "idle" /\ calls < MaxCalls /\ lang = "Perl" /\ state = "NONE"
        /\ calls' = calls + 1
        /\ kind' = [kind EXCEPT ![calls + 1] = k]
        /\ result' = [result EXCEPT ![calls + 1] = "error"]
        /\ UNCHANGED <<lang, state, pc, req, tries, kept, conn, late, queued>>
      BY DEF init_Fails
<1>2. calls + 1 \in Calls /\ calls' \in 0..MaxCalls /\ calls \in Nat
      BY <1>0, <1>1, BindingAssumption DEF Typed, Calls
<1>3. Typed'
      BY <1>0, <1>1, <1>2 DEF Typed
<1>4. Untouched' /\ Dialogue'
      BY <1>0, <1>1 DEF Untouched, Dialogue
<1>5. Counted'
  <2>1. \A m \in Calls : Due(m)' = 0 /\ Due(m) = 0
        BY <1>1 DEF Due
  <2> QED BY <2>1, <1>0, <1>1 DEF Counted
<1>6. Attempts'
      BY <1>0, <1>1, <1>2 DEF Attempts, Typed, Calls
<1>7. Reported'
      BY <1>0, <1>1, <1>2 DEF Reported, Typed
<1> QED BY <1>3, <1>4, <1>5, <1>6, <1>7 DEF Inv

\* A call begins, or is refused because of its time stamp.
LEMMA CallKeeps ==
  ASSUME Inv, NEW k \in {"result", "command"},
         NEW stamp \in {"none", "well-formed", "malformed"}, Call(k, stamp)
  PROVE  Inv'
<1>0. Typed /\ Untouched /\ Dialogue /\ Counted /\ Attempts /\ Reported
      BY DEF Inv
<1>1. /\ pc = "idle" /\ calls < MaxCalls /\ (k = "command" => lang = "Perl")
      /\ (k = "result" => stamp = "none")
      /\ calls' = calls + 1 /\ kind' = [kind EXCEPT ![calls + 1] = k]
      /\ UNCHANGED <<lang, kept, queued>>
      BY DEF Call
<1>2. /\ calls + 1 \in Calls /\ calls' \in 0..MaxCalls /\ calls \in Nat /\ calls + 1 # calls
      /\ calls + 1 > calls
      BY <1>0, <1>1, BindingAssumption DEF Typed, Calls
<1>c. /\ conn \in Conns /\ late \in Seq(Conns) /\ queued \in [Calls -> Nat]
      /\ tries \in [Calls -> 0..2] /\ tries[calls + 1] = 0
      BY <1>0, <1>2 DEF Typed, Attempts
<1>n. \A m \in Calls : m \in Nat
      BY DEF Calls
<1>3. ASSUME state' = nscang_client_init, tries' = [tries EXCEPT ![calls + 1] = 1],
             pc' = "write", req' = FirstRequest(state), UNCHANGED <<conn, late, result>>
      PROVE  Inv'
  <2>1. /\ state' \in {"NEW", "MOIN"} /\ (state' = "MOIN" <=> state = "MOIN")
        /\ req' = IF state = "MOIN" THEN "PUSH" ELSE "MOIN"
        BY <1>0, <1>3 DEF Typed, nscang_client_init, FirstRequest
  <2>t. tries' \in [Calls -> 0..2] /\ tries'[calls + 1] = 1
        BY <1>2, <1>3, <1>c
  <2>2. Typed'
        BY <1>0, <1>1, <1>2, <1>3, <2>1, <2>t DEF Typed
  <2>3. Untouched'
        BY <1>0, <1>3, <2>1 DEF Untouched
  <2>4. Dialogue'
        BY <1>0, <1>1, <1>3, <2>1 DEF Dialogue
  <2>5. Counted'
    <3> SUFFICES ASSUME NEW m \in Calls
                 PROVE  queued'[m] + Carried(conn', late', m) + Due(m)' <= tries'[m]
        BY DEF Counted
    <3>1. Due(m) = 0 /\ Due(m)' = IF m = calls + 1 THEN 1 ELSE 0
          BY <1>1, <1>3 DEF Due
    <3>2. tries'[m] = IF m = calls + 1 THEN tries[m] + 1 ELSE tries[m]
          BY <1>3, <1>c
    <3>3. queued[m] + Carried(conn, late, m) + Due(m) <= tries[m]
          BY <1>0 DEF Counted
    <3>4. Carried(conn, late, m) \in Nat /\ queued[m] \in Nat /\ tries[m] \in 0..2
          BY <1>c, CarriedType
    <3>5. Carried(conn', late', m) = Carried(conn, late, m) /\ queued' = queued
          BY <1>1, <1>3
    <3> QED BY <3>1, <3>2, <3>3, <3>4, <3>5
  <2>6. Attempts'
    <3> SUFFICES ASSUME NEW m \in Calls
                 PROVE  /\ m > calls' => tries'[m] = 0
                        /\ tries'[m] <= IF kind'[m] = "command" THEN 1 ELSE 2
                        /\ kind'[m] = "command" => lang' = "Perl"
        BY DEF Attempts
    <3>1. CASE m = calls + 1
      <4>1. kind'[m] = k /\ tries'[m] = 1
            BY <3>1, <2>t, <1>1, <1>2, <1>0 DEF Typed
      <4> QED BY <4>1, <3>1, <1>1, <1>2
    <3>2. CASE m # calls + 1
      <4>1. kind'[m] = kind[m] /\ tries'[m] = tries[m]
            BY <3>2, <1>1, <1>3, <1>c, <1>0 DEF Typed
      <4> QED BY <4>1, <3>2, <1>0, <1>1, <1>2, <1>n DEF Attempts
    <3> QED BY <3>1, <3>2
  <2>7. Reported'
        BY <1>0, <1>1, <1>3 DEF Reported
  <2> QED BY <2>2, <2>3, <2>4, <2>5, <2>6, <2>7 DEF Inv
<1>4. ASSUME NEW errno \in BOOLEAN, has_timestamp_prefix(stamp, errno) < 0,
             Disconnect(conn, state, late), state' = "NONE",
             result' = [result EXCEPT ![calls + 1] = "error"], UNCHANGED <<tries, pc, req>>
      PROVE  Inv'
  <2>1. /\ conn' = Fresh /\ late' \in Seq(Conns)
        /\ \A m \in Calls : Carried(conn', late', m) <= Carried(conn, late, m)
        BY <1>4, <1>c, DisconnectStep
  <2>2. lang = "Perl"
    <3>1. stamp # "none"
          BY <1>4 DEF has_timestamp_prefix
    <3> QED BY <3>1, <1>1
  <2>3. Typed'
        BY <1>0, <1>1, <1>2, <1>4, <2>1, <2>2, FreshConn DEF Typed
  <2>4. Untouched' /\ Dialogue'
        BY <1>1, <1>4, <2>1 DEF Untouched, Dialogue
  <2>5. Counted'
    <3> SUFFICES ASSUME NEW m \in Calls
                 PROVE  queued'[m] + Carried(conn', late', m) + Due(m)' <= tries'[m]
        BY DEF Counted
    <3>1. Due(m) = 0 /\ Due(m)' = 0 /\ tries' = tries /\ queued' = queued
          BY <1>1, <1>4 DEF Due
    <3>2. queued[m] + Carried(conn, late, m) + Due(m) <= tries[m]
          BY <1>0 DEF Counted
    <3>3. /\ Carried(conn, late, m) \in Nat /\ queued[m] \in Nat /\ tries[m] \in 0..2
          /\ Carried(conn', late', m) \in Nat
          BY <1>c, <2>1, FreshConn, CarriedType
    <3> QED BY <3>1, <3>2, <3>3, <2>1
  <2>6. Attempts'
    <3> SUFFICES ASSUME NEW m \in Calls
                 PROVE  /\ m > calls' => tries'[m] = 0
                        /\ tries'[m] <= IF kind'[m] = "command" THEN 1 ELSE 2
                        /\ kind'[m] = "command" => lang' = "Perl"
        BY DEF Attempts
    <3>1. tries'[m] = tries[m] /\ tries[m] \in 0..2
          BY <1>4, <1>c
    <3>2. CASE m = calls + 1
          BY <3>1, <3>2, <1>1, <1>c, <2>2
    <3>3. CASE m # calls + 1
      <4>1. kind'[m] = kind[m]
            BY <3>3, <1>1, <1>0 DEF Typed
      <4> QED BY <4>1, <3>1, <3>3, <1>0, <1>1, <1>2, <1>n DEF Attempts
    <3> QED BY <3>2, <3>3
  <2>7. Reported'
        BY <1>0, <1>1, <1>2, <1>4 DEF Reported, Typed
  <2> QED BY <2>3, <2>4, <2>5, <2>6, <2>7 DEF Inv
<1> QED BY <1>3, <1>4 DEF Call

\* A failure keeps the invariant if the attempt gives up no more than it has.
LEMMA FailKeeps ==
  ASSUME Inv, pc \in {"write", "read"}, UNCHANGED <<lang, calls, kind, queued>>,
         NEW err, NEW c \in Conns, NEW l \in Seq(Conns),
         NEW s \in {"NONE", "NEW", "MOIN"}, s = "NONE" => lang = "Perl",
         c.io = "fresh" => c = Fresh /\ s # "MOIN",
         \A m \in Calls : Carried(c, l, m) <= Carried(conn, late, m),
         Fail(err, c, s, l)
  PROVE  Inv'
<1>1. Typed
      BY DEF Inv
<1>2. Ended(c, l)
      BY <1>1, FailFacts
<1> QED BY <1>2, EndedKeeps

\* The loads depend on what was sent only.
LEMMA SameLoad ==
  ASSUME NEW c \in Conns, NEW d \in Conns, NEW l \in Seq(Conns),
         d.to = c.to, d.input = c.input
  PROVE  \A m \in Calls :
           /\ Carried(d, l, m) = Carried(c, l, m) /\ Carried(d, l, m) <= Carried(c, l, m)
           /\ Load(d, m) = Load(c, m)
<1> SUFFICES ASSUME NEW m \in Calls
             PROVE  /\ Carried(d, l, m) = Carried(c, l, m) /\ Carried(d, l, m) <= Carried(c, l, m)
                    /\ Load(d, m) = Load(c, m)
    OBVIOUS
<1>1. Load(d, m) = Load(c, m)
      BY DEF Load
<1>2. Carried(d, l, m) = Carried(c, l, m)
      BY <1>1 DEF Carried
<1>3. Carried(c, l, m) \in Nat
      BY CarriedType
<1> QED BY <1>1, <1>2, <1>3

\* A request is written.
LEMMA WriteKeeps == Inv /\ nscang_client_write => Inv'
<1> SUFFICES ASSUME Inv, nscang_client_write PROVE Inv'
    OBVIOUS
<1>0. Typed /\ Untouched /\ Dialogue /\ Counted /\ Attempts /\ Reported
      BY DEF Inv
<1>1. pc = "write" /\ UNCHANGED <<lang, calls, kind, queued>>
      BY DEF nscang_client_write
<1>c. /\ conn \in Conns /\ conn \in AnyConn /\ late \in Seq(Conns) /\ queued \in [Calls -> Nat]
      /\ tries \in [Calls -> 0..2] /\ calls \in Calls /\ req \in {"MOIN", "PUSH", "DATA"}
      /\ state \in {"NONE", "NEW", "MOIN"} /\ (state = "NONE" => lang = "Perl")
      BY <1>0, <1>1 DEF Typed, Conns
<1>2. CASE /\ Open(conn) /\ conn' = Sent(conn, Content) /\ pc' = "read"
           /\ UNCHANGED <<state, req, tries, result, kept, late>>
  <2>q. PICK q \in Seq(Pieces) :
          q = Content /\ q = IF req = "DATA" THEN Data(calls) ELSE <<Line(req)>>
    <3>1. Data(calls) \in Seq(Pieces) /\ (req # "DATA" => <<Line(req)>> \in Seq(Pieces))
          BY <1>c, PieceFacts DEF Keywords
    <3> QED BY <3>1 DEF Content
  <2>1. /\ conn' \in Conns /\ conn'.to = conn.to \o q /\ conn'.input = conn.input
        /\ conn'.io = "up" /\ conn'.session = conn.session /\ conn'.from = conn.from
    <3>1. conn' = Sent(conn, q)
          BY <1>2, <2>q
    <3>2. /\ Sent(conn, q) \in Conns /\ Sent(conn, q).to = conn.to \o q
          /\ Sent(conn, q).input = conn.input /\ Sent(conn, q).io = "up"
          /\ Sent(conn, q).session = conn.session /\ Sent(conn, q).from = conn.from
          BY <1>c, SentConn, Zenon
    <3> QED BY <3>1, <3>2
  <2>2. Typed'
        BY <1>0, <1>1, <1>2, <2>1 DEF Typed
  <2>3. Untouched'
        BY <2>1 DEF Untouched
  <2>e. /\ <<>> \o q = q
        /\ q # <<>>
    <3>1. Data(calls) # <<>>
          BY <1>c, PieceFacts
    <3> QED BY <2>q, <3>1, ConcatEmptySeq
  <2>4. Dialogue'
    <3> SUFFICES ASSUME ~kept
                 PROVE  /\ req = "MOIN" => Greeting(conn')
                        /\ req = "PUSH" => Announcing(conn')
                        /\ req = "DATA" => Submitting(conn', calls, queued[calls])
        BY <1>1, <1>2 DEF Dialogue
    <3>1. ASSUME req = "MOIN" PROVE Greeting(conn')
      <4>1. conn = Fresh
            BY <3>1, <1>0, <1>1 DEF Dialogue, Typed
      <4> QED BY <3>1, <4>1, <2>1, <2>e, <2>q DEF Greeting, Fresh
    <3>2. ASSUME req = "PUSH" PROVE Announcing(conn')
      <4>1. Quiet(conn, "handle_connection")
            BY <3>2, <1>0, <1>1 DEF Dialogue
      <4> QED BY <3>2, <4>1, <2>1, <2>e, <2>q DEF Announcing, Quiet, Dead
    <3>3. ASSUME req = "DATA" PROVE Submitting(conn', calls, queued[calls])
      <4>1. Quiet(conn, "handle_push")
            BY <3>3, <1>0, <1>1 DEF Dialogue
      <4>2. conn'.to = q /\ conn'.input = <<>> /\ conn'.input \o conn'.to = Data(calls) /\ conn'.to # <<>>
            BY <3>3, <4>1, <2>1, <2>e, <2>q DEF Quiet
      <4> QED BY <4>1, <4>2, <2>1 DEF Submitting, Asked, Quiet, Dead
    <3> QED BY <3>1, <3>2, <3>3
  <2>5. Counted'
    <3> SUFFICES ASSUME NEW m \in Calls
                 PROVE  queued'[m] + Carried(conn', late', m) + Due(m)' <= tries'[m]
        BY DEF Counted
    <3>1. First(m) \in [Pieces -> Nat] /\ conn.to \in Seq(Pieces)
          BY <1>c, LoadType DEF AnyConn
    <3>2. Weigh(conn'.to, First(m)) = Weigh(conn.to, First(m)) + Weigh(q, First(m))
          BY <3>1, <2>1, WeighConcat
    <3>3. Weigh(q, First(m)) = IF req = "DATA" /\ m = calls THEN 1 ELSE 0
      <4>1. CASE req = "DATA"
            BY <4>1, <2>q, <1>c, FirstPieces
      <4>2. CASE req # "DATA"
        <5>1. req \in Keywords
              BY <4>2, <1>c DEF Keywords
        <5> QED BY <4>2, <5>1, <2>q, FirstPieces
      <4> QED BY <4>1, <4>2
    <3>4. /\ Weigh(conn.to, First(m)) \in Nat /\ Weigh(conn.input, First(m)) \in Nat
          /\ Weigh(late, Loads(m)) \in Nat
          BY <1>c, LoadType
    <3>5. /\ Carried(conn, late, m)
               = Weigh(conn.to, First(m)) + Weigh(conn.input, First(m)) + Weigh(late, Loads(m))
          /\ Carried(conn', late', m)
               = Weigh(conn'.to, First(m)) + Weigh(conn'.input, First(m)) + Weigh(late', Loads(m))
          BY DEF Carried, Load
    <3>6. Carried(conn', late', m)
            = Carried(conn, late, m) + (IF req = "DATA" /\ m = calls THEN 1 ELSE 0)
          BY <3>2, <3>3, <3>4, <3>5, <2>1, <1>2
    <3>7. Due(m) = (IF m = calls THEN 1 ELSE 0) /\ Due(m)' = IF m = calls /\ req # "DATA" THEN 1 ELSE 0
          BY <1>1, <1>2 DEF Due
    <3>8. queued[m] + Carried(conn, late, m) + Due(m) <= tries[m]
          BY <1>0 DEF Counted
    <3>9. Carried(conn, late, m) \in Nat /\ queued[m] \in Nat /\ tries[m] \in 0..2
          BY <1>c, CarriedType
    <3>10. queued' = queued /\ tries' = tries
          BY <1>1, <1>2
    <3> QED BY <3>6, <3>7, <3>8, <3>9, <3>10
  <2>6. Attempts' /\ Reported'
        BY <1>0, <1>1, <1>2 DEF Attempts, Reported
  <2> QED BY <2>2, <2>3, <2>4, <2>5, <2>6 DEF Inv
<1>3. ASSUME Fail("TIMEOUT", [conn EXCEPT !.io = IF @ = "fresh" THEN @ ELSE "stuck"], state, late)
      PROVE  Inv'
  <2>1. PICK d : d = [conn EXCEPT !.io = IF conn.io = "fresh" THEN conn.io ELSE "stuck"]
        OBVIOUS
  <2>2. /\ d \in Conns /\ d.to = conn.to /\ d.input = conn.input
        /\ d.io = "fresh" => d = conn /\ conn.io = "fresh"
        BY <2>1, <1>c DEF Conns, AnyConn
  <2>3. d.io = "fresh" => d = Fresh /\ state # "MOIN"
        BY <2>2, <1>0 DEF Untouched
  <2>4. \A m \in Calls : Carried(d, late, m) <= Carried(conn, late, m)
        BY <2>2, <1>c, SameLoad
  <2>5. Fail("TIMEOUT", d, state, late)
        BY <1>3, <2>1
  <2> QED BY <2>2, <2>3, <2>4, <2>5, <1>1, <1>c, FailKeeps
<1>4. ASSUME Fail("SSL", [conn EXCEPT !.io = "lost"], state, late)
      PROVE  Inv'
  <2>1. PICK d : d = [conn EXCEPT !.io = "lost"]
        OBVIOUS
  <2>2. d \in Conns /\ d.to = conn.to /\ d.input = conn.input /\ d.io = "lost"
        BY <2>1, <1>c DEF Conns, AnyConn
  <2>4. \A m \in Calls : Carried(d, late, m) <= Carried(conn, late, m)
        BY <2>2, <1>c, SameLoad
  <2>5. Fail("SSL", d, state, late)
        BY <1>4, <2>1
  <2> QED BY <2>2, <2>4, <2>5, <1>1, <1>c, FailKeeps
<1> QED BY <1>2, <1>3, <1>4 DEF nscang_client_write

\* With the answer, a BAIL that followed it may have been dropped.
LEMMA TakeAnswer ==
  ASSUME NEW c \in Conns, NEW a \in Responses, NEW s, Answered(c, a, s),
         NEW k \in 1..Len(c.from),
         NEW d \in Conns, d.to = c.to, d.input = c.input, d.session = c.session,
         d.from = SubSeq(c.from, k + 1, Len(c.from))
  PROVE  Head(c.from) = a /\ Quiet(d, s)
<1>b. "BAIL" \in Responses
      BY DEF Responses
<1>1. CASE c.session = s /\ c.from = <<a>>
  <2>1. Len(c.from) = 1 /\ Head(c.from) = a
        BY <1>1
  <2>2. k + 1 = 2
        BY <2>1
  <2>3. d.from = SubSeq(<<a>>, 2, 1)
        BY <1>1, <2>1, <2>2
  <2>4. d.from = <<>>
        BY <2>3, <1>b, Answers
  <2> QED BY <1>1, <2>1, <2>4 DEF Quiet, Answered
<1>2. CASE c.session = "closed" /\ c.from = <<a, "BAIL">>
  <2>1. Len(c.from) = 2 /\ Head(c.from) = a
        BY <1>2
  <2>2. k + 1 = 2 \/ k + 1 = 3
        BY <2>1
  <2>3. d.from = SubSeq(<<a, "BAIL">>, 2, 2) \/ d.from = SubSeq(<<a, "BAIL">>, 3, 2)
        BY <1>2, <2>1, <2>2
  <2>4. d.from \in {<<>>, <<"BAIL">>}
        BY <2>3, <1>b, Answers
  <2> QED BY <1>2, <2>1, <2>4 DEF Quiet, Answered, Dead
<1> QED BY <1>1, <1>2 DEF Answered

\* An answer that makes the client disconnect.
LEMMA HangupKeeps ==
  ASSUME Inv, pc \in {"write", "read"}, UNCHANGED <<lang, calls, kind, queued>>,
         NEW err, NEW c \in Conns,
         \A m \in Calls : Carried(c, late, m) <= Carried(conn, late, m),
         Hangup(c, err)
  PROVE  Inv'
<1>0. conn \in Conns /\ late \in Seq(Conns)
      BY DEF Inv, Typed
<1>1. PICK d \in nscang_client_disconnect(c, state, late) : Fail(err, d.conn, "NEW", d.late)
      BY DEF Hangup
<1>2. /\ d.conn = Fresh /\ d.late \in Seq(Conns)
      /\ \A m \in Calls : Carried(d.conn, d.late, m) <= Carried(c, late, m)
      BY <1>0, DisconnectFacts
<1>3. PICK l \in Seq(Conns) : l = d.late
      BY <1>2
<1>4. ASSUME NEW m \in Calls PROVE Carried(Fresh, l, m) <= Carried(conn, late, m)
  <2>1. /\ Carried(Fresh, l, m) \in Nat /\ Carried(c, late, m) \in Nat
        /\ Carried(conn, late, m) \in Nat
        BY <1>0, <1>3, FreshConn, CarriedType
  <2>2. Carried(Fresh, l, m) <= Carried(c, late, m)
        BY <1>2, <1>3
  <2> QED BY <2>1, <2>2
<1>5. Fail(err, Fresh, "NEW", l)
      BY <1>1, <1>2, <1>3
<1> QED BY <1>4, <1>5, FreshConn, FailKeeps

\* The answer is the one the client has waited for, and the call goes on.
LEMMA ProceedKeeps ==
  ASSUME Inv, pc = "read", UNCHANGED <<lang, calls, kind, queued>>,
         NEW next, NEW s, NEW c \in Conns, c.to = conn.to, c.input = conn.input,
         c.io # "fresh", Proceed(next, s, c), s = "MOIN",
         \/ req = "MOIN" /\ next = "PUSH" /\ (~kept => Quiet(c, "handle_connection"))
         \/ req = "PUSH" /\ next = "DATA" /\ (~kept => Quiet(c, "handle_push"))
  PROVE  Inv'
<1>0. Typed /\ Counted /\ Attempts /\ Reported
      BY DEF Inv
<1>1. /\ pc' = "write" /\ req' = next /\ state' = "MOIN" /\ conn' = c
      /\ UNCHANGED <<tries, result, kept, late>>
      BY DEF Proceed
<1>2. Typed'
      BY <1>0, <1>1 DEF Typed
<1>3. Untouched' /\ Dialogue'
      BY <1>1 DEF Untouched, Dialogue
<1>4. Counted'
  <2> SUFFICES ASSUME NEW m \in Calls
               PROVE  queued'[m] + Carried(conn', late', m) + Due(m)' <= tries'[m]
      BY DEF Counted
  <2>1. Due(m)' = Due(m)
        BY <1>1 DEF Due
  <2>2. conn \in Conns /\ late \in Seq(Conns)
        BY <1>0 DEF Typed
  <2>3. Carried(conn', late', m) = Carried(conn, late, m)
        BY <2>2, <1>1, SameLoad
  <2> QED BY <2>1, <2>3, <1>0, <1>1 DEF Counted
<1>5. Attempts' /\ Reported'
      BY <1>0, <1>1 DEF Attempts, Reported
<1> QED BY <1>2, <1>3, <1>4, <1>5 DEF Inv

\* The command was accepted.
LEMMA SucceedKeeps ==
  ASSUME Inv, pc = "read", req = "DATA", UNCHANGED <<lang, calls, kind, queued>>,
         NEW c \in Conns, c.to = conn.to, c.input = conn.input, c.io # "fresh", Succeed(c),
         ~kept => Quiet(c, "handle_connection") /\ queued[calls] >= 1
  PROVE  Inv'
<1>0. Typed /\ Counted /\ Attempts /\ Reported
      BY DEF Inv
<1>1. /\ pc' = "idle" /\ req' = "MOIN" /\ conn' = c
      /\ result' = [result EXCEPT ![calls] = IF kept THEN "doubtful" ELSE "ok"]
      /\ UNCHANGED <<tries, state, kept, late>>
      BY DEF Succeed, Return
<1>c. /\ calls \in Calls /\ state = "MOIN" /\ conn \in Conns /\ late \in Seq(Conns)
      /\ result \in [Calls -> {"none", "ok", "doubtful", "error"}]
      BY <1>0 DEF Typed
<1>2. Typed'
      BY <1>0, <1>1, <1>c DEF Typed
<1>3. Untouched' /\ Dialogue'
      BY <1>1, <1>c DEF Untouched, Dialogue
<1>4. Counted'
  <2> SUFFICES ASSUME NEW m \in Calls
               PROVE  queued'[m] + Carried(conn', late', m) + Due(m)' <= tries'[m]
      BY DEF Counted
  <2>1. Due(m)' = Due(m)
        BY <1>1 DEF Due
  <2>2. Carried(conn', late', m) = Carried(conn, late, m)
        BY <1>1, <1>c, SameLoad
  <2> QED BY <2>1, <2>2, <1>0, <1>1 DEF Counted
<1>5. Attempts'
      BY <1>0, <1>1 DEF Attempts
<1>6. Reported'
  <2>1. kept \in BOOLEAN /\ (kept => lang = "Python")
        BY <1>0 DEF Typed
  <2>2. \A m \in Calls :
          result'[m] = IF m = calls THEN (IF kept THEN "doubtful" ELSE "ok") ELSE result[m]
        BY <1>1, <1>c
  <2> QED BY <2>1, <2>2, <1>0 DEF Reported
<1> QED BY <1>2, <1>3, <1>4, <1>5, <1>6 DEF Inv

\* What became of an answer.
Handled(answer, c) ==
  \/ answer = "MOIN" /\ req = "MOIN" /\ Proceed("PUSH", "MOIN", c)
  \/ answer = "OKAY" /\ req = "PUSH" /\ Proceed("DATA", state, c)
  \/ answer = "OKAY" /\ req = "DATA" /\ Succeed(c)
  \/ \E err \in {"FAIL", "BAD_PROTO_VERSION", "PROTOCOL_MISMATCH"} : Fail(err, c, state, late)
  \/ Hangup(c, "BAIL")
  \/ \E d \in SayBail(c) : Hangup(d, "UNKNOWN_RESPONSE")

\* An answer is handled in one of these ways.
LEMMA HandleCases ==
  ASSUME NEW answer, NEW c, Handle(answer, c)
  PROVE  Handled(answer, c)
<1>1. CASE answer = "MOIN" /\ req = "MOIN"
      BY <1>1 DEF Handle, Handled
<1>2. CASE answer = "OKAY" /\ req = "PUSH"
      BY <1>2 DEF Handle, Handled
<1>3. CASE answer = "OKAY" /\ req = "DATA"
      BY <1>3 DEF Handle, Handled
<1>4. CASE answer = "FAIL"
      BY <1>4 DEF Handle, Handled
<1>5. CASE answer = "version"
      BY <1>5 DEF Handle, Handled
<1>6. CASE answer = "BAIL"
      BY <1>6 DEF Handle, Handled
<1>7. CASE answer = "other"
      BY <1>7 DEF Handle, Handled
<1>8. CASE /\ ~(answer = "MOIN" /\ req = "MOIN") /\ ~(answer = "OKAY" /\ req = "PUSH")
           /\ ~(answer = "OKAY" /\ req = "DATA")
           /\ answer \notin {"FAIL", "version", "BAIL", "other"}
      BY <1>8 DEF Handle, Handled
<1> QED BY <1>1, <1>2, <1>3, <1>4, <1>5, <1>6, <1>7, <1>8

\* The client reads an answer, or waits in vain.
LEMMA ResponseKeeps == Inv /\ nscang_client_response => Inv'
<1> SUFFICES ASSUME Inv, nscang_client_response PROVE Inv'
    OBVIOUS
<1>0. Typed /\ Untouched /\ Dialogue
      BY DEF Inv
<1>1. pc = "read" /\ UNCHANGED <<lang, calls, kind, queued>>
      BY DEF nscang_client_response
<1>c. /\ conn \in Conns /\ conn \in AnyConn /\ late \in Seq(Conns)
      /\ req \in {"MOIN", "PUSH", "DATA"} /\ (req # "MOIN" <=> state = "MOIN")
      /\ state \in {"NONE", "NEW", "MOIN"} /\ (state = "NONE" => lang = "Perl")
      BY <1>0, <1>1 DEF Typed, Conns
<1>2. ASSUME conn.from # <<>>, NEW k \in 1..Len(conn.from),
             Handle(Answer(conn.from, k), [conn EXCEPT !.from = SubSeq(@, k + 1, Len(@))])
      PROVE  Inv'
  <2>1. PICK f : f = SubSeq(conn.from, k + 1, Len(conn.from))
        OBVIOUS
  <2>2. f \in Seq(Responses)
    <3>1. conn.from \in Seq(Responses)
          BY <1>c DEF AnyConn
    <3>2. PICK n \in Nat : n = Len(conn.from)
          BY <3>1, LenProperties
    <3>3. \A i \in (k + 1)..n : conn.from[i] \in Responses
      <4>1. \A i \in (k + 1)..n : i \in 1..n
            BY <3>2
      <4> QED BY <4>1, <3>1, <3>2, ElementOfSeq
    <3>4. SubSeq(conn.from, k + 1, n) \in Seq(Responses)
          BY <3>2, <3>3, SubSeqProperties
    <3> QED BY <3>2, <3>4, <2>1
  <2>3. PICK d : d = [conn EXCEPT !.from = f]
        OBVIOUS
  <2>4. /\ d \in Conns /\ d.to = conn.to /\ d.input = conn.input /\ d.session = conn.session
        /\ d.io = conn.io /\ d.from = f
        BY <2>2, <2>3, <1>c DEF Conns, AnyConn
  <2>5. d.io # "fresh"
        BY <2>4, <1>2, <1>0 DEF Untouched, Fresh
  <2>6. \A m \in Calls : Carried(d, late, m) <= Carried(conn, late, m) /\ Load(d, m) = Load(conn, m)
        BY <2>4, <1>c, SameLoad
  <2>h. PICK h : /\ h = Answer(conn.from, k)
                 /\ h \in {"MOIN", "OKAY"} => h = Head(conn.from)
        BY DEF Answer
  <2>7. Handle(h, d)
        BY <1>2, <2>1, <2>3, <2>h
  <2>8. Handled(h, d)
        BY <2>7, HandleCases
  <2>a. ASSUME NEW a \in Responses, NEW s, Answered(conn, a, s)
        PROVE  Head(conn.from) = a /\ Quiet(d, s)
        BY <2>a, <2>1, <2>4, <1>2, <1>c, TakeAnswer
  <2>r. {"MOIN", "OKAY", "FAIL", "version", "other"} \subseteq Responses
        BY DEF Responses
  <2>b. conn.from = <<"BAIL">> => Head(conn.from) = "BAIL"
        OBVIOUS
  <2>9. CASE h = "MOIN" /\ req = "MOIN" /\ Proceed("PUSH", "MOIN", d)
    <3>1. ~kept => Quiet(d, "handle_connection")
      <4>1. ~kept => Greeting(conn)
            BY <2>9, <1>0, <1>1 DEF Dialogue
      <4> QED BY <4>1, <2>9, <2>h, <2>a, <2>b, <2>r, <1>2 DEF Greeting, Dead
    <3> QED BY <3>1, <2>4, <2>5, <2>9, <1>1, ProceedKeeps
  <2>10. CASE h = "OKAY" /\ req = "PUSH" /\ Proceed("DATA", state, d)
    <3>1. ~kept => Quiet(d, "handle_push")
      <4>1. ~kept => Announcing(conn)
            BY <2>10, <1>0, <1>1 DEF Dialogue
      <4> QED BY <4>1, <2>10, <2>h, <2>a, <2>b, <2>r, <1>2 DEF Announcing, Dead
    <3> QED BY <3>1, <2>4, <2>5, <2>10, <1>1, <1>c, ProceedKeeps
  <2>11. CASE h = "OKAY" /\ req = "DATA" /\ Succeed(d)
    <3>1. ~kept => Quiet(d, "handle_connection") /\ queued[calls] >= 1
      <4>1. ~kept => Submitting(conn, calls, queued[calls])
            BY <2>11, <1>0, <1>1 DEF Dialogue
      <4> QED BY <4>1, <2>11, <2>h, <2>a, <2>b, <2>r, <1>2 DEF Submitting, Dead, Asked
    <3> QED BY <3>1, <2>4, <2>5, <2>11, <1>1, SucceedKeeps
  <2>12. ASSUME NEW err, Fail(err, d, state, late) PROVE Inv'
        BY <2>12, <2>4, <2>5, <2>6, <1>1, <1>c, FailKeeps
  <2>13. CASE Hangup(d, "BAIL")
        BY <2>13, <2>4, <2>6, <1>1, HangupKeeps
  <2>14. ASSUME NEW x \in SayBail(d), Hangup(x, "UNKNOWN_RESPONSE") PROVE Inv'
    <3>1. x = d \/ x = Sent(d, <<Line("BAIL")>>)
          BY DEF SayBail
    <3>2. CASE x = d
          BY <3>2, <2>14, <2>4, <2>6, <1>1, HangupKeeps
    <3>3. CASE x = Sent(d, <<Line("BAIL")>>)
      <4>1. PICK q \in Seq(Pieces) : q = <<Line("BAIL")>>
            BY PieceFacts DEF Keywords
      <4>2. Sent(d, q) \in Conns /\ Sent(d, q).to = d.to \o q /\ Sent(d, q).input = d.input
            BY <2>4, SentConn, Zenon
      <4>3. x \in Conns /\ x.to = d.to \o q /\ x.input = d.input
            BY <3>3, <4>1, <4>2
      <4>4. ASSUME NEW m \in Calls PROVE Carried(x, late, m) <= Carried(conn, late, m)
        <5>1. First(m) \in [Pieces -> Nat] /\ d.to \in Seq(Pieces)
              BY <2>4, LoadType DEF Conns, AnyConn
        <5>2. Weigh(x.to, First(m)) = Weigh(d.to, First(m)) + Weigh(q, First(m))
              BY <5>1, <4>3, WeighConcat
        <5>3. Weigh(q, First(m)) = 0
              BY <4>1, FirstPieces DEF Keywords
        <5>4. Weigh(d.to, First(m)) \in Nat
              BY <5>1, WeighType
        <5>5. Load(x, m) = Load(d, m)
              BY <5>2, <5>3, <5>4, <4>3 DEF Load
        <5>6. Carried(x, late, m) = Carried(d, late, m)
              BY <5>5 DEF Carried
        <5> QED BY <5>6, <2>6
      <4> QED BY <4>3, <4>4, <2>14, <1>1, HangupKeeps
    <3> QED BY <3>1, <3>2, <3>3
  <2> QED BY <2>8, <2>9, <2>10, <2>11, <2>12, <2>13, <2>14 DEF Handled
<1>3. ASSUME NEW err, Fail(err, conn, state, late) PROVE Inv'
  <2>1. conn.io = "fresh" => conn = Fresh /\ state # "MOIN"
        BY <1>0 DEF Untouched
  <2>2. \A m \in Calls : Carried(conn, late, m) <= Carried(conn, late, m)
        BY <1>c, SameLoad
  <2> QED BY <1>3, <2>1, <2>2, <1>1, <1>c, FailKeeps
<1>4. ASSUME NEW err, Fail(err, [conn EXCEPT !.io = "lost"], state, late) PROVE Inv'
  <2>1. PICK d : d = [conn EXCEPT !.io = "lost"]
        OBVIOUS
  <2>2. d \in Conns /\ d.to = conn.to /\ d.input = conn.input /\ d.io = "lost"
        BY <2>1, <1>c DEF Conns, AnyConn
  <2>3. \A m \in Calls : Carried(d, late, m) <= Carried(conn, late, m)
        BY <2>2, <1>c, SameLoad
  <2>4. Fail(err, d, state, late)
        BY <1>4, <2>1
  <2> QED BY <2>2, <2>3, <2>4, <1>1, <1>c, FailKeeps
<1> QED BY <1>2, <1>3, <1>4 DEF nscang_client_response

-----------------------------------------------------------------------------
\* The invariant holds at all times.
LEMMA Invariance == Spec => []Inv
<1>1. Init => Inv
  <2> SUFFICES ASSUME Init PROVE Inv
      OBVIOUS
  <2>1. Typed
    <3>1. conn \in Conns /\ late \in Seq(Conns)
          BY FreshConn, EmptySeq DEF Init
    <3>2. /\ kind \in [Calls -> {"none", "result", "command"}]
          /\ tries \in [Calls -> 0..2] /\ queued \in [Calls -> Nat]
          /\ result \in [Calls -> {"none", "ok", "doubtful", "error"}]
          BY DEF Init
    <3>3. calls \in 0..MaxCalls /\ pc = "idle"
          BY BindingAssumption DEF Init
    <3> QED BY <3>1, <3>2, <3>3 DEF Init, Typed
  <2>2. Untouched /\ Dialogue
        BY DEF Init, Untouched, Dialogue
  <2>3. Counted
    <3> SUFFICES ASSUME NEW m \in Calls
                 PROVE  queued[m] + Carried(conn, late, m) + Due(m) <= tries[m]
        BY DEF Counted
    <3>1. Load(conn, m) = 0
          BY WeighEmpty DEF Init, Load, Fresh
    <3>2. Weigh(late, Loads(m)) = 0
          BY WeighEmpty DEF Init
    <3>3. queued[m] = 0 /\ tries[m] = 0 /\ Due(m) = 0
          BY DEF Init, Due
    <3> QED BY <3>1, <3>2, <3>3 DEF Carried
  <2>4. Attempts /\ Reported
        BY DEF Init, Attempts, Reported
  <2> QED BY <2>1, <2>2, <2>3, <2>4 DEF Inv
<1>2. Inv /\ [Next]_vars => Inv'
  <2> SUFFICES ASSUME Inv, [Next]_vars PROVE Inv'
      OBVIOUS
  <2>1. CASE UNCHANGED vars
    <3>1. Typed' /\ Untouched' /\ Dialogue'
          BY <2>1 DEF vars, Inv, Typed, Untouched, Dialogue
    <3>2. Counted'
          BY <2>1 DEF vars, Inv, Counted, Due
    <3>3. Attempts' /\ Reported'
          BY <2>1 DEF vars, Inv, Attempts, Reported
    <3> QED BY <3>1, <3>2, <3>3 DEF Inv
  <2>2. CASE \E stamp \in {"none", "well-formed", "malformed"} :
               \E k \in {"result", "command"} : Call(k, stamp)
        BY <2>2, CallKeeps
  <2>3. CASE nscang_client_write
        BY <2>3, WriteKeeps
  <2>4. CASE nscang_client_response
        BY <2>4, ResponseKeeps
  <2> QED BY <2>1, <2>2, <2>3, <2>4, InitFailsKeeps, DestroyKeeps, ServerStepKeeps,
             LateStepKeeps, ServerBailKeeps, BreakKeeps, LateBreakKeeps DEF Next, ClientStep
<1> QED BY <1>1, <1>2, PTL DEF Spec

\* Every variable has its type; a session has begun exactly if the request is
\* not the greeting; what handle_push waits for is never complete.
THEOREM TypeCorrect == Spec => []TypeOK
<1>1. Inv => TypeOK
  <2> SUFFICES ASSUME Inv PROVE TypeOK
      OBVIOUS
  <2>1. Typed
        BY DEF Inv
  <2>2. Range(late) \cup {conn} \subseteq Conns
    <3>1. \A i \in DOMAIN late : late[i] \in Conns
          BY <2>1, LenProperties, ElementOfSeq DEF Typed
    <3> QED BY <3>1, <2>1 DEF Range, Typed
  <2>3. ASSUME NEW c \in Conns
        PROVE  /\ c.io \in {"fresh", "up", "stuck", "lost"}
               /\ Range(c.to) \cup Range(c.input) \subseteq Pieces
               /\ Range(c.from) \subseteq Responses
               /\ c.session \in {"handle_handshake", "handle_connection", "handle_push", "closed"}
               /\ Len(c.input) < DataSize
    <3>1. /\ c.to \in Seq(Pieces) /\ c.input \in Seq(Pieces) /\ c.from \in Seq(Responses)
          /\ c.io \in {"fresh", "up", "stuck", "lost"} /\ c.session \in Sessions
          /\ Len(c.input) < DataSize
          BY DEF Conns, AnyConn
    <3>2. ASSUME NEW S, NEW q \in Seq(S) PROVE Range(q) \subseteq S
          BY <3>2, LenProperties, ElementOfSeq DEF Range
    <3>3. Range(c.to) \subseteq Pieces /\ Range(c.input) \subseteq Pieces /\ Range(c.from) \subseteq Responses
          BY <3>1, <3>2
    <3> QED BY <3>1, <3>3 DEF Sessions
  <2> QED BY <2>1, <2>2, <2>3 DEF Typed, TypeOK
<1> QED BY <1>1, Invariance, PTL

\* Success means that the command was queued, unless a failed call has left its
\* connection behind; and whatever the timeouts, a command is queued at most
\* once per attempt.
THEOREM ReportsAreTrue == Spec => []QueuedAsReported
<1>1. Inv => QueuedAsReported
  <2> SUFFICES ASSUME Inv, NEW m \in Calls
               PROVE  /\ result[m] = "ok" => queued[m] >= 1
                      /\ result[m] = "doubtful" => lang = "Python"
                      /\ queued[m] <= tries[m]
                      /\ tries[m] <= IF kind[m] = "command" THEN 1 ELSE 2
      BY DEF QueuedAsReported
  <2>1. /\ conn \in Conns /\ late \in Seq(Conns) /\ queued[m] \in Nat /\ tries[m] \in 0..2
        BY DEF Inv, Typed
  <2>2. Carried(conn, late, m) \in Nat /\ Due(m) \in 0..1
        BY <2>1, CarriedType
  <2>3. queued[m] + Carried(conn, late, m) + Due(m) <= tries[m]
        BY DEF Inv, Counted
  <2>4. queued[m] <= tries[m]
        BY <2>1, <2>2, <2>3
  <2> QED BY <2>4 DEF Inv, Reported, Attempts
<1> QED BY <1>1, Invariance, PTL

\* Between two calls that share a connection no answer is outstanding that the
\* next call could take for its own.
THEOREM CallsInStep == Spec => []InStep
<1>1. Inv => InStep
      BY DEF Inv, InStep, Dialogue, Quiet, Dead
<1> QED BY <1>1, Invariance, PTL
=============================================================================
