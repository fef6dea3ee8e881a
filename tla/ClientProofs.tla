---------------------------- MODULE ClientProofs ----------------------------
(***************************************************************************)
(* Proofs about module Client.                                             *)
(***************************************************************************)
EXTENDS Client, TlsProofs

-----------------------------------------------------------------------------
(* What is sent, typed and answered.                                       *)

\* All that goes over the connection.
Sizes == 1..2
Own ==
  {HS, CloseNotify, Part, Piece("MOIN", 1), Piece("QUIT", 0), Piece("BAIL", 0),
   Piece("data", 0), Piece("data", 1)} \cup {Piece("PUSH", n) : n \in Sizes}
Alphabet == Own \cup Responses

\* What becomes a command.
Orders == {p \in Texts : p.arg \in 1..3}

\* The history of a session: what was typed, said and taken so far.
History == [typed |-> typed, said |-> said, taken |-> taken]

\* All that the client has sent or is going to send.
Sent(s, h) == h.taken \o ((s.out \o s.output) \o s.output_buffer)

\* The requests and the pushes with data among them, see OneRequestAtATime.
RequestsIn(q) == {i \in 1..Len(q) : IsLine(q[i]) /\ q[i].kw # "BAIL"}
PushesIn(q) ==
  {i \in RequestsIn(q) : q[i].kw = "PUSH" /\ i < Len(q) /\ q[i + 1].kw = "data"}
Load(q) == Cardinality(RequestsIn(q)) + Cardinality(PushesIn(q))

\* The session up to the last of the commands, and the answers to it.
Sofar(cmds) ==
  <<HS, HS, Piece("MOIN", 1)>>
    \o FlattenSeq([i \in DOMAIN cmds |-> Transmission(cmds[i].arg)])
Acks(n) == <<Piece("MOIN", 1)>> \o [i \in 1..n |-> Piece("OKAY", 0)]

\* One line per record.
Records(q) == [i \in 1..Len(q) |-> <<q[i]>>]

\* The lines that the client has heard, and those that wait for it.
Inbox(s, h, heard) ==
  /\ s.rbuf = <<>> /\ s.input_buffer = <<>>
  /\ \E q \in Seq(Responses) :
       /\ s.in \in {Records(q), Append(Records(q), <<CloseNotify>>)}
       /\ h.said = heard \o q

\* The whole input has been read, and it ended with these commands.
Complete(h, cmds) ==
  /\ h.typed # <<>> /\ Last(h.typed) = EndOfFile
  /\ cmds = Commands(h.typed) \o Unterminated(h.typed)

\* The commands in the input that has been read so far.
Gathered(s, h, cmds) ==
  \/ /\ s.eof = "no"
     /\ \E used \in Seq(Texts) :
          /\ h.typed = used \o (s.chunks \o s.stdin)
          /\ cmds = Commands(used)
          /\ used # <<>> => Last(used).kw = "chunk"
  \/ s.eof = "yes" /\ Complete(h, cmds)

\* After the answers `heard', `sent' was sent, and x may have been read.
Talk(s, h, cmds, sent, heard, x) ==
  /\ Gathered(s, h, cmds) /\ Sent(s, h) = sent /\ Inbox(s, h, heard \o x)
  /\ Load(sent) <= Len(heard) + 1

-----------------------------------------------------------------------------
(* The phases of the client.                                               *)

ClientFields ==
  {"client", "reader", "client_input", "chunks", "eof", "command",
   "exit_code", "stdin"}

\* The types and the bounds of the fields.
Valid(s) ==
  /\ Watched(s) /\ Sound(s, Alphabet, Watchers) /\ ClientFields \subseteq DOMAIN s
  /\ s.active \subseteq Watchers
  /\ s.tls \in {"none", "live", "freed"}
  /\ s.exit_code \in {"SUCCESS", "FAILURE"} /\ s.eof \in {"no", "yes"}
  /\ {s.client, s.reader} \subseteq {"none", "live", "freed"}
  /\ s.client_input \in {"NULL", "set"}
  /\ s.chunks \in Seq(Texts) /\ s.stdin \in Seq(Texts)

ValidHistory(h) ==
  /\ h.typed \in Seq(Texts) /\ h.said \in Seq(Responses) /\ h.taken \in Seq(Alphabet)
  /\ Len(h.said) <= MaxSaid
  /\ Len(h.typed) <= MaxTyped + 1
  /\ Len(h.typed) = MaxTyped + 1 => Last(h.typed) = EndOfFile
  /\ \A i \in 1..Len(h.typed) : h.typed[i] = EndOfFile => i = Len(h.typed)

Drained(s) == s.output = <<>> /\ s.output_buffer = <<>>
Flushing(s) == "write" \in s.active \/ Drained(s)
Clean(s) == s.faults = {} /\ s.process = "running"

\* Nothing is typed, said or sent that has been handled.
Untouched(s, h) ==
  /\ h.said = <<>> /\ h.typed = s.stdin /\ s.chunks = <<>> /\ s.eof = "no"
  /\ s.rbuf = <<>> /\ s.input_buffer = <<>> /\ s.input_size = 0
  /\ s.reader = "none" /\ s.client_input = "NULL" /\ Drained(s)
  /\ s.sent_close = "no" /\ s.drain_handler = "NULL"
  /\ s.exit_code = "SUCCESS"

\* Before client_start.
Fresh(s, h) ==
  /\ Valid(s) /\ Clean(s) /\ s.tls = "none" /\ s.client = "none"
  /\ s.active = {} /\ s.timer = {} /\ Untouched(s, h)
  /\ h.taken = <<>> /\ s.out = <<>> /\ s.in = <<>> /\ s.link = "connecting"

\* The messages of the handshake, this side's and the server's.
Shaking(s, h) ==
  \/ /\ s.hs = <<"send", "recv", "send">>
     /\ h.taken = <<>> /\ s.out = <<>> /\ s.in = <<>>
  \/ /\ s.hs = <<"recv", "send">>
     /\ h.taken = <<>> /\ s.out = <<HS>> /\ s.in = <<>>
  \/ /\ s.hs = <<"recv", "send">>
     /\ h.taken = <<HS>> /\ s.out = <<>>
     /\ s.in \in {<<<<HS>>>>, <<<<HS>>, <<CloseNotify>>>>}
  \/ /\ s.hs = <<"send">>
     /\ h.taken = <<HS>> /\ s.out = <<>> /\ s.in \in {<<>>, <<<<CloseNotify>>>>}
  \/ /\ s.hs = <<>>
     /\ h.taken = <<HS>> /\ s.out = <<HS>> /\ s.in \in {<<>>, <<<<CloseNotify>>>>}

\* While the connection is being established: in connect_cb ...
Starting(s, h) ==
  /\ Valid(s) /\ Clean(s) /\ s.tls = "live" /\ s.client = "live"
  /\ s.active \subseteq {"init"} /\ Untouched(s, h) /\ Shaking(s, h)

\* ... and between two calls of it.
Opening(s, h) == Starting(s, h) /\ s.active = {"init"} /\ s.hs # <<>>

\* The session, whatever it waits for.
Held(s, h) ==
  /\ Valid(s) /\ Clean(s) /\ s.tls = "live" /\ s.client = "live"
  /\ s.hs = <<>> /\ s.input_size = 0 /\ s.sent_close = "no"
  /\ s.drain_handler = "NULL" /\ Flushing(s) /\ h.taken # <<>>
  /\ s.exit_code = "SUCCESS"

\* What the client has asked for.  x is a line that was read from the
\* connection and not yet handled, or empty.
Greeting(s, h, x) ==
  /\ s.read_handler = "handle_tls_moin_response"
  /\ s.reader = "none" /\ s.client_input = "NULL" /\ s.eof = "no" /\ s.chunks = <<>>
  /\ Talk(s, h, <<>>, Sofar(<<>>), <<>>, x)

Announcing(s, h, x) ==
  /\ s.read_handler = "handle_tls_push_response"
  /\ s.reader = "live" /\ s.client_input = "set"
  /\ \E cmds \in Seq(Orders), c \in Orders :
       /\ s.command = parse_check_result(c.arg)
       /\ Talk(s, h, Append(cmds, c),
               Append(Sofar(cmds), Piece("PUSH", Len(s.command))),
               Acks(2 * Len(cmds)), x)

Submitting(s, h, x) ==
  /\ s.read_handler = "handle_tls_command_response"
  /\ s.reader = "live" /\ s.client_input = "set"
  /\ \E cmds \in Seq(Orders), c \in Orders :
       Talk(s, h, Append(cmds, c), Sofar(Append(cmds, c)),
            Acks(2 * Len(cmds) + 1), x)

Leaving(s, h, x) ==
  /\ s.read_handler = "handle_tls_quit_response"
  /\ s.reader = "freed" /\ s.client_input = "NULL" /\ s.eof = "yes"
  /\ \E cmds \in Seq(Orders) :
       Talk(s, h, cmds, Append(Sofar(cmds), Piece("QUIT", 0)),
            Acks(2 * Len(cmds)), x)

Stage(s, h, x) ==
  Greeting(s, h, x) \/ Announcing(s, h, x) \/ Submitting(s, h, x) \/ Leaving(s, h, x)

\* A response is waited for.
Asking(s, h) ==
  /\ Held(s, h) /\ "read" \in s.active /\ s.active \subseteq {"read", "write"}
  /\ Stage(s, h, <<>>)

\* The input is waited for.
Typing(s, h) ==
  /\ Held(s, h) /\ s.active \subseteq {"input", "write"} /\ "input" \in s.active
  /\ s.reader = "live" /\ s.client_input = "set" /\ s.eof = "no"
  /\ \E cmds \in Seq(Orders) :
       /\ Gathered(s, h, cmds) /\ Sent(s, h) = Sofar(cmds)
       /\ Inbox(s, h, Acks(2 * Len(cmds)))
       /\ Load(Sofar(cmds)) <= 2 * Len(cmds) + 1

\* What exit status 0 stands for.
Success(s, h) ==
  \E cmds \in Seq(Orders) :
    /\ Complete(h, cmds)
    /\ Sent(s, h) = Sofar(cmds) \o (IF s.sent_close = "no" THEN <<Piece("QUIT", 0)>>
                                    ELSE <<Piece("QUIT", 0), CloseNotify>>)
    /\ IsPrefix(Acks(2 * Len(cmds) + 1), h.said)

\* What holds from client_stop on.
Stopped(s, h) ==
  /\ Valid(s) /\ s.client = "freed" /\ s.reader # "live" /\ "input" \notin s.active
  /\ Load(Sent(s, h)) <= Len(h.said) + 1
  /\ s.exit_code = "SUCCESS" => Success(s, h)

\* The client_state is freed; what is left is written, then the connection is
\* shut down.
Closing(s, h) ==
  /\ Stopped(s, h) /\ Clean(s) /\ s.tls = "live" /\ s.hs = <<>> /\ h.taken # <<>>
  /\ s.active \in {{"write"}, {"shutdown"}} /\ Flushing(s)
  /\ "write" \in s.active => s.sent_close = "no"
  /\ s.drain_handler = "start_shutdown"

\* tls_free has run.
Freed(s, h) ==
  /\ Stopped(s, h) /\ Clean(s) /\ s.tls = "freed" /\ s.active = {}
  /\ s.sent_close = "yes" /\ Drained(s)

Alive(s, h) == Opening(s, h) \/ Asking(s, h) \/ Typing(s, h) \/ Closing(s, h)

\* The process has ended.
Ended(s, h) ==
  /\ Valid(s) /\ s.process \in {"died", "exited"}
  /\ s.faults \subseteq Deaths \cup {"stale timeout"}
  /\ s.client = "freed" => s.reader # "live" /\ "input" \notin s.active
  /\ s.client = "live" /\ s.client_input = "set" => s.reader = "live"
  /\ Load(Sent(s, h)) <= Len(h.said) + 1
  /\ s.process = "exited" /\ s.exit_code = "SUCCESS" =>
       Success(s, h) /\ s.sent_close = "yes" /\ Drained(s)

Phase(s, h) == Fresh(s, h) \/ Alive(s, h) \/ Freed(s, h) \/ Ended(s, h)

SessionInv == ValidHistory(History) /\ Phase(conn, History)

-----------------------------------------------------------------------------
(* Sequences.                                                              *)

\* One element more.
LEMMA OneMore ==
  ASSUME NEW S, NEW q \in Seq(S), NEW e \in S
  PROVE  /\ Append(q, e) \in Seq(S) /\ Len(Append(q, e)) = Len(q) + 1
         /\ Append(q, e)[Len(q) + 1] = e /\ Append(q, e) = q \o <<e>>
         /\ \A i \in 1..Len(q) : Append(q, e)[i] = q[i]
  OBVIOUS

\* One element.
LEMMA JustOne ==
  ASSUME NEW S, NEW e \in S
  PROVE  /\ <<e>> \in Seq(S) /\ Len(<<e>>) = 1 /\ (<<e>>)[1] = e
         /\ <<e>> = Append(<<>>, e) /\ <<e>> # <<>>
  OBVIOUS

\* Parentheses do not matter.
LEMMA Assoc ==
  ASSUME NEW S, NEW a \in Seq(S), NEW b \in Seq(S), NEW c \in Seq(S)
  PROVE  /\ (a \o b) \o c = a \o (b \o c)
         /\ a \o b \in Seq(S) /\ a \o <<>> = a /\ <<>> \o a = a
<1>1. Cat(Cat(a, b), c) = Cat(a, Cat(b, c)) /\ Cat(a, b) \in Seq(S)
  BY CatAssoc
<1>2. a \o <<>> = a /\ <<>> \o a = a
  BY ConcatEmptySeq
<1> QED BY <1>1, <1>2, Zenon DEF Cat

\* Parentheses around four sequences.
LEMMA Spliced ==
  ASSUME NEW S, NEW g \in Seq(S), NEW f \in Seq(S), NEW w \in Seq(S), NEW d \in Seq(S)
  PROVE  Cat(g, Cat(f, Cat(w, d))) = Cat(Cat(Cat(g, f), w), d)
<1>1. PICK x \in Seq(S), y \in Seq(S) : x = Cat(w, d) /\ y = Cat(g, f)
  BY CatAssoc
<1>2. Cat(y, x) = Cat(g, Cat(f, x))
  BY <1>1, CatAssoc
<1>3. Cat(Cat(y, w), d) = Cat(y, x)
  BY <1>1, CatAssoc
<1> QED BY <1>1, <1>2, <1>3

-----------------------------------------------------------------------------
(* What a command looks like on the connection.                            *)

\* A command is one or two bytes of data.
LEMMA Parsed ==
  ASSUME NEW c \in 1..3
  PROVE  /\ parse_check_result(c) \in Seq(Alphabet)
         /\ Len(parse_check_result(c)) \in Sizes
         /\ \A i \in 1..Len(parse_check_result(c)) : parse_check_result(c)[i].kw = "data"
<1>1. PICK d, e : d = Piece("data", 0) /\ e = Piece("data", 1)
  OBVIOUS
<1>2. d \in Alphabet /\ e \in Alphabet /\ d.kw = "data" /\ e.kw = "data"
  BY <1>1 DEF Alphabet, Own, Piece
<1>3. PICK q : q = parse_check_result(c)
  OBVIOUS
<1>4. q = <<e>> \/ q = <<e, e>> \/ q = <<d>>
  BY <1>1, <1>3 DEF parse_check_result
<1>5. /\ q \in Seq(Alphabet) /\ Len(q) \in Sizes
      /\ \A i \in 1..Len(q) : q[i].kw = "data"
  <2>1. CASE q = <<e>>
    BY <1>2, <2>1 DEF Sizes
  <2>2. CASE q = <<e, e>>
    BY <1>2, <2>2 DEF Sizes
  <2>3. CASE q = <<d>>
    BY <1>2, <2>3 DEF Sizes
  <2> QED BY <1>4, <2>1, <2>2, <2>3
<1> QED
  BY <1>3, <1>5

\* A PUSH request is in the alphabet.
LEMMA PushPiece ==
  ASSUME NEW n \in Sizes
  PROVE  /\ Piece("PUSH", n) \in Alphabet /\ IsLine(Piece("PUSH", n))
         /\ Piece("PUSH", n).kw = "PUSH"
  BY DEF Alphabet, Own, IsLine, Piece

\* The other pieces are, too.
LEMMA OwnPieces ==
  /\ HS \in Alphabet /\ CloseNotify \in Alphabet /\ Part \in Alphabet
  /\ Piece("MOIN", 1) \in Alphabet /\ Piece("QUIT", 0) \in Alphabet
  /\ Piece("BAIL", 0) \in Alphabet
  BY DEF Alphabet, Own

\* The request and the command.
LEMMA TransmissionType ==
  ASSUME NEW c \in 1..3
  PROVE  Transmission(c) \in Seq(Alphabet)
<1>1. PICK d \in Seq(Alphabet) : d = parse_check_result(c) /\ Len(d) \in Sizes
  BY Parsed
<1>2. PICK p \in Alphabet : p = Piece("PUSH", Len(d))
  BY <1>1, PushPiece
<1>3. Transmission(c) = <<p>> \o d
  BY <1>1, <1>2 DEF Transmission
<1> QED
  BY <1>1, <1>3

\* The session up to a command is a sequence of pieces.
LEMMA SofarParts ==
  ASSUME NEW cmds \in Seq(Orders)
  PROVE  /\ [i \in DOMAIN cmds |-> Transmission(cmds[i].arg)] \in Seq(Seq(Alphabet))
         /\ <<HS, HS, Piece("MOIN", 1)>> \in Seq(Alphabet)
<1>1. PICK n \in Nat : n = Len(cmds) /\ DOMAIN cmds = 1..n
  BY LenProperties
<1>2. ASSUME NEW i \in 1..n PROVE Transmission(cmds[i].arg) \in Seq(Alphabet)
  <2>1. PICK p \in Orders : p = cmds[i]
    BY <1>1, ElementOfSeq
  <2>2. p.arg \in 1..3
    BY <2>1 DEF Orders
  <2> QED BY <2>1, <2>2, TransmissionType
<1>3. [i \in 1..n |-> Transmission(cmds[i].arg)] \in [1..n -> Seq(Alphabet)]
  BY <1>2
<1>4. \A U : [1..n -> U] \subseteq Seq(U)
  BY SeqDef
<1> QED
  BY <1>1, <1>3, <1>4, OwnPieces

\* The session up to a command is a sequence of pieces.
LEMMA SofarType ==
  ASSUME NEW cmds \in Seq(Orders)
  PROVE  Sofar(cmds) \in Seq(Alphabet)
<1>1. PICK q \in Seq(Seq(Alphabet)) : q = [i \in DOMAIN cmds |-> Transmission(cmds[i].arg)]
  BY SofarParts
<1>2. FlattenSeq(q) \in Seq(Alphabet)
  BY FlattenType
<1> QED
  BY <1>1, <1>2, SofarParts, ConcatProperties, Zenon DEF Sofar

\* It begins with the greeting,
LEMMA SofarEmpty == Sofar(<<>>) = <<HS, HS, Piece("MOIN", 1)>>
<1>1. <<>> \in Seq(Orders) /\ DOMAIN <<>> = {}
  OBVIOUS
<1>2. [i \in DOMAIN <<>> |-> Transmission((<<>>)[i].arg)] = <<>>
  <2>1. PICK U : U = Seq(Alphabet)
    OBVIOUS
  <2>2. PICK q \in Seq(U) : q = [i \in DOMAIN <<>> |-> Transmission((<<>>)[i].arg)]
    BY <1>1, <2>1, SofarParts
  <2>3. DOMAIN q = {} /\ Len(q) \in Nat /\ DOMAIN q = 1..Len(q)
    BY <1>1, <2>2, LenProperties
  <2>4. Len(q) = 0
    BY <2>3
  <2> QED BY <2>2, <2>4, EmptySeq
<1>3. Sofar(<<>>) = <<HS, HS, Piece("MOIN", 1)>> \o <<>>
  BY <1>2, FlattenEmpty, Zenon DEF Sofar
<1> QED
  BY <1>1, <1>3, SofarParts, ConcatEmptySeq, Zenon

\* and goes on with a request and a command.
LEMMA SofarAppend ==
  ASSUME NEW cmds \in Seq(Orders), NEW c \in Orders
  PROVE  Sofar(Append(cmds, c)) =
           Append(Sofar(cmds), Piece("PUSH", Len(parse_check_result(c.arg))))
             \o parse_check_result(c.arg)
<1>1. PICK n \in Nat : n = Len(cmds) /\ DOMAIN cmds = 1..n
  BY LenProperties
<1>2. PICK a \in Seq(Orders) : a = Append(cmds, c)
  BY OneMore
<1>3. /\ DOMAIN a = 1..(n + 1) /\ a[n + 1] = c /\ \A i \in 1..n : a[i] = cmds[i]
  BY <1>1, <1>2
<1>4. PICK q \in Seq(Seq(Alphabet)) : q = [i \in DOMAIN cmds |-> Transmission(cmds[i].arg)]
  BY SofarParts
<1>5. PICK r \in Seq(Seq(Alphabet)) : r = [i \in DOMAIN a |-> Transmission(a[i].arg)]
  BY SofarParts
<1>6. PICK t \in Seq(Alphabet) : t = Transmission(c.arg)
  BY TransmissionType DEF Orders
<1>7. r = Append(q, t)
  <2>1. PICK U : U = Seq(Alphabet)
    OBVIOUS
  <2>2. q \in Seq(U) /\ r \in Seq(U) /\ t \in U
    BY <1>4, <1>5, <1>6, <2>1
  <2>3. Len(q) = n /\ Len(r) = n + 1
    BY <1>1, <1>3, <1>4, <1>5, <2>2
  <2>4. Append(q, t) \in Seq(U) /\ Len(Append(q, t)) = n + 1
    BY <2>2, <2>3, AppendProperties
  <2>5. \A i \in 1..(n + 1) : r[i] = Append(q, t)[i]
    <3> TAKE i \in 1..(n + 1)
    <3>1. r[i] = Transmission(a[i].arg)
      BY <1>3, <1>5
    <3>2. CASE i = n + 1
      <4>1. Append(q, t)[i] = t
        BY <2>2, <2>3, <3>2
      <4> QED BY <1>3, <1>6, <3>1, <3>2, <4>1
    <3>3. CASE i # n + 1
      <4>1. i \in 1..n
        BY <3>3
      <4>2. Append(q, t)[i] = q[i]
        BY <2>2, <2>3, <4>1
      <4>3. q[i] = Transmission(cmds[i].arg)
        BY <1>1, <1>4, <4>1
      <4> QED BY <1>3, <3>1, <4>1, <4>2, <4>3
    <3> QED BY <3>2, <3>3
  <2> QED BY <2>2, <2>3, <2>4, <2>5, SeqEqual
<1>8. FlattenSeq(r) = FlattenSeq(q) \o t /\ FlattenSeq(q) \in Seq(Alphabet)
  BY <1>7, FlattenAppend, FlattenType
<1>9. PICK g \in Seq(Alphabet) : g = <<HS, HS, Piece("MOIN", 1)>>
  BY SofarParts
<1>10. Sofar(a) = g \o FlattenSeq(r) /\ Sofar(cmds) = g \o FlattenSeq(q)
  BY <1>4, <1>5, <1>9, Zenon DEF Sofar
<1>11. PICK d \in Seq(Alphabet) : d = parse_check_result(c.arg) /\ Len(d) \in Sizes
  BY Parsed DEF Orders
<1>12. PICK p \in Alphabet : p = Piece("PUSH", Len(d))
  BY <1>11, PushPiece
<1>13. t = <<p>> \o d
  BY <1>6, <1>11, <1>12 DEF Transmission
<1>14. PICK f \in Seq(Alphabet) : f = FlattenSeq(q)
  BY <1>8
<1>15. PICK w \in Seq(Alphabet) : w = <<p>>
  BY JustOne
<1>16. g \o (f \o (w \o d)) = ((g \o f) \o w) \o d
  <2>1. Cat(g, Cat(f, Cat(w, d))) = Cat(Cat(Cat(g, f), w), d)
    BY Spliced
  <2> QED BY <2>1, Zenon DEF Cat
<1>17. PICK y \in Seq(Alphabet) : y = g \o f
  BY Assoc
<1>18. y \o <<p>> = Append(y, p)
  BY AppendIsConcat
<1> QED
  BY <1>2, <1>8, <1>10, <1>11, <1>12, <1>13, <1>14, <1>15, <1>16, <1>17, <1>18

\* The answers so far.
LEMMA AcksParts ==
  ASSUME NEW n \in Nat, NEW S, Piece("MOIN", 1) \in S, Piece("OKAY", 0) \in S
  PROVE  /\ Acks(n) \in Seq(S) /\ Len(Acks(n)) = n + 1
         /\ Acks(n)[1] = Piece("MOIN", 1)
         /\ \A i \in 1..n : Acks(n)[i + 1] = Piece("OKAY", 0)
<1>1. PICK m, k \in S : m = Piece("MOIN", 1) /\ k = Piece("OKAY", 0)
  OBVIOUS
<1>2. PICK q : q = [i \in 1..n |-> k]
  OBVIOUS
<1>3. q \in Seq(S) /\ Len(q) = n /\ \A i \in 1..n : q[i] = k
  <2>1. q \in [1..n -> S]
    BY <1>1, <1>2
  <2>2. [1..n -> S] \subseteq Seq(S)
    BY SeqDef
  <2> QED BY <1>2, <2>1, <2>2
<1>4. Acks(n) = <<m>> \o q
  BY <1>1, <1>2 DEF Acks
<1> QED
  BY <1>1, <1>3, <1>4

\* One more answer.
LEMMA AcksAppend ==
  ASSUME NEW n \in Nat
  PROVE  Append(Acks(n), Piece("OKAY", 0)) = Acks(n + 1)
<1>1. PICK S : S = {Piece("MOIN", 1), Piece("OKAY", 0)}
  OBVIOUS
<1>2. PICK m, k \in S : m = Piece("MOIN", 1) /\ k = Piece("OKAY", 0)
  BY <1>1
<1>3. PICK a \in Seq(S) :
        a = Acks(n) /\ Len(a) = n + 1 /\ a[1] = m /\ \A i \in 1..n : a[i + 1] = k
  BY <1>2, AcksParts
<1>4. PICK b \in Seq(S) :
        b = Acks(n + 1) /\ Len(b) = n + 2 /\ b[1] = m
        /\ \A i \in 1..(n + 1) : b[i + 1] = k
  BY <1>2, AcksParts
<1>5. PICK c \in Seq(S) : c = Append(a, k)
  BY OneMore
<1>6. Len(c) = n + 2 /\ \A i \in 1..(n + 2) : c[i] = b[i]
  <2>1. Len(c) = n + 2 /\ c[n + 2] = k /\ \A i \in 1..(n + 1) : c[i] = a[i]
    BY <1>3, <1>5
  <2>2. ASSUME NEW i \in 1..(n + 2) PROVE c[i] = b[i]
    <3>1. CASE i = 1
      BY <1>3, <1>4, <2>1, <3>1
    <3>2. CASE i # 1 /\ i # n + 2
      <4>1. PICK j \in 1..n : i = j + 1
        <5>1. i - 1 \in 1..n /\ i = (i - 1) + 1
          BY <3>2
        <5> QED BY <5>1
      <4> QED BY <1>3, <1>4, <2>1, <4>1
    <3>3. CASE i = n + 2
      <4>1. i = (n + 1) + 1 /\ n + 1 \in 1..(n + 1)
        BY <3>3
      <4> QED BY <1>4, <2>1, <3>3, <4>1
    <3> QED BY <3>1, <3>2, <3>3
  <2> QED BY <2>1, <2>2
<1>7. c = b
  BY <1>4, <1>6, SeqEqual
<1> QED
  BY <1>2, <1>3, <1>4, <1>5, <1>7

\* The first answer.
LEMMA AcksNone == Acks(0) = <<Piece("MOIN", 1)>>
<1>1. PICK S : S = {Piece("MOIN", 1), Piece("OKAY", 0)}
  OBVIOUS
<1>2. PICK m \in S : m = Piece("MOIN", 1)
  BY <1>1
<1>3. PICK a : a = Acks(0)
  OBVIOUS
<1>6. Piece("MOIN", 1) \in S /\ Piece("OKAY", 0) \in S
  BY <1>1
<1>7. a \in Seq(S) /\ Len(a) = 1 /\ a[1] = m
  <2>1. Acks(0) \in Seq(S) /\ Len(Acks(0)) = 0 + 1 /\ Acks(0)[1] = Piece("MOIN", 1)
    BY <1>6, AcksParts
  <2> QED BY <1>2, <1>3, <2>1
<1>4. <<m>> \in Seq(S) /\ Len(<<m>>) = 1 /\ (<<m>>)[1] = m
  BY JustOne
<1>5. a = <<m>>
  BY <1>4, <1>7, SeqEqual
<1> QED
  BY <1>2, <1>3, <1>5

-----------------------------------------------------------------------------
(* How many responses are due.                                             *)

\* The two sets of places are finite.
LEMMA LoadParts ==
  ASSUME NEW S, NEW q \in Seq(S)
  PROVE  /\ IsFiniteSet(RequestsIn(q)) /\ Cardinality(RequestsIn(q)) \in Nat
         /\ IsFiniteSet(PushesIn(q)) /\ Cardinality(PushesIn(q)) \in Nat
         /\ Load(q) \in Nat
<1>1. PICK n \in Nat : n = Len(q)
  BY LenProperties
<1>2. IsFiniteSet(1..n)
  BY FS_Interval
<1>3. RequestsIn(q) \subseteq 1..n /\ PushesIn(q) \subseteq 1..n
  BY <1>1 DEF RequestsIn, PushesIn
<1>4. /\ IsFiniteSet(RequestsIn(q)) /\ Cardinality(RequestsIn(q)) \in Nat
      /\ IsFiniteSet(PushesIn(q)) /\ Cardinality(PushesIn(q)) \in Nat
  BY <1>2, <1>3, FS_Subset, FS_CardinalityType
<1> QED
  BY <1>4 DEF Load

\* One element more in a finite set.
LEMMA OneElementMore ==
  ASSUME NEW A, IsFiniteSet(A), NEW x, NEW B, B \subseteq A \cup {x}
  PROVE  Cardinality(B) <= Cardinality(A) + 1
<1>1. IsFiniteSet(A \cup {x}) /\ Cardinality(A \cup {x}) <= Cardinality(A) + 1
      /\ Cardinality(A \cup {x}) \in Nat /\ Cardinality(A) \in Nat
  BY FS_AddElement, FS_CardinalityType
<1>2. Cardinality(B) <= Cardinality(A \cup {x}) /\ Cardinality(B) \in Nat
  BY <1>1, FS_Subset, FS_CardinalityType
<1> QED
  BY <1>1, <1>2

\* A request adds one, anything else but data none.
LEMMA LoadAppend ==
  ASSUME NEW S, NEW q \in Seq(S), NEW p \in S, p.kw # "data"
  PROVE  /\ Load(Append(q, p)) <= Load(q) + 1
         /\ p.kw = "BAIL" \/ ~IsLine(p) => Load(Append(q, p)) <= Load(q)
<1>1. PICK r \in Seq(S) : r = Append(q, p)
  BY OneMore
<1>2. PICK n \in Nat : n = Len(q) /\ Len(r) = n + 1 /\ r[n + 1] = p
                       /\ \A i \in 1..n : r[i] = q[i]
  BY <1>1, LenProperties, OneMore
<1>3. RequestsIn(r) \subseteq RequestsIn(q) \cup {n + 1}
  BY <1>2 DEF RequestsIn
<1>4. p.kw = "BAIL" \/ ~IsLine(p) => RequestsIn(r) \subseteq RequestsIn(q)
  BY <1>2 DEF RequestsIn
<1>5. PushesIn(r) \subseteq PushesIn(q)
  <2> SUFFICES ASSUME NEW i \in PushesIn(r) PROVE i \in PushesIn(q)
    OBVIOUS
  <2>1. i \in RequestsIn(r) /\ i < n + 1 /\ r[i].kw = "PUSH" /\ r[i + 1].kw = "data"
    BY <1>2 DEF PushesIn
  <2>2. i \in 1..n
    BY <1>2, <2>1 DEF RequestsIn
  <2>3. i # n
    BY <1>2, <2>1
  <2>4. i < n /\ i + 1 \in 1..n
    BY <2>2, <2>3
  <2>5. q[i] = r[i] /\ q[i + 1] = r[i + 1]
    BY <1>2, <2>2, <2>4
  <2> QED BY <1>2, <2>1, <2>2, <2>4, <2>5 DEF PushesIn, RequestsIn
<1>6. PICK a, b, c, d : /\ a = Cardinality(RequestsIn(q)) /\ b = Cardinality(PushesIn(q))
                        /\ c = Cardinality(RequestsIn(r)) /\ d = Cardinality(PushesIn(r))
  OBVIOUS
<1>7. /\ a \in Nat /\ b \in Nat /\ c \in Nat /\ d \in Nat
      /\ IsFiniteSet(RequestsIn(q)) /\ IsFiniteSet(PushesIn(q))
  BY <1>6, LoadParts
<1>8. d <= b /\ c <= a + 1
  BY <1>3, <1>5, <1>6, <1>7, OneElementMore, FS_Subset
<1>9. p.kw = "BAIL" \/ ~IsLine(p) => c <= a
  BY <1>4, <1>6, <1>7, FS_Subset
<1> QED
  BY <1>1, <1>6, <1>7, <1>8, <1>9 DEF Load

\* Data adds one to the request before it.
LEMMA LoadData ==
  ASSUME NEW S, NEW q \in Seq(S), NEW d \in Seq(S), \A i \in 1..Len(d) : d[i].kw = "data"
  PROVE  Load(q \o d) <= Load(q) + 1
<1>1. PICK r \in Seq(S) : r = q \o d
  BY ConcatProperties
<1>2. PICK n \in Nat, m \in Nat : n = Len(q) /\ m = Len(d)
  BY LenProperties
<1>3. Len(r) = n + m /\ (\A i \in 1..n : r[i] = q[i]) /\ (\A i \in 1..m : r[n + i] = d[i])
  BY <1>1, <1>2, ConcatProperties
<1>4. \A i \in (n + 1)..(n + m) : r[i].kw = "data"
  <2> TAKE i \in (n + 1)..(n + m)
  <2>1. PICK j \in 1..m : i = n + j
    <3>1. i - n \in 1..m /\ i = n + (i - n)
      OBVIOUS
    <3> QED BY <3>1
  <2> QED BY <1>2, <1>3, <2>1
<1>5. RequestsIn(r) \subseteq RequestsIn(q)
  <2> SUFFICES ASSUME NEW i \in RequestsIn(r) PROVE i \in RequestsIn(q)
    OBVIOUS
  <2>1. i \in 1..(n + m) /\ IsLine(r[i]) /\ r[i].kw # "BAIL"
    BY <1>3 DEF RequestsIn
  <2>2. i \notin (n + 1)..(n + m)
    BY <1>4, <2>1 DEF IsLine
  <2>3. i \in 1..n
    BY <2>1, <2>2
  <2> QED BY <1>2, <1>3, <2>1, <2>3 DEF RequestsIn
<1>6. PushesIn(r) \subseteq PushesIn(q) \cup {n}
  <2> SUFFICES ASSUME NEW i \in PushesIn(r), i # n PROVE i \in PushesIn(q)
    OBVIOUS
  <2>1. i \in RequestsIn(q) /\ r[i].kw = "PUSH" /\ r[i + 1].kw = "data"
    BY <1>5 DEF PushesIn
  <2>2. i \in 1..n /\ i + 1 \in 1..n /\ i < n
    BY <1>2, <2>1 DEF RequestsIn
  <2>3. q[i] = r[i] /\ q[i + 1] = r[i + 1]
    BY <1>3, <2>2
  <2> QED BY <1>2, <2>1, <2>2, <2>3 DEF PushesIn
<1>7. PICK a, b, c, e : /\ a = Cardinality(RequestsIn(q)) /\ b = Cardinality(PushesIn(q))
                        /\ c = Cardinality(RequestsIn(r)) /\ e = Cardinality(PushesIn(r))
  OBVIOUS
<1>8. /\ a \in Nat /\ b \in Nat /\ c \in Nat /\ e \in Nat
      /\ IsFiniteSet(RequestsIn(q)) /\ IsFiniteSet(PushesIn(q))
  BY <1>7, LoadParts
<1>9. c <= a /\ e <= b + 1
  BY <1>5, <1>6, <1>7, <1>8, OneElementMore, FS_Subset
<1>10. Load(r) = c + e /\ Load(q) = a + b
  BY <1>7 DEF Load
<1> QED
  BY <1>1, <1>8, <1>9, <1>10

\* Up to three elements.
LEMMA Tuples ==
  ASSUME NEW S, NEW p \in S, NEW k \in S
  PROVE  /\ Append(<<>>, p) = <<p>> /\ Append(<<p>>, k) = <<p, k>>
         /\ Append(<<p, p>>, k) = <<p, p, k>>
<1>1. Append(<<>>, p) = <<p>>
  OBVIOUS
<1>2. Append(<<p>>, k) = <<p, k>>
  <2>1. Append(<<p>>, k) \in Seq(S) /\ <<p, k>> \in Seq(S)
        /\ Len(Append(<<p>>, k)) = 2 /\ Len(<<p, k>>) = 2
        /\ \A i \in 1..2 : Append(<<p>>, k)[i] = <<p, k>>[i]
    OBVIOUS
  <2> QED BY <2>1, SeqEqual
<1>3. Append(<<p, p>>, k) = <<p, p, k>>
  <2>1. Append(<<p, p>>, k) \in Seq(S) /\ <<p, p, k>> \in Seq(S)
        /\ Len(Append(<<p, p>>, k)) = 3 /\ Len(<<p, p, k>>) = 3
        /\ \A i \in 1..3 : Append(<<p, p>>, k)[i] = <<p, p, k>>[i]
    OBVIOUS
  <2> QED BY <2>1, SeqEqual
<1> QED
  BY <1>1, <1>2, <1>3

\* The messages of the handshake are no requests.
LEMMA LoadHandshake ==
  /\ Load(<<>>) <= 1 /\ Load(<<HS>>) <= 1 /\ Load(<<HS, HS>>) <= 1
  /\ Load(<<HS, HS, Piece("MOIN", 1)>>) <= 1
<1>1. PICK p, k : p = HS /\ k = Piece("MOIN", 1)
  OBVIOUS
<1>2. PICK S : S = {p, k}
  OBVIOUS
<1>3. p.kw # "data" /\ ~IsLine(p) /\ p \in S /\ k \in S /\ k.kw # "data"
  BY <1>1, <1>2 DEF HS, Piece, IsLine
<1>4. PICK a \in Seq(S) : a = <<>>
  BY EmptySeq
<1>5. PICK b \in Seq(S) : b = Append(a, p)
  BY <1>3, OneMore
<1>6. PICK c \in Seq(S) : c = Append(b, p)
  BY <1>3, OneMore
<1>7. PICK d \in Seq(S) : d = Append(c, k)
  BY <1>3, OneMore
<1>8. Load(a) = 0
  <2>1. Len(a) = 0
    BY <1>4
  <2>2. RequestsIn(a) = {} /\ PushesIn(a) = {}
    BY <2>1 DEF RequestsIn, PushesIn
  <2> QED BY <2>2, FS_EmptySet DEF Load
<1>9. PICK u, v, w : u = Load(b) /\ v = Load(c) /\ w = Load(d)
  OBVIOUS
<1>10. u \in Nat /\ v \in Nat /\ w \in Nat /\ u <= 0 /\ v <= u /\ w <= v + 1
  <2>1. u \in Nat /\ v \in Nat /\ w \in Nat
    BY <1>9, LoadParts
  <2>2. u <= Load(a)
    BY <1>3, <1>5, <1>9, LoadAppend
  <2>3. v <= Load(b)
    BY <1>3, <1>6, <1>9, LoadAppend
  <2>4. w <= Load(c) + 1
    BY <1>3, <1>7, <1>9, LoadAppend
  <2> QED BY <1>8, <1>9, <2>1, <2>2, <2>3, <2>4
<1>11. b = <<p>> /\ c = <<p, p>> /\ d = <<p, p, k>>
  <2>1. Append(<<>>, p) = <<p>> /\ Append(<<p>>, p) = <<p, p>>
        /\ Append(<<p, p>>, k) = <<p, p, k>>
    BY <1>3, Tuples
  <2> QED BY <1>4, <1>5, <1>6, <1>7, <2>1, Zenon
<1> QED
  BY <1>1, <1>4, <1>8, <1>9, <1>10, <1>11

-----------------------------------------------------------------------------
(* The commands in the input.                                              *)

\* What counts as a command.
Counts(p) == p.kw = "chunk" /\ p.arg # 0

\* The prefixes that Commands goes through, however they are named.
LEMMA CommandsTrace ==
  ASSUME NEW S, NEW q \in Seq(S), NEW g \in [0..Len(q) -> Seq(S)], g[0] = <<>>,
         \A i \in 1..Len(q) :
           g[i] = IF Counts(q[i]) THEN Append(g[i - 1], q[i]) ELSE g[i - 1]
  PROVE  Commands(q) = g[Len(q)]
<1> DEFINE Picks(f) ==
             f = [i \in 0..Len(q) |->
                    IF i = 0 THEN <<>>
                    ELSE IF q[i].kw = "chunk" /\ q[i].arg # 0
                    THEN Append(f[i - 1], q[i]) ELSE f[i - 1]]
           select == CHOOSE f : Picks(f)
<1>1. PICK n \in Nat : n = Len(q)
  BY LenProperties
<1>2. Picks(g)
  <2>1. \A i \in 0..Len(q) :
          g[i] = IF i = 0 THEN <<>>
                 ELSE IF q[i].kw = "chunk" /\ q[i].arg # 0
                 THEN Append(g[i - 1], q[i]) ELSE g[i - 1]
    <3> TAKE i \in 0..Len(q)
    <3>1. CASE i = 0
      BY <3>1
    <3>2. CASE i # 0
      <4>1. i \in 1..Len(q)
        BY <1>1, <3>2
      <4> QED BY <3>2, <4>1, Zenon DEF Counts
    <3> QED BY <3>1, <3>2
  <2>2. g = [i \in 0..Len(q) |-> g[i]]
    OBVIOUS
  <2> QED BY <2>1, <2>2
<1>3. Picks(select)
  <2> HIDE DEF Picks
  <2> QED BY <1>2
<1>4. Commands(q) = select[Len(q)]
  BY DEF Commands
<1> HIDE DEF select
<1>5. \A i \in 0..n : select[i] = IF i = 0 THEN <<>>
                                  ELSE IF Counts(q[i]) THEN Append(select[i - 1], q[i])
                                  ELSE select[i - 1]
  BY <1>1, <1>3 DEF Counts
<1> DEFINE T == {i \in Nat : i <= n => select[i] = g[i]}
<1>6. 0 \in T
  BY <1>1, <1>5
<1>7. ASSUME NEW i \in Nat, i \in T PROVE i + 1 \in T
  <2> SUFFICES ASSUME i + 1 <= n PROVE select[i + 1] = g[i + 1]
    OBVIOUS
  <2>1. PICK j : j = i + 1
    OBVIOUS
  <2>2. j \in 1..n /\ j # 0 /\ j - 1 = i /\ i <= n
    BY <2>1
  <2>3. select[j - 1] = g[j - 1]
    BY <1>7, <2>2
  <2>4. g[j] = IF Counts(q[j]) THEN Append(g[j - 1], q[j]) ELSE g[j - 1]
    BY <1>1, <2>2
  <2>5. select[j] = IF Counts(q[j]) THEN Append(select[j - 1], q[j]) ELSE select[j - 1]
    BY <1>5, <2>2
  <2> QED BY <2>1, <2>3, <2>4, <2>5
<1> HIDE DEF T
<1>8. Nat \subseteq T
  BY <1>6, <1>7, SetInduction
<1> QED
  BY <1>1, <1>4, <1>8 DEF T

\* The commands are the last of some prefixes.
LEMMA CommandsPrefixes ==
  ASSUME NEW S, NEW q \in Seq(S)
  PROVE  \E g \in [0..Len(q) -> Seq(S)] :
           /\ g[0] = <<>>
           /\ \A i \in 1..Len(q) :
                g[i] = IF Counts(q[i]) THEN Append(g[i - 1], q[i]) ELSE g[i - 1]
           /\ Commands(q) = g[Len(q)]
<1>1. PICK n \in Nat : n = Len(q)
  BY LenProperties
<1> DEFINE V == Seq(S)
           F == [i \in 1..n |->
                   [x \in V |-> IF Counts(q[i]) THEN Append(x, q[i]) ELSE x]]
<1>2. \A i \in 1..n : \A x \in V : Append(x, q[i]) \in V
  BY <1>1, ElementOfSeq, AppendProperties
<1>3. <<>> \in V /\ F \in [1..n -> [V -> V]]
  BY <1>2, EmptySeq
<1>4. PICK g \in [0..n -> V] : IsTrace(g, <<>>, F, n)
  <2> HIDE DEF V, F
  <2> QED BY <1>3, TraceExists
<1>5. /\ g[0] = <<>>
      /\ \A i \in 1..n : g[i] = IF Counts(q[i]) THEN Append(g[i - 1], q[i]) ELSE g[i - 1]
  <2>1. g[0] = <<>> /\ \A i \in 1..n : g[i] = F[i][g[i - 1]]
    BY <1>4, Zenon DEF IsTrace
  <2>2. \A i \in 1..n : g[i - 1] \in V
    BY <1>4
  <2>3. \A i \in 1..n : \A x \in V :
          F[i][x] = IF Counts(q[i]) THEN Append(x, q[i]) ELSE x
    OBVIOUS
  <2> HIDE DEF V, F
  <2> QED BY <2>1, <2>2, <2>3
<1> QED
  BY <1>1, <1>4, <1>5, CommandsTrace

\* Without input there is no command.
LEMMA CommandsNone == Commands(<<>>) = <<>>
<1>1. PICK q \in Seq({}) : q = <<>> /\ Len(q) = 0
  BY EmptySeq
<1>2. PICK g \in [0..Len(q) -> Seq({})] : g[0] = <<>> /\ Commands(q) = g[Len(q)]
  BY CommandsPrefixes
<1> QED
  BY <1>1, <1>2

\* What is no command adds none, a chunk that is not empty adds itself.
LEMMA CommandsMore ==
  ASSUME NEW S, NEW q \in Seq(S), NEW x \in Seq(S),
         \A i \in 1..Len(x) : x[i].kw # "chunk"
  PROVE  /\ Commands(q \o x) = Commands(q)
         /\ Commands(q) \in Seq(S)
<1>1. PICK n \in Nat, m \in Nat : n = Len(q) /\ m = Len(x)
  BY LenProperties
<1>2. PICK r \in Seq(S) : r = q \o x
  BY ConcatProperties
<1>3. Len(r) = n + m /\ (\A i \in 1..n : r[i] = q[i]) /\ (\A i \in 1..m : r[n + i] = x[i])
  BY <1>1, <1>2, ConcatProperties
<1>4. PICK g \in [0..n -> Seq(S)] :
        /\ g[0] = <<>>
        /\ \A i \in 1..n : g[i] = IF Counts(q[i]) THEN Append(g[i - 1], q[i]) ELSE g[i - 1]
        /\ Commands(q) = g[n]
  BY <1>1, CommandsPrefixes
<1> DEFINE h == [i \in 0..(n + m) |-> IF i <= n THEN g[i] ELSE g[n]]
<1>5. h \in [0..(n + m) -> Seq(S)] /\ h[0] = <<>> /\ h[n + m] = g[n]
  BY <1>4
<1>6. \A i \in 1..(n + m) :
        h[i] = IF Counts(r[i]) THEN Append(h[i - 1], r[i]) ELSE h[i - 1]
  <2> TAKE i \in 1..(n + m)
  <2>1. CASE i <= n
    <3>1. i \in 1..n /\ i - 1 \in 0..n
      BY <2>1
    <3>2. h[i] = g[i] /\ h[i - 1] = g[i - 1] /\ r[i] = q[i]
      BY <1>3, <3>1
    <3> QED BY <1>4, <3>1, <3>2
  <2>2. CASE i > n
    <3>1. PICK j \in 1..m : i = n + j
      <4>1. i - n \in 1..m /\ i = n + (i - n)
        BY <2>2
      <4> QED BY <4>1
    <3>2. h[i] = g[n] /\ h[i - 1] = g[n]
      BY <2>2
    <3>3. r[i].kw # "chunk"
      BY <1>1, <1>3, <3>1
    <3> QED BY <3>2, <3>3 DEF Counts
  <2> QED BY <2>1, <2>2
<1> HIDE DEF h
<1>7. Commands(r) = h[n + m]
  <2>1. PICK k \in Nat : k = n + m /\ k = Len(r)
    BY <1>3
  <2>2. h \in [0..Len(r) -> Seq(S)] /\ h[0] = <<>>
    BY <1>5, <2>1
  <2>3. \A i \in 1..Len(r) :
          h[i] = IF Counts(r[i]) THEN Append(h[i - 1], r[i]) ELSE h[i - 1]
    BY <1>6, <2>1
  <2> QED BY <2>1, <2>2, <2>3, CommandsTrace
<1> QED
  BY <1>2, <1>4, <1>5, <1>7

\* One chunk more.
LEMMA CommandsChunk ==
  ASSUME NEW S, NEW q \in Seq(S), NEW p \in S, p.kw = "chunk"
  PROVE  Commands(Append(q, p)) = IF p.arg # 0 THEN Append(Commands(q), p)
                                  ELSE Commands(q)
<1>1. PICK n \in Nat : n = Len(q)
  BY LenProperties
<1>2. PICK r \in Seq(S) : r = Append(q, p)
  BY OneMore
<1>3. Len(r) = n + 1 /\ r[n + 1] = p /\ \A i \in 1..n : r[i] = q[i]
  BY <1>1, <1>2, OneMore
<1>4. PICK g \in [0..n -> Seq(S)] :
        /\ g[0] = <<>>
        /\ \A i \in 1..n : g[i] = IF Counts(q[i]) THEN Append(g[i - 1], q[i]) ELSE g[i - 1]
        /\ Commands(q) = g[n]
  BY <1>1, CommandsPrefixes
<1>5. PICK y \in Seq(S) : y = IF p.arg # 0 THEN Append(g[n], p) ELSE g[n]
  <2>1. g[n] \in Seq(S)
    BY <1>4
  <2>2. Append(g[n], p) \in Seq(S)
    BY <2>1, AppendProperties
  <2> QED BY <2>1, <2>2
<1> DEFINE h == [i \in 0..(n + 1) |-> IF i <= n THEN g[i] ELSE y]
<1>6. h \in [0..(n + 1) -> Seq(S)] /\ h[0] = <<>> /\ h[n + 1] = y
  BY <1>4
<1>7. \A i \in 1..(n + 1) :
        h[i] = IF Counts(r[i]) THEN Append(h[i - 1], r[i]) ELSE h[i - 1]
  <2> TAKE i \in 1..(n + 1)
  <2>1. CASE i = n + 1
    <3>1. h[(n + 1) - 1] = g[n] /\ h[n + 1] = y
      OBVIOUS
    <3>2. Counts(p) <=> p.arg # 0
      BY DEF Counts
    <3> QED BY <1>3, <1>5, <2>1, <3>1, <3>2
  <2>2. CASE i # n + 1
    <3>1. i \in 1..n /\ i - 1 \in 0..n
      BY <2>2
    <3>2. h[i] = g[i] /\ h[i - 1] = g[i - 1] /\ r[i] = q[i]
      BY <1>3, <3>1
    <3> QED BY <1>4, <3>1, <3>2
  <2> QED BY <2>1, <2>2
<1> HIDE DEF h
<1>8. Commands(r) = h[n + 1]
  <2>1. h \in [0..Len(r) -> Seq(S)]
    BY <1>3, <1>6, Zenon
  <2>2. \A i \in 1..Len(r) :
          h[i] = IF Counts(r[i]) THEN Append(h[i - 1], r[i]) ELSE h[i - 1]
    BY <1>3, <1>7, Zenon
  <2>3. Commands(r) = h[Len(r)]
    BY <1>6, <2>1, <2>2, CommandsTrace, Zenon
  <2> QED BY <1>3, <2>3
<1> QED
  BY <1>2, <1>4, <1>5, <1>6, <1>8

\* A sequence is cut in two.
LEMMA CutParts ==
  ASSUME NEW S, NEW q \in Seq(S), NEW n \in 0..Len(q),
         NEW a, a = SubSeq(q, 1, n), NEW b, b = SubSeq(q, n + 1, Len(q))
  PROVE  /\ a \in Seq(S) /\ b \in Seq(S) /\ Len(a) = n /\ Len(b) = Len(q) - n
         /\ \A i \in 1..n : a[i] = q[i]
         /\ \A i \in 1..(Len(q) - n) : b[i] = q[n + i]
<1>1. SubSeq(q, 1, n) \in Seq(S) /\ SubSeq(q, n + 1, Len(q)) \in Seq(S)
  BY Cut, Zenon
<1>2. Len(SubSeq(q, 1, n)) = n /\ Len(SubSeq(q, n + 1, Len(q))) = Len(q) - n
  BY Cut, Zenon
<1>3. /\ \A i \in 1..n : SubSeq(q, 1, n)[i] = q[i]
      /\ \A i \in 1..(Len(q) - n) : SubSeq(q, n + 1, Len(q))[i] = q[n + i]
  BY Cut, Zenon
<1> QED
  BY <1>1, <1>2, <1>3, Zenon

\* The parts of a concatenation.
LEMMA Joined ==
  ASSUME NEW S, NEW a \in Seq(S), NEW b \in Seq(S), NEW c, c = a \o b
  PROVE  /\ c \in Seq(S) /\ Len(c) = Len(a) + Len(b)
         /\ \A i \in 1..Len(a) : c[i] = a[i]
         /\ \A i \in 1..Len(b) : c[Len(a) + i] = b[i]
<1>1. PICK m, n \in Nat : m = Len(a) /\ n = Len(b)
  BY LenProperties
<1>2. /\ c \in Seq(S) /\ Len(c) = Len(a) + Len(b)
      /\ \A i \in 1..(Len(a) + Len(b)) : c[i] = IF i <= Len(a) THEN a[i] ELSE b[i - Len(a)]
  BY ConcatProperties, Zenon
<1>3. ASSUME NEW i \in 1..m PROVE c[i] = a[i]
  <2>1. i <= Len(a) /\ i \in 1..(Len(a) + Len(b))
    BY <1>1
  <2> QED BY <1>2, <2>1, Zenon
<1>4. ASSUME NEW i \in 1..n PROVE c[m + i] = b[i]
  <2>1. /\ ~(m + i <= Len(a)) /\ m + i \in 1..(Len(a) + Len(b)) /\ (m + i) - Len(a) = i
    BY <1>1
  <2>2. c[m + i] = b[(m + i) - Len(a)]
    BY <1>2, <2>1, Zenon
  <2> QED BY <2>1, <2>2
<1> QED
  BY <1>1, <1>2, <1>3, <1>4

\* A sequence is its two parts.
LEMMA Halves ==
  ASSUME NEW S, NEW q \in Seq(S), NEW n \in 0..Len(q)
  PROVE  SubSeq(q, 1, n) \o SubSeq(q, n + 1, Len(q)) = q
<1>1. PICK m \in Nat : m = Len(q) /\ n \in Nat /\ n <= m
  BY LenProperties
<1>2. PICK a, b : a = SubSeq(q, 1, n) /\ b = SubSeq(q, n + 1, Len(q))
  OBVIOUS
<1>3. /\ a \in Seq(S) /\ b \in Seq(S) /\ Len(a) = n /\ Len(b) = m - n
      /\ \A i \in 1..n : a[i] = q[i]
      /\ \A i \in 1..(m - n) : b[i] = q[n + i]
  BY <1>1, <1>2, CutParts
<1>4. PICK c \in Seq(S) : c = a \o b
  BY <1>3, ConcatProperties
<1>5. Len(c) = m /\ (\A i \in 1..n : c[i] = a[i]) /\ \A i \in 1..(m - n) : c[n + i] = b[i]
  <2>2. a \in Seq(S) /\ b \in Seq(S)
    BY <1>3
  <2>1. /\ Len(c) = Len(a) + Len(b)
        /\ \A i \in 1..Len(a) : c[i] = a[i]
        /\ \A i \in 1..Len(b) : c[Len(a) + i] = b[i]
    BY <1>4, <2>2, Joined, SMTT(60)
  <2> QED BY <1>1, <1>3, <2>1
<1>6. \A i \in 1..m : c[i] = q[i]
  <2> TAKE i \in 1..m
  <2>1. CASE i <= n
    BY <1>1, <1>3, <1>5, <2>1
  <2>2. CASE i > n
    <3>1. PICK j \in 1..(m - n) : i = n + j
      <4>1. i - n \in 1..(m - n) /\ i = n + (i - n)
        BY <1>1, <2>2
      <4> QED BY <4>1
    <3> QED BY <1>3, <1>5, <3>1
  <2> QED BY <1>1, <2>1, <2>2
<1>7. c = q
  BY <1>1, <1>5, <1>6, SeqEqual
<1> QED
  BY <1>2, <1>4, <1>7

\* read(2) returns the first pieces of what was typed.
LEMMA PiecesRead ==
  ASSUME NEW S, NEW chunks \in Seq(S), NEW stdin \in Seq(S), NEW k \in 0..Len(stdin)
  PROVE  (chunks \o SubSeq(stdin, 1, k)) \o SubSeq(stdin, k + 1, Len(stdin))
           = chunks \o stdin
<1>1. PICK a, b : a = SubSeq(stdin, 1, k) /\ b = SubSeq(stdin, k + 1, Len(stdin))
  OBVIOUS
<1>2. a \in Seq(S) /\ b \in Seq(S)
  <2>1. PICK n \in 0..Len(stdin) : n = k
    OBVIOUS
  <2> QED BY <1>1, CutParts, SMT
<1>3. PICK x, y : x = chunks \o a /\ y = a \o b
  OBVIOUS
<1>4. x \o b = chunks \o y
  <2>1. Cat(Cat(chunks, a), b) = Cat(chunks, Cat(a, b))
    BY <1>2, CatAssoc
  <2> QED BY <1>3, <2>1, Zenon DEF Cat
<1>5. y = stdin
  BY <1>1, <1>3, Halves, Zenon
<1> QED
  BY <1>1, <1>3, <1>4, <1>5

\* The n-th piece of the buffer, and all that is before it, has been used.
Taken(used, chunks, stdin, n, S) ==
  \E more \in Seq(S) :
    /\ used \o (chunks \o stdin)
         = more \o (SubSeq(chunks, n + 1, Len(chunks)) \o stdin)
    /\ more # <<>> /\ Last(more) = chunks[n]
    /\ Commands(more) = IF chunks[n].arg # 0
                        THEN Append(Commands(used), chunks[n])
                        ELSE Commands(used)

\* The first chunk is taken out of the input, with all that is before it.
LEMMA ChunkTaken ==
  ASSUME NEW S, NEW used \in Seq(S), NEW chunks \in Seq(S), NEW stdin \in Seq(S),
         NEW n \in 1..Len(chunks), chunks[n].kw = "chunk",
         \A i \in 1..(n - 1) : chunks[i].kw # "chunk"
  PROVE  Taken(used, chunks, stdin, n, S)
<1>1. PICK m \in Nat : m = Len(chunks) /\ n \in 1..m /\ n - 1 \in 0..Len(chunks)
  BY LenProperties
<1>2. PICK p \in S : p = chunks[n]
  BY <1>1, ElementOfSeq
<1>3. PICK a : a = SubSeq(chunks, 1, n - 1)
  OBVIOUS
<1>4. a \in Seq(S) /\ Len(a) = n - 1 /\ \A i \in 1..(n - 1) : a[i] = chunks[i]
  <2>1. PICK k \in 0..Len(chunks) : k = n - 1
    BY <1>1
  <2>2. PICK d : d = SubSeq(chunks, k + 1, Len(chunks))
    OBVIOUS
  <2>3. a \in Seq(S) /\ Len(a) = k /\ \A i \in 1..k : a[i] = chunks[i]
    BY <1>3, <2>1, <2>2, CutParts
  <2> QED BY <2>1, <2>3
<1>5. PICK b, c : b = SubSeq(chunks, 1, n) /\ c = SubSeq(chunks, n + 1, Len(chunks))
  OBVIOUS
<1>14. b \in Seq(S) /\ c \in Seq(S) /\ Len(b) = n /\ \A i \in 1..n : b[i] = chunks[i]
  <2>1. n \in 0..Len(chunks)
    BY <1>1
  <2> QED BY <1>5, <2>1, CutParts
<1>6. b = Append(a, p)
  <2>1. PICK d \in Seq(S) : d = Append(a, p)
    BY <1>4, OneMore
  <2>2. Len(d) = n /\ \A i \in 1..n : d[i] = b[i]
    <3>1. Len(d) = (n - 1) + 1 /\ d[(n - 1) + 1] = p /\ \A i \in 1..(n - 1) : d[i] = a[i]
      BY <1>4, <2>1, OneMore
    <3>2. ASSUME NEW i \in 1..n PROVE d[i] = b[i]
      <4>1. CASE i = n
        BY <1>1, <1>2, <1>14, <3>1, <4>1
      <4>2. CASE i # n
        <5>1. i \in 1..(n - 1)
          BY <1>1, <4>2
        <5> QED BY <1>4, <1>14, <3>1, <5>1
      <4> QED BY <4>1, <4>2
    <3> QED BY <1>1, <3>1, <3>2
  <2> QED BY <1>14, <2>1, <2>2, SeqEqual
<1>7. PICK f \in Seq(S) : f = used \o a
  BY <1>4, ConcatProperties
<1>8. Commands(f) = Commands(used)
  <2>1. \A i \in 1..Len(a) : a[i].kw # "chunk"
    BY <1>4
  <2> QED BY <1>4, <1>7, <2>1, CommandsMore
<1>9. PICK more \in Seq(S) : more = Append(f, p)
  BY OneMore
<1>10. more = used \o b
  <2>1. PICK w \in Seq(S) : w = <<p>>
    BY JustOne
  <2>2. b = a \o w /\ more = f \o w
    BY <1>4, <1>6, <1>9, <2>1, AppendIsConcat
  <2>3. Cat(Cat(used, a), w) = Cat(used, Cat(a, w))
    BY <1>4, CatAssoc
  <2> QED BY <1>7, <2>2, <2>3, Zenon DEF Cat
<1>11. used \o (chunks \o stdin) = more \o (c \o stdin)
  <2>1. b \o c = chunks
    <3>1. n \in 0..Len(chunks)
      BY <1>1
    <3> QED BY <1>5, <3>1, Halves
  <2>2. PICK e \in Seq(S) : e = Cat(c, stdin)
    BY <1>14, CatAssoc
  <2>3. Cat(Cat(b, c), stdin) = Cat(b, e)
    BY <1>14, <2>2, CatAssoc
  <2>4. Cat(Cat(used, b), e) = Cat(used, Cat(b, e))
    BY <1>14, CatAssoc
  <2> QED BY <1>10, <2>1, <2>2, <2>3, <2>4, Zenon DEF Cat
<1>12. more # <<>> /\ Last(more) = p
  <2>1. more[Len(f) + 1] = p /\ Len(more) = Len(f) + 1 /\ Len(f) \in Nat
    BY <1>9, OneMore, LenProperties
  <2> QED BY <2>1 DEF Last
<1>13. Commands(more) = IF p.arg # 0 THEN Append(Commands(used), p) ELSE Commands(used)
  <2>1. p.kw = "chunk"
    BY <1>2
  <2>2. Commands(Append(f, p)) = IF p.arg # 0 THEN Append(Commands(f), p) ELSE Commands(f)
    BY <2>1, CommandsChunk, Zenon
  <2> QED BY <1>8, <1>9, <2>2, Zenon
<1> QED
  BY <1>2, <1>5, <1>11, <1>12, <1>13, Zenon DEF Taken

\* What an input holds of which `used' was read and `chunks' is buffered.
EndsAs(t, used, chunks) ==
  /\ t # <<>> /\ Last(t) = EndOfFile
  /\ chunks # <<>> => Last(chunks) \in Texts /\ Last(chunks).kw = "tail"
  /\ Commands(t) \o Unterminated(t) =
       IF chunks = <<>> THEN Commands(used)
       ELSE IF Last(chunks).arg = 0 THEN Commands(used)
       ELSE Append(Commands(used), Last(chunks))

\* The input ends with an unterminated chunk or without one.
LEMMA InputEnds ==
  ASSUME NEW used \in Seq(Texts), NEW chunks \in Seq(Texts), NEW stdin \in Seq(Texts),
         used # <<>> => Last(used).kw = "chunk",
         \A i \in 1..Len(chunks) : chunks[i].kw # "chunk",
         stdin # <<>>, stdin[1] = EndOfFile,
         NEW t, t = used \o (chunks \o stdin),
         \A i \in 1..Len(t) : t[i] = EndOfFile => i = Len(t)
  PROVE  EndsAs(t, used, chunks)
<1>0. SUFFICES
        /\ t # <<>> /\ Last(t) = EndOfFile
        /\ chunks # <<>> => Last(chunks) \in Texts /\ Last(chunks).kw = "tail"
        /\ Commands(t) \o Unterminated(t) =
              IF chunks = <<>> THEN Commands(used)
              ELSE IF Last(chunks).arg = 0 THEN Commands(used)
              ELSE Append(Commands(used), Last(chunks))
  BY Zenon DEF EndsAs
<1>1. PICK n, m, l \in Nat : n = Len(used) /\ m = Len(chunks) /\ l = Len(stdin)
  BY LenProperties
<1>2. l > 0
  BY <1>1, EmptySeq
<1>3. PICK x \in Seq(Texts) : x = chunks \o stdin
  BY ConcatProperties
<1>4. Len(x) = m + l /\ (\A i \in 1..m : x[i] = chunks[i]) /\ x[m + 1] = EndOfFile
  <2>1. Len(x) = m + l /\ (\A i \in 1..m : x[i] = chunks[i])
        /\ \A i \in 1..l : x[m + i] = stdin[i]
    BY <1>1, <1>3, ConcatProperties
  <2> QED BY <1>2, <2>1
<1>5. /\ t \in Seq(Texts) /\ Len(t) = n + (m + l) /\ \A i \in 1..n : t[i] = used[i]
      /\ \A i \in 1..(m + l) : t[n + i] = x[i]
  <2>1. /\ t \in Seq(Texts) /\ Len(t) = Len(used) + Len(x)
        /\ \A i \in 1..Len(used) : t[i] = used[i]
        /\ \A i \in 1..Len(x) : t[Len(used) + i] = x[i]
    BY <1>3, Joined, SMTT(60)
  <2> QED BY <1>1, <1>4, <2>1
<1>6. t[n + (m + 1)] = EndOfFile /\ n + (m + 1) \in 1..Len(t)
  <2>1. m + 1 \in 1..(m + l) /\ n + (m + 1) \in 1..(n + (m + l))
    BY <1>2
  <2>2. t[n + (m + 1)] = x[m + 1]
    BY <1>5, <2>1, Zenon
  <2> QED BY <1>4, <1>5, <2>1, <2>2
<1>7. l = 1 /\ Len(t) = n + (m + 1)
  <2>1. n + (m + 1) = Len(t)
    BY <1>6
  <2> QED BY <1>5, <2>1
<1>8. t # <<>> /\ Last(t) = EndOfFile
  BY <1>6, <1>7 DEF Last
<1>9. \A i \in 1..Len(x) : x[i].kw # "chunk"
  <2> TAKE i \in 1..Len(x)
  <2>1. CASE i = m + 1
    BY <1>4, <2>1 DEF EndOfFile, Piece
  <2>2. CASE i # m + 1
    BY <1>1, <1>4, <1>7, <2>2
  <2> QED BY <2>1, <2>2
<1>10. Commands(t) = Commands(used) /\ Commands(used) \in Seq(Texts)
  BY <1>3, <1>9, CommandsMore
<1>11. CASE chunks = <<>>
  <2>1. m = 0
    BY <1>1, <1>11
  <2>2. Unterminated(t) = <<>>
    <3>1. CASE n = 0
      BY <1>7, <2>1, <3>1 DEF Unterminated
    <3>2. CASE n # 0
      <4>1. used # <<>> /\ Last(used) = used[n]
        BY <1>1, <3>2 DEF Last
      <4>2. t[n] = used[n] /\ Len(t) - 1 = n
        BY <1>5, <1>7, <2>1, <3>2
      <4> QED BY <4>1, <4>2 DEF Unterminated
    <3> QED BY <3>1, <3>2
  <2> QED BY <1>8, <1>10, <1>11, <2>2, Assoc
<1>12. CASE chunks # <<>>
  <2>1. m > 0
    BY <1>1, <1>12, EmptySeq
  <2>2. PICK p \in Texts : p = chunks[m]
    BY <1>1, <2>1, ElementOfSeq
  <2>3. Last(chunks) = p /\ p.kw # "chunk"
    BY <1>1, <2>1, <2>2 DEF Last
  <2>4. t[Len(t) - 1] = p /\ Len(t) > 1 /\ t[Len(t)] = EndOfFile
    <3>1. n + m = Len(t) - 1 /\ m \in 1..(m + l) /\ m \in 1..m
      BY <1>7, <2>1
    <3>2. t[n + m] = x[m] /\ x[m] = p
      <4>1. t[n + m] = x[m]
        BY <1>5, <3>1, Zenon
      <4>2. x[m] = chunks[m]
        BY <1>4, <3>1, Zenon
      <4> QED BY <2>2, <4>1, <4>2
    <3>3. Len(t) - 1 = n + m /\ Len(t) > 1 /\ Len(t) = n + (m + 1)
      BY <1>7, <2>1
    <3> QED BY <1>6, <3>2, <3>3
  <2>5. p # EndOfFile
    <3>1. Len(t) - 1 \in 1..Len(t) /\ Len(t) - 1 # Len(t)
      BY <1>7, <2>1
    <3> QED BY <2>4, <3>1
  <2>6. p.kw = "tail"
    BY <2>3, <2>5 DEF Texts, Piece
  <2>7. Unterminated(t) = IF p.arg # 0 THEN <<p>> ELSE <<>>
    BY <2>4, <2>6 DEF Unterminated
  <2>8. PICK q \in Seq(Texts) : q = Commands(used)
    BY <1>10
  <2>9. q \o <<p>> = Append(q, p) /\ q \o <<>> = q
    BY AppendIsConcat, Assoc
  <2> QED BY <1>8, <1>10, <1>12, <2>3, <2>6, <2>7, <2>8, <2>9
<1> QED
  BY <1>11, <1>12

-----------------------------------------------------------------------------
(* The callbacks are those of module TlsCallbacks, which has the functions *)
(* of module Tls.                                                          *)

\* Starting, stopping and feeding watchers.
LEMMA SameWatchers ==
  ASSUME NEW s, NEW w, NEW e
  PROVE  /\ CB!ev_io_start(s, w, e) = ev_io_start(s, w, e)
         /\ CB!ev_io_stop(s, w) = ev_io_stop(s, w)
         /\ CB!ev_feed_event(s, w) = ev_feed_event(s, w)
         /\ CB!ev_timer_start(s, w) = ev_timer_start(s, w)
         /\ CB!ev_timer_stop(s) = ev_timer_stop(s)
         /\ CB!Touch(s) = Touch(s)
<1>1. CB!ev_io_stop(s, w) = ev_io_stop(s, w)
  BY DEF CB!ev_io_stop, ev_io_stop, CB!ClearPending, ClearPending,
         CB!RemoveFirst, RemoveFirst, CB!RemoveAt, RemoveAt,
         CB!SelectInSeq, SelectInSeq, CB!Min, Min
<1>2. CB!ev_feed_event(s, w) = ev_feed_event(s, w)
  BY DEF CB!ev_feed_event, ev_feed_event, CB!Range, Range
<1> QED
  BY <1>1, <1>2 DEF CB!ev_io_start, ev_io_start, CB!ev_timer_start,
     ev_timer_start, CB!ev_timer_stop, ev_timer_stop, CB!Touch, Touch

\* The loop of tls_free over the watchers.
LEMMA SameStop ==
  ASSUME NEW s
  PROVE  CB!StopActive(s) = StopActive(s)
<1>1. ASSUME NEW u, NEW w PROVE CB!StopIfActive(u, w) = StopIfActive(u, w)
  BY SameWatchers DEF CB!StopIfActive, StopIfActive
<1> QED
  BY <1>1 DEF CB!StopActive, StopActive

\* tls_free, die and start_shutdown.
LEMMA SameFree ==
  ASSUME NEW s, NEW what
  PROVE  /\ CB!tls_free(s) = tls_free(s) /\ CB!die(s, what) = die(s, what)
         /\ CB!start_shutdown(s) = start_shutdown(s)
<1>1. CB!Fault(s, what) = Fault(s, what)
  BY DEF CB!Fault, Fault
<1>2. CB!tls_free(s) = tls_free(s)
  BY SameStop, SameWatchers DEF CB!tls_free, tls_free, CB!Fault, Fault
<1>3. CB!die(s, what) = die(s, what)
  BY DEF CB!die, die, CB!Fault, Fault
<1>4. CB!start_shutdown(s) = start_shutdown(s)
  BY SameWatchers DEF CB!start_shutdown, start_shutdown
<1> QED
  BY <1>2, <1>3, <1>4

\* The handshake and the socket.
LEMMA SameHandshake ==
  ASSUME NEW s
  PROVE  /\ CB!Handshake(s) = Handshake(s) /\ CB!Want(s) = Want(s)
         /\ CB!Room(s) = Room(s) /\ CB!HS = HS /\ CB!CloseNotify = CloseNotify
<1>1. CB!HS = HS /\ CB!CloseNotify = CloseNotify
  BY DEF CB!HS, HS, CB!CloseNotify, CloseNotify, CB!Piece, Piece
<1>2. ASSUME NEW u PROVE CB!HandshakeStep(u) = HandshakeStep(u)
  BY <1>1 DEF CB!HandshakeStep, HandshakeStep, CB!Room, Room
<1>3. CB!Want(s) = Want(s)
  BY DEF CB!Want, Want, CB!Outcome, Outcome
<1> QED
  BY <1>1, <1>2, <1>3 DEF CB!Handshake, Handshake, CB!Room, Room

\* SSL_read.
LEMMA SameRead ==
  ASSUME NEW s, NEW size
  PROVE  CB!SSL_read(s, size) = SSL_read(s, size)
<1>1. ASSUME NEW u PROVE CB!TakeRead(u, size) = TakeRead(u, size)
  BY DEF CB!TakeRead, TakeRead, CB!Outcome, Outcome
<1>2. ASSUME NEW a, NEW b, NEW c PROVE CB!Outcome(a, b, c) = Outcome(a, b, c)
  BY DEF CB!Outcome, Outcome
<1>3. ASSUME NEW u PROVE CB!PeerClosed(u) = PeerClosed(u)
  BY SameHandshake DEF CB!PeerClosed, PeerClosed
<1> QED
  BY <1>1, <1>2, <1>3, SameHandshake, Zenon DEF CB!SSL_read, SSL_read

\* SSL_write.
LEMMA SameWrite ==
  ASSUME NEW s, NEW data
  PROVE  CB!SSL_write(s, data) = SSL_write(s, data)
<1>1. /\ CB!Handshake(s) = Handshake(s)
      /\ CB!Room(Handshake(s)) = Room(Handshake(s))
      /\ CB!Want(Handshake(s)) = Want(Handshake(s))
  BY SameHandshake
<1>2. ASSUME NEW a, NEW b, NEW c PROVE CB!Outcome(a, b, c) = Outcome(a, b, c)
  BY DEF CB!Outcome, Outcome
<1>3. PICK h : h = Handshake(s)
  OBVIOUS
<1>4. PICK n : n = IF Room(h) < Len(data) THEN Room(h) ELSE Len(data)
  OBVIOUS
<1>5. PICK d : d = [h EXCEPT !.out = @ \o SubSeq(data, 1, n)]
  OBVIOUS
<1>6. SSL_write(s, data) =
        IF s.link = "reset" THEN Outcome("error", <<>>, s)
        ELSE IF h.hs # <<>> THEN Want(h)
        ELSE IF n = 0 THEN Outcome("want_write", <<>>, h)
        ELSE Outcome("done", SubSeq(data, 1, n), d)
  BY <1>3, <1>4, <1>5, Zenon DEF SSL_write
<1>7. CB!SSL_write(s, data) =
        IF s.link = "reset" THEN CB!Outcome("error", <<>>, s)
        ELSE IF h.hs # <<>> THEN CB!Want(h)
        ELSE IF n = 0 THEN CB!Outcome("want_write", <<>>, h)
        ELSE CB!Outcome("done", SubSeq(data, 1, n), d)
  BY <1>1, <1>3, <1>4, <1>5, Zenon DEF CB!SSL_write
<1>8. /\ CB!Outcome("error", <<>>, s) = Outcome("error", <<>>, s)
      /\ CB!Outcome("want_write", <<>>, h) = Outcome("want_write", <<>>, h)
      /\ CB!Outcome("done", SubSeq(data, 1, n), d) = Outcome("done", SubSeq(data, 1, n), d)
      /\ CB!Want(h) = Want(h)
  BY <1>1, <1>2, <1>3
<1> QED
  BY <1>6, <1>7, <1>8

\* SSL_shutdown.
LEMMA SameShutdown ==
  ASSUME NEW s
  PROVE  CB!SSL_shutdown(s) = SSL_shutdown(s)
<1>1. CB!Room(s) = Room(s) /\ CB!CloseNotify = CloseNotify
  BY SameHandshake
<1>2. ASSUME NEW a, NEW b, NEW c PROVE CB!Outcome(a, b, c) = Outcome(a, b, c)
  BY DEF CB!Outcome, Outcome
<1>3. PICK c : c = IF s.sent_close = "yes" THEN s
                   ELSE [s EXCEPT !.out = Append(@, CloseNotify), !.sent_close = "yes"]
  OBVIOUS
<1>4. SSL_shutdown(s) =
        IF s.link = "reset" \/ s.hs # <<>> THEN Outcome("error", <<>>, s)
        ELSE IF s.sent_close = "no" /\ Room(s) = 0
             THEN Outcome("want_write", <<>>, s)
        ELSE IF c.rbuf # <<>> THEN Outcome("error", <<>>, c)
        ELSE IF c.in = <<>> THEN Outcome("want_read", <<>>, c)
        ELSE Outcome(IF Head(c.in) = <<CloseNotify>> THEN "done" ELSE "error",
                     <<>>, c)
  BY <1>3, Zenon DEF SSL_shutdown
<1>5. CB!SSL_shutdown(s) =
        IF s.link = "reset" \/ s.hs # <<>> THEN CB!Outcome("error", <<>>, s)
        ELSE IF s.sent_close = "no" /\ Room(s) = 0
             THEN CB!Outcome("want_write", <<>>, s)
        ELSE IF c.rbuf # <<>> THEN CB!Outcome("error", <<>>, c)
        ELSE IF c.in = <<>> THEN CB!Outcome("want_read", <<>>, c)
        ELSE CB!Outcome(IF Head(c.in) = <<CloseNotify>> THEN "done" ELSE "error",
                        <<>>, c)
  BY <1>1, <1>3, Zenon DEF CB!SSL_shutdown
<1>6. /\ CB!Outcome("error", <<>>, s) = Outcome("error", <<>>, s)
      /\ CB!Outcome("want_write", <<>>, s) = Outcome("want_write", <<>>, s)
      /\ CB!Outcome("error", <<>>, c) = Outcome("error", <<>>, c)
      /\ CB!Outcome("want_read", <<>>, c) = Outcome("want_read", <<>>, c)
  BY <1>2
<1>7. PICK e : e = IF Head(c.in) = <<CloseNotify>> THEN "done" ELSE "error"
  OBVIOUS
<1>8. CB!Outcome(e, <<>>, c) = Outcome(e, <<>>, c)
  BY <1>2
<1> QED
  BY <1>4, <1>5, <1>6, <1>7, <1>8

-----------------------------------------------------------------------------
(* What leaves a session in its phase.                                     *)

\* The fields that say in which phase a session is.
PhaseFields ==
  {"tls", "process", "faults", "active", "client", "reader", "client_input",
   "chunks", "eof", "command", "exit_code", "stdin", "hs", "in", "rbuf",
   "input_buffer", "input_size", "out", "output", "output_buffer", "sent_close",
   "drain_handler", "read_handler"}

\* None of them has changed.
Alike(s, t) ==
  /\ t.tls = s.tls /\ t.process = s.process /\ t.faults = s.faults
  /\ t.active = s.active /\ t.client = s.client /\ t.reader = s.reader
  /\ t.client_input = s.client_input /\ t.chunks = s.chunks /\ t.eof = s.eof
  /\ t.command = s.command /\ t.exit_code = s.exit_code /\ t.stdin = s.stdin
  /\ t.hs = s.hs /\ t.in = s.in /\ t.rbuf = s.rbuf
  /\ t.input_buffer = s.input_buffer /\ t.input_size = s.input_size
  /\ t.out = s.out /\ t.output = s.output /\ t.output_buffer = s.output_buffer
  /\ t.sent_close = s.sent_close /\ t.drain_handler = s.drain_handler
  /\ t.read_handler = s.read_handler

\* The other fields may change.
LEMMA OnlyAlike ==
  ASSUME NEW s, Valid(s), NEW t, NEW F, Only(s, t, F), F \cap PhaseFields = {}
  PROVE  Alike(s, t) /\ ClientFields \subseteq DOMAIN t
<1>1. PhaseFields \subseteq DOMAIN s /\ ClientFields \subseteq DOMAIN s
  BY DEF Valid, ClientFields, Watched, IsConn, TlsFields, PhaseFields
<1>2. \A f \in PhaseFields : t[f] = s[f]
  BY <1>1, OnlyKeeps
<1> QED
  BY <1>1, <1>2 DEF Alike, PhaseFields, Only

\* What was sent and typed, and what waits to be read, is the same.
LEMMA AlikeTalk ==
  ASSUME NEW s, NEW t, Alike(s, t), NEW h
  PROVE  /\ Sent(t, h) = Sent(s, h)
         /\ \A x : Inbox(s, h, x) => Inbox(t, h, x)
         /\ \A cmds : Gathered(s, h, cmds) => Gathered(t, h, cmds)
         /\ \A x : Stage(s, h, x) => Stage(t, h, x)
<1>1. Sent(t, h) = Sent(s, h)
  BY DEF Alike, Sent
<1>2. \A x : Inbox(s, h, x) => Inbox(t, h, x)
  BY Zenon DEF Alike, Inbox
<1>3. \A cmds : Gathered(s, h, cmds) => Gathered(t, h, cmds)
  BY Zenon DEF Alike, Gathered
<1>4. ASSUME NEW cmds, NEW sent, NEW heard, NEW x, Talk(s, h, cmds, sent, heard, x)
      PROVE  Talk(t, h, cmds, sent, heard, x)
  BY <1>1, <1>2, <1>3, <1>4, Zenon DEF Talk
<1>5. ASSUME NEW x, Greeting(s, h, x) PROVE Greeting(t, h, x)
  BY <1>4, <1>5, Zenon DEF Alike, Greeting
<1>6. ASSUME NEW x, Announcing(s, h, x) PROVE Announcing(t, h, x)
  BY <1>4, <1>6, Zenon DEF Alike, Announcing
<1>7. ASSUME NEW x, Submitting(s, h, x) PROVE Submitting(t, h, x)
  BY <1>4, <1>7, Zenon DEF Alike, Submitting
<1>8. ASSUME NEW x, Leaving(s, h, x) PROVE Leaving(t, h, x)
  BY <1>4, <1>8, Zenon DEF Alike, Leaving
<1> QED
  BY <1>1, <1>2, <1>3, <1>5, <1>6, <1>7, <1>8 DEF Stage

\* So is the phase.
LEMMA PhaseKept ==
  ASSUME NEW s, Valid(s), NEW t, NEW F, Only(s, t, F), F \cap PhaseFields = {},
         Watched(t), Sound(t, Alphabet, Watchers), NEW h
  PROVE  /\ Valid(t) /\ Alike(s, t)
         /\ (Starting(s, h) => Starting(t, h)) /\ (Opening(s, h) => Opening(t, h))
         /\ (Held(s, h) => Held(t, h))
         /\ (Asking(s, h) => Asking(t, h)) /\ (Typing(s, h) => Typing(t, h))
         /\ (Closing(s, h) => Closing(t, h)) /\ (Freed(s, h) => Freed(t, h))
<1>1. Alike(s, t) /\ ClientFields \subseteq DOMAIN t
  BY OnlyAlike
<1>2. Valid(t)
  BY <1>1, Zenon DEF Valid, Alike
<1>3. /\ Sent(t, h) = Sent(s, h)
      /\ \A x : Inbox(s, h, x) => Inbox(t, h, x)
      /\ \A cmds : Gathered(s, h, cmds) => Gathered(t, h, cmds)
      /\ \A x : Stage(s, h, x) => Stage(t, h, x)
  BY <1>1, AlikeTalk, Zenon
<1>4. (Clean(s) => Clean(t)) /\ (Drained(s) => Drained(t)) /\ (Flushing(s) => Flushing(t))
  BY <1>1 DEF Alike, Clean, Drained, Flushing
<1>5. Starting(s, h) => Starting(t, h)
  <2>1. Untouched(s, h) => Untouched(t, h)
    BY <1>1, <1>4, Zenon DEF Alike, Untouched
  <2>2. Shaking(s, h) => Shaking(t, h)
    BY <1>1, Zenon DEF Alike, Shaking
  <2> QED BY <1>1, <1>2, <1>4, <2>1, <2>2, Zenon DEF Alike, Starting
<1>6. Opening(s, h) => Opening(t, h)
  BY <1>1, <1>5, Zenon DEF Alike, Opening
<1>7. Held(s, h) => Held(t, h)
  BY <1>1, <1>2, <1>4, Zenon DEF Alike, Held
<1>8. Asking(s, h) => Asking(t, h)
  BY <1>1, <1>3, <1>7, Zenon DEF Alike, Asking
<1>9. Typing(s, h) => Typing(t, h)
  BY <1>1, <1>3, <1>7, Zenon DEF Alike, Typing
<1>10. Success(s, h) => Success(t, h)
  BY <1>1, <1>3, Zenon DEF Alike, Success
<1>11. Stopped(s, h) => Stopped(t, h)
  BY <1>1, <1>2, <1>3, <1>10, Zenon DEF Alike, Stopped
<1>12. Closing(s, h) => Closing(t, h)
  BY <1>1, <1>4, <1>11, Zenon DEF Alike, Closing
<1>13. Freed(s, h) => Freed(t, h)
  BY <1>1, <1>4, <1>11, Zenon DEF Alike, Freed
<1> QED
  BY <1>1, <1>2, <1>5, <1>6, <1>7, <1>8, <1>9, <1>12, <1>13, Zenon

-----------------------------------------------------------------------------
(* The end of the process.                                                 *)

\* What the server says, and the answers the session is about.
Heard == Responses \cup {Piece("MOIN", 1), Piece("OKAY", 0)}

\* What the process needs to end with an error, at any time.
Mortal(s, h) ==
  /\ Valid(s) /\ s.faults = {}
  /\ s.client = "freed" => s.reader # "live" /\ "input" \notin s.active
  /\ s.client = "live" /\ s.client_input = "set" => s.reader = "live"
  /\ Load(Sent(s, h)) <= Len(h.said) + 1

\* The answers are what the server may say.
LEMMA AcksHeard ==
  ASSUME NEW n \in Nat
  PROVE  Acks(n) \in Seq(Heard) /\ Len(Acks(n)) = n + 1
<1>1. Piece("MOIN", 1) \in Heard /\ Piece("OKAY", 0) \in Heard
  BY DEF Heard
<1> QED
  BY <1>1, AcksParts

\* What was heard was said.
LEMMA InboxHeard ==
  ASSUME NEW s, NEW h, NEW heard \in Seq(Heard), Inbox(s, h, heard)
  PROVE  Len(heard) <= Len(h.said) /\ IsPrefix(heard, h.said) /\ h.said \in Seq(Heard)
<1>1. PICK q \in Seq(Responses) : h.said = heard \o q
  BY Zenon DEF Inbox
<1>2. q \in Seq(Heard)
  BY SeqMonotonic DEF Heard
<1>3. PICK c : c = heard \o q
  OBVIOUS
<1>4. /\ c \in Seq(Heard) /\ Len(c) = Len(heard) + Len(q)
      /\ \A i \in 1..Len(heard) : c[i] = heard[i]
  BY <1>2, <1>3, Joined, SMTT(60)
<1>5. PICK m, n, k \in Nat : m = Len(heard) /\ n = Len(q) /\ k = Len(c)
  BY <1>2, <1>4, LenProperties
<1>6. Len(heard) <= Len(c)
  BY <1>4, <1>5
<1>7. SubSeq(c, 1, m) = heard
  <2>1. m \in 0..Len(c)
    BY <1>4, <1>5, <1>6
  <2>2. /\ SubSeq(c, 1, m) \in Seq(Heard) /\ Len(SubSeq(c, 1, m)) = m
        /\ \A i \in 1..m : SubSeq(c, 1, m)[i] = c[i]
    BY <1>4, <2>1, Cut
  <2>3. \A i \in 1..m : SubSeq(c, 1, m)[i] = heard[i]
    BY <1>4, <1>5, <2>2
  <2> QED BY <1>5, <2>2, <2>3, SeqEqual
<1>8. IsPrefix(heard, c)
  BY <1>4, <1>5, <1>6, <1>7 DEF IsPrefix
<1> QED
  BY <1>1, <1>3, <1>4, <1>6, <1>8

\* All that was sent is a sequence of pieces.
LEMMA SentType ==
  ASSUME NEW s, Valid(s), NEW h, ValidHistory(h)
  PROVE  Sent(s, h) \in Seq(Alphabet) /\ Load(Sent(s, h)) \in Nat
<1>1. PICK a, b, c, d \in Seq(Alphabet) :
        a = h.taken /\ b = s.out /\ c = s.output /\ d = s.output_buffer
  BY DEF Valid, ValidHistory, Sound, Streams, Buffered
<1>2. PICK e \in Seq(Alphabet) : e = b \o c
  BY ConcatProperties
<1>3. PICK f \in Seq(Alphabet) : f = e \o d
  BY ConcatProperties
<1>4. PICK g \in Seq(Alphabet) : g = a \o f
  BY ConcatProperties
<1>5. Sent(s, h) = g
  BY <1>1, <1>2, <1>3, <1>4 DEF Sent
<1>6. Load(g) \in Nat
  BY LoadParts
<1> QED
  BY <1>5, <1>6

\* One request or command at a time: there is an answer to each but the last.
LEMMA TalkLoad ==
  ASSUME NEW s, Valid(s), NEW h, ValidHistory(h), NEW cmds, NEW sent,
         NEW heard \in Seq(Heard), NEW x \in Seq(Heard), Talk(s, h, cmds, sent, heard, x)
  PROVE  Load(Sent(s, h)) <= Len(h.said) + 1
<1>1. Sent(s, h) = sent /\ Inbox(s, h, heard \o x) /\ Load(sent) <= Len(heard) + 1
  BY Zenon DEF Talk
<1>2. PICK c : c = heard \o x
  OBVIOUS
<1>3. c \in Seq(Heard) /\ Len(c) = Len(heard) + Len(x)
  BY <1>2, Joined, SMTT(60)
<1>4. Len(c) <= Len(h.said) /\ h.said \in Seq(Heard)
  BY <1>1, <1>2, <1>3, InboxHeard, Zenon
<1>5. PICK m, n, k \in Nat : m = Len(heard) /\ n = Len(x) /\ k = Len(h.said)
  BY <1>4, LenProperties
<1>6. PICK l : l = Load(sent)
  OBVIOUS
<1>7. l <= m + 1 /\ m + n <= k
  BY <1>1, <1>3, <1>4, <1>5, <1>6
<1>8. l <= k + 1
  <2>1. Load(Sent(s, h)) \in Nat
    BY SentType
  <2>2. l \in Nat
    BY <1>1, <1>6, <2>1
  <2> QED BY <1>5, <1>7, <2>2
<1> QED
  BY <1>1, <1>5, <1>6, <1>8

\* A phase says what is needed to die in it.
LEMMA StageMortal ==
  ASSUME NEW s, NEW h, ValidHistory(h), Held(s, h), NEW x \in Seq(Heard), Stage(s, h, x)
  PROVE  Mortal(s, h)
<1>1. Valid(s) /\ s.faults = {} /\ s.client = "live"
  BY DEF Held, Clean
<1>2. PICK cmds, sent, heard : heard \in Seq(Heard) /\ Talk(s, h, cmds, sent, heard, x)
  <2>1. ASSUME NEW n \in Nat PROVE Acks(n) \in Seq(Heard)
    BY AcksHeard
  <2>2. <<>> \in Seq(Heard)
    BY EmptySeq
  <2>3. CASE Greeting(s, h, x)
    BY <2>2, <2>3, Zenon DEF Greeting
  <2>4. CASE Announcing(s, h, x)
    <3>1. PICK q \in Seq(Orders) :
            \E c, sent : Talk(s, h, c, sent, Acks(2 * Len(q)), x)
      BY <2>4, Zenon DEF Announcing
    <3>2. 2 * Len(q) \in Nat
      BY LenProperties
    <3> QED BY <2>1, <3>1, <3>2, Zenon
  <2>5. CASE Submitting(s, h, x)
    <3>1. PICK q \in Seq(Orders) :
            \E c, sent : Talk(s, h, c, sent, Acks(2 * Len(q) + 1), x)
      BY <2>5, Zenon DEF Submitting
    <3>2. 2 * Len(q) + 1 \in Nat
      BY LenProperties
    <3> QED BY <2>1, <3>1, <3>2, Zenon
  <2>6. CASE Leaving(s, h, x)
    <3>1. PICK q \in Seq(Orders) :
            \E c, sent : Talk(s, h, c, sent, Acks(2 * Len(q)), x)
      BY <2>6, Zenon DEF Leaving
    <3>2. 2 * Len(q) \in Nat
      BY LenProperties
    <3> QED BY <2>1, <3>1, <3>2, Zenon
  <2> QED BY <2>3, <2>4, <2>5, <2>6 DEF Stage
<1>3. Load(Sent(s, h)) <= Len(h.said) + 1
  BY <1>1, <1>2, TalkLoad
<1>4. s.client_input = "set" => s.reader = "live"
  BY DEF Stage, Greeting, Announcing, Submitting, Leaving
<1> QED
  BY <1>1, <1>3, <1>4 DEF Mortal

\* ... while the input is waited for,
LEMMA TypingMortal ==
  ASSUME NEW s, NEW h, ValidHistory(h), Typing(s, h)
  PROVE  Mortal(s, h)
<1>1. Valid(s) /\ s.faults = {} /\ s.client = "live" /\ s.reader = "live"
  BY DEF Typing, Held, Clean
<1>2. PICK cmds \in Seq(Orders) :
        /\ Sent(s, h) = Sofar(cmds) /\ Inbox(s, h, Acks(2 * Len(cmds)))
        /\ Load(Sofar(cmds)) <= 2 * Len(cmds) + 1
  BY Zenon DEF Typing
<1>3. PICK n \in Nat : n = 2 * Len(cmds)
  BY LenProperties
<1>4. PICK a \in Seq(Heard) : a = Acks(n) /\ Len(a) = n + 1
  BY AcksHeard
<1>5. Len(a) <= Len(h.said) /\ h.said \in Seq(Heard)
  BY <1>2, <1>3, <1>4, InboxHeard, Zenon
<1>6. PICK k \in Nat : k = Len(h.said)
  BY <1>5, LenProperties
<1>7. Load(Sent(s, h)) \in Nat
  BY <1>1, SentType
<1>8. Load(Sent(s, h)) <= Len(h.said) + 1
  BY <1>2, <1>3, <1>4, <1>5, <1>6, <1>7
<1> QED
  BY <1>1, <1>8 DEF Mortal

\* ... before the session,
LEMMA StartingMortal ==
  ASSUME NEW s, NEW h, ValidHistory(h), Starting(s, h)
  PROVE  Mortal(s, h)
<1>1. /\ Valid(s) /\ s.faults = {} /\ s.client = "live" /\ s.client_input = "NULL"
      /\ s.output = <<>> /\ s.output_buffer = <<>> /\ h.said = <<>>
  BY DEF Starting, Clean, Untouched, Drained
<1>2. Len(h.said) = 0
  BY <1>1
<1>3. PICK g \in Seq(Alphabet) : g = h.taken \o s.out
  BY <1>1, ConcatProperties DEF Valid, ValidHistory, Sound, Streams
<1>4. Sent(s, h) = g
  BY <1>1, <1>3, Assoc DEF Sent, Valid, ValidHistory, Sound, Streams
<1>5. g \in {<<>>, <<HS>>, <<HS, HS>>}
  <2>1. HS \in Alphabet
    BY OwnPieces
  <2>2. PICK p \in Alphabet : p = HS
    BY <2>1
  <2>3. <<p>> \in Seq(Alphabet) /\ Append(<<p>>, p) = <<p>> \o <<p>>
    BY JustOne, OneMore
  <2>4. Append(<<p>>, p) = <<p, p>>
    BY Tuples
  <2>5. <<p>> \o <<>> = <<p>> /\ <<>> \o <<p>> = <<p>>
    BY <2>3, Assoc
  <2>6. \/ h.taken = <<>> /\ s.out \in {<<>>, <<p>>}
        \/ h.taken = <<p>> /\ s.out \in {<<>>, <<p>>}
    BY <2>2, Zenon DEF Starting, Shaking
  <2>7. PICK z \in Seq(Alphabet) : z = <<>>
    BY EmptySeq
  <2>8. <<p>> \o <<p>> = <<p, p>> /\ z \o z = <<>>
    BY <2>3, <2>4, <2>7, ConcatEmptySeq
  <2> QED BY <1>3, <2>2, <2>5, <2>6, <2>7, <2>8, Zenon
<1>6. Load(g) <= 1
  BY <1>5, LoadHandshake
<1> QED
  BY <1>1, <1>2, <1>4, <1>6 DEF Mortal

\* ... and after it.
LEMMA ClosingMortal ==
  ASSUME NEW s, NEW h, Closing(s, h)
  PROVE  Mortal(s, h)
  BY DEF Closing, Stopped, Clean, Mortal

\* What a session needs to die is not among the fields that change freely.
LEMMA MortalKept ==
  ASSUME NEW s, NEW h, Mortal(s, h), NEW t, NEW F, Only(s, t, F),
         F \cap PhaseFields = {}, Watched(t), Sound(t, Alphabet, Watchers)
  PROVE  Mortal(t, h)
<1>1. Valid(s)
  BY DEF Mortal
<1>2. Valid(t) /\ Alike(s, t)
  BY <1>1, PhaseKept
<1>3. Sent(t, h) = Sent(s, h)
  BY <1>2, AlikeTalk
<1> QED
  BY <1>2, <1>3, Zenon DEF Mortal, Alike

\* die: the process has ended, whatever it was doing.
LEMMA Dies ==
  ASSUME NEW s, NEW h, Mortal(s, h), NEW what \in Deaths \cup {"stale timeout"},
         NEW t, t = die(s, what)
  PROVE  Ended(t, h)
<1>1. Valid(s) /\ Watched(s) /\ IsConn(s) /\ Sound(s, Alphabet, Watchers)
  BY DEF Mortal, Valid, Watched
<1>2. /\ Only(s, t, {"process", "faults"}) /\ t.process = "died"
      /\ t.faults = s.faults \cup {what}
  BY <1>1 DEF die, Fault, Only, IsConn, TlsFields
<1>3. /\ t.active = s.active /\ t.pending = s.pending /\ t.tls = s.tls
      /\ t.exit_code = s.exit_code /\ t.eof = s.eof /\ t.client = s.client
      /\ t.reader = s.reader /\ t.client_input = s.client_input
      /\ t.chunks = s.chunks /\ t.stdin = s.stdin /\ t.out = s.out
      /\ t.output = s.output /\ t.output_buffer = s.output_buffer
      /\ ClientFields \subseteq DOMAIN t /\ IsConn(t)
  BY <1>1, <1>2 DEF Only, Valid, ClientFields, IsConn, TlsFields
<1>4. Sound(t, Alphabet, Watchers)
  BY <1>1, <1>2, SoundKept DEF SoundFields
<1>5. Valid(t)
  BY <1>1, <1>3, <1>4, ZenonT(40) DEF Valid, Watched
<1>6. Sent(t, h) = Sent(s, h)
  BY <1>3 DEF Sent
<1> QED
  BY <1>2, <1>3, <1>5, <1>6 DEF Mortal, Ended

\* Waiting for the other event leaves the watcher active.
LEMMA AwaitOnly ==
  ASSUME NEW s, Valid(s), NEW w \in s.active, NEW e \in {"r", "w"},
         NEW t, t = CB!Await(s, w, e)
  PROVE  /\ Watched(t) /\ Sound(t, Alphabet, Watchers)
         /\ Only(s, t, {"pending", "events"})
<1>0. Watched(s) /\ Sound(s, Alphabet, Watchers)
  BY DEF Valid
<1>1. CASE t = s
  BY <1>0, <1>1, OnlyRefl
<1>2. CASE t = ev_io_start(ev_io_stop(s, w), w, e)
  <2>1. PICK a : a = ev_io_stop(s, w)
    OBVIOUS
  <2>2. /\ Watched(a) /\ Only(s, a, {"active", "pending"})
        /\ a.active = s.active \ {w}
    BY <1>0, <2>1, IoStop
  <2>3. /\ Watched(t) /\ Only(a, t, WatchFields)
        /\ t.active = a.active \cup {w} /\ SetsEvent(a, t, w, e)
    BY <1>2, <2>1, <2>2, IoStart
  <2>4. Sound(a, Alphabet, Watchers)
    BY <1>0, <2>2, SoundKept DEF SoundFields
  <2>5. Sound(t, Alphabet, Watchers)
    BY <2>3, <2>4, SoundStart
  <2>6. t.active = s.active
    BY <2>2, <2>3
  <2>7. Only(s, t, WatchFields)
    BY <2>2, <2>3, OnlyTrans DEF WatchFields
  <2>8. Only(s, t, {"pending", "events"})
    BY <2>6, <2>7 DEF Only, WatchFields
  <2> QED
    BY <2>3, <2>5, <2>8
<1> QED
  BY <1>1, <1>2, SameWatchers DEF CB!Await

\* A call that was not completed: the watcher waits, or the process ends.
LEMMA CheckError ==
  ASSUME NEW s, NEW h, Mortal(s, h), NEW w \in s.active, NEW code \in Codes,
         code # "done", NEW t, t = CB!check_tls_error(s, w, code)
  PROVE  \/ Ended(t, h)
         \/ /\ Watched(t) /\ Sound(t, Alphabet, Watchers)
            /\ Only(s, t, {"pending", "events"})
<1>0. Valid(s)
  BY DEF Mortal
<1>1. code \in {"want_read", "want_write", "zero_return", "error"}
  BY DEF Codes
<1>2. CASE code = "want_read"
  <2>1. t = CB!Await(s, w, "r")
    BY <1>2 DEF CB!check_tls_error
  <2> QED
    BY <1>0, <2>1, AwaitOnly
<1>3. CASE code = "want_write"
  <2>1. t = CB!Await(s, w, "w")
    BY <1>3 DEF CB!check_tls_error
  <2> QED
    BY <1>0, <2>1, AwaitOnly
<1>4. CASE code \in {"zero_return", "error"}
  <2>1. t = CB!ConnectionLost(s)
    <3>1. CB!AnswerClose(s) = s
      BY ClientAssumption DEF CB!AnswerClose
    <3> QED BY <1>4, <3>1 DEF CB!check_tls_error
  <2>2. t = die(s, "connection lost")
    BY <2>1, SameFree, ClientAssumption DEF CB!ConnectionLost
  <2>3. "connection lost" \in Deaths \cup {"stale timeout"}
    BY DEF Deaths
  <2> QED
    BY <2>2, <2>3, Dies
<1> QED
  BY <1>1, <1>2, <1>3, <1>4

\* ... and the session is in the phase in which it was.
LEMMA Waits ==
  ASSUME NEW s, NEW h, Mortal(s, h), NEW w \in s.active, NEW code \in Codes,
         code # "done", NEW t, t = CB!check_tls_error(s, w, code)
  PROVE  \/ Ended(t, h)
         \/ /\ (Opening(s, h) => Opening(t, h)) /\ (Asking(s, h) => Asking(t, h))
            /\ (Typing(s, h) => Typing(t, h)) /\ (Closing(s, h) => Closing(t, h))
<1>1. CASE Ended(t, h)
  BY <1>1
<1>2. CASE /\ Watched(t) /\ Sound(t, Alphabet, Watchers)
           /\ Only(s, t, {"pending", "events"})
  <2>1. {"pending", "events"} \cap PhaseFields = {}
    BY DEF PhaseFields
  <2>2. Valid(s)
    BY DEF Mortal
  <2> QED BY <1>2, <2>1, <2>2, PhaseKept, Zenon
<1> QED
  BY <1>1, <1>2, CheckError

-----------------------------------------------------------------------------
(* Requests.                                                               *)

AskFields ==
  {"output", "output_buffer", "active", "pending", "events", "read_handler",
   "input_size"}

\* What follows from a phase for the functions of tls.c.
LEMMA HeldValid ==
  ASSUME NEW s, NEW h, Held(s, h)
  PROVE  /\ Valid(s) /\ Watched(s) /\ Sound(s, Alphabet, Watchers) /\ IsConn(s)
         /\ ClientFields \subseteq DOMAIN s /\ s.input = <<>>
         /\ s.in \in Seq(Seq(Alphabet)) /\ s.out \in Seq(Alphabet)
         /\ s.output \in Seq(Alphabet) /\ s.output_buffer \in Seq(Alphabet)
  BY DEF Held, Valid, Watched, Sound, Streams, Buffered

\* Something is queued: it comes after all that was sent before.
LEMMA Queues ==
  ASSUME NEW s, NEW h, Held(s, h), ValidHistory(h), NEW d \in Seq(Alphabet),
         NEW t, t = write_buffered(s, d) \/ t = tls_write(s, d)
  PROVE  /\ Held(t, h) /\ t.active = s.active \cup {"write"}
         /\ Only(s, t, {"output", "output_buffer", "active", "pending", "events"})
         /\ Sent(t, h) = Cat(Sent(s, h), d)
<1>1. /\ Valid(s) /\ Watched(s) /\ Sound(s, Alphabet, Watchers) /\ IsConn(s)
      /\ ClientFields \subseteq DOMAIN s
  BY HeldValid
<1>3. /\ Watched(t) /\ Sound(t, Alphabet, Watchers)
      /\ Only(s, t, {"output", "output_buffer", "active", "pending", "events"})
      /\ t.active = s.active \cup {"write"}
      /\ Cat(t.output, t.output_buffer) = Cat(Cat(s.output, s.output_buffer), d)
  BY <1>1, WriteOnly, WriteBufferedCat
<1>4. /\ t.tls = s.tls /\ t.process = s.process /\ t.faults = s.faults
      /\ t.client = s.client /\ t.reader = s.reader
      /\ t.client_input = s.client_input /\ t.chunks = s.chunks
      /\ t.eof = s.eof /\ t.exit_code = s.exit_code /\ t.stdin = s.stdin
      /\ t.hs = s.hs /\ t.input_size = s.input_size
      /\ t.sent_close = s.sent_close /\ t.drain_handler = s.drain_handler
      /\ t.out = s.out /\ ClientFields \subseteq DOMAIN t
  BY <1>1, <1>3 DEF Only, ClientFields, IsConn, TlsFields
<1>5. Valid(t)
  <2>1. t.active \subseteq Watchers
    BY <1>1, <1>3 DEF Valid, Watchers, IoWatchers
  <2> QED BY <1>1, <1>3, <1>4, <2>1, Zenon DEF Valid
<1>6. Held(t, h)
  <2>1. Flushing(t)
    BY <1>3 DEF Flushing
  <2> QED BY <1>4, <1>5, <2>1, Zenon DEF Held, Clean
<1>7. Sent(t, h) = Cat(Sent(s, h), d)
  <2>1. /\ h.taken \in Seq(Alphabet) /\ s.out \in Seq(Alphabet)
        /\ s.output \in Seq(Alphabet) /\ s.output_buffer \in Seq(Alphabet)
        /\ t.output \in Seq(Alphabet) /\ t.output_buffer \in Seq(Alphabet)
    BY <1>3, HeldValid DEF ValidHistory, Sound, Buffered
  <2>2. Cat(h.taken, Cat(Cat(s.out, t.output), t.output_buffer))
          = Cat(Cat(h.taken, Cat(Cat(s.out, s.output), s.output_buffer)), d)
    <3>1. PICK a, b, c, e, f, g \in Seq(Alphabet) :
            /\ a = h.taken /\ b = s.out /\ c = s.output /\ e = s.output_buffer
            /\ f = t.output /\ g = t.output_buffer
      BY <2>1, Zenon
    <3>2. Cat(f, g) = Cat(Cat(c, e), d)
      BY <1>3, <3>1
    <3>3. Cat(a, Cat(Cat(b, f), g)) = Cat(Cat(a, Cat(Cat(b, c), e)), d)
      <4>1. /\ Cat(Cat(b, f), g) = Cat(b, Cat(f, g))
            /\ Cat(Cat(b, c), e) = Cat(b, Cat(c, e)) /\ Cat(c, e) \in Seq(Alphabet)
        BY CatAssoc
      <4>2. Cat(b, Cat(Cat(c, e), d)) = Cat(Cat(b, Cat(c, e)), d)
        BY <4>1, CatAssoc
      <4>3. Cat(b, Cat(c, e)) \in Seq(Alphabet)
        BY <4>1, CatAssoc
      <4>4. Cat(a, Cat(Cat(b, Cat(c, e)), d)) = Cat(Cat(a, Cat(b, Cat(c, e))), d)
        BY <4>3, CatAssoc
      <4> QED BY <3>2, <4>1, <4>2, <4>4
    <3> QED BY <3>1, <3>3
  <2> QED BY <1>4, <2>2, Zenon DEF Sent, Cat
<1> QED
  BY <1>3, <1>6, <1>7

\* What the client asks for leaves the input, and what has arrived, alone.
LEMMA AskKept ==
  ASSUME NEW s, Valid(s), NEW t, Only(s, t, AskFields), NEW h
  PROVE  /\ t.reader = s.reader /\ t.client_input = s.client_input
         /\ t.chunks = s.chunks /\ t.eof = s.eof /\ t.stdin = s.stdin
         /\ t.command = s.command /\ t.exit_code = s.exit_code
         /\ \A x : Inbox(s, h, x) => Inbox(t, h, x)
         /\ \A cmds : Gathered(s, h, cmds) => Gathered(t, h, cmds)
<1>1. /\ t.reader = s.reader /\ t.client_input = s.client_input
      /\ t.chunks = s.chunks /\ t.eof = s.eof /\ t.stdin = s.stdin
      /\ t.command = s.command /\ t.exit_code = s.exit_code
      /\ t.in = s.in /\ t.rbuf = s.rbuf /\ t.input_buffer = s.input_buffer
  BY DEF Only, Valid, Watched, AskFields, ClientFields, IsConn, TlsFields
<1>2. \A x : Inbox(s, h, x) => Inbox(t, h, x)
  BY <1>1, Zenon DEF Inbox
<1>3. \A cmds : Gathered(s, h, cmds) => Gathered(t, h, cmds)
  BY <1>1, Zenon DEF Gathered
<1> QED BY <1>1, <1>2, <1>3

\* A request: something is queued, and a line is waited for.
LEMMA Asks ==
  ASSUME NEW s, NEW h, Held(s, h), ValidHistory(h), NEW d \in Seq(Alphabet),
         "read" \notin s.active,
         NEW a, a = write_buffered(s, d) \/ a = tls_write(s, d),
         NEW handler, NEW t, t = tls_read_line(a, handler)
  PROVE  /\ Held(t, h) /\ t.active = s.active \cup {"read", "write"}
         /\ Only(s, t, AskFields) /\ t.read_handler = handler
         /\ Sent(t, h) = Cat(Sent(s, h), d)
<1>1. /\ Held(a, h) /\ a.active = s.active \cup {"write"}
      /\ Only(s, a, {"output", "output_buffer", "active", "pending", "events"})
      /\ Sent(a, h) = Cat(Sent(s, h), d)
  BY Queues
<1>2. /\ Valid(a) /\ Watched(a) /\ Sound(a, Alphabet, Watchers) /\ IsConn(a)
      /\ ClientFields \subseteq DOMAIN a /\ a.input = <<>>
  BY <1>1, HeldValid
<1>3. t = tls_read(a, handler, 0) /\ "read" \notin a.active /\ 0 \in Nat
  BY <1>1 DEF tls_read_line
<1>4. /\ Watched(t) /\ Sound(t, Alphabet, Watchers)
      /\ Only(a, t, {"read_handler", "input_size", "active", "pending", "events"})
      /\ t.active = a.active \cup {"read"}
      /\ t.read_handler = handler /\ t.input_size = 0
  BY <1>2, <1>3, ReadOnly
<1>5. /\ t.tls = a.tls /\ t.process = a.process /\ t.faults = a.faults
      /\ t.client = a.client /\ t.reader = a.reader
      /\ t.client_input = a.client_input /\ t.chunks = a.chunks
      /\ t.eof = a.eof /\ t.exit_code = a.exit_code /\ t.stdin = a.stdin
      /\ t.hs = a.hs /\ t.sent_close = a.sent_close
      /\ t.drain_handler = a.drain_handler
      /\ t.out = a.out /\ t.output = a.output /\ t.output_buffer = a.output_buffer
      /\ ClientFields \subseteq DOMAIN t
  BY <1>2, <1>4 DEF Only, ClientFields, IsConn, TlsFields
<1>6. Valid(t)
  <2>1. t.active \subseteq Watchers
    BY <1>2, <1>4 DEF Valid, Watchers, IoWatchers
  <2> QED BY <1>2, <1>4, <1>5, <2>1 DEF Valid
<1>7. Held(t, h)
  <2>1. Flushing(t)
    BY <1>1, <1>4 DEF Flushing
  <2> QED BY <1>1, <1>4, <1>5, <1>6, <2>1, ZenonT(40) DEF Held, Clean
<1>8. Sent(t, h) = Sent(a, h)
  BY <1>5, Zenon DEF Sent
<1>9. Only(s, t, AskFields)
  BY <1>1, <1>4, OnlyTrans DEF AskFields
<1> QED BY <1>1, <1>4, <1>7, <1>8, <1>9

\* What the functions of the client change.
OwnFields ==
  {"active", "pending", "events", "reader", "client_input", "command", "chunks",
   "eof", "stdin"}

\* The connection does not notice what the client does to its own state.
LEMMA HeldMoves ==
  ASSUME NEW s, NEW h, Held(s, h), NEW t, NEW F, Only(s, t, F), F \subseteq OwnFields,
         Watched(t), Sound(t, Alphabet, Watchers), t.active \subseteq Watchers,
         "write" \in s.active => "write" \in t.active,
         t.reader \in {"none", "live", "freed"}, t.client_input \in {"NULL", "set"},
         t.eof \in {"no", "yes"}, t.chunks \in Seq(Texts), t.stdin \in Seq(Texts)
  PROVE  /\ Held(t, h) /\ Sent(t, h) = Sent(s, h)
         /\ \A x : Inbox(s, h, x) => Inbox(t, h, x)
<1>1. Valid(s) /\ IsConn(s) /\ ClientFields \subseteq DOMAIN s
  BY HeldValid
<1>2. /\ t.tls = s.tls /\ t.process = s.process /\ t.faults = s.faults
      /\ t.client = s.client /\ t.exit_code = s.exit_code
      /\ t.hs = s.hs /\ t.sent_close = s.sent_close /\ t.input_size = s.input_size
      /\ t.drain_handler = s.drain_handler
      /\ t.out = s.out /\ t.output = s.output /\ t.output_buffer = s.output_buffer
      /\ t.in = s.in /\ t.rbuf = s.rbuf /\ t.input_buffer = s.input_buffer
      /\ ClientFields \subseteq DOMAIN t
  BY <1>1 DEF Only, ClientFields, OwnFields, IsConn, TlsFields
<1>3. Valid(t)
  BY <1>1, <1>2 DEF Valid
<1>4. Held(t, h)
  <2>1. Flushing(t)
    BY <1>2 DEF Flushing, Drained, Held
  <2> QED BY <1>2, <1>3, <2>1, Zenon DEF Held, Clean
<1>5. Sent(t, h) = Sent(s, h)
  BY <1>2, Zenon DEF Sent
<1>6. \A x : Inbox(s, h, x) => Inbox(t, h, x)
  BY <1>2, Zenon DEF Inbox
<1> QED BY <1>4, <1>5, <1>6

-----------------------------------------------------------------------------
(* The handshake.                                                          *)

ShakeFields == {"hs", "in", "out"}

\* The lists of records and of messages that occur in the handshake.
LEMMA ShortLists ==
  /\ Head(<<"send", "recv", "send">>) = "send" /\ <<"send", "recv", "send">> # <<>>
  /\ Tail(<<"send", "recv", "send">>) = <<"recv", "send">>
  /\ Head(<<"recv", "send">>) = "recv" /\ <<"recv", "send">> # <<>>
  /\ Tail(<<"recv", "send">>) = <<"send">>
  /\ Head(<<"send">>) = "send" /\ <<"send">> # <<>> /\ Tail(<<"send">>) = <<>>
  /\ Append(<<>>, HS) = <<HS>>
<1>1. /\ Head(<<"send", "recv", "send">>) = "send" /\ <<"send", "recv", "send">> # <<>>
      /\ Tail(<<"send", "recv", "send">>) = <<"recv", "send">>
  OBVIOUS
<1>2. /\ Head(<<"recv", "send">>) = "recv" /\ <<"recv", "send">> # <<>>
      /\ Tail(<<"recv", "send">>) = <<"send">>
  OBVIOUS
<1>3. Head(<<"send">>) = "send" /\ <<"send">> # <<>> /\ Tail(<<"send">>) = <<>>
  OBVIOUS
<1>4. Append(<<>>, HS) = <<HS>>
  BY JustOne, OwnPieces
<1> QED BY <1>1, <1>2, <1>3, <1>4

\* The first record is the server's message of the handshake.
LEMMA ServerHello ==
  ASSUME NEW q, q = <<<<HS>>>> \/ q = <<<<HS>>, <<CloseNotify>>>>
  PROVE  /\ q # <<>> /\ Head(q) = <<HS>>
         /\ Tail(q) \in {<<>>, <<<<CloseNotify>>>>}
<1>1. CASE q = <<<<HS>>>>
  BY <1>1
<1>2. CASE q = <<<<HS>>, <<CloseNotify>>>>
  BY <1>2
<1> QED BY <1>1, <1>2

\* A step of the handshake.
LEMMA ShakeStep ==
  ASSUME NEW s, NEW h, Starting(s, h), NEW t, t = HandshakeStep(s)
  PROVE  Starting(t, h) /\ Only(s, t, ShakeFields)
<1>1. /\ Valid(s) /\ Watched(s) /\ Sound(s, Alphabet, Watchers) /\ IsConn(s)
      /\ Streams(s, Alphabet) /\ ClientFields \subseteq DOMAIN s
  BY DEF Starting, Valid, Watched, Sound
<1>2. Streams(t, Alphabet) /\ Only(s, t, SslFields)
  BY <1>1, HandshakeStepOnly
<1>3. Only(s, t, ShakeFields)
  <2>1. CASE t = s
    BY <2>1, OnlyRefl
  <2>2. CASE t = [s EXCEPT !.in = Tail(@), !.hs = Tail(@)]
    BY <2>2 DEF Only, ShakeFields
  <2>3. CASE t = [s EXCEPT !.out = Append(@, HS), !.hs = Tail(@)]
    BY <2>3 DEF Only, ShakeFields
  <2> QED BY <2>1, <2>2, <2>3 DEF HandshakeStep
<1>4. Sound(t, Alphabet, Watchers)
  <2>1. Timed(t) /\ Buffered(t, Alphabet) /\ Eventful(t, Watchers)
    BY <1>1, <1>3, TimedKept, BufferedKept, EventfulKept
       DEF Sound, ShakeFields, BufferFields
  <2> QED BY <1>2, <2>1 DEF Sound
<1>5. /\ t.tls = s.tls /\ t.process = s.process /\ t.faults = s.faults
      /\ t.active = s.active /\ t.pending = s.pending /\ t.client = s.client
      /\ t.reader = s.reader /\ t.client_input = s.client_input
      /\ t.chunks = s.chunks /\ t.eof = s.eof /\ t.exit_code = s.exit_code
      /\ t.stdin = s.stdin /\ t.rbuf = s.rbuf /\ t.input_buffer = s.input_buffer
      /\ t.input_size = s.input_size /\ t.output = s.output
      /\ t.output_buffer = s.output_buffer /\ t.sent_close = s.sent_close
      /\ t.drain_handler = s.drain_handler /\ ClientFields \subseteq DOMAIN t
      /\ IsConn(t)
  BY <1>1, <1>3 DEF Only, ShakeFields, ClientFields, IsConn, TlsFields
<1>6. Watched(t)
  BY <1>1, <1>5 DEF Watched
<1>7. Valid(t)
  BY <1>1, <1>4, <1>5, <1>6 DEF Valid
<1>8. Untouched(t, h)
  <2>1. Untouched(s, h)
    BY DEF Starting
  <2> QED BY <1>5, <2>1, Zenon DEF Untouched, Drained
<1>9. Shaking(t, h)
  <2>0. /\ "hs" \in DOMAIN s /\ "in" \in DOMAIN s /\ "out" \in DOMAIN s
    BY <1>1 DEF IsConn, TlsFields
  <2>1. CASE /\ s.hs = <<"send", "recv", "send">>
             /\ h.taken = <<>> /\ s.out = <<>> /\ s.in = <<>>
    <3>1. t = IF Room(s) > 0 THEN [s EXCEPT !.out = Append(@, HS), !.hs = Tail(@)] ELSE s
      BY <2>1, ShortLists DEF HandshakeStep
    <3>2. CASE Room(s) > 0
      <4>1. t = [s EXCEPT !.out = Append(@, HS), !.hs = Tail(@)]
        BY <3>1, <3>2
      <4>2. t.hs = Tail(s.hs) /\ t.out = Append(s.out, HS) /\ t.in = s.in
        BY <2>0, <4>1
      <4> QED BY <2>1, <4>2, ShortLists, Zenon DEF Shaking
    <3>3. CASE ~(Room(s) > 0)
      BY <2>1, <3>1, <3>3, Zenon DEF Shaking
    <3> QED BY <3>2, <3>3
  <2>2. CASE /\ s.hs = <<"recv", "send">>
             /\ h.taken = <<>> /\ s.out = <<HS>> /\ s.in = <<>>
    <3>1. t = s
      BY <2>2, ShortLists DEF HandshakeStep
    <3> QED BY <2>2, <3>1, Zenon DEF Shaking
  <2>3. CASE /\ s.hs = <<"recv", "send">>
             /\ h.taken = <<HS>> /\ s.out = <<>>
             /\ s.in \in {<<<<HS>>>>, <<<<HS>>, <<CloseNotify>>>>}
    <3>1. /\ s.in # <<>> /\ Head(s.in) = <<HS>>
          /\ Tail(s.in) \in {<<>>, <<<<CloseNotify>>>>}
      BY <2>3, ServerHello
    <3>2. t = [s EXCEPT !.in = Tail(@), !.hs = Tail(@)]
      BY <2>3, <3>1, ShortLists DEF HandshakeStep
    <3>3. t.hs = Tail(s.hs) /\ t.in = Tail(s.in) /\ t.out = s.out
      BY <2>0, <3>2
    <3> QED BY <2>3, <3>1, <3>3, ShortLists, Zenon DEF Shaking
  <2>4. CASE /\ s.hs = <<"send">>
             /\ h.taken = <<HS>> /\ s.out = <<>>
             /\ s.in \in {<<>>, <<<<CloseNotify>>>>}
    <3>1. t = IF Room(s) > 0 THEN [s EXCEPT !.out = Append(@, HS), !.hs = Tail(@)] ELSE s
      BY <2>4, ShortLists DEF HandshakeStep
    <3>2. CASE Room(s) > 0
      <4>1. t = [s EXCEPT !.out = Append(@, HS), !.hs = Tail(@)]
        BY <3>1, <3>2
      <4>2. t.hs = Tail(s.hs) /\ t.out = Append(s.out, HS) /\ t.in = s.in
        BY <2>0, <4>1
      <4> QED BY <2>4, <4>2, ShortLists, Zenon DEF Shaking
    <3>3. CASE ~(Room(s) > 0)
      BY <2>4, <3>1, <3>3, Zenon DEF Shaking
    <3> QED BY <3>2, <3>3
  <2>5. CASE /\ s.hs = <<>>
             /\ h.taken = <<HS>> /\ s.out = <<HS>>
             /\ s.in \in {<<>>, <<<<CloseNotify>>>>}
    <3>1. t = s
      BY <2>5, Zenon DEF HandshakeStep
    <3> QED BY <2>5, <3>1, Zenon DEF Shaking
  <2>6. Shaking(s, h)
    BY DEF Starting
  <2> QED BY <2>1, <2>2, <2>3, <2>4, <2>5, <2>6, Zenon DEF Shaking
<1>10. Starting(t, h)
  BY <1>5, <1>7, <1>8, <1>9, Zenon DEF Starting, Clean
<1> QED BY <1>3, <1>10

\* SSL_connect.
LEMMA Shakes ==
  ASSUME NEW s, NEW h, Starting(s, h), s.hs # <<>>, NEW x, x = SSL_handshake(s)
  PROVE  /\ Starting(x.next, h) /\ Only(s, x.next, ShakeFields) /\ x.code \in Codes
         /\ x.code = "done" <=> x.next.hs = <<>>
<1>1. PICK a : a = HandshakeStep(s)
  OBVIOUS
<1>2. PICK b : b = HandshakeStep(a)
  OBVIOUS
<1>3. PICK c : c = HandshakeStep(b)
  OBVIOUS
<1>4. Starting(a, h) /\ Only(s, a, ShakeFields)
  BY <1>1, ShakeStep
<1>5. Starting(b, h) /\ Only(a, b, ShakeFields)
  BY <1>2, <1>4, ShakeStep
<1>6. Starting(c, h) /\ Only(b, c, ShakeFields)
  BY <1>3, <1>5, ShakeStep
<1>7. Only(s, c, ShakeFields)
  BY <1>4, <1>5, <1>6, OnlyTrans
<1>8. x = IF s.link = "reset" THEN Outcome("error", <<>>, s)
          ELSE IF s.link = "connecting" THEN Outcome("want_write", <<>>, s)
          ELSE IF c.hs # <<>> THEN Want(c) ELSE Outcome("done", <<>>, c)
  BY <1>1, <1>2, <1>3 DEF SSL_handshake, Handshake
<1>9. x.code \in Codes
  <2>1. Streams(s, Alphabet)
    BY DEF Starting, Valid, Sound
  <2> QED BY <2>1, HandshakeResult DEF Result
<1>10. CASE x = Outcome("error", <<>>, s) \/ x = Outcome("want_write", <<>>, s)
  <2>1. x.next = s /\ x.code # "done"
    BY <1>10 DEF Outcome
  <2> QED BY <1>9, <2>1, OnlyRefl
<1>11. CASE c.hs # <<>> /\ x = Want(c)
  <2>1. x.next = c /\ x.code # "done"
    <3>1. Streams(c, Alphabet)
      BY <1>6 DEF Starting, Valid, Sound
    <3> QED BY <1>11, <3>1, WantResult
  <2> QED BY <1>6, <1>7, <1>9, <1>11, <2>1
<1>12. CASE c.hs = <<>> /\ x = Outcome("done", <<>>, c)
  <2>1. x.next = c /\ x.code = "done"
    BY <1>12 DEF Outcome
  <2> QED BY <1>6, <1>7, <1>9, <1>12, <2>1
<1> QED BY <1>8, <1>10, <1>11, <1>12

\* The watcher of the handshake is stopped or started.
LEMMA StartingMoves ==
  ASSUME NEW s, NEW h, Starting(s, h), NEW t, Only(s, t, WatchFields),
         Watched(t), Sound(t, Alphabet, Watchers), t.active \subseteq {"init"}
  PROVE  Starting(t, h) /\ t.hs = s.hs
<1>1. /\ Valid(s) /\ IsConn(s) /\ ClientFields \subseteq DOMAIN s
  BY DEF Starting, Valid, Watched
<1>2. /\ t.tls = s.tls /\ t.process = s.process /\ t.faults = s.faults
      /\ t.client = s.client
      /\ t.reader = s.reader /\ t.client_input = s.client_input
      /\ t.chunks = s.chunks /\ t.eof = s.eof /\ t.exit_code = s.exit_code
      /\ t.stdin = s.stdin /\ t.rbuf = s.rbuf /\ t.input_buffer = s.input_buffer
      /\ t.input_size = s.input_size /\ t.output = s.output
      /\ t.output_buffer = s.output_buffer /\ t.sent_close = s.sent_close
      /\ t.drain_handler = s.drain_handler /\ t.hs = s.hs /\ t.in = s.in
      /\ t.out = s.out /\ ClientFields \subseteq DOMAIN t
  BY <1>1 DEF Only, WatchFields, ClientFields, IsConn, TlsFields
<1>3. Valid(t)
  <2>1. t.active \subseteq Watchers
    BY DEF Watchers, IoWatchers
  <2> QED BY <1>1, <1>2, <2>1 DEF Valid
<1>4. Untouched(s, h) /\ Shaking(s, h)
  BY DEF Starting
<1>5. Untouched(t, h)
  BY <1>2, <1>4, Zenon DEF Untouched, Drained
<1>6. Shaking(t, h)
  BY <1>2, <1>4, Zenon DEF Shaking
<1> QED BY <1>2, <1>3, <1>5, <1>6, Zenon DEF Starting, Clean

\* Nothing has been said or read when the handshake is complete.
LEMMA FirstTalk ==
  ASSUME NEW s, NEW h, ValidHistory(h), Starting(s, h), s.hs = <<>>, NEW x, x = <<>>
  PROVE  /\ Held(s, h) /\ Sent(s, h) = <<HS, HS>> /\ Gathered(s, h, <<>>)
         /\ Inbox(s, h, <<>> \o x)
<1>1. /\ Untouched(s, h) /\ h.taken = <<HS>> /\ s.out = <<HS>>
      /\ s.in \in {<<>>, <<<<CloseNotify>>>>}
  <2>1. Untouched(s, h) /\ Shaking(s, h)
    BY DEF Starting
  <2>2. s.hs # <<"send", "recv", "send">> /\ s.hs # <<"recv", "send">>
        /\ s.hs # <<"send">>
    BY ShortLists, Zenon
  <2> QED BY <2>1, <2>2, Zenon DEF Shaking
<1>2. Held(s, h)
  <2>1. h.taken # <<>>
    BY <1>1, JustOne, OwnPieces
  <2> QED BY <1>1, <2>1, Zenon DEF Starting, Held, Untouched, Flushing
<1>3. Sent(s, h) = <<HS, HS>>
  <2>1. s.output = <<>> /\ s.output_buffer = <<>>
    BY <1>1 DEF Untouched, Drained
  <2>2. (<<HS>> \o <<>>) \o <<>> = <<HS>>
    OBVIOUS
  <2>3. <<HS>> \o <<HS>> = <<HS, HS>>
    <3>1. PICK p \in Alphabet : p = HS
      BY OwnPieces
    <3>2. PICK q \in Seq(Alphabet) : q = <<p>>
      BY JustOne
    <3>3. Append(q, p) = q \o <<p>>
      BY OneMore
    <3>4. Append(<<p>>, p) = <<p, p>>
      BY Tuples
    <3> QED BY <3>1, <3>2, <3>3, <3>4
  <2> QED BY <1>1, <2>1, <2>2, <2>3, Zenon DEF Sent
<1>4. Gathered(s, h, <<>>)
  <2>1. /\ s.eof = "no" /\ s.chunks = <<>> /\ h.typed = s.stdin
        /\ s.stdin \in Seq(Texts)
    BY <1>1, <1>2 DEF Untouched, Held, Valid
  <2>2. <<>> \o (s.chunks \o s.stdin) = s.stdin
    BY <2>1
  <2>3. <<>> \in Seq(Texts)
    OBVIOUS
  <2> QED BY <2>1, <2>2, <2>3, CommandsNone, Zenon DEF Gathered
<1>5. Inbox(s, h, <<>> \o x)
  <2>1. s.rbuf = <<>> /\ s.input_buffer = <<>> /\ h.said = <<>>
    BY <1>1 DEF Untouched
  <2>2. Records(<<>>) = <<>>
    BY DEF Records
  <2>3. s.in \in {Records(<<>>), Append(Records(<<>>), <<CloseNotify>>)}
    <3>1. Append(<<>>, <<CloseNotify>>) = <<<<CloseNotify>>>>
      OBVIOUS
    <3> QED BY <1>1, <2>2, <3>1
  <2>4. <<>> \in Seq(Responses) /\ (<<>> \o x) \o <<>> = <<>>
    OBVIOUS
  <2> QED BY <2>1, <2>3, <2>4, Zenon DEF Inbox
<1> QED BY <1>2, <1>3, <1>4, <1>5

\* handle_tls_connect: the session begins.
LEMMA Begins ==
  ASSUME NEW s, NEW h, ValidHistory(h), Starting(s, h), s.active = {}, s.hs = <<>>,
         NEW t, t = handle_tls_connect(s)
  PROVE  Asking(t, h)
<1>1. PICK x : x = <<>>
  OBVIOUS
<1>2. /\ Held(s, h) /\ Sent(s, h) = <<HS, HS>> /\ Gathered(s, h, <<>>)
      /\ Inbox(s, h, <<>> \o x)
  BY <1>1, FirstTalk
<1>3. PICK d \in Seq(Alphabet) : d = <<Piece("MOIN", 1)>>
  BY JustOne, OwnPieces
<1>4. PICK a : a = write_buffered(s, d)
  OBVIOUS
<1>5. t = tls_read_line(a, "handle_tls_moin_response")
  <2>1. Dereference(s) = s
    BY DEF Dereference, Starting
  <2> QED BY <1>3, <1>4, <2>1 DEF handle_tls_connect, tls_write_line
<1>6. /\ Held(t, h) /\ t.active = s.active \cup {"read", "write"}
      /\ Only(s, t, AskFields) /\ t.read_handler = "handle_tls_moin_response"
      /\ Sent(t, h) = Cat(Sent(s, h), d)
  <2>1. "read" \notin s.active /\ Held(s, h)
    BY <1>2
  <2>2. a = write_buffered(s, d) \/ a = tls_write(s, d)
    BY <1>4
  <2> QED BY <1>5, <2>1, <2>2, Asks
<1>7. Valid(s)
  BY DEF Starting
<1>8. /\ t.reader = s.reader /\ t.client_input = s.client_input
      /\ t.chunks = s.chunks /\ t.eof = s.eof
      /\ Inbox(t, h, <<>> \o x) /\ Gathered(t, h, <<>>)
  BY <1>2, <1>6, <1>7, AskKept
<1>9. Sent(t, h) = Sofar(<<>>)
  <2>1. <<HS, HS>> \o <<Piece("MOIN", 1)>> = <<HS, HS, Piece("MOIN", 1)>>
    <3>1. PICK p \in Alphabet : p = HS
      BY OwnPieces
    <3>2. PICK k \in Alphabet : k = Piece("MOIN", 1)
      BY OwnPieces
    <3>3. PICK q \in Seq(Alphabet) : q = <<p, p>>
      BY <1>2, <3>1, SentType DEF Held
    <3>4. Append(q, k) = q \o <<k>>
      BY OneMore
    <3>5. Append(<<p, p>>, k) = <<p, p, k>>
      BY Tuples
    <3> QED BY <3>1, <3>2, <3>3, <3>4, <3>5
  <2> QED BY <1>2, <1>3, <1>6, <2>1, SofarEmpty, Zenon DEF Cat
<1>10. Load(Sofar(<<>>)) <= Len(<<>>) + 1
  BY SofarEmpty, LoadHandshake
<1>11. Greeting(t, h, x)
  <2>1. Talk(t, h, <<>>, Sofar(<<>>), <<>>, x)
    BY <1>8, <1>9, <1>10, Zenon DEF Talk
  <2> QED BY <1>6, <1>8, <2>1, Zenon DEF Greeting, Starting, Untouched
<1> QED BY <1>1, <1>6, <1>11 DEF Asking, Stage

\* connect_cb.
LEMMA ConnectCallback ==
  ASSUME NEW c, NEW h, ValidHistory(h), Opening(c, h), NEW t, t = connect_cb(c)
  PROVE  Opening(t, h) \/ Asking(t, h) \/ Ended(t, h)
<1>1. PICK s : s = Touch(c)
  OBVIOUS
<1>2. Watched(s) /\ Sound(s, Alphabet, Watchers) /\ Only(c, s, {"age"}) /\ Valid(c)
  BY <1>1, TouchSound DEF Opening, Starting, Valid
<1>3. Opening(s, h)
  BY <1>2, PhaseKept DEF PhaseFields
<1>4. PICK x : x = SSL_handshake(s)
  OBVIOUS
<1>5. PICK u : u = x.next
  OBVIOUS
<1>6. /\ Starting(u, h) /\ Only(s, u, ShakeFields) /\ x.code \in Codes
      /\ x.code = "done" <=> u.hs = <<>>
  BY <1>3, <1>4, <1>5, Shakes DEF Opening
<1>7. u.active = {"init"}
  BY <1>2, <1>3, <1>6 DEF Only, ShakeFields, Opening, Watched, IsConn, TlsFields
<1>8. t = IF x.code # "done" THEN CB!check_tls_error(u, "init", x.code)
          ELSE handle_tls_connect(ev_io_stop(u, "init"))
  BY <1>1, <1>4, <1>5 DEF connect_cb
<1>9. CASE x.code # "done"
  <2>1. Opening(u, h)
    BY <1>6, <1>7, <1>9 DEF Opening
  <2>2. Mortal(u, h)
    BY <1>6, StartingMortal
  <2> QED BY <1>6, <1>7, <1>8, <1>9, <2>1, <2>2, Waits
<1>10. CASE x.code = "done"
  <2>1. PICK a : a = ev_io_stop(u, "init")
    OBVIOUS
  <2>2. Watched(u) /\ Sound(u, Alphabet, Watchers)
    BY <1>6 DEF Starting, Valid
  <2>3. /\ Watched(a) /\ Only(u, a, {"active", "pending"})
        /\ a.active = u.active \ {"init"}
    BY <2>1, <2>2, IoStop
  <2>4. Sound(a, Alphabet, Watchers)
    BY <2>2, <2>3, SoundKept DEF SoundFields
  <2>5. Only(u, a, WatchFields) /\ a.active = {}
    BY <1>7, <2>3, OnlyMore DEF WatchFields
  <2>6. Starting(a, h) /\ a.hs = <<>>
    BY <1>6, <1>10, <2>3, <2>4, <2>5, StartingMoves
  <2> QED BY <1>8, <1>10, <2>1, <2>5, <2>6, Begins
<1> QED BY <1>9, <1>10

\* The call of connect_cb from tls_connect.
LEMMA ConnectsAtOnce ==
  ASSUME NEW c, NEW h, ValidHistory(h), Starting(c, h), c.active = {}, c.hs # <<>>,
         NEW t, t = connect_cb_custom(c)
  PROVE  Opening(t, h) \/ Asking(t, h) \/ Ended(t, h)
<1>1. PICK s : s = Touch(c)
  OBVIOUS
<1>2. Watched(s) /\ Sound(s, Alphabet, Watchers) /\ Only(c, s, {"age"}) /\ Valid(c)
  BY <1>1, TouchSound DEF Starting, Valid
<1>3. Starting(s, h) /\ s.active = {} /\ s.hs # <<>>
  <2>1. {"age"} \cap PhaseFields = {}
    BY DEF PhaseFields
  <2> QED BY <1>2, <2>1, PhaseKept DEF Alike
<1>4. PICK x : x = SSL_handshake(s)
  OBVIOUS
<1>5. PICK u : u = x.next
  OBVIOUS
<1>6. /\ Starting(u, h) /\ Only(s, u, ShakeFields) /\ x.code \in Codes
      /\ x.code = "done" <=> u.hs = <<>>
  BY <1>3, <1>4, <1>5, Shakes
<1>7. u.active = {}
  BY <1>2, <1>3, <1>6 DEF Only, ShakeFields, Watched, IsConn, TlsFields
<1>8. PICK a : a = ev_feed_event(ev_io_start(u, "init", "w"), "init")
  OBVIOUS
<1>9. t = IF x.code # "done" THEN CB!check_tls_error(a, "init", x.code)
          ELSE handle_tls_connect(u)
  BY <1>1, <1>4, <1>5, <1>8 DEF connect_cb_custom
<1>10. CASE x.code # "done"
  <2>1. Watched(u) /\ Sound(u, Alphabet, Watchers)
    BY <1>6 DEF Starting, Valid
  <2>2. /\ Watched(a) /\ Sound(a, Alphabet, Watchers) /\ Only(u, a, WatchFields)
        /\ a.active = u.active \cup {"init"}
    BY <1>8, <2>1, StartFedSound
  <2>3. a.active = {"init"}
    BY <1>7, <2>2
  <2>4. Starting(a, h) /\ a.hs = u.hs
    BY <1>6, <2>2, <2>3, StartingMoves
  <2>5. Opening(a, h) /\ Mortal(a, h) /\ "init" \in a.active
    BY <1>6, <1>10, <2>3, <2>4, StartingMortal DEF Opening
  <2> QED BY <1>6, <1>9, <1>10, <2>5, Waits
<1>11. CASE x.code = "done"
  BY <1>6, <1>7, <1>9, <1>11, Begins
<1> QED BY <1>10, <1>11

-----------------------------------------------------------------------------
(* The input.                                                              *)

\* All commands before the next one are acknowledged.  `all' are the commands
\* that were read from the input.
Between(s, h, cmds, all) ==
  /\ Held(s, h) /\ s.active \subseteq {"input", "write"}
  /\ s.reader = "live" /\ s.client_input = "set"
  /\ Gathered(s, h, all) /\ Sent(s, h) = Sofar(cmds)
  /\ Inbox(s, h, Acks(2 * Len(cmds)))
  /\ Load(Sofar(cmds)) <= 2 * Len(cmds) + 1

\* The client waits for input between two commands.
LEMMA BetweenTyping ==
  ASSUME NEW s, NEW h, NEW cmds \in Seq(Orders), Between(s, h, cmds, cmds),
         "input" \in s.active, s.eof = "no"
  PROVE  Typing(s, h)
  BY Zenon DEF Between, Typing

\* Whoever waits for the input is between two commands ...
LEMMA TypingBetween ==
  ASSUME NEW s, NEW h, Typing(s, h)
  PROVE  \E cmds \in Seq(Orders) : Between(s, h, cmds, cmds)
  BY Zenon DEF Between, Typing

\* ... where the process may end, as at any other place.
LEMMA BetweenMortal ==
  ASSUME NEW s, NEW h, ValidHistory(h), NEW cmds \in Seq(Orders), NEW all,
         Between(s, h, cmds, all)
  PROVE  Mortal(s, h)
<1>1. Valid(s) /\ s.faults = {} /\ s.client = "live" /\ s.reader = "live"
  BY DEF Between, Held, Clean
<1>2. /\ Sent(s, h) = Sofar(cmds) /\ Inbox(s, h, Acks(2 * Len(cmds)))
      /\ Load(Sofar(cmds)) <= 2 * Len(cmds) + 1
  BY Zenon DEF Between
<1>3. PICK n \in Nat : n = 2 * Len(cmds)
  BY LenProperties
<1>4. PICK a \in Seq(Heard) : a = Acks(n) /\ Len(a) = n + 1
  BY AcksHeard
<1>5. Len(a) <= Len(h.said) /\ h.said \in Seq(Heard)
  BY <1>2, <1>3, <1>4, InboxHeard, Zenon
<1>6. PICK k \in Nat : k = Len(h.said)
  BY <1>5, LenProperties
<1>7. Load(Sent(s, h)) \in Nat
  BY <1>1, SentType
<1>8. Load(Sent(s, h)) <= Len(h.said) + 1
  BY <1>2, <1>3, <1>4, <1>5, <1>6, <1>7
<1> QED
  BY <1>1, <1>8 DEF Mortal

\* What is read, and which watcher runs, concerns the input alone.
LEMMA BetweenMoves ==
  ASSUME NEW s, NEW h, NEW cmds \in Seq(Orders), NEW all, Between(s, h, cmds, all),
         NEW t, NEW F, Only(s, t, F), F \subseteq OwnFields,
         t.reader = "live", t.client_input = "set",
         Watched(t), Sound(t, Alphabet, Watchers), t.active \subseteq {"input", "write"},
         "write" \in s.active => "write" \in t.active,
         t.eof \in {"no", "yes"}, t.chunks \in Seq(Texts), t.stdin \in Seq(Texts),
         NEW now, Gathered(t, h, now)
  PROVE  Between(t, h, cmds, now)
<1>1. /\ Held(t, h) /\ Sent(t, h) = Sent(s, h)
      /\ \A x : Inbox(s, h, x) => Inbox(t, h, x)
  <2>1. t.active \subseteq Watchers
    BY DEF Watchers, IoWatchers
  <2>2. Held(s, h)
    BY DEF Between
  <2>3. t.reader \in {"none", "live", "freed"} /\ t.client_input \in {"NULL", "set"}
    OBVIOUS
  <2> QED BY <2>1, <2>2, <2>3, HeldMoves
<1>2. /\ Sent(s, h) = Sofar(cmds) /\ Inbox(s, h, Acks(2 * Len(cmds)))
      /\ Load(Sofar(cmds)) <= 2 * Len(cmds) + 1
  BY DEF Between
<1> QED BY <1>1, <1>2, Zenon DEF Between

\* input_stop.
LEMMA InputStops ==
  ASSUME NEW s, Valid(s), s.reader = "live", NEW t, t = input_stop(s)
  PROVE  /\ Watched(t) /\ Sound(t, Alphabet, Watchers)
         /\ Only(s, t, {"active", "pending", "reader"})
         /\ t.active = s.active \ {"input"} /\ t.reader = "freed"
<1>1. Watched(s) /\ Sound(s, Alphabet, Watchers) /\ IsConn(s) /\ "reader" \in DOMAIN s
  BY DEF Valid, Watched, ClientFields
<1>2. PICK a : a = IF "input" \in s.active THEN ev_io_stop(s, "input") ELSE s
  OBVIOUS
<1>3. /\ Watched(a) /\ Only(s, a, {"active", "pending"})
      /\ a.active = s.active \ {"input"}
  <2>1. CASE "input" \in s.active
    BY <1>1, <1>2, <2>1, IoStop
  <2>2. CASE "input" \notin s.active
    BY <1>1, <1>2, <2>2, OnlyRefl
  <2> QED BY <2>1, <2>2
<1>4. t = [a EXCEPT !.reader = "freed"]
  BY <1>2 DEF input_stop
<1>5. Only(a, t, {"reader"}) /\ t.reader = "freed"
  BY <1>1, <1>3, <1>4 DEF Only
<1>6. Only(s, t, {"active", "pending", "reader"})
  BY <1>3, <1>5, OnlyTrans
<1>7. t.active = a.active /\ t.pending = a.pending /\ IsConn(t)
  BY <1>3, <1>5 DEF Only, Watched, IsConn, TlsFields
<1>8. Watched(t)
  BY <1>3, <1>7 DEF Watched
<1>9. Sound(t, Alphabet, Watchers)
  BY <1>1, <1>6, SoundKept DEF SoundFields
<1> QED BY <1>3, <1>5, <1>6, <1>7, <1>8, <1>9

\* One request more, and all before it acknowledged.
LEMMA NextRequest ==
  ASSUME NEW cmds \in Seq(Orders), Load(Sofar(cmds)) <= 2 * Len(cmds) + 1,
         NEW p \in Alphabet, p.kw # "data"
  PROVE  /\ Cat(Sofar(cmds), <<p>>) = Append(Sofar(cmds), p)
         /\ Load(Append(Sofar(cmds), p)) <= Len(Acks(2 * Len(cmds))) + 1
<1>1. PICK q \in Seq(Alphabet) : q = Sofar(cmds)
  BY SofarType
<1>2. Append(q, p) = q \o <<p>> /\ Append(q, p) \in Seq(Alphabet)
  BY OneMore
<1>3. PICK n \in Nat : n = 2 * Len(cmds)
  BY LenProperties
<1>4. Len(Acks(n)) = n + 1
  BY AcksHeard
<1>5. Load(Append(q, p)) <= Load(q) + 1 /\ Load(Append(q, p)) \in Nat /\ Load(q) \in Nat
  BY <1>2, LoadAppend, LoadParts
<1>6. Load(Append(q, p)) <= Len(Acks(n)) + 1
  BY <1>1, <1>3, <1>4, <1>5
<1>7. Cat(q, <<p>>) = Append(q, p)
  BY <1>2, Zenon DEF Cat
<1> QED BY <1>1, <1>3, <1>6, <1>7

\* At the end of the input, the client says that it quits.
LEMMA EndsInput ==
  ASSUME NEW s, NEW h, ValidHistory(h), NEW cmds \in Seq(Orders),
         Between(s, h, cmds, cmds), s.eof = "yes", NEW t, t = EndOfInput(s)
  PROVE  Asking(t, h)
<1>1. PICK a : a = [s EXCEPT !.client_input = "NULL"]
  OBVIOUS
<1>2. /\ Held(s, h) /\ Valid(s) /\ IsConn(s) /\ ClientFields \subseteq DOMAIN s
      /\ Watched(s) /\ Sound(s, Alphabet, Watchers)
      /\ s.active \subseteq {"input", "write"}
  BY HeldValid DEF Between
<1>3. Only(s, a, {"client_input"}) /\ a.client_input = "NULL"
  BY <1>1, <1>2 DEF Only, ClientFields
<1>4. /\ a.active = s.active /\ a.pending = s.pending /\ a.reader = s.reader
      /\ a.eof = s.eof /\ a.chunks = s.chunks /\ a.stdin = s.stdin /\ IsConn(a)
  BY <1>2, <1>3 DEF Only, ClientFields, IsConn, TlsFields
<1>5. Watched(a) /\ Sound(a, Alphabet, Watchers)
  <2>1. Watched(a)
    BY <1>2, <1>4 DEF Watched
  <2>2. {"client_input"} \cap SoundFields = {}
    BY DEF SoundFields
  <2> QED BY <1>2, <1>3, <2>1, <2>2, SoundKept
<1>6. /\ Held(a, h) /\ Sent(a, h) = Sent(s, h)
      /\ \A x : Inbox(s, h, x) => Inbox(a, h, x)
  <2>1. {"client_input"} \subseteq OwnFields
    BY DEF OwnFields
  <2>2. /\ a.active \subseteq Watchers /\ ("write" \in s.active => "write" \in a.active)
        /\ a.reader \in {"none", "live", "freed"} /\ a.client_input \in {"NULL", "set"}
        /\ a.eof \in {"no", "yes"} /\ a.chunks \in Seq(Texts) /\ a.stdin \in Seq(Texts)
    BY <1>2, <1>3, <1>4 DEF Valid
  <2> QED BY <1>2, <1>3, <1>5, <2>1, <2>2, HeldMoves
<1>7. PICK p \in Alphabet : p = Piece("QUIT", 0)
  BY OwnPieces
<1>8. PICK d \in Seq(Alphabet) : d = <<p>>
  BY JustOne
<1>9. PICK b : b = write_buffered(a, d)
  OBVIOUS
<1>10. PICK c : c = tls_read_line(b, "handle_tls_quit_response")
  OBVIOUS
<1>11. t = input_stop(c)
  BY <1>1, <1>7, <1>8, <1>9, <1>10 DEF EndOfInput, handle_input_eof, tls_write_line
<1>12. /\ Held(c, h) /\ c.active = a.active \cup {"read", "write"}
       /\ Only(a, c, AskFields) /\ c.read_handler = "handle_tls_quit_response"
       /\ Sent(c, h) = Cat(Sent(a, h), d)
  <2>1. "read" \notin a.active
    BY <1>2, <1>4
  <2> QED BY <1>6, <1>9, <1>10, <2>1, Asks
<1>13. /\ c.reader = a.reader /\ c.client_input = a.client_input
       /\ c.eof = a.eof /\ c.chunks = a.chunks /\ c.stdin = a.stdin
       /\ \A x : Inbox(a, h, x) => Inbox(c, h, x)
  BY <1>6, <1>12, AskKept DEF Held
<1>14. /\ Watched(t) /\ Sound(t, Alphabet, Watchers)
       /\ Only(c, t, {"active", "pending", "reader"})
       /\ t.active = c.active \ {"input"} /\ t.reader = "freed"
  <2>1. Valid(c) /\ c.reader = "live"
    BY <1>4, <1>12, <1>13 DEF Held, Between
  <2> QED BY <1>11, <2>1, InputStops
<1>15. /\ t.client_input = c.client_input /\ t.eof = c.eof
       /\ t.chunks = c.chunks /\ t.stdin = c.stdin /\ t.read_handler = c.read_handler
  BY <1>12, <1>14, HeldValid DEF Only, ClientFields, IsConn, TlsFields
<1>16. /\ Held(t, h) /\ Sent(t, h) = Sent(c, h)
       /\ \A x : Inbox(c, h, x) => Inbox(t, h, x)
  <2>1. {"active", "pending", "reader"} \subseteq OwnFields
    BY DEF OwnFields
  <2>2. /\ t.active \subseteq Watchers /\ ("write" \in c.active => "write" \in t.active)
        /\ t.reader \in {"none", "live", "freed"} /\ t.client_input \in {"NULL", "set"}
        /\ t.eof \in {"no", "yes"} /\ t.chunks \in Seq(Texts) /\ t.stdin \in Seq(Texts)
    BY <1>12, <1>14, <1>15 DEF Held, Valid
  <2> QED BY <1>12, <1>14, <2>1, <2>2, HeldMoves
<1>17. Gathered(t, h, cmds)
  <2>1. Gathered(s, h, cmds)
    BY DEF Between
  <2> QED BY <1>4, <1>13, <1>15, <2>1, Zenon DEF Gathered
<1>18. Sent(t, h) = Append(Sofar(cmds), p)
       /\ Load(Append(Sofar(cmds), p)) <= Len(Acks(2 * Len(cmds))) + 1
  <2>1. Load(Sofar(cmds)) <= 2 * Len(cmds) + 1 /\ Sent(s, h) = Sofar(cmds)
    BY DEF Between
  <2>2. p.kw # "data"
    BY <1>7 DEF Piece
  <2>3. /\ Cat(Sofar(cmds), <<p>>) = Append(Sofar(cmds), p)
        /\ Load(Append(Sofar(cmds), p)) <= Len(Acks(2 * Len(cmds))) + 1
    BY <2>1, <2>2, NextRequest
  <2> QED BY <1>6, <1>8, <1>12, <1>16, <2>1, <2>3, Zenon
<1>19. PICK x : x = <<>>
  OBVIOUS
<1>20. Inbox(t, h, Acks(2 * Len(cmds)) \o x)
  <2>1. Inbox(s, h, Acks(2 * Len(cmds)))
    BY DEF Between
  <2>2. Acks(2 * Len(cmds)) \o x = Acks(2 * Len(cmds))
    <3>1. PICK n \in Nat : n = 2 * Len(cmds)
      BY LenProperties
    <3>2. PICK q \in Seq(Heard) : q = Acks(n)
      BY AcksHeard
    <3> QED BY <1>19, <3>1, <3>2, Assoc
  <2> QED BY <1>6, <1>13, <1>16, <2>1, <2>2
<1>21. Talk(t, h, cmds, Append(Sofar(cmds), p), Acks(2 * Len(cmds)), x)
  BY <1>17, <1>18, <1>20, Zenon DEF Talk
<1>22. Leaving(t, h, x)
  <2>1. t.read_handler = "handle_tls_quit_response" /\ t.client_input = "NULL"
        /\ t.eof = "yes"
    BY <1>3, <1>4, <1>12, <1>13, <1>15
  <2> QED BY <1>7, <1>14, <1>21, <2>1, Zenon DEF Leaving
<1>23. t.active \subseteq {"read", "write"} /\ "read" \in t.active
  BY <1>2, <1>4, <1>12, <1>14
<1> QED BY <1>16, <1>19, <1>22, <1>23, Zenon DEF Asking, Stage

\* A command is announced with PUSH.
Announce(s, command) ==
  tls_read_line(tls_write_line([s EXCEPT !.command = command],
                               Piece("PUSH", Len(command))),
                "handle_tls_push_response")

\* ... and the server's answer is waited for.
LEMMA Announces ==
  ASSUME NEW s, NEW h, ValidHistory(h), NEW cmds \in Seq(Orders), NEW c \in Orders,
         Between(s, h, cmds, Append(cmds, c)), "input" \notin s.active,
         NEW command, command = parse_check_result(c.arg),
         NEW t, t = Announce(s, command)
  PROVE  Asking(t, h)
<1>0. PICK u : u = [s EXCEPT !.command = command]
  OBVIOUS
<1>1. /\ Held(s, h) /\ Valid(s) /\ IsConn(s) /\ ClientFields \subseteq DOMAIN s
      /\ Watched(s) /\ Sound(s, Alphabet, Watchers)
      /\ s.active \subseteq {"write"}
  BY HeldValid DEF Between
<1>2. Only(s, u, {"command"}) /\ u.command = command
  BY <1>0, <1>1 DEF Only, ClientFields
<1>3. /\ u.active = s.active /\ u.pending = s.pending /\ u.reader = s.reader
      /\ u.client_input = s.client_input
      /\ u.eof = s.eof /\ u.chunks = s.chunks /\ u.stdin = s.stdin /\ IsConn(u)
  BY <1>1, <1>2 DEF Only, ClientFields, IsConn, TlsFields
<1>4. Watched(u) /\ Sound(u, Alphabet, Watchers)
  <2>1. Watched(u)
    BY <1>1, <1>3 DEF Watched
  <2>2. {"command"} \cap SoundFields = {}
    BY DEF SoundFields
  <2> QED BY <1>1, <1>2, <2>1, <2>2, SoundKept
<1>5. /\ Held(u, h) /\ Sent(u, h) = Sent(s, h)
      /\ \A x : Inbox(s, h, x) => Inbox(u, h, x)
  <2>1. {"command"} \subseteq OwnFields
    BY DEF OwnFields
  <2>2. /\ u.active \subseteq Watchers /\ ("write" \in s.active => "write" \in u.active)
        /\ u.reader \in {"none", "live", "freed"} /\ u.client_input \in {"NULL", "set"}
        /\ u.eof \in {"no", "yes"} /\ u.chunks \in Seq(Texts) /\ u.stdin \in Seq(Texts)
    BY <1>1, <1>3 DEF Valid
  <2> QED BY <1>1, <1>2, <1>4, <2>1, <2>2, HeldMoves
<1>6. PICK p \in Alphabet : p = Piece("PUSH", Len(command))
  BY Parsed, PushPiece DEF Orders
<1>7. PICK d \in Seq(Alphabet) : d = <<p>>
  BY JustOne
<1>8. PICK b : b = write_buffered(u, d)
  OBVIOUS
<1>9. t = tls_read_line(b, "handle_tls_push_response")
  BY <1>0, <1>6, <1>7, <1>8 DEF Announce, tls_write_line
<1>10. /\ Held(t, h) /\ t.active = u.active \cup {"read", "write"}
       /\ Only(u, t, AskFields) /\ t.read_handler = "handle_tls_push_response"
       /\ Sent(t, h) = Cat(Sent(u, h), d)
  <2>1. "read" \notin u.active
    BY <1>1, <1>3
  <2> QED BY <1>5, <1>8, <1>9, <2>1, Asks
<1>11. /\ t.reader = u.reader /\ t.client_input = u.client_input
       /\ t.eof = u.eof /\ t.chunks = u.chunks /\ t.stdin = u.stdin
       /\ t.command = u.command
       /\ \A x : Inbox(u, h, x) => Inbox(t, h, x)
  BY <1>5, <1>10, AskKept DEF Held
<1>12. Gathered(t, h, Append(cmds, c))
  <2>1. Gathered(s, h, Append(cmds, c))
    BY DEF Between
  <2> QED BY <1>3, <1>11, <2>1, Zenon DEF Gathered
<1>13. Sent(t, h) = Append(Sofar(cmds), p)
       /\ Load(Append(Sofar(cmds), p)) <= Len(Acks(2 * Len(cmds))) + 1
  <2>1. Load(Sofar(cmds)) <= 2 * Len(cmds) + 1 /\ Sent(s, h) = Sofar(cmds)
    BY DEF Between
  <2>2. p.kw # "data"
    BY <1>6 DEF Piece
  <2>3. /\ Cat(Sofar(cmds), <<p>>) = Append(Sofar(cmds), p)
        /\ Load(Append(Sofar(cmds), p)) <= Len(Acks(2 * Len(cmds))) + 1
    BY <2>1, <2>2, NextRequest
  <2> QED BY <1>5, <1>7, <1>10, <2>1, <2>3, Zenon
<1>14. PICK x : x = <<>>
  OBVIOUS
<1>15. Inbox(t, h, Acks(2 * Len(cmds)) \o x)
  <2>1. Inbox(s, h, Acks(2 * Len(cmds)))
    BY DEF Between
  <2>2. Acks(2 * Len(cmds)) \o x = Acks(2 * Len(cmds))
    <3>1. PICK n \in Nat : n = 2 * Len(cmds)
      BY LenProperties
    <3>2. PICK q \in Seq(Heard) : q = Acks(n)
      BY AcksHeard
    <3> QED BY <1>14, <3>1, <3>2, Assoc
  <2> QED BY <1>5, <1>11, <2>1, <2>2
<1>16. Talk(t, h, Append(cmds, c), Append(Sofar(cmds), p), Acks(2 * Len(cmds)), x)
  BY <1>12, <1>13, <1>15, Zenon DEF Talk
<1>17. Announcing(t, h, x)
  <2>1. /\ t.read_handler = "handle_tls_push_response"
        /\ t.reader = "live" /\ t.client_input = "set"
        /\ t.command = parse_check_result(c.arg)
    BY <1>2, <1>3, <1>10, <1>11 DEF Between
  <2> QED BY <1>6, <1>16, <2>1, Zenon DEF Announcing
<1>18. t.active \subseteq {"read", "write"} /\ "read" \in t.active
  BY <1>1, <1>3, <1>10
<1> QED BY <1>10, <1>14, <1>17, <1>18, Zenon DEF Asking, Stage

\* The commands after a chunk: it is one of them unless it is empty.
With(cmds, p) == IF p.arg = 0 THEN cmds ELSE Append(cmds, p)

\* What a turn of read_cb's loop leads to.
Taking(r, h) ==
  /\ r = Turn(r.s, r.go) /\ r.go \in {"yes", "no"}
  /\ r.go = "yes" => Typing(r.s, h)
  /\ r.go = "no" => Typing(r.s, h) \/ Asking(r.s, h) \/ Ended(r.s, h)

\* The parts of a turn.
LEMMA TurnParts ==
  ASSUME NEW s, NEW go, NEW r, r = Turn(s, go)
  PROVE  r.s = s /\ r.go = go /\ r = Turn(r.s, r.go)
  BY DEF Turn

\* The watcher of the input is started.
LEMMA WaitsForInput ==
  ASSUME NEW s, NEW h, NEW cmds \in Seq(Orders), Between(s, h, cmds, cmds),
         s.eof = "no", NEW t, t = ev_io_start(s, "input", "r")
  PROVE  Typing(t, h)
<1>1. /\ Valid(s) /\ IsConn(s) /\ ClientFields \subseteq DOMAIN s
      /\ Watched(s) /\ Sound(s, Alphabet, Watchers) /\ s.reader = "live"
      /\ s.client_input = "set" /\ s.active \subseteq {"input", "write"}
  BY HeldValid DEF Between
<1>2. /\ Watched(t) /\ Only(s, t, WatchFields)
      /\ t.active = s.active \cup {"input"} /\ SetsEvent(s, t, "input", "r")
  BY <1>1, IoStart
<1>3. Sound(t, Alphabet, Watchers)
  BY <1>1, <1>2, SoundStart
<1>4. /\ t.reader = s.reader /\ t.client_input = s.client_input
      /\ t.eof = s.eof /\ t.chunks = s.chunks /\ t.stdin = s.stdin
  BY <1>1, <1>2 DEF Only, WatchFields, ClientFields
<1>5. Gathered(t, h, cmds)
  <2>1. Gathered(s, h, cmds)
    BY DEF Between
  <2> QED BY <1>4, <2>1, Zenon DEF Gathered
<1>6. Between(t, h, cmds, cmds)
  <2>1. WatchFields \subseteq OwnFields
    BY DEF WatchFields, OwnFields
  <2>2. /\ t.active \subseteq {"input", "write"}
        /\ ("write" \in s.active => "write" \in t.active)
        /\ t.eof \in {"no", "yes"} /\ t.chunks \in Seq(Texts) /\ t.stdin \in Seq(Texts)
    BY <1>1, <1>2, <1>4 DEF Valid
  <2> QED BY <1>1, <1>2, <1>3, <1>4, <1>5, <2>1, <2>2, BetweenMoves
<1> QED BY <1>2, <1>4, <1>6, BetweenTyping

\* handle_input_chunk.
LEMMA ChunkHandled ==
  ASSUME NEW s, NEW h, ValidHistory(h), NEW cmds \in Seq(Orders), NEW p \in Texts,
         Between(s, h, cmds, With(cmds, p)), "input" \notin s.active,
         NEW r, r = handle_input_chunk(s, p.arg)
  PROVE  Taking(r, h)
<1>1. p.arg \in 0..4 /\ (p.arg \in 1..3 => p \in Orders)
  BY ClientAssumption DEF Texts, Orders, EndOfFile, Piece
<1>2. s.eof \in {"no", "yes"}
  BY DEF Between, Held, Valid
<1>3. CASE p.arg = 0 /\ s.eof = "no"
  <2>1. PICK t : t = ev_io_start(s, "input", "r")
    OBVIOUS
  <2>2. r = Turn(t, "yes")
    BY <1>3, <2>1 DEF handle_input_chunk
  <2>3. Between(s, h, cmds, cmds)
    BY <1>3 DEF With
  <2>4. Typing(t, h)
    BY <1>3, <2>1, <2>3, WaitsForInput
  <2> QED BY <2>2, <2>4, TurnParts DEF Taking
<1>4. CASE p.arg = 0 /\ s.eof = "yes"
  <2>1. PICK t : t = EndOfInput(s)
    OBVIOUS
  <2>2. r = Turn(t, "no")
    BY <1>4, <2>1 DEF handle_input_chunk
  <2>3. Between(s, h, cmds, cmds)
    BY <1>4 DEF With
  <2>4. Asking(t, h)
    BY <1>4, <2>1, <2>3, EndsInput
  <2> QED BY <2>2, <2>4, TurnParts DEF Taking
<1>5. CASE p.arg = 4
  <2>1. PICK t : t = die(s, "input format")
    OBVIOUS
  <2>2. r = Turn(t, "no")
    <3>1. p.arg # 0 /\ p.arg \notin 1..3
      BY <1>5
    <3> QED BY <1>5, <2>1, <3>1, Zenon DEF handle_input_chunk
  <2>3. Mortal(s, h) /\ "input format" \in Deaths \cup {"stale timeout"}
    BY BetweenMortal DEF Deaths
  <2>4. Ended(t, h)
    BY <2>1, <2>3, Dies
  <2> QED BY <2>2, <2>4, TurnParts DEF Taking
<1>6. CASE p.arg \in 1..3
  <2>1. PICK command : command = parse_check_result(p.arg)
    OBVIOUS
  <2>3. PICK t : t = Announce(s, command)
    OBVIOUS
  <2>4. r = Turn(t, "no")
    <3>1. p.arg # 0 /\ p.arg # 4
      BY <1>6
    <3> QED BY <1>6, <2>1, <2>3, <3>1, Zenon DEF handle_input_chunk, Announce
  <2>5. Between(s, h, cmds, Append(cmds, p)) /\ p \in Orders
    BY <1>1, <1>6 DEF With
  <2>6. Asking(t, h)
    BY <2>1, <2>3, <2>5, Announces
  <2> QED BY <2>4, <2>6, TurnParts DEF Taking
<1> QED BY <1>1, <1>2, <1>3, <1>4, <1>5, <1>6

\* The first terminated chunk of the buffer.
LEMMA FirstChunk ==
  ASSUME NEW S, NEW q \in Seq(S), NEW n, n = SelectInSeq(q, LAMBDA p : p.kw = "chunk")
  PROVE  /\ n \in 0..Len(q)
         /\ n > 0 => q[n].kw = "chunk" /\ \A i \in 1..(n - 1) : q[i].kw # "chunk"
         /\ n = 0 => \A i \in 1..Len(q) : q[i].kw # "chunk"
<1> DEFINE I == {i \in 1..Len(q) : q[i].kw = "chunk"}
<1>1. n = IF I # {} THEN Min(I) ELSE 0
  BY DEF SelectInSeq
<1>2. CASE I = {}
  BY <1>1, <1>2
<1>3. CASE I # {}
  <2>1. PICK k : k \in I
    BY <1>3
  <2>2. Min(I) \in I /\ \A i \in I : Min(I) <= i
    <3>1. I \subseteq Nat
      OBVIOUS
    <3> HIDE DEF I
    <3> QED BY <2>1, <3>1, FirstIndex
  <2>3. n \in I /\ \A i \in I : n <= i
    BY <1>1, <1>3, <2>2
  <2> QED BY <2>3
<1> QED BY <1>2, <1>3

\* How many pieces read(2) returns.
Returned(stdin, i) ==
  /\ i <= Len(stdin) /\ EndOfFile \notin Range(SubSeq(stdin, 1, i))
  /\ \/ i = InputSize \/ i = Len(stdin)
     \/ stdin[i + 1] = EndOfFile

\* It returns something unless the file has ended.
LEMMA HowMuch ==
  ASSUME NEW stdin \in Seq(Texts), stdin # <<>>, NEW k,
         k = CHOOSE i \in 0..InputSize : Returned(stdin, i)
  PROVE  k \in 0..Len(stdin) /\ (k = 0 => stdin[1] = EndOfFile)
<1>1. InputSize \in Nat \ {0}
  BY ClientAssumption
<1>2. PICK l \in Nat : l = Len(stdin)
  BY LenProperties
<1>3. \E i \in 0..InputSize : Returned(stdin, i)
  <2> DEFINE E == {i \in 0..(l - 1) : stdin[i + 1] = EndOfFile}
  <2>1. ASSUME NEW i \in 0..l, i <= InputSize, i = InputSize \/ i = l \/ i \in E,
               \A j \in 0..(i - 1) : j \notin E
        PROVE  \E j \in 0..InputSize : Returned(stdin, j)
    <3>1. SubSeq(stdin, 1, i) \in Seq(Texts) /\ Len(SubSeq(stdin, 1, i)) = i
          /\ \A j \in 1..i : SubSeq(stdin, 1, i)[j] = stdin[j]
      BY <1>2, Cut
    <3>2. ASSUME NEW j \in 1..i PROVE stdin[j] # EndOfFile
      <4>1. j - 1 \in 0..(i - 1) /\ j - 1 \in 0..(l - 1) /\ (j - 1) + 1 = j
        BY <1>2, <2>1
      <4>2. j - 1 \notin E
        BY <2>1, <4>1
      <4> QED BY <4>1, <4>2
    <3>3. EndOfFile \notin Range(SubSeq(stdin, 1, i))
      BY <3>1, <3>2 DEF Range
    <3>4. i = InputSize \/ i = Len(stdin) \/ stdin[i + 1] = EndOfFile
      BY <1>2, <2>1
    <3>5. Returned(stdin, i)
      BY <1>2, <3>3, <3>4 DEF Returned
    <3> QED BY <1>1, <2>1, <3>5
  <2>2. PICK b \in 0..l : b <= InputSize /\ (b = InputSize \/ b = l)
    <3>1. CASE InputSize <= l
      BY <1>1, <1>2, <3>1
    <3>2. CASE ~(InputSize <= l)
      BY <1>1, <1>2, <3>2
    <3> QED BY <3>1, <3>2
  <2>3. CASE E = {}
    BY <2>1, <2>2, <2>3
  <2>4. CASE E # {}
    <3>1. E \subseteq Nat
      BY <1>2
    <3>2. PICK m : m \in E /\ \A x \in E : m <= x
      <4>1. PICK e : e \in E
        BY <2>4
      <4> HIDE DEF E
      <4> QED BY <3>1, <4>1, FirstIndex
    <3>3. CASE m <= b
      <4>1. m \in 0..l /\ m <= InputSize
        BY <1>1, <1>2, <2>2, <3>2, <3>3
      <4>2. \A j \in 0..(m - 1) : j \notin E
        BY <3>1, <3>2
      <4> QED BY <2>1, <3>2, <4>1, <4>2
    <3>4. CASE ~(m <= b)
      <4>1. \A j \in 0..(b - 1) : j \notin E
        BY <3>1, <3>2, <3>4
      <4> QED BY <2>1, <2>2, <4>1
    <3> QED BY <3>3, <3>4
  <2> QED BY <2>3, <2>4
<1>4. k \in 0..InputSize /\ Returned(stdin, k)
  BY <1>3
<1>5. l > 0
  BY <1>2, EmptySeq
<1>6. k <= Len(stdin) /\ (k = InputSize \/ k = Len(stdin) \/ stdin[k + 1] = EndOfFile)
  BY <1>4, Zenon DEF Returned
<1>7. k = 0 => stdin[1] = EndOfFile
  <2>1. PICK m \in Nat : m = k
    BY <1>1, <1>4
  <2>2. m = 0 => m + 1 = 1 /\ m # InputSize /\ m # Len(stdin)
    BY <1>1, <1>2, <1>5
  <2>3. m = 0 => stdin[1] = EndOfFile
    BY <1>6, <2>1, <2>2, Zenon
  <2> QED BY <2>1, <2>3
<1> QED BY <1>1, <1>2, <1>4, <1>6, <1>7

\* The watcher is stopped, and the buffer is left with q.
LeaveChunks(s, q) == [ev_io_stop(s, "input") EXCEPT !.chunks = q]

\* Nothing else changes.
LEMMA ChunksLeft ==
  ASSUME NEW s, Valid(s), NEW q \in Seq(Texts),
         NEW t, t = LeaveChunks(s, q)
  PROVE  /\ Watched(t) /\ Sound(t, Alphabet, Watchers)
         /\ Only(s, t, {"active", "pending", "chunks"})
         /\ t.active = s.active \ {"input"} /\ t.chunks = q
         /\ t.reader = s.reader /\ t.client_input = s.client_input
         /\ t.eof = s.eof /\ t.stdin = s.stdin
<1>1. /\ Watched(s) /\ Sound(s, Alphabet, Watchers) /\ IsConn(s)
      /\ ClientFields \subseteq DOMAIN s
  BY DEF Valid, Watched
<1>2. PICK a : a = ev_io_stop(s, "input")
  OBVIOUS
<1>3. /\ Watched(a) /\ Only(s, a, {"active", "pending"})
      /\ a.active = s.active \ {"input"}
  BY <1>1, <1>2, IoStop
<1>4. Only(a, t, {"chunks"}) /\ t.chunks = q
  <2>1. "chunks" \in DOMAIN a
    BY <1>1, <1>3 DEF Only, ClientFields
  <2> QED BY <1>2, <2>1 DEF Only, LeaveChunks
<1>5. Only(s, t, {"active", "pending", "chunks"})
  BY <1>3, <1>4, OnlyTrans
<1>6. /\ t.active = a.active /\ t.pending = a.pending /\ IsConn(t)
  BY <1>3, <1>4 DEF Only, Watched, IsConn, TlsFields
<1>7. Watched(t)
  BY <1>3, <1>6 DEF Watched
<1>8. Sound(t, Alphabet, Watchers)
  BY <1>1, <1>5, SoundKept DEF SoundFields
<1>9. /\ t.reader = s.reader /\ t.client_input = s.client_input
      /\ t.eof = s.eof /\ t.stdin = s.stdin
  BY <1>1, <1>5 DEF Only, ClientFields
<1> QED BY <1>3, <1>4, <1>5, <1>6, <1>7, <1>8, <1>9

\* A terminated chunk is taken from the buffer.
LEMMA TakesChunk ==
  ASSUME NEW s, NEW h, ValidHistory(h), Typing(s, h), NEW n \in 1..Len(s.chunks),
         s.chunks[n].kw = "chunk", \A i \in 1..(n - 1) : s.chunks[i].kw # "chunk",
         NEW r, r = handle_input_chunk(
                      [ev_io_stop(s, "input") EXCEPT
                         !.chunks = SubSeq(@, n + 1, Len(@))],
                      s.chunks[n].arg)
  PROVE  Taking(r, h)
<1>1. PICK cmds \in Seq(Orders) : Between(s, h, cmds, cmds)
  BY TypingBetween, Zenon
<1>2. /\ Valid(s) /\ s.eof = "no" /\ s.chunks \in Seq(Texts) /\ s.stdin \in Seq(Texts)
      /\ s.active \subseteq {"input", "write"} /\ s.reader = "live"
      /\ s.client_input = "set" /\ Gathered(s, h, cmds)
      /\ Watched(s)
  BY <1>1 DEF Typing, Between, Held, Valid
<1>3. PICK chunks, stdin \in Seq(Texts) : chunks = s.chunks /\ stdin = s.stdin
  BY <1>2
<1>4. PICK used \in Seq(Texts) :
        /\ h.typed = used \o (chunks \o stdin) /\ cmds = Commands(used)
        /\ used # <<>> => Last(used).kw = "chunk"
  BY <1>2, <1>3, Zenon DEF Gathered
<1>5. PICK p \in Texts : p = chunks[n]
  BY <1>3
<1>6. PICK rest \in Seq(Texts) : rest = SubSeq(chunks, n + 1, Len(chunks))
  <2>1. n \in 0..Len(chunks)
    BY <1>3
  <2> QED BY <2>1, CutParts
<1>7. PICK more \in Seq(Texts) :
        /\ used \o (chunks \o stdin) = more \o (rest \o stdin)
        /\ more # <<>> /\ Last(more) = p
        /\ Commands(more) = IF p.arg # 0 THEN Append(cmds, p) ELSE cmds
  <2>1. n \in 1..Len(chunks) /\ chunks[n].kw = "chunk"
        /\ \A i \in 1..(n - 1) : chunks[i].kw # "chunk"
    BY <1>3
  <2>2. Taken(used, chunks, stdin, n, Texts)
    BY <2>1, ChunkTaken
  <2> QED BY <1>4, <1>5, <1>6, <2>2, Zenon DEF Taken
<1>8. PICK t : t = LeaveChunks(s, rest)
  OBVIOUS
<1>9. /\ Watched(t) /\ Sound(t, Alphabet, Watchers)
      /\ Only(s, t, {"active", "pending", "chunks"})
      /\ t.active = s.active \ {"input"} /\ t.chunks = rest
      /\ t.reader = s.reader /\ t.client_input = s.client_input
      /\ t.eof = s.eof /\ t.stdin = s.stdin
  <2>1. Valid(s)
    BY <1>2
  <2> QED BY <1>8, <2>1, ChunksLeft
<1>10. r = handle_input_chunk(t, p.arg)
  <2>1. ev_io_stop(s, "input").chunks = s.chunks
    <3>1. PICK a : a = ev_io_stop(s, "input")
      OBVIOUS
    <3>2. Only(s, a, {"active", "pending"})
      BY <1>2, <3>1, IoStop
    <3>3. a.chunks = s.chunks
      BY <1>2, <3>2 DEF Only, Valid, ClientFields
    <3> QED BY <3>1, <3>3
  <2> QED BY <1>3, <1>5, <1>6, <1>8, <2>1, Zenon DEF LeaveChunks
<1>11. Gathered(t, h, With(cmds, p))
  <2>1. With(cmds, p) = Commands(more)
    BY <1>7 DEF With
  <2>2. p.kw = "chunk"
    BY <1>3, <1>5
  <2> QED BY <1>2, <1>3, <1>4, <1>7, <1>9, <2>1, <2>2, Zenon DEF Gathered
<1>12. Between(t, h, cmds, With(cmds, p))
  <2>1. {"active", "pending", "chunks"} \subseteq OwnFields
    BY DEF OwnFields
  <2>2. /\ t.active \subseteq {"input", "write"}
        /\ ("write" \in s.active => "write" \in t.active)
        /\ t.eof \in {"no", "yes"} /\ t.chunks \in Seq(Texts) /\ t.stdin \in Seq(Texts)
        /\ t.reader = "live" /\ t.client_input = "set"
    BY <1>2, <1>9
  <2> QED BY <1>1, <1>9, <1>11, <2>1, <2>2, BetweenMoves
<1> QED BY <1>9, <1>10, <1>12, ChunkHandled

\* The end of the input.
LEMMA FileEnds ==
  ASSUME NEW s, NEW h, ValidHistory(h), Typing(s, h),
         \A i \in 1..Len(s.chunks) : s.chunks[i].kw # "chunk",
         s.stdin # <<>>, s.stdin[1] = EndOfFile, NEW r, r = AtEof(s)
  PROVE  Taking(r, h)
<1>1. PICK cmds \in Seq(Orders) : Between(s, h, cmds, cmds)
  BY TypingBetween, Zenon
<1>2. /\ Valid(s) /\ s.eof = "no" /\ s.chunks \in Seq(Texts) /\ s.stdin \in Seq(Texts)
      /\ s.active \subseteq {"input", "write"} /\ s.reader = "live"
      /\ s.client_input = "set" /\ Gathered(s, h, cmds)
      /\ Watched(s) /\ IsConn(s) /\ ClientFields \subseteq DOMAIN s
      /\ Sound(s, Alphabet, Watchers)
  BY <1>1 DEF Typing, Between, Held, Valid, Watched
<1>3. PICK chunks, stdin \in Seq(Texts) : chunks = s.chunks /\ stdin = s.stdin
  BY <1>2
<1>4. PICK used \in Seq(Texts) :
        /\ h.typed = used \o (chunks \o stdin) /\ cmds = Commands(used)
        /\ used # <<>> => Last(used).kw = "chunk"
  BY <1>2, <1>3, Zenon DEF Gathered
<1>5. PICK all : all = Commands(h.typed) \o Unterminated(h.typed)
  OBVIOUS
<1>6. /\ h.typed # <<>> /\ Last(h.typed) = EndOfFile
      /\ chunks # <<>> => Last(chunks) \in Texts /\ Last(chunks).kw = "tail"
      /\ all = IF chunks = <<>> THEN cmds
               ELSE IF Last(chunks).arg = 0 THEN cmds
               ELSE Append(cmds, Last(chunks))
  <2>1. \A i \in 1..Len(h.typed) : h.typed[i] = EndOfFile => i = Len(h.typed)
    BY DEF ValidHistory
  <2>2. /\ \A i \in 1..Len(chunks) : chunks[i].kw # "chunk"
        /\ stdin # <<>> /\ stdin[1] = EndOfFile
    BY <1>3
  <2>3. PICK w : w = h.typed
    OBVIOUS
  <2>4. w = used \o (chunks \o stdin)
        /\ \A i \in 1..Len(w) : w[i] = EndOfFile => i = Len(w)
    BY <1>4, <2>1, <2>3
  <2>5. EndsAs(w, used, chunks)
    BY <1>4, <2>2, <2>4, InputEnds
  <2> QED BY <1>4, <1>5, <2>3, <2>5, Zenon DEF EndsAs
<1>7. Complete(h, all)
  BY <1>5, <1>6 DEF Complete
<1>8. PICK t : t = [s EXCEPT !.eof = "yes"]
  OBVIOUS
<1>9. /\ Only(s, t, {"eof"}) /\ t.eof = "yes" /\ t.active = s.active
      /\ t.pending = s.pending /\ t.chunks = s.chunks /\ t.stdin = s.stdin
      /\ t.reader = s.reader /\ t.client_input = s.client_input /\ IsConn(t)
  <2>1. Only(s, t, {"eof"}) /\ t.eof = "yes"
    BY <1>2, <1>8 DEF Only, ClientFields
  <2> QED BY <1>2, <2>1 DEF Only, ClientFields, IsConn, TlsFields
<1>10. Watched(t) /\ Sound(t, Alphabet, Watchers)
  <2>1. Watched(t)
    BY <1>2, <1>9 DEF Watched
  <2>2. {"eof"} \cap SoundFields = {}
    BY DEF SoundFields
  <2> QED BY <1>2, <1>9, <2>1, <2>2, SoundKept
<1>11. Between(t, h, cmds, all)
  <2>1. {"eof"} \subseteq OwnFields
    BY DEF OwnFields
  <2>2. Gathered(t, h, all)
    BY <1>7, <1>9 DEF Gathered
  <2>3. /\ t.active \subseteq {"input", "write"}
        /\ ("write" \in s.active => "write" \in t.active)
        /\ t.eof \in {"no", "yes"} /\ t.chunks \in Seq(Texts) /\ t.stdin \in Seq(Texts)
        /\ t.reader = "live" /\ t.client_input = "set"
    BY <1>2, <1>9
  <2> QED BY <1>1, <1>9, <1>10, <2>1, <2>2, <2>3, BetweenMoves
<1>12. CASE chunks = <<>>
  <2>1. PICK u : u = EndOfInput(t)
    OBVIOUS
  <2>2. r = Turn(u, "no")
    BY <1>3, <1>8, <1>12, <2>1 DEF AtEof
  <2>3. Between(t, h, cmds, cmds)
    BY <1>6, <1>11, <1>12
  <2>4. Asking(u, h)
    BY <1>9, <2>1, <2>3, EndsInput
  <2> QED BY <2>2, <2>4, TurnParts DEF Taking
<1>13. CASE chunks # <<>>
  <2>1. PICK p \in Texts : p = Last(chunks)
    BY <1>6, <1>13
  <2>2. PICK none \in Seq(Texts) : none = <<>>
    <3>1. <<>> \in Seq(Texts)
      OBVIOUS
    <3> QED BY <3>1, Zenon
  <2>3. PICK u : u = LeaveChunks(t, none)
    OBVIOUS
  <2>4. Valid(t)
    BY <1>11 DEF Between, Held
  <2>5. /\ Watched(u) /\ Sound(u, Alphabet, Watchers)
        /\ Only(t, u, {"active", "pending", "chunks"})
        /\ u.active = t.active \ {"input"} /\ u.chunks = none
        /\ u.reader = t.reader /\ u.client_input = t.client_input
        /\ u.eof = t.eof /\ u.stdin = t.stdin
    BY <2>3, <2>4, ChunksLeft
  <2>6. r = handle_input_chunk(u, p.arg)
    BY <1>3, <1>8, <1>13, <2>1, <2>2, <2>3, Zenon DEF AtEof, LeaveChunks
  <2>7. all = With(cmds, p)
    BY <1>6, <1>13, <2>1 DEF With
  <2>8. Gathered(u, h, With(cmds, p))
    BY <1>7, <1>9, <2>5, <2>7 DEF Gathered
  <2>9. Between(u, h, cmds, With(cmds, p))
    <3>1. {"active", "pending", "chunks"} \subseteq OwnFields
      BY DEF OwnFields
    <3>2. /\ u.active \subseteq {"input", "write"}
          /\ ("write" \in t.active => "write" \in u.active)
          /\ u.eof \in {"no", "yes"} /\ u.chunks \in Seq(Texts) /\ u.stdin \in Seq(Texts)
          /\ u.reader = "live" /\ u.client_input = "set"
      BY <1>2, <1>9, <2>5
    <3> QED BY <1>11, <2>5, <2>8, <3>1, <3>2, BetweenMoves, ZenonT(40)
  <2> QED BY <2>5, <2>6, <2>9, ChunkHandled
<1> QED BY <1>12, <1>13

\* What read(2) returns goes to the buffer.
Receive(s, k) ==
  [s EXCEPT !.chunks = @ \o SubSeq(s.stdin, 1, k), !.stdin = SubSeq(@, k + 1, Len(@))]

\* The client still waits for input then.
LEMMA PiecesArrive ==
  ASSUME NEW s, NEW h, Typing(s, h), NEW k \in 0..Len(s.stdin),
         NEW t, t = Receive(s, k)
  PROVE  Typing(t, h)
<1>1. PICK cmds \in Seq(Orders) : Between(s, h, cmds, cmds)
  BY TypingBetween, Zenon
<1>2. /\ Valid(s) /\ s.eof = "no" /\ s.chunks \in Seq(Texts) /\ s.stdin \in Seq(Texts)
      /\ s.active \subseteq {"input", "write"} /\ "input" \in s.active
      /\ s.reader = "live"
      /\ s.client_input = "set" /\ Gathered(s, h, cmds)
      /\ Watched(s) /\ IsConn(s) /\ ClientFields \subseteq DOMAIN s
      /\ Sound(s, Alphabet, Watchers)
  BY <1>1 DEF Typing, Between, Held, Valid, Watched
<1>3. PICK chunks, stdin \in Seq(Texts) : chunks = s.chunks /\ stdin = s.stdin
  BY <1>2
<1>4. PICK a, b \in Seq(Texts) :
        a = SubSeq(stdin, 1, k) /\ b = SubSeq(stdin, k + 1, Len(stdin))
  <2>1. k \in 0..Len(stdin)
    BY <1>3
  <2>2. SubSeq(stdin, 1, k) \in Seq(Texts) /\ SubSeq(stdin, k + 1, Len(stdin)) \in Seq(Texts)
    BY <2>1, CutParts
  <2> QED BY <2>2, Zenon
<1>5. PICK c \in Seq(Texts) : c = chunks \o a
  BY Joined
<1>6. c \o b = chunks \o stdin
  <2>1. k \in 0..Len(stdin)
    BY <1>3
  <2> QED BY <1>4, <1>5, <2>1, PiecesRead
<1>7. t = [s EXCEPT !.chunks = c, !.stdin = b]
  BY <1>3, <1>4, <1>5, Zenon DEF Receive
<1>8. /\ Only(s, t, {"chunks", "stdin"}) /\ t.chunks = c /\ t.stdin = b
  BY <1>2, <1>7 DEF Only, ClientFields
<1>9. /\ t.active = s.active /\ t.pending = s.pending /\ t.eof = s.eof
      /\ t.reader = s.reader /\ t.client_input = s.client_input /\ IsConn(t)
  BY <1>2, <1>8 DEF Only, ClientFields, IsConn, TlsFields
<1>10. Watched(t) /\ Sound(t, Alphabet, Watchers)
  <2>1. Watched(t)
    BY <1>2, <1>9 DEF Watched
  <2>2. {"chunks", "stdin"} \cap SoundFields = {}
    BY DEF SoundFields
  <2> QED BY <1>2, <1>8, <2>1, <2>2, SoundKept
<1>11. Gathered(t, h, cmds)
  <2>1. PICK used \in Seq(Texts) :
          /\ h.typed = used \o (chunks \o stdin) /\ cmds = Commands(used)
          /\ used # <<>> => Last(used).kw = "chunk"
    BY <1>2, <1>3, Zenon DEF Gathered
  <2>2. h.typed = used \o (t.chunks \o t.stdin)
    BY <1>6, <1>8, <2>1, Zenon
  <2> QED BY <1>2, <1>9, <2>1, <2>2, Zenon DEF Gathered
<1>12. Between(t, h, cmds, cmds)
  <2>1. {"chunks", "stdin"} \subseteq OwnFields
    BY DEF OwnFields
  <2>2. /\ t.active \subseteq {"input", "write"}
        /\ ("write" \in s.active => "write" \in t.active)
        /\ t.eof \in {"no", "yes"} /\ t.chunks \in Seq(Texts) /\ t.stdin \in Seq(Texts)
        /\ t.reader = "live" /\ t.client_input = "set"
    BY <1>2, <1>8, <1>9
  <2> QED BY <1>1, <1>8, <1>10, <1>11, <2>1, <2>2, BetweenMoves, ZenonT(40)
<1> QED BY <1>2, <1>9, <1>12, BetweenTyping

\* One turn of the loop.
LEMMA TurnTaken ==
  ASSUME NEW r, NEW h, ValidHistory(h), Taking(r, h)
  PROVE  Taking(InputTurn(r), h)
<1>1. PICK s : s = r.s
  OBVIOUS
<1>2. PICK n : n = SelectInSeq(s.chunks, LAMBDA p : p.kw = "chunk")
  OBVIOUS
<1>3. PICK k : k = CHOOSE i \in 0..InputSize : Returned(s.stdin, i)
  OBVIOUS
<1>4. PICK t : t = InputTurn(r)
  OBVIOUS
<1>5. t = CASE r.go = "no" -> r
            [] r.go = "yes" /\ n > 0 ->
                 handle_input_chunk(
                   [ev_io_stop(s, "input") EXCEPT !.chunks = SubSeq(@, n + 1, Len(@))],
                   s.chunks[n].arg)
            [] r.go = "yes" /\ n = 0 /\ s.stdin = <<>> -> Turn(s, "no")
            [] r.go = "yes" /\ n = 0 /\ s.stdin # <<>> /\ k = 0 -> AtEof(s)
            [] r.go = "yes" /\ n = 0 /\ s.stdin # <<>> /\ k > 0 ->
                 [r EXCEPT !.s.chunks = @ \o SubSeq(s.stdin, 1, k),
                           !.s.stdin = SubSeq(@, k + 1, Len(@))]
  BY <1>1, <1>2, <1>3, <1>4, Zenon DEF InputTurn, Returned
<1>6. CASE r.go = "no"
  <2>1. t = r
    BY <1>5, <1>6, Zenon
  <2> QED BY <1>4, <2>1
<1>7. CASE r.go = "yes"
  <2>1. Typing(s, h) /\ r = Turn(s, "yes")
    BY <1>1, <1>7 DEF Taking
  <2>2. s.chunks \in Seq(Texts) /\ s.stdin \in Seq(Texts) /\ "chunks" \in DOMAIN s
        /\ "stdin" \in DOMAIN s
    BY <2>1 DEF Typing, Held, Valid, ClientFields
  <2>3. /\ n \in 0..Len(s.chunks)
        /\ n > 0 => /\ s.chunks[n].kw = "chunk"
                    /\ \A i \in 1..(n - 1) : s.chunks[i].kw # "chunk"
        /\ n = 0 => \A i \in 1..Len(s.chunks) : s.chunks[i].kw # "chunk"
    BY <1>2, <2>2, FirstChunk
  <2>4. r.go # "no"
    BY <1>7
  <2>5. CASE n > 0
    <3>1. n # 0 /\ n \in 1..Len(s.chunks)
      BY <2>2, <2>3, <2>5
    <3>2. t = handle_input_chunk(
                [ev_io_stop(s, "input") EXCEPT !.chunks = SubSeq(@, n + 1, Len(@))],
                s.chunks[n].arg)
      BY <1>5, <1>7, <2>4, <2>5, <3>1, Zenon
    <3> QED BY <1>4, <2>1, <2>3, <2>5, <3>1, <3>2, TakesChunk
  <2>6. CASE n = 0 /\ s.stdin = <<>>
    <3>1. ~(n > 0)
      BY <2>6
    <3>2. t = Turn(s, "no")
      BY <1>5, <1>7, <2>4, <2>6, <3>1, Zenon
    <3> QED BY <1>4, <2>1, <3>2, TurnParts DEF Taking
  <2>7. CASE n = 0 /\ s.stdin # <<>>
    <3>1. ~(n > 0)
      BY <2>7
    <3>2. k \in 0..Len(s.stdin) /\ (k = 0 => s.stdin[1] = EndOfFile)
      BY <1>3, <2>2, <2>7, HowMuch
    <3>3. CASE k = 0
      <4>1. t = AtEof(s)
        <5>1. ~(k > 0)
          BY <3>3
        <5> QED BY <1>5, <1>7, <2>4, <2>7, <3>1, <3>3, <5>1, Zenon
      <4> QED BY <1>4, <2>1, <2>3, <2>7, <3>2, <3>3, <4>1, FileEnds
    <3>4. CASE k # 0
      <4>1. k > 0
        BY <2>2, <3>2, <3>4
      <4>2. t = [r EXCEPT !.s.chunks = @ \o SubSeq(s.stdin, 1, k),
                          !.s.stdin = SubSeq(@, k + 1, Len(@))]
        BY <1>5, <1>7, <2>4, <2>7, <3>1, <3>4, <4>1, Zenon
      <4>3. PICK u : u = Receive(s, k)
        OBVIOUS
      <4>4. t = Turn(u, "yes")
        <5>1. r = [s |-> s, go |-> "yes"]
          BY <2>1 DEF Turn
        <5> QED BY <2>2, <4>2, <4>3, <5>1 DEF Turn, Receive
      <4>5. Typing(u, h)
        BY <2>1, <3>2, <4>3, PiecesArrive
      <4> QED BY <1>4, <4>4, <4>5, TurnParts DEF Taking
    <3> QED BY <3>3, <3>4
  <2> QED BY <2>2, <2>3, <2>5, <2>6, <2>7
<1> QED BY <1>6, <1>7 DEF Taking

\* The bound of the loop of read_cb.
Turns(s) == 2 * (Len(s.stdin) + Len(s.chunks)) + 2

\* read_cb of input.c: what holds before the loop and of each turn holds after it.
LEMMA InputLoop ==
  ASSUME NEW s, NEW h, NEW n \in Nat, n = Turns(s), NEW a,
         a = Turn(s, "yes"), Taking(a, h),
         \A r : Taking(r, h) => Taking(InputTurn(r), h)
  PROVE  \E r : Taking(r, h) /\ input_read_cb(s) = r.s
<1> DEFINE Trace(g, m) ==
             g = [k \in 0..m |-> IF k = 0 THEN a ELSE InputTurn(g[k - 1])]
           E == {m \in Nat : \E g : Trace(g, m)}
<1>1. 0 \in E
  <2> DEFINE g == [k \in 0..0 |-> a]
  <2>1. Trace(g, 0)
    OBVIOUS
  <2> QED BY <2>1
<1>2. ASSUME NEW m \in Nat, m \in E PROVE m + 1 \in E
  <2>1. PICK g : Trace(g, m)
    BY <1>2
  <2> DEFINE f == [k \in 0..(m + 1) |-> IF k <= m THEN g[k] ELSE InputTurn(g[m])]
  <2>2. \A k \in 0..m : g[k] = IF k = 0 THEN a ELSE InputTurn(g[k - 1])
    BY <2>1
  <2>3. ASSUME NEW k \in 0..(m + 1)
        PROVE  f[k] = IF k = 0 THEN a ELSE InputTurn(f[k - 1])
    <3>1. CASE k = 0
      BY <2>2, <3>1
    <3>2. CASE k \in 1..m
      <4>1. f[k] = g[k] /\ f[k - 1] = g[k - 1] /\ k # 0
        BY <3>2
      <4> QED BY <2>2, <3>2, <4>1
    <3>3. CASE k = m + 1
      <4>1. f[k] = InputTurn(g[m]) /\ f[k - 1] = g[m] /\ k # 0
        BY <3>3
      <4> QED BY <4>1
    <3> QED BY <3>1, <3>2, <3>3
  <2>4. f = [k \in 0..(m + 1) |-> f[k]]
    OBVIOUS
  <2> HIDE DEF f
  <2>5. Trace(f, m + 1)
    BY <2>3, <2>4
  <2> QED BY <2>5
<1>3. Nat \subseteq E
  <2> HIDE DEF E
  <2> QED BY <1>1, <1>2, SetInduction
<1> DEFINE turn == CHOOSE g : Trace(g, n)
<1>4. Trace(turn, n)
  <2>1. \E g : Trace(g, n)
    BY <1>3
  <2> HIDE DEF Trace
  <2> QED BY <2>1
<1>5. input_read_cb(s) = turn[n].s
  BY Zenon DEF input_read_cb, Turns
<1> HIDE DEF turn
<1>6. \A k \in 0..n : turn[k] = IF k = 0 THEN a ELSE InputTurn(turn[k - 1])
  BY <1>4
<1> DEFINE T == {k \in Nat : k <= n => Taking(turn[k], h)}
<1>7. 0 \in T
  BY <1>6
<1>8. ASSUME NEW k \in Nat, k \in T PROVE k + 1 \in T
  <2> SUFFICES ASSUME k + 1 <= n PROVE Taking(turn[k + 1], h)
    OBVIOUS
  <2>1. turn[k + 1] = InputTurn(turn[k])
    <3>1. k + 1 \in 0..n /\ k + 1 # 0 /\ (k + 1) - 1 = k
      OBVIOUS
    <3> QED BY <1>6, <3>1
  <2>2. Taking(turn[k], h)
    BY <1>8
  <2> QED BY <2>1, <2>2
<1>9. Nat \subseteq T
  <2> HIDE DEF T
  <2> QED BY <1>7, <1>8, SetInduction
<1>10. Taking(turn[n], h)
  BY <1>9
<1> QED BY <1>5, <1>10

\* read_cb of input.c.
LEMMA InputCallback ==
  ASSUME NEW s, NEW h, ValidHistory(h), Typing(s, h), NEW t, t = input_read_cb(s)
  PROVE  Typing(t, h) \/ Asking(t, h) \/ Ended(t, h)
<1>1. PICK a : a = Turn(s, "yes")
  OBVIOUS
<1>2. Taking(a, h)
  BY <1>1, TurnParts DEF Taking
<1>3. PICK n \in Nat : n = Turns(s)
  <2>1. s.stdin \in Seq(Texts) /\ s.chunks \in Seq(Texts)
    BY DEF Typing, Held, Valid
  <2>2. PICK i, j \in Nat : i = Len(s.stdin) /\ j = Len(s.chunks)
    BY <2>1, LenProperties
  <2>3. 2 * (i + j) + 2 \in Nat
    BY SMT
  <2> QED BY <2>2, <2>3, Zenon DEF Turns
<1>4. \A r : Taking(r, h) => Taking(InputTurn(r), h)
  BY TurnTaken
<1>5. PICK r : Taking(r, h) /\ input_read_cb(s) = r.s
  BY <1>1, <1>2, <1>3, <1>4, InputLoop, Zenon
<1> QED BY <1>5, Zenon DEF Taking

\* input_read_chunk: the next command is read, or the input has ended.
LEMMA NextChunk ==
  ASSUME NEW s, NEW h, ValidHistory(h), NEW cmds \in Seq(Orders),
         Between(s, h, cmds, cmds), NEW t, t = input_read_chunk(s)
  PROVE  Typing(t, h) \/ Asking(t, h) \/ Ended(t, h)
<1>1. s.reader = "live" /\ s.eof \in {"no", "yes"}
  BY DEF Between, Held, Valid
<1>2. CASE s.eof = "no"
  <2>1. PICK a : a = ev_io_start(s, "input", "r")
    OBVIOUS
  <2>2. t = input_read_cb(a)
    BY <1>1, <1>2, <2>1 DEF input_read_chunk
  <2>3. Typing(a, h)
    BY <1>2, <2>1, WaitsForInput
  <2> QED BY <2>2, <2>3, InputCallback
<1>3. CASE s.eof = "yes"
  <2>1. t = EndOfInput(s)
    BY <1>1, <1>3 DEF input_read_chunk
  <2> QED BY <1>3, <2>1, EndsInput
<1> QED BY <1>1, <1>2, <1>3

-----------------------------------------------------------------------------
(* The end of the session.                                                 *)

StopFields ==
  {"client", "reader", "active", "pending", "events", "error_handler",
   "timeout_handler", "drain_handler"}

\* client->input points to the reader as long as that is live.
Pointed(s) ==
  \/ s.client_input = "set" /\ s.reader = "live"
  \/ s.client_input = "NULL" /\ s.reader \in {"none", "freed"}

\* client_stop.
LEMMA ClientStops ==
  ASSUME NEW s, NEW h, Held(s, h), Pointed(s), s.active \subseteq {"write"},
         NEW t, t = client_stop(s)
  PROVE  /\ Watched(t) /\ Sound(t, Alphabet, Watchers) /\ Only(s, t, StopFields)
         /\ t.client = "freed" /\ t.reader \in {"none", "freed"}
         /\ t.active = IF "write" \in s.active THEN {"write"} ELSE {"shutdown"}
         /\ t.drain_handler = "start_shutdown"
<1>1. /\ Valid(s) /\ Watched(s) /\ Sound(s, Alphabet, Watchers) /\ IsConn(s)
      /\ ClientFields \subseteq DOMAIN s /\ s.client = "live"
  BY HeldValid DEF Held
<1>2. PICK a : a = IF s.client_input = "set" THEN input_stop(s) ELSE s
  OBVIOUS
<1>3. /\ Watched(a) /\ Sound(a, Alphabet, Watchers)
      /\ Only(s, a, {"active", "pending", "reader"})
      /\ a.active = s.active \ {"input"} /\ a.reader \in {"none", "freed"}
  <2>1. CASE s.client_input = "set"
    <3>1. a = input_stop(s) /\ s.reader = "live"
      BY <1>2, <2>1 DEF Pointed
    <3> QED BY <1>1, <3>1, InputStops
  <2>2. CASE s.client_input # "set"
    <3>1. a = s /\ s.reader \in {"none", "freed"}
      BY <1>2, <2>2 DEF Pointed
    <3>2. Only(s, a, {"active", "pending", "reader"})
      BY <3>1, OnlyRefl
    <3> QED BY <1>1, <3>1, <3>2
  <2> QED BY <2>1, <2>2
<1>4. PICK b : b = tls_shutdown(a)
  OBVIOUS
<1>5. /\ Watched(b) /\ Sound(b, Alphabet, Watchers) /\ Only(a, b, ShutdownFields)
      /\ b.active = IF "write" \in a.active THEN a.active
                    ELSE a.active \cup {"shutdown"}
      /\ b.drain_handler = "start_shutdown"
  BY <1>3, <1>4, ShutdownOnly
<1>6. t = [b EXCEPT !.client = "freed"]
  BY <1>1, <1>2, <1>4 DEF client_stop
<1>7. /\ "client" \in DOMAIN b /\ b.reader = a.reader
  BY <1>1, <1>3, <1>5 DEF Only, ClientFields, ShutdownFields
<1>8. Only(b, t, {"client"}) /\ t.client = "freed"
  BY <1>6, <1>7 DEF Only
<1>9. /\ t.active = b.active /\ t.pending = b.pending /\ t.reader = b.reader
      /\ t.drain_handler = b.drain_handler /\ IsConn(t)
  <2>1. "reader" \in DOMAIN b
    BY <1>1, <1>3, <1>5 DEF Only, ClientFields
  <2> QED BY <1>5, <1>8, <2>1 DEF Only, Watched, IsConn, TlsFields
<1>10. Only(s, t, StopFields)
  <2>1. Only(s, b, StopFields)
    BY <1>3, <1>5, OnlyTrans DEF StopFields, ShutdownFields
  <2> QED BY <1>8, <2>1, OnlyTrans DEF StopFields
<1>11. Watched(t)
  BY <1>5, <1>9 DEF Watched
<1>12. Sound(t, Alphabet, Watchers)
  <2>1. {"client"} \cap SoundFields = {}
    BY DEF SoundFields
  <2> QED BY <1>5, <1>8, <2>1, SoundKept
<1>13. t.active = IF "write" \in s.active THEN {"write"} ELSE {"shutdown"}
  <2>1. CASE "write" \in s.active
    BY <1>3, <1>5, <1>9, <2>1
  <2>2. CASE "write" \notin s.active
    BY <1>3, <1>5, <1>9, <2>2
  <2> QED BY <2>1, <2>2
<1> QED BY <1>3, <1>5, <1>7, <1>8, <1>9, <1>10, <1>11, <1>12, <1>13

\* ... and the connection is shut down when all has been written.
LEMMA Closes ==
  ASSUME NEW s, NEW h, Held(s, h), Pointed(s), s.active \subseteq {"write"},
         Load(Sent(s, h)) <= Len(h.said) + 1,
         NEW a, a = client_stop(s),
         NEW t, Only(a, t, {"exit_code"}),
         t.exit_code \in {"SUCCESS", "FAILURE"},
         t.exit_code = "SUCCESS" => Success(s, h)
  PROVE  Closing(t, h)
<1>2. /\ Watched(a) /\ Sound(a, Alphabet, Watchers) /\ Only(s, a, StopFields)
      /\ a.client = "freed" /\ a.reader \in {"none", "freed"}
      /\ a.active = IF "write" \in s.active THEN {"write"} ELSE {"shutdown"}
      /\ a.drain_handler = "start_shutdown"
  BY ClientStops
<1>3. /\ Valid(s) /\ IsConn(s) /\ ClientFields \subseteq DOMAIN s
  BY HeldValid
<1>4. Only(a, t, {"exit_code"}) /\ t.exit_code \in {"SUCCESS", "FAILURE"}
  OBVIOUS
<1>5. /\ t.client = "freed" /\ t.reader \in {"none", "freed"}
      /\ t.active = a.active /\ t.pending = a.pending
      /\ t.drain_handler = "start_shutdown" /\ IsConn(t)
  <2>1. "client" \in DOMAIN a /\ "reader" \in DOMAIN a
    BY <1>2, <1>3 DEF Only, ClientFields
  <2> QED BY <1>2, <1>4, <2>1 DEF Only, Watched, IsConn, TlsFields
<1>6. Only(s, t, StopFields \cup {"exit_code"})
  <2>1. StopFields \subseteq StopFields \cup {"exit_code"}
        /\ {"exit_code"} \subseteq StopFields \cup {"exit_code"}
    OBVIOUS
  <2> QED BY <1>2, <1>4, <2>1, OnlyTrans
<1>7. /\ t.tls = s.tls /\ t.process = s.process /\ t.faults = s.faults
      /\ t.client_input = s.client_input /\ t.chunks = s.chunks
      /\ t.eof = s.eof /\ t.stdin = s.stdin
      /\ t.hs = s.hs /\ t.sent_close = s.sent_close /\ t.out = s.out
      /\ t.output = s.output /\ t.output_buffer = s.output_buffer
      /\ ClientFields \subseteq DOMAIN t
  BY <1>3, <1>6 DEF Only, StopFields, ClientFields, IsConn, TlsFields
<1>8. Watched(t) /\ Sound(t, Alphabet, Watchers)
  <2>1. Watched(t)
    BY <1>2, <1>5 DEF Watched
  <2>2. {"exit_code"} \cap SoundFields = {}
    BY DEF SoundFields
  <2> QED BY <1>2, <1>4, <2>1, <2>2, SoundKept
<1>9. t.active \in {{"write"}, {"shutdown"}} /\ ("write" \in t.active <=> "write" \in s.active)
  BY <1>2, <1>5
<1>10. Valid(t)
  <2>1. t.active \subseteq Watchers
    BY <1>9 DEF Watchers, IoWatchers
  <2>2. t.client \in {"none", "live", "freed"} /\ t.reader \in {"none", "live", "freed"}
    BY <1>5
  <2> QED BY <1>3, <1>4, <1>7, <1>8, <2>1, <2>2 DEF Valid
<1>11. Sent(t, h) = Sent(s, h)
  BY <1>7, Zenon DEF Sent
<1>12. Success(s, h) => Success(t, h)
  BY <1>7, <1>11, Zenon DEF Success
<1>13. Stopped(t, h)
  <2>1. t.reader # "live" /\ "input" \notin t.active
    BY <1>5, <1>9
  <2> QED BY <1>4, <1>5, <1>10, <1>11, <1>12, <2>1 DEF Stopped
<1>14. Flushing(t)
  BY <1>7, <1>9 DEF Flushing, Drained, Held
<1> QED BY <1>5, <1>7, <1>9, <1>13, <1>14 DEF Closing, Held, Clean

\* The exit status is set after that.
LEMMA Status ==
  ASSUME NEW s, NEW h, Held(s, h), Pointed(s), s.active \subseteq {"write"},
         NEW a, a = client_stop(s), NEW t, t = [a EXCEPT !.exit_code = "FAILURE"]
  PROVE  Only(a, t, {"exit_code"}) /\ t.exit_code = "FAILURE"
<1>1. Only(s, a, StopFields) /\ ClientFields \subseteq DOMAIN s
  BY ClientStops, HeldValid
<1>2. "exit_code" \in DOMAIN a
  BY <1>1 DEF Only, ClientFields
<1> QED BY <1>2 DEF Only

\* server_is_grumpy.
LEMMA Grumbles ==
  ASSUME NEW s, NEW h, Held(s, h), Pointed(s), s.active \subseteq {"write"},
         Load(Sent(s, h)) <= Len(h.said) + 1, NEW t, t = server_is_grumpy(s)
  PROVE  Closing(t, h)
<1>1. PICK a : a = client_stop(s)
  OBVIOUS
<1>2. t = [a EXCEPT !.exit_code = "FAILURE"]
  BY <1>1 DEF server_is_grumpy
<1>3. Only(a, t, {"exit_code"}) /\ t.exit_code = "FAILURE"
  BY <1>1, <1>2, Status
<1> QED BY <1>1, <1>3, Closes

\* bail: the server is told, although it may be in the middle of a line.
LEMMA Bails ==
  ASSUME NEW s, NEW h, ValidHistory(h), Held(s, h), Pointed(s),
         s.active \subseteq {"write"},
         Load(Sent(s, h)) <= Len(h.said) + 1, NEW t, t = bail(s)
  PROVE  Closing(t, h)
<1>1. PICK p, k \in Alphabet : p = Part /\ k = Piece("BAIL", 0)
  BY OwnPieces
<1>2. PICK d \in Seq(Alphabet) : d = <<p, k>>
  <2>1. <<p, k>> \in Seq(Alphabet)
    OBVIOUS
  <2> QED BY <2>1, Zenon
<1>3. PICK a : a = write_buffered(s, d)
  OBVIOUS
<1>4. /\ Held(a, h) /\ a.active = s.active \cup {"write"}
      /\ Only(s, a, {"output", "output_buffer", "active", "pending", "events"})
      /\ Sent(a, h) = Cat(Sent(s, h), d)
  BY <1>3, Queues
<1>5. Pointed(a)
  <2>1. a.client_input = s.client_input /\ a.reader = s.reader
    BY <1>4, HeldValid DEF Only, ClientFields
  <2> QED BY <2>1 DEF Pointed
<1>6. Load(Sent(a, h)) <= Len(h.said) + 1
  <2>1. PICK q \in Seq(Alphabet) : q = Sent(s, h)
    BY SentType DEF Held
  <2>2. PICK f \in Seq(Alphabet) : f = Append(q, p)
    BY OneMore
  <2>3. PICK g \in Seq(Alphabet) : g = Append(f, k)
    BY OneMore
  <2>4. Load(f) <= Load(q)
    <3>1. p.kw # "data" /\ ~IsLine(p)
      BY <1>1 DEF Part, Piece, IsLine
    <3> QED BY <2>2, <3>1, LoadAppend
  <2>5. Load(g) <= Load(f)
    <3>1. k.kw # "data" /\ k.kw = "BAIL"
      BY <1>1 DEF Piece
    <3> QED BY <2>3, <3>1, LoadAppend
  <2>6. g = Cat(q, d)
    <3>1. PICK u, w \in Seq(Alphabet) : u = <<p>> /\ w = <<k>>
      BY JustOne
    <3>2. Append(u, k) = d /\ Append(u, k) = u \o w
      BY <1>2, <3>1, OneMore, Tuples
    <3>3. f = q \o u /\ g = f \o w
      <4>1. Append(q, p) = q \o <<p>>
        BY OneMore
      <4>2. Append(f, k) = f \o <<k>>
        BY OneMore
      <4> QED BY <2>2, <2>3, <3>1, <4>1, <4>2, Zenon
    <3>4. Cat(Cat(q, u), w) = Cat(q, Cat(u, w))
      BY CatAssoc
    <3> QED BY <3>2, <3>3, <3>4, Zenon DEF Cat
  <2>7. Load(q) \in Nat /\ Load(f) \in Nat /\ Load(g) \in Nat
    BY LoadParts
  <2>8. PICK l \in Nat : l = Len(h.said)
    BY LenProperties DEF ValidHistory
  <2> QED BY <1>4, <2>1, <2>4, <2>5, <2>6, <2>7, <2>8
<1>7. a.active \subseteq {"write"}
  BY <1>4
<1>8. PICK b : b = client_stop(a)
  OBVIOUS
<1>9. t = [b EXCEPT !.exit_code = "FAILURE"]
  BY <1>1, <1>2, <1>3, <1>8 DEF bail
<1>10. Only(b, t, {"exit_code"}) /\ t.exit_code = "FAILURE"
  BY <1>4, <1>5, <1>7, <1>8, <1>9, Status
<1> QED BY <1>4, <1>5, <1>6, <1>7, <1>8, <1>10, Closes

-----------------------------------------------------------------------------
(* The handlers of the server's responses.                                 *)

\* A handler is called when the line it waited for has been read.
Called(s, h, p) ==
  /\ Held(s, h) /\ s.active \subseteq {"write"} /\ Stage(s, h, <<p>>)
  /\ p \in Responses

\* What a handler may do at any stage.
LEMMA CalledParts ==
  ASSUME NEW s, NEW h, ValidHistory(h), NEW p, Called(s, h, p)
  PROVE  /\ Held(s, h) /\ Pointed(s) /\ s.active \subseteq {"write"}
         /\ Load(Sent(s, h)) <= Len(h.said) + 1 /\ Dereference(s) = s
         /\ <<p>> \in Seq(Heard)
<1>1. PICK x \in Seq(Heard) : x = <<p>>
  <2>1. p \in Heard
    BY DEF Called, Heard
  <2> QED BY <2>1, JustOne
<1>2. Held(s, h) /\ Stage(s, h, x) /\ s.active \subseteq {"write"}
  BY <1>1, Zenon DEF Called
<1>3. Mortal(s, h)
  BY <1>2, StageMortal
<1>4. Pointed(s)
  BY <1>2 DEF Stage, Greeting, Announcing, Submitting, Leaving, Pointed
<1>5. Dereference(s) = s
  BY <1>2 DEF Held, Dereference
<1> QED BY <1>1, <1>2, <1>3, <1>4, <1>5, Zenon DEF Mortal

\* Any other response than the one that was asked for.
LEMMA Otherwises ==
  ASSUME NEW s, NEW h, ValidHistory(h), NEW p, Called(s, h, p),
         NEW t, t = Otherwise(s, p) \/ t = bail(s)
  PROVE  Closing(t, h)
<1>1. /\ Held(s, h) /\ Pointed(s) /\ s.active \subseteq {"write"}
      /\ Load(Sent(s, h)) <= Len(h.said) + 1
  BY CalledParts
<1>2. t = server_is_grumpy(s) \/ t = bail(s)
  BY Zenon DEF Otherwise
<1> QED BY <1>1, <1>2, Grumbles, Bails

\* The response OKAY.
LEMMA Okay ==
  ASSUME NEW p \in Responses, p.kw = "OKAY", NEW n \in Nat
  PROVE  /\ p = Piece("OKAY", 0) /\ Acks(n) \o <<p>> = Acks(n + 1)
         /\ p.kw \notin {"FAIL", "BAIL"}
<1>1. p = Piece("OKAY", 0)
  BY ClientAssumption
<1>2. PICK q \in Seq(Heard) : q = Acks(n)
  BY AcksHeard
<1>3. PICK k \in Heard : k = p
  BY DEF Heard
<1>4. Append(q, k) = q \o <<k>>
  BY OneMore
<1>5. Append(Acks(n), Piece("OKAY", 0)) = Acks(n + 1)
  BY AcksAppend
<1>6. p.kw \notin {"FAIL", "BAIL"}
  OBVIOUS
<1> QED BY <1>1, <1>2, <1>3, <1>4, <1>5, <1>6, Zenon

\* What input_start sets.
StartFields == {"client_input", "reader", "chunks", "eof"}

\* handle_tls_moin_response: the first chunk is read.
LEMMA MoinResponse ==
  ASSUME NEW s, NEW h, ValidHistory(h), NEW p, Called(s, h, p), Greeting(s, h, <<p>>),
         NEW t, t = handle_tls_moin_response(s, p)
  PROVE  Typing(t, h) \/ Asking(t, h) \/ Closing(t, h) \/ Ended(t, h)
<1>1. Held(s, h) /\ Dereference(s) = s /\ s.active \subseteq {"write"}
  BY CalledParts
<1>2. CASE p.kw # "MOIN" \/ p.arg # 1
  <2>1. t = Otherwise(s, p) \/ t = bail(s)
    BY <1>2 DEF handle_tls_moin_response
  <2> QED BY <2>1, Otherwises
<1>3. CASE p.kw = "MOIN" /\ p.arg = 1
  <2>1. p = Piece("MOIN", 1)
    BY <1>3, ClientAssumption DEF Called
  <2>2. PICK a : a = input_start(s)
    OBVIOUS
  <2>3. t = input_read_chunk(a)
    BY <1>1, <1>3, <2>2 DEF handle_tls_moin_response
  <2>4. /\ Valid(s) /\ Watched(s) /\ Sound(s, Alphabet, Watchers) /\ IsConn(s)
        /\ ClientFields \subseteq DOMAIN s
    BY <1>1, HeldValid
  <2>5. /\ Only(s, a, StartFields)
        /\ a.client_input = "set" /\ a.reader = "live" /\ a.chunks = <<>>
        /\ a.eof = "no"
    BY <2>2, <2>4 DEF input_start, Only, ClientFields, StartFields
  <2>6. a.active = s.active /\ a.pending = s.pending /\ a.stdin = s.stdin /\ IsConn(a)
    BY <2>4, <2>5 DEF Only, ClientFields, StartFields, IsConn, TlsFields
  <2>7. Watched(a) /\ Sound(a, Alphabet, Watchers)
    <3>1. Watched(a)
      BY <2>4, <2>6 DEF Watched
    <3>2. StartFields \cap SoundFields = {}
      BY DEF SoundFields, StartFields
    <3> QED BY <2>4, <2>5, <3>1, <3>2, SoundKept
  <2>8. /\ Held(a, h) /\ Sent(a, h) = Sent(s, h)
        /\ \A x : Inbox(s, h, x) => Inbox(a, h, x)
    <3>1. StartFields \subseteq OwnFields
      BY DEF OwnFields, StartFields
    <3>2. /\ a.active \subseteq Watchers /\ ("write" \in s.active => "write" \in a.active)
          /\ a.reader \in {"none", "live", "freed"} /\ a.client_input \in {"NULL", "set"}
          /\ a.eof \in {"no", "yes"} /\ a.stdin \in Seq(Texts)
      BY <2>4, <2>5, <2>6 DEF Valid
    <3>3. a.chunks \in Seq(Texts)
      BY <2>5
    <3> QED BY <1>1, <2>5, <2>7, <3>1, <3>2, <3>3, HeldMoves
  <2>9. PICK cmds \in Seq(Orders) : cmds = <<>>
    <3>1. <<>> \in Seq(Orders)
      OBVIOUS
    <3> QED BY <3>1, Zenon
  <2>10. /\ s.eof = "no" /\ s.chunks = <<>> /\ Gathered(s, h, cmds)
         /\ Sent(s, h) = Sofar(cmds) /\ Inbox(s, h, <<>> \o <<p>>)
    BY <2>9, Zenon DEF Greeting, Talk
  <2>11. Gathered(a, h, cmds)
    BY <2>5, <2>6, <2>10, Zenon DEF Gathered
  <2>12. <<>> \o <<p>> = Acks(2 * Len(cmds))
    <3>1. 2 * Len(cmds) = 0
      BY <2>9
    <3>2. PICK k \in Heard : k = p
      BY DEF Heard, Called
    <3>3. PICK q \in Seq(Heard) : q = <<k>>
      BY JustOne
    <3>4. <<>> \o q = q
      BY Assoc
    <3> QED BY <2>1, <3>1, <3>2, <3>3, <3>4, AcksNone, Zenon
  <2>13. Load(Sofar(cmds)) <= 2 * Len(cmds) + 1
    <3>1. 2 * Len(cmds) + 1 = 1
      BY <2>9
    <3> QED BY <2>9, <3>1, SofarEmpty, LoadHandshake
  <2>14. Between(a, h, cmds, cmds)
    <3>1. a.active \subseteq {"input", "write"}
      BY <1>1, <2>6
    <3> QED BY <2>5, <2>8, <2>10, <2>11, <2>12, <2>13, <3>1, Zenon DEF Between
  <2> QED BY <2>3, <2>14, NextChunk
<1> QED BY <1>2, <1>3

\* handle_tls_push_response: the command is sent.
LEMMA PushResponse ==
  ASSUME NEW s, NEW h, ValidHistory(h), NEW p, Called(s, h, p), Announcing(s, h, <<p>>),
         NEW t, t = handle_tls_push_response(s, p)
  PROVE  Asking(t, h) \/ Closing(t, h)
<1>1. Held(s, h) /\ Dereference(s) = s /\ s.active \subseteq {"write"} /\ Valid(s)
  BY CalledParts DEF Held
<1>2. CASE p.kw # "OKAY"
  <2>1. t = Otherwise(s, p)
    BY <1>2 DEF handle_tls_push_response
  <2> QED BY <2>1, Otherwises
<1>3. CASE p.kw = "OKAY"
  <2>1. PICK cmds \in Seq(Orders), c \in Orders :
          /\ s.command = parse_check_result(c.arg)
          /\ Talk(s, h, Append(cmds, c),
                  Append(Sofar(cmds), Piece("PUSH", Len(s.command))),
                  Acks(2 * Len(cmds)), <<p>>)
    BY Zenon DEF Announcing
  <2>2. PICK d \in Seq(Alphabet) :
          /\ d = s.command /\ Len(d) \in Sizes
          /\ \A i \in 1..Len(d) : d[i].kw = "data"
    BY <2>1, Parsed DEF Orders
  <2>3. PICK a : a = tls_write(s, d)
    OBVIOUS
  <2>4. t = tls_read_line(a, "handle_tls_command_response")
    BY <1>1, <1>3, <2>2, <2>3 DEF handle_tls_push_response
  <2>5. /\ Held(t, h) /\ t.active = s.active \cup {"read", "write"}
        /\ Only(s, t, AskFields) /\ t.read_handler = "handle_tls_command_response"
        /\ Sent(t, h) = Cat(Sent(s, h), d)
    <3>1. "read" \notin s.active
      BY <1>1
    <3> QED BY <1>1, <2>3, <2>4, <3>1, Asks
  <2>6. /\ t.reader = s.reader /\ t.client_input = s.client_input
        /\ \A x : Inbox(s, h, x) => Inbox(t, h, x)
        /\ \A all : Gathered(s, h, all) => Gathered(t, h, all)
    BY <1>1, <2>5, AskKept
  <2>7. PICK n \in Nat : n = 2 * Len(cmds)
    BY LenProperties
  <2>8. PICK q \in Seq(Alphabet) : q = Append(Sofar(cmds), Piece("PUSH", Len(d)))
    <3>1. PICK f \in Seq(Alphabet), k \in Alphabet : f = Sofar(cmds) /\ k = Piece("PUSH", Len(d))
      BY <2>2, SofarType, PushPiece
    <3> QED BY <3>1, OneMore
  <2>9. /\ Gathered(s, h, Append(cmds, c)) /\ Sent(s, h) = q
        /\ Inbox(s, h, Acks(n) \o <<p>>) /\ Load(q) <= Len(Acks(n)) + 1
    BY <2>1, <2>2, <2>7, <2>8, Zenon DEF Talk
  <2>10. Acks(n) \o <<p>> = Acks(n + 1) /\ Len(Acks(n)) = n + 1
         /\ Len(Acks(n + 1)) = n + 2
    <3>1. Acks(n) \o <<p>> = Acks(n + 1)
      BY <1>3, Okay DEF Called
    <3>2. n + 1 \in Nat
      OBVIOUS
    <3>3. Len(Acks(n)) = n + 1 /\ Len(Acks(n + 1)) = (n + 1) + 1
      BY <3>2, AcksHeard
    <3>4. (n + 1) + 1 = n + 2
      OBVIOUS
    <3> QED BY <3>1, <3>3, <3>4
  <2>11. Sofar(Append(cmds, c)) = Cat(q, d)
    BY <2>1, <2>2, <2>8, SofarAppend, Zenon DEF Cat
  <2>12. Load(Cat(q, d)) <= Len(Acks(n + 1)) + 1
    <3>1. PICK g \in Seq(Alphabet) : g = Cat(q, d)
      BY CatAssoc
    <3>2. Load(q \o d) <= Load(q) + 1
      BY <2>2, LoadData
    <3>3. g = q \o d
      BY <3>1, Zenon DEF Cat
    <3>4. Load(q) \in Nat /\ Load(g) \in Nat
      BY LoadParts
    <3> QED BY <2>9, <2>10, <3>1, <3>2, <3>3, <3>4
  <2>13. PICK x : x = <<>>
    OBVIOUS
  <2>14. Acks(n + 1) \o x = Acks(n + 1)
    <3>1. n + 1 \in Nat
      OBVIOUS
    <3>2. PICK e \in Seq(Heard) : e = Acks(n + 1)
      BY <3>1, AcksHeard
    <3> QED BY <2>13, <3>2, Assoc
  <2>15. Talk(t, h, Append(cmds, c), Sofar(Append(cmds, c)), Acks(n + 1), x)
    BY <2>5, <2>6, <2>9, <2>10, <2>11, <2>12, <2>14, Zenon DEF Talk
  <2>16. Submitting(t, h, x)
    <3>1. s.reader = "live" /\ s.client_input = "set"
      BY DEF Announcing
    <3> QED BY <2>5, <2>6, <2>7, <2>15, <3>1, Zenon DEF Submitting
  <2>17. t.active \subseteq {"read", "write"} /\ "read" \in t.active
    BY <1>1, <2>5
  <2> QED BY <2>5, <2>13, <2>16, <2>17, Zenon DEF Asking, Stage
<1> QED BY <1>2, <1>3

\* handle_tls_command_response: the next chunk is read.
LEMMA CommandResponse ==
  ASSUME NEW s, NEW h, ValidHistory(h), NEW p, Called(s, h, p), Submitting(s, h, <<p>>),
         NEW t, t = handle_tls_command_response(s, p)
  PROVE  Typing(t, h) \/ Asking(t, h) \/ Closing(t, h) \/ Ended(t, h)
<1>1. Held(s, h) /\ Dereference(s) = s /\ s.active \subseteq {"write"}
  BY CalledParts
<1>2. CASE p.kw # "OKAY"
  <2>1. t = Otherwise(s, p)
    BY <1>2 DEF handle_tls_command_response
  <2> QED BY <2>1, Otherwises
<1>3. CASE p.kw = "OKAY"
  <2>1. t = input_read_chunk(s)
    BY <1>1, <1>3 DEF handle_tls_command_response
  <2>2. PICK cmds \in Seq(Orders), c \in Orders :
          Talk(s, h, Append(cmds, c), Sofar(Append(cmds, c)),
               Acks(2 * Len(cmds) + 1), <<p>>)
    BY Zenon DEF Submitting
  <2>3. PICK all \in Seq(Orders) : all = Append(cmds, c) /\ Len(all) = Len(cmds) + 1
    BY OneMore
  <2>4. PICK n \in Nat : n = 2 * Len(cmds) + 1 /\ n + 1 = 2 * Len(all) /\ n + 2 = 2 * Len(all) + 1
    <3>1. PICK m \in Nat : m = Len(cmds)
      BY LenProperties
    <3> QED BY <2>3, <3>1
  <2>5. /\ Gathered(s, h, all) /\ Sent(s, h) = Sofar(all)
        /\ Inbox(s, h, Acks(n) \o <<p>>) /\ Load(Sofar(all)) <= Len(Acks(n)) + 1
    BY <2>2, <2>3, <2>4, Zenon DEF Talk
  <2>6. Acks(n) \o <<p>> = Acks(n + 1)
    BY <1>3, Okay DEF Called
  <2>7. Load(Sofar(all)) <= 2 * Len(all) + 1
    <3>1. Len(Acks(n)) = n + 1
      BY AcksHeard
    <3> QED BY <2>4, <2>5, <3>1
  <2>8. Between(s, h, all, all)
    <3>1. s.reader = "live" /\ s.client_input = "set" /\ s.active \subseteq {"input", "write"}
      BY <1>1 DEF Submitting
    <3> QED BY <1>1, <2>4, <2>5, <2>6, <2>7, <3>1, Zenon DEF Between
  <2> QED BY <2>1, <2>8, NextChunk
<1> QED BY <1>2, <1>3

\* handle_tls_quit_response: the session has succeeded.
LEMMA QuitResponse ==
  ASSUME NEW s, NEW h, ValidHistory(h), NEW p, Called(s, h, p), Leaving(s, h, <<p>>),
         NEW t, t = handle_tls_quit_response(s, p)
  PROVE  Closing(t, h)
<1>1. /\ Held(s, h) /\ Pointed(s) /\ s.active \subseteq {"write"}
      /\ Load(Sent(s, h)) <= Len(h.said) + 1 /\ <<p>> \in Seq(Heard)
  BY CalledParts
<1>2. CASE p.kw # "OKAY"
  <2>1. t = Otherwise(s, p)
    BY <1>2 DEF handle_tls_quit_response
  <2> QED BY <2>1, Otherwises
<1>3. CASE p.kw = "OKAY"
  <2>1. t = client_stop(s)
    BY <1>3 DEF handle_tls_quit_response
  <2>2. PICK cmds \in Seq(Orders) :
          Talk(s, h, cmds, Append(Sofar(cmds), Piece("QUIT", 0)),
               Acks(2 * Len(cmds)), <<p>>)
    BY Zenon DEF Leaving
  <2>3. PICK n \in Nat : n = 2 * Len(cmds)
    BY LenProperties
  <2>4. /\ Gathered(s, h, cmds) /\ Sent(s, h) = Append(Sofar(cmds), Piece("QUIT", 0))
        /\ Inbox(s, h, Acks(n) \o <<p>>)
    BY <2>2, <2>3, Zenon DEF Talk
  <2>5. Acks(n) \o <<p>> = Acks(n + 1)
    BY <1>3, Okay DEF Called
  <2>6. Complete(h, cmds)
    <3>1. s.eof = "yes"
      BY DEF Leaving
    <3> QED BY <2>4, <3>1 DEF Gathered
  <2>7. Sent(s, h) = Sofar(cmds) \o <<Piece("QUIT", 0)>>
    <3>1. PICK f \in Seq(Alphabet) : f = Sofar(cmds)
      BY SofarType
    <3>2. PICK k \in Alphabet : k = Piece("QUIT", 0)
      BY OwnPieces
    <3>3. Append(f, k) = f \o <<k>>
      BY OneMore
    <3> QED BY <2>4, <3>1, <3>2, <3>3, Zenon
  <2>8. IsPrefix(Acks(n + 1), h.said)
    <3>1. n + 1 \in Nat
      OBVIOUS
    <3>2. PICK e \in Seq(Heard) : e = Acks(n + 1)
      BY <3>1, AcksHeard
    <3>3. Inbox(s, h, e)
      BY <2>4, <2>5, <3>2
    <3>4. IsPrefix(e, h.said)
      BY <3>3, InboxHeard
    <3> QED BY <3>2, <3>4
  <2>9. s.sent_close = "no" /\ s.exit_code = "SUCCESS"
    BY <1>1 DEF Held
  <2>10. Success(s, h)
    BY <2>3, <2>6, <2>7, <2>8, <2>9, Zenon DEF Success
  <2>11. t.exit_code = "SUCCESS"
    <3>1. Only(s, t, StopFields)
      BY <1>1, <2>1, ClientStops
    <3> QED BY <1>1, <2>9, <3>1, HeldValid DEF Only, StopFields, ClientFields
  <2>12. Only(t, t, {"exit_code"})
    BY OnlyRefl
  <2> QED BY <1>1, <2>1, <2>10, <2>11, <2>12, Closes
<1> QED BY <1>2, <1>3

\* The handler that read_cb calls.
LEMMA Responds ==
  ASSUME NEW s, NEW h, ValidHistory(h), NEW p, Called(s, h, p),
         NEW line, line = <<p>>, NEW t, t = Call(s.read_handler, s, line)
  PROVE  Typing(t, h) \/ Asking(t, h) \/ Closing(t, h) \/ Ended(t, h)
<1>1. line[1] = p
  BY JustOne DEF Called
<1>2. Stage(s, h, <<p>>)
  BY DEF Called
<1>3. CASE Greeting(s, h, <<p>>)
  <2>1. t = handle_tls_moin_response(s, p)
    BY <1>1, <1>3 DEF Call, Greeting
  <2> QED BY <1>3, <2>1, MoinResponse
<1>4. CASE Announcing(s, h, <<p>>)
  <2>1. t = handle_tls_push_response(s, p)
    BY <1>1, <1>4 DEF Call, Announcing
  <2> QED BY <1>4, <2>1, PushResponse
<1>5. CASE Submitting(s, h, <<p>>)
  <2>1. t = handle_tls_command_response(s, p)
    BY <1>1, <1>5 DEF Call, Submitting
  <2> QED BY <1>5, <2>1, CommandResponse
<1>6. CASE Leaving(s, h, <<p>>)
  <2>1. t = handle_tls_quit_response(s, p)
    BY <1>1, <1>6 DEF Call, Leaving
  <2> QED BY <1>6, <2>1, QuitResponse
<1> QED BY <1>2, <1>3, <1>4, <1>5, <1>6, Zenon DEF Stage

-----------------------------------------------------------------------------
(* read_cb.                                                                *)

\* The next record holds a line, or it is the last.
LEMMA NextRecord ==
  ASSUME NEW q \in Seq(Responses), NEW box, box # <<>>,
         box \in {Records(q), Append(Records(q), <<CloseNotify>>)}
  PROVE  \/ Head(box) = <<CloseNotify>>
         \/ /\ q # <<>> /\ Head(box) = <<Head(q)>>
            /\ Tail(box) \in {Records(Tail(q)), Append(Records(Tail(q)), <<CloseNotify>>)}
<1>1. PICK R : R = Records(q)
  OBVIOUS
<1>2. /\ Len(R) = Len(q) /\ R \in Seq({<<q[i]>> : i \in 1..Len(q)})
      /\ \A i \in 1..Len(q) : R[i] = <<q[i]>>
  <2>1. PICK m \in Nat : m = Len(q)
    BY LenProperties
  <2>2. R = [i \in 1..m |-> <<q[i]>>]
    BY <1>1, <2>1 DEF Records
  <2>3. PICK S : S = {<<q[i]>> : i \in 1..m}
    OBVIOUS
  <2>4. R \in [1..m -> S] /\ \A i \in 1..m : R[i] = <<q[i]>>
    BY <2>2, <2>3
  <2>5. R \in Seq(S) /\ Len(R) = m
    BY <2>4
  <2> QED BY <2>1, <2>3, <2>4, <2>5
<1>3. CASE q = <<>>
  <2>1. R = <<>>
    BY <1>2, <1>3
  <2>2. box = <<<<CloseNotify>>>>
    BY <1>1, <2>1
  <2> QED BY <2>2
<1>4. CASE q # <<>>
  <2>1. PICK n \in Nat : n + 1 = Len(q)
    <3>1. Len(q) \in Nat /\ Len(q) # 0
      BY <1>4
    <3>2. Len(q) - 1 \in Nat /\ (Len(q) - 1) + 1 = Len(q)
      BY <3>1
    <3> QED BY <3>2
  <2>2. PICK T : T = Tail(q)
    OBVIOUS
  <2>3. T \in Seq(Responses) /\ Len(T) = n /\ \A i \in 1..n : T[i] = q[i + 1]
    BY <1>4, <2>1, <2>2
  <2>4. Records(T) = Tail(R) /\ Head(R) = <<Head(q)>> /\ R # <<>>
    <3>1. PICK S : R \in Seq(S) /\ Len(R) = n + 1
      BY <1>2, <2>1
    <3>6. PICK Q \in Seq(S) : Q = Tail(R) /\ Len(Q) = n /\ \A i \in 1..n : Q[i] = R[i + 1]
      <4>1. R # <<>> /\ Len(R) - 1 = n
        BY <3>1
      <4>2. /\ Tail(R) \in Seq(S) /\ Len(Tail(R)) = n
            /\ \A i \in 1..Len(Tail(R)) : Tail(R)[i] = R[i + 1]
        BY <3>1, <4>1, HeadTailProperties, Zenon
      <4> QED BY <4>2, Zenon
    <3>2. Records(T) = [i \in 1..n |-> <<q[i + 1]>>]
      BY <2>3 DEF Records
    <3>3. Tail(R) = [i \in 1..n |-> <<q[i + 1]>>]
      <4>1. \A i \in 1..n : Q[i] = <<q[i + 1]>>
        BY <1>2, <2>1, <3>6
      <4>2. Q = [i \in 1..n |-> Q[i]]
        <5>1. Q = [i \in 1..Len(Q) |-> Q[i]]
          OBVIOUS
        <5>2. Len(Q) = n
          BY <3>6
        <5> QED BY <5>1, <5>2, Zenon
      <4> QED BY <3>6, <4>1, <4>2
    <3>4. Head(R) = <<Head(q)>>
      BY <1>2, <1>4, <2>1
    <3>5. R # <<>>
      BY <1>2, <2>1
    <3> QED BY <3>2, <3>3, <3>4, <3>5
  <2>5. PICK S : R \in Seq(S) /\ <<CloseNotify>> \in S
    <3>1. PICK S : S = {<<q[i]>> : i \in 1..Len(q)} \cup {<<CloseNotify>>}
      OBVIOUS
    <3>2. R \in Seq(S) /\ <<CloseNotify>> \in S
      BY <1>2, <3>1
    <3> QED BY <3>2
  <2>6. /\ Head(Append(R, <<CloseNotify>>)) = Head(R)
        /\ Tail(Append(R, <<CloseNotify>>)) = Append(Tail(R), <<CloseNotify>>)
    BY <2>4, <2>5
  <2> QED BY <1>1, <1>4, <2>2, <2>4, <2>6
<1> QED BY <1>3, <1>4

\* Only responses are read.
LEMMA InboxHead ==
  ASSUME NEW s, NEW h, NEW heard, Inbox(s, h, heard), s.in # <<>>,
         Head(s.in) # <<CloseNotify>>
  PROVE  \E p \in Responses : Head(s.in) = <<p>>
<1>1. PICK q \in Seq(Responses) :
        s.in \in {Records(q), Append(Records(q), <<CloseNotify>>)}
  BY Zenon DEF Inbox
<1>2. PICK box : box = s.in
  OBVIOUS
<1>3. q # <<>> /\ Head(box) = <<Head(q)>>
  BY <1>1, <1>2, NextRecord
<1>4. Head(q) \in Responses
  BY <1>3, HeadTail
<1> QED BY <1>2, <1>3, <1>4

\* A response is read.
LEMMA InboxNext ==
  ASSUME NEW s, NEW h, NEW heard \in Seq(Heard), Inbox(s, h, heard), s.in # <<>>,
         NEW p \in Responses, Head(s.in) = <<p>>,
         NEW t, t.in = Tail(s.in), t.rbuf = <<>>, t.input_buffer = <<>>
  PROVE  Inbox(t, h, heard \o <<p>>)
<1>1. PICK q \in Seq(Responses) :
        /\ s.in \in {Records(q), Append(Records(q), <<CloseNotify>>)}
        /\ h.said = heard \o q
  BY Zenon DEF Inbox
<1>2. PICK box : box = s.in
  OBVIOUS
<1>3. p # CloseNotify
  BY ClientAssumption DEF IsLine, CloseNotify, Piece
<1>4. <<p>> # <<CloseNotify>>
  BY <1>3
<1>5. /\ q # <<>> /\ <<p>> = <<Head(q)>>
      /\ t.in \in {Records(Tail(q)), Append(Records(Tail(q)), <<CloseNotify>>)}
  BY <1>1, <1>2, <1>4, NextRecord
<1>6. PICK T \in Seq(Responses), k \in Responses : T = Tail(q) /\ k = Head(q) /\ k = p
  BY <1>5, HeadTail
<1>7. q = <<k>> \o T
  BY <1>5, <1>6
<1>8. PICK f \in Seq(Heard), g \in Seq(Heard) : f = <<k>> /\ g = T
  <2>1. k \in Heard /\ T \in Seq(Heard)
    BY DEF Heard
  <2>2. <<k>> \in Seq(Heard)
    BY <2>1, JustOne
  <2> QED BY <2>1, <2>2
<1>9. heard \o (f \o g) = (heard \o f) \o g
  <2>1. Cat(heard, Cat(f, g)) = Cat(Cat(heard, f), g)
    BY CatAssoc
  <2> QED BY <2>1, Zenon DEF Cat
<1>10. h.said = (heard \o <<p>>) \o T
  BY <1>1, <1>6, <1>7, <1>8, <1>9, Zenon
<1> QED BY <1>5, <1>6, <1>10, Zenon DEF Inbox

\* A response that has been read takes the session a step further.
LEMMA StageMoves ==
  ASSUME NEW s, NEW t, NEW h, NEW x, x = <<>>, Stage(s, h, x), NEW y,
         t.reader = s.reader, t.client_input = s.client_input, t.eof = s.eof,
         t.chunks = s.chunks, t.stdin = s.stdin, t.command = s.command,
         t.read_handler = s.read_handler, Sent(t, h) = Sent(s, h),
         \A heard \in Seq(Heard) : Inbox(s, h, heard) => Inbox(t, h, heard \o y)
  PROVE  Stage(t, h, y)
<1>1. \A cmds : Gathered(s, h, cmds) => Gathered(t, h, cmds)
  BY Zenon DEF Gathered
<1>2. ASSUME NEW cmds, NEW sent, NEW heard \in Seq(Heard),
             Talk(s, h, cmds, sent, heard, x)
      PROVE  Talk(t, h, cmds, sent, heard, y)
  <2>1. heard \o x = heard
    BY Assoc
  <2>2. Inbox(t, h, heard \o y)
    BY <1>2, <2>1, Zenon DEF Talk
  <2> QED BY <1>1, <1>2, <2>2, Zenon DEF Talk
<1>3. \A cmds \in Seq(Orders) :
        /\ Acks(2 * Len(cmds)) \in Seq(Heard) /\ Acks(2 * Len(cmds) + 1) \in Seq(Heard)
  <2> TAKE cmds \in Seq(Orders)
  <2>1. 2 * Len(cmds) \in Nat /\ 2 * Len(cmds) + 1 \in Nat
    OBVIOUS
  <2> QED BY <2>1, AcksHeard
<1>4. CASE Greeting(s, h, x)
  <2>1. <<>> \in Seq(Heard)
    OBVIOUS
  <2> QED BY <1>2, <1>4, <2>1, Zenon DEF Greeting, Stage
<1>5. CASE Announcing(s, h, x)
  BY <1>2, <1>3, <1>5, Zenon DEF Announcing, Stage
<1>6. CASE Submitting(s, h, x)
  BY <1>2, <1>3, <1>6, Zenon DEF Submitting, Stage
<1>7. CASE Leaving(s, h, x)
  BY <1>2, <1>3, <1>7, Zenon DEF Leaving, Stage
<1> QED BY <1>4, <1>5, <1>6, <1>7 DEF Stage

\* SSL_read while a response is waited for: there is none, or the next record
\* is returned as a whole.
LEMMA Reads ==
  ASSUME NEW s, NEW h, Asking(s, h), NEW size \in Nat \ {0}, NEW x, x = SSL_read(s, size)
  PROVE  \/ x.next = s /\ x.code \in Codes /\ x.code # "done"
         \/ /\ x.code = "done" /\ Only(s, x.next, SslFields)
            /\ Sound(x.next, Alphabet, Watchers)
            /\ x.next.in = Tail(s.in) /\ x.next.rbuf = <<>>
            /\ x.next.hs = s.hs /\ x.next.out = s.out
            /\ s.in # <<>> /\ Head(s.in) = x.got
            /\ \E p \in Responses : x.got = <<p>>
<1>1. /\ Held(s, h) /\ IsConn(s) /\ Sound(s, Alphabet, Watchers) /\ Streams(s, Alphabet)
      /\ s.hs = <<>>
  BY HeldValid DEF Asking, Held, Sound
<1>2. \E heard : Inbox(s, h, heard)
  BY Zenon DEF Asking, Stage, Greeting, Announcing, Submitting, Leaving, Talk
<1>3. PICK heard : Inbox(s, h, heard)
  BY <1>2
<1>4. s.rbuf = <<>>
  BY <1>3 DEF Inbox
<1>5. Handshake(s) = s
  <2>1. HandshakeStep(s) = s
    BY <1>1 DEF HandshakeStep
  <2> QED BY <2>1, Zenon DEF Handshake
<1>6. CASE s.link = "reset"
  <2>1. x = Outcome("error", <<>>, s)
    BY <1>6 DEF SSL_read
  <2> QED BY <2>1 DEF Outcome, Codes
<1>7. CASE s.link # "reset" /\ s.in = <<>>
  <2>1. x = Outcome("want_read", <<>>, s)
    BY <1>1, <1>4, <1>5, <1>7 DEF SSL_read
  <2> QED BY <2>1 DEF Outcome, Codes
<1>8. CASE s.link # "reset" /\ s.in # <<>> /\ Head(s.in) = <<CloseNotify>>
  <2>1. x = Outcome("zero_return", <<>>, s)
    BY <1>1, <1>4, <1>5, <1>8 DEF SSL_read, PeerClosed
  <2> QED BY <2>1 DEF Outcome, Codes
<1>9. CASE s.link # "reset" /\ s.in # <<>> /\ Head(s.in) # <<CloseNotify>>
  <2>1. PICK p \in Responses : Head(s.in) = <<p>>
    BY <1>3, <1>9, InboxHead
  <2>2. Head(s.in) # <<HS>>
    <3>1. p # HS
      BY ClientAssumption DEF IsLine, HS, Piece
    <3> QED BY <2>1, <3>1
  <2>3. PICK a : a = [s EXCEPT !.rbuf = Head(s.in), !.in = Tail(@)]
    OBVIOUS
  <2>4. x = TakeRead(a, size)
    BY <1>1, <1>4, <1>5, <1>9, <2>2, <2>3 DEF SSL_read, PeerClosed
  <2>5. /\ Only(s, a, {"rbuf", "in"}) /\ a.rbuf = <<p>> /\ a.in = Tail(s.in)
        /\ "rbuf" \in DOMAIN a
    BY <1>1, <2>1, <2>3 DEF Only, IsConn, TlsFields
  <2>6. PICK n \in Nat : n = IF size < Len(a.rbuf) THEN size ELSE Len(a.rbuf)
    BY <2>5
  <2>7. n = 1 /\ Len(a.rbuf) = 1
    BY <2>5, <2>6
  <2>8. SubSeq(a.rbuf, 1, 1) = <<p>> /\ SubSeq(a.rbuf, 2, 1) = <<>>
    <3>1. PICK w \in Seq(Responses) : w = <<p>> /\ Len(w) = 1 /\ w[1] = p
      BY JustOne
    <3>2. PICK u : u = SubSeq(w, 1, 1)
      OBVIOUS
    <3>3. PICK v : v = SubSeq(w, 1 + 1, Len(w))
      OBVIOUS
    <3>4. 1 \in 0..Len(w)
      BY <3>1
    <3>5. /\ u \in Seq(Responses) /\ v \in Seq(Responses)
          /\ Len(u) = 1 /\ Len(v) = Len(w) - 1 /\ \A i \in 1..1 : u[i] = w[i]
      BY <3>2, <3>3, <3>4, CutParts
    <3>6. u = w
      <4>1. \A i \in 1..Len(u) : u[i] = w[i]
        BY <3>5
      <4> QED BY <3>1, <3>5, <4>1, SeqEqual
    <3>7. v = <<>> /\ v = SubSeq(w, 2, 1)
      BY <3>1, <3>3, <3>5
    <3> QED BY <2>5, <3>1, <3>2, <3>6, <3>7
  <2>9. PICK b : b = [a EXCEPT !.rbuf = SubSeq(@, n + 1, Len(@))]
    OBVIOUS
  <2>10. x = Outcome("done", SubSeq(a.rbuf, 1, n), b)
    BY <2>4, <2>6, <2>9, Zenon DEF TakeRead
  <2>11. x.code = "done" /\ x.got = <<p>> /\ x.next = b
    <3>1. PICK g : g = SubSeq(a.rbuf, 1, n)
      OBVIOUS
    <3>2. x = Outcome("done", g, b)
      BY <2>10, <3>1
    <3>3. g = <<p>>
      BY <2>7, <2>8, <3>1
    <3> QED BY <3>2, <3>3, OutcomeParts
  <2>12. Only(a, b, {"rbuf"}) /\ b.rbuf = <<>>
    <3>1. n + 1 = 2
      BY <2>7
    <3> QED BY <2>5, <2>7, <2>8, <2>9, <3>1 DEF Only
  <2>13. Only(s, b, {"rbuf", "in"})
    BY <2>5, <2>12, OnlyTrans
  <2>14. b.in = Tail(s.in) /\ b.hs = s.hs /\ b.out = s.out
    BY <1>1, <2>5, <2>12, <2>13 DEF Only, IsConn, TlsFields
  <2>15. Sound(x.next, Alphabet, Watchers)
    BY <1>1, ReadResult, SoundCall
  <2>16. Only(s, b, SslFields)
    <3>1. {"rbuf", "in"} \subseteq SslFields
      BY DEF SslFields
    <3> QED BY <2>13, <3>1, OnlyMore
  <2> QED BY <1>9, <2>1, <2>11, <2>12, <2>14, <2>15, <2>16
<1> QED BY <1>6, <1>7, <1>8, <1>9

\* The line p was read, and nothing is left in the buffer.
Heeding(s, h, p) ==
  /\ Held(s, h) /\ "read" \in s.active /\ s.active \subseteq {"read", "write"}
  /\ Stage(s, h, <<p>>) /\ p \in Responses

\* The connection c with the line p in the buffer.
Holding(s, c, p) ==
  /\ Watched(s) /\ Sound(s, Alphabet, Watchers) /\ Only(c, s, {"input_buffer"})
  /\ s.input_buffer = <<p>>

\* read_line's loop before the first turn, after it, and from the second on.
Listens(r, h) ==
  /\ DOMAIN r = {"s", "line", "go"} /\ r.go = "yes" /\ r.line = <<>> /\ Asking(r.s, h)
Gets(r, h) ==
  /\ DOMAIN r = {"s", "line", "go"} /\ r.go = "yes" /\ r.line = <<>>
  /\ \E c, p : Heeding(c, h, p) /\ Holding(r.s, c, p)
Returns(r, h) ==
  /\ r.go = "no"
  /\ \/ r.line = <<>> /\ (Asking(r.s, h) \/ Ended(r.s, h))
     \/ \E p : Heeding(r.s, h, p) /\ r.line = <<p>>

\* The buffer holds no line ...
LEMMA NoLine ==
  ASSUME NEW q, q = <<>>, NEW n, n = SelectInSeq(q, IsLine)
  PROVE  n = 0
<1>1. q \in Seq(Alphabet)
  OBVIOUS
<1>2. n \in 0..Len(q)
  BY <1>1, FirstLine
<1> QED BY <1>2

\* ... or one.
LEMMA OneLine ==
  ASSUME NEW p \in Responses, NEW q, q = <<p>>, NEW n, n = SelectInSeq(q, IsLine)
  PROVE  n = 1
<1> DEFINE I == {i \in 1..Len(q) : IsLine(q[i])}
<1>1. n = IF I # {} THEN Min(I) ELSE 0
  BY DEF SelectInSeq
<1>2. IsLine(p)
  BY ClientAssumption
<1>3. Len(q) = 1 /\ q[1] = p
  OBVIOUS
<1>4. I = {1}
  BY <1>2, <1>3
<1>5. Min(I) \in I
  <2>1. I \subseteq Nat /\ 1 \in I
    BY <1>4
  <2> HIDE DEF I
  <2> QED BY <2>1, FirstIndex
<1> QED BY <1>1, <1>4, <1>5

\* The response is in hand.
LEMMA HeedsLine ==
  ASSUME NEW s, NEW h, Asking(s, h), s.input_buffer = <<>>,
         NEW u, Only(s, u, SslFields), Sound(u, Alphabet, Watchers),
         u.in = Tail(s.in), u.rbuf = <<>>, u.hs = s.hs, u.out = s.out,
         s.in # <<>>, NEW p \in Responses, Head(s.in) = <<p>>
  PROVE  Heeding(u, h, p)
<1>1. /\ Held(s, h) /\ Valid(s) /\ Watched(s) /\ IsConn(s)
      /\ ClientFields \subseteq DOMAIN s
  BY HeldValid DEF Asking
<1>2. /\ u.tls = s.tls /\ u.process = s.process /\ u.faults = s.faults
      /\ u.active = s.active /\ u.pending = s.pending
      /\ u.client = s.client /\ u.reader = s.reader
      /\ u.client_input = s.client_input /\ u.chunks = s.chunks
      /\ u.eof = s.eof /\ u.exit_code = s.exit_code /\ u.stdin = s.stdin
      /\ u.command = s.command /\ u.read_handler = s.read_handler
      /\ u.sent_close = s.sent_close /\ u.input_size = s.input_size
      /\ u.drain_handler = s.drain_handler /\ u.input_buffer = s.input_buffer
      /\ u.output = s.output /\ u.output_buffer = s.output_buffer
      /\ ClientFields \subseteq DOMAIN u /\ IsConn(u)
  BY <1>1 DEF Only, ClientFields, SslFields, IsConn, TlsFields
<1>3. Watched(u)
  BY <1>1, <1>2 DEF Watched
<1>4. Valid(u)
  BY <1>1, <1>2, <1>3, ZenonT(40) DEF Valid
<1>5. Held(u, h)
  <2>1. Flushing(u)
    BY <1>1, <1>2 DEF Flushing, Drained, Held
  <2> QED BY <1>1, <1>2, <1>4, <2>1, Zenon DEF Held, Clean
<1>6. Sent(u, h) = Sent(s, h)
  BY <1>2, Zenon DEF Sent
<1>7. \A heard \in Seq(Heard) : Inbox(s, h, heard) => Inbox(u, h, heard \o <<p>>)
  <2> SUFFICES ASSUME NEW heard \in Seq(Heard), Inbox(s, h, heard)
               PROVE  Inbox(u, h, heard \o <<p>>)
    OBVIOUS
  <2>1. u.input_buffer = <<>>
    BY <1>2
  <2> QED BY <2>1, InboxNext
<1>8. PICK x : x = <<>>
  OBVIOUS
<1>9. Stage(s, h, x)
  BY <1>8, Zenon DEF Asking
<1>10. PICK y : y = <<p>>
  OBVIOUS
<1>11. Stage(u, h, y)
  <2>1. \A heard \in Seq(Heard) : Inbox(s, h, heard) => Inbox(u, h, heard \o y)
    BY <1>7, <1>10
  <2> QED BY <1>2, <1>6, <1>8, <1>9, <2>1, StageMoves
<1> QED BY <1>2, <1>5, <1>10, <1>11 DEF Heeding, Asking

\* It is put into the buffer ...
LEMMA HoldsLine ==
  ASSUME NEW u, NEW h, NEW p, Heeding(u, h, p), u.input_buffer = <<>>,
         NEW a, a = [u EXCEPT !.input_buffer = @ \o <<p>>]
  PROVE  Holding(a, u, p)
<1>1. p \in Responses /\ Watched(u) /\ Sound(u, Alphabet, Watchers)
  BY HeldValid DEF Heeding
<1>2. PICK b \in Seq(Alphabet) : b = <<p>> /\ Len(b) = 1
  <2>1. p \in Alphabet
    BY <1>1 DEF Alphabet
  <2> QED BY <2>1, JustOne
<1>3. <<>> \o b = b
  OBVIOUS
<1>4. a = [u EXCEPT !.input_buffer = b]
  BY <1>2, <1>3
<1>5. Len(b) <= LINE_MAX_SIZE
  BY <1>2, TlsAssumption
<1>6. Watched(a) /\ Sound(a, Alphabet, Watchers) /\ Only(u, a, {"input_buffer"})
  BY <1>1, <1>4, <1>5, InputBufferOnly
<1>7. a.input_buffer = b
  BY <1>1, <1>4 DEF Watched, IsConn, TlsFields
<1> QED BY <1>2, <1>6, <1>7 DEF Holding

\* ... and taken out again.
LEMMA TakesLine ==
  ASSUME NEW c, NEW h, NEW p, Heeding(c, h, p), NEW s, Holding(s, c, p),
         NEW a, a = [s EXCEPT !.input_buffer = <<>>]
  PROVE  Heeding(a, h, p)
<1>1. /\ Held(c, h) /\ Valid(c) /\ Watched(s) /\ Sound(s, Alphabet, Watchers) /\ IsConn(c)
      /\ Only(c, s, {"input_buffer"})
  BY HeldValid DEF Heeding, Holding
<1>2. PICK b \in Seq(Alphabet) : b = <<>> /\ Len(b) <= LINE_MAX_SIZE
  <2>1. <<>> \in Seq(Alphabet) /\ Len(<<>>) <= LINE_MAX_SIZE
    BY TlsAssumption
  <2> QED BY <2>1, Zenon
<1>3. /\ Watched(a) /\ Sound(a, Alphabet, Watchers) /\ Only(s, a, {"input_buffer"})
      /\ a.input_buffer = <<>>
  <2>1. a = [s EXCEPT !.input_buffer = b]
    BY <1>2
  <2>2. a.input_buffer = <<>>
    BY <1>1 DEF Watched, IsConn, TlsFields
  <2> QED BY <1>1, <1>2, <2>1, <2>2, InputBufferOnly
<1>4. c.input_buffer = <<>>
  BY Zenon DEF Heeding, Stage, Greeting, Announcing, Submitting, Leaving, Talk, Inbox
<1>5. Only(c, a, {})
  BY <1>1, <1>3, <1>4 DEF Only
<1>6. Held(a, h) /\ Alike(c, a)
  BY <1>1, <1>3, <1>5, PhaseKept
<1>7. Stage(a, h, <<p>>)
  BY <1>6, AlikeTalk, Zenon DEF Heeding
<1> QED BY <1>6, <1>7 DEF Heeding, Alike

\* What SSL_read returned is added to the buffer.
Filled(x) == [x.next EXCEPT !.input_buffer = @ \o x.got]

\* One turn, in the operators of module Tls: of the connection s with q in the
\* buffer, n the end of the first line, x the result of SSL_read and b the
\* connection with what it returned.
TurnResult(r, s, q, n, x, b) ==
  IF n > 0
  THEN [s |-> [s EXCEPT !.input_buffer = SubSeq(q, n + 1, Len(q))],
        line |-> <<q[n]>>, go |-> "no"]
  ELSE IF Len(q) + LINE_BUFFER_SIZE > LINE_MAX_SIZE
  THEN [s |-> CB!CallLineTooLong(CB!ev_io_stop(s, "read")),
        line |-> <<>>, go |-> "no"]
  ELSE IF x.code # "done"
  THEN [s |-> CB!check_tls_error(x.next, "read", x.code),
        line |-> <<>>, go |-> "no"]
  ELSE [r EXCEPT !.s = b]

\* ReadLineTurn finds a line, reads on, or reports what SSL_read says.
LEMMA LineTurn ==
  ASSUME NEW r, r.go = "yes", NEW s, s = r.s, NEW q, q = s.input_buffer,
         NEW n, n = SelectInSeq(q, IsLine), NEW x, x = SSL_read(s, LINE_BUFFER_SIZE),
         NEW b, b = Filled(x),
         NEW t, t = CB!ReadLineTurn(r)
  PROVE  t = TurnResult(r, s, q, n, x, b)
<1>1. n = CB!LineEnd(q)
  BY DEF CB!LineEnd, CB!SelectInSeq, SelectInSeq, CB!IsLine, IsLine, CB!Min, Min
<1>2. CB!SSL_read(s, LINE_BUFFER_SIZE) = x
  BY SameRead
<1>3. r.go # "no"
  OBVIOUS
<1>4. [s EXCEPT !.input_buffer = SubSeq(@, n + 1, Len(@))]
        = [s EXCEPT !.input_buffer = SubSeq(q, n + 1, Len(q))]
  OBVIOUS
<1> QED BY <1>1, <1>2, <1>3, <1>4, Zenon DEF CB!ReadLineTurn, TurnResult, Filled

\* The first turn: nothing is in the buffer, and what there is is read.
LEMMA FirstTurn ==
  ASSUME NEW r, NEW h, ValidHistory(h), Listens(r, h), NEW t, t = CB!ReadLineTurn(r)
  PROVE  Gets(t, h) \/ Returns(t, h)
<1>1. PICK s : s = r.s
  OBVIOUS
<1>2. /\ Asking(s, h) /\ Held(s, h) /\ "read" \in s.active
      /\ s.active \subseteq {"read", "write"}
  BY <1>1 DEF Listens, Asking
<1>3. /\ Valid(s) /\ Watched(s) /\ Sound(s, Alphabet, Watchers) /\ IsConn(s)
      /\ ClientFields \subseteq DOMAIN s
  BY <1>2, HeldValid
<1>4. PICK q : q = s.input_buffer
  OBVIOUS
<1>5. q = <<>>
  BY <1>2, <1>4, Zenon
  DEF Asking, Stage, Greeting, Announcing, Submitting, Leaving, Talk, Inbox
<1>6. PICK n : n = SelectInSeq(q, IsLine)
  OBVIOUS
<1>7. PICK x : x = SSL_read(s, LINE_BUFFER_SIZE)
  OBVIOUS
<1>8. PICK b : b = Filled(x)
  OBVIOUS
<1>9. t = IF x.code # "done"
          THEN [s |-> CB!check_tls_error(x.next, "read", x.code),
                line |-> <<>>, go |-> "no"]
          ELSE [r EXCEPT !.s = b]
  <2>1. n = 0
    BY <1>5, <1>6, NoLine
  <2>2. ~(n > 0) /\ ~(Len(q) + LINE_BUFFER_SIZE > LINE_MAX_SIZE)
    BY <1>5, <2>1, TlsAssumption
  <2>3. r.go = "yes"
    BY DEF Listens
  <2>4. t = TurnResult(r, s, q, n, x, b)
    BY <1>1, <1>4, <1>6, <1>7, <1>8, <2>3, LineTurn
  <2> QED BY <2>2, <2>4, Zenon DEF TurnResult
<1>10. LINE_BUFFER_SIZE \in Nat \ {0}
  BY TlsAssumption
<1>11. CASE x.next = s /\ x.code \in Codes /\ x.code # "done"
  <2>1. PICK a : a = CB!check_tls_error(s, "read", x.code)
    OBVIOUS
  <2>2. Mortal(s, h)
    <3>1. <<>> \in Seq(Heard)
      OBVIOUS
    <3> QED BY <1>2, <3>1, StageMortal DEF Asking
  <2>3. Asking(a, h) \/ Ended(a, h)
    BY <1>2, <1>11, <2>1, <2>2, Waits
  <2>4. t.s = a /\ t.line = <<>> /\ t.go = "no"
    BY <1>9, <1>11, <2>1
  <2> QED BY <2>3, <2>4 DEF Returns
<1>12. CASE x.code = "done"
  <2>1. PICK p \in Responses : x.got = <<p>>
    BY <1>2, <1>7, <1>10, <1>12, Reads
  <2>2. PICK u : u = x.next
    OBVIOUS
  <2>3. /\ Only(s, u, SslFields) /\ Sound(u, Alphabet, Watchers)
        /\ u.in = Tail(s.in) /\ u.rbuf = <<>> /\ u.hs = s.hs /\ u.out = s.out
        /\ s.in # <<>> /\ Head(s.in) = <<p>>
    BY <1>2, <1>7, <1>10, <1>12, <2>1, <2>2, Reads
  <2>4. Heeding(u, h, p)
    BY <1>2, <1>5, <1>4, <2>3, HeedsLine
  <2>5. u.input_buffer = <<>>
    BY <1>3, <1>4, <1>5, <2>3 DEF Only, SslFields, IsConn, TlsFields
  <2>6. Holding(b, u, p)
    <3>1. b = [u EXCEPT !.input_buffer = @ \o <<p>>]
      BY <1>8, <2>1, <2>2 DEF Filled
    <3> QED BY <2>4, <2>5, <3>1, HoldsLine
  <2>7. t = [r EXCEPT !.s = b]
    BY <1>9, <1>12
  <2>8. DOMAIN t = {"s", "line", "go"} /\ t.go = "yes" /\ t.line = <<>> /\ t.s = b
    BY <2>7 DEF Listens
  <2> QED BY <2>4, <2>6, <2>8 DEF Gets
<1> QED BY <1>2, <1>7, <1>10, <1>11, <1>12, Reads

\* The second turn: the line is taken out of the buffer.
LEMMA SecondTurn ==
  ASSUME NEW r, NEW h, Gets(r, h), NEW t, t = CB!ReadLineTurn(r)
  PROVE  Returns(t, h)
<1>1. PICK s : s = r.s
  OBVIOUS
<1>2. PICK c, p : Heeding(c, h, p) /\ Holding(s, c, p)
  BY <1>1 DEF Gets
<1>3. p \in Responses
  BY <1>2 DEF Heeding
<1>4. PICK q \in Seq(Responses) : q = <<p>> /\ q = s.input_buffer /\ Len(q) = 1 /\ q[1] = p
  <2>1. <<p>> \in Seq(Responses) /\ Len(<<p>>) = 1 /\ (<<p>>)[1] = p
    BY <1>3, JustOne
  <2> QED BY <1>2, <2>1 DEF Holding
<1>5. PICK n : n = SelectInSeq(q, IsLine)
  OBVIOUS
<1>6. n = 1
  BY <1>3, <1>4, <1>5, OneLine
<1>7. PICK x : x = SSL_read(s, LINE_BUFFER_SIZE)
  OBVIOUS
<1>8. PICK b : b = Filled(x)
  OBVIOUS
<1>9. t = TurnResult(r, s, q, n, x, b)
  <2>1. r.go = "yes"
    BY DEF Gets
  <2> QED BY <1>1, <1>4, <1>5, <1>7, <1>8, <2>1, LineTurn
<1>10. PICK a : a = [s EXCEPT !.input_buffer = <<>>]
  OBVIOUS
<1>11. t = [s |-> a, line |-> <<p>>, go |-> "no"]
  <2>1. SubSeq(q, n + 1, Len(q)) = <<>>
    BY <1>4, <1>6
  <2>2. n > 0 /\ <<q[n]>> = <<p>>
    BY <1>4, <1>6
  <2> QED BY <1>9, <1>10, <2>1, <2>2, Zenon DEF TurnResult
<1>12. Heeding(a, h, p)
  BY <1>2, <1>10, TakesLine
<1>13. t.s = a /\ t.line = <<p>> /\ t.go = "no"
  BY <1>11
<1> QED BY <1>12, <1>13 DEF Returns

\* There is nothing to do in the turns after that.
LEMMA LaterTurn ==
  ASSUME NEW r, NEW h, Returns(r, h), NEW t, t = CB!ReadLineTurn(r)
  PROVE  Returns(t, h)
<1>1. r.go = "no"
  BY DEF Returns
<1>2. t = r
  BY <1>1, Zenon DEF CB!ReadLineTurn
<1> QED BY <1>2

\* read_line: the loop returns a line, or nothing.
LEMMA LineLoop ==
  ASSUME NEW s, NEW h, NEW n \in Nat, n = LINE_MAX_SIZE + 2, n > 2, NEW a,
         a = [s |-> s, line |-> <<>>, go |-> "yes"], Listens(a, h),
         \A r : Listens(r, h) => Gets(CB!ReadLineTurn(r), h) \/ Returns(CB!ReadLineTurn(r), h),
         \A r : Gets(r, h) => Returns(CB!ReadLineTurn(r), h),
         \A r : Returns(r, h) => Returns(CB!ReadLineTurn(r), h)
  PROVE  Returns(CB!read_line(s), h)
<1> DEFINE Trace(g, m) ==
             g = [k \in 0..m |-> IF k = 0 THEN a ELSE CB!ReadLineTurn(g[k - 1])]
           E == {m \in Nat : \E g : Trace(g, m)}
<1>1. 0 \in E
  <2> DEFINE g == [k \in 0..0 |-> a]
  <2>1. Trace(g, 0)
    OBVIOUS
  <2> QED BY <2>1
<1>2. ASSUME NEW m \in Nat, m \in E PROVE m + 1 \in E
  <2>1. PICK g : Trace(g, m)
    BY <1>2
  <2> DEFINE f == [k \in 0..(m + 1) |-> IF k <= m THEN g[k] ELSE CB!ReadLineTurn(g[m])]
  <2>2. \A k \in 0..m : g[k] = IF k = 0 THEN a ELSE CB!ReadLineTurn(g[k - 1])
    BY <2>1
  <2>3. ASSUME NEW k \in 0..(m + 1)
        PROVE  f[k] = IF k = 0 THEN a ELSE CB!ReadLineTurn(f[k - 1])
    <3>1. CASE k = 0
      BY <2>2, <3>1
    <3>2. CASE k \in 1..m
      <4>1. f[k] = g[k] /\ f[k - 1] = g[k - 1] /\ k # 0
        BY <3>2
      <4> QED BY <2>2, <3>2, <4>1
    <3>3. CASE k = m + 1
      <4>1. f[k] = CB!ReadLineTurn(g[m]) /\ f[k - 1] = g[m] /\ k # 0
        BY <3>3
      <4> QED BY <4>1
    <3> QED BY <3>1, <3>2, <3>3
  <2>4. f = [k \in 0..(m + 1) |-> f[k]]
    OBVIOUS
  <2> HIDE DEF f
  <2>5. Trace(f, m + 1)
    BY <2>3, <2>4
  <2> QED BY <2>5
<1>3. Nat \subseteq E
  <2> HIDE DEF E
  <2> QED BY <1>1, <1>2, SetInduction
<1> DEFINE turn == CHOOSE g : Trace(g, n)
<1>4. Trace(turn, n)
  <2>1. \E g : Trace(g, n)
    BY <1>3
  <2> HIDE DEF Trace
  <2> QED BY <2>1
<1>5. CB!read_line(s) = turn[n]
  BY Zenon DEF CB!read_line
<1> HIDE DEF turn
<1>6. \A k \in 0..n : turn[k] = IF k = 0 THEN a ELSE CB!ReadLineTurn(turn[k - 1])
  BY <1>4
<1>7. turn[0] = a /\ turn[1] = CB!ReadLineTurn(turn[0]) /\ turn[2] = CB!ReadLineTurn(turn[1])
  <2>1. 0 \in 0..n /\ 1 \in 0..n /\ 2 \in 0..n /\ 1 - 1 = 0 /\ 2 - 1 = 1
    OBVIOUS
  <2> QED BY <1>6, <2>1
<1>8. Gets(turn[1], h) \/ Returns(turn[1], h)
  BY <1>7
<1>9. Returns(turn[2], h)
  BY <1>7, <1>8
<1> DEFINE T == {k \in Nat : k + 2 <= n => Returns(turn[k + 2], h)}
<1>10. 0 \in T
  BY <1>9
<1>11. ASSUME NEW k \in Nat, k \in T PROVE k + 1 \in T
  <2> SUFFICES ASSUME (k + 1) + 2 <= n PROVE Returns(turn[(k + 1) + 2], h)
    OBVIOUS
  <2>1. turn[(k + 1) + 2] = CB!ReadLineTurn(turn[k + 2])
    <3>1. (k + 1) + 2 \in 0..n /\ (k + 1) + 2 # 0 /\ ((k + 1) + 2) - 1 = k + 2
      OBVIOUS
    <3> QED BY <1>6, <3>1
  <2>2. Returns(turn[k + 2], h)
    BY <1>11
  <2> QED BY <2>1, <2>2
<1>12. Nat \subseteq T
  <2> HIDE DEF T
  <2> QED BY <1>10, <1>11, SetInduction
<1>13. Returns(turn[n], h)
  <2>1. n - 2 \in Nat /\ (n - 2) + 2 = n
    OBVIOUS
  <2>2. n - 2 \in T
    BY <1>12, <2>1
  <2> QED BY <2>1, <2>2
<1> QED BY <1>5, <1>13

\* What every callback does first: the other watcher is fed, if it is
\* active, and the time of the last activity is noted.
LEMMA Woken ==
  ASSUME NEW s, Valid(s), NEW h, NEW w, NEW t, t = CB!Touch(CB!reset_watcher_state(s, w))
  PROVE  /\ Valid(t) /\ Alike(s, t) /\ Only(s, t, {"pending", "age"})
         /\ (Asking(s, h) => Asking(t, h)) /\ (Typing(s, h) => Typing(t, h))
         /\ (Closing(s, h) => Closing(t, h))
<1>1. Watched(s) /\ Sound(s, Alphabet, Watchers)
  BY DEF Valid
<1>2. PICK a : a = CB!reset_watcher_state(s, w)
  OBVIOUS
<1>3. a = s \/ (w \in s.active /\ a = ev_feed_event(s, w))
  BY <1>2, SameWatchers DEF CB!reset_watcher_state
<1>4. Watched(a) /\ Only(s, a, {"pending"})
  BY <1>1, <1>3, FeedEvent, OnlyRefl
<1>5. Sound(a, Alphabet, Watchers)
  BY <1>1, <1>4, SoundKept DEF SoundFields
<1>6. t = Touch(a)
  BY <1>2, SameWatchers
<1>7. Watched(t) /\ Sound(t, Alphabet, Watchers) /\ Only(a, t, {"age"})
  BY <1>4, <1>5, <1>6, TouchSound
<1>8. Only(s, t, {"pending", "age"})
  BY <1>4, <1>7, OnlyTrans
<1>9. {"pending", "age"} \cap PhaseFields = {}
  BY DEF PhaseFields
<1> QED BY <1>7, <1>8, <1>9, PhaseKept

\* The read watcher is stopped before the handler is called.
LEMMA StopsReading ==
  ASSUME NEW u, NEW h, NEW p, Heeding(u, h, p), NEW v, v = ev_io_stop(u, "read")
  PROVE  Called(v, h, p) /\ v.read_handler = u.read_handler
<1>1. /\ Held(u, h) /\ Valid(u) /\ Watched(u) /\ Sound(u, Alphabet, Watchers) /\ IsConn(u)
      /\ ClientFields \subseteq DOMAIN u
  BY HeldValid DEF Heeding
<1>2. /\ Watched(v) /\ Only(u, v, {"active", "pending"})
      /\ v.active = u.active \ {"read"}
  BY <1>1, IoStop
<1>3. Sound(v, Alphabet, Watchers)
  BY <1>1, <1>2, SoundKept DEF SoundFields
<1>4. /\ v.reader = u.reader /\ v.client_input = u.client_input /\ v.chunks = u.chunks
      /\ v.eof = u.eof /\ v.stdin = u.stdin /\ v.command = u.command
      /\ v.read_handler = u.read_handler
  BY <1>1, <1>2 DEF Only, ClientFields, IsConn, TlsFields
<1>5. /\ Held(v, h) /\ Sent(v, h) = Sent(u, h)
      /\ \A x : Inbox(u, h, x) => Inbox(v, h, x)
  <2>1. {"active", "pending"} \subseteq OwnFields
    BY DEF OwnFields
  <2>2. /\ v.active \subseteq Watchers /\ ("write" \in u.active => "write" \in v.active)
        /\ v.reader \in {"none", "live", "freed"} /\ v.client_input \in {"NULL", "set"}
        /\ v.eof \in {"no", "yes"} /\ v.stdin \in Seq(Texts) /\ v.chunks \in Seq(Texts)
    BY <1>1, <1>2, <1>4 DEF Valid
  <2> QED BY <1>1, <1>2, <1>3, <2>1, <2>2, HeldMoves
<1>6. \A cmds : Gathered(u, h, cmds) => Gathered(v, h, cmds)
  BY <1>4, Zenon DEF Gathered
<1>7. ASSUME NEW cmds, NEW sent, NEW heard, NEW x, Talk(u, h, cmds, sent, heard, x)
      PROVE  Talk(v, h, cmds, sent, heard, x)
  BY <1>5, <1>6, <1>7, Zenon DEF Talk
<1>8. PICK y : y = <<p>>
  OBVIOUS
<1>9. Stage(u, h, y)
  BY <1>8 DEF Heeding
<1>10. ASSUME Greeting(u, h, y) PROVE Greeting(v, h, y)
  BY <1>4, <1>7, <1>10, Zenon DEF Greeting
<1>11. ASSUME Announcing(u, h, y) PROVE Announcing(v, h, y)
  BY <1>4, <1>7, <1>11, Zenon DEF Announcing
<1>12. ASSUME Submitting(u, h, y) PROVE Submitting(v, h, y)
  BY <1>4, <1>7, <1>12, Zenon DEF Submitting
<1>13. ASSUME Leaving(u, h, y) PROVE Leaving(v, h, y)
  BY <1>4, <1>7, <1>13, Zenon DEF Leaving
<1>14. Stage(v, h, y)
  BY <1>9, <1>10, <1>11, <1>12, <1>13 DEF Stage
<1>15. v.active \subseteq {"write"} /\ p \in Responses
  BY <1>2 DEF Heeding
<1> QED BY <1>4, <1>5, <1>8, <1>14, <1>15 DEF Called

\* read_cb.
LEMMA ReadCallback ==
  ASSUME NEW c, NEW h, ValidHistory(h), Asking(c, h), NEW t, t = CB!read_cb(c)
  PROVE  Asking(t, h) \/ Typing(t, h) \/ Closing(t, h) \/ Ended(t, h)
<1>1. PICK s : s = CB!Touch(CB!reset_watcher_state(c, "write"))
  OBVIOUS
<1>2. Asking(s, h) /\ s.input_size = 0
  <2>1. Valid(c)
    BY DEF Asking, Held
  <2>2. Asking(s, h)
    BY <1>1, <2>1, Woken
  <2> QED BY <2>2 DEF Asking, Held
<1>3. PICK a : a = [s |-> s, line |-> <<>>, go |-> "yes"]
  OBVIOUS
<1>4. Listens(a, h)
  <2>1. a.s = s /\ a.line = <<>> /\ a.go = "yes" /\ DOMAIN a = {"s", "line", "go"}
    BY <1>3
  <2> QED BY <1>2, <2>1 DEF Listens
<1>5. PICK r : r = CB!read_line(s)
  OBVIOUS
<1>6. Returns(r, h)
  <2>1. PICK n \in Nat : n = LINE_MAX_SIZE + 2 /\ n > 2
    BY TlsAssumption
  <2>2. \A q : Listens(q, h) => Gets(CB!ReadLineTurn(q), h) \/ Returns(CB!ReadLineTurn(q), h)
    BY FirstTurn
  <2>3. \A q : Gets(q, h) => Returns(CB!ReadLineTurn(q), h)
    BY SecondTurn
  <2>4. \A q : Returns(q, h) => Returns(CB!ReadLineTurn(q), h)
    BY LaterTurn
  <2> QED BY <1>3, <1>4, <1>5, <2>1, <2>2, <2>3, <2>4, LineLoop
<1>7. t = IF r.line = <<>> THEN r.s
          ELSE Call(r.s.read_handler, CB!ev_io_stop(r.s, "read"), r.line)
  BY <1>1, <1>2, <1>5, Zenon DEF CB!read_cb
<1>8. CASE r.line = <<>> /\ (Asking(r.s, h) \/ Ended(r.s, h))
  BY <1>7, <1>8
<1>9. CASE \E p : Heeding(r.s, h, p) /\ r.line = <<p>>
  <2>1. PICK p : Heeding(r.s, h, p) /\ r.line = <<p>>
    BY <1>9
  <2>2. PICK u, line : u = r.s /\ line = <<p>> /\ line = r.line
    BY <2>1
  <2>3. PICK v : v = ev_io_stop(u, "read")
    OBVIOUS
  <2>4. Called(v, h, p) /\ v.read_handler = u.read_handler
    BY <2>1, <2>2, <2>3, StopsReading
  <2>5. t = Call(v.read_handler, v, line)
    <3>1. line # <<>>
      BY <2>2
    <3> QED BY <1>7, <2>2, <2>3, <2>4, <3>1, SameWatchers
  <2> QED BY <2>2, <2>4, <2>5, Responds
<1> QED BY <1>6, <1>8, <1>9 DEF Returns

-----------------------------------------------------------------------------
(* write_cb.                                                               *)

\* The connection is established and not yet freed.
Busy(s, h) == Asking(s, h) \/ Typing(s, h) \/ Closing(s, h)

\* What is known of an established connection.
LEMMA BusyParts ==
  ASSUME NEW s, NEW h, Busy(s, h)
  PROVE  /\ Valid(s) /\ Watched(s) /\ Sound(s, Alphabet, Watchers) /\ IsConn(s)
         /\ ClientFields \subseteq DOMAIN s /\ s.hs = <<>>
         /\ s.out \in Seq(Alphabet) /\ s.output \in Seq(Alphabet)
         /\ s.output_buffer \in Seq(Alphabet)
<1>1. Valid(s) /\ s.hs = <<>>
  BY DEF Busy, Asking, Typing, Held, Closing, Stopped
<1> QED BY <1>1 DEF Valid, Watched, Sound, Streams, Buffered

\* The process may end while the connection is established.
LEMMA BusyMortal ==
  ASSUME NEW s, NEW h, ValidHistory(h), Busy(s, h)
  PROVE  Mortal(s, h)
<1>1. CASE Asking(s, h)
  <2>1. <<>> \in Seq(Heard)
    OBVIOUS
  <2> QED BY <1>1, <2>1, StageMortal DEF Asking
<1>2. CASE Typing(s, h)
  BY <1>2, TypingMortal
<1>3. CASE Closing(s, h)
  BY <1>3, ClosingMortal
<1> QED BY <1>1, <1>2, <1>3 DEF Busy

\* As long as the write watcher is active, it does not matter how much of what
\* the client has to say has been sent.
LEMMA OutputMoves ==
  ASSUME NEW s, NEW h, Busy(s, h), "write" \in s.active,
         NEW t, Only(s, t, {"out", "output", "output_buffer"}),
         Watched(t), Sound(t, Alphabet, Watchers), Sent(t, h) = Sent(s, h)
  PROVE  /\ Busy(t, h) /\ t.active = s.active
         /\ (Asking(s, h) => Asking(t, h)) /\ (Typing(s, h) => Typing(t, h))
         /\ (Closing(s, h) => Closing(t, h))
<1>1. Valid(s) /\ IsConn(s) /\ ClientFields \subseteq DOMAIN s
  BY BusyParts
<1>2. /\ t.tls = s.tls /\ t.process = s.process /\ t.faults = s.faults
      /\ t.active = s.active /\ t.client = s.client /\ t.reader = s.reader
      /\ t.client_input = s.client_input /\ t.chunks = s.chunks /\ t.eof = s.eof
      /\ t.command = s.command /\ t.exit_code = s.exit_code /\ t.stdin = s.stdin
      /\ t.hs = s.hs /\ t.in = s.in /\ t.rbuf = s.rbuf
      /\ t.input_buffer = s.input_buffer /\ t.input_size = s.input_size
      /\ t.sent_close = s.sent_close /\ t.drain_handler = s.drain_handler
      /\ t.read_handler = s.read_handler /\ ClientFields \subseteq DOMAIN t
  BY <1>1 DEF Only, ClientFields, IsConn, TlsFields
<1>3. Valid(t)
  BY <1>1, <1>2, Zenon DEF Valid
<1>4. \A x : Inbox(s, h, x) => Inbox(t, h, x)
  BY <1>2, Zenon DEF Inbox
<1>5. \A cmds : Gathered(s, h, cmds) => Gathered(t, h, cmds)
  BY <1>2, Zenon DEF Gathered
<1>6. ASSUME NEW cmds, NEW sent, NEW heard, NEW x, Talk(s, h, cmds, sent, heard, x)
      PROVE  Talk(t, h, cmds, sent, heard, x)
  BY <1>4, <1>5, <1>6, Zenon DEF Talk
<1>7. ASSUME NEW x, Stage(s, h, x) PROVE Stage(t, h, x)
  <2>1. ASSUME Greeting(s, h, x) PROVE Greeting(t, h, x)
    BY <1>2, <1>6, <2>1, Zenon DEF Greeting
  <2>2. ASSUME Announcing(s, h, x) PROVE Announcing(t, h, x)
    BY <1>2, <1>6, <2>2, Zenon DEF Announcing
  <2>3. ASSUME Submitting(s, h, x) PROVE Submitting(t, h, x)
    BY <1>2, <1>6, <2>3, Zenon DEF Submitting
  <2>4. ASSUME Leaving(s, h, x) PROVE Leaving(t, h, x)
    BY <1>2, <1>6, <2>4, Zenon DEF Leaving
  <2> QED BY <1>7, <2>1, <2>2, <2>3, <2>4 DEF Stage
<1>8. Flushing(t)
  BY <1>2 DEF Flushing
<1>9. Held(s, h) => Held(t, h)
  BY <1>2, <1>3, <1>8, Zenon DEF Held, Clean
<1>10. Asking(s, h) => Asking(t, h)
  BY <1>2, <1>7, <1>9, Zenon DEF Asking
<1>11. Typing(s, h) => Typing(t, h)
  BY <1>2, <1>4, <1>5, <1>9, Zenon DEF Typing
<1>12. Success(s, h) => Success(t, h)
  BY <1>2, Zenon DEF Success
<1>13. Stopped(s, h) => Stopped(t, h)
  BY <1>2, <1>3, <1>12, Zenon DEF Stopped
<1>14. Closing(s, h) => Closing(t, h)
  BY <1>2, <1>8, <1>13, Zenon DEF Closing, Clean
<1> QED BY <1>2, <1>10, <1>11, <1>14 DEF Busy

\* SSL_write on an established connection.
LEMMA Writes ==
  ASSUME NEW o, NEW h, Busy(o, h), NEW d \in Seq(Alphabet), NEW x, x = SSL_write(o, d)
  PROVE  /\ x.code \in Codes /\ (x.code # "done" => x.next = o)
         /\ Sound(x.next, Alphabet, Watchers)
         /\ \E n \in 0..Len(d) : x.got = SubSeq(d, 1, n) /\ Len(x.got) = n
         /\ x.code = "done" =>
              Only(o, x.next, {"out"}) /\ x.next.out = Cat(o.out, x.got)
<1>1. Sound(o, Alphabet, Watchers) /\ IsConn(o) /\ o.hs = <<>>
  BY BusyParts
<1>2. /\ Result(o, x, SslFields, Alphabet)
      /\ \E n \in 0..Len(d) : x.got = SubSeq(d, 1, n) /\ Len(x.got) = n
  BY <1>1, WriteResult DEF Sound
<1>3. Sound(x.next, Alphabet, Watchers) /\ x.code \in Codes
  BY <1>1, <1>2, SoundCall DEF Result
<1>4. Handshake(o) = o
  <2>1. HandshakeStep(o) = o
    BY <1>1 DEF HandshakeStep
  <2> QED BY <2>1, Zenon DEF Handshake
<1>5. PICK n : n = IF Room(o) < Len(d) THEN Room(o) ELSE Len(d)
  OBVIOUS
<1>6. PICK g : g = SubSeq(d, 1, n)
  OBVIOUS
<1>7. PICK b : b = [o EXCEPT !.out = @ \o g]
  OBVIOUS
<1>8. x = IF o.link = "reset" THEN Outcome("error", <<>>, o)
          ELSE IF n = 0 THEN Outcome("want_write", <<>>, o)
          ELSE Outcome("done", g, b)
  BY <1>1, <1>4, <1>5, <1>6, <1>7, Zenon DEF SSL_write
<1>9. CASE x = Outcome("done", g, b)
  <2>1. x.code = "done" /\ x.got = g /\ x.next = b
    BY <1>9, OutcomeParts
  <2>2. Only(o, b, {"out"}) /\ b.out = Cat(o.out, g)
    BY <1>1, <1>7 DEF Only, IsConn, TlsFields, Cat
  <2> QED BY <1>2, <1>3, <2>1, <2>2
<1>10. CASE x = Outcome("error", <<>>, o) \/ x = Outcome("want_write", <<>>, o)
  <2>1. x.code # "done" /\ x.next = o
    BY <1>10 DEF Outcome
  <2> QED BY <1>2, <1>3, <2>1
<1> QED BY <1>8, <1>9, <1>10

\* The buffer becomes the output ...
LEMMA TakenOver ==
  ASSUME NEW s, NEW h, ValidHistory(h), Busy(s, h), "write" \in s.active,
         NEW o, o = IF s.output # <<>> THEN s
                    ELSE [s EXCEPT !.output = s.output_buffer, !.output_buffer = <<>>]
  PROVE  /\ Busy(o, h) /\ o.active = s.active
         /\ (Asking(s, h) => Asking(o, h)) /\ (Typing(s, h) => Typing(o, h))
         /\ (Closing(s, h) => Closing(o, h))
<1>1. /\ Watched(s) /\ Sound(s, Alphabet, Watchers) /\ IsConn(s)
      /\ s.out \in Seq(Alphabet) /\ s.output_buffer \in Seq(Alphabet)
  BY BusyParts
<1>2. CASE s.output # <<>>
  BY <1>2
<1>3. CASE s.output = <<>>
  <2>1. o = [s EXCEPT !.output = s.output_buffer, !.output_buffer = <<>>]
    BY <1>3
  <2>2. /\ Only(s, o, {"output", "output_buffer"})
        /\ o.output = s.output_buffer /\ o.output_buffer = <<>> /\ o.out = s.out
    BY <1>1, <2>1 DEF Only, IsConn, TlsFields
  <2>3. o.output \in Seq(Alphabet) /\ o.output_buffer \in Seq(Alphabet)
    BY <1>1, <2>2
  <2>4. Watched(o) /\ Sound(o, Alphabet, Watchers)
    BY <1>1, <2>2, <2>3, OutputOnly
  <2>5. Sent(o, h) = Sent(s, h)
    <3>1. PICK a \in Seq(Alphabet), b \in Seq(Alphabet) : a = s.out /\ b = s.output_buffer
      BY <1>1
    <3>2. Cat(a, <<>>) = a
      BY CatEmpty
    <3>3. PICK c \in Seq(Alphabet) : c = Cat(a, b)
      BY CatAssoc
    <3>4. Cat(c, <<>>) = c
      BY CatEmpty
    <3> QED BY <1>3, <2>2, <3>1, <3>2, <3>3, <3>4, Zenon DEF Sent, Cat
  <2>6. Only(s, o, {"out", "output", "output_buffer"})
    BY <2>2, OnlyMore
  <2> QED BY <2>4, <2>5, <2>6, OutputMoves
<1> QED BY <1>2, <1>3

\* ... and the beginning of the output is sent.
LEMMA Transmits ==
  ASSUME NEW s, NEW h, ValidHistory(h), Busy(s, h), "write" \in s.active,
         NEW got \in Seq(Alphabet), NEW rest \in Seq(Alphabet), s.output = Cat(got, rest),
         NEW u, Only(s, u, {"out"}), u.out = Cat(s.out, got), Sound(u, Alphabet, Watchers),
         NEW t, Only(u, t, {"output"}), t.output = rest
  PROVE  /\ Busy(t, h) /\ t.active = s.active
         /\ (Asking(s, h) => Asking(t, h)) /\ (Typing(s, h) => Typing(t, h))
         /\ (Closing(s, h) => Closing(t, h))
<1>1. /\ Watched(s) /\ IsConn(s)
      /\ s.out \in Seq(Alphabet) /\ s.output_buffer \in Seq(Alphabet)
  BY BusyParts
<1>2. IsConn(u) /\ u.active = s.active /\ u.pending = s.pending
      /\ u.output_buffer = s.output_buffer
  BY <1>1 DEF Only, IsConn, TlsFields
<1>3. Watched(u)
  BY <1>1, <1>2 DEF Watched
<1>4. /\ Only(u, t, {"output"}) /\ t.output = rest /\ t.output_buffer = s.output_buffer
      /\ t.out = Cat(s.out, got)
  BY <1>2 DEF Only, IsConn, TlsFields
<1>5. t.output \in Seq(Alphabet) /\ t.output_buffer \in Seq(Alphabet)
  BY <1>1, <1>4
<1>6. Watched(t) /\ Sound(t, Alphabet, Watchers)
  <2>1. Only(u, t, {"output", "output_buffer"})
    BY <1>4, OnlyMore
  <2> QED BY <1>1, <1>3, <1>4, <1>5, <2>1, OutputOnly
<1>7. Only(s, t, {"out", "output", "output_buffer"})
  BY <1>4, OnlyTrans
<1>8. Sent(t, h) = Sent(s, h)
  <2>1. PICK a \in Seq(Alphabet) : a = s.out
    BY <1>1
  <2>2. Cat(Cat(a, got), rest) = Cat(a, Cat(got, rest))
    BY CatAssoc
  <2> QED BY <1>4, <2>1, <2>2, Zenon DEF Sent, Cat
<1>9. /\ Busy(t, h) /\ t.active = s.active
      /\ (Asking(s, h) => Asking(t, h)) /\ (Typing(s, h) => Typing(t, h))
      /\ (Closing(s, h) => Closing(t, h))
  BY <1>6, <1>7, <1>8, OutputMoves
<1> QED BY <1>4, <1>9

\* All is written: the session goes on, or the shutdown begins.
LEMMA WrittenKeeps ==
  ASSUME NEW s, NEW h, Busy(s, h), "write" \in s.active, s.output = <<>>,
         NEW t, t = CB!Written(s)
  PROVE  /\ Busy(t, h) /\ (t.output_buffer # <<>> => "write" \in t.active)
<1>1. /\ Valid(s) /\ Watched(s) /\ Sound(s, Alphabet, Watchers) /\ IsConn(s)
      /\ ClientFields \subseteq DOMAIN s
  BY BusyParts
<1>2. PICK a : a = ev_io_stop(s, "write")
  OBVIOUS
<1>3. /\ Watched(a) /\ Only(s, a, {"active", "pending"})
      /\ a.active = s.active \ {"write"}
  BY <1>1, <1>2, IoStop
<1>4. Sound(a, Alphabet, Watchers)
  BY <1>1, <1>3, SoundKept DEF SoundFields
<1>5. \/ s.output_buffer # <<>> /\ t = s
      \/ s.output_buffer = <<>> /\ s.drain_handler = "NULL" /\ t = a
      \/ s.output_buffer = <<>> /\ s.drain_handler # "NULL" /\ t = start_shutdown(a)
  BY <1>2, SameWatchers, SameFree DEF CB!Written
<1>6. CASE s.output_buffer # <<>> /\ t = s
  BY <1>6
<1>7. CASE s.output_buffer = <<>> /\ s.drain_handler = "NULL" /\ t = a
  <2>1. Asking(s, h) \/ Typing(s, h)
    BY <1>7 DEF Busy, Closing
  <2>2. /\ t.reader = s.reader /\ t.client_input = s.client_input /\ t.chunks = s.chunks
        /\ t.eof = s.eof /\ t.stdin = s.stdin /\ t.command = s.command
        /\ t.read_handler = s.read_handler
        /\ t.tls = s.tls /\ t.process = s.process /\ t.faults = s.faults
        /\ t.client = s.client /\ t.exit_code = s.exit_code
        /\ t.hs = s.hs /\ t.in = s.in /\ t.rbuf = s.rbuf
        /\ t.input_buffer = s.input_buffer /\ t.input_size = s.input_size
        /\ t.out = s.out /\ t.output = s.output /\ t.output_buffer = s.output_buffer
        /\ t.sent_close = s.sent_close /\ t.drain_handler = s.drain_handler
        /\ ClientFields \subseteq DOMAIN t
    BY <1>1, <1>3, <1>7 DEF Only, ClientFields, IsConn, TlsFields
  <2>3. Valid(t)
    BY <1>1, <1>3, <1>4, <1>7, <2>2 DEF Valid
  <2>4. Held(s, h) => Held(t, h)
    <3>1. Flushing(t)
      BY <1>7, <2>2 DEF Flushing, Drained
    <3> QED BY <2>2, <2>3, <3>1, Zenon DEF Held, Clean
  <2>5. Sent(t, h) = Sent(s, h)
    BY <2>2, Zenon DEF Sent
  <2>6. \A x : Inbox(s, h, x) => Inbox(t, h, x)
    BY <2>2, Zenon DEF Inbox
  <2>7. \A cmds : Gathered(s, h, cmds) => Gathered(t, h, cmds)
    BY <2>2, Zenon DEF Gathered
  <2>8. CASE Asking(s, h)
    <3>1. PICK x : x = <<>> /\ Stage(s, h, x)
      BY <2>8 DEF Asking
    <3>2. \A heard \in Seq(Heard) : Inbox(s, h, heard) => Inbox(t, h, heard \o x)
      <4> TAKE heard \in Seq(Heard)
      <4>1. heard \o x = heard
        BY <3>1, Assoc
      <4> QED BY <2>6, <4>1
    <3>3. Stage(t, h, x)
      BY <2>2, <2>5, <3>1, <3>2, StageMoves
    <3>4. "read" \in t.active /\ t.active \subseteq {"read", "write"}
      BY <1>3, <1>7, <2>8 DEF Asking
    <3> QED BY <1>7, <2>2, <2>4, <2>8, <3>1, <3>3, <3>4 DEF Asking, Busy
  <2>9. CASE Typing(s, h)
    <3>1. "input" \in t.active /\ t.active \subseteq {"input", "write"}
      BY <1>3, <1>7, <2>9 DEF Typing
    <3>2. Typing(t, h)
      BY <2>2, <2>4, <2>5, <2>6, <2>7, <2>9, <3>1, Zenon DEF Typing
    <3> QED BY <1>7, <2>2, <3>2 DEF Busy
  <2> QED BY <2>1, <2>8, <2>9
<1>8. CASE s.output_buffer = <<>> /\ s.drain_handler # "NULL" /\ t = start_shutdown(a)
  <2>1. Closing(s, h) /\ s.active = {"write"} /\ s.sent_close = "no"
    BY <1>8 DEF Busy, Asking, Typing, Held, Closing
  <2>2. /\ Watched(t) /\ Sound(t, Alphabet, Watchers) /\ Only(a, t, WatchFields)
        /\ t.active = a.active \cup {"shutdown"}
    BY <1>3, <1>4, <1>8, StartFedSound DEF start_shutdown
  <2>3. Only(s, t, WatchFields)
    BY <1>3, <2>2, OnlyTrans DEF WatchFields
  <2>4. t.active = {"shutdown"}
    BY <1>3, <2>1, <2>2
  <2>5. /\ t.reader = s.reader /\ t.client_input = s.client_input /\ t.chunks = s.chunks
        /\ t.eof = s.eof /\ t.stdin = s.stdin
        /\ t.tls = s.tls /\ t.process = s.process /\ t.faults = s.faults
        /\ t.client = s.client /\ t.exit_code = s.exit_code
        /\ t.hs = s.hs /\ t.out = s.out /\ t.output = s.output
        /\ t.output_buffer = s.output_buffer
        /\ t.sent_close = s.sent_close /\ t.drain_handler = s.drain_handler
        /\ ClientFields \subseteq DOMAIN t
    BY <1>1, <2>3 DEF Only, ClientFields, WatchFields, IsConn, TlsFields
  <2>6. Valid(t)
    <3>1. t.active \subseteq Watchers
      BY <2>4 DEF Watchers, IoWatchers
    <3> QED BY <1>1, <2>2, <2>5, <3>1 DEF Valid
  <2>7. Sent(t, h) = Sent(s, h)
    BY <2>5, Zenon DEF Sent
  <2>8. Success(s, h) => Success(t, h)
    BY <2>5, <2>7, Zenon DEF Success
  <2>9. Stopped(t, h)
    <3>1. "input" \notin t.active /\ Stopped(s, h)
      BY <2>1, <2>4 DEF Closing
    <3> QED BY <2>5, <2>6, <2>7, <2>8, <3>1, Zenon DEF Stopped
  <2>10. Closing(t, h)
    BY <1>8, <2>1, <2>4, <2>5, <2>9 DEF Closing, Clean, Flushing, Drained
  <2> QED BY <1>8, <2>5, <2>10 DEF Busy
<1> QED BY <1>5, <1>6, <1>7, <1>8

\* One turn of write_cb's outer loop.
LEMMA WriteTurn ==
  ASSUME NEW s, NEW h, ValidHistory(h), Busy(s, h), "write" \in s.active,
         NEW r, r = CB!WriteOutput(s)
  PROVE  /\ Busy(r.s, h) \/ Ended(r.s, h)
         /\ r.done = "yes" => /\ Busy(r.s, h)
                              /\ r.s.output_buffer # <<>> => "write" \in r.s.active
<1>1. PICK o : o = IF s.output # <<>> THEN s
                   ELSE [s EXCEPT !.output = s.output_buffer, !.output_buffer = <<>>]
  OBVIOUS
<1>2. Busy(o, h) /\ o.active = s.active
  BY <1>1, TakenOver
<1>3. PICK d \in Seq(Alphabet) : d = o.output
  BY <1>2, BusyParts
<1>4. PICK x : x = SSL_write(o, d)
  OBVIOUS
<1>5. PICK u : u = x.next
  OBVIOUS
<1>6. /\ x.code \in Codes /\ (x.code # "done" => u = o)
      /\ Sound(u, Alphabet, Watchers)
      /\ \E n \in 0..Len(d) : x.got = SubSeq(d, 1, n) /\ Len(x.got) = n
      /\ x.code = "done" => Only(o, u, {"out"}) /\ u.out = Cat(o.out, x.got)
  <2>1. /\ x.code \in Codes /\ (x.code # "done" => x.next = o)
        /\ Sound(x.next, Alphabet, Watchers)
        /\ \E n \in 0..Len(d) : x.got = SubSeq(d, 1, n) /\ Len(x.got) = n
        /\ x.code = "done" =>
             Only(o, x.next, {"out"}) /\ x.next.out = Cat(o.out, x.got)
    BY <1>2, <1>4, Writes
  <2> QED BY <1>5, <2>1, Zenon
<1>7. PICK n \in 0..Len(d) : x.got = SubSeq(d, 1, n) /\ Len(x.got) = n
  BY <1>6
<1>8. PICK got : got = x.got /\ got = SubSeq(d, 1, n) /\ Len(got) = n
  BY <1>7
<1>9. PICK rest : rest = SubSeq(d, n + 1, Len(d))
  OBVIOUS
<1>10. PICK t : t = [u EXCEPT !.output = rest]
  OBVIOUS
<1>11. got \in Seq(Alphabet) /\ rest \in Seq(Alphabet) /\ d = Cat(got, rest)
  <2>1. SubSeq(d, 1, n) \o SubSeq(d, n + 1, Len(d)) = d
    BY Halves
  <2>2. SubSeq(d, 1, n) \in Seq(Alphabet) /\ SubSeq(d, n + 1, Len(d)) \in Seq(Alphabet)
    BY Cut
  <2> QED BY <1>8, <1>9, <2>1, <2>2, Zenon DEF Cat
<1>12. r = CASE x.code # "done" ->
                  [done |-> "no", s |-> CB!check_tls_error(u, "write", x.code)]
             [] x.code = "done" /\ rest # <<>> ->
                  [done |-> "no", s |-> CB!check_tls_error(t, "write", "want_write")]
             [] x.code = "done" /\ rest = <<>> ->
                  [done |-> "yes", s |-> CB!Written(t)]
  <2>1. CB!SSL_write(o, o.output) = x
    BY <1>3, <1>4, SameWrite
  <2>2. Len(x.got) = n
    BY <1>8
  <2> QED
    BY <1>1, <1>3, <1>5, <1>9, <1>10, <2>1, <2>2, Zenon DEF CB!WriteOutput
<1>13. CASE x.code # "done"
  <2>1. PICK v : v = CB!check_tls_error(o, "write", x.code)
    OBVIOUS
  <2>2. r = [done |-> "no", s |-> v]
    BY <1>6, <1>12, <1>13, <2>1
  <2>3. Busy(v, h) \/ Ended(v, h)
    <3>1. Mortal(o, h)
      BY <1>2, BusyMortal
    <3> QED BY <1>2, <1>6, <1>13, <2>1, <3>1, Waits DEF Busy
  <2> QED BY <2>2, <2>3
<1>14. CASE x.code = "done"
  <2>1. Busy(t, h) /\ t.active = o.active /\ t.output = rest
    <3>1. Only(o, u, {"out"}) /\ u.out = Cat(o.out, got) /\ Sound(u, Alphabet, Watchers)
      BY <1>6, <1>8, <1>14
    <3>2. o.output = Cat(got, rest) /\ "write" \in o.active
      BY <1>2, <1>3, <1>11
    <3>3. Only(u, t, {"output"}) /\ t.output = rest
      <4>1. "output" \in DOMAIN u
        BY <1>2, <3>1, BusyParts DEF Only, IsConn, TlsFields
      <4> QED BY <1>10, <4>1 DEF Only
    <3> QED BY <1>2, <1>11, <3>1, <3>2, <3>3, Transmits
  <2>2. CASE rest # <<>>
    <3>1. PICK v : v = CB!check_tls_error(t, "write", "want_write")
      OBVIOUS
    <3>2. r = [done |-> "no", s |-> v]
      BY <1>12, <1>14, <2>2, <3>1
    <3>3. Busy(v, h) \/ Ended(v, h)
      <4>1. Mortal(t, h)
        BY <2>1, BusyMortal
      <4>2. "want_write" \in Codes /\ "want_write" # "done" /\ "write" \in t.active
        BY <1>2, <2>1 DEF Codes
      <4> QED BY <2>1, <3>1, <4>1, <4>2, Waits DEF Busy
    <3> QED BY <3>2, <3>3
  <2>3. CASE rest = <<>>
    <3>1. PICK v : v = CB!Written(t)
      OBVIOUS
    <3>2. r = [done |-> "yes", s |-> v]
      BY <1>12, <1>14, <2>3, <3>1
    <3>3. /\ Busy(v, h) /\ (v.output_buffer # <<>> => "write" \in v.active)
      <4>1. "write" \in t.active /\ t.output = <<>>
        BY <1>2, <2>1, <2>3
      <4> QED BY <2>1, <3>1, <4>1, WrittenKeeps
    <3> QED BY <3>2, <3>3
  <2> QED BY <2>2, <2>3
<1> QED BY <1>13, <1>14

\* write_cb.
LEMMA WriteCallback ==
  ASSUME NEW c, NEW h, ValidHistory(h), Busy(c, h), "write" \in c.active,
         NEW t, t = CB!write_cb(c)
  PROVE  Busy(t, h) \/ Ended(t, h)
<1>1. PICK s : s = CB!Touch(CB!reset_watcher_state(c, "read"))
  OBVIOUS
<1>2. Busy(s, h) /\ "write" \in s.active
  <2>1. Valid(c)
    BY BusyParts
  <2>2. /\ Alike(c, s)
        /\ (Asking(c, h) => Asking(s, h)) /\ (Typing(c, h) => Typing(s, h))
        /\ (Closing(c, h) => Closing(s, h))
    BY <1>1, <2>1, Woken
  <2> QED BY <2>2 DEF Busy, Alike
<1>3. PICK r : r = CB!WriteOutput(s)
  OBVIOUS
<1>4. /\ Busy(r.s, h) \/ Ended(r.s, h)
      /\ r.done = "yes" => /\ Busy(r.s, h)
                           /\ r.s.output_buffer # <<>> => "write" \in r.s.active
  BY <1>2, <1>3, WriteTurn
<1>5. PICK q : q = CB!WriteOutput(r.s)
  OBVIOUS
<1>6. t = IF r.done = "yes" /\ r.s.output_buffer # <<>> THEN q.s ELSE r.s
  BY <1>1, <1>3, <1>5 DEF CB!write_cb
<1>7. CASE r.done = "yes" /\ r.s.output_buffer # <<>>
  <2>1. Busy(r.s, h) /\ "write" \in r.s.active
    BY <1>4, <1>7
  <2>2. Busy(q.s, h) \/ Ended(q.s, h)
    BY <1>5, <2>1, WriteTurn
  <2> QED BY <1>6, <1>7, <2>2
<1>8. CASE ~(r.done = "yes" /\ r.s.output_buffer # <<>>)
  BY <1>4, <1>6, <1>8
<1> QED BY <1>7, <1>8

-----------------------------------------------------------------------------
(* shutdown_cb and timeout_cb.                                             *)

\* The close notify alert is sent.
LEMMA SendsClose ==
  ASSUME NEW s, NEW h, ValidHistory(h), Closing(s, h), "shutdown" \in s.active,
         s.sent_close = "no", NEW c,
         c = [s EXCEPT !.out = Append(@, CloseNotify), !.sent_close = "yes"],
         Sound(c, Alphabet, Watchers)
  PROVE  Closing(c, h) /\ c.sent_close = "yes" /\ c.active = {"shutdown"}
<1>1. /\ Valid(s) /\ Watched(s) /\ IsConn(s) /\ ClientFields \subseteq DOMAIN s
      /\ s.out \in Seq(Alphabet)
  BY BusyParts DEF Busy
<1>2. /\ Only(s, c, {"out", "sent_close"}) /\ c.sent_close = "yes"
      /\ c.out = Append(s.out, CloseNotify)
  BY <1>1 DEF Only, IsConn, TlsFields
<1>3. /\ c.tls = s.tls /\ c.process = s.process /\ c.faults = s.faults
      /\ c.active = s.active /\ c.pending = s.pending
      /\ c.client = s.client /\ c.reader = s.reader
      /\ c.client_input = s.client_input /\ c.chunks = s.chunks /\ c.eof = s.eof
      /\ c.exit_code = s.exit_code /\ c.stdin = s.stdin /\ c.hs = s.hs
      /\ c.output = s.output /\ c.output_buffer = s.output_buffer
      /\ c.drain_handler = s.drain_handler /\ ClientFields \subseteq DOMAIN c
      /\ IsConn(c)
  BY <1>1, <1>2 DEF Only, ClientFields, IsConn, TlsFields
<1>4. s.active = {"shutdown"} /\ s.output = <<>> /\ s.output_buffer = <<>>
  BY DEF Closing, Flushing, Drained
<1>5. Valid(c)
  <2>1. Watched(c)
    BY <1>1, <1>3 DEF Watched
  <2> QED BY <1>1, <1>3, <2>1, ZenonT(40) DEF Valid
<1>6. PICK q \in Seq(Alphabet) : q = Sent(s, h)
  BY <1>1, SentType
<1>7. PICK k \in Alphabet : k = CloseNotify
  BY OwnPieces
<1>8. PICK g \in Seq(Alphabet) : g = Append(q, k)
  BY OneMore
<1>9. Sent(c, h) = g
  <2>1. PICK a \in Seq(Alphabet), b \in Seq(Alphabet) : a = s.out /\ b = h.taken
    BY <1>1 DEF ValidHistory
  <2>2. PICK d \in Seq(Alphabet) : d = Append(a, k) /\ d = a \o <<k>>
    BY OneMore
  <2>3. (a \o <<>>) \o <<>> = a /\ (d \o <<>>) \o <<>> = d
    <3>1. Cat(a, <<>>) = a /\ Cat(d, <<>>) = d
      BY CatEmpty
    <3> QED BY <3>1, Zenon DEF Cat
  <2>4. q = b \o a /\ Sent(c, h) = b \o d
    BY <1>2, <1>3, <1>4, <1>6, <1>7, <2>1, <2>2, <2>3, Zenon DEF Sent
  <2>5. PICK w \in Seq(Alphabet) : w = <<k>>
    BY JustOne
  <2>6. Append(q, k) = q \o <<k>>
    BY OneMore
  <2>7. Cat(Cat(b, a), w) = Cat(b, Cat(a, w))
    BY CatAssoc
  <2> QED BY <1>8, <2>2, <2>4, <2>5, <2>6, <2>7, Zenon DEF Cat
<1>10. Load(Sent(c, h)) <= Len(h.said) + 1
  <2>1. Load(g) <= Load(q)
    <3>1. k.kw # "data" /\ ~IsLine(k)
      BY <1>7 DEF CloseNotify, Piece, IsLine
    <3> QED BY <1>8, <3>1, LoadAppend
  <2>2. Load(q) \in Nat /\ Load(g) \in Nat
    BY LoadParts
  <2>3. PICK l \in Nat : l = Len(h.said)
    BY LenProperties DEF ValidHistory
  <2>4. Load(q) <= l + 1
    BY <1>6, <2>3 DEF Closing, Stopped
  <2> QED BY <1>9, <2>1, <2>2, <2>3, <2>4
<1>11. ASSUME Success(s, h) PROVE Success(c, h)
  <2>1. PICK cmds \in Seq(Orders) :
          /\ Complete(h, cmds) /\ Sent(s, h) = Sofar(cmds) \o <<Piece("QUIT", 0)>>
          /\ IsPrefix(Acks(2 * Len(cmds) + 1), h.said)
    BY <1>11, Zenon DEF Success
  <2>2. Sent(c, h) = Sofar(cmds) \o <<Piece("QUIT", 0), CloseNotify>>
    <3>1. PICK f \in Seq(Alphabet) : f = Sofar(cmds)
      BY SofarType
    <3>2. PICK p \in Alphabet : p = Piece("QUIT", 0)
      BY OwnPieces
    <3>3. PICK u \in Seq(Alphabet), w \in Seq(Alphabet) : u = <<p>> /\ w = <<k>>
      BY JustOne
    <3>4. Append(u, k) = <<p, k>> /\ Append(u, k) = u \o w
      BY <3>3, OneMore, Tuples
    <3>5. Append(q, k) = q \o <<k>>
      BY OneMore
    <3>6. Cat(Cat(f, u), w) = Cat(f, Cat(u, w))
      BY CatAssoc
    <3>7. q = Cat(f, u)
      BY <1>6, <2>1, <3>1, <3>2, <3>3, Zenon DEF Cat
    <3>8. g = Cat(Cat(f, u), w)
      BY <1>8, <3>3, <3>5, <3>7, Zenon DEF Cat
    <3> QED BY <1>7, <1>9, <3>1, <3>2, <3>4, <3>6, <3>8, Zenon DEF Cat
  <2>3. c.sent_close # "no"
    BY <1>2
  <2> QED BY <2>1, <2>2, <2>3, Zenon DEF Success
<1>12. Stopped(c, h)
  <2>1. Stopped(s, h)
    BY DEF Closing
  <2> QED BY <1>3, <1>5, <1>10, <1>11, <2>1, Zenon DEF Stopped
<1>13. Flushing(c)
  BY <1>3, <1>4 DEF Flushing, Drained
<1>14. "write" \notin c.active /\ c.active \in {{"write"}, {"shutdown"}} /\ c.active = {"shutdown"}
  BY <1>3, <1>4
<1>15. Closing(c, h)
  BY <1>3, <1>12, <1>13, <1>14, Zenon DEF Closing, Clean
<1> QED BY <1>2, <1>14, <1>15

\* tls_free, when the peer has closed the connection, too.
LEMMA ClosingFrees ==
  ASSUME NEW s, NEW h, Closing(s, h), s.active = {"shutdown"}, s.sent_close = "yes",
         NEW t, t = tls_free(s)
  PROVE  Freed(t, h)
<1>1. /\ Valid(s) /\ Watched(s) /\ Sound(s, Alphabet, Watchers) /\ IsConn(s)
      /\ ClientFields \subseteq DOMAIN s
  BY BusyParts DEF Busy
<1>2. /\ Watched(t) /\ Sound(t, Alphabet, Watchers)
      /\ Only(s, t, {"active", "pending", "timer", "tls"})
      /\ \A w : w \in t.active <=> w \in s.active /\ w \notin IoWatchers
      /\ t.tls = "freed"
  BY <1>1, FreeOnly DEF Closing
<1>3. t.active = {}
  BY <1>2 DEF IoWatchers
<1>4. /\ t.process = s.process /\ t.faults = s.faults
      /\ t.client = s.client /\ t.reader = s.reader
      /\ t.client_input = s.client_input /\ t.chunks = s.chunks /\ t.eof = s.eof
      /\ t.exit_code = s.exit_code /\ t.stdin = s.stdin
      /\ t.out = s.out /\ t.output = s.output /\ t.output_buffer = s.output_buffer
      /\ t.sent_close = s.sent_close /\ ClientFields \subseteq DOMAIN t
  BY <1>1, <1>2 DEF Only, ClientFields, IsConn, TlsFields
<1>5. Valid(t)
  <2>1. t.active \subseteq Watchers /\ t.tls \in {"none", "live", "freed"}
    BY <1>2, <1>3
  <2> QED BY <1>1, <1>2, <1>4, <2>1 DEF Valid
<1>6. Sent(t, h) = Sent(s, h)
  BY <1>4, Zenon DEF Sent
<1>7. Success(s, h) => Success(t, h)
  BY <1>4, <1>6, Zenon DEF Success
<1>8. Stopped(t, h)
  <2>1. "input" \notin t.active /\ Stopped(s, h)
    BY <1>3 DEF Closing
  <2> QED BY <1>4, <1>5, <1>6, <1>7, <2>1, Zenon DEF Stopped
<1>9. Drained(t)
  BY <1>4 DEF Closing, Flushing, Drained
<1> QED BY <1>2, <1>3, <1>4, <1>8, <1>9 DEF Freed, Closing, Clean

\* shutdown_cb.
LEMMA ShutdownCallback ==
  ASSUME NEW c, NEW h, ValidHistory(h), Closing(c, h), "shutdown" \in c.active,
         NEW t, t = CB!shutdown_cb(c)
  PROVE  Closing(t, h) \/ Freed(t, h) \/ Ended(t, h)
<1>1. Valid(c) /\ Watched(c) /\ Sound(c, Alphabet, Watchers)
  BY BusyParts DEF Busy
<1>2. PICK s : s = Touch(c)
  OBVIOUS
<1>3. Watched(s) /\ Sound(s, Alphabet, Watchers) /\ Only(c, s, {"age"})
  BY <1>1, <1>2, TouchSound
<1>4. Closing(s, h) /\ s.active = {"shutdown"} /\ s.hs = <<>>
  <2>1. Closing(s, h) /\ Alike(c, s)
    BY <1>1, <1>3, PhaseKept DEF PhaseFields
  <2> QED BY <2>1 DEF Alike, Closing
<1>5. PICK x : x = SSL_shutdown(s)
  OBVIOUS
<1>6. Result(s, x, {"out", "sent_close"}, Alphabet)
  BY <1>3, <1>5, ShutdownResult DEF Sound
<1>7. Sound(x.next, Alphabet, Watchers) /\ x.code \in Codes
  BY <1>3, <1>6, SoundCall DEF Result
<1>8. t = IF x.code = "done" THEN tls_free(x.next)
          ELSE CB!check_tls_error(x.next, "shutdown", x.code)
  <2>1. t = LET y == CB!SSL_shutdown(CB!Touch(c))
            IN IF y.code = "done" THEN CB!tls_free(y.next)
               ELSE CB!check_tls_error(y.next, "shutdown", y.code)
    BY Zenon DEF CB!shutdown_cb
  <2>2. CB!Touch(c) = s
    BY <1>2 DEF CB!Touch, Touch
  <2>3. CB!SSL_shutdown(s) = x
    BY <1>5, SameShutdown
  <2>4. CB!tls_free(x.next) = tls_free(x.next)
    BY SameFree
  <2> QED BY <2>1, <2>2, <2>3, <2>4, Zenon
<1>9. PICK e : e = [s EXCEPT !.out = Append(@, CloseNotify), !.sent_close = "yes"]
  OBVIOUS
<1>10. PICK b : b = IF s.sent_close = "yes" THEN s ELSE e
  OBVIOUS
<1>11. \/ x.code # "done" /\ x.next = s
       \/ x.next = b
  <2>1. x = IF s.link = "reset" \/ s.hs # <<>> THEN Outcome("error", <<>>, s)
            ELSE IF s.sent_close = "no" /\ Room(s) = 0
                 THEN Outcome("want_write", <<>>, s)
            ELSE IF b.rbuf # <<>> THEN Outcome("error", <<>>, b)
            ELSE IF b.in = <<>> THEN Outcome("want_read", <<>>, b)
            ELSE Outcome(IF Head(b.in) = <<CloseNotify>> THEN "done" ELSE "error",
                         <<>>, b)
    BY <1>5, <1>9, <1>10, Zenon DEF SSL_shutdown
  <2>2. CASE s.link = "reset" \/ s.hs # <<>>
    <3>1. x = Outcome("error", <<>>, s)
      BY <2>1, <2>2, Zenon
    <3>2. x.code = "error" /\ x.next = s
      BY <3>1 DEF Outcome
    <3> QED BY <3>2
  <2>3. CASE ~(s.link = "reset" \/ s.hs # <<>>)
    <3>1. PICK code : \/ x = Outcome("want_write", <<>>, s)
                      \/ x = Outcome(code, <<>>, b)
      BY <2>1, <2>3, Zenon
    <3>2. CASE x = Outcome("want_write", <<>>, s)
      <4>1. x.code = "want_write" /\ x.next = s
        BY <3>2 DEF Outcome
      <4> QED BY <4>1
    <3>3. CASE x = Outcome(code, <<>>, b)
      BY <3>3 DEF Outcome
    <3> QED BY <3>1, <3>2, <3>3
  <2> QED BY <2>2, <2>3
<1>12. CASE x.code # "done" /\ x.next = s
  <2>1. Mortal(s, h)
    BY <1>4, ClosingMortal
  <2> QED BY <1>4, <1>7, <1>8, <1>12, <2>1, Waits
<1>13. CASE x.next = b
  <2>1. Closing(b, h) /\ b.sent_close = "yes" /\ b.active = {"shutdown"}
    <3>1. CASE s.sent_close = "yes"
      BY <1>4, <1>10, <3>1
    <3>2. CASE s.sent_close # "yes"
      <4>1. b = e /\ s.sent_close = "no" /\ Sound(e, Alphabet, Watchers)
        BY <1>3, <1>7, <1>10, <1>13, <3>2 DEF Sound, Streams
      <4> QED BY <1>4, <1>9, <4>1, SendsClose
    <3> QED BY <3>1, <3>2
  <2>2. CASE x.code = "done"
    <3>1. t = tls_free(b)
      BY <1>8, <1>13, <2>2
    <3> QED BY <2>1, <3>1, ClosingFrees
  <2>3. CASE x.code # "done"
    <3>1. Mortal(b, h)
      BY <2>1, ClosingMortal
    <3> QED BY <1>7, <1>8, <1>13, <2>1, <2>3, <3>1, Waits
  <2> QED BY <2>2, <2>3
<1> QED BY <1>11, <1>12, <1>13

\* Starting the timer again keeps the phase.
LEMMA TimerKeeps ==
  ASSUME NEW s, Valid(s), NEW n \in 0..Timeout, NEW t, t = ev_timer_start(s, n), NEW h
  PROVE  /\ (Opening(s, h) => Opening(t, h)) /\ (Asking(s, h) => Asking(t, h))
         /\ (Typing(s, h) => Typing(t, h)) /\ (Closing(s, h) => Closing(t, h))
<1>1. Watched(s) /\ Sound(s, Alphabet, Watchers) /\ IsConn(s) /\ Timed(s)
  BY DEF Valid, Watched, Sound
<1>2. Only(s, t, {"timer", "left"}) /\ Timed(t)
  BY <1>1, TimerStart
<1>3. Streams(t, Alphabet) /\ Buffered(t, Alphabet) /\ Eventful(t, Watchers)
  BY <1>1, <1>2, StreamsKept, BufferedKept, EventfulKept DEF Sound, BufferFields
<1>4. t.pending = s.pending /\ t.active = s.active /\ IsConn(t)
  BY <1>1, <1>2 DEF Only, IsConn, TlsFields
<1>5. Watched(t) /\ Sound(t, Alphabet, Watchers)
  BY <1>1, <1>2, <1>3, <1>4 DEF Watched, Sound
<1>6. {"timer", "left"} \cap PhaseFields = {}
  BY DEF PhaseFields
<1> QED BY <1>2, <1>5, <1>6, PhaseKept

\* A connection that is alive is valid, and it may end.
LEMMA AliveMortal ==
  ASSUME NEW s, NEW h, ValidHistory(h), Alive(s, h)
  PROVE  Mortal(s, h) /\ Valid(s) /\ s.tls = "live" /\ s.process = "running"
<1>1. CASE Opening(s, h)
  BY <1>1, StartingMortal DEF Opening, Starting, Clean
<1>2. CASE Busy(s, h)
  <2>1. Mortal(s, h) /\ Valid(s)
    BY <1>2, BusyMortal, BusyParts
  <2>2. s.tls = "live" /\ s.process = "running"
    BY <1>2 DEF Busy, Asking, Typing, Closing, Held, Clean
  <2> QED BY <2>1, <2>2
<1> QED BY <1>1, <1>2 DEF Alive, Busy

\* ... and so is one that was freed.
LEMMA FreedMortal ==
  ASSUME NEW s, NEW h, Freed(s, h)
  PROVE  Mortal(s, h) /\ Valid(s)
<1>1. s.client = "freed" /\ s.reader # "live" /\ "input" \notin s.active /\ s.faults = {}
  BY DEF Freed, Stopped, Clean
<1>2. Valid(s) /\ Load(Sent(s, h)) <= Len(h.said) + 1
  BY DEF Freed, Stopped
<1> QED BY <1>1, <1>2 DEF Mortal

\* timeout_cb.
LEMMA TimeoutCallback ==
  ASSUME NEW s, NEW h, ValidHistory(h), Alive(s, h) \/ Freed(s, h),
         NEW t, t = CB!timeout_cb(s)
  PROVE  Alive(t, h) \/ Ended(t, h)
<1>1. Mortal(s, h) /\ Valid(s)
  BY AliveMortal, FreedMortal
<1>2. s.age \in 0..Timeout /\ Timeout \in Nat
  BY <1>1, TlsAssumption DEF Valid, Sound, Timed
<1>3. t = IF s.tls = "freed" THEN die(s, "stale timeout")
          ELSE IF s.age < Timeout THEN ev_timer_start(s, Timeout - s.age)
          ELSE die(s, "connection timed out")
  BY ClientAssumption DEF CB!timeout_cb, CB!die, CB!Fault, die, Fault,
                          CB!ev_timer_start, ev_timer_start
<1>4. CASE s.tls # "freed" /\ s.age < Timeout
  <2>1. PICK n \in 0..Timeout : n = Timeout - s.age
    BY <1>2, <1>4
  <2>2. t = ev_timer_start(s, n)
    BY <1>3, <1>4, <2>1
  <2>3. Alive(s, h)
    BY <1>4 DEF Freed
  <2> QED BY <1>1, <2>2, <2>3, TimerKeeps DEF Alive
<1>5. CASE ~(s.tls # "freed" /\ s.age < Timeout)
  <2>1. PICK what \in Deaths \cup {"stale timeout"} : t = die(s, what)
    BY <1>3, <1>5 DEF Deaths
  <2> QED BY <1>1, <2>1, Dies
<1> QED BY <1>4, <1>5

-----------------------------------------------------------------------------
(* The event loop.                                                         *)

\* A step that changes none of a phase's fields keeps the phase.
LEMMA StaysAlive ==
  ASSUME NEW s, Valid(s), NEW t, NEW F, Only(s, t, F), F \cap PhaseFields = {},
         Watched(t), Sound(t, Alphabet, Watchers), NEW h
  PROVE  /\ (Alive(s, h) => Alive(t, h)) /\ (Freed(s, h) => Freed(t, h))
         /\ Valid(t) /\ Alike(s, t)
<1>1. /\ (Opening(s, h) => Opening(t, h)) /\ (Asking(s, h) => Asking(t, h))
      /\ (Typing(s, h) => Typing(t, h)) /\ (Closing(s, h) => Closing(t, h))
      /\ (Freed(s, h) => Freed(t, h)) /\ Valid(t) /\ Alike(s, t)
  BY PhaseKept
<1> QED BY <1>1 DEF Alive

\* While the process runs, the connection has not ended.
LEMMA RunningPhase ==
  ASSUME NEW s, NEW h, ValidHistory(h), Phase(s, h), s.process = "running"
  PROVE  /\ Fresh(s, h) \/ Alive(s, h) \/ Freed(s, h)
         /\ Valid(s) /\ Watched(s) /\ Sound(s, Alphabet, Watchers) /\ IsConn(s)
         /\ s.tls # "live" => s.active = {}
         /\ s.active # {} => Alive(s, h)
         /\ s.client # "none" => Alive(s, h) \/ Freed(s, h)
<1>1. Fresh(s, h) \/ Alive(s, h) \/ Freed(s, h)
  BY DEF Phase, Ended
<1>2. Valid(s)
  BY <1>1, AliveMortal DEF Fresh, Freed, Stopped
<1>3. Alive(s, h) => s.tls = "live"
  BY AliveMortal
<1> QED BY <1>1, <1>2, <1>3 DEF Fresh, Freed, Valid, Watched

\* A callback that libev invokes: of a watcher that is active.
LEMMA Invoked ==
  ASSUME NEW h, ValidHistory(h), Phase(conn, h), InvokeIo
  PROVE  Phase(conn', h)
<1>1. conn.process = "running" /\ conn.pending # <<>>
  BY DEF InvokeIo, Running
<1>2. Valid(conn) /\ Watched(conn) /\ Sound(conn, Alphabet, Watchers) /\ IsConn(conn)
  BY <1>1, RunningPhase
<1>3. PICK s : s = PopPending(conn)
  OBVIOUS
<1>4. PICK w : w = Last(conn.pending)
  OBVIOUS
<1>5. Watched(s) /\ Only(conn, s, {"pending"}) /\ w \in conn.active
  BY <1>1, <1>2, <1>3, <1>4, PopPendingOnly
<1>6. Sound(s, Alphabet, Watchers)
  BY <1>2, <1>5, SoundKept DEF SoundFields
<1>7. {"pending"} \cap PhaseFields = {}
  BY DEF PhaseFields
<1>8. Alive(conn, h)
  BY <1>1, <1>5, RunningPhase
<1>9. Alive(s, h) /\ s.active = conn.active
  BY <1>2, <1>5, <1>6, <1>7, <1>8, StaysAlive DEF Alike
<1>10. conn' = CASE w = "init"     -> connect_cb(s)
                 [] w = "read"     -> CB!read_cb(s)
                 [] w = "write"    -> CB!write_cb(s)
                 [] w = "shutdown" -> CB!shutdown_cb(s)
                 [] w = "input"    -> input_read_cb(s)
  BY <1>3, <1>4, Zenon DEF InvokeIo
<1>11. w \in s.active
  BY <1>5, <1>9
<1>12. CASE w = "init"
  <2>1. conn' = connect_cb(s)
    BY <1>10, <1>12
  <2>2. Opening(s, h)
    BY <1>9, <1>11, <1>12 DEF Alive, Asking, Typing, Closing
  <2> QED BY <2>1, <2>2, ConnectCallback DEF Phase, Alive
<1>13. CASE w = "read"
  <2>1. conn' = CB!read_cb(s)
    BY <1>10, <1>13
  <2>2. Asking(s, h)
    BY <1>9, <1>11, <1>13 DEF Alive, Opening, Typing, Closing
  <2> QED BY <2>1, <2>2, ReadCallback DEF Phase, Alive
<1>14. CASE w = "write"
  <2>1. conn' = CB!write_cb(s)
    BY <1>10, <1>14
  <2>2. Busy(s, h)
    BY <1>9, <1>11, <1>14 DEF Alive, Opening, Busy
  <2>3. Busy(conn', h) \/ Ended(conn', h)
    BY <1>11, <1>14, <2>1, <2>2, WriteCallback
  <2> QED BY <2>3 DEF Phase, Alive, Busy
<1>15. CASE w = "shutdown"
  <2>1. conn' = CB!shutdown_cb(s)
    BY <1>10, <1>15
  <2>2. Closing(s, h)
    BY <1>9, <1>11, <1>15 DEF Alive, Opening, Asking, Typing
  <2> QED BY <1>11, <1>15, <2>1, <2>2, ShutdownCallback DEF Phase, Alive
<1>16. CASE w = "input"
  <2>1. conn' = input_read_cb(s)
    BY <1>10, <1>16
  <2>2. Typing(s, h)
    BY <1>9, <1>11, <1>16 DEF Alive, Opening, Asking, Closing
  <2> QED BY <2>1, <2>2, InputCallback DEF Phase, Alive
<1>17. w \in Watchers
  BY <1>2, <1>5 DEF Valid
<1> QED BY <1>12, <1>13, <1>14, <1>15, <1>16, <1>17 DEF Watchers, IoWatchers

\* The timer's callback.
LEMMA TimedOut ==
  ASSUME NEW h, ValidHistory(h), Phase(conn, h), InvokeTimeout
  PROVE  Phase(conn', h)
<1>1. /\ conn.process = "running" /\ "due" \in conn.timer
      /\ conn' = CB!timeout_cb([conn EXCEPT !.timer = @ \ {"due"}])
  BY DEF InvokeTimeout, Running
<1>2. Valid(conn) /\ Watched(conn) /\ Sound(conn, Alphabet, Watchers) /\ IsConn(conn)
  BY <1>1, RunningPhase
<1>3. PICK s : s = [conn EXCEPT !.timer = @ \ {"due"}]
  OBVIOUS
<1>4. Only(conn, s, {"timer"}) /\ s.timer = conn.timer \ {"due"}
  BY <1>2, <1>3 DEF Only, IsConn, TlsFields
<1>5. /\ s.pending = conn.pending /\ s.active = conn.active /\ IsConn(s)
      /\ s.left = conn.left /\ s.age = conn.age
  BY <1>2, <1>4 DEF Only, IsConn, TlsFields
<1>6. Watched(s) /\ Timed(s)
  BY <1>2, <1>4, <1>5 DEF Watched, Sound, Timed
<1>7. Streams(s, Alphabet) /\ Buffered(s, Alphabet) /\ Eventful(s, Watchers)
  BY <1>2, <1>4, StreamsKept, BufferedKept, EventfulKept DEF Sound, BufferFields
<1>8. Sound(s, Alphabet, Watchers)
  BY <1>6, <1>7 DEF Sound
<1>9. {"timer"} \cap PhaseFields = {}
  BY DEF PhaseFields
<1>10. Alive(conn, h) \/ Freed(conn, h)
  BY <1>1, RunningPhase DEF Fresh
<1>11. Alive(s, h) \/ Freed(s, h)
  BY <1>2, <1>4, <1>6, <1>8, <1>9, <1>10, StaysAlive
<1>12. conn' = CB!timeout_cb(s)
  BY <1>1, <1>3
<1> QED BY <1>11, <1>12, TimeoutCallback DEF Phase

\* The loop waits.
LEMMA LoopWaits ==
  ASSUME NEW h, ValidHistory(h), Phase(conn, h), Poll
  PROVE  Phase(conn', h)
<1>1. PICK order \in SetToAllKPermutations(ReadySet), ticks \in 0..1 :
        conn' = Polled(conn, order, ticks)
  BY DEF Poll
<1>2. conn.process = "running" /\ conn.pending = <<>> /\ conn.client # "none"
  BY DEF Poll, LoopIdle, Running
<1>3. /\ Valid(conn) /\ Watched(conn) /\ Sound(conn, Alphabet, Watchers)
      /\ Alive(conn, h) \/ Freed(conn, h)
  BY <1>2, RunningPhase
<1>4. ReadySet \subseteq conn.active /\ conn.active \subseteq Watchers
  BY <1>3 DEF ReadySet, Valid
<1>5. ReadySet \subseteq IoWatchers \cup {"input"}
  BY <1>4 DEF Watchers
<1>6. Listed(order, ReadySet)
  BY <1>1, <1>5, OrderListed
<1>7. Listed(order, conn.active)
  BY <1>4, <1>6, ListedMore
<1>8. /\ Watched(conn') /\ Sound(conn', Alphabet, Watchers)
      /\ Only(conn, conn', {"pending", "age", "left", "timer"})
  BY <1>1, <1>2, <1>3, <1>7, PolledOnly
<1>9. {"pending", "age", "left", "timer"} \cap PhaseFields = {}
  BY DEF PhaseFields
<1>10. Alive(conn', h) \/ Freed(conn', h)
  BY <1>3, <1>8, <1>9, StaysAlive
<1> QED BY <1>10 DEF Phase

\* The loop ends, and main returns.
LEMMA Exits ==
  ASSUME NEW h, ValidHistory(h), Phase(conn, h), Exit
  PROVE  Phase(conn', h)
<1>1. PICK s : s = conn
  OBVIOUS
<1>2. PICK t : t = conn'
  OBVIOUS
<1>3. /\ s.process = "running" /\ s.client # "none" /\ s.active = {}
      /\ t = [s EXCEPT !.process = "exited"]
  BY <1>1, <1>2 DEF Exit, LoopIdle, Running
<1>4. Freed(s, h)
  <2>1. Alive(s, h) \/ Freed(s, h)
    BY <1>1, <1>3, RunningPhase
  <2>2. ~Alive(s, h)
    BY <1>3 DEF Alive, Opening, Asking, Typing, Closing
  <2> QED BY <2>1, <2>2
<1>5. Valid(s) /\ Mortal(s, h) /\ IsConn(s) /\ Sound(s, Alphabet, Watchers)
  BY <1>4, FreedMortal DEF Valid, Watched
<1>6. Only(s, t, {"process"}) /\ t.process = "exited"
  BY <1>3, <1>5 DEF Only, IsConn, TlsFields
<1>7. Sound(t, Alphabet, Watchers)
  BY <1>5, <1>6, SoundKept DEF SoundFields
<1>8. /\ t.tls = s.tls /\ t.faults = s.faults /\ t.active = s.active
      /\ t.pending = s.pending /\ t.client = s.client /\ t.reader = s.reader
      /\ t.client_input = s.client_input /\ t.chunks = s.chunks /\ t.eof = s.eof
      /\ t.exit_code = s.exit_code /\ t.stdin = s.stdin
      /\ t.out = s.out /\ t.output = s.output /\ t.output_buffer = s.output_buffer
      /\ t.sent_close = s.sent_close /\ ClientFields \subseteq DOMAIN t /\ IsConn(t)
  BY <1>5, <1>6 DEF Valid, Only, ClientFields, IsConn, TlsFields
<1>9. Valid(t)
  <2>1. Watched(t)
    BY <1>5, <1>8 DEF Valid, Watched
  <2> QED BY <1>5, <1>7, <1>8, <2>1 DEF Valid
<1>10. Sent(t, h) = Sent(s, h)
  BY <1>8, Zenon DEF Sent
<1>11. Success(s, h) => Success(t, h)
  BY <1>8, <1>10, Zenon DEF Success
<1>12. /\ s.exit_code = "SUCCESS" => Success(s, h)
       /\ s.sent_close = "yes" /\ Drained(s) /\ s.faults = {}
       /\ s.client = "freed" => s.reader # "live" /\ "input" \notin s.active
       /\ s.client = "live" /\ s.client_input = "set" => s.reader = "live"
       /\ Load(Sent(s, h)) <= Len(h.said) + 1
  BY <1>4, <1>5 DEF Freed, Stopped, Clean, Mortal
<1>13. Drained(t)
  BY <1>8, <1>12 DEF Drained
<1>14. Ended(t, h)
  <2>1. t.faults \subseteq Deaths \cup {"stale timeout"}
    BY <1>8, <1>12
  <2>2. Load(Sent(t, h)) <= Len(h.said) + 1
    BY <1>10, <1>12
  <2>3. t.exit_code = "SUCCESS" => Success(t, h) /\ t.sent_close = "yes" /\ Drained(t)
    BY <1>8, <1>11, <1>12, <1>13
  <2>4. /\ t.client = "freed" => t.reader # "live" /\ "input" \notin t.active
        /\ t.client = "live" /\ t.client_input = "set" => t.reader = "live"
    BY <1>8, <1>12
  <2> QED BY <1>6, <1>9, <2>1, <2>2, <2>3, <2>4 DEF Ended
<1> QED BY <1>2, <1>14 DEF Phase

\* The connection that tls_new and tls_on_timeout set up.
LEMMA SetUp ==
  ASSUME NEW s, NEW h, Fresh(s, h), NEW a, a = [s EXCEPT !.client = "live"],
         NEW b, b = tls_new(a),
         NEW c, c = tls_on_timeout(b, "default_timeout_handler")
  PROVE  Starting(c, h) /\ c.active = {} /\ c.hs # <<>>
<1>1. /\ Valid(s) /\ Watched(s) /\ Sound(s, Alphabet, Watchers) /\ IsConn(s)
      /\ ClientFields \subseteq DOMAIN s
  BY DEF Fresh, Valid, Watched
<1>2. Only(s, a, {"client"}) /\ a.client = "live"
  BY <1>1 DEF Only, ClientFields
<1>3. Sound(a, Alphabet, Watchers)
  BY <1>1, <1>2, SoundKept DEF SoundFields
<1>4. Streams(a, Alphabet) /\ Eventful(a, Watchers) /\ IsConn(a)
  BY <1>3 DEF Sound, Streams
<1>5. /\ Watched(b) /\ Sound(b, Alphabet, Watchers) /\ Only(a, b, NewFields)
      /\ b.tls = "live" /\ b.active = {}
      /\ b.drain_handler = "NULL"
      /\ b.output = <<>> /\ b.output_buffer = <<>>
      /\ b.input_buffer = <<>> /\ b.hs = InitialHandshake
  BY <1>4, NewOnly
<1>6. b.input_size = 0
  <2>1. {"input_size", "input"} \subseteq DOMAIN a
    BY <1>4 DEF IsConn, TlsFields
  <2> QED BY <2>1 DEF tls_new
<1>7. Watched(c) /\ Sound(c, Alphabet, Watchers) /\ Only(b, c, TimeoutFields)
  BY <1>5, OnTimeoutOnly
<1>8. IsConn(b) /\ IsConn(c) /\ DOMAIN b = DOMAIN s /\ DOMAIN c = DOMAIN s
  BY <1>1, <1>2, <1>5, <1>7 DEF Only, Watched
<1>9. /\ a.process = s.process /\ a.faults = s.faults /\ a.reader = s.reader
      /\ a.client_input = s.client_input /\ a.chunks = s.chunks /\ a.eof = s.eof
      /\ a.exit_code = s.exit_code /\ a.stdin = s.stdin
      /\ a.rbuf = s.rbuf /\ a.in = s.in /\ a.out = s.out
      /\ a.sent_close = s.sent_close
  BY <1>1, <1>2 DEF Only, ClientFields, IsConn, TlsFields
<1>10. /\ b.process = a.process /\ b.faults = a.faults /\ b.reader = a.reader
       /\ b.client_input = a.client_input /\ b.chunks = a.chunks /\ b.eof = a.eof
       /\ b.exit_code = a.exit_code /\ b.stdin = a.stdin
       /\ b.rbuf = a.rbuf /\ b.in = a.in /\ b.out = a.out
       /\ b.sent_close = a.sent_close /\ b.client = a.client
  BY <1>1, <1>2, <1>4, <1>5 DEF Only, ClientFields, IsConn, TlsFields, NewFields
<1>11. /\ c.process = b.process /\ c.faults = b.faults /\ c.reader = b.reader
       /\ c.client_input = b.client_input /\ c.chunks = b.chunks /\ c.eof = b.eof
       /\ c.exit_code = b.exit_code /\ c.stdin = b.stdin
       /\ c.rbuf = b.rbuf /\ c.in = b.in /\ c.out = b.out
       /\ c.sent_close = b.sent_close /\ c.client = b.client
       /\ c.tls = b.tls /\ c.active = b.active /\ c.drain_handler = b.drain_handler
       /\ c.output = b.output /\ c.output_buffer = b.output_buffer
       /\ c.input_buffer = b.input_buffer /\ c.hs = b.hs
       /\ c.input_size = b.input_size
  BY <1>1, <1>7, <1>8 DEF Only, ClientFields, IsConn, TlsFields, TimeoutFields
<1>12. Valid(c)
  <2>1. /\ s.exit_code \in {"SUCCESS", "FAILURE"} /\ s.eof \in {"no", "yes"}
        /\ s.reader \in {"none", "live", "freed"}
        /\ s.client_input \in {"NULL", "set"}
        /\ s.chunks \in Seq(Texts) /\ s.stdin \in Seq(Texts)
    BY <1>1 DEF Valid
  <2>2. /\ c.exit_code = s.exit_code /\ c.eof = s.eof /\ c.reader = s.reader
        /\ c.client_input = s.client_input /\ c.chunks = s.chunks
        /\ c.stdin = s.stdin /\ c.client = "live" /\ c.active = {} /\ c.tls = "live"
    BY <1>2, <1>5, <1>9, <1>10, <1>11
  <2> QED BY <1>1, <1>7, <1>8, <2>1, <2>2 DEF Valid
<1>13. Clean(c)
  BY <1>9, <1>10, <1>11 DEF Fresh, Clean
<1>14. Untouched(c, h)
  <2>1. Untouched(s, h)
    BY DEF Fresh
  <2> QED BY <1>5, <1>6, <1>9, <1>10, <1>11, <2>1 DEF Untouched, Drained
<1>15. c.hs = <<"send", "recv", "send">>
  BY <1>5, <1>11, ClientAssumption
<1>16. Shaking(c, h)
  <2>1. h.taken = <<>> /\ c.out = <<>> /\ c.in = <<>>
    BY <1>9, <1>10, <1>11 DEF Fresh
  <2> QED BY <1>15, <2>1, Zenon DEF Shaking
<1>17. c.tls = "live" /\ c.client = "live" /\ c.active = {}
  BY <1>2, <1>5, <1>10, <1>11
<1>18. Starting(c, h)
  BY <1>12, <1>13, <1>14, <1>16, <1>17 DEF Starting
<1>19. c.hs # <<>>
  BY <1>15, ShortLists
<1> QED BY <1>17, <1>18, <1>19

\* main begins the connection.
LEMMA Starts ==
  ASSUME NEW h, ValidHistory(h), Phase(conn, h), client_start
  PROVE  Phase(conn', h)
<1>1. conn.process = "running" /\ conn.client = "none"
  BY DEF client_start, Running
<1>2. Fresh(conn, h)
  <2>1. Fresh(conn, h) \/ Alive(conn, h) \/ Freed(conn, h)
    BY <1>1, RunningPhase
  <2>2. ~Alive(conn, h) /\ ~Freed(conn, h)
    BY <1>1 DEF Alive, Opening, Starting, Asking, Typing, Held, Closing, Freed, Stopped
  <2> QED BY <2>1, <2>2
<1>3. PICK a : a = [conn EXCEPT !.client = "live"]
  OBVIOUS
<1>4. PICK b : b = tls_new(a)
  OBVIOUS
<1>5. PICK c : c = tls_on_timeout(b, "default_timeout_handler")
  OBVIOUS
<1>6. Starting(c, h) /\ c.active = {} /\ c.hs # <<>>
  BY <1>2, <1>3, <1>4, <1>5, SetUp
<1>7. conn' = connect_cb_custom(c)
  BY <1>3, <1>4, <1>5, Zenon DEF client_start, tls_connect
<1>8. Opening(conn', h) \/ Asking(conn', h) \/ Ended(conn', h)
  BY <1>6, <1>7, ConnectsAtOnce
<1> QED BY <1>8 DEF Phase, Alive

-----------------------------------------------------------------------------
(* The user and the server.                                                *)

\* What the user and the server leave alone.
Kin(s, t) ==
  /\ t.tls = s.tls /\ t.process = s.process /\ t.faults = s.faults
  /\ t.active = s.active /\ t.client = s.client /\ t.reader = s.reader
  /\ t.client_input = s.client_input /\ t.chunks = s.chunks /\ t.eof = s.eof
  /\ t.command = s.command /\ t.exit_code = s.exit_code
  /\ t.hs = s.hs /\ t.rbuf = s.rbuf
  /\ t.input_buffer = s.input_buffer /\ t.input_size = s.input_size
  /\ t.output = s.output /\ t.output_buffer = s.output_buffer
  /\ t.sent_close = s.sent_close /\ t.drain_handler = s.drain_handler
  /\ t.read_handler = s.read_handler

\* They type, read and send.
LEMMA Outside ==
  ASSUME NEW s, Valid(s), NEW t, Only(s, t, {"stdin", "in", "out"}),
         t.stdin \in Seq(Texts), t.in \in Seq(Seq(Alphabet)), t.out \in Seq(Alphabet),
         Len(t.out) <= OutCapacity
  PROVE  Valid(t) /\ Kin(s, t)
<1>1. /\ Watched(s) /\ Sound(s, Alphabet, Watchers) /\ IsConn(s)
      /\ ClientFields \subseteq DOMAIN s
  BY DEF Valid, Watched
<1>2. Kin(s, t) /\ t.pending = s.pending
  BY <1>1 DEF Only, IsConn, TlsFields, ClientFields, Kin
<1>3. IsConn(t) /\ ClientFields \subseteq DOMAIN t
  BY <1>1 DEF Only, IsConn
<1>4. Timed(t) /\ Buffered(t, Alphabet) /\ Eventful(t, Watchers)
  <2>1. /\ {"stdin", "in", "out"} \cap {"timer", "left", "age"} = {}
        /\ {"stdin", "in", "out"} \cap BufferFields = {}
        /\ "events" \notin {"stdin", "in", "out"}
    BY DEF BufferFields
  <2>2. Timed(s) /\ Buffered(s, Alphabet) /\ Eventful(s, Watchers)
    BY <1>1 DEF Sound
  <2>3. Timed(t)
    BY <2>1, <2>2, TimedKept
  <2>4. Buffered(t, Alphabet)
    BY <2>1, <2>2, BufferedKept
  <2>5. Eventful(t, Watchers)
    BY <2>1, <2>2, EventfulKept
  <2> QED BY <2>3, <2>4, <2>5
<1>5. Streams(t, Alphabet)
  <2>1. /\ HS \in Alphabet /\ CloseNotify \in Alphabet /\ s.rbuf \in Seq(Alphabet)
        /\ s.hs \in Seq({"recv", "send"}) /\ s.sent_close \in {"yes", "no"}
    BY <1>1 DEF Sound, Streams
  <2>2. t.rbuf = s.rbuf /\ t.hs = s.hs /\ t.sent_close = s.sent_close
    BY <1>2 DEF Kin
  <2> QED BY <1>3, <2>1, <2>2 DEF Streams
<1>6. Watched(t) /\ Sound(t, Alphabet, Watchers)
  <2>1. t.active = s.active
    BY <1>2 DEF Kin
  <2> QED BY <1>1, <1>2, <1>3, <1>4, <1>5, <2>1 DEF Watched, Sound
<1>7. Valid(t)
  <2>1. /\ t.tls = s.tls /\ t.active = s.active /\ t.client = s.client
        /\ t.reader = s.reader /\ t.client_input = s.client_input
        /\ t.chunks = s.chunks /\ t.eof = s.eof /\ t.exit_code = s.exit_code
    BY <1>2 DEF Kin
  <2>2. /\ s.active \subseteq Watchers
        /\ s.tls \in {"none", "live", "freed"}
        /\ s.exit_code \in {"SUCCESS", "FAILURE"} /\ s.eof \in {"no", "yes"}
        /\ {s.client, s.reader} \subseteq {"none", "live", "freed"}
        /\ s.client_input \in {"NULL", "set"} /\ s.chunks \in Seq(Texts)
    BY DEF Valid
  <2> QED BY <1>3, <1>6, <2>1, <2>2 DEF Valid
<1> QED BY <1>2, <1>7

\* A stage of the session goes on.
LEMMA StageGoesOn ==
  ASSUME NEW s, NEW t, Kin(s, t), NEW h, NEW g, Stage(s, h, <<>>),
         Sent(t, g) = Sent(s, h),
         \A x \in Seq(Heard) : Inbox(s, h, x) => Inbox(t, g, x),
         \A cmds : Gathered(s, h, cmds) => Gathered(t, g, cmds)
  PROVE  Stage(t, g, <<>>)
<1>1. PICK x : x = <<>>
  OBVIOUS
<1>2. ASSUME NEW cmds, NEW sent, NEW heard \in Seq(Heard),
             Talk(s, h, cmds, sent, heard, x)
      PROVE  Talk(t, g, cmds, sent, heard, x)
  <2>1. heard \o x = heard
    BY <1>1, Assoc
  <2>2. Inbox(t, g, heard \o x)
    BY <1>2, <2>1, Zenon DEF Talk
  <2> QED BY <1>2, <2>2, Zenon DEF Talk
<1>3. \A cmds \in Seq(Orders) :
        /\ Acks(2 * Len(cmds)) \in Seq(Heard) /\ Acks(2 * Len(cmds) + 1) \in Seq(Heard)
  <2> TAKE cmds \in Seq(Orders)
  <2>1. 2 * Len(cmds) \in Nat /\ 2 * Len(cmds) + 1 \in Nat
    OBVIOUS
  <2> QED BY <2>1, AcksHeard
<1>4. Stage(s, h, x)
  BY <1>1
<1>5. CASE Greeting(s, h, x)
  <2>1. <<>> \in Seq(Heard)
    OBVIOUS
  <2>2. Greeting(t, g, x)
    BY <1>2, <1>5, <2>1, Zenon DEF Greeting, Kin
  <2> QED BY <1>1, <2>2, Zenon DEF Stage
<1>6. CASE Announcing(s, h, x)
  <2>1. Announcing(t, g, x)
    BY <1>2, <1>3, <1>6, Zenon DEF Announcing, Kin
  <2> QED BY <1>1, <2>1, Zenon DEF Stage
<1>7. CASE Submitting(s, h, x)
  <2>1. Submitting(t, g, x)
    BY <1>2, <1>3, <1>7, Zenon DEF Submitting, Kin
  <2> QED BY <1>1, <2>1, Zenon DEF Stage
<1>8. CASE Leaving(s, h, x)
  <2>1. Leaving(t, g, x)
    BY <1>2, <1>3, <1>8, Zenon DEF Leaving, Kin
  <2> QED BY <1>1, <2>1, Zenon DEF Stage
<1> QED BY <1>4, <1>5, <1>6, <1>7, <1>8 DEF Stage

\* The session stays in its phase.
LEMMA GoesOn ==
  ASSUME NEW s, NEW t, Valid(t), Kin(s, t),
         NEW h, ValidHistory(h), NEW g, ValidHistory(g), Len(h.said) <= Len(g.said),
         h.taken # <<>> => g.taken # <<>>, Sent(t, g) = Sent(s, h),
         \A x \in Seq(Heard) : Inbox(s, h, x) => Inbox(t, g, x),
         \A cmds : Gathered(s, h, cmds) => Gathered(t, g, cmds),
         Success(s, h) => Success(t, g),
         Opening(s, h) => Untouched(t, g) /\ Shaking(t, g)
  PROVE  (Alive(s, h) => Alive(t, g)) /\ (Freed(s, h) => Freed(t, g))
<1>1. (Clean(s) => Clean(t)) /\ (Drained(s) => Drained(t)) /\ (Flushing(s) => Flushing(t))
  BY DEF Kin, Clean, Drained, Flushing
<1>2. Opening(s, h) => Opening(t, g)
  BY <1>1 DEF Kin, Opening, Starting
<1>3. Held(s, h) => Held(t, g)
  BY <1>1, Zenon DEF Kin, Held
<1>4. Asking(s, h) => Asking(t, g)
  <2>1. Stage(s, h, <<>>) => Stage(t, g, <<>>)
    BY StageGoesOn
  <2> QED BY <1>3, <2>1, Zenon DEF Kin, Asking
<1>5. Typing(s, h) => Typing(t, g)
  <2>1. ASSUME NEW cmds \in Seq(Orders), Inbox(s, h, Acks(2 * Len(cmds)))
        PROVE  Inbox(t, g, Acks(2 * Len(cmds)))
    <3>1. 2 * Len(cmds) \in Nat
      OBVIOUS
    <3>2. Acks(2 * Len(cmds)) \in Seq(Heard)
      BY <3>1, AcksHeard
    <3> QED BY <2>1, <3>2
  <2> QED BY <1>3, <2>1, Zenon DEF Kin, Typing
<1>6. Stopped(s, h) => Stopped(t, g)
  <2>1. ASSUME Stopped(s, h) PROVE Load(Sent(t, g)) <= Len(g.said) + 1
    <3>1. PICK l \in Nat : l = Load(Sent(s, h))
      BY <2>1, SentType DEF Stopped
    <3>2. PICK m \in Nat, n \in Nat : m = Len(h.said) /\ n = Len(g.said)
      BY LenProperties DEF ValidHistory
    <3>3. l <= m + 1
      BY <2>1, <3>1, <3>2 DEF Stopped
    <3>4. l <= n + 1
      BY <3>2, <3>3
    <3> QED BY <3>1, <3>2, <3>4
  <2> QED BY <2>1, Zenon DEF Kin, Stopped
<1>7. Closing(s, h) => Closing(t, g)
  BY <1>1, <1>6, Zenon DEF Kin, Closing
<1>8. Freed(s, h) => Freed(t, g)
  BY <1>1, <1>6, Zenon DEF Kin, Freed
<1> QED BY <1>2, <1>4, <1>5, <1>7, <1>8 DEF Alive

\* What the user types comes after all that was typed.
LEMMA UserTypes ==
  ASSUME NEW s, NEW h, ValidHistory(h), Phase(s, h), s.process = "running",
         EndOfFile \notin Range(h.typed), NEW p \in Texts,
         p # EndOfFile => Len(h.typed) < MaxTyped,
         NEW g, g.typed = Append(h.typed, p), g.said = h.said, g.taken = h.taken,
         NEW t, t = [s EXCEPT !.stdin = Append(@, p)]
  PROVE  ValidHistory(g) /\ Phase(t, g)
<1>1. PICK typed1 \in Seq(Texts) : typed1 = h.typed
  BY DEF ValidHistory
<1>2. \A i \in 1..Len(typed1) : typed1[i] # EndOfFile
  BY <1>1 DEF Range
<1>3. typed1 # <<>> => Last(typed1) # EndOfFile
  BY <1>2 DEF Last
<1>4. PICK m \in Nat, n \in Nat : m = Len(typed1) /\ n = MaxTyped
  BY <1>1, LenProperties, ClientAssumption
<1>5. m <= n
  <2>1. m <= n + 1
    BY <1>1, <1>4 DEF ValidHistory
  <2>2. m # n + 1
    <3>1. ASSUME m = n + 1 PROVE FALSE
      <4>1. Last(typed1) = EndOfFile
        BY <1>1, <1>4, <3>1 DEF ValidHistory
      <4>2. typed1 # <<>>
        <5>1. Len(<<>>) = 0 /\ m # 0
          BY <1>4, <3>1
        <5> QED BY <1>4, <5>1
      <4> QED BY <1>3, <4>1, <4>2
    <3> QED BY <3>1
  <2> QED BY <2>1, <2>2
<1>6. PICK typed2 \in Seq(Texts) : typed2 = g.typed /\ typed2 = Append(typed1, p)
  <2>1. Append(typed1, p) \in Seq(Texts)
    BY OneMore
  <2> QED BY <1>1, <2>1
<1>7. /\ Len(typed2) = m + 1 /\ typed2[m + 1] = p
      /\ \A i \in 1..m : typed2[i] = typed1[i]
  BY <1>4, <1>6, OneMore
<1>8. ValidHistory(g)
  <2>1. Len(typed2) <= MaxTyped + 1
    BY <1>4, <1>5, <1>7
  <2>2. Len(typed2) = MaxTyped + 1 => Last(typed2) = EndOfFile
    <3>1. ASSUME Len(typed2) = MaxTyped + 1 PROVE Last(typed2) = EndOfFile
      <4>1. ~(m < n)
        BY <1>4, <1>7, <3>1
      <4>2. p = EndOfFile
        BY <1>1, <1>4, <4>1
      <4> QED BY <1>7, <4>2 DEF Last
    <3> QED BY <3>1
  <2>3. \A i \in 1..Len(typed2) : typed2[i] = EndOfFile => i = Len(typed2)
    BY <1>2, <1>4, <1>7
  <2>4. /\ g.said \in Seq(Responses) /\ g.taken \in Seq(Alphabet)
        /\ Len(g.said) <= MaxSaid
    BY DEF ValidHistory
  <2> QED BY <1>6, <2>1, <2>2, <2>3, <2>4 DEF ValidHistory
<1>9. \A cmds : ~Complete(h, cmds)
  BY <1>1, <1>3, Zenon DEF Complete
<1>10. /\ Valid(s) /\ Watched(s) /\ Sound(s, Alphabet, Watchers) /\ IsConn(s)
       /\ Fresh(s, h) \/ Alive(s, h) \/ Freed(s, h)
  BY RunningPhase
<1>11. PICK stdin \in Seq(Texts) : stdin = s.stdin
  BY <1>10 DEF Valid
<1>12. PICK more \in Seq(Texts) : more = Append(stdin, p)
  BY OneMore
<1>13. Only(s, t, {"stdin"}) /\ t.stdin = more
  BY <1>10, <1>11, <1>12 DEF Only, Valid, ClientFields
<1>14. /\ t.in = s.in /\ t.out = s.out /\ t.link = s.link /\ t.timer = s.timer
       /\ Only(s, t, {"stdin", "in", "out"})
  BY <1>10, <1>13 DEF Only, IsConn, TlsFields
<1>15. Valid(t) /\ Kin(s, t)
  <2>1. /\ s.in \in Seq(Seq(Alphabet)) /\ s.out \in Seq(Alphabet)
        /\ Len(s.out) <= OutCapacity
    BY <1>10 DEF Sound, Streams
  <2> QED BY <1>10, <1>13, <1>14, <2>1, Outside
<1>16. Sent(t, g) = Sent(s, h)
  BY <1>14, <1>15, Zenon DEF Sent, Kin
<1>17. \A x \in Seq(Heard) : Inbox(s, h, x) => Inbox(t, g, x)
  BY <1>14, <1>15, Zenon DEF Inbox, Kin
<1>18. \A cmds : Gathered(s, h, cmds) => Gathered(t, g, cmds)
  <2> SUFFICES ASSUME NEW cmds, Gathered(s, h, cmds) PROVE Gathered(t, g, cmds)
    OBVIOUS
  <2>1. PICK used \in Seq(Texts) :
          /\ h.typed = used \o (s.chunks \o s.stdin)
          /\ cmds = Commands(used)
          /\ used # <<>> => Last(used).kw = "chunk"
    BY <1>9, Zenon DEF Gathered
  <2>2. s.eof = "no"
    BY <1>9, Zenon DEF Gathered
  <2>3. PICK chunks \in Seq(Texts) : chunks = s.chunks
    BY <1>10 DEF Valid
  <2>4. Append(used \o (chunks \o stdin), p) = used \o (chunks \o more)
    <3>1. PICK e \in Seq(Texts) : e = <<p>>
      BY JustOne
    <3>2. PICK a \in Seq(Texts), b \in Seq(Texts) :
            a = Cat(chunks, stdin) /\ b = Cat(used, a)
      BY CatAssoc
    <3>3. Append(b, p) = b \o <<p>> /\ more = stdin \o <<p>>
      <4>1. ASSUME NEW q \in Seq(Texts) PROVE Append(q, p) = q \o <<p>>
        BY AppendIsConcat
      <4> QED BY <1>12, <4>1
    <3>4. /\ Cat(Cat(used, a), e) = Cat(used, Cat(a, e))
          /\ Cat(Cat(chunks, stdin), e) = Cat(chunks, Cat(stdin, e))
      BY CatAssoc
    <3> QED BY <3>1, <3>2, <3>3, <3>4, Zenon DEF Cat
  <2>5. g.typed = used \o (t.chunks \o t.stdin)
    <3>1. t.chunks = chunks
      BY <1>15, <2>3 DEF Kin
    <3> QED BY <1>1, <1>6, <1>11, <1>13, <2>1, <2>3, <2>4, <3>1, Zenon
  <2>6. t.eof = "no"
    BY <1>15, <2>2 DEF Kin
  <2> QED BY <2>1, <2>5, <2>6, Zenon DEF Gathered
<1>19. Success(s, h) => Success(t, g)
  BY <1>9, Zenon DEF Success
<1>20. Untouched(s, h) => Untouched(t, g)
  <2>1. ASSUME Untouched(s, h) PROVE g.typed = t.stdin
    BY <1>1, <1>6, <1>11, <1>12, <1>13, <2>1, Zenon DEF Untouched
  <2> QED BY <1>15, <2>1, ZenonT(40) DEF Untouched, Kin, Drained
<1>21. Shaking(s, h) => Shaking(t, g)
  BY <1>14, <1>15, Zenon DEF Shaking, Kin
<1>22. CASE Fresh(s, h)
  <2>1. /\ s.tls = "none" /\ s.client = "none" /\ s.active = {} /\ s.timer = {}
        /\ Clean(s) /\ Untouched(s, h) /\ h.taken = <<>> /\ s.out = <<>> /\ s.in = <<>>
        /\ s.link = "connecting"
    BY <1>22, Zenon DEF Fresh
  <2>2. /\ t.tls = "none" /\ t.client = "none" /\ t.active = {} /\ Clean(t)
    BY <1>15, <2>1 DEF Kin, Clean
  <2>3. Fresh(t, g)
    BY <1>14, <1>15, <1>20, <2>1, <2>2, Zenon DEF Fresh
  <2> QED BY <1>8, <2>3 DEF Phase
<1>23. CASE Alive(s, h) \/ Freed(s, h)
  <2>1. Len(h.said) <= Len(g.said)
    <3>1. Len(h.said) \in Nat
      BY LenProperties DEF ValidHistory
    <3> QED BY <3>1
  <2>2. Opening(s, h) => Untouched(t, g) /\ Shaking(t, g)
    BY <1>20, <1>21 DEF Opening, Starting
  <2>3. (Alive(s, h) => Alive(t, g)) /\ (Freed(s, h) => Freed(t, g))
    BY <1>8, <1>15, <1>16, <1>17, <1>18, <1>19, <2>1, <2>2, GoesOn
  <2> QED BY <1>8, <1>23, <2>3, Zenon DEF Phase
<1> QED BY <1>8, <1>10, <1>22, <1>23 DEF Phase

\* The server has closed the connection.
HasClosed(s) == s.in # <<>> /\ Last(s.in) = <<CloseNotify>>

\* The responses that the client has not read.
Unread(s, h, x, q) == s.in = Records(q) /\ h.said = x \o q

\* What has not been closed holds responses and nothing else.
LEMMA OpenInbox ==
  ASSUME NEW s, NEW h, NEW x, Inbox(s, h, x),
         ~HasClosed(s)
  PROVE  \E q \in Seq(Responses) : Unread(s, h, x, q)
<1>1. PICK q \in Seq(Responses) :
        /\ s.in \in {Records(q), Append(Records(q), <<CloseNotify>>)}
        /\ h.said = x \o q
  BY Zenon DEF Inbox
<1>2. s.in # Append(Records(q), <<CloseNotify>>)
  <2>1. PICK S : Records(q) \in Seq(S) /\ <<CloseNotify>> \in S
    <3>1. PICK S : S = {<<q[i]>> : i \in 1..Len(q)} \cup {<<CloseNotify>>}
      OBVIOUS
    <3>2. Records(q) \in Seq(S) /\ <<CloseNotify>> \in S
      BY <3>1 DEF Records
    <3> QED BY <3>2
  <2>2. PICK r \in Seq(S), e \in S : r = Records(q) /\ e = <<CloseNotify>>
    BY <2>1
  <2>3. Append(r, e) # <<>> /\ Last(Append(r, e)) = e
    BY DEF Last
  <2> QED BY <2>2, <2>3 DEF HasClosed
<1> QED BY <1>1, <1>2 DEF Unread

\* A response in a record of its own.
LEMMA RecordsAppend ==
  ASSUME NEW q \in Seq(Responses), NEW p \in Responses
  PROVE  Append(Records(q), <<p>>) = Records(Append(q, p))
<1>1. PICK r \in Seq(Responses) : r = Append(q, p)
  BY OneMore
<1>2. PICK n \in Nat : n = Len(q)
  BY LenProperties
<1>3. /\ Len(r) = n + 1 /\ r[n + 1] = p /\ \A i \in 1..n : r[i] = q[i]
  BY <1>1, <1>2, OneMore
<1>4. PICK S : S = {<<a>> : a \in Responses}
  OBVIOUS
<1>5. PICK a \in Seq(S), e \in S : a = Records(q) /\ e = <<p>>
  <2>1. \A i \in 1..Len(q) : <<q[i]>> \in S
    BY <1>4
  <2>2. Records(q) \in Seq(S)
    BY <2>1 DEF Records
  <2>3. <<p>> \in S
    BY <1>4
  <2> QED BY <2>2, <2>3
<1>6. PICK b \in Seq(S) : b = Records(r)
  <2>1. \A i \in 1..Len(r) : <<r[i]>> \in S
    BY <1>4
  <2>2. Records(r) \in Seq(S)
    BY <2>1 DEF Records
  <2> QED BY <2>2
<1>7. Len(a) = n /\ \A i \in 1..n : a[i] = <<q[i]>>
  BY <1>2, <1>5 DEF Records
<1>8. Len(b) = n + 1 /\ \A i \in 1..(n + 1) : b[i] = <<r[i]>>
  BY <1>2, <1>3, <1>6 DEF Records
<1>9. PICK c \in Seq(S) : c = Append(a, e)
  BY OneMore
<1>10. Len(c) = n + 1 /\ c[n + 1] = e /\ \A i \in 1..n : c[i] = a[i]
  BY <1>7, <1>9, OneMore
<1>11. \A i \in 1..Len(c) : c[i] = b[i]
  <2> SUFFICES ASSUME NEW i \in 1..(n + 1) PROVE c[i] = b[i]
    BY <1>10
  <2>1. CASE i = n + 1
    BY <1>3, <1>5, <1>8, <1>10, <2>1
  <2>2. CASE i # n + 1
    <3>1. i \in 1..n
      BY <2>2
    <3> QED BY <1>3, <1>7, <1>8, <1>10, <3>1
  <2> QED BY <2>1, <2>2
<1>12. c = b
  BY <1>8, <1>10, <1>11, SeqEqual
<1> QED BY <1>1, <1>5, <1>6, <1>9, <1>12

\* Once the handshake is over, the peer has read a message of it, and until then
\* it has read at most one.
LEMMA OpeningTaken ==
  ASSUME NEW s, NEW h, Opening(s, h)
  PROVE  h.taken = <<>> \/ h.taken = <<HS>>
<1> QED BY Zenon DEF Opening, Starting, Shaking

\* In the other phases, something was read.
LEMMA AliveTaken ==
  ASSUME NEW s, NEW h, Alive(s, h), ~Opening(s, h)
  PROVE  h.taken # <<>>
<1> QED BY DEF Alive, Asking, Typing, Held, Closing

\* The connection is up.
LEMMA UpParts ==
  ASSUME NEW s, NEW h, ValidHistory(h), Phase(s, h), s.process = "running",
         s.tls = "live"
  PROVE  /\ Alive(s, h) /\ Valid(s) /\ IsConn(s) /\ ClientFields \subseteq DOMAIN s
         /\ s.stdin \in Seq(Texts) /\ s.in \in Seq(Seq(Alphabet))
         /\ s.out \in Seq(Alphabet) /\ Len(s.out) <= OutCapacity
         /\ s.output \in Seq(Alphabet) /\ s.output_buffer \in Seq(Alphabet)
<1>1. Alive(s, h) /\ Valid(s) /\ Sound(s, Alphabet, Watchers) /\ IsConn(s)
  BY RunningPhase DEF Fresh, Freed
<1> QED BY <1>1 DEF Valid, Sound, Streams, Buffered

\* The server reads the first piece of what was sent.
LEMMA PeerReads ==
  ASSUME NEW s, NEW h, ValidHistory(h), Phase(s, h), s.process = "running",
         s.tls = "live", s.out # <<>>,
         NEW g, g.typed = h.typed, g.said = h.said, g.taken = Append(h.taken, Head(s.out)),
         NEW t, t = [s EXCEPT !.out = Tail(@),
                              !.in = IF h.taken = <<>> THEN Append(@, <<HS>>) ELSE @]
  PROVE  ValidHistory(g) /\ Phase(t, g)
<1>1. /\ Alive(s, h) /\ Valid(s) /\ IsConn(s) /\ ClientFields \subseteq DOMAIN s
      /\ s.stdin \in Seq(Texts) /\ s.in \in Seq(Seq(Alphabet))
      /\ s.out \in Seq(Alphabet) /\ Len(s.out) <= OutCapacity
      /\ s.output \in Seq(Alphabet) /\ s.output_buffer \in Seq(Alphabet)
  BY UpParts
<1>2. PICK q \in Seq(Alphabet), a \in Seq(Alphabet) : q = s.out /\ a = h.taken
  BY <1>1 DEF ValidHistory
<1>3. PICK e \in Alphabet, rest \in Seq(Alphabet) :
        e = Head(q) /\ rest = Tail(q) /\ Len(rest) = Len(q) - 1
  BY <1>2, HeadTail
<1>4. PICK b \in Seq(Alphabet) : b = g.taken /\ b = Append(a, e) /\ b # <<>>
  <2>1. PICK b \in Seq(Alphabet) : b = Append(a, e) /\ Len(b) = Len(a) + 1
    BY OneMore
  <2>2. b # <<>>
    <3>1. PICK n \in Nat : n = Len(a)
      BY LenProperties
    <3>2. Len(b) # 0
      BY <2>1, <3>1
    <3> QED BY <3>2
  <2>3. b = g.taken
    BY <1>2, <1>3, <2>1
  <2> QED BY <2>1, <2>2, <2>3
<1>5. ValidHistory(g)
  BY <1>4, Zenon DEF ValidHistory
<1>6. PICK box : box = IF h.taken = <<>> THEN Append(s.in, <<HS>>) ELSE s.in
  OBVIOUS
<1>7. box \in Seq(Seq(Alphabet))
  <2>1. PICK k \in Seq(Alphabet) : k = <<HS>>
    BY OwnPieces, JustOne
  <2>2. Append(s.in, k) \in Seq(Seq(Alphabet))
    BY <1>1, OneMore
  <2> QED BY <1>1, <1>6, <2>1, <2>2
<1>8. t = [s EXCEPT !.out = rest, !.in = box]
  BY <1>2, <1>3, <1>6, Zenon
<1>9. /\ Only(s, t, {"stdin", "in", "out"}) /\ t.out = rest /\ t.in = box
      /\ t.stdin = s.stdin
  BY <1>1, <1>8 DEF Only, IsConn, TlsFields, ClientFields
<1>10. Valid(t) /\ Kin(s, t)
  <2>1. Len(rest) <= OutCapacity
    <3>1. PICK l \in Nat : l = Len(q)
      BY LenProperties
    <3>2. l <= OutCapacity /\ OutCapacity \in Nat
      BY <1>1, <1>2, <3>1, TlsAssumption
    <3> QED BY <1>3, <3>1, <3>2
  <2> QED BY <1>1, <1>3, <1>7, <1>9, <2>1, Outside
<1>11. Sent(t, g) = Sent(s, h)
  <2>1. PICK o \in Seq(Alphabet), p \in Seq(Alphabet) : o = s.output /\ p = s.output_buffer
    BY <1>1
  <2>2. t.output = o /\ t.output_buffer = p
    BY <1>10, <2>1 DEF Kin
  <2>3. PICK w \in Seq(Alphabet) : w = <<e>>
    BY JustOne
  <2>4. q = Cat(w, rest) /\ b = Cat(a, w)
    <3>1. q = <<e>> \o rest
      BY <1>2, <1>3
    <3>2. \A x \in Seq(Alphabet) : Append(x, e) = x \o <<e>>
      BY OneMore
    <3> QED BY <1>4, <2>3, <3>1, <3>2, Zenon DEF Cat
  <2>5. PICK c \in Seq(Alphabet), d \in Seq(Alphabet) : c = Cat(rest, o) /\ d = Cat(c, p)
    BY CatAssoc
  <2>6. /\ Cat(Cat(w, rest), o) = Cat(w, c) /\ Cat(Cat(w, c), p) = Cat(w, d)
        /\ Cat(Cat(a, w), d) = Cat(a, Cat(w, d))
    <3>1. Cat(Cat(w, rest), o) = Cat(w, c)
      BY <2>5, CatAssoc
    <3>2. Cat(Cat(w, c), p) = Cat(w, d)
      BY <2>5, CatAssoc
    <3>3. Cat(Cat(a, w), d) = Cat(a, Cat(w, d))
      BY CatAssoc
    <3> QED BY <3>1, <3>2, <3>3
  <2>7. Sent(s, h) = Cat(a, Cat(Cat(q, o), p))
    BY <1>2, <2>1, Zenon DEF Sent, Cat
  <2>8. Sent(t, g) = Cat(b, Cat(Cat(rest, o), p))
    BY <1>4, <1>9, <2>2, Zenon DEF Sent, Cat
  <2> QED BY <2>4, <2>5, <2>6, <2>7, <2>8, Zenon
<1>12. CASE h.taken = <<>>
  <2>1. Opening(s, h)
    BY <1>1, <1>12, AliveTaken
  <2>2. s.hs = <<"recv", "send">> /\ s.out = <<HS>> /\ s.in = <<>>
    <3>1. <<>> # <<HS>>
      BY JustOne
    <3> QED BY <1>12, <2>1, <3>1, Zenon DEF Opening, Starting, Shaking
  <2>3. g.taken = <<HS>> /\ t.out = <<>> /\ t.in = <<<<HS>>>>
    <3>1. Head(<<HS>>) = HS /\ Tail(<<HS>>) = <<>>
      OBVIOUS
    <3>2. Append(<<>>, HS) = <<HS>> /\ Append(<<>>, <<HS>>) = <<<<HS>>>>
      OBVIOUS
    <3> QED BY <1>2, <1>3, <1>4, <1>6, <1>9, <1>12, <2>2, <3>1, <3>2, Zenon
  <2>4. Shaking(t, g)
    <3>1. t.hs = <<"recv", "send">>
      BY <1>10, <2>2 DEF Kin
    <3>2. t.in \in {<<<<HS>>>>, <<<<HS>>, <<CloseNotify>>>>}
      BY <2>3
    <3> QED BY <2>3, <3>1, <3>2, Zenon DEF Shaking
  <2>5. Untouched(t, g)
    BY <1>9, <1>10, <2>1, ZenonT(40) DEF Opening, Starting, Untouched, Kin, Drained
  <2>6. Opening(t, g)
    BY <1>10, <2>1, <2>4, <2>5 DEF Opening, Starting, Kin, Clean
  <2> QED BY <1>5, <2>6 DEF Phase, Alive
<1>13. CASE h.taken # <<>>
  <2>1. t.in = s.in
    BY <1>6, <1>9, <1>13
  <2>2. ~Opening(s, h)
    <3>1. ASSUME Opening(s, h) PROVE FALSE
      BY <1>13, <3>1, ShortLists, Zenon DEF Opening, Starting, Shaking
    <3> QED BY <3>1
  <2>3. \A x \in Seq(Heard) : Inbox(s, h, x) => Inbox(t, g, x)
    BY <1>10, <2>1, Zenon DEF Inbox, Kin
  <2>4. \A cmds : Gathered(s, h, cmds) => Gathered(t, g, cmds)
    BY <1>9, <1>10, Zenon DEF Gathered, Complete, Kin
  <2>5. Success(s, h) => Success(t, g)
    BY <1>10, <1>11, Zenon DEF Success, Complete, Kin
  <2>6. g.taken # <<>> /\ Len(h.said) <= Len(g.said)
    <3>1. Len(h.said) \in Nat
      BY LenProperties DEF ValidHistory
    <3> QED BY <1>4, <3>1
  <2>7. Alive(t, g)
    BY <1>1, <1>5, <1>10, <1>11, <2>2, <2>3, <2>4, <2>5, <2>6, GoesOn
  <2> QED BY <1>5, <2>7 DEF Phase
<1> QED BY <1>12, <1>13

\* The server answers.
LEMMA PeerSends ==
  ASSUME NEW s, NEW h, ValidHistory(h), Phase(s, h), s.process = "running",
         s.tls = "live", ~HasClosed(s),
         h.taken # <<>>, h.taken # <<HS>>, Len(h.said) < MaxSaid, NEW p \in Responses,
         NEW g, g.typed = h.typed, g.said = Append(h.said, p), g.taken = h.taken,
         NEW t, t = [s EXCEPT !.in = Append(@, <<p>>)]
  PROVE  ValidHistory(g) /\ Phase(t, g)
<1>1. /\ Alive(s, h) /\ Valid(s) /\ IsConn(s) /\ ClientFields \subseteq DOMAIN s
      /\ s.stdin \in Seq(Texts) /\ s.in \in Seq(Seq(Alphabet))
      /\ s.out \in Seq(Alphabet) /\ Len(s.out) <= OutCapacity
      /\ s.output \in Seq(Alphabet) /\ s.output_buffer \in Seq(Alphabet)
  BY UpParts
<1>2. PICK said1 \in Seq(Responses), said2 \in Seq(Responses) :
        /\ said1 = h.said /\ said2 = g.said /\ said2 = Append(said1, p)
        /\ Len(said2) = Len(said1) + 1
  <2>1. PICK said1 \in Seq(Responses) : said1 = h.said
    BY DEF ValidHistory
  <2>2. PICK said2 \in Seq(Responses) :
          said2 = Append(said1, p) /\ Len(said2) = Len(said1) + 1
    BY OneMore
  <2> QED BY <2>1, <2>2
<1>3. ValidHistory(g)
  <2>1. PICK m \in Nat, n \in Nat : m = Len(said1) /\ n = MaxSaid /\ m < n
    BY <1>2, LenProperties, ClientAssumption
  <2>2. Len(g.said) <= MaxSaid /\ g.said \in Seq(Responses)
    BY <1>2, <2>1
  <2> QED BY <2>2, Zenon DEF ValidHistory
<1>4. PICK box \in Seq(Seq(Alphabet)) : box = Append(s.in, <<p>>)
  <2>1. PICK k \in Seq(Alphabet) : k = <<p>>
    BY JustOne DEF Alphabet
  <2> QED BY <1>1, <2>1, OneMore
<1>5. t = [s EXCEPT !.in = box]
  BY <1>4
<1>6. /\ Only(s, t, {"stdin", "in", "out"}) /\ t.out = s.out /\ t.in = box
      /\ t.stdin = s.stdin
  BY <1>1, <1>5 DEF Only, IsConn, TlsFields, ClientFields
<1>7. Valid(t) /\ Kin(s, t)
  BY <1>1, <1>6, Outside
<1>8. Sent(t, g) = Sent(s, h)
  BY <1>6, <1>7, Zenon DEF Sent, Kin
<1>9. ~Opening(s, h)
  BY OpeningTaken
<1>10. \A x \in Seq(Heard) : Inbox(s, h, x) => Inbox(t, g, x)
  <2> SUFFICES ASSUME NEW x \in Seq(Heard), Inbox(s, h, x) PROVE Inbox(t, g, x)
    OBVIOUS
  <2>1. PICK q \in Seq(Responses) : s.in = Records(q) /\ h.said = x \o q
    <3>1. PICK q \in Seq(Responses) : Unread(s, h, x, q)
      BY OpenInbox
    <3> QED BY <3>1 DEF Unread
  <2>2. PICK r \in Seq(Responses) : r = Append(q, p)
    BY OneMore
  <2>3. t.in = Records(r)
    BY <1>4, <1>6, <2>1, <2>2, RecordsAppend
  <2>4. g.said = x \o r
    <3>1. p \in Heard /\ q \in Seq(Heard)
      BY DEF Heard
    <3>2. PICK w \in Seq(Heard), d \in Seq(Heard) : w = <<p>> /\ d = Cat(x, q)
      BY <3>1, JustOne, CatAssoc
    <3>3. \A y \in Seq(Heard) : Append(y, p) = y \o <<p>>
      BY <3>1, OneMore
    <3>4. Cat(Cat(x, q), w) = Cat(x, Cat(q, w))
      BY <3>1, CatAssoc
    <3>5. g.said = Append(d, p)
      BY <2>1, <3>2, Zenon DEF Cat
    <3> QED BY <2>2, <3>1, <3>2, <3>3, <3>4, <3>5, Zenon DEF Cat
  <2>5. s.rbuf = <<>> /\ s.input_buffer = <<>>
    BY Zenon DEF Inbox
  <2>6. t.rbuf = <<>> /\ t.input_buffer = <<>>
    BY <1>7, <2>5 DEF Kin
  <2>7. t.in \in {Records(r), Append(Records(r), <<CloseNotify>>)}
    BY <2>3
  <2> QED BY <2>4, <2>6, <2>7, Zenon DEF Inbox
<1>11. \A cmds : Gathered(s, h, cmds) => Gathered(t, g, cmds)
  BY <1>6, <1>7, Zenon DEF Gathered, Complete, Kin
<1>12. Success(s, h) => Success(t, g)
  <2>1. ASSUME NEW a, IsPrefix(a, h.said) PROVE IsPrefix(a, g.said)
    BY <1>2, <2>1 DEF IsPrefix
  <2> QED BY <1>7, <1>8, <2>1, Zenon DEF Success, Complete, Kin
<1>13. Len(h.said) <= Len(g.said)
  <2>1. Len(said1) \in Nat
    BY LenProperties
  <2> QED BY <1>2, <2>1
<1>14. Alive(t, g)
  BY <1>1, <1>3, <1>7, <1>8, <1>9, <1>10, <1>11, <1>12, <1>13, GoesOn
<1> QED BY <1>3, <1>14 DEF Phase

\* The server closes.
LEMMA PeerCloses ==
  ASSUME NEW s, NEW h, ValidHistory(h), Phase(s, h), s.process = "running",
         s.tls = "live", ~HasClosed(s),
         h.taken # <<>>, NEW t, t = [s EXCEPT !.in = Append(@, <<CloseNotify>>)]
  PROVE  Phase(t, h)
<1>1. /\ Alive(s, h) /\ Valid(s) /\ IsConn(s) /\ ClientFields \subseteq DOMAIN s
      /\ s.stdin \in Seq(Texts) /\ s.in \in Seq(Seq(Alphabet))
      /\ s.out \in Seq(Alphabet) /\ Len(s.out) <= OutCapacity
      /\ s.output \in Seq(Alphabet) /\ s.output_buffer \in Seq(Alphabet)
  BY UpParts
<1>2. PICK box \in Seq(Seq(Alphabet)) : box = Append(s.in, <<CloseNotify>>)
  <2>1. PICK k \in Seq(Alphabet) : k = <<CloseNotify>>
    BY OwnPieces, JustOne
  <2> QED BY <1>1, <2>1, OneMore
<1>3. t = [s EXCEPT !.in = box]
  BY <1>2
<1>4. /\ Only(s, t, {"stdin", "in", "out"}) /\ t.out = s.out /\ t.in = box
      /\ t.stdin = s.stdin
  BY <1>1, <1>3 DEF Only, IsConn, TlsFields, ClientFields
<1>5. Valid(t) /\ Kin(s, t)
  BY <1>1, <1>4, Outside
<1>6. Sent(t, h) = Sent(s, h)
  BY <1>4, <1>5, Zenon DEF Sent, Kin
<1>7. \A x \in Seq(Heard) : Inbox(s, h, x) => Inbox(t, h, x)
  <2> SUFFICES ASSUME NEW x \in Seq(Heard), Inbox(s, h, x) PROVE Inbox(t, h, x)
    OBVIOUS
  <2>1. PICK q \in Seq(Responses) : s.in = Records(q) /\ h.said = x \o q
    <3>1. PICK q \in Seq(Responses) : Unread(s, h, x, q)
      BY OpenInbox
    <3> QED BY <3>1 DEF Unread
  <2>2. t.in \in {Records(q), Append(Records(q), <<CloseNotify>>)}
    BY <1>2, <1>4, <2>1
  <2>3. s.rbuf = <<>> /\ s.input_buffer = <<>>
    BY Zenon DEF Inbox
  <2>4. t.rbuf = <<>> /\ t.input_buffer = <<>>
    BY <1>5, <2>3 DEF Kin
  <2> QED BY <2>1, <2>2, <2>4, Zenon DEF Inbox
<1>8. \A cmds : Gathered(s, h, cmds) => Gathered(t, h, cmds)
  BY <1>4, <1>5, Zenon DEF Gathered, Kin
<1>9. Success(s, h) => Success(t, h)
  BY <1>5, <1>6, Zenon DEF Success, Kin
<1>10. ASSUME Opening(s, h) PROVE Untouched(t, h) /\ Shaking(t, h)
  <2>1. Untouched(t, h)
    BY <1>4, <1>5, <1>10, ZenonT(40) DEF Opening, Starting, Untouched, Kin, Drained
  <2>2. \/ /\ s.hs = <<"recv", "send">> /\ h.taken = <<HS>> /\ s.out = <<>>
           /\ s.in \in {<<<<HS>>>>, <<<<HS>>, <<CloseNotify>>>>}
        \/ /\ s.hs = <<"send">> /\ h.taken = <<HS>> /\ s.out = <<>>
           /\ s.in \in {<<>>, <<<<CloseNotify>>>>}
    BY <1>10, Zenon DEF Opening, Starting, Shaking
  <2>3. PICK k, e : k = <<HS>> /\ e = <<CloseNotify>>
    OBVIOUS
  <2>4. /\ Append(<<k>>, e) = <<k, e>> /\ Append(<<>>, e) = <<e>>
        /\ Last(<<k, e>>) = e /\ Last(<<e>>) = e
        /\ <<k, e>> # <<>> /\ <<e>> # <<>>
    <3>1. Append(<<k>>, e) = <<k, e>> /\ Append(<<>>, e) = <<e>>
      <4>1. PICK S : k \in S /\ e \in S
        <5>1. k \in {k, e} /\ e \in {k, e}
          OBVIOUS
        <5> QED BY <5>1
      <4> QED BY <4>1, Tuples
    <3>2. Last(<<k, e>>) = e
      BY DEF Last
    <3>3. Last(<<e>>) = e
      BY DEF Last
    <3>4. <<k, e>> # <<>> /\ <<e>> # <<>>
      OBVIOUS
    <3> QED BY <3>1, <3>2, <3>3, <3>4
  <2>5. t.hs = s.hs /\ t.out = s.out
    BY <1>4, <1>5 DEF Kin
  <2>6. CASE s.hs = <<"recv", "send">> /\ h.taken = <<HS>> /\ s.out = <<>>
             /\ s.in \in {<<<<HS>>>>, <<<<HS>>, <<CloseNotify>>>>}
    <3>1. s.in = <<k>>
      BY <2>3, <2>4, <2>6 DEF HasClosed
    <3>2. t.in \in {<<<<HS>>>>, <<<<HS>>, <<CloseNotify>>>>}
      BY <1>2, <1>4, <2>3, <2>4, <3>1
    <3> QED BY <2>1, <2>5, <2>6, <3>2, Zenon DEF Shaking
  <2>7. CASE s.hs = <<"send">> /\ h.taken = <<HS>> /\ s.out = <<>>
             /\ s.in \in {<<>>, <<<<CloseNotify>>>>}
    <3>1. s.in = <<>>
      BY <2>3, <2>4, <2>7 DEF HasClosed
    <3>2. t.in \in {<<>>, <<<<CloseNotify>>>>}
      BY <1>2, <1>4, <2>3, <2>4, <3>1
    <3> QED BY <2>1, <2>5, <2>7, <3>2, Zenon DEF Shaking
  <2> QED BY <2>2, <2>6, <2>7
<1>11. Len(h.said) <= Len(h.said)
  <2>1. Len(h.said) \in Nat
    BY LenProperties DEF ValidHistory
  <2> QED BY <2>1
<1>12. Alive(t, h)
  BY <1>1, <1>5, <1>6, <1>7, <1>8, <1>9, <1>10, <1>11, GoesOn
<1> QED BY <1>12 DEF Phase

\* The network connects, or fails.
LEMMA Linked ==
  ASSUME NEW s, NEW h, ValidHistory(h), Phase(s, h), s.process = "running",
         s.client # "none", NEW l, NEW t, t = [s EXCEPT !.link = l]
  PROVE  Phase(t, h)
<1>1. /\ Valid(s) /\ Watched(s) /\ Sound(s, Alphabet, Watchers) /\ IsConn(s)
      /\ Alive(s, h) \/ Freed(s, h)
  BY RunningPhase
<1>2. Only(s, t, {"link"}) /\ t.pending = s.pending /\ t.active = s.active /\ IsConn(t)
  BY <1>1 DEF Only, IsConn, TlsFields
<1>3. {"link"} \cap SoundFields = {} /\ {"link"} \cap PhaseFields = {}
  BY DEF SoundFields, PhaseFields
<1>4. Watched(t) /\ Sound(t, Alphabet, Watchers)
  BY <1>1, <1>2, <1>3, SoundKept DEF Watched
<1>5. Alive(t, h) \/ Freed(t, h)
  BY <1>1, <1>2, <1>3, <1>4, StaysAlive
<1> QED BY <1>5 DEF Phase

-----------------------------------------------------------------------------
(* The session.                                                            *)

\* A step that neither the user nor the server sees.
LEMMA UnseenStep ==
  ASSUME SessionInv, Unseen, Phase(conn', History)
  PROVE  SessionInv'
<1>1. History' = History
  BY DEF Unseen, History
<1> QED BY <1>1 DEF SessionInv

\* The user types.
LEMMA TypeStep ==
  ASSUME SessionInv, Type
  PROVE  SessionInv'
<1>1. PICK h : h = History
  OBVIOUS
<1>2. PICK g : g = History'
  OBVIOUS
<1>3. ValidHistory(h) /\ Phase(conn, h)
  BY <1>1 DEF SessionInv
<1>4. PICK p \in Texts :
        /\ p # EndOfFile => Len(typed) < MaxTyped
        /\ typed' = Append(typed, p)
        /\ conn' = [conn EXCEPT !.stdin = Append(@, p)]
  BY Zenon DEF Type
<1>5. /\ conn.process = "running" /\ EndOfFile \notin Range(typed)
      /\ said' = said /\ taken' = taken
  BY DEF Type, Running
<1>6. h.typed = typed /\ h.said = said /\ h.taken = taken
  BY <1>1 DEF History
<1>7. g.typed = typed' /\ g.said = said' /\ g.taken = taken'
  BY <1>2 DEF History
<1>8. PICK t : t = [conn EXCEPT !.stdin = Append(@, p)]
  OBVIOUS
<1>9. g.typed = Append(h.typed, p) /\ g.said = h.said /\ g.taken = h.taken
  BY <1>4, <1>5, <1>6, <1>7
<1>10. EndOfFile \notin Range(h.typed) /\ (p # EndOfFile => Len(h.typed) < MaxTyped)
  BY <1>4, <1>5, <1>6
<1>11. ValidHistory(g) /\ Phase(t, g)
  BY <1>3, <1>5, <1>8, <1>9, <1>10, UserTypes
<1>12. t = conn'
  BY <1>4, <1>8
<1> QED BY <1>2, <1>11, <1>12 DEF SessionInv

\* The server reads.
LEMMA ReadStep ==
  ASSUME SessionInv, ServerRead
  PROVE  SessionInv'
<1>1. PICK h : h = History
  OBVIOUS
<1>2. PICK g : g = History'
  OBVIOUS
<1>3. ValidHistory(h) /\ Phase(conn, h)
  BY <1>1 DEF SessionInv
<1>4. h.typed = typed /\ h.said = said /\ h.taken = taken
  BY <1>1 DEF History
<1>5. g.typed = typed' /\ g.said = said' /\ g.taken = taken'
  BY <1>2 DEF History
<1>6. /\ conn.process = "running" /\ conn.tls = "live" /\ conn.out # <<>>
      /\ taken' = Append(taken, Head(conn.out)) /\ typed' = typed /\ said' = said
  BY DEF ServerRead, Up, Running
<1>7. PICK t : t = [conn EXCEPT !.out = Tail(@),
                     !.in = IF h.taken = <<>> THEN Append(@, <<HS>>) ELSE @]
  OBVIOUS
<1>8. conn' = t
  BY <1>4, <1>7, Zenon DEF ServerRead
<1>9. g.typed = h.typed /\ g.said = h.said /\ g.taken = Append(h.taken, Head(conn.out))
  BY <1>4, <1>5, <1>6
<1>10. ValidHistory(g) /\ Phase(t, g)
  BY <1>3, <1>6, <1>7, <1>9, PeerReads
<1> QED BY <1>2, <1>8, <1>10 DEF SessionInv

\* Both of the client's handshake messages have been read.
LEMMA BothRead ==
  ASSUME NEW q, Cardinality({i \in 1..Len(q) : q[i] = HS}) = 2
  PROVE  q # <<>> /\ q # <<HS>>
<1>1. ASSUME q = <<>> \/ q = <<HS>> PROVE FALSE
  <2>1. PICK A : A = {i \in 1..Len(q) : q[i] = HS}
    OBVIOUS
  <2>2. A \subseteq {} \cup {1}
    BY <1>1, <2>1
  <2>3. IsFiniteSet({}) /\ Cardinality({}) = 0
    BY FS_EmptySet
  <2>4. Cardinality(A) <= Cardinality({}) + 1
    BY <2>2, <2>3, OneElementMore
  <2> QED BY <2>1, <2>3, <2>4
<1> QED BY <1>1

\* The server answers.
LEMMA SendStep ==
  ASSUME SessionInv, ServerSend
  PROVE  SessionInv'
<1>1. PICK h : h = History
  OBVIOUS
<1>2. PICK g : g = History'
  OBVIOUS
<1>3. ValidHistory(h) /\ Phase(conn, h)
  BY <1>1 DEF SessionInv
<1>4. h.typed = typed /\ h.said = said /\ h.taken = taken
  BY <1>1 DEF History
<1>5. g.typed = typed' /\ g.said = said' /\ g.taken = taken'
  BY <1>2 DEF History
<1>6. /\ conn.process = "running" /\ conn.tls = "live" /\ Len(said) < MaxSaid
      /\ typed' = typed /\ taken' = taken /\ ~HasClosed(conn)
  BY DEF ServerSend, Up, Running, ServerClosed, HasClosed
<1>7. taken # <<>> /\ taken # <<HS>>
  BY BothRead DEF ServerSend
<1>8. PICK p \in Responses :
        said' = Append(said, p) /\ conn' = [conn EXCEPT !.in = Append(@, <<p>>)]
  BY Zenon DEF ServerSend
<1>9. PICK t : t = [conn EXCEPT !.in = Append(@, <<p>>)]
  OBVIOUS
<1>10. g.typed = h.typed /\ g.said = Append(h.said, p) /\ g.taken = h.taken
  BY <1>4, <1>5, <1>6, <1>8
<1>11. h.taken # <<>> /\ h.taken # <<HS>> /\ Len(h.said) < MaxSaid
  BY <1>4, <1>6, <1>7
<1>12. ValidHistory(g) /\ Phase(t, g)
  BY <1>3, <1>6, <1>9, <1>10, <1>11, PeerSends
<1>13. conn' = t
  BY <1>8, <1>9
<1> QED BY <1>2, <1>12, <1>13 DEF SessionInv

\* Each step keeps the inductive invariant.
LEMMA SessionStep ==
  ASSUME SessionInv, [Next]_vars
  PROVE  SessionInv'
<1>1. PICK h : h = History
  OBVIOUS
<1>2. ValidHistory(h) /\ Phase(conn, h)
  BY <1>1 DEF SessionInv
<1>3. CASE client_start
  <2>1. Phase(conn', h) /\ Unseen
    BY <1>2, <1>3, Starts DEF client_start
  <2> QED BY <1>1, <2>1, UnseenStep
<1>4. CASE InvokeIo
  <2>1. Phase(conn', h) /\ Unseen
    BY <1>2, <1>4, Invoked DEF InvokeIo
  <2> QED BY <1>1, <2>1, UnseenStep
<1>5. CASE InvokeTimeout
  <2>1. Phase(conn', h) /\ Unseen
    BY <1>2, <1>5, TimedOut DEF InvokeTimeout
  <2> QED BY <1>1, <2>1, UnseenStep
<1>6. CASE Poll
  <2>1. Phase(conn', h) /\ Unseen
    BY <1>2, <1>6, LoopWaits DEF Poll
  <2> QED BY <1>1, <2>1, UnseenStep
<1>7. CASE Exit
  <2>1. Phase(conn', h) /\ Unseen
    BY <1>2, <1>7, Exits DEF Exit
  <2> QED BY <1>1, <2>1, UnseenStep
<1>8. CASE Type
  BY <1>8, TypeStep
<1>9. CASE Connect
  <2>1. PICK l, t : t = [conn EXCEPT !.link = l] /\ conn' = t
    BY <1>9 DEF Connect
  <2>2. conn.process = "running" /\ conn.client # "none" /\ Unseen
    BY <1>9 DEF Connect, Running
  <2>3. Phase(conn', h)
    BY <1>2, <2>1, <2>2, Linked
  <2> QED BY <1>1, <2>2, <2>3, UnseenStep
<1>10. CASE ServerRead
  BY <1>10, ReadStep
<1>11. CASE ServerSend
  BY <1>11, SendStep
<1>12. CASE ServerClose
  <2>1. PICK t : t = [conn EXCEPT !.in = Append(@, <<CloseNotify>>)] /\ conn' = t
    BY <1>12 DEF ServerClose
  <2>2. /\ conn.process = "running" /\ conn.tls = "live" /\ ~HasClosed(conn)
        /\ taken # <<>> /\ Unseen
    BY <1>12 DEF ServerClose, Up, Running, ServerClosed, HasClosed
  <2>3. h.taken = taken
    BY <1>1 DEF History
  <2>4. Phase(conn', h)
    BY <1>2, <2>1, <2>2, <2>3, PeerCloses
  <2> QED BY <1>1, <2>2, <2>4, UnseenStep
<1>13. CASE ServerReset
  <2>1. PICK l, t : t = [conn EXCEPT !.link = l] /\ conn' = t
    BY <1>13 DEF ServerReset
  <2>2. conn.process = "running" /\ conn.tls = "live" /\ Unseen
    BY <1>13 DEF ServerReset, Up, Running
  <2>3. conn.client # "none"
    <3>1. Alive(conn, h)
      BY <1>2, <2>2, UpParts
    <3> QED BY <3>1 DEF Alive, Opening, Starting, Asking, Typing, Held, Closing, Stopped
  <2>4. Phase(conn', h)
    BY <1>2, <2>1, <2>2, <2>3, Linked
  <2> QED BY <1>1, <2>2, <2>4, UnseenStep
<1>14. CASE UNCHANGED vars
  <2>1. conn' = conn /\ Unseen
    BY <1>14 DEF vars, Unseen
  <2> QED BY <1>1, <1>2, <2>1, UnseenStep
<1> QED
  BY <1>3, <1>4, <1>5, <1>6, <1>7, <1>8, <1>9, <1>10, <1>11, <1>12, <1>13, <1>14
  DEF Next, ClientNext

\* The program starts with no connection, and nobody has said anything.
LEMMA SessionInit ==
  ASSUME Init
  PROVE  SessionInv
<1>1. PICK s : s = conn
  OBVIOUS
<1>2. PICK h : h = History
  OBVIOUS
<1>3. /\ IsConn(s) /\ ClientFields \subseteq DOMAIN s
      /\ s.pending = <<>> /\ s.active = {} /\ s.timer = {} /\ s.left = 0
      /\ s.age = 0 /\ s.events = [w \in Watchers |-> "r"]
      /\ s.input_size = 0 /\ s.input = <<>> /\ s.input_buffer = <<>>
      /\ s.output = <<>> /\ s.output_buffer = <<>> /\ s.in = <<>>
      /\ s.rbuf = <<>> /\ s.out = <<>> /\ s.hs = <<>> /\ s.sent_close = "no"
      /\ s.tls = "none" /\ s.faults = {} /\ s.process = "running"
      /\ s.drain_handler = "NULL" /\ s.link = "connecting"
      /\ s.client = "none" /\ s.reader = "none" /\ s.client_input = "NULL"
      /\ s.chunks = <<>> /\ s.eof = "no" /\ s.exit_code = "SUCCESS"
      /\ s.stdin = <<>>
  BY <1>1 DEF Init, IsConn, TlsFields, ClientFields
<1>4. h.typed = <<>> /\ h.said = <<>> /\ h.taken = <<>>
  BY <1>2 DEF Init, History
<1>5. Watched(s)
  BY <1>3, ListedEmpty DEF Watched
<1>6. Streams(s, Alphabet)
  BY <1>3, OwnPieces, TlsAssumption DEF Streams
<1>7. Timed(s) /\ Buffered(s, Alphabet) /\ Eventful(s, Watchers)
  BY <1>3, TlsAssumption DEF Timed, Buffered, Eventful
<1>8. Sound(s, Alphabet, Watchers)
  BY <1>6, <1>7 DEF Sound
<1>9. Valid(s)
  BY <1>3, <1>5, <1>8 DEF Valid
<1>10. Fresh(s, h)
  BY <1>3, <1>4, <1>9 DEF Fresh, Clean, Untouched, Drained
<1>11. ValidHistory(h)
  BY <1>4, ClientAssumption DEF ValidHistory
<1> QED BY <1>1, <1>2, <1>10, <1>11 DEF SessionInv, Phase

\* send_nsca is in one of its phases at any time, whatever the user and the
\* server do and in whatever order libev invokes the callbacks.
THEOREM ClientPhases == Spec => []SessionInv
<1>1. Init => SessionInv
  BY SessionInit
<1>2. SessionInv /\ [Next]_vars => SessionInv'
  BY SessionStep
<1> QED BY <1>1, <1>2, PTL DEF Spec

\* A part of what was sent holds no more than all of it.
LEMMA LoadPart ==
  ASSUME NEW S, NEW a \in Seq(S), NEW b \in Seq(S), NEW c, c = a \o b
  PROVE  Load(a) <= Load(c)
<1>1. c \in Seq(S) /\ Len(c) = Len(a) + Len(b) /\ \A i \in 1..Len(a) : c[i] = a[i]
  BY Joined
<1>2. Len(a) \in Nat /\ Len(b) \in Nat /\ Len(c) \in Nat
  BY <1>1, LenProperties
<1>3. RequestsIn(a) \subseteq RequestsIn(c)
  BY <1>1, <1>2 DEF RequestsIn
<1>4. PushesIn(a) \subseteq PushesIn(c)
  BY <1>1, <1>2, <1>3 DEF PushesIn, RequestsIn
<1>5. /\ IsFiniteSet(RequestsIn(c)) /\ IsFiniteSet(PushesIn(c))
      /\ Cardinality(RequestsIn(c)) \in Nat /\ Cardinality(PushesIn(c)) \in Nat
      /\ Cardinality(RequestsIn(a)) \in Nat /\ Cardinality(PushesIn(a)) \in Nat
  BY <1>1, LoadParts
<1>6. Cardinality(RequestsIn(a)) <= Cardinality(RequestsIn(c))
  BY <1>3, <1>5, FS_Subset
<1>7. Cardinality(PushesIn(a)) <= Cardinality(PushesIn(c))
  BY <1>4, <1>5, FS_Subset
<1> QED BY <1>5, <1>6, <1>7 DEF Load

\* What holds of every phase.
LEMMA PhaseParts ==
  ASSUME NEW s, NEW h, ValidHistory(h), Phase(s, h)
  PROVE  /\ Valid(s) /\ s.process \in {"running", "died", "exited"}
         /\ s.faults \subseteq Deaths \cup {"stale timeout"}
         /\ s.client = "freed" => s.reader # "live" /\ "input" \notin s.active
         /\ s.client = "live" /\ s.client_input = "set" => s.reader = "live"
         /\ Load(Sent(s, h)) <= Len(h.said) + 1
<1>1. CASE Fresh(s, h)
  <2>1. /\ Valid(s) /\ s.process = "running" /\ s.faults = {} /\ s.client = "none"
        /\ h.taken = <<>> /\ s.out = <<>> /\ s.output = <<>> /\ s.output_buffer = <<>>
    BY <1>1 DEF Fresh, Clean, Untouched, Drained
  <2>2. <<>> \o ((<<>> \o <<>>) \o <<>>) = <<>>
    OBVIOUS
  <2>3. Sent(s, h) = <<>>
    BY <2>1, <2>2, Zenon DEF Sent
  <2>4. PICK m \in Nat : m = Len(h.said)
    BY LenProperties DEF ValidHistory
  <2>5. PICK l \in Nat : l = Load(Sent(s, h)) /\ l <= 1
    BY <2>1, <2>3, SentType, LoadHandshake
  <2>6. Load(Sent(s, h)) <= Len(h.said) + 1
    BY <2>4, <2>5
  <2> QED BY <2>1, <2>6
<1>2. CASE Alive(s, h)
  <2>1. Mortal(s, h) /\ Valid(s) /\ s.process = "running"
    BY <1>2, AliveMortal
  <2> QED BY <2>1 DEF Mortal
<1>3. CASE Freed(s, h)
  <2>1. Mortal(s, h) /\ Valid(s) /\ s.process = "running"
    BY <1>3, FreedMortal DEF Freed, Clean
  <2> QED BY <2>1 DEF Mortal
<1>4. CASE Ended(s, h)
  BY <1>4 DEF Ended
<1> QED BY <1>1, <1>2, <1>3, <1>4 DEF Phase

\* Type correctness of the client: the fields of tls.c's, client.c's and input.c's
\* structures, the watchers on libev's lists; client->input is NULL or points to a
\* reader that exists.
THEOREM ClientTypes == Spec => []TypeOK
<1>1. SessionInv => TypeOK
  <2> SUFFICES ASSUME SessionInv PROVE TypeOK
    OBVIOUS
  <2>1. PICK h : h = History
    OBVIOUS
  <2>2. ValidHistory(h) /\ Phase(conn, h) /\ h.said = said /\ h.typed = typed
    BY <2>1 DEF SessionInv, History
  <2>3. /\ Valid(conn) /\ conn.process \in {"running", "died", "exited"}
        /\ conn.client = "live" /\ conn.client_input = "set" => conn.reader = "live"
    BY <2>2, PhaseParts
  <2>4. /\ conn.active \subseteq Watchers
        /\ conn.tls \in {"none", "live", "freed"}
        /\ conn.exit_code \in {"SUCCESS", "FAILURE"} /\ conn.eof \in {"no", "yes"}
        /\ {conn.client, conn.reader} \subseteq {"none", "live", "freed"}
        /\ conn.client_input \in {"NULL", "set"}
    BY <2>3 DEF Valid
  <2>5. Range(conn.pending) \subseteq Watchers
    <3>1. Listed(conn.pending, Watchers)
      BY <2>3, <2>4, ListedMore DEF Valid, Watched
    <3> QED BY <3>1 DEF Listed, Range
  <2>6. conn.timer \subseteq {"armed", "due"} /\ Len(conn.out) <= OutCapacity
    BY <2>3 DEF Valid, Sound, Timed, Streams
  <2>7. Len(said) <= MaxSaid /\ Len(typed) <= MaxTyped + 1
    BY <2>2 DEF ValidHistory
  <2> QED BY <2>3, <2>4, <2>5, <2>6, <2>7 DEF TypeOK
<1> QED BY <1>1, ClientPhases, PTL

\* No freed memory of client.c or input.c is used or freed again, tls_read never
\* finds another read request in progress, and client_stop leaves no reader
\* behind.
THEOREM ClientMemory == Spec => []MemorySafe
<1>1. SessionInv => MemorySafe
  <2> SUFFICES ASSUME SessionInv PROVE MemorySafe
    OBVIOUS
  <2>1. PICK h : h = History
    OBVIOUS
  <2>2. ValidHistory(h) /\ Phase(conn, h)
    BY <2>1 DEF SessionInv
  <2> QED BY <2>2, PhaseParts DEF MemorySafe
<1> QED BY <1>1, ClientPhases, PTL

\* The client never has more than one request outstanding.
THEOREM ClientRequests == Spec => []OneRequestAtATime
<1>1. SessionInv => OneRequestAtATime
  <2> SUFFICES ASSUME SessionInv PROVE OneRequestAtATime
    OBVIOUS
  <2>1. PICK h : h = History
    OBVIOUS
  <2>2. ValidHistory(h) /\ Phase(conn, h) /\ h.said = said /\ h.taken = taken
    BY <2>1 DEF SessionInv, History
  <2>3. Valid(conn) /\ Load(Sent(conn, h)) <= Len(said) + 1
    BY <2>2, PhaseParts
  <2>4. PICK a \in Seq(Alphabet), b \in Seq(Alphabet), o \in Seq(Alphabet),
             p \in Seq(Alphabet) :
          a = taken /\ b = conn.out /\ o = conn.output /\ p = conn.output_buffer
    BY <2>2, <2>3 DEF ValidHistory, Valid, Sound, Streams, Buffered
  <2>5. PICK e \in Seq(Alphabet) : e = Cat(o, p)
    BY CatAssoc
  <2>6. PICK sent \in Seq(Alphabet) : sent = a \o b
    BY Assoc
  <2>7. Sent(conn, h) = sent \o e
    <3>1. Sent(conn, h) = Cat(a, Cat(Cat(b, o), p))
      BY <2>2, <2>4, Zenon DEF Sent, Cat
    <3>2. Cat(Cat(b, o), p) = Cat(b, Cat(o, p))
      BY CatAssoc
    <3>3. Cat(Cat(a, b), e) = Cat(a, Cat(b, e))
      BY CatAssoc
    <3> QED BY <2>5, <2>6, <3>1, <3>2, <3>3, Zenon DEF Cat
  <2>8. Load(sent) <= Load(Sent(conn, h))
    BY <2>7, LoadPart
  <2>9. Load(sent) <= Len(said) + 1
    <3>1. Load(sent) \in Nat /\ Load(Sent(conn, h)) \in Nat /\ Len(said) \in Nat
      BY <2>2, <2>3, LoadParts, SentType, LenProperties DEF ValidHistory
    <3> QED BY <2>3, <2>8, <3>1
  <2>10. sent = taken \o conn.out
    BY <2>4, <2>6
  <2> QED BY <2>9, <2>10, Zenon DEF OneRequestAtATime, Load, RequestsIn, PushesIn
<1> QED BY <1>1, ClientPhases, PTL

\* Exit status 0 tells the truth about the whole of the input.
THEOREM ClientExit == Spec => []ExitStatusHonest
<1>1. SessionInv => ExitStatusHonest
  <2> SUFFICES ASSUME SessionInv, conn.process = "exited", conn.exit_code = "SUCCESS"
               PROVE  /\ EndOfFile \in Range(typed)
                      /\ taken \o conn.out = CompleteSession
                      /\ IsPrefix(Acknowledgements, said)
    BY DEF ExitStatusHonest
  <2>1. PICK h : h = History
    OBVIOUS
  <2>2. /\ ValidHistory(h) /\ Phase(conn, h)
        /\ h.said = said /\ h.taken = taken /\ h.typed = typed
    BY <2>1 DEF SessionInv, History
  <2>3. Ended(conn, h)
    <3>1. ~Fresh(conn, h) /\ ~Freed(conn, h)
      BY DEF Fresh, Freed, Clean
    <3>2. ~Alive(conn, h)
      BY <2>2, AliveMortal
    <3> QED BY <2>2, <3>1, <3>2 DEF Phase
  <2>4. Success(conn, h) /\ conn.sent_close = "yes" /\ Drained(conn) /\ Valid(conn)
    BY <2>3 DEF Ended
  <2>5. PICK cmds \in Seq(Orders) :
          /\ Complete(h, cmds)
          /\ Sent(conn, h) = Sofar(cmds) \o <<Piece("QUIT", 0), CloseNotify>>
          /\ IsPrefix(Acks(2 * Len(cmds) + 1), h.said)
    <3>1. conn.sent_close # "no"
      BY <2>4
    <3> QED BY <2>4, <3>1, Zenon DEF Success
  <2>6. cmds = TypedChunks /\ typed # <<>> /\ Last(typed) = EndOfFile
    BY <2>2, <2>5, Zenon DEF Complete, TypedChunks
  <2>7. EndOfFile \in Range(typed)
    <3>1. PICK q \in Seq(Texts) : q = typed
      BY <2>2 DEF ValidHistory
    <3>2. PICK n \in Nat : n = Len(q) /\ n # 0
      <4>1. Len(q) \in Nat /\ Len(q) # 0
        BY <2>6, <3>1
      <4> QED BY <4>1
    <3>3. n \in DOMAIN q /\ q[n] = EndOfFile
      BY <2>6, <3>1, <3>2 DEF Last
    <3> QED BY <3>1, <3>3 DEF Range
  <2>8. Sent(conn, h) = taken \o conn.out
    <3>1. PICK a \in Seq(Alphabet), b \in Seq(Alphabet) : a = taken /\ b = conn.out
      BY <2>2, <2>4 DEF ValidHistory, Valid, Sound, Streams
    <3>2. Cat(Cat(b, <<>>), <<>>) = b
      BY CatEmpty
    <3> QED BY <2>2, <2>4, <3>1, <3>2, Zenon DEF Sent, Drained, Cat
  <2>9. CompleteSession = Sofar(cmds) \o <<Piece("QUIT", 0), CloseNotify>>
    BY <2>6, Zenon DEF CompleteSession, Sofar
  <2>10. Acknowledgements = Acks(2 * Len(cmds) + 1)
    BY <2>6, Zenon DEF Acknowledgements, Acks
  <2> QED BY <2>2, <2>5, <2>7, <2>8, <2>9, <2>10, Zenon
<1> QED BY <1>1, ClientPhases, PTL

=============================================================================
