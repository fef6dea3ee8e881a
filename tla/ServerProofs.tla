---------------------------- MODULE ServerProofs ----------------------------
(***************************************************************************)
(* Proofs about module Server.  A connection goes through the phases       *)
(* Fresh, Opening, Serving, Closing and Freed, in which the structures     *)
(* that exist, the watchers that are active and the handlers that are      *)
(* installed go together; what a callback may find and do follows from the *)
(* phase.  The lemmas follow the calls: what the functions of tls.c do to  *)
(* the record is in module TlsProofs, here is what the handlers of         *)
(* server.c and the callbacks make of the phase, and the last section has  *)
(* one lemma per action.                                                   *)
(***************************************************************************)
EXTENDS Server, TlsProofs

Replies ==
  {Piece(kw, n) : kw \in {"MOIN", "PONG", "OKAY", "FAIL", "BAIL"}, n \in {0, 1}}

\* All that is ever sent on the connection.
Alphabet == Requests \cup Data \cup {HS, CloseNotify, Part} \cup Replies

ServerFields == {"connection", "input_length", "queued"}

\* The types and the bounds of the connection's fields.
Valid(s) ==
  /\ Watched(s) /\ Sound(s, Alphabet, IoWatchers) /\ ServerFields \subseteq DOMAIN s
  /\ s.active \subseteq IoWatchers /\ s.read_handler \in Handlers
  /\ s.drain_handler \in {"NULL", "start_shutdown"}

\* What is queued for the client has a watcher that will write it.
Flushing(s) == "write" \in s.active \/ Drained(s)

\* Nothing has gone wrong.
Clean(s) == s.faults = {} /\ s.process = "running"

\* Before the connection is accepted.
Fresh(s) ==
  /\ Valid(s) /\ Clean(s) /\ s.tls = "none" /\ s.connection = "none"
  /\ s.active = {} /\ s.timer = {} /\ s.sent_close = "no" /\ Drained(s)

\* The TLS handshake: server.c has no connection_state yet.
Opening(s) ==
  /\ Valid(s) /\ Clean(s) /\ s.tls = "live" /\ s.connection = "none"
  /\ s.active \subseteq {"init"} /\ s.sent_close = "no" /\ Drained(s)
  /\ s.input = <<>>
  /\ s.error_handler = "NULL"
  /\ s.timeout_handler = "default_timeout_handler"
  /\ s.drain_handler = "NULL"

\* The handlers of server.c are in place, and the connection_state is live.
Held(s) ==
  /\ Valid(s) /\ Clean(s) /\ s.tls = "live" /\ s.connection = "live"
  /\ s.active \subseteq {"read", "write"} /\ s.sent_close = "no"
  /\ s.error_handler = "handle_error" /\ s.timeout_handler = "handle_timeout"
  /\ s.line_too_long_handler = "handle_line_too_long"
  /\ s.drain_handler = "NULL"

\* ... and something was asked for.
Owned(s) == Held(s) /\ s.read_handler # "NULL"

\* The session: a request is read, or the last one has been read completely.
Serving(s) ==
  Owned(s) /\ Flushing(s) /\ ("read" \in s.active \/ s.input = <<>>)

\* The connection_state is freed; what is left to write is written, and then
\* the TLS connection is shut down.
Closing(s) ==
  /\ Valid(s) /\ Clean(s) /\ s.tls = "live" /\ s.connection = "freed"
  /\ s.active \in {{"write"}, {"shutdown"}} /\ Flushing(s)
  /\ "write" \in s.active => s.sent_close = "no"
  /\ s.error_handler = "NULL"
  /\ s.timeout_handler = "default_timeout_handler"
  /\ s.drain_handler = "start_shutdown"

\* tls_free has run.
Freed(s) ==
  /\ Valid(s) /\ s.tls = "freed" /\ s.connection \in {"none", "freed"}
  /\ s.active = {} /\ s.faults \subseteq {"stale timeout"}
  /\ s.process \in {"running", "died"}
  /\ s.sent_close = "yes" => Drained(s) \/ ClosedByClient(s)

Alive(s) == Opening(s) \/ Serving(s) \/ Closing(s)

\* The life of a connection.
Phase(s) == Fresh(s) \/ Alive(s) \/ Freed(s)

-----------------------------------------------------------------------------
(* The callbacks are those of module TlsCallbacks, which has the functions *)
(* of module Tls.                                                          *)

\* Starting, stopping and feeding watchers.
LEMMA SameWatchers ==
  ASSUME NEW s, NEW w, NEW e
  PROVE  /\ CB!ev_io_start(s, w, e) = ev_io_start(s, w, e)
         /\ CB!ev_io_stop(s, w) = ev_io_stop(s, w)
         /\ CB!ev_feed_event(s, w) = ev_feed_event(s, w)
         /\ CB!ev_timer_start(s, w) = ev_timer_start(s, w)
         /\ CB!ev_timer_stop(s) = ev_timer_stop(s)
         /\ CB!Touch(s) = Touch(s)
<1>1. CB!ev_io_stop(s, w) = ev_io_stop(s, w)
  BY DEF CB!ev_io_stop, ev_io_stop, CB!ClearPending, ClearPending,
         CB!RemoveFirst, RemoveFirst, CB!RemoveAt, RemoveAt,
         CB!SelectInSeq, SelectInSeq, CB!Min, Min
<1>2. CB!ev_feed_event(s, w) = ev_feed_event(s, w)
  BY DEF CB!ev_feed_event, ev_feed_event, CB!Range, Range
<1> QED
  BY <1>1, <1>2 DEF CB!ev_io_start, ev_io_start, CB!ev_timer_start,
     ev_timer_start, CB!ev_timer_stop, ev_timer_stop, CB!Touch, Touch

\* The loop of tls_free over the watchers.
LEMMA SameStop ==
  ASSUME NEW s
  PROVE  CB!StopActive(s) = StopActive(s)
<1>1. ASSUME NEW u, NEW w PROVE CB!StopIfActive(u, w) = StopIfActive(u, w)
  BY SameWatchers DEF CB!StopIfActive, StopIfActive
<1> QED
  BY <1>1 DEF CB!StopActive, StopActive

\* tls_free, die and start_shutdown.
LEMMA SameFree ==
  ASSUME NEW s, NEW what
  PROVE  /\ CB!tls_free(s) = tls_free(s) /\ CB!die(s, what) = die(s, what)
         /\ CB!start_shutdown(s) = start_shutdown(s)
<1>1. CB!Fault(s, what) = Fault(s, what)
  BY DEF CB!Fault, Fault
<1>2. CB!tls_free(s) = tls_free(s)
  BY SameStop, SameWatchers DEF CB!tls_free, tls_free, CB!Fault, Fault
<1>3. CB!die(s, what) = die(s, what)
  BY DEF CB!die, die, CB!Fault, Fault
<1>4. CB!start_shutdown(s) = start_shutdown(s)
  BY SameWatchers DEF CB!start_shutdown, start_shutdown
<1> QED
  BY <1>2, <1>3, <1>4

\* The handshake and the socket.
LEMMA SameHandshake ==
  ASSUME NEW s
  PROVE  /\ CB!Handshake(s) = Handshake(s) /\ CB!Want(s) = Want(s)
         /\ CB!Room(s) = Room(s) /\ CB!HS = HS /\ CB!CloseNotify = CloseNotify
<1>1. CB!HS = HS /\ CB!CloseNotify = CloseNotify
  BY DEF CB!HS, HS, CB!CloseNotify, CloseNotify, CB!Piece, Piece
<1>2. ASSUME NEW u PROVE CB!HandshakeStep(u) = HandshakeStep(u)
  BY <1>1 DEF CB!HandshakeStep, HandshakeStep, CB!Room, Room
<1>3. CB!Want(s) = Want(s)
  BY DEF CB!Want, Want, CB!Outcome, Outcome
<1> QED
  BY <1>1, <1>2, <1>3 DEF CB!Handshake, Handshake, CB!Room, Room

\* SSL_read.
LEMMA SameRead ==
  ASSUME NEW s, NEW size
  PROVE  CB!SSL_read(s, size) = SSL_read(s, size)
<1>1. ASSUME NEW u PROVE CB!TakeRead(u, size) = TakeRead(u, size)
  BY DEF CB!TakeRead, TakeRead, CB!Outcome, Outcome
<1>2. ASSUME NEW a, NEW b, NEW c PROVE CB!Outcome(a, b, c) = Outcome(a, b, c)
  BY DEF CB!Outcome, Outcome
<1>3. ASSUME NEW u PROVE CB!PeerClosed(u) = PeerClosed(u)
  BY SameHandshake DEF CB!PeerClosed, PeerClosed
<1> QED
  BY <1>1, <1>2, <1>3, SameHandshake, Zenon DEF CB!SSL_read, SSL_read

\* SSL_write.
LEMMA SameWrite ==
  ASSUME NEW s, NEW data
  PROVE  CB!SSL_write(s, data) = SSL_write(s, data)
<1>1. /\ CB!Handshake(s) = Handshake(s)
      /\ CB!Room(Handshake(s)) = Room(Handshake(s))
      /\ CB!Want(Handshake(s)) = Want(Handshake(s))
  BY SameHandshake
<1>2. ASSUME NEW a, NEW b, NEW c PROVE CB!Outcome(a, b, c) = Outcome(a, b, c)
  BY DEF CB!Outcome, Outcome
<1>3. PICK h : h = Handshake(s)
  OBVIOUS
<1>4. PICK n : n = IF Room(h) < Len(data) THEN Room(h) ELSE Len(data)
  OBVIOUS
<1>5. PICK d : d = [h EXCEPT !.out = @ \o SubSeq(data, 1, n)]
  OBVIOUS
<1>6. SSL_write(s, data) =
        IF s.link = "reset" THEN Outcome("error", <<>>, s)
        ELSE IF h.hs # <<>> THEN Want(h)
        ELSE IF n = 0 THEN Outcome("want_write", <<>>, h)
        ELSE Outcome("done", SubSeq(data, 1, n), d)
  BY <1>3, <1>4, <1>5, Zenon DEF SSL_write
<1>7. CB!SSL_write(s, data) =
        IF s.link = "reset" THEN CB!Outcome("error", <<>>, s)
        ELSE IF h.hs # <<>> THEN CB!Want(h)
        ELSE IF n = 0 THEN CB!Outcome("want_write", <<>>, h)
        ELSE CB!Outcome("done", SubSeq(data, 1, n), d)
  BY <1>1, <1>3, <1>4, <1>5, Zenon DEF CB!SSL_write
<1>8. /\ CB!Outcome("error", <<>>, s) = Outcome("error", <<>>, s)
      /\ CB!Outcome("want_write", <<>>, h) = Outcome("want_write", <<>>, h)
      /\ CB!Outcome("done", SubSeq(data, 1, n), d) = Outcome("done", SubSeq(data, 1, n), d)
      /\ CB!Want(h) = Want(h)
  BY <1>1, <1>2, <1>3
<1> QED
  BY <1>6, <1>7, <1>8

\* SSL_shutdown.
LEMMA SameShutdown ==
  ASSUME NEW s
  PROVE  CB!SSL_shutdown(s) = SSL_shutdown(s)
<1>1. CB!Room(s) = Room(s) /\ CB!CloseNotify = CloseNotify
  BY SameHandshake
<1>2. ASSUME NEW a, NEW b, NEW c PROVE CB!Outcome(a, b, c) = Outcome(a, b, c)
  BY DEF CB!Outcome, Outcome
<1>3. PICK c : c = IF s.sent_close = "yes" THEN s
                   ELSE [s EXCEPT !.out = Append(@, CloseNotify), !.sent_close = "yes"]
  OBVIOUS
<1>4. SSL_shutdown(s) =
        IF s.link = "reset" \/ s.hs # <<>> THEN Outcome("error", <<>>, s)
        ELSE IF s.sent_close = "no" /\ Room(s) = 0
             THEN Outcome("want_write", <<>>, s)
        ELSE IF c.rbuf # <<>> THEN Outcome("error", <<>>, c)
        ELSE IF c.in = <<>> THEN Outcome("want_read", <<>>, c)
        ELSE Outcome(IF Head(c.in) = <<CloseNotify>> THEN "done" ELSE "error",
                     <<>>, c)
  BY <1>3, Zenon DEF SSL_shutdown
<1>5. CB!SSL_shutdown(s) =
        IF s.link = "reset" \/ s.hs # <<>> THEN CB!Outcome("error", <<>>, s)
        ELSE IF s.sent_close = "no" /\ Room(s) = 0
             THEN CB!Outcome("want_write", <<>>, s)
        ELSE IF c.rbuf # <<>> THEN CB!Outcome("error", <<>>, c)
        ELSE IF c.in = <<>> THEN CB!Outcome("want_read", <<>>, c)
        ELSE CB!Outcome(IF Head(c.in) = <<CloseNotify>> THEN "done" ELSE "error",
                        <<>>, c)
  BY <1>1, <1>3, Zenon DEF CB!SSL_shutdown
<1>6. /\ CB!Outcome("error", <<>>, s) = Outcome("error", <<>>, s)
      /\ CB!Outcome("want_write", <<>>, s) = Outcome("want_write", <<>>, s)
      /\ CB!Outcome("error", <<>>, c) = Outcome("error", <<>>, c)
      /\ CB!Outcome("want_read", <<>>, c) = Outcome("want_read", <<>>, c)
  BY <1>2
<1>7. PICK e : e = IF Head(c.in) = <<CloseNotify>> THEN "done" ELSE "error"
  OBVIOUS
<1>8. CB!Outcome(e, <<>>, c) = Outcome(e, <<>>, c)
  BY <1>2
<1> QED
  BY <1>4, <1>5, <1>6, <1>7, <1>8

-----------------------------------------------------------------------------
(* What leaves a connection in its phase.                                  *)

\* The fields that say in which phase a connection is.
PhaseFields ==
  {"tls", "process", "faults", "active", "connection", "error_handler",
   "timeout_handler", "line_too_long_handler", "drain_handler", "read_handler",
   "sent_close", "output", "output_buffer", "input"}

\* A connection stays in its phase as long as none of them changes.
LEMMA PhaseKept ==
  ASSUME NEW s, Valid(s), NEW t, NEW F, Only(s, t, F), F \cap PhaseFields = {},
         Watched(t), Sound(t, Alphabet, IoWatchers)
  PROVE  /\ Valid(t) /\ t.active = s.active
         /\ (Opening(s) => Opening(t)) /\ (Owned(s) => Owned(t))
         /\ (Serving(s) => Serving(t)) /\ (Closing(s) => Closing(t))
<1>1. PhaseFields \subseteq DOMAIN s
  BY DEF Valid, ServerFields, Watched, IsConn, TlsFields, PhaseFields
<1>2. \A f \in PhaseFields : t[f] = s[f]
  BY <1>1, OnlyKeeps
<1>3. /\ t.tls = s.tls /\ t.process = s.process /\ t.faults = s.faults
      /\ t.active = s.active /\ t.connection = s.connection
      /\ t.error_handler = s.error_handler
      /\ t.timeout_handler = s.timeout_handler
      /\ t.line_too_long_handler = s.line_too_long_handler
      /\ t.drain_handler = s.drain_handler /\ t.read_handler = s.read_handler
      /\ t.sent_close = s.sent_close /\ t.output = s.output
      /\ t.output_buffer = s.output_buffer /\ t.input = s.input
  BY <1>2 DEF PhaseFields
<1>4. ServerFields \subseteq DOMAIN t
  BY DEF Only, Valid
<1>5. Valid(t)
  BY <1>3, <1>4 DEF Valid
<1>6. (Clean(s) <=> Clean(t)) /\ (Drained(s) <=> Drained(t))
  BY <1>3 DEF Clean, Drained
<1>7. Flushing(s) <=> Flushing(t)
  BY <1>3, <1>6 DEF Flushing
<1>8. Opening(s) => Opening(t)
  BY <1>3, <1>5, <1>6 DEF Opening
<1>9. Owned(s) => Owned(t)
  BY <1>3, <1>5, <1>6 DEF Owned, Held
<1>10. Serving(s) => Serving(t)
  BY <1>3, <1>7, <1>9 DEF Serving
<1>11. Closing(s) => Closing(t)
  BY <1>3, <1>5, <1>6, <1>7 DEF Closing
<1> QED
  BY <1>3, <1>5, <1>8, <1>9, <1>10, <1>11

\* A live connection has sound data and a known list of watchers.
LEMMA AliveValid ==
  ASSUME NEW s, Alive(s) \/ Owned(s)
  PROVE  /\ Valid(s) /\ Watched(s) /\ Sound(s, Alphabet, IoWatchers)
         /\ IsConn(s) /\ s.tls = "live" /\ s.active \subseteq IoWatchers
<1>1. Valid(s) /\ s.tls = "live"
  BY DEF Alive, Opening, Serving, Owned, Held, Closing
<1> QED
  BY <1>1 DEF Valid, Watched

\* Waiting for the other event leaves the watcher active.
LEMMA AwaitKeeps ==
  ASSUME NEW s, Alive(s), NEW w \in s.active, NEW e \in {"r", "w"},
         NEW t, t = CB!Await(s, w, e)
  PROVE  /\ Alive(t) /\ t.active = s.active /\ Valid(t)
         /\ (Opening(s) => Opening(t)) /\ (Serving(s) => Serving(t))
         /\ (Closing(s) => Closing(t))
<1>0. /\ Valid(s) /\ Watched(s) /\ Sound(s, Alphabet, IoWatchers)
  BY AliveValid
<1>1. CASE t = s
  BY <1>0, <1>1
<1>2. CASE t = ev_io_start(ev_io_stop(s, w), w, e)
  <2>1. PICK a : a = ev_io_stop(s, w)
    OBVIOUS
  <2>2. /\ Watched(a) /\ Only(s, a, {"active", "pending"})
        /\ a.active = s.active \ {w}
    BY <1>0, <2>1, IoStop
  <2>3. /\ Watched(t) /\ Only(a, t, WatchFields)
        /\ t.active = a.active \cup {w} /\ SetsEvent(a, t, w, e)
    BY <1>2, <2>1, <2>2, IoStart
  <2>4. Sound(a, Alphabet, IoWatchers)
    BY <1>0, <2>2, SoundKept DEF SoundFields
  <2>5. Sound(t, Alphabet, IoWatchers)
    BY <2>3, <2>4, SoundStart
  <2>6. t.active = s.active
    BY <2>2, <2>3
  <2>7. Only(s, t, WatchFields)
    BY <2>2, <2>3, OnlyTrans DEF WatchFields
  <2>8. Only(s, t, {"pending", "events"})
    BY <2>6, <2>7 DEF Only, WatchFields
  <2> QED
    BY <1>0, <2>3, <2>5, <2>8, PhaseKept DEF PhaseFields, Alive
<1> QED
  BY <1>1, <1>2, SameWatchers DEF CB!Await

-----------------------------------------------------------------------------
(* The end of a connection.                                                *)

\* tls_free, when server.c has no connection_state.
LEMMA FreeEnds ==
  ASSUME NEW s, Valid(s), Clean(s), s.tls = "live",
         s.connection \in {"none", "freed"},
         s.sent_close = "yes" => Drained(s) \/ ClosedByClient(s),
         NEW t, t = tls_free(s)
  PROVE  Freed(t)
<1>1. Watched(s) /\ Sound(s, Alphabet, IoWatchers) /\ s.tls # "freed"
  BY DEF Valid
<1>2. /\ Watched(t) /\ Sound(t, Alphabet, IoWatchers)
      /\ Only(s, t, {"active", "pending", "timer", "tls"})
      /\ \A w : w \in t.active <=> w \in s.active /\ w \notin IoWatchers
      /\ t.tls = "freed"
  BY <1>1, FreeOnly
<1>3. /\ t.connection = s.connection /\ t.faults = s.faults
      /\ t.process = s.process /\ t.sent_close = s.sent_close
      /\ t.output = s.output /\ t.output_buffer = s.output_buffer
      /\ t.read_handler = s.read_handler /\ t.drain_handler = s.drain_handler
      /\ ServerFields \subseteq DOMAIN t /\ t.in = s.in
  BY <1>1, <1>2 DEF Only, Valid, ServerFields, Watched, IsConn, TlsFields
<1>4. t.active = {}
  BY <1>2 DEF Valid
<1>5. Drained(s) = Drained(t) /\ ClosedByClient(s) = ClosedByClient(t)
  BY <1>3 DEF Drained, ClosedByClient, PeerClosed
<1> QED
  BY <1>2, <1>3, <1>4, <1>5 DEF Freed, Valid, Clean

\* connection_stop, of a connection_state that is live.
LEMMA StopOnly ==
  ASSUME NEW s, ServerFields \subseteq DOMAIN s, s.connection # "freed",
         NEW t, t = connection_stop(s)
  PROVE  Only(s, t, {"connection"}) /\ t.connection = "freed"
  BY DEF connection_stop, Only, ServerFields

\* A connection that may be lost: server.c has its error handler in place as
\* long as there is a connection_state, and a close notify that was sent is the
\* last thing that was to be written, or the answer to the client's.
Losable(s) ==
  /\ Valid(s) /\ Clean(s) /\ s.tls = "live"
  /\ \/ s.connection \in {"none", "freed"} /\ s.error_handler = "NULL"
     \/ s.connection = "live" /\ s.error_handler = "handle_error"
  /\ s.sent_close = "yes" => Drained(s) \/ ClosedByClient(s)

\* In each of the phases of a live connection, check_tls_error may find an error.
LEMMA AliveLosable ==
  ASSUME NEW s, Alive(s)
  PROVE  Losable(s)
<1>1. CASE Opening(s)
  BY <1>1 DEF Opening, Losable
<1>2. CASE Serving(s)
  BY <1>2 DEF Serving, Owned, Held, Losable
<1>3. CASE Closing(s)
  BY <1>3 DEF Closing, Flushing, Losable
<1> QED
  BY <1>1, <1>2, <1>3 DEF Alive

\* A lost connection is freed, and its connection_state with it.
LEMMA LostEnds ==
  ASSUME NEW s, Losable(s), NEW t, t = CB!ConnectionLost(s)
  PROVE  Freed(t)
<1>1. t = CB!tls_free(IF s.error_handler = "NULL" THEN s
                      ELSE Call(s.error_handler, s, <<>>))
  BY ServerAssumption DEF CB!ConnectionLost
<1>2. /\ Valid(s) /\ Clean(s) /\ s.tls = "live"
      /\ s.sent_close = "yes" => Drained(s) \/ ClosedByClient(s)
  BY DEF Losable
<1>3. CASE s.connection \in {"none", "freed"} /\ s.error_handler = "NULL"
  <2>1. t = tls_free(s)
    BY <1>1, <1>3, SameFree
  <2> QED
    BY <1>2, <1>3, <2>1, FreeEnds
<1>4. CASE s.connection = "live" /\ s.error_handler = "handle_error"
  <2>1. PICK a : a = connection_stop(s)
    OBVIOUS
  <2>2. Call("handle_error", s, <<>>) = a
    BY <2>1 DEF Call, handle_error
  <2>3. t = tls_free(a)
    BY <1>1, <1>4, <2>2, SameFree
  <2>4. ServerFields \subseteq DOMAIN s /\ IsConn(s)
    BY <1>2 DEF Valid, Watched
  <2>5. Only(s, a, {"connection"}) /\ a.connection = "freed"
    BY <1>4, <2>1, <2>4, StopOnly
  <2>6. /\ a.active = s.active /\ a.pending = s.pending /\ a.tls = s.tls
        /\ a.faults = s.faults /\ a.process = s.process
        /\ a.sent_close = s.sent_close /\ a.read_handler = s.read_handler
        /\ a.drain_handler = s.drain_handler /\ a.in = s.in
        /\ a.output = s.output /\ a.output_buffer = s.output_buffer
        /\ IsConn(a) /\ ServerFields \subseteq DOMAIN a
    BY <2>4, <2>5 DEF Only, IsConn, TlsFields
  <2>7. Sound(a, Alphabet, IoWatchers)
    BY <1>2, <2>5, SoundKept DEF Valid, SoundFields
  <2>8. Valid(a) /\ Clean(a)
    BY <1>2, <2>6, <2>7 DEF Valid, Watched, Clean
  <2>9. Drained(a) = Drained(s) /\ ClosedByClient(a) = ClosedByClient(s)
    BY <2>6 DEF Drained, ClosedByClient, PeerClosed
  <2>10. a.tls = "live" /\ (a.sent_close = "yes" => Drained(a) \/ ClosedByClient(a))
    BY <1>2, <2>6, <2>9
  <2> QED
    BY <2>3, <2>5, <2>8, <2>10, FreeEnds
<1> QED
  BY <1>3, <1>4 DEF Losable

\* The client's close notify is answered while a request is awaited.
LEMMA ClosedLosable ==
  ASSUME NEW s, Serving(s), PeerClosed(s), NEW t, t = CB!AnswerClose(s)
  PROVE  Losable(t)
<1>1. Valid(s) /\ Watched(s) /\ Sound(s, Alphabet, IoWatchers) /\ IsConn(s)
  BY AliveValid DEF Alive
<1>2. PICK x : x = SSL_shutdown(s)
  OBVIOUS
<1>3. t = x.next
  BY <1>2, SameShutdown, ServerAssumption DEF CB!AnswerClose
<1>4. Result(s, x, {"out", "sent_close"}, Alphabet)
  BY <1>1, <1>2, ShutdownResult DEF Sound
<1>5. Only(s, t, {"out", "sent_close"}) /\ Sound(t, Alphabet, IoWatchers)
  BY <1>1, <1>3, <1>4, SoundCall DEF Result
<1>6. /\ t.active = s.active /\ t.pending = s.pending /\ t.tls = s.tls
      /\ t.faults = s.faults /\ t.process = s.process /\ t.in = s.in
      /\ t.read_handler = s.read_handler /\ t.drain_handler = s.drain_handler
      /\ t.error_handler = s.error_handler /\ t.connection = s.connection
      /\ IsConn(t) /\ ServerFields \subseteq DOMAIN t
  BY <1>1, <1>5 DEF Only, Valid, ServerFields, IsConn, TlsFields
<1>7. Held(s)
  BY DEF Serving, Owned
<1>8. Valid(t) /\ Clean(t)
  BY <1>1, <1>5, <1>6, <1>7 DEF Held, Valid, Watched, Clean
<1>9. ClosedByClient(t)
  BY <1>6, <1>7 DEF Held, ClosedByClient, PeerClosed
<1> QED
  BY <1>6, <1>7, <1>8, <1>9 DEF Held, Losable

\* A call that was not completed: the watcher waits, or the connection ends.
LEMMA CheckError ==
  ASSUME NEW s, Alive(s), NEW w \in s.active, NEW code \in Codes, code # "done",
         code = "zero_return" => Serving(s) /\ PeerClosed(s),
         NEW t, t = CB!check_tls_error(s, w, code)
  PROVE  /\ Freed(t) \/ (Alive(t) /\ t.active = s.active)
         /\ Opening(s) => Opening(t) \/ Freed(t)
         /\ Serving(s) => Serving(t) \/ Freed(t)
         /\ Closing(s) => Closing(t) \/ Freed(t)
<1>1. code \in {"want_read", "want_write", "zero_return", "error"}
  BY DEF Codes
<1>2. CASE code = "want_read"
  <2>1. t = CB!Await(s, w, "r")
    BY <1>2 DEF CB!check_tls_error
  <2> QED
    BY <2>1, AwaitKeeps
<1>3. CASE code = "want_write"
  <2>1. t = CB!Await(s, w, "w")
    BY <1>3 DEF CB!check_tls_error
  <2> QED
    BY <2>1, AwaitKeeps
<1>4. CASE code = "error"
  <2>1. t = CB!ConnectionLost(s)
    BY <1>4 DEF CB!check_tls_error
  <2> QED
    BY <2>1, AliveLosable, LostEnds
<1>5. CASE code = "zero_return"
  <2>1. t = CB!ConnectionLost(CB!AnswerClose(s))
    BY <1>5 DEF CB!check_tls_error
  <2> QED
    BY <1>5, <2>1, ClosedLosable, LostEnds
<1> QED
  BY <1>1, <1>2, <1>3, <1>4, <1>5

-----------------------------------------------------------------------------
(* The handlers of server.c.                                               *)

\* The numeric argument of all that is sent is a natural number.
LEMMA Arguments ==
  ASSUME NEW p \in Alphabet
  PROVE  p.arg \in Nat
<1>1. ASSUME NEW q, q \in Replies \cup Data \cup {HS, CloseNotify, Part}
      PROVE  q.arg \in Nat
  BY <1>1, ServerAssumption DEF Replies, Piece, HS, CloseNotify, Part
<1> QED
  BY <1>1, ServerAssumption DEF Alphabet

\* Nothing a handler reads or queues of its own has to do with the phase.
LEMMA OwnFields ==
  ASSUME NEW s, Owned(s), NEW t, Only(s, t, {"input_length", "queued"})
  PROVE  Owned(t) /\ t.active = s.active /\ t.input = s.input
         /\ (Flushing(s) => Flushing(t))
<1>1. Valid(s) /\ Watched(s) /\ Sound(s, Alphabet, IoWatchers) /\ IsConn(s)
  BY AliveValid
<1>2. Sound(t, Alphabet, IoWatchers)
  BY <1>1, SoundKept DEF SoundFields
<1>3. /\ IsConn(t) /\ t.pending = s.pending /\ t.active = s.active
      /\ t.input = s.input /\ t.output = s.output
      /\ t.output_buffer = s.output_buffer
  BY <1>1 DEF Only, IsConn, TlsFields
<1>4. Watched(t)
  BY <1>1, <1>3 DEF Watched
<1>5. Owned(t)
  BY <1>1, <1>2, <1>4, PhaseKept DEF PhaseFields
<1> QED
  BY <1>3, <1>5 DEF Flushing, Drained

\* send_response: the answer is queued and will be written.
LEMMA Responds ==
  ASSUME NEW s, Owned(s), NEW kw \in {"MOIN", "PONG", "OKAY", "FAIL", "BAIL"},
         NEW t, t = send_response(s, kw)
  PROVE  /\ Owned(t) /\ t.active = s.active \cup {"write"}
         /\ t.input = s.input /\ Flushing(t)
<1>1. Valid(s) /\ Watched(s) /\ Sound(s, Alphabet, IoWatchers) /\ IsConn(s)
  BY AliveValid
<1>2. PICK n \in {0, 1} : n = IF kw \in {"MOIN", "PONG"} THEN 1 ELSE 0
  OBVIOUS
<1>3. PICK p : p = Piece(kw, n)
  OBVIOUS
<1>4. p \in Alphabet
  BY <1>2, <1>3 DEF Alphabet, Replies
<1>5. PICK d : d = <<p>>
  OBVIOUS
<1>6. t = write_buffered(s, d) /\ d \in Seq(Alphabet)
  BY <1>2, <1>3, <1>4, <1>5 DEF send_response, tls_write_line
<1>7. /\ Watched(t) /\ Sound(t, Alphabet, IoWatchers)
      /\ Only(s, t, {"output_buffer", "active", "pending", "events"})
      /\ t.active = s.active \cup {"write"}
  BY <1>1, <1>6, WriteBufferedOnly
<1>8. /\ t.tls = s.tls /\ t.process = s.process /\ t.faults = s.faults
      /\ t.connection = s.connection /\ t.error_handler = s.error_handler
      /\ t.timeout_handler = s.timeout_handler
      /\ t.line_too_long_handler = s.line_too_long_handler
      /\ t.drain_handler = s.drain_handler /\ t.read_handler = s.read_handler
      /\ t.sent_close = s.sent_close /\ t.input = s.input
      /\ ServerFields \subseteq DOMAIN t
  BY <1>1, <1>7 DEF Only, Valid, ServerFields, IsConn, TlsFields
<1>9. t.active \subseteq {"read", "write"}
  BY <1>7 DEF Owned, Held
<1>10. Valid(t)
  BY <1>1, <1>7, <1>8, <1>9 DEF Valid, IoWatchers
<1>11. Owned(t)
  BY <1>8, <1>9, <1>10 DEF Owned, Held, Clean
<1> QED
  BY <1>7, <1>8, <1>11 DEF Flushing

\* tls_read and tls_read_line: the next request or the data is waited for.
LEMMA ReadsOn ==
  ASSUME NEW s, Held(s), Flushing(s), "read" \notin s.active, s.input = <<>>,
         NEW handler \in Handlers, handler # "NULL", NEW size \in Nat,
         NEW t, t = tls_read(s, handler, size)
  PROVE  Serving(t) /\ "read" \in t.active
<1>1. Valid(s) /\ Watched(s) /\ Sound(s, Alphabet, IoWatchers) /\ IsConn(s)
  BY DEF Held, Valid, Watched
<1>2. /\ Watched(t) /\ Sound(t, Alphabet, IoWatchers)
      /\ Only(s, t, {"read_handler", "input_size", "active", "pending", "events"})
      /\ t.active = s.active \cup {"read"} /\ t.read_handler = handler
  BY <1>1, ReadOnly
<1>3. /\ t.tls = s.tls /\ t.process = s.process /\ t.faults = s.faults
      /\ t.connection = s.connection /\ t.error_handler = s.error_handler
      /\ t.timeout_handler = s.timeout_handler
      /\ t.line_too_long_handler = s.line_too_long_handler
      /\ t.drain_handler = s.drain_handler
      /\ t.sent_close = s.sent_close /\ t.output = s.output
      /\ t.output_buffer = s.output_buffer /\ ServerFields \subseteq DOMAIN t
  BY <1>1, <1>2 DEF Only, Valid, ServerFields, IsConn, TlsFields
<1>4. t.active \subseteq {"read", "write"}
  BY <1>2 DEF Held
<1>5. Valid(t)
  BY <1>1, <1>2, <1>3, <1>4 DEF Valid, IoWatchers
<1>6. Owned(t)
  BY <1>2, <1>3, <1>4, <1>5 DEF Owned, Held, Clean
<1>7. Flushing(t)
  BY <1>2, <1>3 DEF Flushing, Drained
<1> QED
  BY <1>2, <1>6, <1>7 DEF Serving

\* The end of a session: the TLS connection is shut down, now or when all is
\* written, and the connection_state is freed.
LEMMA Closes ==
  ASSUME NEW s, Owned(s), Flushing(s), "read" \notin s.active,
         NEW t, t = connection_stop(tls_shutdown(s))
  PROVE  Closing(t)
<1>1. Valid(s) /\ Watched(s) /\ Sound(s, Alphabet, IoWatchers) /\ IsConn(s)
  BY AliveValid
<1>2. PICK a : a = tls_shutdown(s)
  OBVIOUS
<1>3. /\ Watched(a) /\ Sound(a, Alphabet, IoWatchers) /\ Only(s, a, ShutdownFields)
      /\ a.active = IF "write" \in s.active THEN s.active
                    ELSE s.active \cup {"shutdown"}
      /\ a.error_handler = "NULL"
      /\ a.timeout_handler = "default_timeout_handler"
      /\ a.drain_handler = "start_shutdown"
  BY <1>1, <1>2, ShutdownOnly
<1>4. /\ a.tls = s.tls /\ a.process = s.process /\ a.faults = s.faults
      /\ a.connection = s.connection /\ a.sent_close = s.sent_close
      /\ a.output = s.output /\ a.output_buffer = s.output_buffer
      /\ a.read_handler = s.read_handler /\ ServerFields \subseteq DOMAIN a
  BY <1>1, <1>3 DEF Only, Valid, ServerFields, IsConn, TlsFields, ShutdownFields
<1>5. Only(a, t, {"connection"}) /\ t.connection = "freed"
  BY <1>2, <1>4, StopOnly DEF Owned, Held
<1>6. /\ t.tls = s.tls /\ t.process = s.process /\ t.faults = s.faults
      /\ t.sent_close = s.sent_close /\ t.output = s.output
      /\ t.output_buffer = s.output_buffer /\ t.read_handler = s.read_handler
      /\ t.active = a.active /\ t.error_handler = a.error_handler
      /\ t.timeout_handler = a.timeout_handler
      /\ t.drain_handler = a.drain_handler /\ t.pending = a.pending
      /\ IsConn(t) /\ ServerFields \subseteq DOMAIN t
  BY <1>3, <1>4, <1>5 DEF Only, Watched, ServerFields, IsConn, TlsFields
<1>7. Sound(t, Alphabet, IoWatchers)
  BY <1>3, <1>5, SoundKept DEF SoundFields
<1>8. CASE "write" \in s.active
  <2>1. t.active = {"write"}
    BY <1>3, <1>6, <1>8 DEF Owned, Held
  <2>2. Valid(t)
    BY <1>1, <1>3, <1>6, <1>7, <2>1 DEF Valid, Watched, IoWatchers
  <2> QED
    BY <1>3, <1>5, <1>6, <2>1, <2>2 DEF Closing, Owned, Held, Clean, Flushing
<1>9. CASE "write" \notin s.active
  <2>1. t.active = {"shutdown"}
    BY <1>3, <1>6, <1>9 DEF Owned, Held
  <2>2. Valid(t)
    BY <1>1, <1>3, <1>6, <1>7, <2>1 DEF Valid, Watched, IoWatchers
  <2>3. Drained(t)
    BY <1>6, <1>9 DEF Flushing, Drained
  <2> QED
    BY <1>3, <1>5, <1>6, <2>1, <2>2, <2>3 DEF Closing, Owned, Held, Clean, Flushing
<1> QED
  BY <1>8, <1>9

\* bail, and with it handle_timeout and handle_line_too_long.
LEMMA Bails ==
  ASSUME NEW s, Owned(s), "read" \notin s.active, NEW t, t = bail(s)
  PROVE  Closing(t)
<1>1. PICK a : a = send_response(s, "BAIL")
  OBVIOUS
<1>2. Owned(a) /\ a.active = s.active \cup {"write"} /\ Flushing(a)
  BY <1>1, Responds
<1>3. "read" \notin a.active
  BY <1>2
<1> QED
  BY <1>1, <1>2, <1>3, Closes DEF bail

\* A handler of server.c is called when what it waited for has been read.
Called(s) ==
  Owned(s) /\ Flushing(s) /\ "read" \notin s.active /\ s.input = <<>>

\* An answer, and nothing else: the server does not read on.
LEMMA Answered ==
  ASSUME NEW s, Called(s), NEW kw \in {"MOIN", "PONG", "OKAY", "FAIL", "BAIL"},
         NEW t, t = send_response(s, kw)
  PROVE  Called(t) /\ Serving(t)
<1>1. /\ Owned(t) /\ t.active = s.active \cup {"write"}
      /\ t.input = s.input /\ Flushing(t)
  BY Responds DEF Called
<1> QED
  BY <1>1 DEF Called, Serving

\* The next line is waited for.
LEMMA ReadsLine ==
  ASSUME NEW s, Called(s), NEW handler \in Handlers, handler # "NULL",
         NEW t, t = tls_read_line(s, handler)
  PROVE  Serving(t) /\ "read" \in t.active
<1>1. t = tls_read(s, handler, 0)
  BY DEF tls_read_line
<1> QED
  BY <1>1, ReadsOn DEF Called, Owned

\* A request that is refused.
LEMMA Refuses ==
  ASSUME NEW s, Called(s), NEW handler \in Handlers, handler # "NULL",
         NEW t, t = Refuse(s, handler)
  PROVE  Serving(t)
<1>1. PICK a : a = send_response(s, "FAIL")
  OBVIOUS
<1>2. Called(a)
  BY <1>1, Answered
<1>3. t = tls_read_line(a, handler)
  BY <1>1 DEF Refuse
<1> QED
  BY <1>2, <1>3, ReadsLine

\* A client that says that it is leaving.
LEMMA Exited ==
  ASSUME NEW s, Called(s), NEW kw, NEW t, t = client_exited(s, kw)
  PROVE  Closing(t)
<1>1. PICK a : a = IF kw = "QUIT" THEN send_response(s, "OKAY") ELSE s
  OBVIOUS
<1>2. Called(a)
  BY <1>1, Answered
<1>3. t = connection_stop(tls_shutdown(a))
  BY <1>1 DEF client_exited
<1> QED
  BY <1>2, <1>3, Closes DEF Called

\* handle_handshake.
LEMMA Greets ==
  ASSUME NEW s, Called(s), NEW p \in Alphabet, NEW t, t = handle_handshake(s, p)
  PROVE  Serving(t) \/ Closing(t)
<1>1. p.arg \in Nat
  BY Arguments
<1>2. PICK a : a = send_response(s, "MOIN")
  OBVIOUS
<1>3. PICK b : b = send_response(s, "PONG")
  OBVIOUS
<1>4. Called(a) /\ Called(b)
  BY <1>2, <1>3, Answered
<1>5. \/ t = Refuse(s, "handle_handshake")
      \/ t = tls_read_line(a, "handle_connection")
      \/ t = connection_stop(tls_shutdown(b))
      \/ t = client_exited(s, p.kw)
  BY <1>1, <1>2, <1>3 DEF handle_handshake, Exits
<1>6. "handle_handshake" \in Handlers /\ "handle_connection" \in Handlers
  BY DEF Handlers
<1> QED
  BY <1>4, <1>5, <1>6, Refuses, ReadsLine, Closes, Exited DEF Called

\* The data of a PUSH is waited for.
LEMMA AcceptsPush ==
  ASSUME NEW s, Called(s), NEW size \in Nat, NEW t, t = AcceptPush(s, size)
  PROVE  Serving(t)
<1>1. PICK a : a = send_response(s, "OKAY")
  OBVIOUS
<1>2. Called(a)
  BY <1>1, Answered
<1>3. PICK b : b = [a EXCEPT !.input_length = size]
  OBVIOUS
<1>4. Only(a, b, {"input_length", "queued"})
  BY <1>3 DEF Only
<1>5. Called(b)
  BY <1>2, <1>4, OwnFields DEF Called
<1>6. t = tls_read(b, "handle_push", size)
  BY <1>1, <1>3 DEF AcceptPush
<1>7. "handle_push" \in Handlers
  BY DEF Handlers
<1> QED
  BY <1>5, <1>6, <1>7, ReadsOn DEF Called, Owned

\* handle_connection: the connection_state that is read is live.
LEMMA Requested ==
  ASSUME NEW s, Called(s), NEW p \in Alphabet, NEW t, t = handle_connection(s, p)
  PROVE  Serving(t) \/ Closing(t)
<1>1. p.arg \in Nat
  BY Arguments
<1>2. Dereference(s) = s
  BY DEF Dereference, Called, Owned, Held
<1>3. \/ t = send_response(s, "OKAY")
      \/ t = Refuse(s, "handle_connection")
      \/ t = AcceptPush(s, p.arg)
      \/ t = client_exited(s, p.kw)
  BY <1>1, <1>2 DEF handle_connection, Exits
<1>4. "handle_connection" \in Handlers
  BY DEF Handlers
<1> QED
  BY <1>1, <1>3, <1>4, Answered, Refuses, AcceptsPush, Exited

\* handle_push: the data is queued or refused, and the next line waited for.
LEMMA Pushed ==
  ASSUME NEW s, Called(s), NEW data, NEW t, t = handle_push(s, data)
  PROVE  Serving(t)
<1>1. Dereference(s) = s
  BY DEF Dereference, Called, Owned, Held
<1>2. PICK a : a = [s EXCEPT !.queued = Append(@, data)]
  OBVIOUS
<1>3. Only(s, a, {"input_length", "queued"})
  BY <1>2 DEF Only
<1>4. Called(a)
  BY <1>3, OwnFields DEF Called
<1>5. PICK b : b = IF is_authorized(data) THEN send_response(a, "OKAY")
                   ELSE send_response(s, "FAIL")
  OBVIOUS
<1>6. Called(b)
  BY <1>4, <1>5, Answered
<1>7. t = tls_read_line(b, "handle_connection")
  BY <1>1, <1>2, <1>5, Zenon DEF handle_push
<1>8. "handle_connection" \in Handlers
  BY DEF Handlers
<1> QED
  BY <1>6, <1>7, <1>8, ReadsLine

\* The handler that read_cb calls with the line or the data it has read.
LEMMA Handled ==
  ASSUME NEW s, Called(s), NEW arg \in Seq(Alphabet), arg # <<>>,
         NEW t, t = Call(s.read_handler, s, arg)
  PROVE  Serving(t) \/ Closing(t)
<1>1. s.read_handler \in {"handle_handshake", "handle_connection", "handle_push"}
  BY DEF Called, Owned, Held, Valid, Handlers
<1>2. arg[1] \in Alphabet
  OBVIOUS
<1>3. \/ t = handle_handshake(s, arg[1]) \/ t = handle_connection(s, arg[1])
      \/ t = handle_push(s, arg)
  BY <1>1 DEF Call
<1> QED
  BY <1>2, <1>3, Greets, Requested, Pushed

-----------------------------------------------------------------------------
(* read_cb.                                                                *)

\* A watcher is stopped while the session goes on.
LEMMA StopsOwned ==
  ASSUME NEW s, Owned(s), NEW w, NEW t, t = ev_io_stop(s, w)
  PROVE  /\ Owned(t) /\ t.active = s.active \ {w} /\ t.input = s.input
         /\ t.read_handler = s.read_handler
         /\ t.output = s.output /\ t.output_buffer = s.output_buffer
<1>1. Valid(s) /\ Watched(s) /\ Sound(s, Alphabet, IoWatchers) /\ IsConn(s)
  BY AliveValid
<1>2. /\ Watched(t) /\ Only(s, t, {"active", "pending"})
      /\ t.active = s.active \ {w}
  BY <1>1, IoStop
<1>3. Sound(t, Alphabet, IoWatchers)
  BY <1>1, <1>2, SoundKept DEF SoundFields
<1>4. /\ t.tls = s.tls /\ t.process = s.process /\ t.faults = s.faults
      /\ t.connection = s.connection /\ t.error_handler = s.error_handler
      /\ t.timeout_handler = s.timeout_handler
      /\ t.line_too_long_handler = s.line_too_long_handler
      /\ t.drain_handler = s.drain_handler /\ t.read_handler = s.read_handler
      /\ t.sent_close = s.sent_close /\ t.input = s.input
      /\ t.output = s.output /\ t.output_buffer = s.output_buffer
      /\ ServerFields \subseteq DOMAIN t
  BY <1>1, <1>2 DEF Only, Valid, ServerFields, IsConn, TlsFields
<1>5. t.active \subseteq {"read", "write"}
  BY <1>2 DEF Owned, Held
<1>6. Valid(t)
  BY <1>1, <1>2, <1>3, <1>4, <1>5 DEF Valid, IoWatchers
<1>7. Owned(t)
  BY <1>4, <1>5, <1>6 DEF Owned, Held, Clean
<1> QED
  BY <1>2, <1>4, <1>7

\* A call of the library does not change the phase.
LEMMA CallKeeps ==
  ASSUME NEW s, Alive(s), NEW x, Result(s, x, SslFields, Alphabet)
  PROVE  /\ Alive(x.next) /\ x.next.active = s.active
         /\ Watched(x.next) /\ Sound(x.next, Alphabet, IoWatchers)
         /\ (Opening(s) => Opening(x.next)) /\ (Serving(s) => Serving(x.next))
         /\ (Closing(s) => Closing(x.next))
<1>1. Valid(s) /\ Watched(s) /\ Sound(s, Alphabet, IoWatchers) /\ IsConn(s)
  BY AliveValid
<1>2. PICK t : t = x.next
  OBVIOUS
<1>3. Only(s, t, SslFields) /\ Sound(t, Alphabet, IoWatchers)
  BY <1>1, <1>2, SoundCall DEF Result
<1>4. t.active = s.active /\ t.pending = s.pending /\ IsConn(t)
  BY <1>1, <1>3 DEF Only, IsConn, TlsFields, SslFields
<1>5. Watched(t)
  BY <1>1, <1>4 DEF Watched
<1>6. SslFields \cap PhaseFields = {}
  BY DEF SslFields, PhaseFields
<1>7. /\ (Opening(s) => Opening(t)) /\ (Serving(s) => Serving(t))
      /\ (Closing(s) => Closing(t))
  BY <1>1, <1>3, <1>5, <1>6, PhaseKept
<1>8. Alive(t)
  BY <1>7 DEF Alive
<1> QED
  BY <1>2, <1>3, <1>4, <1>5, <1>7, <1>8

\* The two loops that read, after any number of turns.  n is the size of the
\* request, 0 for a line.
Reading(r, n) ==
  /\ DOMAIN r = {"s", "line", "go"} /\ r.go \in {"yes", "no"}
  /\ r.go = "yes" => /\ r.line = <<>> /\ Serving(r.s)
                     /\ "read" \in r.s.active /\ r.s.input_size = n
  /\ r.line = <<>> => Serving(r.s) \/ Closing(r.s) \/ Freed(r.s)
  /\ r.line # <<>> => /\ Serving(r.s) /\ "read" \in r.s.active
                      /\ r.s.input = <<>> /\ r.line \in Seq(Alphabet)

\* A line that is too long ends the session.
LEMMA TooLong ==
  ASSUME NEW s, Serving(s), NEW t, t = CB!CallLineTooLong(CB!ev_io_stop(s, "read"))
  PROVE  Closing(t)
<1>1. PICK a : a = ev_io_stop(s, "read")
  OBVIOUS
<1>2. Owned(a) /\ a.active = s.active \ {"read"}
  BY <1>1, StopsOwned DEF Serving
<1>3. a.line_too_long_handler = "handle_line_too_long"
  BY <1>2 DEF Owned, Held
<1>4. t = Call(a.line_too_long_handler, a, <<>>)
  BY <1>1, <1>3, SameWatchers, ServerAssumption DEF CB!CallLineTooLong
<1>5. t = bail(a)
  BY <1>3, <1>4 DEF Call, handle_line_too_long
<1> QED
  BY <1>2, <1>5, Bails

\* A call that is not completed ends the turn and the loop.
LEMMA Interrupted ==
  ASSUME NEW s, Serving(s), "read" \in s.active, NEW code \in Codes, code # "done",
         code = "zero_return" => PeerClosed(s), NEW n, NEW r,
         r = [s |-> CB!check_tls_error(s, "read", code), line |-> <<>>, go |-> "no"]
  PROVE  Reading(r, n)
<1>1. PICK t : t = CB!check_tls_error(s, "read", code)
  OBVIOUS
<1>2. Serving(t) \/ Freed(t)
  BY <1>1, CheckError DEF Alive
<1>3. r.s = t /\ r.line = <<>> /\ r.go = "no" /\ DOMAIN r = {"s", "line", "go"}
  BY <1>1
<1> QED
  BY <1>2, <1>3 DEF Reading

\* One turn of read_line.
LEMMA LineTurn ==
  ASSUME NEW r, Reading(r, 0)
  PROVE  Reading(CB!ReadLineTurn(r), 0)
<1>0. PICK t : t = CB!ReadLineTurn(r)
  OBVIOUS
<1>1. CASE r.go = "no"
  <2>1. t = r
    BY <1>0, <1>1, Zenon DEF CB!ReadLineTurn
  <2> QED BY <1>0, <2>1
<1>2. CASE r.go = "yes"
  <2>1. PICK s : s = r.s
    OBVIOUS
  <2>2. /\ r.line = <<>> /\ Serving(s) /\ "read" \in s.active
        /\ s.input_size = 0 /\ DOMAIN r = {"s", "line", "go"}
    BY <1>2, <2>1 DEF Reading
  <2>3. Valid(s) /\ Watched(s) /\ Sound(s, Alphabet, IoWatchers) /\ IsConn(s)
    BY <2>2, AliveValid DEF Alive
  <2>4. PICK q \in Seq(Alphabet) : q = s.input_buffer /\ Len(q) <= LINE_MAX_SIZE
    BY <2>3 DEF Sound, Buffered
  <2>5. PICK n : n = CB!LineEnd(q)
    OBVIOUS
  <2>6. n \in 0..Len(q) /\ (n > 0 => q[n] \in Alphabet)
    <3>1. n = SelectInSeq(q, IsLine)
      BY <2>5 DEF CB!LineEnd, CB!SelectInSeq, SelectInSeq, CB!IsLine, IsLine,
                  CB!Min, Min
    <3> QED BY <3>1, FirstLine
  <2>7. PICK x : x = SSL_read(s, LINE_BUFFER_SIZE)
    OBVIOUS
  <2>8. /\ Result(s, x, SslFields, Alphabet)
        /\ x.code = "done" => Len(x.got) <= LINE_BUFFER_SIZE
    BY <2>3, <2>7, TlsAssumption, ReadResult DEF Sound
  <2>9. /\ Serving(x.next) /\ x.next.active = s.active
        /\ Watched(x.next) /\ Sound(x.next, Alphabet, IoWatchers)
    BY <2>2, <2>8, CallKeeps DEF Alive
  <2>10. t = IF n > 0
             THEN [s |-> [s EXCEPT !.input_buffer = SubSeq(@, n + 1, Len(@))],
                   line |-> <<q[n]>>, go |-> "no"]
             ELSE IF Len(q) + LINE_BUFFER_SIZE > LINE_MAX_SIZE
             THEN [s |-> CB!CallLineTooLong(CB!ev_io_stop(s, "read")),
                   line |-> <<>>, go |-> "no"]
             ELSE IF x.code # "done"
             THEN [s |-> CB!check_tls_error(x.next, "read", x.code),
                   line |-> <<>>, go |-> "no"]
             ELSE [r EXCEPT !.s = [x.next EXCEPT !.input_buffer = @ \o x.got]]
    <3>1. CB!SSL_read(s, LINE_BUFFER_SIZE) = x
      BY <2>7, SameRead
    <3>2. r.go # "no"
      BY <1>2
    <3> QED
      BY <1>0, <2>1, <2>4, <2>5, <3>1, <3>2, Zenon DEF CB!ReadLineTurn
  <2>11. CASE n > 0
    <3>1. PICK b : b = SubSeq(q, n + 1, Len(q))
      OBVIOUS
    <3>2. b \in Seq(Alphabet) /\ Len(b) <= LINE_MAX_SIZE
      BY <2>4, <2>6, <2>11, <3>1, Cut, TlsAssumption
    <3>3. PICK a : a = [s EXCEPT !.input_buffer = b]
      OBVIOUS
    <3>4. Watched(a) /\ Sound(a, Alphabet, IoWatchers) /\ Only(s, a, {"input_buffer"})
      BY <2>3, <3>2, <3>3, InputBufferOnly
    <3>5. Serving(a) /\ a.active = s.active
      BY <2>2, <2>3, <3>4, PhaseKept DEF PhaseFields
    <3>6. a.input = <<>>
      <4>1. s.input = <<>> /\ a.input = s.input
        BY <2>2, <2>3, <3>4 DEF Sound, Buffered, Only, IsConn, TlsFields
      <4> QED BY <4>1
    <3>7. t = [s |-> a, line |-> <<q[n]>>, go |-> "no"]
      BY <2>4, <2>10, <2>11, <3>1, <3>3
    <3>8. /\ t.s = a /\ t.line = <<q[n]>> /\ t.go = "no"
          /\ DOMAIN t = {"s", "line", "go"}
      BY <3>7
    <3>9. <<q[n]>> # <<>> /\ <<q[n]>> \in Seq(Alphabet)
      BY <2>6, <2>11
    <3>10. Reading(t, 0)
      BY <2>2, <3>5, <3>6, <3>8, <3>9 DEF Reading
    <3> QED BY <1>0, <3>10
  <2>12. CASE ~(n > 0) /\ Len(q) + LINE_BUFFER_SIZE > LINE_MAX_SIZE
    <3>1. PICK a : a = CB!CallLineTooLong(CB!ev_io_stop(s, "read"))
      OBVIOUS
    <3>2. Closing(a)
      BY <2>2, <3>1, TooLong
    <3>3. t = [s |-> a, line |-> <<>>, go |-> "no"]
      BY <2>10, <2>12, <3>1
    <3>4. t.s = a /\ t.line = <<>> /\ t.go = "no" /\ DOMAIN t = {"s", "line", "go"}
      BY <3>3
    <3>5. Reading(t, 0)
      BY <3>2, <3>4 DEF Reading
    <3> QED BY <1>0, <3>5
  <2>13. CASE /\ ~(n > 0) /\ ~(Len(q) + LINE_BUFFER_SIZE > LINE_MAX_SIZE)
              /\ x.code # "done"
    <3>1. t = [s |-> CB!check_tls_error(x.next, "read", x.code),
               line |-> <<>>, go |-> "no"]
      BY <2>10, <2>13
    <3>2. Reading(t, 0)
      BY <2>2, <2>8, <2>9, <2>13, <3>1, Interrupted DEF Result
    <3> QED BY <1>0, <3>2
  <2>14. CASE /\ ~(n > 0) /\ ~(Len(q) + LINE_BUFFER_SIZE > LINE_MAX_SIZE)
              /\ x.code = "done"
    <3>1. PICK u, g : u = x.next /\ g = x.got
      OBVIOUS
    <3>2. g \in Seq(Alphabet) /\ Len(g) <= LINE_BUFFER_SIZE
      BY <2>8, <2>14, <3>1 DEF Result
    <3>3. /\ Serving(u) /\ u.active = s.active /\ Valid(u)
          /\ Watched(u) /\ Sound(u, Alphabet, IoWatchers)
      BY <2>9, <3>1 DEF Serving, Owned, Held
    <3>4. Only(s, u, SslFields)
      BY <2>8, <3>1 DEF Result
    <3>5. u.input_buffer = q /\ u.input_size = 0
      BY <2>2, <2>3, <2>4, <3>4 DEF Only, SslFields, IsConn, TlsFields
    <3>6. PICK b : b = q \o g
      OBVIOUS
    <3>7. b \in Seq(Alphabet) /\ Len(b) <= LINE_MAX_SIZE
      BY <2>14, <3>2, <3>6, TlsAssumption
    <3>8. PICK a : a = [u EXCEPT !.input_buffer = b]
      OBVIOUS
    <3>9. Watched(a) /\ Sound(a, Alphabet, IoWatchers) /\ Only(u, a, {"input_buffer"})
      BY <3>3, <3>7, <3>8, InputBufferOnly
    <3>10. Serving(a) /\ a.active = u.active
      BY <3>3, <3>9, PhaseKept DEF PhaseFields
    <3>11. a.input_size = 0
      BY <3>3, <3>5, <3>9 DEF Only, Watched, IsConn, TlsFields
    <3>12. t = [r EXCEPT !.s = a]
      BY <2>10, <2>14, <3>1, <3>5, <3>6, <3>8
    <3>13. /\ t.s = a /\ t.line = <<>> /\ t.go = "yes"
           /\ DOMAIN t = {"s", "line", "go"}
      BY <1>2, <2>2, <3>12
    <3>14. Reading(t, 0)
      BY <2>2, <3>3, <3>10, <3>11, <3>13 DEF Reading
    <3> QED BY <1>0, <3>14
  <2> QED
    BY <2>11, <2>12, <2>13, <2>14
<1> QED
  BY <1>1, <1>2 DEF Reading

\* Data that arrives does not change the phase.
LEMMA InputKept ==
  ASSUME NEW s, Serving(s), "read" \in s.active, NEW t, Only(s, t, {"input"}),
         Watched(t), Sound(t, Alphabet, IoWatchers)
  PROVE  Serving(t) /\ t.active = s.active
<1>1. Valid(s) /\ IsConn(s) /\ Owned(s) /\ Flushing(s)
  BY AliveValid DEF Alive, Serving
<1>2. /\ t.tls = s.tls /\ t.process = s.process /\ t.faults = s.faults
      /\ t.connection = s.connection /\ t.error_handler = s.error_handler
      /\ t.timeout_handler = s.timeout_handler
      /\ t.line_too_long_handler = s.line_too_long_handler
      /\ t.drain_handler = s.drain_handler /\ t.read_handler = s.read_handler
      /\ t.sent_close = s.sent_close /\ t.active = s.active
      /\ t.output = s.output /\ t.output_buffer = s.output_buffer
      /\ ServerFields \subseteq DOMAIN t
  BY <1>1 DEF Only, Valid, ServerFields, IsConn, TlsFields
<1>3. Valid(t)
  BY <1>1, <1>2 DEF Valid
<1>4. Owned(t) /\ Flushing(t)
  BY <1>1, <1>2, <1>3 DEF Owned, Held, Clean, Flushing, Drained
<1> QED
  BY <1>2, <1>4 DEF Serving

\* One turn of read_bytes.
LEMMA BytesTurn ==
  ASSUME NEW m \in Nat, m > 0, NEW r, Reading(r, m)
  PROVE  Reading(CB!ReadBytesTurn(r), m)
<1>0. PICK t : t = CB!ReadBytesTurn(r)
  OBVIOUS
<1>1. CASE r.go = "no"
  <2>1. t = r
    BY <1>0, <1>1, Zenon DEF CB!ReadBytesTurn
  <2> QED BY <1>0, <2>1
<1>2. CASE r.go = "yes"
  <2>1. PICK s : s = r.s
    OBVIOUS
  <2>2. /\ r.line = <<>> /\ Serving(s) /\ "read" \in s.active
        /\ s.input_size = m /\ DOMAIN r = {"s", "line", "go"}
    BY <1>2, <2>1 DEF Reading
  <2>3. Valid(s) /\ Watched(s) /\ Sound(s, Alphabet, IoWatchers) /\ IsConn(s)
    BY <2>2, AliveValid DEF Alive
  <2>4. PICK q \in Seq(Alphabet) : q = s.input /\ Len(q) < m
    BY <2>2, <2>3 DEF Sound, Buffered
  <2>5. PICK n \in Nat : n = m - Len(q)
    <3>1. PICK k \in Nat : k = Len(q) /\ k < m
      BY <2>4
    <3>2. m - k \in Nat
      BY <3>1
    <3> QED BY <3>1, <3>2
  <2>6. PICK x : x = SSL_read(s, n)
    OBVIOUS
  <2>7. /\ Result(s, x, SslFields, Alphabet)
        /\ x.code = "done" => Len(x.got) <= n
    BY <2>3, <2>6, ReadResult DEF Sound
  <2>8. /\ Serving(x.next) /\ x.next.active = s.active
        /\ Watched(x.next) /\ Sound(x.next, Alphabet, IoWatchers)
    BY <2>2, <2>7, CallKeeps DEF Alive
  <2>9. PICK u, g : u = x.next /\ g = x.got
    OBVIOUS
  <2>10. PICK v : v = [u EXCEPT !.input = @ \o g]
    OBVIOUS
  <2>11. t = IF x.code # "done"
             THEN [s |-> CB!check_tls_error(u, "read", x.code),
                   line |-> <<>>, go |-> "no"]
             ELSE IF Len(v.input) < v.input_size THEN [r EXCEPT !.s = v]
             ELSE [s |-> CB!ReadComplete(v), line |-> v.input, go |-> "no"]
    <3>1. CB!SSL_read(s, s.input_size - Len(s.input)) = x
      BY <2>2, <2>4, <2>5, <2>6, SameRead
    <3>2. r.go # "no"
      BY <1>2
    <3> QED
      BY <1>0, <2>1, <2>9, <2>10, <3>1, <3>2, Zenon
      DEF CB!ReadBytesTurn, CB!ReadIncomplete
  <2>12. CASE x.code # "done"
    <3>1. t = [s |-> CB!check_tls_error(u, "read", x.code),
               line |-> <<>>, go |-> "no"]
      BY <2>11, <2>12
    <3>2. Reading(t, m)
      BY <2>2, <2>7, <2>8, <2>9, <2>12, <3>1, Interrupted DEF Result
    <3> QED BY <1>0, <3>2
  <2>13. CASE x.code = "done"
    <3>1. g \in Seq(Alphabet) /\ Len(g) <= n
      BY <2>7, <2>9, <2>13 DEF Result
    <3>2. /\ Serving(u) /\ u.active = s.active /\ Valid(u) /\ IsConn(u)
          /\ Watched(u) /\ Sound(u, Alphabet, IoWatchers)
      BY <2>8, <2>9 DEF Serving, Owned, Held, Watched
    <3>3. Only(s, u, SslFields)
      BY <2>7, <2>9 DEF Result
    <3>4. u.input = q /\ u.input_size = m
      BY <2>2, <2>3, <2>4, <3>3 DEF Only, SslFields, IsConn, TlsFields
    <3>5. PICK b : b = q \o g
      OBVIOUS
    <3>6. b \in Seq(Alphabet) /\ Len(b) <= m
      BY <2>4, <2>5, <3>1, <3>5
    <3>7. v = [u EXCEPT !.input = b] /\ v.input = b /\ v.input_size = m
      BY <2>10, <3>2, <3>4, <3>5 DEF IsConn, TlsFields
    <3>8. CASE Len(b) < m
      <4>1. Watched(v) /\ Sound(v, Alphabet, IoWatchers) /\ Only(u, v, {"input"})
        BY <3>2, <3>4, <3>6, <3>7, <3>8, InputOnly
      <4>2. Serving(v) /\ v.active = s.active
        BY <2>2, <3>2, <4>1, InputKept
      <4>3. t = [r EXCEPT !.s = v]
        BY <2>11, <2>13, <3>7, <3>8
      <4>4. t.s = v /\ t.line = <<>> /\ t.go = "yes" /\ DOMAIN t = {"s", "line", "go"}
        BY <1>2, <2>2, <4>3
      <4>5. Reading(t, m)
        BY <2>2, <3>7, <4>2, <4>4 DEF Reading
      <4> QED BY <1>0, <4>5
    <3>9. CASE ~(Len(b) < m)
      <4>1. PICK a : a = [u EXCEPT !.input = <<>>]
        OBVIOUS
      <4>2. a = CB!ReadComplete(v)
        <5>1. DOMAIN v = DOMAIN u /\ \A f \in DOMAIN u : f # "input" => v[f] = u[f]
          BY <3>7
        <5>2. CB!ReadComplete(v) = [v EXCEPT !.input = <<>>]
          BY DEF CB!ReadComplete
        <5> QED BY <3>7, <4>1, <5>2
      <4>3. PICK e : e = <<>>
        OBVIOUS
      <4>11. e \in Seq(Alphabet) /\ Len(e) < m /\ a = [u EXCEPT !.input = e]
        BY <4>1, <4>3
      <4>4. /\ Watched(a) /\ Sound(a, Alphabet, IoWatchers) /\ Only(u, a, {"input"})
            /\ a.input = e
        BY <3>2, <3>4, <4>11, InputOnly
      <4>5. Serving(a) /\ a.active = s.active
        BY <2>2, <3>2, <4>4, InputKept
      <4>6. t = [s |-> a, line |-> b, go |-> "no"]
        BY <2>11, <2>13, <3>7, <3>9, <4>2
      <4>7. t.s = a /\ t.line = b /\ t.go = "no" /\ DOMAIN t = {"s", "line", "go"}
        BY <4>6
      <4>8. b # <<>>
        BY <3>6, <3>9
      <4>9. Reading(t, m)
        BY <2>2, <3>6, <4>3, <4>4, <4>5, <4>7, <4>8 DEF Reading
      <4> QED BY <1>0, <4>9
    <3> QED BY <3>8, <3>9
  <2> QED
    BY <2>12, <2>13
<1> QED
  BY <1>1, <1>2 DEF Reading

\* read_line: what holds before the loop and of each turn holds after it.
LEMMA LineLoop ==
  ASSUME NEW s, NEW n \in Nat, n = LINE_MAX_SIZE + 2, NEW a,
         a = [s |-> s, line |-> <<>>, go |-> "yes"], Reading(a, 0),
         \A r : Reading(r, 0) => Reading(CB!ReadLineTurn(r), 0)
  PROVE  Reading(CB!read_line(s), 0)
<1> DEFINE Trace(g, m) ==
             g = [k \in 0..m |-> IF k = 0 THEN a ELSE CB!ReadLineTurn(g[k - 1])]
           E == {m \in Nat : \E g : Trace(g, m)}
<1>1. 0 \in E
  <2> DEFINE g == [k \in 0..0 |-> a]
  <2>1. Trace(g, 0)
    OBVIOUS
  <2> QED BY <2>1
<1>2. ASSUME NEW m \in Nat, m \in E PROVE m + 1 \in E
  <2>1. PICK g : Trace(g, m)
    BY <1>2
  <2> DEFINE h == [k \in 0..(m + 1) |-> IF k <= m THEN g[k] ELSE CB!ReadLineTurn(g[m])]
  <2>2. \A k \in 0..m : g[k] = IF k = 0 THEN a ELSE CB!ReadLineTurn(g[k - 1])
    BY <2>1
  <2>3. ASSUME NEW k \in 0..(m + 1)
        PROVE  h[k] = IF k = 0 THEN a ELSE CB!ReadLineTurn(h[k - 1])
    <3>1. CASE k = 0
      BY <2>2, <3>1
    <3>2. CASE k \in 1..m
      <4>1. h[k] = g[k] /\ h[k - 1] = g[k - 1] /\ k # 0
        BY <3>2
      <4> QED BY <2>2, <3>2, <4>1
    <3>3. CASE k = m + 1
      <4>1. h[k] = CB!ReadLineTurn(g[m]) /\ h[k - 1] = g[m] /\ k # 0
        BY <3>3
      <4> QED BY <4>1
    <3> QED BY <3>1, <3>2, <3>3
  <2>4. h = [k \in 0..(m + 1) |-> h[k]]
    OBVIOUS
  <2> HIDE DEF h
  <2>5. Trace(h, m + 1)
    BY <2>3, <2>4
  <2> QED BY <2>5
<1>3. Nat \subseteq E
  <2> HIDE DEF E
  <2> QED BY <1>1, <1>2, SetInduction
<1> DEFINE turn == CHOOSE g : Trace(g, n)
<1>4. Trace(turn, n)
  <2>1. \E g : Trace(g, n)
    BY <1>3
  <2> HIDE DEF Trace
  <2> QED BY <2>1
<1>5. CB!read_line(s) = turn[n]
  BY Zenon DEF CB!read_line
<1> HIDE DEF turn
<1>6. \A k \in 0..n : turn[k] = IF k = 0 THEN a ELSE CB!ReadLineTurn(turn[k - 1])
  BY <1>4
<1> DEFINE T == {k \in Nat : k <= n => Reading(turn[k], 0)}
<1>7. 0 \in T
  BY <1>6
<1>8. ASSUME NEW k \in Nat, k \in T PROVE k + 1 \in T
  <2> SUFFICES ASSUME k + 1 <= n PROVE Reading(turn[k + 1], 0)
    OBVIOUS
  <2>1. turn[k + 1] = CB!ReadLineTurn(turn[k])
    <3>1. k + 1 \in 0..n /\ k + 1 # 0 /\ (k + 1) - 1 = k
      OBVIOUS
    <3> QED BY <1>6, <3>1
  <2>2. Reading(turn[k], 0)
    BY <1>8
  <2> QED BY <2>1, <2>2
<1>9. Nat \subseteq T
  <2> HIDE DEF T
  <2> QED BY <1>7, <1>8, SetInduction
<1>10. Reading(turn[n], 0)
  BY <1>9
<1> QED BY <1>5, <1>10

\* read_bytes.
LEMMA BytesLoop ==
  ASSUME NEW s, NEW n \in Nat, n = s.input_size + 1, NEW a,
         a = [s |-> s, line |-> <<>>, go |-> "yes"], Reading(a, s.input_size),
         \A r : Reading(r, s.input_size) => Reading(CB!ReadBytesTurn(r), s.input_size)
  PROVE  Reading(CB!read_bytes(s), s.input_size)
<1> DEFINE Trace(g, m) ==
             g = [k \in 0..m |-> IF k = 0 THEN a ELSE CB!ReadBytesTurn(g[k - 1])]
           E == {m \in Nat : \E g : Trace(g, m)}
<1>1. 0 \in E
  <2> DEFINE g == [k \in 0..0 |-> a]
  <2>1. Trace(g, 0)
    OBVIOUS
  <2> QED BY <2>1
<1>2. ASSUME NEW m \in Nat, m \in E PROVE m + 1 \in E
  <2>1. PICK g : Trace(g, m)
    BY <1>2
  <2> DEFINE h == [k \in 0..(m + 1) |-> IF k <= m THEN g[k] ELSE CB!ReadBytesTurn(g[m])]
  <2>2. \A k \in 0..m : g[k] = IF k = 0 THEN a ELSE CB!ReadBytesTurn(g[k - 1])
    BY <2>1
  <2>3. ASSUME NEW k \in 0..(m + 1)
        PROVE  h[k] = IF k = 0 THEN a ELSE CB!ReadBytesTurn(h[k - 1])
    <3>1. CASE k = 0
      BY <2>2, <3>1
    <3>2. CASE k \in 1..m
      <4>1. h[k] = g[k] /\ h[k - 1] = g[k - 1] /\ k # 0
        BY <3>2
      <4> QED BY <2>2, <3>2, <4>1
    <3>3. CASE k = m + 1
      <4>1. h[k] = CB!ReadBytesTurn(g[m]) /\ h[k - 1] = g[m] /\ k # 0
        BY <3>3
      <4> QED BY <4>1
    <3> QED BY <3>1, <3>2, <3>3
  <2>4. h = [k \in 0..(m + 1) |-> h[k]]
    OBVIOUS
  <2> HIDE DEF h
  <2>5. Trace(h, m + 1)
    BY <2>3, <2>4
  <2> QED BY <2>5
<1>3. Nat \subseteq E
  <2> HIDE DEF E
  <2> QED BY <1>1, <1>2, SetInduction
<1> DEFINE turn == CHOOSE g : Trace(g, n)
<1>4. Trace(turn, n)
  <2>1. \E g : Trace(g, n)
    BY <1>3
  <2> HIDE DEF Trace
  <2> QED BY <2>1
<1>5. CB!read_bytes(s) = turn[n]
  BY Zenon DEF CB!read_bytes
<1> HIDE DEF turn
<1>6. \A k \in 0..n : turn[k] = IF k = 0 THEN a ELSE CB!ReadBytesTurn(turn[k - 1])
  BY <1>4
<1> DEFINE T == {k \in Nat : k <= n => Reading(turn[k], s.input_size)}
<1>7. 0 \in T
  BY <1>6
<1>8. ASSUME NEW k \in Nat, k \in T PROVE k + 1 \in T
  <2> SUFFICES ASSUME k + 1 <= n PROVE Reading(turn[k + 1], s.input_size)
    OBVIOUS
  <2>1. turn[k + 1] = CB!ReadBytesTurn(turn[k])
    <3>1. k + 1 \in 0..n /\ k + 1 # 0 /\ (k + 1) - 1 = k
      OBVIOUS
    <3> QED BY <1>6, <3>1
  <2>2. Reading(turn[k], s.input_size)
    BY <1>8
  <2> QED BY <2>1, <2>2
<1>9. Nat \subseteq T
  <2> HIDE DEF T
  <2> QED BY <1>7, <1>8, SetInduction
<1>10. Reading(turn[n], s.input_size)
  BY <1>9
<1> QED BY <1>5, <1>10

\* What every callback does first: the other watcher is fed, if it is
\* active, and the time of the last activity is noted.
LEMMA Woken ==
  ASSUME NEW s, Alive(s), NEW w, NEW t, t = CB!Touch(CB!reset_watcher_state(s, w))
  PROVE  /\ Alive(t) /\ t.active = s.active /\ Only(s, t, {"pending", "age"})
         /\ (Serving(s) => Serving(t)) /\ (Closing(s) => Closing(t))
<1>1. Valid(s) /\ Watched(s) /\ Sound(s, Alphabet, IoWatchers)
  BY AliveValid
<1>2. PICK a : a = CB!reset_watcher_state(s, w)
  OBVIOUS
<1>3. a = s \/ (w \in s.active /\ a = ev_feed_event(s, w))
  BY <1>2, SameWatchers DEF CB!reset_watcher_state
<1>4. Watched(a) /\ Only(s, a, {"pending"})
  BY <1>1, <1>3, FeedEvent, OnlyRefl
<1>5. Sound(a, Alphabet, IoWatchers)
  BY <1>1, <1>4, SoundKept DEF SoundFields
<1>6. t = Touch(a)
  BY <1>2, SameWatchers
<1>7. Watched(t) /\ Sound(t, Alphabet, IoWatchers) /\ Only(a, t, {"age"})
  BY <1>4, <1>5, <1>6, TouchSound
<1>8. Only(s, t, {"pending", "age"})
  BY <1>4, <1>7, OnlyTrans
<1>9. {"pending", "age"} \cap PhaseFields = {}
  BY DEF PhaseFields
<1>10. /\ t.active = s.active /\ (Opening(s) => Opening(t))
       /\ (Serving(s) => Serving(t)) /\ (Closing(s) => Closing(t))
  BY <1>1, <1>7, <1>8, <1>9, PhaseKept
<1> QED
  BY <1>8, <1>10 DEF Alive

\* read_cb.
LEMMA ReadCallback ==
  ASSUME NEW c, Serving(c), "read" \in c.active, NEW t, t = CB!read_cb(c)
  PROVE  Serving(t) \/ Closing(t) \/ Freed(t)
<1>1. PICK s : s = CB!Touch(CB!reset_watcher_state(c, "write"))
  OBVIOUS
<1>2. Serving(s) /\ "read" \in s.active
  BY <1>1, Woken DEF Alive
<1>3. PICK n \in Nat : n = s.input_size
  BY <1>2 DEF Serving, Owned, Held, Valid, Sound, Buffered
<1>4. PICK a : a = [s |-> s, line |-> <<>>, go |-> "yes"]
  OBVIOUS
<1>5. Reading(a, n)
  <2>1. a.s = s /\ a.line = <<>> /\ a.go = "yes" /\ DOMAIN a = {"s", "line", "go"}
    BY <1>4
  <2> QED BY <1>2, <1>3, <2>1 DEF Reading
<1>6. PICK r : r = IF n = 0 THEN CB!read_line(s) ELSE CB!read_bytes(s)
  OBVIOUS
<1>7. Reading(r, n)
  <2>1. CASE n = 0
    <3>1. LINE_MAX_SIZE + 2 \in Nat
      BY TlsAssumption
    <3>2. Reading(CB!read_line(s), 0)
      BY <1>4, <1>5, <2>1, <3>1, LineTurn, LineLoop
    <3> QED BY <1>6, <2>1, <3>2
  <2>2. CASE n # 0
    <3>1. n > 0 /\ n + 1 \in Nat /\ r = CB!read_bytes(s)
      BY <1>6, <2>2
    <3>2. Reading(CB!read_bytes(s), n)
      BY <1>3, <1>4, <1>5, <3>1, BytesTurn, BytesLoop
    <3> QED BY <3>1, <3>2
  <2> QED BY <2>1, <2>2
<1>8. t = IF r.line = <<>> THEN r.s
          ELSE Call(r.s.read_handler, CB!ev_io_stop(r.s, "read"), r.line)
  BY <1>1, <1>3, <1>6, Zenon DEF CB!read_cb
<1>9. CASE r.line = <<>>
  BY <1>7, <1>8, <1>9 DEF Reading
<1>10. CASE r.line # <<>>
  <2>1. PICK u, q : u = r.s /\ q = r.line
    OBVIOUS
  <2>2. Serving(u) /\ u.input = <<>> /\ q \in Seq(Alphabet) /\ q # <<>>
    BY <1>7, <1>10, <2>1 DEF Reading
  <2>3. PICK v : v = ev_io_stop(u, "read")
    OBVIOUS
  <2>4. /\ Owned(v) /\ v.active = u.active \ {"read"} /\ v.input = u.input
        /\ v.read_handler = u.read_handler
        /\ v.output = u.output /\ v.output_buffer = u.output_buffer
    BY <2>2, <2>3, StopsOwned DEF Serving
  <2>5. Flushing(v)
    BY <2>2, <2>4 DEF Serving, Flushing, Drained
  <2>6. Called(v)
    BY <2>2, <2>4, <2>5 DEF Called
  <2>7. t = Call(v.read_handler, v, q)
    BY <1>8, <1>10, <2>1, <2>3, <2>4, SameWatchers
  <2> QED
    BY <2>2, <2>6, <2>7, Handled
<1> QED
  BY <1>9, <1>10

-----------------------------------------------------------------------------
(* write_cb.                                                               *)

\* As long as the write watcher is active, what is left to write does not
\* matter.
LEMMA OutputKept ==
  ASSUME NEW s, Serving(s) \/ Closing(s), "write" \in s.active,
         NEW t, Only(s, t, {"output", "output_buffer"}),
         Watched(t), Sound(t, Alphabet, IoWatchers)
  PROVE  /\ t.active = s.active
         /\ (Serving(s) => Serving(t)) /\ (Closing(s) => Closing(t))
<1>1. Valid(s) /\ IsConn(s)
  BY AliveValid DEF Alive
<1>2. /\ t.tls = s.tls /\ t.process = s.process /\ t.faults = s.faults
      /\ t.connection = s.connection /\ t.error_handler = s.error_handler
      /\ t.timeout_handler = s.timeout_handler
      /\ t.line_too_long_handler = s.line_too_long_handler
      /\ t.drain_handler = s.drain_handler /\ t.read_handler = s.read_handler
      /\ t.sent_close = s.sent_close /\ t.active = s.active
      /\ t.input = s.input /\ ServerFields \subseteq DOMAIN t
  BY <1>1 DEF Only, Valid, ServerFields, IsConn, TlsFields
<1>3. Valid(t) /\ Flushing(t)
  BY <1>1, <1>2 DEF Valid, Flushing
<1>4. (Clean(s) => Clean(t)) /\ (Serving(s) => Owned(t))
  BY <1>2, <1>3 DEF Serving, Owned, Held, Clean
<1>5. Serving(s) => Serving(t)
  BY <1>2, <1>3, <1>4 DEF Serving
<1>6. Closing(s) => Closing(t)
  BY <1>2, <1>3, <1>4 DEF Closing
<1> QED
  BY <1>2, <1>5, <1>6

\* All is written: the session goes on, or the shutdown begins.
LEMMA WrittenKeeps ==
  ASSUME NEW s, Serving(s) \/ Closing(s), "write" \in s.active, s.output = <<>>,
         NEW t, t = CB!Written(s)
  PROVE  /\ Serving(t) \/ Closing(t)
         /\ t.output_buffer # <<>> => "write" \in t.active
<1>1. Valid(s) /\ Watched(s) /\ Sound(s, Alphabet, IoWatchers) /\ IsConn(s)
  BY AliveValid DEF Alive
<1>2. PICK a : a = ev_io_stop(s, "write")
  OBVIOUS
<1>3. \/ s.output_buffer # <<>> /\ t = s
      \/ s.output_buffer = <<>> /\ s.drain_handler = "NULL" /\ t = a
      \/ s.output_buffer = <<>> /\ s.drain_handler # "NULL" /\ t = start_shutdown(a)
  BY <1>2, SameWatchers, SameFree DEF CB!Written
<1>4. CASE s.output_buffer # <<>> /\ t = s
  BY <1>4
<1>5. CASE s.output_buffer = <<>> /\ s.drain_handler = "NULL" /\ t = a
  <2>1. Serving(s) /\ Owned(s)
    BY <1>5 DEF Closing, Serving
  <2>2. /\ Owned(a) /\ a.active = s.active \ {"write"} /\ a.input = s.input
        /\ a.output = s.output /\ a.output_buffer = s.output_buffer
    BY <1>2, <2>1, StopsOwned
  <2>3. Flushing(a)
    BY <1>5, <2>2 DEF Flushing, Drained
  <2>4. "read" \in a.active \/ a.input = <<>>
    BY <2>1, <2>2 DEF Serving
  <2>5. Serving(a)
    BY <2>2, <2>3, <2>4 DEF Serving
  <2> QED
    BY <1>5, <2>2, <2>5
<1>6. CASE s.output_buffer = <<>> /\ s.drain_handler # "NULL" /\ t = start_shutdown(a)
  <2>1. Closing(s) /\ s.active = {"write"} /\ s.sent_close = "no"
    BY <1>6 DEF Closing, Serving, Owned, Held
  <2>2. /\ Watched(a) /\ Only(s, a, {"active", "pending"})
        /\ a.active = s.active \ {"write"}
    BY <1>1, <1>2, IoStop
  <2>3. Sound(a, Alphabet, IoWatchers)
    BY <1>1, <2>2, SoundKept DEF SoundFields
  <2>4. /\ Watched(t) /\ Sound(t, Alphabet, IoWatchers) /\ Only(a, t, WatchFields)
        /\ t.active = a.active \cup {"shutdown"}
    BY <1>6, <2>2, <2>3, StartFedSound DEF start_shutdown
  <2>5. Only(s, t, WatchFields)
    BY <2>2, <2>4, OnlyTrans DEF WatchFields
  <2>6. t.active = {"shutdown"}
    BY <2>1, <2>2, <2>4
  <2>7. /\ t.tls = s.tls /\ t.process = s.process /\ t.faults = s.faults
        /\ t.connection = s.connection /\ t.error_handler = s.error_handler
        /\ t.timeout_handler = s.timeout_handler
        /\ t.drain_handler = s.drain_handler /\ t.read_handler = s.read_handler
        /\ t.sent_close = s.sent_close /\ t.output = s.output
        /\ t.output_buffer = s.output_buffer /\ ServerFields \subseteq DOMAIN t
    BY <1>1, <2>5 DEF Only, Valid, ServerFields, IsConn, TlsFields, WatchFields
  <2>8. Valid(t)
    BY <1>1, <2>4, <2>6, <2>7 DEF Valid, IoWatchers
  <2>9. Drained(t)
    BY <1>6, <2>7 DEF Drained
  <2>10. Closing(t)
    BY <2>1, <2>6, <2>7, <2>8, <2>9 DEF Closing, Clean, Flushing
  <2> QED
    BY <1>6, <2>7, <2>10
<1> QED
  BY <1>3, <1>4, <1>5, <1>6

\* One turn of write_cb's outer loop.
LEMMA WriteTurn ==
  ASSUME NEW s, Serving(s) \/ Closing(s), "write" \in s.active,
         NEW r, r = CB!WriteOutput(s)
  PROVE  /\ Serving(r.s) \/ Closing(r.s) \/ Freed(r.s)
         /\ r.done = "yes" => /\ Serving(r.s) \/ Closing(r.s)
                              /\ r.s.output_buffer # <<>> => "write" \in r.s.active
<1>1. Valid(s) /\ Watched(s) /\ Sound(s, Alphabet, IoWatchers) /\ IsConn(s)
  BY AliveValid DEF Alive
<1>2. PICK o : o = IF s.output # <<>> THEN s
                   ELSE [s EXCEPT !.output = s.output_buffer, !.output_buffer = <<>>]
  OBVIOUS
<1>3. /\ Watched(o) /\ Sound(o, Alphabet, IoWatchers) /\ o.active = s.active
      /\ Serving(o) \/ Closing(o)
  <2>1. CASE s.output # <<>>
    BY <1>1, <1>2, <2>1
  <2>2. CASE s.output = <<>>
    <3>1. o = [s EXCEPT !.output = s.output_buffer, !.output_buffer = <<>>]
      BY <1>2, <2>2
    <3>2. /\ Only(s, o, {"output", "output_buffer"})
          /\ o.output = s.output_buffer /\ o.output_buffer = <<>>
      BY <1>1, <3>1 DEF Only, IsConn, TlsFields
    <3>3. o.output \in Seq(Alphabet) /\ o.output_buffer \in Seq(Alphabet)
      BY <1>1, <3>2 DEF Sound, Buffered
    <3>4. Watched(o) /\ Sound(o, Alphabet, IoWatchers)
      BY <1>1, <3>2, <3>3, OutputOnly
    <3> QED
      BY <3>2, <3>4, OutputKept
  <2> QED BY <2>1, <2>2
<1>4. PICK d \in Seq(Alphabet) : d = o.output
  BY <1>3 DEF Sound, Buffered
<1>5. PICK x : x = SSL_write(o, d)
  OBVIOUS
<1>6. /\ Result(o, x, SslFields, Alphabet) /\ x.code # "zero_return"
      /\ \E n \in 0..Len(d) : x.got = SubSeq(d, 1, n) /\ Len(x.got) = n
  BY <1>3, <1>4, <1>5, WriteResult DEF Sound
<1>7. PICK u : u = x.next
  OBVIOUS
<1>8. /\ Serving(u) \/ Closing(u)
      /\ u.active = s.active /\ Watched(u) /\ Sound(u, Alphabet, IoWatchers)
  BY <1>3, <1>6, <1>7, CallKeeps DEF Alive
<1>9. PICK rest \in Seq(Alphabet) : rest = SubSeq(d, Len(x.got) + 1, Len(d))
  BY <1>6, Cut
<1>10. PICK t : t = [u EXCEPT !.output = rest]
  OBVIOUS
<1>11. /\ Watched(t) /\ Sound(t, Alphabet, IoWatchers) /\ t.active = s.active
       /\ Serving(t) \/ Closing(t)
       /\ t.output = rest
  <2>1. IsConn(u)
    BY <1>8 DEF Watched
  <2>2. /\ Only(u, t, {"output", "output_buffer"}) /\ t.output = rest
        /\ t.output_buffer = u.output_buffer
    BY <1>10, <2>1 DEF Only, IsConn, TlsFields
  <2>3. t.output \in Seq(Alphabet) /\ t.output_buffer \in Seq(Alphabet)
    BY <1>8, <2>2 DEF Sound, Buffered
  <2>4. Watched(t) /\ Sound(t, Alphabet, IoWatchers)
    BY <1>8, <2>2, <2>3, OutputOnly
  <2> QED
    BY <1>8, <2>2, <2>4, OutputKept
<1>12. r = CASE x.code # "done" ->
                  [done |-> "no", s |-> CB!check_tls_error(u, "write", x.code)]
             [] x.code = "done" /\ rest # <<>> ->
                  [done |-> "no", s |-> CB!check_tls_error(t, "write", "want_write")]
             [] x.code = "done" /\ rest = <<>> ->
                  [done |-> "yes", s |-> CB!Written(t)]
  <2>1. CB!SSL_write(o, o.output) = x
    BY <1>4, <1>5, SameWrite
  <2> QED
    BY <1>2, <1>4, <1>7, <1>9, <1>10, <2>1, Zenon DEF CB!WriteOutput
<1>13. CASE x.code # "done"
  <2>1. PICK v : v = CB!check_tls_error(u, "write", x.code)
    OBVIOUS
  <2>2. r = [done |-> "no", s |-> v]
    BY <1>12, <1>13, <2>1
  <2>3. x.code \in Codes
    BY <1>6 DEF Result
  <2>4. Serving(v) \/ Closing(v) \/ Freed(v)
    BY <1>6, <1>8, <1>13, <2>1, <2>3, CheckError DEF Alive
  <2> QED
    BY <2>2, <2>4
<1>14. CASE x.code = "done" /\ rest # <<>>
  <2>1. PICK v : v = CB!check_tls_error(t, "write", "want_write")
    OBVIOUS
  <2>2. r = [done |-> "no", s |-> v]
    BY <1>12, <1>14, <2>1
  <2>3. "want_write" \in Codes /\ "want_write" # "zero_return" /\ "want_write" # "done"
    BY DEF Codes
  <2>4. Serving(v) \/ Closing(v) \/ Freed(v)
    BY <1>11, <2>1, <2>3, CheckError DEF Alive
  <2> QED
    BY <2>2, <2>4
<1>15. CASE x.code = "done" /\ rest = <<>>
  <2>1. PICK v : v = CB!Written(t)
    OBVIOUS
  <2>2. r = [done |-> "yes", s |-> v]
    BY <1>12, <1>15, <2>1
  <2>3. /\ Serving(v) \/ Closing(v)
        /\ v.output_buffer # <<>> => "write" \in v.active
    BY <1>11, <1>15, <2>1, WrittenKeeps
  <2> QED
    BY <2>2, <2>3
<1> QED
  BY <1>13, <1>14, <1>15

\* write_cb.
LEMMA WriteCallback ==
  ASSUME NEW c, Serving(c) \/ Closing(c), "write" \in c.active,
         NEW t, t = CB!write_cb(c)
  PROVE  Serving(t) \/ Closing(t) \/ Freed(t)
<1>1. PICK s : s = CB!Touch(CB!reset_watcher_state(c, "read"))
  OBVIOUS
<1>2. (Serving(s) \/ Closing(s)) /\ "write" \in s.active
  BY <1>1, Woken DEF Alive
<1>3. PICK r : r = CB!WriteOutput(s)
  OBVIOUS
<1>4. /\ Serving(r.s) \/ Closing(r.s) \/ Freed(r.s)
      /\ r.done = "yes" => /\ Serving(r.s) \/ Closing(r.s)
                           /\ r.s.output_buffer # <<>> => "write" \in r.s.active
  BY <1>2, <1>3, WriteTurn
<1>5. PICK q : q = CB!WriteOutput(r.s)
  OBVIOUS
<1>6. t = IF r.done = "yes" /\ r.s.output_buffer # <<>> THEN q.s ELSE r.s
  BY <1>1, <1>3, <1>5 DEF CB!write_cb
<1>7. CASE r.done = "yes" /\ r.s.output_buffer # <<>>
  <2>1. (Serving(r.s) \/ Closing(r.s)) /\ "write" \in r.s.active
    BY <1>4, <1>7
  <2>2. Serving(q.s) \/ Closing(q.s) \/ Freed(q.s)
    BY <1>5, <2>1, WriteTurn
  <2> QED
    BY <1>6, <1>7, <2>2
<1>8. CASE ~(r.done = "yes" /\ r.s.output_buffer # <<>>)
  BY <1>4, <1>6, <1>8
<1> QED
  BY <1>7, <1>8

-----------------------------------------------------------------------------
(* shutdown_cb and timeout_cb.                                             *)

\* A connection that is shut down has nothing left to write.
LEMMA ClosingFrees ==
  ASSUME NEW s, Opening(s) \/ Closing(s), NEW t, t = tls_free(s)
  PROVE  Freed(t)
<1>1. /\ Valid(s) /\ Clean(s) /\ s.tls = "live"
      /\ s.connection \in {"none", "freed"}
      /\ s.sent_close = "yes" => Drained(s)
  BY DEF Opening, Closing, Flushing
<1> QED
  BY <1>1, FreeEnds

\* shutdown_cb.
LEMMA ShutdownCallback ==
  ASSUME NEW c, Closing(c), "shutdown" \in c.active, NEW t, t = CB!shutdown_cb(c)
  PROVE  Closing(t) \/ Freed(t)
<1>1. Valid(c) /\ Watched(c) /\ Sound(c, Alphabet, IoWatchers)
  BY AliveValid DEF Alive
<1>2. PICK s : s = Touch(c)
  OBVIOUS
<1>3. Watched(s) /\ Sound(s, Alphabet, IoWatchers) /\ Only(c, s, {"age"})
  BY <1>1, <1>2, TouchSound
<1>4. Closing(s) /\ s.active = c.active
  BY <1>1, <1>3, PhaseKept DEF PhaseFields
<1>5. s.active = {"shutdown"} /\ Drained(s) /\ IsConn(s) /\ Valid(s)
  BY <1>3, <1>4 DEF Closing, Flushing, Watched
<1>6. PICK x : x = SSL_shutdown(s)
  OBVIOUS
<1>7. Result(s, x, {"out", "sent_close"}, Alphabet) /\ x.code # "zero_return"
  BY <1>3, <1>6, ShutdownResult DEF Sound
<1>8. PICK u : u = x.next
  OBVIOUS
<1>9. Only(s, u, {"out", "sent_close"}) /\ Sound(u, Alphabet, IoWatchers)
  BY <1>3, <1>7, <1>8, SoundCall DEF Result
<1>10. /\ u.tls = s.tls /\ u.process = s.process /\ u.faults = s.faults
       /\ u.connection = s.connection /\ u.error_handler = s.error_handler
       /\ u.timeout_handler = s.timeout_handler
       /\ u.drain_handler = s.drain_handler /\ u.read_handler = s.read_handler
       /\ u.active = s.active /\ u.pending = s.pending
       /\ u.output = s.output /\ u.output_buffer = s.output_buffer
       /\ ServerFields \subseteq DOMAIN u /\ IsConn(u)
  BY <1>5, <1>9 DEF Only, Valid, ServerFields, IsConn, TlsFields
<1>11. Valid(u)
  BY <1>3, <1>5, <1>9, <1>10 DEF Valid, Watched
<1>12. Closing(u)
  BY <1>4, <1>5, <1>10, <1>11 DEF Closing, Clean, Flushing, Drained
<1>13. t = IF x.code = "done" THEN tls_free(u)
           ELSE CB!check_tls_error(u, "shutdown", x.code)
  BY <1>2, <1>6, <1>8, SameWatchers, SameShutdown, SameFree DEF CB!shutdown_cb
<1>14. CASE x.code = "done"
  BY <1>12, <1>13, <1>14, ClosingFrees
<1>15. CASE x.code # "done"
  <2>1. x.code \in Codes
    BY <1>7 DEF Result
  <2> QED
    BY <1>5, <1>7, <1>10, <1>12, <1>13, <1>15, <2>1, CheckError DEF Alive
<1> QED
  BY <1>14, <1>15

\* The timer is started.
LEMMA TimerKeeps ==
  ASSUME NEW s, Valid(s), NEW n \in 0..Timeout, NEW t, t = ev_timer_start(s, n)
  PROVE  /\ Watched(t) /\ Sound(t, Alphabet, IoWatchers)
         /\ Only(s, t, {"timer", "left"})
<1>1. Watched(s) /\ Sound(s, Alphabet, IoWatchers) /\ IsConn(s) /\ Timed(s)
  BY DEF Valid, Watched, Sound
<1>2. Only(s, t, {"timer", "left"}) /\ Timed(t)
  BY <1>1, TimerStart
<1>3. Streams(t, Alphabet) /\ Buffered(t, Alphabet) /\ Eventful(t, IoWatchers)
  BY <1>1, <1>2, StreamsKept, BufferedKept, EventfulKept DEF Sound, BufferFields
<1>4. t.pending = s.pending /\ t.active = s.active /\ IsConn(t)
  BY <1>1, <1>2 DEF Only, IsConn, TlsFields
<1> QED
  BY <1>1, <1>2, <1>3, <1>4 DEF Watched, Sound

\* The watchers are stopped before the handler of the timeout is called.
LEMMA StopsAll ==
  ASSUME NEW s, Alive(s), NEW t, t = StopActive(s)
  PROVE  /\ Valid(t) /\ t.active = {} /\ Only(s, t, {"active", "pending"})
         /\ Clean(t) /\ t.tls = "live"
         /\ (Serving(s) => Owned(t))
         /\ (Opening(s) => Opening(t))
         /\ t.connection = s.connection /\ t.timeout_handler = s.timeout_handler
         /\ t.sent_close = s.sent_close /\ t.output = s.output
         /\ t.output_buffer = s.output_buffer
<1>1. /\ Valid(s) /\ Watched(s) /\ Sound(s, Alphabet, IoWatchers) /\ IsConn(s)
      /\ s.active \subseteq IoWatchers
  BY AliveValid
<1>2. /\ Watched(t) /\ Only(s, t, {"active", "pending"})
      /\ \A w : w \in t.active <=> w \in s.active /\ w \notin IoWatchers
  BY <1>1, StopActiveOnly
<1>3. t.active = {}
  BY <1>1, <1>2
<1>4. Sound(t, Alphabet, IoWatchers)
  BY <1>1, <1>2, SoundKept DEF SoundFields
<1>5. /\ t.tls = s.tls /\ t.process = s.process /\ t.faults = s.faults
      /\ t.connection = s.connection /\ t.error_handler = s.error_handler
      /\ t.timeout_handler = s.timeout_handler
      /\ t.line_too_long_handler = s.line_too_long_handler
      /\ t.drain_handler = s.drain_handler /\ t.read_handler = s.read_handler
      /\ t.sent_close = s.sent_close /\ t.input = s.input
      /\ t.output = s.output /\ t.output_buffer = s.output_buffer
      /\ ServerFields \subseteq DOMAIN t
  BY <1>1, <1>2 DEF Only, Valid, ServerFields, IsConn, TlsFields
<1>6. Valid(t)
  BY <1>1, <1>2, <1>3, <1>4, <1>5 DEF Valid
<1>7. Clean(s) /\ s.tls = "live"
  BY DEF Alive, Opening, Serving, Owned, Held, Closing
<1>8. Clean(t) /\ t.tls = "live"
  BY <1>5, <1>7 DEF Clean
<1>9. Serving(s) => Owned(t)
  BY <1>3, <1>5, <1>6, <1>8 DEF Serving, Owned, Held
<1>10. Opening(s) => Opening(t)
  BY <1>3, <1>5, <1>6, <1>8 DEF Opening, Drained
<1> QED
  BY <1>2, <1>3, <1>5, <1>6, <1>8, <1>9, <1>10

\* timeout_cb, of a connection that has not been freed.
LEMMA TimeoutCallback ==
  ASSUME NEW s, Alive(s), NEW t, t = CB!timeout_cb(s)
  PROVE  Alive(t) \/ Freed(t)
<1>1. Valid(s) /\ Watched(s) /\ Sound(s, Alphabet, IoWatchers) /\ s.tls = "live"
  BY AliveValid
<1>2. s.age \in 0..Timeout /\ Timeout \in Nat
  BY <1>1, TlsAssumption DEF Sound, Timed
<1>3. PICK a : a = StopActive(s)
  OBVIOUS
<1>4. PICK b : b = ev_timer_start(a, Timeout)
  OBVIOUS
<1>5. t = IF s.age < Timeout THEN ev_timer_start(s, Timeout - s.age)
          ELSE CB!CallTimeout(b)
  BY <1>1, <1>3, <1>4, SameStop, SameWatchers, ServerAssumption DEF CB!timeout_cb
<1>6. CASE s.age < Timeout
  <2>1. PICK n \in 0..Timeout : n = Timeout - s.age
    BY <1>2, <1>6
  <2>2. /\ Watched(t) /\ Sound(t, Alphabet, IoWatchers)
        /\ Only(s, t, {"timer", "left"})
    BY <1>1, <1>5, <1>6, <2>1, TimerKeeps
  <2>3. {"timer", "left"} \cap PhaseFields = {}
    BY DEF PhaseFields
  <2> QED
    BY <1>1, <2>2, <2>3, PhaseKept DEF Alive
<1>7. CASE ~(s.age < Timeout)
  <2>1. t = CB!CallTimeout(b)
    BY <1>5, <1>7
  <2>2. /\ Valid(a) /\ a.active = {} /\ Clean(a) /\ a.tls = "live"
        /\ (Serving(s) => Owned(a)) /\ (Opening(s) => Opening(a))
        /\ a.connection = s.connection /\ a.timeout_handler = s.timeout_handler
        /\ a.sent_close = s.sent_close /\ a.output = s.output
        /\ a.output_buffer = s.output_buffer
    BY <1>3, StopsAll
  <2>3. Timeout \in 0..Timeout
    BY <1>2
  <2>4. /\ Watched(b) /\ Sound(b, Alphabet, IoWatchers)
        /\ Only(a, b, {"timer", "left"})
    BY <1>4, <2>2, <2>3, TimerKeeps
  <2>5. {"timer", "left"} \cap PhaseFields = {}
    BY DEF PhaseFields
  <2>6. /\ Valid(b) /\ b.active = a.active
        /\ (Owned(a) => Owned(b)) /\ (Opening(a) => Opening(b))
    BY <2>2, <2>4, <2>5, PhaseKept
  <2>7. CASE Serving(s)
    <3>1. Owned(b) /\ "read" \notin b.active
      BY <2>2, <2>6, <2>7
    <3>2. b.timeout_handler = "handle_timeout"
      BY <3>1 DEF Owned, Held
    <3>3. t = bail(b)
      BY <2>1, <3>2 DEF CB!CallTimeout, Call, handle_timeout
    <3> QED
      BY <3>1, <3>3, Bails DEF Alive
  <2>8. CASE Opening(s) \/ Closing(s)
    <3>1. /\ b.tls = a.tls /\ b.process = a.process /\ b.faults = a.faults
          /\ b.connection = a.connection /\ b.timeout_handler = a.timeout_handler
          /\ b.sent_close = a.sent_close /\ b.output = a.output
          /\ b.output_buffer = a.output_buffer
      BY <2>2, <2>4 DEF Only, Valid, Watched, ServerFields, IsConn, TlsFields
    <3>2. s.timeout_handler = "default_timeout_handler"
      BY <2>8 DEF Opening, Closing
    <3>3. t = tls_free(b)
      BY <2>1, <2>2, <3>1, <3>2, SameFree DEF CB!CallTimeout
    <3>4. /\ s.connection \in {"none", "freed"}
          /\ s.sent_close = "yes" => Drained(s)
      BY <2>8 DEF Opening, Closing, Flushing
    <3>5. /\ Clean(b) /\ b.tls = "live" /\ b.connection \in {"none", "freed"}
          /\ b.sent_close = "yes" => Drained(b)
      BY <2>2, <3>1, <3>4 DEF Clean, Drained
    <3> QED
      BY <2>6, <3>3, <3>5, FreeEnds
  <2> QED
    BY <2>7, <2>8 DEF Alive
<1> QED
  BY <1>6, <1>7

-----------------------------------------------------------------------------
(* The beginning of a connection.                                          *)

\* handle_connect: server.c's handlers take over.
LEMMA Connects ==
  ASSUME NEW s, Opening(s), s.active = {}, NEW t, t = handle_connect(s)
  PROVE  Serving(t)
<1>1. Valid(s) /\ Watched(s) /\ Sound(s, Alphabet, IoWatchers) /\ IsConn(s)
  BY AliveValid DEF Alive
<1>2. PICK a : a = [s EXCEPT !.connection = "live"]
  OBVIOUS
<1>3. Only(s, a, {"connection"}) /\ a.connection = "live"
  BY <1>1, <1>2 DEF Only, Valid, ServerFields
<1>4. Sound(a, Alphabet, IoWatchers)
  BY <1>1, <1>3, SoundKept DEF SoundFields
<1>5. a.pending = s.pending /\ a.active = s.active /\ IsConn(a)
  BY <1>1, <1>3 DEF Only, IsConn, TlsFields
<1>6. Watched(a)
  BY <1>1, <1>5 DEF Watched
<1>7. PICK b : b = tls_on_timeout(a, "handle_timeout")
  OBVIOUS
<1>8. /\ Watched(b) /\ Sound(b, Alphabet, IoWatchers) /\ Only(a, b, TimeoutFields)
      /\ b.timeout_handler = "handle_timeout"
  BY <1>4, <1>6, <1>7, OnTimeoutOnly
<1>9. PICK c : c = [b EXCEPT !.error_handler = "handle_error",
                             !.line_too_long_handler = "handle_line_too_long"]
  OBVIOUS
<1>10. /\ Only(b, c, {"error_handler", "line_too_long_handler"})
       /\ c.error_handler = "handle_error"
       /\ c.line_too_long_handler = "handle_line_too_long"
  BY <1>8, <1>9 DEF Only, Watched, IsConn, TlsFields
<1>11. Sound(c, Alphabet, IoWatchers)
  BY <1>8, <1>10, SoundKept DEF SoundFields
<1>12. c.pending = b.pending /\ c.active = b.active /\ IsConn(c)
  BY <1>8, <1>10 DEF Only, Watched, IsConn, TlsFields
<1>13. Watched(c)
  BY <1>8, <1>12 DEF Watched
<1>14. Only(s, b, TimeoutFields \cup {"connection"})
  BY <1>3, <1>8, OnlyTrans
<1>15. Only(s, c, {"timer", "left", "age", "timeout_handler", "connection",
                   "error_handler", "line_too_long_handler"})
  BY <1>10, <1>14, OnlyTrans DEF TimeoutFields
<1>16. /\ c.tls = s.tls /\ c.process = s.process /\ c.faults = s.faults
       /\ c.drain_handler = s.drain_handler /\ c.read_handler = s.read_handler
       /\ c.sent_close = s.sent_close /\ c.active = s.active
       /\ c.output = s.output /\ c.output_buffer = s.output_buffer
       /\ c.input = s.input /\ ServerFields \subseteq DOMAIN c
  BY <1>1, <1>15 DEF Only, Valid, ServerFields, IsConn, TlsFields
<1>17. c.connection = "live" /\ c.timeout_handler = "handle_timeout"
  BY <1>3, <1>8, <1>10, <1>16 DEF Only, ServerFields, Watched, IsConn, TlsFields,
                                 TimeoutFields
<1>18. Valid(c)
  BY <1>1, <1>11, <1>13, <1>16 DEF Valid
<1>19. Held(c) /\ Flushing(c) /\ "read" \notin c.active /\ c.input = <<>>
  BY <1>10, <1>16, <1>17, <1>18 DEF Opening, Held, Clean, Flushing, Drained
<1>20. t = tls_read(c, "handle_handshake", 0)
  BY <1>2, <1>7, <1>9, Zenon DEF handle_connect, tls_read_line
<1>21. "handle_handshake" \in Handlers
  BY DEF Handlers
<1> QED
  BY <1>19, <1>20, <1>21, ReadsOn

\* accept_ssl_cb.
LEMMA AcceptSsl ==
  ASSUME NEW c, Opening(c), "init" \in c.active, NEW identified \in BOOLEAN,
         NEW t, t = accept_ssl_cb(c, identified)
  PROVE  Alive(t) \/ Freed(t)
<1>1. Valid(c) /\ Watched(c) /\ Sound(c, Alphabet, IoWatchers)
  BY AliveValid DEF Alive
<1>2. PICK s : s = Touch(c)
  OBVIOUS
<1>3. Watched(s) /\ Sound(s, Alphabet, IoWatchers) /\ Only(c, s, {"age"})
  BY <1>1, <1>2, TouchSound
<1>4. Opening(s) /\ s.active = c.active
  BY <1>1, <1>3, PhaseKept DEF PhaseFields
<1>5. PICK x : x = SSL_handshake(s)
  OBVIOUS
<1>6. Result(s, x, SslFields, Alphabet) /\ x.code # "zero_return"
  BY <1>3, <1>5, HandshakeResult DEF Sound
<1>7. PICK u : u = x.next
  OBVIOUS
<1>8. /\ Opening(u) /\ u.active = s.active
      /\ Watched(u) /\ Sound(u, Alphabet, IoWatchers)
  BY <1>4, <1>6, <1>7, CallKeeps DEF Alive
<1>9. t = IF x.code # "done" THEN CB!check_tls_error(u, "init", x.code)
          ELSE IF ~identified THEN tls_free(u)
          ELSE handle_connect(ev_io_stop(u, "init"))
  BY <1>2, <1>5, <1>7, Zenon DEF accept_ssl_cb
<1>10. CASE x.code # "done"
  <2>1. x.code \in Codes
    BY <1>6 DEF Result
  <2> QED
    BY <1>4, <1>6, <1>8, <1>9, <1>10, <2>1, CheckError DEF Alive
<1>11. CASE x.code = "done" /\ ~identified
  BY <1>8, <1>9, <1>11, ClosingFrees
<1>12. CASE x.code = "done" /\ identified
  <2>1. PICK v : v = ev_io_stop(u, "init")
    OBVIOUS
  <2>2. /\ Watched(v) /\ Only(u, v, {"active", "pending"})
        /\ v.active = u.active \ {"init"}
    BY <1>8, <2>1, IoStop
  <2>3. Sound(v, Alphabet, IoWatchers)
    BY <1>8, <2>2, SoundKept DEF SoundFields
  <2>4. v.active = {}
    BY <1>8, <2>2 DEF Opening
  <2>5. /\ v.tls = u.tls /\ v.process = u.process /\ v.faults = u.faults
        /\ v.connection = u.connection /\ v.error_handler = u.error_handler
        /\ v.timeout_handler = u.timeout_handler
        /\ v.drain_handler = u.drain_handler /\ v.read_handler = u.read_handler
        /\ v.sent_close = u.sent_close /\ v.input = u.input
        /\ v.output = u.output /\ v.output_buffer = u.output_buffer
        /\ ServerFields \subseteq DOMAIN v
    BY <1>8, <2>2 DEF Opening, Only, Valid, Watched, ServerFields, IsConn, TlsFields
  <2>6. Valid(v)
    BY <1>8, <2>2, <2>3, <2>4, <2>5 DEF Opening, Valid
  <2>7. Opening(v)
    BY <1>8, <2>4, <2>5, <2>6 DEF Opening, Clean, Drained
  <2> QED
    BY <1>9, <1>12, <2>1, <2>4, <2>7, Connects DEF Alive
<1> QED
  BY <1>10, <1>11, <1>12

\* tls_new: nothing of an earlier connection is left.
LEMMA Opens ==
  ASSUME NEW s, Fresh(s), NEW t, t = tls_new(s)
  PROVE  Opening(t) /\ t.active = {}
<1>1. Valid(s) /\ IsConn(s) /\ Streams(s, Alphabet) /\ Eventful(s, IoWatchers)
  BY DEF Fresh, Valid, Watched, Sound
<1>2. /\ Watched(t) /\ Sound(t, Alphabet, IoWatchers) /\ Only(s, t, NewFields)
      /\ t.tls = "live" /\ t.active = {} /\ t.error_handler = "NULL"
      /\ t.timeout_handler = "default_timeout_handler"
      /\ t.drain_handler = "NULL" /\ t.read_handler = "NULL"
      /\ t.output = <<>> /\ t.output_buffer = <<>> /\ t.input = <<>>
  BY <1>1, NewOnly
<1>3. /\ t.process = s.process /\ t.faults = s.faults
      /\ t.connection = s.connection /\ t.sent_close = s.sent_close
      /\ ServerFields \subseteq DOMAIN t
  BY <1>1, <1>2 DEF Only, Valid, ServerFields, IsConn, TlsFields, NewFields
<1>4. Valid(t)
  BY <1>2, <1>3 DEF Valid, Handlers
<1> QED
  BY <1>2, <1>3, <1>4 DEF Fresh, Opening, Clean, Drained

\* One turn of accept_tcp_cb's loop.
LEMMA AcceptTcp ==
  ASSUME NEW s, Fresh(s), NEW n, n = tls_new(s),
         NEW d, d = tls_on_timeout(n, "default_timeout_handler"),
         NEW t \in {tls_free(n), tls_free(d),
                    ev_feed_event(ev_io_start(d, "init", "r"), "init")}
  PROVE  Alive(t) \/ Freed(t)
<1>1. Opening(n) /\ n.active = {}
  BY Opens
<1>2. Valid(n) /\ Watched(n) /\ Sound(n, Alphabet, IoWatchers) /\ IsConn(n)
  BY <1>1, AliveValid DEF Alive
<1>3. /\ Watched(d) /\ Sound(d, Alphabet, IoWatchers) /\ Only(n, d, TimeoutFields)
      /\ d.timeout_handler = "default_timeout_handler"
  BY <1>2, OnTimeoutOnly
<1>4. Only(n, d, {"timer", "left", "age"})
  <2>1. n.timeout_handler = d.timeout_handler
    BY <1>1, <1>3 DEF Opening
  <2> QED BY <1>3, <2>1 DEF Only, TimeoutFields
<1>5. {"timer", "left", "age"} \cap PhaseFields = {}
  BY DEF PhaseFields
<1>6. Opening(d) /\ d.active = {}
  BY <1>1, <1>2, <1>3, <1>4, <1>5, PhaseKept
<1>7. CASE t = tls_free(n) \/ t = tls_free(d)
  BY <1>1, <1>6, <1>7, ClosingFrees
<1>8. CASE t = ev_feed_event(ev_io_start(d, "init", "r"), "init")
  <2>1. /\ Watched(t) /\ Sound(t, Alphabet, IoWatchers) /\ Only(d, t, WatchFields)
        /\ t.active = d.active \cup {"init"}
    BY <1>3, <1>8, StartFedSound
  <2>2. t.active = {"init"}
    BY <1>6, <2>1
  <2>3. /\ t.tls = d.tls /\ t.process = d.process /\ t.faults = d.faults
        /\ t.connection = d.connection /\ t.error_handler = d.error_handler
        /\ t.timeout_handler = d.timeout_handler
        /\ t.drain_handler = d.drain_handler /\ t.read_handler = d.read_handler
        /\ t.sent_close = d.sent_close /\ t.input = d.input
        /\ t.output = d.output /\ t.output_buffer = d.output_buffer
        /\ ServerFields \subseteq DOMAIN t
    BY <1>3, <1>6, <2>1 DEF Opening, Only, Valid, Watched, ServerFields, IsConn,
                            TlsFields, WatchFields
  <2>4. Valid(t)
    BY <1>6, <2>1, <2>2, <2>3 DEF Opening, Valid, IoWatchers
  <2>5. Opening(t)
    BY <1>6, <2>2, <2>3, <2>4 DEF Opening, Clean, Drained
  <2> QED
    BY <2>5 DEF Alive
<1> QED
  BY <1>7, <1>8

-----------------------------------------------------------------------------
(* The event loop.                                                         *)

\* A connection stays in its phase when no field of the phase changes: any
\* phase, and with the timer a connection that is not fresh.  An alert of the
\* client that comes next goes on to do so.
LEMMA StaysInPhase ==
  ASSUME NEW s, NEW t, NEW F, Only(s, t, F), F \cap PhaseFields = {},
         Watched(t), Sound(t, Alphabet, IoWatchers), PeerClosed(s) => PeerClosed(t)
  PROVE  /\ (Alive(s) => Alive(t)) /\ (Freed(s) => Freed(t))
         /\ (Fresh(s) /\ "timer" \notin F => Fresh(t))
<1>1. Alive(s) => Alive(t)
  BY AliveValid, PhaseKept DEF Alive
<1>2. ASSUME Valid(s)
      PROVE  /\ t.tls = s.tls /\ t.process = s.process /\ t.faults = s.faults
             /\ t.connection = s.connection /\ t.sent_close = s.sent_close
             /\ t.output = s.output /\ t.output_buffer = s.output_buffer
             /\ t.active = s.active /\ Valid(t)
             /\ t.drain_handler = s.drain_handler
             /\ ("timer" \notin F => t.timer = s.timer)
  <2>1. PhaseFields \subseteq DOMAIN s /\ "timer" \in DOMAIN s
    BY <1>2 DEF Valid, ServerFields, Watched, IsConn, TlsFields, PhaseFields
  <2>2. \A f \in PhaseFields : t[f] = s[f]
    BY <2>1, OnlyKeeps
  <2>3. "timer" \notin F => t.timer = s.timer
    BY <2>1, OnlyKeeps
  <2>4. Valid(t) /\ t.active = s.active
    BY <1>2, PhaseKept
  <2> QED
    BY <2>2, <2>3, <2>4 DEF PhaseFields
<1>3. Freed(s) => Freed(t)
  BY <1>2 DEF Freed, Drained, ClosedByClient
<1>4. Fresh(s) /\ "timer" \notin F => Fresh(t)
  BY <1>2 DEF Fresh, Drained, Clean
<1> QED
  BY <1>1, <1>3, <1>4

\* Nothing is pending before the connection is accepted and after it is freed.
LEMMA Quiet ==
  ASSUME NEW s, Fresh(s) \/ Freed(s)
  PROVE  s.pending = <<>>
<1>1. Listed(s.pending, {})
  BY DEF Fresh, Freed, Valid, Watched
<1> QED
  BY <1>1, ListedNone

\* The callback that libev invokes is that of an active watcher.
LEMMA Invoked ==
  ASSUME Phase(conn), InvokeIo
  PROVE  Phase(conn')
<1>1. Alive(conn) /\ conn.pending # <<>>
  BY Quiet DEF InvokeIo, Phase
<1>2. Valid(conn) /\ Watched(conn) /\ Sound(conn, Alphabet, IoWatchers)
  BY <1>1, AliveValid
<1>3. PICK s : s = PopPending(conn)
  OBVIOUS
<1>4. PICK w : w = Last(conn.pending)
  OBVIOUS
<1>5. Watched(s) /\ Only(conn, s, {"pending"}) /\ w \in conn.active
  BY <1>1, <1>2, <1>3, <1>4, PopPendingOnly
<1>6. Sound(s, Alphabet, IoWatchers)
  BY <1>2, <1>5, SoundKept DEF SoundFields
<1>7. {"pending"} \cap PhaseFields = {}
  BY DEF PhaseFields
<1>8. /\ s.active = conn.active /\ (Opening(conn) => Opening(s))
      /\ (Serving(conn) => Serving(s)) /\ (Closing(conn) => Closing(s))
  BY <1>2, <1>5, <1>6, <1>7, PhaseKept
<1>9. Alive(s) /\ w \in s.active /\ w \in IoWatchers
  BY <1>1, <1>2, <1>5, <1>8 DEF Alive, Valid
<1>10. CASE w = "init"
  <2>1. PICK identified \in BOOLEAN : conn' = accept_ssl_cb(s, identified)
    BY <1>3, <1>4, <1>10 DEF InvokeIo
  <2>2. Opening(s)
    BY <1>9, <1>10 DEF Alive, Serving, Owned, Held, Closing
  <2>3. Alive(conn') \/ Freed(conn')
    BY <1>9, <1>10, <2>1, <2>2, AcceptSsl
  <2> QED BY <2>3 DEF Phase
<1>11. CASE w = "read"
  <2>1. conn' = CB!read_cb(s)
    BY <1>3, <1>4, <1>11 DEF InvokeIo
  <2>2. Serving(s)
    BY <1>9, <1>11 DEF Alive, Opening, Closing
  <2>3. Serving(conn') \/ Closing(conn') \/ Freed(conn')
    BY <1>9, <1>11, <2>1, <2>2, ReadCallback
  <2> QED BY <2>3 DEF Phase, Alive
<1>12. CASE w = "write"
  <2>1. conn' = CB!write_cb(s)
    BY <1>3, <1>4, <1>12 DEF InvokeIo
  <2>2. Serving(s) \/ Closing(s)
    BY <1>9, <1>12 DEF Alive, Opening
  <2>3. Serving(conn') \/ Closing(conn') \/ Freed(conn')
    BY <1>9, <1>12, <2>1, <2>2, WriteCallback
  <2> QED BY <2>3 DEF Phase, Alive
<1>13. CASE w = "shutdown"
  <2>1. conn' = CB!shutdown_cb(s)
    BY <1>3, <1>4, <1>13 DEF InvokeIo
  <2>2. Closing(s)
    BY <1>9, <1>13 DEF Alive, Opening, Serving, Owned, Held
  <2>3. Closing(conn') \/ Freed(conn')
    BY <1>9, <1>13, <2>1, <2>2, ShutdownCallback
  <2> QED BY <2>3 DEF Phase, Alive
<1> QED
  BY <1>9, <1>10, <1>11, <1>12, <1>13 DEF IoWatchers

\* The timer: its callback may find that the connection is freed.
LEMMA TimedOut ==
  ASSUME Phase(conn), InvokeTimeout
  PROVE  Phase(conn')
<1>1. PICK s : s = [conn EXCEPT !.timer = @ \ {"due"}]
  OBVIOUS
<1>2. conn' = CB!timeout_cb(s)
  BY <1>1 DEF InvokeTimeout
<1>3. Alive(conn) \/ Freed(conn)
  BY DEF InvokeTimeout, Phase, Fresh
<1>4. Valid(conn) /\ Watched(conn) /\ Sound(conn, Alphabet, IoWatchers) /\ IsConn(conn)
  BY <1>3, AliveValid DEF Freed, Valid, Watched
<1>5. Only(conn, s, {"timer"}) /\ s.timer = conn.timer \ {"due"}
  BY <1>1, <1>4 DEF Only, IsConn, TlsFields
<1>6. s.pending = conn.pending /\ s.active = conn.active /\ IsConn(s)
      /\ s.left = conn.left /\ s.age = conn.age /\ s.in = conn.in
  BY <1>4, <1>5 DEF Only, IsConn, TlsFields
<1>7. Watched(s) /\ Timed(s)
  BY <1>4, <1>5, <1>6 DEF Watched, Sound, Timed
<1>8. Streams(s, Alphabet) /\ Buffered(s, Alphabet) /\ Eventful(s, IoWatchers)
  BY <1>4, <1>5, StreamsKept, BufferedKept, EventfulKept DEF Sound, BufferFields
<1>9. Sound(s, Alphabet, IoWatchers)
  BY <1>7, <1>8 DEF Sound
<1>10. {"timer"} \cap PhaseFields = {}
  BY DEF PhaseFields
<1>11. Alive(s) \/ Freed(s)
  BY <1>3, <1>5, <1>6, <1>7, <1>9, <1>10, StaysInPhase DEF PeerClosed
<1>12. CASE Alive(s)
  BY <1>2, <1>12, TimeoutCallback DEF Phase
<1>13. CASE Freed(s)
  <2>1. conn' = die(s, "stale timeout")
    BY <1>2, <1>13, SameFree DEF Freed, CB!timeout_cb
  <2>2. Only(s, conn', {"process", "faults"})
    BY <1>6, <2>1 DEF die, Fault, Only, IsConn, TlsFields
  <2>3. conn'.process = "died" /\ conn'.faults = s.faults \cup {"stale timeout"}
    BY <1>6, <2>1 DEF die, Fault, IsConn, TlsFields
  <2>4. /\ conn'.tls = s.tls /\ conn'.connection = s.connection
        /\ conn'.sent_close = s.sent_close /\ conn'.output = s.output
        /\ conn'.output_buffer = s.output_buffer /\ conn'.active = s.active
        /\ conn'.pending = s.pending /\ conn'.read_handler = s.read_handler
        /\ conn'.drain_handler = s.drain_handler /\ conn'.in = s.in
        /\ ServerFields \subseteq DOMAIN conn' /\ IsConn(conn')
    BY <1>6, <1>13, <2>2 DEF Freed, Valid, Only, IsConn, TlsFields, ServerFields
  <2>5. Sound(conn', Alphabet, IoWatchers)
    BY <1>9, <2>2, SoundKept DEF SoundFields
  <2>6. Valid(conn')
    BY <1>7, <1>13, <2>4, <2>5 DEF Freed, Valid, Watched
  <2>7. Freed(conn')
    BY <1>13, <2>3, <2>4, <2>6 DEF Freed, Drained, ClosedByClient, PeerClosed
  <2> QED BY <2>7 DEF Phase
<1> QED
  BY <1>11, <1>12, <1>13

\* The loop waits.
LEMMA Waits ==
  ASSUME Phase(conn), Poll
  PROVE  Phase(conn')
<1>1. PICK order \in SetToAllKPermutations(ReadySet), ticks \in 0..1 :
        conn' = Polled(conn, order, ticks)
  BY DEF Poll
<1>2. Alive(conn) /\ conn.pending = <<>>
  BY DEF Poll, LoopIdle, Phase, Fresh, Freed
<1>3. Valid(conn) /\ Watched(conn) /\ Sound(conn, Alphabet, IoWatchers)
  BY <1>2, AliveValid
<1>4. ReadySet \subseteq conn.active /\ conn.active \subseteq IoWatchers
  BY <1>3 DEF ReadySet, Valid
<1>5. ReadySet \subseteq IoWatchers \cup {"input"}
  BY <1>4
<1>6. Listed(order, ReadySet)
  BY <1>1, <1>5, OrderListed
<1>7. Listed(order, conn.active)
  BY <1>4, <1>6, ListedMore
<1>8. /\ Watched(conn') /\ Sound(conn', Alphabet, IoWatchers)
      /\ Only(conn, conn', {"pending", "age", "left", "timer"})
  BY <1>1, <1>2, <1>3, <1>7, PolledOnly
<1>9. {"pending", "age", "left", "timer"} \cap PhaseFields = {}
  BY DEF PhaseFields
<1>10. conn'.in = conn.in
  BY <1>3, <1>8 DEF Watched, Only, IsConn, TlsFields
<1> QED
  BY <1>2, <1>8, <1>9, <1>10, StaysInPhase DEF Phase, PeerClosed

\* A connection is accepted.
LEMMA Accepted ==
  ASSUME Phase(conn), accept_tcp_cb
  PROVE  Phase(conn')
<1>1. Fresh(conn)
  BY AliveValid DEF accept_tcp_cb, Phase, Freed
<1>2. PICK n : n = tls_new(conn)
  OBVIOUS
<1>3. PICK d : d = tls_on_timeout(n, "default_timeout_handler")
  OBVIOUS
<1>4. conn' \in {tls_free(n), tls_free(d),
                 ev_feed_event(ev_io_start(d, "init", "r"), "init")}
  BY <1>2, <1>3, Zenon DEF accept_tcp_cb
<1> QED
  BY <1>1, <1>2, <1>3, <1>4, AcceptTcp DEF Phase

-----------------------------------------------------------------------------
(* The client.                                                             *)

\* The client changes what is on its way, and nothing else.
LEMMA Exchanged ==
  ASSUME NEW s, Phase(s), NEW t, Only(s, t, {"in", "out", "link"}),
         t.in \in Seq(Seq(Alphabet)), t.out \in Seq(Alphabet),
         Len(t.out) <= OutCapacity, PeerClosed(s) => PeerClosed(t)
  PROVE  Phase(t)
<1>1. Valid(s) /\ Watched(s) /\ Sound(s, Alphabet, IoWatchers) /\ IsConn(s)
  BY AliveValid DEF Phase, Fresh, Freed, Valid, Watched
<1>2. /\ t.pending = s.pending /\ t.active = s.active /\ t.rbuf = s.rbuf
      /\ t.hs = s.hs /\ t.sent_close = s.sent_close /\ IsConn(t)
  BY <1>1 DEF Only, IsConn, TlsFields
<1>3. Timed(t) /\ Buffered(t, Alphabet) /\ Eventful(t, IoWatchers)
  BY <1>1, TimedKept, BufferedKept, EventfulKept DEF Sound, BufferFields
<1>4. Streams(t, Alphabet)
  BY <1>1, <1>2 DEF Sound, Streams
<1>5. Watched(t) /\ Sound(t, Alphabet, IoWatchers)
  BY <1>1, <1>2, <1>3, <1>4 DEF Watched, Sound
<1>6. {"in", "out", "link"} \cap PhaseFields = {}
  BY DEF PhaseFields
<1> QED
  BY <1>5, <1>6, StaysInPhase DEF Phase

\* What comes next is not changed by a record that follows it.
LEMMA ClosedAppend ==
  ASSUME NEW S, NEW q \in Seq(S), NEW e \in S, q # <<>>
  PROVE  Append(q, e) # <<>> /\ Head(Append(q, e)) = Head(q)
  OBVIOUS

\* A record that the client sends.
LEMMA Delivered ==
  ASSUME Phase(conn), NEW record \in Seq(Alphabet), Deliver(record)
  PROVE  Phase(conn')
<1>1. IsConn(conn) /\ Streams(conn, Alphabet)
  BY AliveValid DEF Phase, Fresh, Freed, Valid, Watched, Sound
<1>2. PICK q : q = Append(conn.in, record)
  OBVIOUS
<1>3. conn' = [conn EXCEPT !.in = q] /\ q \in Seq(Seq(Alphabet))
  BY <1>1, <1>2 DEF Deliver, Streams
<1>4. Only(conn, conn', {"in", "out", "link"}) /\ conn'.in = q /\ conn'.out = conn.out
  BY <1>1, <1>3 DEF Only, IsConn, TlsFields
<1>5. PeerClosed(conn) => PeerClosed(conn')
  <2>1. PICK S : S = Seq(Alphabet)
    OBVIOUS
  <2>2. conn.in \in Seq(S) /\ record \in S
    BY <1>1, <2>1 DEF Streams
  <2> QED
    BY <1>2, <1>4, <2>2, ClosedAppend DEF PeerClosed
<1> QED
  BY <1>1, <1>3, <1>4, <1>5, Exchanged DEF Streams

\* What the client keeps.
ClientTypes ==
  /\ sent \in Seq(Alphabet) /\ Len(sent) <= MaxSent
  /\ parts \in 0..MaxParts /\ hello \in {"idle", "waiting"}

\* The inductive invariant.
SessionInv == Phase(conn) /\ ClientTypes

\* The client's pieces are in the alphabet.
LEMMA Pieces ==
  /\ <<HS>> \in Seq(Alphabet) /\ <<CloseNotify>> \in Seq(Alphabet)
  /\ <<Part>> \in Seq(Alphabet)
  /\ Requests \subseteq Alphabet /\ Data \subseteq Alphabet
  BY DEF Alphabet

\* A request, or data, in a record of its own or at the end of the last one.
LEMMA Sends ==
  ASSUME SessionInv, ClientSend
  PROVE  SessionInv'
<1>1. PICK p \in Alphabet :
        /\ sent' = Append(sent, p)
        /\ \/ Deliver(<<p>>)
           \/ /\ conn.in # <<>> /\ Last(conn.in) # <<CloseNotify>>
              /\ conn' = [conn EXCEPT !.in[Len(conn.in)] = Append(@, p)]
  BY Pieces DEF ClientSend
<1>2. Phase(conn')
  <2>1. CASE Deliver(<<p>>)
    <3>1. <<p>> \in Seq(Alphabet)
      OBVIOUS
    <3> QED
      BY <2>1, <3>1, Delivered DEF SessionInv
  <2>2. CASE /\ conn.in # <<>> /\ Last(conn.in) # <<CloseNotify>>
             /\ conn' = [conn EXCEPT !.in[Len(conn.in)] = Append(@, p)]
    <3>1. IsConn(conn) /\ Streams(conn, Alphabet)
      BY AliveValid DEF SessionInv, Phase, Fresh, Freed, Valid, Watched, Sound
    <3>2. PICK q \in Seq(Seq(Alphabet)) : q = conn.in /\ q # <<>>
      BY <2>2, <3>1 DEF Streams
    <3>3. PICK n \in 1..Len(q) : n = Len(q)
      BY <3>2
    <3>4. PICK v : v = [q EXCEPT ![n] = Append(q[n], p)]
      OBVIOUS
    <3>5. v \in Seq(Seq(Alphabet))
      <4>1. Append(q[n], p) \in Seq(Alphabet)
        BY <3>2, <3>3
      <4> QED BY <3>2, <3>3, <3>4, <4>1
    <3>6. conn' = [conn EXCEPT !.in = v]
      BY <2>2, <3>2, <3>3, <3>4
    <3>7. /\ Only(conn, conn', {"in", "out", "link"})
          /\ conn'.in = v /\ conn'.out = conn.out
      BY <3>1, <3>6 DEF Only, IsConn, TlsFields
    <3>8. PeerClosed(conn) => PeerClosed(conn')
      <4> SUFFICES ASSUME PeerClosed(conn) PROVE PeerClosed(conn')
        OBVIOUS
      <4>1. q[1] = <<CloseNotify>> /\ q[n] # <<CloseNotify>>
        BY <2>2, <3>2, <3>3 DEF PeerClosed, Last
      <4>2. n # 1 /\ v[1] = q[1] /\ v # <<>>
        BY <3>2, <3>3, <3>4, <4>1
      <4> QED BY <3>7, <4>1, <4>2 DEF PeerClosed
    <3> QED
      BY <3>1, <3>5, <3>7, <3>8, Exchanged DEF Streams, SessionInv
  <2> QED BY <1>1, <2>1, <2>2
<1>3. sent' \in Seq(Alphabet) /\ Len(sent') <= MaxSent
  <2>1. Len(sent) < MaxSent /\ sent \in Seq(Alphabet)
    BY DEF ClientSend, MaySend, SessionInv, ClientTypes
  <2> QED BY <1>1, <2>1, ServerAssumption
<1> QED
  BY <1>2, <1>3 DEF SessionInv, ClientTypes, ClientSend

\* The client reads.
LEMMA Reads ==
  ASSUME SessionInv, ClientRead
  PROVE  SessionInv'
<1>1. IsConn(conn) /\ Streams(conn, Alphabet) /\ conn.out # <<>>
  BY AliveValid
  DEF ClientRead, SessionInv, Phase, Fresh, Freed, Valid, Watched, Sound
<1>2. PICK q : q = IF Head(conn.out) = HS /\ ~Closed THEN Append(conn.in, <<HS>>)
                   ELSE conn.in
  OBVIOUS
<1>3. PICK v : v = Tail(conn.out)
  OBVIOUS
<1>4. /\ conn' = [conn EXCEPT !.out = v, !.in = q]
      /\ hello' = IF Head(conn.out) = HS THEN "idle" ELSE hello
  BY <1>2, <1>3, Zenon DEF ClientRead
<1>5. q \in Seq(Seq(Alphabet))
  <2>1. PICK e : e = <<HS>>
    OBVIOUS
  <2>2. e \in Seq(Alphabet) /\ conn.in \in Seq(Seq(Alphabet))
    BY <1>1, <2>1, Pieces DEF Streams
  <2>3. Append(conn.in, e) \in Seq(Seq(Alphabet))
    BY <2>2
  <2> QED BY <1>2, <2>1, <2>2, <2>3
<1>6. v \in Seq(Alphabet) /\ Len(v) <= OutCapacity
  <2>1. v \in Seq(Alphabet) /\ Len(v) = Len(conn.out) - 1
    BY <1>1, <1>3, HeadTail DEF Streams
  <2>2. conn.out \in Seq(Alphabet) /\ Len(conn.out) <= OutCapacity
    BY <1>1, Zenon DEF Streams
  <2>3. Len(conn.out) \in Nat
    BY <2>2, LenProperties
  <2>4. PICK n \in Nat : n = Len(conn.out) /\ n <= OutCapacity
    BY <2>2, <2>3
  <2> QED BY <2>1, <2>4, TlsAssumption
<1>7. Only(conn, conn', {"in", "out", "link"}) /\ conn'.in = q /\ conn'.out = v
  BY <1>1, <1>4 DEF Only, IsConn, TlsFields
<1>8. PeerClosed(conn) => PeerClosed(conn')
  <2>1. PICK S, e : S = Seq(Alphabet) /\ e = <<HS>>
    OBVIOUS
  <2>2. conn.in \in Seq(S) /\ e \in S
    BY <1>1, <2>1, Pieces DEF Streams
  <2>3. q = conn.in \/ q = Append(conn.in, e)
    BY <1>2, <2>1, Zenon
  <2>4. conn.in # <<>> => q # <<>> /\ Head(q) = Head(conn.in)
    BY <2>2, <2>3, ClosedAppend
  <2> QED
    BY <1>7, <2>4 DEF PeerClosed
<1>9. Phase(conn')
  BY <1>5, <1>6, <1>7, <1>8, Exchanged DEF SessionInv
<1> QED
  BY <1>4, <1>9 DEF SessionInv, ClientTypes, ClientRead

\* The client vanishes.
LEMMA Resets ==
  ASSUME Phase(conn), ClientReset
  PROVE  Phase(conn')
<1>1. IsConn(conn) /\ Streams(conn, Alphabet)
  BY AliveValid DEF Phase, Fresh, Freed, Valid, Watched, Sound
<1>2. /\ Only(conn, conn', {"in", "out", "link"})
      /\ conn'.in = conn.in /\ conn'.out = conn.out
  BY <1>1 DEF ClientReset, Only, IsConn, TlsFields
<1> QED
  BY <1>1, <1>2, Exchanged DEF Streams, PeerClosed

\* Each step keeps the inductive invariant.
LEMMA SessionStep ==
  ASSUME SessionInv, [Next]_vars
  PROVE  SessionInv'
<1>0. Phase(conn) /\ ClientTypes
  BY DEF SessionInv
<1>1. CASE accept_tcp_cb
  BY <1>0, <1>1, Accepted DEF accept_tcp_cb, clientVars, SessionInv, ClientTypes
<1>2. CASE InvokeIo
  BY <1>0, <1>2, Invoked DEF InvokeIo, clientVars, SessionInv, ClientTypes
<1>3. CASE InvokeTimeout
  BY <1>0, <1>3, TimedOut DEF InvokeTimeout, clientVars, SessionInv, ClientTypes
<1>4. CASE Poll
  BY <1>0, <1>4, Waits DEF Poll, clientVars, SessionInv, ClientTypes
<1>5. CASE ClientHello
  BY <1>0, <1>5, Pieces, Delivered DEF ClientHello, SessionInv, ClientTypes
<1>6. CASE ClientSend
  BY <1>6, Sends
<1>7. CASE ClientSendPart
  <2>1. Phase(conn')
    BY <1>0, <1>7, Pieces, Delivered DEF ClientSendPart
  <2>2. parts' \in 0..MaxParts
    BY <1>0, <1>7, ServerAssumption DEF ClientSendPart, ClientTypes
  <2> QED
    BY <1>0, <1>7, <2>1, <2>2 DEF ClientSendPart, SessionInv, ClientTypes
<1>8. CASE ClientRead
  BY <1>8, Reads
<1>9. CASE ClientClose
  BY <1>0, <1>9, Pieces, Delivered DEF ClientClose, clientVars, SessionInv, ClientTypes
<1>10. CASE ClientReset
  BY <1>0, <1>10, Resets DEF ClientReset, clientVars, SessionInv, ClientTypes
<1>11. CASE UNCHANGED vars
  BY <1>0, <1>11 DEF vars, SessionInv, ClientTypes
<1> QED
  BY <1>1, <1>2, <1>3, <1>4, <1>5, <1>6, <1>7, <1>8, <1>9, <1>10, <1>11
  DEF Next, ServerNext, ClientNext

\* The program starts with a listening socket and no connection.
LEMMA SessionInit ==
  ASSUME Init
  PROVE  SessionInv
<1>1. PICK s : s = conn
  OBVIOUS
<1>2. /\ IsConn(s) /\ ServerFields \subseteq DOMAIN s
      /\ s.pending = <<>> /\ s.active = {} /\ s.timer = {} /\ s.left = 0
      /\ s.age = 0 /\ s.events = [w \in IoWatchers |-> "r"]
      /\ s.input_size = 0 /\ s.input = <<>> /\ s.input_buffer = <<>>
      /\ s.output = <<>> /\ s.output_buffer = <<>> /\ s.in = <<>>
      /\ s.rbuf = <<>> /\ s.out = <<>> /\ s.hs = <<>> /\ s.sent_close = "no"
      /\ s.tls = "none" /\ s.connection = "none" /\ s.faults = {}
      /\ s.process = "running" /\ s.read_handler = "NULL"
      /\ s.drain_handler = "NULL"
  BY <1>1 DEF Init, IsConn, TlsFields, ServerFields
<1>3. Watched(s)
  BY <1>2, ListedEmpty DEF Watched
<1>4. Streams(s, Alphabet)
  BY <1>2, TlsAssumption DEF Streams, Alphabet
<1>5. Timed(s) /\ Buffered(s, Alphabet) /\ Eventful(s, IoWatchers)
  BY <1>2, TlsAssumption DEF Timed, Buffered, Eventful
<1>6. Valid(s)
  BY <1>2, <1>3, <1>4, <1>5 DEF Valid, Sound, Handlers
<1>7. Fresh(s)
  BY <1>2, <1>6 DEF Fresh, Clean, Drained
<1>8. ClientTypes
  BY ServerAssumption DEF Init, ClientTypes
<1> QED
  BY <1>1, <1>7, <1>8 DEF SessionInv, Phase

\* A connection is in one of its phases at any time, whatever the client does
\* and in whatever order libev invokes the callbacks.
THEOREM ServerPhases == Spec => []SessionInv
<1>1. Init => SessionInv
  BY SessionInit
<1>2. SessionInv /\ [Next]_vars => SessionInv'
  BY SessionStep
<1> QED
  BY <1>1, <1>2, PTL DEF Spec

\* Type correctness of the server's connection: the fields of tls.c's and
\* server.c's structures, the watchers on libev's lists, the limits of the
\* buffers.
THEOREM ServerTypes == Spec => []TypeOK
<1>1. SessionInv => TypeOK
  <2> SUFFICES ASSUME SessionInv PROVE TypeOK
    OBVIOUS
  <2>1. Phase(conn) /\ ClientTypes
    BY DEF SessionInv
  <2>2. Valid(conn)
    BY <2>1, AliveValid DEF Phase, Fresh, Freed
  <2>3. /\ conn.tls \in {"none", "live", "freed"}
        /\ conn.process \in {"running", "died"}
        /\ conn.connection \in {"none", "live", "freed"}
    BY <2>1 DEF Phase, Alive, Fresh, Opening, Serving, Owned, Held, Closing, Freed, Clean
  <2>4. Listed(conn.pending, conn.active) /\ conn.active \subseteq IoWatchers
    BY <2>2 DEF Valid, Watched
  <2>5. Len(conn.pending) <= 4
    BY <2>4, ListedLen
  <2>6. Range(conn.pending) \subseteq IoWatchers
    <3>1. conn.pending \in Seq(IoWatchers)
      BY <2>4, ListedMore DEF Listed
    <3> QED BY <3>1 DEF Range
  <2>7. /\ conn.events \in [IoWatchers -> {"r", "w"}]
        /\ conn.timer \subseteq {"armed", "due"}
        /\ conn.left \in 0..Timeout /\ conn.age \in 0..Timeout
    BY <2>2 DEF Valid, Sound, Eventful, Timed
  <2>8. /\ Len(conn.input_buffer) <= LINE_MAX_SIZE
        /\ conn.input_size = 0 \/ Len(conn.input) < conn.input_size
        /\ Len(conn.out) <= OutCapacity
    BY <2>2 DEF Valid, Sound, Buffered, Streams
  <2>9. /\ conn.read_handler \in Handlers
        /\ conn.drain_handler \in {"NULL", "start_shutdown"}
    BY <2>2 DEF Valid
  <2>10. Len(sent) <= MaxSent /\ parts <= MaxParts /\ hello \in {"idle", "waiting"}
    BY <2>1, ServerAssumption DEF ClientTypes
  <2> QED
    BY <2>3, <2>4, <2>5, <2>6, <2>7, <2>8, <2>9, <2>10 DEF TypeOK
<1> QED
  BY <1>1, ServerPhases, PTL

\* However the connection ends, no freed memory of server.c or tls.c is used
\* or freed again, except by the timer that tls_free leaves pending.
THEOREM ServerMemory == Spec => []MemorySafe
<1>1. SessionInv => MemorySafe
  <2> SUFFICES ASSUME SessionInv PROVE MemorySafe
    OBVIOUS
  <2>1. Phase(conn)
    BY DEF SessionInv
  <2>2. conn.faults \subseteq {"stale timeout"}
    BY <2>1 DEF Phase, Alive, Fresh, Opening, Serving, Owned, Held, Closing, Freed, Clean
  <2>3. conn.tls = "freed" => Freed(conn)
    BY <2>1 DEF Phase, Alive, Fresh, Opening, Serving, Owned, Held, Closing
  <2>4. Freed(conn) => conn.connection # "live" /\ conn.active = {} /\ conn.pending = <<>>
    BY Quiet DEF Freed
  <2> QED
    BY <2>2, <2>3, <2>4 DEF MemorySafe
<1> QED
  BY <1>1, ServerPhases, PTL

\* The close notify alert is sent after the last answer, unless it answers the
\* client's: then the connection and what was queued for the client are freed.
THEOREM ServerDrains == Spec => []DrainedBeforeClose
<1>1. SessionInv => DrainedBeforeClose
  <2> SUFFICES ASSUME SessionInv, conn.sent_close = "yes"
               PROVE  Drained(conn) \/ (conn.tls = "freed" /\ ClosedByClient(conn))
    BY DEF DrainedBeforeClose
  <2>1. Phase(conn)
    BY DEF SessionInv
  <2> QED
    BY <2>1 DEF Phase, Alive, Fresh, Opening, Serving, Owned, Held, Closing,
                Flushing, Freed
<1> QED
  BY <1>1, ServerPhases, PTL

=============================================================================
