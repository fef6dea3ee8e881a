-------------------------------- MODULE Tls ---------------------------------
(***************************************************************************)
(* One TLS connection on top of libev, src/common/tls.c.                   *)
(*                                                                         *)
(* A connection is a record that has the fields of struct tls_state_s, the *)
(* state libev keeps for its watchers, the state of the OpenSSL object and *)
(* of the socket, and the state of the application that owns it.  A C      *)
(* function is an operator from connection to connection.                  *)
(*                                                                         *)
(* The application's handlers are function pointers in the code.  Here a   *)
(* pointer is the handler's name.  The callbacks, which call the handlers, *)
(* are in module TlsCallbacks.                                             *)
(*                                                                         *)
(* Bytes are "pieces" [kw, arg]: a terminated line (its keyword and        *)
(* numeric argument), the unterminated beginning of a line, a byte of      *)
(* data, a handshake message or a close notify alert.                      *)
(***************************************************************************)
EXTENDS Integers, Sequences, FiniteSets, SequencesExt

CONSTANTS
  Timeout,            \* tls->timeout in ticks of the clock, 0 for none
  OutCapacity,        \* how much the socket's send buffer holds
  LINE_MAX_SIZE,      \* the length from which a line is too long
  LINE_BUFFER_SIZE,   \* how much read_line asks SSL_read for
  AutoDie,            \* TLS_AUTO_DIE: a warning or an error ends the process
  InitialHandshake    \* the messages of this side's handshake, in order

ASSUME TlsAssumption ==
  /\ Timeout \in Nat /\ OutCapacity \in Nat \ {0}
  /\ LINE_BUFFER_SIZE \in Nat \ {0} /\ LINE_MAX_SIZE \in Nat
  /\ LINE_BUFFER_SIZE <= LINE_MAX_SIZE
  /\ AutoDie \in BOOLEAN
  /\ InitialHandshake \in Seq({"recv", "send"}) /\ Len(InitialHandshake) <= 3

IoWatchers == {"init", "read", "write", "shutdown"}

Piece(kw, arg) == [kw |-> kw, arg |-> arg]
HS == Piece("HS", 0)            \* a message of the TLS handshake
CloseNotify == Piece("CLOSE", 0)
Part == Piece("-", 0)           \* the beginning of a line

IsLine(piece) == piece.kw \notin {"HS", "CLOSE", "-", "data"}

-----------------------------------------------------------------------------
(* libev.  Pending watchers of the default priority are invoked last in,   *)
(* first out; the timer has a lower priority, and since it is a one-shot   *)
(* timer it no longer is active ("armed") when it is pending ("due").      *)

\* A watcher is pending at most once.
ClearPending(s, w) == [s EXCEPT !.pending = RemoveFirst(@, w)]

ev_feed_event(s, w) ==
  IF w \in Range(s.pending) THEN s ELSE [s EXCEPT !.pending = Append(@, w)]

ev_io_start(s, w, event) ==
  [s EXCEPT !.active = @ \cup {w}, !.events[w] = event]

ev_io_stop(s, w) == [ClearPending(s, w) EXCEPT !.active = @ \ {w}]

\* Starting a timer that is active has no effect.
ev_timer_start(s, ticks) ==
  IF "armed" \in s.timer THEN s
  ELSE [s EXCEPT !.timer = @ \cup {"armed"}, !.left = ticks]

ev_timer_stop(s) == [s EXCEPT !.timer = {}]

StopIfActive(s, w) == IF w \in s.active THEN ev_io_stop(s, w) ELSE s

\* The four watchers, in the order of tls_free and of timeout_cb.
StopActive(s) ==
  StopIfActive(StopIfActive(StopIfActive(StopIfActive(
    s, "init"), "read"), "write"), "shutdown")

-----------------------------------------------------------------------------
(* OpenSSL and the socket.  `hs' holds the handshake messages that are yet *)
(* to be exchanged, `in' the records in the socket's receive buffer,       *)
(* `rbuf' what is left of the record OpenSSL has decrypted, and `out' what *)
(* was sent and is not yet read by the peer.  A handshake started by the   *)
(* peer on an established connection makes each call, in either direction, *)
(* wait for what the handshake needs.                                      *)

Room(s) == OutCapacity - Len(s.out)

HandshakeStep(s) ==
  IF s.hs = <<>> THEN s
  ELSE IF Head(s.hs) = "recv"
       THEN IF s.in # <<>> /\ Head(s.in) = <<HS>>
            THEN [s EXCEPT !.in = Tail(@), !.hs = Tail(@)] ELSE s
       ELSE IF Room(s) > 0
            THEN [s EXCEPT !.out = Append(@, HS), !.hs = Tail(@)] ELSE s

Handshake(s) == HandshakeStep(HandshakeStep(HandshakeStep(s)))

Outcome(code, got, next) == [code |-> code, got |-> got, next |-> next]

\* The peer's close notify is what comes next.
PeerClosed(s) == s.in # <<>> /\ Head(s.in) = <<CloseNotify>>

\* A handshake waits, or it fails on a record that is none of its messages.
Want(s) ==
  Outcome(CASE Head(s.hs) = "send"                -> "want_write"
            [] Head(s.hs) = "recv" /\ s.in = <<>> -> "want_read"
            [] Head(s.hs) = "recv" /\ s.in # <<>> -> "error", <<>>, s)

\* SSL_accept and SSL_connect.
SSL_handshake(s) ==
  LET h == Handshake(s)
  IN IF s.link = "reset" THEN Outcome("error", <<>>, s)
     ELSE IF s.link = "connecting" THEN Outcome("want_write", <<>>, s)
     ELSE IF h.hs # <<>> THEN Want(h) ELSE Outcome("done", <<>>, h)

TakeRead(s, size) ==
  LET n == IF size < Len(s.rbuf) THEN size ELSE Len(s.rbuf)
  IN Outcome("done", SubSeq(s.rbuf, 1, n),
             [s EXCEPT !.rbuf = SubSeq(@, n + 1, Len(@))])

\* A renegotiation that the call completes is followed by WANT_READ.
SSL_read(s, size) ==
  LET h == Handshake(s)
      k == Handshake([h EXCEPT !.hs = <<"recv", "send", "recv">>])
  IN IF s.link = "reset" THEN Outcome("error", <<>>, s)
     ELSE IF h.hs # <<>> THEN Want(h)
     ELSE IF h.rbuf # <<>> THEN TakeRead(h, size)
     ELSE IF h.in = <<>> THEN Outcome("want_read", <<>>, h)
     ELSE IF PeerClosed(h) THEN Outcome("zero_return", <<>>, h)
     ELSE IF Head(h.in) # <<HS>>
          THEN TakeRead([h EXCEPT !.rbuf = Head(h.in), !.in = Tail(@)], size)
     ELSE IF k.hs # <<>> THEN Want(k) ELSE Outcome("want_read", <<>>, k)

\* SSL_MODE_ENABLE_PARTIAL_WRITE: as much as there is room for.
SSL_write(s, data) ==
  LET h == Handshake(s)
      n == IF Room(h) < Len(data) THEN Room(h) ELSE Len(data)
      sent == SubSeq(data, 1, n)
  IN IF s.link = "reset" THEN Outcome("error", <<>>, s)
     ELSE IF h.hs # <<>> THEN Want(h)
     ELSE IF n = 0 THEN Outcome("want_write", <<>>, h)
     ELSE Outcome("done", sent, [h EXCEPT !.out = @ \o sent])

\* The calls that shutdown_cb makes until the result is not 0: the alert is
\* sent, then the peer's is waited for; any other record is an error, and so
\* is a handshake that has not been completed.
SSL_shutdown(s) ==
  LET t == [s EXCEPT !.out = Append(@, CloseNotify), !.sent_close = "yes"]
      c == IF s.sent_close = "yes" THEN s ELSE t
  IN IF s.link = "reset" \/ s.hs # <<>> THEN Outcome("error", <<>>, s)
     ELSE IF s.sent_close = "no" /\ Room(s) = 0
          THEN Outcome("want_write", <<>>, s)
     ELSE IF c.rbuf # <<>> THEN Outcome("error", <<>>, c)
     ELSE IF c.in = <<>> THEN Outcome("want_read", <<>>, c)
     ELSE Outcome(IF Head(c.in) = <<CloseNotify>> THEN "done" ELSE "error",
                  <<>>, c)

Readable(s) == s.in # <<>> \/ s.link = "reset"
Writable(s) == (Room(s) > 0 /\ s.link = "up") \/ s.link = "reset"

Ready(s, w) == IF s.events[w] = "r" THEN Readable(s) ELSE Writable(s)

-----------------------------------------------------------------------------
(* The exported functions.                                                 *)

\* What goes wrong is recorded, and the process does not go on.
Fault(s, what) == [s EXCEPT !.faults = @ \cup {what}]
die(s, what) == Fault([s EXCEPT !.process = "died"], what)

\* last_activity = ev_now().
Touch(s) == [s EXCEPT !.age = 0]

\* A timer that has expired is pending and no longer active: it is not
\* stopped, and its callback stays on the list of the pending ones.
tls_free(s) ==
  IF s.tls = "freed" THEN Fault(s, "double free of tls_state")
  ELSE [(IF "armed" \in s.timer
         THEN ev_timer_stop(StopActive(s))
         ELSE StopActive(s)) EXCEPT !.tls = "freed"]

start_shutdown(s) ==
  ev_feed_event(ev_io_start(s, "shutdown", "w"), "shutdown")

\* A size of 0 is READ_LINE.
tls_read(s, handler, size) ==
  IF "read" \in s.active THEN die(s, "concurrent read requests")
  ELSE ev_feed_event(
         ev_io_start([s EXCEPT !.read_handler = handler, !.input_size = size],
                     "read", "r"), "read")

tls_read_line(s, handler) == tls_read(s, handler, 0)

StartWriting(s) ==
  IF "write" \in s.active THEN s
  ELSE ev_feed_event(ev_io_start(s, "write", "w"), "write")

write_buffered(s, data) ==
  StartWriting([s EXCEPT !.output_buffer = @ \o data])

tls_write_line(s, line) == write_buffered(s, <<line>>)

\* With a free_data function and nothing queued, the data is not copied.
tls_write(s, data) ==
  IF s.output = <<>> /\ s.output_buffer = <<>>
  THEN StartWriting([s EXCEPT !.output = data])
  ELSE write_buffered(s, data)

\* Mutant: the handler is called without a look at the write watcher.
tls_on_drain_AtOnce(s) ==
  start_shutdown([s EXCEPT !.drain_handler = "start_shutdown"])

\* The only drain handler is start_shutdown.
tls_on_drain(s) ==
  LET t == [s EXCEPT !.drain_handler = "start_shutdown"]
  IN IF "write" \in s.active THEN t ELSE start_shutdown(t)

\* Mutant: the application's handlers stay in place.
tls_shutdown_KeepsHandlers(s) == tls_on_drain(s)

tls_shutdown(s) ==
  tls_on_drain([s EXCEPT !.error_handler = "NULL",
                         !.timeout_handler = "default_timeout_handler"])

tls_on_timeout(s, handler) ==
  LET t == [(IF "armed" \in s.timer THEN ev_timer_stop(s) ELSE s)
            EXCEPT !.timeout_handler = handler]
  IN IF Timeout > 0 THEN Touch(ev_timer_start(t, Timeout)) ELSE t

\* The fields that are the application's are left alone.
tls_new(s) ==
  [s EXCEPT !.tls = "live", !.active = {}, !.pending = <<>>, !.timer = {},
            !.left = 0, !.age = 0, !.input_size = 0,
            !.input = <<>>, !.input_buffer = <<>>,
            !.output = <<>>, !.output_buffer = <<>>,
            !.read_handler = "NULL", !.drain_handler = "NULL",
            !.error_handler = "NULL",
            !.timeout_handler = "default_timeout_handler",
            !.line_too_long_handler = "default_line_too_long_handler",
            !.hs = InitialHandshake]

-----------------------------------------------------------------------------
(* The event loop.                                                         *)

\* ev_invoke_pending: take the last pending watcher off the list.
PopPending(s) == [s EXCEPT !.pending = Front(@)]

\* Waiting for events: the clock advances by `ticks', the watchers in `order'
\* are fed, and a timer that has run out is stopped and becomes due.
Polled(s, order, ticks) ==
  LET min(a, b) == IF a < b THEN a ELSE b
      t == [s EXCEPT !.pending = @ \o order, !.age = min(@ + ticks, Timeout),
                     !.left = @ - min(ticks, @)]
  IN IF "armed" \in t.timer /\ t.left = 0
     THEN [t EXCEPT !.timer = {"due"}] ELSE t

=============================================================================
