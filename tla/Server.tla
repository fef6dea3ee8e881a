------------------------------- MODULE Server -------------------------------
(***************************************************************************)
(* A connection as the server sees it: src/server/server.c on top of       *)
(* src/common/tls.c, and the client at the other end.                      *)
(*                                                                         *)
(* Connections share the event loop and the command file writer and        *)
(* nothing else, so one connection is modelled; what it hands to           *)
(* fifo_write is recorded in `queued'.                                     *)
(***************************************************************************)
EXTENDS Tls

CONSTANTS
  MaxCommandSize,   \* ctx->max_command_size, 0 for "unlimited"
  Requests,         \* the request lines clients send
  Data,             \* the bytes of commands clients send
  Pipelining,       \* clients do not wait for the answer to a request
  Unreliable,       \* clients may disconnect or vanish at any time
  MaxSent,          \* bound: how many lines and bytes of data a client sends
  MaxParts,         \* bound: how many parts of unfinished lines it sends
  MaxHandshakes     \* bound: the number of TLS handshakes

ASSUME ServerAssumption ==
  /\ MaxCommandSize \in Nat /\ MaxSent \in Nat
  /\ MaxParts \in Nat /\ MaxHandshakes \in Nat \ {0}
  /\ Pipelining \in BOOLEAN /\ Unreliable \in BOOLEAN
  /\ ~AutoDie /\ InitialHandshake = <<"recv", "send", "recv">>
  /\ \A p \in Requests : p.arg \in Nat /\ IsLine(p)
  /\ Data \subseteq {Piece("data", 0), Piece("data", 1)}

VARIABLES
  conn,         \* the connection, see module Tls; the server's own part is
                \*   connection: "none", "live" or "freed", the connection_state
                \*   input_length: the size of the data that is awaited
                \*   queued: the data given to fifo_write
  sent,         \* the lines and the data the client has sent
  heard,        \* the answers the client has read
  parts,        \* how many parts of lines the client has sent
  greetings,    \* how many handshakes the client has started
  hello         \* the client's part of the handshake: "idle", "waiting"

vars == <<conn, sent, heard, parts, greetings, hello>>

-----------------------------------------------------------------------------
(* server.c: the handlers.                                                 *)

\* "MOIN 1" and "PONG 1" name the version of the protocol.
send_response(s, kw) ==
  tls_write_line(s, Piece(kw, IF kw \in {"MOIN", "PONG"} THEN 1 ELSE 0))

connection_stop(s) ==
  IF s.connection = "freed" THEN Fault(s, "double free of connection_state")
  ELSE [s EXCEPT !.connection = "freed"]

\* Reading a field of the connection_state.
Dereference(s) ==
  IF s.connection = "live" THEN s
  ELSE Fault(s, "use of freed connection_state")

handle_error(s) == connection_stop(s)

\* Mutant: the connection_state is not freed.
bail_Leaks(s) == tls_shutdown(send_response(s, "BAIL"))

bail(s) == connection_stop(tls_shutdown(send_response(s, "BAIL")))

handle_timeout(s) == bail(s)

handle_line_too_long(s) == bail(s)

Exits == {"QUIT", "BAIL"}

\* Mutant: the connection is left to the client to close.
client_exited_NoShutdown(s, kw) ==
  connection_stop(IF kw = "QUIT" THEN send_response(s, "OKAY") ELSE s)

client_exited(s, kw) ==
  connection_stop(tls_shutdown(
    IF kw = "QUIT" THEN send_response(s, "OKAY") ELSE s))

\* Mutant: after a FAIL response the server does not read on.
Refuse_Stops(s, handler) == send_response(s, "FAIL")

\* A request is refused, and the next one is waited for.
Refuse(s, handler) == tls_read_line(send_response(s, "FAIL"), handler)

handle_handshake(s, line) ==
  CASE line.kw = "MOIN" /\ line.arg <= 0 -> Refuse(s, "handle_handshake")
    [] line.kw = "MOIN" /\ line.arg > 0 ->
         tls_read_line(send_response(s, "MOIN"), "handle_connection")
    [] line.kw = "PING" ->
         connection_stop(tls_shutdown(send_response(s, "PONG")))
    [] line.kw \in Exits -> client_exited(s, line.kw)
    [] OTHER -> Refuse(s, "handle_handshake")

\* Mutant: the largest size that is allowed is refused.
TooLarge_OffByOne(size) == MaxCommandSize > 0 /\ size >= MaxCommandSize

TooLarge(size) == MaxCommandSize > 0 /\ size > MaxCommandSize

AcceptPush(s, size) ==
  tls_read([send_response(s, "OKAY") EXCEPT !.input_length = size],
           "handle_push", size)

handle_connection(s, line) ==
  CASE line.kw = "NOOP" -> send_response(s, "OKAY")
    [] line.kw = "PUSH" ->
         LET t == Dereference(s)
         IN IF line.arg <= 0 \/ TooLarge(line.arg)
            THEN Refuse(t, "handle_connection")
            ELSE AcceptPush(t, line.arg)
    [] line.kw \in Exits -> client_exited(s, line.kw)
    [] OTHER -> Refuse(s, "handle_connection")

\* auth.c decides by the contents of the data.
is_authorized(data) == \A i \in 1..Len(data) : data[i].arg = 1

handle_push(s, data) ==
  LET t == Dereference(s)
  IN tls_read_line(
       IF is_authorized(data)
       THEN send_response([t EXCEPT !.queued = Append(@, data)], "OKAY")
       ELSE send_response(t, "FAIL"),
       "handle_connection")

handle_connect(s) ==
  LET t == tls_on_timeout([s EXCEPT !.connection = "live"], "handle_timeout")
  IN tls_read_line(
       [t EXCEPT !.error_handler = "handle_error",
                 !.line_too_long_handler = "handle_line_too_long"],
       "handle_handshake")

Call(handler, s, arg) ==
  CASE handler = "handle_handshake"     -> handle_handshake(s, arg[1])
    [] handler = "handle_connection"    -> handle_connection(s, arg[1])
    [] handler = "handle_push"          -> handle_push(s, arg)
    [] handler = "handle_error"         -> handle_error(s)
    [] handler = "handle_timeout"       -> handle_timeout(s)
    [] handler = "handle_line_too_long" -> handle_line_too_long(s)

\* The callbacks of tls.c, for the server's handlers.
CB == INSTANCE TlsCallbacks

\* An established connection without a PSK identity is dropped.
accept_ssl_cb(s, identified) ==
  LET x == SSL_handshake(Touch(s))
  IN IF x.code # "done" THEN CB!check_tls_error(x.next, "init", x.code)
     ELSE IF ~identified THEN tls_free(x.next)
     ELSE handle_connect(ev_io_stop(x.next, "init"))

-----------------------------------------------------------------------------
(* The actions of the server.                                              *)

clientVars == <<sent, heard, parts, greetings, hello>>

Running == conn.process = "running"

Init ==
  /\ conn = [tls |-> "none", process |-> "running", faults |-> {},
             active |-> {}, events |-> [w \in IoWatchers |-> "r"],
             pending |-> <<>>, timer |-> {}, left |-> 0, age |-> 0,
             input_size |-> 0, input |-> <<>>, input_buffer |-> <<>>,
             output |-> <<>>, output_buffer |-> <<>>,
             read_handler |-> "NULL", drain_handler |-> "NULL",
             error_handler |-> "NULL", timeout_handler |-> "NULL",
             line_too_long_handler |-> "NULL",
             hs |-> <<>>, in |-> <<>>, rbuf |-> <<>>, out |-> <<>>,
             sent_close |-> "no", link |-> "up",
             connection |-> "none", input_length |-> 0, queued |-> <<>>]
  /\ sent = <<>> /\ heard = <<>>
  /\ parts = 0 /\ greetings = 0 /\ hello = "idle"

\* One turn of accept_tcp_cb's loop; get_peer_address and SSL_new may fail.
accept_tcp_cb ==
  /\ Running /\ conn.tls = "none"
  /\ LET n == tls_new(conn)
         t == tls_on_timeout(n, "default_timeout_handler")
     IN conn' \in {tls_free(n), tls_free(t),
                   ev_feed_event(ev_io_start(t, "init", "r"), "init")}
  /\ UNCHANGED clientVars

\* ev_invoke_pending, for the watchers of the default priority.
InvokeIo ==
  /\ Running /\ conn.pending # <<>>
  /\ LET s == PopPending(conn)
     IN CASE Last(conn.pending) = "init"     ->
               \E identified \in BOOLEAN : conn' = accept_ssl_cb(s, identified)
          [] Last(conn.pending) = "read"     -> conn' = CB!read_cb(s)
          [] Last(conn.pending) = "write"    -> conn' = CB!write_cb(s)
          [] Last(conn.pending) = "shutdown" -> conn' = CB!shutdown_cb(s)
  /\ UNCHANGED clientVars

\* ... and for the timer, when no other watcher is pending.
InvokeTimeout ==
  /\ Running /\ conn.pending = <<>> /\ "due" \in conn.timer
  /\ conn' = CB!timeout_cb([conn EXCEPT !.timer = @ \ {"due"}])
  /\ UNCHANGED clientVars

LoopIdle == Running /\ conn.pending = <<>> /\ "due" \notin conn.timer

ReadySet == {w \in conn.active : Ready(conn, w)}

\* The loop waits until a descriptor is ready or the timer runs out.
Poll ==
  /\ LoopIdle /\ conn.tls = "live"
  /\ \E order \in SetToAllKPermutations(ReadySet), ticks \in 0..1 :
       /\ Len(order) = Cardinality(ReadySet)
       /\ ticks = 0 => ReadySet # {}
       /\ conn' = Polled(conn, order, ticks)
  /\ UNCHANGED clientVars

-----------------------------------------------------------------------------
(* What the protocol says the server answers to what the client sends:     *)
(* the state of the session, how much data is outstanding, the answers and *)
(* the data that is to be queued.                                          *)

Accepts(p) ==
  p.kw = "PUSH" /\ p.arg > 0 /\ (MaxCommandSize = 0 \/ p.arg <= MaxCommandSize)

Answer(r, kw, phase) ==
  [r EXCEPT !.replies = Append(@, kw), !.phase = phase]

AfterData(r, p) ==
  LET data == Append(r.data, p)
      t == [r EXCEPT !.data = <<>>]
  IN IF Len(data) < r.size THEN [r EXCEPT !.data = data]
     ELSE IF is_authorized(data)
     THEN [Answer(t, "OKAY", "connected") EXCEPT !.queue = Append(@, data)]
     ELSE Answer(t, "FAIL", "connected")

AfterLine(r, p) ==
  CASE p.kw = "BAIL" -> [r EXCEPT !.phase = "closed"]
    [] p.kw = "QUIT" -> Answer(r, "OKAY", "closed")
    [] r.phase = "greeting" /\ p.kw = "MOIN" /\ p.arg > 0 ->
         Answer(r, "MOIN", "connected")
    [] r.phase = "greeting" /\ p.kw = "PING" -> Answer(r, "PONG", "closed")
    [] r.phase = "connected" /\ p.kw = "NOOP" -> Answer(r, "OKAY", "connected")
    [] r.phase = "connected" /\ Accepts(p) ->
         [Answer(r, "OKAY", "data") EXCEPT !.size = p.arg]
    [] OTHER -> Answer(r, "FAIL", r.phase)

Session(pieces) ==
  FoldLeft(LAMBDA r, p : CASE r.phase = "closed" -> r
                           [] r.phase = "data"   -> AfterData(r, p)
                           [] OTHER              -> AfterLine(r, p),
           [phase |-> "greeting", size |-> 0, data |-> <<>>,
            replies |-> <<>>, queue |-> <<>>],
           pieces)

-----------------------------------------------------------------------------
(* The client.                                                             *)

Connected == Running /\ conn.tls = "live" /\ conn.link = "up"

Closed == conn.in # <<>> /\ Last(conn.in) = <<CloseNotify>>

Deliver(record) == conn' = [conn EXCEPT !.in = Append(@, record)]

\* The client starts a handshake, the first one or a renegotiation.
ClientHello ==
  /\ Connected /\ ~Closed /\ hello = "idle" /\ greetings < MaxHandshakes
  /\ greetings > 0 => conn.hs = <<>>
  /\ Deliver(<<HS>>)
  /\ greetings' = greetings + 1 /\ hello' = "waiting"
  /\ UNCHANGED <<sent, heard, parts>>

Established == Connected /\ ~Closed /\ greetings > 0 /\ hello = "idle"

\* A well-behaved client sends a request when the last one was answered.
MaySend ==
  /\ Established /\ Len(sent) < MaxSent
  /\ Session(sent).phase # "closed"
  /\ Pipelining \/ Len(heard) = Len(Session(sent).replies)

\* A record holds one or two pieces.
ClientSend ==
  /\ MaySend
  /\ \E p \in IF Session(sent).phase = "data" THEN Data ELSE Requests :
       /\ sent' = Append(sent, p)
       /\ \/ Deliver(<<p>>)
          \/ /\ conn.in # <<>> /\ Len(Last(conn.in)) = 1
             /\ Last(conn.in) \notin {<<HS>>, <<CloseNotify>>}
             /\ conn' = [conn EXCEPT !.in[Len(conn.in)] = Append(@, p)]
  /\ UNCHANGED <<heard, parts, greetings, hello>>

\* The beginning of a request line arrives in a record of its own.
ClientSendPart ==
  /\ MaySend /\ Session(sent).phase # "data" /\ parts < MaxParts
  /\ Deliver(<<Part>>)
  /\ parts' = parts + 1
  /\ UNCHANGED <<sent, heard, greetings, hello>>

\* The client reads what the server has sent, and completes the handshake.
ClientRead ==
  /\ Running /\ conn.out # <<>> /\ conn.link = "up"
  /\ LET p == Head(conn.out)
         in == IF p = HS /\ ~Closed THEN Append(conn.in, <<HS>>) ELSE conn.in
     IN /\ conn' = [conn EXCEPT !.out = Tail(@), !.in = in]
        /\ hello' = IF p = HS THEN "idle" ELSE hello
        /\ heard' = IF p \in {HS, CloseNotify} THEN heard
                    ELSE Append(heard, p.kw)
  /\ UNCHANGED <<sent, parts, greetings>>

\* The client closes the connection, or answers the server's close notify.
ClientClose ==
  /\ Connected /\ ~Closed
  /\ Unreliable \/ (conn.sent_close = "yes" /\ conn.out = <<>>)
  /\ Deliver(<<CloseNotify>>)
  /\ UNCHANGED clientVars

ClientReset ==
  /\ Connected /\ Unreliable
  /\ conn' = [conn EXCEPT !.link = "reset"]
  /\ UNCHANGED clientVars

ServerNext == accept_tcp_cb \/ InvokeIo \/ InvokeTimeout \/ Poll

ClientNext ==
  \/ ClientHello \/ ClientSend \/ ClientSendPart \/ ClientRead
  \/ ClientClose \/ ClientReset

Next == ServerNext \/ ClientNext

Spec == Init /\ [][Next]_vars

\* libev runs the callbacks it has to run and polls when there is none: the
\* weak fairness of the server's actions, with the enabling conditions of the
\* last two written out.  A poll that no event will ever end need not end.
PollEnds == ReadySet # {} \/ "armed" \in conn.timer

LoopFairness ==
  /\ WF_vars(accept_tcp_cb) /\ WF_vars(InvokeTimeout)
  /\ []<>(~Running \/ conn.pending = <<>>) \/ []<><<InvokeIo>>_vars
  /\ []<>~(LoopIdle /\ conn.tls = "live" /\ PollEnds) \/ []<><<Poll>>_vars

\* The client may stop at any point.
LoopSpec == Spec /\ LoopFairness

\* The client reads what it is sent, and takes part in a handshake it began.
FairSpec == Spec /\ LoopFairness /\ WF_vars(ClientRead)

-----------------------------------------------------------------------------
(* The properties.                                                         *)

Handlers == {"NULL", "handle_handshake", "handle_connection", "handle_push"}

\* Type correctness: of the connection's fields, of the watchers libev has on
\* its lists, and of what the client keeps.
TypeOK ==
  /\ conn.tls \in {"none", "live", "freed"}
  /\ conn.process \in {"running", "died"}
  /\ conn.active \subseteq IoWatchers
  /\ conn.events \in [IoWatchers -> {"r", "w"}]
  /\ Range(conn.pending) \subseteq IoWatchers /\ Len(conn.pending) <= 4
  /\ conn.timer \subseteq {"armed", "due"}
  /\ conn.left \in 0..Timeout /\ conn.age \in 0..Timeout
  /\ conn.read_handler \in Handlers
  /\ conn.drain_handler \in {"NULL", "start_shutdown"}
  /\ Len(conn.input_buffer) <= LINE_MAX_SIZE
  /\ conn.input_size = 0 \/ Len(conn.input) < conn.input_size
  /\ Len(conn.out) <= OutCapacity
  /\ conn.connection \in {"none", "live", "freed"}
  /\ Len(sent) <= MaxSent /\ parts <= MaxParts
  /\ hello \in {"idle", "waiting"}

\* However the connection ends: no handler of server.c runs on a
\* connection_state that was freed, none is freed twice, no tls_state is freed
\* twice, tls_read never finds another read request in progress (the "Internal
\* error" of tls.c), and once tls_free has run, the connection_state is freed
\* as well and libev has no descriptor watcher of the connection on any list.
MemorySafe ==
  /\ conn.faults \subseteq {"stale timeout"}
  /\ conn.tls = "freed" =>
       conn.connection # "live" /\ conn.active = {} /\ conn.pending = <<>>

\* tls.c gives the timer a lower priority to "check for data before checking
\* for timeout": the timer of a connection that was destroyed while its data
\* was checked is not waiting to be called.
NoStaleTimeout == conn.tls = "freed" => conn.timer = {}

\* The server's last word may be a BAIL.
Bailed == heard # <<>> /\ Last(heard) = "BAIL"
Answers == IF Bailed THEN Front(heard) ELSE heard

\* However the bytes are split into TLS records and the calls interrupted by
\* renegotiations and full buffers, the client hears what the protocol says,
\* one answer for each request, in order.
AnswersAsSpecified == IsPrefix(Answers, Session(sent).replies)

\* A command whose OKAY the client has heard was given to the command file
\* writer before, once and in order, and nothing else ever was.
QueuedBeforeAcked ==
  /\ IsPrefix(conn.queued, Session(sent).queue)
  /\ \A k \in 0..Len(sent) :
       LET past == Session(SubSeq(sent, 1, k))
       IN Len(past.replies) <= Len(Answers) => IsPrefix(past.queue, conn.queued)

\* What the OpenSSL call of a watcher's callback would do now.
Attempt(w) ==
  CASE w = "init"     -> SSL_handshake(conn)
    [] w = "read"     -> SSL_read(conn, 1)
    [] w = "write"    -> SSL_write(conn, conn.output \o conn.output_buffer)
    [] w = "shutdown" -> SSL_shutdown(conn)

\* tls.c's rule for waiting: when the loop goes to sleep, a watcher whose call
\* could make progress is waiting for an event that the socket is ready for,
\* and no complete line sits in a buffer that nobody will look at.
NoLostWakeup ==
  LoopIdle /\ conn.tls = "live" =>
    /\ \A w \in conn.active :
         Attempt(w).code \notin {"want_read", "want_write"} => Ready(conn, w)
    /\ "read" \in conn.active /\ conn.input_size = 0 =>
         conn.rbuf = <<>> /\ CB!LineEnd(conn.input_buffer) = 0

Drained(s) == s.output = <<>> /\ s.output_buffer = <<>>

\* A client that closes the connection without waiting for its answers has the
\* alert answered at once, before what is queued for it, and the connection is
\* destroyed with its queue: unless the server had begun to close it itself.
ClosedByClient(s) == PeerClosed(s) /\ s.drain_handler = "NULL"

\* The close notify alert is sent only when every answer was handed to
\* OpenSSL, and nothing is queued for the client after it.  The one exception
\* is the answer to the alert of a client that closed the connection first:
\* then the connection is destroyed in the same callback.
DrainedBeforeClose ==
  conn.sent_close = "yes" =>
    Drained(conn) \/ (conn.tls = "freed" /\ ClosedByClient(conn))

\* An established connection is destroyed only when the client is gone, when
\* the shutdown was begun, or when there was no activity for the timeout; a
\* handshake or a full buffer never looks like an error.
NotDroppedWithoutReason ==
  [][conn.connection = "live" /\ conn'.tls = "freed" =>
       Closed \/ conn.link = "reset"]_vars

\* With a timeout, each connection is closed in the end, whatever the client
\* does or fails to do ("Close the connection if a client didn't show any
\* activity for the specified number of seconds").
EventuallyClosed == (conn.tls = "live") ~> (conn.tls = "freed")

\* The server dropped the client before the session began.
Refused == conn.tls = "freed" /\ conn.connection = "none"

\* Each request of a client that stays connected is answered in the end.
EveryRequestAnswered ==
  \A n \in 1..MaxSent :
    (Len(Session(sent).replies) >= n)
      ~> (Len(heard) >= n \/ Closed \/ conn.link = "reset" \/ Refused)

=============================================================================
