------------------------------- MODULE Client -------------------------------
(***************************************************************************)
(* send_nsca: src/client/client.c and src/client/input.c on top of         *)
(* src/common/tls.c, with the user at standard input and any server.       *)
(*                                                                         *)
(* Standard input is a sequence of pieces: a terminated chunk, the         *)
(* unterminated beginning of one ("tail"), or the end of the file.  The    *)
(* argument says what the chunk holds: 0 nothing but newlines, 1 and 2 a   *)
(* command of that size, 3 a command the server will not allow, 4 a check  *)
(* result with the wrong number of fields.  A chunk that follows its own   *)
(* beginning is counted as one.                                            *)
(***************************************************************************)
EXTENDS Tls

CONSTANTS
  Contents,     \* what the user types, a subset of 0..4
  InputSize,    \* sizeof(input->input): how much read(2) returns
  Responses,    \* the lines the server sends
  MaxTyped,     \* bound: how many pieces the user types
  MaxSaid       \* bound: how many lines the server sends

ASSUME ClientAssumption ==
  /\ Contents \subseteq 0..4 /\ InputSize \in Nat \ {0}
  /\ \A p \in Responses :
       /\ p = Piece(p.kw, p.arg) /\ p.arg \in Nat /\ IsLine(p)
       /\ p.kw = "OKAY" => p.arg = 0    \* OKAY has no argument
  /\ MaxTyped \in Nat /\ MaxSaid \in Nat
  /\ AutoDie /\ InitialHandshake = <<"send", "recv", "send">>

VARIABLES
  conn,     \* the connection, see module Tls; the client's own part is
            \*   client, reader: the client_state and the input_state, "none",
            \*     "live" or "freed"
            \*   client_input: client->input, "NULL" or "set"
            \*   chunks, eof: input->buffer and input->eof
            \*   command: client->command
            \*   exit_code
            \*   stdin: what the user has typed and read(2) not yet returned
  typed,    \* all that the user has typed
  said,     \* the lines the server has sent
  taken     \* all that the server has read

vars == <<conn, typed, said, taken>>

EndOfFile == Piece("eof", 0)

-----------------------------------------------------------------------------
(* input.c, and the handlers client.c gives to it.  The handler of an      *)
(* empty chunk asks for the next one and so calls read_cb again: the       *)
(* recursion is a tail call and is modelled as a loop.                     *)

parse_check_result(content) ==
  CASE content = 1 -> <<Piece("data", 1)>>
    [] content = 2 -> <<Piece("data", 1), Piece("data", 1)>>
    [] content = 3 -> <<Piece("data", 0)>>

input_start(s) ==
  [s EXCEPT !.client_input = "set", !.reader = "live", !.chunks = <<>>, !.eof = "no"]

input_stop(s) ==
  IF s.reader = "freed" THEN Fault(s, "double free of input_state")
  ELSE [(IF "input" \in s.active THEN ev_io_stop(s, "input") ELSE s)
        EXCEPT !.reader = "freed"]

\* Mutant: the pointer to the reader stays behind.
handle_input_eof_KeepsPointer(s) ==
  tls_read_line(tls_write_line(s, Piece("QUIT", 0)), "handle_tls_quit_response")

handle_input_eof(s) ==
  tls_read_line(tls_write_line([s EXCEPT !.client_input = "NULL"], Piece("QUIT", 0)),
                "handle_tls_quit_response")

EndOfInput(s) == input_stop(handle_input_eof(s))

Turn(s, go) == [s |-> s, go |-> go]

\* A chunk that is not empty is the next command.
handle_input_chunk(s, content) ==
  LET command == parse_check_result(content)
      t == [s EXCEPT !.command = command]
  IN CASE content = 0 /\ s.eof = "no" -> Turn(ev_io_start(s, "input", "r"), "yes")
       [] content = 0 /\ s.eof = "yes" -> Turn(EndOfInput(s), "no")
       [] content = 4 -> Turn(die(s, "input format"), "no")
       [] content \in 1..3 ->
            Turn(tls_read_line(tls_write_line(t, Piece("PUSH", Len(command))),
                               "handle_tls_push_response"), "no")

\* Mutant: at the end of the file, an unterminated chunk is forgotten.
AtEof_DropsTail(s) == Turn(EndOfInput([s EXCEPT !.eof = "yes"]), "no")

AtEof(s) ==
  LET t == [s EXCEPT !.eof = "yes"]
  IN IF s.chunks = <<>> THEN Turn(EndOfInput(t), "no")
     ELSE handle_input_chunk([ev_io_stop(t, "input") EXCEPT !.chunks = <<>>],
                             Last(s.chunks).arg)

\* One turn of read_cb's loop.
InputTurn(r) ==
  LET s == r.s
      n == SelectInSeq(s.chunks, LAMBDA p : p.kw = "chunk")
      k == CHOOSE i \in 0..InputSize :
             /\ i <= Len(s.stdin) /\ EndOfFile \notin Range(SubSeq(s.stdin, 1, i))
             /\ \/ i = InputSize \/ i = Len(s.stdin)
                \/ s.stdin[i + 1] = EndOfFile
  IN CASE r.go = "no" -> r
       [] r.go = "yes" /\ n > 0 ->
            handle_input_chunk(
              [ev_io_stop(s, "input") EXCEPT !.chunks = SubSeq(@, n + 1, Len(@))],
              s.chunks[n].arg)
       [] r.go = "yes" /\ n = 0 /\ s.stdin = <<>> -> Turn(s, "no")
       [] r.go = "yes" /\ n = 0 /\ s.stdin # <<>> /\ k = 0 -> AtEof(s)
       [] r.go = "yes" /\ n = 0 /\ s.stdin # <<>> /\ k > 0 ->
            [r EXCEPT !.s.chunks = @ \o SubSeq(s.stdin, 1, k),
                      !.s.stdin = SubSeq(@, k + 1, Len(@))]

input_read_cb(s) ==
  LET turns == 2 * (Len(s.stdin) + Len(s.chunks)) + 2
      turn[k \in 0..turns] ==
        IF k = 0 THEN Turn(s, "yes") ELSE InputTurn(turn[k - 1])
  IN turn[turns].s

input_read_chunk(s) ==
  IF s.reader # "live" THEN Fault(s, "use of freed input_state")
  ELSE IF s.eof = "no" THEN input_read_cb(ev_io_start(s, "input", "r"))
  ELSE EndOfInput(s)

-----------------------------------------------------------------------------
(* client.c: the handlers of the server's responses.                       *)

\* Mutant: the reader goes on.
client_stop_KeepsReader(s) == [tls_shutdown(s) EXCEPT !.client = "freed"]

client_stop(s) ==
  LET t == IF s.client_input = "set" THEN input_stop(s) ELSE s
  IN IF s.client = "freed" THEN Fault(s, "double free of client_state")
     ELSE [tls_shutdown(t) EXCEPT !.client = "freed"]

bail(s) ==
  LET t == write_buffered(s, <<Part, Piece("BAIL", 0)>>)
  IN [client_stop(t) EXCEPT !.exit_code = "FAILURE"]

\* server_is_grumpy: a FAIL or BAIL response ends the session.
Grumpy(line) == line.kw \in {"FAIL", "BAIL"}

server_is_grumpy(s) == [client_stop(s) EXCEPT !.exit_code = "FAILURE"]

Otherwise(s, line) == IF Grumpy(line) THEN server_is_grumpy(s) ELSE bail(s)

Dereference(s) ==
  IF s.client = "live" THEN s ELSE Fault(s, "use of freed client_state")

handle_tls_moin_response(s, line) ==
  CASE line.kw = "MOIN" /\ line.arg = 1 ->
         input_read_chunk(input_start(Dereference(s)))
    [] line.kw = "MOIN" /\ line.arg # 1 -> bail(s)
    [] line.kw # "MOIN" -> Otherwise(s, line)

\* Mutant: the next chunk is read before the command was acknowledged.
handle_tls_push_response_NoWait(s, line) ==
  IF line.kw = "OKAY"
  THEN input_read_chunk(tls_write(Dereference(s), s.command))
  ELSE Otherwise(s, line)

handle_tls_push_response(s, line) ==
  IF line.kw = "OKAY"
  THEN tls_read_line(tls_write(Dereference(s), s.command),
                     "handle_tls_command_response")
  ELSE Otherwise(s, line)

handle_tls_command_response(s, line) ==
  IF line.kw = "OKAY" THEN input_read_chunk(Dereference(s))
  ELSE Otherwise(s, line)

handle_tls_quit_response(s, line) ==
  IF line.kw = "OKAY" THEN client_stop(s) ELSE Otherwise(s, line)

handle_tls_connect(s) ==
  tls_read_line(tls_write_line(Dereference(s), Piece("MOIN", 1)),
                "handle_tls_moin_response")

Call(handler, s, arg) ==
  CASE handler = "handle_tls_moin_response"    ->
         handle_tls_moin_response(s, arg[1])
    [] handler = "handle_tls_push_response"    ->
         handle_tls_push_response(s, arg[1])
    [] handler = "handle_tls_command_response" ->
         handle_tls_command_response(s, arg[1])
    [] handler = "handle_tls_quit_response"    ->
         handle_tls_quit_response(s, arg[1])

\* The callbacks of tls.c, for the client's handlers.
CB == INSTANCE TlsCallbacks

connect_cb(s) ==
  LET x == SSL_handshake(Touch(s))
  IN IF x.code # "done" THEN CB!check_tls_error(x.next, "init", x.code)
     ELSE handle_tls_connect(ev_io_stop(x.next, "init"))

\* The call from tls_connect, when the watcher is not yet active.
connect_cb_custom(s) ==
  LET x == SSL_handshake(Touch(s))
      t == ev_feed_event(ev_io_start(x.next, "init", "w"), "init")
  IN IF x.code # "done" THEN CB!check_tls_error(t, "init", x.code)
     ELSE handle_tls_connect(x.next)

\* Mutant: the timer is not started.
tls_connect_NoTimeout(s) == connect_cb_custom(tls_new(s))

tls_connect(s) ==
  connect_cb_custom(tls_on_timeout(tls_new(s), "default_timeout_handler"))

-----------------------------------------------------------------------------
(* The actions of the client.                                              *)

Watchers == IoWatchers \cup {"input"}

Init ==
  /\ conn = [tls |-> "none", process |-> "running", faults |-> {},
             active |-> {}, events |-> [w \in Watchers |-> "r"],
             pending |-> <<>>, timer |-> {}, left |-> 0, age |-> 0,
             input_size |-> 0, input |-> <<>>, input_buffer |-> <<>>,
             output |-> <<>>, output_buffer |-> <<>>,
             read_handler |-> "NULL", drain_handler |-> "NULL",
             error_handler |-> "NULL", timeout_handler |-> "NULL",
             line_too_long_handler |-> "NULL",
             hs |-> <<>>, in |-> <<>>, rbuf |-> <<>>, out |-> <<>>,
             sent_close |-> "no", link |-> "connecting",
             client |-> "none", reader |-> "none", client_input |-> "NULL",
             chunks |-> <<>>, eof |-> "no", command |-> <<>>,
             exit_code |-> "SUCCESS", stdin |-> <<>>]
  /\ typed = <<>> /\ said = <<>> /\ taken = <<>>

Running == conn.process = "running"

Unseen == UNCHANGED <<typed, said, taken>>

\* main: the client_state is allocated and the connection is begun.
client_start ==
  /\ Running /\ conn.client = "none"
  /\ conn' = tls_connect([conn EXCEPT !.client = "live"])
  /\ Unseen

\* ev_invoke_pending, for the watchers of the default priority.
InvokeIo ==
  /\ Running /\ conn.pending # <<>>
  /\ LET s == PopPending(conn)
         w == Last(conn.pending)
     IN conn' = CASE w = "init"     -> connect_cb(s)
                  [] w = "read"     -> CB!read_cb(s)
                  [] w = "write"    -> CB!write_cb(s)
                  [] w = "shutdown" -> CB!shutdown_cb(s)
                  [] w = "input"    -> input_read_cb(s)
  /\ Unseen

\* ... and for the timer, when no other watcher is pending.
InvokeTimeout ==
  /\ Running /\ conn.pending = <<>> /\ "due" \in conn.timer
  /\ conn' = CB!timeout_cb([conn EXCEPT !.timer = @ \ {"due"}])
  /\ Unseen

LoopIdle ==
  /\ Running /\ conn.client # "none"
  /\ conn.pending = <<>> /\ "due" \notin conn.timer

ReadySet ==
  {w \in conn.active : IF w = "input" THEN conn.stdin # <<>> ELSE Ready(conn, w)}

PollEnds == ReadySet # {} \/ "armed" \in conn.timer

\* The loop waits until a descriptor is ready or the timer runs out.
Poll ==
  /\ LoopIdle /\ PollEnds
  /\ \E order \in SetToAllKPermutations(ReadySet), ticks \in 0..1 :
       /\ Len(order) = Cardinality(ReadySet)
       /\ ticks = 0 => ReadySet # {}
       /\ conn' = Polled(conn, order, ticks)
  /\ Unseen

\* ev_run returns when no watcher is active, and main returns exit_code.
Exit ==
  /\ LoopIdle /\ conn.active = {} /\ conn.timer = {}
  /\ conn' = [conn EXCEPT !.process = "exited"]
  /\ Unseen

-----------------------------------------------------------------------------
(* The user, the network and the server.                                   *)

\* What stdin can yield: a chunk with its terminator, the rest without one, and
\* the end of the file.
Texts == {Piece(kw, c) : kw \in {"chunk", "tail"}, c \in Contents} \cup {EndOfFile}

\* A beginning is followed by its chunk or by the end of the file.
Type ==
  /\ Running /\ EndOfFile \notin Range(typed)
  /\ \E p \in Texts :
       /\ p # EndOfFile => Len(typed) < MaxTyped
       /\ p.kw = "tail" /\ typed # <<>> => Last(typed).kw # "tail"
       /\ typed' = Append(typed, p)
       /\ conn' = [conn EXCEPT !.stdin = Append(@, p)]
  /\ UNCHANGED <<said, taken>>

Connect ==
  /\ Running /\ conn.client # "none" /\ conn.link = "connecting"
  /\ conn' \in {[conn EXCEPT !.link = "up"], [conn EXCEPT !.link = "reset"]}
  /\ Unseen

Up == Running /\ conn.tls = "live" /\ conn.link = "up"

ServerClosed == conn.in # <<>> /\ Last(conn.in) = <<CloseNotify>>

\* The server reads, and answers the first message of the handshake.
ServerRead ==
  /\ Up /\ conn.out # <<>>
  /\ taken' = Append(taken, Head(conn.out))
  /\ conn' = [conn EXCEPT !.out = Tail(@),
                          !.in = IF taken = <<>> THEN Append(@, <<HS>>) ELSE @]
  /\ UNCHANGED <<typed, said>>

\* What a server may answer: each line and each run of data.
Answerable ==
  {i \in 1..Len(taken) :
     \/ IsLine(taken[i])
     \/ taken[i].kw = "data" /\ (i = Len(taken) \/ taken[i + 1].kw # "data")}

\* Any response to a request, or a BAIL at any time.
ServerSend ==
  /\ Up /\ ~ServerClosed /\ Len(said) < MaxSaid
  /\ Cardinality({i \in 1..Len(taken) : taken[i] = HS}) = 2
  /\ \E p \in Responses :
       /\ p.kw = "BAIL" \/ Len(said) < Cardinality(Answerable)
       /\ said' = Append(said, p)
       /\ conn' = [conn EXCEPT !.in = Append(@, <<p>>)]
  /\ UNCHANGED <<typed, taken>>

\* The server shuts the connection down, or it is gone.
ServerClose ==
  /\ Up /\ ~ServerClosed /\ taken # <<>>
  /\ conn' = [conn EXCEPT !.in = Append(@, <<CloseNotify>>)]
  /\ Unseen

ServerReset ==
  /\ Up
  /\ conn' = [conn EXCEPT !.link = "reset"]
  /\ Unseen

ClientNext == client_start \/ InvokeIo \/ InvokeTimeout \/ Poll \/ Exit

Next ==
  \/ ClientNext
  \/ Type \/ Connect
  \/ ServerRead \/ ServerSend \/ ServerClose \/ ServerReset

Spec == Init /\ [][Next]_vars

\* libev runs the callbacks it has to run and polls when there is none.  The
\* server need neither read nor answer, and the user need not type.
FairSpec ==
  /\ Spec
  /\ WF_vars(client_start) /\ WF_vars(InvokeTimeout) /\ WF_vars(Exit)
  /\ []<>(~Running \/ conn.pending = <<>>) \/ []<><<InvokeIo>>_vars
  /\ []<>~(LoopIdle /\ PollEnds) \/ []<><<Poll>>_vars

-----------------------------------------------------------------------------
(* The properties.                                                         *)

\* Type correctness: of the structures, the watchers and the process;
\* client->input is NULL or points to a reader that exists.
TypeOK ==
  /\ conn.tls \in {"none", "live", "freed"}
  /\ conn.process \in {"running", "died", "exited"}
  /\ conn.exit_code \in {"SUCCESS", "FAILURE"}
  /\ conn.active \subseteq Watchers
  /\ Range(conn.pending) \subseteq Watchers
  /\ conn.timer \subseteq {"armed", "due"}
  /\ {conn.client, conn.reader} \subseteq {"none", "live", "freed"}
  /\ conn.client_input \in {"NULL", "set"} /\ conn.eof \in {"no", "yes"}
  /\ conn.client = "live" /\ conn.client_input = "set" => conn.reader = "live"
  /\ Len(conn.out) <= OutCapacity
  /\ Len(said) <= MaxSaid /\ Len(typed) <= MaxTyped + 1

\* What ends the process with an error, by design of TLS_AUTO_DIE.
Deaths == {"connection lost", "connection timed out", "line too long",
           "input format"}

\* No handler of client.c runs on a client_state or an input_state that was
\* freed, neither is freed twice, and tls_read never finds another read
\* request in progress.  (A stale timeout is the server's too, see Server.)
\* When client_stop has freed the client_state, the reader is freed as well
\* and standard input is no longer watched.
MemorySafe ==
  /\ conn.faults \subseteq Deaths \cup {"stale timeout"}
  /\ conn.client = "freed" => conn.reader # "live" /\ "input" \notin conn.active

\* The terminated chunks of the input that are not empty.
Commands(input) ==
  LET select[i \in 0..Len(input)] ==
        IF i = 0 THEN <<>>
        ELSE IF input[i].kw = "chunk" /\ input[i].arg # 0
        THEN Append(select[i - 1], input[i]) ELSE select[i - 1]
  IN select[Len(input)]

\* ... and what is left unterminated at the end of the file.
Unterminated(input) ==
  LET n == Len(input)
  IN IF n > 1 /\ input[n] = EndOfFile /\ input[n - 1].kw = "tail"
        /\ input[n - 1].arg # 0
     THEN <<input[n - 1]>> ELSE <<>>

\* The commands the user typed.
TypedChunks == Commands(typed) \o Unterminated(typed)

\* The session PROTOCOL prescribes for them.
Transmission(content) ==
  <<Piece("PUSH", Len(parse_check_result(content)))>> \o parse_check_result(content)

CompleteSession ==
  <<HS, HS, Piece("MOIN", 1)>>
    \o FlattenSeq([i \in DOMAIN TypedChunks |-> Transmission(TypedChunks[i].arg)])
    \o <<Piece("QUIT", 0), CloseNotify>>

Acknowledgements ==
  <<Piece("MOIN", 1)>>
    \o [i \in 1..2 * Len(TypedChunks) + 1 |-> Piece("OKAY", 0)]

\* Exit status 0 tells the truth: the input was read to its end, each command
\* in it was transmitted, once and in order, and the server said OKAY to each
\* of the requests and submissions.
ExitStatusHonest ==
  conn.process = "exited" /\ conn.exit_code = "SUCCESS" =>
    /\ EndOfFile \in Range(typed)
    /\ taken \o conn.out = CompleteSession
    /\ IsPrefix(Acknowledgements, said)

\* The client waits for the server's answer before it sends the next request
\* or a command: it never has more than one request outstanding, BAIL aside.
OneRequestAtATime ==
  LET sent == taken \o conn.out
      requests == {i \in 1..Len(sent) : IsLine(sent[i]) /\ sent[i].kw # "BAIL"}
      pushes == {i \in requests : sent[i].kw = "PUSH" /\ i < Len(sent)
                                    /\ sent[i + 1].kw = "data"}
  IN Cardinality(requests) + Cardinality(pushes) <= Len(said) + 1

\* The server has stopped reading while send_nsca has more to send than fits
\* into the socket's send buffer and is waiting for a response.
ServerStalls ==
  <>[](Up /\ Room(conn) = 0 /\ conn.active = {"read", "write"})

\* With a timeout, send_nsca ends, whatever the user does or fails to do and
\* whatever the server answers or does not answer, at any point.  The one
\* exception is a server that stops reading: with both watchers active, read_cb
\* and write_cb feed each other's event as long as the buffer stays full, and
\* the callback of the timer, which has a lower priority, need not ever run.
EventuallyEnds == <>(~Running) \/ ServerStalls

=============================================================================
