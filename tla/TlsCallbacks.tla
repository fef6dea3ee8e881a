---------------------------- MODULE TlsCallbacks ----------------------------
(***************************************************************************)
(* The callbacks of src/common/tls.c.  They call the handlers of the       *)
(* application that owns the connection through its dispatcher Call, which *)
(* has the effect of the function with the given name on the connection.   *)
(***************************************************************************)
EXTENDS Tls

CONSTANT Call(_, _, _)    \* handler, connection, argument

reset_watcher_state(s, w) == IF w \in s.active THEN ev_feed_event(s, w) ELSE s

\* Mutant: the watcher goes on waiting for the same event.
Await_SameEvent(s, w, event) == s

\* Stopping and starting the watcher is what clears a pending event.
Await(s, w, event) ==
  IF s.events[w] = event THEN s ELSE ev_io_start(ev_io_stop(s, w), w, event)

ConnectionLost(s) ==
  IF AutoDie THEN die(s, "connection lost")
  ELSE tls_free(IF s.error_handler = "NULL" THEN s
                ELSE Call(s.error_handler, s, <<>>))

\* The peer's close notify is answered at once, as far as there is room for the
\* alert; with TLS_AUTO_DIE, the warning before that ends the process.
AnswerClose(s) == IF AutoDie THEN s ELSE SSL_shutdown(s).next

\* Mutant: a full send buffer is an error.
check_tls_error_FullIsFatal(s, w, code) ==
  IF code = "want_read" THEN Await(s, w, "r") ELSE ConnectionLost(s)

\* A call that a signal interrupts is a want_read or a want_write: OpenSSL's
\* sockets take EINTR for one of the errors that are to be tried again.
check_tls_error(s, w, code) ==
  CASE code = "want_read"   -> Await(s, w, "r")
    [] code = "want_write"  -> Await(s, w, "w")
    [] code = "zero_return" -> ConnectionLost(AnswerClose(s))
    [] code = "error"       -> ConnectionLost(s)

CallTimeout(s) ==
  IF s.timeout_handler = "default_timeout_handler" THEN tls_free(s)
  ELSE Call(s.timeout_handler, s, <<>>)

CallLineTooLong(s) ==
  IF AutoDie THEN die(s, "line too long")
  ELSE IF s.line_too_long_handler = "default_line_too_long_handler"
       THEN tls_free(s)
       ELSE Call(s.line_too_long_handler, s, <<>>)

\* The index of the first terminated line in the buffer, 0 if there is none.
LineEnd(q) == SelectInSeq(q, IsLine)

\* One turn of read_line's loop; `line' is what it returns, and the loop goes
\* on as long as `go' says so.
ReadLineTurn(r) ==
  LET s == r.s
      n == LineEnd(s.input_buffer)
      x == SSL_read(s, LINE_BUFFER_SIZE)
  IN IF r.go = "no" THEN r
     ELSE IF n > 0
     THEN [s |-> [s EXCEPT !.input_buffer = SubSeq(@, n + 1, Len(@))],
           line |-> <<s.input_buffer[n]>>, go |-> "no"]
     ELSE IF Len(s.input_buffer) + LINE_BUFFER_SIZE > LINE_MAX_SIZE
     THEN [s |-> CallLineTooLong(ev_io_stop(s, "read")),
           line |-> <<>>, go |-> "no"]
     ELSE IF x.code # "done"
     THEN [s |-> check_tls_error(x.next, "read", x.code),
           line |-> <<>>, go |-> "no"]
     ELSE [r EXCEPT !.s = [x.next EXCEPT !.input_buffer = @ \o x.got]]

\* A turn that goes on adds a piece to the buffer, so the loop ends.
read_line(s) ==
  LET turn[k \in 0..LINE_MAX_SIZE + 2] ==
        IF k = 0 THEN [s |-> s, line |-> <<>>, go |-> "yes"]
        ELSE ReadLineTurn(turn[k - 1])
  IN turn[LINE_MAX_SIZE + 2]

\* Mutant: the first SSL_read that returns data completes the request.
ReadIncomplete_Never(s) == FALSE

ReadIncomplete(s) == Len(s.input) < s.input_size

\* Mutant: the offset is not reset.
ReadComplete_KeepsOffset(s) == s

ReadComplete(s) == [s EXCEPT !.input = <<>>]

ReadBytesTurn(r) ==
  LET s == r.s
      x == SSL_read(s, s.input_size - Len(s.input))
      t == [x.next EXCEPT !.input = @ \o x.got]
  IN IF r.go = "no" THEN r
     ELSE IF x.code # "done"
     THEN [s |-> check_tls_error(x.next, "read", x.code),
           line |-> <<>>, go |-> "no"]
     ELSE IF ReadIncomplete(t) THEN [r EXCEPT !.s = t]
     ELSE [s |-> ReadComplete(t), line |-> t.input, go |-> "no"]

read_bytes(s) ==
  LET turn[k \in 0..s.input_size + 1] ==
        IF k = 0 THEN [s |-> s, line |-> <<>>, go |-> "yes"]
        ELSE ReadBytesTurn(turn[k - 1])
  IN turn[s.input_size + 1]

read_cb(c) ==
  LET s == Touch(reset_watcher_state(c, "write"))
      r == IF s.input_size = 0 THEN read_line(s) ELSE read_bytes(s)
  IN IF r.line = <<>> THEN r.s
     ELSE Call(r.s.read_handler, ev_io_stop(r.s, "read"), r.line)

\* Everything was written; the drain handler is called when nothing is left.
Written(s) ==
  LET t == ev_io_stop(s, "write")
  IN IF s.output_buffer # <<>> THEN s
     ELSE IF s.drain_handler = "NULL" THEN t ELSE start_shutdown(t)

\* The inner loop: a partial write is followed by one that has no room.
WriteOutput(s) ==
  LET o == IF s.output # <<>> THEN s
           ELSE [s EXCEPT !.output = s.output_buffer, !.output_buffer = <<>>]
      x == SSL_write(o, o.output)
      rest == SubSeq(o.output, Len(x.got) + 1, Len(o.output))
      t == [x.next EXCEPT !.output = rest]
  IN CASE x.code # "done" ->
            [done |-> "no", s |-> check_tls_error(x.next, "write", x.code)]
       [] x.code = "done" /\ rest # <<>> ->
            [done |-> "no", s |-> check_tls_error(t, "write", "want_write")]
       [] x.code = "done" /\ rest = <<>> -> [done |-> "yes", s |-> Written(t)]

\* The outer loop: the second turn takes over all of the buffer.
write_cb(c) ==
  LET r == WriteOutput(Touch(reset_watcher_state(c, "read")))
  IN IF r.done = "yes" /\ r.s.output_buffer # <<>>
     THEN WriteOutput(r.s).s ELSE r.s

shutdown_cb(s) ==
  LET x == SSL_shutdown(Touch(s))
  IN IF x.code = "done" THEN tls_free(x.next)
     ELSE check_tls_error(x.next, "shutdown", x.code)

\* Mutant: the timer is not started again before the handler is called.
timeout_cb_Once(s) ==
  IF s.tls = "freed" THEN die(s, "stale timeout")
  ELSE IF s.age < Timeout THEN ev_timer_start(s, Timeout - s.age)
  ELSE CallTimeout(StopActive(s))

\* The memory that the pending watcher was in has been freed.
timeout_cb(s) ==
  IF s.tls = "freed" THEN die(s, "stale timeout")
  ELSE IF s.age < Timeout THEN ev_timer_start(s, Timeout - s.age)
  ELSE IF AutoDie THEN die(s, "connection timed out")
  ELSE CallTimeout(ev_timer_start(StopActive(s), Timeout))

=============================================================================
