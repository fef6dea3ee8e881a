------------------------------ MODULE Binding ------------------------------
(***************************************************************************)
(* The client libraries of the Perl and Python bindings: perl/client.c     *)
(* with perl/Client.xs, and python/client.c with python/nscang.c.          *)
(*                                                                         *)
(* An object holds one connection, which outlives the calls that use it.   *)
(* A call submits one command: MOIN, unless the session has begun, PUSH,   *)
(* and the command itself, each followed by a blocking wait for the answer *)
(* that may time out.  The two languages deal with a failure differently:  *)
(* Perl tries again after a timeout only and then frees the client; Python *)
(* tries again after any failure and then leaves everything as it is.      *)
(*                                                                         *)
(* The server answers late, refuses, gives up or vanishes.  What was sent  *)
(* on a connection may still arrive after the client has closed it.        *)
(***************************************************************************)
EXTENDS Naturals, Sequences, SequencesExt

CONSTANTS
  DataSize,   \* the number of pieces of a command; a line is one piece
  MaxCalls    \* bound: the number of calls on the object

ASSUME BindingAssumption == DataSize \in Nat \ {0} /\ MaxCalls \in Nat

VARIABLES
  lang,     \* the language, and thereby the copy of client.c
  state,    \* c->state
  pc,       \* what the call is about to do: "write" or "read", "idle"
            \* between two calls, or "gone"
  req,      \* the request that is to be written, or was
  calls,    \* the number of calls, the one in progress included
  kind,     \* for each call: check "result", Perl's "command", or "none" yet
  tries,    \* for each call: how often the command was to be sent
  result,   \* for each call: what it returned
  kept,     \* the connection was left to this call by one that has failed
  conn,     \* the connection
  late,     \* those the client has closed, with what the server will read
  queued    \* how often the server has queued each command

vars == <<lang, state, pc, req, calls, kind, tries, result, kept, conn,
          late, queued>>

Calls == 1..MaxCalls

-----------------------------------------------------------------------------
(* Connections.                                                            *)

Line(kw) == [kw |-> kw, call |-> 0, part |-> 0]

\* The bytes of a command, which begin with its time stamp.
Data(n) == [i \in 1..DataSize |-> [kw |-> "data", call |-> n, part |-> i]]

Pieces == {Line(kw) : kw \in {"MOIN", "PUSH", "QUIT", "BAIL"}}
            \cup UNION {Range(Data(n)) : n \in Calls}

Responses == {"MOIN", "OKAY", "FAIL", "BAIL", "version", "other"}

(***************************************************************************)
(* io is the client's end: "fresh" until something was written, for the    *)
(* first SSL_write connects; "stuck" when SSL_write has given up in the    *)
(* middle of a record, and refuses any other data; "lost" after an error.  *)
(* to and from are the bytes and answers under way, session the handler    *)
(* that server.c has set, and input what handle_push is waiting for.       *)
(***************************************************************************)
Fresh == [io |-> "fresh", to |-> <<>>, from |-> <<>>,
          session |-> "handle_handshake", input |-> <<>>]

Open(c) == c.io \in {"fresh", "up"}

Sent(c, pieces) == [c EXCEPT !.io = "up", !.to = @ \o pieces]

\* nscang_client_send_quit(): the write has no time to wait.
send_quit(c) == {c} \cup IF Open(c) THEN {Sent(c, <<Line("QUIT")>>)} ELSE {}

\* Nobody reads the answers on a connection that the client has closed, and
\* it is forgotten when there is nothing left to read for the server.
Finished(c) == c.session = "closed" \/ c.to = <<>>

Abandon(c, l) == IF Finished(c) THEN l ELSE Append(l, [c EXCEPT !.from = <<>>])

\* nscang_client_disconnect(): the connections it may leave; the state is NEW
\* then.  BIO_reset makes the same BIO connect again.
nscang_client_disconnect(c, s, l) ==
  {[conn |-> Fresh, late |-> Abandon(d, l)] :
     d \in IF s = "MOIN" THEN send_quit(c) ELSE {c}}

-----------------------------------------------------------------------------
(* The end of a call, or of an attempt.                                    *)

\* Mutant: send_moin does not look at the state.
FirstRequest_AlwaysGreets(s) == "MOIN"

\* send_moin returns at once when the session has begun.
FirstRequest(s) == IF s = "MOIN" THEN "PUSH" ELSE "MOIN"

Return(r) ==
  /\ pc' = "idle" /\ req' = "MOIN"
  /\ result' = [result EXCEPT ![calls] = r]
  /\ UNCHANGED tries

Disconnect(c, s, l) ==
  \E d \in nscang_client_disconnect(c, s, l) :
    conn' = d.conn /\ late' = d.late

\* Mutant: the command is sent once more on the same connection.
Retry_Connected(c, s, l) ==
  /\ conn' = c /\ late' = l /\ state' = s
  /\ tries' = [tries EXCEPT ![calls] = @ + 1]
  /\ pc' = "write" /\ req' = FirstRequest(s)
  /\ kept' = FALSE
  /\ UNCHANGED result

\* Mutant: the attempts are not counted.
Retry_Uncounted(c, s, l) ==
  /\ Disconnect(c, s, l)
  /\ state' = "NEW"
  /\ pc' = "write" /\ req' = FirstRequest("NEW")
  /\ kept' = FALSE
  /\ UNCHANGED <<tries, result>>

\* Disconnect and send the command once more.
Retry(c, s, l) ==
  /\ Disconnect(c, s, l)
  /\ state' = "NEW"
  /\ tries' = [tries EXCEPT ![calls] = @ + 1]
  /\ pc' = "write" /\ req' = FirstRequest("NEW")
  /\ kept' = FALSE
  /\ UNCHANGED result

\* Mutant: Perl does not free the client after an error either.
GiveUp_Keeps(c, s, l) ==
  /\ conn' = c /\ late' = l /\ state' = s
  /\ UNCHANGED kept
  /\ Return("error")

\* Perl: nscang_client_free().  Python: the exception is all.
GiveUp(c, s, l) ==
  /\ \/ /\ lang = "Perl"
        /\ Disconnect(c, s, l)
        /\ state' = "NONE"
        /\ UNCHANGED kept
     \/ /\ lang = "Python"
        /\ conn' = c /\ late' = l /\ state' = s
        /\ kept' = (c.io # "fresh")
  /\ Return("error")

\* Perl's command() and its other failures, and second ones, are final.
Retries(err) ==
  /\ tries[calls] = 1
  /\ lang = "Perl" => kind[calls] = "result" /\ err = "TIMEOUT"

\* send_push or send_command returns 0, with the connections and the state.
Fail(err, c, s, l) == IF Retries(err) THEN Retry(c, s, l) ELSE GiveUp(c, s, l)

-----------------------------------------------------------------------------
(* A call.                                                                 *)

\* nscang_client_init(), by the constructor and, in Perl, after an error.
nscang_client_init == IF state = "NONE" THEN "NEW" ELSE state

\* has_timestamp_prefix(): strtol() does not reset errno, so that the test for
\* an error finds what an earlier call of anything has left there.
has_timestamp_prefix(stamp, errno) ==
  CASE stamp = "none" -> 0
    [] stamp = "well-formed" /\ ~errno -> 1
    [] OTHER -> -1

\* A call with valid arguments.  Commands may bring a time stamp.
Call(k, stamp) ==
  /\ pc = "idle" /\ calls < MaxCalls
  /\ k = "command" => lang = "Perl"
  /\ k = "result" => stamp = "none"
  /\ calls' = calls + 1
  /\ kind' = [kind EXCEPT ![calls + 1] = k]
  /\ \/ /\ \E errno \in BOOLEAN : has_timestamp_prefix(stamp, errno) >= 0
        /\ state' = nscang_client_init
        /\ tries' = [tries EXCEPT ![calls + 1] = 1]
        /\ pc' = "write" /\ req' = FirstRequest(state)
        /\ UNCHANGED <<conn, late, result>>
     \/ /\ \E errno \in BOOLEAN : has_timestamp_prefix(stamp, errno) < 0
        /\ Disconnect(conn, state, late)
        /\ state' = "NONE"
        /\ result' = [result EXCEPT ![calls + 1] = "error"]
        /\ UNCHANGED <<tries, pc, req>>
  /\ UNCHANGED <<lang, kept, queued>>

\* nscang_client_init() fails; in Perl the call croaks before it begins.
init_Fails ==
  /\ pc = "idle" /\ calls < MaxCalls
  /\ lang = "Perl" /\ state = "NONE"
  /\ calls' = calls + 1
  /\ \E k \in {"result", "command"} : kind' = [kind EXCEPT ![calls + 1] = k]
  /\ result' = [result EXCEPT ![calls + 1] = "error"]
  /\ UNCHANGED <<lang, state, pc, req, tries, kept, conn, late, queued>>

\* DESTROY in Perl, NSCAngNotifyer_dealloc in Python: nscang_client_free().
destroy ==
  /\ pc = "idle"
  /\ pc' = "gone"
  /\ state' = "NONE"
  /\ Disconnect(conn, state, late)
  /\ UNCHANGED <<lang, req, calls, kind, tries, result, kept, queued>>

Content == IF req = "DATA" THEN Data(calls) ELSE <<Line(req)>>

\* nscang_client_write(): it succeeds; there is no room, or the handshake takes
\* too long; or the connection is refused or broken.
nscang_client_write ==
  /\ pc = "write"
  /\ \/ /\ Open(conn)
        /\ conn' = Sent(conn, Content)
        /\ pc' = "read"
        /\ UNCHANGED <<state, req, tries, result, kept, late>>
     \/ /\ conn.io # "lost"
        /\ Fail("TIMEOUT",
                [conn EXCEPT !.io = IF @ = "fresh" THEN @ ELSE "stuck"],
                state, late)
     \/ /\ conn.io \in {"fresh", "lost"} \/ conn.session = "closed"
        /\ Fail("SSL", [conn EXCEPT !.io = "lost"], state, late)
  /\ UNCHANGED <<lang, calls, kind, queued>>

Proceed(next, s, c) ==
  /\ pc' = "write" /\ req' = next
  /\ state' = s /\ conn' = c
  /\ UNCHANGED <<tries, result, kept, late>>

Succeed(c) ==
  /\ Return(IF kept THEN "doubtful" ELSE "ok")
  /\ conn' = c
  /\ UNCHANGED <<state, kept, late>>

\* What is left of the message: sizeof(msg) is the size of a pointer.
SayBail(c) == {c} \cup IF Open(c) THEN {Sent(c, <<Line("BAIL")>>)} ELSE {}

\* The answers that make nscang_client_response() disconnect; what its callers
\* do with the state then finds it NEW.
Hangup(c, err) ==
  \E d \in nscang_client_disconnect(c, state, late) :
    Fail(err, d.conn, "NEW", d.late)

\* What nscang_client_response(), and its caller, make of an answer.
Handle(answer, c) ==
  CASE answer = "MOIN" /\ req = "MOIN" -> Proceed("PUSH", "MOIN", c)
    [] answer = "OKAY" /\ req = "PUSH" -> Proceed("DATA", state, c)
    [] answer = "OKAY" /\ req = "DATA" -> Succeed(c)
    [] answer = "FAIL" -> Fail("FAIL", c, state, late)
    [] answer = "version" -> Fail("BAD_PROTO_VERSION", c, state, late)
    [] answer = "BAIL" -> Hangup(c, "BAIL")
    [] answer = "other" -> \E d \in SayBail(c) : Hangup(d, "UNKNOWN_RESPONSE")
    [] OTHER -> Fail("PROTOCOL_MISMATCH", c, state, late)

\* What k answers that were read together are taken for: the first one, and the
\* others are dropped; but a version is compared with all that was read.
Answer(from, k) == IF k > 1 /\ Head(from) = "MOIN" THEN "version" ELSE Head(from)

\* nscang_client_response(): SSL_read returns one or several answers.
nscang_client_response ==
  /\ pc = "read"
  /\ \/ /\ conn.from # <<>>
        /\ \E k \in 1..Len(conn.from) :
             Handle(Answer(conn.from, k), [conn EXCEPT !.from = SubSeq(@, k + 1, Len(@))])
     \/ /\ conn.from = <<>>
        /\ Fail("TIMEOUT", conn, state, late)
     \/ /\ conn.from = <<>> /\ conn.session = "closed"
        /\ Fail("SSL", [conn EXCEPT !.io = "lost"], state, late)
  /\ UNCHANGED <<lang, calls, kind, queued>>

-----------------------------------------------------------------------------
(* The server, src/server/server.c: the connections that the next piece of  *)
(* input may leave, with the call whose command was queued, or 0.          *)

Outcome(c, session, answers, m) ==
  {[conn |-> [c EXCEPT !.to = IF session = "closed" THEN <<>> ELSE Tail(@),
                       !.session = session, !.from = @ \o answers],
    queue |-> m]}

\* To the line based handlers, a command without its end is the beginning of a
\* line that is not a request.
NotALine(p) == p.kw = "data" /\ p.part < DataSize

Otherwise(c, p) ==
  CASE p.kw = "QUIT" -> Outcome(c, "closed", <<"OKAY">>, 0)
    [] p.kw = "BAIL" -> Outcome(c, "closed", <<>>, 0)
    [] NotALine(p)   -> Outcome(c, c.session, <<>>, 0)
    [] OTHER         -> Outcome(c, c.session, <<"FAIL">>, 0)

\* A server that speaks another version may answer a MOIN differently.
handle_handshake(c, p) ==
  IF p.kw = "MOIN"
  THEN Outcome(c, "handle_connection", <<"MOIN">>, 0)
       \cup UNION {Outcome(c, c.session, <<a>>, 0) : a \in {"version", "other"}}
  ELSE Otherwise(c, p)

\* The server may refuse a command because of its size.
handle_connection(c, p) ==
  IF p.kw = "PUSH"
  THEN Outcome(c, "handle_push", <<"OKAY">>, 0)
       \cup Outcome(c, c.session, <<"FAIL">>, 0)
  ELSE Otherwise(c, p)

\* When the announced number of bytes is complete, is_authorized refuses what
\* is not one command, and may refuse a command.
handle_push(c, p) ==
  LET got == Append(c.input, p)
      done == [c EXCEPT !.input = <<>>]
  IN IF Len(got) < DataSize
     THEN Outcome([c EXCEPT !.input = got], c.session, <<>>, 0)
     ELSE Outcome(done, "handle_connection", <<"FAIL">>, 0)
          \cup UNION {Outcome(done, "handle_connection", <<"OKAY">>, m) :
                        m \in {m \in Calls : got = Data(m)}}

Serve(c) ==
  IF c.to = <<>> THEN {}
  ELSE CASE c.session = "handle_handshake"  -> handle_handshake(c, Head(c.to))
         [] c.session = "handle_connection" -> handle_connection(c, Head(c.to))
         [] c.session = "handle_push"       -> handle_push(c, Head(c.to))
         [] c.session = "closed"            -> {}

Queue(m) ==
  queued' = IF m = 0 THEN queued ELSE [queued EXCEPT ![m] = @ + 1]

clientVars == <<lang, state, pc, req, calls, kind, tries, result, kept>>

ServerStep ==
  /\ \E o \in Serve(conn) : conn' = o.conn /\ Queue(o.queue)
  /\ UNCHANGED <<clientVars, late>>

\* On a connection that the client has closed.
LateStep ==
  /\ \E i \in 1..Len(late) : \E o \in Serve(late[i]) :
       /\ late' = IF Finished(o.conn) THEN RemoveAt(late, i)
                  ELSE [late EXCEPT ![i] = [o.conn EXCEPT !.from = <<>>]]
       /\ Queue(o.queue)
  /\ UNCHANGED <<clientVars, conn>>

\* A timeout of the server.
ServerBail ==
  /\ conn.session # "closed" /\ conn.io # "fresh"
  /\ conn' = [conn EXCEPT !.session = "closed", !.to = <<>>, !.input = <<>>,
                          !.from = Append(@, "BAIL")]
  /\ UNCHANGED <<clientVars, late, queued>>

\* The connection breaks, or the server goes away: what is under way is lost.
Break ==
  /\ conn.session # "closed" /\ conn.io # "fresh"
  /\ conn' = [Fresh EXCEPT !.io = "lost", !.session = "closed"]
  /\ UNCHANGED <<clientVars, late, queued>>

LateBreak ==
  /\ \E i \in 1..Len(late) : late' = RemoveAt(late, i)
  /\ UNCHANGED <<clientVars, conn, queued>>

-----------------------------------------------------------------------------
Init ==
  /\ lang \in {"Perl", "Python"}
  /\ state = "NEW" /\ pc = "idle" /\ req = "MOIN"
  /\ calls = 0
  /\ kind = [m \in Calls |-> "none"]
  /\ tries = [m \in Calls |-> 0]
  /\ result = [m \in Calls |-> "none"]
  /\ kept = FALSE
  /\ conn = Fresh /\ late = <<>>
  /\ queued = [m \in Calls |-> 0]

ClientStep == nscang_client_write \/ nscang_client_response

Next ==
  \/ \E stamp \in {"none", "well-formed", "malformed"} :
       \E k \in {"result", "command"} : Call(k, stamp)
  \/ init_Fails \/ ClientStep \/ destroy
  \/ ServerStep \/ LateStep \/ ServerBail \/ Break \/ LateBreak

Spec == Init /\ [][Next]_vars

\* The calling process runs, and its clock does: nothing else is assumed.
FairSpec == Spec /\ WF_vars(ClientStep)

-----------------------------------------------------------------------------
(* The properties.                                                         *)

\* Type correctness of the client, and of each connection: it is the first one
\* or was opened by a disconnect, and the server's input is never complete.
TypeOK ==
  /\ lang \in {"Perl", "Python"}
  /\ state \in {"NONE", "NEW", "MOIN"} /\ (state = "NONE" => lang = "Perl" \/ pc = "gone")
  /\ pc \in {"idle", "write", "read", "gone"} /\ req \in {"MOIN", "PUSH", "DATA"}
  /\ calls \in 0..MaxCalls
  /\ kind \in [Calls -> {"none", "result", "command"}]
  /\ tries \in [Calls -> 0..2] /\ queued \in [Calls -> Nat]
  /\ result \in [Calls -> {"none", "ok", "doubtful", "error"}]
  /\ kept \in BOOLEAN /\ (kept => lang = "Python")
  /\ \A c \in Range(late) \cup {conn} :
       /\ c.io \in {"fresh", "up", "stuck", "lost"}
       /\ Range(c.to) \cup Range(c.input) \subseteq Pieces
       /\ Range(c.from) \subseteq Responses
       /\ c.session \in {"handle_handshake", "handle_connection", "handle_push",
                         "closed"}
       /\ Len(c.input) < DataSize
  /\ pc \in {"write", "read"} => (req # "MOIN" <=> state = "MOIN")

\* What a call reports is what the server did: success means that the command
\* was queued, unless a call that failed has left its connection behind, which
\* only Python's do; and although a timeout does not tell whether the server
\* has queued the command, it is queued at most once per attempt, that is
\* twice, and by Perl's command() once.
QueuedAsReported ==
  \A m \in Calls :
    /\ result[m] = "ok" => queued[m] >= 1
    /\ result[m] = "doubtful" => lang = "Python"
    /\ queued[m] <= tries[m]
    /\ tries[m] <= IF kind[m] = "command" THEN 1 ELSE 2

\* Between two calls that share a connection, no answer is outstanding which
\* could be taken for the answer to the next request, unless a failed call has
\* left one; only a BAIL may have come unasked.
InStep ==
  pc = "idle" /\ state = "MOIN" /\ ~kept =>
    /\ conn.to = <<>>
    /\ conn.from \in {<<>>, <<"BAIL">>}
    /\ conn.session \in {"handle_connection", "closed"}

\* Every call returns, whatever the server does: no wait is without a timeout,
\* and the number of attempts is limited.
CallReturns == (pc \in {"write", "read"}) ~> (pc = "idle")

=============================================================================
