------------------------------ MODULE EndToEnd ------------------------------
(***************************************************************************)
(* send_nsca and the daemon, connected by a network: the client of module  *)
(* Client and the server of module Server, which both are the code, in     *)
(* place of the arbitrary peers these modules have.                        *)
(***************************************************************************)
EXTENDS Integers, Sequences, SequencesExt

CONSTANTS
  Contents,         \* what the user types, see module Client
  ClientTimeout,    \* the timeouts of the two sides, 0 for none
  ServerTimeout,
  OutCapacity, LINE_MAX_SIZE, LINE_BUFFER_SIZE, InputSize, MaxCommandSize,
  Unreliable,       \* the network may lose the connection
  MaxTyped          \* bound: how many pieces the user types

VARIABLES
  client,   \* send_nsca, the `conn' of module Client
  server,   \* the daemon's end, the `conn' of module Server
  typed     \* all that the user has typed

vars == <<client, server, typed>>

C == INSTANCE Client
       WITH conn <- client, said <- <<>>, taken <- <<>>,
            Timeout <- ClientTimeout, AutoDie <- TRUE,
            InitialHandshake <- <<"send", "recv", "send">>,
            Responses <- {}, MaxSaid <- 0

S == INSTANCE Server
       WITH conn <- server, sent <- <<>>, heard <- <<>>, parts <- 0,
            greetings <- 0, hello <- "idle",
            Timeout <- ServerTimeout, AutoDie <- FALSE,
            InitialHandshake <- <<"recv", "send", "recv">>,
            Requests <- {}, Data <- {}, Pipelining <- FALSE,
            MaxSent <- 0, MaxParts <- 0, MaxHandshakes <- 1

Init == C!Init /\ S!Init

Client == C!ClientNext /\ UNCHANGED server

User == C!Type /\ UNCHANGED server

Accept ==
  /\ client.link = "up"
  /\ S!accept_tcp_cb
  /\ UNCHANGED <<client, typed>>

Server ==
  /\ S!InvokeIo \/ S!InvokeTimeout \/ S!Poll
  /\ UNCHANGED <<client, typed>>

-----------------------------------------------------------------------------
(* The network.                                                            *)

\* A record holds a message of the handshake, an alert, or one or two pieces.
Alone == {C!HS, C!CloseNotify}

RecordSizes(out) ==
  {n \in 1..2 : /\ n <= Len(out)
                /\ n = 2 => Range(SubSeq(out, 1, 2)) \cap Alone = {}}

Sent(from, n) == [from EXCEPT !.out = SubSeq(@, n + 1, Len(@))]

Received(to, record) == [to EXCEPT !.in = Append(@, record)]

ToServer ==
  /\ server.tls = "live" /\ server.link = "up"
  /\ \E n \in RecordSizes(client.out) :
       /\ client' = Sent(client, n)
       /\ server' = Received(server, SubSeq(client.out, 1, n))
  /\ UNCHANGED typed

ToClient ==
  /\ client.tls = "live" /\ client.process = "running" /\ client.link = "up"
  /\ \E n \in RecordSizes(server.out) :
       /\ server' = Sent(server, n)
       /\ client' = Received(client, SubSeq(server.out, 1, n))
  /\ UNCHANGED typed

\* The socket of an end that is gone is closed: the other end notices.
ClientGone == client.process # "running" \/ client.tls = "freed"
ServerGone == server.tls = "freed"

Reset(conn) == [conn EXCEPT !.link = "reset"]

\* Each end may be told at another time.
ConnectionReset ==
  /\ client.link \in {"up", "reset"}
  /\ \/ /\ Unreliable \/ ServerGone
        /\ client.process = "running" /\ client.link = "up"
        /\ client' = Reset(client) /\ UNCHANGED server
     \/ /\ Unreliable \/ ClientGone
        /\ server.tls = "live" /\ server.link = "up"
        /\ server' = Reset(server) /\ UNCHANGED client
  /\ UNCHANGED typed

Connect == C!Connect /\ UNCHANGED server

Next ==
  \/ Client \/ User \/ Accept \/ Server
  \/ Connect \/ ToServer \/ ToClient \/ ConnectionReset

Spec == Init /\ [][Next]_vars

\* The event loops have something to do.
ClientBusy ==
  /\ client.process = "running"
  /\ \/ client.client = "none" \/ client.pending # <<>> \/ "due" \in client.timer
     \/ C!PollEnds \/ client.active = {}

ServerBusy ==
  /\ server.process = "running" /\ server.tls = "live"
  /\ server.pending # <<>> \/ "due" \in server.timer \/ S!PollEnds

\* Both event loops run (weak fairness, with the enabling conditions written
\* out), the network delivers, and an end that is gone is noticed.
FairSpec ==
  /\ Spec
  /\ []<>~ClientBusy \/ []<><<Client>>_vars
  /\ []<>~ServerBusy \/ []<><<Server>>_vars
  /\ WF_vars(Accept) /\ WF_vars(Connect)
  /\ WF_vars(ToServer) /\ WF_vars(ToClient)
  /\ []<>~((ServerGone /\ client.process = "running" /\ client.link = "up")
             \/ (ClientGone /\ server.tls = "live" /\ server.link = "up"))
       \/ []<><<ConnectionReset>>_vars

-----------------------------------------------------------------------------
(* The properties.                                                         *)

\* The commands the user typed, as they are to arrive.
Commands ==
  [i \in DOMAIN C!TypedChunks |-> C!parse_check_result(C!TypedChunks[i].arg)]

\* Whatever is lost or cut off with the connection, the daemon queues the
\* commands in the order of the input, each at most once and unmixed.
QueuedInOrder == IsPrefix(server.queued, Commands)

\* send_nsca ends with status 0 only if the daemon has queued every command
\* of the input.
SuccessMeansQueued ==
  client.process = "exited" /\ client.exit_code = "SUCCESS" =>
    server.queued = Commands


\* Without timeouts, when the input has come to its end both ends finish: no
\* exchange, the mutual shutdown included, leaves each waiting for the other.
BothFinish ==
  (C!EndOfFile \in Range(typed))
    ~> (client.process # "running" /\ server.tls \in {"freed", "none"})

=============================================================================
