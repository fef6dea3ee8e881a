-------------------------------- MODULE Fifo --------------------------------
(***************************************************************************)
(* The command file writer of the server, src/server/fifo.c.               *)
(*                                                                         *)
(* Monitoring commands accepted by the server are handed to Nagios through *)
(* a named pipe.  Nagios may be down, slow or restarted, so the writer     *)
(* queues data; and since only writes of at most PIPE_BUF bytes to a pipe  *)
(* are atomic, a larger backlog is dumped to a temporary file and Nagios   *)
(* is sent a PROCESS_FILE command that names the file.  The dump uses      *)
(* POSIX AIO where available (posix_aio) and otherwise an idle callback.   *)
(*                                                                         *)
(* The process is single threaded: a libev callback runs to completion, so *)
(* each callback is one action.  A C function that calls others is an      *)
(* operator from a state record to the SET of the states it may return in, *)
(* one for each outcome of the system calls it makes.                      *)
(***************************************************************************)
EXTENDS Integers, Sequences, FiniteSets, SequencesExt, Totals

CONSTANTS
  PIPE_BUF,       \* the size up to which a write to a pipe is atomic
  PipeCapacity,   \* how much the kernel buffers in the pipe
  MaxQueueSize,   \* fifo->max_queue_size, 0 for "unlimited"
  RefSize,        \* the size of a PROCESS_FILE command
  Sizes,          \* the sizes of the data pushed by clients
  MaxPush         \* bound: the number of calls of fifo_write by the server

ASSUME FifoAssumption ==
  /\ PIPE_BUF \in Nat /\ PipeCapacity \in Nat /\ MaxQueueSize \in Nat
  /\ RefSize \in 1..PIPE_BUF
  /\ Sizes \subseteq Nat \ {0} /\ IsFiniteSet(Sizes)
  /\ MaxPush \in Nat

(***************************************************************************)
(* The variables of the first group are the fields of struct fifo_state_s; *)
(* output = <<>> is the NULL pointer.  `aio' is the state of the request   *)
(* that the kernel was given in the field async_cb; `dump_fds' to          *)
(* `delivered' are the world outside, `pushed' and `lost' are history.     *)
(***************************************************************************)
VARIABLES
  posix_aio,       \* the build was configured with HAVE_POSIX_AIO
  running,         \* between fifo_start and fifo_stop
  output, output_size,
  output_buffer, buffer_size,
  fd,              \* "open" or "closed": the command file
  active,          \* the watchers that libev considers active
  aio_buf, aio,
  dump_file,       \* the number of the current dump file, 0 for NULL
  dump_fds,        \* the dump files the process holds open
  files,           \* the contents of the dump files ever created
  pipe,            \* what is in the named pipe
  nagios,          \* Nagios has the pipe open for reading
  inbox,           \* the lines of a dump file that Nagios is processing
  delivered,       \* what Nagios has processed
  pushed,          \* the number of pushes accepted from clients
  lost             \* what was dropped, and at which point of the code

fifoVars == <<output, output_size, output_buffer, buffer_size, fd, active,
              aio_buf, aio, dump_file, dump_fds, files, pipe, lost>>
vars == <<posix_aio, running, fifoVars, nagios, inbox, delivered, pushed>>

-----------------------------------------------------------------------------
(* The data: what a client pushed, or a reference to a dump file.          *)

Item == [kind : {"push", "ref"}, id : Nat, size : Nat \ {0}]

Push(n, size) == [kind |-> "push", id |-> n, size |-> size]

\* The reference names the file that is being closed.
make_process_file_command(s) ==
  [kind |-> "ref", id |-> s.dump_file, size |-> RefSize]

Watchers == {"open", "write", "async", "idle", "timeout"}

Reasons == {"purged", "mkstemp", "queue", "dump", "close", "torn", "hangup",
            "stopped"}

Dropped(q, why) == {[item |-> q[i], why |-> why] : i \in 1..Len(q)}

SizeOf(q) == Total([i \in 1..Len(q) |-> q[i].size])

\* The part of the state that fifo.c's functions change, as one value.
State ==
  [output |-> output, output_size |-> output_size,
   output_buffer |-> output_buffer, buffer_size |-> buffer_size,
   fd |-> fd, active |-> active, aio_buf |-> aio_buf, aio |-> aio,
   dump_file |-> dump_file, dump_fds |-> dump_fds, files |-> files,
   pipe |-> pipe, lost |-> lost]

Become(t) ==
  /\ output' = t.output
  /\ output_size' = t.output_size
  /\ output_buffer' = t.output_buffer
  /\ buffer_size' = t.buffer_size
  /\ fd' = t.fd
  /\ active' = t.active
  /\ aio_buf' = t.aio_buf
  /\ aio' = t.aio
  /\ dump_file' = t.dump_file
  /\ dump_fds' = t.dump_fds
  /\ files' = t.files
  /\ pipe' = t.pipe
  /\ lost' = t.lost

-----------------------------------------------------------------------------
(* Helpers of fifo.c.                                                      *)

buffers_are_empty(s) == s.output = <<>> /\ s.buffer_size = 0

\* Mutant: only the queue is compared with PIPE_BUF, not the zero-copied data.
buffers_exceed_IgnoresOutput(s) == s.buffer_size > PIPE_BUF

buffers_exceed_pipe_size(s) ==
  s.output_size > PIPE_BUF \/ s.buffer_size > PIPE_BUF

\* Mutant: the size of the freed data is left behind.
free_output_KeepsSize(s) == [s EXCEPT !.output = <<>>]

free_output(s) == [s EXCEPT !.output = <<>>, !.output_size = 0]

DropOutput(s, why) ==
  [free_output(s) EXCEPT !.lost = @ \cup Dropped(s.output, why)]

\* Mutant: the queue is copied in front of the data that is older than it.
join_buffers_Swapped(s) ==
  [s EXCEPT !.output = s.output_buffer \o s.output,
            !.output_size = s.output_size + s.buffer_size,
            !.output_buffer = <<>>, !.buffer_size = 0]

join_buffers(s) ==
  [s EXCEPT !.output = s.output \o s.output_buffer,
            !.output_size = s.output_size + s.buffer_size,
            !.output_buffer = <<>>, !.buffer_size = 0]

\* mkstemp(3) creates a file with a fresh name.
open_dump_file(s) ==
  [s EXCEPT !.files = Append(s.files, <<>>),
            !.dump_file = Len(s.files) + 1,
            !.dump_fds = @ \cup {Len(s.files) + 1}]

\* Mutant: the descriptor is forgotten, not closed.
close_dump_file_Leaks(s) == [s EXCEPT !.dump_file = 0]

\* Whether close(2) succeeds or fails, the descriptor is gone.
close_dump_file(s) ==
  [s EXCEPT !.dump_file = 0, !.dump_fds = @ \ {s.dump_file}]

-----------------------------------------------------------------------------
(* Writing to the command file.                                            *)

\* buffer_slurp(): an empty `output' takes over the whole queue.
Slurp(s) ==
  IF s.output # <<>> THEN s
  ELSE [s EXCEPT !.output = s.output_buffer, !.output_size = s.buffer_size,
                 !.output_buffer = <<>>, !.buffer_size = 0]

\* The pipe's contents vanish when neither end is open any more.
CloseCommandFile(s) ==
  LET t == [s EXCEPT !.fd = "closed"] IN
  IF nagios THEN t
  ELSE [t EXCEPT !.pipe = <<>>, !.lost = @ \cup Dropped(s.pipe, "hangup")]

\* Any other error than EAGAIN and EINTR; the data stays in `output'.
WriteFailed(s) ==
  [CloseCommandFile(s) EXCEPT !.active = (@ \ {"write"}) \cup {"open"}]

StopIfDrained(s) ==
  IF s.buffer_size = 0 THEN [s EXCEPT !.active = @ \ {"write"}] ELSE s

\* Mutant: the data is not freed after it was written.
WriteSucceeded_KeepsOutput(s) ==
  StopIfDrained([s EXCEPT !.pipe = @ \o s.output])

WriteSucceeded(s) ==
  StopIfDrained([free_output(s) EXCEPT !.pipe = @ \o s.output])

\* write(2) on a non-blocking pipe took only a part of more than PIPE_BUF
\* bytes; the code relies on this not to happen and frees all of `output'.
WriteTorn(s) == StopIfDrained(DropOutput(s, "torn"))

Fits(s) == SizeOf(s.pipe) + s.output_size <= PipeCapacity

\* One iteration of the loop: n, up to its sign, and the state after it.
\* Writing nothing succeeds; otherwise EAGAIN and EINTR leave everything as it
\* is, and without a reader there is EPIPE.
WriteOnce(s) ==
  LET t == Slurp(s)
      Outcome(n, next) == {[n |-> n, next |-> next]}
  IN IF t.output = <<>> THEN Outcome(0, WriteSucceeded(t))
     ELSE Outcome(-1, t)
          \cup IF ~nagios THEN Outcome(-1, WriteFailed(t))
               ELSE IF Fits(t) THEN Outcome(1, WriteSucceeded(t))
               ELSE IF t.output_size > PIPE_BUF THEN Outcome(1, WriteTorn(t))
               ELSE {}

\* The second iteration slurps the queue, so there never is a third.
write_cb(s) ==
  UNION {IF r.n > 0 /\ r.next.buffer_size > 0
         THEN {q.next : q \in WriteOnce(r.next)}
         ELSE {r.next} : r \in WriteOnce(s)}

-----------------------------------------------------------------------------
(* Dumping the queue to a file, and dispatch_data, which decides.          *)

\* The outcomes: mkstemp(3) fails, aio_write(3) fails, the request is queued.
async_dump_data(s) ==
  LET j == join_buffers(s)
      o == open_dump_file(j)
  IN {DropOutput(j, "mkstemp"),
      DropOutput(close_dump_file(o), "queue"),
      [free_output(o) EXCEPT !.active = @ \cup {"async"}, !.aio = "inflight",
                             !.aio_buf = o.output]}

\* Mutant: only the idle watcher is started, which a busy loop never runs.
StartDump_NoTimer(s) ==
  {[s EXCEPT !.active = (@ \ {"write"}) \cup {"idle"}]}

\* The backlog exceeds PIPE_BUF: it has to go through a file.
StartDump(s) ==
  LET t == [s EXCEPT !.active = @ \ {"write"}]
  IN CASE posix_aio /\ "async" \in s.active     -> {t}
       [] posix_aio /\ "async" \notin s.active  -> async_dump_data(t)
       [] ~posix_aio /\ "idle" \in s.active     -> {t}
       [] ~posix_aio /\ "idle" \notin s.active  ->
            {[t EXCEPT !.active = @ \cup {"idle", "timeout"}]}

\* Writing starts at once, "to minimize the risk of exceeding the PIPE_BUF
\* threshold".
dispatch_data(s) ==
  IF s.fd = "closed" THEN {s}
  ELSE IF buffers_exceed_pipe_size(s) THEN StartDump(s)
  ELSE IF "write" \in s.active THEN {s}
  ELSE write_cb([s EXCEPT !.active = @ \cup {"write"}])

\* Mutant: the queue is compared with its limit before the new data is added.
Purge_OffByOne(s, size) ==
  IF MaxQueueSize > 0 /\ s.buffer_size > MaxQueueSize
  THEN [s EXCEPT !.output_buffer = <<>>, !.buffer_size = 0,
                 !.lost = @ \cup Dropped(s.output_buffer, "purged")]
  ELSE s

Purge(s, size) ==
  IF MaxQueueSize > 0 /\ s.buffer_size + size > MaxQueueSize
  THEN [s EXCEPT !.output_buffer = <<>>, !.buffer_size = 0,
                 !.lost = @ \cup Dropped(s.output_buffer, "purged")]
  ELSE s

\* Every caller passes a free_data function, so an empty writer zero-copies.
fifo_write(s, item) ==
  IF buffers_are_empty(s)
  THEN dispatch_data([s EXCEPT !.output = <<item>>, !.output_size = item.size])
  ELSE LET p == Purge(s, item.size)
       IN dispatch_data([p EXCEPT !.output_buffer = Append(@, item),
                                  !.buffer_size = @ + item.size])

\* The dump is complete: close the file and tell Nagios about it, unless
\* close(2) fails.
Announce(s) ==
  LET ref == make_process_file_command(s)
      c == close_dump_file(s)
  IN fifo_write(c, ref)
     \cup {[c EXCEPT !.lost = @ \cup Dropped(<<ref>>, "close")]}

\* Mutant: async_cb does not look at what was queued during the request.
Redispatch_Forgotten(s) == {s}

Redispatch(s) == IF buffers_exceed_pipe_size(s) THEN dispatch_data(s) ELSE {s}

\* A failed request leaves the dump file open, and its name allocated.
async_cb(s) ==
  LET r == [s EXCEPT !.active = @ \ {"async"}, !.aio = "none",
                     !.aio_buf = <<>>]
  IN IF s.aio = "failed"
     THEN Redispatch([r EXCEPT !.lost = @ \cup Dropped(s.aio_buf, "dump")])
     ELSE UNION {Redispatch(t) :
                   t \in Announce([r EXCEPT !.files[s.dump_file] = s.aio_buf])}

\* The outcomes: mkstemp(3) fails, write(2) fails, the file is complete.
sync_dump_data(s) ==
  LET j == join_buffers(s)
      o == open_dump_file(j)
      complete == {[free_output(o) EXCEPT !.files[o.dump_file] = o.output]}
  IN {DropOutput(j, "mkstemp")}
     \cup (IF j.output = <<>> THEN {}
           ELSE {DropOutput(close_dump_file(o), "dump")})
     \cup UNION {Announce(w) : w \in complete}

idle_cb(s) ==
  sync_dump_data([s EXCEPT !.active = @ \ {"idle", "timeout"}])

\* Opening fails without a reader (ENXIO) and for other reasons; the timer is
\* a one-shot one and is started again.
open_cb(s) ==
  LET opened == [s EXCEPT !.fd = "open", !.active = @ \ {"open"}]
  IN {[s EXCEPT !.active = @ \cup {"open"}]}
     \cup IF ~nagios THEN {}
          ELSE IF buffers_are_empty(s) THEN {opened} ELSE dispatch_data(opened)

-----------------------------------------------------------------------------
(* The actions.                                                            *)

Init ==
  /\ posix_aio \in BOOLEAN
  /\ running = FALSE
  /\ output = <<>> /\ output_size = 0
  /\ output_buffer = <<>> /\ buffer_size = 0
  /\ fd = "closed" /\ active = {}
  /\ aio_buf = <<>> /\ aio = "none"
  /\ dump_file = 0 /\ dump_fds = {} /\ files = <<>>
  /\ pipe = <<>>
  /\ nagios \in BOOLEAN
  /\ inbox = <<>> /\ delivered = {}
  /\ pushed = 0
  /\ lost = {}

worldVars == <<posix_aio, nagios, inbox, delivered>>

\* fifo_start(): all fields are reset, then open_cb is invoked.
fifo_start ==
  /\ ~running
  /\ running' = TRUE
  /\ \E t \in open_cb(State) : Become(t)
  /\ UNCHANGED <<worldVars, pushed>>

\* The server hands over the data of a PUSH request.
ServerPush ==
  /\ running
  /\ pushed < MaxPush
  /\ pushed' = pushed + 1
  /\ \E size \in Sizes :
       \E t \in fifo_write(State, Push(pushed + 1, size)) : Become(t)
  /\ UNCHANGED <<running, worldVars>>

\* A timer, an I/O, an async, an idle watcher fires.
Callback(watcher, callback(_)) ==
  /\ running
  /\ watcher \in active
  /\ \E t \in callback(State) : Become(t)
  /\ UNCHANGED <<running, worldVars, pushed>>

OpenTimer    == Callback("open", open_cb)
WriteReady   == Callback("write", write_cb)
AsyncReady   == aio # "inflight" /\ Callback("async", async_cb)
IdleReady    == Callback("idle", idle_cb)
\* timeout_cb() invokes the callback of the idle watcher.
IdleTimeout  == Callback("timeout", idle_cb)

\* fifo_stop(), on SIGTERM and before the server re-executes itself on SIGHUP.
\* What is queued is dropped, and so is what an AIO request was to write: its
\* dump file will never be announced.
fifo_stop ==
  /\ running
  /\ running' = FALSE
  /\ Become([CloseCommandFile(State) EXCEPT
       !.output = <<>>, !.output_size = 0,
       !.output_buffer = <<>>, !.buffer_size = 0,
       !.active = {}, !.aio_buf = <<>>, !.aio = "none",
       !.dump_file = 0, !.dump_fds = {},
       !.lost = @ \cup Dropped(output \o output_buffer \o aio_buf, "stopped")])
  /\ UNCHANGED <<worldVars, pushed>>

\* External: the kernel completes the AIO request and sends SIG_AIO, whose
\* handler marks the async watcher pending.
AioComplete ==
  /\ aio = "inflight"
  /\ aio' \in {"written", "failed"}
  /\ UNCHANGED <<running, output, output_size, output_buffer, buffer_size, fd,
                 active, aio_buf, dump_file, dump_fds, files, pipe, lost,
                 worldVars, pushed>>

\* External: Nagios opens the pipe for reading.
NagiosStart ==
  /\ ~nagios
  /\ nagios' = TRUE
  /\ UNCHANGED <<posix_aio, running, fifoVars, inbox, delivered, pushed>>

\* External: Nagios exits.  What is left in the pipe survives as long as the
\* writer keeps its end open.
NagiosExit ==
  /\ nagios
  /\ nagios' = FALSE
  /\ inbox' = <<>>
  /\ pipe' = IF fd = "open" THEN pipe ELSE <<>>
  /\ lost' = lost \cup Dropped(inbox, "hangup")
                  \cup IF fd = "open" THEN {} ELSE Dropped(pipe, "hangup")
  /\ UNCHANGED <<running, output, output_size, output_buffer, buffer_size, fd,
                 active, aio_buf, aio, dump_file, dump_fds, files, delivered,
                 posix_aio, pushed>>

\* External: Nagios processes a command.  A PROCESS_FILE command makes it read
\* the file's lines first, and delete the file.
Process(item, rest) ==
  /\ delivered' = delivered \cup {item}
  /\ IF item.kind = "ref" /\ item.id \in DOMAIN files
     THEN /\ inbox' = files[item.id] \o rest
          /\ files' = [files EXCEPT ![item.id] = <<>>]
     ELSE inbox' = rest /\ UNCHANGED files

NagiosRead ==
  /\ nagios
  /\ \/ /\ inbox # <<>>
        /\ Process(Head(inbox), Tail(inbox))
        /\ UNCHANGED pipe
     \/ /\ inbox = <<>> /\ pipe # <<>>
        /\ Process(Head(pipe), <<>>)
        /\ pipe' = Tail(pipe)
  /\ UNCHANGED <<running, output, output_size, output_buffer, buffer_size, fd,
                 active, aio_buf, aio, dump_file, dump_fds, lost, nagios,
                 posix_aio, pushed>>

Next ==
  \/ fifo_start \/ ServerPush \/ fifo_stop
  \/ OpenTimer \/ WriteReady \/ AsyncReady \/ IdleReady \/ IdleTimeout
  \/ AioComplete \/ NagiosStart \/ NagiosExit \/ NagiosRead

\* libev runs the callbacks of the watchers that are ready, except that an
\* idle watcher waits until nothing else is; the kernel completes requests;
\* Nagios, while it runs, reads.  Pushes, stops and Nagios's coming and going
\* are nobody's obligation.
Fairness ==
  /\ WF_vars(OpenTimer) /\ WF_vars(WriteReady) /\ WF_vars(AsyncReady)
  /\ WF_vars(IdleTimeout) /\ WF_vars(AioComplete) /\ WF_vars(NagiosRead)

Spec == Init /\ [][Next]_vars
FairSpec == Spec /\ Fairness

-----------------------------------------------------------------------------
(* The properties.                                                         *)

\* The types of the fields; the size fields are 0 exactly for empty data, and
\* the async watcher is active exactly while a request is being handled.
TypeOK ==
  /\ posix_aio \in BOOLEAN
  /\ running \in BOOLEAN
  /\ output \in Seq(Item) /\ output_size \in Nat
  /\ output_buffer \in Seq(Item) /\ buffer_size \in Nat
  /\ fd \in {"open", "closed"}
  /\ active \subseteq Watchers
  /\ aio_buf \in Seq(Item)
  /\ aio \in {"none", "inflight", "written", "failed"}
  /\ dump_file \in Nat /\ dump_fds \subseteq Nat
  /\ files \in Seq(Seq(Item))
  /\ pipe \in Seq(Item)
  /\ nagios \in BOOLEAN
  /\ inbox \in Seq(Item) /\ delivered \subseteq Item
  /\ pushed \in Nat
  /\ lost \subseteq [item : Item, why : Reasons]
  /\ output = <<>> <=> output_size = 0
  /\ output_buffer = <<>> <=> buffer_size = 0
  /\ "async" \in active <=> aio # "none"

\* The queues a piece of data may be in, the dump files among them.
Queues == <<output, output_buffer, aio_buf, pipe, inbox>> \o files

Is(item, kind, id) == item.kind = kind /\ item.id = id

Count(q, kind, id) ==
  Total([i \in 1..Len(q) |-> IF Is(q[i], kind, id) THEN 1 ELSE 0])

\* How many copies of an item there are, the processed and the lost included.
Copies(kind, id) ==
  Total([i \in 1..Len(Queues) |-> Count(Queues[i], kind, id)])
  + Cardinality({item \in delivered : Is(item, kind, id)})
  + Cardinality({l \in lost : Is(l.item, kind, id)})

\* Whatever the order of pushes, AIO completions, write errors, Nagios
\* restarts and stops, a push that was accepted is in exactly one place: never
\* duplicated by moving it between `output', the queue, an AIO request, the
\* pipe and a dump file, and never dropped other than at the points of fifo.c
\* that drop data deliberately (recorded in `lost').
EachPushInOnePlace == \A n \in 1..pushed : Copies("push", n) = 1

\* Every dump file with contents is announced to Nagios exactly once, or the
\* announcement was dropped; an AIO request that failed announces nothing; and
\* Nagios never sees the name of a file that the server still has open
\* (close_dump_file comes before fifo_write).
DumpAnnouncedOnce ==
  /\ \A f \in 1..Len(files) :
       /\ Copies("ref", f) <= 1
       /\ files[f] # <<>> => Copies("ref", f) = 1
  /\ \A f \in dump_fds : Copies("ref", f) = 0

\* While write_cb may run, what it would write is at most PIPE_BUF bytes, now
\* and after slurping the queue: the comment in write_cb ("POSIX guarantees
\* n == fifo->output_size") rests on it, and nothing is ever torn.
AtomicWrites ==
  /\ "write" \in active => ~buffers_exceed_pipe_size(State)
  /\ \A l \in lost : l.why # "torn"

\* Data never sits in the queue with nobody left to move it: either the
\* command file is closed and the timer that reopens it is running, or the
\* write watcher is active, or the backlog is too large for it and a dump that
\* will look at the queue again is pending.
NothingStranded ==
  running =>
    /\ "open" \in active <=> fd = "closed"
    /\ fd = "open" /\ ~buffers_are_empty(State) =>
         \/ "write" \in active
         \/ /\ buffers_exceed_pipe_size(State)
            /\ "async" \in active \/ "idle" \in active
    /\ "idle" \in active <=> "timeout" \in active

\* What max_queue_size really bounds: the purge in fifo_write looks at the
\* queue alone, so the data waiting for Nagios may exceed the limit by what
\* `output' holds (one push, or one atomic write), but never by more, however
\* long Nagios is down and however failures interleave.
QueueBounded ==
  LET largest == Max(Sizes \cup {RefSize})
  IN MaxQueueSize > 0 =>
       SizeOf(output) + SizeOf(output_buffer)
         <= Max({MaxQueueSize, largest}) + Max({PIPE_BUF, largest})

Increasing(q) ==
  \A i, j \in 1..Len(q) :
    i < j /\ q[i].kind = "push" /\ q[j].kind = "push" => q[i].id < q[j].id

\* Pushes may be overtaken by later ones that fit into the pipe while they
\* wait in a dump file, but two pushes that take the same way never overtake
\* each other: the pipe, the data about to be written to it, and each dump
\* file hold them in the order in which they were accepted.
OrderKept ==
  /\ Increasing(pipe \o output \o output_buffer)
  /\ Increasing(aio_buf)
  /\ \A f \in 1..Len(files) : Increasing(files[f])

\* The dump files whose announcement is lost, directly or in another one.
Orphans ==
  LET refs(items) == {i.id : i \in {k \in items : k.kind = "ref"}}
      orphans[depth \in 0..Len(files)] ==
        IF depth = 0 THEN refs({l.item : l \in lost})
        ELSE LET outer == orphans[depth - 1]
             IN outer \cup UNION {refs(Range(files[f])) : f \in outer}
  IN orphans[Len(files)]

Settled(n) ==
  \/ \E item \in delivered : item.kind = "push" /\ item.id = n
  \/ \E l \in lost : l.item.kind = "push" /\ l.item.id = n
  \/ \E f \in Orphans : \E item \in Range(files[f]) :
       item.kind = "push" /\ item.id = n

\* If Nagios eventually stays up then no push waits forever: each is processed
\* or dropped, even if the event loop is never idle and even if more data
\* keeps arriving while a dump is under way.
EventuallySettled ==
  <>[]nagios => \A n \in 1..MaxPush : pushed >= n ~> Settled(n)

=============================================================================
