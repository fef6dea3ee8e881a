----------------------------- MODULE FifoProofs -----------------------------
(***************************************************************************)
(* Machine-checked proofs about Fifo, for every value of its constants.    *)
(*                                                                         *)
(* The argument.  dispatch_data is the only place that decides how queued  *)
(* data moves on, and every callback that adds data or opens the command   *)
(* file ends in it.  `Base' is what holds whenever dispatch_data is        *)
(* called; `Good' adds what it establishes: the write watcher is active    *)
(* only for data that is written atomically, and data in the queue of an   *)
(* open command file has somebody left to move it.  Each C function is     *)
(* shown to lead from Base or Good states to Good states.                  *)
(***************************************************************************)
EXTENDS Fifo, TotalsProofs, SequenceTheorems, TLAPS

Losses == [item : Item, why : Reasons \ {"torn"}]

StateSet ==
  [output : Seq(Item), output_size : Nat,
   output_buffer : Seq(Item), buffer_size : Nat,
   fd : {"open", "closed"}, active : SUBSET Watchers,
   aio_buf : Seq(Item), aio : {"none", "inflight", "written", "failed"},
   dump_file : Nat, dump_fds : SUBSET Nat, files : Seq(Seq(Item)),
   pipe : Seq(Item), lost : SUBSET Losses]

Typed(s) ==
  /\ s \in StateSet
  /\ s.output = <<>> <=> s.output_size = 0
  /\ s.output_buffer = <<>> <=> s.buffer_size = 0
  /\ "async" \in s.active <=> s.aio # "none"
  /\ "idle" \in s.active <=> "timeout" \in s.active
  /\ "async" \in s.active => posix_aio
  /\ "idle" \in s.active => ~posix_aio

\* What holds whenever dispatch_data is called.
Base(s) ==
  /\ Typed(s)
  /\ "write" \in s.active => s.fd = "open"
  /\ "open" \in s.active <=> s.fd = "closed"

\* What holds between two callbacks.
Good(s) ==
  /\ Base(s)
  /\ "write" \in s.active => ~buffers_exceed_pipe_size(s)
  /\ s.fd = "open" /\ ~buffers_are_empty(s) =>
       \/ "write" \in s.active
       \/ /\ buffers_exceed_pipe_size(s)
          /\ "async" \in s.active \/ "idle" \in s.active

\* The writer has not been started, or has been stopped.
Stopped(s) ==
  /\ Typed(s)
  /\ s.output = <<>> /\ s.output_buffer = <<>>
  /\ s.fd = "closed" /\ s.active = {}

\* The inductive invariant.
Inv ==
  /\ TypeOK
  /\ running => Good(State)
  /\ ~running => Stopped(State)

-----------------------------------------------------------------------------
(* Facts about sequences and about the helpers.                            *)

\* A concatenation is empty only if both parts are.
LEMMA ConcatEmpty ==
  ASSUME NEW S, NEW p \in Seq(S), NEW q \in Seq(S)
  PROVE  p \o q \in Seq(S) /\ (p \o q = <<>> <=> p = <<>> /\ q = <<>>)
  BY ConcatProperties, EmptySeq

\* An appended element makes a sequence non-empty.
LEMMA AppendNotEmpty ==
  ASSUME NEW S, NEW q \in Seq(S), NEW e \in S
  PROVE  Append(q, e) \in Seq(S) /\ Append(q, e) # <<>>
  BY AppendProperties, EmptySeq

\* A piece of data on its own is a queue.
LEMMA SingletonSeq ==
  ASSUME NEW S, NEW e \in S
  PROVE  <<e>> \in Seq(S)
  OBVIOUS

\* What is dropped is recorded with one of the deliberate reasons.
LEMMA DroppedType ==
  ASSUME NEW q \in Seq(Item), NEW why \in Reasons \ {"torn"}
  PROVE  Dropped(q, why) \subseteq Losses
  BY DEF Dropped, Losses

\* The helpers keep the types, and leave the watchers alone.
LEMMA FreeOutput ==
  ASSUME NEW s, Typed(s)
  PROVE  Typed(free_output(s))
  BY EmptySeq DEF Typed, StateSet, free_output

\* Giving up the backlog keeps the types, and leaves the queue, the pipe and the
\* watchers alone.
LEMMA DropOutputType ==
  ASSUME NEW s, Typed(s), NEW why \in Reasons \ {"torn"}
  PROVE  LET t == DropOutput(s, why) IN
         /\ Typed(t)
         /\ t.output = <<>> /\ t.output_size = 0
         /\ t.output_buffer = s.output_buffer /\ t.buffer_size = s.buffer_size
         /\ t.fd = s.fd /\ t.active = s.active
<1>1. Dropped(s.output, why) \subseteq Losses
  BY DroppedType DEF Typed, StateSet
<1> QED
  BY <1>1, EmptySeq DEF Typed, StateSet, DropOutput, free_output

\* join_buffers() keeps the types and empties the queue.
LEMMA JoinBuffers ==
  ASSUME NEW s, Typed(s)
  PROVE  LET t == join_buffers(s) IN
         /\ Typed(t)
         /\ t.output_buffer = <<>> /\ t.buffer_size = 0
         /\ t.fd = s.fd /\ t.active = s.active /\ t.aio = s.aio
<1>1. /\ s.output \o s.output_buffer \in Seq(Item)
      /\ s.output \o s.output_buffer = <<>> <=>
           s.output = <<>> /\ s.output_buffer = <<>>
  BY ConcatEmpty DEF Typed, StateSet
<1>2. s.output_size + s.buffer_size \in Nat
      /\ (s.output_size + s.buffer_size = 0 <=>
            s.output_size = 0 /\ s.buffer_size = 0)
  BY DEF Typed, StateSet
<1> QED
  BY <1>1, <1>2, EmptySeq DEF Typed, StateSet, join_buffers

\* open_dump_file() keeps the types and leaves data, pipe and watchers alone.
LEMMA OpenDumpFile ==
  ASSUME NEW s, Typed(s)
  PROVE  LET t == open_dump_file(s) IN
         /\ Typed(t)
         /\ t.output = s.output /\ t.output_size = s.output_size
         /\ t.output_buffer = s.output_buffer /\ t.buffer_size = s.buffer_size
         /\ t.fd = s.fd /\ t.active = s.active /\ t.aio = s.aio
<1>1. Append(s.files, <<>>) \in Seq(Seq(Item)) /\ Len(s.files) \in Nat
  BY EmptySeq, AppendProperties, LenProperties DEF Typed, StateSet
<1>2. Len(s.files) + 1 \in Nat
      /\ s.dump_fds \cup {Len(s.files) + 1} \in SUBSET Nat
  BY <1>1 DEF Typed, StateSet
<1> QED
  BY <1>1, <1>2 DEF Typed, StateSet, open_dump_file

\* So does close_dump_file().
LEMMA CloseDumpFile ==
  ASSUME NEW s, Typed(s)
  PROVE  LET t == close_dump_file(s) IN
         /\ Typed(t)
         /\ t.output = s.output /\ t.output_size = s.output_size
         /\ t.output_buffer = s.output_buffer /\ t.buffer_size = s.buffer_size
         /\ t.fd = s.fd /\ t.active = s.active /\ t.aio = s.aio
  BY DEF Typed, StateSet, close_dump_file

-----------------------------------------------------------------------------
(* Writing.                                                                *)

\* What holds whenever write_cb is invoked.
Writing(s) ==
  /\ Base(s)
  /\ "write" \in s.active
  /\ ~buffers_exceed_pipe_size(s)

\* The write watcher is among those that move data on.
LEMMA WritingIsGood ==
  ASSUME NEW s, Writing(s)
  PROVE  Good(s)
  BY DEF Writing, Good

\* Slurping a queue of at most PIPE_BUF bytes leaves no more than that to write.
LEMMA SlurpWriting ==
  ASSUME NEW s, Writing(s)
  PROVE  LET t == Slurp(s) IN
         /\ Writing(t)
         /\ t.output = <<>> \/ s.output = <<>> =>
              t.output_buffer = <<>> /\ t.buffer_size = 0
<1>1. CASE s.output # <<>>
  BY <1>1 DEF Slurp
<1>2. CASE s.output = <<>>
  BY <1>2, EmptySeq, FifoAssumption
     DEF Slurp, Writing, Base, Typed, StateSet, buffers_exceed_pipe_size
<1> QED
  BY <1>1, <1>2

\* After an error the reopen timer is active and nothing else writes.
LEMMA WriteFailedGood ==
  ASSUME NEW s, Writing(s)
  PROVE  LET t == WriteFailed(s) IN
         Good(t) /\ t.buffer_size = s.buffer_size
<1> DEFINE c == CloseCommandFile(s)
<1>1. Dropped(s.pipe, "hangup") \subseteq Losses
  BY DroppedType DEF Writing, Base, Typed, StateSet, Reasons
<1>2. /\ c \in StateSet /\ c.fd = "closed" /\ c.active = s.active
      /\ c.output = s.output /\ c.output_size = s.output_size
      /\ c.output_buffer = s.output_buffer /\ c.buffer_size = s.buffer_size
      /\ c.aio = s.aio
  BY <1>1, EmptySeq DEF CloseCommandFile, Writing, Base, Typed, StateSet
<1> HIDE DEF c
<1>3. /\ (c.active \ {"write"}) \cup {"open"} \in SUBSET Watchers
      /\ WriteFailed(s) =
           [c EXCEPT !.active = (c.active \ {"write"}) \cup {"open"}]
  BY <1>2 DEF StateSet, Watchers, WriteFailed, c
<1>4. LET t == WriteFailed(s) IN
      /\ t \in StateSet /\ t.fd = "closed"
      /\ t.active = (s.active \ {"write"}) \cup {"open"}
      /\ t.output = s.output /\ t.output_size = s.output_size
      /\ t.output_buffer = s.output_buffer /\ t.buffer_size = s.buffer_size
      /\ t.aio = s.aio
  BY <1>2, <1>3 DEF StateSet
<1> QED
  BY <1>4 DEF Good, Writing, Base, Typed

\* After a successful write, the watcher is active only if there is more.
LEMMA WriteSucceededGood ==
  ASSUME NEW s, Writing(s)
  PROVE  LET t == WriteSucceeded(s) IN
         /\ t.buffer_size = s.buffer_size /\ t.output = <<>>
         /\ t.buffer_size > 0 => Writing(t)
         /\ t.buffer_size = 0 => Good(t)
<1> DEFINE u == [free_output(s) EXCEPT !.pipe = @ \o s.output]
<1>1. s.pipe \o s.output \in Seq(Item)
  BY ConcatProperties DEF Writing, Base, Typed, StateSet
<1>2. /\ u \in StateSet /\ u.fd = s.fd /\ u.active = s.active
      /\ u.output = <<>> /\ u.output_size = 0
      /\ u.output_buffer = s.output_buffer /\ u.buffer_size = s.buffer_size
      /\ u.aio = s.aio
  BY <1>1, EmptySeq DEF free_output, Writing, Base, Typed, StateSet
<1>3. WriteSucceeded(s) = StopIfDrained(u)
  BY DEF WriteSucceeded
<1> HIDE DEF u
<1>4. u.buffer_size \in Nat
  BY <1>2 DEF StateSet
<1>5. CASE u.buffer_size = 0
  <2> DEFINE t == [u EXCEPT !.active = @ \ {"write"}]
  <2>1. WriteSucceeded(s) = t
    BY <1>3, <1>5 DEF StopIfDrained
  <2>2. /\ t \in StateSet /\ t.fd = u.fd /\ t.active = u.active \ {"write"}
        /\ t.output = <<>> /\ t.output_size = 0
        /\ t.output_buffer = u.output_buffer /\ t.buffer_size = 0
        /\ t.aio = u.aio
    BY <1>2, <1>5 DEF StateSet
  <2> HIDE DEF t
  <2>3. Typed(t)
    BY <1>2, <1>5, <2>2 DEF Writing, Base, Typed
  <2>4. Base(t)
    BY <1>2, <2>2, <2>3 DEF Writing, Base
  <2>5. Good(t)
    BY <2>2, <2>4 DEF Good, buffers_are_empty
  <2> QED
    BY <1>2, <1>5, <2>1, <2>2, <2>5
<1>6. CASE u.buffer_size # 0
  <2>1. WriteSucceeded(s) = u
    BY <1>3, <1>6 DEF StopIfDrained
  <2> QED
    BY <1>2, <1>4, <1>6, <2>1, FifoAssumption
       DEF Writing, Base, Typed, buffers_exceed_pipe_size
<1> QED
  BY <1>5, <1>6

\* One iteration of write_cb.
LEMMA WriteOnceGood ==
  ASSUME NEW s, Writing(s), nagios \in BOOLEAN, NEW r \in WriteOnce(s)
  PROVE  /\ r.n > 0 /\ r.next.buffer_size > 0 => Writing(r.next)
         /\ ~(r.n > 0 /\ r.next.buffer_size > 0) => Good(r.next)
         /\ s.output = <<>> => r.next.buffer_size = 0
         /\ r.n > 0 => r.next.output = <<>>
<1> DEFINE t == Slurp(s)
<1>1. /\ Writing(t)
      /\ t.output = <<>> \/ s.output = <<>> =>
           t.output_buffer = <<>> /\ t.buffer_size = 0
  BY SlurpWriting
<1>2. /\ t.output_size \in Nat /\ t.buffer_size \in Nat
      /\ ~(t.output_size > PIPE_BUF)
  BY <1>1 DEF Writing, Base, Typed, StateSet, buffers_exceed_pipe_size
<1>3. \/ r = [n |-> 0, next |-> WriteSucceeded(t)] /\ t.output = <<>>
      \/ r = [n |-> -1, next |-> t]
      \/ r = [n |-> -1, next |-> WriteFailed(t)]
      \/ r = [n |-> 1, next |-> WriteSucceeded(t)]
  BY <1>2, Zenon DEF WriteOnce
<1> HIDE DEF t
<1>4. Good(t) /\ Good(WriteFailed(t))
      /\ WriteFailed(t).buffer_size = t.buffer_size
  BY <1>1, WritingIsGood, WriteFailedGood
<1>5. /\ WriteSucceeded(t).buffer_size = t.buffer_size
      /\ WriteSucceeded(t).output = <<>>
      /\ WriteSucceeded(t).buffer_size > 0 => Writing(WriteSucceeded(t))
      /\ WriteSucceeded(t).buffer_size = 0 => Good(WriteSucceeded(t))
  BY <1>1, WriteSucceededGood
<1> QED
  BY <1>1, <1>2, <1>3, <1>4, <1>5

\* write_cb leaves a Good state, whatever its one or two writes return.
LEMMA WriteCbGood ==
  ASSUME NEW s, Writing(s), nagios \in BOOLEAN
  PROVE  \A t \in write_cb(s) : Good(t)
<1> SUFFICES ASSUME NEW t \in write_cb(s) PROVE Good(t)
  OBVIOUS
<1>1. PICK r \in WriteOnce(s) :
        t \in IF r.n > 0 /\ r.next.buffer_size > 0
              THEN {q.next : q \in WriteOnce(r.next)}
              ELSE {r.next}
  BY DEF write_cb
<1>2. CASE r.n > 0 /\ r.next.buffer_size > 0
  <2>1. PICK q \in WriteOnce(r.next) : t = q.next
    BY <1>1, <1>2
  <2>2. Writing(r.next)
    BY <1>2, WriteOnceGood
  <2>3. r.next.output = <<>>
    BY <1>2, WriteOnceGood
  <2> QED
    BY <2>1, <2>2, <2>3, WriteOnceGood
<1>3. CASE ~(r.n > 0 /\ r.next.buffer_size > 0)
  BY <1>1, <1>3, WriteOnceGood
<1> QED
  BY <1>2, <1>3

-----------------------------------------------------------------------------
(* Dumping and dispatching.                                                *)

\* Without data there is nothing to strand and nothing to tear.
LEMMA EmptyIsGood ==
  ASSUME NEW s, Base(s), s.output_size = 0, s.buffer_size = 0
  PROVE  Good(s)
<1>1. s.output = <<>>
  BY DEF Base, Typed
<1>2. ~buffers_exceed_pipe_size(s)
  BY FifoAssumption DEF buffers_exceed_pipe_size
<1> QED
  BY <1>1, <1>2 DEF Good, buffers_are_empty

\* async_dump_data takes all data, whether it loses it or queues it.
LEMMA AsyncDumpGood ==
  ASSUME NEW s, Base(s), "async" \notin s.active, posix_aio
  PROVE  \A t \in async_dump_data(s) : Good(t)
<1> DEFINE j == join_buffers(s)
           o == open_dump_file(j)
           c == close_dump_file(o)
           q == [free_output(o) EXCEPT !.active = @ \cup {"async"},
                                       !.aio = "inflight", !.aio_buf = o.output]
<1>1. /\ Typed(j) /\ j.buffer_size = 0 /\ j.output_buffer = <<>>
      /\ j.fd = s.fd /\ j.active = s.active
  BY JoinBuffers DEF Base
<1>2. /\ Typed(o) /\ o.buffer_size = 0 /\ o.output_buffer = <<>>
      /\ o.fd = s.fd /\ o.active = s.active
  BY <1>1, OpenDumpFile
<1>3. /\ Typed(c) /\ c.buffer_size = 0 /\ c.fd = s.fd /\ c.active = s.active
  BY <1>2, CloseDumpFile
<1>4. Good(DropOutput(j, "mkstemp"))
  <2>1. "mkstemp" \in Reasons \ {"torn"}
    BY DEF Reasons
  <2> QED
    BY <1>1, <2>1, DropOutputType, EmptyIsGood DEF Base
<1>5. Good(DropOutput(c, "queue"))
  <2>1. "queue" \in Reasons \ {"torn"}
    BY DEF Reasons
  <2> QED
    BY <1>3, <2>1, DropOutputType, EmptyIsGood DEF Base
<1>6. Good(q)
  <2>1. /\ q \in StateSet /\ q.fd = o.fd /\ q.active = o.active \cup {"async"}
        /\ q.output = <<>> /\ q.output_size = 0
        /\ q.output_buffer = o.output_buffer /\ q.buffer_size = o.buffer_size
        /\ q.aio = "inflight"
    BY <1>2, EmptySeq DEF Typed, StateSet, free_output, Watchers
  <2> HIDE DEF q, o
  <2>2. Typed(q)
    BY <1>2, <2>1 DEF Typed
  <2>3. Base(q)
    BY <1>2, <2>1, <2>2 DEF Base
  <2> QED
    BY <1>2, <2>1, <2>3, EmptyIsGood
<1> QED
  BY <1>4, <1>5, <1>6, Zenon DEF async_dump_data

\* StartDump stops the write watcher and makes sure that a dump is pending.
LEMMA StartDumpGood ==
  ASSUME NEW s, Base(s), buffers_exceed_pipe_size(s)
  PROVE  \A u \in StartDump(s) : Good(u)
<1> DEFINE t == [s EXCEPT !.active = @ \ {"write"}]
           i == [t EXCEPT !.active = @ \cup {"idle", "timeout"}]
<1>1. /\ t \in StateSet /\ t.fd = s.fd /\ t.active = s.active \ {"write"}
      /\ t.output = s.output /\ t.output_size = s.output_size
      /\ t.output_buffer = s.output_buffer /\ t.buffer_size = s.buffer_size
      /\ t.aio = s.aio
  BY DEF Base, Typed, StateSet
<1>2. /\ i \in StateSet /\ i.fd = s.fd
      /\ i.active = (s.active \ {"write"}) \cup {"idle", "timeout"}
      /\ i.output = s.output /\ i.output_size = s.output_size
      /\ i.output_buffer = s.output_buffer /\ i.buffer_size = s.buffer_size
      /\ i.aio = s.aio
  BY <1>1 DEF StateSet, Watchers
<1>3. StartDump(s) =
        CASE posix_aio /\ "async" \in s.active    -> {t}
          [] posix_aio /\ "async" \notin s.active -> async_dump_data(t)
          [] ~posix_aio /\ "idle" \in s.active    -> {t}
          [] ~posix_aio /\ "idle" \notin s.active -> {i}
  BY Zenon DEF StartDump
<1> HIDE DEF t, i
<1>4. Base(t)
  <2>1. Typed(t)
    BY <1>1 DEF Base, Typed
  <2> QED
    BY <1>1, <2>1 DEF Base
<1>5. ASSUME ~posix_aio PROVE Base(i)
  <2>1. Typed(i)
    BY <1>2, <1>5 DEF Base, Typed
  <2> QED
    BY <1>2, <2>1 DEF Base
<1>6. CASE "async" \in s.active /\ posix_aio
  BY <1>1, <1>3, <1>4, <1>6 DEF Good, buffers_exceed_pipe_size
<1>7. CASE "async" \notin s.active /\ posix_aio
  BY <1>1, <1>3, <1>4, <1>7, AsyncDumpGood
<1>8. CASE "idle" \in s.active /\ ~posix_aio
  BY <1>1, <1>3, <1>4, <1>8 DEF Good, buffers_exceed_pipe_size
<1>9. CASE "idle" \notin s.active /\ ~posix_aio
  BY <1>2, <1>3, <1>5, <1>9 DEF Good, buffers_exceed_pipe_size
<1> QED
  BY <1>6, <1>7, <1>8, <1>9, FifoAssumption

\* dispatch_data establishes Good from any Base state.
LEMMA DispatchGood ==
  ASSUME NEW s, Base(s), nagios \in BOOLEAN
  PROVE  \A t \in dispatch_data(s) : Good(t)
<1>1. CASE s.fd = "closed"
  BY <1>1 DEF dispatch_data, Good, Base
<1>2. CASE s.fd # "closed" /\ buffers_exceed_pipe_size(s)
  BY <1>2, StartDumpGood DEF dispatch_data
<1>3. CASE /\ s.fd # "closed" /\ ~buffers_exceed_pipe_size(s)
           /\ "write" \in s.active
  BY <1>3 DEF dispatch_data, Good
<1>4. CASE /\ s.fd # "closed" /\ ~buffers_exceed_pipe_size(s)
           /\ "write" \notin s.active
  <2> DEFINE t == [s EXCEPT !.active = @ \cup {"write"}]
  <2>1. /\ t \in StateSet /\ t.fd = s.fd /\ t.active = s.active \cup {"write"}
        /\ t.output = s.output /\ t.output_size = s.output_size
        /\ t.output_buffer = s.output_buffer /\ t.buffer_size = s.buffer_size
        /\ t.aio = s.aio
    BY DEF Base, Typed, StateSet, Watchers
  <2>2. dispatch_data(s) = write_cb(t)
    BY <1>4, Zenon DEF dispatch_data
  <2>3. s.fd = "open"
    BY <1>4 DEF Base, Typed, StateSet
  <2> HIDE DEF t
  <2>4. Typed(t)
    BY <2>1 DEF Base, Typed
  <2>5. Base(t)
    BY <2>1, <2>3, <2>4 DEF Base
  <2>6. Writing(t)
    BY <1>4, <2>1, <2>5 DEF Writing, buffers_exceed_pipe_size
  <2> QED
    BY <2>2, <2>6, WriteCbGood
<1> QED
  BY <1>1, <1>2, <1>3, <1>4

\* fifo_write only needs a Base state: it ends in dispatch_data.
LEMMA FifoWriteGood ==
  ASSUME NEW s, Base(s), nagios \in BOOLEAN, NEW item \in Item
  PROVE  \A t \in fifo_write(s, item) : Good(t)
<1>1. item.size \in Nat /\ item.size # 0
  BY DEF Item
<1>2. CASE buffers_are_empty(s)
  <2> DEFINE u == [s EXCEPT !.output = <<item>>, !.output_size = item.size]
  <2>1. <<item>> \in Seq(Item) /\ <<item>> # <<>>
    BY AppendNotEmpty, EmptySeq
  <2>2. /\ u \in StateSet /\ u.fd = s.fd /\ u.active = s.active
        /\ u.output = <<item>> /\ u.output_size = item.size
        /\ u.output_buffer = s.output_buffer /\ u.buffer_size = s.buffer_size
        /\ u.aio = s.aio
    BY <1>1, <2>1 DEF Base, Typed, StateSet
  <2>3. fifo_write(s, item) = dispatch_data(u)
    BY <1>2, Zenon DEF fifo_write
  <2> HIDE DEF u
  <2>4. Base(u)
    BY <1>1, <2>1, <2>2 DEF Base, Typed
  <2> QED
    BY <2>3, <2>4, DispatchGood
<1>3. CASE ~buffers_are_empty(s)
  <2> DEFINE p == Purge(s, item.size)
             u == [p EXCEPT !.output_buffer = Append(@, item),
                            !.buffer_size = @ + item.size]
  <2>1. "purged" \in Reasons \ {"torn"}
    BY DEF Reasons
  <2>2. Dropped(s.output_buffer, "purged") \subseteq Losses
    BY <2>1, DroppedType DEF Base, Typed, StateSet
  <2>3. /\ p \in StateSet /\ p.fd = s.fd /\ p.active = s.active
        /\ p.output = s.output /\ p.output_size = s.output_size
        /\ p.aio = s.aio
    BY <2>2, EmptySeq DEF Purge, Base, Typed, StateSet
  <2>4. fifo_write(s, item) = dispatch_data(u)
    BY <1>3, Zenon DEF fifo_write
  <2> HIDE DEF p
  <2>5. /\ Append(p.output_buffer, item) \in Seq(Item)
        /\ Append(p.output_buffer, item) # <<>>
        /\ p.buffer_size + item.size \in Nat
        /\ p.buffer_size + item.size # 0
    <3>1. p.output_buffer \in Seq(Item) /\ p.buffer_size \in Nat
      BY <2>3 DEF StateSet
    <3>2. /\ Append(p.output_buffer, item) \in Seq(Item)
          /\ Append(p.output_buffer, item) # <<>>
      BY <3>1, AppendNotEmpty
    <3> QED
      BY <1>1, <3>1, <3>2
  <2>6. /\ u \in StateSet /\ u.fd = p.fd /\ u.active = p.active
        /\ u.output = p.output /\ u.output_size = p.output_size
        /\ u.output_buffer = Append(p.output_buffer, item)
        /\ u.buffer_size = p.buffer_size + item.size
        /\ u.aio = p.aio
    BY <2>3, <2>5 DEF StateSet
  <2> HIDE DEF u
  <2>7. Base(u)
    BY <2>3, <2>5, <2>6 DEF Base, Typed
  <2> QED
    BY <2>4, <2>7, DispatchGood
<1> QED
  BY <1>2, <1>3

\* What holds in async_cb after its watcher was stopped: only a backlog that
\* is too large for the write watcher may be without anybody to move it.
Pending(s) ==
  /\ Base(s)
  /\ "write" \in s.active => ~buffers_exceed_pipe_size(s)
  /\ s.fd = "open" /\ ~buffers_are_empty(s) =>
       "write" \in s.active \/ buffers_exceed_pipe_size(s)

\* A finished dump: the reference is queued like any data, or lost.
LEMMA AnnounceGood ==
  ASSUME NEW s, Base(s), nagios \in BOOLEAN, NEW t \in Announce(s)
  PROVE  /\ Pending(s) => Pending(t)
         /\ Good(s) => Good(t)
<1> DEFINE ref == make_process_file_command(s)
           c == close_dump_file(s)
           d == [c EXCEPT !.lost = @ \cup Dropped(<<ref>>, "close")]
<1>1. ref \in Item
  <2>1. s.dump_file \in Nat
    BY DEF Base, Typed, StateSet
  <2> QED
    BY <2>1, FifoAssumption DEF make_process_file_command, Item
<1>2. /\ Typed(c)
      /\ c.output = s.output /\ c.output_size = s.output_size
      /\ c.output_buffer = s.output_buffer /\ c.buffer_size = s.buffer_size
      /\ c.fd = s.fd /\ c.active = s.active /\ c.aio = s.aio
  BY CloseDumpFile DEF Base
<1>3. t \in fifo_write(c, ref) \/ t = d
  BY Zenon DEF Announce
<1> HIDE DEF ref, c
<1>4. Base(c)
  BY <1>2 DEF Base
<1>5. \A u \in fifo_write(c, ref) : Good(u)
  BY <1>1, <1>4, FifoWriteGood
<1>6. Dropped(<<ref>>, "close") \subseteq Losses
  <2>1. <<ref>> \in Seq(Item)
    BY <1>1, SingletonSeq
  <2>2. "close" \in Reasons \ {"torn"}
    BY DEF Reasons
  <2> QED
    BY <2>1, <2>2, DroppedType
<1>7. /\ d \in StateSet
      /\ d.output = s.output /\ d.output_size = s.output_size
      /\ d.output_buffer = s.output_buffer /\ d.buffer_size = s.buffer_size
      /\ d.fd = s.fd /\ d.active = s.active /\ d.aio = s.aio
  BY <1>2, <1>6 DEF Typed, StateSet
<1> HIDE DEF d
<1>8. Base(d)
  BY <1>7 DEF Base, Typed
<1>9. (Pending(s) => Pending(d)) /\ (Good(s) => Good(d))
  BY <1>7, <1>8
     DEF Pending, Good, buffers_are_empty, buffers_exceed_pipe_size
<1>10. \A u : Good(u) => Pending(u)
  BY DEF Good, Pending
<1> QED
  BY <1>3, <1>5, <1>9, <1>10

\* The last statement of async_cb.
LEMMA RedispatchGood ==
  ASSUME NEW s, Pending(s), nagios \in BOOLEAN
  PROVE  \A t \in Redispatch(s) : Good(t)
<1>1. CASE buffers_exceed_pipe_size(s)
  BY <1>1, DispatchGood DEF Redispatch, Pending
<1>2. CASE ~buffers_exceed_pipe_size(s)
  BY <1>2 DEF Redispatch, Pending, Good
<1> QED
  BY <1>1, <1>2

-----------------------------------------------------------------------------
(* The callbacks.                                                          *)

\* Storing the contents of a dump file, whichever number it has.
LEMMA StoreFile ==
  ASSUME NEW S, NEW q \in Seq(S), NEW k, NEW e \in S
  PROVE  [q EXCEPT ![k] = e] \in Seq(S)
<1>1. CASE k \in 1..Len(q)
  BY <1>1, ExceptSeq
<1>2. CASE k \notin 1..Len(q)
  <2>1. [q EXCEPT ![k] = e] = q
    BY <1>2, LenProperties
  <2> QED
    BY <2>1
<1> QED
  BY <1>1, <1>2

\* async_cb(), at the end of an AIO request, with the dispatch it ends in.
LEMMA AsyncCbGood ==
  ASSUME NEW s, Good(s), "async" \in s.active, nagios \in BOOLEAN
  PROVE  \A t \in async_cb(s) : Good(t)
<1> DEFINE r == [s EXCEPT !.active = @ \ {"async"}, !.aio = "none",
                          !.aio_buf = <<>>]
           f == [r EXCEPT !.lost = @ \cup Dropped(s.aio_buf, "dump")]
           w == [r EXCEPT !.files[s.dump_file] = s.aio_buf]
<1>1. /\ r \in StateSet /\ r.fd = s.fd /\ r.active = s.active \ {"async"}
      /\ r.output = s.output /\ r.output_size = s.output_size
      /\ r.output_buffer = s.output_buffer /\ r.buffer_size = s.buffer_size
      /\ r.aio = "none" /\ r.lost = s.lost /\ r.files = s.files
  BY EmptySeq DEF Good, Base, Typed, StateSet
<1>2. async_cb(s) = IF s.aio = "failed" THEN Redispatch(f)
                    ELSE UNION {Redispatch(t) : t \in Announce(w)}
  BY Zenon DEF async_cb
<1>3. Dropped(s.aio_buf, "dump") \subseteq Losses
  <2>1. "dump" \in Reasons \ {"torn"}
    BY DEF Reasons
  <2> QED
    BY <2>1, DroppedType DEF Good, Base, Typed, StateSet
<1>4. [r.files EXCEPT ![s.dump_file] = s.aio_buf] \in Seq(Seq(Item))
  <2>1. s.files \in Seq(Seq(Item)) /\ s.aio_buf \in Seq(Item)
    BY DEF Good, Base, Typed, StateSet
  <2> QED
    BY <1>1, <2>1, StoreFile
<1> HIDE DEF r
<1>5. /\ f \in StateSet /\ f.fd = r.fd /\ f.active = r.active
      /\ f.output = r.output /\ f.output_size = r.output_size
      /\ f.output_buffer = r.output_buffer /\ f.buffer_size = r.buffer_size
      /\ f.aio = r.aio
  BY <1>1, <1>3 DEF StateSet
<1>6. /\ w \in StateSet /\ w.fd = r.fd /\ w.active = r.active
      /\ w.output = r.output /\ w.output_size = r.output_size
      /\ w.output_buffer = r.output_buffer /\ w.buffer_size = r.buffer_size
      /\ w.aio = r.aio
  BY <1>1, <1>4 DEF StateSet
<1> HIDE DEF f, w
<1>7. Pending(f)
  <2>1. Base(f)
    BY <1>1, <1>5 DEF Good, Base, Typed
  <2> QED
    BY <1>1, <1>5, <2>1
       DEF Good, Pending, buffers_are_empty, buffers_exceed_pipe_size
<1>8. Base(w) /\ Pending(w)
  <2>1. Base(w)
    BY <1>1, <1>6 DEF Good, Base, Typed
  <2> QED
    BY <1>1, <1>6, <2>1
       DEF Good, Pending, buffers_are_empty, buffers_exceed_pipe_size
<1>9. \A t \in Announce(w) : Pending(t)
  BY <1>8, AnnounceGood
<1> QED
  BY <1>2, <1>7, <1>9, RedispatchGood

\* The dump without AIO.
LEMMA SyncDumpGood ==
  ASSUME NEW s, Base(s), nagios \in BOOLEAN
  PROVE  \A t \in sync_dump_data(s) : Good(t)
<1> DEFINE j == join_buffers(s)
           o == open_dump_file(j)
           c == close_dump_file(o)
           g == free_output(o)
           w == [g EXCEPT !.files[o.dump_file] = o.output]
<1>1. /\ Typed(j) /\ j.buffer_size = 0 /\ j.output_buffer = <<>>
      /\ j.fd = s.fd /\ j.active = s.active
  BY JoinBuffers DEF Base
<1>2. /\ Typed(o) /\ o.buffer_size = 0 /\ o.output_buffer = <<>>
      /\ o.fd = s.fd /\ o.active = s.active
  BY <1>1, OpenDumpFile
<1>3. /\ Typed(c) /\ c.buffer_size = 0 /\ c.fd = s.fd /\ c.active = s.active
  BY <1>2, CloseDumpFile
<1>4. Good(DropOutput(j, "mkstemp"))
  <2>1. "mkstemp" \in Reasons \ {"torn"}
    BY DEF Reasons
  <2> QED
    BY <1>1, <2>1, DropOutputType, EmptyIsGood DEF Base
<1>5. Good(DropOutput(c, "dump"))
  <2>1. "dump" \in Reasons \ {"torn"}
    BY DEF Reasons
  <2> QED
    BY <1>3, <2>1, DropOutputType, EmptyIsGood DEF Base
<1>6. \A t \in sync_dump_data(s) :
        \/ t = DropOutput(j, "mkstemp") \/ t = DropOutput(c, "dump")
        \/ t \in Announce(w)
  BY Zenon DEF sync_dump_data
<1> HIDE DEF o
<1>7. /\ g \in StateSet /\ g.fd = o.fd /\ g.active = o.active
      /\ g.output = <<>> /\ g.output_size = 0 /\ g.files = o.files
      /\ g.output_buffer = o.output_buffer /\ g.buffer_size = o.buffer_size
      /\ g.aio = o.aio
  BY <1>2, EmptySeq DEF Typed, StateSet, free_output
<1> HIDE DEF g
<1>8. [g.files EXCEPT ![o.dump_file] = o.output] \in Seq(Seq(Item))
  <2>1. o.files \in Seq(Seq(Item)) /\ o.output \in Seq(Item)
    BY <1>2 DEF Typed, StateSet
  <2> QED
    BY <1>7, <2>1, StoreFile
<1>9. /\ w \in StateSet /\ w.fd = g.fd /\ w.active = g.active
      /\ w.output = g.output /\ w.output_size = g.output_size
      /\ w.output_buffer = g.output_buffer /\ w.buffer_size = g.buffer_size
      /\ w.aio = g.aio
  BY <1>7, <1>8 DEF StateSet
<1> HIDE DEF w
<1>10. Base(w)
  <2>1. Typed(w)
    BY <1>2, <1>7, <1>9 DEF Typed
  <2> QED
    BY <1>2, <1>7, <1>9, <2>1 DEF Base
<1>11. Good(w)
  BY <1>2, <1>7, <1>9, <1>10, EmptyIsGood
<1> QED
  BY <1>4, <1>5, <1>6, <1>10, <1>11, AnnounceGood

\* idle_cb(), which dumps without AIO, now or after the time-out.
LEMMA IdleCbGood ==
  ASSUME NEW s, Good(s), nagios \in BOOLEAN
  PROVE  \A t \in idle_cb(s) : Good(t)
<1> DEFINE u == [s EXCEPT !.active = @ \ {"idle", "timeout"}]
<1>1. /\ u \in StateSet /\ u.fd = s.fd
      /\ u.active = s.active \ {"idle", "timeout"}
      /\ u.output = s.output /\ u.output_size = s.output_size
      /\ u.output_buffer = s.output_buffer /\ u.buffer_size = s.buffer_size
      /\ u.aio = s.aio
  BY DEF Good, Base, Typed, StateSet
<1>2. idle_cb(s) = sync_dump_data(u)
  BY Zenon DEF idle_cb
<1> HIDE DEF u
<1>3. Base(u)
  BY <1>1 DEF Good, Base, Typed
<1> QED
  BY <1>2, <1>3, SyncDumpGood

\* open_cb is called by fifo_start and by the reopen timer.
LEMMA OpenCbGood ==
  ASSUME NEW s, (Good(s) /\ s.fd = "closed") \/ Stopped(s), nagios \in BOOLEAN
  PROVE  \A t \in open_cb(s) : Good(t)
<1> DEFINE o == [s EXCEPT !.fd = "open", !.active = @ \ {"open"}]
           u == [s EXCEPT !.active = @ \cup {"open"}]
<1>1. /\ Typed(s) /\ s.fd = "closed" /\ "write" \notin s.active
  BY DEF Good, Base, Stopped
<1>2. /\ o \in StateSet /\ o.fd = "open" /\ o.active = s.active \ {"open"}
      /\ o.output = s.output /\ o.output_size = s.output_size
      /\ o.output_buffer = s.output_buffer /\ o.buffer_size = s.buffer_size
      /\ o.aio = s.aio
  BY <1>1 DEF Typed, StateSet
<1>3. /\ u \in StateSet /\ u.fd = "closed" /\ u.active = s.active \cup {"open"}
      /\ u.output = s.output /\ u.output_size = s.output_size
      /\ u.output_buffer = s.output_buffer /\ u.buffer_size = s.buffer_size
      /\ u.aio = s.aio
  BY <1>1 DEF Typed, StateSet, Watchers
<1>4. \A t \in open_cb(s) :
        \/ t = u
        \/ t = o /\ buffers_are_empty(s)
        \/ t \in dispatch_data(o)
  BY Zenon DEF open_cb
<1> HIDE DEF o, u
<1>5. Base(o)
  BY <1>1, <1>2 DEF Base, Typed
<1>6. Good(u)
  <2>1. Base(u)
    BY <1>1, <1>3 DEF Base, Typed
  <2> QED
    BY <1>1, <1>3, <2>1 DEF Good
<1>7. buffers_are_empty(s) => Good(o)
  BY <1>1, <1>2, <1>5, EmptyIsGood DEF Typed, buffers_are_empty
<1> QED
  BY <1>4, <1>5, <1>6, <1>7, DispatchGood

-----------------------------------------------------------------------------
(* The invariant.                                                          *)

\* The variables of a TypeOK state make up a StateSet record, and a Good or
\* Stopped record gives back the types.
LEMMA StateFields ==
  /\ State.output = output /\ State.output_size = output_size
  /\ State.output_buffer = output_buffer /\ State.buffer_size = buffer_size
  /\ State.fd = fd /\ State.active = active
  /\ State.aio_buf = aio_buf /\ State.aio = aio
  /\ State.dump_file = dump_file /\ State.dump_fds = dump_fds
  /\ State.files = files /\ State.pipe = pipe /\ State.lost = lost
  BY DEF State

\* A step of the writer puts the record it computed into the variables.
LEMMA BecomeState ==
  ASSUME NEW t \in StateSet, Become(t)
  PROVE  State' = t
  BY DEF Become, State, StateSet

\* The types of the record and of the other variables are TypeOK.
LEMMA TypedTypes ==
  /\ Typed(State)
  /\ posix_aio \in BOOLEAN /\ running \in BOOLEAN /\ nagios \in BOOLEAN
  /\ inbox \in Seq(Item) /\ delivered \subseteq Item /\ pushed \in Nat
  => TypeOK
<1> SUFFICES
      ASSUME Typed(State), posix_aio \in BOOLEAN,
             running \in BOOLEAN, nagios \in BOOLEAN,
             inbox \in Seq(Item), delivered \subseteq Item, pushed \in Nat
      PROVE  TypeOK
  OBVIOUS
<1>1. /\ State \in StateSet
      /\ output = <<>> <=> output_size = 0
      /\ output_buffer = <<>> <=> buffer_size = 0
      /\ "async" \in active <=> aio # "none"
  BY StateFields DEF Typed
<1>2. /\ output \in Seq(Item) /\ output_size \in Nat
      /\ output_buffer \in Seq(Item) /\ buffer_size \in Nat
      /\ fd \in {"open", "closed"} /\ active \in SUBSET Watchers
      /\ aio_buf \in Seq(Item)
      /\ aio \in {"none", "inflight", "written", "failed"}
      /\ dump_file \in Nat /\ dump_fds \in SUBSET Nat
      /\ files \in Seq(Seq(Item)) /\ pipe \in Seq(Item)
      /\ lost \in SUBSET Losses
  BY <1>1 DEF StateSet, State
<1>3. lost \subseteq [item : Item, why : Reasons]
  BY <1>2 DEF Losses
<1> QED
  BY <1>1, <1>2, <1>3 DEF TypeOK

\* A step that computes a Good record keeps the invariant.
LEMMA BecomeGood ==
  ASSUME Inv, NEW t, Good(t), Become(t), running',
         UNCHANGED <<posix_aio, nagios, inbox, delivered>>, pushed' \in Nat
  PROVE  Inv'
<1>1. t \in StateSet
  BY DEF Good, Base, Typed
<1>2. State' = t
  BY <1>1, BecomeState
<1>3. Good(State)'
  BY <1>2 DEF Good, Base, Typed, buffers_exceed_pipe_size, buffers_are_empty
<1>4. Typed(State)'
  BY <1>3 DEF Good, Base
<1>5. (/\ posix_aio \in BOOLEAN /\ running \in BOOLEAN
       /\ nagios \in BOOLEAN /\ inbox \in Seq(Item)
       /\ delivered \subseteq Item /\ pushed \in Nat)'
  BY DEF Inv, TypeOK
<1>6. TypeOK'
  BY <1>4, <1>5, TypedTypes, PTL
<1> QED
  BY <1>3, <1>6 DEF Inv

\* A step that leaves the writer's decisions alone keeps the invariant.
LEMMA QuietStep ==
  ASSUME Inv,
         UNCHANGED <<posix_aio, running, output, output_size,
                     output_buffer, buffer_size,
                     fd, active, aio_buf, dump_file, dump_fds, pushed>>,
         (aio = "none") <=> (aio' = "none"),
         (aio \in {"none", "inflight", "written", "failed"})',
         (files \in Seq(Seq(Item)))', (pipe \in Seq(Item))',
         (lost \in SUBSET Losses)',
         (nagios \in BOOLEAN)', (inbox \in Seq(Item))',
         (delivered \subseteq Item)'
  PROVE  Inv'
<1>1. Typed(State)
  BY DEF Inv, Good, Base, Stopped
<1>2. (State \in StateSet)'
  <2>1. /\ output \in Seq(Item) /\ output_size \in Nat
        /\ output_buffer \in Seq(Item) /\ buffer_size \in Nat
        /\ fd \in {"open", "closed"} /\ active \in SUBSET Watchers
        /\ aio_buf \in Seq(Item)
        /\ dump_file \in Nat /\ dump_fds \in SUBSET Nat
    BY DEF Inv, TypeOK
  <2> QED
    BY <2>1 DEF State, StateSet
<1>3. /\ State'.output = State.output
      /\ State'.output_size = State.output_size
      /\ State'.output_buffer = State.output_buffer
      /\ State'.buffer_size = State.buffer_size
      /\ State'.fd = State.fd /\ State'.active = State.active
      /\ (State.aio = "none") <=> (State'.aio = "none")
  BY DEF State
<1>4. Typed(State)'
  BY <1>1, <1>2, <1>3 DEF Typed
<1>5. (posix_aio \in BOOLEAN /\ running \in BOOLEAN /\ pushed \in Nat)'
  BY DEF Inv, TypeOK
<1>6. TypeOK'
  BY <1>4, <1>5, TypedTypes, PTL
<1>7. ASSUME running PROVE Good(State)'
  <2>1. Good(State)
    BY <1>7 DEF Inv
  <2>2. Base(State)'
    BY <1>3, <1>4, <2>1 DEF Good, Base
  <2> QED
    BY <1>3, <2>1, <2>2
       DEF Good, buffers_are_empty, buffers_exceed_pipe_size
<1>8. ASSUME ~running PROVE Stopped(State)'
  <2>1. Stopped(State)
    BY <1>8 DEF Inv
  <2> QED
    BY <1>3, <1>4, <2>1 DEF Stopped
<1> QED
  BY <1>6, <1>7, <1>8 DEF Inv

\* Initially the writer is stopped and everything is empty.
LEMMA InitInv == Init => Inv
<1> SUFFICES ASSUME Init PROVE Inv
  OBVIOUS
<1>1. State \in StateSet
  BY EmptySeq DEF Init, State, StateSet
<1>2. Typed(State) /\ Stopped(State)
  BY <1>1, StateFields DEF Init, Typed, Stopped
<1>3. TypeOK
  BY <1>2, TypedTypes, EmptySeq DEF Init
<1> QED
  BY <1>2, <1>3 DEF Inv, Init

\* The data of a PUSH request is a well-formed item.
LEMMA PushType ==
  ASSUME NEW n \in Nat, NEW size \in Sizes
  PROVE  Push(n, size) \in Item
  BY FifoAssumption DEF Push, Item

\* fifo_stop() leaves a stopped writer.
LEMMA StopInv == Inv /\ fifo_stop => Inv'
<1> SUFFICES ASSUME Inv, fifo_stop PROVE Inv'
  OBVIOUS
<1> DEFINE c == CloseCommandFile(State)
           lost2 == c.lost \cup Dropped(output \o output_buffer \o aio_buf, "stopped")
           t == [c EXCEPT
                   !.output = <<>>, !.output_size = 0,
                   !.output_buffer = <<>>, !.buffer_size = 0,
                   !.active = {}, !.aio_buf = <<>>, !.aio = "none",
                   !.dump_file = 0, !.dump_fds = {},
                   !.lost = lost2]
<1>1. Typed(State) /\ State \in StateSet
  BY DEF Inv, fifo_stop, Good, Base, Typed
<1>2. Become(t) /\ ~running' /\ UNCHANGED <<worldVars, pushed>>
  BY DEF fifo_stop
<1>3. Dropped(State.pipe, "hangup") \subseteq Losses
  <2>1. "hangup" \in Reasons \ {"torn"}
    BY DEF Reasons
  <2>2. State.pipe \in Seq(Item)
    BY <1>1 DEF StateSet
  <2> QED
    BY <2>1, <2>2, DroppedType
<1>4. c \in StateSet /\ c.fd = "closed"
  BY <1>1, <1>3, EmptySeq DEF CloseCommandFile, StateSet
<1>5. Dropped(output \o output_buffer \o aio_buf, "stopped") \subseteq Losses
  <2>1. "stopped" \in Reasons \ {"torn"}
    BY DEF Reasons
  <2>2. output \o output_buffer \o aio_buf \in Seq(Item)
    BY ConcatProperties DEF Inv, TypeOK
  <2> QED
    BY <2>1, <2>2, DroppedType
<1>6. lost2 \in SUBSET Losses
  BY <1>4, <1>5 DEF StateSet
<1> HIDE DEF c, lost2
<1>7. /\ t \in StateSet /\ t.fd = "closed" /\ t.active = {} /\ t.aio = "none"
      /\ t.output = <<>> /\ t.output_size = 0
      /\ t.output_buffer = <<>> /\ t.buffer_size = 0
  BY <1>4, <1>6, EmptySeq DEF StateSet
<1> HIDE DEF t
<1>8. State' = t
  BY <1>2, <1>7, BecomeState
<1>9. Typed(State)' /\ Stopped(State)'
  BY <1>7, <1>8 DEF Typed, Stopped
<1>10. (/\ posix_aio \in BOOLEAN /\ running \in BOOLEAN
        /\ nagios \in BOOLEAN /\ inbox \in Seq(Item)
        /\ delivered \subseteq Item /\ pushed \in Nat)'
  BY <1>2 DEF fifo_stop, worldVars, Inv, TypeOK
<1>11. TypeOK'
  BY <1>9, <1>10, TypedTypes, PTL
<1> QED
  BY <1>2, <1>9, <1>11 DEF Inv

\* Between two steps the lost data was dropped for a deliberate reason.
LEMMA LostType == Inv => lost \in SUBSET Losses
<1> SUFFICES ASSUME Inv PROVE lost \in SUBSET Losses
  OBVIOUS
<1>1. State \in StateSet
  BY DEF Inv, Good, Base, Stopped, Typed
<1> QED
  BY <1>1, StateFields DEF StateSet

\* Nagios's reading keeps the types of what it touches.
LEMMA ProcessTypes ==
  ASSUME files \in Seq(Seq(Item)), delivered \subseteq Item,
         NEW item \in Item, NEW rest \in Seq(Item), Process(item, rest)
  PROVE  /\ (files \in Seq(Seq(Item)))' /\ (inbox \in Seq(Item))'
         /\ (delivered \subseteq Item)'
<1>1. CASE item.kind = "ref" /\ item.id \in DOMAIN files
  <2>1. files[item.id] \in Seq(Item)
    BY <1>1, ElementOfSeq, LenProperties
  <2>2. files[item.id] \o rest \in Seq(Item)
    BY <2>1, ConcatProperties
  <2>3. [files EXCEPT ![item.id] = <<>>] \in Seq(Seq(Item))
    BY StoreFile, EmptySeq
  <2> QED
    BY <1>1, <2>2, <2>3 DEF Process
<1>2. CASE ~(item.kind = "ref" /\ item.id \in DOMAIN files)
  BY <1>2 DEF Process
<1> QED
  BY <1>1, <1>2

\* Every step keeps the invariant: one case for each action.
LEMMA NextInv == Inv /\ [Next]_vars => Inv'
<1> SUFFICES ASSUME Inv, [Next]_vars PROVE Inv'
  OBVIOUS
<1>0. nagios \in BOOLEAN /\ pushed \in Nat /\ lost \in SUBSET Losses
  BY LostType DEF Inv, TypeOK
<1>1. CASE fifo_start
  <2>1. PICK t \in open_cb(State) : Become(t)
    BY <1>1 DEF fifo_start
  <2>2. Stopped(State)
    BY <1>1 DEF fifo_start, Inv
  <2>3. Good(t)
    BY <1>0, <2>2, OpenCbGood
  <2> QED
    BY <1>0, <1>1, <2>1, <2>3, BecomeGood DEF fifo_start, worldVars
<1>2. CASE ServerPush
  <2>0. PICK size \in Sizes :
          \E t \in fifo_write(State, Push(pushed + 1, size)) : Become(t)
    BY <1>2 DEF ServerPush
  <2>1. PICK t \in fifo_write(State, Push(pushed + 1, size)) : Become(t)
    BY <2>0
  <2>2. Base(State)
    BY <1>2 DEF ServerPush, Inv, Good
  <2>3. Push(pushed + 1, size) \in Item /\ pushed + 1 \in Nat
    BY <1>0, PushType
  <2>4. Good(t)
    BY <1>0, <2>1, <2>2, <2>3, FifoWriteGood
  <2> QED
    BY <1>2, <2>1, <2>3, <2>4, BecomeGood DEF ServerPush, worldVars
<1>3. CASE fifo_stop
  BY <1>3, StopInv
<1>4. CASE OpenTimer
  <2>1. PICK t \in open_cb(State) : Become(t)
    BY <1>4 DEF OpenTimer, Callback
  <2>2. Good(State) /\ State.fd = "closed"
    BY <1>4, StateFields DEF OpenTimer, Callback, Inv, Good, Base
  <2>3. Good(t)
    BY <1>0, <2>2, OpenCbGood
  <2> QED
    BY <1>0, <1>4, <2>1, <2>3, BecomeGood DEF OpenTimer, Callback, worldVars
<1>5. CASE WriteReady
  <2>1. PICK t \in write_cb(State) : Become(t)
    BY <1>5 DEF WriteReady, Callback
  <2>2. Writing(State)
    BY <1>5, StateFields DEF WriteReady, Callback, Inv, Good, Writing
  <2>3. Good(t)
    BY <1>0, <2>2, WriteCbGood
  <2> QED
    BY <1>0, <1>5, <2>1, <2>3, BecomeGood DEF WriteReady, Callback, worldVars
<1>6. CASE AsyncReady
  <2>1. PICK t \in async_cb(State) : Become(t)
    BY <1>6 DEF AsyncReady, Callback
  <2>2. Good(State) /\ "async" \in State.active
    BY <1>6, StateFields DEF AsyncReady, Callback, Inv
  <2>3. Good(t)
    BY <1>0, <2>2, AsyncCbGood
  <2> QED
    BY <1>0, <1>6, <2>1, <2>3, BecomeGood DEF AsyncReady, Callback, worldVars
<1>7. CASE IdleReady \/ IdleTimeout
  <2>1. PICK t \in idle_cb(State) : Become(t)
    BY <1>7 DEF IdleReady, IdleTimeout, Callback
  <2>2. Good(State)
    BY <1>7 DEF IdleReady, IdleTimeout, Callback, Inv
  <2>3. Good(t)
    BY <1>0, <2>2, IdleCbGood
  <2> QED
    BY <1>0, <1>7, <2>1, <2>3, BecomeGood
       DEF IdleReady, IdleTimeout, Callback, worldVars
<1>8. CASE AioComplete
  <2>1. /\ aio = "inflight" /\ aio' \in {"written", "failed"}
        /\ UNCHANGED <<posix_aio, running, output, output_size, output_buffer,
                       buffer_size, fd, active, aio_buf, dump_file, dump_fds,
                       files, pipe, lost, nagios, inbox, delivered, pushed>>
    BY <1>8 DEF AioComplete, worldVars
  <2> QED
    BY <1>0, <2>1, QuietStep DEF Inv, TypeOK
<1>9. CASE NagiosStart
  <2>1. /\ nagios' = TRUE
        /\ UNCHANGED <<posix_aio, running, output, output_size, output_buffer,
                       buffer_size, fd, active, aio_buf, aio, dump_file,
                       dump_fds, files, pipe, lost, inbox, delivered, pushed>>
    BY <1>9 DEF NagiosStart, fifoVars
  <2> QED
    BY <1>0, <2>1, QuietStep DEF Inv, TypeOK
<1>10. CASE NagiosExit
  <2>1. "hangup" \in Reasons \ {"torn"}
    BY DEF Reasons
  <2>2. /\ Dropped(inbox, "hangup") \subseteq Losses
        /\ Dropped(pipe, "hangup") \subseteq Losses
    BY <2>1, DroppedType DEF Inv, TypeOK
  <2>3. (lost \in SUBSET Losses)' /\ (pipe \in Seq(Item))'
        /\ (inbox \in Seq(Item))' /\ (nagios \in BOOLEAN)'
    BY <1>0, <1>10, <2>2, EmptySeq DEF NagiosExit, Inv, TypeOK
  <2>4. UNCHANGED <<posix_aio, running, output, output_size, output_buffer,
                    buffer_size, fd, active, aio_buf, aio, dump_file,
                    dump_fds, files, delivered, pushed>>
    BY <1>10 DEF NagiosExit
  <2> QED
    BY <2>3, <2>4, QuietStep DEF Inv, TypeOK
<1>11. CASE NagiosRead
  <2>1. UNCHANGED <<posix_aio, running, output, output_size,
                     output_buffer, buffer_size,
                    fd, active, aio_buf, aio, dump_file, dump_fds, lost,
                    nagios, pushed>>
    BY <1>11 DEF NagiosRead
  <2>2. /\ files \in Seq(Seq(Item)) /\ delivered \subseteq Item
        /\ inbox \in Seq(Item) /\ pipe \in Seq(Item)
    BY DEF Inv, TypeOK
  <2>3. /\ (files \in Seq(Seq(Item)))' /\ (inbox \in Seq(Item))'
        /\ (delivered \subseteq Item)' /\ (pipe \in Seq(Item))'
    <3>1. CASE /\ inbox # <<>> /\ Process(Head(inbox), Tail(inbox))
               /\ UNCHANGED pipe
      <4>1. Head(inbox) \in Item /\ Tail(inbox) \in Seq(Item)
        BY <2>2, <3>1, HeadTailProperties
      <4> QED
        BY <2>2, <3>1, <4>1, ProcessTypes
    <3>2. CASE /\ pipe # <<>> /\ Process(Head(pipe), <<>>)
               /\ pipe' = Tail(pipe)
      <4>1. /\ Head(pipe) \in Item /\ Tail(pipe) \in Seq(Item)
            /\ <<>> \in Seq(Item)
        BY <2>2, <3>2, HeadTailProperties, EmptySeq
      <4> QED
        BY <2>2, <3>2, <4>1, ProcessTypes
    <3> QED
      BY <1>11, <3>1, <3>2 DEF NagiosRead
  <2> QED
    BY <1>0, <2>1, <2>3, QuietStep DEF Inv, TypeOK
<1>12. CASE UNCHANGED vars
  <2>1. UNCHANGED <<posix_aio, running, output, output_size,
                     output_buffer, buffer_size,
                    fd, active, aio_buf, aio, dump_file, dump_fds, files, pipe,
                    lost, nagios, inbox, delivered, pushed>>
    BY <1>12 DEF vars, fifoVars
  <2> QED
    BY <1>0, <2>1, QuietStep DEF Inv, TypeOK
<1> QED
  BY <1>1, <1>2, <1>3, <1>4, <1>5, <1>6, <1>7, <1>8, <1>9, <1>10, <1>11,
     <1>12 DEF Next

-----------------------------------------------------------------------------
(* The theorems.                                                           *)

\* The invariant holds throughout.
LEMMA Invariance == Spec => []Inv
  BY InitInv, NextInv, PTL DEF Spec

\* The types of the writer's state, whatever the constants.
THEOREM TypeCorrect == Spec => []TypeOK
<1>1. Inv => TypeOK
  BY DEF Inv
<1> QED
  BY <1>1, Invariance, PTL

\* write_cb never writes more than PIPE_BUF bytes at once, so that no command
\* is torn, for every PIPE_BUF and for any sequence of pushes and failures.
THEOREM WritesAtomic == Spec => []AtomicWrites
<1>1. Inv => AtomicWrites
  <2> SUFFICES ASSUME Inv PROVE AtomicWrites
    OBVIOUS
  <2>1. "write" \in active => ~buffers_exceed_pipe_size(State)
    BY StateFields DEF Inv, TypeOK, Good, Stopped
  <2>2. \A l \in lost : l.why # "torn"
    BY LostType DEF Losses
  <2> QED
    BY <2>1, <2>2 DEF AtomicWrites
<1> QED
  BY <1>1, Invariance, PTL

\* No data is ever left in the queue without a watcher that will move it.
THEOREM NeverStranded == Spec => []NothingStranded
<1>1. Inv => NothingStranded
  BY StateFields DEF Inv, NothingStranded, Good, Base, Typed
<1> QED
  BY <1>1, Invariance, PTL

-----------------------------------------------------------------------------
(***************************************************************************)
(* What the functions of fifo.c may do with the data, whatever they decide *)
(* about descriptors and watchers.  Each function is shown to be a         *)
(* sequence of the moves defined here, so that a set of states that is     *)
(* closed under the moves is closed under the callbacks: the proofs about  *)
(* order, sizes and places only look at the moves.                         *)
(***************************************************************************)

SameOutput(s, t) == t.output = s.output /\ t.output_size = s.output_size

SameBuffer(s, t) ==
  t.output_buffer = s.output_buffer /\ t.buffer_size = s.buffer_size

NoOutput(t) == t.output = <<>> /\ t.output_size = 0

NoBuffer(t) == t.output_buffer = <<>> /\ t.buffer_size = 0

SamePipe(s, t) == t.pipe = s.pipe /\ t.lost = s.lost

SameFiles(s, t) ==
  t.files = s.files /\ t.dump_file = s.dump_file /\ t.dump_fds = s.dump_fds

SameAio(s, t) == t.aio = s.aio /\ t.aio_buf = s.aio_buf

\* A dump file is created, and stays open.
NewFile(s, t, contents) ==
  /\ t.files = Append(s.files, contents)
  /\ t.dump_file = Len(s.files) + 1
  /\ t.dump_fds = s.dump_fds \cup {Len(s.files) + 1}

\* A dump file is created, and closed again without contents.
UnusedFile(s, t) ==
  /\ t.files = Append(s.files, <<>>)
  /\ t.dump_file = 0
  /\ t.dump_fds = s.dump_fds \ {Len(s.files) + 1}

Kept(s, t) ==
  /\ SameOutput(s, t) /\ SameBuffer(s, t) /\ SamePipe(s, t)
  /\ SameFiles(s, t) /\ SameAio(s, t)

Slurped(s, t) ==
  /\ s.output = <<>> /\ s.buffer_size <= PIPE_BUF
  /\ t.output = s.output_buffer /\ t.output_size = s.buffer_size
  /\ NoBuffer(t) /\ SamePipe(s, t) /\ SameFiles(s, t) /\ SameAio(s, t)

Written(s, t) ==
  /\ NoOutput(t) /\ SameBuffer(s, t)
  /\ t.pipe = s.pipe \o s.output /\ t.lost = s.lost
  /\ SameFiles(s, t) /\ SameAio(s, t)

HungUp(s, t) ==
  /\ SameOutput(s, t) /\ SameBuffer(s, t)
  /\ t.pipe = <<>> /\ t.lost = s.lost \cup Dropped(s.pipe, "hangup")
  /\ SameFiles(s, t) /\ SameAio(s, t)

Purged(s, t) ==
  /\ SameOutput(s, t) /\ NoBuffer(t)
  /\ t.pipe = s.pipe /\ t.lost = s.lost \cup Dropped(s.output_buffer, "purged")
  /\ SameFiles(s, t) /\ SameAio(s, t)

\* The backlog is lost on its way to a dump file.
DumpLost(s, t) ==
  /\ s.aio = "none"
  /\ NoOutput(t) /\ NoBuffer(t) /\ SameAio(s, t)
  /\ t.pipe = s.pipe
  /\ \E why \in Reasons \ {"torn"} :
       t.lost = s.lost \cup Dropped(s.output \o s.output_buffer, why)
  /\ SameFiles(s, t) \/ UnusedFile(s, t)

\* The backlog is handed to the kernel.
DumpQueued(s, t) ==
  /\ s.aio = "none"
  /\ NoOutput(t) /\ NoBuffer(t) /\ SamePipe(s, t) /\ NewFile(s, t, <<>>)
  /\ t.aio = "inflight" /\ t.aio_buf = s.output \o s.output_buffer

Move(s, t) ==
  \/ Kept(s, t) \/ Slurped(s, t) \/ Written(s, t) \/ HungUp(s, t)
  \/ Purged(s, t) \/ DumpLost(s, t) \/ DumpQueued(s, t)

Closed(G) == \A s \in G : \A t \in StateSet : Move(s, t) => t \in G

\* New data is added, to an empty writer or to the queue.
Enqueued(s, t, item) ==
  /\ SamePipe(s, t) /\ SameFiles(s, t) /\ SameAio(s, t)
  /\ \/ /\ s.output = <<>> /\ s.output_buffer = <<>>
        /\ t.output = <<item>> /\ t.output_size = item.size
        /\ SameBuffer(s, t)
     \/ /\ MaxQueueSize > 0 =>
             s.buffer_size = 0 \/ s.buffer_size + item.size <= MaxQueueSize
        /\ t.output_buffer = Append(s.output_buffer, item)
        /\ t.buffer_size = s.buffer_size + item.size
        /\ SameOutput(s, t)

\* A complete dump file is closed.
FileClosed(s, t) ==
  /\ SameOutput(s, t) /\ SameBuffer(s, t) /\ SamePipe(s, t) /\ SameAio(s, t)
  /\ t.files = s.files /\ t.dump_file = 0
  /\ t.dump_fds = s.dump_fds \ {s.dump_file}

\* Its announcement is lost.
ReferenceLost(s, t, item) ==
  /\ SameOutput(s, t) /\ SameBuffer(s, t) /\ SameAio(s, t) /\ SameFiles(s, t)
  /\ t.pipe = s.pipe /\ t.lost = s.lost \cup Dropped(<<item>>, "close")

\* An AIO request has failed, or has filled its file.
AioLost(s, t) ==
  /\ SameOutput(s, t) /\ SameBuffer(s, t) /\ SameFiles(s, t)
  /\ t.aio = "none" /\ t.aio_buf = <<>>
  /\ t.pipe = s.pipe /\ t.lost = s.lost \cup Dropped(s.aio_buf, "dump")

AioStored(s, t) ==
  /\ SameOutput(s, t) /\ SameBuffer(s, t) /\ SamePipe(s, t)
  /\ t.aio = "none" /\ t.aio_buf = <<>>
  /\ t.files = [s.files EXCEPT ![s.dump_file] = s.aio_buf]
  /\ t.dump_file = s.dump_file /\ t.dump_fds = s.dump_fds

\* The backlog is in a dump file.
DumpStored(s, t) ==
  /\ NoOutput(t) /\ NoBuffer(t) /\ SamePipe(s, t) /\ SameAio(s, t)
  /\ NewFile(s, t, s.output \o s.output_buffer)

-----------------------------------------------------------------------------
\* How to recognize an appended element.
LEMMA IsAppend ==
  ASSUME NEW S, NEW q \in Seq(S), NEW e \in S, NEW c \in Seq(S),
         Len(c) = Len(q) + 1, c[Len(q) + 1] = e,
         \A i \in 1..Len(q) : c[i] = q[i]
  PROVE  c = Append(q, e)
<1>1. PICK b \in Seq(S) : b = Append(q, e)
  BY AppendProperties
<1>2. PICK n \in Nat : n = Len(q)
  BY LenProperties
<1>3. Len(b) = n + 1 /\ b[n + 1] = e /\ \A i \in 1..n : b[i] = q[i]
  BY <1>1, <1>2, AppendProperties
<1>4. \A i \in 1..(n + 1) : c[i] = b[i]
  BY <1>2, <1>3
<1>5. c = b
  BY <1>2, <1>3, <1>4, SeqEqual
<1> QED
  BY <1>1, <1>5

\* Storing contents in the file that was created last.
StoreAt(q, k, e) == [q EXCEPT ![k] = e]

\* Replacing the last of a sequence is appending another.
LEMMA StoreLast ==
  ASSUME NEW S, NEW q \in Seq(S), NEW d \in S, NEW e \in S
  PROVE  StoreAt(Append(q, d), Len(q) + 1, e) = Append(q, e)
<1>1. PICK n \in Nat : n = Len(q)
  BY LenProperties
<1>2. PICK a \in Seq(S) : a = Append(q, d)
  BY AppendProperties
<1>3. Len(a) = n + 1 /\ \A i \in 1..n : a[i] = q[i]
  BY <1>1, <1>2, AppendProperties
<1>4. PICK c : c = [a EXCEPT ![n + 1] = e]
  OBVIOUS
<1>5. /\ c \in Seq(S) /\ Len(c) = n + 1
      /\ \A i \in 1..(n + 1) : c[i] = IF i = n + 1 THEN e ELSE a[i]
  BY <1>3, <1>4, ExceptSeq
<1>6. c = Append(q, e)
  BY <1>1, <1>3, <1>5, IsAppend
<1> QED
  BY <1>1, <1>2, <1>4, <1>6 DEF StoreAt

-----------------------------------------------------------------------------
(* Writing.                                                                *)

\* A move within a closed set.
LEMMA Moved ==
  ASSUME NEW G, Closed(G), NEW s \in G, NEW t \in StateSet, Move(s, t)
  PROVE  t \in G
  BY DEF Closed

\* Nothing but descriptors and watchers changes.
LEMMA KeptMove ==
  ASSUME NEW G, Closed(G), NEW s \in G, NEW t \in StateSet, Kept(s, t)
  PROVE  t \in G
  BY Moved DEF Move

\* buffer_slurp() is a move.
LEMMA SlurpMoves ==
  ASSUME NEW G, Closed(G), NEW s \in G, Writing(s)
  PROVE  Slurp(s) \in G
<1>1. CASE s.output # <<>>
  BY <1>1 DEF Slurp
<1>2. CASE s.output = <<>>
  <2> DEFINE t == Slurp(s)
  <2>1. /\ t \in StateSet
        /\ t.output = s.output_buffer /\ t.output_size = s.buffer_size
        /\ NoBuffer(t) /\ SamePipe(s, t) /\ SameFiles(s, t) /\ SameAio(s, t)
    BY <1>2, EmptySeq
       DEF Slurp, Writing, Base, Typed, StateSet, NoBuffer, SamePipe,
           SameFiles, SameAio
  <2>2. s.buffer_size <= PIPE_BUF
    BY FifoAssumption
       DEF Writing, Base, Typed, StateSet, buffers_exceed_pipe_size
  <2> HIDE DEF t
  <2>3. Move(s, t)
    BY <1>2, <2>1, <2>2 DEF Move, Slurped
  <2> QED
    BY <2>1, <2>3, Moved DEF t
<1> QED
  BY <1>1, <1>2

\* A write error is one: the pipe may hang up.
LEMMA WriteFailedMoves ==
  ASSUME NEW G, Closed(G), NEW s \in G, Writing(s)
  PROVE  WriteFailed(s) \in G
<1> DEFINE t == WriteFailed(s)
<1>1. t \in StateSet
  BY WriteFailedGood DEF Good, Base, Typed
<1>2. Kept(s, t) \/ HungUp(s, t)
  BY DEF WriteFailed, CloseCommandFile, Writing, Base, Typed, StateSet,
         Kept, HungUp, SameOutput, SameBuffer, SamePipe, SameFiles, SameAio
<1> QED
  BY <1>1, <1>2, Moved DEF Move

\* So is a successful write.
LEMMA WriteSucceededMoves ==
  ASSUME NEW G, Closed(G), NEW s \in G, Writing(s)
  PROVE  WriteSucceeded(s) \in G
<1> DEFINE t == WriteSucceeded(s)
<1>1. t \in StateSet
  <2>1. t.buffer_size \in Nat
    BY WriteSucceededGood DEF Writing, Base, Typed, StateSet
  <2>2. Writing(t) \/ Good(t)
    BY <2>1, WriteSucceededGood
  <2> QED
    BY <2>2 DEF Writing, Good, Base, Typed
<1>2. Written(s, t)
  BY DEF WriteSucceeded, StopIfDrained, free_output, Writing, Base, Typed,
         StateSet, Written, NoOutput, SameBuffer, SameFiles, SameAio
<1> QED
  BY <1>1, <1>2, Moved DEF Move

\* One iteration of write_cb.
LEMMA WriteOnceMoves ==
  ASSUME NEW G, Closed(G), NEW s \in G, Writing(s), nagios \in BOOLEAN,
         NEW r \in WriteOnce(s)
  PROVE  r.next \in G
<1> DEFINE t == Slurp(s)
<1>1. Writing(t) /\ t \in G
  BY SlurpWriting, SlurpMoves
<1>2. ~(t.output_size > PIPE_BUF)
  BY <1>1 DEF Writing, Base, Typed, StateSet, buffers_exceed_pipe_size
<1>3. \/ r = [n |-> 0, next |-> WriteSucceeded(t)]
      \/ r = [n |-> -1, next |-> t]
      \/ r = [n |-> -1, next |-> WriteFailed(t)]
      \/ r = [n |-> 1, next |-> WriteSucceeded(t)]
  BY <1>2, Zenon DEF WriteOnce
<1> HIDE DEF t
<1>4. WriteFailed(t) \in G /\ WriteSucceeded(t) \in G
  BY <1>1, WriteFailedMoves, WriteSucceededMoves
<1> QED
  BY <1>1, <1>3, <1>4

\* The whole of write_cb.
LEMMA WriteCbMoves ==
  ASSUME NEW G, Closed(G), NEW s \in G, Writing(s), nagios \in BOOLEAN
  PROVE  write_cb(s) \subseteq G
<1> SUFFICES ASSUME NEW t \in write_cb(s) PROVE t \in G
  OBVIOUS
<1>1. PICK r \in WriteOnce(s) :
        t \in IF r.n > 0 /\ r.next.buffer_size > 0
              THEN {q.next : q \in WriteOnce(r.next)}
              ELSE {r.next}
  BY DEF write_cb
<1>2. r.next \in G
  BY WriteOnceMoves
<1>3. CASE r.n > 0 /\ r.next.buffer_size > 0
  <2>1. PICK q \in WriteOnce(r.next) : t = q.next
    BY <1>1, <1>3
  <2>2. Writing(r.next)
    BY <1>3, WriteOnceGood
  <2> QED
    BY <1>2, <2>1, <2>2, WriteOnceMoves
<1>4. CASE ~(r.n > 0 /\ r.next.buffer_size > 0)
  BY <1>1, <1>2, <1>4
<1> QED
  BY <1>3, <1>4

-----------------------------------------------------------------------------
(* Dumping and dispatching.                                                *)

\* join_buffers and open_dump_file, with which every dump begins.
Opened(s, o) ==
  /\ o \in StateSet
  /\ o.output = s.output \o s.output_buffer
  /\ NoBuffer(o) /\ SamePipe(s, o) /\ SameAio(s, o) /\ NewFile(s, o, <<>>)

\* What join_buffers and open_dump_file leave.
LEMMA JoinOpenMoves ==
  ASSUME NEW s, Base(s)
  PROVE  Opened(s, open_dump_file(join_buffers(s)))
<1> DEFINE j == join_buffers(s)
           o == open_dump_file(j)
<1>1. Typed(j) /\ Typed(o)
  BY JoinBuffers, OpenDumpFile DEF Base
<1>2. /\ j \in StateSet /\ j.output = s.output \o s.output_buffer
      /\ NoBuffer(j) /\ SamePipe(s, j) /\ SameAio(s, j) /\ SameFiles(s, j)
  BY <1>1 DEF join_buffers, Base, Typed, StateSet, NoBuffer, SamePipe, SameAio,
              SameFiles
<1> HIDE DEF j
<1>3. /\ o \in StateSet /\ o.output = j.output
      /\ SameBuffer(j, o) /\ SamePipe(j, o) /\ SameAio(j, o) /\ NewFile(j, o, <<>>)
  BY <1>1, <1>2 DEF open_dump_file, Typed, StateSet, SameBuffer, SamePipe,
                    SameAio, NewFile
<1> HIDE DEF o
<1>4. Opened(s, o)
  BY <1>2, <1>3 DEF Opened, NoBuffer, SameBuffer, SamePipe, SameAio, SameFiles,
                    NewFile
<1> QED
  BY <1>4 DEF o, j

\* mkstemp(3) fails.
LEMMA JoinDropMoves ==
  ASSUME NEW G, Closed(G), NEW s \in G, Base(s), s.aio = "none"
  PROVE  DropOutput(join_buffers(s), "mkstemp") \in G
<1> DEFINE j == join_buffers(s)
           t == DropOutput(j, "mkstemp")
<1>1. "mkstemp" \in Reasons \ {"torn"}
  BY DEF Reasons
<1>2. Typed(j)
  BY JoinBuffers DEF Base
<1>3. /\ j.output = s.output \o s.output_buffer
      /\ NoBuffer(j) /\ SamePipe(s, j) /\ SameAio(s, j) /\ SameFiles(s, j)
  BY <1>2 DEF join_buffers, Base, Typed, StateSet, NoBuffer, SamePipe, SameAio,
              SameFiles
<1> HIDE DEF j
<1>4. Typed(t)
  BY <1>1, <1>2, DropOutputType
<1>5. /\ NoOutput(t) /\ SameBuffer(j, t) /\ SameAio(j, t) /\ SameFiles(j, t)
      /\ t.pipe = j.pipe /\ t.lost = j.lost \cup Dropped(j.output, "mkstemp")
  BY <1>2 DEF DropOutput, free_output, Typed, StateSet, NoOutput, SameBuffer,
              SameAio, SameFiles
<1> HIDE DEF t
<1>6. DumpLost(s, t)
  BY <1>1, <1>3, <1>5 DEF DumpLost, NoBuffer, SameBuffer, SamePipe, SameAio,
                         SameFiles
<1>7. t \in G
  BY <1>4, <1>6, Moved DEF Move, Typed
<1> QED
  BY <1>7 DEF t, j

\* A dump file is opened, but not used.
LEMMA OpenDropMoves ==
  ASSUME NEW G, Closed(G), NEW s \in G, Base(s), s.aio = "none",
         NEW why \in Reasons \ {"torn"}
  PROVE  DropOutput(close_dump_file(open_dump_file(join_buffers(s))), why) \in G
<1> DEFINE o == open_dump_file(join_buffers(s))
           c == close_dump_file(o)
           t == DropOutput(c, why)
<1>1. Opened(s, o)
  BY JoinOpenMoves
<1>2. Typed(o) /\ Typed(c)
  BY JoinBuffers, OpenDumpFile, CloseDumpFile DEF Base
<1> HIDE DEF o
<1>3. /\ c.output = o.output /\ SameBuffer(o, c) /\ SamePipe(o, c)
      /\ SameAio(o, c) /\ c.files = o.files
      /\ c.dump_file = 0 /\ c.dump_fds = o.dump_fds \ {o.dump_file}
  BY <1>2 DEF close_dump_file, Typed, StateSet, SameBuffer, SamePipe, SameAio
<1> HIDE DEF c
<1>4. Typed(t)
  BY <1>2, DropOutputType
<1>5. /\ NoOutput(t) /\ SameBuffer(c, t) /\ SameAio(c, t) /\ SameFiles(c, t)
      /\ t.pipe = c.pipe /\ t.lost = c.lost \cup Dropped(c.output, why)
  BY <1>2 DEF DropOutput, free_output, Typed, StateSet, NoOutput, SameBuffer,
              SameAio, SameFiles
<1> HIDE DEF t
<1>6. UnusedFile(s, t)
  BY <1>1, <1>3, <1>5 DEF Opened, NewFile, UnusedFile, SameFiles
<1>7. DumpLost(s, t)
  BY <1>1, <1>3, <1>5, <1>6 DEF Opened, DumpLost, NoBuffer, SameBuffer,
                                SamePipe, SameAio
<1>8. t \in G
  BY <1>4, <1>7, Moved DEF Move, Typed
<1> QED
  BY <1>8 DEF t, c, o

\* The outcomes of async_dump_data.
LEMMA AsyncDumpMoves ==
  ASSUME NEW G, Closed(G), NEW s \in G, Base(s), "async" \notin s.active,
         posix_aio
  PROVE  async_dump_data(s) \subseteq G
<1> DEFINE o == open_dump_file(join_buffers(s))
           q == [free_output(o) EXCEPT !.active = @ \cup {"async"},
                                       !.aio = "inflight", !.aio_buf = o.output]
<1>1. Opened(s, o)
  BY JoinOpenMoves
<1>2. q \in async_dump_data(s)
  BY Zenon DEF async_dump_data
<1>3. q \in StateSet
  BY <1>2, AsyncDumpGood DEF Good, Base, Typed
<1>4. \A t \in async_dump_data(s) :
        \/ t = DropOutput(join_buffers(s), "mkstemp")
        \/ t = DropOutput(close_dump_file(o), "queue")
        \/ t = q
  BY Zenon DEF async_dump_data
<1> HIDE DEF o
<1>5. /\ NoOutput(q) /\ SameBuffer(o, q) /\ SamePipe(o, q) /\ SameFiles(o, q)
      /\ q.aio = "inflight" /\ q.aio_buf = o.output
  BY <1>1, <1>3 DEF free_output, Opened, StateSet, NoOutput, SameBuffer,
                    SamePipe, SameFiles
<1> HIDE DEF q
<1>6. s.aio = "none"
  BY DEF Base, Typed
<1>7. DumpQueued(s, q)
  BY <1>1, <1>5, <1>6 DEF DumpQueued, Opened, NoBuffer, SameBuffer, SamePipe,
                          SameFiles, NewFile
<1>8. q \in G
  BY <1>3, <1>7, Moved DEF Move
<1>9. "queue" \in Reasons \ {"torn"}
  BY DEF Reasons
<1>10. DropOutput(close_dump_file(o), "queue") \in G
  BY <1>6, <1>9, OpenDropMoves DEF o
<1> QED
  BY <1>4, <1>6, <1>8, <1>10, JoinDropMoves

\* A backlog that has to go through a file.
LEMMA StartDumpMoves ==
  ASSUME NEW G, Closed(G), NEW s \in G, Base(s)
  PROVE  StartDump(s) \subseteq G
<1> DEFINE t == [s EXCEPT !.active = @ \ {"write"}]
           i == [t EXCEPT !.active = @ \cup {"idle", "timeout"}]
<1>1. /\ t \in StateSet /\ t.active = s.active \ {"write"} /\ t.fd = s.fd
      /\ Kept(s, t)
  BY DEF Base, Typed, StateSet, Kept, SameOutput, SameBuffer, SamePipe,
         SameFiles, SameAio
<1>2. i \in StateSet /\ Kept(t, i)
  BY <1>1 DEF StateSet, Watchers, Kept, SameOutput, SameBuffer, SamePipe,
              SameFiles, SameAio
<1>3. StartDump(s) =
        CASE posix_aio /\ "async" \in s.active    -> {t}
          [] posix_aio /\ "async" \notin s.active -> async_dump_data(t)
          [] ~posix_aio /\ "idle" \in s.active    -> {t}
          [] ~posix_aio /\ "idle" \notin s.active -> {i}
  BY Zenon DEF StartDump
<1> HIDE DEF t, i
<1>4. Base(t)
  BY <1>1 DEF Base, Typed, Kept, SameOutput, SameBuffer, SameAio
<1>5. t \in G /\ i \in G
  BY <1>1, <1>2, KeptMove
<1>6. CASE "async" \in s.active /\ posix_aio
  BY <1>3, <1>5, <1>6
<1>7. CASE "async" \notin s.active /\ posix_aio
  BY <1>1, <1>3, <1>4, <1>5, <1>7, AsyncDumpMoves
<1>8. CASE "idle" \in s.active /\ ~posix_aio
  BY <1>3, <1>5, <1>8
<1>9. CASE "idle" \notin s.active /\ ~posix_aio
  BY <1>3, <1>5, <1>9
<1> QED
  BY <1>6, <1>7, <1>8, <1>9

\* dispatch_data, whatever it decides.
LEMMA DispatchMoves ==
  ASSUME NEW G, Closed(G), NEW s \in G, Base(s), nagios \in BOOLEAN
  PROVE  dispatch_data(s) \subseteq G
<1>1. CASE s.fd = "closed"
  BY <1>1 DEF dispatch_data
<1>2. CASE s.fd # "closed" /\ buffers_exceed_pipe_size(s)
  BY <1>2, StartDumpMoves DEF dispatch_data
<1>3. CASE /\ s.fd # "closed" /\ ~buffers_exceed_pipe_size(s)
           /\ "write" \in s.active
  BY <1>3 DEF dispatch_data
<1>4. CASE /\ s.fd # "closed" /\ ~buffers_exceed_pipe_size(s)
           /\ "write" \notin s.active
  <2> DEFINE t == [s EXCEPT !.active = @ \cup {"write"}]
  <2>1. /\ t \in StateSet /\ t.fd = s.fd /\ t.active = s.active \cup {"write"}
        /\ Kept(s, t)
    BY DEF Base, Typed, StateSet, Watchers, Kept, SameOutput, SameBuffer,
           SamePipe, SameFiles, SameAio
  <2>2. dispatch_data(s) = write_cb(t)
    BY <1>4, Zenon DEF dispatch_data
  <2>3. s.fd = "open"
    BY <1>4 DEF Base, Typed, StateSet
  <2> HIDE DEF t
  <2>4. Base(t)
    BY <2>1, <2>3 DEF Base, Typed, Kept, SameOutput, SameBuffer, SameAio
  <2>5. Writing(t)
    BY <1>4, <2>1, <2>4 DEF Writing, buffers_exceed_pipe_size, Kept,
                            SameOutput, SameBuffer
  <2>6. t \in G
    BY <2>1, KeptMove
  <2> QED
    BY <2>2, <2>5, <2>6, WriteCbMoves
<1> QED
  BY <1>1, <1>2, <1>3, <1>4

\* fifo_write leads from G to H if adding the data does.
LEMMA FifoWriteMoves ==
  ASSUME NEW G, Closed(G), NEW H, Closed(H), NEW s \in G, Base(s),
         nagios \in BOOLEAN, NEW item \in Item,
         \A p \in G : \A u \in StateSet : Enqueued(p, u, item) => u \in H
  PROVE  fifo_write(s, item) \subseteq H
<1>1. item.size \in Nat /\ item.size # 0
  BY DEF Item
<1>2. CASE buffers_are_empty(s)
  <2> DEFINE u == [s EXCEPT !.output = <<item>>, !.output_size = item.size]
  <2>1. <<item>> \in Seq(Item) /\ <<item>> # <<>>
    BY AppendNotEmpty, EmptySeq
  <2>2. /\ u \in StateSet /\ u.fd = s.fd /\ u.active = s.active
        /\ u.output = <<item>> /\ u.output_size = item.size
        /\ SameBuffer(s, u) /\ SamePipe(s, u) /\ SameFiles(s, u) /\ SameAio(s, u)
    BY <1>1, <2>1 DEF Base, Typed, StateSet, SameBuffer, SamePipe, SameFiles,
                      SameAio
  <2>3. fifo_write(s, item) = dispatch_data(u)
    BY <1>2, Zenon DEF fifo_write
  <2> HIDE DEF u
  <2>4. Base(u)
    BY <1>1, <2>1, <2>2 DEF Base, Typed, SameBuffer, SameAio
  <2>5. u \in H
    BY <1>2, <2>2 DEF Enqueued, buffers_are_empty, Base, Typed
  <2> QED
    BY <2>3, <2>4, <2>5, DispatchMoves
<1>3. CASE ~buffers_are_empty(s)
  <2> DEFINE p == Purge(s, item.size)
             u == [p EXCEPT !.output_buffer = Append(@, item),
                            !.buffer_size = @ + item.size]
  <2>1. "purged" \in Reasons \ {"torn"}
    BY DEF Reasons
  <2>2. Dropped(s.output_buffer, "purged") \subseteq Losses
    BY <2>1, DroppedType DEF Base, Typed, StateSet
  <2>3. /\ p \in StateSet /\ p.fd = s.fd /\ p.active = s.active
        /\ SameOutput(s, p) /\ SameAio(s, p)
        /\ Kept(s, p) \/ Purged(s, p)
        /\ MaxQueueSize > 0 =>
             p.buffer_size = 0 \/ p.buffer_size + item.size <= MaxQueueSize
    <3>1. CASE MaxQueueSize > 0 /\ s.buffer_size + item.size > MaxQueueSize
      BY <2>2, <3>1, EmptySeq
         DEF Purge, Base, Typed, StateSet, Purged, SameOutput, SameAio, NoBuffer,
             SameFiles
    <3>2. CASE ~(MaxQueueSize > 0 /\ s.buffer_size + item.size > MaxQueueSize)
      <4>1. p = s
        BY <3>2 DEF Purge
      <4>2. s \in StateSet /\ s.buffer_size \in Nat
        BY DEF Base, Typed, StateSet
      <4> QED
        BY <1>1, <3>2, <4>1, <4>2, FifoAssumption
           DEF Kept, SameOutput, SameBuffer, SamePipe, SameFiles, SameAio
    <3> QED
      BY <3>1, <3>2
  <2>4. fifo_write(s, item) = dispatch_data(u)
    BY <1>3, Zenon DEF fifo_write
  <2> HIDE DEF p
  <2>5. p \in G
    BY <2>3, Moved DEF Move
  <2>6. /\ Append(p.output_buffer, item) \in Seq(Item)
        /\ Append(p.output_buffer, item) # <<>>
        /\ p.buffer_size + item.size \in Nat
        /\ p.buffer_size + item.size # 0
    <3>1. p.output_buffer \in Seq(Item) /\ p.buffer_size \in Nat
      BY <2>3 DEF StateSet
    <3>2. /\ Append(p.output_buffer, item) \in Seq(Item)
          /\ Append(p.output_buffer, item) # <<>>
      BY <3>1, AppendNotEmpty
    <3> QED
      BY <1>1, <3>1, <3>2
  <2>7. /\ u \in StateSet /\ u.fd = p.fd /\ u.active = p.active
        /\ u.output_buffer = Append(p.output_buffer, item)
        /\ u.buffer_size = p.buffer_size + item.size
        /\ SameOutput(p, u) /\ SamePipe(p, u) /\ SameFiles(p, u) /\ SameAio(p, u)
    BY <2>3, <2>6 DEF StateSet, SameOutput, SamePipe, SameFiles, SameAio
  <2> HIDE DEF u
  <2>8. Base(u)
    BY <2>3, <2>6, <2>7 DEF Base, Typed, SameOutput, SameAio
  <2>9. u \in H
    BY <2>3, <2>5, <2>7 DEF Enqueued
  <2> QED
    BY <2>4, <2>8, <2>9, DispatchMoves
<1> QED
  BY <1>2, <1>3

\* A finished dump: its file is closed, and its reference queued or lost.
LEMMA AnnounceMoves ==
  ASSUME NEW G, Closed(G), NEW H, Closed(H), NEW s, Base(s),
         nagios \in BOOLEAN,
         \A c \in StateSet : FileClosed(s, c) => c \in G,
         LET ref == make_process_file_command(s)
         IN \A p \in G : \A u \in StateSet :
              Enqueued(p, u, ref) \/ ReferenceLost(p, u, ref) => u \in H
  PROVE  Announce(s) \subseteq H
<1> DEFINE ref == make_process_file_command(s)
           c == close_dump_file(s)
           d == [c EXCEPT !.lost = @ \cup Dropped(<<ref>>, "close")]
<1>1. ref \in Item
  <2>1. s.dump_file \in Nat
    BY DEF Base, Typed, StateSet
  <2> QED
    BY <2>1, FifoAssumption DEF make_process_file_command, Item
<1>2. Typed(c) /\ c.fd = s.fd /\ c.active = s.active
  BY CloseDumpFile DEF Base
<1>3. \A t \in Announce(s) : t \in fifo_write(c, ref) \/ t = d
  BY Zenon DEF Announce
<1>4. FileClosed(s, c)
  BY <1>2 DEF close_dump_file, Base, Typed, StateSet, FileClosed, SameOutput,
              SameBuffer, SamePipe, SameAio
<1>5. \A p \in G : \A u \in StateSet :
         Enqueued(p, u, ref) \/ ReferenceLost(p, u, ref) => u \in H
  OBVIOUS
<1> HIDE DEF ref, c
<1>6. c \in G /\ Base(c)
  BY <1>2, <1>4 DEF Base, Typed
<1>7. fifo_write(c, ref) \subseteq H
  BY <1>1, <1>5, <1>6, FifoWriteMoves
<1>8. Dropped(<<ref>>, "close") \subseteq Losses
  <2>1. <<ref>> \in Seq(Item)
    BY <1>1, SingletonSeq
  <2>2. "close" \in Reasons \ {"torn"}
    BY DEF Reasons
  <2> QED
    BY <2>1, <2>2, DroppedType
<1>9. d \in StateSet /\ ReferenceLost(c, d, ref)
  BY <1>2, <1>8 DEF Typed, StateSet, ReferenceLost, SameOutput, SameBuffer,
                    SameFiles, SameAio
<1> HIDE DEF d
<1>10. d \in H
  BY <1>5, <1>6, <1>9
<1> QED
  BY <1>3, <1>7, <1>10

\* async_cb looks at the queue again.
LEMMA RedispatchMoves ==
  ASSUME NEW G, Closed(G), NEW s \in G, Base(s), nagios \in BOOLEAN
  PROVE  Redispatch(s) \subseteq G
<1>1. CASE buffers_exceed_pipe_size(s)
  BY <1>1, DispatchMoves DEF Redispatch
<1>2. CASE ~buffers_exceed_pipe_size(s)
  BY <1>2 DEF Redispatch
<1> QED
  BY <1>1, <1>2

-----------------------------------------------------------------------------
(* The callbacks.                                                          *)

\* async_cb leads to H if the failure of the request does, and if storing the
\* data, closing the file (to G) and announcing it do.
LEMMA AsyncCbMoves ==
  ASSUME NEW G, Closed(G), NEW H, Closed(H), NEW s, Good(s),
         "async" \in s.active, nagios \in BOOLEAN,
         \A t \in StateSet : AioLost(s, t) => t \in H,
         \A w, c \in StateSet : AioStored(s, w) /\ FileClosed(w, c) => c \in G,
         LET ref == make_process_file_command(s)
         IN \A p \in G : \A u \in StateSet :
              Enqueued(p, u, ref) \/ ReferenceLost(p, u, ref) => u \in H
  PROVE  async_cb(s) \subseteq H
<1> DEFINE r == [s EXCEPT !.active = @ \ {"async"}, !.aio = "none",
                          !.aio_buf = <<>>]
           f == [r EXCEPT !.lost = @ \cup Dropped(s.aio_buf, "dump")]
           w == [r EXCEPT !.files[s.dump_file] = s.aio_buf]
<1>1. /\ r \in StateSet /\ r.fd = s.fd /\ r.active = s.active \ {"async"}
      /\ r.aio = "none" /\ r.aio_buf = <<>>
      /\ SameOutput(s, r) /\ SameBuffer(s, r) /\ SamePipe(s, r) /\ SameFiles(s, r)
  BY EmptySeq DEF Good, Base, Typed, StateSet, SameOutput, SameBuffer, SamePipe,
                  SameFiles
<1>2. async_cb(s) = IF s.aio = "failed" THEN Redispatch(f)
                    ELSE UNION {Redispatch(t) : t \in Announce(w)}
  BY Zenon DEF async_cb
<1>3. Dropped(s.aio_buf, "dump") \subseteq Losses
  <2>1. "dump" \in Reasons \ {"torn"}
    BY DEF Reasons
  <2> QED
    BY <2>1, DroppedType DEF Good, Base, Typed, StateSet
<1>4. [r.files EXCEPT ![s.dump_file] = s.aio_buf] \in Seq(Seq(Item))
  <2>1. s.files \in Seq(Seq(Item)) /\ s.aio_buf \in Seq(Item)
    BY DEF Good, Base, Typed, StateSet
  <2> QED
    BY <1>1, <2>1, StoreFile DEF SameFiles
<1> HIDE DEF r
<1>5. /\ f \in StateSet /\ f.fd = r.fd /\ f.active = r.active
      /\ SameOutput(r, f) /\ SameBuffer(r, f) /\ SameFiles(r, f) /\ SameAio(r, f)
      /\ f.pipe = r.pipe /\ f.lost = r.lost \cup Dropped(s.aio_buf, "dump")
  BY <1>1, <1>3 DEF StateSet, SameOutput, SameBuffer, SameFiles, SameAio
<1>6. /\ w \in StateSet /\ w.fd = r.fd /\ w.active = r.active
      /\ SameOutput(r, w) /\ SameBuffer(r, w) /\ SamePipe(r, w) /\ SameAio(r, w)
      /\ w.files = [r.files EXCEPT ![s.dump_file] = s.aio_buf]
      /\ w.dump_file = r.dump_file /\ w.dump_fds = r.dump_fds
  BY <1>1, <1>4 DEF StateSet, SameOutput, SameBuffer, SamePipe, SameAio
<1> HIDE DEF f, w
<1>7. AioLost(s, f) /\ AioStored(s, w)
  BY <1>1, <1>5, <1>6 DEF AioLost, AioStored, SameOutput, SameBuffer, SamePipe,
                          SameFiles, SameAio
<1>8. Base(f) /\ Base(w)
  BY <1>1, <1>5, <1>6, <1>7 DEF Good, Base, Typed, AioLost, AioStored,
                                SameOutput, SameBuffer
<1>9. Redispatch(f) \subseteq H
  BY <1>5, <1>7, <1>8, RedispatchMoves
<1>10. make_process_file_command(w) = make_process_file_command(s)
  BY <1>7 DEF make_process_file_command, AioStored
<1>11. Announce(w) \subseteq H
  <2>1. \A c \in StateSet : FileClosed(w, c) => c \in G
    BY <1>6, <1>7
  <2> QED
    BY <1>8, <1>10, <2>1, AnnounceMoves
<1>12. \A t \in Announce(w) : Base(t)
  <2>1. Pending(w)
    BY <1>1, <1>6, <1>7, <1>8
       DEF Good, Pending, buffers_are_empty, buffers_exceed_pipe_size,
           AioStored, SameOutput, SameBuffer
  <2> QED
    BY <1>8, <2>1, AnnounceGood DEF Pending
<1>13. \A t \in Announce(w) : Redispatch(t) \subseteq H
  BY <1>11, <1>12, RedispatchMoves
<1> QED
  BY <1>2, <1>9, <1>13

\* The same for the synchronous dump.
LEMMA SyncDumpMoves ==
  ASSUME NEW F, Closed(F), NEW G, Closed(G), NEW H, Closed(H), F \subseteq H,
         NEW s \in F, Base(s), s.aio = "none", nagios \in BOOLEAN,
         \A w, c \in StateSet : DumpStored(s, w) /\ FileClosed(w, c) => c \in G,
         \A w \in StateSet : DumpStored(s, w) =>
           LET ref == make_process_file_command(w)
           IN \A p \in G : \A u \in StateSet :
                Enqueued(p, u, ref) \/ ReferenceLost(p, u, ref) => u \in H
  PROVE  sync_dump_data(s) \subseteq H
<1> DEFINE j == join_buffers(s)
           o == open_dump_file(j)
           g == free_output(o)
           w == [g EXCEPT !.files[o.dump_file] = o.output]
<1>1. Opened(s, o)
  BY JoinOpenMoves
<1>2. Typed(o) /\ o.fd = s.fd /\ o.active = s.active
  BY JoinBuffers, OpenDumpFile DEF Base
<1>3. \A t \in sync_dump_data(s) :
        \/ t = DropOutput(j, "mkstemp") \/ t = DropOutput(close_dump_file(o), "dump")
        \/ t \in Announce(w)
  BY Zenon DEF sync_dump_data
<1>4. DropOutput(j, "mkstemp") \in F
  BY JoinDropMoves
<1>5. DropOutput(close_dump_file(o), "dump") \in F
  <2>1. "dump" \in Reasons \ {"torn"}
    BY DEF Reasons
  <2> QED
    BY <2>1, OpenDropMoves
<1> HIDE DEF o
<1>6. /\ g \in StateSet /\ g.fd = o.fd /\ g.active = o.active /\ NoOutput(g)
      /\ SameBuffer(o, g) /\ SamePipe(o, g) /\ SameFiles(o, g) /\ SameAio(o, g)
  BY <1>2, EmptySeq DEF Typed, StateSet, free_output, NoOutput, SameBuffer,
                        SamePipe, SameFiles, SameAio
<1> HIDE DEF g
<1>7. [g.files EXCEPT ![o.dump_file] = o.output]
        = Append(s.files, s.output \o s.output_buffer)
  <2>1. /\ g.files = Append(s.files, <<>>) /\ o.dump_file = Len(s.files) + 1
        /\ o.output = s.output \o s.output_buffer
    BY <1>1, <1>6 DEF Opened, NewFile, SameFiles
  <2>2. s.files \in Seq(Seq(Item)) /\ s.output \o s.output_buffer \in Seq(Item)
    BY ConcatProperties DEF Base, Typed, StateSet
  <2>3. <<>> \in Seq(Item)
    BY EmptySeq
  <2>4. StoreAt(g.files, o.dump_file, o.output)
          = Append(s.files, s.output \o s.output_buffer)
    <3>1. StoreAt(Append(s.files, <<>>), Len(s.files) + 1, s.output \o s.output_buffer)
            = Append(s.files, s.output \o s.output_buffer)
      BY <2>2, <2>3, StoreLast, Zenon
    <3> QED BY <2>1, <3>1, Zenon
  <2> QED
    BY <2>4 DEF StoreAt
<1>8. /\ w \in StateSet /\ w.fd = g.fd /\ w.active = g.active
      /\ SameOutput(g, w) /\ SameBuffer(g, w) /\ SamePipe(g, w) /\ SameAio(g, w)
      /\ w.files = Append(s.files, s.output \o s.output_buffer)
      /\ w.dump_file = g.dump_file /\ w.dump_fds = g.dump_fds
  <2>1. Append(s.files, s.output \o s.output_buffer) \in Seq(Seq(Item))
    <3>1. s.files \in Seq(Seq(Item)) /\ s.output \o s.output_buffer \in Seq(Item)
      BY ConcatProperties DEF Base, Typed, StateSet
    <3> QED BY <3>1, AppendProperties
  <2> QED
    BY <1>6, <1>7, <2>1 DEF StateSet, SameOutput, SameBuffer, SamePipe, SameAio
<1> HIDE DEF w
<1>9. DumpStored(s, w)
  BY <1>1, <1>6, <1>8 DEF Opened, DumpStored, NewFile, NoOutput, NoBuffer,
                          SameOutput, SameBuffer, SamePipe, SameFiles, SameAio
<1>10. Base(w)
  <2>1. w.fd = s.fd /\ w.active = s.active /\ NoOutput(w) /\ NoBuffer(w)
        /\ w.aio = s.aio /\ w \in StateSet
    BY <1>2, <1>6, <1>8, <1>9 DEF DumpStored, SameAio
  <2>2. Typed(w)
    BY <2>1 DEF Base, Typed, NoOutput, NoBuffer
  <2> QED
    BY <2>1, <2>2 DEF Base
<1>11. Announce(w) \subseteq H
  <2>1. \A c \in StateSet : FileClosed(w, c) => c \in G
    BY <1>8, <1>9
  <2>2. LET ref == make_process_file_command(w)
        IN \A p \in G : \A u \in StateSet :
             Enqueued(p, u, ref) \/ ReferenceLost(p, u, ref) => u \in H
    BY <1>8, <1>9
  <2> QED
    BY <1>10, <2>1, <2>2, AnnounceMoves
<1> QED
  BY <1>3, <1>4, <1>5, <1>11

\* idle_cb is sync_dump_data after two watchers were stopped.
LEMMA IdleCbMoves ==
  ASSUME NEW F, Closed(F), NEW G, Closed(G), NEW H, Closed(H), F \subseteq H,
         NEW s \in F, Good(s), "idle" \in s.active, nagios \in BOOLEAN,
         \A v, w, c \in StateSet :
           Kept(s, v) /\ DumpStored(v, w) /\ FileClosed(w, c) => c \in G,
         \A v, w \in StateSet : Kept(s, v) /\ DumpStored(v, w) =>
           LET ref == make_process_file_command(w)
           IN \A p \in G : \A u \in StateSet :
                Enqueued(p, u, ref) \/ ReferenceLost(p, u, ref) => u \in H
  PROVE  idle_cb(s) \subseteq H
<1> DEFINE u == [s EXCEPT !.active = @ \ {"idle", "timeout"}]
<1>1. /\ u \in StateSet /\ u.fd = s.fd
      /\ u.active = s.active \ {"idle", "timeout"} /\ Kept(s, u)
  BY DEF Good, Base, Typed, StateSet, Kept, SameOutput, SameBuffer, SamePipe,
         SameFiles, SameAio
<1>2. idle_cb(s) = sync_dump_data(u)
  BY Zenon DEF idle_cb
<1> HIDE DEF u
<1>3. Base(u)
  BY <1>1 DEF Good, Base, Typed, Kept, SameOutput, SameBuffer, SameAio
<1>4. u \in F
  BY <1>1, KeptMove
<1>5. \A w, c \in StateSet : DumpStored(u, w) /\ FileClosed(w, c) => c \in G
  BY <1>1
<1>6. \A w \in StateSet : DumpStored(u, w) =>
        LET ref == make_process_file_command(w)
        IN \A p \in G : \A x \in StateSet :
             Enqueued(p, x, ref) \/ ReferenceLost(p, x, ref) => x \in H
  BY <1>1
<1>7. sync_dump_data(u) \subseteq H
  <2>1. u.aio = "none"
    BY <1>1 DEF Good, Base, Typed, Kept, SameAio
  <2> QED
    BY <1>3, <1>4, <1>5, <1>6, <2>1, SyncDumpMoves
<1> QED
  BY <1>2, <1>7

\* open_cb, from the timer and from fifo_start.
LEMMA OpenCbMoves ==
  ASSUME NEW G, Closed(G), NEW s \in G,
         (Good(s) /\ s.fd = "closed") \/ Stopped(s), nagios \in BOOLEAN
  PROVE  open_cb(s) \subseteq G
<1> DEFINE o == [s EXCEPT !.fd = "open", !.active = @ \ {"open"}]
           u == [s EXCEPT !.active = @ \cup {"open"}]
<1>1. Typed(s) /\ s.fd = "closed" /\ "write" \notin s.active
  BY DEF Good, Base, Stopped
<1>2. /\ o \in StateSet /\ o.fd = "open" /\ o.active = s.active \ {"open"}
      /\ Kept(s, o)
  BY <1>1 DEF Typed, StateSet, Kept, SameOutput, SameBuffer, SamePipe,
              SameFiles, SameAio
<1>3. u \in StateSet /\ Kept(s, u)
  BY <1>1 DEF Typed, StateSet, Watchers, Kept, SameOutput, SameBuffer, SamePipe,
              SameFiles, SameAio
<1>4. \A t \in open_cb(s) : t = u \/ t = o \/ t \in dispatch_data(o)
  BY Zenon DEF open_cb
<1> HIDE DEF o, u
<1>5. Base(o)
  BY <1>1, <1>2 DEF Base, Typed, Kept, SameOutput, SameBuffer, SameAio
<1>6. o \in G /\ u \in G
  BY <1>2, <1>3, KeptMove
<1>7. dispatch_data(o) \subseteq G
  BY <1>5, <1>6, DispatchMoves
<1> QED
  BY <1>4, <1>6, <1>7

\* A reference to a dump file, as make_process_file_command builds it.
Reference(f) == [kind |-> "ref", id |-> f, size |-> RefSize]

\* Closed under everything the callbacks do.
ClosedUnderCallbacks(G) ==
  /\ Closed(G)
  /\ \A s \in G : \A t \in StateSet :
       AioLost(s, t) \/ AioStored(s, t) \/ DumpStored(s, t) \/ FileClosed(s, t)
         => t \in G
  /\ \A s \in G : \A t \in StateSet : \A f \in Nat :
       Enqueued(s, t, Reference(f)) \/ ReferenceLost(s, t, Reference(f))
         => t \in G

\* The callbacks that only write.
LEMMA WriterMoves ==
  ASSUME NEW G, Closed(G), Inv, State \in G,
         fifo_start \/ OpenTimer \/ WriteReady
  PROVE  State' \in G
<1>0. nagios \in BOOLEAN
  BY DEF Inv, TypeOK
<1>1. ASSUME NEW t, t \in StateSet, Become(t), t \in G PROVE State' \in G
  BY <1>1, BecomeState
<1>2. CASE fifo_start \/ OpenTimer
  <2>1. PICK t \in open_cb(State) : Become(t)
    BY <1>2 DEF fifo_start, OpenTimer, Callback
  <2>2. (Good(State) /\ State.fd = "closed") \/ Stopped(State)
    BY <1>2, StateFields DEF fifo_start, OpenTimer, Callback, Inv, Good, Base
  <2>3. t \in G /\ t \in StateSet
    BY <1>0, <2>2, OpenCbMoves, OpenCbGood DEF Good, Base, Typed
  <2> QED BY <1>1, <2>1, <2>3
<1>3. CASE WriteReady
  <2>1. PICK t \in write_cb(State) : Become(t)
    BY <1>3 DEF WriteReady, Callback
  <2>2. Writing(State)
    BY <1>3, StateFields DEF WriteReady, Callback, Inv, Good, Writing
  <2>3. t \in G /\ t \in StateSet
    BY <1>0, <2>2, WriteCbMoves, WriteCbGood DEF Good, Base, Typed
  <2> QED BY <1>1, <2>1, <2>3
<1> QED
  BY <1>2, <1>3

\* The end of an AIO request.
LEMMA AsyncMoves ==
  ASSUME NEW G, Closed(G), NEW H, Closed(H), Inv, AsyncReady,
         \A t \in StateSet : AioLost(State, t) => t \in H,
         \A w, c \in StateSet :
           AioStored(State, w) /\ FileClosed(w, c) => c \in G,
         \A p \in G : \A u \in StateSet :
           Enqueued(p, u, Reference(dump_file)) \/ ReferenceLost(p, u, Reference(dump_file))
             => u \in H
  PROVE  State' \in H
<1>0. nagios \in BOOLEAN
  BY DEF Inv, TypeOK
<1>1. PICK t \in async_cb(State) : Become(t)
  BY DEF AsyncReady, Callback
<1>2. Good(State) /\ "async" \in State.active
  BY StateFields DEF AsyncReady, Callback, Inv
<1>3. make_process_file_command(State) = Reference(dump_file)
  BY StateFields DEF make_process_file_command, Reference
<1>4. t \in H
  BY <1>0, <1>2, <1>3, AsyncCbMoves
<1>5. t \in StateSet
  BY <1>0, <1>2, AsyncCbGood DEF Good, Base, Typed
<1> QED
  BY <1>1, <1>4, <1>5, BecomeState

\* The synchronous dump.
LEMMA IdleMoves ==
  ASSUME NEW F, Closed(F), NEW G, Closed(G), NEW H, Closed(H), F \subseteq H,
         Inv, State \in F, IdleReady \/ IdleTimeout,
         \A v, w, c \in StateSet :
           Kept(State, v) /\ DumpStored(v, w) /\ FileClosed(w, c) => c \in G,
         \A p \in G : \A u \in StateSet :
           Enqueued(p, u, Reference(Len(files) + 1))
             \/ ReferenceLost(p, u, Reference(Len(files) + 1))
           => u \in H
  PROVE  State' \in H
<1>0. nagios \in BOOLEAN
  BY DEF Inv, TypeOK
<1>1. PICK t \in idle_cb(State) : Become(t)
  BY DEF IdleReady, IdleTimeout, Callback
<1>2. Good(State) /\ "idle" \in State.active
  BY StateFields DEF IdleReady, IdleTimeout, Callback, Inv, Good, Base, Typed
<1>3. ASSUME NEW v \in StateSet, NEW w \in StateSet, Kept(State, v),
             DumpStored(v, w)
      PROVE  make_process_file_command(w) = Reference(Len(files) + 1)
  <2>1. w.dump_file = Len(files) + 1
    BY <1>3, StateFields DEF Kept, SameFiles, DumpStored, NewFile
  <2> QED BY <2>1 DEF make_process_file_command, Reference
<1>4. \A v, w \in StateSet : Kept(State, v) /\ DumpStored(v, w) =>
        LET ref == make_process_file_command(w)
        IN \A p \in G : \A u \in StateSet :
             Enqueued(p, u, ref) \/ ReferenceLost(p, u, ref) => u \in H
  <2> SUFFICES ASSUME NEW v \in StateSet, NEW w \in StateSet, Kept(State, v),
                      DumpStored(v, w)
               PROVE  LET ref == make_process_file_command(w)
                      IN \A p \in G : \A u \in StateSet :
                           Enqueued(p, u, ref) \/ ReferenceLost(p, u, ref)
                             => u \in H
    OBVIOUS
  <2>1. make_process_file_command(w) = Reference(Len(files) + 1)
    BY <1>3
  <2> QED BY <2>1, Zenon
<1>5. t \in H
  BY <1>0, <1>2, <1>4, IdleCbMoves
<1>6. t \in StateSet
  BY <1>0, <1>2, IdleCbGood DEF Good, Base, Typed
<1> QED
  BY <1>1, <1>5, <1>6, BecomeState

\* A callback does not leave a set that is closed under what callbacks do.
LEMMA CallbackMoves ==
  ASSUME NEW G, ClosedUnderCallbacks(G), Inv, State \in G,
         \/ fifo_start \/ OpenTimer \/ WriteReady \/ AsyncReady
         \/ IdleReady \/ IdleTimeout
  PROVE  State' \in G
<1>1. Closed(G) /\ G \subseteq G
  BY DEF ClosedUnderCallbacks
<1>2. \A f \in Nat : \A p \in G : \A u \in StateSet :
        Enqueued(p, u, Reference(f)) \/ ReferenceLost(p, u, Reference(f))
          => u \in G
  BY DEF ClosedUnderCallbacks
<1>3. \A v \in G : \A w \in StateSet :
        AioLost(v, w) \/ AioStored(v, w) \/ DumpStored(v, w) \/ FileClosed(v, w)
          => w \in G
  BY DEF ClosedUnderCallbacks
<1>4. CASE fifo_start \/ OpenTimer \/ WriteReady
  BY <1>1, <1>4, WriterMoves
<1>5. CASE AsyncReady
  <2>1. dump_file \in Nat
    BY DEF Inv, TypeOK
  <2> QED BY <1>1, <1>2, <1>3, <1>5, <2>1, AsyncMoves
<1>6. CASE IdleReady \/ IdleTimeout
  <2>1. Len(files) + 1 \in Nat
    BY LenProperties DEF Inv, TypeOK
  <2>2. \A v \in StateSet : Kept(State, v) => v \in G
    BY <1>1, KeptMove
  <2>3. \A v, w, c \in StateSet :
          Kept(State, v) /\ DumpStored(v, w) /\ FileClosed(w, c) => c \in G
    BY <1>3, <2>2
  <2> QED BY <1>1, <1>2, <1>6, <2>1, <2>3, IdleMoves
<1> QED
  BY <1>4, <1>5, <1>6

\* A push leads from G to H if adding its data does.
LEMMA PushMoves ==
  ASSUME NEW G, Closed(G), NEW H, Closed(H), Inv, State \in G, ServerPush,
         \A size \in Sizes : \A s \in G : \A t \in StateSet :
           Enqueued(s, t, Push(pushed + 1, size)) => t \in H
  PROVE  State' \in H
<1>0. nagios \in BOOLEAN /\ pushed \in Nat
  BY DEF Inv, TypeOK
<1>1. PICK size \in Sizes :
        \E t \in fifo_write(State, Push(pushed + 1, size)) : Become(t)
  BY DEF ServerPush
<1>2. PICK t \in fifo_write(State, Push(pushed + 1, size)) : Become(t)
  BY <1>1
<1>3. PICK item \in Item : item = Push(pushed + 1, size)
  BY <1>0, PushType
<1>4. Base(State)
  BY DEF ServerPush, Inv, Good
<1>5. \A s \in G : \A u \in StateSet : Enqueued(s, u, item) => u \in H
  BY <1>3
<1>6. t \in H
  BY <1>0, <1>2, <1>3, <1>4, <1>5, FifoWriteMoves
<1>7. t \in StateSet
  BY <1>0, <1>2, <1>3, <1>4, FifoWriteGood DEF Good, Base, Typed
<1> QED
  BY <1>2, <1>6, <1>7, BecomeState

\* Between two steps the state is a typed one.
LEMMA StateTyped == Inv => State \in StateSet
  BY DEF Inv, Good, Base, Stopped, Typed

\* fifo_stop drops what the process holds, and maybe what is in the pipe.
LEMMA StopMoves ==
  ASSUME Inv, fifo_stop
  PROVE  /\ output' = <<>> /\ output_size' = 0
         /\ output_buffer' = <<>> /\ buffer_size' = 0
         /\ aio_buf' = <<>> /\ aio' = "none"
         /\ dump_file' = 0 /\ dump_fds' = {} /\ files' = files
         /\ LET held == Dropped(output \o output_buffer \o aio_buf, "stopped")
            IN \/ pipe' = pipe /\ lost' = lost \cup held
               \/ /\ pipe' = <<>>
                  /\ lost' = (lost \cup Dropped(pipe, "hangup")) \cup held
<1> DEFINE c == CloseCommandFile(State)
           held == Dropped(output \o output_buffer \o aio_buf, "stopped")
           t == [c EXCEPT
                   !.output = <<>>, !.output_size = 0,
                   !.output_buffer = <<>>, !.buffer_size = 0,
                   !.active = {}, !.aio_buf = <<>>, !.aio = "none",
                   !.dump_file = 0, !.dump_fds = {},
                   !.lost = c.lost \cup held]
<1>1. State \in StateSet
  BY StateTyped
<1>2. Become(t)
  BY DEF fifo_stop
<1>3. Dropped(State.pipe, "hangup") \subseteq Losses
  <2>1. "hangup" \in Reasons \ {"torn"} /\ State.pipe \in Seq(Item)
    BY <1>1 DEF Reasons, StateSet
  <2> QED
    BY <2>1, DroppedType
<1>4. /\ c \in StateSet /\ c.files = State.files
      /\ \/ c.pipe = State.pipe /\ c.lost = State.lost
         \/ /\ c.pipe = <<>>
            /\ c.lost = State.lost \cup Dropped(State.pipe, "hangup")
  BY <1>1, <1>3, EmptySeq DEF CloseCommandFile, StateSet
<1> HIDE DEF c, held
<1>5. /\ t.output = <<>> /\ t.output_size = 0
      /\ t.output_buffer = <<>> /\ t.buffer_size = 0
      /\ t.aio_buf = <<>> /\ t.aio = "none"
      /\ t.dump_file = 0 /\ t.dump_fds = {} /\ t.files = c.files
      /\ t.pipe = c.pipe /\ t.lost = c.lost \cup held
  BY <1>4 DEF StateSet
<1> HIDE DEF t
<1>6. State.files = files /\ State.pipe = pipe /\ State.lost = lost
  BY StateFields
<1> QED
  BY <1>2, <1>4, <1>5, <1>6 DEF Become, held

-----------------------------------------------------------------------------
(***************************************************************************)
(* The data that fifo.c moves: the pushes stay in order, and the queue     *)
(* stays bounded.  Both are about the moves above, and say nothing of      *)
(* watchers and descriptors.                                               *)
(*                                                                         *)
(* The argument for the order.  The pipe, `output' and the queue are one   *)
(* line of waiting, and each move takes data from one of them to the next, *)
(* or drops it; so each is increasing and before the ones behind it, and   *)
(* the next push has a higher number than all of them.                     *)
(*                                                                         *)
(* The argument for the bound.  The size fields are the sums of the sizes  *)
(* of the data, and each is compared with its limit before data is added.  *)
(***************************************************************************)

(* Order.                                                                  *)

IsPush(item) == item.kind = "push"

\* All pushes in p are older than all in q.
Before(p, q) ==
  \A i \in 1..Len(p), j \in 1..Len(q) :
    IsPush(p[i]) /\ IsPush(q[j]) => p[i].id < q[j].id

\* No push in q is newer than the n-th.
UpTo(q, n) == \A i \in 1..Len(q) : IsPush(q[i]) => q[i].id <= n

\* A concatenation is in order if its parts are, and one is before the other.
LEMMA ConcatIncreasing ==
  ASSUME NEW p \in Seq(Item), NEW q \in Seq(Item),
         Increasing(p), Increasing(q), Before(p, q)
  PROVE  Increasing(p \o q)
<1>1. PICK m \in Nat, n \in Nat : m = Len(p) /\ n = Len(q)
  BY LenProperties
<1>2. PICK c \in Seq(Item) : c = p \o q
  BY ConcatProperties
<1>3. Len(c) = m + n
      /\ \A i \in 1..(m + n) : c[i] = IF i <= m THEN p[i] ELSE q[i - m]
  BY <1>1, <1>2, ConcatProperties
<1>4. Increasing(c)
  <2> SUFFICES ASSUME NEW i \in 1..(m + n), NEW j \in 1..(m + n), i < j,
                      c[i].kind = "push", c[j].kind = "push"
               PROVE  c[i].id < c[j].id
    BY <1>3 DEF Increasing
  <2>1. CASE j <= m
    <3>1. i \in 1..m /\ j \in 1..m /\ c[i] = p[i] /\ c[j] = p[j]
      BY <1>3, <2>1
    <3> QED BY <1>1, <3>1 DEF Increasing
  <2>2. CASE i <= m /\ ~(j <= m)
    <3>1. i \in 1..m /\ j - m \in 1..n /\ c[i] = p[i] /\ c[j] = q[j - m]
      BY <1>3, <2>2
    <3> QED BY <1>1, <3>1 DEF Before, IsPush
  <2>3. CASE ~(i <= m)
    <3>1. /\ i - m \in 1..n /\ j - m \in 1..n /\ i - m < j - m
          /\ c[i] = q[i - m] /\ c[j] = q[j - m]
      BY <1>3, <2>3
    <3> QED BY <1>1, <3>1 DEF Increasing
  <2> QED BY <2>1, <2>2, <2>3
<1> QED
  BY <1>2, <1>4

\* What holds of every element of both parts holds of the whole.
LEMMA ConcatElements ==
  ASSUME NEW p \in Seq(Item), NEW q \in Seq(Item), NEW k \in 1..Len(p \o q)
  PROVE  \/ \E i \in 1..Len(p) : (p \o q)[k] = p[i]
         \/ \E i \in 1..Len(q) : (p \o q)[k] = q[i]
<1>1. PICK m \in Nat, n \in Nat : m = Len(p) /\ n = Len(q)
  BY LenProperties
<1>2. PICK c \in Seq(Item) : c = p \o q
  BY ConcatProperties
<1>3. Len(c) = m + n
      /\ \A i \in 1..(m + n) : c[i] = IF i <= m THEN p[i] ELSE q[i - m]
  BY <1>1, <1>2, ConcatProperties
<1>4. k \in 1..(m + n)
  BY <1>2, <1>3
<1>5. CASE k <= m
  <2>1. k \in 1..m /\ c[k] = p[k]
    BY <1>3, <1>4, <1>5
  <2> QED BY <1>1, <1>2, <2>1
<1>6. CASE ~(k <= m)
  <2>1. k - m \in 1..n /\ c[k] = q[k - m]
    BY <1>3, <1>4, <1>6
  <2> QED BY <1>1, <1>2, <2>1
<1> QED
  BY <1>5, <1>6

\* So both parts of a concatenation have to be before, or behind.
LEMMA ConcatBefore ==
  ASSUME NEW p \in Seq(Item), NEW q \in Seq(Item), NEW r \in Seq(Item)
  PROVE  /\ Before(p, r) /\ Before(q, r) => Before(p \o q, r)
         /\ Before(r, p) /\ Before(r, q) => Before(r, p \o q)
<1>1. ASSUME Before(p, r), Before(q, r) PROVE Before(p \o q, r)
  BY <1>1, ConcatElements, SMTT(30) DEF Before
<1>2. ASSUME Before(r, p), Before(r, q) PROVE Before(r, p \o q)
  BY <1>2, ConcatElements DEF Before
<1> QED
  BY <1>1, <1>2

\* And no push of the whole is newer than those of its parts.
LEMMA ConcatUpTo ==
  ASSUME NEW p \in Seq(Item), NEW q \in Seq(Item), NEW n,
         UpTo(p, n), UpTo(q, n)
  PROVE  UpTo(p \o q, n)
  BY ConcatElements DEF UpTo

\* An empty queue is in order, and in order with every other.
LEMMA EmptyOrdered ==
  /\ Increasing(<<>>)
  /\ \A q : Before(<<>>, q) /\ Before(q, <<>>)
  /\ \A n : UpTo(<<>>, n)
  BY EmptySeq DEF Increasing, Before, UpTo

\* A single item: a reference does not matter, and the next push is the newest.
LEMMA SingleOrdered ==
  ASSUME NEW item \in Item
  PROVE  /\ Increasing(<<item>>)
         /\ ~IsPush(item) =>
              \A q : Before(<<item>>, q) /\ Before(q, <<item>>)
         /\ \A q \in Seq(Item), n \in Nat :
              UpTo(q, n) /\ n < item.id => Before(q, <<item>>)
         /\ \A n \in Nat : (IsPush(item) => item.id <= n) => UpTo(<<item>>, n)
<1>1. Len(<<item>>) = 1 /\ (<<item>>)[1] = item
  OBVIOUS
<1>2. PICK c : c = <<item>>
  OBVIOUS
<1>3. Len(c) = 1 /\ c[1] = item
  BY <1>1, <1>2
<1>4. \A i \in 1..Len(c) : i = 1
  BY <1>3
<1>5. Increasing(c)
  BY <1>3, <1>4 DEF Increasing
<1>6. ~IsPush(item) => \A q : Before(c, q) /\ Before(q, c)
  BY <1>3, <1>4 DEF Before
<1>7. ASSUME NEW q \in Seq(Item), NEW n \in Nat, UpTo(q, n), n < item.id
      PROVE  Before(q, c)
  <2>1. \A i \in 1..Len(q) : q[i].id \in Nat
    <3>1. \A i \in 1..Len(q) : q[i] \in Item
      BY ElementOfSeq
    <3> QED BY <3>1 DEF Item
  <2>2. item.id \in Nat
    BY DEF Item
  <2> QED
    BY <1>3, <1>4, <1>7, <2>1, <2>2 DEF Before, UpTo
<1>8. \A n \in Nat : (IsPush(item) => item.id <= n) => UpTo(c, n)
  BY <1>3, <1>4 DEF UpTo
<1> QED
  BY <1>2, <1>5, <1>6, <1>7, <1>8

\* The line of waiting: the pipe, `output' and the queue.
Line(p, o, b, n) ==
  /\ Increasing(p) /\ Increasing(o) /\ Increasing(b)
  /\ Before(p, o) /\ Before(p, b) /\ Before(o, b)
  /\ UpTo(p, n) /\ UpTo(o, n) /\ UpTo(b, n)

\* Its parts may be emptied, and may move on to the next empty place.
LEMMA LineMoves ==
  ASSUME NEW p \in Seq(Item), NEW o \in Seq(Item), NEW b \in Seq(Item),
         NEW n, Line(p, o, b, n)
  PROVE  /\ Line(p \o o, <<>>, b, n)
         /\ o = <<>> => Line(p, b, <<>>, n)
         /\ Line(<<>>, o, b, n) /\ Line(p, o, <<>>, n)
         /\ Line(p, <<>>, <<>>, n) /\ Line(<<>>, <<>>, <<>>, n)
         /\ Increasing(o \o b)
<1>1. Line(p \o o, <<>>, b, n)
  <2>1. Increasing(p \o o) /\ Before(p \o o, b) /\ UpTo(p \o o, n)
    BY ConcatIncreasing, ConcatBefore, ConcatUpTo DEF Line
  <2> QED BY <2>1, EmptyOrdered DEF Line
<1>2. o = <<>> => Line(p, b, <<>>, n)
  BY EmptyOrdered DEF Line
<1>3. /\ Line(<<>>, o, b, n) /\ Line(p, o, <<>>, n)
      /\ Line(p, <<>>, <<>>, n) /\ Line(<<>>, <<>>, <<>>, n)
  BY EmptyOrdered DEF Line
<1>4. Increasing(o \o b)
  BY ConcatIncreasing DEF Line
<1> QED
  BY <1>1, <1>2, <1>3, <1>4

\* A queue in order stays so, and stays in its place, when its front is taken.
LEMMA TailOrdered ==
  ASSUME NEW q \in Seq(Item), q # <<>>
  PROVE  /\ Increasing(q) => Increasing(Tail(q))
         /\ \A r : Before(q, r) => Before(Tail(q), r)
         /\ \A n : UpTo(q, n) => UpTo(Tail(q), n)
<1>1. PICK m \in Nat : m = Len(q)
  BY LenProperties
<1>2. PICK t \in Seq(Item) : t = Tail(q)
  BY HeadTailProperties
<1>3. Len(t) = m - 1 /\ \A i \in 1..(m - 1) : t[i] = q[i + 1] /\ i + 1 \in 1..m
  <2>1. Len(t) = m - 1
    BY <1>1, <1>2, HeadTailProperties
  <2> QED BY <1>2, <2>1, HeadTailProperties
<1>4. Increasing(q) => Increasing(t)
  <2> SUFFICES ASSUME Increasing(q), NEW i \in 1..(m - 1), NEW j \in 1..(m - 1),
                      i < j, t[i].kind = "push", t[j].kind = "push"
               PROVE  t[i].id < t[j].id
    BY <1>3 DEF Increasing
  <2>1. /\ t[i] = q[i + 1] /\ t[j] = q[j + 1]
        /\ i + 1 \in 1..m /\ j + 1 \in 1..m /\ i + 1 < j + 1
    BY <1>3
  <2> QED BY <1>1, <2>1 DEF Increasing
<1>5. \A r : Before(q, r) => Before(t, r)
  BY <1>1, <1>3 DEF Before
<1>6. \A n : UpTo(q, n) => UpTo(t, n)
  BY <1>1, <1>3 DEF UpTo
<1> QED
  BY <1>2, <1>4, <1>5, <1>6

\* Numbers only grow.
LEMMA UpToLater ==
  ASSUME NEW q \in Seq(Item), NEW n \in Nat, UpTo(q, n)
  PROVE  UpTo(q, n + 1)
<1>1. \A i \in 1..Len(q) : q[i] \in Item
  BY ElementOfSeq
<1>2. \A i \in 1..Len(q) : q[i].id \in Nat
  BY <1>1 DEF Item
<1> QED
  BY <1>2 DEF UpTo

\* The next push, and any reference, may be added at the end of the line.
LEMMA LineAdd ==
  ASSUME NEW p \in Seq(Item), NEW o \in Seq(Item), NEW b \in Seq(Item),
         NEW n \in Nat, NEW k \in {n, n + 1}, NEW item \in Item,
         IF IsPush(item) THEN item.id = n + 1 /\ k = n + 1 ELSE TRUE,
         Line(p, o, b, n)
  PROVE  /\ Line(p, o, Append(b, item), k)
         /\ b = <<>> => Line(p, <<item>>, b, k)
<1> DEFINE e == <<item>>
<1>1. e \in Seq(Item) /\ Append(b, item) = b \o e
  BY SingletonSeq, AppendIsConcat
<1>2. \A q \in {p, o, b} : Before(q, e) /\ UpTo(q, k)
  <2> TAKE q \in {p, o, b}
  <2>1. q \in Seq(Item) /\ UpTo(q, n)
    BY DEF Line
  <2>2. UpTo(q, k)
    BY <2>1, UpToLater
  <2>3. CASE IsPush(item)
    <3>1. n < item.id
      BY <2>3
    <3> QED BY <2>1, <2>2, <3>1, SingleOrdered
  <2>4. CASE ~IsPush(item)
    BY <2>2, <2>4, SingleOrdered
  <2> QED BY <2>3, <2>4
<1>3. UpTo(e, k)
  <2>1. k \in Nat /\ (IsPush(item) => item.id <= k)
    OBVIOUS
  <2> QED BY <2>1, SingleOrdered
<1>4. Increasing(e)
  BY SingleOrdered
<1> HIDE DEF e
<1>5. Increasing(b \o e) /\ UpTo(b \o e, k)
  BY <1>1, <1>2, <1>3, <1>4, ConcatIncreasing, ConcatUpTo DEF Line
<1>6. Before(p, b \o e) /\ Before(o, b \o e)
  BY <1>1, <1>2, ConcatBefore DEF Line
<1>7. Line(p, o, Append(b, item), k)
  BY <1>1, <1>2, <1>5, <1>6 DEF Line
<1>8. b = <<>> => Line(p, e, b, k)
  BY <1>2, <1>3, <1>4, EmptyOrdered DEF Line
<1> QED
  BY <1>7, <1>8 DEF e

\* Each dump file is in order.
FilesOrdered(fs) == \A f \in 1..Len(fs) : Increasing(fs[f])

\* A new file in order, and a file rewritten in order.
LEMMA FilesOrderedMoves ==
  ASSUME NEW fs \in Seq(Seq(Item)), FilesOrdered(fs),
         NEW q \in Seq(Item), Increasing(q)
  PROVE  /\ FilesOrdered(Append(fs, q))
         /\ \A f : FilesOrdered([fs EXCEPT ![f] = q])
<1>1. PICK m \in Nat : m = Len(fs)
  BY LenProperties
<1>2. FilesOrdered(Append(fs, q))
  <2>1. PICK a \in Seq(Seq(Item)) : a = Append(fs, q)
    BY AppendProperties
  <2>2. Len(a) = m + 1 /\ a[m + 1] = q /\ \A i \in 1..m : a[i] = fs[i]
    BY <1>1, <2>1, AppendProperties
  <2>3. \A f \in 1..(m + 1) : f \in 1..m \/ f = m + 1
    OBVIOUS
  <2>4. FilesOrdered(a)
    BY <1>1, <2>2, <2>3 DEF FilesOrdered
  <2> QED BY <2>1, <2>4
<1>3. ASSUME NEW f PROVE FilesOrdered([fs EXCEPT ![f] = q])
  <2>1. PICK c : c = [fs EXCEPT ![f] = q]
    OBVIOUS
  <2>2. fs \in [1..m -> Seq(Item)]
    BY <1>1, LenProperties
  <2>3. c \in [1..m -> Seq(Item)] /\ \A i \in 1..m : c[i] = q \/ c[i] = fs[i]
    BY <2>1, <2>2
  <2>4. Len(c) = m
    BY <2>3, IsASeq
  <2>5. FilesOrdered(c)
    BY <1>1, <2>3, <2>4 DEF FilesOrdered
  <2> QED BY <2>1, <2>5
<1> QED
  BY <1>2, <1>3

Ordered(s, n) ==
  /\ Line(s.pipe, s.output, s.output_buffer, n)
  /\ Increasing(s.aio_buf)
  /\ FilesOrdered(s.files)

InOrder(n) == {s \in StateSet : Ordered(s, n)}

\* The moves keep the order.
LEMMA OrderClosed ==
  ASSUME NEW n
  PROVE  Closed(InOrder(n))
<1> SUFFICES ASSUME NEW s \in InOrder(n), NEW t \in StateSet, Move(s, t)
             PROVE  Ordered(t, n)
  BY DEF Closed, InOrder
<1>1. /\ s.pipe \in Seq(Item) /\ s.output \in Seq(Item)
      /\ s.output_buffer \in Seq(Item) /\ s.files \in Seq(Seq(Item))
      /\ <<>> \in Seq(Item)
  BY EmptySeq DEF InOrder, StateSet
<1>2. /\ Line(s.pipe, s.output, s.output_buffer, n)
      /\ Increasing(s.aio_buf) /\ FilesOrdered(s.files)
  BY DEF InOrder, Ordered
<1>3. FilesOrdered(Append(s.files, <<>>)) /\ Increasing(<<>>)
  BY <1>1, <1>2, FilesOrderedMoves, EmptyOrdered
<1>4. CASE Kept(s, t)
  BY <1>2, <1>4 DEF Ordered, Kept, SameOutput, SameBuffer, SamePipe, SameFiles,
                    SameAio
<1>5. CASE Slurped(s, t)
  BY <1>1, <1>2, <1>5, LineMoves
     DEF Ordered, Slurped, NoBuffer, SamePipe, SameFiles, SameAio
<1>6. CASE Written(s, t)
  BY <1>1, <1>2, <1>6, LineMoves
     DEF Ordered, Written, NoOutput, SameBuffer, SameFiles, SameAio
<1>7. CASE HungUp(s, t)
  BY <1>1, <1>2, <1>7, LineMoves
     DEF Ordered, HungUp, SameOutput, SameBuffer, SameFiles, SameAio
<1>8. CASE Purged(s, t)
  BY <1>1, <1>2, <1>8, LineMoves
     DEF Ordered, Purged, SameOutput, NoBuffer, SameFiles, SameAio
<1>9. CASE DumpLost(s, t)
  BY <1>1, <1>2, <1>3, <1>9, LineMoves
     DEF Ordered, DumpLost, NoOutput, NoBuffer, SameFiles, UnusedFile, SameAio
<1>10. CASE DumpQueued(s, t)
  BY <1>1, <1>2, <1>3, <1>10, LineMoves
     DEF Ordered, DumpQueued, NoOutput, NoBuffer, SamePipe, NewFile
<1> QED
  BY <1>4, <1>5, <1>6, <1>7, <1>8, <1>9, <1>10 DEF Move

\* So does adding the next push, or a reference.
LEMMA OrderEnqueued ==
  ASSUME NEW n \in Nat, NEW k \in {n, n + 1}, NEW item \in Item,
         IF IsPush(item) THEN item.id = n + 1 /\ k = n + 1 ELSE TRUE,
         NEW s \in InOrder(n), NEW t \in StateSet, Enqueued(s, t, item)
  PROVE  t \in InOrder(k)
<1>1. /\ s.pipe \in Seq(Item) /\ s.output \in Seq(Item)
      /\ s.output_buffer \in Seq(Item)
  BY DEF InOrder, StateSet
<1>2. /\ Line(s.pipe, s.output, s.output_buffer, n)
      /\ Increasing(s.aio_buf) /\ FilesOrdered(s.files)
  BY DEF InOrder, Ordered
<1>3. /\ Line(s.pipe, s.output, Append(s.output_buffer, item), k)
      /\ s.output_buffer = <<>> => Line(s.pipe, <<item>>, s.output_buffer, k)
  BY <1>1, <1>2, LineAdd
<1>4. t.pipe = s.pipe /\ t.files = s.files /\ t.aio_buf = s.aio_buf
  BY DEF Enqueued, SamePipe, SameFiles, SameAio
<1>5. Line(t.pipe, t.output, t.output_buffer, k)
  BY <1>3, <1>4 DEF Enqueued, SameOutput, SameBuffer
<1> QED
  BY <1>2, <1>4, <1>5 DEF InOrder, Ordered

\* And everything else the callbacks do.
LEMMA OrderCallbacks ==
  ASSUME NEW n \in Nat
  PROVE  ClosedUnderCallbacks(InOrder(n))
<1>1. ASSUME NEW s \in InOrder(n), NEW t \in StateSet,
             \/ AioLost(s, t) \/ AioStored(s, t) \/ DumpStored(s, t)
             \/ FileClosed(s, t)
      PROVE  Ordered(t, n)
  <2>1. /\ s.pipe \in Seq(Item) /\ s.output \in Seq(Item)
        /\ s.output_buffer \in Seq(Item) /\ s.files \in Seq(Seq(Item))
        /\ s.aio_buf \in Seq(Item)
        /\ s.output \o s.output_buffer \in Seq(Item)
    BY ConcatProperties DEF InOrder, StateSet
  <2>2. /\ Line(s.pipe, s.output, s.output_buffer, n)
        /\ Increasing(s.aio_buf) /\ FilesOrdered(s.files) /\ Increasing(<<>>)
    BY EmptyOrdered DEF InOrder, Ordered
  <2>3. CASE AioLost(s, t)
    BY <2>2, <2>3 DEF Ordered, AioLost, SameOutput, SameBuffer, SameFiles
  <2>4. CASE AioStored(s, t)
    <3>1. FilesOrdered([s.files EXCEPT ![s.dump_file] = s.aio_buf])
      BY <2>1, <2>2, FilesOrderedMoves
    <3> QED
      BY <2>2, <2>4, <3>1 DEF Ordered, AioStored, SameOutput, SameBuffer, SamePipe
  <2>5. CASE DumpStored(s, t)
    <3>1. /\ FilesOrdered(Append(s.files, s.output \o s.output_buffer))
          /\ Line(s.pipe, <<>>, <<>>, n)
      BY <2>1, <2>2, LineMoves, FilesOrderedMoves
    <3> QED
      BY <2>2, <2>5, <3>1 DEF Ordered, DumpStored, NoOutput, NoBuffer, SamePipe,
                              SameAio, NewFile
  <2>6. CASE FileClosed(s, t)
    BY <2>2, <2>6 DEF Ordered, FileClosed, SameOutput, SameBuffer, SamePipe,
                      SameAio
  <2> QED
    BY <1>1, <2>3, <2>4, <2>5, <2>6
<1>2. ASSUME NEW s \in InOrder(n), NEW t \in StateSet, NEW f \in Nat,
             Enqueued(s, t, Reference(f)) \/ ReferenceLost(s, t, Reference(f))
      PROVE  t \in InOrder(n)
  <2>1. Reference(f) \in Item /\ ~IsPush(Reference(f))
    BY FifoAssumption DEF Reference, Item, IsPush
  <2>2. CASE Enqueued(s, t, Reference(f))
    BY <2>1, <2>2, OrderEnqueued
  <2>3. CASE ReferenceLost(s, t, Reference(f))
    BY <2>3 DEF InOrder, Ordered, ReferenceLost, SameOutput, SameBuffer,
                SameAio, SameFiles
  <2> QED
    BY <1>2, <2>2, <2>3
<1> QED
  BY <1>1, <1>2, OrderClosed DEF ClosedUnderCallbacks, InOrder

OrderInv == State \in InOrder(pushed)

\* Every step keeps the order: the callbacks by their moves, the push because
\* it is the newest, the others because they only take data away.
LEMMA OrderStep == Inv /\ Inv' /\ OrderInv /\ [Next]_vars => OrderInv'
<1> SUFFICES ASSUME Inv, Inv', OrderInv, [Next]_vars PROVE OrderInv'
  OBVIOUS
<1>1. PICK n \in Nat : n = pushed
  BY DEF Inv, TypeOK
<1>2. State \in InOrder(n)
  BY <1>1 DEF OrderInv
<1>0. (State \in StateSet)'
  BY StateTyped, PTL
<1>3. /\ State' \in StateSet /\ pipe \in Seq(Item) /\ output \in Seq(Item)
      /\ output_buffer \in Seq(Item) /\ files \in Seq(Seq(Item))
      /\ <<>> \in Seq(Item)
  BY <1>0, EmptySeq DEF Inv, TypeOK
<1>4. /\ Line(pipe, output, output_buffer, n)
      /\ Increasing(aio_buf) /\ FilesOrdered(files)
  BY <1>2, StateFields DEF InOrder, Ordered
<1>5. ASSUME Line(pipe', output', output_buffer', n), Increasing(aio_buf'),
             FilesOrdered(files'), pushed' = pushed
      PROVE  OrderInv'
  <2>1. /\ State'.pipe = pipe' /\ State'.output = output'
        /\ State'.output_buffer = output_buffer' /\ State'.aio_buf = aio_buf'
        /\ State'.files = files'
    BY DEF State
  <2> QED
    BY <1>1, <1>3, <1>5, <2>1 DEF OrderInv, InOrder, Ordered
<1>6. CASE \/ fifo_start \/ OpenTimer \/ WriteReady \/ AsyncReady
           \/ IdleReady \/ IdleTimeout
  <2>1. State' \in InOrder(n)
    BY <1>2, <1>6, OrderCallbacks, CallbackMoves
  <2>2. pushed' = pushed
    BY <1>6 DEF fifo_start, OpenTimer, WriteReady, AsyncReady, IdleReady,
                IdleTimeout, Callback
  <2> QED BY <1>1, <2>1, <2>2 DEF OrderInv
<1>7. CASE ServerPush
  <2>1. \A size \in Sizes : \A s \in InOrder(n) : \A t \in StateSet :
          Enqueued(s, t, Push(pushed + 1, size)) => t \in InOrder(n + 1)
    <3> TAKE size \in Sizes
    <3>1. PICK item \in Item : item = Push(n + 1, size)
      BY PushType
    <3>2. IsPush(item) /\ item.id = n + 1
      BY <3>1 DEF IsPush, Push
    <3>3. \A s \in InOrder(n) : \A t \in StateSet :
            Enqueued(s, t, item) => t \in InOrder(n + 1)
      BY <3>2, OrderEnqueued
    <3> QED BY <1>1, <3>1, <3>3
  <2>2. State' \in InOrder(n + 1)
    BY <1>2, <1>7, <2>1, OrderClosed, PushMoves
  <2> QED BY <1>1, <1>7, <2>2 DEF ServerPush, OrderInv
<1>8. CASE fifo_stop
  <2>1. /\ output' = <<>> /\ output_buffer' = <<>> /\ aio_buf' = <<>>
        /\ files' = files /\ (pipe' = pipe \/ pipe' = <<>>)
    BY <1>8, StopMoves
  <2>2. pushed' = pushed
    BY <1>8 DEF fifo_stop
  <2>3. Line(pipe', <<>>, <<>>, n)
    BY <1>3, <1>4, <2>1, LineMoves
  <2> QED BY <1>4, <1>5, <2>1, <2>2, <2>3, EmptyOrdered
<1>9. CASE AioComplete \/ NagiosStart \/ UNCHANGED vars
  BY <1>4, <1>5, <1>9 DEF AioComplete, NagiosStart, vars, fifoVars
<1>10. CASE NagiosExit
  <2>1. UNCHANGED <<output, output_buffer, aio_buf, files, pushed>>
        /\ (pipe' = pipe \/ pipe' = <<>>)
    BY <1>10 DEF NagiosExit
  <2> QED BY <1>3, <1>4, <1>5, <2>1, LineMoves
<1>11. CASE NagiosRead
  <2>1. UNCHANGED <<output, output_buffer, aio_buf, pushed>>
    BY <1>11 DEF NagiosRead
  <2>2. FilesOrdered(files')
    <3>1. files' = files \/ \E f : files' = [files EXCEPT ![f] = <<>>]
      BY <1>11 DEF NagiosRead, Process
    <3> QED BY <1>3, <1>4, <3>1, FilesOrderedMoves, EmptyOrdered
  <2>3. Line(pipe', output, output_buffer, n)
    <3>1. pipe' = pipe \/ (pipe # <<>> /\ pipe' = Tail(pipe))
      BY <1>11 DEF NagiosRead
    <3> QED BY <1>3, <1>4, <3>1, TailOrdered DEF Line
  <2> QED BY <1>4, <1>5, <2>1, <2>2, <2>3
<1> QED
  BY <1>6, <1>7, <1>8, <1>9, <1>10, <1>11 DEF Next

\* Two pushes that take the same way never overtake each other, however many
\* there are and whatever fails.
THEOREM OrderPreserved == Spec => []OrderKept
<1>1. Init => OrderInv
  <2> SUFFICES ASSUME Init PROVE OrderInv
    OBVIOUS
  <2>1. State \in StateSet
    BY InitInv, StateTyped
  <2>2. Len(<<>>) = 0
    OBVIOUS
  <2> QED
    BY <2>1, <2>2, StateFields, EmptyOrdered
       DEF Init, OrderInv, InOrder, Ordered, Line, FilesOrdered
<1>2. Inv /\ OrderInv => OrderKept
  <2> SUFFICES ASSUME Inv, OrderInv PROVE OrderKept
    OBVIOUS
  <2>1. /\ pipe \in Seq(Item) /\ output \in Seq(Item)
        /\ output_buffer \in Seq(Item)
    BY DEF Inv, TypeOK
  <2>2. /\ Line(pipe, output, output_buffer, pushed)
        /\ Increasing(aio_buf) /\ FilesOrdered(files)
    BY StateFields DEF OrderInv, InOrder, Ordered
  <2>3. Increasing(pipe \o output \o output_buffer)
    <3>1. PICK q \in Seq(Item) : q = pipe \o output
      BY <2>1, ConcatProperties
    <3>2. Line(q, <<>>, output_buffer, pushed)
      BY <2>1, <2>2, <3>1, LineMoves
    <3>3. Increasing(q \o output_buffer)
      BY <2>1, <3>2, ConcatIncreasing DEF Line
    <3> QED BY <3>1, <3>3
  <2> QED
    BY <2>2, <2>3 DEF OrderKept, FilesOrdered
<1> QED
  BY <1>1, <1>2, OrderStep, Invariance, PTL DEF Spec

-----------------------------------------------------------------------------
(* Sizes.                                                                  *)

\* The size of a queue is the weight of its data.
SizeWeight == [item \in Item |-> item.size]

\* Each item weighs its size.
LEMMA SizeIsWeight ==
  ASSUME NEW q \in Seq(Item)
  PROVE  SizeWeight \in [Item -> Nat] /\ SizeOf(q) = Weigh(q, SizeWeight)
<1>1. SizeWeight \in [Item -> Nat]
  BY DEF SizeWeight, Item
<1>2. \A i \in 1..Len(q) : q[i] \in Item
  BY ElementOfSeq
<1>3. \A i \in 1..Len(q) : q[i].size = SizeWeight[q[i]]
  BY <1>2 DEF SizeWeight
<1>4. [i \in 1..Len(q) |-> q[i].size] = [i \in 1..Len(q) |-> SizeWeight[q[i]]]
  BY <1>3
<1> QED
  BY <1>1, <1>4 DEF SizeOf, Weigh

\* The size of nothing, of one item, and of one item more.
LEMMA SizeMoves ==
  /\ SizeOf(<<>>) = 0
  /\ \A item \in Item :
       /\ SizeOf(<<item>>) = item.size
       /\ \A q \in Seq(Item) : SizeOf(Append(q, item)) = SizeOf(q) + item.size
<1>1. <<>> \in Seq(Item)
  BY EmptySeq
<1>2. SizeOf(<<>>) = 0
  BY <1>1, SizeIsWeight, WeighEmpty
<1>3. ASSUME NEW item \in Item
      PROVE  /\ SizeOf(<<item>>) = item.size
             /\ \A q \in Seq(Item) : SizeOf(Append(q, item)) = SizeOf(q) + item.size
  <2>1. SizeWeight \in [Item -> Nat] /\ SizeWeight[item] = item.size
    BY <1>1, SizeIsWeight DEF SizeWeight
  <2>2. SizeOf(<<item>>) = item.size
    BY <2>1, SingletonSeq, SizeIsWeight, WeighSingle
  <2>3. ASSUME NEW q \in Seq(Item)
        PROVE  SizeOf(Append(q, item)) = SizeOf(q) + item.size
    <3>1. Append(q, item) \in Seq(Item)
      BY AppendProperties
    <3>2. Weigh(Append(q, item), SizeWeight) = Weigh(q, SizeWeight) + item.size
      BY <2>1, WeighAppend
    <3> QED BY <3>1, <3>2, SizeIsWeight
  <2> QED BY <2>2, <2>3
<1> QED
  BY <1>2, <1>3

\* The largest piece of data that fifo_write is handed.
Largest == Max(Sizes \cup {RefSize})

\* The largest of a finite set is one of it.
LEMMA MaxIs ==
  ASSUME NEW N \in SUBSET Nat, IsFiniteSet(N), N # {}
  PROVE  Max(N) \in N /\ \A y \in N : y <= Max(N)
<1>1. \E m \in N : \A y \in N : m >= y
  BY FiniteMax
<1>2. Max(N) \in N /\ \A y \in N : Max(N) >= y
  BY <1>1 DEF Max
<1> QED
  BY <1>2

\* The limits of `output' and of the queue.
LEMMA LimitsAre ==
  /\ Largest \in Nat /\ RefSize <= Largest /\ \A size \in Sizes : size <= Largest
  /\ \A a \in Nat : /\ Max({a, Largest}) \in Nat
                    /\ a <= Max({a, Largest}) /\ Largest <= Max({a, Largest})
<1>1. RefSize \in Nat /\ Sizes \subseteq Nat /\ IsFiniteSet(Sizes)
  BY FifoAssumption
<1>2. PICK N \in SUBSET Nat : N = Sizes \cup {RefSize}
  BY <1>1
<1>3. IsFiniteSet(N) /\ N # {}
  BY <1>1, <1>2, FS_AddElement
<1>4. Max(N) \in N /\ \A y \in N : y <= Max(N)
  BY <1>3, MaxIs
<1>5. /\ Largest \in Nat /\ RefSize <= Largest
      /\ \A size \in Sizes : size <= Largest
  BY <1>2, <1>4 DEF Largest
<1>6. ASSUME NEW a \in Nat
      PROVE  /\ Max({a, Largest}) \in Nat
             /\ a <= Max({a, Largest}) /\ Largest <= Max({a, Largest})
  <2>1. PICK M \in SUBSET Nat : M = {a, Largest}
    BY <1>5
  <2>2. IsFiniteSet(M) /\ M # {}
    <3>1. IsFiniteSet({a}) /\ M = {a} \cup {Largest}
      BY <2>1, FS_Singleton
    <3> QED BY <3>1, FS_AddElement
  <2>3. Max(M) \in M /\ \A y \in M : y <= Max(M)
    BY <2>2, MaxIs
  <2> QED BY <2>1, <2>3
<1> QED
  BY <1>5, <1>6

\* The size fields are right, and below their limits.
Sized(s) ==
  /\ s.output_size = SizeOf(s.output) /\ s.buffer_size = SizeOf(s.output_buffer)
  /\ s.output_size <= Max({PIPE_BUF, Largest})
  /\ MaxQueueSize > 0 => s.buffer_size <= Max({MaxQueueSize, Largest})

InSize == {s \in StateSet : Sized(s)}

\* The moves keep the size fields right: buffer_slurp() is only reached with at
\* most PIPE_BUF bytes in the queue.
LEMMA SizeClosed == Closed(InSize)
<1> SUFFICES ASSUME NEW s \in InSize, NEW t \in StateSet, Move(s, t)
             PROVE  Sized(t)
  BY DEF Closed, InSize
<1>1. PICK x \in Nat, y \in Nat :
        x = Max({PIPE_BUF, Largest}) /\ y = Max({MaxQueueSize, Largest})
  BY FifoAssumption, LimitsAre
<1>2. PIPE_BUF <= x /\ PIPE_BUF \in Nat
  BY <1>1, FifoAssumption, LimitsAre
<1>3. /\ s.output_size = SizeOf(s.output) /\ s.buffer_size = SizeOf(s.output_buffer)
      /\ s.output_size <= x /\ (MaxQueueSize > 0 => s.buffer_size <= y)
      /\ s.buffer_size \in Nat
  BY <1>1 DEF InSize, Sized, StateSet
<1>4. SizeOf(<<>>) = 0 /\ 0 <= x /\ 0 <= y
  BY SizeMoves
<1>5. \/ SameOutput(s, t) /\ SameBuffer(s, t)
      \/ SameOutput(s, t) /\ NoBuffer(t)
      \/ NoOutput(t) /\ SameBuffer(s, t)
      \/ NoOutput(t) /\ NoBuffer(t)
      \/ Slurped(s, t)
  BY DEF Move, Kept, Written, HungUp, Purged, DumpLost, DumpQueued
<1>6. CASE Slurped(s, t)
  <2>1. /\ t.output = s.output_buffer /\ t.output_size = s.buffer_size
        /\ NoBuffer(t) /\ s.buffer_size <= PIPE_BUF
    BY <1>6 DEF Slurped
  <2>2. s.buffer_size <= x
    BY <1>2, <1>3, <2>1
  <2> QED
    BY <1>1, <1>3, <1>4, <2>1, <2>2 DEF Sized, NoBuffer
<1>7. CASE ~Slurped(s, t)
  BY <1>1, <1>3, <1>4, <1>5, <1>7
     DEF Sized, SameOutput, SameBuffer, NoOutput, NoBuffer
<1> QED
  BY <1>6, <1>7

\* So does adding data of at most the largest size.
LEMMA SizeEnqueued ==
  ASSUME NEW item \in Item, item.size <= Largest,
         NEW s \in InSize, NEW t \in StateSet, Enqueued(s, t, item)
  PROVE  t \in InSize
<1>1. PICK x \in Nat, y \in Nat, z \in Nat :
        /\ x = Max({PIPE_BUF, Largest}) /\ y = Max({MaxQueueSize, Largest})
        /\ z = Largest
  BY FifoAssumption, LimitsAre
<1>2. /\ z <= x /\ z <= y /\ MaxQueueSize <= y
      /\ PIPE_BUF \in Nat /\ MaxQueueSize \in Nat
  BY <1>1, FifoAssumption, LimitsAre
<1>3. /\ s.output_size = SizeOf(s.output) /\ s.buffer_size = SizeOf(s.output_buffer)
      /\ s.output_size <= x /\ (MaxQueueSize > 0 => s.buffer_size <= y)
      /\ s.buffer_size \in Nat /\ s.output_buffer \in Seq(Item)
  BY <1>1 DEF InSize, Sized, StateSet
<1>4. item.size \in Nat /\ item.size <= z
  BY <1>1 DEF Item
<1>5. CASE /\ t.output = <<item>> /\ t.output_size = item.size
           /\ SameBuffer(s, t)
  <2>1. SizeOf(<<item>>) = item.size /\ item.size <= x
    BY <1>1, <1>2, <1>4, SizeMoves
  <2> QED
    BY <1>1, <1>3, <1>5, <2>1 DEF InSize, Sized, SameBuffer
<1>6. CASE /\ MaxQueueSize > 0 =>
                s.buffer_size = 0 \/ s.buffer_size + item.size <= MaxQueueSize
           /\ t.output_buffer = Append(s.output_buffer, item)
           /\ t.buffer_size = s.buffer_size + item.size
           /\ SameOutput(s, t)
  <2>1. SizeOf(t.output_buffer) = s.buffer_size + item.size
    BY <1>3, <1>6, SizeMoves
  <2>2. MaxQueueSize > 0 => s.buffer_size + item.size <= y
    BY <1>2, <1>3, <1>4, <1>6
  <2> QED
    BY <1>1, <1>3, <1>6, <2>1, <2>2 DEF InSize, Sized, SameOutput
<1> QED
  BY <1>5, <1>6 DEF Enqueued

\* And everything else the callbacks do.
LEMMA SizeCallbacks == ClosedUnderCallbacks(InSize)
<1>1. ASSUME NEW s \in InSize, NEW t \in StateSet,
             \/ AioLost(s, t) \/ AioStored(s, t) \/ DumpStored(s, t)
             \/ FileClosed(s, t)
      PROVE  Sized(t)
  <2>1. \/ SameOutput(s, t) /\ SameBuffer(s, t)
        \/ NoOutput(t) /\ NoBuffer(t)
    BY <1>1 DEF AioLost, AioStored, DumpStored, FileClosed
  <2>2. CASE SameOutput(s, t) /\ SameBuffer(s, t)
    BY <2>2 DEF InSize, Sized, SameOutput, SameBuffer
  <2>3. CASE NoOutput(t) /\ NoBuffer(t)
    <3>1. 0 <= Max({PIPE_BUF, Largest}) /\ 0 <= Max({MaxQueueSize, Largest})
      BY FifoAssumption, LimitsAre
    <3> QED
      BY <2>3, <3>1, SizeMoves DEF Sized, NoOutput, NoBuffer
  <2> QED BY <2>1, <2>2, <2>3
<1>2. ASSUME NEW s \in InSize, NEW t \in StateSet, NEW f \in Nat,
             Enqueued(s, t, Reference(f)) \/ ReferenceLost(s, t, Reference(f))
      PROVE  t \in InSize
  <2>1. Reference(f) \in Item /\ Reference(f).size <= Largest
    BY FifoAssumption, LimitsAre DEF Reference, Item
  <2>2. CASE Enqueued(s, t, Reference(f))
    BY <2>1, <2>2, SizeEnqueued
  <2>3. CASE ReferenceLost(s, t, Reference(f))
    BY <2>3 DEF InSize, Sized, ReferenceLost, SameOutput, SameBuffer
  <2> QED
    BY <1>2, <2>2, <2>3
<1> QED
  BY <1>1, <1>2, SizeClosed DEF ClosedUnderCallbacks, InSize

SizeInv == State \in InSize

\* Every step keeps the sizes.
LEMMA SizeStep == Inv /\ Inv' /\ SizeInv /\ [Next]_vars => SizeInv'
<1> SUFFICES ASSUME Inv, Inv', SizeInv, [Next]_vars PROVE SizeInv'
  OBVIOUS
<1>0. (State \in StateSet)'
  BY StateTyped, PTL
<1>1. CASE \/ fifo_start \/ OpenTimer \/ WriteReady \/ AsyncReady
           \/ IdleReady \/ IdleTimeout
  BY <1>1, SizeCallbacks, CallbackMoves DEF SizeInv, InSize, Sized, Largest
<1>2. CASE ServerPush
  <2>1. ASSUME NEW size \in Sizes, NEW s \in InSize, NEW t \in StateSet,
               Enqueued(s, t, Push(pushed + 1, size))
        PROVE  t \in InSize
    <3>1. PICK item \in Item : item = Push(pushed + 1, size)
      BY PushType DEF Inv, TypeOK
    <3>2. item.size <= Largest
      BY <3>1, LimitsAre DEF Push
    <3> QED BY <2>1, <3>1, <3>2, SizeEnqueued
  <2>2. State' \in InSize
    BY <1>2, <2>1, SizeClosed, PushMoves DEF SizeInv
  <2> QED BY <2>2 DEF SizeInv, InSize, Sized, Largest
<1>3. ASSUME \/ output' = output /\ output_size' = output_size
             \/ output' = <<>> /\ output_size' = 0,
             \/ output_buffer' = output_buffer /\ buffer_size' = buffer_size
             \/ output_buffer' = <<>> /\ buffer_size' = 0
      PROVE  SizeInv'
  <2>1. /\ State'.output = output' /\ State'.output_size = output_size'
        /\ State'.output_buffer = output_buffer'
        /\ State'.buffer_size = buffer_size'
    BY DEF State
  <2>2. /\ output_size = SizeOf(output) /\ buffer_size = SizeOf(output_buffer)
        /\ output_size <= Max({PIPE_BUF, Largest})
        /\ MaxQueueSize > 0 => buffer_size <= Max({MaxQueueSize, Largest})
    BY StateFields DEF SizeInv, InSize, Sized
  <2>3. 0 <= Max({PIPE_BUF, Largest}) /\ 0 <= Max({MaxQueueSize, Largest})
    BY FifoAssumption, LimitsAre
  <2>4. Sized(State')
    BY <1>3, <2>1, <2>2, <2>3, SizeMoves DEF Sized
  <2> QED
    BY <1>0, <2>4 DEF SizeInv, InSize, Sized, Largest
<1>4. CASE fifo_stop
  BY <1>3, <1>4, StopMoves
<1>5. CASE \/ AioComplete \/ NagiosStart \/ NagiosExit \/ NagiosRead
           \/ UNCHANGED vars
  <2>1. /\ output' = output /\ output_size' = output_size
        /\ output_buffer' = output_buffer /\ buffer_size' = buffer_size
    BY <1>5 DEF AioComplete, NagiosStart, NagiosExit, NagiosRead, vars, fifoVars
  <2> QED BY <1>3, <2>1
<1> QED
  BY <1>1, <1>2, <1>4, <1>5 DEF Next

\* The data that waits in memory is bounded by max_queue_size and PIPE_BUF, or
\* by the largest single piece of data if that is more, for every limit.
THEOREM QueueStaysBounded == Spec => []QueueBounded
<1>1. Init => SizeInv
  <2> SUFFICES ASSUME Init PROVE SizeInv
    OBVIOUS
  <2>1. State \in StateSet
    BY InitInv, StateTyped
  <2>2. 0 <= Max({PIPE_BUF, Largest}) /\ 0 <= Max({MaxQueueSize, Largest})
    BY FifoAssumption, LimitsAre
  <2> QED
    BY <2>1, <2>2, StateFields, SizeMoves DEF Init, SizeInv, InSize, Sized
<1>2. Inv /\ SizeInv => QueueBounded
  <2> SUFFICES ASSUME Inv, SizeInv, MaxQueueSize > 0
               PROVE  SizeOf(output) + SizeOf(output_buffer)
                        <= Max({MaxQueueSize, Largest}) + Max({PIPE_BUF, Largest})
    BY DEF QueueBounded, Largest
  <2>1. PICK x \in Nat, y \in Nat :
          x = Max({PIPE_BUF, Largest}) /\ y = Max({MaxQueueSize, Largest})
    BY FifoAssumption, LimitsAre
  <2>2. /\ output_size = SizeOf(output) /\ buffer_size = SizeOf(output_buffer)
        /\ output_size <= x /\ buffer_size <= y
    BY <2>1, StateFields DEF SizeInv, InSize, Sized
  <2>3. output_size \in Nat /\ buffer_size \in Nat
    BY DEF Inv, TypeOK
  <2>4. output_size + buffer_size <= y + x
    BY <2>2, <2>3
  <2> QED
    BY <2>1, <2>2, <2>4
<1> QED
  BY <1>1, <1>2, SizeStep, Invariance, PTL DEF Spec

-----------------------------------------------------------------------------
(***************************************************************************)
(* fifo.c neither duplicates nor silently drops data, and it announces     *)
(* every dump file once.                                                   *)
(*                                                                         *)
(* The argument.  Each of the moves takes the data from one place to       *)
(* another, so the number of the copies of an item stays the same, as long *)
(* as there is at most one (a second copy in the same place could vanish   *)
(* in the sets of processed and lost data).  A new push or reference adds  *)
(* one copy of an item that had none.  For references this needs the life  *)
(* of a dump file: while it is open it is empty and not announced; it gets *)
(* its contents, is closed, and then is announced.                         *)
(***************************************************************************)

(* Counting.                                                               *)

ItemWeight(k, i) == [item \in Item |-> IF Is(item, k, i) THEN 1 ELSE 0]

FileWeight(k, i) == [q \in Seq(Item) |-> Weigh(q, ItemWeight(k, i))]

LostOf(L, k, i) == {l \in L : Is(l.item, k, i)}

\* The copies of an item that fifo.c has, has passed on, or has lost.
Held(s, k, i) ==
  LET w == ItemWeight(k, i) IN
  Weigh(s.output, w) + Weigh(s.output_buffer, w) + Weigh(s.aio_buf, w)
    + Weigh(s.pipe, w) + Weigh(s.files, FileWeight(k, i))
    + Cardinality(LostOf(s.lost, k, i))

\* Weights are numbers, and a single item counts itself.
LEMMA WeightTypes ==
  ASSUME NEW k, NEW i
  PROVE  /\ ItemWeight(k, i) \in [Item -> Nat]
         /\ FileWeight(k, i) \in [Seq(Item) -> Nat]
         /\ FileWeight(k, i)[<<>>] = 0
<1>1. ItemWeight(k, i) \in [Item -> Nat]
  BY DEF ItemWeight
<1>2. \A q \in Seq(Item) : Weigh(q, ItemWeight(k, i)) \in Nat
  BY <1>1, WeighType
<1>3. <<>> \in Seq(Item)
  BY EmptySeq
<1>4. Weigh(<<>>, ItemWeight(k, i)) = 0
  BY WeighEmpty
<1> QED
  BY <1>1, <1>2, <1>3, <1>4 DEF FileWeight

\* The dropped data is finite.
LEMMA DroppedFinite ==
  ASSUME NEW q \in Seq(Item), NEW why
  PROVE  IsFiniteSet(Dropped(q, why))
<1>1. PICK n \in Nat : n = Len(q)
  BY LenProperties
<1>2. IsFiniteSet(1..n)
  BY FS_Interval
<1> DEFINE d == [j \in 1..n |-> [item |-> q[j], why |-> why]]
<1>3. IsFiniteSet({d[j] : j \in 1..n})
  <2>1. d \in [1..n -> {d[j] : j \in 1..n}]
    OBVIOUS
  <2>2. d \in Surjection(1..n, {d[j] : j \in 1..n})
    BY <2>1 DEF Surjection
  <2> HIDE DEF d
  <2> QED BY <1>2, <2>2, FS_Surjection
<1>4. {d[j] : j \in 1..n} = Dropped(q, why)
  BY <1>1 DEF Dropped
<1> QED
  BY <1>3, <1>4

\* Dropped data that is the only copy is counted once among the lost.
LEMMA DropCounts ==
  ASSUME NEW k, NEW i, NEW L \in SUBSET Losses, IsFiniteSet(L),
         NEW q \in Seq(Item), NEW why,
         Cardinality(LostOf(L, k, i)) + Weigh(q, ItemWeight(k, i)) <= 1
  PROVE  /\ IsFiniteSet(L \cup Dropped(q, why))
         /\ Cardinality(LostOf(L \cup Dropped(q, why), k, i))
              = Cardinality(LostOf(L, k, i)) + Weigh(q, ItemWeight(k, i))
<1> DEFINE w == ItemWeight(k, i)
           M == LostOf(L, k, i)
           N == LostOf(L \cup Dropped(q, why), k, i)
<1>1. IsFiniteSet(L \cup Dropped(q, why))
  BY DroppedFinite, FS_Union
<1>2. IsFiniteSet(M) /\ Cardinality(M) \in Nat
  BY FS_Subset, FS_CardinalityType DEF LostOf
<1>3. w \in [Item -> Nat] /\ Weigh(q, w) \in Nat
  BY WeightTypes, WeighType
<1>4. \A j \in 1..Len(q) : q[j] \in Item
  BY ElementOfSeq
<1>5. \A j \in 1..Len(q) : w[q[j]] = IF Is(q[j], k, i) THEN 1 ELSE 0
  BY <1>4 DEF ItemWeight
<1>6. CASE Weigh(q, w) = 0
  <2>1. \A j \in 1..Len(q) : ~Is(q[j], k, i)
    <3> SUFFICES ASSUME NEW j \in 1..Len(q), Is(q[j], k, i) PROVE FALSE
      OBVIOUS
    <3>1. w[q[j]] = 1
      BY <1>5
    <3>2. w[q[j]] <= Weigh(q, w)
      BY <1>3, WeighElement
    <3> QED BY <1>6, <3>1, <3>2
  <2>2. N = M
    BY <2>1 DEF LostOf, Dropped
  <2> QED BY <1>1, <1>2, <1>6, <2>2
<1>7. CASE Weigh(q, w) = 1
  <2>1. Cardinality(M) = 0
    BY <1>2, <1>7
  <2>2. M = {}
    BY <1>2, <2>1, FS_EmptySet
  <2>3. PICK j \in 1..Len(q) :
          w[q[j]] = 1 /\ \A h \in 1..Len(q) : h # j => w[q[h]] = 0
    BY <1>3, <1>7, WeighOne
  <2>4. Is(q[j], k, i) /\ \A h \in 1..Len(q) : h # j => ~Is(q[h], k, i)
    BY <1>5, <2>3
  <2>5. N = {[item |-> q[j], why |-> why]}
    BY <2>2, <2>4 DEF LostOf, Dropped
  <2>6. Cardinality(N) = 1
    BY <2>5, FS_Singleton
  <2> QED BY <1>1, <1>7, <2>1, <2>6
<1>8. Weigh(q, w) = 0 \/ Weigh(q, w) = 1
  <2>1. PICK x \in Nat, y \in Nat : x = Cardinality(M) /\ y = Weigh(q, w)
    BY <1>2, <1>3
  <2>2. x + y <= 1
    BY <2>1
  <2> QED BY <2>1, <2>2
<1> QED
  BY <1>6, <1>7, <1>8

-----------------------------------------------------------------------------
(* The places.                                                             *)

\* A dump file that is open is empty, one is open while a request is being
\* handled, and no data is handed to the kernel otherwise.
Tidy(s) ==
  /\ IsFiniteSet(s.lost)
  /\ s.aio = "none" => s.aio_buf = <<>>
  /\ s.aio # "none" => s.dump_file \in s.dump_fds
  /\ s.dump_fds \subseteq 1..Len(s.files)
  /\ \A f \in s.dump_fds : s.files[f] = <<>>

\* What an appended file leaves as it is.
LEMMA AppendFile ==
  ASSUME NEW fs \in Seq(Seq(Item)), NEW q \in Seq(Item), NEW gs, gs = Append(fs, q)
  PROVE  /\ Len(fs) \in Nat /\ gs \in Seq(Seq(Item)) /\ Len(gs) = Len(fs) + 1
         /\ \A f \in 1..Len(fs) : f \in 1..Len(gs) /\ gs[f] = fs[f]
         /\ Len(fs) + 1 \in 1..Len(gs) /\ gs[Len(fs) + 1] = q
         /\ \A f \in 1..Len(gs) : f \in 1..Len(fs) \/ f = Len(fs) + 1
         /\ Len(fs) + 1 \notin 1..Len(fs)
<1>1. PICK m \in Nat : m = Len(fs)
  BY LenProperties
<1>2. /\ gs \in Seq(Seq(Item)) /\ Len(gs) = m + 1
      /\ \A f \in 1..m : gs[f] = fs[f] /\ gs[m + 1] = q
  BY <1>1, AppendProperties
<1>3. gs[m + 1] = q
  BY <1>1, AppendProperties
<1> QED
  BY <1>1, <1>2, <1>3

\* The moves keep the files tidy.
LEMMA TidyMoves ==
  ASSUME NEW s \in StateSet, NEW t \in StateSet, Tidy(s), Move(s, t)
  PROVE  Tidy(t)
<1>1. /\ s.files \in Seq(Seq(Item)) /\ s.output \in Seq(Item)
      /\ s.output_buffer \in Seq(Item) /\ s.pipe \in Seq(Item)
      /\ s.output \o s.output_buffer \in Seq(Item) /\ <<>> \in Seq(Item)
  BY ConcatProperties, EmptySeq DEF StateSet
<1>2. IsFiniteSet(t.lost)
  <2>1. \/ t.lost = s.lost
        \/ \E q \in Seq(Item) : \E why : t.lost = s.lost \cup Dropped(q, why)
    BY <1>1 DEF Move, Kept, Slurped, Written, HungUp, Purged, DumpLost,
                DumpQueued, SamePipe
  <2> QED
    BY <2>1, DroppedFinite, FS_Union DEF Tidy
<1>3. CASE SameFiles(s, t) /\ SameAio(s, t)
  BY <1>2, <1>3 DEF Tidy, SameFiles, SameAio
<1>4. CASE UnusedFile(s, t) /\ SameAio(s, t) /\ s.aio = "none"
  <2>1. /\ t.files = Append(s.files, <<>>) /\ t.dump_fds \subseteq s.dump_fds
        /\ t.aio = "none" /\ t.aio_buf = <<>>
    BY <1>4 DEF UnusedFile, SameAio, Tidy
  <2> QED
    BY <1>1, <1>2, <2>1, AppendFile DEF Tidy
<1>5. CASE DumpQueued(s, t)
  <2>1. /\ t.files = Append(s.files, <<>>) /\ t.aio = "inflight"
        /\ t.dump_file = Len(s.files) + 1
        /\ t.dump_fds = s.dump_fds \cup {Len(s.files) + 1}
    BY <1>5 DEF DumpQueued, NewFile
  <2> QED
    BY <1>1, <1>2, <2>1, AppendFile DEF Tidy
<1> QED
  BY <1>3, <1>4, <1>5
     DEF Move, Kept, Slurped, Written, HungUp, Purged, DumpLost

\* The parts of the count are numbers.
LEMMA HeldParts ==
  ASSUME NEW k, NEW i, NEW s \in StateSet, IsFiniteSet(s.lost)
  PROVE  LET w == ItemWeight(k, i) IN
         /\ Weigh(s.output, w) \in Nat /\ Weigh(s.output_buffer, w) \in Nat
         /\ Weigh(s.aio_buf, w) \in Nat /\ Weigh(s.pipe, w) \in Nat
         /\ Weigh(s.files, FileWeight(k, i)) \in Nat
         /\ Cardinality(LostOf(s.lost, k, i)) \in Nat
<1>1. /\ s.output \in Seq(Item) /\ s.output_buffer \in Seq(Item)
      /\ s.aio_buf \in Seq(Item) /\ s.pipe \in Seq(Item)
      /\ s.files \in Seq(Seq(Item))
  BY DEF StateSet
<1>2. /\ ItemWeight(k, i) \in [Item -> Nat]
      /\ FileWeight(k, i) \in [Seq(Item) -> Nat]
  BY WeightTypes
<1>3. Cardinality(LostOf(s.lost, k, i)) \in Nat
  BY FS_Subset, FS_CardinalityType DEF LostOf
<1>4. /\ Weigh(s.output, ItemWeight(k, i)) \in Nat
      /\ Weigh(s.output_buffer, ItemWeight(k, i)) \in Nat
      /\ Weigh(s.aio_buf, ItemWeight(k, i)) \in Nat
      /\ Weigh(s.pipe, ItemWeight(k, i)) \in Nat
  BY <1>1, <1>2, WeighType
<1>5. Weigh(s.files, FileWeight(k, i)) \in Nat
  BY <1>1, <1>2, WeighType
<1> QED
  BY <1>3, <1>4, <1>5

\* An empty new file has no copies, one with contents has theirs.
LEMMA NewFileWeight ==
  ASSUME NEW k, NEW i, NEW fs \in Seq(Seq(Item)), NEW q \in Seq(Item)
  PROVE  Weigh(Append(fs, q), FileWeight(k, i))
           = Weigh(fs, FileWeight(k, i)) + Weigh(q, ItemWeight(k, i))
<1>1. FileWeight(k, i) \in [Seq(Item) -> Nat]
  BY WeightTypes
<1>2. FileWeight(k, i)[q] = Weigh(q, ItemWeight(k, i))
  BY DEF FileWeight
<1> QED
  BY <1>1, <1>2, WeighAppend

\* A move keeps the number of copies, if there is at most one.
LEMMA HeldMoves ==
  ASSUME NEW k, NEW i, NEW s \in StateSet, NEW t \in StateSet, Tidy(s),
         Move(s, t), Held(s, k, i) <= 1
  PROVE  Held(t, k, i) = Held(s, k, i)
<1> DEFINE w == ItemWeight(k, i)
           W == FileWeight(k, i)
           C(u) == Cardinality(LostOf(u.lost, k, i))
<1>0. w \in [Item -> Nat] /\ W \in [Seq(Item) -> Nat]
  BY WeightTypes
<1>1. /\ s.output \in Seq(Item) /\ s.output_buffer \in Seq(Item)
      /\ s.pipe \in Seq(Item) /\ s.files \in Seq(Seq(Item))
      /\ <<>> \in Seq(Item) /\ s.lost \in SUBSET Losses /\ IsFiniteSet(s.lost)
  BY EmptySeq DEF StateSet, Tidy
<1>2. PICK o \in Nat, b \in Nat, a \in Nat, p \in Nat, f \in Nat, l \in Nat :
        /\ o = Weigh(s.output, w) /\ b = Weigh(s.output_buffer, w)
        /\ a = Weigh(s.aio_buf, w) /\ p = Weigh(s.pipe, w)
        /\ f = Weigh(s.files, W) /\ l = C(s)
  BY <1>1, HeldParts
<1>3. Held(s, k, i) = o + b + a + p + f + l /\ o + b + a + p + f + l <= 1
  BY <1>2 DEF Held
<1>4. Weigh(<<>>, w) = 0
  BY WeighEmpty
<1>5. /\ Weigh(s.pipe \o s.output, w) = p + o
      /\ Weigh(s.output \o s.output_buffer, w) = o + b
  BY <1>0, <1>1, <1>2, WeighConcat
<1>6. Weigh(Append(s.files, <<>>), W) = f
  <2>1. Weigh(Append(s.files, <<>>), W) = f + 0
    BY <1>1, <1>2, <1>4, NewFileWeight
  <2>2. f + 0 = f
    OBVIOUS
  <2> QED BY <2>1, <2>2, Zenon
<1>7. ASSUME NEW q \in Seq(Item), NEW why, NEW x \in Nat, x = Weigh(q, w),
             l + x <= 1, t.lost = s.lost \cup Dropped(q, why)
      PROVE  C(t) = l + x
  <2>1. PICK L \in SUBSET Losses : L = s.lost
    BY <1>1
  <2>2. /\ IsFiniteSet(L)
        /\ Cardinality(LostOf(L, k, i)) + Weigh(q, ItemWeight(k, i)) <= 1
    BY <1>1, <1>2, <1>7, <2>1
  <2>3. Cardinality(LostOf(L \cup Dropped(q, why), k, i))
          = Cardinality(LostOf(L, k, i)) + Weigh(q, ItemWeight(k, i))
    BY <2>2, DropCounts, Zenon
  <2> QED
    BY <1>2, <1>7, <2>1, <2>3
<1> HIDE DEF w, W, C
<1>8. /\ Held(t, k, i)
           = Weigh(t.output, w) + Weigh(t.output_buffer, w) + Weigh(t.aio_buf, w)
               + Weigh(t.pipe, w) + Weigh(t.files, W) + C(t)
      /\ Held(s, k, i) = o + b + a + p + f + l
  BY <1>3 DEF Held, w, W, C
<1>9. CASE Kept(s, t)
  <2>1. /\ Weigh(t.output, w) = o /\ Weigh(t.output_buffer, w) = b
        /\ Weigh(t.aio_buf, w) = a /\ Weigh(t.pipe, w) = p
        /\ Weigh(t.files, W) = f /\ C(t) = l
    BY <1>2, <1>9 DEF Kept, SameOutput, SameBuffer, SamePipe, SameFiles,
                      SameAio, C
  <2> QED BY <1>8, <2>1
<1>10. CASE Slurped(s, t)
  <2>1. /\ Weigh(t.output, w) = b /\ Weigh(t.output_buffer, w) = 0
        /\ Weigh(t.aio_buf, w) = a /\ Weigh(t.pipe, w) = p
        /\ Weigh(t.files, W) = f /\ C(t) = l
        /\ o = 0
    BY <1>2, <1>4, <1>10 DEF Slurped, NoBuffer, SamePipe, SameFiles, SameAio, C
  <2> QED BY <1>8, <2>1
<1>11. CASE Written(s, t)
  <2>1. /\ Weigh(t.output, w) = 0 /\ Weigh(t.output_buffer, w) = b
        /\ Weigh(t.aio_buf, w) = a /\ Weigh(t.pipe, w) = p + o
        /\ Weigh(t.files, W) = f /\ C(t) = l
    BY <1>2, <1>4, <1>5, <1>11
       DEF Written, NoOutput, SameBuffer, SameFiles, SameAio, C
  <2> QED BY <1>8, <2>1
<1>12. CASE HungUp(s, t)
  <2>1. C(t) = l + p
    <3>1. l + p <= 1
      BY <1>3
    <3> QED BY <1>1, <1>2, <1>7, <1>12, <3>1 DEF HungUp
  <2>2. /\ Weigh(t.output, w) = o /\ Weigh(t.output_buffer, w) = b
        /\ Weigh(t.aio_buf, w) = a /\ Weigh(t.pipe, w) = 0
        /\ Weigh(t.files, W) = f /\ C(t) = l + p
    BY <1>2, <1>4, <1>12, <2>1
       DEF HungUp, SameOutput, SameBuffer, SameFiles, SameAio
  <2> QED BY <1>8, <2>2
<1>13. CASE Purged(s, t)
  <2>1. C(t) = l + b
    <3>1. l + b <= 1
      BY <1>3
    <3> QED BY <1>1, <1>2, <1>7, <1>13, <3>1 DEF Purged
  <2>2. /\ Weigh(t.output, w) = o /\ Weigh(t.output_buffer, w) = 0
        /\ Weigh(t.aio_buf, w) = a /\ Weigh(t.pipe, w) = p
        /\ Weigh(t.files, W) = f /\ C(t) = l + b
    BY <1>2, <1>4, <1>13, <2>1
       DEF Purged, SameOutput, NoBuffer, SameFiles, SameAio
  <2> QED BY <1>8, <2>2
<1>14. CASE DumpLost(s, t)
  <2>1. C(t) = l + (o + b)
    <3>1. s.output \o s.output_buffer \in Seq(Item)
      BY <1>1, ConcatProperties
    <3>2. PICK why : t.lost = s.lost \cup Dropped(s.output \o s.output_buffer, why)
      BY <1>14 DEF DumpLost
    <3>3. PICK x \in Nat : x = o + b
      OBVIOUS
    <3>4. l + x <= 1
      BY <1>3, <3>3
    <3> QED BY <1>5, <1>7, <3>1, <3>2, <3>3, <3>4
  <2>2. Weigh(t.files, W) = f
    <3>1. t.files = s.files \/ t.files = Append(s.files, <<>>)
      BY <1>14 DEF DumpLost, SameFiles, UnusedFile
    <3> QED BY <1>2, <1>6, <3>1, Zenon
  <2>3. /\ Weigh(t.output, w) = 0 /\ Weigh(t.output_buffer, w) = 0
        /\ Weigh(t.aio_buf, w) = a /\ Weigh(t.pipe, w) = p
        /\ Weigh(t.files, W) = f /\ C(t) = l + (o + b)
    BY <1>2, <1>4, <1>14, <2>1, <2>2 DEF DumpLost, NoOutput, NoBuffer, SameAio
  <2> QED BY <1>8, <2>3
<1>15. CASE DumpQueued(s, t)
  <2>1. /\ Weigh(t.output, w) = 0 /\ Weigh(t.output_buffer, w) = 0
        /\ Weigh(t.aio_buf, w) = o + b /\ Weigh(t.pipe, w) = p
        /\ Weigh(t.files, W) = f /\ C(t) = l
        /\ a = 0
    BY <1>2, <1>4, <1>5, <1>6, <1>15
       DEF DumpQueued, NoOutput, NoBuffer, SamePipe, NewFile, C, Tidy
  <2> QED BY <1>8, <2>1
<1> QED
  BY <1>9, <1>10, <1>11, <1>12, <1>13, <1>14, <1>15 DEF Move

\* Adding an item adds one copy.
LEMMA HeldEnqueued ==
  ASSUME NEW k, NEW i, NEW s \in StateSet, NEW t \in StateSet, Tidy(s),
         NEW item \in Item, Enqueued(s, t, item)
  PROVE  Tidy(t) /\ Held(t, k, i) = Held(s, k, i) + ItemWeight(k, i)[item]
<1> DEFINE w == ItemWeight(k, i)
<1>0. w \in [Item -> Nat]
  BY WeightTypes
<1>1. /\ t.pipe = s.pipe /\ t.lost = s.lost /\ t.files = s.files
      /\ t.dump_file = s.dump_file /\ t.dump_fds = s.dump_fds
      /\ t.aio = s.aio /\ t.aio_buf = s.aio_buf
  BY DEF Enqueued, SamePipe, SameFiles, SameAio
<1>2. Tidy(t)
  BY <1>1 DEF Tidy
<1>3. PICK o \in Nat, b \in Nat, a \in Nat, p \in Nat, f \in Nat, l \in Nat,
           x \in Nat :
        /\ o = Weigh(s.output, w) /\ b = Weigh(s.output_buffer, w)
        /\ a = Weigh(s.aio_buf, w) /\ p = Weigh(s.pipe, w)
        /\ f = Weigh(s.files, FileWeight(k, i))
        /\ l = Cardinality(LostOf(s.lost, k, i)) /\ x = w[item]
  BY <1>0, HeldParts DEF Tidy
<1>4. /\ Held(s, k, i) = o + b + a + p + f + l
      /\ Held(t, k, i)
           = Weigh(t.output, w) + Weigh(t.output_buffer, w) + a + p + f + l
  BY <1>1, <1>3 DEF Held
<1>5. \/ o = 0 /\ Weigh(t.output, w) = x /\ Weigh(t.output_buffer, w) = b
      \/ Weigh(t.output, w) = o /\ Weigh(t.output_buffer, w) = b + x
  <2>1. Weigh(<<item>>, w) = x /\ Weigh(<<>>, w) = 0
    BY <1>0, <1>3, WeighSingle, WeighEmpty
  <2>2. Weigh(Append(s.output_buffer, item), w) = b + x
    <3>1. s.output_buffer \in Seq(Item)
      BY DEF StateSet
    <3> QED BY <1>0, <1>3, <3>1, WeighAppend
  <2> HIDE DEF w
  <2> QED
    BY <1>3, <2>1, <2>2 DEF Enqueued, SameOutput, SameBuffer
<1> HIDE DEF w
<1>6. Held(t, k, i) = (o + b + a + p + f + l) + x
  BY <1>4, <1>5
<1>7. Held(t, k, i) = Held(s, k, i) + w[item]
  BY <1>3, <1>4, <1>6
<1> QED
  BY <1>2, <1>7 DEF w

\* So does losing one that is not there.
LEMMA HeldReferenceLost ==
  ASSUME NEW k, NEW i, NEW s \in StateSet, NEW t \in StateSet, Tidy(s),
         NEW item \in Item, ReferenceLost(s, t, item),
         Held(s, k, i) + ItemWeight(k, i)[item] <= 1
  PROVE  Tidy(t) /\ Held(t, k, i) = Held(s, k, i) + ItemWeight(k, i)[item]
<1> DEFINE w == ItemWeight(k, i)
<1>0. w \in [Item -> Nat] /\ <<item>> \in Seq(Item)
  BY WeightTypes, SingletonSeq
<1>1. /\ t.output = s.output /\ t.output_buffer = s.output_buffer
      /\ t.pipe = s.pipe /\ t.files = s.files
      /\ t.dump_file = s.dump_file /\ t.dump_fds = s.dump_fds
      /\ t.aio = s.aio /\ t.aio_buf = s.aio_buf
      /\ t.lost = s.lost \cup Dropped(<<item>>, "close")
  BY DEF ReferenceLost, SameOutput, SameBuffer, SameFiles, SameAio
<1>2. PICK o \in Nat, b \in Nat, a \in Nat, p \in Nat, f \in Nat, l \in Nat,
           x \in Nat :
        /\ o = Weigh(s.output, w) /\ b = Weigh(s.output_buffer, w)
        /\ a = Weigh(s.aio_buf, w) /\ p = Weigh(s.pipe, w)
        /\ f = Weigh(s.files, FileWeight(k, i))
        /\ l = Cardinality(LostOf(s.lost, k, i)) /\ x = w[item]
  BY <1>0, HeldParts DEF Tidy
<1>3. Held(s, k, i) = o + b + a + p + f + l
  BY <1>2 DEF Held
<1>4. l + x <= 1
  BY <1>2, <1>3
<1>5. /\ IsFiniteSet(t.lost)
      /\ Cardinality(LostOf(t.lost, k, i)) = l + x
  <2>1. s.lost \in SUBSET Losses /\ IsFiniteSet(s.lost)
    BY DEF StateSet, Tidy
  <2>2. Weigh(<<item>>, w) = x
    BY <1>0, <1>2, WeighSingle
  <2>3. /\ IsFiniteSet(s.lost \cup Dropped(<<item>>, "close"))
        /\ Cardinality(LostOf(s.lost \cup Dropped(<<item>>, "close"), k, i))
             = Cardinality(LostOf(s.lost, k, i)) + Weigh(<<item>>, w)
    BY <1>0, <1>2, <1>4, <2>1, <2>2, DropCounts
  <2> QED
    BY <1>1, <1>2, <2>2, <2>3
<1>6. Tidy(t)
  BY <1>1, <1>5 DEF Tidy
<1>7. Held(t, k, i) = o + b + a + p + f + (l + x)
  BY <1>1, <1>2, <1>5 DEF Held
<1> HIDE DEF w
<1>8. Held(t, k, i) = Held(s, k, i) + w[item]
  BY <1>2, <1>3, <1>7
<1> QED
  BY <1>6, <1>8 DEF w

\* A failed request loses what the kernel was given.
LEMMA HeldAioLost ==
  ASSUME NEW k, NEW i, NEW s \in StateSet, NEW t \in StateSet, Tidy(s),
         AioLost(s, t), Held(s, k, i) <= 1
  PROVE  Tidy(t) /\ Held(t, k, i) = Held(s, k, i)
<1> DEFINE w == ItemWeight(k, i)
<1>1. /\ t.output = s.output /\ t.output_buffer = s.output_buffer
      /\ t.pipe = s.pipe /\ t.files = s.files /\ t.dump_fds = s.dump_fds
      /\ t.aio = "none" /\ t.aio_buf = <<>>
      /\ t.lost = s.lost \cup Dropped(s.aio_buf, "dump")
  BY DEF AioLost, SameOutput, SameBuffer, SameFiles
<1>2. PICK o \in Nat, b \in Nat, a \in Nat, p \in Nat, f \in Nat, l \in Nat :
        /\ o = Weigh(s.output, w) /\ b = Weigh(s.output_buffer, w)
        /\ a = Weigh(s.aio_buf, w) /\ p = Weigh(s.pipe, w)
        /\ f = Weigh(s.files, FileWeight(k, i))
        /\ l = Cardinality(LostOf(s.lost, k, i))
  BY HeldParts DEF Tidy
<1>3. Held(s, k, i) = o + b + a + p + f + l
  BY <1>2 DEF Held
<1>4. l + a <= 1
  BY <1>2, <1>3
<1>5. /\ IsFiniteSet(t.lost)
      /\ Cardinality(LostOf(t.lost, k, i)) = l + a
  <2>1. s.lost \in SUBSET Losses /\ IsFiniteSet(s.lost) /\ s.aio_buf \in Seq(Item)
    BY DEF StateSet, Tidy
  <2>2. /\ IsFiniteSet(s.lost \cup Dropped(s.aio_buf, "dump"))
        /\ Cardinality(LostOf(s.lost \cup Dropped(s.aio_buf, "dump"), k, i))
             = Cardinality(LostOf(s.lost, k, i)) + Weigh(s.aio_buf, w)
    BY <1>2, <1>4, <2>1, DropCounts
  <2> QED
    BY <1>1, <1>2, <2>2
<1>6. Tidy(t)
  BY <1>1, <1>5 DEF Tidy
<1>7. Held(t, k, i) = o + b + 0 + p + f + (l + a)
  BY <1>1, <1>2, <1>5, WeighEmpty DEF Held
<1> QED
  BY <1>3, <1>6, <1>7

\* Nothing but an emptied file changes the other files.
LEMMA ExceptFile ==
  ASSUME NEW fs \in Seq(Seq(Item)), NEW f \in 1..Len(fs), NEW q \in Seq(Item),
         NEW gs, gs = [fs EXCEPT ![f] = q]
  PROVE  /\ gs \in Seq(Seq(Item)) /\ Len(gs) = Len(fs) /\ gs[f] = q
         /\ \A g \in 1..Len(fs) : g # f => gs[g] = fs[g]
<1>1. PICK m \in Nat : m = Len(fs)
  BY LenProperties
<1>2. fs \in [1..m -> Seq(Item)]
  BY <1>1, LenProperties
<1>3. /\ gs \in [1..m -> Seq(Item)] /\ gs[f] = q
      /\ \A g \in 1..m : g # f => gs[g] = fs[g]
  BY <1>1, <1>2
<1>4. gs \in Seq(Seq(Item)) /\ Len(gs) = m
  BY <1>3, IsASeq
<1> QED
  BY <1>1, <1>3, <1>4

\* Contents move into a file and out of it with all their copies.
LEMMA ExceptFileWeight ==
  ASSUME NEW k, NEW i, NEW fs \in Seq(Seq(Item)), NEW f \in 1..Len(fs),
         NEW q \in Seq(Item), NEW gs, gs = [fs EXCEPT ![f] = q]
  PROVE  Weigh(gs, FileWeight(k, i)) + Weigh(fs[f], ItemWeight(k, i))
           = Weigh(fs, FileWeight(k, i)) + Weigh(q, ItemWeight(k, i))
<1>0. /\ gs \in Seq(Seq(Item)) /\ Len(gs) = Len(fs) /\ gs[f] = q
      /\ \A g \in 1..Len(fs) : g # f => gs[g] = fs[g]
  BY ExceptFile
<1>1. FileWeight(k, i) \in [Seq(Item) -> Nat]
  BY WeightTypes
<1>2. fs[f] \in Seq(Item)
  BY ElementOfSeq
<1>3. /\ FileWeight(k, i)[q] = Weigh(q, ItemWeight(k, i))
      /\ FileWeight(k, i)[fs[f]] = Weigh(fs[f], ItemWeight(k, i))
  BY <1>2 DEF FileWeight
<1>4. Weigh(gs, FileWeight(k, i)) + FileWeight(k, i)[fs[f]]
        = Weigh(fs, FileWeight(k, i)) + FileWeight(k, i)[q]
  <2>1. PICK S : S = Seq(Item)
    OBVIOUS
  <2>2. PICK w : w = FileWeight(k, i)
    OBVIOUS
  <2>3. w \in [S -> Nat] /\ fs \in Seq(S) /\ gs \in Seq(S)
    BY <1>0, <1>1, <2>1, <2>2, Zenon
  <2>4. SameBut(fs, gs, f)
    BY <1>0 DEF SameBut
  <2>5. Balanced(Weigh(gs, w), w[fs[f]], Weigh(fs, w), w[gs[f]])
    BY <2>3, <2>4, WeighExcept, Zenon
  <2> QED BY <1>0, <2>2, <2>5, Zenon DEF Balanced
<1> QED
  BY <1>3, <1>4, Zenon

\* A completed request has moved its data into the file.
LEMMA HeldAioStored ==
  ASSUME NEW k, NEW i, NEW s \in StateSet, NEW w \in StateSet, NEW c \in StateSet,
         Tidy(s), s.aio # "none", AioStored(s, w), FileClosed(w, c)
  PROVE  Tidy(c) /\ Held(c, k, i) = Held(s, k, i)
<1> DEFINE v == ItemWeight(k, i)
<1>1. /\ c.output = s.output /\ c.output_buffer = s.output_buffer
      /\ c.pipe = s.pipe /\ c.lost = s.lost
      /\ c.aio = "none" /\ c.aio_buf = <<>>
      /\ c.files = [s.files EXCEPT ![s.dump_file] = s.aio_buf]
      /\ c.dump_fds = s.dump_fds \ {s.dump_file}
  BY DEF AioStored, FileClosed, SameOutput, SameBuffer, SamePipe, SameAio
<1>2. /\ s.files \in Seq(Seq(Item)) /\ s.aio_buf \in Seq(Item)
      /\ s.dump_file \in 1..Len(s.files) /\ s.files[s.dump_file] = <<>>
  BY DEF StateSet, Tidy
<1>3. /\ Len(c.files) = Len(s.files)
      /\ \A g \in 1..Len(s.files) : g # s.dump_file => c.files[g] = s.files[g]
  BY <1>1, <1>2, ExceptFile, SMTT(30)
<1>4. Tidy(c)
  BY <1>1, <1>3 DEF Tidy
<1>5. PICK o \in Nat, b \in Nat, a \in Nat, p \in Nat, f \in Nat, l \in Nat :
        /\ o = Weigh(s.output, v) /\ b = Weigh(s.output_buffer, v)
        /\ a = Weigh(s.aio_buf, v) /\ p = Weigh(s.pipe, v)
        /\ f = Weigh(s.files, FileWeight(k, i))
        /\ l = Cardinality(LostOf(s.lost, k, i))
  BY HeldParts DEF Tidy
<1>6. Weigh(<<>>, v) = 0
  BY WeighEmpty
<1>7. PICK g \in Nat : g = Weigh(c.files, FileWeight(k, i))
  BY <1>4, HeldParts DEF Tidy
<1>8. g = f + a
  <2>1. Weigh(c.files, FileWeight(k, i)) + Weigh(s.files[s.dump_file], v)
          = Weigh(s.files, FileWeight(k, i)) + Weigh(s.aio_buf, v)
    BY <1>1, <1>2, ExceptFileWeight
  <2>2. g + 0 = f + a
    BY <1>2, <1>5, <1>6, <1>7, <2>1, Zenon
  <2> QED BY <2>2
<1>9. Held(s, k, i) = o + b + a + p + f + l
  BY <1>5 DEF Held
<1>10. Held(c, k, i) = o + b + 0 + p + g + l
  BY <1>1, <1>5, <1>6, <1>7 DEF Held
<1> QED
  BY <1>4, <1>8, <1>9, <1>10

\* So has a synchronous dump.
LEMMA HeldDumpStored ==
  ASSUME NEW k, NEW i, NEW s \in StateSet, NEW w \in StateSet, NEW c \in StateSet,
         Tidy(s), s.aio = "none", DumpStored(s, w), FileClosed(w, c)
  PROVE  Tidy(c) /\ Held(c, k, i) = Held(s, k, i)
<1> DEFINE v == ItemWeight(k, i)
<1>0. v \in [Item -> Nat]
  BY WeightTypes
<1>1. /\ c.output = <<>> /\ c.output_buffer = <<>>
      /\ c.pipe = s.pipe /\ c.lost = s.lost
      /\ c.aio = s.aio /\ c.aio_buf = s.aio_buf
      /\ c.files = Append(s.files, s.output \o s.output_buffer)
      /\ w.dump_file = Len(s.files) + 1
      /\ c.dump_fds = (s.dump_fds \cup {Len(s.files) + 1}) \ {Len(s.files) + 1}
      /\ c.dump_file = 0
  BY DEF DumpStored, FileClosed, SameOutput, SameBuffer, SamePipe, SameAio,
         NoOutput, NoBuffer, NewFile
<1>2. /\ s.files \in Seq(Seq(Item)) /\ s.output \in Seq(Item)
      /\ s.output_buffer \in Seq(Item) /\ s.output \o s.output_buffer \in Seq(Item)
  BY ConcatProperties DEF StateSet
<1>3. Tidy(c)
  <2>1. \A g \in c.dump_fds : g \in s.dump_fds
    BY <1>1
  <2> QED BY <1>1, <1>2, <2>1, AppendFile DEF Tidy
<1>4. PICK o \in Nat, b \in Nat, a \in Nat, p \in Nat, f \in Nat, l \in Nat :
        /\ o = Weigh(s.output, v) /\ b = Weigh(s.output_buffer, v)
        /\ a = Weigh(s.aio_buf, v) /\ p = Weigh(s.pipe, v)
        /\ f = Weigh(s.files, FileWeight(k, i))
        /\ l = Cardinality(LostOf(s.lost, k, i))
  BY HeldParts DEF Tidy
<1>5. Weigh(<<>>, v) = 0
  BY WeighEmpty
<1>6. Weigh(c.files, FileWeight(k, i)) = f + (o + b)
  <2>1. Weigh(s.output \o s.output_buffer, v) = o + b
    BY <1>0, <1>2, <1>4, WeighConcat
  <2>2. Weigh(Append(s.files, s.output \o s.output_buffer), FileWeight(k, i))
          = f + Weigh(s.output \o s.output_buffer, v)
    BY <1>2, <1>4, NewFileWeight
  <2> QED BY <1>1, <2>1, <2>2, Zenon
<1>7. Held(s, k, i) = o + b + a + p + f + l
  BY <1>4 DEF Held
<1>8. Held(c, k, i) = 0 + 0 + a + p + (f + (o + b)) + l
  BY <1>1, <1>4, <1>5, <1>6 DEF Held
<1> QED
  BY <1>3, <1>7, <1>8

-----------------------------------------------------------------------------
(* What Nagios has, and the sum.                                           *)

DeliveredOf(D, k, i) == {item \in D : Is(item, k, i)}

\* The copies that Nagios is processing or has processed.
Away(q, D, k, i) ==
  Weigh(q, ItemWeight(k, i)) + Cardinality(DeliveredOf(D, k, i))

\* Both counts are numbers.
LEMMA HeldType ==
  ASSUME NEW k, NEW i, NEW s \in StateSet, Tidy(s)
  PROVE  Held(s, k, i) \in Nat
<1>1. IsFiniteSet(s.lost)
  BY DEF Tidy
<1>2. PICK o \in Nat, b \in Nat, a \in Nat, p \in Nat, f \in Nat, l \in Nat :
        /\ o = Weigh(s.output, ItemWeight(k, i))
        /\ b = Weigh(s.output_buffer, ItemWeight(k, i))
        /\ a = Weigh(s.aio_buf, ItemWeight(k, i))
        /\ p = Weigh(s.pipe, ItemWeight(k, i))
        /\ f = Weigh(s.files, FileWeight(k, i))
        /\ l = Cardinality(LostOf(s.lost, k, i))
  BY <1>1, HeldParts
<1>3. Held(s, k, i) = o + b + a + p + f + l
  BY <1>2 DEF Held
<1> QED
  BY <1>3

\* The copies outside the writer are counted by numbers.
LEMMA AwayType ==
  ASSUME NEW k, NEW i, NEW q \in Seq(Item), NEW D \in SUBSET Item, IsFiniteSet(D)
  PROVE  /\ Weigh(q, ItemWeight(k, i)) \in Nat
         /\ Cardinality(DeliveredOf(D, k, i)) \in Nat
         /\ Away(q, D, k, i) \in Nat
<1>1. Weigh(q, ItemWeight(k, i)) \in Nat
  BY WeightTypes, WeighType
<1>2. Cardinality(DeliveredOf(D, k, i)) \in Nat
  <2>1. IsFiniteSet(DeliveredOf(D, k, i))
    BY FS_Subset DEF DeliveredOf
  <2> QED BY <2>1, FS_CardinalityType
<1> QED
  BY <1>1, <1>2 DEF Away

\* The only copy of an item is counted once when it is processed.
LEMMA DeliverCounts ==
  ASSUME NEW k, NEW i, NEW D \in SUBSET Item, IsFiniteSet(D), NEW item \in Item,
         Cardinality(DeliveredOf(D, k, i)) + ItemWeight(k, i)[item] <= 1
  PROVE  /\ IsFiniteSet(D \cup {item})
         /\ Cardinality(DeliveredOf(D \cup {item}, k, i))
              = Cardinality(DeliveredOf(D, k, i)) + ItemWeight(k, i)[item]
<1> DEFINE M == DeliveredOf(D, k, i)
           N == DeliveredOf(D \cup {item}, k, i)
<1>1. IsFiniteSet(D \cup {item})
  BY FS_AddElement
<1>2. IsFiniteSet(M) /\ Cardinality(M) \in Nat
  BY FS_Subset, FS_CardinalityType DEF DeliveredOf
<1>3. CASE Is(item, k, i)
  <2>1. ItemWeight(k, i)[item] = 1
    BY <1>3 DEF ItemWeight
  <2>2. Cardinality(M) = 0
    BY <1>2, <2>1
  <2>3. M = {}
    BY <1>2, <2>2, FS_EmptySet
  <2>4. N = {item}
    BY <1>3, <2>3 DEF DeliveredOf
  <2>5. Cardinality(N) = 1
    BY <2>4, FS_Singleton
  <2> QED BY <1>1, <2>1, <2>2, <2>5
<1>4. CASE ~Is(item, k, i)
  <2>1. ItemWeight(k, i)[item] = 0
    BY <1>4 DEF ItemWeight
  <2>2. N = M
    BY <1>4 DEF DeliveredOf
  <2> QED BY <1>1, <1>2, <2>1, <2>2
<1> QED
  BY <1>3, <1>4

\* The states with c copies of an item.
Place(k, i, c) == {s \in StateSet : Tidy(s) /\ Held(s, k, i) = c}

\* No move changes how many copies of an item there are, if there is at most one:
\* it is moved or its loss is recorded, which is why it cannot be lost twice.
LEMMA PlaceClosed ==
  ASSUME NEW k, NEW i, NEW c \in {0, 1}
  PROVE  Closed(Place(k, i, c))
<1> SUFFICES ASSUME NEW s \in Place(k, i, c), NEW t \in StateSet, Move(s, t)
             PROVE  t \in Place(k, i, c)
  BY DEF Closed
<1>1. s \in StateSet /\ Tidy(s) /\ Held(s, k, i) = c
  BY DEF Place
<1>2. Held(s, k, i) <= 1
  BY <1>1
<1> QED
  BY <1>1, <1>2, TidyMoves, HeldMoves DEF Place

\* A new item adds itself.
LEMMA PlaceAdd ==
  ASSUME NEW k, NEW i, NEW c \in {0, 1}, NEW d \in {0, 1}, NEW item \in Item,
         d = c + ItemWeight(k, i)[item],
         NEW s \in Place(k, i, c), NEW t \in StateSet,
         Enqueued(s, t, item) \/ ReferenceLost(s, t, item)
  PROVE  t \in Place(k, i, d)
<1>1. s \in StateSet /\ Tidy(s) /\ Held(s, k, i) = c
  BY DEF Place
<1>2. CASE Enqueued(s, t, item)
  BY <1>1, <1>2, HeldEnqueued DEF Place
<1>3. CASE ReferenceLost(s, t, item)
  <2>1. Held(s, k, i) + ItemWeight(k, i)[item] <= 1
    BY <1>1
  <2> QED BY <1>1, <1>3, <2>1, HeldReferenceLost DEF Place
<1> QED
  BY <1>2, <1>3

\* References are items, and no pushes.
LEMMA ReferenceItem ==
  ASSUME NEW f \in Nat
  PROVE  /\ Reference(f) \in Item
         /\ \A n : ItemWeight("push", n)[Reference(f)] = 0
         /\ ItemWeight("ref", f)[Reference(f)] = 1
         /\ \A g : g # f => ItemWeight("ref", g)[Reference(f)] = 0
<1>1. Reference(f) \in Item /\ Reference(f).kind = "ref" /\ Reference(f).id = f
  BY FifoAssumption DEF Reference, Item
<1> QED
  BY <1>1 DEF ItemWeight, Is

\* The end of an AIO request and the synchronous dump keep their data.
LEMMA PlaceStored ==
  ASSUME NEW k, NEW i, NEW c \in {0, 1}, Inv, State \in Place(k, i, c)
  PROVE  /\ AsyncReady => State.aio # "none"
         /\ IdleReady \/ IdleTimeout => State.aio = "none"
         /\ \A t \in StateSet : AioLost(State, t) => t \in Place(k, i, c)
         /\ AsyncReady => \A w, z \in StateSet :
              AioStored(State, w) /\ FileClosed(w, z) => z \in Place(k, i, c)
         /\ IdleReady \/ IdleTimeout => \A v, w, z \in StateSet :
              Kept(State, v) /\ DumpStored(v, w) /\ FileClosed(w, z)
                => z \in Place(k, i, c)
<1>1. State \in StateSet /\ Tidy(State) /\ Held(State, k, i) = c
  BY DEF Place
<1>2. ASSUME AsyncReady PROVE State.aio # "none"
  BY <1>2, StateFields DEF AsyncReady, Callback, Inv, TypeOK
<1>3. ASSUME IdleReady \/ IdleTimeout PROVE State.aio = "none"
  <2>1. Good(State) /\ (State.active \cap {"idle", "timeout"}) # {}
    BY <1>3, StateFields DEF IdleReady, IdleTimeout, Callback, Inv
  <2> QED BY <2>1 DEF Good, Base, Typed
<1>4. ASSUME NEW t \in StateSet, AioLost(State, t) PROVE t \in Place(k, i, c)
  <2>1. Held(State, k, i) <= 1
    BY <1>1
  <2> QED BY <1>1, <1>4, <2>1, HeldAioLost DEF Place
<1>5. ASSUME AsyncReady, NEW w \in StateSet, NEW z \in StateSet,
             AioStored(State, w), FileClosed(w, z)
      PROVE  z \in Place(k, i, c)
  BY <1>1, <1>2, <1>5, HeldAioStored DEF Place
<1>6. ASSUME IdleReady \/ IdleTimeout, NEW v \in StateSet, NEW w \in StateSet,
             NEW z \in StateSet, Kept(State, v), DumpStored(v, w),
             FileClosed(w, z)
      PROVE  z \in Place(k, i, c)
  <2>1. v \in Place(k, i, c)
    BY <1>6, PlaceClosed, KeptMove
  <2>2. v.aio = "none" /\ Tidy(v) /\ Held(v, k, i) = c
    BY <1>3, <1>6, <2>1 DEF Place, Kept, SameAio
  <2> QED BY <1>6, <2>2, HeldDumpStored DEF Place
<1> QED
  BY <1>2, <1>3, <1>4, <1>5, <1>6

\* No callback touches the number of copies of a push.
LEMMA CallbackPlace ==
  ASSUME NEW n, NEW c \in {0, 1}, Inv, State \in Place("push", n, c),
         \/ fifo_start \/ OpenTimer \/ WriteReady \/ AsyncReady
         \/ IdleReady \/ IdleTimeout
  PROVE  State' \in Place("push", n, c)
<1> DEFINE G == Place("push", n, c)
<1>1. Closed(G) /\ G \subseteq G
  BY PlaceClosed
<1>2. ASSUME NEW f \in Nat, NEW p \in G, NEW u \in StateSet,
             Enqueued(p, u, Reference(f)) \/ ReferenceLost(p, u, Reference(f))
      PROVE  u \in G
  <2>1. PICK item \in Item : item = Reference(f) /\ ItemWeight("push", n)[item] = 0
    BY ReferenceItem
  <2>2. Enqueued(p, u, item) \/ ReferenceLost(p, u, item)
    BY <1>2, <2>1
  <2>3. c = c + ItemWeight("push", n)[item]
    BY <2>1
  <2> QED BY <2>2, <2>3, PlaceAdd
<1>3. dump_file \in Nat /\ Len(files) + 1 \in Nat
  BY LenProperties DEF Inv, TypeOK
<1> HIDE DEF G
<1>4. CASE fifo_start \/ OpenTimer \/ WriteReady
  BY <1>1, <1>4, WriterMoves DEF G
<1>5. CASE AsyncReady
  <2>1. /\ \A t \in StateSet : AioLost(State, t) => t \in G
        /\ \A w, z \in StateSet : AioStored(State, w) /\ FileClosed(w, z) => z \in G
    BY <1>5, PlaceStored DEF G
  <2> QED BY <1>1, <1>2, <1>3, <1>5, <2>1, AsyncMoves DEF G
<1>6. CASE IdleReady \/ IdleTimeout
  <2>1. \A v, w, z \in StateSet :
          Kept(State, v) /\ DumpStored(v, w) /\ FileClosed(w, z) => z \in G
    BY <1>6, PlaceStored DEF G
  <2>2. State \in G
    BY DEF G
  <2> QED BY <1>1, <1>2, <1>3, <1>6, <2>1, <2>2, IdleMoves DEF G
<1> QED
  BY <1>4, <1>5, <1>6

-----------------------------------------------------------------------------
(* The steps of the outside world, and fifo_stop.                          *)

\* The copies that exist.
Number(k, i) == Held(State, k, i) + Away(inbox, delivered, k, i)

\* The copies place by place.
Breakdown(k, i, o, b, a, p, f, l, q, d) ==
  LET w == ItemWeight(k, i) IN
  /\ Weigh(output, w) = o /\ Weigh(output_buffer, w) = b
  /\ Weigh(aio_buf, w) = a /\ Weigh(pipe, w) = p
  /\ Weigh(files, FileWeight(k, i)) = f
  /\ Cardinality(LostOf(lost, k, i)) = l
  /\ Weigh(inbox, w) = q /\ Cardinality(DeliveredOf(delivered, k, i)) = d

\* The number, part by part.
LEMMA NumberParts ==
  ASSUME NEW k, NEW i, Inv, Tidy(State), IsFiniteSet(delivered)
  PROVE  \E o, b, a, p, f, l, q, d \in Nat :
           /\ Breakdown(k, i, o, b, a, p, f, l, q, d)
           /\ Number(k, i) = o + b + a + p + f + l + (q + d)
<1>1. State \in StateSet /\ IsFiniteSet(State.lost)
  BY StateTyped DEF Tidy
<1>2. inbox \in Seq(Item) /\ delivered \in SUBSET Item
  BY DEF Inv, TypeOK
<1>3. PICK o \in Nat, b \in Nat, a \in Nat, p \in Nat, f \in Nat, l \in Nat :
        /\ Weigh(State.output, ItemWeight(k, i)) = o
        /\ Weigh(State.output_buffer, ItemWeight(k, i)) = b
        /\ Weigh(State.aio_buf, ItemWeight(k, i)) = a
        /\ Weigh(State.pipe, ItemWeight(k, i)) = p
        /\ Weigh(State.files, FileWeight(k, i)) = f
        /\ Cardinality(LostOf(State.lost, k, i)) = l
  BY <1>1, HeldParts
<1>4. PICK q \in Nat, d \in Nat :
        /\ Weigh(inbox, ItemWeight(k, i)) = q
        /\ Cardinality(DeliveredOf(delivered, k, i)) = d
  BY <1>2, AwayType
<1>5. /\ Held(State, k, i) = o + b + a + p + f + l
      /\ Away(inbox, delivered, k, i) = q + d
  BY <1>3, <1>4 DEF Held, Away
<1>6. Number(k, i) = o + b + a + p + f + l + (q + d)
  BY <1>5 DEF Number
<1>7. Breakdown(k, i, o, b, a, p, f, l, q, d)
  BY <1>3, <1>4, StateFields DEF Breakdown
<1> QED
  BY <1>6, <1>7, ZenonT(60)

\* The same after a step, for parts known to be numbers.
LEMMA NumberNext ==
  ASSUME NEW k, NEW i, NEW o, NEW b, NEW a, NEW p, NEW f, NEW l, NEW q, NEW d,
         Breakdown(k, i, o, b, a, p, f, l, q, d)'
  PROVE  Number(k, i)' = o + b + a + p + f + l + (q + d)
<1>1. /\ State'.output = output' /\ State'.output_buffer = output_buffer'
      /\ State'.aio_buf = aio_buf' /\ State'.pipe = pipe'
      /\ State'.files = files' /\ State'.lost = lost'
  BY DEF State
<1>2. Held(State', k, i) = o + b + a + p + f + l
  BY <1>1 DEF Held, Breakdown
<1>3. Away(inbox', delivered', k, i) = q + d
  BY DEF Away, Breakdown
<1> QED
  BY <1>2, <1>3 DEF Number

\* A step that leaves the data alone.
LEMMA SameNumber ==
  ASSUME NEW k, NEW i, output' = output, output_buffer' = output_buffer,
         aio_buf' = aio_buf, pipe' = pipe, files' = files, lost' = lost,
         inbox' = inbox, delivered' = delivered
  PROVE  Number(k, i)' = Number(k, i)
<1>1. /\ State'.output = State.output /\ State'.output_buffer = State.output_buffer
      /\ State'.aio_buf = State.aio_buf /\ State'.pipe = State.pipe
      /\ State'.files = State.files /\ State'.lost = State.lost
  BY DEF State
<1>2. Held(State', k, i) = Held(State, k, i)
  BY <1>1 DEF Held
<1> QED
  BY <1>2 DEF Number

\* What the dump files and the descriptors look like after a step.
LEMMA TidyNext ==
  ASSUME Tidy(State), IsFiniteSet(lost'),
         aio' = "none" => aio_buf' = <<>>,
         aio' # "none" =>
           aio # "none" /\ dump_file' = dump_file /\ dump_fds' = dump_fds,
         dump_fds' \subseteq dump_fds, Len(files') = Len(files),
         \A f \in 1..Len(files) : files'[f] = files[f] \/ files'[f] = <<>>
  PROVE  Tidy(State')
<1>1. /\ State'.lost = lost' /\ State'.aio = aio' /\ State'.aio_buf = aio_buf'
      /\ State'.dump_file = dump_file' /\ State'.dump_fds = dump_fds'
      /\ State'.files = files'
  BY DEF State
<1>2. /\ aio # "none" => dump_file \in dump_fds
      /\ dump_fds \subseteq 1..Len(files)
      /\ \A f \in dump_fds : files[f] = <<>>
  BY StateFields DEF Tidy
<1> QED
  BY <1>1, <1>2 DEF Tidy

\* fifo_stop drops what it had, once.
LEMMA StopNumber ==
  ASSUME NEW k, NEW i, Inv, Tidy(State), IsFiniteSet(delivered),
         Number(k, i) <= 1, fifo_stop
  PROVE  Tidy(State') /\ delivered' = delivered /\ Number(k, i)' = Number(k, i)
<1> DEFINE w == ItemWeight(k, i)
           held == output \o output_buffer \o aio_buf
           mid == lost \cup Dropped(pipe, "hangup")
<1>0. /\ output \in Seq(Item) /\ output_buffer \in Seq(Item)
      /\ aio_buf \in Seq(Item) /\ pipe \in Seq(Item) /\ lost \in SUBSET Losses
      /\ w \in [Item -> Nat] /\ IsFiniteSet(lost)
  BY WeightTypes, StateTyped, StateFields DEF StateSet, Tidy
<1>2a. PICK o, b, a, p, f, l, q, d \in Nat :
        /\ Breakdown(k, i, o, b, a, p, f, l, q, d)
        /\ Number(k, i) = o + b + a + p + f + l + (q + d)
  BY NumberParts, ZenonT(60)
<1>1. /\ Weigh(output, w) = o /\ Weigh(output_buffer, w) = b
      /\ Weigh(aio_buf, w) = a /\ Weigh(pipe, w) = p
      /\ Weigh(files, FileWeight(k, i)) = f
      /\ Cardinality(LostOf(lost, k, i)) = l
      /\ Weigh(inbox, w) = q /\ Cardinality(DeliveredOf(delivered, k, i)) = d
      /\ Number(k, i) = o + b + a + p + f + l + (q + d)
  BY <1>2a DEF Breakdown
<1>2. held \in Seq(Item) /\ Weigh(held, w) = o + b + a
  <2>1. output \o output_buffer \in Seq(Item)
    BY <1>0, ConcatProperties
  <2>2. Weigh(output \o output_buffer, w) = o + b
    BY <1>0, <1>1, WeighConcat
  <2>3. Weigh(held, w) = Weigh(output \o output_buffer, w) + a
    BY <1>0, <1>1, <2>1, WeighConcat
  <2> QED BY <1>0, <2>1, <2>2, <2>3, ConcatProperties
<1>3. /\ output' = <<>> /\ output_buffer' = <<>> /\ aio_buf' = <<>>
      /\ aio' = "none" /\ dump_fds' = {} /\ files' = files
      /\ inbox' = inbox /\ delivered' = delivered
      /\ \/ pipe' = pipe /\ lost' = lost \cup Dropped(held, "stopped")
         \/ pipe' = <<>> /\ lost' = mid \cup Dropped(held, "stopped")
  BY StopMoves DEF fifo_stop, worldVars
<1>4. Weigh(<<>>, w) = 0
  BY WeighEmpty
<1> HIDE DEF held, w
<1>5. CASE pipe' = pipe /\ lost' = lost \cup Dropped(held, "stopped")
  <2>1. /\ IsFiniteSet(lost')
        /\ Cardinality(LostOf(lost', k, i)) = l + (o + b + a)
    <3>1. Cardinality(LostOf(lost, k, i)) + Weigh(held, w) <= 1
      BY <1>1, <1>2
    <3>2. /\ IsFiniteSet(lost \cup Dropped(held, "stopped"))
          /\ Cardinality(LostOf(lost \cup Dropped(held, "stopped"), k, i))
               = Cardinality(LostOf(lost, k, i)) + Weigh(held, w)
      BY <1>0, <1>2, <3>1, DropCounts DEF w
    <3> QED BY <1>1, <1>2, <1>5, <3>2
  <2>2. Number(k, i)' = 0 + 0 + 0 + p + f + (l + (o + b + a)) + (q + d)
    <3>1. Breakdown(k, i, 0, 0, 0, p, f, l + (o + b + a), q, d)'
      BY <1>1, <1>3, <1>4, <1>5, <2>1 DEF w, Breakdown
    <3> QED BY <3>1, NumberNext
  <2>3. Number(k, i)' = Number(k, i)
    BY <1>1, <2>2
  <2>4. Tidy(State')
    BY <1>3, <2>1, TidyNext
  <2> QED BY <1>3, <2>3, <2>4
<1>6. CASE pipe' = <<>> /\ lost' = mid \cup Dropped(held, "stopped")
  <2>1. /\ IsFiniteSet(mid) /\ mid \in SUBSET Losses
        /\ Cardinality(LostOf(mid, k, i)) = l + p
    <3>1. l + Weigh(pipe, w) <= 1
      BY <1>1
    <3>2. Dropped(pipe, "hangup") \subseteq Losses
      <4>1. "hangup" \in Reasons \ {"torn"}
        BY DEF Reasons
      <4> QED BY <1>0, <4>1, DroppedType
    <3> QED BY <1>0, <1>1, <3>1, <3>2, DropCounts DEF w
  <2> HIDE DEF mid
  <2>2. /\ IsFiniteSet(lost')
        /\ Cardinality(LostOf(lost', k, i)) = (l + p) + (o + b + a)
    <3>1. Cardinality(LostOf(mid, k, i)) + Weigh(held, w) <= 1
      BY <1>1, <1>2, <2>1
    <3>2. /\ IsFiniteSet(mid \cup Dropped(held, "stopped"))
          /\ Cardinality(LostOf(mid \cup Dropped(held, "stopped"), k, i))
               = Cardinality(LostOf(mid, k, i)) + Weigh(held, w)
      BY <1>2, <2>1, <3>1, DropCounts DEF w
    <3> QED BY <1>2, <1>6, <2>1, <3>2
  <2>3. Number(k, i)' = 0 + 0 + 0 + 0 + f + ((l + p) + (o + b + a)) + (q + d)
    <3>1. Breakdown(k, i, 0, 0, 0, 0, f, (l + p) + (o + b + a), q, d)'
      BY <1>1, <1>3, <1>4, <1>6, <2>2 DEF w, Breakdown
    <3> QED BY <3>1, NumberNext
  <2>4. Number(k, i)' = Number(k, i)
    BY <1>1, <2>3
  <2>5. Tidy(State')
    BY <1>3, <2>2, TidyNext
  <2> QED BY <1>3, <2>4, <2>5
<1> QED
  BY <1>3, <1>5, <1>6

\* So does an exiting Nagios.
LEMMA ExitNumber ==
  ASSUME NEW k, NEW i, Inv, Tidy(State), IsFiniteSet(delivered),
         Number(k, i) <= 1, NagiosExit
  PROVE  Tidy(State') /\ delivered' = delivered /\ Number(k, i)' = Number(k, i)
<1> DEFINE w == ItemWeight(k, i)
           mid == lost \cup Dropped(inbox, "hangup")
<1>0. /\ pipe \in Seq(Item) /\ inbox \in Seq(Item) /\ lost \in SUBSET Losses
      /\ IsFiniteSet(lost)
  BY StateTyped, StateFields DEF StateSet, Tidy, Inv, TypeOK
<1>2a. PICK o, b, a, p, f, l, q, d \in Nat :
        /\ Breakdown(k, i, o, b, a, p, f, l, q, d)
        /\ Number(k, i) = o + b + a + p + f + l + (q + d)
  BY NumberParts, ZenonT(60)
<1>1. /\ Weigh(output, w) = o /\ Weigh(output_buffer, w) = b
      /\ Weigh(aio_buf, w) = a /\ Weigh(pipe, w) = p
      /\ Weigh(files, FileWeight(k, i)) = f
      /\ Cardinality(LostOf(lost, k, i)) = l
      /\ Weigh(inbox, w) = q /\ Cardinality(DeliveredOf(delivered, k, i)) = d
      /\ Number(k, i) = o + b + a + p + f + l + (q + d)
  BY <1>2a DEF Breakdown
<1>2. /\ output' = output /\ output_buffer' = output_buffer /\ aio_buf' = aio_buf
      /\ aio' = aio /\ dump_file' = dump_file /\ dump_fds' = dump_fds
      /\ files' = files /\ inbox' = <<>> /\ delivered' = delivered
      /\ \/ pipe' = pipe /\ lost' = mid
         \/ pipe' = <<>> /\ lost' = mid \cup Dropped(pipe, "hangup")
  BY DEF NagiosExit
<1>3. Weigh(<<>>, w) = 0
  BY WeighEmpty
<1>4. /\ IsFiniteSet(mid) /\ mid \in SUBSET Losses
      /\ Cardinality(LostOf(mid, k, i)) = l + q
  <2>1. l + Weigh(inbox, w) <= 1
    BY <1>1
  <2>2. Dropped(inbox, "hangup") \subseteq Losses
    <3>1. "hangup" \in Reasons \ {"torn"}
      BY DEF Reasons
    <3> QED BY <1>0, <3>1, DroppedType
  <2> QED BY <1>0, <1>1, <2>1, <2>2, DropCounts
<1> HIDE DEF w, mid
<1>5. CASE pipe' = pipe /\ lost' = mid
  <2>1. Number(k, i)' = o + b + a + p + f + (l + q) + (0 + d)
    <3>1. Breakdown(k, i, o, b, a, p, f, l + q, 0, d)'
      BY <1>1, <1>2, <1>3, <1>4, <1>5 DEF w, Breakdown
    <3> QED BY <3>1, NumberNext
  <2>2. Number(k, i)' = Number(k, i)
    BY <1>1, <2>1
  <2>3. Tidy(State')
    <3>1. aio = "none" => aio_buf = <<>>
      BY StateFields DEF Tidy
    <3> QED BY <1>2, <1>4, <1>5, <3>1, TidyNext
  <2> QED BY <1>2, <2>2, <2>3
<1>6. CASE pipe' = <<>> /\ lost' = mid \cup Dropped(pipe, "hangup")
  <2>1. /\ IsFiniteSet(lost')
        /\ Cardinality(LostOf(lost', k, i)) = (l + q) + p
    <3>1. (l + q) + Weigh(pipe, w) <= 1
      BY <1>1
    <3> QED BY <1>0, <1>1, <1>4, <1>6, <3>1, DropCounts, SMTT(30) DEF w
  <2>2. Number(k, i)' = o + b + a + 0 + f + ((l + q) + p) + (0 + d)
    <3>1. Breakdown(k, i, o, b, a, 0, f, (l + q) + p, 0, d)'
      BY <1>1, <1>2, <1>3, <1>6, <2>1 DEF w, Breakdown
    <3> QED BY <3>1, NumberNext
  <2>3. Number(k, i)' = Number(k, i)
    BY <1>1, <2>2
  <2>4. Tidy(State')
    <3>1. aio = "none" => aio_buf = <<>>
      BY StateFields DEF Tidy
    <3> QED BY <1>2, <2>1, <3>1, TidyNext
  <2> QED BY <1>2, <2>3, <2>4
<1> QED
  BY <1>2, <1>5, <1>6

\* What is counted where after Nagios has processed a command.
Processed(k, i, item, rest) ==
  /\ IsFiniteSet(delivered')
  /\ Len(files') = Len(files)
  /\ \A g \in 1..Len(files) : files'[g] = files[g] \/ files'[g] = <<>>
  /\ Cardinality(DeliveredOf(delivered', k, i))
       = Cardinality(DeliveredOf(delivered, k, i)) + ItemWeight(k, i)[item]
  /\ \E c \in Nat, y \in Nat :
       /\ Weigh(files', FileWeight(k, i)) = y
       /\ Weigh(inbox', ItemWeight(k, i)) = c + Weigh(rest, ItemWeight(k, i))
       /\ y + c = Weigh(files, FileWeight(k, i))

\* Processing a command moves it from where it was, and the contents of the
\* file it names to the inbox.
LEMMA ProcessMoves ==
  ASSUME NEW k, NEW i, Inv, IsFiniteSet(delivered),
         NEW item \in Item, NEW rest \in Seq(Item), Process(item, rest),
         Cardinality(DeliveredOf(delivered, k, i)) + ItemWeight(k, i)[item] <= 1
  PROVE  Processed(k, i, item, rest)
<1> DEFINE w == ItemWeight(k, i)
<1>0. /\ files \in Seq(Seq(Item)) /\ delivered \in SUBSET Item
      /\ w \in [Item -> Nat] /\ <<>> \in Seq(Item)
  BY WeightTypes, EmptySeq DEF Inv, TypeOK
<1>f. PICK f \in Nat, r \in Nat :
        f = Weigh(files, FileWeight(k, i)) /\ r = Weigh(rest, w)
  <2>1. FileWeight(k, i) \in [Seq(Item) -> Nat]
    BY WeightTypes
  <2> QED BY <1>0, <2>1, WeighType
<1>1. /\ IsFiniteSet(delivered')
      /\ Cardinality(DeliveredOf(delivered', k, i))
           = Cardinality(DeliveredOf(delivered, k, i)) + ItemWeight(k, i)[item]
  <2>1. delivered' = delivered \cup {item}
    BY DEF Process
  <2>3. /\ IsFiniteSet(delivered \cup {item})
        /\ Cardinality(DeliveredOf(delivered \cup {item}, k, i))
             = Cardinality(DeliveredOf(delivered, k, i)) + ItemWeight(k, i)[item]
    BY <1>0, DeliverCounts
  <2> QED BY <2>1, <2>3
<1>2. CASE item.kind = "ref" /\ item.id \in DOMAIN files
  <2>1. /\ inbox' = files[item.id] \o rest
        /\ files' = [files EXCEPT ![item.id] = <<>>]
    BY <1>2 DEF Process
  <2>2. PICK g \in 1..Len(files) : g = item.id
    BY <1>0, <1>2, LenProperties
  <2>3. files[g] \in Seq(Item)
    BY <1>0, ElementOfSeq
  <2>4. /\ files' \in Seq(Seq(Item)) /\ Len(files') = Len(files) /\ files'[g] = <<>>
        /\ \A h \in 1..Len(files) : h # g => files'[h] = files[h]
    BY <1>0, <2>1, <2>2, ExceptFile
  <2>5. PICK c \in Nat, y \in Nat :
          Weigh(files[g], w) = c /\ Weigh(files', FileWeight(k, i)) = y
    <3>1. FileWeight(k, i) \in [Seq(Item) -> Nat]
      BY WeightTypes
    <3> QED BY <1>0, <2>3, <2>4, <3>1, WeighType
  <2>6. Weigh(inbox', w) = c + r
    BY <1>0, <1>f, <2>1, <2>2, <2>3, <2>5, WeighConcat
  <2>7. y + c = f + 0
    <3>1. Weigh(files', FileWeight(k, i)) + Weigh(files[g], w)
            = Weigh(files, FileWeight(k, i)) + Weigh(<<>>, w)
      BY <1>0, <2>1, <2>2, ExceptFileWeight
    <3>2. Weigh(<<>>, w) = 0
      BY WeighEmpty
    <3> QED BY <1>f, <2>5, <3>1, <3>2, Zenon
  <2>8. /\ Weigh(files', FileWeight(k, i)) = y
        /\ Weigh(inbox', ItemWeight(k, i)) = c + Weigh(rest, ItemWeight(k, i))
        /\ y + c = Weigh(files, FileWeight(k, i))
    BY <1>f, <2>5, <2>6, <2>7
  <2>9. \A h \in 1..Len(files) : files'[h] = files[h] \/ files'[h] = <<>>
    BY <2>4
  <2> QED BY <1>1, <2>4, <2>8, <2>9, Zenon DEF Processed
<1>3. CASE ~(item.kind = "ref" /\ item.id \in DOMAIN files)
  <2>1. inbox' = rest /\ files' = files
    BY <1>3 DEF Process
  <2>2. /\ Weigh(files', FileWeight(k, i)) = f
        /\ Weigh(inbox', ItemWeight(k, i)) = 0 + Weigh(rest, ItemWeight(k, i))
        /\ f + 0 = Weigh(files, FileWeight(k, i))
    BY <1>f, <2>1
  <2>3. 0 \in Nat
    OBVIOUS
  <2> QED BY <1>1, <2>1, <2>2, <2>3, Zenon DEF Processed
<1> QED
  BY <1>2, <1>3

\* So nothing is duplicated or forgotten when Nagios reads.
LEMMA ReadNumber ==
  ASSUME NEW k, NEW i, Inv, Tidy(State), IsFiniteSet(delivered),
         Number(k, i) <= 1, NagiosRead
  PROVE  /\ Tidy(State') /\ IsFiniteSet(delivered')
         /\ Number(k, i)' = Number(k, i)
         /\ dump_fds' = dump_fds /\ Len(files') = Len(files)
         /\ \A f \in 1..Len(files) : files'[f] = files[f] \/ files'[f] = <<>>
<1> DEFINE w == ItemWeight(k, i)
<1>0. /\ pipe \in Seq(Item) /\ inbox \in Seq(Item) /\ IsFiniteSet(lost)
      /\ w \in [Item -> Nat] /\ <<>> \in Seq(Item) /\ Weigh(<<>>, w) = 0
  BY StateFields, WeightTypes, EmptySeq, WeighEmpty DEF Tidy, Inv, TypeOK
<1>1. PICK o, b, a, p, f, l, q, d \in Nat :
        /\ Breakdown(k, i, o, b, a, p, f, l, q, d)
        /\ Number(k, i) = o + b + a + p + f + l + (q + d)
  BY NumberParts, ZenonT(60)
<1>2. /\ Weigh(output, w) = o /\ Weigh(output_buffer, w) = b
      /\ Weigh(aio_buf, w) = a /\ Weigh(pipe, w) = p
      /\ Weigh(files, FileWeight(k, i)) = f
      /\ Cardinality(LostOf(lost, k, i)) = l
      /\ Weigh(inbox, w) = q /\ Cardinality(DeliveredOf(delivered, k, i)) = d
  BY <1>1 DEF Breakdown
<1>3. /\ output' = output /\ output_buffer' = output_buffer /\ aio_buf' = aio_buf
      /\ aio' = aio /\ dump_file' = dump_file /\ dump_fds' = dump_fds
      /\ lost' = lost
  BY DEF NagiosRead
<1>4. PICK item \in Item, rest \in Seq(Item), r \in Nat, x \in Nat, z \in Nat :
        /\ Process(item, rest)
        /\ r = Weigh(rest, w) /\ x = w[item] /\ Weigh(pipe', w) = z
        /\ p + q = z + x + r
  <2>1. CASE inbox # <<>> /\ Process(Head(inbox), Tail(inbox)) /\ pipe' = pipe
    <3>1. Head(inbox) \in Item /\ Tail(inbox) \in Seq(Item)
      BY <1>0, <2>1, HeadTailProperties
    <3>2. PICK x \in Nat, r \in Nat : x = w[Head(inbox)] /\ r = Weigh(Tail(inbox), w)
      BY <1>0, <3>1, WeighType
    <3>3. Weigh(inbox, w) = w[Head(inbox)] + Weigh(Tail(inbox), w)
      BY <1>0, <2>1, WeighTail
    <3>4. q = x + r
      BY <1>2, <3>2, <3>3, Zenon
    <3>5. p + q = p + x + r
      BY <3>4
    <3> QED BY <1>2, <2>1, <3>1, <3>2, <3>5
  <2>2. CASE /\ inbox = <<>> /\ pipe # <<>> /\ Process(Head(pipe), <<>>)
             /\ pipe' = Tail(pipe)
    <3>1. Head(pipe) \in Item /\ Tail(pipe) \in Seq(Item)
      BY <1>0, <2>2, HeadTailProperties
    <3>2. PICK x \in Nat, z \in Nat : x = w[Head(pipe)] /\ z = Weigh(Tail(pipe), w)
      BY <1>0, <3>1, WeighType
    <3>3. Weigh(pipe, w) = w[Head(pipe)] + Weigh(Tail(pipe), w)
      BY <1>0, <2>2, WeighTail
    <3>4. p = x + z
      BY <1>2, <3>2, <3>3, Zenon
    <3>5. q = 0
      BY <1>0, <1>2, <2>2, Zenon
    <3>6. p + q = z + x + 0
      BY <3>4, <3>5
    <3>7. /\ Process(Head(pipe), <<>>)
          /\ 0 = Weigh(<<>>, w) /\ x = w[Head(pipe)] /\ Weigh(pipe', w) = z
          /\ p + q = z + x + 0
      BY <1>0, <2>2, <3>2, <3>6
    <3>8. 0 \in Nat
      OBVIOUS
    <3> QED BY <1>0, <3>1, <3>7, <3>8, Zenon
  <2> QED BY <2>1, <2>2 DEF NagiosRead
<1>5. p + q = z + x + r /\ o + b + a + p + f + l + (q + d) <= 1
  BY <1>1, <1>4
<1>6. Processed(k, i, item, rest)
  <2>1. d + x <= 1
    BY <1>5
  <2>2. Cardinality(DeliveredOf(delivered, k, i)) + ItemWeight(k, i)[item] <= 1
    BY <1>2, <1>4, <2>1
  <2>3. Process(item, rest)
    BY <1>4
  <2> QED BY <2>2, <2>3, ProcessMoves, Zenon
<1>6a. /\ IsFiniteSet(delivered') /\ Len(files') = Len(files)
       /\ \A g \in 1..Len(files) : files'[g] = files[g] \/ files'[g] = <<>>
       /\ Cardinality(DeliveredOf(delivered', k, i)) = d + x
  BY <1>2, <1>4, <1>6 DEF Processed
<1>7. PICK c \in Nat, y \in Nat :
        /\ Weigh(files', FileWeight(k, i)) = y
        /\ Weigh(inbox', w) = c + r
        /\ y + c = f
  BY <1>2, <1>4, <1>6 DEF Processed
<1>8. Number(k, i)' = o + b + a + z + y + l + ((c + r) + (d + x))
  <2>1. Breakdown(k, i, o, b, a, z, y, l, c + r, d + x)'
    <3>1. /\ Weigh(output', w) = o /\ Weigh(output_buffer', w) = b
          /\ Weigh(aio_buf', w) = a /\ Cardinality(LostOf(lost', k, i)) = l
      BY <1>2, <1>3, Zenon
    <3>2. Weigh(pipe', w) = z
      BY <1>4
    <3>3. Cardinality(DeliveredOf(delivered', k, i)) = d + x
      BY <1>6a
    <3> QED BY <1>7, <3>1, <3>2, <3>3, Zenon DEF Breakdown
  <2> QED BY <2>1, NumberNext
<1>9. Number(k, i)' = Number(k, i)
  <2>1. o + b + a + z + y + l + ((c + r) + (d + x))
          = o + b + a + p + f + l + (q + d)
    <3>1. y + c = f
      BY <1>7
    <3> QED BY <1>5, <3>1
  <2> QED BY <1>1, <1>8, <2>1
<1>10. Tidy(State')
  <2>1. aio = "none" => aio_buf = <<>>
    BY StateFields DEF Tidy
  <2> QED BY <1>0, <1>3, <1>6a, <2>1, TidyNext
<1> QED
  BY <1>3, <1>6a, <1>9, <1>10

-----------------------------------------------------------------------------
(* The number is what Fifo.tla calls Copies.                               *)

\* The occurrences in one buffer.
LEMMA CountIsWeight ==
  ASSUME NEW k, NEW i, NEW q \in Seq(Item)
  PROVE  Count(q, k, i) = FileWeight(k, i)[q]
<1>1. \A j \in 1..Len(q) : q[j] \in Item
  BY ElementOfSeq
<1>2. \A j \in 1..Len(q) : ItemWeight(k, i)[q[j]] = IF Is(q[j], k, i) THEN 1 ELSE 0
  BY <1>1 DEF ItemWeight
<1>3. [j \in 1..Len(q) |-> IF Is(q[j], k, i) THEN 1 ELSE 0]
        = [j \in 1..Len(q) |-> ItemWeight(k, i)[q[j]]]
  BY <1>2
<1>4. FileWeight(k, i)[q] = Weigh(q, ItemWeight(k, i))
  BY DEF FileWeight
<1> QED
  BY <1>3, <1>4, Zenon DEF Count, Weigh

\* The weight of five queues.
LEMMA WeighFive ==
  ASSUME NEW S, NEW w \in [S -> Nat],
         NEW a \in S, NEW b \in S, NEW c \in S, NEW d \in S, NEW e \in S
  PROVE  /\ <<a, b, c, d, e>> \in Seq(S)
         /\ Weigh(<<a, b, c, d, e>>, w) = w[a] + w[b] + w[c] + w[d] + w[e]
<1> DEFINE q5 == <<a, b, c, d, e>>
           q4 == <<b, c, d, e>>
           q3 == <<c, d, e>>
           q2 == <<d, e>>
           q1 == <<e>>
<1>1. /\ q5 \in Seq(S) /\ q5 # <<>> /\ Head(q5) = a /\ Tail(q5) = q4
      /\ q4 \in Seq(S) /\ q4 # <<>> /\ Head(q4) = b /\ Tail(q4) = q3
      /\ q3 \in Seq(S) /\ q3 # <<>> /\ Head(q3) = c /\ Tail(q3) = q2
      /\ q2 \in Seq(S) /\ q2 # <<>> /\ Head(q2) = d /\ Tail(q2) = q1
  OBVIOUS
<1>2. Weigh(q1, w) = w[e]
  BY WeighSingle
<1> HIDE DEF q5, q4, q3, q2, q1
<1>3. \A q \in Seq(S) : q # <<>> => Weigh(q, w) = w[Head(q)] + Weigh(Tail(q), w)
  BY WeighTail
<1>4. /\ Weigh(q5, w) = w[a] + Weigh(q4, w) /\ Weigh(q4, w) = w[b] + Weigh(q3, w)
      /\ Weigh(q3, w) = w[c] + Weigh(q2, w) /\ Weigh(q2, w) = w[d] + Weigh(q1, w)
  BY <1>1, <1>3, Zenon
<1>5. /\ w[a] \in Nat /\ w[b] \in Nat /\ w[c] \in Nat /\ w[d] \in Nat
      /\ w[e] \in Nat
  OBVIOUS
<1>6. Weigh(q5, w) = w[a] + w[b] + w[c] + w[d] + w[e]
  BY <1>2, <1>4, <1>5
<1> QED
  BY <1>1, <1>6 DEF q5

\* The occurrences in all buffers, files and queues.
LEMMA CopiesIsNumber ==
  ASSUME NEW k, NEW i, Inv, Tidy(State), IsFiniteSet(delivered)
  PROVE  Copies(k, i) = Number(k, i)
<1> DEFINE W == FileWeight(k, i)
           five == <<output, output_buffer, aio_buf, pipe, inbox>>
<1>0. /\ output \in Seq(Item) /\ output_buffer \in Seq(Item)
      /\ aio_buf \in Seq(Item) /\ pipe \in Seq(Item) /\ inbox \in Seq(Item)
      /\ files \in Seq(Seq(Item)) /\ W \in [Seq(Item) -> Nat]
  BY WeightTypes DEF Inv, TypeOK
<1>1. PICK S : S = Seq(Item)
  OBVIOUS
<1>2. five \in Seq(S) /\ Weigh(five, W) =
        W[output] + W[output_buffer] + W[aio_buf] + W[pipe] + W[inbox]
  <2>1. PICK V : V = W
    OBVIOUS
  <2> HIDE DEF W
  <2>2. /\ output \in S /\ output_buffer \in S /\ aio_buf \in S /\ pipe \in S
        /\ inbox \in S /\ V \in [S -> Nat]
    BY <1>0, <1>1, <2>1
  <2>3. five \in Seq(S) /\ Weigh(five, V) =
          V[output] + V[output_buffer] + V[aio_buf] + V[pipe] + V[inbox]
    BY <2>2, WeighFive
  <2> QED BY <2>1, <2>3
<1>3. PICK q \in Seq(S) : q = five \o files
  BY <1>0, <1>1, <1>2, ConcatProperties
<1>4. Weigh(q, W) = Weigh(five, W) + Weigh(files, W)
  BY <1>0, <1>1, <1>2, <1>3, WeighConcat
<1>5. Total([j \in 1..Len(Queues) |-> Count(Queues[j], k, i)]) = Weigh(q, W)
  <2>1. Queues = q
    BY <1>3 DEF Queues
  <2>2. \A j \in 1..Len(q) : Count(q[j], k, i) = W[q[j]]
    <3>1. \A j \in 1..Len(q) : q[j] \in Seq(Item)
      BY <1>1, <1>3, ElementOfSeq
    <3> QED BY <3>1, CountIsWeight
  <2>3. [j \in 1..Len(q) |-> Count(q[j], k, i)] = [j \in 1..Len(q) |-> W[q[j]]]
    BY <2>2
  <2> QED BY <2>1, <2>3, Zenon DEF Weigh
<1>6. PICK o, b, a, p, f, l, x, d \in Nat :
        /\ Breakdown(k, i, o, b, a, p, f, l, x, d)
        /\ Number(k, i) = o + b + a + p + f + l + (x + d)
  BY NumberParts, ZenonT(60)
<1>7. /\ W[output] = o /\ W[output_buffer] = b /\ W[aio_buf] = a
      /\ W[pipe] = p /\ W[inbox] = x /\ Weigh(files, W) = f
  BY <1>0, <1>6 DEF Breakdown, FileWeight
<1>8. Weigh(q, W) = (o + b + a + p + x) + f
  BY <1>2, <1>4, <1>7, Zenon
<1>9. Copies(k, i) = ((o + b + a + p + x) + f) + d + l
  <2>1. /\ Cardinality({item \in delivered : Is(item, k, i)}) = d
        /\ Cardinality({m \in lost : Is(m.item, k, i)}) = l
    BY <1>6 DEF Breakdown, LostOf, DeliveredOf
  <2> QED BY <1>5, <1>8, <2>1, Zenon DEF Copies
<1> QED
  BY <1>6, <1>9

-----------------------------------------------------------------------------
(* Each push is in one place.                                              *)

\* All the steps but those of the callbacks and of the server.
World ==
  \/ fifo_stop \/ AioComplete \/ NagiosStart \/ NagiosExit \/ NagiosRead
  \/ UNCHANGED vars

\* They neither make nor lose a copy, and do nothing to files but empty them.
LEMMA WorldNumber ==
  ASSUME NEW k, NEW i, Inv, Tidy(State), IsFiniteSet(delivered),
         Number(k, i) <= 1, World
  PROVE  /\ Tidy(State') /\ IsFiniteSet(delivered')
         /\ Number(k, i)' = Number(k, i) /\ pushed' = pushed
         /\ dump_fds' \subseteq dump_fds /\ Len(files') = Len(files)
         /\ \A f \in 1..Len(files) : files'[f] = files[f] \/ files'[f] = <<>>
<1>0. IsFiniteSet(lost) /\ (aio = "none" => aio_buf = <<>>)
  BY StateFields DEF Tidy
<1>1. CASE fifo_stop
  <2>1. dump_fds' = {} /\ files' = files /\ pushed' = pushed
    BY <1>1, StopMoves DEF fifo_stop
  <2> QED BY <1>1, <2>1, StopNumber
<1>2. CASE AioComplete \/ NagiosStart \/ UNCHANGED vars
  <2>1. /\ output' = output /\ output_buffer' = output_buffer
        /\ aio_buf' = aio_buf /\ pipe' = pipe /\ files' = files /\ lost' = lost
        /\ inbox' = inbox /\ delivered' = delivered /\ pushed' = pushed
        /\ dump_file' = dump_file /\ dump_fds' = dump_fds
        /\ aio' = aio \/ (aio # "none" /\ aio' # "none")
    BY <1>2 DEF AioComplete, NagiosStart, vars, fifoVars, worldVars
  <2>2. Number(k, i)' = Number(k, i)
    BY <2>1, SameNumber
  <2>3. Tidy(State')
    BY <1>0, <2>1, TidyNext
  <2> QED BY <2>1, <2>2, <2>3
<1>3. CASE NagiosExit
  <2>1. dump_fds' = dump_fds /\ files' = files /\ pushed' = pushed
    BY <1>3 DEF NagiosExit
  <2> QED BY <1>3, <2>1, ExitNumber
<1>4. CASE NagiosRead
  <2>1. pushed' = pushed
    BY <1>4 DEF NagiosRead
  <2> QED BY <1>4, <2>1, ReadNumber
<1> QED
  BY <1>1, <1>2, <1>3, <1>4 DEF World

\* The inductive invariant: what has been pushed has one copy, what has not
\* been pushed yet has none.
PlaceInv ==
  /\ Tidy(State) /\ IsFiniteSet(delivered)
  /\ \A n \in Nat : Number("push", n) = IF n \in 1..pushed THEN 1 ELSE 0

Callbacks ==
  \/ fifo_start \/ OpenTimer \/ WriteReady \/ AsyncReady \/ IdleReady
  \/ IdleTimeout

\* What the writer's own steps leave to others.
LEMMA OwnSteps ==
  Callbacks \/ ServerPush =>
    /\ inbox' = inbox /\ delivered' = delivered
    /\ pushed' = IF ServerPush THEN pushed + 1 ELSE pushed
<1> SUFFICES ASSUME Callbacks \/ ServerPush
             PROVE  /\ inbox' = inbox /\ delivered' = delivered
                    /\ pushed' = IF ServerPush THEN pushed + 1 ELSE pushed
  OBVIOUS
<1>1. ASSUME Callbacks
      PROVE  inbox' = inbox /\ delivered' = delivered /\ pushed' = pushed
  BY <1>1 DEF Callbacks, fifo_start, OpenTimer, WriteReady, AsyncReady,
              IdleReady, IdleTimeout, Callback, worldVars
<1>2. ASSUME ServerPush
      PROVE  inbox' = inbox /\ delivered' = delivered /\ pushed' = pushed + 1
  BY <1>2 DEF ServerPush, worldVars
<1>3. CASE ServerPush
  BY <1>2, <1>3
<1>4. CASE ~ServerPush
  BY <1>1, <1>4
<1> QED
  BY <1>3, <1>4

\* A push takes its own number from none to one, and no other.
LEMMA PushPlace ==
  ASSUME NEW n \in Nat, NEW c \in {0, 1}, NEW d \in {0, 1}, Inv, ServerPush,
         State \in Place("push", n, c),
         d = IF n = pushed + 1 THEN c + 1 ELSE c
  PROVE  State' \in Place("push", n, d)
<1> DEFINE G == Place("push", n, c)
           H == Place("push", n, d)
<1>0. pushed \in Nat
  BY DEF Inv, TypeOK
<1>1. Closed(G) /\ Closed(H)
  BY PlaceClosed
<1>2. \A size \in Sizes : \A s \in G : \A t \in StateSet :
        Enqueued(s, t, Push(pushed + 1, size)) => t \in H
  <2> SUFFICES ASSUME NEW size \in Sizes, NEW s \in G, NEW t \in StateSet,
                      Enqueued(s, t, Push(pushed + 1, size))
               PROVE  t \in H
    OBVIOUS
  <2>1. PICK item \in Item : item = Push(pushed + 1, size)
    BY <1>0, PushType
  <2>2. item.kind = "push" /\ item.id = pushed + 1
    BY <2>1 DEF Push
  <2>3. d = c + ItemWeight("push", n)[item]
    BY <2>2 DEF ItemWeight, Is
  <2>4. Enqueued(s, t, item)
    BY <2>1
  <2> QED BY <2>3, <2>4, PlaceAdd
<1> HIDE DEF G, H
<1>3. State' \in H
  <2>1. State \in G
    BY DEF G
  <2> QED BY <1>1, <1>2, <2>1, PushMoves
<1> QED
  BY <1>3 DEF H

\* Every step keeps each push where it is counted once.
LEMMA PlaceStep == Inv /\ Inv' /\ PlaceInv /\ [Next]_vars => PlaceInv'
<1> SUFFICES ASSUME Inv, Inv', PlaceInv, [Next]_vars PROVE PlaceInv'
  OBVIOUS
<1>0. pushed \in Nat /\ Tidy(State) /\ IsFiniteSet(delivered)
  BY DEF Inv, TypeOK, PlaceInv
<1>1. \A n \in Nat : Number("push", n) = IF n \in 1..pushed THEN 1 ELSE 0
  BY DEF PlaceInv
<1>3. CASE World
  <2>1. \A n \in Nat : Number("push", n) <= 1
    BY <1>1
  <2>2. \A n \in Nat :
          /\ Tidy(State') /\ IsFiniteSet(delivered') /\ pushed' = pushed
          /\ Number("push", n)' = Number("push", n)
    BY <1>0, <1>3, <2>1, WorldNumber
  <2>3. \A n \in Nat : (Number("push", n) = IF n \in 1..pushed THEN 1 ELSE 0)'
    BY <1>1, <2>2
  <2>4. Tidy(State') /\ IsFiniteSet(delivered')
    <3>1. 0 \in Nat
      OBVIOUS
    <3> QED BY <2>2, <3>1
  <2> QED BY <2>3, <2>4 DEF PlaceInv
<1>4. CASE Callbacks \/ ServerPush
  <2>1. State \in StateSet /\ inbox \in Seq(Item) /\ delivered \in SUBSET Item
    BY StateTyped DEF Inv, TypeOK
  <2>2. /\ inbox' = inbox /\ delivered' = delivered
        /\ pushed' = IF ServerPush THEN pushed + 1 ELSE pushed
    BY <1>4, OwnSteps
  <2>3. ASSUME NEW n \in Nat
        PROVE  /\ Tidy(State')
               /\ Number("push", n)' = IF n \in 1..pushed' THEN 1 ELSE 0
    <3>1. PICK c \in Nat, e \in Nat :
            c = Held(State, "push", n) /\ e = Away(inbox, delivered, "push", n)
      BY <1>0, <2>1, HeldType, AwayType
    <3>2. c + e = IF n \in 1..pushed THEN 1 ELSE 0
      BY <1>1, <3>1 DEF Number
    <3>3. c \in {0, 1} /\ State \in Place("push", n, c)
      BY <1>0, <2>1, <3>1, <3>2 DEF Place
    <3>4. CASE Callbacks /\ ~ServerPush
      <4>1. State' \in Place("push", n, c)
        BY <3>3, <3>4, CallbackPlace DEF Callbacks
      <4>2. Tidy(State') /\ Held(State', "push", n) = c
        BY <4>1 DEF Place
      <4>3. Number("push", n)' = c + e
        BY <2>2, <3>1, <4>2 DEF Number
      <4> QED BY <2>2, <3>2, <3>4, <4>2, <4>3
    <3>5. CASE ServerPush
      <4>1. PICK d \in Nat : d = IF n = pushed + 1 THEN c + 1 ELSE c
        BY <1>0, <3>1
      <4>2. d \in {0, 1} /\ d + e = IF n \in 1..(pushed + 1) THEN 1 ELSE 0
        BY <1>0, <3>2, <3>3, <4>1
      <4>3. State' \in Place("push", n, d)
        BY <3>3, <3>5, <4>1, <4>2, PushPlace
      <4>4. Tidy(State') /\ Held(State', "push", n) = d
        BY <4>3 DEF Place
      <4>5. Number("push", n)' = d + e
        BY <2>2, <3>1, <4>4 DEF Number
      <4>6. pushed' = pushed + 1
        BY <2>2, <3>5
      <4> QED BY <4>2, <4>4, <4>5, <4>6
    <3> QED BY <1>4, <3>4, <3>5
  <2>4. Tidy(State') /\ IsFiniteSet(delivered')
    <3>1. 0 \in Nat
      OBVIOUS
    <3> QED BY <1>0, <2>2, <2>3, <3>1
  <2> QED BY <2>3, <2>4 DEF PlaceInv
<1> QED
  BY <1>3, <1>4 DEF Next, World, Callbacks

\* Nothing is anywhere in the beginning.
LEMMA InitNumber ==
  ASSUME Init
  PROVE  /\ Tidy(State) /\ IsFiniteSet(delivered)
         /\ \A k, i : Number(k, i) = 0
<1>1. /\ output = <<>> /\ output_buffer = <<>> /\ aio_buf = <<>> /\ pipe = <<>>
      /\ inbox = <<>> /\ files = <<>> /\ lost = {} /\ delivered = {}
      /\ aio = "none" /\ dump_fds = {}
  BY DEF Init
<1>2. IsFiniteSet({}) /\ Cardinality({}) = 0
  BY FS_EmptySet
<1>3. Tidy(State)
  BY <1>1, <1>2, StateFields DEF Tidy
<1>4. ASSUME NEW k, NEW i PROVE Number(k, i) = 0
  <2>1. /\ Weigh(<<>>, ItemWeight(k, i)) = 0 /\ Weigh(<<>>, FileWeight(k, i)) = 0
    BY WeighEmpty
  <2>2. LostOf({}, k, i) = {} /\ DeliveredOf({}, k, i) = {}
    BY DEF LostOf, DeliveredOf
  <2>3. Held(State, k, i) = 0 + 0 + 0 + 0 + 0 + 0
    BY <1>1, <1>2, <2>1, <2>2, StateFields, Zenon DEF Held
  <2>4. Away(inbox, delivered, k, i) = 0 + 0
    BY <1>1, <1>2, <2>1, <2>2, Zenon DEF Away
  <2> QED BY <2>3, <2>4 DEF Number
<1> QED
  BY <1>1, <1>2, <1>3, <1>4

\* A push that was accepted is in exactly one place, for any number of pushes
\* of any sizes, any limits, and any order of completions, failures, restarts
\* and stops.
THEOREM NoPushLostOrDuplicated == Spec => []EachPushInOnePlace
<1>1. Init => PlaceInv
  <2> SUFFICES ASSUME Init PROVE PlaceInv
    OBVIOUS
  <2>1. pushed = 0 /\ \A n \in Nat : n \notin 1..0
    BY DEF Init
  <2> QED BY <2>1, InitNumber DEF PlaceInv
<1>2. Inv /\ PlaceInv => EachPushInOnePlace
  <2> SUFFICES ASSUME Inv, PlaceInv, NEW n \in 1..pushed
               PROVE  Copies("push", n) = 1
    BY DEF EachPushInOnePlace
  <2>1. n \in Nat /\ Number("push", n) = 1
    BY DEF PlaceInv, Inv, TypeOK
  <2> QED BY <2>1, CopiesIsNumber DEF PlaceInv
<1> QED
  BY <1>1, <1>2, PlaceStep, InitInv, NextInv, PTL DEF Spec

-----------------------------------------------------------------------------
(* Each dump file is announced once.                                       *)

\* With d copies of its announcement outside of the writer: a file that is not
\* announced is empty, one that is announced is closed.
Announced(s, f, d) ==
  /\ Held(s, "ref", f) + d \in {0, 1}
  /\ Held(s, "ref", f) + d = 0 =>
       (f \in 1..Len(s.files) => s.files[f] = <<>>)
  /\ Held(s, "ref", f) + d = 1 => f \in 1..Len(s.files) /\ f \notin s.dump_fds

Dumps(f, d) == {s \in StateSet : Tidy(s) /\ Announced(s, f, d)}

\* The moment between close_dump_file and fifo_write.
Unannounced(f) ==
  {s \in StateSet : /\ Tidy(s) /\ Held(s, "ref", f) = 0
                    /\ f \in 1..Len(s.files) /\ f \notin s.dump_fds}

\* The moves only add files, and open no other.
LEMMA FilesMove ==
  ASSUME NEW s \in StateSet, NEW t \in StateSet, Move(s, t), NEW f
  PROVE  /\ f \in 1..Len(s.files) =>
              /\ f \in 1..Len(t.files) /\ t.files[f] = s.files[f]
              /\ f \in t.dump_fds => f \in s.dump_fds
         /\ f \notin 1..Len(s.files) =>
              (f \in 1..Len(t.files) => t.files[f] = <<>>)
<1>1. s.files \in Seq(Seq(Item)) /\ <<>> \in Seq(Item)
  BY EmptySeq DEF StateSet
<1>2. CASE SameFiles(s, t)
  BY <1>2 DEF SameFiles
<1>3. CASE UnusedFile(s, t) \/ NewFile(s, t, <<>>)
  <2>1. /\ t.files = Append(s.files, <<>>)
        /\ \A g \in t.dump_fds : g \in s.dump_fds \/ g = Len(s.files) + 1
    BY <1>3 DEF UnusedFile, NewFile
  <2>2. /\ \A g \in 1..Len(s.files) : g \in 1..Len(t.files) /\ t.files[g] = s.files[g]
        /\ t.files[Len(s.files) + 1] = <<>>
        /\ \A g \in 1..Len(t.files) : g \in 1..Len(s.files) \/ g = Len(s.files) + 1
        /\ Len(s.files) + 1 \notin 1..Len(s.files)
    BY <1>1, <2>1, AppendFile
  <2> QED BY <2>1, <2>2
<1> QED
  BY <1>2, <1>3
     DEF Move, Kept, Slurped, Written, HungUp, Purged, DumpLost, DumpQueued

\* So no move announces a file, or writes to one.
LEMMA DumpsClosed ==
  ASSUME NEW f, NEW d \in Nat
  PROVE  Closed(Dumps(f, d)) /\ Closed(Unannounced(f))
<1>1. ASSUME NEW s \in Dumps(f, d), NEW t \in StateSet, Move(s, t)
      PROVE  t \in Dumps(f, d)
  <2>1. s \in StateSet /\ Tidy(s) /\ Announced(s, f, d)
    BY DEF Dumps
  <2>2. PICK c \in Nat : c = Held(s, "ref", f)
    BY <2>1, HeldType
  <2>3. c + d \in {0, 1}
    BY <2>1, <2>2 DEF Announced
  <2>4. Held(s, "ref", f) <= 1
    BY <2>2, <2>3
  <2>5. Held(t, "ref", f) = c /\ Tidy(t)
    BY <1>1, <2>1, <2>2, <2>4, HeldMoves, TidyMoves
  <2>6. Announced(t, f, d)
    <3>1. CASE c + d = 0
      <4>1. f \in 1..Len(s.files) => s.files[f] = <<>>
        BY <2>1, <2>2, <3>1 DEF Announced
      <4>2. f \in 1..Len(t.files) => t.files[f] = <<>>
        BY <1>1, <2>1, <4>1, FilesMove
      <4> QED BY <2>5, <3>1, <4>2 DEF Announced
    <3>2. CASE c + d = 1
      <4>1. f \in 1..Len(s.files) /\ f \notin s.dump_fds
        BY <2>1, <2>2, <3>2 DEF Announced
      <4>2. f \in 1..Len(t.files) /\ f \notin t.dump_fds
        BY <1>1, <2>1, <4>1, FilesMove
      <4> QED BY <2>5, <3>2, <4>2 DEF Announced
    <3> QED BY <2>3, <3>1, <3>2
  <2> QED BY <2>5, <2>6 DEF Dumps
<1>2. ASSUME NEW s \in Unannounced(f), NEW t \in StateSet, Move(s, t)
      PROVE  t \in Unannounced(f)
  <2>1. /\ s \in StateSet /\ Tidy(s) /\ Held(s, "ref", f) = 0
        /\ f \in 1..Len(s.files) /\ f \notin s.dump_fds
    BY DEF Unannounced
  <2>2. Held(s, "ref", f) <= 1
    BY <2>1
  <2>3. Held(t, "ref", f) = 0 /\ Tidy(t)
    BY <1>2, <2>1, <2>2, HeldMoves, TidyMoves
  <2>4. f \in 1..Len(t.files) /\ f \notin t.dump_fds
    BY <1>2, <2>1, FilesMove
  <2> QED BY <2>3, <2>4 DEF Unannounced
<1> QED
  BY <1>1, <1>2 DEF Closed

\* Other data does not touch a file, and its own announcement may be added to
\* none.
LEMMA DumpsAdd ==
  ASSUME NEW f, NEW d \in Nat, NEW item \in Item, NEW s, NEW t \in StateSet,
         Enqueued(s, t, item) \/ ReferenceLost(s, t, item)
  PROVE  /\ s \in Dumps(f, d) /\ ItemWeight("ref", f)[item] = 0 => t \in Dumps(f, d)
         /\ s \in Unannounced(f) /\ ItemWeight("ref", f)[item] = 1 /\ d = 0
              => t \in Dumps(f, d)
<1>0. t.files = s.files /\ t.dump_fds = s.dump_fds
  BY DEF Enqueued, ReferenceLost, SameFiles
<1>1. ASSUME s \in StateSet, Tidy(s), NEW c \in Nat, c = Held(s, "ref", f),
             NEW x \in Nat, x = ItemWeight("ref", f)[item], c + x <= 1
      PROVE  Tidy(t) /\ Held(t, "ref", f) = c + x
  <2>1. Held(s, "ref", f) + ItemWeight("ref", f)[item] <= 1
    BY <1>1
  <2> QED BY <1>1, <2>1, HeldEnqueued, HeldReferenceLost
<1>2. ASSUME s \in Dumps(f, d), ItemWeight("ref", f)[item] = 0
      PROVE  t \in Dumps(f, d)
  <2>1. s \in StateSet /\ Tidy(s) /\ Announced(s, f, d)
    BY <1>2 DEF Dumps
  <2>2. PICK c \in Nat : c = Held(s, "ref", f)
    BY <2>1, HeldType
  <2>3. c + d \in {0, 1}
    BY <2>1, <2>2 DEF Announced
  <2>4. c + 0 <= 1 /\ 0 \in Nat
    BY <2>3
  <2>5. Tidy(t) /\ Held(t, "ref", f) = c
    BY <1>1, <1>2, <2>1, <2>2, <2>4
  <2> QED BY <1>0, <2>1, <2>2, <2>5 DEF Dumps, Announced
<1>3. ASSUME s \in Unannounced(f), ItemWeight("ref", f)[item] = 1, d = 0
      PROVE  t \in Dumps(f, d)
  <2>1. /\ s \in StateSet /\ Tidy(s) /\ Held(s, "ref", f) = 0
        /\ f \in 1..Len(s.files) /\ f \notin s.dump_fds
    BY <1>3 DEF Unannounced
  <2>2. Tidy(t) /\ Held(t, "ref", f) = 1
    <3>1. 0 \in Nat /\ 1 \in Nat /\ 0 + 1 <= 1 /\ 0 + 1 = 1
      OBVIOUS
    <3> QED BY <1>1, <1>3, <2>1, <3>1
  <2> QED BY <1>0, <1>3, <2>1, <2>2 DEF Dumps, Announced
<1> QED
  BY <1>2, <1>3

\* A file that is closed after it was filled is not announced yet, and no
\* other file has changed.
LEMMA DumpsStored ==
  ASSUME NEW f, NEW d \in Nat, Inv, State \in Dumps(f, d)
  PROVE  /\ \A t \in StateSet : AioLost(State, t) => t \in Dumps(f, d)
         /\ AsyncReady => \A w, z \in StateSet :
              AioStored(State, w) /\ FileClosed(w, z) =>
                IF f = dump_file THEN d = 0 /\ z \in Unannounced(f)
                                 ELSE z \in Dumps(f, d)
         /\ IdleReady \/ IdleTimeout => \A v, w, z \in StateSet :
              Kept(State, v) /\ DumpStored(v, w) /\ FileClosed(w, z) =>
                IF f = Len(files) + 1 THEN d = 0 /\ z \in Unannounced(f)
                                      ELSE z \in Dumps(f, d)
<1>1. State \in StateSet /\ Tidy(State) /\ Announced(State, f, d)
  BY DEF Dumps
<1>2. PICK c \in Nat : c = Held(State, "ref", f)
  BY <1>1, HeldType
<1>3. c + d \in {0, 1} /\ c \in {0, 1}
  BY <1>1, <1>2 DEF Announced
<1>4. /\ c + d = 0 => (f \in 1..Len(files) => files[f] = <<>>)
      /\ c + d = 1 => f \in 1..Len(files) /\ f \notin dump_fds
  BY <1>1, <1>2, StateFields DEF Announced
<1>5. State \in Place("ref", f, c)
  BY <1>1, <1>2 DEF Place
<1>6. files \in Seq(Seq(Item)) /\ aio_buf \in Seq(Item)
  BY DEF Inv, TypeOK
<1>7. ASSUME NEW z \in StateSet, z \in Place("ref", f, c),
             c + d = 0 => (f \in 1..Len(z.files) => z.files[f] = <<>>),
             c + d = 1 => f \in 1..Len(z.files) /\ f \notin z.dump_fds
      PROVE  z \in Dumps(f, d)
  BY <1>3, <1>7 DEF Dumps, Announced, Place
<1>8. ASSUME NEW z \in StateSet, z \in Place("ref", f, c), c + d = 0,
             f \in 1..Len(z.files), f \notin z.dump_fds
      PROVE  d = 0 /\ z \in Unannounced(f)
  BY <1>8 DEF Unannounced, Place
<1>9. ASSUME NEW t \in StateSet, AioLost(State, t) PROVE t \in Dumps(f, d)
  <2>1. t \in Place("ref", f, c)
    BY <1>3, <1>5, <1>9, PlaceStored
  <2>2. t.files = files /\ t.dump_fds = dump_fds
    BY <1>9, StateFields DEF AioLost, SameFiles
  <2> QED BY <1>4, <1>7, <2>1, <2>2
<1>10. ASSUME AsyncReady, NEW w \in StateSet, NEW z \in StateSet,
              AioStored(State, w), FileClosed(w, z)
       PROVE  IF f = dump_file THEN d = 0 /\ z \in Unannounced(f)
                               ELSE z \in Dumps(f, d)
  <2>1. z \in Place("ref", f, c)
    BY <1>3, <1>5, <1>10, PlaceStored
  <2>2. /\ z.files = [files EXCEPT ![dump_file] = aio_buf]
        /\ z.dump_fds = dump_fds \ {dump_file}
    BY <1>10, StateFields DEF AioStored, FileClosed
  <2>3. dump_file \in dump_fds /\ dump_file \in 1..Len(files)
    <3>1. State.aio # "none"
      BY <1>3, <1>5, <1>10, PlaceStored
    <3> QED BY <1>1, <3>1, StateFields DEF Tidy
  <2>4. /\ Len(z.files) = Len(files)
        /\ \A g \in 1..Len(files) : g # dump_file => z.files[g] = files[g]
    BY <1>6, <2>2, <2>3, ExceptFile
  <2>5. CASE f = dump_file
    <3>1. c + d = 0
      BY <1>3, <1>4, <2>3, <2>5
    <3> QED BY <1>8, <2>1, <2>2, <2>3, <2>4, <2>5, <3>1
  <2>6. CASE f # dump_file
    BY <1>4, <1>7, <2>1, <2>2, <2>4, <2>6
  <2> QED BY <2>5, <2>6
<1>11. ASSUME IdleReady \/ IdleTimeout, NEW v \in StateSet, NEW w \in StateSet,
              NEW z \in StateSet, Kept(State, v), DumpStored(v, w),
              FileClosed(w, z)
       PROVE  IF f = Len(files) + 1 THEN d = 0 /\ z \in Unannounced(f)
                                    ELSE z \in Dumps(f, d)
  <2>1. z \in Place("ref", f, c)
    BY <1>3, <1>5, <1>11, PlaceStored
  <2>2. PICK q \in Seq(Item) : /\ z.files = Append(files, q)
                               /\ z.dump_fds = dump_fds \ {Len(files) + 1}
    <3>1. v.output \o v.output_buffer \in Seq(Item)
      BY ConcatProperties DEF StateSet
    <3>2. /\ z.files = Append(files, v.output \o v.output_buffer)
          /\ w.dump_file = Len(files) + 1
          /\ w.dump_fds = dump_fds \cup {Len(files) + 1}
          /\ z.dump_fds = w.dump_fds \ {w.dump_file}
      BY <1>11, StateFields DEF Kept, SameFiles, DumpStored, NewFile, FileClosed
    <3> QED BY <3>1, <3>2
  <2>3. /\ \A g \in 1..Len(files) : g \in 1..Len(z.files) /\ z.files[g] = files[g]
        /\ Len(files) + 1 \in 1..Len(z.files)
        /\ \A g \in 1..Len(z.files) : g \in 1..Len(files) \/ g = Len(files) + 1
        /\ Len(files) + 1 \notin 1..Len(files)
    <3>1. PICK gs : gs = z.files
      OBVIOUS
    <3>2. gs = Append(files, q)
      BY <2>2, <3>1, Zenon
    <3>3. /\ \A g \in 1..Len(files) : g \in 1..Len(gs) /\ gs[g] = files[g]
          /\ Len(files) + 1 \in 1..Len(gs)
          /\ \A g \in 1..Len(gs) : g \in 1..Len(files) \/ g = Len(files) + 1
          /\ Len(files) + 1 \notin 1..Len(files)
      BY <1>6, <3>2, AppendFile
    <3> QED BY <3>1, <3>3, Zenon
  <2>4. CASE f = Len(files) + 1
    <3>1. c + d = 0
      BY <1>3, <1>4, <2>3, <2>4
    <3> QED BY <1>8, <2>1, <2>2, <2>3, <2>4, <3>1
  <2>5. CASE f # Len(files) + 1
    BY <1>4, <1>7, <2>1, <2>2, <2>3, <2>5
  <2> QED BY <2>4, <2>5
<1> QED
  BY <1>9, <1>10, <1>11

\* The callbacks announce a file only when it is complete and closed.
LEMMA CallbackDumps ==
  ASSUME NEW f \in Nat, NEW d \in Nat, Inv, State \in Dumps(f, d), Callbacks
  PROVE  State' \in Dumps(f, d)
<1>1. /\ Closed(Dumps(f, d)) /\ Closed(Unannounced(f))
      /\ Dumps(f, d) \subseteq Dumps(f, d)
  BY DumpsClosed
<1>2. dump_file \in Nat /\ Len(files) + 1 \in Nat
  BY LenProperties DEF Inv, TypeOK
\* Another file is announced.
<1>3. ASSUME NEW g \in Nat, g # f
      PROVE  \A p \in Dumps(f, d) : \A u \in StateSet :
               Enqueued(p, u, Reference(g)) \/ ReferenceLost(p, u, Reference(g))
                 => u \in Dumps(f, d)
  <2>1. PICK item \in Item : item = Reference(g) /\ ItemWeight("ref", f)[item] = 0
    BY <1>3, ReferenceItem
  <2>2. \A p \in Dumps(f, d) : \A u \in StateSet :
          Enqueued(p, u, item) \/ ReferenceLost(p, u, item) => u \in Dumps(f, d)
    BY <2>1, DumpsAdd
  <2> QED BY <2>1, <2>2
\* This one is.
<1>4. ASSUME d = 0
      PROVE  \A p \in Unannounced(f) : \A u \in StateSet :
               Enqueued(p, u, Reference(f)) \/ ReferenceLost(p, u, Reference(f))
                 => u \in Dumps(f, d)
  <2>1. PICK item \in Item : item = Reference(f) /\ ItemWeight("ref", f)[item] = 1
    BY ReferenceItem
  <2>2. \A p \in Unannounced(f) : \A u \in StateSet :
          Enqueued(p, u, item) \/ ReferenceLost(p, u, item) => u \in Dumps(f, d)
    BY <1>4, <2>1, DumpsAdd
  <2> QED BY <2>1, <2>2
<1>5. CASE fifo_start \/ OpenTimer \/ WriteReady
  BY <1>1, <1>5, WriterMoves
<1>6. CASE AsyncReady
  <2>1. \A t \in StateSet : AioLost(State, t) => t \in Dumps(f, d)
    BY DumpsStored
  <2>2. CASE f # dump_file
    <3>1. \A w, z \in StateSet :
            AioStored(State, w) /\ FileClosed(w, z) => z \in Dumps(f, d)
      BY <1>6, <2>2, DumpsStored
    <3>2. \A p \in Dumps(f, d) : \A u \in StateSet :
            Enqueued(p, u, Reference(dump_file))
              \/ ReferenceLost(p, u, Reference(dump_file))
            => u \in Dumps(f, d)
      BY <1>2, <1>3, <2>2
    <3> QED BY <1>1, <1>6, <2>1, <3>1, <3>2, AsyncMoves
  <2>3. CASE f = dump_file /\ d = 0
    <3>1. \A w, z \in StateSet :
            AioStored(State, w) /\ FileClosed(w, z) => z \in Unannounced(f)
      BY <1>6, <2>3, DumpsStored
    <3>2. \A p \in Unannounced(f) : \A u \in StateSet :
            Enqueued(p, u, Reference(dump_file))
              \/ ReferenceLost(p, u, Reference(dump_file))
            => u \in Dumps(f, d)
      BY <1>4, <2>3
    <3> QED BY <1>1, <1>6, <2>1, <3>1, <3>2, AsyncMoves
  <2>4. CASE f = dump_file /\ d # 0
    <3>1. State.aio # "none"
      BY <1>6, StateFields DEF AsyncReady, Callback, Inv, TypeOK
    <3>2. State.dump_file \in State.dump_fds /\ State.dump_file = f
      BY <2>4, <3>1, StateFields DEF Dumps, Tidy
    <3>3. PICK c \in Nat : c = Held(State, "ref", f)
      BY HeldType DEF Dumps
    <3>4. c + d = 1
      BY <2>4, <3>3 DEF Dumps, Announced
    <3> QED BY <3>2, <3>3, <3>4 DEF Dumps, Announced
  <2> QED BY <2>2, <2>3, <2>4
<1>7. CASE IdleReady \/ IdleTimeout
  <2>1. CASE f # Len(files) + 1
    <3>1. \A v, w, z \in StateSet :
            Kept(State, v) /\ DumpStored(v, w) /\ FileClosed(w, z)
              => z \in Dumps(f, d)
      BY <1>7, <2>1, DumpsStored
    <3>2. \A p \in Dumps(f, d) : \A u \in StateSet :
            Enqueued(p, u, Reference(Len(files) + 1))
              \/ ReferenceLost(p, u, Reference(Len(files) + 1))
            => u \in Dumps(f, d)
      BY <1>2, <1>3, <2>1
    <3> QED BY <1>1, <1>7, <3>1, <3>2, IdleMoves
  <2>2. CASE f = Len(files) + 1 /\ d = 0
    <3>1. \A v, w, z \in StateSet :
            Kept(State, v) /\ DumpStored(v, w) /\ FileClosed(w, z)
              => z \in Unannounced(f)
      BY <1>7, <2>2, DumpsStored
    <3>2. \A p \in Unannounced(f) : \A u \in StateSet :
            Enqueued(p, u, Reference(Len(files) + 1))
              \/ ReferenceLost(p, u, Reference(Len(files) + 1))
            => u \in Dumps(f, d)
      BY <1>4, <2>2
    <3> QED BY <1>1, <1>7, <3>1, <3>2, IdleMoves
  <2>3. CASE f = Len(files) + 1 /\ d # 0
    <3>1. PICK m \in Nat : m = Len(State.files) /\ m = Len(files)
      BY StateFields, LenProperties DEF Inv, TypeOK
    <3>2. f \notin 1..m
      BY <2>3, <3>1
    <3>3. PICK c \in Nat : c = Held(State, "ref", f)
      BY HeldType DEF Dumps
    <3>4. c + d = 1
      BY <2>3, <3>3 DEF Dumps, Announced
    <3> QED BY <3>1, <3>2, <3>3, <3>4 DEF Dumps, Announced
  <2> QED BY <2>1, <2>2, <2>3
<1> QED
  BY <1>5, <1>6, <1>7 DEF Callbacks

\* Pushes announce nothing.
LEMMA PushDumps ==
  ASSUME NEW f \in Nat, NEW d \in Nat, Inv, State \in Dumps(f, d), ServerPush
  PROVE  State' \in Dumps(f, d)
<1>1. Closed(Dumps(f, d)) /\ pushed \in Nat
  BY DumpsClosed DEF Inv, TypeOK
<1>2. \A size \in Sizes : \A s \in Dumps(f, d) : \A t \in StateSet :
        Enqueued(s, t, Push(pushed + 1, size)) => t \in Dumps(f, d)
  <2> TAKE size \in Sizes
  <2>1. PICK item \in Item : item = Push(pushed + 1, size)
    BY <1>1, PushType
  <2>2. ItemWeight("ref", f)[item] = 0
    BY <2>1 DEF Push, ItemWeight, Is
  <2>3. \A s \in Dumps(f, d) : \A t \in StateSet :
          Enqueued(s, t, item) => t \in Dumps(f, d)
    BY <2>2, DumpsAdd
  <2> QED BY <2>1, <2>3
<1> QED
  BY <1>1, <1>2, PushMoves

\* The inductive invariant.
DumpInv ==
  /\ Tidy(State) /\ IsFiniteSet(delivered)
  /\ \A f \in Nat : Announced(State, f, Away(inbox, delivered, "ref", f))

\* Every step keeps it, for each file by itself.
LEMMA DumpStep == Inv /\ Inv' /\ DumpInv /\ [Next]_vars => DumpInv'
<1> SUFFICES ASSUME Inv, Inv', DumpInv, [Next]_vars PROVE DumpInv'
  OBVIOUS
<1>0. /\ State \in StateSet /\ inbox \in Seq(Item) /\ delivered \in SUBSET Item
      /\ Tidy(State) /\ IsFiniteSet(delivered)
  BY StateTyped DEF Inv, TypeOK, DumpInv
<1>1. \A f \in Nat : Announced(State, f, Away(inbox, delivered, "ref", f))
  BY DEF DumpInv
<1>2. CASE World
  <2>1. ASSUME NEW f \in Nat
        PROVE  /\ Tidy(State') /\ IsFiniteSet(delivered')
               /\ Announced(State', f, Away(inbox', delivered', "ref", f))
    <3>1. /\ Number("ref", f) \in {0, 1}
          /\ Number("ref", f) = 0 => (f \in 1..Len(files) => files[f] = <<>>)
          /\ Number("ref", f) = 1 => f \in 1..Len(files) /\ f \notin dump_fds
      BY <1>1, StateFields DEF Announced, Number
    <3>2. Number("ref", f) <= 1
      BY <3>1
    <3>3. /\ Tidy(State') /\ IsFiniteSet(delivered')
          /\ Number("ref", f)' = Number("ref", f)
          /\ dump_fds' \subseteq dump_fds /\ Len(files') = Len(files)
          /\ \A g \in 1..Len(files) : files'[g] = files[g] \/ files'[g] = <<>>
      BY <1>0, <1>2, <3>2, WorldNumber
    <3>4. Number("ref", f)' = Held(State', "ref", f)
                                + Away(inbox', delivered', "ref", f)
      BY DEF Number
    <3>5. State'.files = files' /\ State'.dump_fds = dump_fds'
      BY DEF State
    <3> HIDE DEF State
    <3>6. Announced(State', f, Away(inbox', delivered', "ref", f))
      BY <3>1, <3>3, <3>4, <3>5 DEF Announced
    <3> QED BY <3>3, <3>6
  <2>2. 0 \in Nat
    OBVIOUS
  <2> QED BY <2>1, <2>2 DEF DumpInv
<1>3. CASE Callbacks \/ ServerPush
  <2>1. inbox' = inbox /\ delivered' = delivered
    BY <1>3, OwnSteps
  <2>2. ASSUME NEW f \in Nat
        PROVE  /\ Tidy(State')
               /\ Announced(State', f, Away(inbox, delivered, "ref", f))
    <3>1. PICK d \in Nat : d = Away(inbox, delivered, "ref", f)
      BY <1>0, AwayType
    <3>2. State \in Dumps(f, d)
      BY <1>0, <1>1, <3>1 DEF Dumps
    <3>3. State' \in Dumps(f, d)
      BY <1>3, <3>2, CallbackDumps, PushDumps
    <3> QED BY <3>1, <3>3 DEF Dumps
  <2>3. 0 \in Nat
    OBVIOUS
  <2> QED BY <1>0, <2>1, <2>2, <2>3 DEF DumpInv
<1> QED
  BY <1>2, <1>3 DEF Next, World, Callbacks

\* A dump file with contents is announced to Nagios exactly once, or the loss
\* of its announcement is recorded, and never while it is open.
THEOREM EachDumpAnnouncedOnce == Spec => []DumpAnnouncedOnce
<1>1. Init => DumpInv
  <2> SUFFICES ASSUME Init PROVE DumpInv
    OBVIOUS
  <2>1. State.files = <<>> /\ Len(<<>>) = 0
    BY StateFields DEF Init
  <2>2. \A f \in Nat : f \notin 1..Len(State.files)
    BY <2>1
  <2>3. \A f \in Nat :
          Held(State, "ref", f) + Away(inbox, delivered, "ref", f) = 0
    BY InitNumber DEF Number
  <2> QED BY <2>2, <2>3, InitNumber DEF DumpInv, Announced
<1>2. Inv /\ DumpInv => DumpAnnouncedOnce
  <2> SUFFICES ASSUME Inv, DumpInv PROVE DumpAnnouncedOnce
    OBVIOUS
  <2>1. \A f \in Nat :
          /\ Copies("ref", f) \in {0, 1}
          /\ Copies("ref", f) = 0 => (f \in 1..Len(files) => files[f] = <<>>)
          /\ Copies("ref", f) = 1 => f \in 1..Len(files) /\ f \notin dump_fds
    <3> TAKE f \in Nat
    <3>1. Copies("ref", f)
            = Held(State, "ref", f) + Away(inbox, delivered, "ref", f)
      BY CopiesIsNumber DEF DumpInv, Number
    <3>2. Announced(State, f, Away(inbox, delivered, "ref", f))
      BY DEF DumpInv
    <3> QED BY <3>1, <3>2, StateFields DEF Announced
  <2>2. dump_fds \subseteq Nat
    BY DEF Inv, TypeOK
  <2>3. \A f \in 1..Len(files) : f \in Nat
    OBVIOUS
  <2>4. \A f \in Nat : Copies("ref", f) = 0 \/ Copies("ref", f) = 1
    BY <2>1
  <2>5. \A f \in Nat : Copies("ref", f) <= 1
    BY <2>4
  <2> HIDE DEF Copies
  <2> QED BY <2>1, <2>2, <2>3, <2>4, <2>5 DEF DumpAnnouncedOnce
<1> QED
  BY <1>1, <1>2, DumpStep, InitInv, NextInv, PTL DEF Spec

=============================================================================
