# A TLA+ model of NSCA-ng

NSCA-ng transports monitoring commands (mostly check results) from clients to
a Nagios server: `send_nsca` connects to the `nsca-ng` daemon over TLS with a
pre-shared key and submits commands, the daemon authorizes them and writes them
to Nagios' command file, a named pipe.  This directory models the program in
TLA+, checks the models with TLC and proves theorems about them with TLAPS.
Paths below are relative to the repository.

## The system

| Part | State it keeps | Operations | Talks to |
| --- | --- | --- | --- |
| Command file writer, `src/server/fifo.c` | zero-copied data, queue, descriptor of the pipe, current dump file, AIO request, five watchers | `fifo_start`, `fifo_write`, `fifo_stop`, the callbacks | Nagios through the pipe and dump files; called by the protocol handlers |
| TLS connections, `src/common/tls.c` | per connection: four descriptor watchers and a timer, input and output buffers, handler pointers, the `SSL` object | `tls_read`, `tls_write`, `tls_shutdown`, `tls_on_*`, the callbacks | OpenSSL, libev; calls the application's handlers |
| Protocol handlers, `src/server/server.c` | per connection: the `connection_state` | `handle_*`, `bail`, `client_exited` | `tls.c`, `auth.c`, `fifo_write` |
| Event loop, `lib/ev` (vendored libev) | active and pending watchers, timer heap, time | `ev_run`, `ev_feed_event`, start and stop | everything above |
| Client, `src/client` | the command in transmission, the reader of standard input, the exit code | handlers for each response, `client_stop` | `tls.c`, standard input |
| Input formats, `src/client/parse.c`, `src/client/conf.c` | none | parsing and escaping | client |
| Dynamic buffer, `src/common/buffer.c` | a list of blocks, offsets, a size | append, read, read up to a character, slurp | `fifo.c`, `tls.c`, `input.c` |
| Authorization, `src/server/auth.c`, `hash.c`, `conf.c` | identities, keys, regular expressions | `check_psk`, `is_authorized` | `tls.c`, `server.c` |
| PID file, `lib/pidfile` | a locked file | `pidfile_open`, `write`, `remove` | daemon, other instances of it |
| Daemon, `src/server/nsca-ng.c` | the signal received, configuration | start, restart by `execvp`, exit handlers | all parts of the server |
| Bindings, `perl/client.c`, `python/client.c` | a connection and its protocol state | blocking send with a timeout | the server |

The daemon is single threaded: libev callbacks run to completion, one after the
other.  What makes it hard is (a) the environment changing between any two
callbacks: Nagios comes and goes, the pipe fills up, an AIO request completes, a
client splits its bytes over TLS records, renegotiates, stalls or vanishes;
(b) the order in which libev runs callbacks, and callbacks that start, stop or
feed other watchers or free the structure that holds them; (c) the failure of
any one of several system calls.  PROJECT.json lists these hazards line by
line, with the property that covers each.

What makes each part correct:

* writer: a command is in one place at a time; it is delivered, or lost only
  where the code says so (a failed system call, a purged queue, Nagios hanging
  up); writes are atomic; order is kept; memory is bounded; nothing stays
  queued when it could be written.
* connections and handlers: one answer per request, in order and as `PROTOCOL`
  prescribes; a command is acknowledged only when it was queued; both
  structures of a connection are freed once and not used afterwards; no wakeup
  is lost; each connection ends.
* client: exit status 0 only if every command of the input was acknowledged;
  one request at a time; the process ends; its structures are freed once.
* PID file and daemon: one daemon serves at a time; the PID file names it and is
  removed with it; a start comes to an end; a restart releases everything once.
* buffer: a queue of bytes, whatever the blocks are.
* input formats and authorization: the command that Nagios reads has the fields
  that the user wrote; it is accepted exactly if the client's section permits
  it; a configuration file means what its manual page says.
* bindings: a call returns; it reports success only if the command was queued;
  no answer is taken for the answer to another request.
* client and daemon together: commands arrive in order and at most once, and
  neither end is left waiting for the other.

## The modules

`Fifo.tla` models `fifo.c`.  The variables are the fields of `struct
fifo_state_s`, libev's set of active watchers, the AIO request, and the
outside world: dump files, pipe, Nagios.  A C function is an operator from a
state record to the set of states it may return in, one for each combination of
outcomes of its system calls; an action is one callback, with everything it
calls.  `posix_aio` is the build, chosen in the initial state.  Data is abstracted to items with a size:
what a client pushed, or a PROCESS_FILE command with the number of the dump
file it names.

`FifoProofs.tla` holds the theorems about it, in four parts: watchers and sizes
of writes; how each function of `fifo.c` moves data between its places; order and
bounds; and that nothing is lost or duplicated.  `Totals.tla` is the sum of a
sequence, with its laws and the induction they rest on in `TotalsProofs.tla`.

`Tls.tla` models `tls.c` as operators on a connection record; `Server.tla` adds
the handlers of `server.c`, the event loop and a client.  Handler pointers are
the handlers' names; the callbacks are in `TlsCallbacks.tla`, with the
application's dispatcher `Call` as a constant operator, which `Server.tla`
instantiates, so that the client side can use the same modules.  `TlsProofs.tla` has
one lemma for each function of `tls.c`, `ServerProofs.tla` the theorems about the
server.  The list of
pending watchers is kept in the order of `ev_invoke_pending` (last in, first
out, the timer at a lower priority) because callbacks feed each other.  OpenSSL
and the socket are external: `in` holds the records that have arrived, `rbuf`
the rest of the record that was decrypted, `out` what the peer has not read, and
`hs` the handshake messages that are outstanding; while a (re)negotiation is
under way, every call asks for what it needs next.  Bytes are abstracted to
"pieces": a terminated line, the beginning of one, a byte of data.

The client of `Server.tla` is given by `Session`, what `PROTOCOL` says about
the answers to a sequence of requests.  It waits for each answer unless
`Pipelining`, and may close or reset the connection if `Unreliable`.

`Client.tla` models `send_nsca` on the same modules, with a user at standard
input and a server that answers each request with anything, says BAIL at any
time, closes the connection or vanishes.  What the user types is a sequence of
chunks, terminated or not; what parsing makes of a chunk is reduced to its
kind (empty, a command of some size, malformed).  `die` and the end of `ev_run`
end the process; `ExitStatusHonest` is about the status it ends with.
`ClientProofs.tla` holds the theorems about it.

`EndToEnd.tla` puts the two together: it instantiates `Client` and `Server`,
each with its own constants, leaves out their environments and moves records
between the sockets; the network may break the connection.

`Daemon.tla` models `nsca-ng` processes that share a PID file: `main` of
`nsca-ng.c` around the server, `daemon()` with its two forks, and
`lib/pidfile`.  Here processes do run concurrently, and each system call that
touches the file is a step.  The kernel is the name of the file, the lock and
the content of each inode; `pc` is the next system call of a process, `pfh` the
state of its handle.  Processes are PIDs, which are reused, as are inodes that
nothing refers to.  A process may be killed at any point.  `DaemonProofs.tla`
holds the theorems about it.

`Binding.tla` models an object of the Perl or the Python binding (`lang`) that is
used for several calls.  Unlike `send_nsca` a binding blocks: each action is a
request, a look at the socket, the end of a wait or the return of a call.  The
two differ in what they do with a connection after a failure, and so in what
`QueuedAsReported` and `InStep` can promise.  The server is the one of
`server.c`, reduced to its answers; it may answer late, which is what the
bindings' timeouts are about, and a connection that was given up may still
deliver what was sent.  `BindingProofs.tla` holds the theorems about it.

`Buffer.tla` models `buffer.c`: the blocks with their bytes, the two offsets and
the size.  `ByteQueue.tla` is what its users rely on, and `BufferIsQueue` that the
one implements the other, with the bytes between the offsets as the queue.
`BufferProofs.tla` proves it.

`CheckInput.tla` follows the bytes that `Client.tla` abstracts from: the pieces
that `read(2)` returns, the chunks that `input.c` cuts out of them (with the
operators of `Buffer.tla`), the commands that `parse.c` makes of them, and
`is_authorized` with the regular expressions of `conf.c`.  `ClientConf.tla` models
the configuration file of `send_nsca`, one turn of the loop in `read_conf_line` or
one parsed line per action.  In both, the environment writes by the rules of the
manual pages and remembers what it meant; the properties compare that with what
comes out.  Words that no property takes apart (key words, names of settings, the
seconds of a time stamp) are single bytes.  `Util.tla` has the string functions of
`util.c` they share.

| Module | Code |
| --- | --- |
| `Fifo` | `src/server/fifo.c` |
| `Tls`, `TlsCallbacks` | `src/common/tls.c`, the parts of `lib/ev/ev.c` it depends on |
| `Server` | `src/server/server.c`, `accept_tcp_cb` and `accept_ssl_cb` |
| `Client` | `src/client/client.c`, `src/client/input.c`, `tls_connect` and `connect_cb` |
| `EndToEnd` | `Client` and `Server` together |
| `Daemon` | `main` and the signal and exit handlers of `src/server/nsca-ng.c`, `lib/daemon.c`, `lib/pidfile` |
| `Binding` | `perl/client.c`, `perl/Client.xs`, `python/client.c`, `python/nscang.c`; the answers of `server.c` |
| `Buffer`, `ByteQueue` | `src/common/buffer.c`, and its abstract specification |
| `CheckInput` | `read_cb` of `src/client/input.c`, `handle_input_chunk`, `src/client/parse.c`, `is_authorized` of `src/server/auth.c`, the patterns of `src/server/conf.c` |
| `ClientConf`, `Util` | `src/client/conf.c`, the string functions of `src/common/util.c` |

## What the runs check

| Run | Question | Bounds |
| --- | --- | --- |
| `fifo` | safety of the writer in both builds, and that accepted data settles when Nagios stays up | 3 pushes of size 1 or 3, `PIPE_BUF` 2, pipe capacity 3, queue limit 3, PROCESS_FILE commands of size 1 |
| `server_session` | all kinds of requests are answered as specified, and each one is answered in the end | 5 lines or bytes, no timeout |
| `server_faults` | the same safety, with split lines, a renegotiation, long lines, timeouts, disconnects | 4 lines or bytes, 2 partial lines, 2 handshakes, a timeout of 1 tick |
| `server_pipelined` | safety when the client does not wait, the send buffer is full or the client closes first, and that each connection ends | 3 lines or bytes, 2 handshakes, a timeout of 1 tick |
| `client` | memory safety, exit status, request order and termination of `send_nsca` with any server, one that stops reading aside | 2 chunks, 6 responses, a timeout of 1 tick |
| `end_to_end` | what `send_nsca` reports and the daemon queues agree, and both finish | 2 chunks, no timeouts, the connection may break |
| `daemon` | one daemon at a time, its PID file, and the end of each start | 3 processes and inodes, 3 starts or restarts, 1 crash or failed removal |
| `binding` | success, answers and the end of calls of a binding that is used again after timeouts and failures | 2 calls, commands of 2 pieces, both languages |
| `data` | the block list is a queue; submissions arrive as written and are authorized as configured; configuration files mean what was written | blocks of 2 bytes, 5 bytes, 4 kinds of bytes; messages of 2 bytes of 5 kinds, 2 submissions, reads of 3 bytes; values of 2 special bytes or up to 4, lines broken anywhere, 2 lines |
| `server_noop`, `server_stall`, `server_stale_timeout` | disagreements between code and documentation, see below | |

The bounds are chosen so that each branch of the code is taken: a push of size 1
fits into a write of `PIPE_BUF` 2 and one of size 3 does not and goes to a dump
file, two small ones share a write and a third starts a dump; the pipe holds one
write and a half; the queue limit of 3 is exceeded by a small push behind a large one.  A
session of MOIN, PUSH and two bytes of data is four pieces; a send buffer of one
makes every second write partial; a line of three pieces is too long.  A timeout
of one tick lets the timer run out between any two callbacks.  Two commands
need six responses; with two chunks the input ends in a terminated chunk, an
unterminated one or an empty one.  `end_to_end` has no timeouts so that nothing
but the exchange itself can end a session that is stuck.  Three daemons are
what the race in `flopen` takes: one that leaves, one that has opened its file,
and one that creates the next; with no name for the file, two descriptors can
be open, so that three inodes are enough.  Five bytes in blocks of two are three
blocks when the first was read in part, and a call appends across a boundary.  A
line buffer that begins with 6 bytes doubles twice for the longest line, and a
value array of 4 bytes is filled exactly, and exceeded.  The three parts of
`data` share no state: a behaviour follows one of them.

Properties are commented where they are defined.  Each is shown to be able to
fail by a mutant of the code's definitions, kept next to the definition it
changes and marked as such.

Deadlock is not checked where the system may stop: a connection ends, a writer
with nothing to do waits.

### Fairness

libev invokes each pending watcher and polls when none is pending, so that the
loop's actions are weakly fair (in `Server.tla` two of the enabling
conditions are written out).  `FairSpec` of `Fifo.tla` also assumes that Nagios reads the pipe and
processes what it reads, that a timer runs out and that an AIO request
completes; system calls that can fail may still do so, in which case the data is
accounted for as lost.  `FairSpec` of `Server.tla` assumes that the client's
end reads the socket; `LoopSpec` does not.  Nothing is assumed about what
clients send.  `FairSpec` of `Client.tla` assumes nothing about the server and the user: what
happens when the server stops reading is the exception in `EventuallyEnds`.
`EndToEnd.tla` assumes that both loops run, that the network delivers what it
does not lose with the connection, and that an end learns when the other is gone.
`Daemon.tla` assumes that the kernel schedules every process; nothing is assumed
about signals, and the number of starts is finite, since each may make
`flopen` begin again once.
`Binding.tla` assumes that the calling process runs and its clock advances, and
nothing about the server or the network.

### Disagreements found

* `server_noop`: the NOOP branch of `handle_connection` does not issue the
  next read, so that a session in which NOOP was used hangs.
* `server_stall`: `read_cb` and `write_cb` feed each other as long as both are
  active; if neither can make progress, libev's loop over the pending watchers
  does not end and the timeout is not enforced until the peer reads.
  `send_nsca` uses the same callbacks and is open to the same stall, by a server that
  says OKAY to a PUSH request and then stops reading, although
  `man/send_nsca.cfg.in` says "Close the connection if the server didn't respond
  for the specified number of seconds": `ServerStalls`, the one exception in
  `EventuallyEnds`.
* `server_stale_timeout`: `tls_free` does not clear a timer that is pending, so
  that `timeout_cb` may run on freed memory when a connection ends in the loop
  iteration in which its timer ran out.

Without a run of their own:

* When a client closes the connection while responses are queued for it,
  `check_tls_error` answers its close notify at once, ahead of the responses, which
  `tls_free` then drops: the client, which could still read, does not get
  them.  `ClosedByClient`, the exception in `DrainedBeforeClose`, is this case.
* On SIGHUP `main` calls the exit handlers itself before `execvp`; if `execvp`
  fails, `die` runs them again, on a PID file handle and a configuration that have
  been freed.  A relative `argv[0]` is enough, since `daemon()` has changed the
  directory.  `FreedOnce` leaves exactly this case out.
* A Python object keeps its connection after the second failure of a call.  The
  answer to that call may come late and is then taken for the answer to the next
  one, which may so report success for a command that was refused.  The Perl
  binding frees its client instead.  `QueuedAsReported` and `InStep` state what is left for
  Python: up to the first failure.
* `nscang_client_response` of the bindings takes the first line of a record and
  drops the rest; it relies on being in step with the server.
* `has_timestamp_prefix` of the Perl binding tests an `errno` that it has not
  reset.  A Python object whose `__init__` failed is deallocated with a null
  client.
* `read_conf_line` takes the byte before the last one for the end of the line even
  if the last one is no newline.  A file whose last line lacks its newline and ends
  with a backslash and another byte, such as `password = "a\\"`, or that ends
  with a continued line, leaves a string without its NUL (`Ragged`, the exception
  in `ConfAsWritten`).  A backslash before CR LF does not continue a line, and an
  empty line after `\\` and a line break is taken for another continuation; the manual
  page is silent, and the model's files avoid both.
* A hash mark directly after a value without quotes is taken for its end, and
  what follows is then "unexpected stuff", although
  `man/send_nsca.cfg.in` lets comments begin anywhere (`Swallowed`); a value with a
  quote or a comment behind it is limited to one byte less than one that ends its
  line (`TooLong`).  `ConfAsWritten` names both as reasons to refuse a file.
* `parse_check_result` escapes before it splits.  With the delimiter `n`, which
  `-d` accepts, the newlines in a message become delimiters.
* `.+` also matches the final newline: an empty message is authorized.  The
  patterns are put between `^` and `\n?$` without parentheses: in one with an
  alternative at its top level each anchor belongs to one side, whereas
  `man/nsca-ng.cfg.in` says "with an implicit ^ at the beginning and $ at the end".
  With `hosts = "g|hh"` the section permits each result and command in which
  `hh;` is followed by anything.  `SubmittedAsWritten` is exact for
  patterns without alternatives, and for one with them says that all it names pass
  (`Ungrouped` is the exception).
* After a FAIL response `send_nsca` closes the connection without the QUIT or BAIL
  request that `PROTOCOL` requires; its timeout also runs while it waits for its
  own input.
* `contrib/nsca-ng.init` removes a PID file that is empty without its lock, which
  the argument for `Daemon.tla` rules out.

A property of the code that no run of its own shows: `read_bytes` does not look
at what `read_line` has left in the input buffer, so that `tls.c` relies on
clients waiting for the answer to a PUSH request.  `send_nsca` does
(`OneRequestAtATime`), and `end_to_end` shows that it is enough.

In the passing runs `MemorySafe` leaves the stale timeout aside, and the model
stops when it happens.

## What is proved

`FifoProofs.tla` proves for all values of the constants (any `PIPE_BUF`, pipe
capacity, queue limit, sizes, number of pushes, and either build):

* `TypeCorrect`: `Spec => []TypeOK`;
* `WritesAtomic`: `Spec => []AtomicWrites`, the pipe is never offered more than
  `PIPE_BUF` bytes in one write;
* `NeverStranded`: `Spec => []NothingStranded`, data the writer holds always
  has an active watcher or request that will move it on.

None of these is inductive.  The invariant `Inv` adds what the code relies on
without saying so: `output_size` is the size of `output` and zero when it is
NULL; a write watcher is active only while the pipe is open and the backlog fits
into a write (`Good`); the open timer is active exactly when the pipe is closed;
an AIO request exists exactly while its watcher is active; a stopped writer has
no watchers.  The proof has a lemma for each C function ("from a state that
satisfies ..., each state it returns in satisfies ..."), composed in the order
of the calls, and one step per action.  The assumption is `FifoAssumption`; in
particular a PROCESS_FILE command fits into a write (`RefSize <= PIPE_BUF`).

Four more theorems follow what happens to the data, with the same assumption and
again for any number of pushes, files and failures:

* `NoPushLostOrDuplicated`: `Spec => []EachPushInOnePlace`;
* `EachDumpAnnouncedOnce`: `Spec => []DumpAnnouncedOnce`;
* `OrderPreserved`: `Spec => []OrderKept`;
* `QueueStaysBounded`: `Spec => []QueueBounded`.

What they have in common is the part on moves.  It shows once that each function
takes the data along a sequence of a few moves (`Move`: `output` is slurped,
written, purged, handed to the kernel, ...), so that a set of states which is
closed under the moves (`Closed`, `ClosedUnderCallbacks`) is closed under the
callbacks.  Each theorem then only has to look at single moves:

* Order: the pipe, `output` and the queue form one line (`Line`), whose parts are
  in order and before each other, and no push in it is newer than the last one.
* Bounds: the size fields are the sums of the sizes (`Sized`), and each has a
  limit.  `fifo_write` purges on the queue alone, and `buffer_slurp` is reached
  only if both buffers fit into a write; hence the sum of two limits.
* Places: the number of copies of an item is a sum of weights over the buffers,
  the pipe, the files and what is lost (`Held`, `Away`).  A move takes a weight
  from one place to another.  It is the *set* `lost` that makes the step to the
  record of losses need an invariant: an item is counted there only once, which
  is right as long as there was at most one copy.  Likewise for what Nagios has
  processed.  `Tidy` adds that a file that is still open is empty, so that nothing
  is overwritten.
* Announcements: a file is empty until it is announced, and not announced while it
  is open; `sync_dump_data` and `async_cb` close it before `fifo_write` (`Announced`).

`DaemonProofs.tla` proves for any sets of processes and inodes and any bounds:

* `TypeCorrect`: `Spec => []TypeOK`;
* `Exclusion`: `Spec => []MutualExclusion`;
* `FileNamesServer`: `Spec => []PidFileNamesServer`;
* `FileRemoved`: `Spec => []NoFileLeftBehind`;
* `FreedOnlyOnce`: `Spec => FreedOnce`, an action property.

The invariant says that a lock and its holder agree (`LocksHeld`,
`HoldersLock`) and that from the comparison in `flopen` to `unlink` the name refers
to the file the process has locked (`OwnersPath`).  Two processes that serve
would both hold the lock of the PID file.  It is inductive because only a
process that owns the file removes its name, and an inode is not reused while a
descriptor refers to it (`Descriptors`); without the comparison `OwnersPath`
fails in the step that follows `flock`.  For `FileRemoved`, an existing file has
a process that owns it or will (`Cared`): one that gives up because of the lock
leaves it to the holder.  For `FreedOnlyOnce`, a handle that is freed while its
process lives belongs to one that is about to restart (`FreedToRestart`): the
failed write of the PID, which ends the process in another way, still finds the
handle open.  Assumptions: `None` is not a PID, `NoFile` not an inode, the
bounds are natural numbers.

`BindingProofs.tla` proves for any number of calls and commands of any size:

* `TypeCorrect`: `Spec => []TypeOK`;
* `ReportsAreTrue`: `Spec => []QueuedAsReported`;
* `CallsInStep`: `Spec => []InStep`.

That success means that the command was queued follows from the dialogue
(`Dialogue`): as long as no failed call has kept its connection, what is under way
in both directions, the state of the server and the request that is waited for
belong together, in one of the phases `Quiet`, `Greeting`, `Announcing`,
`Submitting`.  That a command is queued at most once per attempt is counted
(`Counted`): the copies that were queued, the first pieces of the command that are
on the connection or on any that was closed and may still deliver, and the one
that is still to be sent are together no more than the attempts; the
first piece counts because the server may have the beginning of a command.  The
assumption is `BindingAssumption`: a command is not empty.

`ServerProofs.tla` proves for any limits, any timeout, any requests and any client:

* `ServerTypes`: `Spec => []TypeOK`;
* `ServerMemory`: `Spec => []MemorySafe`;
* `ServerDrains`: `Spec => []DrainedBeforeClose`: apart from the answer to a client
  that closed first, an alert is sent only when nothing is left to be written, and
  in either case nothing follows it.

The inductive invariant gives a connection one of five phases (`ServerPhases`):
`Fresh`; `Opening`, the handshake, in which only `init` may be active and there is no
`connection_state`; `Serving`, in which `read` and `write` may be active and all
handlers of `server.c` are installed; `Closing`, from `connection_stop` on, in
which the `connection_state` is freed, no handler of `server.c` is installed any
more, and either `write` or `shutdown` is active; `Freed`, with no watcher.  What
makes a use after free impossible is that the handlers leave with the structure
(`tls_shutdown` in `connection_stop`), that a watcher is pending only if it is
active (`Watched`), and that each watcher belongs to a phase.  What makes the
alert the last thing that is written is that the `shutdown` watcher is started by
`write_cb` or by `tls_on_drain` only when nothing is left (`Flushing`: data that is
buffered has an active write watcher).  Any callback that finds the client's alert
instead destroys the connection (`LostEnds`, `ClosedLosable`).  `read_cb` needs more than the phase it
finds: after a byte count is read in full the offset in the input buffer is reset,
or the next request would find it behind its end (`Buffered`).

What the functions of `tls.c` do is stated in `TlsProofs.tla` as a frame,
`Only(s, t, F)`: they change no field but those in `F`, so that the application's
fields and those that no phase mentions need no argument.  The loops of
`read_line` and `read_bytes` follow by `SetInduction`, over the turns.  The assumptions
are `TlsAssumption` and `ServerAssumption`.

`ClientProofs.tla` proves for any input, any server, any sizes of buffers and
any timeout:

* `ClientTypes`: `Spec => []TypeOK`;
* `ClientMemory`: `Spec => []MemorySafe`;
* `ClientRequests`: `Spec => []OneRequestAtATime`;
* `ClientExit`: `Spec => []ExitStatusHonest`.

The inductive invariant is `SessionInv` (`ClientPhases`).  It names the phases of the
client: `Fresh`, `Opening` (the handshake), `Asking` (a response is waited for),
`Typing` (the input is), `Closing` (from `client_stop` on), `Freed` and `Ended`.
Memory safety needs little more: in each phase it is clear which of the structures
exist and which watchers may be active, and no handler of `client.c` is left when
`client_stop` has returned.

The other two are about the whole session, which the phases relate to its
history.  `Gathered` says which commands the input amounts to so far: what the user
has typed is what was taken from it, the chunks in the buffer, and what
`read(2)` has not returned.  `Inbox` says which lines the handlers have heard: what
the server has said is that and the records under way.  `Sent` is
all that was read by the server, is under way, or still waits in `output` and
`output_buffer`.  `Talk` ties them together: when k commands have been answered and
the next is announced, the lines heard are the greeting and 2k times OKAY
(`Acks`), and what was sent is the beginning of the session that `PROTOCOL`
prescribes for the commands gathered (`Sofar`) with the request.  A stage
of `Asking` exists for each of the four requests (`Greeting`, `Announcing`,
`Submitting`, `Leaving`), and a handler takes the session from one to another.
That the invariant speaks of lines heard, not of lines said, makes it hold for a
server that speaks unasked: what it says waits in `in` to be read.

`OneRequestAtATime` follows because each request (`Load`) stands against a line heard, and
is only weaker when part of it is not yet sent.  For `ExitStatusHonest` the status
matters from `client_stop` on: it is SUCCESS only after the answer to QUIT
(`Success`), and a process that exits by itself has written all that was left and the
alert.  Everything else that ends it is `die`, or sets FAILURE first
(`Mortal` is what the phases promise should the process die at any place).  The loop
of `input_read_cb`, which goes on as long as chunks are empty, follows by induction
over its turns; a turn finds the end, a command, an empty chunk or nothing.
`TypedChunks` is about a whole input, so there are lemmas on what one more chunk
adds (`Commands`) and on the unterminated end (`Unterminated`).  The assumptions are
`TlsAssumption` and `ClientAssumption`: a response is a line, and OKAY has no
argument.

`BufferProofs.tla` proves that `Buffer` implements `ByteQueue`, for blocks of any
size, any set of bytes, and any number of them per call:

* `BufferImplementsQueue`: `BufferSpec => BufferIsQueue`, that is, the
  specification of the queue under the mapping of `Buffer.tla` and `[]SizeFollows`.

A buffer is looked at as the sequence of the used parts of its blocks (`Parts`),
which `FlattenSeq` puts together.  One turn of the loop in `buffer_append` adds a
byte to the last part, or a part of one byte (`PutByteAdds`); one turn of the loop
in `buffer_read` takes a byte from the first part, or the part with its last byte
(`TakeByteTakes`).  The loops follow by induction (`AppendStores`, `ReadTakes`),
then the detached block (`DetachTakes`), whose bytes behind the used part must not
matter, and the line and the chunk that are cut out of it by writing a NUL
(`TerminatedString`).  The invariant is `Good`: the offsets are within their
blocks, the first is zero without a block and not behind the second with a single
one (`Sound`), and the size is that of the parts.  The second half is needed
for the first: `block_detach` compares sizes, and `buffer_read` stops at the size,
without which a turn would find no block.  The assumption is
`BufferAssumption`: a block holds at least one byte.

Induction.  The prover has no induction rule, but it has sets: `SetInduction` in
`TotalsProofs.tla` shows, from the pigeonhole principle of the library, that a
set with 0 and with the successor of each member has all natural numbers.  The
laws of sums (`TotalConcat`, `TotalExcept`, ...) are proved with it, from the
recursive function of `Totals.tla`, and so are those of concatenation
(`FlattenAppend`, `FlattenFirst`) and the loops of `Buffer.tla`.

Left to TLC: liveness and everything with ENABLED (out of the prover's reach:
`EventuallyEnds` and the other temporal properties), what the string
functions of `CheckInput` and `ClientConf` compute (recursion over their input),
of the server `AnswersAsSpecified` and `QueuedBeforeAcked`, whose invariant would
have to parse what the client has sent, and `NoLostWakeup`, which needs to know
of each watcher what its last call returned; and all of `EndToEnd`, which would need
both invariants and one for the two sockets.

## Plan

What is left is to prove more: the dialogue of the server as a relation between what it
has read, queued and answered, like that of the client, and from the two
`SuccessMeansQueued` of `EndToEnd`.

## Not modelled

Vendored and generated code that is not the program's own logic: libev beyond the
parts named above (`lib/ev`, 10,000 lines), `lib/xprintf.c`, `perl/ppport.h`
(18,600 lines), the two copies of `uthash.h`.  These are three quarters of the
lines of C in the repository.

Logging, memory exhaustion (`xmalloc` exits; the bindings' own handling of it),
the argument handling of the bindings, the build system, and cryptography: the
lookup of a key and the handshake are one step that succeeds or not.  The setup
of the listening socket either succeeds or ends the process.  Reading the
server's configuration is libConfuse's work; the regular expressions of its
settings are literals, or alternatives of literals, in the model.  In
`nsca-ng.c` and `send_nsca.c`: options, privileges, the systemd watchdog, the
random delay, and the PID that a refused start reports.

OpenSSL is modelled from how `tls.c` uses it, with three simplifications.  Whether
a call would block depends on the socket alone; OpenSSL holds an alert back while a
record is half sent, so that in `AnswerClose` the model may send an alert where the
library does not.  An application that is interrupted by a signal does not see
`EINTR`: OpenSSL's sockets take it for an error that is to be tried again, which
is `SSL_ERROR_WANT_READ` or `SSL_ERROR_WANT_WRITE`, so that the branch for it in
`check_tls_error` has no outcome of its own.  And a record is either there or not.
