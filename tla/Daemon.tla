------------------------------- MODULE Daemon -------------------------------
(***************************************************************************)
(* The life cycle of nsca-ng processes that share a PID file: main of      *)
(* src/server/nsca-ng.c, lib/daemon.c and lib/pidfile.                     *)
(*                                                                         *)
(* Any number of processes may be started at any time, be told to stop or  *)
(* to restart, give up or be killed.  Each system call that touches the    *)
(* PID file is a step of its own.  The kernel's side is path, the inode    *)
(* that the name of the PID file refers to; content[i], the PID that inode *)
(* i holds; and lock[i], the process whose descriptor holds the flock(2)   *)
(* lock on it.  A process is identified by its PID; a PID may be reused    *)
(* once its process is gone, and so may an inode that nothing refers to.   *)
(***************************************************************************)
EXTENDS Naturals

CONSTANTS
  Procs,      \* PIDs
  Inodes,     \* inodes of the directory of the PID file
  None,       \* no process: an unlocked inode, an empty file
  NoFile,     \* no inode: no such file, no descriptor
  MaxStarts,  \* bound: how often nsca-ng is executed
  MaxFaults   \* bound: crashes and failures that leave the PID file behind

ASSUME ProcsAssumption == None \notin Procs
ASSUME InodesAssumption == NoFile \notin Inodes
ASSUME BoundsAssumption == MaxStarts \in Nat /\ MaxFaults \in Nat

VARIABLES
  path, lock, content,
  pc,       \* the system call each process is about to make
  fd,       \* pf_fd, or flopen's descriptor: the inode it refers to
  pfh,      \* the PID file handle and the pointers to it
  mode,     \* who removes the PID file, and hence what comes next
  misuse,   \* objects that were used after they were freed
  starts, faults

files == <<path, lock, content>>
counters == <<starts, faults>>
vars == <<files, pc, fd, pfh, mode, misuse, counters>>

\* flopen has returned, the PID file is open and the process is about to bind
\* its socket, to serve or to close its connections.
Serving == {"server_start", "daemon", "setsid", "pwrite", "run", "server_stop"}

\* flopen is at work, or the server is on its way to the event loop.
Starting == {"open", "flock", "stat", "ftruncate", "pidfile_read"}
              \union {"server_start", "daemon", "setsid", "pwrite"}

States == {"off", "exit", "unlink", "close", "execvp"} \union Starting \union Serving

TypeOK ==
  /\ path \in Inodes \union {NoFile}
  /\ lock \in [Inodes -> Procs \union {None}]
  /\ content \in [Inodes -> Procs \union {None}]
  /\ pc \in [Procs -> States]
  /\ fd \in [Procs -> Inodes \union {NoFile}]
  /\ pfh \in [Procs -> {"NULL", "open", "closed", "freed", "forgotten"}]
  /\ mode \in [Procs -> {"exit", "restart", "write"}]
  /\ misuse \subseteq {"pfh", "cfg"}
  /\ starts \in 0..MaxStarts
  /\ faults \in 0..MaxFaults

Init ==
  /\ path = NoFile
  /\ lock = [i \in Inodes |-> None]
  /\ content = [i \in Inodes |-> None]
  /\ pc = [p \in Procs |-> "off"]
  /\ fd = [p \in Procs |-> NoFile]
  /\ pfh = [p \in Procs |-> "NULL"]
  /\ mode = [p \in Procs |-> "exit"]
  /\ misuse = {}
  /\ starts = 0
  /\ faults = 0

-----------------------------------------------------------------------------
\* What the actions are made of.

Goto(p, s) == pc' = [pc EXCEPT ![p] = s]

\* The handle and the mode belong to the process image.
KeepImage == UNCHANGED <<pfh, mode, misuse>>

\* Closing the last descriptor of an open file gives up its lock.
CloseFd(p) ==
  /\ fd' = [fd EXCEPT ![p] = NoFile]
  /\ lock' = [i \in Inodes |-> IF i = fd[p] /\ lock[i] = p THEN None ELSE lock[i]]

\* The process ends, and the kernel closes its descriptors.
Gone(p) ==
  /\ Goto(p, "off")
  /\ CloseFd(p)
  /\ pfh' = [pfh EXCEPT ![p] = "NULL"]
  /\ mode' = [mode EXCEPT ![p] = "exit"]

\* One more failure that leaves the PID file where it is.
Fault == faults < MaxFaults /\ faults' = faults + 1

-----------------------------------------------------------------------------
\* flopen, called by pidfile_open.

\* main, up to the call of pidfile_open.
main(p) ==
  /\ pc[p] = "off"
  /\ starts < MaxStarts
  /\ starts' = starts + 1
  /\ Goto(p, "open")
  /\ UNCHANGED <<files, fd, pfh, mode, misuse, faults>>

\* main fails before it looks at the PID file, or pidfile_open's malloc or
\* open(2) does: remove_pidfile is not registered yet.
open_Fails(p) ==
  /\ pc[p] = "open"
  /\ Gone(p)
  /\ UNCHANGED <<path, content, misuse, counters>>

\* A mutant that leaves O_TRUNC in the flags.
open_Truncates(p) ==
  /\ pc[p] = "open"
  /\ Goto(p, "flock")
  /\ \E i \in Inodes :
       /\ i = path \/ (path = NoFile /\ \A q \in Procs : fd[q] # i)
       /\ fd' = [fd EXCEPT ![p] = i]
       /\ path' = i
       /\ content' = [content EXCEPT ![i] = None]
  /\ UNCHANGED lock
  /\ KeepImage /\ UNCHANGED counters

\* O_TRUNC has been taken out of the flags: an existing file is left alone.
open(p) ==
  /\ pc[p] = "open"
  /\ Goto(p, "flock")
  /\ \E i \in Inodes :
       /\ fd' = [fd EXCEPT ![p] = i]
       /\ path' = i
       /\ IF path = NoFile
            THEN /\ \A q \in Procs : fd[q] # i
                 /\ content' = [content EXCEPT ![i] = None]
            ELSE /\ i = path
                 /\ UNCHANGED content
  /\ UNCHANGED lock
  /\ KeepImage /\ UNCHANGED counters

\* LOCK_EX | LOCK_NB: with EWOULDBLOCK, flopen closes the file and fails.
flock(p) ==
  /\ pc[p] = "flock"
  /\ \/ /\ lock[fd[p]] = None
        /\ lock' = [lock EXCEPT ![fd[p]] = p]
        /\ Goto(p, "stat")
        /\ UNCHANGED fd
     \/ /\ lock[fd[p]] # None
        /\ CloseFd(p)
        /\ Goto(p, "pidfile_read")
  /\ KeepImage /\ UNCHANGED <<path, content, counters>>

\* A mutant that looks whether there is a PID file, not which one it is.
stat_AnyFile(p) ==
  /\ pc[p] = "stat"
  /\ \/ /\ path # NoFile
        /\ Goto(p, "ftruncate")
        /\ UNCHANGED <<fd, lock>>
     \/ /\ path = NoFile
        /\ CloseFd(p)
        /\ Goto(p, "open")
  /\ KeepImage /\ UNCHANGED <<path, content, counters>>

\* A mutant that locks the same descriptor again.
stat_SameFile(p) ==
  /\ pc[p] = "stat"
  /\ \/ /\ path = fd[p]
        /\ Goto(p, "ftruncate")
        /\ UNCHANGED lock
     \/ /\ path # fd[p]
        /\ lock' = [lock EXCEPT ![fd[p]] = None]
        /\ Goto(p, "flock")
  /\ KeepImage /\ UNCHANGED <<fd, path, content, counters>>

\* stat(2) and fstat(2): the file may have been removed, or replaced, between
\* open(2) and flock(2), in which case flopen starts again.
stat(p) ==
  /\ pc[p] = "stat"
  /\ \/ /\ path = fd[p]
        /\ Goto(p, "ftruncate")
        /\ UNCHANGED <<fd, lock>>
     \/ /\ path # fd[p]
        /\ CloseFd(p)
        /\ Goto(p, "open")
  /\ KeepImage /\ UNCHANGED <<path, content, counters>>

\* The end of flopen and of pidfile_open.
ftruncate(p) ==
  /\ pc[p] = "ftruncate"
  /\ content' = [content EXCEPT ![fd[p]] = None]
  /\ pfh' = [pfh EXCEPT ![p] = "open"]
  /\ Goto(p, "server_start")
  /\ UNCHANGED <<path, lock, fd, mode, misuse, counters>>

\* "can't happen": flopen closes the file, pidfile_open frees the handle and
\* main dies; the file stays.
ftruncate_Fails(p) ==
  /\ pc[p] = "ftruncate"
  /\ Fault
  /\ Gone(p)
  /\ UNCHANGED <<path, content, misuse, starts>>

\* After EWOULDBLOCK: whatever is found in the file, up to twenty times, only
\* goes into the message main dies with.
pidfile_read(p) ==
  /\ pc[p] = "pidfile_read"
  /\ Gone(p)
  /\ UNCHANGED <<path, content, misuse, counters>>

-----------------------------------------------------------------------------
\* From the call of server_start to the event loop and back.

\* A mutant that ends the process without the atexit(3) functions.
start_Fails_Abruptly(p) ==
  /\ pc[p] \in {"server_start", "daemon", "setsid"}
  /\ Gone(p)
  /\ UNCHANGED <<path, content, misuse, counters>>

\* server_start, fork(2) or setsid(2) fails after remove_pidfile was registered
\* with atexit(3), and die calls exit(3).
start_Fails(p) ==
  /\ pc[p] \in {"server_start", "daemon", "setsid"}
  /\ Goto(p, "exit")
  /\ UNCHANGED <<files, fd, pfh, mode, misuse, counters>>

\* The server gives up while it runs.
die(p) ==
  /\ pc[p] = "run"
  /\ Goto(p, "exit")
  /\ UNCHANGED <<files, fd, pfh, mode, misuse, counters>>

server_start(p) ==
  /\ pc[p] = "server_start"
  /\ Goto(p, "daemon")
  /\ UNCHANGED <<files, fd, pfh, mode, misuse, counters>>

\* With -F, or when socket activated, there is no fork.
foreground(p) ==
  /\ pc[p] = "daemon"
  /\ Goto(p, "pwrite")
  /\ UNCHANGED <<files, fd, pfh, mode, misuse, counters>>

\* fork(2), once before and once after setsid(2).  The child has another PID
\* and shares the open file and its lock; the parent leaves with _exit(2),
\* which calls no handlers.
become_child(p) ==
  /\ pc[p] \in {"daemon", "setsid"}
  /\ \E child \in Procs :
       /\ pc[child] = "off"
       /\ pc' = [pc EXCEPT ![p] = "off",
                           ![child] = IF pc[p] = "daemon" THEN "setsid" ELSE "pwrite"]
       /\ fd' = [fd EXCEPT ![p] = NoFile, ![child] = fd[p]]
       /\ pfh' = [pfh EXCEPT ![p] = "NULL", ![child] = "open"]
       /\ lock' = [lock EXCEPT ![fd[p]] = child]
  /\ UNCHANGED <<path, content, mode, misuse, counters>>

\* A mutant that writes the number of the descriptor instead of the PID.
pidfile_write_Descriptor(p) ==
  /\ pc[p] = "pwrite"
  /\ content' = [content EXCEPT ![fd[p]] = fd[p]]
  /\ Goto(p, "run")
  /\ UNCHANGED <<path, lock, fd, pfh, mode, misuse, counters>>

\* ftruncate(2), pwrite(2), the signal handlers and ev_run.
pidfile_write(p) ==
  /\ pc[p] = "pwrite"
  /\ content' = [content EXCEPT ![fd[p]] = p]
  /\ Goto(p, "run")
  /\ UNCHANGED <<path, lock, fd, pfh, mode, misuse, counters>>

\* A full disk, for example: _pidfile_remove(pfh, 0).
pidfile_write_Fails(p) ==
  /\ pc[p] = "pwrite"
  /\ content' = [content EXCEPT ![fd[p]] = None]
  /\ mode' = [mode EXCEPT ![p] = "write"]
  /\ Goto(p, "unlink")
  /\ UNCHANGED <<path, lock, fd, pfh, misuse, counters>>

\* SIGINT and SIGTERM end the event loop, and so does SIGHUP, which also sets
\* restart.
signal_cb(p) ==
  /\ pc[p] = "run"
  /\ Goto(p, "server_stop")
  /\ \/ UNCHANGED <<mode, starts>>
     \/ /\ starts < MaxStarts
        /\ starts' = starts + 1
        /\ mode' = [mode EXCEPT ![p] = "restart"]
  /\ UNCHANGED <<files, fd, pfh, misuse, faults>>

\* With restart, main calls remove_pidfile; otherwise it returns.
server_stop(p) ==
  /\ pc[p] = "server_stop"
  /\ Goto(p, IF mode[p] = "restart" THEN "unlink" ELSE "exit")
  /\ UNCHANGED <<files, fd, pfh, mode, misuse, counters>>

-----------------------------------------------------------------------------
\* The way out.

\* The functions registered with atexit(3): remove_pidfile, then forget_config.
\* pidfile_verify refuses a handle whose pf_fd is -1.  If the handle has been
\* freed, fstat(2) fails on what is left of its descriptor, or the process
\* crashes: it ends, and the file is left alone.
exit(p) ==
  /\ pc[p] = "exit"
  /\ \/ /\ pfh[p] = "open"
        /\ Goto(p, "unlink")
        /\ UNCHANGED <<files, fd, pfh, mode, misuse>>
     \/ /\ pfh[p] # "open"
        /\ Gone(p)
        /\ misuse' = misuse \union {o \in {"pfh"} : pfh[p] = "freed"}
                            \union {o \in {"cfg"} : mode[p] = "restart"}
        /\ UNCHANGED <<path, content>>
  /\ UNCHANGED counters

\* _pidfile_remove removes the file by its name.
unlink(p) ==
  /\ pc[p] = "unlink"
  /\ path # NoFile
  /\ path' = NoFile
  /\ Goto(p, "close")
  /\ UNCHANGED <<lock, content, fd, pfh, mode, misuse, counters>>

\* Nothing to remove, or not permitted any more.  Then remove_pidfile clears
\* pid_file, so that it is not called again; pidfile_write does not.
unlink_Fails(p) ==
  /\ pc[p] = "unlink"
  /\ IF path = NoFile THEN UNCHANGED faults ELSE Fault
  /\ pfh' = [pfh EXCEPT ![p] = IF mode[p] = "write" THEN "open" ELSE "forgotten"]
  /\ Goto(p, "close")
  /\ UNCHANGED <<files, fd, mode, misuse, starts>>

\* A mutant: pidfile_write has _pidfile_remove free the handle, too.
close_FreesHandle(p) ==
  /\ pc[p] = "close"
  /\ \/ /\ mode[p] # "exit"
        /\ pfh' = [pfh EXCEPT ![p] = IF pfh[p] = "open" THEN "freed" ELSE pfh[p]]
        /\ Goto(p, IF mode[p] = "write" THEN "exit" ELSE "execvp")
        /\ CloseFd(p)
        /\ UNCHANGED mode
     \/ /\ mode[p] = "exit"
        /\ Gone(p)
  /\ UNCHANGED <<path, content, misuse, counters>>

\* The rest of _pidfile_remove, and what follows it: pidfile_write's caller
\* dies, the atexit(3) functions end, main goes on to forget_config and execvp.
close(p) ==
  /\ pc[p] = "close"
  /\ \/ /\ mode[p] = "write"
        /\ pfh' = [pfh EXCEPT ![p] = "closed"]
        /\ Goto(p, "exit")
        /\ CloseFd(p)
        /\ UNCHANGED mode
     \/ /\ mode[p] = "restart"
        /\ pfh' = [pfh EXCEPT ![p] = IF pfh[p] = "open" THEN "freed" ELSE pfh[p]]
        /\ Goto(p, "execvp")
        /\ CloseFd(p)
        /\ UNCHANGED mode
     \/ /\ mode[p] = "exit"
        /\ Gone(p)
  /\ UNCHANGED <<path, content, misuse, counters>>

\* A new image in the same process.
execvp(p) ==
  /\ pc[p] = "execvp"
  /\ Goto(p, "open")
  /\ pfh' = [pfh EXCEPT ![p] = "NULL"]
  /\ mode' = [mode EXCEPT ![p] = "exit"]
  /\ UNCHANGED <<files, fd, misuse, counters>>

\* For example, argv[0] is a relative path and daemon changed the directory.
execvp_Fails(p) ==
  /\ pc[p] = "execvp"
  /\ Goto(p, "exit")
  /\ UNCHANGED <<files, fd, pfh, mode, misuse, counters>>

\* Killed: SIGKILL, or SIGTERM while signal_cb is not installed.
Crash(p) ==
  /\ pc[p] # "off"
  /\ Fault
  /\ Gone(p)
  /\ UNCHANGED <<path, content, misuse, starts>>

-----------------------------------------------------------------------------
\* What a process does on its own until it runs or is gone.
Step(p) ==
  \/ open(p) \/ open_Fails(p) \/ flock(p) \/ stat(p)
  \/ ftruncate(p) \/ ftruncate_Fails(p) \/ pidfile_read(p)
  \/ server_start(p) \/ start_Fails(p) \/ foreground(p) \/ become_child(p)
  \/ pidfile_write(p) \/ pidfile_write_Fails(p)
  \/ server_stop(p) \/ exit(p) \/ unlink(p) \/ unlink_Fails(p) \/ close(p)
  \/ execvp(p) \/ execvp_Fails(p)

Next == \E p \in Procs : main(p) \/ Step(p) \/ die(p) \/ signal_cb(p) \/ Crash(p)

Spec == Init /\ [][Next]_vars

\* The kernel schedules every process.
FairSpec == Spec /\ \A p \in Procs : WF_vars(Step(p))

-----------------------------------------------------------------------------
\* Properties.

\* pidfile_open lets at most one process at a time pass to server_start, and
\* the next one only after server_stop or the exit of the first, however the
\* removal of the file by one races with open, flock and stat of the others.
MutualExclusion ==
  \A p, q \in Procs : pc[p] \in Serving /\ pc[q] \in Serving => p = q

\* While the server runs, the PID file exists and names it, whoever else has
\* tried to start, given up, crashed or removed a file of its own meanwhile.
PidFileNamesServer ==
  \A p \in Procs : pc[p] \in {"run", "server_stop"} => path = fd[p] /\ content[path] = p

\* When all processes are gone and no fault prevented it, the PID file is
\* gone too, also if they refused to start or failed on the way.
NoFileLeftBehind ==
  faults = 0 /\ (\A p \in Procs : pc[p] = "off") => path = NoFile

\* A start comes to an end, in the event loop or not, although flopen begins
\* again as often as the file disappears.
StartSettles == \A p \in Procs : pc[p] \in Starting ~> pc[p] \notin Starting

\* The handle of the PID file and the configuration are used again after they
\* were freed in one case only: execvp has failed, for example because of a
\* relative argv[0], and die runs the atexit(3) functions that main has called
\* already.  On every other way out (a refused or failed start, a PID that
\* could not be written, a signal, a removal that failed) they are freed once.
FreedOnce ==
  [][misuse' # misuse =>
       \E p \in Procs :
         pc[p] = "exit" /\ mode[p] = "restart" /\ pc'[p] = "off"]_vars

=============================================================================
