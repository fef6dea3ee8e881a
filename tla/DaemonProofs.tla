---------------------------- MODULE DaemonProofs ----------------------------
(***************************************************************************)
(* Proofs about Daemon, for any number of processes and inodes.            *)
(***************************************************************************)
EXTENDS Daemon, TLAPS

\* The process has the lock of the file its descriptor refers to.
Holds(p) ==
  \/ pc[p] \in {"stat", "ftruncate", "unlink", "close"} \union Serving
  \/ pc[p] = "exit" /\ pfh[p] = "open"

\* The process has seen that this file is the PID file, and not removed it yet.
Owns(p) ==
  \/ pc[p] \in {"ftruncate", "unlink"} \union Serving
  \/ pc[p] = "exit" /\ pfh[p] = "open"

\* A lock is held by a process that knows about it.
LocksHeld == \A i \in Inodes : lock[i] # None => fd[lock[i]] = i /\ Holds(lock[i])

\* A process that thinks it holds a lock does.
HoldersLock == \A p \in Procs : Holds(p) => fd[p] \in Inodes /\ lock[fd[p]] = p

\* Between flopen and unlink the PID file is not replaced.
OwnersPath == \A p \in Procs : Owns(p) => path = fd[p]

\* Descriptors that were never opened or have been closed.
Descriptors ==
  \A p \in Procs :
    /\ pc[p] = "flock" => fd[p] \in Inodes
    /\ pc[p] # "flock" /\ ~Holds(p) => fd[p] = NoFile

\* The handle is usable exactly while the file is open.
Handles ==
  \A p \in Procs :
    /\ pc[p] \in Serving => pfh[p] = "open"
    /\ pc[p] = "execvp" => pfh[p] # "open"

\* The file of a server that runs holds its PID.
Written == \A p \in Procs : pc[p] \in {"run", "server_stop"} => content[fd[p]] = p

Inv == TypeOK /\ LocksHeld /\ HoldersLock /\ OwnersPath /\ Descriptors /\ Handles /\ Written

\* As long as nothing goes wrong: what is about to be closed has been removed,
\* and a PID file that exists has an owner or will find one.
Removed == \A p \in Procs : pc[p] = "close" => path # fd[p]
Cared == path # NoFile => \E p \in Procs : fd[p] = path /\ (pc[p] \in {"flock", "stat"} \/ Owns(p))
Orderly == faults = 0 => Removed /\ Cared

\* Only main's own call of remove_pidfile frees a handle: the image that still
\* has the pointer is about to be replaced.
FreedToRestart == \A p \in Procs : pfh[p] = "freed" => mode[p] = "restart"

-----------------------------------------------------------------------------
\* Type correctness is preserved by every step.
LEMMA TypeStep == TypeOK /\ [Next]_vars => TypeOK'
<1> SUFFICES ASSUME TypeOK, [Next]_vars PROVE TypeOK'
    OBVIOUS
<1> USE BoundsAssumption
<1>1. CASE UNCHANGED vars
      BY <1>1 DEF TypeOK, vars, files, counters
<1>2. ASSUME NEW p \in Procs, main(p) \/ Step(p) \/ die(p) \/ signal_cb(p) \/ Crash(p)
      PROVE  TypeOK'
  <2>1. CASE main(p)
        BY <2>1 DEF TypeOK, main, Goto, files, States, Starting
  <2>2. CASE open(p)
        BY <2>2 DEF TypeOK, open, Goto, KeepImage, counters, States, Starting
  <2>3. CASE open_Fails(p)
        BY <2>3 DEF TypeOK, open_Fails, Gone, CloseFd, Goto, counters, States
  <2>4. CASE flock(p)
        BY <2>4 DEF TypeOK, flock, CloseFd, Goto, KeepImage, counters, States, Starting
  <2>5. CASE stat(p)
        BY <2>5 DEF TypeOK, stat, CloseFd, Goto, KeepImage, counters, States, Starting
  <2>6. CASE ftruncate(p)
        BY <2>6 DEF TypeOK, ftruncate, Goto, counters, States, Starting
  <2>7. CASE ftruncate_Fails(p)
        BY <2>7 DEF TypeOK, ftruncate_Fails, Fault, Gone, CloseFd, Goto, States
  <2>8. CASE pidfile_read(p)
        BY <2>8 DEF TypeOK, pidfile_read, Gone, CloseFd, Goto, counters, States
  <2>9. CASE server_start(p) \/ foreground(p)
        BY <2>9 DEF TypeOK, server_start, foreground, Goto, files, counters, States, Starting
  <2>10. CASE start_Fails(p) \/ die(p) \/ execvp_Fails(p)
        BY <2>10 DEF TypeOK, start_Fails, die, execvp_Fails, Goto, files, counters, States
  <2>11. CASE become_child(p)
    <3>1. PICK child \in Procs : become_child(p)!2!(child)
          BY <2>11 DEF become_child
    <3>2. pc' \in [Procs -> States]
          BY <3>1 DEF TypeOK, States, Starting
    <3>3. fd' \in [Procs -> Inodes \union {NoFile}]
          BY <3>1 DEF TypeOK
    <3>4. pfh' \in [Procs -> {"NULL", "open", "closed", "freed", "forgotten"}]
          BY <3>1 DEF TypeOK
    <3>5. lock' \in [Inodes -> Procs \union {None}]
          BY <3>1 DEF TypeOK
    <3> QED BY <2>11, <3>2, <3>3, <3>4, <3>5 DEF TypeOK, become_child, counters
  <2>12. CASE pidfile_write(p)
        BY <2>12 DEF TypeOK, pidfile_write, Goto, counters, States, Serving
  <2>13. CASE pidfile_write_Fails(p)
        BY <2>13 DEF TypeOK, pidfile_write_Fails, Goto, counters, States
  <2>14. CASE signal_cb(p)
        BY <2>14 DEF TypeOK, signal_cb, Goto, files, States, Serving
  <2>15. CASE server_stop(p)
        BY <2>15 DEF TypeOK, server_stop, Goto, files, counters, States
  <2>16. CASE exit(p)
        BY <2>16 DEF TypeOK, exit, Gone, CloseFd, Goto, files, counters, States
  <2>17. CASE unlink(p)
        BY <2>17 DEF TypeOK, unlink, Goto, counters, States
  <2>18. CASE unlink_Fails(p)
        BY <2>18 DEF TypeOK, unlink_Fails, Fault, Goto, files, States
  <2>19. CASE close(p)
        BY <2>19 DEF TypeOK, close, Gone, CloseFd, Goto, counters, States
  <2>20. CASE execvp(p)
        BY <2>20 DEF TypeOK, execvp, Goto, files, counters, States, Starting
  <2>21. CASE Crash(p)
        BY <2>21 DEF TypeOK, Crash, Fault, Gone, CloseFd, Goto, States
  <2> QED BY <1>2, <2>1, <2>2, <2>3, <2>4, <2>5, <2>6, <2>7, <2>8, <2>9, <2>10, <2>11,
             <2>12, <2>13, <2>14, <2>15, <2>16, <2>17, <2>18, <2>19, <2>20, <2>21 DEF Step
<1> QED BY <1>1, <1>2 DEF Next

\* At every moment each variable has its type: among others, the PID file is
\* empty or holds a PID, and a lock has at most one holder.
THEOREM TypeCorrect == Spec => []TypeOK
<1>1. Init => TypeOK
      BY BoundsAssumption DEF Init, TypeOK, States
<1>2. TypeOK /\ [Next]_vars => TypeOK'
      BY TypeStep
<1> QED BY <1>1, <1>2, PTL DEF Spec

-----------------------------------------------------------------------------
\* Every step preserves the invariant.  An action of p changes the state of p
\* only, become_child apart; what could disturb another process are the lock,
\* which only its holder gives up, and the PID file and its content, which only
\* the holder of the lock of the PID file changes.
LEMMA InvStep == Inv /\ [Next]_vars => Inv'
<1> SUFFICES ASSUME Inv, [Next]_vars PROVE Inv'
    OBVIOUS
<1>t. TypeOK /\ TypeOK'
      BY TypeStep DEF Inv
<1> DEFINE Rest == LocksHeld /\ HoldersLock /\ OwnersPath /\ Descriptors /\ Handles /\ Written
<1> SUFFICES Rest'
    BY <1>t DEF Inv
<1> USE ProcsAssumption, InodesAssumption
<1> USE DEF Inv, LocksHeld, HoldersLock, OwnersPath, Descriptors, Handles, Written,
           Holds, Owns, Serving
<1>1. CASE UNCHANGED vars
      BY <1>1 DEF vars, files
<1>2. ASSUME NEW p \in Procs, main(p) \/ Step(p) \/ die(p) \/ signal_cb(p) \/ Crash(p)
      PROVE  Rest'
  <2>1. CASE main(p)
        BY <2>1, <1>t DEF TypeOK, main, Goto, files
  <2>2. CASE open(p)
        BY <2>2, <1>t DEF TypeOK, open, Goto, KeepImage, counters
  <2>3. CASE open_Fails(p)
        BY <2>3, <1>t DEF TypeOK, open_Fails, Gone, CloseFd, Goto, counters
  <2>4. CASE flock(p)
        BY <2>4, <1>t DEF TypeOK, flock, CloseFd, Goto, KeepImage, counters
  <2>5. CASE stat(p)
        BY <2>5, <1>t DEF TypeOK, stat, CloseFd, Goto, KeepImage, counters
  <2>6. CASE ftruncate(p)
        BY <2>6, <1>t DEF TypeOK, ftruncate, Goto, counters
  <2>7. CASE ftruncate_Fails(p)
        BY <2>7, <1>t DEF TypeOK, ftruncate_Fails, Gone, CloseFd, Goto, Fault
  <2>8. CASE pidfile_read(p)
        BY <2>8, <1>t DEF TypeOK, pidfile_read, Gone, CloseFd, Goto, counters
  <2>9. CASE server_start(p)
        BY <2>9, <1>t DEF TypeOK, server_start, Goto, files, counters
  <2>10. CASE start_Fails(p)
        BY <2>10, <1>t DEF TypeOK, start_Fails, Goto, files, counters
  <2>11. CASE foreground(p)
        BY <2>11, <1>t DEF TypeOK, foreground, Goto, files, counters
  <2>12. CASE become_child(p)
        BY <2>12, <1>t DEF TypeOK, become_child, counters
  <2>13. CASE pidfile_write(p)
        BY <2>13, <1>t DEF TypeOK, pidfile_write, Goto, counters
  <2>14. CASE pidfile_write_Fails(p)
        BY <2>14, <1>t DEF TypeOK, pidfile_write_Fails, Goto, counters
  <2>15. CASE server_stop(p)
        BY <2>15, <1>t DEF TypeOK, server_stop, Goto, files, counters
  <2>16. CASE exit(p)
        BY <2>16, <1>t DEF TypeOK, exit, Gone, CloseFd, Goto, files, counters
  <2>17. CASE unlink(p)
        BY <2>17, <1>t DEF TypeOK, unlink, Goto, counters
  <2>18. CASE unlink_Fails(p)
        BY <2>18, <1>t DEF TypeOK, unlink_Fails, Goto, Fault, files
  <2>19. CASE close(p)
        BY <2>19, <1>t DEF TypeOK, close, Gone, CloseFd, Goto, counters
  <2>20. CASE execvp(p)
        BY <2>20, <1>t DEF TypeOK, execvp, Goto, files, counters
  <2>21. CASE execvp_Fails(p)
        BY <2>21, <1>t DEF TypeOK, execvp_Fails, Goto, files, counters
  <2>22. CASE die(p)
        BY <2>22, <1>t DEF TypeOK, die, Goto, files, counters
  <2>23. CASE signal_cb(p)
        BY <2>23, <1>t DEF TypeOK, signal_cb, Goto, files
  <2>24. CASE Crash(p)
        BY <2>24, <1>t DEF TypeOK, Crash, Gone, CloseFd, Goto, Fault
  <2> QED BY <1>2, <2>1, <2>2, <2>3, <2>4, <2>5, <2>6, <2>7, <2>8, <2>9, <2>10,
             <2>11, <2>12, <2>13, <2>14, <2>15, <2>16, <2>17, <2>18, <2>19, <2>20,
             <2>21, <2>22, <2>23, <2>24 DEF Step
<1> QED BY <1>1, <1>2 DEF Next

-----------------------------------------------------------------------------
\* Every step keeps the PID file in somebody's care, unless a fault happens.
LEMMA OrderlyStep == Inv /\ Orderly /\ [Next]_vars => Orderly'
<1> SUFFICES ASSUME Inv, Orderly, [Next]_vars, faults' = 0 PROVE (Removed /\ Cared)'
    BY DEF Orderly
<1>t. TypeOK /\ TypeOK'
      BY TypeStep DEF Inv
<1> USE ProcsAssumption, InodesAssumption, BoundsAssumption
<1> USE DEF Inv, HoldersLock, LocksHeld, OwnersPath, Descriptors, Handles, Orderly,
           Removed, Cared, Holds, Owns, Serving
<1>1. CASE UNCHANGED vars
      BY <1>1 DEF vars, files, counters
<1>2. ASSUME NEW p \in Procs, main(p) \/ Step(p) \/ die(p) \/ signal_cb(p) \/ Crash(p)
      PROVE  (Removed /\ Cared)'
  <2>1. CASE main(p)
        BY <2>1, <1>t DEF TypeOK, main, Goto, files
  <2>2. CASE open(p)
        BY <2>2, <1>t DEF TypeOK, open, Goto, KeepImage, counters
  <2>3. CASE open_Fails(p)
        BY <2>3, <1>t DEF TypeOK, open_Fails, Gone, CloseFd, Goto, counters
  <2>4. CASE flock(p)
        BY <2>4, <1>t DEF TypeOK, flock, CloseFd, Goto, KeepImage, counters
  <2>5. CASE stat(p)
        BY <2>5, <1>t DEF TypeOK, stat, CloseFd, Goto, KeepImage, counters
  <2>6. CASE ftruncate(p)
        BY <2>6, <1>t DEF TypeOK, ftruncate, Goto, counters
  <2>7. CASE ftruncate_Fails(p)
        BY <2>7, <1>t DEF TypeOK, ftruncate_Fails, Gone, CloseFd, Goto, Fault
  <2>8. CASE pidfile_read(p)
        BY <2>8, <1>t DEF TypeOK, pidfile_read, Gone, CloseFd, Goto, counters
  <2>9. CASE server_start(p)
        BY <2>9, <1>t DEF TypeOK, server_start, Goto, files, counters
  <2>10. CASE start_Fails(p)
        BY <2>10, <1>t DEF TypeOK, start_Fails, Goto, files, counters
  <2>11. CASE foreground(p)
        BY <2>11, <1>t DEF TypeOK, foreground, Goto, files, counters
  <2>12. CASE become_child(p)
        BY <2>12, <1>t DEF TypeOK, become_child, counters
  <2>13. CASE pidfile_write(p)
        BY <2>13, <1>t DEF TypeOK, pidfile_write, Goto, counters
  <2>14. CASE pidfile_write_Fails(p)
        BY <2>14, <1>t DEF TypeOK, pidfile_write_Fails, Goto, counters
  <2>15. CASE server_stop(p)
        BY <2>15, <1>t DEF TypeOK, server_stop, Goto, files, counters
  <2>16. CASE exit(p)
        BY <2>16, <1>t DEF TypeOK, exit, Gone, CloseFd, Goto, files, counters
  <2>17. CASE unlink(p)
        BY <2>17, <1>t DEF TypeOK, unlink, Goto, counters
  <2>18. CASE unlink_Fails(p)
        BY <2>18, <1>t DEF TypeOK, unlink_Fails, Goto, Fault, files
  <2>19. CASE close(p)
        BY <2>19, <1>t DEF TypeOK, close, Gone, CloseFd, Goto, counters
  <2>20. CASE execvp(p)
        BY <2>20, <1>t DEF TypeOK, execvp, Goto, files, counters
  <2>21. CASE execvp_Fails(p)
        BY <2>21, <1>t DEF TypeOK, execvp_Fails, Goto, files, counters
  <2>22. CASE die(p)
        BY <2>22, <1>t DEF TypeOK, die, Goto, files, counters
  <2>23. CASE signal_cb(p)
        BY <2>23, <1>t DEF TypeOK, signal_cb, Goto, files
  <2>24. CASE Crash(p)
        BY <2>24, <1>t DEF TypeOK, Crash, Gone, CloseFd, Goto, Fault
  <2> QED BY <1>2, <2>1, <2>2, <2>3, <2>4, <2>5, <2>6, <2>7, <2>8, <2>9, <2>10,
             <2>11, <2>12, <2>13, <2>14, <2>15, <2>16, <2>17, <2>18, <2>19, <2>20,
             <2>21, <2>22, <2>23, <2>24 DEF Step
<1> QED BY <1>1, <1>2 DEF Next

-----------------------------------------------------------------------------
\* A freed handle stays with a process that is to restart, until execvp or the
\* end of the process; pidfile_write_Fails, which changes the mode, finds the
\* handle open.
LEMMA FreedStep == Inv /\ FreedToRestart /\ [Next]_vars => FreedToRestart'
<1> SUFFICES ASSUME Inv, FreedToRestart, [Next]_vars PROVE FreedToRestart'
    OBVIOUS
<1>t. TypeOK /\ Handles
      BY DEF Inv
<1> USE <1>t DEF FreedToRestart, TypeOK
<1>1. CASE UNCHANGED vars
      BY <1>1 DEF vars
<1>2. ASSUME NEW p \in Procs, main(p) \/ Step(p) \/ die(p) \/ signal_cb(p) \/ Crash(p)
      PROVE  FreedToRestart'
  <2>1. CASE main(p)
        BY <2>1 DEF main
  <2>2. CASE open(p)
        BY <2>2 DEF open, KeepImage
  <2>3. CASE open_Fails(p)
        BY <2>3 DEF open_Fails, Gone
  <2>4. CASE flock(p)
        BY <2>4 DEF flock, KeepImage
  <2>5. CASE stat(p)
        BY <2>5 DEF stat, KeepImage
  <2>6. CASE ftruncate(p)
        BY <2>6 DEF ftruncate
  <2>7. CASE ftruncate_Fails(p)
        BY <2>7 DEF ftruncate_Fails, Gone
  <2>8. CASE pidfile_read(p)
        BY <2>8 DEF pidfile_read, Gone
  <2>9. CASE server_start(p)
        BY <2>9 DEF server_start
  <2>10. CASE start_Fails(p)
        BY <2>10 DEF start_Fails
  <2>11. CASE foreground(p)
        BY <2>11 DEF foreground
  <2>12. CASE become_child(p)
        BY <2>12 DEF become_child
  <2>13. CASE pidfile_write(p)
        BY <2>13 DEF pidfile_write
  <2>14. CASE pidfile_write_Fails(p)
        BY <2>14 DEF pidfile_write_Fails, Handles, Serving
  <2>15. CASE server_stop(p)
        BY <2>15 DEF server_stop
  <2>16. CASE exit(p)
        BY <2>16 DEF exit, Gone
  <2>17. CASE unlink(p)
        BY <2>17 DEF unlink
  <2>18. CASE unlink_Fails(p)
        BY <2>18 DEF unlink_Fails
  <2>19. CASE close(p)
        BY <2>19 DEF close, Gone
  <2>20. CASE execvp(p)
        BY <2>20 DEF execvp
  <2>21. CASE execvp_Fails(p)
        BY <2>21 DEF execvp_Fails
  <2>22. CASE die(p)
        BY <2>22 DEF die
  <2>23. CASE signal_cb(p)
        BY <2>23 DEF signal_cb
  <2>24. CASE Crash(p)
        BY <2>24 DEF Crash, Gone
  <2> QED BY <1>2, <2>1, <2>2, <2>3, <2>4, <2>5, <2>6, <2>7, <2>8, <2>9, <2>10,
             <2>11, <2>12, <2>13, <2>14, <2>15, <2>16, <2>17, <2>18, <2>19, <2>20,
             <2>21, <2>22, <2>23, <2>24 DEF Step
<1> QED BY <1>1, <1>2 DEF Next

\* Only exit uses what may have been freed, and it is at fault only for a
\* process whose execvp has failed.
LEMMA MisuseStep ==
  Inv /\ FreedToRestart /\ [Next]_vars =>
    [misuse' # misuse =>
       \E p \in Procs :
         pc[p] = "exit" /\ mode[p] = "restart" /\ pc'[p] = "off"]_vars
<1> SUFFICES ASSUME Inv, FreedToRestart, [Next]_vars, misuse' # misuse
             PROVE  \E p \in Procs : pc[p] = "exit" /\ mode[p] = "restart" /\ pc'[p] = "off"
    OBVIOUS
<1>1. PICK p \in Procs : main(p) \/ Step(p) \/ die(p) \/ signal_cb(p) \/ Crash(p)
      BY DEF Next, vars
<1>2. exit(p)
      BY <1>1 DEF Step, main, open, open_Fails, flock, stat, ftruncate, ftruncate_Fails,
         pidfile_read, server_start, start_Fails, foreground, become_child,
         pidfile_write, pidfile_write_Fails, server_stop, unlink, unlink_Fails, close,
         execvp, execvp_Fails, die, signal_cb, Crash, KeepImage
<1>3. Gone(p) /\ (pfh[p] = "freed" \/ mode[p] = "restart")
      BY <1>2 DEF exit
<1>4. mode[p] = "restart" /\ pc[p] = "exit"
      BY <1>2, <1>3 DEF FreedToRestart, exit
<1>5. pc'[p] = "off"
      BY <1>3 DEF Gone, Goto, Inv, TypeOK
<1> QED BY <1>4, <1>5

-----------------------------------------------------------------------------
\* The invariant holds at all times.
LEMMA Invariance == Spec => []Inv
<1>1. Init => Inv
  <2> SUFFICES ASSUME Init PROVE Inv
      OBVIOUS
  <2>1. TypeOK
        BY BoundsAssumption DEF Init, TypeOK, States
  <2>2. \A p \in Procs : pc[p] = "off" /\ fd[p] = NoFile
        BY DEF Init
  <2> QED BY <2>1, <2>2 DEF Init, Inv, LocksHeld, HoldersLock, OwnersPath,
             Descriptors, Handles, Written, Holds, Owns, Serving
<1>2. Inv /\ [Next]_vars => Inv'
      BY InvStep
<1> QED BY <1>1, <1>2, PTL DEF Spec

\* At most one process is between the return of pidfile_open and the removal
\* of the PID file: both would be the holder of the lock of the PID file.
THEOREM Exclusion == Spec => []MutualExclusion
<1>1. Inv => MutualExclusion
      BY DEF Inv, MutualExclusion, HoldersLock, OwnersPath, Holds, Owns
<1> QED BY <1>1, Invariance, PTL

\* While the server runs, the PID file is the one it opened, and holds its PID.
THEOREM FileNamesServer == Spec => []PidFileNamesServer
<1>1. Inv => PidFileNamesServer
      BY DEF Inv, PidFileNamesServer, OwnersPath, Written, Owns, Serving
<1> QED BY <1>1, Invariance, PTL

\* Without crashes and failing system calls, the last process that leaves
\* takes the PID file with it.
THEOREM FileRemoved == Spec => []NoFileLeftBehind
<1>1. Init => Orderly
      BY DEF Init, Orderly, Removed, Cared
<1>2. Inv /\ Orderly /\ [Next]_vars => Orderly'
      BY OrderlyStep
<1>3. Inv /\ Orderly => NoFileLeftBehind
      BY DEF NoFileLeftBehind, Orderly, Cared, Owns, Serving
<1> QED BY <1>1, <1>2, <1>3, Invariance, PTL DEF Spec

\* What has been freed is used again on one way out only, that of a process
\* whose execvp has failed.
THEOREM FreedOnlyOnce == Spec => FreedOnce
<1>1. Init => FreedToRestart
      BY DEF Init, FreedToRestart
<1>2. Inv /\ FreedToRestart /\ [Next]_vars => FreedToRestart'
      BY FreedStep
<1>3. Inv /\ FreedToRestart /\ [Next]_vars =>
        [misuse' # misuse =>
           \E p \in Procs :
             pc[p] = "exit" /\ mode[p] = "restart" /\ pc'[p] = "off"]_vars
      BY MisuseStep
<1> QED BY <1>1, <1>2, <1>3, Invariance, PTL DEF Spec, FreedOnce

=============================================================================
