------------------------ MODULE DaemonLifecycleProofs ------------------------
(***************************************************************************)
(* Proofs about DaemonLifecycle, for any finite set of process ids and any *)
(* number of kills, in which every process may die at every step.          *)
(***************************************************************************)
EXTENDS DaemonLifecycle, FiniteSetTheorems, TLAPS

Places == {"idle", "serve"} \cup StartSteps \cup StopSteps \cup ExitSteps

----------------------------------------------------------------------------
(* Types. *)

\* With an inode more than there are processes one is free for a new file.
LEMMA FreeInodeExists ==
    ASSUME TypeOK
    PROVE  \E i \in Inode : \A q \in Proc : fd[q] # i
<1> SUFFICES ASSUME \A i \in Inode : \E q \in Proc : fd[q] = i PROVE FALSE
  OBVIOUS
<1> DEFINE holder == [i \in Inode |-> CHOOSE q \in Proc : fd[q] = i]
<1>1. /\ holder \in [Inode -> Proc]
      /\ \A i \in Inode : fd[holder[i]] = i
  OBVIOUS
<1>2. IsFiniteSet(Proc) /\ Cardinality(Proc) \in Nat
  BY LifecycleAssumption, FS_CardinalityType
<1>3. IsFiniteSet(Inode) /\ Cardinality(Inode) = Cardinality(Proc) + 1
  BY <1>2, FS_Interval DEF Inode
<1>4. Cardinality(Proc) < Cardinality(Inode)
  BY <1>2, <1>3
<1> HIDE DEF holder
<1>5. \E i, j \in Inode : i # j /\ holder[i] = holder[j]
  BY <1>1, <1>2, <1>3, <1>4, FS_PigeonHole
<1>6. QED
  BY <1>1, <1>5

LEMMA FreeInodeIsFree ==
    ASSUME TypeOK, pidName = None
    PROVE  FreeInode \in Inode /\ \A q \in Proc : fd[q] # FreeInode
<1>1. None \notin Inode
  BY LifecycleAssumption DEF Inode
<1>2. QED
  BY <1>1, FreeInodeExists DEF FreeInode

LEMMA InitTyped == Init => TypeOK
<1> SUFFICES ASSUME Init PROVE TypeOK
  OBVIOUS
<1>1. crashes \in 0 .. MaxCrashes /\ spawns \in 0 .. 2
  BY LifecycleAssumption DEF Init
<1>2. QED
  BY <1>1 DEF Init, TypeOK

LEMMA StepTyped == TypeOK /\ [Next]_vars => TypeOK'
<1> SUFFICES ASSUME TypeOK, [Next]_vars PROVE TypeOK'
  OBVIOUS
<1> USE LifecycleAssumption DEF TypeOK, names, stopping, starting, history
<1>1. ASSUME NEW p \in Proc, RecoverStale(p) PROVE TypeOK'
  <2>1. CASE StaleConnect(p) \/ UnlinkSock(p, "unsock", "probe") \/ UnlinkPid(p)
    BY <2>1 DEF StaleConnect, UnlinkSock, UnlinkPid, Step, StartSteps
  <2>2. CASE ProbeLock(p, "probe", "probed", "unpid") \/ ProbeEnd(p, "probed", "unpid")
    BY <2>2 DEF ProbeLock, ProbeEnd, Step, StartSteps
  <2>3. CASE ProbeFails(p)
    BY <2>3 DEF ProbeFails, Step, StartSteps
  <2>4. QED
    BY <1>1, <2>1, <2>2, <2>3 DEF RecoverStale
<1>2. ASSUME NEW p \in Proc, BeginStart(p) \/ Ping(p) \/ Recheck(p) PROVE TypeOK'
  BY <1>2 DEF BeginStart, BeginCommand, Ping, Recheck, Unanswered, Step, Exit, StartSteps
<1>3. ASSUME NEW p \in Proc, RunServer(p) PROVE TypeOK'
  <2>1. CASE OpenPid(p)
    BY <2>1, FreeInodeIsFree DEF OpenPid, Step, StartSteps
  <2>2. CASE LockPid(p) \/ LockFailed(p) \/ WritePid(p)
    <3>1. CASE LockPid(p)
      BY <3>1 DEF LockPid, Step, StartSteps
    <3>2. CASE LockFailed(p)
      <4>1. /\ \E ok \in BOOLEAN : Exit(p, "lockfailed", ok)
            /\ UNCHANGED <<names, starting, crashes, residue, crossed>>
        BY <3>2 DEF LockFailed
      <4>2. excused' \in BOOLEAN
        BY <3>2 DEF LockFailed, Unanswered, Connects
      <4>3. QED
        BY <4>1, <4>2 DEF Exit, Step
    <3>3. CASE WritePid(p)
      BY <3>3 DEF WritePid, Step, StartSteps
    <3>4. QED
      BY <2>2, <3>1, <3>2, <3>3
  <2>3. CASE Bind(p) \/ BindFailed(p) \/ Listen(p) \/ Ready(p)
    BY <2>3 DEF Bind, BindFailed, Listen, Ready, Unanswered, Step, Exit, StartSteps
  <2>4. CASE \/ SetUpFails(p) \/ UnlinkSock(p, "undosock", "undolock")
             \/ UndoLock(p) \/ UndoPid(p)
    BY <2>4 DEF SetUpFails, UnlinkSock, UndoLock, UndoPid, Unbound, Step, Exit, StartSteps
  <2>5. QED
    BY <1>3, <2>1, <2>2, <2>3, <2>4 DEF RunServer
<1>4. ASSUME NEW p \in Proc, Signal(p) \/ GracefulStop(p) PROVE TypeOK'
  BY <1>4 DEF Signal, GracefulStop, CloseListen, UnlinkSock, Compare, Release, Unlock, UnlinkOwn,
     Unbound, Step, Exit, ExitSteps
<1>5. ASSUME NEW p \in Proc, BeginStop(p) \/ CmdStop(p) PROVE TypeOK'
  <2>1. CASE SendStop(p)
    <3>1. pc' \in [Proc -> Places]
      BY <2>1 DEF SendStop, Answers, Step, Places, StopSteps, ExitSteps
    <3>2. asked' \in [Proc -> Proc \cup {None}]
      BY <2>1 DEF SendStop, Answers
    <3>b. excused' \in BOOLEAN
      <4>1. excused \in BOOLEAN
        OBVIOUS
      <4>2. excused' = excused \/ excused' = TRUE \/ excused' = (excused \/ Connects)
        BY <2>1, Zenon DEF SendStop, Unanswered
      <4>3. QED
        BY <4>1, <4>2
    <3>3. UNCHANGED <<racing, fd, names, target, starting, crashes, failure, residue, crossed>>
      BY <2>1 DEF SendStop
    <3>4. QED
      BY <3>1, <3>2, <3>3, <3>b DEF Places
  <2>2. CASE ReadPid(p) \/ WaitGone(p) \/ StillRunning(p)
    BY <2>2 DEF ReadPid, WaitGone, StillRunning, Unanswered, Step, Exit, StopSteps
  <2>3. CASE \/ BeginStop(p) \/ StopConnect(p) \/ StopUnlinkPid(p)
             \/ UnlinkSock(p, "s_unsock", "s_unpid")
             \/ ProbeLock(p, "s_probe", "s_probed", "s_connect")
             \/ ProbeEnd(p, "s_probed", "s_connect")
    <3>1. CASE BeginStop(p)
      BY <3>1 DEF BeginStop, BeginCommand, Step, StopSteps
    <3>2. CASE StopConnect(p) \/ StopUnlinkPid(p)
      BY <3>2 DEF StopConnect, StopUnlinkPid, Step, Exit, StopSteps
    <3>3. CASE \/ UnlinkSock(p, "s_unsock", "s_unpid")
               \/ ProbeLock(p, "s_probe", "s_probed", "s_connect")
               \/ ProbeEnd(p, "s_probed", "s_connect")
      BY <3>3 DEF UnlinkSock, ProbeLock, ProbeEnd, Step, StopSteps
    <3>4. QED
      BY <2>3, <3>1, <3>2, <3>3
  <2>4. QED
    BY <1>5, <2>1, <2>2, <2>3 DEF CmdStop
<1>6. CASE ConnectOrStart
  <2>0. CASE BeginClient
    <3>1. spawns' \in 0 .. 2
      BY <2>0 DEF BeginClient
    <3>2. failure' \in BOOLEAN /\ excused' \in BOOLEAN
      BY <2>0 DEF BeginClient, BeginCommand, InProgress
    <3>3. QED
      BY <2>0, <3>1, <3>2 DEF BeginClient, BeginCommand
  <2>1. CASE Connected \/ Spawned \/ GiveUp
    BY <2>1 DEF Connected, Spawned, GiveUp, Unanswered, Connects
  <2>2. CASE Spawn
    <3>1. spawns' \in 0 .. 2
      BY <2>2 DEF Spawn
    <3>2. QED
      BY <2>2, <3>1 DEF Spawn, Unanswered, Connects, Step, StartSteps
  <2>3. QED
    BY <1>6, <2>0, <2>1, <2>2 DEF ConnectOrStart
<1>7. ASSUME NEW p \in Proc, Crash(p) PROVE TypeOK'
  BY <1>7 DEF Crash, Unbound
<1>8. CASE UNCHANGED vars
  BY <1>8 DEF vars
<1>9. QED
  BY <1>1, <1>2, <1>3, <1>4, <1>5, <1>6, <1>7, <1>8 DEF Next

\* The kernel's side of the names: an id is reused only when its process is
\* gone, inodes do not run out, and no lock is left to nobody.
THEOREM LifecycleTyped == Spec => []TypeOK
<1>1. QED
  BY InitTyped, StepTyped, PTL DEF Spec

----------------------------------------------------------------------------
(* The lock of the pid file, and the name of the socket, with any overlap. *)

\* Nobody shares a lock.
LockInv ==
    /\ \A p \in Proc : pc[p] \in Locks \cup {"lock"} => fd[p] # None
    /\ \A p, q \in Proc : pc[p] \in Locks /\ pc[q] \in Locks /\ fd[p] = fd[q] => p = q

Bound == {"listen", "ready", "serve", "close"}

\* A socket whose process has gone, or has closed it, is Stale.
SockBound == sock \in Proc => pc[sock] \in Bound

LEMMA KeepsLocks ==
    ASSUME LockInv,
           \A p \in Proc : /\ pc'[p] \in Locks => pc[p] \in Locks /\ fd'[p] = fd[p]
                           /\ pc'[p] = "lock" => pc[p] = "lock" /\ fd'[p] = fd[p]
    PROVE  LockInv'
  BY DEF LockInv

\* Whoever takes the lock of a file that nobody has locked has it alone.
LEMMA TakesLock ==
    ASSUME TypeOK, LockInv, NEW p \in Proc, NEW i \in Inode, ~Locked(i),
           fd'[p] = i,
           \A q \in Proc \ {p} : pc'[q] = pc[q] /\ fd'[q] = fd[q]
    PROVE  LockInv'
<1>1. i # None
  BY LifecycleAssumption DEF Inode
<1>2. QED
  BY <1>1 DEF LockInv, Locked

LEMMA StepLockInv == TypeOK /\ LockInv /\ [Next]_vars => LockInv'
<1> SUFFICES ASSUME TypeOK, LockInv, [Next]_vars PROVE LockInv'
  OBVIOUS
<1>0. DOMAIN pc = Proc /\ DOMAIN fd = Proc /\ fd \in [Proc -> Inode \cup {None}]
      /\ pidName \in Inode \cup {None}
  BY DEF TypeOK
<1> DEFINE Keeps == \A p \in Proc :
               /\ pc'[p] \in Locks => pc[p] \in Locks /\ fd'[p] = fd[p]
               /\ pc'[p] = "lock" => pc[p] = "lock" /\ fd'[p] = fd[p]
<1>1. ASSUME NEW p \in Proc,
             \/ ProbeLock(p, "probe", "probed", "unpid")
             \/ ProbeLock(p, "s_probe", "s_probed", "s_connect")
      PROVE  LockInv'
  <2>1. CASE pidName = None
    <3>1. Keeps
      BY <1>0, <1>1, <2>1 DEF ProbeLock, Step, Locks
    <3>2. QED
      BY <3>1, KeepsLocks
  <2>2. CASE pidName # None
    BY <1>0, <1>1, <2>2, TakesLock DEF ProbeLock, Step
  <2>3. QED
    BY <2>1, <2>2
<1>2. ASSUME NEW p \in Proc, LockPid(p) PROVE LockInv'
  <2>1. CASE Locked(fd[p])
    <3>1. Keeps
      BY <1>0, <1>2, <2>1 DEF LockPid, Step, Locks
    <3>2. QED
      BY <3>1, KeepsLocks
  <2>2. CASE ~Locked(fd[p])
    <3>1. fd[p] \in Inode
      BY <1>0, <1>2 DEF LockPid, LockInv, Step
    <3>2. QED
      BY <1>0, <1>2, <2>2, <3>1, TakesLock DEF LockPid, Step
  <2>3. QED
    BY <2>1, <2>2
<1>3. ASSUME NEW p \in Proc,
             \/ StaleConnect(p) \/ UnlinkSock(p, "unsock", "probe")
             \/ ProbeEnd(p, "probed", "unpid") \/ ProbeFails(p) \/ UnlinkPid(p)
      PROVE  Keeps
  BY <1>0, <1>3 DEF StaleConnect, UnlinkSock, ProbeEnd, ProbeFails, UnlinkPid, Step, Locks
<1>4. ASSUME NEW p \in Proc, BeginStart(p) \/ Ping(p) \/ Recheck(p) PROVE Keeps
  BY <1>0, <1>4 DEF BeginStart, Ping, Recheck, Step, Exit, Locks
<1>5. ASSUME NEW p \in Proc,
             \/ LockFailed(p) \/ WritePid(p) \/ Bind(p) \/ BindFailed(p) \/ Listen(p)
             \/ Ready(p)
      PROVE  Keeps
  BY <1>0, <1>5 DEF LockFailed, WritePid, Bind, BindFailed, Listen, Ready, Step, Exit,
     Locks
<1>6. ASSUME NEW p \in Proc,
             \/ SetUpFails(p) \/ UnlinkSock(p, "undosock", "undolock")
             \/ UndoLock(p) \/ UndoPid(p) \/ Signal(p) \/ GracefulStop(p)
      PROVE  Keeps
  BY <1>0, <1>6 DEF SetUpFails, UnlinkSock, UndoLock, UndoPid, Signal, GracefulStop, CloseListen,
     Compare, Release, Unlock, UnlinkOwn, Step, Exit, Locks
<1>7. ASSUME NEW p \in Proc,
             \/ BeginStop(p) \/ SendStop(p) \/ ReadPid(p) \/ WaitGone(p) \/ StillRunning(p)
             \/ ProbeEnd(p, "s_probed", "s_connect") \/ StopConnect(p)
             \/ UnlinkSock(p, "s_unsock", "s_unpid") \/ StopUnlinkPid(p)
      PROVE  Keeps
  <2>1. CASE BeginStop(p) \/ SendStop(p)
    BY <1>0, <2>1 DEF BeginStop, SendStop, Answers, Step, Locks
  <2>2. CASE StillRunning(p) \/ ProbeEnd(p, "s_probed", "s_connect") \/ StopConnect(p)
    BY <1>0, <2>2 DEF StillRunning, ProbeEnd, StopConnect, Step, Exit, Locks
  <2>3. CASE UnlinkSock(p, "s_unsock", "s_unpid") \/ StopUnlinkPid(p)
    BY <1>0, <2>3 DEF UnlinkSock, StopUnlinkPid, Step, Exit, Locks
  <2>4. CASE ReadPid(p)
    BY <1>0, <2>4 DEF ReadPid, Step, Locks
  <2>5. CASE WaitGone(p)
    BY <1>0, <2>5 DEF WaitGone, Step, Exit, Locks
  <2>6. QED
    BY <1>7, <2>1, <2>2, <2>3, <2>4, <2>5
<1>8. CASE ConnectOrStart
  BY <1>0, <1>8, KeepsLocks DEF ConnectOrStart, BeginClient, Connected, Spawn, Spawned, GiveUp,
     Step, Locks
<1>9. ASSUME NEW p \in Proc, Crash(p) PROVE Keeps
  BY <1>0, <1>9 DEF Crash, Locks
<1>10. CASE UNCHANGED vars
  BY <1>10, KeepsLocks DEF vars
<1>11. ASSUME NEW p \in Proc, OpenPid(p) PROVE LockInv'
  <2>1. PICK i \in Inode : fd' = [fd EXCEPT ![p] = i]
    BY <1>0, <1>11, FreeInodeIsFree DEF OpenPid
  <2>2. i # None
    BY LifecycleAssumption DEF Inode
  <2>3. QED
    BY <1>0, <1>11, <2>1, <2>2 DEF OpenPid, Step, LockInv, Locks
<1> HIDE DEF Keeps
<1>12. Keeps => LockInv'
  BY KeepsLocks DEF Keeps
<1>13. QED
  BY <1>1, <1>2, <1>3, <1>4, <1>5, <1>6, <1>7, <1>8, <1>9, <1>10, <1>11, <1>12
     DEF Next, RecoverStale, RunServer, CmdStop

LEMMA StepSockBound == TypeOK /\ SockBound /\ [Next]_vars => SockBound'
<1> SUFFICES ASSUME TypeOK, SockBound, [Next]_vars PROVE SockBound'
  OBVIOUS
<1> USE LifecycleAssumption DEF SockBound, Bound
<1>0. DOMAIN pc = Proc
  BY DEF TypeOK
<1>1. ASSUME NEW p \in Proc, RecoverStale(p) PROVE SockBound'
  BY <1>0, <1>1 DEF RecoverStale, StaleConnect, UnlinkSock, ProbeLock, ProbeEnd, ProbeFails,
     UnlinkPid, Step, names
<1>2. ASSUME NEW p \in Proc, BeginStart(p) \/ Ping(p) \/ Recheck(p) PROVE SockBound'
  BY <1>0, <1>2 DEF BeginStart, Ping, Recheck, Step, Exit, names
<1>3. ASSUME NEW p \in Proc,
             \/ OpenPid(p) \/ LockPid(p) \/ LockFailed(p) \/ WritePid(p)
             \/ Bind(p) \/ BindFailed(p) \/ Listen(p) \/ Ready(p)
      PROVE  SockBound'
  BY <1>0, <1>3 DEF OpenPid, LockPid, LockFailed, WritePid, Bind, BindFailed, Listen, Ready,
     Step, Exit, names
<1>4. ASSUME NEW p \in Proc,
             \/ SetUpFails(p) \/ UnlinkSock(p, "undosock", "undolock")
             \/ UndoLock(p) \/ UndoPid(p) \/ Signal(p) \/ GracefulStop(p)
      PROVE  SockBound'
  BY <1>0, <1>4 DEF SetUpFails, UnlinkSock, UndoLock, UndoPid, Signal, GracefulStop, CloseListen,
     Compare, Release, Unlock, UnlinkOwn, Unbound, Step, Exit, names
<1>5. ASSUME NEW p \in Proc, BeginStop(p) \/ CmdStop(p) PROVE SockBound'
  BY <1>0, <1>5 DEF BeginStop, CmdStop, SendStop, Answers, ReadPid, WaitGone, StillRunning,
     ProbeLock, ProbeEnd, StopConnect, UnlinkSock, StopUnlinkPid, Step, Exit, names
<1>6. CASE ConnectOrStart
  BY <1>0, <1>6 DEF ConnectOrStart, BeginClient, Connected, Spawn, Spawned, GiveUp, Step, names
<1>7. ASSUME NEW p \in Proc, Crash(p) PROVE SockBound'
  BY <1>0, <1>7 DEF Crash, Unbound
<1>8. CASE UNCHANGED vars
  BY <1>8 DEF vars, names
<1>9. QED
  BY <1>1, <1>2, <1>3, <1>4, <1>5, <1>6, <1>7, <1>8 DEF Next, RunServer


\* A daemon that leaves the pid file alone has another file open, and a
\* process that is gone has asked nobody.
Ends ==
    /\ \A p \in Proc : pc[p] = "release" => fd[p] # pidName
    /\ \A p \in Proc : pc[p] = "idle" => asked[p] = None

LEMMA StepEnds == TypeOK /\ LockInv /\ Ends /\ [Next]_vars => Ends'
<1> SUFFICES ASSUME TypeOK, LockInv, Ends, [Next]_vars PROVE Ends'
  OBVIOUS
<1>0. /\ DOMAIN pc = Proc /\ DOMAIN fd = Proc /\ DOMAIN asked = Proc
      /\ \A p \in Proc : pc[p] = "release" => fd[p] # None
  BY DEF TypeOK, LockInv, Locks
<1> USE DEF Ends, names, stopping
<1>1. ASSUME NEW p \in Proc, BeginStart(p) \/ Ping(p) \/ Recheck(p) \/ RecoverStale(p)
      PROVE  Ends'
  BY <1>0, <1>1 DEF BeginStart, Ping, Recheck, RecoverStale, StaleConnect, UnlinkSock, ProbeLock,
     ProbeEnd, ProbeFails, UnlinkPid, Step, Exit
<1>2. ASSUME NEW p \in Proc, OpenPid(p) PROVE Ends'
  <2>1. pidName' = pidName \/ \A q \in Proc : fd[q] # pidName'
    BY <1>2, FreeInodeIsFree DEF OpenPid
  <2>2. QED
    BY <1>0, <1>2, <2>1 DEF OpenPid, Step
<1>3. ASSUME NEW p \in Proc,
             \/ LockPid(p) \/ LockFailed(p) \/ WritePid(p) \/ Bind(p) \/ BindFailed(p)
             \/ Listen(p) \/ Ready(p)
      PROVE  Ends'
  BY <1>0, <1>3 DEF LockPid, LockFailed, WritePid, Bind, BindFailed, Listen, Ready, Step, Exit
<1>4. ASSUME NEW p \in Proc,
             \/ SetUpFails(p) \/ UnlinkSock(p, "undosock", "undolock")
             \/ UndoLock(p) \/ UndoPid(p) \/ Signal(p) \/ GracefulStop(p)
      PROVE  Ends'
  BY <1>0, <1>4 DEF SetUpFails, UnlinkSock, UndoLock, UndoPid, Signal, GracefulStop, CloseListen,
     Compare, Release, Unlock, UnlinkOwn, Step, Exit
<1>5. ASSUME NEW p \in Proc, BeginStop(p) \/ CmdStop(p) PROVE Ends'
  BY <1>0, <1>5 DEF BeginStop, CmdStop, SendStop, Answers, ReadPid, WaitGone, StillRunning,
     ProbeLock, ProbeEnd, StopConnect, UnlinkSock, StopUnlinkPid, Step, Exit
<1>6. CASE ConnectOrStart
  BY <1>0, <1>6 DEF ConnectOrStart, BeginClient, Connected, Spawn, Spawned, GiveUp, Step
<1>7. ASSUME NEW p \in Proc, Crash(p) PROVE Ends'
  BY <1>0, <1>7 DEF Crash
<1>8. CASE UNCHANGED vars
  BY <1>8 DEF vars
<1>9. QED
  BY <1>1, <1>2, <1>3, <1>4, <1>5, <1>6, <1>7, <1>8 DEF Next, RunServer

----------------------------------------------------------------------------
(* Commands one at a time. *)

Commanding == StartSteps \cup StopSteps

\* There is one command, and a download process waits for the start that it
\* made itself.
One ==
    /\ \A p, q \in Proc : pc[p] \in Commanding /\ pc[q] \in Commanding => p = q
    /\ client = "look" => \A p \in Proc : pc[p] \notin Commanding
    /\ client = "wait" =>
           \A p \in Proc : pc[p] \in Commanding => p = child /\ pc[p] \in StartSteps

LEMMA RacingStays == [Next]_vars => racing' = racing
<1> SUFFICES ASSUME [Next]_vars PROVE racing' = racing
  OBVIOUS
<1>1. ASSUME NEW p \in Proc,
             BeginStart(p) \/ Ping(p) \/ RecoverStale(p) \/ Recheck(p)
      PROVE  racing' = racing
  BY <1>1 DEF BeginStart, Ping, Recheck, RecoverStale, StaleConnect, UnlinkSock, ProbeLock,
     ProbeEnd, ProbeFails, UnlinkPid, Step, Exit
<1>2. ASSUME NEW p \in Proc, RunServer(p) PROVE racing' = racing
  BY <1>2 DEF RunServer, OpenPid, LockPid, LockFailed, WritePid, Bind, BindFailed, Listen, Ready,
     SetUpFails, UnlinkSock, UndoLock, UndoPid, Step, Exit
<1>3. ASSUME NEW p \in Proc, Signal(p) \/ GracefulStop(p) PROVE racing' = racing
  BY <1>3 DEF Signal, GracefulStop, CloseListen, UnlinkSock, Compare, Release, Unlock, UnlinkOwn,
     Step, Exit
<1>4. ASSUME NEW p \in Proc, BeginStop(p) \/ CmdStop(p) \/ Crash(p) PROVE racing' = racing
  BY <1>4 DEF BeginStop, CmdStop, SendStop, ReadPid, WaitGone, StillRunning, ProbeLock, ProbeEnd,
     StopConnect, UnlinkSock, StopUnlinkPid, Crash, Step, Exit
<1>5. CASE ConnectOrStart
  BY <1>5 DEF ConnectOrStart, BeginClient, Connected, Spawn, Spawned, GiveUp, Step
<1>6. QED
  BY <1>1, <1>2, <1>3, <1>4, <1>5 DEF Next, vars

\* A step inside a command or a daemon's end.
LEMMA KeepsOne ==
    ASSUME One, client' = client, child' = child,
           \A p \in Proc : pc'[p] \in Commanding =>
               pc[p] \in Commanding /\ (pc[p] \in StartSteps => pc'[p] \in StartSteps)
    PROVE  One'
  BY DEF One

LEMMA StepOne ==
    ASSUME TypeOK, ~racing, One, [Next]_vars PROVE One'
<1>0. DOMAIN pc = Proc
  BY DEF TypeOK
<1> DEFINE Keeps ==
        /\ client' = client /\ child' = child
        /\ \A p \in Proc : pc'[p] \in Commanding =>
               pc[p] \in Commanding /\ (pc[p] \in StartSteps => pc'[p] \in StartSteps)
<1> USE DEF Commanding, StartSteps, StopSteps, starting
<1>1. ASSUME NEW p \in Proc, BeginStart(p) \/ BeginStop(p) PROVE One'
  <2>1. client = "idle" /\ \A q \in Proc : pc[q] \notin Commanding
    BY <1>1 DEF BeginStart, BeginStop, BeginCommand, InProgress
  <2>2. client' = "idle" /\ \A q \in Proc \ {p} : pc'[q] = pc[q]
    BY <1>0, <1>1, <2>1 DEF BeginStart, BeginStop, Step
  <2>3. QED
    BY <2>1, <2>2 DEF One
<1>2. ASSUME NEW p \in Proc, Ping(p) \/ RecoverStale(p) \/ Recheck(p) PROVE Keeps
  BY <1>0, <1>2 DEF Ping, Recheck, RecoverStale, StaleConnect, UnlinkSock, ProbeLock, ProbeEnd,
     ProbeFails, UnlinkPid, Step, Exit
<1>3. ASSUME NEW p \in Proc,
             \/ OpenPid(p) \/ LockPid(p) \/ LockFailed(p) \/ WritePid(p)
             \/ Bind(p) \/ BindFailed(p) \/ Listen(p) \/ Ready(p)
      PROVE  Keeps
  BY <1>0, <1>3 DEF OpenPid, LockPid, LockFailed, WritePid, Bind, BindFailed, Listen, Ready,
     Step, Exit
<1>4. ASSUME NEW p \in Proc,
             \/ SetUpFails(p) \/ UnlinkSock(p, "undosock", "undolock")
             \/ UndoLock(p) \/ UndoPid(p) \/ Signal(p) \/ GracefulStop(p)
      PROVE  Keeps
  BY <1>0, <1>4 DEF SetUpFails, UnlinkSock, UndoLock, UndoPid, Signal, GracefulStop, CloseListen,
     Compare, Release, Unlock, UnlinkOwn, Step, Exit
<1>5. ASSUME NEW p \in Proc, CmdStop(p) \/ Crash(p) PROVE Keeps
  BY <1>0, <1>5 DEF CmdStop, SendStop, Answers, ReadPid, WaitGone, StillRunning, ProbeLock,
     ProbeEnd, StopConnect, UnlinkSock, StopUnlinkPid, Crash, Step, Exit
<1>6. CASE ConnectOrStart
  <2>1. CASE BeginClient
    BY <2>1 DEF BeginClient, BeginCommand, InProgress, One
  <2>2. CASE Connected \/ GiveUp
    BY <2>2 DEF Connected, GiveUp, One
  <2>3. CASE Spawn
    BY <1>0, <2>3 DEF Spawn, Step, One
  <2>4. CASE Spawned
    BY <2>4 DEF Spawned, One
  <2>5. QED
    BY <1>6, <2>1, <2>2, <2>3, <2>4 DEF ConnectOrStart
<1>7. CASE UNCHANGED vars
  BY <1>7, KeepsOne DEF vars
<1> HIDE DEF Keeps, Commanding, StartSteps, StopSteps
<1>8. Keeps => One'
  BY KeepsOne DEF Keeps
<1>9. QED
  BY <1>1, <1>2, <1>3, <1>4, <1>5, <1>6, <1>7, <1>8 DEF Next, RunServer


\* A start that opens the pid file has found no daemon to connect to, and none
\* can have come since; nobody has put another file, or another socket, in the
\* place of its own.
Quiet == \A p \in Proc :
    /\ pc[p] \in {"open", "lock", "write", "bind", "bindfailed"} => ~Connects
    /\ pc[p] \in {"lock", "write", "bind", "listen", "ready"} => pidName \in {None, fd[p]}
    /\ pc[p] \in {"listen", "ready"} => sock \in {None, p}

LEMMA StepQuiet ==
    ASSUME TypeOK, ~racing, One, Quiet, [Next]_vars PROVE Quiet'
<1>0. DOMAIN pc = Proc /\ DOMAIN fd = Proc /\ None \notin Proc /\ Stale \notin Proc
  BY LifecycleAssumption DEF TypeOK
<1>c. \A p, q \in Proc : pc[p] \in Commanding /\ pc[q] \in Commanding => p = q
  BY DEF One
<1> USE DEF Quiet, Connects, Listening, names
<1>1. ASSUME NEW p \in Proc, BeginStart(p) \/ Ping(p) \/ Recheck(p) \/ RecoverStale(p)
      PROVE  Quiet'
  <2>1. CASE BeginStart(p) \/ Ping(p) \/ Recheck(p)
    BY <1>0, <2>1 DEF BeginStart, Ping, Recheck, Step, Exit
  <2>2. CASE RecoverStale(p)
    <3>1. CASE StaleConnect(p) \/ UnlinkSock(p, "unsock", "probe") \/ UnlinkPid(p)
      BY <1>0, <3>1 DEF StaleConnect, UnlinkSock, UnlinkPid, Step
    <3>2. QED
      BY <1>0, <2>2, <3>1 DEF RecoverStale, ProbeLock, ProbeEnd, ProbeFails, Step, Exit
  <2>3. QED
    BY <1>1, <2>1, <2>2
<1>2. ASSUME NEW p \in Proc,
             \/ OpenPid(p) \/ LockPid(p) \/ LockFailed(p) \/ WritePid(p) \/ BindFailed(p)
      PROVE  Quiet'
  BY <1>0, <1>c, <1>2 DEF OpenPid, LockPid, LockFailed, WritePid, BindFailed, Step, Exit,
     Commanding, StartSteps
<1>3. ASSUME NEW p \in Proc, Bind(p) \/ Listen(p) \/ Ready(p) PROVE Quiet'
  BY <1>0, <1>c, <1>3 DEF Bind, Listen, Ready, Step, Commanding, StartSteps
<1>4. ASSUME NEW p \in Proc,
             \/ SetUpFails(p) \/ UnlinkSock(p, "undosock", "undolock")
             \/ UndoLock(p) \/ UndoPid(p) \/ Signal(p) \/ GracefulStop(p)
      PROVE  Quiet'
  <2>1. CASE SetUpFails(p) \/ UnlinkSock(p, "undosock", "undolock")
    BY <1>0, <2>1 DEF SetUpFails, UnlinkSock, Unbound, Step
  <2>2. CASE UndoLock(p) \/ UndoPid(p) \/ Signal(p)
    BY <1>0, <2>2 DEF UndoLock, UndoPid, Signal, Step, Exit
  <2>3. CASE GracefulStop(p)
    BY <1>0, <2>3 DEF GracefulStop, UnlinkSock, CloseListen, Compare, Release, Unlock, UnlinkOwn,
       Unbound, Step, Exit
  <2>4. QED
    BY <1>4, <2>1, <2>2, <2>3
<1>5. ASSUME NEW p \in Proc, BeginStop(p) \/ CmdStop(p) PROVE Quiet'
  <2>1. CASE BeginStop(p) \/ SendStop(p) \/ ReadPid(p) \/ WaitGone(p) \/ StillRunning(p)
    <3>1. CASE BeginStop(p) \/ SendStop(p)
      BY <1>0, <3>1 DEF BeginStop, SendStop, Answers, Step
    <3>2. CASE ReadPid(p) \/ WaitGone(p)
      BY <1>0, <3>2 DEF ReadPid, WaitGone, Step, Exit
    <3>3. CASE StillRunning(p)
      BY <1>0, <3>3 DEF StillRunning, Step, Exit
    <3>4. QED
      BY <2>1, <3>1, <3>2, <3>3
  <2>2. CASE StopConnect(p) \/ UnlinkSock(p, "s_unsock", "s_unpid") \/ StopUnlinkPid(p)
    BY <1>0, <2>2 DEF StopConnect, UnlinkSock, StopUnlinkPid, Step, Exit
  <2>3. CASE \/ ProbeLock(p, "s_probe", "s_probed", "s_connect")
             \/ ProbeEnd(p, "s_probed", "s_connect")
    BY <1>0, <2>3 DEF ProbeLock, ProbeEnd, Step
  <2>4. QED
    BY <1>5, <2>1, <2>2, <2>3 DEF CmdStop
<1>6. CASE ConnectOrStart
  BY <1>0, <1>6 DEF ConnectOrStart, BeginClient, Connected, Spawn, Spawned, GiveUp, Step
<1>7. ASSUME NEW p \in Proc, Crash(p) PROVE Quiet'
  BY <1>0, <1>7 DEF Crash, Unbound
<1>8. CASE UNCHANGED vars
  BY <1>8 DEF vars
<1>9. QED
  BY <1>1, <1>2, <1>3, <1>4, <1>5, <1>6, <1>7, <1>8 DEF Next, RunServer

----------------------------------------------------------------------------
(* The owner of the names. *)

\* Who holds the lock of the pid file to keep it.
Owns == {"write", "bind", "bindfailed", "listen", "ready", "serve", "close", "unname",
         "compare", "unlock", "undosock", "undolock"}

\* Who has found the names to be nobody's, or has just given them up.
Cleared == {"probed", "s_probed", "unpid", "undopid", "s_connect", "s_unsock", "s_unpid"}

Owner ==
    /\ \A p \in Proc : pc[p] \in Owns \cup {"lock"} => fd[p] = pidName
    /\ \A p \in Proc : pc[p] \in Owns \ {"write"} => content[fd[p]] = p
    /\ \A p \in Proc : pc[p] \in Bound => sock = p
    /\ \A p, q \in Proc :
           pc[p] = "unlinkown" /\ pc[q] \in Owns \cup {"lock", "unlinkown"} => p = q
    /\ \A p \in Proc : pc[p] = "unlinkown" /\ pidName # None => content[pidName] = p
    /\ \A p, q \in Proc :
           pc[p] \in StartSteps \ {"ping", "connect", "recheck"} => pc[q] \notin {"serve", "close"}
    /\ \A p, q \in Proc : pc[p] \in Cleared => pc[q] \notin Owns
    /\ \A p \in Proc : pc[p] # "release"

\* The daemon that answered a stop keeps its pid in the file until it is gone.
Asked == \A s \in Proc :
    /\ asked[s] # None =>
           /\ pc[s] \in {"s_pid", "s_wait", "s_unsock", "s_unpid"}
           /\ pc[asked[s]] \in (ExitSteps \ {"release"}) \cup {"idle"}
    /\ pc[s] \in {"s_pid", "s_wait"} =>
           asked[s] # None /\ \A q \in Proc : pc[q] \in Owns => q = asked[s]
    /\ pc[s] = "s_pid" /\ pc[asked[s]] # "idle" => pidName # None /\ content[pidName] = asked[s]
    /\ pc[s] = "s_wait" /\ pc[asked[s]] # "idle" => target[s] = asked[s]
    /\ pc[s] \in {"s_unsock", "s_unpid"} /\ asked[s] # None => pc[asked[s]] = "idle"

\* The lock makes the owner unique.
LEMMA OneOwner ==
    ASSUME LockInv, Owner, NEW p \in Proc, NEW q \in Proc, pc[p] \in Owns, pc[q] \in Owns
    PROVE  p = q
<1>1. pc[p] \in Locks /\ pc[q] \in Locks
  BY DEF Owns, Locks
<1>2. QED
  BY <1>1 DEF LockInv, Owner

LEMMA StepOwner ==
    ASSUME TypeOK, ~racing, ~crossed', LockInv, One, Owner, Asked, [Next]_vars PROVE Owner'
<1>0. DOMAIN pc = Proc /\ DOMAIN fd = Proc
  BY DEF TypeOK
<1>a. \A p, q \in Proc : pc[p] \in Owns /\ pc[q] \in Owns => p = q
  BY OneOwner
<1>b. \A p \in Proc : pc[p] \in Locks \cup {"lock"} => fd[p] # None
  BY DEF LockInv
<1>c. \A p, q \in Proc : pc[p] \in Commanding /\ pc[q] \in Commanding => p = q
  BY DEF One
<1> USE DEF names, Owner, Owns, Cleared, Bound, StartSteps
<1>1. ASSUME NEW p \in Proc, BeginStart(p) \/ BeginStop(p) \/ Ping(p) PROVE Owner'
  <2>1. CASE BeginStart(p)
    BY <1>0, <2>1 DEF BeginStart, Step
  <2>2. CASE BeginStop(p)
    BY <1>0, <2>2 DEF BeginStop, Step
  <2>3. CASE Ping(p)
    BY <1>0, <2>3 DEF Ping, Step, Exit
  <2>4. QED
    BY <1>1, <2>1, <2>2, <2>3
<1>2. ASSUME NEW p \in Proc, StaleConnect(p) \/ Recheck(p) PROVE Owner'
  BY <1>0, <1>2 DEF StaleConnect, Recheck, Connects, Listening, Step, Exit
<1>3. ASSUME NEW p \in Proc, ProbeEnd(p, "probed", "unpid") \/ ProbeFails(p) PROVE Owner'
  BY <1>0, <1>3 DEF ProbeEnd, ProbeFails, Step
<1>4. ASSUME NEW p \in Proc, UnlinkSock(p, "unsock", "probe") PROVE Owner'
  BY <1>0, <1>4, <1>c DEF UnlinkSock, Step, Commanding
<1>5. ASSUME NEW p \in Proc, ProbeLock(p, "probe", "probed", "unpid") PROVE Owner'
  BY <1>0, <1>5, <1>b DEF ProbeLock, Locked, Locks, Step
<1>6. ASSUME NEW p \in Proc, UnlinkPid(p) PROVE Owner'
  BY <1>0, <1>6, <1>c DEF UnlinkPid, Step, Commanding

<1>7. ASSUME NEW p \in Proc, OpenPid(p) PROVE Owner'
  <2>0. \A q \in Proc : pc[q] # "unlinkown"
    BY <1>7 DEF OpenPid
  <2>1. CASE pidName = None
    <3>1. FreeInode \in Inode /\ FreeInode # None /\ \A q \in Proc : fd[q] # FreeInode
      BY <2>1, FreeInodeIsFree, LifecycleAssumption DEF Inode
    <3>2. \A q \in Proc : pc[q] \notin Owns \cup {"lock"}
      BY <1>b, <2>1 DEF Locks
    <3>3. QED
      BY <1>0, <1>7, <2>0, <2>1, <3>1, <3>2 DEF OpenPid, Step
  <2>2. CASE pidName # None
    BY <1>0, <1>7, <2>0, <2>2 DEF OpenPid, Step
  <2>3. QED
    BY <2>1, <2>2
<1>8. ASSUME NEW p \in Proc, LockPid(p) PROVE Owner'
  <2>1. CASE Locked(fd[p])
    BY <1>0, <1>8, <2>1 DEF LockPid, Step
  <2>2. CASE ~Locked(fd[p])
    <3>1. \A q \in Proc : pc[q] \notin Owns
      BY <1>8, <2>2 DEF LockPid, Step, Locked, Locks
    <3>2. fd[p] \in Inode
      BY <1>8, <1>b DEF LockPid, Step, TypeOK
    <3>3. QED
      BY <1>0, <1>8, <1>c, <2>2, <3>1, <3>2 DEF LockPid, Step, Commanding, StopSteps, TypeOK
  <2>3. QED
    BY <2>1, <2>2
<1>9. ASSUME NEW p \in Proc, WritePid(p) PROVE Owner'
  <2>1. fd[p] \in Inode
    BY <1>9, <1>b DEF WritePid, Step, Locks, TypeOK
  <2>2. QED
    BY <1>0, <1>9, <1>a, <2>1 DEF WritePid, Step, TypeOK
<1>10. ASSUME NEW p \in Proc, Bind(p) PROVE Owner'
  BY <1>0, <1>10, <1>a DEF Bind, Step
<1>11. ASSUME NEW p \in Proc, LockFailed(p) \/ BindFailed(p) PROVE Owner'
  BY <1>0, <1>11 DEF LockFailed, BindFailed, Step, Exit
<1>12. ASSUME NEW p \in Proc, Listen(p) \/ Ready(p) PROVE Owner'
  BY <1>0, <1>12, <1>c DEF Listen, Ready, Step, Commanding
<1>13. ASSUME NEW p \in Proc, SetUpFails(p) PROVE Owner'
  BY <1>0, <1>13, <1>a DEF SetUpFails, Unbound, Step
<1>14. ASSUME NEW p \in Proc, UnlinkSock(p, "undosock", "undolock") PROVE Owner'
  BY <1>0, <1>14, <1>a DEF UnlinkSock, Step
<1>15. ASSUME NEW p \in Proc, UndoLock(p) PROVE Owner'
  BY <1>0, <1>15, <1>a DEF UndoLock, Step
<1>16. ASSUME NEW p \in Proc, UndoPid(p) PROVE Owner'
  BY <1>0, <1>16, <1>c DEF UndoPid, Step, Exit, Commanding
<1>17. ASSUME NEW p \in Proc, Signal(p) \/ CloseListen(p) PROVE Owner'
  BY <1>0, <1>17, <1>a DEF Signal, CloseListen, Unbound, Step
<1>18. ASSUME NEW p \in Proc, UnlinkSock(p, "unname", "compare") PROVE Owner'
  BY <1>0, <1>18, <1>a DEF UnlinkSock, Step
<1>19. ASSUME NEW p \in Proc, Compare(p) \/ Release(p) PROVE Owner'
  BY <1>0, <1>19 DEF Compare, Release, Step, Exit
<1>20. ASSUME NEW p \in Proc, Unlock(p) PROVE Owner'
  <2>1. \A q \in Proc : pc[q] # "lock"
    BY <1>20 DEF Unlock
  <2>2. QED
    BY <1>0, <1>20, <1>a, <2>1 DEF Unlock, Step
<1>21. ASSUME NEW p \in Proc, UnlinkOwn(p) PROVE Owner'
  BY <1>0, <1>21 DEF UnlinkOwn, Step, Exit
<1>22. ASSUME NEW p \in Proc, SendStop(p) PROVE Owner'
  BY <1>0, <1>22, <1>a DEF SendStop, Answers, Step
<1>23. ASSUME NEW p \in Proc, ReadPid(p) \/ StillRunning(p) \/ StopConnect(p) PROVE Owner'
  BY <1>0, <1>23 DEF ReadPid, StillRunning, StopConnect, Step, Exit
<1>24. ASSUME NEW p \in Proc, WaitGone(p) PROVE Owner'
  BY <1>0, <1>24 DEF WaitGone, Asked, Step, Exit
<1>25. ASSUME NEW p \in Proc, ProbeLock(p, "s_probe", "s_probed", "s_connect") PROVE Owner'
  BY <1>0, <1>25, <1>b DEF ProbeLock, Locked, Locks, Step
<1>26. ASSUME NEW p \in Proc, ProbeEnd(p, "s_probed", "s_connect") PROVE Owner'
  BY <1>0, <1>26 DEF ProbeEnd, Step
<1>27. ASSUME NEW p \in Proc,
             UnlinkSock(p, "s_unsock", "s_unpid") \/ StopUnlinkPid(p)
      PROVE  Owner'
  BY <1>0, <1>27, <1>c DEF UnlinkSock, StopUnlinkPid, Step, Exit, Commanding, StopSteps
<1>28. CASE ConnectOrStart
  <2>1. CASE Spawn
    BY <1>0, <2>1 DEF Spawn, Step
  <2>2. CASE BeginClient \/ Connected \/ Spawned \/ GiveUp
    BY <2>2 DEF BeginClient, Connected, Spawned, GiveUp
  <2>3. QED
    BY <1>28, <2>1, <2>2 DEF ConnectOrStart
<1>29. ASSUME NEW p \in Proc, Crash(p) PROVE Owner'
  BY <1>0, <1>29 DEF Crash, Unbound
<1>30. CASE UNCHANGED vars
  BY <1>30 DEF vars
<1>31. QED
  BY <1>1, <1>2, <1>3, <1>4, <1>5, <1>6, <1>7, <1>8, <1>9, <1>10, <1>11, <1>12, <1>13, <1>14,
     <1>15, <1>16, <1>17, <1>18, <1>19, <1>20, <1>21, <1>22, <1>23, <1>24, <1>25, <1>26, <1>27,
     <1>28, <1>29, <1>30
     DEF Next, RecoverStale, RunServer, GracefulStop, CmdStop

LEMMA StepAsked ==
    ASSUME TypeOK, ~racing, LockInv, One, Owner, Asked, [Next]_vars PROVE Asked'
<1>0. DOMAIN pc = Proc /\ DOMAIN fd = Proc /\ DOMAIN target = Proc /\ DOMAIN asked = Proc
      /\ None \notin Proc /\ \A s \in Proc : asked[s] \in Proc \cup {None}
  BY LifecycleAssumption DEF TypeOK
<1>a. \A p, q \in Proc : pc[p] \in Owns /\ pc[q] \in Owns => p = q
  BY OneOwner
<1>c. \A p, q \in Proc : pc[p] \in Commanding /\ pc[q] \in Commanding => p = q
  BY DEF One
<1> USE DEF names, stopping, Asked, Owns, StopSteps, ExitSteps
<1>1. ASSUME NEW p \in Proc, BeginStart(p) \/ BeginStop(p) PROVE Asked'
  <2>1. \A q \in Proc : pc[q] \notin StopSteps
    BY <1>1 DEF BeginStart, BeginStop, BeginCommand, InProgress
  <2>2. CASE BeginStart(p)
    BY <1>0, <2>1, <2>2 DEF BeginStart, Step
  <2>3. CASE BeginStop(p)
    BY <1>0, <2>1, <2>3 DEF BeginStop, Step
  <2>4. QED
    BY <1>1, <2>2, <2>3
<1>2. ASSUME NEW p \in Proc, Ping(p) \/ RecoverStale(p) \/ Recheck(p) \/ RunServer(p)
      PROVE  Asked'
  <2>1. pc[p] \in StartSteps
    BY <1>2 DEF Ping, RecoverStale, Recheck, RunServer, StaleConnect, UnlinkSock, ProbeLock,
       ProbeEnd, ProbeFails, UnlinkPid, OpenPid, LockPid, LockFailed, WritePid, Bind, BindFailed,
       Listen, Ready, SetUpFails, UndoLock, UndoPid, Step, Exit, StartSteps
  <2>2. \A s \in Proc : pc[s] \notin StopSteps /\ asked[s] = None
    BY <1>c, <2>1 DEF StartSteps, Commanding
  <2>3. \A q \in Proc : pc'[q] \notin StopSteps
    BY <1>0, <1>2, <2>2 DEF Ping, RecoverStale, Recheck, RunServer, StaleConnect, UnlinkSock,
       ProbeLock, ProbeEnd, ProbeFails, UnlinkPid, OpenPid, LockPid, LockFailed, WritePid, Bind,
       BindFailed, Listen, Ready, SetUpFails, UndoLock, UndoPid, Step, Exit
  <2>4. \A s \in Proc : asked'[s] = None
    BY <1>0, <1>2, <2>2 DEF Ping, RecoverStale, Recheck, RunServer, StaleConnect, UnlinkSock,
       ProbeLock, ProbeEnd, ProbeFails, UnlinkPid, OpenPid, LockPid, LockFailed, WritePid, Bind,
       BindFailed, Listen, Ready, SetUpFails, UndoLock, UndoPid, Step, Exit
  <2>5. QED
    BY <2>3, <2>4
<1>3. ASSUME NEW p \in Proc, Signal(p) \/ CloseListen(p) \/ UnlinkSock(p, "unname", "compare")
      PROVE  Asked'
  BY <1>0, <1>3 DEF Signal, CloseListen, UnlinkSock, Step
<1>4. ASSUME NEW p \in Proc, Compare(p) \/ Unlock(p) PROVE Asked'
  BY <1>0, <1>4 DEF Compare, Unlock, Step, Owner
<1>5. ASSUME NEW p \in Proc, UnlinkOwn(p) \/ Release(p) PROVE Asked'
  BY <1>0, <1>5 DEF UnlinkOwn, Release, Step, Exit, Owner
<1>6. ASSUME NEW p \in Proc, SendStop(p) PROVE Asked'
  <2>1. CASE UNCHANGED asked
    BY <1>0, <1>6, <2>1 DEF SendStop, Answers, Step
  <2>2. CASE /\ Answers
             /\ pc' = [pc EXCEPT ![p] = "s_pid", ![sock] = "close"]
             /\ asked' = [asked EXCEPT ![p] = sock]
    <3>1. sock \in Proc /\ sock # p /\ sock # None
      BY <1>0, <1>6, <2>2 DEF SendStop, Answers
    <3>2. pidName # None /\ content[pidName] = sock
      BY <2>2, <3>1 DEF Answers, Owner, LockInv, Locks
    <3>3. \A q \in Proc : pc'[q] \in Owns => q = sock
      BY <1>0, <1>a, <1>6, <2>2, <3>1 DEF SendStop, Answers
    <3>4. QED
      BY <1>0, <1>c, <1>6, <2>2, <3>1, <3>2, <3>3 DEF SendStop, Commanding
  <2>3. QED
    BY <1>6, <2>1, <2>2 DEF SendStop
<1>7. ASSUME NEW p \in Proc, ReadPid(p) PROVE Asked'
  BY <1>0, <1>7 DEF ReadPid, Step
<1>8. ASSUME NEW p \in Proc, WaitGone(p) PROVE Asked'
  BY <1>0, <1>8 DEF WaitGone, Step, Exit
<1>9. ASSUME NEW p \in Proc,
             \/ StillRunning(p) \/ StopConnect(p) \/ StopUnlinkPid(p)
             \/ UnlinkSock(p, "s_unsock", "s_unpid")
      PROVE  Asked'
  BY <1>0, <1>c, <1>9 DEF StillRunning, StopConnect, StopUnlinkPid, UnlinkSock, Step, Exit,
     Commanding
<1>10. ASSUME NEW p \in Proc,
             \/ ProbeLock(p, "s_probe", "s_probed", "s_connect")
             \/ ProbeEnd(p, "s_probed", "s_connect")
      PROVE  Asked'
  BY <1>0, <1>10 DEF ProbeLock, ProbeEnd, Step
<1>11. CASE ConnectOrStart
  <2>1. CASE Spawn
    <3>1. \A q \in Proc : pc[q] \notin StopSteps
      BY <2>1 DEF Spawn, One, Commanding
    <3>2. QED
      BY <1>0, <2>1, <3>1 DEF Spawn, Step
  <2>2. UNCHANGED <<pc, names, asked, target>> => Asked'
    BY DEF names
  <2>3. CASE BeginClient \/ Connected \/ Spawned \/ GiveUp
    BY <2>2, <2>3 DEF BeginClient, Connected, Spawned, GiveUp
  <2>4. QED
    BY <1>11, <2>1, <2>3 DEF ConnectOrStart
<1>12. ASSUME NEW p \in Proc, Crash(p) PROVE Asked'
  BY <1>0, <1>12 DEF Crash
<1>13. CASE UNCHANGED vars
  BY <1>13 DEF vars
<1>14. QED
  BY <1>1, <1>2, <1>3, <1>4, <1>5, <1>6, <1>7, <1>8, <1>9, <1>10, <1>11, <1>12, <1>13
     DEF Next, GracefulStop, CmdStop

\* A name that no killed process left behind has somebody who will remove it.
Left == ~residue =>
    /\ pidName # None => \E p \in Proc :
           \/ pc[p] \in Owns \cup {"lock"} /\ fd[p] = pidName
           \/ pc[p] \in {"unlinkown", "undopid"}
    /\ sock # None => \E p \in Proc : pc[p] \in Bound \cup {"unname", "undosock"}

LEMMA StepLeft ==
    ASSUME TypeOK, ~racing, LockInv, Ends, One, Quiet, Left, [Next]_vars PROVE Left'
<1>0. DOMAIN pc = Proc /\ DOMAIN fd = Proc
  BY DEF TypeOK
<1> USE DEF names, history, Left, Owns, Bound
<1>1. ASSUME NEW p \in Proc, BeginStart(p) \/ BeginStop(p) PROVE Left'
  <2>1. CASE BeginStart(p)
    BY <1>0, <2>1 DEF BeginStart, BeginCommand, Step
  <2>2. CASE BeginStop(p)
    BY <1>0, <2>2 DEF BeginStop, BeginCommand, Step
  <2>3. QED
    BY <1>1, <2>1, <2>2
<1>2. ASSUME NEW p \in Proc, Ping(p) \/ RecoverStale(p) \/ Recheck(p) PROVE Left'
  BY <1>0, <1>2 DEF Ping, RecoverStale, Recheck, StaleConnect, UnlinkSock, ProbeLock, ProbeEnd,
     ProbeFails, UnlinkPid, Step, Exit
<1>3. ASSUME NEW p \in Proc, OpenPid(p) \/ WritePid(p) \/ Bind(p) \/ Listen(p) PROVE Left'
  BY <1>0, <1>3 DEF OpenPid, WritePid, Bind, Listen, Step
<1>4. ASSUME NEW p \in Proc, LockPid(p) PROVE Left'
  <2>1. CASE Locked(fd[p])
    <3>1. PICK q \in Proc : fd[q] = fd[p] /\ pc[q] \in Locks
      BY <2>1 DEF Locked
    <3>2. pc[p] = "lock" /\ q # p
      BY <1>4, <3>1 DEF LockPid, Step, Locks
    <3>3. pc[q] \in Owns \/ (pc[q] = "release" /\ fd[q] # pidName)
      BY <3>1, <3>2 DEF One, Ends, Locks, Commanding, StartSteps, StopSteps
    <3>4. QED
      BY <1>0, <1>4, <2>1, <3>1, <3>2, <3>3 DEF LockPid, Step
  <2>2. CASE ~Locked(fd[p])
    BY <1>0, <1>4, <2>2 DEF LockPid, Step
  <2>3. QED
    BY <2>1, <2>2
<1>5. ASSUME NEW p \in Proc, LockFailed(p) \/ BindFailed(p) PROVE Left'
  <2>1. CASE LockFailed(p)
    BY <1>0, <2>1 DEF LockFailed, Step, Exit
  <2>2. CASE BindFailed(p)
    <3>1. CASE Step(p, "bindfailed", "undolock") /\ UNCHANGED fd
      BY <1>0, <2>2, <3>1 DEF BindFailed, Step
    <3>2. CASE Answers /\ Step(p, "bindfailed", "idle")
      <4>1. pc[p] = "bindfailed"
        BY <3>2 DEF Step
      <4>2. ~Answers
        BY <4>1 DEF Quiet, Answers, Connects, Listening
      <4>3. QED
        BY <3>2, <4>2
    <3>3. QED
      BY <2>2, <3>1, <3>2 DEF BindFailed, Exit
  <2>3. QED
    BY <1>5, <2>1, <2>2
<1>6. ASSUME NEW p \in Proc, Ready(p) PROVE Left'
  BY <1>0, <1>6 DEF Ready, Step, Quiet
<1>7. ASSUME NEW p \in Proc,
             \/ SetUpFails(p) \/ UnlinkSock(p, "undosock", "undolock")
             \/ UndoLock(p) \/ UndoPid(p)
      PROVE  Left'
  BY <1>0, <1>7 DEF SetUpFails, UnlinkSock, UndoLock, UndoPid, Unbound, Step, Exit
<1>8. ASSUME NEW p \in Proc, Signal(p) \/ GracefulStop(p) PROVE Left'
  BY <1>0, <1>8 DEF Signal, GracefulStop, CloseListen, UnlinkSock, Compare, Release, Unlock,
     UnlinkOwn, Unbound, Step, Exit
<1>9. ASSUME NEW p \in Proc, CmdStop(p) PROVE Left'
  <2>1. CASE SendStop(p)
    BY <1>0, <2>1 DEF SendStop, Answers, Step
  <2>2. CASE ReadPid(p) \/ WaitGone(p) \/ StillRunning(p) \/ StopConnect(p) \/ StopUnlinkPid(p)
    BY <1>0, <2>2 DEF ReadPid, WaitGone, StillRunning, StopConnect, StopUnlinkPid, Step, Exit
  <2>3. CASE \/ ProbeLock(p, "s_probe", "s_probed", "s_connect")
             \/ ProbeEnd(p, "s_probed", "s_connect") \/ UnlinkSock(p, "s_unsock", "s_unpid")
    BY <1>0, <2>3 DEF ProbeLock, ProbeEnd, UnlinkSock, Step
  <2>4. QED
    BY <1>9, <2>1, <2>2, <2>3 DEF CmdStop
<1>10. CASE ConnectOrStart
  <2>1. CASE Spawn
    BY <1>0, <2>1 DEF Spawn, Step
  <2>2. CASE BeginClient \/ Connected \/ Spawned \/ GiveUp
    BY <2>2 DEF BeginClient, BeginCommand, Connected, Spawned, GiveUp
  <2>3. QED
    BY <1>10, <2>1, <2>2 DEF ConnectOrStart
<1>11. ASSUME NEW p \in Proc, Crash(p) PROVE Left'
  BY <1>11 DEF Crash
<1>12. CASE UNCHANGED vars
  BY <1>12 DEF vars
<1>13. QED
  BY <1>1, <1>2, <1>3, <1>4, <1>5, <1>6, <1>7, <1>8, <1>9, <1>10, <1>11, <1>12
     DEF Next, RunServer

----------------------------------------------------------------------------
(* What one command at a time guarantees: the names belong to their owner *)
(* until a start and the end of a daemon cross, and again when no process *)
(* is left.                                                               *)

Owned == crossed \/ (Owner /\ Asked)

Lone == ~racing => One /\ Quiet /\ Left /\ Owned

LoneInv == TypeOK /\ LockInv /\ SockBound /\ Ends /\ Lone

\* A new command begins with a clean slate when no process is left.
LEMMA CrossedStays ==
    ASSUME crossed, ~crossed', [Next]_vars PROVE \A p \in Proc : pc[p] = "idle"
<1>1. ASSUME NEW p \in Proc,
             Ping(p) \/ RecoverStale(p) \/ Recheck(p) \/ Signal(p) \/ GracefulStop(p)
      PROVE  FALSE
  BY <1>1 DEF Ping, Recheck, RecoverStale, StaleConnect, UnlinkSock, ProbeLock, ProbeEnd,
     ProbeFails, UnlinkPid, Signal, GracefulStop, CloseListen, Compare, Release, Unlock,
     UnlinkOwn, history
<1>2. ASSUME NEW p \in Proc, RunServer(p) PROVE FALSE
  BY <1>2 DEF RunServer, OpenPid, LockPid, LockFailed, WritePid, Bind, BindFailed, Listen, Ready,
     SetUpFails, UnlinkSock, UndoLock, UndoPid, history
<1>3. ASSUME NEW p \in Proc, CmdStop(p) \/ Crash(p) PROVE FALSE
  BY <1>3 DEF CmdStop, SendStop, ReadPid, WaitGone, StillRunning, ProbeLock, ProbeEnd,
     StopConnect, UnlinkSock, StopUnlinkPid, Crash, history
<1>4. CASE Connected \/ Spawn \/ Spawned \/ GiveUp
  BY <1>4 DEF Connected, Spawn, Spawned, GiveUp, history
<1>5. CASE BeginClient \/ \E p \in Proc : BeginStart(p) \/ BeginStop(p)
  BY <1>5 DEF BeginClient, BeginStart, BeginStop, BeginCommand
<1>6. QED
  BY <1>1, <1>2, <1>3, <1>4, <1>5 DEF Next, ConnectOrStart, vars, history

\* Without a crossing the names have their owner, before the step too.
LEMMA StillOwned ==
    ASSUME LoneInv, ~racing, ~crossed', [Next]_vars PROVE Owner /\ Asked
<1>1. CASE ~crossed
  BY <1>1 DEF LoneInv, Lone, Owned
<1>2. CASE crossed
  <2>1. \A p \in Proc : pc[p] = "idle" /\ asked[p] = None
    BY <1>2, CrossedStays DEF LoneInv, Ends
  <2>2. QED
    BY <2>1 DEF Owner, Asked, Owns, Cleared, Bound, StartSteps
<1>3. QED
  BY <1>1, <1>2

LEMMA InitLone == Init => LoneInv
<1> SUFFICES ASSUME Init PROVE LoneInv
  OBVIOUS
<1> USE DEF Init
<1>0. TypeOK /\ None \notin Proc
  BY InitTyped, LifecycleAssumption
<1>1. LockInv /\ SockBound /\ Ends
  BY <1>0 DEF LockInv, SockBound, Locks, Ends
<1>2. One
  BY DEF One, Commanding, StartSteps, StopSteps
<1>3. Owner
  BY DEF Owner, Owns, Cleared, Bound, StartSteps
<1>4. Asked /\ Left /\ Quiet
  BY DEF Asked, Left, Quiet
<1>5. QED
  BY <1>0, <1>1, <1>2, <1>3, <1>4 DEF LoneInv, Lone, Owned

LEMMA StepLone == LoneInv /\ [Next]_vars => LoneInv'
<1> SUFFICES ASSUME LoneInv, [Next]_vars PROVE LoneInv'
  OBVIOUS
<1>1. TypeOK' /\ LockInv' /\ SockBound' /\ Ends'
  BY StepTyped, StepLockInv, StepSockBound, StepEnds DEF LoneInv
<1>2. ASSUME ~racing' PROVE One' /\ Quiet' /\ Left'
  <2>1. ~racing
    BY <1>2, RacingStays
  <2>2. One /\ Quiet /\ Left
    BY <2>1 DEF LoneInv, Lone
  <2>3. QED
    BY <2>1, <2>2, StepOne, StepQuiet, StepLeft DEF LoneInv
<1>3. ASSUME ~racing', ~crossed' PROVE Owner' /\ Asked'
  <2>1. ~racing
    BY <1>3, RacingStays
  <2>2. One /\ Owner /\ Asked
    BY <1>3, <2>1, StillOwned DEF LoneInv, Lone
  <2>3. QED
    BY <1>3, <2>1, <2>2, StepOwner, StepAsked DEF LoneInv
<1>4. QED
  BY <1>1, <1>2, <1>3 DEF LoneInv, Lone, Owned

\* While commands run one at a time, a daemon that has reported itself ready
\* keeps the socket's name, the pid file's name and its pid in the file: no
\* start, stop or download process, and no daemon that is going, takes them
\* from it, whoever is killed and whenever; until a start opens or has opened
\* the pid file between the unlocking and the unlinking of a daemon that ends,
\* and again from the time on when no process is left of that.
THEOREM NamesAreHeld == Spec => []LoneNamesHeld
<1>1. LoneInv => LoneNamesHeld
  <2> SUFFICES ASSUME LoneInv, ~racing, ~crossed, NEW p \in Proc, pc[p] = "serve"
               PROVE  /\ sock = p
                      /\ pidName # None /\ pidName = fd[p] /\ content[pidName] = p
    BY DEF LoneNamesHeld, NamesHeld, PidFileHeld
  <2>1. LockInv /\ Owner
    BY DEF LoneInv, Lone, Owned
  <2>2. QED
    BY <2>1 DEF LockInv, Locks, Owner, Owns, Bound
<1>2. QED
  BY <1>1, InitLone, StepLone, PTL DEF Spec

\* A stop that was answered, with no other command beside it and no start that
\* has crossed with an end, removes no name before the daemon that answered it
\* has ended: the pid it waits for is that daemon's.
THEOREM AnsweredStopMeansGone == Spec => []StopMeansGone
<1>1. LoneInv => StopMeansGone
  BY DEF LoneInv, Lone, Owned, Asked, StopMeansGone
<1>2. QED
  BY <1>1, InitLone, StepLone, PTL DEF Spec

\* When all have ended, of commands that ran one at a time, and no process was
\* killed since a daemon last became ready, neither name is left.
THEOREM NamesAreRemoved == Spec => []NothingLeft
<1>1. LoneInv => NothingLeft
  <2> SUFFICES ASSUME LoneInv, ~racing, ~residue, \A p \in Proc : pc[p] = "idle"
               PROVE  sock = None /\ pidName = None
    BY DEF NothingLeft
  <2>1. QED
    BY DEF LoneInv, Lone, Left, Owns, Bound
<1>2. QED
  BY <1>1, InitLone, StepLone, PTL DEF Spec

----------------------------------------------------------------------------
(* Why a command fails. *)

Hope == \E p \in Proc : pc[p] \in {"listen", "ready", "serve"}
Trying == \E p \in Proc : pc[p] \in StartSteps \ {"lockfailed"}

\* A start past its look at the socket, which is then nobody's leftover.
Past == StartSteps \ {"ping", "connect", "unsock"}

\* With nothing to excuse a failure, a stop has everything to itself and so
\* has no daemon that is going a start beside it; and a start gives way only to
\* a daemon, or to another start that has not given way itself.
Calm == ~excused =>
    /\ \A s \in Proc : pc[s] \in StopSteps =>
           /\ ~failure /\ client = "idle"
           /\ \A p \in Proc : pc[p] \in Commanding => p = s
           /\ pc[s] \in {"s_stop", "s_probe", "s_probed", "s_connect"} =>
                  \A p \in Proc : pc[p] \notin ExitSteps
           /\ pc[s] = "s_probe" => ~Connects
    /\ client # "idle" \/ failure \/ (\E p \in Proc : pc[p] \in StartSteps) =>
           \A p \in Proc : pc[p] \notin ExitSteps \cup StopSteps
    /\ \A p \in Proc : pc[p] \in Past => sock # Stale
    /\ \/ failure \/ client = "wait" \/ (client = "look" /\ spawns > 0)
       \/ \E p \in Proc : pc[p] = "lockfailed"
       => Hope \/ Trying
    /\ \A p \in Proc : pc[p] \in {"bindfailed", "undolock", "undopid"} => Hope
    /\ \A p \in Proc : pc[p] # "undosock"

\* With no other command beside it, and the names their owner's, a start meets
\* no lock and no socket.
CalmLone == ~racing /\ ~crossed /\ ~excused =>
    /\ ~failure
    /\ \A p \in Proc : pc[p] \notin {"lockfailed", "bindfailed", "undolock", "undopid"}
    /\ \A p \in Proc :
           pc[p] \in {"probe", "probed", "unpid", "recheck", "open", "lock", "write", "bind"} =>
               sock = None \/ (pc[p] = "recheck" /\ Connects)

LEMMA StepCalm ==
    ASSUME TypeOK, LockInv, SockBound, Calm, [Next]_vars PROVE Calm'
<1>0. DOMAIN pc = Proc /\ DOMAIN fd = Proc /\ None \notin Proc /\ Stale \notin Proc
      /\ None # Stale /\ sock \in Proc \cup {None, Stale} /\ failure \in BOOLEAN
      /\ excused \in BOOLEAN
  BY LifecycleAssumption DEF TypeOK
<1> USE DEF names, starting, history, Calm, Hope, Trying, Past, Commanding, StartSteps, StopSteps,
        ExitSteps, Connects, Listening
<1>1. ASSUME NEW p \in Proc, BeginStart(p) PROVE Calm'
  BY <1>0, <1>1 DEF BeginStart, BeginCommand, InProgress, Step
<1>2. ASSUME NEW p \in Proc, BeginStop(p) PROVE Calm'
  <2> SUFFICES ASSUME ~excused' PROVE Calm'
    OBVIOUS
  <2>1. ~InProgress /\ \A q \in Proc : pc[q] \notin ExitSteps
    BY <1>2 DEF BeginStop, BeginCommand
  <2>2. ~failure' /\ client' = "idle" /\ pc'[p] = "s_stop" /\ \A q \in Proc \ {p} : pc'[q] = pc[q]
    BY <1>0, <1>2, <2>1 DEF BeginStop, BeginCommand, InProgress, Step
  <2>3. \A q \in Proc : pc[q] \notin StartSteps \cup StopSteps
    BY <2>1 DEF InProgress
  <2>4. QED
    BY <2>1, <2>2, <2>3
<1>3. ASSUME NEW p \in Proc, Ping(p) PROVE Calm'
  BY <1>0, <1>3 DEF Ping, Answers, Unanswered, Step, Exit
<1>4. ASSUME NEW p \in Proc, StaleConnect(p) PROVE Calm'
  BY <1>0, <1>4 DEF StaleConnect, Step
<1>5. ASSUME NEW p \in Proc, UnlinkSock(p, "unsock", "probe") PROVE Calm'
  BY <1>0, <1>5 DEF UnlinkSock, Step
<1>6. ASSUME NEW p \in Proc,
             \/ ProbeLock(p, "probe", "probed", "unpid") \/ ProbeEnd(p, "probed", "unpid")
             \/ ProbeFails(p) \/ UnlinkPid(p)
      PROVE Calm'
  BY <1>0, <1>6 DEF ProbeLock, ProbeEnd, ProbeFails, UnlinkPid, Step
<1>7. ASSUME NEW p \in Proc, Recheck(p) PROVE Calm'
  BY <1>0, <1>7 DEF Recheck, Step, Exit
<1>8. ASSUME NEW p \in Proc, OpenPid(p) \/ WritePid(p) PROVE Calm'
  BY <1>0, <1>8 DEF OpenPid, WritePid, Step
<1>9. ASSUME NEW p \in Proc, LockPid(p) PROVE Calm'
  <2>1. CASE Locked(fd[p])
    <3> SUFFICES ASSUME ~excused PROVE Calm'
      BY <1>9, <2>1 DEF LockPid
    <3>1. PICK q \in Proc : fd[q] = fd[p] /\ pc[q] \in Locks
      BY <2>1 DEF Locked
    <3>2. pc[p] = "lock" /\ q # p
      BY <1>9, <3>1 DEF LockPid, Step, Locks
    <3>3. pc[q] \in (StartSteps \ {"lockfailed"}) \cup {"serve"}
      BY <3>1, <3>2 DEF Locks
    <3>4. QED
      BY <1>0, <1>9, <2>1, <3>2, <3>3 DEF LockPid, Step
  <2>2. CASE ~Locked(fd[p])
    BY <1>0, <1>9, <2>2 DEF LockPid, Step
  <2>3. QED
    BY <2>1, <2>2
<1>10. ASSUME NEW p \in Proc, LockFailed(p) PROVE Calm'
  BY <1>0, <1>10 DEF LockFailed, Answers, Unanswered, Step, Exit
<1>11. ASSUME NEW p \in Proc, Bind(p) PROVE Calm'
  <2>1. CASE sock = None
    BY <1>0, <1>11, <2>1 DEF Bind, Step
  <2>2. CASE sock # None
    <3> SUFFICES ASSUME ~excused PROVE Calm'
      BY <1>11, <2>2 DEF Bind
    <3>1. sock \in Proc /\ pc[sock] \in {"listen", "ready", "serve"} /\ sock # p
      BY <1>0, <1>11, <2>2 DEF Bind, Step, SockBound, Bound
    <3>2. QED
      BY <1>0, <1>11, <2>2, <3>1 DEF Bind, Step
  <2>3. QED
    BY <2>1, <2>2
<1>12. ASSUME NEW p \in Proc, BindFailed(p) PROVE Calm'
  BY <1>0, <1>12 DEF BindFailed, Answers, Unanswered, Step, Exit
<1>13. ASSUME NEW p \in Proc, Listen(p) \/ Ready(p) PROVE Calm'
  BY <1>0, <1>13 DEF Listen, Ready, Step
<1>14. ASSUME NEW p \in Proc, SetUpFails(p) \/ Signal(p) \/ Crash(p) PROVE Calm'
  BY <1>14 DEF SetUpFails, Signal, Crash
<1>15. ASSUME NEW p \in Proc,
              UnlinkSock(p, "undosock", "undolock") \/ UndoLock(p) \/ UndoPid(p)
       PROVE  Calm'
  BY <1>0, <1>15 DEF UnlinkSock, UndoLock, UndoPid, Step, Exit
<1>16. ASSUME NEW p \in Proc, GracefulStop(p) PROVE Calm'
  BY <1>0, <1>16 DEF GracefulStop, CloseListen, UnlinkSock, Compare, Release, Unlock, UnlinkOwn,
     Unbound, Step, Exit
<1>17. ASSUME NEW p \in Proc, SendStop(p) PROVE Calm'
  <2> SUFFICES ASSUME ~excused' PROVE Calm'
    OBVIOUS
  <2>0. pc[p] = "s_stop" /\ UNCHANGED <<sock, client, spawns, failure>>
    BY <1>17 DEF SendStop
  <2>a. ~excused
    BY <1>17, Zenon DEF SendStop, Unanswered
  <2>1. CASE Answers /\ pc' = [pc EXCEPT ![p] = "s_pid", ![sock] = "close"]
    <3>1. sock \in Proc /\ sock # p /\ pc'[p] = "s_pid" /\ pc'[sock] = "close"
      BY <1>0, <2>0, <2>1 DEF Answers
    <3>2. \A q \in Proc \ {p, sock} : pc'[q] = pc[q]
      BY <1>0, <2>1
    <3>3. ~failure' /\ client' = "idle"
      BY <2>0, <2>a
    <3>4. \A q \in Proc : pc'[q] \in Commanding => q = p
      BY <2>0, <2>a, <3>1, <3>2
    <3>5. \A q \in Proc : pc'[q] \notin StartSteps
      BY <3>1, <3>4
    <3>6. QED
      BY <3>1, <3>3, <3>4, <3>5
  <2>2. CASE Unanswered /\ Step(p, "s_stop", "s_probe")
    <3>1. ~Connects
      BY <2>2, Zenon DEF Unanswered
    <3>2. ~failure' /\ client' = "idle" /\ \A q \in Proc : pc[q] \notin ExitSteps
      BY <2>0, <2>a
    <3>3. /\ pc'[p] = "s_probe" /\ \A q \in Proc \ {p} : pc'[q] = pc[q]
          /\ \A q \in Proc : pc[q] \in Commanding => q = p
      BY <1>0, <2>0, <2>a, <2>2 DEF Step
    <3>4. ~Connects'
      BY <2>0, <3>1, <3>3
    <3>5. QED
      BY <3>2, <3>3, <3>4
  <2>3. QED
    BY <1>17, <2>1, <2>2 DEF SendStop
<1>18. ASSUME NEW p \in Proc, ReadPid(p) PROVE Calm'
  BY <1>0, <1>18 DEF ReadPid, Step
<1>19. ASSUME NEW p \in Proc, WaitGone(p) PROVE Calm'
  BY <1>0, <1>19 DEF WaitGone, Unanswered, Step, Exit
<1>20. ASSUME NEW p \in Proc, StillRunning(p) PROVE Calm'
  <2> SUFFICES ASSUME ~excused PROVE Calm'
    BY <1>20 DEF StillRunning
  <2>1. PICK q \in Proc : pc[q] \in Locks
    BY <1>20 DEF StillRunning, LockHeld, Locked
  <2>2. pc[q] = "serve" /\ q # p
    BY <1>20, <2>1 DEF StillRunning, Step, Exit, Locks
  <2>3. QED
    BY <1>0, <1>20, <2>2 DEF StillRunning, Step, Exit
<1>21. ASSUME NEW p \in Proc,
              \/ ProbeLock(p, "s_probe", "s_probed", "s_connect")
              \/ ProbeEnd(p, "s_probed", "s_connect")
       PROVE  Calm'
  BY <1>0, <1>21 DEF ProbeLock, ProbeEnd, Step
<1>22. ASSUME NEW p \in Proc,
              \/ StopConnect(p) \/ UnlinkSock(p, "s_unsock", "s_unpid") \/ StopUnlinkPid(p)
       PROVE  Calm'
  BY <1>0, <1>22 DEF StopConnect, UnlinkSock, StopUnlinkPid, Step, Exit
<1>23. CASE BeginClient
  <2> SUFFICES ASSUME ~excused' PROVE Calm'
    OBVIOUS
  <2>1. \A q \in Proc : pc[q] \notin ExitSteps \cup StopSteps
    BY <1>23 DEF BeginClient, BeginCommand
  <2>2. client' = "look" /\ spawns' = 0 /\ UNCHANGED <<pc, sock>>
    BY <1>23 DEF BeginClient
  <2>3. CASE InProgress
    <3>1. ~excused /\ failure' = failure
      BY <1>0, <1>23, <2>3 DEF BeginClient, BeginCommand
    <3>2. QED
      BY <2>1, <2>2, <3>1
  <2>4. CASE ~InProgress
    <3>1. ~failure' /\ \A q \in Proc : pc[q] \notin StartSteps
      BY <1>23, <2>4 DEF BeginClient, BeginCommand, InProgress
    <3>2. QED
      BY <2>1, <2>2, <3>1
  <2>5. QED
    BY <2>3, <2>4
<1>24. CASE Connected \/ Spawned
  BY <1>0, <1>24 DEF Connected, Spawned
<1>25. CASE Spawn
  BY <1>0, <1>25 DEF Spawn, Unanswered, Step
<1>26. CASE GiveUp
  BY <1>0, <1>26 DEF GiveUp, Unanswered
<1>27. CASE UNCHANGED vars
  BY <1>27 DEF vars
<1>28. QED
  BY <1>1, <1>2, <1>3, <1>4, <1>5, <1>6, <1>7, <1>8, <1>9, <1>10, <1>11, <1>12, <1>13, <1>14,
     <1>15, <1>16, <1>17, <1>18, <1>19, <1>20, <1>21, <1>22, <1>23, <1>24, <1>25, <1>26, <1>27
     DEF Next, RecoverStale, RunServer, CmdStop, ConnectOrStart

LEMMA StepCalmLone ==
    ASSUME LoneInv, Calm, CalmLone, [Next]_vars PROVE CalmLone'
<1> SUFFICES ASSUME ~racing, ~crossed', ~excused' PROVE CalmLone'
  BY RacingStays DEF CalmLone
<1>w. crossed => \A p \in Proc : pc[p] = "idle"
  BY CrossedStays
<1>o. Owner
  BY StillOwned
<1>0. /\ DOMAIN pc = Proc /\ DOMAIN fd = Proc /\ None \notin Proc /\ Stale \notin Proc
      /\ sock \in Proc \cup {None, Stale} /\ failure \in BOOLEAN /\ excused \in BOOLEAN
      /\ LockInv /\ One /\ Owner
  BY <1>o, LifecycleAssumption DEF LoneInv, TypeOK, Lone
<1>a. \A p, q \in Proc : pc[p] \in Commanding /\ pc[q] \in Commanding => p = q
  BY <1>0 DEF One
<1>b. \A p \in Proc : pc[p] = "serve" => Connects
  BY <1>0 DEF Owner, Bound, Connects, Listening
<1> USE DEF names, starting, history, CalmLone, Commanding, StartSteps, StopSteps, Connects,
        Listening
<1>1. ASSUME NEW p \in Proc, BeginStart(p) \/ BeginStop(p) PROVE CalmLone'
  <2>1. ~InProgress /\ ~failure'
    BY <1>1 DEF BeginStart, BeginStop, BeginCommand
  <2>2. \A q \in Proc : pc[q] \notin StartSteps
    BY <2>1 DEF InProgress
  <2>3. pc'[p] \in {"ping", "s_stop"} /\ \A q \in Proc \ {p} : pc'[q] = pc[q]
    BY <1>0, <1>1 DEF BeginStart, BeginStop, Step
  <2>4. QED
    BY <2>1, <2>2, <2>3
<1>2. ASSUME NEW p \in Proc, Ping(p) PROVE CalmLone'
  BY <1>0, <1>2 DEF Ping, Unanswered, Step, Exit
<1>3. ASSUME NEW p \in Proc, StaleConnect(p) PROVE CalmLone'
  BY <1>0, <1>a, <1>3 DEF StaleConnect, Step
<1>4. ASSUME NEW p \in Proc, UnlinkSock(p, "unsock", "probe") PROVE CalmLone'
  BY <1>0, <1>a, <1>4 DEF UnlinkSock, Step
<1>5. ASSUME NEW p \in Proc,
             \/ ProbeLock(p, "probe", "probed", "unpid") \/ ProbeEnd(p, "probed", "unpid")
             \/ ProbeFails(p) \/ UnlinkPid(p)
      PROVE CalmLone'
  BY <1>0, <1>a, <1>5 DEF ProbeLock, ProbeEnd, ProbeFails, UnlinkPid, Step
<1>6. ASSUME NEW p \in Proc, Recheck(p) \/ OpenPid(p) \/ WritePid(p) PROVE CalmLone'
  BY <1>0, <1>a, <1>6 DEF Recheck, OpenPid, WritePid, Step, Exit
<1>7. ASSUME NEW p \in Proc, LockPid(p) PROVE CalmLone'
  <2>1. ~excused /\ pc[p] = "lock"
    BY <1>7 DEF LockPid, Step
  <2>2. ~Locked(fd[p])
    <3> SUFFICES ASSUME NEW q \in Proc, pc[q] \in Locks PROVE FALSE
      BY DEF Locked
    <3>1. pc[q] # "serve" /\ q # p
      BY <1>0, <2>1 DEF Owner, Locks
    <3>2. pc[q] \notin Commanding
      BY <1>a, <2>1, <3>1
    <3>3. pc[q] \notin ExitSteps
      BY <2>1 DEF Calm
    <3>4. QED
      BY <3>1, <3>2, <3>3 DEF Locks, ExitSteps
  <2>3. QED
    BY <1>0, <1>a, <1>7, <2>1, <2>2 DEF LockPid, Step
<1>8. ASSUME NEW p \in Proc, LockFailed(p) \/ BindFailed(p) PROVE CalmLone'
  <2>1. excused
    BY <1>8 DEF LockFailed, BindFailed, Step, Exit
  <2>2. excused'
    BY <1>8, <2>1, Zenon DEF LockFailed, BindFailed, Unanswered
  <2>3. QED
    BY <2>2
<1>9. ASSUME NEW p \in Proc, Bind(p) \/ Listen(p) \/ Ready(p) PROVE CalmLone'
  BY <1>0, <1>a, <1>9 DEF Bind, Listen, Ready, Step
<1>10. ASSUME NEW p \in Proc,
             \/ SetUpFails(p) \/ UnlinkSock(p, "undosock", "undolock")
             \/ UndoLock(p) \/ UndoPid(p) \/ Signal(p) \/ Crash(p)
       PROVE CalmLone'
  BY <1>10 DEF SetUpFails, UnlinkSock, UndoLock, UndoPid, Signal, Crash, Step, Exit, Calm
<1>11. ASSUME NEW p \in Proc, GracefulStop(p) PROVE CalmLone'
  <2>1. ~excused /\ pc[p] \in ExitSteps
    BY <1>11 DEF GracefulStop, CloseListen, UnlinkSock, Compare, Release, Unlock, UnlinkOwn, Step,
       Exit, ExitSteps
  <2>2. \A q \in Proc : pc[q] \notin StartSteps
    BY <2>1 DEF Calm
  <2>3. QED
    BY <1>0, <1>11, <2>1, <2>2 DEF GracefulStop, CloseListen, UnlinkSock, Compare, Release,
       Unlock, UnlinkOwn, Step, Exit
<1>12. ASSUME NEW p \in Proc, CmdStop(p) PROVE CalmLone'
  <2>0. ~excused
    <3>1. excused' = excused \/ excused' = TRUE \/ Unanswered
      BY <1>12, Zenon DEF CmdStop, SendStop, ReadPid, WaitGone, StillRunning, ProbeLock, ProbeEnd,
         StopConnect, UnlinkSock, StopUnlinkPid
    <3>2. QED
      BY <3>1, Zenon DEF Unanswered
  <2>1. pc[p] \in StopSteps /\ ~excused
    BY <1>12, <2>0 DEF CmdStop, SendStop, ReadPid, WaitGone, StillRunning, ProbeLock, ProbeEnd,
       StopConnect, UnlinkSock, StopUnlinkPid, Step, Exit
  <2>2. \A q \in Proc : pc'[q] \notin StartSteps
    BY <1>0, <1>a, <1>12, <2>1 DEF CmdStop, SendStop, Answers, ReadPid, WaitGone, StillRunning,
       ProbeLock, ProbeEnd, StopConnect, UnlinkSock, StopUnlinkPid, Step, Exit
  <2>3. ~StillRunning(p)
    <3> SUFFICES ASSUME StillRunning(p) PROVE FALSE
      OBVIOUS
    <3>1. PICK q \in Proc : pc[q] \in Locks
      BY DEF StillRunning, LockHeld, Locked
    <3>2. pc[p] = "s_probe"
      BY DEF StillRunning, Step, Exit
    <3>3. pc[q] = "serve"
      BY <2>1, <3>1, <3>2 DEF Calm, Locks, ExitSteps
    <3>4. QED
      BY <1>b, <2>1, <3>2, <3>3 DEF Calm
  <2>4. failure' = failure
    <3>1. CASE SendStop(p)
      BY <3>1 DEF SendStop
    <3>2. CASE ReadPid(p) \/ WaitGone(p) \/ StopConnect(p) \/ StopUnlinkPid(p)
      BY <1>0, <3>2 DEF ReadPid, WaitGone, StopConnect, StopUnlinkPid, Step, Exit
    <3>3. CASE \/ UnlinkSock(p, "s_unsock", "s_unpid")
               \/ ProbeLock(p, "s_probe", "s_probed", "s_connect")
               \/ ProbeEnd(p, "s_probed", "s_connect")
      BY <3>3 DEF ProbeLock, ProbeEnd, UnlinkSock
    <3>4. QED
      BY <1>12, <2>3, <3>1, <3>2, <3>3 DEF CmdStop
  <2>5. QED
    BY <1>w, <2>1, <2>2, <2>4
<1>13. CASE BeginClient
  <2>1. ~InProgress /\ ~failure' /\ pc' = pc
    BY <1>13 DEF BeginClient, BeginCommand
  <2>2. QED
    BY <2>1 DEF InProgress
<1>14. CASE Connected \/ Spawned
  BY <1>0, <1>14 DEF Connected, Spawned
<1>15. CASE Spawn
  BY <1>0, <1>15 DEF Spawn, Unanswered, Step, One
<1>16. CASE GiveUp
  <2>1. client = "look" /\ spawns = 2 /\ Unanswered
    BY <1>16 DEF GiveUp
  <2>2. ~excused /\ ~Connects
    BY <2>1, Zenon DEF Unanswered
  <2>3. \A q \in Proc : pc[q] \notin Commanding
    BY <1>0, <2>1 DEF One
  <2>4. \E q \in Proc : pc[q] = "serve"
    BY <2>1, <2>2, <2>3 DEF Calm, Hope, Trying
  <2>5. QED
    BY <1>b, <2>2, <2>4
<1>17. CASE UNCHANGED vars
  BY <1>17 DEF vars
<1>18. QED
  BY <1>1, <1>2, <1>3, <1>4, <1>5, <1>6, <1>7, <1>8, <1>9, <1>10, <1>11, <1>12, <1>13, <1>14,
     <1>15, <1>16, <1>17
     DEF Next, RecoverStale, RunServer, ConnectOrStart

LEMMA InitCalm == Init => Calm /\ CalmLone
<1> SUFFICES ASSUME Init PROVE Calm /\ CalmLone
  OBVIOUS
<1>1. \A p \in Proc : pc[p] = "idle"
  BY DEF Init
<1>2. ~failure /\ client = "idle"
  BY DEF Init
<1>3. QED
  BY <1>1, <1>2 DEF Calm, CalmLone, Past, StartSteps, StopSteps

\* A command fails only if something timed out, was killed, could not be set
\* up or was ending while it ran, in whatever state killed processes have left
\* the names; and of commands that race each other, or come after a start has
\* crossed with the end of a daemon, not all fail: when they are over, a daemon
\* serves.
THEOREM FailuresAreCaused == Spec => []FailuresHaveCause
<1> DEFINE Inv == LoneInv /\ Calm /\ CalmLone
<1>1. Init => Inv
  BY InitLone, InitCalm
<1>2. Inv /\ [Next]_vars => Inv'
  <2>1. LoneInv /\ [Next]_vars => LoneInv'
    BY StepLone
  <2>2. LoneInv /\ Calm /\ [Next]_vars => Calm'
    BY StepCalm DEF LoneInv
  <2>3. QED
    BY <2>1, <2>2, StepCalmLone
<1>3. Inv => FailuresHaveCause
  <2> SUFFICES ASSUME LoneInv, Calm, CalmLone, failure, ~excused, ~InProgress
               PROVE  (racing \/ crossed) /\ \E p \in Proc : pc[p] = "serve"
    BY DEF FailuresHaveCause
  <2>1. racing \/ crossed
    BY DEF CalmLone
  <2>2. \A p \in Proc : pc[p] \notin StartSteps
    BY DEF InProgress
  <2>3. QED
    BY <2>1, <2>2 DEF Calm, Hope, Trying, StartSteps
<1> HIDE DEF Inv
<1>4. QED
  BY <1>1, <1>2, <1>3, PTL DEF Spec

=============================================================================
