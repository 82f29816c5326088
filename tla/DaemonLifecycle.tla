-------------------------- MODULE DaemonLifecycle --------------------------
(***************************************************************************)
(* How proxchunkd comes and goes (src/proxchunkd.cpp, and connect_or_start *)
(* of src/proxy_ipc.cpp): `proxchunkd` starts a daemon unless one answers, *)
(* `proxchunkd --stop` asks it to end, and a download process starts one   *)
(* when it finds none.  All of them meet in two names of the file system:  *)
(* the socket, which stays behind when its daemon is killed, and the pid   *)
(* file, whose fcntl lock does not.                                        *)
(*                                                                         *)
(* One step is one system call on one of the names or on the lock, or one  *)
(* conversation with the daemon.  The forks of daemonize_and_run are one   *)
(* process here: the command's exit status is what the daemon reports on   *)
(* the pipe.  A process may be killed at any step.                         *)
(***************************************************************************)
EXTENDS Naturals, FiniteSets

CONSTANTS
    Proc,        \* process ids; an id is used again once its process is gone
    None,
    Stale,       \* the name of a socket whose daemon no longer has it open
    Commands,    \* what users do: "start", "stop", "client", "signal"
    Racing,      \* the values of racing
    MaxCrashes   \* processes killed in all

ASSUME LifecycleAssumption ==
    /\ IsFiniteSet(Proc)
    /\ None \notin Proc \cup Nat /\ Stale \notin Proc /\ None # Stale
    /\ Commands \subseteq {"start", "stop", "client", "signal"}
    /\ Racing \subseteq BOOLEAN
    /\ MaxCrashes \in Nat

VARIABLES
    racing,      \* commands overlap each other
    pc,          \* where each process is; "idle": it does not exist
    fd,          \* the pid-file inode it has open
    pidName,     \* the inode the pid file's name leads to
    content,     \* of each inode: the pid in it
    sock,        \* who bound the socket's name: a process, Stale, or None
    target,      \* the pid that a stop has read
    asked,       \* the daemon that answered a stop's STOP
    client,      \* a download process in connect_or_start
    spawns, child,
    crashes,
    excused,     \* while commands ran: a time-out, a kill, a failed set-up, an
                 \* exiting daemon, or a stop beside another command
    failure,     \* a command failed
    residue,     \* a process was killed since a daemon last became ready
    crossed      \* since all processes were last gone, a start was between opening
                 \* and locking the pid file while a daemon that was ending was
                 \* between unlocking and unlinking it

names == <<pidName, content, sock>>
stopping == <<target, asked>>
starting == <<client, spawns, child>>
history == <<crashes, excused, failure, residue, crossed>>
vars == <<racing, pc, fd, names, stopping, starting, history>>

Inode == 1 .. Cardinality(Proc) + 1

Locks == {"probed", "s_probed", "write", "bind", "bindfailed", "listen", "ready",
          "serve", "close", "unname", "compare", "unlock", "release",
          "undosock", "undolock"}
Locked(i) == \E q \in Proc : fd[q] = i /\ pc[q] \in Locks

Listening(p) == pc[p] \in {"ready", "serve", "close"}

\* unix_connect_errno = 0: the kernel queues connections to a listening socket.
Connects == sock \in Proc /\ Listening(sock)

\* try_ping: true means that a daemon answered; the wait for an answer is
\* limited, and a busy daemon (a TARGET) may take longer.
Answers == sock \in Proc /\ pc[sock] = "serve"
Unanswered == excused' = (excused \/ Connects)

StartSteps == {"ping", "connect", "unsock", "probe", "probed", "unpid", "recheck",
               "open", "lock", "lockfailed", "write", "bind", "bindfailed",
               "listen", "ready", "undosock", "undolock", "undopid"}
StopSteps == {"s_stop", "s_pid", "s_wait", "s_probe", "s_probed", "s_connect",
              "s_unsock", "s_unpid"}
ExitSteps == {"close", "unname", "compare", "unlock", "release", "unlinkown"}

InProgress == client # "idle" \/ \E p \in Proc : pc[p] \in StartSteps \cup StopSteps

Step(p, from, to) == pc[p] = from /\ pc' = [pc EXCEPT ![p] = to] /\ UNCHANGED racing

Exit(p, from, ok) ==
    /\ Step(p, from, "idle")
    /\ fd' = [fd EXCEPT ![p] = None]
    /\ target' = [target EXCEPT ![p] = None]
    /\ asked' = [asked EXCEPT ![p] = None]
    /\ failure' = (failure \/ (~ok /\ client = "idle"))

Init ==
    /\ racing \in Racing
    /\ pc = [p \in Proc |-> "idle"]
    /\ fd = [p \in Proc |-> None]
    /\ pidName = None
    /\ content = [i \in Inode |-> None]
    /\ sock = None
    /\ target = [p \in Proc |-> None]
    /\ asked = [p \in Proc |-> None]
    /\ client = "idle" /\ spawns = 0 /\ child = None
    /\ crashes = 0 /\ excused = FALSE /\ failure = FALSE /\ residue = FALSE
    /\ crossed = FALSE

----------------------------------------------------------------------------
(* Starting: main, recover_stale, run_server. *)

\* A user's command begins.
BeginCommand(isStop) ==
    /\ racing \/ ~InProgress
    /\ failure' = (failure /\ InProgress)
    /\ excused' = \/ InProgress /\ (excused \/ isStop)
                  \/ \E q \in Proc : pc[q] \in StopSteps \cup ExitSteps
    /\ crossed' = (crossed /\ \E q \in Proc : pc[q] # "idle")
    /\ UNCHANGED <<crashes, residue>>

BeginStart(p) ==
    /\ "start" \in Commands
    /\ BeginCommand(FALSE)
    /\ Step(p, "idle", "ping")
    /\ UNCHANGED <<fd, names, stopping, starting>>

\* Already running: exit 0.
Ping(p) ==
    /\ \/ Answers /\ Exit(p, "ping", TRUE) /\ UNCHANGED excused
       \/ Unanswered /\ Step(p, "ping", "connect") /\ UNCHANGED <<fd, stopping, failure>>
    /\ UNCHANGED <<names, starting, crashes, residue, crossed>>

\* Mutant: recover_stale goes by the unanswered PING alone.
StaleUnlessAnswered(p) ==
    /\ Step(p, "connect", "unsock")
    /\ UNCHANGED <<fd, names, stopping, starting, history>>

\* Mutant: nothing is cleared away.
NeverStale(p) ==
    /\ Step(p, "connect", "recheck")
    /\ UNCHANGED <<fd, names, stopping, starting, history>>

\* recover_stale: a socket that takes a connection is left alone, however
\* long its daemon takes to answer.
StaleConnect(p) ==
    /\ Step(p, "connect", IF Connects THEN "recheck" ELSE "unsock")
    /\ UNCHANGED <<fd, names, stopping, starting, history>>

UnlinkSock(p, from, to) ==
    /\ Step(p, from, to)
    /\ sock' = None
    /\ UNCHANGED <<fd, pidName, content, stopping, starting, history>>

\* pidfile_lock_free: a lock taken and dropped again.
ProbeLock(p, from, probed, free) ==
    /\ IF pidName = None
       THEN Step(p, from, free) /\ UNCHANGED fd
       ELSE ~Locked(pidName) /\ Step(p, from, probed) /\ fd' = [fd EXCEPT ![p] = pidName]
    /\ UNCHANGED <<names, stopping, starting, history>>

ProbeEnd(p, probed, free) ==
    /\ Step(p, probed, free)
    /\ fd' = [fd EXCEPT ![p] = None]
    /\ UNCHANGED <<names, stopping, starting, history>>

LockHeld == pidName # None /\ Locked(pidName)

ProbeFails(p) ==
    /\ LockHeld
    /\ Step(p, "probe", "recheck")
    /\ UNCHANGED <<fd, names, stopping, starting, history>>

UnlinkPid(p) ==
    /\ Step(p, "unpid", "recheck")
    /\ pidName' = None
    /\ UNCHANGED <<fd, content, sock, stopping, starting, history>>

RecoverStale(p) ==
    \/ StaleConnect(p) \/ UnlinkSock(p, "unsock", "probe")
    \/ ProbeLock(p, "probe", "probed", "unpid") \/ ProbeEnd(p, "probed", "unpid")
    \/ ProbeFails(p) \/ UnlinkPid(p)

\* main looks once more before it forks.
Recheck(p) ==
    /\ \/ Connects /\ Exit(p, "recheck", TRUE)
       \/ ~Connects /\ Step(p, "recheck", "open") /\ UNCHANGED <<fd, stopping, failure>>
    /\ UNCHANGED <<names, starting, crashes, excused, residue, crossed>>

FreeInode ==
    CHOOSE i \in Inode : i # pidName /\ \A q \in Proc : fd[q] # i

OpenPid(p) ==
    /\ Step(p, "open", "lock")
    /\ LET i == IF pidName = None THEN FreeInode ELSE pidName
       IN  /\ pidName' = i
           /\ fd' = [fd EXCEPT ![p] = i]
           /\ content' = IF pidName = None THEN [content EXCEPT ![i] = None] ELSE content
    /\ crossed' = (crossed \/ \E q \in Proc : pc[q] = "unlinkown")
    /\ UNCHANGED <<sock, stopping, starting, crashes, excused, failure, residue>>

\* lock_and_write_pid: F_SETLK and the truncation, then the pid.
LockPid(p) ==
    /\ IF Locked(fd[p])
       THEN Step(p, "lock", "lockfailed") /\ UNCHANGED content
       ELSE Step(p, "lock", "write") /\ content' = [content EXCEPT ![fd[p]] = None]
    /\ UNCHANGED <<fd, pidName, sock, stopping, starting, history>>

LockFailed(p) ==
    /\ \/ Answers /\ Exit(p, "lockfailed", TRUE) /\ UNCHANGED excused
       \/ Unanswered /\ Exit(p, "lockfailed", FALSE)
    /\ UNCHANGED <<names, starting, crashes, residue, crossed>>

WritePid(p) ==
    /\ Step(p, "write", "bind")
    /\ content' = [content EXCEPT ![fd[p]] = p]
    /\ UNCHANGED <<fd, pidName, sock, stopping, starting, history>>

Bind(p) ==
    /\ IF sock = None
       THEN Step(p, "bind", "listen") /\ sock' = p
       ELSE Step(p, "bind", "bindfailed") /\ UNCHANGED sock
    /\ UNCHANGED <<fd, pidName, content, stopping, starting, history>>

BindFailed(p) ==
    /\ \/ Answers /\ Exit(p, "bindfailed", TRUE) /\ UNCHANGED excused
       \/ Unanswered /\ Step(p, "bindfailed", "undolock") /\ UNCHANGED <<fd, stopping, failure>>
    /\ UNCHANGED <<names, starting, crashes, residue, crossed>>

Listen(p) ==
    /\ Step(p, "listen", "ready")
    /\ UNCHANGED <<fd, names, stopping, starting, history>>

\* signalfd and curl_global_init succeed, the engine starts, and the parent is
\* told that the daemon is ready.
Ready(p) ==
    /\ Step(p, "ready", "serve")
    /\ residue' = FALSE
    /\ UNCHANGED <<fd, names, stopping, starting, crashes, excused, failure, crossed>>

Unbound(p) == IF sock = p THEN Stale ELSE sock

\* listen, signalfd or curl_global_init fails: everything is undone.
SetUpFails(p) ==
    /\ Step(p, "listen", "undosock") \/ Step(p, "ready", "undosock")
    /\ sock' = Unbound(p)
    /\ excused' = TRUE
    /\ UNCHANGED <<fd, pidName, content, stopping, starting, crashes, failure, residue, crossed>>

UndoLock(p) ==
    /\ Step(p, "undolock", "undopid")
    /\ fd' = [fd EXCEPT ![p] = None]
    /\ UNCHANGED <<names, stopping, starting, history>>

UndoPid(p) ==
    /\ Exit(p, "undopid", FALSE)
    /\ pidName' = None
    /\ UNCHANGED <<content, sock, starting, crashes, excused, residue, crossed>>

RunServer(p) ==
    \/ OpenPid(p) \/ LockPid(p) \/ LockFailed(p) \/ WritePid(p)
    \/ Bind(p) \/ BindFailed(p) \/ Listen(p) \/ Ready(p) \/ SetUpFails(p)
    \/ UnlinkSock(p, "undosock", "undolock") \/ UndoLock(p) \/ UndoPid(p)

----------------------------------------------------------------------------
(* The daemon's end: graceful_stop. *)

Signal(p) ==
    /\ "signal" \in Commands
    /\ Step(p, "serve", "close")
    /\ excused' = TRUE
    /\ UNCHANGED <<fd, names, stopping, starting, crashes, failure, residue, crossed>>

CloseListen(p) ==
    /\ Step(p, "close", "unname")
    /\ sock' = Unbound(p)
    /\ UNCHANGED <<fd, pidName, content, stopping, starting, history>>

\* With its connections closed and the engine's threads joined, the daemon
\* looks whether the pid file is still its own.
Compare(p) ==
    /\ Step(p, "compare", IF fd[p] = pidName THEN "unlock" ELSE "release")
    /\ UNCHANGED <<fd, names, stopping, starting, history>>

Release(p) ==
    /\ Exit(p, "release", TRUE)
    /\ UNCHANGED <<names, starting, crashes, excused, residue, crossed>>

Unlock(p) ==
    /\ Step(p, "unlock", "unlinkown")
    /\ fd' = [fd EXCEPT ![p] = None]
    /\ crossed' = (crossed \/ \E q \in Proc : pc[q] = "lock")
    /\ UNCHANGED <<names, stopping, starting, crashes, excused, failure, residue>>

\* Mutant: the pid file is left behind.
KeepOwn(p) ==
    /\ Exit(p, "unlinkown", TRUE)
    /\ UNCHANGED <<names, starting, crashes, excused, residue, crossed>>

UnlinkOwn(p) ==
    /\ Exit(p, "unlinkown", TRUE)
    /\ pidName' = None
    /\ UNCHANGED <<content, sock, starting, crashes, excused, residue, crossed>>

GracefulStop(p) ==
    \/ CloseListen(p) \/ UnlinkSock(p, "unname", "compare")
    \/ Compare(p) \/ Release(p) \/ Unlock(p) \/ UnlinkOwn(p)

----------------------------------------------------------------------------
(* Stopping: cmd_stop. *)

BeginStop(p) ==
    /\ "stop" \in Commands
    /\ BeginCommand(TRUE)
    /\ Step(p, "idle", "s_stop")
    /\ UNCHANGED <<fd, names, stopping, starting>>

\* STOP is answered, or carried out with the answer too late, or never read.
SendStop(p) ==
    /\ pc[p] = "s_stop"
    /\ \/ /\ Answers
          /\ \/ /\ pc' = [pc EXCEPT ![p] = "s_pid", ![sock] = "close"]
                /\ asked' = [asked EXCEPT ![p] = sock]
                /\ UNCHANGED excused
             \/ /\ pc' = [pc EXCEPT ![p] = "s_probe", ![sock] = "close"]
                /\ excused' = TRUE
                /\ UNCHANGED asked
       \/ /\ Unanswered
          /\ Step(p, "s_stop", "s_probe")
          /\ UNCHANGED asked
    /\ UNCHANGED <<racing, fd, names, target, starting, crashes, failure, residue, crossed>>

\* Mutant: the pid file is not read, the socket decides.
ReadNoPid(p) ==
    /\ Step(p, "s_pid", "s_wait")
    /\ UNCHANGED <<fd, names, stopping, starting, history>>

ReadPid(p) ==
    /\ Step(p, "s_pid", "s_wait")
    /\ target' = [target EXCEPT ![p] = IF pidName = None THEN None ELSE content[pidName]]
    /\ UNCHANGED <<fd, names, asked, starting, history>>

\* wait_gone: by the pid, or without one by the socket; for 15 s.
WaitGone(p) ==
    /\ \/ /\ target[p] \in Proc /\ pc[target[p]] = "idle"
          /\ Step(p, "s_wait", "s_unsock")
          /\ UNCHANGED <<fd, stopping, excused, failure>>
       \/ /\ target[p] = None /\ Unanswered
          /\ Step(p, "s_wait", "s_unsock")
          /\ UNCHANGED <<fd, stopping, failure>>
       \/ Exit(p, "s_wait", FALSE) /\ excused' = TRUE
    /\ UNCHANGED <<names, starting, crashes, residue, crossed>>

StillRunning(p) ==
    /\ LockHeld
    /\ Exit(p, "s_probe", FALSE)
    /\ UNCHANGED <<names, starting, crashes, excused, residue, crossed>>

StopConnect(p) ==
    /\ Step(p, "s_connect", IF Connects THEN "s_unpid" ELSE "s_unsock")
    /\ UNCHANGED <<fd, names, stopping, starting, history>>

StopUnlinkPid(p) ==
    /\ Exit(p, "s_unpid", TRUE)
    /\ pidName' = None
    /\ UNCHANGED <<content, sock, starting, crashes, excused, residue, crossed>>

CmdStop(p) ==
    \/ SendStop(p) \/ ReadPid(p) \/ WaitGone(p)
    \/ ProbeLock(p, "s_probe", "s_probed", "s_connect")
    \/ ProbeEnd(p, "s_probed", "s_connect") \/ StillRunning(p)
    \/ StopConnect(p) \/ UnlinkSock(p, "s_unsock", "s_unpid") \/ StopUnlinkPid(p)

----------------------------------------------------------------------------
(* connect_or_start of a download process. *)

BeginClient ==
    /\ "client" \in Commands
    /\ BeginCommand(FALSE)
    /\ client = "idle" /\ client' = "look" /\ spawns' = 0
    /\ UNCHANGED <<racing, pc, fd, names, stopping, child>>

Connected ==
    /\ client = "look" /\ Answers
    /\ client' = "idle"
    /\ UNCHANGED <<racing, pc, fd, names, stopping, spawns, child, history>>

\* Mutant: proxchunkd is started at every look.
SpawnAgain ==
    /\ client = "look" /\ Unanswered
    /\ \E p \in Proc : Step(p, "idle", "ping") /\ child' = p
    /\ client' = "wait" /\ spawns' = spawns + 1
    /\ UNCHANGED <<fd, names, stopping, crashes, failure, residue, crossed>>

\* No PONG: the first two times, proxchunkd is started.
Spawn ==
    /\ client = "look" /\ spawns < 2 /\ Unanswered
    /\ \E p \in Proc : Step(p, "idle", "ping") /\ child' = p
    /\ client' = "wait" /\ spawns' = spawns + 1
    /\ UNCHANGED <<fd, names, stopping, crashes, failure, residue, crossed>>

\* waitpid: its parent has exited.
Spawned ==
    /\ client = "wait" /\ pc[child] \notin StartSteps
    /\ client' = "look" /\ child' = None
    /\ UNCHANGED <<racing, pc, fd, names, stopping, spawns, history>>

\* The time is up: with nothing more to try, or early, for a start that took
\* too long.
GiveUp ==
    /\ client = "look"
    /\ client' = "idle" /\ failure' = TRUE
    /\ \/ spawns = 2 /\ Unanswered
       \/ excused' = TRUE
    /\ UNCHANGED <<racing, pc, fd, names, stopping, spawns, child, crashes, residue, crossed>>

ConnectOrStart == BeginClient \/ Connected \/ Spawn \/ Spawned \/ GiveUp

----------------------------------------------------------------------------
\* SIGKILL: the kernel closes the descriptors; the names stay.
Crash(p) ==
    /\ crashes < MaxCrashes
    /\ pc[p] # "idle"
    /\ pc' = [pc EXCEPT ![p] = "idle"]
    /\ fd' = [fd EXCEPT ![p] = None]
    /\ sock' = Unbound(p)
    /\ target' = [target EXCEPT ![p] = None]
    /\ asked' = [asked EXCEPT ![p] = None]
    /\ crashes' = crashes + 1
    /\ excused' = TRUE /\ residue' = TRUE
    /\ UNCHANGED <<racing, pidName, content, starting, failure, crossed>>

Next ==
    \/ ConnectOrStart
    \/ \E p \in Proc :
           \/ BeginStart(p) \/ Ping(p) \/ RecoverStale(p) \/ Recheck(p)
           \/ RunServer(p) \/ Signal(p) \/ GracefulStop(p)
           \/ BeginStop(p) \/ CmdStop(p) \/ Crash(p)

Spec == Init /\ [][Next]_vars

----------------------------------------------------------------------------
(* Properties. *)

TypeOK ==
    /\ racing \in Racing
    /\ pc \in [Proc -> {"idle", "serve"} \cup StartSteps \cup StopSteps \cup ExitSteps]
    /\ fd \in [Proc -> Inode \cup {None}]
    /\ pidName \in Inode \cup {None}
    /\ content \in [Inode -> Proc \cup {None}]
    /\ sock \in Proc \cup {None, Stale}
    /\ target \in [Proc -> Proc \cup {None}]
    /\ asked \in [Proc -> Proc \cup {None}]
    /\ client \in {"idle", "look", "wait"}
    /\ spawns \in 0 .. 2
    /\ child \in Proc \cup {None}
    /\ crashes \in 0 .. MaxCrashes
    /\ {excused, failure, residue, crossed} \subseteq BOOLEAN

\* The pid file's name leads to the inode that a daemon that serves has
\* locked, with its pid in it: whoever ends takes the pid file away only when
\* "this fd still owns that path (no replacement daemon)".
PidFileHeld ==
    \A p \in Proc : pc[p] = "serve" =>
        pidName # None /\ pidName = fd[p] /\ content[pidName] = p

\* A daemon that has told its parent that it is ready can be reached and
\* found: the pid file is its own, and so is the socket's name.  So there is
\* one daemon at a time, no start or stop takes a name from a daemon that is
\* merely slow to answer, and doc/proxchunkd.1 is right that "start is
\* idempotent".
NamesHeld == PidFileHeld /\ \A p \in Proc : pc[p] = "serve" => sock = p

\* NamesHeld, while commands run one at a time and none starts a daemon while
\* another one gives up the pid file; whatever was killed, and when.
LoneNamesHeld == ~racing /\ ~crossed => NamesHeld

\* A start, a stop or a download process that finds things in any state that
\* killed processes may have left them in succeeds; it fails only if something
\* timed out, could not be set up, was killed or was exiting while it ran
\* (section D of tests/test_proxchunkd.sh: "start with stale sock/pid").  Of
\* starts that race each other some may fail as well, but never all of them:
\* when they are over, a daemon serves.  The same goes for the commands after
\* a start has crossed with the end of a daemon.
FailuresHaveCause ==
    failure /\ ~excused /\ ~InProgress =>
        (racing \/ crossed) /\ \E p \in Proc : pc[p] = "serve"

\* When a stop that was answered goes on to remove the names, the daemon that
\* answered is gone, when no other command runs beside it and no start has
\* crossed with the end of a daemon.
StopMeansGone ==
    ~racing /\ ~crossed =>
        \A p \in Proc : pc[p] \in {"s_unsock", "s_unpid"} /\ asked[p] # None =>
            pc[asked[p]] = "idle"

\* Files are left behind by processes that were killed only, and the next
\* daemon's end removes those too, when commands run one at a time.
NothingLeft ==
    ~racing /\ ~residue /\ ~InProgress /\ (\A p \in Proc : pc[p] = "idle") =>
        sock = None /\ pidName = None

=============================================================================
