----------------------------- MODULE Downloader -----------------------------
(***************************************************************************)
(* run_download of proxchunk (src/proxchunk.cpp): the main thread probes,  *)
(* plans (the steps of Plan), starts the worker threads, waits, joins and  *)
(* assembles; each worker takes a pipe (the direct connection, or a proxy  *)
(* leased from proxchunkd), then a chunk of the plan, transfers it, and    *)
(* gives the pipe back.                                                    *)
(*                                                                         *)
(* One step is one access to shared state: a critical section of work_mtx, *)
(* an atomic counter, direct_busy, an RPC to the daemon, or the transfer   *)
(* of a chunk into its part file, which no other thread touches.           *)
(*                                                                         *)
(* Of the daemon this module keeps the proxies it has leased to this       *)
(* client (ProxyDaemon shows that they are leased to nobody else).  Bytes  *)
(* are counted, and a part remembers whether all of them are the bytes of  *)
(* the file that belong there.  Job::attempts is left out: the code resets *)
(* it at 3 and reads it for nothing else; so is the speed a RELEASE reports.*)
(***************************************************************************)
EXTENDS Plan, FiniteSetsExt, Functions

CONSTANTS
    MaxConcurrent,  \* opt.max_concurrent, when the file is not cut by it
    Worker,
    Proxy,
    DirectPipe, NoPipe, NoChunk,
    MaxProxies,     \* k_max_proxies (32 in the code)
    Modes,          \* the values of opt.direct
    OriginAnswers,  \* a direct transfer always completes
    OtherBodies     \* replies may carry other bytes than the range asked for

ASSUME DownloaderAssumption ==
    /\ Sizes \subseteq Nat \ {0}
    /\ MaxConcurrent \in Nat \ {0}
    /\ IsFiniteSet(Worker) /\ Worker # {}
    /\ DirectPipe \notin Proxy /\ NoPipe \notin Proxy /\ DirectPipe # NoPipe
    /\ NoChunk \notin Nat
    /\ MaxProxies \in Nat \ {0}
    /\ Modes \subseteq BOOLEAN
    /\ OriginAnswers \in BOOLEAN
    /\ OtherBodies \in BOOLEAN

VARIABLES
    direct,       \* opt.direct: the workers all use the direct connection
    main,         \* where the main thread is
    jobs,         \* the queue of chunks
    tried,        \* Job::tried, the number of proxies a chunk was given
    inflight, finished, failed, direct_busy,
    pc, pipe, hand,  \* of each worker: its place, its pipe, its chunk
    part,         \* the part files
    leased        \* proxies the daemon has leased to this client

counters == <<inflight, finished, failed>>
pipes == <<pipe, direct_busy, leased>>
setup == <<planVars, direct, main>>
vars == <<setup, jobs, tried, counters, pc, pipes, hand, part>>

Pipe == Proxy \cup {DirectPipe}

\* The chunks of the plan, by their ids.
Chunk == 0 .. Len(plan) - 1
Bounds(c) == plan[c + 1]
Want(c) == Bounds(c).end - Bounds(c).start + 1

\* The file is cut by opt.chunk_mb if that was given, else into as many pieces
\* as opt.max_concurrent says; main rejects either when it is below 1.
Init ==
    /\ PlanInit
    /\ arg > 0
    /\ direct \in Modes
    /\ main = "probe"
    /\ jobs = <<>>
    /\ tried = <<>>
    /\ inflight = 0 /\ finished = 0 /\ failed = 0
    /\ direct_busy = FALSE
    /\ pc = [w \in Worker |-> "unborn"]
    /\ pipe = [w \in Worker |-> NoPipe]
    /\ hand = [w \in Worker |-> NoChunk]
    /\ part = <<>>
    /\ leased = {}

----------------------------------------------------------------------------
(* The main thread. *)

MainStep(from, to) ==
    /\ main = from
    /\ main' = to
    /\ UNCHANGED <<planVars, direct, jobs, tried, counters, pc, pipes, hand, part>>

\* The probe may fail, or the server may not accept ranges.
Probe ==
    \/ MainStep("probe", IF direct THEN "plan" ELSE "target")
    \/ MainStep("probe", "failed")

\* TARGET must reach the daemon and leave at least one proxy.
SetTarget == MainStep("target", "plan") \/ MainStep("target", "failed")

\* plan_chunks or plan_chunks_n.
PlanStep ==
    /\ main = "plan"
    /\ PushPiece \/ PushBytes
    /\ UNCHANGED <<direct, main, jobs, tried, counters, pc, pipes, hand, part>>

\* One worker for each chunk, at most max_concurrent and at least one; here at
\* most all of Worker, which bounds them.
WorkerCount ==
    LET max_concurrent == IF by = "pieces" THEN arg ELSE MaxConcurrent
    IN  Max({1, Min({max_concurrent, Len(plan), Cardinality(Worker)})})

\* The plan is complete: queue its chunks and start the workers.
StartWorkers ==
    /\ main = "plan" /\ Return
    /\ main' = "wait"
    /\ jobs' = [i \in 1 .. Len(plan) |-> plan[i].id]
    /\ tried' = [c \in Chunk |-> 0]
    /\ part' = [c \in Chunk |-> [size |-> 0, right |-> TRUE]]
    /\ \E started \in SUBSET Worker :
           /\ Cardinality(started) = WorkerCount
           /\ pc' = [w \in Worker |-> IF w \in started THEN "peek" ELSE "unborn"]
    /\ UNCHANGED <<direct, counters, pipes, hand>>

Wait ==
    /\ finished + failed >= Len(plan)
    /\ MainStep("wait", "join")

\* Mutant: the workers are not joined.
JoinEarly ==
    MainStep("join", IF failed > 0 THEN "failed" ELSE "assemble")

Join ==
    /\ \A w \in Worker : pc[w] \in {"unborn", "exited"}
    /\ MainStep("join", IF failed > 0 THEN "failed" ELSE "assemble")

AssembledSize == FoldFunction(+, 0, [c \in Chunk |-> part[c].size])

\* Opening the output may fail; a missing part or a size that is not the
\* file's size fails the download.
Assemble ==
    \/ MainStep("assemble", "failed")
    \/ /\ MainStep("assemble", "ok")
       /\ \A c \in Chunk : part[c].size > 0
       /\ AssembledSize = size

Finished == main \in {"ok", "failed"} /\ UNCHANGED vars

Main ==
    \/ Probe \/ SetTarget \/ PlanStep \/ StartWorkers
    \/ Wait \/ Join \/ Assemble

----------------------------------------------------------------------------
(* A worker. *)

Running(w, place) == main \in {"wait", "join"} /\ pc[w] = place
Goto(w, to) == pc' = [pc EXCEPT ![w] = to]

\* Mutant: an empty queue is taken for the end.
PeekQueueOnly(w) ==
    /\ Running(w, "peek")
    /\ Goto(w, IF jobs # <<>> THEN "open" ELSE "exited")
    /\ UNCHANGED <<setup, jobs, tried, counters, pipes, hand, part>>

\* Look for work; with none to be had but some in flight, look again later.
Peek(w) ==
    /\ Running(w, "peek")
    /\ \/ jobs # <<>> /\ Goto(w, "open")
       \/ jobs = <<>> /\ inflight = 0 /\ Goto(w, "exited")
    /\ UNCHANGED <<setup, jobs, tried, counters, pipes, hand, part>>

\* Mutant: direct_busy is set without being tested.
OpenDirectUntested(w) ==
    /\ Running(w, "open")
    /\ direct_busy' = ~direct
    /\ pipe' = [pipe EXCEPT ![w] = DirectPipe]
    /\ Goto(w, "take")
    /\ UNCHANGED <<setup, jobs, tried, counters, leased, hand, part>>

\* open_pipe: the direct connection if nobody has it, ...
OpenDirect(w) ==
    /\ Running(w, "open")
    /\ direct \/ ~direct_busy
    /\ direct_busy' = ~direct
    /\ pipe' = [pipe EXCEPT ![w] = DirectPipe]
    /\ Goto(w, "take")
    /\ UNCHANGED <<setup, jobs, tried, counters, leased, hand, part>>

DirectTaken(w) ==
    /\ Running(w, "open")
    /\ ~direct /\ direct_busy
    /\ Goto(w, "acquire")
    /\ UNCHANGED <<setup, jobs, tried, counters, pipes, hand, part>>

\* ... else any proxy the daemon can lease, else look again later.
Acquire(w) ==
    /\ Running(w, "acquire")
    /\ \/ /\ Goto(w, "peek")
          /\ UNCHANGED pipes
       \/ \E p \in Proxy \ leased :
              /\ leased' = leased \cup {p}
              /\ pipe' = [pipe EXCEPT ![w] = p]
              /\ Goto(w, "take")
              /\ UNCHANGED direct_busy
    /\ UNCHANGED <<setup, jobs, tried, counters, hand, part>>

Open(w) == OpenDirect(w) \/ DirectTaken(w) \/ Acquire(w)

\* drop_pipe: RELEASE the proxy, or free the direct connection.
DropPipe(w) ==
    /\ pipe' = [pipe EXCEPT ![w] = NoPipe]
    /\ direct_busy' = (direct_busy /\ pipe[w] # DirectPipe)
    /\ leased' = leased \ {pipe[w]}

\* The queue is looked at again: it may have been emptied meanwhile.
TakeNothing(w) ==
    /\ Running(w, "take") /\ jobs = <<>>
    /\ DropPipe(w)
    /\ Goto(w, "peek")
    /\ UNCHANGED <<setup, jobs, tried, counters, hand, part>>

\* Mutant: the chunk taken stays in the queue.
TakeCopy(w) ==
    /\ Running(w, "take") /\ jobs # <<>>
    /\ hand' = [hand EXCEPT ![w] = Head(jobs)]
    /\ inflight' = inflight + 1
    /\ Goto(w, "transfer")
    /\ UNCHANGED <<setup, jobs, tried, finished, failed, pipes, part>>

Take(w) ==
    /\ Running(w, "take") /\ jobs # <<>>
    /\ hand' = [hand EXCEPT ![w] = Head(jobs)]
    /\ jobs' = Tail(jobs)
    /\ inflight' = inflight + 1
    /\ tried' = IF pipe[w] = DirectPipe THEN tried
                ELSE [tried EXCEPT ![Head(jobs)] = @ + 1]
    /\ Goto(w, "transfer")
    /\ UNCHANGED <<setup, finished, failed, pipes, part>>

\* What a transfer over p of the rest of chunk c may bring: some of the range
\* asked for (a stalled or timed out transfer is aborted, see chunk_xfer),
\* another range (nobody looks at Content-Range), the file from its beginning
\* by a server or proxy that ignores the range, or an error page.
Replies(p, c) ==
    LET rest == Want(c) - part[c].size
        partial == [code : {206}, asked : {TRUE}, bytes : 0 .. rest]
        other   == [code : {200, 206, 500}, asked : {FALSE}, bytes : 0 .. size]
    IN  IF p = DirectPipe /\ OriginAnswers
        THEN {[code |-> 206, asked |-> TRUE, bytes |-> rest]}
        ELSE IF OtherBodies THEN partial \cup other ELSE partial

\* Mutant: a retry asks for the range from its start and appends.
AppendedFromStart(c, reply) ==
    [size  |-> part[c].size + reply.bytes,
     right |-> part[c].right /\ (reply.bytes = 0 \/ part[c].size = 0)]

\* The part file with the reply's body appended.
Appended(c, reply) ==
    [size  |-> part[c].size + reply.bytes,
     right |-> /\ part[c].right
               /\ \/ reply.bytes = 0
                  \/ reply.asked
                  \/ /\ reply.code = 200
                     /\ Bounds(c).start + part[c].size = 0
                     /\ reply.bytes <= Want(c)]

\* Mutant: a complete part is taken for an incomplete one.
TransferWantsMore(w) ==
    /\ Running(w, "transfer")
    /\ LET c == hand[w]
       IN  \E reply \in Replies(pipe[w], c) :
               LET new == Appended(c, reply)
               IN  /\ Goto(w, IF new.size > Want(c) THEN "succeeded" ELSE "lost")
                   /\ part' = [part EXCEPT ![c] = new]
    /\ UNCHANGED <<setup, jobs, tried, counters, pipes, hand>>

\* Mutant: an error removes the part with the bytes of earlier transfers.
TransferRemoves(w) ==
    /\ Running(w, "transfer")
    /\ LET c == hand[w]
       IN  \E reply \in Replies(pipe[w], c) :
               LET new == Appended(c, reply)
                   ok  == new.size >= Want(c)
               IN  /\ Goto(w, IF ok THEN "succeeded" ELSE "lost")
                   /\ part' = [part EXCEPT ![c] =
                          IF ok \/ reply.code \in {200, 206} THEN new
                          ELSE [size |-> 0, right |-> TRUE]]
    /\ UNCHANGED <<setup, jobs, tried, counters, pipes, hand>>

\* download_chunk, for a part that is not complete yet: enough bytes on disk
\* are a success; fewer are kept if they came with a 200 or 206, and cut off
\* again otherwise.
Transfer(w) ==
    /\ Running(w, "transfer")
    /\ LET c == hand[w]
       IN  IF part[c].size >= Want(c)
           THEN Goto(w, "succeeded") /\ UNCHANGED part
           ELSE \E reply \in Replies(pipe[w], c) :
                    LET new == Appended(c, reply)
                        ok  == new.size >= Want(c)
                    IN  /\ Goto(w, IF ok THEN "succeeded" ELSE "lost")
                        /\ part' = IF ok \/ reply.code \in {200, 206}
                                   THEN [part EXCEPT ![c] = new] ELSE part
    /\ UNCHANGED <<setup, jobs, tried, counters, pipes, hand>>

CountFinished(w) ==
    /\ Running(w, "succeeded")
    /\ finished' = finished + 1
    /\ hand' = [hand EXCEPT ![w] = NoChunk]
    /\ Goto(w, "praise")
    /\ UNCHANGED <<setup, jobs, tried, inflight, failed, pipes, part>>

Praise(w) ==
    /\ Running(w, "praise")
    /\ DropPipe(w)
    /\ Goto(w, "leave")
    /\ UNCHANGED <<setup, jobs, tried, counters, hand, part>>

Blame(w) ==
    /\ Running(w, "lost")
    /\ DropPipe(w)
    /\ Goto(w, "requeue")
    /\ UNCHANGED <<setup, jobs, tried, counters, hand, part>>

\* Mutant: one proxy too many is tried.
RequeueOnceMore(w) ==
    /\ Running(w, "requeue")
    /\ IF tried[hand[w]] > MaxProxies
       THEN failed' = failed + 1 /\ UNCHANGED jobs
       ELSE jobs' = Append(jobs, hand[w]) /\ UNCHANGED failed
    /\ hand' = [hand EXCEPT ![w] = NoChunk]
    /\ Goto(w, "leave")
    /\ UNCHANGED <<setup, tried, inflight, finished, pipes, part>>

\* A chunk that MaxProxies proxies were tried on is given up.
Requeue(w) ==
    /\ Running(w, "requeue")
    /\ IF tried[hand[w]] >= MaxProxies
       THEN failed' = failed + 1 /\ UNCHANGED jobs
       ELSE jobs' = Append(jobs, hand[w]) /\ UNCHANGED failed
    /\ hand' = [hand EXCEPT ![w] = NoChunk]
    /\ Goto(w, "leave")
    /\ UNCHANGED <<setup, tried, inflight, finished, pipes, part>>

\* Mutant: the chunk is never counted out of flight.
LeaveInFlight(w) ==
    /\ Running(w, "leave")
    /\ Goto(w, "peek")
    /\ UNCHANGED <<setup, jobs, tried, counters, pipes, hand, part>>

Leave(w) ==
    /\ Running(w, "leave")
    /\ inflight' = inflight - 1
    /\ Goto(w, "peek")
    /\ UNCHANGED <<setup, jobs, tried, finished, failed, pipes, hand, part>>

Work(w) ==
    \/ Peek(w) \/ Open(w) \/ TakeNothing(w) \/ Take(w) \/ Transfer(w)
    \/ CountFinished(w) \/ Praise(w) \/ Blame(w) \/ Requeue(w) \/ Leave(w)

Next == Main \/ Finished \/ \E w \in Worker : Work(w)

Safety == Init /\ [][Next]_vars

\* Threads are scheduled, and no step blocks: transfers time out, an ACQUIRE
\* is answered at once.
Spec == Safety /\ WF_vars(Main) /\ \A w \in Worker : WF_vars(Work(w))

----------------------------------------------------------------------------
(* Properties. *)

TypeOK ==
    /\ PlanTypeOK
    /\ direct \in Modes
    /\ main \in {"probe", "target", "plan", "wait", "join", "assemble", "ok", "failed"}
    /\ jobs \in Seq(Chunk)
    /\ tried \in [DOMAIN part -> 0 .. MaxProxies]
    /\ inflight \in 0 .. Cardinality(Worker)
    /\ finished \in 0 .. Len(plan)
    /\ failed \in 0 .. Len(plan)
    /\ direct_busy \in BOOLEAN
    /\ pc \in [Worker -> {"unborn", "peek", "open", "acquire", "take", "transfer",
                          "succeeded", "praise", "lost", "requeue", "leave", "exited"}]
    /\ pipe \in [Worker -> Pipe \cup {NoPipe}]
    /\ hand \in [Worker -> Chunk \cup {NoChunk}]
    /\ part \in [DOMAIN part -> [size : Nat, right : BOOLEAN]]
    /\ DOMAIN part = IF returned THEN Chunk ELSE {}
    /\ leased \subseteq Proxy

Queued == {jobs[i] : i \in DOMAIN jobs}
InHand == {hand[w] : w \in Worker} \ {NoChunk}

\* Every chunk is at one place: once in the queue, in the hand of one worker,
\* or counted as finished or failed.  So no part file has two writers, and no
\* chunk is lost between a failed transfer and its requeue.
ChunksConserved ==
    /\ \A i, j \in DOMAIN jobs : jobs[i] = jobs[j] => i = j
    /\ \A v, w \in Worker : hand[v] = hand[w] /\ hand[v] # NoChunk => v = w
    /\ Queued \cap InHand = {}
    /\ Len(jobs) + Cardinality(InHand) + finished + failed
           = IF returned THEN Len(plan) ELSE 0

\* No worker leaves while a chunk may still come back to the queue, though
\* the chunk in flight is in neither the queue nor a counter.
NoEarlyExit ==
    (\E w \in Worker : pc[w] = "exited") => finished + failed = Len(plan)

\* A pipe has one user: no two workers share a proxy or, but for --direct,
\* the direct connection; and the leases this client holds at the daemon are
\* exactly the proxies its workers use.
PipesExclusive ==
    /\ \A v, w \in Worker :
           pipe[v] = pipe[w] /\ pipe[v] # NoPipe
               => v = w \/ (direct /\ pipe[v] = DirectPipe)
    /\ leased = {pipe[w] : w \in Worker} \cap Proxy
    /\ direct_busy <=> ~direct /\ \E w \in Worker : pipe[w] = DirectPipe

\* When the workers are joined, or were never started, no lease is left at
\* the daemon and nothing is in flight.
AllReturned ==
    main \notin {"wait", "join"} => leased = {} /\ ~direct_busy /\ inflight = 0

\* A chunk to be transferred still lacks bytes: the early return of
\* download_chunk for a complete part never decides, whatever replies and
\* requeues came before, and nothing is appended to a complete part.
Pending ==
    Queued \cup {hand[w] : w \in {v \in Worker :
                       pc[v] \in {"transfer", "lost", "requeue"}}}

PendingIncomplete == \A c \in Pending : part[c].size < Want(c)

\* A saved file is the file: "ok" means that every part has exactly the bytes
\* of its range.  tests/test_download.sh compares the output with the original
\* after injected errors.
SavedIsWhole ==
    main = "ok" => \A c \in Chunk : part[c] = [size |-> Want(c), right |-> TRUE]

\* A retry resumes: no failed transfer takes bytes from a part.
PartsGrow == [][\A c \in DOMAIN part : part'[c].size >= part[c].size]_part

\* The download ends: a chunk that fails comes to a pipe that transfers it, or
\* is given up, and the main thread is not left waiting for a chunk that no
\* counter has.
Ends == <>(main \in {"ok", "failed"})

=============================================================================
