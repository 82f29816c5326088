-------------------------- MODULE DownloaderProofs --------------------------
(***************************************************************************)
(* The workers of Downloader neither lose nor share a chunk or a pipe, for *)
(* any number of workers, proxies and chunks, whatever the replies; and    *)
(* what they download is a plan, for which PlanProofs shows that it        *)
(* partitions the file.                                                    *)
(*                                                                         *)
(* The argument: a worker's place says whether it has a pipe, a chunk, and *)
(* is counted in flight (WorkInv); so an exit that finds the queue empty   *)
(* and nothing in flight finds every chunk counted.                        *)
(***************************************************************************)
EXTENDS Downloader, PlanProofs, FiniteSetTheorems

Holding == {"transfer", "succeeded", "lost", "requeue"}
Piped == {"take", "transfer", "succeeded", "praise", "lost"}
Flying == {"transfer", "succeeded", "praise", "lost", "requeue", "leave"}
Flight == {w \in Worker : pc[w] \in Flying}

Shape ==
    /\ main \in {"probe", "target", "plan", "wait", "join", "assemble", "ok", "failed"}
    /\ pc \in [Worker -> {"unborn", "peek", "open", "acquire", "take", "transfer",
                          "succeeded", "praise", "lost", "requeue", "leave", "exited"}]
    /\ pipe \in [Worker -> Pipe \cup {NoPipe}]
    /\ hand \in [Worker -> Nat \cup {NoChunk}]
    /\ jobs \in Seq(Nat)
    /\ finished \in Nat /\ failed \in Nat
    /\ direct \in BOOLEAN /\ direct_busy \in BOOLEAN
    /\ leased \subseteq Proxy

\* Workers run from the end of the planning to the join.
Started ==
    /\ main \in {"probe", "target", "plan"} => ~returned
    /\ main \in {"wait", "join", "assemble", "ok"} => returned
    /\ main \notin {"wait", "join"} => \A w \in Worker : pc[w] \in {"unborn", "exited"}
    /\ ~returned => /\ \A w \in Worker : pc[w] = "unborn"
                    /\ jobs = <<>> /\ finished = 0 /\ failed = 0

HandAt == \A w \in Worker : hand[w] # NoChunk <=> pc[w] \in Holding
PipeAt == \A w \in Worker : pipe[w] # NoPipe <=> pc[w] \in Piped

WorkInv == Shape /\ Started /\ HandAt /\ PipeAt

----------------------------------------------------------------------------
(* The composition: planning is Plan's, nothing else touches the plan. *)

LEMMA PlanStepOrStutter == [Next]_vars => [PlanNext]_planVars
<1> SUFFICES ASSUME [Next]_vars PROVE [PlanNext]_planVars
  OBVIOUS
<1>1. CASE UNCHANGED vars
  BY <1>1 DEF vars, setup
<1>2. CASE Main
  BY <1>2 DEF Main, MainStep, Probe, SetTarget, PlanStep, StartWorkers, Wait,
              Join, Assemble, PlanNext
<1>3. CASE Finished
  BY <1>3 DEF Finished, vars, setup
<1>4. ASSUME NEW w \in Worker, Work(w) PROVE UNCHANGED planVars
  BY <1>4 DEF Work, Peek, Open, OpenDirect, DirectTaken, Acquire, TakeNothing,
              Take, Transfer, CountFinished, Praise, Blame, Requeue, Leave, setup
<1>5. QED
  BY <1>1, <1>2, <1>3, <1>4 DEF Next

LEMMA DownloadsPlan == Safety => PlanSpec
<1>1. Init => PlanInit
  BY DEF Init
<1>2. QED
  BY <1>1, PlanStepOrStutter, PTL DEF Safety, PlanSpec

\* plan_chunks and plan_chunks_n, called by run_download with any size and any
\* option: the chunks queued are the file, each byte once and in order.
THEOREM DownloadsPartition == Safety => []Partition
<1>1. QED
  BY DownloadsPlan, PlansPartition, PTL

\* A chunk is never longer, and there are never more of them, than the options
\* of run_download say.
THEOREM DownloadsFair == Safety => []FairShares
<1>1. QED
  BY DownloadsPlan, PlansAreFair, PTL

----------------------------------------------------------------------------
(* The places of the workers. *)

LEMMA InitWorkInv == Init => WorkInv
<1> SUFFICES ASSUME Init PROVE WorkInv
  OBVIOUS
<1> USE DownloaderAssumption
<1>1. Shape
  <2>1. jobs \in Seq(Nat)
    BY DEF Init
  <2>2. QED
    BY <2>1 DEF Init, PlanInit, Shape, Pipe
<1>2. Started
  BY DEF Init, PlanInit, Started
<1>3. HandAt /\ PipeAt
  BY DEF Init, HandAt, PipeAt, Holding, Piped
<1>4. QED
  BY <1>1, <1>2, <1>3 DEF WorkInv

\* A worker moves, and then has pipe p and chunk h (or none).
Moved(w, from, to, p, h) ==
    /\ Running(w, from) /\ Goto(w, to)
    /\ from # "unborn"
    /\ to \in {"peek", "open", "acquire", "take", "transfer", "succeeded", "praise",
               "lost", "requeue", "leave", "exited"}
    /\ p \in Pipe \cup {NoPipe} /\ (p # NoPipe <=> to \in Piped)
    /\ h \in Nat \cup {NoChunk} /\ (h # NoChunk <=> to \in Holding)
    /\ pipe' = [pipe EXCEPT ![w] = p] /\ hand' = [hand EXCEPT ![w] = h]
    /\ jobs' \in Seq(Nat) /\ finished' \in Nat /\ failed' \in Nat
    /\ direct_busy' \in BOOLEAN /\ leased' \subseteq Proxy
    /\ UNCHANGED <<main, direct, returned>>

LEMMA WorkerMoves ==
    ASSUME WorkInv, NEW w \in Worker, NEW from, NEW to, NEW p, NEW h,
           Moved(w, from, to, p, h)
    PROVE  WorkInv'
<1>1. Shape'
  BY DEF Moved, WorkInv, Shape, Goto
<1>2. Started'
  BY DEF Moved, WorkInv, Shape, Started, Running, Goto
<1>3. HandAt' /\ PipeAt'
  BY DEF Moved, WorkInv, Shape, HandAt, PipeAt, Goto
<1>4. QED
  BY <1>1, <1>2, <1>3 DEF WorkInv

LEMMA MainWorkInv == PlanInv /\ WorkInv /\ (Main \/ Finished) => WorkInv'
<1> SUFFICES ASSUME PlanInv, WorkInv, Main \/ Finished PROVE WorkInv'
  OBVIOUS
<1> USE DEF WorkInv
<1>1. ASSUME NEW from, NEW to, MainStep(from, to),
             \/ from = "probe" /\ to \in {"target", "plan", "failed"}
             \/ from = "target" /\ to \in {"plan", "failed"}
             \/ from = "wait" /\ to = "join"
             \/ from = "join" /\ to \in {"assemble", "failed"}
             \/ from = "assemble" /\ to \in {"ok", "failed"},
             from = "join" => \A w \in Worker : pc[w] \in {"unborn", "exited"}
      PROVE  WorkInv'
  <2>1. UNCHANGED <<jobs, pc, pipe, hand, finished, failed, direct, direct_busy,
                    leased, returned>>
    BY <1>1 DEF MainStep, counters, pipes, planVars
  <2>2. main = from /\ main' = to
    BY <1>1 DEF MainStep
  <2>3. Shape' /\ HandAt' /\ PipeAt'
    BY <1>1, <2>1, <2>2 DEF Shape, HandAt, PipeAt
  <2>4. Started'
    BY <1>1, <2>1, <2>2 DEF Started
  <2>5. QED
    BY <2>3, <2>4
<1>2. CASE PlanStep
  <2>1. UNCHANGED <<main, jobs, pc, pipe, hand, finished, failed, direct,
                    direct_busy, leased, returned>>
    BY <1>2 DEF PlanStep, counters, pipes, PushPiece, PushBytes
  <2>2. QED
    BY <2>1 DEF Shape, Started, HandAt, PipeAt
<1>3. CASE StartWorkers
  <2>1. /\ ~returned /\ returned' /\ main = "plan" /\ main' = "wait"
        /\ jobs' = [i \in 1 .. Len(plan) |-> plan[i].id]
        /\ UNCHANGED <<hand, pipe, finished, failed, direct, direct_busy, leased>>
    BY <1>3 DEF StartWorkers, Return, counters, pipes
  <2>2. jobs' \in Seq(Nat)
    <3>1. plan \in Seq(ChunkRange)
      BY DEF PlanInv, PlanTypeOK
    <3>2. Len(plan) \in Nat /\ \A i \in 1 .. Len(plan) : plan[i].id \in Nat
      <4>1. Len(plan) \in Nat /\ \A i \in 1 .. Len(plan) : plan[i] \in ChunkRange
        BY <3>1
      <4>2. \A c \in ChunkRange : c.id \in Nat
        BY DEF ChunkRange
      <4>3. QED
        BY <4>1, <4>2
    <3>3. \A n \in Nat : \A f \in [1 .. n -> Nat] : f \in Seq(Nat)
      OBVIOUS
    <3>4. QED
      BY <2>1, <3>2, <3>3
  <2>3. PICK started \in SUBSET Worker :
            pc' = [w \in Worker |-> IF w \in started THEN "peek" ELSE "unborn"]
    BY <1>3 DEF StartWorkers
  <2>4. \A w \in Worker : pc[w] = "unborn" /\ pc'[w] \in {"peek", "unborn"}
    BY <2>1, <2>3 DEF Started
  <2>5. Shape'
    BY <2>1, <2>2, <2>3 DEF Shape
  <2>6. QED
    BY <2>1, <2>4, <2>5 DEF Started, HandAt, PipeAt, Holding, Piped
<1>4. CASE Finished
  BY <1>4 DEF Finished, vars, setup, counters, pipes, planVars, Shape, Started,
              HandAt, PipeAt
<1>5. CASE Probe
  BY <1>5, <1>1 DEF Probe
<1>6. CASE SetTarget
  BY <1>6, <1>1 DEF SetTarget
<1>7. CASE Wait
  BY <1>7, <1>1 DEF Wait
<1>8. CASE Join
  BY <1>8, <1>1 DEF Join
<1>9. CASE Assemble
  BY <1>9, <1>1 DEF Assemble
<1>10. QED
  BY <1>2, <1>3, <1>4, <1>5, <1>6, <1>7, <1>8, <1>9 DEF Main

\* Each step of a worker is a move.
LEMMA WorkIsMove ==
    ASSUME NEW w \in Worker, WorkInv, Work(w)
    PROVE  \E from, to, p, h : Moved(w, from, to, p, h)
<1> USE DownloaderAssumption
<1>1. /\ pipe[w] \in Pipe \cup {NoPipe} /\ (pipe[w] # NoPipe <=> pc[w] \in Piped)
      /\ hand[w] \in Nat \cup {NoChunk} /\ (hand[w] # NoChunk <=> pc[w] \in Holding)
      /\ pipe = [pipe EXCEPT ![w] = pipe[w]] /\ hand = [hand EXCEPT ![w] = hand[w]]
      /\ jobs \in Seq(Nat) /\ finished \in Nat /\ failed \in Nat
      /\ direct \in BOOLEAN /\ direct_busy \in BOOLEAN /\ leased \subseteq Proxy
      /\ jobs # <<>> => Head(jobs) \in Nat /\ Tail(jobs) \in Seq(Nat)
  BY DEF WorkInv, Shape, HandAt, PipeAt
<1>2. /\ NoPipe \notin Pipe /\ DirectPipe \in Pipe /\ Proxy \subseteq Pipe
      /\ NoChunk \notin Nat /\ NoPipe \in Pipe \cup {NoPipe}
  BY DEF Pipe
<1>3. \A place : Running(w, place) => pc[w] = place
  BY DEF Running
<1> USE DEF setup, planVars, counters, pipes, Holding, Piped, Moved
<1>4. CASE Peek(w)
  <2>1. \/ Moved(w, "peek", "open", pipe[w], hand[w])
        \/ Moved(w, "peek", "exited", pipe[w], hand[w])
    BY <1>1, <1>3, <1>4 DEF Peek
  <2>2. QED
    BY <2>1
<1>5. CASE OpenDirect(w)
  <2>1. Moved(w, "open", "take", DirectPipe, hand[w])
    BY <1>1, <1>2, <1>3, <1>5 DEF OpenDirect
  <2>2. QED
    BY <2>1
<1>6. CASE DirectTaken(w)
  <2>1. Moved(w, "open", "acquire", pipe[w], hand[w])
    BY <1>1, <1>3, <1>6 DEF DirectTaken
  <2>2. QED
    BY <2>1
<1>7. CASE Acquire(w)
  <2>1. CASE Goto(w, "peek") /\ UNCHANGED pipes
    <3>1. Moved(w, "acquire", "peek", pipe[w], hand[w])
      BY <2>1, <1>1, <1>3, <1>7 DEF Acquire
    <3>2. QED
      BY <3>1
  <2>2. ASSUME NEW p \in Proxy \ leased, leased' = leased \cup {p},
               pipe' = [pipe EXCEPT ![w] = p], Goto(w, "take"),
               UNCHANGED direct_busy
        PROVE  Moved(w, "acquire", "take", p, hand[w])
    BY <2>2, <1>1, <1>2, <1>3, <1>7 DEF Acquire
  <2>3. QED
    BY <2>1, <2>2, <1>7 DEF Acquire
<1>8. ASSUME DropPipe(w)
      PROVE  /\ pipe' = [pipe EXCEPT ![w] = NoPipe]
             /\ direct_busy' \in BOOLEAN /\ leased' \subseteq Proxy
  BY <1>1, <1>8 DEF DropPipe
<1>9. CASE TakeNothing(w)
  <2>1. Moved(w, "take", "peek", NoPipe, hand[w])
    BY <1>1, <1>2, <1>3, <1>8, <1>9 DEF TakeNothing
  <2>2. QED
    BY <2>1
<1>10. CASE Take(w)
  <2>1. Moved(w, "take", "transfer", pipe[w], Head(jobs))
    BY <1>1, <1>2, <1>3, <1>10 DEF Take
  <2>2. QED
    BY <2>1
<1>11. CASE Transfer(w)
  <2>1. Goto(w, "succeeded") \/ Goto(w, "lost")
    BY <1>11 DEF Transfer
  <2>2. \/ Moved(w, "transfer", "succeeded", pipe[w], hand[w])
        \/ Moved(w, "transfer", "lost", pipe[w], hand[w])
    BY <2>1, <1>1, <1>3, <1>11 DEF Transfer
  <2>3. QED
    BY <2>2
<1>12. CASE CountFinished(w)
  <2>1. Moved(w, "succeeded", "praise", pipe[w], NoChunk)
    BY <1>1, <1>2, <1>3, <1>12 DEF CountFinished
  <2>2. QED
    BY <2>1
<1>13. CASE Praise(w)
  <2>1. Moved(w, "praise", "leave", NoPipe, hand[w])
    BY <1>1, <1>2, <1>3, <1>8, <1>13 DEF Praise
  <2>2. QED
    BY <2>1
<1>14. CASE Blame(w)
  <2>1. Moved(w, "lost", "requeue", NoPipe, hand[w])
    BY <1>1, <1>2, <1>3, <1>8, <1>14 DEF Blame
  <2>2. QED
    BY <2>1
<1>15. CASE Requeue(w)
  <2>1. pc[w] = "requeue" /\ hand[w] \in Nat
    BY <1>1, <1>3, <1>15 DEF Requeue
  <2>2. jobs' \in Seq(Nat) /\ failed' \in Nat
    <3>1. Append(jobs, hand[w]) \in Seq(Nat)
      BY <2>1, <1>1
    <3>2. /\ jobs' = jobs \/ jobs' = Append(jobs, hand[w])
          /\ failed' = failed \/ failed' = failed + 1
      BY <1>15, Zenon DEF Requeue
    <3>3. failed + 1 \in Nat
      BY <1>1
    <3>4. QED
      BY <3>1, <3>2, <3>3, <1>1, Zenon
  <2>3. Moved(w, "requeue", "leave", pipe[w], NoChunk)
    BY <2>1, <2>2, <1>1, <1>2, <1>3, <1>15 DEF Requeue
  <2>4. QED
    BY <2>3
<1>16. CASE Leave(w)
  <2>1. Moved(w, "leave", "peek", pipe[w], hand[w])
    BY <1>1, <1>3, <1>16 DEF Leave
  <2>2. QED
    BY <2>1
<1>17. QED
  BY <1>4, <1>5, <1>6, <1>7, <1>9, <1>10, <1>11, <1>12, <1>13, <1>14, <1>15,
     <1>16 DEF Work, Open

LEMMA StepWorkInv == PlanInv /\ WorkInv /\ [Next]_vars => WorkInv'
<1> SUFFICES ASSUME PlanInv, WorkInv, [Next]_vars PROVE WorkInv'
  OBVIOUS
<1>1. CASE UNCHANGED vars
  BY <1>1 DEF vars, setup, counters, pipes, planVars, WorkInv, Shape, Started,
              HandAt, PipeAt
<1>2. ASSUME NEW w \in Worker, Work(w) PROVE WorkInv'
  BY <1>2, WorkIsMove, WorkerMoves
<1>3. QED
  BY <1>1, <1>2, MainWorkInv DEF Next

----------------------------------------------------------------------------
(* Pipes. *)

LEMMA StepPipes == WorkInv /\ PipesExclusive /\ [Next]_vars => PipesExclusive'
<1> SUFFICES ASSUME WorkInv, PipesExclusive, [Next]_vars PROVE PipesExclusive'
  OBVIOUS
<1> USE DownloaderAssumption
<1>1. ASSUME UNCHANGED <<pipes, direct>> PROVE PipesExclusive'
  BY <1>1 DEF pipes, PipesExclusive
<1>2. CASE UNCHANGED vars
  BY <1>1, <1>2 DEF vars, setup
<1>3. CASE Main
  BY <1>1, <1>3 DEF Main, MainStep, Probe, SetTarget, PlanStep, StartWorkers, Wait,
                    Join, Assemble
<1>4. CASE Finished
  BY <1>1, <1>4 DEF Finished, vars, setup
<1>5. ASSUME NEW w \in Worker, Work(w) PROVE PipesExclusive'
  <2>1. /\ pipe \in [Worker -> Pipe \cup {NoPipe}] /\ leased \subseteq Proxy
        /\ direct \in BOOLEAN /\ direct_busy \in BOOLEAN
        /\ NoPipe \notin Pipe /\ Proxy = Pipe \ {DirectPipe} /\ DirectPipe \in Pipe
    BY DEF WorkInv, Shape, Pipe
  <2>2. pc[w] \in {"open", "acquire"} => pipe[w] = NoPipe
    BY DEF WorkInv, PipeAt, Piped
  <2>3. CASE OpenDirect(w)
    <3>1. /\ direct \/ ~direct_busy
          /\ pipe[w] = NoPipe /\ direct_busy' = ~direct
          /\ pipe' = [pipe EXCEPT ![w] = DirectPipe]
          /\ UNCHANGED <<direct, leased>>
      BY <2>2, <2>3 DEF OpenDirect, Running, setup
    <3>2. \A v \in Worker : pipe'[v] = IF v = w THEN DirectPipe ELSE pipe[v]
      BY <3>1, <2>1
    <3>3. \A v \in Worker : ~direct => pipe[v] # DirectPipe
      BY <3>1 DEF PipesExclusive
    <3>4. leased' = {pipe'[v] : v \in Worker} \cap Proxy
      BY <3>1, <3>2, <2>1 DEF PipesExclusive
    <3>5. QED
      BY <3>1, <3>2, <3>3, <3>4, <2>1 DEF PipesExclusive
  <2>4. CASE Acquire(w) /\ ~UNCHANGED pipes
    <3>1. PICK p \in Proxy \ leased :
              /\ leased' = leased \cup {p}
              /\ pipe' = [pipe EXCEPT ![w] = p]
      BY <2>4 DEF Acquire
    <3>2. pipe[w] = NoPipe /\ UNCHANGED <<direct, direct_busy>>
      BY <2>2, <2>4 DEF Acquire, Running, setup, pipes
    <3>3. QED
      BY <3>1, <3>2, <2>1 DEF PipesExclusive
  <2>5. CASE DropPipe(w) /\ UNCHANGED direct
    BY <2>1, <2>5 DEF DropPipe, PipesExclusive
  <2>6. CASE UNCHANGED <<pipes, direct>>
    BY <1>1, <2>6
  <2>7. OpenDirect(w) \/ Acquire(w) \/ DropPipe(w) \/ UNCHANGED pipes
    BY <1>5 DEF Work, Peek, Open, DirectTaken, TakeNothing, Take, Transfer,
                CountFinished, Praise, Blame, Requeue, Leave, pipes
  <2>8. UNCHANGED direct
    BY <1>5 DEF Work, Peek, Open, OpenDirect, DirectTaken, Acquire, TakeNothing,
                Take, Transfer, CountFinished, Praise, Blame, Requeue, Leave, setup
  <2>9. QED
    BY <2>3, <2>4, <2>5, <2>6, <2>7, <2>8
<1>6. QED
  BY <1>2, <1>3, <1>4, <1>5 DEF Next

----------------------------------------------------------------------------
(* Chunks. *)

ChunkInv ==
    /\ ChunksConserved
    /\ NoEarlyExit
    /\ IsFiniteSet(InHand)
    /\ inflight = Cardinality(Flight)

LEMMA FlightFinite == IsFiniteSet(Flight) /\ Cardinality(Flight) \in Nat
<1>1. Flight \subseteq Worker
  BY DEF Flight
<1>2. QED
  BY <1>1, DownloaderAssumption, FS_Subset, FS_CardinalityType

LEMMA InitChunkInv == Init => ChunkInv
<1> SUFFICES ASSUME Init PROVE ChunkInv
  OBVIOUS
<1>1. /\ InHand = {} /\ Queued = {} /\ Flight = {} /\ jobs = <<>> /\ Len(jobs) = 0
      /\ \A w \in Worker : hand[w] = NoChunk /\ pc[w] = "unborn"
  BY DEF Init, InHand, Queued, Flight, Flying
<1>2. IsFiniteSet({}) /\ Cardinality({}) = 0
  BY FS_EmptySet
<1>3. ChunksConserved
  BY <1>1, <1>2 DEF Init, PlanInit, ChunksConserved
<1>4. NoEarlyExit
  BY <1>1 DEF NoEarlyExit
<1>5. QED
  BY <1>1, <1>2, <1>3, <1>4 DEF Init, ChunkInv

\* A step that moves no chunk: a worker keeps its chunk and stays in flight or
\* out of it.
LEMMA ChunksStay ==
    ASSUME WorkInv, ChunkInv,
           UNCHANGED <<plan, returned, jobs, hand, inflight, finished, failed>>,
           \A w \in Worker : pc'[w] \in Flying <=> pc[w] \in Flying,
           (\E w \in Worker : pc'[w] = "exited") =>
               \/ \E w \in Worker : pc[w] = "exited"
               \/ returned /\ jobs = <<>> /\ inflight = 0
    PROVE  ChunkInv'
<1>1. Flight' = Flight
  BY DEF Flight
<1>2. InHand' = InHand /\ ChunksConserved'
  BY DEF ChunkInv, InHand, Queued, ChunksConserved
<1>3. ASSUME jobs = <<>>, inflight = 0, returned PROVE finished + failed = Len(plan)
  <2>1. Flight = {}
    BY <1>3, FlightFinite, FS_EmptySet DEF ChunkInv
  <2>2. \A w \in Worker : hand[w] = NoChunk
    BY <2>1 DEF WorkInv, HandAt, Flight, Flying, Holding
  <2>3. InHand = {}
    BY <2>2 DEF InHand
  <2>4. Len(jobs) = 0 /\ Cardinality(InHand) = 0
    BY <1>3, <2>3, FS_EmptySet
  <2>5. QED
    BY <1>3, <2>4 DEF ChunkInv, ChunksConserved, WorkInv, Shape
<1>4. NoEarlyExit'
  BY <1>3 DEF ChunkInv, NoEarlyExit
<1>5. QED
  BY <1>1, <1>2, <1>4 DEF ChunkInv

\* A step that moves a chunk: the sum is kept, and no chunk is counted back.
LEMMA ChunksMove ==
    ASSUME ChunksConserved', NoEarlyExit, returned, Shape',
           UNCHANGED <<plan, returned>>,
           \A w \in Worker : pc'[w] = "exited" => pc[w] = "exited",
           finished' + failed' >= finished + failed,
           finished \in Nat, failed \in Nat, plan \in Seq(ChunkRange),
           IsFiniteSet(InHand)'
    PROVE  NoEarlyExit'
<1>1. /\ Cardinality(InHand') \in Nat /\ Len(jobs') \in Nat
      /\ finished' \in Nat /\ failed' \in Nat /\ Len(plan) \in Nat
  BY FS_CardinalityType DEF Shape
<1>2. finished' + failed' <= Len(plan)
  BY <1>1 DEF ChunksConserved
<1>3. ASSUME finished + failed = Len(plan) PROVE finished' + failed' = Len(plan)
  <2>1. \A a, b, c, e, n \in Nat : a + b >= c + e /\ a + b <= n /\ c + e = n => a + b = n
    OBVIOUS
  <2>2. QED
    BY <2>1, <1>1, <1>2, <1>3, Zenon
<1>4. QED
  BY <1>3 DEF NoEarlyExit

LEMMA TakeChunks ==
    ASSUME PlanInv, WorkInv, ChunkInv, WorkInv', NEW w \in Worker, Take(w)
    PROVE  ChunkInv'
<1> DEFINE c == Head(jobs)
<1> USE DownloaderAssumption
<1>1. /\ pc[w] = "take" /\ hand[w] = NoChunk /\ returned
      /\ jobs # <<>> /\ jobs \in Seq(Nat) /\ jobs' = Tail(jobs)
      /\ hand \in [Worker -> Nat \cup {NoChunk}] /\ hand' = [hand EXCEPT ![w] = c]
      /\ DOMAIN pc = Worker /\ pc' = [pc EXCEPT ![w] = "transfer"]
      /\ inflight' = inflight + 1
      /\ UNCHANGED <<finished, failed, plan, returned>>
      /\ finished \in Nat /\ failed \in Nat /\ plan \in Seq(ChunkRange)
  <2>1. /\ main \in {"wait", "join"} /\ pc[w] = "take" /\ jobs # <<>>
        /\ hand' = [hand EXCEPT ![w] = c] /\ jobs' = Tail(jobs)
        /\ pc' = [pc EXCEPT ![w] = "transfer"] /\ inflight' = inflight + 1
        /\ UNCHANGED <<finished, failed, plan, returned>>
    BY DEF Take, Running, Goto, setup, planVars
  <2>2. hand[w] = NoChunk /\ returned
    BY <2>1 DEF WorkInv, Started, HandAt, Holding
  <2>3. QED
    BY <2>1, <2>2 DEF WorkInv, Shape, PlanInv, PlanTypeOK
<1>2. /\ c = jobs[1] /\ c \in Nat /\ c \in Queued
      /\ Len(jobs') = Len(jobs) - 1 /\ Len(jobs) \in Nat \ {0}
      /\ \A i \in 1 .. Len(jobs) - 1 : jobs'[i] = jobs[i + 1]
      /\ DOMAIN jobs = 1 .. Len(jobs) /\ DOMAIN jobs' = 1 .. Len(jobs) - 1
  BY <1>1 DEF Queued
<1> HIDE DEF c
<1>3. InHand' = InHand \cup {c} /\ c \notin InHand
  BY <1>1, <1>2 DEF InHand, ChunkInv, ChunksConserved
<1>4. \A i, j \in 1 .. Len(jobs) : jobs[i] = jobs[j] => i = j
  BY <1>2 DEF ChunkInv, ChunksConserved
<1>11. Queued' \subseteq Queued /\ c \notin Queued'
  <2>1. \A x \in Queued' : \E i \in 1 .. Len(jobs) - 1 : x = jobs[i + 1]
    BY <1>2 DEF Queued
  <2>2. \A i \in 1 .. Len(jobs) - 1 : jobs[i + 1] \in Queued /\ jobs[i + 1] # jobs[1]
    BY <1>2, <1>4 DEF Queued
  <2>3. QED
    BY <1>2, <2>1, <2>2
<1>5. /\ IsFiniteSet(InHand') /\ Cardinality(InHand') = Cardinality(InHand) + 1
      /\ Cardinality(InHand) \in Nat
  BY <1>3, FS_AddElement, FS_CardinalityType DEF ChunkInv
<1>6. Flight' = Flight \cup {w} /\ w \notin Flight
  BY <1>1 DEF Flight, Flying
<1>7. inflight' = Cardinality(Flight')
  BY <1>1, <1>6, FlightFinite, FS_AddElement DEF ChunkInv
<1>8. ChunksConserved'
  <2>1. \A i, j \in DOMAIN jobs' : jobs'[i] = jobs'[j] => i = j
    BY <1>2, <1>4
  <2>2. \A u, v \in Worker : hand'[u] = hand'[v] /\ hand'[u] # NoChunk => u = v
    BY <1>1, <1>3 DEF ChunkInv, ChunksConserved, InHand
  <2>3. Queued' \cap InHand' = {}
    BY <1>3, <1>11 DEF ChunkInv, ChunksConserved
  <2>4. Len(jobs) + Cardinality(InHand) + finished + failed = Len(plan)
    BY <1>1 DEF ChunkInv, ChunksConserved
  <2>5. Len(jobs') + Cardinality(InHand') + finished' + failed' = Len(plan')
    <3>1. \A a, b \in Nat : (a - 1) + (b + 1) = a + b
      OBVIOUS
    <3>2. Len(jobs) \in Nat /\ Cardinality(InHand) \in Nat /\ finished \in Nat /\ failed \in Nat
      BY <1>1, <1>2, <1>5
    <3>3. /\ Len(jobs') = Len(jobs) - 1 /\ Cardinality(InHand') = Cardinality(InHand) + 1
          /\ finished' = finished /\ failed' = failed /\ plan' = plan
      BY <1>1, <1>2, <1>5
    <3>4. (Len(jobs) - 1) + (Cardinality(InHand) + 1) + finished + failed = Len(plan)
      <4>1. (Len(jobs) - 1) + (Cardinality(InHand) + 1) = Len(jobs) + Cardinality(InHand)
        BY <3>1, <3>2, Zenon
      <4>2. QED
        BY <2>4, <4>1, Zenon
    <3>5. Len(jobs') + Cardinality(InHand') + finished' + failed' = Len(plan)
      BY <3>3, <3>4, Zenon
    <3>6. QED
      BY <3>3, <3>5, Zenon
  <2>6. QED
    BY <2>1, <2>2, <2>3, <2>5, <1>1 DEF ChunksConserved
<1>9. NoEarlyExit'
  BY <1>1, <1>5, <1>8, ChunksMove DEF ChunkInv, WorkInv
<1>10. QED
  BY <1>5, <1>7, <1>8, <1>9 DEF ChunkInv

\* CountFinished and Requeue: the chunk leaves the worker's hand and is counted
\* or queued again.
LEMMA PutChunk ==
    ASSUME PlanInv, WorkInv, ChunkInv, WorkInv', NEW w \in Worker,
           CountFinished(w) \/ Requeue(w)
    PROVE  ChunkInv'
<1> DEFINE c == hand[w]
<1> USE DownloaderAssumption
<1>1. /\ c \in Nat /\ returned
      /\ jobs \in Seq(Nat)
      /\ hand \in [Worker -> Nat \cup {NoChunk}] /\ hand' = [hand EXCEPT ![w] = NoChunk]
      /\ UNCHANGED <<inflight, plan, returned>>
      /\ finished \in Nat /\ failed \in Nat /\ plan \in Seq(ChunkRange)
  <2>1. /\ main \in {"wait", "join"} /\ pc[w] \in Holding
        /\ hand' = [hand EXCEPT ![w] = NoChunk]
        /\ UNCHANGED <<inflight, plan, returned>>
    BY DEF CountFinished, Requeue, Running, setup, planVars, Holding
  <2>2. hand[w] # NoChunk /\ returned
    BY <2>1 DEF WorkInv, Started, HandAt
  <2>3. QED
    BY <2>1, <2>2 DEF WorkInv, Shape, PlanInv, PlanTypeOK
<1>2. \/ jobs' = jobs /\ finished' = finished + 1 /\ failed' = failed
      \/ jobs' = jobs /\ finished' = finished /\ failed' = failed + 1
      \/ jobs' = Append(jobs, c) /\ finished' = finished /\ failed' = failed
  BY Zenon DEF CountFinished, Requeue
<1>3. \A v \in Worker : /\ pc'[v] \in Flying <=> pc[v] \in Flying
                        /\ pc'[v] = "exited" => pc[v] = "exited"
  BY DEF CountFinished, Requeue, Running, Goto, Flying, WorkInv, Shape
<1> HIDE DEF c
<1>4. c \in InHand /\ c \notin Queued
  BY <1>1 DEF InHand, ChunkInv, ChunksConserved, c
<1>5. InHand' = InHand \ {c}
  <2>1. \A v \in Worker : hand[v] = c => v = w
    BY <1>1 DEF ChunkInv, ChunksConserved, c
  <2>2. QED
    BY <1>1, <2>1 DEF InHand, c
<1>6. /\ IsFiniteSet(InHand') /\ Cardinality(InHand') = Cardinality(InHand) - 1
      /\ Cardinality(InHand) \in Nat /\ Cardinality(InHand') \in Nat
  BY <1>4, <1>5, FS_RemoveElement, FS_CardinalityType DEF ChunkInv
<1>7. Flight' = Flight
  BY <1>3 DEF Flight
<1>8. \A i, j \in DOMAIN jobs : jobs[i] = jobs[j] => i = j
  BY DEF ChunkInv, ChunksConserved
<1>9. /\ \A i, j \in DOMAIN jobs' : jobs'[i] = jobs'[j] => i = j
      /\ Queued' \subseteq Queued \cup {c}
      /\ Len(jobs') = IF jobs' = jobs THEN Len(jobs) ELSE Len(jobs) + 1
      /\ Len(jobs) \in Nat
  <2>1. CASE jobs' = jobs
    BY <2>1, <1>1, <1>8 DEF Queued
  <2>2. CASE jobs' = Append(jobs, c)
    <3>1. /\ DOMAIN jobs = 1 .. Len(jobs) /\ DOMAIN jobs' = 1 .. Len(jobs) + 1
          /\ Len(jobs) \in Nat /\ Len(jobs') = Len(jobs) + 1 /\ jobs' # jobs
          /\ jobs'[Len(jobs) + 1] = c
          /\ \A i \in 1 .. Len(jobs) : jobs'[i] = jobs[i]
      BY <2>2, <1>1
    <3>2. \A i \in 1 .. Len(jobs) : jobs[i] # c
      BY <3>1, <1>4 DEF Queued
    <3>3. \A i, j \in DOMAIN jobs' : jobs'[i] = jobs'[j] => i = j
      BY <3>1, <3>2, <1>8
    <3>4. Queued' \subseteq Queued \cup {c}
      BY <3>1 DEF Queued
    <3>5. QED
      BY <3>1, <3>3, <3>4
  <2>3. QED
    BY <2>1, <2>2, <1>2
<1>10. ChunksConserved'
  <2>1. \A u, v \in Worker : hand'[u] = hand'[v] /\ hand'[u] # NoChunk => u = v
    BY <1>1 DEF ChunkInv, ChunksConserved
  <2>2. Queued' \cap InHand' = {}
    BY <1>5, <1>9 DEF ChunkInv, ChunksConserved
  <2>3. Len(jobs) + Cardinality(InHand) + finished + failed = Len(plan)
    BY <1>1 DEF ChunkInv, ChunksConserved
  <2>4. jobs' = Append(jobs, c) => jobs' # jobs
    BY <1>1
  <2>5. Len(jobs') + Cardinality(InHand') + finished' + failed' = Len(plan')
    <3> DEFINE queued == Len(jobs)   held == Cardinality(InHand)
               queuedNow == Len(jobs')   heldNow == Cardinality(InHand')
    <3>1. queued \in Nat /\ held \in Nat /\ finished \in Nat /\ failed \in Nat
      BY <1>1, <1>6, <1>9
    <3>2. /\ queued + held + finished + failed = Len(plan)
          /\ heldNow = held - 1
          /\ queuedNow = IF jobs' = jobs THEN queued ELSE queued + 1
      BY <2>3, <1>6, <1>9
    <3>3. \/ queuedNow = queued /\ finished' = finished + 1 /\ failed' = failed
          \/ queuedNow = queued /\ finished' = finished /\ failed' = failed + 1
          \/ queuedNow = queued + 1 /\ finished' = finished /\ failed' = failed
      BY <2>4, <1>2, <3>2, Zenon
    <3>4. plan' = plan
      BY <1>1
    <3> HIDE DEF queued, held, queuedNow, heldNow
    <3>5. queuedNow + heldNow + finished' + failed' = Len(plan)
      BY <3>1, <3>2, <3>3
    <3>6. QED
      BY <3>4, <3>5, Zenon DEF queuedNow, heldNow
  <2>6. QED
    BY <2>1, <2>2, <2>5, <1>1, <1>9 DEF ChunksConserved
<1>11. NoEarlyExit'
  <2>1. finished' + failed' >= finished + failed
    BY <1>1, <1>2
  <2>2. QED
    BY <2>1, <1>1, <1>3, <1>6, <1>10, ChunksMove DEF ChunkInv, WorkInv
<1>12. QED
  BY <1>1, <1>6, <1>7, <1>10, <1>11 DEF ChunkInv

LEMMA LeaveChunks ==
    ASSUME WorkInv, ChunkInv, NEW w \in Worker, Leave(w)
    PROVE  ChunkInv'
<1>1. /\ pc[w] = "leave" /\ DOMAIN pc = Worker /\ pc' = [pc EXCEPT ![w] = "peek"]
      /\ inflight' = inflight - 1
      /\ UNCHANGED <<jobs, hand, finished, failed, plan, returned>>
  BY DEF Leave, Running, Goto, WorkInv, Shape, setup, planVars
<1>2. Flight' = Flight \ {w} /\ w \in Flight
  BY <1>1 DEF Flight, Flying
<1>3. inflight' = Cardinality(Flight')
  BY <1>1, <1>2, FlightFinite, FS_RemoveElement DEF ChunkInv
<1>4. ChunksConserved' /\ IsFiniteSet(InHand)'
  <2>1. InHand' = InHand /\ Queued' = Queued
    BY <1>1 DEF InHand, Queued
  <2>2. QED
    BY <1>1, <2>1 DEF ChunkInv, ChunksConserved
<1>5. NoEarlyExit'
  <2>1. \A v \in Worker : pc'[v] = "exited" => pc[v] = "exited"
    BY <1>1
  <2>2. QED
    BY <1>1, <2>1 DEF ChunkInv, NoEarlyExit
<1>6. QED
  BY <1>3, <1>4, <1>5 DEF ChunkInv

LEMMA StartChunks == PlanInv /\ WorkInv /\ ChunkInv /\ StartWorkers => ChunkInv'
<1> SUFFICES ASSUME PlanInv, WorkInv, ChunkInv, StartWorkers PROVE ChunkInv'
  OBVIOUS
<1>1. /\ ~returned /\ returned' /\ UNCHANGED <<plan, hand, inflight, finished, failed>>
      /\ jobs' = [i \in 1 .. Len(plan) |-> plan[i].id]
      /\ \A w \in Worker : pc'[w] \in {"peek", "unborn"}
  BY DEF StartWorkers, Return, counters
<1>2. /\ \A w \in Worker : pc[w] = "unborn" /\ hand[w] = NoChunk
      /\ finished = 0 /\ failed = 0
  BY <1>1 DEF WorkInv, Started, HandAt, Holding
<1>3. plan \in Seq(ChunkRange) /\ Len(plan) \in Nat
  BY DEF PlanInv, PlanTypeOK
<1>4. \A i \in 1 .. Len(plan) : plan[i].id = i - 1
  BY DEF PlanInv, Partition
<1>5. /\ DOMAIN jobs' = 1 .. Len(plan) /\ Len(jobs') = Len(plan)
      /\ \A i \in 1 .. Len(plan) : jobs'[i] = i - 1
  BY <1>1, <1>3, <1>4
<1>6. InHand' = {} /\ Flight' = {} /\ Flight = {}
  BY <1>1, <1>2 DEF InHand, Flight, Flying
<1>7. IsFiniteSet({}) /\ Cardinality({}) = 0
  BY FS_EmptySet
<1>8. ChunksConserved'
  <2>1. \A i, j \in DOMAIN jobs' : jobs'[i] = jobs'[j] => i = j
    BY <1>3, <1>5
  <2>2. \A u, v \in Worker : hand'[u] = hand'[v] /\ hand'[u] # NoChunk => u = v
    BY <1>1, <1>2
  <2>3. Len(jobs') + Cardinality(InHand') + finished' + failed' = Len(plan')
    BY <1>1, <1>2, <1>3, <1>5, <1>6, <1>7
  <2>4. QED
    BY <2>1, <2>2, <2>3, <1>1, <1>6 DEF ChunksConserved
<1>9. NoEarlyExit'
  BY <1>1 DEF NoEarlyExit
<1>10. QED
  BY <1>1, <1>6, <1>7, <1>8, <1>9 DEF ChunkInv

LEMMA StepChunkInv ==
    PlanInv /\ WorkInv /\ WorkInv' /\ ChunkInv /\ [Next]_vars => ChunkInv'
<1> SUFFICES ASSUME PlanInv, WorkInv, WorkInv', ChunkInv, [Next]_vars PROVE ChunkInv'
  OBVIOUS
<1>1. ASSUME UNCHANGED <<plan, returned, jobs, hand, inflight, finished, failed, pc>>
      PROVE  ChunkInv'
  BY <1>1, ChunksStay
<1>2. CASE UNCHANGED vars
  BY <1>1, <1>2 DEF vars, setup, planVars, counters
<1>3. ASSUME NEW from, NEW to, MainStep(from, to) PROVE ChunkInv'
  BY <1>1, <1>3 DEF MainStep, planVars, counters
<1>4. CASE Probe \/ SetTarget \/ Wait \/ Join \/ Assemble
  BY <1>3, <1>4 DEF Probe, SetTarget, Wait, Join, Assemble
<1>5. CASE PlanStep
  <2>1. /\ ~returned /\ UNCHANGED <<returned, jobs, hand, pc, inflight, finished, failed>>
    BY <1>5 DEF PlanStep, PushPiece, PushBytes, counters
  <2>2. \A w \in Worker : pc[w] = "unborn"
    BY <2>1 DEF WorkInv, Started
  <2>3. InHand' = InHand /\ Queued' = Queued /\ Flight' = Flight
    BY <2>1 DEF InHand, Queued, Flight
  <2>4. ChunksConserved'
    BY <2>1, <2>3 DEF ChunkInv, ChunksConserved
  <2>5. NoEarlyExit'
    BY <2>1, <2>2 DEF NoEarlyExit
  <2>6. QED
    BY <2>1, <2>3, <2>4, <2>5 DEF ChunkInv
<1>6. CASE StartWorkers
  BY <1>6, StartChunks
<1>7. CASE Finished
  BY <1>2, <1>7 DEF Finished
<1>8. ASSUME NEW w \in Worker, Work(w) PROVE ChunkInv'
  <2>1. CASE Take(w)
    BY <2>1, TakeChunks
  <2>2. CASE CountFinished(w) \/ Requeue(w)
    BY <2>2, PutChunk
  <2>3. CASE Leave(w)
    BY <2>3, LeaveChunks
  <2>4. CASE Peek(w)
    <3>1. /\ UNCHANGED <<plan, returned, jobs, hand, inflight, finished, failed>>
          /\ main \in {"wait", "join"} /\ pc[w] = "peek"
          /\ \/ pc' = [pc EXCEPT ![w] = "open"]
             \/ jobs = <<>> /\ inflight = 0 /\ pc' = [pc EXCEPT ![w] = "exited"]
      BY <2>4 DEF Peek, Running, Goto, setup, planVars, counters
    <3>2. DOMAIN pc = Worker /\ returned
      BY <3>1 DEF WorkInv, Shape, Started
    <3>3. \A v \in Worker : pc'[v] \in Flying <=> pc[v] \in Flying
      BY <3>1, <3>2 DEF Flying
    <3>4. (\E v \in Worker : pc'[v] = "exited") =>
              \/ \E v \in Worker : pc[v] = "exited"
              \/ returned /\ jobs = <<>> /\ inflight = 0
      BY <3>1, <3>2
    <3>5. QED
      BY <3>1, <3>3, <3>4, ChunksStay
  <2>5. CASE Open(w) \/ TakeNothing(w) \/ Transfer(w) \/ Praise(w) \/ Blame(w)
    <3>1. UNCHANGED <<plan, returned, jobs, hand, inflight, finished, failed>>
      BY <2>5 DEF Open, OpenDirect, DirectTaken, Acquire, TakeNothing, Transfer, Praise,
                  Blame, setup, planVars, counters
    <3>2. \E to \in (Piped \cup Flying \cup {"acquire", "peek"}) :
              pc' = [pc EXCEPT ![w] = to] /\ (to \in Flying <=> pc[w] \in Flying)
      BY <2>5 DEF Open, OpenDirect, DirectTaken, Acquire, TakeNothing, Transfer, Praise,
                  Blame, Running, Goto, Flying, Piped
    <3>3. DOMAIN pc = Worker
      BY DEF WorkInv, Shape
    <3>4. \A v \in Worker : pc'[v] \in Flying <=> pc[v] \in Flying
      BY <3>2, <3>3
    <3>5. \A v \in Worker : pc'[v] = "exited" => pc[v] = "exited"
      BY <3>2, <3>3 DEF Flying, Piped
    <3>6. QED
      BY <3>1, <3>4, <3>5, ChunksStay
  <2>6. QED
    BY <1>8, <2>1, <2>2, <2>3, <2>4, <2>5 DEF Work
<1>9. QED
  BY <1>2, <1>4, <1>5, <1>6, <1>7, <1>8 DEF Next, Main

----------------------------------------------------------------------------
(* The theorems. *)

LEMMA DownloadInvariant == Safety => [](PlanInv /\ WorkInv /\ PipesExclusive /\ ChunkInv)
<1>1. Init => PipesExclusive
  BY DownloaderAssumption DEF Init, PipesExclusive, Pipe
<1>2. Safety => []PlanInv
  BY DownloadsPlan, PlanInvariant, PTL
<1>3. Safety => []WorkInv
  BY <1>2, InitWorkInv, StepWorkInv, PTL DEF Safety
<1>4. Safety => []PipesExclusive
  BY <1>1, <1>3, StepPipes, PTL DEF Safety
<1>5. Safety => []ChunkInv
  BY <1>2, <1>3, InitChunkInv, StepChunkInv, PTL DEF Safety
<1>6. QED
  BY <1>2, <1>3, <1>4, <1>5, PTL

\* No two workers of run_download use one pipe, but for --direct, and the
\* proxies they use are the leases the process holds.
THEOREM PipesStayExclusive == Safety => []PipesExclusive
<1>1. QED
  BY DownloadInvariant, PTL

\* jobs, the workers' hands and the counters of run_download neither lose a
\* chunk nor have it twice.
THEOREM ChunksStayConserved == Safety => []ChunksConserved
<1>1. QED
  BY DownloadInvariant, PTL DEF ChunkInv

\* A worker that finds jobs empty and inflight 0 may leave: no chunk is left.
THEOREM NobodyLeavesEarly == Safety => []NoEarlyExit
<1>1. QED
  BY DownloadInvariant, PTL DEF ChunkInv

\* After the join no lease is left at the daemon and nothing is in flight.
THEOREM LeasesReturned == Safety => []AllReturned
<1>1. WorkInv /\ PipesExclusive /\ ChunkInv => AllReturned
  <2> SUFFICES ASSUME WorkInv, PipesExclusive, ChunkInv, main \notin {"wait", "join"}
               PROVE  leased = {} /\ ~direct_busy /\ inflight = 0
    BY DEF AllReturned
  <2>1. \A w \in Worker : pc[w] \in {"unborn", "exited"}
    BY DEF WorkInv, Started
  <2>2. \A w \in Worker : pipe[w] = NoPipe
    BY <2>1 DEF WorkInv, PipeAt, Piped
  <2>3. leased = {} /\ ~direct_busy
    BY <2>2, DownloaderAssumption DEF PipesExclusive, WorkInv, Shape
  <2>4. Flight = {}
    BY <2>1 DEF Flight, Flying
  <2>5. QED
    BY <2>3, <2>4, FS_EmptySet DEF ChunkInv
<1>2. QED
  BY <1>1, DownloadInvariant, PTL

=============================================================================
