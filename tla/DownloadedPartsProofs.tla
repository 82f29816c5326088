------------------------ MODULE DownloadedPartsProofs ------------------------
(***************************************************************************)
(* What the workers of Downloader write: for any plan and any replies, a   *)
(* transfer resumes and never takes bytes away; and if every body is of    *)
(* the range asked for, what is saved is the file.                         *)
(*                                                                         *)
(* The argument: while no chunk has been given up, every chunk that is     *)
(* neither queued nor being transferred has the bytes it wants (Settled);  *)
(* at the end none is queued or transferred.                               *)
(***************************************************************************)
EXTENDS DownloaderProofs

PartType ==
    IF returned THEN part \in [Chunk -> [size : Nat, right : BOOLEAN]] ELSE part = <<>>

Settled ==
    returned /\ failed = 0 => \A c \in Chunk \ Pending : part[c].size >= Want(c)

Counted ==
    /\ main \in {"join", "assemble", "ok"} => finished + failed = Len(plan)
    /\ main \in {"assemble", "ok"} => failed = 0

\* Only what was asked for is in the parts.
Clean ==
    returned => \A c \in Chunk : part[c].right /\ part[c].size <= Want(c)

PartInv ==
    /\ PartType
    /\ Pending \subseteq Chunk
    /\ PendingIncomplete
    /\ Settled
    /\ ~OtherBodies => Clean

AtWork == {"transfer", "lost", "requeue"}

LEMMA WantPositive ==
    ASSUME PlanInv, NEW c \in Chunk
    PROVE  Want(c) \in Nat \ {0}
<1>1. plan \in Seq(ChunkRange) /\ Len(plan) \in Nat
  BY DEF PlanInv, PlanTypeOK
<1>2. c \in Nat /\ c + 1 \in 1 .. Len(plan)
  BY <1>1 DEF Chunk
<1>3. plan[c + 1] \in ChunkRange /\ plan[c + 1].start <= plan[c + 1].end
  BY <1>1, <1>2 DEF PlanInv, Partition
<1>4. QED
  BY <1>3 DEF Want, Bounds, ChunkRange

LEMMA PendingIs ==
    Pending = Queued \cup {hand[w] : w \in {v \in Worker : pc[v] \in AtWork}}
  BY DEF Pending, AtWork

\* A step that writes nothing and leaves the pending chunks pending, or gives
\* one of them up.
LEMMA PartsStay ==
    ASSUME PartInv, Pending' \subseteq Pending,
           failed' = 0 => failed = 0 /\ Pending' = Pending,
           UNCHANGED <<plan, returned, part>>
    PROVE  PartInv'
<1>1. Chunk' = Chunk /\ \A c : Want(c)' = Want(c)
  BY DEF Chunk, Want, Bounds
<1>2. PartType'
  BY <1>1 DEF PartInv, PartType
<1>3. Pending' \subseteq Chunk' /\ PendingIncomplete'
  BY <1>1 DEF PartInv, PendingIncomplete
<1>4. Settled'
  BY <1>1 DEF PartInv, Settled
<1>5. (~OtherBodies => Clean)'
  BY <1>1 DEF PartInv, Clean
<1>6. QED
  BY <1>2, <1>3, <1>4, <1>5 DEF PartInv

LEMMA InitPartInv == Init => PartInv
<1> SUFFICES ASSUME Init PROVE PartInv
  OBVIOUS
<1>1. /\ ~returned /\ part = <<>> /\ jobs = <<>>
      /\ \A w \in Worker : pc[w] = "unborn"
  BY DEF Init, PlanInit
<1>2. Pending = {}
  BY <1>1, PendingIs DEF Queued, AtWork
<1>3. QED
  BY <1>1, <1>2 DEF PartInv, PartType, PendingIncomplete, Settled, Clean

LEMMA StartParts == PlanInv /\ WorkInv /\ PartInv /\ StartWorkers => PartInv'
<1> SUFFICES ASSUME PlanInv, WorkInv, PartInv, StartWorkers PROVE PartInv'
  OBVIOUS
<1>1. /\ returned' /\ plan' = plan
      /\ jobs' = [i \in 1 .. Len(plan) |-> plan[i].id]
      /\ part' = [c \in Chunk |-> [size |-> 0, right |-> TRUE]]
      /\ \A w \in Worker : pc'[w] \in {"peek", "unborn"}
  BY DEF StartWorkers, Return
<1>2. plan \in Seq(ChunkRange) /\ Len(plan) \in Nat
  BY DEF PlanInv, PlanTypeOK
<1>3. \A i \in 1 .. Len(plan) : plan[i].id = i - 1
  BY DEF PlanInv, Partition
<1>4. /\ DOMAIN jobs' = 1 .. Len(plan)
      /\ \A i \in 1 .. Len(plan) : jobs'[i] = i - 1
  BY <1>1, <1>2, <1>3
<1>5. Chunk' = Chunk /\ \A c : Want(c)' = Want(c)
  BY <1>1 DEF Chunk, Want, Bounds
<1>6. Pending' = Chunk
  <2>1. Queued' = Chunk
    <3>1. \A c \in Chunk : c + 1 \in DOMAIN jobs' /\ jobs'[c + 1] = c
      BY <1>2, <1>4 DEF Chunk
    <3>2. \A i \in DOMAIN jobs' : jobs'[i] \in Chunk
      BY <1>2, <1>4 DEF Chunk
    <3>3. QED
      BY <3>1, <3>2 DEF Queued
  <2>2. {w \in Worker : pc'[w] \in AtWork} = {}
    BY <1>1 DEF AtWork
  <2>3. Pending' = Queued' \cup {hand'[w] : w \in {v \in Worker : pc'[v] \in AtWork}}
    BY DEF Pending, AtWork
  <2>4. QED
    BY <2>1, <2>2, <2>3
<1>7. PartType'
  BY <1>1, <1>5 DEF PartType
<1>8. \A c \in Chunk : Want(c) \in Nat \ {0}
  BY WantPositive
<1>9. \A c \in Chunk : part'[c].size = 0 /\ part'[c].right
  BY <1>1
<1>10. PendingIncomplete' /\ Settled' /\ Clean'
  BY <1>5, <1>6, <1>8, <1>9 DEF PendingIncomplete, Settled, Clean
<1>11. QED
  BY <1>5, <1>6, <1>7, <1>10 DEF PartInv

\* What a transfer leaves in the part file.
LEMMA TransferWrites ==
    ASSUME PlanInv, WorkInv, PartInv, NEW w \in Worker, Transfer(w)
    PROVE  /\ returned /\ hand[w] \in Chunk /\ hand[w] \in Pending
           /\ \E new \in [size : Nat, right : BOOLEAN] :
                  /\ \/ part' = [part EXCEPT ![hand[w]] = new]
                     \/ part' = part
                  /\ new.size >= part[hand[w]].size
                  /\ \/ /\ pc' = [pc EXCEPT ![w] = "succeeded"]
                        /\ part'[hand[w]] = new /\ new.size >= Want(hand[w])
                     \/ /\ pc' = [pc EXCEPT ![w] = "lost"]
                        /\ new.size < Want(hand[w])
                  /\ ~OtherBodies => new.right /\ new.size <= Want(hand[w])
<1> DEFINE c == hand[w]
           rest == Want(c) - part[c].size
<1>1. pc[w] = "transfer" /\ main \in {"wait", "join"}
  BY DEF Transfer, Running
<1>2. returned /\ c \in Pending /\ c \in Chunk
  BY <1>1, PendingIs DEF WorkInv, Started, AtWork, PartInv
<1>3. /\ part \in [Chunk -> [size : Nat, right : BOOLEAN]]
      /\ part[c] \in [size : Nat, right : BOOLEAN]
      /\ part[c].size \in Nat /\ part[c].right \in BOOLEAN
      /\ Want(c) \in Nat \ {0} /\ part[c].size < Want(c)
      /\ ~OtherBodies => part[c].right
  BY <1>2, WantPositive DEF PartInv, PartType, PendingIncomplete, Clean
<1>4. rest \in Nat
  BY <1>3
<1>5. size \in Nat
  BY DownloaderAssumption DEF PlanInv, PlanTypeOK
<1>6. PICK reply \in Replies(pipe[w], c) :
          LET new == Appended(c, reply)
              ok  == new.size >= Want(c)
          IN  /\ Goto(w, IF ok THEN "succeeded" ELSE "lost")
              /\ part' = IF ok \/ reply.code \in {200, 206}
                         THEN [part EXCEPT ![c] = new] ELSE part
  BY <1>3 DEF Transfer
<1>7. /\ reply.bytes \in Nat
      /\ ~OtherBodies => reply.asked /\ reply.bytes <= rest
  <2> DEFINE partial == [code : {206}, asked : {TRUE}, bytes : 0 .. rest]
             other   == [code : {200, 206, 500}, asked : {FALSE}, bytes : 0 .. size]
             whole   == [code |-> 206, asked |-> TRUE, bytes |-> rest]
  <2>1. /\ reply = whole \/ reply \in partial \/ reply \in other
        /\ ~OtherBodies => reply = whole \/ reply \in partial
    BY <1>6 DEF Replies
  <2> HIDE DEF rest
  <2>2. reply = whole => reply.asked = TRUE /\ reply.bytes = rest
    OBVIOUS
  <2>3. reply \in partial => reply.asked = TRUE /\ reply.bytes \in 0 .. rest
    OBVIOUS
  <2>4. reply \in other => reply.bytes \in 0 .. size
    OBVIOUS
  <2> HIDE DEF whole, partial, other
  <2>5. QED
    BY <2>1, <2>2, <2>3, <2>4, <1>4, <1>5
<1> DEFINE new == Appended(c, reply)
<1>8. /\ new \in [size : Nat, right : BOOLEAN]
      /\ new.size = part[c].size + reply.bytes
      /\ ~OtherBodies => new.right
  <2>1. new.size = part[c].size + reply.bytes
    BY DEF Appended
  <2>2. ~OtherBodies => new.right
    BY <1>3, <1>7, Zenon DEF Appended
  <2>3. new \in [size : Nat, right : BOOLEAN]
    <3>1. part[c].size + reply.bytes \in Nat
      BY <1>3, <1>7
    <3>2. QED
      BY <3>1 DEF Appended
  <2>4. QED
    BY <2>1, <2>2, <2>3
<1>9. /\ new.size >= part[c].size
      /\ ~OtherBodies => new.size <= Want(c)
  BY <1>3, <1>7, <1>8
<1>10. /\ Goto(w, IF new.size >= Want(c) THEN "succeeded" ELSE "lost")
       /\ part' = IF new.size >= Want(c) \/ reply.code \in {200, 206}
                  THEN [part EXCEPT ![c] = new] ELSE part
  BY <1>6
<1> HIDE DEF new
<1>11. CASE new.size >= Want(c)
  <2>1. pc' = [pc EXCEPT ![w] = "succeeded"] /\ part' = [part EXCEPT ![c] = new]
    BY <1>10, <1>11 DEF Goto
  <2>2. part'[c] = new
    BY <2>1, <1>2, <1>3
  <2>3. QED
    BY <2>1, <2>2, <1>2, <1>8, <1>9, <1>11
<1>12. CASE ~(new.size >= Want(c))
  <2>1. pc' = [pc EXCEPT ![w] = "lost"]
    BY <1>10, <1>12 DEF Goto
  <2>2. part' = [part EXCEPT ![c] = new] \/ part' = part
    BY <1>10
  <2>3. new.size < Want(c)
    BY <1>12, <1>3, <1>8
  <2>4. QED
    BY <2>1, <2>2, <2>3, <1>2, <1>8, <1>9
<1>13. QED
  BY <1>11, <1>12

LEMMA TransferParts ==
    ASSUME PlanInv, WorkInv, ChunkInv, PartInv, NEW w \in Worker, Transfer(w)
    PROVE  PartInv'
<1> DEFINE c == hand[w]
<1>1. /\ returned /\ c \in Chunk /\ c \in Pending /\ pc[w] = "transfer"
      /\ UNCHANGED <<plan, returned, jobs, hand, failed>>
  BY TransferWrites DEF Transfer, Running, setup, planVars, counters
<1>2. PICK new \in [size : Nat, right : BOOLEAN] :
          /\ part' = [part EXCEPT ![c] = new] \/ part' = part
          /\ new.size >= part[c].size
          /\ \/ /\ pc' = [pc EXCEPT ![w] = "succeeded"]
                /\ part'[c] = new /\ new.size >= Want(c)
             \/ /\ pc' = [pc EXCEPT ![w] = "lost"]
                /\ new.size < Want(c)
          /\ ~OtherBodies => new.right /\ new.size <= Want(c)
  BY TransferWrites
<1>3. Chunk' = Chunk /\ \A e : Want(e)' = Want(e)
  BY <1>1 DEF Chunk, Want, Bounds
<1>4. part \in [Chunk -> [size : Nat, right : BOOLEAN]]
  BY <1>1 DEF PartInv, PartType
<1>5. /\ part' \in [Chunk -> [size : Nat, right : BOOLEAN]]
      /\ \A e \in Chunk : e # c => part'[e] = part[e]
      /\ part'[c] = new \/ part'[c] = part[c]
  BY <1>1, <1>2, <1>4
<1>6. DOMAIN pc = Worker
  BY DEF WorkInv, Shape
<1>7. c \notin Queued /\ \A v \in Worker : hand[v] = c => v = w
  <2>1. c # NoChunk /\ c \in InHand
    BY <1>1 DEF WorkInv, HandAt, Holding, InHand
  <2>2. QED
    BY <2>1 DEF ChunkInv, ChunksConserved
<1>8. Queued' = Queued
  BY <1>1 DEF Queued
<1>9. Pending' = Queued \cup {hand[v] : v \in {u \in Worker : pc'[u] \in AtWork}}
  <2>1. Pending' = Queued' \cup {hand'[v] : v \in {u \in Worker : pc'[u] \in AtWork}}
    BY DEF Pending, AtWork
  <2>2. QED
    BY <2>1, <1>1, <1>8
<1>10. CASE pc' = [pc EXCEPT ![w] = "succeeded"] /\ part'[c] = new /\ new.size >= Want(c)
  <2>1. Pending' = Pending \ {c}
    BY <1>10, <1>1, <1>6, <1>7, <1>9, PendingIs DEF AtWork
  <2>2. QED
    BY <2>1, <1>1, <1>2, <1>3, <1>5, <1>10
       DEF PartInv, PartType, PendingIncomplete, Settled, Clean
<1>11. CASE pc' = [pc EXCEPT ![w] = "lost"] /\ new.size < Want(c)
  <2>1. Pending' = Pending
    BY <1>11, <1>1, <1>6, <1>9, PendingIs DEF AtWork
  <2>2. QED
    BY <2>1, <1>1, <1>2, <1>3, <1>5, <1>11
       DEF PartInv, PartType, PendingIncomplete, Settled, Clean
<1>12. QED
  BY <1>2, <1>10, <1>11

\* The other steps of a worker leave the pending chunks pending, or give one up.
LEMMA WorkPending ==
    ASSUME WorkInv, NEW w \in Worker, Work(w), ~Transfer(w)
    PROVE  /\ UNCHANGED <<plan, returned, part>>
           /\ Pending' \subseteq Pending
           /\ failed' = 0 => failed = 0 /\ Pending' = Pending
<1>1. DOMAIN pc = Worker /\ DOMAIN hand = Worker /\ failed \in Nat /\ jobs \in Seq(Nat)
  BY DEF WorkInv, Shape
<1>2. UNCHANGED <<plan, returned, part>>
  BY DEF Work, Peek, Open, OpenDirect, DirectTaken, Acquire, TakeNothing, Take,
         CountFinished, Praise, Blame, Requeue, Leave, setup, planVars
<1>3. Pending' = Queued' \cup {hand'[v] : v \in {u \in Worker : pc'[u] \in AtWork}}
  BY DEF Pending, AtWork
<1>4. ASSUME UNCHANGED <<jobs, hand, failed>>,
             NEW to, pc' = [pc EXCEPT ![w] = to], to \in AtWork <=> pc[w] \in AtWork
      PROVE  Pending' = Pending /\ failed' = failed
  <2>1. Queued' = Queued
    BY <1>4 DEF Queued
  <2>2. \A v \in Worker : pc'[v] \in AtWork <=> pc[v] \in AtWork
    BY <1>1, <1>4
  <2>3. QED
    BY <2>1, <2>2, <1>3, <1>4, PendingIs
<1>5. CASE Peek(w) \/ Open(w) \/ TakeNothing(w) \/ Praise(w) \/ Blame(w) \/ Leave(w)
  <2>1. UNCHANGED <<jobs, hand, failed>>
    BY <1>5 DEF Peek, Open, OpenDirect, DirectTaken, Acquire, TakeNothing, Praise, Blame,
                Leave, counters
  <2>2. \E to : pc' = [pc EXCEPT ![w] = to] /\ (to \in AtWork <=> pc[w] \in AtWork)
    BY <1>5 DEF Peek, Open, OpenDirect, DirectTaken, Acquire, TakeNothing, Praise, Blame,
                Leave, Running, Goto, AtWork
  <2>3. QED
    BY <2>1, <2>2, <1>2, <1>4
<1>6. CASE Take(w)
  <2>1. /\ jobs # <<>> /\ pc[w] = "take" /\ failed' = failed /\ jobs' = Tail(jobs)
        /\ hand' = [hand EXCEPT ![w] = Head(jobs)]
        /\ pc' = [pc EXCEPT ![w] = "transfer"]
    BY <1>6 DEF Take, Running, Goto
  <2>2. Queued = Queued' \cup {Head(jobs)}
    <3>1. /\ Len(jobs) \in Nat \ {0} /\ DOMAIN jobs = 1 .. Len(jobs)
          /\ DOMAIN jobs' = 1 .. Len(jobs) - 1 /\ Head(jobs) = jobs[1]
          /\ \A i \in 1 .. Len(jobs) - 1 : jobs'[i] = jobs[i + 1]
      BY <2>1, <1>1
    <3>2. \A i \in 1 .. Len(jobs) : i # 1 => i - 1 \in DOMAIN jobs' /\ jobs[i] = jobs'[i - 1]
      BY <3>1
    <3>3. \A i \in DOMAIN jobs' : i + 1 \in DOMAIN jobs /\ jobs'[i] = jobs[i + 1]
      BY <3>1
    <3>4. 1 \in DOMAIN jobs
      BY <3>1
    <3>5. Queued \subseteq Queued' \cup {Head(jobs)}
      BY <3>1, <3>2 DEF Queued
    <3>6. Queued' \cup {Head(jobs)} \subseteq Queued
      BY <3>1, <3>3, <3>4 DEF Queued
    <3>7. QED
      BY <3>5, <3>6
  <2>3. {hand'[v] : v \in {u \in Worker : pc'[u] \in AtWork}}
            = {hand[v] : v \in {u \in Worker : pc[u] \in AtWork}} \cup {Head(jobs)}
    BY <2>1, <1>1 DEF AtWork
  <2>4. QED
    BY <2>1, <2>2, <2>3, <1>2, <1>3, PendingIs
<1>7. CASE CountFinished(w)
  <2>1. /\ pc[w] = "succeeded" /\ UNCHANGED <<jobs, failed>>
        /\ hand' = [hand EXCEPT ![w] = NoChunk]
        /\ pc' = [pc EXCEPT ![w] = "praise"]
    BY <1>7 DEF CountFinished, Running, Goto
  <2>2. Queued' = Queued
    BY <2>1 DEF Queued
  <2>3. {hand'[v] : v \in {u \in Worker : pc'[u] \in AtWork}}
            = {hand[v] : v \in {u \in Worker : pc[u] \in AtWork}}
    BY <2>1, <1>1 DEF AtWork
  <2>4. QED
    BY <2>1, <2>2, <2>3, <1>2, <1>3, PendingIs
<1>8. CASE Requeue(w)
  <2>1. /\ pc[w] = "requeue" /\ hand' = [hand EXCEPT ![w] = NoChunk]
        /\ pc' = [pc EXCEPT ![w] = "leave"]
        /\ hand[w] \in Nat
    <3>1. /\ pc[w] = "requeue" /\ hand' = [hand EXCEPT ![w] = NoChunk]
          /\ pc' = [pc EXCEPT ![w] = "leave"]
      BY <1>8 DEF Requeue, Running, Goto
    <3>2. QED
      BY <3>1 DEF WorkInv, HandAt, Holding, Shape
  <2>2. {hand[v] : v \in {u \in Worker : pc[u] \in AtWork}}
            = {hand'[v] : v \in {u \in Worker : pc'[u] \in AtWork}} \cup {hand[w]}
    BY <2>1, <1>1 DEF AtWork
  <2>3. \/ failed' = failed + 1 /\ jobs' = jobs
        \/ failed' = failed /\ jobs' = Append(jobs, hand[w])
    BY <1>8, Zenon DEF Requeue
  <2>4. CASE failed' = failed + 1 /\ jobs' = jobs
    <3>1. Queued' = Queued /\ failed' # 0
      BY <2>4, <1>1 DEF Queued
    <3>2. QED
      BY <3>1, <2>2, <1>2, <1>3, PendingIs
  <2>5. CASE failed' = failed /\ jobs' = Append(jobs, hand[w])
    <3>1. Queued' = Queued \cup {hand[w]}
      <4>1. /\ Len(jobs) \in Nat /\ DOMAIN jobs = 1 .. Len(jobs)
            /\ DOMAIN jobs' = 1 .. Len(jobs) + 1
            /\ jobs'[Len(jobs) + 1] = hand[w]
            /\ \A i \in 1 .. Len(jobs) : jobs'[i] = jobs[i]
        BY <2>5, <2>1, <1>1
      <4>2. DOMAIN jobs' = DOMAIN jobs \cup {Len(jobs) + 1}
        BY <4>1
      <4>3. QED
        BY <4>1, <4>2 DEF Queued
    <3>2. QED
      BY <3>1, <2>2, <2>5, <1>2, <1>3, PendingIs
  <2>6. QED
    BY <2>3, <2>4, <2>5
<1>9. QED
  BY <1>5, <1>6, <1>7, <1>8 DEF Work

LEMMA StepPartInv ==
    PlanInv /\ WorkInv /\ ChunkInv /\ PartInv /\ [Next]_vars => PartInv'
<1> SUFFICES ASSUME PlanInv, WorkInv, ChunkInv, PartInv, [Next]_vars PROVE PartInv'
  OBVIOUS
<1>1. ASSUME UNCHANGED <<plan, returned, jobs, hand, failed, part, pc>>
      PROVE  PartInv'
  <2>1. Pending' = Pending
    BY <1>1 DEF Pending, Queued
  <2>2. QED
    BY <1>1, <2>1, PartsStay
<1>2. CASE UNCHANGED vars
  BY <1>1, <1>2 DEF vars, setup, planVars, counters
<1>3. ASSUME NEW from, NEW to, MainStep(from, to) PROVE PartInv'
  BY <1>1, <1>3 DEF MainStep, planVars, counters
<1>4. CASE Probe \/ SetTarget \/ Wait \/ Join \/ Assemble
  BY <1>3, <1>4 DEF Probe, SetTarget, Wait, Join, Assemble
<1>5. CASE PlanStep
  <2>1. ~returned /\ UNCHANGED <<returned, part, jobs, pc, hand>>
    BY <1>5 DEF PlanStep, PushPiece, PushBytes
  <2>2. jobs = <<>> /\ \A w \in Worker : pc[w] = "unborn"
    BY <2>1 DEF WorkInv, Started
  <2>3. Pending' = {}
    BY <2>1, <2>2 DEF Pending, Queued
  <2>4. QED
    BY <2>1, <2>3 DEF PartInv, PartType, PendingIncomplete, Settled, Clean
<1>6. CASE StartWorkers
  BY <1>6, StartParts
<1>7. CASE Finished
  BY <1>2, <1>7 DEF Finished
<1>8. ASSUME NEW w \in Worker, Work(w) PROVE PartInv'
  BY <1>8, TransferParts, WorkPending, PartsStay
<1>9. QED
  BY <1>2, <1>4, <1>5, <1>6, <1>7, <1>8 DEF Next, Main

\* After the wait every chunk is counted, and after the join none was given up.
LEMMA StepCounted ==
    PlanInv /\ WorkInv /\ ChunkInv /\ Counted /\ [Next]_vars => Counted'
<1> SUFFICES ASSUME PlanInv, WorkInv, ChunkInv, Counted, [Next]_vars PROVE Counted'
  OBVIOUS
<1>1. /\ finished \in Nat /\ failed \in Nat /\ Len(plan) \in Nat /\ Len(jobs) \in Nat
      /\ Cardinality(InHand) \in Nat
  BY FS_CardinalityType DEF WorkInv, Shape, ChunkInv, PlanInv, PlanTypeOK
<1>2. returned => finished + failed <= Len(plan)
  BY <1>1 DEF ChunkInv, ChunksConserved
<1>3. CASE UNCHANGED vars
  BY <1>3 DEF vars, setup, planVars, counters, Counted
<1>4. ASSUME NEW from, NEW to, MainStep(from, to),
             \/ to \notin {"join", "assemble", "ok"}
             \/ from = "wait" /\ to = "join" /\ finished + failed >= Len(plan)
             \/ from = "join" /\ to = "assemble" /\ ~(failed > 0)
             \/ from = "assemble" /\ to = "ok"
      PROVE  Counted'
  <2>1. main = from /\ main' = to /\ UNCHANGED <<finished, failed, plan>>
    BY <1>4 DEF MainStep, counters, planVars
  <2>2. main = "wait" => returned
    BY DEF WorkInv, Started
  <2>3. QED
    BY <1>1, <1>2, <1>4, <2>1, <2>2 DEF Counted
<1>5. CASE Probe \/ SetTarget \/ Wait \/ Join \/ Assemble
  BY <1>4, <1>5 DEF Probe, SetTarget, Wait, Join, Assemble
<1>6. CASE PlanStep \/ StartWorkers
  BY <1>6 DEF PlanStep, StartWorkers, Counted
<1>7. CASE Finished
  BY <1>3, <1>7 DEF Finished
<1>8. ASSUME NEW w \in Worker, Work(w) PROVE Counted'
  <2>1. main' = main /\ main \in {"wait", "join"} /\ plan' = plan
    BY <1>8 DEF Work, Peek, Open, OpenDirect, DirectTaken, Acquire, TakeNothing, Take,
                Transfer, CountFinished, Praise, Blame, Requeue, Leave, Running, setup,
                planVars
  <2>2. CASE UNCHANGED <<finished, failed>>
    BY <2>1, <2>2 DEF Counted
  <2>3. CASE CountFinished(w) \/ Requeue(w)
    <3>1. pc[w] \in Holding
      BY <2>3 DEF CountFinished, Requeue, Running, Holding
    <3>2. hand[w] \in InHand
      BY <3>1 DEF WorkInv, HandAt, InHand
    <3>3. Cardinality(InHand) # 0
      BY <3>2, FS_EmptySet DEF ChunkInv
    <3>4. finished + failed < Len(plan)
      <4>1. returned
        BY <2>1 DEF WorkInv, Started
      <4>2. QED
        BY <4>1, <3>3, <1>1 DEF ChunkInv, ChunksConserved
    <3>5. main = "wait"
      BY <2>1, <3>4, <1>1 DEF Counted
    <3>6. QED
      BY <2>1, <3>5 DEF Counted
  <2>4. QED
    BY <1>8, <2>2, <2>3 DEF Work, Peek, Open, OpenDirect, DirectTaken, Acquire, TakeNothing,
                Take, Transfer, Praise, Blame, Leave, counters
<1>9. QED
  BY <1>3, <1>5, <1>6, <1>7, <1>8 DEF Next, Main

----------------------------------------------------------------------------
(* Types.  A chunk in the queue may be given to one more proxy. *)

TriedInv ==
    /\ direct \in Modes
    /\ InHand \subseteq Chunk
    /\ IF returned THEN tried \in [Chunk -> 0 .. MaxProxies] ELSE tried = <<>>
    /\ \A c \in Queued : tried[c] < MaxProxies

LEMMA InitTriedInv == Init => TriedInv
<1> SUFFICES ASSUME Init PROVE TriedInv
  OBVIOUS
<1>1. Queued = {} /\ InHand = {}
  BY DEF Init, Queued, InHand
<1>2. QED
  BY <1>1 DEF Init, PlanInit, TriedInv

LEMMA TakeTried ==
    ASSUME WorkInv, ChunkInv, PartInv, TriedInv, NEW w \in Worker, Take(w), returned
    PROVE  TriedInv'
<1> USE DownloaderAssumption
<1>1. /\ jobs \in Seq(Nat) /\ hand \in [Worker -> Nat \cup {NoChunk}]
      /\ tried \in [Chunk -> 0 .. MaxProxies] /\ Queued \subseteq Chunk
  BY DEF WorkInv, Shape, TriedInv, PartInv, Pending
<1>2. /\ jobs # <<>> /\ jobs' = Tail(jobs)
      /\ hand' = [hand EXCEPT ![w] = Head(jobs)]
      /\ UNCHANGED <<direct, plan, returned>>
  BY DEF Take, setup, planVars
<1>3. \/ tried' = tried
      \/ tried' = [tried EXCEPT ![Head(jobs)] = @ + 1]
  BY Zenon DEF Take
<1>4. /\ Len(jobs) \in Nat \ {0} /\ DOMAIN jobs = 1 .. Len(jobs)
      /\ DOMAIN jobs' = 1 .. Len(jobs) - 1 /\ Head(jobs) = jobs[1]
      /\ \A i \in 1 .. Len(jobs) - 1 : jobs'[i] = jobs[i + 1]
  BY <1>1, <1>2
<1>5. \A i, j \in 1 .. Len(jobs) : jobs[i] = jobs[j] => i = j
  BY <1>4 DEF ChunkInv, ChunksConserved
<1>6. Head(jobs) \in Queued /\ Queued' \subseteq Queued /\ Head(jobs) \notin Queued'
  BY <1>4, <1>5 DEF Queued
<1>7. InHand' \subseteq InHand \cup {Head(jobs)}
  BY <1>1, <1>2 DEF InHand
<1>8. Head(jobs) \in Chunk /\ tried[Head(jobs)] < MaxProxies
  BY <1>1, <1>6 DEF TriedInv
<1>9. /\ tried' \in [Chunk -> 0 .. MaxProxies]
      /\ \A c \in Chunk : c # Head(jobs) => tried'[c] = tried[c]
  BY <1>1, <1>3, <1>8
<1>10. \A c \in Queued' : tried'[c] < MaxProxies
  BY <1>1, <1>6, <1>9 DEF TriedInv
<1>11. Chunk' = Chunk
  BY <1>2 DEF Chunk
<1>12. QED
  BY <1>2, <1>7, <1>8, <1>9, <1>10, <1>11 DEF TriedInv

LEMMA RequeueTried ==
    ASSUME WorkInv, PartInv, TriedInv, NEW w \in Worker, Requeue(w), returned
    PROVE  TriedInv'
<1> USE DownloaderAssumption
<1>1. /\ jobs \in Seq(Nat) /\ hand \in [Worker -> Nat \cup {NoChunk}]
      /\ tried \in [Chunk -> 0 .. MaxProxies]
  BY DEF WorkInv, Shape, TriedInv
<1>2. /\ pc[w] = "requeue" /\ hand' = [hand EXCEPT ![w] = NoChunk]
      /\ UNCHANGED <<direct, plan, returned, tried>>
  BY DEF Requeue, Running, setup, planVars
<1>3. hand[w] \in Chunk /\ hand[w] \in Nat
  BY <1>1, <1>2 DEF WorkInv, HandAt, Holding, TriedInv, InHand
<1>4. tried[hand[w]] \in 0 .. MaxProxies
  BY <1>1, <1>3
<1>5. \/ jobs' = jobs
      \/ jobs' = Append(jobs, hand[w]) /\ ~(tried[hand[w]] >= MaxProxies)
  BY Zenon DEF Requeue
<1>6. Queued' \subseteq Queued \cup {hand[w]}
  <2>1. CASE jobs' = jobs
    BY <2>1 DEF Queued
  <2>2. CASE jobs' = Append(jobs, hand[w])
    <3>1. /\ Len(jobs) \in Nat /\ DOMAIN jobs = 1 .. Len(jobs)
          /\ DOMAIN jobs' = 1 .. Len(jobs) + 1
          /\ jobs'[Len(jobs) + 1] = hand[w]
          /\ \A i \in 1 .. Len(jobs) : jobs'[i] = jobs[i]
      BY <2>2, <1>1, <1>3
    <3>2. QED
      BY <3>1 DEF Queued
  <2>3. QED
    BY <1>5, <2>1, <2>2
<1>7. \A c \in Queued' : tried[c] < MaxProxies
  <2>1. CASE jobs' = jobs
    BY <2>1 DEF Queued, TriedInv
  <2>2. CASE ~(tried[hand[w]] >= MaxProxies)
    BY <2>2, <1>4, <1>6 DEF TriedInv
  <2>3. QED
    BY <1>5, <2>1, <2>2
<1>8. InHand' \subseteq InHand /\ Chunk' = Chunk
  BY <1>1, <1>2 DEF InHand, Chunk
<1>9. QED
  BY <1>2, <1>7, <1>8 DEF TriedInv

LEMMA StartTried == PlanInv /\ WorkInv /\ TriedInv /\ StartWorkers => TriedInv'
<1> SUFFICES ASSUME PlanInv, WorkInv, TriedInv, StartWorkers PROVE TriedInv'
  OBVIOUS
<1> USE DownloaderAssumption
<1>1. /\ ~returned /\ returned' /\ UNCHANGED <<direct, plan, hand>>
      /\ jobs' = [i \in 1 .. Len(plan) |-> plan[i].id]
      /\ tried' = [c \in Chunk |-> 0]
  BY DEF StartWorkers, Return
<1>2. plan \in Seq(ChunkRange) /\ Len(plan) \in Nat
  BY DEF PlanInv, PlanTypeOK
<1>3. \A i \in 1 .. Len(plan) : plan[i].id = i - 1
  BY DEF PlanInv, Partition
<1>4. Queued' \subseteq Chunk
  BY <1>1, <1>2, <1>3 DEF Queued, Chunk
<1>5. Chunk' = Chunk /\ InHand' = InHand
  BY <1>1 DEF Chunk, InHand
<1>6. QED
  BY <1>1, <1>4, <1>5 DEF TriedInv

LEMMA StepTriedInv ==
    PlanInv /\ WorkInv /\ ChunkInv /\ PartInv /\ TriedInv /\ [Next]_vars => TriedInv'
<1> SUFFICES ASSUME PlanInv, WorkInv, ChunkInv, PartInv, TriedInv, [Next]_vars
             PROVE  TriedInv'
  OBVIOUS
<1> USE DownloaderAssumption
<1>1. ASSUME UNCHANGED <<direct, plan, returned, jobs, hand, tried>> PROVE TriedInv'
  BY <1>1 DEF TriedInv, InHand, Queued, Chunk
<1>2. CASE UNCHANGED vars
  BY <1>1, <1>2 DEF vars, setup, planVars
<1>3. ASSUME NEW from, NEW to, MainStep(from, to) PROVE TriedInv'
  BY <1>1, <1>3 DEF MainStep, planVars
<1>4. CASE Probe \/ SetTarget \/ Wait \/ Join \/ Assemble
  BY <1>3, <1>4 DEF Probe, SetTarget, Wait, Join, Assemble
<1>5. CASE Finished
  BY <1>2, <1>5 DEF Finished
<1>6. CASE PlanStep
  <2>1. ~returned /\ UNCHANGED <<direct, returned, jobs, hand, pc, tried>>
    BY <1>6 DEF PlanStep, PushPiece, PushBytes
  <2>2. jobs = <<>> /\ \A w \in Worker : hand[w] = NoChunk
    BY <2>1 DEF WorkInv, Started, HandAt, Holding
  <2>3. Queued' = {} /\ InHand' = {}
    BY <2>1, <2>2 DEF Queued, InHand
  <2>4. QED
    BY <2>1, <2>3 DEF TriedInv
<1>7. CASE StartWorkers
  BY <1>7, StartTried
<1>8. ASSUME NEW w \in Worker, Work(w) PROVE TriedInv'
  <2>1. /\ main \in {"wait", "join"} /\ UNCHANGED <<direct, plan, returned>>
    BY <1>8 DEF Work, Peek, Open, OpenDirect, DirectTaken, Acquire, TakeNothing, Take,
                Transfer, CountFinished, Praise, Blame, Requeue, Leave, Running, setup,
                planVars
  <2>2. returned
    BY <2>1 DEF WorkInv, Started
  <2>3. CASE Take(w)
    BY <2>2, <2>3, TakeTried
  <2>4. CASE Requeue(w)
    BY <2>2, <2>4, RequeueTried
  <2>5. CASE CountFinished(w)
    <3>1. hand' = [hand EXCEPT ![w] = NoChunk] /\ UNCHANGED <<jobs, tried>>
      BY <2>5 DEF CountFinished
    <3>2. InHand' \subseteq InHand /\ Queued' = Queued /\ Chunk' = Chunk
      BY <2>1, <3>1 DEF InHand, Queued, Chunk, WorkInv, Shape
    <3>3. QED
      BY <2>1, <3>1, <3>2 DEF TriedInv
  <2>6. CASE UNCHANGED <<jobs, hand, tried>>
    BY <2>1, <2>6, <1>1
  <2>7. QED
    BY <1>8, <2>3, <2>4, <2>5, <2>6
       DEF Work, Peek, Open, OpenDirect, DirectTaken, Acquire, TakeNothing, Transfer,
           Praise, Blame, Leave
<1>9. QED
  BY <1>2, <1>4, <1>5, <1>6, <1>7, <1>8 DEF Next, Main

LEMMA Typed ==
    PlanInv /\ WorkInv /\ ChunkInv /\ PartInv /\ TriedInv => TypeOK
<1> SUFFICES ASSUME PlanInv, WorkInv, ChunkInv, PartInv, TriedInv PROVE TypeOK
  OBVIOUS
<1>1. \A S : <<>> \in [{} -> S]
  OBVIOUS
<1>2. /\ DOMAIN part = IF returned THEN Chunk ELSE {}
      /\ tried \in [DOMAIN part -> 0 .. MaxProxies]
      /\ part \in [DOMAIN part -> [size : Nat, right : BOOLEAN]]
  <2>1. CASE returned
    BY <2>1 DEF PartInv, PartType, TriedInv
  <2>2. CASE ~returned
    BY <2>2, <1>1 DEF PartInv, PartType, TriedInv
  <2>3. QED
    BY <2>1, <2>2
<1>3. jobs \in Seq(Chunk)
  <2>1. jobs \in Seq(Nat) /\ \A i \in DOMAIN jobs : jobs[i] \in Chunk
    BY DEF WorkInv, Shape, PartInv, Pending, Queued
  <2>2. Len(jobs) \in Nat /\ DOMAIN jobs = 1 .. Len(jobs)
    BY <2>1
  <2>3. jobs = [i \in 1 .. Len(jobs) |-> jobs[i]]
    BY <2>1
  <2>4. QED
    BY <2>1, <2>2, <2>3
<1>4. hand \in [Worker -> Chunk \cup {NoChunk}]
  BY DEF WorkInv, Shape, TriedInv, InHand
<1>5. inflight \in 0 .. Cardinality(Worker)
  <2>1. Flight \subseteq Worker
    BY DEF Flight
  <2>2. Cardinality(Flight) <= Cardinality(Worker) /\ Cardinality(Worker) \in Nat
    BY <2>1, DownloaderAssumption, FS_Subset, FS_CardinalityType
  <2>3. QED
    BY <2>2, FlightFinite DEF ChunkInv
<1>6. finished \in 0 .. Len(plan) /\ failed \in 0 .. Len(plan)
  <2>1. /\ finished \in Nat /\ failed \in Nat /\ Len(plan) \in Nat /\ Len(jobs) \in Nat
        /\ Cardinality(InHand) \in Nat
    BY FS_CardinalityType DEF WorkInv, Shape, ChunkInv, PlanInv, PlanTypeOK
  <2>2. QED
    BY <2>1 DEF ChunkInv, ChunksConserved
<1>7. QED
  BY <1>2, <1>3, <1>4, <1>5, <1>6 DEF TypeOK, PlanInv, WorkInv, Shape, TriedInv

----------------------------------------------------------------------------
(* The theorems. *)

LEMMA PartsInvariant ==
    Safety => [](PlanInv /\ WorkInv /\ ChunkInv /\ PartInv /\ Counted)
<1>1. Safety => [](PlanInv /\ WorkInv /\ ChunkInv)
  BY DownloadInvariant, PTL
<1>2. Safety => []PartInv
  BY <1>1, InitPartInv, StepPartInv, PTL DEF Safety
<1>3. Init => Counted
  BY DEF Init, Counted
<1>4. Safety => []Counted
  BY <1>1, <1>3, StepCounted, PTL DEF Safety
<1>5. QED
  BY <1>1, <1>2, <1>4, PTL

\* download_chunk is never called for a part that is complete already, so its
\* early return never decides and nothing is appended to a complete part.
THEOREM PendingStayIncomplete == Safety => []PendingIncomplete
<1>1. QED
  BY PartsInvariant, PTL DEF PartInv

\* No step of run_download makes a part file shorter.
THEOREM PartsNeverShrink == Safety => PartsGrow
<1>1. PlanInv /\ WorkInv /\ ChunkInv /\ PartInv /\ [Next]_vars
          => [\A c \in DOMAIN part : part'[c].size >= part[c].size]_part
  <2> SUFFICES ASSUME PlanInv, WorkInv, ChunkInv, PartInv, [Next]_vars, part' # part,
                      NEW c \in DOMAIN part
               PROVE  part'[c].size >= part[c].size
    OBVIOUS
  <2>1. returned /\ c \in Chunk /\ part \in [Chunk -> [size : Nat, right : BOOLEAN]]
    <3>1. DOMAIN <<>> = {}
      OBVIOUS
    <3>2. QED
      BY <3>1 DEF PartInv, PartType
  <2>2. PICK w \in Worker : Transfer(w)
    <3>1. ~StartWorkers /\ ~PlanStep
      BY <2>1 DEF StartWorkers, PlanStep, Return, PushPiece, PushBytes
    <3>2. ~UNCHANGED vars /\ ~Finished
      BY DEF vars, Finished
    <3>3. ~(Probe \/ SetTarget \/ Wait \/ Join \/ Assemble)
      BY DEF Probe, SetTarget, Wait, Join, Assemble, MainStep
    <3>4. QED
      BY <3>1, <3>2, <3>3, WorkPending DEF Next, Main
  <2>3. PICK new \in [size : Nat, right : BOOLEAN] :
            /\ part' = [part EXCEPT ![hand[w]] = new] \/ part' = part
            /\ new.size >= part[hand[w]].size
    BY <2>2, TransferWrites
  <2>4. part'[c] = part[c] \/ (c = hand[w] /\ part'[c] = new)
    BY <2>1, <2>3
  <2>5. part[c].size \in Nat
    BY <2>1
  <2>6. QED
    BY <2>3, <2>4, <2>5
<1>2. QED
  BY <1>1, PartsInvariant, PTL DEF Safety, PartsGrow

\* If every body that comes is of the range asked for, a file that run_download
\* reports as saved has every byte of the original at its place.
THEOREM SavedFilesAreWhole ==
    ASSUME ~OtherBodies PROVE Safety => []SavedIsWhole
<1>1. PlanInv /\ WorkInv /\ ChunkInv /\ PartInv /\ Counted => SavedIsWhole
  <2> SUFFICES ASSUME PlanInv, WorkInv, ChunkInv, PartInv, Counted, main = "ok",
                      NEW c \in Chunk
               PROVE  part[c] = [size |-> Want(c), right |-> TRUE]
    BY DEF SavedIsWhole
  <2>1. returned /\ failed = 0 /\ finished + failed = Len(plan)
    BY DEF WorkInv, Started, Counted
  <2>2. Len(jobs) = 0 /\ Cardinality(InHand) = 0
    <3>1. /\ finished \in Nat /\ failed \in Nat /\ Len(plan) \in Nat /\ Len(jobs) \in Nat
          /\ Cardinality(InHand) \in Nat
      BY FS_CardinalityType DEF WorkInv, Shape, ChunkInv, PlanInv, PlanTypeOK
    <3>2. QED
      BY <2>1, <3>1 DEF ChunkInv, ChunksConserved
  <2>3. Queued = {}
    BY <2>2 DEF Queued, WorkInv, Shape
  <2>4. {v \in Worker : pc[v] \in AtWork} = {}
    BY DEF WorkInv, Started, AtWork
  <2>5. Pending = {}
    BY <2>3, <2>4, PendingIs
  <2>6. /\ part[c] \in [size : Nat, right : BOOLEAN] /\ Want(c) \in Nat
        /\ part[c].size >= Want(c) /\ part[c].right /\ part[c].size <= Want(c)
    BY <2>1, <2>5, WantPositive DEF PartInv, PartType, Settled, Clean
  <2>7. part[c].size = Want(c) /\ part[c].right = TRUE
    BY <2>6
  <2>8. QED
    BY <2>6, <2>7
<1>2. QED
  BY <1>1, PartsInvariant, PTL

\* The counters of run_download stay within the workers and the chunks, the
\* queue and the hands hold chunks of the plan, and no chunk is tried on more
\* than k_max_proxies proxies.
THEOREM DownloadsTyped == Safety => []TypeOK
<1>1. Safety => []TriedInv
  BY PartsInvariant, InitTriedInv, StepTriedInv, PTL DEF Safety
<1>2. QED
  BY <1>1, PartsInvariant, Typed, PTL

=============================================================================
