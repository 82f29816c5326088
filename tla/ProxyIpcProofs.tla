--------------------------- MODULE ProxyIpcProofs ---------------------------
(***************************************************************************)
(* Proofs about ProxyIpc, for any number of threads and proxies and any    *)
(* number of reads that time out and daemons that end.                     *)
(*                                                                         *)
(* The argument: mu_ lets one thread write and read, so each request adds  *)
(* one line and each read takes one, or times out; a new connection starts *)
(* with nothing on the way, and each is paid for by a fault.               *)
(***************************************************************************)
EXTENDS ProxyIpc, TLAPS

Inside == {"send", "read", "broken", "reconnect", "hello", "join"}

\* Who has mu_ is inside a call, alone; workers come after the main thread.
LockInv ==
    /\ \A t \in Thread : pc[t] \in Inside <=> owner = t
    /\ keepalive = "read" <=> owner = Keepalive
    /\ keepalive = "none" => \A t \in Thread : pc[t] = "exited"
    /\ (\E w \in Worker : pc[w] # "unborn") => pc[Main] = "exited"
    /\ pc[Main] \in Inside => try # "after"

\* Whoever is inside will connect once more.
Owed == IF ~Alive \/ \E t \in Thread : pc[t] = "reconnect" THEN 1 ELSE 0

Hello == Line("HELLO", NoProxy)

\* Nothing but one HELLO, or the reply to it, is on the way.
OneHello ==
    \/ reqs[conn] = <<Hello>> /\ reps[conn] = <<>>
    \/ reqs[conn] = <<>> /\ reps[conn] = <<Hello>>

LineInv ==
    /\ late \in Nat /\ ends \in Nat
    /\ open \subseteq {conn}
    /\ open = {} => ~Alive \/ keepalive = "none"
    /\ ~up => ended = conn
    /\ ends = 0 => ended = 0
    /\ \A c \in Conn : c > conn => reqs[c] = <<>> /\ reps[c] = <<>>
    /\ conn + Owed <= 1 + late + ends
    /\ \A t \in Thread :
           /\ pc[t] \in Inside \ {"reconnect"} => open # {}
           /\ pc[t] = "broken" => ~Alive
           /\ pc[t] = "hello" /\ Alive => OneHello

----------------------------------------------------------------------------
(* Bags. *)

LEMMA BagOfSet == \A S : IsABag(SetToBag(S)) /\ BagToSet(SetToBag(S)) = S
  BY DEF IsABag, SetToBag, BagToSet

LEMMA BagPlus ==
    ASSUME NEW B, NEW C, IsABag(B), IsABag(C)
    PROVE  IsABag(B (+) C) /\ BagToSet(B (+) C) = BagToSet(B) \cup BagToSet(C)
  BY DEF IsABag, BagToSet, (+)

LEMMA BagMinus ==
    ASSUME NEW B, NEW C, IsABag(B), IsABag(C)
    PROVE  IsABag(B (-) C) /\ BagToSet(B (-) C) \subseteq BagToSet(B)
  BY DEF IsABag, BagToSet, (-)

----------------------------------------------------------------------------
(* The places of the threads. *)

\* A step of a call: the thread stays inside, or leaves, or (set_target) ends
\* and starts the workers or the end of the process.
Moves(t) ==
    \/ owner' = owner /\ \E to \in Inside : pc' = [pc EXCEPT ![t] = to]
    \/ owner' = NoThread /\ pc' = [pc EXCEPT ![t] = "idle"]
    \/ t = Main /\ \E ok \in BOOLEAN : StartWorkers(ok)

LEMMA CallMoves ==
    ASSUME NEW t \in Thread, TypeOK, LockInv, InCall(t)
    PROVE  /\ owner = t /\ pc[t] \in Inside
           /\ Moves(t)
           /\ keepalive' = keepalive
           /\ t = Main => try' # "after"
<1>0. /\ pc[t] \in Inside => owner = t
      /\ pc[t] \in Inside /\ t = Main => try # "after"
  BY DEF LockInv
<1> USE DEF Moves, Inside
<1>1. CASE Send(t)
  BY <1>0, <1>1 DEF Send, Goto
<1>2. CASE ReadAcquired(t) \/ ReadReleased(t)
  BY <1>0, <1>2 DEF ReadAcquired, ReadReleased, Released, Unlock, Goto
<1>3. CASE t = Main /\ ReadTarget
  <2>1. LeavesProxies(Head(reps[conn])) \in BOOLEAN
    BY DEF LeavesProxies
  <2>2. QED
    BY <1>0, <1>3, <2>1 DEF ReadTarget
<1>4. ASSUME pc[t] \in Inside, RpcFails(t)
      PROVE  Moves(t) /\ (t = Main => try' # "after")
  BY <1>0, <1>4 DEF RpcFails, Released, Unlock, Goto, Acquiring, Releasing
<1>5. CASE OnceFails(t)
  BY <1>0, <1>4, <1>5 DEF OnceFails, Goto
<1>6. CASE Reconnect(t)
  BY <1>0, <1>6 DEF Reconnect, Goto
<1>7. CASE Refused(t)
  <2>1. pc = [pc EXCEPT ![t] = "reconnect"] /\ pc[t] = "reconnect"
    BY <1>7 DEF Refused, TypeOK
  <2>2. QED
    BY <1>0, <1>7, <2>1 DEF Refused, Unlock, Goto, Acquiring
<1>8. CASE HelloAnswered(t) \/ HelloFails(t)
  BY <1>0, <1>4, <1>8 DEF HelloAnswered, HelloFails, Unlock, Goto
<1>9. CASE RestartKeepalive(t)
  BY <1>0, <1>9 DEF RestartKeepalive, Unlock, Goto
<1>10. QED
  BY <1>1, <1>2, <1>3, <1>5, <1>6, <1>7, <1>8, <1>9 DEF InCall

LEMMA InitLockInv == Init => LockInv
  BY IpcAssumption DEF Init, LockInv, Inside, Thread

LEMMA StepLockInv == TypeOK /\ LockInv /\ [Next]_vars => LockInv'
<1> SUFFICES ASSUME TypeOK, LockInv, [Next]_vars PROVE LockInv'
  OBVIOUS
<1> USE IpcAssumption DEF Inside
<1>0. /\ DOMAIN pc = Thread /\ Main \in Thread /\ Worker \subseteq Thread
      /\ Thread = Worker \cup {Main}
      /\ \A t \in Thread : t # NoThread /\ t # Keepalive
  BY DEF TypeOK, Thread
<1>1. ASSUME UNCHANGED <<owner, pc, keepalive, try>> PROVE LockInv'
  BY <1>1 DEF LockInv
<1>2. ASSUME NEW t \in Thread, InCall(t) PROVE LockInv'
  <2>1. /\ owner = t /\ pc[t] \in Inside /\ Moves(t) /\ keepalive' = keepalive
        /\ t = Main => try' # "after"
    BY <1>2, CallMoves
  <2>2. /\ keepalive \notin {"read", "none"}
        /\ \A u \in Thread : u # t => pc[u] \notin Inside
    BY <1>0, <2>1 DEF LockInv
  <2>3. CASE owner' = owner /\ \E to \in Inside : pc' = [pc EXCEPT ![t] = to]
    BY <1>0, <2>1, <2>2, <2>3 DEF LockInv
  <2>4. CASE owner' = NoThread /\ pc' = [pc EXCEPT ![t] = "idle"]
    BY <1>0, <2>1, <2>2, <2>4 DEF LockInv
  <2>5. CASE t = Main /\ \E ok \in BOOLEAN : StartWorkers(ok)
    <3>1. \A u \in Thread : pc'[u] \in {"idle", "exited"}
      BY <2>5 DEF StartWorkers
    <3>2. owner' = NoThread /\ pc'[Main] = "exited"
      BY <1>0, <2>5 DEF StartWorkers
    <3>3. QED
      BY <1>0, <2>1, <2>2, <3>1, <3>2 DEF LockInv
  <2>6. QED
    BY <2>1, <2>3, <2>4, <2>5 DEF Moves
<1>3. ASSUME NEW t \in Thread, Call(t) PROVE LockInv'
  BY <1>0, <1>3 DEF Call, Goto, LockInv
<1>4. ASSUME NEW t \in Thread, Lock(t) PROVE LockInv'
  BY <1>0, <1>4 DEF Lock, Goto, LockInv
<1>5. ASSUME NEW w \in Worker, Exit(w) PROVE LockInv'
  BY <1>0, <1>5 DEF Exit, Goto, LockInv
<1>6. CASE Ping \/ Pong
  BY <1>0, <1>6 DEF Ping, Pong, LockInv
<1>7. CASE Destroy
  BY <1>0, <1>7 DEF Destroy, LockInv
<1>8. CASE DaemonEnds \/ DaemonStarts \/ UNCHANGED vars
  BY <1>1, <1>8 DEF DaemonEnds, DaemonStarts, client, vars
<1>9. ASSUME NEW c \in Conn, Serve(c) \/ Drop(c) PROVE LockInv'
  BY <1>1, <1>9 DEF Serve, Drop, client
<1>10. ASSUME NEW p \in Proxy, OtherAcquires(p) \/ OtherReleases(p) PROVE LockInv'
  BY <1>1, <1>10 DEF OtherAcquires, OtherReleases, client
<1>11. QED
  BY <1>2, <1>3, <1>4, <1>5, <1>6, <1>7, <1>8, <1>9, <1>10 DEF Next

----------------------------------------------------------------------------
(* Types. *)

Lease == Url \ {NoProxy}

BagOf(B, S) == IsABag(B) /\ BagToSet(B) \subseteq S

LEMMA BagTypes ==
    ASSUME NEW S, NEW B, BagOf(B, S)
    PROVE  /\ \A T \in SUBSET S : BagOf(B (+) SetToBag(T), S)
           /\ \A T : BagOf(B (-) SetToBag(T), S)
           /\ BagOf(EmptyBag, S)
<1>1. ASSUME NEW T \in SUBSET S PROVE BagOf(B (+) SetToBag(T), S)
  <2>1. IsABag(SetToBag(T)) /\ BagToSet(SetToBag(T)) = T
    BY BagOfSet
  <2>2. QED
    BY <2>1, BagPlus DEF BagOf
<1>2. ASSUME NEW T PROVE BagOf(B (-) SetToBag(T), S)
  <2>1. IsABag(SetToBag(T))
    BY BagOfSet
  <2>2. QED
    BY <2>1, BagMinus DEF BagOf
<1>3. BagOf(EmptyBag, S)
  BY BagOfSet DEF EmptyBag, BagOf
<1>4. QED
  BY <1>1, <1>2, <1>3

LEMMA HeadTail ==
    ASSUME NEW S, NEW q \in Seq(S), q # <<>>
    PROVE  /\ Head(q) \in S /\ Tail(q) \in Seq(S)
           /\ Len(q) \in Nat /\ Len(Tail(q)) = Len(q) - 1
  OBVIOUS

Tries == {"begin", "first", "second", "after"}

\* What a call makes of held_ and of the worker's proxy.
LEMMA CallHolds ==
    ASSUME NEW t \in Thread, TypeOK, InCall(t)
    PROVE  /\ using' \in [Worker -> Url] /\ BagOf(held', Lease)
           /\ try' \in Tries
<1> USE IpcAssumption
<1> DEFINE Good == using' \in [Worker -> Url] /\ BagOf(held', Lease) /\ try' \in Tries
<1>0. /\ using \in [Worker -> Url] /\ BagOf(held, Lease) /\ try \in Tries
      /\ reps \in [Conn -> Seq(Reply)] /\ conn \in Conn
      /\ BagOf(EmptyBag, Lease)
  BY BagTypes DEF TypeOK, Lease, BagOf, Tries
<1>1. CASE UNCHANGED <<using, held>> /\ try' \in Tries
  BY <1>0, <1>1
<1>2. ASSUME Released(t), Releasing(t), UNCHANGED try PROVE Good
  <2>1. BagOf(held', Lease)
    BY <1>0, <1>2, BagTypes DEF Released
  <2>2. using' \in [Worker -> Url]
    BY <1>0, <1>2 DEF Released, Url
  <2>3. QED
    BY <1>0, <1>2, <2>1, <2>2
<1>3. ASSUME RpcFails(t) PROVE Good
  BY <1>0, <1>1, <1>2, <1>3 DEF RpcFails, Tries
<1>4. CASE Send(t) \/ RestartKeepalive(t)
  <2>1. UNCHANGED <<using, held>> /\ try' \in Tries
    BY <1>0, <1>4 DEF Send, RestartKeepalive, Tries
  <2>2. QED
    BY <1>1, <2>1
<1>5. CASE ReadAcquired(t)
  <2>1. t \in Worker /\ reps[conn] # <<>> /\ UNCHANGED try
    BY <1>5 DEF ReadAcquired, Acquiring, Thread
  <2>2. Head(reps[conn]) \in Reply
    BY <1>0, <2>1, HeadTail
  <2> DEFINE urls == Granted(Head(reps[conn]))
  <2>3. urls \subseteq Lease
    BY <2>2 DEF Granted, Reply, Lease, Url
  <2>4. /\ held' = held (+) SetToBag(urls)
        /\ using' = [using EXCEPT ![t] = IF urls = {} THEN NoProxy
                                         ELSE CHOOSE u \in urls : TRUE]
    BY <1>5 DEF ReadAcquired
  <2> HIDE DEF urls
  <2>5. (IF urls = {} THEN NoProxy ELSE CHOOSE u \in urls : TRUE) \in Url
    BY <2>3 DEF Lease, Url
  <2>6. BagOf(held', Lease)
    BY <1>0, <2>3, <2>4, BagTypes
  <2>7. QED
    BY <1>0, <2>1, <2>4, <2>5, <2>6
<1>6. CASE ReadReleased(t)
  BY <1>2, <1>6 DEF ReadReleased
<1>7. CASE t = Main /\ ReadTarget
  BY <1>0, <1>1, <1>7 DEF ReadTarget
<1>8. CASE OnceFails(t)
  <2>1. RpcFails(t) \/ (UNCHANGED <<using, held>> /\ try' = "second")
    BY <1>8 DEF OnceFails
  <2>2. QED
    BY <1>1, <1>3, <2>1 DEF Tries
<1>9. CASE Reconnect(t)
  BY <1>0, <1>9 DEF Reconnect
<1>10. CASE Refused(t)
  <2>1. held' = EmptyBag
    BY <1>10 DEF Refused
  <2>2. using' = using \/ using' = [using EXCEPT ![t] = NoProxy]
    BY <1>10 DEF Refused
  <2>3. try' \in Tries
    BY <1>0, <1>10 DEF Refused, Tries
  <2>4. using' \in [Worker -> Url]
    BY <1>0, <2>2 DEF Url
  <2>5. QED
    BY <1>0, <2>1, <2>3, <2>4
<1>11. CASE HelloAnswered(t) \/ HelloFails(t)
  <2>1. RpcFails(t) \/ UNCHANGED <<try, using, held>>
    BY <1>11 DEF HelloAnswered, HelloFails
  <2>2. QED
    BY <1>0, <1>1, <1>3, <2>1
<1>12. QED
  BY <1>4, <1>5, <1>6, <1>7, <1>8, <1>9, <1>10, <1>11 DEF InCall

\* What a call makes of the connection and its lines.
CallLines(t) ==
    \/ /\ pc[t] = "send"
       /\ \/ ~Alive /\ UNCHANGED <<conn, open, late, reqs, reps>> /\ pc'[t] = "broken"
          \/ /\ reqs' = [reqs EXCEPT ![conn] = Append(@, Command(t))]
             /\ pc'[t] = "read"
             /\ UNCHANGED <<conn, open, late, reps>>
    \/ /\ pc[t] \in {"read", "hello"} /\ reps[conn] # <<>> /\ TakeReply
       /\ pc'[t] \in {"join", "idle", "exited"} \/ Head(reps[conn]).cmd # "HELLO"
       /\ pc[t] = "read" => pc'[t] # "reconnect"
       /\ pc'[t] \notin {"send", "read", "hello", "broken"}
       /\ UNCHANGED <<conn, open, late, reqs>>
    \/ /\ pc[t] \in {"read", "hello"} /\ NoLine
       /\ pc'[t] \in {"reconnect", "idle", "exited"}
       /\ UNCHANGED <<conn, open, reqs, reps>>
    \/ /\ pc[t] = "broken"
       /\ pc'[t] \in {"reconnect", "idle", "exited"}
       /\ UNCHANGED <<conn, open, late, reqs, reps>>
    \/ /\ pc[t] = "reconnect" /\ up
       /\ conn' = conn + 1 /\ open' = {conn + 1} /\ pc'[t] = "hello"
       /\ reqs' = [reqs EXCEPT ![conn + 1] = Append(@, Hello)]
       /\ UNCHANGED <<late, reps>>
    \/ /\ pc[t] = "reconnect" /\ ~up
       /\ open' = {} /\ pc'[t] \in {"reconnect", "idle", "exited"}
       /\ UNCHANGED <<conn, late, reqs, reps>>
    \/ /\ pc[t] = "join" /\ pc'[t] \in {"send", "idle"}
       /\ UNCHANGED <<conn, open, late, reqs, reps>>

LEMMA CallMakesLines ==
    ASSUME NEW t \in Thread, TypeOK, InCall(t)
    PROVE  CallLines(t) /\ UNCHANGED daemon
<1>0. DOMAIN pc = Thread
  BY DEF TypeOK
<1>1. ASSUME RpcFails(t) PROVE pc'[t] \in {"reconnect", "idle", "exited"}
  BY <1>0, <1>1 DEF RpcFails, StartWorkers, Released, Unlock, Goto
<1>2. CASE Send(t)
  BY <1>0, <1>2 DEF Send, Goto, CallLines
<1>3. CASE ReadAcquired(t) \/ ReadReleased(t)
  BY <1>0, <1>3 DEF ReadAcquired, ReadReleased, Released, Unlock, Goto, CallLines
<1>4. CASE t = Main /\ ReadTarget
  BY <1>0, <1>4 DEF ReadTarget, StartWorkers, CallLines
<1>5. CASE OnceFails(t)
  <2>1. pc'[t] \in {"reconnect", "idle", "exited"}
    BY <1>0, <1>1, <1>5 DEF OnceFails, Goto
  <2>2. QED
    BY <1>5, <2>1 DEF OnceFails, stream, CallLines
<1>6. CASE Reconnect(t)
  BY <1>0, <1>6 DEF Reconnect, Goto, Hello, CallLines
<1>7. CASE Refused(t)
  <2>1. pc'[t] \in {"reconnect", "idle", "exited"}
    BY <1>0, <1>7 DEF Refused, Unlock, Goto, StartWorkers
  <2>2. QED
    BY <1>7, <2>1 DEF Refused, stream, CallLines
<1>8. CASE HelloAnswered(t)
  <2>1. IF Head(reps[conn]).cmd = "HELLO" THEN pc'[t] = "join"
        ELSE pc'[t] \in {"reconnect", "idle", "exited"}
    BY <1>0, <1>1, <1>8 DEF HelloAnswered, Unlock, Goto
  <2>2. QED
    BY <1>8, <2>1 DEF HelloAnswered, CallLines
<1>9. CASE HelloFails(t)
  <2>1. pc'[t] \in {"reconnect", "idle", "exited"}
    BY <1>0, <1>1, <1>9 DEF HelloFails, Unlock, Goto
  <2>2. QED
    BY <1>9, <2>1 DEF HelloFails, stream, CallLines
<1>10. CASE RestartKeepalive(t)
  BY <1>0, <1>10 DEF RestartKeepalive, Unlock, Goto, stream, CallLines
<1>11. QED
  BY <1>2, <1>3, <1>4, <1>5, <1>6, <1>7, <1>8, <1>9, <1>10
     DEF InCall, Send, ReadAcquired, ReadReleased, ReadTarget, OnceFails, Reconnect,
         Refused, HelloAnswered, HelloFails, RestartKeepalive

Places == {"unborn", "idle", "lock", "send", "read", "broken", "reconnect", "hello",
           "join", "exited"}

\* A connection made is paid for by a fault, so it is within the bound.
LEMMA NextConn ==
    ASSUME TypeOK, LineInv, NEW t \in Thread, pc[t] = "reconnect"
    PROVE  conn + 1 \in Conn /\ conn + 1 <= 1 + late + ends
<1>1. Owed = 1
  BY DEF Owed
<1>2. conn \in Nat /\ late \in Nat /\ ends \in Nat /\ late + ends <= MaxFaults
  BY IpcAssumption DEF TypeOK, LineInv, Conn
<1>3. QED
  BY <1>1, <1>2, IpcAssumption DEF LineInv, Conn

LEMMA CommandTyped ==
    ASSUME TypeOK, NEW t \in Thread PROVE Command(t) \in Request
  BY DEF Command, Line, Request, Acquiring, TypeOK, Thread, Url

LEMMA CallTyped ==
    ASSUME TypeOK, LockInv, LineInv, NEW t \in Thread, InCall(t) PROVE TypeOK'
<1> USE IpcAssumption
<1>1. CallLines(t) /\ UNCHANGED daemon
  BY CallMakesLines
<1>2. using' \in [Worker -> Url] /\ BagOf(held', Lease) /\ try' \in Tries
  BY CallHolds
<1>3. owner = t /\ Moves(t) /\ keepalive' = keepalive
  BY CallMoves
<1>4. /\ conn \in Conn /\ open \subseteq Conn
      /\ reqs \in [Conn -> Seq(Request)] /\ reps \in [Conn -> Seq(Reply)]
      /\ pc \in [Thread -> Places] /\ ended \in 0 .. conn
      /\ late \in Nat /\ ends \in 0 .. MaxEnds /\ late + ends \in 0 .. MaxFaults
  BY DEF TypeOK, Places, LineInv
<1>5. owner' \in Thread \cup {NoThread, Keepalive} /\ pc' \in [Thread -> Places]
  BY <1>3, <1>4 DEF Moves, StartWorkers, Inside, Places
<1>6. late' \in Nat /\ late' + ends \in 0 .. MaxFaults
  BY <1>1, <1>4 DEF CallLines, NoLine, GiveUp
<1>7. CASE pc[t] = "reconnect" /\ up
  <2>1. /\ conn' = conn + 1 /\ open' = {conn + 1} /\ UNCHANGED reps
        /\ reqs' = [reqs EXCEPT ![conn + 1] = Append(@, Hello)]
    BY <1>1, <1>7 DEF CallLines
  <2>2. conn + 1 \in Conn
    BY <1>7, NextConn
  <2>3. Hello \in Request
    BY DEF Hello, Line, Request, Url
  <2>4. reqs' \in [Conn -> Seq(Request)]
    BY <1>4, <2>1, <2>2, <2>3
  <2>5. ended \in 0 .. conn'
    BY <1>4, <2>1 DEF Conn
  <2>6. QED
    BY <1>1, <1>2, <1>3, <1>4, <1>5, <1>6, <2>1, <2>2, <2>4, <2>5
       DEF TypeOK, daemon, running, BagOf, Lease, Tries, Places
<1>8. CASE ~(pc[t] = "reconnect" /\ up)
  <2>1. conn' = conn /\ open' \subseteq Conn
    BY <1>1, <1>4, <1>8 DEF CallLines
  <2>2. reqs' = reqs \/ reqs' = [reqs EXCEPT ![conn] = Append(@, Command(t))]
    BY <1>1, <1>8 DEF CallLines
  <2>3. reqs' \in [Conn -> Seq(Request)]
    <3>1. Command(t) \in Request
      BY CommandTyped
    <3>2. Append(reqs[conn], Command(t)) \in Seq(Request)
      BY <1>4, <3>1
    <3>3. QED
      BY <1>4, <2>2, <3>2
  <2>4. reps' = reps \/ (reps[conn] # <<>> /\ reps' = [reps EXCEPT ![conn] = Tail(@)])
    BY <1>1, <1>8 DEF CallLines, TakeReply
  <2>5. reps' \in [Conn -> Seq(Reply)]
    <3>1. reps[conn] # <<>> => Tail(reps[conn]) \in Seq(Reply)
      BY <1>4, HeadTail
    <3>2. QED
      BY <1>4, <2>4, <3>1
  <2>6. QED
    BY <1>1, <1>2, <1>3, <1>4, <1>5, <1>6, <2>1, <2>3, <2>5
       DEF TypeOK, daemon, running, BagOf, Lease, Tries, Places
<1>9. QED
  BY <1>7, <1>8

----------------------------------------------------------------------------
(* The lines on the way. *)

LEMMA Lengths ==
    ASSUME TypeOK, LineInv
    PROVE  /\ conn \in Conn /\ conn \in Nat /\ late \in Nat /\ ends \in Nat
           /\ ended \in Nat /\ ended <= conn
           /\ \A c \in Conn : /\ reqs[c] \in Seq(Request) /\ Len(reqs[c]) \in Nat
                              /\ reps[c] \in Seq(Reply) /\ Len(reps[c]) \in Nat
           /\ DOMAIN reqs = Conn /\ DOMAIN reps = Conn
  BY DEF TypeOK, LineInv, Conn

LEMMA OthersOut ==
    ASSUME TypeOK, LockInv, NEW t \in Thread, InCall(t)
    PROVE  /\ pc[t] \in Inside /\ keepalive \notin {"read", "none"} /\ keepalive' = keepalive
           /\ \A u \in Thread \ {t} : pc[u] \notin Inside /\ pc'[u] \notin Inside
<1>1. owner = t /\ pc[t] \in Inside /\ Moves(t) /\ keepalive' = keepalive
  BY CallMoves
<1>2. \A u \in Thread \ {t} : pc[u] \notin Inside
  BY <1>1 DEF LockInv
<1>3. \A u \in Thread \ {t} : pc'[u] \notin Inside
  BY <1>1, <1>2 DEF Moves, StartWorkers, Inside, TypeOK
<1>4. t # Keepalive
  BY IpcAssumption DEF Thread
<1>5. QED
  BY <1>1, <1>2, <1>3, <1>4 DEF LockInv, Inside

\* mu_ in hand, a call leaves as many lines behind as reads have timed out.
LEMMA CallLineInv ==
    ASSUME TypeOK, LockInv, LineInv, InStep, NEW t \in Thread, InCall(t)
    PROVE  LineInv' /\ InStep'
<1> USE IpcAssumption
<1>1. CallLines(t) /\ UNCHANGED <<up, ended, ends>>
  BY CallMakesLines DEF daemon, running
<1>2. /\ pc[t] \in Inside /\ keepalive \notin {"read", "none"} /\ keepalive' = keepalive
      /\ \A u \in Thread \ {t} : pc[u] \notin Inside /\ pc'[u] \notin Inside
  BY OthersOut
<1>3. /\ conn \in Conn /\ conn \in Nat /\ late \in Nat /\ ends \in Nat
      /\ ended \in Nat /\ ended <= conn
      /\ \A c \in Conn : Len(reqs[c]) \in Nat /\ Len(reps[c]) \in Nat
      /\ reqs[conn] \in Seq(Request) /\ reps[conn] \in Seq(Reply)
      /\ DOMAIN reqs = Conn /\ DOMAIN reps = Conn
  BY Lengths
<1>4. Owed = IF ~Alive \/ pc[t] = "reconnect" THEN 1 ELSE 0
  BY <1>2 DEF Owed, Inside
<1>5. Owed' = IF ~Alive' \/ pc'[t] = "reconnect" THEN 1 ELSE 0
  BY <1>2 DEF Owed, Inside
<1>6. Reading <=> pc[t] \in {"read", "hello"}
  BY <1>2 DEF Reading, Inside
<1>7. Reading' <=> pc'[t] \in {"read", "hello"}
  BY <1>2 DEF Reading, Inside
<1>8. /\ pc[t] # "reconnect" => open # {}
      /\ pc[t] = "broken" => ~Alive
      /\ pc[t] = "hello" /\ Alive => OneHello
      /\ open \subseteq {conn} /\ (open = {} => ~Alive)
      /\ ~up => ended = conn
      /\ ends = 0 => ended = 0
      /\ \A c \in Conn : c > conn => reqs[c] = <<>> /\ reps[c] = <<>>
      /\ conn + Owed <= 1 + late + ends
  BY <1>2 DEF LineInv
<1>9. ASSUME /\ late' \in Nat /\ open' \subseteq {conn'}
             /\ open' = {} => ~Alive'
             /\ ~up => ended = conn'
             /\ \A c \in Conn : c > conn' => reqs'[c] = <<>> /\ reps'[c] = <<>>
             /\ conn' + Owed' <= 1 + late' + ends
             /\ pc'[t] \in Inside \ {"reconnect"} => open' # {}
             /\ pc'[t] = "broken" => ~Alive'
             /\ pc'[t] = "hello" /\ Alive' => OneHello'
      PROVE  LineInv'
  BY <1>1, <1>2, <1>3, <1>8, <1>9 DEF LineInv, Inside
<1>10. CASE pc[t] = "reconnect" /\ up
  <2>1. /\ conn' = conn + 1 /\ open' = {conn + 1} /\ pc'[t] = "hello"
        /\ reqs' = [reqs EXCEPT ![conn + 1] = Append(@, Hello)]
        /\ UNCHANGED <<late, reps>>
    BY <1>1, <1>10 DEF CallLines
  <2>2. conn + 1 \in Conn /\ conn + 1 <= 1 + late + ends
    BY <1>10, NextConn
  <2>3. reqs[conn + 1] = <<>> /\ reps[conn + 1] = <<>>
    BY <1>3, <1>8, <2>2
  <2>4. reqs'[conn'] = <<Hello>> /\ reps'[conn'] = <<>>
    BY <1>3, <2>1, <2>2, <2>3
  <2>5. Alive'
    BY <1>1, <1>3, <2>1 DEF Alive
  <2>6. \A c \in Conn : c > conn' => reqs'[c] = <<>> /\ reps'[c] = <<>>
    <3> SUFFICES ASSUME NEW c \in Conn, c > conn' PROVE reqs'[c] = <<>> /\ reps'[c] = <<>>
      OBVIOUS
    <3>1. c > conn /\ c # conn + 1
      BY <1>3, <2>1 DEF Conn
    <3>2. QED
      BY <1>3, <1>8, <2>1, <3>1
  <2>7. OneHello'
    BY <2>4 DEF OneHello, Hello
  <2>8. conn' + Owed' <= 1 + late' + ends
    BY <1>3, <1>5, <2>1, <2>2, <2>5
  <2>9. LineInv'
    BY <1>3, <1>9, <1>10, <2>1, <2>5, <2>6, <2>7, <2>8
  <2>10. Outstanding' = 1
    BY <2>4 DEF Outstanding
  <2>11. InStep'
    BY <1>3, <1>7, <2>1, <2>10 DEF InStep
  <2>12. QED
    BY <2>9, <2>11
<1>11. CASE pc[t] = "reconnect" /\ ~up
  <2>1. /\ open' = {} /\ pc'[t] \in {"reconnect", "idle", "exited"}
        /\ UNCHANGED <<conn, late, reqs, reps>>
    BY <1>1, <1>11 DEF CallLines
  <2>2. ~Alive /\ ~Alive'
    BY <1>1, <1>3, <1>8, <1>11, <2>1 DEF Alive
  <2>3. QED
    BY <1>3, <1>4, <1>5, <1>8, <1>9, <2>1, <2>2 DEF Inside, InStep
<1>12. ASSUME UNCHANGED <<conn, open>>, pc[t] # "reconnect" PROVE Alive' <=> Alive
  BY <1>1, <1>12 DEF Alive
<1>13. CASE pc[t] = "send"
  <2>1. UNCHANGED <<conn, open, late, reps>>
    BY <1>1, <1>13 DEF CallLines
  <2>2. CASE ~Alive /\ UNCHANGED reqs /\ pc'[t] = "broken"
    BY <1>3, <1>4, <1>5, <1>8, <1>9, <1>12, <1>13, <2>1, <2>2 DEF Inside, InStep
  <2>3. CASE reqs' = [reqs EXCEPT ![conn] = Append(@, Command(t))] /\ pc'[t] = "read"
    <3>1. \A c \in Conn : c > conn => reqs'[c] = reqs[c] /\ reps'[c] = reps[c]
      BY <1>3, <2>1, <2>3
    <3>2. Len(reqs'[conn]) = Len(reqs[conn]) + 1
      BY <1>3, <2>3, CommandTyped
    <3>3. Outstanding' = Outstanding + 1 /\ Outstanding \in Nat
      BY <1>3, <2>1, <3>2 DEF Outstanding
    <3>4. LineInv'
      BY <1>3, <1>4, <1>5, <1>8, <1>9, <1>12, <1>13, <2>1, <2>3, <3>1
    <3>5. InStep'
      BY <1>3, <1>6, <1>7, <1>12, <1>13, <2>1, <2>3, <3>3 DEF InStep
    <3>6. QED
      BY <3>4, <3>5
  <2>4. QED
    BY <1>1, <1>13, <2>2, <2>3 DEF CallLines
<1>14. CASE pc[t] = "broken" \/ pc[t] = "join"
  <2>1. UNCHANGED <<conn, open, late, reqs, reps>> /\ pc'[t] \in {"reconnect", "idle", "exited", "send"}
    BY <1>1, <1>14 DEF CallLines
  <2>2. pc'[t] = "reconnect" => ~Alive
    BY <1>1, <1>8, <1>14 DEF CallLines
  <2>3. Outstanding' = Outstanding
    BY <2>1 DEF Outstanding
  <2>4. LineInv'
    BY <1>3, <1>4, <1>5, <1>8, <1>9, <1>12, <1>14, <2>1, <2>2
  <2>5. QED
    BY <1>6, <1>7, <1>12, <1>14, <2>1, <2>3, <2>4 DEF InStep
<1>15. CASE /\ pc[t] \in {"read", "hello"} /\ reps[conn] # <<>> /\ TakeReply
            /\ pc'[t] \in {"join", "idle", "exited"} \/ Head(reps[conn]).cmd # "HELLO"
            /\ pc[t] = "read" => pc'[t] # "reconnect"
            /\ pc'[t] \notin {"send", "read", "hello", "broken"}
            /\ UNCHANGED <<conn, open, late, reqs>>
  <2>1. Len(reps'[conn]) = Len(reps[conn]) - 1
    BY <1>3, <1>15, HeadTail DEF TakeReply
  <2>2. Outstanding' = Outstanding - 1 /\ Outstanding \in Nat
    BY <1>3, <1>15, <2>1 DEF Outstanding
  <2>3. \A c \in Conn : c > conn => reps'[c] = reps[c]
    BY <1>3, <1>15 DEF TakeReply
  <2>4. pc'[t] = "reconnect" => ~Alive
    <3> SUFFICES ASSUME pc'[t] = "reconnect", Alive PROVE FALSE
      OBVIOUS
    <3>1. pc[t] = "hello" /\ Head(reps[conn]).cmd # "HELLO"
      BY <1>15
    <3>2. reps[conn] = <<Hello>>
      BY <1>8, <1>15, <3>1 DEF OneHello
    <3>3. QED
      BY <3>1, <3>2 DEF Hello, Line
  <2>5. pc'[t] \notin Inside \ {"reconnect", "join"}
    BY <1>15 DEF Inside
  <2>6. LineInv'
    BY <1>3, <1>4, <1>5, <1>8, <1>9, <1>12, <1>15, <2>3, <2>4, <2>5
  <2>7. InStep'
    BY <1>3, <1>6, <1>7, <1>12, <1>15, <2>2 DEF InStep
  <2>8. QED
    BY <2>6, <2>7
<1>16. CASE /\ pc[t] \in {"read", "hello"} /\ NoLine
            /\ pc'[t] \in {"reconnect", "idle", "exited"}
            /\ UNCHANGED <<conn, open, reqs, reps>>
  <2>1. late' = late + 1 \/ (~Alive /\ late' = late)
    BY <1>16 DEF NoLine, GiveUp
  <2>2. Outstanding' = Outstanding /\ Outstanding \in Nat
    BY <1>3, <1>16 DEF Outstanding
  <2>3. conn' + Owed' <= 1 + late' + ends /\ late' \in Nat
    BY <1>3, <1>4, <1>5, <1>8, <1>12, <1>16, <2>1
  <2>4. LineInv'
    BY <1>8, <1>9, <1>12, <1>16, <2>3 DEF Inside
  <2>5. InStep'
    BY <1>3, <1>6, <1>7, <1>12, <1>16, <2>1, <2>2 DEF InStep
  <2>6. QED
    BY <2>4, <2>5
<1>17. QED
  BY <1>1, <1>10, <1>11, <1>13, <1>14, <1>15, <1>16 DEF CallLines

----------------------------------------------------------------------------
(* The steps outside the calls. *)

LEMMA CallAndLock ==
    ASSUME TypeOK, LockInv, LineInv, InStep, NEW t \in Thread,
           \/ Call(t) \/ Lock(t)
           \/ /\ t \in Worker
              /\ Exit(t)
    PROVE  TypeOK' /\ LineInv' /\ InStep'
<1>1. UNCHANGED <<conn, open, using, held, keepalive, late, reqs, reps, up, ended, ends,
                  targeted, busy, leased, others>>
  BY DEF Call, Lock, Exit, stream, daemon, running
<1>2. PICK to \in {"idle", "lock", "send", "reconnect", "exited"} :
         /\ Goto(t, to) /\ pc[t] \in {"idle", "lock"}
         /\ to = "send" => open # {}
         /\ to = "reconnect" => open = {} /\ owner = NoThread
         /\ owner' \in {owner, t} /\ try' \in {try, "first", "begin"}
  BY DEF Call, Lock, Exit
<1>3. to = "reconnect" => ~Alive
  BY <1>2 DEF LineInv, LockInv
<1>4. TypeOK'
  BY <1>1, <1>2 DEF TypeOK, Goto
<1>5. /\ Alive' <=> Alive
      /\ OneHello' <=> OneHello
      /\ \A u \in Thread : pc'[u] = IF u = t THEN to ELSE pc[u]
  BY <1>1, <1>2 DEF Alive, OneHello, Goto, TypeOK
<1>6. (Reading' <=> Reading) /\ Owed' = Owed
  BY <1>1, <1>2, <1>3, <1>5 DEF Reading, Owed
<1>7. LineInv'
  BY <1>1, <1>2, <1>3, <1>5, <1>6 DEF LineInv, Inside
<1>8. InStep'
  BY <1>1, <1>5, <1>6 DEF InStep, Outstanding
<1>9. QED
  BY <1>4, <1>7, <1>8

LEMMA Keepalives ==
    ASSUME TypeOK, LockInv, LineInv, InStep, Ping \/ Pong
    PROVE  TypeOK' /\ LineInv' /\ InStep'
<1> USE IpcAssumption
<1>1. /\ conn \in Conn /\ conn \in Nat /\ late \in Nat /\ ends \in Nat
      /\ \A c \in Conn : /\ reqs[c] \in Seq(Request) /\ Len(reqs[c]) \in Nat
                         /\ reps[c] \in Seq(Reply) /\ Len(reps[c]) \in Nat
      /\ DOMAIN reqs = Conn /\ DOMAIN reps = Conn
  BY Lengths
<1>2. UNCHANGED <<conn, open, pc, try, using, held, up, ended, ends, targeted, busy,
                  leased, others>>
  BY DEF Ping, Pong, daemon, running
<1>3. (Alive' <=> Alive) /\ Owed' = Owed
  BY <1>2 DEF Alive, Owed
<1>4. \A t \in Thread : pc[t] \notin Inside
  <2>1. owner \in {NoThread, Keepalive}
    BY DEF Ping, Pong, LockInv
  <2>2. QED
    BY <2>1 DEF LockInv, Thread
<1>5. CASE Ping
  <2>1. /\ late' = late /\ reps' = reps /\ owner' = Keepalive
        /\ keepalive = "sleep" /\ keepalive' = "read"
        /\ IF Alive THEN reqs' = [reqs EXCEPT ![conn] = Append(@, Line("PING", NoProxy))]
           ELSE reqs' = reqs
    BY <1>5 DEF Ping, WritePing
  <2>2. Line("PING", NoProxy) \in Request
    BY DEF Line, Request, Url
  <2>3. TypeOK'
    <3>1. Append(reqs[conn], Line("PING", NoProxy)) \in Seq(Request)
      BY <1>1, <2>2
    <3>2. reqs' \in [Conn -> Seq(Request)]
      BY <1>1, <2>1, <3>1 DEF TypeOK
    <3>3. QED
      BY <1>2, <2>1, <3>2 DEF TypeOK
  <2>4. /\ \A c \in Conn : c > conn => reqs'[c] = reqs[c]
        /\ Alive => Len(reqs'[conn]) = Len(reqs[conn]) + 1
    BY <1>1, <2>1, <2>2
  <2>5. LineInv'
    BY <1>2, <1>3, <1>4, <2>1, <2>4 DEF LineInv, Inside
  <2>6. ~Reading /\ Reading'
    BY <1>4, <2>1 DEF Reading, Inside
  <2>7. InStep'
    BY <1>1, <1>2, <1>3, <2>1, <2>4, <2>6 DEF InStep, Outstanding
  <2>8. QED
    BY <2>3, <2>5, <2>7
<1>6. CASE Pong
  <2>1. /\ owner' = NoThread /\ keepalive = "read" /\ keepalive' = "sleep" /\ reqs' = reqs
        /\ \/ reps[conn] # <<>> /\ late' = late /\ reps' = [reps EXCEPT ![conn] = Tail(@)]
           \/ reps' = reps /\ late' = late + 1 /\ late' + ends <= MaxFaults
           \/ reps' = reps /\ late' = late /\ ~Alive
    BY <1>1, <1>6 DEF Pong, TakeReply, NoLine, GiveUp
  <2>2. Reading /\ ~Reading'
    BY <1>2, <1>4, <2>1 DEF Reading, Inside
  <2>3. CASE reps[conn] # <<>> /\ late' = late /\ reps' = [reps EXCEPT ![conn] = Tail(@)]
    <3>1. /\ Tail(reps[conn]) \in Seq(Reply)
          /\ Len(Tail(reps[conn])) = Len(reps[conn]) - 1
      BY <1>1, <2>3, HeadTail
    <3>2. /\ reps' \in [Conn -> Seq(Reply)] /\ reps'[conn] = Tail(reps[conn])
          /\ \A c \in Conn : c > conn => reps'[c] = reps[c]
      BY <1>1, <2>3, <3>1 DEF TypeOK
    <3>3. TypeOK'
      BY <1>2, <2>1, <2>3, <3>2 DEF TypeOK
    <3>4. LineInv'
      BY <1>2, <1>3, <1>4, <2>1, <2>3, <3>2 DEF LineInv, Inside
    <3>5. Outstanding' = Outstanding - 1 /\ Outstanding \in Nat
      BY <1>1, <1>2, <2>1, <3>1, <3>2 DEF Outstanding
    <3>6. InStep'
      BY <1>1, <1>3, <2>2, <2>3, <3>5 DEF InStep
    <3>7. QED
      BY <3>3, <3>4, <3>6
  <2>4. CASE reps' = reps /\ late' = late + 1 /\ late' + ends <= MaxFaults
    <3>1. TypeOK'
      BY <1>1, <1>2, <2>1, <2>4 DEF TypeOK
    <3>2. LineInv'
      BY <1>1, <1>2, <1>3, <1>4, <2>1, <2>4 DEF LineInv, Inside, Owed
    <3>3. InStep'
      BY <1>1, <1>2, <1>3, <2>1, <2>2, <2>4 DEF InStep, Outstanding
    <3>4. QED
      BY <3>1, <3>2, <3>3
  <2>5. CASE reps' = reps /\ late' = late /\ ~Alive
    <3>1. TypeOK'
      BY <1>2, <2>1, <2>5 DEF TypeOK
    <3>2. LineInv'
      BY <1>2, <1>3, <1>4, <2>1, <2>5 DEF LineInv, Inside
    <3>3. QED
      BY <1>3, <2>5, <3>1, <3>2 DEF InStep
  <2>6. QED
    BY <2>1, <2>3, <2>4, <2>5
<1>7. QED
  BY <1>5, <1>6

LEMMA Destroyed ==
    ASSUME TypeOK, LockInv, LineInv, InStep, Destroy
    PROVE  TypeOK' /\ LineInv' /\ InStep'
<1>1. /\ open' = {} /\ keepalive' = "none" /\ keepalive = "sleep"
      /\ UNCHANGED <<conn, owner, pc, try, using, held, late, reqs, reps, up, ended, ends,
                     targeted, busy, leased, others>>
  BY DEF Destroy, stream, daemon, running
<1>2. \A t \in Thread : pc[t] = "exited"
  BY IpcAssumption DEF Destroy, LockInv, Thread
<1>3. Alive' <=> Alive
  BY <1>1 DEF Alive
<1>4. Owed' = Owed
  BY <1>1, <1>3 DEF Owed
<1>5. TypeOK'
  BY <1>1 DEF TypeOK
<1>6. LineInv'
  BY <1>1, <1>2, <1>3, <1>4 DEF LineInv, Inside
<1>7. (Reading' <=> Reading) /\ Outstanding' = Outstanding
  BY <1>1 DEF Reading, Outstanding
<1>8. InStep'
  BY <1>1, <1>3, <1>7 DEF InStep
<1>9. QED
  BY <1>5, <1>6, <1>8

----------------------------------------------------------------------------
(* The daemon's steps. *)

\* A line is answered, unless its connection is closed, by one that names it.
LEMMA ServeEffect ==
    ASSUME TypeOK, NEW c \in Conn, Serve(c)
    PROVE  /\ reqs[c] # <<>> /\ UNCHANGED <<client, running>>
           /\ \/ reqs' = [reqs EXCEPT ![c] = Tail(@)]
              \/ c \notin open /\ reqs' = [reqs EXCEPT ![c] = <<>>]
           /\ \/ c \notin open /\ reps' = reps
              \/ \E r \in Reply :
                     /\ c \in open /\ reps' = [reps EXCEPT ![c] = Append(@, r)]
                     /\ IF Head(reqs[c]).cmd = "HELLO" THEN r = Hello ELSE r.cmd # "HELLO"
                     /\ r.cmd = "TARGET" => targeted'
           /\ targeted' \in BOOLEAN /\ (targeted => targeted')
           /\ busy' \subseteq Proxy /\ others' = others
           /\ DOMAIN leased' = Conn /\ \A d \in Conn : BagOf(leased'[d], Proxy)
<1> USE IpcAssumption
<1>1. /\ busy \subseteq Proxy /\ targeted \in BOOLEAN
      /\ DOMAIN leased = Conn /\ \A d \in Conn : BagOf(leased[d], Proxy)
  BY DEF TypeOK, BagOf
<1>2. reqs[c] # <<>> /\ UNCHANGED client
  BY DEF Serve
<1> DEFINE q == Head(reqs[c])
<1>3. q \in Request
  BY <1>2, HeadTail DEF TypeOK
<1>4. ASSUME NEW cmd, NEW url, Answer(c, cmd, url), Line(cmd, url) \in Reply,
             IF q.cmd = "HELLO" THEN cmd = "HELLO" /\ url = NoProxy ELSE cmd # "HELLO",
             cmd = "TARGET" => targeted'
      PROVE  \/ c \notin open /\ reps' = reps
             \/ \E r \in Reply :
                     /\ c \in open /\ reps' = [reps EXCEPT ![c] = Append(@, r)]
                     /\ IF q.cmd = "HELLO" THEN r = Hello ELSE r.cmd # "HELLO"
                     /\ r.cmd = "TARGET" => targeted'
  BY <1>4 DEF Answer, Line, Hello
<1>5. ASSUME leased' = leased \/ \E B : leased' = [leased EXCEPT ![c] = B] /\ BagOf(B, Proxy)
      PROVE  DOMAIN leased' = Conn /\ \A d \in Conn : BagOf(leased'[d], Proxy)
  <2>1. CASE leased' = leased
    BY <1>1, <2>1
  <2>2. CASE \E B : leased' = [leased EXCEPT ![c] = B] /\ BagOf(B, Proxy)
    <3>1. PICK B : leased' = [leased EXCEPT ![c] = B] /\ BagOf(B, Proxy)
      BY <2>2
    <3>2. DOMAIN leased' = Conn /\ \A d \in Conn : leased'[d] = B \/ leased'[d] = leased[d]
      BY <1>1, <3>1
    <3>3. QED
      BY <1>1, <3>1, <3>2
  <2>3. QED
    BY <1>5, <2>1, <2>2
<1>6. CASE /\ q.cmd \in {"HELLO", "PING"}
           /\ Answer(c, q.cmd, NoProxy) /\ Taken(c)
           /\ UNCHANGED daemon
  <2>1. Line(q.cmd, NoProxy) \in Reply
    BY <1>6 DEF Line, Reply, Url
  <2>2. UNCHANGED <<running, targeted, busy, leased, others>>
    BY <1>6 DEF daemon
  <2>3. \/ c \notin open /\ reps' = reps
        \/ \E r \in Reply :
                     /\ c \in open /\ reps' = [reps EXCEPT ![c] = Append(@, r)]
                     /\ IF q.cmd = "HELLO" THEN r = Hello ELSE r.cmd # "HELLO"
                     /\ r.cmd = "TARGET" => targeted'
    BY <1>4, <1>6, <2>1
  <2>4. QED
    BY <1>1, <1>2, <1>5, <1>6, <2>2, <2>3 DEF Taken
<1>7. CASE /\ q.cmd = "TARGET"
           /\ \E result \in {"TARGET", "FEW"} : Answer(c, result, NoProxy)
           /\ Taken(c)
           /\ targeted' = TRUE
           /\ UNCHANGED <<running, busy, leased, others>>
  <2>1. PICK result \in {"TARGET", "FEW"} : Answer(c, result, NoProxy)
    BY <1>7
  <2>2. Line(result, NoProxy) \in Reply
    BY DEF Line, Reply, Url
  <2>3. \/ c \notin open /\ reps' = reps
        \/ \E r \in Reply :
                     /\ c \in open /\ reps' = [reps EXCEPT ![c] = Append(@, r)]
                     /\ IF q.cmd = "HELLO" THEN r = Hello ELSE r.cmd # "HELLO"
                     /\ r.cmd = "TARGET" => targeted'
    BY <1>4, <1>7, <2>1, <2>2
  <2>4. QED
    BY <1>1, <1>2, <1>5, <1>7, <2>3 DEF Taken
<1>8. CASE /\ q.cmd = "RELEASE"
           /\ Answer(c, q.cmd, NoProxy) /\ Taken(c)
           /\ busy' = busy \ {q.url}
           /\ leased' = [leased EXCEPT ![c] = @ (-) SetToBag({q.url})]
           /\ UNCHANGED <<running, targeted, others>>
  <2>1. Line(q.cmd, NoProxy) \in Reply
    BY <1>8 DEF Line, Reply, Url
  <2>2. BagOf(leased[c] (-) SetToBag({q.url}), Proxy)
    BY <1>1, BagTypes
  <2>3. \/ c \notin open /\ reps' = reps
        \/ \E r \in Reply :
                     /\ c \in open /\ reps' = [reps EXCEPT ![c] = Append(@, r)]
                     /\ IF q.cmd = "HELLO" THEN r = Hello ELSE r.cmd # "HELLO"
                     /\ r.cmd = "TARGET" => targeted'
    BY <1>4, <1>8, <2>1
  <2>4. QED
    BY <1>1, <1>2, <1>5, <1>8, <2>2, <2>3 DEF Taken
<1>9. CASE /\ q.cmd = "ACQUIRE"
           /\ \E p \in Proxy \ busy :
                  /\ Answer(c, q.cmd, p)
                  /\ busy' = busy \cup {p}
                  /\ leased' = [leased EXCEPT ![c] = @ (+) SetToBag({p})]
           /\ IF c \in open THEN Taken(c) ELSE reqs' = [reqs EXCEPT ![c] = <<>>]
           /\ UNCHANGED <<running, targeted, others>>
  <2>1. PICK p \in Proxy \ busy :
                  /\ Answer(c, q.cmd, p)
                  /\ busy' = busy \cup {p}
                  /\ leased' = [leased EXCEPT ![c] = @ (+) SetToBag({p})]
    BY <1>9
  <2>2. Line(q.cmd, p) \in Reply
    BY <1>9 DEF Line, Reply, Url
  <2>3. BagOf(leased[c] (+) SetToBag({p}), Proxy)
    BY <1>1, BagTypes
  <2>4. \/ c \notin open /\ reps' = reps
        \/ \E r \in Reply :
                     /\ c \in open /\ reps' = [reps EXCEPT ![c] = Append(@, r)]
                     /\ IF q.cmd = "HELLO" THEN r = Hello ELSE r.cmd # "HELLO"
                     /\ r.cmd = "TARGET" => targeted'
    BY <1>4, <1>9, <2>1, <2>2
  <2>5. QED
    BY <1>1, <1>2, <1>5, <1>9, <2>1, <2>3, <2>4 DEF Taken
<1>10. CASE /\ q.cmd = "ACQUIRE" /\ Proxy \subseteq busy
            /\ Answer(c, q.cmd, NoProxy) /\ Taken(c)
            /\ UNCHANGED daemon
  <2>1. Line(q.cmd, NoProxy) \in Reply
    BY <1>10 DEF Line, Reply, Url
  <2>2. UNCHANGED <<running, targeted, busy, leased, others>>
    BY <1>10 DEF daemon
  <2>3. \/ c \notin open /\ reps' = reps
        \/ \E r \in Reply :
                     /\ c \in open /\ reps' = [reps EXCEPT ![c] = Append(@, r)]
                     /\ IF q.cmd = "HELLO" THEN r = Hello ELSE r.cmd # "HELLO"
                     /\ r.cmd = "TARGET" => targeted'
    BY <1>4, <1>10, <2>1
  <2>4. QED
    BY <1>1, <1>2, <1>5, <1>10, <2>2, <2>3 DEF Taken
<1>11. QED
  BY <1>6, <1>7, <1>8, <1>9, <1>10, Zenon DEF Serve

LEMMA Sums ==
    \A a, b \in Nat :
        /\ a + b \in Nat /\ a + b <= a + b
        /\ \A x, y \in Nat : x <= a - 1 /\ y <= b + 1 => x + y <= a + b
  OBVIOUS

LEMMA ServeStep ==
    ASSUME TypeOK, LockInv, LineInv, InStep, NEW c \in Conn, Serve(c)
    PROVE  TypeOK' /\ LineInv' /\ InStep'
<1> USE IpcAssumption
<1>1. /\ conn \in Conn /\ conn \in Nat /\ late \in Nat /\ ends \in Nat
      /\ \A d \in Conn : /\ reqs[d] \in Seq(Request) /\ Len(reqs[d]) \in Nat
                         /\ reps[d] \in Seq(Reply) /\ Len(reps[d]) \in Nat
      /\ DOMAIN reqs = Conn /\ DOMAIN reps = Conn
  BY Lengths
<1>2. /\ reqs[c] # <<>>
      /\ UNCHANGED <<conn, open, owner, pc, try, using, held, keepalive, late, up, ended, ends>>
  BY ServeEffect DEF client, running
<1>3. /\ targeted' \in BOOLEAN /\ busy' \subseteq Proxy /\ others' = others
      /\ DOMAIN leased' = Conn /\ \A d \in Conn : BagOf(leased'[d], Proxy)
  BY ServeEffect
<1>4. /\ Tail(reqs[c]) \in Seq(Request) /\ Len(Tail(reqs[c])) = Len(reqs[c]) - 1
  BY <1>1, <1>2, HeadTail
<1>5. PICK rest \in Seq(Request) :
         /\ reqs' = [reqs EXCEPT ![c] = rest]
         /\ Len(rest) <= Len(reqs[c]) - 1 /\ Len(rest) \in Nat
         /\ c \in open => rest = Tail(reqs[c])
  <2>1. ASSUME Taken(c)
        PROVE  \E rest \in Seq(Request) :
                   /\ reqs' = [reqs EXCEPT ![c] = rest]
                   /\ Len(rest) <= Len(reqs[c]) - 1 /\ Len(rest) \in Nat
                   /\ c \in open => rest = Tail(reqs[c])
    <3>1. reqs' = [reqs EXCEPT ![c] = Tail(reqs[c])]
      BY <2>1 DEF Taken
    <3>2. Len(reqs[c]) \in Nat /\ Len(Tail(reqs[c])) \in Nat
      BY <1>1, <1>4
    <3>3. Len(Tail(reqs[c])) <= Len(reqs[c]) - 1
      BY <1>4, <3>2
    <3>4. QED
      BY <1>4, <3>1, <3>2, <3>3, Zenon
  <2>2. CASE c \notin open /\ reqs' = [reqs EXCEPT ![c] = <<>>]
    <3>1. Len(reqs[c]) - 1 >= 0
      BY <1>1, <1>2
    <3>2. <<>> \in Seq(Request) /\ Len(<<>>) = 0
      OBVIOUS
    <3>3. QED
      BY <2>2, <3>1, <3>2
  <2>3. QED
    BY <2>1, <2>2, ServeEffect DEF Taken
<1>6. PICK said \in Seq(Reply) :
         /\ reps' = [reps EXCEPT ![c] = said]
         /\ Len(said) <= Len(reps[c]) + 1 /\ Len(said) \in Nat
         /\ c \in open /\ Head(reqs[c]).cmd = "HELLO" => said = Append(reps[c], Hello)
  <2>1. CASE c \notin open /\ reps' = reps
    <3>1. reps' = [reps EXCEPT ![c] = reps[c]]
      BY <2>1 DEF TypeOK
    <3>2. reps[c] \in Seq(Reply) /\ Len(reps[c]) \in Nat
      BY <1>1
    <3>3. Len(reps[c]) <= Len(reps[c]) + 1
      BY <3>2
    <3>4. QED
      BY <2>1, <3>1, <3>2, <3>3, Zenon
  <2>2. ASSUME NEW r \in Reply, reps' = [reps EXCEPT ![c] = Append(@, r)],
               Head(reqs[c]).cmd = "HELLO" => r = Hello
        PROVE  \E said \in Seq(Reply) :
                   /\ reps' = [reps EXCEPT ![c] = said]
                   /\ Len(said) <= Len(reps[c]) + 1 /\ Len(said) \in Nat
                   /\ c \in open /\ Head(reqs[c]).cmd = "HELLO" => said = Append(reps[c], Hello)
    <3>1. /\ Append(reps[c], r) \in Seq(Reply)
          /\ Len(Append(reps[c], r)) = Len(reps[c]) + 1 /\ Len(reps[c]) \in Nat
      BY <1>1
    <3>2. Len(Append(reps[c], r)) \in Nat /\ Len(Append(reps[c], r)) <= Len(reps[c]) + 1
      BY <3>1
    <3>3. reps' = [reps EXCEPT ![c] = Append(reps[c], r)]
      BY <2>2
    <3>4. Head(reqs[c]).cmd = "HELLO" => Append(reps[c], r) = Append(reps[c], Hello)
      BY <2>2
    <3>5. QED
      BY <3>1, <3>2, <3>3, <3>4, Zenon
  <2>3. QED
    BY <2>1, <2>2, ServeEffect
<1>7. TypeOK'
  <2>1. reqs' \in [Conn -> Seq(Request)] /\ reps' \in [Conn -> Seq(Reply)]
    BY <1>5, <1>6 DEF TypeOK
  <2>2. QED
    BY <1>2, <1>3, <2>1 DEF TypeOK, BagOf
<1>8. (Alive' <=> Alive) /\ Owed' = Owed /\ (Reading' <=> Reading)
  BY <1>2 DEF Alive, Owed, Reading
<1>9. \A d \in Conn : d # c => reqs'[d] = reqs[d] /\ reps'[d] = reps[d]
  BY <1>1, <1>5, <1>6
<1>10. reqs'[c] = rest /\ reps'[c] = said
  BY <1>1, <1>5, <1>6
<1>11. ~(c > conn)
  BY <1>2 DEF LineInv
<1>12. ASSUME NEW t \in Thread, pc[t] = "hello", Alive PROVE OneHello'
  <2>1. OneHello /\ open = {conn}
    BY <1>12 DEF LineInv, Inside
  <2>2. CASE c # conn
    BY <1>1, <1>2, <1>9, <2>1, <2>2 DEF OneHello
  <2>3. CASE c = conn
    <3>1. reqs[conn] = <<Hello>> /\ reps[conn] = <<>> /\ c \in open
      BY <1>2, <2>1, <2>3 DEF OneHello
    <3>2. Head(<<Hello>>) = Hello /\ Tail(<<Hello>>) = <<>> /\ Append(<<>>, Hello) = <<Hello>>
      OBVIOUS
    <3>3. Hello.cmd = "HELLO"
      BY DEF Hello, Line
    <3>4. rest = <<>> /\ said = <<Hello>>
      BY <1>5, <1>6, <2>3, <3>1, <3>2, <3>3
    <3>5. QED
      BY <1>2, <1>10, <2>3, <3>4 DEF OneHello
  <2>4. QED
    BY <2>2, <2>3
<1>13. LineInv'
  BY <1>2, <1>8, <1>9, <1>11, <1>12 DEF LineInv
<1>14. Outstanding' <= Outstanding
  <2>1. CASE c # conn
    <3>1. reqs'[conn] = reqs[conn] /\ reps'[conn] = reps[conn] /\ conn' = conn
      BY <1>1, <1>2, <1>9, <2>1
    <3>2. Len(reqs[conn]) \in Nat /\ Len(reps[conn]) \in Nat
      BY <1>1
    <3>3. QED
      BY <3>1, <3>2, Sums, Zenon DEF Outstanding
  <2>2. CASE c = conn
    <3>1. Outstanding' = Len(rest) + Len(said)
      BY <1>2, <1>10, <2>2 DEF Outstanding
    <3>2. Outstanding = Len(reqs[c]) + Len(reps[c])
      BY <2>2 DEF Outstanding
    <3>3. /\ Len(reqs[c]) \in Nat /\ Len(reps[c]) \in Nat
          /\ Len(rest) \in Nat /\ Len(said) \in Nat
      BY <1>1, <1>5, <1>6
    <3>4. Len(rest) <= Len(reqs[c]) - 1 /\ Len(said) <= Len(reps[c]) + 1
      BY <1>5, <1>6
    <3>5. QED
      BY <3>1, <3>2, <3>3, <3>4, Sums, Zenon
  <2>3. QED
    BY <2>1, <2>2
<1>15. Outstanding \in Nat /\ Outstanding' \in Nat
  BY <1>1, <1>2, <1>5, <1>6, <1>9, <1>10 DEF Outstanding
<1>16. InStep'
  BY <1>1, <1>2, <1>8, <1>14, <1>15 DEF InStep
<1>17. QED
  BY <1>7, <1>13, <1>16

LEMMA DropStep ==
    ASSUME TypeOK, LockInv, LineInv, InStep, NEW c \in Conn, Drop(c)
    PROVE  TypeOK' /\ LineInv' /\ InStep'
<1>1. /\ conn \in Conn /\ conn \in Nat /\ late \in Nat /\ ends \in Nat
      /\ \A d \in Conn : /\ reqs[d] \in Seq(Request) /\ Len(reqs[d]) \in Nat
                         /\ reps[d] \in Seq(Reply) /\ Len(reps[d]) \in Nat
      /\ DOMAIN reqs = Conn /\ DOMAIN reps = Conn
  BY Lengths
<1>2. /\ c \notin open
      /\ UNCHANGED <<conn, open, owner, pc, try, using, held, keepalive, late, up, ended,
                     ends, targeted, others>>
  BY DEF Drop, client, running
<1>3. /\ reqs' = [reqs EXCEPT ![c] = <<>>] /\ reps' = [reps EXCEPT ![c] = <<>>]
      /\ busy' = busy \ BagToSet(leased[c])
      /\ leased' = [leased EXCEPT ![c] = EmptyBag]
  BY DEF Drop, Forget
<1>4. TypeOK'
  <2>1. reqs' \in [Conn -> Seq(Request)] /\ reps' \in [Conn -> Seq(Reply)]
    BY <1>3 DEF TypeOK
  <2>2. IsABag(EmptyBag) /\ BagToSet(EmptyBag) = {}
    BY BagOfSet DEF EmptyBag
  <2>3. /\ DOMAIN leased' = Conn
        /\ \A d \in Conn : IsABag(leased'[d]) /\ BagToSet(leased'[d]) \subseteq Proxy
    BY <1>3, <2>2 DEF TypeOK
  <2>4. QED
    BY <1>2, <1>3, <2>1, <2>3 DEF TypeOK
<1>5. (Alive' <=> Alive) /\ Owed' = Owed /\ (Reading' <=> Reading)
  BY <1>2 DEF Alive, Owed, Reading
<1>6. /\ \A d \in Conn : d # c => reqs'[d] = reqs[d] /\ reps'[d] = reps[d]
      /\ reqs'[c] = <<>> /\ reps'[c] = <<>>
  BY <1>1, <1>3
<1>7. ASSUME NEW t \in Thread, pc[t] = "hello" PROVE c # conn
  BY <1>2, <1>7 DEF LineInv, Inside
<1>8. LineInv'
  BY <1>1, <1>2, <1>5, <1>6, <1>7 DEF LineInv, OneHello
<1>9. Outstanding' <= Outstanding /\ Outstanding \in Nat /\ Outstanding' \in Nat
  <2>0. Outstanding \in Nat
    <3>1. Len(reqs[conn]) \in Nat /\ Len(reps[conn]) \in Nat
      BY <1>1
    <3>2. QED
      BY <3>1, Sums, Zenon DEF Outstanding
  <2>1. CASE c # conn
    <3>1. reqs'[conn] = reqs[conn] /\ reps'[conn] = reps[conn] /\ conn' = conn
      BY <1>1, <1>2, <1>6, <2>1
    <3>2. Outstanding' = Outstanding
      BY <3>1 DEF Outstanding
    <3>3. QED
      BY <2>0, <3>2
  <2>2. CASE c = conn
    <3>1. reqs'[conn'] = <<>> /\ reps'[conn'] = <<>>
      BY <1>2, <1>6, <2>2
    <3>2. Outstanding' = 0
      BY <3>1 DEF Outstanding
    <3>3. QED
      BY <2>0, <3>2
  <2>3. QED
    BY <2>1, <2>2
<1>10. InStep'
  BY <1>1, <1>2, <1>5, <1>9 DEF InStep
<1>11. QED
  BY <1>4, <1>8, <1>10

\* A daemon that ends owes the client nothing more, and costs a connection.
LEMMA EndsStep ==
    ASSUME TypeOK, LockInv, LineInv, InStep, DaemonEnds
    PROVE  TypeOK' /\ LineInv' /\ InStep'
<1> USE IpcAssumption
<1>1. /\ conn \in Conn /\ conn \in Nat /\ late \in Nat /\ ends \in Nat
      /\ DOMAIN reqs = Conn /\ DOMAIN reps = Conn
      /\ \A d \in Conn : reps[d] \in Seq(Reply)
  BY Lengths
<1>2. /\ up' = FALSE /\ ended' = conn /\ ends' = ends + 1 /\ targeted' = FALSE
      /\ ends < MaxEnds /\ late + ends < MaxFaults
      /\ UNCHANGED <<conn, open, owner, pc, try, using, held, keepalive, late>>
  BY DEF DaemonEnds, client
<1>3. /\ reqs' = [c \in Conn |-> <<>>] /\ busy' = {} /\ others' = {}
      /\ leased' = [c \in Conn |-> EmptyBag]
  BY DEF DaemonEnds
<1>4. /\ reps' \in [Conn -> Seq(Reply)]
      /\ \A c \in Conn : c > conn => reps'[c] = reps[c]
  <2>1. Line("BYE", NoProxy) \in Reply
    BY DEF Line, Reply, Url
  <2>2. \A c \in Conn : Append(reps[c], Line("BYE", NoProxy)) \in Seq(Reply)
    BY <1>1, <2>1
  <2>3. CASE UNCHANGED reps
    BY <2>3 DEF TypeOK
  <2>4. CASE reps' = [c \in Conn |-> IF c \in open /\ Alive
                                     THEN Append(reps[c], Line("BYE", NoProxy)) ELSE reps[c]]
    <3>1. \A c \in Conn : c > conn => c \notin open
      BY <1>1 DEF LineInv
    <3>2. QED
      BY <1>1, <2>2, <2>4, <3>1
  <2>5. QED
    BY <2>3, <2>4 DEF DaemonEnds
<1>5. TypeOK'
  <2>1. IsABag(EmptyBag) /\ BagToSet(EmptyBag) = {}
    BY BagOfSet DEF EmptyBag
  <2>2. /\ DOMAIN leased' = Conn
        /\ \A d \in Conn : IsABag(leased'[d]) /\ BagToSet(leased'[d]) \subseteq Proxy
    BY <1>3, <2>1
  <2>3. reqs' \in [Conn -> Seq(Request)]
    BY <1>3
  <2>4. ended' \in 0 .. conn' /\ ends' \in 0 .. MaxEnds /\ late' + ends' \in 0 .. MaxFaults
    BY <1>1, <1>2
  <2>5. QED
    BY <1>2, <1>3, <1>4, <2>2, <2>3, <2>4 DEF TypeOK
<1>6. ~Alive'
  BY <1>1, <1>2 DEF Alive
<1>7. Owed' = 1 /\ Owed \in {0, 1}
  BY <1>6 DEF Owed
<1>8. \A c \in Conn : c > conn' => reqs'[c] = <<>> /\ reps'[c] = <<>>
  BY <1>2, <1>3, <1>4 DEF LineInv
<1>9. LineInv'
  BY <1>1, <1>2, <1>6, <1>7, <1>8 DEF LineInv
<1>10. QED
  BY <1>5, <1>6, <1>9 DEF InStep

LEMMA RestOfDaemon ==
    ASSUME TypeOK, LockInv, LineInv, InStep,
           \/ DaemonStarts
           \/ \E p \in Proxy : OtherAcquires(p) \/ OtherReleases(p)
    PROVE  TypeOK' /\ LineInv' /\ InStep'
<1>1. /\ UNCHANGED <<conn, open, owner, pc, try, using, held, keepalive, late, reqs, reps,
                     ended, ends, targeted, leased>>
      /\ up' = TRUE \/ up' = up
      /\ busy' \subseteq Proxy /\ others' \subseteq Proxy
  BY DEF DaemonStarts, OtherAcquires, OtherReleases, client, stream, running, TypeOK
<1>2. TypeOK'
  BY <1>1 DEF TypeOK
<1>3. /\ (Alive' <=> Alive) /\ Owed' = Owed /\ (Reading' <=> Reading)
      /\ (OneHello' <=> OneHello) /\ Outstanding' = Outstanding
  BY <1>1 DEF Alive, Owed, Reading, OneHello, Outstanding
<1>4. LineInv'
  BY <1>1, <1>3 DEF LineInv
<1>5. InStep'
  BY <1>1, <1>3 DEF InStep
<1>6. QED
  BY <1>2, <1>4, <1>5

----------------------------------------------------------------------------
(* The theorems. *)

LEMMA InitLines == Init => TypeOK /\ LineInv /\ InStep
<1> SUFFICES ASSUME Init PROVE TypeOK /\ LineInv /\ InStep
  OBVIOUS
<1> USE IpcAssumption
<1>1. IsABag(EmptyBag) /\ BagToSet(EmptyBag) = {}
  BY BagOfSet DEF EmptyBag
<1>2. 1 \in Conn /\ \A c \in Conn : c \in Nat
  BY DEF Conn
<1>3. TypeOK
  <2>1. /\ reqs \in [Conn -> Seq(Request)] /\ reps \in [Conn -> Seq(Reply)]
        /\ conn \in Conn /\ open \subseteq Conn
    BY <1>2 DEF Init
  <2>2. /\ pc \in [Thread -> {"unborn", "idle", "lock", "send", "read", "broken",
                              "reconnect", "hello", "join", "exited"}]
        /\ using \in [Worker -> Url]
    BY DEF Init, Url
  <2>3. late + ends \in 0 .. MaxFaults /\ ended \in 0 .. conn /\ ends \in 0 .. MaxEnds
    BY DEF Init
  <2>4. /\ DOMAIN leased = Conn
        /\ \A c \in Conn : IsABag(leased[c]) /\ BagToSet(leased[c]) \subseteq Proxy
    BY <1>1 DEF Init
  <2>5. QED
    BY <1>1, <2>1, <2>2, <2>3, <2>4 DEF Init, TypeOK
<1>4. Alive /\ Owed = 0
  BY DEF Init, Alive, Owed
<1>5. LineInv
  BY <1>2, <1>4 DEF Init, LineInv
<1>6. Outstanding = 0
  BY <1>2 DEF Init, Outstanding
<1>7. InStep
  BY <1>6 DEF Init, InStep
<1>8. QED
  BY <1>3, <1>5, <1>7

LEMMA StepLines ==
    TypeOK /\ LockInv /\ LineInv /\ InStep /\ [Next]_vars => TypeOK' /\ LineInv' /\ InStep'
<1> SUFFICES ASSUME TypeOK, LockInv, LineInv, InStep, [Next]_vars
             PROVE  TypeOK' /\ LineInv' /\ InStep'
  OBVIOUS
<1>1. ASSUME NEW t \in Thread, Call(t) \/ Lock(t)
      PROVE  TypeOK' /\ LineInv' /\ InStep'
  BY <1>1, CallAndLock
<1>2. ASSUME NEW t \in Thread, InCall(t) PROVE TypeOK' /\ LineInv' /\ InStep'
  BY <1>2, CallTyped, CallLineInv
<1>3. ASSUME NEW w \in Worker, Exit(w) PROVE TypeOK' /\ LineInv' /\ InStep'
  <2>1. w \in Thread
    BY DEF Thread
  <2>2. QED
    BY <1>3, <2>1, CallAndLock
<1>4. CASE UNCHANGED vars
  <2>1. UNCHANGED <<conn, open, owner, pc, try, using, held, keepalive, late, reqs, reps,
                    up, ended, ends, targeted, busy, leased, others>>
    BY <1>4 DEF vars, client, stream, daemon, running
  <2>2. QED
    BY <2>1 DEF TypeOK, LineInv, InStep, Alive, Owed, OneHello, Outstanding, Reading
<1>5. QED
  BY <1>1, <1>2, <1>3, <1>4, Keepalives, Destroyed, ServeStep, DropStep, EndsStep,
     RestOfDaemon DEF Next

LEMMA IpcInvariant == Safety => [](TypeOK /\ LockInv /\ LineInv /\ InStep)
<1>1. Init => TypeOK /\ LockInv /\ LineInv /\ InStep
  BY InitLockInv, InitLines
<1>2. TypeOK /\ LockInv /\ LineInv /\ InStep /\ [Next]_vars
          => (TypeOK /\ LockInv /\ LineInv /\ InStep)'
  BY StepLockInv, StepLines
<1>3. QED
  BY <1>1, <1>2, PTL DEF Safety

\* once, hello and the keepalive thread: whatever times out and whichever
\* daemon ends, on a connection that lives no more lines are on the way than
\* reads have timed out, but for the line of the thread that reads.
THEOREM CallsStayInStep == Safety => []InStep
<1>1. QED
  BY IpcInvariant, PTL

\* The connections of reconnect are no more than the faults and one, held_ and
\* the daemon's leases are bags of proxies.
THEOREM IpcTyped == Safety => []TypeOK
<1>1. QED
  BY IpcInvariant, PTL

=============================================================================
