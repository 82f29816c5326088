------------------------- MODULE ProxyAnswerProofs -------------------------
(***************************************************************************)
(* Two proofs about what an answer says, given that replies keep in step   *)
(* (ProxyIpcProofs).                                                       *)
(*                                                                         *)
(* TargetFirst: no line read by set_target passes for the answer to its    *)
(* TARGET before the daemon has carried one out.  Only set_target runs     *)
(* until then.  A HELLO is on the way only while reconnect waits for its   *)
(* reply; when that fails, set_target ends.  What else may come late       *)
(* answers a PING.                                                         *)
(*                                                                         *)
(* LeasesAgree: client and daemon agree on the leases while no read times  *)
(* out.  Then at most one request or its reply is on the way, so the       *)
(* daemon's leases are held_, or what the reader is about to make of it.   *)
(***************************************************************************)
EXTENDS ProxyIpcProofs

----------------------------------------------------------------------------
(* TargetFirst *)

Cmds(q) == {q[i].cmd : i \in DOMAIN q}

NotYet == ends = 0 /\ ~targeted

TargetInv ==
    NotYet =>
        /\ \A w \in Worker : pc[w] \in {"unborn", "exited"}
        /\ "TARGET" \notin Cmds(reps[conn])
        /\ pc[Main] \notin {"hello", "exited"} =>
               "HELLO" \notin Cmds(reqs[conn]) \cup Cmds(reps[conn])

LEMMA CmdsOf ==
    ASSUME NEW S, NEW q \in Seq(S)
    PROVE  /\ \A x \in S : Cmds(Append(q, x)) = Cmds(q) \cup {x.cmd}
           /\ q # <<>> => Head(q).cmd \in Cmds(q) /\ Cmds(Tail(q)) \subseteq Cmds(q)
<1>1. ASSUME NEW x \in S PROVE Cmds(Append(q, x)) = Cmds(q) \cup {x.cmd}
  <2>1. /\ DOMAIN q = 1 .. Len(q) /\ Len(q) \in Nat
        /\ DOMAIN Append(q, x) = 1 .. Len(q) + 1
        /\ \A i \in 1 .. Len(q) : Append(q, x)[i] = q[i]
        /\ Append(q, x)[Len(q) + 1] = x
    OBVIOUS
  <2>2. \A i \in 1 .. Len(q) + 1 : i \in 1 .. Len(q) \/ i = Len(q) + 1
    BY <2>1
  <2>3. 1 .. Len(q) \subseteq 1 .. Len(q) + 1 /\ Len(q) + 1 \in 1 .. Len(q) + 1
    BY <2>1
  <2>4. QED
    BY <2>1, <2>2, <2>3, Zenon DEF Cmds
<1>2. ASSUME q # <<>> PROVE Head(q).cmd \in Cmds(q) /\ Cmds(Tail(q)) \subseteq Cmds(q)
  <2>1. /\ DOMAIN q = 1 .. Len(q) /\ Len(q) \in Nat /\ Len(q) >= 1
        /\ Head(q) = q[1]
        /\ DOMAIN Tail(q) = 1 .. Len(q) - 1
        /\ \A i \in 1 .. Len(q) - 1 : Tail(q)[i] = q[i + 1]
    BY <1>2
  <2>2. 1 \in 1 .. Len(q) /\ \A i \in 1 .. Len(q) - 1 : i + 1 \in 1 .. Len(q)
    BY <2>1
  <2>3. Head(q).cmd \in Cmds(q)
    BY <2>1, <2>2, Zenon DEF Cmds
  <2>4. ASSUME NEW i \in DOMAIN Tail(q) PROVE Tail(q)[i].cmd \in Cmds(q)
    <3>1. i + 1 \in DOMAIN q /\ Tail(q)[i] = q[i + 1]
      BY <2>1, <2>2, <2>4
    <3>2. QED
      BY <3>1, Zenon DEF Cmds
  <2>5. QED
    BY <2>3, <2>4, Zenon DEF Cmds
<1>3. QED
  BY <1>1, <1>2

LEMMA CmdsEmpty == Cmds(<<>>) = {}
  BY DEF Cmds

LEMMA CmdsHello == Cmds(<<Hello>>) = {"HELLO"}
  BY DEF Cmds, Hello, Line

\* Before the TARGET no daemon has ended.
LEMMA FirstDaemon ==
    ASSUME TypeOK, LineInv, NotYet
    PROVE  ended = 0 /\ Alive /\ up
  BY IpcAssumption DEF TypeOK, LineInv, NotYet, Alive, Conn

\* A step that leaves the threads alone, and the lines on the way but for one
\* taken, or one sent that is neither HELLO nor TARGET.
LEMMA QuietStep ==
    ASSUME TypeOK, TargetInv, NotYet' => NotYet, UNCHANGED <<pc, conn>>,
           NotYet' => /\ Cmds(reqs'[conn]) \subseteq Cmds(reqs[conn]) \cup {"PING"}
                      /\ Cmds(reps'[conn]) \subseteq Cmds(reps[conn]) \cup {"PING"}
    PROVE  TargetInv'
  BY DEF TargetInv

LEMMA InitTarget == Init => TargetInv
  BY IpcAssumption, CmdsEmpty DEF Init, TargetInv, Thread, Conn

\* set_target, until it ends or the TARGET is carried out.
LEMMA TargetCall ==
    ASSUME TypeOK, LockInv, LineInv, TargetInv, NEW t \in Thread, InCall(t)
    PROVE  TargetInv'
<1> USE IpcAssumption
<1> SUFFICES ASSUME NotYet PROVE TargetInv'
  <2>1. NotYet' <=> NotYet
    BY CallMakesLines DEF NotYet, daemon, running
  <2>2. QED
    BY <2>1 DEF TargetInv
<1>1. /\ owner = t /\ pc[t] \in Inside /\ (t = Main => try' # "after")
      /\ CallLines(t) /\ UNCHANGED daemon
  BY CallMoves, CallMakesLines
<1>2. t = Main /\ try # "after" /\ Main \notin Worker
  <2>1. pc[t] \notin {"unborn", "exited"}
    BY <1>1 DEF Inside
  <2>2. t = Main
    BY <2>1 DEF TargetInv, Thread
  <2>3. QED
    BY <1>1, <2>2 DEF LockInv
<1>3. ended = 0 /\ Alive /\ up
  BY FirstDaemon
<1>4. /\ conn \in Conn /\ conn \in Nat
      /\ reqs[conn] \in Seq(Request) /\ reps[conn] \in Seq(Reply)
      /\ DOMAIN reqs = Conn /\ DOMAIN reps = Conn /\ DOMAIN pc = Thread
      /\ Main \in Thread /\ Worker \subseteq Thread
  <2>1. DOMAIN pc = Thread /\ Main \in Thread /\ Worker \subseteq Thread
    BY DEF TypeOK, Thread
  <2>2. QED
    BY <2>1, Lengths
<1>5. /\ \A w \in Worker : pc[w] \in {"unborn", "exited"}
      /\ "TARGET" \notin Cmds(reps[conn])
      /\ pc[Main] # "hello" => "HELLO" \notin Cmds(reqs[conn]) \cup Cmds(reps[conn])
  BY <1>1, <1>2 DEF TargetInv, Inside
<1>6. ASSUME RpcFails(Main)
      PROVE  \A u \in Thread : pc'[u] = "exited"
  BY <1>2, <1>6 DEF RpcFails, StartWorkers, Releasing, Acquiring
\* What has come in is not the answer to a TARGET.
<1>7. ASSUME ReadTarget PROVE \A u \in Thread : pc'[u] = "exited"
  <2>1. reps[conn] # <<>> /\ pc[Main] = "read"
    BY <1>7 DEF ReadTarget
  <2>2. Head(reps[conn]).cmd \in Cmds(reps[conn])
    BY <1>4, <2>1, CmdsOf
  <2>3. ~LeavesProxies(Head(reps[conn]))
    BY <1>5, <2>1, <2>2 DEF LeavesProxies
  <2>4. QED
    BY <1>7, <2>3 DEF ReadTarget, StartWorkers
\* Nobody else starts.
<1>8. \A w \in Worker : pc'[w] \in {"unborn", "exited"}
  <2>1. CASE \E to : pc' = [pc EXCEPT ![Main] = to]
    BY <1>2, <1>4, <1>5, <2>1
  <2>2. CASE RpcFails(Main) \/ ReadTarget
    BY <1>4, <1>6, <1>7, <2>2
  <2>3. CASE Send(Main) \/ Reconnect(Main) \/ RestartKeepalive(Main)
    BY <1>2, <2>1, <2>3 DEF Send, Reconnect, RestartKeepalive, Goto, Unlock
  <2>4. CASE OnceFails(Main) \/ HelloAnswered(Main) \/ HelloFails(Main)
    BY <1>2, <2>1, <2>2, <2>4 DEF OnceFails, HelloAnswered, HelloFails, Goto, Unlock
  <2>5. CASE Refused(Main)
    BY <1>3, <2>5 DEF Refused
  <2>6. CASE ReadAcquired(Main) \/ ReadReleased(Main)
    BY <2>6 DEF ReadAcquired, ReadReleased, Acquiring, Releasing
  <2>7. QED
    BY <1>2, <2>2, <2>3, <2>4, <2>5, <2>6 DEF InCall
\* After a HELLO that is not answered set_target ends.
<1>9. ASSUME pc[Main] = "hello" PROVE pc'[Main] \in {"join", "exited"}
  <2>1. CASE HelloAnswered(Main)
    BY <1>2, <1>4, <1>6, <2>1 DEF HelloAnswered, Goto
  <2>2. CASE HelloFails(Main)
    BY <1>2, <1>4, <1>6, <2>2 DEF HelloFails
  <2>3. QED
    BY <1>2, <1>9, <2>1, <2>2 DEF InCall, Send, ReadAcquired, ReadReleased, ReadTarget,
                                  OnceFails, Reconnect, Refused, RestartKeepalive
<1>10. CASE /\ reqs' = [reqs EXCEPT ![conn] = Append(@, Command(t))]
            /\ pc[t] = "send" /\ UNCHANGED <<conn, reps>>
  <2>1. Command(t) \in Request /\ Command(t).cmd = "TARGET"
    BY <1>2 DEF Command, Line, Request, Url
  <2>2. reqs'[conn] = Append(reqs[conn], Command(t))
    BY <1>4, <1>10
  <2>3. Cmds(reqs'[conn]) = Cmds(reqs[conn]) \cup {"TARGET"}
    BY <1>4, <2>1, <2>2, CmdsOf
  <2>4. QED
    BY <1>2, <1>5, <1>8, <1>10, <2>3 DEF TargetInv
<1>11. CASE /\ pc[t] \in {"read", "hello"} /\ reps[conn] # <<>> /\ TakeReply
            /\ UNCHANGED <<conn, reqs>>
  <2>1. reps'[conn] = Tail(reps[conn])
    BY <1>4, <1>11 DEF TakeReply
  <2>2. Cmds(reps'[conn]) \subseteq Cmds(reps[conn])
    BY <1>4, <1>11, <2>1, CmdsOf
  <2>3. CASE pc[Main] = "read"
    BY <1>5, <1>8, <1>11, <2>2, <2>3 DEF TargetInv
  <2>4. CASE pc[Main] = "hello"
    <3>1. OneHello
      BY <1>3, <1>4, <2>4 DEF LineInv
    <3>2. reqs[conn] = <<>> /\ reps[conn] = <<Hello>>
      BY <1>11, <3>1 DEF OneHello
    <3>3. Tail(<<Hello>>) = <<>>
      OBVIOUS
    <3>4. Cmds(reqs'[conn]) = {} /\ Cmds(reps'[conn]) = {}
      BY <1>11, <2>1, <3>2, <3>3, CmdsEmpty
    <3>5. QED
      BY <1>8, <1>11, <3>4 DEF TargetInv
  <2>5. QED
    BY <1>2, <1>11, <2>3, <2>4
<1>12. CASE /\ pc[t] \in {"read", "broken", "join", "hello"}
            /\ pc[t] = "hello" => pc'[t] = "exited"
            /\ UNCHANGED <<conn, reqs, reps>>
  BY <1>2, <1>5, <1>8, <1>12 DEF TargetInv
<1>13. CASE /\ pc[t] = "reconnect" /\ up /\ conn' = conn + 1 /\ pc'[t] = "hello"
            /\ UNCHANGED reps
  <2>1. conn' \in Conn
    BY <1>1, <1>13, NextConn
  <2>2. reps'[conn'] = <<>>
    BY <1>4, <1>13, <2>1 DEF LineInv
  <2>3. QED
    BY <1>2, <1>8, <1>13, <2>2, CmdsEmpty DEF TargetInv
<1>14. QED
  BY <1>1, <1>2, <1>3, <1>9, <1>10, <1>11, <1>12, <1>13 DEF CallLines

LEMMA TargetServed ==
    ASSUME TypeOK, LockInv, LineInv, TargetInv, NEW c \in Conn, Serve(c)
    PROVE  TargetInv'
<1>1. /\ reqs[c] # <<>>
      /\ UNCHANGED <<conn, open, owner, pc, try, using, held, keepalive, late, up, ended, ends>>
      /\ targeted => targeted'
  BY ServeEffect DEF client, running
<1>2. /\ conn \in Conn /\ conn \in Nat
      /\ \A d \in Conn : reqs[d] \in Seq(Request) /\ reps[d] \in Seq(Reply)
      /\ DOMAIN reqs = Conn /\ DOMAIN reps = Conn
  BY Lengths
<1>3. NotYet' => NotYet
  BY <1>1 DEF NotYet
<1>4. Cmds(reqs'[conn]) \subseteq Cmds(reqs[conn])
  <2>1. CASE c # conn \/ reqs' = [reqs EXCEPT ![c] = <<>>]
    BY <1>2, <2>1, ServeEffect, CmdsEmpty
  <2>2. CASE c = conn /\ reqs' = [reqs EXCEPT ![c] = Tail(@)]
    <3>1. reqs'[conn] = Tail(reqs[conn])
      BY <1>2, <2>2
    <3>2. QED
      BY <1>1, <1>2, <2>2, <3>1, CmdsOf
  <2>3. QED
    BY <2>1, <2>2, ServeEffect
<1>5. ASSUME NotYet', c = conn,
             NEW r \in Reply, reps' = [reps EXCEPT ![c] = Append(@, r)],
             IF Head(reqs[c]).cmd = "HELLO" THEN r = Hello ELSE r.cmd # "HELLO",
             r.cmd = "TARGET" => targeted'
      PROVE  /\ "TARGET" \notin Cmds(reps'[conn])
             /\ pc[Main] \notin {"hello", "exited"} => "HELLO" \notin Cmds(reps'[conn])
  <2>1. reps'[conn] = Append(reps[conn], r)
    BY <1>2, <1>5
  <2>2. Cmds(reps'[conn]) = Cmds(reps[conn]) \cup {r.cmd}
    BY <1>2, <2>1, CmdsOf
  <2>3. r.cmd # "TARGET"
    BY <1>5 DEF NotYet
  <2>4. Head(reqs[conn]).cmd \in Cmds(reqs[conn])
    BY <1>1, <1>2, <1>5, CmdsOf
  <2>5. QED
    BY <1>3, <1>5, <2>2, <2>3, <2>4 DEF TargetInv
<1>6. ASSUME c # conn \/ reps' = reps PROVE reps'[conn] = reps[conn]
  BY <1>2, <1>6, ServeEffect
<1>7. ASSUME NotYet'
      PROVE  /\ "TARGET" \notin Cmds(reps'[conn])
             /\ pc[Main] \notin {"hello", "exited"} => "HELLO" \notin Cmds(reps'[conn])
  <2>1. CASE c # conn \/ reps' = reps
    BY <1>3, <1>6, <1>7, <2>1 DEF TargetInv
  <2>2. CASE c = conn /\ reps' # reps
    BY <1>5, <1>7, <2>2, ServeEffect
  <2>3. QED
    BY <2>1, <2>2
<1>8. QED
  BY <1>1, <1>3, <1>4, <1>7 DEF TargetInv

LEMMA StepTarget ==
    TypeOK /\ LockInv /\ LineInv /\ TargetInv /\ [Next]_vars => TargetInv'
<1> SUFFICES ASSUME TypeOK, LockInv, LineInv, TargetInv, [Next]_vars PROVE TargetInv'
  OBVIOUS
<1> USE IpcAssumption
<1>1. /\ conn \in Conn /\ conn \in Nat
      /\ \A d \in Conn : reqs[d] \in Seq(Request) /\ reps[d] \in Seq(Reply)
      /\ DOMAIN reqs = Conn /\ DOMAIN reps = Conn /\ DOMAIN pc = Thread
      /\ Main \in Thread /\ Worker \subseteq Thread /\ Thread = Worker \cup {Main}
      /\ Main \notin Worker
  <2>1. /\ DOMAIN pc = Thread /\ Main \in Thread /\ Worker \subseteq Thread
        /\ Thread = Worker \cup {Main} /\ Main \notin Worker
    BY DEF TypeOK, Thread
  <2>2. QED
    BY <2>1, Lengths
<1>2. ASSUME NEW t \in Thread, Call(t) \/ Lock(t) PROVE TargetInv'
  <2>1. /\ UNCHANGED <<conn, reqs, reps, ends, targeted>>
        /\ pc[t] \in {"idle", "lock"} /\ \E to : pc' = [pc EXCEPT ![t] = to]
    BY <1>2 DEF Call, Lock, Goto, stream, daemon, running
  <2>2. ASSUME NotYet PROVE t = Main
    BY <1>1, <2>1, <2>2 DEF TargetInv
  <2>3. QED
    BY <1>1, <2>1, <2>2 DEF TargetInv, NotYet
<1>3. ASSUME NEW t \in Thread, InCall(t) PROVE TargetInv'
  BY <1>3, TargetCall
<1>4. ASSUME NEW w \in Worker, Exit(w) PROVE TargetInv'
  <2>1. /\ UNCHANGED <<conn, reqs, reps, ends, targeted>> /\ pc[w] = "idle"
    BY <1>4 DEF Exit, stream, daemon, running
  <2>2. QED
    BY <2>1 DEF TargetInv, NotYet
<1>5. CASE Ping
  <2>1. /\ UNCHANGED <<conn, pc, reps, ends, targeted>>
        /\ \/ reqs' = reqs
           \/ reqs' = [reqs EXCEPT ![conn] = Append(@, Line("PING", NoProxy))]
    BY <1>5 DEF Ping, WritePing, daemon, running
  <2>2. Line("PING", NoProxy) \in Request /\ Line("PING", NoProxy).cmd = "PING"
    BY DEF Line, Request, Url
  <2>3. ASSUME reqs' = [reqs EXCEPT ![conn] = Append(@, Line("PING", NoProxy))]
        PROVE  Cmds(reqs'[conn]) = Cmds(reqs[conn]) \cup {"PING"}
    <3>1. reqs'[conn] = Append(reqs[conn], Line("PING", NoProxy))
      BY <1>1, <2>3
    <3>2. QED
      BY <1>1, <2>2, <3>1, CmdsOf
  <2>4. /\ Cmds(reqs'[conn]) \subseteq Cmds(reqs[conn]) \cup {"PING"}
        /\ Cmds(reps'[conn]) \subseteq Cmds(reps[conn]) \cup {"PING"}
    BY <2>1, <2>3
  <2>5. NotYet' => NotYet
    BY <2>1 DEF NotYet
  <2>6. QED
    BY <2>1, <2>4, <2>5, QuietStep
<1>6. CASE Pong
  <2>1. /\ UNCHANGED <<conn, pc, reqs, ends, targeted>>
        /\ \/ reps' = reps
           \/ reps[conn] # <<>> /\ TakeReply
    BY <1>6 DEF Pong, daemon, running
  <2>2. ASSUME reps[conn] # <<>>, TakeReply
        PROVE  Cmds(reps'[conn]) \subseteq Cmds(reps[conn])
    <3>1. reps'[conn] = Tail(reps[conn])
      BY <1>1, <2>2 DEF TakeReply
    <3>2. QED
      BY <1>1, <2>2, <3>1, CmdsOf
  <2>3. /\ Cmds(reqs'[conn]) \subseteq Cmds(reqs[conn]) \cup {"PING"}
        /\ Cmds(reps'[conn]) \subseteq Cmds(reps[conn]) \cup {"PING"}
    BY <2>1, <2>2
  <2>4. NotYet' => NotYet
    BY <2>1 DEF NotYet
  <2>5. QED
    BY <2>1, <2>3, <2>4, QuietStep
<1>7. CASE DaemonEnds
  BY <1>7, Lengths DEF DaemonEnds, TargetInv, NotYet
<1>8. ASSUME NEW c \in Conn, Serve(c) PROVE TargetInv'
  BY <1>8, TargetServed
<1>9. ASSUME NEW c \in Conn, Drop(c) PROVE TargetInv'
  <2>1. UNCHANGED <<conn, pc, ends, targeted>>
    BY <1>9 DEF Drop, client, running
  <2>2. /\ reqs'[conn] = reqs[conn] \/ reqs'[conn] = <<>>
        /\ reps'[conn] = reps[conn] \/ reps'[conn] = <<>>
    BY <1>1, <1>9 DEF Drop, Forget
  <2>3. QED
    BY <2>1, <2>2, CmdsEmpty, QuietStep DEF NotYet
<1>10. CASE \/ Destroy \/ DaemonStarts \/ UNCHANGED vars
            \/ \E p \in Proxy : OtherAcquires(p) \/ OtherReleases(p)
  <2>1. UNCHANGED <<conn, pc, reqs, reps, ends, targeted>>
    BY <1>10 DEF Destroy, DaemonStarts, OtherAcquires, OtherReleases, vars, client, stream,
                 daemon, running
  <2>2. QED
    BY <2>1 DEF TargetInv, NotYet
<1>11. QED
  BY <1>2, <1>3, <1>4, <1>5, <1>6, <1>7, <1>8, <1>9, <1>10 DEF Next

\* set_target and the order of the lines: however many reads time out and
\* whatever the keepalive thread reads, no thread asks for a proxy before the
\* daemon has carried out the TARGET, unless a daemon has ended.
THEOREM TargetComesFirst == Safety => []TargetFirst
<1>1. Init => TargetInv
  BY InitTarget
<1>2. TypeOK /\ LockInv /\ LineInv /\ TargetInv /\ [Next]_vars => TargetInv'
  BY StepTarget
<1>3. TypeOK /\ LineInv /\ TargetInv => TargetFirst
  BY DEF TypeOK, LineInv, TargetInv, NotYet, TargetFirst
<1>4. QED
  BY <1>1, <1>2, <1>3, IpcInvariant, PTL DEF Safety

----------------------------------------------------------------------------
(* Bags of a set. *)

LEMMA PlusNothing == ASSUME NEW B, IsABag(B) PROVE B (+) SetToBag({}) = B
<1>1. DOMAIN (B (+) SetToBag({})) = DOMAIN B
  BY DEF (+), SetToBag, IsABag
<1>2. \A e \in DOMAIN B : (B (+) SetToBag({}))[e] = B[e]
  BY DEF (+), SetToBag, IsABag
<1>3. QED
  BY <1>1, <1>2 DEF (+), IsABag

LEMMA PlusOne ==
    ASSUME NEW S, NEW x, x \notin S
    PROVE  SetToBag(S) (+) SetToBag({x}) = SetToBag(S \cup {x})
<1>1. DOMAIN (SetToBag(S) (+) SetToBag({x})) = S \cup {x}
  BY DEF (+), SetToBag
<1>2. \A e \in S \cup {x} : (SetToBag(S) (+) SetToBag({x}))[e] = 1
  BY DEF (+), SetToBag
<1>3. QED
  BY <1>1, <1>2 DEF (+), SetToBag

LEMMA MinusOne ==
    ASSUME NEW S, NEW x, x \in S
    PROVE  SetToBag(S) (-) SetToBag({x}) = SetToBag(S \ {x})
<1>1. DOMAIN (SetToBag(S) (-) SetToBag({x})) = S \ {x}
  BY DEF (-), SetToBag
<1>2. \A e \in S \ {x} : (SetToBag(S) (-) SetToBag({x}))[e] = 1
  BY DEF (-), SetToBag
<1>3. QED
  BY <1>1, <1>2 DEF (-), SetToBag

----------------------------------------------------------------------------
(* One request and its reply. *)

\* Between calls nothing is on the way, and the daemon's leases of the
\* connection are the ones in held_.
Quiet == reqs[conn] = <<>> /\ reps[conn] = <<>> /\ leased[conn] = held

\* What the reader of r will make of held_.
After(q, r) ==
    IF q.cmd = "RELEASE" THEN held (-) SetToBag({q.url})
    ELSE IF q.cmd = "ACQUIRE" /\ r.url # NoProxy THEN held (+) SetToBag({r.url})
    ELSE held

Answers(q, r) ==
    /\ r.cmd = q.cmd \/ (q.cmd = "TARGET" /\ r.cmd = "FEW")
    /\ r.url \in Proxy \cup {NoProxy}
    /\ leased[conn] = After(q, r)

\* A request is on the way, or the reply to it.
Exchange(q) ==
    \/ reqs[conn] = <<q>> /\ reps[conn] = <<>> /\ leased[conn] = held
    \/ reqs[conn] = <<>> /\ \E r \in Reply : reps[conn] = <<r>> /\ Answers(q, r)

\* While no read has timed out, on a connection whose daemon runs.
InTouch == late = 0 /\ Alive /\ open # {}

ExchangeInv ==
    /\ \A c \in Conn : c > conn => leased[c] = EmptyBag
    /\ InTouch =>
           /\ owner = NoThread => Quiet
           /\ keepalive = "read" => Exchange(Line("PING", NoProxy))
           /\ \A t \in Thread :
                  /\ pc[t] = "read" => Exchange(Command(t))
                  /\ pc[t] = "hello" => Exchange(Hello)
                  /\ pc[t] \in {"send", "join", "reconnect"} => Quiet

\* Nobody writes or reads, and no lease of this connection changes.
LEMMA NothingHappens ==
    ASSUME ExchangeInv, UNCHANGED <<conn, owner, using, held, keepalive>>,
           \A c \in Conn : c > conn => leased'[c] = leased[c],
           \A t \in Thread : pc'[t] \in {"read", "hello", "send", "join", "reconnect"} =>
                                pc'[t] = pc[t],
           InTouch' => /\ InTouch /\ reqs'[conn] = reqs[conn] /\ reps'[conn] = reps[conn]
                       /\ leased'[conn] = leased[conn]
    PROVE  ExchangeInv'
<1>1. \A t \in Thread : Command(t)' = Command(t)
  BY DEF Command, Acquiring
<1>2. ASSUME InTouch'
      PROVE  /\ InTouch /\ (Quiet => Quiet')
             /\ \A q : Exchange(q) => Exchange(q)'
  BY <1>2 DEF Quiet, Exchange, Answers, After
<1>3. ASSUME InTouch', NEW t \in Thread
      PROVE  /\ pc'[t] = "read" => Exchange(Command(t))'
             /\ pc'[t] = "hello" => Exchange(Hello)'
             /\ pc'[t] \in {"send", "join", "reconnect"} => Quiet'
  <2>1. CASE pc'[t] = "read"
    <3>1. Exchange(Command(t))
      BY <1>2, <1>3, <2>1 DEF ExchangeInv
    <3>2. Exchange(Command(t))'
      BY <1>1, <1>3, <3>1 DEF Exchange, Answers, After
    <3>3. QED
      BY <2>1, <3>2
  <2>2. CASE pc'[t] = "hello"
    <3>1. Exchange(Hello)
      BY <1>2, <1>3, <2>2 DEF ExchangeInv
    <3>2. Exchange(Hello)'
      BY <1>3, <3>1 DEF Exchange, Answers, After, Hello, Line
    <3>3. QED
      BY <2>2, <3>2
  <2>3. CASE pc'[t] \in {"send", "join", "reconnect"}
    BY <1>2, <1>3, <2>3 DEF ExchangeInv
  <2>4. QED
    BY <2>1, <2>2, <2>3
<1>4. ASSUME InTouch', keepalive = "read" PROVE Exchange(Line("PING", NoProxy))'
  <2>1. Exchange(Line("PING", NoProxy))
    BY <1>2, <1>4 DEF ExchangeInv
  <2>2. QED
    BY <1>4, <2>1 DEF Exchange, Answers, After, Line
<1>5. QED
  BY <1>2, <1>3, <1>4 DEF ExchangeInv

LEMMA InitExchange == Init => ExchangeInv
  BY IpcAssumption DEF Init, ExchangeInv, Quiet, Thread, Conn

\* The daemon answers the request, if it reads one.
LEMMA Answered ==
    ASSUME TypeOK, LockInv, LineInv, ExchangeInv, NEW c \in Conn, Serve(c)
    PROVE  ExchangeInv'
<1>0. /\ UNCHANGED <<conn, open, owner, pc, using, held, keepalive, late, ended>>
      /\ reqs[c] # <<>>
  BY DEF Serve, client, daemon, running
<1>1. c <= conn
  BY <1>0 DEF LineInv, TypeOK, Conn
<1>2. /\ DOMAIN reqs = Conn /\ DOMAIN reps = Conn /\ DOMAIN leased = Conn /\ conn \in Conn
      /\ \A d \in Conn : d \in Nat
  BY DEF TypeOK, Conn
<1>3. \A d \in Conn : d # c => leased'[d] = leased[d] /\ reqs'[d] = reqs[d] /\ reps'[d] = reps[d]
  BY <1>2 DEF Serve, Answer, Taken, daemon
<1>4. CASE c # conn
  BY <1>0, <1>1, <1>2, <1>3, <1>4, NothingHappens DEF InTouch, Alive
<1>5. CASE c = conn
  <2>1. \A d \in Conn : d > conn => leased'[d] = leased[d]
    BY <1>2, <1>3, <1>5
  <2>2. InTouch' = InTouch /\ (InTouch => open = {conn})
    BY <1>0 DEF InTouch, Alive, LineInv
  <2>3. ASSUME InTouch PROVE ~Quiet /\ owner # NoThread
    BY <1>0, <1>5, <2>3 DEF Quiet, ExchangeInv
  <2>4. ASSUME InTouch, NEW q \in Request, Exchange(q) PROVE Exchange(q)'
    <3>1. reqs[conn] = <<q>> /\ leased[conn] = held /\ reps[conn] = <<>>
      BY <1>0, <1>5, <2>4 DEF Exchange
    <3>2. reqs'[conn] = <<>>
      BY <1>2, <1>5, <2>2, <2>4, <3>1 DEF Serve, Taken
    <3>3. Head(reqs[c]) = q /\ c \in open
      BY <1>5, <2>2, <2>4, <3>1
    <3>4. ASSUME NEW cmd, NEW url, Answer(c, cmd, url) PROVE reps'[conn] = <<Line(cmd, url)>>
      BY <1>2, <1>5, <3>1, <3>3, <3>4 DEF Answer
    <3>5. \E r \in Reply : /\ reps'[conn] = <<r>>
                           /\ r.cmd = q.cmd \/ (q.cmd = "TARGET" /\ r.cmd = "FEW")
                           /\ r.url \in Proxy \cup {NoProxy}
                           /\ leased'[conn] = After(q, r)
      <4>1. ASSUME NEW r, r \in Reply /\ r.url \in Proxy \cup {NoProxy}, reps'[conn] = <<r>>,
                   r.cmd = q.cmd \/ (q.cmd = "TARGET" /\ r.cmd = "FEW"),
                   leased'[conn] = After(q, r)
            PROVE  \E s \in Reply : /\ reps'[conn] = <<s>>
                                    /\ s.cmd = q.cmd \/ (q.cmd = "TARGET" /\ s.cmd = "FEW")
                                    /\ s.url \in Proxy \cup {NoProxy}
                                    /\ leased'[conn] = After(q, s)
        BY <4>1
      <4>2. CASE q.cmd \in {"HELLO", "PING"}
        <5>1. reps'[conn] = <<Line(q.cmd, NoProxy)>> /\ leased' = leased
          BY <3>3, <3>4, <4>2 DEF Serve, daemon
        <5>2. QED
          BY <3>1, <4>1, <4>2, <5>1 DEF Line, Reply, Url, After
      <4>3. CASE q.cmd = "TARGET"
        <5>1. PICK result \in {"TARGET", "FEW"} :
                  reps'[conn] = <<Line(result, NoProxy)>> /\ leased' = leased
          BY <3>3, <3>4, <4>3 DEF Serve
        <5>2. QED
          BY <3>1, <4>1, <4>3, <5>1 DEF Line, Reply, Url, After
      <4>4. CASE q.cmd = "RELEASE"
        <5>1. /\ reps'[conn] = <<Line(q.cmd, NoProxy)>>
              /\ leased'[conn] = leased[conn] (-) SetToBag({q.url})
          BY <1>2, <1>5, <3>3, <3>4, <4>4 DEF Serve
        <5>2. QED
          BY <3>1, <4>1, <4>4, <5>1 DEF Line, Reply, Url, After
      <4>5. CASE q.cmd = "ACQUIRE"
        <5>1. \/ \E p \in Proxy : /\ reps'[conn] = <<Line(q.cmd, p)>>
                                  /\ leased'[conn] = leased[conn] (+) SetToBag({p})
              \/ reps'[conn] = <<Line(q.cmd, NoProxy)>> /\ leased' = leased
          <6>1. \/ \E p \in Proxy : /\ Answer(c, q.cmd, p)
                                    /\ leased' = [leased EXCEPT ![c] = @ (+) SetToBag({p})]
                \/ Answer(c, q.cmd, NoProxy) /\ leased' = leased
            BY <3>3, <4>5 DEF Serve, daemon
          <6>2. QED
            BY <1>2, <1>5, <3>4, <6>1
        <5>2. CASE reps'[conn] = <<Line(q.cmd, NoProxy)>> /\ leased' = leased
          BY <3>1, <4>1, <4>5, <5>2 DEF Line, Reply, Url, After
        <5>3. ASSUME NEW p \in Proxy, reps'[conn] = <<Line(q.cmd, p)>>,
                     leased'[conn] = leased[conn] (+) SetToBag({p})
              PROVE  \E r \in Reply : /\ reps'[conn] = <<r>>
                                      /\ r.cmd = q.cmd \/ (q.cmd = "TARGET" /\ r.cmd = "FEW")
                                      /\ r.url \in Proxy \cup {NoProxy}
                                      /\ leased'[conn] = After(q, r)
          <6>1. p # NoProxy
            BY IpcAssumption
          <6>2. QED
            BY <3>1, <4>1, <4>5, <5>3, <6>1 DEF Line, Reply, Url, After
        <5>4. QED
          BY <5>1, <5>2, <5>3
      <4>6. QED
        BY <4>2, <4>3, <4>4, <4>5 DEF Request
    <3>6. QED
      BY <1>0, <3>2, <3>5 DEF Exchange, Answers, After
  <2>5. ASSUME InTouch', NEW t \in Thread
        PROVE  /\ pc'[t] = "read" => Exchange(Command(t))'
               /\ pc'[t] = "hello" => Exchange(Hello)'
               /\ pc'[t] \notin {"send", "join", "reconnect"}
    <3>1. Command(t) \in Request /\ Hello \in Request
      BY CommandTyped DEF Hello, Line, Request, Url
    <3>2. Command(t)' = Command(t)
      BY <1>0 DEF Command, Acquiring
    <3>3. CASE pc[t] = "read"
      <4>1. Exchange(Command(t))
        BY <2>2, <2>5, <3>3 DEF ExchangeInv
      <4>2. PICK q \in Request : q = Command(t)
        BY <3>1
      <4>3. Exchange(q)'
        BY <2>2, <2>4, <2>5, <4>1, <4>2
      <4>4. Exchange(Command(t))'
        BY <3>2, <4>2, <4>3 DEF Exchange, Answers, After
      <4>5. QED
        BY <1>0, <3>3, <4>4
    <3>4. CASE pc[t] = "hello"
      <4>1. Exchange(Hello)
        BY <2>2, <2>5, <3>4 DEF ExchangeInv
      <4>2. QED
        BY <1>0, <2>2, <2>4, <2>5, <3>1, <3>4, <4>1 DEF Exchange, Answers, After
    <3>5. pc[t] \notin {"send", "join", "reconnect"}
      BY <2>2, <2>3, <2>5 DEF ExchangeInv
    <3>6. QED
      BY <1>0, <3>3, <3>4, <3>5
  <2>6. ASSUME InTouch', keepalive = "read" PROVE Exchange(Line("PING", NoProxy))'
    <3>1. Exchange(Line("PING", NoProxy))
      BY <2>2, <2>6 DEF ExchangeInv
    <3>2. Line("PING", NoProxy) \in Request
      BY DEF Line, Request, Url
    <3>3. QED
      BY <2>2, <2>4, <2>6, <3>1, <3>2
  <2>7. QED
    BY <1>0, <2>1, <2>2, <2>3, <2>5, <2>6 DEF ExchangeInv
<1>6. QED
  BY <1>4, <1>5

\* The rest of the daemon, and a thread outside its calls.
LEMMA Elsewhere ==
    ASSUME TypeOK, LockInv, LineInv, ExchangeInv,
           \/ \E c \in Conn : Drop(c)
           \/ DaemonEnds \/ DaemonStarts
           \/ \E p \in Proxy : OtherAcquires(p) \/ OtherReleases(p)
           \/ \E t \in Thread : Call(t)
           \/ \E w \in Worker : Exit(w)
           \/ Destroy
           \/ UNCHANGED vars
    PROVE  ExchangeInv'
<1>0. /\ DOMAIN leased = Conn /\ DOMAIN reqs = Conn /\ DOMAIN reps = Conn /\ DOMAIN pc = Thread
      /\ open \subseteq {conn} /\ conn \in Nat /\ Worker \subseteq Thread
  BY DEF TypeOK, LineInv, Conn, Thread
<1>1. ASSUME NEW c \in Conn, Drop(c) PROVE ExchangeInv'
  <2>1. /\ UNCHANGED <<conn, open, owner, pc, using, held, keepalive, late, ended>>
        /\ leased' = [leased EXCEPT ![c] = EmptyBag] /\ c \notin open
        /\ \A d \in Conn : d # c => reqs'[d] = reqs[d] /\ reps'[d] = reps[d]
    BY <1>0, <1>1 DEF Drop, client, running, Forget
  <2>2. \A d \in Conn : d > conn => leased'[d] = leased[d]
    BY <1>0, <2>1 DEF ExchangeInv
  <2>3. InTouch' = InTouch /\ (InTouch => conn \in Conn /\ c # conn)
    BY <1>0, <2>1 DEF InTouch, Alive, TypeOK
  <2>4. QED
    BY <1>0, <2>1, <2>2, <2>3, NothingHappens
<1>2. CASE DaemonEnds
  <2>1. UNCHANGED conn /\ ended' = conn /\ \A c \in Conn : leased'[c] = EmptyBag
    BY <1>2 DEF DaemonEnds, client
  <2>2. ~InTouch'
    BY <1>0, <2>1 DEF InTouch, Alive
  <2>3. QED
    BY <2>1, <2>2 DEF ExchangeInv
<1>3. ASSUME \/ DaemonStarts
             \/ \E p \in Proxy : OtherAcquires(p) \/ OtherReleases(p)
             \/ UNCHANGED vars
      PROVE ExchangeInv'
  <2>1. UNCHANGED <<client, stream, ended, leased>>
    BY <1>3 DEF DaemonStarts, OtherAcquires, OtherReleases, running, vars, daemon
  <2>2. QED
    BY <2>1, NothingHappens DEF client, stream, InTouch, Alive
<1>4. ASSUME NEW t \in Thread, Call(t) \/ (t \in Worker /\ Exit(t)) PROVE ExchangeInv'
  <2>1. /\ UNCHANGED <<conn, open, owner, using, held, keepalive, late, stream, daemon>>
        /\ pc' = [pc EXCEPT ![t] = "lock"] \/ pc' = [pc EXCEPT ![t] = "exited"]
    BY <1>4 DEF Call, Exit, Goto
  <2>2. QED
    BY <1>0, <2>1, NothingHappens DEF stream, daemon, running, InTouch, Alive
<1>5. CASE Destroy
  <2>1. UNCHANGED <<conn, leased>> /\ open' = {}
    BY <1>5 DEF Destroy, daemon
  <2>2. QED
    BY <2>1 DEF ExchangeInv, InTouch
<1>6. QED
  BY <1>0, <1>1, <1>2, <1>3, <1>4, <1>5

LEMMA LockExchange ==
    ASSUME TypeOK, LockInv, LineInv, ExchangeInv, NEW t \in Thread, Lock(t) PROVE ExchangeInv'
<1>1. /\ owner = NoThread /\ owner' = t /\ DOMAIN pc = Thread /\ t # NoThread
      /\ UNCHANGED <<conn, open, using, held, keepalive, late, reqs, reps, leased, ended>>
      /\ open # {} => pc' = [pc EXCEPT ![t] = "send"]
  BY IpcAssumption DEF Lock, Goto, stream, daemon, running, TypeOK, Thread
<1>2. keepalive # "read" /\ \A u \in Thread : pc[u] \notin Inside
  BY <1>1, IpcAssumption DEF LockInv, Thread
<1>3. InTouch' = InTouch /\ (InTouch => Quiet /\ Quiet' /\ pc' = [pc EXCEPT ![t] = "send"])
  BY <1>1 DEF InTouch, Alive, ExchangeInv, Quiet
<1>4. QED
  BY <1>1, <1>2, <1>3 DEF ExchangeInv, Inside

LEMMA KeepaliveExchange ==
    ASSUME TypeOK, LockInv, LineInv, ExchangeInv, Ping \/ Pong PROVE ExchangeInv'
<1>0. /\ DOMAIN reqs = Conn /\ DOMAIN reps = Conn /\ conn \in Conn /\ late \in Nat
      /\ NoThread # Keepalive /\ NoThread \notin Thread /\ Keepalive \notin Thread
  BY IpcAssumption DEF TypeOK, LineInv, Thread
<1>1. UNCHANGED <<conn, open, pc, using, held, leased, ended>>
  BY DEF Ping, Pong, daemon, running
<1>2. \A u \in Thread : pc[u] \notin Inside
  BY <1>0 DEF Ping, Pong, LockInv
<1> SUFFICES ASSUME InTouch' PROVE ExchangeInv'
  BY <1>1 DEF ExchangeInv
<1>3. CASE Ping
  <2>1. InTouch /\ UNCHANGED reps /\ owner' = Keepalive /\ owner = NoThread
    BY <1>1, <1>3 DEF Ping, InTouch, Alive
  <2>2. Quiet
    BY <2>1 DEF ExchangeInv
  <2>3. reqs'[conn] = <<Line("PING", NoProxy)>>
    BY <1>0, <1>3, <2>1, <2>2 DEF Ping, WritePing, InTouch, Quiet
  <2>4. Exchange(Line("PING", NoProxy))'
    BY <1>1, <2>1, <2>2, <2>3 DEF Exchange, Quiet, Line
  <2>5. QED
    BY <1>0, <1>1, <1>2, <2>1, <2>4 DEF ExchangeInv, Inside
<1>4. CASE Pong
  <2>1. InTouch /\ reps[conn] # <<>> /\ TakeReply
    BY <1>0, <1>1, <1>4 DEF Pong, NoLine, GiveUp, InTouch, Alive
  <2>2. Exchange(Line("PING", NoProxy)) /\ owner' = NoThread /\ keepalive' = "sleep" /\ UNCHANGED reqs
    BY <1>4, <2>1 DEF Pong, ExchangeInv
  <2>3. PICK r \in Reply : /\ reqs[conn] = <<>> /\ reps[conn] = <<r>>
                           /\ Answers(Line("PING", NoProxy), r)
    BY <2>1, <2>2 DEF Exchange
  <2>4. reps'[conn] = <<>> /\ leased[conn] = held
    BY <1>0, <2>1, <2>3 DEF TakeReply, Answers, After, Line
  <2>5. QED
    BY <1>0, <1>1, <1>2, <2>2, <2>3, <2>4 DEF ExchangeInv, Quiet, Inside
<1>5. QED
  BY <1>3, <1>4

\* With no read timed out, a call fails only when its daemon has gone.
LEMMA NoFailure ==
    ASSUME TypeOK, LineInv, NEW t \in Thread, InTouch', UNCHANGED <<conn, ended>>
    PROVE  ~OnceFails(t) /\ ~HelloFails(t)
<1>1. Alive /\ late' = 0 /\ late \in Nat
  BY DEF InTouch, Alive, LineInv
<1>2. ~NoLine
  BY <1>1 DEF NoLine, GiveUp
<1>3. QED
  BY <1>1, <1>2 DEF OnceFails, HelloFails, LineInv

\* Reading the reply.
LEMMA TakesReply ==
    ASSUME TypeOK, LineInv, TakeReply, UNCHANGED <<conn, open, late, reqs, daemon>>, InTouch',
           NEW q, Exchange(q), reps[conn] # <<>>
    PROVE  /\ InTouch
           /\ reqs'[conn] = <<>> /\ reps'[conn] = <<>> /\ leased'[conn] = leased[conn]
           /\ Head(reps[conn]) \in Reply /\ Answers(q, Head(reps[conn]))
<1>1. InTouch
  BY DEF InTouch, Alive, daemon, running
<1>2. PICK r \in Reply : reqs[conn] = <<>> /\ reps[conn] = <<r>> /\ Answers(q, r)
  BY DEF Exchange
<1>3. conn \in Conn /\ DOMAIN reps = Conn
  BY DEF TypeOK
<1>4. reps'[conn] = <<>> /\ Head(reps[conn]) = r
  BY <1>2, <1>3 DEF TakeReply
<1>5. QED
  BY <1>1, <1>2, <1>4 DEF daemon

LEMMA CallExchange ==
    ASSUME TypeOK, LockInv, LineInv, ExchangeInv, NEW t \in Thread, InCall(t)
    PROVE  ExchangeInv'
<1>0. /\ owner = t /\ pc[t] \in Inside /\ Moves(t) /\ UNCHANGED <<keepalive, daemon>>
      /\ keepalive # "read"
      /\ \A u \in Thread \ {t} : pc'[u] \notin Inside
      /\ t # NoThread /\ DOMAIN pc = Thread /\ DOMAIN reqs = Conn /\ conn \in Conn
      /\ conn \in Nat /\ \A c \in Conn : c \in Nat
  <2>1. /\ owner = t /\ pc[t] \in Inside /\ Moves(t) /\ keepalive' = keepalive
        /\ UNCHANGED daemon
    BY CallMoves, CallMakesLines
  <2>2. keepalive # "read" /\ \A u \in Thread \ {t} : pc'[u] \notin Inside
    BY OthersOut
  <2>3. /\ t # NoThread /\ DOMAIN pc = Thread /\ DOMAIN reqs = Conn /\ conn \in Conn
        /\ conn \in Nat /\ \A c \in Conn : c \in Nat
    BY IpcAssumption DEF TypeOK, Thread, Conn
  <2>4. QED
    BY <2>1, <2>2, <2>3
<1>a. UNCHANGED <<up, ended, ends, leased>>
  BY <1>0 DEF daemon, running
<1>1. ASSUME /\ conn' = conn \/ conn' = conn + 1
             /\ InTouch' =>
                    /\ owner' = NoThread \/ pc'[t] \in {"send", "join", "reconnect"} => Quiet'
                    /\ pc'[t] = "read" => Exchange(Command(t))'
                    /\ pc'[t] = "hello" => Exchange(Hello)'
      PROVE  ExchangeInv'
  <2>1. ASSUME NEW c \in Conn, c > conn' PROVE leased'[c] = EmptyBag
    <3>1. c > conn
      BY <1>0, <1>1, <2>1
    <3>2. QED
      BY <1>a, <3>1 DEF ExchangeInv
  <2>2. \A u \in Thread \ {t} : pc'[u] \notin {"read", "hello", "send", "join", "reconnect"}
    BY <1>0 DEF Inside
  <2>3. keepalive' # "read"
    BY <1>0
  <2>4. ASSUME InTouch', NEW u \in Thread
        PROVE  /\ pc'[u] = "read" => Exchange(Command(u))'
               /\ pc'[u] = "hello" => Exchange(Hello)'
               /\ pc'[u] \in {"send", "join", "reconnect"} => Quiet'
    BY <1>1, <2>2, <2>4
  <2>5. QED
    BY <1>1, <2>1, <2>3, <2>4 DEF ExchangeInv
<1>2. CASE Send(t)
  <2>1. /\ UNCHANGED <<conn, open, late, using, held, reps>> /\ InTouch' = InTouch
        /\ pc[t] = "send"
    BY <1>a, <1>2 DEF Send, InTouch, Alive
  <2>2. ASSUME InTouch' PROVE Quiet /\ reqs'[conn] = <<Command(t)>> /\ pc'[t] = "read"
    <3>1. Quiet /\ Alive
      BY <2>1, <2>2 DEF ExchangeInv, InTouch
    <3>2. QED
      BY <1>0, <1>2, <3>1 DEF Send, Goto, Quiet
  <2>3. Command(t)' = Command(t)
    BY <2>1 DEF Command, Acquiring
  <2>4. InTouch' => Exchange(Command(t))'
    BY <1>a, <2>1, <2>2, <2>3 DEF Exchange, Quiet
  <2>5. owner' = t
    BY <1>0, <1>2 DEF Send
  <2>6. QED
    BY <1>0, <1>1, <2>1, <2>2, <2>4, <2>5
<1>3. CASE ReadAcquired(t)
  <2>1. /\ UNCHANGED <<conn, open, late, reqs>> /\ TakeReply /\ reps[conn] # <<>>
        /\ pc[t] = "read" /\ pc'[t] = "idle" /\ Command(t) = Line("ACQUIRE", NoProxy)
    BY <1>0, <1>3 DEF ReadAcquired, Unlock, Goto, Command, Acquiring
  <2>2. ASSUME InTouch' PROVE Quiet'
    <3>1. InTouch
      BY <1>a, <2>1, <2>2 DEF InTouch, Alive
    <3>2. Exchange(Command(t))
      BY <2>1, <3>1 DEF ExchangeInv
    <3> DEFINE r == Head(reps[conn])
    <3>3. /\ reqs'[conn] = <<>> /\ reps'[conn] = <<>> /\ leased'[conn] = leased[conn]
          /\ Answers(Line("ACQUIRE", NoProxy), r)
      BY <1>0, <2>1, <2>2, <3>2, TakesReply
    <3> HIDE DEF r
    <3>4. r.cmd = "ACQUIRE" /\ leased[conn] = IF r.url # NoProxy THEN held (+) SetToBag({r.url}) ELSE held
      BY <3>3 DEF Answers, After, Line
    <3>5. held' = held (+) SetToBag({r.url} \ {NoProxy})
      BY <1>3, <3>4 DEF ReadAcquired, Granted, r
    <3>6. CASE r.url = NoProxy
      <4>1. {r.url} \ {NoProxy} = {} /\ IsABag(held)
        BY <3>6 DEF TypeOK
      <4>2. QED
        BY <2>1, <3>3, <3>4, <3>5, <3>6, <4>1, PlusNothing DEF Quiet
    <3>7. CASE r.url # NoProxy
      <4>1. {r.url} \ {NoProxy} = {r.url}
        BY <3>7
      <4>2. QED
        BY <2>1, <3>3, <3>4, <3>5, <3>7, <4>1 DEF Quiet
    <3>8. QED
      BY <3>6, <3>7
  <2>3. QED
    BY <1>1, <2>1, <2>2
<1>4. CASE ReadReleased(t)
  <2>1. /\ UNCHANGED <<conn, open, late, reqs>> /\ TakeReply /\ reps[conn] # <<>>
        /\ pc[t] = "read" /\ pc'[t] = "idle" /\ Command(t) = Line("RELEASE", using[t])
        /\ held' = held (-) SetToBag({using[t]})
    BY <1>0, <1>4 DEF ReadReleased, Released, Unlock, Goto, Command, Acquiring, Releasing
  <2>2. ASSUME InTouch' PROVE Quiet'
    <3>1. InTouch
      BY <1>a, <2>1, <2>2 DEF InTouch, Alive
    <3>2. Exchange(Command(t))
      BY <2>1, <3>1 DEF ExchangeInv
    <3>3. /\ reqs'[conn] = <<>> /\ reps'[conn] = <<>> /\ leased'[conn] = leased[conn]
          /\ Answers(Line("RELEASE", using[t]), Head(reps[conn]))
      BY <1>0, <2>1, <2>2, <3>2, TakesReply
    <3>4. leased[conn] = held'
      BY <2>1, <3>3 DEF Answers, After, Line
    <3>5. QED
      BY <2>1, <3>3, <3>4 DEF Quiet
  <2>3. QED
    BY <1>1, <2>1, <2>2
<1>5. CASE t = Main /\ ReadTarget
  <2>1. /\ UNCHANGED <<conn, open, late, reqs, held>> /\ TakeReply /\ reps[conn] # <<>>
        /\ pc[t] = "read" /\ pc'[t] = "exited" /\ Command(t) = Line("TARGET", NoProxy)
    BY <1>0, <1>5 DEF ReadTarget, StartWorkers, Command
  <2>2. ASSUME InTouch' PROVE Quiet'
    <3>1. InTouch
      BY <1>a, <2>1, <2>2 DEF InTouch, Alive
    <3>2. Exchange(Command(t))
      BY <2>1, <3>1 DEF ExchangeInv
    <3>3. /\ reqs'[conn] = <<>> /\ reps'[conn] = <<>> /\ leased'[conn] = leased[conn]
          /\ Answers(Line("TARGET", NoProxy), Head(reps[conn]))
      BY <1>0, <2>1, <2>2, <3>2, TakesReply
    <3>4. leased[conn] = held
      BY <3>3 DEF Answers, After, Line
    <3>5. QED
      BY <2>1, <3>3, <3>4 DEF Quiet
  <2>3. QED
    BY <1>1, <2>1, <2>2
<1>6. CASE OnceFails(t) \/ HelloFails(t)
  <2>1. UNCHANGED conn
    BY <1>6 DEF OnceFails, HelloFails
  <2>2. ~InTouch'
    BY <1>6, <1>a, <2>1, NoFailure
  <2>3. QED
    BY <1>1, <2>1, <2>2
<1>7. CASE Reconnect(t)
  <2>1. pc[t] = "reconnect" /\ conn' = conn + 1 /\ held' = EmptyBag /\ UNCHANGED reps
    BY <1>7 DEF Reconnect
  <2>2. conn + 1 \in Conn /\ conn + 1 > conn
    BY <1>0, <2>1, NextConn
  <2>3. reqs[conn + 1] = <<>> /\ reps[conn + 1] = <<>> /\ leased[conn + 1] = EmptyBag
    BY <2>2 DEF LineInv, ExchangeInv
  <2>4. reqs'[conn + 1] = <<Hello>> /\ pc'[t] = "hello" /\ owner' = t
    BY <1>0, <1>7, <2>2, <2>3 DEF Reconnect, Goto, Hello
  <2>5. Exchange(Hello)'
    BY <1>a, <2>1, <2>3, <2>4 DEF Exchange, Hello, Line
  <2>6. QED
    BY <1>0, <1>1, <2>1, <2>4, <2>5
<1>8. CASE Refused(t)
  BY <1>1, <1>8 DEF Refused, InTouch
<1>9. CASE HelloAnswered(t)
  <2>1. /\ UNCHANGED <<conn, open, late, reqs>> /\ TakeReply /\ reps[conn] # <<>>
        /\ pc[t] = "hello"
    BY <1>9 DEF HelloAnswered
  <2>2. ASSUME InTouch' PROVE Quiet' /\ pc'[t] = "join"
    <3>1. InTouch
      BY <1>a, <2>1, <2>2 DEF InTouch, Alive
    <3>2. Exchange(Hello)
      BY <2>1, <3>1 DEF ExchangeInv
    <3>3. /\ reqs'[conn] = <<>> /\ reps'[conn] = <<>> /\ leased'[conn] = leased[conn]
          /\ Answers(Hello, Head(reps[conn]))
      BY <1>0, <2>1, <2>2, <3>2, TakesReply
    <3>4. leased[conn] = held /\ Head(reps[conn]).cmd = "HELLO"
      BY <3>3 DEF Answers, After, Hello, Line
    <3>5. held' = held /\ pc'[t] = "join"
      BY <1>0, <1>9, <3>4 DEF HelloAnswered, Goto
    <3>6. QED
      BY <2>1, <3>3, <3>4, <3>5 DEF Quiet
  <2>3. QED
    BY <1>1, <2>1, <2>2
<1>10. CASE RestartKeepalive(t)
  <2>1. /\ UNCHANGED <<conn, open, late, reqs, reps, held>> /\ InTouch' = InTouch
        /\ pc[t] = "join" /\ pc'[t] \in {"idle", "send"}
    BY <1>0, <1>a, <1>10 DEF RestartKeepalive, Unlock, Goto, stream, InTouch, Alive
  <2>2. InTouch' => Quiet'
    BY <1>a, <2>1 DEF ExchangeInv, Quiet
  <2>3. QED
    BY <1>1, <2>1, <2>2
<1>11. QED
  BY <1>2, <1>3, <1>4, <1>5, <1>6, <1>7, <1>8, <1>9, <1>10 DEF InCall

LEMMA StepExchange ==
    TypeOK /\ LockInv /\ LineInv /\ ExchangeInv /\ [Next]_vars => ExchangeInv'
<1> SUFFICES ASSUME TypeOK, LockInv, LineInv, ExchangeInv, [Next]_vars PROVE ExchangeInv'
  OBVIOUS
<1>1. ASSUME NEW t \in Thread, Lock(t) \/ InCall(t) PROVE ExchangeInv'
  BY <1>1, LockExchange, CallExchange
<1>2. CASE Ping \/ Pong
  BY <1>2, KeepaliveExchange
<1>3. ASSUME NEW c \in Conn, Serve(c) PROVE ExchangeInv'
  BY <1>3, Answered
<1>4. QED
  BY <1>1, <1>2, <1>3, Elsewhere DEF Next

----------------------------------------------------------------------------
(* The workers of the first connection. *)

Used == {using[w] : w \in Worker} \ {NoProxy}

Undisturbed == InTouch /\ ends = 0

WorkersInv == Undisturbed =>
    /\ \A w \in Worker : using[w] \in Proxy \cup {NoProxy}
    /\ \A v, w \in Worker : using[v] = using[w] /\ using[w] # NoProxy => v = w
    /\ held = SetToBag(Used)
    /\ BagToSet(leased[conn]) \subseteq busy \ others
    /\ others \subseteq busy
    /\ \A w \in Worker :
           pc[w] = "read" /\ reps[conn] # <<>> => Head(reps[conn]).url \notin Used

LEMMA InitWorkers == Init => WorkersInv
<1> SUFFICES ASSUME Init PROVE WorkersInv
  OBVIOUS
<1>1. Used = {} /\ \A w \in Worker : using[w] = NoProxy
  BY DEF Init, Used
<1>2. held = SetToBag({}) /\ BagToSet(leased[conn]) = {}
  BY IpcAssumption, BagOfSet DEF Init, EmptyBag, Conn
<1>3. reps[conn] = <<>> /\ others = {}
  BY IpcAssumption DEF Init, Conn
<1>4. QED
  BY <1>1, <1>2, <1>3 DEF WorkersInv

LEMMA FirstConn ==
    ASSUME TypeOK, LineInv, late = 0, ends = 0
    PROVE  conn = 1 /\ ended = 0 /\ \A t \in Thread : pc[t] # "reconnect"
<1>1. conn + Owed <= 1 /\ conn \in Nat /\ conn >= 1
  BY DEF LineInv, TypeOK, Conn
<1>2. Owed = 0
  <2>1. Owed \in {0, 1}
    BY DEF Owed
  <2>2. QED
    BY <1>1, <2>1
<1>3. QED
  BY <1>1, <1>2 DEF Owed, LineInv

\* Steps that change no lease and no reply.
LEMMA NoLeaseChanges ==
    ASSUME WorkersInv, UNCHANGED <<conn, using, held, busy, others, leased>>,
           Undisturbed' => /\ Undisturbed
                           /\ \A w \in Worker : pc'[w] = "read" /\ reps'[conn] # <<>> =>
                                  pc[w] = "read" /\ reps'[conn] = reps[conn]
    PROVE  WorkersInv'
  BY DEF WorkersInv, Used

LEMMA CallWorkers ==
    ASSUME TypeOK, LockInv, LineInv, ExchangeInv, WorkersInv, NEW t \in Thread, InCall(t)
    PROVE  WorkersInv'
<1> SUFFICES ASSUME Undisturbed' PROVE WorkersInv'
  BY DEF WorkersInv
<1>0. /\ UNCHANGED <<up, ended, ends, targeted, busy, leased, others>>
      /\ pc[t] \in Inside /\ InTouch' /\ ends = 0
      /\ \A u \in Thread \ {t} : pc[u] \notin Inside /\ pc'[u] \notin Inside
      /\ Worker \subseteq Thread /\ DOMAIN pc = Thread /\ DOMAIN using = Worker
  <2>1. UNCHANGED daemon
    BY CallMakesLines
  <2>2. pc[t] \in Inside /\ \A u \in Thread \ {t} : pc[u] \notin Inside /\ pc'[u] \notin Inside
    BY OthersOut
  <2>3. Worker \subseteq Thread /\ DOMAIN pc = Thread /\ DOMAIN using = Worker
    BY DEF TypeOK, Thread
  <2>4. QED
    BY <2>1, <2>2, <2>3 DEF daemon, running, Undisturbed
<1>1. CASE Send(t)
  <2>1. /\ UNCHANGED <<conn, open, late, using, held, reps>> /\ InTouch /\ pc[t] = "send"
    BY <1>0, <1>1 DEF Send, InTouch, Alive
  <2>2. reps[conn] = <<>>
    BY <2>1 DEF ExchangeInv, Quiet
  <2>3. QED
    BY <1>0, <2>1, <2>2, NoLeaseChanges DEF Undisturbed
<1>2. CASE ReadAcquired(t)
  <2>1. /\ UNCHANGED <<conn, open, late, reqs>> /\ TakeReply /\ reps[conn] # <<>>
        /\ pc[t] = "read" /\ pc'[t] = "idle" /\ Command(t) = Line("ACQUIRE", NoProxy)
        /\ t \in Worker /\ using[t] = NoProxy
    BY <1>0, <1>2 DEF ReadAcquired, Unlock, Goto, Command, Acquiring, Thread
  <2>2. InTouch /\ Undisturbed
    BY <1>0, <2>1 DEF InTouch, Alive, Undisturbed
  <2>3. Exchange(Command(t))
    BY <2>1, <2>2 DEF ExchangeInv
  <2> DEFINE r == Head(reps[conn])
  <2>4. Answers(Line("ACQUIRE", NoProxy), r) /\ reps'[conn] = <<>>
    BY <1>0, <2>1, <2>3, CallMakesLines, TakesReply
  <2>5. r.url \notin Used
    BY <2>1, <2>2 DEF WorkersInv
  <2> HIDE DEF r
  <2>6. r.cmd = "ACQUIRE" /\ r.url \in Proxy \cup {NoProxy}
    BY <2>4 DEF Answers, Line
  <2>7. /\ held' = held (+) SetToBag({r.url} \ {NoProxy})
        /\ using' = [using EXCEPT ![t] = r.url]
    <3>1. Granted(r) = {r.url} \ {NoProxy}
      BY <2>6 DEF Granted
    <3>2. /\ held' = held (+) SetToBag(Granted(r))
          /\ using' = [using EXCEPT ![t] = IF Granted(r) = {} THEN NoProxy
                                           ELSE CHOOSE u \in Granted(r) : TRUE]
      BY <1>2 DEF ReadAcquired, r
    <3>3. (IF Granted(r) = {} THEN NoProxy ELSE CHOOSE u \in Granted(r) : TRUE) = r.url
      <4>1. CASE r.url = NoProxy
        BY <3>1, <4>1
      <4>2. CASE r.url # NoProxy
        <5>1. Granted(r) = {r.url}
          BY <3>1, <4>2
        <5>2. QED
          BY <5>1
      <4>3. QED
        BY <4>1, <4>2
    <3>4. QED
      BY <3>1, <3>2, <3>3
  <2>8. Used' = Used \cup ({r.url} \ {NoProxy})
    BY <1>0, <2>1, <2>7 DEF Used
  <2>9. held' = SetToBag(Used')
    <3>1. CASE r.url = NoProxy
      <4>1. {r.url} \ {NoProxy} = {} /\ IsABag(held)
        BY <3>1 DEF TypeOK
      <4>2. QED
        BY <2>2, <2>7, <2>8, <4>1, PlusNothing DEF WorkersInv
    <3>2. CASE r.url # NoProxy
      <4>1. {r.url} \ {NoProxy} = {r.url}
        BY <3>2
      <4>2. QED
        BY <2>2, <2>5, <2>7, <2>8, <4>1, PlusOne DEF WorkersInv
    <3>3. QED
      BY <3>1, <3>2
  <2>10. \A w \in Worker : using'[w] \in Proxy \cup {NoProxy}
    BY <1>0, <2>2, <2>6, <2>7 DEF WorkersInv
  <2>11. \A v, w \in Worker : using'[v] = using'[w] /\ using'[w] # NoProxy => v = w
    BY <1>0, <2>2, <2>5, <2>7 DEF WorkersInv, Used
  <2>12. BagToSet(leased'[conn']) \subseteq busy' \ others' /\ others' \subseteq busy'
    BY <1>0, <2>1, <2>2 DEF WorkersInv
  <2>13. QED
    BY <2>1, <2>4, <2>9, <2>10, <2>11, <2>12 DEF WorkersInv
<1>3. CASE ReadReleased(t)
  <2>1. /\ UNCHANGED <<conn, open, late, reqs>> /\ TakeReply /\ reps[conn] # <<>>
        /\ pc[t] = "read" /\ pc'[t] = "idle" /\ Command(t) = Line("RELEASE", using[t])
        /\ t \in Worker /\ using[t] # NoProxy
        /\ held' = held (-) SetToBag({using[t]})
        /\ using' = [using EXCEPT ![t] = NoProxy]
    BY <1>0, <1>3 DEF ReadReleased, Released, Unlock, Goto, Command, Acquiring, Releasing, Thread
  <2>2. InTouch /\ Undisturbed
    BY <1>0, <2>1 DEF InTouch, Alive, Undisturbed
  <2>3. Exchange(Command(t))
    BY <2>1, <2>2 DEF ExchangeInv
  <2>4. reps'[conn] = <<>>
    BY <1>0, <2>1, <2>3, CallMakesLines, TakesReply
  <2>5. using[t] \in Used /\ Used' = Used \ {using[t]}
    BY <1>0, <2>1, <2>2 DEF Used, WorkersInv
  <2>6. held' = SetToBag(Used')
    BY <2>1, <2>2, <2>5, MinusOne DEF WorkersInv
  <2>7. \A w \in Worker : using'[w] \in Proxy \cup {NoProxy}
    BY <1>0, <2>1, <2>2 DEF WorkersInv
  <2>8. \A v, w \in Worker : using'[v] = using'[w] /\ using'[w] # NoProxy => v = w
    BY <1>0, <2>1, <2>2 DEF WorkersInv
  <2>9. BagToSet(leased'[conn']) \subseteq busy' \ others' /\ others' \subseteq busy'
    BY <1>0, <2>1, <2>2 DEF WorkersInv
  <2>10. QED
    BY <2>1, <2>4, <2>6, <2>7, <2>8, <2>9 DEF WorkersInv
<1>4. CASE t = Main /\ ReadTarget
  <2>1. /\ UNCHANGED <<conn, open, late, using, held>>
        /\ \A u \in Thread : pc'[u] \in {"idle", "exited"}
    BY <1>4 DEF ReadTarget, StartWorkers
  <2>2. QED
    BY <1>0, <2>1, NoLeaseChanges DEF InTouch, Alive, Undisturbed
<1>5. CASE OnceFails(t) \/ HelloFails(t)
  BY <1>0, <1>5, NoFailure DEF OnceFails, HelloFails
<1>6. CASE Reconnect(t)
  <2>1. pc[t] = "reconnect" /\ late = 0
    BY <1>0, <1>6 DEF Reconnect, InTouch
  <2>2. QED
    BY <1>0, <2>1, FirstConn
<1>7. CASE Refused(t)
  BY <1>0, <1>7 DEF Refused, InTouch
<1>8. CASE HelloAnswered(t)
  <2>1. /\ UNCHANGED <<conn, open, late, reqs>> /\ TakeReply /\ reps[conn] # <<>>
        /\ pc[t] = "hello" /\ pc'[t] # "read"
    BY <1>0, <1>8, CallMakesLines DEF HelloAnswered, CallLines
  <2>2. InTouch
    BY <1>0, <2>1 DEF InTouch, Alive
  <2>3. Exchange(Hello)
    BY <2>1, <2>2 DEF ExchangeInv
  <2>4. Head(reps[conn]).cmd = "HELLO"
    BY <1>0, <2>1, <2>3, CallMakesLines, TakesReply DEF Answers, Hello, Line
  <2>5. UNCHANGED <<using, held>>
    BY <1>8, <2>4 DEF HelloAnswered
  <2>6. QED
    BY <1>0, <2>1, <2>2, <2>5, NoLeaseChanges DEF Undisturbed, Inside
<1>9. CASE RestartKeepalive(t)
  <2>1. UNCHANGED <<conn, open, late, using, held, reps>> /\ pc'[t] \in {"idle", "send"}
    BY <1>0, <1>9 DEF RestartKeepalive, Unlock, Goto, stream
  <2>2. QED
    BY <1>0, <2>1, NoLeaseChanges DEF InTouch, Alive, Undisturbed, Inside
<1>10. QED
  BY <1>1, <1>2, <1>3, <1>4, <1>5, <1>6, <1>7, <1>8, <1>9 DEF InCall

\* A RELEASE that comes in is for a proxy that a worker uses.
LEMMA OwnRelease ==
    ASSUME TypeOK, LockInv, LineInv, ExchangeInv, InTouch, reqs[conn] # <<>>
    PROVE  /\ leased[conn] = held
           /\ Head(reqs[conn]).cmd = "RELEASE" => Head(reqs[conn]).url \in Used
<1>1. ~Quiet /\ owner \in Thread \cup {Keepalive}
  BY DEF ExchangeInv, Quiet, TypeOK
<1>2. CASE owner = Keepalive
  <2>1. Exchange(Line("PING", NoProxy))
    BY <1>2 DEF LockInv, ExchangeInv
  <2>2. QED
    BY <2>1 DEF Exchange, Line
<1>3. CASE owner \in Thread
  <2> DEFINE t == owner
  <2>1. pc[t] \in {"read", "hello"}
    BY <1>1, <1>3 DEF LockInv, LineInv, ExchangeInv, InTouch, Inside
  <2>2. CASE pc[t] = "hello"
    <3>1. Exchange(Hello)
      BY <1>3, <2>2 DEF ExchangeInv
    <3>2. QED
      BY <3>1 DEF Exchange, Hello, Line
  <2>3. CASE pc[t] = "read"
    <3>1. Exchange(Command(t))
      BY <1>3, <2>3 DEF ExchangeInv
    <3>2. leased[conn] = held /\ Head(reqs[conn]) = Command(t)
      BY <3>1 DEF Exchange
    <3>3. Command(t).cmd = "RELEASE" => Command(t).url \in Used
      BY <1>3 DEF Command, Line, Acquiring, Used, Thread
    <3>4. QED
      BY <3>2, <3>3
  <2>4. QED
    BY <2>1, <2>2, <2>3
<1>4. QED
  BY <1>1, <1>2, <1>3

LEMMA ServeWorkers ==
    ASSUME TypeOK, LockInv, LineInv, ExchangeInv, WorkersInv, NEW c \in Conn, Serve(c)
    PROVE  WorkersInv'
<1> SUFFICES ASSUME Undisturbed' PROVE WorkersInv'
  BY DEF WorkersInv
<1>0. /\ UNCHANGED <<conn, open, owner, pc, using, held, keepalive, late, ended, ends>>
      /\ Undisturbed /\ InTouch /\ late = 0 /\ ends = 0 /\ reqs[c] # <<>>
  BY DEF Serve, client, daemon, running, Undisturbed, InTouch, Alive
<1>1. c = conn /\ open = {conn} /\ conn \in Conn /\ DOMAIN leased = Conn /\ DOMAIN reps = Conn
  <2>1. conn = 1
    BY <1>0, FirstConn
  <2>2. c \in 1 .. MaxFaults + 1 /\ conn \in 1 .. MaxFaults + 1 /\ MaxFaults \in Nat
    BY IpcAssumption DEF TypeOK, Conn
  <2>3. ~(c > conn)
    BY <1>0 DEF LineInv
  <2>4. c = conn
    BY <2>1, <2>2, <2>3
  <2>5. open = {conn}
    BY <1>0 DEF LineInv, InTouch
  <2>6. QED
    BY <2>4, <2>5 DEF TypeOK
<1> DEFINE q == Head(reqs[conn])
<1>2. /\ leased[conn] = held /\ (q.cmd = "RELEASE" => q.url \in Used)
  BY <1>0, <1>1, OwnRelease
<1>3. reps[conn] = <<>>
  <2>1. owner # NoThread
    BY <1>0, <1>1 DEF ExchangeInv, Quiet
  <2>2. CASE owner = Keepalive
    BY <1>0, <1>1, <2>2 DEF LockInv, ExchangeInv, Exchange
  <2>3. CASE owner \in Thread
    BY <1>0, <1>1, <2>3 DEF LockInv, LineInv, InTouch, Inside, ExchangeInv, Quiet, Exchange
  <2>4. QED
    BY <2>1, <2>2, <2>3 DEF TypeOK
<1>4. /\ leased[conn] = SetToBag(Used) /\ BagToSet(leased[conn]) = Used
      /\ Used \subseteq busy \ others /\ others \subseteq busy /\ NoProxy \notin Used
  <2>1. /\ held = SetToBag(Used)
        /\ BagToSet(leased[conn]) \subseteq busy \ others /\ others \subseteq busy
    BY <1>0 DEF WorkersInv
  <2>2. leased[conn] = SetToBag(Used)
    BY <1>2, <2>1
  <2>3. NoProxy \notin Used
    BY DEF Used
  <2>4. QED
    BY <2>1, <2>2, <2>3, BagOfSet
<1>5. Used' = Used
  BY <1>0 DEF Used
<1>6. ASSUME /\ BagToSet(leased'[conn]) \subseteq busy' \ others /\ others \subseteq busy'
             /\ others' = others
             /\ \E cmd : \E url : url \notin Used /\ Answer(c, cmd, url)
      PROVE  WorkersInv'
  <2>1. PICK cmd, url : url \notin Used /\ Answer(c, cmd, url)
    BY <1>6
  <2>2. reps'[conn] = <<Line(cmd, url)>>
    BY <1>1, <1>3, <2>1 DEF Answer
  <2>3. Head(reps'[conn]).url \notin Used
    BY <2>1, <2>2 DEF Line
  <2>4. QED
    BY <1>0, <1>5, <1>6, <2>3 DEF WorkersInv
<1> HIDE DEF q
<1>7. CASE /\ UNCHANGED <<busy, leased, others>>
           /\ \E cmd : Answer(c, cmd, NoProxy)
  BY <1>4, <1>6, <1>7
<1>8. CASE /\ q.cmd = "RELEASE" /\ Answer(c, q.cmd, NoProxy)
           /\ busy' = busy \ {q.url}
           /\ leased' = [leased EXCEPT ![c] = @ (-) SetToBag({q.url})]
           /\ others' = others
  <2>1. leased'[conn] = SetToBag(Used \ {q.url})
    BY <1>1, <1>2, <1>4, <1>8, MinusOne
  <2>2. BagToSet(leased'[conn]) = Used \ {q.url}
    BY <2>1, BagOfSet
  <2>3. QED
    BY <1>2, <1>4, <1>6, <1>8, <2>2
<1>9. ASSUME NEW p \in Proxy \ busy, Answer(c, q.cmd, p), busy' = busy \cup {p},
             leased' = [leased EXCEPT ![c] = @ (+) SetToBag({p})],
             others' = others
      PROVE  WorkersInv'
  <2>1. p \notin Used /\ p \notin others
    BY <1>4
  <2>2. leased'[conn] = SetToBag(Used \cup {p})
    BY <1>1, <1>4, <1>9, <2>1, PlusOne
  <2>3. BagToSet(leased'[conn]) = Used \cup {p}
    BY <2>2, BagOfSet
  <2>4. QED
    BY <1>4, <1>6, <1>9, <2>1, <2>3
<1>10. QED
  <2>1. \/ Answer(c, q.cmd, NoProxy) /\ UNCHANGED daemon
        \/ \E result \in {"TARGET", "FEW"} :
               Answer(c, result, NoProxy) /\ UNCHANGED <<busy, leased, others>>
        \/ /\ q.cmd = "RELEASE" /\ Answer(c, q.cmd, NoProxy)
           /\ busy' = busy \ {q.url}
           /\ leased' = [leased EXCEPT ![c] = @ (-) SetToBag({q.url})]
           /\ others' = others
        \/ \E p \in Proxy \ busy :
               /\ Answer(c, q.cmd, p) /\ busy' = busy \cup {p}
               /\ leased' = [leased EXCEPT ![c] = @ (+) SetToBag({p})]
               /\ others' = others
    BY <1>1 DEF Serve, q
  <2>2. QED
    BY <1>7, <1>8, <1>9, <2>1 DEF daemon

LEMMA OtherWorkers ==
    ASSUME TypeOK, LockInv, LineInv, ExchangeInv, WorkersInv,
           \/ \E c \in Conn : Drop(c)
           \/ DaemonEnds \/ DaemonStarts \/ Ping \/ Pong \/ Destroy
           \/ \E p \in Proxy : OtherAcquires(p) \/ OtherReleases(p)
           \/ \E t \in Thread : Call(t) \/ Lock(t)
           \/ \E w \in Worker : Exit(w)
           \/ UNCHANGED vars
    PROVE  WorkersInv'
<1> SUFFICES ASSUME Undisturbed' PROVE WorkersInv'
  BY DEF WorkersInv
<1>0. /\ DOMAIN pc = Thread /\ Worker \subseteq Thread /\ late \in Nat
      /\ NoThread # Keepalive /\ NoThread \notin Thread /\ Keepalive \notin Thread
      /\ conn \in Nat /\ ended \in Nat
  BY IpcAssumption DEF TypeOK, LineInv, Thread, Conn
<1>1. ASSUME NEW c \in Conn, Drop(c) PROVE FALSE
  <2>1. /\ InTouch /\ late = 0 /\ ends = 0 /\ c \notin open
        /\ reps[c] # <<>> \/ leased[c] # EmptyBag
    BY <1>1 DEF Drop, client, running, Undisturbed, InTouch, Alive
  <2>2. conn = 1 /\ c # conn
    BY <2>1, FirstConn DEF LineInv, InTouch
  <2>3. c > conn
    BY <2>2 DEF Conn
  <2>4. QED
    BY <2>1, <2>3 DEF LineInv, ExchangeInv
<1>2. CASE DaemonEnds
  BY <1>0, <1>2 DEF DaemonEnds, client, Undisturbed, InTouch, Alive
<1>3. CASE DaemonStarts \/ UNCHANGED vars
  <2>1. UNCHANGED <<client, stream, ended, ends, busy, leased, others>>
    BY <1>3 DEF DaemonStarts, vars, daemon, running
  <2>2. QED
    BY <2>1, NoLeaseChanges DEF client, stream, Undisturbed, InTouch, Alive
<1>4. ASSUME NEW p \in Proxy, OtherAcquires(p) \/ OtherReleases(p) PROVE WorkersInv'
  <2>1. /\ UNCHANGED <<client, stream, ended, ends, leased>>
        /\ \/ p \notin busy /\ busy' = busy \cup {p} /\ others' = others \cup {p}
           \/ p \in others /\ busy' = busy \ {p} /\ others' = others \ {p}
    BY <1>4 DEF OtherAcquires, OtherReleases, running
  <2>2. Undisturbed /\ Used' = Used
    BY <2>1 DEF client, Undisturbed, InTouch, Alive, Used
  <2>3. BagToSet(leased[conn]) \subseteq busy' \ others' /\ others' \subseteq busy'
    BY <2>1, <2>2 DEF WorkersInv
  <2>4. QED
    BY <2>1, <2>2, <2>3 DEF WorkersInv, client, stream
<1>5. ASSUME NEW t \in Thread, Call(t) \/ Lock(t) \/ (t \in Worker /\ Exit(t)) PROVE WorkersInv'
  <2>1. /\ UNCHANGED <<conn, open, using, held, late, stream, daemon>>
        /\ \E to \in {"lock", "send", "reconnect", "exited"} : pc' = [pc EXCEPT ![t] = to]
    BY <1>5 DEF Call, Lock, Exit, Goto
  <2>2. \A w \in Worker : pc'[w] = "read" => pc[w] = "read"
    BY <1>0, <2>1
  <2>3. QED
    BY <2>1, <2>2, NoLeaseChanges DEF stream, daemon, running, Undisturbed, InTouch, Alive
<1>6. CASE Ping \/ Pong
  <2>1. UNCHANGED <<conn, open, pc, using, held, daemon>>
    BY <1>6 DEF Ping, Pong
  <2>2. late = 0
    BY <1>0, <1>6 DEF Ping, Pong, NoLine, GiveUp, Undisturbed, InTouch
  <2>3. \A w \in Worker : pc[w] # "read"
    BY <1>0, <1>6 DEF Ping, Pong, LockInv, Inside
  <2>4. QED
    BY <2>1, <2>2, <2>3, NoLeaseChanges DEF daemon, running, Undisturbed, InTouch, Alive
<1>7. CASE Destroy
  BY <1>7 DEF Destroy, Undisturbed, InTouch
<1>8. QED
  BY <1>0, <1>1, <1>2, <1>3, <1>4, <1>5, <1>6, <1>7

LEMMA StepWorkers ==
    TypeOK /\ LockInv /\ LineInv /\ ExchangeInv /\ WorkersInv /\ [Next]_vars => WorkersInv'
<1> SUFFICES ASSUME TypeOK, LockInv, LineInv, ExchangeInv, WorkersInv, [Next]_vars
             PROVE  WorkersInv'
  OBVIOUS
<1>1. ASSUME NEW t \in Thread, InCall(t) PROVE WorkersInv'
  BY <1>1, CallWorkers
<1>2. ASSUME NEW c \in Conn, Serve(c) PROVE WorkersInv'
  BY <1>2, ServeWorkers
<1>3. QED
  BY <1>1, <1>2, OtherWorkers DEF Next

\* While no read times out, client and daemon agree on the leases between
\* calls, also on a connection made after the daemon was replaced; and while
\* it was not, each proxy leased is used by the worker it was given to, and by
\* nobody else.
THEOREM ClientAndDaemonAgree == Safety => []LeasesAgree
<1> DEFINE Inv == TypeOK /\ LineInv /\ ExchangeInv /\ WorkersInv
<1>1. Safety => [](ExchangeInv /\ WorkersInv)
  <2>1. Init => ExchangeInv /\ WorkersInv
    BY InitExchange, InitWorkers
  <2>2. /\ TypeOK /\ LockInv /\ LineInv /\ ExchangeInv /\ WorkersInv
        /\ [Next]_vars
        => ExchangeInv' /\ WorkersInv'
    BY StepExchange, StepWorkers
  <2>3. QED
    BY <2>1, <2>2, IpcInvariant, PTL DEF Safety
<1>2. Inv => LeasesAgree
  <2> SUFFICES ASSUME Inv, late = 0, owner = NoThread, open # {}, Alive
               PROVE  /\ held = leased[conn]
                      /\ ends = 0 =>
                           UsersHold /\ held = SetToBag({using[w] : w \in Worker} \ {NoProxy})
    BY DEF LeasesAgree
  <2>1. held = leased[conn]
    BY DEF ExchangeInv, InTouch, Quiet
  <2>2. ASSUME ends = 0 PROVE held = SetToBag(Used) /\ UsersHold
    <3>1. Undisturbed
      BY <2>2 DEF Undisturbed, InTouch
    <3>2. held = SetToBag(Used) /\ BagToSet(held) = Used
      BY <3>1, BagOfSet DEF WorkersInv
    <3>3. Used \subseteq busy \ others
      BY <2>1, <3>1, <3>2 DEF WorkersInv
    <3>4. ASSUME NEW w \in Worker, using[w] # NoProxy
          PROVE  /\ BagIn(using[w], leased[conn]) /\ using[w] \in busy \ others
                 /\ \A v \in Worker : using[v] = using[w] => v = w
      <4>1. using[w] \in Used
        BY <3>4 DEF Used
      <4>2. QED
        BY <2>1, <3>1, <3>2, <3>3, <3>4, <4>1 DEF WorkersInv, BagIn
    <3>5. QED
      BY <3>2, <3>4 DEF UsersHold
  <2>3. QED
    BY <2>1, <2>2 DEF Used
<1> HIDE DEF Inv
<1>3. Safety => []Inv
  BY <1>1, IpcInvariant, PTL DEF Inv
<1>4. QED
  BY <1>2, <1>3, PTL

=============================================================================
