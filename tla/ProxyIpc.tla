------------------------------ MODULE ProxyIpc ------------------------------
(***************************************************************************)
(* ProxyClient (src/proxy_ipc.cpp): the threads of one download process    *)
(* share one connection to proxchunkd.  Each call takes mu_, writes a      *)
(* request line and reads one reply line; a keepalive thread pings.  The   *)
(* main thread sends the TARGET, then starts the workers.                  *)
(*                                                                         *)
(* Requests and replies carry no number.  Which reply answers which        *)
(* request is a matter of order alone, and a reader that has given up      *)
(* leaves its reply in the stream.  The daemon answers in order, but as    *)
(* late as it likes: its one thread may be probing a TARGET for somebody   *)
(* else.                                                                   *)
(*                                                                         *)
(* Of the daemon there is what its replies depend on: the busy flag of     *)
(* each proxy and the leases of each connection (see ProxyDaemon), those   *)
(* of other clients taken together.  It may end, killed or stopped, and be *)
(* started again.                                                          *)
(***************************************************************************)
EXTENDS Naturals, Sequences, Bags

CONSTANTS
    Worker,   \* threads of the process that acquire and release
    Proxy,
    NoProxy,
    Misread,  \* the "url" of a HELLO reply read as the reply to ACQUIRE
    Main,     \* the thread that calls set_target
    NoThread, Keepalive,
    MaxFaults, \* bound: how often a reader gives up or the daemon ends
    MaxEnds    \* bound: how often the daemon ends

ASSUME IpcAssumption ==
    /\ Worker # {}
    /\ NoThread \notin Worker /\ Keepalive \notin Worker /\ NoThread # Keepalive
    /\ Main \notin Worker \cup {NoThread, Keepalive}
    /\ NoProxy \notin Proxy /\ Misread \notin Proxy /\ NoProxy # Misread
    /\ MaxFaults \in Nat /\ MaxEnds \in 0 .. MaxFaults

VARIABLES
    conn,       \* the last connection made, counting from 1
    open,       \* {conn} if fd_ is that connection, {} if there is no fd_
    reqs, reps, \* of each connection: lines not yet read, either way
    owner,      \* who has mu_
    pc,         \* of each thread: where it is in a call
    try,        \* in rpc: it "begin"s, the "first" or "second" time, or "after" it
    using,      \* of each worker: the proxy it was given
    held,       \* held_, a bag
    keepalive,  \* the keepalive thread: "sleep", "read" or "none"
    late,       \* how many reads have timed out
    up,         \* a daemon is running
    ended,      \* the last connection that ended with its daemon
    ends,       \* how many daemons have ended
    targeted,   \* daemon: it has carried out this process's TARGET
    busy,       \* daemon: proxies whose row is busy
    leased,     \* daemon: of each connection, the bag of proxies it holds
    others      \* daemon: proxies held by other clients

client == <<conn, open, owner, pc, try, using, held, keepalive, late>>
stream == <<reqs, reps>>
running == <<up, ended, ends>>
daemon == <<running, targeted, busy, leased, others>>
vars == <<client, stream, daemon>>

Thread == Worker \cup {Main}
Conn == 1 .. MaxFaults + 1
Url == Proxy \cup {NoProxy, Misread}

Line(cmd, url) == [cmd |-> cmd, url |-> url]
Request == [cmd : {"HELLO", "PING", "TARGET", "ACQUIRE", "RELEASE"}, url : Url]

\* A reply names the command it answers: the line shows as much ("OK pong").
\* "FEW" is the reply to a TARGET that leaves no proxy, "BYE" the line sent to
\* everybody by a daemon that stops.
Reply == [cmd : {"HELLO", "PING", "TARGET", "ACQUIRE", "RELEASE", "FEW", "BYE"}, url : Url]

\* The daemon that took the connection in use still runs.
Alive == conn > ended

Init ==
    /\ conn = 1
    /\ open = {1}
    /\ reqs = [c \in Conn |-> <<>>]
    /\ reps = [c \in Conn |-> <<>>]
    /\ owner = NoThread
    /\ pc = [t \in Thread |-> IF t = Main THEN "idle" ELSE "unborn"]
    /\ try = "first"
    /\ using = [w \in Worker |-> NoProxy]
    /\ held = EmptyBag
    /\ keepalive = "sleep"
    /\ late = 0
    /\ up = TRUE /\ ended = 0 /\ ends = 0
    /\ targeted = FALSE
    /\ busy = {}
    /\ leased = [c \in Conn |-> EmptyBag]
    /\ others = {}

----------------------------------------------------------------------------
(* The daemon. *)

\* A reply to a connection the client has closed is lost.
Answer(c, cmd, url) ==
    reps' = IF c \in open THEN [reps EXCEPT ![c] = Append(@, Line(cmd, url))]
            ELSE reps

Taken(c) == reqs' = [reqs EXCEPT ![c] = Tail(@)]

\* handle_line.  A RELEASE clears the row's busy flag whoever leased it.  A
\* lease whose reply cannot be written ends the connection, the lines behind
\* it unread.
Serve(c) ==
    /\ reqs[c] # <<>>
    /\ LET q == Head(reqs[c])
       IN  \/ /\ q.cmd \in {"HELLO", "PING"}
              /\ Answer(c, q.cmd, NoProxy) /\ Taken(c)
              /\ UNCHANGED daemon
           \/ /\ q.cmd = "TARGET"
              /\ \E result \in {"TARGET", "FEW"} : Answer(c, result, NoProxy)
              /\ Taken(c)
              /\ targeted' = TRUE
              /\ UNCHANGED <<running, busy, leased, others>>
           \/ /\ q.cmd = "RELEASE"
              /\ Answer(c, q.cmd, NoProxy) /\ Taken(c)
              /\ busy' = busy \ {q.url}
              /\ leased' = [leased EXCEPT ![c] = @ (-) SetToBag({q.url})]
              /\ UNCHANGED <<running, targeted, others>>
           \/ /\ q.cmd = "ACQUIRE"
              /\ \E p \in Proxy \ busy :
                     /\ Answer(c, q.cmd, p)
                     /\ busy' = busy \cup {p}
                     /\ leased' = [leased EXCEPT ![c] = @ (+) SetToBag({p})]
              /\ IF c \in open THEN Taken(c) ELSE reqs' = [reqs EXCEPT ![c] = <<>>]
              /\ UNCHANGED <<running, targeted, others>>
           \/ /\ q.cmd = "ACQUIRE" /\ Proxy \subseteq busy
              /\ Answer(c, q.cmd, NoProxy) /\ Taken(c)
              /\ UNCHANGED daemon
    /\ UNCHANGED client

Forget(c) ==
    /\ reqs' = [reqs EXCEPT ![c] = <<>>]
    /\ reps' = [reps EXCEPT ![c] = <<>>]

\* Mutant: the leases of a closed connection are kept.
DropKeeping(c) ==
    /\ c \notin open /\ reqs[c] = <<>> /\ reps[c] # <<>>
    /\ Forget(c)
    /\ UNCHANGED <<client, daemon>>

\* drop_conn, when every line written before the end of the stream has been
\* read, or earlier: a peer that closed with replies unread is POLLERR.
Drop(c) ==
    /\ c \notin open
    /\ \/ reqs[c] = <<>> /\ leased[c] # EmptyBag
       \/ reps[c] # <<>>
    /\ busy' = busy \ BagToSet(leased[c])
    /\ leased' = [leased EXCEPT ![c] = EmptyBag]
    /\ Forget(c)
    /\ UNCHANGED <<client, running, targeted, others>>

\* Other clients, who release what they hold.
OtherAcquires(p) ==
    /\ up /\ p \notin busy
    /\ busy' = busy \cup {p}
    /\ others' = others \cup {p}
    /\ UNCHANGED <<client, stream, running, targeted, leased>>

OtherReleases(p) ==
    /\ p \in others
    /\ busy' = busy \ {p}
    /\ others' = others \ {p}
    /\ UNCHANGED <<client, stream, running, targeted, leased>>

\* The daemon is killed, or stops with a last line to every client.  What it
\* had not read is lost; what it has written can be read.  Its successor
\* knows nothing of leases or targets.
DaemonEnds ==
    /\ up /\ ends < MaxEnds /\ late + ends < MaxFaults
    /\ up' = FALSE /\ ended' = conn /\ ends' = ends + 1
    /\ \/ UNCHANGED reps
       \/ reps' = [c \in Conn |-> IF c \in open /\ Alive
                                  THEN Append(reps[c], Line("BYE", NoProxy)) ELSE reps[c]]
    /\ reqs' = [c \in Conn |-> <<>>]
    /\ targeted' = FALSE
    /\ busy' = {} /\ others' = {}
    /\ leased' = [c \in Conn |-> EmptyBag]
    /\ UNCHANGED client

DaemonStarts ==
    /\ ~up /\ up' = TRUE
    /\ UNCHANGED <<client, stream, ended, ends, targeted, busy, leased, others>>

----------------------------------------------------------------------------
(* The client's calls. *)

Goto(w, to) == pc' = [pc EXCEPT ![w] = to]

\* A worker without a proxy acquires one, a worker with one releases it.
Acquiring(t) == t # Main /\ using[t] = NoProxy
Releasing(t) == t # Main /\ using[t] # NoProxy
Command(t) ==
    IF t = Main THEN Line("TARGET", NoProxy)
    ELSE IF Acquiring(t) THEN Line("ACQUIRE", NoProxy) ELSE Line("RELEASE", using[t])

Call(w) ==
    /\ pc[w] = "idle"
    /\ Goto(w, "lock")
    /\ UNCHANGED <<conn, open, owner, try, using, held, keepalive, late,
                   stream, daemon>>

Lock(w) ==
    /\ pc[w] = "lock" /\ owner = NoThread
    /\ owner' = w
    /\ IF open # {} THEN Goto(w, "send") /\ try' = "first"
       ELSE Goto(w, "reconnect") /\ try' = "begin"
    /\ UNCHANGED <<conn, open, using, held, keepalive, late, stream, daemon>>

\* once, in rpc: write the line, which fails if the daemon is gone, ...
Send(w) ==
    /\ pc[w] = "send"
    /\ IF Alive
       THEN Goto(w, "read") /\ reqs' = [reqs EXCEPT ![conn] = Append(@, Command(w))]
       ELSE Goto(w, "broken") /\ UNCHANGED reqs
    /\ UNCHANGED <<conn, open, owner, try, using, held, keepalive, late,
                   reps, daemon>>

Unlock(w) ==
    /\ owner' = NoThread
    /\ Goto(w, "idle")

TakeReply == reps' = [reps EXCEPT ![conn] = Tail(@)]

\* Mutant: "ERR empty" is taken for a lease.
GrantedEvenEmpty(reply) ==
    IF reply.cmd = "ACQUIRE" THEN {reply.url}
    ELSE IF reply.cmd = "HELLO" THEN {Misread} ELSE {}

\* What acquire makes of a reply: any "OK" with two more words is a lease,
\* and a late reply to HELLO ("OK 1 proxchunkd ...") is one.
Granted(reply) ==
    IF reply.cmd = "ACQUIRE" THEN {reply.url} \ {NoProxy}
    ELSE IF reply.cmd = "HELLO" THEN {Misread} ELSE {}

\* ... and read one.
ReadAcquired(w) ==
    /\ pc[w] = "read" /\ reps[conn] # <<>> /\ Acquiring(w)
    /\ LET urls == Granted(Head(reps[conn]))
       IN  /\ held' = held (+) SetToBag(urls)
           /\ using' = [using EXCEPT ![w] = IF urls = {} THEN NoProxy
                                            ELSE CHOOSE u \in urls : TRUE]
    /\ TakeReply
    /\ Unlock(w)
    /\ UNCHANGED <<conn, open, try, keepalive, late, reqs, daemon>>

\* Mutant: release does not strike the proxy off held_.
ReleasedKept(w) ==
    /\ using' = [using EXCEPT ![w] = NoProxy]
    /\ Unlock(w)
    /\ UNCHANGED held

\* release strikes the proxy off held_ whatever came of the RPC, and its
\* caller forgets it.
Released(w) ==
    /\ held' = held (-) SetToBag({using[w]})
    /\ using' = [using EXCEPT ![w] = NoProxy]
    /\ Unlock(w)

ReadReleased(w) ==
    /\ pc[w] = "read" /\ reps[conn] # <<>> /\ Releasing(w)
    /\ TakeReply
    /\ Released(w)
    /\ UNCHANGED <<conn, open, try, keepalive, late, reqs, daemon>>

\* Without a target that leaves proxies the process ends.
StartWorkers(ok) ==
    /\ owner' = NoThread
    /\ pc' = [t \in Thread |-> IF t = Main \/ ~ok THEN "exited" ELSE "idle"]

\* Mutant: any "OK" is good news.
AnyOk(reply) == reply.cmd \in {"HELLO", "PING", "TARGET"}

\* set_target returns at least 1 for "OK n ..." only; a late reply to HELLO
\* ("OK 1 proxchunkd ...") would pass.
LeavesProxies(reply) == reply.cmd \in {"HELLO", "TARGET"}

ReadTarget ==
    /\ pc[Main] = "read" /\ reps[conn] # <<>>
    /\ TakeReply
    /\ StartWorkers(LeavesProxies(Head(reps[conn])))
    /\ UNCHANGED <<conn, open, try, using, held, keepalive, late, reqs, daemon>>

\* A read times out.
GiveUp == late + ends < MaxFaults /\ late' = late + 1

\* A read fails: no line in time, or the end of the stream.
NoLine ==
    \/ GiveUp
    \/ ~Alive /\ reps[conn] = <<>> /\ UNCHANGED late

\* rpc fails: set_target and release end, acquire reconnects, leases held or not.
RpcFails(w) ==
    \/ /\ w = Main
       /\ StartWorkers(FALSE)
       /\ UNCHANGED <<try, using, held>>
    \/ /\ Releasing(w)
       /\ Released(w)
       /\ UNCHANGED try
    \/ /\ Acquiring(w)
       /\ Goto(w, "reconnect")
       /\ try' = "after"
       /\ UNCHANGED <<owner, using, held>>

\* rpc tries a second time on a new connection, unless leases are held.
OnceFails(w) ==
    /\ \/ pc[w] = "read" /\ NoLine
       \/ pc[w] = "broken" /\ UNCHANGED late
    /\ IF try = "first" /\ held = EmptyBag
       THEN Goto(w, "reconnect") /\ try' = "second" /\ UNCHANGED <<owner, using, held>>
       ELSE RpcFails(w)
    /\ UNCHANGED <<conn, open, keepalive, stream, daemon>>

\* reconnect: close the socket, connect, and send HELLO.
Reconnect(w) ==
    /\ pc[w] = "reconnect" /\ up
    /\ conn' = conn + 1
    /\ open' = {conn + 1}
    /\ held' = EmptyBag
    /\ reqs' = [reqs EXCEPT ![conn + 1] = Append(@, Line("HELLO", NoProxy))]
    /\ Goto(w, "hello")
    /\ UNCHANGED <<owner, try, using, keepalive, late, reps, daemon>>

\* With no daemon to connect to there is no socket either.
Refused(w) ==
    /\ pc[w] = "reconnect" /\ ~up
    /\ open' = {}
    /\ held' = EmptyBag
    /\ \/ try = "after" /\ Unlock(w) /\ UNCHANGED <<try, using>>
       \/ try # "after" /\ w = Main /\ StartWorkers(FALSE) /\ UNCHANGED <<try, using>>
       \/ /\ try # "after" /\ Releasing(w)
          /\ Unlock(w) /\ using' = [using EXCEPT ![w] = NoProxy]
          /\ UNCHANGED try
       \/ /\ try # "after" /\ Acquiring(w)
          /\ try' = "after"
          /\ UNCHANGED <<pc, owner, using>>
    /\ UNCHANGED <<conn, keepalive, late, stream, daemon>>

HelloAnswered(w) ==
    /\ pc[w] = "hello" /\ reps[conn] # <<>>
    /\ TakeReply
    /\ IF Head(reps[conn]).cmd = "HELLO"
       THEN Goto(w, "join") /\ UNCHANGED <<owner, try, using, held>>
       ELSE IF try = "after" THEN Unlock(w) /\ UNCHANGED <<try, using, held>>
       ELSE RpcFails(w)
    /\ UNCHANGED <<conn, open, keepalive, late, reqs, daemon>>

\* hello fails, after 5 s or at the end of the stream.  The socket stays, with
\* the reply to come.
HelloFails(w) ==
    /\ pc[w] = "hello" /\ NoLine
    /\ IF try = "after"
       THEN Unlock(w) /\ UNCHANGED <<try, using, held>>
       ELSE RpcFails(w)
    /\ UNCHANGED <<conn, open, keepalive, stream, daemon>>

\* start_keepalive, holding mu_: stop the thread there is, join it, start one.
RestartKeepalive(w) ==
    /\ pc[w] = "join"
    /\ keepalive = "sleep"
    /\ IF try = "after"
       THEN Unlock(w) /\ UNCHANGED try
       ELSE /\ Goto(w, "send")
            /\ try' = IF try = "begin" THEN "first" ELSE "second"
            /\ UNCHANGED owner
    /\ UNCHANGED <<conn, open, using, held, keepalive, late, stream, daemon>>

\* A worker leaves when it has nothing to release.
Exit(w) ==
    /\ pc[w] = "idle" /\ Acquiring(w)
    /\ Goto(w, "exited")
    /\ UNCHANGED <<conn, open, owner, try, using, held, keepalive, late,
                   stream, daemon>>

----------------------------------------------------------------------------
(* The keepalive thread, and the destructor. *)

\* A PING to a daemon that is gone is not noticed.
WritePing ==
    reqs' = IF Alive THEN [reqs EXCEPT ![conn] = Append(@, Line("PING", NoProxy))] ELSE reqs

\* Mutant: the thread waits for mu_ instead of trying it.
PingBlocking ==
    /\ keepalive \in {"sleep", "lock"} /\ open # {}
    /\ IF owner = NoThread
       THEN owner' = Keepalive /\ WritePing /\ keepalive' = "read"
       ELSE keepalive' = "lock" /\ UNCHANGED <<owner, reqs>>
    /\ UNCHANGED <<conn, open, pc, try, using, held, late, reps, daemon>>

\* It pings only if it gets mu_ at once and there is a socket.
Ping ==
    /\ keepalive = "sleep" /\ owner = NoThread /\ open # {}
    /\ owner' = Keepalive
    /\ WritePing
    /\ keepalive' = "read"
    /\ UNCHANGED <<conn, open, pc, try, using, held, late, reps, daemon>>

\* Mutant: the reply to a PING is not read.
PongUnread ==
    /\ keepalive = "read"
    /\ owner' = NoThread
    /\ keepalive' = "sleep"
    /\ UNCHANGED <<conn, open, pc, try, using, held, late, stream, daemon>>

\* One line is read, whatever it says, or none comes within 2 s.
Pong ==
    /\ keepalive = "read"
    /\ \/ reps[conn] # <<>> /\ TakeReply /\ UNCHANGED late
       \/ NoLine /\ UNCHANGED reps
    /\ owner' = NoThread
    /\ keepalive' = "sleep"
    /\ UNCHANGED <<conn, open, pc, try, using, held, reqs, daemon>>

\* The destructor, after the workers.  Its loop of RELEASEs has nothing to do.
Destroy ==
    /\ \A w \in Worker : pc[w] = "exited"
    /\ keepalive = "sleep" /\ owner = NoThread /\ held = EmptyBag
    /\ keepalive' = "none"
    /\ open' = {}
    /\ UNCHANGED <<conn, owner, pc, try, using, held, late, stream, daemon>>

----------------------------------------------------------------------------
InCall(t) ==
    \/ Send(t) \/ ReadAcquired(t) \/ ReadReleased(t)
    \/ /\ t = Main
       /\ ReadTarget
    \/ OnceFails(t) \/ Reconnect(t) \/ Refused(t)
    \/ HelloAnswered(t) \/ HelloFails(t) \/ RestartKeepalive(t)

Next ==
    \/ \E t \in Thread : Call(t) \/ Lock(t) \/ InCall(t)
    \/ \E w \in Worker : Exit(w)
    \/ Ping \/ Pong \/ Destroy \/ DaemonEnds \/ DaemonStarts
    \/ \E c \in Conn : Serve(c) \/ Drop(c)
    \/ \E p \in Proxy : OtherAcquires(p) \/ OtherReleases(p)

Safety == Init /\ [][Next]_vars

\* Threads run, and mu_ is not kept from one of them for ever: its other
\* users sleep or transfer between calls.  The daemon's poll loop comes to
\* every connection.  No worker and no other client need ever call, and no
\* daemon need ever be started again.
Fairness ==
    /\ \A t \in Thread : WF_vars(InCall(t)) /\ SF_vars(Lock(t))
    /\ WF_vars(Pong)
    /\ \A c \in Conn : WF_vars(Serve(c)) /\ WF_vars(Drop(c))

Spec == Safety /\ Fairness

----------------------------------------------------------------------------
(* Properties. *)

TypeOK ==
    /\ conn \in Conn
    /\ open \subseteq Conn
    /\ reqs \in [Conn -> Seq(Request)]
    /\ reps \in [Conn -> Seq(Reply)]
    /\ owner \in Thread \cup {NoThread, Keepalive}
    /\ pc \in [Thread -> {"unborn", "idle", "lock", "send", "read", "broken",
                          "reconnect", "hello", "join", "exited"}]
    /\ try \in {"begin", "first", "second", "after"}
    /\ using \in [Worker -> Url]
    /\ IsABag(held) /\ BagToSet(held) \subseteq Url \ {NoProxy}
    /\ keepalive \in {"sleep", "read", "none"}
    /\ late + ends \in 0 .. MaxFaults
    /\ {up, targeted} \subseteq BOOLEAN
    /\ ended \in 0 .. conn /\ ends \in 0 .. MaxEnds
    /\ busy \subseteq Proxy
    /\ DOMAIN leased = Conn
    /\ \A c \in Conn : IsABag(leased[c]) /\ BagToSet(leased[c]) \subseteq Proxy
    /\ others \subseteq Proxy

\* Lines on the way, either way, on the connection in use.
Outstanding == Len(reqs[conn]) + Len(reps[conn])

Reading ==
    keepalive = "read" \/ \E t \in Thread : pc[t] \in {"read", "hello"}

\* Calls get their own replies: a line is on the way only for the thread that
\* reads, and the stream falls behind by at most a line for each read that
\* has timed out.
InStep == Alive => Outstanding <= late + IF Reading THEN 1 ELSE 0

\* What a worker uses is leased to this process, on the connection in use,
\* and to nobody else.  proxy_ipc.hpp: "A keepalive thread sends `PING` every
\* @ref k_keepalive_ms so the daemon never treats the client as dead
\* (disconnect would RELEASE every held proxy)."
UsersHold ==
    \A w \in Worker :
        pc[w] = "idle" /\ using[w] # NoProxy =>
            /\ BagIn(using[w], leased[conn]) /\ using[w] \in busy \ others
            /\ \A v \in Worker : using[v] = using[w] => v = w

\* While no read times out, and between calls, client and daemon agree on the
\* leases, also after the daemon was replaced; and while it was not, each
\* proxy leased is used by the worker it was given to.
LeasesAgree ==
    late = 0 /\ owner = NoThread /\ open # {} /\ Alive =>
        /\ held = leased[conn]
        /\ ends = 0 => UsersHold /\ held = SetToBag({using[w] : w \in Worker} \ {NoProxy})

\* No worker asks for a proxy before the daemon has carried out the TARGET:
\* neither a PONG nor a HELLO reply that comes late passes for the answer to a
\* TARGET that is still being probed, or that was sent again.
TargetFirst ==
    (\E w \in Worker : pc[w] \notin {"unborn", "exited"}) => targeted \/ ends > 0

\* Every call returns: neither a lost reply, nor a daemon that is gone, nor the
\* join of the keepalive thread, with mu_ held, blocks a thread for ever.
CallsReturn == \A t \in Thread : pc[t] = "lock" ~> pc[t] \in {"idle", "exited"}

\* Whatever was lost on the way, a connection the client has closed holds no
\* proxy in the end: leases do not leak beyond it.
Dangling == \E c \in Conn : (c < conn \/ open = {}) /\ leased[c] # EmptyBag
LeasesEnd == Dangling ~> ~Dangling

=============================================================================
