----------------------------- MODULE ProxyDaemon -----------------------------
(***************************************************************************)
(* proxchunkd at work: the poll thread of run_server serving the client    *)
(* connections (src/proxchunkd.cpp) over the engine of ProxyEngine, whose  *)
(* refresh thread runs beside it.                                          *)
(*                                                                         *)
(* One step is one command line of one connection, or one critical section *)
(* of the engine where a command has several.  held[c] is the vector of    *)
(* URLs leased to connection c as a bag: its order is never used to decide *)
(* anything.                                                               *)
(***************************************************************************)
EXTENDS ProxyEngine

CONSTANTS
    Conn,       \* connections that can be open at once
    NoConn,
    StrictClients  \* clients only RELEASE a URL they hold on this connection

ASSUME DaemonAssumption ==
    /\ NoConn \notin Conn
    /\ StrictClients \in BOOLEAN

VARIABLES
    conn,       \* "none", accepted but not greeted, or "greeted"
    gone,       \* the peer of the connection has hung up
    held,       \* held[c][a]: leases of address a held by connection c
    poll,       \* what the poll thread is doing
    cur,        \* the connection it is doing it for
    addrs,      \* verify_target's snapshot of the addresses to probe
    want_stop,  \* a STOP line or a signal has been read
    stopping    \* graceful_stop has begun

daemonVars == <<conn, gone, held, poll, cur, addrs, want_stop, stopping>>
vars == <<engineVars, daemonVars>>

TypeOK ==
    /\ EngineTypeOK
    /\ conn \in [Conn -> {"none", "new", "greeted"}]
    /\ gone \in [Conn -> BOOLEAN]
    /\ held \in [Conn -> [Address -> Nat]]
    /\ poll \in {"idle", "probing", "dropping", "joining", "stopped"}
    /\ cur \in Conn \cup {NoConn}
    /\ addrs \subseteq Address
    /\ want_stop \in BOOLEAN
    /\ stopping \in BOOLEAN

DaemonInit ==
    /\ conn = [c \in Conn |-> "none"]
    /\ gone = [c \in Conn |-> FALSE]
    /\ held = [c \in Conn |-> [a \in Address |-> 0]]
    /\ poll = "idle"
    /\ cur = NoConn
    /\ addrs = {}
    /\ want_stop = FALSE
    /\ stopping = FALSE

Init == EngineInit /\ DaemonInit

----------------------------------------------------------------------------
(* The clients: connect, and hang up (exit, crash, or reconnect). *)

Accept(c) ==
    /\ poll = "idle" /\ ~stopping
    /\ conn[c] = "none"
    /\ conn' = [conn EXCEPT ![c] = "new"]
    /\ gone' = [gone EXCEPT ![c] = FALSE]
    /\ UNCHANGED <<engineVars, held, poll, cur, addrs, want_stop, stopping>>

HangUp(c) ==
    /\ conn[c] # "none" /\ ~gone[c]
    /\ gone' = [gone EXCEPT ![c] = TRUE]
    /\ UNCHANGED <<engineVars, conn, held, poll, cur, addrs, want_stop, stopping>>

----------------------------------------------------------------------------
(* handle_line: one command line.  A line sent before a hang-up is still   *)
(* read.  Only ACQUIRE looks at whether its reply could be written.        *)

Serving(c) == poll = "idle" /\ ~stopping /\ conn[c] = "greeted"

\* drop_conn: the connection's leases go back one by one, as failures.
BeginDrop(c) ==
    /\ poll' = "dropping"
    /\ cur' = c

Hello(c) ==
    /\ poll = "idle" /\ ~stopping /\ conn[c] = "new"
    /\ conn' = [conn EXCEPT ![c] = "greeted"]
    /\ UNCHANGED <<engineVars, gone, held, poll, cur, addrs, want_stop, stopping>>

\* Anything but HELLO first, a malformed command, or an overlong line.
ProtocolError(c) ==
    /\ poll = "idle" /\ ~stopping /\ conn[c] # "none"
    /\ BeginDrop(c)
    /\ UNCHANGED <<engineVars, conn, gone, held, addrs, want_stop, stopping>>

AcquireLine(c) ==
    /\ Serving(c)
    /\ \E skip \in SUBSET Address :
           IF Pickable(skip) = {}
           THEN UNCHANGED <<pool, rank, held, poll, cur>>
           ELSE \E r \in Pickable(skip) :
                    /\ Lease(r)
                    /\ held' = [held EXCEPT ![c][AddressOf(r)] = @ + 1]
                    /\ IF gone[c] THEN BeginDrop(c) ELSE UNCHANGED <<poll, cur>>
    /\ UNCHANGED <<target_filter, warming, stop_flag, refresher, cache,
                   conn, gone, addrs, want_stop, stopping>>

\* erase_one_held
EraseOneHeld(c, a) ==
    held' = [held EXCEPT ![c][a] = IF @ > 0 THEN @ - 1 ELSE @]

ReleaseLine(c) ==
    /\ Serving(c)
    /\ \E a \in Address, success \in BOOLEAN, mbps \in Speed :
           /\ StrictClients => held[c][a] > 0
           /\ Release(a, success, mbps)
           /\ EraseOneHeld(c, a)
    /\ UNCHANGED <<target_filter, warming, stop_flag, refresher, cache,
                   conn, gone, poll, cur, addrs, want_stop, stopping>>

\* TARGET blocks the poll thread from its first critical section to its last.
TargetLine(c) ==
    /\ Serving(c)
    /\ VerifyBegin
    /\ addrs' = LiveAddresses
    /\ poll' = "probing"
    /\ cur' = c
    /\ UNCHANGED <<warming, stop_flag, refresher, cache,
                   conn, gone, held, want_stop, stopping>>

TargetProbed ==
    /\ poll = "probing"
    /\ \E S \in SUBSET addrs : \E ok_speed \in [S -> Speed] : VerifyEnd(ok_speed)
    /\ poll' = "idle"
    /\ cur' = NoConn
    /\ addrs' = {}
    /\ UNCHANGED <<target_filter, warming, stop_flag, refresher, cache,
                   conn, gone, held, want_stop, stopping>>

StopLine(c) ==
    /\ Serving(c)
    /\ want_stop' = TRUE
    /\ UNCHANGED <<engineVars, conn, gone, held, poll, cur, addrs, stopping>>

Signal ==
    /\ poll = "idle" /\ ~stopping
    /\ want_stop' = TRUE
    /\ UNCHANGED <<engineVars, conn, gone, held, poll, cur, addrs, stopping>>

----------------------------------------------------------------------------
(* drop_conn and graceful_stop. *)

\* poll reports the hang-up, or reading finds the end of the stream.
Disconnect(c) ==
    /\ poll = "idle" /\ ~stopping
    /\ conn[c] # "none" /\ gone[c]
    /\ BeginDrop(c)
    /\ UNCHANGED <<engineVars, conn, gone, held, addrs, want_stop, stopping>>

\* drop_conn's loop clears held after it; nothing reads held in between.
DropLease ==
    /\ poll = "dropping"
    /\ \E a \in Address :
           /\ held[cur][a] > 0
           /\ Release(a, FALSE, 0)
           /\ EraseOneHeld(cur, a)
    /\ UNCHANGED <<target_filter, warming, stop_flag, refresher, cache,
                   conn, gone, poll, cur, addrs, want_stop, stopping>>

\* Mutant: the connection is closed without giving its leases back.
CloseConnHolding ==
    /\ poll = "dropping"
    /\ conn' = [conn EXCEPT ![cur] = "none"]
    /\ gone' = [gone EXCEPT ![cur] = FALSE]
    /\ poll' = "idle"
    /\ cur' = NoConn
    /\ UNCHANGED <<engineVars, held, addrs, want_stop, stopping>>

CloseConn ==
    /\ poll = "dropping"
    /\ \A a \in Address : held[cur][a] = 0
    /\ conn' = [conn EXCEPT ![cur] = "none"]
    /\ gone' = [gone EXCEPT ![cur] = FALSE]
    /\ poll' = "idle"
    /\ cur' = NoConn
    /\ UNCHANGED <<engineVars, held, addrs, want_stop, stopping>>

\* The listening socket goes first: no connection is accepted from here on.
GracefulStop ==
    /\ poll = "idle" /\ want_stop /\ ~stopping
    /\ stopping' = TRUE
    /\ UNCHANGED <<engineVars, conn, gone, held, poll, cur, addrs, want_stop>>

StopDropsConn(c) ==
    /\ poll = "idle" /\ stopping /\ conn[c] # "none"
    /\ BeginDrop(c)
    /\ UNCHANGED <<engineVars, conn, gone, held, addrs, want_stop, stopping>>

\* Mutant: the threads are joined without being told to stop.
EngineStopUntold ==
    /\ poll = "idle" /\ stopping
    /\ \A c \in Conn : conn[c] = "none"
    /\ poll' = "joining"
    /\ UNCHANGED <<engineVars, conn, gone, held, cur, addrs, want_stop, stopping>>

\* ProxyEngine::stop raises the flag, joins both threads, saves the cache.
EngineStop ==
    /\ poll = "idle" /\ stopping
    /\ \A c \in Conn : conn[c] = "none"
    /\ stop_flag' = TRUE
    /\ poll' = "joining"
    /\ UNCHANGED <<pool, rank, target_filter, warming, refresher, cache,
                   conn, gone, held, cur, addrs, want_stop, stopping>>

Joined ==
    /\ poll = "joining" /\ refresher = "done"
    /\ SaveCache
    /\ poll' = "stopped"
    /\ UNCHANGED <<pool, rank, target_filter, warming, stop_flag, refresher,
                   conn, gone, held, cur, addrs, want_stop, stopping>>

\* The next daemon starts from nothing but the cache file.
Restart ==
    /\ poll = "stopped"
    /\ pool' = [r \in {} |-> r]
    /\ rank' = [r \in {} |-> r]
    /\ target_filter' = FALSE
    /\ warming' = TRUE
    /\ stop_flag' = FALSE
    /\ refresher' = "cache"
    /\ poll' = "idle"
    /\ want_stop' = FALSE
    /\ stopping' = FALSE
    /\ UNCHANGED <<cache, conn, gone, held, cur, addrs>>

----------------------------------------------------------------------------
Refreshing == RefreshThread /\ UNCHANGED daemonVars

Commands(c) ==
    \/ Hello(c) \/ ProtocolError(c) \/ AcquireLine(c) \/ ReleaseLine(c)
    \/ TargetLine(c) \/ StopLine(c)

Next ==
    \/ \E c \in Conn : Accept(c) \/ HangUp(c) \/ Commands(c) \/ Disconnect(c)
                       \/ StopDropsConn(c)
    \/ TargetProbed \/ DropLease \/ CloseConn
    \/ Signal \/ GracefulStop \/ EngineStop \/ Joined \/ Restart
    \/ Refreshing

Safety == Init /\ [][Next]_vars

\* Both threads keep running: a probe has a timeout, the updater's sleep is
\* 100 ms slices, and every turn of the poll loop looks at the signal and at
\* every connection, so none of them is passed over for ever.
Fairness ==
    /\ WF_vars(Refreshing)
    /\ WF_vars(TargetProbed \/ DropLease \/ CloseConn \/ EngineStop \/ Joined)
    /\ \A c \in Conn : SF_vars(Disconnect(c)) /\ WF_vars(StopDropsConn(c))
    /\ SF_vars(GracefulStop)

Spec == Safety /\ Fairness

----------------------------------------------------------------------------
(* Properties. *)

Holders(a) == {c \in Conn : held[c][a] > 0}

\* The addresses that no list of candidates can name twice: those that are
\* not local, and a local one that comes from nowhere else (the public lists,
\* the cache, the local list again).
Sole ==
    {a \in Address :
        LET entries == {i \in 1 .. Len(LocalList) : LocalList[i] = a}
        IN  \/ entries = {}
            \/ /\ \A i, j \in entries : i = j
               /\ a \notin Public /\ ~UseCache}

\* A proxy is leased to one connection at a time, once ("busy" in acquire).
\* Refresh, demotion, TARGET and hang-ups come between ACQUIRE and RELEASE,
\* and other addresses may have several rows.
LeaseExclusive ==
    \A a \in Sole :
        /\ \A c, d \in Holders(a) : c = d
        /\ \A c \in Conn : held[c][a] <= 1

\* The busy rows of the pool are exactly the leased ones: no lease outlives
\* its connection in the pool, and no refresh loses the row of a lease.
BusyIffLeased ==
    \A a \in Sole :
        (\E r \in RowsOf(a) : pool[r].busy) <=> Holders(a) # {}

\* One half of it for every address, as proxchunkd(1) promises it: "On
\* disconnect, held URLs are released as failures so busy leases cannot leak."
BusyHasHolder == \A r \in BusyRows : Holders(AddressOf(r)) # {}

\* install_tested keeps every leased row and may exceed max_keep for them,
\* yet no history of leases and refreshes makes the pool exceed max_keep.
PoolBounded == Cardinality(DOMAIN pool) <= MaxKeep

\* A dead row is erased by the release that killed it, even when the row
\* was leased and carried its failures across a refresh: no row of the pool
\* is dead, so acquire's test of fails never decides.
PoolRowsUsable ==
    \A r \in DOMAIN pool : pool[r].alive /\ pool[r].fails < DeadAt

\* Every step of the refresh thread takes it to another place; the next daemon
\* begins at "cache".
RefresherMoves == refresher' \notin {refresher, "cache"}

KeepsLeases ==
    /\ LeasedAddresses' = LeasedAddresses
    /\ \A r \in BusyRows :
          AddressOf(r) \in Sole =>
              \E s \in BusyRows' : /\ AddressOf(s) = AddressOf(r)
                                   /\ pool'[s].fails = pool[r].fails

\* A refresh neither takes a lease from an address nor makes one up, and it
\* does not wipe the failures of a leased row.  Of two leased rows with one
\* address it may keep one, with the failures of either.
RefreshKeepsLeases == [][RefresherMoves => KeepsLeases]_vars

\* proxy_engine.hpp on verify_target: "Only rows that return HTTP 200/206
\* stay leasable."  Once a TARGET has been answered, a row that its probe did
\* not pass is passed by nothing but another probe, the end of which also
\* judges the rows that came while it ran.
OnlyProbedRowsLeasable ==
    [][target_filter /\ target_filter' /\ poll # "probing" =>
          \A r \in DOMAIN pool' :
              pool'[r].target_ok => r \in DOMAIN pool /\ pool[r].target_ok]_vars

\* The leases of a connection whose peer has gone are returned in the end.
HangUpReturnsLeases ==
    \A c \in Conn : gone[c] ~> \A a \in Address : held[c][a] = 0

\* STOP and SIGTERM end the daemon, whatever the refresh thread is doing.
StopFinishes == want_stop ~> poll = "stopped"

\* The daemon as a lease service: all that is left of its state is who holds
\* which proxy and which peers have gone.  The leases of addresses that may
\* have two rows are none of the service's.
AnyOf(S) == CHOOSE c \in S : TRUE
HolderOf(a) == IF Holders(a) = {} THEN NoConn ELSE AnyOf(Holders(a))

Leases == INSTANCE LeaseService WITH
              Proxy <- Sole, Client <- Conn, NoClient <- NoConn,
              holder <- [a \in Sole |-> HolderOf(a)],
              left <- gone

\* For the proxies that have one row at most, proxchunkd implements the lease
\* service, its promise to departed clients included.
ImplementsLeases == Leases!Spec

\* The same without the fairness, for every step the daemon takes.
ImplementsLeaseSafety == Leases!Safety

----------------------------------------------------------------------------
(* The inductive invariant behind LeaseExclusive and BusyIffLeased. *)

\* The address names one row: release finds the row that acquire leased.
UniqueRows ==
    \A r, s \in DOMAIN pool :
        AddressOf(r) = AddressOf(s) /\ AddressOf(r) \in Sole => r = s

\* So does a line of the cache file, and only a cache user reads the file.
UniqueCache ==
    /\ \A a \in Sole : cache[a] <= 1
    /\ refresher \in {"cacheTest", "cacheInstall"} => UseCache

\* The connection being dropped is open until its last lease is back.
DropsOpenConn == poll = "dropping" => cur \in Conn /\ conn[cur] # "none"

ClosedHoldNothing ==
    \A c \in Conn : conn[c] = "none" => \A a \in Address : held[c][a] = 0

StoppedClosed ==
    poll \in {"joining", "stopped"} => \A c \in Conn : conn[c] = "none"

LeaseInv ==
    /\ TypeOK
    /\ PoolRowsUsable
    /\ UniqueRows
    /\ UniqueCache
    /\ DropsOpenConn
    /\ ClosedHoldNothing
    /\ StoppedClosed
    /\ BusyIffLeased
    /\ LeaseExclusive

=============================================================================
