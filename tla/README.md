# proxchunk in TLA+

This directory holds TLA+ models of proxchunk, the configurations that check
them with TLC, and theorems about them that TLAPS proves. The models are
translated from the source in `src/`; `PROJECT.json` names the lines behind
every definition.

proxchunk downloads one file in Range chunks over many HTTP and SOCKS proxies
at once. A user daemon, `proxchunkd`, collects and scores the proxies and
leases them to the download processes over a Unix socket.

## 1. The system

| Part | State | Operations | Modelled in |
|---|---|---|---|
| Proxy engine (`src/proxy_engine.cpp`) | the pool (rows sorted by speed, one mutex), target filter, warming and stop flags, the cache file; a refresh thread, later an updater thread | start, stop, acquire, release, verify_target, refresh, try_reuse_cache, install_tested, save_cache | `ProxyEngine` |
| Transfer loops of the engine | a curl_multi handle, counters, results | test_proxies_multi, the loop of verify_target | `ProbeLoop` |
| Daemon (`src/proxchunkd.cpp`) | the connections, the URLs each holds, the stop request | accept, HELLO, PING, TARGET, STATS, ACQUIRE, RELEASE, STOP, disconnect, signal, graceful stop | `ProxyDaemon` |
| Planner (`plan_n.h`, `plan.hpp`) | none | plan_n_piece_count, plan_n_bounds, plan_chunks_n, plan_chunks | `PlanBounds`, `Plan` |
| Downloader (`run_download` in `src/proxchunk.cpp`) | chunk queue, counters, the direct-connection flag, part files; the main thread and up to `-c` workers | probe, TARGET, plan, work, join, assemble | `Downloader` |
| IPC client (`src/proxy_ipc.cpp`) | socket, bytes read ahead, held URLs; a keepalive thread | connect, rpc with reconnect, acquire, release, set_target, stats, stop, keepalive | `ProxyIpc` (not stats, stop) |
| Daemon lifecycle (`proxchunkd.cpp`, connect_or_start) | pid file and its lock, the socket's name | start and daemonize, recover_stale, bind, graceful stop, --stop, connect_or_start | `DaemonLifecycle` |
| Prompt, command line, GUI, size probes, packaging | none that is shared | | not modelled |

How they interact. A download process (Downloader) opens one connection to the
daemon through the IPC client, sends `TARGET` once, and its workers then
`ACQUIRE` and `RELEASE` proxies over it. The daemon serves all connections from
one poll thread, which calls the engine's operations; the engine's refresh
thread replaces the pool beside it, so the two share `pool_` under its mutex.
A client that exits, crashes or reconnects is noticed as a hang-up, and its
leases go back as failures. A stop command or a signal ends the poll loop,
which gives every lease back, stops the engine's threads and saves the cache.

What is hard here, and what should hold:

- *Leases against refreshes.* A refresh builds a whole new pool from rows it
  tested without the mutex and merges the leased rows of the old one. A lease
  must survive it, with the failures counted against the proxy, and a proxy
  must never have two holders.
- *Leases against departures.* Hang-up, protocol error, failed reply and stop
  must each return every lease of a connection, and nothing else.
- *TARGET against refreshes.* The probe runs without the mutex too.
- *The end of the work.* Workers leave when the queue is empty and nothing is in
  flight, but a chunk being requeued is in neither for a moment.
- *Requests and replies.* They carry no number and share one stream, which the
  workers and a keepalive thread take turns to use and which a reader that times
  out leaves with a reply in it. A reconnect gives up every lease of the process.
- *Bytes.* A part file grows over several transfers by different proxies, none
  of which can be trusted to send what was asked for.
- *Two names in the file system.* Daemons, stops and starters find each other by
  a socket and a pid file, which a killed process leaves behind. Whoever clears
  them away must not take them from a daemon that lives.
- *Endings.* Stop, transfer loops, calls and downloads must end.

The hazards are listed, each at its line, under `hazards` in `PROJECT.json`,
with the properties that cover them.

## 2. The modules

`ProxyEngine` -- *engine*. `pool` is a function from row names to rows and
`rank` the position of each in the vector. A row is named by its address and
the list entry it was tested from: a position in the local list (`LocalList`, a
sequence that may repeat itself, as `extra_proxies` may), the public lists (one
entry for each address, since refresh removes duplicates there), or one of the
lines of the cache file. Nothing in the code keeps an address from having several. `Sort` picks any ranking by falling speed, as `std::sort` leaves rows of
equal speed in no known order. Speeds are levels `0 .. MaxSpeed`; the weights of
the moving average are those of the code. `Install` is install_tested: the
tested rows that inherit a lease (`HeirChoices`), those that remain because no
test speaks for them (`Merged`), and the cut at max_keep (`Kept`).
`RefreshThread` has one action for each stretch of the refresh thread between
two looks at the stop flag or two uses of the mutex; results of a scoring run
are any subset of the candidates at any speed (`TestResults`).

`ProxyDaemon` -- *poll thread and connections*, EXTENDS `ProxyEngine`. One action
per command line, one per lease returned by drop_conn, the two critical sections
of TARGET as two actions (`TargetLine`, `TargetProbed`) between which only the
refresh thread and the clients can move. The steps of graceful_stop are
`GracefulStop`, `StopDropsConn`, `EngineStop` and `Joined`; `Restart` is the next
daemon on the same cache file. PING, STATS and unknown commands change nothing
and are left out. The lines of a client that has hung up are still read, as in
the code, and only ACQUIRE notices that its reply cannot be written.
The model may take other steps between reading STOP and beginning to stop; the
code finishes the current turn of its loop there.
`Sole` is the set of the addresses that the candidates cannot name twice: all that
are not local, and a local one that is listed once, is not public, and is not read
back from a cache. With Tor and the cache both on, as they are by default, the local
proxies are not in it and all others are. The lease properties speak of the addresses
in `Sole`, in every set-up, with the others beside them; what happens to the others is
the run `duplicates`.

`LeaseService` -- *what a daemon promises*: one holder for each proxy, grants of
free proxies, returns, clients that leave, and the promise that what a departed
client held is taken back. `ProxyDaemon!ImplementsLeases` instantiates it for the
proxies in `Sole`, with `holder` computed from `held` and `left` from `gone`.

`ProbeLoop` -- *test_proxies_multi and the loop of verify_target*. One module for
both, with `mode` choosing, because they share everything but how they refill and
when they give up. `Perform` lets any of the running transfers finish and
records how many do not, as curl_multi_perform does; `ReadMessage` is one message
with the candidates attached after it. Out-of-memory failures of libcurl are
left out.
Two things the code does here are worth knowing. The loop condition is the number
of transfers that ran before the messages were read, so when all transfers in
flight end in one perform the loop ends although `ReadMessage` has just attached
others, whose candidates go untested: `LeavesOutOnlyWhenFull` excuses that exit
and no other. And the local candidates are waited for until they have been
started, not until they have been tested.

`PlanBounds`, `Plan` -- *the planner*. `PlanBounds` has the arithmetic,
`Plan` the two loops, one iteration a step. `Plan` is a component of
`Downloader`: its steps are named `PlanInit`, `PlanNext`.

`Downloader` -- *run_download*, EXTENDS `Plan`. The main thread probes, sends
TARGET, plans (`PlanStep` is a step of `Plan`, `StartWorkers` its return), waits,
joins and assembles. The file is cut by size if that option is given, otherwise
into as many pieces as `-c` says; main rejects both below 1. Each worker has a place `pc`, a
pipe and a chunk in hand; each access to shared state is a step, so the queue,
the counters, `direct_busy` and the RPCs interleave as they can in the code. A
part is its size and whether all of its bytes belong where they are. Transfers
bring any prefix of the range, and with `OtherBodies` also error pages, whole
files and 206 replies of another range, since nobody looks at Content-Range
(`Replies`). Left out: `Job::attempts`, which is reset at three and decides
nothing; the speed a RELEASE reports; failure of curl_easy_init; the progress
display. RPCs are reliable here: `ProxyIpc` shows that client and daemon agree
on the leases while no read times out, and `ProxyDaemon` that a proxy is leased
to one client only.

`ProxyIpc` -- *one process's ProxyClient and its daemon*. Both directions of each
connection are sequences of lines. The main thread is in `set_target` and starts
the workers if it succeeds (`StartWorkers`); workers are in `acquire` or
`release`; `pc` is the place in the call and `owner` is `mu_`. `Send`,
`ReadAcquired`, `ReadReleased` and `ReadTarget` are an rpc that succeeds.
`OnceFails` is a write or read that fails, after which rpc tries again on a new
connection (no lease held), or fails, and a failed acquire reconnects; `Refused`
is a reconnect that finds no daemon. `RestartKeepalive` waits for the keepalive
thread with `mu_` held, as start_keepalive does. `Serve` and `Drop` are
handle_line and drop_conn, reduced to what replies and leases depend on; a
connection closed with replies unread may be dropped before its last lines are
read. `DaemonEnds` is a kill or a stop, the latter with a last line to everybody;
`DaemonStarts` is its successor, which knows no lease and no target. `held` and
`leased` are bags, like the vectors they stand for. stats and ping are rpc with
another line and are left out, and so is the client side of STOP, which
`DaemonLifecycle` has.
After a daemon has been replaced the client connects to the new one without
sending TARGET again, so its workers get proxies never tried against the target;
`TargetFirst` speaks of the time before.

`DaemonLifecycle` -- *starting and stopping daemons*. `pc` says where each process
is in main, recover_stale, run_server, graceful_stop or cmd_stop; the names are
`sock` (who bound it) and `pidName` (an inode, so that a pid file may be unlinked
while a process has it open and locked), `content` the pid in each inode. A lock
is held exactly at the places in `Locks`. One step is one system call on a name or
the lock, or one conversation with the daemon, which may fail to answer in time
(`Unanswered`). `Crash` kills a process anywhere: its socket becomes `Stale`, its
lock goes. `client` is one download process in connect_or_start with its two
spawns. The forks of daemonize_and_run are one process, the command's exit status
being what the daemon reports on the pipe. With `racing` commands overlap freely;
without it they come one at a time, while a daemon that has been told to stop may
still be on its way out. A start then meets that daemon at any of its steps, between
the unlocking and the unlinking of the pid file too: no lock of the code prevents it.
`excused`, `failure` and `crossed` are history: what went wrong while commands ran,
whether one of them failed, and whether, since all processes were last gone, a start
was between opening and locking the pid file while a daemon was between unlocking and
unlinking it. Nothing is guarded by `crossed`; it says where `LoneNamesHeld` and
`StopMeansGone` end and the run `successor` begins.

`MCProxyDaemon`, `MCDownloader`, `MCDaemonLifecycle` give TLC symmetry sets and small
ranges. `ProxyDaemonProofs`, `PlanProofs`, `DownloaderProofs`, `DownloadedPartsProofs`,
`ProbeLoopProofs`, `ProxyIpcProofs`, `ProxyAnswerProofs` and `DaemonLifecycleProofs` hold
the proofs. Operators under a comment "Mutant:" are faulty variants of the definition that follows
them. Nothing uses them: they stand in for the definition when one asks whether
a property would notice the fault (`mutants` in `PROJECT.json`).

## 3. The runs

Passing runs:

| Run | Instance | Shows |
|---|---|---|
| `leases` | the default set-up: 2 connections, 1 local and 1 public proxy with the cache on, pool of 2, rows die at the 1st failure, updates on; 1.2 M states | `LeaseExclusive`, `BusyIffLeased`, `RefreshKeepsLeases` and the inductive invariant `LeaseInv` in every interleaving of commands, hang-ups, refreshes, stop and restart, beside a local proxy that gets two rows |
| `liveness` | 2 connections, 2 public proxies, pool of 1, cache on, rows die at the 2nd failure; 134 k states, with fairness | `PoolBounded`; `PoolRowsUsable`; `RefreshKeepsLeases`; `HangUpReturnsLeases`; `StopFinishes`; `ImplementsLeases` |
| `probes` | 6 candidates, 5 of them local, 3 transfers at a time, 2 wanted; both loops | the counter follows the handles, no candidate is lost or left out without cause, the loops end |
| `replies` | plans of sizes 1 to 20 and arguments 1 to 12; then 5 bytes in chunks of 2, 2 workers, 2 proxies, given up after 2 proxies, any reply; 1.3 M states | `Partition`, `FairShares`; no chunk is lost or duplicated, workers leave at the end only, pipes and leases, resuming |
| `downloads` | 5 bytes cut by sizes and into pieces of 1, 2 and 3, the origin answers the direct connection, proxies may fail; 1.2 M states, with fairness | a saved file is the file; the download ends |
| `calls` | main thread, 2 workers, 1 proxy, up to 2 faults (reads that time out, one end of the daemon), other clients; 168 k states, with fairness | replies stay in step with requests, TARGET comes first, leases agree, calls return, leases of closed connections end |
| `lifecycle` | 2 processes, all commands, alone and racing, up to 2 kills; 2.4 M states | a ready daemon holds both names (commands one at a time, no start crossed with an end); starts succeed whatever was left behind; a stop removes nothing of a running daemon; an orderly end leaves nothing |

Runs in which TLC finds the code at odds with what the repository says of it
(`findings` in `PROJECT.json` quotes the sentences):

| Run | Property refuted | Why |
|---|---|---|
| `duplicates` | `BusyHasHolder` | default set-up: a local proxy that was cached has two rows, and release clears the first |
| `target` | `OnlyProbedRowsLeasable` | a refresh that installs after the probe of a TARGET has ended adds unprobed rows as passed |
| `errorbody` | `SavedIsWhole` | a part is complete when it is long enough, whatever was sent |
| `late` | `UsersHold` | an ACQUIRE that times out closes the connection that other threads' leases hang on |
| `successor` | `NamesHeld` | a daemon that ends unlocks the pid file before it unlinks it, and unlinks its successor's; one signal and one start suffice |

Seen while modelling, and not made into runs:

- Once a daemon has lost its pid file to its predecessor, more can go wrong though
  commands still come one at a time: a later stop reads no pid and may go on while the
  daemon is still closing, and the end of one daemon may take the socket of the next, so
  that starts and stops fail until somebody kills the daemon. `crossed` marks that time.
- cmd_stop unlinks both names after the old daemon has gone, when a new one may have
  made them. That needs `racing`, and refutes `NamesHeld` too.
- Two starts beside each other (`racing`) refute `NamesHeld` too: the second finds the
  socket unused just before the first binds it, and `recover_stale` removes its name
  afterwards (`proxchunkd.cpp:1066-1077`), so that a ready daemon cannot be reached.
- With `--direct` a chunk that keeps failing is requeued for ever, since only proxies
  tried count towards giving up (`Ends` fails without `OriginAnswers`); with proxies it
  is given up after 32 of them. `README.md` says "up to eight tries".
- `doc/proxchunkd.1` says that `--stop` sends SIGTERM to the pidfile if needed; the
  code no longer does, and says why (`proxchunkd.cpp:1050`).
- A download process that starts while a daemon is on its way out may use up both
  of its spawns before the names are free.

Bounds, and why they suffice. The counts are the smallest at which the cases
differ. A pool of one row for two public proxies (`liveness`) is full at once, so a
refresh in which both pass must cut, or keep a leased row that failed;
two failures separate a demotion from a death; two connections are needed for
two holders and suffice since every property speaks of at most two; in `leases` two
rows of the local proxy and one of the public one, when both are cached, compete for a
pool of two. `MinReuse` is 1
in place of 3, so that a cache can be reused by a pool of 1. `MaxSpeed` 1
has faster, slower and equal rows. In `leases` the first failure kills a
row, which keeps the run within its time; rows still come and go in every order, and
`liveness` has the demotion. Three chunks for two workers put one chunk
in the queue while two are in flight; `MaxProxies` 2 in place of 32 makes a
chunk be requeued and then given up. Six candidates for three places refill
twice, and five local ones exceed a first fill. In `replies` the plans are
explored for all sizes and arguments, the transfers for one of them only (the
state constraint `TransfersOfOneFile`), which uneven pieces make typical. In `calls`
two timeouts reach a late HELLO on a second connection and a third connection, and
a timeout beside an end of the daemon reaches every place where a reply is
outstanding when it goes; one proxy is enough for a lease that somebody else gets.
In `lifecycle` two processes are a daemon and a command, two commands, or two
daemons, a process id being used again once its process has gone; a killed daemon,
or a killed start and then a killed repair of what it left, is two kills. The
properties that do not depend on such bounds are proved where that was possible.
Deadlock is checked in every run: the models end in a loop of their own
(`Restart`, `Finished`, `Returned`) or in a state in which something can begin.

Symmetry is used for connections, workers, proxies and processes, in runs without
liveness.

Assumptions of the passing runs. `StrictClients`: a client releases only what it holds
on that connection, as the Downloader does over a connection that lasts. The first
cache file is absent or names no address twice. No daemon writes another for the
addresses in `Sole` (`UniqueCache`), but one that ran with other local lists may have
done so for an address that is in `Sole` now, and that address has the fate of
`duplicates`.
`downloads` assumes the origin answers the direct connection and
that every body is of the range asked for; `errorbody` drops the second. `LeasesAgree` speaks
of the time without a timeout, `InStep` allows one line for each. In `lifecycle` a
failure is excused if something timed out, failed to be set up, was killed or was
exiting meanwhile; a pid file that cannot be opened or written is left out.

Fairness. `ProxyDaemon`: the refresh thread and the poll thread run (weak
fairness); a transfer has a time limit and the updater sleeps in slices of
100 ms, so neither waits for ever. Each turn of the poll loop looks at the signal
and at every connection, so a connection that has hung up and a stop that has
been read are not passed over (strong fairness: the poll thread is busy in
between). Of the clients one thing is assumed: none sends lines so fast that the inner
loop that reads a connection (`proxchunkd.cpp:850`) never finds its buffer empty. They
need do nothing else. `ProbeLoop`: the thread runs, and no
transfer stays unfinished through infinitely many performs (CURLOPT_TIMEOUT). Its `Ends`
says nothing against a loop that ends too early; that is `LeavesOutOnlyWhenFull`, but for
the exit it excuses.
`ProxyIpc`: a thread in a call goes on, the daemon comes to every connection, and
a thread that wants `mu_` gets it at last (strong fairness: the other workers
transfer between calls and the keepalive thread sleeps 5 s, so it is free again
and again). No worker need ever call, no lease need ever be released, and no
daemon need ever be started again.
`Downloader`: threads run. No transfer is assumed to succeed, except the direct
one in `downloads`.

## 4. The proofs

TLAPS proves, for every value of the constants allowed by the named assumptions:

- `ProxyDaemonProofs`, in three layers. Lemmas say what each engine operation does to
  rows and busy flags (`ReleaseEffect`, `InstallEffect`, `VerifyEndEffect`, ...), first
  for any pool and then for one in which addresses are unique.
  - For any candidates and clients, `RowsInvariant`, from which `DaemonTyped` and
    `PoolStaysUsable` follow: a connection can be closed only with nothing held
    (`ClosedHoldNothing`, `DropsOpenConn`), and a restart comes only when no connection
    is open (`StoppedClosed`). `PoolStaysBounded`, for a finite set of addresses:
    install_tested alone may exceed max_keep for leased rows, but it leaves one leased
    row for each leased address, which had one before in a pool within the bound.
  - Also for any candidates and clients, `AddressesStayUnique`: an address in `Sole` has
    one row in the pool (`UniqueRows`) and one line in the cache (`UniqueCache`); each of
    the two needs the other, since a restart reads what was saved. `RefreshesKeepLeases`:
    a refresh leaves the set of leased addresses as it is, whatever rows they have, and
    the failures of a leased row if its address is in `Sole` (of two leased rows with one
    address it may keep the failures of either).
  - From `StrictClients`, `LeaseInvariant`: `LeaseInv` holds.
    Neither `LeaseExclusive` nor `BusyIffLeased` is inductive: release finds a row by its
    address, so the row that acquire leased is found again only if the address has one
    row. `LeasesAreExclusive` and `BusyRowsAreLeased` follow.
  - `DaemonImplementsLeases`, from the same: `Safety => Leases!Safety`, every step being
    a step of `LeaseService` or a stutter. An ACQUIRE or RELEASE of an address outside
    `Sole` is a stutter.
  No assumption is made about lists or cache, so the default set-up is covered; the
  theorems are silent about its local proxies only, for which `duplicates` refutes them.
- `ProbeLoopProofs`: `HandlesStayCounted`, the counter, the handles and the
  candidates agree for any number of candidates and any cap, in `ProbesTyped` also that
  the cap is kept. `NobodyLeftOut`: the loops stop adding only when full, and one with
  nothing attached has no candidate left or has stopped adding (`LeftOutInv`).
- `PlanProofs`: `PlansPartition`, for every size and argument. The loop invariant
  says where the next chunk starts as a function of the loop variable; the
  arithmetic is in `PiecesFit` and `PieceRange`. `PlansAreFair` adds that the pieces
  are those of PieceBounds (`LengthInv`), whose lengths `PieceLength` computes.
- `DownloaderProofs`, for every plan, any finite set of workers and any set of
  proxies:
  - `DownloadsPartition`, `DownloadsFair`: what is downloaded is a plan of `Plan`,
    every step of the Downloader being a step of `Plan` or leaving it alone, so
    `PlansPartition` and `PlansAreFair` carry over.
  - `PipesStayExclusive` and `LeasesReturned`. `WorkInv` ties a worker's place to what
    it has: a pipe exactly at the places `Piped`, a chunk exactly at `Holding`, and
    workers at work only between the start and the join. With it `PipesExclusive` is
    inductive.
  - `ChunksStayConserved` and `NobodyLeavesEarly`. `ChunkInv` adds that `inflight` is the
    number of workers at the places `Flying`, and that the queue, the hands and the
    counters add up. A worker that leaves has seen the queue empty and nothing in
    flight, so no hand has a chunk, and all of them are counted; and what is counted
    stays so.
- `DownloadedPartsProofs`, from the same assumptions, on what is written:
  - `PendingStayIncomplete` and `PartsNeverShrink`. A transfer appends, and its chunk
    is in one hand only (`ChunksConserved`), so no other pending chunk is touched.
  - `SavedFilesAreWhole`, if every body is of the range asked for (`OtherBodies = FALSE`;
    without that the `errorbody` run refutes the property). `Settled`: while nothing has been given up, a chunk that is
    neither queued nor in transfer has the bytes it wants. `Clean`: it has no others.
    `Counted`: the file is assembled only when all chunks are counted and none was
    given up. So none is pending, and each is complete.
  - `DownloadsTyped`: the type invariant; `TriedInv` bounds the proxies tried for a
    chunk, since one in the queue may be given to one more.
- `ProxyIpcProofs`, for any set of workers but the empty one, any proxies and any
  number of timeouts and ends of the daemon:
  - `CallsStayInStep`. `LockInv`: whoever has `mu_` is inside a call, alone, and
    workers run only after set_target. `LineInv`: a request adds a line and its read
    takes one or times out; a connection not made yet has no line on the way, and one
    whose HELLO is not answered has that line only (`OneHello`). Each connection after
    the first is paid for by a fault, and one is owed while a thread reconnects or the
    daemon is gone (`Owed`), so there are connections enough.
  - `IpcTyped`: the type invariant, by the same argument.
- `ProxyAnswerProofs`, from the same assumptions, on what an answer says:
  - `TargetComesFirst`. Until the daemon has carried out a TARGET only set_target and the
    keepalive thread read, no answer to a TARGET is on the way, and a HELLO is only while
    reconnect waits for it, which ends set_target if it fails (`TargetInv`). What else
    comes late answers a PING, which set_target does not take for success.
  - `ClientAndDaemonAgree`. Between two requests `LeasesAgree` compares two lists that a
    request changes at different moments, the daemon's when it is served and `held_` when
    its reply is read. `ExchangeInv` covers the time between: until a read times out
    there is at most one request on the way, or its reply, and the daemon's leases of
    the connection are `held_` before it is served and what the reader will make of
    `held_` after. `WorkersInv` adds, until a daemon has ended, that `held_` is the set of
    the proxies that workers use, no two the same one, and that a grant on its way is
    nobody's.
- `DaemonLifecycleProofs`, for any finite set of process ids and any number of kills:
  - `LifecycleTyped`: the type invariant; a new pid file finds a free inode because each
    process has one open at most (`FreeInodeExists`).
  - `NamesAreHeld`, `AnsweredStopMeansGone` and `NamesAreRemoved`, from `LoneInv`. With any
    overlap nobody shares a lock (`LockInv`) and a bound socket belongs to a process that
    serves, sets up or closes it (`SockBound`). With commands one at a time (`One`) and
    until a start crosses with an end (`Owned`), the file under the pid file's name is the
    one the owner has locked, so there is one owner, and a command that has found the
    names to be nobody's, or is setting up, has no daemon beside it (`Owner`); a daemon
    that answered a stop keeps its pid in the file until it has gone, so that is what the
    stop waits for (`Asked`). A start and the last step of an end, between unlocking and
    unlinking, are the only two that can cross. `NamesAreRemoved` does not need that: a
    name is left only while somebody is there who will remove it, or after a kill
    (`Left`), crossed or not.
  - `FailuresAreCaused`. While nothing excuses a failure, a stop has everything to itself
    and no start meets a daemon on its way out; a start that has looked at the socket
    leaves no stale one; and a start gives way only to a daemon that is ready or about to
    be, or to another start that is still trying (`Calm`). Without overlap it meets neither
    a lock nor a socket (`CalmLone`), so it does not fail at all.

Every invariant and every action property that a passing run checks is proved. Only
model-checked: what holds under fairness (`HangUpReturnsLeases`, `StopFinishes`, `Ends`,
`CallsReturn`, `LeasesEnd`, the fairness part of `ImplementsLeases`), since the prover
does not handle ENABLED and liveness. What the runs refute is
refuted on small instances only. The sum over all chunks (`AssembledSize`) is a fold; no
theorem needs its value.

## 5. What is left, in order

1. The calls of a `ProxyIpc` client as a refinement of the lease service, and the
   Downloader's lease steps as those of such a client.
2. A kill of the daemon in `ProxyDaemon` while the cache file is being rewritten.
3. Which weaker lease properties hold for an address with two rows: how many leases of
   it a history can leak.

Not planned: the prompt's line parser, the size probes, the GUI and the scripts.
They are sequential string handling, or start the program and wait.
