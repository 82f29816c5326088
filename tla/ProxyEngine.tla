----------------------------- MODULE ProxyEngine -----------------------------
(***************************************************************************)
(* The scored proxy pool of proxchunkd (src/proxy_engine.cpp).             *)
(*                                                                         *)
(* The code keeps a vector of rows sorted by falling speed, guarded by one *)
(* mutex.  The vector is modelled as a set of rows (the domain of pool)    *)
(* and the position of each (rank).  Every operation that changes a row    *)
(* but for its lease sorts again before it unlocks; std::sort leaves rows  *)
(* of equal speed in no known order, so a sort picks any such rank.        *)
(*                                                                         *)
(* Nothing in the code makes the address of a row unique.  A row is named  *)
(* by its address and the copy of that address it was tested from: copy i  *)
(* is the i-th entry of the local list (Tor, --proxy, proxies.txt), the    *)
(* copies after these are the lines of the cache file or, the first of     *)
(* them, the entry of the deduplicated public list.                        *)
(*                                                                         *)
(* This module has the engine's state, its operations, and the steps of    *)
(* its refresh thread.  ProxyDaemon calls the operations.                  *)
(***************************************************************************)
EXTENDS Naturals, Sequences, FiniteSets

CONSTANTS
    Address,    \* proxy URLs
    LocalList,  \* local_proxy_urls(): cfg_.extra_proxies and the Tor URLs
    Public,     \* URLs the public lists may serve
    MaxKeep,    \* cfg_.max_keep
    MaxSpeed,   \* speeds are the levels 0 .. MaxSpeed
    DeadAt,     \* failures in a row that kill a row (4 in the code)
    MinReuse,   \* live cached rows a cache reuse needs (3 in the code)
    UseCache,   \* cfg_.use_cache
    Updates     \* cfg_.refresh_sec > 0

ASSUME EngineAssumption ==
    /\ LocalList \in Seq(Address)
    /\ Public \subseteq Address
    /\ MaxKeep \in Nat \ {0}
    /\ MaxSpeed \in Nat \ {0}
    /\ DeadAt \in Nat \ {0}
    /\ MinReuse \in Nat
    /\ UseCache \in BOOLEAN
    /\ Updates \in BOOLEAN

VARIABLES
    pool,          \* pool_: the rows present, with their fields
    rank,          \* their positions in the vector
    target_filter, \* target_filter_: a TARGET has been set
    warming,       \* warming_
    stop_flag,     \* stop_flag_
    refresher,     \* where the refresh (later the updater) thread is
    cache          \* the cache file: how many lines each address has

engineVars == <<pool, rank, target_filter, warming, stop_flag, refresher, cache>>

Speed == 0 .. MaxSpeed
RowId == Address \X (1 .. Len(LocalList) + MaxKeep)
AddressOf(r) == r[1]

Row == [speed : Speed, fails : 0 .. DeadAt, alive : BOOLEAN,
        busy : BOOLEAN, target_ok : BOOLEAN]

RefresherState == {"cache", "cacheTest", "cacheInstall", "list", "listTest",
                   "listInstall", "save", "roundEnd", "sleep", "done"}

EngineTypeOK ==
    /\ DOMAIN pool \subseteq RowId
    /\ pool \in [DOMAIN pool -> Row]
    /\ rank \in [DOMAIN pool -> Nat]
    /\ target_filter \in BOOLEAN
    /\ warming \in BOOLEAN
    /\ stop_flag \in BOOLEAN
    /\ refresher \in RefresherState
    /\ cache \in [Address -> Nat]

----------------------------------------------------------------------------
(* The pool under its mutex. *)

RowsOf(url) == {r \in DOMAIN pool : AddressOf(r) = url}
BusyRows == {r \in DOMAIN pool : pool[r].busy}

\* What std::sort may make of the rows of p.
SortedRanks(p) ==
    {f \in [DOMAIN p -> 1 .. Cardinality(DOMAIN p)] :
        \A r, s \in DOMAIN p :
            /\ f[r] = f[s] => r = s
            /\ p[r].speed > p[s].speed => f[r] < f[s]}

Sort == rank' \in SortedRanks(pool')

\* The first of the rows S of the vector.
First(S) == {r \in S : \A s \in S : rank[r] <= rank[s]}

\* Mutant: a leased row may be leased again.
LeasableBusy(r) ==
    /\ pool[r].alive
    /\ pool[r].fails < DeadAt
    /\ target_filter => pool[r].target_ok

Leasable(r) ==
    /\ pool[r].alive
    /\ ~pool[r].busy
    /\ pool[r].fails < DeadAt
    /\ target_filter => pool[r].target_ok

\* acquire: the first leasable row outside skip, else the first leasable one.
Pickable(skip) ==
    LET free      == {r \in DOMAIN pool : Leasable(r)}
        unskipped == {r \in free : AddressOf(r) \notin skip}
    IN  First(IF unskipped # {} THEN unskipped ELSE free)

Lease(r) ==
    /\ pool' = [pool EXCEPT ![r].busy = TRUE]
    /\ UNCHANGED rank

\* Mutant: the average is not divided.
EmaUnscaled(old, mbps) == IF mbps > 0 THEN 7 * old + 3 * mbps ELSE old

Ema(old, mbps) == IF mbps > 0 THEN (7 * old + 3 * mbps) \div 10 ELSE old

\* Mutant: a row dies one failure late.
ReleasedLate(row, success, mbps) ==
    IF success
    THEN [row EXCEPT !.busy = FALSE, !.fails = 0, !.alive = TRUE,
                     !.speed = Ema(row.speed, mbps)]
    ELSE [row EXCEPT !.busy = FALSE, !.fails = row.fails + 1,
                     !.speed = row.speed \div 4,
                     !.alive = row.alive /\ row.fails < DeadAt]

\* release, the fields of the row it finds.
Released(row, success, mbps) ==
    IF success
    THEN [row EXCEPT !.busy = FALSE, !.fails = 0, !.alive = TRUE,
                     !.speed = Ema(row.speed, mbps)]
    ELSE [row EXCEPT !.busy = FALSE, !.fails = row.fails + 1,
                     !.speed = row.speed \div 4,
                     !.alive = row.alive /\ row.fails + 1 < DeadAt]

ReleaseRow(r, success, mbps) ==
    LET row  == Released(pool[r], success, mbps)
        stay == IF row.alive THEN DOMAIN pool ELSE DOMAIN pool \ {r}
    IN  pool' = [s \in stay |-> IF s = r THEN row ELSE pool[s]]

\* release: the first row with this address, whoever leased it and whether
\* or not it is leased.  The sort comes after, found or not.
Release(url, success, mbps) ==
    /\ \/ RowsOf(url) = {} /\ UNCHANGED pool
       \/ \E r \in First(RowsOf(url)) : ReleaseRow(r, success, mbps)
    /\ Sort

----------------------------------------------------------------------------
(* install_tested: replace the pool by the rows that passed a scoring run. *)

LeasedAddresses == {AddressOf(r) : r \in BusyRows}

\* old_busy.emplace keeps the first leased row of each address.
OldBusy == {f \in [LeasedAddresses -> BusyRows] :
                \A a \in LeasedAddresses :
                    f[a] \in First(BusyRows \cap RowsOf(a))}

\* The first tested row of each leased address, and so a fastest one, takes
\* the lease over.
Heirs(tested, a) ==
    LET rows == {t \in DOMAIN tested : AddressOf(t) = a}
    IN  {t \in rows : \A u \in rows : tested[u] <= tested[t]}

HeirChoices(tested) ==
    LET inherited == LeasedAddresses \cap {AddressOf(t) : t \in DOMAIN tested}
    IN  {f \in [inherited -> DOMAIN tested] :
            \A a \in inherited : f[a] \in Heirs(tested, a)}

\* Mutant: the tested rows forget the leases of the rows they replace.
MergedForgetful(tested, old, heir) ==
    [r \in DOMAIN tested |->
        [speed |-> tested[r], fails |-> 0, alive |-> TRUE, busy |-> FALSE,
         target_ok |-> TRUE]]

\* Mutant: a leased row that is tested again starts without failures.
MergedForgiving(tested, old, heir) ==
    LET orphans == {old[a] : a \in LeasedAddresses \ DOMAIN heir}
        heirs   == {heir[a] : a \in DOMAIN heir}
    IN  [r \in DOMAIN tested \cup orphans |->
            IF r \in DOMAIN tested
            THEN [speed |-> tested[r], fails |-> 0, alive |-> TRUE,
                  busy |-> r \in heirs, target_ok |-> TRUE]
            ELSE pool[r]]

\* The tested rows, and the leased rows no test speaks for.
Merged(tested, old, heir) ==
    LET orphans == {old[a] : a \in LeasedAddresses \ DOMAIN heir}
        heirs   == {heir[a] : a \in DOMAIN heir}
    IN  [r \in DOMAIN tested \cup orphans |->
            IF r \in DOMAIN tested
            THEN [speed     |-> tested[r],
                  fails     |-> IF r \in heirs
                                THEN pool[old[AddressOf(r)]].fails ELSE 0,
                  alive     |-> TRUE,
                  busy      |-> r \in heirs,
                  target_ok |-> TRUE]
            ELSE pool[r]]

\* Mutant: the vector is not cut to max_keep.
KeptAll(m, keep) == keep = DOMAIN m

\* The two loops that fill kept: every leased row, then the fastest others
\* while there are fewer than MaxKeep rows.
Kept(m, keep) ==
    LET leased == {r \in DOMAIN m : m[r].busy}
    IN  /\ leased \subseteq keep
        /\ keep # leased => Cardinality(keep) <= MaxKeep
        /\ keep # DOMAIN m => Cardinality(keep) >= MaxKeep
        /\ \A r \in keep \ leased, s \in DOMAIN m \ keep :
               m[s].speed <= m[r].speed

Install(tested) ==
    /\ \E old \in OldBusy, heir \in HeirChoices(tested) :
           LET m == Merged(tested, old, heir)
           IN  \E keep \in SUBSET DOMAIN m :
                   /\ Kept(m, keep)
                   /\ pool' = [r \in keep |-> m[r]]
    /\ Sort

----------------------------------------------------------------------------
(* verify_target: two critical sections around unlocked Range probes. *)

LiveAddresses == {AddressOf(r) : r \in {s \in DOMAIN pool : pool[s].alive}}

VerifyBegin ==
    /\ target_filter' = TRUE
    /\ pool' = [r \in DOMAIN pool |-> [pool[r] EXCEPT !.target_ok = FALSE]]
    /\ UNCHANGED rank

\* ok_speed: the addresses that answered 200 or 206, with their speed.
VerifyEnd(ok_speed) ==
    /\ pool' = [r \in DOMAIN pool |->
                   IF AddressOf(r) \in DOMAIN ok_speed
                   THEN [pool[r] EXCEPT !.target_ok = TRUE, !.fails = 0,
                                        !.alive = TRUE,
                                        !.speed = ok_speed[AddressOf(r)]]
                   ELSE [pool[r] EXCEPT !.target_ok = FALSE]]
    /\ Sort

----------------------------------------------------------------------------
(* The refresh thread, then the updater it starts: they never overlap. *)

LocalRows == {<<LocalList[i], i>> : i \in 1 .. Len(LocalList)}
PublicRows == {<<a, Len(LocalList) + 1>> : a \in Public}
CachedRows == {r \in RowId : r[2] \in Len(LocalList) + 1 .. Len(LocalList) + cache[r[1]]}

\* What a scoring run may return: any of the candidates, at any speed above
\* the floor.
TestResults(candidates) ==
    UNION {[S -> 1 .. MaxSpeed] : S \in SUBSET candidates}

\* Mutant: the file is appended to, not rewritten.
SaveCacheAppend ==
    cache' = [a \in Address |->
                 cache[a] + Cardinality({r \in RowsOf(a) : pool[r].alive})]

\* save_cache: an empty pool leaves the file alone.
SaveCache ==
    cache' = IF ~UseCache \/ DOMAIN pool = {} THEN cache
             ELSE [a \in Address |->
                      Cardinality({r \in RowsOf(a) : pool[r].alive})]

RefresherStep(from, to) ==
    /\ refresher = from
    /\ refresher' = to

\* try_reuse_cache, up to its scoring run.
CacheBegin ==
    /\ RefresherStep("cache",
          IF stop_flag THEN "roundEnd"
          ELSE IF UseCache /\ Cardinality(CachedRows) >= MaxKeep
          THEN "cacheTest" ELSE "list")
    /\ UNCHANGED <<pool, rank, target_filter, warming, stop_flag, cache>>

CacheTested ==
    /\ RefresherStep("cacheTest",
                     IF stop_flag THEN "roundEnd" ELSE "cacheInstall")
    /\ UNCHANGED <<pool, rank, target_filter, warming, stop_flag, cache>>

\* The best MaxKeep results are installed when there are enough of them.
CacheInstall ==
    \E tested \in TestResults(LocalRows \cup CachedRows) :
        /\ Cardinality(DOMAIN tested) <= MaxKeep
        /\ IF Cardinality(DOMAIN tested) < MinReuse
           THEN RefresherStep("cacheInstall", "list") /\ UNCHANGED <<pool, rank>>
           ELSE RefresherStep("cacheInstall", "save") /\ Install(tested)
        /\ UNCHANGED <<target_filter, warming, stop_flag, cache>>

\* refresh: fetch the lists; with no candidate at all it returns at once.
ListFetched ==
    /\ \/ RefresherStep("list", IF stop_flag THEN "roundEnd" ELSE "listTest")
       \/ LocalList = <<>> /\ RefresherStep("list", "roundEnd")
    /\ UNCHANGED <<pool, rank, target_filter, warming, stop_flag, cache>>

ListTested ==
    /\ RefresherStep("listTest",
                     IF stop_flag THEN "roundEnd" ELSE "listInstall")
    /\ UNCHANGED <<pool, rank, target_filter, warming, stop_flag, cache>>

ListInstall ==
    /\ RefresherStep("listInstall", "save")
    /\ \E tested \in TestResults(LocalRows \cup PublicRows) : Install(tested)
    /\ UNCHANGED <<target_filter, warming, stop_flag, cache>>

RefreshSave ==
    /\ RefresherStep("save", "roundEnd")
    /\ SaveCache
    /\ UNCHANGED <<pool, rank, target_filter, warming, stop_flag>>

RoundEnd ==
    /\ RefresherStep("roundEnd",
                     IF Updates /\ ~stop_flag THEN "sleep" ELSE "done")
    /\ warming' = FALSE
    /\ UNCHANGED <<pool, rank, target_filter, stop_flag, cache>>

\* The updater wakes for a refresh, or within 100 ms of a stop.
Wake ==
    /\ RefresherStep("sleep", IF stop_flag THEN "done" ELSE "list")
    /\ UNCHANGED <<pool, rank, target_filter, warming, stop_flag, cache>>

RefreshThread ==
    \/ CacheBegin \/ CacheTested \/ CacheInstall
    \/ ListFetched \/ ListTested \/ ListInstall
    \/ RefreshSave \/ RoundEnd \/ Wake

\* A process that has just called start(), with a file that names no address
\* twice.  A file that does comes from an earlier run: see Restart.
EngineInit ==
    /\ pool = [r \in {} |-> r]
    /\ rank = [r \in {} |-> r]
    /\ target_filter = FALSE
    /\ warming = TRUE
    /\ stop_flag = FALSE
    /\ refresher = "cache"
    /\ cache \in [Address -> IF UseCache THEN 0 .. 1 ELSE {0}]

=============================================================================
