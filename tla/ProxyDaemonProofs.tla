-------------------------- MODULE ProxyDaemonProofs --------------------------
(***************************************************************************)
(* Proofs about ProxyDaemon, for every set of addresses and connections,   *)
(* every max_keep, speed range and failure limit.                          *)
(*                                                                         *)
(* Three layers, each an invariant of its own:                             *)
(*   RowsInv, whatever the candidates and the clients: the rows are usable *)
(*     and the connections open and close in order;                        *)
(*   UniqueInv, likewise: an address that candidates cannot name twice     *)
(*     (Sole) names one row, whatever rows other addresses have;           *)
(*   LeaseInv, if clients release only what they hold: the row that        *)
(*     release finds by such an address is the one acquire leased, so      *)
(*     busy rows and leases correspond.                                    *)
(* A refresh replaces the pool but carries exactly the leased addresses    *)
(* over.                                                                   *)
(***************************************************************************)
EXTENDS ProxyDaemon, FiniteSetTheorems, TLAPS

USE EngineAssumption, DaemonAssumption

----------------------------------------------------------------------------
(* The operations of the engine. *)

\* Speeds and failure counts stay in range when a row is released.
LEMMA ReleasedType ==
    ASSUME NEW row \in Row, NEW success \in BOOLEAN, NEW mbps \in Speed,
           row.fails < DeadAt
    PROVE  Released(row, success, mbps) \in Row
  <1>1. Ema(row.speed, mbps) \in Speed
    BY DEF Ema, Speed, Row
  <1>2. row.speed \div 4 \in Speed
    BY DEF Speed, Row
  <1>3. row.fails + 1 \in 0 .. DeadAt
    BY DEF Row
  <1>4. CASE success
    <2>1. Released(row, success, mbps) =
              [speed |-> Ema(row.speed, mbps), fails |-> 0, alive |-> TRUE,
               busy |-> FALSE, target_ok |-> row.target_ok]
      BY <1>4 DEF Released, Row
    <2> QED
      BY <1>1, <2>1 DEF Row
  <1>5. CASE ~success
    <2>1. Released(row, success, mbps) =
              [speed |-> row.speed \div 4, fails |-> row.fails + 1,
               alive |-> (row.alive /\ row.fails + 1 < DeadAt),
               busy |-> FALSE, target_ok |-> row.target_ok]
      BY <1>5 DEF Released, Row
    <2>2. (row.alive /\ row.fails + 1 < DeadAt) \in BOOLEAN
      OBVIOUS
    <2> QED
      BY <1>2, <1>3, <2>1, <2>2 DEF Row
  <1> QED
    BY <1>4, <1>5

\* The part of the invariant that speaks of the pool alone.
PoolOK ==
    /\ DOMAIN pool \subseteq RowId
    /\ pool \in [DOMAIN pool -> Row]
    /\ PoolRowsUsable

BusyAt(a) == \E r \in RowsOf(a) : pool[r].busy

\* A sort gives every row a position.
LEMMA SortRanks ==
    ASSUME Sort PROVE rank' \in [DOMAIN pool' -> Nat]
  <1> DEFINE n == Cardinality(DOMAIN pool')
  <1>1. rank' \in [DOMAIN pool' -> 1 .. n]
    BY Zenon DEF Sort, SortedRanks
  <1>2. \A x \in 1 .. n : x \in Nat
    OBVIOUS
  <1> HIDE DEF n
  <1> QED
    BY <1>1, <1>2

\* acquire leases a free row, and only its address becomes busy: it was not,
\* if it can have no other row.
LEMMA LeaseEffect ==
    ASSUME PoolOK, NEW skip, NEW r \in Pickable(skip), Lease(r)
    PROVE  /\ PoolOK'
           /\ AddressOf(r) \in Address
           /\ DOMAIN pool' = DOMAIN pool
           /\ UniqueRows /\ AddressOf(r) \in Sole => ~BusyAt(AddressOf(r))
           /\ BusyAt(AddressOf(r))'
           /\ \A a : a # AddressOf(r) => (BusyAt(a)' <=> BusyAt(a))
  <1>1. r \in DOMAIN pool /\ Leasable(r)
    BY DEF Pickable, First
  <1>2. AddressOf(r) \in Address
    BY <1>1 DEF PoolOK, RowId, AddressOf
  <1>3. pool' = [s \in DOMAIN pool |-> IF s = r THEN [pool[r] EXCEPT !.busy = TRUE]
                                       ELSE pool[s]]
    BY <1>1 DEF Lease, PoolOK
  <1>4. DOMAIN pool' = DOMAIN pool
    BY <1>3
  <1>5. \A s \in DOMAIN pool : /\ pool'[s] \in Row
                               /\ pool'[s].alive = pool[s].alive
                               /\ pool'[s].fails = pool[s].fails
                               /\ pool'[s].busy = (s = r \/ pool[s].busy)
    BY <1>1, <1>3 DEF PoolOK, Row
  <1>6. PoolOK'
    BY <1>3, <1>4, <1>5 DEF PoolOK, PoolRowsUsable
  <1>7. ASSUME UniqueRows, AddressOf(r) \in Sole PROVE ~BusyAt(AddressOf(r))
    <2>1. \A s \in DOMAIN pool : AddressOf(s) = AddressOf(r) => s = r
      BY <1>1, <1>7 DEF UniqueRows
    <2> QED
      BY <1>1, <2>1 DEF BusyAt, RowsOf, Leasable
  <1>8. BusyAt(AddressOf(r))'
    BY <1>1, <1>4, <1>5 DEF BusyAt, RowsOf
  <1>9. \A a : a # AddressOf(r) => (BusyAt(a)' <=> BusyAt(a))
    BY <1>4, <1>5 DEF BusyAt, RowsOf
  <1> QED
    BY <1>2, <1>4, <1>6, <1>7, <1>8, <1>9

\* release frees a row of its address, so none stays busy if there can be only
\* one, and no other row.
LEMMA ReleaseEffect ==
    ASSUME PoolOK, NEW url \in Address, NEW success \in BOOLEAN,
           NEW mbps \in Speed, Release(url, success, mbps)
    PROVE  /\ PoolOK'
           /\ rank' \in [DOMAIN pool' -> Nat]
           /\ DOMAIN pool' \subseteq DOMAIN pool
           /\ UniqueRows /\ url \in Sole => ~BusyAt(url)'
           /\ \A a : a # url => (BusyAt(a)' <=> BusyAt(a))
  <1>0. rank' \in [DOMAIN pool' -> Nat]
    BY SortRanks DEF Release
  <1>1. CASE RowsOf(url) = {} /\ UNCHANGED pool
    <2>1. PoolOK'
      BY <1>1 DEF PoolOK, PoolRowsUsable
    <2>2. \A a : BusyAt(a)' <=> BusyAt(a)
      BY <1>1 DEF BusyAt, RowsOf
    <2>3. ~BusyAt(url)'
      BY <1>1 DEF BusyAt, RowsOf
    <2> QED
      BY <1>0, <1>1, <2>1, <2>2, <2>3
  <1>2. CASE \E r \in First(RowsOf(url)) : ReleaseRow(r, success, mbps)
    <2>1. PICK r \in First(RowsOf(url)) : ReleaseRow(r, success, mbps)
      BY <1>2
    <2>2. r \in DOMAIN pool /\ AddressOf(r) = url
      BY DEF First, RowsOf
    <2> DEFINE row == Released(pool[r], success, mbps)
               stay == IF row.alive THEN DOMAIN pool ELSE DOMAIN pool \ {r}
    <2>3. pool' = [s \in stay |-> IF s = r THEN row ELSE pool[s]]
      BY <2>1 DEF ReleaseRow
    <2>4. row \in Row
      BY <2>2, ReleasedType DEF PoolOK, PoolRowsUsable
    <2>5. ~row.busy
      BY <2>2 DEF Released, PoolOK, Row
    <2>6. row.alive => row.fails < DeadAt
      <3>1. CASE success
        BY <2>2, <3>1 DEF Released, PoolOK, Row
      <3>2. CASE ~success
        BY <2>2, <3>2 DEF Released, PoolOK, Row
      <3> QED
        BY <3>1, <3>2
    <2> HIDE DEF row
    <2>7. stay \subseteq DOMAIN pool /\ (r \in stay => row.alive)
      OBVIOUS
    <2> HIDE DEF stay
    <2>8. DOMAIN pool' = stay
      BY <2>3
    <2>9. \A s \in stay : pool'[s] = IF s = r THEN row ELSE pool[s]
      BY <2>3
    <2>10. PoolOK'
      BY <2>3, <2>4, <2>6, <2>7, <2>8, <2>9 DEF PoolOK, PoolRowsUsable
    <2>11. UniqueRows /\ url \in Sole => ~BusyAt(url)'
      BY <2>2, <2>5, <2>7, <2>8, <2>9 DEF BusyAt, RowsOf, UniqueRows
    <2>12. \A s \in DOMAIN pool : s # r => s \in stay
      BY DEF stay
    <2>13. \A a : a # url => (BusyAt(a)' <=> BusyAt(a))
      BY <2>2, <2>7, <2>8, <2>9, <2>12 DEF BusyAt, RowsOf
    <2> QED
      BY <1>0, <2>7, <2>8, <2>10, <2>11, <2>13
  <1> QED
    BY <1>1, <1>2 DEF Release

\* A set of rows that names no address of A twice.
UniqueIds(C, A) ==
    \A r, s \in C : AddressOf(r) = AddressOf(s) /\ AddressOf(r) \in A => r = s

\* Every leased row has a leased successor, with its failures if its address
\* can have no other row.
KeepsFails ==
    \A r \in BusyRows :
        AddressOf(r) \in Sole =>
            \E s \in BusyRows' : /\ AddressOf(s) = AddressOf(r)
                                 /\ pool'[s].fails = pool[r].fails

\* install_tested carries exactly the leased addresses over, each on one row
\* and, if it had only one before, with its failures.
LEMMA InstallEffect ==
    ASSUME PoolOK, NEW C, C \subseteq RowId,
           NEW tested \in TestResults(C), Install(tested)
    PROVE  /\ PoolOK'
           /\ rank' \in [DOMAIN pool' -> Nat]
           /\ \A a : BusyAt(a)' <=> BusyAt(a)
           /\ UniqueIds(BusyRows', Address)
           /\ UniqueIds(C, Sole) => UniqueRows'
           /\ UniqueRows => KeepsFails
  <1> DEFINE T == DOMAIN tested
             L == LeasedAddresses
  <1>1. T \subseteq C /\ tested \in [T -> 1 .. MaxSpeed]
    BY DEF TestResults
  <1>2. PICK old \in OldBusy, heir \in HeirChoices(tested) :
           \E keep \in SUBSET DOMAIN Merged(tested, old, heir) :
              /\ Kept(Merged(tested, old, heir), keep)
              /\ pool' = [r \in keep |-> Merged(tested, old, heir)[r]]
    BY Zenon DEF Install
  <1> DEFINE m == Merged(tested, old, heir)
             heirs == {heir[a] : a \in DOMAIN heir}
             orphans == {old[a] : a \in L \ DOMAIN heir}
  <1>3. PICK keep \in SUBSET DOMAIN m :
           Kept(m, keep) /\ pool' = [r \in keep |-> m[r]]
    BY <1>2
  <1>4. \A a \in L : /\ old[a] \in DOMAIN pool
                     /\ pool[old[a]].busy
                     /\ AddressOf(old[a]) = a
    BY DEF OldBusy, First, RowsOf, BusyRows
  <1>5. /\ \A a \in DOMAIN heir : /\ a \in L
                                  /\ heir[a] \in T
                                  /\ AddressOf(heir[a]) = a
        /\ \A t \in T : AddressOf(t) \in L => AddressOf(t) \in DOMAIN heir
    BY DEF HeirChoices, Heirs
  <1>6. m = [r \in T \cup orphans |->
                IF r \in T
                THEN [speed |-> tested[r],
                      fails |-> IF r \in heirs THEN pool[old[AddressOf(r)]].fails
                                ELSE 0,
                      alive |-> TRUE, busy |-> r \in heirs, target_ok |-> TRUE]
                ELSE pool[r]]
    BY Zenon DEF Merged
  <1> HIDE DEF m, heirs, orphans, T, L
  <1>7. DOMAIN m = T \cup orphans
    BY <1>6
  <1>8. \A r \in heirs : r \in T /\ AddressOf(r) \in L
    BY <1>5 DEF heirs
  <1>9. \A r \in T : m[r] \in Row /\ m[r].alive /\ m[r].fails < DeadAt
    <2> SUFFICES ASSUME NEW r \in T
                 PROVE  m[r] \in Row /\ m[r].alive /\ m[r].fails < DeadAt
      OBVIOUS
    <2> DEFINE f == IF r \in heirs THEN pool[old[AddressOf(r)]].fails ELSE 0
    <2>1. f \in 0 .. DeadAt /\ f < DeadAt
      BY <1>4, <1>8 DEF PoolOK, PoolRowsUsable, Row
    <2>2. tested[r] \in Speed
      BY <1>1 DEF Speed
    <2>3. m[r] = [speed |-> tested[r], fails |-> f, alive |-> TRUE,
                  busy |-> r \in heirs, target_ok |-> TRUE]
      BY <1>6
    <2>4. (r \in heirs) \in BOOLEAN
      OBVIOUS
    <2> HIDE DEF f
    <2> QED
      BY <2>1, <2>2, <2>3, <2>4 DEF Row
  <1>10. \A r \in T : m[r].busy <=> r \in heirs
    BY <1>6
  <1>11. \A r \in T : r \in heirs => m[r].fails = pool[old[AddressOf(r)]].fails
    BY <1>6
  <1>12. \A r \in orphans : /\ r \in DOMAIN pool /\ pool[r].busy
                            /\ AddressOf(r) \in L /\ AddressOf(r) \notin DOMAIN heir
                            /\ r = old[AddressOf(r)]
                            /\ r \notin T /\ m[r] = pool[r]
    <2> SUFFICES ASSUME NEW a \in L \ DOMAIN heir
                 PROVE  /\ old[a] \in DOMAIN pool /\ pool[old[a]].busy
                        /\ AddressOf(old[a]) = a /\ old[a] \notin T
                        /\ m[old[a]] = pool[old[a]]
      BY DEF orphans
    <2>1. old[a] \notin T
      BY <1>4, <1>5
    <2> QED
      BY <1>4, <1>6, <2>1 DEF orphans
  <1>13. DOMAIN pool' = keep /\ keep \subseteq T \cup orphans
         /\ \A r \in keep : pool'[r] = m[r]
    BY <1>3, <1>7
  <1>14. \A r \in T \cup orphans : m[r].busy => r \in keep
    BY <1>3, <1>7 DEF Kept
  <1>15. PoolOK'
    <2>1. \A r \in keep : /\ r \in RowId /\ m[r] \in Row
                          /\ m[r].alive /\ m[r].fails < DeadAt
      BY <1>1, <1>9, <1>12, <1>13 DEF PoolOK, PoolRowsUsable
    <2>2. pool' \in [DOMAIN pool' -> Row]
      BY <1>3, <1>13, <2>1
    <2> QED
      BY <1>13, <2>1, <2>2 DEF PoolOK, PoolRowsUsable
  <1>16. ASSUME UniqueIds(C, Sole) PROVE UniqueRows'
    BY <1>1, <1>5, <1>12, <1>13, <1>16 DEF UniqueIds, UniqueRows
  <1>17. \A r \in heirs : r = heir[AddressOf(r)] /\ AddressOf(r) \in DOMAIN heir
    BY <1>5 DEF heirs
  <1>18. UniqueIds(BusyRows', Address)
    <2>1. \A r \in BusyRows' : r \in heirs \/ r \in orphans
      BY <1>10, <1>13 DEF BusyRows
    <2> QED
      BY <1>12, <1>17, <2>1 DEF UniqueIds
  <1>19. \A a \in L :
            \E s \in DOMAIN pool' : /\ AddressOf(s) = a
                                    /\ pool'[s].busy
                                    /\ pool'[s].fails = pool[old[a]].fails
    <2> SUFFICES ASSUME NEW a \in L
                 PROVE \E s \in DOMAIN pool' : /\ AddressOf(s) = a
                                               /\ pool'[s].busy
                                               /\ pool'[s].fails = pool[old[a]].fails
      OBVIOUS
    <2>1. CASE a \in DOMAIN heir
      <3>1. heir[a] \in heirs /\ heir[a] \in T /\ AddressOf(heir[a]) = a
        BY <1>5, <2>1 DEF heirs
      <3>2. m[heir[a]].busy /\ m[heir[a]].fails = pool[old[a]].fails
        BY <1>10, <1>11, <3>1
      <3> QED
        BY <1>13, <1>14, <3>1, <3>2
    <2>2. CASE a \notin DOMAIN heir
      <3>1. old[a] \in orphans
        BY <2>2 DEF orphans
      <3>2. m[old[a]] = pool[old[a]] /\ pool[old[a]].busy /\ AddressOf(old[a]) = a
        BY <1>4, <1>12, <3>1
      <3> QED
        BY <1>13, <1>14, <3>1, <3>2
    <2> QED
      BY <2>1, <2>2
  <1>20. ASSUME UniqueRows PROVE KeepsFails
    <2> SUFFICES ASSUME NEW r \in BusyRows, AddressOf(r) \in Sole
                 PROVE  \E s \in BusyRows' : /\ AddressOf(s) = AddressOf(r)
                                             /\ pool'[s].fails = pool[r].fails
      BY DEF KeepsFails
    <2>1. old[AddressOf(r)] = r /\ AddressOf(r) \in L
      BY <1>4, <1>20 DEF UniqueRows, BusyRows, L, LeasedAddresses
    <2> QED
      BY <1>19, <2>1 DEF BusyRows
  <1>21. \A a : BusyAt(a)' => BusyAt(a)
    <2> SUFFICES ASSUME NEW s \in keep, m[s].busy
                 PROVE  BusyAt(AddressOf(s))
      BY <1>13 DEF BusyAt, RowsOf
    <2>1. AddressOf(s) \in L
      BY <1>8, <1>10, <1>12, <1>13
    <2> QED
      BY <1>4, <2>1 DEF BusyAt, RowsOf
  <1>22. \A a : BusyAt(a) => BusyAt(a)'
    <2>1. \A a : BusyAt(a) => a \in L
      BY DEF BusyAt, RowsOf, BusyRows, L, LeasedAddresses
    <2> QED
      BY <1>19, <2>1 DEF BusyAt, RowsOf
  <1>23. rank' \in [DOMAIN pool' -> Nat]
    BY SortRanks DEF Install
  <1> QED
    BY <1>15, <1>16, <1>18, <1>20, <1>21, <1>22, <1>23

\* verify_target changes no lease, in either critical section.
LEMMA VerifyBeginEffect ==
    ASSUME PoolOK, VerifyBegin
    PROVE  PoolOK' /\ DOMAIN pool' = DOMAIN pool
           /\ \A a : BusyAt(a)' <=> BusyAt(a)
  <1>1. DOMAIN pool' = DOMAIN pool
    BY DEF VerifyBegin
  <1>2. \A r \in DOMAIN pool : /\ pool'[r] \in Row
                               /\ pool'[r].busy = pool[r].busy
                               /\ pool'[r].alive = pool[r].alive
                               /\ pool'[r].fails = pool[r].fails
    BY DEF VerifyBegin, PoolOK, Row
  <1>3. pool' \in [DOMAIN pool' -> Row]
    BY <1>1, <1>2 DEF VerifyBegin
  <1>4. PoolOK'
    BY <1>1, <1>2, <1>3 DEF PoolOK, PoolRowsUsable
  <1> QED
    BY <1>1, <1>2, <1>4 DEF BusyAt, RowsOf

LEMMA VerifyEndEffect ==
    ASSUME PoolOK, NEW S, NEW ok_speed \in [S -> Speed], VerifyEnd(ok_speed)
    PROVE  /\ PoolOK'
           /\ DOMAIN pool' = DOMAIN pool
           /\ rank' \in [DOMAIN pool' -> Nat]
           /\ \A a : BusyAt(a)' <=> BusyAt(a)
  <1>1. DOMAIN pool' = DOMAIN pool
    BY DEF VerifyEnd
  <1>2. \A r \in DOMAIN pool : /\ pool'[r] \in Row
                               /\ pool'[r].busy = pool[r].busy
                               /\ pool'[r].alive
                               /\ pool'[r].fails < DeadAt
    <2> SUFFICES ASSUME NEW r \in DOMAIN pool
                 PROVE  /\ pool'[r] \in Row
                        /\ pool'[r].busy = pool[r].busy
                        /\ pool'[r].alive
                        /\ pool'[r].fails < DeadAt
      OBVIOUS
    <2>1. CASE AddressOf(r) \in S
      <3>1. pool'[r] = [pool[r] EXCEPT !.target_ok = TRUE, !.fails = 0,
                                       !.alive = TRUE,
                                       !.speed = ok_speed[AddressOf(r)]]
        BY <2>1 DEF VerifyEnd
      <3>2. ok_speed[AddressOf(r)] \in Speed
        BY <2>1
      <3>3. pool[r] \in Row
        BY DEF PoolOK
      <3>4. pool'[r] = [speed |-> ok_speed[AddressOf(r)], fails |-> 0,
                        alive |-> TRUE, busy |-> pool[r].busy,
                        target_ok |-> TRUE]
        BY <3>1, <3>3 DEF Row
      <3>5. pool[r].busy \in BOOLEAN
        BY <3>3 DEF Row
      <3> QED
        BY <3>2, <3>4, <3>5 DEF Row
    <2>2. CASE AddressOf(r) \notin S
      BY <2>2 DEF VerifyEnd, PoolOK, PoolRowsUsable, Row
    <2> QED
      BY <2>1, <2>2
  <1>3. pool' \in [DOMAIN pool' -> Row]
    BY <1>1, <1>2 DEF VerifyEnd
  <1>4. PoolOK'
    BY <1>1, <1>2, <1>3 DEF PoolOK, PoolRowsUsable
  <1>5. rank' \in [DOMAIN pool' -> Nat]
    BY SortRanks DEF VerifyEnd
  <1> QED
    BY <1>1, <1>2, <1>4, <1>5 DEF BusyAt, RowsOf

----------------------------------------------------------------------------
(* The refresh thread. *)

\* An address of Sole names one row, and one line of the cache file.
UniqueInv == UniqueRows /\ UniqueCache

\* The file gets finitely many lines for an address, one if it has one row.
LEMMA SaveCacheEffect ==
    ASSUME PoolOK, SaveCache, cache \in [Address -> Nat]
    PROVE  /\ cache' \in [Address -> Nat]
           /\ UniqueRows /\ (\A a \in Sole : cache[a] <= 1)
                 => \A a \in Sole : cache'[a] <= 1
  <1>1. CASE cache' = cache
    BY <1>1
  <1>2. CASE cache' = [a \in Address |->
                          Cardinality({r \in RowsOf(a) : pool[r].alive})]
    <2> SUFFICES ASSUME NEW a \in Address
                 PROVE  /\ cache'[a] \in Nat
                        /\ UniqueRows /\ a \in Sole => cache'[a] <= 1
      BY <1>2 DEF Sole
    <2> DEFINE R == {r \in RowsOf(a) : pool[r].alive}
    <2>1. cache'[a] = Cardinality(R)
      BY <1>2
    <2>2. Cardinality(R) \in Nat
      <3>1. IsFiniteSet({a} \X (1 .. Len(LocalList) + MaxKeep))
        <4>1. IsFiniteSet(1 .. Len(LocalList) + MaxKeep)
          BY FS_Interval
        <4>2. IsFiniteSet({a})
          BY FS_Singleton
        <4> QED
          BY <4>1, <4>2, FS_Product
      <3>2. R \subseteq {a} \X (1 .. Len(LocalList) + MaxKeep)
        <4> SUFFICES ASSUME NEW r \in R PROVE r \in {a} \X (1 .. Len(LocalList) + MaxKeep)
          OBVIOUS
        <4>1. r \in Address \X (1 .. Len(LocalList) + MaxKeep) /\ r[1] = a
          BY DEF RowsOf, PoolOK, RowId, AddressOf
        <4> QED
          BY <4>1
      <3> HIDE DEF R
      <3> QED
        BY <3>1, <3>2, FS_Subset, FS_CardinalityType
    <2>3. ASSUME UniqueRows, a \in Sole PROVE Cardinality(R) \in {0, 1}
      <3>1. \A r, s \in R : r = s
        BY <2>3 DEF RowsOf, UniqueRows
      <3>2. R = {} \/ \E r : R = {r}
        BY <3>1, Zenon
      <3> QED
        BY <3>2, FS_EmptySet, FS_Singleton
    <2> HIDE DEF R
    <2> QED
      BY <2>1, <2>2, <2>3
  <1> QED
    BY <1>1, <1>2 DEF SaveCache

LEMMA CandidateRows ==
    LocalRows \cup CachedRows \subseteq RowId /\ LocalRows \cup PublicRows \subseteq RowId
  BY DEF LocalRows, PublicRows, CachedRows, RowId

\* The candidates of either scoring run name an address of Sole once.
LEMMA CandidatesUnique ==
    ASSUME UniqueCache, cache \in [Address -> Nat]
    PROVE  /\ UseCache => UniqueIds(LocalRows \cup CachedRows, Sole)
           /\ UniqueIds(LocalRows \cup PublicRows, Sole)
  <1> DEFINE n == Len(LocalList)
  <1>0. n \in Nat
    OBVIOUS
  <1>1. \A r \in LocalRows : /\ r[2] \in 1 .. n /\ LocalList[r[2]] = r[1]
                              /\ r = <<r[1], r[2]>>
    BY DEF LocalRows
  <1>2. \A a \in Sole, i, j \in 1 .. n :
            LocalList[i] = a /\ LocalList[j] = a => i = j /\ a \notin Public /\ ~UseCache
    BY DEF Sole
  <1> HIDE DEF n
  <1>3. \A r, s \in LocalRows : r[1] = s[1] /\ r[1] \in Sole => r = s
    <2> SUFFICES ASSUME NEW r \in LocalRows, NEW s \in LocalRows, r[1] = s[1], r[1] \in Sole
                 PROVE  r = s
      OBVIOUS
    <2>1. r[2] = s[2]
      BY <1>1, <1>2
    <2> QED
      BY <1>1, <2>1
  <1>4. \A r \in LocalRows : r[1] \in Sole => r[1] \notin Public /\ ~UseCache
    BY <1>1, <1>2
  <1> USE DEF n
  <1>5. UniqueIds(LocalRows \cup PublicRows, Sole)
    <2>1. \A r \in PublicRows : r = <<r[1], n + 1>> /\ r[1] \in Public
      BY DEF PublicRows
    <2> QED
      BY <1>3, <1>4, <2>1 DEF UniqueIds, AddressOf
  <1>6. ASSUME UseCache PROVE UniqueIds(LocalRows \cup CachedRows, Sole)
    <2>1. \A r \in CachedRows : r[1] \in Sole => r = <<r[1], n + 1>>
      <3> SUFFICES ASSUME NEW r \in CachedRows, r[1] \in Sole
                   PROVE  r = <<r[1], n + 1>>
        OBVIOUS
      <3>1. /\ r[1] \in Address /\ r = <<r[1], r[2]>>
            /\ r[2] \in n + 1 .. n + cache[r[1]]
        BY DEF CachedRows, RowId
      <3>2. cache[r[1]] \in Nat /\ cache[r[1]] <= 1
        BY <3>1 DEF UniqueCache
      <3> HIDE DEF n
      <3>3. r[2] = n + 1
        BY <1>0, <3>1, <3>2
      <3> QED
        BY <3>1, <3>3
    <2> QED
      BY <1>4, <1>6, <2>1 DEF UniqueIds, AddressOf
  <1> QED
    BY <1>5, <1>6

\* A step of the refresh thread changes no leased address; the addresses of
\* Sole stay unique, and the failures of their leased rows what they are.
LEMMA RefreshEffect ==
    ASSUME EngineTypeOK, PoolOK, RefreshThread
    PROVE  /\ EngineTypeOK'
           /\ PoolOK'
           /\ \A a : BusyAt(a)' <=> BusyAt(a)
           /\ UniqueInv => UniqueInv' /\ KeepsFails
  <1> DEFINE Rows == /\ PoolOK'
                     /\ \A a : BusyAt(a)' <=> BusyAt(a)
                     /\ rank' \in [DOMAIN pool' -> Nat]
             Unique == UniqueInv => UniqueRows' /\ KeepsFails
  <1>a. /\ target_filter \in BOOLEAN /\ warming \in BOOLEAN /\ stop_flag \in BOOLEAN
        /\ refresher \in RefresherState /\ cache \in [Address -> Nat]
        /\ rank \in [DOMAIN pool -> Nat]
    BY DEF EngineTypeOK
  <1>1. ASSUME UNCHANGED <<pool, rank>> PROVE Rows /\ Unique
    <2>1. PoolOK'
      BY <1>1 DEF PoolOK, PoolRowsUsable
    <2>2. \A a : BusyAt(a)' <=> BusyAt(a)
      BY <1>1 DEF BusyAt, RowsOf
    <2>3. Unique
      BY <1>1 DEF UniqueInv, UniqueRows, KeepsFails, BusyRows
    <2> QED
      BY <1>1, <1>a, <2>1, <2>2, <2>3
  <1>2. ASSUME NEW C, C \subseteq RowId, NEW tested \in TestResults(C),
               Install(tested), UniqueInv => UniqueIds(C, Sole)
        PROVE  Rows /\ Unique
    BY <1>2, InstallEffect DEF UniqueInv
  <1>3. CASE CacheBegin \/ CacheTested \/ ListFetched \/ ListTested \/ RoundEnd \/ Wake
    <2>1. UNCHANGED <<pool, rank, cache, target_filter, stop_flag>> /\ warming' \in BOOLEAN
      BY <1>3, <1>a DEF CacheBegin, CacheTested, ListFetched, ListTested, RoundEnd, Wake
    <2>2. refresher' \in RefresherState
      BY <1>3 DEF CacheBegin, CacheTested, ListFetched, ListTested, RoundEnd, Wake,
                  RefresherStep, RefresherState
    <2>3. UniqueCache => UniqueCache'
      <3>1. refresher' \in {"cacheTest", "cacheInstall"} =>
               UseCache \/ refresher \in {"cacheTest", "cacheInstall"}
        BY <1>3 DEF CacheBegin, CacheTested, ListFetched, ListTested, RoundEnd, Wake,
                    RefresherStep
      <3> QED
        BY <2>1, <3>1 DEF UniqueCache
    <2> QED
      BY <1>1, <1>a, <2>1, <2>2, <2>3 DEF EngineTypeOK, UniqueInv, PoolOK
  <1>4. CASE CacheInstall
    <2>1. UniqueInv => UniqueIds(LocalRows \cup CachedRows, Sole)
      <3>1. UniqueInv => UseCache
        BY <1>4 DEF CacheInstall, RefresherStep, UniqueInv, UniqueCache
      <3> QED
        BY <1>a, <3>1, CandidatesUnique DEF UniqueInv
    <2>2. PICK tested \in TestResults(LocalRows \cup CachedRows) :
             IF Cardinality(DOMAIN tested) < MinReuse
             THEN RefresherStep("cacheInstall", "list") /\ UNCHANGED <<pool, rank>>
             ELSE RefresherStep("cacheInstall", "save") /\ Install(tested)
      BY <1>4, Zenon DEF CacheInstall
    <2>3. Rows /\ Unique
      BY <1>1, <1>2, <2>1, <2>2, CandidateRows
    <2>4. refresher' \in {"list", "save"}
      BY <2>2 DEF RefresherStep
    <2>5. UNCHANGED <<target_filter, warming, stop_flag, cache>>
      BY <1>4 DEF CacheInstall
    <2> QED
      BY <1>a, <2>3, <2>4, <2>5
         DEF UniqueInv, UniqueCache, EngineTypeOK, RefresherState, PoolOK
  <1>5. CASE ListInstall
    <2>1. PICK tested \in TestResults(LocalRows \cup PublicRows) : Install(tested)
      BY <1>5 DEF ListInstall
    <2>2. UniqueInv => UniqueIds(LocalRows \cup PublicRows, Sole)
      BY <1>a, CandidatesUnique DEF UniqueInv
    <2>3. Rows /\ Unique
      BY <1>2, <2>1, <2>2, CandidateRows
    <2> QED
      BY <1>5, <1>a, <2>3
         DEF ListInstall, RefresherStep, UniqueInv, UniqueCache, EngineTypeOK,
             RefresherState, PoolOK
  <1>6. CASE RefreshSave
    <2>1. UNCHANGED <<pool, rank, target_filter, warming, stop_flag>>
          /\ refresher' = "roundEnd"
      BY <1>6 DEF RefreshSave, RefresherStep
    <2>2. cache' \in [Address -> Nat] /\ (UniqueInv => UniqueCache')
      BY <1>6, <1>a, <2>1, SaveCacheEffect DEF RefreshSave, UniqueInv, UniqueCache
    <2> QED
      BY <1>1, <1>a, <2>1, <2>2 DEF UniqueInv, EngineTypeOK, RefresherState, PoolOK
  <1> QED
    BY <1>3, <1>4, <1>5, <1>6 DEF RefreshThread

----------------------------------------------------------------------------
(* The leases. *)

\* A lease given back leaves its address, if it is one of Sole, without a
\* holder.
LEMMA EraseEffect ==
    ASSUME held \in [Conn -> [Address -> Nat]], LeaseExclusive,
           NEW c \in Conn, NEW a \in Address, held[c][a] > 0, EraseOneHeld(c, a)
    PROVE  /\ a \in Sole => Holders(a)' = {}
           /\ \A b \in Address : b # a => Holders(b)' = Holders(b)
           /\ LeaseExclusive'
  <1>1. PICK k \in Nat : /\ held' = [held EXCEPT ![c] = [held[c] EXCEPT ![a] = k]]
                         /\ k = held[c][a] - 1
    <2> DEFINE k == held[c][a] - 1
    <2>1. held[c][a] \in Nat /\ k \in Nat
      OBVIOUS
    <2>2. held' = [held EXCEPT ![c] = [held[c] EXCEPT ![a] = k]]
      BY DEF EraseOneHeld
    <2> QED
      BY <2>1, <2>2
  <1>2. \A d \in Conn, b \in Address :
           held'[d][b] = IF d = c /\ b = a THEN k ELSE held[d][b]
    BY <1>1
  <1>3. \A b \in Address : b # a => Holders(b)' = Holders(b)
    BY <1>2 DEF Holders
  <1>4. ASSUME a \in Sole PROVE \A d \in Conn : held'[d][a] = 0
    <2>1. held[c][a] = 1 /\ \A d \in Conn : d # c => held[d][a] = 0
      BY <1>4 DEF LeaseExclusive, Holders
    <2> QED
      BY <1>1, <1>2, <2>1
  <1>5. a \in Sole => Holders(a)' = {}
    BY <1>4 DEF Holders
  <1>6. LeaseExclusive'
    <2> SUFFICES ASSUME NEW b \in Sole
                 PROVE  /\ \A d, e \in Holders(b)' : d = e
                        /\ \A d \in Conn : held'[d][b] <= 1
      BY DEF LeaseExclusive
    <2>1. b \in Address
      BY DEF Sole
    <2> QED
      BY <1>2, <1>3, <1>4, <1>5, <2>1 DEF LeaseExclusive
  <1> QED
    BY <1>3, <1>5, <1>6

LEMMA GrantEffect ==
    ASSUME held \in [Conn -> [Address -> Nat]], LeaseExclusive,
           NEW c \in Conn, NEW a \in Address, a \in Sole => Holders(a) = {},
           held' = [held EXCEPT ![c][a] = @ + 1]
    PROVE  /\ a \in Sole => Holders(a)' = {c}
           /\ \A b \in Address : b # a => Holders(b)' = Holders(b)
           /\ LeaseExclusive'
  <1>1. PICK k \in Nat : /\ held' = [held EXCEPT ![c] = [held[c] EXCEPT ![a] = k]]
                         /\ k = held[c][a] + 1
    <2> DEFINE k == held[c][a] + 1
    <2>1. held[c][a] \in Nat /\ k \in Nat
      OBVIOUS
    <2>2. held' = [held EXCEPT ![c] = [held[c] EXCEPT ![a] = k]]
      OBVIOUS
    <2> QED
      BY <2>1, <2>2
  <1>2. \A d \in Conn, b \in Address :
           held'[d][b] = IF d = c /\ b = a THEN k ELSE held[d][b]
    BY <1>1
  <1>3. \A b \in Address : b # a => Holders(b)' = Holders(b)
    BY <1>2 DEF Holders
  <1>4. ASSUME a \in Sole
        PROVE  \A d \in Conn : held'[d][a] = IF d = c THEN 1 ELSE 0
    <2>1. \A d \in Conn : held[d][a] = 0
      BY <1>4 DEF Holders
    <2> QED
      BY <1>1, <1>2, <2>1
  <1>5. a \in Sole => Holders(a)' = {c}
    BY <1>4 DEF Holders
  <1>6. LeaseExclusive'
    <2> SUFFICES ASSUME NEW b \in Sole
                 PROVE  /\ \A d, e \in Holders(b)' : d = e
                        /\ \A d \in Conn : held'[d][b] <= 1
      BY DEF LeaseExclusive
    <2>1. b \in Address
      BY DEF Sole
    <2> QED
      BY <1>2, <1>3, <1>4, <1>5, <2>1 DEF LeaseExclusive
  <1> QED
    BY <1>3, <1>5, <1>6

----------------------------------------------------------------------------
(* Whatever the candidates and the clients. *)

\* Connections open, hold leases and close in order, and rows are usable.
RowsInv ==
    /\ TypeOK
    /\ PoolRowsUsable
    /\ DropsOpenConn
    /\ ClosedHoldNothing
    /\ StoppedClosed

LEMMA RowsInvPool == ASSUME RowsInv PROVE PoolOK
  BY DEF RowsInv, TypeOK, EngineTypeOK, PoolOK

\* One lease more or less: held stays a bag of addresses for each connection.
LEMMA HeldTyped ==
    ASSUME held \in [Conn -> [Address -> Nat]], NEW c \in Conn, NEW a \in Address,
           EraseOneHeld(c, a) \/ held' = [held EXCEPT ![c][a] = @ + 1]
    PROVE  /\ held' \in [Conn -> [Address -> Nat]]
           /\ \A d \in Conn : d # c => held'[d] = held[d]
           /\ EraseOneHeld(c, a) =>
                 \A d \in Conn, b \in Address : held'[d][b] <= held[d][b]
  <1>1. PICK k \in Nat : /\ held' = [held EXCEPT ![c] = [held[c] EXCEPT ![a] = k]]
                         /\ EraseOneHeld(c, a) => k <= held[c][a]
    <2>1. held[c][a] \in Nat
      OBVIOUS
    <2>2. CASE EraseOneHeld(c, a)
      <3> DEFINE k == IF held[c][a] > 0 THEN held[c][a] - 1 ELSE held[c][a]
      <3>1. k \in Nat /\ k <= held[c][a]
        BY <2>1
      <3>2. held' = [held EXCEPT ![c] = [held[c] EXCEPT ![a] = k]]
        BY <2>2 DEF EraseOneHeld
      <3> QED
        BY <3>1, <3>2
    <2>3. CASE ~EraseOneHeld(c, a)
      <3> DEFINE k == held[c][a] + 1
      <3>1. k \in Nat
        BY <2>1
      <3>2. held' = [held EXCEPT ![c] = [held[c] EXCEPT ![a] = k]]
        BY <2>3
      <3> HIDE DEF k
      <3> QED
        BY <2>3, <3>1, <3>2
    <2> QED
      BY <2>2, <2>3
  <1>2. held' \in [Conn -> [Address -> Nat]]
    BY <1>1
  <1>3. \A d \in Conn, b \in Address :
           held'[d][b] = IF d = c /\ b = a THEN k ELSE held[d][b]
    BY <1>1
  <1> QED
    BY <1>1, <1>2, <1>3

\* The engine's part of a release, and of a lease.
LEMMA ReleaseTyped ==
    ASSUME RowsInv, NEW a \in Address, NEW success \in BOOLEAN, NEW mbps \in Speed,
           Release(a, success, mbps),
           UNCHANGED <<target_filter, warming, stop_flag, refresher, cache>>
    PROVE  EngineTypeOK' /\ PoolRowsUsable'
  BY RowsInvPool, ReleaseEffect DEF RowsInv, TypeOK, EngineTypeOK, PoolOK

LEMMA SamePool ==
    ASSUME RowsInv, UNCHANGED engineVars PROVE EngineTypeOK' /\ PoolRowsUsable'
  BY DEF RowsInv, TypeOK, EngineTypeOK, engineVars, PoolRowsUsable

LEMMA InitRowsInv == Init => RowsInv
  <1> SUFFICES ASSUME Init PROVE RowsInv
    OBVIOUS
  <1>1. DOMAIN pool = {} /\ DOMAIN rank = {}
    BY DEF Init, EngineInit
  <1>2. pool \in [DOMAIN pool -> Row] /\ rank \in [DOMAIN pool -> Nat]
    BY <1>1 DEF Init, EngineInit
  <1>3. cache \in [Address -> Nat]
    BY DEF Init, EngineInit
  <1>4. TypeOK
    BY <1>1, <1>2, <1>3
       DEF Init, EngineInit, DaemonInit, TypeOK, EngineTypeOK, RefresherState
  <1> QED
    BY <1>1, <1>4
       DEF RowsInv, Init, DaemonInit, PoolRowsUsable, DropsOpenConn,
           ClosedHoldNothing, StoppedClosed

LEMMA NextRowsInv == ASSUME RowsInv, [Next]_vars PROVE RowsInv'
  <1> USE DEF RowsInv
  <1>0. PoolOK
    BY RowsInvPool
  <1>1. ASSUME NEW c \in Conn,
               \/ Accept(c) \/ HangUp(c) \/ Hello(c) \/ ProtocolError(c)
               \/ StopLine(c) \/ Disconnect(c) \/ StopDropsConn(c)
        PROVE  RowsInv'
    <2>1. EngineTypeOK' /\ PoolRowsUsable'
      BY <1>1, SamePool
         DEF Accept, HangUp, Hello, ProtocolError, StopLine, Disconnect, StopDropsConn
    <2>2. CASE Accept(c) \/ HangUp(c) \/ Hello(c)
      BY <2>1, <2>2
         DEF Accept, HangUp, Hello, TypeOK, DropsOpenConn, ClosedHoldNothing,
             StoppedClosed
    <2>3. CASE ProtocolError(c) \/ StopLine(c) \/ Disconnect(c) \/ StopDropsConn(c)
      BY <2>1, <2>3
         DEF ProtocolError, StopLine, Disconnect, StopDropsConn, BeginDrop, TypeOK,
             DropsOpenConn, ClosedHoldNothing, StoppedClosed
    <2> QED
      BY <1>1, <2>2, <2>3
  <1>2. ASSUME NEW c \in Conn, AcquireLine(c) PROVE RowsInv'
    <2>1. CASE UNCHANGED <<pool, rank, held, poll, cur>>
      BY <1>2, <2>1, SamePool
         DEF AcquireLine, engineVars, TypeOK, DropsOpenConn, ClosedHoldNothing,
             StoppedClosed
    <2>2. CASE \E skip \in SUBSET Address : \E r \in Pickable(skip) :
                  /\ Lease(r)
                  /\ held' = [held EXCEPT ![c][AddressOf(r)] = @ + 1]
                  /\ IF gone[c] THEN BeginDrop(c) ELSE UNCHANGED <<poll, cur>>
      <3>1. PICK skip \in SUBSET Address :
                \E r \in Pickable(skip) :
                  /\ Lease(r)
                  /\ held' = [held EXCEPT ![c][AddressOf(r)] = @ + 1]
                  /\ IF gone[c] THEN BeginDrop(c) ELSE UNCHANGED <<poll, cur>>
        BY <2>2
      <3>2. PICK r \in Pickable(skip) :
                  /\ Lease(r)
                  /\ held' = [held EXCEPT ![c][AddressOf(r)] = @ + 1]
                  /\ IF gone[c] THEN BeginDrop(c) ELSE UNCHANGED <<poll, cur>>
        BY <3>1
      <3>3. PoolOK' /\ AddressOf(r) \in Address /\ DOMAIN pool' = DOMAIN pool
        BY <1>0, <3>2, LeaseEffect
      <3>4. /\ held' \in [Conn -> [Address -> Nat]]
            /\ \A d \in Conn : d # c => held'[d] = held[d]
        BY <3>2, <3>3, HeldTyped DEF TypeOK
      <3>5. EngineTypeOK' /\ PoolRowsUsable'
        BY <1>2, <3>2, <3>3 DEF AcquireLine, Lease, TypeOK, EngineTypeOK, PoolOK
      <3>6. TypeOK'
        BY <1>2, <3>2, <3>4, <3>5 DEF AcquireLine, BeginDrop, TypeOK
      <3>7. DropsOpenConn' /\ StoppedClosed' /\ ClosedHoldNothing'
        BY <1>2, <3>2, <3>4
           DEF AcquireLine, Serving, BeginDrop, DropsOpenConn, StoppedClosed,
               ClosedHoldNothing
      <3> QED
        BY <3>5, <3>6, <3>7
    <2> QED
      BY <1>2, <2>1, <2>2 DEF AcquireLine
  <1>3. ASSUME NEW c \in Conn, NEW a \in Address, NEW success \in BOOLEAN,
               NEW mbps \in Speed, Release(a, success, mbps), EraseOneHeld(c, a),
               UNCHANGED <<target_filter, warming, stop_flag, refresher, cache,
                           conn, gone, poll, cur, addrs, want_stop, stopping>>
        PROVE  RowsInv'
    <2>1. EngineTypeOK' /\ PoolRowsUsable'
      BY <1>3, ReleaseTyped
    <2>2. /\ held' \in [Conn -> [Address -> Nat]]
          /\ \A d \in Conn, b \in Address : held'[d][b] <= held[d][b]
      BY <1>3, HeldTyped DEF TypeOK
    <2>3. TypeOK'
      BY <1>3, <2>1, <2>2 DEF TypeOK
    <2>4. ClosedHoldNothing'
      BY <1>3, <2>2 DEF ClosedHoldNothing, TypeOK
    <2> QED
      BY <1>3, <2>1, <2>3, <2>4 DEF DropsOpenConn, StoppedClosed
  <1>4. ASSUME NEW c \in Conn, ReleaseLine(c) PROVE RowsInv'
    BY <1>3, <1>4 DEF ReleaseLine
  <1>5. CASE DropLease
    <2>1. cur \in Conn /\ 0 \in Speed /\ FALSE \in BOOLEAN
      BY <1>5 DEF DropLease, DropsOpenConn, Speed
    <2> QED
      BY <1>3, <1>5, <2>1 DEF DropLease
  <1>6. ASSUME NEW c \in Conn, TargetLine(c) PROVE RowsInv'
    <2>1. PoolOK' /\ DOMAIN pool' = DOMAIN pool
      BY <1>0, <1>6, VerifyBeginEffect DEF TargetLine
    <2>2. LiveAddresses \subseteq Address
      BY <1>0 DEF LiveAddresses, PoolOK, RowId, AddressOf
    <2>3. EngineTypeOK' /\ PoolRowsUsable'
      BY <1>6, <2>1 DEF TargetLine, VerifyBegin, TypeOK, EngineTypeOK, PoolOK
    <2> QED
      BY <1>6, <2>2, <2>3
         DEF TargetLine, TypeOK, ClosedHoldNothing, DropsOpenConn, StoppedClosed
  <1>7. CASE TargetProbed
    <2>1. PICK S \in SUBSET addrs : \E ok_speed \in [S -> Speed] : VerifyEnd(ok_speed)
      BY <1>7 DEF TargetProbed
    <2>2. PoolOK' /\ rank' \in [DOMAIN pool' -> Nat]
      BY <1>0, <2>1, VerifyEndEffect
    <2>3. EngineTypeOK' /\ PoolRowsUsable'
      BY <1>7, <2>2 DEF TargetProbed, TypeOK, EngineTypeOK, PoolOK
    <2> QED
      BY <1>7, <2>3
         DEF TargetProbed, TypeOK, ClosedHoldNothing, DropsOpenConn, StoppedClosed
  <1>8. CASE CloseConn \/ Signal \/ GracefulStop \/ UNCHANGED vars
    <2>1. EngineTypeOK' /\ PoolRowsUsable'
      BY <1>8, SamePool DEF CloseConn, Signal, GracefulStop, vars
    <2> QED
      BY <1>8, <2>1
         DEF CloseConn, Signal, GracefulStop, vars, daemonVars, TypeOK, DropsOpenConn,
             ClosedHoldNothing, StoppedClosed
  <1>9. CASE EngineStop
    BY <1>9
       DEF EngineStop, TypeOK, EngineTypeOK, PoolRowsUsable, DropsOpenConn,
           ClosedHoldNothing, StoppedClosed
  <1>10. CASE Joined
    <2>1. cache' \in [Address -> Nat]
      BY <1>0, <1>10, SaveCacheEffect DEF Joined, TypeOK, EngineTypeOK
    <2> QED
      BY <1>10, <2>1
         DEF Joined, TypeOK, EngineTypeOK, PoolRowsUsable, DropsOpenConn,
             ClosedHoldNothing, StoppedClosed
  <1>11. CASE Restart
    <2>1. DOMAIN pool' = {}
      BY <1>11 DEF Restart
    <2>2. pool' \in [DOMAIN pool' -> Row] /\ rank' \in [DOMAIN pool' -> Nat]
      BY <1>11, <2>1 DEF Restart
    <2>3. TypeOK'
      BY <1>11, <2>1, <2>2 DEF Restart, TypeOK, EngineTypeOK, RefresherState
    <2> QED
      BY <1>11, <2>1, <2>3
         DEF Restart, PoolRowsUsable, DropsOpenConn, ClosedHoldNothing, StoppedClosed
  <1>12. CASE Refreshing
    <2>1. EngineTypeOK' /\ PoolOK'
      BY <1>0, <1>12, RefreshEffect DEF Refreshing, TypeOK
    <2> QED
      BY <1>12, <2>1
         DEF Refreshing, daemonVars, TypeOK, PoolOK, DropsOpenConn,
             ClosedHoldNothing, StoppedClosed
  <1> QED
    BY <1>1, <1>2, <1>4, <1>5, <1>6, <1>7, <1>8, <1>9, <1>10, <1>11, <1>12
       DEF Next, Commands

----------------------------------------------------------------------------
(* Addresses that candidates cannot name twice. *)

LEMMA InitUniqueInv == Init => UniqueInv
  <1> SUFFICES ASSUME Init PROVE UniqueInv
    OBVIOUS
  <1>1. DOMAIN pool = {} /\ refresher = "cache" /\ \A a \in Sole : cache[a] <= 1
    BY DEF Init, EngineInit, Sole
  <1> QED
    BY <1>1 DEF UniqueInv, UniqueRows, UniqueCache

LEMMA NextUniqueInv ==
    ASSUME RowsInv, UniqueInv, [Next]_vars PROVE UniqueInv'
  <1>0. PoolOK /\ EngineTypeOK
    BY RowsInvPool DEF RowsInv, TypeOK
  <1>1. ASSUME DOMAIN pool' \subseteq DOMAIN pool, UNCHANGED <<cache, refresher>>
        PROVE  UniqueInv'
    BY <1>1 DEF UniqueInv, UniqueRows, UniqueCache
  <1>2. ASSUME NEW c \in Conn, AcquireLine(c) PROVE UniqueInv'
    <2>1. UNCHANGED pool \/ \E r : Lease(r)
      BY <1>2 DEF AcquireLine
    <2>2. DOMAIN pool' \subseteq DOMAIN pool
      BY <2>1 DEF Lease
    <2> QED
      BY <1>1, <1>2, <2>2 DEF AcquireLine
  <1>3. ASSUME NEW a, NEW success, NEW mbps, Release(a, success, mbps)
        PROVE  DOMAIN pool' \subseteq DOMAIN pool
    BY <1>3 DEF Release, ReleaseRow
  <1>4. ASSUME NEW c \in Conn, ReleaseLine(c) \/ TargetLine(c) PROVE UniqueInv'
    BY <1>1, <1>3, <1>4 DEF ReleaseLine, TargetLine, VerifyBegin
  <1>5. CASE DropLease \/ TargetProbed
    BY <1>1, <1>3, <1>5 DEF DropLease, TargetProbed, VerifyEnd
  <1>6. CASE Restart
    BY <1>6 DEF Restart, UniqueInv, UniqueRows, UniqueCache
  <1>7. CASE Joined
    <2>1. \A a \in Sole : cache'[a] <= 1
      BY <1>0, <1>7, SaveCacheEffect DEF Joined, UniqueInv, UniqueCache, EngineTypeOK
    <2> QED
      BY <1>7, <2>1 DEF Joined, UniqueInv, UniqueRows, UniqueCache
  <1>8. CASE Refreshing
    BY <1>0, <1>8, RefreshEffect DEF Refreshing
  <1>9. ASSUME NEW c \in Conn,
               \/ Accept(c) \/ HangUp(c) \/ Hello(c) \/ ProtocolError(c)
               \/ StopLine(c) \/ Disconnect(c) \/ StopDropsConn(c)
        PROVE  UniqueInv'
    BY <1>1, <1>9
       DEF Accept, HangUp, Hello, ProtocolError, StopLine, Disconnect,
           StopDropsConn, engineVars
  <1>10. CASE CloseConn \/ Signal \/ GracefulStop \/ EngineStop \/ UNCHANGED vars
    BY <1>1, <1>10 DEF CloseConn, Signal, GracefulStop, EngineStop, vars, engineVars
  <1> QED
    BY <1>2, <1>4, <1>5, <1>6, <1>7, <1>8, <1>9, <1>10 DEF Next, Commands

----------------------------------------------------------------------------
(* If clients release only what they hold. *)

LEMMA LeaseInvParts == LeaseInv <=> RowsInv /\ UniqueInv /\ BusyIffLeased /\ LeaseExclusive
  BY DEF LeaseInv, RowsInv, UniqueInv

\* The pool changed, but the busy addresses and the leases did not.
LEMMA SameLeases ==
    ASSUME BusyIffLeased, LeaseExclusive, UNCHANGED held,
           \A a : BusyAt(a)' <=> BusyAt(a)
    PROVE  BusyIffLeased' /\ LeaseExclusive'
  <1>1. \A a : Holders(a)' = Holders(a)
    BY DEF Holders
  <1>2. BusyIffLeased'
    BY <1>1 DEF BusyIffLeased, BusyAt
  <1>3. LeaseExclusive'
    BY <1>1 DEF LeaseExclusive
  <1> QED
    BY <1>2, <1>3

LEMMA InitLeases == Init => BusyIffLeased /\ LeaseExclusive
  <1> SUFFICES ASSUME Init PROVE BusyIffLeased /\ LeaseExclusive
    OBVIOUS
  <1>1. \A a : RowsOf(a) = {}
    BY DEF Init, EngineInit, RowsOf
  <1>2. \A a \in Address : Holders(a) = {} /\ \A c \in Conn : held[c][a] = 0
    BY DEF Init, DaemonInit, Holders
  <1> QED
    BY <1>1, <1>2 DEF BusyIffLeased, LeaseExclusive, Sole

LEMMA NextLeases ==
    ASSUME StrictClients, RowsInv, UniqueInv, BusyIffLeased, LeaseExclusive, [Next]_vars
    PROVE  BusyIffLeased' /\ LeaseExclusive'
  <1>0. PoolOK /\ EngineTypeOK /\ UniqueRows /\ held \in [Conn -> [Address -> Nat]]
    BY RowsInvPool DEF RowsInv, TypeOK, UniqueInv
  <1>1. ASSUME UNCHANGED <<pool, held>> PROVE BusyIffLeased' /\ LeaseExclusive'
    BY <1>1, SameLeases DEF BusyAt, RowsOf
  <1>2. ASSUME NEW c \in Conn, AcquireLine(c) PROVE BusyIffLeased' /\ LeaseExclusive'
    <2>1. CASE UNCHANGED <<pool, rank, held, poll, cur>>
      BY <1>1, <2>1
    <2>2. CASE \E skip \in SUBSET Address : \E r \in Pickable(skip) :
                  /\ Lease(r)
                  /\ held' = [held EXCEPT ![c][AddressOf(r)] = @ + 1]
      <3>1. PICK skip \in SUBSET Address :
                \E r \in Pickable(skip) :
                  /\ Lease(r)
                  /\ held' = [held EXCEPT ![c][AddressOf(r)] = @ + 1]
        BY <2>2
      <3>2. PICK r \in Pickable(skip) :
                  /\ Lease(r)
                  /\ held' = [held EXCEPT ![c][AddressOf(r)] = @ + 1]
        BY <3>1
      <3> DEFINE a == AddressOf(r)
      <3>3. /\ a \in Address /\ BusyAt(a)'
            /\ a \in Sole => ~BusyAt(a)
            /\ \A b : b # a => (BusyAt(b)' <=> BusyAt(b))
        BY <1>0, <3>2, LeaseEffect
      <3>4. a \in Sole => Holders(a) = {}
        BY <3>3 DEF BusyIffLeased, BusyAt
      <3>5. held' = [held EXCEPT ![c][a] = @ + 1]
        BY <3>2
      <3> HIDE DEF a
      <3>6. /\ a \in Sole => Holders(a)' = {c}
            /\ LeaseExclusive'
            /\ \A b \in Address : b # a => Holders(b)' = Holders(b)
        BY <1>0, <3>3, <3>4, <3>5, GrantEffect
      <3>7. \A b \in Sole : b \in Address
        BY DEF Sole
      <3> QED
        BY <3>3, <3>6, <3>7 DEF BusyIffLeased, BusyAt
    <2> QED
      BY <1>2, <2>1, <2>2 DEF AcquireLine
  <1>3. ASSUME NEW c \in Conn, NEW a \in Address, NEW success \in BOOLEAN,
               NEW mbps \in Speed, held[c][a] > 0,
               Release(a, success, mbps), EraseOneHeld(c, a)
        PROVE  BusyIffLeased' /\ LeaseExclusive'
    <2>1. /\ a \in Sole => ~BusyAt(a)'
          /\ \A b : b # a => (BusyAt(b)' <=> BusyAt(b))
      BY <1>0, <1>3, ReleaseEffect
    <2>2. /\ a \in Sole => Holders(a)' = {}
          /\ LeaseExclusive'
          /\ \A b \in Address : b # a => Holders(b)' = Holders(b)
      BY <1>0, <1>3, EraseEffect
    <2>3. \A b \in Sole : b \in Address
      BY DEF Sole
    <2> QED
      BY <2>1, <2>2, <2>3 DEF BusyIffLeased, BusyAt
  <1>4. ASSUME NEW c \in Conn, ReleaseLine(c) PROVE BusyIffLeased' /\ LeaseExclusive'
    BY <1>3, <1>4 DEF ReleaseLine
  <1>5. CASE DropLease
    <2>1. cur \in Conn /\ 0 \in Speed /\ FALSE \in BOOLEAN
      BY <1>5 DEF DropLease, RowsInv, DropsOpenConn, Speed
    <2> QED
      BY <1>3, <1>5, <2>1 DEF DropLease
  <1>6. ASSUME NEW c \in Conn, TargetLine(c) PROVE BusyIffLeased' /\ LeaseExclusive'
    BY <1>0, <1>6, VerifyBeginEffect, SameLeases DEF TargetLine
  <1>7. CASE TargetProbed
    <2>1. PICK S \in SUBSET addrs : \E ok_speed \in [S -> Speed] : VerifyEnd(ok_speed)
      BY <1>7 DEF TargetProbed
    <2>2. \A a : BusyAt(a)' <=> BusyAt(a)
      BY <1>0, <2>1, VerifyEndEffect
    <2> QED
      BY <1>7, <2>2, SameLeases DEF TargetProbed
  <1>8. CASE Restart
    <2>1. \A a : RowsOf(a)' = {}
      BY <1>8 DEF Restart, RowsOf
    <2>2. \A a \in Address : Holders(a) = {} /\ Holders(a)' = {}
      BY <1>8 DEF Restart, RowsInv, StoppedClosed, ClosedHoldNothing, Holders
    <2> QED
      BY <1>8, <2>1, <2>2 DEF Restart, BusyIffLeased, LeaseExclusive, Sole
  <1>9. CASE Refreshing
    BY <1>0, <1>9, RefreshEffect, SameLeases DEF Refreshing, daemonVars
  <1>10. ASSUME NEW c \in Conn,
                \/ Accept(c) \/ HangUp(c) \/ Hello(c) \/ ProtocolError(c)
                \/ StopLine(c) \/ Disconnect(c) \/ StopDropsConn(c)
         PROVE  BusyIffLeased' /\ LeaseExclusive'
    BY <1>1, <1>10
       DEF Accept, HangUp, Hello, ProtocolError, StopLine, Disconnect,
           StopDropsConn, engineVars
  <1>11. CASE CloseConn \/ Signal \/ GracefulStop \/ EngineStop \/ Joined
              \/ UNCHANGED vars
    BY <1>1, <1>11
       DEF CloseConn, Signal, GracefulStop, EngineStop, Joined, vars, engineVars,
           daemonVars
  <1> QED
    BY <1>2, <1>4, <1>5, <1>6, <1>7, <1>8, <1>9, <1>10, <1>11 DEF Next, Commands

----------------------------------------------------------------------------
(* The theorems. *)

\* What holds whatever the lists and the clients do.
THEOREM RowsInvariant == Safety => []RowsInv
  <1>1. RowsInv /\ [Next]_vars => RowsInv'
    BY NextRowsInv
  <1> QED
    BY <1>1, InitRowsInv, PTL DEF Safety

\* No history of demotions, refreshes and probes leaves a dead row in the
\* pool, also if an address has several rows and clients release what they
\* do not hold.
THEOREM PoolStaysUsable == Safety => []PoolRowsUsable
  <1>1. RowsInv => PoolRowsUsable
    BY DEF RowsInv
  <1> QED
    BY <1>1, RowsInvariant, PTL

\* Speeds and failure counts stay in range through every release and refresh.
THEOREM DaemonTyped == Safety => []TypeOK
  <1>1. RowsInv => TypeOK
    BY DEF RowsInv
  <1> QED
    BY <1>1, RowsInvariant, PTL

\* An address that no list of candidates can name twice has one row in the
\* pool and one line in the cache file, through every refresh and restart, in
\* every configuration: what duplicates other addresses does not spread.
THEOREM AddressesStayUnique == Safety => [](UniqueRows /\ UniqueCache)
  <1>1. RowsInv /\ UniqueInv /\ [Next]_vars => UniqueInv'
    BY NextUniqueInv
  <1>2. UniqueInv <=> UniqueRows /\ UniqueCache
    BY DEF UniqueInv
  <1> QED
    BY <1>1, <1>2, InitUniqueInv, RowsInvariant, PTL DEF Safety

\* A refresh takes no lease from an address and makes none up, whatever lists
\* and clients name; nor does it wipe the failures of a leased row, if no list
\* can name its address twice.
THEOREM RefreshesKeepLeases == Safety => RefreshKeepsLeases
  <1>1. ASSUME [Next]_vars, RefresherMoves PROVE RefreshThread
    BY <1>1 DEF Next, vars, engineVars, RefresherMoves, Refreshing, Accept, HangUp, Commands,
                Hello, ProtocolError, AcquireLine, ReleaseLine, TargetLine, StopLine,
                Disconnect, StopDropsConn, TargetProbed, DropLease, CloseConn, Signal,
                GracefulStop, EngineStop, Joined, Restart
  <1>2. ASSUME RowsInv, UniqueRows, UniqueCache, RefreshThread PROVE KeepsLeases
    <2>1. KeepsFails /\ \A a : BusyAt(a)' <=> BusyAt(a)
      BY <1>2, RowsInvPool, RefreshEffect DEF UniqueInv, RowsInv, TypeOK
    <2>2. /\ \A a : BusyAt(a) <=> a \in LeasedAddresses
          /\ \A a : BusyAt(a)' <=> a \in LeasedAddresses'
      BY DEF BusyAt, LeasedAddresses, BusyRows, RowsOf
    <2> QED
      BY <2>1, <2>2 DEF KeepsFails, KeepsLeases
  <1>3. RowsInv /\ UniqueRows /\ UniqueCache /\ [Next]_vars
        => [RefresherMoves => KeepsLeases]_vars
    BY <1>1, <1>2
  <1> QED
    BY <1>3, RowsInvariant, AddressesStayUnique, PTL DEF Safety, RefreshKeepsLeases

\* The inductive invariant holds of every behaviour in which clients release
\* only what they hold, in every configuration of lists and cache.
THEOREM LeaseInvariant ==
    ASSUME StrictClients PROVE Safety => []LeaseInv
  <1>1. Safety => [](RowsInv /\ UniqueInv)
    BY RowsInvariant, AddressesStayUnique, PTL DEF UniqueInv
  <1>2. RowsInv /\ UniqueInv /\ BusyIffLeased /\ LeaseExclusive /\ [Next]_vars
        => BusyIffLeased' /\ LeaseExclusive'
    BY NextLeases
  <1>3. Safety => [](RowsInv /\ UniqueInv /\ BusyIffLeased /\ LeaseExclusive)
    BY <1>1, <1>2, InitLeases, PTL DEF Safety
  <1> QED
    BY <1>3, LeaseInvParts, PTL

\* A proxy that no list of candidates can name twice is leased to one
\* connection at a time, through every refresh, demotion, TARGET, hang-up and
\* stop, whatever duplicates other proxies have.
THEOREM LeasesAreExclusive ==
    ASSUME StrictClients PROVE Safety => []LeaseExclusive
  <1>1. LeaseInv => LeaseExclusive
    BY DEF LeaseInv
  <1> QED
    BY <1>1, LeaseInvariant, PTL

\* The busy row of such a proxy is the row of a lease: no lease outlives its
\* connection in the pool, and no refresh loses the row of a lease.
THEOREM BusyRowsAreLeased ==
    ASSUME StrictClients PROVE Safety => []BusyIffLeased
  <1>1. LeaseInv => BusyIffLeased
    BY DEF LeaseInv
  <1> QED
    BY <1>1, LeaseInvariant, PTL

----------------------------------------------------------------------------
(* The daemon implements the lease service. *)

\* A step that leaves every set of holders alone leaves the service's
\* holders alone.
LEMMA SameHolders ==
    ASSUME \A a \in Sole : Holders(a)' = Holders(a)
    PROVE  [a \in Sole |-> HolderOf(a)]' = [a \in Sole |-> HolderOf(a)]
  <1>1. \A a \in Sole : HolderOf(a)' = HolderOf(a)
    BY DEF HolderOf
  <1> QED
    BY <1>1

\* Every step of the daemon is a step of the lease service, or none.
LEMMA StepRefines ==
    ASSUME StrictClients, LeaseInv, [Next]_vars
    PROVE  [Leases!Next]_(Leases!leaseVars)
  <1> DEFINE H == [a \in Sole |-> HolderOf(a)]
  <1> USE DEF Leases!leaseVars
  <1>0. /\ held \in [Conn -> [Address -> Nat]]
        /\ gone \in [Conn -> BOOLEAN]
        /\ LeaseExclusive
        /\ \A a \in Sole : a \in Address
    BY DEF LeaseInv, TypeOK, Sole
  <1>1. ASSUME UNCHANGED held PROVE UNCHANGED H
    BY <1>1, SameHolders DEF Holders
  <1>2. ASSUME NEW c \in Conn, NEW a \in Address, a \in Sole => Holders(a) = {},
               held' = [held EXCEPT ![c][a] = @ + 1], UNCHANGED gone
        PROVE  [Leases!Next]_(Leases!leaseVars)
    <2>1. /\ a \in Sole => Holders(a)' = {c}
          /\ \A b \in Address : b # a => Holders(b)' = Holders(b)
      BY <1>0, <1>2, GrantEffect
    <2>2. CASE a \notin Sole
      <3>1. UNCHANGED H
        BY <1>0, <2>1, <2>2, SameHolders
      <3> QED
        BY <1>2, <3>1
    <2>3. CASE a \in Sole
      <3>1. HolderOf(a) = NoConn /\ HolderOf(a)' = c
        BY <1>2, <2>1, <2>3 DEF HolderOf, AnyOf
      <3>2. \A b \in Sole : b # a => HolderOf(b)' = HolderOf(b)
        BY <1>0, <2>1 DEF HolderOf
      <3>3. H' = [H EXCEPT ![a] = c]
        BY <2>3, <3>1, <3>2
      <3>4. Leases!Grant(a, c)
        BY <1>2, <2>3, <3>1, <3>3 DEF Leases!Grant
      <3> QED
        BY <2>3, <3>4 DEF Leases!Next
    <2> QED
      BY <2>2, <2>3
  <1>3. ASSUME NEW c \in Conn, NEW a \in Address, held[c][a] > 0,
               EraseOneHeld(c, a), UNCHANGED gone
        PROVE  [Leases!Next]_(Leases!leaseVars)
    <2>1. /\ a \in Sole => Holders(a)' = {}
          /\ \A b \in Address : b # a => Holders(b)' = Holders(b)
      BY <1>0, <1>3, EraseEffect
    <2>2. CASE a \notin Sole
      <3>1. UNCHANGED H
        BY <1>0, <2>1, <2>2, SameHolders
      <3> QED
        BY <1>3, <3>1
    <2>3. CASE a \in Sole
      <3>1. HolderOf(a) \in Conn /\ HolderOf(a)' = NoConn
        BY <1>3, <2>1, <2>3 DEF HolderOf, AnyOf, Holders
      <3>2. \A b \in Sole : b # a => HolderOf(b)' = HolderOf(b)
        BY <1>0, <2>1 DEF HolderOf
      <3>3. H' = [H EXCEPT ![a] = NoConn]
        BY <2>3, <3>1, <3>2
      <3>4. Leases!Return(a)
        BY <1>3, <2>3, <3>1, <3>3 DEF Leases!Return
      <3> QED
        BY <2>3, <3>4 DEF Leases!Next
    <2> QED
      BY <2>2, <2>3
  <1>4. ASSUME NEW c \in Conn, \A a \in Address : held[c][a] = 0,
               gone' = [gone EXCEPT ![c] = FALSE], UNCHANGED held
        PROVE  [Leases!Next]_(Leases!leaseVars)
    <2>1. UNCHANGED H
      BY <1>1, <1>4
    <2>2. CASE gone[c]
      <3>1. ~Leases!Holds(c)
        <4> SUFFICES ASSUME NEW a \in Sole, HolderOf(a) = c PROVE FALSE
          BY DEF Leases!Holds
        <4>1. Holders(a) # {}
          BY DEF HolderOf
        <4>2. c \in Holders(a)
          BY <4>1 DEF HolderOf, AnyOf
        <4> QED
          BY <1>0, <1>4, <4>2 DEF Holders
      <3> QED
        BY <1>4, <2>1, <2>2, <3>1 DEF Leases!Next, Leases!Rejoin
    <2>3. CASE ~gone[c]
      <3>1. gone' = gone
        BY <1>0, <1>4, <2>3
      <3> QED
        BY <2>1, <3>1
    <2> QED
      BY <2>2, <2>3
  <1>5. ASSUME UNCHANGED <<held, gone>> PROVE [Leases!Next]_(Leases!leaseVars)
    BY <1>1, <1>5
  <1>6. ASSUME NEW c \in Conn, Accept(c) PROVE [Leases!Next]_(Leases!leaseVars)
    BY <1>4, <1>6 DEF Accept, LeaseInv, ClosedHoldNothing
  <1>7. ASSUME NEW c \in Conn, HangUp(c) PROVE [Leases!Next]_(Leases!leaseVars)
    BY <1>1, <1>7 DEF HangUp, Leases!Next, Leases!Leave
  <1>8. ASSUME NEW c \in Conn, AcquireLine(c)
        PROVE  [Leases!Next]_(Leases!leaseVars)
    <2>1. CASE UNCHANGED held
      BY <1>5, <1>8, <2>1 DEF AcquireLine
    <2>2. CASE \E skip \in SUBSET Address : \E r \in Pickable(skip) :
                  /\ Lease(r)
                  /\ held' = [held EXCEPT ![c][AddressOf(r)] = @ + 1]
      <3>1. PICK skip \in SUBSET Address : \E r \in Pickable(skip) :
                  /\ Lease(r)
                  /\ held' = [held EXCEPT ![c][AddressOf(r)] = @ + 1]
        BY <2>2
      <3>2. PICK r \in Pickable(skip) :
                  /\ Lease(r)
                  /\ held' = [held EXCEPT ![c][AddressOf(r)] = @ + 1]
        BY <3>1
      <3>3. PoolOK
        BY DEF PoolOK, LeaseInv, TypeOK, EngineTypeOK
      <3>4. /\ AddressOf(r) \in Address
            /\ AddressOf(r) \in Sole => ~BusyAt(AddressOf(r))
        BY <3>2, <3>3, LeaseEffect DEF LeaseInv
      <3>5. AddressOf(r) \in Sole => Holders(AddressOf(r)) = {}
        BY <3>4 DEF LeaseInv, BusyIffLeased, BusyAt
      <3> QED
        BY <1>2, <1>8, <3>2, <3>4, <3>5 DEF AcquireLine
    <2> QED
      BY <1>8, <2>1, <2>2 DEF AcquireLine
  <1>9. ASSUME NEW c \in Conn, ReleaseLine(c)
        PROVE  [Leases!Next]_(Leases!leaseVars)
    <2>1. PICK a \in Address : held[c][a] > 0 /\ EraseOneHeld(c, a)
      BY <1>9 DEF ReleaseLine
    <2> QED
      BY <1>3, <1>9, <2>1 DEF ReleaseLine
  <1>10. CASE DropLease
    <2>1. cur \in Conn
      BY <1>10 DEF DropLease, LeaseInv, DropsOpenConn
    <2>2. PICK a \in Address : held[cur][a] > 0 /\ EraseOneHeld(cur, a)
      BY <1>10 DEF DropLease
    <2> QED
      BY <1>3, <1>10, <2>1, <2>2 DEF DropLease
  <1>11. CASE CloseConn
    <2>1. cur \in Conn /\ \A a \in Address : held[cur][a] = 0
      BY <1>11 DEF CloseConn, LeaseInv, DropsOpenConn
    <2> QED
      BY <1>4, <1>11, <2>1 DEF CloseConn
  <1>12. ASSUME NEW c \in Conn, Commands(c) PROVE [Leases!Next]_(Leases!leaseVars)
    BY <1>5, <1>8, <1>9, <1>12
       DEF Commands, Hello, ProtocolError, TargetLine, StopLine
  <1>13. CASE UNCHANGED vars
    BY <1>5, <1>13 DEF vars, daemonVars
  <1>14. CASE Refreshing
    BY <1>5, <1>14 DEF Refreshing, daemonVars
  <1>15. ASSUME NEW c \in Conn, Disconnect(c) \/ StopDropsConn(c)
         PROVE  [Leases!Next]_(Leases!leaseVars)
    BY <1>5, <1>15 DEF Disconnect, StopDropsConn
  <1>16. CASE TargetProbed \/ Signal \/ GracefulStop \/ EngineStop \/ Joined \/ Restart
    BY <1>5, <1>16
       DEF TargetProbed, Signal, GracefulStop, EngineStop, Joined, Restart
  <1> QED
    BY <1>6, <1>7, <1>10, <1>11, <1>12, <1>13, <1>14, <1>15, <1>16 DEF Next

\* Over the pool, its refreshes and its connections, the daemon is a lease
\* service for the proxies no list of candidates can name twice: each of its
\* steps grants a free one, takes one lease back, sees a peer leave, frees its
\* place, or changes no lease of theirs.
THEOREM DaemonImplementsLeases ==
    ASSUME StrictClients PROVE Safety => ImplementsLeaseSafety
  <1>1. Init => Leases!Init
    <2> SUFFICES ASSUME Init PROVE Leases!Init
      OBVIOUS
    <2>1. \A a \in Sole : HolderOf(a) = NoConn
      BY DEF Init, DaemonInit, HolderOf, Holders, Sole
    <2> QED
      BY <2>1 DEF Leases!Init, Init, DaemonInit
  <1>2. LeaseInv /\ [Next]_vars => [Leases!Next]_(Leases!leaseVars)
    BY StepRefines
  <1> QED
    BY <1>1, <1>2, LeaseInvariant, PTL DEF Safety, ImplementsLeaseSafety, Leases!Safety

----------------------------------------------------------------------------
(* The bound on the pool. *)

LEMMA PoolFinite ==
    ASSUME IsFiniteSet(Address), PoolOK
    PROVE  IsFiniteSet(RowId) /\ IsFiniteSet(DOMAIN pool)
  <1>1. IsFiniteSet(1 .. Len(LocalList) + MaxKeep)
    BY FS_Interval
  <1>2. IsFiniteSet(RowId)
    BY <1>1, FS_Product DEF RowId
  <1> QED
    BY <1>2, FS_Subset DEF PoolOK

LEMMA ShrinkingPool ==
    ASSUME IsFiniteSet(Address), PoolOK, PoolBounded,
           DOMAIN pool' \subseteq DOMAIN pool
    PROVE  PoolBounded'
  <1>1. /\ Cardinality(DOMAIN pool') <= Cardinality(DOMAIN pool)
        /\ Cardinality(DOMAIN pool') \in Nat /\ Cardinality(DOMAIN pool) \in Nat
    BY PoolFinite, FS_Subset, FS_CardinalityType
  <1> QED
    BY <1>1 DEF PoolBounded

\* A refresh keeps more than max_keep rows only for leased rows, one for each
\* leased address, and before it each of these had a leased row.
LEMMA InstallBound ==
    ASSUME IsFiniteSet(Address), PoolOK, PoolBounded,
           NEW C, C \subseteq RowId,
           NEW tested \in TestResults(C), Install(tested)
    PROVE  PoolBounded'
  <1>1. UniqueIds(BusyRows', Address) /\ \A a : BusyAt(a)' <=> BusyAt(a)
    BY InstallEffect
  <1>a. \A r \in DOMAIN pool' : AddressOf(r) \in Address
    BY InstallEffect DEF PoolOK, RowId, AddressOf
  <1>2. PICK old \in OldBusy, heir \in HeirChoices(tested) :
           \E keep \in SUBSET DOMAIN Merged(tested, old, heir) :
              /\ Kept(Merged(tested, old, heir), keep)
              /\ pool' = [r \in keep |-> Merged(tested, old, heir)[r]]
    BY Zenon DEF Install
  <1> DEFINE m == Merged(tested, old, heir)
  <1>3. PICK keep \in SUBSET DOMAIN m :
           Kept(m, keep) /\ pool' = [r \in keep |-> m[r]]
    BY <1>2
  <1> HIDE DEF m
  <1> DEFINE leased == {r \in DOMAIN m : m[r].busy}
  <1>4. DOMAIN pool' = keep /\ \A r \in keep : pool'[r] = m[r]
    BY <1>3
  <1>5. leased \subseteq keep /\ (keep # leased => Cardinality(keep) <= MaxKeep)
    BY <1>3 DEF Kept
  <1>6. CASE keep # leased
    BY <1>4, <1>5, <1>6 DEF PoolBounded
  <1>7. CASE keep = leased
    <2> DEFINE rowOf == [r \in keep |-> CHOOSE s \in RowsOf(AddressOf(r)) : pool[s].busy]
    <2>1. \A r \in keep : r \in BusyRows' /\ BusyAt(AddressOf(r))
      BY <1>1, <1>4, <1>7 DEF BusyAt, RowsOf, BusyRows
    <2>2. \A r \in keep : rowOf[r] \in DOMAIN pool /\ AddressOf(rowOf[r]) = AddressOf(r)
      BY <2>1 DEF BusyAt, RowsOf
    <2> HIDE DEF rowOf
    <2>3. \A r, s \in keep : rowOf[r] = rowOf[s] => r = s
      BY <1>1, <1>4, <1>a, <2>1, <2>2 DEF UniqueIds
    <2>4. rowOf \in Injection(keep, DOMAIN pool)
      BY <2>2, <2>3 DEF rowOf, Injection, IsInjective
    <2>5. IsFiniteSet(DOMAIN pool)
      BY PoolFinite
    <2>6. Cardinality(keep) <= Cardinality(DOMAIN pool) /\ IsFiniteSet(keep)
      BY <2>4, <2>5, FS_Injection
    <2>7. Cardinality(keep) \in Nat /\ Cardinality(DOMAIN pool) \in Nat
      BY <2>5, <2>6, FS_CardinalityType
    <2> QED
      BY <1>4, <2>6, <2>7 DEF PoolBounded
  <1> QED
    BY <1>6, <1>7

LEMMA NextBound ==
    ASSUME IsFiniteSet(Address), RowsInv, PoolBounded, [Next]_vars
    PROVE  PoolBounded'
  <1>0. PoolOK
    BY RowsInvPool
  <1>1. ASSUME DOMAIN pool' \subseteq DOMAIN pool PROVE PoolBounded'
    BY <1>0, <1>1, ShrinkingPool
  <1>2. ASSUME UNCHANGED pool PROVE PoolBounded'
    BY <1>2 DEF PoolBounded
  <1>3. ASSUME NEW a, NEW success, NEW mbps, Release(a, success, mbps)
        PROVE  DOMAIN pool' \subseteq DOMAIN pool
    BY <1>3 DEF Release, ReleaseRow
  <1>4. ASSUME NEW c \in Conn, AcquireLine(c) PROVE PoolBounded'
    <2>1. UNCHANGED pool \/ \E r : Lease(r)
      BY <1>4 DEF AcquireLine
    <2>2. DOMAIN pool' \subseteq DOMAIN pool
      BY <2>1 DEF Lease
    <2> QED
      BY <1>1, <2>2
  <1>5. ASSUME NEW c \in Conn, ReleaseLine(c) PROVE PoolBounded'
    BY <1>1, <1>3, <1>5 DEF ReleaseLine
  <1>6. ASSUME NEW c \in Conn, TargetLine(c) PROVE PoolBounded'
    BY <1>1, <1>6 DEF TargetLine, VerifyBegin
  <1>7. CASE TargetProbed
    BY <1>1, <1>7 DEF TargetProbed, VerifyEnd
  <1>8. CASE DropLease
    BY <1>1, <1>3, <1>8 DEF DropLease
  <1>9. CASE Restart
    <2>1. DOMAIN pool' = {}
      BY <1>9 DEF Restart
    <2> QED
      BY <1>1, <2>1
  <1>10. CASE CacheInstall
    <2>1. PICK tested \in TestResults(LocalRows \cup CachedRows) :
             UNCHANGED pool \/ Install(tested)
      BY <1>10, Zenon DEF CacheInstall
    <2> QED
      BY <1>0, <1>2, <2>1, CandidateRows, InstallBound
  <1>11. CASE ListInstall
    <2>1. PICK tested \in TestResults(LocalRows \cup PublicRows) : Install(tested)
      BY <1>11 DEF ListInstall
    <2> QED
      BY <1>0, <2>1, CandidateRows, InstallBound
  <1>12. CASE CacheBegin \/ CacheTested \/ ListFetched \/ ListTested
              \/ RefreshSave \/ RoundEnd \/ Wake
    BY <1>2, <1>12
       DEF CacheBegin, CacheTested, ListFetched, ListTested, RefreshSave,
           RoundEnd, Wake
  <1>13. ASSUME NEW c \in Conn,
                \/ Accept(c) \/ HangUp(c) \/ Hello(c) \/ ProtocolError(c)
                \/ StopLine(c) \/ Disconnect(c) \/ StopDropsConn(c)
         PROVE  PoolBounded'
    BY <1>2, <1>13
       DEF Accept, HangUp, Hello, ProtocolError, StopLine, Disconnect,
           StopDropsConn, engineVars
  <1>14. CASE CloseConn \/ Signal \/ GracefulStop \/ EngineStop \/ Joined
              \/ UNCHANGED vars
    BY <1>2, <1>14
       DEF CloseConn, Signal, GracefulStop, EngineStop, Joined, vars, engineVars
  <1> QED
    BY <1>4, <1>5, <1>6, <1>7, <1>8, <1>9, <1>10, <1>11, <1>12, <1>13, <1>14
       DEF Next, Commands, Refreshing, RefreshThread

\* max_keep bounds the pool, although install_tested keeps every leased row.
THEOREM PoolStaysBounded ==
    ASSUME IsFiniteSet(Address) PROVE Safety => []PoolBounded
  <1>1. Init => PoolBounded
    <2> SUFFICES ASSUME Init PROVE PoolBounded
      OBVIOUS
    <2>1. DOMAIN pool = {}
      BY DEF Init, EngineInit
    <2> QED
      BY <2>1, FS_EmptySet DEF PoolBounded
  <1>2. RowsInv /\ PoolBounded /\ [Next]_vars => PoolBounded'
    BY NextBound
  <1> QED
    BY <1>1, <1>2, RowsInvariant, PTL DEF Safety

=============================================================================
