---------------------------- MODULE LeaseService ----------------------------
(***************************************************************************)
(* What the daemon promises about leases, without pool, scores, refresh or *)
(* TARGET: a proxy has at most one holder, a free one may be granted, a    *)
(* holder's lease may be returned, and the leases of a client that has     *)
(* left are all taken back.                                                *)
(***************************************************************************)
CONSTANTS Proxy, Client, NoClient

VARIABLES holder, left

leaseVars == <<holder, left>>

Holds(c) == \E p \in Proxy : holder[p] = c

Init ==
    /\ holder = [p \in Proxy |-> NoClient]
    /\ left = [c \in Client |-> FALSE]

Grant(p, c) ==
    /\ holder[p] = NoClient
    /\ holder' = [holder EXCEPT ![p] = c]
    /\ UNCHANGED left

Return(p) ==
    /\ holder[p] # NoClient
    /\ holder' = [holder EXCEPT ![p] = NoClient]
    /\ UNCHANGED left

Leave(c) ==
    /\ ~left[c]
    /\ left' = [left EXCEPT ![c] = TRUE]
    /\ UNCHANGED holder

\* The place of a client that has left is free once it holds nothing.
Rejoin(c) ==
    /\ left[c]
    /\ ~Holds(c)
    /\ left' = [left EXCEPT ![c] = FALSE]
    /\ UNCHANGED holder

Next ==
    \/ \E p \in Proxy : Return(p) \/ \E c \in Client : Grant(p, c)
    \/ \E c \in Client : Leave(c) \/ Rejoin(c)

\* A client that has left does not keep a lease, and its place is freed.
Reclaim(c) ==
    \/ left[c] /\ \E p \in Proxy : holder[p] = c /\ Return(p)
    \/ Rejoin(c)

Safety == Init /\ [][Next]_leaseVars
Spec == Safety /\ \A c \in Client : SF_leaseVars(Reclaim(c))

=============================================================================
