------------------------------ MODULE ProbeLoop ------------------------------
(***************************************************************************)
(* The two loops of src/proxy_engine.cpp that drive many transfers through *)
(* one curl_multi handle: test_proxies_multi, which scores candidates for  *)
(* the pool ("scoring"), and the loop inside verify_target, which          *)
(* Range-tests the rows of the pool ("target").                            *)
(*                                                                         *)
(* Candidates are the numbers 1 .. Total, in the order of the vector.  A   *)
(* step is one call of curl_multi_perform, one message read, one           *)
(* evaluation of a loop condition.  What a perform does to the transfers   *)
(* is up to libcurl: any of those that run may finish, and `still' is the  *)
(* number of those that do not.                                            *)
(***************************************************************************)
EXTENDS Naturals, FiniteSets

CONSTANTS
    Total,      \* candidates.size()
    MustTest,   \* must_test_first: candidates from the local list
    Cap,        \* inflight_cap
    WantLive,   \* want_live, cfg_.max_keep
    Modes       \* which of the two loops

ASSUME ProbeAssumption ==
    /\ Total \in Nat /\ MustTest \in 0 .. Total
    /\ Cap \in Nat \ {0}
    /\ WantLive \in Nat \ {0}
    /\ Modes \subseteq {"scoring", "target"}

VARIABLES
    mode,
    pc,           \* where the calling thread is
    next,         \* candidates taken from the vector so far
    running,      \* transfers curl has not finished
    unread,       \* transfers finished whose message is not read
    inflight, still, completed,
    result,       \* what the loop has learnt of each candidate
    stop_adding,
    stop_flag     \* set by ProxyEngine::stop

multi == <<running, unread>>
vars == <<mode, pc, next, multi, inflight, still, completed, result,
          stop_adding, stop_flag>>

Candidate == 1 .. Total

\* Transfers attached to the multi handle.
Attached == running \cup unread

\* tested, or ok_speed.
Passed(r) == {c \in Candidate : r[c] = "passed"}

Init ==
    /\ mode \in Modes
    /\ pc = "fill"
    /\ next = 0
    /\ running = {} /\ unread = {}
    /\ inflight = 0 /\ still = 0 /\ completed = 0
    /\ result = [c \in Candidate |-> "none"]
    /\ stop_adding = FALSE
    /\ stop_flag = FALSE

----------------------------------------------------------------------------
\* Mutant: the cap is off by one.
CanAddPastCap(n) == next < Total /\ n <= Cap /\ ~stop_flag

\* add_one, add: whether a candidate may be attached beside n others.
CanAdd(n) == next < Total /\ n < Cap /\ ~stop_flag

\* The loop before the first perform attaches candidates up to the cap.
Fill ==
    /\ pc = "fill"
    /\ IF CanAdd(inflight)
       THEN /\ next' = next + 1
            /\ running' = running \cup {next + 1}
            /\ inflight' = inflight + 1
            /\ UNCHANGED pc
       ELSE pc' = "first" /\ UNCHANGED <<next, running, inflight>>
    /\ UNCHANGED <<mode, unread, still, completed, result, stop_adding, stop_flag>>

\* Mutant: the number of running transfers is kept from the first perform.
PerformStale ==
    /\ pc \in {"first", "perform"}
    /\ \E F \in SUBSET running :
           /\ running' = running \ F
           /\ unread' = unread \cup F
    /\ still' = IF pc = "first" THEN Cardinality(running') ELSE still
    /\ pc' = IF pc = "first" THEN "check" ELSE "read"
    /\ UNCHANGED <<mode, next, inflight, completed, result, stop_adding, stop_flag>>

\* curl_multi_perform, the call before the loop and the one in it.
Perform ==
    /\ pc \in {"first", "perform"}
    /\ \E F \in SUBSET running :
           /\ running' = running \ F
           /\ unread' = unread \cup F
    /\ still' = Cardinality(running')
    /\ pc' = IF pc = "first" THEN "check" ELSE "read"
    /\ UNCHANGED <<mode, next, inflight, completed, result, stop_adding, stop_flag>>

\* The condition of the loop: `still' is what the last perform said.
Check ==
    /\ pc = "check"
    /\ pc' = IF still > 0 /\ ~stop_flag THEN "perform" ELSE "returned"
    /\ UNCHANGED <<mode, next, multi, inflight, still, completed, result,
                   stop_adding, stop_flag>>

\* Mutant: the local candidates are not waited for.
FullWithoutLocals(r) == mode = "scoring" /\ Cardinality(Passed(r)) >= WantLive

\* The pool is full and every local candidate has been attached.
Full(r) ==
    /\ mode = "scoring"
    /\ Cardinality(Passed(r)) >= WantLive
    /\ next >= MustTest

\* How many candidates follow a transfer that ends with n others attached.
Refill(n) ==
    IF ~CanAdd(n) THEN 0
    ELSE IF mode = "scoring" THEN 1
    ELSE IF Cap - n < Total - next THEN Cap - n ELSE Total - next

\* Mutant: the freed place is not counted.
ReadMessageUncounted(c) ==
    /\ pc = "read" /\ c \in unread
    /\ \E outcome \in {"passed", "failed"} :
           result' = [result EXCEPT ![c] = outcome]
    /\ completed' = completed + 1
    /\ stop_adding' = (stop_adding \/ Full(result'))
    /\ LET k == IF stop_adding' THEN 0 ELSE Refill(inflight - 1)
       IN  /\ next' = next + k
           /\ running' = running \cup (next + 1 .. next + k)
           /\ inflight' = inflight + k
    /\ unread' = unread \ {c}
    /\ UNCHANGED <<mode, pc, still, stop_flag>>

\* One message of curl_multi_info_read: detach the transfer, keep its result,
\* and attach the next candidate, or (verify_target) as many as fit.
ReadMessage(c) ==
    /\ pc = "read" /\ c \in unread
    /\ \E outcome \in {"passed", "failed"} :
           result' = [result EXCEPT ![c] = outcome]
    /\ completed' = completed + 1
    /\ stop_adding' = (stop_adding \/ Full(result'))
    /\ LET k == IF stop_adding' THEN 0 ELSE Refill(inflight - 1)
       IN  /\ next' = next + k
           /\ running' = running \cup (next + 1 .. next + k)
           /\ inflight' = inflight - 1 + k
    /\ unread' = unread \ {c}
    /\ UNCHANGED <<mode, pc, still, stop_flag>>

\* No message is left.  A scoring run that is full, or stopped, detaches what
\* is still in flight and leaves the loop.
ReadDone ==
    /\ pc = "read" /\ unread = {}
    /\ IF mode = "scoring" /\ ((stop_adding /\ inflight > 0) \/ stop_flag)
       THEN /\ running' = {}
            /\ inflight' = 0 /\ still' = 0 /\ completed' = Total
            /\ pc' = "returned"
       ELSE pc' = "check" /\ UNCHANGED <<running, inflight, still, completed>>
    /\ UNCHANGED <<mode, next, unread, result, stop_adding, stop_flag>>

\* ProxyEngine::stop.  It is called by the thread that serves TARGET, and so
\* never while verify_target runs.
Stop ==
    /\ mode = "scoring" /\ pc # "returned"
    /\ stop_flag' = TRUE
    /\ UNCHANGED <<mode, pc, next, multi, inflight, still, completed, result,
                   stop_adding>>

Step == Fill \/ Perform \/ Check \/ ReadDone \/ \E c \in Candidate : ReadMessage(c)

Returned == pc = "returned" /\ UNCHANGED vars

Next == Step \/ Stop \/ Returned

Safety == Init /\ [][Next]_vars

\* The thread runs, and every transfer has a time limit (CURLOPT_TIMEOUT): it
\* does not stay unfinished through infinitely many performs.
Finishes(c) == Perform /\ c \in running /\ c \notin running'
Spec == Safety /\ WF_vars(Step) /\ \A c \in Candidate : SF_vars(Finishes(c))

----------------------------------------------------------------------------
(* Properties. *)

TypeOK ==
    /\ mode \in Modes
    /\ pc \in {"fill", "first", "check", "perform", "read", "returned"}
    /\ next \in 0 .. Total
    /\ running \subseteq Candidate /\ unread \subseteq Candidate
    /\ inflight \in 0 .. Cap
    /\ still \in 0 .. Cap
    /\ completed \in 0 .. Total
    /\ result \in [Candidate -> {"none", "passed", "failed"}]
    /\ stop_adding \in BOOLEAN
    /\ stop_flag \in BOOLEAN

\* The counter is the number of transfers attached, no candidate is lost or
\* attached twice, and what the progress bar calls completed is what has been
\* read, until the loop gives up the rest.
HandlesCounted ==
    /\ running \cap unread = {}
    /\ inflight = Cardinality(Attached)
    /\ Attached \cap {c \in Candidate : result[c] # "none"} = {}
    /\ pc # "returned" =>
           /\ completed + inflight = next
           /\ 1 .. next = Attached \cup {c \in Candidate : result[c] # "none"}

\* The candidates the loop returned without a result for.
Missed == {c \in Candidate : result[c] = "none"}

\* Unless it is stopped, a run that ends with nothing attached leaves a
\* candidate out only if max_keep others have passed and no local candidate was
\* left unattached.  One that ends with transfers attached is excused: the
\* condition of the loop counts the transfers that were running before the
\* messages were read, and if none was, it ends beside those just attached.
LeavesOutOnlyWhenFull ==
    pc = "returned" /\ ~stop_flag /\ Attached = {} /\ Missed # {} =>
        /\ mode = "scoring"
        /\ Cardinality(Passed(result)) >= WantLive
        /\ 1 .. MustTest \subseteq 1 .. next

\* The loop ends, and so do a TARGET and a stop that wait for it.
Ends == <>(pc = "returned")

=============================================================================
