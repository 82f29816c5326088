--------------------------- MODULE ProbeLoopProofs ---------------------------
(***************************************************************************)
(* The counters of the transfer loops, for any number of candidates, any   *)
(* cap and any order in which transfers finish.                            *)
(***************************************************************************)
EXTENDS ProbeLoop, FiniteSetTheorems, TLAPS

ProbeInv == TypeOK /\ HandlesCounted

Read(r) == {c \in Candidate : r[c] # "none"}

LEMMA InitProbeInv == Init => ProbeInv
<1> SUFFICES ASSUME Init PROVE ProbeInv
  OBVIOUS
<1> USE ProbeAssumption DEF Init
<1>1. TypeOK
  <2>1. next \in 0 .. Total /\ inflight \in 0 .. Cap /\ still \in 0 .. Cap
        /\ completed \in 0 .. Total
    OBVIOUS
  <2>2. result \in [Candidate -> {"none", "passed", "failed"}]
    OBVIOUS
  <2> QED BY <2>1, <2>2 DEF TypeOK
<1>2. Attached = {} /\ Cardinality(Attached) = 0
  BY FS_EmptySet DEF Attached
<1>3. {c \in Candidate : result[c] # "none"} = {} /\ 1 .. next = {}
  OBVIOUS
<1>4. HandlesCounted
  BY <1>2, <1>3 DEF HandlesCounted
<1> QED BY <1>1, <1>4 DEF ProbeInv

\* Every set of candidates is finite.
LEMMA CandidatesFinite == \A S \in SUBSET Candidate : IsFiniteSet(S)
<1>1. IsFiniteSet(Candidate)
  BY FS_Interval, ProbeAssumption DEF Candidate
<1> QED BY <1>1, FS_Subset

\* The first attachments.
LEMMA FillInv == ProbeInv /\ Fill => ProbeInv'
<1> SUFFICES ASSUME ProbeInv, Fill PROVE ProbeInv'
  OBVIOUS
<1> USE ProbeAssumption
<1>1. CASE CanAdd(inflight)
  <2> DEFINE new == next + 1
  <2>1. /\ next' = new /\ running' = running \cup {new}
        /\ inflight' = inflight + 1 /\ pc' = pc /\ pc = "fill"
        /\ UNCHANGED <<mode, unread, still, completed, result, stop_adding, stop_flag>>
    BY <1>1 DEF Fill
  <2>2. next < Total /\ inflight < Cap /\ next \in Nat /\ inflight \in Nat
    BY <1>1 DEF CanAdd, ProbeInv, TypeOK
  <2>3. new \in Candidate /\ new \notin 1 .. next
    BY <2>2 DEF Candidate
  <2>4. 1 .. next = Attached \cup Read(result)
    BY <2>1 DEF ProbeInv, HandlesCounted, Read
  <2>5. Attached' = Attached \cup {new} /\ Attached \subseteq Candidate
    BY <2>1 DEF Attached, ProbeInv, TypeOK
  <2>6. Cardinality(Attached') = inflight + 1
    <3>1. IsFiniteSet(Attached)
      BY <2>5, CandidatesFinite
    <3>2. new \notin Attached
      BY <2>3, <2>4
    <3> QED BY <3>1, <3>2, <2>5, FS_AddElement DEF ProbeInv, HandlesCounted
  <2>7. TypeOK'
    BY <2>1, <2>2, <2>3 DEF ProbeInv, TypeOK
  <2>8. HandlesCounted'
    <3>1. 1 .. next' = 1 .. next \cup {new}
      BY <2>1, <2>2
    <3>2. running' \cap unread' = {}
      BY <2>1, <2>3, <2>4 DEF ProbeInv, HandlesCounted, Attached
    <3>3. Attached' \cap Read(result') = {}
      BY <2>1, <2>3, <2>4, <2>5 DEF ProbeInv, HandlesCounted, Read
    <3>4. 1 .. next' = Attached' \cup Read(result')
      BY <3>1, <2>1, <2>4, <2>5 DEF Read
    <3>5. completed' + inflight' = next'
      BY <2>1, <2>2 DEF ProbeInv, TypeOK, HandlesCounted
    <3> QED BY <2>1, <2>6, <3>2, <3>3, <3>4, <3>5 DEF HandlesCounted, Read
  <2> QED BY <2>7, <2>8 DEF ProbeInv
<1>2. CASE ~CanAdd(inflight)
  <2>1. /\ pc' = "first"
        /\ UNCHANGED <<mode, next, multi, inflight, still, completed, result,
                       stop_adding, stop_flag>>
        /\ pc = "fill"
    BY <1>2 DEF Fill, multi
  <2> QED BY <2>1 DEF ProbeInv, TypeOK, HandlesCounted, Attached, multi, Candidate
<1> QED BY <1>1, <1>2

\* Transfers that finish stay attached until their message is read.
LEMMA PerformInv == ProbeInv /\ Perform => ProbeInv'
<1> SUFFICES ASSUME ProbeInv, Perform PROVE ProbeInv'
  OBVIOUS
<1>1. PICK F \in SUBSET running :
         running' = running \ F /\ unread' = unread \cup F
  BY DEF Perform
<1>2. /\ pc # "returned" /\ pc' \in {"check", "read"}
      /\ still' = Cardinality(running')
      /\ UNCHANGED <<mode, next, inflight, completed, result, stop_adding, stop_flag>>
  BY DEF Perform
<1>3. Attached' = Attached /\ running' \subseteq Attached /\ Attached \subseteq Candidate
  BY <1>1 DEF Attached, ProbeInv, TypeOK
<1>4. still' \in 0 .. Cap
  <2>1. IsFiniteSet(Attached) /\ IsFiniteSet(running')
    BY <1>3, CandidatesFinite
  <2>2. Cardinality(running') \in Nat /\ Cardinality(running') <= Cardinality(Attached)
    BY <2>1, <1>3, FS_Subset, FS_CardinalityType
  <2>3. Cardinality(Attached) = inflight /\ inflight \in 0 .. Cap
    BY DEF ProbeInv, HandlesCounted, TypeOK
  <2> QED BY <2>2, <2>3, <1>2, ProbeAssumption
<1>5. TypeOK'
  BY <1>1, <1>2, <1>4 DEF ProbeInv, TypeOK
<1>6. HandlesCounted'
  BY <1>1, <1>2, <1>3 DEF ProbeInv, HandlesCounted, Candidate
<1> QED BY <1>5, <1>6 DEF ProbeInv

\* How many candidates follow a message: no more than there is room for.
LEMMA RefillFits ==
    ASSUME ProbeInv, NEW n \in Nat, n < Cap
    PROVE  Refill(n) \in Nat /\ n + Refill(n) <= Cap /\ next + Refill(n) <= Total
BY ProbeAssumption DEF Refill, CanAdd, ProbeInv, TypeOK

\* A message frees one place, and the candidates that follow are new.
LEMMA ReadMessageInv ==
    ASSUME NEW c \in Candidate PROVE ProbeInv /\ ReadMessage(c) => ProbeInv'
<1> SUFFICES ASSUME ProbeInv, ReadMessage(c) PROVE ProbeInv'
  OBVIOUS
<1> USE ProbeAssumption
<1> DEFINE k == IF stop_adding' THEN 0 ELSE Refill(inflight - 1)
<1> DEFINE Fresh == next + 1 .. next + k
<1>1. /\ pc = "read" /\ c \in unread /\ unread' = unread \ {c}
      /\ completed' = completed + 1
      /\ next' = next + k /\ inflight' = inflight - 1 + k
      /\ running' = running \cup Fresh
      /\ UNCHANGED <<mode, pc, still, stop_flag>>
  BY DEF ReadMessage
<1>2. PICK outcome \in {"passed", "failed"} :
         result' = [result EXCEPT ![c] = outcome]
  BY DEF ReadMessage
<1>3. stop_adding' \in BOOLEAN
  BY DEF ReadMessage, Full, ProbeInv, TypeOK
<1>4. Attached \subseteq Candidate /\ IsFiniteSet(Attached) /\ c \in Attached
  BY <1>1, CandidatesFinite DEF Attached, ProbeInv, TypeOK
<1>5. /\ inflight = Cardinality(Attached) /\ inflight \in 0 .. Cap
      /\ next \in 0 .. Total /\ completed \in 0 .. Total
      /\ completed + inflight = next
      /\ 1 .. next = Attached \cup Read(result)
      /\ Attached \cap Read(result) = {}
      /\ running \cap unread = {}
  BY <1>1 DEF ProbeInv, HandlesCounted, TypeOK, Read
<1>6. Cardinality(Attached \ {c}) = inflight - 1 /\ IsFiniteSet(Attached \ {c})
  BY <1>4, <1>5, FS_RemoveElement
<1>7. inflight - 1 \in Nat
  BY <1>6, FS_CardinalityType
<1>8. k \in Nat /\ inflight - 1 + k <= Cap /\ next + k <= Total
  <2>1. Refill(inflight - 1) \in Nat /\ inflight - 1 + Refill(inflight - 1) <= Cap
        /\ next + Refill(inflight - 1) <= Total
    BY <1>7, <1>5, RefillFits
  <2> QED BY <2>1, <1>5, <1>7
<1> HIDE DEF k
<1>9. /\ Fresh \subseteq Candidate /\ Fresh \cap (1 .. next) = {}
      /\ 1 .. next' = (1 .. next) \cup Fresh
  BY <1>1, <1>5, <1>8 DEF Candidate
<1>10. IsFiniteSet(Fresh) /\ Cardinality(Fresh) = k
  <2> DEFINE first == next + 1
  <2> DEFINE last == next + k
  <2>1. /\ first \in Int /\ last \in Int
        /\ first > last <=> k = 0
        /\ last - first + 1 = k
    BY <1>5, <1>8
  <2>2. Fresh = first .. last
    OBVIOUS
  <2> HIDE DEF first, last, Fresh
  <2>3. /\ IsFiniteSet(first .. last)
        /\ Cardinality(first .. last) = IF first > last THEN 0
                                        ELSE last - first + 1
    BY <2>1, FS_Interval
  <2> QED BY <2>1, <2>2, <2>3
<1> HIDE DEF Fresh
<1>11. Attached' = (Attached \ {c}) \cup Fresh
  <2>1. c \notin running /\ c \notin Fresh
    BY <1>1, <1>4, <1>5, <1>9
  <2> QED BY <1>1, <2>1 DEF Attached
<1>12. Cardinality(Attached') = inflight'
  <2>1. (Attached \ {c}) \cap Fresh = {}
    BY <1>5, <1>9
  <2>2. Cardinality(Attached') = Cardinality(Attached \ {c}) + Cardinality(Fresh)
                                 - Cardinality((Attached \ {c}) \cap Fresh)
    BY <1>6, <1>10, <1>11, FS_Union
  <2>3. Cardinality((Attached \ {c}) \cap Fresh) = 0
    BY <2>1, FS_EmptySet
  <2>4. Cardinality(Attached') = (inflight - 1) + k - 0
    BY <2>2, <2>3, <1>6, <1>10
  <2> QED BY <2>4, <1>1, <1>7, <1>8
<1>13. Read(result') = Read(result) \cup {c}
  BY <1>2 DEF Read, ProbeInv, TypeOK
<1>14. TypeOK'
  <2>1. completed' \in 0 .. Total /\ next' \in 0 .. Total /\ inflight' \in 0 .. Cap
    BY <1>1, <1>5, <1>7, <1>8
  <2> QED BY <2>1, <1>1, <1>2, <1>3, <1>9 DEF ProbeInv, TypeOK
<1>15. HandlesCounted'
  <2>1. running' \cap unread' = {}
    BY <1>1, <1>5, <1>9 DEF Attached
  <2>2. Attached' \cap Read(result') = {}
    BY <1>4, <1>5, <1>9, <1>11, <1>13
  <2>3. 1 .. next' = Attached' \cup Read(result')
    BY <1>4, <1>5, <1>9, <1>11, <1>13
  <2>4. completed' + inflight' = next'
    BY <1>1, <1>5, <1>7, <1>8
  <2> QED BY <2>1, <2>2, <2>3, <2>4, <1>12 DEF HandlesCounted, Read
<1> QED BY <1>14, <1>15 DEF ProbeInv

LEMMA ReadDoneInv == ProbeInv /\ ReadDone => ProbeInv'
<1> SUFFICES ASSUME ProbeInv, ReadDone PROVE ProbeInv'
  OBVIOUS
<1> USE ProbeAssumption
<1>1. CASE pc' = "returned"
  <2>1. /\ running' = {} /\ unread' = {} /\ inflight' = 0 /\ still' = 0
        /\ completed' = Total
        /\ UNCHANGED <<mode, next, result, stop_adding, stop_flag>>
    BY <1>1 DEF ReadDone
  <2>2. TypeOK'
    BY <1>1, <2>1 DEF ProbeInv, TypeOK
  <2>3. HandlesCounted'
    BY <1>1, <2>1, FS_EmptySet DEF HandlesCounted, Attached
  <2> QED BY <2>2, <2>3 DEF ProbeInv
<1>2. CASE pc' # "returned"
  <2>1. /\ pc = "read" /\ pc' = "check"
        /\ UNCHANGED <<mode, next, running, unread, inflight, still, completed,
                       result, stop_adding, stop_flag>>
    BY <1>2 DEF ReadDone
  <2> QED BY <2>1 DEF ProbeInv, TypeOK, HandlesCounted, Attached, Candidate
<1> QED BY <1>1, <1>2

LEMMA NextProbeInv == ProbeInv /\ [Next]_vars => ProbeInv'
<1> SUFFICES ASSUME ProbeInv, [Next]_vars PROVE ProbeInv'
  OBVIOUS
<1>1. CASE Fill
  BY <1>1, FillInv
<1>2. CASE Perform
  BY <1>2, PerformInv
<1>3. CASE Check
  <2>1. /\ pc = "check" /\ pc' \in {"perform", "returned"}
        /\ UNCHANGED <<mode, next, running, unread, inflight, still, completed,
                       result, stop_adding, stop_flag>>
    BY <1>3 DEF Check, multi
  <2> QED BY <2>1 DEF ProbeInv, TypeOK, HandlesCounted, Attached, Candidate
<1>4. CASE ReadDone
  BY <1>4, ReadDoneInv
<1>5. ASSUME NEW c \in Candidate, ReadMessage(c) PROVE ProbeInv'
  BY <1>5, ReadMessageInv
<1>6. CASE Stop
  <2>1. /\ stop_flag' = TRUE
        /\ UNCHANGED <<mode, pc, next, running, unread, inflight, still, completed,
                       result, stop_adding>>
    BY <1>6 DEF Stop, multi
  <2> QED BY <2>1 DEF ProbeInv, TypeOK, HandlesCounted, Attached, Candidate
<1>7. CASE UNCHANGED vars
  BY <1>7 DEF vars, multi, ProbeInv, TypeOK, HandlesCounted, Attached, Candidate
<1> QED BY <1>1, <1>2, <1>3, <1>4, <1>5, <1>6, <1>7 DEF Next, Step, Returned

----------------------------------------------------------------------------
(* Who is left out.  The loop stops adding only when it is full; a loop    *)
(* with nothing attached has run out of candidates or has stopped adding.  *)

LeftOutInv ==
    /\ stop_adding =>
           /\ mode = "scoring"
           /\ Cardinality(Passed(result)) >= WantLive
           /\ next >= MustTest
    /\ Attached = {} /\ pc # "fill" /\ ~stop_flag => stop_adding \/ next = Total
    /\ pc = "returned" /\ ~stop_flag /\ ~stop_adding => 1 .. next = Attached \cup Read(result)

LEMMA AttachedNone == ProbeInv => (Attached = {} <=> inflight = 0)
<1> SUFFICES ASSUME ProbeInv PROVE Attached = {} <=> inflight = 0
  OBVIOUS
<1>1. IsFiniteSet(Attached) /\ inflight = Cardinality(Attached)
  BY CandidatesFinite DEF ProbeInv, HandlesCounted, TypeOK, Attached
<1>2. QED
  BY <1>1, FS_EmptySet

LEMMA FillLeftOut == ProbeInv /\ LeftOutInv /\ Fill => LeftOutInv'
<1> SUFFICES ASSUME ProbeInv, LeftOutInv, Fill PROVE LeftOutInv'
  OBVIOUS
<1> USE ProbeAssumption
<1>1. /\ pc = "fill" /\ next \in 0 .. Total /\ inflight \in 0 .. Cap
      /\ UNCHANGED <<mode, unread, result, stop_adding, stop_flag>>
  BY DEF Fill, ProbeInv, TypeOK
<1>2. Passed(result') = Passed(result)
  BY <1>1 DEF Passed
<1>3. CASE CanAdd(inflight)
  <2>1. pc' = "fill" /\ next' = next + 1
    BY <1>1, <1>3 DEF Fill
  <2>2. QED
    BY <1>1, <1>2, <2>1 DEF LeftOutInv
<1>4. CASE ~CanAdd(inflight)
  <2>1. pc' = "first" /\ UNCHANGED <<next, running, inflight>>
    BY <1>4 DEF Fill
  <2>2. Attached' = Attached
    BY <1>1, <2>1 DEF Attached
  <2>3. Attached = {} /\ ~stop_flag => next = Total
    BY <1>1, <1>4, AttachedNone DEF CanAdd
  <2>4. QED
    BY <1>1, <1>2, <2>1, <2>2, <2>3 DEF LeftOutInv
<1>5. QED
  BY <1>3, <1>4

LEMMA ReadLeftOut ==
    ASSUME ProbeInv, LeftOutInv, NEW c \in Candidate, ReadMessage(c), ProbeInv'
    PROVE  LeftOutInv'
<1> USE ProbeAssumption
<1> DEFINE k == IF stop_adding' THEN 0 ELSE Refill(inflight - 1)
<1>1. /\ pc = "read" /\ pc' = "read" /\ mode' = mode /\ stop_flag' = stop_flag
      /\ next' = next + k /\ inflight' = inflight - 1 + k
      /\ stop_adding' = (stop_adding \/ Full(result')) /\ c \in unread
  BY DEF ReadMessage
<1>2. /\ next \in 0 .. Total /\ inflight \in 0 .. Cap /\ c \in Attached
      /\ result \in [Candidate -> {"none", "passed", "failed"}]
      /\ result[c] = "none"
  BY <1>1 DEF ProbeInv, TypeOK, HandlesCounted, Attached
<1>3. inflight # 0
  BY <1>2, AttachedNone
<1>4. k \in Nat
  <2>1. Refill(inflight - 1) \in Nat
    BY <1>2, <1>3, RefillFits
  <2>2. QED
    BY <2>1
<1>5. stop_adding' => /\ mode' = "scoring"
                      /\ Cardinality(Passed(result')) >= WantLive
                      /\ next' >= MustTest
  <2>1. CASE stop_adding
    <3>1. \E outcome \in {"passed", "failed"} : result' = [result EXCEPT ![c] = outcome]
      BY DEF ReadMessage
    <3>2. Passed(result) \subseteq Passed(result') /\ Passed(result') \subseteq Candidate
      BY <1>2, <3>1 DEF Passed
    <3>3. /\ IsFiniteSet(Passed(result')) /\ IsFiniteSet(Passed(result))
          /\ Cardinality(Passed(result)) <= Cardinality(Passed(result'))
      BY <3>2, CandidatesFinite, FS_Subset
    <3>4. Cardinality(Passed(result)) \in Nat /\ Cardinality(Passed(result')) \in Nat
      BY <3>3, FS_CardinalityType
    <3>5. /\ mode = "scoring" /\ next >= MustTest
          /\ Cardinality(Passed(result)) >= WantLive
      BY <2>1 DEF LeftOutInv
    <3> HIDE DEF k
    <3>6. QED
      BY <1>1, <1>2, <1>4, <3>3, <3>4, <3>5
  <2>2. CASE Full(result')
    <3> HIDE DEF k
    <3>1. QED
      BY <1>1, <1>2, <1>4, <2>2 DEF Full
  <2>3. QED
    BY <1>1, <2>1, <2>2
<1>6. Attached' = {} /\ ~stop_flag' => stop_adding' \/ next' = Total
  <2> SUFFICES ASSUME Attached' = {}, ~stop_flag', ~stop_adding' PROVE next' = Total
    OBVIOUS
  <2>1. (Attached = {} <=> inflight = 0)'
    BY AttachedNone, PTL
  <2>2. inflight = 1 /\ k = 0
    <3> HIDE DEF k
    <3>1. QED
      BY <1>1, <1>2, <1>3, <1>4, <2>1
  <2>3. Refill(0) = 0
    BY <2>2
  <2>4. next = Total
    BY <1>1, <1>2, <2>3 DEF Refill, CanAdd
  <2>5. QED
    BY <1>1, <1>2, <2>2, <2>4
<1>7. QED
  BY <1>1, <1>5, <1>6 DEF LeftOutInv

LEMMA NextLeftOut ==
    ProbeInv /\ LeftOutInv /\ ProbeInv' /\ [Next]_vars => LeftOutInv'
<1> SUFFICES ASSUME ProbeInv, LeftOutInv, ProbeInv', [Next]_vars PROVE LeftOutInv'
  OBVIOUS
<1>1. CASE Fill
  BY <1>1, FillLeftOut
<1>2. CASE Perform
  <2>1. /\ pc \in {"first", "perform"} /\ pc' \in {"check", "read"} /\ Attached' = Attached
        /\ UNCHANGED <<mode, next, result, stop_adding, stop_flag>>
    BY <1>2 DEF Perform, Attached
  <2>2. QED
    BY <2>1 DEF LeftOutInv, Passed, Read
<1>3. CASE Check
  <2>1. /\ pc = "check" /\ pc' \in {"perform", "returned"}
        /\ UNCHANGED <<mode, next, running, unread, result, stop_adding, stop_flag>>
    BY <1>3 DEF Check, multi
  <2>2. 1 .. next = Attached \cup Read(result) /\ Attached' = Attached
    BY <2>1 DEF ProbeInv, HandlesCounted, Read, Attached
  <2>3. QED
    BY <2>1, <2>2 DEF LeftOutInv, Passed, Read
<1>4. CASE ReadDone
  <2>1. /\ pc = "read" /\ UNCHANGED <<mode, next, unread, result, stop_adding, stop_flag>>
        /\ \/ pc' = "check" /\ running' = running
           \/ pc' = "returned" /\ (stop_adding \/ stop_flag)
    BY <1>4 DEF ReadDone
  <2>2. QED
    BY <2>1 DEF LeftOutInv, Passed, Read, Attached
<1>5. ASSUME NEW c \in Candidate, ReadMessage(c) PROVE LeftOutInv'
  BY <1>5, ReadLeftOut
<1>6. CASE Stop
  BY <1>6 DEF Stop, LeftOutInv, Passed, Read
<1>7. CASE UNCHANGED vars
  BY <1>7 DEF vars, multi, LeftOutInv, Passed, Read, Attached
<1>8. QED
  BY <1>1, <1>2, <1>3, <1>4, <1>5, <1>6, <1>7 DEF Next, Step, Returned

LEMMA ProbeInvariant == Safety => [](ProbeInv /\ LeftOutInv)
<1>1. Safety => []ProbeInv
  BY InitProbeInv, NextProbeInv, PTL DEF Safety
<1>2. Init => LeftOutInv
  BY DEF Init, LeftOutInv
<1>3. QED
  BY <1>1, <1>2, NextLeftOut, PTL DEF Safety

\* The counters of test_proxies_multi and of verify_target agree with the
\* transfers attached to the multi handle, no candidate is lost or attached
\* twice, and the cap is kept, in every run of either loop.
THEOREM HandlesStayCounted == Safety => []HandlesCounted
<1>1. QED
  BY ProbeInvariant, PTL DEF ProbeInv

\* The loops keep to the cap and read no more messages than there are candidates.
THEOREM ProbesTyped == Safety => []TypeOK
<1>1. QED
  BY ProbeInvariant, PTL DEF ProbeInv

\* A run of either loop that is not stopped and returns with nothing attached
\* has a result for every candidate, or is a scoring run that has max_keep
\* that passed and has attached every local candidate.
THEOREM NobodyLeftOut == Safety => []LeavesOutOnlyWhenFull
<1>1. ProbeInv /\ LeftOutInv => LeavesOutOnlyWhenFull
  <2> SUFFICES ASSUME ProbeInv, LeftOutInv,
                      pc = "returned", ~stop_flag, Attached = {}, Missed # {}
               PROVE  /\ mode = "scoring"
                      /\ Cardinality(Passed(result)) >= WantLive
                      /\ 1 .. MustTest \subseteq 1 .. next
    BY DEF LeavesOutOnlyWhenFull
  <2>1. stop_adding
    <3> SUFFICES ASSUME ~stop_adding PROVE FALSE
      OBVIOUS
    <3>1. next = Total /\ 1 .. next = Read(result)
      BY DEF LeftOutInv
    <3>2. QED
      BY <3>1 DEF Missed, Read, Candidate
  <2>2. next \in Nat /\ MustTest \in Nat
    BY ProbeAssumption DEF ProbeInv, TypeOK
  <2>3. QED
    BY <2>1, <2>2 DEF LeftOutInv
<1>2. QED
  BY <1>1, ProbeInvariant, PTL

=============================================================================
