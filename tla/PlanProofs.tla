----------------------------- MODULE PlanProofs -----------------------------
(***************************************************************************)
(* The chunks of Plan partition the file, for every size and argument.     *)
(***************************************************************************)
EXTENDS Plan, TLAPS

\* The only arithmetic: n pieces of size \div n bytes fit into the file.
LEMMA PiecesFit ==
    ASSUME NEW bytes \in Nat, NEW n \in Nat \ {0}, n <= bytes
    PROVE  /\ bytes \div n \in Nat \ {0}
           /\ n * (bytes \div n) <= bytes
<1>1. bytes \div n \in Int /\ bytes % n \in 0 .. n - 1
  OBVIOUS
<1>2. bytes = n * (bytes \div n) + (bytes % n)
  OBVIOUS
<1> DEFINE q == bytes \div n
           p == n * q
<1>3. q \in Int /\ p \in Int
  BY <1>1
<1>4. p <= bytes
  BY <1>1, <1>2, <1>3
<1>5. q >= 1
  <2>1. SUFFICES ASSUME q <= 0 PROVE FALSE
    BY <1>3
  <2>2. p <= 0
    BY <2>1, <1>3
  <2>3. QED
    BY <2>2, <1>1, <1>2, <1>3
<1>6. QED
  BY <1>3, <1>4, <1>5

\* What plan_n_bounds returns for a piece: a non-empty range that starts at
\* i pieces and ends where the next piece starts, or at the end of the file.
LEMMA PieceRange ==
    ASSUME NEW bytes \in Nat, NEW n \in Nat \ {0}, n <= bytes,
           NEW i \in Nat, i < n,
           NEW b, b = PieceBounds(bytes, n, i)
    PROVE  /\ b \in ChunkRange
           /\ b.id = i
           /\ b.start = PieceStart(bytes, n, i)
           /\ b.start <= b.end
           /\ b.end < bytes
           /\ b.end + 1 = IF i + 1 < n THEN PieceStart(bytes, n, i + 1)
                         ELSE bytes
<1> DEFINE q == bytes \div n
           s == PieceStart(bytes, n, i)
<1>1. q \in Nat \ {0} /\ n * q <= bytes
  BY PiecesFit
<1> HIDE DEF q
<1>2. s = i * q /\ PieceStart(bytes, n, i + 1) = (i + 1) * q
  BY DEF PieceStart, q
<1> HIDE DEF s
<1>3. s \in Nat /\ s + q = (i + 1) * q /\ (i + 1) * q <= n * q
  BY <1>1, <1>2
<1>4. s + q <= bytes
  BY <1>1, <1>3
<1>5. b = [id |-> i, start |-> s,
           end |-> IF i = n - 1 THEN bytes - 1 ELSE s + q - 1]
  BY DEF PieceBounds, q, s
<1>6. QED
  <2>1. CASE i = n - 1
    BY <2>1, <1>1, <1>3, <1>4, <1>5 DEF ChunkRange, s
  <2>2. CASE i # n - 1
    BY <2>2, <1>1, <1>2, <1>3, <1>4, <1>5 DEF ChunkRange, s
  <2>3. QED
    BY <2>1, <2>2

\* What an iteration that appends a chunk c must show: c starts at the next
\* offset, is inside the file, and the loop variable moves with it.
LEMMA AppendChunk ==
    ASSUME PlanInv, NEW c \in ChunkRange, NEW step \in Nat,
           size > 0, arg > 0, ~returned,
           c.id = Len(plan), c.start = NextOffset(Len(plan)),
           c.start <= c.end, c.end < size,
           plan' = Append(plan, c), at' = at + step,
           UNCHANGED <<size, by, arg, returned>>
    PROVE  /\ PlanTypeOK'
           /\ Partition'
           /\ NextOffset(Len(plan))' = c.end + 1
<1>1. plan' \in Seq(ChunkRange) /\ Len(plan') = Len(plan) + 1
  BY DEF PlanInv, PlanTypeOK
<1>2. \A k \in 1 .. Len(plan) : plan'[k] = plan[k]
  BY DEF PlanInv, PlanTypeOK
<1>3. plan'[Len(plan')] = c
  BY DEF PlanInv, PlanTypeOK
<1>4. PlanTypeOK'
  BY <1>1 DEF PlanInv, PlanTypeOK
<1>5. NextOffset(Len(plan))' = c.end + 1
  BY <1>1, <1>3 DEF NextOffset, PlanInv, PlanTypeOK
<1>6. ASSUME NEW k \in 1 .. Len(plan')
      PROVE  /\ plan'[k].id = k - 1
             /\ plan'[k].start = IF k - 1 = 0 THEN 0 ELSE plan'[k - 1].end + 1
             /\ plan'[k].start <= plan'[k].end
             /\ plan'[k].end < size'
  <2>1. CASE k \in 1 .. Len(plan)
    BY <2>1, <1>1, <1>2 DEF PlanInv, Partition, NextOffset
  <2>2. CASE k = Len(plan')
    BY <2>2, <1>1, <1>2, <1>3 DEF PlanInv, PlanTypeOK, NextOffset
  <2>3. QED
    BY <2>1, <2>2, <1>1
<1>7. Partition'
  <2>1. ~(size' <= 0 \/ arg' < 1) /\ ~returned'
    BY PlanAssumption DEF PlanInv, PlanTypeOK
  <2>2. QED
    BY <2>1, <1>6 DEF Partition, NextOffset
<1>8. QED
  BY <1>4, <1>5, <1>7

LEMMA InitPlanInv == PlanInit => PlanInv
<1> SUFFICES ASSUME PlanInit PROVE PlanInv
  OBVIOUS
<1> USE PlanAssumption
<1>1. size \in Int /\ arg \in Int /\ plan = <<>> /\ Len(plan) = 0 /\ at = 0
  BY DEF PlanInit
<1>2. PlanTypeOK
  <2>1. plan \in Seq(ChunkRange)
    BY <1>1
  <2>2. QED
    BY <2>1 DEF PlanInit, PlanTypeOK
<1>3. Partition
  BY <1>1 DEF PlanInit, Partition, NextOffset
<1>4. by = "pieces" => at = Len(plan) /\ at <= PieceCount(size, arg)
  BY <1>1 DEF PieceCount
<1>5. size > 0 /\ arg > 0 => NextOffset(Len(plan)) = LoopOffset
  <2> SUFFICES ASSUME size > 0, arg > 0
               PROVE  NextOffset(Len(plan)) = LoopOffset
    OBVIOUS
  <2>1. PieceCount(size, arg) \in Nat \ {0} /\ PieceCount(size, arg) <= size
    BY <1>1 DEF PieceCount
  <2>2. size \div PieceCount(size, arg) \in Nat
    BY <2>1, <1>1, PiecesFit
  <2>3. PieceStart(size, PieceCount(size, arg), 0) = 0
    BY <2>2 DEF PieceStart
  <2>4. QED
    BY <1>1, <2>1, <2>3 DEF NextOffset, LoopOffset
<1>6. QED
  BY <1>2, <1>3, <1>4, <1>5 DEF PlanInv, LoopInv, PlanInit

LEMMA PushPieceInv == PlanInv /\ PushPiece => PlanInv'
<1> SUFFICES ASSUME PlanInv, PushPiece PROVE PlanInv'
  OBVIOUS
<1> DEFINE n == PieceCount(size, arg)
           c == PieceBounds(size, n, at)
<1> USE PlanAssumption
<1>1. /\ by = "pieces" /\ ~returned /\ at = Len(plan) /\ at \in Nat /\ at < n
      /\ size \in Int /\ arg \in Int
  BY DEF PlanInv, LoopInv, PlanTypeOK, PushPiece, MorePieces
<1>2. size \in Nat /\ size > 0 /\ arg > 0 /\ n \in Nat \ {0} /\ n <= size
  BY <1>1 DEF PieceCount
<1>3. /\ c \in ChunkRange /\ c.id = at /\ c.start = PieceStart(size, n, at)
      /\ c.start <= c.end /\ c.end < size
      /\ c.end + 1 = IF at + 1 < n THEN PieceStart(size, n, at + 1) ELSE size
  BY <1>1, <1>2, PieceRange
<1>4. /\ plan' = Append(plan, c) /\ at' = at + 1
      /\ UNCHANGED <<size, by, arg, returned>>
  BY DEF PushPiece
<1>5. n' = n
  BY <1>4
<1> HIDE DEF n, c
<1>6. NextOffset(Len(plan)) = PieceStart(size, n, at)
  BY <1>1, <1>2 DEF PlanInv, LoopInv, LoopOffset, n
<1>7. PlanTypeOK' /\ Partition' /\ NextOffset(Len(plan))' = c.end + 1
  BY <1>1, <1>2, <1>3, <1>4, <1>6, AppendChunk
<1>8. LoopOffset' = IF at + 1 < n THEN PieceStart(size, n, at + 1) ELSE size
  BY <1>1, <1>4, <1>5 DEF LoopOffset, n
<1>9. Len(plan') = Len(plan) + 1
  BY <1>4, <1>3 DEF PlanInv, PlanTypeOK
<1>10. QED
  <2>1. (by = "pieces" => at = Len(plan) /\ at <= n)'
    BY <1>1, <1>2, <1>4, <1>5, <1>9
  <2>2. QED
    BY <1>1, <1>3, <1>4, <1>7, <1>8, <2>1 DEF PlanInv, LoopInv, n

LEMMA PushBytesInv == PlanInv /\ PushBytes => PlanInv'
<1> SUFFICES ASSUME PlanInv, PushBytes PROVE PlanInv'
  OBVIOUS
<1> DEFINE c == ByteBounds(size, arg, Len(plan), at)
<1> USE PlanAssumption
<1>1. /\ by = "bytes" /\ ~returned /\ size > 0 /\ arg > 0 /\ at < size
      /\ at \in Nat /\ size \in Int /\ arg \in Int /\ Len(plan) \in Nat
  BY DEF PlanInv, PlanTypeOK, PushBytes, MoreBytes
<1>2. NextOffset(Len(plan)) = at
  BY <1>1 DEF PlanInv, LoopInv, LoopOffset
<1>3. /\ c \in ChunkRange /\ c.id = Len(plan) /\ c.start = at
      /\ c.start <= c.end /\ c.end < size
      /\ c.end + 1 = IF at + arg < size THEN at + arg ELSE size
  BY <1>1 DEF ByteBounds, ChunkRange
<1>4. /\ plan' = Append(plan, c) /\ at' = at + arg
      /\ UNCHANGED <<size, by, arg, returned>>
  BY DEF PushBytes
<1> HIDE DEF c
<1>5. PlanTypeOK' /\ Partition' /\ NextOffset(Len(plan))' = c.end + 1
  BY <1>1, <1>2, <1>3, <1>4, AppendChunk
<1>6. QED
  BY <1>1, <1>3, <1>4, <1>5 DEF PlanInv, LoopInv, LoopOffset

LEMMA ReturnInv == PlanInv /\ Return => PlanInv'
<1> SUFFICES ASSUME PlanInv, Return PROVE PlanInv'
  OBVIOUS
<1> USE PlanAssumption
<1>1. UNCHANGED <<size, by, arg, plan, at>> /\ returned' = TRUE
  BY DEF Return
<1>2. PlanTypeOK' /\ LoopInv'
  BY <1>1 DEF PlanInv, PlanTypeOK, LoopInv, Return, MorePieces, MoreBytes,
              NextOffset, LoopOffset
<1>3. (returned /\ size > 0 /\ arg > 0 => NextOffset(Len(plan)) = size)'
  <2> SUFFICES ASSUME size > 0, arg > 0 PROVE NextOffset(Len(plan)) = size
    BY <1>1 DEF NextOffset
  <2>1. size \in Int /\ arg \in Int /\ at \in Nat /\ by \in {"pieces", "bytes"}
    BY DEF PlanInv, PlanTypeOK
  <2>2. LoopOffset = size
    BY <2>1 DEF Return, MorePieces, MoreBytes, LoopOffset
  <2>3. QED
    BY <2>2 DEF PlanInv, LoopInv
<1>4. Partition'
  BY <1>1, <1>3 DEF PlanInv, Partition, NextOffset
<1>5. QED
  BY <1>2, <1>4 DEF PlanInv

LEMMA PlanInvariant == PlanSpec => []PlanInv
<1>1. PlanInv /\ [PlanNext]_planVars => PlanInv'
  <2> SUFFICES ASSUME PlanInv, [PlanNext]_planVars PROVE PlanInv'
    OBVIOUS
  <2>1. CASE UNCHANGED planVars
    BY <2>1 DEF planVars, PlanInv, PlanTypeOK, Partition, LoopInv, MorePieces,
                MoreBytes, NextOffset, LoopOffset
  <2>2. QED
    BY <2>1, PushPieceInv, PushBytesInv, ReturnInv DEF PlanNext
<1>2. QED
  BY InitPlanInv, <1>1, PTL DEF PlanSpec

\* plan_chunks and plan_chunks_n cut any file into consecutive non-empty
\* ranges that cover it exactly, whatever its size and the argument.
THEOREM PlansPartition == PlanSpec => []Partition
<1>1. PlanInv => Partition
  BY DEF PlanInv
<1>2. QED
  BY <1>1, PlanInvariant, PTL

----------------------------------------------------------------------------
(* The lengths of the chunks. *)

\* All pieces have the same length, the last one the remainder as well.
LEMMA PieceLength ==
    ASSUME NEW bytes \in Nat, NEW n \in Nat \ {0}, n <= bytes,
           NEW i \in Nat, i < n,
           NEW b, b = PieceBounds(bytes, n, i)
    PROVE  /\ bytes \div n \in Nat
           /\ i + 1 < n => b.end - b.start + 1 = bytes \div n
           /\ i + 1 = n => /\ b.end - b.start + 1 >= bytes \div n
                           /\ b.end - b.start + 1 < bytes \div n + n
<1> DEFINE q == bytes \div n
           p == n * q
           s == i * q
<1>1. q \in Nat /\ p <= bytes
  BY PiecesFit
<1>2. bytes % n \in 0 .. n - 1 /\ bytes = p + (bytes % n)
  OBVIOUS
<1>3. p \in Nat /\ bytes < p + n
  BY <1>1, <1>2
<1>4. s \in Nat /\ s + q = (i + 1) * q
  BY <1>1
<1>5. i + 1 = n => s + q = p
  BY <1>4
<1>6. b = [id |-> i, start |-> s,
           end |-> IF i = n - 1 THEN bytes - 1 ELSE s + q - 1]
  BY DEF PieceBounds, PieceStart
<1> HIDE DEF q, p, s
<1>7. i + 1 < n => b.end - b.start + 1 = q
  BY <1>1, <1>4, <1>6
<1>8. i + 1 = n => b.end - b.start + 1 >= q /\ b.end - b.start + 1 < q + n
  BY <1>1, <1>3, <1>4, <1>5, <1>6
<1>9. QED
  BY <1>1, <1>7, <1>8 DEF q

\* A chunk by size is shorter than the size only at the end of the file.
LengthInv ==
    /\ by = "pieces" =>
           \A k \in 1 .. Len(plan) : plan[k] = PieceBounds(size, PieceCount(size, arg), k - 1)
    /\ by = "bytes" =>
           \A k \in 1 .. Len(plan) :
               /\ Length(k) <= arg
               /\ Length(k) = arg \/ (k = Len(plan) /\ at >= size)

LEMMA LengthStep == PlanInv /\ LengthInv /\ [PlanNext]_planVars => LengthInv'
<1> SUFFICES ASSUME PlanInv, LengthInv, [PlanNext]_planVars PROVE LengthInv'
  OBVIOUS
<1> USE PlanAssumption
<1>0. plan \in Seq(ChunkRange) /\ Len(plan) \in Nat /\ at \in Nat /\ size \in Int /\ arg \in Int
  BY DEF PlanInv, PlanTypeOK
<1>1. CASE PushPiece
  <2> DEFINE n == PieceCount(size, arg)
             c == PieceBounds(size, n, at)
  <2>1. /\ by = "pieces" /\ by' = by /\ size' = size /\ arg' = arg
        /\ plan' = Append(plan, c) /\ at = Len(plan)
    BY <1>1 DEF PushPiece, MorePieces, PlanInv, LoopInv
  <2>2. n' = n
    BY <2>1
  <2> HIDE DEF n, c
  <2>3. ASSUME NEW k \in 1 .. Len(plan') PROVE plan'[k] = PieceBounds(size, n, k - 1)
    <3>1. CASE k \in 1 .. Len(plan)
      BY <3>1, <2>1, <1>0 DEF LengthInv, n
    <3>2. CASE k = Len(plan) + 1
      BY <3>2, <2>1, <1>0 DEF c
    <3>3. QED
      BY <3>1, <3>2, <2>1, <1>0
  <2>4. QED
    BY <2>1, <2>2, <2>3 DEF LengthInv, n
<1>2. CASE PushBytes
  <2> DEFINE c == ByteBounds(size, arg, Len(plan), at)
  <2>1. /\ by = "bytes" /\ by' = by /\ size' = size /\ arg' = arg /\ arg > 0
        /\ at < size /\ at' = at + arg /\ plan' = Append(plan, c)
    BY <1>2 DEF PushBytes, MoreBytes
  <2>2. /\ c.end - c.start + 1 <= arg
        /\ c.end - c.start + 1 = arg \/ at + arg >= size
    BY <2>1, <1>0 DEF ByteBounds
  <2> HIDE DEF c
  <2>3. ASSUME NEW k \in 1 .. Len(plan')
        PROVE  /\ plan'[k].end - plan'[k].start + 1 <= arg
               /\ \/ plan'[k].end - plan'[k].start + 1 = arg
                  \/ k = Len(plan') /\ at' >= size
    <3>1. CASE k \in 1 .. Len(plan)
      BY <3>1, <2>1, <1>0 DEF LengthInv, Length
    <3>2. CASE k = Len(plan) + 1
      BY <3>2, <2>1, <2>2, <1>0
    <3>3. QED
      BY <3>1, <3>2, <2>1, <1>0
  <2>4. QED
    BY <2>1, <2>3 DEF LengthInv, Length
<1>3. CASE Return \/ UNCHANGED planVars
  BY <1>3 DEF Return, planVars, LengthInv, Length
<1>4. QED
  BY <1>1, <1>2, <1>3 DEF PlanNext

LEMMA LengthsFair == PlanInv /\ LengthInv => FairShares
<1> SUFFICES ASSUME PlanInv, LengthInv PROVE FairShares
  OBVIOUS
<1> USE PlanAssumption
<1>0. /\ plan \in Seq(ChunkRange) /\ Len(plan) \in Nat /\ at \in Nat
      /\ size \in Int /\ arg \in Int /\ by \in {"pieces", "bytes"}
  BY DEF PlanInv, PlanTypeOK
<1>1. \A k \in 1 .. Len(plan) : Length(k) \in Int
  <2> SUFFICES ASSUME NEW k \in 1 .. Len(plan) PROVE Length(k) \in Int
    OBVIOUS
  <2>1. plan[k] \in ChunkRange
    BY <1>0
  <2>2. QED
    BY <2>1 DEF Length, ChunkRange
<1>2. CASE by = "bytes"
  BY <1>0, <1>1, <1>2 DEF LengthInv, FairShares
<1>3. CASE by = "pieces" /\ plan = <<>>
  BY <1>3 DEF FairShares
<1>4. CASE by = "pieces" /\ plan # <<>>
  <2> DEFINE n == PieceCount(size, arg)
             q == size \div n
  <2>1. Len(plan) >= 1 /\ Len(plan) <= n /\ n \in Int
    BY <1>0, <1>4 DEF PlanInv, LoopInv, PieceCount
  <2>2. size \in Nat /\ n \in Nat \ {0} /\ n <= size /\ n <= arg
    BY <2>1, <1>0 DEF PieceCount
  <2>3. returned => Len(plan) = n
    BY <1>4, <2>1, <1>0 DEF PlanInv, LoopInv, MorePieces
  <2> HIDE DEF n
  <2>4. ASSUME NEW k \in 1 .. Len(plan)
        PROVE  /\ k < n => Length(k) = q
               /\ k = n => Length(k) >= q /\ Length(k) < q + n
    <3>1. k - 1 \in Nat /\ k - 1 < n /\ plan[k] = PieceBounds(size, n, k - 1)
      BY <1>0, <1>4, <2>1, <2>2 DEF LengthInv, n
    <3>2. /\ k - 1 + 1 < n => Length(k) = q
          /\ k - 1 + 1 = n => Length(k) >= q /\ Length(k) < q + n
      BY <3>1, <2>2, PieceLength DEF Length
    <3>3. QED
      BY <3>2, <1>0, <2>2
  <2>5. q \in Nat
    BY <2>2, PiecesFit
  <2> HIDE DEF q
  <2>6. \A k \in 1 .. Len(plan) : k < Len(plan) => Length(k) = Length(1)
    BY <1>0, <2>1, <2>2, <2>4
  <2>7. returned => /\ Length(Len(plan)) >= Length(1)
                    /\ Length(Len(plan)) < Length(1) + Len(plan)
    <3>1. CASE n = 1
      BY <3>1, <2>3, <1>1, <1>0, <2>1
    <3>2. CASE n > 1
      BY <3>2, <2>3, <2>4, <2>5, <1>1, <1>0, <2>1
    <3>3. QED
      BY <3>1, <3>2, <2>2
  <2>8. QED
    BY <1>4, <2>1, <2>2, <2>6, <2>7, <1>0 DEF FairShares
<1>5. QED
  BY <1>0, <1>2, <1>3, <1>4

\* Neither planner makes more pieces or larger ones than were asked for, and
\* all but the last are of one length, whatever the size and the argument.
THEOREM PlansAreFair == PlanSpec => []FairShares
<1>1. PlanInit => LengthInv
  BY DEF PlanInit, LengthInv
<1>2. QED
  BY <1>1, PlanInvariant, LengthStep, LengthsFair, PTL DEF PlanSpec

=============================================================================
