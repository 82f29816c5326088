-------------------------------- MODULE Plan --------------------------------
(***************************************************************************)
(* Splitting a file into inclusive Range chunks                            *)
(* (include/proxchunk/plan_n.h, include/proxchunk/plan.hpp): plan_chunks_n *)
(* makes a number of equal pieces, plan_chunks pieces of a size.           *)
(* PlanBounds has the bounds of one chunk; here are the loops that collect *)
(* them.                                                                   *)
(*                                                                         *)
(* One step is one iteration of the loop of the function called.  The      *)
(* integers are unbounded: the code's int64_t offsets only overflow within *)
(* one chunk of 2^63.                                                      *)
(***************************************************************************)
EXTENDS PlanBounds, Sequences

CONSTANTS
    Sizes,  \* file sizes, in bytes
    Args    \* piece counts, or chunk sizes in bytes

ASSUME PlanAssumption == Sizes \subseteq Int /\ Args \subseteq Int

VARIABLES
    size,     \* the file's size
    by,       \* the function called: "pieces" plan_chunks_n, "bytes" plan_chunks
    arg,      \* its n_pieces, or its chunk_bytes
    plan,     \* out: the chunks so far
    at,       \* the loop variable: the piece index i, or the offset off
    returned

planVars == <<size, by, arg, plan, at, returned>>

----------------------------------------------------------------------------
PlanInit ==
    /\ size \in Sizes
    /\ by \in {"pieces", "bytes"}
    /\ arg \in Args
    /\ plan = <<>>
    /\ at = 0
    /\ returned = FALSE

MorePieces == by = "pieces" /\ at < PieceCount(size, arg)
MoreBytes == by = "bytes" /\ size > 0 /\ arg > 0 /\ at < size

PushPiece ==
    /\ ~returned /\ MorePieces
    /\ plan' = Append(plan, PieceBounds(size, PieceCount(size, arg), at))
    /\ at' = at + 1
    /\ UNCHANGED <<size, by, arg, returned>>

PushBytes ==
    /\ ~returned /\ MoreBytes
    /\ plan' = Append(plan, ByteBounds(size, arg, Len(plan), at))
    /\ at' = at + arg
    /\ UNCHANGED <<size, by, arg, returned>>

Return ==
    /\ ~returned /\ ~MorePieces /\ ~MoreBytes
    /\ returned' = TRUE
    /\ UNCHANGED <<size, by, arg, plan, at>>

PlanNext == PushPiece \/ PushBytes \/ Return
PlanSpec == PlanInit /\ [][PlanNext]_planVars

----------------------------------------------------------------------------
(* Properties. *)

ChunkRange == [id : Nat, start : Nat, end : Nat]

\* Every chunk is a non-empty range: the empty range (0, -1) that
\* plan_n_bounds writes for bad input is never planned.
PlanTypeOK ==
    /\ size \in Sizes /\ arg \in Args
    /\ by \in {"pieces", "bytes"}
    /\ plan \in Seq(ChunkRange)
    /\ at \in Nat
    /\ returned \in BOOLEAN

\* Where the chunk after the first k chunks must start.
NextOffset(k) == IF k = 0 THEN 0 ELSE plan[k].end + 1

\* The chunks are the file, each byte once and in order, ids counting from 0
\* (tests/verify_plan.c asserts it of the N-way split of small files): the
\* parts can be assembled by concatenating part.0, part.1, ...
Partition ==
    /\ \A k \in 1 .. Len(plan) :
           /\ plan[k].id = k - 1
           /\ plan[k].start = NextOffset(k - 1)
           /\ plan[k].start <= plan[k].end
           /\ plan[k].end < size
    /\ returned /\ size > 0 /\ arg > 0 => NextOffset(Len(plan)) = size
    /\ size <= 0 \/ arg < 1 => plan = <<>>

Length(k) == plan[k].end - plan[k].start + 1

\* A split by pieces makes no more pieces than were asked for, a split by
\* size no chunk larger than was asked for; all but the last chunk have the
\* same length, and the last piece's remainder is less than a byte per piece.
FairShares ==
    /\ by = "pieces" /\ plan # <<>> => Len(plan) <= arg
    /\ by = "bytes" => \A k \in 1 .. Len(plan) : Length(k) <= arg
    /\ \A k \in 1 .. Len(plan) : k < Len(plan) => Length(k) = Length(1)
    /\ by = "pieces" /\ plan # <<>> /\ returned =>
           /\ Length(Len(plan)) >= Length(1)
           /\ Length(Len(plan)) < Length(1) + Len(plan)

----------------------------------------------------------------------------
(* The invariant of the two loops, which makes Partition inductive. *)

\* Where the next chunk starts is a function of the loop variable.
LoopOffset ==
    IF by = "bytes" THEN IF at < size THEN at ELSE size
    ELSE LET n == PieceCount(size, arg)
         IN  IF at < n THEN PieceStart(size, n, at) ELSE size

LoopInv ==
    /\ size > 0 /\ arg > 0 => NextOffset(Len(plan)) = LoopOffset
    /\ by = "pieces" => at = Len(plan) /\ at <= PieceCount(size, arg)
    /\ returned => ~MorePieces /\ ~MoreBytes

PlanInv == PlanTypeOK /\ Partition /\ LoopInv

=============================================================================
