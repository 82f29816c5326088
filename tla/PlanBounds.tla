----------------------------- MODULE PlanBounds -----------------------------
(***************************************************************************)
(* The bounds of one Range chunk (include/proxchunk/plan_n.h,              *)
(* include/proxchunk/plan.hpp).  A chunk is an inclusive range of offsets. *)
(***************************************************************************)
EXTENDS Integers

\* plan_n_piece_count
PieceCount(bytes, n_pieces) ==
    IF bytes <= 0 \/ n_pieces < 1 THEN 0
    ELSE IF n_pieces > bytes THEN bytes ELSE n_pieces

PieceStart(bytes, n, i) == i * (bytes \div n)

\* Mutant: the last piece does not take the remainder.
RemainderLost(bytes, n, i) ==
    [id |-> i, start |-> PieceStart(bytes, n, i),
     end |-> PieceStart(bytes, n, i + 1) - 1]

\* plan_n_bounds, as a chunk.  The last piece takes the remainder.
PieceBounds(bytes, n, i) ==
    LET start == PieceStart(bytes, n, i)
    IN  IF bytes <= 0 \/ n < 1 \/ i < 0 \/ i >= n
        THEN [id |-> i, start |-> 0, end |-> -1]
        ELSE [id |-> i, start |-> start,
              end |-> IF i = n - 1 THEN bytes - 1
                      ELSE start + bytes \div n - 1]

\* Mutant: the end is one past the chunk.
OneByteMore(bytes, chunk_bytes, id, off) ==
    [id |-> id, start |-> off,
     end |-> IF off + chunk_bytes < bytes - 1 THEN off + chunk_bytes ELSE bytes - 1]

\* The chunk plan_chunks makes at an offset.
ByteBounds(bytes, chunk_bytes, id, off) ==
    [id |-> id, start |-> off,
     end |-> IF off + chunk_bytes - 1 < bytes - 1
             THEN off + chunk_bytes - 1 ELSE bytes - 1]

=============================================================================
