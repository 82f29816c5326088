------------------------- MODULE MCDaemonLifecycle -------------------------
(* DaemonLifecycle for TLC: processes are interchangeable. *)
EXTENDS DaemonLifecycle, TLC

Interchangeable == Permutations(Proc)

=============================================================================
