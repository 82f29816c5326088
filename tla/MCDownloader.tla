---------------------------- MODULE MCDownloader ----------------------------
(* Downloader for TLC. *)
EXTENDS Downloader, TLC

CONSTANTS MaxSize, MaxArg, TransferSize, TransferArg

SmallSizes == 1 .. MaxSize
SmallArgs == 1 .. MaxArg

\* Plans of every small size and argument, transfers of one file cut one way.
TransfersOfOneFile ==
    main \in {"probe", "target", "plan"} \/
        (size = TransferSize /\ arg = TransferArg /\ by = "bytes")

Interchangeable == Permutations(Worker) \cup Permutations(Proxy)

=============================================================================
