--------------------------- MODULE MCIngestWorker ---------------------------
(* IngestWorker for TLC: workers are interchangeable, and a run says where   *)
(* SIGINT may arrive.                                                        *)
EXTENDS IngestWorker, TLC

Interchangeable == Permutations(Workers)

Anywhere == TryBlock \cup OutsideTry

\* While the retention and the close of the cycle are at the database.
AfterTry == {"pruning", "deleting", "finishing"}

=============================================================================
