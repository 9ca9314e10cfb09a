----------------------------- MODULE MCWorkerPool -----------------------------
(* Values of WorkerPool's constants for TLC.  A .cfg cannot write a        *)
(* negative number, and the sets are named for what they let in.           *)
EXTENDS WorkerPool

AnyTarget == {-1, 1, 2, 4}      \* for Cap = 2: none, fewer, equal, beyond
WithinCapacity == 1 .. Cap
BeyondCapacity == Cap .. Cap + 2
NoTarget == {}

=============================================================================
