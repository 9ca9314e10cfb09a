---------------------------- MODULE MCMessageFlow ----------------------------
(* Values of MessageFlow's constants for TLC: the API process and one      *)
(* worker process, one message, and as many copies as its retries and      *)
(* repeated deliveries need at one time.                                   *)
EXTENDS MessageFlow

CONSTANTS m1, worker

OneMessage == {m1}
FourCopies == 1 .. 4
BothHeaderTypes == {"int", "int32"}
PinnedHeaderType == {"int32"}
ApiAndWorker == {Api, worker}

=============================================================================
