--------------------------- MODULE MCReadCounters ---------------------------
(* Fault sets for ReadCounters. *)
EXTENDS ReadCounters

AllFaults == FaultKinds
=============================================================================
