--------------------------- MODULE MCRestoreSwap ---------------------------
(* A library of two files and packages that pass the validation but not    *)
(* the swap: one lacks the bytes of a row, one has a bad configuration.    *)
EXTENDS RestoreSwap, TLC

CONSTANTS f1, f2, c1, c2

AllFaults   == FaultKinds
NoFaults    == {}
Incomplete  == [rows |-> f1 :> "live" @@ f2 :> "live", uploads |-> {f1}, config |-> c2]
Misconfigured == [rows |-> f1 :> "trash" @@ f2 :> "unused", uploads |-> {f1},
                  config |-> Invalid]
BadPackages == {Incomplete, Misconfigured}
NoPackages  == {}
=============================================================================
