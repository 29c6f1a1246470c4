---------------------------- MODULE MCBlobStore ----------------------------
(* Small libraries for BlobStore: two files with the same bytes, one alone. *)
EXTENDS BlobStore, TLC

CONSTANTS f1, f2, f3, d1, d2, w1, w2

SharedContent == f1 :> d1 @@ f2 :> d1 @@ f3 :> d2
SharedPair    == f1 :> d1 @@ f2 :> d1
AnyStatus     == {"unused", "live", "trash"}
AllFaults     == FaultKinds
NoFaults      == {}
\* What the future and UnsharedKept depend on: not the last job of an actor that
\* rests, and not the history.
WhatMatters == <<row, blobs, purging, writer, pc, todo, seen,
                 [w \in Actors |-> IF pc[w] = "idle" THEN {} ELSE {job[w]}]>>
WorkerSymmetry == Permutations(Workers)
=============================================================================
