----------------------------- MODULE MCProgress -----------------------------
(* What must happen in the end, and what holds when requests take turns:    *)
(* `mode` says whether a behaviour is about uploads and purges one at a     *)
(* time (BlobStore as it is), about deletes, restores and purges that race  *)
(* (Racing), or about the counters and their flush loop (Counting), each    *)
(* without crashes.  What it is not about rests.                            *)
EXTENDS BlobStore, TLC

CONSTANTS f1, f2, f3, d1, d2, w1, w2, n1

SharedContent == f1 :> d1 @@ f2 :> d1 @@ f3 :> d2
AnyStatus     == {"unused", "live", "trash"}
WriteFaults   == {"store_write", "rename"}

VARIABLES
  mode,
  rRow, rBlobs, rPurging, rWriter, rPc, rJob, rTodo, rSeen, rStranded,
  state, count, limit, burn, pending, batch, flushing, download, backup, counted,
  lost, fresh

Racing == INSTANCE BlobStore WITH
  Files <- {f1, f2}, Content <- f1 :> d1 @@ f2 :> d1, Workers <- {w1, w2},
  InitStatus <- {"live", "trash"}, Serial <- FALSE,
  row <- rRow, blobs <- rBlobs, purging <- rPurging, writer <- rWriter, pc <- rPc,
  job <- rJob, todo <- rTodo, seen <- rSeen, stranded <- rStranded

Counting == INSTANCE ReadCounters WITH
  Notes <- {n1}, Files <- {f1}, Limits <- {0, 1, 2}, NoJob <- NoActor, MaxReads <- 3,
  Faults <- {}, job <- download

racingVars  == <<rRow, rBlobs, rPurging, rWriter, rPc, rJob, rTodo, rSeen,
                 rStranded>>
counterVars == <<state, count, limit, burn, pending, batch, flushing, download, backup,
                 counted, lost, fresh>>
all         == <<mode, vars, racingVars, counterVars>>

\* What is not looked at starts without a row that must be dealt with.
ModesInit ==
  /\ mode \in {"serial", "races", "counters"}
  /\ Init /\ Racing!Init /\ Counting!Init
  /\ mode # "serial" => \A f \in Files : row[f] = "unused"
  /\ mode # "races" => \A f \in {f1, f2} : rRow[f] = "live"

Serially == mode = "serial" /\ UNCHANGED <<mode, racingVars, counterVars>>
InRaces  == mode = "races" /\ UNCHANGED <<mode, vars, counterVars>>
InUse    == mode = "counters" /\ UNCHANGED <<mode, vars, racingVars>>

ModesNext ==
  \/ Serially /\ Next
  \/ InRaces /\ Racing!Next
  \/ InUse /\ Counting!Use
  \/ InUse /\ Counting!Flush

\* The fairness of BlobStore!FairSpec and ReadCounters!FairUse.
ModesSpec ==
  /\ ModesInit /\ [][ModesNext]_all
  /\ \A w \in Actors : WF_all(Serially /\ Progress(w))
  /\ \A w \in {w1, w2, Cleaner} : WF_all(InRaces /\ Racing!Progress(w))
  /\ WF_all(InUse /\ Counting!Flush)
-----------------------------------------------------------------------------
(* LiveHasEntity, NoResidue and EntityReclaimed are BlobStore's.            *)

\* Racing restores and purges: an entity that a purge has moved comes back.
RacingReturns == Racing!EntityReturns

\* Every counted read reaches the row (flushStats, statsLoop).
ReadsSaved == Counting!ReadsSaved
=============================================================================
