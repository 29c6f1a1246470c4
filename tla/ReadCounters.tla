---------------------------- MODULE ReadCounters ----------------------------
(***************************************************************************)
(* Read limits of notes and the buffered counters of the SQLite engine.    *)
(*                                                                         *)
(* Reads of ordinary notes and downloads are counted in memory and flushed *)
(* every five seconds; a read of a note that is limited or burns commits   *)
(* at once.  writeMu serialises ReadNote, UpdateNote, the trash, the flush,*)
(* DumpState and ReplaceStateJSON; only a download counts without it, and  *)
(* only the flush holds it across a step at which the buffers are open to  *)
(* others, so it is the one operation with two steps under writeMu.  A     *)
(* read whose commit fails changes nothing and is left out.                *)
(***************************************************************************)
EXTENDS Naturals

CONSTANTS
  Notes, Files,  \* ids, all distinct
  Workers,       \* requests that may download at the same time
  Limits,        \* values of max_read_count; 0 means no limit
  NoJob,         \* a worker that is not downloading
  MaxReads,      \* bound on the reads and downloads of one item
  Faults         \* a subset of FaultKinds

FaultKinds == {"flush", "crash"}

ASSUME CounterAssumption ==
  /\ Notes \intersect Files = {}
  /\ Limits \subseteq Nat /\ 0 \in Limits
  /\ NoJob \notin Files
  /\ MaxReads \in Nat
  /\ Faults \subseteq FaultKinds

Items  == Notes \union Files
Counts == [Items -> Nat]
None   == [n \in Items |-> 0]

VARIABLES
  state,     \* "none" before it is created, "live", "trash", "gone"
  count,     \* read_count and download_count of the rows
  limit,     \* max_read_count; that of a removed row is its last
  burn,      \* is_burn_after_read
  pending,   \* pendingReads and pendingDownloads
  batch,     \* the counters a running flush has taken
  flushing,  \* a flush holds writeMu
  job,       \* the file each worker has found and not counted yet
  backup,    \* the last exported state
  counted,   \* history: reads and downloads of the current state
  lost,      \* history: those a crash has taken from the buffers
  fresh      \* history: notes whose limits are those they were created with

rows    == <<state, count, limit, burn>>
buffers == <<pending, batch, flushing>>
history == <<counted, lost, fresh>>
vars    == <<state, count, limit, burn, pending, batch, flushing, job, backup,
             counted, lost, fresh>>

Backup == [state : [Items -> {"none", "live", "trash", "gone"}], count : Counts,
           limit : [Notes -> Limits], burn : [Notes -> BOOLEAN],
           truth : Counts, fresh : SUBSET Notes]

TypeOK ==
  /\ state \in [Items -> {"none", "live", "trash", "gone"}]
  /\ count \in Counts
  /\ limit \in [Notes -> Limits]
  /\ burn \in [Notes -> BOOLEAN]
  /\ pending \in Counts
  /\ batch \in Counts
  /\ flushing \in BOOLEAN
  /\ job \in [Workers -> Files \union {NoJob}]
  /\ backup \in Backup
  /\ counted \in Counts
  /\ lost \in Counts
  /\ fresh \subseteq Notes

Current(counts) ==
  [state |-> state, count |-> counts, limit |-> limit, burn |-> burn,
   truth |-> [n \in Items |-> counted[n] - lost[n]], fresh |-> fresh]

Init ==
  /\ state = [n \in Items |-> IF n \in Files THEN "live" ELSE "none"]
  /\ count = None
  /\ limit = [n \in Notes |-> 0]
  /\ burn = [n \in Notes |-> FALSE]
  /\ pending = None
  /\ batch = None
  /\ flushing = FALSE
  /\ job = [w \in Workers |-> NoJob]
  /\ counted = None
  /\ lost = None
  /\ fresh = Notes
  /\ backup = Current(None)

StoreFree == ~flushing
Has(n)    == state[n] \in {"live", "trash"}

-----------------------------------------------------------------------------
(* Notes.                                                                  *)

CreateNote(n, max, burns) ==
  /\ StoreFree
  /\ state[n] = "none"
  /\ state' = [state EXCEPT ![n] = "live"]
  /\ limit' = [limit EXCEPT ![n] = max]
  /\ burn' = [burn EXCEPT ![n] = burns]
  /\ UNCHANGED <<count, buffers, job, backup, history>>

\* The range check of updateNote sees the row, not the buffer.
UpdateNote(n, max, burns) ==
  /\ StoreFree
  /\ state[n] = "live"
  /\ max > 0 => max >= count[n]
  /\ limit' = [limit EXCEPT ![n] = max]
  /\ burn' = [burn EXCEPT ![n] = burns]
  /\ fresh' = fresh \ {n}
  /\ UNCHANGED <<state, count, buffers, job, backup, counted, lost>>

\* Mutant: a limit alone does not make reads synchronous.
RestrictedByBurn(n) == burn[n]
Restricted(n) == burn[n] \/ limit[n] > 0

ReadOrdinary(n) ==
  /\ StoreFree
  /\ state[n] = "live" /\ counted[n] < MaxReads
  /\ ~Restricted(n)
  /\ pending' = [pending EXCEPT ![n] = @ + 1]
  /\ counted' = [counted EXCEPT ![n] = @ + 1]
  /\ UNCHANGED <<rows, batch, flushing, job, backup, lost, fresh>>

\* commitRestrictedReadLocked: the row gets the buffered reads as well.
ReadRestricted(n) ==
  LET total  == count[n] + pending[n] + 1
      remove == burn[n] \/ total >= limit[n]
  IN  /\ StoreFree
      /\ state[n] = "live" /\ counted[n] < MaxReads
      /\ Restricted(n)
      /\ state' = IF remove THEN [state EXCEPT ![n] = "gone"] ELSE state
      /\ count' = [count EXCEPT ![n] = IF remove THEN @ ELSE total]
      /\ pending' = [pending EXCEPT ![n] = 0]
      /\ counted' = [counted EXCEPT ![n] = @ + 1]
      /\ UNCHANGED <<limit, burn, batch, flushing, job, backup, lost, fresh>>

\* DeleteNotes and DeleteFiles, RestoreTrash, PurgeTrash.
MoveItem(n) ==
  /\ StoreFree
  /\ \/ state[n] = "live" /\ state' = [state EXCEPT ![n] = "trash"]
     \/ state[n] = "trash" /\ state' = [state EXCEPT ![n] = "live"]
     \/ state[n] = "trash" /\ state' = [state EXCEPT ![n] = "gone"]
  /\ UNCHANGED <<count, limit, burn, buffers, job, backup, history>>

-----------------------------------------------------------------------------
(* Downloads: IncrementDownload looks for the row and counts without       *)
(* writeMu, at any time the handler holds dataMu in shared mode.           *)

FindFile(w, f) ==
  /\ job[w] = NoJob
  /\ state[f] = "live"
  /\ job' = [job EXCEPT ![w] = f]
  /\ UNCHANGED <<rows, buffers, backup, history>>

CountDownload(w) ==
  /\ job[w] # NoJob /\ counted[job[w]] < MaxReads
  /\ pending' = [pending EXCEPT ![job[w]] = @ + 1]
  /\ counted' = [counted EXCEPT ![job[w]] = @ + 1]
  /\ job' = [job EXCEPT ![w] = NoJob]
  /\ UNCHANGED <<rows, batch, flushing, backup, lost, fresh>>

-----------------------------------------------------------------------------
(* flushStats.                                                             *)

FlushTake ==
  /\ StoreFree
  /\ pending # None
  /\ batch' = pending
  /\ pending' = None
  /\ flushing' = TRUE
  /\ UNCHANGED <<rows, job, backup, history>>

\* Mutant: rows in the trash are passed over.
FlushCommitLive ==
  /\ flushing
  /\ count' = [n \in Items |-> count[n] + IF state[n] = "live" THEN batch[n] ELSE 0]
  /\ batch' = None
  /\ flushing' = FALSE
  /\ UNCHANGED <<state, limit, burn, pending, job, backup, history>>

FlushCommit ==
  /\ flushing
  /\ count' = [n \in Items |-> count[n] + IF Has(n) THEN batch[n] ELSE 0]
  /\ batch' = None
  /\ flushing' = FALSE
  /\ UNCHANGED <<state, limit, burn, pending, job, backup, history>>

\* Mutant: the batch replaces what has been counted in the meantime.
FlushFailsOverwrites ==
  /\ "flush" \in Faults
  /\ flushing
  /\ pending' = batch
  /\ batch' = None
  /\ flushing' = FALSE
  /\ UNCHANGED <<rows, job, backup, history>>

\* The batch joins what has been counted in the meantime.
FlushFails ==
  /\ "flush" \in Faults
  /\ flushing
  /\ pending' = [n \in Items |-> pending[n] + batch[n]]
  /\ batch' = None
  /\ flushing' = FALSE
  /\ UNCHANGED <<rows, job, backup, history>>

-----------------------------------------------------------------------------
(* Backup and restore.                                                     *)

\* Mutant: the buffers are left out.
DumpRowsOnly ==
  /\ StoreFree
  /\ backup' = Current(count)
  /\ UNCHANGED <<rows, buffers, job, history>>

\* DumpState holds writeMu and statsMu and adds the buffered counters.
DumpState ==
  /\ StoreFree
  /\ backup' = Current([n \in Items |-> count[n] + pending[n]])
  /\ UNCHANGED <<rows, buffers, job, history>>

\* commitRestore holds dataMu, so no download is under way; the flush is not
\* held up by dataMu.  The buffers belong to the state that is replaced.
ReplaceState ==
  /\ StoreFree
  /\ \A w \in Workers : job[w] = NoJob
  /\ state' = backup.state
  /\ count' = backup.count
  /\ limit' = backup.limit
  /\ burn' = backup.burn
  /\ pending' = None
  /\ counted' = backup.truth
  /\ lost' = None
  /\ fresh' = backup.fresh
  /\ UNCHANGED <<batch, flushing, job, backup>>

Crash ==
  /\ "crash" \in Faults
  /\ lost' = [n \in Items |-> lost[n] + pending[n] + batch[n]]
  /\ pending' = None
  /\ batch' = None
  /\ flushing' = FALSE
  /\ job' = [w \in Workers |-> NoJob]
  /\ UNCHANGED <<rows, backup, counted, fresh>>

Use ==
  \/ \E n \in Notes, max \in Limits, burns \in BOOLEAN :
       CreateNote(n, max, burns) \/ UpdateNote(n, max, burns)
  \/ \E n \in Notes : ReadOrdinary(n) \/ ReadRestricted(n)
  \/ \E n \in Items : MoveItem(n)
  \/ \E w \in Workers, f \in Files : FindFile(w, f)
  \/ \E w \in Workers : CountDownload(w)

Flush == FlushTake \/ FlushCommit \/ FlushFails

Next == Use \/ Flush \/ DumpState \/ ReplaceState \/ Crash

Spec == Init /\ [][Next]_vars

\* The store in use, without restores: statsLoop ticks for ever.
FairUse == Init /\ [][Use \/ Flush]_vars /\ WF_vars(Flush)
-----------------------------------------------------------------------------
(* Properties.                                                             *)

\* No read or download is counted twice or forgotten, except what a crash takes
\* from the buffers: whenever writeMu is free, the row and the buffer add up to
\* the number of reads, through flushes that fail, restores and downloads that
\* are counted while a flush is running.
CountsExact ==
  StoreFree => \A n \in Items : Has(n) => count[n] + pending[n] + lost[n] = counted[n]

\* A backup holds the exact counts, the unflushed ones included.
BackupExact ==
  \A n \in Items : backup.state[n] \in {"live", "trash"} => backup.count[n] = backup.truth[n]

\* A note that keeps the limits it was created with is read no more often than
\* they allow and is removed by the read that exhausts them, through crashes,
\* restores and restarts: a restricted read never waits in a buffer.
LimitsHold ==
  \A n \in fresh :
    /\ burn[n] => counted[n] <= 1
    /\ limit[n] > 0 => counted[n] <= limit[n]
    /\ Has(n) /\ burn[n] => counted[n] = 0
    /\ Has(n) /\ limit[n] > 0 => counted[n] < limit[n] /\ count[n] = counted[n]

\* Every read and download reaches its row, if the row is not removed.
ReadsSaved ==
  \A n \in Items, k \in 1..MaxReads :
    counted[n] = k ~> (~Has(n) \/ count[n] >= k)
=============================================================================
