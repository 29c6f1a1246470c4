---------------------------- MODULE RestoreSwap ----------------------------
(***************************************************************************)
(* Backup and restore of the whole library.                                *)
(*                                                                         *)
(* A restore unpacks and validates a package without any lock and then     *)
(* swaps, under dataMu held exclusively, the uploads directory, the rows   *)
(* and the configuration, one after the other.  Every step may fail and is *)
(* rolled back by hand; the errors of the rollback itself are ignored.  A  *)
(* kill in between leaves what is on disk, and the next start only makes   *)
(* sure that the uploads directory exists.                                 *)
(*                                                                         *)
(* Data requests hold dataMu in shared mode: to a swap each of them is one *)
(* action.  A backup is such a request, but other requests go on beside    *)
(* it.  The cleanup goroutine of main does not take dataMu at all.         *)
(*                                                                         *)
(* Every file has bytes of its own (BlobStore looks at shared entities).   *)
(* A directory is the set of files whose bytes are in it; one that does    *)
(* not exist counts as empty.  The bytes of a file weigh 1; the state, the *)
(* configuration and the manifest of a package weigh MetaSize together.    *)
(***************************************************************************)
EXTENDS Naturals, FiniteSets

CONSTANTS
  Files,      \* names of file rows, never given twice
  Configs,    \* configurations RestoreJSON accepts
  Invalid,    \* one that it refuses
  Restorers,  \* restore requests at the same time
  Nothing,    \* no package
  Crafted,    \* packages made elsewhere that pass the validation
  MaxSize,    \* backup_max_mb, the limit of a backup and of a restore
  MetaSize,   \* what a package weighs without its files
  MaxFiles,   \* maxRestoreManifestFiles
  Overlap,    \* TRUE: the cleanup goroutine may run during a swap, as it does
  Faults      \* a subset of FaultKinds

FaultKinds == {"drop_old", "move_out", "move_in", "replace", "save_config", "rollback",
               "cleanup", "kill"}
Status  == {"unused", "live", "trash", "gone"}
Kept    == {"live", "trash"}
Package == [rows : [Files -> Status], uploads : SUBSET Files,
            config : Configs \union {Invalid}]

ASSUME RestoreAssumption ==
  /\ Invalid \notin Configs
  /\ Nothing \notin Package
  /\ Crafted \subseteq Package
  /\ MaxSize \in Nat /\ MetaSize \in Nat /\ MaxFiles \in Nat
  /\ Overlap \in BOOLEAN
  /\ Faults \subseteq FaultKinds

VARIABLES
  rows,       \* the file rows of the store
  uploads,    \* the directory uploads: the files whose bytes are in it
  saved,      \* the directory uploads.pre-restore
  config,     \* the configuration, in memory and on disk
  step,       \* what the request that holds dataMu does next; "free": nobody
  pack,       \* the package it installs
  oldRows,    \* its snapshot of the rows
  oldConfig,  \* and of the configuration
  failedAt,   \* the step that failed
  staged,     \* the package every restore request has unpacked
  backup,     \* the backup request: [at, rows, config, copied]
  archive,    \* the backup that was made last, until it is restored
  purged,     \* files whose bytes the cleanup goroutine must remove
  broken      \* history: "no", "killed" in mid-swap, or "worse"

swap == <<step, pack, oldRows, oldConfig, failedAt>>
vars == <<rows, uploads, saved, config, swap, staged, backup, archive, purged, broken>>

Undo     == {"clear", "move_back", "undo_rows", "undo_config"}
Swapping == {"drop_old", "move_out", "move_in", "rows", "verify", "config"}
Steps    == {"free", "finish"} \union Swapping \union Undo

BackupJob == [at : {"idle", "rows", "check", "copy"}, rows : [Files -> Status],
              config : Configs, copied : SUBSET Files]

TypeOK ==
  /\ rows \in [Files -> Status]
  /\ uploads \subseteq Files
  /\ saved \subseteq Files
  /\ config \in Configs
  /\ step \in Steps
  /\ pack \in Package
  /\ oldRows \in [Files -> Status]
  /\ oldConfig \in Configs
  /\ failedAt \in Swapping
  /\ staged \in [Restorers -> Package \union {Nothing}]
  /\ backup \in BackupJob
  /\ archive \in Package \union {Nothing}
  /\ purged \subseteq Files
  /\ broken \in {"no", "killed", "worse"}

KeptIn(r)   == {f \in Files : r[f] \in Kept}
Complete(p) == KeptIn(p.rows) \subseteq p.uploads

\* applyRestore refuses a package with too many files or bytes, those of the
\* state, the configuration and the manifest included.  The limit on ZIP entries,
\* maxRestoreZIPEntries, is wider for packages with one entry per file.
Accepted(p) ==
  Cardinality(p.uploads) <= MaxFiles /\ Cardinality(p.uploads) + MetaSize <= MaxSize

\* The local variables of a request that is not there.
NoPack   == [rows |-> [f \in Files |-> "unused"], uploads |-> {},
             config |-> CHOOSE c \in Configs : TRUE]
NoBackup == [at |-> "idle", rows |-> NoPack.rows, config |-> NoPack.config, copied |-> {}]

\* The archive at the start is a backup of the first state, if it can be restored.
Init ==
  /\ rows \in [Files -> {"unused", "live", "trash"}]
  /\ uploads = KeptIn(rows)
  /\ saved = {}
  /\ config \in Configs
  /\ step = "free"
  /\ archive = LET p == [rows |-> rows, uploads |-> uploads, config |-> config]
               IN  IF Accepted(p) THEN p ELSE Nothing
  /\ pack = NoPack
  /\ oldRows = NoPack.rows
  /\ oldConfig = NoPack.config
  /\ failedAt = "move_in"
  /\ staged = [r \in Restorers |-> Nothing]
  /\ backup = NoBackup
  /\ purged = {}
  /\ broken = "no"

\* dataMu can be had in shared mode.
Open == step = "free"

-----------------------------------------------------------------------------
(* Data requests: the writes of the store and the files that matter here.  *)

\* uploadFile makes the directories it needs.
Upload(f) ==
  /\ Open
  /\ rows[f] = "unused"
  /\ rows' = [rows EXCEPT ![f] = "live"]
  /\ uploads' = uploads \union {f}
  /\ UNCHANGED <<saved, config, swap, staged, backup, archive, purged, broken>>

\* DeleteFiles and RestoreTrash.
Move(f) ==
  /\ Open
  /\ \/ rows[f] = "live" /\ rows' = [rows EXCEPT ![f] = "trash"]
     \/ rows[f] = "trash" /\ rows' = [rows EXCEPT ![f] = "live"]
  /\ UNCHANGED <<uploads, saved, config, swap, staged, backup, archive, purged, broken>>

\* purgeTrash, from staging the bytes to removing them.
Purge(f) ==
  /\ Open
  /\ rows[f] = "trash"
  /\ rows' = [rows EXCEPT ![f] = "gone"]
  /\ uploads' = uploads \ {f}
  /\ UNCHANGED <<saved, config, swap, staged, backup, archive, purged, broken>>

Configure(c) ==
  /\ Open
  /\ config' = c
  /\ UNCHANGED <<rows, uploads, saved, swap, staged, backup, archive, purged, broken>>

-----------------------------------------------------------------------------
(* generateBackup, a data request from BackupJSON to the closed archive.   *)

BackupConfig ==
  /\ Open /\ archive = Nothing
  /\ backup.at = "idle"
  /\ backup' = [backup EXCEPT !.at = "rows", !.config = config]
  /\ UNCHANGED <<rows, uploads, saved, config, swap, staged, archive, purged, broken>>

BackupRows ==
  /\ backup.at = "rows"
  /\ backup' = [backup EXCEPT !.at = "check", !.rows = rows]
  /\ UNCHANGED <<rows, uploads, saved, config, swap, staged, archive, purged, broken>>

\* Every file is looked at before the archive is begun; only their bytes count.
BackupCheck ==
  /\ backup.at = "check"
  /\ backup' = IF /\ KeptIn(backup.rows) \subseteq uploads
                  /\ Cardinality(KeptIn(backup.rows)) <= MaxSize
               THEN [backup EXCEPT !.at = "copy"] ELSE NoBackup
  /\ UNCHANGED <<rows, uploads, saved, config, swap, staged, archive, purged, broken>>

BackupCopy(f) ==
  /\ backup.at = "copy" /\ f \in KeptIn(backup.rows) \ backup.copied
  /\ backup' = IF f \in uploads
               THEN [backup EXCEPT !.copied = @ \union {f}]
               ELSE NoBackup
  /\ UNCHANGED <<rows, uploads, saved, config, swap, staged, archive, purged, broken>>

\* Mutant: a file that has disappeared since is passed over.
BackupDoneShort ==
  /\ backup.at = "copy"
  /\ KeptIn(backup.rows) \intersect uploads \subseteq backup.copied
  /\ archive' = [rows |-> backup.rows, uploads |-> backup.copied,
                 config |-> backup.config]
  /\ backup' = NoBackup
  /\ UNCHANGED <<rows, uploads, saved, config, swap, staged, purged, broken>>

BackupDone ==
  /\ backup.at = "copy" /\ backup.copied = KeptIn(backup.rows)
  /\ archive' = [rows |-> backup.rows, uploads |-> backup.copied,
                 config |-> backup.config]
  /\ backup' = NoBackup
  /\ UNCHANGED <<rows, uploads, saved, config, swap, staged, purged, broken>>

-----------------------------------------------------------------------------
(* The cleanup goroutine.                                                  *)

CleanerMay == Overlap \/ Open

\* CleanupExpired with any set of expired files.
Expire(S) ==
  /\ CleanerMay /\ purged = {}
  /\ \A f \in S : rows[f] = "live"
  /\ rows' = [f \in Files |-> IF f \in S THEN "trash" ELSE rows[f]]
  /\ UNCHANGED <<uploads, saved, config, swap, staged, backup, archive, purged, broken>>

PurgeExpired(S) ==
  /\ CleanerMay /\ purged = {}
  /\ \A f \in S : rows[f] = "trash"
  /\ rows' = [f \in Files |-> IF f \in S THEN "gone" ELSE rows[f]]
  /\ purged' = S
  /\ UNCHANGED <<uploads, saved, config, swap, staged, backup, archive, broken>>

\* The path is that of the purged row; the row of the same id does not count
\* as a reference to it.
RemoveBytes(f) ==
  /\ CleanerMay /\ f \in purged
  /\ uploads' = uploads \ {f}
  /\ purged' = purged \ {f}
  /\ UNCHANGED <<rows, saved, config, swap, staged, backup, archive, broken>>

-----------------------------------------------------------------------------
(* restore and applyRestore: everything that needs no lock.  A package     *)
(* that does not pass the validation leaves no trace, nor does one that is *)
(* over a limit.  An archive is restored at most once.                     *)

Stage(r, p) ==
  /\ staged[r] = Nothing /\ p # Nothing /\ Accepted(p)
  /\ staged' = [staged EXCEPT ![r] = p]
  /\ archive' = IF p = archive THEN Nothing ELSE archive
  /\ UNCHANGED <<rows, uploads, saved, config, swap, backup, purged, broken>>

-----------------------------------------------------------------------------
(* commitRestore.                                                          *)

Store == <<rows, config, staged, backup, archive, purged>>

\* A failed step, or a kill once uploads.pre-restore is removed, is harmless
\* unless an earlier kill has left the only copy of the uploads in there.
Worsen == broken' = IF broken = "no" THEN "no" ELSE "worse"

\* The deferred unlock of dataMu, after an error as well.
Release ==
  /\ step' = "free"
  /\ pack' = NoPack
  /\ oldRows' = NoPack.rows
  /\ oldConfig' = NoPack.config
  /\ failedAt' = "move_in"

Continue(next) == step' = next /\ UNCHANGED <<pack, oldRows, oldConfig, failedAt>>

Fails(next) ==
  /\ step' = next /\ failedAt' = step
  /\ Worsen
  /\ UNCHANGED <<pack, oldRows, oldConfig>>

\* dataMu is free of data requests; snapshots of the state and the config.
Snapshot(r) ==
  /\ Open /\ backup.at = "idle" /\ (Overlap \/ purged = {})
  /\ staged[r] # Nothing
  /\ pack' = staged[r]
  /\ staged' = [staged EXCEPT ![r] = Nothing]
  /\ oldRows' = rows
  /\ oldConfig' = config
  /\ step' = "drop_old"
  /\ UNCHANGED <<rows, uploads, saved, config, failedAt, backup, archive, purged, broken>>

\* A leftover uploads.pre-restore goes first, whatever it holds; if it cannot be
\* removed, or not all of it, nobody is told.
DropOld ==
  /\ step = "drop_old"
  /\ \/ saved' = {}
     \/ "drop_old" \in Faults /\ saved' \in SUBSET saved
  /\ Continue("move_out")
  /\ UNCHANGED <<Store, uploads, broken>>

\* Mutant: the old directory is removed, not renamed.
MoveOutRemoves ==
  /\ step = "move_out"
  /\ uploads' = {}
  /\ Continue("move_in")
  /\ UNCHANGED <<Store, saved, broken>>

\* A directory is not renamed to one that is not empty.
MoveOut ==
  /\ step = "move_out"
  /\ \/ /\ saved = {}
        /\ saved' = uploads
        /\ uploads' = {}
        /\ Continue("move_in")
        /\ UNCHANGED broken
     \/ /\ saved # {} \/ "move_out" \in Faults
        /\ Release /\ Worsen
        /\ UNCHANGED <<uploads, saved>>
  /\ UNCHANGED Store

MoveIn ==
  /\ step = "move_in"
  /\ \/ /\ uploads' = pack.uploads
        /\ Continue("rows")
        /\ UNCHANGED broken
     \/ /\ "move_in" \in Faults
        /\ Fails("clear")
        /\ UNCHANGED uploads
  /\ UNCHANGED <<Store, saved>>

\* Rows of the package replace all others; a name stays used for ever.
Installed(r) ==
  [f \in Files |-> IF r[f] \in Kept THEN r[f]
                   ELSE IF rows[f] = "unused" THEN "unused" ELSE "gone"]

\* ReplaceStateJSON, one transaction.
ReplaceRows ==
  /\ step = "rows"
  /\ \/ /\ rows' = Installed(pack.rows)
        /\ Continue("verify")
        /\ UNCHANGED broken
     \/ /\ "replace" \in Faults
        /\ Fails("clear")
        /\ UNCHANGED rows
  /\ UNCHANGED <<uploads, saved, config, staged, backup, archive, purged>>

\* Mutant: the manifest is trusted.
VerifyNothing ==
  /\ step = "verify"
  /\ Continue("config")
  /\ UNCHANGED <<Store, uploads, saved, broken>>

\* verifyReferencedBlobs
Verify ==
  /\ step = "verify"
  /\ IF KeptIn(pack.rows) \subseteq uploads
     THEN Continue("config") /\ UNCHANGED broken
     ELSE Fails("clear")
  /\ UNCHANGED <<Store, uploads, saved>>

\* RestoreJSON validates the configuration, saves it and publishes it.
RestoreConfig ==
  /\ step = "config"
  /\ \/ /\ pack.config # Invalid
        /\ config' = pack.config
        /\ Continue("finish")
        /\ UNCHANGED broken
     \/ /\ pack.config = Invalid \/ "save_config" \in Faults
        /\ Fails("clear")
        /\ UNCHANGED config
  /\ UNCHANGED <<rows, uploads, saved, staged, backup, archive, purged>>

\* A warning is all that becomes of old uploads that cannot be removed.
Finish ==
  /\ step = "finish"
  /\ \/ saved' = {}
     \/ "cleanup" \in Faults /\ saved' = saved
  /\ Release
  /\ UNCHANGED <<Store, uploads, broken>>

\* restoreUploads: the new directory goes, the old one comes back.
Clear ==
  /\ step = "clear"
  /\ uploads' = {}
  /\ Continue("move_back")
  /\ UNCHANGED <<Store, saved, broken>>

\* A failed step of the rollback is passed over.
UndoFails == "rollback" \in Faults /\ broken' = "worse"

MoveBack ==
  /\ step = "move_back"
  /\ \/ uploads' = saved /\ saved' = {} /\ UNCHANGED broken
     \/ UndoFails /\ UNCHANGED <<uploads, saved>>
  /\ IF failedAt = "move_in" THEN Release ELSE Continue("undo_rows")
  /\ UNCHANGED Store

\* Mutant: only the failure of the last step puts the rows back.
UndoRowsForConfig ==
  /\ step = "undo_rows"
  /\ IF failedAt = "config" THEN rows' = oldRows /\ Continue("undo_config")
                            ELSE Release /\ UNCHANGED rows
  /\ UNCHANGED <<uploads, saved, config, staged, backup, archive, purged, broken>>

UndoRows ==
  /\ step = "undo_rows"
  /\ \/ rows' = oldRows /\ UNCHANGED broken
     \/ UndoFails /\ UNCHANGED rows
  /\ IF failedAt = "config" THEN Continue("undo_config") ELSE Release
  /\ UNCHANGED <<uploads, saved, config, staged, backup, archive, purged>>

UndoConfig ==
  /\ step = "undo_config"
  /\ \/ config' = oldConfig /\ UNCHANGED broken
     \/ UndoFails /\ UNCHANGED config
  /\ Release
  /\ UNCHANGED <<rows, uploads, saved, staged, backup, archive, purged>>

-----------------------------------------------------------------------------
(* A kill and the next start, which makes the directory uploads again.     *)

Kill ==
  /\ "kill" \in Faults
  /\ staged' = [r \in Restorers |-> Nothing]
  /\ Release
  /\ backup' = NoBackup
  /\ purged' = {}
  /\ IF step \in {"free", "drop_old", "finish"} THEN UNCHANGED broken
     ELSE IF step = "move_out" THEN Worsen
     ELSE broken' = IF broken = "no" /\ step \notin Undo /\ Complete(pack)
                    THEN "killed" ELSE "worse"
  /\ UNCHANGED <<rows, uploads, saved, config, archive>>

Request ==
  \/ \E f \in Files : Upload(f) \/ Move(f) \/ Purge(f)
  \/ \E c \in Configs : Configure(c)

MakeBackup ==
  \/ BackupConfig \/ BackupRows \/ BackupCheck \/ BackupDone
  \/ \E f \in Files : BackupCopy(f)

Clean ==
  \/ \E S \in SUBSET Files \ {{}} : Expire(S) \/ PurgeExpired(S)
  \/ \E f \in Files : RemoveBytes(f)

Commit ==
  \/ \E r \in Restorers : Snapshot(r)
  \/ DropOld \/ MoveOut \/ MoveIn \/ ReplaceRows \/ Verify \/ RestoreConfig \/ Finish
  \/ Clear \/ MoveBack \/ UndoRows \/ UndoConfig

Next ==
  \/ Request \/ MakeBackup \/ Clean \/ Commit \/ Kill
  \/ \E r \in Restorers, p \in Crafted \union {archive} : Stage(r, p)

Spec == Init /\ [][Next]_vars
-----------------------------------------------------------------------------
(* Properties.                                                             *)

\* While data requests run they see one generation: every row has its bytes,
\* whatever restores have been made, have failed at any step and been rolled
\* back, or were killed before or after the swap.
OneGeneration ==
  Open /\ broken = "no" => KeptIn(rows) \subseteq uploads

\* A kill in the middle of a swap may leave rows, uploads and configuration of
\* different generations, but that kill alone puts nothing beyond repair: the
\* bytes of every row are in uploads or still in uploads.pre-restore, through all
\* requests and restores since that have not failed.  The next restore begins by
\* removing uploads.pre-restore, so if it fails or is killed as well the bytes
\* may be lost: "worse".  So may a kill within the rollback.
Salvageable ==
  Open /\ broken # "worse" => KeptIn(rows) \subseteq uploads \union saved

\* A backup that is made is complete, also if the library is purged beside it:
\* generateBackup looks at every file before it begins and fails when one is
\* missing afterwards.
BackupWhole ==
  archive # Nothing => Complete(archive) /\ archive.config \in Configs

\* Rows, uploads and configuration as data requests would see them if the
\* swap under way took place at the moment its last step succeeds.
RowsSeen    == IF step \in Swapping \union Undo THEN oldRows ELSE rows
UploadsSeen == IF step \in (Swapping \ {"drop_old", "move_out"}) \union {"clear", "move_back"}
               THEN saved ELSE uploads

Library == INSTANCE LibraryWhole WITH
  rows <- RowsSeen, uploads <- UploadsSeen, broken <- broken # "no"

\* A restore replaces the library as a whole or has no effect.
Refines == Library!Spec
=============================================================================
