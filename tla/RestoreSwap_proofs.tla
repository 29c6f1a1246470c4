-------------------------- MODULE RestoreSwap_proofs --------------------------
(***************************************************************************)
(* Proofs about RestoreSwap, for every set of files, configurations,       *)
(* restorers, packages and faults.                                         *)
(***************************************************************************)
EXTENDS RestoreSwap, TLAPS

LEMMA Blank ==
  ASSUME Configs # {}
  PROVE  /\ NoPack \in Package /\ NoPack.rows \in [Files -> Status]
         /\ NoPack.config \in Configs
         /\ NoBackup \in BackupJob /\ NoBackup.at = "idle"
<1>1. (CHOOSE c \in Configs : TRUE) \in Configs
  OBVIOUS
<1>2. NoPack \in Package /\ NoPack.rows \in [Files -> Status] /\ NoPack.config \in Configs
  BY <1>1 DEF NoPack, Package, Status
<1>3. NoBackup \in BackupJob /\ NoBackup.at = "idle"
  BY <1>2 DEF NoBackup, BackupJob
<1> QED
  BY <1>2, <1>3

LEMMA InitTypeOK == Init => TypeOK
<1> SUFFICES ASSUME Init PROVE TypeOK
  OBVIOUS
<1>1. Configs # {}
  BY DEF Init
<1>2. rows \in [Files -> Status] /\ uploads \subseteq Files /\ config \in Configs
  BY DEF Init, Status, KeptIn
<1>3. archive \in Package \union {Nothing}
  BY <1>2 DEF Init, Package
<1>4. staged \in [Restorers -> Package \union {Nothing}]
  BY DEF Init
<1>5. pack \in Package /\ oldRows \in [Files -> Status] /\ oldConfig \in Configs
      /\ backup \in BackupJob
  BY <1>1, Blank DEF Init
<1> HIDE DEF Package, BackupJob
<1> QED
  BY <1>2, <1>3, <1>4, <1>5 DEF Init, TypeOK, Steps, Swapping

LEMMA NextTypeOK == TypeOK /\ [Next]_vars => TypeOK'
<1> SUFFICES ASSUME TypeOK, [Next]_vars PROVE TypeOK'
  OBVIOUS
<1>0. /\ NoPack \in Package /\ NoPack.rows \in [Files -> Status]
      /\ NoPack.config \in Configs
      /\ NoBackup \in BackupJob /\ NoBackup.at = "idle"
  BY Blank DEF TypeOK
<1> USE RestoreAssumption
    DEF TypeOK, Steps, Swapping, Undo, swap, Store, Release, Continue, Fails, Worsen, UndoFails
<1>1. ASSUME NEW f \in Files, Upload(f) PROVE TypeOK'
  BY <1>1 DEF Upload, Status
<1>2. ASSUME NEW f \in Files, Move(f) PROVE TypeOK'
  BY <1>2 DEF Move, Status
<1>3. ASSUME NEW f \in Files, Purge(f) PROVE TypeOK'
  BY <1>3 DEF Purge, Status
<1>4. ASSUME NEW c \in Configs, Configure(c) PROVE TypeOK'
  BY <1>4 DEF Configure
<1>5. CASE BackupConfig
  BY <1>5 DEF BackupConfig, BackupJob
<1>6. CASE BackupRows
  BY <1>6 DEF BackupRows, BackupJob
<1>7. CASE BackupCheck
  <2>1. [backup EXCEPT !.at = "copy"] \in BackupJob
    BY DEF BackupJob
  <2> QED
    BY <1>0, <1>7, <2>1 DEF BackupCheck
<1>8. ASSUME NEW f \in Files, BackupCopy(f) PROVE TypeOK'
  <2>1. [backup EXCEPT !.copied = @ \union {f}] \in BackupJob
    BY DEF BackupJob
  <2> QED
    BY <1>0, <1>8, <2>1 DEF BackupCopy
<1>9. CASE BackupDone
  <2>1. [rows |-> backup.rows, uploads |-> backup.copied, config |-> backup.config]
          \in Package
    BY DEF BackupJob, Package
  <2> QED
    BY <1>0, <1>9, <2>1 DEF BackupDone
<1>10. ASSUME NEW S \in SUBSET Files, Expire(S) PROVE TypeOK'
  BY <1>10 DEF Expire, Status
<1>11. ASSUME NEW S \in SUBSET Files, PurgeExpired(S) PROVE TypeOK'
  BY <1>11 DEF PurgeExpired, Status
<1>12. ASSUME NEW f \in Files, RemoveBytes(f) PROVE TypeOK'
  BY <1>12 DEF RemoveBytes
<1>13. ASSUME NEW r \in Restorers, NEW p \in Crafted \union {archive}, Stage(r, p)
       PROVE TypeOK'
  BY <1>13 DEF Stage
<1>14. ASSUME NEW r \in Restorers, Snapshot(r) PROVE TypeOK'
  BY <1>14 DEF Snapshot
<1>15. CASE MoveOut
  BY <1>0, <1>15 DEF MoveOut
<1>16. CASE MoveIn
  BY <1>16 DEF MoveIn, Package
<1>17. CASE ReplaceRows
  <2>1. Installed(pack.rows) \in [Files -> Status]
    BY DEF Installed, Package, Status, Kept
  <2> QED
    BY <1>17, <2>1 DEF ReplaceRows
<1>18. CASE Verify
  BY <1>18 DEF Verify
<1>19. CASE RestoreConfig
  BY <1>19 DEF RestoreConfig, Package
<1>20. CASE Finish
  BY <1>0, <1>20 DEF Finish
<1>21. CASE Clear
  BY <1>21 DEF Clear
<1>22. CASE MoveBack
  BY <1>0, <1>22 DEF MoveBack
<1>23. CASE UndoRows
  BY <1>0, <1>23 DEF UndoRows
<1>24. CASE UndoConfig
  BY <1>0, <1>24 DEF UndoConfig
<1>25. CASE Kill
  BY <1>0, <1>25 DEF Kill
<1>26. CASE UNCHANGED vars
  BY <1>26 DEF vars
<1>27. CASE DropOld
  BY <1>27 DEF DropOld
<1> HIDE DEF TypeOK
<1> QED
  BY <1>1, <1>2, <1>3, <1>4, <1>5, <1>6, <1>7, <1>8, <1>9, <1>10, <1>11, <1>12,
     <1>13, <1>14, <1>15, <1>16, <1>17, <1>18, <1>19, <1>20, <1>21, <1>22, <1>23,
     <1>24, <1>25, <1>26, <1>27
     DEF Next, Request, MakeBackup, Clean, Commit

\* Every reachable state of a backup or a restore is well typed.
THEOREM TypeCorrect == Spec => []TypeOK
  BY InitTypeOK, NextTypeOK, PTL DEF Spec

\* A backup that is there has the bytes of all its rows and a valid configuration.
THEOREM BackupIsWhole == Spec => []BackupWhole
<1>1. Init => BackupWhole
  BY DEF Init, BackupWhole, Complete, KeptIn
<1>2. TypeOK /\ BackupWhole /\ [Next]_vars => BackupWhole'
  <2> SUFFICES ASSUME TypeOK, BackupWhole, [Next]_vars PROVE BackupWhole'
    OBVIOUS
  <2>1. archive' \in {archive, Nothing} \/ BackupDone
    BY DEF Next, vars, Request, MakeBackup, Clean, Commit, Upload, Move, Purge, Configure,
           BackupConfig, BackupRows, BackupCheck, BackupCopy, Expire, PurgeExpired, RemoveBytes,
           Stage, Store, Snapshot, DropOld, MoveOut, MoveIn, ReplaceRows, Verify, RestoreConfig,
           Finish, Clear, MoveBack, UndoRows, UndoConfig, Kill
  <2>2. CASE archive' \in {archive, Nothing}
    BY <2>2 DEF BackupWhole, Complete, KeptIn
  <2>3. CASE BackupDone
    BY <2>3 DEF BackupDone, BackupWhole, Complete, KeptIn, TypeOK, BackupJob
  <2> QED
    BY <2>1, <2>2, <2>3
<1> QED
  BY <1>1, <1>2, TypeCorrect, PTL DEF Spec

-----------------------------------------------------------------------------
(* The cleanup goroutine kept apart: one generation, and nothing lost.     *)

Apart == Overlap = FALSE

\* Whoever is not the restore waits while it swaps; what the cleanup goroutine
\* still has to remove belongs to rows that are gone.
Alone ==
  /\ backup.at # "idle" \/ purged # {} => step = "free"
  /\ \A f \in purged : rows[f] = "gone"

\* The uploads of the package are in place; so are its rows.
Moved   == uploads = pack.uploads
Rowed   == \A f \in Files : rows[f] =
             IF pack.rows[f] \in Kept THEN pack.rows[f]
             ELSE IF oldRows[f] = "unused" THEN "unused" ELSE "gone"
Stored  == KeptIn(oldRows) \subseteq saved

\* Where everything is at each step of a swap as long as nothing has broken.
Sound ==
  /\ step = "free"        => KeptIn(rows) \subseteq uploads
  /\ step \in {"drop_old", "move_out"} => rows = oldRows /\ KeptIn(rows) \subseteq uploads
  /\ step = "move_in"     => rows = oldRows /\ Stored
  /\ step = "rows"        => rows = oldRows /\ Stored /\ Moved
  /\ step = "verify"      => Rowed /\ Stored /\ Moved
  /\ step = "config"      => Rowed /\ Stored /\ Moved /\ KeptIn(rows) \subseteq uploads
  /\ step = "finish"      => KeptIn(rows) \subseteq uploads
  /\ step \in {"clear", "move_back"} => Stored /\ (failedAt = "move_in" => rows = oldRows)
  /\ step = "undo_rows"   => KeptIn(oldRows) \subseteq uploads
  /\ step = "undo_config" => rows = oldRows /\ KeptIn(rows) \subseteq uploads

\* And after a kill in mid-swap, until a later restore fails or is killed: between
\* dropping uploads.pre-restore and finishing it there may be bytes nowhere.
Torn ==
  /\ step \notin Undo
  /\ step \in {"drop_old", "move_out", "move_in", "rows"} => rows = oldRows
  /\ step \in {"free", "drop_old"} => KeptIn(rows) \subseteq uploads \union saved
  /\ step = "rows" => Moved
  /\ step = "verify" => Rowed /\ Moved
  /\ step \in {"config", "finish"} => KeptIn(rows) \subseteq uploads

IInv ==
  /\ Alone
  /\ broken = "no" => Sound
  /\ broken = "killed" => Torn

LEMMA InitIInv == Init => IInv
<1> SUFFICES ASSUME Init PROVE IInv
  OBVIOUS
<1>1. backup.at = "idle"
  BY Blank DEF Init
<1> QED
  BY <1>1 DEF Init, IInv, Alone, Sound

LEMMA NextIInv == ASSUME Apart, TypeOK, IInv, [Next]_vars PROVE IInv'
<1>0. NoBackup.at = "idle"
  BY Blank DEF TypeOK
<1> USE RestoreAssumption
    DEF Apart, TypeOK, Steps, Swapping, Undo, swap, Store, Release, Continue, Fails, Worsen,
        UndoFails, Open, CleanerMay, KeptIn, Kept, IInv, Alone, Sound, Torn, Moved, Rowed, Stored
<1>1. ASSUME NEW f \in Files, Upload(f) PROVE IInv'
  BY <1>1 DEF Upload, Status
<1>2. ASSUME NEW f \in Files, Move(f) PROVE IInv'
  BY <1>2 DEF Move, Status
<1>3. ASSUME NEW f \in Files, Purge(f) PROVE IInv'
  BY <1>3 DEF Purge, Status
<1>4. ASSUME NEW c \in Configs, Configure(c) PROVE IInv'
  BY <1>4 DEF Configure
<1>5. CASE BackupConfig
  BY <1>5 DEF BackupConfig
<1>6. CASE BackupRows
  BY <1>6 DEF BackupRows, BackupJob
<1>7. CASE BackupCheck
  BY <1>0, <1>7 DEF BackupCheck, BackupJob
<1>8. ASSUME NEW f \in Files, BackupCopy(f) PROVE IInv'
  BY <1>0, <1>8 DEF BackupCopy, BackupJob
<1>9. CASE BackupDone
  BY <1>0, <1>9 DEF BackupDone
<1>10. ASSUME NEW S \in SUBSET Files, Expire(S) PROVE IInv'
  BY <1>10 DEF Expire, Status
<1>11. ASSUME NEW S \in SUBSET Files, PurgeExpired(S) PROVE IInv'
  BY <1>11 DEF PurgeExpired, Status
<1>12. ASSUME NEW f \in Files, RemoveBytes(f) PROVE IInv'
  BY <1>12 DEF RemoveBytes
<1>13. ASSUME NEW r \in Restorers, NEW p \in Crafted \union {archive}, Stage(r, p)
       PROVE IInv'
  BY <1>13 DEF Stage
<1>14. ASSUME NEW r \in Restorers, Snapshot(r) PROVE IInv'
  BY <1>14 DEF Snapshot
<1>15. CASE MoveOut
  BY <1>15 DEF MoveOut
<1>16. CASE MoveIn
  BY <1>16 DEF MoveIn
<1>17. CASE ReplaceRows
  <2>1. ASSUME rows = oldRows, rows' = Installed(pack.rows), UNCHANGED <<pack, oldRows>>
        PROVE  Rowed'
    BY <2>1 DEF Installed
  <2>2. CASE rows' = Installed(pack.rows) /\ step' = "verify"
             /\ UNCHANGED <<pack, oldRows, oldConfig, failedAt, broken>>
    <3>1. broken \in {"no", "killed"} => rows = oldRows
      BY <1>17 DEF ReplaceRows
    <3> HIDE DEF Rowed
    <3> QED
      BY <1>17, <2>1, <2>2, <3>1 DEF ReplaceRows
  <2>3. CASE step' = "clear"
    BY <1>17, <2>3 DEF ReplaceRows
  <2> QED
    BY <1>17, <2>2, <2>3 DEF ReplaceRows
<1>18. CASE Verify
  BY <1>18 DEF Verify
<1>19. CASE RestoreConfig
  BY <1>19 DEF RestoreConfig
<1>20. CASE Finish
  BY <1>20 DEF Finish
<1>21. CASE Clear
  BY <1>21 DEF Clear
<1>22. CASE MoveBack
  BY <1>22 DEF MoveBack
<1>23. CASE UndoRows
  BY <1>23 DEF UndoRows
<1>24. CASE UndoConfig
  BY <1>24 DEF UndoConfig
<1>25. CASE Kill
  BY <1>0, <1>25 DEF Kill, Complete
<1>26. CASE UNCHANGED vars
  BY <1>26 DEF vars
<1>27. CASE DropOld
  BY <1>27 DEF DropOld
<1> HIDE DEF IInv, TypeOK
<1> QED
  BY <1>1, <1>2, <1>3, <1>4, <1>5, <1>6, <1>7, <1>8, <1>9, <1>10, <1>11, <1>12,
     <1>13, <1>14, <1>15, <1>16, <1>17, <1>18, <1>19, <1>20, <1>21, <1>22, <1>23,
     <1>24, <1>25, <1>26, <1>27
     DEF Next, Request, MakeBackup, Clean, Commit

\* If the cleanup goroutine keeps out of a swap, what is here always holds.
THEOREM InvariantKept == ASSUME Apart PROVE Spec => []IInv
<1>1. TypeOK /\ IInv /\ [Next]_vars => IInv'
  BY NextIInv
<1> QED
  BY <1>1, InitIInv, TypeCorrect, PTL DEF Spec

\* Requests see one generation unless a kill or a failing rollback struck.
THEOREM OneGenerationKept == ASSUME Apart PROVE Spec => []OneGeneration
<1>1. IInv => OneGeneration
  BY DEF IInv, Sound, OneGeneration, Open
<1> QED
  BY <1>1, InvariantKept, PTL

\* One kill in mid-swap never takes the last copy of the bytes of a row, nor does
\* anything after it, but for a restore that fails or is killed as well.
THEOREM NothingBeyondRepair == ASSUME Apart PROVE Spec => []Salvageable
<1>1. TypeOK /\ IInv => Salvageable
  BY DEF TypeOK, IInv, Sound, Torn, Salvageable, Open
<1> QED
  BY <1>1, InvariantKept, TypeCorrect, PTL

-----------------------------------------------------------------------------
(* A restore is one step of LibraryWhole, or none.                         *)

LEMMA InitRefines == Init => Library!Init
<1> SUFFICES ASSUME Init PROVE Library!Init
  OBVIOUS
<1>1. RowsSeen = rows /\ UploadsSeen = uploads
  BY DEF Init, RowsSeen, UploadsSeen, Swapping, Undo
<1>2. KeptIn(rows) = {f \in Files : rows[f] # "unused"}
  BY DEF Init, KeptIn, Kept
<1> QED
  BY <1>1, <1>2 DEF Init, Library!Init

\* What is broken stays broken.
LEMMA BrokenStays == ASSUME TypeOK, [Next]_vars, broken # "no" PROVE broken' # "no"
  BY DEF TypeOK, Next, vars, Request, MakeBackup, Clean, Commit, Upload, Move, Purge, Configure,
         BackupConfig, BackupRows, BackupCheck, BackupCopy, BackupDone, Expire, PurgeExpired,
         RemoveBytes, Stage, Store, Snapshot, DropOld, MoveOut, MoveIn, ReplaceRows, Verify,
         RestoreConfig, Finish, Clear, MoveBack, UndoRows, UndoConfig, Kill, Fails, Worsen, UndoFails

\* A step of LibraryWhole that breaks nothing; none; a step or none; and the
\* library as it is outside a swap.
Wanted == \/ \E f \in Files : Library!Upload(f) \/ Library!Move(f) \/ Library!Discard(f)
          \/ Library!Expire \/ Library!Purge \/ Library!Configure \/ Library!Restore
Stutter == UNCHANGED <<RowsSeen, UploadsSeen, config>>
Step    == [Library!Next]_(Library!vars)
Free    == RowsSeen = rows /\ UploadsSeen = uploads

LEMMA NextRefines ==
  ASSUME Apart, TypeOK, TypeOK', IInv, IInv', [Next]_vars
  PROVE  Step
<1>1. CASE broken' # "no"
  BY <1>1 DEF Step, Library!Next, Library!Break
<1>2. CASE broken' = "no"
  <2>0. broken = "no"
    BY <1>2, BrokenStays
  <2>a. Wanted \/ Stutter => Step
    BY <1>2, <2>0 DEF Step, Wanted, Stutter, Library!Next, Library!Whole, Library!vars
  <2>b. Sound /\ Sound' /\ Alone
    BY <1>2, <2>0 DEF IInv
  <2>c. ASSUME UNCHANGED <<rows, uploads, saved, config, swap>> PROVE Step
    BY <2>a, <2>c DEF Stutter, RowsSeen, UploadsSeen, swap
  <2>d. Open => Free
    BY DEF Free, Open, RowsSeen, UploadsSeen, Swapping, Undo
  <2>e. Open' => Free'
    BY DEF Free, Open, RowsSeen, UploadsSeen, Swapping, Undo
  <2>f. Open /\ UNCHANGED swap => Free /\ Free'
    BY <2>d, <2>e DEF Open, swap
  <2>1. ASSUME NEW f \in Files, Upload(f) PROVE Step
    <3>1. Library!Upload(f)
      BY <2>1, <2>f DEF Upload, Library!Upload, Free
    <3> QED
      BY <2>a, <3>1 DEF Wanted
  <2>2. ASSUME NEW f \in Files, Move(f) PROVE Step
    <3>1. Library!Move(f)
      BY <2>2, <2>f DEF Move, Library!Move, Library!Kept, Free
    <3> QED
      BY <2>a, <3>1 DEF Wanted
  <2>3. ASSUME NEW f \in Files, Purge(f) PROVE Step
    <3>1. rows' = [g \in Files |-> IF g \in {f} THEN "gone" ELSE rows[g]]
      BY <2>3 DEF Purge, TypeOK
    <3>2. {f} \in SUBSET Files /\ {f} \in SUBSET {f} /\ \A g \in {f} : rows[g] = "trash"
      BY <2>3 DEF Purge
    <3>3. Free /\ Free' /\ uploads' = uploads \ {f} /\ config' = config
      BY <2>3, <2>f DEF Purge
    <3>4. Library!Purge
      BY <3>1, <3>2, <3>3 DEF Library!Purge, Free
    <3> QED
      BY <2>a, <3>4 DEF Wanted
  <2>4. ASSUME NEW c \in Configs, Configure(c) PROVE Step
    <3>1. Library!Configure
      BY <2>4, <2>f DEF Configure, Library!Configure, Free
    <3> QED
      BY <2>a, <3>1 DEF Wanted
  <2>5. CASE MakeBackup
    <3>1. UNCHANGED <<rows, uploads, saved, config, swap>>
      BY <2>5 DEF MakeBackup, BackupConfig, BackupRows, BackupCheck, BackupCopy, BackupDone
    <3> QED
      BY <2>c, <3>1
  <2>6. ASSUME NEW S \in SUBSET Files, Expire(S) PROVE Step
    <3>1. Library!Expire
      BY <2>6, <2>f DEF Expire, CleanerMay, Apart, Library!Expire, Free
    <3> QED
      BY <2>a, <3>1 DEF Wanted
  <2>7. ASSUME NEW S \in SUBSET Files, PurgeExpired(S) PROVE Step
    <3>1. uploads' = uploads \ {} /\ {} \in SUBSET S
      BY <2>7 DEF PurgeExpired
    <3>2. Library!Purge
      BY <2>7, <2>f, <3>1 DEF PurgeExpired, CleanerMay, Apart, Library!Purge, Free
    <3> QED
      BY <2>a, <3>2 DEF Wanted
  <2>8. ASSUME NEW f \in Files, RemoveBytes(f) PROVE Step
    <3>1. Library!Discard(f)
      BY <2>8, <2>b, <2>f DEF RemoveBytes, Alone, CleanerMay, Apart, Library!Discard, Free
    <3> QED
      BY <2>a, <3>1 DEF Wanted
  <2>9. ASSUME NEW r \in Restorers, NEW p \in Crafted \union {archive}, Stage(r, p)
        PROVE  Step
    BY <2>9, <2>c DEF Stage
  <2>10. ASSUME NEW r \in Restorers, Snapshot(r) PROVE Step
    <3>1. Stutter
      BY <2>10 DEF Stutter, RowsSeen, UploadsSeen, Swapping, Undo, Store, Continue, Fails,
             Release, Snapshot, Open
    <3> QED
      BY <2>a, <3>1
  <2>11. CASE MoveOut
    <3>1. Stutter
      BY <2>11, <2>b DEF Stutter, RowsSeen, UploadsSeen, Swapping, Undo, Store, Continue, Fails,
             Release, MoveOut, Sound
    <3> QED
      BY <2>a, <3>1
  <2>12. CASE MoveIn
    <3>1. Stutter
      BY <2>12 DEF Stutter, RowsSeen, UploadsSeen, Swapping, Undo, Store, Continue, Fails,
             Release, MoveIn
    <3> QED
      BY <2>a, <3>1
  <2>13. CASE ReplaceRows
    <3>1. Stutter
      BY <2>13 DEF Stutter, RowsSeen, UploadsSeen, Swapping, Undo, Store, Continue, Fails,
             Release, ReplaceRows
    <3> QED
      BY <2>a, <3>1
  <2>14. CASE Verify
    <3>1. Stutter
      BY <2>14 DEF Stutter, RowsSeen, UploadsSeen, Swapping, Undo, Store, Continue, Fails,
             Release, Verify
    <3> QED
      BY <2>a, <3>1
  <2>15. CASE RestoreConfig
    <3>1. CASE step' = "clear"
      <4>1. Stutter
        BY <2>15, <3>1 DEF Stutter, RowsSeen, UploadsSeen, Swapping, Undo, Store, Continue, Fails,
             Release, RestoreConfig
      <4> QED
        BY <2>a, <4>1
    <3>2. CASE step' = "finish"
      <4>1. /\ step = "config" /\ pack.config # Invalid /\ config' = pack.config
            /\ UNCHANGED <<rows, uploads>>
        BY <2>15, <3>2 DEF RestoreConfig, Fails
      <4>2. Rowed /\ Moved /\ KeptIn(rows) \subseteq uploads
        BY <2>b, <4>1 DEF Sound
      <4>3. pack \in Library!Package
        BY <4>1 DEF TypeOK, Package, Status, Library!Package
      <4>4. Library!Complete(pack)
        BY <4>2 DEF Rowed, Moved, KeptIn, Kept, Library!Complete, Library!Kept
      <4>5. RowsSeen = oldRows /\ RowsSeen' = rows /\ UploadsSeen' = pack.uploads
        BY <3>2, <4>1, <4>2 DEF Moved, RowsSeen, UploadsSeen, Swapping, Undo
      <4>6. rows = Library!Installed(pack)
        BY <4>2, <4>5 DEF TypeOK, Rowed, Kept, Library!Installed, Library!Kept
      <4>7. Library!Restore
        BY <4>1, <4>3, <4>4, <4>5, <4>6 DEF Library!Restore
      <4> QED
        BY <2>a, <4>7 DEF Wanted
    <3> QED
      BY <2>15, <3>1, <3>2 DEF RestoreConfig, Continue, Fails
  <2>16. CASE Finish
    <3>1. Stutter
      BY <2>16 DEF Stutter, RowsSeen, UploadsSeen, Swapping, Undo, Store, Continue, Fails,
             Release, Finish
    <3> QED
      BY <2>a, <3>1
  <2>17. CASE Clear
    <3>1. Stutter
      BY <2>17 DEF Stutter, RowsSeen, UploadsSeen, Swapping, Undo, Store, Continue, Fails,
             Release, Clear
    <3> QED
      BY <2>a, <3>1
  <2>18. CASE MoveBack
    <3>1. Stutter
      BY <1>2, <2>18, <2>b DEF Stutter, RowsSeen, UploadsSeen, Swapping, Undo, Store, Continue, Fails,
             Release, MoveBack, UndoFails, Sound
    <3> QED
      BY <2>a, <3>1
  <2>19. CASE UndoRows
    <3>1. Stutter
      BY <1>2, <2>19 DEF Stutter, RowsSeen, UploadsSeen, Swapping, Undo, Store, Continue, Fails,
             Release, UndoRows, UndoFails
    <3> QED
      BY <2>a, <3>1
  <2>20. CASE UndoConfig
    <3>1. UNCHANGED <<RowsSeen, UploadsSeen>>
      BY <2>20, <2>b DEF UndoConfig, Sound, RowsSeen, UploadsSeen, Swapping, Undo,
                         Store, Release
    <3>2. config' \in Configs
      BY DEF TypeOK
    <3>3. Library!Configure
      BY <3>1, <3>2 DEF Library!Configure
    <3> QED
      BY <2>a, <3>3 DEF Wanted
  <2>21. CASE Kill
    <3>1. step \in {"free", "drop_old", "move_out", "finish"}
      BY <1>2, <2>21 DEF Kill
    <3>2. Stutter
      BY <2>21, <2>b, <3>1 DEF Stutter, RowsSeen, UploadsSeen, Swapping, Undo, Store, Continue, Fails,
             Release, Kill, Sound
    <3> QED
      BY <2>a, <3>2
  <2>22. CASE UNCHANGED vars
    BY <2>22, <2>c DEF vars
  <2>23. CASE DropOld
    <3>1. Stutter
      BY <2>23 DEF Stutter, RowsSeen, UploadsSeen, Swapping, Undo, Store, Continue, DropOld
    <3> QED
      BY <2>a, <3>1
  <2> QED
    BY <2>1, <2>2, <2>3, <2>4, <2>5, <2>6, <2>7, <2>8, <2>9, <2>10, <2>11, <2>12, <2>13, <2>14,
       <2>15, <2>16, <2>17, <2>18, <2>19, <2>20, <2>21, <2>22, <2>23
       DEF Next, Request, Clean, Commit
<1> QED
  BY <1>1, <1>2

\* A restore replaces the library as a whole or has no effect, as LibraryWhole
\* states it.
THEOREM Implements == ASSUME Apart PROVE Spec => Refines
<1>1. TypeOK /\ TypeOK' /\ IInv /\ IInv' /\ [Next]_vars => [Library!Next]_(Library!vars)
  BY NextRefines DEF Step
<1> QED
  BY <1>1, InitRefines, TypeCorrect, InvariantKept, PTL DEF Spec, Refines, Library!Spec
=============================================================================
