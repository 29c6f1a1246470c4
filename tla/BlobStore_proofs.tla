-------------------------- MODULE BlobStore_proofs --------------------------
(***************************************************************************)
(* Proofs about BlobStore, for every set of files, contents and handlers.  *)
(***************************************************************************)
EXTENDS BlobStore, TLAPS

LEMMA InitTypeOK == Init => TypeOK
  BY BlobAssumption DEF Init, TypeOK, Status, Steps, ReferencedData, Actors

\* Type correctness is preserved by every step.
LEMMA NextTypeOK == TypeOK /\ [Next]_vars => TypeOK'
<1> SUFFICES ASSUME TypeOK, [Next]_vars PROVE TypeOK'
  OBVIOUS
<1> USE BlobAssumption DEF TypeOK, Status, Steps, Actors, Goto, At, disk
<1>1. ASSUME NEW w \in Workers, NEW f \in Files, UploadStart(w, f) PROVE TypeOK'
  BY <1>1 DEF UploadStart
<1>2. ASSUME NEW w \in Workers, NEW f \in Files, RestoreStat(w, f) PROVE TypeOK'
  BY <1>2 DEF RestoreStat
<1>3. ASSUME NEW w \in Workers, NEW f \in Files, PurgeStart(w, f) PROVE TypeOK'
  BY <1>3 DEF PurgeStart
<1>4. ASSUME NEW w \in Workers, EmptyTrash(w) PROVE TypeOK'
  BY <1>4 DEF EmptyTrash, PurgeRows, Trashed
<1>5. ASSUME NEW S \in SUBSET Files, DeleteFiles(S) PROVE TypeOK'
  BY <1>5 DEF DeleteFiles, MoveToTrash
<1>6. ASSUME NEW S \in SUBSET Files, CleanupExpired(S) PROVE TypeOK'
  BY <1>6 DEF CleanupExpired, MoveToTrash
<1>7. CASE CleanupSkips
  BY <1>7 DEF CleanupSkips
<1>8. ASSUME NEW w \in Actors, UploadStep(w) PROVE TypeOK'
  <2>1. CASE UploadStat(w)        BY <2>1 DEF UploadStat
  <2>2. CASE UploadLink(w)        BY <2>2 DEF UploadLink
  <2>3. CASE UploadRestat(w)      BY <2>3 DEF UploadRestat
  <2>4. CASE UploadCreate(w)      BY <2>4 DEF UploadCreate
  <2>5. CASE UploadCreateFails(w) BY <2>5 DEF UploadCreateFails
  <2>6. CASE UploadUndo(w)        BY <2>6 DEF UploadUndo
  <2>7. CASE UploadHash(w)        BY <2>7 DEF UploadHash
  <2> QED BY <1>8, <2>1, <2>2, <2>3, <2>4, <2>5, <2>6, <2>7 DEF UploadStep
<1>9. ASSUME NEW w \in Actors, PurgeStep(w) PROVE TypeOK'
  <2>1. CASE PurgeCheck(w)        BY <2>1 DEF PurgeCheck
  <2>2. CASE PurgeStage(w)        BY <2>2 DEF PurgeStage
  <2>3. CASE PurgeStageFails(w)   BY <2>3 DEF PurgeStageFails
  <2>4. CASE PurgeCommit(w)       BY <2>4 DEF PurgeCommit
  <2>5. CASE PurgeFails(w)        BY <2>5 DEF PurgeFails
  <2>6. CASE PurgeUnstage(w)      BY <2>6 DEF PurgeUnstage
  <2>7. CASE PurgeUnlink(w)       BY <2>7 DEF PurgeUnlink
  <2>8. CASE PurgeUnstageFails(w) BY <2>8 DEF PurgeUnstageFails
  <2> QED BY <1>9, <2>1, <2>2, <2>3, <2>4, <2>5, <2>6, <2>7, <2>8 DEF PurgeStep
<1>10. ASSUME NEW w \in Actors, SweepStep(w) PROVE TypeOK'
  <2>1. ASSUME NEW f \in Files, SweepKeeps(w, f) PROVE TypeOK'
    BY <2>1 DEF SweepKeeps
  <2>2. ASSUME NEW f \in Files, SweepClaims(w, f) PROVE TypeOK'
    BY <2>2 DEF SweepClaims
  <2>3. CASE SweepRemove(w)       BY <2>3 DEF SweepRemove
  <2>4. CASE SweepDone(w)         BY <2>4 DEF SweepDone
  <2> QED BY <1>10, <2>1, <2>2, <2>3, <2>4 DEF SweepStep
<1>11. ASSUME NEW w \in Actors, RestoreCommit(w) \/ RestoreFails(w) PROVE TypeOK'
  BY <1>11 DEF RestoreCommit, RestoreFails
<1>12. ASSUME NEW S \in SUBSET Files, PurgeExpiredTrash(S) PROVE TypeOK'
  BY <1>12 DEF PurgeExpiredTrash, PurgeRows, Trashed
<1>13. CASE Crash
  BY <1>13 DEF Crash
<1>14. CASE UNCHANGED vars
  BY <1>14 DEF vars
<1> QED
  BY <1>1, <1>2, <1>3, <1>4, <1>5, <1>6, <1>7, <1>8, <1>9, <1>10, <1>11,
     <1>12, <1>13, <1>14 DEF Next, Progress

\* Every reachable state of the file store is well typed.
THEOREM TypeCorrect == Spec => []TypeOK
  BY InitTypeOK, NextTypeOK, PTL DEF Spec

-----------------------------------------------------------------------------
(* The inductive core: what an actor may rely on about its row.            *)

LEMMA InitJobsOK == Init => JobsOK
  BY DEF Init, JobsOK, UploadSteps, PurgeSteps

LEMMA NextJobsOK == TypeOK /\ JobsOK /\ [Next]_vars => JobsOK'
<1> SUFFICES ASSUME TypeOK, JobsOK, [Next]_vars PROVE JobsOK'
  OBVIOUS
<1> USE BlobAssumption DEF TypeOK, Actors, Goto, At, disk, UploadSteps, PurgeSteps,
        JobsOK, CanStart, StoreFree
<1>1. ASSUME NEW w \in Workers, NEW f \in Files, UploadStart(w, f) PROVE JobsOK'
  BY <1>1 DEF UploadStart
<1>2. ASSUME NEW w \in Workers, NEW f \in Files, RestoreStat(w, f) PROVE JobsOK'
  BY <1>2 DEF RestoreStat
<1>3. ASSUME NEW w \in Workers, NEW f \in Files, PurgeStart(w, f) PROVE JobsOK'
  BY <1>3 DEF PurgeStart
<1>4. ASSUME NEW w \in Workers, EmptyTrash(w) PROVE JobsOK'
  BY <1>4 DEF EmptyTrash, PurgeRows, Trashed
<1>5. ASSUME NEW S \in SUBSET Files, DeleteFiles(S) PROVE JobsOK'
  BY <1>5 DEF DeleteFiles, MoveToTrash
<1>6. ASSUME NEW S \in SUBSET Files, CleanupExpired(S) PROVE JobsOK'
  BY <1>6 DEF CleanupExpired, MoveToTrash
<1>7. CASE CleanupSkips
  BY <1>7 DEF CleanupSkips
<1>8. ASSUME NEW w \in Actors, UploadStep(w) PROVE JobsOK'
  <2>1. CASE UploadStat(w)        BY <2>1 DEF UploadStat
  <2>2. CASE UploadLink(w)        BY <2>2 DEF UploadLink
  <2>3. CASE UploadRestat(w)      BY <2>3 DEF UploadRestat
  <2>4. CASE UploadCreate(w)      BY <2>4 DEF UploadCreate
  <2>5. CASE UploadCreateFails(w) BY <2>5 DEF UploadCreateFails
  <2>6. CASE UploadUndo(w)        BY <2>6 DEF UploadUndo
  <2>7. CASE UploadHash(w)        BY <2>7 DEF UploadHash
  <2> QED BY <1>8, <2>1, <2>2, <2>3, <2>4, <2>5, <2>6, <2>7 DEF UploadStep
<1>9. ASSUME NEW w \in Actors, PurgeStep(w) PROVE JobsOK'
  <2>1. CASE PurgeCheck(w)        BY <2>1 DEF PurgeCheck
  <2>2. CASE PurgeStage(w)        BY <2>2 DEF PurgeStage
  <2>3. CASE PurgeStageFails(w)   BY <2>3 DEF PurgeStageFails
  <2>4. CASE PurgeCommit(w)       BY <2>4 DEF PurgeCommit
  <2>5. CASE PurgeFails(w)        BY <2>5 DEF PurgeFails
  <2>6. CASE PurgeUnstage(w)      BY <2>6 DEF PurgeUnstage
  <2>7. CASE PurgeUnlink(w)       BY <2>7 DEF PurgeUnlink
  <2>8. CASE PurgeUnstageFails(w) BY <2>8 DEF PurgeUnstageFails
  <2> QED BY <1>9, <2>1, <2>2, <2>3, <2>4, <2>5, <2>6, <2>7, <2>8 DEF PurgeStep
<1>10. ASSUME NEW w \in Actors, SweepStep(w) PROVE JobsOK'
  <2>1. ASSUME NEW f \in Files, SweepKeeps(w, f) PROVE JobsOK'
    BY <2>1 DEF SweepKeeps
  <2>2. ASSUME NEW f \in Files, SweepClaims(w, f) PROVE JobsOK'
    BY <2>2 DEF SweepClaims
  <2>3. CASE SweepRemove(w)       BY <2>3 DEF SweepRemove
  <2>4. CASE SweepDone(w)         BY <2>4 DEF SweepDone
  <2> QED BY <1>10, <2>1, <2>2, <2>3, <2>4 DEF SweepStep
<1>11. ASSUME NEW w \in Actors, RestoreCommit(w) \/ RestoreFails(w) PROVE JobsOK'
  BY <1>11 DEF RestoreCommit, RestoreFails
<1>12. ASSUME NEW S \in SUBSET Files, PurgeExpiredTrash(S) PROVE JobsOK'
  BY <1>12 DEF PurgeExpiredTrash, PurgeRows, Trashed
<1>13. CASE Crash
  BY <1>13 DEF Crash
<1>14. CASE UNCHANGED vars
  BY <1>14 DEF vars
<1> QED
  BY <1>1, <1>2, <1>3, <1>4, <1>5, <1>6, <1>7, <1>8, <1>9, <1>10, <1>11,
     <1>12, <1>13, <1>14 DEF Next, Progress

\* Every actor's row is in the state its next step relies on.
THEOREM JobsCorrect == Spec => []JobsOK
<1>1. Init => JobsOK
  BY InitJobsOK
<1>2. TypeOK /\ JobsOK /\ [Next]_vars => JobsOK'
  BY NextJobsOK
<1> QED
  BY <1>1, <1>2, TypeCorrect, PTL DEF Spec

-----------------------------------------------------------------------------
(* Bytes uploaded once survive every interleaving, fault and crash.        *)

Alone(f) == \A g \in Files \ {f} : Content[g] # Content[f]

\* UnsharedKept, and an upload about to create its row still has the entity it
\* found or linked: nobody else can remove it, as nobody else names it.
UnsharedInv ==
  \A f \in Files : Alone(f) =>
    /\ Referenced(f) => Content[f] \in blobs \/ f \in purging
    /\ \A w \in Actors :
         pc[w] \in {"createFresh", "createReused"} /\ job[w] = f => Content[f] \in blobs

LEMMA InitUnsharedInv == Init => UnsharedInv
  BY DEF Init, UnsharedInv, ReferencedData, Referenced

LEMMA NextUnsharedInv == TypeOK /\ JobsOK /\ UnsharedInv /\ [Next]_vars => UnsharedInv'
<1> SUFFICES ASSUME TypeOK, JobsOK, UnsharedInv, [Next]_vars PROVE UnsharedInv'
  OBVIOUS
<1> USE BlobAssumption DEF TypeOK, Actors, Goto, At, disk, UploadSteps, PurgeSteps,
        JobsOK, CanStart, StoreFree, UnsharedInv, Alone, Referenced
<1>1. ASSUME NEW w \in Workers, NEW f \in Files, UploadStart(w, f) PROVE UnsharedInv'
  BY <1>1 DEF UploadStart
<1>2. ASSUME NEW w \in Workers, NEW f \in Files, RestoreStat(w, f) PROVE UnsharedInv'
  BY <1>2 DEF RestoreStat
<1>3. ASSUME NEW w \in Workers, NEW f \in Files, PurgeStart(w, f) PROVE UnsharedInv'
  BY <1>3 DEF PurgeStart
<1>4. ASSUME NEW w \in Workers, EmptyTrash(w) PROVE UnsharedInv'
  BY <1>4 DEF EmptyTrash, PurgeRows, Trashed
<1>5. ASSUME NEW S \in SUBSET Files, DeleteFiles(S) PROVE UnsharedInv'
  BY <1>5 DEF DeleteFiles, MoveToTrash
<1>6. ASSUME NEW S \in SUBSET Files, CleanupExpired(S) PROVE UnsharedInv'
  BY <1>6 DEF CleanupExpired, MoveToTrash
<1>7. CASE CleanupSkips
  BY <1>7 DEF CleanupSkips
<1>8. ASSUME NEW w \in Actors, UploadStep(w) PROVE UnsharedInv'
  <2>1. CASE UploadStat(w)          BY <2>1 DEF UploadStat
  <2>2. CASE UploadLink(w)          BY <2>2 DEF UploadLink
  <2>3. CASE UploadRestat(w)        BY <2>3 DEF UploadRestat
  <2>4. CASE UploadCreate(w)        BY <2>4 DEF UploadCreate
  <2>5. CASE UploadCreateFails(w)   BY <2>5 DEF UploadCreateFails
  <2>6. CASE UploadUndo(w)          BY <2>6 DEF UploadUndo
  <2>7. CASE UploadHash(w)        BY <2>7 DEF UploadHash
  <2> QED BY <1>8, <2>1, <2>2, <2>3, <2>4, <2>5, <2>6, <2>7 DEF UploadStep
<1>9. ASSUME NEW w \in Actors, PurgeStep(w) PROVE UnsharedInv'
  <2>1. CASE PurgeCheck(w)          BY <2>1 DEF PurgeCheck
  <2>2. CASE PurgeStage(w)          BY <2>2 DEF PurgeStage
  <2>3. CASE PurgeStageFails(w)     BY <2>3 DEF PurgeStageFails
  <2>4. CASE PurgeCommit(w)         BY <2>4 DEF PurgeCommit
  <2>5. CASE PurgeFails(w)          BY <2>5 DEF PurgeFails
  <2>6. CASE PurgeUnstage(w)        BY <2>6 DEF PurgeUnstage
  <2>7. CASE PurgeUnlink(w)         BY <2>7 DEF PurgeUnlink
  <2>8. CASE PurgeUnstageFails(w) BY <2>8 DEF PurgeUnstageFails
  <2> QED BY <1>9, <2>1, <2>2, <2>3, <2>4, <2>5, <2>6, <2>7, <2>8 DEF PurgeStep
<1>10. ASSUME NEW w \in Actors, SweepStep(w) PROVE UnsharedInv'
  <2>1. ASSUME NEW f \in Files, SweepKeeps(w, f) PROVE UnsharedInv'
    BY <2>1 DEF SweepKeeps
  <2>2. ASSUME NEW f \in Files, SweepClaims(w, f) PROVE UnsharedInv'
    BY <2>2 DEF SweepClaims
  <2>3. CASE SweepRemove(w)       BY <2>3 DEF SweepRemove
  <2>4. CASE SweepDone(w)         BY <2>4 DEF SweepDone
  <2> QED BY <1>10, <2>1, <2>2, <2>3, <2>4 DEF SweepStep
<1>11. ASSUME NEW w \in Actors, RestoreCommit(w) \/ RestoreFails(w) PROVE UnsharedInv'
  BY <1>11 DEF RestoreCommit, RestoreFails
<1>12. ASSUME NEW S \in SUBSET Files, PurgeExpiredTrash(S) PROVE UnsharedInv'
  BY <1>12 DEF PurgeExpiredTrash, PurgeRows, Trashed
<1>13. CASE Crash
  BY <1>13 DEF Crash
<1>14. CASE UNCHANGED vars
  BY <1>14 DEF vars
<1> QED
  BY <1>1, <1>2, <1>3, <1>4, <1>5, <1>6, <1>7, <1>8, <1>9, <1>10, <1>11,
     <1>12, <1>13, <1>14 DEF Next, Progress

\* A row whose bytes no other row shares keeps them, in its entity or in the
\* file a purge of this row has set aside.
THEOREM UnsharedSafe == Spec => []UnsharedKept
<1>1. Init => UnsharedInv
  BY InitUnsharedInv
<1>2. TypeOK /\ JobsOK /\ UnsharedInv /\ [Next]_vars => UnsharedInv'
  BY NextUnsharedInv
<1>3. UnsharedInv => UnsharedKept
  BY DEF UnsharedInv, UnsharedKept, Alone
<1> QED
  BY <1>1, <1>2, <1>3, TypeCorrect, JobsCorrect, PTL DEF Spec

-----------------------------------------------------------------------------
(* Without uploads, trash operations cannot harm each other.               *)

\* No name is left to upload, and reference queries do not fail.
TrashOnly == "unused" \notin InitStatus /\ "store_read" \notin Faults

\* An actor past its reference query may rely on the answer: references can
\* only disappear.
KeptInv ==
  /\ \A f \in Files : row[f] # "unused"
  /\ \A w \in Actors : pc[w] \in {"stage", "purgeStaged", "unlink", "remove"} =>
                        ~ReferencedByOthers(job[w])
  /\ EntityKept

LEMMA InitKeptInv == ASSUME TrashOnly PROVE Init => KeptInv
  BY BlobAssumption DEF Init, KeptInv, EntityKept, ReferencedData, Referenced, TrashOnly

LEMMA NextKeptInv ==
  ASSUME TrashOnly
  PROVE  TypeOK /\ JobsOK /\ KeptInv /\ [Next]_vars => KeptInv'
<1> SUFFICES ASSUME TypeOK, JobsOK, KeptInv, [Next]_vars PROVE KeptInv'
  OBVIOUS
<1> USE BlobAssumption, TrashOnly DEF TypeOK, Actors, Goto, At, disk, UploadSteps, PurgeSteps,
        JobsOK, CanStart, StoreFree, KeptInv, EntityKept, Referenced, ReferencedByOthers,
        ReferenceAnswers, TrashOnly
<1>1. ASSUME NEW w \in Workers, NEW f \in Files, UploadStart(w, f) PROVE KeptInv'
  BY <1>1 DEF UploadStart
<1>2. ASSUME NEW w \in Workers, NEW f \in Files, RestoreStat(w, f) PROVE KeptInv'
  BY <1>2 DEF RestoreStat
<1>3. ASSUME NEW w \in Workers, NEW f \in Files, PurgeStart(w, f) PROVE KeptInv'
  BY <1>3 DEF PurgeStart
<1>4. ASSUME NEW w \in Workers, EmptyTrash(w) PROVE KeptInv'
  BY <1>4 DEF EmptyTrash, PurgeRows, Trashed
<1>5. ASSUME NEW S \in SUBSET Files, DeleteFiles(S) PROVE KeptInv'
  BY <1>5 DEF DeleteFiles, MoveToTrash
<1>6. ASSUME NEW S \in SUBSET Files, CleanupExpired(S) PROVE KeptInv'
  BY <1>6 DEF CleanupExpired, MoveToTrash
<1>7. CASE CleanupSkips
  BY <1>7 DEF CleanupSkips
<1>8. ASSUME NEW w \in Actors, UploadStep(w) PROVE KeptInv'
  <2>1. CASE UploadStat(w)          BY <2>1 DEF UploadStat
  <2>2. CASE UploadLink(w)          BY <2>2 DEF UploadLink
  <2>3. CASE UploadRestat(w)        BY <2>3 DEF UploadRestat
  <2>4. CASE UploadCreate(w)        BY <2>4 DEF UploadCreate
  <2>5. CASE UploadCreateFails(w)   BY <2>5 DEF UploadCreateFails
  <2>6. CASE UploadUndo(w)          BY <2>6 DEF UploadUndo
  <2>7. CASE UploadHash(w)        BY <2>7 DEF UploadHash
  <2> QED BY <1>8, <2>1, <2>2, <2>3, <2>4, <2>5, <2>6, <2>7 DEF UploadStep
<1>9. ASSUME NEW w \in Actors, PurgeStep(w) PROVE KeptInv'
  <2>1. CASE PurgeCheck(w)          BY <2>1 DEF PurgeCheck
  <2>2. CASE PurgeStage(w)          BY <2>2 DEF PurgeStage
  <2>3. CASE PurgeStageFails(w)     BY <2>3 DEF PurgeStageFails
  <2>4. CASE PurgeCommit(w)         BY <2>4 DEF PurgeCommit
  <2>5. CASE PurgeFails(w)          BY <2>5 DEF PurgeFails
  <2>6. CASE PurgeUnstage(w)        BY <2>6 DEF PurgeUnstage
  <2>7. CASE PurgeUnlink(w)         BY <2>7 DEF PurgeUnlink
  <2>8. CASE PurgeUnstageFails(w) BY <2>8 DEF PurgeUnstageFails
  <2> QED BY <1>9, <2>1, <2>2, <2>3, <2>4, <2>5, <2>6, <2>7, <2>8 DEF PurgeStep
<1>10. ASSUME NEW w \in Actors, SweepStep(w) PROVE KeptInv'
  <2>1. ASSUME NEW f \in Files, SweepKeeps(w, f) PROVE KeptInv'
    BY <2>1 DEF SweepKeeps
  <2>2. ASSUME NEW f \in Files, SweepClaims(w, f) PROVE KeptInv'
    BY <2>2 DEF SweepClaims
  <2>3. CASE SweepRemove(w)       BY <2>3 DEF SweepRemove
  <2>4. CASE SweepDone(w)         BY <2>4 DEF SweepDone
  <2> QED BY <1>10, <2>1, <2>2, <2>3, <2>4 DEF SweepStep
<1>11. ASSUME NEW w \in Actors, RestoreCommit(w) \/ RestoreFails(w) PROVE KeptInv'
  BY <1>11 DEF RestoreCommit, RestoreFails
<1>12. ASSUME NEW S \in SUBSET Files, PurgeExpiredTrash(S) PROVE KeptInv'
  BY <1>12 DEF PurgeExpiredTrash, PurgeRows, Trashed
<1>13. CASE Crash
  BY <1>13 DEF Crash
<1>14. CASE UNCHANGED vars
  BY <1>14 DEF vars
<1> QED
  BY <1>1, <1>2, <1>3, <1>4, <1>5, <1>6, <1>7, <1>8, <1>9, <1>10, <1>11,
     <1>12, <1>13, <1>14 DEF Next, Progress

\* Any number of purges, restores, sweeps and cleanups, with crashes, failing
\* transactions, renames and unlinks: no referenced bytes are lost.
THEOREM TrashSafe == ASSUME TrashOnly PROVE Spec => []EntityKept
<1>1. Init => KeptInv
  BY InitKeptInv
<1>2. TypeOK /\ JobsOK /\ KeptInv /\ [Next]_vars => KeptInv'
  BY NextKeptInv
<1>3. KeptInv => EntityKept
  BY DEF KeptInv
<1> QED
  BY <1>1, <1>2, <1>3, TypeCorrect, JobsCorrect, PTL DEF Spec

-----------------------------------------------------------------------------
(* One request at a time, with crashes in between.                         *)

OneAtATime == Serial /\ "store_read" \notin Faults

\* At most one actor is busy, so what it saw on disk and in the store when it
\* looked is still so when it acts.
SerialInv ==
  /\ \A v, w \in Actors : pc[v] # "idle" /\ pc[w] # "idle" => v = w
  /\ LiveHasEntity
  /\ \A w \in Actors :
       /\ pc[w] = "link" => Content[job[w]] \notin blobs
       /\ pc[w] \in {"createFresh", "createReused", "restore"} => Content[job[w]] \in blobs
       /\ pc[w] \in {"createFresh", "undo"} =>
            \A f \in Files : row[f] = "live" => Content[f] # Content[job[w]]
       /\ pc[w] \in PurgeSteps => row[job[w]] = "trash"
       /\ pc[w] \in {"stage", "purgeStaged", "remove"} => ~ReferencedByOthers(job[w])

LEMMA InitSerialInv == Init => SerialInv
  BY DEF Init, SerialInv, LiveHasEntity, ReferencedData, Referenced, PurgeSteps

LEMMA NextSerialInv ==
  ASSUME OneAtATime
  PROVE  TypeOK /\ JobsOK /\ SerialInv /\ [Next]_vars => SerialInv'
<1> SUFFICES ASSUME TypeOK, JobsOK, SerialInv, [Next]_vars PROVE SerialInv'
  OBVIOUS
<1> USE BlobAssumption, OneAtATime DEF TypeOK, Actors, Goto, At, disk, UploadSteps, PurgeSteps,
        JobsOK, CanStart, Idle, StoreFree, SerialInv, LiveHasEntity, Referenced,
        ReferencedByOthers, ReferenceAnswers, OneAtATime
<1>1. ASSUME NEW w \in Workers, NEW f \in Files, UploadStart(w, f) PROVE SerialInv'
  BY <1>1 DEF UploadStart
<1>2. ASSUME NEW w \in Workers, NEW f \in Files, RestoreStat(w, f) PROVE SerialInv'
  BY <1>2 DEF RestoreStat
<1>3. ASSUME NEW w \in Workers, NEW f \in Files, PurgeStart(w, f) PROVE SerialInv'
  BY <1>3 DEF PurgeStart
<1>4. ASSUME NEW w \in Workers, EmptyTrash(w) PROVE SerialInv'
  BY <1>4 DEF EmptyTrash, PurgeRows, Trashed
<1>5. ASSUME NEW S \in SUBSET Files, DeleteFiles(S) PROVE SerialInv'
  BY <1>5 DEF DeleteFiles, MoveToTrash
<1>6. ASSUME NEW S \in SUBSET Files, CleanupExpired(S) PROVE SerialInv'
  BY <1>6 DEF CleanupExpired, MoveToTrash
<1>7. CASE CleanupSkips
  BY <1>7 DEF CleanupSkips
<1>8. ASSUME NEW w \in Actors, UploadStep(w) PROVE SerialInv'
  <2>1. CASE UploadStat(w)          BY <2>1 DEF UploadStat
  <2>2. CASE UploadLink(w)          BY <2>2 DEF UploadLink
  <2>3. CASE UploadRestat(w)        BY <2>3 DEF UploadRestat
  <2>4. CASE UploadCreate(w)        BY <2>4 DEF UploadCreate
  <2>5. CASE UploadCreateFails(w)   BY <2>5 DEF UploadCreateFails
  <2>6. CASE UploadUndo(w)          BY <2>6 DEF UploadUndo
  <2>7. CASE UploadHash(w)        BY <2>7 DEF UploadHash
  <2> QED BY <1>8, <2>1, <2>2, <2>3, <2>4, <2>5, <2>6, <2>7 DEF UploadStep
<1>9. ASSUME NEW w \in Actors, PurgeStep(w) PROVE SerialInv'
  <2>1. CASE PurgeCheck(w)          BY <2>1 DEF PurgeCheck
  <2>2. CASE PurgeStage(w)          BY <2>2 DEF PurgeStage
  <2>3. CASE PurgeStageFails(w)     BY <2>3 DEF PurgeStageFails
  <2>4. CASE PurgeCommit(w)         BY <2>4 DEF PurgeCommit
  <2>5. CASE PurgeFails(w)          BY <2>5 DEF PurgeFails
  <2>6. CASE PurgeUnstage(w)        BY <2>6 DEF PurgeUnstage
  <2>7. CASE PurgeUnlink(w)         BY <2>7 DEF PurgeUnlink
  <2>8. CASE PurgeUnstageFails(w) BY <2>8 DEF PurgeUnstageFails
  <2> QED BY <1>9, <2>1, <2>2, <2>3, <2>4, <2>5, <2>6, <2>7, <2>8 DEF PurgeStep
<1>10. ASSUME NEW w \in Actors, SweepStep(w) PROVE SerialInv'
  <2>1. ASSUME NEW f \in Files, SweepKeeps(w, f) PROVE SerialInv'
    BY <2>1 DEF SweepKeeps
  <2>2. ASSUME NEW f \in Files, SweepClaims(w, f) PROVE SerialInv'
    BY <2>2 DEF SweepClaims
  <2>3. CASE SweepRemove(w)       BY <2>3 DEF SweepRemove
  <2>4. CASE SweepDone(w)         BY <2>4 DEF SweepDone
  <2> QED BY <1>10, <2>1, <2>2, <2>3, <2>4 DEF SweepStep
<1>11. ASSUME NEW w \in Actors, RestoreCommit(w) \/ RestoreFails(w) PROVE SerialInv'
  BY <1>11 DEF RestoreCommit, RestoreFails
<1>12. ASSUME NEW S \in SUBSET Files, PurgeExpiredTrash(S) PROVE SerialInv'
  BY <1>12 DEF PurgeExpiredTrash, PurgeRows, Trashed
<1>13. CASE Crash
  BY <1>13 DEF Crash
<1>14. CASE UNCHANGED vars
  BY <1>14 DEF vars
<1> QED
  BY <1>1, <1>2, <1>3, <1>4, <1>5, <1>6, <1>7, <1>8, <1>9, <1>10, <1>11,
     <1>12, <1>13, <1>14 DEF Next, Progress

\* If requests and cleanups never overlap, a live row always has its entity,
\* even across crashes and failing writes.
THEOREM SerialSafe == ASSUME OneAtATime PROVE Spec => []LiveHasEntity
<1>1. Init => SerialInv
  BY InitSerialInv
<1>2. TypeOK /\ JobsOK /\ SerialInv /\ [Next]_vars => SerialInv'
  BY NextSerialInv
<1>3. SerialInv => LiveHasEntity
  BY DEF SerialInv
<1> QED
  BY <1>1, <1>2, <1>3, TypeCorrect, JobsCorrect, PTL DEF Spec
-----------------------------------------------------------------------------
(* One request at a time, and no step fails in a way nobody undoes.        *)

Tidy == OneAtATime /\ "unlink" \notin Faults /\ "crash" \notin Faults

\* The actor w will remove the entity d, or name it by a row.
Owes(w, d) ==
  \/ pc[w] \in {"createFresh", "undo", "remove"} /\ Content[job[w]] = d
  \/ pc[w] \in {"sweep", "remove"} /\ d \notin seen[w] /\ \E f \in todo[w] : Content[f] = d

\* Whatever is on disk without a row is on the list of the actor that is busy.
TidyInv ==
  /\ \A d \in blobs : d \in ReferencedData \/ \E w \in Actors : Owes(w, d)
  /\ \A f \in purging : f \in stranded \/ \E w \in Actors :
       pc[w] \in {"purgeStaged", "unlink", "unstage"} /\ job[w] = f
  /\ \A w \in Actors :
       /\ pc[w] = "purgeBare" => ReferencedByOthers(job[w])
       /\ pc[w] = "purgeStaged" => Content[job[w]] \notin blobs

LEMMA InitTidyInv == Init => TidyInv
  BY DEF Init, TidyInv

\* A row keeps its entity referenced when it moves to the trash.
LEMMA TrashKeepsReferences ==
  ASSUME TypeOK, NEW S \in SUBSET Files, MoveToTrash(S)
  PROVE  /\ ReferencedData' = ReferencedData
         /\ \A f \in Files : ReferencedByOthers(f)' = ReferencedByOthers(f)
<1>1. \A f \in Files : Referenced(f)' <=> Referenced(f)
  BY DEF TypeOK, MoveToTrash, Referenced
<1> QED
  BY <1>1 DEF ReferencedData, ReferencedByOthers

\* The actor that purges a set of rows owes the entities that lose their row.
LEMMA PurgeRowsOwes ==
  ASSUME TypeOK, NEW w \in Actors, NEW S \in SUBSET Trashed, PurgeRows(w, S)
  PROVE  \A d \in ReferencedData : d \in ReferencedData' \/ Owes(w, d)'
<1> SUFFICES ASSUME NEW d \in ReferencedData PROVE d \in ReferencedData' \/ Owes(w, d)'
  OBVIOUS
<1>1. PICK f \in Files : Referenced(f) /\ Content[f] = d
  BY DEF ReferencedData
<1>2. S \subseteq Files /\ row' = [g \in Files |-> IF g \in S THEN "gone" ELSE row[g]]
  BY DEF Trashed, PurgeRows
<1>3. CASE f \in S
  <2>1. pc'[w] = "sweep" /\ todo'[w] = S /\ seen'[w] = {}
    BY DEF PurgeRows, Goto, TypeOK
  <2> QED
    BY <1>1, <1>3, <2>1 DEF Owes
<1>4. CASE f \notin S
  <2>1. Referenced(f)'
    BY <1>1, <1>2, <1>4 DEF Referenced
  <2> QED
    BY <1>1, <2>1 DEF ReferencedData
<1> QED
  BY <1>3, <1>4

LEMMA NextTidyInv ==
  ASSUME Tidy
  PROVE  TypeOK /\ JobsOK /\ SerialInv /\ TidyInv /\ [Next]_vars => TidyInv'
<1> SUFFICES ASSUME TypeOK, JobsOK, SerialInv, TidyInv, [Next]_vars PROVE TidyInv'
  OBVIOUS
<1> USE BlobAssumption, Tidy DEF TypeOK, Actors, Goto, At, disk, UploadSteps, PurgeSteps,
        JobsOK, CanStart, Idle, StoreFree, SerialInv, LiveHasEntity, Referenced, ReferencedData,
        ReferencedByOthers, ReferenceAnswers, OneAtATime, Tidy, TidyInv, Owes
<1>1. ASSUME NEW w \in Workers, NEW f \in Files, UploadStart(w, f) PROVE TidyInv'
  BY <1>1 DEF UploadStart
<1>2. ASSUME NEW w \in Workers, NEW f \in Files, RestoreStat(w, f) PROVE TidyInv'
  BY <1>2 DEF RestoreStat
<1>3. ASSUME NEW w \in Workers, NEW f \in Files, PurgeStart(w, f) PROVE TidyInv'
  BY <1>3 DEF PurgeStart
<1>4. ASSUME NEW w \in Workers, EmptyTrash(w) PROVE TidyInv'
  <2>1. Idle /\ w \in Actors /\ PurgeRows(w, Trashed)
    BY <1>4 DEF EmptyTrash
  <2>2. \A d \in blobs : d \in ReferencedData
    BY <2>1
  <2>3. \A d \in blobs : d \in ReferencedData' \/ Owes(w, d)'
    <3> HIDE DEF ReferencedData, Owes, TypeOK, Referenced, Actors
    <3>1. Trashed \in SUBSET Trashed
      OBVIOUS
    <3> QED
      BY <2>1, <2>2, <3>1, PurgeRowsOwes
  <2>4. /\ blobs' = blobs /\ purging' = purging /\ purging \subseteq stranded'
        /\ pc' = [pc EXCEPT ![w] = "sweep"]
    BY <2>1 DEF PurgeRows
  <2> QED
    BY <2>1, <2>3, <2>4
<1>5. ASSUME NEW S \in SUBSET Files, DeleteFiles(S) PROVE TidyInv'
  BY <1>5, TrashKeepsReferences DEF DeleteFiles
<1>6. ASSUME NEW S \in SUBSET Files, CleanupExpired(S) PROVE TidyInv'
  <2>1. /\ ReferencedData' = ReferencedData /\ blobs' = blobs /\ purging' = purging
        /\ stranded' = stranded
        /\ Idle /\ pc' = [pc EXCEPT ![Cleaner] = "expire"]
    BY <1>6, TrashKeepsReferences DEF CleanupExpired
  <2> QED
    BY <2>1
<1>7. CASE CleanupSkips
  BY <1>7 DEF CleanupSkips
<1>8. ASSUME NEW w \in Actors, UploadStep(w) PROVE TidyInv'
  <2>1. CASE UploadStat(w)          BY <2>1 DEF UploadStat
  <2>2. CASE UploadLink(w)          BY <2>2 DEF UploadLink
  <2>3. CASE UploadRestat(w)        BY <2>3 DEF UploadRestat
  <2>4. CASE UploadCreate(w)        BY <2>4 DEF UploadCreate
  <2>5. CASE UploadCreateFails(w)   BY <2>5 DEF UploadCreateFails
  <2>6. CASE UploadUndo(w)          BY <2>6 DEF UploadUndo
  <2>7. CASE UploadHash(w)        BY <2>7 DEF UploadHash
  <2> QED BY <1>8, <2>1, <2>2, <2>3, <2>4, <2>5, <2>6, <2>7 DEF UploadStep
<1>9. ASSUME NEW w \in Actors, PurgeStep(w) PROVE TidyInv'
  <2>1. CASE PurgeCheck(w)          BY <2>1 DEF PurgeCheck
  <2>2. CASE PurgeStage(w)          BY <2>2 DEF PurgeStage
  <2>3. CASE PurgeStageFails(w)     BY <2>3 DEF PurgeStageFails
  <2>4. CASE PurgeCommit(w)         BY <2>4 DEF PurgeCommit
  <2>5. CASE PurgeFails(w)          BY <2>5 DEF PurgeFails
  <2>6. CASE PurgeUnstage(w)        BY <2>6 DEF PurgeUnstage
  <2>7. CASE PurgeUnlink(w)         BY <2>7 DEF PurgeUnlink
  <2>8. CASE PurgeUnstageFails(w) BY <2>8 DEF PurgeUnstageFails
  <2> QED BY <1>9, <2>1, <2>2, <2>3, <2>4, <2>5, <2>6, <2>7, <2>8 DEF PurgeStep
<1>10. ASSUME NEW w \in Actors, SweepStep(w) PROVE TidyInv'
  <2>1. ASSUME NEW f \in Files, SweepKeeps(w, f) PROVE TidyInv'
    BY <2>1 DEF SweepKeeps
  <2>2. ASSUME NEW f \in Files, SweepClaims(w, f) PROVE TidyInv'
    BY <2>2 DEF SweepClaims
  <2>3. CASE SweepRemove(w)       BY <2>3 DEF SweepRemove
  <2>4. CASE SweepDone(w)         BY <2>4 DEF SweepDone
  <2> QED BY <1>10, <2>1, <2>2, <2>3, <2>4 DEF SweepStep
<1>11. ASSUME NEW w \in Actors, RestoreCommit(w) \/ RestoreFails(w) PROVE TidyInv'
  BY <1>11 DEF RestoreCommit, RestoreFails
<1>12. ASSUME NEW S \in SUBSET Files, PurgeExpiredTrash(S) PROVE TidyInv'
  <2>1. pc[Cleaner] = "expire" /\ PurgeRows(Cleaner, S) /\ S \subseteq Trashed /\ Cleaner \in Actors
    BY <1>12 DEF PurgeExpiredTrash
  <2>2. \A v \in Actors : pc[v] # "idle" => v = Cleaner
    BY <2>1
  <2>3. \A d \in blobs : d \in ReferencedData
    BY <2>1, <2>2
  <2>4. \A d \in blobs : d \in ReferencedData' \/ Owes(Cleaner, d)'
    <3> HIDE DEF ReferencedData, Owes, TypeOK, Referenced, Actors
    <3>1. S \in SUBSET Trashed
      BY <2>1
    <3> QED
      BY <2>1, <2>3, <3>1, PurgeRowsOwes
  <2>5. /\ blobs' = blobs /\ purging' = purging /\ purging \subseteq stranded'
        /\ pc' = [pc EXCEPT ![Cleaner] = "sweep"]
    BY <2>1, <2>2 DEF PurgeRows
  <2> QED
    BY <2>1, <2>2, <2>4, <2>5
<1>13. CASE Crash
  BY <1>13 DEF Crash
<1>14. CASE UNCHANGED vars
  BY <1>14 DEF vars
<1> QED
  BY <1>1, <1>2, <1>3, <1>4, <1>5, <1>6, <1>7, <1>8, <1>9, <1>10, <1>11,
     <1>12, <1>13, <1>14 DEF Next, Progress

\* If requests and cleanups never overlap and no unlink, query or process dies,
\* nothing stays on disk without a row once everything is at rest, also when
\* store transactions and renames fail (purgeTrash, createUploadedAsset); only
\* what a rename back could not move stays aside under uploads/.purging.
THEOREM NothingLeftBehind == ASSUME Tidy PROVE Spec => []NoResidue
<1>1. Init => SerialInv /\ TidyInv
  BY InitSerialInv, InitTidyInv
<1>2. TypeOK /\ JobsOK /\ SerialInv /\ TidyInv /\ [Next]_vars => SerialInv' /\ TidyInv'
  BY NextSerialInv, NextTidyInv DEF Tidy
<1>3. TidyInv => NoResidue
  BY DEF TidyInv, NoResidue, Idle, Owes
<1> QED
  BY <1>1, <1>2, <1>3, TypeCorrect, JobsCorrect, PTL DEF Spec
=============================================================================
