----------------------------- MODULE BlobStore -----------------------------
(***************************************************************************)
(* File rows and file entities.                                            *)
(*                                                                         *)
(* A file is a row of file_assets (live, in the trash, or purged) that     *)
(* names a content-addressed entity under uploads/blobs.  Several rows may *)
(* name one entity.  Rows change in store transactions, serialised by      *)
(* writeMu; entities change with link, rename and unlink, outside of any   *)
(* transaction.  HTTP handlers hold dataMu only in shared mode and the     *)
(* cleanup goroutine does not hold it at all, so every step below may      *)
(* interleave with every other one.                                        *)
(*                                                                         *)
(* An action is one store transaction, one reference count query or one    *)
(* file system call.  The name a new row will have (storage.NewID, always  *)
(* fresh) stands for the upload from its start, so the content of a name   *)
(* is a constant.  Staging files under uploads/.staging have random names  *)
(* that only their own request knows and are left out.                     *)
(***************************************************************************)
EXTENDS Naturals, FiniteSets

CONSTANTS
  Files,        \* names of file rows, each used at most once
  Digests,      \* SHA-256 digests, the names of entities
  Content,      \* Content[f]: the digest of the bytes of f
  Workers,      \* HTTP handlers that may be active at the same time
  Cleaner,      \* the cleanup goroutine of main
  NoActor,      \* writeMu is free
  InitStatus,   \* what rows may be when the model starts
  Serial,       \* TRUE: no request or cleanup starts while another one runs
  Faults        \* what may fail: see FaultKinds

FaultKinds == {"store_write", "store_read", "rename", "unlink", "crash"}
Status     == {"unused", "live", "trash", "gone"}
Actors     == Workers \union {Cleaner}

ASSUME BlobAssumption ==
  /\ Files # {}
  /\ Content \in [Files -> Digests]
  /\ Cleaner \notin Workers
  /\ NoActor \notin Actors
  /\ InitStatus \subseteq {"unused", "live", "trash"}
  /\ Serial \in BOOLEAN
  /\ Faults \subseteq FaultKinds

VARIABLES
  row,       \* file_assets: the status of every row
  blobs,     \* the entities present under uploads/blobs
  purging,   \* the files uploads/.purging/<id> that exist
  writer,    \* the actor that holds writeMu across a file system call
  pc,        \* what each actor does next
  job,       \* the file an actor works on
  todo,      \* rows an actor has purged and whose entities it must visit
  seen,      \* digests emptyTrash has already tried to remove
  stranded   \* history: the files of uploads/.purging that were not renamed back

vars == <<row, blobs, purging, writer, pc, job, todo, seen, stranded>>
disk == <<blobs, purging, stranded>>

Steps == {"idle", "stat", "hash", "link", "restat", "createFresh", "createReused",
          "undo", "check", "stage", "purgeStaged", "purgeBare", "unstage",
          "unlink", "restore", "sweep", "remove", "expire"}

UploadSteps == {"stat", "hash", "link", "restat", "createFresh", "createReused", "undo"}
PurgeSteps  == {"check", "stage", "purgeStaged", "purgeBare", "unstage"}

TypeOK ==
  /\ row \in [Files -> Status]
  /\ blobs \subseteq Digests
  /\ purging \subseteq Files
  /\ writer \in Actors \union {NoActor}
  /\ pc \in [Actors -> Steps]
  /\ job \in [Actors -> Files]
  /\ todo \in [Actors -> SUBSET Files]
  /\ seen \in [Actors -> SUBSET Digests]
  /\ stranded \subseteq Files

Referenced(f)  == row[f] \in {"live", "trash"}
ReferencedData == {Content[f] : f \in {g \in Files : Referenced(g)}}

\* A library in which every row has its entity and nothing else is on disk.
Init ==
  /\ row \in [Files -> InitStatus]
  /\ blobs = ReferencedData
  /\ purging = {} /\ stranded = {}
  /\ writer = NoActor
  /\ pc = [w \in Actors |-> "idle"]
  /\ job = [w \in Actors |-> CHOOSE f \in Files : TRUE]
  /\ todo = [w \in Actors |-> {}]
  /\ seen = [w \in Actors |-> {}]

Idle      == \A w \in Actors : pc[w] = "idle"
CanStart(w) == pc[w] = "idle" /\ (Serial => Idle)
Goto(w, step) == pc' = [pc EXCEPT ![w] = step]
At(w, step)   == pc[w] = step

\* A store transaction runs while no other one is open.
StoreFree == writer = NoActor

\* Mutant: rows in the trash do not count.
ReferencedByLive(f) == \E g \in Files \ {f} : row[g] = "live" /\ Content[g] = Content[f]
\* Mutant: only rows in the trash count.
ReferencedByTrashed(f) == \E g \in Files \ {f} : row[g] = "trash" /\ Content[g] = Content[f]
\* Mutant: the row itself counts.
ReferencedAtAll(f) == \E g \in Files : Referenced(g) /\ Content[g] = Content[f]

\* StorageReferencedByOthers: a failed query counts as "not referenced".
ReferencedByOthers(f) == \E g \in Files \ {f} : Referenced(g) /\ Content[g] = Content[f]
ReferenceAnswers(f) ==
  {ReferencedByOthers(f)} \union (IF "store_read" \in Faults THEN {FALSE} ELSE {})

-----------------------------------------------------------------------------
(* uploadFile: stage, find or link the entity, create the row.             *)

UploadStart(w, f) ==
  /\ CanStart(w)
  /\ row[f] = "unused"
  /\ \A v \in Actors : pc[v] \notin UploadSteps \/ job[v] # f
  /\ job' = [job EXCEPT ![w] = f]
  /\ Goto(w, "stat")
  /\ UNCHANGED <<row, disk, writer, todo, seen>>

UploadStat(w) ==
  /\ At(w, "stat")
  /\ Goto(w, IF Content[job[w]] \in blobs THEN "hash" ELSE "link")
  /\ UNCHANGED <<row, disk, writer, job, todo, seen>>

\* fileHashMatches opens the entity the stat has found; if it is gone by then,
\* the upload fails.
UploadHash(w) ==
  /\ At(w, "hash")
  /\ Goto(w, IF Content[job[w]] \in blobs THEN "createReused" ELSE "idle")
  /\ UNCHANGED <<row, disk, writer, job, todo, seen>>

\* os.Link creates the entity only if the name is still free.
UploadLink(w) ==
  /\ At(w, "link")
  /\ Goto(w, IF Content[job[w]] \in blobs THEN "restat" ELSE "createFresh")
  /\ blobs' = blobs \union {Content[job[w]]}
  /\ UNCHANGED <<row, purging, stranded, writer, job, todo, seen>>

\* After EEXIST the entity is validated again; if it is gone the upload fails.
UploadRestat(w) ==
  /\ At(w, "restat")
  /\ Goto(w, IF Content[job[w]] \in blobs THEN "hash" ELSE "idle")
  /\ UNCHANGED <<row, disk, writer, job, todo, seen>>

UploadCreate(w) ==
  /\ pc[w] \in {"createFresh", "createReused"}
  /\ StoreFree
  /\ row' = [row EXCEPT ![job[w]] = "live"]
  /\ Goto(w, "idle")
  /\ UNCHANGED <<disk, writer, job, todo, seen>>

\* Mutant: an entity this request linked stays behind.
UploadCreateAbandons(w) ==
  /\ "store_write" \in Faults
  /\ pc[w] \in {"createFresh", "createReused"}
  /\ StoreFree
  /\ Goto(w, "idle")
  /\ UNCHANGED <<row, disk, writer, job, todo, seen>>

UploadCreateFails(w) ==
  /\ "store_write" \in Faults
  /\ pc[w] \in {"createFresh", "createReused"}
  /\ StoreFree
  /\ Goto(w, IF At(w, "createFresh") THEN "undo" ELSE "idle")
  /\ UNCHANGED <<row, disk, writer, job, todo, seen>>

\* createUploadedAsset removes the entity this request linked; the error of
\* os.Remove is ignored.
UploadUndo(w) ==
  /\ At(w, "undo")
  /\ blobs' \in {blobs \ {Content[job[w]]}}
                  \union (IF "unlink" \in Faults THEN {blobs} ELSE {})
  /\ Goto(w, "idle")
  /\ UNCHANGED <<row, purging, stranded, writer, job, todo, seen>>

-----------------------------------------------------------------------------
(* Trash: one transaction to enter it, a stat inside a transaction to      *)
(* leave it.                                                               *)

\* deleteFiles, and the trash step of CleanupExpired.
MoveToTrash(S) ==
  /\ StoreFree
  /\ \E f \in S : row[f] = "live"
  /\ row' = [f \in Files |-> IF f \in S /\ row[f] = "live" THEN "trash" ELSE row[f]]

DeleteFiles(S) ==
  /\ Serial => Idle
  /\ MoveToTrash(S)
  /\ UNCHANGED <<disk, writer, pc, job, todo, seen>>

\* RestoreTrash keeps writeMu from its stat to its commit.
RestoreStat(w, f) ==
  /\ CanStart(w)
  /\ StoreFree
  /\ row[f] = "trash"
  /\ Content[f] \in blobs
  /\ writer' = w
  /\ job' = [job EXCEPT ![w] = f]
  /\ Goto(w, "restore")
  /\ UNCHANGED <<row, disk, todo, seen>>

RestoreCommit(w) ==
  /\ At(w, "restore")
  /\ row' = [row EXCEPT ![job[w]] = "live"]
  /\ writer' = NoActor
  /\ Goto(w, "idle")
  /\ UNCHANGED <<disk, job, todo, seen>>

RestoreFails(w) ==
  /\ "store_write" \in Faults
  /\ At(w, "restore")
  /\ writer' = NoActor
  /\ Goto(w, "idle")
  /\ UNCHANGED <<row, disk, job, todo, seen>>

-----------------------------------------------------------------------------
(* purgeTrash: set the entity aside, delete the row, then unlink or undo.  *)

PurgeStart(w, f) ==
  /\ CanStart(w)
  /\ row[f] = "trash"
  /\ job' = [job EXCEPT ![w] = f]
  /\ Goto(w, "check")
  /\ UNCHANGED <<row, disk, writer, todo, seen>>

PurgeCheck(w) ==
  /\ At(w, "check")
  /\ \E referenced \in ReferenceAnswers(job[w]) :
       Goto(w, IF referenced THEN "purgeBare" ELSE "stage")
  /\ UNCHANGED <<row, disk, writer, job, todo, seen>>

\* Rename to .purging/<id>; a missing entity is not an error.
PurgeStage(w) ==
  /\ At(w, "stage")
  /\ blobs' = blobs \ {Content[job[w]]}
  /\ purging' = purging \union (IF Content[job[w]] \in blobs THEN {job[w]} ELSE {})
  /\ Goto(w, "purgeStaged")
  /\ UNCHANGED <<row, stranded, writer, job, todo, seen>>

PurgeStageFails(w) ==
  /\ "rename" \in Faults
  /\ At(w, "stage")
  /\ Goto(w, "idle")
  /\ UNCHANGED <<row, disk, writer, job, todo, seen>>

PurgeCommit(w) ==
  /\ pc[w] \in {"purgeStaged", "purgeBare"}
  /\ StoreFree
  /\ row[job[w]] = "trash"
  /\ row' = [row EXCEPT ![job[w]] = "gone"]
  /\ Goto(w, IF At(w, "purgeStaged") THEN "unlink" ELSE "idle")
  /\ UNCHANGED <<disk, writer, job, todo, seen>>

\* The row has left the trash in the meantime, or the transaction failed.
PurgeFails(w) ==
  /\ pc[w] \in {"purgeStaged", "purgeBare"}
  /\ StoreFree
  /\ row[job[w]] # "trash" \/ "store_write" \in Faults
  /\ Goto(w, IF At(w, "purgeStaged") THEN "unstage" ELSE "idle")
  /\ UNCHANGED <<row, disk, writer, job, todo, seen>>

\* Mutant: the file is removed, not renamed back.
PurgeDiscards(w) ==
  /\ At(w, "unstage")
  /\ purging' = purging \ {job[w]}
  /\ Goto(w, "idle")
  /\ UNCHANGED <<row, blobs, stranded, writer, job, todo, seen>>

\* Rename back; nothing happens if the file is gone.
PurgeUnstage(w) ==
  /\ At(w, "unstage")
  /\ purging' = purging \ {job[w]}
  /\ blobs' = blobs \union (IF job[w] \in purging THEN {Content[job[w]]} ELSE {})
  /\ Goto(w, "idle")
  /\ UNCHANGED <<row, stranded, writer, job, todo, seen>>

\* The error of the rename back is ignored: the bytes stay aside.
PurgeUnstageFails(w) ==
  /\ "rename" \in Faults
  /\ At(w, "unstage")
  /\ job[w] \in purging
  /\ stranded' = stranded \union {job[w]}
  /\ Goto(w, "idle")
  /\ UNCHANGED <<row, blobs, purging, writer, job, todo, seen>>

PurgeUnlink(w) ==
  /\ At(w, "unlink")
  /\ purging' \in {purging \ {job[w]}}
                    \union (IF "unlink" \in Faults THEN {purging} ELSE {})
  /\ Goto(w, "idle")
  /\ UNCHANGED <<row, blobs, stranded, writer, job, todo, seen>>

-----------------------------------------------------------------------------
(* emptyTrash and the cleanup goroutine: delete the rows of a set of files *)
(* in one transaction, then visit their entities one by one.               *)

PurgeRows(w, S) ==
  /\ StoreFree
  /\ row' = [f \in Files |-> IF f \in S THEN "gone" ELSE row[f]]
  /\ todo' = [todo EXCEPT ![w] = S]
  /\ seen' = [seen EXCEPT ![w] = {}]
  /\ Goto(w, "sweep")
  /\ UNCHANGED <<disk, writer, job>>

Trashed == {f \in Files : row[f] = "trash"}

EmptyTrash(w) ==
  /\ w \in Workers
  /\ CanStart(w)
  /\ Trashed # {}
  /\ PurgeRows(w, Trashed)

\* One tick of cleanupLoop: CleanupExpired, then PurgeExpiredTrash.  Which
\* rows are old enough is left to the environment.
CleanupExpired(S) ==
  /\ CanStart(Cleaner)
  /\ MoveToTrash(S)
  /\ Goto(Cleaner, "expire")
  /\ UNCHANGED <<disk, writer, job, todo, seen>>

CleanupSkips ==
  /\ CanStart(Cleaner)
  /\ Goto(Cleaner, "expire")
  /\ UNCHANGED <<row, disk, writer, job, todo, seen>>

PurgeExpiredTrash(S) ==
  /\ At(Cleaner, "expire")
  /\ S \subseteq Trashed
  /\ PurgeRows(Cleaner, S)

\* The entity has been tried before, or another row still needs it.
SweepKeeps(w, f) ==
  /\ At(w, "sweep")
  /\ f \in todo[w]
  /\ Content[f] \in seen[w] \/ TRUE \in ReferenceAnswers(f)
  /\ todo' = [todo EXCEPT ![w] = @ \ {f}]
  /\ UNCHANGED <<row, disk, writer, pc, job, seen>>

\* Only emptyTrash remembers the digests it has seen.
SweepClaims(w, f) ==
  /\ At(w, "sweep")
  /\ f \in todo[w]
  /\ Content[f] \notin seen[w] /\ FALSE \in ReferenceAnswers(f)
  /\ todo' = [todo EXCEPT ![w] = @ \ {f}]
  /\ seen' = [seen EXCEPT ![w] = IF w = Cleaner THEN {} ELSE @ \union {Content[f]}]
  /\ job' = [job EXCEPT ![w] = f]
  /\ Goto(w, "remove")
  /\ UNCHANGED <<row, disk, writer>>

SweepRemove(w) ==
  /\ At(w, "remove")
  /\ blobs' \in {blobs \ {Content[job[w]]}}
                  \union (IF "unlink" \in Faults THEN {blobs} ELSE {})
  /\ Goto(w, "sweep")
  /\ UNCHANGED <<row, purging, stranded, writer, job, todo, seen>>

SweepDone(w) ==
  /\ At(w, "sweep")
  /\ todo[w] = {}
  /\ Goto(w, "idle")
  /\ UNCHANGED <<row, disk, writer, job, todo, seen>>

-----------------------------------------------------------------------------
\* The process dies and is started again: an open transaction rolls back and
\* nothing on disk is repaired.
Crash ==
  /\ "crash" \in Faults
  /\ ~Idle
  /\ writer' = NoActor
  /\ pc' = [w \in Actors |-> "idle"]
  /\ todo' = [w \in Actors |-> {}]
  /\ seen' = [w \in Actors |-> {}]
  /\ UNCHANGED <<row, disk, job>>

UploadStep(w) ==
  \/ UploadStat(w) \/ UploadHash(w) \/ UploadLink(w) \/ UploadRestat(w)
  \/ UploadCreate(w) \/ UploadCreateFails(w) \/ UploadUndo(w)

PurgeStep(w) ==
  \/ PurgeCheck(w) \/ PurgeStage(w) \/ PurgeStageFails(w) \/ PurgeCommit(w)
  \/ PurgeFails(w) \/ PurgeUnstage(w) \/ PurgeUnstageFails(w) \/ PurgeUnlink(w)

SweepStep(w) ==
  \/ \E f \in Files : SweepKeeps(w, f) \/ SweepClaims(w, f)
  \/ SweepRemove(w)
  \/ SweepDone(w)

\* What an actor that has started still has to do.
Progress(w) ==
  \/ UploadStep(w)
  \/ PurgeStep(w)
  \/ SweepStep(w)
  \/ RestoreCommit(w) \/ RestoreFails(w)
  \/ w = Cleaner /\ \E S \in SUBSET Files : PurgeExpiredTrash(S)

Next ==
  \/ \E w \in Workers, f \in Files : UploadStart(w, f) \/ RestoreStat(w, f) \/ PurgeStart(w, f)
  \/ \E w \in Workers : EmptyTrash(w)
  \/ \E S \in SUBSET Files : DeleteFiles(S) \/ CleanupExpired(S)
  \/ CleanupSkips
  \/ \E w \in Actors : Progress(w)
  \/ Crash

Spec == Init /\ [][Next]_vars

\* Goroutines that have started are scheduled until they finish.
FairSpec == Spec /\ \A w \in Actors : WF_vars(Progress(w))
-----------------------------------------------------------------------------
(* Properties.                                                             *)

\* What an actor may rely on about the row it works on.  An upload owns a name
\* nobody else knows; a purge or sweep never works on a name that may still be
\* uploaded, and unlinks only for rows that are gone for good; RestoreTrash
\* keeps its row in the trash by holding writeMu.
JobsOK ==
  \A w \in Actors :
    /\ pc[w] \in UploadSteps =>
         /\ row[job[w]] = "unused"
         /\ \A v \in Actors \ {w} : pc[v] \in UploadSteps => job[v] # job[w]
    /\ pc[w] \in PurgeSteps => row[job[w]] # "unused"
    /\ pc[w] \in {"unlink", "remove"} => row[job[w]] = "gone"
    /\ pc[w] = "restore" => writer = w /\ row[job[w]] = "trash"
    /\ \A f \in todo[w] : row[f] = "gone"

\* The bytes of a row that is live or in the trash are never lost: they are in
\* their entity or in a file a purge has set aside under uploads/.purging.
\* About the order of check, rename, transaction and unlink in purgeTrash,
\* emptyTrash and cleanupLoop.
EntityKept ==
  \A f \in Files : Referenced(f) =>
    Content[f] \in blobs \/ \E g \in purging : Content[g] = Content[f]

\* Bytes that were uploaded once are never lost, whatever runs at the same time
\* and whatever fails: every race above needs two rows with one entity.
UnsharedKept ==
  \A f \in Files :
    /\ Referenced(f)
    /\ \A g \in Files \ {f} : Content[g] # Content[f]
    => Content[f] \in blobs \/ f \in purging

\* A live row can be served: its entity exists under the name the row has.
\* About dedup in uploadFile against every path that removes an entity.
LiveHasEntity ==
  \A f \in Files : row[f] = "live" => Content[f] \in blobs

\* Once nothing runs that could still bring an entity back, every live row has
\* its own.  About uploadFile, which validates an entity before it reuses it.
RestServed == Idle => LiveHasEntity

\* When nothing runs, the disk holds the entities of the rows and no others,
\* and what a purge has set aside is gone or back, unless its rename back has
\* failed: a permanent deletion leaves no residue, an abandoned upload neither
\* (purgeTrash, emptyTrash, cleanupLoop, createUploadedAsset).
NoResidue ==
  Idle => blobs \subseteq ReferencedData /\ purging \subseteq stranded

Unserved(f)  == row[f] = "live" /\ Content[f] \notin blobs
Stranded(f)  == \E g \in stranded : Content[g] = Content[f]
Abandoned(d) == d \in blobs /\ d \notin ReferencedData

\* A live row that misses its entity, because a purge that started before the
\* row left the trash holds it aside, gets it back, unless the rename back
\* fails: RestoreTrash of a row whose entity a purge is just moving ends with a
\* row that can be served.
EntityReturns == \A f \in Files : Unserved(f) ~> ~Unserved(f) \/ Stranded(f)

\* An entity no row names any more is removed, by the request that removed the
\* last row or undid the upload, or is named again.
EntityReclaimed == \A d \in Digests : Abandoned(d) ~> ~Abandoned(d)
=============================================================================
