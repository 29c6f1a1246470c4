# OmniShare in TLA+

OmniShare is a self-hosted server for notes, files and documents ("pads"): one Go
process (`src/backend`), a web client embedded in it (`src/frontend/web`) and a
desktop shell (`src/desktop`, Rust/Tauri) that starts and watches it. This
directory holds TLA+ models of the server and of the part of its client that
edits pads, the TLC configurations that check them on small instances, and TLAPS
proofs of what holds for every instance.

`PROJECT.json` lists the components, the runs, the hazards, the theorems and,
under `map`, the source lines each definition stands for. Line numbers below
refer to `src/backend/internal` unless a path says otherwise.

    tlc -config share_links.cfg MCShareAccess.tla    one run
    tlapm BlobStore_proofs.tla                       one proof module

## 1. The system

### Concurrency and failure, as the code has them

* HTTP handlers run one goroutine per request. Those of `/api`, `/s`, `/media`
  and `/n` hold `dataMu` in shared mode; only the commit of a restore holds it
  exclusively, so handlers do not exclude one another.
* Every mutator of the SQLite store holds `writeMu` from its first read to its
  commit and runs one transaction, in which it also appends its audit event.
  Readers use other connections and see the last commit (WAL). Within a
  handler, two store calls or a store call and a file operation are separate
  steps. The JSON engine has one read-write lock and saves a candidate state
  before it publishes it.
* `cleanupLoop` (cmd/omnishare/main.go:229) ticks once a minute and holds no
  `dataMu`; `statsLoop` flushes the buffered counters every five seconds under
  `writeMu`. A stop cancels them, drains requests for up to ten seconds and closes
  the store with a last flush.
* `config.Manager`, the authentication table, the ticket map and the peer
  table each have a mutex of their own, which no slow step (key derivation, file
  access) runs under.
* The process can be killed at any point. SQLite recovers committed
  transactions; files in the data directory are what the last system calls left.

### Inventory

| component | state | operations | what is hard | what makes it correct | module |
|---|---|---|---|---|---|
| physical entities of files (`api.go`, `sqlite.go`, main.go) | `file_assets` rows, `uploads/blobs`, `uploads/.purging` | upload with deduplication, trash, restore, purge, empty trash, retention sweep | several rows share an entity; check, rename, transaction and unlink are separate | a row has its bytes; a removed row leaves none | `BlobStore` |
| durable file (`durable/file.go`) | a file and its `.bak` | `WriteFile` | each system call fails on its own; kill and power loss between them | an acknowledged write survives | `DurableFile`, `DurableRegister` |
| JSON engine (`storage/json.go`) | the state in memory and `omnishare.json` | New, load, mutate, sweeps | publish after save, recovery from `.bak`, sweeps that look first under the read lock | rollback, durability | `DurableFile`, `StorageOpen`, `Retention` |
| configuration (`config/config.go`) | `config.json`, access key, cache of verified keys | New, Update, VerifyAccessKey | save at start; keys are verified outside the lock | as above; a replaced key dies | `DurableFile`, `AccessKey` |
| audit chain (`sqlite.go`) | `audit_events`, `audit_anchors` | append, anchor, prune, replace, verify | retention removes what the chain starts from; the verifier reads in two queries | an undamaged log verifies, without false alarms | `AuditChain` |
| counters (`sqlite.go`) | `read_count`, `download_count`, two buffers | read, download, flush, dump, replace | buffers in flight while more is counted; limits | counts are exact, limits hold | `ReadCounters` |
| media tickets (`api.go`) | map of counted tickets | create, serve ranges, sweep | check, mark, open and count are separate | one download per ticket | `MediaTickets` |
| share links (`api.go`, `sqlite.go`) | `share_links`, session cookies, per-visitor counter | create, revoke, open, consume, expire | lookup, validation, consumption and read are separate store calls | bounded audience, no service after death | `ShareAccess` |
| choice of engine and migration (main.go, `sqlite.go`) | the presence of two files | openStorage, NewSQLite, migrateFromJSON, fallback | a file's existence stands for a finished step | no acknowledged write disappears | `StorageOpen` |
| backup and restore (`api.go`) | `uploads`, `uploads.pre-restore`, rows, configuration | export, unpack, validate, swap, roll back | partial failure, kill in mid-swap, the cleanup loop beside it | all or nothing | `RestoreSwap`, `LibraryWhole` |
| backup encryption (`api/backup_crypto.go`) | stream of sealed records | write, close, read | cut, reordered, repeated, foreign records | whole plain text or an error | `BackupStream` |
| pads (`sqlite.go`, `web/app.js`) | rows with versions; queue of saves in the page | save with expected version, type, select, delete | which version a queued save names when it is sent; selections overlap | no edit is overwritten unseen | `PadEditing` |
| retention and expiry (`sqlite.go`, `json.go`) | `expires_at`, `updated_at`, `deleted_at`, dead links | CleanupExpired, PurgeExpiredTrash, restore | times compared as text; look and act apart | exactly what is due moves | `Retention` |
| authentication and limits (`api.go`, `init_token.go`) | failures per source, requests in progress, first-run token | limit, verify, record, sweep, evict | a request is let in before earlier ones have failed | bounded guessing at `/auth/verify`; a reason for every admission | `AuthLimiter`, `AccessKey` |
| LAN discovery (`discovery/lan.go`) | table of peers | announce, receive, validate, evict | late and repeated datagrams, foreign clocks | who has left is forgotten | `Peers` |
| notes and files as rows, listing, search | rows | CRUD | where they meet counters, entities, links and time | as in those modules | the modules above; listing is not modelled |
| desktop shell (Rust) | backend process, health | start, watch, restart, stop | watchdog against quit | no restart after quit | not modelled |
| device summary, instance lock, data model, assets, build scripts | | | | | not modelled: section 7 |

Interactions: handlers call the store and then the file system (`BlobStore`,
`ShareAccess`, `MediaTickets`); the store appends to the audit chain within its
transactions (`AuditChain`); the start of the process decides which engine answers
(`StorageOpen`) and that engine, if it is JSON, saves through the durable file
(`DurableFile`), as the configuration does; counters are exported by backups
(`ReadCounters`); a restore replaces store, uploads and configuration under all
handlers, and with the configuration the access key (`RestoreSwap`, `AccessKey`,
`PadEditing`); the cleanup loop ends rows (`Retention`), entities (`BlobStore`), audits
(`AuditChain`) and stale failures (`AuthLimiter`).

## 2. The modules

In all of them a mutator of the store is one atomic action, because `writeMu`
makes it one; what happens between two store calls, or between a store call and
a system call, is a step boundary. Definitions commented `Mutant:` are plausible
bugs against which a property is tested; they are in no specification.

### BlobStore

`row[f]` is the status of a row of `file_assets`, `blobs` the names under `uploads/blobs`,
`purging` those under `uploads/.purging`. The row of an upload is named from its start, as
`NewID` is always fresh; staging files, which only their request knows, are left out.
`stranded` marks a staged entity whose rename back has failed: purgeTrash ignores that
error (1594). `pc`, `job`, `todo`, `seen` hold where a handler or the cleaner is in
uploadFile (api/api.go:850), purgeTrash (1569), emptyTrash (1613) or cleanupLoop. `writer`
is the one actor holding `writeMu` over a file system call: RestoreTrash, which stats the
entity inside its transaction. `Faults` says which of a transaction, a reference query, a
rename, an unlink may fail, and whether the process may die. `Serial = TRUE` is the system
with one request or sweep at a time. A row may be trashed or purged for any reason the
environment likes: the clock is in `Retention`.

### DurableFile and DurableRegister

One action per system call of `WriteFileFunc` (durable/file.go:28-79): temporary
file, removal of the backup, rename of the current file to `.bak`, rename of the new
one into place, undo, directory sync. `possible` is the set of directories a
power loss may bring back: all since the last successful directory sync.
Contents are synced before they are named, so a crash never tears a file;
`DamageMain` does, and then only the generation before is promised;
after `DamageAll` a start has to be refused. Around it are
load and New (storage/json.go:53-104, config/config.go:47), `mutate` (225) and
`persistCandidate` (127). Both owners of the file are covered: a start with a good
main file may serve it as it is (JSON engine) or save it again (configuration,
schema upgrade). The directory sync is that of Unix; on Windows `syncDir` does
nothing.

`DurableRegister` is the promise: readers see one generation, acknowledged
ones survive, a write in doubt may or may not. `Refines` maps `value` to the
memory of a serving process.

### AuditChain

An event is its sequence number, the number its `prev_hash` stands for and whether
it is as it was written; an anchor is its span. AppendAudit is
appendAuditTx with maybeAnchorTx; PruneAudits walks the sealed segments oldest
first with an arbitrary set of expired ones and an arbitrary capacity;
ReplaceState is ReplaceStateJSON with rebuildAuditAnchorsTx; the verifier is two
actions, its two queries.

### ReadCounters

`count` is the column, `pending` the buffer, `batch` what a running flush has
taken. Downloads look for the row and count in two steps and need no
`writeMu`, so they interleave with the flush; everything else is one action.
`counted` and `lost` are history: the truth the columns are compared with. This is
the SQLite engine; the JSON engine counts in its state.

### ShareAccess

A handler's `pc` follows serveShare (api/api.go:1312): enter (with the per-visitor
counter), lookup of the link, status of the target, validation, consumption, read
of the target, opening of the file. Owners create, revoke, trash, restore, purge;
links, objects and sessions expire when the environment says so. A restart forgets
sessions (new signing key) and requests.

### StorageOpen

The contents of `omnishare.db` and of `omnishare.json` with its backup are sets of
writes. The steps are those of openStorage and NewSQLite: look for the
files, open, import, clean up after a failed import, fall back to JSON or refuse.
`purpose = "migrate"` is `--migrate-storage`. Starts are repeated for
ever, with failures and kills anywhere. A save of the JSON file is one
step unless it is cut; damage is left to DurableFile. The operator selects the
JSON engine explicitly only while no database exists; selecting it later hides
the database by intention.

### RestoreSwap and LibraryWhole

Backup and restore. A restorer stages a package (the last backup, or one made elsewhere
that passes or fails a validation) without a lock; then, holding `dataMu`, it removes a
leftover `uploads.pre-restore` (2140), moves `uploads` there and the staged directory in,
replaces the rows, verifies, saves the configuration. `step`, `failedAt`, `oldRows` and
`oldConfig` are its position and what its rollback goes by; every step and every undo may
fail, and the process may be killed between any two. A backup is a request beside others:
rows first, then a check of the files and their size (1774-1791), then the copies.
`Accepted` are the limits of a restore, which also count what a package holds besides
files. A data request is one action, because a swap cannot begin while it runs. `Overlap =
TRUE` is the code: the cleanup loop takes no `dataMu`. `Overlap = FALSE` keeps it out of a
swap; it separates what the restore does by itself from what the overlap breaks. `broken`
says whether a kill in mid-swap has left the parts of different generations ("killed"),
and whether another failure or kill after it may have taken the only copy of the old bytes
("worse").

`LibraryWhole` is the promise: rows, files and configuration change together. `Refines`
hides staging and the steps of a swap behind `oldRows`, `saved` and `oldConfig`.

### AccessKey

`authorized` and VerifyAccessKey step by step: HasAccessKey, the token, the copy
of the configuration, the look into the cache, the derivation (under no lock) and
the insertion. `Update` publishes and clears in two actions with `mu` held between
them; finishInitialization follows. `late` records keys replaced while a check of
them ran, `since` how long ago a key was replaced or last looked up as current.

### AuthLimiter

The table of failures guards `POST /auth/verify` alone (api/api.go:527-543). Every other
protected endpoint verifies the key of each request too (411-430) and neither asks nor
feeds the table: such a request (`elsewhere`) only takes a place among those in progress.
`doing` counts the requests of every source at each step: those elsewhere, and for
verifyAuth the look at the table, the check and the recording of the outcome. The entries
age, block for doubling times, are swept once a minute and evicted over the table's limit,
oldest first. `guesses` is what an outside observer of `/auth/verify` counts.

### MediaTickets

serveMediaTicket and the part of serveFile it leads to: the ticket is checked, the row
looked up, the ticket marked with the sweep that marking includes, the file opened,
the download stored. Requests without a body (HEAD) do not mark.

### PadEditing

The server's pad (text, version, trash, backup and restore) and pages: typing, the save
timer, the chain of queued snapshots, one save in flight, answers that are lost or say
409. `calls` holds what the calls of selectPad and deletePad await (app.js:1080-1096,
1207-1223): a save, the user's decision after it failed, the answer of the server. They
overlap with each other, for this pad or another one, and with typing; each answer is
shown when it comes, however old it is. `known` and `list` are the two places a page keeps
versions in (app.js:1161 decides between them when a save is sent). A text is the set of
edits it contains.

### BackupStream

Writer and reader of the encrypted container in both format versions, and a file in
between that is cut, recomposed from records of this and of another package, or
altered. A record opens only where it was sealed for: the cryptography is ideal.

### Retention

Rows and links with their times on either engine, and the two sweeps. Instants are
compared as the engine compares them: SQLite as RFC3339Nano text, whose fraction
has as many digits as it needs; JSON as times, after a look under the read lock
(`ProbeExpired`, `ProbeTrash`) that only decides whether there is anything to do.

### Peers

Announcements in flight with their age, clocks that run ahead, validation by both
limits, eviction by a ticker.

### The modules for TLC

`MCBlobStore`, `MCReadCounters` and `MCRestoreSwap` give their component constants and
symmetries. Five modules look at several instances in one state space, with a variable
(`part`, `mode`, `note`) that says which one a behaviour is about; the others rest. That
is sound because the instances share no state: a product would only multiply the
interleavings of steps that do not see each other.

* `MCServer`: eight small parts (StorageOpen; AccessKey, AuthLimiter, MediaTickets,
  BackupStream, Retention, Peers and BlobStore with races in the trash, these in the
  same eleven variables). Each property of a part is that of its module, for
  behaviours of that part.
* `MCProgress`: BlobStore one request at a time, BlobStore with races in the trash,
  and ReadCounters, with the fairness of section 3.
* `MCShareAccess`: a link of a file, or one of a note with a read limit.
* `MCAuditChain`: two histories whose next step names the one before, the audit log or a
  pad whose selections and deletions overlap.
* `MCDurableFile`: what is replaced as a whole, a document by WriteFile, or a pad, also by
  the restore of a backup.

## 3. The runs

| run | instance | states | shows |
|---|---|---|---|
| `blob_all_races` | 3 rows, 2 of one entity; 2 workers and the cleaner; every fault, crashes | 1.6 M | UnsharedKept |
| `progress` | 3 rows one at a time with failing transactions and renames; 2 rows of one entity with 2 workers and the cleaner; 1 note and 1 file with 3 reads | 0.1 M | LiveHasEntity, NoResidue; under fairness EntityReclaimed, RacingReturns, ReadsSaved |
| `blob_upload_race` | 2 rows of one entity, 2 workers, no faults | | violation, section 6 |
| `durable_file` | 4 generations, every fault, one mishap between two complete writes; or the page of `audit_log` with one call at a time and 1 restore | 2.3 M | NothingLost, StoredBeforeSeen, Refines; NoLostUpdate |
| `audit_log` | segments of 3, capacities 1, 5 and 10, 10 sequence numbers; or 1 page with two calls at a time and everybody else as `SaveElsewhere`, 2 edits, 3 versions, 1 snapshot in the queue | 2.0 M | Verifiable, NoFalseAlarm, Covered, TailShort; NoLostUpdate, CleanIsStored |
| `audit_emptied` | segments of 2 | | violation, section 6 |
| `counter_faults` | 1 note, 1 file, 2 reads, limits 0 and 1, failing flush, crash, restore | 2.4 M | CountsExact, BackupExact, LimitsHold |
| `share_links` | 1 link with one access, 2 browsers, 2 handlers, failing writes, restarts; or 1 link of a note of two reads, 2 browsers and the owner | 0.4 M | AudienceBounded, DeadNeverServed, BusyExact, SessionsPaid, ReadLimitHolds |
| `restore_swap` | 2 files, 2 configurations, a backup, incomplete and refused packages, every fault and kill | 4.9 M | OneGeneration, Salvageable, BackupWhole, Refines |
| `restore_overlap` | the same with the cleanup loop beside the swap, no faults | | violation, section 6 |
| `server_parts` | the eight parts below | 1.2 M | Shown, Recoverable, FallbackCurrent (StorageOpen); AdmittedForReason, StaleKeyBounded (AccessKey); VerifyBounded (AuthLimiter); CountedOnce, ServedIsCounted (MediaTickets); WholeOrError (BackupStream); SweepsExact (Retention); DepartedForgotten (Peers); RacingKept (BlobStore) |
| `retention_links` | 1 object, either engine | | violation, section 6 |

The parts of `server_parts`: StorageOpen with 3 writes and every fault; 2 keys, 2
requests and a cache life of 2; 2 sources, 2 requests of one and 3 of all, blocked from
the second failure, 2 doublings, 1 entry in the table; 2 tickets, 2 requests, 1 entry
before a sweep, a clock of 4; 5 units in records of 2, 2 damages; 1 object, periods of one
second, 9 instants; 1 node with a clock one second ahead; 2 rows of one entity, neither
being uploaded, with 2 requests and the cleaner, and every fault but a failing query.

Bounds. Two rows of one entity and two actors are what any race over an entity needs; the
third row, alone on its entity, tells shared from unshared. Four generations allow two
acknowledged writes, one in doubt and one after a restart. Ten sequence numbers hold three
full segments of three with a tail, so that prunes stop in the middle, and a replacement
can happen before or after an anchor; the real segment is 256 and nothing depends on it
but its length. Two reads suffice for a read before and one during a flush. One access and
two browsers over two handlers let two first visits race for the last access. Three writes
are one per engine that a history passes through and one in flight. Two files and two
configurations tell two generations apart in every part that is swapped. Two keys and two
requests are a rotation beside two checks of the old key, one of which feeds the other
through the cache. Limits of one or two entries make sweeps and evictions happen all the
time. Two edits are one that is known to a page and one that is not; a second page adds
only what SaveElsewhere does. Two calls are an answer that comes after a younger one; one
snapshot in the queue and the text shown are two saves whose order matters. The limits on packages
are wide enough for two files in `restore_swap`; the proofs are for any limits.
Nine instants hold three seconds with each of the three lengths of a fraction. Five units
are two full records and a short one, two damages a cut and a replacement. `MaxGen`,
`MaxSeq`, `MaxReads`, `MaxUses`, `MaxVersion`, `MaxQueue`, `MaxRestores`, `MaxUnits`,
`MaxTime`, `MaxSecond` bound counters that only grow.

Deadlock is checked in the BlobStore and RestoreSwap runs; elsewhere the bounds stop
the system. Symmetry is used for handlers, browsers, keys, requests, calls and edits where only
safety is checked. The VIEW of `blob_all_races` (WhatMatters) takes the variables of
a state without what an idle actor remembers of its last job and without the history
`stranded`: no action reads them, nor does UnsharedKept.

Fairness, in `progress` alone. A request or a sweep that has started goes on (weak
fairness of `Progress` per actor); nobody has to start anything, and
the model contains no wait other than for `writeMu`, which its holder gives back by
the same fairness. The flush of the counters is weakly fair: its ticker runs as long as
the process. Nothing else is assumed, in particular not that faults stop:
RacingReturns and EntityReclaimed hold with transactions failing again and again. A
rename back that fails is no such fault: what it strands never returns, and RacingReturns
excepts it.

## 4. What is proved

Every theorem is for all values of the constants under the module's named
assumption, with any faults; further assumptions are named in the theorem.

* **BlobStore_proofs**. `TypeCorrect`; `JobsCorrect`: what an actor has staged,
  claimed or stat-ed stays true until it acts, whatever the others do. From it
  `UnsharedSafe`: an entity of one row is destroyed by no race, fault or crash
  (the invariant adds where the entity is while its purge has it, and
  that only its own upload's undo or its own purged row's sweep can name it).
  `TrashSafe`: without uploads and with reference queries that answer, EntityKept
  holds in all interleavings; the premise TrashOnly is `InitStatus` without
  "unused" and no "store_read". Its invariant says that whoever is past a
  negative answer of the reference query may rely on it: without uploads,
  references only disappear. `SerialSafe`: LiveHasEntity, if requests run one at a
  time (OneAtATime: `Serial` and no failing query; crashes and other faults allowed).
  `NothingLeftBehind` (NoResidue), under Tidy (in addition no failing unlink and no crash):
  every entity is named by a row or owed to the removal by the one actor at work, and so
  is every staged one that no failed rename back has stranded.
* **DurableFile_proofs**. `TypeCorrect`; `Invariance` of the relation between the
  directory, what a power loss may make of it and the generations acknowledged, step by
  step of the write; `NothingIsLost` and `Implements` (the refinement of
  DurableRegister) from it, under OneMishap: not `SecondMishap`. NothingLost
  alone is not inductive: it says nothing of a process that is down. After any number of
  mishaps, `FailuresRolledBack` (RolledBack, which takes no place in the runs) and
  `SeenIsStored` (StoredBeforeSeen, an action property) hold, from Fresh: no directory
  that may come back names a generation that failed, and the one being written is
  nowhere before it is activated.
* **RestoreSwap_proofs**. `TypeCorrect`; `BackupIsWhole`, also with the overlap.
  Under Apart (`Overlap = FALSE`): `InvariantKept`, from it `OneGenerationKept`,
  `NothingBeyondRepair` and `Implements`. OneGeneration speaks of the
  states between swaps; the invariant says for every `step` which of the three parts
  are old and which are new, that the old ones are in `saved`, `oldRows`
  and `oldConfig`, and what of this is left after a kill: until the next restore removes
  `uploads.pre-restore`, all the bytes are there or in `uploads`. BackupWhole is about
  completeness; a backup may be over the limits of a restore (section 6).
* **ReadCounters_proofs**. `TypeCorrect`, whose invariant accounts for every read:
  in the row, in the buffer, in the batch of a flush, or lost; `CountsAreExact` and
  `BackupIsExact` follow. `LimitsAreKept` needs in addition that the limits hold
  in the backup, which a restore will bring back.
* **ShareAccess_proofs**. `TypeCorrect`; `BusyIsExact` (the counter is a cardinality of
  the set of handlers at work, which grows and shrinks by one); `DeadIsNeverServed`;
  `SessionsArePaid`: every cookie and every paid request is counted against
  `access_count`; `AudienceIsBounded` from it, over the set of those who were
  served or may still be; `ReadLimitIsKept` for notes, and for the links that go with
  the last read. They rest on a lemma that sorts the steps
  of a handler into seven kinds. PopulationAssumption: there are clients and links,
  and the sets are finite.
* **AuditChain_proofs**. `ChainInvariant`: the anchors are disjoint and tile the log from
  its origin up to a tail of less than a segment (Tiled); the rows are the newest part of
  the log and include the tail (Newest); until retention has once emptied the table, each
  row names the event before it, also where that one is gone (Linked); and unless a prune
  or a replacement came in between, the anchor a verification has read is still a
  point of the chain, with every later row present (BaseHolds). From it `LogVerifies`
  (Verifiable), `AppendsRaiseNoAlarm` (NoFalseAlarm), `NothingUncovered` (Covered) and
  `TailStaysShort` (TailShort). Covered needs that anchors do not overlap, TailShort that
  a replacement rebuilds the anchors from the first event it brings.
* **Parts_proofs** holds the proofs of seven small components, each
  over constants and variables of its own (`Key!Spec` is the specification of AccessKey).
  * AccessKey, under Distinct (the kinds of credentials differ). `StaleKeysLeave`
    (StaleKeyBounded): a derivation that will put a replaced key back took its time before
    the last lookup of it. `AdmissionHasReason` (AdmittedForReason): what a request has
    read was in force since it came; a key in the cache is current, or on record as
    replaced during a check, or `Update` has published and not cleared yet, and then
    whoever may still look it up began before.
  * AuthLimiter, under Limits (natural numbers, `Free` positive). `VerifyIsBounded`
    (VerifyBounded) from `PaceKept`: as long as the window of a source lasts, the history
    of its guesses is as old as its entry; before the first block there are no more
    guesses than failures; during a block, the guesses and the requests that are still to
    fail are paid for by the rests taken and the one that runs. The requests in progress
    of a source never exceed `PerIP`, those elsewhere included, which is why a block can
    be overrun by one group and not by two. What other endpoints refuse is not counted.
  * MediaTickets, under Sensible (there is a ticket; time reaches 1). `OneDownload`
    (CountedOnce) and `DownloadCounted` (ServedIsCounted) from one invariant: at most one
    request holds the mark of a ticket, none once it is counted, and a ticket that is good
    and not in the map was never marked. That a sweep removes only expired tickets is what
    keeps the last part.
  * PadEditing, without assumptions. `EditsAreKept` (NoLostUpdate) and
    `CleanPagesAreStored` (CleanIsStored) from `PagesKept`, which says for every page
    which edits the version it knows, the one in its list, its queued snapshots, its save
    in flight and the answers its calls have received stand for. While the page has not
    been shown something with saves outstanding, each snapshot contains those before it,
    and a save that names the current version contains all that is stored.
  * BackupStream, under Sizes (`ChunkSize` positive). `ReadInFullOrRefused` (WholeOrError)
    from `StreamKept`: any record in a damaged file is one of either writer, or does not
    open; a data record holds the units of its number, and only the last one is short; the
    end says how many there are; and what the reader has written are the units of the
    first `next` records of the package whose header it read.
  * Retention, under Periods (natural numbers). `SweepsAreOnTime` (SweepsExact), an
    action property: the order of two instants as text differs from that as times by less
    than a second, since the text agrees up to the seconds.
  * Peers, under Clocks (every clock is off by an integer, and one is ahead the
    most). `TheDepartedAreForgotten` (DepartedForgotten) from `AgesKept`: an entry of a
    node that has left was made of an announcement that could still be valid, and no
    entry is older than its life and the period of the ticker.
* **Server_proofs** is about `MCServer`, and so about what the run checks, for every set
  of keys, requests, sources, tickets, objects and nodes under
  ServerAssumption (credentials differ, actors differ, there is a ticket and a file).
  For StorageOpen: `NothingDestroyed` (Recoverable) and
  `FallbackIsCurrent` from KeptInv: where acknowledged writes are depends on
  whether the main JSON file exists, and an import only ever runs over an empty
  database; `AllShown` (Shown) from ShownInv: unless something was cut off, the
  data is in exactly the file the next start will choose. `ServerOpens` says that
  MCServer implements StorageOpen. The theorems of Parts_proofs and TrashSafe of
  BlobStore_proofs are taken over by INSTANCE (not those about pads, which MCServer does
  not contain): a server that begins with a part is a
  behaviour of that part (`KeyBehaves` and its like), in which the property holds.

What is proved does not depend on the bounds of the models, which are constants as well
(`MaxSeq`, `MaxReads`, `MaxVersion`, `MaxUnits`, `MaxDamage`, `MaxSecond`).

Model-checked only: the three liveness properties EntityReclaimed, RacingReturns and
ReadsSaved (fairness and ENABLED are beyond the provers used), and the four runs that
end in a violation.

## 5. Properties, by hazard

The hazards are listed in `PROJECT.json` at the lines where they bite, with the
properties that catch them. Properties were chosen so that each needs several
steps, mostly of several actors, to break; the mutants show how. Each module keeps
a type invariant; it is proved or was checked while the module was written, and takes
no place in the runs.

## 6. Where the code and its documentation part

Four disagreements are kept as runs that TLC must find violated:

* `blob_upload_race`: uploadFile finds and validates the entity (api/api.go:961) and
  inserts the row later; a sweep, or a purge of the entity's last row, that takes it in
  between leaves the new row without bytes when all are done, against
  `docs/REMEDIATION_v1.3.0-rc1.md:67`. The undo of a failed upload (989) does the same
  to an upload that has found the entity meanwhile.
* `audit_emptied`: retention may remove every event; appendAuditTx
  (storage/sqlite.go:1288) then starts with an empty previous hash though the last anchor
  has one, and VerifyAuditChain reports a broken chain, against the comment at
  sqlite.go:413.
* `restore_overlap`: the cleanup loop (cmd/omnishare/main.go:244) takes no `dataMu`. It
  may have purged rows whose bytes it removes after a restore, or the rollback of one,
  has brought the rows back; they then lack their bytes, against the comment at
  api/api.go:71. `restore_swap`, without the overlap, passes.
* `retention_links`: PurgeExpiredTrash deletes dead links and, when no row was purged,
  returns without a commit (storage/sqlite.go:3076), against its own comment at 3063 and
  the JSON engine. With `Engines = {"json"}` StaleLinksGone holds.

Others were found while modelling, and are the reasons for conditions in the
properties or for a restriction of a run:

* Files. Two overlapping purges of the two rows of one entity each see the other's row,
  and the entity stays on disk (api/api.go:1578): NoResidue is checked serially.
  StorageReferencedByOthers answers "no" when its query fails (sqlite.go:2084), and a
  shared entity is lost: LiveHasEntity and RacingKept are checked without this fault, and
  UnsharedKept does not speak of shared entities. purgeTrash ignores the error of its
  rename back (api/api.go:1594): the entity stays under `.purging`, out of reach of every
  later request (`stranded`).
* Durable file. A directory sync that fails after the rename returns an error for a change
  the next start publishes (durable/file.go:77); RolledBack excepts it. Killed after the
  first rename, and again in the start that repairs it after it removed the backup,
  neither generation is left (61): hence one mishap at a time. A start that recovers from
  the backup moves the damaged main file over it (65).
* Audit. VerifyAuditChain reads only events after the last anchor (sqlite.go:442), though
  its comment says every surviving event: damage to a sealed event is not found.
* Counters. updateNote compares a new limit with the stored count, without buffered reads
  (api/api.go:777), and a note already at its new limit is read once more.
  LimitsHold is about the limits a note was created with.
* Restore. A kill in mid-swap leaves the parts of two generations, of which the next start
  knows nothing. The old bytes are in `uploads.pre-restore`, which the next restore begins
  by removing (api/api.go:2140): if that one fails or is killed as well, they may be gone
  (`broken = "worse"`, which Salvageable excepts).
* Backup. generateBackup compares the bytes of the files with `backup_max_mb`
  (api/api.go:1784); applyRestore holds the state, the configuration and the manifest
  against the same limit (1982) and refuses more than 5000 files (2033) or 10000 ZIP
  entries (1966). A backup near a limit is made and no restore takes it, in spite of the
  comment at 1787: `archive # Nothing => Accepted(archive)` does not hold when two files
  fill `MaxSize`. BackupWhole claims completeness, not that.
* Reads. Only a new session's request and the owner's GET count against a note's limit:
  later requests of a session (api/api.go:1341), the raw and the manage view (831, 737)
  deliver the note uncounted as long as it is there. ReadLimitHolds is about the
  counted ones.
* Engines. A database file left by a failed schema transaction or by a kill before the
  import commits counts as a migrated one at the next start (sqlite.go:214); so does the
  absence of `omnishare.json` when only its backup is left. `cutOff` records these,
  and Shown is about the other starts; Recoverable is about all.
* Links. A link whose creation overlaps the purge of its object is inserted for nothing
  (api/api.go:1258); it is never served, which DeadNeverServed includes.
* Access key. A request without a key is let in when the key is removed between
  HasAccessKey and VerifyAccessKey. A replaced key may enter the cache after it
  was cleared and live there for two minutes. Two requests with the first-run token may
  both pass before the first of them sets the key; and when the key is removed at run
  time the token stays void until a restart. The limit of 128 cache entries is never
  reached.
* Limiter. When the window of a source ends while it is blocked, the next failure
  replaces its entry and the block with it. Eviction at the limit of the table lets a
  source start anew. `rests` and Forget account for both. The endpoints behind `protected`
  verify a key without asking the limiter (api/api.go:411-430): keys tried there are
  bounded by the requests in progress alone.
* Tickets. The mark is taken before the file is opened and the download stored: if the
  first request fails, the others are served uncounted (`missed`). A ticket that expires
  between check and mark may count twice (`late`). A restart voids all tickets.
* Pads. A queued save takes its version when it is sent (app.js:1161). If its page no
  longer shows the pad, that is the version in a list which may have been loaded since;
  if it shows the pad again, that of whichever answer came last. Text of an old version
  is then accepted with the number of a newer one, against
  `docs/PRODUCT_REQUIREMENTS_v1.2.md:78`. selectPad and deletePad keep no order among
  their answers (app.js:1088, 1212): two selections of a pad overlap, what is typed in
  between is replaced by the second answer, and the timer or the queue may still save
  it, over an edit of somebody else that the second answer has brought. NoLostUpdate
  excepts pages with such saves (`astray`): what it says is that nothing is lost while
  no save is outstanding when an answer is shown. A restore brings version numbers back
  that were used before (`epoch`). Text typed while the answer for a selected pad is
  under way is replaced by it. A save whose answer is lost meets a conflict with itself.
  Drafts are written to the session storage and never read.
* Backups. The end of a version 2 package is not authenticated; alterations of its
  header that keep salt, nonce and size change nothing. A failed read has already
  written a prefix, which the caller discards.
* Retention. Restoring an object that was trashed because it expired leaves
  `expires_at`: the next sweep takes it again. On SQLite instants of one second may
  compare in the wrong order, so a sweep is up to a second early; SweepsExact is exact to
  the second.

## 7. Not modelled

* Desktop shell: start, health check, watchdog and stop of the backend from Rust
  threads. A program of its own; the server's behaviour does not depend on it.
* Instance lock: an operating system lock taken once, which StorageOpen assumes.
  Device summary: stateless. Data model, embedded assets, build and release scripts:
  nothing happens in them.
* Web client: all but the pads (upload queue, rendering, offline state).
* Authentication: the buckets that limit audited denials, and checks of origins.
* Configuration: the validation of the other fields. Listing and search: pure queries.
* LAN discovery: the merge of the table with configured peers for display.
* Backup: the parsing of a package is one step that passes or fails. The limit of 2^32
  records is out of reach.
* Of the JSON engine, the mutators are one candidate of `mutate` each (DurableFile); its
  counters, links and snapshots hold its lock throughout. RestoreSwap and
  ReadCounters are about SQLite.
* Cryptography, SQLite and the file system's own guarantees are taken at their word. Data
  lengths, names, request parsing and HTTP headers are abstracted. ShareAccess and
  BlobStore leave out the restore of a backup, which RestoreSwap looks at with files of
  one row each.

## 8. What could follow

The watchdog of the desktop shell. A restore over shared entities, as the composition of
BlobStore with RestoreSwap. Proofs that the parts of AuthLimiter and MediaTickets
implement counters seen from outside, as DurableFile implements DurableRegister.
