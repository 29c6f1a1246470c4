---------------------------- MODULE DurableFile ----------------------------
(***************************************************************************)
(* A JSON document kept by durable.WriteFile: omnishare.json of the JSON   *)
(* engine and config.json.  The directory has two names, the document and  *)
(* its .bak; the temporary file has a random name nobody reads back, so    *)
(* its content is the candidate of the write in progress.                  *)
(*                                                                         *)
(* An action is one file system call or one decision of load, New or       *)
(* mutate.  Names change in the order of the calls, and a power loss       *)
(* brings back one of the directories since the last successful directory  *)
(* sync: the order of metadata changes is what a journalling file system   *)
(* keeps.  File contents are synced before they get a name, so a name is   *)
(* never torn by a crash, only by damage to the medium.                    *)
(***************************************************************************)
EXTENDS Integers

CONSTANTS
  MaxGen,         \* bound on the number of writes
  Absent, Torn,   \* a name that does not exist, a file that does not parse
  Down,           \* readers see nothing while the process is not serving
  Faults,         \* what may fail: see FaultKinds
  SecondMishap    \* TRUE: mishaps may follow each other without a full write

FaultKinds == {"write", "rename", "sync", "kill", "power", "damage"}

ASSUME DurableAssumption ==
  /\ MaxGen \in Nat
  /\ Absent \notin Nat /\ Torn \notin Nat /\ Down \notin Nat
  /\ Absent # Torn
  /\ SecondMishap \in BOOLEAN
  /\ Faults \subseteq FaultKinds

VARIABLES
  dir,       \* what the two names hold
  possible,  \* directories a power loss may bring back
  pc,        \* the next step of load, New or WriteFileFunc
  starting,  \* the write belongs to New
  mem,       \* the state in memory
  cand,      \* the candidate being written
  last,      \* generations numbered so far
  acked,     \* history: the newest generation whose writer was told success
  prev,      \* history: the one before
  failed,    \* history: generations whose write failed before they had the name
  hurt,      \* history: a mishap since the last write that succeeded
  ruined     \* history: the medium has damaged both files

disk    == <<dir, possible>>
history == <<acked, prev, failed, ruined>>
vars    == <<dir, possible, pc, starting, mem, cand, last, acked, prev, failed, hurt, ruined>>

Slot == Nat \union {Absent, Torn}
Dir  == [main : Slot, bak : Slot]
WriteSteps == {"write", "remove", "preserve", "activateFirst", "activateNext",
               "undo", "sync"}
Steps == {"down", "refused", "idle"} \union WriteSteps

TypeOK ==
  /\ dir \in Dir
  /\ possible \subseteq Dir /\ dir \in possible
  /\ pc \in Steps
  /\ starting \in BOOLEAN
  /\ mem \in Nat /\ cand \in Nat /\ last \in Nat
  /\ acked \in Nat /\ prev \in Nat
  /\ failed \subseteq Nat
  /\ hurt \in BOOLEAN /\ ruined \in BOOLEAN

Nothing == [main |-> Absent, bak |-> Absent]

Init ==
  /\ dir = Nothing
  /\ possible = {Nothing}
  /\ pc = "down"
  /\ starting = FALSE
  /\ mem = 0 /\ cand = 0 /\ last = 0
  /\ acked = 0 /\ prev = 0 /\ failed = {}
  /\ hurt = FALSE /\ ruined = FALSE

\* Mishaps come one at a time unless the configuration says otherwise.
Mishap == (hurt => SecondMishap) /\ hurt' = TRUE

SetDir(d) == dir' = d /\ possible' = possible \union {d}

-----------------------------------------------------------------------------
(* load and New.                                                           *)

Readable(d) == d.main \in Nat \/ d.bak \in Nat \/ d = Nothing
Loaded(d) ==
  IF d.main \in Nat THEN d.main ELSE IF d.bak \in Nat THEN d.bak ELSE 0

\* The main file is good and current: the JSON engine serves it as it is.
StartAsIs ==
  /\ pc = "down"
  /\ dir.main \in Nat
  /\ mem' = dir.main
  /\ pc' = "idle"
  /\ UNCHANGED <<disk, starting, cand, last, history, hurt>>

\* Recovered from .bak, a new directory, an older schema, or config.Manager,
\* which always does: New saves what it has loaded.
StartAndSave ==
  /\ pc = "down"
  /\ Readable(dir)
  /\ mem' = Loaded(dir)
  /\ cand' = Loaded(dir)
  /\ starting' = TRUE
  /\ pc' = "write"
  /\ UNCHANGED <<disk, last, history, hurt>>

StartRefused ==
  /\ pc = "down"
  /\ ~Readable(dir)
  /\ pc' = "refused"
  /\ UNCHANGED <<disk, starting, mem, cand, last, history, hurt>>

-----------------------------------------------------------------------------
(* mutate, ReplaceStateJSON and saveCandidate: write, then publish.        *)

\* Mutant: the change is made to the state readers see.
MutateInPlace ==
  /\ pc = "idle"
  /\ last < MaxGen
  /\ last' = last + 1
  /\ cand' = last + 1
  /\ mem' = last + 1
  /\ pc' = "write"
  /\ UNCHANGED <<disk, starting, history, hurt>>

Mutate ==
  /\ pc = "idle"
  /\ last < MaxGen
  /\ last' = last + 1
  /\ cand' = last + 1
  /\ pc' = "write"
  /\ UNCHANGED <<disk, starting, mem, history, hurt>>

\* The error ends New, and with it the process, or goes to one caller.
ReturnError ==
  /\ pc' = IF starting THEN "down" ELSE "idle"
  /\ starting' = FALSE
  /\ failed' = IF starting \/ pc = "sync" THEN failed ELSE failed \union {cand}
  /\ UNCHANGED <<mem, cand, last, acked, prev, ruined>>

-----------------------------------------------------------------------------
(* WriteFileFunc.                                                          *)

\* CreateTemp, Chmod, write, Flush, Sync, Close.
WriteTemp ==
  /\ pc = "write"
  /\ pc' = "remove"
  /\ UNCHANGED <<disk, starting, mem, cand, last, history, hurt>>

WriteTempFails ==
  /\ "write" \in Faults
  /\ pc = "write"
  /\ ReturnError
  /\ UNCHANGED <<disk, hurt>>

RemoveBackup ==
  /\ pc = "remove"
  /\ SetDir([dir EXCEPT !.bak = Absent])
  /\ pc' = "preserve"
  /\ UNCHANGED <<starting, mem, cand, last, history, hurt>>

\* The error of os.Remove is ignored.
RemoveBackupFails ==
  /\ "rename" \in Faults
  /\ pc = "remove"
  /\ Mishap
  /\ pc' = "preserve"
  /\ UNCHANGED <<disk, starting, mem, cand, last, history>>

\* Mutant: the current generation is removed, not renamed to .bak.
PreserveByRemoving ==
  /\ pc = "preserve"
  /\ dir.main # Absent
  /\ SetDir([dir EXCEPT !.main = Absent])
  /\ pc' = "activateNext"
  /\ UNCHANGED <<starting, mem, cand, last, history, hurt>>

Preserve ==
  /\ pc = "preserve"
  /\ dir.main # Absent
  /\ SetDir([main |-> Absent, bak |-> dir.main])
  /\ pc' = "activateNext"
  /\ UNCHANGED <<starting, mem, cand, last, history, hurt>>

NothingToPreserve ==
  /\ pc = "preserve"
  /\ dir.main = Absent
  /\ pc' = "activateFirst"
  /\ UNCHANGED <<disk, starting, mem, cand, last, history, hurt>>

PreserveFails ==
  /\ "rename" \in Faults
  /\ pc = "preserve"
  /\ dir.main # Absent
  /\ Mishap
  /\ ReturnError
  /\ UNCHANGED disk

Activate ==
  /\ pc \in {"activateFirst", "activateNext"}
  /\ SetDir([dir EXCEPT !.main = cand])
  /\ pc' = "sync"
  /\ UNCHANGED <<starting, mem, cand, last, history, hurt>>

ActivateFirstFails ==
  /\ "rename" \in Faults
  /\ pc = "activateFirst"
  /\ Mishap
  /\ ReturnError
  /\ UNCHANGED disk

ActivateNextFails ==
  /\ "rename" \in Faults
  /\ pc = "activateNext"
  /\ Mishap
  /\ pc' = "undo"
  /\ UNCHANGED <<disk, starting, mem, cand, last, history>>

\* Rename .bak back; whether that works is not looked at.
Undo ==
  /\ pc = "undo"
  /\ \/ SetDir([main |-> dir.bak, bak |-> Absent])
     \/ UNCHANGED disk
  /\ ReturnError
  /\ UNCHANGED hurt

\* Mutant: published without a sync.
SkipSync ==
  /\ pc = "sync"
  /\ mem' = cand
  /\ acked' = IF starting THEN acked ELSE cand
  /\ prev' = IF starting THEN prev ELSE acked
  /\ pc' = "idle"
  /\ starting' = FALSE
  /\ hurt' = FALSE
  /\ UNCHANGED <<disk, cand, last, failed, ruined>>

\* The directory is synced and the candidate published.
SyncDir ==
  /\ pc = "sync"
  /\ possible' = {dir}
  /\ mem' = cand
  /\ acked' = IF starting THEN acked ELSE cand
  /\ prev' = IF starting THEN prev ELSE acked
  /\ pc' = "idle"
  /\ starting' = FALSE
  /\ hurt' = FALSE
  /\ UNCHANGED <<dir, cand, last, failed, ruined>>

\* The error is returned although the new generation is in place.
SyncDirFails ==
  /\ "sync" \in Faults
  /\ pc = "sync"
  /\ ReturnError
  /\ UNCHANGED <<disk, hurt>>

-----------------------------------------------------------------------------
(* The environment.                                                        *)

Kill ==
  /\ "kill" \in Faults
  /\ pc \notin {"down", "refused"}
  /\ Mishap
  /\ pc' = "down"
  /\ starting' = FALSE
  /\ UNCHANGED <<disk, mem, cand, last, history>>

PowerLoss ==
  /\ "power" \in Faults
  /\ Mishap
  /\ \E d \in possible : dir' = d /\ possible' = {d}
  /\ pc' = "down"
  /\ starting' = FALSE
  /\ UNCHANGED <<mem, cand, last, history>>

\* The current generation becomes unreadable while it has a readable backup.
\* The owner can expect no more than the generation before.
DamageMain ==
  /\ "damage" \in Faults
  /\ pc = "down"
  /\ dir.main \in Nat /\ dir.bak \in Nat
  /\ possible = {dir}
  /\ Mishap
  /\ dir' = [dir EXCEPT !.main = Torn]
  /\ possible' = {dir'}
  /\ acked' = prev
  /\ UNCHANGED <<pc, starting, mem, cand, last, prev, failed, ruined>>

\* Every file there is becomes unreadable.
DamageAll ==
  /\ "damage" \in Faults
  /\ pc = "down"
  /\ dir # Nothing
  /\ possible = {dir}
  /\ Mishap
  /\ dir' = [main |-> IF dir.main = Absent THEN Absent ELSE Torn,
             bak  |-> IF dir.bak = Absent THEN Absent ELSE Torn]
  /\ possible' = {dir'}
  /\ ruined' = TRUE
  /\ UNCHANGED <<pc, starting, mem, cand, last, acked, prev, failed>>

\* An orderly shutdown between two writes.
ShutDown ==
  /\ pc = "idle"
  /\ pc' = "down"
  /\ UNCHANGED <<disk, starting, mem, cand, last, history, hurt>>

Next ==
  \/ StartAsIs \/ StartAndSave \/ StartRefused
  \/ Mutate
  \/ WriteTemp \/ WriteTempFails
  \/ RemoveBackup \/ RemoveBackupFails
  \/ Preserve \/ NothingToPreserve \/ PreserveFails
  \/ Activate \/ ActivateFirstFails \/ ActivateNextFails \/ Undo
  \/ SyncDir \/ SyncDirFails
  \/ Kill \/ PowerLoss \/ DamageMain \/ DamageAll \/ ShutDown

Spec == Init /\ [][Next]_vars
-----------------------------------------------------------------------------
(* Properties.                                                             *)

Serving == pc \notin {"down", "refused"} /\ ~starting

\* Whoever is served after a start sees every write that was acknowledged
\* before, after kills, power losses, failed renames and failed syncs, one at a
\* time.  A start is refused when both files are damaged, and only then: it
\* never begins with an empty document instead.  About the order of remove,
\* preserve, activate and sync, and about load.
NothingLost ==
  /\ pc = "refused" => ruined
  /\ Serving => mem >= acked /\ ~ruined

\* A write whose caller was told an error does not come back after a restart,
\* unless the error was that of the directory sync, which comes too late:
\* mutate has rollback semantics.  Proved in DurableFile_proofs.
RolledBack == Serving => mem \notin failed

\* Readers of a running process never see a new state that a power loss at this
\* very moment would take back, whatever happened to the writes before it: mutate
\* publishes only what WriteFile has synced.
StoredBeforeSeen ==
  [][Serving /\ mem' # mem => \A d \in possible' : Readable(d) /\ Loaded(d) >= mem']_vars

\* Readers see a register whose acknowledged writes survive.
Register == INSTANCE DurableRegister WITH
  value <- IF Serving THEN mem ELSE Down

Refines == Register!Spec
=============================================================================
