---------------------------- MODULE StorageOpen ----------------------------
(***************************************************************************)
(* How a start of OmniShare chooses where its data lives: openStorage in   *)
(* cmd/omnishare/main.go, NewSQLite, migrateFromJSON and                   *)
(* CleanDirtyDBArtifacts in storage/sqlite.go, New and load in             *)
(* storage/json.go.                                                        *)
(*                                                                         *)
(* A data directory holds omnishare.db, omnishare.json and the backup of   *)
(* the latter.  Their contents are sets of writes; an import copies the    *)
(* JSON content in one transaction.  Every step of a start may be the last *)
(* one before the process is killed, and the next start goes by what it    *)
(* finds on disk.  A save of the JSON file is one step here except when it *)
(* is interrupted: its system calls are the subject of DurableFile.        *)
(***************************************************************************)
EXTENDS Naturals, FiniteSets

CONSTANTS
  Writes,      \* the writes a user may make
  Absent,      \* the content of a file that does not exist
  Faults       \* the faults that may happen, a subset of FaultKinds

FaultKinds == {"schema",   \* a pragma or the schema transaction fails
               "import",   \* the import fails: unreadable source, full disk, broken chain
               "unlink",   \* a leftover database file cannot be removed
               "kill",     \* the process is killed between two steps
               "cut"}      \* the process is killed inside a write

ASSUME OpenAssumption == Faults \subseteq FaultKinds /\ \A S \in SUBSET Writes : S # Absent

VARIABLES
  db,          \* the committed content of omnishare.db
  json,        \* the content of omnishare.json and omnishare.json.bak
  pc,          \* the step the process is in
  purpose,     \* "serve", or "migrate" for --migrate-storage
  had,         \* openStorage's hadSQLite: the database existed at the start
  need,        \* NewSQLite's needsMigration
  engine,      \* the engine that serves
  acked,       \* history: the writes acknowledged to the user
  cutOff       \* history: an import or a save of the JSON file was cut off half way

vars == <<db, json, pc, purpose, had, need, engine, acked, cutOff>>

File == {Absent} \union SUBSET Writes

TypeOK ==
  /\ db \in File
  /\ json \in [main : File, bak : File]
  /\ pc \in {"down", "open", "import", "clean", "failed", "serving"}
  /\ purpose \in {"serve", "migrate"}
  /\ had \in BOOLEAN /\ need \in BOOLEAN
  /\ engine \in {"sqlite", "json", "fallback"}
  /\ acked \subseteq Writes
  /\ cutOff \in BOOLEAN
  /\ (need => ~had)

Init ==
  /\ db = Absent /\ json = [main |-> Absent, bak |-> Absent]
  /\ pc = "down" /\ purpose = "serve" /\ had = FALSE /\ need = FALSE
  /\ engine = "sqlite" /\ acked = {} /\ cutOff = FALSE

Goto(step) == pc' = step
Exists(f)  == f # Absent
ContentOf(f) == IF Exists(f) THEN f ELSE {}

\* What readers are shown: the database, or the JSON content kept in memory.
Shows == IF engine = "sqlite" THEN ContentOf(db) ELSE ContentOf(json.main)

-----------------------------------------------------------------------------
(* Opening SQLite.                                                         *)

StartSQLite(why) ==
  /\ pc = "down" /\ Goto("open")
  /\ purpose' = why
  /\ had' = Exists(db)
  /\ need' = (~Exists(db) /\ Exists(json.main))
  /\ UNCHANGED <<db, json, engine, acked, cutOff>>

\* A start ends with a database file that still lacks the import it needs.
LeftBehind == need /\ pc \in {"open", "import", "clean"} /\ Exists(db')

Serve(e) == /\ pc' = IF purpose = "serve" THEN "serving" ELSE "down"
            /\ engine' = e

\* The pragmas create the file, the schema transaction its tables.
OpenDatabase ==
  /\ pc = "open"
  /\ db' = ContentOf(db)
  /\ IF need THEN Goto("import") /\ UNCHANGED engine ELSE Serve("sqlite")
  /\ UNCHANGED <<json, purpose, had, need, acked, cutOff>>

\* Mutant: every failure to open removes the database files.
OpenFailsCleaning ==
  /\ "schema" \in Faults /\ pc = "open" /\ Goto("failed")
  /\ db' = Absent
  /\ UNCHANGED <<json, purpose, had, need, engine, acked, cutOff>>

\* An early error may leave the new file behind: only a failed import is cleaned up.
OpenFails ==
  /\ "schema" \in Faults /\ pc = "open" /\ Goto("failed")
  /\ db' \in {db, ContentOf(db)}
  /\ cutOff' = (cutOff \/ LeftBehind)
  /\ UNCHANGED <<json, purpose, had, need, engine, acked>>

Import ==
  /\ pc = "import"
  /\ db' = json.main
  /\ Serve("sqlite")
  /\ UNCHANGED <<json, purpose, had, need, acked, cutOff>>

\* Mutant: a failed import leaves the database file it created.
ImportFailsDirty ==
  /\ "import" \in Faults /\ pc = "import" /\ Goto("failed")
  /\ UNCHANGED <<db, json, purpose, had, need, engine, acked, cutOff>>

ImportFails ==
  /\ "import" \in Faults /\ pc = "import" /\ Goto("clean")
  /\ UNCHANGED <<db, json, purpose, had, need, engine, acked, cutOff>>

CleanDirtyDBArtifacts ==
  /\ pc = "clean" /\ Goto("failed")
  /\ db' = Absent
  /\ UNCHANGED <<json, purpose, had, need, engine, acked, cutOff>>

\* NewSQLite drops the error of the removal.
CleanFails ==
  /\ "unlink" \in Faults /\ pc = "clean" /\ Goto("failed")
  /\ cutOff' = TRUE
  /\ UNCHANGED <<db, json, purpose, had, need, engine, acked>>

-----------------------------------------------------------------------------
(* Opening JSON.                                                           *)

\* New saves the state when it was recovered from the backup or is the first.
Loaded(d) ==
  IF Exists(d.main) THEN d ELSE [main |-> ContentOf(d.bak), bak |-> Absent]

\* The operator selects the JSON engine only for data that never left it.
StartJSON ==
  /\ pc = "down" /\ ~Exists(db) /\ Goto("serving")
  /\ json' = Loaded(json)
  /\ engine' = "json" /\ purpose' = "serve"
  /\ cutOff' = FALSE
  /\ UNCHANGED <<db, had, need, acked>>

\* Mutant: a database that cannot be opened is no reason to refuse.
FallbackAlways ==
  /\ pc = "failed" /\ purpose = "serve" /\ Exists(json.main)
  /\ Goto("serving") /\ engine' = "fallback"
  /\ json' = Loaded(json)
  /\ UNCHANGED <<db, purpose, had, need, acked, cutOff>>

Fallback ==
  /\ pc = "failed" /\ purpose = "serve" /\ ~had /\ Exists(json.main)
  /\ Goto("serving") /\ engine' = "fallback"
  /\ json' = Loaded(json)
  /\ UNCHANGED <<db, purpose, had, need, acked, cutOff>>

\* No fallback, or one that cannot read the JSON file either.
Refuse ==
  /\ pc = "failed"
  /\ purpose = "migrate" \/ had \/ ~Exists(json.main) \/ "import" \in Faults
  /\ Goto("down")
  /\ UNCHANGED <<db, json, purpose, had, need, engine, acked, cutOff>>

-----------------------------------------------------------------------------
(* Serving, stopping and being killed.                                     *)

Saved(d, content) == [main |-> content, bak |-> d.main]

Write(i) ==
  /\ pc = "serving" /\ i \notin acked \union Shows
  /\ acked' = acked \union {i}
  /\ IF engine = "sqlite"
       THEN db' = ContentOf(db) \union {i} /\ UNCHANGED json
       ELSE json' = Saved(json, Shows \union {i}) /\ UNCHANGED db
  /\ UNCHANGED <<pc, purpose, had, need, engine, cutOff>>

ShutDown ==
  /\ pc = "serving" /\ Goto("down")
  /\ UNCHANGED <<db, json, purpose, had, need, engine, acked, cutOff>>

Kill ==
  /\ "kill" \in Faults /\ pc # "down" /\ Goto("down")
  /\ db' \in IF pc = "open" THEN {db, ContentOf(db)} ELSE {db}
  /\ cutOff' = (cutOff \/ LeftBehind)
  /\ UNCHANGED <<json, purpose, had, need, engine, acked>>

\* Killed inside a write that was not acknowledged: between two calls of
\* WriteFile, or around the commit.
KillWriting(i) ==
  /\ "cut" \in Faults /\ pc = "serving" /\ Goto("down")
  /\ i \notin acked \union Shows
  /\ IF engine = "sqlite"
       THEN db' = ContentOf(db) \union {i} /\ UNCHANGED json
       ELSE /\ json' \in {[json EXCEPT !.bak = Absent],
                          [main |-> Absent, bak |-> json.main],
                          Saved(json, Shows \union {i})}
            /\ UNCHANGED db
  /\ cutOff' = (cutOff \/ (engine # "sqlite" /\ ~Exists(json'.main)))
  /\ UNCHANGED <<purpose, had, need, engine, acked>>

Next ==
  \/ \E why \in {"serve", "migrate"} : StartSQLite(why)
  \/ OpenDatabase \/ OpenFails \/ Import \/ ImportFails
  \/ CleanDirtyDBArtifacts \/ CleanFails
  \/ StartJSON \/ Fallback \/ Refuse
  \/ \E i \in Writes : Write(i) \/ KillWriting(i)
  \/ ShutDown \/ Kill

Spec == Init /\ [][Next]_vars

-----------------------------------------------------------------------------
(* Properties.                                                             *)

\* Whatever engine a start ends up with, the users find every acknowledged
\* write: after failed imports, fallbacks that took writes, and retries, as
\* openStorage says of "no migration pending".  Only what leaves the file of a
\* database behind without its import, or the JSON state under its backup name
\* alone, makes the next start overlook writes.
Shown == pc = "serving" /\ ~cutOff => acked \subseteq Shows

\* No sequence of failed, killed and repeated starts destroys an acknowledged
\* write: it stays in one of the files, if not in the one that is served.
Recoverable ==
  acked \subseteq ContentOf(db) \union ContentOf(json.main) \union ContentOf(json.bak)

\* The fallback never serves a JSON file that writes to SQLite have left
\* behind (openStorage, "falling back here can hide every write").
FallbackCurrent ==
  pc = "serving" /\ engine = "fallback" => acked \subseteq ContentOf(json.main)
=============================================================================
