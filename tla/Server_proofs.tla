--------------------------- MODULE Server_proofs ---------------------------
(***************************************************************************)
(* Proofs about the parts of the server that MCServer checks: StorageOpen, *)
(* and the theorems of Parts_proofs and BlobStore_proofs for the sizes of  *)
(* MCServer, whatever its sets of keys, requests, sources and so on.       *)
(***************************************************************************)
EXTENDS MCServer, Integers, TLAPS

-----------------------------------------------------------------------------
(* StorageOpen, for any set of writes and any faults.                       *)

\* Every reachable state of the data directory and of a start is well typed,
\* and an import is wanted only where there was no database.
THEOREM TypeCorrect == Spec => []TypeOK
<1>1. Init => TypeOK
  <2>1. [main |-> Absent, bak |-> Absent] \in [main : File, bak : File]
    BY DEF File
  <2> QED
    BY <2>1 DEF Init, TypeOK, File
<1>2. TypeOK /\ [Next]_vars => TypeOK'
  <2> SUFFICES ASSUME TypeOK, [Next]_vars PROVE TypeOK'
    OBVIOUS
  <2> USE OpenAssumption DEF TypeOK, File, Goto, Exists, ContentOf, Serve
  <2>1. ASSUME NEW why \in {"serve", "migrate"}, StartSQLite(why) PROVE TypeOK'
    BY <2>1 DEF StartSQLite
  <2>2. CASE OpenDatabase           BY <2>2 DEF OpenDatabase
  <2>3. CASE OpenFails              BY <2>3 DEF OpenFails, LeftBehind
  <2>4. CASE Import                 BY <2>4 DEF Import
  <2>5. CASE ImportFails            BY <2>5 DEF ImportFails
  <2>6. CASE CleanDirtyDBArtifacts  BY <2>6 DEF CleanDirtyDBArtifacts
  <2>7. CASE CleanFails             BY <2>7 DEF CleanFails
  <2>8. CASE StartJSON              BY <2>8 DEF StartJSON, Loaded
  <2>9. CASE Fallback               BY <2>9 DEF Fallback, Loaded
  <2>10. CASE Refuse                BY <2>10 DEF Refuse
  <2>11. ASSUME NEW i \in Writes, Write(i) PROVE TypeOK'
    BY <2>11 DEF Write, Saved, Shows
  <2>12. ASSUME NEW i \in Writes, KillWriting(i) PROVE TypeOK'
    BY <2>12 DEF KillWriting, Saved, Shows
  <2>13. CASE ShutDown              BY <2>13 DEF ShutDown
  <2>14. CASE Kill                  BY <2>14 DEF Kill, LeftBehind
  <2>15. CASE UNCHANGED vars        BY <2>15 DEF vars
  <2> QED
    BY <2>1, <2>2, <2>3, <2>4, <2>5, <2>6, <2>7, <2>8, <2>9, <2>10, <2>11,
       <2>12, <2>13, <2>14, <2>15 DEF Next
<1> QED
  BY <1>1, <1>2, PTL DEF Spec

-----------------------------------------------------------------------------
(* Nothing acknowledged leaves the disk.                                   *)

\* What a start has found and made when it reaches each of its steps.
OnTheWay ==
  /\ pc = "open" => had = Exists(db) /\ need = (~Exists(db) /\ Exists(json.main))
  /\ pc \in {"import", "clean"} => need /\ db = {} /\ Exists(json.main)
  /\ pc = "failed" /\ ~had => ContentOf(db) = {}
  /\ pc = "serving" /\ engine # "sqlite" => Exists(json.main) /\ ContentOf(db) = {}

\* The backup name counts only while the JSON file itself is missing.
Stored ==
  IF Exists(json.main) THEN acked \subseteq ContentOf(db) \union json.main
                       ELSE acked \subseteq ContentOf(db) \union ContentOf(json.bak)

KeptInv == OnTheWay /\ Stored

LEMMA InitKeptInv == Init => KeptInv
  BY DEF Init, KeptInv, OnTheWay, Stored, Exists

LEMMA NextKeptInv == TypeOK /\ KeptInv /\ [Next]_vars => KeptInv'
<1> SUFFICES ASSUME TypeOK, KeptInv, [Next]_vars PROVE KeptInv'
  OBVIOUS
<1> USE OpenAssumption
    DEF TypeOK, File, Goto, Exists, ContentOf, Serve, KeptInv, OnTheWay, Stored
<1>1. ASSUME NEW why \in {"serve", "migrate"}, StartSQLite(why) PROVE KeptInv'
  BY <1>1 DEF StartSQLite
<1>2. CASE OpenDatabase           BY <1>2 DEF OpenDatabase
<1>3. CASE OpenFails              BY <1>3 DEF OpenFails
<1>4. CASE Import                 BY <1>4 DEF Import
<1>5. CASE ImportFails            BY <1>5 DEF ImportFails
<1>6. CASE CleanDirtyDBArtifacts  BY <1>6 DEF CleanDirtyDBArtifacts
<1>7. CASE CleanFails             BY <1>7 DEF CleanFails
<1>8. CASE StartJSON              BY <1>8 DEF StartJSON, Loaded
<1>9. CASE Fallback               BY <1>9 DEF Fallback, Loaded
<1>10. CASE Refuse                BY <1>10 DEF Refuse
<1>11. ASSUME NEW i \in Writes, Write(i) PROVE KeptInv'
  BY <1>11 DEF Write, Saved, Shows
<1>12. ASSUME NEW i \in Writes, KillWriting(i) PROVE KeptInv'
  BY <1>12 DEF KillWriting, Saved, Shows
<1>13. CASE ShutDown              BY <1>13 DEF ShutDown
<1>14. CASE Kill                  BY <1>14 DEF Kill
<1>15. CASE UNCHANGED vars        BY <1>15 DEF vars
<1> QED
  BY <1>1, <1>2, <1>3, <1>4, <1>5, <1>6, <1>7, <1>8, <1>9, <1>10, <1>11,
     <1>12, <1>13, <1>14, <1>15 DEF Next

LEMMA KeptInvariance == Spec => []KeptInv
  BY InitKeptInv, NextKeptInv, TypeCorrect, PTL DEF Spec

\* No sequence of failed, killed and repeated starts takes an acknowledged write
\* from the disk.
THEOREM NothingDestroyed == Spec => []Recoverable
<1>1. TypeOK /\ KeptInv => Recoverable
  BY DEF TypeOK, File, KeptInv, Stored, Recoverable, ContentOf, Exists
<1> QED
  BY <1>1, TypeCorrect, KeptInvariance, PTL

\* The JSON engine that openStorage falls back to has every acknowledged write.
THEOREM FallbackIsCurrent == Spec => []FallbackCurrent
<1>1. TypeOK /\ KeptInv => FallbackCurrent
  BY DEF TypeOK, File, KeptInv, OnTheWay, Stored, FallbackCurrent, ContentOf, Exists
<1> QED
  BY <1>1, TypeCorrect, KeptInvariance, PTL

-----------------------------------------------------------------------------
(* The file a start serves is the right one, unless something was cut off. *)

Importing == pc \in {"import", "clean"}

\* The data is in the database once it exists and has its import, and in the
\* JSON file before.
OnePlace ==
  /\ ~Exists(json.main) => ~Exists(json.bak)
  /\ Exists(db) /\ ~Importing => acked \subseteq db
  /\ ~Exists(db) \/ Importing => acked \subseteq ContentOf(json.main)
  /\ pc = "serving" => (engine = "sqlite" <=> Exists(db))
  /\ pc = "failed" /\ ~had /\ Exists(json.main) => ~Exists(db)

ShownInv == ~cutOff => OnePlace

LEMMA InitShownInv == Init => ShownInv
  BY DEF Init, ShownInv, OnePlace, Exists, Importing

LEMMA NextShownInv == TypeOK /\ KeptInv /\ ShownInv /\ [Next]_vars => ShownInv'
<1> SUFFICES ASSUME TypeOK, KeptInv, ShownInv, [Next]_vars PROVE ShownInv'
  OBVIOUS
<1> USE OpenAssumption
    DEF TypeOK, File, Goto, Exists, ContentOf, Serve, KeptInv, OnTheWay, Importing,
        ShownInv, OnePlace
<1>1. ASSUME NEW why \in {"serve", "migrate"}, StartSQLite(why) PROVE ShownInv'
  BY <1>1 DEF StartSQLite
<1>2. CASE OpenDatabase           BY <1>2 DEF OpenDatabase
<1>3. CASE OpenFails              BY <1>3 DEF OpenFails, LeftBehind
<1>4. CASE Import                 BY <1>4 DEF Import
<1>5. CASE ImportFails            BY <1>5 DEF ImportFails
<1>6. CASE CleanDirtyDBArtifacts  BY <1>6 DEF CleanDirtyDBArtifacts
<1>7. CASE CleanFails             BY <1>7 DEF CleanFails
<1>8. CASE StartJSON              BY <1>8 DEF StartJSON, Loaded, Stored
<1>9. CASE Fallback               BY <1>9 DEF Fallback, Loaded
<1>10. CASE Refuse                BY <1>10 DEF Refuse
<1>11. ASSUME NEW i \in Writes, Write(i) PROVE ShownInv'
  BY <1>11 DEF Write, Saved, Shows
<1>12. ASSUME NEW i \in Writes, KillWriting(i) PROVE ShownInv'
  <2>1. CASE engine = "sqlite"
    BY <1>12, <2>1 DEF KillWriting
  <2>2. CASE engine # "sqlite" /\ Exists(json'.main)
    <3>1. pc = "serving" /\ pc' = "down" /\ db' = db /\ acked' = acked
      BY <1>12, <2>2 DEF KillWriting
    <3>2. json'.main \in SUBSET Writes /\ ContentOf(json.main) \subseteq json'.main
      BY <1>12, <2>2 DEF KillWriting, Saved, Shows
    <3>3. cutOff' = cutOff
      BY <1>12, <2>2 DEF KillWriting
    <3> QED
      BY <2>2, <3>1, <3>2, <3>3
  <2>3. CASE engine # "sqlite" /\ ~Exists(json'.main)
    BY <1>12, <2>3 DEF KillWriting
  <2> QED
    BY <2>1, <2>2, <2>3
<1>13. CASE ShutDown              BY <1>13 DEF ShutDown
<1>14. CASE Kill                  BY <1>14 DEF Kill, LeftBehind
<1>15. CASE UNCHANGED vars        BY <1>15 DEF vars
<1> HIDE DEF TypeOK, File, Goto, Exists, ContentOf, Serve, KeptInv, OnTheWay, Importing,
             ShownInv, OnePlace
<1> QED
  BY <1>1, <1>2, <1>3, <1>4, <1>5, <1>6, <1>7, <1>8, <1>9, <1>10, <1>11,
     <1>12, <1>13, <1>14, <1>15 DEF Next

\* A start that nothing has cut off serves every acknowledged write, whichever
\* engine it ends up with.
THEOREM AllShown == Spec => []Shown
<1>1. TypeOK /\ ShownInv => Shown
  BY DEF TypeOK, File, ShownInv, OnePlace, Shown, Shows, ContentOf, Exists, Importing
<1>2. TypeOK /\ KeptInv /\ ShownInv /\ [Next]_vars => ShownInv'
  BY NextShownInv
<1> QED
  BY <1>1, <1>2, InitShownInv, TypeCorrect, KeptInvariance, PTL DEF Spec

-----------------------------------------------------------------------------
(* The proofs about the other parts, in the slots MCServer gives them.  The *)
(* pads are no part of MCServer: it does not matter what they are given.     *)

P == INSTANCE Parts_proofs WITH
  Workers <- Requests, KeyTTL <- 2, current <- s1, token <- s2, mu <- s3, cache <- s4,
  keyPc <- s5, keyReq <- s6, keyLate <- s7, since <- s8, PerIP <- 2, Global <- 3, Free <- 2,
  MaxSteps <- 2, LimitWindow <- 5, MaxLimited <- 1, LimitPeriod <- 2, doing <- s1,
  requestIP <- s2, requestTotal <- s3, auth <- s4, sweepIn <- s5, guesses <- s6, began <- s7,
  rests <- s8, TicketTTL <- 2, CountedPeriod <- 1, MaxCounted <- 1, MaxTime <- 4,
  ticketNow <- s1, ticketExpires <- s2, counted <- s3, countedSweep <- s4, ticketPc <- s5,
  ticketReq <- s6, downloads <- s7, served <- s8, missed <- s9, ticketLate <- s10,
  Clients <- Nodes, Calls <- Nodes, Edits <- Nodes, MaxVersion <- 1, MaxQueue <- 1,
  MaxRestores <- 1, text <- s1, version <- s1, live <- s1, epoch <- s1, backup <- s1,
  used <- s1, calls <- s1, known <- s1, editor <- s1, dirty <- s1, blocked <- s1, list <- s1,
  timer <- s1, chain <- s1, call <- s1, astray <- s1, ChunkSize <- 2, MaxUnits <- 5,
  MaxDamage <- 2, format <- s1, accepted <- s2, buf <- s3, index <- s4, writer <- s5,
  file <- s6, damage <- s7, pos <- s8, next <- s9, out <- s10, result <- s11, Period <- 1,
  TrashPeriod <- 1, LinkPeriod <- 1, MaxSecond <- 2, Engines <- Both, rowNow <- s1,
  state <- s2, rowExpires <- s3, touched <- s4, pinned <- s5, deleted <- s6, link <- s7,
  made <- s8, engine <- s9, probed <- s10, sweep <- s11, Ahead <- OneAhead, ReplayWindow <- 2,
  Life <- 3, EvictPeriod <- 2, up <- s1, absent <- s2, net <- s3, peers <- s4, evictIn <- s5

B == INSTANCE BlobStore_proofs WITH
  Files <- Twins, Digests <- {Bytes}, Content <- [f \in Twins |-> Bytes], Workers <- Requests,
  InitStatus <- {"live", "trash"}, Serial <- FALSE, Faults <- TrashFaults, row <- s1,
  blobs <- s2, purging <- s3, writer <- s4, pc <- s5, job <- s6, todo <- s7, seen <- s8,
  stranded <- s9

-----------------------------------------------------------------------------
(* Whose turn it is.  The instances of MCServer and of the proofs are the    *)
(* same formulas once their definitions are expanded.                        *)

LEMMA KeySame ==
  (Key!Init <=> P!Key!Init) /\ (Key!Next <=> P!Key!Next) /\ Key!vars = P!Key!vars
<1>1. Key!Init <=> P!Key!Init
  BY DEF Key!Values, Key!NoRequest, Key!Init, P!Key!Values, P!Key!NoRequest, P!Key!Init
<1>2. Key!vars = P!Key!vars
  BY DEF Key!vars, P!Key!vars
<1>3. Key!Next <=> P!Key!Next
  BY Zenon DEF Key!Values, Key!Shown, Key!NoRequest, Key!Checking, Key!At, Key!Goto, Key!Return,
         Key!LetIn, Key!Arrive, Key!HasKey, Key!CheckToken, Key!ReadKey, Key!CheckOf,
         Key!Cached, Key!LookUp, Key!Lookup, Key!Derive, Key!Leave, Key!Propose, Key!Publish,
         Key!PublishFails, Key!ClearCache, Key!FinishInitialization, Key!Tick, Key!Restart,
         Key!Check, Key!Update, Key!Next, P!Key!Values, P!Key!Shown, P!Key!NoRequest,
         P!Key!Checking, P!Key!At, P!Key!Goto, P!Key!Return, P!Key!LetIn, P!Key!Arrive,
         P!Key!HasKey, P!Key!CheckToken, P!Key!ReadKey, P!Key!CheckOf, P!Key!Cached,
         P!Key!LookUp, P!Key!Lookup, P!Key!Derive, P!Key!Leave, P!Key!Propose, P!Key!Publish,
         P!Key!PublishFails, P!Key!ClearCache, P!Key!FinishInitialization, P!Key!Tick,
         P!Key!Restart, P!Key!Check, P!Key!Update, P!Key!Next
<1> QED
  BY <1>1, <1>2, <1>3

LEMMA LimitSame ==
  (Limit!Init <=> P!Limit!Init) /\ (Limit!Next <=> P!Limit!Next) /\ Limit!vars = P!Limit!vars
<1>1. Limit!Init <=> P!Limit!Init
  BY DEF Limit!Paths, Limit!Steps, Limit!None, Limit!Init, P!Limit!Paths, P!Limit!Steps,
         P!Limit!None, P!Limit!Init
<1>2. Limit!vars = P!Limit!vars
  BY DEF Limit!vars, P!Limit!vars
<1>3. Limit!Next <=> P!Limit!Next
  BY Zenon DEF Limit!Paths, Limit!None, Limit!Smaller, Limit!Known, Limit!Stale, Limit!Due,
         Limit!Old, Limit!Surplus, Limit!Sweep, Limit!AuthAfter, Limit!HistoryAfter, Limit!Move,
         Limit!EnterRequest, Limit!Leave, Limit!Authorized, Limit!Forget, Limit!AuthRetryAfter,
         Limit!Succeed, Limit!Reject, Limit!Failed, Limit!Over, Limit!RecordAuthFailure,
         Limit!CleanupAuth, Limit!Tick, Limit!Next, Limit!Cardinality, P!Limit!Paths,
         P!Limit!None, P!Limit!Smaller, P!Limit!Known, P!Limit!Stale, P!Limit!Due, P!Limit!Old,
         P!Limit!Surplus, P!Limit!Sweep, P!Limit!AuthAfter, P!Limit!HistoryAfter, P!Limit!Move,
         P!Limit!EnterRequest, P!Limit!Leave, P!Limit!Authorized, P!Limit!Forget,
         P!Limit!AuthRetryAfter, P!Limit!Succeed, P!Limit!Reject, P!Limit!Failed, P!Limit!Over,
         P!Limit!RecordAuthFailure, P!Limit!CleanupAuth, P!Limit!Tick, P!Limit!Next,
         P!Limit!Cardinality
<1> QED
  BY <1>1, <1>2, <1>3

LEMMA TicketSame ==
  (Ticket!Init <=> P!Ticket!Init) /\ (Ticket!Next <=> P!Ticket!Next) /\
    Ticket!vars = P!Ticket!vars
<1>1. Ticket!Init <=> P!Ticket!Init
  BY DEF Ticket!AnyTicket, Ticket!NoRequest, Ticket!Init, P!Ticket!AnyTicket,
         P!Ticket!NoRequest, P!Ticket!Init
<1>2. Ticket!vars = P!Ticket!vars
  BY DEF Ticket!vars, P!Ticket!vars
<1>3. Ticket!Next <=> P!Ticket!Next
  BY Zenon DEF Ticket!AnyTicket, Ticket!NoRequest, Ticket!At, Ticket!Goto, Ticket!Return,
         Ticket!Fail, Ticket!Create, Ticket!Present, Ticket!Lookup, Ticket!Expired,
         Ticket!Swept, Ticket!Mark, Ticket!Serve, Ticket!Open, Ticket!OpenFails,
         Ticket!IncrementDownload, Ticket!IncrementFails, Ticket!Tick, Ticket!Restart,
         Ticket!Next, Ticket!Cardinality, P!Ticket!AnyTicket, P!Ticket!NoRequest, P!Ticket!At,
         P!Ticket!Goto, P!Ticket!Return, P!Ticket!Fail, P!Ticket!Create, P!Ticket!Present,
         P!Ticket!Lookup, P!Ticket!Expired, P!Ticket!Swept, P!Ticket!Mark, P!Ticket!Serve,
         P!Ticket!Open, P!Ticket!OpenFails, P!Ticket!IncrementDownload, P!Ticket!IncrementFails,
         P!Ticket!Tick, P!Ticket!Restart, P!Ticket!Next, P!Ticket!Cardinality
<1> QED
  BY <1>1, <1>2, <1>3

LEMMA StreamSame ==
  (Stream!Init <=> P!Stream!Init) /\ (Stream!Next <=> P!Stream!Next) /\
    Stream!vars = P!Stream!vars
<1>1. Stream!Init <=> P!Stream!Init
  BY DEF Stream!Piece, Stream!Header, Stream!Init, P!Stream!Piece, P!Stream!Header,
         P!Stream!Init
<1>2. Stream!vars = P!Stream!vars
  BY DEF Stream!writing, Stream!reading, Stream!vars, P!Stream!writing, P!Stream!reading,
         P!Stream!vars
<1>3. Stream!Damaged = P!Stream!Damaged
  <2>1. Stream!Torn = P!Stream!Torn /\ Stream!Other = P!Stream!Other
    BY DEF Stream!Piece, Stream!Header, Stream!Data, Stream!End, Stream!Torn, Stream!Other,
           P!Stream!Piece, P!Stream!Header, P!Stream!Data, P!Stream!End, P!Stream!Torn,
           P!Stream!Other
  <2>2. /\ \A s, i, e : Stream!InsertAt(s, i, e) = P!Stream!InsertAt(s, i, e)
        /\ \A s, i : Stream!RemoveAt(s, i) = P!Stream!RemoveAt(s, i)
    BY DEF Stream!InsertAt, Stream!RemoveAt, P!Stream!InsertAt, P!Stream!RemoveAt
  <2> QED
    BY <2>1, <2>2 DEF Stream!Damaged, P!Stream!Damaged
<1> HIDE DEF Stream!Damaged, P!Stream!Damaged
<1>4. Stream!Next <=> P!Stream!Next
  BY <1>3, Zenon DEF Stream!writing, Stream!reading, Stream!Piece, Stream!Header, Stream!Data,
         Stream!End, Stream!Torn, Stream!Seal, Stream!Write, Stream!WriteFails, Stream!Close,
         Stream!Other, Stream!Damage, Stream!Return, Stream!ReadHeader, Stream!Coming,
         Stream!There, Stream!Sealed, Stream!Opens, Stream!Ends, Stream!ReadRecord,
         Stream!ReadFails, Stream!ReadEnd, Stream!Reject, Stream!Next, P!Stream!writing,
         P!Stream!reading, P!Stream!Piece, P!Stream!Header, P!Stream!Data, P!Stream!End,
         P!Stream!Torn, P!Stream!Seal, P!Stream!Write, P!Stream!WriteFails, P!Stream!Close,
         P!Stream!Other, P!Stream!Damage, P!Stream!Return, P!Stream!ReadHeader, P!Stream!Coming,
         P!Stream!There, P!Stream!Sealed, P!Stream!Opens, P!Stream!Ends, P!Stream!ReadRecord,
         P!Stream!ReadFails, P!Stream!ReadEnd, P!Stream!Reject, P!Stream!Next
<1> QED
  BY <1>1, <1>2, <1>4

LEMMA RowSame ==
  (Row!Init <=> P!Row!Init) /\ (Row!Next <=> P!Row!Next) /\ Row!vars = P!Row!vars
<1>1. Row!Init <=> P!Row!Init
  BY DEF Row!Digits, Row!PerSecond, Row!Never, Row!Init, P!Row!Digits, P!Row!PerSecond,
         P!Row!Never, P!Row!Init
<1>2. Row!vars = P!Row!vars
  BY DEF Row!rows, Row!links, Row!vars, P!Row!rows, P!Row!links, P!Row!vars
<1>3. Row!Next <=> P!Row!Next
  BY Zenon DEF Row!Digits, Row!PerSecond, Row!Instants, Row!Never, Row!rows, Row!links,
         Row!Second, Row!Fraction, Row!Seconds, Row!DigitsBefore, Row!TextBefore,
         Row!TextNotAfter, Row!TextOlder, Row!Reached, Row!Older, Row!Other, Row!Create,
         Row!Touch, Row!Delete, Row!RestoreTrash, Row!Revoked, Row!PurgeTrash, Row!CreateShare,
         Row!LinkDies, Row!Overdue, Row!Due, Row!Doomed, Row!StaleLink, Row!Probe,
         Row!ProbeExpired, Row!ProbeTrash, Row!Sweep, Row!CleanupExpired, Row!SQLiteLinks,
         Row!JSONLinks, Row!PurgeExpiredTrash, Row!Tick, Row!Next, P!Row!Digits,
         P!Row!PerSecond, P!Row!Instants, P!Row!Never, P!Row!rows, P!Row!links, P!Row!Second,
         P!Row!Fraction, P!Row!Seconds, P!Row!DigitsBefore, P!Row!TextBefore,
         P!Row!TextNotAfter, P!Row!TextOlder, P!Row!Reached, P!Row!Older, P!Row!Other,
         P!Row!Create, P!Row!Touch, P!Row!Delete, P!Row!RestoreTrash, P!Row!Revoked,
         P!Row!PurgeTrash, P!Row!CreateShare, P!Row!LinkDies, P!Row!Overdue, P!Row!Due,
         P!Row!Doomed, P!Row!StaleLink, P!Row!Probe, P!Row!ProbeExpired, P!Row!ProbeTrash,
         P!Row!Sweep, P!Row!CleanupExpired, P!Row!SQLiteLinks, P!Row!JSONLinks,
         P!Row!PurgeExpiredTrash, P!Row!Tick, P!Row!Next
<1> QED
  BY <1>1, <1>2, <1>3

LEMMA PeerSame ==
  (Peer!Init <=> P!Peer!Init) /\ (Peer!Next <=> P!Peer!Next) /\ Peer!vars = P!Peer!vars
<1>1. Peer!Init <=> P!Peer!Init
  BY DEF Peer!None, Peer!Greatest, Peer!Late, Peer!Forgotten, Peer!Init, P!Peer!None,
         P!Peer!Greatest, P!Peer!Late, P!Peer!Forgotten, P!Peer!Init
<1>2. Peer!vars = P!Peer!vars
  BY DEF Peer!vars, P!Peer!vars
<1>3. Peer!Next <=> P!Peer!Next
  BY Zenon DEF Peer!None, Peer!Greatest, Peer!Late, Peer!Forgotten, Peer!Arrive, Peer!Depart,
         Peer!Announce, Peer!Valid, Peer!Receive, Peer!Evict, Peer!Older, Peer!Tick, Peer!Next,
         P!Peer!None, P!Peer!Greatest, P!Peer!Late, P!Peer!Forgotten, P!Peer!Arrive,
         P!Peer!Depart, P!Peer!Announce, P!Peer!Valid, P!Peer!Receive, P!Peer!Evict,
         P!Peer!Older, P!Peer!Tick, P!Peer!Next
<1> QED
  BY <1>1, <1>2, <1>3

LEMMA RaceSame ==
  (Race!Init <=> B!Init) /\ (Race!Next <=> B!Next) /\ Race!vars = B!vars
<1>1. Race!Init <=> B!Init
  BY DEF Race!FaultKinds, Race!Actors, Race!Referenced, Race!ReferencedData, Race!Init,
         B!FaultKinds, B!Actors, B!Referenced, B!ReferencedData, B!Init
<1>2. Race!vars = B!vars
  BY DEF Race!vars, B!vars
<1>3. Race!Next <=> B!Next
  BY Zenon DEF Race!FaultKinds, Race!Actors, Race!disk, Race!UploadSteps, Race!Referenced,
         Race!Idle, Race!CanStart, Race!Goto, Race!At, Race!StoreFree, Race!ReferencedByOthers,
         Race!ReferenceAnswers, Race!UploadStart, Race!UploadStat, Race!UploadHash,
         Race!UploadLink, Race!UploadRestat, Race!UploadCreate, Race!UploadCreateFails,
         Race!UploadUndo, Race!MoveToTrash, Race!DeleteFiles, Race!RestoreStat,
         Race!RestoreCommit, Race!RestoreFails, Race!PurgeStart, Race!PurgeCheck,
         Race!PurgeStage, Race!PurgeStageFails, Race!PurgeCommit, Race!PurgeFails,
         Race!PurgeUnstage, Race!PurgeUnstageFails, Race!PurgeUnlink, Race!PurgeRows,
         Race!Trashed, Race!EmptyTrash, Race!CleanupExpired, Race!CleanupSkips,
         Race!PurgeExpiredTrash, Race!SweepKeeps, Race!SweepClaims, Race!SweepRemove,
         Race!SweepDone, Race!Crash, Race!UploadStep, Race!PurgeStep, Race!SweepStep,
         Race!Progress, Race!Next, B!FaultKinds, B!Actors, B!disk, B!UploadSteps, B!Referenced,
         B!Idle, B!CanStart, B!Goto, B!At, B!StoreFree, B!ReferencedByOthers,
         B!ReferenceAnswers, B!UploadStart, B!UploadStat, B!UploadHash, B!UploadLink,
         B!UploadRestat, B!UploadCreate, B!UploadCreateFails, B!UploadUndo, B!MoveToTrash,
         B!DeleteFiles, B!RestoreStat, B!RestoreCommit, B!RestoreFails, B!PurgeStart,
         B!PurgeCheck, B!PurgeStage, B!PurgeStageFails, B!PurgeCommit, B!PurgeFails,
         B!PurgeUnstage, B!PurgeUnstageFails, B!PurgeUnlink, B!PurgeRows, B!Trashed,
         B!EmptyTrash, B!CleanupExpired, B!CleanupSkips, B!PurgeExpiredTrash, B!SweepKeeps,
         B!SweepClaims, B!SweepRemove, B!SweepDone, B!Crash, B!UploadStep, B!PurgeStep,
         B!SweepStep, B!Progress, B!Next
<1> QED
  BY <1>1, <1>2, <1>3

\* A step of the server is a step of the part whose turn it is, which does not
\* change; the others wait.
LEMMA Turns ==
  ASSUME [PartsNext]_all
  PROVE  /\ UNCHANGED part
         /\ part = "open" => [Next]_vars
         /\ part # "open" => UNCHANGED vars
         /\ part = "key" => [Key!Next]_(Key!vars)
         /\ part = "limit" => [Limit!Next]_(Limit!vars)
         /\ part = "ticket" => [Ticket!Next]_(Ticket!vars)
         /\ part = "stream" => [Stream!Next]_(Stream!vars)
         /\ part = "row" => [Row!Next]_(Row!vars)
         /\ part = "peer" => [Peer!Next]_(Peer!vars)
         /\ part = "race" => [Race!Next]_(Race!vars)
<1>1. OpenNext => part = "open" /\ UNCHANGED part /\ Next
  BY DEF OpenNext, OpenOnly, Next
<1>2. KeyNext => part = "key" /\ UNCHANGED part /\ UNCHANGED vars /\ Key!Next
  BY DEF KeyNext, KeyOnly, Key!Next, Key!Check, Key!Update
<1>3. LimitNext => part = "limit" /\ UNCHANGED part /\ UNCHANGED vars /\ Limit!Next
  BY DEF LimitNext, LimitOnly, Limit!Next
<1>4. TicketNext => part = "ticket" /\ UNCHANGED part /\ UNCHANGED vars /\ Ticket!Next
  BY DEF TicketNext, TicketOnly, Ticket!Next
<1>5. StreamNext => part = "stream" /\ UNCHANGED part /\ UNCHANGED vars /\ Stream!Next
  BY DEF StreamNext, StreamOnly, Stream!Next
<1>6. RowNext => part = "row" /\ UNCHANGED part /\ UNCHANGED vars /\ Row!Next
  BY DEF RowNext, RowOnly, Row!Next
<1>7. PeerNext => part = "peer" /\ UNCHANGED part /\ UNCHANGED vars /\ Peer!Next
  BY DEF PeerNext, PeerOnly, Peer!Next
<1>8. RaceNext => part = "race" /\ UNCHANGED part /\ UNCHANGED vars /\ Race!Next
  BY DEF RaceNext, RaceOnly
<1>9. UNCHANGED all => /\ UNCHANGED part /\ UNCHANGED vars
                       /\ UNCHANGED Key!vars
                       /\ UNCHANGED Limit!vars
                       /\ UNCHANGED Ticket!vars
                       /\ UNCHANGED Stream!vars
                       /\ UNCHANGED Row!vars
                       /\ UNCHANGED Peer!vars
                       /\ UNCHANGED Race!vars
  BY DEF all, slots, Key!vars, Limit!vars, Ticket!vars, Stream!writing, Stream!reading,
         Stream!vars, Row!rows, Row!links, Row!vars, Peer!vars, Race!vars
<1> QED
  BY <1>1, <1>2, <1>3, <1>4, <1>5, <1>6, <1>7, <1>8, <1>9 DEF PartsNext

\* The server behaves like StorageOpen whatever its part.
THEOREM ServerOpens == PartsSpec => Spec
<1>1. PartsInit => Init
  BY DEF PartsInit
<1>2. [PartsNext]_all => [Next]_vars
  BY Turns
<1> QED
  BY <1>1, <1>2, PTL DEF PartsSpec, Spec

\* A server that begins with a part behaves like that part, and another never
\* comes to its turn.
LEMMA KeyBehaves == PartsSpec => []~(part = "key") \/ P!Key!Spec
<1>1. PartsInit /\ part = "key" => P!Key!Init
  BY KeySame DEF PartsInit
<1>2. [PartsNext]_all /\ part = "key" => [P!Key!Next]_(P!Key!vars)
  BY Turns, KeySame DEF Key!vars, P!Key!vars
<1>3. [PartsNext]_all => ((part = "key") <=> (part = "key")')
  BY Turns
<1> QED
  BY <1>1, <1>2, <1>3, PTL DEF PartsSpec, P!Key!Spec

LEMMA LimitBehaves == PartsSpec => []~(part = "limit") \/ P!Limit!Spec
<1>1. PartsInit /\ part = "limit" => P!Limit!Init
  BY LimitSame DEF PartsInit
<1>2. [PartsNext]_all /\ part = "limit" => [P!Limit!Next]_(P!Limit!vars)
  BY Turns, LimitSame DEF Limit!vars, P!Limit!vars
<1>3. [PartsNext]_all => ((part = "limit") <=> (part = "limit")')
  BY Turns
<1> QED
  BY <1>1, <1>2, <1>3, PTL DEF PartsSpec, P!Limit!Spec

LEMMA TicketBehaves == PartsSpec => []~(part = "ticket") \/ P!Ticket!Spec
<1>1. PartsInit /\ part = "ticket" => P!Ticket!Init
  BY TicketSame DEF PartsInit
<1>2. [PartsNext]_all /\ part = "ticket" => [P!Ticket!Next]_(P!Ticket!vars)
  BY Turns, TicketSame DEF Ticket!vars, P!Ticket!vars
<1>3. [PartsNext]_all => ((part = "ticket") <=> (part = "ticket")')
  BY Turns
<1> QED
  BY <1>1, <1>2, <1>3, PTL DEF PartsSpec, P!Ticket!Spec

LEMMA StreamBehaves == PartsSpec => []~(part = "stream") \/ P!Stream!Spec
<1>1. PartsInit /\ part = "stream" => P!Stream!Init
  BY StreamSame DEF PartsInit
<1>2. [PartsNext]_all /\ part = "stream" => [P!Stream!Next]_(P!Stream!vars)
  BY Turns, StreamSame DEF Stream!writing, Stream!reading, Stream!vars, P!Stream!writing,
         P!Stream!reading, P!Stream!vars
<1>3. [PartsNext]_all => ((part = "stream") <=> (part = "stream")')
  BY Turns
<1> QED
  BY <1>1, <1>2, <1>3, PTL DEF PartsSpec, P!Stream!Spec

LEMMA RowBehaves == PartsSpec => []~(part = "row") \/ P!Row!Spec
<1>1. PartsInit /\ part = "row" => P!Row!Init
  BY RowSame DEF PartsInit
<1>2. [PartsNext]_all /\ part = "row" => [P!Row!Next]_(P!Row!vars)
  BY Turns, RowSame DEF Row!rows, Row!links, Row!vars, P!Row!rows, P!Row!links, P!Row!vars
<1>3. [PartsNext]_all => ((part = "row") <=> (part = "row")')
  BY Turns
<1> QED
  BY <1>1, <1>2, <1>3, PTL DEF PartsSpec, P!Row!Spec

LEMMA PeerBehaves == PartsSpec => []~(part = "peer") \/ P!Peer!Spec
<1>1. PartsInit /\ part = "peer" => P!Peer!Init
  BY PeerSame DEF PartsInit
<1>2. [PartsNext]_all /\ part = "peer" => [P!Peer!Next]_(P!Peer!vars)
  BY Turns, PeerSame DEF Peer!vars, P!Peer!vars
<1>3. [PartsNext]_all => ((part = "peer") <=> (part = "peer")')
  BY Turns
<1> QED
  BY <1>1, <1>2, <1>3, PTL DEF PartsSpec, P!Peer!Spec

LEMMA RaceBehaves == PartsSpec => []~(part = "race") \/ B!Spec
<1>1. PartsInit /\ part = "race" => B!Init
  BY RaceSame DEF PartsInit
<1>2. [PartsNext]_all /\ part = "race" => [B!Next]_(B!vars)
  BY Turns, RaceSame DEF Race!vars, B!vars
<1>3. [PartsNext]_all => ((part = "race") <=> (part = "race")')
  BY Turns
<1> QED
  BY <1>1, <1>2, <1>3, PTL DEF PartsSpec, B!Spec

-----------------------------------------------------------------------------
(* What the parts promise.                                                   *)

\* Every request let in has a reason that held during its check (authorized).
THEOREM LetInForReason == PartsSpec => []AdmittedForReason
<1>1. P!Distinct
  BY ServerAssumption DEF P!Distinct, P!Key!Values
<1>2. P!Key!Spec => []P!Key!AdmittedForReason
  BY <1>1, P!AdmissionHasReason
<1>3. ~(part = "key") \/ P!Key!AdmittedForReason => AdmittedForReason
  BY DEF AdmittedForReason, Key!AdmittedForReason, P!Key!AdmittedForReason
<1> QED
  BY <1>2, <1>3, KeyBehaves, PTL

\* A replaced key leaves authCache in time (VerifyAccessKey, Update).
THEOREM ReplacedKeysLeave == PartsSpec => []StaleKeyBounded
<1>1. P!Distinct
  BY ServerAssumption DEF P!Distinct, P!Key!Values
<1>2. P!Key!Spec => []P!Key!StaleKeyBounded
  BY <1>1, P!StaleKeysLeave
<1>3. ~(part = "key") \/ P!Key!StaleKeyBounded => StaleKeyBounded
  BY DEF StaleKeyBounded, Key!StaleKeyBounded, P!Key!StaleKeyBounded
<1> QED
  BY <1>2, <1>3, KeyBehaves, PTL

\* verifyAuth refuses a source a bounded number of keys (recordAuthFailure).
THEOREM VerifyLimited == PartsSpec => []VerifyBounded
<1>1. P!Limits
  BY DEF P!Limits
<1>2. P!Limit!Spec => []P!Limit!VerifyBounded
  BY <1>1, P!VerifyIsBounded
<1>3. ~(part = "limit") \/ P!Limit!VerifyBounded => VerifyBounded
  BY DEF VerifyBounded, Limit!VerifyBounded, P!Limit!VerifyBounded
<1> QED
  BY <1>2, <1>3, LimitBehaves, PTL

\* The range requests of a ticket are one download (markTicketCounted).
THEOREM TicketsCountOnce == PartsSpec => []CountedOnce
<1>1. P!Sensible
  BY ServerAssumption DEF P!Sensible
<1>2. P!Ticket!Spec => []P!Ticket!CountedOnce
  BY <1>1, P!OneDownload
<1>3. ~(part = "ticket") \/ P!Ticket!CountedOnce => CountedOnce
  BY DEF CountedOnce, Ticket!CountedOnce, P!Ticket!CountedOnce
<1> QED
  BY <1>2, <1>3, TicketBehaves, PTL

\* A ticket that delivered its file has been counted (serveFile).
THEOREM ServedAreCounted == PartsSpec => []ServedIsCounted
<1>1. P!Sensible
  BY ServerAssumption DEF P!Sensible
<1>2. P!Ticket!Spec => []P!Ticket!ServedIsCounted
  BY <1>1, P!DownloadCounted
<1>3. ~(part = "ticket") \/ P!Ticket!ServedIsCounted => ServedIsCounted
  BY DEF ServedIsCounted, Ticket!ServedIsCounted, P!Ticket!ServedIsCounted
<1> QED
  BY <1>2, <1>3, TicketBehaves, PTL

\* A damaged backup is refused or read in full (DecryptBackup).
THEOREM BackupsWholeOrRefused == PartsSpec => []WholeOrError
<1>1. P!Sizes
  BY DEF P!Sizes
<1>2. P!Stream!Spec => []P!Stream!WholeOrError
  BY <1>1, P!ReadInFullOrRefused
<1>3. ~(part = "stream") \/ P!Stream!WholeOrError => WholeOrError
  BY DEF WholeOrError, Stream!WholeOrError, Stream!Written, Stream!Foreign, Stream!IsPrefix,
         P!Stream!WholeOrError, P!Stream!Written, P!Stream!Foreign, P!Stream!IsPrefix
<1> QED
  BY <1>2, <1>3, StreamBehaves, PTL

\* A node that has left disappears from the table (evict).
THEOREM DepartedAreForgotten == PartsSpec => []DepartedForgotten
<1>1. P!Clocks
  <2> DEFINE S == {0} \union {OneAhead[n] : n \in Nodes}
  <2>1. S = {0} \/ S = {0, 1}
    BY DEF OneAhead
  <2>2. \E m \in S : \A k \in S : k <= m
    BY <2>1
  <2>3. OneAhead \in [Nodes -> Int]
    BY DEF OneAhead
  <2> QED
    BY <2>2, <2>3 DEF P!Clocks
<1>2. P!Peer!Spec => []P!Peer!DepartedForgotten
  BY <1>1, P!TheDepartedAreForgotten
<1>3. ~(part = "peer") \/ P!Peer!DepartedForgotten => DepartedForgotten
  BY DEF DepartedForgotten, Peer!DepartedForgotten, Peer!Forgotten, Peer!Late, Peer!Greatest,
         Peer!None, P!Peer!DepartedForgotten, P!Peer!Forgotten, P!Peer!Late, P!Peer!Greatest,
         P!Peer!None
<1> QED
  BY <1>2, <1>3, PeerBehaves, PTL

\* Racing deletes, restores, purges and sweeps of files that share their entity
\* destroy no bytes that are referenced (purgeTrash, emptyTrash, RestoreTrash).
THEOREM RacersKeepEntity == PartsSpec => []RacingKept
<1>1. B!BlobAssumption
  BY ServerAssumption DEF B!BlobAssumption, B!Actors, B!FaultKinds, TrashFaults
<1>2. B!TrashOnly
  BY DEF B!TrashOnly, TrashFaults
<1>3. B!Spec => []B!EntityKept
  BY <1>1, <1>2, B!TrashSafe
<1>4. ~(part = "race") \/ B!EntityKept => RacingKept
  BY DEF RacingKept, Race!EntityKept, Race!Referenced, B!EntityKept, B!Referenced
<1> QED
  BY <1>3, <1>4, RaceBehaves, PTL

\* The sweeps move and remove what is due, to the second (CleanupExpired).
THEOREM SweepsToTheSecond == PartsSpec => SweepsExact
<1>1. P!Periods
  BY DEF P!Periods
<1>2. P!Row!Spec => [][P!Row!SweepExact]_(P!Row!vars)
  BY <1>1, P!SweepsAreOnTime DEF P!Row!SweepsExact
<1>3. P!Row!SweepExact => Row!SweepExact
  BY Zenon DEF Row!Digits, Row!PerSecond, Row!Never, Row!Seconds, Row!Near, Row!Past,
         Row!NearlyDue, Row!LongDue, Row!SweepExact, P!Row!Digits, P!Row!PerSecond, P!Row!Never,
         P!Row!Seconds, P!Row!Near, P!Row!Past, P!Row!NearlyDue, P!Row!LongDue, P!Row!SweepExact
<1>4. [PartsNext]_all /\ ~(part = "row") => [part = "row" => Row!SweepExact]_all
  OBVIOUS
<1>5. [PartsNext]_all /\ [P!Row!SweepExact]_(P!Row!vars) => [part = "row" => Row!SweepExact]_all
  <2> SUFFICES ASSUME PartsNext, part = "row", UNCHANGED P!Row!vars PROVE UNCHANGED all
    BY <1>3
  <2>1. RowOnly
    BY DEF PartsNext, OpenNext, OpenOnly, KeyNext, KeyOnly, LimitNext, LimitOnly, TicketNext,
           TicketOnly, StreamNext, StreamOnly, RowNext, RowOnly, PeerNext,
           PeerOnly, RaceNext, RaceOnly
  <2> QED
    BY <2>1 DEF all, slots, RowOnly, P!Row!rows, P!Row!links, P!Row!vars
<1> QED
  BY <1>2, <1>4, <1>5, RowBehaves, PTL DEF PartsSpec, SweepsExact

=============================================================================
