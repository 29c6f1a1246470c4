------------------------------ MODULE MCServer ------------------------------
(* The parts of the server that share no state, one per behaviour: `part`   *)
(* says which.  They take turns in the variables s1, s2, ..., so that a     *)
(* state is as small as the part it belongs to; what a part does not need   *)
(* stays 0.  StorageOpen has its own variables.  The sizes of every part    *)
(* are in its INSTANCE.                                                     *)
EXTENDS StorageOpen, TLC

CONSTANTS Keys, NoKey, Token, Bare, Requests, Ips, Tickets, Objects, Nodes, Twins, Bytes,
          Cleaner, NoActor

AllFaults == FaultKinds
TrashFaults == {"store_write", "rename", "unlink", "crash"}
OneAhead  == [n \in Nodes |-> 1]
Both      == {"sqlite", "json"}
Symmetric == UNION {Permutations(S) : S \in {Keys, Requests}}

\* The credentials are all different, and so are the actors; something can be
\* downloaded and something is stored.
ASSUME ServerAssumption ==
  /\ NoKey \notin Keys /\ Token \notin Keys \union {NoKey} /\ Bare \notin Keys \union {NoKey, Token}
  /\ Tickets # {} /\ Twins # {}
  /\ Cleaner \notin Requests /\ NoActor \notin Requests \union {Cleaner}

VARIABLES part, s1, s2, s3, s4, s5, s6, s7, s8, s9, s10, s11
slots == <<s1, s2, s3, s4, s5, s6, s7, s8, s9, s10, s11>>

Key == INSTANCE AccessKey WITH
  Keys <- Keys, NoKey <- NoKey, Token <- Token, Bare <- Bare, Workers <- Requests, TTL <- 2,
  current <- s1, token <- s2, mu <- s3, cache <- s4, pc <- s5, req <- s6, late <- s7,
  since <- s8

Limit == INSTANCE AuthLimiter WITH
  Ips <- Ips, PerIP <- 2, Global <- 3, Free <- 2, MaxSteps <- 2, Window <- 5,
  MaxEntries <- 1, Period <- 2, doing <- s1, requestIP <- s2, requestTotal <- s3,
  auth <- s4, sweepIn <- s5, guesses <- s6, began <- s7, rests <- s8

Ticket == INSTANCE MediaTickets WITH
  Tickets <- Tickets, Workers <- Requests, TTL <- 2, Period <- 1, MaxEntries <- 1,
  MaxTime <- 4, now <- s1, expires <- s2, counted <- s3, countedSweep <- s4, pc <- s5,
  req <- s6, downloads <- s7, served <- s8, missed <- s9, late <- s10

Stream == INSTANCE BackupStream WITH
  ChunkSize <- 2, MaxUnits <- 5, MaxDamage <- 2, format <- s1, accepted <- s2, buf <- s3,
  index <- s4, writer <- s5, file <- s6, damage <- s7, pos <- s8, next <- s9, out <- s10,
  result <- s11

Row == INSTANCE Retention WITH
  Objects <- Objects, Period <- 1, TrashPeriod <- 1, LinkPeriod <- 1, MaxSecond <- 2,
  Engines <- Both, now <- s1, state <- s2, expires <- s3, touched <- s4, pinned <- s5,
  deleted <- s6, link <- s7, made <- s8, engine <- s9, probed <- s10, sweep <- s11

Peer == INSTANCE Peers WITH
  Nodes <- Nodes, Ahead <- OneAhead, Window <- 2, Life <- 3, Period <- 2, up <- s1,
  absent <- s2, net <- s3, peers <- s4, evictIn <- s5

\* Two files of the same bytes, of which none is uploaded any more.
Race == INSTANCE BlobStore WITH
  Files <- Twins, Digests <- {Bytes}, Content <- [f \in Twins |-> Bytes], Workers <- Requests,
  InitStatus <- {"live", "trash"}, Serial <- FALSE, Faults <- TrashFaults, row <- s1,
  blobs <- s2, purging <- s3, writer <- s4, pc <- s5, job <- s6, todo <- s7, seen <- s8,
  stranded <- s9

-----------------------------------------------------------------------------
From9 == s9 = 0 /\ s10 = 0 /\ s11 = 0
From6 == s6 = 0 /\ s7 = 0 /\ s8 = 0 /\ From9
From1 == s1 = 0 /\ s2 = 0 /\ s3 = 0 /\ s4 = 0 /\ s5 = 0 /\ From6

PartsInit ==
  /\ Init
  /\ \/ part = "open" /\ From1
     \/ part = "key" /\ Key!Init /\ From9
     \/ part = "limit" /\ Limit!Init /\ From9
     \/ part = "ticket" /\ Ticket!Init /\ s11 = 0
     \/ part = "stream" /\ Stream!Init
     \/ part = "row" /\ Row!Init
     \/ part = "peer" /\ Peer!Init /\ From6
     \/ part = "race" /\ Race!Init /\ s10 = 0 /\ s11 = 0

\* Only the part that the behaviour is about takes a step.
OpenOnly == part = "open" /\ UNCHANGED <<part, slots>>
KeyOnly == part = "key" /\ UNCHANGED <<part, vars, s9, s10, s11>>
LimitOnly == part = "limit" /\ UNCHANGED <<part, vars, s9, s10, s11>>
TicketOnly == part = "ticket" /\ UNCHANGED <<part, vars, s11>>
StreamOnly == part = "stream" /\ UNCHANGED <<part, vars>>
RowOnly == part = "row" /\ UNCHANGED <<part, vars>>
PeerOnly == part = "peer" /\ UNCHANGED <<part, vars, s6, s7, s8, s9, s10, s11>>
RaceOnly == part = "race" /\ UNCHANGED <<part, vars, s10, s11>>

OpenNext ==
  \/ \E why \in {"serve", "migrate"} : OpenOnly /\ StartSQLite(why)
  \/ OpenOnly /\ OpenDatabase
  \/ OpenOnly /\ OpenFails
  \/ OpenOnly /\ Import
  \/ OpenOnly /\ ImportFails
  \/ OpenOnly /\ CleanDirtyDBArtifacts
  \/ OpenOnly /\ CleanFails
  \/ OpenOnly /\ StartJSON
  \/ OpenOnly /\ Fallback
  \/ OpenOnly /\ Refuse
  \/ \E i \in Writes : OpenOnly /\ Write(i)
  \/ \E i \in Writes : OpenOnly /\ KillWriting(i)
  \/ OpenOnly /\ ShutDown
  \/ OpenOnly /\ Kill

KeyNext ==
  \/ \E w \in Requests, c \in Key!Shown : KeyOnly /\ Key!Arrive(w, c)
  \/ \E w \in Requests : KeyOnly /\ Key!HasKey(w)
  \/ \E w \in Requests : KeyOnly /\ Key!CheckToken(w)
  \/ \E w \in Requests : KeyOnly /\ Key!ReadKey(w)
  \/ \E w \in Requests : KeyOnly /\ Key!Lookup(w)
  \/ \E w \in Requests : KeyOnly /\ Key!Derive(w)
  \/ \E w \in Requests : KeyOnly /\ Key!Leave(w)
  \/ \E w \in Requests, k \in Key!Values \union {Token} : KeyOnly /\ Key!Propose(w, k)
  \/ \E w \in Requests : KeyOnly /\ Key!Publish(w)
  \/ \E w \in Requests : KeyOnly /\ Key!PublishFails(w)
  \/ \E w \in Requests : KeyOnly /\ Key!ClearCache(w)
  \/ \E w \in Requests : KeyOnly /\ Key!FinishInitialization(w)
  \/ KeyOnly /\ Key!Tick
  \/ KeyOnly /\ Key!Restart

LimitNext ==
  \/ \E i \in Ips, path \in Limit!Paths : LimitOnly /\ Limit!EnterRequest(i, path)
  \/ \E i \in Ips : LimitOnly /\ Limit!Authorized(i)
  \/ \E i \in Ips : LimitOnly /\ Limit!AuthRetryAfter(i)
  \/ \E i \in Ips : LimitOnly /\ Limit!Succeed(i)
  \/ \E i \in Ips : LimitOnly /\ Limit!Reject(i)
  \/ \E i \in Ips : LimitOnly /\ Limit!RecordAuthFailure(i)
  \/ LimitOnly /\ Limit!CleanupAuth
  \/ LimitOnly /\ Limit!Tick

TicketNext ==
  \/ \E t \in Tickets : TicketOnly /\ Ticket!Create(t)
  \/ \E w \in Requests, t \in Tickets, get \in BOOLEAN : TicketOnly /\ Ticket!Present(w, t, get)
  \/ \E w \in Requests : TicketOnly /\ Ticket!Lookup(w)
  \/ \E w \in Requests : TicketOnly /\ Ticket!Mark(w)
  \/ \E w \in Requests : TicketOnly /\ Ticket!Open(w)
  \/ \E w \in Requests : TicketOnly /\ Ticket!OpenFails(w)
  \/ \E w \in Requests : TicketOnly /\ Ticket!IncrementDownload(w)
  \/ \E w \in Requests : TicketOnly /\ Ticket!IncrementFails(w)
  \/ TicketOnly /\ Ticket!Tick
  \/ TicketOnly /\ Ticket!Restart

StreamNext ==
  \/ StreamOnly /\ Stream!Write
  \/ StreamOnly /\ Stream!WriteFails
  \/ StreamOnly /\ Stream!Close
  \/ StreamOnly /\ Stream!Damage
  \/ StreamOnly /\ Stream!ReadHeader
  \/ StreamOnly /\ Stream!ReadRecord
  \/ StreamOnly /\ Stream!ReadEnd
  \/ StreamOnly /\ Stream!ReadFails
  \/ StreamOnly /\ Stream!Reject

RowNext ==
  \/ \E o \in Objects, e \in Row!Instants \union {Row!Never}, p \in BOOLEAN : RowOnly /\ Row!Create(o, e, p)
  \/ \E o \in Objects : RowOnly /\ Row!Touch(o)
  \/ \E o \in Objects : RowOnly /\ Row!Delete(o)
  \/ \E o \in Objects : RowOnly /\ Row!RestoreTrash(o)
  \/ \E o \in Objects : RowOnly /\ Row!PurgeTrash(o)
  \/ \E o \in Objects : RowOnly /\ Row!CreateShare(o)
  \/ \E o \in Objects : RowOnly /\ Row!LinkDies(o)
  \/ RowOnly /\ Row!ProbeExpired
  \/ RowOnly /\ Row!ProbeTrash
  \/ RowOnly /\ Row!CleanupExpired
  \/ RowOnly /\ Row!PurgeExpiredTrash
  \/ RowOnly /\ Row!Tick

PeerNext ==
  \/ \E n \in Nodes : PeerOnly /\ Peer!Arrive(n)
  \/ \E n \in Nodes : PeerOnly /\ Peer!Depart(n)
  \/ \E n \in Nodes : PeerOnly /\ Peer!Announce(n)
  \/ PeerOnly /\ \E a \in s3 : Peer!Receive(a)
  \/ PeerOnly /\ Peer!Evict
  \/ PeerOnly /\ Peer!Tick

RaceNext == RaceOnly /\ Race!Next

PartsNext ==
  \/ OpenNext \/ KeyNext \/ LimitNext \/ TicketNext \/ StreamNext \/ RowNext \/ PeerNext
  \/ RaceNext

all == <<part, vars, slots>>
PartsSpec == PartsInit /\ [][PartsNext]_all
-----------------------------------------------------------------------------
(* The properties of the parts, stated and explained in their modules.       *)

\* Every request let in has a reason that held during its check (authorized).
AdmittedForReason == part = "key" => Key!AdmittedForReason

\* A replaced key leaves authCache in time (VerifyAccessKey, Update).
StaleKeyBounded == part = "key" => Key!StaleKeyBounded

\* verifyAuth refuses a source a bounded number of keys (recordAuthFailure).
VerifyBounded == part = "limit" => Limit!VerifyBounded

\* The range requests of a ticket are one download (markTicketCounted).
CountedOnce == part = "ticket" => Ticket!CountedOnce

\* A ticket that delivered its file has been counted (serveFile).
ServedIsCounted == part = "ticket" => Ticket!ServedIsCounted

\* A damaged backup is refused or read in full (DecryptBackup).
WholeOrError == part = "stream" => Stream!WholeOrError

\* The sweeps move and remove what is due, to the second (CleanupExpired).
SweepsExact == [][part = "row" => Row!SweepExact]_all

\* A node that has left disappears from the table (evict).
DepartedForgotten == part = "peer" => Peer!DepartedForgotten

\* Racing deletes, restores, purges and sweeps of files that share their entity
\* destroy no bytes that are referenced (purgeTrash, emptyTrash, RestoreTrash).
RacingKept == part = "race" => Race!EntityKept
=============================================================================
