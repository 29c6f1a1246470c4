---------------------------- MODULE MediaTickets ----------------------------
(***************************************************************************)
(* Downloads through media tickets.                                        *)
(*                                                                         *)
(* A player fetches one ticket in many range requests; s.counted makes     *)
(* them one download.  The ticket is checked first and marked later, and   *)
(* it is marked before the file is opened and the download stored, with    *)
(* none of these steps under one lock.                                     *)
(***************************************************************************)
EXTENDS Naturals, FiniteSets

CONSTANTS
  Tickets,     \* nonces
  Workers,     \* requests at the same time
  TTL,         \* life of a ticket, ten minutes
  Period,      \* time between two sweeps, a minute
  MaxEntries,  \* entries that bring the next sweep forward, 256
  MaxTime      \* bound: the clock of the model

VARIABLES
  now,
  expires,       \* of every ticket that was handed out, 0: not yet
  counted,       \* s.counted: tickets that were marked
  countedSweep,  \* s.countedSweep
  pc,            \* what each request does next
  req,           \* its ticket, and the count of serveMediaTicket
  downloads,     \* downloads stored for every ticket
  served,        \* history: tickets a GET got the file for
  missed,        \* history: tickets marked by a request that then failed
  late           \* history: tickets marked after they had expired

vars == <<now, expires, counted, countedSweep, pc, req, downloads, served, missed, late>>

Steps == {"idle", "lookup", "mark", "open", "increment"}
Request == [ticket : Tickets, get : BOOLEAN, count : BOOLEAN]
AnyTicket == CHOOSE t \in Tickets : TRUE
NoRequest == [ticket |-> AnyTicket, get |-> FALSE, count |-> FALSE]

TypeOK ==
  /\ now \in 1..MaxTime
  /\ expires \in [Tickets -> 0..(MaxTime + TTL)]
  /\ counted \subseteq Tickets
  /\ countedSweep \in 0..(MaxTime + Period)
  /\ pc \in [Workers -> Steps]
  /\ req \in [Workers -> Request]
  /\ downloads \in [Tickets -> Nat]
  /\ served \subseteq Tickets /\ missed \subseteq Tickets /\ late \subseteq Tickets

Init ==
  /\ now = 1
  /\ expires = [t \in Tickets |-> 0]
  /\ counted = {}
  /\ countedSweep = 0
  /\ pc = [w \in Workers |-> "idle"]
  /\ req = [w \in Workers |-> NoRequest]
  /\ downloads = [t \in Tickets |-> 0]
  /\ served = {} /\ missed = {} /\ late = {}

At(w, step) == pc[w] = step
Goto(w, step) == pc' = [pc EXCEPT ![w] = step]
Return(w) == Goto(w, "idle") /\ req' = [req EXCEPT ![w] = NoRequest]

\* A request that took the mark of its ticket and ends without a download.
Fail(w) ==
  /\ Return(w)
  /\ missed' = IF req[w].count THEN missed \union {req[w].ticket} ELSE missed

\* createMediaTicket
Create(t) ==
  /\ expires[t] = 0
  /\ expires' = [expires EXCEPT ![t] = now + TTL]
  /\ UNCHANGED <<now, counted, countedSweep, pc, req, downloads, served, missed, late>>

-----------------------------------------------------------------------------
(* serveMediaTicket.                                                       *)

\* A ticket past its time, or of another process, is answered with 410.
Present(w, t, get) ==
  /\ At(w, "idle")
  /\ now < expires[t]
  /\ Goto(w, "lookup")
  /\ req' = [req EXCEPT ![w] = [ticket |-> t, get |-> get, count |-> FALSE]]
  /\ UNCHANGED <<now, expires, counted, countedSweep, downloads, served, missed, late>>

\* GetFile finds the row, or does not.
Lookup(w) ==
  /\ At(w, "lookup")
  /\ \/ Goto(w, IF req[w].get THEN "mark" ELSE "open") /\ UNCHANGED req
     \/ Return(w)
  /\ UNCHANGED <<now, expires, counted, countedSweep, downloads, served, missed, late>>

Expired == {t \in counted : now > expires[t]}

\* Mutant: a sweep empties the map.
SweptAll == IF Cardinality(counted) > MaxEntries \/ now > countedSweep THEN {} ELSE counted

Swept == IF Cardinality(counted) > MaxEntries \/ now > countedSweep
           THEN counted \ Expired ELSE counted

\* markTicketCounted
Mark(w) ==
  LET t == req[w].ticket
  IN  /\ At(w, "mark")
      /\ counted' = Swept \union {t}
      /\ countedSweep' = IF Cardinality(counted) > MaxEntries \/ now > countedSweep
                           THEN now + Period ELSE countedSweep
      /\ req' = [req EXCEPT ![w].count = t \notin Swept]
      /\ late' = IF now >= expires[t] THEN late \union {t} ELSE late
      /\ Goto(w, "open")
      /\ UNCHANGED <<now, expires, downloads, served, missed>>

-----------------------------------------------------------------------------
(* serveFile.                                                              *)

Serve(w) ==
  /\ Return(w)
  /\ served' = IF req[w].get THEN served \union {req[w].ticket} ELSE served

\* The entity is there with the right size.
Open(w) ==
  /\ At(w, "open")
  /\ IF req[w].count THEN Goto(w, "increment") /\ UNCHANGED <<req, served>> ELSE Serve(w)
  /\ UNCHANGED <<now, expires, counted, countedSweep, downloads, missed, late>>

OpenFails(w) ==
  /\ At(w, "open")
  /\ Fail(w)
  /\ UNCHANGED <<now, expires, counted, countedSweep, downloads, served, late>>

\* Mutant: the answer does not wait for IncrementDownload.
IncrementIgnored(w) ==
  /\ At(w, "increment")
  /\ Serve(w)
  /\ \/ downloads' = [downloads EXCEPT ![req[w].ticket] = @ + 1]
     \/ UNCHANGED downloads
  /\ UNCHANGED <<now, expires, counted, countedSweep, missed, late>>

IncrementDownload(w) ==
  /\ At(w, "increment")
  /\ downloads' = [downloads EXCEPT ![req[w].ticket] = @ + 1]
  /\ Serve(w)
  /\ UNCHANGED <<now, expires, counted, countedSweep, missed, late>>

IncrementFails(w) ==
  /\ At(w, "increment")
  /\ Fail(w)
  /\ UNCHANGED <<now, expires, counted, countedSweep, downloads, served, late>>

Tick ==
  /\ now < MaxTime
  /\ now' = now + 1
  /\ UNCHANGED <<expires, counted, countedSweep, pc, req, downloads, served, missed, late>>

\* The key that signs tickets is drawn anew: the old ones are worth nothing.
Restart ==
  /\ expires' = [t \in Tickets |-> IF expires[t] = 0 THEN 0 ELSE 1]
  /\ counted' = {}
  /\ countedSweep' = 0
  /\ pc' = [w \in Workers |-> "idle"]
  /\ req' = [w \in Workers |-> NoRequest]
  /\ missed' = missed \union {req[w].ticket : w \in {v \in Workers : req[v].count}}
  /\ UNCHANGED <<now, downloads, served, late>>

Next ==
  \/ \E t \in Tickets : Create(t)
  \/ \E w \in Workers, t \in Tickets, get \in BOOLEAN : Present(w, t, get)
  \/ \E w \in Workers : \/ Lookup(w) \/ Mark(w) \/ Open(w) \/ OpenFails(w)
                        \/ IncrementDownload(w) \/ IncrementFails(w)
  \/ Tick
  \/ Restart

Spec == Init /\ [][Next]_vars
-----------------------------------------------------------------------------
(* Properties.                                                             *)

\* All the range requests of a ticket are one download, however they overlap and
\* however often the map is swept, unless one of them was checked before the
\* ticket expired and marked after.
CountedOnce == \A t \in Tickets \ late : downloads[t] <= 1

\* A ticket that delivered its file has been counted, unless the request that
\* took its mark has failed or has not come to storing the download.
ServedIsCounted ==
  \A t \in served :
    \/ downloads[t] > 0
    \/ t \in missed
    \/ \E w \in Workers : req[w].ticket = t /\ req[w].count
=============================================================================
