----------------------------- MODULE Retention -----------------------------
(***************************************************************************)
(* Expiry, retention and the trash over time, on either storage engine.    *)
(*                                                                         *)
(* Every minute the cleanup goroutine moves what has expired, or is older  *)
(* than the retention period, to the trash, and then removes what has been *)
(* in the trash for its period, and the links that have been dead for a    *)
(* while.                                                                  *)
(*                                                                         *)
(* SQLite decides what is due in SQL, on instants written as RFC3339Nano   *)
(* text, which has as many digits of the second as it needs: "05Z" sorts   *)
(* after "05.1Z", which sorts after "05.12Z".  The JSON engine compares    *)
(* instants, but first looks, under the read lock alone, whether anything  *)
(* is due at all; what it then moves it decides anew under the write lock. *)
(***************************************************************************)
EXTENDS Naturals, Sequences

CONSTANTS
  Objects,         \* notes, files and pads
  Period,          \* days until a row goes to the trash, in seconds; 0: never
  TrashPeriod,     \* days in the trash
  LinkPeriod,      \* 30 days
  MaxSecond,       \* bound: the clock of the model
  Engines          \* a subset of {"sqlite", "json"}

\* The instants of a second that occur, by the digits they are written with.
Digits == <<<<>>, <<1>>, <<1, 2>>>>
PerSecond == Len(Digits)
Instants  == 0..(MaxSecond * PerSecond + PerSecond - 1)
Never     == MaxSecond * PerSecond + PerSecond

VARIABLES
  now,
  state,    \* of every row: "none", "live", "trash", "gone"
  expires,  \* expires_at, or Never
  touched,  \* updated_at of a note or a pad, created_at of a file
  pinned,   \* a pinned note is not subject to the retention period
  deleted,  \* deleted_at
  link,     \* a link to every object: "none", "active", "dead", "gone"
  made,     \* its created_at
  engine,   \* the storage engine that was opened
  probed,   \* JSON: the sweep whose look has found something, or "none"
  sweep     \* history: the sweep that was the last step, or "none"

rows  == <<state, expires, touched, pinned, deleted>>
links == <<link, made>>
vars  == <<now, rows, links, engine, probed, sweep>>

TypeOK ==
  /\ now \in Instants
  /\ state \in [Objects -> {"none", "live", "trash", "gone"}]
  /\ expires \in [Objects -> Instants \union {Never}]
  /\ touched \in [Objects -> Instants] /\ deleted \in [Objects -> Instants]
  /\ pinned \in [Objects -> BOOLEAN]
  /\ link \in [Objects -> {"none", "active", "dead", "gone"}]
  /\ made \in [Objects -> Instants]
  /\ engine \in Engines
  /\ probed \in {"none", "cleanup", "purge"}
  /\ sweep \in {"none", "cleanup", "purge"}

Init ==
  /\ now = 0
  /\ state = [o \in Objects |-> "none"]
  /\ expires = [o \in Objects |-> Never]
  /\ touched = [o \in Objects |-> 0]
  /\ pinned = [o \in Objects |-> FALSE]
  /\ deleted = [o \in Objects |-> 0]
  /\ link = [o \in Objects |-> "none"]
  /\ made = [o \in Objects |-> 0]
  /\ engine \in Engines
  /\ probed = "none"
  /\ sweep = "none"

-----------------------------------------------------------------------------
(* Timestamps.                                                             *)

Second(t)   == t \div PerSecond
Fraction(t) == Digits[(t % PerSecond) + 1]
Seconds(n)  == n * PerSecond

\* The text of f comes before that of g: a digit sorts before the Z.
DigitsBefore(f, g) ==
  \E k \in 0..Len(f) :
    /\ k <= Len(g) /\ SubSeq(f, 1, k) = SubSeq(g, 1, k)
    /\ k < Len(f)
    /\ k = Len(g) \/ f[k + 1] < g[k + 1]

TextBefore(t, u) ==
  Second(t) < Second(u) \/ (Second(t) = Second(u) /\ DigitsBefore(Fraction(t), Fraction(u)))
TextNotAfter(t, u) == t = u \/ TextBefore(t, u)

TextOlder(t, n) == now >= Seconds(n) /\ TextBefore(t, now - Seconds(n))

\* t has come; t lies more than n seconds back.
Reached(t)  == IF engine = "sqlite" THEN TextNotAfter(t, now) ELSE t <= now
Older(t, n) == IF engine = "sqlite" THEN TextOlder(t, n) ELSE t + Seconds(n) < now

-----------------------------------------------------------------------------
(* Requests.                                                               *)

Other == sweep' = "none" /\ UNCHANGED <<engine, probed>>

Create(o, e, p) ==
  /\ state[o] = "none"
  /\ state' = [state EXCEPT ![o] = "live"]
  /\ expires' = [expires EXCEPT ![o] = e]
  /\ touched' = [touched EXCEPT ![o] = now]
  /\ pinned' = [pinned EXCEPT ![o] = p]
  /\ UNCHANGED <<now, deleted, links>>
  /\ Other

Touch(o) ==
  /\ state[o] = "live"
  /\ touched' = [touched EXCEPT ![o] = now]
  /\ UNCHANGED <<now, state, expires, pinned, deleted, links>>
  /\ Other

Delete(o) ==
  /\ state[o] = "live"
  /\ state' = [state EXCEPT ![o] = "trash"]
  /\ deleted' = [deleted EXCEPT ![o] = now]
  /\ UNCHANGED <<now, expires, touched, pinned, links>>
  /\ Other

\* RestoreTrash changes nothing but deleted_at.
RestoreTrash(o) ==
  /\ state[o] = "trash"
  /\ state' = [state EXCEPT ![o] = "live"]
  /\ deleted' = [deleted EXCEPT ![o] = 0]
  /\ UNCHANGED <<now, expires, touched, pinned, links>>
  /\ Other

\* Links of rows that are gone are dead.
Revoked(gone) == [o \in Objects |-> IF o \in gone /\ link[o] = "active" THEN "dead" ELSE link[o]]

PurgeTrash(o) ==
  /\ state[o] = "trash"
  /\ state' = [state EXCEPT ![o] = "gone"]
  /\ link' = Revoked({o})
  /\ UNCHANGED <<now, expires, touched, pinned, deleted, made>>
  /\ Other

CreateShare(o) ==
  /\ state[o] = "live" /\ link[o] = "none"
  /\ link' = [link EXCEPT ![o] = "active"]
  /\ made' = [made EXCEPT ![o] = now]
  /\ UNCHANGED <<now, rows>>
  /\ Other

\* Revoked, expired or used up.
LinkDies(o) ==
  /\ link[o] = "active"
  /\ link' = [link EXCEPT ![o] = "dead"]
  /\ UNCHANGED <<now, rows, made>>
  /\ Other

-----------------------------------------------------------------------------
(* The cleanup goroutine.                                                  *)

Overdue(o) ==
  \/ expires[o] # Never /\ Reached(expires[o])
  \/ Period > 0 /\ ~pinned[o] /\ Older(touched[o], Period)
Due == {o \in Objects : state[o] = "live" /\ Overdue(o)}

\* Mutant: the period counts from the creation of the row.
DoomedByAge(o) == state[o] = "trash" /\ Older(touched[o], TrashPeriod)

Doomed(o)    == state[o] = "trash" /\ Older(deleted[o], TrashPeriod)
StaleLink(o) == link[o] = "dead" /\ Older(made[o], LinkPeriod)

\* The look of the JSON engine: a sweep with nothing to do ends here.
Probe(s, pending) ==
  /\ engine = "json" /\ probed = "none"
  /\ probed' = IF pending THEN s ELSE "none"
  /\ sweep' = IF pending THEN "none" ELSE s
  /\ UNCHANGED <<now, rows, links, engine>>

ProbeExpired == Probe("cleanup", Due # {})
ProbeTrash   == Probe("purge", \E o \in Objects : Doomed(o) \/ StaleLink(o))

Sweep(s) ==
  /\ engine = "json" => probed = s
  /\ probed' = "none"
  /\ sweep' = s
  /\ UNCHANGED engine

CleanupExpired ==
  /\ Sweep("cleanup")
  /\ state' = [o \in Objects |-> IF o \in Due THEN "trash" ELSE state[o]]
  /\ deleted' = [o \in Objects |-> IF o \in Due THEN now ELSE deleted[o]]
  /\ UNCHANGED <<now, expires, touched, pinned, links>>

\* SQLite deletes the stale links before it revokes those of the rows that go.
\* Without a row to remove the transaction is rolled back, links included.
SQLiteLinks(gone) ==
  IF gone = {} THEN link
  ELSE [o \in Objects |-> IF StaleLink(o) THEN "gone" ELSE Revoked(gone)[o]]

JSONLinks(gone) ==
  [o \in Objects |-> IF Revoked(gone)[o] = "dead" /\ Older(made[o], LinkPeriod)
                     THEN "gone" ELSE Revoked(gone)[o]]

PurgeExpiredTrash ==
  LET gone == {o \in Objects : Doomed(o)}
  IN  /\ Sweep("purge")
      /\ state' = [o \in Objects |-> IF o \in gone THEN "gone" ELSE state[o]]
      /\ link' = IF engine = "sqlite" THEN SQLiteLinks(gone) ELSE JSONLinks(gone)
      /\ UNCHANGED <<now, expires, touched, pinned, deleted, made>>

Tick ==
  /\ now + 1 \in Instants
  /\ now' = now + 1
  /\ UNCHANGED <<rows, links>>
  /\ Other

Next ==
  \/ \E o \in Objects, e \in Instants \union {Never}, p \in BOOLEAN : Create(o, e, p)
  \/ \E o \in Objects : \/ Touch(o) \/ Delete(o) \/ RestoreTrash(o) \/ PurgeTrash(o)
                        \/ CreateShare(o) \/ LinkDies(o)
  \/ ProbeExpired \/ ProbeTrash \/ CleanupExpired \/ PurgeExpiredTrash
  \/ Tick

Spec == Init /\ [][Next]_vars
-----------------------------------------------------------------------------
(* Properties.                                                             *)

\* t is reached, give or take a second; it has been for a second.
Near(t) == now + PerSecond > t
Past(t) == now >= t + PerSecond

NearlyDue(o) ==
  \/ expires[o] # Never /\ Near(expires[o])
  \/ Period > 0 /\ ~pinned[o] /\ Near(touched[o] + Seconds(Period))
LongDue(o) ==
  \/ expires[o] # Never /\ Past(expires[o])
  \/ Period > 0 /\ ~pinned[o] /\ Past(touched[o] + Seconds(Period))

\* The sweeps are right but for less than a second, although they compare text.
\* What goes to the trash was due and what stays was not; what is removed has
\* been in the trash for its period, counted from the last time it got there,
\* and what remains has not.
SweepExact ==
  \A o \in Objects :
    /\ sweep' = "cleanup" /\ state[o] = "live" =>
         IF state'[o] = "trash" THEN NearlyDue(o) ELSE ~LongDue(o)
    /\ sweep' = "purge" /\ state[o] = "trash" =>
         IF state'[o] = "gone" THEN Near(deleted[o] + Seconds(TrashPeriod))
                               ELSE ~Past(deleted[o] + Seconds(TrashPeriod))
SweepsExact == [][SweepExact]_vars

\* A sweep of the trash leaves no dead link that is older than its period.
StaleLinksGone ==
  [][sweep' = "purge" => \A o \in Objects : ~(link'[o] = "dead" /\ StaleLink(o))]_vars
=============================================================================
