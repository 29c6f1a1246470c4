----------------------------- MODULE AuditChain -----------------------------
(***************************************************************************)
(* The audit log of the SQLite engine: a hash chain of events, anchors     *)
(* that seal every full segment of it, retention that removes sealed       *)
(* segments, and the verifier.                                             *)
(*                                                                         *)
(* The hash of an event is collision free and covers the previous hash, so *)
(* the sequence number of an event stands for its hash and 0 for the empty *)
(* string.  Anchors are only appended or rebuilt as a whole, so their own  *)
(* hash links always hold and are left out.  Every store operation appends *)
(* its events in its own transaction, under writeMu; the verifier makes    *)
(* two separate queries on the read connections.                           *)
(***************************************************************************)
EXTENDS Integers, Sequences, FiniteSets, FiniteSetsExt

CONSTANTS
  Every,      \* auditAnchorEvery, 256 in the code
  Caps,       \* values of audit_max_events that may be configured
  MaxSeq,     \* bound on the sequence numbers used
  NoBase      \* no verification is running

ASSUME AuditAssumption ==
  /\ Every \in Nat \ {0}
  /\ Caps \subseteq Nat \ {0}
  /\ MaxSeq \in Nat

VARIABLES
  events,    \* audit_events
  anchors,   \* audit_anchors, oldest first
  next,      \* the AUTOINCREMENT value of the next event
  base,      \* the verifier's last anchor, between its two queries
  verdict,   \* what the last verification said
  origin,    \* history: the first event since the log was last replaced
  moved,     \* history: rows left the log since the verifier's first query
  emptied    \* history: a prune has removed every event of this log

log  == <<events, anchors, next>>
vars == <<events, anchors, next, base, verdict, origin, moved, emptied>>

Seqs   == 0..MaxSeq
Event  == [seq : Seqs, prev : Seqs, intact : BOOLEAN]
Anchor == [start : Seqs, end : Seqs, count : Nat, last : Seqs]

TypeOK ==
  /\ events \subseteq Event
  /\ anchors \in Seq(Anchor)
  /\ next \in 1..(MaxSeq + 1)
  /\ base \in [end : Seqs, last : Seqs] \union {NoBase}
  /\ verdict \in {"none", "ok", "broken"}
  /\ origin \in 1..next
  /\ moved \in BOOLEAN /\ emptied \in BOOLEAN

Init ==
  /\ events = {}
  /\ anchors = <<>>
  /\ next = 1
  /\ base = NoBase
  /\ verdict = "none"
  /\ origin = 1
  /\ moved = FALSE /\ emptied = FALSE

Past(E, n)   == {e \in E : e.seq > n}
SeqsOf(E)    == {e.seq : e \in E}
Sealed(a)    == {e \in events : a.start <= e.seq /\ e.seq <= a.end}
LastEnd(as)  == IF as = <<>> THEN 0 ELSE as[Len(as)].end
LastHash(as) == IF as = <<>> THEN 0 ELSE as[Len(as)].last

\* Mutant: the hash of the last anchor is not carried over.
HashBeforeInRows(E, n, start) ==
  LET before == {s \in SeqsOf(E) : s < n}
  IN  IF before = {} THEN 0 ELSE Max(before)

\* The hash the event with number n has to name: that of the row before it in
\* E, or the given one if there is none.
HashBefore(E, n, start) ==
  LET before == {s \in SeqsOf(E) : s < n}
  IN  IF before = {} THEN start ELSE Max(before)

\* Mutant: a segment is sealed one event too late.
WithLateAnchor(E, as) ==
  LET tail  == SeqsOf(Past(E, LastEnd(as)))
      final == CHOOSE s \in tail : Cardinality({t \in tail : t <= s}) = Every
  IN  IF Cardinality(tail) <= Every
        THEN as
        ELSE Append(as, [start |-> Min(tail), end |-> final, count |-> Every, last |-> final])

\* maybeAnchorTx: one anchor, once a segment has filled up.
WithAnchor(E, as) ==
  LET tail  == SeqsOf(Past(E, LastEnd(as)))
      first == Min(tail)
      final == CHOOSE s \in tail : Cardinality({t \in tail : t <= s}) = Every
  IN  IF Cardinality(tail) < Every
        THEN as
        ELSE Append(as, [start |-> first, end |-> final, count |-> Every, last |-> final])

-----------------------------------------------------------------------------
\* appendAuditTx, in the transaction of whatever is audited.
AppendAudit ==
  /\ next <= MaxSeq
  /\ events' = events \union
       {[seq |-> next, prev |-> HashBefore(events, next, 0), intact |-> TRUE]}
  /\ anchors' = WithAnchor(events', anchors)
  /\ next' = next + 1
  /\ UNCHANGED <<base, verdict, origin, moved, emptied>>

\* ReplaceStateJSON: n events from a backup, chained anew from the empty hash,
\* and anchors rebuilt over them by rebuildAuditAnchorsTx.  The AUTOINCREMENT
\* value survives the deletion of the old rows.
ReplaceState(n) ==
  /\ next + n - 1 <= MaxSeq
  /\ events' = {[seq |-> next + i, prev |-> IF i = 0 THEN 0 ELSE next + i - 1,
                 intact |-> TRUE] : i \in 0..(n - 1)}
  /\ anchors' = [k \in 1..(n \div Every) |->
                  [start |-> next + (k - 1) * Every, end |-> next + k * Every - 1,
                   count |-> Every, last |-> next + k * Every - 1]]
  /\ next' = next + n
  /\ origin' = next
  /\ moved' = TRUE /\ emptied' = FALSE
  /\ UNCHANGED <<base, verdict>>

\* PruneAudits walks the sealed segments from the oldest and stops at the first
\* one still there that has not expired and does not exceed the capacity.
Present == {k \in DOMAIN anchors : Sealed(anchors[k]) # {}}
OverCapacity(k, cap) == Cardinality({e \in events : e.seq >= anchors[k].start}) > cap
\* Mutant: the walk goes on past a segment that stays.
DoomedAnywhere(expired, cap) ==
  {k \in Present : k \in expired \/ OverCapacity(k, cap)}
Doomed(expired, cap) ==
  {k \in Present : \A j \in Present : j <= k => j \in expired \/ OverCapacity(j, cap)}

PruneAudits(expired, cap) ==
  LET gone == UNION {Sealed(anchors[k]) : k \in Doomed(expired, cap)}
  IN  /\ gone # {}
      /\ events' = events \ gone
      /\ moved' = TRUE
      /\ emptied' = (emptied \/ gone = events)
      /\ UNCHANGED <<anchors, next, base, verdict, origin>>

-----------------------------------------------------------------------------
(* VerifyAuditChain.                                                       *)

AnchorsHold(as) == \A k \in DOMAIN as : as[k].count = as[k].end - as[k].start + 1

\* The events after the last anchor continue it, each with the right hash.
TailHolds(E, b) ==
  LET tail == Past(E, b.end)
  IN  \A e \in tail : e.intact /\ e.prev = HashBefore(tail, e.seq, b.last)

LastAnchor == [end |-> LastEnd(anchors), last |-> LastHash(anchors)]

\* What the verifier answers if nothing happens between its two queries.
Verifies == AnchorsHold(anchors) /\ TailHolds(events, LastAnchor)

VerifyAnchors ==
  /\ base = NoBase
  /\ IF AnchorsHold(anchors)
       THEN base' = LastAnchor /\ verdict' = "none"
       ELSE base' = NoBase /\ verdict' = "broken"
  /\ moved' = FALSE
  /\ UNCHANGED <<log, origin, emptied>>

\* Mutant: the last hash is read again, together with the events.
VerifyEventsRereads ==
  /\ base # NoBase
  /\ verdict' = IF TailHolds(events, [base EXCEPT !.last = LastHash(anchors)])
                   THEN "ok" ELSE "broken"
  /\ base' = NoBase
  /\ UNCHANGED <<log, origin, moved, emptied>>

VerifyEvents ==
  /\ base # NoBase
  /\ verdict' = IF TailHolds(events, base) THEN "ok" ELSE "broken"
  /\ base' = NoBase
  /\ UNCHANGED <<log, origin, moved, emptied>>

\* A row of the log is changed outside of the program, one at a time.
Intact == \A e \in events : e.intact
DamageEvent(e) ==
  /\ Intact
  /\ events' = (events \ {e}) \union {[e EXCEPT !.intact = FALSE]}
  /\ UNCHANGED <<anchors, next, base, verdict, origin, moved, emptied>>

Next ==
  \/ AppendAudit
  \/ \E n \in 0..(MaxSeq + 1 - next) : ReplaceState(n)
  \/ \E expired \in SUBSET DOMAIN anchors, cap \in Caps : PruneAudits(expired, cap)
  \/ VerifyAnchors
  \/ VerifyEvents
  \/ \E e \in events : DamageEvent(e)

Spec == Init /\ [][Next]_vars
-----------------------------------------------------------------------------
(* Properties.                                                             *)

\* The surviving rows verify after any sequence of appends, prunes and restores.
\* VerifyAuditChain is documented to say so; it does not, see Verifiable.
AlwaysVerifiable == Intact => Verifies

\* They do as long as no prune has taken the newest row, from which
\* appendAuditTx takes the hash to continue with.
Verifiable == Intact /\ ~emptied => Verifies

\* Retention leaves no gap: every event since the log was last replaced is
\* still there or lies in the span of exactly one anchor, and what is there is
\* the newest part of the log.
Covered ==
  \A n \in origin..(next - 1) :
    \/ n \in SeqsOf(events)
    \/ /\ Cardinality({k \in DOMAIN anchors : anchors[k].start <= n /\ n <= anchors[k].end}) = 1
       /\ \A e \in events : e.seq > n

\* Less than a segment is ever unsealed, whatever was pruned or restored, so
\* retention can reach all but that part of the log.
TailShort == Cardinality(Past(events, LastEnd(anchors))) < Every

\* Appends, and the anchors they add, between the two queries of the verifier
\* cause no false alarm.
NoFalseAlarm == verdict = "broken" => moved \/ emptied \/ ~Intact
=============================================================================
