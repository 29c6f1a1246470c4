-------------------------- MODULE AuditChain_proofs --------------------------
(* Proofs about the audit log, for every length of a segment, every set of    *)
(* capacities and every bound on the sequence numbers.                        *)
(*                                                                            *)
(* The anchors tile the numbers from origin to the newest sealed event, and   *)
(* whatever retention removes is a prefix of the rows that ends at the edge   *)
(* of a segment.  So the unsealed tail is always complete, the rows are the   *)
(* newest part of the log, and as long as a prune has left one of them every  *)
(* row names the number before its own.                                       *)
EXTENDS AuditChain, FiniteSetTheorems, TLAPS

\* The first number that no anchor covers.
Edge == IF anchors = <<>> THEN origin ELSE LastEnd(anchors) + 1

\* The anchors tile origin .. Edge-1, and less than a segment is left.
Tiled ==
  /\ \A k \in DOMAIN anchors :
       /\ origin <= anchors[k].start /\ anchors[k].start <= anchors[k].end
       /\ anchors[k].end < Edge
       /\ anchors[k].last = anchors[k].end
       /\ anchors[k].count = anchors[k].end - anchors[k].start + 1
  /\ \A j, k \in DOMAIN anchors : j < k => anchors[j].end < anchors[k].start
  /\ \A n \in origin..(Edge - 1) :
       \E k \in DOMAIN anchors : anchors[k].start <= n /\ n <= anchors[k].end
  /\ Edge <= next /\ next < Edge + Every

\* One row per number, the newest ones, and all that are not sealed.
Newest ==
  /\ \A e, f \in events : e.seq = f.seq => e = f
  /\ \A e \in events : origin <= e.seq /\ e.seq < next
  /\ \A e \in events : e.seq..(next - 1) \subseteq SeqsOf(events)
  /\ Edge..(next - 1) \subseteq SeqsOf(events)

\* Every row names the one before it, also where that one is gone.
Linked ==
  ~emptied =>
    /\ \A e \in events : e.prev = IF e.seq = origin THEN 0 ELSE e.seq - 1
    /\ events = {} => next = origin

\* The first number after the anchor that the verifier holds.
After(b) == IF b.end = 0 THEN origin ELSE b.end + 1

\* While nothing leaves the log the verifier's anchor stays a point of the chain.
BaseHolds ==
  base # NoBase /\ ~moved =>
    /\ base.last = base.end
    /\ base.end = 0 \/ (origin <= base.end /\ base.end < next)
    /\ After(base)..(next - 1) \subseteq SeqsOf(events)

IInv == TypeOK /\ Tiled /\ Newest /\ Linked /\ BaseHolds /\ NoFalseAlarm

-----------------------------------------------------------------------------
(* The operators the model is built from.                                     *)

LEMMA MaxOf ==
  ASSUME NEW S \in SUBSET Int, NEW m \in S, \A y \in S : y <= m
  PROVE  Max(S) = m
<1>1. \E x \in S : \A y \in S : x >= y
  OBVIOUS
<1>2. \A x \in S : (\A y \in S : x >= y) => x = m
  OBVIOUS
<1> QED
  BY <1>1, <1>2 DEF Max

LEMMA MinOf ==
  ASSUME NEW S \in SUBSET Int, NEW m \in S, \A y \in S : m <= y
  PROVE  Min(S) = m
<1>1. \E x \in S : \A y \in S : x =< y
  OBVIOUS
<1>2. \A x \in S : (\A y \in S : x =< y) => x = m
  OBVIOUS
<1> QED
  BY <1>1, <1>2 DEF Min

\* In a log that starts at lo without a gap, an event takes over the hash of
\* the number before it, and the first one the given hash.
LEMMA HashBeforeIn ==
  ASSUME NEW E, NEW lo \in Int, NEW hi \in Int, SeqsOf(E) = lo..hi,
         NEW n \in Int, n <= hi + 1, lo <= n, NEW h
  PROVE  HashBefore(E, n, h) = IF n = lo THEN h ELSE n - 1
<1> DEFINE before == {s \in SeqsOf(E) : s < n}
<1>1. before = lo..(n - 1)
  OBVIOUS
<1>2. CASE n = lo
  BY <1>1, <1>2 DEF HashBefore
<1>3. CASE n # lo
  <2>1. lo <= n - 1 /\ before # {}
    BY <1>1, <1>3
  <2>2. Max(lo..(n - 1)) = n - 1
    <3>1. lo..(n - 1) \in SUBSET Int /\ n - 1 \in lo..(n - 1) /\ \A y \in lo..(n - 1) : y <= n - 1
      BY <2>1
    <3> QED
      BY <3>1, MaxOf
  <2> QED
    BY <1>1, <1>3, <2>1, <2>2 DEF HashBefore
<1> QED
  BY <1>2, <1>3

\* maybeAnchorTx seals the tail exactly when it is a whole segment.
LEMMA WithAnchorOf ==
  ASSUME NEW E, NEW as, NEW lo \in Int, NEW hi \in Int, lo <= hi,
         SeqsOf(Past(E, LastEnd(as))) = lo..hi, hi < lo + Every
  PROVE  WithAnchor(E, as) =
           IF hi + 1 < lo + Every THEN as
           ELSE Append(as, [start |-> lo, end |-> hi, count |-> Every, last |-> hi])
<1> DEFINE tail == SeqsOf(Past(E, LastEnd(as)))
           final == CHOOSE s \in tail : Cardinality({t \in tail : t <= s}) = Every
<1>1. tail = lo..hi /\ Cardinality(tail) = hi - lo + 1 /\ Min(tail) = lo
  <2>1. tail \in SUBSET Int /\ lo \in tail /\ \A y \in tail : lo <= y
    OBVIOUS
  <2>2. Min(tail) = lo
    BY <2>1, MinOf
  <2> QED
    BY <2>2, FS_Interval
<1>2. Every \in Int /\ Every > 0
  BY AuditAssumption
<1>3. WithAnchor(E, as) = IF Cardinality(tail) < Every THEN as
        ELSE Append(as, [start |-> Min(tail), end |-> final, count |-> Every, last |-> final])
  BY DEF WithAnchor
<1>4. ASSUME NEW s \in tail
      PROVE  Cardinality({t \in tail : t <= s}) = s - lo + 1
  <2>1. {t \in tail : t <= s} = lo..s /\ s \in Int /\ lo <= s
    BY <1>1, <1>4
  <2>2. Cardinality(lo..s) = s - lo + 1
    BY <2>1, FS_Interval
  <2> QED
    BY <2>1, <2>2
<1>5. CASE hi + 1 < lo + Every
  <2>1. Cardinality(tail) < Every
    BY <1>1, <1>2, <1>5
  <2> QED
    BY <1>3, <1>5, <2>1
<1>6. CASE hi + 1 = lo + Every
  <2>1. ~(Cardinality(tail) < Every) /\ ~(hi + 1 < lo + Every)
    BY <1>1, <1>2, <1>6
  <2>2. hi \in tail /\ \A s \in tail : Cardinality({t \in tail : t <= s}) = Every <=> s = hi
    BY <1>1, <1>2, <1>4, <1>6
  <2>3. final = hi
    BY <2>2
  <2> HIDE DEF final
  <2> QED
    BY <1>1, <1>3, <2>1, <2>3
<1>7. hi + 1 < lo + Every \/ hi + 1 = lo + Every
  BY <1>2
<1> QED
  BY <1>5, <1>6, <1>7

\* Whole segments of Every events fill the first (n \div Every) * Every numbers.
LEMMA Segments ==
  ASSUME NEW n \in Nat
  PROVE  /\ n \div Every \in Nat
         /\ (n \div Every) * Every <= n
         /\ n < (n \div Every) * Every + Every
BY AuditAssumption

\* A later segment starts after an earlier one has ended.
LEMMA SegmentOrder ==
  ASSUME NEW j \in Int, NEW k \in Int, j < k
  PROVE  j * Every \in Int /\ k * Every \in Int /\ j * Every + Every <= k * Every
BY AuditAssumption

-----------------------------------------------------------------------------
(* Every action keeps the invariant.                                          *)

LEMMA InitIInv == Init => IInv
<1> SUFFICES ASSUME Init PROVE IInv
  OBVIOUS
<1> USE AuditAssumption DEF Init
<1>1. TypeOK
  <2>1. events \subseteq Event /\ anchors \in Seq(Anchor)
    OBVIOUS
  <2>2. next \in 1..(MaxSeq + 1) /\ origin \in 1..next
    OBVIOUS
  <2> QED
    BY <2>1, <2>2 DEF TypeOK
<1>2. Edge = 1
  BY DEF Edge
<1>3. Tiled
  BY <1>2 DEF Tiled
<1>4. Newest
  BY <1>2 DEF Newest, SeqsOf
<1> QED
  BY <1>1, <1>3, <1>4 DEF IInv, Linked, BaseHolds, NoFalseAlarm

\* What is not sealed are the events from the edge on.
LEMMA Unsealed ==
  ASSUME IInv
  PROVE  /\ SeqsOf(Past(events, LastEnd(anchors))) = Edge..(next - 1)
         /\ Edge \in Int /\ LastEnd(anchors) \in Nat /\ origin <= Edge
<1> USE DEF IInv
<1>1. /\ Edge \in Int /\ LastEnd(anchors) \in Nat /\ next \in Nat /\ origin \in Nat /\ origin > 0
      /\ origin <= Edge
  <2>1. CASE anchors = <<>>
    BY <2>1 DEF TypeOK, Edge, LastEnd
  <2>2. CASE anchors # <<>>
    <3>1. Len(anchors) \in DOMAIN anchors /\ anchors[Len(anchors)] \in Anchor
      BY <2>2 DEF TypeOK
    <3>2. anchors[Len(anchors)].end \in Nat /\ anchors[Len(anchors)].start \in Nat
      BY <3>1, AuditAssumption DEF Anchor, Seqs
    <3> QED
      BY <2>2, <3>1, <3>2 DEF TypeOK, Edge, LastEnd, Tiled
  <2> QED
    BY <2>1, <2>2
<1>2. \A e \in events : e.seq \in Int /\ (e.seq > LastEnd(anchors) <=> e.seq >= Edge)
  <2>1. \A e \in events : e.seq \in Nat /\ origin <= e.seq
    BY DEF TypeOK, Event, Seqs, Newest
  <2>2. CASE anchors = <<>>
    BY <1>1, <2>1, <2>2 DEF Edge, LastEnd
  <2>3. CASE anchors # <<>>
    BY <1>1, <2>1, <2>3 DEF Edge
  <2> QED
    BY <2>2, <2>3
<1>3. SeqsOf(Past(events, LastEnd(anchors))) \subseteq Edge..(next - 1)
  BY <1>1, <1>2 DEF SeqsOf, Past, Newest
<1>4. ASSUME NEW n \in Edge..(next - 1)
      PROVE  n \in SeqsOf(Past(events, LastEnd(anchors)))
  <2>1. PICK e \in events : e.seq = n
    BY <1>4 DEF Newest, SeqsOf
  <2> QED
    BY <1>1, <1>2, <2>1 DEF SeqsOf, Past
<1> QED
  BY <1>1, <1>3, <1>4

LEMMA AppendKeeps == IInv /\ AppendAudit => IInv'
<1> SUFFICES ASSUME IInv, AppendAudit PROVE IInv'
  OBVIOUS
<1> DEFINE row == [seq |-> next, prev |-> HashBefore(events, next, 0), intact |-> TRUE]
<1> USE DEF IInv
<1>1. /\ next \in Nat /\ origin \in Nat /\ 0 < origin /\ origin <= next /\ next <= MaxSeq
      /\ MaxSeq \in Nat /\ Every \in Nat /\ 0 < Every
      /\ Edge \in Int /\ origin <= Edge /\ Edge <= next /\ next < Edge + Every
  BY AuditAssumption, Unsealed DEF TypeOK, AppendAudit, Tiled
<1>2. /\ events' = events \union {row} /\ next' = next + 1
      /\ anchors' = WithAnchor(events', anchors)
      /\ UNCHANGED <<base, verdict, origin, moved, emptied>>
  BY DEF AppendAudit
<1>3. HashBefore(events, next, 0) = IF events = {} THEN 0 ELSE next - 1
  <2> DEFINE before == {s \in SeqsOf(events) : s < next}
  <2>1. before = SeqsOf(events) /\ before \in SUBSET Int /\ \A y \in before : y <= next - 1
    BY <1>1 DEF SeqsOf, Newest, TypeOK, Event, Seqs
  <2>2. CASE events = {}
    BY <2>1, <2>2 DEF HashBefore, SeqsOf
  <2>3. CASE events # {}
    <3>1. PICK e \in events : TRUE
      BY <2>3
    <3>2. e.seq \in Int /\ e.seq <= next - 1
      BY <1>1 DEF Newest, TypeOK, Event, Seqs
    <3>3. next - 1 \in before
      BY <1>1, <2>1, <3>2 DEF Newest
    <3>4. Max(before) = next - 1
      BY <2>1, <3>3, MaxOf
    <3> QED
      BY <2>3, <3>3, <3>4 DEF HashBefore
  <2> QED
    BY <2>2, <2>3
<1>4. row \in Event /\ row.seq = next /\ row.prev = IF events = {} THEN 0 ELSE next - 1
  BY <1>1, <1>3 DEF Event, Seqs
<1> HIDE DEF row
<1>5. SeqsOf(events') = SeqsOf(events) \union {next}
  BY <1>2, <1>4 DEF SeqsOf
<1>6. anchors' = IF next + 1 < Edge + Every THEN anchors
                 ELSE Append(anchors, [start |-> Edge, end |-> next, count |-> Every, last |-> next])
  <2>1. Past(events', LastEnd(anchors)) = Past(events, LastEnd(anchors)) \union {row}
    <3>1. row.seq > LastEnd(anchors)
      BY <1>1, <1>4, Unsealed DEF Edge, LastEnd
    <3> QED
      BY <1>2, <3>1 DEF Past
  <2>2. SeqsOf(Past(events', LastEnd(anchors))) = Edge..next
    <3>1. SeqsOf(Past(events', LastEnd(anchors))) = (Edge..(next - 1)) \union {next}
      BY <1>4, <2>1, Unsealed DEF SeqsOf
    <3> QED
      BY <1>1, <3>1
  <2>3. next \in Int /\ Edge \in Int /\ Edge <= next /\ next < Edge + Every
    BY <1>1
  <2>4. WithAnchor(events', anchors) =
          IF next + 1 < Edge + Every THEN anchors
          ELSE Append(anchors, [start |-> Edge, end |-> next, count |-> Every, last |-> next])
    BY <2>2, <2>3, WithAnchorOf
  <2> QED
    BY <1>2, <2>4
<1>7. TypeOK'
  <2>1. events' \subseteq Event
    BY <1>2, <1>4 DEF TypeOK
  <2>2. anchors' \in Seq(Anchor)
    <3>1. [start |-> Edge, end |-> next, count |-> Every, last |-> next] \in Anchor
      BY <1>1 DEF Anchor, Seqs
    <3> QED
      BY <1>6, <3>1 DEF TypeOK
  <2>3. next' \in 1..(MaxSeq + 1) /\ origin' \in 1..next'
    BY <1>1, <1>2
  <2> QED
    BY <1>2, <2>1, <2>2, <2>3 DEF TypeOK
<1>8. Edge' = (IF next + 1 < Edge + Every THEN Edge ELSE next + 1)
  <2>1. CASE next + 1 < Edge + Every
    BY <1>2, <1>6, <2>1 DEF Edge
  <2>2. CASE ~(next + 1 < Edge + Every)
    <3> DEFINE top == [start |-> Edge, end |-> next, count |-> Every, last |-> next]
    <3>1. anchors' = Append(anchors, top) /\ top.end = next
      BY <1>6, <2>2
    <3> HIDE DEF top
    <3>2. anchors' # <<>> /\ anchors'[Len(anchors')] = top
      BY <3>1 DEF TypeOK
    <3> QED
      BY <2>2, <3>1, <3>2 DEF Edge, LastEnd
  <2> QED
    BY <2>1, <2>2
<1>9. Tiled'
  <2>1. CASE next + 1 < Edge + Every
    <3>1. anchors' = anchors /\ Edge' = Edge /\ next' = next + 1 /\ origin' = origin
      BY <1>2, <1>6, <1>8, <2>1
    <3> QED
      BY <1>1, <2>1, <3>1 DEF Tiled
  <2>2. CASE ~(next + 1 < Edge + Every)
    <3> DEFINE top == [start |-> Edge, end |-> next, count |-> Every, last |-> next]
               n == Len(anchors)
    <3>1. anchors' = Append(anchors, top) /\ Edge' = next + 1 /\ next' = next + 1 /\ origin' = origin
      BY <1>2, <1>6, <1>8, <2>2
    <3>2. top.start = Edge /\ top.end = next /\ top.last = next /\ top.count = Every
      OBVIOUS
    <3>3. next - Edge + 1 = Every
      BY <1>1, <2>2
    <3> HIDE DEF top
    <3>4. /\ n \in Nat /\ DOMAIN anchors = 1..n /\ DOMAIN anchors' = 1..(n + 1)
          /\ anchors'[n + 1] = top /\ \A k \in 1..n : anchors'[k] = anchors[k]
      BY <3>1 DEF TypeOK
    <3> HIDE DEF n
    <3>5. \A k \in 1..n : anchors[k].start \in Nat /\ anchors[k].end \in Nat
      <4>1. \A k \in 1..n : anchors[k] \in Anchor
        BY <3>4 DEF TypeOK
      <4> QED
        BY <1>1, <4>1 DEF Anchor, Seqs
    <3>6. ASSUME NEW k \in DOMAIN anchors'
          PROVE  /\ origin <= anchors'[k].start /\ anchors'[k].start <= anchors'[k].end
                 /\ anchors'[k].end < next + 1
                 /\ anchors'[k].last = anchors'[k].end
                 /\ anchors'[k].count = anchors'[k].end - anchors'[k].start + 1
      <4>1. CASE k = n + 1
        BY <1>1, <3>2, <3>3, <3>4, <4>1
      <4>2. CASE k \in 1..n
        BY <1>1, <3>4, <3>5, <4>2 DEF Tiled
      <4> QED
        BY <3>4, <3>6, <4>1, <4>2
    <3>7. ASSUME NEW j \in DOMAIN anchors', NEW k \in DOMAIN anchors', j < k
          PROVE  anchors'[j].end < anchors'[k].start
      <4>1. j \in 1..n
        BY <3>4, <3>7
      <4>2. CASE k = n + 1
        BY <3>2, <3>4, <4>1, <4>2 DEF Tiled
      <4>3. CASE k \in 1..n
        BY <3>4, <3>7, <4>1, <4>3 DEF Tiled
      <4> QED
        BY <3>4, <3>7, <4>2, <4>3
    <3>8. ASSUME NEW m \in origin..next
          PROVE  \E k \in DOMAIN anchors' : anchors'[k].start <= m /\ m <= anchors'[k].end
      <4>1. CASE m < Edge
        <5>1. m \in origin..(Edge - 1)
          BY <1>1, <4>1
        <5>2. PICK k \in DOMAIN anchors : anchors[k].start <= m /\ m <= anchors[k].end
          BY <5>1 DEF Tiled
        <5> QED
          BY <3>4, <5>2
      <4>2. CASE Edge <= m
        BY <1>1, <3>2, <3>4, <4>2
      <4> QED
        BY <1>1, <4>1, <4>2
    <3>9. next + 1 <= next + 1 /\ next + 1 < next + 1 + Every /\ (next + 1) - 1 = next
      BY <1>1
    <3> QED
      BY <3>1, <3>6, <3>7, <3>8, <3>9 DEF Tiled
  <2> QED
    BY <2>1, <2>2
<1>10. Newest'
  <2>1. \A e \in events : e.seq \in Int /\ e.seq < next
    BY DEF Newest, TypeOK, Event, Seqs
  <2>2. \A e, f \in events' : e.seq = f.seq => e = f
    BY <1>1, <1>2, <1>4, <2>1 DEF Newest
  <2>3. \A e \in events' : origin' <= e.seq /\ e.seq < next'
    BY <1>1, <1>2, <1>4, <2>1 DEF Newest
  <2>4. \A e \in events' : e.seq..(next' - 1) \subseteq SeqsOf(events')
    BY <1>1, <1>2, <1>4, <1>5, <2>1 DEF Newest
  <2>5. Edge'..(next' - 1) \subseteq SeqsOf(events')
    <3>1. Edge..(next - 1) \subseteq SeqsOf(events)
      BY DEF Newest
    <3>2. \A m \in Edge..next : m \in Edge..(next - 1) \/ m = next
      BY <1>1
    <3>3. Edge..next \subseteq SeqsOf(events')
      BY <1>5, <3>1, <3>2
    <3>4. Edge'..(next' - 1) \subseteq Edge..next
      BY <1>1, <1>2, <1>8
    <3> QED
      BY <3>3, <3>4
  <2> QED
    BY <2>2, <2>3, <2>4, <2>5 DEF Newest
<1>11. Linked'
  <2>1. emptied \/ row.prev = IF row.seq = origin THEN 0 ELSE row.seq - 1
    <3>1. CASE events = {}
      BY <1>4, <3>1 DEF Linked
    <3>2. CASE events # {}
      BY <1>1, <1>4, <3>2 DEF Newest, TypeOK, Event, Seqs
    <3> QED
      BY <3>1, <3>2
  <2> QED
    BY <1>2, <2>1 DEF Linked
<1>12. BaseHolds'
  <2>1. UNCHANGED <<base, moved>> /\ After(base)' = After(base)
    BY <1>2 DEF After
  <2>2. CASE base # NoBase /\ ~moved
    <3>1. After(base) \in Int /\ base.end \in Int
      BY <1>1, <2>2 DEF After, TypeOK, Seqs
    <3>2. /\ base.last = base.end
          /\ base.end = 0 \/ (origin <= base.end /\ base.end < next)
          /\ After(base)..(next - 1) \subseteq SeqsOf(events)
      BY <2>2 DEF BaseHolds
    <3>3. \A m \in After(base)..next : m \in After(base)..(next - 1) \/ m = next
      BY <1>1, <3>1
    <3>4. After(base)'..(next' - 1) \subseteq SeqsOf(events')
      BY <1>1, <1>2, <1>5, <2>1, <3>1, <3>2, <3>3
    <3>5. base'.end = 0 \/ (origin' <= base'.end /\ base'.end < next')
      BY <1>1, <1>2, <3>1, <3>2
    <3> QED
      BY <1>2, <3>2, <3>4, <3>5 DEF BaseHolds
  <2>3. CASE ~(base # NoBase /\ ~moved)
    BY <2>1, <2>3 DEF BaseHolds
  <2> QED
    BY <2>2, <2>3
<1>13. NoFalseAlarm'
  BY <1>2, <1>4 DEF NoFalseAlarm, Intact
<1> QED
  BY <1>7, <1>9, <1>10, <1>11, <1>12, <1>13

LEMMA ReplaceKeeps ==
  ASSUME IInv, NEW n \in 0..(MaxSeq + 1 - next), ReplaceState(n)
  PROVE  IInv'
<1> DEFINE q == n \div Every
           first(k) == next + (k - 1) * Every
           final(k) == next + k * Every - 1
<1> USE DEF IInv
<1>1. /\ next \in Nat /\ 0 < next /\ next <= MaxSeq + 1 /\ next + n - 1 <= MaxSeq
      /\ n \in Nat /\ MaxSeq \in Nat /\ Every \in Nat /\ 0 < Every
  BY AuditAssumption DEF TypeOK, ReplaceState
<1>2. /\ events' = {[seq |-> next + i, prev |-> IF i = 0 THEN 0 ELSE next + i - 1, intact |-> TRUE] :
                     i \in 0..(n - 1)}
      /\ next' = next + n /\ origin' = next /\ moved' = TRUE /\ emptied' = FALSE
      /\ UNCHANGED <<base, verdict>>
  BY DEF ReplaceState
<1>3. anchors' = [k \in 1..q |->
                   [start |-> first(k), end |-> final(k), count |-> Every, last |-> final(k)]]
  BY DEF ReplaceState
<1>4. q \in Nat /\ q * Every \in Nat /\ q * Every <= n /\ n < q * Every + Every
  BY <1>1, Segments
<1> HIDE DEF q
<1>5. ASSUME NEW k \in 1..q
      PROVE  /\ first(k) \in Nat /\ final(k) \in Nat
             /\ next <= first(k) /\ final(k) = first(k) + Every - 1
             /\ final(k) < next + q * Every
  <2>1. (k - 1) * Every \in Nat /\ k * Every \in Nat /\ k * Every = (k - 1) * Every + Every
    BY <1>1, <1>5
  <2>2. k * Every <= q * Every
    <3>1. CASE k = q
      BY <3>1, <2>1
    <3>2. CASE k < q
      <4>1. k * Every + Every <= q * Every
        BY <1>4, <1>5, <3>2, SegmentOrder
      <4> QED
        BY <1>1, <1>4, <2>1, <4>1
    <3> QED
      BY <1>4, <1>5, <3>1, <3>2
  <2> QED
    BY <1>1, <1>4, <2>1, <2>2
<1>6. ASSUME NEW j \in 1..q, NEW k \in 1..q, j < k
      PROVE  final(j) < first(k)
  <2>1. CASE j = k - 1
    <3>1. j * Every = (k - 1) * Every /\ j * Every \in Int
      BY <1>1, <1>6, <2>1
    <3> QED
      BY <1>1, <3>1
  <2>2. CASE j < k - 1
    <3>1. j * Every \in Int /\ (k - 1) * Every \in Int /\ j * Every + Every <= (k - 1) * Every
      BY <1>6, <2>2, SegmentOrder
    <3> QED
      BY <1>1, <3>1
  <2> QED
    BY <1>6, <2>1, <2>2
<1>7. ASSUME NEW m \in next..(next + q * Every - 1)
      PROVE  \E k \in 1..q : first(k) <= m /\ m <= final(k)
  <2> DEFINE i == m - next
             k == (i \div Every) + 1
  <2>1. i \in Nat /\ i < q * Every
    BY <1>1, <1>4, <1>7
  <2>2. /\ i \div Every \in Nat /\ (i \div Every) * Every <= i
        /\ i < (i \div Every) * Every + Every /\ (i \div Every) * Every \in Nat
    BY <1>1, <2>1, Segments
  <2>3. i \div Every < q
    <3>1. CASE i \div Every = q
      BY <1>4, <2>1, <2>2, <3>1
    <3>2. CASE i \div Every > q
      <4>1. q * Every + Every <= (i \div Every) * Every
        BY <1>4, <2>2, <3>2, SegmentOrder
      <4> QED
        BY <1>1, <1>4, <2>1, <2>2, <4>1
    <3> QED
      BY <1>4, <2>2, <3>1, <3>2
  <2>4. k \in 1..q
    BY <1>4, <2>2, <2>3
  <2>5. (k - 1) * Every = (i \div Every) * Every /\ k * Every = (i \div Every) * Every + Every
    BY <1>1, <2>2
  <2>6. first(k) <= m /\ m <= final(k)
    <3>1. m = next + i
      BY <1>1, <1>7
    <3> QED
      BY <1>1, <2>1, <2>2, <2>5, <3>1
  <2> QED
    BY <2>4, <2>6
<1> HIDE DEF first, final
<1>8. /\ anchors' \in Seq(Anchor) /\ Len(anchors') = q /\ DOMAIN anchors' = 1..q
      /\ \A k \in 1..q : /\ anchors'[k].start = first(k) /\ anchors'[k].end = final(k)
                         /\ anchors'[k].last = final(k) /\ anchors'[k].count = Every
  <2>1. \A k \in 1..q : first(k) \in Seqs /\ final(k) \in Seqs
    BY <1>1, <1>4, <1>5 DEF Seqs
  <2>2. anchors' \in [1..q -> Anchor]
    BY <1>1, <1>3, <2>1 DEF Anchor
  <2> QED
    BY <1>3, <1>4, <2>2
<1>9. Edge' = next + q * Every
  <2>1. CASE q = 0
    BY <1>1, <1>2, <1>8, <2>1 DEF Edge
  <2>2. CASE q # 0
    <3>1. anchors' # <<>> /\ LastEnd(anchors') = final(q)
      BY <1>4, <1>8, <2>2 DEF LastEnd
    <3>2. final(q) + 1 = next + q * Every
      BY <1>1, <1>4 DEF final
    <3> QED
      BY <3>1, <3>2 DEF Edge
  <2> QED
    BY <2>1, <2>2
<1>10. Tiled'
  <2>1. ASSUME NEW k \in DOMAIN anchors'
        PROVE  /\ next <= anchors'[k].start /\ anchors'[k].start <= anchors'[k].end
               /\ anchors'[k].end < Edge'
               /\ anchors'[k].last = anchors'[k].end
               /\ anchors'[k].count = anchors'[k].end - anchors'[k].start + 1
    BY <1>1, <1>5, <1>8, <1>9, <2>1
  <2>2. \A j, k \in DOMAIN anchors' : j < k => anchors'[j].end < anchors'[k].start
    BY <1>6, <1>8
  <2>3. \A m \in next..(Edge' - 1) :
          \E k \in DOMAIN anchors' : anchors'[k].start <= m /\ m <= anchors'[k].end
    <3>1. Edge' - 1 = next + q * Every - 1
      BY <1>1, <1>4, <1>9
    <3> QED
      BY <1>7, <1>8, <3>1
  <2>4. Edge' <= next' /\ next' < Edge' + Every
    BY <1>1, <1>2, <1>4, <1>9
  <2> QED
    BY <1>2, <2>1, <2>2, <2>3, <2>4 DEF Tiled
<1>11. /\ \A e \in events' : /\ e.seq \in next..(next + n - 1) /\ e \in Event /\ e.intact
                            /\ e.prev = IF e.seq = next THEN 0 ELSE e.seq - 1
       /\ \A e, f \in events' : e.seq = f.seq => e = f
       /\ SeqsOf(events') = next..(next + n - 1)
  <2> DEFINE row(i) == [seq |-> next + i, prev |-> IF i = 0 THEN 0 ELSE next + i - 1, intact |-> TRUE]
  <2>1. events' = {row(i) : i \in 0..(n - 1)}
    BY <1>2
  <2>2. \A i \in 0..(n - 1) : /\ row(i).seq = next + i /\ row(i).intact = TRUE
                              /\ row(i).prev = IF i = 0 THEN 0 ELSE next + i - 1
                              /\ row(i) \in Event
    BY <1>1 DEF Event, Seqs
  <2> HIDE DEF row
  <2>3. \A e \in events' : /\ e.seq \in next..(next + n - 1) /\ e \in Event /\ e.intact
                           /\ e.prev = IF e.seq = next THEN 0 ELSE e.seq - 1
    BY <1>1, <2>1, <2>2
  <2>4. \A e, f \in events' : e.seq = f.seq => e = f
    BY <1>1, <2>1, <2>2
  <2>5. ASSUME NEW m \in next..(next + n - 1)
        PROVE  m \in SeqsOf(events')
    <3>1. m - next \in 0..(n - 1) /\ next + (m - next) = m
      BY <1>1, <2>5
    <3> QED
      BY <2>1, <2>2, <3>1 DEF SeqsOf
  <2>6. SeqsOf(events') \subseteq next..(next + n - 1)
    BY <2>3 DEF SeqsOf
  <2> QED
    BY <2>3, <2>4, <2>5, <2>6
<1>12. Newest'
  <2>0. next' - 1 = next + n - 1
    BY <1>1, <1>2
  <2>1. \A e \in events' : origin' <= e.seq /\ e.seq < next'
    BY <1>1, <1>2, <1>11
  <2>2. ASSUME NEW e \in events'
        PROVE  e.seq..(next' - 1) \subseteq SeqsOf(events')
    <3>1. e.seq \in Nat /\ next <= e.seq
      BY <1>1, <1>11
    <3>2. e.seq..(next + n - 1) \subseteq next..(next + n - 1)
      BY <1>1, <3>1
    <3> QED
      BY <1>11, <2>0, <3>2
  <2>3. Edge'..(next' - 1) \subseteq SeqsOf(events')
    <3>1. (next + q * Every)..(next + n - 1) \subseteq next..(next + n - 1)
      BY <1>1, <1>4
    <3> QED
      BY <1>9, <1>11, <2>0, <3>1
  <2> QED
    BY <1>11, <2>1, <2>2, <2>3 DEF Newest
<1>13. Linked'
  <2>1. events' = {} => next' = origin'
    <3>1. n = 0 \/ next \in SeqsOf(events')
      BY <1>1, <1>11
    <3> QED
      BY <1>1, <1>2, <3>1 DEF SeqsOf
  <2>2. \A e \in events' : e.prev = IF e.seq = origin' THEN 0 ELSE e.seq - 1
    BY <1>2, <1>11
  <2> QED
    BY <2>1, <2>2 DEF Linked
<1>14. TypeOK'
  <2>1. next' \in 1..(MaxSeq + 1) /\ origin' \in 1..next'
    BY <1>1, <1>2
  <2> QED
    BY <1>2, <1>8, <1>11, <2>1 DEF TypeOK
<1> QED
  BY <1>2, <1>10, <1>12, <1>13, <1>14 DEF BaseHolds, NoFalseAlarm

\* Retention takes whole segments from the old end.
LEMMA PruneKeeps ==
  ASSUME IInv, NEW expired \in SUBSET DOMAIN anchors, NEW cap \in Caps, PruneAudits(expired, cap)
  PROVE  IInv'
<1> DEFINE D == Doomed(expired, cap)
           gone == UNION {Sealed(anchors[k]) : k \in D}
<1> USE DEF IInv
<1>1. /\ events' = events \ gone /\ moved' = TRUE /\ emptied' = (emptied \/ gone = events)
      /\ UNCHANGED <<anchors, next, base, verdict, origin>>
  BY DEF PruneAudits
<1>2. Edge' = Edge
  BY <1>1 DEF Edge
<1>3. \A e \in events : e.seq \in Nat
  BY DEF TypeOK, Event, Seqs
<1>4. \A k \in DOMAIN anchors : anchors[k].start \in Nat /\ anchors[k].end \in Nat
  <2>1. \A k \in DOMAIN anchors : anchors[k] \in Anchor
    BY DEF TypeOK
  <2> QED
    BY <2>1, AuditAssumption DEF Anchor, Seqs
<1>5. D \subseteq DOMAIN anchors /\ DOMAIN anchors \subseteq Nat
  BY DEF Doomed, Present, TypeOK
<1>6. ASSUME NEW j \in DOMAIN anchors, NEW k \in D, j <= k, Sealed(anchors[j]) # {}
      PROVE  j \in D
  BY <1>5, <1>6 DEF Doomed, Present
<1> HIDE DEF D
<1>7. ASSUME NEW e \in events, NEW f \in gone, f.seq >= e.seq
      PROVE  e \in gone
  <2>1. PICK k \in D : f \in Sealed(anchors[k])
    OBVIOUS
  <2>2. f \in events /\ anchors[k].start <= f.seq /\ f.seq <= anchors[k].end
    BY <2>1 DEF Sealed
  <2>3. origin <= e.seq /\ e.seq <= Edge - 1 /\ Edge \in Int /\ origin \in Int
    BY <1>3, <1>4, <1>5, <1>7, <2>2, Unsealed DEF Newest, Tiled, TypeOK
  <2>4. PICK j \in DOMAIN anchors : anchors[j].start <= e.seq /\ e.seq <= anchors[j].end
    BY <1>3, <2>3 DEF Tiled
  <2>5. e \in Sealed(anchors[j])
    BY <2>4 DEF Sealed
  <2>6. j <= k
    <3>1. CASE k < j
      <4>1. anchors[k].end < anchors[j].start
        BY <1>5, <3>1 DEF Tiled
      <4> QED
        BY <1>3, <1>4, <1>5, <1>7, <2>2, <2>4, <4>1
    <3> QED
      BY <1>5, <3>1
  <2> QED
    BY <1>6, <2>5, <2>6
<1>8. \A e \in gone : e \in events /\ e.seq < Edge
  BY <1>3, <1>4, <1>5, Unsealed DEF Sealed, Tiled
<1> HIDE DEF gone
<1>9. Tiled'
  BY <1>1, <1>2 DEF Tiled
<1>10. Newest'
  <2>1. ASSUME NEW e \in events', NEW m \in e.seq..(next' - 1)
        PROVE  m \in SeqsOf(events')
    <3>1. PICK f \in events : f.seq = m
      BY <1>1, <2>1 DEF Newest, SeqsOf
    <3>2. f \notin gone
      BY <1>1, <1>3, <1>7, <2>1, <3>1
    <3> QED
      BY <1>1, <3>1, <3>2 DEF SeqsOf
  <2>2. ASSUME NEW m \in Edge'..(next' - 1)
        PROVE  m \in SeqsOf(events')
    <3>1. PICK f \in events : f.seq = m
      BY <1>1, <1>2, <2>2 DEF Newest, SeqsOf
    <3>2. f \notin gone
      BY <1>2, <1>3, <1>8, <2>2, <3>1, Unsealed
    <3> QED
      BY <1>1, <3>1, <3>2 DEF SeqsOf
  <2>3. \A e, f \in events' : e.seq = f.seq => e = f
    BY <1>1 DEF Newest
  <2>4. \A e \in events' : origin' <= e.seq /\ e.seq < next'
    BY <1>1 DEF Newest
  <2>5. \A e \in events' : e.seq..(next' - 1) \subseteq SeqsOf(events')
    BY <2>1
  <2> QED
    BY <2>2, <2>3, <2>4, <2>5 DEF Newest
<1>11. Linked'
  <2>1. ~emptied' => events' # {}
    BY <1>1, <1>8
  <2> QED
    BY <1>1, <2>1 DEF Linked
<1>12. TypeOK'
  BY <1>1 DEF TypeOK
<1> QED
  BY <1>1, <1>9, <1>10, <1>11, <1>12 DEF BaseHolds, NoFalseAlarm

\* The rows after a point of the chain continue it.
LEMMA TailContinues ==
  ASSUME IInv, ~emptied, Intact, NEW b, b.end \in Nat, b.last = b.end,
         b.end = 0 \/ (origin <= b.end /\ b.end < next),
         After(b)..(next - 1) \subseteq SeqsOf(events)
  PROVE  TailHolds(events, b)
<1> DEFINE tail == Past(events, b.end)
<1> USE DEF IInv
<1>1. /\ next \in Nat /\ origin \in Nat /\ 0 < origin /\ origin <= next
      /\ After(b) \in Int /\ origin <= After(b)
  BY DEF TypeOK, After
<1>2. \A e \in events : /\ e.seq \in Nat /\ origin <= e.seq /\ e.seq < next
                        /\ (e.seq > b.end <=> e.seq >= After(b))
  BY <1>1 DEF TypeOK, Event, Seqs, Newest, After
<1>3. SeqsOf(tail) = After(b)..(next - 1)
  <2>1. SeqsOf(tail) \subseteq After(b)..(next - 1)
    BY <1>1, <1>2 DEF SeqsOf, Past
  <2>2. ASSUME NEW n \in After(b)..(next - 1)
        PROVE  n \in SeqsOf(tail)
    <3>1. PICK e \in events : e.seq = n
      BY <2>2 DEF SeqsOf
    <3> QED
      BY <1>1, <1>2, <3>1 DEF SeqsOf, Past
  <2> QED
    BY <2>1, <2>2
<1>4. ASSUME NEW e \in tail
      PROVE  e.intact /\ e.prev = HashBefore(tail, e.seq, b.last)
  <2>1. e \in events /\ e.seq \in Nat /\ After(b) <= e.seq /\ e.seq <= (next - 1) + 1 /\ next - 1 \in Int
    BY <1>1, <1>2 DEF Past
  <2> HIDE DEF tail
  <2>2. HashBefore(tail, e.seq, b.last) = IF e.seq = After(b) THEN b.last ELSE e.seq - 1
    BY <1>1, <1>3, <2>1, HashBeforeIn
  <2>3. e.prev = IF e.seq = origin THEN 0 ELSE e.seq - 1
    BY <2>1 DEF Linked
  <2>4. e.prev = IF e.seq = After(b) THEN b.last ELSE e.seq - 1
    BY <1>1, <2>1, <2>3 DEF After
  <2> QED
    BY <2>1, <2>2, <2>4 DEF Intact
<1> QED
  BY <1>4 DEF TailHolds

\* The newest anchor is a point of the chain, and so is the start of the log.
LEMMA LastAnchorHolds ==
  ASSUME IInv
  PROVE  /\ AnchorsHold(anchors)
         /\ LastAnchor \in [end : Seqs, last : Seqs]
         /\ LastAnchor.end \in Nat /\ LastAnchor.last = LastAnchor.end
         /\ LastAnchor.end = 0 \/ (origin <= LastAnchor.end /\ LastAnchor.end < next)
         /\ After(LastAnchor)..(next - 1) \subseteq SeqsOf(events)
<1> USE DEF IInv
<1>1. AnchorsHold(anchors)
  BY DEF AnchorsHold, Tiled
<1>2. LastAnchor.end = LastEnd(anchors) /\ LastAnchor.last = LastHash(anchors)
  BY DEF LastAnchor
<1>3. CASE anchors = <<>>
  <2>1. LastEnd(anchors) = 0 /\ LastHash(anchors) = 0 /\ 0 \in Seqs
    BY <1>3, AuditAssumption DEF LastEnd, LastHash, Seqs
  <2>2. After(LastAnchor) = Edge
    BY <1>2, <1>3, <2>1 DEF After, Edge
  <2> QED
    BY <1>1, <1>2, <2>1, <2>2 DEF Newest, LastAnchor
<1>4. CASE anchors # <<>>
  <2> DEFINE a == anchors[Len(anchors)]
  <2>1. Len(anchors) \in DOMAIN anchors /\ a \in Anchor
    BY <1>4 DEF TypeOK
  <2>2. LastEnd(anchors) = a.end /\ LastHash(anchors) = a.last
    BY <1>4 DEF LastEnd, LastHash
  <2>3. /\ a.end \in Seqs /\ a.last = a.end /\ a.end \in Nat /\ a.start \in Nat
        /\ origin <= a.start /\ a.start <= a.end /\ a.end < Edge
    BY <2>1, AuditAssumption DEF Anchor, Seqs, Tiled
  <2>4. Edge = a.end + 1 /\ Edge <= next /\ origin \in Nat /\ 0 < origin /\ next \in Nat
    BY <1>4, <2>2 DEF Edge, Tiled, TypeOK
  <2> HIDE DEF a
  <2>5. origin <= a.end /\ a.end < next /\ a.end # 0
    BY <2>3, <2>4
  <2>6. After(LastAnchor) = Edge
    BY <1>2, <2>2, <2>4, <2>5 DEF After
  <2> QED
    BY <1>1, <1>2, <2>2, <2>3, <2>5, <2>6 DEF Newest, LastAnchor
<1> QED
  BY <1>3, <1>4

LEMMA VerifyAnchorsKeeps == IInv /\ VerifyAnchors => IInv'
<1> SUFFICES ASSUME IInv, VerifyAnchors PROVE IInv'
  OBVIOUS
<1>1. /\ base' = LastAnchor /\ verdict' = "none" /\ moved' = FALSE
      /\ UNCHANGED <<events, anchors, next, origin, emptied>>
  BY LastAnchorHolds DEF VerifyAnchors, log
<1>2. TypeOK'
  BY <1>1, LastAnchorHolds DEF IInv, TypeOK
<1>3. Edge' = Edge
  BY <1>1 DEF Edge
<1>4. Tiled' /\ Newest' /\ Linked'
  BY <1>1, <1>3 DEF IInv, Tiled, Newest, Linked
<1>5. BaseHolds'
  <2>1. After(base)' = After(LastAnchor)
    BY <1>1 DEF After
  <2> QED
    BY <1>1, <2>1, LastAnchorHolds DEF BaseHolds
<1> QED
  BY <1>1, <1>2, <1>4, <1>5 DEF IInv, NoFalseAlarm

LEMMA VerifyEventsKeeps == IInv /\ VerifyEvents => IInv'
<1> SUFFICES ASSUME IInv, VerifyEvents PROVE IInv'
  OBVIOUS
<1>1. /\ base # NoBase /\ base' = NoBase
      /\ verdict' = IF TailHolds(events, base) THEN "ok" ELSE "broken"
      /\ UNCHANGED <<events, anchors, next, origin, moved, emptied>>
  BY DEF VerifyEvents, log
<1>2. TypeOK'
  BY <1>1 DEF IInv, TypeOK
<1>3. Edge' = Edge
  BY <1>1 DEF Edge
<1>4. Tiled' /\ Newest' /\ Linked'
  BY <1>1, <1>3 DEF IInv, Tiled, Newest, Linked
<1>5. NoFalseAlarm'
  <2>1. ASSUME ~moved, ~emptied, Intact
        PROVE  TailHolds(events, base)
    <3>1. base.end \in Nat
      BY <1>1, AuditAssumption DEF IInv, TypeOK, Seqs
    <3>2. /\ base.last = base.end
          /\ base.end = 0 \/ (origin <= base.end /\ base.end < next)
          /\ After(base)..(next - 1) \subseteq SeqsOf(events)
      BY <1>1, <2>1 DEF IInv, BaseHolds
    <3> QED
      BY <2>1, <3>1, <3>2, TailContinues
  <2> QED
    BY <1>1, <2>1 DEF NoFalseAlarm, Intact
<1> QED
  BY <1>1, <1>2, <1>4, <1>5 DEF IInv, BaseHolds

LEMMA DamageKeeps ==
  ASSUME IInv, NEW e \in events, DamageEvent(e)
  PROVE  IInv'
<1> DEFINE d == [e EXCEPT !.intact = FALSE]
<1>1. /\ events' = (events \ {e}) \union {d}
      /\ UNCHANGED <<anchors, next, base, verdict, origin, moved, emptied>>
  BY DEF DamageEvent
<1>2. e \in Event /\ d \in Event /\ d.seq = e.seq /\ d.prev = e.prev /\ d.intact = FALSE
  BY DEF IInv, TypeOK, Event
<1> HIDE DEF d
<1>3. SeqsOf(events') = SeqsOf(events)
  BY <1>1, <1>2 DEF SeqsOf
<1>4. Edge' = Edge
  BY <1>1 DEF Edge
<1>5. TypeOK'
  BY <1>1, <1>2 DEF IInv, TypeOK
<1>6. Tiled' /\ Linked'
  BY <1>1, <1>2, <1>4 DEF IInv, Tiled, Linked
<1>7. Newest'
  BY <1>1, <1>2, <1>3, <1>4 DEF IInv, Newest
<1>8. BaseHolds'
  <2>1. After(base)' = After(base)
    BY <1>1 DEF After
  <2> QED
    BY <1>1, <1>3, <2>1 DEF IInv, BaseHolds
<1>9. NoFalseAlarm'
  BY <1>1, <1>2 DEF NoFalseAlarm, Intact
<1> QED
  BY <1>5, <1>6, <1>7, <1>8, <1>9 DEF IInv

LEMMA NextIInv == IInv /\ [Next]_vars => IInv'
<1> SUFFICES ASSUME IInv, [Next]_vars PROVE IInv'
  OBVIOUS
<1>1. CASE AppendAudit
  BY <1>1, AppendKeeps
<1>2. CASE \E n \in 0..(MaxSeq + 1 - next) : ReplaceState(n)
  BY <1>2, ReplaceKeeps
<1>3. CASE \E expired \in SUBSET DOMAIN anchors, cap \in Caps : PruneAudits(expired, cap)
  BY <1>3, PruneKeeps
<1>4. CASE VerifyAnchors
  BY <1>4, VerifyAnchorsKeeps
<1>5. CASE VerifyEvents
  BY <1>5, VerifyEventsKeeps
<1>6. CASE \E e \in events : DamageEvent(e)
  BY <1>6, DamageKeeps
<1>7. CASE UNCHANGED vars
  <2>1. UNCHANGED <<events, anchors, next, base, verdict, origin, moved, emptied>>
    BY <1>7 DEF vars
  <2>2. Edge' = Edge /\ After(base)' = After(base)
    BY <2>1 DEF Edge, After
  <2> QED
    BY <2>1, <2>2 DEF IInv, TypeOK, Tiled, Newest, Linked, BaseHolds, NoFalseAlarm, Intact
<1> QED
  BY <1>1, <1>2, <1>3, <1>4, <1>5, <1>6, <1>7 DEF Next

-----------------------------------------------------------------------------
(* What the audit log promises.                                               *)

\* In every reachable state the anchors tile the sealed part of the log, the
\* rows are its newest part, and each names the one before it.
THEOREM ChainInvariant == Spec => []IInv
  BY InitIInv, NextIInv, PTL DEF Spec

\* Every reachable log, with its anchors and its verifier, is well typed.
THEOREM TypeCorrect == Spec => []TypeOK
<1>1. IInv => TypeOK
  BY DEF IInv
<1> QED
  BY <1>1, ChainInvariant, PTL

\* However appends, prunes, restores and verifications follow each other, an
\* undamaged log of which a prune has left a row verifies (VerifyAuditChain).
THEOREM LogVerifies == Spec => []Verifiable
<1>1. IInv => Verifiable
  <2> SUFFICES ASSUME IInv, Intact, ~emptied PROVE Verifies
    BY DEF Verifiable
  <2> QED
    BY LastAnchorHolds, TailContinues DEF Verifies
<1> QED
  BY <1>1, ChainInvariant, PTL

\* Events and anchors appended between the two queries of VerifyAuditChain do
\* not make it report a break.
THEOREM AppendsRaiseNoAlarm == Spec => []NoFalseAlarm
<1>1. IInv => NoFalseAlarm
  BY DEF IInv
<1> QED
  BY <1>1, ChainInvariant, PTL

\* Retention (PruneAudits) leaves no gap: what is gone lies in the span of
\* exactly one anchor, and it is the oldest part of the log.
THEOREM NothingUncovered == Spec => []Covered
<1>1. IInv => Covered
  <2> SUFFICES ASSUME IInv, NEW n \in origin..(next - 1), n \notin SeqsOf(events)
               PROVE  /\ Cardinality({k \in DOMAIN anchors : anchors[k].start <= n /\ n <= anchors[k].end}) = 1
                      /\ \A e \in events : e.seq > n
    BY DEF Covered
  <2> USE DEF IInv
  <2>1. /\ n \in Int /\ Edge \in Int /\ next \in Nat /\ origin \in Nat
        /\ \A e \in events : e.seq \in Nat
    BY Unsealed DEF TypeOK, Event, Seqs
  <2>2. n \in origin..(Edge - 1)
    BY <2>1 DEF Newest
  <2>3. PICK k \in DOMAIN anchors : anchors[k].start <= n /\ n <= anchors[k].end
    BY <2>2 DEF Tiled
  <2>4. \A j \in DOMAIN anchors : j \in Nat /\ anchors[j].start \in Nat /\ anchors[j].end \in Nat
    <3>1. \A j \in DOMAIN anchors : j \in Nat /\ anchors[j] \in Anchor
      BY DEF TypeOK
    <3> QED
      BY <3>1, AuditAssumption DEF Anchor, Seqs
  <2>5. ASSUME NEW j \in DOMAIN anchors, anchors[j].start <= n, n <= anchors[j].end
        PROVE  j = k
    <3>1. CASE j < k
      <4>1. anchors[j].end < anchors[k].start
        BY <3>1 DEF Tiled
      <4> QED
        BY <2>1, <2>3, <2>4, <2>5, <4>1
    <3>2. CASE k < j
      <4>1. anchors[k].end < anchors[j].start
        BY <3>2 DEF Tiled
      <4> QED
        BY <2>1, <2>3, <2>4, <2>5, <4>1
    <3> QED
      BY <2>4, <3>1, <3>2
  <2>6. {j \in DOMAIN anchors : anchors[j].start <= n /\ n <= anchors[j].end} = {k}
    BY <2>3, <2>5
  <2>7. Cardinality({k}) = 1
    BY FS_Singleton
  <2>8. \A e \in events : e.seq > n
    BY <2>1 DEF Newest
  <2> QED
    BY <2>6, <2>7, <2>8
<1> QED
  BY <1>1, ChainInvariant, PTL

\* Whatever was pruned or restored, less than a segment of the log is ever
\* unsealed (maybeAnchorTx, rebuildAuditAnchorsTx).
THEOREM TailStaysShort == Spec => []TailShort
<1>1. IInv => TailShort
  <2> SUFFICES ASSUME IInv PROVE TailShort
    OBVIOUS
  <2> DEFINE tail == Past(events, LastEnd(anchors))
             nums == Edge..(next - 1)
             f == [e \in tail |-> e.seq]
  <2>1. Edge \in Int /\ next \in Nat /\ Edge <= next /\ next < Edge + Every /\ Every \in Nat
    BY Unsealed, AuditAssumption DEF IInv, TypeOK, Tiled
  <2>2. IsFiniteSet(nums) /\ Cardinality(nums) = next - Edge
    <3>1. next - 1 \in Int
      BY <2>1
    <3>2. IsFiniteSet(nums) /\ Cardinality(nums) = IF Edge > next - 1 THEN 0 ELSE (next - 1) - Edge + 1
      BY <2>1, <3>1, FS_Interval
    <3> QED
      BY <2>1, <3>2
  <2>3. f \in Injection(tail, nums)
    <3>1. \A e \in tail : e \in events /\ e.seq \in nums
      BY Unsealed DEF SeqsOf, Past
    <3>2. \A e, g \in tail : e.seq = g.seq => e = g
      BY <3>1 DEF IInv, Newest
    <3> QED
      BY <3>1, <3>2 DEF Injection, IsInjective
  <2> HIDE DEF f, tail, nums
  <2>4. IsFiniteSet(tail) /\ Cardinality(tail) <= Cardinality(nums)
    BY <2>2, <2>3, FS_Injection
  <2>5. Cardinality(tail) \in Nat
    BY <2>4, FS_CardinalityType
  <2> QED
    BY <2>1, <2>2, <2>4, <2>5 DEF TailShort, tail
<1> QED
  BY <1>1, ChainInvariant, PTL

==============================================================================
