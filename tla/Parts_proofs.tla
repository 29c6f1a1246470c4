---------------------------- MODULE Parts_proofs ----------------------------
(***************************************************************************)
(* Proofs about the parts of the server that share no state: AccessKey,    *)
(* AuthLimiter, MediaTickets, BackupStream, Retention and Peers, which     *)
(* MCServer checks one beside the other, and PadEditing, which has runs of *)
(* its own; each for every value of its constants.  A part is an instance, *)
(* under the name it has in MCServer, over constants and variables of its  *)
(* own: Key!Spec is the specification of AccessKey.  Server_proofs takes   *)
(* the theorems over to MCServer.                                          *)
(***************************************************************************)
EXTENDS Naturals, Integers, Sequences, SequenceTheorems, FiniteSetTheorems, TLAPS

CONSTANTS
  Keys, NoKey, Token, Bare, Workers, KeyTTL,  \* AccessKey
  Ips, PerIP, Global, Free, MaxSteps, LimitWindow, MaxLimited, LimitPeriod,  \* AuthLimiter
  Tickets, TicketTTL, CountedPeriod, MaxCounted, MaxTime,  \* MediaTickets
  Clients, Calls, Edits, MaxVersion, MaxQueue, MaxRestores,  \* PadEditing
  ChunkSize, MaxUnits, MaxDamage,  \* BackupStream
  Objects, Period, TrashPeriod, LinkPeriod, MaxSecond, Engines,  \* Retention
  Nodes, Ahead, ReplayWindow, Life, EvictPeriod  \* Peers

VARIABLES
  current, token, mu, cache, keyPc, keyReq, keyLate, since,  \* AccessKey
  doing, requestIP, requestTotal, auth, sweepIn, guesses, began, rests,  \* AuthLimiter
  ticketNow, ticketExpires, counted, countedSweep, ticketPc, ticketReq, downloads,  \* MediaTickets
  served, missed, ticketLate,
  text, version, live, epoch, backup, used, calls, known, editor, dirty, blocked,  \* PadEditing
  list, timer, chain, call, astray,
  format, accepted, buf, index, writer, file, damage, pos, next, out, result,  \* BackupStream
  rowNow, state, rowExpires, touched, pinned, deleted, link, made, engine, probed,  \* Retention
  sweep,
  up, absent, net, peers, evictIn  \* Peers

Key == INSTANCE AccessKey WITH
  TTL <- KeyTTL, pc <- keyPc, req <- keyReq, late <- keyLate
Limit == INSTANCE AuthLimiter WITH
  Window <- LimitWindow, MaxEntries <- MaxLimited, Period <- LimitPeriod
Ticket == INSTANCE MediaTickets WITH
  TTL <- TicketTTL, Period <- CountedPeriod, MaxEntries <- MaxCounted, now <- ticketNow,
  expires <- ticketExpires, pc <- ticketPc, req <- ticketReq, late <- ticketLate
Pad == INSTANCE PadEditing
Stream == INSTANCE BackupStream
Row == INSTANCE Retention WITH
  now <- rowNow, expires <- rowExpires
Peer == INSTANCE Peers WITH
  Window <- ReplayWindow, Period <- EvictPeriod

-----------------------------------------------------------------------------
(* AccessKey: every set of keys and requests, every life of a cache entry.   *)

\* What the constants stand for: credentials of four kinds, all different.
Distinct ==
  /\ NoKey \notin Keys /\ Token \notin Key!Values /\ Bare \notin Key!Values /\ Token # Bare
  /\ KeyTTL \in Nat

LEMMA KeyInitTypeOK == ASSUME Distinct, Key!Init PROVE Key!TypeOK
<1>1. Key!NoRequest \in Key!Request
  BY DEF Distinct, Key!NoRequest, Key!Request, Key!Shown, Key!Values
<1>2. 0 \in 0..KeyTTL
  BY DEF Distinct
<1> HIDE DEF Key!Request
<1> QED
  BY <1>1, <1>2 DEF Key!Init, Key!TypeOK, Key!Values, Key!Steps

\* The fields of a request stay in their types.
LEMMA KeyRequestTypes ==
  ASSUME Distinct, NEW r \in Key!Request
  PROVE  /\ Key!NoRequest \in Key!Request
         /\ [r EXCEPT !.read = NoKey, !.age = 0] \in Key!Request
         /\ \A c \in Key!Shown,
            v \in Key!Values : [r EXCEPT !.shown = c, !.seen = {v}] \in Key!Request
         /\ \A v \in Key!Values : [r EXCEPT !.read = v] \in Key!Request
         /\ \A k \in Key!Values \union {Token} : [Key!NoRequest EXCEPT !.new = k] \in Key!Request
         /\ \A v \in Key!Values : [r EXCEPT !.seen = @ \union {v}] \in Key!Request
         /\ r.age < KeyTTL => [r EXCEPT !.age = @ + 1] \in Key!Request
<1>0. NoKey \in Key!Values /\ Bare \in Key!Shown /\ 0 \in 0..KeyTTL
  BY DEF Key!Values, Key!Shown, Distinct
<1>1. Key!NoRequest \in Key!Request
  BY <1>0 DEF Key!NoRequest, Key!Request
<1>2. [r EXCEPT !.read = NoKey, !.age = 0] \in Key!Request
  BY <1>0 DEF Key!Request
<1>3. ASSUME NEW c \in Key!Shown, NEW v \in Key!Values
      PROVE  [r EXCEPT !.shown = c, !.seen = {v}] \in Key!Request
  BY DEF Key!Request
<1>4. ASSUME NEW v \in Key!Values PROVE [r EXCEPT !.read = v] \in Key!Request
  BY DEF Key!Request
<1>5. ASSUME NEW k \in Key!Values \union {Token}
    PROVE [Key!NoRequest EXCEPT !.new = k] \in Key!Request
  BY <1>1 DEF Key!Request
<1>6. ASSUME NEW v \in Key!Values PROVE [r EXCEPT !.seen = @ \union {v}] \in Key!Request
  BY DEF Key!Request
<1>7. ASSUME r.age < KeyTTL PROVE [r EXCEPT !.age = @ + 1] \in Key!Request
  <2>1. r.age + 1 \in 0..KeyTTL
    BY <1>7 DEF Key!Request, Distinct
  <2> QED
    BY <2>1 DEF Key!Request
<1> QED
  BY <1>1, <1>2, <1>3, <1>4, <1>5, <1>6, <1>7

LEMMA ReturnTypes ==
  ASSUME Distinct, Key!TypeOK, NEW w \in Workers, Key!Return(w) \/ Key!LetIn(w)
  PROVE  keyPc' \in [Workers -> Key!Steps] /\ keyReq' \in [Workers -> Key!Request]
<1>1. keyPc' \in [Workers -> Key!Steps]
  BY DEF Key!TypeOK, Key!Return, Key!LetIn, Key!Goto, Key!Steps
<1>2. [keyReq[w] EXCEPT !.read = NoKey, !.age = 0] \in Key!Request /\
      Key!NoRequest \in Key!Request
  BY KeyRequestTypes DEF Key!TypeOK
<1> HIDE DEF Key!Request
<1>3. keyReq' \in [Workers -> Key!Request]
  BY <1>2 DEF Key!TypeOK, Key!Return, Key!LetIn
<1> QED
  BY <1>1, <1>3

LEMMA KeyNextTypeOK == ASSUME Distinct, Key!TypeOK, [Key!Next]_Key!vars PROVE Key!TypeOK'
<1> USE DEF Key!Goto, Key!Steps, Key!Checking, Key!At
<1>a. current \in Key!Values /\ 0 \in 0..KeyTTL
  BY DEF Key!TypeOK, Distinct
<1>1. ASSUME NEW w \in Workers, NEW c \in Key!Shown, Key!Arrive(w, c) PROVE Key!TypeOK'
  <2>1. [keyReq[w] EXCEPT !.shown = c, !.seen = {current}] \in Key!Request
    BY <1>a, KeyRequestTypes DEF Key!TypeOK
  <2> QED
    BY <1>1, <2>1 DEF Key!TypeOK, Key!Arrive
<1>2. ASSUME NEW w \in Workers, Key!HasKey(w) PROVE Key!TypeOK'
  BY <1>2 DEF Key!TypeOK, Key!HasKey
<1>3. ASSUME NEW w \in Workers, Key!CheckToken(w) PROVE Key!TypeOK'
  <2>1. keyPc' \in [Workers -> Key!Steps] /\ keyReq' \in [Workers -> Key!Request]
    BY <1>3, ReturnTypes DEF Key!CheckToken
  <2> QED
    BY <1>3, <2>1 DEF Key!TypeOK, Key!CheckToken
<1>4. ASSUME NEW w \in Workers, Key!ReadKey(w) PROVE Key!TypeOK'
  <2>1. keyPc' \in [Workers -> Key!Steps] /\ keyReq' \in [Workers -> Key!Request]
    <3>1. CASE current # NoKey
      <4>1. [keyReq[w] EXCEPT !.read = current] \in Key!Request
        BY <1>a, KeyRequestTypes DEF Key!TypeOK
      <4> QED
        BY <1>4, <3>1, <4>1 DEF Key!TypeOK, Key!ReadKey
    <3>2. CASE current = NoKey
      BY <1>4, <3>2, ReturnTypes DEF Key!ReadKey
    <3> QED
      BY <3>1, <3>2
  <2> QED
    BY <1>4, <2>1 DEF Key!TypeOK, Key!ReadKey
<1>5. ASSUME NEW w \in Workers, Key!Lookup(w) PROVE Key!TypeOK'
  <2>1. keyPc' \in [Workers -> Key!Steps] /\ keyReq' \in [Workers -> Key!Request]
    <3>1. CASE Key!LetIn(w)
      BY <3>1, ReturnTypes
    <3>2. CASE ~Key!LetIn(w)
      BY <1>5, <3>2 DEF Key!TypeOK, Key!Lookup, Key!LookUp
    <3> QED
      BY <3>1, <3>2
  <2> QED
    BY <1>a, <1>5, <2>1 DEF Key!TypeOK, Key!Lookup, Key!LookUp
<1>6. ASSUME NEW w \in Workers, Key!Derive(w) PROVE Key!TypeOK'
  <2>1. keyPc' \in [Workers -> Key!Steps] /\ keyReq' \in [Workers -> Key!Request]
    BY <1>6, ReturnTypes DEF Key!Derive
  <2>2. KeyTTL - keyReq[w].age \in 0..KeyTTL
    BY DEF Key!TypeOK, Key!Request, Distinct
  <2>3. cache' \in [Keys -> 0..KeyTTL]
    BY <1>6, <2>2 DEF Key!TypeOK, Key!Derive
  <2> QED
    BY <1>6, <2>1, <2>3 DEF Key!TypeOK, Key!Derive
<1>7. ASSUME NEW w \in Workers, Key!Leave(w) PROVE Key!TypeOK'
  <2>1. keyPc' \in [Workers -> Key!Steps] /\ keyReq' \in [Workers -> Key!Request]
    BY <1>7, ReturnTypes DEF Key!Leave
  <2> QED
    BY <1>7, <2>1 DEF Key!TypeOK, Key!Leave
<1>8. ASSUME NEW w \in Workers, NEW k \in Key!Values \union {Token}, Key!Propose(w, k)
    PROVE Key!TypeOK'
  <2>1. [Key!NoRequest EXCEPT !.new = k] \in Key!Request
    BY KeyRequestTypes DEF Key!TypeOK
  <2> QED
    BY <1>8, <2>1 DEF Key!TypeOK, Key!Propose
<1>9. ASSUME NEW w \in Workers, Key!Publish(w) PROVE Key!TypeOK'
  <2>1. current' \in Key!Values
    BY <1>9 DEF Key!TypeOK, Key!Publish, Key!Request
  <2>2. \A v \in Workers : [keyReq[v] EXCEPT !.seen = @ \union {current'}] \in Key!Request
                           /\ Key!NoRequest \in Key!Request
    BY <2>1, KeyRequestTypes DEF Key!TypeOK
  <2>3. keyReq' \in [Workers -> Key!Request]
    BY <1>9, <2>2 DEF Key!TypeOK, Key!Publish
  <2> QED
    BY <1>a, <1>9, <2>1, <2>3 DEF Key!TypeOK, Key!Publish
<1>10. ASSUME NEW w \in Workers, Key!PublishFails(w) PROVE Key!TypeOK'
  <2>1. keyPc' \in [Workers -> Key!Steps] /\ keyReq' \in [Workers -> Key!Request]
    BY <1>10, ReturnTypes DEF Key!PublishFails
  <2> QED
    BY <1>10, <2>1 DEF Key!TypeOK, Key!PublishFails
<1>11. ASSUME NEW w \in Workers, Key!ClearCache(w) PROVE Key!TypeOK'
  BY <1>a, <1>11 DEF Key!TypeOK, Key!ClearCache
<1>12. ASSUME NEW w \in Workers, Key!FinishInitialization(w) PROVE Key!TypeOK'
  <2>1. keyPc' \in [Workers -> Key!Steps] /\ keyReq' \in [Workers -> Key!Request]
    BY <1>12, ReturnTypes DEF Key!FinishInitialization
  <2> QED
    BY <1>12, <2>1 DEF Key!TypeOK, Key!FinishInitialization
<1>13. CASE Key!Tick
  <2>1. cache' \in [Keys -> 0..KeyTTL] /\ since' \in [Keys -> 0..KeyTTL]
    BY <1>a, <1>13 DEF Key!TypeOK, Key!Tick, Distinct
  <2>2. \A w \in Workers : keyReq[w].age < KeyTTL =>
        [keyReq[w] EXCEPT !.age = @ + 1] \in Key!Request
    BY KeyRequestTypes DEF Key!TypeOK
  <2>3. keyReq' \in [Workers -> Key!Request]
    BY <1>13, <2>2 DEF Key!TypeOK, Key!Tick
  <2> QED
    BY <1>13, <2>1, <2>3 DEF Key!TypeOK, Key!Tick
<1>14. CASE Key!Restart
  <2>1. Key!NoRequest \in Key!Request
    BY DEF Distinct, Key!NoRequest, Key!Request, Key!Shown, Key!Values
  <2> QED
    BY <1>a, <1>14, <2>1 DEF Key!TypeOK, Key!Restart
<1>15. CASE UNCHANGED Key!vars
  BY <1>15 DEF Key!TypeOK, Key!vars
<1> QED
  BY <1>1, <1>2, <1>3, <1>4, <1>5, <1>6, <1>7, <1>8, <1>9, <1>10, <1>11, <1>12, <1>13, <1>14,
     <1>15 DEF Key!Next, Key!Check, Key!Update

\* Every reachable state is well typed.
THEOREM KeyTypeCorrect == ASSUME Distinct PROVE Key!Spec => []Key!TypeOK
<1>1. Key!Init => Key!TypeOK
  BY KeyInitTypeOK
<1>2. Key!TypeOK /\ [Key!Next]_Key!vars => Key!TypeOK'
  BY KeyNextTypeOK
<1> QED
  BY <1>1, <1>2, PTL DEF Key!Spec

-----------------------------------------------------------------------------
(* A replaced key leaves the cache in time.  A derivation that will put a  *)
(* replaced key back has taken its `now` before the last lookup of it.     *)

Young ==
  \A w \in Workers, k \in Keys :
    k # current /\ Key!At(w, "derive") /\ Key!CheckOf(w, k) => since[k] <= keyReq[w].age

Bounded == Key!StaleKeyBounded /\ Young

\* A step that moves no clock and no key, and brings no request to a derivation.
LEMMA QuietBounded ==
  ASSUME Bounded, UNCHANGED <<current, cache, since>>,
         \A v \in Workers : keyPc'[v] = "derive" => keyPc[v] = "derive" /\ keyReq'[v] = keyReq[v]
  PROVE  Bounded'
BY DEF Bounded, Key!StaleKeyBounded, Young, Key!At, Key!CheckOf

LEMMA LookupBounded ==
  ASSUME Distinct, Key!TypeOK, Bounded, NEW w \in Workers, Key!Lookup(w) PROVE Bounded'
<1>1. \A k \in Keys : \/ since'[k] = since[k]
                      \/ since'[k] = 0
  BY DEF Key!Lookup, Key!LookUp
<1>2. \A k \in Keys : Key!CheckOf(w, k) => since'[k] = 0
  BY DEF Key!Lookup, Key!LookUp
<1>3. \A k \in Keys : since[k] \in Nat /\ cache[k] \in Nat /\ cache[k] <= KeyTTL
  BY DEF Key!TypeOK, Distinct
<1>4. UNCHANGED <<current, cache>>
  BY DEF Key!Lookup, Key!LookUp
<1>5. \A v \in Workers : keyReq[v].age \in Nat
  BY DEF Key!TypeOK, Key!Request, Distinct
<1>6. \A v \in Workers : keyPc'[v] = "derive" =>
        /\ keyReq'[v] = keyReq[v]
        /\ keyPc[v] = "derive" \/ (v = w /\ keyPc[v] = "lookup")
  BY DEF Key!Lookup, Key!LookUp, Key!LetIn, Key!Goto, Key!At, Key!TypeOK
<1>7. Key!StaleKeyBounded'
  BY <1>1, <1>3, <1>4 DEF Bounded, Key!StaleKeyBounded, Distinct
<1>8. Young'
  <2> SUFFICES ASSUME NEW v \in Workers, NEW k \in Keys,
                      (k # current /\ Key!At(v, "derive") /\ Key!CheckOf(v, k))'
               PROVE  since'[k] <= keyReq'[v].age
    BY DEF Young
  <2>1. keyReq'[v] = keyReq[v] /\ k # current /\ keyReq[v].read = k /\ keyReq[v].shown = k
    BY <1>4, <1>6 DEF Key!At, Key!CheckOf
  <2>2. CASE since'[k] = 0
    BY <2>1, <2>2, <1>5
  <2>3. CASE since'[k] # 0
    <3>1. since'[k] = since[k] /\ ~Key!CheckOf(w, k)
      BY <2>3, <1>1, <1>2
    <3>2. keyPc[v] = "derive"
      BY <2>1, <3>1, <1>6 DEF Key!At, Key!CheckOf
    <3> QED
      BY <2>1, <3>1, <3>2 DEF Bounded, Young, Key!At, Key!CheckOf
  <2> QED
    BY <2>2, <2>3
<1> QED
  BY <1>7, <1>8 DEF Bounded

LEMMA DeriveBounded ==
  ASSUME Distinct, Key!TypeOK, Bounded, NEW w \in Workers, Key!Derive(w) PROVE Bounded'
<1>1. UNCHANGED <<current, since>>
  BY DEF Key!Derive
<1>2. \A v \in Workers : keyPc'[v] = "derive" => keyPc[v] = "derive" /\ keyReq'[v] = keyReq[v]
  BY DEF Key!Derive, Key!LetIn, Key!Return, Key!Goto, Key!TypeOK
<1>3. Young'
  BY <1>1, <1>2 DEF Bounded, Young, Key!At, Key!CheckOf
<1>4. \A k \in Keys : since[k] \in Nat
  BY DEF Key!TypeOK, Distinct
<1>5. Key!StaleKeyBounded'
  <2> SUFFICES ASSUME NEW k \in Keys, k # current', cache'[k] > 0
               PROVE  cache'[k] + since'[k] <= KeyTTL
    BY DEF Key!StaleKeyBounded
  <2>1. CASE cache'[k] = cache[k]
    BY <1>1, <2>1 DEF Bounded, Key!StaleKeyBounded
  <2>2. CASE cache'[k] # cache[k]
    <3>1. k = keyReq[w].shown /\ k = keyReq[w].read /\ cache'[k] = KeyTTL - keyReq[w].age
      BY <2>2 DEF Key!Derive, Key!TypeOK
    <3>2. since[k] <= keyReq[w].age
      BY <1>1, <3>1 DEF Key!Derive, Bounded, Young, Key!At, Key!CheckOf
    <3>3. keyReq[w].age \in Nat /\ KeyTTL \in Nat
      BY DEF Key!TypeOK, Key!Request, Distinct
    <3> QED
      BY <1>1, <1>4, <3>1, <3>2, <3>3
  <2> QED
    BY <2>1, <2>2
<1> QED
  BY <1>3, <1>5 DEF Bounded

LEMMA PublishBounded ==
  ASSUME Distinct, Key!TypeOK, Bounded, NEW w \in Workers, Key!Publish(w) PROVE Bounded'
<1>1. cache' = cache /\ \A k \in Keys : k # current => since'[k] \in {since[k], 0}
  BY DEF Key!Publish
<1>2. \A k \in Keys : k = current => since'[k] = 0
  BY DEF Key!Publish
<1>3. \A k \in Keys : since[k] \in Nat /\ cache[k] \in Nat /\ cache[k] <= KeyTTL
  BY DEF Key!TypeOK, Distinct
<1>4. Key!StaleKeyBounded'
  BY <1>1, <1>2, <1>3 DEF Bounded, Key!StaleKeyBounded, Distinct
<1>5. \A v \in Workers : keyPc'[v] = "derive" =>
        /\ keyPc[v] = "derive"
        /\ keyReq'[v].age = keyReq[v].age /\ keyReq[v].age \in Nat
        /\ keyReq'[v].read = keyReq[v].read /\ keyReq'[v].shown = keyReq[v].shown
  <2>1. \A v \in Workers : keyPc'[v] = "derive" => v # w /\ keyPc[v] = "derive"
    BY DEF Key!Publish, Key!Goto, Key!TypeOK, Key!At
  <2>2. \A v \in Workers : v # w /\ keyPc[v] = "derive" =>
          keyReq'[v] = [keyReq[v] EXCEPT !.seen = @ \union {current'}]
    BY DEF Key!Publish, Key!Checking
  <2>3. \A r \in Key!Request : \A x :
          /\ r.age \in Nat /\ [r EXCEPT !.seen = x].age = r.age
          /\ [r EXCEPT !.seen = x].read = r.read /\ [r EXCEPT !.seen = x].shown = r.shown
    BY DEF Key!Request, Distinct
  <2>4. ASSUME NEW v \in Workers, keyPc'[v] = "derive"
        PROVE  /\ keyReq[v] \in Key!Request
               /\ keyReq'[v] = [keyReq[v] EXCEPT !.seen = keyReq[v].seen \union {current'}]
    BY <2>1, <2>2, <2>4 DEF Key!TypeOK
  <2>5. ASSUME NEW v \in Workers, keyPc'[v] = "derive"
        PROVE  /\ keyPc[v] = "derive"
               /\ keyReq'[v].age = keyReq[v].age /\ keyReq[v].age \in Nat
               /\ keyReq'[v].read = keyReq[v].read /\ keyReq'[v].shown = keyReq[v].shown
    <3>1. keyPc[v] = "derive" /\ keyReq[v] \in Key!Request
      BY <2>1, <2>4, <2>5
    <3>2. keyReq'[v] = [keyReq[v] EXCEPT !.seen = keyReq[v].seen \union {current'}]
      BY <2>4, <2>5
    <3> HIDE DEF Key!Request
    <3> DEFINE s == keyReq[v].seen \union {current'}
    <3>3. keyReq'[v] = [keyReq[v] EXCEPT !.seen = s]
      BY <3>2
    <3> HIDE DEF s
    <3> QED
      BY <2>3, <3>1, <3>3
  <2> QED
    BY <2>5
<1>6. Young'
  <2> SUFFICES ASSUME NEW v \in Workers, NEW k \in Keys,
                      (k # current /\ Key!At(v, "derive") /\ Key!CheckOf(v, k))'
               PROVE  since'[k] <= keyReq'[v].age
    BY DEF Young
  <2>1. keyPc[v] = "derive" /\ keyReq[v].read = k /\ keyReq[v].shown = k
    BY <1>5 DEF Key!At, Key!CheckOf
  <2>2. keyReq'[v].age = keyReq[v].age /\ keyReq[v].age \in Nat
    BY <1>5 DEF Key!At
  <2>3. CASE since'[k] = 0
    BY <2>2, <2>3
  <2>4. CASE since'[k] # 0
    <3>1. k # current /\ since'[k] = since[k]
      BY <2>4, <1>1, <1>2
    <3> QED
      BY <2>1, <2>2, <3>1 DEF Bounded, Young, Key!At, Key!CheckOf
  <2> QED
    BY <2>3, <2>4
<1> QED
  BY <1>4, <1>6 DEF Bounded

LEMMA TickBounded == ASSUME Distinct, Key!TypeOK, Bounded, Key!Tick PROVE Bounded'
<1>1. \A k \in Keys : since[k] \in Nat /\ cache[k] \in Nat /\ since[k] <= KeyTTL
  BY DEF Key!TypeOK, Distinct
<1>2. current' = current /\ keyPc' = keyPc
  BY DEF Key!Tick
<1>3. \A k \in Keys : cache'[k] > 0 => cache[k] > 0 /\ cache'[k] = cache[k] - 1
  BY DEF Key!Tick
<1>4. \A k \in Keys : k # current =>
        since'[k] = IF since[k] < KeyTTL THEN since[k] + 1 ELSE since[k]
  BY DEF Key!Tick
<1>5. Key!StaleKeyBounded'
  BY <1>1, <1>2, <1>3, <1>4 DEF Bounded, Key!StaleKeyBounded, Distinct
<1>6. \A v \in Workers : keyPc[v] = "derive" =>
        /\ keyReq'[v].age = IF keyReq[v].age < KeyTTL THEN keyReq[v].age + 1 ELSE keyReq[v].age
        /\ keyReq'[v].read = keyReq[v].read /\ keyReq'[v].shown = keyReq[v].shown
  BY DEF Key!Tick, Key!At, Key!TypeOK, Key!Request
<1>7. \A v \in Workers : keyReq[v].age \in Nat /\ keyReq[v].age <= KeyTTL
  BY DEF Key!TypeOK, Key!Request, Distinct
<1>8. Young'
  <2> SUFFICES ASSUME NEW v \in Workers, NEW k \in Keys,
                      (k # current /\ Key!At(v, "derive") /\ Key!CheckOf(v, k))'
               PROVE  since'[k] <= keyReq'[v].age
    BY DEF Young
  <2>1. k # current /\ keyPc[v] = "derive" /\ keyReq[v].read = k /\ keyReq[v].shown = k
    BY <1>2, <1>6 DEF Key!At, Key!CheckOf
  <2>2. since[k] <= keyReq[v].age
    BY <2>1 DEF Bounded, Young, Key!At, Key!CheckOf
  <2> QED
    BY <2>1, <2>2, <1>1, <1>4, <1>6, <1>7 DEF Distinct
<1> QED
  BY <1>5, <1>8 DEF Bounded

LEMMA NextBounded == ASSUME Distinct, Key!TypeOK, Bounded, [Key!Next]_Key!vars PROVE Bounded'
<1> DEFINE Still == /\ UNCHANGED <<current, cache, since>>
                    /\ \A v \in Workers : keyPc'[v] = "derive" =>
                         keyPc[v] = "derive" /\ keyReq'[v] = keyReq[v]
<1> USE DEF Key!Goto, Key!At
<1>1. ASSUME NEW w \in Workers, NEW c \in Key!Shown, Key!Arrive(w, c) PROVE Still
  BY <1>1 DEF Key!TypeOK, Key!Arrive
<1>2. ASSUME NEW w \in Workers, Key!HasKey(w) PROVE Still
  BY <1>2 DEF Key!TypeOK, Key!HasKey
<1>3. ASSUME NEW w \in Workers, Key!CheckToken(w) PROVE Still
  BY <1>3 DEF Key!TypeOK, Key!CheckToken, Key!LetIn, Key!Return
<1>4. ASSUME NEW w \in Workers, Key!ReadKey(w) PROVE Still
  BY <1>4 DEF Key!TypeOK, Key!ReadKey, Key!LetIn, Key!Return
<1>5. ASSUME NEW w \in Workers, Key!Leave(w) PROVE Still
  BY <1>5 DEF Key!TypeOK, Key!Leave, Key!Return
<1>6. ASSUME NEW w \in Workers, NEW k \in Key!Values \union {Token}, Key!Propose(w, k) PROVE Still
  BY <1>6 DEF Key!TypeOK, Key!Propose
<1>7. ASSUME NEW w \in Workers, Key!PublishFails(w) PROVE Still
  BY <1>7 DEF Key!TypeOK, Key!PublishFails, Key!Return
<1>8. ASSUME NEW w \in Workers, Key!FinishInitialization(w) PROVE Still
  BY <1>8 DEF Key!TypeOK, Key!FinishInitialization, Key!Return
<1>9. ASSUME UNCHANGED Key!vars PROVE Still
  BY <1>9 DEF Key!vars
<1>10. ASSUME NEW w \in Workers, Key!ClearCache(w) PROVE Bounded'
  BY <1>10 DEF Key!TypeOK, Key!ClearCache, Bounded, Key!StaleKeyBounded, Young, Key!CheckOf
<1>11. CASE Key!Restart
  BY <1>11 DEF Key!Restart, Bounded, Key!StaleKeyBounded, Young, Key!CheckOf
<1> QED
  BY <1>1, <1>2, <1>3, <1>4, <1>5, <1>6, <1>7, <1>8, <1>9, <1>10, <1>11, QuietBounded,
     LookupBounded, DeriveBounded, PublishBounded, TickBounded DEF Key!Next, Key!Check, Key!Update

\* A replaced key leaves the cache no later than TTL after the last check that
\* could take it for the current one has looked it up.
THEOREM StaleKeysLeave == ASSUME Distinct PROVE Key!Spec => []Key!StaleKeyBounded
<1>1. Key!Init => Bounded
  BY DEF Key!Init, Bounded, Key!StaleKeyBounded, Young, Key!At
<1>2. Key!TypeOK /\ Bounded /\ [Key!Next]_Key!vars => Bounded'
  BY NextBounded
<1>3. Bounded => Key!StaleKeyBounded
  BY DEF Bounded
<1> QED
  BY <1>1, <1>2, <1>3, KeyTypeCorrect, PTL DEF Key!Spec

-----------------------------------------------------------------------------
(* Whoever is let in had a reason.  What a check has learnt was true at    *)
(* some time since it began, and so was what the cache tells it.           *)

\* What a request has seen is its reason for the branch it is on.
Witnessed(w) ==
  /\ keyPc[w] \in Key!Checking => current \in keyReq[w].seen
  /\ keyPc[w] = "token" => NoKey \in keyReq[w].seen
  /\ keyPc[w] = "read" => \E x \in keyReq[w].seen : x # NoKey
  /\ keyPc[w] \in {"lookup", "derive"} => keyReq[w].read \in keyReq[w].seen \intersect Keys

Admitted(w) ==
  keyPc[w] = "in" =>
    /\ keyReq[w].shown \in Keys => keyReq[w].shown \in keyReq[w].seen \union keyLate
    /\ keyReq[w].shown = Token => NoKey \in keyReq[w].seen
    /\ keyReq[w].shown = Bare => NoKey \in keyReq[w].seen /\ keyReq[w].seen # {NoKey}

\* A check of a key that was replaced under way is on record.
Recorded == \A w \in Workers, k \in Keys : Key!CheckOf(w, k) => k \in keyLate \union {current}

\* A replaced key is in the cache because such a check has put it there, or
\* because the cache is about to be cleared, and then all that may still look
\* it up began before.
Explained ==
  \A k \in Keys : cache[k] > 0 =>
    \/ k \in keyLate \union {current}
    \/ mu /\ \A w \in Workers : keyPc[w] \in {"lookup", "derive"} => k \in keyReq[w].seen

Reasons ==
  /\ \A w \in Workers : Witnessed(w) /\ Admitted(w)
  /\ Recorded
  /\ Explained

\* A step of request w alone, which may end its check.
LEMMA OwnStep ==
  ASSUME Reasons, NEW w \in Workers,
         UNCHANGED <<current, keyLate>>,
         \A k \in Keys : cache'[k] > 0 => cache[k] > 0 \/ k \in keyLate \union {current},
         mu \in BOOLEAN, mu => mu',
         \A v \in Workers \ {w} : keyPc'[v] = keyPc[v] /\ keyReq'[v] = keyReq[v],
         Witnessed(w)', Admitted(w)',
         \A k \in Keys : Key!CheckOf(w, k)' => k \in keyLate \union {current},
         \A k \in Keys : mu /\ cache[k] > 0 /\ keyPc'[w] \in {"lookup", "derive"}
                            /\ k \notin keyLate \union {current} => k \in keyReq'[w].seen
  PROVE  Reasons'
<1>1. \A v \in Workers : Witnessed(v)' /\ Admitted(v)'
  BY DEF Reasons, Witnessed, Admitted
<1>2. Recorded'
  BY DEF Reasons, Recorded, Key!CheckOf
<1>3. Explained'
  BY DEF Reasons, Explained
<1> QED
  BY <1>1, <1>2, <1>3 DEF Reasons

LEMMA NextReasons == ASSUME Distinct, Key!TypeOK, Reasons, [Key!Next]_Key!vars PROVE Reasons'
<1> USE DEF Key!Goto, Key!At
<1> DEFINE Own(w) ==
       /\ UNCHANGED <<current, keyLate>>
       /\ \A k \in Keys : cache'[k] > 0 => cache[k] > 0 \/ k \in keyLate \union {current}
       /\ mu => mu'
       /\ \A v \in Workers \ {w} : keyPc'[v] = keyPc[v] /\ keyReq'[v] = keyReq[v]
       /\ Witnessed(w)' /\ Admitted(w)'
       /\ \A k \in Keys : Key!CheckOf(w, k)' => k \in keyLate \union {current}
       /\ \A k \in Keys : mu /\ cache[k] > 0 /\ keyPc'[w] \in {"lookup", "derive"}
                            /\ k \notin keyLate \union {current} => k \in keyReq'[w].seen
<1>0. mu \in BOOLEAN /\ \A w \in Workers : Own(w) => Reasons'
  BY OwnStep DEF Key!TypeOK
<1>a. \A w \in Workers : Witnessed(w) /\ Admitted(w)
  BY DEF Reasons
<1>b. Recorded /\ Explained
  BY DEF Reasons
<1>c. \A w \in Workers : keyReq[w] \in Key!Request
  BY DEF Key!TypeOK
<1>d. \A r \in Key!Request : [r EXCEPT !.read = NoKey, !.age = 0].seen = r.seen
                        /\ [r EXCEPT !.read = NoKey, !.age = 0].shown = r.shown
  BY DEF Key!Request
<1>1. ASSUME NEW w \in Workers, NEW c \in Key!Shown, Key!Arrive(w, c) PROVE Own(w)
  <2>1. keyPc'[w] = "has" /\ keyReq'[w].seen = {current}
    BY <1>1, <1>c DEF Key!Arrive, Key!TypeOK, Key!Request
  <2> QED
    BY <1>1, <2>1 DEF Key!Arrive, Key!TypeOK, Witnessed, Admitted, Key!CheckOf, Key!Checking
<1>2. ASSUME NEW w \in Workers, Key!HasKey(w) PROVE Own(w)
  BY <1>2, <1>a DEF Key!HasKey, Key!TypeOK, Witnessed, Admitted, Key!CheckOf, Key!Checking
<1>i. ASSUME NEW w \in Workers, Key!LetIn(w), UNCHANGED <<current, keyLate, mu>>,
             \A k \in Keys : cache'[k] > 0 => cache[k] > 0 \/ k \in keyLate \union {current},
             keyReq[w].shown \in Keys => keyReq[w].shown \in keyReq[w].seen \union keyLate,
             keyReq[w].shown = Token => NoKey \in keyReq[w].seen,
             keyReq[w].shown = Bare => NoKey \in keyReq[w].seen /\ keyReq[w].seen # {NoKey}
      PROVE  Own(w)
  <2>1. keyPc'[w] = "in" /\ keyReq'[w].seen = keyReq[w].seen /\ keyReq'[w].shown = keyReq[w].shown
    BY <1>i, <1>c, <1>d DEF Key!LetIn, Key!TypeOK
  <2>2. \A v \in Workers \ {w} : keyPc'[v] = keyPc[v] /\ keyReq'[v] = keyReq[v]
    BY <1>i DEF Key!LetIn, Key!TypeOK
  <2> QED
    BY <1>i, <2>1, <2>2 DEF Witnessed, Admitted, Key!CheckOf, Key!Checking
<1>o. ASSUME NEW w \in Workers, Key!Return(w), UNCHANGED <<current, keyLate, mu, cache>>
      PROVE  Own(w)
  <2>1. keyPc'[w] = "idle"
    BY <1>o DEF Key!Return, Key!TypeOK
  <2>2. \A v \in Workers \ {w} : keyPc'[v] = keyPc[v] /\ keyReq'[v] = keyReq[v]
    BY <1>o DEF Key!Return, Key!TypeOK
  <2> QED
    BY <1>o, <2>1, <2>2 DEF Witnessed, Admitted, Key!CheckOf, Key!Checking
<1>3. ASSUME NEW w \in Workers, Key!CheckToken(w) PROVE Own(w)
  <2>1. CASE keyReq[w].shown = Token /\ token
    <3>1. Token \notin Keys /\ Token # Bare /\ NoKey \in keyReq[w].seen
      BY <1>3, <1>a DEF Key!CheckToken, Witnessed, Distinct, Key!Values
    <3> QED
      BY <1>3, <2>1, <3>1, <1>i DEF Key!CheckToken
  <2>2. CASE ~(keyReq[w].shown = Token /\ token)
    BY <1>3, <2>2, <1>o DEF Key!CheckToken
  <2> QED
    BY <2>1, <2>2
<1>4. ASSUME NEW w \in Workers, Key!ReadKey(w) PROVE Own(w)
  <2>1. current \in keyReq[w].seen /\ \E x \in keyReq[w].seen : x # NoKey
    BY <1>4, <1>a DEF Key!ReadKey, Witnessed, Key!Checking
  <2>2. CASE current # NoKey
    <3>1. keyPc'[w] = "lookup" /\ keyReq'[w] = [keyReq[w] EXCEPT !.read = current]
      BY <1>4, <2>2 DEF Key!ReadKey, Key!TypeOK
    <3>2. keyReq'[w].seen = keyReq[w].seen /\ keyReq'[w].read = current
      BY <3>1, <1>c DEF Key!Request
    <3>3. current \in Keys
      BY <2>2 DEF Key!TypeOK, Key!Values
    <3>4. UNCHANGED <<current, keyLate, cache, mu>> /\ ~mu
      BY <1>4 DEF Key!ReadKey
    <3>5. \A v \in Workers \ {w} : keyPc'[v] = keyPc[v] /\ keyReq'[v] = keyReq[v]
      BY <1>4, <2>2 DEF Key!ReadKey, Key!TypeOK
    <3> QED
      BY <2>1, <3>1, <3>2, <3>3, <3>4, <3>5 DEF Witnessed, Admitted, Key!CheckOf, Key!Checking
  <2>3. CASE current = NoKey /\ keyReq[w].shown \in Keys
    BY <1>4, <2>3, <1>o DEF Key!ReadKey
  <2>4. CASE current = NoKey /\ keyReq[w].shown \notin Keys
    BY <1>4, <2>1, <2>4, <1>i DEF Key!ReadKey
  <2> QED
    BY <2>2, <2>3, <2>4
<1>5. ASSUME NEW w \in Workers, Key!Lookup(w) PROVE Own(w)
  <2>1. /\ keyPc[w] = "lookup" /\ current \in keyReq[w].seen
        /\ keyReq[w].read \in keyReq[w].seen /\ keyReq[w].read \in Keys
    BY <1>5, <1>a DEF Key!Lookup, Key!LookUp, Witnessed, Key!Checking
  <2>2. \A k \in Keys : cache[k] > 0 => k \in keyReq[w].seen \union keyLate
    BY <1>b, <2>1 DEF Explained
  <2>3. CASE Key!Cached(keyReq[w].shown)
    <3>1. keyReq[w].shown \in Keys /\ keyReq[w].shown \in keyReq[w].seen \union keyLate
      BY <2>2, <2>3 DEF Key!Cached
    <3>2. keyReq[w].shown # Token /\ keyReq[w].shown # Bare
      BY <3>1 DEF Distinct, Key!Values
    <3> QED
      BY <1>5, <2>3, <3>1, <3>2, <1>i DEF Key!Lookup, Key!LookUp
  <2>4. CASE ~Key!Cached(keyReq[w].shown)
    <3>1. keyPc'[w] = "derive" /\ keyReq' = keyReq /\ UNCHANGED <<current, keyLate, cache, mu>>
      BY <1>5, <2>4 DEF Key!Lookup, Key!LookUp, Key!TypeOK
    <3>2. \A v \in Workers \ {w} : keyPc'[v] = keyPc[v] /\ keyReq'[v] = keyReq[v]
      BY <1>5, <2>4 DEF Key!Lookup, Key!LookUp, Key!TypeOK
    <3>3. \A k \in Keys : Key!CheckOf(w, k)' => Key!CheckOf(w, k)
      BY <2>1, <3>1 DEF Key!CheckOf
    <3>4. \A k \in Keys : Key!CheckOf(w, k)' => k \in keyLate \union {current}
      BY <1>b, <3>3 DEF Recorded
    <3> QED
      BY <2>1, <2>2, <3>1, <3>2, <3>4 DEF Witnessed, Admitted, Key!Checking
  <2> QED
    BY <2>3, <2>4
<1>6. ASSUME NEW w \in Workers, Key!Derive(w) PROVE Own(w)
  <2>1. keyPc[w] = "derive" /\ keyReq[w].read \in keyReq[w].seen /\ keyReq[w].read \in Keys
    BY <1>6, <1>a DEF Key!Derive, Witnessed
  <2>2. CASE keyReq[w].shown = keyReq[w].read
    <3>1. Key!CheckOf(w, keyReq[w].read)
      BY <2>1, <2>2 DEF Key!CheckOf
    <3>2. keyReq[w].read \in keyLate \union {current}
      BY <1>b, <2>1, <3>1 DEF Recorded
    <3>3. \A k \in Keys : cache'[k] > 0 => cache[k] > 0 \/ k \in keyLate \union {current}
      BY <1>6, <2>2, <3>2 DEF Key!Derive, Key!TypeOK
    <3>4. keyReq[w].shown # Token /\ keyReq[w].shown # Bare
      BY <2>1, <2>2 DEF Distinct, Key!Values
    <3> QED
      BY <1>6, <2>1, <2>2, <3>3, <3>4, <1>i DEF Key!Derive
  <2>3. CASE keyReq[w].shown # keyReq[w].read
    BY <1>6, <2>3, <1>o DEF Key!Derive
  <2> QED
    BY <2>2, <2>3
<1>7. ASSUME NEW w \in Workers, Key!Leave(w) PROVE Own(w)
  BY <1>7, <1>o DEF Key!Leave
<1>8. ASSUME NEW w \in Workers, NEW k \in Key!Values \union {Token}, Key!Propose(w, k)
    PROVE Own(w)
  BY <1>8 DEF Key!Propose, Key!TypeOK, Witnessed, Admitted, Key!CheckOf, Key!Checking
<1>9. ASSUME NEW w \in Workers, Key!PublishFails(w) PROVE Own(w)
  BY <1>9, <1>o DEF Key!PublishFails
<1>10. ASSUME NEW w \in Workers, Key!FinishInitialization(w) PROVE Own(w)
  BY <1>10, <1>o DEF Key!FinishInitialization
<1>11. ASSUME NEW w \in Workers, Key!Publish(w) PROVE Reasons'
  <2> DEFINE Added(r) == [r EXCEPT !.seen = r.seen \union {current'}]
  <2>1. \A r \in Key!Request : /\ Added(r).seen = r.seen \union {current'}
                               /\ Added(r).read = r.read /\ Added(r).shown = r.shown
    BY DEF Key!Request
  <2>2. ~mu /\ mu' /\ cache' = cache /\ keyLate \subseteq keyLate' /\ keyPc[w] = "update"
    BY <1>11 DEF Key!Publish
  <2>3. keyPc'[w] = "clear" /\ \A v \in Workers \ {w} : keyPc'[v] = keyPc[v]
    BY <1>11 DEF Key!Publish, Key!TypeOK
  <2>4. \A v \in Workers \ {w} : keyReq'[v] = IF keyPc[v] \in Key!Checking THEN Added(keyReq[v])
        ELSE keyReq[v]
    BY <1>11 DEF Key!Publish
  <2> HIDE DEF Added
  <2>5. \A v \in Workers \ {w} : keyPc[v] \in Key!Checking =>
          /\ keyReq'[v].seen = keyReq[v].seen \union {current'}
          /\ keyReq'[v].read = keyReq[v].read /\ keyReq'[v].shown = keyReq[v].shown
    BY <1>c, <2>1, <2>4
  <2>6. ASSUME NEW v \in Workers PROVE Witnessed(v)' /\ Admitted(v)'
    <3>1. CASE v = w
      BY <2>3, <3>1 DEF Witnessed, Admitted, Key!Checking
    <3>2. CASE v # w /\ keyPc[v] \in Key!Checking
      BY <1>a, <2>3, <2>5, <3>2 DEF Witnessed, Admitted, Key!Checking
    <3>3. CASE v # w /\ keyPc[v] \notin Key!Checking
      BY <1>a, <2>2, <2>3, <2>4, <3>3 DEF Witnessed, Admitted, Key!Checking
    <3> QED
      BY <3>1, <3>2, <3>3
  <2>7. \A v \in Workers, k \in Keys : Key!CheckOf(v, k)' => Key!CheckOf(v, k)
    BY <2>3, <2>5 DEF Key!CheckOf, Key!Checking
  <2>8. Recorded'
    BY <1>11, <2>7 DEF Recorded, Key!Publish
  <2>9. \A v \in Workers : keyPc'[v] \in {"lookup", "derive"} =>
          current \in keyReq[v].seen /\ keyReq[v].seen \subseteq keyReq'[v].seen
    BY <1>a, <2>3, <2>5 DEF Witnessed, Key!Checking
  <2>10. \A k \in Keys : cache[k] > 0 => k \in keyLate \union {current}
    BY <1>b, <2>2 DEF Explained
  <2>11. Explained'
    BY <2>2, <2>9, <2>10 DEF Explained
  <2> QED
    BY <2>6, <2>8, <2>11 DEF Reasons
<1>12. ASSUME NEW w \in Workers, Key!ClearCache(w) PROVE Reasons'
  <2>1. /\ UNCHANGED <<current, keyLate, keyReq>> /\ keyPc'[w] \in {"finish", "idle"}
        /\ \A v \in Workers \ {w} : keyPc'[v] = keyPc[v]
    BY <1>12 DEF Key!ClearCache, Key!TypeOK
  <2>2. \A v \in Workers : Witnessed(v)' /\ Admitted(v)'
    BY <1>a, <2>1 DEF Witnessed, Admitted, Key!Checking
  <2>3. Recorded'
    BY <1>b, <2>1 DEF Recorded, Key!CheckOf
  <2>4. Explained'
    BY <1>12 DEF Key!ClearCache, Explained
  <2> QED
    BY <2>2, <2>3, <2>4 DEF Reasons
<1>13. CASE Key!Tick
  <2>1. /\ UNCHANGED <<current, keyLate, mu, keyPc>>
        /\ \A k \in Keys : cache'[k] > 0 => cache[k] > 0
    BY <1>13 DEF Key!Tick
  <2>2. \A v \in Workers : /\ keyReq'[v].seen = keyReq[v].seen
                           /\ keyReq'[v].read = keyReq[v].read /\
                              keyReq'[v].shown = keyReq[v].shown
    <3>1. \A r \in Key!Request : \A n :
            /\ [r EXCEPT !.age = n].seen = r.seen
            /\ [r EXCEPT !.age = n].read = r.read
            /\ [r EXCEPT !.age = n].shown = r.shown
      BY DEF Key!Request
    <3>2. \A v \in Workers :
            \/ keyReq'[v] = keyReq[v]
            \/ keyReq'[v] = [keyReq[v] EXCEPT !.age = keyReq[v].age + 1]
      BY <1>13 DEF Key!Tick
    <3>3. ASSUME NEW v \in Workers
          PROVE  /\ keyReq'[v].seen = keyReq[v].seen
                 /\ keyReq'[v].read = keyReq[v].read /\ keyReq'[v].shown = keyReq[v].shown
      <4> DEFINE n == keyReq[v].age + 1
      <4>1. keyReq[v] \in Key!Request /\
            (keyReq'[v] = keyReq[v] \/ keyReq'[v] = [keyReq[v] EXCEPT !.age = n])
        BY <1>c, <3>2
      <4>2. /\ [keyReq[v] EXCEPT !.age = n].seen = keyReq[v].seen
            /\ [keyReq[v] EXCEPT !.age = n].read = keyReq[v].read
            /\ [keyReq[v] EXCEPT !.age = n].shown = keyReq[v].shown
        BY <3>1, <4>1
      <4> HIDE DEF n, Key!Request
      <4>3. CASE keyReq'[v] = keyReq[v]
        BY <4>3
      <4>4. CASE keyReq'[v] = [keyReq[v] EXCEPT !.age = n]
        BY <4>2, <4>4
      <4> QED
        BY <4>1, <4>3, <4>4
    <3> QED
      BY <3>3
  <2>3. \A v \in Workers : Witnessed(v)' /\ Admitted(v)'
    BY <1>a, <2>1, <2>2 DEF Witnessed, Admitted
  <2>4. Recorded'
    BY <1>b, <2>1, <2>2 DEF Recorded, Key!CheckOf
  <2>5. Explained'
    BY <1>b, <2>1, <2>2 DEF Explained
  <2> QED
    BY <2>3, <2>4, <2>5 DEF Reasons
<1>14. CASE Key!Restart
  BY <1>14
  DEF Key!Restart, Reasons, Witnessed, Admitted, Recorded, Explained, Key!CheckOf, Key!Checking
<1>15. CASE UNCHANGED Key!vars
  BY <1>15 DEF Key!vars, Reasons, Witnessed, Admitted, Recorded, Explained, Key!CheckOf
<1> HIDE DEF Own
<1> QED
  BY <1>0, <1>1, <1>2, <1>3, <1>4, <1>5, <1>6, <1>7, <1>8, <1>9, <1>10, <1>11, <1>12, <1>13,
     <1>14, <1>15 DEF Key!Next, Key!Check, Key!Update

\* Every request that is let in has a reason that held during its check.
THEOREM AdmissionHasReason == ASSUME Distinct PROVE Key!Spec => []Key!AdmittedForReason
<1>1. Key!Init => Reasons
  BY DEF Key!Init, Reasons, Witnessed, Admitted, Recorded, Explained, Key!CheckOf, Key!Checking
<1>2. Key!TypeOK /\ Reasons /\ [Key!Next]_Key!vars => Reasons'
  BY NextReasons
<1>3. Reasons => Key!AdmittedForReason
  BY DEF Reasons, Admitted, Key!AdmittedForReason
<1> QED
  BY <1>1, <1>2, <1>3, KeyTypeCorrect, PTL DEF Key!Spec

-----------------------------------------------------------------------------
(* AuthLimiter: any sources and any limits.                                  *)

\* The limits are numbers, and the first failure of a source may block it.
Limits ==
  /\ PerIP \in Nat /\ Global \in Nat /\ Free \in Nat \ {0} /\ MaxSteps \in Nat
  /\ LimitWindow \in Nat /\ MaxLimited \in Nat /\ LimitPeriod \in Nat

\* What the history and the table of a source are made of.
Times ==
  /\ auth \in [Ips -> [failures : Nat, age : 0..(LimitWindow + 1), blocked : Nat]]
  /\ guesses \in [Ips -> Nat]
  /\ began \in [Ips -> 0..(LimitWindow + 1)]
  /\ rests \in [Ips -> Nat]

InAll(n) == n["check"] + n["elsewhere"] + n["verify"] + n["fail"]

\* The requests of a source that are in progress are those that were let in.
InProgress ==
  /\ doing \in [Ips -> [Limit!Steps -> Nat]]
  /\ requestIP \in [Ips -> 0..PerIP]
  /\ \A i \in Ips :
       requestIP[i] = InAll(doing[i])

\* Those of verifyAuth whose key is, or has been found, wrong but not counted yet.
Coming(i) == doing[i]["verify"] + doing[i]["fail"]

\* The window of the history is the one of the code as long as that lasts.
SameWindow(i) ==
  /\ auth[i] = Limit!None \/ auth[i].failures > 0
  /\ IF auth[i] # Limit!None /\ auth[i].age <= LimitWindow
       THEN guesses[i] > 0 /\ began[i] = auth[i].age
       ELSE Limit!Over(i)

\* A source that has not been blocked has used one of its first guesses for every
\* failure; a blocked one can do no more than finish what it has begun; one that
\* is not blocked any more has room for as many requests as it may have at once.
Paced(i) ==
  /\ auth[i].failures < Free =>
       auth[i].blocked = 0 /\ (Limit!Over(i) \/ guesses[i] <= auth[i].failures)
  /\ auth[i].blocked = 0 => guesses[i] <= (Free - 1) + PerIP * rests[i]
  /\ auth[i].blocked > 0 => guesses[i] + Coming(i) <= (Free - 1) + PerIP * (rests[i] + 1)

LimitInv == Times /\ InProgress /\ \A i \in Ips : SameWindow(i) /\ Paced(i)

-----------------------------------------------------------------------------
(* Lemmas about the operators of the module.                               *)

\* A block lasts at least a second: there are 2 ^ k subsets of 1..k.
LEMMA PowersOfTwo == ASSUME NEW k \in Nat PROVE 2 ^ k \in Nat /\ 2 ^ k > 0
<1>1. IsFiniteSet(1..k) /\ Cardinality(1..k) = k
  BY FS_Interval
<1>2. IsFiniteSet(SUBSET (1..k)) /\ Cardinality(SUBSET (1..k)) = 2 ^ k
  BY <1>1, FS_SUBSET
<1>3. Cardinality(SUBSET (1..k)) # 0
  BY <1>2, FS_EmptySet
<1> QED
  BY <1>2, <1>3, FS_CardinalityType

\* One more block is room for as many guesses as there may be requests at once.
LEMMA OneMore ==
  ASSUME NEW p \in Nat, NEW r \in Nat
  PROVE  p * r \in Nat /\ p * (r + 1) = p * r + p /\ p * 0 = 0
OBVIOUS

\* A request that ends.
LEMMA LeaveOf ==
  ASSUME Limits, InProgress, NEW i \in Ips, NEW from \in Limit!Steps, Limit!Leave(i, from)
  PROVE  /\ InProgress'
         /\ \A j \in Ips \ {i} : Coming(j)' = Coming(j)
         /\ Coming(i)' = IF from \in Limit!Paths THEN Coming(i) ELSE Coming(i) - 1
<1>1. doing[i][from] \in Nat /\ doing[i][from] > 0
  BY DEF Limit!Leave, InProgress
<1>2. /\ \A j \in Ips, s \in Limit!Steps :
           doing'[j][s] = IF j = i /\ s = from THEN doing[j][s] - 1 ELSE doing[j][s]
      /\ doing' \in [Ips -> [Limit!Steps -> Nat]]
  BY <1>1 DEF Limit!Leave, InProgress
<1>3. \A j \in Ips : requestIP'[j] = IF j = i THEN requestIP[j] - 1 ELSE requestIP[j]
  BY DEF Limit!Leave, InProgress
<1>4. \A j \in Ips, s \in Limit!Steps : doing[j][s] \in Nat
  BY DEF InProgress
<1>5. \A j \in Ips : requestIP[j] = InAll(doing[j])
  BY DEF InProgress
<1>6. \A j \in Ips : requestIP'[j] = InAll(doing'[j])
  BY <1>2, <1>3, <1>4, <1>5 DEF Limit!Steps, Limit!Paths, InAll
<1>7. requestIP' \in [Ips -> 0..PerIP]
  <2>1. requestIP[i] - 1 \in 0..PerIP
    BY <1>1, <1>4, <1>5 DEF InProgress, Limits, Limit!Steps, Limit!Paths, InAll
  <2> QED
    BY <2>1 DEF Limit!Leave, InProgress
<1> QED
  BY <1>2, <1>4, <1>6, <1>7 DEF InProgress, Coming, Limit!Steps, Limit!Paths, InAll

\* A request that goes on.
LEMMA MoveOf ==
  ASSUME Limits, InProgress, NEW i \in Ips, NEW from \in Limit!Steps,
    NEW to \in Limit!Steps \ {from},
         Limit!Move(i, from, to), UNCHANGED requestIP
  PROVE  /\ InProgress'
         /\ \A j \in Ips \ {i} : Coming(j)' = Coming(j)
         /\ from \notin Limit!Paths /\ to \notin Limit!Paths => Coming(i)' = Coming(i)
<1>1. doing[i][from] \in Nat /\ doing[i][to] \in Nat /\ doing[i][from] > 0
  BY DEF Limit!Move, InProgress
<1>2. /\ \A j \in Ips, s \in Limit!Steps :
           doing'[j][s] = IF j = i /\ s = from THEN doing[j][s] - 1
                          ELSE IF j = i /\ s = to THEN doing[j][s] + 1 ELSE doing[j][s]
      /\ doing' \in [Ips -> [Limit!Steps -> Nat]]
  BY <1>1 DEF Limit!Move, InProgress
<1>3. \A j \in Ips, s \in Limit!Steps : doing[j][s] \in Nat
  BY DEF InProgress
<1>4. \A j \in Ips : requestIP[j] = InAll(doing[j])
  BY DEF InProgress
<1>5. \A j \in Ips : InAll(doing'[j]) = InAll(doing[j])
  <2>1. ASSUME NEW j \in Ips \ {i} PROVE InAll(doing'[j]) = InAll(doing[j])
    BY <1>2 DEF Limit!Steps, Limit!Paths, InAll
  <2>2. InAll(doing'[i]) = InAll(doing[i])
    <3>1. CASE from = "check"
      BY <1>2, <1>3, <3>1 DEF Limit!Steps, Limit!Paths, InAll
    <3>2. CASE from = "elsewhere"
      BY <1>2, <1>3, <3>2 DEF Limit!Steps, Limit!Paths, InAll
    <3>3. CASE from = "verify"
      BY <1>2, <1>3, <3>3 DEF Limit!Steps, Limit!Paths, InAll
    <3>4. CASE from = "fail"
      BY <1>2, <1>3, <3>4 DEF Limit!Steps, Limit!Paths, InAll
    <3> QED
      BY <3>1, <3>2, <3>3, <3>4 DEF Limit!Steps, Limit!Paths
  <2> QED
    BY <2>1, <2>2
<1>6. InProgress'
  <2>1. requestIP' \in [Ips -> 0..PerIP]
    BY DEF InProgress
  <2>2. \A j \in Ips : requestIP'[j] = InAll(doing'[j])
    BY <1>4, <1>5
  <2> QED
    BY <1>2, <2>1, <2>2 DEF InProgress
<1>7. \A j \in Ips \ {i} : Coming(j)' = Coming(j)
  BY <1>2, <1>3 DEF Coming, Limit!Steps
<1>8. from \notin Limit!Paths /\ to \notin Limit!Paths => Coming(i)' = Coming(i)
  BY <1>2, <1>3 DEF Coming, Limit!Steps, Limit!Paths
<1> QED
  BY <1>6, <1>7, <1>8

LEMMA ComingBounds ==
  ASSUME Limits, InProgress
  PROVE  \A i \in Ips : Coming(i) \in 0..PerIP
<1>1. \A j \in Ips, s \in Limit!Steps : doing[j][s] \in Nat
  BY DEF InProgress
<1>2. \A i \in Ips :
        /\ requestIP[i] = InAll(doing[i])
        /\ requestIP[i] \in 0..PerIP
  BY DEF InProgress
<1> QED
  BY <1>1, <1>2 DEF Coming, Limit!Steps, Limit!Paths, InAll, Limits

\* What a sweep does to a source: its entry was stale, or its history goes too.
LEMMA SweepOf ==
  ASSUME Times, NEW R \in SUBSET Ips, Limit!Sweep(R), NEW j \in Ips
  PROVE  IF j \in R THEN Limit!AuthAfter(R)[j] = Limit!None
         ELSE \/ Limit!AuthAfter(R)[j] = auth[j]
              \/ Limit!AuthAfter(R)[j] = Limit!None /\ auth[j].blocked = 0 /\
                 auth[j].age > LimitWindow
BY DEF Limit!AuthAfter, Limit!Old, Limit!Stale

LEMMA AuthAfterType ==
  ASSUME Limits, Times, NEW R \in SUBSET Ips
  PROVE  Limit!AuthAfter(R) \in [Ips -> [failures : Nat, age : 0..(LimitWindow + 1),
    blocked : Nat]]
<1>1. Limit!None \in [failures : Nat, age : 0..(LimitWindow + 1), blocked : Nat]
  BY DEF Limit!None, Limits
<1> QED
  BY <1>1 DEF Limit!AuthAfter, Times

\* A source that starts anew.
LEMMA Anew ==
  ASSUME Limits, NEW j \in Ips, Times', auth'[j] = Limit!None, guesses'[j] = 0
  PROVE  SameWindow(j)' /\ Paced(j)'
<1>1. PerIP * rests'[j] \in Nat
  BY OneMore DEF Times, Limits
<1> QED
  BY <1>1 DEF SameWindow, Paced, Limit!Over, Limit!None, Limits

\* A source of which no guess is counted and no block ends: it loses at most an
\* entry that was stale, and lets a request through only when it is not blocked.
LEMMA Kept ==
  ASSUME Limits, LimitInv, Times', NEW j \in Ips,
         \/ auth'[j] = auth[j]
         \/ auth'[j] = Limit!None /\ auth[j].blocked = 0 /\ auth[j].age > LimitWindow,
         guesses'[j] = guesses[j], began'[j] = began[j], rests'[j] = rests[j],
         Coming(j) \in Nat, Coming(j)' \in Nat,
         auth'[j].blocked = 0 \/ Coming(j)' <= Coming(j)
  PROVE  SameWindow(j)' /\ Paced(j)'
<1>1. SameWindow(j) /\ Paced(j)
  BY DEF LimitInv
<1>2. guesses[j] \in Nat /\ PerIP * rests[j] \in Nat /\ PerIP * (rests[j] + 1) \in Nat
  BY OneMore DEF LimitInv, Times, Limits
<1>3. CASE auth'[j] = auth[j]
  BY <1>1, <1>2, <1>3 DEF SameWindow, Paced, Limit!Over, Limits
<1>4. CASE auth'[j] = Limit!None /\ auth[j].blocked = 0 /\ auth[j].age > LimitWindow
  <2>1. Limit!None.failures = 0 /\ Limit!None.age = 0 /\ Limit!None.blocked = 0
    BY DEF Limit!None
  <2>2. auth[j] # Limit!None
    BY <1>4, <2>1 DEF Limits
  <2>3. Limit!Over(j) /\ Limit!Over(j)'
    <3>1. auth[j].age \in Int /\ LimitWindow \in Nat
      BY DEF LimitInv, Times, Limits
    <3>2. ~(auth[j].age <= LimitWindow)
      BY <1>4, <3>1
    <3> QED
      BY <1>1, <3>2, <2>2 DEF SameWindow, Limit!Over
  <2>4. SameWindow(j)'
    BY <1>4, <2>3 DEF SameWindow
  <2>5. Paced(j)'
    BY <1>1, <1>2, <1>4, <2>1, <2>3 DEF Paced, Limits
  <2> QED
    BY <2>4, <2>5
<1> QED
  BY <1>3, <1>4

-----------------------------------------------------------------------------
(* The invariant.                                                          *)

LEMMA InitLimitInv == ASSUME Limits, Limit!Init PROVE LimitInv
<1>1. Times
  <2>1. Limit!None \in [failures : Nat, age : 0..(LimitWindow + 1), blocked : Nat]
    BY DEF Limit!None, Limits
  <2> QED
    BY <2>1 DEF Limit!Init, Times, Limits
<1>2. InProgress
  BY DEF Limit!Init, InProgress, Limit!Steps, Limit!Paths, InAll, Limits
<1>3. ASSUME NEW i \in Ips PROVE SameWindow(i) /\ Paced(i)
  <2>1. auth[i] = Limit!None /\ guesses[i] = 0 /\ rests[i] = 0 /\ PerIP * 0 = 0
    BY OneMore DEF Limit!Init, Limits
  <2> QED
    BY <2>1 DEF SameWindow, Paced, Limit!Over, Limit!None, Limits
<1> QED
  BY <1>1, <1>2, <1>3 DEF LimitInv

\* A sweep that is not followed by anything: the sources whose history goes start
\* anew, the others lose at most a stale entry.
LEMMA SweepKeeps ==
  ASSUME Limits, LimitInv, NEW R \in SUBSET Ips, Limit!Sweep(R), Limit!Forget(R),
    auth' = Limit!AuthAfter(R),
         InProgress',
         \A j \in Ips : auth'[j].blocked = 0 \/ Coming(j)' <= Coming(j)
  PROVE  LimitInv'
<1>1. Times'
  <2>1. /\ guesses' \in [Ips -> Nat] /\ began' \in [Ips -> 0..(LimitWindow + 1)]
        /\ rests' \in [Ips -> Nat]
    BY DEF Limit!Forget, Limit!HistoryAfter, LimitInv, Times, Limits
  <2>2. auth' \in [Ips -> [failures : Nat, age : 0..(LimitWindow + 1), blocked : Nat]]
    BY AuthAfterType DEF LimitInv
  <2> QED
    BY <2>1, <2>2 DEF Times
<1>2. ASSUME NEW j \in Ips PROVE SameWindow(j)' /\ Paced(j)'
  <2>1. CASE j \in R
    <3>1. auth'[j] = Limit!None /\ guesses'[j] = 0
      BY <2>1, SweepOf DEF Limit!Forget, Limit!HistoryAfter, LimitInv
    <3> QED
      BY <1>1, <3>1, Anew
  <2>2. CASE j \notin R
    <3>1. \/ auth'[j] = auth[j]
          \/ auth'[j] = Limit!None /\ auth[j].blocked = 0 /\ auth[j].age > LimitWindow
      BY <2>2, SweepOf DEF LimitInv
    <3>2. guesses'[j] = guesses[j] /\ began'[j] = began[j] /\ rests'[j] = rests[j]
      BY <2>2 DEF Limit!Forget, Limit!HistoryAfter
    <3>3. Coming(j) \in Nat /\ Coming(j)' \in Nat
      <4>1. Coming(j) \in 0..PerIP
        BY ComingBounds DEF LimitInv
      <4>2. Coming(j)' \in Nat
        BY DEF InProgress, Coming, Limit!Steps, Limit!Paths, InAll
      <4> QED
        BY <4>1, <4>2
    <3> QED
      BY <1>1, <3>1, <3>2, <3>3, Kept
  <2> QED
    BY <2>1, <2>2
<1> QED
  BY <1>1, <1>2 DEF LimitInv

\* Requests that go on or end while no table and no history changes.
LEMMA RequestsKeep ==
  ASSUME Limits, LimitInv, UNCHANGED <<auth, guesses, began, rests>>, InProgress',
         \A j \in Ips : Coming(j)' <= Coming(j)
  PROVE  LimitInv'
<1>1. Times'
  BY DEF LimitInv, Times
<1>2. ASSUME NEW j \in Ips PROVE SameWindow(j)' /\ Paced(j)'
  <2>1. Coming(j) \in Nat /\ Coming(j)' \in Nat
    BY DEF LimitInv, InProgress, Coming, Limit!Steps, Limit!Paths, InAll
  <2> QED
    BY <1>1, <2>1, Kept
<1> QED
  BY <1>1, <1>2 DEF LimitInv

\* A failure is counted.
LEMMA FailureKeeps == ASSUME Limits, LimitInv, NEW i \in Ips, Limit!RecordAuthFailure(i)
  PROVE LimitInv'
<1>1. PICK R \in SUBSET Ips :
        LET kept  == Limit!AuthAfter(R)
            entry == IF kept[i].age > LimitWindow THEN Limit!None ELSE kept[i]
            again == i \in R \/ Limit!Over(i)
        IN  /\ Limit!Leave(i, "fail")
            /\ Limit!Sweep(R)
            /\ auth' = [kept EXCEPT ![i] = Limit!Failed(entry)]
            /\ guesses' = [Limit!HistoryAfter(R, guesses) EXCEPT ![i] = IF again THEN 1
               ELSE @ + 1]
            /\ began' = [Limit!HistoryAfter(R, began) EXCEPT ![i] = IF again THEN 0 ELSE @]
            /\ rests' = [Limit!HistoryAfter(R, rests) EXCEPT ![i] = IF again THEN 0 ELSE @]
  BY DEF Limit!RecordAuthFailure
<1> DEFINE kept  == Limit!AuthAfter(R)
           entry == IF kept[i].age > LimitWindow THEN Limit!None ELSE kept[i]
           again == i \in R \/ Limit!Over(i)
           Entries == [failures : Nat, age : 0..(LimitWindow + 1), blocked : Nat]
<1>2. /\ Times /\ InProgress /\ SameWindow(i) /\ Paced(i)
      /\ Free \in Nat /\ Free > 0 /\ MaxSteps \in Nat /\ PerIP \in Nat /\ LimitWindow \in Nat
  BY DEF LimitInv, Limits
<1>3. kept \in [Ips -> Entries]
  BY <1>2, AuthAfterType
<1>4. Limit!None \in Entries /\ Limit!None.failures = 0 /\ Limit!None.age = 0 /\
      Limit!None.blocked = 0
  BY DEF Limit!None, Limits
<1>5. /\ InProgress' /\ Coming(i)' = Coming(i) - 1 /\ Coming(i) \in 0..PerIP
      /\ \A j \in Ips \ {i} : Coming(j)' = Coming(j)
      /\ \A j \in Ips : Coming(j) \in 0..PerIP
  BY <1>1, <1>2, LeaveOf, ComingBounds DEF Limit!Steps, Limit!Paths, InAll
<1>6. \A e \in Entries :
        /\ Limit!Failed(e) \in Entries /\ Limit!Failed(e).age = e.age
        /\ Limit!Failed(e).failures > 0
        /\ e.failures + 1 >= Free => Limit!Failed(e).failures >= Free /\
           Limit!Failed(e).blocked > 0
        /\ e.failures + 1 < Free =>
             Limit!Failed(e).failures = e.failures + 1 /\ Limit!Failed(e).blocked = e.blocked
  <2> SUFFICES ASSUME NEW e \in Entries
               PROVE  /\ Limit!Failed(e) \in Entries /\ Limit!Failed(e).age = e.age
                      /\ Limit!Failed(e).failures > 0
                      /\ e.failures + 1 >= Free =>
                           Limit!Failed(e).failures >= Free /\ Limit!Failed(e).blocked > 0
                      /\ e.failures + 1 < Free =>
                           Limit!Failed(e).failures = e.failures + 1 /\
                             Limit!Failed(e).blocked = e.blocked
    OBVIOUS
  <2> DEFINE n == Limit!Smaller(e.failures + 1, Free + MaxSteps)
             b == IF n >= Free THEN 2 ^ (n - Free) ELSE e.blocked
  <2>1. e.failures \in Nat /\ e.age \in 0..(LimitWindow + 1) /\ e.blocked \in Nat
    OBVIOUS
  <2>2. /\ n \in Nat /\ n > 0
        /\ e.failures + 1 >= Free => n >= Free
        /\ e.failures + 1 < Free => n = e.failures + 1 /\ n < Free
    BY <1>2, <2>1 DEF Limit!Smaller
  <2>3. n >= Free => n - Free \in Nat
    BY <1>2, <2>2
  <2>4. n >= Free => 2 ^ (n - Free) \in Nat /\ 2 ^ (n - Free) > 0
    BY <2>3, PowersOfTwo
  <2>5. Limit!Failed(e) = [failures |-> n, age |-> e.age, blocked |-> b]
    BY DEF Limit!Failed
  <2> HIDE DEF n
  <2>6. /\ b \in Nat
        /\ e.failures + 1 >= Free => b > 0
        /\ e.failures + 1 < Free => b = e.blocked
    BY <1>2, <2>1, <2>2, <2>4
  <2> HIDE DEF b
  <2> QED
    BY <2>1, <2>2, <2>5, <2>6
<1>7. entry \in Entries
  BY <1>3, <1>4
<1>8. Times'
  <2>1. auth' \in [Ips -> Entries]
    BY <1>1, <1>3, <1>6, <1>7
  <2>2. Limit!HistoryAfter(R, guesses) \in [Ips -> Nat] /\
        Limit!HistoryAfter(R, rests) \in [Ips -> Nat]
        /\ Limit!HistoryAfter(R, began) \in [Ips -> 0..(LimitWindow + 1)]
    BY <1>2 DEF Limit!HistoryAfter, Times
  <2>3. guesses' \in [Ips -> Nat] /\ rests' \in [Ips -> Nat]
        /\ began' \in [Ips -> 0..(LimitWindow + 1)]
    BY <1>1, <1>2, <2>2
  <2> QED
    BY <2>1, <2>3 DEF Times
<1>9. ASSUME NEW j \in Ips \ {i} PROVE SameWindow(j)' /\ Paced(j)'
  <2>1. CASE j \in R
    <3>1. auth'[j] = Limit!None /\ guesses'[j] = 0
      BY <1>1, <1>2, <1>3, <2>1, SweepOf DEF Limit!HistoryAfter
    <3> QED
      BY <1>8, <3>1, Anew
  <2>2. CASE j \notin R
    <3>1. \/ auth'[j] = auth[j]
          \/ auth'[j] = Limit!None /\ auth[j].blocked = 0 /\ auth[j].age > LimitWindow
      BY <1>1, <1>2, <1>3, <2>2, SweepOf
    <3>2. guesses'[j] = guesses[j] /\ began'[j] = began[j] /\ rests'[j] = rests[j]
      BY <1>1, <2>2 DEF Limit!HistoryAfter
    <3> QED
      BY <1>5, <1>8, <3>1, <3>2, Kept
  <2> QED
    BY <2>1, <2>2
<1>10. SameWindow(i)' /\ Paced(i)'
  <2>1. /\ auth'[i] = Limit!Failed(entry)
        /\ guesses'[i] = IF again THEN 1 ELSE guesses[i] + 1
        /\ began'[i] = IF again THEN 0 ELSE began[i]
        /\ rests'[i] = IF again THEN 0 ELSE rests[i]
    BY <1>1, <1>3 DEF Limit!HistoryAfter
  <2>2. /\ guesses[i] \in Nat /\ rests[i] \in Nat /\ began[i] \in 0..(LimitWindow + 1)
        /\ auth[i] \in Entries
        /\ PerIP * rests[i] \in Nat /\ PerIP * (rests[i] + 1) = PerIP * rests[i] + PerIP
        /\ PerIP * 0 = 0 /\ PerIP * (0 + 1) = PerIP
    BY <1>2, OneMore DEF Times
  <2>3. CASE again
    <3>1. entry = Limit!None
      <4>1. CASE i \in R
        BY <1>1, <1>2, <4>1, SweepOf
      <4>2. CASE i \notin R
        <5>1. Limit!Over(i)
          BY <2>3, <4>2
        <5>2. auth[i] = Limit!None \/ auth[i].age > LimitWindow
          BY <1>2, <2>2, <5>1 DEF SameWindow, Limit!Over
        <5> QED
          BY <1>1, <1>2, <1>4, <4>2, <5>2, SweepOf
      <4> QED
        BY <4>1, <4>2
    <3>2. guesses'[i] = 1 /\ began'[i] = 0 /\ rests'[i] = 0
      BY <2>1, <2>3
    <3>3. auth'[i].failures > 0 /\ auth'[i].age = 0 /\ auth'[i] # Limit!None
      BY <1>4, <1>6, <2>1, <3>1
    <3>4. SameWindow(i)'
      BY <1>2, <3>2, <3>3 DEF SameWindow
    <3>5. /\ 1 >= Free => auth'[i].failures >= Free /\ auth'[i].blocked > 0
          /\ 1 < Free => auth'[i].failures = 1 /\ auth'[i].blocked = 0
      BY <1>4, <1>6, <2>1, <3>1
    <3>6. Paced(i)'
      <4>1. PerIP * rests'[i] = 0 /\ PerIP * (rests'[i] + 1) = PerIP
        BY <2>2, <3>2
      <4>2. auth'[i].failures \in Nat /\ auth'[i].blocked \in Nat
        BY <1>8 DEF Times
      <4>3. Coming(i)' \in Int /\ 1 + Coming(i)' <= PerIP
        BY <1>2, <1>5
      <4> QED
        BY <1>2, <3>2, <3>5, <4>1, <4>2, <4>3 DEF Paced
    <3> QED
      BY <3>4, <3>6
  <2>4. CASE ~again
    <3>1. guesses[i] > 0 /\ began[i] = auth[i].age /\ auth[i].age <= LimitWindow /\
          auth[i] # Limit!None
      BY <1>2, <2>2, <2>4 DEF SameWindow
    <3>2. entry = auth[i]
      <4>1. kept[i] = auth[i]
        BY <1>1, <1>2, <2>2, <2>4, <3>1, SweepOf
      <4> QED
        BY <1>2, <2>2, <3>1, <4>1
    <3>3. guesses'[i] = guesses[i] + 1 /\ began'[i] = began[i] /\ rests'[i] = rests[i]
      BY <2>1, <2>4
    <3>4. auth'[i].failures > 0 /\ auth'[i].age = auth[i].age /\ auth'[i] # Limit!None
      BY <1>4, <1>6, <2>1, <2>2, <3>2
    <3>5. SameWindow(i)'
      BY <2>2, <3>1, <3>3, <3>4 DEF SameWindow
    <3>6. /\ auth[i].failures + 1 >= Free => auth'[i].failures >= Free /\ auth'[i].blocked > 0
          /\ auth[i].failures + 1 < Free =>
               /\ auth'[i].failures = auth[i].failures + 1
               /\ auth'[i].blocked = auth[i].blocked
      BY <1>6, <2>1, <2>2, <3>2
    <3>7. auth[i].failures \in Nat /\ auth[i].blocked \in Nat
      BY <2>2
    <3>8. /\ auth[i].failures < Free => auth[i].blocked = 0 /\ guesses[i] <= auth[i].failures
          /\ guesses[i] + Coming(i) <= (Free - 1) + PerIP * rests[i] + PerIP
      <4>1. ~Limit!Over(i)
        BY <2>4
      <4> QED
        BY <1>2, <1>5, <2>2, <3>7, <4>1 DEF Paced
    <3>9. Paced(i)'
      <4>1. CASE auth[i].failures + 1 < Free
        BY <1>2, <2>2, <3>3, <3>6, <3>7, <3>8, <4>1 DEF Paced
      <4>2. CASE auth[i].failures + 1 >= Free
        <5>1. PerIP * (rests'[i] + 1) = PerIP * rests[i] + PerIP
          BY <2>2, <3>3
        <5>2. auth'[i].failures >= Free /\ auth'[i].blocked > 0
          BY <3>6, <4>2
        <5>3. auth'[i].failures \in Nat /\ auth'[i].blocked \in Nat
          BY <1>8 DEF Times
        <5>4. Coming(i)' = Coming(i) - 1 /\ Coming(i) \in Int
          BY <1>2, <1>5
        <5>5. guesses'[i] + Coming(i)' <= (Free - 1) + PerIP * (rests'[i] + 1)
          BY <1>2, <2>2, <3>3, <3>8, <5>1, <5>4
        <5> QED
          BY <1>2, <5>2, <5>3, <5>5 DEF Paced
      <4> QED
        BY <1>2, <3>7, <4>1, <4>2
    <3> QED
      BY <3>5, <3>9
  <2> QED
    BY <2>3, <2>4
<1> QED
  BY <1>5, <1>8, <1>9, <1>10 DEF LimitInv

\* A second passes.
LEMMA TickKeeps == ASSUME Limits, LimitInv, Limit!Tick PROVE LimitInv'
<1> DEFINE Entries == [failures : Nat, age : 0..(LimitWindow + 1), blocked : Nat]
           older(i) == [failures |-> auth[i].failures,
                        age |-> Limit!Smaller(auth[i].age + 1, LimitWindow + 1),
                        blocked |-> IF auth[i].blocked > 0 THEN auth[i].blocked - 1 ELSE 0]
<1>1. /\ auth' = [i \in Ips |-> IF auth[i] = Limit!None THEN Limit!None ELSE older(i)]
      /\ guesses' = [i \in Ips |-> IF Limit!Over(i) THEN 0 ELSE guesses[i]]
      /\ began' = [i \in Ips |-> IF Limit!Over(i) THEN 0 ELSE began[i] + 1]
      /\ rests' = [i \in Ips |-> IF Limit!Over(i) THEN 0
                                 ELSE rests[i] + IF auth[i].blocked = 1 THEN 1 ELSE 0]
      /\ UNCHANGED <<doing, requestIP>>
  BY DEF Limit!Tick
<1>2. Limit!None \in Entries /\ Limit!None.failures = 0 /\ Limit!None.age = 0 /\
      Limit!None.blocked = 0
  BY DEF Limit!None, Limits
<1>3. InProgress' /\ \A i \in Ips : Coming(i)' = Coming(i) /\ Coming(i) \in 0..PerIP
  <2>1. \A i \in Ips : Coming(i) \in 0..PerIP
    BY ComingBounds DEF LimitInv
  <2> QED
    BY <1>1, <2>1 DEF LimitInv, InProgress, Coming
<1>4. \A i \in Ips : /\ auth[i] \in Entries /\ guesses[i] \in Nat /\ rests[i] \in Nat
                     /\ began[i] \in 0..(LimitWindow + 1)
  BY DEF LimitInv, Times
<1>5. \A i \in Ips :
        /\ older(i) \in Entries
        /\ older(i).failures = auth[i].failures
        /\ older(i).age = IF auth[i].age <= LimitWindow THEN auth[i].age + 1 ELSE LimitWindow + 1
        /\ older(i).blocked = IF auth[i].blocked > 0 THEN auth[i].blocked - 1 ELSE 0
  <2> SUFFICES ASSUME NEW i \in Ips
               PROVE  /\ older(i) \in Entries
                      /\ older(i).failures = auth[i].failures
                      /\ older(i).age = IF auth[i].age <= LimitWindow THEN auth[i].age + 1
                                        ELSE LimitWindow + 1
                      /\ older(i).blocked = IF auth[i].blocked > 0 THEN auth[i].blocked - 1
                                            ELSE 0
    OBVIOUS
  <2>1. /\ auth[i].failures \in Nat /\ auth[i].age \in 0..(LimitWindow + 1)
        /\ auth[i].blocked \in Nat /\ LimitWindow \in Nat
    BY <1>4 DEF Limits
  <2>2. /\ Limit!Smaller(auth[i].age + 1, LimitWindow + 1) \in 0..(LimitWindow + 1)
        /\ Limit!Smaller(auth[i].age + 1, LimitWindow + 1) =
             IF auth[i].age <= LimitWindow THEN auth[i].age + 1 ELSE LimitWindow + 1
    BY <2>1 DEF Limit!Smaller
  <2>3. (IF auth[i].blocked > 0 THEN auth[i].blocked - 1 ELSE 0) \in Nat
    BY <2>1
  <2> QED
    BY <2>1, <2>2, <2>3
<1>6. Times'
  <2>1. auth' \in [Ips -> Entries]
    BY <1>1, <1>2, <1>5
  <2>2. \A i \in Ips : ~Limit!Over(i) => began[i] + 1 \in 0..(LimitWindow + 1)
    BY <1>4 DEF Limit!Over, Limits
  <2>3. guesses' \in [Ips -> Nat] /\ began' \in [Ips -> 0..(LimitWindow + 1)]
    BY <1>1, <1>4, <2>2 DEF Limits
  <2>4. rests' \in [Ips -> Nat]
    BY <1>1, <1>4
  <2> QED
    BY <2>1, <2>3, <2>4 DEF Times
<1>7. ASSUME NEW i \in Ips PROVE SameWindow(i)' /\ Paced(i)'
  <2> HIDE DEF older
  <2>1. /\ SameWindow(i) /\ Paced(i) /\ LimitWindow \in Nat /\ PerIP \in Nat /\ Free \in Nat
        /\ Free > 0
    BY DEF LimitInv, Limits
  <2>2. /\ auth'[i] = IF auth[i] = Limit!None THEN Limit!None ELSE older(i)
        /\ guesses'[i] = IF Limit!Over(i) THEN 0 ELSE guesses[i]
        /\ began'[i] = IF Limit!Over(i) THEN 0 ELSE began[i] + 1
        /\ rests'[i] = IF Limit!Over(i) THEN 0
                       ELSE rests[i] + IF auth[i].blocked = 1 THEN 1 ELSE 0
    BY <1>1
  <2>3. /\ auth[i].failures \in Nat /\ auth[i].age \in 0..(LimitWindow + 1)
        /\ auth[i].blocked \in Nat
        /\ PerIP * rests[i] \in Nat /\ PerIP * (rests[i] + 1) = PerIP * rests[i] + PerIP
        /\ PerIP * rests'[i] \in Nat /\ PerIP * (rests'[i] + 1) = PerIP * rests'[i] + PerIP
    <3>1. rests[i] \in Nat /\ rests'[i] \in Nat
      BY <1>4, <1>6 DEF Times
    <3> QED
      BY <1>4, <2>1, <3>1, OneMore
  <2>4. CASE auth[i] = Limit!None
    <3>1. Limit!Over(i)
      BY <2>1, <2>4 DEF SameWindow
    <3> QED
      BY <1>6, <2>2, <2>4, <3>1, Anew
  <2>5. CASE auth[i] # Limit!None
    <3>1. /\ auth'[i].failures = auth[i].failures /\ auth[i].failures > 0
          /\ auth'[i].age = IF auth[i].age <= LimitWindow THEN auth[i].age + 1
             ELSE LimitWindow + 1
          /\ auth'[i].blocked = IF auth[i].blocked > 0 THEN auth[i].blocked - 1 ELSE 0
          /\ auth'[i] # Limit!None
      BY <1>2, <1>5, <2>1, <2>2, <2>5 DEF SameWindow
    <3>2. CASE Limit!Over(i)
      <4>1. guesses'[i] = 0 /\ Limit!Over(i)'
        BY <2>2, <3>2 DEF Limit!Over
      <4>2. ~(auth'[i].age <= LimitWindow)
        BY <2>1, <2>3, <2>5, <3>1, <3>2, <1>4 DEF SameWindow, Limit!Over
      <4>3. SameWindow(i)'
        BY <3>1, <4>1, <4>2 DEF SameWindow
      <4>4. Coming(i)' <= PerIP /\ Coming(i)' \in Nat
        BY <1>3, <2>1
      <4>5. auth[i].failures < Free => auth[i].blocked = 0
        BY <2>1 DEF Paced
      <4>6. Paced(i)'
        BY <2>1, <2>3, <3>1, <4>1, <4>4, <4>5 DEF Paced
      <4> QED
        BY <4>3, <4>6
    <3>3. CASE ~Limit!Over(i)
      <4>1. auth[i].age <= LimitWindow /\ guesses[i] > 0 /\ began[i] = auth[i].age
        BY <2>1, <2>5, <3>3 DEF SameWindow
      <4>2. /\ guesses'[i] = guesses[i] /\ began'[i] = began[i] + 1
            /\ auth'[i].age = auth[i].age + 1
        BY <2>2, <3>1, <3>3, <4>1
      <4>3. SameWindow(i)'
        <5>1. auth[i].age \in Nat /\ auth'[i].age = began'[i] /\ guesses'[i] > 0
          BY <2>3, <4>1, <4>2
        <5>2. auth'[i].age <= LimitWindow \/ began'[i] = LimitWindow + 1
          BY <2>1, <4>1, <4>2, <5>1
        <5>3. auth'[i] # Limit!None /\ auth'[i].failures > 0
          BY <3>1
        <5> QED
          BY <5>1, <5>2, <5>3 DEF SameWindow, Limit!Over
      <4>4. Coming(i)' = Coming(i) /\ Coming(i) \in Nat
        BY <1>3, <2>1
      <4>5. CASE auth[i].blocked = 1
        <5>1. rests'[i] = rests[i] + 1 /\ auth'[i].blocked = 0
          BY <2>2, <3>1, <3>3, <4>5
        <5>2. auth[i].failures >= Free /\
              guesses[i] + Coming(i) <= (Free - 1) + PerIP * (rests[i] + 1)
          BY <2>1, <2>3, <4>5 DEF Paced
        <5>3. guesses[i] <= (Free - 1) + PerIP * rests'[i]
          <6>1. PerIP * rests'[i] = PerIP * (rests[i] + 1)
            BY <5>1
          <6> DEFINE product == PerIP * (rests[i] + 1)
          <6>2. product \in Nat /\ guesses[i] \in Nat
            BY <1>4, <2>1, <2>3
          <6>3. guesses[i] + Coming(i) <= (Free - 1) + product /\ PerIP * rests'[i] = product
            BY <5>2, <6>1
          <6> HIDE DEF product
          <6> QED
            BY <2>1, <4>4, <6>2, <6>3
        <5> QED
          BY <2>1, <2>3, <3>1, <4>2, <4>3, <5>1, <5>2, <5>3 DEF Paced
      <4>6. CASE auth[i].blocked # 1
        <5>1. /\ rests'[i] = rests[i]
              /\ auth[i].blocked = 0 <=> auth'[i].blocked = 0
              /\ auth'[i].blocked \in Nat
          BY <1>4, <2>2, <2>3, <3>1, <3>3, <4>6
        <5>2. auth[i].failures < Free => auth[i].blocked = 0 /\ guesses[i] <= auth[i].failures
          BY <2>1, <3>3 DEF Paced
        <5>3. Paced(i)'
          BY <2>1, <2>3, <3>1, <4>2, <4>4, <5>1, <5>2 DEF Paced
        <5> QED
          BY <4>3, <5>3
      <4> QED
        BY <4>5, <4>6
    <3> QED
      BY <3>2, <3>3
  <2> QED
    BY <2>4, <2>5
<1> QED
  BY <1>3, <1>6, <1>7 DEF LimitInv

\* The right key takes a source out of the table.
LEMMA SuccessKeeps == ASSUME Limits, LimitInv, NEW i \in Ips, Limit!Succeed(i) PROVE LimitInv'
<1>1. /\ InProgress' /\ Coming(i)' \in Nat
      /\ \A j \in Ips \ {i} : Coming(j)' = Coming(j)
      /\ \A j \in Ips : Coming(j) \in Nat
  <2>1. Limit!Leave(i, "verify") /\ InProgress
    BY DEF Limit!Succeed, LimitInv
  <2>2. InProgress' /\ \A j \in Ips \ {i} : Coming(j)' = Coming(j)
    BY <2>1, LeaveOf DEF Limit!Steps, Limit!Paths, InAll
  <2>3. Coming(i)' \in Nat
    BY <2>2 DEF InProgress, Coming, Limit!Steps, Limit!Paths, InAll
  <2>4. \A j \in Ips : Coming(j) \in Nat
    BY <2>1 DEF InProgress, Coming, Limit!Steps, Limit!Paths, InAll
  <2> QED
    BY <2>2, <2>3, <2>4
<1>2. Limit!None \in [failures : Nat, age : 0..(LimitWindow + 1), blocked : Nat]
  BY DEF Limit!None, Limits
<1>3. Times'
  BY <1>2 DEF Limit!Succeed, LimitInv, Times, Limits
<1>4. \A j \in Ips :
        /\ auth'[j] = IF j = i THEN Limit!None ELSE auth[j]
        /\ guesses'[j] = IF j = i THEN 0 ELSE guesses[j]
        /\ began'[j] = IF j = i THEN 0 ELSE began[j]
        /\ rests'[j] = IF j = i THEN 0 ELSE rests[j]
  BY DEF Limit!Succeed, LimitInv, Times
<1>5. ASSUME NEW j \in Ips PROVE SameWindow(j)' /\ Paced(j)'
  <2>1. CASE j = i
    BY <1>3, <1>4, <2>1, Anew
  <2>2. CASE j # i
    <3>1. Coming(j)' <= Coming(j) /\ Coming(j)' \in Nat /\ Coming(j) \in Nat
      BY <1>1, <2>2
    <3> QED
      BY <1>3, <1>4, <2>2, <3>1, Kept
  <2> QED
    BY <2>1, <2>2
<1> QED
  BY <1>1, <1>3, <1>5 DEF LimitInv

LEMMA NextLimitInv == ASSUME Limits, LimitInv, [Limit!Next]_Limit!vars PROVE LimitInv'
<1>a. InProgress /\ \A j \in Ips : Coming(j) \in Nat
  BY DEF LimitInv, InProgress, Coming, Limit!Steps, Limit!Paths, InAll
<1>1. ASSUME NEW i \in Ips, NEW path \in Limit!Paths, Limit!EnterRequest(i, path) PROVE LimitInv'
  <2>1. /\ \A j \in Ips, s \in Limit!Steps :
             doing'[j][s] = IF j = i /\ s = path THEN doing[j][s] + 1 ELSE doing[j][s]
        /\ doing' \in [Ips -> [Limit!Steps -> Nat]]
    BY <1>1, <1>a DEF Limit!EnterRequest, InProgress, Limit!Steps, Limit!Paths, InAll
  <2>2. /\ \A j \in Ips : requestIP'[j] = IF j = i THEN requestIP[j] + 1 ELSE requestIP[j]
        /\ requestIP' \in [Ips -> 0..PerIP]
    BY <1>1, <1>a DEF Limit!EnterRequest, InProgress, Limits
  <2>3. \A j \in Ips :
          /\ \A s \in Limit!Steps : doing[j][s] \in Nat
          /\ requestIP[j] = InAll(doing[j])
    BY <1>a DEF InProgress
  <2>4. InProgress' /\ \A j \in Ips : Coming(j)' = Coming(j)
    BY <2>1, <2>2, <2>3 DEF InProgress, Coming, Limit!Steps, Limit!Paths, InAll
  <2>5. \A j \in Ips : Coming(j)' <= Coming(j)
    BY <1>a, <2>4
  <2> QED
    BY <1>1, <2>4, <2>5, RequestsKeep DEF Limit!EnterRequest
<1>2. ASSUME NEW i \in Ips, Limit!AuthRetryAfter(i) PROVE LimitInv'
  <2>1. PICK R \in SUBSET Ips :
          /\ Limit!Sweep(R) /\ Limit!Forget(R)
          /\ auth' = Limit!AuthAfter(R)
          /\ IF auth'[i].blocked > 0
               THEN Limit!Leave(i, "check")
               ELSE Limit!Move(i, "check", "verify") /\ UNCHANGED <<requestIP, requestTotal>>
    BY <1>2 DEF Limit!AuthRetryAfter
  <2>2. auth' \in [Ips -> [failures : Nat, age : 0..(LimitWindow + 1), blocked : Nat]]
    BY <2>1, AuthAfterType DEF LimitInv
  <2>3. InProgress' /\ \A j \in Ips : auth'[j].blocked = 0 \/ Coming(j)' <= Coming(j)
    <3>1. CASE auth'[i].blocked > 0
      <4>1. InProgress' /\ \A j \in Ips : Coming(j)' = Coming(j)
        BY <1>a, <2>1, <3>1, LeaveOf DEF Limit!Steps, Limit!Paths, InAll
      <4> QED
        BY <1>a, <4>1
    <3>2. CASE ~(auth'[i].blocked > 0)
      <4>1. auth'[i].blocked = 0
        BY <2>2, <3>2
      <4>2. InProgress' /\ \A j \in Ips \ {i} : Coming(j)' = Coming(j)
        BY <1>a, <2>1, <3>2, MoveOf DEF Limit!Steps, Limit!Paths, InAll
      <4> QED
        BY <1>a, <4>1, <4>2
    <3> QED
      BY <3>1, <3>2
  <2> QED
    BY <2>1, <2>3, SweepKeeps
<1>3. ASSUME NEW i \in Ips, Limit!Succeed(i) PROVE LimitInv'
  BY <1>3, SuccessKeeps
<1>4. ASSUME NEW i \in Ips, Limit!Reject(i) PROVE LimitInv'
  <2>1. InProgress' /\ \A j \in Ips : Coming(j)' = Coming(j)
    BY <1>4, <1>a, MoveOf DEF Limit!Reject, Limit!Steps, Limit!Paths, InAll
  <2>2. \A j \in Ips : Coming(j)' <= Coming(j)
    BY <1>a, <2>1
  <2> QED
    BY <1>4, <2>1, <2>2, RequestsKeep DEF Limit!Reject
<1>5. ASSUME NEW i \in Ips, Limit!RecordAuthFailure(i) PROVE LimitInv'
  BY <1>5, FailureKeeps
<1>6. CASE Limit!CleanupAuth
  <2>1. InProgress' /\ \A j \in Ips : Coming(j)' = Coming(j)
    BY <1>6, <1>a DEF Limit!CleanupAuth, InProgress, Coming
  <2>2. \A j \in Ips : Coming(j)' <= Coming(j)
    BY <1>a, <2>1
  <2> QED
    BY <1>6, <2>1, <2>2, SweepKeeps DEF Limit!CleanupAuth
<1>7. CASE Limit!Tick
  BY <1>7, TickKeeps
<1>9. ASSUME NEW i \in Ips, Limit!Authorized(i) PROVE LimitInv'
  <2>1. InProgress' /\ \A j \in Ips : Coming(j)' = Coming(j)
    BY <1>9, <1>a, LeaveOf DEF Limit!Authorized, Limit!Steps, Limit!Paths
  <2>2. \A j \in Ips : Coming(j)' <= Coming(j)
    BY <1>a, <2>1
  <2> QED
    BY <1>9, <2>1, <2>2, RequestsKeep DEF Limit!Authorized
<1>8. CASE UNCHANGED Limit!vars
  <2>1. InProgress' /\ \A j \in Ips : Coming(j)' = Coming(j)
    BY <1>8, <1>a DEF Limit!vars, InProgress, Coming
  <2>2. \A j \in Ips : Coming(j)' <= Coming(j)
    BY <1>a, <2>1
  <2> QED
    BY <1>8, <2>1, <2>2, RequestsKeep DEF Limit!vars
<1> QED
  BY <1>1, <1>2, <1>3, <1>4, <1>5, <1>6, <1>7, <1>8, <1>9 DEF Limit!Next

\* In every reachable state the history of a source follows the table, and each
\* group of keys refused has been paid for with a rest (recordAuthFailure).
THEOREM PaceKept == ASSUME Limits PROVE Limit!Spec => []LimitInv
<1>1. Limit!Init => LimitInv
  BY InitLimitInv
<1>2. LimitInv /\ [Limit!Next]_Limit!vars => LimitInv'
  BY NextLimitInv
<1> QED
  BY <1>1, <1>2, PTL DEF Limit!Spec

\* verifyAuth refuses a source the first few keys of a window and, for every block
\* it has waited out, as many as it may have requests in progress, although the
\* table is asked before a key is checked and told after it.  Nothing is said of
\* the keys other endpoints refuse.
THEOREM VerifyIsBounded == ASSUME Limits PROVE Limit!Spec => []Limit!VerifyBounded
<1>1. LimitInv => Limit!VerifyBounded
  <2> SUFFICES ASSUME LimitInv, NEW i \in Ips
               PROVE  guesses[i] <= (Free - 1) + PerIP * (rests[i] + 1)
    BY DEF Limit!VerifyBounded
  <2>1. /\ guesses[i] \in Nat /\ auth[i].blocked \in Nat
        /\ PerIP * rests[i] \in Nat /\ PerIP * (rests[i] + 1) = PerIP * rests[i] + PerIP
    BY OneMore DEF LimitInv, Times, Limits
  <2>2. Coming(i) \in Nat /\ PerIP \in Nat /\ Free \in Nat
    BY DEF LimitInv, InProgress, Coming, Limit!Steps, Limit!Paths, InAll, Limits
  <2>3. Paced(i)
    BY DEF LimitInv
  <2> QED
    BY <2>1, <2>2, <2>3 DEF Paced
<1> QED
  BY <1>1, PaceKept, PTL

-----------------------------------------------------------------------------
(* MediaTickets: any tickets and requests, every clock, any limit of the map. *)

\* There is a ticket, and time is counted from 1.
Sensible ==
  /\ Tickets # {}
  /\ TicketTTL \in Nat /\ CountedPeriod \in Nat /\ MaxTime \in Nat /\ MaxTime >= 1

LEMMA TicketRequestTypes ==
  ASSUME Sensible
  PROVE  /\ Ticket!NoRequest \in Ticket!Request /\ ~Ticket!NoRequest.count /\
            ~Ticket!NoRequest.get
         /\ \A t \in Tickets, get \in BOOLEAN :
              [ticket |-> t, get |-> get, count |-> FALSE] \in Ticket!Request
         /\ \A r \in Ticket!Request, c \in BOOLEAN :
              /\ [r EXCEPT !.count = c] \in Ticket!Request
              /\ [r EXCEPT !.count = c].ticket = r.ticket
              /\ [r EXCEPT !.count = c].get = r.get
              /\ [r EXCEPT !.count = c].count = c
<1>1. Ticket!AnyTicket \in Tickets
  BY DEF Sensible, Ticket!AnyTicket
<1> QED
  BY <1>1 DEF Ticket!NoRequest, Ticket!Request

LEMMA TicketInitTypeOK == ASSUME Sensible, Ticket!Init PROVE Ticket!TypeOK
<1>1. ticketNow \in 1..MaxTime /\ countedSweep \in 0..(MaxTime + CountedPeriod)
  BY DEF Sensible, Ticket!Init
<1>2. ticketExpires \in [Tickets -> 0..(MaxTime + TicketTTL)]
  BY DEF Sensible, Ticket!Init
<1>3. ticketReq \in [Workers -> Ticket!Request]
  BY TicketRequestTypes DEF Ticket!Init
<1> QED
  BY <1>1, <1>2, <1>3 DEF Ticket!Init, Ticket!TypeOK, Ticket!Steps

LEMMA TicketNextTypeOK == ASSUME Sensible, Ticket!TypeOK, [Ticket!Next]_Ticket!vars
  PROVE Ticket!TypeOK'
<1> USE DEF Ticket!Goto, Ticket!At
<1>r. Ticket!NoRequest \in Ticket!Request /\ \A w \in Workers : ticketReq[w] \in Ticket!Request
  BY TicketRequestTypes DEF Ticket!TypeOK
<1>e. \A w \in Workers : Ticket!Return(w) =>
        ticketReq' \in [Workers -> Ticket!Request] /\ ticketPc' \in [Workers -> Ticket!Steps]
  <2> HIDE DEF Ticket!Request
  <2> QED
    BY <1>r DEF Ticket!Return, Ticket!TypeOK, Ticket!Steps
<1>1. ASSUME NEW t \in Tickets, Ticket!Create(t) PROVE Ticket!TypeOK'
  <2>1. ticketNow + TicketTTL \in 0..(MaxTime + TicketTTL)
    BY DEF Ticket!TypeOK, Sensible
  <2> QED
    BY <1>1, <2>1 DEF Ticket!TypeOK, Ticket!Create
<1>2. ASSUME NEW w \in Workers, NEW t \in Tickets, NEW get \in BOOLEAN, Ticket!Present(w, t, get)
      PROVE  Ticket!TypeOK'
  <2>1. [ticket |-> t, get |-> get, count |-> FALSE] \in Ticket!Request
    BY TicketRequestTypes
  <2> HIDE DEF Ticket!Request
  <2> QED
    BY <1>2, <2>1 DEF Ticket!TypeOK, Ticket!Present, Ticket!Steps
<1>3. ASSUME NEW w \in Workers, Ticket!Lookup(w) PROVE Ticket!TypeOK'
  <2>1. CASE Ticket!Return(w)
    BY <1>3, <2>1, <1>e DEF Ticket!TypeOK, Ticket!Lookup
  <2>2. CASE ~Ticket!Return(w)
    BY <1>3, <2>2 DEF Ticket!TypeOK, Ticket!Lookup, Ticket!Steps
  <2> QED
    BY <2>1, <2>2
<1>4. ASSUME NEW w \in Workers, Ticket!Mark(w) PROVE Ticket!TypeOK'
  <2>1. ticketReq[w].ticket \in Tickets /\ ticketReq[w] \in Ticket!Request
    BY <1>r DEF Ticket!Request
  <2>2. [ticketReq[w] EXCEPT !.count = ticketReq[w].ticket \notin Ticket!Swept] \in Ticket!Request
    BY <2>1, TicketRequestTypes
  <2>3. ticketReq' \in [Workers -> Ticket!Request]
    BY <1>4, <2>2 DEF Ticket!Mark, Ticket!TypeOK
  <2>4. ticketPc' \in [Workers -> Ticket!Steps]
    BY <1>4 DEF Ticket!Mark, Ticket!TypeOK, Ticket!Steps
  <2>5. counted' \subseteq Tickets /\ ticketLate' \subseteq Tickets
    BY <1>4, <2>1 DEF Ticket!Mark, Ticket!TypeOK, Ticket!Swept
  <2>6. ticketNow + CountedPeriod \in 0..(MaxTime + CountedPeriod)
    BY DEF Ticket!TypeOK, Sensible
  <2> QED
    BY <1>4, <2>3, <2>4, <2>5, <2>6 DEF Ticket!Mark, Ticket!TypeOK
<1>5. ASSUME NEW w \in Workers,
             Ticket!Open(w) \/ Ticket!OpenFails(w) \/ Ticket!IncrementDownload(w) \/
               Ticket!IncrementFails(w)
      PROVE  Ticket!TypeOK'
  <2>1. ticketReq[w].ticket \in Tickets
    BY <1>r DEF Ticket!Request
  <2>2. ticketReq' \in [Workers -> Ticket!Request] /\ ticketPc' \in [Workers -> Ticket!Steps]
    <3>1. CASE Ticket!Return(w)
      BY <3>1, <1>e
    <3>2. CASE ~Ticket!Return(w)
      BY <1>5, <3>2
      DEF Ticket!Open, Ticket!OpenFails, Ticket!IncrementDownload, Ticket!IncrementFails,
          Ticket!Serve, Ticket!Fail, Ticket!TypeOK, Ticket!Steps
    <3> QED
      BY <3>1, <3>2
  <2>3. served' \subseteq Tickets /\ missed' \subseteq Tickets
    BY <1>5, <2>1
    DEF Ticket!Open, Ticket!OpenFails, Ticket!IncrementDownload, Ticket!IncrementFails,
        Ticket!Serve, Ticket!Fail, Ticket!TypeOK
  <2>4. downloads' \in [Tickets -> Nat]
    BY <1>5, <2>1
    DEF Ticket!Open, Ticket!OpenFails, Ticket!IncrementDownload, Ticket!IncrementFails,
        Ticket!Serve, Ticket!Fail, Ticket!TypeOK
  <2>5. UNCHANGED <<ticketNow, ticketExpires, counted, countedSweep, ticketLate>>
    BY <1>5 DEF Ticket!Open, Ticket!OpenFails, Ticket!IncrementDownload, Ticket!IncrementFails
  <2> QED
    BY <2>2, <2>3, <2>4, <2>5 DEF Ticket!TypeOK
<1>6. CASE Ticket!Tick
  <2>1. ticketNow' \in 1..MaxTime
    BY <1>6 DEF Ticket!TypeOK, Ticket!Tick, Sensible
  <2> QED
    BY <1>6, <2>1 DEF Ticket!TypeOK, Ticket!Tick
<1>7. CASE Ticket!Restart
  <2>1. ticketExpires' \in [Tickets -> 0..(MaxTime + TicketTTL)] /\
        countedSweep' \in 0..(MaxTime + CountedPeriod)
    BY <1>7 DEF Ticket!TypeOK, Ticket!Restart, Sensible
  <2>2. missed' \subseteq Tickets
    BY <1>7, <1>r DEF Ticket!TypeOK, Ticket!Restart, Ticket!Request
  <2>3. ticketReq' \in [Workers -> Ticket!Request]
    BY <1>7, <1>r DEF Ticket!Restart
  <2> QED
    BY <1>7, <2>1, <2>2, <2>3 DEF Ticket!TypeOK, Ticket!Restart, Ticket!Steps
<1>8. CASE UNCHANGED Ticket!vars
  BY <1>8 DEF Ticket!TypeOK, Ticket!vars
<1> QED
  BY <1>1, <1>2, <1>3, <1>4, <1>5, <1>6, <1>7, <1>8 DEF Ticket!Next

\* Every reachable state is well typed.
THEOREM TicketTypeCorrect == ASSUME Sensible PROVE Ticket!Spec => []Ticket!TypeOK
<1>1. Ticket!Init => Ticket!TypeOK
  BY TicketInitTypeOK
<1>2. Ticket!TypeOK /\ [Ticket!Next]_Ticket!vars => Ticket!TypeOK'
  BY TicketNextTypeOK
<1> QED
  BY <1>1, <1>2, PTL DEF Ticket!Spec

-----------------------------------------------------------------------------
(* One download for a ticket, and a download for every ticket that was     *)
(* used.  At most one request holds the mark of a ticket and has not yet   *)
(* counted it, and none does once it is counted; a ticket that is not in   *)
(* the map although it is still good has never been marked.                *)

Holds(w, t) == ticketReq[w].ticket = t /\ ticketReq[w].count

Early == \A w \in Workers : ticketPc[w] \in {"idle", "lookup", "mark"} => ~ticketReq[w].count
Last  == \A w \in Workers : ticketPc[w] = "increment" => ticketReq[w].count

Unused(t) == downloads[t] = 0 /\ \A w \in Workers : ~Holds(w, t)

\* A ticket that was not handed out is known to nobody.
Unknown == \A t \in Tickets : ticketExpires[t] = 0 => Unused(t) /\ t \notin counted
Known   == \A w \in Workers : ticketPc[w] # "idle" => ticketExpires[ticketReq[w].ticket] # 0

Once(t) ==
  /\ t \notin counted /\ ticketNow < ticketExpires[t] => Unused(t)
  /\ \A v, w \in Workers : Holds(v, t) /\ Holds(w, t) => v = w
  /\ downloads[t] = 0 \/ (downloads[t] = 1 /\ \A w \in Workers : ~Holds(w, t))

Taken(t) == downloads[t] > 0 \/ t \in missed \/ \E w \in Workers : Holds(w, t)

Marked == \A t \in counted \union served : Taken(t)
TicketPassed == \A w \in Workers : ticketReq[w].get /\ ticketPc[w] \in {"open", "increment"} =>
  Taken(ticketReq[w].ticket)

TicketInv ==
  /\ Early /\ Last /\ Unknown /\ Known
  /\ \A t \in Tickets \ ticketLate : Once(t)
  /\ Marked /\ TicketPassed

\* Requests keep their tickets, none takes a mark, and nothing is counted.
LEMMA QuietStep ==
  ASSUME Ticket!TypeOK, TicketInv, Early', Last', Known',
         UNCHANGED <<counted, downloads, served, missed, ticketLate>>,
         ticketNow' >= ticketNow, \A t \in Tickets : ticketExpires'[t] = ticketExpires[t],
         ticketNow' \in Nat, \A t \in Tickets : ticketExpires[t] \in Nat,
         \A w \in Workers, t \in Tickets : Holds(w, t)' <=> Holds(w, t),
         \A w \in Workers : ticketReq'[w].get /\ ticketPc'[w] \in {"open", "increment"} =>
             ticketReq[w].get /\ ticketPc[w] \in {"open", "increment"} /\
               ticketReq'[w].ticket = ticketReq[w].ticket,
         \A w \in Workers : ticketReq[w].ticket \in Tickets
  PROVE  TicketInv'
<1>1. ticketNow \in Nat /\ counted \subseteq Tickets /\ served \subseteq Tickets
  BY DEF Ticket!TypeOK
<1>2. \A t \in Tickets : Unused(t)' <=> Unused(t)
  BY DEF Unused
<1>3. Unknown'
  BY <1>2 DEF TicketInv, Unknown
<1>4. \A t \in Tickets \ ticketLate : Once(t)'
  <2> SUFFICES ASSUME NEW t \in Tickets \ ticketLate PROVE Once(t)'
    OBVIOUS
  <2>1. ticketNow' < ticketExpires'[t] => ticketNow < ticketExpires[t]
    BY <1>1
  <2> QED
    BY <1>2, <2>1 DEF TicketInv, Once
<1>5. \A t \in Tickets : Taken(t) => Taken(t)'
  BY DEF Taken
<1>6. Marked' /\ TicketPassed'
  BY <1>1, <1>5 DEF TicketInv, Marked, TicketPassed
<1> QED
  BY <1>3, <1>4, <1>6 DEF TicketInv

LEMMA NextInvariant == ASSUME Sensible, Ticket!TypeOK, TicketInv, [Ticket!Next]_Ticket!vars
  PROVE TicketInv'
<1> USE DEF Ticket!Goto, Ticket!At
<1>a. /\ ticketNow \in Nat /\ counted \subseteq Tickets /\ served \subseteq Tickets
      /\ \A t \in Tickets : ticketExpires[t] \in Nat /\ downloads[t] \in Nat
      /\ \A w \in Workers : ticketReq[w] \in Ticket!Request
  BY DEF Ticket!TypeOK, Sensible
<1>b. \A w \in Workers : ticketReq[w].ticket \in Tickets /\ ticketReq[w].count \in BOOLEAN
  BY <1>a DEF Ticket!Request
<1>1. ASSUME NEW t \in Tickets, Ticket!Create(t) PROVE TicketInv'
  <2>1. /\ UNCHANGED <<ticketNow, counted, countedSweep, ticketPc, ticketReq, downloads, served,
           missed, ticketLate>>
        /\ ticketExpires[t] = 0 /\ \A u \in Tickets \ {t} : ticketExpires'[u] = ticketExpires[u]
        /\ ticketExpires' \in [Tickets -> Nat]
    BY <1>1, <1>a DEF Ticket!Create, Ticket!TypeOK, Sensible
  <2>2. \A u \in Tickets : Unused(u)' <=> Unused(u)
    BY <2>1 DEF Unused, Holds
  <2>3. Unused(t) /\ t \notin counted
    BY <2>1 DEF TicketInv, Unknown
  <2>4. Unknown'
    BY <2>1, <2>2, <2>3 DEF TicketInv, Unknown
  <2>5. Known'
    BY <1>b, <2>1 DEF TicketInv, Known
  <2>6. \A u \in Tickets \ ticketLate : Once(u)'
    <3> SUFFICES ASSUME NEW u \in Tickets \ ticketLate PROVE Once(u)'
      OBVIOUS
    <3>1. CASE u = t
      BY <2>1, <2>2, <2>3, <3>1 DEF Once, Unused, Holds
    <3>2. CASE u # t
      BY <2>1, <2>2, <3>2 DEF TicketInv, Once, Holds
    <3> QED
      BY <3>1, <3>2
  <2> QED
    BY <2>1, <2>4, <2>5, <2>6 DEF TicketInv, Early, Last, Marked, TicketPassed, Taken, Holds
<1>2. ASSUME NEW w \in Workers, NEW t \in Tickets, NEW get \in BOOLEAN, Ticket!Present(w, t, get)
      PROVE  TicketInv'
  <2>1. /\ UNCHANGED <<ticketNow, ticketExpires, counted, downloads, served, missed, ticketLate>>
        /\ ticketPc'[w] = "lookup" /\ ticketReq'[w] = [ticket |-> t, get |-> get, count |-> FALSE]
        /\ ticketPc[w] = "idle" /\ ticketExpires[t] # 0
        /\ \A v \in Workers \ {w} : ticketPc'[v] = ticketPc[v] /\ ticketReq'[v] = ticketReq[v]
    BY <1>2, <1>a DEF Ticket!Present, Ticket!TypeOK
  <2>2. ~ticketReq[w].count
    BY <2>1 DEF TicketInv, Early
  <2>3. Early' /\ Last' /\ Known'
    BY <2>1 DEF TicketInv, Early, Last, Known
  <2>4. \A v \in Workers, u \in Tickets : Holds(v, u)' <=> Holds(v, u)
    BY <2>1, <2>2 DEF Holds
  <2> QED
    BY <1>a, <1>b, <2>1, <2>3, <2>4, QuietStep
<1>q. ASSUME NEW w \in Workers, Ticket!Return(w), ~ticketReq[w].count,
             UNCHANGED <<ticketNow, ticketExpires, counted, downloads, served, missed,
               ticketLate>>
      PROVE  TicketInv'
  <2>1. /\ ticketPc'[w] = "idle" /\ ticketReq'[w] = Ticket!NoRequest
        /\ \A v \in Workers \ {w} : ticketPc'[v] = ticketPc[v] /\ ticketReq'[v] = ticketReq[v]
    BY <1>q DEF Ticket!Return, Ticket!TypeOK
  <2>2. ~ticketReq'[w].count
    BY <2>1, TicketRequestTypes
  <2>3. Early' /\ Last' /\ Known'
    BY <1>q, <2>1, <2>2 DEF TicketInv, Early, Last, Known
  <2>4. \A v \in Workers, u \in Tickets : Holds(v, u)' <=> Holds(v, u)
    BY <1>q, <2>1, <2>2 DEF Holds
  <2> QED
    BY <1>a, <1>b, <1>q, <2>1, <2>3, <2>4, QuietStep
<1>3. ASSUME NEW w \in Workers, Ticket!Lookup(w) PROVE TicketInv'
  <2>1. ~ticketReq[w].count
    BY <1>3 DEF Ticket!Lookup, TicketInv, Early
  <2>2. CASE Ticket!Return(w)
    BY <1>3, <1>q, <2>1, <2>2 DEF Ticket!Lookup
  <2>3. CASE ~Ticket!Return(w)
    <3>1. /\ ticketReq' = ticketReq /\ ticketPc[w] = "lookup"
          /\ UNCHANGED <<ticketNow, ticketExpires, counted, downloads, served, missed,
             ticketLate>>
          /\ ticketPc'[w] = IF ticketReq[w].get THEN "mark" ELSE "open"
          /\ \A v \in Workers \ {w} : ticketPc'[v] = ticketPc[v]
      BY <1>3, <2>3 DEF Ticket!Lookup, Ticket!TypeOK
    <3>2. Early' /\ Last' /\ Known'
      BY <2>1, <3>1 DEF TicketInv, Early, Last, Known
    <3>3. \A v \in Workers, u \in Tickets : Holds(v, u)' <=> Holds(v, u)
      BY <3>1 DEF Holds
    <3> QED
      BY <1>a, <1>b, <3>1, <3>2, <3>3, QuietStep
  <2> QED
    BY <2>2, <2>3
<1>4. ASSUME NEW w \in Workers, Ticket!Mark(w) PROVE TicketInv'
  <2> DEFINE t == ticketReq[w].ticket
  <2>1. /\ UNCHANGED <<ticketNow, ticketExpires, downloads, served, missed>> /\
           ticketPc[w] = "mark"
        /\ ticketPc'[w] = "open" /\ \A v \in Workers \ {w} : ticketPc'[v] = ticketPc[v] /\
           ticketReq'[v] = ticketReq[v]
        /\ counted' = Ticket!Swept \union {t}
        /\ ticketLate' = IF ticketNow >= ticketExpires[t] THEN ticketLate \union {t}
           ELSE ticketLate
    BY <1>4 DEF Ticket!Mark, Ticket!TypeOK
  <2>2. ticketReq'[w] = [ticketReq[w] EXCEPT !.count = t \notin Ticket!Swept]
    BY <1>4 DEF Ticket!Mark, Ticket!TypeOK
  <2>3. ticketReq'[w].ticket = t /\ ticketReq'[w].get = ticketReq[w].get /\
        ticketReq'[w].count = (t \notin Ticket!Swept)
    BY <1>a, <2>2, TicketRequestTypes
  <2>4. ~ticketReq[w].count /\ ticketExpires[t] # 0 /\ t \in Tickets
    BY <1>b, <2>1 DEF TicketInv, Early, Known
  <2>5. Ticket!Swept \subseteq counted /\ \A u \in counted : u \notin Ticket!Swept =>
        ticketNow > ticketExpires[u]
    BY DEF Ticket!Swept, Ticket!Expired
  <2>6. Early' /\ Last' /\ Known'
    BY <2>1, <2>3, <2>4 DEF TicketInv, Early, Last, Known
  <2>7. Unknown'
    BY <2>1, <2>3, <2>4, <2>5 DEF TicketInv, Unknown, Unused, Holds
  <2>8. \A u \in Tickets \ ticketLate' : Once(u)'
    <3> SUFFICES ASSUME NEW u \in Tickets, u \notin ticketLate' PROVE Once(u)'
      OBVIOUS
    <3>1. u \notin ticketLate /\ Once(u)
      BY <2>1 DEF TicketInv
    <3>2. CASE u # t
      <4>1. \A v \in Workers : Holds(v, u)' <=> Holds(v, u)
        BY <2>1, <2>3, <3>2 DEF Holds
      <4>2. u \notin counted' /\ ticketNow < ticketExpires[u] => u \notin counted
        BY <1>a, <2>1, <2>5, <3>2
      <4> QED
        BY <2>1, <3>1, <4>1, <4>2 DEF Once, Unused
    <3>3. CASE u = t /\ t \in Ticket!Swept
      <4>1. \A v \in Workers : Holds(v, u)' <=> Holds(v, u)
        BY <2>1, <2>3, <2>4, <3>3 DEF Holds
      <4> QED
        BY <2>1, <3>1, <3>3, <4>1 DEF Once, Unused
    <3>4. CASE u = t /\ t \notin Ticket!Swept
      <4>1. ticketNow < ticketExpires[t]
        BY <1>a, <2>1, <2>4, <3>4
      <4>2. t \notin counted
        BY <1>a, <2>4, <2>5, <3>4, <4>1
      <4>3. Unused(t)
        BY <3>1, <3>4, <4>1, <4>2 DEF Once
      <4>4. \A v \in Workers : Holds(v, u)' => v = w
        BY <2>1, <3>4, <4>3 DEF Holds, Unused
      <4> QED
        BY <2>1, <3>4, <4>3, <4>4 DEF Once, Unused
    <3> QED
      BY <3>2, <3>3, <3>4
  <2>9. \A u \in Tickets : Taken(u) => Taken(u)'
    BY <2>1, <2>4 DEF Taken, Holds
  <2>10. Taken(t)'
    <3>1. CASE t \in Ticket!Swept
      BY <2>3, <2>4, <2>5, <2>9, <3>1 DEF TicketInv, Marked
    <3>2. CASE t \notin Ticket!Swept
      BY <2>3, <3>2 DEF Taken, Holds
    <3> QED
      BY <3>1, <3>2
  <2>11. Marked'
    BY <1>a, <2>1, <2>3, <2>4, <2>5, <2>9, <2>10 DEF TicketInv, Marked
  <2>12. TicketPassed'
    BY <1>b, <2>1, <2>3, <2>9, <2>10 DEF TicketInv, TicketPassed
  <2> QED
    BY <2>6, <2>7, <2>8, <2>11, <2>12 DEF TicketInv
\* Request w ends; what it held has been counted or has failed.
<1>f. ASSUME NEW w \in Workers, Ticket!Return(w), ticketPc[w] \in {"open", "increment"},
             UNCHANGED <<ticketNow, ticketExpires, counted, ticketLate>>,
             \/ /\ UNCHANGED <<downloads, served>>
                /\ missed' = IF ticketReq[w].count THEN missed \union {ticketReq[w].ticket}
                   ELSE missed
             \/ /\ downloads' = IF ticketReq[w].count
                                  THEN [downloads EXCEPT ![ticketReq[w].ticket] = @ + 1]
                                    ELSE downloads
                /\ served' = IF ticketReq[w].get THEN served \union {ticketReq[w].ticket}
                   ELSE served
                /\ UNCHANGED missed
      PROVE  TicketInv'
  <2> DEFINE t == ticketReq[w].ticket
  <2>1. /\ ticketPc'[w] = "idle" /\ ticketReq'[w] = Ticket!NoRequest
        /\ \A v \in Workers \ {w} : ticketPc'[v] = ticketPc[v] /\ ticketReq'[v] = ticketReq[v]
    BY <1>f DEF Ticket!Return, Ticket!TypeOK
  <2>2. ~ticketReq'[w].count /\ t \in Tickets
    BY <1>b, <2>1, TicketRequestTypes
  <2>3. Early' /\ Last' /\ Known'
    BY <1>f, <2>1, <2>2 DEF TicketInv, Early, Last, Known
  <2>4. \A v \in Workers, u \in Tickets : Holds(v, u)' <=> v # w /\ Holds(v, u)
    BY <2>1, <2>2 DEF Holds
  <2>5. \A u \in Tickets :
          \/ downloads'[u] = downloads[u]
          \/ Holds(w, u) /\ downloads'[u] = downloads[u] + 1
    <3>1. CASE downloads' = downloads
      BY <3>1
    <3>2. CASE ticketReq[w].count /\ downloads' = [downloads EXCEPT ![t] = @ + 1]
      <4>1. \A u \in Tickets : downloads'[u] = IF u = t THEN downloads[u] + 1 ELSE downloads[u]
        BY <2>2, <3>2 DEF Ticket!TypeOK
      <4> QED
        BY <3>2, <4>1 DEF Holds
    <3> QED
      BY <1>f, <3>1, <3>2
  <2>6. Unknown'
    BY <1>f, <2>4, <2>5 DEF TicketInv, Unknown, Unused
  <2>7. \A u \in Tickets \ ticketLate : Once(u)'
    <3> SUFFICES ASSUME NEW u \in Tickets \ ticketLate PROVE Once(u)'
      OBVIOUS
    <3>1. Once(u)
      BY DEF TicketInv
    <3>2. CASE Holds(w, u)
      <4>1. downloads[u] = 0 /\ \A v \in Workers : ~Holds(v, u)'
        BY <2>4, <3>1, <3>2 DEF Once
      <4>2. downloads'[u] = 0 \/ downloads'[u] = 1
        BY <2>5, <4>1
      <4>3. ~(u \notin counted /\ ticketNow < ticketExpires[u])
        BY <3>1, <3>2 DEF Once, Unused
      <4> QED
        BY <1>f, <4>1, <4>2, <4>3 DEF Once
    <3>3. CASE ~Holds(w, u)
      <4>1. downloads'[u] = downloads[u] /\ \A v \in Workers : Holds(v, u)' <=> Holds(v, u)
        BY <2>4, <2>5, <3>3
      <4> QED
        BY <1>f, <3>1, <4>1 DEF Once, Unused
    <3> QED
      BY <3>2, <3>3
  <2>8. \A u \in Tickets : Taken(u) => Taken(u)'
    <3> SUFFICES ASSUME NEW u \in Tickets, Taken(u) PROVE Taken(u)'
      OBVIOUS
    <3>1. CASE Holds(w, u)
      <4>1. u = t /\ ticketReq[w].count
        BY <3>1 DEF Holds
      <4>2. u \in missed' \/ downloads'[u] = downloads[u] + 1
        BY <1>f, <4>1 DEF Ticket!TypeOK
      <4> QED
        BY <1>a, <4>2 DEF Taken
    <3>2. CASE ~Holds(w, u)
      <4>1. downloads'[u] = downloads[u] /\ missed \subseteq missed'
        BY <1>f, <2>5, <3>2
      <4> QED
        BY <2>4, <3>2, <4>1 DEF Taken
    <3> QED
      BY <3>1, <3>2
  <2>9. Marked'
    <3>1. served' \subseteq served \/ (ticketReq[w].get /\ served' \subseteq served \union {t})
      BY <1>f
    <3>2. ticketReq[w].get => Taken(t)
      BY <1>f DEF TicketInv, TicketPassed
    <3> QED
      BY <1>a, <1>f, <2>2, <2>8, <3>1, <3>2 DEF TicketInv, Marked
  <2>10. TicketPassed'
    BY <1>b, <2>1, <2>8 DEF TicketInv, TicketPassed
  <2> QED
    BY <1>f, <2>3, <2>6, <2>7, <2>9, <2>10 DEF TicketInv
<1>5. ASSUME NEW w \in Workers, Ticket!Open(w) PROVE TicketInv'
  <2>1. CASE ticketReq[w].count
    <3>1. /\ UNCHANGED <<ticketNow, ticketExpires, counted, downloads, served, missed,
             ticketLate, ticketReq>>
          /\ ticketPc[w] = "open" /\ ticketPc'[w] = "increment"
          /\ \A v \in Workers \ {w} : ticketPc'[v] = ticketPc[v]
      BY <1>5, <2>1 DEF Ticket!Open, Ticket!TypeOK
    <3>2. Early' /\ Last' /\ Known'
      BY <2>1, <3>1 DEF TicketInv, Early, Last, Known
    <3>3. \A v \in Workers, u \in Tickets : Holds(v, u)' <=> Holds(v, u)
      BY <3>1 DEF Holds
    <3> QED
      BY <1>a, <1>b, <3>1, <3>2, <3>3, QuietStep
  <2>2. CASE ~ticketReq[w].count
    BY <1>5, <1>f, <2>2 DEF Ticket!Open, Ticket!Serve
  <2> QED
    BY <2>1, <2>2
<1>6. ASSUME NEW w \in Workers, Ticket!OpenFails(w) \/ Ticket!IncrementFails(w) PROVE TicketInv'
  BY <1>6, <1>f DEF Ticket!OpenFails, Ticket!IncrementFails, Ticket!Fail
<1>7. ASSUME NEW w \in Workers, Ticket!IncrementDownload(w) PROVE TicketInv'
  <2>1. ticketReq[w].count
    BY <1>7 DEF Ticket!IncrementDownload, TicketInv, Last
  <2> QED
    BY <1>7, <1>f, <2>1 DEF Ticket!IncrementDownload, Ticket!Serve
<1>8. CASE Ticket!Tick
  <2>1. /\ UNCHANGED <<ticketExpires, counted, downloads, served, missed, ticketLate, ticketReq,
           ticketPc>>
        /\ ticketNow' \in Nat /\ ticketNow' >= ticketNow
    BY <1>8, <1>a DEF Ticket!Tick
  <2>2. Early' /\ Last' /\ Known'
    BY <2>1 DEF TicketInv, Early, Last, Known
  <2>3. \A v \in Workers, u \in Tickets : Holds(v, u)' <=> Holds(v, u)
    BY <2>1 DEF Holds
  <2> QED
    BY <1>a, <1>b, <2>1, <2>2, <2>3, QuietStep
<1>9. CASE Ticket!Restart
  <2>1. /\ \A w \in Workers : ticketPc'[w] = "idle" /\ ~ticketReq'[w].count
        /\ UNCHANGED <<ticketNow, downloads, served, ticketLate>> /\ counted' = {}
    BY <1>9, TicketRequestTypes DEF Ticket!Restart
  <2>2. \A t \in Tickets : /\ ticketExpires'[t] = 0 => ticketExpires[t] = 0
                           /\ ~(ticketNow < ticketExpires'[t])
    BY <1>9, <1>a DEF Ticket!Restart, Ticket!TypeOK
  <2>3. Unknown' /\ \A t \in Tickets \ ticketLate : Once(t)'
    BY <2>1, <2>2 DEF TicketInv, Unknown, Once, Unused, Holds
  <2>4. \A t \in Tickets : Taken(t) => Taken(t)'
    BY <1>9, <2>1 DEF Ticket!Restart, Taken, Holds
  <2> QED
    BY <1>a, <2>1, <2>3, <2>4 DEF TicketInv, Early, Last, Known, Marked, TicketPassed
<1>10. CASE UNCHANGED Ticket!vars
  BY <1>10
  DEF Ticket!vars, TicketInv, Early, Last, Known, Unknown, Once, Unused, Marked, TicketPassed,
      Taken, Holds
<1> QED
  BY <1>1, <1>2, <1>3, <1>4, <1>5, <1>6, <1>7, <1>8, <1>9, <1>10 DEF Ticket!Next

LEMMA InitInvariant == ASSUME Sensible, Ticket!Init PROVE TicketInv
<1>1. \A w \in Workers : ticketPc[w] = "idle" /\ ~ticketReq[w].count
  BY TicketRequestTypes DEF Ticket!Init
<1> QED
  BY <1>1
  DEF Ticket!Init, TicketInv, Early, Last, Known, Unknown, Once, Unused, Marked, TicketPassed,
      Taken, Holds

\* In every reachable state a mark is the last one of its ticket, and the request
\* that took it still counts or has counted (markTicketCounted, serveFile).
THEOREM InvariantKept == ASSUME Sensible PROVE Ticket!Spec => []TicketInv
<1>1. Ticket!Init => TicketInv
  BY InitInvariant
<1>2. Ticket!TypeOK /\ TicketInv /\ [Ticket!Next]_Ticket!vars => TicketInv'
  BY NextInvariant
<1> QED
  BY <1>1, <1>2, TicketTypeCorrect, PTL DEF Ticket!Spec

\* All the range requests of a ticket are one download, unless one of them was
\* checked before the ticket expired and marked after.
THEOREM OneDownload == ASSUME Sensible PROVE Ticket!Spec => []Ticket!CountedOnce
<1>1. Ticket!TypeOK /\ TicketInv => Ticket!CountedOnce
  BY DEF Ticket!TypeOK, TicketInv, Once, Ticket!CountedOnce
<1> QED
  BY <1>1, InvariantKept, TicketTypeCorrect, PTL

\* A ticket that delivered its file has been counted, or the request that took
\* its mark has failed or has not come to storing the download.
THEOREM DownloadCounted == ASSUME Sensible PROVE Ticket!Spec => []Ticket!ServedIsCounted
<1>1. TicketInv => Ticket!ServedIsCounted
  BY DEF TicketInv, Marked, Taken, Holds, Ticket!ServedIsCounted
<1> QED
  BY <1>1, InvariantKept, PTL

-----------------------------------------------------------------------------
(* PadEditing: any pages, edits and bounds.                                  *)

Learnt == [version : Nat, epoch : Nat]
Call   == [step : {"none", "sent", "ok", "conflict", "failed"}, known : Learnt]
Shot   == [text : SUBSET Edits, known : Learnt, awaited : BOOLEAN]
Answer == [step : Pad!Awaits, text : SUBSET Edits, known : Learnt]

PadTypes ==
  /\ text \in SUBSET Edits /\ version \in Nat /\ epoch \in Nat
  /\ backup \in [text : SUBSET Edits, version : Nat]
  /\ calls \in [Clients -> [Calls -> Answer]]
  /\ known \in [Clients -> Learnt] /\ list \in [Clients -> Learnt]
  /\ editor \in [Clients -> SUBSET Edits]
  /\ dirty \in [Clients -> BOOLEAN] /\ astray \in [Clients -> BOOLEAN]
  /\ timer \in [Clients -> Seq(Shot)] /\ chain \in [Clients -> Seq(Shot)]
  /\ call \in [Clients -> Call]

\* What was learnt is the pad as it is or as it was: a change of the text leads to
\* a version that nobody knew.
PadPassed(v) == v.epoch < epoch \/ (v.epoch = epoch /\ v.version <= version)

Past(c) ==
  /\ PadPassed(known[c]) /\ PadPassed(list[c])
  /\ call[c].step # "none" => PadPassed(call[c].known)
  /\ call[c].step = "ok" => PadPassed(Pad!Answered(c))

\* What a queue remembers, and an answer on its way, was learnt as well.
Remembers(c) ==
  /\ \A i \in DOMAIN chain[c] : PadPassed(chain[c][i].known)
  /\ \A i \in DOMAIN timer[c] : PadPassed(timer[c][i].known)
  /\ \A k \in Calls :
       calls[c][k].step = "answered" =>
         PadPassed(calls[c][k].known) /\
           (calls[c][k].known = Pad!Current => calls[c][k].text = text)

\* One timer, and a save for every request.
Queued(c) ==
  /\ call[c].step # "none" => chain[c] # <<>>
  /\ timer[c] = <<>> \/ \E s \in Shot : timer[c] = <<s>>

\* What the page shows and what it has saved, as long as the pad has not changed.
Shows(c) ==
  /\ Pad!IsCurrent(c) /\ ~dirty[c] /\ known[c] = Pad!Current => editor[c] = text
  /\ call[c].step = "ok" /\ Pad!Answered(c) = Pad!Current => Head(chain[c]).text = text

\* Everything in q is at least lo and at most hi, and it grows.
Grows(q, lo, hi) ==
  /\ \A i \in DOMAIN q : lo \subseteq q[i].text /\ q[i].text \subseteq hi
  /\ \A i, j \in DOMAIN q : i <= j => q[i].text \subseteq q[j].text

\* What the text area must contain.
Floor(c) == IF Pad!IsCurrent(c) /\ known[c] = Pad!Current THEN text ELSE {}

\* A page that is not astray saves what it shows, or showed earlier in this visit.
Owned(c) ==
  ~astray[c] =>
    /\ ~Pad!IsCurrent(c) => chain[c] = <<>> /\ timer[c] = <<>>
    /\ Pad!IsCurrent(c) =>
         /\ Floor(c) \subseteq editor[c]
         /\ Grows(chain[c], Floor(c), editor[c])
         /\ Grows(timer[c], Floor(c), editor[c])
         /\ \A i \in DOMAIN chain[c], j \in DOMAIN timer[c] :
              chain[c][i].text \subseteq timer[c][j].text
    /\ call[c].step = "sent" /\ call[c].known = Pad!Current => text \subseteq Head(chain[c]).text

PageInv(c) == Past(c) /\ Remembers(c) /\ Queued(c) /\ Shows(c) /\ Owned(c)

PadInv == PadTypes /\ \A c \in Clients : PageInv(c)

-----------------------------------------------------------------------------
(* Queues and versions.                                                    *)

LEMMA ElementOf ==
  ASSUME NEW S, NEW q \in Seq(S)
  PROVE  \A i \in DOMAIN q : q[i] \in S
OBVIOUS

LEMMA TailOf ==
  ASSUME NEW S, NEW q \in Seq(S), q # <<>>
  PROVE  /\ Head(q) = q[1] /\ Head(q) \in S /\ Tail(q) \in Seq(S)
         /\ 1 \in DOMAIN q /\ DOMAIN q = 1..Len(q) /\ Len(q) \in Nat
         /\ DOMAIN Tail(q) = 1..(Len(q) - 1)
         /\ \A i \in DOMAIN Tail(q) : i + 1 \in DOMAIN q /\ Tail(q)[i] = q[i + 1]
<1>1. Len(q) \in Nat /\ DOMAIN q = 1..Len(q) /\ Len(q) > 0
  OBVIOUS
<1>2. Head(q) = q[1] /\ 1 \in DOMAIN q /\ Head(q) \in S
  BY <1>1
<1>3. Tail(q) \in Seq(S) /\ Len(Tail(q)) = Len(q) - 1
  BY <1>1
<1>4. DOMAIN Tail(q) = 1..(Len(q) - 1)
  BY <1>1, <1>3
<1>5. \A i \in 1..(Len(q) - 1) : i + 1 \in DOMAIN q /\ Tail(q)[i] = q[i + 1]
  BY <1>1
<1> QED
  BY <1>1, <1>2, <1>3, <1>4, <1>5

LEMMA AppendOf ==
  ASSUME NEW S, NEW q \in Seq(S), NEW s \in S
  PROVE  /\ Append(q, s) \in Seq(S) /\ Append(q, s) # <<>>
         /\ DOMAIN q = 1..Len(q) /\ Len(q) \in Nat
         /\ DOMAIN Append(q, s) = 1..(Len(q) + 1)
         /\ \A i \in DOMAIN q : Append(q, s)[i] = q[i]
         /\ Append(q, s)[Len(q) + 1] = s
         /\ q # <<>> => Head(Append(q, s)) = Head(q)
         /\ q = <<>> => Append(q, s) = <<s>>
<1>1. /\ Len(q) \in Nat /\ DOMAIN q = 1..Len(q)
      /\ Append(q, s) \in Seq(S) /\ Len(Append(q, s)) = Len(q) + 1
  OBVIOUS
<1>2. DOMAIN Append(q, s) = 1..(Len(q) + 1)
  BY <1>1
<1>3. /\ \A i \in DOMAIN q : Append(q, s)[i] = q[i]
      /\ Append(q, s)[Len(q) + 1] = s
  BY <1>1
<1>4. Append(q, s) # <<>>
  BY <1>1
<1>5. ASSUME q # <<>> PROVE Head(Append(q, s)) = Head(q)
  BY <1>1, <1>3, <1>4, <1>5
<1>6. ASSUME q = <<>> PROVE Append(q, s) = <<s>>
  BY <1>6
<1> QED
  BY <1>1, <1>2, <1>3, <1>4, <1>5, <1>6

LEMMA GrowsLess ==
  ASSUME NEW q, NEW lo, NEW lo2, NEW hi, NEW hi2,
         Grows(q, lo, hi), lo2 \subseteq lo, hi \subseteq hi2
  PROVE  Grows(q, lo2, hi2)
BY DEF Grows

LEMMA GrowsAppend ==
  ASSUME NEW q \in Seq(Shot), NEW s \in Shot, NEW lo, NEW hi, Grows(q, lo, hi),
         lo \subseteq s.text, s.text \subseteq hi, \A i \in DOMAIN q : q[i].text \subseteq s.text
  PROVE  Grows(Append(q, s), lo, hi)
<1> HIDE DEF Shot
<1>1. \A i \in DOMAIN Append(q, s) :
        \/ i \in DOMAIN q /\ Append(q, s)[i] = q[i] /\ i < Len(q) + 1
        \/ i = Len(q) + 1 /\ Append(q, s)[i] = s
  BY AppendOf
<1>2. \A i, j \in DOMAIN Append(q, s) : i <= j /\ j \in DOMAIN q /\ j < Len(q) + 1 =>
        i # Len(q) + 1
  BY AppendOf
<1>3. ASSUME NEW i \in DOMAIN Append(q, s), NEW j \in DOMAIN Append(q, s), i <= j
      PROVE  Append(q, s)[i].text \subseteq Append(q, s)[j].text
  <2>1. CASE j = Len(q) + 1 /\ Append(q, s)[j] = s
    BY <1>1, <2>1
  <2>2. CASE j \in DOMAIN q /\ Append(q, s)[j] = q[j] /\ j < Len(q) + 1
    <3>1. i \in DOMAIN q /\ Append(q, s)[i] = q[i]
      BY <1>1, <1>2, <1>3, <2>2
    <3> QED
      BY <1>3, <2>2, <3>1 DEF Grows
  <2> QED
    BY <1>1, <2>1, <2>2
<1>4. ASSUME NEW i \in DOMAIN Append(q, s)
      PROVE  lo \subseteq Append(q, s)[i].text /\ Append(q, s)[i].text \subseteq hi
  BY <1>1 DEF Grows
<1> QED
  BY <1>3, <1>4 DEF Grows

\* What is behind the head of a queue contains it.
LEMMA GrowsTail ==
  ASSUME NEW q \in Seq(Shot), q # <<>>, NEW lo, NEW hi, Grows(q, lo, hi)
  PROVE  /\ Grows(Tail(q), lo, hi) /\ Grows(Tail(q), Head(q).text, hi)
         /\ lo \subseteq Head(q).text /\ Head(q).text \subseteq hi
<1> HIDE DEF Shot
<1>1. /\ Head(q) = q[1] /\ 1 \in DOMAIN q
      /\ \A i \in DOMAIN Tail(q) :
           i \in Nat /\ i + 1 \in DOMAIN q /\ 1 <= i + 1 /\ Tail(q)[i] = q[i + 1]
  BY TailOf
<1>2. ASSUME NEW i \in DOMAIN Tail(q), NEW j \in DOMAIN Tail(q), i <= j
      PROVE  Tail(q)[i].text \subseteq Tail(q)[j].text
  <2>1. i + 1 <= j + 1
    BY <1>1, <1>2
  <2> QED
    BY <1>1, <2>1 DEF Grows
<1> QED
  BY <1>1, <1>2 DEF Grows

LEMMA OneOf == ASSUME NEW s PROVE \A j \in DOMAIN <<s>> : <<s>>[j] = s
OBVIOUS

LEMMA GrowsEmpty == ASSUME NEW lo, NEW hi PROVE Grows(<<>>, lo, hi)
BY DEF Grows

LEMMA GrowsOne ==
  ASSUME NEW s, NEW lo, NEW hi, lo \subseteq s.text, s.text \subseteq hi
  PROVE  Grows(<<s>>, lo, hi)
BY DEF Grows

\* The version of the pad moves on.
Moves == epoch' > epoch \/ (epoch' = epoch /\ version' > version)

LEMMA PassedMoves ==
  ASSUME version \in Nat, epoch \in Nat, version' \in Nat, epoch' \in Nat, Moves,
         NEW v \in Learnt, PadPassed(v)
  PROVE  PadPassed(v)' /\ v # Pad!Current'
BY DEF Learnt, PadPassed, Moves, Pad!Current

LEMMA AnsweredOf ==
  ASSUME PadTypes, NEW c \in Clients
  PROVE  /\ Pad!Answered(c) = [version |-> call[c].known.version + 1,
            epoch |-> call[c].known.epoch]
         /\ Pad!Answered(c) \in Learnt
<1>1. call[c].known \in Learnt
  BY DEF PadTypes, Call
<1> QED
  BY <1>1 DEF Pad!Answered, Learnt

LEMMA PassedCurrent ==
  ASSUME version \in Nat, epoch \in Nat
  PROVE  Pad!Current \in Learnt /\ PadPassed(Pad!Current)
BY DEF Learnt, PadPassed, Pad!Current

-----------------------------------------------------------------------------
(* Pages that a step does not concern.                                     *)

Rests(d) ==
  /\ calls'[d] = calls[d] /\ known'[d] = known[d] /\ editor'[d] = editor[d]
  /\ dirty'[d] = dirty[d] /\ list'[d] = list[d] /\ timer'[d] = timer[d]
  /\ chain'[d] = chain[d] /\ call'[d] = call[d] /\ astray'[d] = astray[d]

LEMMA RestKeeps ==
  ASSUME NEW d \in Clients, PageInv(d), Rests(d), UNCHANGED <<text, version, epoch>>
  PROVE  PageInv(d)'
<1>1. Past(d)'
  BY DEF PageInv, Past, PadPassed, Rests, Pad!Answered
<1>r. Remembers(d)'
  BY DEF PageInv, Remembers, PadPassed, Rests, Pad!Current
<1>2. Queued(d)'
  BY DEF PageInv, Queued, Rests
<1>3. Shows(d)'
  BY DEF PageInv, Shows, Rests, Pad!IsCurrent, Pad!Answered, Pad!Current
<1>4. Floor(d)' = Floor(d)
  BY DEF Floor, Rests, Pad!IsCurrent, Pad!Current
<1>5. Owned(d)'
  BY <1>4 DEF PageInv, Owned, Rests, Pad!IsCurrent, Pad!Current, Grows
<1> QED
  BY <1>1, <1>r, <1>2, <1>3, <1>5 DEF PageInv

\* Nobody knows the version that a save or a restore has made.
LEMMA MoveRemembers ==
  ASSUME PadTypes, PadTypes', NEW d \in Clients, Remembers(d), Moves,
         calls'[d] = calls[d], chain'[d] = chain[d], timer'[d] = timer[d]
  PROVE  Remembers(d)'
<1>1. version \in Nat /\ epoch \in Nat /\ version' \in Nat /\ epoch' \in Nat
  BY DEF PadTypes
<1>2. ASSUME NEW v \in Learnt, PadPassed(v)
      PROVE  /\ v.epoch < epoch' \/ (v.epoch = epoch' /\ v.version <= version')
             /\ v # Pad!Current'
  BY <1>1, <1>2, PassedMoves DEF PadPassed
<1>3. /\ \A i \in DOMAIN chain[d] : chain[d][i].known \in Learnt
      /\ \A i \in DOMAIN timer[d] : timer[d][i].known \in Learnt
      /\ \A k \in Calls : calls[d][k].known \in Learnt
  <2>1. chain[d] \in Seq(Shot) /\ timer[d] \in Seq(Shot) /\ calls[d] \in [Calls -> Answer]
    BY DEF PadTypes
  <2>2. /\ \A i \in DOMAIN chain[d] : chain[d][i] \in Shot
        /\ \A i \in DOMAIN timer[d] : timer[d][i] \in Shot
    BY <2>1, ElementOf
  <2> QED
    BY <2>1, <2>2 DEF Shot, Answer
<1> QED
  BY <1>2, <1>3 DEF Remembers, PadPassed

LEMMA MoveKeeps ==
  ASSUME PadTypes, PadTypes', NEW d \in Clients, PageInv(d), Rests(d), Moves
  PROVE  PageInv(d)'
<1>1. /\ known[d] \in Learnt /\ list[d] \in Learnt /\ call[d].known \in Learnt
      /\ Pad!Answered(d) \in Learnt
  BY AnsweredOf DEF PadTypes, Call
<1>2. /\ PadPassed(known[d])' /\ PadPassed(list[d])' /\ known[d] # Pad!Current'
      /\ call[d].step # "none" => PadPassed(call[d].known)' /\ call[d].known # Pad!Current'
      /\ call[d].step = "ok" => PadPassed(Pad!Answered(d))' /\ Pad!Answered(d) # Pad!Current'
  <2>1. version \in Nat /\ epoch \in Nat /\ version' \in Nat /\ epoch' \in Nat
    BY DEF PadTypes
  <2>2. ASSUME NEW v \in Learnt, PadPassed(v)
        PROVE  /\ v.epoch < epoch' \/ (v.epoch = epoch' /\ v.version <= version')
               /\ v # Pad!Current'
    BY <2>1, <2>2, PassedMoves DEF PadPassed
  <2>3. Pad!Answered(d)' = Pad!Answered(d) /\ known[d]' = known[d] /\ list[d]' = list[d]
        /\ call[d]' = call[d]
    BY DEF Pad!Answered, Rests
  <2>4. /\ PadPassed(known[d]) /\ PadPassed(list[d])
        /\ (call[d].step # "none" => PadPassed(call[d].known))
        /\ (call[d].step = "ok" => PadPassed(Pad!Answered(d)))
    BY DEF PageInv, Past
  <2> QED
    BY <1>1, <2>2, <2>3, <2>4 DEF PadPassed
<1>3. Past(d)'
  BY <1>2 DEF Past, Rests, PadPassed, Pad!Answered
<1>r. Remembers(d)'
  BY MoveRemembers DEF PageInv, Rests
<1>4. Queued(d)'
  BY DEF PageInv, Queued, Rests
<1>5. Shows(d)'
  BY <1>2 DEF Shows, Rests, Pad!Answered
<1>6. Floor(d)' = {} /\ (Pad!IsCurrent(d)' <=> Pad!IsCurrent(d))
  BY <1>2 DEF Floor, Rests, Pad!IsCurrent
<1>7. Owned(d)'
  <2> SUFFICES ASSUME ~astray[d] PROVE Owned(d)'
    BY DEF Owned, Rests
  <2>1. CASE ~Pad!IsCurrent(d)
    BY <1>2, <1>6, <2>1 DEF PageInv, Owned, Rests
  <2>2. CASE Pad!IsCurrent(d)
    <3>1. Grows(chain[d], {}, editor[d]) /\ Grows(timer[d], {}, editor[d])
      BY <2>2, GrowsLess DEF PageInv, Owned
    <3>2. \A i \in DOMAIN chain[d], j \in DOMAIN timer[d] :
            chain[d][i].text \subseteq timer[d][j].text
      BY <2>2 DEF PageInv, Owned
    <3>3. (call'[d].step = "sent" => call'[d].known # Pad!Current') /\
          Floor(d)' \subseteq editor'[d]
      BY <1>2, <1>6 DEF Rests
    <3>4. Grows(chain[d], {}, editor[d])' /\ Grows(timer[d], {}, editor[d])'
      BY <3>1 DEF Rests, Grows
    <3>5. \A i \in DOMAIN chain'[d], j \in DOMAIN timer'[d] :
            chain'[d][i].text \subseteq timer'[d][j].text
      BY <3>2 DEF Rests
    <3> QED
      BY <1>6, <2>2, <3>3, <3>4, <3>5 DEF Owned
  <2> QED
    BY <2>1, <2>2
<1> QED
  BY <1>3, <1>r, <1>4, <1>5, <1>7 DEF PageInv

\* A step of one page, and of the server in between.
LEMMA OnePage ==
  ASSUME NEW c \in Clients, PadInv, PadTypes', UNCHANGED <<text, version, epoch>>,
         \A d \in Clients \ {c} : Rests(d), PageInv(c)'
  PROVE  PadInv'
<1>1. \A d \in Clients \ {c} : PageInv(d)'
  BY RestKeeps DEF PadInv
<1> QED
  BY <1>1 DEF PadInv

-----------------------------------------------------------------------------
(* Types.                                                                  *)

\* What a page puts into a queue, and what it takes out.
LEMMA SnapshotTypes ==
  ASSUME PadTypes
  PROVE  /\ \A s \in SUBSET Edits, v \in Learnt, b \in BOOLEAN :
              /\ [text |-> s, known |-> v, awaited |-> b] \in Shot
              /\ [text |-> s, known |-> v, awaited |-> b].text = s
              /\ [text |-> s, known |-> v, awaited |-> b].known = v
         /\ Pad!NoVersion \in Learnt /\ Pad!NoCall \in Call /\ Pad!NoCall.step = "none"
         /\ \A d \in Clients : chain[d] # <<>> =>
              Head(chain[d]) \in Shot /\ Tail(chain[d]) \in Seq(Shot)
<1>1. Pad!NoVersion \in Learnt /\ Pad!NoCall \in Call /\ Pad!NoCall.step = "none"
  BY DEF Pad!NoCall, Call, Pad!NoVersion, Learnt
<1>2. \A s \in SUBSET Edits, v \in Learnt, b \in BOOLEAN :
        /\ [text |-> s, known |-> v, awaited |-> b] \in Shot
        /\ [text |-> s, known |-> v, awaited |-> b].text = s
        /\ [text |-> s, known |-> v, awaited |-> b].known = v
  BY DEF Shot
<1>3. \A d \in Clients : chain[d] # <<>> =>
        Head(chain[d]) \in Shot /\ Tail(chain[d]) \in Seq(Shot)
  <2> HIDE DEF Shot
  <2> QED
    BY TailOf DEF PadTypes
<1> QED
  BY <1>1, <1>2, <1>3

\* A call that begins, goes on or ends; only GetPad brings an answer.
Forgets(d) == \A k \in Calls : calls'[d][k] = calls[d][k] \/ calls'[d][k].step # "answered"

LEMMA GotoTypes ==
  ASSUME PadTypes, NEW c \in Clients, NEW k \in Calls, NEW step \in Pad!Awaits \ {"answered"},
         Pad!Goto(c, k, step)
  PROVE  /\ calls' \in [Clients -> [Calls -> Answer]] /\ Forgets(c)
         /\ \A d \in Clients \ {c} : calls'[d] = calls[d]
<1>1. [Pad!Idle EXCEPT !.step = step] = [step |-> step, text |-> {}, known |-> Pad!NoVersion]
  BY DEF Pad!Idle
<1>2. Pad!NoVersion \in Learnt
  BY DEF Pad!NoVersion, Learnt
<1>3. [Pad!Idle EXCEPT !.step = step] \in Answer /\ [Pad!Idle EXCEPT !.step = step].step = step
  BY <1>1, <1>2 DEF Answer
<1> DEFINE r == [Pad!Idle EXCEPT !.step = step]
<1> HIDE DEF r, Answer
<1>4. r \in Answer /\ r.step # "answered" /\ calls' = [calls EXCEPT ![c][k] = r]
      /\ calls \in [Clients -> [Calls -> Answer]]
  BY <1>3 DEF r, Pad!Goto, PadTypes
<1> QED
  BY <1>4 DEF Forgets

LEMMA LoadedTypes ==
  ASSUME PadTypes, NEW c \in Clients, NEW v \in Pad!Loaded(c)
  PROVE  v \in Learnt /\ (PadPassed(list[c]) => PadPassed(v))
<1>1. Pad!NoVersion \in Learnt /\ PadPassed(Pad!NoVersion)
  BY DEF Pad!NoVersion, Learnt, PadPassed, PadTypes
<1>2. Pad!Current \in Learnt /\ PadPassed(Pad!Current) /\ list[c] \in Learnt
  BY PassedCurrent DEF PadTypes
<1>3. v = list[c] \/ v = Pad!NoVersion \/ v = Pad!Current
  BY DEF Pad!Loaded
<1> QED
  BY <1>1, <1>2, <1>3

LEMMA NextTypes == ASSUME PadInv, [Pad!Next]_Pad!vars PROVE PadTypes'
<1> USE DEF PadTypes, Pad!server, Pad!page
<1>t. PadTypes
  BY DEF PadInv
<1>a. /\ \A s \in SUBSET Edits, v \in Learnt, b \in BOOLEAN :
           [text |-> s, known |-> v, awaited |-> b] \in Shot
      /\ Pad!NoVersion \in Learnt /\ Pad!NoCall \in Call
      /\ \A d \in Clients : chain[d] # <<>> =>
           Head(chain[d]) \in Shot /\ Tail(chain[d]) \in Seq(Shot)
  BY <1>t, SnapshotTypes
<1>b. Pad!Current \in Learnt
  BY <1>t, PassedCurrent
<1>c. \A d \in Clients : Pad!Answered(d) \in Learnt
  BY <1>t, AnsweredOf
<1>d. \A v \in Call, t \in {"conflict", "failed"} : [v EXCEPT !.step = t] \in Call
  BY DEF Call
<1>e. \A v \in Learnt, t \in {"sent", "ok"} : [step |-> t, known |-> v] \in Call
  BY DEF Call
<1>f. \A q \in Seq(Shot), r \in Seq(Shot) : q \o r \in Seq(Shot)
  <2> HIDE DEF Shot
  <2> QED
    OBVIOUS
<1>g. \A q \in Seq(Shot), s \in Shot :
        Append(q, s) \in Seq(Shot) /\ <<s>> \in Seq(Shot) /\ <<>> \in Seq(Shot)
  <2> HIDE DEF Shot
  <2> QED
    OBVIOUS
<1>h. \A d \in Clients : call[d].step # "none" => chain[d] # <<>>
  BY DEF PadInv, PageInv, Queued
<1>i. \A c \in Clients : \A v \in Pad!Loaded(c) : v \in Learnt
  BY <1>t, LoadedTypes
<1>j. ASSUME NEW c \in Clients, NEW k \in Calls, NEW step \in Pad!Awaits \ {"answered"},
             Pad!Goto(c, k, step)
      PROVE  calls' \in [Clients -> [Calls -> Answer]]
  BY <1>t, <1>j, GotoTypes
<1>k. ASSUME NEW c \in Clients, Pad!StopTimer(c) PROVE timer' \in [Clients -> Seq(Shot)]
  BY <1>t, <1>k DEF Pad!StopTimer
<1>l. ASSUME NEW c \in Clients, NEW v \in Learnt, NEW s \in SUBSET Edits, Pad!Show(c, v, s)
      PROVE  /\ known' \in [Clients -> Learnt] /\ editor' \in [Clients -> SUBSET Edits]
             /\ dirty' \in [Clients -> BOOLEAN] /\ astray' \in [Clients -> BOOLEAN]
             /\ UNCHANGED timer
  BY <1>t, <1>l DEF Pad!Show, Pad!Outstanding
<1> HIDE DEF Shot, Call, Learnt, Pad!NoCall, Pad!Current, Pad!Answered, Pad!Loaded, Answer
<1>1. ASSUME NEW c \in Clients, Pad!UpdatePad(c) PROVE PadTypes'
  <2>1. version' \in Nat
    BY <1>t, <1>1 DEF Pad!UpdatePad
  <2>2. Head(chain[c]).text \in SUBSET Edits
    BY <1>1, <1>a, <1>h DEF Pad!UpdatePad, Shot
  <2>3. call' \in [Clients -> Call]
    <3>1. \/ call' = [call EXCEPT ![c] = [step |-> "ok", known |-> Pad!Current]]
          \/ call' = [call EXCEPT ![c].step = "conflict"]
          \/ call' = [call EXCEPT ![c].step = "failed"]
      BY <1>1 DEF Pad!UpdatePad
    <3>2. call[c] \in Call /\ [step |-> "ok", known |-> Pad!Current] \in Call
      BY <1>t, <1>b, <1>e
    <3> QED
      BY <1>t, <1>d, <3>1, <3>2
  <2> QED
    BY <1>t, <1>1, <2>1, <2>2, <2>3 DEF Pad!UpdatePad
<1>2. ASSUME NEW e \in Edits, Pad!SaveElsewhere(e) PROVE PadTypes'
  BY <1>t, <1>2 DEF Pad!SaveElsewhere
<1>3. ASSUME NEW c \in Clients, Pad!CallFails(c) PROVE PadTypes'
  BY <1>t, <1>3, <1>d DEF Pad!CallFails
<1>4. CASE Pad!Trash
  BY <1>t, <1>4 DEF Pad!Trash
<1>5. CASE Pad!Backup
  BY <1>t, <1>5 DEF Pad!Backup
<1>6. CASE Pad!Restore
  BY <1>t, <1>6 DEF Pad!Restore
<1>7. ASSUME NEW c \in Clients, NEW e \in Edits, Pad!Type(c, e) PROVE PadTypes'
  <2>1. editor' \in [Clients -> SUBSET Edits] /\ editor'[c] \in SUBSET Edits
    BY <1>t, <1>7 DEF Pad!Type
  <2>2. Pad!PadSnapshot(c, FALSE) \in Shot
    BY <1>t, <1>a, <2>1 DEF Pad!PadSnapshot
  <2> HIDE DEF Pad!PadSnapshot
  <2> QED
    BY <1>t, <1>7, <1>g, <2>1, <2>2 DEF Pad!Type
<1>8. ASSUME NEW c \in Clients, Pad!TimerFires(c) PROVE PadTypes'
  BY <1>t, <1>8, <1>a, <1>f, <1>g, <1>k DEF Pad!TimerFires
<1>9. ASSUME NEW c \in Clients, NEW b \in BOOLEAN, Pad!Enqueue(c, b), UNCHANGED editor
      PROVE  timer' \in [Clients -> Seq(Shot)] /\ chain' \in [Clients -> Seq(Shot)]
  <2>1. Pad!PadSnapshot(c, b) \in Shot
    BY <1>t, <1>9, <1>a DEF Pad!PadSnapshot
  <2>2. <<>> \in Seq(Shot)
    BY <1>g, <2>1
  <2> HIDE DEF Pad!PadSnapshot
  <2> QED
    BY <1>t, <1>9, <1>g, <1>k, <2>1, <2>2 DEF Pad!Enqueue
<1>10. ASSUME NEW c \in Clients, Pad!SavePad(c) PROVE PadTypes'
  BY <1>t, <1>10, <1>9 DEF Pad!SavePad
<1>11. ASSUME NEW c \in Clients, Pad!SendSave(c) PROVE PadTypes'
  <2>1. Head(chain[c]).known \in Learnt
    BY <1>11, <1>a DEF Pad!SendSave, Shot
  <2>2. Pad!KnownVersion(c) \in Learnt
    BY <1>t, <2>1 DEF Pad!KnownVersion
  <2> QED
    BY <1>t, <1>11, <1>e, <2>2 DEF Pad!SendSave
<1>12. ASSUME NEW c \in Clients, NEW saved, Pad!Finish(c, saved), call[c].step # "none"
       PROVE  /\ chain' \in [Clients -> Seq(Shot)] /\ call' \in [Clients -> Call]
              /\ calls' \in [Clients -> [Calls -> Answer]] /\ timer' \in [Clients -> Seq(Shot)]
  <2>1. Tail(chain[c]) \in Seq(Shot)
    BY <1>12, <1>a, <1>h
  <2>2. chain' \in [Clients -> Seq(Shot)] /\ call' \in [Clients -> Call]
    BY <1>t, <1>12, <1>a, <2>1 DEF Pad!Finish
  <2>3. CASE \E k \in Calls : Pad!GoesOn(c, k, "leaving")
    BY <2>2, <2>3, <1>j, <1>k DEF Pad!GoesOn, Pad!Awaits
  <2>4. CASE \E k \in Calls : Pad!CalledOff(c, k)
    BY <1>t, <2>2, <2>4, <1>j DEF Pad!CalledOff, Pad!Awaits
  <2>5. CASE UNCHANGED <<calls, timer>>
    BY <1>t, <2>2, <2>5
  <2> QED
    BY <1>12, <2>3, <2>4, <2>5 DEF Pad!Finish
<1>13. ASSUME NEW c \in Clients, Pad!Saved(c) PROVE PadTypes'
  <2>1. /\ chain' \in [Clients -> Seq(Shot)] /\ call' \in [Clients -> Call]
        /\ calls' \in [Clients -> [Calls -> Answer]] /\ timer' \in [Clients -> Seq(Shot)]
        /\ UNCHANGED <<Pad!server, used, editor, astray>>
    BY <1>13, <1>12 DEF Pad!Saved, Pad!Finish
  <2>2. list' \in [Clients -> Learnt] /\ known' \in [Clients -> Learnt]
        /\ dirty' \in [Clients -> BOOLEAN]
    BY <1>t, <1>13, <1>c DEF Pad!Saved
  <2> QED
    BY <1>t, <2>1, <2>2
<1>14. ASSUME NEW c \in Clients, Pad!NotSaved(c) PROVE PadTypes'
  <2>1. /\ chain' \in [Clients -> Seq(Shot)] /\ call' \in [Clients -> Call]
        /\ calls' \in [Clients -> [Calls -> Answer]] /\ timer' \in [Clients -> Seq(Shot)]
        /\ UNCHANGED <<Pad!server, used, editor, astray>>
    BY <1>14, <1>12 DEF Pad!NotSaved, Pad!Finish
  <2>2. list' \in [Clients -> Learnt] /\ UNCHANGED <<known, dirty>>
    BY <1>t, <1>14, <1>i DEF Pad!NotSaved
  <2> QED
    BY <1>t, <2>1, <2>2
<1>15. ASSUME NEW c \in Clients, Pad!LoadPads(c) PROVE PadTypes'
  BY <1>t, <1>15, <1>i DEF Pad!LoadPads
<1>16. ASSUME NEW c \in Clients, NEW k \in Calls, Pad!SelectOther(c, k) PROVE PadTypes'
  <2>1. calls' \in [Clients -> [Calls -> Answer]]
    BY <1>16, <1>j DEF Pad!SelectOther, Pad!GoesOn, Pad!Awaits
  <2>2. timer' \in [Clients -> Seq(Shot)] /\ chain' \in [Clients -> Seq(Shot)]
    BY <1>t, <1>16, <1>9, <1>k DEF Pad!SelectOther, Pad!GoesOn
  <2> QED
    BY <1>t, <1>16, <2>1, <2>2 DEF Pad!SelectOther
<1>17. ASSUME NEW c \in Clients, NEW k \in Calls, Pad!SelectPad(c, k) \/ Pad!Waited(c, k)
    PROVE PadTypes'
  <2>1. calls' \in [Clients -> [Calls -> Answer]] /\ timer' \in [Clients -> Seq(Shot)]
    BY <1>t, <1>17, <1>j, <1>k
    DEF Pad!SelectPad, Pad!Waited, Pad!GoesOn, Pad!CalledOff, Pad!Awaits
  <2> QED
    BY <1>t, <1>17, <2>1 DEF Pad!SelectPad, Pad!Waited
<1>18. ASSUME NEW c \in Clients, NEW k \in Calls, Pad!AwaitFails(c, k) PROVE PadTypes'
  BY <1>t, <1>18, <1>j DEF Pad!AwaitFails, Pad!Awaits
<1>19. ASSUME NEW c \in Clients, Pad!UseOther(c) PROVE PadTypes'
  BY <1>t, <1>19, <1>k DEF Pad!UseOther
<1>20. ASSUME NEW c \in Clients, NEW k \in Calls, Pad!ShowOther(c, k) PROVE PadTypes'
  BY <1>t, <1>20, <1>a, <1>j, <1>l DEF Pad!ShowOther, Pad!Awaits
<1>21. ASSUME NEW c \in Clients, NEW k \in Calls, Pad!GetPad(c, k) PROVE PadTypes'
  <2> DEFINE r == [step |-> "answered", text |-> text, known |-> Pad!Current]
  <2>1. r \in Answer
    BY <1>t, <1>b DEF Answer, Pad!Awaits
  <2>2. calls' = [calls EXCEPT ![c][k] = r]
    BY <1>21 DEF Pad!GetPad
  <2> HIDE DEF r
  <2>3. calls' \in [Clients -> [Calls -> Answer]]
    BY <1>t, <2>1, <2>2
  <2> QED
    BY <1>t, <1>21, <2>3 DEF Pad!GetPad
<1>22. ASSUME NEW c \in Clients, NEW k \in Calls, Pad!ShowPad(c, k) PROVE PadTypes'
  <2>1. calls[c][k].known \in Learnt /\ calls[c][k].text \in SUBSET Edits
    BY <1>t, <1>22 DEF Answer
  <2> QED
    BY <1>t, <1>22, <1>j, <1>l, <2>1 DEF Pad!ShowPad, Pad!Awaits
<1>23. ASSUME NEW c \in Clients, NEW k \in Calls, Pad!DeletePad(c, k) PROVE PadTypes'
  BY <1>t, <1>23, <1>j, <1>k DEF Pad!DeletePad, Pad!GoesOn, Pad!Awaits
<1>24. ASSUME NEW c \in Clients, NEW k \in Calls, Pad!TrashPad(c, k) \/ Pad!PadDeleted(c, k)
    PROVE PadTypes'
  <2>1. CASE Pad!TrashPad(c, k)
    BY <1>t, <2>1, <1>j DEF Pad!TrashPad, Pad!Awaits
  <2>2. CASE Pad!PadDeleted(c, k)
    BY <1>t, <2>2, <1>a, <1>i, <1>j, <1>l DEF Pad!PadDeleted, Pad!Awaits
  <2> QED
    BY <1>24, <2>1, <2>2
<1>25. CASE UNCHANGED Pad!vars
  BY <1>t, <1>25 DEF Pad!vars
<1> QED
  BY <1>1, <1>2, <1>3, <1>4, <1>5, <1>6, <1>7, <1>8, <1>10, <1>11, <1>13, <1>14, <1>15, <1>16,
     <1>17, <1>18, <1>19, <1>20, <1>21, <1>22, <1>23, <1>24, <1>25
  DEF Pad!Next

-----------------------------------------------------------------------------
(* The server.                                                             *)

LEMMA UpdatePadKeeps ==
  ASSUME PadInv, PadTypes', NEW c \in Clients, Pad!UpdatePad(c)
  PROVE  PadInv' /\ Pad!SaveKeepsEdits
<1>t. /\ PadTypes /\ PageInv(c) /\ version \in Nat /\ epoch \in Nat
      /\ call[c] \in Call /\ call[c].known \in Learnt /\ call[c].step = "sent"
      /\ call \in [Clients -> Call]
  BY DEF PadInv, PadTypes, Call, Pad!UpdatePad
<1>a. chain[c] # <<>>
  BY <1>t DEF PageInv, Queued
<1>b. /\ UNCHANGED <<calls, known, editor, dirty, list, timer, chain, astray, epoch>>
      /\ \A d \in Clients \ {c} : Rests(d)
  BY <1>t DEF Pad!UpdatePad, Rests, Pad!page
<1>1. CASE live /\ call[c].known.version = version
  <2>1. /\ text' = Head(chain[c]).text /\ version' = version + 1
        /\ call'[c] = [step |-> "ok", known |-> Pad!Current]
    BY <1>t, <1>1 DEF Pad!UpdatePad
  <2>2. Moves
    BY <1>t, <1>b, <2>1 DEF Moves
  <2>3. \A d \in Clients \ {c} : PageInv(d)'
    BY <1>t, <1>b, <2>2, MoveKeeps DEF PadInv
  <2>4. Pad!Answered(c)' = Pad!Current' /\ PadPassed(Pad!Current)' /\ Pad!Current \in Learnt
    <3>1. call'[c].known = Pad!Current
      BY <2>1
    <3>2. Pad!Answered(c)' = [Pad!Current EXCEPT !.version = @ + 1]
      BY <3>1 DEF Pad!Answered
    <3>3. [Pad!Current EXCEPT !.version = @ + 1] = [version |-> version + 1, epoch |-> epoch]
      BY DEF Pad!Current
    <3>4. Pad!Current' = [version |-> version + 1, epoch |-> epoch]
      BY <1>b, <2>1 DEF Pad!Current
    <3>5. PadPassed(Pad!Current)' /\ Pad!Current \in Learnt
      BY <1>t, <1>b, <2>1 DEF PadPassed, Pad!Current, Learnt
    <3> QED
      BY <3>2, <3>3, <3>4, <3>5
  <2>5. PadPassed(known[c])' /\ PadPassed(list[c])' /\ known'[c] # Pad!Current'
    <3>1. /\ known[c] \in Learnt /\ list[c] \in Learnt
          /\ PadPassed(known[c]) /\ PadPassed(list[c])
      BY <1>t DEF PadTypes, PageInv, Past
    <3> QED
      BY <1>b, <1>t, <2>1, <3>1 DEF PadPassed, Learnt, Pad!Current
  <2>6. PadPassed(call[c].known)' /\ PadPassed(Pad!Answered(c))'
    BY <1>b, <1>t, <2>1, <2>4 DEF PadPassed, Pad!Current
  <2>7. Past(c)'
    BY <2>5, <2>6 DEF Past
  <2>r. Remembers(c)'
    BY <1>t, <1>b, <2>2, MoveRemembers DEF PageInv
  <2>8. Queued(c)'
    BY <1>a, <1>b, <1>t DEF PageInv, Queued
  <2>9. Shows(c)'
    BY <1>b, <2>1, <2>5 DEF Shows
  <2>10. Owned(c)'
    <3>1. Floor(c)' = {} /\ call'[c].step # "sent" /\ (Pad!IsCurrent(c)' <=> Pad!IsCurrent(c))
      BY <1>b, <2>1, <2>5 DEF Floor, Pad!IsCurrent
    <3> SUFFICES ASSUME ~astray[c] PROVE Owned(c)'
      BY <1>b DEF Owned
    <3>2. CASE ~Pad!IsCurrent(c)
      BY <1>b, <1>t, <3>1, <3>2 DEF PageInv, Owned
    <3>3. CASE Pad!IsCurrent(c)
      <4>1. Grows(chain[c], {}, editor[c]) /\ Grows(timer[c], {}, editor[c])
        BY <1>t, <3>3, GrowsLess DEF PageInv, Owned
      <4> QED
        BY <1>b, <1>t, <3>1, <3>3, <4>1 DEF PageInv, Owned, Grows
    <3> QED
      BY <3>2, <3>3
  <2>11. Pad!SaveKeepsEdits
    <3>1. CASE astray[c] \/ call[c].known.epoch # epoch
      BY <1>t, <2>1, <3>1 DEF Pad!SaveKeepsEdits, Pad!Excused
    <3>2. CASE ~astray[c] /\ call[c].known.epoch = epoch
      <4>1. call[c].known = Pad!Current
        BY <1>t, <1>1, <3>2 DEF Pad!Current, Learnt
      <4>2. text \subseteq Head(chain[c]).text
        BY <1>t, <3>2, <4>1 DEF PageInv, Owned
      <4> QED
        BY <2>1, <4>2 DEF Pad!SaveKeepsEdits
    <3> QED
      BY <3>1, <3>2
  <2>12. PageInv(c)'
    BY <2>7, <2>r, <2>8, <2>9, <2>10 DEF PageInv
  <2> QED
    BY <2>3, <2>11, <2>12 DEF PadInv
<1>2. CASE ~(live /\ call[c].known.version = version)
  <2>1. UNCHANGED <<text, version, epoch>>
    BY <1>2 DEF Pad!UpdatePad
  <2>2. call'[c].step \in {"conflict", "failed"} /\ call'[c].known = call[c].known
    BY <1>t, <1>2 DEF Pad!UpdatePad, Call
  <2>3. Past(c)' /\ Queued(c)' /\ Shows(c)'
    BY <1>a, <1>b, <1>t, <2>1, <2>2
    DEF PageInv, Past, PadPassed, Queued, Shows, Pad!IsCurrent, Pad!Current
  <2>r. Remembers(c)'
    BY <1>t, <1>b, <2>1 DEF PageInv, Remembers, PadPassed, Pad!Current
  <2>4. Floor(c)' = Floor(c)
    BY <1>b, <2>1 DEF Floor, Pad!IsCurrent, Pad!Current
  <2>5. Owned(c)'
    BY <1>b, <1>t, <2>1, <2>2, <2>4 DEF PageInv, Owned, Pad!IsCurrent, Grows
  <2>6. PageInv(c)'
    BY <2>3, <2>r, <2>5 DEF PageInv
  <2> QED
    BY <1>b, <2>1, <2>6, OnePage DEF Pad!SaveKeepsEdits
<1> QED
  BY <1>1, <1>2

\* A save from elsewhere or a restore: the version is new to every page.
LEMMA ServerMoves ==
  ASSUME PadInv, PadTypes', Moves,
         UNCHANGED <<calls, known, editor, dirty, list, timer, chain, call, astray>>
  PROVE  PadInv'
<1>1. \A d \in Clients : Rests(d)
  BY DEF Rests
<1> QED
  BY <1>1, MoveKeeps DEF PadInv

\* The pad enters or leaves the trash, or a package is made of it.
LEMMA ServerRests ==
  ASSUME PadInv, PadTypes', UNCHANGED <<text, version, epoch>>,
         UNCHANGED <<calls, known, editor, dirty, list, timer, chain, call, astray>>
  PROVE  PadInv'
<1>1. \A d \in Clients : Rests(d)
  BY DEF Rests
<1> QED
  BY <1>1, RestKeeps DEF PadInv

-----------------------------------------------------------------------------
(* Typing and saving.                                                      *)

LEMMA TypeKeeps ==
  ASSUME PadInv, PadTypes', NEW c \in Clients, NEW e \in Edits, Pad!Type(c, e)
  PROVE  PadInv'
<1>t. /\ PadTypes /\ PageInv(c) /\ editor[c] \in SUBSET Edits /\ Pad!IsCurrent(c)
  BY DEF PadInv, PadTypes, Pad!Type
<1>a. /\ UNCHANGED <<text, version, epoch, calls, known, list, chain, call, astray>>
      /\ editor'[c] = editor[c] \union {e} /\ dirty'[c] = TRUE
      /\ IF blocked[c] THEN timer' = timer ELSE timer'[c] = <<Pad!PadSnapshot(c, FALSE)>>
      /\ \A d \in Clients \ {c} : Rests(d)
  BY <1>t DEF Pad!Type, Pad!server, PadTypes, Rests
<1>b. Pad!PadSnapshot(c, FALSE) \in Shot /\ Pad!PadSnapshot(c, FALSE).text = editor'[c]
      /\ Pad!PadSnapshot(c, FALSE).known = known[c]
  <2>1. editor'[c] \in SUBSET Edits /\ known[c] \in Learnt
    BY <1>t DEF PadTypes
  <2> QED
    BY <1>t, <2>1, SnapshotTypes DEF Pad!PadSnapshot
<1> HIDE DEF Pad!PadSnapshot, Shot
<1>1. Past(c)' /\ Shows(c)'
  BY <1>t, <1>a DEF PageInv, Past, PadPassed, Shows, Pad!Answered, Pad!Current, Pad!IsCurrent
<1>r. Remembers(c)'
  <2>1. \A i \in DOMAIN timer'[c] : PadPassed(timer'[c][i].known)
    <3>1. CASE timer' = timer
      BY <1>t, <3>1 DEF PageInv, Remembers
    <3>2. CASE timer'[c] = <<Pad!PadSnapshot(c, FALSE)>>
      BY <1>t, <1>b, <3>2, OneOf DEF PageInv, Past
    <3> QED
      BY <1>a, <3>1, <3>2
  <2> QED
    BY <1>t, <1>a, <2>1 DEF PageInv, Remembers, PadPassed, Pad!Current
<1>2. Queued(c)'
  <2>1. timer'[c] = <<>> \/ \E s \in Shot : timer'[c] = <<s>>
    BY <1>t, <1>a, <1>b DEF PageInv, Queued
  <2> QED
    BY <1>t, <1>a, <2>1 DEF PageInv, Queued
<1>3. Owned(c)'
  <2> SUFFICES ASSUME ~astray[c] PROVE Owned(c)'
    BY <1>a DEF Owned
  <2>1. Floor(c)' = Floor(c) /\ Pad!IsCurrent(c)'
    BY <1>t, <1>a DEF Floor, Pad!IsCurrent, Pad!Current
  <2>2. /\ Floor(c) \subseteq editor[c] /\ Grows(chain[c], Floor(c), editor[c])
        /\ Grows(timer[c], Floor(c), editor[c])
        /\ \A i \in DOMAIN chain[c], j \in DOMAIN timer[c] :
             chain[c][i].text \subseteq timer[c][j].text
    BY <1>t DEF PageInv, Owned
  <2>3. editor[c] \subseteq editor'[c] /\ Floor(c) \subseteq editor'[c]
    BY <1>a, <2>2
  <2>4. Grows(chain[c], Floor(c), editor'[c])
    BY <2>2, <2>3, GrowsLess
  <2>5. Grows(timer'[c], Floor(c), editor'[c])
    <3>1. CASE timer' = timer
      BY <2>2, <2>3, <3>1, GrowsLess
    <3>2. CASE timer'[c] = <<Pad!PadSnapshot(c, FALSE)>>
      BY <1>b, <2>3, <3>2, GrowsOne
    <3> QED
      BY <1>a, <3>1, <3>2
  <2>6. \A i \in DOMAIN chain[c], j \in DOMAIN timer'[c] :
          chain[c][i].text \subseteq timer'[c][j].text
    <3>1. CASE timer' = timer
      BY <2>2, <3>1
    <3>2. CASE timer'[c] = <<Pad!PadSnapshot(c, FALSE)>>
      <4>1. \A j \in DOMAIN timer'[c] : timer'[c][j] = Pad!PadSnapshot(c, FALSE)
        BY <3>2, OneOf
      <4>2. \A i \in DOMAIN chain[c] : chain[c][i].text \subseteq editor'[c]
        BY <2>4 DEF Grows
      <4> QED
        BY <1>b, <4>1, <4>2
    <3> QED
      BY <1>a, <3>1, <3>2
  <2>7. Grows(chain[c], Floor(c), editor[c])' /\ Grows(timer[c], Floor(c), editor[c])'
    BY <1>a, <2>1, <2>4, <2>5 DEF Grows
  <2>8. call'[c].step = "sent" /\ call'[c].known = Pad!Current' =>
        text' \subseteq Head(chain'[c]).text
    BY <1>t, <1>a DEF PageInv, Owned, Pad!Current
  <2> QED
    BY <1>a, <2>1, <2>3, <2>6, <2>7, <2>8 DEF Owned
<1>4. PageInv(c)'
  BY <1>1, <1>r, <1>2, <1>3 DEF PageInv
<1> QED
  BY <1>a, <1>4, OnePage

\* What the page queues is what it shows.
LEMMA EnqueueKeeps ==
  ASSUME PadInv, PadTypes', NEW c \in Clients, NEW awaited \in BOOLEAN, Pad!IsCurrent(c),
         Pad!Enqueue(c, awaited), UNCHANGED <<Pad!server, known, editor, dirty, list, call,
           astray>>,
         \A d \in Clients \ {c} : calls'[d] = calls[d], Forgets(c)
  PROVE  PadInv'
<1> DEFINE s == Pad!PadSnapshot(c, awaited)
<1>t. /\ PadTypes /\ PageInv(c) /\ editor[c] \in SUBSET Edits /\ chain[c] \in Seq(Shot)
  BY DEF PadInv, PadTypes
<1>a. /\ UNCHANGED <<text, version, epoch, known, editor, dirty, list, call, astray>>
      /\ chain'[c] = Append(chain[c], s) /\ timer'[c] = <<>>
      /\ \A d \in Clients \ {c} : Rests(d)
      /\ Pad!IsCurrent(c)'
  BY <1>t DEF Pad!Enqueue, Pad!StopTimer, Pad!server, PadTypes, Rests, Pad!IsCurrent
<1>b. s \in Shot /\ s.text = editor[c] /\ s.known = known[c]
  <2>1. editor'[c] = editor[c] /\ known[c] \in Learnt
    BY <1>t, <1>a DEF PadTypes
  <2> QED
    BY <1>t, <2>1, SnapshotTypes DEF Pad!PadSnapshot
<1> HIDE DEF s, Shot
<1>c. /\ chain'[c] # <<>> /\ DOMAIN chain[c] = 1..Len(chain[c]) /\ Len(chain[c]) \in Nat
      /\ \A i \in DOMAIN chain'[c] :
           \/ i \in DOMAIN chain[c] /\ chain'[c][i] = chain[c][i]
           \/ i = Len(chain[c]) + 1 /\ chain'[c][i] = s
      /\ chain[c] # <<>> => Head(chain'[c]) = Head(chain[c])
  BY <1>t, <1>a, <1>b, AppendOf
<1>1. Past(c)'
  BY <1>t, <1>a DEF PageInv, Past, PadPassed, Pad!Answered
<1>r. Remembers(c)'
  <2>1. \A i \in DOMAIN chain'[c] : PadPassed(chain'[c][i].known)
    BY <1>t, <1>b, <1>c DEF PageInv, Remembers, Past
  <2> QED
    BY <1>t, <1>a, <2>1 DEF PageInv, Remembers, PadPassed, Pad!Current, Forgets
<1>2. Queued(c)'
  BY <1>a, <1>c DEF Queued
<1>3. Shows(c)'
  <2>1. call[c].step = "ok" => chain[c] # <<>>
    BY <1>t DEF PageInv, Queued
  <2> QED
    BY <1>t, <1>a, <1>c, <2>1 DEF PageInv, Shows, Pad!Answered, Pad!Current, Pad!IsCurrent
<1>4. Owned(c)'
  <2> SUFFICES ASSUME ~astray[c] PROVE Owned(c)'
    BY <1>a DEF Owned
  <2>1. Floor(c)' = Floor(c)
    BY <1>a DEF Floor, Pad!Current
  <2>2. Floor(c) \subseteq editor[c] /\ Grows(chain[c], Floor(c), editor[c])
    BY <1>t DEF PageInv, Owned
  <2>3. Grows(Append(chain[c], s), Floor(c), editor[c])
    <3>1. \A i \in DOMAIN chain[c] : chain[c][i].text \subseteq s.text
      BY <1>b, <2>2 DEF Grows
    <3> QED
      BY <1>t, <1>b, <2>2, <3>1, GrowsAppend
  <2>4. Grows(chain[c], Floor(c), editor[c])' /\ Grows(timer[c], Floor(c), editor[c])'
    BY <1>a, <2>1, <2>3, GrowsEmpty DEF Grows
  <2>5. \A i \in DOMAIN chain'[c], j \in DOMAIN timer'[c] :
          chain'[c][i].text \subseteq timer'[c][j].text
    BY <1>a
  <2>6. call'[c].step = "sent" /\ call'[c].known = Pad!Current' =>
        text' \subseteq Head(chain'[c]).text
    <3>1. call[c].step = "sent" => chain[c] # <<>>
      BY <1>t DEF PageInv, Queued
    <3> QED
      BY <1>t, <1>a, <1>c, <3>1 DEF PageInv, Owned, Pad!Current
  <2> QED
    BY <1>a, <2>1, <2>2, <2>4, <2>5, <2>6 DEF Owned
<1>5. PageInv(c)'
  BY <1>1, <1>r, <1>2, <1>3, <1>4 DEF PageInv
<1> QED
  BY <1>a, <1>5, OnePage

LEMMA TimerFiresKeeps ==
  ASSUME PadInv, PadTypes', NEW c \in Clients, Pad!TimerFires(c)
  PROVE  PadInv'
<1>t. /\ PadTypes /\ PageInv(c) /\ chain[c] \in Seq(Shot) /\ timer[c] # <<>>
  BY DEF PadInv, PadTypes, Pad!TimerFires
<1> HIDE DEF Shot
<1>1. PICK s \in Shot : timer[c] = <<s>>
  BY <1>t DEF PageInv, Queued
<1>a. /\ UNCHANGED <<text, version, epoch, calls, known, editor, dirty, list, call, astray>>
      /\ chain'[c] = Append(chain[c], s) /\ timer'[c] = <<>>
      /\ \A d \in Clients \ {c} : Rests(d)
  <2>1. /\ UNCHANGED <<text, version, epoch, calls, known, editor, dirty, list, call, astray>>
        /\ chain'[c] = chain[c] \o timer[c] /\ timer'[c] = <<>>
        /\ \A d \in Clients \ {c} : Rests(d)
    BY <1>t DEF Pad!TimerFires, Pad!StopTimer, Pad!server, PadTypes, Rests
  <2>2. chain[c] \o <<s>> = Append(chain[c], s)
    BY <1>t
  <2> QED
    BY <1>1, <2>1, <2>2
<1>c. /\ chain'[c] # <<>> /\ DOMAIN chain[c] = 1..Len(chain[c]) /\ Len(chain[c]) \in Nat
      /\ \A i \in DOMAIN chain'[c] :
           \/ i \in DOMAIN chain[c] /\ chain'[c][i] = chain[c][i]
           \/ i = Len(chain[c]) + 1 /\ chain'[c][i] = s
      /\ chain[c] # <<>> => Head(chain'[c]) = Head(chain[c])
  BY <1>t, <1>a, AppendOf
<1>2. Past(c)'
  BY <1>t, <1>a DEF PageInv, Past, PadPassed, Pad!Answered
<1>r. Remembers(c)'
  <2>1. PadPassed(s.known)
    BY <1>t, <1>1, OneOf DEF PageInv, Remembers
  <2>2. \A i \in DOMAIN chain'[c] : PadPassed(chain'[c][i].known)
    BY <1>t, <1>c, <2>1 DEF PageInv, Remembers
  <2> QED
    BY <1>t, <1>a, <2>2 DEF PageInv, Remembers, PadPassed, Pad!Current
<1>3. Queued(c)'
  BY <1>a, <1>c DEF Queued
<1>4. Shows(c)'
  <2>1. call[c].step = "ok" => chain[c] # <<>>
    BY <1>t DEF PageInv, Queued
  <2> QED
    BY <1>t, <1>a, <1>c, <2>1 DEF PageInv, Shows, Pad!Answered, Pad!Current, Pad!IsCurrent
<1>5. Owned(c)'
  <2> SUFFICES ASSUME ~astray[c] PROVE Owned(c)'
    BY <1>a DEF Owned
  <2>1. Pad!IsCurrent(c) /\ Pad!IsCurrent(c)' /\ Floor(c)' = Floor(c)
    BY <1>t, <1>a DEF PageInv, Owned, Pad!IsCurrent, Floor, Pad!Current
  <2>2. /\ Floor(c) \subseteq editor[c] /\ Grows(chain[c], Floor(c), editor[c])
        /\ Grows(timer[c], Floor(c), editor[c])
        /\ \A i \in DOMAIN chain[c], j \in DOMAIN timer[c] :
             chain[c][i].text \subseteq timer[c][j].text
    BY <1>t, <2>1 DEF PageInv, Owned
  <2>3. 1 \in DOMAIN timer[c] /\ timer[c][1] = s
    BY <1>1
  <2>4. /\ Floor(c) \subseteq s.text /\ s.text \subseteq editor[c]
        /\ \A i \in DOMAIN chain[c] : chain[c][i].text \subseteq s.text
    BY <2>2, <2>3 DEF Grows
  <2>5. Grows(Append(chain[c], s), Floor(c), editor[c])
    BY <1>t, <2>2, <2>4, GrowsAppend
  <2>6. Grows(chain[c], Floor(c), editor[c])' /\ Grows(timer[c], Floor(c), editor[c])'
    BY <1>a, <2>1, <2>5, GrowsEmpty DEF Grows
  <2>7. \A i \in DOMAIN chain'[c], j \in DOMAIN timer'[c] :
          chain'[c][i].text \subseteq timer'[c][j].text
    BY <1>a
  <2>8. call'[c].step = "sent" /\ call'[c].known = Pad!Current' =>
        text' \subseteq Head(chain'[c]).text
    <3>1. call[c].step = "sent" => chain[c] # <<>>
      BY <1>t DEF PageInv, Queued
    <3> QED
      BY <1>t, <1>a, <1>c, <3>1 DEF PageInv, Owned, Pad!Current
  <2> QED
    BY <1>a, <2>1, <2>2, <2>6, <2>7, <2>8 DEF Owned
<1>6. PageInv(c)'
  BY <1>2, <1>r, <1>3, <1>4, <1>5 DEF PageInv
<1> QED
  BY <1>a, <1>6, OnePage

LEMMA SavePadKeeps ==
  ASSUME PadInv, PadTypes', NEW c \in Clients, Pad!SavePad(c)
  PROVE  PadInv'
<1>1. Forgets(c) /\ \A d \in Clients \ {c} : calls'[d] = calls[d]
  BY DEF Pad!SavePad, Forgets
<1> QED
  BY <1>1, EnqueueKeeps DEF Pad!SavePad

\* A page that shows the pad goes by the version it shows.
LEMMA SendSaveKeeps ==
  ASSUME PadInv, PadTypes', NEW c \in Clients, Pad!SendSave(c)
  PROVE  PadInv'
<1>t. /\ PadTypes /\ PageInv(c) /\ chain[c] \in Seq(Shot) /\ chain[c] # <<>>
  BY DEF PadInv, PadTypes, Pad!SendSave
<1>a. /\ UNCHANGED <<text, version, epoch, calls, known, editor, dirty, list, timer, chain,
         astray>>
      /\ call'[c] = [step |-> "sent", known |-> Pad!KnownVersion(c)]
      /\ \A d \in Clients \ {c} : Rests(d)
  BY <1>t DEF Pad!SendSave, Pad!server, Pad!page, PadTypes, Rests
<1>b. call'[c].step = "sent" /\ call'[c].known = Pad!KnownVersion(c)
  BY <1>a
<1>1. Past(c)'
  <2>1. PadPassed(Head(chain[c]).known)
    BY <1>t, TailOf DEF PageInv, Remembers
  <2>3. PadPassed(Pad!KnownVersion(c))
    BY <1>t, <2>1 DEF PageInv, Past, Pad!KnownVersion
  <2>2. PadPassed(call[c].known)'
    BY <1>a, <1>b, <2>3 DEF PadPassed
  <2> QED
    BY <1>t, <1>a, <1>b, <2>2 DEF PageInv, Past, PadPassed
<1>r. Remembers(c)'
  BY <1>t, <1>a DEF PageInv, Remembers, PadPassed, Pad!Current
<1>2. Queued(c)' /\ Shows(c)'
  BY <1>t, <1>a, <1>b DEF PageInv, Queued, Shows, Pad!IsCurrent, Pad!Current
<1>3. Owned(c)'
  <2> SUFFICES ASSUME ~astray[c] PROVE Owned(c)'
    BY <1>a DEF Owned
  <2>1. Pad!IsCurrent(c) /\ Pad!IsCurrent(c)' /\ Floor(c)' = Floor(c)
    BY <1>t, <1>a DEF PageInv, Owned, Pad!IsCurrent, Floor, Pad!Current
  <2>2. Pad!KnownVersion(c) = Pad!Current => text \subseteq Head(chain[c]).text
    <3> SUFFICES ASSUME Pad!KnownVersion(c) = Pad!Current PROVE text \subseteq Head(chain[c]).text
      OBVIOUS
    <3>k. Pad!KnownVersion(c) = known[c]
      BY <2>1 DEF Pad!KnownVersion
    <3>1. Floor(c) = text
      BY <2>1, <3>k DEF Floor
    <3> HIDE DEF Shot
    <3>2. Grows(chain[c], Floor(c), editor[c])
      BY <1>t, <2>1 DEF PageInv, Owned
    <3> QED
      BY <1>t, <3>1, <3>2, GrowsTail
  <2>3. call'[c].known = Pad!Current' => text' \subseteq Head(chain'[c]).text
    BY <1>a, <1>b, <2>2 DEF Pad!Current
  <2> QED
    BY <1>t, <1>a, <2>1, <2>3 DEF PageInv, Owned, Grows
<1>4. PageInv(c)'
  BY <1>1, <1>r, <1>2, <1>3 DEF PageInv
<1> QED
  BY <1>a, <1>4, OnePage

LEMMA CallFailsKeeps ==
  ASSUME PadInv, PadTypes', NEW c \in Clients, Pad!CallFails(c)
  PROVE  PadInv'
<1>t. PadTypes /\ PageInv(c) /\ call[c] \in Call /\ call[c].step \in {"sent", "ok"}
  BY DEF PadInv, PadTypes, Pad!CallFails
<1>a. /\ UNCHANGED <<text, version, epoch, calls, known, editor, dirty, list, timer, chain,
         astray>>
      /\ call'[c].step = "failed" /\ call'[c].known = call[c].known
      /\ \A d \in Clients \ {c} : Rests(d)
  BY <1>t DEF Pad!CallFails, Pad!server, Pad!page, PadTypes, Rests, Call
<1>1. Past(c)' /\ Queued(c)' /\ Shows(c)'
  BY <1>t, <1>a DEF PageInv, Past, PadPassed, Queued, Shows, Pad!IsCurrent, Pad!Current
<1>r. Remembers(c)'
  BY <1>t, <1>a DEF PageInv, Remembers, PadPassed, Pad!Current
<1>2. Floor(c)' = Floor(c)
  BY <1>a DEF Floor, Pad!IsCurrent, Pad!Current
<1>3. Owned(c)'
  BY <1>t, <1>a, <1>2 DEF PageInv, Owned, Pad!IsCurrent, Grows
<1>4. PageInv(c)'
  BY <1>1, <1>r, <1>3 DEF PageInv
<1> QED
  BY <1>a, <1>4, OnePage

\* The end of a save: what is left of the queue contains what has been saved.
LEMMA FinishKeeps ==
  ASSUME PadInv, PadTypes', NEW c \in Clients, NEW saved, Pad!Finish(c, saved),
    call[c].step # "none",
         (Pad!IsCurrent(c)' <=> Pad!IsCurrent(c)),
         ~astray[c] /\ Pad!IsCurrent(c) => Floor(c)' \subseteq Head(chain[c]).text
  PROVE  /\ Remembers(c)' /\ Queued(c)' /\ Owned(c)' /\ call'[c].step = "none"
         /\ \A d \in Clients \ {c} :
              /\ calls'[d] = calls[d] /\ timer'[d] = timer[d]
              /\ chain'[d] = chain[d] /\ call'[d] = call[d]
<1>t. /\ PadTypes /\ PageInv(c) /\ chain[c] \in Seq(Shot) /\ chain[c] # <<>>
  BY DEF PadInv, PadTypes, PageInv, Queued
<1> HIDE DEF Shot
<1> DEFINE Going == /\ Forgets(c) /\ (timer'[c] = timer[c] \/ timer'[c] = <<>>)
                    /\ \A d \in Clients \ {c} : calls'[d] = calls[d] /\ timer'[d] = timer[d]
<1>b. Going
  <2>1. ASSUME NEW k \in Calls, Pad!GoesOn(c, k, "leaving") PROVE Going
    BY <1>t, <2>1, GotoTypes DEF Pad!GoesOn, Pad!StopTimer, PadTypes, Pad!Awaits
  <2>2. ASSUME NEW k \in Calls, Pad!CalledOff(c, k) PROVE Going
    BY <1>t, <2>2, GotoTypes DEF Pad!CalledOff, Pad!Awaits
  <2>3. CASE UNCHANGED <<calls, timer>>
    BY <2>3 DEF Forgets
  <2>4. (\E k \in Calls : Pad!GoesOn(c, k, "leaving") \/ Pad!CalledOff(c, k)) \/
        UNCHANGED <<calls, timer>>
    BY DEF Pad!Finish
  <2> HIDE DEF Going
  <2> QED
    BY <2>1, <2>2, <2>3, <2>4
<1>a. /\ chain'[c] = Tail(chain[c]) /\ call'[c].step = "none"
      /\ UNCHANGED <<text, version, epoch, editor, astray>>
      /\ \A d \in Clients \ {c} : chain'[d] = chain[d] /\ call'[d] = call[d]
  <2>1. Pad!NoCall.step = "none"
    BY DEF Pad!NoCall
  <2> QED
    BY <1>t, <2>1 DEF Pad!Finish, Pad!server, PadTypes
<1>c. /\ Head(chain[c]) = chain[c][1] /\ 1 \in DOMAIN chain[c]
      /\ \A i \in DOMAIN Tail(chain[c]) :
           i \in Nat \ {0} /\ i + 1 \in DOMAIN chain[c] /\ Tail(chain[c])[i] = chain[c][i + 1]
  BY <1>t, TailOf
<1>2. Remembers(c)'
  <2>1. \A i \in DOMAIN chain'[c] : PadPassed(chain'[c][i].known)
    BY <1>t, <1>a, <1>c DEF PageInv, Remembers
  <2>2. \A i \in DOMAIN timer'[c] : PadPassed(timer'[c][i].known)
    BY <1>t, <1>b DEF PageInv, Remembers
  <2> QED
    BY <1>t, <1>a, <1>b, <2>1, <2>2 DEF PageInv, Remembers, PadPassed, Pad!Current, Forgets
<1>3. Queued(c)'
  BY <1>t, <1>a, <1>b DEF PageInv, Queued
<1>4. Owned(c)'
  <2> SUFFICES ASSUME ~astray[c] PROVE Owned(c)'
    BY <1>a DEF Owned
  <2>1. Pad!IsCurrent(c) /\ Pad!IsCurrent(c)'
    BY <1>t DEF PageInv, Owned
  <2>2. /\ Grows(chain[c], Floor(c), editor[c]) /\ Grows(timer[c], Floor(c), editor[c])
        /\ \A i \in DOMAIN chain[c], j \in DOMAIN timer[c] :
             chain[c][i].text \subseteq timer[c][j].text
    BY <1>t, <2>1 DEF PageInv, Owned
  <2>3. Floor(c)' \subseteq Head(chain[c]).text
    BY <2>1
  <2>4. Floor(c)' \subseteq editor'[c] /\ Grows(Tail(chain[c]), Floor(c)', editor'[c])
    <3>1. Grows(Tail(chain[c]), Head(chain[c]).text, editor[c])
          /\ Head(chain[c]).text \subseteq editor[c]
      BY <1>t, <2>2, GrowsTail
    <3> QED
      BY <1>a, <2>3, <3>1, GrowsLess
  <2>5. Grows(timer'[c], Floor(c)', editor'[c])
    <3>1. \A j \in DOMAIN timer[c] : Head(chain[c]).text \subseteq timer[c][j].text
      BY <1>c, <2>2
    <3>2. Grows(timer[c], Floor(c)', editor[c])
      BY <2>2, <2>3, <3>1 DEF Grows
    <3> QED
      BY <1>a, <1>b, <3>2, GrowsEmpty
  <2>6. \A i \in DOMAIN chain'[c], j \in DOMAIN timer'[c] :
          chain'[c][i].text \subseteq timer'[c][j].text
    BY <1>a, <1>b, <1>c, <2>2
  <2>7. Grows(chain[c], Floor(c), editor[c])' /\ Grows(timer[c], Floor(c), editor[c])'
    BY <1>a, <2>4, <2>5 DEF Grows
  <2> QED
    BY <1>a, <2>1, <2>4, <2>6, <2>7 DEF Owned
<1> QED
  BY <1>a, <1>b, <1>2, <1>3, <1>4

LEMMA SavedKeeps ==
  ASSUME PadInv, PadTypes', NEW c \in Clients, Pad!Saved(c)
  PROVE  PadInv'
<1>t. /\ PadTypes /\ PageInv(c) /\ call[c].step = "ok"
  BY DEF PadInv, PadTypes, Pad!Saved
<1>a. /\ UNCHANGED <<text, version, epoch, editor, astray>>
      /\ list'[c] = Pad!Answered(c)
      /\ IF Pad!IsCurrent(c)
           THEN known'[c] = Pad!Answered(c) /\ (~dirty'[c] => editor[c] = Head(chain[c]).text)
           ELSE known'[c] = known[c]
      /\ \A d \in Clients \ {c} :
           known'[d] = known[d] /\ list'[d] = list[d] /\ dirty'[d] = dirty[d]
      /\ Pad!Finish(c, TRUE)
  BY <1>t DEF Pad!Saved, Pad!Finish, Pad!server, PadTypes
<1>1. ~astray[c] /\ Pad!IsCurrent(c) => Floor(c)' \subseteq Head(chain[c]).text
  BY <1>t, <1>a DEF PageInv, Shows, Floor, Pad!Current
<1>b. Pad!IsCurrent(c)' <=> Pad!IsCurrent(c)
  <2>1. Pad!Answered(c) # Pad!NoVersion
    <3>1. call[c].known.version \in Nat /\ Pad!Answered(c).version = call[c].known.version + 1
      <4>1. call[c].known \in Learnt
        BY <1>t DEF PadTypes, Call
      <4>2. Pad!Answered(c) = [version |-> call[c].known.version + 1,
            epoch |-> call[c].known.epoch]
        BY <1>t, AnsweredOf
      <4> QED
        BY <4>1, <4>2 DEF Learnt
    <3> QED
      BY <3>1 DEF Pad!NoVersion
  <2> QED
    BY <1>a, <2>1 DEF Pad!IsCurrent
<1>2. /\ Remembers(c)' /\ Queued(c)' /\ Owned(c)' /\ call'[c].step = "none"
      /\ \A d \in Clients \ {c} :
           /\ calls'[d] = calls[d] /\ timer'[d] = timer[d]
           /\ chain'[d] = chain[d] /\ call'[d] = call[d]
  BY <1>t, <1>a, <1>b, <1>1, FinishKeeps
<1>3. Past(c)'
  BY <1>t, <1>a, <1>2 DEF PageInv, Past, PadPassed
<1>4. Shows(c)'
  <2>1. Pad!IsCurrent(c)' /\ ~dirty'[c] /\ known'[c] = Pad!Current' => editor'[c] = text'
    BY <1>t, <1>a, <1>b DEF PageInv, Shows, Pad!Current
  <2> QED
    BY <1>2, <2>1 DEF Shows
<1>5. PageInv(c)'
  BY <1>2, <1>3, <1>4 DEF PageInv
<1>6. \A d \in Clients \ {c} : Rests(d)
  BY <1>a, <1>2 DEF Rests
<1> QED
  BY <1>a, <1>5, <1>6, OnePage

LEMMA NotSavedKeeps ==
  ASSUME PadInv, PadTypes', NEW c \in Clients, Pad!NotSaved(c)
  PROVE  PadInv'
<1>t. /\ PadTypes /\ PageInv(c) /\ call[c].step \in {"conflict", "failed"}
      /\ chain[c] \in Seq(Shot) /\ chain[c] # <<>>
  BY DEF PadInv, PadTypes, Pad!NotSaved, PageInv, Queued
<1>a. /\ UNCHANGED <<text, version, epoch, editor, astray, known, dirty>>
      /\ PadPassed(list[c]) => PadPassed(list'[c])
      /\ \A d \in Clients \ {c} : list'[d] = list[d]
      /\ Pad!Finish(c, FALSE)
  BY <1>t, LoadedTypes DEF Pad!NotSaved, Pad!Finish, Pad!server, PadTypes
<1>1. ~astray[c] /\ Pad!IsCurrent(c) => Floor(c)' \subseteq Head(chain[c]).text
  <2> SUFFICES ASSUME ~astray[c], Pad!IsCurrent(c) PROVE Floor(c)' \subseteq Head(chain[c]).text
    OBVIOUS
  <2>1. Floor(c)' \subseteq Floor(c)
    BY <1>a DEF Floor, Pad!Current
  <2>2. Grows(chain[c], Floor(c), editor[c])
    BY <1>t DEF PageInv, Owned
  <2> HIDE DEF Shot
  <2> QED
    BY <1>t, <2>1, <2>2, GrowsTail
<1>b. Pad!IsCurrent(c)' <=> Pad!IsCurrent(c)
  BY <1>a DEF Pad!IsCurrent
<1>2. /\ Remembers(c)' /\ Queued(c)' /\ Owned(c)' /\ call'[c].step = "none"
      /\ \A d \in Clients \ {c} :
           /\ calls'[d] = calls[d] /\ timer'[d] = timer[d]
           /\ chain'[d] = chain[d] /\ call'[d] = call[d]
  BY <1>t, <1>a, <1>b, <1>1, FinishKeeps
<1>3. Past(c)'
  <2>2. PadPassed(list'[c])
    BY <1>t, <1>a DEF PageInv, Past
  <2> QED
    BY <1>t, <1>a, <1>2, <2>2 DEF PageInv, Past, PadPassed
<1>4. Shows(c)'
  BY <1>t, <1>a, <1>2 DEF PageInv, Shows, Pad!Current, Pad!IsCurrent
<1>5. PageInv(c)'
  BY <1>2, <1>3, <1>4 DEF PageInv
<1>6. \A d \in Clients \ {c} : Rests(d)
  BY <1>a, <1>2 DEF Rests
<1> QED
  BY <1>a, <1>5, <1>6, OnePage

-----------------------------------------------------------------------------
(* Selecting and deleting.                                                 *)

\* Nothing of the pad but the calls and the list: a call begins, waits, is answered
\* or ends; the timer may have been stopped.
LEMMA AwaitKeeps ==
  ASSUME PadInv, PadTypes', NEW c \in Clients,
         UNCHANGED <<text, version, epoch, known, editor, dirty, chain, call, astray>>,
         timer'[c] = timer[c] \/ timer'[c] = <<>>, PadPassed(list[c]) => PadPassed(list'[c]),
         \A d \in Clients \ {c} : Rests(d),
         \A k \in Calls :
           \/ calls'[c][k] = calls[c][k] \/ calls'[c][k].step # "answered"
           \/ calls'[c][k].known = Pad!Current /\ calls'[c][k].text = text
  PROVE  PadInv'
<1>t. PadTypes /\ PageInv(c) /\ PadPassed(Pad!Current)
  BY PassedCurrent DEF PadInv, PadTypes
<1>1. (Pad!IsCurrent(c)' <=> Pad!IsCurrent(c)) /\ Floor(c)' = Floor(c)
  BY DEF Pad!IsCurrent, Floor, Pad!Current
<1>2. Past(c)'
  BY <1>t DEF PageInv, Past, PadPassed, Pad!Answered
<1>3. Remembers(c)'
  <2>1. \A i \in DOMAIN timer'[c] : PadPassed(timer'[c][i].known)
    BY <1>t DEF PageInv, Remembers
  <2>2. ASSUME NEW k \in Calls, calls'[c][k].step = "answered"
        PROVE  PadPassed(calls'[c][k].known) /\
          (calls'[c][k].known = Pad!Current => calls'[c][k].text = text)
    BY <1>t, <2>2 DEF PageInv, Remembers
  <2> QED
    BY <1>t, <2>1, <2>2 DEF PageInv, Remembers, PadPassed, Pad!Current
<1>4. Queued(c)' /\ Shows(c)'
  BY <1>t, <1>1 DEF PageInv, Queued, Shows, Pad!Answered, Pad!Current
<1>5. Owned(c)'
  <2>1. CASE timer'[c] = timer[c]
    BY <1>t, <1>1, <2>1 DEF PageInv, Owned, Pad!Current, Grows
  <2>2. CASE timer'[c] = <<>>
    BY <1>t, <1>1, <2>2, GrowsEmpty DEF PageInv, Owned, Pad!Current, Grows
  <2> QED
    BY <2>1, <2>2
<1>6. PageInv(c)'
  BY <1>2, <1>3, <1>4, <1>5 DEF PageInv
<1> QED
  BY <1>6, OnePage

\* A visit begins or ends: with nothing outstanding, the queues are empty.  Whatever
\* the page shows now, it is the pad as it was in the version that goes with it.
LEMMA ShowKeeps ==
  ASSUME PadInv, PadTypes', NEW c \in Clients, NEW v \in Learnt, NEW s \in SUBSET Edits,
    Pad!Show(c, v, s),
         PadPassed(v), v = Pad!NoVersion \/ (v = Pad!Current => s = text),
         UNCHANGED <<text, version, epoch, chain, call>>,
         PadPassed(list[c]) => PadPassed(list'[c]), Forgets(c),
         \A d \in Clients \ {c} : calls'[d] = calls[d] /\ list'[d] = list[d]
  PROVE  PadInv'
<1>t. PadTypes /\ PageInv(c)
  BY DEF PadInv, PadTypes
<1>a. /\ known'[c] = v /\ editor'[c] = s /\ UNCHANGED timer
      /\ ~astray'[c] => timer[c] = <<>> /\ chain[c] = <<>>
      /\ \A d \in Clients \ {c} : Rests(d)
  BY <1>t DEF Pad!Show, Pad!Outstanding, PadTypes, Rests
<1>1. Pad!IsCurrent(c)' /\ v = Pad!Current => s = text
  BY <1>a DEF Pad!IsCurrent
<1>2. Past(c)'
  BY <1>t, <1>a DEF PageInv, Past, PadPassed, Pad!Answered
<1>3. Remembers(c)' /\ Queued(c)'
  BY <1>t, <1>a DEF PageInv, Remembers, Queued, PadPassed, Pad!Current, Forgets
<1>4. Shows(c)'
  BY <1>t, <1>a, <1>1 DEF PageInv, Shows, Pad!Answered, Pad!Current
<1>5. Owned(c)'
  <2> SUFFICES ASSUME ~astray'[c] PROVE Owned(c)'
    BY DEF Owned
  <2>1. chain'[c] = <<>> /\ timer'[c] = <<>> /\ call'[c].step = "none"
    BY <1>t, <1>a DEF PageInv, Queued
  <2>2. Pad!IsCurrent(c)' => Floor(c)' \subseteq editor'[c]
    BY <1>a, <1>1 DEF Floor, Pad!Current
  <2> QED
    BY <2>1, <2>2, GrowsEmpty DEF Owned, Grows
<1>6. PageInv(c)'
  BY <1>2, <1>3, <1>4, <1>5 DEF PageInv
<1> QED
  BY <1>a, <1>6, OnePage

LEMMA SelectOtherKeeps ==
  ASSUME PadInv, PadTypes', NEW c \in Clients, NEW k \in Calls, Pad!SelectOther(c, k)
  PROVE  PadInv'
<1>t. PadTypes /\ Pad!IsCurrent(c)
  BY DEF PadInv, Pad!SelectOther
<1>1. CASE dirty[c]
  <2>1. /\ Pad!Enqueue(c, TRUE) /\ UNCHANGED <<Pad!server, known, editor, dirty, list, call,
           astray>>
        /\ Pad!Goto(c, k, "saving")
    BY <1>t, <1>1 DEF Pad!SelectOther
  <2>2. Forgets(c) /\ \A d \in Clients \ {c} : calls'[d] = calls[d]
    BY <1>t, <2>1, GotoTypes DEF Pad!Awaits
  <2> QED
    BY <1>t, <2>1, <2>2, EnqueueKeeps
<1>2. CASE ~dirty[c]
  <2>1. /\ UNCHANGED <<text, version, epoch, known, editor, dirty, list, chain, call, astray>>
        /\ Pad!Goto(c, k, "leaving") /\ timer' = [timer EXCEPT ![c] = <<>>]
    BY <1>t, <1>2 DEF Pad!SelectOther, Pad!GoesOn, Pad!StopTimer, Pad!server
  <2>2. Forgets(c) /\ \A d \in Clients \ {c} : calls'[d] = calls[d]
    BY <1>t, <2>1, GotoTypes DEF Pad!Awaits
  <2>3. timer'[c] = <<>> /\ \A d \in Clients \ {c} : Rests(d)
    BY <1>t, <2>1, <2>2 DEF PadTypes, Rests
  <2> QED
    BY <2>1, <2>2, <2>3, AwaitKeeps DEF Forgets
<1> QED
  BY <1>1, <1>2

\* Calls of the page that leave alone what it shows.
LEMMA CallKeeps ==
  ASSUME PadInv, PadTypes', NEW c \in Clients, NEW k \in Calls,
         Pad!SelectPad(c, k) \/ Pad!Waited(c, k) \/ Pad!AwaitFails(c, k) \/
           Pad!DeletePad(c, k) \/ Pad!TrashPad(c, k)
  PROVE  PadInv'
<1>t. PadTypes
  BY DEF PadInv
<1>1. /\ UNCHANGED <<text, version, epoch, known, editor, dirty, list, chain, call, astray>>
      /\ timer' = timer \/ timer' = [timer EXCEPT ![c] = <<>>]
      /\ \E step \in Pad!Awaits \ {"answered"} : Pad!Goto(c, k, step)
  BY DEF Pad!SelectPad, Pad!Waited, Pad!AwaitFails, Pad!DeletePad, Pad!TrashPad, Pad!GoesOn,
         Pad!CalledOff, Pad!StopTimer, Pad!server, Pad!Awaits
<1>2. Forgets(c) /\ \A d \in Clients \ {c} : calls'[d] = calls[d]
  BY <1>t, <1>1, GotoTypes
<1>3. /\ timer'[c] = timer[c] \/ timer'[c] = <<>>
      /\ \A d \in Clients \ {c} : Rests(d)
  BY <1>t, <1>1, <1>2 DEF PadTypes, Rests
<1> QED
  BY <1>1, <1>2, <1>3, AwaitKeeps DEF Forgets

LEMMA GetPadKeeps ==
  ASSUME PadInv, PadTypes', NEW c \in Clients, NEW k \in Calls, Pad!GetPad(c, k)
  PROVE  PadInv'
<1> DEFINE r == [step |-> "answered", text |-> text, known |-> Pad!Current]
<1>1. /\ UNCHANGED <<text, version, epoch, known, editor, dirty, list, timer, chain, call,
         astray>>
      /\ calls' = [calls EXCEPT ![c][k] = r] /\ r.known = Pad!Current /\ r.text = text
  BY DEF Pad!GetPad, Pad!server
<1> HIDE DEF r
<1>2. /\ \A d \in Clients \ {c} : calls'[d] = calls[d]
      /\ \A j \in Calls : calls'[c][j] = calls[c][j] \/ calls'[c][j] = r
  BY <1>1 DEF PadInv, PadTypes
<1>3. \A d \in Clients \ {c} : Rests(d)
  BY <1>1, <1>2 DEF Rests
<1> QED
  BY <1>1, <1>2, <1>3, AwaitKeeps

LEMMA LoadPadsKeeps ==
  ASSUME PadInv, PadTypes', NEW c \in Clients, Pad!LoadPads(c) \/ Pad!UseOther(c)
  PROVE  PadInv'
<1>t. PadTypes
  BY DEF PadInv
<1>1. /\ UNCHANGED <<text, version, epoch, calls, known, editor, dirty, chain, call, astray>>
      /\ timer'[c] = timer[c] \/ timer'[c] = <<>>
      /\ PadPassed(list[c]) => PadPassed(list'[c])
      /\ \A d \in Clients \ {c} : Rests(d)
  BY <1>t, LoadedTypes DEF Pad!LoadPads, Pad!UseOther, Pad!StopTimer, Pad!server, PadTypes, Rests
<1> QED
  BY <1>1, AwaitKeeps

LEMMA VisitKeeps ==
  ASSUME PadInv, PadTypes', NEW c \in Clients, NEW k \in Calls,
         Pad!ShowOther(c, k) \/ Pad!ShowPad(c, k) \/ Pad!PadDeleted(c, k)
  PROVE  PadInv'
<1>t. /\ PadTypes /\ PageInv(c) /\ Pad!NoVersion \in Learnt
  BY SnapshotTypes DEF PadInv
<1>1. /\ UNCHANGED <<text, version, epoch, chain, call>>
      /\ Pad!Goto(c, k, "none")
      /\ PadPassed(list[c]) => PadPassed(list'[c])
      /\ \A d \in Clients \ {c} : list'[d] = list[d]
  BY <1>t, LoadedTypes DEF Pad!ShowOther, Pad!ShowPad, Pad!PadDeleted, Pad!server, PadTypes
<1>2. Forgets(c) /\ \A d \in Clients \ {c} : calls'[d] = calls[d]
  BY <1>t, <1>1, GotoTypes DEF Pad!Awaits
<1>3. CASE Pad!Show(c, Pad!NoVersion, {})
  <2>1. PadPassed(Pad!NoVersion)
    BY <1>t DEF PadPassed, Pad!NoVersion, PadTypes
  <2> QED
    BY <1>t, <1>1, <1>2, <1>3, <2>1, ShowKeeps
<1>4. CASE Pad!ShowPad(c, k)
  <2>1. calls[c][k].known \in Learnt /\ calls[c][k].text \in SUBSET Edits
    BY <1>t DEF PadTypes, Answer
  <2>2. /\ PadPassed(calls[c][k].known)
        /\ calls[c][k].known = Pad!Current => calls[c][k].text = text
    BY <1>t, <1>4 DEF PageInv, Remembers, Pad!ShowPad
  <2>3. Pad!Show(c, calls[c][k].known, calls[c][k].text)
    BY <1>4 DEF Pad!ShowPad
  <2> QED
    BY <1>1, <1>2, <2>1, <2>2, <2>3, ShowKeeps
<1> QED
  BY <1>3, <1>4 DEF Pad!ShowOther, Pad!PadDeleted

-----------------------------------------------------------------------------
(* The invariant.                                                          *)

LEMMA InitPadInv == Pad!Init => PadInv
<1> SUFFICES ASSUME Pad!Init PROVE PadInv
  OBVIOUS
<1>1. /\ Pad!NoVersion \in Learnt /\ Pad!Current \in Learnt /\ PadPassed(Pad!NoVersion) /\
         PadPassed(Pad!Current)
      /\ Pad!NoCall \in Call /\ Pad!NoCall.step = "none" /\ <<>> \in Seq(Shot)
      /\ Pad!Idle \in Answer /\ Pad!Idle.step = "none"
  BY DEF Pad!Init, Pad!NoVersion, Pad!Current, Learnt, PadPassed, Pad!NoCall, Call, Pad!Idle,
         Answer, Pad!Awaits
<1>2. PadTypes
  BY <1>1 DEF Pad!Init, PadTypes
<1>3. ASSUME NEW c \in Clients PROVE PageInv(c)
  <2>1. /\ known[c] = Pad!NoVersion /\ list[c] = Pad!Current /\ call[c].step = "none"
        /\ timer[c] = <<>> /\ chain[c] = <<>>
        /\ \A k \in Calls : calls[c][k].step = "none"
    BY <1>1 DEF Pad!Init
  <2>2. Past(c) /\ Remembers(c)
    BY <1>1, <2>1 DEF Past, Remembers
  <2>3. Queued(c) /\ Shows(c) /\ Owned(c)
    BY <2>1 DEF Queued, Shows, Owned, Pad!IsCurrent
  <2> QED
    BY <2>2, <2>3 DEF PageInv
<1> QED
  BY <1>2, <1>3 DEF PadInv

\* One step of the pages and of the server.
LEMMA NextKeeps == ASSUME PadInv, [Pad!Next]_Pad!vars PROVE PadInv' /\ Pad!SaveKeepsEdits
<1>t. PadTypes /\ PadTypes'
  BY NextTypes DEF PadInv
<1>1. ASSUME NEW c \in Clients, Pad!UpdatePad(c) PROVE PadInv' /\ Pad!SaveKeepsEdits
  BY <1>t, <1>1, UpdatePadKeeps
<1>2. ASSUME NEW e \in Edits, Pad!SaveElsewhere(e) PROVE PadInv' /\ Pad!SaveKeepsEdits
  <2>1. /\ Moves
        /\ UNCHANGED <<calls, known, editor, dirty, list, timer, chain, call, astray>>
    BY <1>t, <1>2 DEF Pad!SaveElsewhere, Pad!page, Moves, PadTypes
  <2>2. text \subseteq text'
    BY <1>2 DEF Pad!SaveElsewhere
  <2> QED
    BY <1>t, <2>1, <2>2, ServerMoves DEF Pad!SaveKeepsEdits
<1>3. CASE Pad!Restore
  <2>1. /\ Moves /\ epoch' # epoch
        /\ UNCHANGED <<calls, known, editor, dirty, list, timer, chain, call, astray>>
    BY <1>t, <1>3 DEF Pad!Restore, Pad!page, Moves, PadTypes
  <2> QED
    BY <1>t, <2>1, ServerMoves DEF Pad!SaveKeepsEdits
<1>4. ASSUME Pad!Trash \/ Pad!Backup \/ UNCHANGED Pad!vars PROVE PadInv' /\ Pad!SaveKeepsEdits
  <2>1. /\ UNCHANGED <<text, version, epoch>>
        /\ UNCHANGED <<calls, known, editor, dirty, list, timer, chain, call, astray>>
    BY <1>4 DEF Pad!Trash, Pad!Backup, Pad!vars, Pad!server, Pad!page
  <2> QED
    BY <1>t, <2>1, ServerRests DEF Pad!SaveKeepsEdits
<1>5. ASSUME NEW c \in Clients, NEW e \in Edits, Pad!Type(c, e)
    PROVE PadInv' /\ Pad!SaveKeepsEdits
  BY <1>t, <1>5, TypeKeeps DEF Pad!SaveKeepsEdits, Pad!Type, Pad!server
<1>6. ASSUME NEW c \in Clients,
             \/ Pad!CallFails(c) \/ Pad!TimerFires(c) \/ Pad!SavePad(c) \/ Pad!SendSave(c)
             \/ Pad!Saved(c) \/ Pad!NotSaved(c)
      PROVE  PadInv' /\ Pad!SaveKeepsEdits
  <2>1. text' = text
    BY <1>6
    DEF Pad!CallFails, Pad!TimerFires, Pad!SavePad, Pad!SendSave, Pad!Saved, Pad!NotSaved,
        Pad!Finish, Pad!server
  <2>2. PadInv'
    BY <1>t, <1>6, CallFailsKeeps, TimerFiresKeeps, SavePadKeeps, SendSaveKeeps, SavedKeeps,
       NotSavedKeeps
  <2> QED
    BY <2>1, <2>2 DEF Pad!SaveKeepsEdits
<1>7. ASSUME NEW c \in Clients, Pad!LoadPads(c) \/ Pad!UseOther(c)
    PROVE PadInv' /\ Pad!SaveKeepsEdits
  BY <1>t, <1>7, LoadPadsKeeps DEF Pad!SaveKeepsEdits, Pad!LoadPads, Pad!UseOther, Pad!server
<1>8. ASSUME NEW c \in Clients, NEW k \in Calls,
             \/ Pad!SelectOther(c, k) \/ Pad!SelectPad(c, k) \/ Pad!Waited(c, k) \/
                Pad!AwaitFails(c, k)
             \/ Pad!ShowOther(c, k) \/ Pad!GetPad(c, k) \/ Pad!ShowPad(c, k)
             \/ Pad!DeletePad(c, k) \/ Pad!TrashPad(c, k) \/ Pad!PadDeleted(c, k)
      PROVE  PadInv' /\ Pad!SaveKeepsEdits
  <2>1. text' = text
    BY <1>8
    DEF Pad!SelectOther, Pad!SelectPad, Pad!Waited, Pad!AwaitFails, Pad!ShowOther, Pad!GetPad,
        Pad!ShowPad, Pad!DeletePad, Pad!TrashPad, Pad!PadDeleted, Pad!server
  <2>2. PadInv'
    BY <1>t, <1>8, SelectOtherKeeps, CallKeeps, GetPadKeeps, VisitKeeps
  <2> QED
    BY <2>1, <2>2 DEF Pad!SaveKeepsEdits
<1> QED
  BY <1>1, <1>2, <1>3, <1>4, <1>5, <1>6, <1>7, <1>8 DEF Pad!Next

\* In every reachable state a page knows only versions that the pad has or had, and
\* saves what it shows as long as it is not astray (performPadSave, selectPad).
THEOREM PagesKept == Pad!Spec => []PadInv
<1>1. Pad!Init => PadInv
  BY InitPadInv
<1>2. PadInv /\ [Pad!Next]_Pad!vars => PadInv'
  BY NextKeeps
<1> QED
  BY <1>1, <1>2, PTL DEF Pad!Spec

\* A page that shows nothing to be saved shows what is stored in its version.
THEOREM CleanPagesAreStored == Pad!Spec => []Pad!CleanIsStored
<1>1. PadInv => Pad!CleanIsStored
  BY DEF PadInv, PageInv, Shows, Pad!CleanIsStored, Pad!IsCurrent
<1> QED
  BY <1>1, PagesKept, PTL

\* Nobody overwrites an edit that is not his, but for what SaveKeepsEdits names.
THEOREM EditsAreKept == Pad!Spec => Pad!NoLostUpdate
<1>1. PadInv /\ [Pad!Next]_Pad!vars => [Pad!SaveKeepsEdits]_Pad!vars
  BY NextKeeps
<1> QED
  BY <1>1, PagesKept, PTL DEF Pad!Spec, Pad!NoLostUpdate

-----------------------------------------------------------------------------
(* BackupStream: records of any size, packages of any length, any damages.   *)

\* A record holds something.
Sizes == ChunkSize \in Nat \ {0} /\ MaxUnits \in Nat /\ MaxDamage \in Nat

Shape == [kind : Stream!Kinds, package : {"this", "other", "none"}, index : Nat, units : Seq(Nat)]

\* A record that is there was sealed by one of the two writers, or does not open:
\* its number says which units it holds; the end says how many records there are.
OfThis(p) ==
  /\ Len(p.units) > 0 /\ Len(p.units) <= ChunkSize
  /\ p.units = [i \in 1..Len(p.units) |-> p.index * ChunkSize + i]
  /\ \/ Len(p.units) = ChunkSize /\ p.index * ChunkSize + ChunkSize <= accepted
     \/ writer = "closed" /\ p.index * ChunkSize + Len(p.units) = accepted

OfOther(p) == p.index \in {0, 1} /\ p.units = [i \in 1..ChunkSize |-> i]

Genuine ==
  { p \in Shape :
      /\ p.package = "this" /\ p.kind = "data" => OfThis(p)
      /\ p.package = "this" /\ p.kind = "end" => writer = "closed" /\ p.index = index
      /\ p.package = "other" /\ p.kind = "data" => OfOther(p)
      /\ p.package = "other" /\ p.kind = "end" => p.index = 2 }

StreamTypes ==
  /\ format \in {2, 3} /\ accepted \in Nat /\ index \in Nat /\ buf \in Seq(Nat)
  /\ writer \in {"open", "closed", "failed"}
  /\ file \in Seq(Genuine) /\ damage \in Nat
  /\ pos \in Nat /\ next \in Nat /\ out \in Seq(Nat)
  /\ result \in {"none", "ok", "error", "failed"}

\* What is not sealed yet follows what is.
Counting ==
  /\ writer = "open" =>
       /\ accepted = index * ChunkSize + Len(buf) /\ Len(buf) < ChunkSize
       /\ buf = [i \in 1..Len(buf) |-> index * ChunkSize + i]
  /\ writer = "closed" => accepted <= index * ChunkSize

\* What has been read is a beginning of the package that the header belongs to.
ReadThis ==
  /\ out = [i \in 1..Len(out) |-> i] /\ Len(out) <= accepted
  /\ \/ Len(out) = next * ChunkSize
     \/ writer = "closed" /\ Len(out) = accepted /\ accepted <= next * ChunkSize

ReadOther ==
  /\ next <= 2 /\ Len(out) = next * ChunkSize
  /\ out = [i \in 1..Len(out) |-> ((i - 1) % ChunkSize) + 1]

Reading ==
  /\ pos = 0 => out = <<>> /\ next = 0 /\ result \in {"none", "error"}
  /\ result # "none" \/ pos > 0 => writer # "open"
  /\ pos <= Len(file)
  /\ next > 0 => file[1].package # "none" /\ Len(out) > 0
  /\ pos > 0 /\ file[1].package = "this" => ReadThis
  /\ pos > 0 /\ file[1].package = "other" => ReadOther
  /\ pos > 0 /\ file[1].package = "none" => next = 0

\* A file that nothing has happened to.
Is(p, kind, i) == p.kind = kind /\ p.package = "this" /\ p.index = i

Layout ==
  damage = 0 /\ writer # "failed" =>
    /\ Len(file) = (IF writer = "closed" THEN index + 2 ELSE index + 1)
    /\ Is(file[1], "header", 0)
    /\ \A k \in Nat : k < index => Is(file[k + 2], "data", k)
    /\ writer = "closed" => Is(file[index + 2], "end", index)
    /\ pos > 0 => pos = next + 1 /\ next <= index

StreamInv == StreamTypes /\ Counting /\ Reading /\ Layout /\ Stream!WholeOrError

-----------------------------------------------------------------------------
(* Sequences and records.                                                  *)

LEMMA PartOf ==
  ASSUME NEW S, NEW q \in Seq(S), NEW m \in Nat, NEW n \in Nat, m >= 1, n <= Len(q)
  PROVE  SubSeq(q, m, n) \in Seq(S)
<1>1. \A i \in m..n : q[i] \in S
  <2>1. Len(q) \in Nat /\ \A i \in 1..Len(q) : q[i] \in S
    OBVIOUS
  <2> QED
    BY <2>1
<1> QED
  BY <1>1, SubSeqProperties

\* Counting units by records.
LEMMA TimesOf ==
  ASSUME Sizes, NEW k \in Nat
  PROVE  /\ ChunkSize \in Nat /\ ChunkSize > 0
         /\ k * ChunkSize \in Nat /\ (k + 1) * ChunkSize = k * ChunkSize + ChunkSize
         /\ 0 * ChunkSize = 0 /\ 1 * ChunkSize = ChunkSize /\
            2 * ChunkSize = ChunkSize + ChunkSize
BY DEF Sizes

\* Counting goes on.
LEMMA CountOn ==
  ASSUME NEW q \in Seq(Nat), NEW r \in Seq(Nat), q = [i \in 1..Len(q) |-> i],
         r = [i \in 1..Len(r) |-> Len(q) + i]
  PROVE  /\ q \o r \in Seq(Nat) /\ Len(q \o r) = Len(q) + Len(r)
         /\ q \o r = [i \in 1..Len(q \o r) |-> i]
<1>1. /\ q \o r \in Seq(Nat) /\ Len(q \o r) = Len(q) + Len(r)
      /\ \A i \in 1 .. Len(q) + Len(r) :
           (q \o r)[i] = IF i <= Len(q) THEN q[i] ELSE r[i - Len(q)]
  BY ConcatProperties
<1>2. Len(q) \in Nat /\ Len(r) \in Nat /\ DOMAIN (q \o r) = 1..Len(q \o r)
  BY <1>1
<1>3. ASSUME NEW i \in 1..(Len(q) + Len(r)) PROVE (q \o r)[i] = i
  <2>1. CASE i <= Len(q)
    <3>1. i \in 1..Len(q)
      BY <1>2, <2>1
    <3>2. q[i] = i
      BY <3>1
    <3> QED
      BY <1>1, <2>1, <3>2
  <2>2. CASE ~(i <= Len(q))
    <3>1. i - Len(q) \in 1..Len(r)
      BY <1>2, <2>2
    <3>2. r[i - Len(q)] = Len(q) + (i - Len(q))
      BY <3>1
    <3>3. Len(q) + (i - Len(q)) = i
      BY <1>2
    <3> QED
      BY <1>1, <2>2, <3>2, <3>3
  <2> QED
    BY <2>1, <2>2
<1>4. q \o r \in [1..Len(q \o r) -> Nat]
  BY <1>1, LenProperties
<1> QED
  BY <1>1, <1>2, <1>3, <1>4

\* n units have been read, of a; a record of u is there, where one of c fits.
LEMMA NextRecord ==
  ASSUME NEW n \in Nat, NEW c \in Nat, NEW u \in Nat, NEW a \in Nat, NEW read \in Nat, u <= c,
         read = n \/ (read = a /\ a <= n),
         (u = c /\ n + c <= a) \/ n + u = a
  PROVE  /\ read = n /\ read + u <= a
         /\ u = c => read + u = n + c
         /\ n + u = a => read + u = a /\ a <= n + c
OBVIOUS

LEMMA ChunkMod ==
  ASSUME NEW c \in Nat, c > 0, NEW i \in 1..c
  PROVE  (i - 1) % c = i - 1 /\ (c + i - 1) % c = i - 1
OBVIOUS

\* What a piece is made of.
LEMMA PieceOf ==
  ASSUME NEW kind \in Stream!Kinds, NEW package \in {"this", "other", "none"}, NEW i \in Nat,
         NEW units \in Seq(Nat)
  PROVE  /\ Stream!Piece(kind, package, i, units) \in Shape
         /\ Stream!Piece(kind, package, i, units).kind = kind
         /\ Stream!Piece(kind, package, i, units).package = package
         /\ Stream!Piece(kind, package, i, units).index = i
         /\ Stream!Piece(kind, package, i, units).units = units
BY DEF Stream!Piece, Shape

LEMMA SimplePieces ==
  ASSUME Sizes
  PROVE  /\ Stream!Torn \in Genuine
         /\ \A p \in Genuine : [p EXCEPT !.package = "none"] \in Genuine
         /\ \A j \in 1..Len(Stream!Other) : Stream!Other[j] \in Genuine
<1>0. <<>> \in Seq(Nat) /\ 0 \in Nat /\ 2 \in Nat
  OBVIOUS
<1>1. Stream!Torn \in Genuine
  <2>1. /\ Stream!Piece("torn", "none", 0, <<>>) \in Shape
        /\ Stream!Piece("torn", "none", 0, <<>>).package = "none"
    BY <1>0 DEF Stream!Kinds, Stream!Piece, Shape
  <2> QED
    BY <2>1 DEF Stream!Torn, Genuine
<1>2. ASSUME NEW p \in Genuine PROVE [p EXCEPT !.package = "none"] \in Genuine
  <2>1. /\ [p EXCEPT !.package = "none"] \in Shape
        /\ [p EXCEPT !.package = "none"].package = "none"
    BY DEF Genuine, Shape
  <2> QED
    BY <2>1 DEF Genuine
<1>3. ASSUME NEW j \in 1..Len(Stream!Other) PROVE Stream!Other[j] \in Genuine
  <2> DEFINE full == [i \in 1..ChunkSize |-> i]
  <2>1. full \in Seq(Nat)
    BY DEF Sizes
  <2> HIDE DEF full
  <2>2. Stream!Header("other") \in Genuine
    <3>1. /\ Stream!Header("other") \in Shape
          /\ Stream!Header("other").package = "other" /\ Stream!Header("other").kind = "header"
      BY <1>0 DEF Stream!Header, Stream!Kinds, Stream!Piece, Shape
    <3> QED
      BY <3>1 DEF Genuine
  <2>3. ASSUME NEW i \in {0, 1} PROVE Stream!Data("other", i, full) \in Genuine
    <3>1. /\ Stream!Data("other", i, full) \in Shape
          /\ Stream!Data("other", i, full).package = "other" /\
             Stream!Data("other", i, full).kind = "data"
          /\ Stream!Data("other", i, full).index = i /\ Stream!Data("other", i, full).units = full
      BY <2>1, PieceOf DEF Stream!Data, Stream!Kinds
    <3> QED
      BY <3>1 DEF Genuine, OfOther, full
  <2>4. Stream!End("other", 2) \in Genuine
    <3>1. /\ Stream!End("other", 2) \in Shape
          /\ Stream!End("other", 2).package = "other" /\ Stream!End("other", 2).kind = "end"
          /\ Stream!End("other", 2).index = 2
      BY <1>0 DEF Stream!End, Stream!Kinds, Stream!Piece, Shape
    <3> QED
      BY <3>1 DEF Genuine
  <2>5. Stream!Other = <<Stream!Header("other"), Stream!Data("other", 0, full),
        Stream!Data("other", 1, full), Stream!End("other", 2)>>
    BY DEF Stream!Other, full
  <2> HIDE DEF Genuine
  <2> QED
    BY <2>2, <2>3, <2>4, <2>5
<1> QED
  BY <1>1, <1>2, <1>3

\* Damage makes no record that opens where it should not.
LEMMA DamageOf ==
  ASSUME Sizes, file \in Seq(Genuine), NEW f \in Stream!Damaged
  PROVE  f \in Seq(Genuine)
<1>a. /\ Stream!Torn \in Genuine /\ \A p \in Genuine : [p EXCEPT !.package = "none"] \in Genuine
      /\ \A j \in 1..Len(Stream!Other) : Stream!Other[j] \in Genuine
      /\ Len(file) \in Nat /\ \A i \in 1..Len(file) : file[i] \in Genuine
  <2>1. Len(file) \in Nat /\ \A i \in 1..Len(file) : file[i] \in Genuine
    <3> HIDE DEF Genuine
    <3> QED
      OBVIOUS
  <2> QED
    BY <2>1, SimplePieces
<1> HIDE DEF Genuine, Stream!Torn, Stream!Other
<1>1. ASSUME NEW k \in 0..(Len(file) - 1),
             f \in {SubSeq(file, 1, k), Append(SubSeq(file, 1, k), Stream!Torn),
               Stream!RemoveAt(file, k + 1),
                    [file EXCEPT ![k + 1] = Stream!Torn]}
      PROVE  f \in Seq(Genuine)
  <2>1. SubSeq(file, 1, k) \in Seq(Genuine)
    BY <1>a, PartOf
  <2>2. Append(SubSeq(file, 1, k), Stream!Torn) \in Seq(Genuine)
    BY <1>a, <2>1
  <2>3. Stream!RemoveAt(file, k + 1) \in Seq(Genuine)
    <3>1. /\ Stream!RemoveAt(file, k + 1) = SubSeq(file, 1, k) \o SubSeq(file, k + 2, Len(file))
          /\ k + 2 \in Nat /\ k + 2 >= 1
      <4>1. (k + 1) - 1 = k /\ (k + 1) + 1 = k + 2 /\ k + 2 \in Nat /\ k + 2 >= 1
        OBVIOUS
      <4> QED
        BY <4>1 DEF Stream!RemoveAt
    <3>2. SubSeq(file, k + 2, Len(file)) \in Seq(Genuine)
      BY <1>a, <3>1, PartOf
    <3> QED
      BY <2>1, <3>1, <3>2, ConcatProperties
  <2>4. [file EXCEPT ![k + 1] = Stream!Torn] \in Seq(Genuine)
    <3>1. k + 1 \in 1..Len(file)
      BY <1>a
    <3> QED
      BY <1>a, <3>1, ExceptSeq
  <2> QED
    BY <1>1, <2>1, <2>2, <2>3, <2>4
<1>2. Append(file, Stream!Torn) \in Seq(Genuine)
  BY <1>a
<1>3. ASSUME NEW i \in 1..(Len(file) + 1), NEW j \in 1..Len(file),
      f = Stream!InsertAt(file, i, file[j])
      PROVE  f \in Seq(Genuine)
  <2>1. /\ f = SubSeq(file, 1, i - 1) \o <<file[j]>> \o SubSeq(file, i, Len(file))
        /\ i - 1 \in Nat /\ i \in Nat /\ i - 1 <= Len(file) /\ i >= 1
    BY <1>a, <1>3 DEF Stream!InsertAt
  <2>2. /\ SubSeq(file, 1, i - 1) \in Seq(Genuine) /\ SubSeq(file, i, Len(file)) \in Seq(Genuine)
        /\ <<file[j]>> \in Seq(Genuine)
    BY <1>a, <2>1, PartOf
  <2>3. SubSeq(file, 1, i - 1) \o <<file[j]>> \in Seq(Genuine)
    BY <2>2, ConcatProperties
  <2> QED
    BY <2>1, <2>2, <2>3, ConcatProperties
<1>4. ASSUME NEW i \in 1..Len(file), NEW j \in 1..Len(file),
             f = [file EXCEPT ![i] = file[j], ![j] = file[i]]
      PROVE  f \in Seq(Genuine)
  <2>1. [file EXCEPT ![i] = file[j]] \in Seq(Genuine) /\
        Len([file EXCEPT ![i] = file[j]]) = Len(file)
    BY <1>a, ExceptSeq
  <2>2. f = [[file EXCEPT ![i] = file[j]] EXCEPT ![j] = file[i]]
    BY <1>4
  <2> QED
    BY <1>a, <2>1, <2>2, ExceptSeq
<1>5. ASSUME NEW i \in 1..Len(file), f = [file EXCEPT ![i].package = "none"]
      PROVE  f \in Seq(Genuine)
  <2>1. f = [file EXCEPT ![i] = [file[i] EXCEPT !.package = "none"]]
    BY <1>5
  <2> QED
    BY <1>a, <2>1, ExceptSeq
<1>6. ASSUME NEW i \in 1..Len(file), NEW j \in 1..Len(Stream!Other),
      f = [file EXCEPT ![i] = Stream!Other[j]]
      PROVE  f \in Seq(Genuine)
  BY <1>a, <1>6, ExceptSeq
<1> DEFINE Cut == UNION { {SubSeq(file, 1, k), Append(SubSeq(file, 1, k), Stream!Torn),
                           Stream!RemoveAt(file, k + 1), [file EXCEPT ![k + 1] = Stream!Torn]} :
                          k \in 0..(Len(file) - 1) }
           Longer == {Append(file, Stream!Torn)}
           Repeated == { Stream!InsertAt(file, i, file[j]) : i \in 1..(Len(file) + 1),
             j \in 1..Len(file) }
           Swapped == { [file EXCEPT ![i] = file[j], ![j] = file[i]] : i, j \in 1..Len(file) }
           Altered == { [file EXCEPT ![i].package = "none"] : i \in 1..Len(file) }
           Mixed == { [file EXCEPT ![i] = Stream!Other[j]] : i \in 1..Len(file),
             j \in 1..Len(Stream!Other) }
<1>8. CASE f \in Cut
  BY <1>1, <1>8, Zenon
<1>9. CASE f \in Repeated
  <2>1. \E i \in 1..(Len(file) + 1), j \in 1..Len(file) : f = Stream!InsertAt(file, i, file[j])
    BY <1>9
  <2> QED
    BY <1>3, <2>1
<1>10. CASE f \in Swapped
  <2>1. \E i, j \in 1..Len(file) : f = [file EXCEPT ![i] = file[j], ![j] = file[i]]
    BY <1>10
  <2> QED
    BY <1>4, <2>1
<1>11. CASE f \in Altered
  BY <1>5, <1>11, Zenon
<1>12. CASE f \in Mixed
  <2>1. \E i \in 1..Len(file),
        j \in 1..Len(Stream!Other) : f = [file EXCEPT ![i] = Stream!Other[j]]
    BY <1>12
  <2> QED
    BY <1>6, <2>1
<1>13. Stream!Damaged = Longer \union Repeated \union Swapped \union Altered \union Mixed \union Cut
  BY DEF Stream!Damaged
<1>14. f \in Longer => f \in Seq(Genuine)
  BY <1>2
<1> HIDE DEF Cut, Longer, Repeated, Swapped, Altered, Mixed
<1> QED
  BY <1>8, <1>9, <1>10, <1>11, <1>12, <1>13, <1>14

-----------------------------------------------------------------------------
(* The writer.                                                             *)

\* What was sealed stays what it is while the package is written.
LEMMA StaysGenuine ==
  ASSUME Sizes, writer = "open", accepted \in Nat, accepted' \in Nat, accepted <= accepted',
         NEW p \in Genuine
  PROVE  p \in Genuine'
<1>1. ASSUME p.package = "this", p.kind = "data" PROVE OfThis(p)'
  <2>1. OfThis(p) /\ p.index \in Nat
    BY <1>1 DEF Genuine, Shape
  <2>2. p.index * ChunkSize \in Nat /\ ChunkSize \in Nat
    BY <2>1, TimesOf
  <2>3. p.index * ChunkSize + ChunkSize <= accepted =>
        p.index * ChunkSize + ChunkSize <= accepted'
    BY <2>2
  <2> QED
    BY <2>1, <2>3 DEF OfThis
<1> QED
  BY <1>1 DEF Genuine, OfOther

\* A record that is sealed now.
LEMMA RecordOf ==
  ASSUME NEW p \in Shape, p.package = "this", p.kind = "data",
         Len(p.units) > 0, Len(p.units) <= ChunkSize,
         p.units = [i \in 1..Len(p.units) |-> p.index * ChunkSize + i],
         \/ Len(p.units) = ChunkSize /\ p.index * ChunkSize + ChunkSize <= accepted'
         \/ writer' = "closed" /\ p.index * ChunkSize + Len(p.units) = accepted'
  PROVE  p \in Genuine'
<1>1. OfThis(p)'
  BY DEF OfThis
<1> QED
  BY <1>1 DEF Genuine

\* The record made of what is not sealed yet.
LEMMA SealOf ==
  ASSUME Sizes, NEW units \in Seq(Nat), index \in Nat
  PROVE  /\ Stream!Seal(units) \in Shape /\ Stream!Seal(units).package = "this" /\
            Stream!Seal(units).kind = "data"
         /\ Stream!Seal(units).index = index /\ Stream!Seal(units).units = units
         /\ Is(Stream!Seal(units), "data", index)
BY DEF Stream!Seal, Stream!Data, Stream!Piece, Shape, Stream!Kinds, Is

LEMMA EndOf ==
  ASSUME NEW i \in Nat
  PROVE  /\ Stream!End("this", i) \in Shape /\ Stream!End("this", i).package = "this"
         /\ Stream!End("this", i).kind = "end" /\ Stream!End("this", i).index = i
         /\ Is(Stream!End("this", i), "end", i)
<1>1. <<>> \in Seq(Nat)
  OBVIOUS
<1> QED
  BY <1>1 DEF Stream!End, Stream!Piece, Shape, Stream!Kinds, Is

LEMMA WriteKeeps == ASSUME Sizes, StreamInv, Stream!Write PROVE StreamInv'
<1> DEFINE full == Append(buf, accepted')
<1>t. /\ StreamTypes /\ writer = "open" /\ pos = 0 /\ accepted' = accepted + 1
      /\ accepted = index * ChunkSize + Len(buf) /\ Len(buf) < ChunkSize
      /\ buf = [i \in 1..Len(buf) |-> index * ChunkSize + i]
      /\ out = <<>> /\ next = 0 /\ result = "none"
      /\ UNCHANGED <<format, writer, damage, pos, next, out, result>>
  BY DEF StreamInv, StreamTypes, Counting, Reading, Stream!Write, Stream!reading
<1>n. /\ index \in Nat /\ accepted \in Nat /\ accepted' \in Nat /\ Len(buf) \in Nat
      /\ index * ChunkSize \in Nat /\ ChunkSize \in Nat
      /\ (index + 1) * ChunkSize = index * ChunkSize + ChunkSize /\ ChunkSize > 0
  <2>1. index \in Nat /\ accepted \in Nat /\ buf \in Seq(Nat)
    BY <1>t DEF StreamTypes
  <2>2. accepted' \in Nat /\ Len(buf) \in Nat
    BY <1>t, <2>1
  <2> QED
    BY <2>1, <2>2, TimesOf
<1>g. /\ file \in Seq(Genuine') /\ Len(file) \in Nat
      /\ \A k \in 1..Len(file) : file[k] \in Genuine'
  <2>1. Genuine \subseteq Genuine' /\ file \in Seq(Genuine)
    BY <1>t, <1>n, StaysGenuine DEF StreamTypes
  <2> HIDE DEF Genuine
  <2> QED
    BY <2>1, SeqMonotonic
<1>f. /\ full \in Seq(Nat) /\ Len(full) = Len(buf) + 1
      /\ full = [i \in 1..Len(full) |-> index * ChunkSize + i]
  <2>1. buf \in Seq(Nat)
    BY <1>t DEF StreamTypes
  <2>2. /\ full \in Seq(Nat) /\ Len(full) = Len(buf) + 1
        /\ \A i \in 1..Len(buf) : full[i] = buf[i]
        /\ full[Len(buf) + 1] = accepted'
    BY <1>n, <2>1
  <2>3. full \in [1..Len(full) -> Nat]
    BY <2>2, LenProperties
  <2>4. ASSUME NEW i \in 1..Len(full) PROVE full[i] = index * ChunkSize + i
    <3>1. CASE i \in 1..Len(buf)
      BY <1>t, <2>2, <3>1
    <3>2. CASE i = Len(buf) + 1
      BY <1>t, <1>n, <2>2, <3>2
    <3> QED
      BY <1>n, <2>2, <3>1, <3>2
  <2> HIDE DEF full
  <2> QED
    BY <2>2, <2>3, <2>4
<1>1. CASE Len(full) < ChunkSize
  <2>1. buf' = full /\ UNCHANGED <<index, file>>
    BY <1>1 DEF Stream!Write
  <2> HIDE DEF full
  <2>2. StreamTypes'
    BY <1>t, <1>n, <1>g, <1>f, <2>1 DEF StreamTypes
  <2>3. Counting'
    BY <1>t, <1>n, <1>f, <1>1, <2>1 DEF Counting
  <2>4. Layout'
    BY <1>t, <2>1 DEF StreamInv, Layout, Is
  <2>5. Reading' /\ Stream!WholeOrError'
    BY <1>t, <2>2 DEF Reading, Stream!WholeOrError, StreamTypes
  <2> QED
    BY <2>2, <2>3, <2>4, <2>5 DEF StreamInv
<1>2. CASE ~(Len(full) < ChunkSize)
  <2>1. buf' = <<>> /\ index' = index + 1 /\ file' = Append(file, Stream!Seal(full))
    BY <1>2 DEF Stream!Write
  <2>2. Len(full) = ChunkSize /\ accepted' = index * ChunkSize + ChunkSize
    BY <1>t, <1>n, <1>f, <1>2
  <2> HIDE DEF full
  <2>3. Stream!Seal(full) \in Genuine'
    <3>1. /\ Stream!Seal(full) \in Shape /\ Stream!Seal(full).package = "this" /\
             Stream!Seal(full).kind = "data"
          /\ Stream!Seal(full).index = index /\ Stream!Seal(full).units = full
      BY <1>n, <1>f, SealOf
    <3>2. index * ChunkSize + ChunkSize <= accepted' /\ ChunkSize <= ChunkSize
      BY <1>n, <2>2
    <3> QED
      BY <1>f, <1>n, <2>2, <3>1, <3>2, RecordOf
  <2>4. /\ file' \in Seq(Genuine') /\ Len(file') = Len(file) + 1
        /\ \A k \in 1..Len(file) : file'[k] = file[k]
        /\ file'[Len(file) + 1] = Stream!Seal(full)
    <3> HIDE DEF Genuine
    <3> QED
      BY <1>g, <2>1, <2>3
  <2>5. StreamTypes'
    <3>1. <<>> \in Seq(Nat)
      OBVIOUS
    <3> QED
      BY <1>t, <1>n, <2>1, <2>4, <3>1 DEF StreamTypes
  <2>6. Counting'
    <3>1. Len(buf') = 0 /\ buf' = [i \in 1..0 |-> index' * ChunkSize + i]
      BY <2>1
    <3>2. accepted' = index' * ChunkSize + 0 /\ index' * ChunkSize \in Nat
      BY <1>n, <2>1, <2>2
    <3> QED
      BY <1>t, <1>n, <3>1, <3>2 DEF Counting
  <2>7. Layout'
    <3> SUFFICES ASSUME damage = 0 PROVE Layout'
      BY <1>t DEF Layout
    <3>1. /\ Len(file) = index + 1 /\ Is(file[1], "header", 0)
          /\ \A k \in Nat : k < index => Is(file[k + 2], "data", k)
      BY <1>t DEF StreamInv, Layout
    <3>2. Is(file'[index + 2], "data", index)
      BY <1>n, <1>f, <2>4, <3>1, SealOf
    <3>3. ASSUME NEW k \in Nat, k < index' PROVE Is(file'[k + 2], "data", k)
      <4>1. CASE k < index
        <5>1. k + 2 \in 1..Len(file)
          BY <1>n, <3>1, <4>1
        <5> QED
          BY <2>4, <3>1, <4>1, <5>1
      <4>2. CASE k = index
        BY <3>2, <4>2
      <4>3. k < index \/ k = index
        BY <1>n, <2>1, <3>3
      <4> QED
        BY <4>1, <4>2, <4>3
    <3>4. 1 \in 1..Len(file) /\ Len(file') = index' + 1
      BY <1>n, <2>1, <2>4, <3>1
    <3> QED
      BY <1>t, <2>4, <3>1, <3>3, <3>4 DEF Layout, Is
  <2>8. Reading' /\ Stream!WholeOrError'
    BY <1>t, <2>5 DEF Reading, Stream!WholeOrError, StreamTypes
  <2> QED
    BY <2>5, <2>6, <2>7, <2>8 DEF StreamInv
<1> QED
  BY <1>1, <1>2

LEMMA CloseKeeps == ASSUME Sizes, StreamInv, Stream!Close PROVE StreamInv'
<1> DEFINE tail == IF buf = <<>> THEN <<>> ELSE <<Stream!Seal(buf)>>
<1>t. /\ StreamTypes /\ writer = "open" /\ pos = 0 /\ writer' = "closed" /\ accepted' = accepted
      /\ accepted = index * ChunkSize + Len(buf) /\ Len(buf) < ChunkSize
      /\ buf = [i \in 1..Len(buf) |-> index * ChunkSize + i]
      /\ out = <<>> /\ next = 0 /\ result = "none" /\ buf' = <<>>
      /\ UNCHANGED <<format, damage, pos, next, out, result>>
      /\ index' = index + Len(tail) /\ file' = file \o tail \o <<Stream!End("this", index')>>
  BY DEF StreamInv, StreamTypes, Counting, Reading, Stream!Close, Stream!reading
<1>n. /\ index \in Nat /\ accepted \in Nat /\ Len(buf) \in Nat /\ buf \in Seq(Nat)
      /\ index * ChunkSize \in Nat /\ ChunkSize \in Nat
      /\ (index + 1) * ChunkSize = index * ChunkSize + ChunkSize /\ ChunkSize > 0
  <2>1. index \in Nat /\ accepted \in Nat /\ buf \in Seq(Nat) /\ Len(buf) \in Nat
    BY <1>t DEF StreamTypes
  <2> QED
    BY <2>1, TimesOf
<1>g. /\ file \in Seq(Genuine') /\ Len(file) \in Nat
      /\ \A k \in 1..Len(file) : file[k] \in Genuine'
  <2>1. Genuine \subseteq Genuine' /\ file \in Seq(Genuine)
    BY <1>t, <1>n, StaysGenuine DEF StreamTypes
  <2> HIDE DEF Genuine
  <2> QED
    BY <2>1, SeqMonotonic
<1>e. \A i \in Nat : i = index' => Stream!End("this", i) \in Genuine'
  <2> SUFFICES ASSUME NEW i \in Nat, i = index' PROVE Stream!End("this", i) \in Genuine'
    OBVIOUS
  <2>1. /\ Stream!End("this", i) \in Shape /\ Stream!End("this", i).package = "this"
        /\ Stream!End("this", i).kind = "end" /\ Stream!End("this", i).index = i
    BY EndOf
  <2> QED
    BY <1>t, <2>1 DEF Genuine
\* The file before its end.
<1>1. PICK f \in Seq(Genuine') :
        /\ file' = Append(f, Stream!End("this", index')) /\ index' \in Nat
        /\ accepted <= index' * ChunkSize
        /\ damage = 0 => /\ Len(f) = index' + 1 /\ Is(f[1], "header", 0)
                         /\ \A k \in Nat : k < index' => Is(f[k + 2], "data", k)
  <2>l. damage = 0 => /\ Len(file) = index + 1 /\ Is(file[1], "header", 0)
                      /\ \A k \in Nat : k < index => Is(file[k + 2], "data", k)
    BY <1>t DEF StreamInv, Layout
  <2>1. CASE buf = <<>>
    <3>1. index' = index /\ tail = <<>>
      BY <1>n, <1>t, <2>1
    <3>2. file \o <<>> = file /\ Len(buf) = 0
      BY <1>g, <2>1, ConcatEmptySeq
    <3>3. file' = file \o <<Stream!End("this", index')>>
      BY <1>t, <3>1, <3>2
    <3>4. file' = Append(file, Stream!End("this", index'))
      BY <1>g, <3>3
    <3>5. accepted <= index' * ChunkSize
      BY <1>t, <1>n, <3>1, <3>2
    <3> QED
      BY <1>g, <1>n, <2>l, <3>1, <3>4, <3>5
  <2>2. CASE buf # <<>>
    <3>1. tail = <<Stream!Seal(buf)>>
      BY <2>2
    <3>2. index' = index + 1
      BY <1>n, <1>t, <3>1
    <3>3. Len(buf) > 0 /\ Len(buf) <= ChunkSize
      BY <1>n, <1>t, <2>2
    <3>4. Stream!Seal(buf) \in Genuine' /\ Is(Stream!Seal(buf), "data", index)
      <4>1. /\ Stream!Seal(buf) \in Shape /\ Stream!Seal(buf).package = "this" /\
               Stream!Seal(buf).kind = "data"
            /\ Stream!Seal(buf).index = index /\ Stream!Seal(buf).units = buf /\
               Is(Stream!Seal(buf), "data", index)
        BY <1>n, SealOf
      <4> QED
        BY <1>t, <3>3, <4>1, RecordOf
    <3> DEFINE f == Append(file, Stream!Seal(buf))
    <3> HIDE DEF Genuine
    <3>5. /\ f \in Seq(Genuine') /\ Len(f) = Len(file) + 1
          /\ \A k \in 1..Len(file) : f[k] = file[k]
          /\ f[Len(file) + 1] = Stream!Seal(buf)
      BY <1>g, <3>4
    <3>6. file' = Append(f, Stream!End("this", index'))
      <4>1. file \o <<Stream!Seal(buf)>> = f
        BY <1>g, <3>4
      <4> HIDE DEF f
      <4>2. file' = f \o <<Stream!End("this", index')>>
        BY <1>t, <3>1, <4>1
      <4> QED
        BY <3>5, <4>2
    <3>7. accepted <= index' * ChunkSize
      BY <1>t, <1>n, <3>2
    <3> HIDE DEF f
    <3>8. ASSUME damage = 0
          PROVE  /\ Len(f) = index' + 1 /\ Is(f[1], "header", 0)
                 /\ \A k \in Nat : k < index' => Is(f[k + 2], "data", k)
      <4>1. 1 \in 1..Len(file) /\ Len(f) = index' + 1
        BY <1>n, <2>l, <3>2, <3>5, <3>8
      <4>2. ASSUME NEW k \in Nat, k < index' PROVE Is(f[k + 2], "data", k)
        <5>1. CASE k < index
          <6>1. k + 2 \in 1..Len(file)
            BY <1>n, <2>l, <3>8, <5>1
          <6> QED
            BY <2>l, <3>5, <3>8, <5>1, <6>1
        <5>2. CASE k = index
          <6>1. k + 2 = Len(file) + 1
            BY <1>n, <2>l, <3>8, <5>2
          <6> QED
            BY <3>4, <3>5, <5>2, <6>1
        <5>3. k < index \/ k = index
          BY <1>n, <3>2, <4>2
        <5> QED
          BY <5>1, <5>2, <5>3
      <4> QED
        BY <2>l, <3>5, <3>8, <4>1, <4>2
    <3>9. index' \in Nat /\ f \in Seq(Genuine')
      BY <1>n, <3>2, <3>5
    <3> QED
      BY <3>6, <3>7, <3>8, <3>9, Zenon
  <2> QED
    BY <2>1, <2>2
<1> HIDE DEF tail
<1>2. /\ file' \in Seq(Genuine') /\ Len(file') = Len(f) + 1 /\ Len(f) \in Nat
      /\ \A k \in 1..Len(f) : file'[k] = f[k]
      /\ file'[Len(f) + 1] = Stream!End("this", index')
  <2>1. Stream!End("this", index') \in Genuine'
    BY <1>1, <1>e
  <2> HIDE DEF Genuine
  <2> QED
    BY <1>1, <2>1
<1>3. StreamTypes' /\ Counting'
  <2>1. <<>> \in Seq(Nat)
    OBVIOUS
  <2> QED
    BY <1>t, <1>n, <1>1, <1>2, <2>1 DEF StreamTypes, Counting
<1>4. Layout'
  <2> SUFFICES ASSUME damage = 0 PROVE Layout'
    BY <1>t DEF Layout
  <2>1. 1 \in 1..Len(f) /\ Len(file') = index' + 2 /\ index' + 2 = Len(f) + 1
    BY <1>1, <1>2
  <2>2. \A k \in Nat : k < index' => k + 2 \in 1..Len(f)
    BY <1>1, <2>1
  <2>3. \A k \in Nat : k < index' => Is(file'[k + 2], "data", k)
    BY <1>1, <1>2, <2>2
  <2>4. Is(file'[index' + 2], "end", index')
    <3>1. Is(Stream!End("this", index'), "end", index')
      BY <1>1, EndOf
    <3> QED
      BY <1>2, <2>1, <3>1
  <2>5. Is(file'[1], "header", 0)
    BY <1>1, <1>2, <2>1
  <2>6. writer' = "closed" /\ pos' = 0
    BY <1>t
  <2> QED
    BY <2>1, <2>3, <2>4, <2>5, <2>6 DEF Layout
<1>5. Reading' /\ Stream!WholeOrError'
  BY <1>t, <1>2, <1>3 DEF Reading, Stream!WholeOrError, StreamTypes
<1> QED
  BY <1>3, <1>4, <1>5 DEF StreamInv

LEMMA WriteFailsKeeps == ASSUME Sizes, StreamInv, Stream!WriteFails PROVE StreamInv'
<1>t. /\ StreamTypes /\ writer = "open" /\ pos = 0 /\ writer' = "failed" /\ accepted' = accepted
      /\ out = <<>> /\ next = 0 /\ result = "none"
      /\ UNCHANGED <<format, accepted, buf, index, damage, pos, next, out, result>>
      /\ file' = Append(file, Stream!Torn) \/ file' = file
  BY DEF StreamInv, StreamTypes, Counting, Reading, Stream!WriteFails, Stream!reading
<1>1. file \in Seq(Genuine') /\ Stream!Torn \in Genuine'
  <2>1. Genuine \subseteq Genuine' /\ Stream!Torn \in Genuine /\ file \in Seq(Genuine)
    BY <1>t, StaysGenuine, SimplePieces DEF StreamTypes
  <2> HIDE DEF Genuine
  <2> QED
    BY <2>1, SeqMonotonic
<1>2. file' \in Seq(Genuine')
  <2> HIDE DEF Genuine
  <2> QED
    BY <1>t, <1>1
<1>3. StreamTypes' /\ Counting' /\ Layout'
  BY <1>t, <1>2 DEF StreamTypes, Counting, Layout
<1>4. Reading' /\ Stream!WholeOrError'
  BY <1>t, <1>3 DEF Reading, Stream!WholeOrError, StreamTypes
<1> QED
  BY <1>3, <1>4 DEF StreamInv

LEMMA DamageKeeps == ASSUME Sizes, StreamInv, Stream!Damage PROVE StreamInv'
<1>t. /\ StreamTypes /\ pos = 0 /\ damage' = damage + 1 /\ file' \in Stream!Damaged /\
         writer # "open"
      /\ out = <<>> /\ next = 0 /\ result \in {"none", "error"}
      /\ UNCHANGED <<format, accepted, buf, index, writer, pos, next, out, result>>
  BY DEF StreamInv, StreamTypes, Reading, Stream!Damage, Stream!reading, Stream!writing
<1>1. file' \in Seq(Genuine)
  BY <1>t, DamageOf DEF StreamTypes
<1>2. StreamTypes' /\ Counting'
  BY <1>t, <1>1 DEF StreamInv, StreamTypes, Counting, Genuine, OfThis, OfOther
<1>3. damage' # 0
  BY <1>t DEF StreamTypes
<1>4. Layout' /\ Reading' /\ Stream!WholeOrError'
  BY <1>t, <1>2, <1>3 DEF Layout, Reading, Stream!WholeOrError, StreamTypes
<1> QED
  BY <1>2, <1>4 DEF StreamInv

-----------------------------------------------------------------------------
(* The reader.                                                             *)

LEMMA PrefixOf ==
  ASSUME NEW q \in Seq(Nat), NEW r \in Seq(Nat), Len(q) <= Len(r),
         \A i \in 1..Len(q) : q[i] = r[i]
  PROVE  Stream!IsPrefix(q, r)
<1>1. Len(q) \in Nat /\ Len(r) \in Nat
  OBVIOUS
<1>2. /\ SubSeq(q, 1, Len(q)) \in Seq(Nat) /\ SubSeq(r, 1, Len(q)) \in Seq(Nat)
      /\ Len(SubSeq(q, 1, Len(q))) = Len(q) /\ Len(SubSeq(r, 1, Len(q))) = Len(q)
      /\ \A i \in 1..Len(q) : SubSeq(q, 1, Len(q))[i] = q[i] /\ SubSeq(r, 1, Len(q))[i] = r[i]
  BY <1>1
<1>3. SubSeq(q, 1, Len(q)) = SubSeq(r, 1, Len(q))
  BY <1>2, SeqEqual
<1> QED
  BY <1>3 DEF Stream!IsPrefix

\* The package that is written and the other one.
LEMMA WholeOf ==
  ASSUME Sizes, accepted \in Nat
  PROVE  /\ Stream!Written \in Seq(Nat) /\ Len(Stream!Written) = accepted
         /\ \A i \in 1..accepted : Stream!Written[i] = i
         /\ Stream!Foreign \in Seq(Nat) /\ Len(Stream!Foreign) = 2 * ChunkSize
         /\ \A i \in 1..(2 * ChunkSize) : Stream!Foreign[i] = ((i - 1) % ChunkSize) + 1
<1>1. /\ Stream!Written \in Seq(Nat) /\ Len(Stream!Written) = accepted
      /\ \A i \in 1..accepted : Stream!Written[i] = i
  BY DEF Stream!Written
<1>2. 2 * ChunkSize \in Nat /\ \A i \in 1..(2 * ChunkSize) : ((i - 1) % ChunkSize) + 1 \in Nat
  BY DEF Sizes
<1> QED
  BY <1>1, <1>2 DEF Stream!Foreign

\* What the reader has when it comes to an end that it accepts.
LEMMA EndsWhole ==
  ASSUME Sizes, StreamInv, Stream!There, Stream!Ends(Stream!Coming)
  PROVE  LET whole == IF file[1].package = "this" THEN Stream!Written ELSE Stream!Foreign
         IN  /\ file[1].package = "this" /\ format = 3 => writer = "closed"
             /\ out = whole \/ (format = 2 /\ out # <<>> /\ Stream!IsPrefix(out, whole))
<1>t. /\ StreamTypes /\ Reading /\ Counting /\ pos > 0 /\ result = "none" /\ pos < Len(file)
      /\ accepted \in Nat /\ next \in Nat /\ index \in Nat /\ out \in Seq(Nat) /\ Len(out) \in Nat
  BY DEF StreamInv, Stream!There, StreamTypes
<1>c. Stream!Coming \in Genuine /\ file[1] \in Genuine
  <2>1. file \in Seq(Genuine) /\ pos + 1 \in 1..Len(file) /\ 1 \in 1..Len(file)
    BY <1>t DEF StreamTypes
  <2> HIDE DEF Genuine
  <2> QED
    BY <2>1 DEF Stream!Coming
<1>e. Stream!Coming.kind = "end" /\ IF format = 3 THEN Stream!Sealed(Stream!Coming) /\
      Stream!Coming.index = next ELSE next > 0
  BY DEF Stream!Ends, Stream!Opens
<1>n. next * ChunkSize \in Nat /\ ChunkSize \in Nat
  BY <1>t, TimesOf
<1>w. next > 0 => out # <<>>
  BY <1>t DEF Reading
<1>1. CASE file[1].package = "this"
  <2>1. ReadThis
    BY <1>t, <1>1 DEF Reading
  <2>2. CASE format = 3
    <3>1. writer = "closed" /\ index = next
      BY <1>c, <1>e, <1>1, <2>2 DEF Stream!Sealed, Genuine
    <3>2. Len(out) = accepted
      <4>1. accepted <= index * ChunkSize /\ index * ChunkSize = next * ChunkSize
        BY <1>t, <3>1 DEF Counting
      <4>2. Len(out) <= accepted /\ (Len(out) = next * ChunkSize \/ Len(out) = accepted)
        BY <2>1 DEF ReadThis
      <4> QED
        BY <1>t, <1>n, <4>1, <4>2
    <3>3. out = Stream!Written
      BY <2>1, <3>2 DEF ReadThis, Stream!Written
    <3> QED
      BY <1>1, <3>1, <3>3
  <2>3. CASE format = 2
    <3>1. out # <<>>
      BY <1>e, <1>w, <2>3
    <3>2. Stream!IsPrefix(out, Stream!Written)
      <4>1. /\ Len(Stream!Written) = accepted /\ Stream!Written \in Seq(Nat)
            /\ \A i \in 1..accepted : Stream!Written[i] = i
        BY <1>t, WholeOf
      <4>2. Len(out) <= accepted
        BY <2>1 DEF ReadThis
      <4>3. \A i \in 1..Len(out) : out[i] = i
        BY <2>1 DEF ReadThis
      <4>4. \A i \in 1..Len(out) : out[i] = Stream!Written[i]
        BY <1>t, <4>1, <4>2, <4>3
      <4> QED
        BY <1>t, <4>1, <4>2, <4>4, PrefixOf
    <3> QED
      BY <1>1, <2>3, <3>1, <3>2
  <2> QED
    BY <1>t, <2>2, <2>3 DEF StreamTypes
<1>2. CASE file[1].package = "other"
  <2>1. ReadOther
    BY <1>t, <1>2 DEF Reading
  <2>2. Len(out) <= 2 * ChunkSize /\ (next = 2 => Len(out) = 2 * ChunkSize)
    <3>1. next = 0 \/ next = 1 \/ next = 2
      BY <1>t, <2>1 DEF ReadOther
    <3> QED
      BY <1>n, <2>1, <3>1, TimesOf DEF ReadOther
  <2>3. CASE format = 3
    <3>1. next = 2
      BY <1>c, <1>e, <1>2, <2>3 DEF Stream!Sealed, Genuine
    <3>2. out = Stream!Foreign
      BY <2>1, <2>2, <3>1 DEF ReadOther, Stream!Foreign
    <3> QED
      BY <1>2, <3>2
  <2>4. CASE format = 2
    <3>1. out # <<>>
      BY <1>e, <1>w, <2>4
    <3>2. /\ Len(Stream!Foreign) = 2 * ChunkSize /\ Stream!Foreign \in Seq(Nat)
          /\ \A i \in 1..(2 * ChunkSize) : Stream!Foreign[i] = ((i - 1) % ChunkSize) + 1
      BY <1>t, WholeOf
    <3>3. \A i \in 1..Len(out) : i \in 1..(2 * ChunkSize) /\ out[i] = ((i - 1) % ChunkSize) + 1
      BY <1>t, <1>n, <2>1, <2>2 DEF ReadOther
    <3>4. Stream!IsPrefix(out, Stream!Foreign)
      BY <1>t, <2>2, <3>2, <3>3, PrefixOf
    <3> QED
      BY <1>2, <2>4, <3>1, <3>4
  <2> QED
    BY <1>t, <2>3, <2>4 DEF StreamTypes
<1>3. CASE file[1].package = "none"
  <2>1. next = 0
    BY <1>t, <1>3 DEF Reading
  <2> QED
    BY <1>t, <1>e, <1>3, <2>1 DEF Stream!Sealed, StreamTypes
<1> QED
  BY <1>c, <1>1, <1>2, <1>3 DEF Genuine, Shape

\* A file that nothing has happened to is read on until its end.
LEMMA IntactComing ==
  ASSUME Sizes, StreamInv, pos > 0, damage = 0, writer # "failed"
  PROVE  /\ pos < Len(file) /\ writer = "closed"
         /\ next < index => Stream!Opens(Stream!Coming, "data")
         /\ next = index => /\ Stream!Sealed(Stream!Coming) /\ Stream!Coming.kind = "end" /\
                               Stream!Coming.index = next
                            /\ pos + 1 = Len(file)
         /\ next < index \/ next = index
<1>1. writer = "closed"
  BY DEF StreamInv, Reading, StreamTypes
<1>2. /\ Len(file) = index + 2 /\ Is(file[1], "header", 0)
      /\ \A k \in Nat : k < index => Is(file[k + 2], "data", k)
      /\ Is(file[index + 2], "end", index)
      /\ pos = next + 1 /\ next <= index
  BY <1>1 DEF StreamInv, Layout
<1>3. index \in Nat /\ next \in Nat /\ pos \in Nat
  BY DEF StreamInv, StreamTypes
<1>4. Stream!Coming = file[next + 2]
  <2>1. pos + 1 = next + 2
    BY <1>2, <1>3
  <2> QED
    BY <2>1 DEF Stream!Coming
<1>5. file[1].package = "this"
  BY <1>2 DEF Is
<1>6. ASSUME next < index PROVE Stream!Opens(Stream!Coming, "data")
  <2>1. Is(Stream!Coming, "data", next)
    BY <1>2, <1>3, <1>4, <1>6
  <2> QED
    BY <1>5, <2>1 DEF Stream!Opens, Stream!Sealed, Is
<1>7. ASSUME next = index
      PROVE  /\ Stream!Sealed(Stream!Coming) /\ Stream!Coming.kind = "end" /\
                Stream!Coming.index = next
             /\ pos + 1 = Len(file)
  <2>1. Is(Stream!Coming, "end", next)
    BY <1>2, <1>4, <1>7
  <2>2. pos + 1 = Len(file)
    BY <1>2, <1>3, <1>7
  <2> QED
    BY <1>5, <2>1, <2>2 DEF Stream!Sealed, Is
<1>8. pos < Len(file) /\ (next < index \/ next = index)
  BY <1>2, <1>3
<1> QED
  BY <1>1, <1>6, <1>7, <1>8

LEMMA ReadingTypes ==
  ASSUME StreamInv, UNCHANGED <<Stream!writing, file, damage>>, pos' \in Nat, next' \in Nat,
         out' \in Seq(Nat), result' \in {"none", "ok", "error", "failed"}
  PROVE  StreamTypes' /\ Counting'
BY DEF StreamInv, StreamTypes, Counting, Stream!writing, Genuine, OfThis, OfOther

\* Nothing but the result of the reader.
LEMMA ReturnKeeps ==
  ASSUME StreamInv, NEW r \in {"ok", "error", "failed"}, Stream!Return(r), Stream!WholeOrError',
    writer # "open",
         pos > 0 \/ r = "error"
  PROVE  StreamInv'
<1>1. StreamTypes' /\ Counting'
  BY ReadingTypes DEF StreamInv, StreamTypes, Stream!Return
<1>2. Reading' /\ Layout'
  BY DEF StreamInv, Reading, Layout, Stream!Return, Stream!writing, ReadThis, ReadOther
<1> QED
  BY <1>1, <1>2 DEF StreamInv

LEMMA ReadHeaderKeeps == ASSUME Sizes, StreamInv, Stream!ReadHeader PROVE StreamInv'
<1>t. /\ StreamTypes /\ writer # "open" /\ pos = 0 /\ result = "none" /\ out = <<>> /\ next = 0
      /\ Len(file) \in Nat /\ file \in Seq(Genuine)
  <2>1. StreamTypes /\ writer # "open" /\ pos = 0 /\ result = "none" /\ out = <<>> /\ next = 0
    BY DEF StreamInv, StreamTypes, Reading, Stream!ReadHeader
  <2>2. file \in Seq(Genuine)
    BY <2>1 DEF StreamTypes
  <2> HIDE DEF Genuine
  <2> QED
    BY <2>1, <2>2
<1>1. CASE file # <<>> /\ Head(file).kind = "header"
  <2>1. pos' = 1 /\ UNCHANGED <<Stream!writing, file, damage, next, out, result>>
    BY <1>1 DEF Stream!ReadHeader
  <2>2. StreamTypes' /\ Counting'
    BY <1>t, <2>1, ReadingTypes DEF StreamTypes
  <2>3. Len(file) >= 1
    <3> HIDE DEF Genuine
    <3> QED
      BY <1>t, <1>1
  <2>4. /\ Len(<<>>) = 0 /\ <<>> = [i \in 1..0 |-> i]
        /\ <<>> = [i \in 1..0 |-> ((i - 1) % ChunkSize) + 1] /\ 0 * ChunkSize = 0
    BY TimesOf
  <2>5. ReadThis' /\ ReadOther'
    BY <1>t, <2>1, <2>4 DEF StreamTypes, ReadThis, ReadOther, Stream!writing
  <2>6. Reading'
    BY <1>t, <2>1, <2>3, <2>5 DEF Reading, Stream!writing
  <2>7. Layout' /\ Stream!WholeOrError'
    BY <1>t, <2>1 DEF StreamInv, StreamTypes, Layout, Stream!WholeOrError, Stream!writing
  <2> QED
    BY <2>2, <2>6, <2>7 DEF StreamInv
<1>2. CASE ~(file # <<>> /\ Head(file).kind = "header")
  <2>1. Stream!Return("error")
    BY <1>2 DEF Stream!ReadHeader
  <2>2. ASSUME damage = 0, writer # "failed" PROVE FALSE
    <3>1. Len(file) >= 1 /\ file[1].kind = "header"
      BY <1>t, <2>2 DEF StreamInv, Layout, Is, StreamTypes
    <3>2. file # <<>> /\ Head(file) = file[1]
      <4> HIDE DEF Genuine
      <4> QED
        BY <1>t, <3>1
    <3> QED
      BY <1>2, <3>1, <3>2
  <2>3. damage \in Nat
    BY <1>t DEF StreamTypes
  <2>4. Stream!WholeOrError'
    BY <2>1, <2>2, <2>3 DEF Stream!WholeOrError, Stream!Return, Stream!writing
  <2> QED
    BY <1>t, <2>1, <2>4, ReturnKeeps
<1> QED
  BY <1>1, <1>2

LEMMA ReadEndKeeps == ASSUME Sizes, StreamInv, Stream!ReadEnd PROVE StreamInv'
<1>t. pos > 0 /\ writer # "open" /\ damage \in Nat /\ pos \in Nat
  BY DEF StreamInv, Reading, StreamTypes, Stream!ReadEnd, Stream!There
<1>1. CASE pos + 1 = Len(file)
  <2>1. Stream!Return("ok")
    BY <1>1 DEF Stream!ReadEnd
  <2>2. Stream!WholeOrError'
    BY <2>1, EndsWhole
    DEF Stream!ReadEnd, Stream!WholeOrError, Stream!Return, Stream!writing, Stream!Written
  <2> QED
    BY <1>t, <2>1, <2>2, ReturnKeeps
<1>2. CASE pos + 1 # Len(file)
  <2>1. Stream!Return("error") /\ Stream!Coming.kind = "end"
    BY <1>2 DEF Stream!ReadEnd, Stream!Ends, Stream!Opens
  <2>2. damage # 0 \/ writer = "failed"
    BY <1>t, <1>2, <2>1, IntactComing DEF Stream!Opens
  <2>3. Stream!WholeOrError'
    BY <1>t, <2>1, <2>2 DEF Stream!WholeOrError, Stream!Return, Stream!writing
  <2> QED
    BY <1>t, <2>1, <2>3, ReturnKeeps
<1> QED
  BY <1>1, <1>2

LEMMA RejectKeeps == ASSUME Sizes, StreamInv, Stream!Reject \/ Stream!ReadFails PROVE StreamInv'
<1>t. /\ pos > 0 /\ writer # "open" /\ damage \in Nat /\ index \in Nat /\ accepted \in Nat
      /\ format \in {2, 3}
  BY DEF StreamInv, Reading, StreamTypes, Stream!Reject, Stream!ReadFails, Stream!There
<1>1. CASE Stream!Reject
  <2>1. Stream!Return("error")
    BY <1>1 DEF Stream!Reject
  <2>2. ASSUME damage = 0, writer # "failed" PROVE format = 2 /\ accepted = 0
    <3>1. ~Stream!Opens(Stream!Coming, "data") /\ ~Stream!Ends(Stream!Coming)
      BY <1>t, <1>1, <2>2, IntactComing DEF Stream!Reject
    <3>2. next = index /\ Stream!Sealed(Stream!Coming) /\ Stream!Coming.kind = "end" /\
          Stream!Coming.index = next
      BY <1>t, <2>2, <3>1, IntactComing
    <3>3. format = 2 /\ index = 0
      BY <1>t, <3>1, <3>2 DEF Stream!Ends, Stream!Opens
    <3>4. accepted <= index * ChunkSize /\ 0 * ChunkSize = 0
      BY <1>t, <2>2, IntactComing, TimesOf DEF StreamInv, Counting
    <3> QED
      BY <1>t, <3>3, <3>4
  <2>3. Stream!WholeOrError'
    BY <1>t, <2>1, <2>2 DEF Stream!WholeOrError, Stream!Return, Stream!writing
  <2> QED
    BY <1>t, <2>1, <2>3, ReturnKeeps
<1>2. CASE Stream!ReadFails
  BY <1>t, <1>2, ReturnKeeps DEF Stream!ReadFails, Stream!WholeOrError, Stream!Return
<1> QED
  BY <1>1, <1>2

\* The next record continues what has been read.
LEMMA ReadOn == ASSUME Sizes, StreamInv, Stream!ReadRecord PROVE Reading'
<1>t. /\ StreamTypes /\ Reading /\ pos > 0 /\ result = "none" /\ pos < Len(file) /\
         Len(file) \in Nat
      /\ accepted \in Nat /\ next \in Nat /\ out \in Seq(Nat) /\ Len(out) \in Nat /\ pos \in Nat
      /\ Stream!Opens(Stream!Coming, "data") /\ out' = out \o Stream!Coming.units /\
         next' = next + 1 /\ pos' = pos + 1
      /\ UNCHANGED <<accepted, writer, file, result>>
  <2>1. file \in Seq(Genuine)
    BY DEF StreamInv, StreamTypes
  <2>2. Len(file) \in Nat
    <3> HIDE DEF Genuine
    <3> QED
      BY <2>1
  <2> QED
    BY <2>2 DEF StreamInv, StreamTypes, Stream!There, Stream!ReadRecord, Stream!writing
<1>c. Stream!Coming \in Genuine /\ file[1] \in Genuine
  <2>1. file \in Seq(Genuine) /\ pos + 1 \in 1..Len(file) /\ 1 \in 1..Len(file)
    BY <1>t DEF StreamTypes
  <2> HIDE DEF Genuine
  <2> QED
    BY <2>1 DEF Stream!Coming
<1>o. /\ Stream!Coming.kind = "data" /\ Stream!Coming.index = next /\
         Stream!Coming.units \in Seq(Nat)
      /\ Len(Stream!Coming.units) \in Nat /\ Stream!Coming.package = file[1].package
      /\ file[1].package \in {"this", "other"}
  BY <1>t, <1>c DEF Stream!Opens, Stream!Sealed, Genuine, Shape
<1>n. /\ next * ChunkSize \in Nat /\ ChunkSize \in Nat /\ ChunkSize > 0
      /\ (next + 1) * ChunkSize = next * ChunkSize + ChunkSize
  BY <1>t, TimesOf
<1>1. CASE file[1].package = "this"
  <2>1. ReadThis /\ OfThis(Stream!Coming)
    BY <1>t, <1>c, <1>o, <1>1 DEF Reading, Genuine
  <2>2. /\ Len(Stream!Coming.units) > 0 /\ Len(Stream!Coming.units) <= ChunkSize
        /\ Stream!Coming.units = [i \in 1..Len(Stream!Coming.units) |-> next * ChunkSize + i]
        /\ \/ Len(Stream!Coming.units) = ChunkSize /\ next * ChunkSize + ChunkSize <= accepted
           \/ writer = "closed" /\ next * ChunkSize + Len(Stream!Coming.units) = accepted
    BY <1>o, <2>1 DEF OfThis
  <2>3. /\ Len(out) = next * ChunkSize /\ Len(out) + Len(Stream!Coming.units) <= accepted
        /\ Len(Stream!Coming.units) = ChunkSize =>
             Len(out) + Len(Stream!Coming.units) = next * ChunkSize + ChunkSize
        /\ next * ChunkSize + Len(Stream!Coming.units) = accepted =>
             /\ Len(out) + Len(Stream!Coming.units) = accepted
             /\ accepted <= next * ChunkSize + ChunkSize
    <3> DEFINE n == next * ChunkSize
               u == Len(Stream!Coming.units)
    <3>1. Len(out) = n \/ (Len(out) = accepted /\ accepted <= n)
      BY <2>1 DEF ReadThis
    <3>2. n \in Nat /\ ChunkSize \in Nat /\ u \in Nat /\ accepted \in Nat /\ Len(out) \in Nat
      BY <1>t, <1>n, <1>o
    <3>3. u <= ChunkSize /\ ((u = ChunkSize /\ n + ChunkSize <= accepted) \/ n + u = accepted)
      BY <2>2
    <3> HIDE DEF n, u
    <3>4. /\ Len(out) = n /\ Len(out) + u <= accepted
          /\ u = ChunkSize => Len(out) + u = n + ChunkSize
          /\ n + u = accepted => Len(out) + u = accepted /\ accepted <= n + ChunkSize
      BY <3>1, <3>2, <3>3, NextRecord
    <3> QED
      BY <3>4 DEF n, u
  <2>4. /\ out' \in Seq(Nat) /\ Len(out') = Len(out) + Len(Stream!Coming.units)
        /\ out' = [i \in 1..Len(out') |-> i]
    <3>1. out = [i \in 1..Len(out) |-> i]
      BY <2>1 DEF ReadThis
    <3>2. Stream!Coming.units = [i \in 1..Len(Stream!Coming.units) |-> Len(out) + i]
      BY <2>2, <2>3
    <3> QED
      BY <1>t, <1>o, <3>1, <3>2, CountOn
  <2>5. ReadThis'
    <3>1. Len(out') <= accepted
      BY <2>3, <2>4
    <3>2. \/ Len(out') = next' * ChunkSize
          \/ writer = "closed" /\ Len(out') = accepted /\ accepted <= next' * ChunkSize
      <4>1. next' * ChunkSize = next * ChunkSize + ChunkSize
        BY <1>n, <1>t
      <4> QED
        BY <2>2, <2>3, <2>4, <4>1
    <3> QED
      BY <1>t, <2>4, <3>1, <3>2 DEF ReadThis
  <2>6. Len(out') > 0 /\ pos' <= Len(file) /\ pos' > 0
    BY <1>t, <1>o, <2>2, <2>4
  <2>7. writer # "open"
    BY <1>t DEF Reading
  <2> QED
    BY <1>t, <1>1, <2>5, <2>6, <2>7 DEF Reading
<1>2. CASE file[1].package = "other"
  <2>1. ReadOther /\ OfOther(Stream!Coming)
    BY <1>t, <1>c, <1>o, <1>2 DEF Reading, Genuine
  <2>2. next \in {0, 1} /\ Stream!Coming.units = [i \in 1..ChunkSize |-> i]
    BY <1>o, <2>1 DEF OfOther
  <2>3. Len(Stream!Coming.units) = ChunkSize /\ Len(out) = next * ChunkSize
    BY <1>n, <2>1, <2>2 DEF ReadOther
  <2>4. /\ out' \in Seq(Nat) /\ Len(out') = Len(out) + ChunkSize
        /\ \A i \in 1..(Len(out) + ChunkSize) :
             out'[i] = IF i <= Len(out) THEN out[i] ELSE Stream!Coming.units[i - Len(out)]
    BY <1>t, <1>o, <2>3, ConcatProperties
  <2>5. ASSUME NEW i \in 1..Len(out') PROVE out'[i] = ((i - 1) % ChunkSize) + 1
    <3>1. CASE i <= Len(out)
      <4>1. i \in 1..Len(out)
        BY <1>t, <3>1
      <4>2. out[i] = ((i - 1) % ChunkSize) + 1
        BY <2>1, <4>1 DEF ReadOther
      <4> QED
        BY <2>4, <3>1, <4>2
    <3>2. CASE ~(i <= Len(out))
      <4>1. i - Len(out) \in 1..ChunkSize
        BY <1>n, <1>t, <2>4, <3>2
      <4>2. out'[i] = i - Len(out)
        BY <2>2, <2>4, <3>2, <4>1
      <4>3. Len(out) = 0 \/ Len(out) = ChunkSize
        BY <1>n, <2>2, <2>3, TimesOf
      <4>4. (i - 1) % ChunkSize = (i - Len(out)) - 1
        <5> DEFINE j == i - Len(out)
        <5>0. i \in Int /\ Len(out) \in Int
          BY <1>t
        <5>1. j \in 1..ChunkSize /\ (i - 1 = j - 1 \/ i - 1 = ChunkSize + j - 1)
          BY <1>n, <4>1, <4>3, <5>0
        <5> HIDE DEF j
        <5>2. (i - 1) % ChunkSize = j - 1
          BY <1>n, <5>1, ChunkMod
        <5> QED
          BY <5>2 DEF j
      <4> QED
        BY <1>t, <4>1, <4>2, <4>4
    <3> QED
      BY <3>1, <3>2
  <2>6. ReadOther'
    <3>1. out' \in [1..Len(out') -> Nat]
      BY <2>4, LenProperties
    <3>2. out' = [i \in 1..Len(out') |-> ((i - 1) % ChunkSize) + 1]
      BY <2>5, <3>1
    <3>3. next' <= 2
      BY <1>t, <2>2
    <3>4. Len(out') = next' * ChunkSize
      BY <1>n, <1>t, <2>3, <2>4
    <3> QED
      BY <3>2, <3>3, <3>4 DEF ReadOther
  <2>7. Len(out') > 0 /\ pos' <= Len(file) /\ pos' > 0
    BY <1>t, <1>n, <2>4
  <2>8. writer # "open"
    BY <1>t DEF Reading
  <2> QED
    BY <1>t, <1>2, <2>6, <2>7, <2>8 DEF Reading
<1> QED
  BY <1>o, <1>1, <1>2

LEMMA ReadRecordKeeps == ASSUME Sizes, StreamInv, Stream!ReadRecord PROVE StreamInv'
<1>t. /\ StreamTypes /\ pos > 0 /\ result = "none" /\ pos \in Nat /\ next \in Nat /\ index \in Nat
      /\ next' = next + 1 /\ pos' = pos + 1 /\ Stream!Opens(Stream!Coming, "data")
      /\ UNCHANGED <<Stream!writing, file, damage, result>>
  BY DEF StreamInv, StreamTypes, Stream!There, Stream!ReadRecord
<1>1. Reading'
  BY ReadOn
<1>2. out' \in Seq(Nat)
  <2>1. file \in Seq(Genuine) /\ pos + 1 \in 1..Len(file)
    BY <1>t DEF StreamTypes, Stream!ReadRecord, Stream!There
  <2>2. Stream!Coming \in Genuine
    <3> HIDE DEF Genuine
    <3> QED
      BY <2>1 DEF Stream!Coming
  <2>3. Stream!Coming.units \in Seq(Nat) /\ out \in Seq(Nat) /\ out' = out \o Stream!Coming.units
    BY <1>t, <2>2 DEF Genuine, Shape, StreamTypes, Stream!ReadRecord
  <2> QED
    BY <2>3
<1>3. StreamTypes' /\ Counting'
  BY <1>t, <1>2, ReadingTypes DEF StreamTypes
<1>4. Stream!WholeOrError'
  BY <1>t DEF Stream!WholeOrError
<1>5. Layout'
  <2>1. damage = 0 /\ writer # "failed" => next < index /\ pos = next + 1
    <3> SUFFICES ASSUME damage = 0, writer # "failed" PROVE next < index /\ pos = next + 1
      OBVIOUS
    <3>1. next < index
      BY <1>t, IntactComing DEF Stream!Opens
    <3> QED
      BY <1>t, <3>1 DEF StreamInv, Layout
  <2>2. damage = 0 /\ writer # "failed" => next' <= index /\ pos' = next' + 1
    BY <1>t, <2>1
  <2> QED
    BY <1>t, <2>2 DEF StreamInv, Layout, Stream!writing
<1> QED
  BY <1>1, <1>3, <1>4, <1>5 DEF StreamInv

-----------------------------------------------------------------------------
(* The invariant.                                                          *)

LEMMA InitStreamInv == ASSUME Sizes, Stream!Init PROVE StreamInv
<1>1. /\ Stream!Header("this") \in Shape /\ Stream!Header("this").package = "this"
      /\ Stream!Header("this").kind = "header" /\ Stream!Header("this").index = 0
  <2>1. <<>> \in Seq(Nat)
    OBVIOUS
  <2> QED
    BY <2>1 DEF Stream!Header, Stream!Piece, Shape, Stream!Kinds
<1>2. Stream!Header("this") \in Genuine
  BY <1>1 DEF Genuine
<1>3. file \in Seq(Genuine) /\ Len(file) = 1 /\ file[1] = Stream!Header("this")
  <2> HIDE DEF Genuine
  <2> QED
    BY <1>2 DEF Stream!Init
<1>4. <<>> \in Seq(Nat)
  OBVIOUS
<1>5. StreamTypes
  BY <1>3, <1>4 DEF Stream!Init, StreamTypes
<1>6. Counting
  <2>1. Len(<<>>) = 0 /\ <<>> = [i \in 1..0 |-> 0 * ChunkSize + i] /\ 0 * ChunkSize = 0
    BY TimesOf
  <2> QED
    BY <2>1 DEF Stream!Init, Counting, Sizes
<1>7. Reading /\ Stream!WholeOrError
  BY <1>3 DEF Stream!Init, Reading, Stream!WholeOrError
<1>8. Layout
  BY <1>1, <1>3 DEF Stream!Init, Layout, Is
<1> QED
  BY <1>5, <1>6, <1>7, <1>8 DEF StreamInv

\* In every reachable state every record of a package is a genuine one or does not
\* open, and the reader has read a beginning of it (backupEncryptWriter).
THEOREM StreamKept == ASSUME Sizes PROVE Stream!Spec => []StreamInv
<1>1. Stream!Init => StreamInv
  BY InitStreamInv
<1>2. StreamInv /\ [Stream!Next]_Stream!vars => StreamInv'
  <2> SUFFICES ASSUME StreamInv, [Stream!Next]_Stream!vars PROVE StreamInv'
    OBVIOUS
  <2>1. CASE UNCHANGED Stream!vars
    BY <2>1
    DEF Stream!vars, Stream!writing, Stream!reading, StreamInv, StreamTypes, Counting, Reading,
        ReadThis, ReadOther, Layout, Stream!WholeOrError, Genuine, OfThis, OfOther,
        Stream!Written
  <2> QED
    BY <2>1, WriteKeeps, WriteFailsKeeps, CloseKeeps, DamageKeeps, ReadHeaderKeeps,
       ReadRecordKeeps, ReadEndKeeps, RejectKeeps DEF Stream!Next
<1> QED
  BY <1>1, <1>2, PTL DEF Stream!Spec

\* Whatever happens to a package, it is read in full or refused; what nothing
\* has happened to is not refused.
THEOREM ReadInFullOrRefused == ASSUME Sizes PROVE Stream!Spec => []Stream!WholeOrError
<1>1. StreamInv => Stream!WholeOrError
  BY DEF StreamInv
<1> QED
  BY <1>1, StreamKept, PTL

-----------------------------------------------------------------------------
(* Retention: any objects, periods and engines.                              *)

Periods ==
  /\ Period \in Nat /\ TrashPeriod \in Nat /\ LinkPeriod \in Nat /\ MaxSecond \in Nat

-----------------------------------------------------------------------------
(* Text and time.                                                          *)

LEMMA DigitsOfASecond == Row!PerSecond \in Nat /\ Row!PerSecond > 0
<1>1. Row!PerSecond = 3
  BY DEF Row!PerSecond, Row!Digits
<1> QED
  BY <1>1

LEMMA InstantTypes ==
  ASSUME Periods
  PROVE  0 \in Row!Instants /\ Row!Instants \subseteq Nat /\ Row!Never \in Nat
BY DigitsOfASecond DEF Periods, Row!Instants, Row!Never

LEMMA DivisionOf ==
  ASSUME NEW t \in Nat, NEW p \in Nat, p > 0
  PROVE  t \div p \in Nat /\ (t \div p) * p <= t /\ t < (t \div p) * p + p
OBVIOUS

LEMMA Quotients ==
  ASSUME NEW p \in Nat, NEW m \in Nat, NEW n \in Nat, m < n
  PROVE  m * p \in Nat /\ n * p \in Nat /\ m * p + p <= n * p
<1>1. PICK d \in Nat : n = m + 1 + d
  <2>1. n - m - 1 \in Nat /\ n = m + 1 + (n - m - 1)
    OBVIOUS
  <2> QED
    BY <2>1
<1>2. n * p = m * p + p + d * p /\ d * p \in Nat /\ m * p \in Nat
  BY <1>1
<1> QED
  BY <1>2

\* Whole seconds: what lies a second or more before comes before, and what comes
\* before in whole seconds lies before.
LEMMA SecondsOf ==
  ASSUME NEW t \in Nat, NEW u \in Nat
  PROVE  /\ t + Row!PerSecond <= u => Row!Second(t) < Row!Second(u)
         /\ Row!Second(t) < Row!Second(u) => t < u
         /\ Row!Second(t) = Row!Second(u) => t < u + Row!PerSecond
<1> DEFINE p == Row!PerSecond
           m == Row!Second(t)
           n == Row!Second(u)
<1>1. p \in Nat /\ p > 0
  BY DigitsOfASecond
<1>2. m \in Nat /\ m * p <= t /\ t < m * p + p
  BY <1>1, DivisionOf DEF Row!Second
<1>3. n \in Nat /\ n * p <= u /\ u < n * p + p
  BY <1>1, DivisionOf DEF Row!Second
<1> HIDE DEF p, m, n
<1>4. m * p \in Nat /\ n * p \in Nat
  BY <1>1, <1>2, <1>3
<1>5. n < m => n * p + p <= m * p
  BY <1>1, <1>2, <1>3, Quotients
<1>6. m < n => m * p + p <= n * p
  BY <1>1, <1>2, <1>3, Quotients
<1>7. t + p <= u => m < n
  <2> SUFFICES ASSUME t + p <= u, ~(m < n) PROVE FALSE
    OBVIOUS
  <2>1. CASE m = n
    BY <1>1, <1>2, <1>3, <1>4, <2>1
  <2>2. CASE n < m
    BY <1>1, <1>2, <1>3, <1>4, <1>5, <2>2
  <2> QED
    BY <1>2, <1>3, <2>1, <2>2
<1>8. m < n => t < u
  BY <1>1, <1>2, <1>3, <1>4, <1>6
<1>9. m = n => t < u + p
  BY <1>1, <1>2, <1>3, <1>4
<1> QED
  BY <1>7, <1>8, <1>9 DEF p, m, n

\* The text of an instant before that of another says which is first, but for
\* less than a second.
LEMMA TextTells ==
  ASSUME NEW t \in Nat, NEW u \in Nat
  PROVE  /\ Row!TextBefore(t, u) => t < u + Row!PerSecond
         /\ t + Row!PerSecond <= u => Row!TextBefore(t, u)
<1>1. Row!PerSecond \in Nat
  BY DigitsOfASecond
<1>2. Row!Second(t) \in Nat /\ Row!Second(u) \in Nat
  BY DigitsOfASecond, DivisionOf DEF Row!Second
<1> QED
  BY <1>1, <1>2, SecondsOf DEF Row!TextBefore

\* Either engine's test of an instant is right but for less than a second.
LEMMA ReachedTells ==
  ASSUME rowNow \in Nat, NEW t \in Nat
  PROVE  (Row!Reached(t) => Row!Near(t)) /\ (Row!Past(t) => Row!Reached(t))
<1>1. Row!PerSecond \in Nat /\ Row!PerSecond > 0
  BY DigitsOfASecond
<1>2. Row!TextBefore(t, rowNow) => t < rowNow + Row!PerSecond
  BY TextTells
<1>3. t + Row!PerSecond <= rowNow => Row!TextBefore(t, rowNow)
  BY TextTells
<1> QED
  BY <1>1, <1>2, <1>3 DEF Row!Reached, Row!Near, Row!Past, Row!TextNotAfter

LEMMA OlderTells ==
  ASSUME rowNow \in Nat, NEW t \in Nat, NEW n \in Nat
  PROVE  (Row!Older(t, n) => Row!Near(t + Row!Seconds(n))) /\
    (Row!Past(t + Row!Seconds(n)) => Row!Older(t, n))
<1>1. Row!PerSecond \in Nat /\ Row!PerSecond > 0 /\ Row!Seconds(n) \in Nat
  BY DigitsOfASecond DEF Row!Seconds
<1> HIDE DEF Row!Seconds
<1>2. CASE rowNow >= Row!Seconds(n)
  <2>1. rowNow - Row!Seconds(n) \in Nat
    BY <1>1, <1>2
  <2>2. Row!TextBefore(t, rowNow - Row!Seconds(n)) =>
        t < (rowNow - Row!Seconds(n)) + Row!PerSecond
    BY <2>1, TextTells
  <2>3. t + Row!PerSecond <= rowNow - Row!Seconds(n) => Row!TextBefore(t, rowNow - Row!Seconds(n))
    BY <2>1, TextTells
  <2> QED
    BY <1>1, <1>2, <2>2, <2>3 DEF Row!Older, Row!TextOlder, Row!Near, Row!Past
<1>3. CASE ~(rowNow >= Row!Seconds(n))
  BY <1>1, <1>3 DEF Row!Older, Row!TextOlder, Row!Near, Row!Past
<1> QED
  BY <1>2, <1>3

-----------------------------------------------------------------------------
(* The sweeps.                                                             *)

LEMMA RowNextTypeOK == ASSUME Periods, Row!TypeOK, [Row!Next]_Row!vars PROVE Row!TypeOK'
<1>1. 0 \in Row!Instants
  BY InstantTypes
<1> USE DEF Row!TypeOK, Row!rows, Row!links, Row!Other, Row!Revoked
<1> HIDE DEF Row!Instants, Row!Never
<1>2. ASSUME NEW o \in Objects, NEW e \in Row!Instants \union {Row!Never}, NEW p \in BOOLEAN,
             Row!Create(o, e, p)
      PROVE  Row!TypeOK'
  BY <1>2 DEF Row!Create
<1>3. ASSUME NEW o \in Objects, Row!Touch(o) PROVE Row!TypeOK'
  BY <1>3 DEF Row!Touch
<1>4. ASSUME NEW o \in Objects, Row!Delete(o) PROVE Row!TypeOK'
  BY <1>4 DEF Row!Delete
<1>5. ASSUME NEW o \in Objects, Row!RestoreTrash(o) PROVE Row!TypeOK'
  BY <1>1, <1>5 DEF Row!RestoreTrash
<1>6. ASSUME NEW o \in Objects, Row!PurgeTrash(o) PROVE Row!TypeOK'
  BY <1>6 DEF Row!PurgeTrash
<1>7. ASSUME NEW o \in Objects, Row!CreateShare(o) PROVE Row!TypeOK'
  BY <1>7 DEF Row!CreateShare
<1>8. ASSUME NEW o \in Objects, Row!LinkDies(o) PROVE Row!TypeOK'
  BY <1>8 DEF Row!LinkDies
<1>9. CASE Row!ProbeExpired
  BY <1>9 DEF Row!ProbeExpired, Row!Probe
<1>10. CASE Row!ProbeTrash
  BY <1>10 DEF Row!ProbeTrash, Row!Probe
<1>11. CASE Row!CleanupExpired
  BY <1>11 DEF Row!CleanupExpired, Row!Sweep
<1>12. CASE Row!PurgeExpiredTrash
  <2>1. link' \in [Objects -> {"none", "active", "dead", "gone"}]
    BY <1>12 DEF Row!PurgeExpiredTrash, Row!SQLiteLinks, Row!JSONLinks
  <2> QED
    BY <1>12, <2>1 DEF Row!PurgeExpiredTrash, Row!Sweep
<1>13. CASE Row!Tick
  BY <1>13 DEF Row!Tick
<1>14. CASE UNCHANGED Row!vars
  BY <1>14 DEF Row!vars
<1> QED
  BY <1>2, <1>3, <1>4, <1>5, <1>6, <1>7, <1>8, <1>9, <1>10, <1>11, <1>12, <1>13, <1>14
  DEF Row!Next

\* Every reachable object, link and sweep is well typed.
THEOREM RowTypeCorrect == ASSUME Periods PROVE Row!Spec => []Row!TypeOK
<1>1. Row!Init => Row!TypeOK
  BY InstantTypes DEF Row!Init, Row!TypeOK
<1>2. Row!TypeOK /\ [Row!Next]_Row!vars => Row!TypeOK'
  BY RowNextTypeOK
<1> QED
  BY <1>1, <1>2, PTL DEF Row!Spec

\* A row that is due is nearly due, and one that has long been due is due.
LEMMA OverdueTells ==
  ASSUME Periods, Row!TypeOK, NEW o \in Objects
  PROVE  (Row!Overdue(o) => Row!NearlyDue(o)) /\ (Row!LongDue(o) => Row!Overdue(o))
<1>1. rowNow \in Nat /\ rowExpires[o] \in Nat /\ touched[o] \in Nat /\ Period \in Nat
  BY InstantTypes DEF Row!TypeOK, Periods
<1>2. (Row!Reached(rowExpires[o]) => Row!Near(rowExpires[o])) /\
      (Row!Past(rowExpires[o]) => Row!Reached(rowExpires[o]))
  BY <1>1, ReachedTells
<1>3. /\ Row!Older(touched[o], Period) => Row!Near(touched[o] + Row!Seconds(Period))
      /\ Row!Past(touched[o] + Row!Seconds(Period)) => Row!Older(touched[o], Period)
  BY <1>1, OlderTells
<1> QED
  BY <1>2, <1>3 DEF Row!Overdue, Row!NearlyDue, Row!LongDue

LEMMA DoomedTells ==
  ASSUME Periods, Row!TypeOK, NEW o \in Objects, state[o] = "trash"
  PROVE  /\ Row!Doomed(o) => Row!Near(deleted[o] + Row!Seconds(TrashPeriod))
         /\ Row!Past(deleted[o] + Row!Seconds(TrashPeriod)) => Row!Doomed(o)
<1>1. rowNow \in Nat /\ deleted[o] \in Nat /\ TrashPeriod \in Nat
  BY InstantTypes DEF Row!TypeOK, Periods
<1> QED
  BY <1>1, OlderTells DEF Row!Doomed

\* The steps that are sweeps: one that did its work, or a look that found nothing.
LEMMA SweepSteps ==
  ASSUME Row!Next
  PROVE  /\ sweep' = "cleanup" =>
              \/ Row!CleanupExpired
              \/ Row!Due = {} /\ state' = state
         /\ sweep' = "purge" =>
              \/ Row!PurgeExpiredTrash
              \/ state' = state /\ \A o \in Objects : ~Row!Doomed(o)
<1>1. ASSUME NEW o \in Objects, NEW e \in Row!Instants \union {Row!Never}, NEW p \in BOOLEAN,
             Row!Create(o, e, p)
      PROVE  sweep' = "none"
  BY <1>1 DEF Row!Create, Row!Other
<1>2. ASSUME NEW o \in Objects,
             \/ Row!Touch(o) \/ Row!Delete(o) \/ Row!RestoreTrash(o) \/ Row!PurgeTrash(o)
             \/ Row!CreateShare(o) \/ Row!LinkDies(o)
      PROVE  sweep' = "none"
  BY <1>2
  DEF Row!Touch, Row!Delete, Row!RestoreTrash, Row!PurgeTrash, Row!CreateShare, Row!LinkDies,
      Row!Other
<1>3. Row!Tick => sweep' = "none"
  BY DEF Row!Tick, Row!Other
<1>4. Row!ProbeExpired => sweep' = "none" \/
      (sweep' = "cleanup" /\ Row!Due = {} /\ state' = state)
  BY DEF Row!ProbeExpired, Row!Probe, Row!rows
<1>5. Row!ProbeTrash =>
        \/ sweep' = "none"
        \/ sweep' = "purge" /\ state' = state /\ \A o \in Objects : ~Row!Doomed(o)
  BY DEF Row!ProbeTrash, Row!Probe, Row!rows
<1>6. Row!CleanupExpired => sweep' = "cleanup"
  BY DEF Row!CleanupExpired, Row!Sweep
<1>7. Row!PurgeExpiredTrash => sweep' = "purge"
  BY DEF Row!PurgeExpiredTrash, Row!Sweep
<1> QED
  BY <1>1, <1>2, <1>3, <1>4, <1>5, <1>6, <1>7 DEF Row!Next

LEMMA SweepsAreExact == ASSUME Periods, Row!TypeOK, Row!Next PROVE Row!SweepExact
<1> SUFFICES ASSUME NEW o \in Objects
             PROVE  /\ sweep' = "cleanup" /\ state[o] = "live" =>
                         IF state'[o] = "trash" THEN Row!NearlyDue(o) ELSE ~Row!LongDue(o)
                    /\ sweep' = "purge" /\ state[o] = "trash" =>
                         IF state'[o] = "gone"
                           THEN Row!Near(deleted[o] + Row!Seconds(TrashPeriod))
                           ELSE ~Row!Past(deleted[o] + Row!Seconds(TrashPeriod))
  BY DEF Row!SweepExact
<1>1. ASSUME sweep' = "cleanup", state[o] = "live"
      PROVE  IF state'[o] = "trash" THEN Row!NearlyDue(o) ELSE ~Row!LongDue(o)
  <2>1. state'[o] = "trash" <=> Row!Overdue(o)
    BY <1>1, SweepSteps DEF Row!CleanupExpired, Row!Due
  <2> QED
    BY <2>1, OverdueTells
<1>2. ASSUME sweep' = "purge", state[o] = "trash"
      PROVE  IF state'[o] = "gone" THEN Row!Near(deleted[o] + Row!Seconds(TrashPeriod))
                                   ELSE ~Row!Past(deleted[o] + Row!Seconds(TrashPeriod))
  <2>1. state'[o] = "gone" <=> Row!Doomed(o)
    BY <1>2, SweepSteps DEF Row!PurgeExpiredTrash
  <2> QED
    BY <1>2, <2>1, DoomedTells
<1> QED
  BY <1>1, <1>2

\* The sweeps of either engine move and remove what is due, but for less than a
\* second, although one of them compares times as text.
THEOREM SweepsAreOnTime == ASSUME Periods PROVE Row!Spec => Row!SweepsExact
<1>1. Row!TypeOK /\ [Row!Next]_Row!vars => [Row!SweepExact]_Row!vars
  BY SweepsAreExact
<1> QED
  BY <1>1, RowTypeCorrect, PTL DEF Row!Spec, Row!SweepsExact

-----------------------------------------------------------------------------
(* Peers: any nodes and clocks.                                              *)

\* Some clock is ahead the most, as it is when there are finitely many nodes.
Clocks ==
  /\ ReplayWindow \in Nat /\ Life \in Nat /\ EvictPeriod \in Nat
  /\ Ahead \in [Nodes -> Int]
  /\ \E m \in {0} \union {Ahead[n] : n \in Nodes} :
       \A k \in {0} \union {Ahead[n] : n \in Nodes} : k <= m

\* Late is the greatest age at which an announcement can be valid.
LEMMA LateBounds ==
  ASSUME Clocks
  PROVE  /\ Peer!Late \in Nat /\ Peer!Forgotten \in Nat /\ Peer!Forgotten > Peer!Late
         /\ \A n \in Nodes : ReplayWindow + Ahead[n] <= Peer!Late
<1> DEFINE S == {0} \union {Ahead[n] : n \in Nodes}
<1>1. \A k \in S : k \in Int
  BY DEF Clocks
<1>2. Peer!Greatest(S) \in S /\ \A k \in S : k <= Peer!Greatest(S)
  BY DEF Clocks, Peer!Greatest
<1>3. /\ Peer!Greatest(S) \in Int /\ 0 <= Peer!Greatest(S)
      /\ \A n \in Nodes : Ahead[n] \in Int /\ Ahead[n] <= Peer!Greatest(S)
  BY <1>1, <1>2
<1>4. Peer!Late = ReplayWindow + Peer!Greatest(S)
  BY DEF Peer!Late
<1> HIDE DEF S
<1> QED
  BY <1>3, <1>4 DEF Clocks, Peer!Forgotten

\* Nothing that is heard of a node was sent after it left, no entry is older
\* than it can get before the ticker looks, and an entry of a node that has left
\* was made while an announcement of it could still be valid.
Aging ==
  /\ \A n \in Nodes : peers[n] # Peer!None => peers[n] + evictIn <= Life + EvictPeriod
  /\ \A n \in Nodes \ up : peers[n] # Peer!None => absent[n] <= Peer!Late + peers[n]
  /\ \A a \in net : a.node \notin up => a.age > Peer!Late \/ absent[a.node] <= a.age

PeerInv == Peer!TypeOK /\ Aging

LEMMA InitPeerInv == ASSUME Clocks, Peer!Init PROVE PeerInv
<1>1. Peer!Forgotten \in 0..Peer!Forgotten /\ EvictPeriod \in 0..EvictPeriod
  BY LateBounds DEF Clocks
<1> HIDE DEF Peer!Forgotten
<1> QED
  BY <1>1 DEF Peer!Init, PeerInv, Peer!TypeOK, Aging

\* An announcement is as old as before, or a second older.
LEMMA OlderOf ==
  ASSUME Clocks, NEW a \in [node : Nodes, age : 0..(Peer!Late + 1)]
  PROVE  /\ Peer!Older(a) \in [node : Nodes, age : 0..(Peer!Late + 1)]
         /\ Peer!Older(a).node = a.node
         /\ Peer!Older(a).age = IF a.age > Peer!Late THEN a.age ELSE a.age + 1
<1>1. /\ Peer!Older(a).node = a.node
      /\ Peer!Older(a).age = IF a.age > Peer!Late THEN a.age ELSE a.age + 1
  BY DEF Peer!Older
<1>2. (IF a.age > Peer!Late THEN a.age ELSE a.age + 1) \in 0..(Peer!Late + 1)
  BY LateBounds
<1>3. Peer!Older(a) = [node |-> Peer!Older(a).node, age |-> Peer!Older(a).age]
  BY DEF Peer!Older
<1> QED
  BY <1>1, <1>2, <1>3

LEMMA NextPeerInv == ASSUME Clocks, PeerInv, [Peer!Next]_Peer!vars PROVE PeerInv'
<1> USE DEF PeerInv
<1>n. Peer!None \notin Nat
  BY DEF Peer!None
<1>a. /\ Peer!Late \in Nat /\ Peer!Forgotten \in Nat /\ Peer!Forgotten > Peer!Late
      /\ Peer!None \notin Nat
      /\ ReplayWindow \in Nat /\ Life \in Nat /\ EvictPeriod \in Nat
  BY <1>n, LateBounds DEF Clocks
<1> HIDE DEF Peer!Late, Peer!Forgotten, Peer!None
<1>1. ASSUME NEW n \in Nodes, Peer!Arrive(n) PROVE PeerInv'
  BY <1>1, <1>a DEF Peer!Arrive, Peer!TypeOK, Aging
<1>2. ASSUME NEW n \in Nodes, Peer!Depart(n) PROVE PeerInv'
  <2>1. Peer!TypeOK'
    BY <1>2, <1>a DEF Peer!Depart, Peer!TypeOK
  <2>2. \A m \in Nodes : absent'[m] = IF m = n THEN 0 ELSE absent[m]
    BY <1>2 DEF Peer!Depart, Peer!TypeOK
  <2>3. \A m \in Nodes : peers[m] # Peer!None => peers[m] \in Nat
    BY DEF Peer!TypeOK
  <2>4. \A a \in net : a.node \in Nodes /\ a.age \in Nat
    BY <1>a DEF Peer!TypeOK
  <2> QED
    BY <1>2, <1>a, <2>1, <2>2, <2>3, <2>4 DEF Peer!Depart, Aging
<1>3. ASSUME NEW n \in Nodes, Peer!Announce(n) PROVE PeerInv'
  <2>1. [node |-> n, age |-> 0] \in [node : Nodes, age : 0..(Peer!Late + 1)]
    BY <1>a
  <2> QED
    BY <1>3, <1>a, <2>1 DEF Peer!Announce, Peer!TypeOK, Aging
<1>4. ASSUME NEW a \in net, Peer!Receive(a) PROVE PeerInv'
  <2>1. a.node \in Nodes /\ a.age \in Nat /\ absent[a.node] \in Nat /\ evictIn <= EvictPeriod
    BY <1>a DEF Peer!TypeOK
  <2>2. a.age <= Peer!Late
    BY <1>4, <1>a, <2>1, LateBounds DEF Peer!Receive, Peer!Valid, Clocks
  <2>3. \A m \in Nodes : peers'[m] = IF m = a.node THEN 0 ELSE peers[m]
    BY <1>4 DEF Peer!Receive, Peer!TypeOK
  <2>4. Peer!TypeOK'
    BY <1>4, <1>a, <2>1 DEF Peer!Receive, Peer!TypeOK
  <2> QED
    BY <1>4, <1>a, <2>1, <2>2, <2>3, <2>4 DEF Peer!Receive, Peer!TypeOK, Aging
<1>5. CASE Peer!Evict
  <2>1. \A m \in Nodes : peers'[m] = IF peers[m] > Life THEN Peer!None ELSE peers[m]
    BY <1>5 DEF Peer!Evict
  <2>2. Peer!TypeOK' /\ evictIn' = EvictPeriod /\ UNCHANGED <<up, absent, net>>
    BY <1>5, <1>a DEF Peer!Evict, Peer!TypeOK
  <2>3. \A m \in Nodes : peers'[m] # Peer!None => peers'[m] = peers[m] /\ peers[m] \in Nat /\
        peers[m] <= Life
    BY <1>a, <2>1 DEF Peer!TypeOK
  <2> QED
    BY <1>a, <2>2, <2>3 DEF Aging
<1>6. CASE Peer!Tick
  <2>1. \A m \in Nodes :
          /\ peers'[m] = IF peers[m] = Peer!None THEN Peer!None ELSE peers[m] + 1
          /\ absent'[m] = IF m \in up \/ absent[m] = Peer!Forgotten THEN absent[m]
             ELSE absent[m] + 1
          /\ peers[m] # Peer!None => peers[m] \in Nat
          /\ absent[m] \in 0..Peer!Forgotten
    BY <1>6 DEF Peer!Tick, Peer!TypeOK
  <2>2. /\ net' = {Peer!Older(a) : a \in net} /\ evictIn \in Nat /\ evictIn > 0
        /\ evictIn' = evictIn - 1 /\ up' = up
    BY <1>6, <1>a DEF Peer!Tick, Peer!TypeOK
  <2>3. \A m \in Nodes : peers[m] # Peer!None => peers[m] + 1 \in 0..(Life + EvictPeriod)
    BY <1>a, <2>1, <2>2 DEF Aging
  <2>4. Peer!TypeOK'
    <3>1. net' \subseteq [node : Nodes, age : 0..(Peer!Late + 1)]
      BY <2>2, OlderOf DEF Peer!TypeOK
    <3>2. peers' \in [Nodes -> {Peer!None} \union (0..(Life + EvictPeriod))]
      BY <1>6, <2>1, <2>3 DEF Peer!Tick
    <3>3. absent' \in [Nodes -> 0..Peer!Forgotten]
      BY <1>6, <1>a, <2>1 DEF Peer!Tick
    <3>4. evictIn' \in 0..EvictPeriod
      BY <1>a, <2>2 DEF Peer!TypeOK
    <3> QED
      BY <2>2, <3>1, <3>2, <3>3, <3>4 DEF Peer!TypeOK
  <2>5. ASSUME NEW b \in net', b.node \notin up'
        PROVE  b.age > Peer!Late \/ absent'[b.node] <= b.age
    <3>1. PICK a \in net : b = Peer!Older(a)
      BY <2>2, <2>5
    <3>2. a \in [node : Nodes, age : 0..(Peer!Late + 1)]
      BY DEF Peer!TypeOK
    <3>3. /\ b.node = a.node /\ a.node \in Nodes /\ a.age \in Nat
          /\ b.age = IF a.age > Peer!Late THEN a.age ELSE a.age + 1
      BY <1>a, <3>1, <3>2, OlderOf
    <3>4. a.age > Peer!Late \/ absent[a.node] <= a.age
      BY <2>2, <2>5, <3>3 DEF Aging
    <3> QED
      BY <1>a, <2>1, <3>3, <3>4
  <2>6. ASSUME NEW m \in Nodes, peers'[m] # Peer!None
        PROVE  /\ peers'[m] + evictIn' <= Life + EvictPeriod
               /\ m \notin up' => absent'[m] <= Peer!Late + peers'[m]
    <3>1. peers[m] # Peer!None /\ peers[m] \in Nat /\ peers'[m] = peers[m] + 1
      BY <2>1, <2>6
    <3>2. peers[m] + evictIn <= Life + EvictPeriod
      BY <3>1 DEF Aging
    <3>3. m \notin up => absent[m] <= Peer!Late + peers[m]
      BY <3>1 DEF Aging
    <3> QED
      BY <1>a, <2>1, <2>2, <3>1, <3>2, <3>3
  <2> QED
    BY <2>4, <2>5, <2>6 DEF Aging
<1>7. CASE UNCHANGED Peer!vars
  BY <1>7 DEF Peer!vars, Peer!TypeOK, Aging
<1> QED
  BY <1>1, <1>2, <1>3, <1>4, <1>5, <1>6, <1>7 DEF Peer!Next

\* In every reachable state an entry of a node that has left was made while one
\* of its announcements could still be valid (accept, evict).
THEOREM AgesKept == ASSUME Clocks PROVE Peer!Spec => []PeerInv
<1>1. Peer!Init => PeerInv
  BY InitPeerInv
<1>2. PeerInv /\ [Peer!Next]_Peer!vars => PeerInv'
  BY NextPeerInv
<1> QED
  BY <1>1, <1>2, PTL DEF Peer!Spec

\* A node that has left is not in the table for longer than an announcement may
\* be valid, an entry may live and the ticker may wait, however datagrams are
\* delayed, reordered and repeated.
THEOREM TheDepartedAreForgotten == ASSUME Clocks PROVE Peer!Spec => []Peer!DepartedForgotten
<1>1. PeerInv => Peer!DepartedForgotten
  <2> SUFFICES ASSUME PeerInv, NEW n \in Nodes \ up, peers[n] # Peer!None
      PROVE absent[n] < Peer!Forgotten
    BY DEF Peer!DepartedForgotten
  <2>1. peers[n] \in Nat /\ evictIn \in Nat /\ absent[n] \in Int
    BY LateBounds DEF PeerInv, Peer!TypeOK, Clocks
  <2>2. peers[n] + evictIn <= Life + EvictPeriod /\ absent[n] <= Peer!Late + peers[n]
    BY DEF PeerInv, Aging
  <2>3. Peer!Late \in Nat /\ Life \in Nat /\ EvictPeriod \in Nat /\
        Peer!Forgotten = Peer!Late + Life + EvictPeriod + 1
    BY LateBounds DEF Clocks, Peer!Forgotten
  <2> HIDE DEF Peer!Late, Peer!Forgotten
  <2> QED
    BY <2>1, <2>2, <2>3
<1> QED
  BY <1>1, AgesKept, PTL
=============================================================================
