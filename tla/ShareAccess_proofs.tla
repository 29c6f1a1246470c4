-------------------------- MODULE ShareAccess_proofs --------------------------
(***************************************************************************)
(* Proofs about ShareAccess, for every set of objects, shares, browsers,   *)
(* handlers, limits and faults.                                            *)
(*                                                                         *)
(* What the handlers do to the counter of requests, the sessions and the   *)
(* bodies sent comes in seven kinds of step; Kinds says that every action  *)
(* is of one of them, and the proofs about those variables go by kind.     *)
(***************************************************************************)
EXTENDS ShareAccess, FiniteSetTheorems, TLAPS

\* The owner and time: the handlers stay where they are, cookies may lapse.
Quiet == UNCHANGED <<busy, pc, req, bodies, uses>> /\ sessions' \subseteq sessions

\* A handler that creates a share.
Aside(w) ==
  /\ pc[w] \notin Serving /\ pc'[w] \notin Serving
  /\ \A v \in Workers \ {w} : pc'[v] = pc[v] /\ req'[v] = req[v]
  /\ UNCHANGED <<busy, sessions, bodies, uses>>

\* A request goes on; the fields of it that matter here stay.
Walks(w) ==
  /\ pc[w] \in Serving /\ pc'[w] \in Serving
  /\ pc'[w] \in {"read", "open"} => req[w].head \/ req[w].known \/ pc[w] \in {"read", "open"}
  /\ \A v \in Workers \ {w} : pc'[v] = pc[v]
  /\ UNCHANGED <<req, busy, sessions, bodies, uses>>

\* It leaves; a cookie it has paid for may come with the response.
Leaves(w) ==
  /\ pc[w] \in Serving /\ pc' = [pc EXCEPT ![w] = "idle"]
  /\ busy' = [busy EXCEPT ![Ticket(w)] = @ - 1]
  /\ sessions' \subseteq sessions \union (IF req[w].paid THEN {Ticket(w)} ELSE {})
  /\ \/ UNCHANGED bodies
     \/ pc[w] \in {"read", "open"} /\ Answer(w)
  /\ UNCHANGED <<req, uses>>

Kind ==
  \/ Quiet \/ Restart
  \/ \E w \in Workers : Aside(w) \/ Walks(w) \/ ConsumeShare(w) \/ Leaves(w)
  \/ \E w \in Workers, c \in Clients, s \in Shares, head, known \in BOOLEAN :
       EnterShare(w, c, s, head, known)

LEMMA Kinds == ASSUME TypeOK, [Next]_vars PROVE Kind
<1> USE DEF TypeOK, store, handlers, At, Goto, Steps, Serving
<1>1. ASSUME NEW w \in Workers, NEW s \in Shares, CreateCheck(w, s) PROVE Kind
  <2>1. Aside(w)
    BY <1>1 DEF CreateCheck, Aside
  <2> QED
    BY <2>1 DEF Kind
<1>2. ASSUME NEW w \in Workers, CreateShare(w) \/ CreateFails(w) PROVE Kind
  <2>1. Aside(w)
    BY <1>2 DEF CreateShare, CreateFails, Aside
  <2> QED
    BY <2>1 DEF Kind
<1>3. ASSUME UNCHANGED handlers, UNCHANGED uses PROVE Kind
  BY <1>3 DEF Kind, Quiet
<1>4. ASSUME NEW s \in Shares, RevokeShare(s) PROVE Kind
  BY <1>3, <1>4 DEF RevokeShare
<1>5. ASSUME NEW o \in Objects, Trash(o) \/ RestoreTrash(o) \/ PurgeTrash(o) \/ ObjectExpires(o)
      PROVE  Kind
  BY <1>3, <1>5 DEF Trash, RestoreTrash, PurgeTrash, ObjectExpires
<1>6. ASSUME NEW S \in SUBSET Objects, NEW old \in SUBSET Shares, PurgeMany(S, old) PROVE Kind
  BY <1>3, <1>6 DEF PurgeMany
<1>7. ASSUME NEW n \in Notes, OwnerReads(n) PROVE Kind
  BY <1>3, <1>7 DEF OwnerReads
<1>8. ASSUME NEW s \in Shares, ShareExpires(s) PROVE Kind
  BY <1>8 DEF ShareExpires, Kind, Quiet
<1>9. ASSUME NEW t \in Tickets, SessionExpires(t) PROVE Kind
  BY <1>9 DEF SessionExpires, Kind, Quiet
<1>10. ASSUME NEW w \in Workers, LookupShare(w) PROVE Kind
  <2>1. Walks(w) \/ Leaves(w)
    BY <1>10 DEF LookupShare, Walks, Leaves, Leave
  <2> QED
    BY <2>1 DEF Kind
<1>11. ASSUME NEW w \in Workers, LookupStatus(w) PROVE Kind
  <2>1. Walks(w) \/ Leaves(w)
    BY <1>11 DEF LookupStatus, Walks, Leaves, Leave
  <2> QED
    BY <2>1 DEF Kind
<1>12. ASSUME NEW w \in Workers, ValidateTarget(w) PROVE Kind
  <2>1. Walks(w) \/ Leaves(w)
    BY <1>12 DEF ValidateTarget, Walks, Leaves, Leave
  <2> QED
    BY <2>1 DEF Kind
<1>13. ASSUME NEW w \in Workers, ConsumeRefused(w) \/ ReadFails(w) \/ OpenFile(w) PROVE Kind
  <2>1. Leaves(w)
    BY <1>13 DEF ConsumeRefused, ReadFails, OpenFile, Leaves, Leave
  <2> QED
    BY <2>1 DEF Kind
<1>14. ASSUME NEW w \in Workers, ReadTarget(w) PROVE Kind
  <2>1. Walks(w) \/ Leaves(w)
    BY <1>14 DEF ReadTarget, Walks, Leaves, Leave
  <2> QED
    BY <2>1 DEF Kind
<1>15. CASE UNCHANGED vars
  BY <1>3, <1>15 DEF vars
<1> HIDE DEF TypeOK, At, Goto
<1> QED
  BY <1>1, <1>2, <1>4, <1>5, <1>6, <1>7, <1>8, <1>9, <1>10, <1>11, <1>12, <1>13, <1>14, <1>15
     DEF Next, Owner, Visitor, ServeStep, Environment, Kind

-----------------------------------------------------------------------------
(* The counter of requests in progress.                                    *)

InProgress(t) == {w \in Workers : pc[w] \in Serving /\ Ticket(w) = t}

LEMMA InProgressFinite ==
  ASSUME NEW t
  PROVE  IsFiniteSet(InProgress(t)) /\ Cardinality(InProgress(t)) \in Nat
<1>1. InProgress(t) \in SUBSET Workers
  BY DEF InProgress
<1> QED
  BY <1>1, PopulationAssumption, FS_Subset, FS_CardinalityType

LEMMA InitBusy == Init => BusyExact
<1> SUFFICES ASSUME Init, NEW t \in Tickets
             PROVE  busy[t] = Cardinality(InProgress(t)) /\ busy[t] <= MaxParallel
  BY DEF BusyExact, InProgress
<1>1. InProgress(t) = {}
  BY DEF Init, InProgress, Serving
<1> QED
  BY <1>1, FS_EmptySet, ShareAssumption DEF Init

LEMMA NextBusy == ASSUME TypeOK, BusyExact, [Next]_vars PROVE BusyExact'
<1> SUFFICES ASSUME NEW t \in Tickets
             PROVE  busy'[t] = Cardinality(InProgress(t)') /\ busy'[t] <= MaxParallel
  BY DEF BusyExact, InProgress
<1>0. busy[t] = Cardinality(InProgress(t)) /\ busy[t] <= MaxParallel
  BY DEF BusyExact, InProgress
<1>a. IsFiniteSet(InProgress(t)) /\ Cardinality(InProgress(t)) \in Nat
  BY InProgressFinite
<1>b. ASSUME busy'[t] = busy[t], InProgress(t)' = InProgress(t)
      PROVE  busy'[t] = Cardinality(InProgress(t)') /\ busy'[t] <= MaxParallel
  BY <1>0, <1>b
<1>1. CASE Quiet
  <2>1. InProgress(t)' = InProgress(t)
    BY <1>1 DEF Quiet, InProgress, Ticket
  <2> QED
    BY <1>1, <1>b, <2>1 DEF Quiet
<1>2. CASE Restart
  <2>1. InProgress(t)' = {}
    BY <1>2 DEF Restart, InProgress, Serving
  <2> QED
    BY <1>2, <2>1, FS_EmptySet, ShareAssumption DEF Restart
<1>3. ASSUME NEW w \in Workers, Aside(w)
      PROVE  busy'[t] = Cardinality(InProgress(t)') /\ busy'[t] <= MaxParallel
  <2>1. InProgress(t)' = InProgress(t)
    BY <1>3 DEF Aside, InProgress, Ticket
  <2> QED
    BY <1>3, <1>b, <2>1 DEF Aside
<1>4. ASSUME NEW w \in Workers, Walks(w)
      PROVE  busy'[t] = Cardinality(InProgress(t)') /\ busy'[t] <= MaxParallel
  <2>1. InProgress(t)' = InProgress(t)
    BY <1>4 DEF Walks, InProgress, Ticket
  <2> QED
    BY <1>4, <1>b, <2>1 DEF Walks
<1>5. ASSUME NEW w \in Workers, ConsumeShare(w)
      PROVE  busy'[t] = Cardinality(InProgress(t)') /\ busy'[t] <= MaxParallel
  <2>1. InProgress(t)' = InProgress(t)
    BY <1>5 DEF TypeOK, ConsumeShare, At, Goto, InProgress, Ticket, Request, Serving, Steps
  <2> QED
    BY <1>5, <1>b, <2>1 DEF ConsumeShare
<1>6. ASSUME NEW w \in Workers, Leaves(w)
      PROVE  busy'[t] = Cardinality(InProgress(t)') /\ busy'[t] <= MaxParallel
  <2>1. CASE Ticket(w) = t
    <3>1. InProgress(t)' = InProgress(t) \ {w} /\ w \in InProgress(t)
      BY <1>6, <2>1 DEF TypeOK, Leaves, InProgress, Ticket, Serving
    <3>2. Cardinality(InProgress(t)') = Cardinality(InProgress(t)) - 1
      BY <1>a, <3>1, FS_RemoveElement
    <3>3. busy'[t] = busy[t] - 1
      BY <1>6, <2>1 DEF TypeOK, Leaves
    <3> QED
      BY <1>0, <1>a, <3>2, <3>3, ShareAssumption
  <2>2. CASE Ticket(w) # t
    <3>1. InProgress(t)' = InProgress(t)
      BY <1>6, <2>2 DEF TypeOK, Leaves, InProgress, Ticket, Serving
    <3>2. busy'[t] = busy[t]
      BY <1>6, <2>2 DEF TypeOK, Leaves
    <3> QED
      BY <1>b, <3>1, <3>2
  <2> QED
    BY <2>1, <2>2
<1>7. ASSUME NEW w \in Workers, NEW c \in Clients, NEW s \in Shares,
             NEW head \in BOOLEAN, NEW known \in BOOLEAN, EnterShare(w, c, s, head, known)
      PROVE  busy'[t] = Cardinality(InProgress(t)') /\ busy'[t] <= MaxParallel
  <2>0. /\ w \notin InProgress(t)
        /\ pc'[w] \in Serving /\ Ticket(w)' = <<c, s>>
        /\ \A v \in Workers \ {w} : pc'[v] = pc[v] /\ Ticket(v)' = Ticket(v)
    BY <1>7 DEF TypeOK, EnterShare, At, Goto, InProgress, Ticket, Serving, Steps
  <2>1. CASE <<c, s>> = t
    <3>1. InProgress(t)' = InProgress(t) \union {w}
      BY <2>0, <2>1 DEF InProgress
    <3>2. Cardinality(InProgress(t)') = Cardinality(InProgress(t)) + 1
      BY <1>a, <2>0, <3>1, FS_AddElement
    <3>3. busy'[t] = busy[t] + 1 /\ busy[t] < MaxParallel
      BY <1>7, <2>1 DEF TypeOK, EnterShare
    <3> QED
      BY <1>0, <1>a, <3>2, <3>3, ShareAssumption
  <2>2. CASE <<c, s>> # t
    <3>1. InProgress(t)' = InProgress(t)
      BY <2>0, <2>2 DEF InProgress
    <3>2. busy'[t] = busy[t]
      BY <1>7, <2>2 DEF TypeOK, EnterShare
    <3> QED
      BY <1>b, <3>1, <3>2
  <2> QED
    BY <2>1, <2>2
<1> QED
  BY <1>1, <1>2, <1>3, <1>4, <1>5, <1>6, <1>7, Kinds DEF Kind

LEMMA BusyPositive ==
  ASSUME TypeOK, BusyExact, NEW w \in Workers, pc[w] \in Serving
  PROVE  Ticket(w) \in Tickets /\ busy[Ticket(w)] - 1 \in Nat
<1>1. Ticket(w) \in Tickets
  BY DEF TypeOK, Ticket, Tickets, Request
<1>2. busy[Ticket(w)] = Cardinality(InProgress(Ticket(w)))
  BY <1>1 DEF BusyExact, InProgress
<1>3. w \in InProgress(Ticket(w))
  BY DEF InProgress
<1>4. Cardinality(InProgress(Ticket(w))) # 0
  BY <1>3, InProgressFinite, FS_EmptySet
<1> QED
  BY <1>1, <1>2, <1>4, InProgressFinite

-----------------------------------------------------------------------------
(* Types.                                                                  *)

LEMMA InitTypeOK == Init => TypeOK
<1> SUFFICES ASSUME Init PROVE TypeOK
  OBVIOUS
<1>1. \E r : r \in Request
  <2>1. PICK c \in Clients, s \in Shares : TRUE
    BY PopulationAssumption
  <2>2. [client |-> c, share |-> s, head |-> FALSE, known |-> FALSE, paid |-> FALSE,
         dead |-> FALSE] \in Request
    BY <2>1 DEF Request
  <2> QED
    BY <2>2
<1>2. (CHOOSE r \in Request : TRUE) \in Request
  BY <1>1
<1>3. req \in [Workers -> Request]
  BY <1>2 DEF Init
<1> HIDE DEF Request
<1> QED
  BY <1>3 DEF Init, TypeOK, Steps

\* The variables that a response changes.
TypesServed ==
  /\ busy \in [Tickets -> Nat]
  /\ sessions \subseteq Tickets
  /\ pc \in [Workers -> Steps]
  /\ bodies \subseteq Body

LEMMA LeaveTypes ==
  ASSUME TypeOK, BusyExact, NEW w \in Workers, pc[w] \in Serving, NEW paid,
         Leave(w, paid), UNCHANGED bodies \/ Answer(w)
  PROVE  TypesServed'
<1>1. busy' \in [Tickets -> Nat] /\ sessions' \subseteq Tickets
  BY BusyPositive DEF TypeOK, Leave
<1>2. pc' \in [Workers -> Steps]
  BY DEF TypeOK, Leave, Goto, Steps
<1>3. bodies' \subseteq Body
  BY DEF TypeOK, Answer, Body, Request, Share
<1> QED
  BY <1>1, <1>2, <1>3 DEF TypesServed

LEMMA CountReadTypes ==
  ASSUME TypeOK, NEW n \in Notes, CountRead(n)
  PROVE  /\ reads' \in [Notes -> Nat]
         /\ object' \in [Objects -> {"live", "trash", "gone"}]
         /\ revoked' \subseteq Shares
<1>1. reads' \in [Notes -> Nat]
  BY DEF TypeOK, CountRead
<1>2. object' \in [Objects -> {"live", "trash", "gone"}]
  BY DEF TypeOK, CountRead
<1>3. revoked' \subseteq Shares
  <2>1. SharesOf({n}) \subseteq Shares
    BY DEF SharesOf
  <2> QED
    BY <2>1 DEF TypeOK, CountRead
<1> QED
  BY <1>1, <1>2, <1>3

LEMMA NextTypeOK == ASSUME TypeOK, BusyExact, [Next]_vars PROVE TypeOK'
<1> USE DEF store, handlers
<1>a. ASSUME UNCHANGED <<outdated, link, expired, uses, req, store>>, TypesServed' PROVE TypeOK'
  BY <1>a DEF TypeOK, TypesServed
<1>1. ASSUME NEW w \in Workers, NEW s \in Shares, CreateCheck(w, s) PROVE TypeOK'
  BY <1>1 DEF TypeOK, CreateCheck, Goto, Request, Steps
<1>2. ASSUME NEW w \in Workers, CreateShare(w) PROVE TypeOK'
  <2>1. Share(w) \in Shares
    BY DEF TypeOK, Request, Share
  <2> QED
    BY <1>2, <2>1 DEF TypeOK, CreateShare, Goto, Steps
<1>3. ASSUME NEW w \in Workers, CreateFails(w) PROVE TypeOK'
  BY <1>3 DEF TypeOK, CreateFails, Goto, Steps
<1>4. ASSUME NEW s \in Shares, RevokeShare(s) PROVE TypeOK'
  BY <1>4 DEF TypeOK, RevokeShare
<1>5. ASSUME NEW o \in Objects, Trash(o) PROVE TypeOK'
  BY <1>5 DEF TypeOK, Trash
<1>6. ASSUME NEW o \in Objects, RestoreTrash(o) PROVE TypeOK'
  BY <1>6 DEF TypeOK, RestoreTrash
<1>7. ASSUME NEW o \in Objects, PurgeTrash(o) PROVE TypeOK'
  BY <1>7 DEF TypeOK, PurgeTrash, SharesOf
<1>8. ASSUME NEW S \in SUBSET Objects, NEW old \in SUBSET Shares, PurgeMany(S, old)
      PROVE  TypeOK'
  BY <1>8 DEF TypeOK, PurgeMany
<1>9. ASSUME NEW n \in Notes, OwnerReads(n) PROVE TypeOK'
  BY <1>9, CountReadTypes DEF TypeOK, OwnerReads
<1>10. ASSUME NEW w \in Workers, NEW c \in Clients, NEW s \in Shares,
              NEW head \in BOOLEAN, NEW known \in BOOLEAN, EnterShare(w, c, s, head, known)
       PROVE  TypeOK'
  <2>1. [client |-> c, share |-> s, head |-> head, known |-> known, paid |-> FALSE,
         dead |-> Hopeless(s)] \in Request
    BY DEF Request, Hopeless, Dead
  <2>2. req' \in [Workers -> Request]
    BY <1>10, <2>1 DEF TypeOK, EnterShare
  <2> HIDE DEF Request
  <2> QED
    BY <1>10, <2>2 DEF TypeOK, EnterShare, Goto, Steps, Tickets
<1>11. ASSUME NEW w \in Workers, LookupShare(w) PROVE TypeOK'
  <2>0. pc[w] \in Serving
    BY <1>11 DEF LookupShare, At, Serving, Steps
  <2>1. CASE Leave(w, FALSE)
    BY <1>a, <1>11, <2>0, <2>1, LeaveTypes DEF LookupShare
  <2>2. CASE ~Leave(w, FALSE)
    BY <1>11, <2>2 DEF TypeOK, LookupShare, Goto, Steps
  <2> QED
    BY <2>1, <2>2
<1>12. ASSUME NEW w \in Workers, LookupStatus(w) PROVE TypeOK'
  <2>0. pc[w] \in Serving
    BY <1>12 DEF LookupStatus, At, Serving, Steps
  <2>1. CASE Leave(w, FALSE)
    BY <1>a, <1>12, <2>0, <2>1, LeaveTypes DEF LookupStatus
  <2>2. CASE ~Leave(w, FALSE)
    BY <1>12, <2>2 DEF TypeOK, LookupStatus, Goto, Steps
  <2> QED
    BY <2>1, <2>2
<1>13. ASSUME NEW w \in Workers, ValidateTarget(w) PROVE TypeOK'
  <2>0. pc[w] \in Serving
    BY <1>13 DEF ValidateTarget, At, Serving, Steps
  <2>1. CASE Leave(w, FALSE)
    BY <1>a, <1>13, <2>0, <2>1, LeaveTypes DEF ValidateTarget
  <2>2. CASE ~Leave(w, FALSE)
    BY <1>13, <2>2 DEF TypeOK, ValidateTarget, Goto, Steps
  <2> QED
    BY <2>1, <2>2
<1>14. ASSUME NEW w \in Workers, ConsumeShare(w) PROVE TypeOK'
  <2>1. Share(w) \in Shares /\ req' \in [Workers -> Request]
    BY <1>14 DEF TypeOK, ConsumeShare, Request, Share
  <2> HIDE DEF Request
  <2> QED
    BY <1>14, <2>1 DEF TypeOK, ConsumeShare, Goto, Steps
<1>15. ASSUME NEW w \in Workers, ConsumeRefused(w) \/ ReadFails(w) \/ OpenFile(w) PROVE TypeOK'
  <2>1. /\ pc[w] \in Serving
        /\ \E paid : Leave(w, paid)
        /\ UNCHANGED bodies \/ Answer(w)
        /\ UNCHANGED <<outdated, link, expired, uses, req, store>>
    BY <1>15 DEF ConsumeRefused, ReadFails, OpenFile, At, Serving, Steps
  <2> QED
    BY <1>a, <2>1, LeaveTypes
<1>16. ASSUME NEW w \in Workers, ReadTarget(w) PROVE TypeOK'
  <2>0. pc[w] \in Serving
    BY <1>16 DEF ReadTarget, At, Serving, Steps
  <2>1. /\ reads' \in [Notes -> Nat]
        /\ object' \in [Objects -> {"live", "trash", "gone"}]
        /\ revoked' \subseteq Shares
    <3>1. CASE Target[Share(w)] \in Notes /\ req[w].paid
      BY <1>16, <3>1, CountReadTypes DEF ReadTarget
    <3>2. CASE ~(Target[Share(w)] \in Notes /\ req[w].paid)
      BY <1>16, <3>2 DEF TypeOK, ReadTarget
    <3> QED
      BY <3>1, <3>2
  <2>2. TypesServed'
    <3>1. CASE Target[Share(w)] \in Files
      BY <1>16, <3>1 DEF TypeOK, ReadTarget, Goto, Steps, TypesServed
    <3>2. CASE Target[Share(w)] \notin Files
      BY <1>16, <2>0, <3>2, LeaveTypes DEF ReadTarget
    <3> QED
      BY <3>1, <3>2
  <2>3. UNCHANGED <<outdated, late, link, expired, uses, req>>
    BY <1>16 DEF ReadTarget
  <2> QED
    BY <2>1, <2>2, <2>3 DEF TypeOK, TypesServed
<1>17. ASSUME NEW s \in Shares, ShareExpires(s) PROVE TypeOK'
  BY <1>17 DEF TypeOK, ShareExpires
<1>18. ASSUME NEW o \in Objects, ObjectExpires(o) PROVE TypeOK'
  BY <1>18 DEF TypeOK, ObjectExpires
<1>19. ASSUME NEW t \in Tickets, SessionExpires(t) PROVE TypeOK'
  BY <1>19 DEF TypeOK, SessionExpires
<1>20. CASE Restart
  BY <1>20 DEF TypeOK, Restart, Steps
<1>21. CASE UNCHANGED vars
  BY <1>21 DEF TypeOK, vars
<1> QED
  BY <1>1, <1>2, <1>3, <1>4, <1>5, <1>6, <1>7, <1>8, <1>9, <1>10, <1>11, <1>12, <1>13, <1>14,
     <1>15, <1>16, <1>17, <1>18, <1>19, <1>20, <1>21
     DEF Next, Owner, Visitor, ServeStep, Environment

LEMMA TypesAndBusy == Spec => [](TypeOK /\ BusyExact)
<1>1. TypeOK /\ BusyExact /\ [Next]_vars => TypeOK' /\ BusyExact'
  BY NextTypeOK, NextBusy
<1> QED
  BY <1>1, InitTypeOK, InitBusy, PTL DEF Spec

\* Every reachable state is well typed.
THEOREM TypeCorrect == Spec => []TypeOK
  BY TypesAndBusy, PTL

\* The counter of each client and share is the number of its requests.
THEOREM BusyIsExact == Spec => []BusyExact
  BY TypesAndBusy, PTL

-----------------------------------------------------------------------------
(* A share that is dead stays dead, and a request that came for it is let  *)
(* go before it can be served.                                             *)

TurnedFor(w) ==
  /\ pc[w] = "insert" => link[Share(w)] = "none"
  /\ pc[w] \in Serving => link[Share(w)] # "none"
  /\ pc[w] = "lookup" /\ req[w].dead => Hopeless(Share(w))
  /\ pc[w] \in {"status", "validate"} /\ req[w].dead => object[Target[Share(w)]] = "gone"
  /\ pc[w] \in {"consume", "read", "open"} => ~req[w].dead

OneCreator ==
  \A v, w \in Workers : v # w /\ pc[v] = "insert" /\ pc[w] = "insert" => Share(v) # Share(w)

Turned == (\A w \in Workers : TurnedFor(w)) /\ OneCreator /\ DeadNeverServed

\* What is gone, revoked, expired or deleted stays so; a link comes into being
\* only by the handler that has it in hand.
LEMMA Lasting ==
  ASSUME TypeOK, [Next]_vars
  PROVE  /\ \A o \in Objects : object[o] = "gone" => object'[o] = "gone"
         /\ revoked \subseteq revoked' /\ expired \subseteq expired'
         /\ late \subseteq late'
         /\ \A s \in Shares :
              \/ link'[s] = link[s]
              \/ link[s] = "there" /\ link'[s] = "deleted"
              \/ \E w \in Workers : CreateShare(w) /\ Share(w) = s
<1> USE DEF store, handlers, vars
<1>1. \A o \in Objects : object[o] = "gone" => object'[o] = "gone"
  <2> SUFFICES ASSUME NEW o \in Objects, object[o] = "gone", object' # object
               PROVE  object'[o] = "gone"
    OBVIOUS
  <2>1. ASSUME NEW n \in Notes, CountRead(n) PROVE object'[o] = "gone"
    BY <2>1 DEF TypeOK, CountRead
  <2>2. ASSUME NEW p \in Objects, Trash(p) \/ RestoreTrash(p) \/ PurgeTrash(p)
        PROVE  object'[o] = "gone"
    BY <2>2 DEF TypeOK, Trash, RestoreTrash, PurgeTrash
  <2>3. ASSUME NEW S, NEW old, PurgeMany(S, old) PROVE object'[o] = "gone"
    BY <2>3 DEF PurgeMany
  <2>4. ASSUME NEW w \in Workers, ReadTarget(w) PROVE object'[o] = "gone"
    BY <2>1, <2>4 DEF ReadTarget
  <2>5. ASSUME NEW n \in Notes, OwnerReads(n) PROVE object'[o] = "gone"
    BY <2>1, <2>5 DEF OwnerReads
  <2> QED
    BY <2>2, <2>3, <2>4, <2>5
       DEF Next, Owner, Visitor, ServeStep, Environment, CreateCheck, CreateShare, CreateFails,
           RevokeShare, EnterShare, LookupShare, LookupStatus, ValidateTarget, ConsumeShare,
           ConsumeRefused, ReadFails, OpenFile, ShareExpires, ObjectExpires, SessionExpires,
           Restart
<1>2. revoked \subseteq revoked' /\ expired \subseteq expired'
  <2>1. ASSUME NEW S, NEW old, PurgeMany(S, old) PROVE revoked \subseteq revoked'
    BY <2>1 DEF PurgeMany
  <2>2. ASSUME NEW n, CountRead(n) PROVE revoked \subseteq revoked'
    BY <2>2 DEF CountRead
  <2>3. ASSUME NEW w, ReadTarget(w) PROVE revoked \subseteq revoked'
    BY <2>2, <2>3 DEF ReadTarget
  <2>4. revoked \subseteq revoked'
    BY <2>1, <2>2, <2>3
       DEF Next, Owner, Visitor, ServeStep, Environment, CreateCheck, CreateShare, CreateFails,
           RevokeShare, Trash, RestoreTrash, PurgeTrash, OwnerReads, EnterShare, LookupShare,
           LookupStatus, ValidateTarget, ConsumeShare, ConsumeRefused, ReadFails, OpenFile,
           ShareExpires, ObjectExpires, SessionExpires, Restart
  <2>5. expired \subseteq expired'
    BY DEF Next, Owner, Visitor, ServeStep, Environment, CreateCheck, CreateShare, CreateFails,
           RevokeShare, Trash, RestoreTrash, PurgeTrash, PurgeMany, OwnerReads, EnterShare,
           LookupShare, LookupStatus, ValidateTarget, ConsumeShare, ConsumeRefused, ReadTarget,
           ReadFails, OpenFile, ShareExpires, ObjectExpires, SessionExpires, Restart
  <2> QED
    BY <2>4, <2>5
<1>3. ASSUME NEW s \in Shares
      PROVE  \/ link'[s] = link[s]
             \/ link[s] = "there" /\ link'[s] = "deleted"
             \/ \E w \in Workers : CreateShare(w) /\ Share(w) = s
  <2>1. ASSUME NEW S, NEW old, PurgeMany(S, old)
        PROVE  link'[s] = link[s] \/ (link[s] = "there" /\ link'[s] = "deleted")
    <3>1. /\ link' = [z \in Shares |-> IF z \in old THEN "deleted" ELSE link[z]]
          /\ \A z \in old : link[z] = "there"
      BY <2>1 DEF PurgeMany
    <3> QED
      BY <1>3, <3>1
  <2>2. ASSUME NEW w \in Workers, CreateShare(w), Share(w) # s PROVE link'[s] = link[s]
    BY <2>2 DEF TypeOK, CreateShare
  <2> QED
    BY <2>1, <2>2
       DEF Next, Owner, Visitor, ServeStep, Environment, CreateCheck, CreateFails,
           RevokeShare, Trash, RestoreTrash, PurgeTrash, OwnerReads, EnterShare,
           LookupShare, LookupStatus, ValidateTarget, ConsumeShare, ConsumeRefused, ReadTarget,
           ReadFails, OpenFile, ShareExpires, ObjectExpires, SessionExpires, Restart
<1>4. late \subseteq late'
  BY DEF Next, Owner, Visitor, ServeStep, Environment, CreateCheck, CreateShare, CreateFails,
         RevokeShare, Trash, RestoreTrash, PurgeTrash, PurgeMany, OwnerReads, EnterShare,
         LookupShare, LookupStatus, ValidateTarget, ConsumeShare, ConsumeRefused, ReadTarget,
         ReadFails, OpenFile, ShareExpires, ObjectExpires, SessionExpires, Restart
<1> QED
  BY <1>1, <1>2, <1>3, <1>4

LEMMA OthersTurned ==
  ASSUME TypeOK, Turned, [Next]_vars, NEW v \in Workers, pc'[v] = pc[v], req'[v] = req[v]
  PROVE  TurnedFor(v)'
<1>1. Share(v) \in Shares /\ Share(v)' = Share(v) /\ Target[Share(v)] \in Objects
  BY ShareAssumption DEF TypeOK, Share, Request
<1>2. \A w \in Workers : CreateShare(w) /\ Share(w) = Share(v) => pc[v] = "idle"
  <2> SUFFICES ASSUME NEW w \in Workers, CreateShare(w), Share(w) = Share(v)
               PROVE  pc[v] = "idle"
    OBVIOUS
  <2>1. w # v /\ pc[w] = "insert"
    BY DEF TypeOK, CreateShare, At, Goto
  <2>2. pc[v] # "insert" /\ pc[v] \notin Serving
    BY <2>1 DEF Turned, OneCreator, TurnedFor
  <2> QED
    BY <2>2 DEF TypeOK, Steps, Serving
<1>3. CASE pc[v] = "idle"
  BY <1>3 DEF TurnedFor, Serving
<1>4. CASE pc[v] # "idle"
  <2>1. \/ link'[Share(v)] = link[Share(v)]
        \/ link[Share(v)] = "there" /\ link'[Share(v)] = "deleted"
    <3>1. PICK s \in Shares : s = Share(v)
      BY <1>1
    <3>2. \/ link'[s] = link[s]
          \/ link[s] = "there" /\ link'[s] = "deleted"
          \/ \E w \in Workers : CreateShare(w) /\ Share(w) = s
      BY Lasting
    <3>3. ~ \E w \in Workers : CreateShare(w) /\ Share(w) = s
      BY <1>2, <1>4, <3>1
    <3> QED
      BY <3>1, <3>2, <3>3
  <2>2. object[Target[Share(v)]] = "gone" => object'[Target[Share(v)]] = "gone"
    BY <1>1, Lasting
  <2>3. Hopeless(Share(v)) => (Hopeless(Share(v)))'
    BY <1>1, <2>1, <2>2, Lasting DEF Hopeless, Dead
  <2> QED
    BY <1>1, <2>1, <2>2, <2>3 DEF Turned, TurnedFor
<1> QED
  BY <1>3, <1>4

LEMMA NextTurned == ASSUME TypeOK, TypeOK', Turned, [Next]_vars PROVE Turned'
<1> USE DEF store, handlers
<1>a. ASSUME NEW w \in Workers, \A v \in Workers \ {w} : pc'[v] = pc[v] /\ req'[v] = req[v],
             TurnedFor(w)', pc'[w] # "insert", DeadNeverServed'
      PROVE  Turned'
  <2>1. \A v \in Workers : TurnedFor(v)'
    BY <1>a, OthersTurned
  <2>2. OneCreator'
    BY <1>a DEF Turned, OneCreator, Share
  <2> QED
    BY <1>a, <2>1, <2>2 DEF Turned
<1>b. ASSUME UNCHANGED <<pc, req, bodies>> PROVE Turned'
  <2>1. \A v \in Workers : TurnedFor(v)'
    BY <1>b, OthersTurned
  <2> QED
    BY <1>b, <2>1 DEF Turned, OneCreator, Share, DeadNeverServed
<1>c. DeadNeverServed /\ \A w \in Workers : TurnedFor(w)
  BY DEF Turned
<1>d. ASSUME NEW w \in Workers, pc' = [pc EXCEPT ![w] = "idle"], UNCHANGED <<req, bodies>>
      PROVE  Turned'
  BY <1>a, <1>c, <1>d DEF TypeOK, TurnedFor, Serving, DeadNeverServed
<1>1. ASSUME NEW w \in Workers, NEW s \in Shares, CreateCheck(w, s) PROVE Turned'
  <2>1. /\ \A v \in Workers \ {w} : pc'[v] = pc[v] /\ req'[v] = req[v]
        /\ \A v \in Workers : pc[v] = "insert" => Share(v) # s
        /\ pc'[w] = "insert" /\ Share(w)' = s /\ link'[s] = "none" /\ UNCHANGED bodies
    BY <1>1 DEF TypeOK, CreateCheck, At, Goto, Share, Request
  <2>2. \A v \in Workers : TurnedFor(v)'
    BY <2>1, OthersTurned DEF TurnedFor, Serving
  <2>3. OneCreator'
    BY <2>1 DEF Turned, OneCreator, Share
  <2> QED
    BY <1>c, <2>1, <2>2, <2>3 DEF Turned, DeadNeverServed
<1>2. ASSUME NEW w \in Workers, CreateShare(w) \/ CreateFails(w) PROVE Turned'
  BY <1>d, <1>2 DEF CreateShare, CreateFails, Goto
<1>3. CASE UNCHANGED handlers
  BY <1>b, <1>3
<1>4. ASSUME NEW w \in Workers, NEW c \in Clients, NEW s \in Shares,
             NEW head \in BOOLEAN, NEW known \in BOOLEAN, EnterShare(w, c, s, head, known)
      PROVE  Turned'
  <2>1. /\ \A v \in Workers \ {w} : pc'[v] = pc[v] /\ req'[v] = req[v]
        /\ pc'[w] = "lookup" /\ Share(w)' = s /\ link'[s] # "none" /\ UNCHANGED bodies
        /\ (req[w].dead)' = Hopeless(s) /\ UNCHANGED store
    BY <1>4 DEF TypeOK, EnterShare, At, Goto, Share
  <2>2. Hopeless(s)' = Hopeless(s)
    BY <2>1 DEF Hopeless, Dead
  <2>3. TurnedFor(w)'
    BY <2>1, <2>2 DEF TurnedFor
  <2> QED
    BY <1>a, <1>c, <2>1, <2>3 DEF DeadNeverServed
<1>5. ASSUME NEW w \in Workers, LookupShare(w) PROVE Turned'
  <2>1. CASE Leave(w, FALSE)
    BY <1>d, <1>5, <2>1 DEF LookupShare, Leave, Goto
  <2>2. CASE ~Leave(w, FALSE)
    <3>1. /\ \A v \in Workers \ {w} : pc'[v] = pc[v] /\ req'[v] = req[v]
          /\ pc[w] = "lookup" /\ pc'[w] \in {"validate", "status"} /\ UNCHANGED <<req, bodies>>
          /\ ~Dead(Share(w)) /\ UNCHANGED store
      BY <1>5, <2>2 DEF TypeOK, LookupShare, At, Goto, Admits
    <3>2. TurnedFor(w)'
      BY <1>c, <3>1 DEF TurnedFor, Hopeless, Share, Serving, Steps
    <3> QED
      BY <1>a, <1>c, <3>1, <3>2 DEF DeadNeverServed
  <2> QED
    BY <2>1, <2>2
<1>6. ASSUME NEW w \in Workers, LookupStatus(w) \/ ValidateTarget(w) PROVE Turned'
  <2>1. CASE Leave(w, FALSE)
    BY <1>d, <1>6, <2>1 DEF LookupStatus, ValidateTarget, Leave, Goto
  <2>2. CASE ~Leave(w, FALSE)
    <3>1. /\ \A v \in Workers \ {w} : pc'[v] = pc[v] /\ req'[v] = req[v]
          /\ pc[w] \in {"status", "validate"} /\ pc'[w] \in {"validate", "read", "consume"}
          /\ UNCHANGED <<req, bodies>>
          /\ object[Target[Share(w)]] # "gone" /\ UNCHANGED store
      BY <1>6, <2>2 DEF TypeOK, LookupStatus, ValidateTarget, At, Goto, Available
    <3>2. TurnedFor(w)'
      BY <1>c, <3>1 DEF TurnedFor, Share, Serving, Steps
    <3> QED
      BY <1>a, <1>c, <3>1, <3>2 DEF DeadNeverServed
  <2> QED
    BY <2>1, <2>2
<1>7. ASSUME NEW w \in Workers, ConsumeShare(w) PROVE Turned'
  <2>1. /\ \A v \in Workers \ {w} : pc'[v] = pc[v] /\ req'[v] = req[v]
        /\ pc[w] = "consume" /\ pc'[w] = "read"
        /\ (req[w].dead)' = req[w].dead /\ Share(w)' = Share(w)
        /\ UNCHANGED <<bodies, link>>
    BY <1>7 DEF TypeOK, ConsumeShare, At, Goto, Share, Request
  <2>2. TurnedFor(w)'
    BY <1>c, <2>1 DEF TurnedFor, Serving, Steps
  <2> QED
    BY <1>a, <1>c, <2>1, <2>2 DEF DeadNeverServed
<1>8. ASSUME NEW w \in Workers, ConsumeRefused(w) \/ ReadFails(w) PROVE Turned'
  BY <1>d, <1>8 DEF ConsumeRefused, ReadFails, Leave, Goto
<1>e. ASSUME NEW w \in Workers, pc[w] \in {"read", "open"}, pc' = [pc EXCEPT ![w] = "idle"],
             UNCHANGED req, UNCHANGED bodies \/ Answer(w)
      PROVE  Turned'
  <2>1. ~req[w].dead
    BY <1>c, <1>e DEF TurnedFor
  <2>2. DeadNeverServed'
    BY <1>c, <1>e, <2>1 DEF DeadNeverServed, Answer
  <2> QED
    BY <1>a, <1>e, <2>2 DEF TypeOK, TurnedFor, Serving
<1>9. ASSUME NEW w \in Workers, ReadTarget(w) PROVE Turned'
  <2>1. CASE Target[Share(w)] \in Files
    <3>1. /\ \A v \in Workers \ {w} : pc'[v] = pc[v] /\ req'[v] = req[v]
          /\ pc[w] = "read" /\ pc'[w] = "open" /\ UNCHANGED <<req, bodies, link>>
      BY <1>9, <2>1 DEF TypeOK, ReadTarget, At, Goto
    <3>2. TurnedFor(w)'
      BY <1>c, <3>1 DEF TurnedFor, Share, Serving, Steps
    <3> QED
      BY <1>a, <1>c, <3>1, <3>2 DEF DeadNeverServed
  <2>2. CASE Target[Share(w)] \notin Files
    BY <1>e, <1>9, <2>2 DEF ReadTarget, Leave, At, Goto
  <2> QED
    BY <2>1, <2>2
<1>10. ASSUME NEW w \in Workers, OpenFile(w) PROVE Turned'
  BY <1>e, <1>10 DEF OpenFile, Leave, At, Goto
<1>11. ASSUME NEW s \in Shares, ShareExpires(s) PROVE Turned'
  BY <1>b, <1>11 DEF ShareExpires
<1>12. ASSUME NEW t \in Tickets, SessionExpires(t) PROVE Turned'
  BY <1>b, <1>12 DEF SessionExpires
<1>13. CASE Restart
  BY <1>c, <1>13 DEF Restart, Turned, TurnedFor, OneCreator, DeadNeverServed, Serving
<1>14. CASE UNCHANGED vars
  BY <1>b, <1>14 DEF vars
<1>15. ASSUME NEW o \in Objects, Trash(o) \/ RestoreTrash(o) \/ PurgeTrash(o) \/ ObjectExpires(o)
       PROVE  Turned'
  BY <1>3, <1>15 DEF Trash, RestoreTrash, PurgeTrash, ObjectExpires
<1>16. ASSUME NEW S \in SUBSET Objects, NEW old \in SUBSET Shares, PurgeMany(S, old) PROVE Turned'
  BY <1>3, <1>16 DEF PurgeMany
<1>17. ASSUME NEW n \in Notes, OwnerReads(n) PROVE Turned'
  BY <1>3, <1>17 DEF OwnerReads
<1>18. ASSUME NEW s \in Shares, RevokeShare(s) PROVE Turned'
  BY <1>3, <1>18 DEF RevokeShare
<1> HIDE DEF store, handlers
<1> QED
  BY <1>1, <1>2, <1>4, <1>5, <1>6, <1>7, <1>8, <1>9, <1>10, <1>11, <1>12, <1>13, <1>14, <1>15,
     <1>16, <1>17, <1>18
     DEF Next, Owner, Visitor, ServeStep, Environment

\* Nothing is sent to a request that came in after its share was dead for good.
THEOREM DeadIsNeverServed == Spec => []DeadNeverServed
<1>1. Init => Turned
  BY DEF Init, Turned, TurnedFor, OneCreator, DeadNeverServed, Serving
<1>2. TypeOK /\ TypeOK' /\ Turned /\ [Next]_vars => Turned'
  BY NextTurned
<1>3. Turned => DeadNeverServed
  BY DEF Turned
<1> QED
  BY <1>1, <1>2, <1>3, TypeCorrect, PTL DEF Spec

-----------------------------------------------------------------------------
(* Sessions are paid for.                                                  *)

Cookies(s) == {t \in sessions : t[2] = s}
Paid(s)    == {w \in Workers : pc[w] \in Serving /\ Share(w) = s /\ req[w].paid}

LEMMA TicketsFinite == IsFiniteSet(Tickets)
BY PopulationAssumption, FS_Product DEF Tickets

LEMMA PaidFinite ==
  ASSUME TypeOK, NEW s
  PROVE  /\ IsFiniteSet(Paid(s)) /\ Cardinality(Paid(s)) \in Nat
         /\ IsFiniteSet(Cookies(s)) /\ Cardinality(Cookies(s)) \in Nat
<1>1. Paid(s) \in SUBSET Workers /\ Cookies(s) \in SUBSET Tickets
  BY DEF Paid, Cookies, TypeOK
<1> QED
  BY <1>1, TicketsFinite, PopulationAssumption, FS_Subset, FS_CardinalityType

LEMMA InitPaid == Init => SessionsPaid
<1> SUFFICES ASSUME Init, NEW s \in Shares
             PROVE  /\ Cardinality(Cookies(s)) + Cardinality(Paid(s)) <= uses[s]
                    /\ MaxAccess[s] > 0 => uses[s] <= MaxAccess[s]
  BY DEF SessionsPaid, Cookies, Paid
<1>1. Cookies(s) = {} /\ Paid(s) = {} /\ uses[s] = 0
  BY DEF Init, Cookies, Paid, Serving
<1> QED
  BY <1>1, FS_EmptySet, ShareAssumption

LEMMA NextPaid == ASSUME TypeOK, TypeOK', SessionsPaid, [Next]_vars PROVE SessionsPaid'
<1> SUFFICES ASSUME NEW s \in Shares
             PROVE  /\ Cardinality(Cookies(s)') + Cardinality(Paid(s)') <= uses'[s]
                    /\ MaxAccess[s] > 0 => uses'[s] <= MaxAccess[s]
  BY DEF SessionsPaid, Cookies, Paid
<1> DEFINE Goal == /\ Cardinality(Cookies(s)') + Cardinality(Paid(s)') <= uses'[s]
                   /\ MaxAccess[s] > 0 => uses'[s] <= MaxAccess[s]
<1>0. /\ Cardinality(Cookies(s)) + Cardinality(Paid(s)) <= uses[s]
      /\ MaxAccess[s] > 0 => uses[s] <= MaxAccess[s]
  BY DEF SessionsPaid, Cookies, Paid
<1>a. /\ IsFiniteSet(Paid(s)) /\ Cardinality(Paid(s)) \in Nat
      /\ IsFiniteSet(Cookies(s)) /\ Cardinality(Cookies(s)) \in Nat
      /\ IsFiniteSet(Paid(s)') /\ Cardinality(Paid(s)') \in Nat
      /\ IsFiniteSet(Cookies(s)') /\ Cardinality(Cookies(s)') \in Nat
  <2>1. Paid(s)' \in SUBSET Workers /\ Cookies(s)' \in SUBSET Tickets
    BY DEF Paid, Cookies, TypeOK
  <2> QED
    BY <2>1, PaidFinite, TicketsFinite, PopulationAssumption, FS_Subset, FS_CardinalityType
<1>b. uses[s] \in Nat /\ MaxAccess[s] \in Nat
  BY ShareAssumption DEF TypeOK
<1>c. ASSUME Cookies(s)' \subseteq Cookies(s), Paid(s)' \subseteq Paid(s), uses' = uses PROVE Goal
  <2>1. Cardinality(Cookies(s)') <= Cardinality(Cookies(s))
    BY <1>a, <1>c, FS_Subset
  <2>2. Cardinality(Paid(s)') <= Cardinality(Paid(s))
    BY <1>a, <1>c, FS_Subset
  <2> QED
    BY <1>0, <1>a, <1>b, <1>c, <2>1, <2>2
<1>1. CASE Quiet
  <2>1. Cookies(s)' \subseteq Cookies(s) /\ Paid(s)' = Paid(s)
    BY <1>1 DEF Quiet, Cookies, Paid, Share
  <2> QED
    BY <1>1, <1>c, <2>1 DEF Quiet
<1>2. CASE Restart
  <2>1. Cookies(s)' = {} /\ Paid(s)' = {} /\ uses' = uses
    BY <1>2 DEF Restart, store, Cookies, Paid, Serving
  <2> QED
    BY <1>c, <2>1
<1>3. ASSUME NEW w \in Workers, Aside(w) PROVE Goal
  <2>1. Cookies(s)' = Cookies(s) /\ Paid(s)' = Paid(s)
    BY <1>3 DEF Aside, Cookies, Paid, Share
  <2> QED
    BY <1>3, <1>c, <2>1 DEF Aside
<1>4. ASSUME NEW w \in Workers, Walks(w) PROVE Goal
  <2>1. Cookies(s)' = Cookies(s) /\ Paid(s)' = Paid(s)
    BY <1>4 DEF Walks, Cookies, Paid, Share
  <2> QED
    BY <1>4, <1>c, <2>1 DEF Walks
<1>5. ASSUME NEW w \in Workers, ConsumeShare(w) PROVE Goal
  <2>0. /\ \A v \in Workers : pc'[v] = IF v = w THEN "read" ELSE pc[v]
        /\ \A v \in Workers : Share(v)' = Share(v)
        /\ \A v \in Workers \ {w} : (req[v].paid)' = req[v].paid
        /\ pc[w] = "consume" /\ ~Exhausted(Share(w)) /\ sessions' = sessions
    BY <1>5 DEF TypeOK, ConsumeShare, MayConsume, At, Goto, Share, Request
  <2>1. Cookies(s)' = Cookies(s)
    BY <2>0 DEF Cookies
  <2>2. CASE Share(w) = s
    <3>1. uses'[s] = uses[s] + 1
      BY <1>5, <2>2 DEF TypeOK, ConsumeShare
    <3>2. Paid(s)' \subseteq Paid(s) \union {w}
      BY <2>0 DEF Paid
    <3>3. Cardinality(Paid(s) \union {w}) <= Cardinality(Paid(s)) + 1
          /\ IsFiniteSet(Paid(s) \union {w})
      <4>1. /\ IsFiniteSet(Paid(s) \union {w})
            /\ Cardinality(Paid(s) \union {w}) =
                 IF w \in Paid(s) THEN Cardinality(Paid(s)) ELSE Cardinality(Paid(s)) + 1
        BY <1>a, FS_AddElement
      <4> QED
        BY <1>a, <4>1
    <3>4. Cardinality(Paid(s)') <= Cardinality(Paid(s)) + 1
      <4>1. Cardinality(Paid(s)') <= Cardinality(Paid(s) \union {w})
        BY <3>2, <3>3, FS_Subset
      <4> QED
        BY <1>a, <3>3, <4>1, FS_CardinalityType
    <3>5. MaxAccess[s] > 0 => uses[s] < MaxAccess[s]
      BY <1>b, <2>0, <2>2 DEF Exhausted
    <3> QED
      BY <1>0, <1>a, <1>b, <2>1, <3>1, <3>4, <3>5
  <2>3. CASE Share(w) # s
    <3>1. uses'[s] = uses[s]
      BY <1>5, <2>3 DEF TypeOK, ConsumeShare
    <3>2. Paid(s)' = Paid(s)
      BY <2>0, <2>3 DEF Paid, Serving, Steps
    <3> QED
      BY <1>0, <2>1, <3>1, <3>2
  <2> QED
    BY <2>2, <2>3
<1>6. ASSUME NEW w \in Workers, Leaves(w) PROVE Goal
  <2>0. /\ \A v \in Workers : pc'[v] = IF v = w THEN "idle" ELSE pc[v]
        /\ pc[w] \in Serving /\ UNCHANGED <<req, uses>>
        /\ sessions' \subseteq sessions \union (IF req[w].paid THEN {Ticket(w)} ELSE {})
    BY <1>6 DEF TypeOK, Leaves
  <2>1. Paid(s)' = Paid(s) \ {w}
    BY <2>0 DEF Paid, Serving, Share
  <2>2. CASE w \in Paid(s)
    <3>1. Cardinality(Paid(s)') = Cardinality(Paid(s)) - 1
      BY <1>a, <2>1, <2>2, FS_RemoveElement
    <3>2. Cookies(s)' \subseteq Cookies(s) \union {Ticket(w)}
      BY <2>0 DEF Cookies
    <3>3. Cardinality(Cookies(s) \union {Ticket(w)}) <= Cardinality(Cookies(s)) + 1
          /\ IsFiniteSet(Cookies(s) \union {Ticket(w)})
      <4>1. /\ IsFiniteSet(Cookies(s) \union {Ticket(w)})
            /\ Cardinality(Cookies(s) \union {Ticket(w)}) =
                 IF Ticket(w) \in Cookies(s) THEN Cardinality(Cookies(s)) ELSE Cardinality(Cookies(s)) + 1
        BY <1>a, FS_AddElement
      <4> QED
        BY <1>a, <4>1
    <3>4. Cardinality(Cookies(s)') <= Cardinality(Cookies(s)) + 1
      <4>1. Cardinality(Cookies(s)') <= Cardinality(Cookies(s) \union {Ticket(w)})
        BY <3>2, <3>3, FS_Subset
      <4> QED
        BY <1>a, <3>3, <4>1, FS_CardinalityType
    <3> QED
      BY <1>0, <1>a, <1>b, <2>0, <3>1, <3>4
  <2>3. CASE w \notin Paid(s)
    <3>1. Cookies(s)' \subseteq Cookies(s)
      BY <2>0, <2>3 DEF Cookies, Paid, Ticket, Share
    <3> QED
      BY <1>c, <2>0, <2>1, <3>1
  <2> QED
    BY <2>2, <2>3
<1>7. ASSUME NEW w \in Workers, NEW c \in Clients, NEW z \in Shares,
             NEW head \in BOOLEAN, NEW known \in BOOLEAN, EnterShare(w, c, z, head, known)
      PROVE  Goal
  <2>1. /\ pc[w] = "idle" /\ ~(req[w].paid)'
        /\ \A v \in Workers \ {w} : pc'[v] = pc[v] /\ req'[v] = req[v]
        /\ UNCHANGED <<sessions, uses>>
    BY <1>7 DEF TypeOK, EnterShare, At, Goto, store
  <2>2. Cookies(s)' = Cookies(s) /\ Paid(s)' \subseteq Paid(s)
    BY <2>1 DEF Cookies, Paid, Share
  <2> QED
    BY <1>c, <2>1, <2>2
<1> QED
  BY <1>1, <1>2, <1>3, <1>4, <1>5, <1>6, <1>7, Kinds DEF Kind

\* Cookies and accesses under way never exceed what was paid.
THEOREM SessionsArePaid == Spec => []SessionsPaid
<1>1. TypeOK /\ TypeOK' /\ SessionsPaid /\ [Next]_vars => SessionsPaid'
  BY NextPaid
<1> QED
  BY <1>1, InitPaid, TypeCorrect, PTL DEF Spec

-----------------------------------------------------------------------------
(* The audience of a share: whoever has been sent its content, holds a     *)
(* cookie for it or has been let in.  It grows only with access_count,     *)
(* however many sessions are forgotten and bought again.                   *)

LetIn(w, s) == pc[w] \in Serving /\ Share(w) = s /\ (req[w].paid \/ req[w].known)

Audience(s) ==
  {c \in Clients : \/ \E b \in bodies : b.client = c /\ b.share = s
                   \/ <<c, s>> \in sessions
                   \/ \E w \in Workers : LetIn(w, s) /\ req[w].client = c}

\* Nobody is near a body who has not been let in.
Earned ==
  \A w \in Workers :
    pc[w] \in {"read", "open"} => req[w].head \/ req[w].paid \/ req[w].known

Counted == \A s \in Shares : Cardinality(Audience(s)) <= uses[s]

LEMMA AudienceFinite ==
  ASSUME NEW s
  PROVE  IsFiniteSet(Audience(s)) /\ Cardinality(Audience(s)) \in Nat
<1>1. Audience(s) \in SUBSET Clients
  BY DEF Audience
<1> QED
  BY <1>1, PopulationAssumption, FS_Subset, FS_CardinalityType

LEMMA InitCounted == Init => Earned /\ Counted
<1> SUFFICES ASSUME Init PROVE Earned /\ Counted
  OBVIOUS
<1>1. Earned
  BY DEF Init, Earned
<1>2. ASSUME NEW s \in Shares PROVE Cardinality(Audience(s)) <= uses[s]
  <2>1. Audience(s) = {} /\ uses[s] = 0
    BY DEF Init, Audience, LetIn, Serving
  <2> QED
    BY <2>1, FS_EmptySet
<1> QED
  BY <1>1, <1>2 DEF Counted

LEMMA NextEarned == ASSUME TypeOK, Earned, [Next]_vars PROVE Earned'
<1> USE DEF Earned
<1>1. CASE Quiet
  BY <1>1 DEF Quiet
<1>2. CASE Restart
  BY <1>2 DEF Restart
<1>3. ASSUME NEW w \in Workers, Aside(w) PROVE Earned'
  BY <1>3 DEF Aside, Serving, Steps
<1>4. ASSUME NEW w \in Workers, Walks(w) PROVE Earned'
  BY <1>4 DEF Walks
<1>5. ASSUME NEW w \in Workers, ConsumeShare(w) PROVE Earned'
  <2>1. /\ (req[w].paid)'
        /\ \A v \in Workers \ {w} : pc'[v] = pc[v] /\ req'[v] = req[v]
    BY <1>5 DEF TypeOK, ConsumeShare, Goto, Request
  <2> QED
    BY <2>1
<1>6. ASSUME NEW w \in Workers, Leaves(w) PROVE Earned'
  BY <1>6 DEF TypeOK, Leaves
<1>7. ASSUME NEW w \in Workers, NEW c \in Clients, NEW s \in Shares,
             NEW head \in BOOLEAN, NEW known \in BOOLEAN, EnterShare(w, c, s, head, known)
      PROVE  Earned'
  BY <1>7 DEF TypeOK, EnterShare, Goto
<1> HIDE DEF Earned
<1> QED
  BY <1>1, <1>2, <1>3, <1>4, <1>5, <1>6, <1>7, Kinds DEF Kind

LEMMA NextCounted == ASSUME TypeOK, TypeOK', Earned, Counted, [Next]_vars PROVE Counted'
<1> SUFFICES ASSUME NEW s \in Shares PROVE Cardinality(Audience(s)') <= uses'[s]
  BY DEF Counted, Audience, LetIn
<1> DEFINE Goal == Cardinality(Audience(s)') <= uses'[s]
<1>0. Cardinality(Audience(s)) <= uses[s] /\ uses[s] \in Nat
  BY DEF Counted, TypeOK
<1>a. /\ IsFiniteSet(Audience(s)) /\ Cardinality(Audience(s)) \in Nat
      /\ IsFiniteSet(Audience(s)') /\ Cardinality(Audience(s)') \in Nat
  <2>1. Audience(s)' \in SUBSET Clients
    BY DEF Audience
  <2> QED
    BY <2>1, AudienceFinite, PopulationAssumption, FS_Subset, FS_CardinalityType
<1>b. ASSUME Audience(s)' \subseteq Audience(s), uses'[s] = uses[s] PROVE Goal
  <2>1. Cardinality(Audience(s)') <= Cardinality(Audience(s))
    BY <1>a, <1>b, FS_Subset
  <2> QED
    BY <1>0, <1>a, <1>b, <2>1
<1>1. CASE Quiet
  <2>1. Audience(s)' \subseteq Audience(s)
    BY <1>1 DEF Quiet, Audience, LetIn, Share
  <2> QED
    BY <1>1, <1>b, <2>1 DEF Quiet
<1>2. CASE Restart
  <2>1. Audience(s)' \subseteq Audience(s)
    BY <1>2 DEF Restart, Audience, LetIn, Serving
  <2> QED
    BY <1>2, <1>b, <2>1 DEF Restart, store
<1>3. ASSUME NEW w \in Workers, Aside(w) PROVE Goal
  <2>1. Audience(s)' \subseteq Audience(s)
    BY <1>3 DEF Aside, Audience, LetIn, Share
  <2> QED
    BY <1>3, <1>b, <2>1 DEF Aside
<1>4. ASSUME NEW w \in Workers, Walks(w) PROVE Goal
  <2>1. Audience(s)' \subseteq Audience(s)
    BY <1>4 DEF Walks, Audience, LetIn, Share
  <2> QED
    BY <1>4, <1>b, <2>1 DEF Walks
<1>5. ASSUME NEW w \in Workers, ConsumeShare(w) PROVE Goal
  <2>0. /\ \A v \in Workers \ {w} : pc'[v] = pc[v] /\ req'[v] = req[v]
        /\ Share(w)' = Share(w) /\ (req[w].client)' = req[w].client
        /\ UNCHANGED <<sessions, bodies>>
    BY <1>5 DEF TypeOK, ConsumeShare, At, Goto, Share, Request
  <2>1. CASE Share(w) = s
    <3> DEFINE c == req[w].client
    <3>1. uses'[s] = uses[s] + 1
      BY <1>5, <2>1 DEF TypeOK, ConsumeShare
    <3>2. Audience(s)' \subseteq Audience(s) \union {c}
      BY <2>0 DEF Audience, LetIn, Share
    <3> HIDE DEF c
    <3>3. Cardinality(Audience(s) \union {c}) <= Cardinality(Audience(s)) + 1
          /\ IsFiniteSet(Audience(s) \union {c})
      BY <1>a, FS_AddElement
    <3>4. Cardinality(Audience(s)') <= Cardinality(Audience(s)) + 1
      <4>1. Cardinality(Audience(s)') <= Cardinality(Audience(s) \union {c})
        BY <3>2, <3>3, FS_Subset
      <4> QED
        BY <1>a, <3>3, <4>1, FS_CardinalityType
    <3> QED
      BY <1>0, <1>a, <3>1, <3>4
  <2>2. CASE Share(w) # s
    <3>1. uses'[s] = uses[s]
      BY <1>5, <2>2 DEF TypeOK, ConsumeShare
    <3>2. Audience(s)' \subseteq Audience(s)
      BY <2>0, <2>2 DEF Audience, LetIn, Share
    <3> QED
      BY <1>b, <3>1, <3>2
  <2> QED
    BY <2>1, <2>2
<1>6. ASSUME NEW w \in Workers, Leaves(w) PROVE Goal
  <2>0. /\ \A v \in Workers : pc'[v] = IF v = w THEN "idle" ELSE pc[v]
        /\ pc[w] \in Serving /\ UNCHANGED <<req, uses>>
        /\ sessions' \subseteq sessions \union (IF req[w].paid THEN {Ticket(w)} ELSE {})
        /\ UNCHANGED bodies \/ (pc[w] \in {"read", "open"} /\ Answer(w))
    BY <1>6 DEF TypeOK, Leaves
  <2>1. req[w].paid \/ req[w].known \/ UNCHANGED bodies
    BY <2>0 DEF Earned, Answer
  <2>2. ASSUME NEW b \in bodies', b \notin bodies
        PROVE  b.client = req[w].client /\ b.share = Share(w)
    BY <2>0, <2>2 DEF Answer
  <2>3. Audience(s)' \subseteq Audience(s)
    <3> SUFFICES ASSUME NEW c \in Clients, c \in Audience(s)' PROVE c \in Audience(s)
      BY DEF Audience
    <3>1. CASE \E b \in bodies' : b.client = c /\ b.share = s
      <4>1. PICK b \in bodies' : b.client = c /\ b.share = s
        BY <3>1
      <4>2. CASE b \in bodies
        BY <4>1, <4>2 DEF Audience
      <4>3. CASE b \notin bodies
        BY <2>0, <2>1, <2>2, <4>1, <4>3 DEF Audience, LetIn
      <4> QED
        BY <4>2, <4>3
    <3>2. CASE <<c, s>> \in sessions'
      BY <2>0, <3>2 DEF Audience, LetIn, Ticket, Share
    <3>3. CASE \E v \in Workers : LetIn(v, s)' /\ (req[v].client)' = c
      BY <2>0, <3>3 DEF Audience, LetIn, Share, Serving
    <3> QED
      BY <3>1, <3>2, <3>3 DEF Audience
  <2> QED
    BY <1>b, <2>0, <2>3
<1>7. ASSUME NEW w \in Workers, NEW c \in Clients, NEW z \in Shares,
             NEW head \in BOOLEAN, NEW known \in BOOLEAN, EnterShare(w, c, z, head, known)
      PROVE  Goal
  <2>1. /\ \A v \in Workers \ {w} : pc'[v] = pc[v] /\ req'[v] = req[v]
        /\ Share(w)' = z /\ (req[w].client)' = c /\ ~(req[w].paid)'
        /\ (req[w].known)' = known
        /\ known => <<c, z>> \in sessions
        /\ UNCHANGED <<sessions, bodies, uses>>
    BY <1>7 DEF TypeOK, EnterShare, ShowsSession, Goto, Share, store
  <2>2. ASSUME NEW d \in Clients, NEW v \in Workers, LetIn(v, s)', (req[v].client)' = d
        PROVE  d \in Audience(s)
    <3>1. CASE v = w
      <4>1. z = s /\ known /\ d = c
        BY <2>1, <2>2, <3>1 DEF LetIn, Share
      <4> QED
        BY <2>1, <2>2, <4>1 DEF Audience
    <3>2. CASE v # w
      BY <2>1, <2>2, <3>2 DEF Audience, LetIn, Share
    <3> QED
      BY <3>1, <3>2
  <2>3. Audience(s)' \subseteq Audience(s)
    BY <2>1, <2>2 DEF Audience
  <2> QED
    BY <1>b, <2>1, <2>3
<1> QED
  BY <1>1, <1>2, <1>3, <1>4, <1>5, <1>6, <1>7, Kinds DEF Kind

\* A limited share is opened by no more browsers than it allows.
THEOREM AudienceIsBounded == Spec => []AudienceBounded
<1>1. TypeOK /\ TypeOK' /\ Earned /\ Counted /\ [Next]_vars => Earned' /\ Counted'
  BY NextEarned, NextCounted
<1>2. ASSUME TypeOK, Counted, SessionsPaid PROVE AudienceBounded
  <2> SUFFICES ASSUME NEW s \in Shares, MaxAccess[s] > 0
               PROVE  Cardinality({b.client : b \in {x \in bodies : x.share = s}})
                        <= MaxAccess[s]
    BY DEF AudienceBounded
  <2> DEFINE Seen == {b.client : b \in {x \in bodies : x.share = s}}
  <2>1. Seen \in SUBSET Audience(s)
    BY <1>2 DEF Audience, TypeOK, Body
  <2> HIDE DEF Seen
  <2>2. Cardinality(Seen) <= Cardinality(Audience(s)) /\ Cardinality(Seen) \in Nat
    BY <2>1, AudienceFinite, FS_Subset, FS_CardinalityType
  <2>3. Cardinality(Audience(s)) <= uses[s] /\ uses[s] <= MaxAccess[s]
    BY <1>2 DEF Counted, SessionsPaid
  <2>4. uses[s] \in Nat /\ MaxAccess[s] \in Nat
    BY <1>2, ShareAssumption DEF TypeOK
  <2>5. Cardinality(Seen) <= MaxAccess[s]
    BY <2>2, <2>3, <2>4, AudienceFinite
  <2> QED
    BY <2>5 DEF Seen
<1>3. TypeOK /\ Counted /\ SessionsPaid => AudienceBounded
  BY <1>2
<1> QED
  BY <1>1, <1>3, InitCounted, TypeCorrect, SessionsArePaid, PTL DEF Spec

-----------------------------------------------------------------------------
(* Notes with a limit.                                                     *)

Below == \A n \in Notes : ReadLimit[n] > 0 /\ object[n] # "gone" => reads[n] < ReadLimit[n]

\* A read is of a note that is there; nothing else touches the count.
LEMMA ReadsGrow ==
  ASSUME TypeOK, [Next]_vars
  PROVE  reads' = reads \/ \E n \in Notes : object[n] = "live" /\ CountRead(n)
<1>1. ASSUME NEW w \in Workers, ReadTarget(w)
      PROVE  reads' = reads \/ \E n \in Notes : object[n] = "live" /\ CountRead(n)
  BY <1>1 DEF ReadTarget, Available
<1>2. ASSUME NEW n \in Notes, OwnerReads(n) PROVE object[n] = "live" /\ CountRead(n)
  BY <1>2 DEF OwnerReads, Available
<1> QED
  BY <1>1, <1>2
     DEF Next, Owner, Visitor, ServeStep, Environment, CreateCheck, CreateShare, CreateFails,
         RevokeShare, Trash, RestoreTrash, PurgeTrash, PurgeMany, EnterShare, LookupShare,
         LookupStatus, ValidateTarget, ConsumeShare, ConsumeRefused, ReadFails, OpenFile,
         ShareExpires, ObjectExpires, SessionExpires, Restart, store, handlers, vars

\* A share that an exhausted note has afterwards, it had before or it is late.
LEMMA SharesLeft ==
  ASSUME TypeOK, [Next]_vars, NEW n \in Notes, object[n] = "gone",
         SharesOf({n}) \subseteq revoked \union late
  PROVE  SharesOf({n})' \subseteq revoked' \union late'
<1> SUFFICES ASSUME NEW s \in Shares, link'[s] = "there", Target[s] = n
             PROVE  s \in revoked' \union late'
  BY DEF SharesOf
<1>1. CASE link'[s] = link[s]
  BY <1>1, Lasting DEF SharesOf
<1>2. ASSUME NEW w \in Workers, CreateShare(w), Share(w) = s PROVE s \in late'
  BY <1>2 DEF CreateShare
<1> QED
  BY <1>1, <1>2, Lasting

LEMMA NextReadLimit ==
  ASSUME TypeOK, TypeOK', ReadLimitHolds, Below, [Next]_vars
  PROVE  ReadLimitHolds' /\ Below'
<1>0. \A n \in Notes : n \in Objects /\ ReadLimit[n] \in Nat /\ reads[n] \in Nat
  BY ShareAssumption DEF TypeOK, Objects
<1>1. ASSUME NEW m \in Notes, ReadLimit[m] > 0, reads'[m] = reads[m]
      PROVE  /\ reads'[m] <= ReadLimit[m]
             /\ reads'[m] = ReadLimit[m] =>
                  object'[m] = "gone" /\ SharesOf({m})' \subseteq revoked' \union late'
             /\ object'[m] # "gone" => reads'[m] < ReadLimit[m]
  BY <1>0, <1>1, Lasting, SharesLeft DEF ReadLimitHolds, Below
<1>2. ASSUME NEW n \in Notes, ReadLimit[n] > 0, object[n] = "live", CountRead(n)
      PROVE  /\ reads'[n] <= ReadLimit[n]
             /\ reads'[n] = ReadLimit[n] =>
                  object'[n] = "gone" /\ SharesOf({n})' \subseteq revoked' \union late'
             /\ object'[n] # "gone" => reads'[n] < ReadLimit[n]
  <2>1. reads[n] < ReadLimit[n] /\ reads'[n] = reads[n] + 1
    BY <1>0, <1>2 DEF Below, CountRead, TypeOK
  <2>2. reads[n] + 1 >= ReadLimit[n] => object'[n] = "gone" /\ revoked' = revoked \union SharesOf({n})
    BY <1>0, <1>2 DEF CountRead, TypeOK
  <2>3. \A s \in Shares : link'[s] = "there" => link[s] = "there" \/ s \in late'
    <3>1. \A w \in Workers : CreateShare(w) => object' = object /\ reads' = reads
      BY DEF CreateShare
    <3>2. \A w \in Workers : ~CreateShare(w)
      BY <1>0, <2>1, <3>1
    <3> QED
      BY <3>2, Lasting
  <2> QED
    BY <1>0, <1>2, <2>1, <2>2, <2>3 DEF SharesOf
<1>3. ASSUME NEW n \in Notes, NEW m \in Notes, CountRead(n), reads'[m] # reads[m] PROVE m = n
  BY <1>3 DEF CountRead, TypeOK
<1>4. ASSUME NEW m \in Notes, ReadLimit[m] > 0
      PROVE  /\ reads'[m] <= ReadLimit[m]
             /\ reads'[m] = ReadLimit[m] =>
                  object'[m] = "gone" /\ SharesOf({m})' \subseteq revoked' \union late'
             /\ object'[m] # "gone" => reads'[m] < ReadLimit[m]
  <2>1. CASE reads'[m] = reads[m]
    BY <1>1, <1>4, <2>1
  <2>2. CASE reads'[m] # reads[m]
    <3>1. PICK n \in Notes : object[n] = "live" /\ CountRead(n)
      BY <2>2, ReadsGrow
    <3>2. m = n
      BY <1>3, <2>2, <3>1
    <3> QED
      BY <1>2, <1>4, <3>1, <3>2
  <2> QED
    BY <2>1, <2>2
<1> QED
  BY <1>4 DEF ReadLimitHolds, Below

\* The counted reads of a note stay in its limit, and with the last one it goes
\* and every share of it that exists.
THEOREM ReadLimitIsKept == Spec => []ReadLimitHolds
<1>1. Init => ReadLimitHolds /\ Below
  BY ShareAssumption DEF Init, ReadLimitHolds, Below
<1>2. TypeOK /\ TypeOK' /\ ReadLimitHolds /\ Below /\ [Next]_vars => ReadLimitHolds' /\ Below'
  BY NextReadLimit
<1> QED
  BY <1>1, <1>2, TypeCorrect, PTL DEF Spec
=============================================================================
