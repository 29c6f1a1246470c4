---------------------------- MODULE AuthLimiter ----------------------------
(***************************************************************************)
(* How many keys a source may have verified.                               *)
(*                                                                         *)
(* verifyAuth asks the table of failures whether the source is blocked,    *)
(* then checks the key and only then records the outcome.  The table is    *)
(* under s.mu, the check is not: every request of a source that was let in *)
(* before the first of them failed is still checked.  Their number is what *)
(* the limits on requests in progress allow.                               *)
(*                                                                         *)
(* The table is about POST /auth/verify alone.  Every other protected      *)
(* endpoint checks the key of each request as well and neither asks the    *)
(* table nor tells it anything; those requests count among the ones in     *)
(* progress, and nothing else limits them.                                 *)
(*                                                                         *)
(* Requests of a source are told apart by their step only, so they are     *)
(* counted, not named.                                                     *)
(***************************************************************************)
EXTENDS Naturals, FiniteSets

CONSTANTS
  Ips,         \* source addresses
  PerIP,       \* requests in progress of one source, 8 in the code
  Global,      \* and of all, 128
  Free,        \* the failure that blocks first, the fifth
  MaxSteps,    \* doublings of the time a source is blocked, 5
  Window,      \* life of a count of failures, 10 minutes
  MaxEntries,  \* sources in the table, 4096
  Period       \* time between two sweeps of the table, a minute

VARIABLES
  doing,         \* how many requests of a source are at each step
  requestIP,     \* s.requestIP
  requestTotal,  \* s.requestTotal
  auth,          \* s.auth: for every source [failures, age, blocked] or none
  sweepIn,       \* time until authSweep
  guesses,       \* history: wrong keys verifyAuth refused since the window began
  began,         \* history: how long ago that was
  rests          \* history: blocks that have ended since then

vars == <<doing, requestIP, requestTotal, auth, sweepIn, guesses, began, rests>>

Paths == {"check", "elsewhere"}  \* verifyAuth, and any other protected endpoint
Steps == Paths \union {"verify", "fail"}
Entry == [failures : 0..(Free + MaxSteps), age : 0..(Window + 1), blocked : 0..(2 ^ MaxSteps)]
None  == [failures |-> 0, age |-> 0, blocked |-> 0]

TypeOK ==
  /\ doing \in [Ips -> [Steps -> Nat]]
  /\ requestIP \in [Ips -> Nat]
  /\ requestTotal \in Nat
  /\ auth \in [Ips -> Entry]
  /\ sweepIn \in 0..Period
  /\ guesses \in [Ips -> Nat]
  /\ began \in [Ips -> 0..(Window + 1)]
  /\ rests \in [Ips -> Nat]

Init ==
  /\ doing = [i \in Ips |-> [s \in Steps |-> 0]]
  /\ requestIP = [i \in Ips |-> 0]
  /\ requestTotal = 0
  /\ auth = [i \in Ips |-> None]
  /\ sweepIn = 0
  /\ guesses = [i \in Ips |-> 0]
  /\ began = [i \in Ips |-> 0]
  /\ rests = [i \in Ips |-> 0]

Smaller(m, n) == IF m < n THEN m ELSE n

Known == {i \in Ips : auth[i] # None}

\* Mutant: an entry goes as soon as its block has ended.
StaleUnblocked(e) == e.blocked = 0

Stale(e) == e.blocked = 0 /\ e.age > Window

\* cleanupAuth: stale entries go once a minute, the oldest ones also when there
\* are too many.  A source that is not in the table starts anew.
Due  == Cardinality(Known) > MaxEntries \/ sweepIn = 0
Old  == {i \in Known : Stale(auth[i])}
Surplus(R) ==
  LET rest == Known \ Old
  IN  /\ R \subseteq rest
      /\ Cardinality(rest \ R) = Smaller(Cardinality(rest), MaxEntries)
      /\ \A i \in R, j \in rest \ R : auth[i].age >= auth[j].age

\* Removes Old and R from the table.
Sweep(R) ==
  /\ IF Due THEN Surplus(R) ELSE R = {}
  /\ sweepIn' = IF Due THEN Period ELSE sweepIn

AuthAfter(R)     == [i \in Ips |-> IF i \in R \/ (Due /\ i \in Old) THEN None ELSE auth[i]]
HistoryAfter(R, h) == [i \in Ips |-> IF i \in R THEN 0 ELSE h[i]]

Move(i, from, to) ==
  /\ doing[i][from] > 0
  /\ doing' = [doing EXCEPT ![i][from] = @ - 1, ![i][to] = @ + 1]

-----------------------------------------------------------------------------
(* The middleware.                                                         *)

EnterRequest(i, path) ==
  /\ requestTotal < Global /\ requestIP[i] < PerIP
  /\ requestIP' = [requestIP EXCEPT ![i] = @ + 1]
  /\ requestTotal' = requestTotal + 1
  /\ doing' = [doing EXCEPT ![i][path] = @ + 1]
  /\ UNCHANGED <<auth, sweepIn, guesses, began, rests>>

\* leaveRequest, deferred.
Leave(i, from) ==
  /\ doing[i][from] > 0
  /\ doing' = [doing EXCEPT ![i][from] = @ - 1]
  /\ requestIP' = [requestIP EXCEPT ![i] = @ - 1]
  /\ requestTotal' = requestTotal - 1

-----------------------------------------------------------------------------
(* protected: the key is right and the handler runs, or it is wrong.       *)

Authorized(i) ==
  /\ Leave(i, "elsewhere")
  /\ UNCHANGED <<auth, sweepIn, guesses, began, rests>>

-----------------------------------------------------------------------------
(* verifyAuth.                                                             *)

Forget(R) ==
  /\ guesses' = HistoryAfter(R, guesses)
  /\ began' = HistoryAfter(R, began)
  /\ rests' = HistoryAfter(R, rests)

AuthRetryAfter(i) == \E R \in SUBSET Ips :
  /\ Sweep(R) /\ Forget(R)
  /\ auth' = AuthAfter(R)
  /\ IF auth'[i].blocked > 0
       THEN Leave(i, "check")
       ELSE Move(i, "check", "verify") /\ UNCHANGED <<requestIP, requestTotal>>

\* The key is right: resetAuthFailures.
Succeed(i) ==
  /\ Leave(i, "verify")
  /\ auth' = [auth EXCEPT ![i] = None]
  /\ guesses' = [guesses EXCEPT ![i] = 0]
  /\ began' = [began EXCEPT ![i] = 0]
  /\ rests' = [rests EXCEPT ![i] = 0]
  /\ UNCHANGED sweepIn

\* The key is wrong.
Reject(i) ==
  /\ Move(i, "verify", "fail")
  /\ UNCHANGED <<requestIP, requestTotal, auth, sweepIn, guesses, began, rests>>

\* More failures than lead to the longest block make no difference.
Failed(e) ==
  LET n == Smaller(e.failures + 1, Free + MaxSteps)
  IN  [failures |-> n, age |-> e.age,
       blocked |-> IF n >= Free THEN 2 ^ (n - Free) ELSE e.blocked]

\* The window of the history ends with the one of the code at the latest.
Over(i) == guesses[i] = 0 \/ began[i] = Window + 1

RecordAuthFailure(i) == \E R \in SUBSET Ips :
  LET kept  == AuthAfter(R)
      entry == IF kept[i].age > Window THEN None ELSE kept[i]
      again == i \in R \/ Over(i)
  IN  /\ Leave(i, "fail")
      /\ Sweep(R)
      /\ auth' = [kept EXCEPT ![i] = Failed(entry)]
      /\ guesses' = [HistoryAfter(R, guesses) EXCEPT ![i] = IF again THEN 1 ELSE @ + 1]
      /\ began' = [HistoryAfter(R, began) EXCEPT ![i] = IF again THEN 0 ELSE @]
      /\ rests' = [HistoryAfter(R, rests) EXCEPT ![i] = IF again THEN 0 ELSE @]

\* CleanupAuth, called by the cleanup goroutine.
CleanupAuth == \E R \in SUBSET Ips :
  /\ Known # {}
  /\ Sweep(R) /\ Forget(R)
  /\ auth' = AuthAfter(R)
  /\ UNCHANGED <<doing, requestIP, requestTotal>>

Tick ==
  /\ auth' = [i \in Ips |-> IF auth[i] = None THEN None ELSE
       [failures |-> auth[i].failures, age |-> Smaller(auth[i].age + 1, Window + 1),
        blocked |-> IF auth[i].blocked > 0 THEN auth[i].blocked - 1 ELSE 0]]
  /\ sweepIn' = IF sweepIn > 0 THEN sweepIn - 1 ELSE 0
  /\ guesses' = [i \in Ips |-> IF Over(i) THEN 0 ELSE guesses[i]]
  /\ began' = [i \in Ips |-> IF Over(i) THEN 0 ELSE began[i] + 1]
  /\ rests' = [i \in Ips |-> IF Over(i) THEN 0
                             ELSE rests[i] + IF auth[i].blocked = 1 THEN 1 ELSE 0]
  /\ UNCHANGED <<doing, requestIP, requestTotal>>

Next ==
  \/ \E i \in Ips, path \in Paths : EnterRequest(i, path)
  \/ \E i \in Ips : Authorized(i) \/ AuthRetryAfter(i) \/ Succeed(i) \/ Reject(i)
                    \/ RecordAuthFailure(i)
  \/ CleanupAuth
  \/ Tick

Spec == Init /\ [][Next]_vars
-----------------------------------------------------------------------------
(* Properties.                                                             *)

\* POST /auth/verify refuses a source that has not shown the key there no more
\* keys in a window than the first few and, for every block it has waited out, as
\* many as requests of its own may be in progress, whatever requests overlap and
\* however the table is swept; a source that lost its entry to the limit of the
\* table starts anew.  Keys that other endpoints refuse are not bounded.
VerifyBounded ==
  \A i \in Ips :
    guesses[i] <= (Free - 1) + PerIP * (rests[i] + 1)
=============================================================================
