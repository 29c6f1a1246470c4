---------------------------- MODULE ShareAccess ----------------------------
(***************************************************************************)
(* Public shares: a link to one note, file or document, with an optional   *)
(* limit on the number of browsers that may open it.                       *)
(*                                                                         *)
(* serveShare is a sequence of separate store calls, each of which sees    *)
(* the store as it is at that moment; between any two of them another      *)
(* request, the owner or the cleanup goroutine may consume, revoke, trash  *)
(* or purge.  Every store call is one action: those that write hold        *)
(* writeMu from their first read to their commit.  LookupShareByToken      *)
(* reads the share and then its target, in two queries.                    *)
(*                                                                         *)
(* Times are left out: a share, a target or a session expires whenever the *)
(* environment says so, and never comes back.  The entity of a file is     *)
(* there as long as its row is (BlobStore looks at the exceptions).        *)
(***************************************************************************)
EXTENDS Naturals, FiniteSets

CONSTANTS
  Notes, Files, Pads,  \* the objects, existing from the start
  Shares,        \* share links, each created at most once
  Target,        \* Target[s]: the object of a share
  MaxAccess,     \* MaxAccess[s]: max_access_count, 0 for no limit
  ReadLimit,     \* ReadLimit[n]: reads a note allows, 1 if it burns, 0 for any
  Clients,       \* browsers, each at an address of its own
  Workers,       \* HTTP handlers
  MaxParallel,   \* requests of one client for one share, 4 in the code
  MaxUses,       \* bound on the accesses of a share without limit
  Faults         \* a subset of FaultKinds

Objects    == Notes \union Files \union Pads
FaultKinds == {"store_write", "restart"}
Tickets    == Clients \X Shares

ASSUME ShareAssumption ==
  /\ Notes \intersect (Files \union Pads) = {} /\ Files \intersect Pads = {}
  /\ Target \in [Shares -> Objects]
  /\ MaxAccess \in [Shares -> Nat]
  /\ ReadLimit \in [Notes -> Nat]
  /\ MaxParallel \in Nat \ {0}
  /\ MaxUses \in Nat
  /\ Faults \subseteq FaultKinds

ASSUME PopulationAssumption ==
  /\ Clients # {} /\ Shares # {}
  /\ IsFiniteSet(Clients) /\ IsFiniteSet(Shares) /\ IsFiniteSet(Workers)

VARIABLES
  object,    \* every object: "live", "trash" or "gone"
  outdated,  \* objects whose own expiry has passed
  link,      \* every share: "none", "there" or "deleted"
  revoked,   \* shares with revoked_at
  expired,   \* shares whose expiry has passed
  uses,      \* access_count
  reads,     \* read_count of the notes with a limit
  sessions,  \* the cookies browsers hold that this process accepts
  busy,      \* shareIP: requests in progress for each client and share
  pc,        \* what each handler does next
  req,       \* its request
  bodies,    \* history: who was sent the content of which share, and how
  late       \* history: the shares that were inserted when their object had gone

vars == <<object, outdated, link, revoked, expired, uses, reads, sessions,
          busy, pc, req, bodies, late>>
store    == <<object, outdated, link, revoked, expired, uses, reads, late>>
handlers == <<sessions, busy, pc, req, bodies>>

Steps   == {"idle", "lookup", "status", "validate", "consume", "read", "open", "insert"}
Serving == Steps \ {"idle", "insert"}
\* head: a HEAD request; known: it has shown a valid session; paid: it has
\* consumed an access; dead: history, the share was hopeless when it came in.
Request == [client : Clients, share : Shares, head : BOOLEAN, known : BOOLEAN,
            paid : BOOLEAN, dead : BOOLEAN]
Body    == [client : Clients, share : Shares, dead : BOOLEAN]

TypeOK ==
  /\ object \in [Objects -> {"live", "trash", "gone"}]
  /\ outdated \subseteq Objects
  /\ link \in [Shares -> {"none", "there", "deleted"}]
  /\ revoked \subseteq Shares /\ expired \subseteq Shares
  /\ uses \in [Shares -> Nat]
  /\ reads \in [Notes -> Nat]
  /\ sessions \subseteq Tickets
  /\ busy \in [Tickets -> Nat]
  /\ pc \in [Workers -> Steps]
  /\ req \in [Workers -> Request]
  /\ bodies \subseteq Body
  /\ late \subseteq Shares

Init ==
  /\ object = [o \in Objects |-> "live"]
  /\ outdated = {}
  /\ link = [s \in Shares |-> "none"]
  /\ revoked = {} /\ expired = {}
  /\ uses = [s \in Shares |-> 0]
  /\ reads = [n \in Notes |-> 0]
  /\ sessions = {}
  /\ busy = [t \in Tickets |-> 0]
  /\ pc = [w \in Workers |-> "idle"]
  /\ req \in [Workers -> {CHOOSE r \in Request : TRUE}]
  /\ bodies = {} /\ late = {}

At(w, step)   == pc[w] = step
Goto(w, step) == pc' = [pc EXCEPT ![w] = step]
Share(w)      == req[w].share
Ticket(w)     == <<req[w].client, req[w].share>>

Available(o) == object[o] = "live" /\ o \notin outdated
SharesOf(S)  == {s \in Shares : link[s] = "there" /\ Target[s] \in S}
Exhausted(s) == MaxAccess[s] > 0 /\ uses[s] >= MaxAccess[s]
Dead(s)      == link[s] # "there" \/ s \in revoked \/ s \in expired
\* Dead, or its object will not come back.
Hopeless(s)  == Dead(s) \/ object[Target[s]] = "gone"

-----------------------------------------------------------------------------
(* The owner: createShare looks the object up and inserts the link in two  *)
(* store calls; revokeShare is one.                                        *)

CreateCheck(w, s) ==
  /\ At(w, "idle")
  /\ link[s] = "none"
  /\ \A v \in Workers : At(v, "insert") => Share(v) # s
  /\ Available(Target[s])
  /\ req' = [req EXCEPT ![w].share = s]
  /\ Goto(w, "insert")
  /\ UNCHANGED <<store, sessions, busy, bodies>>

CreateShare(w) ==
  /\ At(w, "insert")
  /\ link' = [link EXCEPT ![Share(w)] = "there"]
  /\ late' = late \union {s \in {Share(w)} : object[Target[s]] = "gone"}
  /\ Goto(w, "idle")
  /\ UNCHANGED <<object, outdated, revoked, expired, uses, reads, sessions, busy, req, bodies>>

CreateFails(w) ==
  /\ "store_write" \in Faults
  /\ At(w, "insert")
  /\ Goto(w, "idle")
  /\ UNCHANGED <<store, sessions, busy, req, bodies>>

RevokeShare(s) ==
  /\ link[s] = "there" /\ s \notin revoked
  /\ revoked' = revoked \union {s}
  /\ UNCHANGED <<object, outdated, late, link, expired, uses, reads, handlers>>

-----------------------------------------------------------------------------
(* The objects.                                                            *)

\* Delete to the trash, by the owner or by CleanupExpired.
Trash(o) ==
  /\ object[o] = "live"
  /\ object' = [object EXCEPT ![o] = "trash"]
  /\ UNCHANGED <<outdated, late, link, revoked, expired, uses, reads, handlers>>

RestoreTrash(o) ==
  /\ object[o] = "trash"
  /\ object' = [object EXCEPT ![o] = "live"]
  /\ UNCHANGED <<outdated, late, link, revoked, expired, uses, reads, handlers>>

\* PurgeTrash of one object revokes the shares it has by now.
PurgeTrash(o) ==
  /\ object[o] = "trash"
  /\ object' = [object EXCEPT ![o] = "gone"]
  /\ revoked' = revoked \union SharesOf({o})
  /\ UNCHANGED <<outdated, late, link, expired, uses, reads, handlers>>

\* EmptyTrash and PurgeExpiredTrash revoke the shares of every missing object.
\* The second also deletes dead and exhausted links that are old enough.
PurgeMany(S, old) ==
  /\ S # {} /\ \A o \in S : object[o] = "trash"
  /\ \A s \in old : link[s] = "there" /\ (Dead(s) \/ Exhausted(s))
  /\ object' = [o \in Objects |-> IF o \in S THEN "gone" ELSE object[o]]
  /\ link' = [s \in Shares |-> IF s \in old THEN "deleted" ELSE link[s]]
  /\ revoked' = revoked \union
       {s \in Shares \ old : link[s] = "there" /\ object'[Target[s]] = "gone"}
  /\ UNCHANGED <<outdated, late, expired, uses, reads, handlers>>

\* Mutant: the shares outlive the note.
CountReadKeepsShares(n) ==
  LET last == ReadLimit[n] > 0 /\ reads[n] + 1 >= ReadLimit[n]
  IN  /\ reads' = IF ReadLimit[n] > 0 THEN [reads EXCEPT ![n] = @ + 1] ELSE reads
      /\ object' = IF last THEN [object EXCEPT ![n] = "gone"] ELSE object
      /\ revoked' = revoked

\* ReadNote: the read that reaches the limit removes the note and revokes its
\* shares in the same transaction.
CountRead(n) ==
  LET last == ReadLimit[n] > 0 /\ reads[n] + 1 >= ReadLimit[n]
  IN  /\ reads' = IF ReadLimit[n] > 0 THEN [reads EXCEPT ![n] = @ + 1] ELSE reads
      /\ object' = IF last THEN [object EXCEPT ![n] = "gone"] ELSE object
      /\ revoked' = revoked \union (IF last THEN SharesOf({n}) ELSE {})

\* The owner reads a note.
OwnerReads(n) ==
  /\ Available(n) /\ ReadLimit[n] > 0
  /\ CountRead(n)
  /\ UNCHANGED <<outdated, late, link, expired, uses, handlers>>

-----------------------------------------------------------------------------
(* serveShare.                                                             *)

\* Mutant: one request that leaves clears the counter.
LeaveAll(w, paid) ==
  /\ busy' = [busy EXCEPT ![Ticket(w)] = 0]
  /\ sessions' = sessions \union (IF paid /\ Share(w) \notin expired THEN {Ticket(w)} ELSE {})
  /\ Goto(w, "idle")

\* leaveShare, deferred by serveShare; the cookie arrives with the response.
Leave(w, paid) ==
  /\ busy' = [busy EXCEPT ![Ticket(w)] = @ - 1]
  /\ sessions' = sessions \union (IF paid /\ Share(w) \notin expired THEN {Ticket(w)} ELSE {})
  /\ Goto(w, "idle")

Answer(w) ==
  bodies' = bodies \union
    (IF req[w].head THEN {}
     ELSE {[client |-> req[w].client, share |-> Share(w), dead |-> req[w].dead]})

\* The cookie has to be for this very share.
ShowsSession(c, s, known) == known => <<c, s>> \in sessions

EnterShare(w, c, s, head, known) ==
  /\ At(w, "idle")
  /\ link[s] # "none"
  /\ ShowsSession(c, s, known)
  /\ busy[<<c, s>>] < MaxParallel
  /\ busy' = [busy EXCEPT ![<<c, s>>] = @ + 1]
  /\ req' = [req EXCEPT ![w] = [client |-> c, share |-> s, head |-> head,
                                known |-> known, paid |-> FALSE, dead |-> Hopeless(s)]]
  /\ Goto(w, "lookup")
  /\ UNCHANGED <<store, sessions, bodies>>

\* Mutant: a session is let in without a look at the share.
AdmitsSession(s, known) == known \/ (~Dead(s) /\ ~Exhausted(s))

\* A session outlives the limit of its share, not the share.
Admits(s, known) == ~Dead(s) /\ (known \/ ~Exhausted(s))

LookupShare(w) ==
  /\ At(w, "lookup")
  /\ IF Admits(Share(w), req[w].known)
       THEN /\ Goto(w, IF Exhausted(Share(w)) THEN "validate" ELSE "status")
            /\ UNCHANGED <<busy, sessions>>
       ELSE Leave(w, FALSE)
  /\ UNCHANGED <<store, req, bodies>>

LookupStatus(w) ==
  /\ At(w, "status")
  /\ IF Available(Target[Share(w)])
       THEN Goto(w, "validate") /\ UNCHANGED <<busy, sessions>>
       ELSE Leave(w, FALSE)
  /\ UNCHANGED <<store, req, bodies>>

ValidateTarget(w) ==
  /\ At(w, "validate")
  /\ IF Available(Target[Share(w)])
       THEN /\ Goto(w, IF req[w].head \/ req[w].known THEN "read" ELSE "consume")
            /\ UNCHANGED <<busy, sessions>>
       ELSE Leave(w, FALSE)
  /\ UNCHANGED <<store, req, bodies>>

\* Mutant: the limit that the lookup has checked is not checked again.
MayConsumeExhausted(s) == ~Dead(s) /\ Available(Target[s])

\* ConsumeShare looks at the share and at its target once more.
MayConsume(s) == ~Dead(s) /\ ~Exhausted(s) /\ Available(Target[s])

ConsumeShare(w) ==
  /\ At(w, "consume")
  /\ MayConsume(Share(w))
  /\ MaxAccess[Share(w)] = 0 => uses[Share(w)] < MaxUses
  /\ uses' = [uses EXCEPT ![Share(w)] = @ + 1]
  /\ req' = [req EXCEPT ![w].paid = TRUE]
  /\ Goto(w, "read")
  /\ UNCHANGED <<object, outdated, late, link, revoked, expired, reads, sessions, busy, bodies>>

\* Mutant: the cookie is set before the access is known to be granted.
ConsumeRefusedWithCookie(w) ==
  /\ At(w, "consume")
  /\ ~MayConsume(Share(w)) \/ "store_write" \in Faults
  /\ Leave(w, TRUE)
  /\ UNCHANGED <<store, req, bodies>>

ConsumeRefused(w) ==
  /\ At(w, "consume")
  /\ ~MayConsume(Share(w)) \/ "store_write" \in Faults
  /\ Leave(w, FALSE)
  /\ UNCHANGED <<store, req, bodies>>

\* Only a new session counts as a read of the note.
ReadTarget(w) ==
  LET o == Target[Share(w)]
  IN  /\ At(w, "read") /\ Available(o)
      /\ IF o \in Notes /\ req[w].paid
           THEN CountRead(o)
           ELSE UNCHANGED <<reads, object, revoked>>
      /\ IF o \in Files
           THEN Goto(w, "open") /\ UNCHANGED <<busy, sessions, bodies>>
           ELSE Leave(w, req[w].paid) /\ Answer(w)
      /\ UNCHANGED <<outdated, late, link, expired, uses, req>>

\* 404 after the access was consumed; the cookie is sent all the same.
ReadFails(w) ==
  LET o == Target[Share(w)]
  IN  /\ At(w, "read")
      /\ ~Available(o) \/ ("store_write" \in Faults /\ o \in Notes /\ req[w].paid /\ ReadLimit[o] > 0)
      /\ Leave(w, req[w].paid)
      /\ UNCHANGED <<store, req, bodies>>

OpenFile(w) ==
  /\ At(w, "open")
  /\ IF object[Target[Share(w)]] # "gone" THEN Answer(w) ELSE UNCHANGED bodies
  /\ Leave(w, req[w].paid)
  /\ UNCHANGED <<store, req>>

-----------------------------------------------------------------------------
(* Time and restarts.                                                      *)

ShareExpires(s) ==
  /\ link[s] = "there" /\ s \notin expired
  /\ expired' = expired \union {s}
  /\ sessions' = {t \in sessions : t[2] # s}
  /\ UNCHANGED <<object, outdated, late, link, revoked, uses, reads, busy, pc, req, bodies>>

ObjectExpires(o) ==
  /\ o \notin Pads /\ o \notin outdated /\ object[o] # "gone"
  /\ outdated' = outdated \union {o}
  /\ UNCHANGED <<object, link, late, revoked, expired, uses, reads, handlers>>

SessionExpires(t) ==
  /\ t \in sessions
  /\ sessions' = sessions \ {t}
  /\ UNCHANGED <<store, busy, pc, req, bodies>>

\* The key that signs the cookies and the counters of requests are new.
Restart ==
  /\ "restart" \in Faults
  /\ sessions' = {}
  /\ busy' = [t \in Tickets |-> 0]
  /\ pc' = [w \in Workers |-> "idle"]
  /\ UNCHANGED <<store, req, bodies>>

ServeStep(w) ==
  \/ LookupShare(w) \/ LookupStatus(w) \/ ValidateTarget(w)
  \/ ConsumeShare(w) \/ ConsumeRefused(w)
  \/ ReadTarget(w) \/ ReadFails(w) \/ OpenFile(w)

Owner ==
  \/ \E w \in Workers, s \in Shares : CreateCheck(w, s)
  \/ \E w \in Workers : CreateShare(w) \/ CreateFails(w)
  \/ \E s \in Shares : RevokeShare(s)
  \/ \E o \in Objects : Trash(o) \/ RestoreTrash(o) \/ PurgeTrash(o)
  \/ \E S \in SUBSET Objects, old \in SUBSET Shares : PurgeMany(S, old)
  \/ \E n \in Notes : OwnerReads(n)

Visitor ==
  \/ \E w \in Workers, c \in Clients, s \in Shares, head, known \in BOOLEAN :
       EnterShare(w, c, s, head, known)
  \/ \E w \in Workers : ServeStep(w)

Environment ==
  \/ \E s \in Shares : ShareExpires(s)
  \/ \E o \in Objects : ObjectExpires(o)
  \/ \E t \in Tickets : SessionExpires(t)
  \/ Restart

Next == Owner \/ Visitor \/ Environment

Spec == Init /\ [][Next]_vars
-----------------------------------------------------------------------------
(* Properties.                                                             *)

\* A limited share is opened by no more browsers than it allows, ever: through
\* concurrent first visits, refreshes and restarts.
AudienceBounded ==
  \A s \in Shares : MaxAccess[s] > 0 =>
    Cardinality({b.client : b \in {x \in bodies : x.share = s}}) <= MaxAccess[s]

\* A request that comes in after its share was revoked, deleted or had expired,
\* or its object was removed for good, is sent nothing, whatever session it shows:
\* nor from a link that was inserted after its object had gone.
DeadNeverServed == \A b \in bodies : ~b.dead

\* The reads of a note that are counted, those of its owner and the first ones
\* of new sessions through any of its shares together, are no more than it
\* allows; the one that exhausts it removes it and revokes every share it had
\* (ReadNote, commitRestrictedReadLocked).  A share whose creation had looked the
\* note up before is inserted late and stays.  Further requests of a session, the
\* manage and the raw view of the owner show the note while it is there and are not
\* counted by the code.
ReadLimitHolds ==
  \A n \in Notes : ReadLimit[n] > 0 =>
    /\ reads[n] <= ReadLimit[n]
    /\ reads[n] = ReadLimit[n] =>
         /\ object[n] = "gone"
         /\ SharesOf({n}) \subseteq revoked \union late

\* Every cookie was paid for with an access of its own: those that browsers hold
\* and those under way are no more than access_count, which stays in its limit,
\* through refused and failed accesses, refreshes and restarts.
SessionsPaid ==
  \A s \in Shares :
    /\ Cardinality({t \in sessions : t[2] = s})
         + Cardinality({w \in Workers : pc[w] \in Serving /\ Share(w) = s /\ req[w].paid})
         <= uses[s]
    /\ MaxAccess[s] > 0 => uses[s] <= MaxAccess[s]

\* shareIP counts the requests in progress, never more than it allows, and is
\* empty again when all have left, whichever way they left.
BusyExact ==
  \A t \in Tickets :
    /\ busy[t] = Cardinality({w \in Workers : pc[w] \in Serving /\ Ticket(w) = t})
    /\ busy[t] <= MaxParallel
=============================================================================
