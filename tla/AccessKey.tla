----------------------------- MODULE AccessKey -----------------------------
(***************************************************************************)
(* The access key, the cache of verified keys and the first-run token.     *)
(*                                                                         *)
(* A request is let in after HasAccessKey and either initTokenValid or     *)
(* VerifyAccessKey.  Each of them takes and gives back m.mu or cacheMu by  *)
(* itself, and the derivation of the key (pbkdf2) runs under neither, so   *)
(* the key may be replaced at every step of a check.  Update holds m.mu    *)
(* from its candidate to the cleared cache: readers of the configuration   *)
(* see the new key only after the cache is empty, but a check that has     *)
(* read the old one goes on.                                               *)
(*                                                                         *)
(* Only a key that has been verified enters the cache, so the 128 entries  *)
(* it may have are never reached; expired entries count as absent.         *)
(***************************************************************************)
EXTENDS Naturals

CONSTANTS
  Keys,     \* secrets
  NoKey,    \* the configuration without an access key
  Token,    \* a request with the init token and no key
  Bare,     \* a request with neither
  Workers,  \* requests at the same time
  TTL       \* life of a cache entry, two minutes in the code

Values == Keys \union {NoKey}
Shown  == Keys \union {Token, Bare}

VARIABLES
  current,  \* the access key
  token,    \* s.initToken is set
  mu,       \* Update has published and still holds m.mu
  cache,    \* the time every key still has in authCache, 0: absent
  pc,       \* what each request does next
  req,      \* what it knows
  late,     \* history: keys that were replaced while a check of them ran
  since     \* history: time since a key was replaced or last looked up as the
            \* current one, up to TTL

vars == <<current, token, mu, cache, pc, req, late, since>>

\* shown: the credential; read: the key in its copy of the configuration; age:
\* time since it has taken `now`, up to TTL; new: the key its Update sets, Token
\* stands for "__KEEP__"; seen: history, the keys in force during its check.
Request == [shown : Shown, read : Values, age : 0..TTL, new : Values \union {Token},
            seen : SUBSET Values]
NoRequest == [shown |-> Bare, read |-> NoKey, age |-> 0, new |-> NoKey, seen |-> {}]

Checking == {"has", "token", "read", "lookup", "derive"}
Steps    == {"idle", "in", "update", "clear", "finish"} \union Checking

TypeOK ==
  /\ current \in Values
  /\ token \in BOOLEAN
  /\ mu \in BOOLEAN
  /\ cache \in [Keys -> 0..TTL]
  /\ pc \in [Workers -> Steps]
  /\ req \in [Workers -> Request]
  /\ late \subseteq Keys
  /\ since \in [Keys -> 0..TTL]

\* NewServer: ensureInitToken has run, no request yet.
Init ==
  /\ current \in Values
  /\ token = (current = NoKey)
  /\ mu = FALSE
  /\ cache = [k \in Keys |-> 0]
  /\ pc = [w \in Workers |-> "idle"]
  /\ req = [w \in Workers |-> NoRequest]
  /\ late = {}
  /\ since = [k \in Keys |-> 0]

At(w, step)   == pc[w] = step
Goto(w, step) == pc' = [pc EXCEPT ![w] = step]

\* 401, 403 or the end of the handler.
Return(w) == Goto(w, "idle") /\ req' = [req EXCEPT ![w] = NoRequest]

\* The handler behind the check runs; only what was shown matters to it.
LetIn(w) ==
  /\ Goto(w, "in")
  /\ req' = [req EXCEPT ![w].read = NoKey, ![w].age = 0]

-----------------------------------------------------------------------------
(* authorized.                                                             *)

Arrive(w, c) ==
  /\ At(w, "idle")
  /\ req' = [req EXCEPT ![w].shown = c, ![w].seen = {current}]
  /\ Goto(w, "has")
  /\ UNCHANGED <<current, token, mu, cache, late, since>>

\* Mutant: VerifyAccessKey alone decides.
HasKeyAssumed(w) ==
  /\ At(w, "has") /\ ~mu
  /\ Goto(w, "read")
  /\ UNCHANGED <<current, token, mu, cache, req, late, since>>

HasKey(w) ==
  /\ At(w, "has") /\ ~mu
  /\ Goto(w, IF current = NoKey THEN "token" ELSE "read")
  /\ UNCHANGED <<current, token, mu, cache, req, late, since>>

\* initTokenValid reads the token without a lock.
CheckToken(w) ==
  /\ At(w, "token")
  /\ IF req[w].shown = Token /\ token THEN LetIn(w) ELSE Return(w)
  /\ UNCHANGED <<current, token, mu, cache, late, since>>

\* VerifyAccessKey copies the configuration; without a key an empty header is right.
ReadKey(w) ==
  /\ At(w, "read") /\ ~mu
  /\ IF current # NoKey
       THEN Goto(w, "lookup") /\ req' = [req EXCEPT ![w].read = current]
       ELSE IF req[w].shown \in Keys THEN Return(w) ELSE LetIn(w)
  /\ UNCHANGED <<current, token, mu, cache, late, since>>

\* Request w may still put key k into the cache.
CheckOf(w, k) ==
  pc[w] \in {"lookup", "derive"} /\ req[w].read = k /\ req[w].shown = k

Cached(c) == c \in Keys /\ cache[c] > 0

LookUp(w) ==
  /\ At(w, "lookup")
  /\ IF Cached(req[w].shown) THEN LetIn(w)
     ELSE Goto(w, "derive") /\ UNCHANGED req
  /\ since' = [k \in Keys |-> IF CheckOf(w, k) THEN 0 ELSE since[k]]
  /\ UNCHANGED <<current, token, mu, late>>

\* Mutant: an entry that is used lives on.
LookupRenews(w) ==
  /\ LookUp(w)
  /\ cache' = [k \in Keys |-> IF k = req[w].shown /\ cache[k] > 0 THEN TTL ELSE cache[k]]

Lookup(w) == LookUp(w) /\ UNCHANGED cache

\* The entry expires TTL after `now`, which was taken before the derivation.
Derive(w) ==
  /\ At(w, "derive")
  /\ IF req[w].shown = req[w].read
       THEN LetIn(w) /\ cache' = [cache EXCEPT ![req[w].shown] = TTL - req[w].age]
       ELSE Return(w) /\ UNCHANGED cache
  /\ UNCHANGED <<current, token, mu, late, since>>

Leave(w) ==
  /\ At(w, "in")
  /\ Return(w)
  /\ UNCHANGED <<current, token, mu, cache, late, since>>

-----------------------------------------------------------------------------
(* updateConfig, and restore, which sets the key of its package.           *)

\* Before there is a key, the token is asked for once more.
Propose(w, k) ==
  /\ At(w, "in") /\ ~mu
  /\ current # NoKey \/ (req[w].shown = Token /\ token)
  /\ req' = [req EXCEPT ![w] = [NoRequest EXCEPT !.new = k]]
  /\ Goto(w, "update")
  /\ UNCHANGED <<current, token, mu, cache, late, since>>

\* Update validates, saves and publishes.
Publish(w) ==
  /\ At(w, "update") /\ ~mu
  /\ mu' = TRUE
  /\ current' = IF req[w].new = Token THEN current ELSE req[w].new
  /\ req' = [v \in Workers |->
       IF v = w THEN NoRequest
       ELSE IF pc[v] \in Checking THEN [req[v] EXCEPT !.seen = @ \union {current'}]
       ELSE req[v]]
  /\ late' = late \union {k \in Keys \ {current'} : \E v \in Workers : CheckOf(v, k)}
  /\ since' = [k \in Keys |-> IF k \in {current, current'} THEN 0 ELSE since[k]]
  /\ Goto(w, "clear")
  /\ UNCHANGED <<token, cache>>

PublishFails(w) ==
  /\ At(w, "update") /\ ~mu
  /\ Return(w)
  /\ UNCHANGED <<current, token, mu, cache, late, since>>

\* clearAuthCache; then m.mu is given back.  A restore ends here.
ClearCache(w) ==
  /\ At(w, "clear")
  /\ cache' = [k \in Keys |-> 0]
  /\ mu' = FALSE
  /\ Goto(w, "finish") \/ Goto(w, "idle")
  /\ UNCHANGED <<current, token, req, late, since>>

FinishInitialization(w) ==
  /\ At(w, "finish") /\ ~mu
  /\ token' = (token /\ current = NoKey)
  /\ Return(w)
  /\ UNCHANGED <<current, mu, cache, late, since>>

-----------------------------------------------------------------------------
(* Time and restarts.                                                      *)

Tick ==
  /\ cache' = [k \in Keys |-> IF cache[k] > 0 THEN cache[k] - 1 ELSE 0]
  /\ req' = [w \in Workers |-> IF At(w, "derive") /\ req[w].age < TTL
                                 THEN [req[w] EXCEPT !.age = @ + 1] ELSE req[w]]
  /\ since' = [k \in Keys |-> IF k # current /\ since[k] < TTL THEN since[k] + 1 ELSE since[k]]
  /\ UNCHANGED <<current, token, mu, pc, late>>

Restart ==
  /\ token' = (current = NoKey)
  /\ mu' = FALSE
  /\ cache' = [k \in Keys |-> 0]
  /\ pc' = [w \in Workers |-> "idle"]
  /\ req' = [w \in Workers |-> NoRequest]
  /\ late' = {}
  /\ since' = [k \in Keys |-> 0]
  /\ UNCHANGED current

Check(w)  == HasKey(w) \/ CheckToken(w) \/ ReadKey(w) \/ Lookup(w) \/ Derive(w)
Update(w) == Publish(w) \/ PublishFails(w) \/ ClearCache(w) \/ FinishInitialization(w)

Next ==
  \/ \E w \in Workers, c \in Shown : Arrive(w, c)
  \/ \E w \in Workers : Check(w) \/ Leave(w)
  \/ \E w \in Workers, k \in Values \union {Token} : Propose(w, k)
  \/ \E w \in Workers : Update(w)
  \/ Tick
  \/ Restart

Spec == Init /\ [][Next]_vars
-----------------------------------------------------------------------------
(* Properties.                                                             *)

\* Every request that is let in has a reason that held during its check.  A key
\* was in force, or was replaced while another check of it was under way; the
\* token came while there was no key; a request without anything slips in only
\* when the key is removed, or set, between HasAccessKey and VerifyAccessKey.
AdmittedForReason ==
  \A w \in Workers : pc[w] = "in" =>
    /\ req[w].shown \in Keys => req[w].shown \in req[w].seen \union late
    /\ req[w].shown = Token => NoKey \in req[w].seen
    /\ req[w].shown = Bare => NoKey \in req[w].seen /\ req[w].seen # {NoKey}

\* A replaced key leaves the cache no later than TTL after the last check that
\* could take it for the current one has looked it up.
StaleKeyBounded ==
  \A k \in Keys : k # current /\ cache[k] > 0 => cache[k] + since[k] <= TTL
=============================================================================
