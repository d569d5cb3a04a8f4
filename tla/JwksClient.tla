------------------------------ MODULE JwksClient ------------------------------
(***************************************************************************)
(* KeycloakJwksClient: concurrent get_key() calls on one event loop over a *)
(* cached key snapshot, with a single-flight refresh behind a FIFO lock.   *)
(* A step is what runs between two awaits (a free lock is taken without    *)
(* one; the model also lets others run there).  The cryptographic content  *)
(* of a key is abstracted: a raw key has a kid, the algorithms it may be   *)
(* used with, and whether _parse_key accepts it.                           *)
(***************************************************************************)
EXTENDS Integers, Sequences, FiniteSets

CONSTANTS
  Tasks,        \* concurrent callers of get_key
  Kids, Algs,   \* key ids and (allowed) algorithms tokens ask for
  Documents,    \* JWKS documents the server may return: sequences of raw keys
  MaxKeys,      \* max_jwks_keys
  CacheTtl,     \* jwks_cache_ttl
  Cooldown,     \* jwks_refresh_cooldown
  MaxTime,      \* bound: the clock
  MaxCloses     \* bound: calls of close()

RawKey == [kid : Kids, algs : SUBSET Algs, usable : BOOLEAN]

ASSUME JwksAssumption ==
  /\ Documents \subseteq Seq(RawKey)
  /\ {MaxKeys, CacheTtl, Cooldown} \subseteq Nat \ {0}
  /\ MaxTime \in Nat /\ MaxCloses \in Nat

VARIABLES
  now,           \* time.monotonic()
  keys,          \* _keys: the accepted raw keys of one document
  loadedAt,      \* _loaded_at
  retryAfter,    \* _retry_after           (0 for -infinity: never in the future)
  unknownAfter,  \* _unknown_kid_refresh_after   (same)
  queue,         \* _refresh_lock: its holder, then its waiters
  pc,            \* pc[t]: "idle", "waiting" for the lock, "fetching"
  asked,         \* asked[t]: kid and algorithm of the current or last call
  result,        \* result[t]: how the last call of t ended
  session,       \* generation of the shared HTTP session, 0 when there is none
  sessions,      \* generations created so far
  using,         \* using[t]: the session of t's fetch
  fetchedAt      \* when the last fetch started, -Cooldown at first (history)

cache == <<keys, loadedAt, retryAfter, unknownAfter, fetchedAt>>
http  == <<session, sessions, using>>
vars  == <<now, cache, queue, pc, asked, result, http>>

Request == [kid : Kids, alg : Algs]

Init ==
  /\ now = 0
  /\ keys = {} /\ loadedAt = 0 /\ retryAfter = 0 /\ unknownAfter = 0
  /\ fetchedAt = -Cooldown
  /\ queue = <<>>
  /\ pc = [t \in Tasks |-> "idle"]
  /\ asked \in [Tasks -> {CHOOSE r \in Request : TRUE}]
  /\ result = [t \in Tasks |-> "none"]
  /\ session = 0 /\ sessions = 0
  /\ using = [t \in Tasks |-> 0]

Tick == /\ now < MaxTime
        /\ now' = now + 1
        /\ UNCHANGED <<cache, queue, pc, asked, result, http>>

------------------------------------------------------------------------------
(* Pure parts *)

Accepted(doc) == {i \in DOMAIN doc : doc[i].usable}

\* _parse_jwks raises for too many keys, a duplicate kid or no usable key.
ValidDocument(doc) ==
  /\ Len(doc) <= MaxKeys
  /\ Accepted(doc) # {}
  /\ \A i, j \in Accepted(doc) : doc[i].kid = doc[j].kid => i = j

ParseJwks(doc) == {doc[i] : i \in Accepted(doc)}

Has(snapshot, kid) == \E k \in snapshot : k.kid = kid

\* _select_algorithm
Select(snapshot, r) ==
  IF \E k \in snapshot : k.kid = r.kid /\ r.alg \in k.algs
  THEN "key" ELSE "wrong algorithm"

\* _is_fresh is a coroutine function and get_key calls it without await: what
\* get_key tests is a coroutine object, which is true whatever the cache holds.
Fresh == TRUE

------------------------------------------------------------------------------
(* get_key *)

\* A task gives up its place in the queue of the lock.
Leave(q, t) ==
  IF \E i \in DOMAIN q : q[i] = t
  THEN LET i == CHOOSE i \in DOMAIN q : q[i] = t
       IN  SubSeq(q, 1, i - 1) \o SubSeq(q, i + 1, Len(q))
  ELSE q

\* The call returns or raises; it leaves the lock if it was in its queue, and the
\* session if it was fetching.
Finish(t, res) ==
  /\ pc' = [pc EXCEPT ![t] = "idle"]
  /\ result' = [result EXCEPT ![t] = res]
  /\ queue' = Leave(queue, t)
  /\ using' = [using EXCEPT ![t] = 0]

\* Cached key: answered without the lock.
CallHit(t, r) ==
  /\ pc[t] = "idle"
  /\ Fresh /\ Has(keys, r.kid)
  /\ asked' = [asked EXCEPT ![t] = r]
  /\ Finish(t, Select(keys, r))
  /\ UNCHANGED <<now, cache, session, sessions>>

CallMiss(t, r) ==
  /\ pc[t] = "idle"
  /\ ~(Fresh /\ Has(keys, r.kid))
  /\ asked' = [asked EXCEPT ![t] = r]
  /\ pc' = [pc EXCEPT ![t] = "waiting"]
  /\ queue' = Append(queue, t)
  /\ UNCHANGED <<now, cache, result, http>>

HasLock(t) == pc[t] = "waiting" /\ queue[1] = t

\* Mutant: no second look at the cache under the lock.
NoRecheck(t) == FALSE

Recheck(t) == Fresh /\ Has(keys, asked[t].kid)

\* Another task refreshed the snapshot while this one waited.
LockedHit(t) ==
  /\ HasLock(t)
  /\ Recheck(t)
  /\ Finish(t, Select(keys, asked[t]))
  /\ UNCHANGED <<now, cache, asked, session, sessions>>

LockedRefused(t) ==
  /\ HasLock(t)
  /\ ~Recheck(t)
  /\ \/ now < retryAfter /\ Finish(t, "unavailable")
     \/ now >= retryAfter /\ Fresh /\ now < unknownAfter /\ Finish(t, "unknown")
  /\ UNCHANGED <<now, cache, asked, session, sessions>>

\* _get_session, under its own lock, which is never held across another await.
GetSession(t) ==
  /\ session' = IF session = 0 THEN sessions + 1 ELSE session
  /\ sessions' = IF session = 0 THEN sessions + 1 ELSE sessions
  /\ using' = [using EXCEPT ![t] = session']

\* Mutant: the cooldown of unknown kids starts only when the fetch succeeds.
StartFetchUncooled(t) ==
  /\ HasLock(t)
  /\ ~Recheck(t)
  /\ now >= retryAfter
  /\ Fresh => now >= unknownAfter
  /\ pc' = [pc EXCEPT ![t] = "fetching"]
  /\ fetchedAt' = now
  /\ GetSession(t)
  /\ UNCHANGED <<now, keys, loadedAt, retryAfter, unknownAfter, queue, asked, result>>

StartFetch(t) ==
  /\ HasLock(t)
  /\ ~Recheck(t)
  /\ now >= retryAfter
  /\ Fresh => now >= unknownAfter
  /\ unknownAfter' = IF Fresh THEN now + Cooldown ELSE unknownAfter
  /\ pc' = [pc EXCEPT ![t] = "fetching"]
  /\ fetchedAt' = now
  /\ GetSession(t)
  /\ UNCHANGED <<now, keys, loadedAt, retryAfter, queue, asked, result>>

\* Bad status, too large, not JSON, network error, timeout, closed session.
FetchUnavailable(t) ==
  /\ pc[t] = "fetching"
  /\ retryAfter' = now + Cooldown
  /\ Finish(t, "unavailable")
  /\ UNCHANGED <<now, keys, loadedAt, unknownAfter, fetchedAt, asked, session, sessions>>

\* _parse_jwks raises ValueError, which get_key does not catch.
FetchInvalid(t) ==
  /\ pc[t] = "fetching"
  /\ \E doc \in Documents : ~ValidDocument(doc)
  /\ Finish(t, "error")
  /\ UNCHANGED <<now, cache, asked, session, sessions>>

FetchOk(t) ==
  /\ pc[t] = "fetching"
  /\ \E doc \in Documents :
       /\ ValidDocument(doc)
       /\ keys' = ParseJwks(doc)
       /\ IF Has(ParseJwks(doc), asked[t].kid)
          THEN /\ Finish(t, Select(ParseJwks(doc), asked[t]))
               /\ UNCHANGED unknownAfter
          ELSE /\ Finish(t, "unknown")
               /\ unknownAfter' = now + Cooldown
  /\ loadedAt' = now
  /\ retryAfter' = 0
  /\ UNCHANGED <<now, fetchedAt, asked, session, sessions>>

\* Mutant: a cancelled fetch does not release the lock.
CancelKeepsLock(t) ==
  /\ pc[t] # "idle"
  /\ pc' = [pc EXCEPT ![t] = "idle"]
  /\ result' = [result EXCEPT ![t] = "cancelled"]
  /\ queue' = IF pc[t] = "fetching" THEN queue ELSE Leave(queue, t)
  /\ UNCHANGED <<now, cache, asked, http>>

\* The caller is cancelled (a request times out, a client disconnects).
Cancel(t) ==
  /\ pc[t] # "idle"
  /\ Finish(t, "cancelled")
  /\ UNCHANGED <<now, cache, asked, session, sessions>>

\* close() detaches the shared session and closes it.
Close ==
  /\ session # 0
  /\ sessions <= MaxCloses
  /\ session' = 0
  /\ UNCHANGED <<now, cache, queue, pc, asked, result, sessions, using>>

Locked(t) == LockedHit(t) \/ LockedRefused(t) \/ StartFetch(t)
Fetched(t) == FetchUnavailable(t) \/ FetchInvalid(t) \/ FetchOk(t)

Next ==
  \/ Tick
  \/ Close
  \/ \E t \in Tasks :
       \/ \E r \in Request : CallHit(t, r) \/ CallMiss(t, r)
       \/ Locked(t) \/ Fetched(t) \/ Cancel(t)

Spec == Init /\ [][Next]_vars

\* The event loop runs the task that owns the lock, and a fetch ends: the session
\* has a total timeout.
FairSpec == Spec /\ \A t \in Tasks : WF_vars(Locked(t)) /\ WF_vars(Fetched(t))

------------------------------------------------------------------------------
(* Properties *)

\* jwks_refresh_cooldown is the least time between two fetches, whatever mix of
\* unknown kids, failures, unusable documents and cancelled callers there is.
FetchesAreSpaced ==
  [][(\E t \in Tasks : pc[t] # "fetching" /\ pc'[t] = "fetching") =>
        now - fetchedAt >= Cooldown]_vars

\* The purpose of the second look under the lock: whoever is refused, after however
\* many waits, failures and refreshes by others, is refused a key that the snapshot
\* does not have at that moment.
RefusedIsAbsent ==
  [][\A t \in Tasks :
        (pc[t] # "idle" /\ pc'[t] = "idle" /\ result'[t] \in {"unknown", "unavailable", "error"})
          => ~Has(keys', asked[t].kid)]_vars

\* Every call ends: the refresh lock is handed on after a result, an error or a
\* cancellation.
EveryCallEnds == \A t \in Tasks : pc[t] = "waiting" ~> pc[t] = "idle"

\* "Monotonic cache TTL": a key is only returned from a snapshot loaded less than
\* jwks_cache_ttl ago.
KeysAreFresh ==
  [][\A t \in Tasks :
        (LockedHit(t) \/ \E r \in Request : CallHit(t, r)) =>
           now - loadedAt < CacheTtl]_vars

\* close() lets active requests finish first.
CloseWaitsForRequests ==
  [][(session # 0 /\ session' = 0) =>
        \A t \in Tasks : pc[t] = "fetching" => using[t] # session]_vars
==============================================================================
