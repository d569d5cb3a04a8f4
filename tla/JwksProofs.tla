------------------------------ MODULE JwksProofs ------------------------------
(***************************************************************************)
(* Proofs about JwksClient and TokenVerifier, for any number of callers,   *)
(* tokens and documents, and any cooldown and bounds.                      *)
(***************************************************************************)
EXTENDS TokenVerifier, TLAPS

(* Since the last fetch began the cooldown of unknown keys was set, and no    *)
(* later action moved it back.                                                *)
Cooled ==
  /\ now \in Int /\ fetchedAt \in Int /\ unknownAfter \in Int
  /\ pc \in [Tasks -> {"idle", "waiting", "fetching"}]
  /\ fetchedAt <= now
  /\ fetchedAt + Cooldown <= unknownAfter

LEMMA CooldownType == Cooldown \in Nat /\ Cooldown > 0
BY JwksAssumption

LEMMA InitCooled == Init => Cooled
<1>1. SUFFICES ASSUME Init PROVE Cooled
  OBVIOUS
<1>2. pc \in [Tasks -> {"idle", "waiting", "fetching"}]
  BY <1>1 DEF Init
<1> QED
  BY <1>1, <1>2, CooldownType DEF Init, Cooled

(* Only StartFetch moves fetchedAt, and it moves unknownAfter with it.        *)
LEMMA StepCooled == Cooled /\ [Next]_vars => Cooled'
<1> SUFFICES ASSUME Cooled, [Next]_vars PROVE Cooled'
  OBVIOUS
<1> USE CooldownType
<1>1. CASE Tick
  BY <1>1 DEF Tick, Cooled, cache
<1>2. CASE Close
  BY <1>2 DEF Close, Cooled, cache
<1>3. ASSUME NEW t \in Tasks, NEW r \in Request, CallHit(t, r) \/ CallMiss(t, r)
      PROVE  Cooled'
  BY <1>3 DEF CallHit, CallMiss, Finish, Cooled, cache
<1>4. ASSUME NEW t \in Tasks, LockedHit(t) \/ LockedRefused(t) \/ Cancel(t)
      PROVE  Cooled'
  BY <1>4 DEF LockedHit, LockedRefused, Cancel, Finish, Cooled, cache
<1>5. ASSUME NEW t \in Tasks, StartFetch(t) PROVE Cooled'
  BY <1>5 DEF StartFetch, Fresh, Cooled
<1>6. ASSUME NEW t \in Tasks, FetchUnavailable(t) \/ FetchInvalid(t) PROVE Cooled'
  BY <1>6 DEF FetchUnavailable, FetchInvalid, Finish, Cooled, cache
<1>7. ASSUME NEW t \in Tasks, FetchOk(t) PROVE Cooled'
  <2>1. unknownAfter' = unknownAfter \/ unknownAfter' = now + Cooldown
    BY <1>7 DEF FetchOk
  <2>2. pc' = [pc EXCEPT ![t] = "idle"]
    BY <1>7 DEF FetchOk, Finish
  <2> QED
    BY <1>7, <2>1, <2>2 DEF FetchOk, Cooled
<1>8. CASE UNCHANGED vars
  BY <1>8 DEF vars, Cooled, cache
<1> QED
  BY <1>1, <1>2, <1>3, <1>4, <1>5, <1>6, <1>7, <1>8 DEF Next, Locked, Fetched

(* Whoever begins a fetch has taken the step StartFetch, which looks at the   *)
(* cooldown of unknown keys: get_key's test of freshness is always true.      *)
LEMMA StepSpaced ==
  ASSUME Cooled, [Next]_vars
  PROVE  (\E t \in Tasks : pc[t] # "fetching" /\ pc'[t] = "fetching") =>
            now - fetchedAt >= Cooldown
<1> SUFFICES ASSUME NEW t \in Tasks, pc[t] # "fetching", pc'[t] = "fetching"
             PROVE  now - fetchedAt >= Cooldown
  OBVIOUS
<1>1. \A u \in Tasks : StartFetch(u) => now - fetchedAt >= Cooldown
  BY CooldownType DEF StartFetch, Fresh, Cooled
<1>2. \A u \in Tasks : ~(pc' = [pc EXCEPT ![u] = "idle"]) /\ ~(pc' = [pc EXCEPT ![u] = "waiting"])
  BY DEF Cooled
<1>3. pc' # pc
  OBVIOUS
<1>4. PICK u \in Tasks : StartFetch(u)
  BY <1>2, <1>3
     DEF Next, vars, Locked, Fetched, Tick, Close, CallHit, CallMiss, LockedHit,
         LockedRefused, FetchUnavailable, FetchInvalid, FetchOk, Cancel, Finish
<1> QED
  BY <1>1, <1>4

(* jwks_refresh_cooldown is the least time between two fetches of one client, *)
(* whatever callers, documents, failures and cancellations there are.         *)
THEOREM Spaced == Spec => FetchesAreSpaced
<1>1. Cooled /\ [Next]_vars =>
        [(\E t \in Tasks : pc[t] # "fetching" /\ pc'[t] = "fetching") =>
           now - fetchedAt >= Cooldown]_vars
  BY StepSpaced
<1> QED
  BY <1>1, InitCooled, StepCooled, PTL DEF Spec, FetchesAreSpaced

------------------------------------------------------------------------------
(* The lock and the snapshot under it. *)

Queued(q, t) == \E i \in DOMAIN q : q[i] = t

(* The task that fetches owns the lock, and the snapshot still lacks the key  *)
(* it fetches for: only the owner of the lock replaces the snapshot.          *)
Owned ==
  /\ queue \in Seq(Tasks)
  /\ pc \in [Tasks -> {"idle", "waiting", "fetching"}]
  /\ asked = [t \in Tasks |-> asked[t]]
  /\ result = [t \in Tasks |-> result[t]]
  /\ \A t \in Tasks :
        /\ pc[t] # "idle" => Queued(queue, t)
        /\ pc[t] = "fetching" => queue[1] = t /\ ~Has(keys, asked[t].kid)

(* Who leaves the queue takes nobody along, and from behind its head does not *)
(* move the head.                                                             *)
LEMMA HeadStays ==
  ASSUME NEW q \in Seq(Tasks), NEW t \in Tasks
  PROVE  /\ Leave(q, t) \in Seq(Tasks)
         /\ \A u \in Tasks \ {t} : Queued(q, u) => Queued(Leave(q, t), u)
         /\ q # <<>> /\ q[1] # t => Leave(q, t)[1] = q[1]
<1>1. CASE ~Queued(q, t)
  BY <1>1 DEF Leave, Queued
<1>2. CASE Queued(q, t)
  <2> DEFINE i == CHOOSE i \in DOMAIN q : q[i] = t
             front == SubSeq(q, 1, i - 1)
             back == SubSeq(q, i + 1, Len(q))
  <2>1. i \in 1 .. Len(q) /\ q[i] = t /\ Len(q) \in Nat
    BY <1>2 DEF Queued
  <2>2. Leave(q, t) = front \o back
    BY <1>2 DEF Leave, Queued
  <2> HIDE DEF i
  <2>3. /\ front \in Seq(Tasks) /\ Len(front) = i - 1
        /\ \A k \in 1 .. i - 1 : front[k] = q[k]
    BY <2>1
  <2>4. /\ back \in Seq(Tasks) /\ Len(back) = Len(q) - i
        /\ \A k \in 1 .. Len(q) - i : back[k] = q[k + i]
    BY <2>1
  <2> HIDE DEF front, back
  <2>5. /\ Leave(q, t) \in Seq(Tasks) /\ Len(Leave(q, t)) = Len(q) - 1
        /\ \A k \in 1 .. i - 1 : Leave(q, t)[k] = q[k]
        /\ \A k \in i .. Len(q) - 1 : Leave(q, t)[k] = q[k + 1]
    <3>1. (front \o back) \in Seq(Tasks) /\ Len(front \o back) = Len(front) + Len(back)
      <4>1. front \in Seq(Tasks) /\ back \in Seq(Tasks)
        BY <2>3, <2>4
      <4> QED
        BY <4>1
    <3>2. \A k \in 1 .. i - 1 : (front \o back)[k] = front[k]
      BY <2>1, <2>3, <2>4
    <3>3. \A k \in i .. Len(q) - 1 : (front \o back)[k] = back[k - i + 1]
      BY <2>1, <2>3, <2>4
    <3>4. \A k \in i .. Len(q) - 1 : back[k - i + 1] = q[k + 1]
      <4> TAKE k \in i .. Len(q) - 1
      <4>1. k - i + 1 \in 1 .. Len(q) - i /\ (k - i + 1) + i = k + 1
        BY <2>1
      <4> QED
        BY <2>4, <4>1
    <3>5. Len(front) + Len(back) = Len(q) - 1
      BY <2>1, <2>3, <2>4
    <3> QED
      BY <2>2, <2>3, <3>1, <3>2, <3>3, <3>4, <3>5
  <2>6. ASSUME NEW u \in Tasks \ {t}, Queued(q, u) PROVE Queued(Leave(q, t), u)
    <3>1. PICK k \in 1 .. Len(q) : q[k] = u
      BY <2>6 DEF Queued
    <3>2. CASE k < i
      BY <2>1, <2>5, <3>1, <3>2 DEF Queued
    <3>3. CASE k > i
      <4>1. k - 1 \in i .. Len(q) - 1 /\ Leave(q, t)[k - 1] = u
        BY <2>1, <2>5, <3>1, <3>3
      <4> QED
        BY <2>1, <2>5, <4>1 DEF Queued
    <3> QED
      BY <2>1, <3>1, <3>2, <3>3
  <2> QED
    BY <2>1, <2>5, <2>6
<1> QED
  BY <1>1, <1>2

LEMMA InitOwned == Init => Owned
BY DEF Init, Owned

(* A call that ends takes its task out of the queue and leaves the others.    *)
LEMMA FinishOwned ==
  ASSUME Owned, NEW t \in Tasks, NEW res, Finish(t, res),
         asked' = [u \in Tasks |-> asked'[u]],
         \A u \in Tasks \ {t} : asked'[u] = asked[u],
         keys' = keys \/ \A u \in Tasks \ {t} : pc[u] # "fetching"
  PROVE  Owned'
<1>1. /\ pc' = [pc EXCEPT ![t] = "idle"] /\ result' = [result EXCEPT ![t] = res]
      /\ queue' = Leave(queue, t)
  BY DEF Finish
<1>2. pc' \in [Tasks -> {"idle", "waiting", "fetching"}] /\ result' = [u \in Tasks |-> result'[u]]
  BY <1>1 DEF Owned
<1>3. queue' \in Seq(Tasks)
  BY <1>1, HeadStays DEF Owned
<1>4. ASSUME NEW u \in Tasks, pc'[u] # "idle"
      PROVE  /\ Queued(queue', u)
             /\ pc'[u] = "fetching" => queue'[1] = u /\ ~Has(keys', asked'[u].kid)
  <2>1. u # t /\ pc'[u] = pc[u]
    BY <1>1, <1>4 DEF Owned
  <2>2. Queued(queue', u)
    BY <1>1, <1>4, <2>1, HeadStays DEF Owned
  <2>3. ASSUME pc[u] = "fetching" PROVE queue'[1] = u
    <3>1. queue # <<>> /\ queue[1] = u
      BY <2>3 DEF Owned, Queued
    <3> QED
      BY <1>1, <2>1, <3>1, HeadStays DEF Owned
  <2>4. ASSUME pc[u] = "fetching" PROVE ~Has(keys', asked'[u].kid)
    BY <2>1, <2>4 DEF Owned
  <2> QED
    BY <2>1, <2>2, <2>3, <2>4
<1> QED
  BY <1>2, <1>3, <1>4 DEF Owned

LEMMA StepOwned == Owned /\ [Next]_vars => Owned'
<1> SUFFICES ASSUME Owned, [Next]_vars PROVE Owned'
  OBVIOUS
<1>1. CASE Tick \/ Close \/ UNCHANGED vars
  BY <1>1 DEF Tick, Close, vars, cache, Owned, Has
<1>2. ASSUME NEW t \in Tasks, NEW r \in Request, CallHit(t, r) PROVE Owned'
  <2>1. /\ Finish(t, Select(keys, r)) /\ asked' = [asked EXCEPT ![t] = r] /\ keys' = keys
    BY <1>2 DEF CallHit, cache
  <2>2. asked' = [u \in Tasks |-> asked'[u]] /\ \A u \in Tasks \ {t} : asked'[u] = asked[u]
    BY <2>1 DEF Owned
  <2> QED
    BY <2>1, <2>2, FinishOwned
<1>3. ASSUME NEW t \in Tasks, NEW r \in Request, CallMiss(t, r) PROVE Owned'
  <2>1. /\ pc' = [pc EXCEPT ![t] = "waiting"] /\ queue' = Append(queue, t)
        /\ asked' = [asked EXCEPT ![t] = r] /\ result' = result /\ keys' = keys
    BY <1>3 DEF CallMiss, cache
  <2>2. queue' \in Seq(Tasks) /\ Queued(queue', t)
    BY <2>1 DEF Owned, Queued
  <2>3. \A u \in Tasks : Queued(queue, u) => Queued(queue', u) /\ queue'[1] = queue[1]
    BY <2>1 DEF Owned, Queued
  <2>4. /\ asked' = [u \in Tasks |-> asked'[u]]
        /\ pc' \in [Tasks -> {"idle", "waiting", "fetching"}]
        /\ \A u \in Tasks \ {t} : pc'[u] = pc[u] /\ asked'[u] = asked[u]
        /\ pc'[t] = "waiting"
    BY <2>1 DEF Owned
  <2> QED
    BY <2>1, <2>2, <2>3, <2>4 DEF Owned
<1>4. ASSUME NEW t \in Tasks, LockedHit(t) \/ LockedRefused(t) \/ Cancel(t)
                                \/ FetchUnavailable(t) \/ FetchInvalid(t)
      PROVE  Owned'
  <2>1. (\E res : Finish(t, res)) /\ asked' = asked /\ keys' = keys
    BY <1>4 DEF LockedHit, LockedRefused, Cancel, FetchUnavailable, FetchInvalid, cache
  <2> QED
    BY <2>1, FinishOwned DEF Owned
<1>5. ASSUME NEW t \in Tasks, FetchOk(t) PROVE Owned'
  <2>1. (\E res : Finish(t, res)) /\ asked' = asked /\ pc[t] = "fetching"
    BY <1>5 DEF FetchOk
  <2>2. \A u \in Tasks \ {t} : pc[u] # "fetching"
    BY <2>1 DEF Owned
  <2> QED
    BY <2>1, <2>2, FinishOwned DEF Owned
<1>6. ASSUME NEW t \in Tasks, StartFetch(t) PROVE Owned'
  <2>1. /\ pc[t] = "waiting" /\ queue[1] = t /\ ~Has(keys, asked[t].kid)
        /\ pc' = [pc EXCEPT ![t] = "fetching"] /\ UNCHANGED <<queue, asked, result, keys>>
    BY <1>6 DEF StartFetch, HasLock, Recheck, Fresh
  <2> QED
    BY <2>1 DEF Owned
<1> QED
  BY <1>1, <1>2, <1>3, <1>4, <1>5, <1>6 DEF Next, Locked, Fetched

(* Whoever is refused, after however many waits, failures and refreshes by    *)
(* others, is refused a key that the snapshot does not have at that moment    *)
(* (RefusedIsAbsent): the second look under the lock is enough.               *)
THEOREM RefusedForAbsence == Spec => RefusedIsAbsent
<1> DEFINE
  Refused(t) == pc[t] # "idle" /\ pc'[t] = "idle"
                /\ result'[t] \in {"unknown", "unavailable", "error"}
<1>1. ASSUME Owned, [Next]_vars, NEW t \in Tasks, Refused(t)
      PROVE  ~Has(keys', asked[t].kid)
  <2>1. PICK u \in Tasks : LockedHit(u) \/ LockedRefused(u) \/ Fetched(u) \/ Cancel(u)
                           \/ \E r \in Request : CallHit(u, r)
    <3>1. pc' # pc
      BY <1>1
    <3>2. \A u \in Tasks : ~(pc' = [pc EXCEPT ![u] = "fetching"])
                           /\ ~(pc' = [pc EXCEPT ![u] = "waiting"])
      BY <1>1 DEF Owned
    <3> QED
      BY <1>1, <3>1, <3>2 DEF Next, Tick, Close, CallMiss, Locked, StartFetch, vars
  <2>2. u = t
    <3>1. pc' = [pc EXCEPT ![u] = "idle"]
      BY <2>1 DEF LockedHit, LockedRefused, Fetched, FetchUnavailable, FetchInvalid,
                  FetchOk, Cancel, CallHit, Finish
    <3> QED
      BY <1>1, <3>1 DEF Owned
  <2>3. \A res : Finish(t, res) => result'[t] = res
    BY <1>1 DEF Finish, Owned
  <2>4. CASE LockedRefused(t)
    BY <2>4 DEF LockedRefused, Recheck, Fresh, cache, Has
  <2>5. CASE FetchUnavailable(t) \/ FetchInvalid(t)
    BY <1>1, <2>5 DEF FetchUnavailable, FetchInvalid, cache, Owned, Has
  <2>6. CASE FetchOk(t)
    BY <1>1, <2>3, <2>6 DEF FetchOk, Select
  <2>7. CASE LockedHit(t) \/ Cancel(t)
    BY <1>1, <2>3, <2>7 DEF LockedHit, Cancel, Select
  <2>8. ~ \E r \in Request : CallHit(t, r)
    BY <1>1 DEF CallHit
  <2> QED
    BY <2>1, <2>2, <2>4, <2>5, <2>6, <2>7, <2>8 DEF Fetched
<1>2. Owned /\ [Next]_vars => [\A t \in Tasks : Refused(t) => ~Has(keys', asked[t].kid)]_vars
  BY <1>1
<1>3. Spec => [][\A t \in Tasks : Refused(t) => ~Has(keys', asked[t].kid)]_vars
  BY <1>2, InitOwned, StepOwned, PTL DEF Spec
<1> QED
  BY <1>3 DEF RefusedIsAbsent

------------------------------------------------------------------------------
(* Every step of verify() is a step of get_key() or leaves the client alone.  *)
LEMMA VerifierStep == [VerifierNext]_allVars => [Next]_vars
<1> SUFFICES ASSUME [VerifierNext]_allVars PROVE [Next]_vars
  OBVIOUS
<1>1. ASSUME NEW t \in Tasks, NEW tok \in Tokens, Verify(t, tok) PROVE Next
  <2>1. Header(tok) \in Request
    BY TokenAssumption DEF Header, Request, Token
  <2>2. CallHit(t, Header(tok)) \/ CallMiss(t, Header(tok))
    BY <1>1 DEF Verify
  <2> QED
    BY <2>1, <2>2 DEF Next
<1>2. ASSUME NEW t \in Tasks, VerifyGoesOn(t) PROVE Next
  BY <1>2 DEF VerifyGoesOn, Next, Locked
<1>3. ASSUME NEW t \in Tasks, VerifyMalformed(t) PROVE UNCHANGED vars
  BY <1>3 DEF VerifyMalformed
<1>4. CASE Tick \/ Close
  BY <1>4 DEF Next
<1>5. CASE UNCHANGED allVars
  BY <1>5 DEF allVars
<1> QED
  BY <1>1, <1>2, <1>3, <1>4, <1>5 DEF VerifierNext

(* The verifier uses the JWKS client as its specification allows, so that     *)
(* what holds for every user of the client holds for the verifier.            *)
THEOREM VerifierUsesClient == VerifierSpec => Spec
<1>1. VerifierInit => Init
  BY DEF VerifierInit
<1> QED
  BY <1>1, VerifierStep, PTL DEF VerifierSpec, Spec

(* The same distance between fetches, however many tokens are verified.       *)
THEOREM VerifierSpaced == VerifierSpec => FetchesAreSpaced
BY VerifierUsesClient, Spaced, PTL

(* A token is refused for want of a key only if the key is not there.         *)
THEOREM VerifierRefusedForAbsence == VerifierSpec => RefusedIsAbsent
BY VerifierUsesClient, RefusedForAbsence, PTL

------------------------------------------------------------------------------
(* A call that waits has no verdict yet, so that no old one is taken for it.  *)
Waits ==
  /\ now \in Int
  /\ pc \in [Tasks -> {"idle", "waiting", "fetching"}]
  /\ token \in [Tasks -> Token]
  /\ verdict \in [Tasks -> {"none", "accepted", "invalid"}]
  /\ \A t \in Tasks : pc[t] # "idle" => verdict[t] = "none"

LEMMA InitWaits == VerifierInit => Waits
<1>1. SUFFICES ASSUME VerifierInit PROVE Waits
  OBVIOUS
<1>2. (CHOOSE tok \in Tokens : TRUE) \in Token
  BY TokenAssumption
<1>3. /\ now \in Int
      /\ pc = [t \in Tasks |-> "idle"]
  BY <1>1 DEF VerifierInit, Init
<1> QED
  BY <1>1, <1>2, <1>3 DEF VerifierInit, Waits

(* What a step does to pc: it moves at most the task that takes it.           *)
LEMMA TaskStep ==
  ASSUME Waits, NEW t \in Tasks
  PROVE  /\ LockedHit(t) \/ LockedRefused(t) \/ Fetched(t) \/ Cancel(t) =>
              pc' = [pc EXCEPT ![t] = "idle"] /\ now' = now
         /\ StartFetch(t) => pc' = [pc EXCEPT ![t] = "fetching"] /\ now' = now /\ pc[t] # "idle"
         /\ \A r : CallHit(t, r) => pc' = [pc EXCEPT ![t] = "idle"] /\ now' = now /\ pc[t] = "idle"
         /\ \A r : CallMiss(t, r) => pc' = [pc EXCEPT ![t] = "waiting"] /\ now' = now
BY DEF LockedHit, LockedRefused, Fetched, Cancel, StartFetch, CallHit, CallMiss, HasLock,
       FetchUnavailable, FetchInvalid, FetchOk, Finish

LEMMA StepWaits == Waits /\ [VerifierNext]_allVars => Waits'
<1> SUFFICES ASSUME Waits, [VerifierNext]_allVars PROVE Waits'
  OBVIOUS
<1>1. ASSUME NEW t \in Tasks, NEW tok \in Tokens, Verify(t, tok) PROVE Waits'
  <2>1. tok \in Token
    BY TokenAssumption
  <2>2. CASE CallHit(t, Header(tok)) /\ Answered(t, tok)
    BY <1>1, <2>1, <2>2, TaskStep DEF Verify, Answered, Judge, Waits
  <2>3. CASE CallMiss(t, Header(tok)) /\ Judge(t, "none")
    BY <1>1, <2>1, <2>3, TaskStep DEF Verify, Judge, Waits
  <2> QED
    BY <1>1, <2>2, <2>3 DEF Verify
<1>2. ASSUME NEW t \in Tasks, VerifyGoesOn(t) PROVE Waits'
  <2>1. CASE (LockedHit(t) \/ LockedRefused(t) \/ Fetched(t)) /\ Answered(t, token[t])
    BY <1>2, <2>1, TaskStep DEF VerifyGoesOn, Answered, Judge, Waits
  <2>2. CASE (StartFetch(t) \/ Cancel(t)) /\ UNCHANGED verdict
    BY <1>2, <2>2, TaskStep DEF VerifyGoesOn, Waits
  <2> QED
    BY <1>2, <2>1, <2>2 DEF VerifyGoesOn
<1>3. ASSUME NEW t \in Tasks, VerifyMalformed(t) PROVE Waits'
  BY <1>3 DEF VerifyMalformed, Judge, vars, Waits
<1>4. CASE (Tick \/ Close) /\ UNCHANGED verifier
  BY <1>4 DEF Tick, Close, verifier, Waits
<1>5. CASE UNCHANGED allVars
  BY <1>5 DEF allVars, vars, verifier, Waits
<1> QED
  BY <1>1, <1>2, <1>3, <1>4, <1>5 DEF VerifierNext

(* The two judgements agree: PyJWT's two inequalities are the life of a token. *)
LEMMA DecodesMeans ==
  ASSUME Waits, NEW tok \in Token
  PROVE  LET good == tok.claimed /\ Lives(tok) /\ tok.signer \in keys' IN
           /\ Decodes(tok, keys') => good
           /\ good /\ tok.signer.kid = tok.kid => Decodes(tok, keys')
<1>1. tok.iat \in Int /\ tok.exp \in Int /\ ClockSkew \in Int /\ now \in Int
  BY TokenAssumption DEF Token, Waits
<1>2. Lives(tok) <=> tok.iat <= now + ClockSkew /\ tok.exp > now - ClockSkew
  BY <1>1 DEF Lives
<1> QED
  BY <1>2 DEF Decodes

(* A call that waited is judged by the moment it ends: it alone moves, and    *)
(* there is no await between the answer of get_key and the decision.          *)
THEOREM Judged == VerifierSpec => JudgedAtTheEnd
<1> DEFINE
  Just(t) == (pc[t] # "idle" /\ pc'[t] = "idle") =>
               LET tok  == token[t]
                   good == tok.claimed /\ Lives(tok) /\ tok.signer \in keys'
               IN  /\ verdict'[t] = "accepted" => good
                   /\ verdict'[t] = "invalid" => ~(good /\ tok.signer.kid = tok.kid)
<1>1. ASSUME Waits, [VerifierNext]_allVars, NEW t \in Tasks PROVE Just(t)
  <2> SUFFICES ASSUME pc[t] # "idle", pc'[t] = "idle"
               PROVE  /\ verdict'[t] = "accepted" =>
                           token[t].claimed /\ Lives(token[t]) /\ token[t].signer \in keys'
                      /\ verdict'[t] = "invalid" =>
                           ~( /\ token[t].claimed /\ Lives(token[t]) /\ token[t].signer \in keys'
                              /\ token[t].signer.kid = token[t].kid)
    OBVIOUS
  <2>1. ~(pc' = pc)
    OBVIOUS
  <2>2. \A u \in Tasks : (\E tok \in Tokens : Verify(u, tok)) => FALSE
    <3> SUFFICES ASSUME NEW u \in Tasks, NEW tok \in Tokens, Verify(u, tok) PROVE FALSE
      OBVIOUS
    <3>1. pc[u] = "idle" /\ \/ pc' = [pc EXCEPT ![u] = "idle"]
                            \/ pc' = [pc EXCEPT ![u] = "waiting"]
      <4>1. CASE CallHit(u, Header(tok))
        BY <1>1, <4>1, TaskStep
      <4>2. CASE CallMiss(u, Header(tok))
        <5>1. pc[u] = "idle"
          BY <4>2 DEF CallMiss
        <5> QED
          BY <1>1, <4>2, <5>1, TaskStep
      <4> QED
        BY <4>1, <4>2 DEF Verify
    <3> QED
      BY <1>1, <3>1 DEF Waits
  <2>3. PICK u \in Tasks : VerifyGoesOn(u)
    BY <1>1, <2>1, <2>2
       DEF VerifierNext, VerifyMalformed, Tick, Close, vars, allVars
  <2>4. u = t
    BY <1>1, <2>3, TaskStep DEF VerifyGoesOn, Waits
  <2>5. CASE Answered(t, token[t])
    <3>1. token[t] \in Token
      BY <1>1 DEF Waits
    <3>2. verdict'[t] = IF result'[t] = "key"
                        THEN IF Decodes(token[t], keys') THEN "accepted" ELSE "invalid"
                        ELSE "none"
      BY <1>1, <2>5 DEF Answered, Judge, Waits
    <3> QED
      BY <1>1, <3>1, <3>2, DecodesMeans
  <2>6. CASE UNCHANGED verdict
    BY <1>1, <2>6 DEF Waits
  <2> QED
    BY <2>3, <2>4, <2>5, <2>6 DEF VerifyGoesOn
<1>2. Waits /\ [VerifierNext]_allVars => [\A t \in Tasks : Just(t)]_allVars
  BY <1>1
<1>3. VerifierSpec => [][\A t \in Tasks : Just(t)]_allVars
  BY <1>2, InitWaits, StepWaits, PTL DEF VerifierSpec
<1> QED
  BY <1>3 DEF JudgedAtTheEnd
==============================================================================
