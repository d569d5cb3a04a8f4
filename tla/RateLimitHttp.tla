---------------------------- MODULE RateLimitHttp ----------------------------
(***************************************************************************)
(* RateLimitMiddleware and the rate_limit dependency: HTTP requests in     *)
(* front of RateLimiter.  A rule has one policy and, for one identity, one *)
(* key; both kinds of rule ask acquire() once and answer 429 if denied.    *)
(***************************************************************************)
EXTENDS RateLimiter

CONSTANTS
  SecondMs,    \* milliseconds in a second, the unit of Retry-After
  NoPromise    \* nobody is waiting for a Retry-After

ASSUME SecondAssumption ==
  /\ SecondMs \in Nat \ {0}
  /\ NoPromise \notin [cost : Costs, at : Nat]

VARIABLE
  promise      \* [cost, at] of the last 429: come back at that time.  It is void
               \* as soon as another request has used the budget, and not kept
               \* if that time is beyond MaxTime (history)

httpVars == <<vars, promise>>

HttpInit == Init /\ promise = NoPromise

\* Mutant: whole seconds, the fraction is cut off.
SecondsCutOff(ms) == Larger(1, ms \div SecondMs)

\* rejection_headers
RetryAfterSeconds(ms) == Larger(1, CeilDiv(ms, SecondMs))

\* What reaches the limiter is admitted and goes on to the application, or is
\* rejected with a 429.
Served(cost, slip) ==
  /\ Answer(cost, slip).allowed
  /\ Acquire(cost, slip)
  /\ promise' = NoPromise

Rejected(cost, slip) ==
  /\ ~Answer(cost, slip).allowed
  /\ Acquire(cost, slip)
  /\ LET at == now + SecondMs * RetryAfterSeconds(Answer(cost, slip).retry) IN
       promise' = IF backs > 0 \/ at > MaxTime THEN NoPromise
                  ELSE [cost |-> cost, at |-> at]

\* The reply of Redis does not come: the client sees an error, the budget is used
\* all the same if the script was run.
AcquireRaises(cost, slip) ==
  /\ Acquire(cost, slip)
  /\ promise' = IF Answer(cost, slip).allowed THEN NoPromise ELSE promise

\* The middleware lets OPTIONS, other protocols and exclude_paths pass unasked.
Exempt == UNCHANGED httpVars

HttpTick == Tick /\ UNCHANGED promise
HttpExpire == Expire /\ UNCHANGED promise
HttpSetClockBack == SetClockBack /\ promise' = NoPromise

HttpNext ==
  \/ HttpTick \/ HttpExpire \/ HttpSetClockBack \/ Exempt
  \/ \E c \in ValidCosts, slip \in Slips :
       Served(c, slip) \/ Rejected(c, slip) \/ AcquireRaises(c, slip)

HttpSpec == HttpInit /\ [][HttpNext]_httpVars

------------------------------------------------------------------------------
(* Properties *)

\* A client that was told to retry after n seconds and does so then or later is
\* served, whatever other requests were rejected in the meantime and whether or not
\* the key has expired, unless one of them used the budget; by a token bucket, if it comes
\* back no less than a millisecond later (common.py:34 to 36).
PatientClientIsServed ==
  (promise # NoPromise /\ now >= promise.at + Grace) =>
    \A slip \in Slips : Answer(promise.cost, slip).allowed
==============================================================================
