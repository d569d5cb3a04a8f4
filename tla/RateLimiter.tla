------------------------------ MODULE RateLimiter ------------------------------
(***************************************************************************)
(* RedisRateLimiter for one key and policy: clients on any number of hosts *)
(* call acquire(), each call runs one atomic Lua script against the Redis  *)
(* clock and sets the expiry of the key.  Another policy is another key:   *)
(* its parameters are part of the key's name.                              *)
(***************************************************************************)
EXTENDS FixedWindow, SlidingWindow, TokenBucket

CONSTANTS
  FixedWindowPolicies, SlidingWindowPolicies, TokenBucketPolicies,
  Costs,             \* costs the clients ask for
  MaxTime,           \* bound: the clock, in milliseconds
  MaxBack,           \* how far the clock may be set back
  MaxBacks           \* bound: how many times

\* Pydantic validates gt=0; a bucket's capacity is its limit.
WindowPolicy == [limit : Nat \ {0}, window_ms : Nat \ {0}]
BucketPolicy == [limit : Nat \ {0}, rate_num : Nat \ {0}, rate_den : Nat \ {0}]

ASSUME PolicyAssumption ==
  /\ FixedWindowPolicies \subseteq WindowPolicy
  /\ SlidingWindowPolicies \subseteq WindowPolicy
  /\ TokenBucketPolicies \subseteq BucketPolicy

ASSUME CostAssumption == Costs \subseteq Nat \ {0}

ASSUME BoundAssumption == MaxTime \in Nat /\ MaxBack \in Nat /\ MaxBacks \in Nat

VARIABLES
  policy,     \* the algorithm and its parameters
  now,        \* Redis TIME
  stored,     \* the hash, as of the last write
  expireAt,   \* PEXPIRE
  shadow,     \* what the hash would be if keys never expired (history)
  admitted,   \* admitted[t]: total cost admitted up to time t (history)
  backs       \* how often the clock was set back

vars == <<policy, now, stored, expireAt, shadow, admitted, backs>>

Init ==
  /\ policy \in [algorithm : {"fixed_window"}, of : FixedWindowPolicies]
       \union [algorithm : {"sliding_window"}, of : SlidingWindowPolicies]
       \union [algorithm : {"token_bucket"}, of : TokenBucketPolicies]
  /\ now = 0
  /\ stored = NoState /\ expireAt = 0 /\ shadow = NoState
  /\ admitted = [t \in 0..MaxTime |-> 0]
  /\ backs = 0

(***************************************************************************)
(* The scripts of the sliding window and of the bucket compute with        *)
(* doubles.  The model counts in whole units, of 1 / window_ms and of      *)
(* 1 / rate_den, and assumes that the error of a double stays far below a  *)
(* unit: limit * window_ms is below 2^50, and the rate is such a fraction. *)
(* The error then shows only where the exact value is whole: there a       *)
(* rounding or a comparison may come out as if a unit were missing (1), or *)
(* not (0).                                                                *)
(***************************************************************************)
Slips == IF policy.algorithm = "fixed_window" THEN {0} ELSE {0, 1}

\* prepare_script_call picks the script by the type of the policy.
Script(state, t, cost, slip) ==
  CASE policy.algorithm = "fixed_window"   -> FixedWindowScript(policy.of, state, t, cost)
    [] policy.algorithm = "sliding_window" -> SlidingWindowScript(policy.of, state, t, cost, slip)
    [] policy.algorithm = "token_bucket"   -> TokenBucketScript(policy.of, state, t, cost, slip)

\* What a script run at time t reads: a key past its expiry does not exist.
Unexpired(state, expiry, t) == IF t <= expiry THEN state ELSE NoState

Answer(cost, slip) == Script(Unexpired(stored, expireAt, now), now, cost, slip)

\* acquire raises for any other cost.
ValidCosts == {c \in Costs : c <= policy.of.limit}

Acquire(cost, slip) ==
  LET r == Answer(cost, slip) IN
    /\ stored' = r.state
    /\ expireAt' = now + r.ttl
    /\ shadow' = IF backs = 0 THEN Script(shadow, now, cost, slip).state ELSE shadow
    /\ admitted' = IF backs = 0 /\ r.allowed
                   THEN [t \in 0..MaxTime |-> admitted[t] + (IF t >= now THEN cost ELSE 0)]
                   ELSE admitted
    /\ UNCHANGED <<policy, now, backs>>

Tick ==
  /\ now < MaxTime
  /\ now' = now + 1
  /\ UNCHANGED <<policy, stored, expireAt, shadow, admitted, backs>>

\* The histories end here: what they are compared with presumes one time line.
SetClockBack ==
  /\ backs < MaxBacks
  /\ backs' = backs + 1
  /\ \E d \in 1..MaxBack : d <= now /\ now' = now - d
  /\ shadow' = NoState /\ admitted' = [t \in 0..MaxTime |-> 0]
  /\ UNCHANGED <<policy, stored, expireAt>>

\* Redis deletes an expired key some time after its expiry; a clock set back later
\* does not bring it back.
Expire ==
  /\ stored # NoState /\ now > expireAt
  /\ stored' = NoState /\ expireAt' = 0
  /\ UNCHANGED <<policy, now, shadow, admitted, backs>>

Next == Tick \/ SetClockBack \/ Expire \/ \E c \in ValidCosts, slip \in Slips : Acquire(c, slip)

Spec == Init /\ [][Next]_vars

------------------------------------------------------------------------------
(* Properties *)

UpTo(t) == IF t < 0 THEN 0 ELSE admitted[Smaller(t, MaxTime)]

Total(first, final) == UpTo(final) - UpTo(first - 1)

\* In no window of the clock is more than the limit admitted.
WindowLimit(p) ==
  \A t \in 0..MaxTime :
    t % p.window_ms = 0 => Total(t, t + p.window_ms - 1) <= p.limit

\* What is admitted now leaves the total of this window, plus that of the window
\* before it weighted with what is left of this one, within the limit.
WeightedLimit(p) ==
  LET start == now - (now % p.window_ms) IN
    \A c \in ValidCosts : (\E slip \in Slips : Answer(c, slip).allowed) =>
      (Total(start, now) + c) * p.window_ms
        + Total(start - p.window_ms, start - 1) * (start + p.window_ms - now)
        <= p.limit * p.window_ms

\* In no interval is more admitted than a full bucket and what the rate adds.
IntervalLimit(p) ==
  \A first, final \in 0..MaxTime :
    first <= final =>
      Total(first, final) * p.rate_den <= p.limit * p.rate_den + p.rate_num * (final - first)

\* The limit, stated against what was really admitted and not against the counters
\* of the script, over any callers, costs, denials, pauses and expiries, while the
\* clock is not set back (fixed_window.lua:39, sliding_window.lua:54,
\* token_bucket.lua:30).
WithinLimit ==
  backs = 0 =>
    CASE policy.algorithm = "fixed_window"   -> WindowLimit(policy.of)
      [] policy.algorithm = "sliding_window" -> WeightedLimit(policy.of)
      [] policy.algorithm = "token_bucket"   -> IntervalLimit(policy.of)

\* Would a request denied now with answer r be admitted at t, if nobody else
\* called in between?
AdmittedAt(r, cost, t, slip) ==
  Script(Unexpired(r.state, now + r.ttl, t), t, cost, slip).allowed

\* The double of a bucket may be a little short of the cost when the retry is due.
Grace == IF policy.algorithm = "token_bucket" THEN 1 ELSE 0

\* The fixed window computes with whole milliseconds, the others with doubles.
Slack == IF policy.algorithm = "fixed_window" THEN 0 ELSE 1

\* retry_after is kept: a denied caller that waits that long, or longer (the
\* Retry-After header is rounded up to seconds), is admitted unless others use the
\* budget meanwhile; of a token bucket, a millisecond later (fixed_window.lua:43,
\* sliding_window.lua:59-85, token_bucket.lua:34).
RetryIsHonest ==
  backs = 0 =>
    \A c \in ValidCosts, before \in Slips : LET r == Answer(c, before) IN
      ~r.allowed =>
        \A t \in now + r.retry + Grace .. now + r.retry + r.ttl, after \in Slips :
          AdmittedAt(r, c, t, after)

\* retry_after is tight: no retry is admitted that comes earlier, by more than the
\* millisecond that a double may be rounded up too far (the same lines).
RetryIsTight ==
  backs = 0 =>
    \A c \in ValidCosts, before \in Slips : LET r == Answer(c, before) IN
      ~r.allowed =>
        \A t \in now .. now + r.retry - 1 - Slack, after \in Slips :
          ~AdmittedAt(r, c, t, after)

\* Expiry is invisible: every answer is the one a key that never expires would give
\* (fixed_window.lua:53, sliding_window.lua:95, token_bucket.py:11).
ExpiryIsInvisible ==
  backs = 0 =>
    \A c \in ValidCosts, slip \in Slips :
      LET a == Answer(c, slip)
          b == Script(shadow, now, c, slip)
      IN  <<a.allowed, a.remaining, a.retry>> = <<b.allowed, b.remaining, b.retry>>

\* The clock has not yet passed the window that the counters belong to.
StillCounts == stored # NoState /\ now \div policy.of.window_ms <= stored.window_id

\* sliding_window.lua:42 "Avoid resetting counters if the clock moves backward.":
\* while the clock is set back by no more than a window, no call, expiry or time step
\* resets a counter, or moves it to another window, before its window has passed.
CountersKept ==
  [][ policy.algorithm = "sliding_window" /\ StillCounts =>
        /\ stored' # NoState
        /\ stored'.window_id = stored.window_id
        /\ stored'.previous = stored.previous
        /\ stored'.current >= stored.current ]_vars
==============================================================================
