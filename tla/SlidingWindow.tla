----------------------------- MODULE SlidingWindow -----------------------------
(***************************************************************************)
(* sliding_window.lua.  Its floating-point estimate is counted in units of *)
(* 1 / window_ms.  The comparison with the limit is exact in doubles: an   *)
(* excess is a unit or more, and an estimate that fits exactly is rounded  *)
(* to a whole number when the cost is added.  What is rounded up or down   *)
(* afterwards may slip: of 100 a minute, 99 in the last window and one in  *)
(* this one, the script computes 601 ms where 600 ms suffice.              *)
(***************************************************************************)
EXTENDS RedisScript

SlidingHash == [window_id : Nat, current : Nat, previous : Nat]

ASSUME SlidingAssumption == NoState \notin SlidingHash

\* Mutant: a clock that moved backward resets the counters.
AdvanceAnyway(p, state, now) ==
  LET id == now \div p.window_ms IN
    IF state # NoState /\ id = state.window_id THEN state
    ELSE [ window_id |-> id, current |-> 0,
           previous |-> IF state # NoState /\ id = state.window_id + 1
                        THEN state.current ELSE 0 ]

\* The counters moved on to the window of now; a clock that moved backward stays
\* in the stored window.
Advance(p, state, now) ==
  LET id == now \div p.window_ms IN
    IF state = NoState THEN [window_id |-> id, current |-> 0, previous |-> 0]
    ELSE IF id > state.window_id
    THEN [ window_id |-> id, current |-> 0,
           previous |-> IF id = state.window_id + 1 THEN state.current ELSE 0 ]
    ELSE state

\* Time left in the window the counters belong to.
Left(p, s, now) == IF now \div p.window_ms < s.window_id THEN p.window_ms
                   ELSE p.window_ms - (now % p.window_ms)

\* Mutant: the decay needed after the next window began is left out.
SlidingRetryWithoutDecay(p, s, now, cost, slip) ==
  IF s.previous > 0 /\ s.current + cost <= p.limit
  THEN CeilDiv((s.current + cost - p.limit) * p.window_ms
                 + s.previous * Left(p, s, now) + slip, s.previous)
  ELSE Left(p, s, now)

\* Mutant: the decay of the next window although this one decays enough.
SlidingRetryNextWindow(p, s, now, cost, slip) ==
  Left(p, s, now)
    + (IF s.current > 0
       THEN Larger(0, CeilDiv(p.window_ms * (s.current + cost - p.limit) + slip, s.current))
       ELSE 0)

\* How long a denied request must wait: until enough of the previous window has
\* decayed, or until the current one has become the previous one and decayed.
SlidingRetry(p, s, now, cost, slip) ==
  Larger(1,
    IF s.previous > 0 /\ s.current + cost <= p.limit
    THEN CeilDiv((s.current + cost - p.limit) * p.window_ms
                   + s.previous * Left(p, s, now) + slip, s.previous)
    ELSE Left(p, s, now)
           + (IF s.current > 0
              THEN Larger(0, CeilDiv(p.window_ms * (s.current + cost - p.limit) + slip, s.current))
              ELSE 0))

SlidingLifetime(p) == 2 * p.window_ms + 1

SlidingFits(p, estimate, cost) == estimate + cost * p.window_ms <= p.limit * p.window_ms

SlidingWindowScript(p, state, now, cost, slip) ==
  LET s        == Advance(p, state, now)
      estimate == s.current * p.window_ms + s.previous * Left(p, s, now)
      allowed  == SlidingFits(p, estimate, cost)
      used     == IF allowed THEN estimate + cost * p.window_ms ELSE estimate
  IN  [ allowed |-> allowed,
        remaining |-> Larger(0, (p.limit * p.window_ms - used - slip) \div p.window_ms),
        retry |-> IF allowed THEN 0 ELSE SlidingRetry(p, s, now, cost, slip),
        state |-> IF allowed THEN [s EXCEPT !.current = @ + cost] ELSE s,
        ttl |-> SlidingLifetime(p) ]
==============================================================================
