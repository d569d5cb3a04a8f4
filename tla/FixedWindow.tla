------------------------------ MODULE FixedWindow ------------------------------
(* fixed_window.lua *)
EXTENDS RedisScript

FixedHash == [window_id : Nat, count : Nat]

ASSUME FixedAssumption == NoState \notin FixedHash

\* The window the request is counted in, the time passed in it, and its count.  A
\* clock that moved backward stays at the start of the stored window.
Window(p, state, now) ==
  IF state # NoState /\ now \div p.window_ms < state.window_id
  THEN [id |-> state.window_id, elapsed |-> 0, count |-> state.count]
  ELSE [ id |-> now \div p.window_ms, elapsed |-> now % p.window_ms,
         count |-> IF state # NoState /\ state.window_id = now \div p.window_ms
                   THEN state.count ELSE 0 ]

FixedFits(p, count, cost) == count + cost <= p.limit

FixedRetry(p, w) == p.window_ms - w.elapsed

FixedWindowScript(p, state, now, cost) ==
  LET w       == Window(p, state, now)
      allowed == FixedFits(p, w.count, cost)
      after   == IF allowed THEN w.count + cost ELSE w.count
  IN  [ allowed |-> allowed,
        remaining |-> Larger(0, p.limit - after),
        retry |-> IF allowed THEN 0 ELSE FixedRetry(p, w),
        state |-> [window_id |-> w.id, count |-> after],
        ttl |-> p.window_ms - w.elapsed ]
==============================================================================
