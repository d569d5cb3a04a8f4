------------------------------ MODULE TokenBucket ------------------------------
(***************************************************************************)
(* token_bucket.lua, and the ttl prepare_token_bucket passes to it.  The   *)
(* refill rate is rate_num / rate_den tokens per millisecond and tokens    *)
(* are counted in units of 1 / rate_den.  The double that is stored may be *)
(* a little below the whole units the model keeps: what a call computes    *)
(* from it slips, its comparison with the cost too.                        *)
(***************************************************************************)
EXTENDS RedisScript

BucketHash == [tokens : Nat, updated_at : Nat]

ASSUME BucketAssumption == NoState \notin BucketHash

\* Mutant: the bucket is forgotten when half of it is refilled.
BucketHalfLifetime(p) == CeilDiv(p.limit * p.rate_den, 2 * p.rate_num)

BucketLifetime(p) == CeilDiv(p.limit * p.rate_den, p.rate_num) + 1

\* Mutant: the bucket may overflow.
RefillUncapped(p, state, now, slip) ==
  IF state = NoState THEN p.limit * p.rate_den
  ELSE Larger(0, (state.tokens + Larger(0, now - state.updated_at) * p.rate_num) - slip)

\* Tokens at time now; a clock that moved backward refills nothing.
Refill(p, state, now, slip) ==
  IF state = NoState THEN p.limit * p.rate_den
  ELSE Smaller(p.limit * p.rate_den,
               Larger(0, (state.tokens + Larger(0, now - state.updated_at) * p.rate_num) - slip))

BucketRetry(p, missing) == Larger(1, CeilDiv(missing, p.rate_num))

TokenBucketScript(p, state, now, cost, slip) ==
  LET tokens  == Refill(p, state, now, slip)
      allowed == tokens >= cost * p.rate_den
      taken   == IF allowed THEN cost * p.rate_den ELSE 0
  IN  [ allowed |-> allowed,
        remaining |-> (tokens - taken) \div p.rate_den,
        retry |-> IF allowed THEN 0 ELSE BucketRetry(p, cost * p.rate_den - tokens),
        state |-> [ tokens |-> Refill(p, state, now, 0) - taken,
                    updated_at |-> IF state = NoState THEN now
                                   ELSE Larger(now, state.updated_at) ],
        ttl |-> BucketLifetime(p) ]
==============================================================================
