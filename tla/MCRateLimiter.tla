----------------------------- MODULE MCRateLimiter -----------------------------
(* RateLimitHttp with small policies. *)
EXTENDS RateLimitHttp

SmallWindows == {[limit |-> 3, window_ms |-> 3], [limit |-> 2, window_ms |-> 4]}

\* Two tokens every three milliseconds, and one token every two.
SmallBuckets == { [limit |-> 2, rate_num |-> 2, rate_den |-> 3],
                  [limit |-> 2, rate_num |-> 1, rate_den |-> 2] }
==============================================================================
