------------------------------- MODULE MCOutbox -------------------------------
(* Small instances of Outbox for TLC. *)
EXTENDS Outbox, TLC

\* exponential_retry_policy with the second scaled: base 1, cap 2.
MCRetryPolicy == [n \in 1..MaxAttempts |-> ExponentialRetryPolicy(n, 1, 2)]

CONSTANTS w1, w2

\* One worker publishes one message at a time, the other two.
MCPublishWidth == w1 :> 1 @@ w2 :> 2
==============================================================================
