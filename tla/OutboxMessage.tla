---------------------------- MODULE OutboxMessage ----------------------------
(***************************************************************************)
(* The outbox message: its delivery columns and the two transitions the    *)
(* processor applies to them.  The immutable part (type, payload, meta,    *)
(* occurred_on) and the text of last_error are abstracted away: nothing in *)
(* the delivery protocol reads them.  A timestamp column that is only ever *)
(* compared with NULL is a Boolean; available_at keeps its value.          *)
(***************************************************************************)
EXTENDS Integers

Message == [ attempts     : Nat,
             available_at : Nat,
             processed_at : BOOLEAN,     \* "is not NULL"
             failed_at    : BOOLEAN ]    \* "is not NULL"

NewMessage(created) ==
  [ attempts |-> 0, available_at |-> created,
    processed_at |-> FALSE, failed_at |-> FALSE ]

\* The status property: processed_at is looked at first.
Status(msg) ==
  IF msg.processed_at THEN "processed"
  ELSE IF msg.failed_at THEN "failed"
  ELSE "pending"

MarkProcessed(msg) == [msg EXCEPT !.processed_at = TRUE]

------------------------------------------------------------------------------
\* Mutant of MarkFailed: the comparison with max_attempts is off by one.
MarkFailedLate(msg, time, retry_after, max_attempts) ==
  LET n == msg.attempts + 1 IN
    IF n > max_attempts
    THEN [msg EXCEPT !.attempts = n, !.failed_at = TRUE]
    ELSE [msg EXCEPT !.attempts = n, !.available_at = time + retry_after]

\* Mutant: the delay is subtracted.
MarkFailedBackwards(msg, time, retry_after, max_attempts) ==
  LET n == msg.attempts + 1 IN
    IF n >= max_attempts
    THEN [msg EXCEPT !.attempts = n, !.failed_at = TRUE]
    ELSE [msg EXCEPT !.attempts = n, !.available_at = time - retry_after]

MarkFailed(msg, time, retry_after, max_attempts) ==
  LET n == msg.attempts + 1 IN
    IF n >= max_attempts
    THEN [msg EXCEPT !.attempts = n, !.failed_at = TRUE]
    ELSE [msg EXCEPT !.attempts = n, !.available_at = time + retry_after]

\* exponential_retry_policy: base * 2^(attempt-1), never more than cap.  The
\* code has base = 5 and cap = 300 seconds.
ExponentialRetryPolicy(attempt, base, cap) ==
  LET delay == base * 2 ^ (attempt - 1)
  IN  IF delay < cap THEN delay ELSE cap
==============================================================================
