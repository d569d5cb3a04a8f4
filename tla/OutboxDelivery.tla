---------------------------- MODULE OutboxDelivery ----------------------------
(***************************************************************************)
(* What the transactional outbox promises, without tables, locks, workers  *)
(* or transactions: at-least-once delivery of every message whose          *)
(* transaction committed.  Nothing reaches the broker for a message that   *)
(* was never committed; "processed" is only said of a message the broker   *)
(* accepted at least once; "processed" and "failed" are final.             *)
(***************************************************************************)
CONSTANT Messages

VARIABLES status,      \* status[m] of the committed message m, or "absent"
          accepted     \* the messages the broker accepted at least once

vars == <<status, accepted>>

Settled == {"processed", "failed"}

Init == /\ status = [m \in Messages |-> "absent"]
        /\ accepted = {}

\* The transaction that wrote the message commits.
Enqueue(m) ==
  /\ status[m] = "absent"
  /\ status' = [status EXCEPT ![m] = "pending"]
  /\ UNCHANGED accepted

\* The broker accepts a copy of a committed message.  A copy may also arrive
\* after the message was settled: delivery is at least once, not exactly once.
Deliver(m) ==
  /\ status[m] # "absent"
  /\ accepted' = accepted \union {m}
  /\ UNCHANGED status

\* A worker commits a batch: some of its messages were delivered, some are
\* given up, the others stay pending for another attempt.
Settle(done, dead) ==
  /\ \A m \in done \union dead : status[m] = "pending"
  /\ done \subseteq accepted
  /\ status' = [m \in Messages |-> IF m \in done THEN "processed"
                                   ELSE IF m \in dead THEN "failed"
                                   ELSE status[m]]
  /\ UNCHANGED accepted

Next ==
  \/ \E m \in Messages : Enqueue(m) \/ Deliver(m)
  \/ \E done, dead \in SUBSET Messages : Settle(done, dead)

Spec == Init /\ [][Next]_vars

\* The liveness half of the promise: a committed message is eventually settled.
Promise == \A m \in Messages :
             status[m] = "pending" ~> status[m] \in Settled
==============================================================================
