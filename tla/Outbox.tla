-------------------------------- MODULE Outbox --------------------------------
(***************************************************************************)
(* The transactional outbox: producers that write messages in their own    *)
(* transaction, the outbox_messages table, and workers that each run       *)
(* OutboxProcessor.process() in a loop, one transaction per call:          *)
(*   acquire (FOR UPDATE SKIP LOCKED) -> publish -> save_all -> commit.    *)
(*                                                                         *)
(* Time.  The clock is compared with available_at and nothing else.  It    *)
(* ticks freely up to Horizon and, after that, only while a committed      *)
(* message waits for its available_at, so the state space stays finite     *)
(* while every retry still becomes due.                                    *)
(*                                                                         *)
(* Faults.  A worker process may die, its database connection may break    *)
(* while it goes on publishing, a statement may raise, and a commit may    *)
(* land although its reply is lost.  MaxFaults bounds how many of these    *)
(* happen.  A publisher may raise at any time, whether or not the broker   *)
(* took the message; max_attempts bounds that.                             *)
(***************************************************************************)
EXTENDS Integers, FiniteSets, OutboxMessage

CONSTANTS
  Messages,       \* message ids; uuid7 ids are ordered, so they are numbers
  Workers,        \* worker processes
  NoWorker,       \* "no transaction holds the row lock"
  NoRow,          \* "there is no such row / no such OutboxMessage object"
  Poison,         \* messages deserialize_event or the publisher always rejects
  BatchSize,      \* OutboxConfig.batch_size
  MaxAttempts,    \* OutboxConfig.max_attempts
  PublishWidth,   \* PublishWidth[w]: max_concurrency if concurrency_enable, else 1
  RetryPolicy,    \* RetryPolicy[n]: delay after failed attempt n
  Horizon,        \* bound: how far the clock ticks while nobody waits for it
  MaxFaults       \* bound: number of faults in a behaviour

ASSUME MessagesAssumption == Messages \subseteq Nat /\ IsFiniteSet(Messages)
ASSUME NoWorkerAssumption == NoWorker \notin Workers
ASSUME NoRowAssumption    == NoRow \notin Message
ASSUME PoisonAssumption   == Poison \subseteq Messages
ASSUME ConfigAssumption   == /\ BatchSize \in Nat \ {0}
                             /\ MaxAttempts \in Nat \ {0}
                             /\ PublishWidth \in [Workers -> Nat \ {0}]
                             /\ RetryPolicy \in [1..MaxAttempts -> Nat]
ASSUME BoundsAssumption   == Horizon \in Nat /\ MaxFaults \in Nat

VARIABLES
  now,          \* the clock the producers, the workers and the database share
  rows,         \* rows[m]: committed row of outbox_messages, or NoRow
  staged,       \* staged[m]: row inserted by a producer that has not committed
  lock,         \* lock[m]: the worker whose transaction locks the row
  pc,           \* where each worker is in its loop
  connected,    \* connected[w]: its database session is still alive
  copy,         \* copy[w][m]: the OutboxMessage object of w's batch, or NoRow
  pub,          \* pub[w][m]: how far w got with publishing m
  accepted,     \* accepted[m]: how many times the broker took m
  unrecorded,   \* of these, how many will never show up in the table
  faults        \* faults so far

table  == <<rows, staged, lock>>
worker == <<pc, connected, copy, pub>>
broker == <<accepted, unrecorded>>
vars   == <<now, table, worker, broker, faults>>

------------------------------------------------------------------------------
(* Helpers *)

PubState == {"none", "queued", "sent", "accepted", "ok", "error"}

InFlight(w) == {m \in Messages : pub[w][m] \in {"sent", "accepted"}}
Batch(w)    == {m \in Messages : pub[w][m] # "none"}
Queued(w)   == {m \in Messages : pub[w][m] = "queued"}

\* Every publish of the batch has returned and marked its message.
Published(w) == \A m \in Messages : pub[w][m] \in {"none", "ok", "error"}

\* ORDER BY available_at, id.
Before(msg, m, other, n) ==
  \/ msg.available_at < other.available_at
  \/ msg.available_at = other.available_at /\ m < n

TypeOK ==
  /\ now \in Nat
  /\ rows \in [Messages -> Message \union {NoRow}]
  /\ staged \in [Messages -> Message \union {NoRow}]
  /\ lock \in [Messages -> Workers \union {NoWorker}]
  /\ pc \in [Workers -> {"ready", "publish", "commit", "sleep", "down"}]
  /\ connected \in [Workers -> BOOLEAN]
  /\ copy \in [Workers -> [Messages -> Message \union {NoRow}]]
  /\ pub \in [Workers -> [Messages -> PubState]]
  /\ accepted \in [Messages -> Nat]
  /\ unrecorded \in [Messages -> Nat]
  /\ faults \in 0..MaxFaults

Init ==
  /\ now = 0
  /\ rows = [m \in Messages |-> NoRow]
  /\ staged = [m \in Messages |-> NoRow]
  /\ lock = [m \in Messages |-> NoWorker]
  /\ pc = [w \in Workers |-> "ready"]
  /\ connected = [w \in Workers |-> FALSE]
  /\ copy = [w \in Workers |-> [m \in Messages |-> NoRow]]
  /\ pub = [w \in Workers |-> [m \in Messages |-> "none"]]
  /\ accepted = [m \in Messages |-> 0]
  /\ unrecorded = [m \in Messages |-> 0]
  /\ faults = 0

Pending(m) == rows[m] # NoRow /\ Status(rows[m]) = "pending"

Tick ==
  /\ \/ now < Horizon
     \/ \E m \in Messages : Pending(m) /\ rows[m].available_at > now
  /\ now' = now + 1
  /\ UNCHANGED <<table, worker, broker, faults>>

------------------------------------------------------------------------------
(* Producers: a use case creates a message (which fixes available_at), saves  *)
(* it in the transaction of its own changes, and commits or rolls back.       *)

Save(m) ==
  /\ rows[m] = NoRow /\ staged[m] = NoRow
  /\ staged' = [staged EXCEPT ![m] = NewMessage(now)]
  /\ UNCHANGED <<now, rows, lock, worker, broker, faults>>

CommitSave(m) ==
  /\ staged[m] # NoRow
  /\ rows' = [rows EXCEPT ![m] = staged[m]]
  /\ staged' = [staged EXCEPT ![m] = NoRow]
  /\ UNCHANGED <<now, lock, worker, broker, faults>>

RollbackSave(m) ==
  /\ staged[m] # NoRow
  /\ staged' = [staged EXCEPT ![m] = NoRow]
  /\ UNCHANGED <<now, rows, lock, worker, broker, faults>>

------------------------------------------------------------------------------
(* OutboxStore.acquire *)

\* Mutant: the WHERE clause forgets failed_at IS NULL.
AvailableEvenFailed ==
  {m \in Messages : /\ rows[m] # NoRow
                    /\ ~rows[m].processed_at
                    /\ rows[m].available_at <= now
                    /\ lock[m] = NoWorker}

\* Mutant: plain SELECT, rows locked by others are not skipped.
AvailableEvenLocked ==
  {m \in Messages : /\ rows[m] # NoRow
                    /\ ~rows[m].processed_at
                    /\ ~rows[m].failed_at
                    /\ rows[m].available_at <= now}

\* The rows the SELECT sees: committed, pending, due, and not locked.
Available ==
  {m \in Messages : /\ rows[m] # NoRow
                    /\ ~rows[m].processed_at
                    /\ ~rows[m].failed_at
                    /\ rows[m].available_at <= now
                    /\ lock[m] = NoWorker}

\* ... and the first BatchSize of them in the order of the query.
Acquired ==
  {m \in Available :
     Cardinality({n \in Available : Before(rows[n], n, rows[m], m)}) < BatchSize}

AcquireBatch(w) ==
  /\ pc[w] = "ready"
  /\ Acquired # {}
  /\ pc' = [pc EXCEPT ![w] = "publish"]
  /\ connected' = [connected EXCEPT ![w] = TRUE]
  /\ lock' = [m \in Messages |-> IF m \in Acquired THEN w ELSE lock[m]]
  /\ copy' = [copy EXCEPT ![w] =
                [m \in Messages |-> IF m \in Acquired THEN rows[m] ELSE NoRow]]
  /\ pub' = [pub EXCEPT ![w] =
                [m \in Messages |-> IF m \in Acquired THEN "queued" ELSE "none"]]
  /\ UNCHANGED <<now, rows, staged, broker, faults>>

\* Mutant: the loop ends when there is nothing to do.
StopWhenEmpty(w) ==
  /\ pc[w] = "ready"
  /\ Acquired = {}
  /\ pc' = [pc EXCEPT ![w] = "stopped"]
  /\ UNCHANGED <<now, table, connected, copy, pub, broker, faults>>

\* Nothing to do: commit the empty transaction, return 0, sleep poll_interval.
AcquireNothing(w) ==
  /\ pc[w] = "ready"
  /\ Acquired = {}
  /\ pc' = [pc EXCEPT ![w] = "sleep"]
  /\ UNCHANGED <<now, table, connected, copy, pub, broker, faults>>

\* The interval is over (its length only matters for how soon).
Wake(w) ==
  /\ pc[w] = "sleep"
  /\ pc' = [pc EXCEPT ![w] = "ready"]
  /\ UNCHANGED <<now, table, connected, copy, pub, broker, faults>>

------------------------------------------------------------------------------
(* Publishing: _publish_one, under the semaphore of process() *)

SemaphoreFree(w) == Cardinality(InFlight(w)) < PublishWidth[w]

\* Tasks are created in batch order and the semaphore is first in, first out.
NextQueued(w, m) ==
  /\ m \in Queued(w)
  /\ \A n \in Queued(w) \ {m} : Before(copy[w][m], m, copy[w][n], n)

StartPublish(w, m) ==
  /\ pc[w] = "publish"
  /\ SemaphoreFree(w)
  /\ NextQueued(w, m)
  /\ pub' = [pub EXCEPT ![w][m] = "sent"]
  /\ UNCHANGED <<now, table, pc, connected, copy, broker, faults>>

\* The broker takes the message.  If the worker's transaction is already lost
\* the table will never hear of it.
BrokerAccept(w, m) ==
  /\ pub[w][m] = "sent"
  /\ m \notin Poison
  /\ pub' = [pub EXCEPT ![w][m] = "accepted"]
  /\ accepted' = [accepted EXCEPT ![m] = @ + 1]
  /\ unrecorded' = [unrecorded EXCEPT ![m] = IF connected[w] THEN @ ELSE @ + 1]
  /\ UNCHANGED <<now, table, pc, connected, copy, faults>>

\* Mutant: a publish that raised is marked as processed all the same.
SwallowPublishError(w, m) ==
  /\ pub[w][m] \in {"sent", "accepted"}
  /\ pub' = [pub EXCEPT ![w][m] = "ok"]
  /\ copy' = [copy EXCEPT ![w][m] = MarkProcessed(@)]
  /\ UNCHANGED <<now, table, pc, connected, broker, faults>>

\* The publisher returned: mark_processed on the in-memory message.
PublishOk(w, m) ==
  /\ pub[w][m] = "accepted"
  /\ pub' = [pub EXCEPT ![w][m] = "ok"]
  /\ copy' = [copy EXCEPT ![w][m] = MarkProcessed(@)]
  /\ UNCHANGED <<now, table, pc, connected, broker, faults>>

\* deserialize_event or the publisher raised: mark_failed on the in-memory
\* message.  The broker may have taken it before the error.
PublishError(w, m) ==
  /\ pub[w][m] \in {"sent", "accepted"}
  /\ pub' = [pub EXCEPT ![w][m] = "error"]
  /\ copy' = [copy EXCEPT ![w][m] =
                MarkFailed(@, now, RetryPolicy[@.attempts + 1], MaxAttempts)]
  /\ unrecorded' = [unrecorded EXCEPT ![m] =
                      IF pub[w][m] = "accepted" /\ connected[w] THEN @ + 1 ELSE @]
  /\ UNCHANGED <<now, table, pc, connected, accepted, faults>>

------------------------------------------------------------------------------
(* save_all, commit, and the ways out of the transaction *)

\* The upsert runs inside the transaction: nobody else sees it yet.
SaveAll(w) ==
  /\ pc[w] = "publish"
  /\ connected[w]
  /\ Published(w)
  /\ pc' = [pc EXCEPT ![w] = "commit"]
  /\ UNCHANGED <<now, table, connected, copy, pub, broker, faults>>

DropBatch(w) ==
  /\ connected' = [connected EXCEPT ![w] = FALSE]
  /\ copy' = [copy EXCEPT ![w] = [m \in Messages |-> NoRow]]
  /\ pub' = [pub EXCEPT ![w] = [m \in Messages |-> "none"]]

Unlock(w) ==
  lock' = [m \in Messages |-> IF lock[m] = w THEN NoWorker ELSE lock[m]]

\* Mutant: the upsert's SET list misses processed_at.
WriteWithoutProcessedAt(w) ==
  rows' = [m \in Messages |-> IF m \in Batch(w)
                              THEN [copy[w][m] EXCEPT !.processed_at = FALSE]
                              ELSE rows[m]]

\* Mutant: the upsert's SET list misses attempts.
WriteWithoutAttempts(w) ==
  rows' = [m \in Messages |-> IF m \in Batch(w)
                              THEN [copy[w][m] EXCEPT !.attempts = rows[m].attempts]
                              ELSE rows[m]]

WriteBatch(w) ==
  rows' = [m \in Messages |-> IF m \in Batch(w) THEN copy[w][m] ELSE rows[m]]

CommitAs(w, next) ==
  /\ pc[w] = "commit"
  /\ connected[w]
  /\ WriteBatch(w)
  /\ Unlock(w)
  /\ DropBatch(w)
  /\ pc' = [pc EXCEPT ![w] = next]
  /\ UNCHANGED <<now, staged, broker>>

\* process() returns len(messages) > 0: the worker goes on at once (drain mode).
Commit(w) == CommitAs(w, "ready") /\ UNCHANGED faults

\* The database committed, the reply was lost: the worker sees an exception.
CommitReplyLost(w) ==
  faults < MaxFaults /\ faults' = faults + 1 /\ CommitAs(w, "sleep")

\* Broker acceptances of w's batch that its transaction would have recorded.
Forget(w) ==
  unrecorded' = [m \in Messages |->
    IF lock[m] = w /\ pub[w][m] \in {"accepted", "ok"}
    THEN unrecorded[m] + 1 ELSE unrecorded[m]]

\* The session closes without commit: row locks and marks are gone.
Rollback(w, next) ==
  /\ Unlock(w)
  /\ DropBatch(w)
  /\ Forget(w)
  /\ pc' = [pc EXCEPT ![w] = next]
  /\ UNCHANGED <<now, rows, staged, accepted>>

\* acquire, save_all or commit raises: log, sleep error_interval.  Nothing else
\* in process() lets an Exception out.  It is certain after a lost connection.
ProcessRaises(w) ==
  /\ \/ pc[w] = "ready" /\ faults < MaxFaults /\ faults' = faults + 1
     \/ /\ pc[w] = "commit" \/ (pc[w] = "publish" /\ Published(w))
        /\ IF connected[w] THEN faults < MaxFaults /\ faults' = faults + 1
                           ELSE UNCHANGED faults
  /\ Rollback(w, "sleep")

\* The process dies or is cancelled, at any point.
Crash(w) ==
  /\ pc[w] # "down"
  /\ faults < MaxFaults
  /\ faults' = faults + 1
  /\ Rollback(w, "down")

Restart(w) ==
  /\ pc[w] = "down"
  /\ pc' = [pc EXCEPT ![w] = "ready"]
  /\ UNCHANGED <<now, table, connected, copy, pub, broker, faults>>

\* The database connection breaks: the server rolls back and unlocks the rows,
\* the worker does not notice before its next statement and goes on publishing.
LoseConnection(w) ==
  /\ pc[w] \in {"publish", "commit"}
  /\ connected[w]
  /\ faults < MaxFaults
  /\ faults' = faults + 1
  /\ connected' = [connected EXCEPT ![w] = FALSE]
  /\ Unlock(w)
  /\ Forget(w)
  /\ UNCHANGED <<now, rows, staged, pc, copy, pub, accepted>>

------------------------------------------------------------------------------
Producer(m) == Save(m) \/ CommitSave(m) \/ RollbackSave(m)

Publish(w, m) ==
  StartPublish(w, m) \/ BrokerAccept(w, m) \/ PublishOk(w, m) \/ PublishError(w, m)

Loop(w) ==
  \/ AcquireBatch(w) \/ AcquireNothing(w) \/ Wake(w) \/ Restart(w)
  \/ SaveAll(w) \/ Commit(w) \/ ProcessRaises(w)

Fault(w) == CommitReplyLost(w) \/ Crash(w) \/ LoseConnection(w)

Next ==
  \/ Tick
  \/ \E m \in Messages : Producer(m)
  \/ \E w \in Workers : Loop(w) \/ Fault(w) \/ \E m \in Messages : Publish(w, m)

Spec == Init /\ [][Next]_vars

\* Time passes, every worker keeps running its loop (a supervisor restarts a
\* dead one), and every publisher call returns: process() has no timeout of its
\* own, so a publisher that hangs would keep its rows locked for good.
FairSpec ==
  /\ Spec
  /\ WF_vars(Tick)
  /\ \A w \in Workers :
       /\ WF_vars(Loop(w))
       /\ \A m \in Messages :
            /\ WF_vars(StartPublish(w, m))
            /\ WF_vars(PublishOk(w, m) \/ PublishError(w, m))

------------------------------------------------------------------------------
(* Properties *)

\* Two workers never both believe, with a live transaction, that a message is
\* theirs: acquire skips rows that another batch holds until commit or rollback.
ExclusiveBatch ==
  \A v, w \in Workers : \A m \in Messages :
    (v # w /\ connected[v] /\ connected[w]) =>
      ~(m \in Batch(v) /\ m \in Batch(w))

\* A row says "processed" only if the broker accepted the message, across
\* rollbacks, retries, dead workers and lost connections.
ProcessedWasAccepted ==
  \A m \in Messages :
    (rows[m] # NoRow /\ Status(rows[m]) = "processed") => accepted[m] > 0

\* Every duplicate at the broker has a reason: each accepted copy but one was
\* followed by an error of its publisher or by the loss of its transaction.
\* Without faults delivery is exactly once, whatever the workers' interleaving.
DuplicatesAreExplained ==
  \A m \in Messages : accepted[m] <= unrecorded[m] + 1

\* max_attempts is exact: a message is failed after that many recorded attempts
\* and never handed out again, and not before.
FailedIffExhausted ==
  \A m \in Messages :
    rows[m] # NoRow => (Status(rows[m]) = "failed" <=> rows[m].attempts >= MaxAttempts)

\* processed and failed are final, and attempts never go back: no stale batch
\* overwrites what another one committed.
RowProgress(m) ==
  (rows[m] # NoRow /\ rows'[m] # rows[m]) =>
     /\ rows'[m] # NoRow
     /\ Status(rows[m]) = "pending"
     /\ rows'[m].attempts >= rows[m].attempts

RowsOnlyProgress == [][\A m \in Messages : RowProgress(m)]_vars

\* A transaction that commits settles its whole batch: each message it held is
\* processed or has one more attempt; none is given back untouched.
SettlesBatch(w) ==
  (pc[w] = "commit" /\ pc'[w] = "ready") =>
     \A m \in Batch(w) : \/ Status(rows'[m]) = "processed"
                         \/ rows'[m].attempts = rows[m].attempts + 1

CommitSettlesBatch == [][\A w \in Workers : SettlesBatch(w)]_vars

(* The inductive invariant behind the safety properties; OutboxProofs proves  *)
(* that every step keeps it.                                                  *)

\* What w's batch knows of m: the state of the publish call and the in-memory
\* message agree, and only committed rows get into a batch.
CopyInv(w, m) ==
  LET c == copy[w][m] IN
    /\ pub[w][m] = "none" <=> c = NoRow
    /\ pub[w][m] # "none" => /\ rows[m] # NoRow
                             /\ pc[w] \in {"publish", "commit"}
    /\ pub[w][m] \in {"queued", "sent", "accepted"} =>
         /\ pc[w] = "publish"
         /\ ~c.processed_at /\ ~c.failed_at /\ c.attempts < MaxAttempts
    /\ pub[w][m] = "ok" =>
         c.processed_at /\ ~c.failed_at /\ c.attempts < MaxAttempts
    /\ pub[w][m] = "error" =>
         ~c.processed_at /\ (c.failed_at <=> c.attempts >= MaxAttempts)
    /\ pub[w][m] \in {"accepted", "ok"} => accepted[m] > 0

\* A row is locked exactly by the batch with a live transaction that holds it;
\* until that transaction ends the row stays as it was acquired.
LockInv(w, m) ==
  LET c == copy[w][m] IN
    /\ lock[m] = w <=> (connected[w] /\ pub[w][m] # "none")
    /\ lock[m] = w =>
         /\ ~rows[m].processed_at /\ ~rows[m].failed_at
         /\ pub[w][m] \in {"queued", "sent", "accepted"} => c = rows[m]
         /\ pub[w][m] = "ok" => c.attempts = rows[m].attempts
         /\ pub[w][m] = "error" => c.attempts = rows[m].attempts + 1

RowInv(m) ==
  /\ rows[m] # NoRow =>
       /\ rows[m].failed_at <=> rows[m].attempts >= MaxAttempts
       /\ ~(rows[m].processed_at /\ rows[m].failed_at)
       /\ rows[m].processed_at => accepted[m] > 0
  /\ staged[m] # NoRow =>
       /\ rows[m] = NoRow
       /\ ~staged[m].processed_at /\ ~staged[m].failed_at
       /\ staged[m].attempts = 0

\* The acceptance that is recorded in the row, or will be by the lock holder.
Recorded(m) ==
  \/ rows[m] # NoRow /\ rows[m].processed_at
  \/ lock[m] \in Workers /\ pub[lock[m]][m] \in {"accepted", "ok"}

CountInv(m) == accepted[m] <= unrecorded[m] + (IF Recorded(m) THEN 1 ELSE 0)

IInv ==
  /\ TypeOK
  /\ \A m \in Messages : /\ RowInv(m)
                          /\ CountInv(m)
                          /\ \A w \in Workers : CopyInv(w, m) /\ LockInv(w, m)

------------------------------------------------------------------------------
\* The outbox implements at-least-once delivery.
D == INSTANCE OutboxDelivery WITH
       status   <- [m \in Messages |-> IF rows[m] = NoRow THEN "absent"
                                       ELSE Status(rows[m])],
       accepted <- {m \in Messages : accepted[m] > 0}

ImplementsDelivery == D!Spec

\* Every committed message is eventually processed or failed, poison or not:
\* it neither starves nor blocks the messages behind it.
EveryMessageSettles == D!Promise
==============================================================================
