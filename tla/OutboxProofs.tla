----------------------------- MODULE OutboxProofs -----------------------------
(***************************************************************************)
(* The safety properties of Outbox hold for any number of messages and     *)
(* workers, any batch size, concurrency and number of attempts, any retry  *)
(* policy and any number of faults.                                        *)
(***************************************************************************)
EXTENDS Outbox, TLAPS

Inner == \A m \in Messages : /\ RowInv(m)
                             /\ CountInv(m)
                             /\ \A w \in Workers : CopyInv(w, m) /\ LockInv(w, m)

LEMMA MarkedMessages ==
  ASSUME NEW c \in Message, NEW t \in Nat, NEW d \in Nat
  PROVE  /\ MarkProcessed(c) \in Message
         /\ MarkFailed(c, t, d, MaxAttempts) \in Message
<1> DEFINE n == c.attempts + 1
<1>1. n \in Nat /\ t + d \in Nat
  BY DEF Message
<1>2. [c EXCEPT !.attempts = n, !.failed_at = TRUE] \in Message
  BY <1>1 DEF Message
<1>3. [c EXCEPT !.attempts = n, !.available_at = t + d] \in Message
  BY <1>1 DEF Message
<1>4. MarkProcessed(c) \in Message
  BY DEF Message, MarkProcessed
<1>5. QED BY <1>2, <1>3, <1>4 DEF MarkFailed

LEMMA InitInv == Init => IInv
BY NoRowAssumption, NoWorkerAssumption, BoundsAssumption
   DEF Init, IInv, TypeOK, RowInv, CountInv, Recorded, CopyInv, LockInv, PubState

LEMMA TickInv == IInv /\ Tick => IInv'
BY DEF IInv, Tick, TypeOK, RowInv, CountInv, Recorded, CopyInv, LockInv, table, worker, broker

LEMMA SaveInv ==
  ASSUME NEW p \in Messages, IInv, Save(p) PROVE IInv'
<1>1. NewMessage(now) \in Message
  BY DEF NewMessage, Message, IInv, TypeOK
<1>2. TypeOK'
  BY <1>1 DEF Save, IInv, TypeOK, table, worker, broker
<1>3. ASSUME NEW m \in Messages PROVE RowInv(m)'
  BY NoRowAssumption, <1>1 DEF Save, IInv, TypeOK, RowInv, worker, broker, NewMessage
<1>4. ASSUME NEW m \in Messages PROVE CountInv(m)'
  BY DEF Save, IInv, TypeOK, CountInv, Recorded, worker, broker
<1>5. ASSUME NEW m \in Messages, NEW w \in Workers PROVE CopyInv(w, m)' /\ LockInv(w, m)'
  BY DEF Save, IInv, CopyInv, LockInv, worker, broker
<1>6. QED BY <1>2, <1>3, <1>4, <1>5 DEF IInv

LEMMA CommitSaveInv ==
  ASSUME NEW p \in Messages, IInv, CommitSave(p) PROVE IInv'
<1>2. TypeOK'
  BY DEF CommitSave, IInv, TypeOK, table, worker, broker
<1>3. ASSUME NEW m \in Messages PROVE RowInv(m)'
  BY NoRowAssumption, ConfigAssumption DEF CommitSave, IInv, TypeOK, RowInv, worker, broker
<1>4. ASSUME NEW m \in Messages PROVE CountInv(m)'
  BY DEF CommitSave, IInv, TypeOK, CountInv, Recorded, RowInv, worker, broker
<1>5. ASSUME NEW m \in Messages, NEW w \in Workers PROVE CopyInv(w, m)' /\ LockInv(w, m)'
  BY DEF CommitSave, IInv, TypeOK, CopyInv, LockInv, RowInv, worker, broker
<1>6. QED BY <1>2, <1>3, <1>4, <1>5 DEF IInv

LEMMA AcquireBatchInv ==
  ASSUME NEW v \in Workers, IInv, AcquireBatch(v) PROVE IInv'
<1>1. Acquired \subseteq Available
  BY DEF Acquired
<1>2. TypeOK'
  BY <1>1 DEF AcquireBatch, IInv, TypeOK, broker, Available, PubState
<1>3. ASSUME NEW m \in Messages PROVE RowInv(m)'
  BY DEF AcquireBatch, IInv, RowInv, broker
<1>4. \A m \in Messages : lock[m] # v
  BY DEF AcquireBatch, IInv, CopyInv, LockInv
<1>5. ASSUME NEW m \in Messages PROVE CountInv(m)'
  <2>1. CASE m \in Acquired
    BY <1>1, <2>1, NoWorkerAssumption
       DEF AcquireBatch, IInv, TypeOK, CountInv, Recorded, Available, broker
  <2>2. CASE m \notin Acquired
    BY <1>4, <2>2 DEF AcquireBatch, IInv, TypeOK, CountInv, Recorded, broker
  <2>3. QED BY <2>1, <2>2
<1>6. ASSUME NEW m \in Messages, NEW w \in Workers PROVE CopyInv(w, m)'
  <2>1. CASE w = v
    <3>1. pc'[v] = "publish" /\ rows' = rows
      BY DEF AcquireBatch, IInv, TypeOK
    <3>2. CASE m \in Acquired
      <4>1. /\ copy'[v][m] = rows[m] /\ rows[m] \in Message
            /\ pub'[v][m] = "queued"
            /\ rows[m] # NoRow /\ ~rows[m].processed_at /\ ~rows[m].failed_at
        BY <1>1, <3>2 DEF AcquireBatch, IInv, TypeOK, Available
      <4>2. rows[m].attempts < MaxAttempts
        BY <4>1, ConfigAssumption DEF IInv, RowInv, Message
      <4>3. QED BY <2>1, <3>1, <4>1, <4>2 DEF CopyInv
    <3>3. CASE m \notin Acquired
      <4>1. copy'[v][m] = NoRow /\ pub'[v][m] = "none"
        BY <3>3 DEF AcquireBatch, IInv, TypeOK
      <4>2. QED BY <2>1, <4>1 DEF CopyInv
    <3>4. QED BY <3>2, <3>3
  <2>2. CASE w # v
    BY <2>2 DEF AcquireBatch, IInv, TypeOK, CopyInv, broker
  <2>3. QED BY <2>1, <2>2
<1>7. ASSUME NEW m \in Messages, NEW w \in Workers PROVE LockInv(w, m)'
  <2>1. CASE w = v
    BY <1>1, <1>4, <2>1 DEF AcquireBatch, IInv, TypeOK, LockInv, Available, broker
  <2>2. CASE w # v
    BY <1>1, <2>2, NoWorkerAssumption
       DEF AcquireBatch, IInv, TypeOK, LockInv, Available, broker
  <2>3. QED BY <2>1, <2>2
<1>8. QED BY <1>2, <1>3, <1>5, <1>6, <1>7 DEF IInv

LEMMA IdleInv ==
  ASSUME NEW v \in Workers, IInv, AcquireNothing(v) \/ Wake(v) \/ Restart(v)
  PROVE  IInv'
<1>1. TypeOK'
  BY DEF AcquireNothing, Wake, Restart, IInv, TypeOK, table, broker
<1>2. ASSUME NEW m \in Messages PROVE RowInv(m)' /\ CountInv(m)'
  BY DEF AcquireNothing, Wake, Restart, IInv, RowInv, CountInv, Recorded, table, broker
<1>3. ASSUME NEW m \in Messages, NEW w \in Workers PROVE CopyInv(w, m)'
  BY DEF AcquireNothing, Wake, Restart, IInv, TypeOK, CopyInv, table, broker
<1>4. ASSUME NEW m \in Messages, NEW w \in Workers PROVE LockInv(w, m)'
  BY DEF AcquireNothing, Wake, Restart, IInv, LockInv, table, broker
<1>5. QED BY <1>1, <1>2, <1>3, <1>4 DEF IInv

LEMMA SaveAllInv ==
  ASSUME NEW v \in Workers, IInv, SaveAll(v) PROVE IInv'
<1>1. TypeOK'
  BY DEF SaveAll, IInv, TypeOK, table, broker
<1>2. ASSUME NEW m \in Messages PROVE RowInv(m)' /\ CountInv(m)'
  BY DEF SaveAll, IInv, RowInv, CountInv, Recorded, table, broker
<1>3. ASSUME NEW m \in Messages, NEW w \in Workers PROVE CopyInv(w, m)'
  BY DEF SaveAll, Published, IInv, TypeOK, CopyInv, table, broker
<1>4. ASSUME NEW m \in Messages, NEW w \in Workers PROVE LockInv(w, m)'
  BY DEF SaveAll, IInv, LockInv, table, broker
<1>5. QED BY <1>1, <1>2, <1>3, <1>4 DEF IInv

LEMMA StartPublishInv ==
  ASSUME NEW v \in Workers, NEW p \in Messages, IInv, StartPublish(v, p)
  PROVE  IInv'
<1>1. pub[v][p] = "queued"
  BY DEF StartPublish, NextQueued, Queued
<1>2. TypeOK'
  BY DEF StartPublish, IInv, TypeOK, PubState, table, broker
<1>3. ASSUME NEW m \in Messages PROVE RowInv(m)'
  BY DEF StartPublish, IInv, RowInv, table, broker
<1>4. ASSUME NEW m \in Messages PROVE CountInv(m)'
  BY <1>1 DEF StartPublish, IInv, TypeOK, CountInv, Recorded, table, broker
<1>5. ASSUME NEW m \in Messages, NEW w \in Workers PROVE CopyInv(w, m)'
  BY <1>1 DEF StartPublish, IInv, TypeOK, CopyInv, table, broker
<1>6. ASSUME NEW m \in Messages, NEW w \in Workers PROVE LockInv(w, m)'
  BY <1>1 DEF StartPublish, IInv, TypeOK, LockInv, table, broker
<1>7. QED BY <1>2, <1>3, <1>4, <1>5, <1>6 DEF IInv

LEMMA BrokerAcceptInv ==
  ASSUME NEW v \in Workers, NEW p \in Messages, IInv, BrokerAccept(v, p)
  PROVE  IInv'
<1>1. TypeOK'
  BY DEF BrokerAccept, IInv, TypeOK, PubState, table
<1>2. ASSUME NEW m \in Messages PROVE RowInv(m)'
  BY DEF BrokerAccept, IInv, TypeOK, RowInv, table
<1>3. ASSUME NEW m \in Messages PROVE CountInv(m)'
  <2>1. CASE m # p
    BY <2>1 DEF BrokerAccept, IInv, TypeOK, CountInv, Recorded, table
  <2>2. CASE m = p /\ connected[v]
    <3>1. lock[p] = v /\ ~rows[p].processed_at /\ pub[v][p] = "sent"
      BY <2>2 DEF BrokerAccept, IInv, LockInv
    <3>2. ~Recorded(p) /\ Recorded(p)'
      BY <3>1, <2>2 DEF BrokerAccept, IInv, TypeOK, Recorded, table
    <3>3. accepted'[p] = accepted[p] + 1 /\ unrecorded'[p] = unrecorded[p]
      BY <2>2 DEF BrokerAccept, IInv, TypeOK
    <3>4. QED BY <2>2, <3>2, <3>3 DEF IInv, TypeOK, CountInv
  <2>3. CASE m = p /\ ~connected[v]
    <3>1. lock[p] # v
      BY <2>3 DEF IInv, LockInv
    <3>2. Recorded(p)' <=> Recorded(p)
      BY <3>1 DEF BrokerAccept, IInv, TypeOK, Recorded, table
    <3>3. accepted'[p] = accepted[p] + 1 /\ unrecorded'[p] = unrecorded[p] + 1
      BY <2>3 DEF BrokerAccept, IInv, TypeOK
    <3>4. QED BY <2>3, <3>2, <3>3 DEF IInv, TypeOK, CountInv
  <2>4. QED BY <2>1, <2>2, <2>3
<1>4. ASSUME NEW m \in Messages, NEW w \in Workers PROVE CopyInv(w, m)'
  BY DEF BrokerAccept, IInv, TypeOK, CopyInv, table
<1>5. ASSUME NEW m \in Messages, NEW w \in Workers PROVE LockInv(w, m)'
  BY DEF BrokerAccept, IInv, TypeOK, LockInv, table
<1>6. QED BY <1>1, <1>2, <1>3, <1>4, <1>5 DEF IInv

LEMMA PublishOkInv ==
  ASSUME NEW v \in Workers, NEW p \in Messages, IInv, PublishOk(v, p)
  PROVE  IInv'
<1>1. copy[v][p] \in Message
  BY DEF PublishOk, IInv, TypeOK, CopyInv
<1>2. /\ MarkProcessed(copy[v][p]) \in Message
      /\ MarkProcessed(copy[v][p]) # NoRow
      /\ MarkProcessed(copy[v][p]).processed_at
      /\ MarkProcessed(copy[v][p]).failed_at = copy[v][p].failed_at
      /\ MarkProcessed(copy[v][p]).attempts = copy[v][p].attempts
  BY <1>1, NoRowAssumption DEF MarkProcessed, Message
<1>3. TypeOK'
  BY <1>2 DEF PublishOk, IInv, TypeOK, PubState, table, broker
<1>4. ASSUME NEW m \in Messages PROVE RowInv(m)'
  BY DEF PublishOk, IInv, RowInv, table, broker
<1>5. ASSUME NEW m \in Messages PROVE CountInv(m)'
  BY DEF PublishOk, IInv, TypeOK, CountInv, Recorded, table, broker
<1>6. ASSUME NEW m \in Messages, NEW w \in Workers PROVE CopyInv(w, m)'
  <2>1. CASE w = v /\ m = p
    <3>1. copy'[v][p] = MarkProcessed(copy[v][p]) /\ pub'[v][p] = "ok"
      BY DEF PublishOk, IInv, TypeOK
    <3>2. QED BY <1>1, <1>2, <2>1, <3>1 DEF PublishOk, IInv, CopyInv, table, broker
  <2>2. CASE ~(w = v /\ m = p)
    BY <2>2 DEF PublishOk, IInv, TypeOK, CopyInv, table, broker
  <2>3. QED BY <2>1, <2>2
<1>7. ASSUME NEW m \in Messages, NEW w \in Workers PROVE LockInv(w, m)'
  <2>1. CASE w = v /\ m = p
    <3>1. copy'[v][p] = MarkProcessed(copy[v][p]) /\ pub'[v][p] = "ok"
      BY DEF PublishOk, IInv, TypeOK
    <3>2. QED BY <1>2, <2>1, <3>1 DEF PublishOk, IInv, LockInv, table
  <2>2. CASE ~(w = v /\ m = p)
    BY <2>2 DEF PublishOk, IInv, TypeOK, LockInv, table
  <2>3. QED BY <2>1, <2>2
<1>8. QED BY <1>3, <1>4, <1>5, <1>6, <1>7 DEF IInv

LEMMA PublishErrorInv ==
  ASSUME NEW v \in Workers, NEW p \in Messages, IInv, PublishError(v, p)
  PROVE  IInv'
<1> DEFINE c == copy[v][p]
           d == MarkFailed(c, now, RetryPolicy[c.attempts + 1], MaxAttempts)
<1>1. c \in Message /\ c.attempts < MaxAttempts /\ ~c.processed_at /\ ~c.failed_at
  BY DEF PublishError, IInv, TypeOK, CopyInv
<1>2. now \in Nat /\ RetryPolicy[c.attempts + 1] \in Nat
  BY <1>1, ConfigAssumption DEF IInv, TypeOK, Message
<1>3. d \in Message /\ d # NoRow
  BY <1>1, <1>2, MarkedMessages, NoRowAssumption
<1>4. /\ d.attempts = c.attempts + 1
      /\ ~d.processed_at
      /\ d.failed_at <=> d.attempts >= MaxAttempts
  BY <1>1, <1>2 DEF MarkFailed, Message
<1>5. /\ copy' = [copy EXCEPT ![v][p] = d]
      /\ pub' = [pub EXCEPT ![v][p] = "error"]
  BY DEF PublishError
<1> HIDE DEF d
<1>6. TypeOK'
  BY <1>3, <1>5 DEF PublishError, IInv, TypeOK, PubState, table
<1>7. ASSUME NEW m \in Messages PROVE RowInv(m)'
  BY DEF PublishError, IInv, RowInv, table
<1>8. ASSUME NEW m \in Messages PROVE CountInv(m)'
  <2>1. CASE m # p
    BY <1>5, <2>1 DEF PublishError, IInv, TypeOK, CountInv, Recorded, table
  <2>2. CASE m = p /\ lock[p] # v
    <3>1. Recorded(p)' <=> Recorded(p)
      BY <1>5, <2>2 DEF PublishError, IInv, TypeOK, Recorded, table
    <3>2. accepted' = accepted /\ unrecorded'[p] \in {unrecorded[p], unrecorded[p] + 1}
      BY DEF PublishError, IInv, TypeOK
    <3>3. QED BY <2>2, <3>1, <3>2 DEF IInv, TypeOK, CountInv
  <2>3. CASE m = p /\ lock[p] = v
    <3>1. connected[v] /\ ~rows[p].processed_at
      BY <2>3 DEF IInv, LockInv
    <3>2. ~Recorded(p)'
      BY <1>5, <2>3, <3>1 DEF PublishError, IInv, TypeOK, Recorded, table
    <3>3. CASE pub[v][p] = "accepted"
      BY <2>3, <3>1, <3>2, <3>3 DEF PublishError, IInv, TypeOK, CountInv
    <3>4. CASE pub[v][p] = "sent"
      <4>1. ~Recorded(p)
        BY <2>3, <3>1, <3>4 DEF Recorded
      <4>2. QED BY <2>3, <3>2, <3>4, <4>1 DEF PublishError, IInv, TypeOK, CountInv
    <3>5. QED BY <3>3, <3>4 DEF PublishError
  <2>4. QED BY <2>1, <2>2, <2>3
<1>9. ASSUME NEW m \in Messages, NEW w \in Workers PROVE CopyInv(w, m)'
  <2>1. CASE w = v /\ m = p
    <3>1. copy'[v][p] = d /\ pub'[v][p] = "error"
      BY <1>5 DEF IInv, TypeOK
    <3>2. QED BY <1>3, <1>4, <2>1, <3>1 DEF PublishError, IInv, CopyInv, table
  <2>2. CASE ~(w = v /\ m = p)
    BY <1>5, <2>2 DEF PublishError, IInv, TypeOK, CopyInv, table
  <2>3. QED BY <2>1, <2>2
<1>10. ASSUME NEW m \in Messages, NEW w \in Workers PROVE LockInv(w, m)'
  <2>1. CASE w = v /\ m = p
    <3>1. copy'[v][p] = d /\ pub'[v][p] = "error"
      BY <1>5 DEF IInv, TypeOK
    <3>2. lock[p] = v => c = rows[p]
      BY DEF PublishError, IInv, LockInv
    <3>3. QED BY <1>4, <2>1, <3>1, <3>2 DEF PublishError, IInv, LockInv, table
  <2>2. CASE ~(w = v /\ m = p)
    BY <1>5, <2>2 DEF PublishError, IInv, TypeOK, LockInv, table
  <2>3. QED BY <2>1, <2>2
<1>11. QED BY <1>6, <1>7, <1>8, <1>9, <1>10 DEF IInv

\* The transaction that commits replaces the rows it locked, and only those.
LEMMA CommitInv ==
  ASSUME NEW v \in Workers, NEW next \in {"ready", "sleep"}, IInv,
         CommitAs(v, next), faults' \in 0..MaxFaults
  PROVE  IInv'
<1>1. \A m \in Messages : m \in Batch(v) <=> lock[m] = v
  BY DEF CommitAs, Batch, IInv, LockInv
<1>2. \A m \in Batch(v) : /\ pub[v][m] \in {"ok", "error"}
                          /\ copy[v][m] \in Message /\ copy[v][m] # NoRow
                          /\ rows'[m] = copy[v][m]
                          /\ rows[m] \in Message /\ rows[m] # NoRow
  BY NoRowAssumption DEF CommitAs, WriteBatch, Batch, IInv, TypeOK, PubState, CopyInv
<1>3. \A m \in Messages \ Batch(v) : rows'[m] = rows[m]
  BY DEF CommitAs, WriteBatch
<1>4. TypeOK'
  BY <1>2, <1>3 DEF CommitAs, WriteBatch, Unlock, DropBatch, IInv, TypeOK, PubState, broker
<1>5. ASSUME NEW m \in Messages PROVE RowInv(m)'
  <2>1. CASE m \in Batch(v)
    BY <1>2, <2>1, ConfigAssumption
       DEF CommitAs, Batch, IInv, TypeOK, RowInv, CopyInv, Message, broker
  <2>2. CASE m \notin Batch(v)
    BY <1>3, <2>2 DEF CommitAs, IInv, RowInv, broker
  <2>3. QED BY <2>1, <2>2
<1>6. ASSUME NEW m \in Messages PROVE CountInv(m)'
  <2>1. CASE m \in Batch(v)
    <3>1. Recorded(m) => Recorded(m)'
      BY <1>1, <1>2, <2>1 DEF IInv, Recorded, CopyInv, LockInv
    <3>2. QED BY <3>1 DEF CommitAs, IInv, TypeOK, CountInv, broker
  <2>2. CASE m \notin Batch(v)
    <3>1. lock'[m] = lock[m] /\ lock[m] # v
      BY <1>1, <2>2 DEF CommitAs, Unlock
    <3>2. lock[m] \in Workers => pub'[lock[m]] = pub[lock[m]]
      BY <3>1 DEF CommitAs, DropBatch, IInv, TypeOK
    <3>3. QED BY <1>3, <2>2, <3>1, <3>2 DEF CommitAs, IInv, CountInv, Recorded, broker
  <2>3. QED BY <2>1, <2>2
<1>7. ASSUME NEW m \in Messages, NEW w \in Workers PROVE CopyInv(w, m)'
  <2>1. CASE w = v
    BY <2>1 DEF CommitAs, DropBatch, IInv, TypeOK, CopyInv
  <2>2. CASE w # v
    <3>1. copy'[w] = copy[w] /\ pub'[w] = pub[w] /\ pc'[w] = pc[w]
      BY <2>2 DEF CommitAs, DropBatch, IInv, TypeOK
    <3>2. rows[m] # NoRow => rows'[m] # NoRow
      BY <1>2, <1>3
    <3>3. QED BY <3>1, <3>2 DEF CommitAs, IInv, CopyInv, broker
  <2>3. QED BY <2>1, <2>2
<1>8. ASSUME NEW m \in Messages, NEW w \in Workers PROVE LockInv(w, m)'
  <2>1. CASE w = v
    BY <2>1, NoWorkerAssumption DEF CommitAs, Unlock, DropBatch, IInv, TypeOK, LockInv
  <2>2. CASE w # v
    <3>1. /\ copy'[w] = copy[w] /\ pub'[w] = pub[w] /\ connected'[w] = connected[w]
      BY <2>2 DEF CommitAs, DropBatch, IInv, TypeOK
    <3>2. lock'[m] = w <=> lock[m] = w
      BY <2>2, NoWorkerAssumption DEF CommitAs, Unlock
    <3>3. lock[m] = w => rows'[m] = rows[m]
      BY <1>1, <1>3, <2>2
    <3>4. QED BY <3>1, <3>2, <3>3 DEF IInv, LockInv
  <2>3. QED BY <2>1, <2>2
<1>9. QED BY <1>4, <1>5, <1>6, <1>7, <1>8 DEF IInv

\* Losing the transaction, by rollback, crash or a broken connection: rows stay,
\* locks go, acceptances that were to be recorded become unrecorded.
LEMMA ForgetInv ==
  ASSUME NEW v \in Workers, IInv, Unlock(v), Forget(v),
         UNCHANGED <<rows, staged, accepted>>,
         \A w \in Workers \ {v} : pub'[w] = pub[w]
  PROVE  \A m \in Messages : RowInv(m)' /\ CountInv(m)'
<1> TAKE m \in Messages
<1>1. RowInv(m)'
  BY DEF IInv, RowInv
<1>2. CountInv(m)'
  <2>1. CASE lock[m] = v
    <3>1. ~Recorded(m)'
      BY <2>1, NoWorkerAssumption DEF Unlock, IInv, LockInv, Recorded
    <3>2. QED BY <2>1, <3>1 DEF Forget, IInv, TypeOK, CountInv, LockInv, Recorded
  <2>2. CASE lock[m] # v
    <3>1. lock'[m] = lock[m] /\ unrecorded'[m] = unrecorded[m]
      BY <2>2 DEF Unlock, Forget
    <3>2. QED BY <2>2, <3>1 DEF IInv, CountInv, Recorded
  <2>3. QED BY <2>1, <2>2
<1>3. QED BY <1>1, <1>2

LEMMA RollbackInv ==
  ASSUME NEW v \in Workers, NEW next \in {"sleep", "down"}, IInv,
         Rollback(v, next), faults' \in 0..MaxFaults
  PROVE  IInv'
<1>1. TypeOK'
  BY DEF Rollback, Unlock, DropBatch, Forget, IInv, TypeOK, PubState
<1>2. \A w \in Workers \ {v} : /\ pub'[w] = pub[w] /\ copy'[w] = copy[w]
                               /\ pc'[w] = pc[w] /\ connected'[w] = connected[w]
  BY DEF Rollback, DropBatch, IInv, TypeOK
<1>3. \A m \in Messages : RowInv(m)' /\ CountInv(m)'
  BY <1>2, ForgetInv DEF Rollback
<1>4. ASSUME NEW m \in Messages, NEW w \in Workers PROVE CopyInv(w, m)'
  <2>1. CASE w = v
    BY <2>1 DEF Rollback, DropBatch, IInv, TypeOK, CopyInv
  <2>2. CASE w # v
    BY <1>2, <2>2 DEF Rollback, IInv, CopyInv
  <2>3. QED BY <2>1, <2>2
<1>5. ASSUME NEW m \in Messages, NEW w \in Workers PROVE LockInv(w, m)'
  <2>1. CASE w = v
    BY <2>1, NoWorkerAssumption DEF Rollback, Unlock, DropBatch, IInv, TypeOK, LockInv
  <2>2. CASE w # v
    <3>1. lock'[m] = w <=> lock[m] = w
      BY <2>2, NoWorkerAssumption DEF Rollback, Unlock
    <3>2. QED BY <1>2, <2>2, <3>1 DEF Rollback, IInv, LockInv
  <2>3. QED BY <2>1, <2>2
<1>6. QED BY <1>1, <1>3, <1>4, <1>5 DEF IInv

LEMMA LoseConnectionInv ==
  ASSUME NEW v \in Workers, IInv, LoseConnection(v) PROVE IInv'
<1>1. TypeOK'
  BY BoundsAssumption DEF LoseConnection, Unlock, Forget, IInv, TypeOK
<1>2. \A m \in Messages : RowInv(m)' /\ CountInv(m)'
  BY ForgetInv DEF LoseConnection
<1>3. ASSUME NEW m \in Messages, NEW w \in Workers PROVE CopyInv(w, m)'
  BY DEF LoseConnection, IInv, CopyInv
<1>4. ASSUME NEW m \in Messages, NEW w \in Workers PROVE LockInv(w, m)'
  <2>1. CASE w = v
    BY <2>1, NoWorkerAssumption DEF LoseConnection, Unlock, IInv, TypeOK, LockInv
  <2>2. CASE w # v
    <3>1. lock'[m] = w <=> lock[m] = w
      BY <2>2, NoWorkerAssumption DEF LoseConnection, Unlock
    <3>2. QED BY <2>2, <3>1 DEF LoseConnection, IInv, TypeOK, LockInv
  <2>3. QED BY <2>1, <2>2
<1>5. QED BY <1>1, <1>2, <1>3, <1>4 DEF IInv

LEMMA RollbackSaveInv ==
  ASSUME NEW p \in Messages, IInv, RollbackSave(p) PROVE IInv'
<1>1. TypeOK'
  BY DEF RollbackSave, IInv, TypeOK, worker, broker
<1>2. ASSUME NEW m \in Messages PROVE RowInv(m)' /\ CountInv(m)'
  BY DEF RollbackSave, IInv, TypeOK, RowInv, CountInv, Recorded, worker, broker
<1>3. ASSUME NEW m \in Messages, NEW w \in Workers PROVE CopyInv(w, m)' /\ LockInv(w, m)'
  BY DEF RollbackSave, IInv, CopyInv, LockInv, worker, broker
<1>4. QED BY <1>1, <1>2, <1>3 DEF IInv

------------------------------------------------------------------------------
LEMMA NextInv == IInv /\ [Next]_vars => IInv'
<1> SUFFICES ASSUME IInv, [Next]_vars PROVE IInv'
  OBVIOUS
<1> faults \in Nat /\ faults \in 0..MaxFaults /\ MaxFaults \in Nat
  BY BoundsAssumption DEF IInv, TypeOK
<1>1. CASE Tick
  BY <1>1, TickInv
<1>2. ASSUME NEW m \in Messages, Producer(m) PROVE IInv'
  BY <1>2, SaveInv, CommitSaveInv, RollbackSaveInv DEF Producer
<1>3. ASSUME NEW w \in Workers, Loop(w) PROVE IInv'
  <2>1. CASE AcquireBatch(w)
    BY <2>1, AcquireBatchInv
  <2>2. CASE AcquireNothing(w) \/ Wake(w) \/ Restart(w)
    BY <2>2, IdleInv
  <2>3. CASE SaveAll(w)
    BY <2>3, SaveAllInv
  <2>4. CASE Commit(w)
    BY <2>4, CommitInv DEF Commit
  <2>5. CASE ProcessRaises(w)
    <3>1. faults' \in 0..MaxFaults
      BY <2>5 DEF ProcessRaises
    <3>2. QED BY <2>5, <3>1, RollbackInv DEF ProcessRaises
  <2>6. QED BY <1>3, <2>1, <2>2, <2>3, <2>4, <2>5 DEF Loop
<1>4. ASSUME NEW w \in Workers, Fault(w) PROVE IInv'
  <2>1. CASE CommitReplyLost(w)
    <3>1. faults' \in 0..MaxFaults
      BY <2>1 DEF CommitReplyLost
    <3>2. QED BY <2>1, <3>1, CommitInv DEF CommitReplyLost
  <2>2. CASE Crash(w)
    <3>1. faults' \in 0..MaxFaults
      BY <2>2 DEF Crash
    <3>2. QED BY <2>2, <3>1, RollbackInv DEF Crash
  <2>3. CASE LoseConnection(w)
    BY <2>3, LoseConnectionInv
  <2>4. QED BY <1>4, <2>1, <2>2, <2>3 DEF Fault
<1>5. ASSUME NEW w \in Workers, NEW m \in Messages, Publish(w, m) PROVE IInv'
  BY <1>5, StartPublishInv, BrokerAcceptInv, PublishOkInv, PublishErrorInv DEF Publish
<1>6. CASE UNCHANGED vars
  BY <1>6 DEF vars, table, worker, broker, IInv, TypeOK, RowInv, CountInv, Recorded,
              CopyInv, LockInv
<1>7. QED BY <1>1, <1>2, <1>3, <1>4, <1>5, <1>6 DEF Next

\* The inductive invariant, type correctness included: at every moment a row is
\* locked exactly by the live batch that holds it, still equal to what that batch
\* acquired, and every broker acceptance is recorded, about to be, or lost.
THEOREM Invariance == Spec => []IInv
<1>1. QED BY InitInv, NextInv, PTL DEF Spec

\* No two live batches hold the same message (FOR UPDATE SKIP LOCKED).
THEOREM Exclusive == Spec => []ExclusiveBatch
<1>1. IInv => ExclusiveBatch
  BY DEF IInv, LockInv, ExclusiveBatch, Batch
<1>2. QED BY <1>1, Invariance, PTL

\* A processed row was accepted by the broker.
THEOREM AtLeastOnce == Spec => []ProcessedWasAccepted
<1>1. IInv => ProcessedWasAccepted
  BY DEF IInv, RowInv, ProcessedWasAccepted, Status
<1>2. QED BY <1>1, Invariance, PTL

\* All copies at the broker but one are due to an error after acceptance or to a
\* lost transaction; delivery is exactly once when neither happens.
THEOREM Duplicates == Spec => []DuplicatesAreExplained
<1>1. IInv => DuplicatesAreExplained
  BY DEF IInv, TypeOK, CountInv, DuplicatesAreExplained
<1>2. QED BY <1>1, Invariance, PTL

\* A message fails after exactly max_attempts recorded attempts.
THEOREM AttemptsExact == Spec => []FailedIffExhausted
<1>1. IInv => FailedIffExhausted
  BY DEF IInv, RowInv, FailedIffExhausted, Status
<1>2. QED BY <1>1, Invariance, PTL

------------------------------------------------------------------------------
\* Which rows a step can change, and to what.
LEMMA RowSteps ==
  ASSUME IInv, [Next]_vars, NEW m \in Messages, rows'[m] # rows[m]
  PROVE  \/ /\ rows[m] = NoRow /\ rows'[m] = staged[m] /\ staged[m] # NoRow
            /\ accepted' = accepted
         \/ \E w \in Workers :
              /\ pub[w][m] \in {"ok", "error"} /\ lock[m] = w
              /\ rows'[m] = copy[w][m] /\ accepted' = accepted
<1>1. CASE \E p \in Messages : CommitSave(p)
  <2>1. PICK p \in Messages : CommitSave(p)
    BY <1>1
  <2>2. p = m
    BY <2>1 DEF CommitSave, IInv, TypeOK
  <2>3. QED BY <2>1, <2>2 DEF CommitSave, IInv, TypeOK, RowInv, broker
<1>2. CASE \E w \in Workers, next \in {"ready", "sleep"} : CommitAs(w, next)
  <2>1. PICK w \in Workers, next \in {"ready", "sleep"} : CommitAs(w, next)
    BY <1>2
  <2>2. m \in Batch(w) /\ rows'[m] = copy[w][m]
    BY <2>1 DEF CommitAs, WriteBatch
  <2>3. pub[w][m] \in {"ok", "error"} /\ lock[m] = w
    BY <2>1, <2>2 DEF CommitAs, Batch, IInv, TypeOK, PubState, CopyInv, LockInv
  <2>4. QED BY <2>1, <2>2, <2>3 DEF CommitAs, broker
<1>3. QED
  BY <1>1, <1>2
     DEF Next, Tick, Producer, Save, RollbackSave, Loop, Fault, Publish, AcquireBatch,
         AcquireNothing, Wake, Restart, SaveAll, Commit, CommitReplyLost, ProcessRaises,
         Crash, Rollback, LoseConnection, StartPublish, BrokerAccept, PublishOk,
         PublishError, vars, table

\* processed and failed are final, attempts never go back.
THEOREM Progress == Spec => RowsOnlyProgress
<1>1. ASSUME IInv, [Next]_vars, NEW m \in Messages, rows[m] # NoRow, rows'[m] # rows[m]
      PROVE  /\ rows'[m] # NoRow
             /\ Status(rows[m]) = "pending"
             /\ rows'[m].attempts >= rows[m].attempts
  <2>1. PICK w \in Workers : /\ pub[w][m] \in {"ok", "error"} /\ lock[m] = w
                             /\ rows'[m] = copy[w][m]
    BY <1>1, RowSteps
  <2>2. rows[m] \in Message /\ copy[w][m] # NoRow
    BY <1>1, <2>1 DEF IInv, TypeOK, CopyInv
  <2>3. Status(rows[m]) = "pending"
    BY <1>1, <2>1 DEF IInv, LockInv, Status
  <2>4. copy[w][m].attempts \in {rows[m].attempts, rows[m].attempts + 1}
    BY <1>1, <2>1 DEF IInv, LockInv
  <2>5. QED BY <2>1, <2>2, <2>3, <2>4 DEF Message
<1>2. IInv /\ [Next]_vars => [\A m \in Messages : RowProgress(m)]_vars
  BY <1>1 DEF RowProgress
<1>3. QED BY <1>2, Invariance, PTL DEF Spec, RowsOnlyProgress

\* What holds of the batch a transaction commits.
LEMMA CommittedBatch ==
  ASSUME IInv, NEW w \in Workers, NEW next, CommitAs(w, next), NEW m \in Batch(w)
  PROVE  /\ m \in Messages /\ rows'[m] = copy[w][m]
         /\ lock[m] = w /\ pub[w][m] \in {"ok", "error"}
         /\ rows[m] # NoRow /\ copy[w][m] # NoRow
         /\ Status(rows[m]) = "pending"
<1>1. m \in Messages /\ pub[w][m] # "none"
  BY DEF Batch
<1>2. rows'[m] = copy[w][m]
  BY <1>1 DEF CommitAs, WriteBatch
<1>3. lock[m] = w
  BY <1>1 DEF CommitAs, IInv, LockInv
<1>4. Status(rows[m]) = "pending"
  BY <1>1, <1>3 DEF IInv, LockInv, Status
<1>5. CopyInv(w, m) /\ pub[w][m] \in PubState
  BY <1>1 DEF IInv, TypeOK
<1>6. pub[w][m] \in {"ok", "error"} /\ rows[m] # NoRow /\ copy[w][m] # NoRow
  BY <1>1, <1>5 DEF CommitAs, CopyInv, PubState
<1>7. QED BY <1>1, <1>2, <1>3, <1>4, <1>6

\* A commit gives no message of its batch back untouched.
THEOREM Settling == Spec => CommitSettlesBatch
<1>1. ASSUME IInv, [Next]_vars, NEW w \in Workers, pc[w] = "commit", pc'[w] = "ready"
      PROVE  CommitAs(w, "ready")
  <2>1. pc' # pc
    BY <1>1
  <2>2. PICK v \in Workers : Loop(v) \/ Fault(v)
    BY <1>1, <2>1
       DEF Next, Tick, Producer, Save, CommitSave, RollbackSave, Publish, StartPublish,
           BrokerAccept, PublishOk, PublishError, vars, worker
  <2>3. \E to : pc' = [pc EXCEPT ![v] = to]
    BY <1>1, <2>1, <2>2
       DEF Loop, Fault, AcquireBatch, AcquireNothing, Wake, Restart, SaveAll, Commit,
           CommitAs, CommitReplyLost, ProcessRaises, Crash, Rollback, LoseConnection
  <2>4. v = w
    BY <1>1, <2>3 DEF IInv, TypeOK
  <2>5. QED
    BY <1>1, <2>2, <2>4
       DEF IInv, TypeOK, Loop, Fault, AcquireBatch, AcquireNothing, Wake, Restart,
           SaveAll, Commit, CommitReplyLost, CommitAs, ProcessRaises, Crash, Rollback,
           LoseConnection
<1>2. ASSUME IInv, NEW w \in Workers, CommitAs(w, "ready"), NEW m \in Batch(w)
      PROVE  \/ Status(rows'[m]) = "processed"
             \/ rows'[m].attempts = rows[m].attempts + 1
  <2>1. /\ m \in Messages /\ rows'[m] = copy[w][m]
        /\ lock[m] = w /\ pub[w][m] \in {"ok", "error"}
    BY <1>2, CommittedBatch
  <2>2. CASE pub[w][m] = "ok"
    BY <1>2, <2>1, <2>2 DEF IInv, CopyInv, Status
  <2>3. CASE pub[w][m] = "error"
    BY <1>2, <2>1, <2>3 DEF IInv, LockInv
  <2>4. QED BY <2>1, <2>2, <2>3
<1>3. IInv /\ [Next]_vars => [\A w \in Workers : SettlesBatch(w)]_vars
  BY <1>1, <1>2 DEF SettlesBatch
<1>4. QED BY <1>3, Invariance, PTL DEF Spec, CommitSettlesBatch

------------------------------------------------------------------------------
\* The state the abstract specification sees.
Seen(m) == IF rows[m] = NoRow THEN "absent" ELSE Status(rows[m])
Took    == {m \in Messages : accepted[m] > 0}

\* A producer that commits enqueues its message.
LEMMA EnqueueStep ==
  ASSUME IInv, NEW p \in Messages, CommitSave(p)
  PROVE  D!Enqueue(p)
<1>1. /\ Seen(p) = "absent"
      /\ rows' = [rows EXCEPT ![p] = staged[p]]
      /\ Status(staged[p]) = "pending" /\ staged[p] # NoRow
      /\ accepted' = accepted
  BY DEF CommitSave, IInv, RowInv, Status, Seen, broker
<1>2. rows'[p] = staged[p] /\ \A m \in Messages \ {p} : rows'[m] = rows[m]
  BY <1>1 DEF IInv, TypeOK
<1>3. \A m \in Messages : Seen(m)' = IF m = p THEN "pending" ELSE Seen(m)
  BY <1>1, <1>2 DEF Seen
<1>4. QED BY <1>1, <1>3 DEF D!Enqueue, Seen

\* A broker acceptance is a delivery of a committed message.
LEMMA DeliverStep ==
  ASSUME IInv, NEW w \in Workers, NEW p \in Messages, BrokerAccept(w, p)
  PROVE  D!Deliver(p)
<1>1. rows' = rows /\ accepted' = [accepted EXCEPT ![p] = @ + 1]
  BY DEF BrokerAccept, table
<1>2. rows[p] # NoRow
  BY DEF BrokerAccept, IInv, CopyInv
<1>3. Took' = Took \union {p}
  BY <1>1 DEF IInv, TypeOK, Took
<1>4. QED BY <1>1, <1>2, <1>3 DEF D!Deliver, Took, Status

\* A commit settles the processed and the exhausted messages of its batch.
LEMMA SettleStep ==
  ASSUME IInv, NEW w \in Workers, NEW next, CommitAs(w, next)
  PROVE  \E done, dead \in SUBSET Messages : D!Settle(done, dead)
<1> PICK done \in SUBSET Messages, dead \in SUBSET Messages :
      /\ done = {m \in Batch(w) : pub[w][m] = "ok"}
      /\ dead = {m \in Batch(w) : pub[w][m] = "error" /\ copy[w][m].failed_at}
  BY DEF Batch
<1>1. \A m \in Batch(w) : /\ m \in Messages /\ rows'[m] = copy[w][m]
                          /\ lock[m] = w /\ pub[w][m] \in {"ok", "error"}
                          /\ rows[m] # NoRow /\ copy[w][m] # NoRow
                          /\ Status(rows[m]) = "pending"
  BY CommittedBatch
<1>2. \A m \in Messages \ Batch(w) : rows'[m] = rows[m]
  BY DEF CommitAs, WriteBatch
<1>3. accepted' = accepted
  BY DEF CommitAs, broker
<1>4. \A m \in done : accepted[m] > 0 /\ copy[w][m].processed_at
  BY <1>1 DEF IInv, CopyInv
<1>5. \A m \in Batch(w) \ done : ~copy[w][m].processed_at
  BY <1>1 DEF IInv, CopyInv
<1>6. \A m \in Messages : Seen(m)' = IF m \in done THEN "processed"
                                    ELSE IF m \in dead THEN "failed" ELSE Seen(m)
  BY <1>1, <1>2, <1>4, <1>5 DEF Seen, Status
<1>7. D!Settle(done, dead)
  BY <1>1, <1>3, <1>4, <1>6 DEF D!Settle, Seen
<1>8. QED BY <1>7

\* The outbox implements at-least-once delivery: every step of the workers, the
\* producers and the environment is a step of OutboxDelivery or changes nothing there.
THEOREM Refinement == Spec => ImplementsDelivery
<1>1. Init => D!Init
  BY DEF Init, D!Init
<1>2. ASSUME IInv, [Next]_vars PROVE [D!Next]_(D!vars)
  <2>1. CASE \E p \in Messages : CommitSave(p)
    BY <1>2, <2>1, EnqueueStep DEF D!Next
  <2>2. CASE \E w \in Workers, p \in Messages : BrokerAccept(w, p)
    BY <1>2, <2>2, DeliverStep DEF D!Next
  <2>3. CASE \E w \in Workers : Commit(w) \/ CommitReplyLost(w)
    BY <1>2, <2>3, SettleStep DEF D!Next, Commit, CommitReplyLost
  <2>4. CASE rows' = rows /\ accepted' = accepted
    BY <2>4 DEF D!vars, Status
  <2>5. QED
    BY <1>2, <2>1, <2>2, <2>3, <2>4
       DEF Next, Tick, Producer, Save, RollbackSave, Loop, Fault, Publish, AcquireBatch,
           AcquireNothing, Wake, Restart, SaveAll, ProcessRaises, Crash, Rollback,
           LoseConnection, StartPublish, PublishOk, PublishError, vars, table, broker
<1>3. QED BY <1>1, <1>2, Invariance, PTL DEF Spec, D!Spec, ImplementsDelivery
==============================================================================
