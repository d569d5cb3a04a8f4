----------------------------- MODULE NotifyProofs -----------------------------
(***************************************************************************)
(* Proofs about OutboxNotify, for any sets of messages and workers and any *)
(* number of postponements and faults.                                     *)
(***************************************************************************)
EXTENDS OutboxNotify, TLAPS

TypeOK ==
  /\ state \in [Messages -> {"absent", "due", "held", "postponed", "settled"}]
  /\ batch \in [Workers -> SUBSET Messages]
  /\ pc \in [Workers -> {"connect", "process", "publish", "idle", "wait", "backoff"}]
  /\ link \in [Workers -> {"none", "listening", "silent", "closed"}]
  /\ transit \in [Workers -> BOOLEAN]
  /\ event \in [Workers -> BOOLEAN]

(* From the moment process() finds nothing, and not only while it waits, a    *)
(* worker that listens hears of whatever is announced: between the two there  *)
(* is the step to wait() in which a notification must not be lost.            *)
Heard(w) ==
  (pc[w] \in {"idle", "wait"} /\ link[w] = "listening" /\ Due \ quiet # {}) =>
    event[w] \/ transit[w]

IInv == TypeOK /\ \A w \in Workers : Heard(w)

LEMMA InitIInv == Init => IInv
<1> SUFFICES ASSUME Init PROVE IInv
  OBVIOUS
<1>1. TypeOK
  BY DEF Init, TypeOK
<1>2. \A w \in Workers : Heard(w)
  BY DEF Init, Heard
<1> QED
  BY <1>1, <1>2 DEF IInv

------------------------------------------------------------------------------
(* The table *)

LEMMA CommitMessageKeeps ==
  ASSUME IInv, NEW m \in Messages, CommitMessage(m) PROVE IInv'
<1>1. TypeOK'
  BY DEF IInv, TypeOK, CommitMessage, Notify
<1>2. ASSUME NEW w \in Workers PROVE Heard(w)'
  BY DEF IInv, TypeOK, CommitMessage, Notify, Heard
<1> QED
  BY <1>1, <1>2 DEF IInv

LEMMA BecomeDueKeeps ==
  ASSUME IInv, NEW m \in Messages, BecomeDue(m) PROVE IInv'
<1>1. TypeOK'
  BY DEF IInv, TypeOK, BecomeDue, listener
<1>2. (Due \ quiet)' \subseteq Due \ quiet
  BY DEF IInv, TypeOK, BecomeDue, Due
<1>3. ASSUME NEW w \in Workers PROVE Heard(w)'
  BY <1>2 DEF IInv, BecomeDue, listener, Heard
<1> QED
  BY <1>1, <1>3 DEF IInv

------------------------------------------------------------------------------
(* process() *)

(* What a rollback gives back is quiet, so that nothing new is announced.     *)
LEMMA GiveBackIsQuiet ==
  ASSUME IInv, NEW w \in Workers, GiveBack(w)
  PROVE  /\ (Due \ quiet)' \subseteq Due \ quiet
         /\ state' \in [Messages -> {"absent", "due", "held", "postponed", "settled"}]
         /\ batch' \in [Workers -> SUBSET Messages]
BY DEF IInv, TypeOK, GiveBack, Due

LEMMA AcquireBatchKeeps ==
  ASSUME IInv, NEW w \in Workers, AcquireBatch(w) PROVE IInv'
<1>1. PICK b \in SUBSET Due :
        /\ batch' = [batch EXCEPT ![w] = b]
        /\ state' = [m \in Messages |-> IF m \in b THEN "held" ELSE state[m]]
        /\ quiet' = quiet \ b
  BY DEF AcquireBatch
<1>2. b \subseteq Messages
  BY DEF Due
<1>3. TypeOK'
  BY <1>1, <1>2 DEF IInv, TypeOK, AcquireBatch, Goto, listener
<1>4. (Due \ quiet)' \subseteq Due \ quiet
  BY <1>1 DEF Due
<1>5. ASSUME NEW v \in Workers PROVE Heard(v)'
  BY <1>4 DEF IInv, TypeOK, AcquireBatch, Goto, listener, Heard
<1> QED
  BY <1>3, <1>5 DEF IInv

LEMMA CommitBatchKeeps ==
  ASSUME IInv, NEW w \in Workers, CommitBatch(w) PROVE IInv'
<1>1. PICK again \in SUBSET batch[w] :
        state' = [m \in Messages |-> IF m \in again THEN "postponed"
                                     ELSE IF m \in batch[w] THEN "settled"
                                     ELSE state[m]]
  BY DEF CommitBatch
<1>2. \A v \in Workers : transit'[v] \in BOOLEAN /\ (transit[v] => transit'[v])
  BY DEF CommitBatch, Notify, IInv, TypeOK
<1>3. transit' \in [Workers -> BOOLEAN]
  BY DEF CommitBatch, Notify, IInv, TypeOK
<1>4. TypeOK'
  BY <1>1, <1>3 DEF IInv, TypeOK, CommitBatch, Goto
<1>5. (Due \ quiet)' \subseteq Due \ quiet
  BY <1>1 DEF Due, CommitBatch
<1>6. ASSUME NEW v \in Workers PROVE Heard(v)'
  BY <1>2, <1>5 DEF IInv, TypeOK, CommitBatch, Goto, Heard
<1> QED
  BY <1>4, <1>6 DEF IInv

LEMMA ProcessRaisesKeeps ==
  ASSUME IInv, NEW w \in Workers, ProcessRaises(w) PROVE IInv'
<1>1. TypeOK'
  BY GiveBackIsQuiet DEF IInv, TypeOK, ProcessRaises, LeaveListener, Goto
<1>2. ASSUME NEW v \in Workers PROVE Heard(v)'
  BY GiveBackIsQuiet DEF IInv, TypeOK, ProcessRaises, LeaveListener, Goto, Heard
<1> QED
  BY <1>1, <1>2 DEF IInv

LEMMA CrashKeeps ==
  ASSUME IInv, NEW w \in Workers, Crash(w) PROVE IInv'
<1>1. TypeOK'
  BY GiveBackIsQuiet DEF IInv, TypeOK, Crash, Goto
<1>2. ASSUME NEW v \in Workers PROVE Heard(v)'
  BY GiveBackIsQuiet DEF IInv, TypeOK, Crash, Goto, Heard
<1> QED
  BY <1>1, <1>2 DEF IInv

------------------------------------------------------------------------------
(* The listener, and the wait *)

(* These leave the messages alone, and each worker but w.                     *)
LEMMA ListenerKeeps ==
  ASSUME IInv, NEW w \in Workers,
         \/ Listen(w) \/ ListenFails(w) \/ OnNotification(w) \/ Break(w)
         \/ NoticeBreak(w) \/ Reconnect(w)
  PROVE  IInv'
<1>1. TypeOK'
  <2>1. CASE Listen(w) \/ ListenFails(w) \/ Reconnect(w)
    BY <2>1 DEF IInv, TypeOK, Listen, ListenFails, Reconnect, Goto, table, listener
  <2>2. CASE OnNotification(w) \/ NoticeBreak(w)
    BY <2>2 DEF IInv, TypeOK, OnNotification, NoticeBreak, table
  <2>3. CASE Break(w)
    BY <2>3 DEF IInv, TypeOK, Break, table
  <2> QED
    BY <2>1, <2>2, <2>3
<1>2. (Due \ quiet)' = Due \ quiet
  BY DEF Listen, ListenFails, OnNotification, Break, NoticeBreak, Reconnect, table, Due
<1>3. ASSUME NEW v \in Workers PROVE Heard(v)'
  BY <1>2 DEF IInv, TypeOK, Listen, ListenFails, OnNotification, Break, NoticeBreak,
         Reconnect, Goto, listener, Heard
<1> QED
  BY <1>1, <1>3 DEF IInv

(* A wait begins after process() has found nothing due; the event is cleared  *)
(* only when process() is next.                                               *)
LEMMA WaitKeeps ==
  ASSUME IInv, NEW w \in Workers,
         \/ AcquireNothing(w) \/ StartWait(w) \/ WaitRaises(w) \/ Notified(w)
         \/ WaitTimeout(w)
  PROVE  IInv'
<1>1. TypeOK'
  BY DEF IInv, TypeOK, AcquireNothing, StartWait, WaitRaises, Notified, WaitTimeout,
         LeaveListener, Goto, table, listener
<1>2. (Due \ quiet)' = Due \ quiet /\ (AcquireNothing(w) => Due = {})
  BY DEF AcquireNothing, StartWait, WaitRaises, Notified, WaitTimeout, table, Due
<1>3. ASSUME NEW v \in Workers PROVE Heard(v)'
  BY <1>2 DEF IInv, TypeOK, AcquireNothing, StartWait, WaitRaises, Notified, WaitTimeout,
         LeaveListener, Goto, listener, Heard
<1> QED
  BY <1>1, <1>3 DEF IInv

LEMMA StepIInv == IInv /\ [Next]_vars => IInv'
<1> SUFFICES ASSUME IInv, [Next]_vars PROVE IInv'
  OBVIOUS
<1>1. CASE Tick \/ UNCHANGED vars
  BY <1>1 DEF Tick, vars, table, listener, IInv, TypeOK, Heard, Due
<1>2. ASSUME NEW m \in Messages, CommitMessage(m) \/ BecomeDue(m) PROVE IInv'
  BY <1>2, CommitMessageKeeps, BecomeDueKeeps
<1>3. ASSUME NEW w \in Workers, Loop(w) PROVE IInv'
  BY <1>3, AcquireBatchKeeps, CommitBatchKeeps, ListenerKeeps, WaitKeeps DEF Loop
<1>4. ASSUME NEW w \in Workers,
             \/ OnNotification(w) \/ ListenFails(w) \/ Break(w) \/ NoticeBreak(w)
             \/ ProcessRaises(w) \/ Crash(w)
      PROVE  IInv'
  BY <1>4, ListenerKeeps, ProcessRaisesKeeps, CrashKeeps
<1> QED
  BY <1>1, <1>2, <1>3, <1>4 DEF Next

(* No wake-up falls between process() and wait(), for any number of workers,  *)
(* messages, rollbacks, broken sessions and crashes.                          *)
THEOREM NoWakeupLost == Spec => []NoLostWakeup
<1>1. IInv => NoLostWakeup
  BY DEF IInv, Heard, NoLostWakeup
<1> QED
  BY <1>1, InitIInv, StepIInv, PTL DEF Spec
==============================================================================
