----------------------------- MODULE OutboxNotify -----------------------------
(***************************************************************************)
(* run_postgres_notify_worker and PostgresOutboxListener: workers that     *)
(* wait for a NOTIFY instead of sleeping.  What process() does with a      *)
(* batch is the business of Outbox; here it acquires due messages and      *)
(* later settles or postpones them, or raises and gives them back.         *)
(*                                                                         *)
(* A notification is sent by the commit that announces a message, to the   *)
(* sessions that LISTEN at that moment.  It sets the listener's            *)
(* asyncio.Event some time later, and is gone when the session breaks.     *)
(* Nothing is sent when a message becomes due by the clock or by a         *)
(* rollback: those messages are "quiet".                                   *)
(***************************************************************************)
EXTENDS Integers, FiniteSets

CONSTANTS
  Messages, Workers,
  BatchSize,             \* OutboxConfig.batch_size
  PollInterval,          \* OutboxWorkerConfig.poll_interval, in ticks
  WorkersNotify,         \* the workers' store has a notify_channel too
  MaxRetries,            \* bound: postponements in a behaviour
  MaxFaults              \* bound: broken sessions, errors and crashes

ASSUME NotifyAssumption ==
       /\ BatchSize \in Nat \ {0}
       /\ PollInterval \in Nat
       /\ WorkersNotify \in BOOLEAN
       /\ MaxRetries \in Nat /\ MaxFaults \in Nat

VARIABLES
  state,      \* state[m]: "absent", "due", "held" by a batch, "postponed", "settled"
  quiet,      \* due messages no notification was sent for
  batch,      \* batch[w]: messages the worker's transaction locks
  pc,         \* "connect", "process", "publish", "idle", "wait" or "backoff"
  link,       \* link[w]: "none", "listening", "silent" (broken, but the driver has
              \* not noticed) or "closed" (it has)
  transit,    \* transit[w]: a notification is on its way to the event
  event,      \* event[w]: the asyncio.Event is set
  waited,     \* waited[w]: how long the current wait has lasted
  retries, faults

table    == <<state, quiet, batch, retries>>
listener == <<link, transit, event>>
vars     == <<table, pc, listener, waited, faults>>

Init ==
  /\ state = [m \in Messages |-> "absent"]
  /\ quiet = {}
  /\ batch = [w \in Workers |-> {}]
  /\ pc = [w \in Workers |-> "connect"]
  /\ link = [w \in Workers |-> "none"]
  /\ transit = [w \in Workers |-> FALSE]
  /\ event = [w \in Workers |-> FALSE]
  /\ waited = [w \in Workers |-> 0]
  /\ retries = 0
  /\ faults = 0

Goto(w, label) == pc' = [pc EXCEPT ![w] = label]
Due == {m \in Messages : state[m] = "due"}

\* pg_notify takes effect at commit, for the sessions that listen then.
Notify ==
  transit' = [w \in Workers |-> transit[w] \/ link[w] = "listening"]

------------------------------------------------------------------------------
(* The table *)

CommitMessage(m) ==
  /\ state[m] = "absent"
  /\ state' = [state EXCEPT ![m] = "due"]
  /\ Notify
  /\ UNCHANGED <<quiet, batch, retries, pc, link, event, waited, faults>>

\* available_at of a postponed message passes.
BecomeDue(m) ==
  /\ state[m] = "postponed"
  /\ state' = [state EXCEPT ![m] = "due"]
  /\ quiet' = quiet \union {m}
  /\ UNCHANGED <<batch, retries, pc, listener, waited, faults>>

------------------------------------------------------------------------------
(* The listener *)

\* Mutant: the worker waits for a notification before its first process().
ListenThenWait(w) ==
  /\ pc[w] = "connect"
  /\ link' = [link EXCEPT ![w] = "listening"]
  /\ Goto(w, "idle")
  /\ UNCHANGED <<table, transit, event, waited, faults>>

\* __aenter__: connect and LISTEN, then the first process().
Listen(w) ==
  /\ pc[w] = "connect"
  /\ link' = [link EXCEPT ![w] = "listening"]
  /\ Goto(w, "process")
  /\ UNCHANGED <<table, transit, event, waited, faults>>

\* __aenter__ raises: no connection, or LISTEN fails.
ListenFails(w) ==
  /\ pc[w] = "connect"
  /\ faults < MaxFaults
  /\ faults' = faults + 1
  /\ Goto(w, "backoff")
  /\ UNCHANGED <<table, listener, waited>>

\* _on_notification runs.
OnNotification(w) ==
  /\ transit[w]
  /\ transit' = [transit EXCEPT ![w] = FALSE]
  /\ event' = [event EXCEPT ![w] = TRUE]
  /\ UNCHANGED <<table, pc, link, waited, faults>>

\* The session breaks, with the notifications the driver had not read.
Break(w) ==
  /\ link[w] = "listening"
  /\ faults < MaxFaults
  /\ faults' = faults + 1
  /\ \E how \in {"silent", "closed"} : link' = [link EXCEPT ![w] = how]
  /\ \E read \in BOOLEAN : transit' = [transit EXCEPT ![w] = @ /\ read]
  /\ UNCHANGED <<table, pc, event, waited>>

\* The driver notices a broken session (or never does).
NoticeBreak(w) ==
  /\ link[w] = "silent"
  /\ link' = [link EXCEPT ![w] = "closed"]
  /\ UNCHANGED <<table, pc, transit, event, waited, faults>>

\* An exception leaves the inner loop: __aexit__ closes the session, the worker
\* sleeps error_interval, then starts over.
LeaveListener(w) ==
  /\ link' = [link EXCEPT ![w] = "none"]
  /\ \E running \in BOOLEAN : transit' = [transit EXCEPT ![w] = @ /\ running]
  /\ Goto(w, "backoff")

Reconnect(w) ==
  /\ pc[w] = "backoff"
  /\ Goto(w, "connect")
  /\ UNCHANGED <<table, listener, waited, faults>>

------------------------------------------------------------------------------
(* process() *)

\* Some of the due messages, as many as a batch takes.
AcquireBatch(w) ==
  /\ pc[w] = "process"
  /\ \E b \in SUBSET Due \ {{}} :
       /\ Cardinality(b) = BatchSize \/ (b = Due /\ Cardinality(b) <= BatchSize)
       /\ batch' = [batch EXCEPT ![w] = b]
       /\ state' = [m \in Messages |-> IF m \in b THEN "held" ELSE state[m]]
       /\ quiet' = quiet \ b
  /\ Goto(w, "publish")
  /\ UNCHANGED <<retries, listener, waited, faults>>

AcquireNothing(w) ==
  /\ pc[w] = "process"
  /\ Due = {}
  /\ Goto(w, "idle")
  /\ UNCHANGED <<table, listener, waited, faults>>

\* save_all and commit; processed > 0, so process() runs again at once.
CommitBatch(w) ==
  /\ pc[w] = "publish"
  /\ \E again \in SUBSET batch[w] :
       /\ retries + Cardinality(again) <= MaxRetries
       /\ retries' = retries + Cardinality(again)
       /\ state' = [m \in Messages |-> IF m \in again THEN "postponed"
                                       ELSE IF m \in batch[w] THEN "settled"
                                       ELSE state[m]]
  /\ batch' = [batch EXCEPT ![w] = {}]
  /\ IF WorkersNotify THEN Notify ELSE UNCHANGED transit
  /\ Goto(w, "process")
  /\ UNCHANGED <<quiet, link, event, waited, faults>>

\* The transaction is rolled back: its messages are due again, and nobody is told.
GiveBack(w) ==
  /\ state' = [m \in Messages |-> IF m \in batch[w] THEN "due" ELSE state[m]]
  /\ quiet' = quiet \union batch[w]
  /\ batch' = [batch EXCEPT ![w] = {}]
  /\ UNCHANGED retries

ProcessRaises(w) ==
  /\ pc[w] \in {"process", "publish"}
  /\ faults < MaxFaults
  /\ faults' = faults + 1
  /\ GiveBack(w)
  /\ LeaveListener(w)
  /\ UNCHANGED <<event, waited>>

\* The process dies and is started again, with a new listener.
Crash(w) ==
  /\ faults < MaxFaults
  /\ faults' = faults + 1
  /\ GiveBack(w)
  /\ link' = [link EXCEPT ![w] = "none"]
  /\ transit' = [transit EXCEPT ![w] = FALSE]
  /\ event' = [event EXCEPT ![w] = FALSE]
  /\ Goto(w, "connect")
  /\ UNCHANGED waited

------------------------------------------------------------------------------
(* listener.wait(timeout=poll_interval) *)

\* Mutant: the event is cleared when the wait begins, not when it has been seen.
ClearThenWait(w) ==
  /\ pc[w] = "idle"
  /\ link[w] # "closed"
  /\ event' = [event EXCEPT ![w] = FALSE]
  /\ waited' = [waited EXCEPT ![w] = 0]
  /\ Goto(w, "wait")
  /\ UNCHANGED <<table, link, transit, faults>>

StartWait(w) ==
  /\ pc[w] = "idle"
  /\ link[w] # "closed"
  /\ waited' = [waited EXCEPT ![w] = 0]
  /\ Goto(w, "wait")
  /\ UNCHANGED <<table, listener, faults>>

\* The session is known to be closed: ConnectionError.
WaitRaises(w) ==
  /\ pc[w] = "idle"
  /\ link[w] = "closed"
  /\ LeaveListener(w)
  /\ UNCHANGED <<table, event, waited, faults>>

Notified(w) ==
  /\ pc[w] = "wait"
  /\ event[w]
  /\ event' = [event EXCEPT ![w] = FALSE]
  /\ Goto(w, "process")
  /\ UNCHANGED <<table, link, transit, waited, faults>>

\* Mutant: the wait has no timeout.
NeverTimeout(w) == FALSE /\ UNCHANGED vars

\* wait_for gives up; an event set at that very moment stays set.
WaitTimeout(w) ==
  /\ pc[w] = "wait"
  /\ waited[w] = PollInterval
  /\ Goto(w, "process")
  /\ UNCHANGED <<table, listener, waited, faults>>

\* Time passes for the workers that wait; a timeout that is due fires first.
Tick ==
  /\ \E w \in Workers : pc[w] = "wait"
  /\ \A w \in Workers : pc[w] = "wait" => waited[w] < PollInterval
  /\ waited' = [w \in Workers |-> waited[w] + IF pc[w] = "wait" THEN 1 ELSE 0]
  /\ UNCHANGED <<table, pc, listener, faults>>

Loop(w) ==
  \/ Listen(w) \/ Reconnect(w) \/ AcquireBatch(w) \/ AcquireNothing(w)
  \/ CommitBatch(w) \/ StartWait(w) \/ WaitRaises(w)
  \/ Notified(w) \/ WaitTimeout(w)

Next ==
  \/ Tick
  \/ \E m \in Messages : CommitMessage(m) \/ BecomeDue(m)
  \/ \E w \in Workers : \/ Loop(w) \/ OnNotification(w) \/ ListenFails(w)
                        \/ Break(w) \/ NoticeBreak(w) \/ ProcessRaises(w) \/ Crash(w)

Spec == Init /\ [][Next]_vars

\* The event loop keeps running the workers and time passes.  No fairness for
\* NoticeBreak: a half-open session may never be noticed, and none is needed
\* for OnNotification.
FairSpec ==
  /\ Spec
  /\ WF_vars(Tick)
  /\ \A w \in Workers : WF_vars(Loop(w))
  /\ \A m \in Messages : WF_vars(BecomeDue(m))

------------------------------------------------------------------------------
(* Properties *)

\* No wake-up is lost between process() and wait(): while a worker with a working
\* session waits, a due message that was announced has set its event, or the
\* notification is on its way.  LISTEN comes before the first process(), and the
\* event is cleared only after it has been seen and before the next process().
NoLostWakeup ==
  \A w \in Workers :
    (pc[w] = "wait" /\ link[w] = "listening" /\ Due \ quiet # {}) =>
      event[w] \/ transit[w]

\* NOTIFY is only an accelerator: with notifications lost, sessions half-open and
\* messages due without one, every committed message is eventually settled.
EverySettled == \A m \in Messages : state[m] = "due" ~> state[m] = "settled"
==============================================================================
