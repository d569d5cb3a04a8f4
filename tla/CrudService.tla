---------------------------- MODULE CrudService ----------------------------
(***************************************************************************)
(* One entity served by Crud through a CachedRepository, an EventDispatcher *)
(* and an event store, by several requests at once.                        *)
(*                                                                         *)
(* A request is a coroutine: an action is what it does between two awaits   *)
(* that suspend.  An entity is abstracted to the set of the requests whose *)
(* change it holds, each change in a column of its own, so that a change    *)
(* that is lost, or kept after a rollback, shows.  An optional value (a row,*)
(* a cache entry) is a set with at most one element.                       *)
(*                                                                         *)
(* The InMemoryCache keeps a reference: entry r of a process's cache is the *)
(* very object request r made.  The RedisCache keeps a serialised copy.     *)
(***************************************************************************)
EXTENDS Naturals, Sequences, SequencesExt

CONSTANTS
    Requests,   \* the requests of a behaviour
    Processes,  \* the application processes, each with an InMemoryCache
    Workloads,  \* the choices of what each request does
    Setups,     \* the choices of [levels, publisher]: the cache levels in front of
                \* the repository, and "sequence" or "parallel" publishing
    EventCount, \* EventCount[r]: the events an entity registers for r's change
    MaxFaults   \* bound on the failed calls and crashes of a behaviour

ASSUME CrudAssumption ==
    /\ Setups \subseteq [levels : SUBSET {"local", "redis"},
                         publisher : {"sequence", "parallel"}]
    /\ Workloads \subseteq [Requests -> {"create", "read", "update", "remove"}]
    /\ EventCount \in [Requests -> Nat \ {0}]
    /\ MaxFaults \in Nat

VARIABLES
    kind,       \* what each request does
    home,       \* the process each request runs in
    levels,     \* the cache levels: "local" InMemoryCache, "redis" RedisCache
    publisher,  \* how create_rabbit_publisher was configured
    row,        \* the committed row of the entity
    lock,       \* the request whose open transaction wrote the row, if any
    pending,    \* the row as that transaction leaves it
    local,      \* per process: the object its InMemoryCache refers to
    remote,     \* the copy the RedisCache holds
    pc,         \* where each request is
    held,       \* the object (named by the request that made it) in its hands
    object,     \* the objects in memory: their changes and queued events
    model,      \* the values a request copied out of its entity
    base,       \* the row its merge() read
    collected,  \* the events its dispatcher still has to record and publish
    stored,     \* the events committed in stored_events
    published,  \* how often each event was sent to the broker
    committed,  \* history: the requests whose transaction committed
    quiet,      \* history: no other commit between this request's read and its merge
    faults      \* failures so far

vars == <<kind, home, levels, publisher, row, lock, pending, local, remote, pc, held,
          object, model, base, collected, stored, published, committed, quiet,
          faults>>

workload == <<kind, home, levels, publisher>>
cache == <<local, remote>>
database == <<row, lock, pending, stored, committed, quiet>>
memory == <<held, object, model, base, collected>>

Ends == {"done", "absent", "failed"}

\* A request waits for the database, the cache or the broker in these states.
Steps == {"insert", "erase", "get", "backfill", "load", "fill", "fillRemote",
          "handle", "merge", "drop", "dropRemote", "dispatch", "record",
          "commit", "publish", "straggle"}

\* The events of the change of request r, in the order they are registered.
EventsOf(r) == [n \in 1..EventCount[r] |-> <<r, n>>]
Events == UNION {ToSet(EventsOf(r)) : r \in Requests}

The(option) == CHOOSE x \in option : TRUE

Init ==
    /\ kind \in Workloads
    /\ home \in [Requests -> Processes]
    /\ \E setup \in Setups : levels = setup.levels /\ publisher = setup.publisher
    /\ row = IF \E r \in Requests : kind[r] = "create" THEN {} ELSE {{}}
    /\ lock = {}
    /\ pending = {}
    /\ local = [p \in Processes |-> {}]
    /\ remote = {}
    /\ pc = [r \in Requests |-> "idle"]
    /\ held = [r \in Requests |-> r]
    /\ object = [r \in Requests |-> [changes |-> {}, events |-> <<>>]]
    /\ model = [r \in Requests |-> {}]
    /\ base = [r \in Requests |-> {}]
    /\ collected = [r \in Requests |-> <<>>]
    /\ stored = {}
    /\ published = [e \in Events |-> 0]
    /\ committed = {}
    /\ quiet = [r \in Requests |-> TRUE]
    /\ faults = 0

Goto(r, step) == pc' = [pc EXCEPT ![r] = step]

At(r, step) == pc[r] = step

\* The object request r builds from a row or from a decoded copy.
Builds(r, changes) ==
    /\ object' = [object EXCEPT ![r] = [changes |-> changes, events |-> <<>>]]
    /\ held' = [held EXCEPT ![r] = r]

\* Where a request goes once it has its entity.
WithEntity(r) ==
    CASE kind[r] = "read" -> "done"
      [] kind[r] = "create" -> "dispatch"
      [] OTHER -> "handle"

\* A transaction ends without effect: its writes and its row lock are gone.
RolledBack(r) ==
    /\ lock' = lock \ {r}
    /\ pending' = IF lock = {r} THEN {} ELSE pending

-----------------------------------------------------------------------------
(* CachedRepository.read: the levels in order, then the repository. *)

Begin(r) ==
    /\ At(r, "idle")
    /\ quiet' = [quiet EXCEPT ![r] = TRUE]
    /\ \/ /\ kind[r] = "create"
          /\ Goto(r, "insert")
          /\ UNCHANGED held
       \/ /\ kind[r] = "remove"
          /\ Goto(r, "erase")
          /\ UNCHANGED held
       \/ /\ kind[r] \in {"read", "update"}
          /\ "local" \in levels
          /\ local[home[r]] # {}
          /\ held' = [held EXCEPT ![r] = The(local[home[r]])]
          /\ Goto(r, WithEntity(r))
       \/ /\ kind[r] \in {"read", "update"}
          /\ "local" \in levels => local[home[r]] = {}
          /\ Goto(r, IF "redis" \in levels THEN "get" ELSE "load")
          /\ UNCHANGED held
    /\ UNCHANGED <<workload, row, lock, pending, cache, object, model, base,
                   collected, stored, published, committed, faults>>

GetRemote(r) ==
    /\ At(r, "get")
    /\ \/ /\ remote # {}
          /\ Builds(r, The(remote))
          /\ Goto(r, IF "local" \in levels THEN "backfill" ELSE WithEntity(r))
       \/ /\ remote = {}
          /\ Goto(r, "load")
          /\ UNCHANGED <<held, object>>
    /\ UNCHANGED <<workload, database, cache, model, base, collected,
                   published, faults>>

Backfill(r) ==
    /\ At(r, "backfill")
    /\ local' = [local EXCEPT ![home[r]] = {r}]
    /\ Goto(r, WithEntity(r))
    /\ UNCHANGED <<workload, database, remote, memory, published, faults>>

Load(r) ==
    /\ At(r, "load")
    /\ \/ /\ row = {}
          /\ Goto(r, "absent")
          /\ UNCHANGED <<held, object>>
       \/ /\ row # {}
          /\ Builds(r, The(row))
          /\ Goto(r, IF levels = {} THEN WithEntity(r) ELSE "fill")
    /\ UNCHANGED <<workload, database, cache, model, base, collected,
                   published, faults>>

\* cache.set on every level: the local write and the serialisation are one
\* turn of the event loop, the Redis write follows.
Fill(r) ==
    /\ At(r, "fill")
    /\ local' = IF "local" \in levels THEN [local EXCEPT ![home[r]] = {r}]
                                      ELSE local
    /\ model' = [model EXCEPT ![r] = object[r].changes]
    /\ Goto(r, IF "redis" \in levels THEN "fillRemote" ELSE WithEntity(r))
    /\ UNCHANGED <<workload, database, remote, held, object, base, collected,
                   published, faults>>

FillRemote(r) ==
    /\ At(r, "fillRemote")
    /\ remote' = {model[r]}
    /\ Goto(r, WithEntity(r))
    /\ UNCHANGED <<workload, database, local, memory, published, faults>>

-----------------------------------------------------------------------------
(* The writes: the handler changes the entity, the repository takes its     *)
(* values, the cache is invalidated, all before the dispatcher commits.     *)

Handle(r) ==
    LET o == held[r] IN
    /\ At(r, "handle")
    /\ object' = [object EXCEPT ![o].changes = @ \cup {r},
                                ![o].events = @ \o EventsOf(r)]
    /\ model' = [model EXCEPT ![r] = object[o].changes \cup {r}]
    /\ Goto(r, "merge")
    /\ UNCHANGED <<workload, database, cache, held, base, collected,
                   published, faults>>

\* session.merge() reads the row it will be compared with.
Merge(r) ==
    /\ At(r, "merge")
    /\ base' = [base EXCEPT ![r] = row]
    /\ Goto(r, IF levels = {} THEN "dispatch" ELSE "drop")
    /\ UNCHANGED <<workload, database, cache, held, object, model, collected,
                   published, faults>>

\* Mutant: the repository hides a commit in create().
InsertCommitted(r) ==
    /\ At(r, "insert")
    /\ lock = {}
    /\ row = {}
    /\ row' = {{r}}
    /\ Builds(r, {r})
    /\ Goto(r, IF levels = {} THEN "dispatch" ELSE "fill")
    /\ UNCHANGED <<workload, lock, pending, stored, committed, quiet, cache,
                   model, base, collected, published, faults>>

\* session.add() and flush(): the row is written, not yet committed.
Insert(r) ==
    /\ At(r, "insert")
    /\ lock = {}
    /\ row = {}
    /\ lock' = {r}
    /\ pending' = {{r}}
    /\ Builds(r, {r})
    /\ Goto(r, IF levels = {} THEN "dispatch" ELSE "fill")
    /\ UNCHANGED <<workload, row, stored, committed, quiet, cache, model, base,
                   collected, published, faults>>

\* The key is taken: UniqueConstraintViolationError.
InsertTaken(r) ==
    /\ At(r, "insert")
    /\ lock = {}
    /\ row # {}
    /\ Goto(r, "failed")
    /\ UNCHANGED <<workload, database, cache, memory, published, faults>>

\* CachedRepository.delete: the DELETE runs at once.
Erase(r) ==
    /\ At(r, "erase")
    /\ lock = {}
    /\ lock' = IF row = {} THEN {} ELSE {r}
    /\ pending' = {}
    /\ Goto(r, IF levels = {} THEN "dispatch" ELSE "drop")
    /\ UNCHANGED <<workload, row, stored, committed, quiet, cache, memory,
                   published, faults>>

Drop(r) ==
    /\ At(r, "drop")
    /\ local' = IF "local" \in levels THEN [local EXCEPT ![home[r]] = {}]
                                      ELSE local
    /\ Goto(r, IF "redis" \in levels THEN "dropRemote" ELSE "dispatch")
    /\ UNCHANGED <<workload, database, remote, memory, published, faults>>

DropRemote(r) ==
    /\ At(r, "dropRemote")
    /\ remote' = {}
    /\ Goto(r, "dispatch")
    /\ UNCHANGED <<workload, database, local, memory, published, faults>>

-----------------------------------------------------------------------------
(* EventDispatcher: collect, record, commit, publish. *)

\* Mutant: the events are read and stay in the queue of the entity.
DispatchKeeps(r) ==
    /\ At(r, "dispatch")
    /\ collected' = [collected EXCEPT ![r] =
                        CASE kind[r] = "update" -> object[held[r]].events
                          [] kind[r] = "create" -> EventsOf(r)
                          [] OTHER -> <<>>]
    /\ Goto(r, IF collected'[r] = <<>> THEN "commit" ELSE "record")
    /\ UNCHANGED <<workload, database, cache, held, object, model, base,
                   published, faults>>

\* Crud.create dispatches the entity of its handler, which is not the copy
\* the repository returned and the cache refers to.
Dispatch(r) ==
    LET o == held[r] IN
    /\ At(r, "dispatch")
    /\ \/ /\ kind[r] = "update"
          /\ collected' = [collected EXCEPT ![r] = object[o].events]
          /\ object' = [object EXCEPT ![o].events = <<>>]
       \/ /\ kind[r] = "create"
          /\ collected' = [collected EXCEPT ![r] = EventsOf(r)]
          /\ UNCHANGED object
       \/ /\ kind[r] = "remove"
          /\ UNCHANGED <<collected, object>>
    /\ Goto(r, IF collected'[r] = <<>> THEN "commit" ELSE "record")
    /\ UNCHANGED <<workload, database, cache, held, model, base, published,
                   faults>>

\* Whether the merged values differ from the row the merge read.
Writes(r) == kind[r] = "update" /\ base[r] # {model[r]}

\* The merge and the flush see the same: a row to UPDATE, or none, to INSERT.
Consistent(r) == (row = {}) = (base[r] = {})

\* A write waits for the transaction that holds the row.
CanFlush(r) == \/ ~Writes(r)
               \/ lock = {r}
               \/ lock = {} /\ Consistent(r)

\* Mutant: an UPDATE sets every column.
WrittenWhole(r) ==
    IF lock = {r} THEN pending ELSE IF ~Writes(r) THEN row ELSE {model[r]}

\* The row as request r's transaction leaves it: an UPDATE sets the columns in
\* which the merged values differ from the row the merge read.
Written(r) ==
    IF lock = {r} THEN pending
    ELSE IF ~Writes(r) THEN row
    ELSE IF row = {} THEN {model[r]}
    ELSE {(The(row) \ (The(base[r]) \ model[r])) \cup (model[r] \ The(base[r]))}

\* Mutant: the event store commits the events by itself.
RecordAlone(r) ==
    /\ At(r, "record")
    /\ CanFlush(r)
    /\ lock' = IF Writes(r) THEN {r} ELSE lock
    /\ pending' = IF Writes(r) THEN Written(r) ELSE pending
    /\ stored' = stored \cup ToSet(collected[r])
    /\ Goto(r, "commit")
    /\ UNCHANGED <<workload, row, committed, quiet, cache, memory, published,
                   faults>>

\* SqlAlchemyEventStore.record_all: the events are added, everything flushed.
Record(r) ==
    /\ At(r, "record")
    /\ CanFlush(r)
    /\ lock' = IF Writes(r) THEN {r} ELSE lock
    /\ pending' = IF Writes(r) THEN Written(r) ELSE pending
    /\ Goto(r, "commit")
    /\ UNCHANGED <<workload, row, stored, committed, quiet, cache, memory,
                   published, faults>>

\* The row the merge read is gone, or one it did not see is there:
\* StaleDataError or IntegrityError, and the dispatcher rolls back.
FlushConflict(r) ==
    /\ pc[r] \in {"record", "commit"}
    /\ Writes(r)
    /\ lock = {}
    /\ ~Consistent(r)
    /\ Goto(r, "failed")
    /\ UNCHANGED <<workload, database, cache, memory, published, faults>>

\* A request in these states has its entity, and not yet the row to compare it with.
Outdates == {"backfill", "fill", "fillRemote", "handle", "merge"}

\* What the database does at COMMIT; what is not flushed yet is flushed first.
Commits(r) ==
    /\ At(r, "commit")
    /\ CanFlush(r)
    /\ row' = Written(r)
    /\ RolledBack(r)
    /\ stored' = stored \cup ToSet(collected[r])
    /\ committed' = committed \cup {r}
    /\ quiet' = [q \in Requests |-> quiet[q] /\ (q = r \/ pc[q] \notin Outdates)]
    /\ UNCHANGED <<workload, cache, memory, published>>

Commit(r) ==
    /\ Commits(r)
    /\ Goto(r, IF collected[r] = <<>> THEN "done" ELSE "publish")
    /\ UNCHANGED faults

\* What is left of the events after the i-th was dealt with.
Without(r, i) == collected' = [collected EXCEPT ![r] = RemoveAt(@, i)]

Sent(r, i) == published' = [published EXCEPT ![collected[r][i]] = @ + 1]

\* Mutant: the tasks of a sequential publisher are started together.
AnyOrder(r) == DOMAIN collected[r]

\* run_in_sequence sends one event after the other; of the tasks that
\* run_in_parallel gathers, with or without a semaphore, any may be next.
NextToSend(r) == IF publisher = "sequence" THEN {1} ELSE DOMAIN collected[r]

Publish(r) ==
    /\ At(r, "publish")
    /\ \E i \in NextToSend(r) : Without(r, i) /\ Sent(r, i)
    /\ Goto(r, IF Len(collected[r]) = 1 THEN "done" ELSE "publish")
    /\ UNCHANGED <<workload, database, cache, held, object, model, base, faults>>

\* The request has failed with the exception of one publish; gather does not
\* cancel the others.
Straggle(r) ==
    /\ At(r, "straggle")
    /\ \E i \in DOMAIN collected[r] : Without(r, i) /\ Sent(r, i)
    /\ Goto(r, IF Len(collected[r]) = 1 THEN "failed" ELSE "straggle")
    /\ UNCHANGED <<workload, database, cache, held, object, model, base, faults>>

-----------------------------------------------------------------------------
(* Failures, crashes, expiry. *)

MayFail ==
    /\ faults < MaxFaults
    /\ faults' = faults + 1

\* Mutant: the dispatcher rolls back, does not raise, and goes on to publish.
FailSwallowed(r) ==
    /\ MayFail
    /\ pc[r] \in {"record", "commit"}
    /\ collected[r] # <<>>
    /\ Goto(r, "publish")
    /\ RolledBack(r)
    /\ UNCHANGED <<workload, row, stored, committed, quiet, cache, memory,
                   published>>

\* The database, Redis or the handler raises, or the request is cancelled (and
\* with it all that gather has started): the transaction is rolled back, by the
\* dispatcher or with the session of the request.
Fail(r) ==
    /\ MayFail
    /\ pc[r] \in {"insert", "erase", "get", "load", "fillRemote", "handle",
                  "merge", "dropRemote", "record", "commit", "publish"}
    /\ Goto(r, "failed")
    /\ RolledBack(r)
    /\ UNCHANGED <<workload, row, stored, committed, quiet, cache, memory,
                   published>>

\* Mutant: gather collects the exceptions, nobody looks at them.
ErrorIsDropped(r) ==
    /\ MayFail
    /\ At(r, "publish")
    /\ \E i \in NextToSend(r) : Without(r, i)
    /\ UNCHANGED published
    /\ Goto(r, IF Len(collected[r]) = 1 THEN "done" ELSE "publish")
    /\ UNCHANGED <<workload, database, cache, held, object, model, base>>

\* A publish raises; the broker may have taken the event.  In sequence it is the
\* last one, in parallel the others go on.
PublishRaises(r) ==
    /\ MayFail
    /\ At(r, "publish")
    /\ \E i \in NextToSend(r) : Without(r, i) /\ (Sent(r, i) \/ UNCHANGED published)
    /\ Goto(r, IF publisher = "parallel" /\ Len(collected[r]) > 1
               THEN "straggle" ELSE "failed")
    /\ UNCHANGED <<workload, database, cache, held, object, model, base>>

\* The answer to COMMIT is lost: the dispatcher sees an error.
LoseCommit(r) ==
    /\ MayFail
    /\ Commits(r)
    /\ Goto(r, "failed")

\* A process dies with its requests, its objects and its cache.
Crash(p) ==
    /\ MayFail
    /\ \E r \in Requests : home[r] = p /\ pc[r] \in Steps
    /\ pc' = [r \in Requests |-> IF home[r] = p /\ pc[r] \in Steps
                                 THEN "failed" ELSE pc[r]]
    /\ local' = [local EXCEPT ![p] = {}]
    /\ IF \E r \in lock : home[r] = p
       THEN lock' = {} /\ pending' = {}
       ELSE UNCHANGED <<lock, pending>>
    /\ UNCHANGED <<workload, row, stored, committed, quiet, remote, memory,
                   published>>

\* The time to live of an entry passes.
ExpireLocal(p) ==
    /\ local[p] # {}
    /\ local' = [local EXCEPT ![p] = {}]
    /\ UNCHANGED <<workload, database, remote, pc, memory, published, faults>>

ExpireRemote ==
    /\ remote # {}
    /\ remote' = {}
    /\ UNCHANGED <<workload, database, local, pc, memory, published, faults>>

Step(r) ==
    \/ Begin(r) \/ GetRemote(r) \/ Backfill(r) \/ Load(r) \/ Fill(r)
    \/ FillRemote(r) \/ Handle(r) \/ Merge(r) \/ Insert(r) \/ InsertTaken(r)
    \/ Erase(r) \/ Drop(r) \/ DropRemote(r) \/ Dispatch(r) \/ Record(r)
    \/ FlushConflict(r) \/ Commit(r) \/ Publish(r) \/ Straggle(r)

Ended == \A r \in Requests : pc[r] \in Ends

Next ==
    \/ \E r \in Requests : Step(r) \/ Fail(r) \/ PublishRaises(r) \/ LoseCommit(r)
    \/ \E p \in Processes : Crash(p) \/ ExpireLocal(p)
    \/ ExpireRemote
    \/ Ended /\ UNCHANGED vars

Spec == Init /\ [][Next]_vars

-----------------------------------------------------------------------------
(* Properties. *)

\* The requests that register events for their change.
Eventful == {r \in Requests : kind[r] \in {"create", "update"}}

\* The broker hears of an event only after the transaction of the change it
\* reports was committed (EventDispatcher publishes after uow.commit()).
PublishedAreCommitted ==
    \A e \in Events : published[e] > 0 => e[1] \in committed

\* No InMemoryCache: no two requests share one Entity object.
NothingShared == "local" \notin levels

\* Without shared objects the promise above holds through every interleaving,
\* failure and crash, whatever the cache answers.
BrokerHearsOnlyCommitted == NothingShared => PublishedAreCommitted

\* The event store and the row are one transaction: an event is in
\* stored_events if and only if the change it reports was committed.
StoredWithChange == NothingShared => stored = {e \in Events : e[1] \in committed \cap Eventful}

\* A request that answered without an error has had all its events published,
\* also in parallel, where one may fail while the others go on: an event is lost
\* only by a failure that is reported (utils.py:53, dispatcher.py:36).
DoneIsPublished ==
    NothingShared =>
        \A r \in Eventful : At(r, "done") => \A e \in ToSet(EventsOf(r)) : published[e] = 1

\* "строго последовательно": the sequential publisher sends an event of a request
\* only after those registered before it, whichever of them fails, and whoever
\* shares the entity and its queue (event_publisher.py:47, utils.py:65).
SequenceKeepsOrder ==
    publisher = "sequence" =>
        \A e \in Events : published[e] > 0 =>
            \A n \in 1..e[2] : published[<<e[1], n>>] > 0

\* collect_events() empties the queue of the entity: no event is published
\* twice, not even when two requests dispatch the same shared object.
PublishedOnce == \A e \in Events : published[e] <= 1

\* Objects are not shared and nothing enters a cache before it is committed:
\* CachedRepository.create caches the entity while its INSERT is still open.
NothingUncommittedCached ==
    NothingShared /\ ("redis" \in levels => \A r \in Requests : kind[r] # "create")

\* A rolled-back change never reaches the row: what an update writes back
\* beside its own change was committed by the request that made it.
RolledBackLeavesNothing ==
    NothingUncommittedCached => \A value \in row : value \subseteq committed

\* An update adds its own change to the row and takes no other away, not even one
\* committed after its merge, if nothing was committed between its read and its merge
\* (CachedRepository invalidates the key, so that the next read loads the current row;
\* merge and flush, repository.py:77, set the columns that differ).
QuietUpdateAddsItself ==
    [][\A r \in committed' \ committed :
          kind[r] = "update" /\ quiet[r]
             => row' = {value \cup {r} : value \in row}]_vars

\* That promise where it holds, with no cache before the repository.
QuietUncachedUpdateAddsItself ==
    [][\A r \in committed' \ committed :
          kind[r] = "update" /\ quiet[r] /\ levels = {}
             => row' = {value \cup {r} : value \in row}]_vars
=============================================================================
