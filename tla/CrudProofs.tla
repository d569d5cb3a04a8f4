------------------------------ MODULE CrudProofs ------------------------------
(***************************************************************************)
(* Proofs about CrudService, for any number of requests, processes and     *)
(* failures, any choice of workloads and caches, and any events: the types, *)
(* the queues of events, the events and the transactions, the values.      *)
(***************************************************************************)
EXTENDS CrudService, SequenceTheorems, TLAPS

Kinds == {"create", "read", "update", "remove"}
Value == SUBSET Requests
Entity == [changes : Value, events : Seq(Events)]

TypeOK ==
    /\ kind \in [Requests -> Kinds]
    /\ home \in [Requests -> Processes]
    /\ levels \in SUBSET {"local", "redis"}
    /\ publisher \in {"sequence", "parallel"}
    /\ row \in SUBSET Value /\ pending \in SUBSET Value /\ lock \in SUBSET Requests
    /\ local \in [Processes -> SUBSET Requests]
    /\ remote \in SUBSET Value
    /\ pc \in [Requests -> Steps \cup Ends \cup {"idle"}]
    /\ held \in [Requests -> Requests]
    /\ object \in [Requests -> Entity]
    /\ model \in [Requests -> Value]
    /\ base \in [Requests -> SUBSET Value]
    /\ collected \in [Requests -> Seq(Events)]
    /\ stored \in SUBSET Events
    /\ published \in [Events -> Nat]
    /\ committed \in SUBSET Requests
    /\ quiet \in [Requests -> BOOLEAN]

(* A step of request r.                                                       *)
Acts(r) == Step(r) \/ Fail(r) \/ PublishRaises(r) \/ LoseCommit(r)

(* Which kinds of request pass through a step.                                *)
Path(r) ==
    /\ At(r, "insert") => kind[r] = "create"
    /\ At(r, "erase") => kind[r] = "remove"
    /\ pc[r] \in {"get", "backfill", "load"} => kind[r] \in {"read", "update"}
    /\ pc[r] \in {"fill", "fillRemote"} => kind[r] # "remove"
    /\ pc[r] \in {"handle", "merge"} => kind[r] = "update"
    /\ pc[r] \in {"drop", "dropRemote"} => kind[r] \in {"update", "remove"}
    /\ pc[r] \in {"dispatch", "record", "commit", "publish", "straggle"} => kind[r] # "read"
    /\ pc[r] \in {"publish", "straggle"} => collected[r] # <<>>

------------------------------------------------------------------------------
(* Events and queues *)

LEMMA EventsAre ==
    ASSUME NEW r \in Requests
    PROVE  /\ EventsOf(r) \in Seq(Events)
           /\ Len(EventsOf(r)) = EventCount[r] /\ EventCount[r] \in Nat \ {0}
           /\ \A n \in 1..EventCount[r] : EventsOf(r)[n] = <<r, n>>
<1>1. EventCount[r] \in Nat \ {0}
  BY CrudAssumption
<1>2. \A n \in 1..EventCount[r] : EventsOf(r)[n] = <<r, n>>
  BY DEF EventsOf
<1>3. ToSet(EventsOf(r)) \subseteq Events
  BY DEF Events
<1>4. \A n \in 1..EventCount[r] : EventsOf(r)[n] \in Events
  BY <1>3 DEF ToSet, EventsOf
<1>5. EventsOf(r) \in Seq(Events)
  <2>1. Seq(Events) = UNION {[1..n -> Events] : n \in Nat}
    BY SeqDef
  <2>2. EventsOf(r) \in [1..EventCount[r] -> Events]
    BY <1>4 DEF EventsOf
  <2> QED
    BY <1>1, <2>1, <2>2
<1>6. Len(EventsOf(r)) = EventCount[r]
  BY <1>1, <1>5, LenProperties DEF EventsOf
<1> QED
  BY <1>1, <1>2, <1>5, <1>6

(* What RemoveAt leaves of a queue.                                           *)
LEMMA Remaining ==
    ASSUME NEW S, NEW q \in Seq(S), NEW i \in 1..Len(q)
    PROVE  /\ RemoveAt(q, i) \in Seq(S)
           /\ Len(RemoveAt(q, i)) = Len(q) - 1
           /\ \A j \in 1..Len(q) - 1 :
                RemoveAt(q, i)[j] = IF j < i THEN q[j] ELSE q[j + 1]
<1>1. PICK before \in Seq(S) : before = SubSeq(q, 1, i - 1)
  <2>1. SubSeq(q, 1, i - 1) \in Seq(S)
    OBVIOUS
  <2> QED
    BY <2>1
<1>2. PICK after \in Seq(S) : after = SubSeq(q, i + 1, Len(q))
  <2>1. SubSeq(q, i + 1, Len(q)) \in Seq(S)
    OBVIOUS
  <2> QED
    BY <2>1
<1>3. RemoveAt(q, i) = before \o after
  BY <1>1, <1>2 DEF RemoveAt
<1>4. Len(before) = i - 1 /\ \A j \in 1..i - 1 : before[j] = q[j]
  BY <1>1
<1>5. Len(after) = Len(q) - i /\ \A j \in 1..Len(q) - i : after[j] = q[j + i]
  BY <1>2
<1>6. before \o after \in Seq(S) /\ Len(before \o after) = Len(q) - 1
  BY <1>4, <1>5
<1>7. ASSUME NEW j \in 1..Len(q) - 1
      PROVE  (before \o after)[j] = IF j < i THEN q[j] ELSE q[j + 1]
  BY <1>4, <1>5
<1> QED
  BY <1>3, <1>6, <1>7

LEMMA ToSetIs ==
    ASSUME NEW S, NEW q \in Seq(S)
    PROVE  ToSet(q) \subseteq S /\ ToSet(q) = {q[i] : i \in 1..Len(q)}
BY DEF ToSet

LEMMA TheIs ==
    /\ \A x : The({x}) = x
    /\ \A option : option # {} => The(option) \in option
BY DEF The

------------------------------------------------------------------------------
(* Types and paths *)

LEMMA InitType == Init => TypeOK /\ \A r \in Requests : Path(r)
<1> SUFFICES ASSUME Init PROVE TypeOK /\ \A r \in Requests : Path(r)
  OBVIOUS
<1>1. kind \in [Requests -> Kinds]
  BY CrudAssumption DEF Init, Kinds
<1>2. levels \in SUBSET {"local", "redis"} /\ publisher \in {"sequence", "parallel"}
  BY CrudAssumption DEF Init
<1>3. /\ object \in [Requests -> Entity]
      /\ collected \in [Requests -> Seq(Events)]
  BY EmptySeq DEF Init, Value, Entity
<1>4. row \in SUBSET Value
  BY DEF Init, Value
<1>5. TypeOK
  BY <1>1, <1>2, <1>3, <1>4 DEF Init, TypeOK, Value
<1>6. \A r \in Requests : Path(r)
  BY DEF Init, Path, At
<1> QED
  BY <1>5, <1>6

LEMMA WrittenType ==
    ASSUME TypeOK, NEW r \in Requests PROVE Written(r) \in SUBSET Value
<1>1. row # {} => The(row) \in Value
  BY TheIs DEF TypeOK
<1> QED
  BY <1>1 DEF Written, TypeOK, Value

(* One event leaves the queue of the request that publishes, and may be sent. *)
LEMMA SendType ==
    ASSUME TypeOK, NEW r \in Requests, Path(r),
           Publish(r) \/ Straggle(r) \/ PublishRaises(r)
    PROVE  \E i \in 1..Len(collected[r]) :
             /\ collected' = [collected EXCEPT ![r] = RemoveAt(@, i)]
             /\ \/ published' = published /\ PublishRaises(r)
                \/ published' = [published EXCEPT ![collected[r][i]] = @ + 1]
             /\ publisher = "sequence" /\ ~Straggle(r) => i = 1
             /\ collected[r][i] \in Events
             /\ collected' \in [Requests -> Seq(Events)]
             /\ published' \in [Events -> Nat]
<1>1. /\ collected[r] \in Seq(Events) /\ collected \in [Requests -> Seq(Events)]
      /\ published \in [Events -> Nat]
  BY DEF TypeOK
<1>2. DOMAIN collected[r] = 1..Len(collected[r]) /\ Len(collected[r]) \in Nat
  BY <1>1
<1>3. Len(collected[r]) > 0
  BY <1>1 DEF Path, Publish, Straggle, PublishRaises, At
<1>4. PICK i \in 1..Len(collected[r]) :
        /\ collected' = [collected EXCEPT ![r] = RemoveAt(@, i)]
        /\ \/ published' = published /\ PublishRaises(r)
           \/ published' = [published EXCEPT ![collected[r][i]] = @ + 1]
        /\ publisher = "sequence" /\ ~Straggle(r) => i = 1
  <2>1. CASE Straggle(r)
    BY <1>2, <2>1 DEF Straggle, Without, Sent
  <2>2. /\ NextToSend(r) \subseteq 1..Len(collected[r])
        /\ publisher = "sequence" => NextToSend(r) = {1}
    BY <1>2, <1>3 DEF NextToSend
  <2>3. CASE Publish(r)
    BY <2>2, <2>3 DEF Publish, Without, Sent
  <2>4. CASE PublishRaises(r)
    BY <2>2, <2>4 DEF PublishRaises, Without, Sent
  <2> QED
    BY <2>1, <2>3, <2>4
<1>5. RemoveAt(collected[r], i) \in Seq(Events)
  BY <1>1, Remaining
<1>6. collected[r][i] \in Events
  BY <1>1
<1>7. collected' \in [Requests -> Seq(Events)]
  BY <1>1, <1>4, <1>5
<1>8. published' \in [Events -> Nat]
  <2>1. PICK e \in Events : e = collected[r][i]
    BY <1>6
  <2>2. published' = published \/ published' = [published EXCEPT ![e] = @ + 1]
    BY <1>4, <2>1
  <2> QED
    BY <1>1, <2>2
<1> QED
  BY <1>4, <1>6, <1>7, <1>8

(* The handler's change and its events go to the object in the request's hands. *)
LEMMA HandleEffect ==
    ASSUME TypeOK, NEW r \in Requests, Handle(r)
    PROVE  /\ held[r] \in Requests
           /\ object' \in [Requests -> Entity]
           /\ \A o \in Requests :
                /\ object'[o].changes = IF o = held[r] THEN object[o].changes \cup {r}
                                        ELSE object[o].changes
                /\ object'[o].events = IF o = held[r] THEN object[o].events \o EventsOf(r)
                                       ELSE object[o].events
<1>1. held[r] \in Requests /\ object \in [Requests -> Entity]
  BY DEF TypeOK
<1>2. /\ object[held[r]] \in [changes : Value, events : Seq(Events)]
      /\ object[held[r]].events \o EventsOf(r) \in Seq(Events)
  BY <1>1, EventsAre DEF Entity
<1>3. object' = [object EXCEPT ![held[r]].changes = @ \cup {r},
                               ![held[r]].events = @ \o EventsOf(r)]
  BY DEF Handle
<1>4. \A o \in Requests \ {held[r]} : object'[o] = object[o]
  BY <1>1, <1>3
<1>5. /\ object'[held[r]].changes = object[held[r]].changes \cup {r}
      /\ object'[held[r]].events = object[held[r]].events \o EventsOf(r)
  BY <1>1, <1>2, <1>3 DEF Entity
<1>6. object'[held[r]] \in Entity
  BY <1>1, <1>2, <1>3 DEF Entity, Value
<1>7. object' \in [Requests -> Entity]
  BY <1>1, <1>3, <1>4, <1>6
<1> QED
  BY <1>1, <1>4, <1>5, <1>7

(* The dispatcher takes the events out of the object, or those of a creation. *)
LEMMA DispatchEffect ==
    ASSUME TypeOK, NEW r \in Requests, Dispatch(r)
    PROVE  /\ held[r] \in Requests
           /\ object' \in [Requests -> Entity]
           /\ \A o \in Requests :
                /\ object'[o].changes = object[o].changes
                /\ object'[o].events = IF o = held[r] /\ kind[r] = "update" THEN <<>>
                                       ELSE object[o].events
           /\ collected' = [collected EXCEPT ![r] =
                               CASE kind[r] = "update" -> object[held[r]].events
                                 [] kind[r] = "create" -> EventsOf(r)
                                 [] OTHER -> collected[r]]
           /\ collected' \in [Requests -> Seq(Events)]
<1>1. /\ held[r] \in Requests /\ object \in [Requests -> Entity]
      /\ collected \in [Requests -> Seq(Events)]
      /\ EventsOf(r) \in Seq(Events) /\ <<>> \in Seq(Events)
  BY EventsAre, EmptySeq DEF TypeOK
<1>2. object[held[r]] \in [changes : Value, events : Seq(Events)]
  BY <1>1 DEF Entity
<1>3. CASE kind[r] = "update"
  <2>1. object' = [object EXCEPT ![held[r]].events = <<>>]
    BY <1>3 DEF Dispatch
  <2>2. object'[held[r]] \in Entity
    BY <1>1, <1>2, <2>1 DEF Entity
  <2>3. \A o \in Requests : /\ object'[o].changes = object[o].changes
                            /\ o # held[r] => object'[o] = object[o]
                            /\ o = held[r] => object'[o].events = <<>>
    BY <1>1, <1>2, <2>1 DEF Entity
  <2>4. object' \in [Requests -> Entity]
    BY <1>1, <2>1, <2>2, <2>3
  <2>5. collected' = [collected EXCEPT ![r] = object[held[r]].events]
    BY <1>3 DEF Dispatch
  <2>6. collected' \in [Requests -> Seq(Events)]
    BY <1>1, <1>2, <2>5
  <2> QED
    BY <1>1, <1>3, <2>3, <2>4, <2>5, <2>6
<1>4. CASE kind[r] = "create"
  BY <1>1, <1>4 DEF Dispatch
<1>5. CASE kind[r] = "remove"
  BY <1>1, <1>5 DEF Dispatch
<1> QED
  BY <1>3, <1>4, <1>5 DEF Dispatch

LEMMA TypeStep ==
    ASSUME TypeOK, NEW r \in Requests, Path(r),
           Acts(r)
    PROVE  TypeOK'
<1> USE DEF TypeOK, At, Goto, Steps, Ends, Value, workload, cache, database, memory
<1>0. ASSUME Commits(r)
      PROVE  /\ row' \in SUBSET Value /\ pending' \in SUBSET Value
             /\ lock' \in SUBSET Requests
             /\ stored' \in SUBSET Events /\ committed' \in SUBSET Requests
             /\ quiet' \in [Requests -> BOOLEAN]
  <2>1. stored' \in SUBSET Events
    BY <1>0, ToSetIs DEF Commits
  <2> QED
    BY <1>0, <2>1, WrittenType DEF Commits, RolledBack
<1>1. CASE Begin(r)
  <2>1. local[home[r]] # {} => The(local[home[r]]) \in Requests
    BY TheIs
  <2>2. /\ held \in [Requests -> Requests]
        /\ pc \in [Requests -> Steps \cup Ends \cup {"idle"}]
        /\ quiet \in [Requests -> BOOLEAN]
    OBVIOUS
  <2> HIDE DEF TypeOK
  <2>3. /\ held' \in [Requests -> Requests]
        /\ pc' \in [Requests -> Steps \cup Ends \cup {"idle"}]
        /\ quiet' \in [Requests -> BOOLEAN]
    BY <1>1, <2>1, <2>2 DEF Begin, WithEntity
  <2> QED
    BY <1>1, <2>3 DEF Begin, TypeOK
<1>2. CASE GetRemote(r)
  <2>1. CASE remote = {}
    BY <1>2, <2>1 DEF GetRemote
  <2>2. CASE remote # {}
    <3>1. The(remote) \in Value
      BY <2>2, TheIs
    <3>2. [changes |-> The(remote), events |-> <<>>] \in Entity
      BY <3>1, EmptySeq DEF Entity
    <3>3. held' = [held EXCEPT ![r] = r]
          /\ object' = [object EXCEPT ![r] = [changes |-> The(remote), events |-> <<>>]]
      BY <1>2, <2>2 DEF GetRemote, Builds
    <3> QED
      BY <1>2, <2>2, <3>2, <3>3 DEF GetRemote, WithEntity
  <2> QED
    BY <2>1, <2>2
<1>3. CASE Backfill(r)
  BY <1>3 DEF Backfill, WithEntity
<1>4. CASE Load(r)
  <2>1. CASE row = {}
    BY <1>4, <2>1 DEF Load
  <2>2. CASE row # {}
    <3>1. The(row) \in Value
      BY <2>2, TheIs
    <3>2. [changes |-> The(row), events |-> <<>>] \in Entity
      BY <3>1, EmptySeq DEF Entity
    <3>3. held' = [held EXCEPT ![r] = r]
          /\ object' = [object EXCEPT ![r] = [changes |-> The(row), events |-> <<>>]]
      BY <1>4, <2>2 DEF Load, Builds
    <3> QED
      BY <1>4, <2>2, <3>2, <3>3 DEF Load, WithEntity
  <2> QED
    BY <2>1, <2>2
<1>5. CASE Fill(r)
  <2>1. object[r].changes \in Value
    BY DEF Entity
  <2>2. model' \in [Requests -> Value]
    BY <1>5, <2>1 DEF Fill
  <2> QED
    BY <1>5, <2>2 DEF Fill, WithEntity
<1>6. CASE FillRemote(r)
  BY <1>6 DEF FillRemote, WithEntity
<1>7. CASE Handle(r)
  <2>1. object[held[r]].changes \in Value
    BY DEF Entity
  <2>2. model' \in [Requests -> Value]
    BY <1>7, <2>1 DEF Handle
  <2>3. object' \in [Requests -> Entity]
    BY <1>7, HandleEffect
  <2> QED
    BY <1>7, <2>2, <2>3 DEF Handle
<1>8. CASE Merge(r)
  BY <1>8 DEF Merge
<1>9. CASE Insert(r)
  <2>1. [changes |-> {r}, events |-> <<>>] \in Entity
    BY EmptySeq DEF Entity
  <2> QED
    BY <1>9, <2>1 DEF Insert, Builds
<1>10. CASE InsertTaken(r)
  BY <1>10 DEF InsertTaken
<1>11. CASE Erase(r)
  BY <1>11 DEF Erase
<1>12. CASE Drop(r)
  BY <1>12 DEF Drop
<1>13. CASE DropRemote(r)
  BY <1>13 DEF DropRemote
<1>14. CASE Dispatch(r)
  BY <1>14, DispatchEffect DEF Dispatch
<1>15. CASE Record(r)
  BY <1>15, WrittenType DEF Record
<1>16. CASE FlushConflict(r)
  BY <1>16 DEF FlushConflict
<1>17. CASE Commit(r)
  BY <1>17, <1>0 DEF Commit, Commits
<1>18. CASE Publish(r)
  BY <1>18, SendType DEF Publish
<1>19. CASE Straggle(r)
  BY <1>19, SendType DEF Straggle
<1>20. CASE Fail(r)
  BY <1>20 DEF Fail, MayFail, RolledBack
<1>21. CASE PublishRaises(r)
  BY <1>21, SendType DEF PublishRaises
<1>22. CASE LoseCommit(r)
  BY <1>22, <1>0 DEF LoseCommit, Commits
<1> QED
  BY <1>1, <1>2, <1>3, <1>4, <1>5, <1>6, <1>7, <1>8, <1>9, <1>10, <1>11, <1>12, <1>13,
     <1>14, <1>15, <1>16, <1>17, <1>18, <1>19, <1>20, <1>21, <1>22 DEF Acts, Step

(* It writes to what belongs to r, but for the object in its hands.           *)
LEMMA Elsewhere ==
    ASSUME TypeOK, NEW r \in Requests, Path(r), Acts(r)
    PROVE  /\ UNCHANGED workload
           /\ \A q \in Requests \ {r} : /\ pc'[q] = pc[q]
                                        /\ collected'[q] = collected[q]
                                        /\ model'[q] = model[q]
                                        /\ base'[q] = base[q]
                                        /\ held'[q] = held[q]
<1> USE DEF Goto, At, memory
<1>1. CASE Begin(r)
  BY <1>1 DEF TypeOK, Begin
<1>2. CASE GetRemote(r)
  BY <1>2 DEF TypeOK, GetRemote, Builds
<1>3. CASE Backfill(r)
  BY <1>3 DEF TypeOK, Backfill
<1>4. CASE Load(r)
  BY <1>4 DEF TypeOK, Load, Builds
<1>5. CASE Fill(r)
  BY <1>5 DEF TypeOK, Fill
<1>6. CASE FillRemote(r)
  BY <1>6 DEF TypeOK, FillRemote
<1>7. CASE Handle(r)
  BY <1>7 DEF TypeOK, Handle
<1>8. CASE Merge(r)
  BY <1>8 DEF TypeOK, Merge
<1>9. CASE Insert(r)
  BY <1>9 DEF TypeOK, Insert, Builds
<1>10. CASE InsertTaken(r)
  BY <1>10 DEF TypeOK, InsertTaken
<1>11. CASE Erase(r)
  BY <1>11 DEF TypeOK, Erase
<1>12. CASE Drop(r)
  BY <1>12 DEF TypeOK, Drop
<1>13. CASE DropRemote(r)
  BY <1>13 DEF TypeOK, DropRemote
<1>14. CASE Dispatch(r)
  BY <1>14 DEF TypeOK, Dispatch
<1>15. CASE Record(r)
  BY <1>15 DEF TypeOK, Record
<1>16. CASE FlushConflict(r)
  BY <1>16 DEF TypeOK, FlushConflict
<1>17. CASE Commit(r)
  BY <1>17 DEF TypeOK, Commit, Commits
<1>18. CASE Publish(r)
  BY <1>18 DEF TypeOK, Publish, Without
<1>19. CASE Straggle(r)
  BY <1>19 DEF TypeOK, Straggle, Without
<1>20. CASE Fail(r)
  BY <1>20 DEF TypeOK, Fail
<1>21. CASE PublishRaises(r)
  BY <1>21 DEF TypeOK, PublishRaises, Without
<1>22. CASE LoseCommit(r)
  BY <1>22 DEF TypeOK, LoseCommit, Commits
<1> QED
  BY <1>1, <1>2, <1>3, <1>4, <1>5, <1>6, <1>7, <1>8, <1>9, <1>10, <1>11, <1>12, <1>13,
     <1>14, <1>15, <1>16, <1>17, <1>18, <1>19, <1>20, <1>21, <1>22 DEF Acts, Step

LEMMA PathStep ==
    ASSUME TypeOK, NEW r \in Requests, Path(r), Acts(r)
    PROVE  Path(r)'
<1> USE DEF Path, Goto, At, Ends, workload, memory
<1>0. ASSUME Publish(r) \/ Straggle(r) \/ PublishRaises(r), Len(collected[r]) # 1
      PROVE  collected'[r] # <<>>
  <2>1. PICK i \in 1..Len(collected[r]) :
          collected' = [collected EXCEPT ![r] = RemoveAt(@, i)]
    BY <1>0, SendType
  <2>2. collected[r] \in Seq(Events) /\ collected'[r] = RemoveAt(collected[r], i)
    BY <2>1 DEF TypeOK
  <2>3. Len(RemoveAt(collected[r], i)) = Len(collected[r]) - 1
    BY <2>1, <2>2, Remaining
  <2>4. Len(collected[r]) \in Nat /\ Len(<<>>) = 0
    BY <2>2
  <2>5. Len(RemoveAt(collected[r], i)) # 0
    BY <1>0, <2>3, <2>4
  <2> QED
    BY <2>2, <2>4, <2>5
<1>1. CASE Begin(r)
  BY <1>1 DEF TypeOK, Begin, WithEntity
<1>2. CASE GetRemote(r)
  BY <1>2 DEF TypeOK, GetRemote, WithEntity
<1>3. CASE Backfill(r)
  BY <1>3 DEF TypeOK, Backfill, WithEntity
<1>4. CASE Load(r)
  BY <1>4 DEF TypeOK, Load, WithEntity
<1>5. CASE Fill(r)
  BY <1>5 DEF TypeOK, Kinds, Fill, WithEntity
<1>6. CASE FillRemote(r)
  BY <1>6 DEF TypeOK, Kinds, FillRemote, WithEntity
<1>7. CASE Handle(r)
  BY <1>7 DEF TypeOK, Handle
<1>8. CASE Merge(r)
  BY <1>8 DEF TypeOK, Merge
<1>9. CASE Insert(r)
  BY <1>9 DEF TypeOK, Insert
<1>10. CASE InsertTaken(r)
  BY <1>10 DEF TypeOK, InsertTaken
<1>11. CASE Erase(r)
  BY <1>11 DEF TypeOK, Erase
<1>12. CASE Drop(r)
  BY <1>12 DEF TypeOK, Drop
<1>13. CASE DropRemote(r)
  BY <1>13 DEF TypeOK, DropRemote
<1>14. CASE Dispatch(r)
  BY <1>14 DEF TypeOK, Dispatch
<1>15. CASE Record(r)
  BY <1>15 DEF TypeOK, Record
<1>16. CASE FlushConflict(r)
  BY <1>16 DEF TypeOK, FlushConflict
<1>17. CASE Commit(r)
  BY <1>17 DEF TypeOK, Commit, Commits
<1>18. CASE Publish(r)
  BY <1>0, <1>18 DEF TypeOK, Publish
<1>19. CASE Straggle(r)
  BY <1>0, <1>19 DEF TypeOK, Straggle
<1>20. CASE Fail(r)
  BY <1>20 DEF TypeOK, Fail
<1>21. CASE PublishRaises(r)
  <2>1. Len(collected[r]) \in Nat
    <3>1. collected[r] \in Seq(Events)
      BY DEF TypeOK
    <3> HIDE DEF Path
    <3> QED
      BY <3>1
  <2>2. Len(collected[r]) > 1 => Len(collected[r]) # 1
    <3> DEFINE length == Len(collected[r])
    <3>1. length \in Nat => (length > 1 => length # 1)
      <4> HIDE DEF length
      <4> QED
        OBVIOUS
    <3> QED
      BY <2>1, <3>1
  <2> QED
    BY <1>0, <1>21, <2>2 DEF TypeOK, PublishRaises
<1>22. CASE LoseCommit(r)
  BY <1>22 DEF TypeOK, LoseCommit, Commits
<1> QED
  BY <1>1, <1>2, <1>3, <1>4, <1>5, <1>6, <1>7, <1>8, <1>9, <1>10, <1>11, <1>12, <1>13,
     <1>14, <1>15, <1>16, <1>17, <1>18, <1>19, <1>20, <1>21, <1>22 DEF Acts, Step

LEMMA OthersType ==
    ASSUME TypeOK, \A r \in Requests : Path(r),
           \/ \E p \in Processes : Crash(p) \/ ExpireLocal(p)
           \/ ExpireRemote \/ UNCHANGED vars
    PROVE  TypeOK' /\ \A r \in Requests : Path(r)'
<1> USE DEF TypeOK, Path, At, Steps, Ends, workload, cache, database, memory
<1>1. ASSUME NEW p \in Processes, Crash(p)
      PROVE  TypeOK' /\ \A r \in Requests : Path(r)'
  <2>1. /\ pc' \in [Requests -> Steps \cup Ends \cup {"idle"}]
        /\ \A r \in Requests : pc'[r] = pc[r] \/ pc'[r] = "failed"
    BY <1>1 DEF Crash
  <2>2. pending' \in SUBSET Value /\ lock' \in SUBSET Requests
    BY <1>1 DEF Crash
  <2>3. TypeOK'
    BY <1>1, <2>1, <2>2 DEF Crash
  <2> QED
    BY <1>1, <2>1, <2>3 DEF Crash
<1>2. ASSUME NEW p \in Processes, ExpireLocal(p)
      PROVE  TypeOK' /\ \A r \in Requests : Path(r)'
  BY <1>2 DEF ExpireLocal
<1>3. CASE ExpireRemote
  BY <1>3 DEF ExpireRemote
<1>4. CASE UNCHANGED vars
  BY <1>4 DEF vars
<1> QED
  BY <1>1, <1>2, <1>3, <1>4

TypeInv == TypeOK /\ \A r \in Requests : Path(r)

LEMMA StepType == TypeInv /\ [Next]_vars => TypeInv'
<1> SUFFICES ASSUME TypeInv, [Next]_vars PROVE TypeInv'
  OBVIOUS
<1>1. ASSUME NEW r \in Requests, Acts(r) PROVE TypeInv'
  <2>1. \A q \in Requests \ {r} : Path(q)'
    BY <1>1, Elsewhere DEF TypeInv, Path, At, workload
  <2> QED
    BY <1>1, <2>1, TypeStep, PathStep DEF TypeInv
<1> QED
  BY <1>1, OthersType DEF TypeInv, Next, Acts

(* The variables keep their types, and every request keeps to a path that its  *)
(* operation, its publisher and its caches allow, in CrudService.             *)
THEOREM TypeCorrect == Spec => []TypeInv
BY InitType, StepType, PTL DEF Spec, TypeInv

------------------------------------------------------------------------------
(* Every event in one queue, once *)

Sides == {"object", "collected"}

Queue(side, o) == IF side = "object" THEN object[o].events ELSE collected[o]

(* Event e waits at place i of a queue.                                       *)
Waits(e, side, o, i) ==
    /\ side \in Sides /\ o \in Requests
    /\ i \in 1..Len(Queue(side, o))
    /\ Queue(side, o)[i] = e

(* Request r has not registered its events yet.                               *)
Early(r) ==
    \/ pc[r] \in {"idle", "insert", "erase", "get", "backfill", "load", "fill",
                  "fillRemote", "handle"}
    \/ kind[r] = "create" /\ At(r, "dispatch")

(* An event is in one place of one queue, or was sent, once; or in none.      *)
Once(e) ==
    /\ published[e] <= 1
    /\ published[e] > 0 => \A s, o, i : ~Waits(e, s, o, i)
    /\ \A s, o, i, t, q, j :
         Waits(e, s, o, i) /\ Waits(e, t, q, j) => s = t /\ o = q /\ i = j
    /\ Early(e[1]) => published[e] = 0 /\ \A s, o, i : ~Waits(e, s, o, i)

OnceInv == TypeInv /\ \A e \in Events : Once(e)

LEMMA EventIs ==
    /\ \A e \in Events : \E r \in Requests : \E n \in 1..EventCount[r] : e = <<r, n>>
    /\ \A r \in Requests : \A n \in 1..EventCount[r] : <<r, n>> \in Events
    /\ \A e \in Events : e[1] \in Requests
<1>1. \A r \in Requests : ToSet(EventsOf(r)) = {<<r, n>> : n \in 1..EventCount[r]}
  <2> TAKE r \in Requests
  <2>1. EventsOf(r) \in Seq(Events) /\ Len(EventsOf(r)) = EventCount[r]
    BY EventsAre
  <2>2. ToSet(EventsOf(r)) = {EventsOf(r)[n] : n \in 1..EventCount[r]}
    BY <2>1, ToSetIs
  <2>3. \A n \in 1..EventCount[r] : EventsOf(r)[n] = <<r, n>>
    BY EventsAre
  <2> QED
    BY <2>2, <2>3
<1>2. Events = UNION {{<<r, n>> : n \in 1..EventCount[r]} : r \in Requests}
  BY <1>1 DEF Events
<1> QED
  BY <1>2

LEMMA InitOnce == Init => OnceInv
<1> SUFFICES ASSUME Init PROVE OnceInv
  OBVIOUS
<1>1. \A e, s, o, i : ~Waits(e, s, o, i)
  BY DEF Init, Waits, Queue
<1> QED
  BY <1>1, InitType DEF Init, OnceInv, TypeInv, Once

(* A request is early only where its steps lead from an early one.            *)
LEMMA EarlyStep ==
    ASSUME TypeOK, NEW r \in Requests, Path(r), Acts(r), NEW q \in Requests, Early(q)'
    PROVE  Early(q) /\ (q = r => ~Handle(r) /\ ~Dispatch(r))
<1> USE DEF Goto, At, Ends, workload, memory, Early
<1>1. CASE q # r
  BY <1>1, Elsewhere
<1> SUFFICES ASSUME q = r PROVE Early(r) /\ ~Handle(r) /\ ~Dispatch(r)
  BY <1>1
<1>2. CASE Begin(r)
  BY <1>2 DEF TypeOK, Begin, Handle, Dispatch
<1>3. CASE GetRemote(r) \/ Backfill(r) \/ Load(r) \/ Fill(r) \/ FillRemote(r)
  BY <1>3 DEF TypeOK, GetRemote, Backfill, Load, Fill, FillRemote, Handle, Dispatch
<1>4. CASE Handle(r)
  BY <1>4 DEF TypeOK, Handle, Path
<1>5. CASE Merge(r) \/ Drop(r) \/ DropRemote(r)
  BY <1>5 DEF TypeOK, Merge, Drop, DropRemote, Path
<1>6. CASE Insert(r) \/ InsertTaken(r) \/ Erase(r)
  BY <1>6 DEF TypeOK, Insert, InsertTaken, Erase, Path, Handle, Dispatch
<1>7. CASE Dispatch(r)
  BY <1>7 DEF TypeOK, Dispatch
<1>8. CASE Record(r) \/ FlushConflict(r) \/ Fail(r)
  BY <1>8 DEF TypeOK, Record, FlushConflict, Fail
<1>9. CASE Commit(r) \/ LoseCommit(r)
  BY <1>9 DEF TypeOK, Commit, LoseCommit, Commits
<1>10. CASE Publish(r) \/ Straggle(r) \/ PublishRaises(r)
  BY <1>10 DEF TypeOK, Publish, Straggle, PublishRaises
<1> QED
  BY <1>2, <1>3, <1>4, <1>5, <1>6, <1>7, <1>8, <1>9, <1>10 DEF Acts, Step

(* The steps that send nothing and register nothing keep the queues, but for  *)
(* those of an object that is built anew.                                     *)
LEMMA QueuesKept ==
    ASSUME TypeOK, NEW r \in Requests, Path(r), Acts(r),
           ~Handle(r), ~Dispatch(r), ~Publish(r), ~Straggle(r), ~PublishRaises(r)
    PROVE  /\ published' = published /\ collected' = collected
           /\ \A o \in Requests : \/ object'[o].events = object[o].events
                                  \/ object'[o].events = <<>>
<1> USE DEF Goto, At, workload, database, memory
<1>1. CASE GetRemote(r) \/ Load(r) \/ Insert(r)
  <2>1. object \in [Requests -> Entity]
    BY DEF TypeOK
  <2>2. \/ object' = object
        \/ \E changes : object' = [object EXCEPT ![r] = [changes |-> changes, events |-> <<>>]]
    BY <1>1 DEF GetRemote, Load, Insert, Builds
  <2>3. \A o \in Requests : object'[o] = object[o] \/ object'[o].events = <<>>
    BY <2>1, <2>2
  <2>4. published' = published /\ collected' = collected
    BY <1>1 DEF GetRemote, Load, Insert
  <2> QED
    BY <2>3, <2>4
<1>2. CASE Begin(r) \/ Backfill(r) \/ Fill(r) \/ FillRemote(r)
  BY <1>2 DEF Begin, Backfill, Fill, FillRemote
<1>3. CASE Merge(r) \/ Drop(r) \/ DropRemote(r)
  BY <1>3 DEF Merge, Drop, DropRemote
<1>4. CASE InsertTaken(r) \/ Erase(r)
  BY <1>4 DEF InsertTaken, Erase
<1>5. CASE Record(r) \/ FlushConflict(r) \/ Fail(r)
  BY <1>5 DEF Record, FlushConflict, Fail
<1>6. CASE Commit(r) \/ LoseCommit(r)
  BY <1>6 DEF Commit, LoseCommit, Commits
<1> QED
  BY <1>1, <1>2, <1>3, <1>4, <1>5, <1>6 DEF Acts, Step

LEMMA OnceKept ==
    ASSUME OnceInv, NEW r \in Requests, Acts(r),
           ~Handle(r), ~Dispatch(r), ~Publish(r), ~Straggle(r), ~PublishRaises(r)
    PROVE  \A e \in Events : Once(e)'
<1>1. TypeOK /\ Path(r)
  BY DEF OnceInv, TypeInv
<1>2. /\ published' = published
      /\ \A e, s, o, i : Waits(e, s, o, i)' => Waits(e, s, o, i)
  BY <1>1, QueuesKept DEF Waits, Queue
<1>3. \A e \in Events : Early(e[1])' => Early(e[1])
  BY <1>1, EarlyStep, EventIs
<1> QED
  BY <1>2, <1>3 DEF OnceInv, Once

(* What the handler makes of the queue of the object it holds.                *)
LEMMA HandleQueue ==
    ASSUME TypeOK, NEW r \in Requests, Handle(r)
    PROVE  LET h == held[r]
               length == Len(object[h].events)
           IN  /\ length \in Nat
               /\ Len(object'[h].events) = length + EventCount[r] /\ EventCount[r] \in Nat
               /\ \A i \in 1..length : object'[h].events[i] = object[h].events[i]
               /\ \A i \in length + 1..length + EventCount[r] :
                    object'[h].events[i] = <<r, i - length>>
               /\ \A o \in Requests \ {h} : object'[o].events = object[o].events
<1> DEFINE h == held[r]
           length == Len(object[h].events)
<1>1. /\ h \in Requests
      /\ \A o \in Requests : object'[o].events = IF o = h THEN object[o].events \o EventsOf(r)
                                                 ELSE object[o].events
  BY HandleEffect
<1>2. PICK old \in Seq(Events) : old = object[h].events
  BY <1>1 DEF TypeOK, Entity
<1>3. PICK new \in Seq(Events) : new = EventsOf(r)
  BY EventsAre
<1>4. /\ Len(new) = EventCount[r] /\ EventCount[r] \in Nat
      /\ \A n \in 1..EventCount[r] : new[n] = <<r, n>>
  BY <1>3, EventsAre
<1>5. /\ Len(old \o new) = Len(old) + Len(new) /\ Len(old) \in Nat
      /\ \A i \in 1..Len(old) : (old \o new)[i] = old[i]
      /\ \A i \in Len(old) + 1..Len(old) + Len(new) : (old \o new)[i] = new[i - Len(old)]
  OBVIOUS
<1>6. length \in Nat
  BY <1>2, <1>5
<1>7. object'[h].events = old \o new /\ length = Len(old)
  BY <1>1, <1>2, <1>3
<1> HIDE DEF length
<1>8. \A i \in length + 1..length + EventCount[r] : i - length \in 1..EventCount[r]
  BY <1>4, <1>6
<1>9. \A i \in length + 1..length + EventCount[r] : object'[h].events[i] = <<r, i - length>>
  BY <1>4, <1>5, <1>7, <1>8
<1>10. /\ Len(object'[h].events) = length + EventCount[r]
       /\ \A i \in 1..length : object'[h].events[i] = object[h].events[i]
  BY <1>2, <1>4, <1>5, <1>7
<1>11. \A o \in Requests \ {h} : object'[o].events = object[o].events
  BY <1>1
<1> QED
  BY <1>4, <1>6, <1>9, <1>10, <1>11 DEF length

(* What is left of the queue of a request that publishes its k-th event.      *)
SendQueue(r, k) ==
    /\ Len(collected'[r]) = Len(collected[r]) - 1
    /\ \A j \in 1..Len(collected[r]) - 1 :
         collected'[r][j] = IF j < k THEN collected[r][j] ELSE collected[r][j + 1]
    /\ \A q \in Requests \ {r} : collected'[q] = collected[q]

LEMMA SendQueueIs ==
    ASSUME TypeOK, NEW r \in Requests, NEW k \in 1..Len(collected[r]),
           collected' = [collected EXCEPT ![r] = RemoveAt(@, k)]
    PROVE  SendQueue(r, k)
<1>1. collected[r] \in Seq(Events) /\ collected \in [Requests -> Seq(Events)]
  BY DEF TypeOK
<1>2. collected'[r] = RemoveAt(collected[r], k)
  BY <1>1
<1>3. /\ Len(RemoveAt(collected[r], k)) = Len(collected[r]) - 1
      /\ \A j \in 1..Len(collected[r]) - 1 :
           RemoveAt(collected[r], k)[j] =
             IF j < k THEN collected[r][j] ELSE collected[r][j + 1]
  BY <1>1, Remaining
<1>4. \A q \in Requests \ {r} : collected'[q] = collected[q]
  BY <1>1
<1> QED
  BY <1>2, <1>3, <1>4 DEF SendQueue

LEMMA OnceHandle ==
    ASSUME OnceInv, NEW r \in Requests, Handle(r)
    PROVE  \A e \in Events : Once(e)'
<1> DEFINE h == held[r]
           length == Len(object[h].events)
<1>1. TypeOK /\ Path(r) /\ Acts(r) /\ Early(r) /\ h \in Requests
  BY DEF OnceInv, TypeInv, Acts, Step, Handle, At, Early, TypeOK
<1>2. published' = published /\ collected' = collected
  BY DEF Handle
<1>3. /\ length \in Nat
      /\ Len(object'[h].events) = length + EventCount[r] /\ EventCount[r] \in Nat
      /\ \A i \in 1..length : object'[h].events[i] = object[h].events[i]
      /\ \A i \in length + 1..length + EventCount[r] :
           object'[h].events[i] = <<r, i - length>>
      /\ \A o \in Requests \ {h} : object'[o].events = object[o].events
  BY <1>1, HandleQueue
<1>6. ASSUME NEW e \in Events, NEW s, NEW o, NEW i, Waits(e, s, o, i)'
      PROVE  \/ Waits(e, s, o, i)
             \/ /\ s = "object" /\ o = h /\ e = <<r, i - length>>
                /\ i \in length + 1..length + EventCount[r]
  <2>2. CASE s = "object" /\ o = h
    <3>1. i \in 1..length + EventCount[r] /\ object'[h].events[i] = e
      BY <1>3, <1>6, <2>2 DEF Waits, Queue
    <3>2. i \in 1..length \/ i \in length + 1..length + EventCount[r]
      BY <1>3, <3>1
    <3> QED
      BY <1>1, <1>3, <2>2, <3>1, <3>2 DEF Waits, Queue, Sides
  <2>3. CASE ~(s = "object" /\ o = h)
    BY <1>2, <1>3, <1>6, <2>3 DEF Waits, Queue
  <2> QED
    BY <2>2, <2>3
<1>7. ASSUME NEW e \in Events PROVE Once(e)'
  <2>1. CASE e[1] = r
    <3>1. published[e] = 0 /\ \A s, o, i : ~Waits(e, s, o, i)
      BY <1>1, <2>1 DEF OnceInv, Once
    <3>2. ASSUME NEW s, NEW o, NEW i, Waits(e, s, o, i)'
          PROVE  s = "object" /\ o = h /\ i = e[2] + length
      BY <1>3, <1>6, <3>1, <3>2
    <3>3. ~Early(r)'
      BY <1>1, EarlyStep
    <3> QED
      BY <1>2, <2>1, <3>1, <3>2, <3>3 DEF Once
  <2>2. CASE e[1] # r
    <3>1. ASSUME NEW s, NEW o, NEW i, Waits(e, s, o, i)'
          PROVE  Waits(e, s, o, i)
      BY <1>6, <2>2, <3>1
    <3>2. Early(e[1])' => Early(e[1])
      BY <1>1, EarlyStep, EventIs
    <3> QED
      BY <1>2, <3>1, <3>2 DEF OnceInv, Once
  <2> QED
    BY <2>1, <2>2
<1> QED
  BY <1>7

LEMMA OnceDispatch ==
    ASSUME OnceInv, NEW r \in Requests, Dispatch(r)
    PROVE  \A e \in Events : Once(e)'
<1> DEFINE h == held[r]
<1>1. TypeOK /\ Path(r) /\ Acts(r) /\ h \in Requests
  BY DEF OnceInv, TypeInv, Acts, Step, TypeOK
<1>2. published' = published
  BY DEF Dispatch
<1>3. /\ \A o \in Requests : object'[o].events = IF o = h /\ kind[r] = "update" THEN <<>>
                                                 ELSE object[o].events
      /\ collected' = [collected EXCEPT ![r] = CASE kind[r] = "update" -> object[h].events
                                                 [] kind[r] = "create" -> EventsOf(r)
                                                 [] OTHER -> collected[r]]
  BY <1>1, DispatchEffect
<1>4. \A q \in Requests : collected'[q] = IF q # r THEN collected[q]
                                          ELSE CASE kind[r] = "update" -> object[h].events
                                                 [] kind[r] = "create" -> EventsOf(r)
                                                 [] OTHER -> collected[r]
  BY <1>1, <1>3 DEF TypeOK
<1>5. ASSUME NEW e \in Events PROVE Early(e[1])' => Early(e[1]) /\ e[1] # r
  BY <1>1, EarlyStep, EventIs
<1>6. CASE kind[r] = "update"
  <2>1. ASSUME NEW e \in Events, NEW s, NEW o, NEW i, Waits(e, s, o, i)'
        PROVE  IF s = "collected" /\ o = r THEN Waits(e, "object", h, i)
               ELSE Waits(e, s, o, i) /\ ~(s = "object" /\ o = h)
    BY <1>1, <1>3, <1>4, <1>6, <2>1 DEF Waits, Queue, Sides
  <2> QED
    BY <1>2, <1>5, <2>1 DEF OnceInv, Once
<1>7. CASE kind[r] = "create"
  <2>1. Early(r)
    BY <1>7 DEF Early, Dispatch
  <2>2. ASSUME NEW e \in Events, NEW s, NEW o, NEW i, Waits(e, s, o, i)'
        PROVE  \/ Waits(e, s, o, i)
               \/ s = "collected" /\ o = r /\ e = <<r, i>> /\ i \in 1..EventCount[r]
    <3>1. /\ Len(EventsOf(r)) = EventCount[r]
          /\ \A n \in 1..EventCount[r] : EventsOf(r)[n] = <<r, n>>
      BY EventsAre
    <3>2. CASE s = "collected" /\ o = r
      BY <1>4, <1>7, <2>2, <3>1, <3>2 DEF Waits, Queue
    <3>3. CASE ~(s = "collected" /\ o = r)
      <4>1. object'[o].events = object[o].events /\ o \in Requests /\ s \in Sides
        BY <1>3, <1>7, <2>2 DEF Waits
      <4>2. o # r => collected'[o] = collected[o]
        BY <1>4, <4>1
      <4> QED
        BY <2>2, <3>3, <4>1, <4>2 DEF Waits, Queue, Sides
    <3> QED
      BY <3>2, <3>3
  <2>3. ASSUME NEW e \in Events, e[1] = r PROVE Once(e)'
    <3>1. published[e] = 0 /\ \A s, o, i : ~Waits(e, s, o, i)
      BY <2>1, <2>3 DEF OnceInv, Once
    <3>2. ASSUME NEW s, NEW o, NEW i, Waits(e, s, o, i)'
          PROVE  s = "collected" /\ o = r /\ i = e[2]
      BY <2>2, <3>1, <3>2
    <3> QED
      BY <1>2, <1>5, <2>3, <3>1, <3>2 DEF Once
  <2>4. ASSUME NEW e \in Events, e[1] # r PROVE Once(e)'
    <3>1. ASSUME NEW s, NEW o, NEW i, Waits(e, s, o, i)'
          PROVE  Waits(e, s, o, i)
      BY <2>2, <2>4, <3>1
    <3> QED
      BY <1>2, <1>5, <3>1 DEF OnceInv, Once
  <2> QED
    BY <2>3, <2>4
<1>8. CASE kind[r] = "remove"
  <2>1. \A e, s, o, i : Waits(e, s, o, i)' => Waits(e, s, o, i)
    BY <1>3, <1>4, <1>8 DEF Waits, Queue
  <2> QED
    BY <1>2, <1>5, <2>1 DEF OnceInv, Once
<1> QED
  BY <1>6, <1>7, <1>8 DEF Dispatch

LEMMA OnceSend ==
    ASSUME OnceInv, NEW r \in Requests, Publish(r) \/ Straggle(r) \/ PublishRaises(r)
    PROVE  \A e \in Events : Once(e)'
<1>1. TypeOK /\ Path(r) /\ Acts(r)
  BY DEF OnceInv, TypeInv, Acts, Step
<1>2. PICK k \in 1..Len(collected[r]) :
        /\ collected' = [collected EXCEPT ![r] = RemoveAt(@, k)]
        /\ \/ published' = published
           \/ published' = [published EXCEPT ![collected[r][k]] = @ + 1]
        /\ collected[r][k] \in Events
  BY <1>1, SendType
<1>3. object' = object
  BY DEF Publish, Straggle, PublishRaises
<1>4. collected[r] \in Seq(Events) /\ Len(collected[r]) \in Nat
      /\ collected \in [Requests -> Seq(Events)] /\ published \in [Events -> Nat]
  BY <1>1 DEF TypeOK
<1>5. SendQueue(r, k)
  BY <1>1, <1>2, SendQueueIs
<1>6. ASSUME NEW e, NEW s, NEW o, NEW i, Waits(e, s, o, i)'
      PROVE  IF s = "collected" /\ o = r
             THEN i \in Nat /\ Waits(e, s, o, IF i < k THEN i ELSE i + 1)
             ELSE Waits(e, s, o, i)
  <2>1. CASE s = "collected" /\ o = r
    <3>1. i \in 1..Len(collected[r]) - 1 /\ collected'[r][i] = e
      BY <1>5, <1>6, <2>1 DEF Waits, Queue, SendQueue
    <3>2. i \in Nat /\ i \in 1..Len(collected[r]) /\ i + 1 \in 1..Len(collected[r])
      BY <1>4, <3>1
    <3> QED
      BY <1>5, <2>1, <3>1, <3>2 DEF Waits, Queue, Sides, SendQueue
  <2>2. CASE ~(s = "collected" /\ o = r)
    BY <1>3, <1>5, <1>6, <2>2 DEF Waits, Queue, Sides, SendQueue
  <2> QED
    BY <2>1, <2>2
<1>7. Waits(collected[r][k], "collected", r, k)
  BY DEF Waits, Queue, Sides
<1>8. \A e \in Events : Early(e[1])' => Early(e[1])
  BY <1>1, EarlyStep, EventIs
<1>9. ASSUME NEW e \in Events, e # collected[r][k] PROVE Once(e)'
  <2>1. published'[e] = published[e]
    BY <1>2, <1>4, <1>9
  <2>2. \A s, o, i, t, q, j :
         Waits(e, s, o, i)' /\ Waits(e, t, q, j)' => s = t /\ o = q /\ i = j
    BY <1>6 DEF OnceInv, Once
  <2> QED
    BY <1>6, <1>8, <2>1, <2>2 DEF OnceInv, Once
<1>10. ASSUME NEW e \in Events, e = collected[r][k] PROVE Once(e)'
  <2>1. published[e] = 0 /\ ~Early(e[1])
    BY <1>4, <1>7, <1>10 DEF OnceInv, Once
  <2>2. published'[e] <= 1
    BY <1>2, <1>4, <2>1
  <2>3. ASSUME NEW s, NEW o, NEW i, Waits(e, s, o, i)' PROVE FALSE
    BY <1>6, <1>7, <1>10, <2>3 DEF OnceInv, Once
  <2> QED
    BY <1>8, <2>1, <2>2, <2>3 DEF Once
<1> QED
  BY <1>9, <1>10

(* Crashes, expiry and the end leave the queues and make no request early.    *)
LEMMA OthersKeep ==
    ASSUME TypeOK,
           \/ \E p \in Processes : Crash(p) \/ ExpireLocal(p)
           \/ ExpireRemote \/ UNCHANGED vars
    PROVE  /\ UNCHANGED <<workload, held, object, model, base, collected, published,
                          row, stored, committed, quiet>>
           /\ \A r \in Requests : pc'[r] = pc[r] \/ (pc[r] # "idle" /\ pc'[r] = "failed")
<1>1. ASSUME NEW p \in Processes, Crash(p)
      PROVE  \A r \in Requests : pc'[r] = pc[r] \/ (pc[r] # "idle" /\ pc'[r] = "failed")
  BY <1>1 DEF Crash, Steps
<1> QED
  BY <1>1 DEF Crash, ExpireLocal, ExpireRemote, vars, workload, memory, database

LEMMA StepOnce == OnceInv /\ [Next]_vars => OnceInv'
<1> SUFFICES ASSUME OnceInv, [Next]_vars PROVE OnceInv'
  OBVIOUS
<1>1. TypeInv'
  BY StepType DEF OnceInv
<1>2. ASSUME NEW r \in Requests, Acts(r) PROVE OnceInv'
  BY <1>1, <1>2, OnceKept, OnceHandle, OnceDispatch, OnceSend DEF OnceInv
<1>3. ASSUME \/ \E p \in Processes : Crash(p) \/ ExpireLocal(p)
             \/ ExpireRemote \/ UNCHANGED vars
      PROVE  OnceInv'
  <2>1. \A e, s, o, i : Waits(e, s, o, i)' <=> Waits(e, s, o, i)
    BY <1>3, OthersKeep DEF OnceInv, TypeInv, Waits, Queue
  <2>2. \A e \in Events : Early(e[1])' => Early(e[1])
    BY <1>3, OthersKeep, EventIs DEF OnceInv, TypeInv, Early, At, workload
  <2>3. published' = published
    BY <1>3, OthersKeep DEF OnceInv, TypeInv
  <2> QED
    BY <1>1, <2>1, <2>2, <2>3 DEF OnceInv, Once
<1> QED
  BY <1>2, <1>3 DEF Next, Acts

(* No event is published twice, whatever the requests share (PublishedOnce).  *)
THEOREM NoEventTwice == Spec => []PublishedOnce
<1>1. OnceInv => PublishedOnce
  BY DEF OnceInv, Once, PublishedOnce
<1> QED
  BY <1>1, InitOnce, StepOnce, PTL DEF Spec

------------------------------------------------------------------------------
(* Events in the order of their registration *)

Before(e) == {<<e[1], m>> : m \in 1..e[2] - 1}

(* With the sequential publisher, an event waits behind those registered      *)
(* before it, until they are sent, and is sent after them.                    *)
Preceded(e) ==
    publisher = "sequence" =>
        \A d \in Before(e) :
            /\ \A o, i : Waits(e, "object", o, i)
                           => \E j \in 1..i - 1 : Waits(d, "object", o, j)
            /\ \A q, i : Waits(e, "collected", q, i) /\ pc[q] \notin Ends
                           => \/ published[d] > 0
                              \/ \E j \in 1..i - 1 : Waits(d, "collected", q, j)
            /\ published[e] > 0 => published[d] > 0

NoStraggler == publisher = "sequence" => \A q \in Requests : ~At(q, "straggle")

OrderInv == TypeInv /\ NoStraggler /\ \A e \in Events : Preceded(e)

LEMMA BeforeIs ==
    ASSUME NEW e \in Events
    PROVE  Before(e) \subseteq Events /\ e[2] \in Nat
<1>1. PICK r \in Requests : \E n \in 1..EventCount[r] : e = <<r, n>>
  BY EventIs
<1>2. EventCount[r] \in Nat
  BY EventsAre
<1>3. e[1] = r /\ e[2] \in 1..EventCount[r]
  BY <1>1
<1>4. \A m \in 1..e[2] - 1 : m \in 1..EventCount[r]
  BY <1>2, <1>3
<1> QED
  BY <1>2, <1>3, <1>4, EventIs DEF Before

LEMMA InitOrder == Init => OrderInv
<1> SUFFICES ASSUME Init PROVE OrderInv
  OBVIOUS
<1>1. \A e, s, o, i : ~Waits(e, s, o, i)
  BY DEF Init, Waits, Queue
<1>2. NoStraggler
  BY DEF Init, NoStraggler, At
<1> QED
  BY <1>1, <1>2, InitType DEF Init, OrderInv, TypeInv, Preceded

(* An ended request takes no step, and none straggles where events are sent   *)
(* in sequence.                                                               *)
LEMMA EndsStep ==
    ASSUME TypeOK, NEW r \in Requests, Path(r), Acts(r)
    PROVE  /\ pc[r] \notin Ends
           /\ publisher = "sequence" /\ ~At(r, "straggle") => ~At(r, "straggle")'
<1> USE DEF Goto, At, Ends
<1>1. CASE Begin(r)
  BY <1>1 DEF TypeOK, Begin, WithEntity
<1>2. CASE GetRemote(r) \/ Backfill(r) \/ Load(r) \/ Fill(r) \/ FillRemote(r)
  BY <1>2 DEF TypeOK, GetRemote, Backfill, Load, Fill, FillRemote, WithEntity
<1>3. CASE Handle(r) \/ Merge(r) \/ Drop(r) \/ DropRemote(r)
  BY <1>3 DEF TypeOK, Handle, Merge, Drop, DropRemote
<1>4. CASE Insert(r) \/ InsertTaken(r) \/ Erase(r)
  BY <1>4 DEF TypeOK, Insert, InsertTaken, Erase
<1>5. CASE Dispatch(r)
  BY <1>5 DEF TypeOK, Dispatch
<1>6. CASE Record(r) \/ FlushConflict(r) \/ Fail(r)
  BY <1>6 DEF TypeOK, Record, FlushConflict, Fail
<1>7. CASE Commit(r) \/ LoseCommit(r)
  BY <1>7 DEF TypeOK, Commit, LoseCommit, Commits
<1>8. CASE Publish(r) \/ Straggle(r) \/ PublishRaises(r)
  BY <1>8 DEF TypeOK, Publish, Straggle, PublishRaises
<1> QED
  BY <1>1, <1>2, <1>3, <1>4, <1>5, <1>6, <1>7, <1>8 DEF Acts, Step

LEMMA OrderKept ==
    ASSUME OrderInv, NEW r \in Requests, Acts(r),
           ~Handle(r), ~Dispatch(r), ~Publish(r), ~Straggle(r), ~PublishRaises(r)
    PROVE  \A e \in Events : Preceded(e)'
<1>1. TypeOK /\ Path(r)
  BY DEF OrderInv, TypeInv
<1>2. published' = published /\ publisher' = publisher
  BY <1>1, QueuesKept, Elsewhere DEF workload
<1>3. ASSUME NEW s, NEW o
      PROVE  \/ \A e, i : ~Waits(e, s, o, i)'
             \/ \A e, i : Waits(e, s, o, i)' <=> Waits(e, s, o, i)
  BY <1>1, QueuesKept DEF Waits, Queue
<1>4. \A q \in Requests : pc'[q] \notin Ends => pc[q] \notin Ends
  BY <1>1, EndsStep, Elsewhere
<1>5. \A e, s, o, i : Waits(e, s, o, i)' => o \in Requests
  BY DEF Waits
<1> QED
  BY <1>2, <1>3, <1>4, <1>5 DEF OrderInv, Preceded

LEMMA OrderHandle ==
    ASSUME OrderInv, NEW r \in Requests, Handle(r)
    PROVE  \A e \in Events : Preceded(e)'
<1> DEFINE h == held[r]
           length == Len(object[h].events)
<1>1. TypeOK /\ Path(r) /\ Acts(r) /\ h \in Requests
  BY DEF OrderInv, TypeInv, Acts, Step, TypeOK
<1>2. published' = published /\ publisher' = publisher /\ collected' = collected
  BY DEF Handle, workload
<1>3. /\ length \in Nat
      /\ Len(object'[h].events) = length + EventCount[r] /\ EventCount[r] \in Nat
      /\ \A i \in 1..length : object'[h].events[i] = object[h].events[i]
      /\ \A i \in length + 1..length + EventCount[r] :
           object'[h].events[i] = <<r, i - length>>
      /\ \A o \in Requests \ {h} : object'[o].events = object[o].events
  BY <1>1, HandleQueue
<1>4. \A q \in Requests : pc'[q] \notin Ends => pc[q] \notin Ends
  BY <1>1, EndsStep, Elsewhere
<1>5. \A e, q, i : Waits(e, "collected", q, i)' <=> Waits(e, "collected", q, i)
  BY <1>2 DEF Waits, Queue
<1> HIDE DEF length
<1>6. ASSUME NEW e, NEW o, NEW i, Waits(e, "object", o, i)
      PROVE  Waits(e, "object", o, i)'
  <2>1. CASE o = h
    <3>1. i \in 1..length /\ object[h].events[i] = e
      BY <1>6, <2>1 DEF Waits, Queue, length
    <3>2. i \in 1..length + EventCount[r]
      BY <1>3, <3>1
    <3> QED
      BY <1>1, <1>3, <2>1, <3>1, <3>2 DEF Waits, Queue, Sides
  <2>2. CASE o # h
    BY <1>3, <1>6, <2>2 DEF Waits, Queue
  <2> QED
    BY <2>1, <2>2
<1>7. ASSUME NEW n \in 1..EventCount[r], NEW o, o = h, NEW i, i = length + n
      PROVE  Waits(<<r, n>>, "object", o, i)'
  <2>1. /\ length + n \in length + 1..length + EventCount[r]
        /\ length + n \in 1..length + EventCount[r]
        /\ length + n - length = n
    BY <1>3
  <2>2. object'[h].events[i] = <<r, n>> /\ i \in 1..Len(object'[h].events)
    BY <1>3, <1>7, <2>1
  <2>3. Queue("object", o)' = object'[h].events
    BY <1>7 DEF Queue
  <2> QED
    BY <1>1, <1>7, <2>2, <2>3 DEF Waits, Sides
<1>8. ASSUME NEW e \in Events, NEW d \in Before(e), NEW o, NEW i,
             publisher = "sequence", Waits(e, "object", o, i)'
      PROVE  \E j \in 1..i - 1 : Waits(d, "object", o, j)'
  <2>1. CASE Waits(e, "object", o, i)
    BY <1>6, <1>8, <2>1 DEF OrderInv, Preceded
  <2>2. CASE ~Waits(e, "object", o, i)
    <3>1. o = h /\ i \in length + 1..length + EventCount[r]
      <4>1. o = h
        BY <1>3, <1>8, <2>2 DEF Waits, Queue
      <4>2. i \in 1..length + EventCount[r] /\ object'[h].events[i] = e
        BY <1>3, <1>8, <4>1 DEF Waits, Queue
      <4>3. i \notin 1..length
        BY <1>1, <1>3, <2>2, <4>1, <4>2 DEF Waits, Queue, Sides, length
      <4> QED
        BY <1>3, <4>1, <4>2, <4>3
    <3>2. e = <<r, i - length>>
      BY <1>3, <1>8, <3>1 DEF Waits, Queue
    <3>3. PICK m \in 1..i - length - 1 : d = <<r, m>>
      BY <3>2 DEF Before
    <3>4. m \in 1..EventCount[r] /\ length + m \in 1..i - 1
      <4>1. \A a, b \in Nat : \A k \in a + 1..a + b : \A l \in 1..k - a - 1 :
              l \in 1..b /\ a + l \in 1..k - 1
        OBVIOUS
      <4> QED
        BY <1>3, <3>1, <3>3, <4>1
    <3> QED
      BY <1>7, <3>1, <3>3, <3>4
  <2> QED
    BY <2>1, <2>2
<1>9. \A e, q, i : Waits(e, "collected", q, i)' => q \in Requests
  BY DEF Waits
<1> QED
  BY <1>2, <1>4, <1>5, <1>8, <1>9 DEF OrderInv, Preceded

LEMMA OrderDispatch ==
    ASSUME OrderInv, NEW r \in Requests, Dispatch(r)
    PROVE  \A e \in Events : Preceded(e)'
<1> DEFINE h == held[r]
<1>1. TypeOK /\ Path(r) /\ Acts(r) /\ h \in Requests
  BY DEF OrderInv, TypeInv, Acts, Step, TypeOK
<1>2. published' = published /\ publisher' = publisher
  BY DEF Dispatch, workload
<1>3. /\ \A o \in Requests : object'[o].events = IF o = h /\ kind[r] = "update" THEN <<>>
                                                 ELSE object[o].events
      /\ collected' = [collected EXCEPT ![r] = CASE kind[r] = "update" -> object[h].events
                                                 [] kind[r] = "create" -> EventsOf(r)
                                                 [] OTHER -> collected[r]]
  BY <1>1, DispatchEffect
<1>4. /\ \A q \in Requests \ {r} : collected'[q] = collected[q]
      /\ kind[r] = "update" => collected'[r] = object[h].events
      /\ kind[r] = "create" => collected'[r] = EventsOf(r)
      /\ kind[r] = "remove" => collected'[r] = collected[r]
  BY <1>1, <1>3 DEF TypeOK
<1>5. \A q \in Requests : pc'[q] \notin Ends => pc[q] \notin Ends
  BY <1>1, EndsStep, Elsewhere
<1>6. ASSUME NEW o
      PROVE  \/ \A e, i : ~Waits(e, "object", o, i)'
             \/ \A e, i : Waits(e, "object", o, i)' <=> Waits(e, "object", o, i)
  BY <1>3 DEF Waits, Queue
<1>7. ASSUME NEW q, q # r
      PROVE  \A e, i : Waits(e, "collected", q, i)' <=> Waits(e, "collected", q, i)
  BY <1>4, <1>7 DEF Waits, Queue
<1>8. ASSUME NEW e \in Events, NEW d \in Before(e), NEW i,
             publisher = "sequence", Waits(e, "collected", r, i)', pc[r] \notin Ends
      PROVE  published[d] > 0 \/ \E j \in 1..i - 1 : Waits(d, "collected", r, j)'
  <2>1. CASE kind[r] = "update"
    <3>1. \A x, j : Waits(x, "collected", r, j)' <=> Waits(x, "object", h, j)
      BY <1>1, <1>4, <2>1 DEF Waits, Queue, Sides
    <3> QED
      BY <1>8, <3>1 DEF OrderInv, Preceded
  <2>2. CASE kind[r] = "create"
    <3>1. /\ Len(EventsOf(r)) = EventCount[r] /\ EventCount[r] \in Nat
          /\ \A n \in 1..EventCount[r] : EventsOf(r)[n] = <<r, n>>
      BY EventsAre
    <3>2. i \in 1..EventCount[r] /\ e = <<r, i>>
      BY <1>4, <1>8, <2>2, <3>1 DEF Waits, Queue
    <3>3. PICK m \in 1..i - 1 : d = <<r, m>>
      BY <3>2 DEF Before
    <3>4. m \in 1..EventCount[r]
      BY <3>1, <3>2, <3>3
    <3>5. Waits(d, "collected", r, m)'
      BY <1>4, <2>2, <3>1, <3>3, <3>4 DEF Waits, Queue, Sides
    <3> QED
      BY <3>5
  <2>3. CASE kind[r] = "remove"
    <3>1. \A x, j : Waits(x, "collected", r, j)' <=> Waits(x, "collected", r, j)
      BY <1>4, <2>3 DEF Waits, Queue
    <3> QED
      BY <1>8, <3>1 DEF OrderInv, Preceded
  <2> QED
    BY <2>1, <2>2, <2>3 DEF Dispatch
<1>9. \A e, q, i : Waits(e, "collected", q, i)' => q \in Requests
  BY DEF Waits
<1>10. ASSUME NEW e \in Events, NEW d \in Before(e), publisher = "sequence",
              NEW q, NEW i, Waits(e, "collected", q, i)', pc'[q] \notin Ends
       PROVE  published'[d] > 0 \/ \E j \in 1..i - 1 : Waits(d, "collected", q, j)'
  <2>1. CASE q = r
    BY <1>2, <1>5, <1>8, <1>10, <2>1
  <2>2. CASE q # r
    BY <1>2, <1>5, <1>7, <1>9, <1>10, <2>2 DEF OrderInv, Preceded
  <2> QED
    BY <2>1, <2>2
<1> QED
  BY <1>2, <1>6, <1>10 DEF OrderInv, Preceded

LEMMA OrderSend ==
    ASSUME OrderInv, NEW r \in Requests, Publish(r) \/ Straggle(r) \/ PublishRaises(r)
    PROVE  \A e \in Events : Preceded(e)'
<1>1. TypeOK /\ Path(r) /\ Acts(r)
  BY DEF OrderInv, TypeInv, Acts, Step
<1>2. object' = object /\ publisher' = publisher
  BY DEF Publish, Straggle, PublishRaises, workload
<1> SUFFICES ASSUME publisher = "sequence" PROVE \A e \in Events : Preceded(e)'
  BY <1>2 DEF Preceded
<1>3. At(r, "publish") /\ ~Straggle(r)
  BY DEF Publish, Straggle, PublishRaises, OrderInv, NoStraggler, At
<1>4. /\ Len(collected[r]) > 0
      /\ \/ published' = published /\ PublishRaises(r)
         \/ published' = [published EXCEPT ![collected[r][1]] = @ + 1]
      /\ collected[r][1] \in Events
      /\ \A i \in 1..Len(collected[r]) - 1 : collected'[r][i] = collected[r][i + 1]
      /\ Len(collected'[r]) = Len(collected[r]) - 1
      /\ \A q \in Requests \ {r} : collected'[q] = collected[q]
  <2>1. PICK k \in 1..Len(collected[r]) :
          /\ SendQueue(r, k)
          /\ \/ published' = published /\ PublishRaises(r)
             \/ published' = [published EXCEPT ![collected[r][k]] = @ + 1]
          /\ collected[r][k] \in Events
          /\ k = 1
    BY <1>1, <1>3, SendType, SendQueueIs
  <2>2. Len(collected[r]) \in Nat
    BY <1>1 DEF TypeOK
  <2> QED
    BY <2>1, <2>2 DEF SendQueue
<1>5. /\ Len(collected[r]) \in Nat /\ published \in [Events -> Nat]
  BY <1>1 DEF TypeOK
<1>6. /\ \A e \in Events : published'[e] >= published[e] /\ published'[e] \in Nat
      /\ \A e \in Events \ {collected[r][1]} : published'[e] = published[e]
  BY <1>4, <1>5
<1>7. \A e, o, i : Waits(e, "object", o, i)' <=> Waits(e, "object", o, i)
  BY <1>2 DEF Waits, Queue
<1>8. ASSUME NEW e \in Events, NEW d \in Before(e), published'[e] > 0
      PROVE  published'[d] > 0
  <2>1. d \in Events
    BY BeforeIs
  <2>2. CASE e = collected[r][1]
    <3>1. Waits(e, "collected", r, 1) /\ pc[r] \notin Ends
      BY <1>3, <1>4, <1>5, <2>2 DEF Waits, Queue, Sides, Ends, At
    <3>2. published[d] > 0
      BY <3>1 DEF OrderInv, Preceded
    <3> QED
      BY <1>5, <1>6, <2>1, <3>2
  <2>3. CASE e # collected[r][1]
    <3>1. published[d] > 0
      BY <1>6, <1>8, <2>3 DEF OrderInv, Preceded
    <3> QED
      BY <1>5, <1>6, <2>1, <3>1
  <2> QED
    BY <2>2, <2>3
<1>9. ASSUME NEW e \in Events, NEW d \in Before(e), NEW q, NEW i,
             Waits(e, "collected", q, i)', pc'[q] \notin Ends
      PROVE  published'[d] > 0 \/ \E j \in 1..i - 1 : Waits(d, "collected", q, j)'
  <2>1. d \in Events /\ q \in Requests
    BY <1>9, BeforeIs DEF Waits
  <2>2. CASE q # r
    <3>1. \A x, j : Waits(x, "collected", q, j)' <=> Waits(x, "collected", q, j)
      BY <1>4, <2>2 DEF Waits, Queue
    <3>2. published[d] > 0 \/ \E j \in 1..i - 1 : Waits(d, "collected", q, j)
      BY <1>1, <1>9, <2>1, <2>2, <3>1, Elsewhere DEF OrderInv, Preceded
    <3> QED
      BY <1>5, <1>6, <2>1, <3>1, <3>2
  <2>3. CASE q = r
    <3>1. i \in 1..Len(collected[r]) - 1 /\ collected[r][i + 1] = e
      BY <1>4, <1>9, <2>3 DEF Waits, Queue
    <3>2. Waits(e, "collected", r, i + 1)
      BY <1>5, <3>1 DEF Waits, Queue, Sides
    <3>3. \/ published[d] > 0
          \/ \E j \in 1..i : Waits(d, "collected", r, j)
      <4>1. pc[r] \notin Ends
        BY <1>3 DEF At, Ends
      <4>2. i \in Int
        BY <1>5, <3>1
      <4> QED
        <5>1. PICK k : k = i + 1
          OBVIOUS
        <5>2. \/ published[d] > 0
              \/ \E j \in 1..k - 1 : Waits(d, "collected", r, j)
          BY <3>2, <4>1, <5>1 DEF OrderInv, Preceded
        <5>3. k - 1 = i
          BY <4>2, <5>1
        <5> QED
          BY <5>2, <5>3
    <3>4. CASE published[d] > 0
      BY <1>5, <1>6, <2>1, <3>4
    <3>5. ASSUME NEW j \in 1..i, Waits(d, "collected", r, j)
          PROVE  published'[d] > 0 \/ \E k \in 1..i - 1 : Waits(d, "collected", r, k)'
      <4>1. CASE j = 1
        <5>1. d = collected[r][1]
          BY <3>5, <4>1 DEF Waits, Queue
        <5>2. ~(published' = published /\ PublishRaises(r))
          BY <1>1, <1>9, <2>3 DEF PublishRaises, Goto, TypeOK, Ends
        <5> QED
          BY <1>4, <1>5, <2>1, <5>1, <5>2
      <4>2. CASE j # 1
        <5>1. j - 1 \in 1..i - 1 /\ j - 1 \in 1..Len(collected[r]) - 1 /\ j - 1 + 1 = j
          BY <1>5, <3>1, <4>2
        <5>2. collected'[r][j - 1] = collected[r][j] /\ collected[r][j] = d
          BY <1>4, <3>5, <5>1 DEF Waits, Queue
        <5>3. Waits(d, "collected", r, j - 1)'
          BY <1>4, <5>1, <5>2 DEF Waits, Queue, Sides
        <5> QED
          BY <5>1, <5>3
      <4> QED
        BY <4>1, <4>2
    <3> QED
      BY <2>3, <3>3, <3>4, <3>5
  <2> QED
    BY <2>2, <2>3
<1> QED
  BY <1>7, <1>8, <1>9, <1>2 DEF OrderInv, Preceded

LEMMA StepOrder == OrderInv /\ [Next]_vars => OrderInv'
<1> SUFFICES ASSUME OrderInv, [Next]_vars PROVE OrderInv'
  OBVIOUS
<1>1. TypeInv'
  BY StepType DEF OrderInv
<1>2. ASSUME NEW r \in Requests, Acts(r) PROVE OrderInv'
  <2>1. NoStraggler'
    <3>1. TypeOK /\ Path(r)
      BY DEF OrderInv, TypeInv
    <3> QED
      BY <1>2, <3>1, EndsStep, Elsewhere DEF OrderInv, NoStraggler, At, workload
  <2> QED
    BY <1>1, <1>2, <2>1, OrderKept, OrderHandle, OrderDispatch, OrderSend DEF OrderInv
<1>3. ASSUME \/ \E p \in Processes : Crash(p) \/ ExpireLocal(p)
             \/ ExpireRemote \/ UNCHANGED vars
      PROVE  OrderInv'
  <2>1. \A e, s, o, i : Waits(e, s, o, i)' <=> Waits(e, s, o, i)
    BY <1>3, OthersKeep DEF OrderInv, TypeInv, Waits, Queue
  <2>2. \A q \in Requests : /\ pc'[q] \notin Ends => pc[q] \notin Ends
                            /\ ~At(q, "straggle") => ~At(q, "straggle")'
    BY <1>3, OthersKeep DEF OrderInv, TypeInv, At, Ends
  <2>3. published' = published /\ publisher' = publisher
    BY <1>3, OthersKeep DEF OrderInv, TypeInv, workload
  <2>4. NoStraggler'
    BY <2>2, <2>3 DEF OrderInv, NoStraggler
  <2>5. \A e, q, i : Waits(e, "collected", q, i)' => q \in Requests
    BY DEF Waits
  <2> QED
    BY <1>1, <2>1, <2>2, <2>3, <2>4, <2>5 DEF OrderInv, Preceded
<1> QED
  BY <1>2, <1>3 DEF Next, Acts

(* The sequential publisher sends the events of a request in the order of     *)
(* their registration (SequenceKeepsOrder).                                   *)
THEOREM SentInOrder == Spec => []SequenceKeepsOrder
<1>1. OrderInv => SequenceKeepsOrder
  <2> SUFFICES ASSUME OrderInv, publisher = "sequence",
                      NEW e \in Events, published[e] > 0, NEW n \in 1..e[2]
               PROVE  published[<<e[1], n>>] > 0
    BY DEF SequenceKeepsOrder
  <2>1. e = <<e[1], e[2]>> /\ e[2] \in Nat
    BY EventIs, BeforeIs
  <2>2. n = e[2] \/ <<e[1], n>> \in Before(e)
    BY <2>1 DEF Before
  <2> QED
    BY <2>1, <2>2 DEF OrderInv, Preceded
<1> QED
  BY <1>1, InitOrder, StepOrder, PTL DEF Spec

------------------------------------------------------------------------------
(* Events and transactions, where no two requests share an object *)

(* A request holds its own object, and its dispatcher its own events: none of *)
(* them before the handler, all of them until the commit, and after it those  *)
(* that are not sent yet.                                                     *)
Owns(r) ==
    /\ held[r] = r
    /\ Early(r) => object[r].events = <<>> /\ collected[r] = <<>>
    /\ pc[r] \in {"merge", "drop", "dropRemote", "dispatch"} =>
         /\ collected[r] = <<>>
         /\ kind[r] = "update" => object[r].events = EventsOf(r)
    /\ pc[r] \in {"record", "commit"} =>
         collected[r] = IF r \in Eventful THEN EventsOf(r) ELSE <<>>
    /\ \A i \in 1..Len(collected[r]) : collected[r][i][1] = r
    /\ pc[r] \in {"publish", "straggle"} => r \in committed
    /\ r \in Eventful /\ pc[r] \in {"publish", "done"} =>
         \A n \in 1..EventCount[r] :
           \/ published[<<r, n>>] > 0
           \/ At(r, "publish") /\ \E i : Waits(<<r, n>>, "collected", r, i)

StoredIsCommitted == stored = {e \in Events : e[1] \in committed \cap Eventful}

OwnInv ==
    /\ OnceInv
    /\ NothingShared => /\ \A r \in Requests : Owns(r)
                        /\ StoredIsCommitted
                        /\ PublishedAreCommitted

LEMMA InitOwn == Init => OwnInv
<1> SUFFICES ASSUME Init PROVE OwnInv
  OBVIOUS
<1>1. \A r \in Requests : Owns(r)
  BY DEF Init, Owns, At, Early
<1>2. StoredIsCommitted /\ PublishedAreCommitted
  BY DEF Init, StoredIsCommitted, PublishedAreCommitted
<1> QED
  BY <1>1, <1>2, InitOnce DEF OwnInv

(* Nothing is taken back: not a commit, not an event the broker has.          *)
LEMMA Monotone ==
    ASSUME TypeOK, NEW r \in Requests, Path(r), Acts(r)
    PROVE  /\ committed \subseteq committed'
           /\ \A e \in Events : published'[e] >= published[e]
<1> USE DEF workload, database, memory
<1>1. CASE Publish(r) \/ Straggle(r) \/ PublishRaises(r)
  <2>1. published \in [Events -> Nat]
    BY DEF TypeOK
  <2>2. \A e \in Events : published'[e] >= published[e]
    <3>1. PICK k \in 1..Len(collected[r]) :
            /\ \/ published' = published
               \/ published' = [published EXCEPT ![collected[r][k]] = @ + 1]
            /\ collected[r][k] \in Events
      BY <1>1, SendType
    <3> QED
      BY <2>1, <3>1
  <2> QED
    BY <1>1, <2>2 DEF Publish, Straggle, PublishRaises
<1>2. CASE ~(Publish(r) \/ Straggle(r) \/ PublishRaises(r))
  <2>1. published' = published
    BY <1>2, QueuesKept DEF Handle, Dispatch
  <2>2. \A e \in Events : published'[e] >= published[e]
    BY <2>1 DEF TypeOK
  <2>3. CASE Commit(r) \/ LoseCommit(r)
    BY <2>2, <2>3 DEF Commit, LoseCommit, Commits
  <2>4. CASE ~(Commit(r) \/ LoseCommit(r))
    BY <1>2, <2>2, <2>4 DEF Acts, Step, Begin, GetRemote, Backfill, Load, Fill, FillRemote,
       Handle, Merge, Insert, InsertTaken, Erase, Drop, DropRemote, Dispatch, Record,
       FlushConflict, Fail
  <2> QED
    BY <2>3, <2>4
<1> QED
  BY <1>1, <1>2

(* What belongs to another request stays.                                     *)
LEMMA OwnsElsewhere ==
    ASSUME OwnInv, NothingShared, NEW r \in Requests, Acts(r), NEW q \in Requests, q # r
    PROVE  Owns(q)'
<1>1. TypeOK /\ Path(r) /\ held[r] = r
  BY DEF OwnInv, OnceInv, TypeInv, Owns
<1>2. /\ pc'[q] = pc[q] /\ collected'[q] = collected[q] /\ held'[q] = held[q]
      /\ UNCHANGED workload
  BY <1>1, Elsewhere
<1>3. object'[q].events = object[q].events
  <2>1. CASE Handle(r)
    BY <1>1, <2>1, HandleEffect
  <2>2. CASE Dispatch(r)
    BY <1>1, <2>2, DispatchEffect
  <2>3. CASE GetRemote(r) \/ Load(r) \/ Insert(r)
    BY <1>1, <2>3 DEF GetRemote, Load, Insert, Builds, TypeOK
  <2>4. CASE ~(Handle(r) \/ Dispatch(r) \/ GetRemote(r) \/ Load(r) \/ Insert(r))
    BY <2>4 DEF Acts, Step, Begin, Backfill, Fill, FillRemote, Merge, InsertTaken, Erase,
       Drop, DropRemote, Record, FlushConflict, Fail, Commit, LoseCommit, Commits, Publish,
       Straggle, PublishRaises, memory
  <2> QED
    BY <2>1, <2>2, <2>3, <2>4
<1>4. /\ committed \subseteq committed'
      /\ \A n \in 1..EventCount[q] : published[<<q, n>>] > 0 => published'[<<q, n>>] > 0
  <2>1. published \in [Events -> Nat] /\ published' \in [Events -> Nat]
    BY <1>1, StepType DEF OwnInv, OnceInv, TypeInv, TypeOK, Next, Acts
  <2>2. \A n \in 1..EventCount[q] : <<q, n>> \in Events
    BY EventIs
  <2> QED
    BY <1>1, <2>1, <2>2, Monotone
<1>5. \A e, i : Waits(e, "collected", q, i)' <=> Waits(e, "collected", q, i)
  BY <1>2 DEF Waits, Queue
<1>6. /\ Early(q)' <=> Early(q)
      /\ q \in Eventful' <=> q \in Eventful
      /\ \A step : At(q, step)' <=> At(q, step)
  BY <1>2 DEF Early, At, workload, Eventful
<1>7. Owns(q)
  BY DEF OwnInv
<1>8. q \in Eventful' /\ pc'[q] \in {"publish", "done"} =>
         \A n \in 1..EventCount[q] :
           \/ published'[<<q, n>>] > 0
           \/ At(q, "publish")' /\ \E i : Waits(<<q, n>>, "collected", q, i)'
  BY <1>2, <1>4, <1>5, <1>6, <1>7 DEF Owns
<1>9. /\ held'[q] = q
      /\ Early(q)' => object'[q].events = <<>> /\ collected'[q] = <<>>
      /\ \A i \in 1..Len(collected'[q]) : collected'[q][i][1] = q
      /\ pc'[q] \in {"publish", "straggle"} => q \in committed'
  BY <1>2, <1>3, <1>4, <1>6, <1>7 DEF Owns
<1>10. /\ pc'[q] \in {"merge", "drop", "dropRemote", "dispatch"} =>
            /\ collected'[q] = <<>>
            /\ kind'[q] = "update" => object'[q].events = EventsOf(q)
       /\ pc'[q] \in {"record", "commit"} =>
            collected'[q] = IF q \in Eventful' THEN EventsOf(q) ELSE <<>>
  BY <1>2, <1>3, <1>6, <1>7 DEF Owns, workload
<1> QED
  BY <1>8, <1>9, <1>10 DEF Owns

(* Up to the dispatch: the queue of the request's dispatcher is empty.        *)
LEMMA OwnsBefore ==
    ASSUME OwnInv, NothingShared, NEW r \in Requests,
           \/ Begin(r) \/ GetRemote(r) \/ Backfill(r) \/ Load(r) \/ Fill(r) \/ FillRemote(r)
           \/ Handle(r) \/ Merge(r) \/ Insert(r) \/ InsertTaken(r) \/ Erase(r) \/ Drop(r)
           \/ DropRemote(r)
    PROVE  Owns(r)'
<1>1. TypeOK /\ Path(r) /\ Owns(r) /\ Acts(r)
  BY DEF OwnInv, OnceInv, TypeInv, Acts, Step
<1>2. Early(r) \/ pc[r] \in {"merge", "drop", "dropRemote"}
  BY DEF Early, Begin, GetRemote, Backfill, Load, Fill, FillRemote, Handle, Merge, Insert,
     InsertTaken, Erase, Drop, DropRemote, At
<1>3. collected' = collected /\ collected[r] = <<>> /\ UNCHANGED workload
  BY <1>1, <1>2 DEF Begin, GetRemote, Backfill, Load, Fill, FillRemote, Handle, Merge, Insert,
     InsertTaken, Erase, Drop, DropRemote, memory, workload, Owns
<1>4. held'[r] = r
  BY <1>1 DEF Begin, GetRemote, Backfill, Load, Fill, FillRemote, Handle, Merge, Insert,
     InsertTaken, Erase, Drop, DropRemote, memory, Builds, Owns, TypeOK, NothingShared
<1>5. /\ Early(r)' => object'[r].events = <<>>
      /\ pc'[r] \in {"merge", "drop", "dropRemote", "dispatch"} /\ kind[r] = "update"
           => object'[r].events = EventsOf(r)
  <2>1. CASE Handle(r)
    <3>1. object[r].events = <<>> /\ object'[r].events = object[r].events \o EventsOf(r)
      BY <1>1, <2>1, HandleEffect DEF Owns, Early, Handle, At
    <3>2. object'[r].events = EventsOf(r)
      <4>1. \A s \in Seq(Events) : <<>> \o s = s
        OBVIOUS
      <4> QED
        BY <3>1, <4>1, EventsAre
    <3> QED
      BY <1>1, <2>1, <3>2, EarlyStep
  <2>2. CASE GetRemote(r) \/ Load(r) \/ Insert(r)
    <3>1. object'[r] = object[r] \/ object'[r].events = <<>>
      BY <2>2, <1>1 DEF GetRemote, Load, Insert, Builds, TypeOK
    <3>2. object'[r].events = <<>>
      BY <1>1, <2>2, <3>1 DEF GetRemote, Load, Insert, Owns, Early, At
    <3>3. /\ pc'[r] \notin {"merge", "drop", "dropRemote"}
          /\ pc'[r] = "dispatch" => kind[r] # "update"
      BY <1>1, <2>2 DEF GetRemote, Load, Insert, Goto, WithEntity, TypeOK, Path, At
    <3> QED
      BY <3>2, <3>3
  <2>3. CASE Begin(r) \/ Backfill(r) \/ Fill(r) \/ FillRemote(r)
    <3>1. object' = object /\ object[r].events = <<>>
      BY <1>1, <2>3 DEF Begin, Backfill, Fill, FillRemote, Owns, Early, At, memory
    <3>2. /\ pc'[r] \notin {"merge", "drop", "dropRemote"}
          /\ pc'[r] = "dispatch" => kind[r] # "update"
      BY <1>1, <2>3 DEF Begin, Backfill, Fill, FillRemote, Goto, WithEntity, TypeOK, Path, At
    <3> QED
      BY <3>1, <3>2
  <2>4. CASE Merge(r) \/ Drop(r) \/ DropRemote(r)
    <3>1. object' = object /\ pc[r] \in {"merge", "drop", "dropRemote"}
      BY <2>4 DEF Merge, Drop, DropRemote, memory, At
    <3>2. ~Early(r)'
      BY <1>1, <2>4 DEF Merge, Drop, DropRemote, Goto, TypeOK, Path, At, Early, workload
    <3> QED
      BY <1>1, <3>1, <3>2 DEF Owns
  <2>5. CASE InsertTaken(r) \/ Erase(r)
    <3>1. ~Early(r)' /\ kind[r] # "update"
      BY <1>1, <2>5 DEF InsertTaken, Erase, Goto, TypeOK, Path, At, Early, workload
    <3> QED
      BY <3>1
  <2> QED
    BY <2>1, <2>2, <2>3, <2>4, <2>5
<1>6. /\ pc'[r] \notin {"record", "commit", "publish", "straggle"}
      /\ pc'[r] = "done" => kind[r] = "read"
  BY <1>1 DEF Begin, GetRemote, Backfill, Load, Fill, FillRemote, Handle, Merge, Insert,
     InsertTaken, Erase, Drop, DropRemote, Goto, WithEntity, TypeOK, At
<1> QED
  BY <1>3, <1>4, <1>5, <1>6 DEF Owns, Eventful, At, workload

LEMMA OwnsDispatch ==
    ASSUME OwnInv, NothingShared, NEW r \in Requests, Dispatch(r)
    PROVE  Owns(r)'
<1>1. TypeOK /\ Path(r) /\ Owns(r) /\ Acts(r) /\ At(r, "dispatch")
  BY DEF OwnInv, OnceInv, TypeInv, Acts, Step, Dispatch
<1>2. held' = held /\ held[r] = r /\ kind' = kind
  BY <1>1 DEF Dispatch, Owns, workload
<1>3. kind[r] \in {"update", "create", "remove"}
  BY DEF Dispatch
<1>4. collected[r] = <<>> /\ (kind[r] = "update" => object[r].events = EventsOf(r))
  BY <1>1 DEF Owns, At
<1>5. collected'[r] = IF r \in Eventful THEN EventsOf(r) ELSE <<>>
  BY <1>1, <1>2, <1>3, <1>4, DispatchEffect DEF TypeOK, Eventful
<1>6. pc'[r] \in {"record", "commit"}
  BY <1>1 DEF Dispatch, Goto, TypeOK
<1>7. \A i \in 1..Len(collected'[r]) : collected'[r][i][1] = r
  BY <1>5, EventsAre
<1>8. ~Early(r)'
  BY <1>6 DEF Early, At
<1> QED
  BY <1>2, <1>5, <1>6, <1>7, <1>8 DEF Owns, Eventful

LEMMA OwnsRecord ==
    ASSUME OwnInv, NothingShared, NEW r \in Requests,
           Record(r) \/ FlushConflict(r) \/ Fail(r) \/ Commit(r) \/ LoseCommit(r)
    PROVE  Owns(r)'
<1>1. TypeOK /\ Path(r) /\ Owns(r) /\ Acts(r)
  BY DEF OwnInv, OnceInv, TypeInv, Acts, Step
<1>2. held' = held /\ kind' = kind /\ object' = object /\ collected' = collected
  BY DEF Record, FlushConflict, Fail, Commit, LoseCommit, Commits, memory, workload
<1>3. CASE Record(r) \/ FlushConflict(r) \/ Fail(r) \/ LoseCommit(r)
  <2>1. pc'[r] \in {"commit", "failed"} /\ (At(r, "commit")' => At(r, "record"))
    BY <1>1, <1>3 DEF Record, FlushConflict, Fail, LoseCommit, Goto, TypeOK, At
  <2>2. ~Early(r)'
    BY <2>1 DEF Early, At
  <2> QED
    BY <1>1, <1>2, <2>1, <2>2 DEF Owns, Eventful, At
<1>4. CASE Commit(r)
  <2>1. /\ collected[r] = IF r \in Eventful THEN EventsOf(r) ELSE <<>>
        /\ r \in committed'
    BY <1>1, <1>4 DEF Commit, Commits, Owns, At
  <2>2. pc'[r] = IF collected[r] = <<>> THEN "done" ELSE "publish"
    BY <1>1, <1>4 DEF Commit, Goto, TypeOK
  <2>3. r \in Eventful => Len(collected[r]) = EventCount[r] /\ EventCount[r] # 0
    BY <2>1, EventsAre
  <2>4. r \in Eventful => pc'[r] = "publish"
    BY <2>2, <2>3
  <2>5. r \in Eventful => \A n \in 1..EventCount[r] : Waits(<<r, n>>, "collected", r, n)'
    BY <1>2, <2>1, <2>3, EventsAre DEF Waits, Queue, Sides
  <2>6. ~Early(r)'
    BY <2>2 DEF Early, At
  <2> QED
    BY <1>1, <1>2, <2>1, <2>2, <2>4, <2>5, <2>6 DEF Owns, Eventful, At
<1> QED
  BY <1>3, <1>4

LEMMA OwnsSend ==
    ASSUME OwnInv, NothingShared, NEW r \in Requests,
           Publish(r) \/ Straggle(r) \/ PublishRaises(r)
    PROVE  /\ Owns(r)'
           /\ \A e \in Events : published'[e] > 0 => published[e] > 0 \/ e[1] = r
           /\ r \in committed
<1>1. TypeOK /\ Path(r) /\ Owns(r) /\ Acts(r)
  BY DEF OwnInv, OnceInv, TypeInv, Acts, Step
<1>2. held' = held /\ kind' = kind /\ object' = object /\ committed' = committed
  BY DEF Publish, Straggle, PublishRaises, workload, database
<1>3. pc[r] \in {"publish", "straggle"} /\ r \in committed
  BY <1>1 DEF Publish, Straggle, PublishRaises, At, Owns
<1>4. PICK k \in 1..Len(collected[r]) :
        /\ SendQueue(r, k)
        /\ \/ published' = published /\ PublishRaises(r)
           \/ published' = [published EXCEPT ![collected[r][k]] = @ + 1]
        /\ collected[r][k] \in Events
  BY <1>1, SendType, SendQueueIs
<1>5. /\ published \in [Events -> Nat] /\ Len(collected[r]) \in Nat
  BY <1>1 DEF TypeOK
<1>6. \A e \in Events : published'[e] > 0 => published[e] > 0 \/ e[1] = r
  BY <1>1, <1>4, <1>5 DEF Owns
<1>7. \A i \in 1..Len(collected'[r]) : collected'[r][i][1] = r
  <2> SUFFICES ASSUME NEW i \in 1..Len(collected'[r]) PROVE collected'[r][i][1] = r
    OBVIOUS
  <2>1. i \in 1..Len(collected[r]) - 1
    BY <1>4 DEF SendQueue
  <2>2. i \in 1..Len(collected[r]) /\ i + 1 \in 1..Len(collected[r])
    BY <1>5, <2>1
  <2> QED
    BY <1>1, <1>4, <2>1, <2>2 DEF SendQueue, Owns
<1>8. /\ ~Early(r)'
      /\ pc'[r] \in {"publish", "straggle", "failed", "done"}
      /\ pc'[r] \in {"publish", "done"} => Publish(r) /\ At(r, "publish")
      /\ pc'[r] = "done" => Len(collected[r]) = 1
  BY <1>1 DEF Publish, Straggle, PublishRaises, Goto, TypeOK, Early, At
<1>9. ASSUME r \in Eventful, pc'[r] \in {"publish", "done"}, NEW n \in 1..EventCount[r]
      PROVE  \/ published'[<<r, n>>] > 0
             \/ At(r, "publish")' /\ \E i : Waits(<<r, n>>, "collected", r, i)'
  <2>1. At(r, "publish") /\ <<r, n>> \in Events
    BY <1>8, <1>9, EventIs
  <2>2. CASE published[<<r, n>>] > 0
    BY <1>1, <1>5, <2>1, <2>2, <1>4
  <2>3. ASSUME NEW i, Waits(<<r, n>>, "collected", r, i)
        PROVE  \/ published'[<<r, n>>] > 0
               \/ At(r, "publish")' /\ \E j : Waits(<<r, n>>, "collected", r, j)'
    <3>1. i \in 1..Len(collected[r]) /\ collected[r][i] = <<r, n>>
      BY <2>3 DEF Waits, Queue
    <3>2. CASE i = k
      <4>1. ~(published' = published /\ PublishRaises(r))
        BY <1>1, <1>9 DEF PublishRaises, Goto, TypeOK
      <4> QED
        BY <1>4, <1>5, <2>1, <3>1, <3>2, <4>1
    <3>3. CASE i < k
      <4>1. i \in 1..Len(collected[r]) - 1 /\ Len(collected[r]) # 1
        BY <1>4, <1>5, <3>1, <3>3
      <4>2. Waits(<<r, n>>, "collected", r, i)'
        BY <1>4, <3>1, <3>3, <4>1 DEF SendQueue, Waits, Queue, Sides
      <4> QED
        BY <1>8, <1>9, <4>1, <4>2 DEF At
    <3>4. CASE i > k
      <4>1. /\ i - 1 \in 1..Len(collected[r]) - 1 /\ Len(collected[r]) # 1
            /\ ~(i - 1 < k) /\ i - 1 + 1 = i
        BY <1>4, <1>5, <3>1, <3>4
      <4>2. PICK j : j = i - 1
        OBVIOUS
      <4>3. Waits(<<r, n>>, "collected", r, j)'
        BY <1>4, <3>1, <4>1, <4>2 DEF SendQueue, Waits, Queue, Sides
      <4> QED
        BY <1>8, <1>9, <4>1, <4>3 DEF At
    <3> QED
      BY <1>5, <3>1, <3>2, <3>3, <3>4
  <2> QED
    BY <1>1, <1>9, <2>1, <2>2, <2>3 DEF Owns, At
<1> QED
  BY <1>1, <1>2, <1>3, <1>6, <1>7, <1>8, <1>9 DEF Owns, Eventful, At

LEMMA OwnEvents ==
    ASSUME NEW r \in Requests
    PROVE  /\ ToSet(EventsOf(r)) = {<<r, n>> : n \in 1..EventCount[r]}
           /\ ToSet(EventsOf(r)) = {e \in Events : e[1] = r}
<1>1. EventsOf(r) \in Seq(Events) /\ Len(EventsOf(r)) = EventCount[r]
  BY EventsAre
<1>2. ToSet(EventsOf(r)) = {EventsOf(r)[n] : n \in 1..EventCount[r]}
  BY <1>1, ToSetIs
<1>3. \A n \in 1..EventCount[r] : EventsOf(r)[n] = <<r, n>>
  BY EventsAre
<1>4. ToSet(EventsOf(r)) = {<<r, n>> : n \in 1..EventCount[r]}
  BY <1>2, <1>3
<1>5. \A e \in Events : e[1] = r => e \in {<<r, n>> : n \in 1..EventCount[r]}
  BY EventIs
<1>6. \A n \in 1..EventCount[r] : <<r, n>> \in Events
  BY EventIs
<1> QED
  BY <1>4, <1>5, <1>6

LEMMA StoredStep ==
    ASSUME OwnInv, NothingShared, NEW r \in Requests, Acts(r)
    PROVE  StoredIsCommitted'
<1>1. TypeOK /\ Path(r) /\ Owns(r) /\ StoredIsCommitted
  BY DEF OwnInv, OnceInv, TypeInv
<1>2. Eventful' = Eventful
  BY <1>1, Elsewhere DEF Eventful, workload
<1>3. CASE Commit(r) \/ LoseCommit(r)
  <2>1. /\ stored' = stored \cup ToSet(collected[r])
        /\ committed' = committed \cup {r}
        /\ collected[r] = IF r \in Eventful THEN EventsOf(r) ELSE <<>>
    BY <1>1, <1>3 DEF Commit, LoseCommit, Commits, Owns, At
  <2>2. ToSet(collected[r]) = {e \in Events : e[1] = r /\ r \in Eventful}
    <3>1. CASE r \in Eventful
      BY <2>1, <3>1, OwnEvents
    <3>2. CASE r \notin Eventful
      BY <2>1, <3>2 DEF ToSet
    <3> QED
      BY <3>1, <3>2
  <2> QED
    BY <1>1, <1>2, <2>1, <2>2 DEF StoredIsCommitted
<1>4. CASE ~(Commit(r) \/ LoseCommit(r))
  <2>1. stored' = stored /\ committed' = committed
    BY <1>4 DEF Acts, Step, Begin, GetRemote, Backfill, Load, Fill, FillRemote, Handle, Merge,
       Insert, InsertTaken, Erase, Drop, DropRemote, Dispatch, Record, FlushConflict, Fail,
       Publish, Straggle, PublishRaises, database
  <2> QED
    BY <1>1, <1>2, <2>1 DEF StoredIsCommitted
<1> QED
  BY <1>3, <1>4

LEMMA StepOwn == OwnInv /\ [Next]_vars => OwnInv'
<1> SUFFICES ASSUME OwnInv, [Next]_vars PROVE OwnInv'
  OBVIOUS
<1>1. OnceInv'
  BY StepOnce DEF OwnInv
<1>2. ASSUME NEW r \in Requests, Acts(r) PROVE OwnInv'
  <2>1. TypeOK /\ Path(r)
    BY DEF OwnInv, OnceInv, TypeInv
  <2>2. NothingShared' = NothingShared
    BY <1>2, <2>1, Elsewhere DEF NothingShared, workload
  <2> SUFFICES ASSUME NothingShared
               PROVE  /\ \A q \in Requests : Owns(q)'
                      /\ StoredIsCommitted' /\ PublishedAreCommitted'
    BY <1>1, <2>2 DEF OwnInv
  <2>3. Owns(r)'
    BY <1>2, OwnsBefore, OwnsDispatch, OwnsRecord, OwnsSend DEF Acts, Step
  <2>4. PublishedAreCommitted'
    <3>1. CASE Publish(r) \/ Straggle(r) \/ PublishRaises(r)
      BY <1>2, <2>1, <3>1, OwnsSend, Monotone DEF OwnInv, PublishedAreCommitted
    <3>2. CASE ~(Publish(r) \/ Straggle(r) \/ PublishRaises(r))
      <4>1. published' = published
        BY <1>2, <2>1, <3>2, QueuesKept DEF Handle, Dispatch
      <4> QED
        BY <1>2, <2>1, <4>1, Monotone DEF OwnInv, PublishedAreCommitted
    <3> QED
      BY <3>1, <3>2
  <2> QED
    BY <1>2, <2>3, <2>4, OwnsElsewhere, StoredStep
<1>3. ASSUME \/ \E p \in Processes : Crash(p) \/ ExpireLocal(p)
             \/ ExpireRemote \/ UNCHANGED vars
      PROVE  OwnInv'
  <2>1. /\ UNCHANGED <<workload, held, object, model, base, collected, published,
                       row, stored, committed, quiet>>
        /\ \A r \in Requests : pc'[r] = pc[r] \/ pc'[r] = "failed"
    BY <1>3, OthersKeep DEF OwnInv, OnceInv, TypeInv
  <2>2. NothingShared' = NothingShared /\ Eventful' = Eventful
    BY <2>1 DEF NothingShared, Eventful, workload
  <2>3. \A e, i, r : Waits(e, "collected", r, i)' <=> Waits(e, "collected", r, i)
    BY <2>1 DEF Waits, Queue
  <2>4. ASSUME NEW r \in Requests, Owns(r) PROVE Owns(r)'
    <3>1. CASE pc'[r] = pc[r]
      <4>1. /\ Early(r)' <=> Early(r)
            /\ \A step : At(r, step)' <=> At(r, step)
        BY <2>1, <3>1 DEF Early, At, workload
      <4> QED
        BY <2>1, <2>2, <2>3, <2>4, <3>1, <4>1 DEF Owns, workload
    <3>2. CASE pc'[r] = "failed"
      BY <2>1, <2>4, <3>2 DEF Owns, Early, At, workload
    <3> QED
      BY <2>1, <3>1, <3>2
  <2>5. /\ StoredIsCommitted => StoredIsCommitted'
        /\ PublishedAreCommitted => PublishedAreCommitted'
    BY <2>1, <2>2 DEF StoredIsCommitted, PublishedAreCommitted
  <2> QED
    BY <1>1, <2>2, <2>4, <2>5 DEF OwnInv
<1> QED
  BY <1>2, <1>3 DEF Next, Acts

LEMMA OwnAlways == Spec => []OwnInv
BY InitOwn, StepOwn, PTL DEF Spec

(* Without a shared object the broker hears only of committed changes         *)
(* (BrokerHearsOnlyCommitted).                                                *)
THEOREM BrokerAfterCommit == Spec => []BrokerHearsOnlyCommitted
<1>1. OwnInv => BrokerHearsOnlyCommitted
  BY DEF OwnInv, BrokerHearsOnlyCommitted
<1> QED
  BY <1>1, OwnAlways, PTL

(* The event store and the row are one transaction (StoredWithChange).        *)
THEOREM StoreFollowsRow == Spec => []StoredWithChange
<1>1. OwnInv => StoredWithChange
  BY DEF OwnInv, StoredIsCommitted, StoredWithChange
<1> QED
  BY <1>1, OwnAlways, PTL

(* A request answers without an error only when the broker has all its events *)
(* (DoneIsPublished).                                                         *)
THEOREM AnswerAfterPublish == Spec => []DoneIsPublished
<1>1. OwnInv => DoneIsPublished
  <2> SUFFICES ASSUME OwnInv, NothingShared, NEW r \in Eventful, At(r, "done"),
                      NEW e \in ToSet(EventsOf(r))
               PROVE  published[e] = 1
    BY DEF DoneIsPublished
  <2>1. r \in Requests /\ published \in [Events -> Nat]
    BY DEF Eventful, OwnInv, OnceInv, TypeInv, TypeOK
  <2>2. PICK n \in 1..EventCount[r] : e = <<r, n>>
    BY <2>1, EventIs, OwnEvents
  <2>3. published[e] > 0
    BY <2>1, <2>2 DEF OwnInv, Owns, At
  <2>4. e \in Events
    BY <2>1, <2>2, EventIs
  <2>5. published[e] <= 1
    BY <2>4 DEF OwnInv, OnceInv, Once
  <2> QED
    BY <2>1, <2>3, <2>4, <2>5
<1> QED
  BY <1>1, OwnAlways, PTL

------------------------------------------------------------------------------
(* Values and transactions, where nothing uncommitted is cached *)

Kept(value, q) == value \subseteq committed \cup {q}
Clean(value) == value \subseteq committed

(* A row, a copy in a cache and the row a merge read hold committed changes   *)
(* only; an object, a model and the row of an open transaction hold those and *)
(* the change of their own request.                                           *)
Values ==
    /\ \A value \in row : Clean(value)
    /\ \A value \in remote : Clean(value)
    /\ \A q \in Requests : \A value \in base[q] : Clean(value)
    /\ \A q \in Requests : Kept(object[q].changes, q) /\ Kept(model[q], q)
    /\ \A q \in Requests : At(q, "fill") /\ kind[q] # "create" => Clean(object[q].changes)
    /\ \A q \in Requests : At(q, "fillRemote") => "redis" \in levels /\ Clean(model[q])
    /\ lock = {} \/ \E q \in Requests : lock = {q}
    /\ \A q \in lock : \A value \in pending : Kept(value, q)

ValueInv == OwnInv /\ (NothingUncommittedCached => Values)

LEMMA InitValues == Init => ValueInv
<1> SUFFICES ASSUME Init PROVE Values
  BY InitOwn DEF ValueInv
<1>1. \A q \in Requests : ~At(q, "fill") /\ ~At(q, "fillRemote")
  BY DEF Init, At
<1> QED
  BY <1>1 DEF Init, Values, Kept, Clean

(* What request r's transaction leaves in the row.                            *)
LEMMA WrittenKept ==
    ASSUME Values, NEW r \in Requests
    PROVE  \A value \in Written(r) : Kept(value, r)
<1>1. \A value \in row : Kept(value, r)
  BY DEF Values, Clean, Kept
<1>2. CASE lock = {r}
  BY <1>2 DEF Written, Values
<1>3. CASE lock # {r} /\ ~Writes(r)
  BY <1>1, <1>3 DEF Written
<1>4. CASE lock # {r} /\ Writes(r) /\ row = {}
  BY <1>4 DEF Written, Values
<1>5. CASE lock # {r} /\ Writes(r) /\ row # {}
  <2>1. Kept(The(row), r) /\ Kept(model[r], r)
    BY <1>1, <1>5, TheIs DEF Values
  <2> QED
    BY <1>5, <2>1 DEF Written, Kept
<1> QED
  BY <1>2, <1>3, <1>4, <1>5

LEMMA ValuesRead ==
    ASSUME ValueInv, NothingUncommittedCached, NEW r \in Requests,
           \/ Begin(r) \/ GetRemote(r) \/ Backfill(r) \/ Load(r) \/ Fill(r) \/ FillRemote(r)
    PROVE  Values'
<1>1. TypeOK /\ Path(r) /\ Values /\ Owns(r)
  BY DEF ValueInv, OwnInv, OnceInv, TypeInv, NothingUncommittedCached
<1> USE DEF Goto, At, Clean, Kept, workload, cache, database, memory
<1>2. CASE Begin(r)
  <2>1. pc'[r] \notin {"fill", "fillRemote"}
    BY <1>1, <1>2 DEF Begin, TypeOK, WithEntity
  <2>2. UNCHANGED <<kind, levels, row, remote, base, object, model, lock, pending, committed>>
    BY <1>2 DEF Begin
  <2>3. \A q \in Requests \ {r} : pc'[q] = pc[q]
    BY <1>1, <1>2, Elsewhere DEF Acts, Step
  <2> QED
    BY <1>1, <2>1, <2>2, <2>3 DEF Values
<1>3. CASE GetRemote(r) \/ Load(r)
  <2>1. UNCHANGED <<kind, levels, row, remote, base, model, lock, pending, committed>>
    BY <1>3 DEF GetRemote, Load
  <2>2. \A q \in Requests \ {r} : pc'[q] = pc[q] /\ object'[q] = object[q]
    BY <1>1, <1>3 DEF GetRemote, Load, Builds, TypeOK
  <2>3. \/ object'[r] = object[r] /\ pc'[r] # "fill"
        \/ Clean(object'[r].changes)
    <3>1. /\ row # {} => Clean(The(row))
          /\ remote # {} => Clean(The(remote))
      BY <1>1, TheIs DEF Values
    <3>2. object \in [Requests -> Entity] /\ pc \in [Requests -> Steps \cup Ends \cup {"idle"}]
      BY <1>1 DEF TypeOK
    <3>3. CASE GetRemote(r)
      BY <1>1, <3>1, <3>2, <3>3 DEF GetRemote, Builds
    <3>4. CASE Load(r)
      BY <1>1, <3>1, <3>2, <3>4 DEF Load, Builds
    <3> QED
      BY <1>3, <3>3, <3>4
  <2>4. pc'[r] # "fillRemote"
    BY <1>1, <1>3 DEF GetRemote, Load, TypeOK, WithEntity
  <2> QED
    BY <1>1, <2>1, <2>2, <2>3, <2>4 DEF Values
<1>4. CASE Backfill(r)
  <2>1. pc'[r] \notin {"fill", "fillRemote"}
    BY <1>1, <1>4 DEF Backfill, TypeOK, WithEntity
  <2> QED
    BY <1>1, <1>4, <2>1 DEF Backfill, Values, TypeOK
<1>5. CASE Fill(r)
  <2>1. UNCHANGED <<kind, levels, row, remote, base, object, lock, pending, committed>>
    BY <1>5 DEF Fill
  <2>2. \A q \in Requests \ {r} : pc'[q] = pc[q] /\ model'[q] = model[q]
    BY <1>1, <1>5 DEF Fill, TypeOK
  <2>3. model'[r] = object[r].changes /\ Kept(model'[r], r)
    BY <1>1, <1>5 DEF Fill, TypeOK, Values
  <2>4. pc'[r] # "fill"
    BY <1>1, <1>5 DEF Fill, TypeOK, WithEntity
  <2>5. pc'[r] = "fillRemote" => "redis" \in levels
    BY <1>1, <1>5 DEF Fill, TypeOK, WithEntity
  <2>6. "redis" \in levels => Clean(model'[r])
    BY <1>1, <1>5, <2>3 DEF Fill, Values, NothingUncommittedCached
  <2> QED
    BY <1>1, <2>1, <2>2, <2>3, <2>4, <2>5, <2>6 DEF Values
<1>6. CASE FillRemote(r)
  <2>1. pc'[r] \notin {"fill", "fillRemote"}
    BY <1>1, <1>6 DEF FillRemote, TypeOK, WithEntity
  <2>2. \A value \in remote' : Clean(value)
    BY <1>1, <1>6 DEF FillRemote, Values
  <2> QED
    BY <1>1, <1>6, <2>1, <2>2 DEF FillRemote, Values, TypeOK
<1> QED
  BY <1>2, <1>3, <1>4, <1>5, <1>6

LEMMA ValuesWrite ==
    ASSUME ValueInv, NothingUncommittedCached, NEW r \in Requests,
           \/ Handle(r) \/ Merge(r) \/ Insert(r) \/ InsertTaken(r) \/ Erase(r) \/ Drop(r)
           \/ DropRemote(r) \/ Dispatch(r)
    PROVE  Values'
<1>1. TypeOK /\ Path(r) /\ Values /\ Owns(r)
  BY DEF ValueInv, OwnInv, OnceInv, TypeInv, NothingUncommittedCached
<1>2. \A q \in Requests : /\ pc'[q] = "fill" => pc[q] = "fill" \/ (q = r /\ kind[q] = "create")
                          /\ pc'[q] = "fillRemote" => pc[q] = "fillRemote"
  BY <1>1 DEF Handle, Merge, Insert, InsertTaken, Erase, Drop, DropRemote, Dispatch, Goto, TypeOK,
     Path, At
<1>3. UNCHANGED <<kind, levels, row, committed>>
  BY DEF Handle, Merge, Insert, InsertTaken, Erase, Drop, DropRemote, Dispatch, workload, database
<1> USE DEF At, Clean, Kept, cache, database, memory
<1>4. CASE Handle(r)
  <2>1. UNCHANGED <<remote, base, lock, pending>>
    BY <1>4 DEF Handle
  <2>2. \A q \in Requests : object'[q].changes = IF q = r THEN object[q].changes \cup {r}
                                                 ELSE object[q].changes
    <3>1. held[r] = r
      BY <1>1 DEF Owns
    <3> HIDE DEF Kept, Clean, cache, database, memory, At
    <3> QED
      BY <1>1, <1>4, <3>1, HandleEffect
  <2>3. \A q \in Requests : model'[q] = IF q = r THEN object[q].changes \cup {r} ELSE model[q]
    BY <1>1, <1>4 DEF Handle, TypeOK, Owns
  <2>4. pc'[r] = "merge"
    BY <1>1, <1>4 DEF Handle, TypeOK, Goto
  <2>5. \A q \in Requests : q # r => pc'[q] = pc[q]
    BY <1>1, <1>4 DEF Handle, TypeOK, Goto
  <2>6. \A q \in Requests : Kept(object'[q].changes, q) /\ Kept(model'[q], q)
    <3>1. Kept(object[r].changes \cup {r}, r)
      BY <1>1 DEF Values
    <3>2. \A q \in Requests \ {r} : Kept(object[q].changes, q) /\ Kept(model[q], q)
      BY <1>1 DEF Values
    <3> HIDE DEF Kept
    <3> QED
      BY <2>2, <2>3, <3>1, <3>2
  <2>7. \A q \in Requests : /\ pc'[q] = "fill" /\ kind[q] # "create" => Clean(object'[q].changes)
                            /\ pc'[q] = "fillRemote" => "redis" \in levels /\ Clean(model'[q])
    BY <1>1, <2>2, <2>3, <2>4, <2>5 DEF Values
  <2> QED
    BY <1>1, <1>3, <2>1, <2>6, <2>7 DEF Values
<1>5. CASE Merge(r)
  <2>1. \A q \in Requests : base'[q] = IF q = r THEN row ELSE base[q]
    BY <1>1, <1>5 DEF Merge, TypeOK
  <2> QED
    BY <1>1, <1>2, <1>3, <1>5, <2>1 DEF Merge, Values
<1>6. CASE Insert(r)
  <2>1. /\ \A q \in Requests \ {r} : object'[q] = object[q] /\ pc'[q] = pc[q]
        /\ object'[r].changes = {r} /\ pc'[r] # "fillRemote"
    BY <1>1, <1>6 DEF Insert, Builds, TypeOK, Goto
  <2>2. lock' = {r} /\ pending' = {{r}} /\ kind[r] = "create"
    BY <1>1, <1>6 DEF Insert, Path
  <2>3. UNCHANGED <<remote, base, model>>
    BY <1>6 DEF Insert
  <2> QED
    BY <1>1, <1>3, <2>1, <2>2, <2>3 DEF Values
<1>7. CASE InsertTaken(r)
  BY <1>1, <1>2, <1>3, <1>7 DEF InsertTaken, Values, Path
<1>8. CASE Erase(r)
  <2>1. pending' = {} /\ (lock' = {} \/ lock' = {r})
    BY <1>8 DEF Erase
  <2> QED
    BY <1>1, <1>2, <1>3, <1>8, <2>1 DEF Erase, Values, Path
<1>9. CASE Drop(r)
  BY <1>1, <1>2, <1>3, <1>9 DEF Drop, Values, Path
<1>10. CASE DropRemote(r)
  BY <1>1, <1>2, <1>3, <1>10 DEF DropRemote, Values, Path
<1>11. CASE Dispatch(r)
  <2>1. \A q \in Requests : object'[q].changes = object[q].changes
    BY <1>1, <1>11, DispatchEffect
  <2>2. UNCHANGED <<remote, base, model, lock, pending>>
    BY <1>11 DEF Dispatch
  <2>3. \A q \in Requests : pc'[q] = "fill" => pc[q] = "fill"
    BY <1>1, <1>11 DEF Dispatch, Goto, TypeOK
  <2> QED
    BY <1>1, <1>2, <1>3, <2>1, <2>2, <2>3 DEF Values
<1> QED
  BY <1>4, <1>5, <1>6, <1>7, <1>8, <1>9, <1>10, <1>11

LEMMA ValuesEnd ==
    ASSUME ValueInv, NothingUncommittedCached, NEW r \in Requests,
           \/ Record(r) \/ FlushConflict(r) \/ Commit(r) \/ LoseCommit(r) \/ Fail(r)
           \/ Publish(r) \/ Straggle(r) \/ PublishRaises(r)
    PROVE  Values'
<1>1. TypeOK /\ Path(r) /\ Values /\ Owns(r)
  BY DEF ValueInv, OwnInv, OnceInv, TypeInv, NothingUncommittedCached
<1>2. \A q \in Requests : /\ pc'[q] = "fill" => pc[q] = "fill"
                          /\ pc'[q] = "fillRemote" => pc[q] = "fillRemote"
  BY <1>1 DEF Record, FlushConflict, Commit, LoseCommit, Commits, Fail, Publish, Straggle,
     PublishRaises, Goto, TypeOK
<1>3. UNCHANGED <<kind, levels, object, model, base, remote>>
  BY DEF Record, FlushConflict, Commit, LoseCommit, Commits, Fail, Publish, Straggle,
     PublishRaises, workload, cache, memory
<1>4. CASE Record(r)
  <2>1. row' = row /\ committed' = committed
    BY <1>4 DEF Record
  <2>2. CASE Writes(r)
    <3>1. lock' = {r} /\ pending' = Written(r)
      BY <1>4, <2>2 DEF Record
    <3> QED
      BY <1>1, <1>2, <1>3, <2>1, <3>1, WrittenKept DEF Values, Kept, Clean, At
  <2>3. CASE ~Writes(r)
    BY <1>1, <1>2, <1>3, <1>4, <2>1, <2>3 DEF Record, Values, Kept, Clean, At
  <2> QED
    BY <2>2, <2>3
<1>5. ASSUME RolledBack(r)
      PROVE  /\ lock' = {} \/ \E q \in Requests : lock' = {q}
             /\ \A q \in lock' : \A value \in pending' : Kept(value, q)
  BY <1>1, <1>5 DEF RolledBack, Values
<1>6. CASE Commit(r) \/ LoseCommit(r)
  <2>1. row' = Written(r) /\ committed' = committed \cup {r} /\ RolledBack(r)
    BY <1>6 DEF Commit, LoseCommit, Commits
  <2>2. \A value \in row' : value \subseteq committed'
    BY <1>1, <2>1, WrittenKept DEF Kept
  <2>3. \A q \in lock' : \A value \in pending' : value \subseteq committed' \cup {q}
    BY <1>5, <2>1 DEF Kept
  <2>4. lock' = {} \/ \E q \in Requests : lock' = {q}
    BY <1>5, <2>1
  <2> QED
    BY <1>1, <1>2, <1>3, <2>1, <2>2, <2>3, <2>4 DEF Values, Kept, Clean, At
<1>7. CASE Fail(r)
  <2>1. row' = row /\ committed' = committed /\ RolledBack(r)
    BY <1>7 DEF Fail
  <2> QED
    BY <1>1, <1>2, <1>3, <1>5, <2>1 DEF Values, Kept, Clean, At
<1>8. CASE FlushConflict(r) \/ Publish(r) \/ Straggle(r) \/ PublishRaises(r)
  <2>1. UNCHANGED <<row, lock, pending, committed>>
    BY <1>8 DEF FlushConflict, Publish, Straggle, PublishRaises, database
  <2> QED
    BY <1>1, <1>2, <1>3, <2>1 DEF Values, Kept, Clean, At
<1> QED
  BY <1>4, <1>6, <1>7, <1>8

LEMMA ValuesOther ==
    ASSUME ValueInv, Values,
           \/ \E p \in Processes : Crash(p) \/ ExpireLocal(p)
           \/ ExpireRemote \/ UNCHANGED vars
    PROVE  Values'
<1>1. /\ UNCHANGED <<workload, held, object, model, base, row, committed>>
      /\ \A r \in Requests : pc'[r] = pc[r] \/ pc'[r] = "failed"
  BY OthersKeep DEF ValueInv, OwnInv, OnceInv, TypeInv
<1>2. remote' = remote \/ remote' = {}
  BY DEF Crash, ExpireLocal, ExpireRemote, vars
<1>3. (lock' = lock /\ pending' = pending) \/ lock' = {}
  BY DEF Crash, ExpireLocal, ExpireRemote, vars, database
<1> QED
  BY <1>1, <1>2, <1>3 DEF Values, Kept, Clean, At, workload

LEMMA StepValues == ValueInv /\ [Next]_vars => ValueInv'
<1> SUFFICES ASSUME ValueInv, [Next]_vars PROVE ValueInv'
  OBVIOUS
<1>1. OwnInv'
  BY StepOwn DEF ValueInv
<1>2. ASSUME NEW r \in Requests, Acts(r) PROVE ValueInv'
  <2>1. TypeOK /\ Path(r)
    BY DEF ValueInv, OwnInv, OnceInv, TypeInv
  <2>2. NothingUncommittedCached' => NothingUncommittedCached
    BY <1>2, <2>1, Elsewhere DEF NothingUncommittedCached, NothingShared, workload
  <2> QED
    BY <1>1, <1>2, <2>2, ValuesRead, ValuesWrite, ValuesEnd DEF ValueInv, Acts, Step
<1>3. ASSUME \/ \E p \in Processes : Crash(p) \/ ExpireLocal(p)
             \/ ExpireRemote \/ UNCHANGED vars
      PROVE  ValueInv'
  <2>1. UNCHANGED workload
    BY <1>3, OthersKeep DEF ValueInv, OwnInv, OnceInv, TypeInv
  <2>2. NothingUncommittedCached' => NothingUncommittedCached
    BY <2>1 DEF NothingUncommittedCached, NothingShared, workload
  <2> QED
    BY <1>1, <1>3, <2>2, ValuesOther DEF ValueInv
<1> QED
  BY <1>2, <1>3 DEF Next, Acts

(* Where nothing uncommitted is cached, a change that was rolled back never   *)
(* reaches the row (RolledBackLeavesNothing).                                 *)
THEOREM RowIsCommitted == Spec => []RolledBackLeavesNothing
<1>1. ValueInv => RolledBackLeavesNothing
  BY DEF ValueInv, Values, Clean, RolledBackLeavesNothing
<1> QED
  BY <1>1, InitValues, StepValues, PTL DEF Spec

------------------------------------------------------------------------------
(* An update that read the current row, without a cache *)

AtMostOne(option) == \A u, v \in option : u = v

(* Without a cache a request loads the row, and only a commit takes an update *)
(* out of its lock.                                                           *)
Uncached(r) ==
    /\ pc[r] \notin {"get", "backfill", "fill", "fillRemote", "drop", "dropRemote"}
    /\ kind[r] = "update" /\ r \in lock => At(r, "commit")

(* The row is the one the update loaded, until its merge; the one it merged   *)
(* with then differs from its model in its own change.                        *)
Undisturbed(r) ==
    kind[r] = "update" /\ quiet[r] =>
        /\ At(r, "handle") => row = {object[r].changes}
        /\ At(r, "merge") => \E value \in row : row = {value} /\ model[r] = value \cup {r}
        /\ pc[r] \in {"dispatch", "record", "commit"} =>
             \E value \in base[r] : base[r] = {value} /\ model[r] = value \cup {r}
        /\ r \in lock => row # {} /\ pending = {value \cup {r} : value \in row}

(* A request that is on its way to its commit has not committed.              *)
Unsettled(r) == r \in committed => pc[r] \in {"publish", "straggle", "done", "failed"}

QuietInv ==
    /\ ValueInv
    /\ levels = {} => /\ AtMostOne(row) /\ AtMostOne(pending)
                      /\ lock = {} \/ \E q \in Requests : lock = {q}
                      /\ \A r \in Requests : Uncached(r) /\ Unsettled(r) /\ Undisturbed(r)

LEMMA QuietValues == QuietInv => OwnInv /\ (levels = {} => Values)
BY DEF QuietInv, ValueInv, NothingUncommittedCached, NothingShared

LEMMA InitQuiet == Init => QuietInv
<1> SUFFICES ASSUME Init
             PROVE  /\ AtMostOne(row) /\ AtMostOne(pending) /\ lock = {}
                    /\ \A r \in Requests : Uncached(r) /\ Unsettled(r) /\ Undisturbed(r)
  BY InitValues DEF QuietInv
<1> QED
  BY DEF Init, AtMostOne, Uncached, Unsettled, Undisturbed, At

LEMMA TheOnly ==
    \A option : AtMostOne(option) /\ option # {} => option = {The(option)}
BY TheIs DEF AtMostOne

(* What the transaction of an undisturbed update leaves.                      *)
LEMMA QuietWritten ==
    ASSUME QuietInv, levels = {}, NEW r \in Requests, kind[r] = "update", quiet[r],
           pc[r] \in {"record", "commit"}, CanFlush(r)
    PROVE  row # {} /\ Written(r) = {value \cup {r} : value \in row}
<1>1. CASE lock = {r}
  BY <1>1 DEF Written, QuietInv, Undisturbed
<1>2. CASE lock # {r}
  <2>1. PICK old \in base[r] : base[r] = {old} /\ model[r] = old \cup {r}
    BY DEF QuietInv, Undisturbed
  <2>2. r \notin old
    BY <2>1, QuietValues DEF QuietInv, Unsettled, Values, Clean
  <2>3. Writes(r) /\ The(base[r]) = old
    <3>1. base[r] # {model[r]}
      BY <2>1, <2>2
    <3> QED
      BY <2>1, <3>1, TheIs DEF Writes
  <2>4. PICK value \in row : row = {value} /\ The(row) = value
    <3>1. row # {}
      BY <1>2, <2>1, <2>3 DEF CanFlush, Consistent
    <3> QED
      BY <3>1, TheOnly, TheIs DEF QuietInv
  <2>5. (value \ (old \ model[r])) \cup (model[r] \ old) = value \cup {r}
    BY <2>1, <2>2
  <2>6. Written(r) = {value \cup {r}}
    BY <1>2, <2>3, <2>4, <2>5 DEF Written
  <2> QED
    BY <2>4, <2>6
<1> QED
  BY <1>1, <1>2

LEMMA WrittenOne ==
    ASSUME AtMostOne(row), AtMostOne(pending), NEW r PROVE AtMostOne(Written(r))
BY DEF AtMostOne, Written

(* The row and the open transaction at a step of request r.                   *)
LEMMA QuietDatabase ==
    ASSUME QuietInv, levels = {}, NEW r \in Requests, Acts(r)
    PROVE  /\ AtMostOne(row)' /\ AtMostOne(pending)'
           /\ lock' = {} \/ \E q \in Requests : lock' = {q}
           /\ \A q \in Requests \ {r} :
                /\ quiet'[q] => quiet[q] /\ (pc[q] \in Outdates => row' = row)
                /\ q \in lock' => q \in lock /\ row' = row /\ pending' = pending
                /\ q \in committed' => q \in committed
<1>1. TypeOK /\ Path(r)
  BY QuietValues DEF OwnInv, OnceInv, TypeInv
<1>2. AtMostOne(row) /\ AtMostOne(pending) /\ (lock = {} \/ \E q \in Requests : lock = {q})
  BY DEF QuietInv
<1>3. CASE Record(r)
  <2>1. row' = row /\ quiet' = quiet /\ committed' = committed
    BY <1>3 DEF Record
  <2>2. CASE Writes(r)
    <3>1. lock' = {r} /\ pending' = Written(r)
      BY <1>3, <2>2 DEF Record
    <3> QED
      BY <1>2, <2>1, <3>1, WrittenOne DEF AtMostOne
  <2>3. CASE ~Writes(r)
    BY <1>2, <1>3, <2>1, <2>3 DEF Record, AtMostOne
  <2> QED
    BY <2>2, <2>3
<1>4. CASE Commit(r) \/ LoseCommit(r)
  <2>1. /\ row' = Written(r) /\ RolledBack(r) /\ CanFlush(r)
        /\ quiet' = [q \in Requests |-> quiet[q] /\ (q = r \/ pc[q] \notin Outdates)]
        /\ committed' = committed \cup {r}
    BY <1>4 DEF Commit, LoseCommit, Commits
  <2>2. AtMostOne(row)' /\ AtMostOne(pending)' /\ (lock' = {} \/ \E q \in Requests : lock' = {q})
    BY <1>2, <2>1, WrittenOne DEF RolledBack, AtMostOne
  <2>3. ASSUME NEW q \in Requests \ {r}, q \in lock'
        PROVE  q \in lock /\ row' = row /\ pending' = pending
    <3>1. lock = {q} /\ lock # {r}
      BY <1>2, <2>1, <2>3 DEF RolledBack
    <3>2. ~Writes(r)
      BY <2>1, <3>1 DEF CanFlush
    <3> QED
      BY <2>1, <3>1, <3>2 DEF RolledBack, Written
  <2> QED
    BY <2>1, <2>2, <2>3
<1>5. CASE Fail(r)
  BY <1>2, <1>5 DEF Fail, RolledBack, AtMostOne
<1>6. CASE Begin(r)
  BY <1>1, <1>2, <1>6 DEF Begin, AtMostOne, TypeOK
<1>7. CASE Insert(r) \/ Erase(r)
  BY <1>2, <1>7 DEF Insert, Erase, AtMostOne
<1>8. CASE ~(\/ Record(r) \/ Commit(r) \/ LoseCommit(r) \/ Fail(r) \/ Begin(r) \/ Insert(r)
             \/ Erase(r))
  <2>1. UNCHANGED <<row, lock, pending, quiet, committed>>
    BY <1>8 DEF Acts, Step, GetRemote, Backfill, Load, Fill, FillRemote, Handle, Merge,
       InsertTaken, Drop, DropRemote, Dispatch, FlushConflict, Publish, Straggle,
       PublishRaises, database
  <2> QED
    BY <1>2, <2>1 DEF AtMostOne
<1> QED
  BY <1>3, <1>4, <1>5, <1>6, <1>7, <1>8

LEMMA QuietElsewhere ==
    ASSUME QuietInv, levels = {}, NEW r \in Requests, Acts(r),
           NEW q \in Requests, q # r
    PROVE  Uncached(q)' /\ Unsettled(q)' /\ Undisturbed(q)'
<1>1. TypeOK /\ Path(r) /\ held[r] = r
  BY QuietValues DEF OwnInv, OnceInv, TypeInv, Owns, NothingShared
<1>2. /\ pc'[q] = pc[q] /\ model'[q] = model[q] /\ base'[q] = base[q]
      /\ UNCHANGED workload
  BY <1>1, Elsewhere
<1>3. object'[q].changes = object[q].changes
  <2>1. CASE Handle(r)
    BY <1>1, <2>1, HandleEffect
  <2>2. CASE Dispatch(r)
    BY <1>1, <2>2, DispatchEffect
  <2>3. CASE GetRemote(r) \/ Load(r) \/ Insert(r)
    BY <1>1, <2>3 DEF GetRemote, Load, Insert, Builds, TypeOK
  <2>4. CASE ~(Handle(r) \/ Dispatch(r) \/ GetRemote(r) \/ Load(r) \/ Insert(r))
    BY <2>4 DEF Acts, Step, Begin, Backfill, Fill, FillRemote, Merge, InsertTaken, Erase,
       Drop, DropRemote, Record, FlushConflict, Fail, Commit, LoseCommit, Commits, Publish,
       Straggle, PublishRaises, memory
  <2> QED
    BY <2>1, <2>2, <2>3, <2>4
<1>4. /\ quiet'[q] => quiet[q] /\ (pc[q] \in {"handle", "merge"} => row' = row)
      /\ q \in lock' => q \in lock /\ row' = row /\ pending' = pending
      /\ q \in committed' => q \in committed
  BY QuietDatabase DEF Outdates
<1>5. Uncached(q) /\ Unsettled(q) /\ Undisturbed(q)
  BY DEF QuietInv
<1>6. Uncached(q)' /\ Unsettled(q)'
  BY <1>2, <1>4, <1>5 DEF Uncached, Unsettled, At, workload
<1>7. Undisturbed(q)'
  BY <1>2, <1>3, <1>4, <1>5 DEF Undisturbed, At, workload
<1> QED
  BY <1>6, <1>7

LEMMA QuietOwn ==
    ASSUME QuietInv, levels = {}, NEW r \in Requests, Acts(r)
    PROVE  Uncached(r)' /\ Undisturbed(r)'
<1>1. /\ TypeOK /\ Path(r) /\ held[r] = r /\ Uncached(r) /\ Undisturbed(r)
      /\ AtMostOne(row)
  BY QuietValues DEF QuietInv, OwnInv, OnceInv, TypeInv, Owns, NothingShared
<1>2. UNCHANGED workload
  BY <1>1, Elsewhere
<1> USE DEF Goto, At
<1>3. CASE Begin(r)
  <2>1. /\ pc'[r] \in {"insert", "erase", "load"}
        /\ r \notin lock' \/ kind[r] # "update"
    BY <1>1, <1>3 DEF Begin, TypeOK, Uncached
  <2> QED
    BY <1>2, <2>1 DEF Uncached, Undisturbed, workload
<1>4. CASE Load(r)
  <2>1. UNCHANGED <<row, lock, pending, quiet>>
    BY <1>4 DEF Load, database
  <2>2. /\ pc'[r] \in {"absent", "done", "dispatch", "handle"}
        /\ kind[r] = "update" => pc'[r] \in {"absent", "handle"}
    BY <1>1, <1>4 DEF Load, WithEntity, TypeOK
  <2>3. pc'[r] = "handle" => row = {object'[r].changes}
    <3>1. row # {} => row = {The(row)}
      BY <1>1, TheOnly
    <3>2. row # {} => object'[r].changes = The(row)
      BY <1>1, <1>4 DEF Load, Builds, TypeOK
    <3>3. row = {} => pc'[r] = "absent"
      BY <1>1, <1>4 DEF Load, TypeOK
    <3> QED
      BY <3>1, <3>2, <3>3
  <2>4. kind[r] = "update" => r \notin lock
    BY <1>1, <1>4 DEF Load, Uncached
  <2> QED
    BY <1>2, <2>1, <2>2, <2>3, <2>4 DEF Uncached, Undisturbed, workload
<1>5. CASE Handle(r)
  <2>1. UNCHANGED <<row, lock, pending, quiet>>
    BY <1>5 DEF Handle, database
  <2>2. pc'[r] = "merge" /\ model'[r] = object[r].changes \cup {r}
    BY <1>1, <1>5 DEF Handle, TypeOK
  <2>3. kind[r] = "update" => r \notin lock
    BY <1>1, <1>5 DEF Handle, Uncached
  <2>4. kind[r] = "update" /\ quiet[r] => row = {object[r].changes}
    BY <1>1, <1>5 DEF Handle, Undisturbed
  <2> QED
    BY <1>2, <2>1, <2>2, <2>3, <2>4 DEF Uncached, Undisturbed, workload
<1>6. CASE Merge(r)
  <2>1. UNCHANGED <<row, lock, pending, quiet, model>> /\ base'[r] = row
    BY <1>1, <1>6 DEF Merge, database, TypeOK
  <2>2. pc'[r] = "dispatch" /\ pc[r] = "merge"
    BY <1>1, <1>6 DEF Merge, TypeOK
  <2> QED
    BY <1>1, <1>2, <2>1, <2>2 DEF Uncached, Undisturbed, workload
<1>7. CASE Dispatch(r)
  <2>1. UNCHANGED <<row, lock, pending, quiet, model, base>>
    BY <1>7 DEF Dispatch, database
  <2>2. pc'[r] \in {"record", "commit"} /\ pc[r] = "dispatch"
    BY <1>1, <1>7 DEF Dispatch, TypeOK
  <2> QED
    BY <1>1, <1>2, <2>1, <2>2 DEF Uncached, Undisturbed, workload
<1>8. CASE Record(r)
  <2>1. UNCHANGED <<row, quiet, model, base>> /\ pc[r] = "record" /\ pc'[r] = "commit"
    BY <1>1, <1>8 DEF Record, memory, TypeOK
  <2>2. kind[r] = "update" /\ quiet[r] /\ r \in lock' =>
          row # {} /\ pending' = {value \cup {r} : value \in row}
    BY <1>1, <1>8, QuietWritten DEF Record, Uncached
  <2> QED
    BY <1>1, <1>2, <2>1, <2>2 DEF Uncached, Undisturbed, workload
<1>9. CASE Commit(r) \/ LoseCommit(r)
  <2>1. r \notin lock' /\ pc'[r] \in {"done", "publish", "failed"}
    BY <1>1, <1>9 DEF Commit, LoseCommit, Commits, RolledBack, TypeOK
  <2> QED
    BY <2>1 DEF Uncached, Undisturbed
<1>10. CASE Fail(r)
  <2>1. r \notin lock' /\ pc'[r] = "failed"
    BY <1>1, <1>10 DEF Fail, RolledBack, TypeOK
  <2> QED
    BY <2>1 DEF Uncached, Undisturbed
<1>11. CASE FlushConflict(r)
  <2>1. r \notin lock' /\ pc'[r] = "failed"
    BY <1>1, <1>11 DEF FlushConflict, database, TypeOK
  <2> QED
    BY <2>1 DEF Uncached, Undisturbed
<1>12. CASE Publish(r) \/ Straggle(r) \/ PublishRaises(r)
  <2>1. pc[r] \in {"publish", "straggle"} /\ pc'[r] \in {"publish", "straggle", "done", "failed"}
    BY <1>1, <1>12 DEF Publish, Straggle, PublishRaises, TypeOK
  <2>2. lock' = lock
    BY <1>12 DEF Publish, Straggle, PublishRaises, database
  <2> QED
    BY <1>1, <1>2, <2>1, <2>2 DEF Uncached, Undisturbed, workload
<1>13. CASE Insert(r) \/ InsertTaken(r) \/ Erase(r)
  <2>1. kind[r] # "update" /\ pc'[r] \in {"dispatch", "failed"}
    BY <1>1, <1>13 DEF Insert, InsertTaken, Erase, Path, TypeOK
  <2> QED
    BY <1>2, <2>1 DEF Uncached, Undisturbed, workload
<1>14. CASE GetRemote(r) \/ Backfill(r) \/ Fill(r) \/ FillRemote(r) \/ Drop(r) \/ DropRemote(r)
  BY <1>1, <1>14 DEF GetRemote, Backfill, Fill, FillRemote, Drop, DropRemote, Uncached
<1> QED
  BY <1>3, <1>4, <1>5, <1>6, <1>7, <1>8, <1>9, <1>10, <1>11, <1>12, <1>13, <1>14 DEF Acts, Step

LEMMA SettledOwn ==
    ASSUME QuietInv, levels = {}, NEW r \in Requests, Acts(r)
    PROVE  Unsettled(r)'
<1>1. TypeOK /\ Unsettled(r)
  BY QuietValues DEF QuietInv, OwnInv, OnceInv, TypeInv
<1> USE DEF Goto, At
<1>2. CASE Commit(r) \/ LoseCommit(r) \/ Fail(r)
  BY <1>1, <1>2 DEF Commit, LoseCommit, Commits, Fail, Unsettled, TypeOK
<1>3. CASE Publish(r) \/ Straggle(r) \/ PublishRaises(r)
  BY <1>1, <1>3 DEF Publish, Straggle, PublishRaises, Unsettled, TypeOK
<1>4. CASE ~(\/ Commit(r) \/ LoseCommit(r) \/ Fail(r) \/ Publish(r) \/ Straggle(r)
             \/ PublishRaises(r))
  <2>1. committed' = committed /\ pc[r] \notin {"publish", "straggle", "done", "failed"}
    BY <1>4 DEF Acts, Step, Begin, GetRemote, Backfill, Load, Fill, FillRemote, Handle, Merge,
       Insert, InsertTaken, Erase, Drop, DropRemote, Dispatch, Record, FlushConflict, database
  <2> QED
    BY <1>1, <2>1 DEF Unsettled
<1> QED
  BY <1>2, <1>3, <1>4

LEMMA StepQuiet == QuietInv /\ [Next]_vars => QuietInv'
<1> SUFFICES ASSUME QuietInv, [Next]_vars PROVE QuietInv'
  OBVIOUS
<1>1. ValueInv'
  BY StepValues DEF QuietInv
<1>2. ASSUME NEW r \in Requests, Acts(r) PROVE QuietInv'
  <2>1. levels' = levels
    BY <1>2, Elsewhere, QuietValues DEF OwnInv, OnceInv, TypeInv, workload
  <2> QED
    BY <1>1, <1>2, <2>1, QuietDatabase, QuietElsewhere, QuietOwn, SettledOwn DEF QuietInv
<1>3. ASSUME NEW p \in Processes, Crash(p) PROVE QuietInv'
  <2>1. /\ UNCHANGED <<workload, object, model, base, row, quiet, committed>>
        /\ \A r \in Requests : pc'[r] = pc[r] \/ pc'[r] = "failed"
    BY <1>3, OthersKeep, QuietValues DEF OwnInv, OnceInv, TypeInv, Crash
  <2>2. \/ lock' = {} /\ pending' = {}
        \/ lock' = lock /\ pending' = pending /\ \A r \in lock : home[r] # p
    BY <1>3 DEF Crash
  <2>3. \A r \in Requests : r \in lock' => pc'[r] = pc[r]
    BY <1>3, <2>2, QuietValues DEF Crash, OwnInv, OnceInv, TypeInv, TypeOK
  <2> SUFFICES ASSUME levels = {}
               PROVE  /\ AtMostOne(row)' /\ AtMostOne(pending)'
                      /\ lock' = {} \/ \E q \in Requests : lock' = {q}
                      /\ \A r \in Requests : Uncached(r)' /\ Unsettled(r)' /\ Undisturbed(r)'
    BY <1>1, <2>1 DEF QuietInv, workload
  <2>4. /\ AtMostOne(row)' /\ AtMostOne(pending)'
        /\ lock' = {} \/ \E q \in Requests : lock' = {q}
    BY <2>1, <2>2 DEF QuietInv, AtMostOne
  <2>5. ASSUME NEW r \in Requests PROVE Uncached(r)' /\ Unsettled(r)' /\ Undisturbed(r)'
    <3>1. Uncached(r) /\ Unsettled(r) /\ Undisturbed(r)
      BY DEF QuietInv
    <3>2. CASE pc'[r] = pc[r]
      BY <2>1, <2>2, <3>1, <3>2 DEF Uncached, Unsettled, Undisturbed, At, workload
    <3>3. CASE pc'[r] = "failed" /\ pc'[r] # pc[r]
      BY <2>3, <3>3 DEF Uncached, Unsettled, Undisturbed, At
    <3> QED
      BY <2>1, <3>2, <3>3
  <2> QED
    BY <2>4, <2>5
<1>4. ASSUME (\E p \in Processes : ExpireLocal(p)) \/ ExpireRemote \/ UNCHANGED vars
      PROVE  QuietInv'
  <2>1. UNCHANGED <<workload, object, model, base, row, quiet, committed, pc, lock, pending>>
    BY <1>4 DEF ExpireLocal, ExpireRemote, vars, database, memory, workload
  <2> QED
    BY <1>1, <2>1 DEF QuietInv, AtMostOne, Uncached, Unsettled, Undisturbed, At, workload
<1> QED
  BY <1>2, <1>3, <1>4 DEF Next, Acts

(* An update adds its change to the row and takes none away, where no cache   *)
(* answers and nothing was committed between its read and its merge           *)
(* (QuietUncachedUpdateAddsItself).                                           *)
THEOREM QuietUpdateKeepsRow == Spec => QuietUncachedUpdateAddsItself
<1>1. QuietInv /\ [Next]_vars =>
        [\A r \in committed' \ committed :
           kind[r] = "update" /\ quiet[r] /\ levels = {}
             => row' = {value \cup {r} : value \in row}]_vars
  <2> SUFFICES ASSUME QuietInv, Next, NEW r \in committed' \ committed,
                      kind[r] = "update", quiet[r], levels = {}
               PROVE  row' = {value \cup {r} : value \in row}
    OBVIOUS
  <2>1. ASSUME NEW q \in Requests, Acts(q)
        PROVE  q = r /\ Commits(r) /\ r \in Requests
    <3>1. Commit(q) \/ LoseCommit(q)
      BY <2>1 DEF Acts, Step, Begin, GetRemote, Backfill, Load, Fill, FillRemote, Handle, Merge,
         Insert, InsertTaken, Erase, Drop, DropRemote, Dispatch, Record, FlushConflict, Fail,
         Publish, Straggle, PublishRaises, database
    <3> QED
      BY <3>1 DEF Commit, LoseCommit, Commits
  <2>2. ~(\/ \E p \in Processes : Crash(p) \/ ExpireLocal(p)
          \/ ExpireRemote \/ UNCHANGED vars)
    BY OthersKeep, QuietValues DEF OwnInv, OnceInv, TypeInv
  <2>3. Commits(r) /\ r \in Requests
    BY <2>1, <2>2 DEF Next, Acts
  <2>4. Written(r) = {value \cup {r} : value \in row}
    BY <2>3, QuietWritten DEF Commits, At
  <2> QED
    BY <2>3, <2>4 DEF Commits
<1> QED
  BY <1>1, InitQuiet, StepQuiet, PTL DEF Spec, QuietUncachedUpdateAddsItself
==============================================================================
