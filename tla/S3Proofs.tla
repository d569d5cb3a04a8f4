------------------------------- MODULE S3Proofs -------------------------------
(***************************************************************************)
(* Proofs about S3Client, for any number of calls, keys, parts and faults. *)
(***************************************************************************)
EXTENDS S3Client, FiniteSetTheorems, WellFoundedInduction, TLAPS

Final == {"ok", "error", "cancelled"}
Labels == Requests \union Final \union {"idle", "read"}
Late == [op : Requests, of : Uploads, list : Seq(Nat)]

TypeOK ==
  /\ file \in [Uploads -> Files]
  /\ session \in [Uploads -> {"none", "open", "gone"}]
  /\ received \in [Uploads -> SUBSET Nat]
  /\ stray \in SUBSET Uploads /\ stored \in SUBSET Uploads
  /\ late \in SUBSET Late
  /\ pc \in [Uploads -> Labels]
  /\ parts \in [Uploads -> Seq(Nat)]
  /\ hit \in [Uploads -> SUBSET Requests]

(* A file that is stored by one put_object.                                  *)
OnePut(u) == ~file[u].streamed \/ file[u].chunks = <<>>

(* How far a call is tells what is left of its multipart upload.              *)
SessionOf(u) ==
  /\ pc[u] \in {"create", "read", "part", "complete", "drop", "abort"} => file[u].streamed
  /\ pc[u] \in {"idle", "create"} \/ ~file[u].streamed => session[u] = "none"
  /\ pc[u] \in {"put", "ok"} => session[u] # "open"
  /\ pc[u] = "error" => session[u] # "open" \/ "abort" \in hit[u]
  /\ u \in stray => pc[u] = "cancelled" \/ hit[u] \intersect {"create", "part"} # {}

(* It has stored its file when it says so, or it does not know.               *)
StoredBy(u) ==
  /\ u \in stored => pc[u] \in {"ok", "cancelled"} \/ hit[u] \intersect {"complete", "put"} # {}
  /\ u \in stored => OnePut(u) \/ session[u] = "gone"
  /\ pc[u] = "ok" => u \in stored
  /\ pc[u] \in {"put", "drop"} => OnePut(u)

(* The parts are listed in order, all of them when the upload is completed.   *)
PartsOf(u) ==
  /\ parts[u] = [i \in 1..Len(parts[u]) |-> i]
  /\ Len(parts[u]) <= Len(file[u].chunks)
  /\ pc[u] = "part" => Len(parts[u]) < Len(file[u].chunks)
  /\ pc[u] = "complete" => parts[u] = Numbers(u)

(* A request nobody waits for was given up or repeated by its call.           *)
LateOf(q) ==
  /\ q.op \in hit[q.of] \/ pc[q.of] = "cancelled"
  /\ q.op = "complete" => q.list = Numbers(q.of)
  /\ q.op = "put" => OnePut(q.of)

IInv ==
  /\ TypeOK
  /\ \A u \in Uploads : SessionOf(u) /\ StoredBy(u) /\ PartsOf(u)
  /\ \A q \in late : LateOf(q)

------------------------------------------------------------------------------
LEMMA FileIs ==
  ASSUME TypeOK, NEW u \in Uploads
  PROVE  /\ file[u].streamed \in BOOLEAN
         /\ file[u].chunks \in Seq({"full", "short"})
         /\ Len(file[u].chunks) \in Nat
         /\ DOMAIN file[u].chunks = 1..Len(file[u].chunks)
<1>1. file[u] \in [streamed : BOOLEAN, chunks : Seq({"full", "short"})]
  BY S3Assumption DEF TypeOK
<1>2. file[u].streamed \in BOOLEAN /\ file[u].chunks \in Seq({"full", "short"})
  BY <1>1
<1> QED
  BY <1>2

LEMMA PartsAre ==
  ASSUME TypeOK, NEW u \in Uploads
  PROVE  parts[u] \in Seq(Nat) /\ Len(parts[u]) \in Nat
<1>1. parts[u] \in Seq(Nat)
  BY DEF TypeOK
<1> QED
  BY <1>1

LEMMA InitInv == Init => IInv
<1> SUFFICES ASSUME Init PROVE IInv
  OBVIOUS
<1>1. TypeOK
  BY DEF Init, TypeOK, Labels
<1>2. \A u \in Uploads : SessionOf(u) /\ StoredBy(u)
  BY DEF Init, SessionOf, StoredBy
<1>3. ASSUME NEW u \in Uploads PROVE PartsOf(u)
  <2>1. parts[u] = <<>> /\ pc[u] = "idle"
    BY DEF Init
  <2>2. Len(<<>>) = 0 /\ <<>> = [i \in 1..0 |-> i]
    OBVIOUS
  <2> QED
    BY <1>1, <2>1, <2>2, FileIs DEF PartsOf
<1> QED
  BY <1>1, <1>2, <1>3 DEF Init, IInv

(* What a call of its own does, to itself only.                               *)
Calls(u) == Upload(u) \/ ReadFails(u) \/ RequestFails(u) \/ Resend(u) \/ Cancel(u)

LEMMA CallType ==
  ASSUME TypeOK, NEW u \in Uploads, Calls(u)
  PROVE  TypeOK'
<1> USE DEF TypeOK, Goto, Leave, Labels, Requests, Final, bucket, client, purger
<1>1. /\ parts[u] \in Seq(Nat) /\ <<>> \in Seq(Nat)
      /\ Append(parts[u], Len(parts[u]) + 1) \in Seq(Nat)
  <2>1. parts[u] \in Seq(Nat)
    OBVIOUS
  <2> HIDE DEF TypeOK
  <2> QED
    BY <2>1
<1>2. pc[u] \in Requests => Request(u) \in Late
  BY <1>1 DEF Request, Late
<1>3. CASE Start(u)
  BY <1>3 DEF Start
<1>4. CASE Create(u)
  BY <1>4 DEF Create
<1>5. CASE Read(u)
  BY <1>5 DEF Read
<1>6. CASE UploadPart(u)
  <2>1. Len(parts[u]) + 1 \in Nat
    BY PartsAre
  <2>2. parts' \in [Uploads -> Seq(Nat)] /\ received' \in [Uploads -> SUBSET Nat]
    BY <1>1, <1>6, <2>1 DEF UploadPart
  <2> QED
    BY <1>6, <2>2 DEF UploadPart
<1>7. CASE Complete(u)
  BY <1>1, <1>7 DEF Complete, PutObject, CloseSession
<1>8. CASE Drop(u)
  BY <1>8 DEF Drop, CloseSession
<1>9. CASE Put(u)
  BY <1>9 DEF Put, PutObject
<1>10. CASE Refused(u)
  BY <1>1, <1>10 DEF Refused, Raised
<1>11. CASE Abort(u)
  BY <1>11 DEF Abort, CloseSession
<1>12. CASE ReadFails(u)
  BY <1>1, <1>12 DEF ReadFails, Raised
<1>13. CASE RequestFails(u)
  BY <1>1, <1>2, <1>13 DEF RequestFails, Raised
<1>14. CASE Resend(u)
  BY <1>2, <1>14 DEF Resend
<1>15. CASE Cancel(u)
  BY <1>1, <1>2, <1>15 DEF Cancel
<1> QED
  BY <1>3, <1>4, <1>5, <1>6, <1>7, <1>8, <1>9, <1>10, <1>11, <1>12, <1>13, <1>14, <1>15
     DEF Calls, Upload

LEMMA CallElsewhere ==
  ASSUME TypeOK, NEW u \in Uploads, Calls(u)
  PROVE  /\ file' = file
         /\ pc[u] \notin Final
         /\ hit[u] \subseteq hit'[u]
         /\ stray' = stray
         /\ stored \subseteq stored' /\ stored' \subseteq stored \union {u}
         /\ \A v \in Uploads \ {u} : /\ pc'[v] = pc[v] /\ parts'[v] = parts[v]
                                     /\ session'[v] = session[v] /\ hit'[v] = hit[v]
<1> USE DEF TypeOK, Goto, Leave, Final, Requests, bucket, client, purger
<1>1. CASE Start(u) \/ Create(u) \/ Read(u) \/ UploadPart(u)
  BY <1>1 DEF Start, Create, Read, UploadPart
<1>2. CASE Complete(u) \/ Drop(u) \/ Put(u)
  BY <1>2 DEF Complete, Drop, Put, PutObject, CloseSession
<1>3. CASE Refused(u) \/ Abort(u)
  BY <1>3 DEF Refused, Abort, CloseSession
<1>4. CASE ReadFails(u) \/ RequestFails(u)
  BY <1>4 DEF ReadFails, RequestFails
<1>5. CASE Resend(u) \/ Cancel(u)
  BY <1>5 DEF Resend, Cancel
<1> QED
  BY <1>1, <1>2, <1>3, <1>4, <1>5 DEF Calls, Upload

LEMMA CallSession ==
  ASSUME IInv, NEW u \in Uploads, Calls(u)
  PROVE  SessionOf(u)' /\ StoredBy(u)'
<1>1. TypeOK /\ SessionOf(u) /\ StoredBy(u) /\ PartsOf(u) /\ file[u].streamed \in BOOLEAN
  BY FileIs DEF IInv
<1> USE DEF SessionOf, StoredBy, OnePut, Goto, Leave, Requests, bucket, client, purger
<1>2. CASE Start(u)
  BY <1>1, <1>2 DEF Start, TypeOK
<1>3. CASE Create(u)
  BY <1>1, <1>3 DEF Create, TypeOK
<1>4. CASE Read(u)
  <2>1. Len(parts[u]) \in Nat /\ Len(file[u].chunks) \in Nat
    BY <1>1, FileIs, PartsAre
  <2>2. ~(Len(parts[u]) < Len(file[u].chunks)) /\ parts[u] = <<>> => file[u].chunks = <<>>
    <3>1. Len(<<>>) = 0
      OBVIOUS
    <3>2. \A s \in Seq({"full", "short"}) : Len(s) = 0 => s = <<>>
      OBVIOUS
    <3> QED
      BY <1>1, <2>1, <3>1, <3>2, FileIs
  <2> QED
    BY <1>1, <1>4, <2>2 DEF Read, TypeOK
<1>5. CASE UploadPart(u)
  BY <1>1, <1>5 DEF UploadPart, TypeOK
<1>6. CASE Complete(u)
  BY <1>1, <1>6 DEF Complete, PutObject, CloseSession, TypeOK
<1>7. CASE Drop(u)
  BY <1>1, <1>7 DEF Drop, CloseSession, TypeOK
<1>8. CASE Put(u)
  BY <1>1, <1>8 DEF Put, PutObject, TypeOK
<1>9. CASE Refused(u)
  BY <1>1, <1>9 DEF Refused, Raised, TypeOK
<1>10. CASE Abort(u)
  BY <1>1, <1>10 DEF Abort, CloseSession, TypeOK
<1>11. CASE ReadFails(u)
  BY <1>1, <1>11 DEF ReadFails, Raised, TypeOK
<1>12. CASE RequestFails(u)
  BY <1>1, <1>12 DEF RequestFails, Raised, TypeOK
<1>13. CASE Resend(u)
  BY <1>1, <1>13 DEF Resend, TypeOK
<1>14. CASE Cancel(u)
  BY <1>1, <1>14 DEF Cancel, TypeOK
<1> QED
  BY <1>2, <1>3, <1>4, <1>5, <1>6, <1>7, <1>8, <1>9, <1>10, <1>11, <1>12, <1>13, <1>14
     DEF Calls, Upload

LEMMA CallParts ==
  ASSUME IInv, NEW u \in Uploads, Calls(u)
  PROVE  PartsOf(u)'
<1>1. TypeOK /\ PartsOf(u)
  BY DEF IInv
<1>2. /\ Len(parts[u]) \in Nat /\ parts[u] \in Seq(Nat) /\ Len(file[u].chunks) \in Nat
      /\ DOMAIN file[u].chunks = 1..Len(file[u].chunks)
      /\ Len(<<>>) = 0 /\ <<>> = [i \in 1..0 |-> i]
  BY <1>1, FileIs, PartsAre
<1> USE DEF Goto, Leave, bucket, client, purger
<1>3. CASE parts'[u] = parts[u] /\ file' = file /\ pc'[u] \notin {"part", "complete"}
  BY <1>1, <1>3 DEF PartsOf
<1>4. CASE parts'[u] = <<>> /\ file' = file /\ pc'[u] \notin {"part", "complete"}
  BY <1>2, <1>4 DEF PartsOf
<1>5. CASE Read(u)
  <2>1. Len(parts[u]) = Len(file[u].chunks) => parts[u] = Numbers(u)
    BY <1>1, <1>2 DEF PartsOf, Numbers
  <2>2. /\ pc'[u] = "part" => Len(parts[u]) < Len(file[u].chunks)
        /\ pc'[u] = "complete" => Len(parts[u]) = Len(file[u].chunks)
    BY <1>1, <1>2, <1>5 DEF Read, TypeOK, PartsOf
  <2>3. parts' = parts /\ file' = file
    BY <1>5 DEF Read
  <2> QED
    BY <1>1, <2>1, <2>2, <2>3 DEF PartsOf, Numbers
<1>6. CASE UploadPart(u)
  <2>1. pc[u] = "part" /\ pc'[u] = "read" /\ file' = file
        /\ parts'[u] = Append(parts[u], Len(parts[u]) + 1)
    BY <1>1, <1>6 DEF UploadPart, TypeOK
  <2>2. PICK n \in Nat : n = Len(parts[u])
    BY <1>2
  <2>3. parts[u] = [i \in 1..n |-> i] /\ n < Len(file[u].chunks)
    BY <1>1, <2>1, <2>2 DEF PartsOf
  <2>4. Append(parts[u], n + 1) = [i \in 1..n + 1 |-> i] /\ Len(Append(parts[u], n + 1)) = n + 1
    BY <1>2, <2>2, <2>3
  <2>5. n + 1 <= Len(file[u].chunks)
    BY <1>2, <2>3
  <2> QED
    BY <2>1, <2>2, <2>4, <2>5 DEF PartsOf
<1>7. CASE Start(u) \/ Create(u) \/ Drop(u) \/ Put(u) \/ Abort(u)
  <2>1. parts'[u] = parts[u] /\ file' = file /\ pc'[u] \notin {"part", "complete"}
    BY <1>1, <1>7 DEF Start, Create, Drop, Put, Abort, TypeOK
  <2> QED
    BY <1>3, <2>1
<1>8. CASE Complete(u) \/ Refused(u) \/ ReadFails(u) \/ RequestFails(u) \/ Cancel(u)
  <2>1. parts'[u] = <<>> /\ file' = file /\ pc'[u] \notin {"part", "complete"}
    BY <1>1, <1>8 DEF Complete, Refused, ReadFails, RequestFails, Cancel, Raised, TypeOK
  <2> QED
    BY <1>4, <2>1
<1>9. CASE Resend(u)
  BY <1>1, <1>9 DEF Resend, PartsOf, Numbers
<1> QED
  BY <1>5, <1>6, <1>7, <1>8, <1>9 DEF Calls, Upload

LEMMA CallLate ==
  ASSUME IInv, NEW u \in Uploads, Calls(u)
  PROVE  \A q \in late' : LateOf(q)'
<1>1. TypeOK /\ PartsOf(u) /\ StoredBy(u) /\ \A q \in late : LateOf(q)
  BY DEF IInv
<1>2. /\ file' = file /\ pc[u] \notin Final
      /\ hit[u] \subseteq hit'[u]
      /\ \A v \in Uploads \ {u} : pc'[v] = pc[v] /\ hit'[v] = hit[v]
  BY <1>1, CallElsewhere
<1>3. ASSUME NEW q \in late PROVE LateOf(q)'
  <2>1. q.of \in Uploads /\ LateOf(q)
    BY <1>1 DEF TypeOK, Late
  <2> QED
    BY <1>2, <2>1 DEF LateOf, Numbers, OnePut, Final
<1>4. late' \ late = {} \/ /\ late' = late \union {Request(u)} /\ pc[u] \in Requests
                           /\ \/ pc[u] \in hit'[u]
                              \/ pc'[u] = "cancelled"
  BY <1>1 DEF Calls, Upload, Start, Create, Read, UploadPart, Complete, Drop, Put, Refused, Abort,
     ReadFails, RequestFails, Resend, Cancel, Goto, Leave, TypeOK
<1>5. ASSUME NEW q, q = Request(u), pc[u] \in hit'[u] \/ pc'[u] = "cancelled"
      PROVE  LateOf(q)'
  <2>1. q.op = pc[u] /\ q.of = u /\ q.list = parts[u]
    BY <1>5 DEF Request
  <2> QED
    BY <1>1, <1>2, <1>5, <2>1 DEF LateOf, PartsOf, StoredBy, Numbers, OnePut
<1> QED
  BY <1>3, <1>4, <1>5

LEMMA CallStep ==
  ASSUME IInv, NEW u \in Uploads, Calls(u)
  PROVE  IInv'
<1>1. TypeOK'
  BY CallType DEF IInv
<1>2. ASSUME NEW v \in Uploads, v # u PROVE SessionOf(v)' /\ StoredBy(v)' /\ PartsOf(v)'
  BY <1>2, CallElsewhere DEF IInv, SessionOf, StoredBy, PartsOf, Numbers, OnePut
<1> QED
  BY <1>1, <1>2, CallSession, CallParts, CallLate DEF IInv

(* What S3 does with a request nobody waits for.                              *)
LEMMA LateStep ==
  ASSUME IInv, NEW q \in late, LateArrives(q) \/ LateLost(q)
  PROVE  IInv'
<1> DEFINE u == q.of
<1>1. /\ TypeOK /\ q \in Late /\ u \in Uploads /\ q.op \in Requests /\ LateOf(q)
      /\ SessionOf(u) /\ StoredBy(u)
  BY DEF IInv, TypeOK, Late
<1>2. UNCHANGED <<file, pc, parts, hit>> /\ late' = late \ {q}
  BY DEF LateArrives, LateLost, client
<1>3. \A r \in late' : LateOf(r)'
  BY <1>2 DEF IInv, LateOf, Numbers, OnePut
<1>4. \A v \in Uploads : PartsOf(v)'
  BY <1>2 DEF IInv, PartsOf, Numbers
<1>5. /\ session' \in [Uploads -> {"none", "open", "gone"}]
      /\ received' \in [Uploads -> SUBSET Nat]
      /\ stray' \in SUBSET Uploads /\ stored' \in SUBSET Uploads
  <2>1. Len(q.list) + 1 \in Nat
    BY <1>1 DEF Late
  <2>2. /\ session \in [Uploads -> {"none", "open", "gone"}]
        /\ received \in [Uploads -> SUBSET Nat]
        /\ stray \in SUBSET Uploads /\ stored \in SUBSET Uploads
    BY <1>1 DEF TypeOK
  <2> QED
    BY <1>1, <2>1, <2>2 DEF LateArrives, LateLost, PutObject, CloseSession, bucket
<1>6. TypeOK'
  BY <1>1, <1>2, <1>5 DEF TypeOK
<1>7. \A v \in Uploads \ {u} : /\ session'[v] = session[v]
                               /\ v \in stray' => v \in stray
                               /\ v \in stored' <=> v \in stored
  BY <1>1 DEF LateArrives, LateLost, PutObject, CloseSession, bucket, TypeOK
<1>8. \A v \in Uploads \ {u} : SessionOf(v)' /\ StoredBy(v)'
  BY <1>2, <1>7 DEF IInv, SessionOf, StoredBy, OnePut
<1>9. /\ session'[u] = session[u] \/ (session[u] = "open" /\ session'[u] = "gone")
      /\ u \in stray' => u \in stray \/ q.op \in {"create", "part"}
      /\ u \in stored => u \in stored'
      /\ u \in stored' => \/ u \in stored
                          \/ q.op = "put"
                          \/ q.op = "complete" /\ session'[u] = "gone"
  BY <1>1 DEF LateArrives, LateLost, PutObject, CloseSession, Completes, bucket, TypeOK
<1>10. SessionOf(u)'
  BY <1>1, <1>2, <1>9 DEF SessionOf, LateOf
<1>11. StoredBy(u)'
  BY <1>1, <1>2, <1>9 DEF StoredBy, LateOf, OnePut
<1> QED
  BY <1>3, <1>4, <1>6, <1>8, <1>10, <1>11 DEF IInv

(* Other callers, and the purge, touch objects only.                          *)
Others ==
  \/ \E k \in Keys : Delete(k)
  \/ PurgeStart \/ List \/ DeletePage \/ PurgeFails

LEMMA OthersLeave ==
  Others => UNCHANGED <<file, session, received, stray, stored, late, pc, parts, hit>>
BY DEF Others, Delete, PurgeStart, List, DeletePage, PurgeFails, bucket, client

LEMMA StepInv == IInv /\ [Next]_vars => IInv'
<1> SUFFICES ASSUME IInv, [Next]_vars PROVE IInv'
  OBVIOUS
<1>1. ASSUME UNCHANGED <<file, session, received, stray, stored, late, pc, parts, hit>>
      PROVE  IInv'
  BY <1>1 DEF IInv, TypeOK, SessionOf, StoredBy, PartsOf, LateOf, Numbers, OnePut
<1>2. UNCHANGED vars => UNCHANGED <<file, session, received, stray, stored, late, pc, parts, hit>>
  BY DEF vars, bucket, client
<1> QED
  BY <1>1, <1>2, OthersLeave, CallStep, LateStep DEF Next, Others, Calls

LEMMA InvAlways == Spec => []IInv
BY InitInv, StepInv, PTL DEF Spec

(* No call that ended leaves its multipart upload in the bucket, unless the   *)
(* abort failed, or stray parts of it, unless a request that opens or fills   *)
(* it was in doubt (NoPartsLeft).                                             *)
THEOREM PartsAreRemoved == Spec => []NoPartsLeft
<1>1. IInv => NoPartsLeft
  <2> SUFFICES ASSUME IInv, NEW u \in Uploads, pc[u] \in {"ok", "error"}
               PROVE  /\ session[u] = "open" => "abort" \in hit[u]
                      /\ u \in stray => hit[u] \intersect {"create", "part"} # {}
    BY DEF NoPartsLeft
  <2>1. SessionOf(u)
    BY DEF IInv
  <2> QED
    BY <2>1 DEF SessionOf
<1> QED
  BY <1>1, InvAlways, PTL

(* A call that raised stored nothing, unless the reply to the request that    *)
(* stores the object was in doubt (ErrorStoresNothing).                       *)
THEOREM ErrorIsClean == Spec => []ErrorStoresNothing
<1>1. IInv => ErrorStoresNothing
  BY DEF IInv, StoredBy, ErrorStoresNothing
<1> QED
  BY <1>1, InvAlways, PTL

------------------------------------------------------------------------------
(* delete_by_prefix *)

(* Every non-empty set of numbers has a least one.                            *)
LEMMA LeastNumber ==
  ASSUME NEW S \in SUBSET Nat, S # {}
  PROVE  \E m \in S : \A n \in S : m <= n
<1> DEFINE T == {0..n : n \in S}
<1>1. T \subseteq FiniteSubsetsOf(Nat) /\ T # {}
  <2>1. ASSUME NEW n \in S PROVE IsFiniteSet(0..n) /\ 0..n \in SUBSET Nat
    BY FS_Interval
  <2> QED
    BY <2>1 DEF FiniteSubsetsOf
<1>2. PICK t \in T : \A r \in T : <<r, t>> \notin StrictSubsetOrdering(Nat)
  <2> HIDE DEF T
  <2> QED
    BY <1>1, FS_StrictSubsetOrderingWellFounded, WFMin
<1>3. PICK m \in S : t = 0..m
  OBVIOUS
<1>4. ASSUME NEW n \in S, n < m PROVE FALSE
  <2>1. 0..n \in T /\ 0..n \in SUBSET Nat /\ 0..m \in SUBSET Nat
    OBVIOUS
  <2>2. 0..n \subseteq 0..m
    BY <1>4
  <2>3. m \in 0..m /\ m \notin 0..n
    BY <1>4
  <2>4. 0..n # 0..m
    BY <2>3
  <2>5. <<0..n, 0..m>> \in StrictSubsetOrdering(Nat)
    BY <2>1, <2>2, <2>4 DEF StrictSubsetOrdering
  <2> QED
    BY <1>2, <1>3, <2>1, <2>5
<1> QED
  BY <1>4

Below(k) == {j \in Ahead : j < k}

LEMMA AheadIs ==
  /\ Ahead \subseteq Prefixed /\ Prefixed \subseteq Keys /\ Keys \subseteq Nat
  /\ FirstPage = {k \in Ahead : Cardinality(Below(k)) < PageSize}
BY S3Assumption DEF Ahead, FirstPage, Below

(* The number of keys before k grows with k.                                  *)
LEMMA BelowIs ==
  ASSUME NEW k \in Ahead
  PROVE  /\ k \in Nat
         /\ \A j : j \in Below(k) <=> j \in Ahead /\ j < k
         /\ \A j \in Below(k) : j \in 0..k
<1>1. Ahead \subseteq Nat
  BY AheadIs
<1>2. \A j : j \in Below(k) <=> j \in Ahead /\ j < k
  BY Zenon DEF Below
<1>3. ASSUME NEW j \in Nat, j < k, k \in Nat PROVE j \in 0..k
  BY <1>3
<1> QED
  BY <1>1, <1>2, <1>3

LEMMA BelowGrows ==
  ASSUME NEW k \in Ahead
  PROVE  /\ IsFiniteSet(Below(k)) /\ Cardinality(Below(k)) \in Nat
         /\ \A j \in Ahead : j < k => Cardinality(Below(j)) < Cardinality(Below(k))
<1>1. k \in Nat /\ Ahead \subseteq Nat
  BY AheadIs
<1>2. IsFiniteSet(Below(k))
  <2>1. IsFiniteSet(0..k) /\ Below(k) \in SUBSET (0..k)
    BY <1>1, FS_Interval, BelowIs
  <2> QED
    BY <2>1, FS_Subset
<1>3. ASSUME NEW j \in Ahead, j < k PROVE Cardinality(Below(j)) < Cardinality(Below(k))
  <2>1. Below(j) \in SUBSET Below(k) /\ j \in Below(k) /\ j \notin Below(j)
    <3>1. \A i \in Below(j) : i \in Below(k)
      BY <1>1, <1>3, BelowIs
    <3> QED
      BY <1>1, <1>3, <3>1, BelowIs
  <2>2. /\ IsFiniteSet(Below(j))
        /\ Cardinality(Below(j)) <= Cardinality(Below(k))
        /\ Cardinality(Below(k)) = Cardinality(Below(j)) => Below(k) = Below(j)
    BY <1>2, <2>1, FS_Subset
  <2>3. Cardinality(Below(j)) \in Nat /\ Cardinality(Below(k)) \in Nat
    BY <1>2, <2>2, FS_CardinalityType
  <2> QED
    BY <2>1, <2>2, <2>3
<1> QED
  BY <1>2, <1>3, FS_CardinalityType

(* A page is empty at the end only, and leaves out nothing on its way.        *)
LEMMA PageIs ==
  /\ FirstPage = {} => Ahead = {}
  /\ FirstPage # {} => /\ Max(FirstPage) \in FirstPage
                       /\ \A k \in Ahead : k <= Max(FirstPage) => k \in FirstPage
<1>1. ASSUME Ahead # {} PROVE FirstPage # {}
  <2>1. Ahead \in SUBSET Nat
    BY AheadIs
  <2>2. PICK m \in Ahead : \A n \in Ahead : m <= n
    BY <1>1, <2>1, LeastNumber
  <2>3. Below(m) = {}
    BY <2>1, <2>2, BelowIs
  <2>4. Cardinality(Below(m)) < PageSize
    BY <2>3, FS_EmptySet, S3Assumption
  <2> QED
    BY <2>2, <2>4, AheadIs
<1>2. ASSUME FirstPage # {}
      PROVE  /\ Max(FirstPage) \in FirstPage
             /\ \A k \in Ahead : k <= Max(FirstPage) => k \in FirstPage
  <2> DEFINE left(k) == PageSize - Cardinality(Below(k))
             S == {left(k) : k \in FirstPage}
  <2>1. FirstPage \subseteq Ahead /\ Ahead \subseteq Nat /\ PageSize \in Nat
    BY AheadIs, S3Assumption
  <2>2. \A k \in FirstPage : left(k) \in Nat
    <3> SUFFICES ASSUME NEW k \in FirstPage PROVE left(k) \in Nat
      OBVIOUS
    <3>1. Cardinality(Below(k)) \in Nat /\ Cardinality(Below(k)) < PageSize
      BY <2>1, AheadIs, BelowGrows
    <3> QED
      BY <2>1, <3>1
  <2>3. S \in SUBSET Nat /\ S # {}
    BY <1>2, <2>2
  <2>4. PICK d \in S : \A e \in S : d <= e
    <3> HIDE DEF S
    <3> QED
      BY <2>3, LeastNumber
  <2>5. PICK m \in FirstPage : d = left(m)
    OBVIOUS
  <2>6. ASSUME NEW k \in FirstPage PROVE m >= k
    <3>1. left(m) <= left(k) /\ m \in Ahead /\ k \in Ahead /\ m \in Nat /\ k \in Nat
      BY <2>1, <2>4, <2>5
    <3>2. Cardinality(Below(k)) \in Nat /\ Cardinality(Below(m)) \in Nat
      BY <3>1, BelowGrows
    <3>3. m < k => Cardinality(Below(m)) < Cardinality(Below(k))
      BY <3>1, BelowGrows
    <3> QED
      BY <2>1, <3>1, <3>2, <3>3
  <2>7. Max(FirstPage) \in FirstPage /\ \A k \in FirstPage : Max(FirstPage) >= k
    BY <2>6 DEF Max
  <2>8. ASSUME NEW k \in Ahead, k <= Max(FirstPage), k \notin FirstPage PROVE FALSE
    <3>1. PICK n \in FirstPage : n = Max(FirstPage)
      BY <2>7
    <3>2. k < n /\ n \in Ahead
      BY <2>1, <2>8, <3>1
    <3>3. /\ Cardinality(Below(k)) < Cardinality(Below(n))
          /\ Cardinality(Below(k)) \in Nat /\ Cardinality(Below(n)) \in Nat
      BY <3>2, BelowGrows
    <3>4. Cardinality(Below(n)) < PageSize
      BY AheadIs
    <3>5. Cardinality(Below(k)) < PageSize
      BY <2>1, <3>3, <3>4
    <3> QED
      BY <2>8, <3>5, AheadIs
  <2> QED
    BY <2>7, <2>8
<1> QED
  BY <1>1, <1>2

Object == [by : Uploads \union {"earlier"}, parts : Seq(Nat)]

(* The bucket holds whole files only.                                         *)
WholeInv ==
  /\ objects \in [Keys -> {Absent} \union Object]
  /\ \A k \in Keys : objects[k] # Absent => Whole(objects[k])

(* Up to the last key it has seen, the purge has dealt with what it must      *)
(* remove, or has it in its hands.                                            *)
PurgeInv ==
  /\ purge \in [at : {"idle", "list", "delete", "deleteLast", "done", "error"}, after : Nat]
  /\ page \subseteq Prefixed /\ due \subseteq Prefixed
  /\ purge.at = "idle" => purge.after = 0
  /\ \A k \in due : objects[k] # Absent =>
       /\ purge.at # "done"
       /\ purge.at = "list" => purge.after < k
       /\ purge.at = "delete" => purge.after < k \/ k \in page
       /\ purge.at = "deleteLast" => k \in page

BucketInv == WholeInv /\ PurgeInv

(* An object is stored as a whole, or some are removed, or none is touched.   *)
Stores(u) == PutObject(u, Numbers(u))
Removes == \E gone \in SUBSET Keys :
             objects' = [k \in Keys |-> IF k \in gone THEN Absent ELSE objects[k]]

LEMMA NumbersAre ==
  ASSUME TypeOK, NEW u \in Uploads
  PROVE  Numbers(u) \in Seq(Nat)
<1>1. PICK n \in Nat : n = Len(file[u].chunks)
  BY FileIs
<1>2. Numbers(u) = [i \in 1..n |-> i]
  BY <1>1, FileIs DEF Numbers
<1> QED
  BY <1>2

LEMMA InitBucket == Init => BucketInv
<1> SUFFICES ASSUME Init PROVE BucketInv
  OBVIOUS
<1>1. objects \in [Keys -> {Absent, [by |-> "earlier", parts |-> <<>>]}]
  BY DEF Init
<1>2. [by |-> "earlier", parts |-> <<>>] \in Object
  BY DEF Object
<1>3. WholeInv
  BY <1>1, <1>2 DEF WholeInv, Whole
<1>4. PurgeInv
  BY DEF Init, PurgeInv
<1> QED
  BY <1>3, <1>4 DEF BucketInv

LEMMA StoreKeepsBucket ==
  ASSUME TypeOK, BucketInv, NEW u \in Uploads, Stores(u), UNCHANGED <<file, purge, page>>
  PROVE  BucketInv'
<1>1. Target[u] \in Keys /\ Numbers(u) \in Seq(Nat)
  BY S3Assumption, NumbersAre
<1> DEFINE new == [by |-> u, parts |-> Numbers(u)]
<1>2. new \in Object /\ Whole(new)
  BY <1>1 DEF Object, Whole
<1>3. objects' = [objects EXCEPT ![Target[u]] = new] /\ due' = due \ {Target[u]}
  BY DEF Stores, PutObject
<1>4. \A o : Whole(o) => Whole(o)'
  BY DEF Whole, Numbers
<1> HIDE DEF new
<1>5. WholeInv'
  BY <1>1, <1>2, <1>3, <1>4 DEF BucketInv, WholeInv
<1>6. PurgeInv'
  BY <1>1, <1>3 DEF BucketInv, WholeInv, PurgeInv
<1> QED
  BY <1>5, <1>6 DEF BucketInv

LEMMA StillBucket ==
  ASSUME BucketInv, UNCHANGED <<file, objects, purge, page, due>>
  PROVE  BucketInv'
BY DEF BucketInv, WholeInv, PurgeInv, Whole, Numbers

(* The purge's own steps.                                                     *)
LEMMA PurgeStep ==
  ASSUME BucketInv, UNCHANGED file, PurgeStart \/ List \/ DeletePage \/ PurgeFails
  PROVE  BucketInv'
<1>1. /\ WholeInv /\ PurgeInv
      /\ Ahead \subseteq Prefixed /\ FirstPage \subseteq Ahead
      /\ Prefixed \subseteq Keys /\ Keys \subseteq Nat /\ purge.after \in Nat
  BY AheadIs DEF BucketInv, PurgeInv
<1>2. \A k \in Prefixed : objects[k] # Absent /\ k > purge.after <=> k \in Ahead
  BY DEF Ahead
<1>3. CASE PurgeStart
  <2>1. /\ purge.at = "idle" /\ purge' = [purge EXCEPT !.at = "list"] /\ due' = Ahead
        /\ UNCHANGED <<objects, page>>
    BY <1>3 DEF PurgeStart, bucket
  <2>2. purge' = [at |-> "list", after |-> purge.after] /\ \A k \in Ahead : purge.after < k
    BY <1>1, <1>2, <2>1 DEF PurgeInv
  <2>3. PurgeInv'
    BY <1>1, <2>1, <2>2 DEF PurgeInv
  <2> QED
    BY <1>1, <2>1, <2>3 DEF BucketInv, WholeInv, Whole, Numbers
<1>4. CASE List
  <2>1. /\ purge.at = "list" /\ page' = FirstPage
        /\ UNCHANGED <<objects, due>>
        /\ FirstPage = {} => purge' = [at |-> "done", after |-> purge.after]
        /\ FirstPage # {} =>
             purge' = [at |-> IF Ahead = FirstPage THEN "deleteLast" ELSE "delete",
                       after |-> Max(FirstPage)]
    BY <1>4 DEF List, bucket
  <2>2. PICK p : p = FirstPage
    OBVIOUS
  <2>3. \A k \in due : objects[k] # Absent => k \in Ahead
    BY <1>1, <1>2, <2>1 DEF PurgeInv
  <2>4. PurgeInv'
    <3>1. CASE p = {}
      BY <1>1, <2>1, <2>2, <2>3, <3>1, PageIs DEF PurgeInv
    <3>2. CASE p # {}
      <4>1. PICK m : m = Max(FirstPage)
        OBVIOUS
      <4>2. m \in Nat /\ m \in FirstPage /\ \A k \in Ahead : k <= m => k \in p
        BY <1>1, <2>2, <3>2, <4>1, PageIs
      <4>3. /\ purge' = [at |-> IF Ahead = p THEN "deleteLast" ELSE "delete", after |-> m]
            /\ page' = p
        BY <2>1, <2>2, <3>2, <4>1
      <4>4. \A k \in due : objects[k] # Absent => m < k \/ k \in p
        <5>1. \A k \in Ahead : k \in Nat /\ (k <= m \/ m < k)
          BY <1>1, <4>2
        <5> QED
          BY <2>3, <4>2, <5>1
      <4>5. \A k \in due : objects[k] # Absent /\ Ahead = p => k \in p
        BY <2>3
      <4> QED
        BY <1>1, <2>1, <2>2, <4>2, <4>3, <4>4, <4>5 DEF PurgeInv
    <3> QED
      BY <3>1, <3>2
  <2> QED
    BY <1>1, <2>1, <2>4 DEF BucketInv, WholeInv, Whole, Numbers
<1>5. CASE DeletePage
  <2>1. PICK refused \in SUBSET page :
          /\ objects' = [k \in Keys |-> IF k \in page \ refused THEN Absent ELSE objects[k]]
          /\ due' = due \ refused
    BY <1>5 DEF DeletePage
  <2>2. /\ purge.at \in {"delete", "deleteLast"} /\ page' = page
        /\ purge' = [purge EXCEPT !.at = IF purge.at = "delete" THEN "list" ELSE "done"]
    BY <1>5 DEF DeletePage
  <2>3. purge' = [at |-> IF purge.at = "delete" THEN "list" ELSE "done", after |-> purge.after]
    BY <1>1, <2>2 DEF PurgeInv
  <2>4. \A k \in due' : objects'[k] # Absent => purge.at = "delete" /\ purge.after < k
    BY <1>1, <2>1, <2>2 DEF PurgeInv
  <2>5. PurgeInv'
    BY <1>1, <2>1, <2>2, <2>3, <2>4 DEF PurgeInv
  <2>6. \A o : Whole(o) => Whole(o)'
    BY DEF Whole, Numbers
  <2>7. WholeInv'
    BY <1>1, <2>1, <2>6 DEF WholeInv
  <2> QED
    BY <2>5, <2>7 DEF BucketInv
<1>6. CASE PurgeFails
  <2>1. purge.at # "done" /\ purge' = [purge EXCEPT !.at = "error"] /\ UNCHANGED <<objects, page, due>>
    BY <1>6 DEF PurgeFails, bucket
  <2>2. purge' = [at |-> "error", after |-> purge.after]
    BY <1>1, <2>1 DEF PurgeInv
  <2> QED
    BY <1>1, <2>1, <2>2 DEF BucketInv, WholeInv, PurgeInv, Whole, Numbers
<1> QED
  BY <1>3, <1>4, <1>5, <1>6

(* What a step does to the bucket, beside the purge's own.                    *)
LEMMA BucketStep ==
  ASSUME IInv, [Next]_vars
  PROVE  /\ file' = file
         /\ \/ \E u \in Uploads : Stores(u) /\ UNCHANGED <<purge, page>>
            \/ \E k \in Keys : Delete(k)
            \/ PurgeStart \/ List \/ DeletePage \/ PurgeFails
            \/ UNCHANGED <<objects, purge, page, due>>
<1>1. CASE UNCHANGED vars
  BY <1>1 DEF vars, bucket, purger
<1>2. ASSUME NEW u \in Uploads, Calls(u)
      PROVE  /\ file' = file
             /\ \/ Stores(u) /\ UNCHANGED <<purge, page>>
                \/ UNCHANGED <<objects, purge, page, due>>
  <2>1. PartsOf(u)
    BY DEF IInv
  <2>2. CASE Complete(u) \/ Put(u)
    BY <2>1, <2>2 DEF Complete, Put, Stores, PartsOf
  <2> USE DEF bucket, purger
  <2>3. CASE Start(u) \/ Create(u) \/ Read(u) \/ UploadPart(u) \/ Refused(u)
    BY <2>3 DEF Start, Create, Read, UploadPart, Refused
  <2>4. CASE Drop(u) \/ Abort(u)
    BY <2>4 DEF Drop, Abort
  <2>5. CASE ReadFails(u) \/ RequestFails(u) \/ Resend(u) \/ Cancel(u)
    BY <2>5 DEF ReadFails, RequestFails, Resend, Cancel
  <2> QED
    BY <1>2, <2>2, <2>3, <2>4, <2>5 DEF Calls, Upload
<1>3. ASSUME NEW q \in late, LateArrives(q) \/ LateLost(q)
      PROVE  /\ file' = file
             /\ \/ \E u \in Uploads : Stores(u) /\ UNCHANGED <<purge, page>>
                \/ UNCHANGED <<objects, purge, page, due>>
  <2>1. q.of \in Uploads /\ LateOf(q)
    BY DEF IInv, TypeOK, Late
  <2> QED
    BY <1>3, <2>1 DEF LateArrives, LateLost, LateOf, Stores, bucket, purger
<1>4. Others => UNCHANGED file
  BY OthersLeave
<1> QED
  BY <1>1, <1>2, <1>3, <1>4 DEF Next, Others, Calls

LEMMA BucketNext == IInv /\ BucketInv /\ [Next]_vars => BucketInv'
<1> SUFFICES ASSUME IInv, BucketInv, [Next]_vars PROVE BucketInv'
  OBVIOUS
<1>1. TypeOK /\ file' = file
  BY BucketStep DEF IInv
<1>2. ASSUME NEW k \in Keys, Delete(k) PROVE BucketInv'
  <2>1. objects' = [objects EXCEPT ![k] = Absent] /\ UNCHANGED <<purge, page, due>>
    BY <1>2 DEF Delete, purger
  <2>2. \A o : Whole(o) => Whole(o)'
    BY <1>1 DEF Whole, Numbers
  <2>3. objects \in [Keys -> {Absent} \union Object] /\ Prefixed \subseteq Keys
    BY S3Assumption DEF BucketInv, WholeInv
  <2>4. WholeInv'
    BY <2>1, <2>2, <2>3 DEF BucketInv, WholeInv
  <2>5. PurgeInv'
    BY <2>1, <2>3 DEF BucketInv, PurgeInv
  <2> QED
    BY <2>4, <2>5 DEF BucketInv
<1> QED
  BY <1>1, <1>2, BucketStep, StoreKeepsBucket, StillBucket, PurgeStep

LEMMA BucketAlways == Spec => [](IInv /\ BucketInv)
<1>1. Init => IInv /\ BucketInv
  BY InitInv, InitBucket
<1>2. IInv /\ BucketInv /\ [Next]_vars => IInv' /\ BucketInv'
  BY StepInv, BucketNext
<1> QED
  BY <1>1, <1>2, PTL DEF Spec

(* When delete_by_prefix returns, every object it found at first is gone, but *)
(* for those written since or that S3 refused to delete (PurgeLeavesNothing). *)
THEOREM PurgeRemovesAll == Spec => []PurgeLeavesNothing
<1>1. BucketInv => PurgeLeavesNothing
  BY DEF BucketInv, PurgeInv, PurgeLeavesNothing
<1> QED
  BY <1>1, BucketAlways, PTL

------------------------------------------------------------------------------
(* The client implements the object storage.                                 *)

(* What the mapping makes of the state.                                      *)
content == [k \in Keys |-> Content(objects[k])]
answer  == [u \in Uploads |-> CASE pc[u] = "ok" -> "ok"
                               [] pc[u] = "error" -> "error"
                               [] OTHER -> "none"]
onePut  == {u \in Uploads : ~file[u].streamed \/ file[u].chunks = <<>>}

LEMMA InitMaps == Init => Storage!Init
<1> SUFFICES ASSUME Init PROVE Storage!Init
  OBVIOUS
<1>1. content \in [Keys -> {Absent, "earlier"}]
  <2>1. ASSUME NEW k \in Keys PROVE Content(objects[k]) \in {Absent, "earlier"}
    BY DEF Init, Content, Whole
  <2> QED
    BY <2>1 DEF content
<1>2. answer = [u \in Uploads |-> "none"]
  BY DEF Init, answer
<1>3. stored = {} /\ onePut \subseteq Uploads
  BY DEF Init, onePut
<1> QED
  BY <1>1, <1>2, <1>3 DEF Storage!Init, content, answer, onePut

LEMMA ContentIs ==
  ASSUME WholeInv, NEW k \in Keys
  PROVE  /\ objects[k] = Absent => Content(objects[k]) = Absent
         /\ objects[k] # Absent => Content(objects[k]) = objects[k].by
BY DEF WholeInv, Content

(* An object that is stored appears as its file.                             *)
LEMMA StoreMaps ==
  ASSUME WholeInv, WholeInv', TypeOK, NEW u \in Uploads, Stores(u)
  PROVE  content' = [content EXCEPT ![Target[u]] = u] /\ stored' = stored \union {u}
<1> DEFINE new == [by |-> u, parts |-> Numbers(u)]
<1>1. Target[u] \in Keys /\ new # Absent
  BY S3Assumption, NumbersAre
<1>2. objects' = [objects EXCEPT ![Target[u]] = new] /\ stored' = stored \union {u}
  BY DEF Stores, PutObject
<1>3. \A k \in Keys : /\ objects'[k] = Absent => Content(objects[k])' = Absent
                      /\ objects'[k] # Absent => Content(objects[k])' = objects'[k].by
  BY DEF WholeInv, Content
<1>4. ASSUME NEW k \in Keys
      PROVE  Content(objects[k])' = IF k = Target[u] THEN u ELSE Content(objects[k])
  <2>1. objects \in [Keys -> {Absent} \union Object]
    BY DEF WholeInv
  <2>2. objects'[k] = IF k = Target[u] THEN new ELSE objects[k]
    BY <1>1, <1>2, <2>1
  <2>3. new.by = u
    OBVIOUS
  <2> HIDE DEF new
  <2> QED
    BY <1>1, <1>3, <2>2, <2>3, ContentIs
<1> QED
  BY <1>1, <1>2, <1>4 DEF content

LEMMA RemoveMaps ==
  ASSUME WholeInv, WholeInv', Removes
  PROVE  \E gone \in SUBSET Keys :
           content' = [k \in Keys |-> IF k \in gone THEN Absent ELSE content[k]]
<1>1. PICK gone \in SUBSET Keys :
        objects' = [k \in Keys |-> IF k \in gone THEN Absent ELSE objects[k]]
  BY DEF Removes
<1>2. ASSUME NEW k \in Keys
      PROVE  Content(objects[k])' = IF k \in gone THEN Absent ELSE Content(objects[k])
  <2>1. /\ objects'[k] = Absent => Content(objects[k])' = Absent
        /\ objects'[k] # Absent => Content(objects[k])' = objects'[k].by
    BY DEF WholeInv, Content
  <2> QED
    BY <1>1, <2>1, ContentIs
<1>3. content' = [k \in Keys |-> IF k \in gone THEN Absent ELSE content[k]]
  BY <1>2 DEF content
<1> QED
  BY <1>3

LEMMA StillMaps ==
  ASSUME UNCHANGED <<file, objects>>
  PROVE  content' = content
BY DEF content, Content, Whole, Numbers

LEMMA StillAnswers ==
  ASSUME \A v \in Uploads : pc'[v] = pc[v] \/ {pc[v], pc'[v]} \intersect {"ok", "error"} = {}
  PROVE  answer' = answer
<1>1. ASSUME NEW v \in Uploads
      PROVE  (CASE pc[v] = "ok" -> "ok" [] pc[v] = "error" -> "error" [] OTHER -> "none")' =
              CASE pc[v] = "ok" -> "ok" [] pc[v] = "error" -> "error" [] OTHER -> "none"
  OBVIOUS
<1> QED
  BY <1>1 DEF answer

(* A call's answer, and what it has stored when it gives it.                  *)
LEMMA CallAnswers ==
  ASSUME IInv, NEW u \in Uploads, Calls(u)
  PROVE  /\ answer[u] = "none"
         /\ \/ /\ Stores(u) /\ answer' = [answer EXCEPT ![u] = "ok"]
               /\ session[u] = "open" \/ OnePut(u)
            \/ /\ UNCHANGED <<objects, stored>>
               /\ answer' \in {answer, [answer EXCEPT ![u] = "error"]}
<1>1. /\ TypeOK /\ SessionOf(u) /\ StoredBy(u) /\ PartsOf(u)
      /\ pc[u] \notin Final
      /\ \A v \in Uploads \ {u} : pc'[v] = pc[v]
      /\ pc' \in [Uploads -> Labels]
  BY CallElsewhere, CallType DEF IInv, TypeOK
<1>2. answer[u] = "none"
  BY <1>1 DEF answer, Final
<1>3. ASSUME NEW a \in {"ok", "error"}, pc'[u] = a
      PROVE  answer' = [answer EXCEPT ![u] = a]
  <2>1. ASSUME NEW v \in Uploads
        PROVE  (CASE pc[v] = "ok" -> "ok" [] pc[v] = "error" -> "error" [] OTHER -> "none")' =
                IF v = u THEN a
                ELSE CASE pc[v] = "ok" -> "ok" [] pc[v] = "error" -> "error" [] OTHER -> "none"
    BY <1>1, <1>3
  <2> QED
    BY <2>1 DEF answer
<1>4. pc'[u] \notin {"ok", "error"} => answer' = answer
  BY <1>1, StillAnswers DEF Final
<1>5. CASE Complete(u) \/ Put(u)
  <2>1. Stores(u) /\ pc'[u] = "ok"
    BY <1>1, <1>5 DEF Complete, Put, Stores, PartsOf, Goto, Leave, TypeOK
  <2>2. session[u] = "open" \/ OnePut(u)
    BY <1>1, <1>5 DEF Complete, Completes, Put, StoredBy
  <2> QED
    BY <1>2, <1>3, <2>1, <2>2
<1>6. CASE ~(Complete(u) \/ Put(u))
  <2> USE DEF bucket, TypeOK, Goto, Leave
  <2>1. CASE Start(u) \/ Create(u) \/ Read(u) \/ UploadPart(u) \/ Refused(u)
    <3>1. pc'[u] # "ok" /\ UNCHANGED <<objects, stored>>
      BY <1>1, <2>1 DEF Start, Create, Read, UploadPart, Refused, Raised
    <3> QED
      BY <1>2, <1>3, <1>4, <3>1
  <2>2. CASE Drop(u) \/ Abort(u)
    <3>1. pc'[u] # "ok" /\ UNCHANGED <<objects, stored>>
      BY <1>1, <2>2 DEF Drop, Abort, CloseSession
    <3> QED
      BY <1>2, <1>3, <1>4, <3>1
  <2>3. CASE ReadFails(u) \/ RequestFails(u) \/ Resend(u) \/ Cancel(u)
    <3>1. pc'[u] # "ok" /\ UNCHANGED <<objects, stored>>
      BY <1>1, <2>3 DEF ReadFails, RequestFails, Resend, Cancel, Raised, client, Final
    <3> QED
      BY <1>2, <1>3, <1>4, <3>1
  <2> QED
    BY <1>6, <2>1, <2>2, <2>3 DEF Calls, Upload
<1> QED
  BY <1>5, <1>6

(* A late request that stores a file.                                         *)
LEMMA LateMaps ==
  ASSUME IInv, NEW q \in late, LateArrives(q) \/ LateLost(q)
  PROVE  \/ /\ q.of \in Uploads /\ Stores(q.of)
            /\ session[q.of] = "open" \/ OnePut(q.of)
         \/ UNCHANGED <<objects, stored>>
<1>1. q.of \in Uploads /\ LateOf(q)
  BY DEF IInv, TypeOK, Late
<1> QED
  BY <1>1 DEF LateArrives, LateLost, LateOf, Completes, Stores, bucket

LEMMA RemovesIs ==
  ASSUME BucketInv, (\E k \in Keys : Delete(k)) \/ DeletePage
  PROVE  Removes
<1>1. objects \in [Keys -> {Absent} \union Object] /\ page \subseteq Keys
  BY S3Assumption DEF BucketInv, WholeInv, PurgeInv
<1>2. ASSUME NEW k \in Keys, Delete(k) PROVE Removes
  <2>1. objects' = [objects EXCEPT ![k] = Absent]
    BY <1>2 DEF Delete
  <2>2. objects' = [j \in Keys |-> IF j \in {k} THEN Absent ELSE objects[j]]
    BY <1>1, <2>1
  <2> QED
    BY <2>2 DEF Removes
<1>3. CASE DeletePage
  <2>1. PICK refused \in SUBSET page :
          objects' = [k \in Keys |-> IF k \in page \ refused THEN Absent ELSE objects[k]]
    BY <1>3 DEF DeletePage
  <2> QED
    BY <1>1, <2>1 DEF Removes
<1> QED
  BY <1>2, <1>3

LEMMA NextMaps == IInv /\ BucketInv /\ [Next]_vars => [Storage!Next]_(Storage!vars)
<1> SUFFICES ASSUME IInv, BucketInv, [Next]_vars PROVE [Storage!Next]_(Storage!vars)
  OBVIOUS
<1>1. TypeOK /\ WholeInv /\ WholeInv' /\ file' = file /\ onePut' = onePut
  BY BucketNext, BucketStep DEF IInv, BucketInv, onePut
<1> DEFINE Stays == content' = content /\ answer' = answer /\ stored' = stored
<1>2. Stays => UNCHANGED Storage!vars
  BY <1>1 DEF Storage!vars, content, answer, onePut
<1>3. ASSUME NEW u \in Uploads, Stores(u), session[u] = "open" \/ OnePut(u)
      PROVE  Storage!Store(u) /\ u \in stored'
  <2>1. content' = [content EXCEPT ![Target[u]] = u] /\ stored' = stored \union {u}
    BY <1>1, <1>3, StoreMaps
  <2>2. u \in onePut \/ u \notin stored
    BY <1>3 DEF IInv, StoredBy, OnePut, onePut
  <2> QED
    BY <2>1, <2>2 DEF Storage!Store, content, onePut
<1>4. ASSUME NEW u \in Uploads, Calls(u) PROVE [Storage!Next]_(Storage!vars)
  <2>1. answer[u] = "none"
    BY <1>4, CallAnswers
  <2>2. CASE /\ Stores(u) /\ answer' = [answer EXCEPT ![u] = "ok"]
             /\ session[u] = "open" \/ OnePut(u)
    <3>1. Storage!Store(u) /\ u \in stored'
      BY <1>3, <2>2
    <3>2. Storage!Tell(u, "ok")
      BY <2>1, <2>2, <3>1 DEF Storage!Tell, answer
    <3>3. Storage!StoreAndSay(u)
      BY <1>1, <3>1, <3>2 DEF Storage!StoreAndSay, onePut
    <3> QED
      BY <3>3 DEF Storage!Next
  <2>3. CASE UNCHANGED <<objects, stored>> /\ answer' = [answer EXCEPT ![u] = "error"]
    <3>1. content' = content /\ stored' = stored
      BY <1>1, <2>3, StillMaps
    <3>2. Storage!Tell(u, "error")
      BY <2>1, <2>3 DEF Storage!Tell, answer
    <3>3. Storage!Say(u)
      BY <1>1, <3>1, <3>2 DEF Storage!Say, onePut, content
    <3> QED
      BY <3>3 DEF Storage!Next
  <2>4. CASE UNCHANGED <<objects, stored>> /\ answer' = answer
    BY <1>1, <1>2, <2>4, StillMaps
  <2> QED
    BY <1>4, <2>2, <2>3, <2>4, CallAnswers
<1>5. ASSUME NEW q \in late, LateArrives(q) \/ LateLost(q) PROVE [Storage!Next]_(Storage!vars)
  <2>1. answer' = answer
    BY <1>5, StillAnswers DEF LateArrives, LateLost, client
  <2>2. CASE /\ q.of \in Uploads /\ Stores(q.of)
             /\ session[q.of] = "open" \/ OnePut(q.of)
    <3>1. PICK u \in Uploads : u = q.of
      BY <2>2
    <3>2. Storage!Store(u)
      BY <1>3, <2>2, <3>1
    <3>3. Storage!StoreOnly(u)
      BY <1>1, <2>1, <3>2 DEF Storage!StoreOnly, onePut, answer
    <3> QED
      BY <3>3 DEF Storage!Next
  <2>3. CASE UNCHANGED <<objects, stored>>
    BY <1>1, <1>2, <2>1, <2>3, StillMaps
  <2> QED
    BY <1>5, <2>2, <2>3, LateMaps
<1>6. CASE Others
  <2>1. answer' = answer /\ stored' = stored
    BY <1>6, OthersLeave, StillAnswers
  <2>2. CASE (\E k \in Keys : Delete(k)) \/ DeletePage
    <3>1. PICK gone \in SUBSET Keys :
            content' = [k \in Keys |-> IF k \in gone THEN Absent ELSE content[k]]
      BY <1>1, <2>2, RemovesIs, RemoveMaps
    <3>2. Storage!Remove
      BY <1>1, <2>1, <3>1 DEF Storage!Remove, content, answer, onePut
    <3> QED
      BY <3>2 DEF Storage!Next
  <2>3. CASE PurgeStart \/ List \/ PurgeFails
    <3>1. objects' = objects
      BY <2>3 DEF PurgeStart, List, PurgeFails, bucket
    <3> QED
      BY <1>1, <1>2, <2>1, <3>1, StillMaps
  <2> QED
    BY <1>6, <2>2, <2>3 DEF Others
<1>7. CASE UNCHANGED vars
  <2>1. UNCHANGED <<objects, stored, pc>>
    BY <1>7 DEF vars, bucket, client
  <2> QED
    BY <1>1, <1>2, <2>1, StillMaps, StillAnswers
<1> QED
  BY <1>4, <1>5, <1>6, <1>7 DEF Next, Others, Calls

(* The client implements the object storage its users rely on: files appear   *)
(* whole and in one step, "ok" is true, and no late or repeated request       *)
(* completes a multipart upload twice (ImplementsObjectStorage).              *)
THEOREM Refinement == Spec => ImplementsObjectStorage
<1>1. IInv /\ BucketInv /\ [Next]_vars => [Storage!Next]_(Storage!vars)
  BY NextMaps
<1> QED
  BY <1>1, InitMaps, BucketAlways, PTL DEF Spec, Storage!Spec, ImplementsObjectStorage
==============================================================================
