------------------------------- MODULE S3Client -------------------------------
(***************************************************************************)
(* S3Client: upload, upload_stream (a multipart upload), delete and        *)
(* delete_by_prefix, with several callers on one bucket.                   *)
(*                                                                         *)
(* A call is a coroutine that waits for one request at a time; an action    *)
(* is one such wait coming to its end.  A request may fail for the client  *)
(* and still be carried out, now or later, and botocore may send it again:  *)
(* such requests are "late".  A file is a sequence of chunks; a chunk that  *)
(* is "short" has fewer bytes than S3 asks of a part that is not the last. *)
(***************************************************************************)
EXTENDS Naturals, Sequences, SequencesExt, FiniteSets, FiniteSetsExt

CONSTANTS
  Uploads,     \* calls of upload and upload_stream
  Keys,        \* storage keys: S3 lists them in order, so they are numbers
  Prefixed,    \* the keys that begin with the prefix of delete_by_prefix
  Target,      \* Target[u]: storage_key of u
  Files,       \* the files to choose from: [streamed, chunks]
  PageSize,    \* keys in a page of list_objects_v2
  MaxParts,    \* the highest part number S3 takes
  Absent,      \* "no object under this key"
  MaxFaults    \* bound: failed, repeated and cancelled requests, refused deletions

ASSUME S3Assumption ==
  /\ Keys \subseteq Nat \ {0} /\ Prefixed \subseteq Keys
  /\ Target \in [Uploads -> Keys]
  /\ Files \subseteq [streamed : BOOLEAN, chunks : Seq({"full", "short"})]
  /\ PageSize \in Nat \ {0} /\ MaxParts \in Nat \ {0} /\ MaxFaults \in Nat
  /\ Absent \notin [by : Uploads \union {"earlier"}, parts : Seq(Nat)]

VARIABLES
  file,        \* file[u]: what u uploads
  objects,     \* objects[k]: the object S3 serves under k, or Absent
  session,     \* session[u]: the multipart upload of u in S3
  received,    \* received[u]: the numbers of the parts it holds
  stray,       \* uploads of which S3 has parts that no call will complete or abort
  late,        \* requests on their way that nobody waits for any more
  pc,          \* where each call is: a request it waits for, or how it ended
  parts,       \* parts[u]: the list that complete_multipart_upload will send
  purge,       \* delete_by_prefix: its state, and the last key it has seen
  page,        \* the keys its last list_objects_v2 returned
  stored,      \* history: uploads whose file was stored at least once
  hit,         \* hit[u]: the requests of u that failed or were repeated (history)
  due,         \* keys the purge has to remove (history)
  faults

bucket == <<objects, session, received, stray, stored>>
client == <<pc, parts>>
purger == <<purge, page, due>>
vars   == <<file, bucket, late, client, purger, hit, faults>>

\* The requests a call may be waiting for; at "read" it waits for file_stream.
Requests == {"create", "part", "complete", "drop", "put", "abort"}

Numbers(u) == [i \in DOMAIN file[u].chunks |-> i]

Init ==
  /\ file \in [Uploads -> Files]
  /\ objects \in [Keys -> {Absent, [by |-> "earlier", parts |-> <<>>]}]
  /\ session = [u \in Uploads |-> "none"]
  /\ received = [u \in Uploads |-> {}]
  /\ stray = {} /\ late = {}
  /\ pc = [u \in Uploads |-> "idle"]
  /\ parts = [u \in Uploads |-> <<>>]
  /\ purge = [at |-> "idle", after |-> 0] /\ page = {} /\ due = {}
  /\ stored = {}
  /\ hit = [u \in Uploads |-> {}]
  /\ faults = 0

Goto(u, label) == pc' = [pc EXCEPT ![u] = label]

\* The list of parts is of no use any more.
Leave(u, label) == Goto(u, label) /\ parts' = [parts EXCEPT ![u] = <<>>]

------------------------------------------------------------------------------
(* What S3 does with a request *)

\* Parts but the last have a minimal size, and all that are listed must be there.
Completes(u, list) ==
  /\ session[u] = "open"
  /\ list # <<>>
  /\ \A i \in DOMAIN list : /\ list[i] \in received[u]
                            /\ i < Len(list) => file[u].chunks[list[i]] = "full"

\* An object is replaced as a whole.
PutObject(u, list) ==
  /\ objects' = [objects EXCEPT ![Target[u]] = [by |-> u, parts |-> list]]
  /\ stored' = stored \union {u}
  /\ due' = due \ {Target[u]}

CloseSession(u) == /\ session' = [session EXCEPT ![u] = "gone"]
                   /\ received' = [received EXCEPT ![u] = {}]

------------------------------------------------------------------------------
(* upload and upload_stream *)

\* put_object, or create_multipart_upload.
Start(u) ==
  /\ pc[u] = "idle"
  /\ Goto(u, IF file[u].streamed THEN "create" ELSE "put")
  /\ UNCHANGED <<file, bucket, late, parts, purger, hit, faults>>

Create(u) ==
  /\ pc[u] = "create"
  /\ session' = [session EXCEPT ![u] = "open"]
  /\ Goto(u, "read")
  /\ UNCHANGED <<file, objects, received, stray, stored, late, parts, purger, hit, faults>>

\* while chunk := await file_stream.read(chunk_size)
Read(u) ==
  /\ pc[u] = "read"
  /\ Goto(u, IF Len(parts[u]) < Len(file[u].chunks) THEN "part"
             ELSE IF parts[u] = <<>> THEN "drop" ELSE "complete")
  /\ UNCHANGED <<file, bucket, late, parts, purger, hit, faults>>

UploadPart(u) ==
  LET n == Len(parts[u]) + 1 IN
    /\ pc[u] = "part"
    /\ n <= MaxParts
    /\ received' = [received EXCEPT ![u] = @ \union {n}]
    /\ parts' = [parts EXCEPT ![u] = Append(@, n)]
    /\ Goto(u, "read")
    /\ UNCHANGED <<file, objects, session, stray, stored, late, purger, hit, faults>>

Complete(u) ==
  /\ pc[u] = "complete"
  /\ Completes(u, parts[u])
  /\ PutObject(u, parts[u])
  /\ CloseSession(u)
  /\ Leave(u, "ok")
  /\ UNCHANGED <<file, stray, late, purge, page, hit, faults>>

\* No chunk was read: S3 cannot complete an upload without parts.
Drop(u) ==
  /\ pc[u] = "drop"
  /\ session[u] = "open"
  /\ CloseSession(u)
  /\ Goto(u, "put")
  /\ UNCHANGED <<file, objects, stray, stored, late, parts, purger, hit, faults>>

\* Mutant: no "return" after the empty object: on to complete_multipart_upload.
PutFallsThrough(u) ==
  /\ pc[u] = "put"
  /\ PutObject(u, Numbers(u))
  /\ Goto(u, IF file[u].streamed THEN "complete" ELSE "ok")
  /\ UNCHANGED <<file, session, received, stray, late, parts, purge, page, hit, faults>>

\* put_object: the file of upload(), or the empty object of an empty stream.
Put(u) ==
  /\ pc[u] = "put"
  /\ PutObject(u, Numbers(u))
  /\ Goto(u, "ok")
  /\ UNCHANGED <<file, session, received, stray, late, parts, purge, page, hit, faults>>

\* Mutant: the exception is passed on without an abort.
RaiseAtOnce(u) == "error"

\* Where an exception takes the call: only what follows create_multipart_upload is
\* inside the try, the abort of its "except Exception" is not.
Raised(u) ==
  IF ~file[u].streamed \/ pc[u] \in {"create", "abort"} THEN "error" ELSE "abort"

\* S3 refuses: the part number is too high, a part is too small or missing, or the
\* multipart upload is gone already.
Refused(u) ==
  /\ \/ pc[u] = "part" /\ Len(parts[u]) = MaxParts
     \/ pc[u] = "complete" /\ ~Completes(u, parts[u])
     \/ pc[u] = "drop" /\ session[u] # "open"
  /\ Leave(u, Raised(u))
  /\ UNCHANGED <<file, bucket, late, purger, hit, faults>>

\* The exception is raised again, or NoSuchUpload in its place.
Abort(u) ==
  /\ pc[u] = "abort"
  /\ CloseSession(u)
  /\ Goto(u, "error")
  /\ UNCHANGED <<file, objects, stray, stored, late, parts, purger, hit, faults>>

------------------------------------------------------------------------------
(* Failures *)

Fault == faults < MaxFaults /\ faults' = faults + 1

Request(u) == [op |-> pc[u], of |-> u, list |-> parts[u]]

\* Mutant: a stream that breaks off is taken for one that has ended.
ReadEndsEarly(u) ==
  /\ pc[u] = "read"
  /\ Fault
  /\ Goto(u, IF parts[u] = <<>> THEN "drop" ELSE "complete")
  /\ UNCHANGED <<file, bucket, late, parts, purger, hit>>

\* file_stream raises.
ReadFails(u) ==
  /\ pc[u] = "read"
  /\ Fault
  /\ Leave(u, Raised(u))
  /\ UNCHANGED <<file, bucket, late, purger, hit>>

\* The client gives up on a request (an error, a timeout), S3 may not.
RequestFails(u) ==
  /\ pc[u] \in Requests
  /\ Fault
  /\ late' = late \union {Request(u)}
  /\ hit' = [hit EXCEPT ![u] = @ \union {pc[u]}]
  /\ Leave(u, Raised(u))
  /\ UNCHANGED <<file, bucket, purger>>

\* botocore sends a request once more and answers with the reply to the second.
Resend(u) ==
  /\ pc[u] \in Requests
  /\ Fault
  /\ late' = late \union {Request(u)}
  /\ hit' = [hit EXCEPT ![u] = @ \union {pc[u]}]
  /\ UNCHANGED <<file, bucket, client, purger>>

\* The task is cancelled or its process dies: no Exception, hence no abort.
Cancel(u) ==
  /\ pc[u] \in Requests \union {"read"}
  /\ Fault
  /\ late' = IF pc[u] \in Requests THEN late \union {Request(u)} ELSE late
  /\ Leave(u, "cancelled")
  /\ UNCHANGED <<file, bucket, purger, hit>>

LateLost(q) == late' = late \ {q} /\ UNCHANGED <<file, bucket, client, purger, hit, faults>>

\* A late request that S3 carries out; any other is refused and changes nothing.
LateArrives(q) ==
  LET u == q.of IN
    /\ late' = late \ {q}
    /\ \/ /\ q.op = "create"
          /\ stray' = stray \union {u}
          /\ UNCHANGED <<objects, session, received, stored, due>>
       \/ /\ q.op = "part" /\ session[u] = "open"
          /\ received' = [received EXCEPT ![u] = @ \union {Len(q.list) + 1}]
          /\ UNCHANGED <<objects, session, stray, stored, due>>
       \* An abort does not wait for the parts that are on their way.
       \/ /\ q.op = "part" /\ session[u] = "gone"
          /\ stray' = stray \union {u}
          /\ UNCHANGED <<objects, session, received, stored, due>>
       \/ /\ q.op = "complete" /\ Completes(u, q.list)
          /\ PutObject(u, q.list) /\ CloseSession(u)
          /\ UNCHANGED stray
       \/ /\ q.op \in {"drop", "abort"} /\ session[u] = "open"
          /\ CloseSession(u)
          /\ UNCHANGED <<objects, stray, stored, due>>
       \/ /\ q.op = "put"
          /\ PutObject(u, Numbers(u))
          /\ UNCHANGED <<session, received, stray>>
    /\ UNCHANGED <<file, client, purge, page, hit, faults>>

------------------------------------------------------------------------------
(* delete, and delete_by_prefix *)

Delete(k) ==
  /\ objects[k] # Absent
  /\ objects' = [objects EXCEPT ![k] = Absent]
  /\ UNCHANGED <<file, session, received, stray, stored, late, client, purger, hit, faults>>

\* What list_objects_v2 would return from here on, and its first page.
Ahead == {k \in Prefixed : objects[k] # Absent /\ k > purge.after}
FirstPage == {k \in Ahead : Cardinality({j \in Ahead : j < k}) < PageSize}

PurgeStart ==
  /\ purge.at = "idle"
  /\ purge' = [purge EXCEPT !.at = "list"]
  /\ due' = Ahead
  /\ UNCHANGED <<file, bucket, late, client, page, hit, faults>>

\* Mutant: only the first page is asked for.
OnlyOnePage ==
  /\ purge.at = "list"
  /\ page' = FirstPage
  /\ purge' = [at |-> IF FirstPage = {} THEN "done" ELSE "deleteLast",
               after |-> IF FirstPage = {} THEN purge.after ELSE Max(FirstPage)]
  /\ UNCHANGED <<file, bucket, late, client, due, hit, faults>>

\* The paginator goes on behind the last key it got, until a page is not truncated.
List ==
  /\ purge.at = "list"
  /\ page' = FirstPage
  /\ purge' = [at |-> IF FirstPage = {} THEN "done"
                      ELSE IF Ahead = FirstPage THEN "deleteLast" ELSE "delete",
               after |-> IF FirstPage = {} THEN purge.after ELSE Max(FirstPage)]
  /\ UNCHANGED <<file, bucket, late, client, due, hit, faults>>

\* delete_objects answers 200 also when it could not delete some of the keys;
\* delete_by_prefix does not look at the errors in the response.
DeletePage ==
  /\ purge.at \in {"delete", "deleteLast"}
  /\ \E refused \in SUBSET page :
       /\ IF refused = {} THEN UNCHANGED faults ELSE Fault
       /\ objects' = [k \in Keys |-> IF k \in page \ refused THEN Absent ELSE objects[k]]
       /\ due' = due \ refused
  /\ purge' = [purge EXCEPT !.at = IF purge.at = "delete" THEN "list" ELSE "done"]
  /\ UNCHANGED <<file, session, received, stray, stored, late, client, page, hit>>

PurgeFails ==
  /\ purge.at \in {"list", "delete", "deleteLast"}
  /\ Fault
  /\ purge' = [purge EXCEPT !.at = "error"]
  /\ UNCHANGED <<file, bucket, late, client, page, due, hit>>

------------------------------------------------------------------------------
Upload(u) == \/ Start(u) \/ Create(u) \/ Read(u) \/ UploadPart(u) \/ Complete(u)
             \/ Drop(u) \/ Put(u) \/ Refused(u) \/ Abort(u)

Next ==
  \/ \E u \in Uploads : \/ Upload(u) \/ ReadFails(u) \/ RequestFails(u)
                        \/ Resend(u) \/ Cancel(u)
  \/ \E q \in late : LateArrives(q) \/ LateLost(q)
  \/ \E k \in Keys : Delete(k)
  \/ PurgeStart \/ List \/ DeletePage \/ PurgeFails

Spec == Init /\ [][Next]_vars

------------------------------------------------------------------------------
(* Properties *)

\* No multipart upload, which is paid for and not listed, is left in the bucket by a
\* call that returned or raised, whatever failed, unless the very request that aborts
\* it failed; no stray part, unless a request that opens or fills it failed or was
\* repeated (client.py:166).
NoPartsLeft ==
  \A u \in Uploads : pc[u] \in {"ok", "error"} =>
    /\ session[u] = "open" => "abort" \in hit[u]
    /\ u \in stray => hit[u] \intersect {"create", "part"} # {}

\* A call that raised has stored nothing, and never will, unless the reply to the
\* very request that stores the object was in doubt: a caller may then try again
\* (client.py:129 to 172).
ErrorStoresNothing ==
  \A u \in Uploads :
    (pc[u] = "error" /\ u \in stored) => hit[u] \intersect {"complete", "put"} # {}

\* When delete_by_prefix returns, every object it found when it began is gone, but
\* for keys written since and keys whose deletion S3 refused, however deletions shift
\* the listing between two pages (client.py:49 to 58).
PurgeLeavesNothing ==
  purge.at = "done" => \A k \in due : objects[k] = Absent

\* Readers see nothing or one whole file: never a part of one, never a mix of two.
Whole(o) == o.by = "earlier" \/ o.parts = Numbers(o.by)

Content(o) == IF o = Absent THEN Absent ELSE IF Whole(o) THEN o.by ELSE "torn"

Storage == INSTANCE ObjectStorage WITH
  content <- [k \in Keys |-> Content(objects[k])],
  answer  <- [u \in Uploads |-> CASE pc[u] = "ok" -> "ok"
                                  [] pc[u] = "error" -> "error"
                                  [] OTHER -> "none"],
  stored  <- stored,
  onePut  <- {u \in Uploads : ~file[u].streamed \/ file[u].chunks = <<>>}

\* The client implements the object storage its users rely on: files appear whole,
\* "ok" is true, and no late or repeated request completes a multipart upload twice.
ImplementsObjectStorage == Storage!Spec
==============================================================================
