---------------------------- MODULE ObjectStorage ----------------------------
(***************************************************************************)
(* What the users of the ObjectStorage protocol rely on.  Under a key there *)
(* is nothing or one whole file, and a file gets there in one step.  "ok"   *)
(* is only said of a file that was stored.  After an error it may be stored *)
(* or not, now or a little later.                                          *)
(***************************************************************************)
CONSTANTS
  Uploads,     \* calls of upload and upload_stream
  Keys,        \* storage keys
  Target,      \* Target[u]: the key u uploads to
  Absent       \* "no object under this key"

VARIABLES
  content,     \* content[k]: the upload whose file lies under k, or Absent
  answer,      \* answer[u]: "none" yet, "ok" or "error"
  stored,      \* uploads whose file was stored at least once
  onePut       \* uploads that are a single PUT, which S3 accepts again

vars == <<content, answer, stored, onePut>>

Init ==
  /\ content \in [Keys -> {Absent, "earlier"}]
  /\ answer = [u \in Uploads |-> "none"]
  /\ stored = {}
  /\ onePut \subseteq Uploads

\* A multipart upload is completed at most once: no delayed or repeated request
\* puts its file over a newer one.
Store(u) ==
  /\ u \in onePut \/ u \notin stored
  /\ content' = [content EXCEPT ![Target[u]] = u]
  /\ stored' = stored \union {u}

Tell(u, a) ==
  /\ answer[u] = "none"
  /\ a = "ok" => u \in stored'
  /\ answer' = [answer EXCEPT ![u] = a]

StoreOnly(u)   == Store(u) /\ UNCHANGED <<answer, onePut>>
StoreAndSay(u) == Store(u) /\ Tell(u, "ok") /\ UNCHANGED onePut
Say(u)         == Tell(u, "error") /\ UNCHANGED <<content, stored, onePut>>

Remove ==
  /\ \E gone \in SUBSET Keys :
       content' = [k \in Keys |-> IF k \in gone THEN Absent ELSE content[k]]
  /\ UNCHANGED <<answer, stored, onePut>>

Next == Remove \/ \E u \in Uploads : StoreOnly(u) \/ StoreAndSay(u) \/ Say(u)

Spec == Init /\ [][Next]_vars
==============================================================================
