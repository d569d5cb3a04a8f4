------------------------------ MODULE MCS3Client ------------------------------
(* A small instance of S3Client for TLC. *)
EXTENDS S3Client, TLC

CONSTANTS u1, u2

File(streamed, chunks) == [streamed |-> streamed, chunks |-> chunks]

\* One PUT, an empty stream, a good one, one with a short read in the middle, and
\* one with a part too many.
MCFiles == { File(FALSE, <<"full">>), File(TRUE, <<>>), File(TRUE, <<"full", "short">>),
             File(TRUE, <<"short", "full">>), File(TRUE, <<"full", "full", "short">>) }

\* Both write the last key under the prefix.
MCTarget == u1 :> 2 @@ u2 :> 2

UploadSymmetry == Permutations(Uploads)
==============================================================================
