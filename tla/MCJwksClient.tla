----------------------------- MODULE MCJwksClient -----------------------------
(* Small instances of JwksClient for TLC. *)
EXTENDS JwksClient

CONSTANTS k1, k2, rs256, rs384

Raw(kid, algs, usable) == [kid |-> kid, algs |-> algs, usable |-> usable]

Old == Raw(k1, {rs256, rs384}, TRUE)
New == Raw(k2, {rs256}, TRUE)

\* Before and after a rotation, and the documents _parse_jwks refuses: no usable
\* key, a duplicate kid, too many keys.
MCDocuments ==
  { <<Old>>, <<New>>, <<Old, Raw(k1, {rs256}, FALSE), New>>,
    <<Raw(k2, {rs256}, FALSE)>>, <<New, New>>, <<Old, New, Old, New>> }
==============================================================================
