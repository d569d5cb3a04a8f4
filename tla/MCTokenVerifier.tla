--------------------------- MODULE MCTokenVerifier ---------------------------
(* A small instance of TokenVerifier for TLC. *)
EXTENDS TokenVerifier, MCJwksClient

Tok(kid, alg, signer, iat, exp) ==
  [formed |-> TRUE, kid |-> kid, alg |-> alg, signer |-> signer, claimed |-> TRUE,
   iat |-> iat, exp |-> exp]

\* A token that expires while others wait, one of the new key from the future, one
\* signed with another key than it names, one for an algorithm its key is not for,
\* and one with a wrong header.
MCTokens ==
  { Tok(k1, rs256, Old, 0, 1), Tok(k2, rs256, New, 2, 9), Tok(k2, rs256, Old, 0, 9),
    Tok(k2, rs384, New, 0, 9), [Tok(k1, rs256, Old, 0, 9) EXCEPT !.formed = FALSE] }
==============================================================================
