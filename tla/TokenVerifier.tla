---------------------------- MODULE TokenVerifier ----------------------------
(***************************************************************************)
(* KeycloakTokenVerifier.verify(): the header is looked at, the key is      *)
(* fetched (which may wait for the refresh lock and for the server, see    *)
(* JwksClient), then PyJWT decides on the token at once.                   *)
(* The wall clock of the claims and the monotonic one of the cache run at  *)
(* the same rate: both are "now".                                          *)
(***************************************************************************)
EXTENDS JwksClient

CONSTANTS
  Tokens,       \* the access tokens that are presented
  ClockSkew     \* clock_skew

\* formed: size, encoding and header are fine.  signer: the key it was signed with.
\* claimed: issuer, audience, subject and type are those the verifier expects.
Token == [formed : BOOLEAN, kid : Kids, alg : Algs, signer : RawKey,
          claimed : BOOLEAN, iat : Nat, exp : Nat]

ASSUME TokenAssumption == Tokens \subseteq Token /\ Tokens # {} /\ ClockSkew \in Nat

VARIABLES
  token,        \* token[t]: the token of the current or last call
  verdict       \* verdict[t]: "accepted", "invalid", or "none" (yet, or an error)

verifier == <<token, verdict>>
allVars  == <<vars, verifier>>

VerifierInit ==
  /\ Init
  /\ token = [t \in Tasks |-> CHOOSE tok \in Tokens : TRUE]
  /\ verdict = [t \in Tasks |-> "none"]

Header(tok) == [kid |-> tok.kid, alg |-> tok.alg]

Judge(t, v) == verdict' = [verdict EXCEPT ![t] = v]

\* Mutant: the dates were looked at before the key was waited for.
DecodesUndated(tok, snapshot) ==
  /\ \E key \in snapshot : key.kid = tok.kid /\ key = tok.signer
  /\ tok.claimed

\* jwt.decode and the checks behind it.  A kid is unique in a snapshot.
Decodes(tok, snapshot) ==
  /\ \E key \in snapshot : key.kid = tok.kid /\ key = tok.signer
  /\ tok.claimed
  /\ tok.iat <= now + ClockSkew
  /\ tok.exp > now - ClockSkew

\* get_key has returned or raised; there is no await behind it.
Answered(t, tok) ==
  Judge(t, IF result'[t] = "key"
           THEN IF Decodes(tok, keys') THEN "accepted" ELSE "invalid"
           ELSE "none")

\* Refused before the JWKS client is asked.
VerifyMalformed(t) ==
  /\ pc[t] = "idle"
  /\ \E tok \in Tokens : ~tok.formed
  /\ Judge(t, "invalid")
  /\ UNCHANGED <<vars, token>>

Verify(t, tok) ==
  /\ tok.formed
  /\ token' = [token EXCEPT ![t] = tok]
  /\ \/ CallHit(t, Header(tok)) /\ Answered(t, tok)
     \/ CallMiss(t, Header(tok)) /\ Judge(t, "none")

VerifyGoesOn(t) ==
  /\ \/ (LockedHit(t) \/ LockedRefused(t) \/ Fetched(t)) /\ Answered(t, token[t])
     \/ (StartFetch(t) \/ Cancel(t)) /\ UNCHANGED verdict
  /\ UNCHANGED token

VerifierNext ==
  \/ (Tick \/ Close) /\ UNCHANGED verifier
  \/ \E t \in Tasks : \/ VerifyMalformed(t) \/ VerifyGoesOn(t)
                      \/ \E tok \in Tokens : Verify(t, tok)

VerifierSpec == VerifierInit /\ [][VerifierNext]_allVars

\* As in JwksClient.
VerifierFairSpec ==
  /\ VerifierSpec
  /\ \A t \in Tasks : /\ WF_allVars(Locked(t) /\ VerifyGoesOn(t))
                      /\ WF_allVars(Fetched(t) /\ VerifyGoesOn(t))

------------------------------------------------------------------------------
(* Properties *)

Lives(tok) == tok.iat - ClockSkew <= now /\ now < tok.exp + ClockSkew

\* However long a call waited for the lock and the server, its token is judged by
\* the moment the call ends: accepted if it lives then and is signed with a key of
\* the snapshot of that moment, and called invalid only if that is not so
\* (token_verifier.py:91 to 112).
JudgedAtTheEnd ==
  [][\A t \in Tasks :
       (pc[t] # "idle" /\ pc'[t] = "idle") =>
         LET tok  == token[t]
             good == tok.claimed /\ Lives(tok) /\ tok.signer \in keys'
         IN  /\ verdict'[t] = "accepted" => good
             /\ verdict'[t] = "invalid" => ~(good /\ tok.signer.kid = tok.kid)]_allVars
==============================================================================
