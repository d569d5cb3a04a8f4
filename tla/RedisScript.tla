------------------------------ MODULE RedisScript ------------------------------
(***************************************************************************)
(* What the three rate limiting scripts share.  A script is a function of  *)
(* the policy, the hash it reads, Redis TIME in ms, and the cost; it       *)
(* returns its answer, the hash it writes and the expiry it sets.          *)
(***************************************************************************)
EXTENDS Integers

CONSTANT NoState   \* the key does not exist

\* math.max, math.min, and math.ceil(a / b)
Larger(a, b)  == IF a > b THEN a ELSE b
Smaller(a, b) == IF a < b THEN a ELSE b
CeilDiv(a, b) == -((-a) \div b)
==============================================================================
