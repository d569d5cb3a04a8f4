--------------------------- MODULE RateLimiterProofs ---------------------------
(***************************************************************************)
(* Proofs about RateLimiter and RateLimitHttp, for every policy, any costs *)
(* and callers, and any length of time.                                    *)
(***************************************************************************)
EXTENDS RateLimitHttp, TLAPS

-----------------------------------------------------------------------------
(* What the three scripts compute, as long as the clock is not behind the  *)
(* hash: windows and roundings first.                                      *)

LEMMA Division ==
  ASSUME NEW a \in Int, NEW b \in Nat \ {0}
  PROVE  /\ a \div b \in Int /\ a % b \in 0 .. b - 1
         /\ a = b * (a \div b) + (a % b)
         /\ a \in Nat => a \div b \in Nat /\ a % b \in Nat
OBVIOUS

LEMMA RoundUp ==
  ASSUME NEW a \in Int, NEW b \in Nat \ {0}
  PROVE  /\ CeilDiv(a, b) \in Int
         /\ a <= b * CeilDiv(a, b)
         /\ \A k \in Int : k < CeilDiv(a, b) => b * k < a
         /\ a > 0 => CeilDiv(a, b) > 0
BY Division DEF CeilDiv

(* The window of a later time is the same one, the next one or beyond.       *)
LEMMA LaterWindow ==
  ASSUME NEW w \in Nat \ {0}, NEW u \in Nat, NEW t \in Nat, u <= t
  PROVE  /\ u \div w \in Nat /\ t \div w \in Nat /\ u \div w <= t \div w
         /\ u % w \in 0 .. w - 1 /\ t % w \in 0 .. w - 1
         /\ t < u + w - (u % w) <=> t \div w = u \div w
         /\ t < u + 2 * w - (u % w) <=> t \div w <= u \div w + 1
         /\ t \div w = u \div w => t % w = (u % w) + t - u
         /\ t \div w = u \div w + 1 => t % w = (u % w) + t - u - w
<1>1. PICK a \in Nat : a = u \div w
  BY Division
<1>2. PICK b \in Nat : b = t \div w
  BY Division
<1>3. PICK i \in 0 .. w - 1 : i = u % w
  BY Division
<1>4. PICK j \in 0 .. w - 1 : j = t % w
  BY Division
<1>5. u = w * a + i /\ t = w * b + j
  BY <1>1, <1>2, <1>3, <1>4, Division
<1>6. a <= b
  BY <1>5
<1>7. CASE b = a
  BY <1>1, <1>2, <1>3, <1>4, <1>5, <1>7
<1>8. CASE b = a + 1
  <2>1. w * b = w * a + w
    BY <1>8
  <2> QED
    BY <1>1, <1>2, <1>3, <1>4, <1>5, <1>8, <2>1
<1>9. CASE b >= a + 2
  <2>1. w * b >= w * a + 2 * w
    BY <1>9
  <2> QED
    BY <1>1, <1>2, <1>3, <1>4, <1>5, <1>9, <2>1
<1> QED
  BY <1>6, <1>7, <1>8, <1>9

LEMMA WithinWindow ==
  ASSUME NEW w \in Nat \ {0}, NEW t \in Nat, t % w = 0,
         NEW u \in Nat, t <= u, u < t + w
  PROVE  u % w = u - t
<1>1. PICK a \in Int : a = t \div w /\ t = w * a
  BY Division
<1>2. PICK b \in Int, j \in 0 .. w - 1 : b = u \div w /\ j = u % w /\ u = w * b + j
  BY Division
<1>3. b >= a
  <2>1. b <= a - 1 => w * b <= w * a - w
    BY <1>1, <1>2
  <2> QED
    BY <1>1, <1>2, <2>1
<1>4. b <= a
  <2>1. b >= a + 1 => w * b >= w * a + w
    BY <1>1, <1>2
  <2> QED
    BY <1>1, <1>2, <2>1
<1>5. b = a
  BY <1>3, <1>4
<1> QED
  BY <1>1, <1>2, <1>5

------------------------------------------------------------------------------
(* Fixed window *)

FixedCount(p, s, t) == IF s # NoState /\ s.window_id = t \div p.window_ms THEN s.count ELSE 0

FixedUntil(p, s, t) == s # NoState => s.window_id <= t \div p.window_ms

LEMMA FixedIs ==
  ASSUME NEW p \in WindowPolicy, NEW s \in {NoState} \union FixedHash, NEW t \in Nat,
         FixedUntil(p, s, t), NEW c \in Nat
  PROVE  LET n == FixedCount(p, s, t)
             r == FixedWindowScript(p, s, t, c)
         IN  /\ n \in Nat
             /\ r.allowed = (n + c <= p.limit)
             /\ r.retry = IF r.allowed THEN 0 ELSE p.window_ms - (t % p.window_ms)
             /\ r.ttl = p.window_ms - (t % p.window_ms)
             /\ r.state = [window_id |-> t \div p.window_ms,
                           count |-> IF r.allowed THEN n + c ELSE n]
             /\ r.state \in FixedHash
<1>1. /\ p.window_ms \in Nat \ {0} /\ p.limit \in Nat \ {0}
      /\ s # NoState => s.window_id \in Nat /\ s.count \in Nat
  BY DEF WindowPolicy, FixedHash
<1>2. t \div p.window_ms \in Nat /\ t % p.window_ms \in Nat
  <2>1. \A w \in Nat \ {0} : t \div w \in Nat /\ t % w \in Nat
    <3> TAKE w \in Nat \ {0}
    <3>1. t \in Int
      OBVIOUS
    <3> QED
      BY <3>1, Division
  <2> QED
    BY <1>1, <2>1
<1>3. Window(p, s, t) = [ id |-> t \div p.window_ms, elapsed |-> t % p.window_ms,
                          count |-> FixedCount(p, s, t) ]
  BY <1>1, <1>2 DEF Window, FixedCount, FixedUntil
<1>4. FixedCount(p, s, t) \in Nat
  BY <1>1 DEF FixedCount
<1> DEFINE n == FixedCount(p, s, t)
           r == FixedWindowScript(p, s, t, c)
<1>5. /\ r.allowed = (n + c <= p.limit)
      /\ r.retry = IF n + c <= p.limit THEN 0 ELSE p.window_ms - (t % p.window_ms)
      /\ r.ttl = p.window_ms - (t % p.window_ms)
      /\ r.state = [window_id |-> t \div p.window_ms,
                    count |-> IF n + c <= p.limit THEN n + c ELSE n]
  BY <1>3 DEF FixedWindowScript, FixedFits, FixedRetry
<1>6. r.state \in FixedHash
  BY <1>2, <1>4, <1>5 DEF FixedHash
<1> QED
  BY <1>4, <1>5, <1>6

LEMMA FixedAllows ==
  ASSUME NEW p \in WindowPolicy, NEW s \in {NoState} \union FixedHash, NEW t \in Nat,
         FixedUntil(p, s, t), NEW c \in Nat
  PROVE  FixedWindowScript(p, s, t, c).allowed = (FixedCount(p, s, t) + c <= p.limit)
BY FixedIs

(* A call adds what it admits to the count.                                  *)
LEMMA FixedAdds ==
  ASSUME NEW p \in WindowPolicy, NEW s \in {NoState} \union FixedHash, NEW t \in Nat,
         FixedUntil(p, s, t), NEW c \in Nat, NEW g,
         g = IF FixedWindowScript(p, s, t, c).allowed THEN c ELSE 0
  PROVE  /\ FixedCount(p, s, t) \in Nat
         /\ FixedCount(p, FixedWindowScript(p, s, t, c).state, t) = FixedCount(p, s, t) + g
         /\ FixedWindowScript(p, s, t, c).allowed => FixedCount(p, s, t) + g <= p.limit
<1>1. PICK n : n = FixedCount(p, s, t)
  OBVIOUS
<1>2. PICK r : r = FixedWindowScript(p, s, t, c)
  OBVIOUS
<1>3. /\ n \in Nat /\ r.allowed = (n + c <= p.limit)
      /\ r.state = [window_id |-> t \div p.window_ms,
                    count |-> IF r.allowed THEN n + c ELSE n]
      /\ r.state \in FixedHash
  BY <1>1, <1>2, FixedIs
<1>4. r.state # NoState /\ r.state.window_id = t \div p.window_ms
      /\ r.state.count = n + g
  BY <1>2, <1>3, FixedAssumption
<1>5. FixedCount(p, r.state, t) = n + g
  BY <1>4 DEF FixedCount
<1>6. r.allowed => n + g <= p.limit
  <2>1. r.allowed => n + c <= p.limit
    BY <1>3
  <2> QED
    BY <1>2, <2>1
<1> QED
  BY <1>1, <1>2, <1>3, <1>5, <1>6

(* The answer depends on the count of the current window only.               *)
LEMMA FixedSame ==
  ASSUME NEW p \in WindowPolicy, NEW t \in Nat, NEW c \in Nat,
         NEW s \in {NoState} \union FixedHash, FixedUntil(p, s, t),
         NEW z \in {NoState} \union FixedHash, FixedUntil(p, z, t),
         FixedCount(p, s, t) = FixedCount(p, z, t)
  PROVE  FixedWindowScript(p, s, t, c) = FixedWindowScript(p, z, t, c)
<1>1. /\ p.window_ms \in Nat \ {0}
      /\ s # NoState => s.window_id \in Nat
      /\ z # NoState => z.window_id \in Nat
  BY DEF WindowPolicy, FixedHash
<1>2. t \div p.window_ms \in Nat
  BY <1>1, Division
<1>3. Window(p, s, t) = Window(p, z, t)
  BY <1>1, <1>2 DEF Window, FixedCount, FixedUntil
<1> QED
  BY <1>3 DEF FixedWindowScript

LEMMA FixedKeeps ==
  ASSUME NEW p \in WindowPolicy, NEW s \in {NoState} \union FixedHash,
         NEW n \in Nat, FixedUntil(p, s, n), NEW t \in Nat, n <= t,
         NEW c \in Nat, c <= p.limit, NEW d \in Nat, d <= p.limit
  PROVE  LET r == FixedWindowScript(p, s, n, c)
             z == FixedWindowScript(p, r.state, t, d)
         IN  /\ r.state \in FixedHash /\ FixedUntil(p, r.state, n)
             /\ r.ttl \in Nat /\ r.retry \in Nat
             /\ t > n + r.ttl => z = FixedWindowScript(p, NoState, t, d)
             /\ ~r.allowed => z = FixedWindowScript(p, s, t, d)
             /\ ~r.allowed /\ c = d => (z.allowed <=> n + r.retry <= t)
<1> DEFINE w == p.window_ms
           r == FixedWindowScript(p, s, n, c)
           z == FixedWindowScript(p, r.state, t, d)
           k == FixedCount(p, s, n)
<1>1. w \in Nat \ {0} /\ p.limit \in Nat \ {0}
  BY DEF WindowPolicy
<1>2. /\ r.state \in FixedHash /\ k \in Nat
      /\ r.state = [window_id |-> n \div w, count |-> IF r.allowed THEN k + c ELSE k]
      /\ r.allowed = (k + c <= p.limit)
      /\ r.retry = IF r.allowed THEN 0 ELSE w - (n % w)
      /\ r.ttl = w - (n % w)
  BY FixedIs, ZenonT(60)
<1>3. /\ n \div w \in Nat /\ t \div w \in Nat /\ n \div w <= t \div w
      /\ n % w \in 0 .. w - 1
      /\ t < n + w - (n % w) <=> t \div w = n \div w
  BY <1>1, LaterWindow
<1>4. FixedUntil(p, r.state, n) /\ FixedUntil(p, r.state, t) /\ r.ttl \in Nat /\ r.retry \in Nat
  BY <1>1, <1>2, <1>3 DEF FixedUntil
<1>5. FixedUntil(p, NoState, t) /\ FixedCount(p, NoState, t) = 0
  BY DEF FixedUntil, FixedCount
<1>6. t \div w # n \div w => FixedCount(p, r.state, t) = 0
  BY <1>2 DEF FixedCount
<1>7. t \div w = n \div w => FixedCount(p, r.state, t) = IF r.allowed THEN k + c ELSE k
  BY <1>2, FixedAssumption DEF FixedCount
<1>8. z.allowed = (FixedCount(p, r.state, t) + d <= p.limit)
  <2>1. PICK q \in {NoState} \union FixedHash : q = r.state
    BY <1>2
  <2>2. FixedUntil(p, q, t) /\ z = FixedWindowScript(p, q, t, d)
    BY <1>4, <2>1
  <2>3. FixedWindowScript(p, q, t, d).allowed = (FixedCount(p, q, t) + d <= p.limit)
    BY <2>2, FixedAllows
  <2> HIDE DEF r, z
  <2> QED
    BY <2>1, <2>2, <2>3
<1>9. t > n + r.ttl => z = FixedWindowScript(p, NoState, t, d)
  <2>1. t > n + r.ttl => t \div w # n \div w
    BY <1>2, <1>3, <1>1
  <2> HIDE DEF r
  <2> QED
    BY <1>2, <1>4, <1>5, <1>6, <2>1, FixedSame
<1>10. ~r.allowed => z = FixedWindowScript(p, s, t, d)
  <2>1. FixedUntil(p, s, t) /\ (s # NoState => s.window_id \in Nat)
    BY <1>1, <1>3 DEF FixedUntil, FixedHash
  <2>2. ~r.allowed => FixedCount(p, r.state, t) = FixedCount(p, s, t)
    <3>1. CASE t \div w = n \div w
      BY <1>7, <3>1 DEF FixedCount
    <3>2. CASE t \div w # n \div w
      <4>1. s # NoState => s.window_id # t \div w
        BY <1>3, <2>1, <3>2 DEF FixedUntil
      <4> QED
        BY <1>6, <3>2, <4>1 DEF FixedCount
    <3> QED
      BY <3>1, <3>2
  <2> HIDE DEF r
  <2> QED
    BY <1>2, <1>4, <2>1, <2>2, FixedSame
<1> HIDE DEF r, z, k
<1>11. ~r.allowed /\ c = d /\ t >= n + r.retry => z.allowed
  <2>1. ~r.allowed /\ t >= n + r.retry => ~(t < n + w - (n % w))
    BY <1>1, <1>2, <1>3
  <2>2. t \div w # n \div w => z.allowed
    <3>1. 0 + d <= p.limit
      BY <1>1
    <3> QED
      BY <1>6, <1>8, <3>1
  <2> QED
    BY <1>3, <2>1, <2>2
<1>12. ~r.allowed /\ c = d /\ t < n + r.retry => ~z.allowed
  BY <1>1, <1>2, <1>3, <1>7, <1>8
<1>13. n + r.retry \in Int
  BY <1>4
<1> QED
  BY <1>2, <1>4, <1>9, <1>10, <1>11, <1>12, <1>13 DEF r, z

------------------------------------------------------------------------------
(* Sliding window *)

SlidingCurrent(p, s, t) ==
  IF s # NoState /\ s.window_id = t \div p.window_ms THEN s.current ELSE 0

SlidingPrevious(p, s, t) ==
  IF s # NoState /\ s.window_id = t \div p.window_ms THEN s.previous
  ELSE IF s # NoState /\ s.window_id + 1 = t \div p.window_ms THEN s.current ELSE 0

SlidingUntil(p, s, t) == s # NoState => s.window_id <= t \div p.window_ms

(* The formula of the script, in the time since the denial.                  *)
Wait(w, lim, cur, prev, left, c, g) ==
  Larger(1, IF prev > 0 /\ cur + c <= lim
            THEN CeilDiv((cur + c - lim) * w + prev * left + g, prev)
            ELSE left + (IF cur > 0 THEN Larger(0, CeilDiv(w * (cur + c - lim) + g, cur)) ELSE 0))

(* A double comes out exact, or a unit short.                                *)
Bit == {0, 1}

LEMMA BitIs == 0 \in Bit /\ \A g \in Bit : g \in Nat /\ (g = 0 \/ g = 1)
BY DEF Bit

(* A ceiling, or one more where a double slipped past a whole number.        *)
LEMMA WaitsOneMore ==
  ASSUME NEW x \in Int, x > 0, NEW n \in Nat \ {0}, NEW g \in Bit,
         NEW m \in Int, m = CeilDiv(x + g, n)
  PROVE  /\ m > 0
         /\ \A e \in Int : m <= e => x <= n * e
         /\ \A e \in Int : x <= n * e => m <= e + 1
<1>1. x + g \in Int /\ x + g > 0 /\ g \in Nat /\ g <= 1
  BY BitIs
<1>2. x + g <= n * m /\ (\A j \in Int : j < m => n * j < x + g) /\ m > 0
  BY <1>1, RoundUp
<1>3. ASSUME NEW e \in Int, m <= e PROVE x <= n * e
  <2>1. n * m <= n * e
    BY <1>3
  <2>2. n * m \in Int /\ n * e \in Int
    OBVIOUS
  <2> QED
    BY <1>1, <1>2, <2>1, <2>2
<1>4. ASSUME NEW e \in Int, x <= n * e PROVE m <= e + 1
  <2>1. n * (e + 1) = n * e + n
    OBVIOUS
  <2>2. n * e \in Int /\ n * (e + 1) \in Int
    OBVIOUS
  <2>3. n * (e + 1) >= x + g
    BY <1>1, <1>4, <2>1, <2>2
  <2>4. e + 1 < m => n * (e + 1) < x + g
    BY <1>2
  <2> QED
    BY <1>1, <2>2, <2>3, <2>4
<1> QED
  BY <1>2, <1>3, <1>4

(* When a denied request fits: within the window of its denial, in the next  *)
(* one, and beyond; no later than the wait, and at most one ms before it.    *)
LEMMA WaitIsExact ==
  ASSUME NEW w \in Nat \ {0}, NEW lim \in Nat \ {0}, NEW cur \in Nat, NEW prev \in Nat,
         NEW left \in 1 .. w, NEW c \in Nat, c <= lim, NEW g \in Bit,
         cur * w + prev * left + c * w > lim * w
  PROVE  LET k == Wait(w, lim, cur, prev, left, c, g)
         IN  /\ k \in Nat
             /\ \A e \in Nat :
                  /\ e < left =>
                       /\ k <= e => cur * w + prev * (left - e) + c * w <= lim * w
                       /\ cur * w + prev * (left - e) + c * w <= lim * w => k <= e + 1
                  /\ left <= e /\ e < left + w =>
                       /\ k <= e => cur * (w + left - e) + c * w <= lim * w
                       /\ cur * (w + left - e) + c * w <= lim * w => k <= e + 1
                  /\ left + w <= e => k <= e + 1
<1> DEFINE k == Wait(w, lim, cur, prev, left, c, g)
<1>1. CASE prev > 0 /\ cur + c <= lim
  <2> DEFINE x == (cur + c - lim) * w + prev * left
  <2>1. x \in Int /\ x > 0 /\ x <= prev * left
    <3>1. (cur + c - lim) * w = cur * w + c * w - lim * w
      OBVIOUS
    <3>2. (cur + c - lim) * w <= 0
      BY <1>1
    <3>3. (cur + c - lim) * w \in Int /\ prev * left \in Int
      OBVIOUS
    <3>4. cur * w \in Int /\ c * w \in Int /\ lim * w \in Int
      OBVIOUS
    <3> QED
      BY <3>1, <3>2, <3>3, <3>4
  <2>2. PICK m \in Int : m = CeilDiv(x + g, prev)
    <3> HIDE DEF x
    <3>1. x + g \in Int
      BY <2>1, BitIs
    <3> QED
      BY <1>1, <3>1, RoundUp
  <2>3. /\ m > 0
        /\ \A e \in Int : m <= e => x <= prev * e
        /\ \A e \in Int : x <= prev * e => m <= e + 1
    <3> HIDE DEF x
    <3>1. prev \in Nat \ {0}
      BY <1>1
    <3> QED
      BY <2>1, <2>2, <3>1, WaitsOneMore
  <2>4. k = m
    BY <1>1, <2>2, <2>3 DEF Wait, Larger
  <2>5. m <= left + 1
    BY <2>1, <2>3
  <2>6. ASSUME NEW e \in Nat
        PROVE  cur * w + prev * (left - e) + c * w <= lim * w <=> x <= prev * e
    <3>1. prev * (left - e) = prev * left - prev * e
      OBVIOUS
    <3>2. (cur + c - lim) * w = cur * w + c * w - lim * w
      OBVIOUS
    <3>3. /\ cur * w \in Int /\ c * w \in Int /\ lim * w \in Int
          /\ prev * left \in Int /\ prev * e \in Int
      OBVIOUS
    <3> QED
      BY <3>1, <3>2, <3>3
  <2>7. ASSUME NEW e \in Nat, left <= e
        PROVE  cur * (w + left - e) + c * w <= lim * w
    <3>1. cur * (w + left - e) <= cur * w
      BY <2>7
    <3>2. cur * w + c * w <= lim * w
      BY <1>1
    <3>3. /\ cur * w \in Int /\ c * w \in Int /\ lim * w \in Int
          /\ cur * (w + left - e) \in Int
      OBVIOUS
    <3> QED
      BY <3>1, <3>2, <3>3
  <2> HIDE DEF k, x
  <2>8. k \in Nat /\ \A e \in Nat : (left <= e \/ left + w <= e) => k <= e + 1
    BY <2>3, <2>4, <2>5
  <2>9. ASSUME NEW e \in Nat
        PROVE  /\ e < left =>
                    /\ k <= e => cur * w + prev * (left - e) + c * w <= lim * w
                    /\ cur * w + prev * (left - e) + c * w <= lim * w => k <= e + 1
               /\ left <= e /\ e < left + w =>
                    /\ k <= e => cur * (w + left - e) + c * w <= lim * w
                    /\ cur * (w + left - e) + c * w <= lim * w => k <= e + 1
               /\ left + w <= e => k <= e + 1
    <3>1. (k <= e => x <= prev * e) /\ (x <= prev * e => k <= e + 1)
      <4>1. e \in Int
        OBVIOUS
      <4> QED
        BY <2>3, <2>4, <4>1, Zenon
    <3> QED
      BY <2>6, <2>7, <2>8, <3>1, Zenon
  <2> QED
    BY <2>8, <2>9, Zenon DEF k
<1>2. CASE ~(prev > 0 /\ cur + c <= lim)
  <2> DEFINE y == w * (cur + c - lim)
  <2>1. cur + c > lim
    <3>1. prev = 0 => prev * left = 0
      OBVIOUS
    <3>2. cur + c <= lim => cur * w + c * w <= lim * w
      OBVIOUS
    <3>3. cur * w \in Int /\ c * w \in Int /\ lim * w \in Int
      OBVIOUS
    <3> QED
      BY <1>2, <3>1, <3>2, <3>3
  <2>2. cur > 0 /\ y \in Int /\ y > 0 /\ y <= cur * w
    BY <2>1
  <2>3. PICK m \in Int : m = CeilDiv(y + g, cur)
    <3> HIDE DEF y
    <3>1. y + g \in Int
      BY <2>2, BitIs
    <3> QED
      BY <2>2, <3>1, RoundUp
  <2>4. /\ m > 0
        /\ \A e \in Int : m <= e => y <= cur * e
        /\ \A e \in Int : y <= cur * e => m <= e + 1
    <3> HIDE DEF y
    <3>1. cur \in Nat \ {0}
      BY <2>2
    <3> QED
      BY <2>2, <2>3, <3>1, WaitsOneMore
  <2>5. k = left + m
    BY <1>2, <2>2, <2>3, <2>4 DEF Wait, Larger
  <2>6. m <= w + 1
    BY <2>2, <2>4
  <2>7. ASSUME NEW e \in Nat, e < left
        PROVE  ~(cur * w + prev * (left - e) + c * w <= lim * w)
    <3>1. prev * (left - e) >= 0
      BY <2>7
    <3>2. cur * w + c * w > lim * w
      BY <2>1
    <3>3. /\ cur * w \in Int /\ c * w \in Int /\ lim * w \in Int
          /\ prev * (left - e) \in Int
      OBVIOUS
    <3> QED
      BY <3>1, <3>2, <3>3
  <2>8. ASSUME NEW e \in Nat
        PROVE  cur * (w + left - e) + c * w <= lim * w <=> y <= cur * (e - left)
    <3>1. cur * (w + left - e) = cur * w - cur * (e - left)
      OBVIOUS
    <3>2. w * (cur + c - lim) = cur * w + c * w - lim * w
      OBVIOUS
    <3>3. /\ cur * w \in Int /\ c * w \in Int /\ lim * w \in Int
          /\ cur * (e - left) \in Int
      OBVIOUS
    <3> QED
      BY <3>1, <3>2, <3>3
  <2> HIDE DEF k, y
  <2>9. ASSUME NEW e \in Nat
        PROVE  /\ e < left =>
                    /\ k <= e => cur * w + prev * (left - e) + c * w <= lim * w
                    /\ cur * w + prev * (left - e) + c * w <= lim * w => k <= e + 1
               /\ left <= e /\ e < left + w =>
                    /\ k <= e => cur * (w + left - e) + c * w <= lim * w
                    /\ cur * (w + left - e) + c * w <= lim * w => k <= e + 1
               /\ left + w <= e => k <= e + 1
    <3>1. e - left \in Int
      OBVIOUS
    <3>2. (m <= e - left => y <= cur * (e - left)) /\ (y <= cur * (e - left) => m <= e - left + 1)
      BY <2>4, <3>1, Zenon
    <3>3. /\ k <= e <=> m <= e - left
          /\ m <= e - left + 1 <=> k <= e + 1
      BY <2>5
    <3>4. m > 0
      BY <2>4
    <3>5. /\ left + w <= e => k <= e + 1
          /\ e < left => ~(k <= e)
      BY <2>5, <2>6, <3>4
    <3> QED
      BY <2>7, <2>8, <3>2, <3>3, <3>5, Zenon
  <2>10. k \in Nat
    BY <2>4, <2>5
  <2> QED
    BY <2>9, <2>10, Zenon DEF k
<1> QED
  BY <1>1, <1>2

(* What a call answers and leaves, in the counts of the two windows.          *)
SlidingAnswer(p, s, t, c, g) ==
  LET cur  == SlidingCurrent(p, s, t)
      prev == SlidingPrevious(p, s, t)
      left == p.window_ms - (t % p.window_ms)
      r    == SlidingWindowScript(p, s, t, c, g)
  IN  /\ cur \in Nat /\ prev \in Nat /\ left \in 1 .. p.window_ms
      /\ r.allowed = (cur * p.window_ms + prev * left + c * p.window_ms
                        <= p.limit * p.window_ms)
      /\ r.retry = IF r.allowed THEN 0
                   ELSE Wait(p.window_ms, p.limit, cur, prev, left, c, g)
      /\ r.ttl = 2 * p.window_ms + 1
      /\ r.state = [window_id |-> t \div p.window_ms,
                    current |-> IF r.allowed THEN cur + c ELSE cur,
                    previous |-> prev]
      /\ r.state \in SlidingHash

LEMMA SlidingIs ==
  ASSUME NEW p \in WindowPolicy, NEW s \in {NoState} \union SlidingHash, NEW t \in Nat,
         SlidingUntil(p, s, t), NEW c \in Nat, NEW g \in Bit
  PROVE  SlidingAnswer(p, s, t, c, g)
<1> DEFINE w    == p.window_ms
           cur  == SlidingCurrent(p, s, t)
           prev == SlidingPrevious(p, s, t)
           left == w - (t % w)
           r    == SlidingWindowScript(p, s, t, c, g)
           a    == [window_id |-> t \div w, current |-> cur, previous |-> prev]
<1>1. /\ w \in Nat \ {0} /\ p.limit \in Nat \ {0}
      /\ s # NoState => /\ s.window_id \in Nat /\ s.current \in Nat /\ s.previous \in Nat
                        /\ s = [window_id |-> s.window_id, current |-> s.current,
                                previous |-> s.previous]
  BY DEF WindowPolicy, SlidingHash
<1>2. t \div w \in Nat /\ t % w \in 0 .. w - 1
  <2>1. t \in Int
    OBVIOUS
  <2> HIDE DEF w
  <2> QED
    BY <1>1, <2>1, Division
<1>3. cur \in Nat /\ prev \in Nat
  BY <1>1 DEF SlidingCurrent, SlidingPrevious
<1>4. left \in 1 .. w
  <2> HIDE DEF w
  <2> QED
    BY <1>1, <1>2
<1>5. Advance(p, s, t) = a
  <2>1. CASE s = NoState
    BY <2>1 DEF Advance, SlidingCurrent, SlidingPrevious
  <2>2. CASE s # NoState /\ s.window_id = t \div w
    <3>1. cur = s.current /\ prev = s.previous
      BY <2>2 DEF SlidingCurrent, SlidingPrevious
    <3> QED
      BY <1>1, <1>2, <2>2, <3>1 DEF Advance
  <2>3. CASE s # NoState /\ s.window_id < t \div w
    BY <1>1, <1>2, <2>3 DEF Advance, SlidingCurrent, SlidingPrevious
  <2> QED
    BY <1>1, <1>2, <2>1, <2>2, <2>3 DEF SlidingUntil
<1>6. Left(p, a, t) = left
  BY <1>2 DEF Left
<1>7. /\ r.allowed = (cur * w + prev * left + c * w <= p.limit * w)
      /\ r.ttl = 2 * w + 1
      /\ r.retry = IF r.allowed THEN 0 ELSE SlidingRetry(p, a, t, c, g)
      /\ r.state = IF r.allowed THEN [a EXCEPT !.current = @ + c] ELSE a
  <2>1. a.current = cur /\ a.previous = prev
    OBVIOUS
  <2> HIDE DEF cur, prev, left, a
  <2> QED
    BY <1>5, <1>6, <2>1, Zenon DEF SlidingWindowScript, SlidingFits, SlidingLifetime
<1>8. SlidingRetry(p, a, t, c, g) = Wait(w, p.limit, cur, prev, left, c, g)
  <2> HIDE DEF cur, prev, left
  <2> QED
    BY <1>6 DEF SlidingRetry, Wait
<1>9. r.state = [window_id |-> t \div w, current |-> IF r.allowed THEN cur + c ELSE cur,
                 previous |-> prev]
  <2> HIDE DEF cur, prev, r
  <2> QED
    BY <1>7
<1>10. r.state \in SlidingHash
  <2> HIDE DEF cur, prev, r
  <2> QED
    BY <1>2, <1>3, <1>9 DEF SlidingHash
<1> QED
  BY <1>3, <1>4, <1>7, <1>8, <1>9, <1>10 DEF SlidingAnswer

LEMMA SlidingAllows ==
  ASSUME NEW p \in WindowPolicy, NEW s \in {NoState} \union SlidingHash, NEW t \in Nat,
         SlidingUntil(p, s, t), NEW c \in Nat, NEW g \in Bit
  PROVE  SlidingWindowScript(p, s, t, c, g).allowed =
           (SlidingCurrent(p, s, t) * p.window_ms
              + SlidingPrevious(p, s, t) * (p.window_ms - (t % p.window_ms))
              + c * p.window_ms <= p.limit * p.window_ms)
<1>1. SlidingAnswer(p, s, t, c, g)
  BY SlidingIs
<1> QED
  BY <1>1, Zenon DEF SlidingAnswer

(* What is admitted keeps the weighted sum of the two counts within the      *)
(* limit.                                                                    *)
LEMMA SlidingWithin ==
  ASSUME NEW p \in WindowPolicy, NEW s \in {NoState} \union SlidingHash, NEW t \in Nat,
         SlidingUntil(p, s, t), NEW c \in Nat, NEW g \in Bit, SlidingWindowScript(p, s, t, c, g).allowed,
         NEW w, w = p.window_ms, NEW cur, cur = SlidingCurrent(p, s, t),
         NEW prev, prev = SlidingPrevious(p, s, t), NEW left, left = w - (t % w)
  PROVE  (cur + c) * w + prev * left <= p.limit * w
<1>1. w \in Nat \ {0} /\ p.limit \in Nat
  BY DEF WindowPolicy
<1>2. cur \in Nat /\ prev \in Nat /\ left \in 1 .. w
  <2>1. SlidingAnswer(p, s, t, c, g)
    BY SlidingIs
  <2> QED
    BY <2>1 DEF SlidingAnswer
<1>3. SlidingWindowScript(p, s, t, c, g).allowed
        = (cur * w + prev * left + c * w <= p.limit * w)
  BY SlidingAllows
<1>4. cur * w + prev * left + c * w <= p.limit * w
  BY <1>3
<1>5. (cur + c) * w = cur * w + c * w
  BY <1>1, <1>2
<1>6. cur * w \in Int /\ c * w \in Int /\ prev * left \in Int
  BY <1>1, <1>2
<1> QED
  BY <1>4, <1>5, <1>6

(* A call adds what it admits to the current count.                          *)
LEMMA SlidingAdds ==
  ASSUME NEW p \in WindowPolicy, NEW s \in {NoState} \union SlidingHash, NEW t \in Nat,
         SlidingUntil(p, s, t), NEW c \in Nat, NEW g \in Bit, NEW added,
         added = IF SlidingWindowScript(p, s, t, c, g).allowed THEN c ELSE 0
  PROVE  /\ SlidingCurrent(p, s, t) \in Nat /\ SlidingPrevious(p, s, t) \in Nat
         /\ SlidingCurrent(p, SlidingWindowScript(p, s, t, c, g).state, t)
              = SlidingCurrent(p, s, t) + added
         /\ SlidingPrevious(p, SlidingWindowScript(p, s, t, c, g).state, t)
              = SlidingPrevious(p, s, t)
<1>1. PICK cur : cur = SlidingCurrent(p, s, t)
  OBVIOUS
<1>2. PICK prev : prev = SlidingPrevious(p, s, t)
  OBVIOUS
<1>3. PICK r : r = SlidingWindowScript(p, s, t, c, g)
  OBVIOUS
<1>4. /\ cur \in Nat /\ prev \in Nat
      /\ r.state = [window_id |-> t \div p.window_ms,
                    current |-> IF r.allowed THEN cur + c ELSE cur, previous |-> prev]
      /\ r.state \in SlidingHash
  <2>1. SlidingAnswer(p, s, t, c, g)
    BY SlidingIs
  <2> QED
    BY <1>1, <1>2, <1>3, <2>1 DEF SlidingAnswer
<1>5. r.state # NoState /\ r.state.window_id = t \div p.window_ms
      /\ r.state.current = cur + added /\ r.state.previous = prev
  BY <1>3, <1>4, SlidingAssumption
<1>6. SlidingCurrent(p, r.state, t) = cur + added /\ SlidingPrevious(p, r.state, t) = prev
  BY <1>5 DEF SlidingCurrent, SlidingPrevious
<1> QED
  BY <1>1, <1>2, <1>3, <1>4, <1>6

(* Whatever the clock says, the counters stay or move on to its window.      *)
LEMMA SlidingMoves ==
  ASSUME NEW p \in WindowPolicy, NEW s \in {NoState} \union SlidingHash, NEW t \in Nat,
         NEW c \in Nat, NEW g \in Bit
  PROVE  /\ SlidingWindowScript(p, s, t, c, g).state \in SlidingHash
         /\ SlidingWindowScript(p, s, t, c, g).ttl = 2 * p.window_ms + 1
         /\ SlidingWindowScript(p, s, t, c, g).state.window_id
              = IF s # NoState /\ t \div p.window_ms < s.window_id
                THEN s.window_id ELSE t \div p.window_ms
<1>1. PICK a : a = Advance(p, s, t)
  OBVIOUS
<1>2. PICK k \in Nat : k = t \div p.window_ms
  <2>1. t \in Int /\ p.window_ms \in Nat \ {0}
    BY DEF WindowPolicy
  <2> QED
    BY <2>1, Division
<1>3. a \in SlidingHash /\ a.window_id = IF s # NoState /\ k < s.window_id THEN s.window_id ELSE k
  BY <1>1, <1>2 DEF Advance, SlidingHash
<1>4. PICK r : r = SlidingWindowScript(p, s, t, c, g)
  OBVIOUS
<1>5. r.state \in {a, [a EXCEPT !.current = @ + c]} /\ r.ttl = 2 * p.window_ms + 1
  BY <1>1, <1>4, Zenon DEF SlidingWindowScript, SlidingLifetime
<1>6. r.state \in SlidingHash /\ r.state.window_id = a.window_id
  BY <1>3, <1>5 DEF SlidingHash
<1> QED
  BY <1>2, <1>3, <1>4, <1>5, <1>6

(* The answer depends on the two counts only.                                *)
LEMMA SlidingSame ==
  ASSUME NEW p \in WindowPolicy, NEW t \in Nat, NEW c \in Nat, NEW g \in Bit,
         NEW s \in {NoState} \union SlidingHash, SlidingUntil(p, s, t),
         NEW z \in {NoState} \union SlidingHash, SlidingUntil(p, z, t),
         SlidingCurrent(p, s, t) = SlidingCurrent(p, z, t),
         SlidingPrevious(p, s, t) = SlidingPrevious(p, z, t)
  PROVE  SlidingWindowScript(p, s, t, c, g) = SlidingWindowScript(p, z, t, c, g)
<1>1. ASSUME NEW x \in {NoState} \union SlidingHash, SlidingUntil(p, x, t)
      PROVE  Advance(p, x, t) = [ window_id |-> t \div p.window_ms,
                                  current |-> SlidingCurrent(p, x, t),
                                  previous |-> SlidingPrevious(p, x, t) ]
  <2>1. /\ p.window_ms \in Nat \ {0}
        /\ x # NoState => /\ x.window_id \in Nat
                          /\ x = [window_id |-> x.window_id, current |-> x.current,
                                  previous |-> x.previous]
    BY DEF WindowPolicy, SlidingHash
  <2>2. t \div p.window_ms \in Nat
    BY <2>1, Division
  <2>3. CASE x # NoState /\ x.window_id = t \div p.window_ms
    <3>1. SlidingCurrent(p, x, t) = x.current /\ SlidingPrevious(p, x, t) = x.previous
      BY <2>3 DEF SlidingCurrent, SlidingPrevious
    <3> QED
      BY <2>1, <2>2, <2>3, <3>1 DEF Advance
  <2>4. CASE x # NoState /\ x.window_id < t \div p.window_ms
    BY <2>1, <2>2, <2>4 DEF Advance, SlidingCurrent, SlidingPrevious
  <2>5. CASE x = NoState
    BY <2>5 DEF Advance, SlidingCurrent, SlidingPrevious
  <2> QED
    BY <1>1, <2>1, <2>2, <2>3, <2>4, <2>5 DEF SlidingUntil
<1>2. Advance(p, s, t) = Advance(p, z, t)
  BY <1>1
<1> QED
  BY <1>2 DEF SlidingWindowScript

LEMMA SlidingKeeps ==
  ASSUME NEW p \in WindowPolicy, NEW s \in {NoState} \union SlidingHash,
         NEW n \in Nat, SlidingUntil(p, s, n), NEW t \in Nat, n <= t,
         NEW c \in Nat, c <= p.limit, NEW d \in Nat, d <= p.limit,
         NEW g \in Bit, NEW h \in Bit
  PROVE  LET r == SlidingWindowScript(p, s, n, c, g)
             z == SlidingWindowScript(p, r.state, t, d, h)
         IN  /\ r.state \in SlidingHash /\ SlidingUntil(p, r.state, n)
             /\ r.ttl \in Nat /\ r.retry \in Nat
             /\ t > n + r.ttl => z = SlidingWindowScript(p, NoState, t, d, h)
             /\ ~r.allowed => z = SlidingWindowScript(p, s, t, d, h)
             /\ ~r.allowed /\ c = d => /\ n + r.retry <= t => z.allowed
                                       /\ z.allowed => n + r.retry <= t + 1
<1> DEFINE w    == p.window_ms
           r    == SlidingWindowScript(p, s, n, c, g)
           z    == SlidingWindowScript(p, r.state, t, d, h)
           cur  == SlidingCurrent(p, s, n)
           prev == SlidingPrevious(p, s, n)
           left == w - (n % w)
           k    == Wait(w, p.limit, cur, prev, left, c, g)
<1>1. w \in Nat \ {0} /\ p.limit \in Nat \ {0}
  BY DEF WindowPolicy
<1>2. /\ r.state \in SlidingHash /\ cur \in Nat /\ prev \in Nat /\ left \in 1 .. w
      /\ r.state = [window_id |-> n \div w, current |-> IF r.allowed THEN cur + c ELSE cur,
                    previous |-> prev]
      /\ r.allowed = (cur * w + prev * left + c * w <= p.limit * w)
      /\ r.retry = IF r.allowed THEN 0 ELSE k
      /\ r.ttl = 2 * w + 1
  <2>1. SlidingAnswer(p, s, n, c, g)
    BY SlidingIs
  <2> QED
    BY <2>1, Zenon DEF SlidingAnswer
<1>3. /\ n \div w \in Nat /\ t \div w \in Nat /\ n \div w <= t \div w
      /\ n % w \in 0 .. w - 1 /\ t % w \in 0 .. w - 1
      /\ t < n + w - (n % w) <=> t \div w = n \div w
      /\ t < n + 2 * w - (n % w) <=> t \div w <= n \div w + 1
      /\ t \div w = n \div w => t % w = (n % w) + t - n
      /\ t \div w = n \div w + 1 => t % w = (n % w) + t - n - w
  BY <1>1, LaterWindow
<1>4. ~r.allowed => cur * w + prev * left + c * w > p.limit * w
  <2>1. PICK x \in Int : x = cur * w + prev * left + c * w
    BY <1>1, <1>2
  <2>2. PICK y \in Int : y = p.limit * w
    BY <1>1
  <2> HIDE DEF r, cur, prev, left
  <2>3. r.allowed = (x <= y)
    BY <1>2, <2>1, <2>2
  <2>4. ~r.allowed => x > y
    <3>1. ~(x <= y) => x > y
      BY <2>1, <2>2
    <3> QED
      BY <2>3, <3>1, Zenon
  <2> QED
    BY <2>1, <2>2, <2>4
<1>5. SlidingUntil(p, r.state, n) /\ SlidingUntil(p, r.state, t) /\ r.ttl \in Nat
  BY <1>1, <1>2, <1>3 DEF SlidingUntil
<1>6. SlidingUntil(p, NoState, t)
  BY DEF SlidingUntil
<1>7. /\ t \div w = n \div w =>
           /\ SlidingCurrent(p, r.state, t) = IF r.allowed THEN cur + c ELSE cur
           /\ SlidingPrevious(p, r.state, t) = prev
      /\ t \div w = n \div w + 1 =>
           /\ SlidingCurrent(p, r.state, t) = 0
           /\ SlidingPrevious(p, r.state, t) = IF r.allowed THEN cur + c ELSE cur
      /\ t \div w > n \div w + 1 =>
           SlidingCurrent(p, r.state, t) = 0 /\ SlidingPrevious(p, r.state, t) = 0
  <2>1. PICK q \in SlidingHash : q = r.state
    BY <1>2
  <2>2. /\ q # NoState /\ q.window_id = n \div w /\ q.previous = prev
        /\ q.current = IF r.allowed THEN cur + c ELSE cur
    BY <1>2, <2>1, SlidingAssumption
  <2> HIDE DEF r, cur, prev
  <2> QED
    BY <1>3, <2>1, <2>2 DEF SlidingCurrent, SlidingPrevious
<1>8. t > n + r.ttl => z = SlidingWindowScript(p, NoState, t, d, h)
  <2>1. t > n + r.ttl => t \div w > n \div w + 1
    BY <1>1, <1>2, <1>3
  <2>2. SlidingCurrent(p, NoState, t) = 0 /\ SlidingPrevious(p, NoState, t) = 0
    BY DEF SlidingCurrent, SlidingPrevious
  <2> HIDE DEF r
  <2> QED
    BY <1>2, <1>5, <1>6, <1>7, <2>1, <2>2, SlidingSame
<1>9. ~r.allowed => z = SlidingWindowScript(p, s, t, d, h)
  <2>1. SlidingUntil(p, s, t) /\ (s # NoState => s.window_id \in Nat /\ s.window_id <= n \div w)
    BY <1>1, <1>3 DEF SlidingUntil, SlidingHash
  <2>2. CASE ~r.allowed /\ t \div w = n \div w
    <3>1. SlidingCurrent(p, s, t) = cur /\ SlidingPrevious(p, s, t) = prev
      BY <2>2 DEF SlidingCurrent, SlidingPrevious
    <3> HIDE DEF r, cur, prev
    <3> QED
      BY <1>2, <1>5, <1>7, <2>1, <2>2, <3>1, SlidingSame
  <2>3. CASE ~r.allowed /\ t \div w = n \div w + 1
    <3>1. SlidingCurrent(p, s, t) = 0 /\ SlidingPrevious(p, s, t) = cur
      BY <1>3, <2>1, <2>3 DEF SlidingCurrent, SlidingPrevious
    <3> HIDE DEF r, cur, prev
    <3> QED
      BY <1>2, <1>5, <1>7, <2>1, <2>3, <3>1, SlidingSame
  <2>4. CASE ~r.allowed /\ t \div w > n \div w + 1
    <3>1. SlidingCurrent(p, s, t) = 0 /\ SlidingPrevious(p, s, t) = 0
      BY <1>3, <2>1, <2>4 DEF SlidingCurrent, SlidingPrevious
    <3> HIDE DEF r, cur, prev
    <3> QED
      BY <1>2, <1>5, <1>7, <2>1, <2>4, <3>1, SlidingSame
  <2> QED
    BY <1>3, <2>2, <2>3, <2>4
<1>10. ASSUME ~r.allowed, c = d
       PROVE  /\ r.retry \in Nat
              /\ n + r.retry <= t => z.allowed
              /\ z.allowed => n + r.retry <= t + 1
  <2> DEFINE e == t - n
  <2>1. PICK q \in {NoState} \union SlidingHash : q = r.state
    BY <1>2
  <2>2. SlidingUntil(p, q, t) /\ z = SlidingWindowScript(p, q, t, d, h)
    BY <1>5, <2>1
  <2>3. z.allowed = (SlidingCurrent(p, q, t) * w + SlidingPrevious(p, q, t) * (w - (t % w))
                       + d * w <= p.limit * w)
    <3>1. SlidingWindowScript(p, q, t, d, h).allowed =
            (SlidingCurrent(p, q, t) * w + SlidingPrevious(p, q, t) * (w - (t % w))
               + d * w <= p.limit * w)
      BY <2>2, SlidingAllows
    <3> QED
      BY <2>2, <3>1
  <2> HIDE DEF r, z, w
  <2>4. /\ k \in Nat /\ e \in Nat
        /\ e < left =>
             /\ k <= e => cur * w + prev * (left - e) + c * w <= p.limit * w
             /\ cur * w + prev * (left - e) + c * w <= p.limit * w => k <= e + 1
        /\ left <= e /\ e < left + w =>
             /\ k <= e => cur * (w + left - e) + c * w <= p.limit * w
             /\ cur * (w + left - e) + c * w <= p.limit * w => k <= e + 1
        /\ left + w <= e => k <= e + 1
    <3>1. e \in Nat
      OBVIOUS
    <3> HIDE DEF cur, prev, left, e
    <3> QED
      BY <1>1, <1>2, <1>4, <1>10, <3>1, WaitIsExact
  <2>5. r.retry = k /\ (n + k <= t <=> k <= e) /\ (n + k <= t + 1 <=> k <= e + 1)
    BY <1>2, <1>10, <2>4
  <2> HIDE DEF k, cur, prev
  <2>6. CASE t \div w = n \div w
    <3>1. e < left /\ w - (t % w) = left - e
      <4>1. PICK i \in 0 .. w - 1 : i = n % w
        BY <1>3
      <4>2. t < n + w - i /\ t % w = i + t - n
        BY <1>3, <2>6, <4>1
      <4>3. t - n < w - i /\ w - (i + t - n) = w - i - (t - n)
        BY <1>1, <4>2
      <4> QED
        BY <4>1, <4>2, <4>3
    <3>2. z.allowed = (cur * w + prev * (left - e) + c * w <= p.limit * w)
      BY <1>7, <1>10, <2>1, <2>3, <2>6, <3>1
    <3> HIDE DEF left, e
    <3> QED
      BY <2>4, <2>5, <3>1, <3>2
  <2>7. CASE t \div w = n \div w + 1
    <3>1. left <= e /\ e < left + w /\ w - (t % w) = w + left - e
      BY <1>1, <1>3, <2>7
    <3>2. z.allowed = (0 * w + cur * (w + left - e) + c * w <= p.limit * w)
      BY <1>7, <1>10, <2>1, <2>3, <2>7, <3>1
    <3>3. 0 * w = 0 /\ cur * (w + left - e) \in Int
      BY <1>1, <1>2
    <3> HIDE DEF left, e
    <3>4. 0 * w + cur * (w + left - e) = cur * (w + left - e)
      BY <3>3
    <3> QED
      BY <2>4, <2>5, <3>1, <3>2, <3>4
  <2>8. CASE t \div w > n \div w + 1
    <3>1. left + w <= e
      BY <1>1, <1>3, <2>8
    <3>2. 0 * w + 0 * (w - (t % w)) + d * w <= p.limit * w
      BY <1>1, <1>3
    <3>3. z.allowed
      BY <1>7, <2>1, <2>3, <2>8, <3>2
    <3> QED
      BY <2>4, <2>5, <3>1, <3>3
  <2> QED
    BY <1>3, <2>4, <2>5, <2>6, <2>7, <2>8
<1>11. r.retry \in Nat
  <2>1. ~r.allowed => k \in Nat
    <3> HIDE DEF cur, prev, left, r
    <3> QED
      BY <1>1, <1>2, <1>4, WaitIsExact
  <2> QED
    BY <1>2, <2>1
<1> HIDE DEF r, z
<1> QED
  BY <1>2, <1>5, <1>8, <1>9, <1>10, <1>11 DEF r, z

------------------------------------------------------------------------------
(* Token bucket *)

BucketUntil(p, s, t) == s # NoState => s.updated_at <= t

LEMMA RefillIs ==
  ASSUME NEW p \in BucketPolicy, NEW s \in {NoState} \union BucketHash, NEW t \in Nat,
         BucketUntil(p, s, t), NEW g \in Bit
  PROVE  /\ p.limit * p.rate_den \in Nat
         /\ Refill(p, s, t, g) \in 0 .. p.limit * p.rate_den
         /\ s = NoState => Refill(p, s, t, g) = p.limit * p.rate_den
         /\ s # NoState => Refill(p, s, t, g) = Smaller(p.limit * p.rate_den,
                             Larger(0, (s.tokens + (t - s.updated_at) * p.rate_num) - g))
<1>1. /\ p.limit \in Nat /\ p.rate_num \in Nat /\ p.rate_den \in Nat
      /\ s # NoState => s.tokens \in Nat /\ s.updated_at \in Nat /\ s.updated_at <= t
  BY DEF BucketPolicy, BucketHash, BucketUntil
<1>2. p.limit * p.rate_den \in Nat
  BY <1>1
<1>3. CASE s = NoState
  BY <1>2, <1>3 DEF Refill
<1>4. CASE s # NoState
  <2>1. Larger(0, t - s.updated_at) = t - s.updated_at
    BY <1>1, <1>4 DEF Larger
  <2>2. (t - s.updated_at) * p.rate_num \in Nat
    <3>1. t - s.updated_at \in Nat
      BY <1>1, <1>4
    <3> QED
      BY <1>1, <3>1
  <2>3. (s.tokens + (t - s.updated_at) * p.rate_num) - g \in Int
    BY <1>1, <1>4, <2>2, BitIs
  <2>4. Refill(p, s, t, g) = Smaller(p.limit * p.rate_den,
                             Larger(0, (s.tokens + (t - s.updated_at) * p.rate_num) - g))
    BY <1>4, <2>1 DEF Refill
  <2>5. \A a \in Nat, k \in Int : Smaller(a, Larger(0, k)) \in 0 .. a
    BY DEF Smaller, Larger
  <2> QED
    BY <1>2, <1>4, <2>3, <2>4, <2>5
<1> QED
  BY <1>3, <1>4

(* What a call computes is the exact number of tokens or one unit less.      *)
LEMMA RefillSlips ==
  ASSUME NEW p \in BucketPolicy, NEW s \in {NoState} \union BucketHash, NEW t \in Nat,
         BucketUntil(p, s, t), NEW g \in Bit
  PROVE  /\ Refill(p, s, t, g) <= Refill(p, s, t, 0)
         /\ Refill(p, s, t, 0) <= Refill(p, s, t, g) + g
<1>1. PICK cap \in Nat : cap = p.limit * p.rate_den
  BY RefillIs
<1>2. CASE s = NoState
  BY <1>1, <1>2, RefillIs, BitIs
<1>3. CASE s # NoState
  <2>1. PICK k \in Nat : k = s.tokens + (t - s.updated_at) * p.rate_num
    <3>1. /\ p.rate_num \in Nat /\ s.tokens \in Nat /\ s.updated_at \in Nat
          /\ t - s.updated_at \in Nat
      BY <1>3 DEF BucketPolicy, BucketHash, BucketUntil
    <3>2. (t - s.updated_at) * p.rate_num \in Nat
      BY <3>1
    <3> QED
      BY <3>1, <3>2
  <2>2. /\ Refill(p, s, t, g) = Smaller(cap, Larger(0, k - g))
        /\ Refill(p, s, t, 0) = Smaller(cap, Larger(0, k - 0))
    <3>1. 0 \in Bit
      BY BitIs
    <3>2. \A l \in Bit :
            Refill(p, s, t, l) = Smaller(p.limit * p.rate_den,
              Larger(0, (s.tokens + (t - s.updated_at) * p.rate_num) - l))
      BY <1>3, RefillIs, Zenon
    <3> QED
      BY <1>1, <2>1, <3>1, <3>2, BitIs
  <2> QED
    BY <1>1, <2>1, <2>2, BitIs DEF Smaller, Larger
<1> QED
  BY <1>2, <1>3

(* What a call answers and leaves, in tokens.                                *)
BucketAnswer(p, s, t, c, g) ==
  LET x == Refill(p, s, t, 0)
      u == Refill(p, s, t, g)
      r == TokenBucketScript(p, s, t, c, g)
  IN  /\ r.allowed = (u >= c * p.rate_den)
      /\ r.retry = IF r.allowed THEN 0 ELSE BucketRetry(p, c * p.rate_den - u)
      /\ r.ttl = BucketLifetime(p)
      /\ r.state = [tokens |-> IF r.allowed THEN x - c * p.rate_den ELSE x,
                    updated_at |-> t]
      /\ r.state \in BucketHash

LEMMA BucketIs ==
  ASSUME NEW p \in BucketPolicy, NEW s \in {NoState} \union BucketHash, NEW t \in Nat,
         BucketUntil(p, s, t), NEW c \in Nat, NEW g \in Bit
  PROVE  BucketAnswer(p, s, t, c, g)
<1> DEFINE x == Refill(p, s, t, 0)
           u == Refill(p, s, t, g)
           r == TokenBucketScript(p, s, t, c, g)
           m == c * p.rate_den
<1>1. x \in Nat /\ u \in Nat /\ u <= x /\ m \in Nat
  <2>1. x \in Nat /\ u \in Nat /\ u <= x
    BY RefillIs, RefillSlips, BitIs
  <2>2. p.rate_den \in Nat
    BY DEF BucketPolicy
  <2> QED
    BY <2>1, <2>2
<1>2. (IF s = NoState THEN t ELSE Larger(t, s.updated_at)) = t
  BY DEF Larger, BucketUntil, BucketHash
<1>3. /\ r.allowed = (u >= m)
      /\ r.retry = IF u >= m THEN 0 ELSE BucketRetry(p, m - u)
      /\ r.ttl = BucketLifetime(p)
      /\ r.state = [tokens |-> x - (IF u >= m THEN m ELSE 0), updated_at |-> t]
  <2> HIDE DEF x, u, m
  <2> QED
    BY <1>2 DEF TokenBucketScript, x, u, m
<1>4. /\ x - (IF u >= m THEN m ELSE 0) = IF u >= m THEN x - m ELSE x
      /\ (IF u >= m THEN x - m ELSE x) \in Nat
  <2> HIDE DEF x, u, m
  <2> QED
    BY <1>1
<1>5. r.state \in BucketHash
  <2> HIDE DEF x, u, m, r
  <2> QED
    BY <1>3, <1>4 DEF BucketHash
<1> HIDE DEF r, x, u, m
<1> QED
  BY <1>3, <1>4, <1>5, Zenon DEF BucketAnswer, r, x, u, m

LEMMA BucketAllows ==
  ASSUME NEW p \in BucketPolicy, NEW s \in {NoState} \union BucketHash, NEW t \in Nat,
         BucketUntil(p, s, t), NEW c \in Nat, NEW g \in Bit
  PROVE  TokenBucketScript(p, s, t, c, g).allowed = (Refill(p, s, t, g) >= c * p.rate_den)
<1>1. BucketAnswer(p, s, t, c, g)
  BY BucketIs
<1> QED
  BY <1>1, Zenon DEF BucketAnswer

LEMMA BucketLeaves ==
  ASSUME NEW p \in BucketPolicy, NEW s \in {NoState} \union BucketHash, NEW t \in Nat,
         BucketUntil(p, s, t), NEW c \in Nat, NEW g \in Bit
  PROVE  /\ TokenBucketScript(p, s, t, c, g).state =
              [ tokens |-> IF TokenBucketScript(p, s, t, c, g).allowed
                           THEN Refill(p, s, t, 0) - c * p.rate_den ELSE Refill(p, s, t, 0),
                updated_at |-> t ]
         /\ TokenBucketScript(p, s, t, c, g).state \in BucketHash
<1>1. BucketAnswer(p, s, t, c, g)
  BY BucketIs
<1> QED
  BY <1>1, Zenon DEF BucketAnswer

(* A call takes what it admits out of the bucket.                            *)
LEMMA BucketTakes ==
  ASSUME NEW p \in BucketPolicy, NEW s \in {NoState} \union BucketHash, NEW t \in Nat,
         BucketUntil(p, s, t), NEW c \in Nat, NEW g \in Bit,
         NEW taken \in Nat,
         taken = IF TokenBucketScript(p, s, t, c, g).allowed THEN c ELSE 0
  PROVE  Refill(p, TokenBucketScript(p, s, t, c, g).state, t, 0)
           = Refill(p, s, t, 0) - taken * p.rate_den
<1> DEFINE r == TokenBucketScript(p, s, t, c, g)
           x == Refill(p, s, t, 0)
           y == taken * p.rate_den
<1> HIDE DEF r, x, y
<1>1. PICK den \in Nat : den = p.rate_den
  BY DEF BucketPolicy
<1>2. PICK num \in Nat : num = p.rate_num
  BY DEF BucketPolicy
<1>3. PICK cap \in Nat : cap = p.limit * p.rate_den
  BY DEF BucketPolicy
<1>4. x \in 0 .. cap
  BY <1>3, RefillIs, BitIs DEF x
<1>5. PICK m \in Nat : m = c * den
  BY <1>1
<1>6. y \in Nat /\ y = IF r.allowed THEN m ELSE 0
  <2>1. r.allowed => taken = c
    BY DEF r
  <2>2. ~r.allowed => taken = 0
    BY DEF r
  <2> QED
    BY <1>1, <1>5, <2>1, <2>2 DEF y
<1>7. PICK u \in Nat : u = Refill(p, s, t, g) /\ u <= x
  <2>1. Refill(p, s, t, g) \in Nat
    BY <1>3, RefillIs
  <2> QED
    BY <2>1, RefillSlips DEF x
<1>8. r.allowed = (u >= m)
  <2>1. TokenBucketScript(p, s, t, c, g).allowed = (Refill(p, s, t, g) >= c * p.rate_den)
    BY BucketAllows
  <2> QED
    BY <1>1, <1>5, <1>7, <2>1, Zenon DEF r
<1>9. /\ r.state = [tokens |-> IF r.allowed THEN x - m ELSE x, updated_at |-> t]
      /\ r.state \in BucketHash
  <2>1. /\ TokenBucketScript(p, s, t, c, g).state =
             [ tokens |-> IF TokenBucketScript(p, s, t, c, g).allowed
                          THEN Refill(p, s, t, 0) - c * p.rate_den ELSE Refill(p, s, t, 0),
               updated_at |-> t ]
        /\ TokenBucketScript(p, s, t, c, g).state \in BucketHash
    BY BucketLeaves
  <2> QED
    BY <1>1, <1>5, <2>1 DEF r, x
<1>10. y <= x /\ r.state.tokens = x - y /\ r.state.updated_at = t
  <2>1. CASE r.allowed
    <3>1. u >= m
      BY <1>8, <2>1
    <3> QED
      BY <1>4, <1>5, <1>6, <1>7, <1>9, <2>1, <3>1
  <2>2. CASE ~r.allowed
    BY <1>4, <1>6, <1>9, <2>2
  <2> QED
    BY <2>1, <2>2
<1>11. Refill(p, r.state, t, 0) = x - y
  <2>1. r.state # NoState /\ BucketUntil(p, r.state, t)
    BY <1>9, <1>10, BucketAssumption DEF BucketUntil
  <2>2. Refill(p, r.state, t, 0) = Smaller(cap, Larger(0, (x - y + (t - t) * num) - 0))
    BY <1>2, <1>3, <1>9, <1>10, <2>1, RefillIs, BitIs
  <2>3. (t - t) * num = 0
    BY <1>2
  <2> QED
    BY <1>3, <1>4, <1>6, <1>10, <2>2, <2>3 DEF Smaller, Larger
<1> QED
  BY <1>11 DEF r, x, y

(* The answer depends on the tokens only.                                    *)
LEMMA BucketSame ==
  ASSUME NEW p \in BucketPolicy, NEW t \in Nat, NEW c \in Nat, NEW g \in Bit,
         NEW s \in {NoState} \union BucketHash, BucketUntil(p, s, t),
         NEW z \in {NoState} \union BucketHash, BucketUntil(p, z, t),
         Refill(p, s, t, g) = Refill(p, z, t, g), Refill(p, s, t, 0) = Refill(p, z, t, 0)
  PROVE  TokenBucketScript(p, s, t, c, g) = TokenBucketScript(p, z, t, c, g)
<1>1. /\ (IF s = NoState THEN t ELSE Larger(t, s.updated_at)) = t
      /\ (IF z = NoState THEN t ELSE Larger(t, z.updated_at)) = t
  BY DEF Larger, BucketUntil, BucketHash
<1> QED
  BY <1>1 DEF TokenBucketScript

(* A denial found a hash, and no overflow: every token counts later.         *)
LEMMA DeniedCounts ==
  ASSUME NEW p \in BucketPolicy, NEW s \in {NoState} \union BucketHash, NEW n \in Nat,
         BucketUntil(p, s, n), NEW g \in Bit, Refill(p, s, n, g) < p.limit * p.rate_den
  PROVE  /\ s # NoState
         /\ Refill(p, s, n, 0) = s.tokens + (n - s.updated_at) * p.rate_num
<1>1. s # NoState
  <2>1. s = NoState => Refill(p, s, n, g) = p.limit * p.rate_den
    BY RefillIs
  <2>2. p.limit * p.rate_den \in Nat
    BY RefillIs
  <2>3. PICK i \in Nat : i = p.limit * p.rate_den
    BY <2>2
  <2> QED
    BY <2>1, <2>3
<1>2. PICK cap \in Nat : cap = p.limit * p.rate_den
  BY RefillIs
<1>3. PICK k \in Nat : k = s.tokens + (n - s.updated_at) * p.rate_num
  <2>1. /\ p.rate_num \in Nat /\ s.tokens \in Nat /\ s.updated_at \in Nat
        /\ n - s.updated_at \in Nat
    BY <1>1 DEF BucketPolicy, BucketHash, BucketUntil
  <2>2. (n - s.updated_at) * p.rate_num \in Nat
    BY <2>1
  <2> QED
    BY <2>1, <2>2
<1>4. /\ Refill(p, s, n, g) = Smaller(cap, Larger(0, k - g))
      /\ Refill(p, s, n, 0) = Smaller(cap, Larger(0, k - 0))
  <2>1. 0 \in Bit
    BY BitIs
  <2>2. \A l \in Bit :
          Refill(p, s, n, l) = Smaller(p.limit * p.rate_den,
            Larger(0, (s.tokens + (n - s.updated_at) * p.rate_num) - l))
    BY <1>1, RefillIs, Zenon
  <2> QED
    BY <1>2, <1>3, <2>1, <2>2, BitIs
<1>5. Smaller(cap, Larger(0, k - g)) < cap => Smaller(cap, Larger(0, k - 0)) = k
  BY <1>2, <1>3, BitIs DEF Smaller, Larger
<1> QED
  BY <1>1, <1>2, <1>3, <1>4, <1>5

LEMMA BucketKeeps ==
  ASSUME NEW p \in BucketPolicy, NEW s \in {NoState} \union BucketHash,
         NEW n \in Nat, BucketUntil(p, s, n), NEW t \in Nat, n <= t,
         NEW c \in Nat, c <= p.limit, NEW d \in Nat, d <= p.limit,
         NEW g \in Bit, NEW h \in Bit
  PROVE  LET r == TokenBucketScript(p, s, n, c, g)
             z == TokenBucketScript(p, r.state, t, d, h)
         IN  /\ r.state \in BucketHash /\ BucketUntil(p, r.state, n)
             /\ r.ttl \in Nat /\ r.retry \in Nat
             /\ t > n + r.ttl => z = TokenBucketScript(p, NoState, t, d, h)
             /\ ~r.allowed => z = TokenBucketScript(p, s, t, d, h)
             /\ ~r.allowed /\ c = d => /\ n + r.retry + 1 <= t => z.allowed
                                       /\ z.allowed => n + r.retry <= t + 1
<1> DEFINE r == TokenBucketScript(p, s, n, c, g)
           z == TokenBucketScript(p, r.state, t, d, h)
           x == Refill(p, s, n, 0)
           e == t - n
<1>1. PICK num \in Nat \ {0} : num = p.rate_num
  BY DEF BucketPolicy
<1>2. PICK den \in Nat \ {0} : den = p.rate_den
  BY DEF BucketPolicy
<1>3. PICK cap \in Nat \ {0} : cap = p.limit * p.rate_den
  BY DEF BucketPolicy
<1>4. x \in 0 .. cap /\ e \in Nat
  <2>1. Refill(p, s, n, 0) \in 0 .. p.limit * p.rate_den
    BY BitIs, RefillIs
  <2> QED
    BY <1>3, <2>1
<1>5. PICK u \in 0 .. cap : u = Refill(p, s, n, g) /\ u <= x /\ x <= u + g
  BY <1>3, <1>4, RefillIs, RefillSlips
<1>6. PICK q \in {NoState} \union BucketHash : q = r.state
  BY BucketLeaves
<1>7. /\ q = [tokens |-> IF r.allowed THEN x - c * den ELSE x, updated_at |-> n]
      /\ q \in BucketHash /\ q # NoState
      /\ r.allowed = (u >= c * den)
      /\ r.ttl = BucketLifetime(p)
      /\ r.retry = IF r.allowed THEN 0 ELSE BucketRetry(p, c * den - u)
  <2>1. BucketAnswer(p, s, n, c, g)
    BY BucketIs
  <2>2. /\ r.allowed = (u >= c * den) /\ r.ttl = BucketLifetime(p)
        /\ r.retry = IF r.allowed THEN 0 ELSE BucketRetry(p, c * den - u)
        /\ r.state = [tokens |-> IF r.allowed THEN x - c * den ELSE x, updated_at |-> n]
        /\ r.state \in BucketHash
    BY <1>2, <1>5, <2>1, Zenon DEF BucketAnswer
  <2> HIDE DEF r, x
  <2> QED
    BY <1>6, <2>2, BucketAssumption
<1>8. BucketUntil(p, q, n) /\ BucketUntil(p, q, t) /\ BucketUntil(p, NoState, t)
  BY <1>7 DEF BucketUntil
<1>9. q.tokens \in Nat /\ \A i \in Bit :
        Refill(p, q, t, i) = Smaller(cap, Larger(0, (q.tokens + e * num) - i))
  <2>1. q.updated_at = n /\ q.tokens \in Nat
    BY <1>7 DEF BucketHash
  <2> QED
    BY <1>1, <1>3, <1>7, <1>8, <2>1, RefillIs
<1>10. \A i \in Bit : Refill(p, NoState, t, i) = cap
  BY <1>3, <1>8, RefillIs
<1>11. /\ BucketLifetime(p) \in Nat
       /\ \A i \in Nat : i >= BucketLifetime(p) => i * num >= cap + 1
  <2>1. BucketLifetime(p) = CeilDiv(cap, num) + 1
    BY <1>1, <1>3 DEF BucketLifetime
  <2>2. cap \in Int /\ num \in Nat \ {0} /\ cap > 0
    BY <1>1, <1>3
  <2>3. PICK k \in Int : k = CeilDiv(cap, num) /\ cap <= num * k /\ k > 0
    BY <2>2, RoundUp
  <2>4. ASSUME NEW i \in Nat, i >= k + 1 PROVE i * num >= cap + 1
    <3>1. i * num >= (k + 1) * num
      BY <1>1, <2>3, <2>4
    <3>2. (k + 1) * num = num * k + num
      BY <1>1, <2>3
    <3>3. i * num \in Int /\ num * k \in Int
      BY <1>1, <2>3
    <3> QED
      BY <1>1, <1>3, <2>3, <3>1, <3>2, <3>3
  <2> QED
    BY <2>1, <2>3, <2>4
<1>12. t > n + r.ttl => z = TokenBucketScript(p, NoState, t, d, h)
  <2>1. t > n + r.ttl => e * num >= cap + 1
    <3>1. t > n + r.ttl => e >= BucketLifetime(p)
      BY <1>7, <1>11
    <3> QED
      BY <1>4, <1>11, <3>1
  <2>2. e * num \in Nat
    BY <1>1, <1>4
  <2>3. \A a, i, j \in Nat, l \in Bit : i >= a + 1 => Smaller(a, Larger(0, (j + i) - l)) = a
    BY BitIs DEF Smaller, Larger
  <2>4. t > n + r.ttl => \A i \in Bit : Refill(p, q, t, i) = Refill(p, NoState, t, i)
    <3>1. PICK f \in Nat : f = e * num
      BY <2>2
    <3>2. f >= cap + 1 => \A i \in Bit : Smaller(cap, Larger(0, (q.tokens + f) - i)) = cap
      <4>1. cap \in Nat /\ q.tokens \in Nat
        BY <1>3, <1>9
      <4> QED
        BY <2>3, <4>1, Zenon
    <3> HIDE DEF r, e
    <3> QED
      BY <1>9, <1>10, <2>1, <3>1, <3>2
  <2> HIDE DEF r
  <2> QED
    BY <1>6, <1>7, <1>8, <2>4, BitIs, BucketSame
<1>13. ~r.allowed => u < c * den /\ c * den <= cap
  <2>1. PICK m \in Nat : m = c * den
    BY <1>2
  <2>2. m <= cap
    BY <1>2, <1>3, <2>1 DEF BucketPolicy
  <2>3. ~(u >= m) => u < m
    BY <1>5, <2>1
  <2>4. r.allowed = (u >= m)
    BY <1>7, <2>1
  <2>5. ~r.allowed => u < m
    BY <2>3, <2>4, Zenon
  <2> QED
    BY <2>1, <2>2, <2>5
<1>14. ~r.allowed => z = TokenBucketScript(p, s, t, d, h)
  <2> SUFFICES ASSUME ~r.allowed PROVE z = TokenBucketScript(p, s, t, d, h)
    OBVIOUS
  <2>1. BucketUntil(p, s, t) /\ q.tokens = x
    BY <1>7 DEF BucketUntil, BucketHash
  <2>2. u < cap
    <3>1. c * den \in Nat
      BY <1>2
    <3> QED
      BY <1>3, <1>5, <1>13, <3>1
  <2>3. s # NoState /\ x = s.tokens + (n - s.updated_at) * num
    BY <1>1, <1>3, <1>5, <2>2, DeniedCounts
  <2>4. PICK v \in Nat : v = s.updated_at /\ v <= n
    BY <2>3 DEF BucketHash, BucketUntil
  <2>5. PICK i \in Nat : i = s.tokens
    BY <2>3 DEF BucketHash
  <2>6. (t - v) * num = (n - v) * num + e * num
    BY <1>1, <2>4
  <2>7. (n - v) * num \in Int /\ e * num \in Int
    BY <1>1, <2>4
  <2>8. i + (t - v) * num = x + e * num
    BY <2>3, <2>4, <2>5, <2>6, <2>7
  <2>9. ASSUME NEW l \in Bit PROVE Refill(p, q, t, l) = Refill(p, s, t, l)
    <3>1. Refill(p, s, t, l) = Smaller(cap, Larger(0, (i + (t - v) * num) - l))
      BY <1>1, <1>3, <2>1, <2>3, <2>4, <2>5, RefillIs
    <3>2. Refill(p, q, t, l) = Smaller(cap, Larger(0, (q.tokens + e * num) - l))
      BY <1>9
    <3> QED
      BY <2>1, <2>8, <3>1, <3>2, BitIs
  <2> HIDE DEF r, x
  <2> QED
    BY <1>6, <1>7, <1>8, <2>1, <2>9, BitIs, BucketSame
<1>15. ASSUME ~r.allowed
       PROVE  /\ r.retry \in Nat
              /\ c = d => /\ n + r.retry + 1 <= t => z.allowed
                          /\ z.allowed => n + r.retry <= t + 1
  <2>1. PICK m \in Nat : m = c * den
    BY <1>2
  <2>2. u < m /\ m <= cap
    BY <1>13, <1>15, <2>1
  <2>3. PICK y \in Int : y = m - u /\ y > 0
    BY <1>5, <2>1, <2>2
  <2>4. PICK k \in Int : /\ k = CeilDiv(y, num) /\ y <= num * k /\ k > 0
                         /\ \A i \in Int : i < k => num * i < y
    BY <1>1, <2>3, RoundUp
  <2>5. r.retry = k
    BY <1>1, <1>7, <1>15, <2>1, <2>3, <2>4 DEF BucketRetry, Larger
  <2>6. Refill(p, q, t, h) = Smaller(cap, Larger(0, (x + e * num) - h))
    BY <1>7, <1>9, <1>15
  <2>7. TokenBucketScript(p, q, t, d, h).allowed = (Refill(p, q, t, h) >= d * p.rate_den)
    BY <1>8, BucketAllows
  <2>8. c = d => z.allowed = (Smaller(cap, Larger(0, (x + e * num) - h)) >= m)
    BY <1>2, <1>6, <1>15, <2>1, <2>6, <2>7
  <2>9. PICK f \in Nat : f = e * num
    BY <1>1, <1>4
  <2>10. k + 1 <= e => f >= y + 1
    <3>1. k + 1 <= e => (k + 1) * num <= e * num
      BY <1>1, <1>4, <2>4
    <3>2. (k + 1) * num = num * k + num /\ num * k \in Int
      BY <1>1, <2>4
    <3> HIDE DEF e
    <3> QED
      BY <1>1, <2>3, <2>4, <2>9, <3>1, <3>2
  <2>11. e + 1 < k => f + 1 < y
    <3>1. e + 1 < k => num * (e + 1) < y
      BY <1>4, <2>4
    <3>2. num * (e + 1) = e * num + num
      BY <1>1, <1>4
    <3> HIDE DEF e
    <3> QED
      BY <1>1, <2>3, <2>9, <3>1, <3>2
  <2>12. /\ k + 1 <= e => Smaller(cap, Larger(0, (x + f) - h)) >= m
         /\ Smaller(cap, Larger(0, (x + f) - h)) >= m => k <= e + 1
    <3> HIDE DEF x, e
    <3>1. k + 1 <= e => (x + f) - h >= m
      BY <1>4, <1>5, <2>1, <2>3, <2>9, <2>10, BitIs
    <3>2. e + 1 < k => (x + f) - h < m
      BY <1>4, <1>5, <2>1, <2>3, <2>9, <2>11, BitIs
    <3>3. \A i \in Int : /\ i >= m => Smaller(cap, Larger(0, i)) >= m
                         /\ i < m /\ m > 0 => Smaller(cap, Larger(0, i)) < m
      BY <1>3, <2>1, <2>2 DEF Smaller, Larger
    <3>4. m > 0 /\ (x + f) - h \in Int
      BY <1>4, <1>5, <2>1, <2>2, <2>9, BitIs
    <3>5. PICK a \in Int : a = Smaller(cap, Larger(0, (x + f) - h))
      BY <1>3, <3>4 DEF Smaller, Larger
    <3> QED
      BY <1>4, <2>1, <2>4, <3>1, <3>2, <3>3, <3>4, <3>5
  <2>13. k \in Nat /\ (n + k + 1 <= t <=> k + 1 <= e) /\ (n + k <= t + 1 <=> k <= e + 1)
    BY <2>4
  <2> HIDE DEF r, z, x, e
  <2>14. c = d => (k + 1 <= e => z.allowed) /\ (z.allowed => k <= e + 1)
    BY <2>8, <2>9, <2>12, Zenon
  <2> QED
    BY <2>5, <2>13, <2>14
<1>16. r.retry \in Nat
  BY <1>7, <1>15
<1> HIDE DEF r, z, x
<1> QED
  BY <1>6, <1>7, <1>8, <1>11, <1>12, <1>14, <1>15, <1>16 DEF r, z

-----------------------------------------------------------------------------
(* The limiter. *)

PolicyOK ==
  \/ policy.algorithm = "fixed_window"   /\ policy.of \in WindowPolicy
  \/ policy.algorithm = "sliding_window" /\ policy.of \in WindowPolicy
  \/ policy.algorithm = "token_bucket"   /\ policy.of \in BucketPolicy

(* A hash that some call of the script wrote at t or before.                 *)
Written(s, t) ==
  \/ /\ policy.algorithm = "fixed_window"
     /\ s \in {NoState} \union FixedHash /\ FixedUntil(policy.of, s, t)
  \/ /\ policy.algorithm = "sliding_window"
     /\ s \in {NoState} \union SlidingHash /\ SlidingUntil(policy.of, s, t)
  \/ /\ policy.algorithm = "token_bucket"
     /\ s \in {NoState} \union BucketHash /\ BucketUntil(policy.of, s, t)

Affordable == {c \in Nat : c <= policy.of.limit}

(* While the clock is not set back, an expiry changes no later answer.       *)
SameInv ==
  /\ PolicyOK /\ now \in 0 .. MaxTime /\ backs \in Nat
  /\ backs = 0 =>
       /\ expireAt \in Nat
       /\ Written(stored, now) /\ Written(shadow, now)
       /\ \A t \in Nat, c \in Affordable, g \in Slips : now <= t =>
            Script(Unexpired(stored, expireAt, t), t, c, g) = Script(shadow, t, c, g)

------------------------------------------------------------------------------
LEMMA ScriptIs ==
  /\ policy.algorithm = "fixed_window" =>
       \A s, t, c, g : Script(s, t, c, g) = FixedWindowScript(policy.of, s, t, c)
  /\ policy.algorithm = "sliding_window" =>
       \A s, t, c, g : Script(s, t, c, g) = SlidingWindowScript(policy.of, s, t, c, g)
  /\ policy.algorithm = "token_bucket" =>
       \A s, t, c, g : Script(s, t, c, g) = TokenBucketScript(policy.of, s, t, c, g)
BY DEF Script

LEMMA SlipsAre == Slips \subseteq Bit
BY DEF Slips, Bit

(* What the three scripts have in common: a key expires when it is of no use *)
(* any more, a denial leaves no trace, and retry_after is right up to what a *)
(* double may be off.                                                        *)
LEMMA ScriptKeeps ==
  ASSUME PolicyOK, NEW s, NEW n \in Nat, Written(s, n), NEW t \in Nat, n <= t,
         NEW c \in Affordable, NEW d \in Affordable, NEW g \in Slips, NEW h \in Slips
  PROVE  LET r == Script(s, n, c, g)
             z == Script(r.state, t, d, h)
         IN  /\ Written(r.state, n) /\ r.ttl \in Nat /\ r.retry \in Nat
             /\ t > n + r.ttl => z = Script(NoState, t, d, h)
             /\ ~r.allowed => z = Script(s, t, d, h)
             /\ ~r.allowed /\ c = d => /\ n + r.retry + Grace <= t => z.allowed
                                       /\ z.allowed => n + r.retry <= t + Slack
<1>1. c \in Nat /\ d \in Nat /\ c <= policy.of.limit /\ d <= policy.of.limit
  BY DEF Affordable
<1>2. g \in Bit /\ h \in Bit
  BY SlipsAre
<1> DEFINE r == Script(s, n, c, g)
           z == Script(r.state, t, d, h)
<1>3. CASE policy.algorithm = "fixed_window"
  <2>1. /\ Written(r.state, n) /\ r.ttl \in Nat /\ r.retry \in Nat
        /\ t > n + r.ttl => z = Script(NoState, t, d, h)
        /\ ~r.allowed => z = Script(s, t, d, h)
        /\ ~r.allowed /\ c = d => (z.allowed <=> n + r.retry <= t)
    BY <1>1, <1>3, ScriptIs, FixedKeeps DEF PolicyOK, Written
  <2>2. Grace = 0 /\ Slack = 0
    BY <1>3 DEF Grace, Slack
  <2> HIDE DEF r, z
  <2> QED
    BY <2>1, <2>2 DEF r, z
<1>4. CASE policy.algorithm = "sliding_window"
  <2>1. /\ Written(r.state, n) /\ r.ttl \in Nat /\ r.retry \in Nat
        /\ t > n + r.ttl => z = Script(NoState, t, d, h)
        /\ ~r.allowed => z = Script(s, t, d, h)
        /\ ~r.allowed /\ c = d => /\ n + r.retry <= t => z.allowed
                                  /\ z.allowed => n + r.retry <= t + 1
    <3> DEFINE a == SlidingWindowScript(policy.of, s, n, c, g)
               b == SlidingWindowScript(policy.of, a.state, t, d, h)
    <3>1. /\ policy.of \in WindowPolicy /\ s \in {NoState} \union SlidingHash
          /\ SlidingUntil(policy.of, s, n)
      BY <1>4 DEF PolicyOK, Written
    <3>2. /\ a.state \in SlidingHash /\ SlidingUntil(policy.of, a.state, n)
          /\ a.ttl \in Nat /\ a.retry \in Nat
          /\ t > n + a.ttl => b = SlidingWindowScript(policy.of, NoState, t, d, h)
          /\ ~a.allowed => b = SlidingWindowScript(policy.of, s, t, d, h)
          /\ ~a.allowed /\ c = d => /\ n + a.retry <= t => b.allowed
                                    /\ b.allowed => n + a.retry <= t + 1
      BY <1>1, <1>2, <3>1, SlidingKeeps
    <3>3. /\ r = a /\ z = b
          /\ \A q : Script(q, t, d, h) = SlidingWindowScript(policy.of, q, t, d, h)
      BY <1>4, ScriptIs
    <3> HIDE DEF a, b, r, z
    <3>4. Written(r.state, n)
      BY <1>4, <3>2, <3>3 DEF Written
    <3> QED
      BY <3>2, <3>3, <3>4, Zenon
  <2>2. Grace = 0 /\ Slack = 1
    BY <1>4 DEF Grace, Slack
  <2> HIDE DEF r, z
  <2> QED
    BY <2>1, <2>2 DEF r, z
<1>5. CASE policy.algorithm = "token_bucket"
  <2>1. /\ Written(r.state, n) /\ r.ttl \in Nat /\ r.retry \in Nat
        /\ t > n + r.ttl => z = Script(NoState, t, d, h)
        /\ ~r.allowed => z = Script(s, t, d, h)
        /\ ~r.allowed /\ c = d => /\ n + r.retry + 1 <= t => z.allowed
                                  /\ z.allowed => n + r.retry <= t + 1
    <3> DEFINE a == TokenBucketScript(policy.of, s, n, c, g)
               b == TokenBucketScript(policy.of, a.state, t, d, h)
    <3>1. /\ policy.of \in BucketPolicy /\ s \in {NoState} \union BucketHash
          /\ BucketUntil(policy.of, s, n)
      BY <1>5 DEF PolicyOK, Written
    <3>2. /\ a.state \in BucketHash /\ BucketUntil(policy.of, a.state, n)
          /\ a.ttl \in Nat /\ a.retry \in Nat
          /\ t > n + a.ttl => b = TokenBucketScript(policy.of, NoState, t, d, h)
          /\ ~a.allowed => b = TokenBucketScript(policy.of, s, t, d, h)
          /\ ~a.allowed /\ c = d => /\ n + a.retry + 1 <= t => b.allowed
                                    /\ b.allowed => n + a.retry <= t + 1
      BY <1>1, <1>2, <3>1, BucketKeeps
    <3>3. /\ r = a /\ z = b
          /\ \A q : Script(q, t, d, h) = TokenBucketScript(policy.of, q, t, d, h)
      BY <1>5, ScriptIs
    <3> HIDE DEF a, b, r, z
    <3>4. Written(r.state, n)
      BY <1>5, <3>2, <3>3 DEF Written
    <3> QED
      BY <3>2, <3>3, <3>4, Zenon
  <2>2. Grace = 1 /\ Slack = 1
    BY <1>5 DEF Grace, Slack
  <2> HIDE DEF r, z
  <2> QED
    BY <2>1, <2>2 DEF r, z
<1> QED
  BY <1>3, <1>4, <1>5 DEF PolicyOK

LEMMA WrittenBefore ==
  ASSUME PolicyOK, NEW n \in Nat, NEW t \in Nat, n <= t
  PROVE  Written(NoState, t) /\ \A s : Written(s, n) => Written(s, t)
<1>1. Written(NoState, t)
  BY DEF PolicyOK, Written, FixedUntil, SlidingUntil, BucketUntil
<1>2. ASSUME NEW s, Written(s, n) PROVE Written(s, t)
  <2>1. CASE policy.algorithm \in {"fixed_window", "sliding_window"}
    <3>1. PICK w \in Nat \ {0} : w = policy.of.window_ms
      BY <2>1 DEF PolicyOK, WindowPolicy
    <3>2. n \div w \in Nat /\ t \div w \in Nat /\ n \div w <= t \div w
      BY LaterWindow
    <3>3. s # NoState => s.window_id \in Nat
      BY <1>2, <2>1 DEF Written, FixedHash, SlidingHash
    <3> QED
      BY <1>2, <2>1, <3>1, <3>2, <3>3 DEF Written, FixedUntil, SlidingUntil
  <2>2. CASE policy.algorithm = "token_bucket"
    BY <1>2, <2>2 DEF Written, BucketUntil, BucketHash
  <2> QED
    BY <2>1, <2>2 DEF PolicyOK
<1> QED
  BY <1>1, <1>2

LEMMA InitSame == Init => SameInv
<1> SUFFICES ASSUME Init PROVE SameInv
  OBVIOUS
<1>1. PolicyOK
  BY PolicyAssumption DEF Init, PolicyOK
<1>2. Written(NoState, 0)
  BY <1>1, WrittenBefore
<1> QED
  BY <1>1, <1>2, BoundAssumption DEF Init, SameInv, Unexpired

(* What acquire() answers and leaves, while the clock is not set back.       *)
LEMMA AnswerIs ==
  ASSUME SameInv, backs = 0, NEW c \in Affordable, NEW g \in Slips
  PROVE  LET r == Answer(c, g)
         IN  /\ r = Script(shadow, now, c, g)
             /\ Written(r.state, now) /\ r.ttl \in Nat /\ r.retry \in Nat
             /\ \A t \in Nat, d \in Affordable, h \in Slips : now <= t =>
                  /\ Script(Unexpired(r.state, now + r.ttl, t), t, d, h)
                       = Script(r.state, t, d, h)
                  /\ ~r.allowed => Script(r.state, t, d, h) = Script(shadow, t, d, h)
                  /\ ~r.allowed /\ c = d =>
                       /\ now + r.retry + Grace <= t => Script(r.state, t, d, h).allowed
                       /\ Script(r.state, t, d, h).allowed => now + r.retry <= t + Slack
<1>1. /\ PolicyOK /\ now \in Nat /\ Written(shadow, now)
      /\ Answer(c, g) = Script(shadow, now, c, g)
  BY BoundAssumption DEF SameInv, Answer
<1>2. PICK r : r = Answer(c, g)
  OBVIOUS
<1>3. /\ Written(r.state, now) /\ r.ttl \in Nat /\ r.retry \in Nat
      /\ \A t \in Nat, d \in Affordable, h \in Slips : now <= t =>
           /\ t > now + r.ttl => Script(r.state, t, d, h) = Script(NoState, t, d, h)
           /\ ~r.allowed => Script(r.state, t, d, h) = Script(shadow, t, d, h)
           /\ ~r.allowed /\ c = d =>
                /\ now + r.retry + Grace <= t => Script(r.state, t, d, h).allowed
                /\ Script(r.state, t, d, h).allowed => now + r.retry <= t + Slack
  BY <1>1, <1>2, ScriptKeeps
<1>4. ASSUME NEW t \in Nat, NEW d \in Affordable, NEW h \in Slips, now <= t
      PROVE  Script(Unexpired(r.state, now + r.ttl, t), t, d, h) = Script(r.state, t, d, h)
  <2>1. CASE t <= now + r.ttl
    BY <2>1 DEF Unexpired
  <2>2. CASE ~(t <= now + r.ttl)
    <3>1. t > now + r.ttl
      BY <1>1, <1>3, <2>2
    <3>2. Unexpired(r.state, now + r.ttl, t) = NoState
      BY <2>2 DEF Unexpired
    <3> QED
      BY <1>3, <1>4, <3>1, <3>2
  <2> QED
    BY <2>1, <2>2
<1> QED
  BY <1>1, <1>2, <1>3, <1>4

LEMMA ValidIs == PolicyOK => ValidCosts \subseteq Affordable
BY CostAssumption DEF ValidCosts, Affordable

LEMMA NextSame == SameInv /\ [Next]_vars => SameInv'
<1> SUFFICES ASSUME SameInv, [Next]_vars PROVE SameInv'
  OBVIOUS
<1>1. /\ PolicyOK /\ now \in 0 .. MaxTime /\ now \in Nat /\ backs \in Nat
      /\ policy' = policy
  BY BoundAssumption DEF SameInv, Next, Tick, SetClockBack, Expire, Acquire, vars
<1>2. /\ PolicyOK' /\ Affordable' = Affordable
      /\ \A s, t : Written(s, t)' <=> Written(s, t)
      /\ \A s, t, c, g : Script(s, t, c, g)' = Script(s, t, c, g)
      /\ Slips' = Slips
  BY <1>1 DEF PolicyOK, Affordable, Written, Script, Slips
<1>3. CASE Tick
  <2>1. now' = now + 1 /\ now' \in 0 .. MaxTime /\ UNCHANGED <<stored, expireAt, shadow, backs>>
    BY <1>1, <1>3, BoundAssumption DEF Tick
  <2>2. backs = 0 => Written(stored, now + 1) /\ Written(shadow, now + 1)
    BY <1>1, WrittenBefore DEF SameInv
  <2>3. \A t \in Nat : now + 1 <= t => now <= t
    BY <1>1
  <2> QED
    BY <1>1, <1>2, <2>1, <2>2, <2>3 DEF SameInv, Unexpired
<1>4. CASE SetClockBack
  <2>1. now' \in 0 .. MaxTime /\ backs' \in Nat /\ backs' # 0
    BY <1>1, <1>4, BoundAssumption DEF SetClockBack
  <2> QED
    BY <1>2, <2>1 DEF SameInv
<1>5. CASE Expire
  <2>1. /\ stored' = NoState /\ expireAt' = 0 /\ now > expireAt
        /\ UNCHANGED <<now, shadow, backs>>
    BY <1>5 DEF Expire
  <2>2. ASSUME NEW t \in Nat, now <= t, backs = 0
        PROVE  Unexpired(stored, expireAt, t) = NoState /\ Unexpired(NoState, 0, t) = NoState
    BY <1>1, <2>1, <2>2 DEF Unexpired, SameInv
  <2>3. backs = 0 => Written(NoState, now)
    BY <1>1, WrittenBefore
  <2>4. backs = 0 => \A t \in Nat, c \in Affordable, g \in Slips : now <= t =>
          Script(Unexpired(NoState, 0, t), t, c, g) = Script(shadow, t, c, g)
    BY <2>2 DEF SameInv
  <2>5. \A t : Unexpired(stored, expireAt, t)' = Unexpired(NoState, 0, t)
    BY <2>1 DEF Unexpired
  <2> QED
    BY <1>1, <1>2, <2>1, <2>3, <2>4, <2>5 DEF SameInv
<1>6. ASSUME NEW c \in ValidCosts, NEW g \in Slips, Acquire(c, g) PROVE SameInv'
  <2>1. CASE backs = 0
    <3>1. c \in Affordable
      BY <1>1, ValidIs
    <3>2. PICK r : r = Answer(c, g)
      OBVIOUS
    <3>3. /\ stored' = r.state /\ expireAt' = now + r.ttl /\ shadow' = r.state
          /\ UNCHANGED <<now, backs>>
      BY <1>6, <2>1, <3>1, <3>2, AnswerIs DEF Acquire
    <3>4. /\ Written(r.state, now) /\ now + r.ttl \in Nat
          /\ \A t \in Nat, d \in Affordable, h \in Slips : now <= t =>
               Script(Unexpired(r.state, now + r.ttl, t), t, d, h) = Script(r.state, t, d, h)
      BY <1>1, <2>1, <3>1, <3>2, AnswerIs
    <3>5. \A t : Unexpired(stored, expireAt, t)' = Unexpired(r.state, now + r.ttl, t)
      BY <3>3 DEF Unexpired
    <3> QED
      BY <1>1, <1>2, <3>3, <3>4, <3>5 DEF SameInv
  <2>2. CASE backs # 0
    BY <1>1, <1>2, <1>6, <2>2 DEF SameInv, Acquire
  <2> QED
    BY <2>1, <2>2
<1>7. CASE UNCHANGED vars
  BY <1>1, <1>2, <1>7 DEF vars, SameInv, Unexpired
<1> QED
  BY <1>3, <1>4, <1>5, <1>6, <1>7 DEF Next

LEMMA SameAlways == Spec => []SameInv
BY InitSame, NextSame, PTL DEF Spec

(* Expiry is invisible: every answer is the one a key that never expires      *)
(* would give (ExpiryIsInvisible).                                            *)
THEOREM ExpiryLosesNothing == Spec => []ExpiryIsInvisible
<1>1. SameInv => ExpiryIsInvisible
  BY ValidIs, AnswerIs DEF SameInv, ExpiryIsInvisible
<1> QED
  BY <1>1, SameAlways, PTL

(* Whoever waits as long as retry_after said, or longer (of a token bucket, a *)
(* millisecond longer), is admitted unless others used the budget meanwhile   *)
(* (RetryIsHonest).                                                           *)
THEOREM RetryIsEnough == Spec => []RetryIsHonest
<1>1. SameInv => RetryIsHonest
  <2> SUFFICES ASSUME SameInv, backs = 0, NEW c \in ValidCosts, NEW g \in Slips,
                      ~Answer(c, g).allowed,
                      NEW t \in now + Answer(c, g).retry + Grace
                               .. now + Answer(c, g).retry + Answer(c, g).ttl,
                      NEW h \in Slips
               PROVE  AdmittedAt(Answer(c, g), c, t, h)
    BY DEF RetryIsHonest
  <2>1. c \in Affordable /\ now \in Nat
    BY ValidIs, BoundAssumption DEF SameInv
  <2>2. PICK r : r = Answer(c, g)
    OBVIOUS
  <2>3. r.retry \in Nat /\ r.ttl \in Nat /\ Grace \in Nat
    BY <2>1, <2>2, AnswerIs DEF Grace
  <2>4. t \in Nat /\ now + r.retry + Grace <= t /\ now <= t
    BY <2>1, <2>2, <2>3
  <2> QED
    BY <2>1, <2>2, <2>4, AnswerIs DEF AdmittedAt
<1> QED
  BY <1>1, SameAlways, PTL

(* No retry is admitted that comes earlier, by more than the millisecond that *)
(* a double may be rounded up too far (RetryIsTight).                         *)
THEOREM RetryIsNoLonger == Spec => []RetryIsTight
<1>1. SameInv => RetryIsTight
  <2> SUFFICES ASSUME SameInv, backs = 0, NEW c \in ValidCosts, NEW g \in Slips,
                      ~Answer(c, g).allowed,
                      NEW t \in now .. now + Answer(c, g).retry - 1 - Slack, NEW h \in Slips
               PROVE  ~AdmittedAt(Answer(c, g), c, t, h)
    BY DEF RetryIsTight
  <2>1. c \in Affordable /\ now \in Nat
    BY ValidIs, BoundAssumption DEF SameInv
  <2>2. PICK r : r = Answer(c, g)
    OBVIOUS
  <2>3. r.retry \in Nat /\ Slack \in Nat
    BY <2>1, <2>2, AnswerIs DEF Slack
  <2>4. t \in Nat /\ ~(now + r.retry <= t + Slack) /\ now <= t
    BY <2>1, <2>2, <2>3
  <2> QED
    BY <2>1, <2>2, <2>4, AnswerIs DEF AdmittedAt
<1> QED
  BY <1>1, SameAlways, PTL

------------------------------------------------------------------------------
(* HTTP *)

(* A promise is kept from its time on, while nobody uses the budget.          *)
PromiseInv ==
  promise # NoPromise =>
    /\ backs = 0 /\ promise.at \in Nat /\ promise.cost \in Affordable
    /\ \A t \in Nat, h \in Slips :
         now <= t /\ promise.at + Grace <= t => Script(shadow, t, promise.cost, h).allowed

(* The middleware and the dependency use the limiter as its specification     *)
(* allows: what is proved of the limiter holds behind HTTP.                   *)
THEOREM HttpIsRateLimiter == HttpSpec => Spec
<1>1. [HttpNext]_httpVars => [Next]_vars
  BY DEF HttpNext, HttpTick, HttpExpire, HttpSetClockBack, Exempt, Served, Rejected,
     AcquireRaises, Next, httpVars
<1> QED
  BY <1>1, PTL DEF HttpSpec, HttpInit, Spec

LEMMA NextPromise == SameInv /\ PromiseInv /\ [HttpNext]_httpVars => PromiseInv'
<1> SUFFICES ASSUME SameInv, PromiseInv, [HttpNext]_httpVars PROVE PromiseInv'
  OBVIOUS
<1>1. PolicyOK /\ now \in Nat /\ [Next]_vars
  BY BoundAssumption DEF SameInv, HttpNext, HttpTick, HttpExpire, HttpSetClockBack, Exempt, Served,
     Rejected, AcquireRaises, Next, httpVars
<1>2. policy' = policy
  BY <1>1 DEF Next, Tick, SetClockBack, Expire, Acquire, vars
<1>3. /\ Affordable' = Affordable /\ Slips' = Slips /\ Grace' = Grace
      /\ \A s, t, c, g : Script(s, t, c, g)' = Script(s, t, c, g)
  BY <1>2 DEF Affordable, Script, Slips, Grace
<1>4. CASE promise' = NoPromise
  BY <1>4 DEF PromiseInv
<1>5. CASE UNCHANGED <<promise, shadow, backs>> /\ now' \in Nat /\ now <= now'
  BY <1>1, <1>3, <1>5 DEF PromiseInv
<1>6. CASE HttpTick \/ HttpExpire \/ UNCHANGED httpVars
  <2>1. UNCHANGED <<promise, shadow, backs>> /\ now' \in Nat /\ now <= now'
    BY <1>1, <1>6 DEF HttpTick, HttpExpire, Tick, Expire, httpVars, vars
  <2> QED
    BY <1>5, <2>1
<1>7. ASSUME NEW c \in ValidCosts, NEW g \in Slips, Acquire(c, g), ~Answer(c, g).allowed,
             promise' = promise
      PROVE  PromiseInv'
  <2>1. UNCHANGED <<now, backs>> /\ c \in Affordable
    BY <1>1, <1>7, ValidIs DEF Acquire
  <2>2. SUFFICES ASSUME promise # NoPromise
                 PROVE  \A t \in Nat, h \in Slips : now <= t /\ promise.at + Grace <= t =>
                          Script(shadow', t, promise.cost, h).allowed
    BY <1>3, <1>7, <2>1 DEF PromiseInv
  <2>3. backs = 0 /\ promise.cost \in Affordable
    BY <2>2 DEF PromiseInv
  <2>4. PICK r : r = Answer(c, g)
    OBVIOUS
  <2>5. shadow' = r.state
    BY <1>7, <2>1, <2>3, <2>4, AnswerIs DEF Acquire
  <2>6. \A t \in Nat, h \in Slips : now <= t =>
          Script(r.state, t, promise.cost, h) = Script(shadow, t, promise.cost, h)
    BY <1>7, <2>1, <2>3, <2>4, AnswerIs
  <2> QED
    BY <2>2, <2>5, <2>6 DEF PromiseInv
<1>8. ASSUME NEW c \in ValidCosts, NEW g \in Slips, Rejected(c, g)
      PROVE  PromiseInv'
  <2>1. UNCHANGED <<now, backs>> /\ c \in Affordable /\ ~Answer(c, g).allowed
    BY <1>1, <1>8, ValidIs DEF Rejected, Acquire
  <2>2. PICK r : r = Answer(c, g)
    OBVIOUS
  <2> DEFINE at == now + SecondMs * RetryAfterSeconds(r.retry)
  <2>3. CASE backs = 0 /\ promise' = [cost |-> c, at |-> at]
    <3>1. shadow' = r.state
      BY <1>8, <2>1, <2>2, <2>3, AnswerIs DEF Rejected, Acquire
    <3>2. r.retry \in Nat
      BY <2>1, <2>2, <2>3, AnswerIs
    <3>3. at \in Nat /\ now + r.retry <= at
      <4>1. SecondMs \in Nat \ {0} /\ r.retry \in Int
        BY <3>2, SecondAssumption
      <4>2. PICK k \in Int : k = CeilDiv(r.retry, SecondMs) /\ r.retry <= SecondMs * k
        BY <4>1, RoundUp
      <4>3. PICK m \in Nat : m = RetryAfterSeconds(r.retry) /\ k <= m
        BY <4>2 DEF RetryAfterSeconds, Larger
      <4>4. SecondMs * k <= SecondMs * m /\ SecondMs * m \in Nat /\ SecondMs * k \in Int
        BY <4>1, <4>2, <4>3
      <4> QED
        BY <1>1, <3>2, <4>2, <4>3, <4>4
    <3>4. \A t \in Nat, h \in Slips :
            now + r.retry + Grace <= t => Script(r.state, t, c, h).allowed
      <4>1. \A t \in Nat : now + r.retry + Grace <= t => now <= t
        BY <1>1, <3>2 DEF Grace
      <4> QED
        BY <2>1, <2>2, <2>3, <4>1, AnswerIs
    <3> HIDE DEF at
    <3>5. \A t \in Nat : at + Grace <= t => now + r.retry + Grace <= t
      BY <1>1, <3>2, <3>3 DEF Grace
    <3> QED
      BY <1>3, <2>1, <2>3, <3>1, <3>3, <3>4, <3>5 DEF PromiseInv
  <2> QED
    BY <1>4, <1>8, <2>2, <2>3 DEF Rejected, SameInv
<1> QED
  BY <1>4, <1>6, <1>7, <1>8
     DEF HttpNext, HttpSetClockBack, Exempt, Served, AcquireRaises

(* A client that obeys Retry-After is served, whatever other requests were    *)
(* rejected meanwhile, unless one of them used the budget                     *)
(* (PatientClientIsServed).                                                   *)
THEOREM PatienceIsRewarded == HttpSpec => []PatientClientIsServed
<1>1. HttpInit => PromiseInv
  BY DEF HttpInit, PromiseInv
<1>2. SameInv /\ PromiseInv => PatientClientIsServed
  <2> SUFFICES ASSUME SameInv, PromiseInv, promise # NoPromise,
                      now >= promise.at + Grace, NEW h \in Slips
               PROVE  Answer(promise.cost, h).allowed
    BY DEF PatientClientIsServed
  <2>1. /\ backs = 0 /\ promise.cost \in Affordable /\ now \in Nat
        /\ Script(shadow, now, promise.cost, h).allowed
    BY BoundAssumption DEF PromiseInv, SameInv, Grace
  <2> QED
    BY <2>1, AnswerIs
<1> QED
  BY <1>1, <1>2, NextPromise, HttpIsRateLimiter, SameAlways, PTL DEF HttpSpec

------------------------------------------------------------------------------
(* What was admitted *)

Start == now - (now % policy.of.window_ms)

(* The count of the fixed window.                                             *)
FixedTotals == Total(Start, now) = FixedCount(policy.of, shadow, now)

(* The two counts of the sliding window.                                      *)
SlidingTotals ==
  /\ Total(Start, now) = SlidingCurrent(policy.of, shadow, now)
  /\ Total(Start - policy.of.window_ms, Start - 1) = SlidingPrevious(policy.of, shadow, now)

(* What is left in the bucket, against every interval that ends now.          *)
BucketTotals ==
  \A first \in 0 .. now :
    Total(first, now) * policy.of.rate_den + Refill(policy.of, shadow, now, 0)
      <= policy.of.limit * policy.of.rate_den + policy.of.rate_num * (now - first)

TotalsInv ==
  backs = 0 =>
    /\ admitted \in [0 .. MaxTime -> Nat]
    /\ \A t \in now .. MaxTime : admitted[t] = admitted[now]
    /\ policy.algorithm = "fixed_window" => FixedTotals /\ WindowLimit(policy.of)
    /\ policy.algorithm = "sliding_window" => SlidingTotals
    /\ policy.algorithm = "token_bucket" => BucketTotals /\ IntervalLimit(policy.of)

LEMMA UpToIs ==
  ASSUME SameInv, TotalsInv, backs = 0
  PROVE  /\ \A t \in Int : UpTo(t) \in Nat
         /\ \A t \in Int : now <= t => UpTo(t) = UpTo(now)
<1>1. now \in 0 .. MaxTime /\ MaxTime \in Nat /\ admitted \in [0 .. MaxTime -> Nat]
  BY BoundAssumption DEF SameInv, TotalsInv
<1>2. \A t \in Int : t >= 0 => Smaller(t, MaxTime) \in 0 .. MaxTime
  BY <1>1 DEF Smaller
<1>3. ASSUME NEW t \in Int PROVE UpTo(t) \in Nat
  <2>1. t >= 0 => admitted[Smaller(t, MaxTime)] \in Nat
    BY <1>1, <1>2
  <2>2. t < 0 \/ t >= 0
    OBVIOUS
  <2> QED
    BY <2>1, <2>2 DEF UpTo
<1>4. ASSUME NEW t \in Int, now <= t PROVE UpTo(t) = UpTo(now)
  <2>1. ~(t < 0) /\ ~(now < 0) /\ Smaller(now, MaxTime) = now /\ Smaller(t, MaxTime) \in now .. MaxTime
    BY <1>1, <1>4 DEF Smaller
  <2> QED
    BY <2>1 DEF UpTo, TotalsInv
<1> QED
  BY <1>3, <1>4

(* Admitting a cost now adds it to every total that ends now or later.        *)
LEMMA UpToGrows ==
  ASSUME SameInv, TotalsInv, backs = 0, NEW c \in Nat,
         admitted' = [t \in 0 .. MaxTime |-> admitted[t] + (IF t >= now THEN c ELSE 0)]
  PROVE  /\ \A t \in Int : UpTo(t)' = UpTo(t) + (IF t >= now THEN c ELSE 0)
         /\ admitted' \in [0 .. MaxTime -> Nat]
         /\ \A t \in now .. MaxTime : admitted'[t] = admitted'[now]
<1>1. now \in 0 .. MaxTime /\ MaxTime \in Nat /\ admitted \in [0 .. MaxTime -> Nat]
  BY BoundAssumption DEF SameInv, TotalsInv
<1>2. \A t \in 0 .. MaxTime : admitted'[t] = admitted[t] + (IF t >= now THEN c ELSE 0)
  OBVIOUS
<1>3. ASSUME NEW t \in Int PROVE UpTo(t)' = UpTo(t) + (IF t >= now THEN c ELSE 0)
  <2>1. CASE t < 0
    <3>1. ~(t >= now)
      BY <1>1, <2>1
    <3> QED
      BY <2>1, <3>1 DEF UpTo
  <2>2. CASE t >= 0
    <3>1. PICK i \in 0 .. MaxTime : i = Smaller(t, MaxTime)
      BY <1>1, <2>2 DEF Smaller
    <3>2. i >= now <=> t >= now
      BY <1>1, <2>2, <3>1 DEF Smaller
    <3>3. UpTo(t) = admitted[i] /\ UpTo(t)' = admitted'[i]
      BY <2>2, <3>1 DEF UpTo, Smaller
    <3> QED
      BY <1>2, <3>1, <3>2, <3>3
  <2> QED
    BY <2>1, <2>2
<1>4. admitted' \in [0 .. MaxTime -> Nat]
  BY <1>1
<1>5. \A t \in now .. MaxTime : admitted'[t] = admitted'[now]
  BY <1>1, <1>2 DEF TotalsInv
<1> QED
  BY <1>3, <1>4, <1>5

LEMMA InitTotals == Init => TotalsInv
<1> SUFFICES ASSUME Init PROVE TotalsInv
  OBVIOUS
<1>1. MaxTime \in Nat /\ now = 0 /\ shadow = NoState /\ PolicyOK
  BY BoundAssumption, InitSame DEF Init, SameInv
<1>2. admitted = [t \in 0 .. MaxTime |-> 0]
  BY DEF Init
<1>3. \A t \in Int : UpTo(t) = 0
  BY <1>1, <1>2 DEF UpTo, Smaller
<1>4. \A s, t \in Int : Total(s, t) = 0
  BY <1>3 DEF Total
<1>5. ASSUME policy.of \in WindowPolicy
      PROVE  FixedTotals /\ SlidingTotals /\ WindowLimit(policy.of)
  <2>1. PICK w \in Nat \ {0} : w = policy.of.window_ms
    BY <1>5 DEF WindowPolicy
  <2>2. Start \in Int
    BY <1>1, <2>1, Division DEF Start
  <2>3. Total(Start, now) = 0 /\ Total(Start - w, Start - 1) = 0
    BY <1>1, <1>4, <2>2
  <2>4. WindowLimit(policy.of)
    <3>1. \A t \in 0 .. MaxTime : Total(t, t + w - 1) = 0
      BY <1>1, <1>4, <2>1
    <3>2. 0 <= policy.of.limit
      BY <1>5 DEF WindowPolicy
    <3> QED
      BY <2>1, <3>1, <3>2 DEF WindowLimit
  <2> QED
    BY <1>1, <2>1, <2>3, <2>4
       DEF FixedTotals, SlidingTotals, FixedCount, SlidingCurrent, SlidingPrevious
<1>6. ASSUME policy.of \in BucketPolicy
      PROVE  BucketTotals /\ IntervalLimit(policy.of)
  <2>1. PICK num \in Nat : num = policy.of.rate_num
    BY <1>6 DEF BucketPolicy
  <2>2. PICK den \in Nat : den = policy.of.rate_den
    BY <1>6 DEF BucketPolicy
  <2>3. PICK cap \in Nat : cap = policy.of.limit * policy.of.rate_den
    BY <1>6 DEF BucketPolicy
  <2>4. Refill(policy.of, shadow, now, 0) = cap
    BY <1>1, <2>3 DEF Refill
  <2>5. \A i, j \in 0 .. MaxTime : i <= j => num * (j - i) >= 0
    BY <1>1
  <2>6. ASSUME NEW i \in 0 .. MaxTime, NEW j \in 0 .. MaxTime, i <= j
        PROVE  Total(i, j) * den <= cap + num * (j - i) /\ Total(i, j) = 0
    <3>1. Total(i, j) = 0 /\ 0 * den = 0
      BY <1>1, <1>4
    <3>2. num * (j - i) \in Int /\ num * (j - i) >= 0
      BY <1>1, <2>5, <2>6
    <3> QED
      BY <3>1, <3>2
  <2>7. IntervalLimit(policy.of)
    BY <2>1, <2>2, <2>3, <2>6 DEF IntervalLimit
  <2>8. BucketTotals
    <3> SUFFICES ASSUME NEW first \in 0 .. now
                 PROVE  Total(first, now) * den + cap <= cap + num * (now - first)
      BY <2>1, <2>2, <2>3, <2>4 DEF BucketTotals
    <3>1. first = 0 /\ Total(first, now) * den = 0 /\ num * (now - first) = 0
      BY <1>1, <1>4
    <3> QED
      BY <3>1
  <2> QED
    BY <2>7, <2>8
<1>7. admitted \in [0 .. MaxTime -> Nat] /\ \A t \in now .. MaxTime : admitted[t] = admitted[now]
  BY <1>1, <1>2
<1> QED
  BY <1>1, <1>5, <1>6, <1>7 DEF TotalsInv, PolicyOK

(* A millisecond passes.                                                      *)
LEMMA TickTotals ==
  ASSUME SameInv, TotalsInv, backs = 0, Tick
  PROVE  TotalsInv'
<1>1. /\ PolicyOK /\ now \in Nat /\ MaxTime \in Nat /\ now < MaxTime /\ now' = now + 1
      /\ UNCHANGED <<policy, shadow, admitted, backs>>
      /\ Written(shadow, now)
  BY BoundAssumption DEF SameInv, Tick
<1>2. (\A t \in Int : UpTo(t) \in Nat) /\ UpTo(now + 1) = UpTo(now)
  BY <1>1, UpToIs
<1>3. /\ \A t : UpTo(t)' = UpTo(t)
      /\ \A i, j : Total(i, j)' = Total(i, j)
  BY <1>1 DEF UpTo, Total
<1>4. /\ admitted' \in [0 .. MaxTime -> Nat]
      /\ \A t \in now' .. MaxTime : admitted'[t] = admitted'[now']
  <2>1. \A t \in now .. MaxTime : admitted[t] = admitted[now]
    BY DEF TotalsInv
  <2> QED
    BY <1>1, <2>1 DEF TotalsInv
<1>5. ASSUME policy.of \in WindowPolicy
      PROVE  \/ /\ Start' = Start
                /\ (now + 1) \div policy.of.window_ms = now \div policy.of.window_ms
             \/ /\ Start' = now + 1 /\ Start' - policy.of.window_ms = Start
                /\ (now + 1) \div policy.of.window_ms = now \div policy.of.window_ms + 1
  <2>1. PICK w \in Nat \ {0} : w = policy.of.window_ms
    BY <1>5 DEF WindowPolicy
  <2>2. now + 1 \in Nat /\ now <= now + 1
    BY <1>1
  <2>3. /\ now \div w \in Nat /\ (now + 1) \div w \in Nat /\ now \div w <= (now + 1) \div w
        /\ now % w \in 0 .. w - 1 /\ (now + 1) % w \in 0 .. w - 1
        /\ now + 1 < now + w - (now % w) <=> (now + 1) \div w = now \div w
        /\ now + 1 < now + 2 * w - (now % w) <=> (now + 1) \div w <= now \div w + 1
        /\ (now + 1) \div w = now \div w => (now + 1) % w = (now % w) + (now + 1) - now
        /\ (now + 1) \div w = now \div w + 1 => (now + 1) % w = (now % w) + (now + 1) - now - w
    BY <1>1, <2>2, LaterWindow
  <2>4. Start = now - (now % w) /\ Start' = now + 1 - ((now + 1) % w)
    BY <1>1, <2>1 DEF Start
  <2>5. CASE (now + 1) \div w = now \div w
    BY <1>1, <2>1, <2>3, <2>4, <2>5
  <2>6. CASE (now + 1) \div w # now \div w
    <3>1. (now + 1) \div w = now \div w + 1
      BY <1>1, <2>3, <2>6
    <3>2. (now + 1) % w = 0 /\ now % w = w - 1
      BY <1>1, <2>3, <2>6, <3>1
    <3> QED
      BY <1>1, <2>1, <2>4, <3>1, <3>2
  <2> QED
    BY <2>5, <2>6
<1>6. ASSUME policy.of \in WindowPolicy
      PROVE  Start \in Int /\ Start <= now /\ policy.of.window_ms \in Nat
             /\ now \div policy.of.window_ms \in Nat
  <2>1. PICK w \in Nat \ {0} : w = policy.of.window_ms
    BY <1>6 DEF WindowPolicy
  <2>2. now \in Int
    BY <1>1
  <2>3. now % w \in Nat /\ now \div w \in Nat
    BY <1>1, <2>2, Division
  <2> QED
    BY <1>1, <2>1, <2>3 DEF Start
<1>7. ASSUME policy.algorithm = "fixed_window"
      PROVE  FixedTotals' /\ WindowLimit(policy.of)'
  <2>1. policy.of \in WindowPolicy /\ FixedTotals /\ WindowLimit(policy.of)
    BY <1>1, <1>7 DEF TotalsInv, PolicyOK
  <2>2. WindowLimit(policy.of)'
    BY <1>1, <1>3, <2>1 DEF WindowLimit
  <2>3. /\ FixedUntil(policy.of, shadow, now)
        /\ shadow # NoState => shadow.window_id \in Nat
    BY <1>1, <1>7 DEF Written, FixedHash
  <2>4. CASE Start' = Start
             /\ (now + 1) \div policy.of.window_ms = now \div policy.of.window_ms
    <3>1. FixedCount(policy.of, shadow, now)' = FixedCount(policy.of, shadow, now)
      BY <1>1, <2>4 DEF FixedCount
    <3>2. Total(Start, now)' = Total(Start, now)
      BY <1>1, <1>2, <1>3, <2>4 DEF Total
    <3> QED
      BY <2>1, <2>2, <3>1, <3>2 DEF FixedTotals
  <2>5. CASE /\ Start' = now + 1 /\ Start' - policy.of.window_ms = Start
             /\ (now + 1) \div policy.of.window_ms = now \div policy.of.window_ms + 1
    <3>1. FixedCount(policy.of, shadow, now)' = 0
      BY <1>1, <1>6, <2>1, <2>3, <2>5 DEF FixedCount, FixedUntil
    <3>2. Total(Start, now)' = UpTo(now + 1) - UpTo(now + 1 - 1)
      BY <1>1, <1>3, <2>5 DEF Total
    <3>3. now + 1 - 1 = now /\ UpTo(now) \in Nat
      BY <1>1, <1>2
    <3>4. Total(Start, now)' = 0
      BY <1>2, <3>2, <3>3
    <3> QED
      BY <2>2, <3>1, <3>4 DEF FixedTotals
  <2> QED
    BY <1>5, <2>1, <2>4, <2>5
<1>8. ASSUME policy.algorithm = "sliding_window"
      PROVE  SlidingTotals'
  <2>1. policy.of \in WindowPolicy /\ SlidingTotals
    BY <1>1, <1>8 DEF TotalsInv, PolicyOK
  <2>2. /\ SlidingUntil(policy.of, shadow, now)
        /\ shadow # NoState => shadow.window_id \in Nat
    BY <1>1, <1>8 DEF Written, SlidingHash
  <2>3. CASE Start' = Start
             /\ (now + 1) \div policy.of.window_ms = now \div policy.of.window_ms
    <3>1. /\ SlidingCurrent(policy.of, shadow, now)' = SlidingCurrent(policy.of, shadow, now)
          /\ SlidingPrevious(policy.of, shadow, now)' = SlidingPrevious(policy.of, shadow, now)
      BY <1>1, <2>3 DEF SlidingCurrent, SlidingPrevious
    <3>2. Total(Start, now)' = Total(Start, now)
      BY <1>1, <1>2, <1>3, <2>3 DEF Total
    <3>3. Total(Start - policy.of.window_ms, Start - 1)' = Total(Start - policy.of.window_ms, Start - 1)
      BY <1>1, <1>3, <2>3 DEF Total
    <3> QED
      BY <2>1, <3>1, <3>2, <3>3 DEF SlidingTotals
  <2>4. CASE /\ Start' = now + 1 /\ Start' - policy.of.window_ms = Start
             /\ (now + 1) \div policy.of.window_ms = now \div policy.of.window_ms + 1
    <3>1. /\ SlidingCurrent(policy.of, shadow, now)' = 0
          /\ SlidingPrevious(policy.of, shadow, now)' = SlidingCurrent(policy.of, shadow, now)
      BY <1>1, <1>6, <2>1, <2>2, <2>4 DEF SlidingCurrent, SlidingPrevious, SlidingUntil
    <3>2. Total(Start, now)' = UpTo(now + 1) - UpTo(now + 1 - 1)
      BY <1>1, <1>3, <2>4 DEF Total
    <3>3. now + 1 - 1 = now /\ UpTo(now) \in Nat
      BY <1>1, <1>2
    <3>4. Total(Start, now)' = 0
      BY <1>2, <3>2, <3>3
    <3>5. Total(Start - policy.of.window_ms, Start - 1)' = UpTo(now + 1 - 1) - UpTo(Start - 1)
      BY <1>1, <1>3, <2>4 DEF Total
    <3>6. Total(Start - policy.of.window_ms, Start - 1)' = Total(Start, now)
      BY <3>3, <3>5 DEF Total
    <3> QED
      BY <2>1, <3>1, <3>4, <3>6 DEF SlidingTotals
  <2> QED
    BY <1>5, <2>1, <2>3, <2>4
<1>9. ASSUME policy.algorithm = "token_bucket"
      PROVE  BucketTotals' /\ IntervalLimit(policy.of)'
  <2>1. policy.of \in BucketPolicy /\ BucketTotals /\ IntervalLimit(policy.of)
    BY <1>1, <1>9 DEF TotalsInv, PolicyOK
  <2>2. IntervalLimit(policy.of)'
    BY <1>1, <1>3, <2>1 DEF IntervalLimit
  <2>3. PICK num \in Nat : num = policy.of.rate_num
    BY <2>1 DEF BucketPolicy
  <2>4. PICK den \in Nat : den = policy.of.rate_den
    BY <2>1 DEF BucketPolicy
  <2>5. PICK cap \in Nat : cap = policy.of.limit * policy.of.rate_den
    BY <2>1 DEF BucketPolicy
  <2>6. shadow \in {NoState} \union BucketHash /\ BucketUntil(policy.of, shadow, now)
        /\ BucketUntil(policy.of, shadow, now + 1)
    BY <1>1, <1>9, WrittenBefore DEF Written
  <2>7. PICK x \in 0 .. cap : x = Refill(policy.of, shadow, now, 0)
    <3>1. Refill(policy.of, shadow, now, 0) \in 0 .. policy.of.limit * policy.of.rate_den
      <4>1. now \in Nat
        BY <1>1
      <4> QED
        BY <2>1, <2>6, <4>1, BitIs, RefillIs
    <3> QED
      BY <2>5, <3>1
  <2>8. PICK y \in 0 .. cap : y = Refill(policy.of, shadow, now + 1, 0)
    <3>1. Refill(policy.of, shadow, now + 1, 0) \in 0 .. policy.of.limit * policy.of.rate_den
      <4>1. now + 1 \in Nat
        BY <1>1
      <4> QED
        BY <2>1, <2>6, <4>1, BitIs, RefillIs
    <3> QED
      BY <2>5, <3>1
  <2>9. y <= x + num
    <3>1. CASE shadow = NoState
      <4>1. x = cap
        BY <2>5, <2>7, <3>1 DEF Refill
      <4> QED
        BY <2>3, <2>8, <4>1
    <3>2. CASE shadow # NoState
      <4>1. PICK u \in Nat : u = shadow.updated_at
        BY <2>6, <3>2 DEF BucketHash
      <4>2. PICK i \in Nat : i = shadow.tokens
        BY <2>6, <3>2 DEF BucketHash
      <4>3. x = Smaller(cap, i + (now - u) * num) /\ y = Smaller(cap, i + ((now + 1) - u) * num)
        <5>1. \A t \in Nat : BucketUntil(policy.of, shadow, t) =>
                Refill(policy.of, shadow, t, 0)
                  = Smaller(policy.of.limit * policy.of.rate_den,
                      Larger(0, (shadow.tokens + (t - shadow.updated_at) * policy.of.rate_num) - 0))
          BY <2>1, <2>6, <3>2, BitIs, RefillIs
        <5>2. PICK e \in Nat : e = (now - u) * num
          BY <1>1, <2>3, <2>6, <3>2, <4>1 DEF BucketUntil
        <5>3. PICK f \in Nat : f = ((now + 1) - u) * num
          BY <1>1, <2>3, <2>6, <3>2, <4>1 DEF BucketUntil
        <5>4. /\ x = Smaller(cap, Larger(0, (i + (now - u) * num) - 0))
              /\ y = Smaller(cap, Larger(0, (i + ((now + 1) - u) * num) - 0))
          <6>1. now \in Nat /\ now + 1 \in Nat
            BY <1>1
          <6> QED
            BY <2>3, <2>5, <2>6, <2>7, <2>8, <4>1, <4>2, <5>1, <6>1
        <5>5. \A j \in Nat : Larger(0, j - 0) = j
          BY DEF Larger
        <5> QED
          BY <4>2, <5>2, <5>3, <5>4, <5>5
      <4>4. ((now + 1) - u) * num = (now - u) * num + num
        <5>1. \A k1 \in Int : (k1 + 1) * num = k1 * num + num
          BY <2>3
        <5>2. now - u \in Int /\ (now + 1) - u = (now - u) + 1
          BY <1>1, <4>1
        <5> QED
          BY <5>1, <5>2
      <4>5. PICK j \in Int : j = (now - u) * num
        BY <1>1, <2>3, <4>1
      <4> QED
        BY <2>3, <2>5, <4>2, <4>3, <4>4, <4>5 DEF Smaller
    <3> QED
      BY <3>1, <3>2
  <2>10. ASSUME NEW first \in 0 .. now + 1
         PROVE  Total(first, now + 1) * den + y <= cap + num * (now + 1 - first)
    <3>1. CASE first <= now
      <4>1. Total(first, now + 1) = Total(first, now)
        BY <1>2 DEF Total
      <4>2. PICK k \in Int : k = Total(first, now) * den
        <5>1. first - 1 \in Int /\ first \in Nat
          BY <1>1
        <5>2. Total(first, now) \in Int
          BY <1>1, <1>2, <5>1 DEF Total
        <5> QED
          BY <2>4, <5>2
      <4>3. k + x <= cap + num * (now - first)
        BY <1>1, <2>1, <2>3, <2>4, <2>5, <2>7, <3>1, <4>2 DEF BucketTotals
      <4>4. num * (now + 1 - first) = num * (now - first) + num
        BY <1>1, <2>3
      <4>5. PICK j \in Int : j = num * (now - first)
        BY <1>1, <2>3
      <4> QED
        BY <2>3, <2>5, <2>7, <2>8, <2>9, <4>1, <4>2, <4>3, <4>4, <4>5
    <3>2. CASE first = now + 1
      <4>1. Total(first, now + 1) = 0
        <5>1. first - 1 = now /\ UpTo(now) \in Nat
          BY <1>1, <1>2, <3>2
        <5> QED
          BY <1>2, <5>1 DEF Total
      <4>2. 0 * den = 0 /\ num * (now + 1 - first) = 0
        BY <1>1, <2>3, <2>4, <3>2
      <4> QED
        BY <2>5, <2>8, <4>1, <4>2
    <3> QED
      BY <1>1, <3>1, <3>2
  <2>11. BucketTotals'
    <3>1. Refill(policy.of, shadow, now, 0)' = y
      BY <1>1, <2>8 DEF Refill
    <3>2. \A first \in 0 .. now + 1 :
            Total(first, now)' * den + y <= cap + num * (now + 1 - first)
      BY <1>1, <1>3, <2>10 DEF Total
    <3> QED
      BY <1>1, <2>3, <2>4, <2>5, <3>1, <3>2 DEF BucketTotals
  <2> QED
    BY <2>2, <2>11
<1> QED
  BY <1>1, <1>4, <1>7, <1>8, <1>9 DEF TotalsInv

(* A cost is admitted or denied.                                              *)
LEMMA AcquireTotals ==
  ASSUME SameInv, TotalsInv, backs = 0, NEW c \in Affordable,
         NEW slip \in Slips, Acquire(c, slip)
  PROVE  TotalsInv'
<1>1. /\ PolicyOK /\ now \in Nat /\ MaxTime \in Nat /\ now <= MaxTime
      /\ Written(shadow, now) /\ c \in Nat /\ c <= policy.of.limit
      /\ UNCHANGED <<policy, now, backs>>
  BY BoundAssumption DEF SameInv, Acquire, Affordable
<1>2. PICK r : r = Answer(c, slip)
  OBVIOUS
<1>3. r = Script(shadow, now, c, slip) /\ shadow' = r.state
  BY <1>2, AnswerIs DEF Acquire
<1>4. PICK g \in Nat : g = IF r.allowed THEN c ELSE 0
  BY <1>1
<1>5. admitted' = [t \in 0 .. MaxTime |-> admitted[t] + (IF t >= now THEN g ELSE 0)]
  <2>1. CASE r.allowed
    BY <1>2, <1>4, <2>1 DEF Acquire
  <2>2. CASE ~r.allowed
    <3>1. admitted' = admitted /\ g = 0 /\ admitted \in [0 .. MaxTime -> Nat]
      BY <1>2, <1>4, <2>2 DEF Acquire, TotalsInv
    <3> QED
      BY <3>1
  <2> QED
    BY <2>1, <2>2
<1>6. /\ \A t \in Int : UpTo(t) \in Nat
      /\ \A t \in Int : now <= t => UpTo(t) = UpTo(now)
      /\ \A t \in Int : UpTo(t)' = UpTo(t) + (IF t >= now THEN g ELSE 0)
      /\ admitted' \in [0 .. MaxTime -> Nat]
      /\ \A t \in now' .. MaxTime : admitted'[t] = admitted'[now']
  BY <1>1, <1>5, UpToIs, UpToGrows
<1>7. ASSUME NEW a \in Int, NEW b \in Int
      PROVE  /\ b < now /\ a < now => UpTo(b)' - UpTo(a)' = UpTo(b) - UpTo(a)
             /\ b >= now /\ a >= now => UpTo(b)' - UpTo(a)' = UpTo(b) - UpTo(a)
             /\ b >= now /\ a < now => UpTo(b)' - UpTo(a)' = UpTo(now) - UpTo(a) + g
  <2>1. PICK i \in Nat : i = UpTo(a)
    BY <1>6
  <2>2. PICK j \in Nat : j = UpTo(b)
    BY <1>6
  <2>3. /\ UpTo(a)' = i + (IF a >= now THEN g ELSE 0)
        /\ UpTo(b)' = j + (IF b >= now THEN g ELSE 0)
        /\ b >= now => j = UpTo(now)
    BY <1>1, <1>6, <2>1, <2>2
  <2> QED
    BY <1>1, <1>4, <2>1, <2>2, <2>3
<1>8. ASSUME policy.of \in WindowPolicy
      PROVE  /\ Start' = Start /\ Start \in Int /\ Start <= now
             /\ policy.of.window_ms \in Nat \ {0}
             /\ now \div policy.of.window_ms \in Nat
  <2>1. PICK w \in Nat \ {0} : w = policy.of.window_ms
    BY <1>8 DEF WindowPolicy
  <2>2. now \in Int
    BY <1>1
  <2>3. now % w \in Nat /\ now \div w \in Nat
    BY <1>1, <2>2, Division
  <2> QED
    BY <1>1, <2>1, <2>3 DEF Start
<1>9. ASSUME policy.algorithm = "fixed_window"
      PROVE  FixedTotals' /\ WindowLimit(policy.of)'
  <2>1. policy.of \in WindowPolicy /\ FixedTotals /\ WindowLimit(policy.of)
    BY <1>1, <1>9 DEF TotalsInv, PolicyOK
  <2>2. /\ shadow \in {NoState} \union FixedHash /\ FixedUntil(policy.of, shadow, now)
        /\ r = FixedWindowScript(policy.of, shadow, now, c)
    BY <1>1, <1>3, <1>9, ScriptIs DEF Written
  <2>3. PICK n : n = FixedCount(policy.of, shadow, now)
    OBVIOUS
  <2>4. g = IF FixedWindowScript(policy.of, shadow, now, c).allowed THEN c ELSE 0
    BY <1>4, <2>2
  <2>5. r.allowed => n + g <= policy.of.limit
    BY <1>1, <2>1, <2>2, <2>3, <2>4, FixedAdds
  <2>6. n \in Nat /\ FixedCount(policy.of, r.state, now) = n + g
    BY <1>1, <2>1, <2>2, <2>3, <2>4, FixedAdds
  <2>7. UpTo(now) - UpTo(Start - 1) = n
    BY <2>1, <2>3 DEF FixedTotals, Total
  <2>8. FixedTotals'
    <3>1. UpTo(now)' - UpTo(Start - 1)' = n + g
      <4>1. PICK a \in Int : a = Start - 1
        BY <1>8, <2>1
      <4>2. a < now
        BY <1>1, <1>8, <2>1, <4>1
      <4>3. UpTo(now)' - UpTo(a)' = UpTo(now) - UpTo(a) + g
        BY <1>1, <1>7, <4>2
      <4>4. UpTo(Start - 1)' = UpTo(a)'
        BY <1>1, <1>8, <2>1, <4>1 DEF UpTo
      <4> QED
        BY <2>7, <4>1, <4>3, <4>4
    <3> QED
      BY <1>1, <1>3, <1>8, <2>1, <2>6, <3>1 DEF FixedTotals, Total, FixedCount
  <2>9. ASSUME NEW t \in 0 .. MaxTime, t % policy.of.window_ms = 0
        PROVE  UpTo(t + policy.of.window_ms - 1)' - UpTo(t - 1)' <= policy.of.limit
    <3>1. PICK w \in Nat \ {0} : w = policy.of.window_ms
      BY <1>8, <2>1
    <3>2. PICK a \in Int : a = t - 1
      BY <1>1
    <3>3. PICK b \in Int : b = t + w - 1
      BY <1>1, <3>1
    <3>4. UpTo(b) - UpTo(a) <= policy.of.limit
      BY <2>1, <2>9, <3>1, <3>2, <3>3 DEF WindowLimit, Total
    <3>5. CASE b < now \/ a >= now
      <4>1. UpTo(b)' - UpTo(a)' = UpTo(b) - UpTo(a)
        BY <1>1, <1>7, <3>1, <3>2, <3>3, <3>5
      <4>2. UpTo(t + policy.of.window_ms - 1)' = UpTo(b)' /\ UpTo(t - 1)' = UpTo(a)'
        BY <1>1, <3>1, <3>2, <3>3 DEF UpTo
      <4> QED
        BY <3>4, <4>1, <4>2
    <3>6. CASE a < now /\ now <= b
      <4>1. t \in Nat /\ t <= now /\ now < t + w
        BY <1>1, <3>1, <3>2, <3>3, <3>6
      <4>2. now % w = now - t
        <5>1. t % w = 0
          BY <2>9, <3>1
        <5> QED
          BY <1>1, <3>1, <4>1, <5>1, WithinWindow
      <4>3. Start = t
        BY <1>1, <3>1, <4>1, <4>2 DEF Start
      <4>4. UpTo(b)' - UpTo(a)' = n + g
        BY <1>7, <2>7, <3>2, <3>6, <4>3
      <4>5. UpTo(b) = UpTo(now)
        BY <1>6, <3>6
      <4>6. n <= policy.of.limit
        BY <2>7, <3>2, <3>4, <4>3, <4>5
      <4>7. n + g <= policy.of.limit
        <5>1. CASE r.allowed
          BY <2>5, <5>1
        <5>2. CASE ~r.allowed
          BY <1>4, <2>6, <4>6, <5>2
        <5> QED
          BY <5>1, <5>2
      <4>8. UpTo(t + policy.of.window_ms - 1)' = UpTo(b)' /\ UpTo(t - 1)' = UpTo(a)'
        BY <1>1, <3>1, <3>2, <3>3 DEF UpTo
      <4> QED
        BY <4>4, <4>7, <4>8
    <3> QED
      BY <1>1, <3>5, <3>6
  <2>10. WindowLimit(policy.of)'
    BY <1>1, <2>9 DEF WindowLimit, Total
  <2> QED
    BY <2>8, <2>10
<1>10. ASSUME policy.algorithm = "sliding_window"
       PROVE  SlidingTotals'
  <2>1. policy.of \in WindowPolicy /\ SlidingTotals
    BY <1>1, <1>10 DEF TotalsInv, PolicyOK
  <2>2. /\ shadow \in {NoState} \union SlidingHash /\ SlidingUntil(policy.of, shadow, now)
        /\ r = SlidingWindowScript(policy.of, shadow, now, c, slip)
    BY <1>1, <1>3, <1>10, ScriptIs DEF Written
  <2>3. PICK cur : cur = SlidingCurrent(policy.of, shadow, now)
    OBVIOUS
  <2>4. PICK prev : prev = SlidingPrevious(policy.of, shadow, now)
    OBVIOUS
  <2>5. g = IF SlidingWindowScript(policy.of, shadow, now, c, slip).allowed THEN c ELSE 0
    BY <1>4, <2>2
  <2>6. /\ cur \in Nat /\ prev \in Nat
        /\ SlidingCurrent(policy.of, r.state, now) = cur + g
        /\ SlidingPrevious(policy.of, r.state, now) = prev
    <3>1. slip \in Bit
      BY SlipsAre
    <3>2. PICK p \in WindowPolicy : p = policy.of
      BY <2>1
    <3>3. PICK s \in {NoState} \union SlidingHash : s = shadow
      BY <2>2
    <3>4. PICK t \in Nat : t = now
      BY <1>1
    <3>5. SlidingUntil(p, s, t) /\ g = IF SlidingWindowScript(p, s, t, c, slip).allowed THEN c ELSE 0
      BY <2>2, <2>5, <3>2, <3>3, <3>4
    <3>6. /\ SlidingCurrent(p, s, t) \in Nat /\ SlidingPrevious(p, s, t) \in Nat
          /\ SlidingCurrent(p, SlidingWindowScript(p, s, t, c, slip).state, t)
               = SlidingCurrent(p, s, t) + g
          /\ SlidingPrevious(p, SlidingWindowScript(p, s, t, c, slip).state, t)
               = SlidingPrevious(p, s, t)
      BY <1>1, <3>1, <3>5, SlidingAdds
    <3> QED
      BY <2>2, <2>3, <2>4, <3>2, <3>3, <3>4, <3>6
  <2>7. PICK a \in Int : a = Start - 1
    BY <1>8, <2>1
  <2>8. PICK b \in Int : b = Start - policy.of.window_ms - 1
    BY <1>8, <2>1
  <2>9. a < now /\ b < now
    BY <1>1, <1>8, <2>1, <2>7, <2>8
  <2>10. UpTo(now) - UpTo(a) = cur /\ UpTo(a) - UpTo(b) = prev
    BY <2>1, <2>3, <2>4, <2>7, <2>8 DEF SlidingTotals, Total
  <2>11. UpTo(now)' - UpTo(a)' = cur + g /\ UpTo(a)' - UpTo(b)' = prev
    BY <1>1, <1>7, <2>9, <2>10
  <2>12. UpTo(Start - 1)' = UpTo(a)' /\ UpTo(Start - policy.of.window_ms - 1)' = UpTo(b)'
    BY <1>1, <1>8, <2>1, <2>7, <2>8 DEF UpTo
  <2> QED
    BY <1>1, <1>3, <1>8, <2>1, <2>6, <2>11, <2>12
       DEF SlidingTotals, Total, SlidingCurrent, SlidingPrevious
<1>11. ASSUME policy.algorithm = "token_bucket"
       PROVE  BucketTotals' /\ IntervalLimit(policy.of)'
  <2>1. policy.of \in BucketPolicy /\ BucketTotals /\ IntervalLimit(policy.of)
    BY <1>1, <1>11 DEF TotalsInv, PolicyOK
  <2>2. PICK num \in Nat : num = policy.of.rate_num
    BY <2>1 DEF BucketPolicy
  <2>3. PICK den \in Nat : den = policy.of.rate_den
    BY <2>1 DEF BucketPolicy
  <2>4. PICK cap \in Nat : cap = policy.of.limit * policy.of.rate_den
    BY <2>1 DEF BucketPolicy
  <2>5. /\ shadow \in {NoState} \union BucketHash /\ BucketUntil(policy.of, shadow, now)
        /\ r = TokenBucketScript(policy.of, shadow, now, c, slip)
    BY <1>1, <1>3, <1>11, ScriptIs DEF Written
  <2>6. PICK x \in 0 .. cap : x = Refill(policy.of, shadow, now, 0)
    <3>1. Refill(policy.of, shadow, now, 0) \in 0 .. policy.of.limit * policy.of.rate_den
      BY <1>1, <2>1, <2>5, BitIs, RefillIs
    <3> QED
      BY <2>4, <3>1
  <2>7. PICK y \in Nat : y = g * den
    BY <1>4, <2>3
  <2>8. Refill(policy.of, r.state, now, 0) = x - y
    <3>1. slip \in Bit
      BY SlipsAre
    <3>2. PICK p \in BucketPolicy : p = policy.of
      BY <2>1
    <3>3. PICK s \in {NoState} \union BucketHash : s = shadow
      BY <2>5
    <3>4. PICK t \in Nat : t = now
      BY <1>1
    <3>5. /\ BucketUntil(p, s, t) /\ r = TokenBucketScript(p, s, t, c, slip)
          /\ g = IF TokenBucketScript(p, s, t, c, slip).allowed THEN c ELSE 0
      BY <1>4, <2>5, <3>2, <3>3, <3>4
    <3>6. Refill(p, TokenBucketScript(p, s, t, c, slip).state, t, 0)
            = Refill(p, s, t, 0) - g * p.rate_den
      BY <1>1, <1>4, <3>1, <3>5, BucketTakes
    <3> QED
      BY <2>3, <2>6, <2>7, <3>2, <3>3, <3>4, <3>5, <3>6
  <2>9. y <= x
    <3>1. r.state \in {NoState} \union BucketHash /\ BucketUntil(policy.of, r.state, now)
      BY <1>2, <1>11, AnswerIs DEF Written
    <3>2. Refill(policy.of, r.state, now, 0) \in 0 .. cap
      <4>1. Refill(policy.of, r.state, now, 0) \in 0 .. policy.of.limit * policy.of.rate_den
        BY <1>1, <2>1, <3>1, BitIs, RefillIs
      <4> QED
        BY <2>4, <4>1
    <3> QED
      BY <2>4, <2>6, <2>7, <2>8, <3>2
  <2>10. ASSUME NEW first \in 0 .. now
         PROVE  /\ (UpTo(now)' - UpTo(first - 1)') * den + (x - y) <= cap + num * (now - first)
                /\ UpTo(now)' - UpTo(first - 1)' \in Int
    <3>1. PICK a \in Int : a = first - 1 /\ a < now
      BY <1>1
    <3>2. PICK m \in Int : m = UpTo(now) - UpTo(a)
      BY <1>1, <1>6
    <3>3. m * den + x <= cap + num * (now - first)
      BY <2>1, <2>2, <2>3, <2>4, <2>6, <3>1, <3>2 DEF BucketTotals, Total
    <3>4. UpTo(now)' - UpTo(a)' = m + g
      BY <1>1, <1>7, <3>1, <3>2
    <3>5. UpTo(first - 1)' = UpTo(a)'
      BY <3>1 DEF UpTo
    <3>6. (m + g) * den = m * den + y
      BY <1>4, <2>3, <2>7, <3>2
    <3>7. PICK k \in Int : k = m * den
      BY <2>3, <3>2
    <3>8. PICK j \in Int : j = num * (now - first)
      BY <1>1, <2>2
    <3>9. k + y + (x - y) <= cap + j
      BY <2>4, <2>6, <2>7, <3>3, <3>7, <3>8
    <3> QED
      BY <1>4, <3>2, <3>4, <3>5, <3>6, <3>7, <3>8, <3>9
  <2>11. BucketTotals'
    <3>1. Refill(policy.of, shadow, now, 0)' = x - y
      BY <1>1, <1>3, <2>8 DEF Refill
    <3> QED
      BY <1>1, <2>2, <2>3, <2>4, <2>10, <3>1 DEF BucketTotals, Total
  <2>12. ASSUME NEW first \in 0 .. MaxTime, NEW final \in 0 .. MaxTime, first <= final
         PROVE  (UpTo(final)' - UpTo(first - 1)') * den <= cap + num * (final - first)
    <3>1. PICK a \in Int : a = first - 1
      BY <1>1
    <3>2. final \in Int /\ first \in Int /\ UpTo(first - 1)' = UpTo(a)'
      BY <1>1, <3>1 DEF UpTo
    <3>3. (UpTo(final) - UpTo(a)) * den <= cap + num * (final - first)
      BY <2>1, <2>2, <2>3, <2>4, <2>12, <3>1 DEF IntervalLimit, Total
    <3>4. CASE final < now \/ a >= now
      <4>1. UpTo(final)' - UpTo(a)' = UpTo(final) - UpTo(a)
        BY <1>1, <1>7, <2>12, <3>1, <3>2, <3>4
      <4> QED
        BY <3>2, <3>3, <4>1
    <3>5. CASE a < now /\ now <= final
      <4>1. first \in 0 .. now
        BY <1>1, <3>1, <3>5
      <4>2. PICK m \in Int : m = UpTo(now)' - UpTo(a)'
        BY <2>10, <3>2, <4>1
      <4>3. UpTo(final)' - UpTo(a)' = m
        <5>1. UpTo(final)' - UpTo(a)' = UpTo(now) - UpTo(a) + g
          BY <1>7, <3>2, <3>5
        <5>2. UpTo(now)' - UpTo(a)' = UpTo(now) - UpTo(a) + g
          BY <1>1, <1>7, <3>5
        <5> QED
          BY <4>2, <5>1, <5>2
      <4>4. m * den + (x - y) <= cap + num * (now - first)
        BY <2>10, <3>2, <4>1, <4>2
      <4>5. num * (now - first) <= num * (final - first)
        BY <1>1, <2>2, <3>2, <3>5
      <4>6. PICK k \in Int : k = m * den
        BY <2>3, <4>2
      <4>7. PICK i \in Int : i = num * (now - first)
        BY <1>1, <2>2, <3>2
      <4>8. PICK j \in Int : j = num * (final - first)
        BY <2>2, <3>2
      <4>9. k <= cap + j
        BY <2>4, <2>6, <2>7, <2>9, <4>4, <4>5, <4>6, <4>7, <4>8
      <4> QED
        BY <3>2, <4>3, <4>6, <4>8, <4>9
    <3> QED
      BY <1>1, <3>2, <3>4, <3>5
  <2>13. IntervalLimit(policy.of)'
    BY <1>1, <2>2, <2>3, <2>4, <2>12 DEF IntervalLimit, Total
  <2> QED
    BY <2>11, <2>13
<1> QED
  BY <1>1, <1>6, <1>9, <1>10, <1>11 DEF TotalsInv

LEMMA NextTotals == SameInv /\ TotalsInv /\ [Next]_vars => TotalsInv'
<1> SUFFICES ASSUME SameInv, TotalsInv, [Next]_vars PROVE TotalsInv'
  OBVIOUS
<1>1. ASSUME Tick PROVE TotalsInv'
  <2>1. CASE backs = 0
    BY <1>1, <2>1, TickTotals
  <2>2. CASE backs # 0
    BY <1>1, <2>2 DEF Tick, TotalsInv
  <2> QED
    BY <2>1, <2>2
<1>2. ASSUME NEW c \in ValidCosts, NEW slip \in Slips, Acquire(c, slip)
      PROVE  TotalsInv'
  <2>1. CASE backs = 0
    <3>1. c \in Affordable
      BY ValidIs DEF SameInv
    <3> QED
      BY <1>2, <2>1, <3>1, AcquireTotals
  <2>2. CASE backs # 0
    BY <1>2, <2>2 DEF Acquire, TotalsInv
  <2> QED
    BY <2>1, <2>2
<1>3. ASSUME SetClockBack PROVE TotalsInv'
  <2>1. backs' # 0
    BY <1>3 DEF SetClockBack, SameInv
  <2> QED
    BY <2>1 DEF TotalsInv
<1>4. ASSUME Expire \/ UNCHANGED vars PROVE TotalsInv'
  <2>1. UNCHANGED <<policy, now, shadow, admitted, backs>>
    BY <1>4 DEF Expire, vars
  <2>2. /\ \A i, j : Total(i, j)' = Total(i, j)
        /\ Start' = Start
        /\ \A p, t : FixedCount(p, shadow, t)' = FixedCount(p, shadow, t)
    BY <2>1 DEF Total, UpTo, Start, FixedCount
  <2> QED
    BY <2>1, <2>2 DEF TotalsInv, FixedTotals, SlidingTotals, BucketTotals, WindowLimit,
                      IntervalLimit, FixedCount, SlidingCurrent, SlidingPrevious, Refill, Total, UpTo, Start
<1> QED
  BY <1>1, <1>2, <1>3, <1>4 DEF Next

LEMMA TotalsAlways == Spec => []TotalsInv
<1>1. Init => TotalsInv
  BY InitTotals
<1>2. SameInv /\ TotalsInv /\ [Next]_vars => TotalsInv'
  BY NextTotals
<1> QED
  BY <1>1, <1>2, SameAlways, PTL DEF Spec

(* Whatever the callers ask for and whenever, no more than the limit is       *)
(* admitted: in a window, in the weighted sum of two windows, or in any       *)
(* interval (fixed_window.lua:39, sliding_window.lua:54, token_bucket.lua:30).*)
THEOREM LimitIsKept == Spec => []WithinLimit
<1>1. ASSUME SameInv, TotalsInv PROVE WithinLimit
  <2> SUFFICES ASSUME backs = 0
               PROVE  CASE policy.algorithm = "fixed_window"   -> WindowLimit(policy.of)
                        [] policy.algorithm = "sliding_window" -> WeightedLimit(policy.of)
                        [] policy.algorithm = "token_bucket"   -> IntervalLimit(policy.of)
    BY DEF WithinLimit
  <2>1. PolicyOK /\ now \in Nat /\ now \in Int /\ Written(shadow, now)
    BY <1>1, BoundAssumption DEF SameInv
  <2>2. policy.algorithm = "fixed_window" => WindowLimit(policy.of)
    BY <1>1 DEF TotalsInv
  <2>3. policy.algorithm = "token_bucket" => IntervalLimit(policy.of)
    BY <1>1 DEF TotalsInv
  <2>4. ASSUME policy.algorithm = "sliding_window" PROVE WeightedLimit(policy.of)
    <3>1. policy.of \in WindowPolicy /\ SlidingTotals
      BY <1>1, <2>1, <2>4 DEF TotalsInv, PolicyOK
    <3>2. PICK w \in Nat \ {0} : w = policy.of.window_ms
      BY <3>1 DEF WindowPolicy
    <3>3. now % w \in 0 .. w - 1
      BY <2>1, Division
    <3>4. PICK left \in 1 .. w : left = w - (now % w)
      BY <3>3
    <3>5. PICK start \in Int : start = Start /\ start + w - now = left
      BY <2>1, <3>2, <3>3, <3>4 DEF Start
    <3>6. ASSUME NEW c \in ValidCosts, NEW slip \in Slips, Answer(c, slip).allowed
          PROVE  (Total(start, now) + c) * w + Total(start - w, start - 1) * left
                   <= policy.of.limit * w
      <4>1. shadow \in {NoState} \union SlidingHash /\ SlidingUntil(policy.of, shadow, now)
        BY <2>1, <2>4 DEF Written
      <4>2. c \in Nat /\ c \in Affordable
        BY <2>1, ValidIs DEF Affordable
      <4>3. SlidingWindowScript(policy.of, shadow, now, c, slip).allowed
        BY <1>1, <2>4, <3>6, <4>2, AnswerIs, ScriptIs
      <4>4. slip \in Bit
        BY SlipsAre
      <4>5. SlidingAnswer(policy.of, shadow, now, c, slip)
        BY <2>1, <3>1, <4>1, <4>2, <4>4, SlidingIs
      <4>6. PICK cur \in Nat : cur = SlidingCurrent(policy.of, shadow, now)
        BY <4>5, Zenon DEF SlidingAnswer
      <4>7. PICK prev \in Nat : prev = SlidingPrevious(policy.of, shadow, now)
        BY <4>5, Zenon DEF SlidingAnswer
      <4>8. (cur + c) * w + prev * left <= policy.of.limit * w
        BY <2>1, <3>1, <3>2, <3>4, <4>1, <4>2, <4>3, <4>6, <4>7, <4>4, SlidingWithin
      <4>9. Total(start, now) = cur /\ Total(start - w, start - 1) = prev
        BY <3>1, <3>2, <3>5, <4>6, <4>7 DEF SlidingTotals
      <4> QED
        BY <4>8, <4>9
    <3> QED
      BY <3>2, <3>5, <3>6 DEF WeightedLimit, Start
  <2> QED
    BY <2>1, <2>2, <2>3, <2>4 DEF PolicyOK
<1> QED
  BY <1>1, SameAlways, TotalsAlways, PTL

------------------------------------------------------------------------------
(* A clock that is set back *)

(* The counters are ahead of the clock by no more than what it was set back,  *)
(* and they were when the expiry was last set.                                *)
AheadInv ==
  /\ policy.of \in SlidingWindowPolicies
  /\ now \in Nat /\ expireAt \in Nat /\ backs \in 0 .. MaxBacks
  /\ stored \in {NoState} \union SlidingHash
  /\ stored # NoState =>
       LET first == stored.window_id * policy.of.window_ms
       IN  /\ first <= now + backs * MaxBack
           /\ first <= (expireAt - (2 * policy.of.window_ms + 1)) + backs * MaxBack

LEMMA MovesNow ==
  ASSUME policy.of \in WindowPolicy, now \in Nat,
         NEW s, s \in {NoState} \union SlidingHash, NEW c, c \in Nat,
         NEW slip, slip \in Bit
  PROVE  /\ SlidingWindowScript(policy.of, s, now, c, slip).state \in SlidingHash
         /\ SlidingWindowScript(policy.of, s, now, c, slip).ttl = 2 * policy.of.window_ms + 1
         /\ SlidingWindowScript(policy.of, s, now, c, slip).state.window_id
              = IF s # NoState /\ now \div policy.of.window_ms < s.window_id
                THEN s.window_id ELSE now \div policy.of.window_ms
<1>1. PICK p \in WindowPolicy : p = policy.of
  OBVIOUS
<1>2. PICK t \in Nat : t = now
  OBVIOUS
<1>3. /\ SlidingWindowScript(p, s, t, c, slip).state \in SlidingHash
      /\ SlidingWindowScript(p, s, t, c, slip).ttl = 2 * p.window_ms + 1
      /\ SlidingWindowScript(p, s, t, c, slip).state.window_id
           = IF s # NoState /\ t \div p.window_ms < s.window_id
             THEN s.window_id ELSE t \div p.window_ms
  BY SlidingMoves
<1> QED
  BY <1>1, <1>2, <1>3

LEMMA NextAhead ==
  ASSUME policy.algorithm = "sliding_window", AheadInv, [Next]_vars
  PROVE  AheadInv'
<1>1. /\ policy' = policy /\ policy.of \in SlidingWindowPolicies
      /\ policy.of \in WindowPolicy
  BY PolicyAssumption DEF AheadInv, Next, Tick, SetClockBack, Expire, Acquire, vars
<1>2. PICK w \in Nat \ {0} : w = policy.of.window_ms
  BY <1>1 DEF WindowPolicy
<1>3. /\ now \in Nat /\ expireAt \in Nat /\ backs \in Nat /\ backs <= MaxBacks
      /\ MaxBack \in Nat /\ MaxBacks \in Nat
  BY BoundAssumption DEF AheadInv
<1>4. PICK m \in Nat : m = backs * MaxBack
  BY <1>3
<1>5. stored # NoState =>
        /\ stored \in SlidingHash
        /\ stored.window_id * w \in Nat
        /\ stored.window_id * w <= now + m
        /\ stored.window_id * w <= (expireAt - (2 * w + 1)) + m
  <2>1. stored # NoState => stored \in SlidingHash /\ stored.window_id \in Nat
    BY DEF AheadInv, SlidingHash
  <2> QED
    BY <1>2, <1>4, <2>1 DEF AheadInv
<1>6. CASE Tick
  <2>1. now' = now + 1 /\ UNCHANGED <<policy, stored, expireAt, backs>>
    BY <1>6 DEF Tick
  <2> QED
    BY <1>1, <1>2, <1>3, <1>4, <1>5, <2>1 DEF AheadInv
<1>7. CASE SetClockBack
  <2>1. PICK d \in 1 .. MaxBack : d <= now /\ now' = now - d
    BY <1>7 DEF SetClockBack
  <2>2. backs' = backs + 1 /\ backs < MaxBacks /\ UNCHANGED <<policy, stored, expireAt>>
    BY <1>7 DEF SetClockBack
  <2>3. (backs + 1) * MaxBack = m + MaxBack
    BY <1>3, <1>4
  <2> QED
    BY <1>1, <1>2, <1>3, <1>4, <1>5, <2>1, <2>2, <2>3 DEF AheadInv
<1>8. CASE Expire
  <2>1. stored' = NoState /\ expireAt' = 0 /\ UNCHANGED <<policy, now, backs>>
    BY <1>8 DEF Expire
  <2> QED
    BY <1>1, <1>3, <2>1 DEF AheadInv
<1>9. ASSUME NEW c \in ValidCosts, NEW slip \in Slips, Acquire(c, slip)
      PROVE  AheadInv'
  <2>1. PICK s : s = Unexpired(stored, expireAt, now)
    OBVIOUS
  <2>2. s = NoState \/ s = stored
    BY <2>1 DEF Unexpired
  <2>3. c \in Nat
    BY CostAssumption DEF ValidCosts
  <2>4. s \in {NoState} \union SlidingHash
    BY <1>5, <2>2
  <2>5. Answer(c, slip) = SlidingWindowScript(policy.of, s, now, c, slip)
    BY <2>1, ScriptIs DEF Answer
  <2>6. PICK r : r = Answer(c, slip)
    OBVIOUS
  <2>7. PICK k \in Nat :
          /\ r.state \in SlidingHash /\ r.ttl = 2 * w + 1 /\ k = r.state.window_id
          /\ k = now \div w \/ (s # NoState /\ k = s.window_id)
    <3>1. /\ SlidingWindowScript(policy.of, s, now, c, slip).state \in SlidingHash
          /\ SlidingWindowScript(policy.of, s, now, c, slip).ttl = 2 * policy.of.window_ms + 1
          /\ SlidingWindowScript(policy.of, s, now, c, slip).state.window_id
               = IF s # NoState /\ now \div policy.of.window_ms < s.window_id
                 THEN s.window_id ELSE now \div policy.of.window_ms
      <4>1. slip \in Bit
        BY SlipsAre
      <4> QED
        BY <1>1, <1>3, <2>3, <2>4, <4>1, MovesNow
    <3>2. r.state.window_id \in Nat
      BY <2>5, <2>6, <3>1 DEF SlidingHash
    <3> QED
      BY <1>2, <2>5, <2>6, <3>1, <3>2
  <2>8. k * w <= now + m
    <3>1. CASE k = now \div w
      <4>1. now \in Int
        BY <1>3
      <4>2. now % w \in 0 .. w - 1 /\ now = w * k + (now % w)
        BY <3>1, <4>1, Division
      <4> QED
        BY <1>3, <1>4, <4>2
    <3>2. CASE s # NoState /\ k = s.window_id
      BY <1>5, <2>2, <3>2
    <3> QED
      BY <2>7, <3>1, <3>2
  <2>9. /\ stored' = r.state /\ expireAt' = now + (2 * w + 1)
        /\ UNCHANGED <<policy, now, backs>>
    BY <1>9, <2>6, <2>7 DEF Acquire
  <2>10. k * w <= (expireAt' - (2 * w + 1)) + m /\ expireAt' \in Nat
    BY <1>2, <1>3, <1>4, <2>7, <2>8, <2>9
  <2> QED
    BY <1>1, <1>2, <1>3, <1>4, <2>7, <2>8, <2>9, <2>10 DEF AheadInv
<1>10. CASE UNCHANGED vars
  BY <1>10 DEF vars, AheadInv
<1> QED
  BY <1>6, <1>7, <1>8, <1>9, <1>10 DEF Next

(* The key outlives the window that its counters count.                      *)
LEMMA StillThere ==
  ASSUME AheadInv, StillCounts, \A p \in SlidingWindowPolicies : MaxBacks * MaxBack <= p.window_ms
  PROVE  now <= expireAt
<1> SUFFICES ASSUME now > expireAt PROVE FALSE
  BY DEF AheadInv
<1>1. policy.of \in WindowPolicy /\ MaxBacks * MaxBack <= policy.of.window_ms
  BY PolicyAssumption DEF AheadInv
<1>2. PICK w \in Nat \ {0} : w = policy.of.window_ms
  BY <1>1 DEF WindowPolicy
<1>3. PICK k \in Nat : k = stored.window_id
  BY DEF AheadInv, SlidingHash, StillCounts
<1>4. PICK m \in Nat : m = backs * MaxBack
  BY BoundAssumption DEF AheadInv
<1>5. m <= w
  <2>1. \A i, j, l \in Nat : i <= j => i * l <= j * l
    OBVIOUS
  <2>2. m <= MaxBacks * MaxBack
    BY <1>4, <2>1, BoundAssumption DEF AheadInv
  <2>3. MaxBacks * MaxBack \in Nat
    BY BoundAssumption
  <2> QED
    BY <1>1, <1>2, <2>2, <2>3
<1>6. PICK h \in Nat : h = k * w
  BY <1>2, <1>3
<1>7. now \in Nat /\ expireAt \in Nat /\ h <= (expireAt - (2 * w + 1)) + m
  BY <1>2, <1>3, <1>4, <1>6 DEF AheadInv, StillCounts
<1>8. now >= h + w
  BY <1>2, <1>5, <1>6, <1>7
<1>9. PICK n \in Nat : n = now \div w
  BY <1>7, Division
<1>10. now < w * n + w
  BY <1>7, <1>9, Division
<1>11. n > k
  <2>1. n <= k => w * n <= h
    BY <1>2, <1>3, <1>6, <1>9
  <2>2. w * n \in Nat
    BY <1>2, <1>9
  <2> QED
    BY <1>7, <1>8, <1>10, <2>1, <2>2
<1> QED
  BY <1>2, <1>3, <1>9, <1>11 DEF StillCounts

(* A script that runs before the window of the counters has passed adds to    *)
(* them, whether the clock is in that window or behind it.                    *)
LEMMA ScriptAdds ==
  ASSUME NEW p \in WindowPolicy, NEW s \in SlidingHash, NEW t \in Nat, NEW c \in Nat, NEW g,
         t \div p.window_ms <= s.window_id
  PROVE  LET z == SlidingWindowScript(p, s, t, c, g).state
         IN  /\ z.window_id = s.window_id /\ z.previous = s.previous
             /\ z.current >= s.current
<1>1. /\ s # NoState /\ s.window_id \in Nat /\ s.current \in Nat
      /\ s = [window_id |-> s.window_id, current |-> s.current, previous |-> s.previous]
  BY SlidingAssumption DEF SlidingHash
<1>2. PICK k \in Nat : k = t \div p.window_ms
  <2>1. t \in Int /\ p.window_ms \in Nat \ {0}
    BY DEF WindowPolicy
  <2> QED
    BY <2>1, Division
<1>3. Advance(p, s, t) = s
  BY <1>1, <1>2 DEF Advance
<1>4. PICK z : z = SlidingWindowScript(p, s, t, c, g).state
  OBVIOUS
<1>5. z \in {s, [s EXCEPT !.current = @ + c]}
  BY <1>3, <1>4, Zenon DEF SlidingWindowScript
<1>6. /\ z.window_id = s.window_id /\ z.previous = s.previous
      /\ z.current = s.current \/ z.current = s.current + c
  BY <1>1, <1>5
<1> QED
  BY <1>1, <1>4, <1>6

(* While the clock is set back by no more than a window altogether, no step   *)
(* resets a counter of a sliding window, or moves it to another window,       *)
(* before its window has passed (CountersKept, sliding_window.lua:42).        *)
THEOREM SetBacksKeepCounters ==
  ASSUME \A p \in SlidingWindowPolicies : MaxBacks * MaxBack <= p.window_ms
  PROVE  Spec => CountersKept
<1> DEFINE Inv == policy.algorithm = "sliding_window" => AheadInv
           Kept == /\ stored' # NoState
                   /\ stored'.window_id = stored.window_id
                   /\ stored'.previous = stored.previous
                   /\ stored'.current >= stored.current
<1>1. Init => Inv
  <2> SUFFICES ASSUME Init, policy.algorithm = "sliding_window" PROVE AheadInv
    OBVIOUS
  <2>1. policy.of \in SlidingWindowPolicies
    BY DEF Init
  <2> QED
    BY <2>1, BoundAssumption DEF Init, AheadInv
<1>2. Inv /\ [Next]_vars => Inv'
  <2> SUFFICES ASSUME Inv, [Next]_vars, policy'.algorithm = "sliding_window" PROVE AheadInv'
    OBVIOUS
  <2>1. policy' = policy
    BY DEF Next, Tick, SetClockBack, Expire, Acquire, vars
  <2> QED
    BY <2>1, NextAhead
<1>3. Inv /\ [Next]_vars =>
        [policy.algorithm = "sliding_window" /\ StillCounts => Kept]_vars
  <2> SUFFICES ASSUME AheadInv, Next, policy.algorithm = "sliding_window", StillCounts
               PROVE  Kept
    BY Zenon
  <2>1. /\ stored \in SlidingHash /\ stored # NoState /\ stored.current \in Nat
        /\ now \in Nat /\ policy.of \in WindowPolicy
        /\ now \div policy.of.window_ms <= stored.window_id
    BY PolicyAssumption DEF AheadInv, StillCounts, SlidingHash
  <2>2. now <= expireAt
    BY StillThere
  <2>3. CASE stored' = stored
    BY <2>1, <2>3
  <2>4. ASSUME NEW c \in ValidCosts, NEW slip \in Slips, Acquire(c, slip) PROVE Kept
    <3>1. c \in Nat
      BY CostAssumption DEF ValidCosts
    <3>2. stored' = SlidingWindowScript(policy.of, stored, now, c, slip).state
      BY <2>2, <2>4, ScriptIs DEF Acquire, Answer, Unexpired
    <3>3. stored' \in SlidingHash
      <4>1. slip \in Bit
        BY SlipsAre
      <4> QED
        BY <2>1, <3>1, <3>2, <4>1, SlidingMoves
    <3>4. stored' # NoState
      BY <3>3, SlidingAssumption
    <3> QED
      BY <2>1, <3>1, <3>2, <3>4, ScriptAdds
  <2>5. ~Expire
    BY <2>1, <2>2 DEF Expire, AheadInv
  <2> QED
    BY <2>3, <2>4, <2>5 DEF Next, Tick, SetClockBack
<1> QED
  BY <1>1, <1>2, <1>3, PTL DEF Spec, CountersKept
==============================================================================
