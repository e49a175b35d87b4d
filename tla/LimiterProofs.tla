--------------------------- MODULE LimiterProofs ---------------------------
(***************************************************************************)
(* Proofs about the rate limits, for any window, any rates, any agents,    *)
(* teams and scopes, and any number of concurrent requests.                *)
(*                                                                         *)
(* First the buckets alone (RateLimiter).  Then what a client observes     *)
(* (RateBounds): the inductive invariant gives each bucket three facts     *)
(* that hold at its last refill: what it has granted and holds is paid for *)
(* (Paid), what has come in since the last grant is still there (Kept),    *)
(* and the reset time that the client was told is within reach (Reached).  *)
(* Refill keeps each of them, so they hold of the level at any later time. *)
(* Last, concurrent requests (Admission): one that is admitted has paid in *)
(* every scope because, while nothing has refused it, each scope it must   *)
(* check has either granted it a token or is still on its list (Owed); and *)
(* what the requests were granted is what the bucket of a scope has given. *)
(* The quota that a request was shown (Quotas) is still in its agent's     *)
(* bucket, but for what others have taken since (Unspent); it needs that   *)
(* no call but those of the agent, all at one rate, is on that bucket.     *)
(***************************************************************************)
EXTENDS RateBounds, Quotas, SequenceTheorems, FiniteSetTheorems, TLAPS

----------------------------------------------------------------------------
(* The buckets. *)

\* Refill brings a bucket to the present and leaves its rate alone.
LEMMA RefillType ==
    ASSUME NEW b \in Bucket, now \in Nat, b.lastRefill <= now
    PROVE  /\ Refill(b) \in Bucket
           /\ Refill(b).lastRefill = now
           /\ Refill(b).rate = b.rate
           /\ Refill(b).tokens =
                IF now = b.lastRefill THEN b.tokens
                ELSE Smaller(b.rate * Window, b.tokens + (now - b.lastRefill) * b.rate)
<1> DEFINE e == now - b.lastRefill
<1>1. e \in Nat /\ b.tokens \in Nat /\ b.rate \in Nat /\ b.lastRefill \in Nat
  BY DEF Bucket
<1>2. e * b.rate \in Nat /\ b.rate * Window \in Nat
  BY <1>1, WindowAssumption
<1>3. Smaller(b.rate * Window, b.tokens + e * b.rate) \in Nat
  BY <1>1, <1>2 DEF Smaller
<1>4. CASE now = b.lastRefill
  BY <1>1, <1>4 DEF Refill, Bucket
<1>5. CASE now # b.lastRefill
  <2> DEFINE s == Smaller(b.rate * Window, b.tokens + e * b.rate)
  <2>1. ~(now <= b.lastRefill)
    BY <1>1, <1>5
  <2>2. Refill(b) = [b EXCEPT !.tokens = s, !.lastRefill = now]
    BY <2>1 DEF Refill
  <2>3. s \in Nat
    BY <1>3
  <2> HIDE DEF s
  <2>4. /\ Refill(b) \in Bucket /\ Refill(b).lastRefill = now
        /\ Refill(b).rate = b.rate /\ Refill(b).tokens = s
    BY <2>2, <2>3 DEF Bucket
  <2> QED BY <1>5, <2>4 DEF s
<1> QED BY <1>4, <1>5

\* A call on key leaves every bucket well formed, and makes none for another key.
LEMMA PutTypes ==
    ASSUME TypeOK, NEW key \in Keys, NEW b, b \in Bucket, b.lastRefill <= now,
           Put(key, b), UNCHANGED now
    PROVE  TypeOK'
<1>1. DOMAIN buckets' = DOMAIN buckets \cup {key}
  BY DEF Put
<1>2. \A k \in DOMAIN buckets' : buckets'[k] = IF k = key THEN b ELSE buckets[k]
  BY DEF Put
<1> QED BY <1>1, <1>2 DEF TypeOK

LEMMA CurrentTypes ==
    ASSUME TypeOK, NEW key \in Keys, NEW c \in CustomRates
    PROVE  /\ Current(key, c) \in Bucket
           /\ Current(key, c).lastRefill = now
<1> DEFINE r == EffectiveRate(c)
           b == GetBucket(key, r)
<1>1. r \in Nat
  BY RatesAssumption DEF EffectiveRate
<1>2. now \in Nat
  BY MaxTimeAssumption DEF TypeOK
<1>3. b \in Bucket /\ b.lastRefill <= now
  <2>1. CASE key \in DOMAIN buckets
    BY <1>1, <2>1 DEF TypeOK, GetBucket, Bucket
  <2>2. CASE key \notin DOMAIN buckets
    <3>1. r * Window \in Nat
      BY <1>1, WindowAssumption
    <3> HIDE DEF r
    <3> QED BY <1>1, <1>2, <2>2, <3>1 DEF GetBucket, Bucket
  <2> QED BY <2>1, <2>2
<1> HIDE DEF b
<1>4. Refill(b) \in Bucket /\ Refill(b).lastRefill = now
  BY <1>2, <1>3, RefillType
<1> QED BY <1>4 DEF Current, b

LEMMA TypeStep == TypeOK /\ [Next]_vars => TypeOK'
<1> SUFFICES ASSUME TypeOK, [Next]_vars PROVE TypeOK'
  OBVIOUS
<1>0. now \in Nat
  BY MaxTimeAssumption DEF TypeOK
<1>1. ASSUME NEW k \in Keys, NEW c \in CustomRates, Grant(k, c) PROVE TypeOK'
  <2> DEFINE b == Current(k, c)
             d == [b EXCEPT !.tokens = @ - Window]
  <2>1. b \in Bucket /\ b.lastRefill = now /\ b.tokens >= Window
    BY <1>1, CurrentTypes DEF Grant
  <2>2. Put(k, d) /\ UNCHANGED now
    BY <1>1 DEF Grant
  <2> HIDE DEF b
  <2>3. d \in Bucket /\ d.lastRefill = now
    BY <2>1, WindowAssumption DEF Bucket
  <2> HIDE DEF d
  <2> QED BY <1>0, <2>2, <2>3, PutTypes
<1>2. ASSUME NEW k \in Keys, NEW c \in CustomRates, Refuse(k, c) \/ Status(k, c)
      PROVE  TypeOK'
  BY <1>0, <1>2, CurrentTypes, PutTypes DEF Refuse, Status
<1>3. CASE Advance
  BY <1>0, <1>3, MaxTimeAssumption DEF Advance, TypeOK, Bucket
<1>4. CASE UNCHANGED vars
  BY <1>4 DEF vars, TypeOK
<1> QED BY <1>1, <1>2, <1>3, <1>4 DEF Next

\* Whatever calls are made on the limiter, no bucket goes into debt, none runs ahead of
\* the clock, and none is made for a key nobody asked for.
THEOREM LimiterTypes == Spec => []TypeOK
<1>1. Init => TypeOK
  BY MaxTimeAssumption DEF Init, TypeOK
<1> QED BY <1>1, TypeStep, PTL DEF Spec

----------------------------------------------------------------------------
(* What a client observes. *)

Paid(b, g) ==
    IF b.lastRefill >= mark
    THEN g * Window + b.tokens <= MaxRate * Window + MaxRate * (b.lastRefill - mark)
    ELSE g = 0

Kept(b, last) ==
    last # None =>
        /\ last \in Nat
        /\ last <= b.lastRefill
        /\ b.tokens >= Smaller(Window, MinRate * (b.lastRefill - last))

Reached(b, header) ==
    header # None =>
        /\ header \in Nat
        /\ \/ b.tokens >= b.rate * Window
           \/ b.tokens + b.rate * ((header + 1) * Second - b.lastRefill) >= b.rate * Window

Known(k) ==
    /\ buckets[k].rate \in Rates
    /\ Paid(buckets[k], granted[k])
    /\ Kept(buckets[k], lastGrant[k])
    /\ Reached(buckets[k], told[k])

HTypeOK ==
    /\ TypeOK
    /\ mark \in Nat
    /\ granted \in [Keys -> Nat]
    /\ lastGrant \in [Keys -> Nat \cup {None}]
    /\ told \in [Keys -> Nat \cup {None}]

HInv ==
    /\ HTypeOK
    /\ \A k \in DOMAIN buckets : Known(k)
    /\ \A k \in Keys \ DOMAIN buckets :
          granted[k] = 0 /\ lastGrant[k] = None /\ told[k] = None

----------------------------------------------------------------------------
(* Arithmetic. *)

LEMMA Scale == \A a, b, c \in Nat : a <= b => a * c <= b * c
OBVIOUS

LEMMA Distribute == \A a, b, c \in Int : c * (a + b) = c * a + c * b
OBVIOUS

LEMMA Commute == \A a, b \in Int : a * b = b * a
OBVIOUS

LEMMA SmallerBelow == \A a, b \in Int : Smaller(a, b) <= a /\ Smaller(a, b) <= b
BY DEF Smaller

LEMMA DivBound ==
    ASSUME NEW d \in Nat, NEW r \in Nat \ {0}
    PROVE  /\ d \div r \in Nat
           /\ d < r * ((d \div r) + 1)
OBVIOUS

LEMMA RateInRange ==
    ASSUME NEW c \in CustomRates
    PROVE  /\ EffectiveRate(c) \in Rates
           /\ EffectiveRate(c) \in Nat
           /\ MinRate <= EffectiveRate(c)
           /\ EffectiveRate(c) <= MaxRate
BY RatesAssumption, RateRangeAssumption DEF Rates, EffectiveRate

----------------------------------------------------------------------------
(* What refill does to a bucket. *)

LEMMA RefillPaid ==
    ASSUME NEW b \in Bucket, NEW g \in Nat, now \in Nat, mark \in Nat,
           b.lastRefill <= now, b.rate <= MaxRate, Paid(b, g)
    PROVE  Paid(Refill(b), g)
<1> DEFINE e == now - b.lastRefill
<1>0. /\ e \in Nat /\ b.tokens \in Nat /\ b.rate \in Nat /\ b.lastRefill \in Nat
      /\ MaxRate \in Nat /\ Window \in Nat
  BY WindowAssumption, RateRangeAssumption DEF Bucket
<1>1. e * b.rate <= MaxRate * e /\ b.rate * Window <= MaxRate * Window
  BY <1>0, Scale
<1>2. CASE now = b.lastRefill
  BY <1>0, <1>2, RefillType DEF Paid
<1>3. CASE now # b.lastRefill /\ b.lastRefill >= mark
  <2>1. Refill(b).tokens <= b.tokens + MaxRate * e
    BY <1>0, <1>1, <1>3, RefillType DEF Smaller
  <2>2. MaxRate * (now - mark) = MaxRate * (b.lastRefill - mark) + MaxRate * e
    BY <1>0, Distribute
  <2>3. g * Window + b.tokens <= MaxRate * Window + MaxRate * (b.lastRefill - mark)
    BY <1>3 DEF Paid
  <2>4. Refill(b).tokens \in Nat /\ Refill(b).lastRefill = now
    BY RefillType DEF Bucket
  <2>5. g * Window + Refill(b).tokens <= MaxRate * Window + MaxRate * (now - mark)
    <3> DEFINE gw == g * Window
               mw == MaxRate * Window
               m1 == MaxRate * (b.lastRefill - mark)
               me == MaxRate * e
               mm == MaxRate * (now - mark)
               rt == Refill(b).tokens
    <3>1. gw \in Int /\ mw \in Int /\ m1 \in Int /\ me \in Int /\ mm \in Int /\ rt \in Int
      BY <1>0, <2>4
    <3>2. rt <= b.tokens + me /\ mm = m1 + me /\ gw + b.tokens <= mw + m1
      BY <2>1, <2>2, <2>3
    <3>3. gw + rt <= mw + mm
      <4> HIDE DEF gw, mw, m1, me, mm, rt, e
      <4> QED BY <1>0, <3>1, <3>2
    <3> QED BY <3>3
  <2>6. now >= mark
    BY <1>0, <1>3
  <2> QED BY <2>4, <2>5, <2>6 DEF Paid
<1>4. CASE now # b.lastRefill /\ ~(b.lastRefill >= mark)
  <2>1. g = 0
    BY <1>4 DEF Paid
  <2>2. Refill(b).tokens <= MaxRate * Window
    <3>1. Refill(b).tokens = Smaller(b.rate * Window, b.tokens + e * b.rate)
      BY <1>4, RefillType
    <3>2. b.rate * Window \in Nat /\ b.tokens + e * b.rate \in Nat
      BY <1>0
    <3>3. Refill(b).tokens \in Nat /\ Refill(b).tokens <= b.rate * Window
      BY <3>1, <3>2, SmallerBelow, RefillType DEF Bucket
    <3>4. MaxRate * Window \in Nat
      BY <1>0
    <3> QED BY <1>1, <3>2, <3>3, <3>4
  <2>3. now >= mark => MaxRate * (now - mark) >= 0
    BY <1>0
  <2> QED BY <1>0, <2>1, <2>2, <2>3, RefillType DEF Paid, Bucket
<1> QED BY <1>2, <1>3, <1>4

LEMMA RefillKept ==
    ASSUME NEW b \in Bucket, NEW last \in Nat \cup {None}, now \in Nat,
           b.lastRefill <= now, b.rate \in Rates, Kept(b, last)
    PROVE  Kept(Refill(b), last)
<1> DEFINE e == now - b.lastRefill
           due == MinRate * (b.lastRefill - last)
           more == MinRate * e
           cap == b.rate * Window
<1>0. /\ e \in Nat /\ b.tokens \in Nat /\ b.rate \in Nat /\ b.lastRefill \in Nat
      /\ MinRate \in Nat /\ Window \in Nat \ {0} /\ MinRate <= b.rate
  BY WindowAssumption, RateRangeAssumption DEF Bucket
<1>1. CASE now = b.lastRefill \/ last = None
  BY <1>0, <1>1, RefillType DEF Kept
<1>2. CASE now # b.lastRefill /\ last # None
  <2>1. /\ last \in Nat /\ last <= b.lastRefill
        /\ b.tokens >= Smaller(Window, due)
    BY <1>2 DEF Kept
  <2>2. due \in Nat /\ more \in Nat /\ cap \in Nat /\ e * b.rate \in Nat
    BY <1>0, <2>1
  <2>3. more <= e * b.rate
    BY <1>0, Scale
  <2>4. MinRate * (now - last) = due + more
    BY <1>0, <2>1, Distribute
  <2>5. Refill(b).tokens = Smaller(cap, b.tokens + e * b.rate) /\ Refill(b).lastRefill = now
    BY <1>2, RefillType
  <2>6. cap >= Window \/ MinRate = 0
    <3>1. CASE b.rate = 0
      BY <1>0, <3>1
    <3>2. CASE b.rate >= 1
      BY <1>0, <3>2, Scale
    <3> QED BY <1>0, <3>1, <3>2
  <2>7. MinRate = 0 => due + more = 0
    BY <1>0, <2>1, <2>4
  <2>8. Refill(b).tokens >= Smaller(Window, due + more)
    <3> HIDE DEF due, more, cap, e
    <3> DEFINE gain == e * b.rate
    <3>1. gain \in Nat /\ more <= gain /\ Refill(b).tokens = Smaller(cap, b.tokens + gain)
      BY <2>2, <2>3, <2>5
    <3> HIDE DEF gain
    <3> QED BY <1>0, <2>1, <2>2, <2>6, <2>7, <3>1 DEF Smaller
  <2> QED BY <1>0, <2>1, <2>4, <2>5, <2>8 DEF Kept
<1> QED BY <1>1, <1>2

LEMMA RefillReached ==
    ASSUME NEW b \in Bucket, NEW header \in Nat \cup {None}, now \in Nat,
           b.lastRefill <= now, Reached(b, header)
    PROVE  Reached(Refill(b), header)
<1> DEFINE e == now - b.lastRefill
           at == (header + 1) * Second
           ahead == b.rate * (at - b.lastRefill)
           cap == b.rate * Window
           gain == e * b.rate
<1>0. /\ e \in Nat /\ b.tokens \in Nat /\ b.rate \in Nat /\ b.lastRefill \in Nat
      /\ Second \in Nat /\ Window \in Nat
  BY WindowAssumption, SecondAssumption DEF Bucket
<1>1. CASE now = b.lastRefill \/ header = None
  BY <1>0, <1>1, RefillType DEF Reached
<1>2. CASE now # b.lastRefill /\ header # None
  <2>1. at \in Int /\ header \in Nat
    BY <1>0, <1>2
  <2>2. ahead \in Int /\ cap \in Nat /\ gain \in Nat
    BY <1>0, <2>1
  <2>3. b.rate * (at - now) = ahead - gain
    <3>1. at - now = (at - b.lastRefill) + (0 - e)
      BY <1>0, <2>1
    <3>2. b.rate * (at - now) = ahead + b.rate * (0 - e)
      BY <1>0, <2>1, <3>1, Distribute
    <3>3. b.rate * (0 - e) = 0 - gain
      BY <1>0
    <3> QED BY <2>1, <2>2, <3>2, <3>3
  <2>4. /\ Refill(b).tokens = Smaller(cap, b.tokens + gain)
        /\ Refill(b).lastRefill = now /\ Refill(b).rate = b.rate
    BY <1>2, RefillType
  <2>5. b.tokens >= cap \/ b.tokens + ahead >= cap
    BY <1>2 DEF Reached
  <2>6. Refill(b).tokens >= cap \/ Refill(b).tokens + (ahead - gain) >= cap
    <3> HIDE DEF ahead, gain, cap
    <3> QED BY <1>0, <2>2, <2>4, <2>5 DEF Smaller
  <2> QED BY <2>1, <2>3, <2>4, <2>6 DEF Reached
<1> QED BY <1>1, <1>2

\* The reset time the header rounds down is less than a second early.
LEMMA ToldReached ==
    ASSUME NEW b \in Bucket, now \in Nat, b.lastRefill = now,
           NEW header \in Nat,
           header = (IF b.rate * Window - b.tokens <= 0 THEN now
                     ELSE now + ((b.rate * Window - b.tokens) \div b.rate)) \div Second
    PROVE  Reached(b, header)
<1> DEFINE deficit == b.rate * Window - b.tokens
           q == deficit \div b.rate
           at == (header + 1) * Second
<1>0. /\ b.tokens \in Nat /\ b.rate \in Nat
      /\ Second \in Nat \ {0} /\ Window \in Nat \ {0} /\ deficit \in Int
  BY WindowAssumption, SecondAssumption DEF Bucket
<1>1. CASE deficit <= 0
  <2>1. b.tokens >= b.rate * Window
    BY <1>0, <1>1
  <2> QED BY <2>1 DEF Reached
<1>2. CASE deficit > 0
  <2>1. b.rate # 0
    BY <1>0, <1>2
  <2>2. q \in Nat /\ deficit < b.rate * (q + 1)
    <3>1. deficit \in Nat /\ b.rate \in Nat \ {0}
      BY <1>0, <1>2, <2>1
    <3> HIDE DEF deficit
    <3> QED BY <3>1, DivBound
  <2>3. header = (now + q) \div Second
    BY <1>2, <1>0
  <2>4. now + q < at
    <3> DEFINE n == now + q
    <3> HIDE DEF q
    <3>1. n \in Nat /\ Second \in Nat \ {0} /\ header = n \div Second
      BY <1>0, <2>2, <2>3
    <3> HIDE DEF n
    <3>2. n < Second * (header + 1)
      BY <3>1, DivBound
    <3>3. Second * (header + 1) = at
      BY <3>1, Commute
    <3> QED BY <3>2, <3>3 DEF n
  <2>5. at \in Nat /\ q + 1 <= at - now
    <3> HIDE DEF q
    <3> QED BY <1>0, <2>2, <2>4
  <2>6. (q + 1) * b.rate <= (at - now) * b.rate
    <3> HIDE DEF q, at
    <3>1. q + 1 \in Nat /\ at - now \in Nat
      BY <2>2, <2>5
    <3> QED BY <1>0, <2>5, <3>1, Scale
  <2>7. deficit <= b.rate * (at - now)
    <3>1. /\ (q + 1) * b.rate = b.rate * (q + 1)
          /\ (at - now) * b.rate = b.rate * (at - now)
      <4> HIDE DEF q, at
      <4> QED BY <1>0, <2>2, <2>5, Commute
    <3> DEFINE x == b.rate * (q + 1)
               y == b.rate * (at - now)
    <3>2. x \in Int /\ y \in Int
      <4> HIDE DEF q, at
      <4> QED BY <1>0, <2>2, <2>5
    <3>3. deficit < x /\ x <= y
      BY <2>2, <2>6, <3>1
    <3> HIDE DEF deficit, x, y
    <3>4. deficit <= y
      BY <1>0, <3>2, <3>3
    <3> QED BY <3>4 DEF y
  <2>8. b.tokens + b.rate * (at - now) >= b.rate * Window
    <3> DEFINE x == b.rate * (at - now)
               y == b.rate * Window
    <3>1. x \in Int /\ y \in Int
      BY <1>0, <2>5
    <3> HIDE DEF x, y
    <3>2. y - b.tokens <= x
      BY <2>7 DEF x, y
    <3>3. b.tokens + x >= y
      BY <1>0, <3>1, <3>2
    <3> QED BY <3>3 DEF x, y
  <2> QED BY <2>8 DEF Reached
<1> QED BY <1>0, <1>1, <1>2

----------------------------------------------------------------------------
(* The steps. *)

\* The bucket a call looks up, before refill: its own history is within bounds.
LEMMA GotBucket ==
    ASSUME HInv, NEW k \in Keys, NEW c \in CustomRates,
           NEW b, b = GetBucket(k, EffectiveRate(c))
    PROVE  /\ b \in Bucket
           /\ b.lastRefill <= now
           /\ b.rate = EffectiveRate(c)
           /\ Paid(b, granted[k])
           /\ Kept(b, lastGrant[k])
           /\ Reached(b, StillTold(k, c))
<1> DEFINE r == EffectiveRate(c)
<1>0. /\ r \in Nat /\ r <= MaxRate /\ r * Window \in Nat /\ r * Window <= MaxRate * Window
      /\ now \in Nat /\ mark \in Nat
  <2>1. r \in Nat /\ r <= MaxRate
    BY RateInRange
  <2>2. now \in Nat /\ mark \in Nat
    BY MaxTimeAssumption DEF HInv, HTypeOK, TypeOK
  <2> HIDE DEF r
  <2> QED BY <2>1, <2>2, WindowAssumption, RateRangeAssumption, Scale
<1> HIDE DEF r
<1>1. CASE k \in DOMAIN buckets
  <2>1. b = [buckets[k] EXCEPT !.rate = r]
    BY <1>1 DEF GetBucket, r
  <2>2. buckets[k] \in Bucket /\ buckets[k].lastRefill <= now /\ Known(k)
    BY <1>1 DEF HInv, HTypeOK, TypeOK
  <2>3. /\ b \in Bucket /\ b.lastRefill = buckets[k].lastRefill
        /\ b.tokens = buckets[k].tokens /\ b.rate = r
    BY <1>0, <2>1, <2>2 DEF Bucket
  <2>4. Paid(b, granted[k]) /\ Kept(b, lastGrant[k])
    BY <2>2, <2>3 DEF Known, Paid, Kept
  <2>5. Reached(b, StillTold(k, c))
    <3>1. CASE buckets[k].rate = r
      BY <1>1, <2>2, <2>3, <3>1 DEF Known, Reached, StillTold, r
    <3>2. CASE buckets[k].rate # r
      BY <1>1, <3>2 DEF Reached, StillTold, r
    <3> QED BY <3>1, <3>2
  <2> QED BY <2>2, <2>3, <2>4, <2>5 DEF r
<1>2. CASE k \notin DOMAIN buckets
  <2>1. b = [tokens |-> r * Window, lastRefill |-> now, rate |-> r]
    BY <1>2 DEF GetBucket, r
  <2>2. granted[k] = 0 /\ lastGrant[k] = None /\ StillTold(k, c) = None
    BY <1>2 DEF HInv, StillTold
  <2>3. Kept(b, lastGrant[k]) /\ Reached(b, StillTold(k, c))
    BY <2>2 DEF Kept, Reached
  <2>4. b.tokens = r * Window /\ b.lastRefill = now /\ b.rate = r
    BY <2>1
  <2>5. b \in Bucket
    BY <1>0, <2>1 DEF Bucket
  <2>6. Paid(b, granted[k])
    <3>1. now >= mark => MaxRate * (now - mark) \in Nat
      BY <1>0, RateRangeAssumption
    <3> DEFINE rw == r * Window
               mw == MaxRate * Window
               extra == MaxRate * (now - mark)
    <3>2. rw \in Nat /\ mw \in Nat /\ rw <= mw
      BY <1>0, WindowAssumption, RateRangeAssumption
    <3>3. now >= mark => 0 * Window + rw <= mw + extra
      <4>1. 0 * Window = 0
        BY WindowAssumption
      <4> HIDE DEF rw, mw, extra
      <4> QED BY <3>1, <3>2, <4>1 DEF extra
    <3> QED BY <1>0, <2>2, <2>4, <3>3 DEF Paid
  <2> QED BY <1>0, <2>3, <2>4, <2>5, <2>6 DEF r
<1> QED BY <1>1, <1>2

\* The same of the bucket a call finds, refilled.
LEMMA CurrentBucket ==
    ASSUME HInv, NEW k \in Keys, NEW c \in CustomRates,
           NEW b, b = Current(k, c)
    PROVE  /\ b \in Bucket
           /\ b.lastRefill = now
           /\ b.rate = EffectiveRate(c)
           /\ Paid(b, granted[k])
           /\ Kept(b, lastGrant[k])
           /\ Reached(b, StillTold(k, c))
<1> DEFINE g == GetBucket(k, EffectiveRate(c))
<1>1. /\ g \in Bucket /\ g.lastRefill <= now /\ g.rate = EffectiveRate(c)
      /\ Paid(g, granted[k]) /\ Kept(g, lastGrant[k]) /\ Reached(g, StillTold(k, c))
  BY GotBucket
<1>2. /\ now \in Nat /\ mark \in Nat /\ granted[k] \in Nat
      /\ lastGrant[k] \in Nat \cup {None} /\ told[k] \in Nat \cup {None}
  BY MaxTimeAssumption DEF HInv, HTypeOK, TypeOK
<1>3. StillTold(k, c) \in Nat \cup {None}
  BY <1>2 DEF StillTold
<1>4. b = Refill(g)
  BY DEF Current
<1> HIDE DEF g
<1>5. g.rate \in Rates /\ g.rate <= MaxRate
  BY <1>1, RateInRange
<1>6. b \in Bucket /\ b.lastRefill = now /\ b.rate = EffectiveRate(c)
  BY <1>1, <1>2, <1>4, RefillType
<1>7. Paid(b, granted[k])
  BY <1>1, <1>2, <1>4, <1>5, RefillPaid
<1>8. Kept(b, lastGrant[k])
  BY <1>1, <1>2, <1>4, <1>5, RefillKept
<1>9. Reached(b, StillTold(k, c))
  BY <1>1, <1>2, <1>3, <1>4, RefillReached
<1> QED BY <1>6, <1>7, <1>8, <1>9

\* A call that stores a bucket within bounds, and touches no other key's history,
\* preserves the invariant.
LEMMA PutKeeps ==
    ASSUME HInv, HTypeOK', UNCHANGED <<now, mark>>,
           NEW k \in Keys, NEW b \in Bucket, Put(k, b), b.lastRefill = now,
           b.rate \in Rates,
           Paid(b, granted'[k]), Kept(b, lastGrant'[k]), Reached(b, told'[k]),
           \A j \in Keys \ {k} : /\ granted'[j] = granted[j]
                                 /\ lastGrant'[j] = lastGrant[j]
                                 /\ told'[j] = told[j]
    PROVE  HInv'
<1>1. /\ DOMAIN buckets' = DOMAIN buckets \cup {k} /\ buckets'[k] = b
      /\ \A j \in DOMAIN buckets \ {k} : buckets'[j] = buckets[j]
  BY DEF Put
<1>2. DOMAIN buckets \subseteq Keys
  BY DEF HInv, HTypeOK, TypeOK
<1>3. Known(k)'
  BY <1>1 DEF Known, Paid
<1>4. ASSUME NEW j \in DOMAIN buckets \ {k} PROVE Known(j)'
  <2>1. Known(j) /\ j \in Keys \ {k}
    BY <1>2 DEF HInv
  <2> QED BY <1>1, <2>1 DEF Known, Paid
<1>5. ASSUME NEW j \in Keys \ DOMAIN buckets'
      PROVE  granted'[j] = 0 /\ lastGrant'[j] = None /\ told'[j] = None
  <2>1. j \in Keys \ {k} /\ j \in Keys \ DOMAIN buckets
    BY <1>1
  <2> QED BY <2>1 DEF HInv
<1> QED BY <1>1, <1>3, <1>4, <1>5 DEF HInv

LEMMA PutType ==
    ASSUME HTypeOK, NEW k \in Keys, NEW b \in Bucket, Put(k, b), b.lastRefill = now,
           UNCHANGED now
    PROVE  TypeOK'
BY DEF HTypeOK, TypeOK, Put

LEMMA HInvInit == HInit => HInv
BY MaxTimeAssumption
   DEF HInit, Init, HInv, HTypeOK, TypeOK, None

\* A granted request pays for itself with the token it takes.
LEMMA GrantStep ==
    ASSUME HInv, NEW k \in Keys, NEW c \in CustomRates, HGrant(k, c)
    PROVE  HInv'
<1> DEFINE b == Current(k, c)
           b2 == [b EXCEPT !.tokens = @ - Window]
<1>0. /\ now \in Nat /\ mark \in Nat /\ Window \in Nat /\ MaxRate \in Nat
      /\ HTypeOK /\ granted[k] \in Nat
  BY MaxTimeAssumption, WindowAssumption, RateRangeAssumption
     DEF HInv, HTypeOK, TypeOK
<1>1. /\ b \in Bucket /\ b.lastRefill = now /\ b.rate = EffectiveRate(c)
      /\ Paid(b, granted[k])
  BY CurrentBucket
<1>2. /\ b.tokens >= Window /\ Put(k, b2) /\ UNCHANGED <<now, mark>>
      /\ granted' = [granted EXCEPT ![k] = IF now >= mark THEN @ + 1 ELSE @]
      /\ lastGrant' = [lastGrant EXCEPT ![k] = now]
      /\ told' = [told EXCEPT ![k] = None]
  BY DEF HGrant, Grant
<1> HIDE DEF b
<1>3. /\ b2 \in Bucket /\ b2.lastRefill = now /\ b2.rate = b.rate
      /\ b2.tokens = b.tokens - Window
  BY <1>0, <1>1, <1>2 DEF Bucket
<1> HIDE DEF b2
<1>4. b2.rate \in Rates
  BY <1>1, <1>3, RateInRange
<1>5. HTypeOK'
  <2>1. TypeOK'
    BY <1>0, <1>2, <1>3, PutType
  <2> QED BY <1>0, <1>2, <2>1 DEF HTypeOK
<1>6. /\ granted'[k] = (IF now >= mark THEN granted[k] + 1 ELSE granted[k])
      /\ lastGrant'[k] = now /\ told'[k] = None
      /\ \A j \in Keys \ {k} : /\ granted'[j] = granted[j]
                               /\ lastGrant'[j] = lastGrant[j]
                               /\ told'[j] = told[j]
  BY <1>0, <1>2 DEF HTypeOK
<1>7. Paid(b2, granted'[k])
  <2>1. CASE now >= mark
    <3> DEFINE gw == granted[k] * Window
               all == MaxRate * Window + MaxRate * (now - mark)
    <3>1. gw \in Int /\ all \in Int /\ (granted[k] + 1) * Window = gw + Window
      BY <1>0, <2>1
    <3>2. gw + b.tokens <= all
      BY <1>1, <2>1 DEF Paid
    <3>3. (granted[k] + 1) * Window + b2.tokens <= all
      <4> DEFINE sum == (granted[k] + 1) * Window
      <4>1. sum = gw + Window /\ b.tokens \in Int
        BY <1>1, <3>1 DEF Bucket
      <4> HIDE DEF gw, all, sum
      <4> QED BY <1>0, <1>3, <3>1, <3>2, <4>1 DEF sum
    <3> QED BY <1>3, <1>6, <2>1, <3>3 DEF Paid
  <2>2. CASE ~(now >= mark)
    BY <1>1, <1>3, <1>6, <2>2 DEF Paid
  <2> QED BY <2>1, <2>2
<1>8. Kept(b2, lastGrant'[k])
  <2>1. MinRate * (now - now) = 0
    BY <1>0, RateRangeAssumption
  <2>2. b2.tokens >= 0
    BY <1>3 DEF Bucket
  <2> QED BY <1>0, <1>3, <1>6, <2>1, <2>2 DEF Kept, Smaller, Bucket
<1>9. Reached(b2, told'[k])
  BY <1>6 DEF Reached
<1> QED BY <1>2, <1>3, <1>4, <1>5, <1>6, <1>7, <1>8, <1>9, PutKeeps

\* Refusals and Status calls store the refilled bucket as it is.
LEMMA LookStep ==
    ASSUME HInv, NEW k \in Keys, NEW c \in CustomRates,
           HRefuse(k, c) \/ HStatus(k, c)
    PROVE  HInv'
<1> DEFINE b == Current(k, c)
<1>0. /\ now \in Nat /\ mark \in Nat /\ HTypeOK
  BY MaxTimeAssumption DEF HInv, HTypeOK, TypeOK
<1>1. /\ b \in Bucket /\ b.lastRefill = now /\ b.rate = EffectiveRate(c)
      /\ Paid(b, granted[k]) /\ Kept(b, lastGrant[k]) /\ Reached(b, StillTold(k, c))
  BY CurrentBucket
<1>2. Put(k, b) /\ UNCHANGED <<now, mark, granted, lastGrant>>
  BY DEF HRefuse, HStatus, Refuse, Status
<1>3. b.rate \in Rates
  BY <1>1, RateInRange
<1>4. TypeOK'
  BY <1>0, <1>1, <1>2, PutType
<1>5. CASE HRefuse(k, c)
  <2>1. told' = [told EXCEPT ![k] = StillTold(k, c)]
    BY <1>5 DEF HRefuse
  <2>2. HTypeOK' /\ told'[k] = StillTold(k, c)
    BY <1>0, <1>2, <1>4, <2>1 DEF HTypeOK, StillTold
  <2>3. \A j \in Keys \ {k} : told'[j] = told[j]
    BY <1>0, <2>1 DEF HTypeOK
  <2> HIDE DEF b
  <2> QED BY <1>1, <1>2, <1>3, <2>2, <2>3, PutKeeps
<1>6. CASE HStatus(k, c)
  <2>1. told' = [told EXCEPT ![k] = ResetHeader(k, c)]
    BY <1>6 DEF HStatus
  <2>2. ResetHeader(k, c) =
          (IF b.rate * Window - b.tokens <= 0 THEN now
           ELSE now + ((b.rate * Window - b.tokens) \div b.rate)) \div Second
    BY DEF ResetHeader, ResetAt
  <2> HIDE DEF b
  <2>3. ResetHeader(k, c) \in Nat
    <3> DEFINE d == b.rate * Window - b.tokens
               t == IF d <= 0 THEN now ELSE now + (d \div b.rate)
    <3>1. b.rate \in Nat /\ b.tokens \in Nat /\ b.rate * Window \in Nat /\ d \in Int
      BY <1>1, WindowAssumption DEF Bucket
    <3>2. d > 0 => b.rate # 0
      BY <3>1, WindowAssumption
    <3> HIDE DEF d
    <3>3. d > 0 => d \div b.rate \in Nat
      BY <3>1, <3>2, DivBound
    <3>4. t \in Nat
      BY <1>0, <3>1, <3>3
    <3>5. ResetHeader(k, c) = t \div Second
      BY <2>2 DEF d
    <3> HIDE DEF t
    <3> QED BY <3>4, <3>5, SecondAssumption, DivBound
  <2>4. Reached(b, ResetHeader(k, c))
    BY <1>0, <1>1, <2>2, <2>3, ToldReached
  <2>5. /\ HTypeOK' /\ told'[k] = ResetHeader(k, c)
        /\ \A j \in Keys \ {k} : told'[j] = told[j]
    BY <1>0, <1>2, <1>4, <2>1, <2>3 DEF HTypeOK
  <2> QED BY <1>1, <1>2, <1>3, <2>4, <2>5, PutKeeps
<1> QED BY <1>5, <1>6

LEMMA HInvStep == HInv /\ [HNext]_hvars => HInv'
<1> SUFFICES ASSUME HInv, [HNext]_hvars PROVE HInv'
  OBVIOUS
<1>1. CASE HAdvance
  <2>1. HTypeOK'
    BY <1>1, MaxTimeAssumption
       DEF HInv, HTypeOK, TypeOK, Bucket, HAdvance, Advance, history
  <2> QED BY <1>1, <2>1 DEF HInv, HAdvance, Advance, history, Known, Paid
<1>2. CASE UNCHANGED hvars
  BY <1>2 DEF HInv, HTypeOK, TypeOK, Known, Paid, hvars, vars, history
<1> QED BY <1>1, <1>2, GrantStep, LookStep DEF HNext

LEMMA HInvAlways == HSpec => []HInv
BY HInvInit, HInvStep, PTL DEF HSpec

----------------------------------------------------------------------------
(* What follows for a client. *)

\* Refill keeps the facts, so they hold of the level at the present.
LEMMA LevelNow ==
    ASSUME HInv, NEW k \in DOMAIN buckets
    PROVE  /\ Refill(buckets[k]) \in Bucket
           /\ Refill(buckets[k]).lastRefill = now
           /\ Refill(buckets[k]).rate = buckets[k].rate
           /\ Paid(Refill(buckets[k]), granted[k])
           /\ Kept(Refill(buckets[k]), lastGrant[k])
           /\ Reached(Refill(buckets[k]), told[k])
<1> DEFINE b == buckets[k]
<1>1. /\ k \in Keys /\ now \in Nat /\ mark \in Nat /\ granted[k] \in Nat
      /\ lastGrant[k] \in Nat \cup {None} /\ told[k] \in Nat \cup {None}
      /\ b \in Bucket /\ b.lastRefill <= now
      /\ b.rate \in Rates /\ b.rate <= MaxRate
      /\ Paid(b, granted[k]) /\ Kept(b, lastGrant[k]) /\ Reached(b, told[k])
  BY MaxTimeAssumption, RateRangeAssumption DEF HInv, HTypeOK, TypeOK, Known
<1> HIDE DEF b
<1>2. Paid(Refill(b), granted[k])
  BY <1>1, RefillPaid
<1>3. Kept(Refill(b), lastGrant[k])
  BY <1>1, RefillKept
<1>4. Reached(Refill(b), told[k])
  BY <1>1, RefillReached
<1> QED BY <1>1, <1>2, <1>3, <1>4, RefillType DEF b

\* Buckets are never ahead of the clock, at whatever rates they are called.
THEOREM BucketTypes == HSpec => []TypeOK
<1>1. HInv => TypeOK
  BY DEF HInv, HTypeOK
<1> QED BY <1>1, HInvAlways, PTL

\* From any instant on no key is granted more than one full bucket and what its rate
\* yields, for every window, every rate, and however often the rate changes.
THEOREM RateBoundHolds == HSpec => []RateBound
<1>1. HInv => RateBound
  <2> SUFFICES ASSUME HInv, NEW k \in Keys, now >= mark
               PROVE granted[k] * Window <= MaxRate * Window + MaxRate * (now - mark)
    BY DEF RateBound
  <2>0. /\ now \in Nat /\ mark \in Nat /\ granted[k] \in Nat
        /\ Window \in Nat /\ MaxRate \in Nat
    BY MaxTimeAssumption, WindowAssumption, RateRangeAssumption
       DEF HInv, HTypeOK, TypeOK
  <2> DEFINE all == MaxRate * Window + MaxRate * (now - mark)
             gw == granted[k] * Window
  <2>1. all \in Nat /\ gw \in Nat
    BY <2>0
  <2>2. CASE k \in DOMAIN buckets
    <3> DEFINE b == Refill(buckets[k])
    <3>1. b \in Bucket /\ b.lastRefill = now /\ Paid(b, granted[k])
      BY <2>2, LevelNow
    <3> HIDE DEF b
    <3>2. gw + b.tokens <= all /\ b.tokens \in Nat
      BY <3>1 DEF Paid, Bucket
    <3>3. gw <= all
      <4> HIDE DEF gw, all
      <4> QED BY <2>1, <3>2
    <3> QED BY <3>3
  <2>3. CASE k \notin DOMAIN buckets
    <3>1. granted[k] = 0
      BY <2>3 DEF HInv
    <3> QED BY <2>0, <2>1, <3>1
  <2> QED BY <2>2, <2>3
<1> QED BY <1>1, HInvAlways, PTL

\* However often a key is refused, a token is back Window / MinRate after its last
\* granted request.
THEOREM NoStarvationHolds == HSpec => []NoStarvation
<1>1. HInv => NoStarvation
  BY LevelNow DEF NoStarvation, Level, Kept
<1> QED BY <1>1, HInvAlways, PTL

\* The bucket is full at most one second after the time the reset header names.
THEOREM ResetHeaderHolds == HSpec => []ResetWithinASecond
<1>1. HInv => ResetWithinASecond
  <2> SUFFICES ASSUME HInv, NEW k \in DOMAIN buckets, told[k] # None,
                      now >= (told[k] + 1) * Second
               PROVE Level(k) >= buckets[k].rate * Window
    BY DEF ResetWithinASecond
  <2> DEFINE b == Refill(buckets[k])
             at == (told[k] + 1) * Second
  <2>1. b \in Bucket /\ b.lastRefill = now /\ b.rate = buckets[k].rate
        /\ Reached(b, told[k])
    BY LevelNow
  <2>2. now \in Nat /\ told[k] \in Nat /\ at \in Nat
    BY <2>1, MaxTimeAssumption, SecondAssumption
       DEF HInv, HTypeOK, TypeOK, Reached
  <2> HIDE DEF b
  <2>3. b.tokens >= b.rate * Window \/ b.tokens + b.rate * (at - now) >= b.rate * Window
    BY <2>1 DEF Reached
  <2>4. b.rate * (at - now) <= 0
    <3>1. b.rate \in Nat /\ at - now \in Int /\ at - now <= 0
      BY <2>1, <2>2 DEF Bucket
    <3> HIDE DEF at
    <3> QED BY <3>1
  <2>5. b.tokens >= b.rate * Window
    <3> DEFINE x == b.rate * (at - now)
               y == b.rate * Window
    <3>1. b.tokens \in Nat /\ x \in Int /\ y \in Int
      BY <2>1, <2>2, WindowAssumption DEF Bucket
    <3> HIDE DEF x, y
    <3>2. x <= 0 /\ (b.tokens >= y \/ b.tokens + x >= y)
      BY <2>3, <2>4 DEF x, y
    <3>3. b.tokens >= y
      BY <3>1, <3>2
    <3> QED BY <3>3 DEF y
  <2> QED BY <2>1, <2>5 DEF Level, b
<1> QED BY <1>1, HInvAlways, PTL

----------------------------------------------------------------------------
(* Concurrent requests. *)

KeysOf(s) == {s[i].key : i \in DOMAIN s}

\* What r has still to check before it can be forwarded.
Owed(r) == IF pc[r] = "allowScope" THEN KeysOf(todo[r])
           ELSE IF pc[r] = "statusScope" THEN KeysOf(Tail(todo[r])) ELSE {}

Sound(r) ==
    /\ pc[r] \in {"status", "allow", "resolve"} => required[r] = {} /\ allowed[r]
    /\ pc[r] \in {"resolve", "allowScope", "statusScope", "forwarded"} =>
          AgentKey(AgentOf(r)) \in paid[r]
    /\ (pc[r] # "limited" /\ allowed[r]) => required[r] \subseteq paid[r] \cup Owed(r)
    /\ pc[r] = "forwarded" => allowed[r]

AInv == ATypeOK /\ \A r \in Requests : Sound(r)

----------------------------------------------------------------------------
(* Lists of scopes. *)

Todo == Seq([key : ScopeKeys, rate : CustomRates])

LEMMA HeadTail ==
    ASSUME NEW T, NEW s \in Seq(T), s # <<>>
    PROVE  /\ Len(s) \in Nat \ {0} /\ DOMAIN s = 1..Len(s)
           /\ Head(s) = s[1] /\ Head(s) \in T
           /\ Tail(s) \in Seq(T) /\ DOMAIN Tail(s) = 1..Len(s) - 1
           /\ \A i \in 1..Len(s) - 1 : Tail(s)[i] = s[i + 1]
<1>1. Len(s) \in Nat \ {0} /\ DOMAIN s = 1..Len(s)
  OBVIOUS
<1>2. Head(s) = s[1] /\ s[1] \in T
  BY <1>1
<1>3. Tail(s) \in Seq(T) /\ Len(Tail(s)) = Len(s) - 1
  BY <1>1
<1>4. DOMAIN Tail(s) = 1..Len(s) - 1
  BY <1>3
<1>5. \A i \in 1..Len(s) - 1 : Tail(s)[i] = s[i + 1]
  BY <1>1
<1> QED BY <1>1, <1>2, <1>3, <1>4, <1>5

LEMMA KeysOfTail ==
    ASSUME NEW s \in Todo, s # <<>>
    PROVE  /\ Tail(s) \in Todo
           /\ Head(s) \in [key : ScopeKeys, rate : CustomRates]
           /\ KeysOf(s) = {Head(s).key} \cup KeysOf(Tail(s))
<1> DEFINE n == Len(s)
<1>1. /\ n \in Nat \ {0} /\ DOMAIN s = 1..n
      /\ Head(s) = s[1] /\ Head(s) \in [key : ScopeKeys, rate : CustomRates]
      /\ Tail(s) \in Todo /\ DOMAIN Tail(s) = 1..n - 1
      /\ \A i \in 1..n - 1 : Tail(s)[i] = s[i + 1]
  BY HeadTail DEF Todo
<1> HIDE DEF n
<1>2. ASSUME NEW i \in 1..n PROVE s[i].key \in {Head(s).key} \cup KeysOf(Tail(s))
  <2>1. CASE i = 1
    BY <1>1, <2>1
  <2>2. CASE i # 1
    <3>1. i - 1 \in 1..n - 1 /\ i = (i - 1) + 1
      BY <1>1, <2>2
    <3>2. Tail(s)[i - 1] = s[i]
      BY <1>1, <3>1
    <3> QED BY <1>1, <3>1, <3>2 DEF KeysOf
  <2> QED BY <2>1, <2>2
<1>3. ASSUME NEW i \in 1..n - 1 PROVE Tail(s)[i].key \in KeysOf(s)
  <2>1. i + 1 \in 1..n /\ Tail(s)[i] = s[i + 1]
    BY <1>1
  <2> QED BY <1>1, <2>1 DEF KeysOf
<1>4. Head(s).key \in KeysOf(s)
  <2>1. 1 \in 1..n
    BY <1>1
  <2> QED BY <1>1, <2>1 DEF KeysOf
<1> QED BY <1>1, <1>2, <1>3, <1>4 DEF KeysOf

LEMMA NoKeys == KeysOf(<<>>) = {}
BY DEF KeysOf

LEMMA ChecksType ==
    ASSUME NEW a \in Agents
    PROVE  Checks(a) \in Seq(ScopeKeys)
<1>1. TeamOf(a) # NoTeam => TeamKey(TeamOf(a)) \in ScopeKeys
  BY RequestsAssumption DEF ScopeKeys
<1>2. GlobalKey \in ScopeKeys /\ OwnKey(a) \in ScopeKeys
  BY DEF ScopeKeys
<1>3. \A s \in ScopeKeys : Limited(s) \in Seq(ScopeKeys)
  BY DEF Limited
<1> QED BY <1>1, <1>2, <1>3 DEF Checks

\* The list that Resolve makes is one of scopes with their rates, and names them all.
LEMMA ResolvedType ==
    ASSUME ATypeOK, NEW scopes \in Seq(ScopeKeys),
           NEW list,
           list = [i \in DOMAIN scopes |-> [key |-> scopes[i], rate |-> configured[scopes[i]]]]
    PROVE  /\ list \in Todo
           /\ KeysOf(list) = {scopes[i] : i \in DOMAIN scopes}
           /\ scopes # <<>> => list # <<>>
           /\ {scopes[i] : i \in DOMAIN scopes} \subseteq ScopeKeys
<1>1. DOMAIN scopes = 1..Len(scopes) /\ Len(scopes) \in Nat
  OBVIOUS
<1>2. \A i \in 1..Len(scopes) : scopes[i] \in ScopeKeys
  OBVIOUS
<1>3. \A s \in ScopeKeys : configured[s] \in CustomRates
  BY DEF ATypeOK, Configurations
<1>4. list \in [1..Len(scopes) -> [key : ScopeKeys, rate : CustomRates]]
  BY <1>1, <1>2, <1>3
<1>5. list \in Todo
  BY <1>1, <1>4, SeqDef DEF Todo
<1>6. KeysOf(list) = {scopes[i] : i \in DOMAIN scopes}
  BY DEF KeysOf
<1>7. scopes # <<>> => list # <<>>
  <2>1. list = <<>> => DOMAIN list = {}
    OBVIOUS
  <2>2. scopes # <<>> => 1 \in DOMAIN scopes
    BY EmptySeq
  <2> QED BY <2>1, <2>2
<1> QED BY <1>1, <1>2, <1>5, <1>6, <1>7

----------------------------------------------------------------------------
(* The steps. *)

\* Every call that a request makes is on a bucket of the limiter, at a rate that it
\* knows: a step of Admission is a step of RateLimiter, or leaves the limiter alone.
LEMMA LimiterStep == ATypeOK /\ [ANext]_avars => [Next]_vars
<1> SUFFICES ASSUME ATypeOK, [ANext]_avars PROVE [Next]_vars
  OBVIOUS
<1>1. ASSUME NEW r \in Requests, AgentStatus(r) \/ AgentGrant(r) \/ AgentRefuse(r)
      PROVE  Next
  <2>1. AgentKey(AgentOf(r)) \in Keys /\ AgentRate(AgentOf(r)) \in CustomRates
    BY KeysAssumption, RequestsAssumption
  <2> QED BY <1>1, <2>1 DEF AgentStatus, AgentGrant, AgentRefuse, Next
<1>2. ASSUME NEW r \in Requests, ScopeGrant(r) \/ ScopeRefuse(r) \/ ScopeStatus(r)
      PROVE  Next
  <2>1. pc[r] \in {"allowScope", "statusScope"}
    BY <1>2 DEF ScopeGrant, ScopeRefuse, ScopeStatus
  <2>2. todo[r] \in Todo /\ todo[r] # <<>>
    BY <2>1 DEF ATypeOK, Todo
  <2>3. Head(todo[r]).key \in Keys /\ Head(todo[r]).rate \in CustomRates
    BY <2>2, KeysOfTail, KeysAssumption
  <2> QED BY <1>2, <2>3 DEF ScopeGrant, ScopeRefuse, ScopeStatus, Next
<1>3. ASSUME NEW r \in Requests, Resolve(r) \/ ResolveFails(r) PROVE UNCHANGED vars
  BY <1>3 DEF Resolve, ResolveFails
<1>4. ASSUME NEW s \in ScopeKeys, NEW rate \in ToolRates(s), Configure(s, rate)
      PROVE  UNCHANGED vars
  BY <1>4 DEF Configure
<1>5. CASE AAdvance
  BY <1>5 DEF AAdvance, Next
<1>6. CASE UNCHANGED avars
  BY <1>6 DEF avars
<1> QED BY <1>1, <1>2, <1>3, <1>4, <1>5, <1>6 DEF ANext, RequestStep

LEMMA ATypeStep == ATypeOK /\ [ANext]_avars => ATypeOK'
<1> SUFFICES ASSUME ATypeOK, [ANext]_avars PROVE ATypeOK'
  OBVIOUS
<1>0. TypeOK'
  BY LimiterStep, TypeStep DEF ATypeOK
<1> USE <1>0 DEF ATypeOK
<1>1. ASSUME NEW r \in Requests, AgentStatus(r) \/ AgentGrant(r) \/ AgentRefuse(r)
      PROVE  ATypeOK'
  <2>1. AgentKey(AgentOf(r)) \in Keys
    BY KeysAssumption, RequestsAssumption
  <2>2. /\ \E l \in PCs \ {"allowScope", "statusScope"} : pc' = [pc EXCEPT ![r] = l]
        /\ \/ paid' = paid
           \/ \E k \in Keys : paid' = [paid EXCEPT ![r] = @ \cup {k}]
        /\ UNCHANGED <<configured, todo, allowed, required, peak>>
    <3>1. CASE AgentStatus(r)
      BY <3>1 DEF AgentStatus, Goto, PCs
    <3>2. CASE AgentGrant(r)
      BY <2>1, <3>2 DEF AgentGrant, Goto, Pay, PCs
    <3>3. CASE AgentRefuse(r)
      BY <3>3 DEF AgentRefuse, Goto, PCs
    <3> QED BY <1>1, <3>1, <3>2, <3>3
  <2>3. PICK l \in PCs \ {"allowScope", "statusScope"} : pc' = [pc EXCEPT ![r] = l]
    BY <2>2
  <2>4. paid' \in [Requests -> SUBSET Keys]
    <3>1. CASE paid' = paid
      BY <3>1
    <3>2. ASSUME NEW k \in Keys, paid' = [paid EXCEPT ![r] = @ \cup {k}]
          PROVE  paid' \in [Requests -> SUBSET Keys]
      BY <3>2
    <3> QED BY <2>2, <3>1, <3>2
  <2>5. pc' \in [Requests -> PCs]
    BY <2>3
  <2>6. \A q \in Requests : pc'[q] \in {"allowScope", "statusScope"} => todo'[q] # <<>>
    BY <2>2, <2>3
  <2> QED BY <2>2, <2>4, <2>5, <2>6
<1>2. ASSUME NEW r \in Requests, Resolve(r) PROVE ATypeOK'
  <2> DEFINE scopes == Checks(AgentOf(r))
             list == [i \in DOMAIN scopes |->
                        [key |-> scopes[i], rate |-> configured[scopes[i]]]]
             named == {scopes[i] : i \in DOMAIN scopes}
             l == IF scopes = <<>> THEN "forwarded" ELSE "allowScope"
  <2>1. scopes \in Seq(ScopeKeys)
    BY ChecksType, RequestsAssumption
  <2>2. list \in Todo /\ (scopes # <<>> => list # <<>>) /\ named \subseteq ScopeKeys
    <3> HIDE DEF scopes
    <3> QED BY <2>1, ResolvedType
  <2>3. /\ todo' = [todo EXCEPT ![r] = list] /\ required' = [required EXCEPT ![r] = named]
        /\ pc' = [pc EXCEPT ![r] = l]
        /\ UNCHANGED <<vars, configured, allowed, paid>>
    BY <1>2 DEF Resolve, Goto
  <2>4. peak' \in [ScopeKeys -> Nat]
    <3>1. \A s \in ScopeKeys : configured[s] \in Nat
      BY RatesAssumption DEF Configurations
    <3>2. \A s \in ScopeKeys :
             (IF s \in required'[r] /\ configured[s] > peak[s]
              THEN configured[s] ELSE peak[s]) \in Nat
      BY <3>1
    <3> QED BY <1>2, <3>2 DEF Resolve
  <2>5. l \in {"forwarded", "allowScope"} /\ (l = "allowScope" => list # <<>>)
    BY <2>2
  <2> HIDE DEF scopes, list, named, l
  <2> QED BY <2>2, <2>3, <2>4, <2>5 DEF PCs, Todo
<1>3. ASSUME NEW r \in Requests, ResolveFails(r) PROVE ATypeOK'
  BY <1>3 DEF ResolveFails, Goto, PCs
<1>4. ASSUME NEW r \in Requests, ScopeGrant(r) \/ ScopeRefuse(r) PROVE ATypeOK'
  <2>1. pc[r] = "allowScope" /\ todo[r] \in Todo /\ todo[r] # <<>>
    BY <1>4 DEF ScopeGrant, ScopeRefuse, Todo
  <2>2. Head(todo[r]).key \in Keys
    BY <2>1, KeysOfTail, KeysAssumption
  <2>3. /\ pc' = [pc EXCEPT ![r] = "statusScope"]
        /\ \/ paid' = paid
           \/ \E k \in Keys : paid' = [paid EXCEPT ![r] = @ \cup {k}]
        /\ \/ allowed' = allowed
           \/ allowed' = [allowed EXCEPT ![r] = FALSE]
        /\ UNCHANGED <<configured, todo, required, peak>>
    BY <1>4, <2>2 DEF ScopeGrant, ScopeRefuse, Goto, Pay
  <2>4. paid' \in [Requests -> SUBSET Keys]
    <3>1. CASE paid' = paid
      BY <3>1
    <3>2. ASSUME NEW k \in Keys, paid' = [paid EXCEPT ![r] = @ \cup {k}]
          PROVE  paid' \in [Requests -> SUBSET Keys]
      BY <3>2
    <3> QED BY <2>3, <3>1, <3>2
  <2>5. pc' \in [Requests -> PCs] /\ allowed' \in [Requests -> BOOLEAN]
    BY <2>3 DEF PCs
  <2>6. \A q \in Requests : pc'[q] \in {"allowScope", "statusScope"} => todo'[q] # <<>>
    BY <2>1, <2>3
  <2> QED BY <2>3, <2>4, <2>5, <2>6
<1>5. ASSUME NEW r \in Requests, ScopeStatus(r) PROVE ATypeOK'
  <2>1. pc[r] = "statusScope" /\ todo[r] \in Todo /\ todo[r] # <<>>
    BY <1>5 DEF ScopeStatus, Todo
  <2>2. Tail(todo[r]) \in Todo
    BY <2>1, KeysOfTail
  <2> DEFINE rest == Tail(todo[r])
             l == IF rest # <<>> THEN "allowScope"
                  ELSE IF allowed[r] THEN "forwarded" ELSE "limited"
  <2>3. /\ todo' = [todo EXCEPT ![r] = rest] /\ pc' = [pc EXCEPT ![r] = l]
        /\ UNCHANGED <<configured, allowed, paid, required, peak>>
    BY <1>5 DEF ScopeStatus, Goto
  <2>4. l \in {"allowScope", "forwarded", "limited"} /\ (l = "allowScope" => rest # <<>>)
    OBVIOUS
  <2>5. rest \in Todo
    BY <2>2
  <2> HIDE DEF rest, l
  <2> QED BY <2>3, <2>4, <2>5 DEF PCs, Todo
<1>6. ASSUME NEW s \in ScopeKeys, NEW rate \in ToolRates(s), Configure(s, rate)
      PROVE  ATypeOK'
  BY <1>6, ToolRatesAssumption DEF Configure, Configurations
<1>7. CASE AAdvance \/ UNCHANGED avars
  BY <1>7 DEF AAdvance, avars, admission
<1> QED BY <1>1, <1>2, <1>3, <1>4, <1>5, <1>6, <1>7 DEF ANext, RequestStep

LEMMA SoundStep == AInv /\ [ANext]_avars => \A r \in Requests : Sound(r)'
<1> SUFFICES ASSUME AInv, [ANext]_avars, NEW q \in Requests PROVE Sound(q)'
  OBVIOUS
<1>0. ATypeOK /\ Sound(q)
  BY DEF AInv
<1>1. ASSUME pc'[q] = pc[q], todo'[q] = todo[q], allowed'[q] = allowed[q],
             paid'[q] = paid[q], required'[q] = required[q]
      PROVE  Sound(q)'
  BY <1>0, <1>1 DEF Sound, Owed
<1>2. ASSUME NEW r \in Requests, RequestStep(r), r # q PROVE Sound(q)'
  BY <1>0, <1>1, <1>2
     DEF RequestStep, AgentStatus, AgentGrant, AgentRefuse, Resolve, ResolveFails,
         ScopeGrant, ScopeRefuse, ScopeStatus, Goto, Pay, ATypeOK
<1>3. CASE AgentStatus(q) \/ AgentGrant(q) \/ AgentRefuse(q)
  BY <1>0, <1>3 DEF AgentStatus, AgentGrant, AgentRefuse, Goto, Pay, Sound, Owed, ATypeOK
<1>4. CASE Resolve(q)
  <2> DEFINE scopes == Checks(AgentOf(q))
             list == [i \in DOMAIN scopes |->
                        [key |-> scopes[i], rate |-> configured[scopes[i]]]]
             named == {scopes[i] : i \in DOMAIN scopes}
  <2>1. scopes \in Seq(ScopeKeys)
    BY ChecksType, RequestsAssumption
  <2>2. KeysOf(list) = named
    <3> HIDE DEF scopes
    <3> QED BY <1>0, <2>1, ResolvedType
  <2>3. scopes = <<>> => named = {}
    OBVIOUS
  <2>4. /\ pc[q] = "resolve"
        /\ todo'[q] = list /\ required'[q] = named
        /\ pc'[q] = IF scopes = <<>> THEN "forwarded" ELSE "allowScope"
        /\ UNCHANGED <<allowed, paid>>
    BY <1>0, <1>4 DEF Resolve, Goto, ATypeOK
  <2>5. allowed[q]
    BY <1>0, <2>4 DEF Sound
  <2> HIDE DEF scopes, list, named
  <2> QED BY <1>0, <2>2, <2>3, <2>4, <2>5 DEF Sound, Owed
<1>5. CASE ResolveFails(q)
  BY <1>0, <1>5 DEF ResolveFails, Goto, Sound, Owed, ATypeOK
<1>6. CASE ScopeGrant(q) \/ ScopeRefuse(q)
  <2>1. pc[q] = "allowScope" /\ todo[q] \in Todo /\ todo[q] # <<>>
    BY <1>0, <1>6 DEF ScopeGrant, ScopeRefuse, Todo, ATypeOK
  <2>2. KeysOf(todo[q]) = {Head(todo[q]).key} \cup KeysOf(Tail(todo[q]))
    BY <2>1, KeysOfTail
  <2>3. CASE ScopeGrant(q)
    BY <1>0, <2>1, <2>2, <2>3 DEF ScopeGrant, Goto, Pay, Sound, Owed, ATypeOK
  <2>4. CASE ScopeRefuse(q)
    BY <1>0, <2>1, <2>4 DEF ScopeRefuse, Goto, Sound, Owed, ATypeOK
  <2> QED BY <1>6, <2>3, <2>4
<1>7. CASE ScopeStatus(q)
  <2>1. /\ pc[q] = "statusScope"
        /\ todo'[q] = Tail(todo[q])
        /\ pc'[q] = IF Tail(todo[q]) # <<>> THEN "allowScope"
                    ELSE IF allowed[q] THEN "forwarded" ELSE "limited"
        /\ UNCHANGED <<allowed, paid, required>>
    BY <1>0, <1>7 DEF ScopeStatus, Goto, ATypeOK
  <2> QED BY <1>0, <2>1, NoKeys DEF Sound, Owed
<1>8. CASE (\E s \in ScopeKeys : \E rate \in ToolRates(s) : Configure(s, rate))
           \/ AAdvance \/ UNCHANGED avars
  BY <1>1, <1>8 DEF Configure, AAdvance, avars, admission
<1> QED BY <1>2, <1>3, <1>4, <1>5, <1>6, <1>7, <1>8 DEF ANext, RequestStep

LEMMA AInvAlways == ASpec => []AInv
<1>1. AInit => AInv
  <2> SUFFICES ASSUME AInit PROVE AInv
    OBVIOUS
  <2>1. TypeOK
    BY MaxTimeAssumption DEF AInit, Init, TypeOK
  <2>2. configured \in Configurations
    BY DEF AInit
  <2>3. ATypeOK
    BY <2>1, <2>2 DEF AInit, ATypeOK, PCs
  <2> QED BY <2>3 DEF AInit, AInv, Sound, Owed
<1>2. AInv /\ [ANext]_avars => AInv'
  BY ATypeStep, SoundStep DEF AInv
<1> QED BY <1>1, <1>2, PTL DEF ASpec

----------------------------------------------------------------------------
(* The theorems. *)

\* A request in CheckToolRateLimit's loop always has a scope to check, at a rate that
\* an administrator set, whatever other requests and administrators do meanwhile.
THEOREM AdmissionTypes == ASpec => []ATypeOK
<1>1. AInv => ATypeOK
  BY DEF AInv
<1> QED BY <1>1, AInvAlways, PTL

\* Every request that goes through has been granted a token by its agent's bucket and
\* by that of every scope it found limited.
THEOREM AllScopesPaidHolds == ASpec => []AllScopesPaid
<1>1. AInv => AllScopesPaid
  BY DEF AInv, AllScopesPaid, Sound, Owed
<1> QED BY <1>1, AInvAlways, PTL

----------------------------------------------------------------------------
(* The stricter limit. *)

Payers(s) == {r \in Requests : s \in paid[r]}

\* What a bucket has granted and holds is at most what a bucket of rate p can have
\* yielded by its last refill.
Covered(b, g, p) == g * Window + b.tokens <= p * Window + p * b.lastRefill

\* The bucket of a scope never ran at more than the highest rate resolved for it.
Funded(s) ==
    IF s \in DOMAIN buckets THEN Covered(buckets[s], Cardinality(Payers(s)), peak[s])
    ELSE Payers(s) = {}

\* The rates on the list of a request are limits, and were counted when it read them.
Rated(r) ==
    \A i \in DOMAIN todo[r] :
        todo[r][i].rate > 0 /\ todo[r][i].rate <= peak[todo[r][i].key]

StrictInv ==
    /\ AInv
    /\ \A s \in ScopeKeys : Funded(s)
    /\ \A r \in Requests : Rated(r)

LEMMA ElementOf == \A T : \A s \in Seq(T) : \A i \in DOMAIN s : s[i] \in T
OBVIOUS

LEMMA AtMostOneMore ==
    ASSUME NEW S, IsFiniteSet(S), NEW x
    PROVE  /\ Cardinality(S \cup {x}) \in Nat
           /\ Cardinality(S \cup {x}) <= Cardinality(S) + 1
<1>1. Cardinality(S) \in Nat
  BY FS_CardinalityType
<1>2. Cardinality(S \cup {x}) = IF x \in S THEN Cardinality(S) ELSE Cardinality(S) + 1
  BY FS_AddElement
<1> QED BY <1>1, <1>2

LEMMA PayersFinite ==
    ASSUME NEW s
    PROVE  IsFiniteSet(Payers(s)) /\ Cardinality(Payers(s)) \in Nat
<1>1. Payers(s) \in SUBSET Requests
  BY DEF Payers
<1> QED BY <1>1, RequestsAssumption, FS_Subset, FS_CardinalityType

\* A refill at a rate of at most p yields at most what p would.
LEMMA RefillCovered ==
    ASSUME NEW b \in Bucket, NEW g \in Nat, NEW p \in Nat, now \in Nat,
           b.lastRefill <= now, b.rate <= p, Covered(b, g, p)
    PROVE  Covered(Refill(b), g, p)
<1> DEFINE e == now - b.lastRefill
           gw == g * Window
           pw == p * Window
           before == p * b.lastRefill
           since == p * e
           gain == e * b.rate
<1>0. /\ e \in Nat /\ b.tokens \in Nat /\ b.rate \in Nat /\ b.lastRefill \in Nat
      /\ Window \in Nat
  BY WindowAssumption DEF Bucket
<1>1. /\ gw \in Nat /\ pw \in Nat /\ before \in Nat /\ since \in Nat /\ gain \in Nat
      /\ b.rate * Window \in Nat
  BY <1>0
<1>2. gain <= since
  <2>1. e * b.rate <= e * p
    BY <1>0, Scale, Commute
  <2> QED BY <1>0, <2>1, Commute
<1>3. p * now = before + since
  BY <1>0, Distribute
<1>4. gw + b.tokens <= pw + before
  BY DEF Covered
<1>5. Refill(b).lastRefill = now /\ Refill(b).tokens \in Nat
      /\ Refill(b).tokens <= b.tokens + gain
  BY <1>0, <1>1, RefillType DEF Smaller, Bucket
<1>6. gw + Refill(b).tokens <= pw + (before + since)
  <2> HIDE DEF gw, pw, before, since, gain, e
  <2> QED BY <1>0, <1>1, <1>2, <1>4, <1>5
<1> QED BY <1>3, <1>5, <1>6 DEF Covered

\* What a call finds in the bucket, whether it is new, or at another rate, or refilled.
LEMMA CurrentCovered ==
    ASSUME TypeOK, NEW k \in Keys, NEW c \in CustomRates, NEW g \in Nat, NEW p \in Nat,
           EffectiveRate(c) <= p,
           IF k \in DOMAIN buckets THEN Covered(buckets[k], g, p) ELSE g = 0
    PROVE  /\ Current(k, c) \in Bucket /\ Current(k, c).lastRefill = now
           /\ Covered(Current(k, c), g, p)
<1> DEFINE r == EffectiveRate(c)
           b == GetBucket(k, r)
<1>1. r \in Nat /\ now \in Nat /\ Window \in Nat
  BY RateInRange, MaxTimeAssumption, WindowAssumption DEF TypeOK
<1>2. b \in Bucket /\ b.lastRefill <= now /\ b.rate = r /\ Covered(b, g, p)
  <2>1. CASE k \in DOMAIN buckets
    BY <1>1, <2>1 DEF TypeOK, GetBucket, Bucket, Covered
  <2>2. CASE k \notin DOMAIN buckets
    <3>1. b = [tokens |-> r * Window, lastRefill |-> now, rate |-> r] /\ g = 0
      BY <2>2 DEF GetBucket
    <3>2. r * Window \in Nat /\ r * Window <= p * Window /\ p * now \in Nat
      BY <1>1, Scale
    <3>3. 0 * Window = 0 /\ p * Window \in Nat
      BY <1>1
    <3> HIDE DEF b, r
    <3> QED BY <1>1, <3>1, <3>2, <3>3 DEF Bucket, Covered
  <2> QED BY <2>1, <2>2
<1> HIDE DEF b
<1> QED BY <1>1, <1>2, CurrentTypes, RefillCovered DEF Current, b

\* A scope that a step leaves alone stays funded; its peak may rise.
LEMMA FundedStays ==
    ASSUME ATypeOK, NEW s \in ScopeKeys, Funded(s),
           s \in DOMAIN buckets' <=> s \in DOMAIN buckets,
           s \in DOMAIN buckets => buckets'[s] = buckets[s],
           Payers(s)' = Payers(s),
           peak'[s] \in Nat, peak[s] <= peak'[s]
    PROVE  Funded(s)'
<1>1. CASE s \in DOMAIN buckets
  <2> DEFINE b == buckets[s]
             g == Cardinality(Payers(s))
  <2>1. /\ b.tokens \in Nat /\ b.lastRefill \in Nat /\ g \in Nat
        /\ peak[s] \in Nat /\ Window \in Nat
    BY <1>1, PayersFinite, WindowAssumption DEF ATypeOK, TypeOK, Bucket
  <2>2. peak[s] * Window <= peak'[s] * Window /\ peak[s] * b.lastRefill <= peak'[s] * b.lastRefill
    BY <2>1, Scale
  <2>3. /\ g * Window \in Nat /\ peak[s] * Window \in Nat /\ peak'[s] * Window \in Nat
        /\ peak[s] * b.lastRefill \in Nat /\ peak'[s] * b.lastRefill \in Nat
    BY <2>1
  <2>4. Covered(b, g, peak'[s])
    BY <1>1, <2>1, <2>2, <2>3 DEF Funded, Covered
  <2> QED BY <1>1, <2>4 DEF Funded, Covered
<1>2. CASE s \notin DOMAIN buckets
  BY <1>2 DEF Funded
<1> QED BY <1>1, <1>2

\* Only a limited scope is checked, at the rate that was read.
LEMMA ChecksLimited ==
    ASSUME NEW a \in Agents, NEW i \in DOMAIN Checks(a)
    PROVE  Checks(a)[i] \in ScopeKeys /\ configured[Checks(a)[i]] > 0
<1> DEFINE L == {s \in ScopeKeys : configured[s] > 0}
<1>1. TeamOf(a) # NoTeam => TeamKey(TeamOf(a)) \in ScopeKeys
  BY RequestsAssumption DEF ScopeKeys
<1>2. GlobalKey \in ScopeKeys /\ OwnKey(a) \in ScopeKeys
  BY DEF ScopeKeys
<1>3. ASSUME NEW s \in ScopeKeys PROVE Limited(s) \in Seq(L)
  <2>1. CASE configured[s] > 0
    <3>1. s \in L /\ Limited(s) = <<s>>
      BY <2>1 DEF Limited
    <3> HIDE DEF L
    <3> QED BY <3>1
  <2>2. CASE ~ configured[s] > 0
    BY <2>2 DEF Limited
  <2> QED BY <2>1, <2>2
<1> HIDE DEF L
<1>4. Checks(a) \in Seq(L)
  BY <1>1, <1>2, <1>3 DEF Checks
<1>5. Checks(a)[i] \in L
  BY <1>4
<1> QED BY <1>5 DEF L

LEMMA PeakGrows ==
    ASSUME ATypeOK, [ANext]_avars, NEW s \in ScopeKeys
    PROVE  peak'[s] \in Nat /\ peak[s] <= peak'[s]
<1>1. peak[s] \in Nat /\ configured[s] \in Nat
  BY RatesAssumption DEF ATypeOK, Configurations
<1>2. ASSUME NEW r \in Requests, Resolve(r) PROVE peak'[s] \in Nat /\ peak[s] <= peak'[s]
  BY <1>1, <1>2 DEF Resolve
<1>3. ASSUME NEW r \in Requests, RequestStep(r), ~ Resolve(r) PROVE peak' = peak
  BY <1>3 DEF RequestStep, AgentStatus, AgentGrant, AgentRefuse, ResolveFails,
              ScopeGrant, ScopeRefuse, ScopeStatus
<1>4. CASE (\E k \in ScopeKeys : \E rate \in ToolRates(k) : Configure(k, rate))
           \/ AAdvance \/ UNCHANGED avars
  BY <1>1, <1>4 DEF Configure, AAdvance, avars, admission
<1> QED BY <1>1, <1>2, <1>3, <1>4 DEF ANext

LEMMA RatedStep ==
    ASSUME StrictInv, [ANext]_avars, NEW q \in Requests
    PROVE  Rated(q)'
<1>0. ATypeOK /\ Rated(q) /\ todo[q] \in Todo
  BY DEF StrictInv, AInv, ATypeOK, Todo
<1>1. \A s \in ScopeKeys : peak'[s] \in Nat /\ peak[s] <= peak'[s] /\ peak[s] \in Nat
  BY <1>0, PeakGrows DEF ATypeOK
<1>2. \A i \in DOMAIN todo[q] : todo[q][i].key \in ScopeKeys /\ todo[q][i].rate \in Nat
  <2>1. \A i \in DOMAIN todo[q] : todo[q][i] \in [key : ScopeKeys, rate : CustomRates]
    BY <1>0, ElementOf DEF Todo
  <2> QED BY <2>1, RatesAssumption
<1>3. ASSUME todo'[q] = todo[q] PROVE Rated(q)'
  BY <1>0, <1>1, <1>2, <1>3 DEF Rated
<1>4. CASE Resolve(q)
  <2> DEFINE scopes == Checks(AgentOf(q))
             named == {scopes[i] : i \in DOMAIN scopes}
  <2>1. \A i \in DOMAIN scopes : scopes[i] \in ScopeKeys /\ configured[scopes[i]] > 0
    BY ChecksLimited, RequestsAssumption
  <2>2. /\ todo'[q] = [i \in DOMAIN scopes |->
                         [key |-> scopes[i], rate |-> configured[scopes[i]]]]
        /\ required'[q] = named
        /\ peak' = [s \in ScopeKeys |->
                      IF s \in required'[q] /\ configured[s] > peak[s]
                      THEN configured[s] ELSE peak[s]]
    BY <1>0, <1>4 DEF Resolve, ATypeOK
  <2>3. \A s \in ScopeKeys : configured[s] \in Nat /\ peak[s] \in Nat
    BY <1>0, RatesAssumption DEF ATypeOK, Configurations
  <2> HIDE DEF scopes
  <2>4. \A s \in named : s \in ScopeKeys => configured[s] <= peak'[s]
    BY <2>2, <2>3
  <2> QED BY <2>1, <2>2, <2>4 DEF Rated
<1>5. CASE ScopeStatus(q)
  <2>1. /\ todo[q] # <<>> /\ todo'[q] = Tail(todo[q])
    BY <1>0, <1>5 DEF ScopeStatus, ATypeOK
  <2>2. /\ DOMAIN todo[q] = 1..Len(todo[q]) /\ Len(todo[q]) \in Nat \ {0}
        /\ DOMAIN todo'[q] = 1..Len(todo[q]) - 1
        /\ \A i \in 1..Len(todo[q]) - 1 : todo'[q][i] = todo[q][i + 1]
    BY <1>0, <2>1, HeadTail DEF Todo
  <2>3. ASSUME NEW i \in DOMAIN todo'[q]
        PROVE  i + 1 \in DOMAIN todo[q] /\ todo'[q][i] = todo[q][i + 1]
    BY <2>2
  <2> QED BY <1>0, <1>1, <1>2, <2>3 DEF Rated
<1>6. ASSUME NEW r \in Requests, RequestStep(r), ~ (r = q /\ (Resolve(q) \/ ScopeStatus(q)))
      PROVE  todo'[q] = todo[q]
  <2>1. CASE todo' = todo
    BY <2>1
  <2>2. CASE Resolve(r) \/ ScopeStatus(r)
    <3>1. r # q
      BY <1>6, <2>2
    <3>2. \E t : todo' = [todo EXCEPT ![r] = t]
      BY <2>2 DEF Resolve, ScopeStatus
    <3> QED BY <1>0, <3>1, <3>2 DEF ATypeOK
  <2> QED BY <1>6, <2>1, <2>2 DEF RequestStep, AgentStatus, AgentGrant, AgentRefuse,
                                  ResolveFails, ScopeGrant, ScopeRefuse
<1>7. CASE (\E k \in ScopeKeys : \E rate \in ToolRates(k) : Configure(k, rate))
           \/ AAdvance \/ UNCHANGED avars
  BY <1>3, <1>7 DEF Configure, AAdvance, avars, admission
<1> QED BY <1>3, <1>4, <1>5, <1>6, <1>7 DEF ANext

LEMMA FundedStep ==
    ASSUME StrictInv, [ANext]_avars, NEW s \in ScopeKeys
    PROVE  Funded(s)'
<1>0. ATypeOK /\ Funded(s)
  BY DEF StrictInv, AInv
<1>1. peak'[s] \in Nat /\ peak[s] <= peak'[s] /\ peak[s] \in Nat
  BY <1>0, PeakGrows DEF ATypeOK
<1>2. ASSUME buckets' = buckets, paid' = paid PROVE Funded(s)'
  BY <1>0, <1>1, <1>2, FundedStays DEF Payers
<1>3. ASSUME NEW r \in Requests, AgentStatus(r) \/ AgentGrant(r) \/ AgentRefuse(r)
      PROVE  Funded(s)'
  <2> DEFINE k == AgentKey(AgentOf(r))
  <2>1. s # k
    BY DEF ScopeKeys, AgentKey, GlobalKey, TeamKey, OwnKey
  <2>2. \E b : Put(k, b)
    BY <1>3 DEF AgentStatus, AgentGrant, AgentRefuse, Status, Grant, Refuse
  <2>3. paid' = paid \/ paid' = [paid EXCEPT ![r] = @ \cup {k}]
    BY <1>3 DEF AgentStatus, AgentGrant, AgentRefuse, Pay
  <2> HIDE DEF k
  <2>4. (s \in DOMAIN buckets' <=> s \in DOMAIN buckets)
        /\ (s \in DOMAIN buckets => buckets'[s] = buckets[s])
    BY <2>1, <2>2 DEF Put
  <2>5. Payers(s)' = Payers(s)
    BY <1>0, <2>1, <2>3 DEF Payers, ATypeOK
  <2> QED BY <1>0, <1>1, <2>4, <2>5, FundedStays
<1>4. ASSUME NEW r \in Requests, ScopeGrant(r) \/ ScopeRefuse(r) \/ ScopeStatus(r)
      PROVE  Funded(s)'
  <2> DEFINE c == Head(todo[r])
             b == Current(c.key, c.rate)
             d == [b EXCEPT !.tokens = @ - Window]
  <2>1. pc[r] \in {"allowScope", "statusScope"}
    BY <1>4 DEF ScopeGrant, ScopeRefuse, ScopeStatus
  <2>2. todo[r] \in Todo /\ todo[r] # <<>>
    BY <1>0, <2>1 DEF ATypeOK, Todo
  <2>3. c.key \in ScopeKeys /\ c.key \in Keys /\ c.rate \in CustomRates
    BY <2>2, KeysOfTail, KeysAssumption
  <2>4. c = todo[r][1] /\ 1 \in DOMAIN todo[r]
    BY <2>2, HeadTail DEF Todo
  <2>5. c.rate > 0 /\ c.rate <= peak[c.key]
    BY <2>4 DEF StrictInv, Rated
  <2>6. peak' = peak
    BY <1>4 DEF ScopeGrant, ScopeRefuse, ScopeStatus
  <2>7. \/ Put(c.key, b) /\ paid' = paid
        \/ Put(c.key, d) /\ b.tokens >= Window /\ paid' = [paid EXCEPT ![r] = @ \cup {c.key}]
    BY <1>4 DEF ScopeGrant, ScopeRefuse, ScopeStatus, Grant, Refuse, Status, Pay
  <2>8. CASE s # c.key
    <3> HIDE DEF c, b, d
    <3>1. (s \in DOMAIN buckets' <=> s \in DOMAIN buckets)
          /\ (s \in DOMAIN buckets => buckets'[s] = buckets[s])
      BY <2>7, <2>8 DEF Put
    <3>2. Payers(s)' = Payers(s)
      BY <1>0, <2>7, <2>8 DEF Payers, ATypeOK
    <3> QED BY <1>0, <1>1, <3>1, <3>2, FundedStays
  <2>9. CASE s = c.key
    <3> DEFINE g == Cardinality(Payers(s))
    <3>1. EffectiveRate(c.rate) <= peak[s] /\ g \in Nat
      BY <2>5, <2>9, PayersFinite DEF EffectiveRate
    <3>2. IF s \in DOMAIN buckets THEN Covered(buckets[s], g, peak[s]) ELSE g = 0
      BY <1>0, FS_EmptySet DEF Funded
    <3>3. b \in Bucket /\ b.lastRefill = now /\ Covered(b, g, peak[s])
      <4> HIDE DEF c, g
      <4> QED BY <1>0, <1>1, <2>3, <2>9, <3>1, <3>2, CurrentCovered DEF ATypeOK
    <3> HIDE DEF b, c, g
    <3>4. CASE Put(c.key, b) /\ paid' = paid
      <4>1. s \in DOMAIN buckets' /\ buckets'[s] = b
        BY <2>9, <3>4 DEF Put
      <4>2. Payers(s)' = Payers(s)
        BY <3>4 DEF Payers
      <4> QED BY <2>6, <3>3, <4>1, <4>2 DEF Funded, g
    <3>5. CASE Put(c.key, d) /\ b.tokens >= Window /\ paid' = [paid EXCEPT ![r] = @ \cup {c.key}]
      <4>1. s \in DOMAIN buckets' /\ buckets'[s] = d
        BY <2>9, <3>5 DEF Put
      <4>2. Payers(s)' = Payers(s) \cup {r}
        BY <1>0, <2>9, <3>5 DEF Payers, ATypeOK
      <4>3. Cardinality(Payers(s)') \in Nat /\ Cardinality(Payers(s)') <= g + 1
        <5>1. IsFiniteSet(Payers(s))
          BY PayersFinite
        <5>2. /\ Cardinality(Payers(s) \cup {r}) \in Nat
              /\ Cardinality(Payers(s) \cup {r}) <= Cardinality(Payers(s)) + 1
          BY <5>1, AtMostOneMore
        <5> QED BY <4>2, <5>2 DEF g
      <4>4. d.tokens = b.tokens - Window /\ d.lastRefill = b.lastRefill
        BY <3>3 DEF Bucket
      <4>5. b.tokens \in Nat /\ b.lastRefill \in Nat /\ Window \in Nat
        BY <3>3, WindowAssumption DEF Bucket
      <4>6. Covered(d, Cardinality(Payers(s)'), peak[s])
        <5> DEFINE h == Cardinality(Payers(s)')
        <5>1. h * Window <= (g + 1) * Window /\ (g + 1) * Window = g * Window + Window
          BY <3>1, <4>3, <4>5, Scale
        <5>2. /\ h * Window \in Nat /\ g * Window \in Nat
              /\ peak[s] * Window \in Nat /\ peak[s] * b.lastRefill \in Nat
          BY <1>1, <3>1, <4>3, <4>5
        <5>3. g * Window + b.tokens <= peak[s] * Window + peak[s] * b.lastRefill
          BY <3>3 DEF Covered
        <5> HIDE DEF h, d
        <5> QED BY <4>4, <4>5, <5>1, <5>2, <5>3 DEF Covered, h
      <4> QED BY <2>6, <4>1, <4>6 DEF Funded
    <3> QED BY <2>7, <3>4, <3>5
  <2> QED BY <2>8, <2>9
<1>5. ASSUME NEW r \in Requests, Resolve(r) \/ ResolveFails(r) PROVE Funded(s)'
  BY <1>2, <1>5 DEF Resolve, ResolveFails, vars
<1>6. CASE (\E k \in ScopeKeys : \E rate \in ToolRates(k) : Configure(k, rate))
           \/ AAdvance \/ UNCHANGED avars
  BY <1>2, <1>6 DEF Configure, AAdvance, Advance, avars, admission, vars
<1> QED BY <1>3, <1>4, <1>5, <1>6 DEF ANext, RequestStep

LEMMA StrictAlways == ASpec => []StrictInv
<1>1. AInit => (\A s \in ScopeKeys : Funded(s)) /\ \A r \in Requests : Rated(r)
  BY DEF AInit, Init, Funded, Payers, Rated
<1>2. AInit /\ AInv => StrictInv
  BY <1>1 DEF StrictInv
<1>3. StrictInv /\ AInv' /\ [ANext]_avars => StrictInv'
  <2> SUFFICES ASSUME StrictInv, AInv', [ANext]_avars PROVE StrictInv'
    OBVIOUS
  <2> QED BY RatedStep, FundedStep DEF StrictInv
<1> QED BY <1>2, <1>3, AInvAlways, PTL DEF ASpec

\* However many requests overlap, and however limits are changed under them, those that
\* went through under a scope are no more than its highest limit yields.
THEOREM StricterWinsHolds == ASpec => []StricterWins
<1>1. StrictInv => StricterWins
  <2> SUFFICES ASSUME StrictInv, NEW s \in ScopeKeys
               PROVE  Window * Cardinality({r \in Requests :
                                              pc[r] = "forwarded" /\ s \in required[r]})
                        <= peak[s] * Window + peak[s] * now
    BY DEF StricterWins
  <2> DEFINE F == {r \in Requests : pc[r] = "forwarded" /\ s \in required[r]}
             f == Cardinality(F)
             g == Cardinality(Payers(s))
  <2>1. F \subseteq Payers(s)
    BY DEF StrictInv, AInv, Sound, Owed, Payers
  <2>2. f \in Nat /\ g \in Nat /\ f <= g
    BY <2>1, PayersFinite, FS_Subset, FS_CardinalityType
  <2>3. peak[s] \in Nat /\ now \in Nat /\ Window \in Nat
    BY MaxTimeAssumption, WindowAssumption DEF StrictInv, AInv, ATypeOK, TypeOK
  <2>4. f * Window <= g * Window /\ Window * f = f * Window
    BY <2>2, <2>3, Scale, Commute
  <2>5. f * Window \in Nat /\ g * Window \in Nat /\ peak[s] * Window \in Nat /\ peak[s] * now \in Nat
    BY <2>2, <2>3
  <2>6. g * Window <= peak[s] * Window + peak[s] * now
    <3>1. CASE s \in DOMAIN buckets
      <4> DEFINE l == buckets[s].lastRefill
      <4>1. buckets[s].tokens \in Nat /\ l \in Nat /\ l <= now
        BY <3>1 DEF StrictInv, AInv, ATypeOK, TypeOK, Bucket
      <4>2. peak[s] * l <= peak[s] * now /\ peak[s] * l \in Nat
        BY <2>3, <4>1, Scale, Commute
      <4>3. g * Window + buckets[s].tokens <= peak[s] * Window + peak[s] * l
        BY <3>1 DEF StrictInv, Funded, Covered
      <4> HIDE DEF l, g
      <4> QED BY <2>5, <4>1, <4>2, <4>3 DEF g
    <3>2. CASE s \notin DOMAIN buckets
      <4>1. g = 0
        BY <3>2, FS_EmptySet DEF StrictInv, Funded
      <4>2. g * Window = 0
        BY <2>3, <4>1
      <4> QED BY <2>5, <4>2
    <3> QED BY <3>1, <3>2
  <2> HIDE DEF f, g
  <2>7. Window * f <= peak[s] * Window + peak[s] * now
    BY <2>4, <2>5, <2>6
  <2> QED BY <2>7 DEF f
<1> QED BY <1>1, StrictAlways, PTL

----------------------------------------------------------------------------
(* The quota that a request was shown. *)

\* The bucket of an agent runs at the agent's rate and is never above its cap.
Steady(a) ==
    AgentKey(a) \in DOMAIN buckets =>
        /\ buckets[AgentKey(a)].rate = EffectiveRate(AgentRate(a))
        /\ buckets[AgentKey(a)].tokens <= EffectiveRate(AgentRate(a)) * Window

\* What r was shown is in the bucket of its agent, or was spent by others of the agent.
Unspent(r) ==
    pc[r] = "allow" =>
        /\ AgentKey(AgentOf(r)) \in DOMAIN buckets
        /\ shown[r] * Window <= buckets[AgentKey(AgentOf(r))].tokens + spent[r] * Window

QInv ==
    /\ ATypeOK
    /\ shown \in [Requests -> Nat]
    /\ spent \in [Requests -> Nat]
    /\ \A a \in Agents : Steady(a)
    /\ \A r \in Requests : Unspent(r)

\* The history restricts nothing that Admission's requests do.
LEMMA QuotaStep == [QNext]_qvars => [ANext]_avars
BY DEF QNext, QStatus, QGrant, QOther, QWorld, qvars, ANext, RequestStep

LEMMA AgentKeys ==
    ASSUME NEW a \in Agents
    PROVE  /\ AgentKey(a) \in Keys /\ AgentKey(a) \notin ScopeKeys
           /\ AgentRate(a) \in CustomRates /\ EffectiveRate(AgentRate(a)) \in Nat
           /\ \A x \in Agents : AgentKey(x) = AgentKey(a) => x = a
<1>1. AgentKey(a) \in Keys
  BY KeysAssumption
<1>2. AgentKey(a) \notin ScopeKeys
  BY DEF ScopeKeys, AgentKey, GlobalKey, TeamKey, OwnKey
<1>3. AgentRate(a) \in CustomRates
  BY RequestsAssumption
<1>4. EffectiveRate(AgentRate(a)) \in Nat
  BY <1>3, RatesAssumption DEF EffectiveRate
<1>5. \A x \in Agents : AgentKey(x) = AgentKey(a) => x = a
  BY DEF AgentKey
<1> QED BY <1>1, <1>2, <1>3, <1>4, <1>5

LEMMA CapKeeps ==
    ASSUME NEW t \in Nat, NEW cap \in Nat, NEW y \in Nat, t <= cap
    PROVE  Smaller(cap, t + y) \in Nat /\ Smaller(cap, t + y) <= cap /\ t <= Smaller(cap, t + y)
BY DEF Smaller

\* A call on the bucket of an agent finds no less in it than was there.
LEMMA AgentCurrent ==
    ASSUME QInv, NEW a \in Agents, NEW b, b = Current(AgentKey(a), AgentRate(a))
    PROVE  /\ b.tokens \in Nat
           /\ b.rate = EffectiveRate(AgentRate(a))
           /\ b.tokens <= EffectiveRate(AgentRate(a)) * Window
           /\ AgentKey(a) \in DOMAIN buckets => buckets[AgentKey(a)].tokens <= b.tokens
<1> DEFINE k == AgentKey(a)
           rate == EffectiveRate(AgentRate(a))
           g == GetBucket(k, rate)
           cap == rate * Window
<1>1. k \in Keys /\ rate \in Nat /\ cap \in Nat
  BY AgentKeys, WindowAssumption
<1>2. now \in Nat /\ TypeOK
  BY MaxTimeAssumption DEF QInv, ATypeOK, TypeOK
<1>3. CASE k \in DOMAIN buckets
  <2>1. /\ buckets[k] \in Bucket /\ buckets[k].lastRefill <= now
        /\ buckets[k].rate = rate /\ buckets[k].tokens <= cap
    BY <1>2, <1>3 DEF QInv, Steady, TypeOK
  <2>2. g = buckets[k]
    BY <1>3, <2>1 DEF GetBucket, Bucket
  <2> DEFINE e == now - g.lastRefill
             s == IF e = 0 THEN g.tokens ELSE Smaller(cap, g.tokens + e * rate)
  <2>3. g.tokens \in Nat /\ e \in Nat /\ e * rate \in Nat
    BY <1>1, <1>2, <2>1, <2>2 DEF Bucket
  <2>4. g.tokens <= cap
    BY <2>1, <2>2
  <2> DEFINE y == e * rate
  <2>5. /\ Smaller(cap, g.tokens + y) \in Nat /\ Smaller(cap, g.tokens + y) <= cap
        /\ g.tokens <= Smaller(cap, g.tokens + y)
    <3>1. g.tokens \in Nat /\ y \in Nat /\ cap \in Nat /\ g.tokens <= cap
      BY <1>1, <2>3, <2>4
    <3> HIDE DEF y, cap, g
    <3> QED BY <3>1, CapKeeps
  <2>6. s \in Nat /\ s <= cap /\ g.tokens <= s
    <3> HIDE DEF cap, g
    <3> QED BY <2>3, <2>4, <2>5
  <2>7. Refill(g).tokens = s /\ Refill(g).rate = rate
    <3>1. g \in Bucket /\ g.lastRefill <= now /\ g.rate = rate
      BY <2>1, <2>2
    <3>2. now = g.lastRefill <=> e = 0
      BY <1>2, <3>1 DEF Bucket
    <3> HIDE DEF g
    <3> QED BY <1>2, <3>1, <3>2, RefillType
  <2> HIDE DEF s
  <2> QED BY <1>3, <2>2, <2>6, <2>7 DEF Current
<1>4. CASE k \notin DOMAIN buckets
  <2>1. g = [tokens |-> cap, lastRefill |-> now, rate |-> rate]
    BY <1>4 DEF GetBucket
  <2> HIDE DEF cap
  <2>2. Refill(g) = g
    BY <1>2, <2>1 DEF Refill
  <2>3. b = g /\ b.tokens = cap /\ b.rate = rate
    BY <2>1, <2>2 DEF Current
  <2> QED BY <1>1, <1>4, <2>3 DEF cap
<1> QED BY <1>3, <1>4

\* A call on the bucket of agent a leaves those of the other agents alone.
LEMMA AgentPut ==
    ASSUME QInv, NEW a \in Agents, NEW b, Put(AgentKey(a), b), b.tokens \in Nat,
           b.rate = EffectiveRate(AgentRate(a)),
           b.tokens <= EffectiveRate(AgentRate(a)) * Window
    PROVE  /\ \A x \in Agents : Steady(x)'
           /\ AgentKey(a) \in DOMAIN buckets' /\ buckets'[AgentKey(a)] = b
           /\ \A x \in Agents \ {a} :
                 AgentKey(x) \in DOMAIN buckets =>
                     AgentKey(x) \in DOMAIN buckets' /\ buckets'[AgentKey(x)] = buckets[AgentKey(x)]
<1>1. /\ DOMAIN buckets' = DOMAIN buckets \cup {AgentKey(a)} /\ buckets'[AgentKey(a)] = b
      /\ \A k \in DOMAIN buckets \ {AgentKey(a)} : buckets'[k] = buckets[k]
  BY DEF Put
<1>2. \A x \in Agents \ {a} : AgentKey(x) # AgentKey(a)
  BY AgentKeys
<1>3. Steady(a)'
  BY <1>1 DEF Steady
<1>4. ASSUME NEW x \in Agents \ {a} PROVE Steady(x)'
  <2>1. Steady(x) /\ AgentKey(x) # AgentKey(a)
    BY <1>2 DEF QInv
  <2> QED BY <1>1, <2>1 DEF Steady
<1> QED BY <1>1, <1>2, <1>3, <1>4

LEMMA QuotientBound ==
    ASSUME NEW d \in Nat, NEW w \in Nat \ {0}
    PROVE  d \div w \in Nat /\ (d \div w) * w <= d
OBVIOUS

\* What others took covers what was shown, if less than a token of it is missing.
LEMMA FewerTokens ==
    ASSUME NEW m \in Nat, NEW n \in Nat, m * Window < Window + n * Window
    PROVE  n >= m
<1> SUFFICES ASSUME n + 1 <= m PROVE FALSE
  OBVIOUS
<1>1. (n + 1) * Window <= m * Window /\ (n + 1) * Window = n * Window + Window
  BY WindowAssumption, Scale
<1>2. m * Window \in Nat /\ n * Window \in Nat
  BY WindowAssumption
<1> QED BY <1>1, <1>2, WindowAssumption

LEMMA UnspentStatus ==
    ASSUME QInv, NEW r \in Requests, QStatus(r)
    PROVE  /\ shown' \in [Requests -> Nat] /\ spent' \in [Requests -> Nat]
           /\ \A a \in Agents : Steady(a)'
           /\ \A s \in Requests : Unspent(s)'
<1> DEFINE a == AgentOf(r)
           b == Current(AgentKey(a), AgentRate(a))
<1>1. a \in Agents
  BY RequestsAssumption
<1>2. /\ b.tokens \in Nat /\ b.rate = EffectiveRate(AgentRate(a))
      /\ b.tokens <= EffectiveRate(AgentRate(a)) * Window
      /\ AgentKey(a) \in DOMAIN buckets => buckets[AgentKey(a)].tokens <= b.tokens
  BY <1>1, AgentCurrent
<1>3. /\ Put(AgentKey(a), b) /\ pc' = [pc EXCEPT ![r] = "allow"] /\ spent' = spent
      /\ shown' = [shown EXCEPT ![r] = b.tokens \div Window]
  BY DEF QStatus, AgentStatus, Status, Goto, Remaining
<1>4. b.tokens \div Window \in Nat /\ (b.tokens \div Window) * Window <= b.tokens
  BY <1>2, WindowAssumption, QuotientBound
<1> HIDE DEF b
<1>5. /\ \A x \in Agents : Steady(x)'
      /\ AgentKey(a) \in DOMAIN buckets' /\ buckets'[AgentKey(a)] = b
      /\ \A x \in Agents \ {a} :
            AgentKey(x) \in DOMAIN buckets =>
                AgentKey(x) \in DOMAIN buckets' /\ buckets'[AgentKey(x)] = buckets[AgentKey(x)]
  BY <1>1, <1>2, <1>3, AgentPut
<1>6. shown' \in [Requests -> Nat] /\ spent' \in [Requests -> Nat]
  BY <1>3, <1>4 DEF QInv
<1>7. ASSUME NEW s \in Requests, pc'[s] = "allow"
      PROVE  /\ AgentKey(AgentOf(s)) \in DOMAIN buckets'
             /\ shown'[s] * Window <= buckets'[AgentKey(AgentOf(s))].tokens + spent'[s] * Window
  <2>1. spent[s] * Window \in Nat /\ shown[s] * Window \in Nat
    BY WindowAssumption DEF QInv
  <2>2. CASE s = r
    <3>1. shown'[s] = b.tokens \div Window /\ spent'[s] = spent[s]
      BY <1>3, <2>2 DEF QInv
    <3> DEFINE m == (b.tokens \div Window) * Window
               n == spent[s] * Window
    <3>2. m <= b.tokens /\ m \in Nat /\ n \in Nat
      BY <1>4, <2>1, WindowAssumption
    <3>3. m <= b.tokens + n
      <4> HIDE DEF m, n
      <4> QED BY <1>2, <3>2
    <3> QED BY <1>5, <2>2, <3>1, <3>3
  <2>3. CASE s # r
    <3>1. /\ pc[s] = "allow" /\ shown'[s] = shown[s] /\ spent'[s] = spent[s]
          /\ AgentOf(s) \in Agents
      BY <1>3, <1>7, <2>3, RequestsAssumption DEF QInv, ATypeOK
    <3> DEFINE k == AgentKey(AgentOf(s))
               m == shown[s] * Window
               n == spent[s] * Window
    <3>2. k \in DOMAIN buckets /\ m <= buckets[k].tokens + n /\ buckets[k].tokens \in Nat
      BY <3>1 DEF QInv, Unspent, ATypeOK, TypeOK, Bucket
    <3>3. k \in DOMAIN buckets' /\ buckets'[k].tokens \in Nat /\ buckets[k].tokens <= buckets'[k].tokens
      <4>1. CASE AgentOf(s) = a
        BY <1>2, <1>5, <3>2, <4>1
      <4>2. CASE AgentOf(s) # a
        BY <1>5, <3>1, <3>2, <4>2
      <4> QED BY <4>1, <4>2
    <3>4. m <= buckets'[k].tokens + n
      <4> HIDE DEF m, n
      <4>1. m \in Nat /\ n \in Nat
        BY <2>1 DEF m, n
      <4> QED BY <3>2, <3>3, <4>1
    <3> QED BY <3>1, <3>3, <3>4
  <2> QED BY <2>2, <2>3
<1> QED BY <1>5, <1>6, <1>7 DEF Unspent

LEMMA UnspentGrant ==
    ASSUME QInv, NEW r \in Requests, QGrant(r)
    PROVE  /\ shown' \in [Requests -> Nat] /\ spent' \in [Requests -> Nat]
           /\ \A a \in Agents : Steady(a)'
           /\ \A s \in Requests : Unspent(s)'
<1> DEFINE a == AgentOf(r)
           b == Current(AgentKey(a), AgentRate(a))
           c == [b EXCEPT !.tokens = @ - Window]
<1>1. a \in Agents
  BY RequestsAssumption
<1>2. /\ b.tokens \in Nat /\ b.rate = EffectiveRate(AgentRate(a))
      /\ b.tokens <= EffectiveRate(AgentRate(a)) * Window
      /\ AgentKey(a) \in DOMAIN buckets => buckets[AgentKey(a)].tokens <= b.tokens
  BY <1>1, AgentCurrent
<1>3. b \in Bucket
  BY <1>1, AgentKeys, CurrentTypes DEF QInv, ATypeOK
<1>4. /\ b.tokens >= Window /\ Put(AgentKey(a), c) /\ pc' = [pc EXCEPT ![r] = "resolve"]
      /\ spent' = [s \in Requests |-> IF s \in Shown(r) THEN spent[s] + 1 ELSE spent[s]]
      /\ shown' = shown
  BY DEF QGrant, AgentGrant, Grant, Goto
<1>5. c.tokens = b.tokens - Window /\ c.rate = b.rate
  BY <1>3 DEF Bucket
<1> HIDE DEF b, c
<1>6. /\ c.tokens \in Nat /\ c.rate = EffectiveRate(AgentRate(a))
      /\ c.tokens <= EffectiveRate(AgentRate(a)) * Window
  <2> DEFINE cap == EffectiveRate(AgentRate(a)) * Window
  <2>1. cap \in Nat /\ b.tokens <= cap
    BY <1>1, <1>2, AgentKeys, WindowAssumption
  <2> HIDE DEF cap
  <2>2. c.tokens \in Nat /\ c.tokens <= cap
    BY <1>2, <1>4, <1>5, <2>1, WindowAssumption
  <2> QED BY <1>2, <1>5, <2>2 DEF cap
<1>7. /\ \A x \in Agents : Steady(x)'
      /\ AgentKey(a) \in DOMAIN buckets' /\ buckets'[AgentKey(a)] = c
      /\ \A x \in Agents \ {a} :
            AgentKey(x) \in DOMAIN buckets =>
                AgentKey(x) \in DOMAIN buckets' /\ buckets'[AgentKey(x)] = buckets[AgentKey(x)]
  BY <1>1, <1>4, <1>6, AgentPut
<1>8. shown' \in [Requests -> Nat] /\ spent' \in [Requests -> Nat]
  BY <1>4 DEF QInv
<1>9. ASSUME NEW s \in Requests, pc'[s] = "allow"
      PROVE  /\ AgentKey(AgentOf(s)) \in DOMAIN buckets'
             /\ shown'[s] * Window <= buckets'[AgentKey(AgentOf(s))].tokens + spent'[s] * Window
  <2>1. s # r /\ pc[s] = "allow" /\ shown'[s] = shown[s] /\ AgentOf(s) \in Agents
    BY <1>4, <1>9, RequestsAssumption DEF QInv, ATypeOK
  <2> DEFINE k == AgentKey(AgentOf(s))
             m == shown[s] * Window
             n == spent[s] * Window
  <2>2. m \in Nat /\ n \in Nat
    BY WindowAssumption DEF QInv
  <2>3. k \in DOMAIN buckets /\ m <= buckets[k].tokens + n /\ buckets[k].tokens \in Nat
    BY <2>1 DEF QInv, Unspent, ATypeOK, TypeOK, Bucket
  <2>4. CASE AgentOf(s) = a
    <3>1. spent'[s] = spent[s] + 1
      BY <1>4, <2>1, <2>4 DEF Shown
    <3>2. (spent[s] + 1) * Window = n + Window
      BY WindowAssumption DEF QInv
    <3>3. m <= c.tokens + (n + Window)
      <4> HIDE DEF m, n
      <4>1. buckets[k].tokens <= b.tokens
        BY <1>2, <2>3, <2>4
      <4> QED BY <1>2, <1>5, <2>2, <2>3, <4>1, WindowAssumption
    <3> QED BY <1>7, <2>1, <2>4, <3>1, <3>2, <3>3
  <2>5. CASE AgentOf(s) # a
    <3>1. spent'[s] = spent[s]
      BY <1>4, <2>5 DEF Shown
    <3> QED BY <1>7, <2>1, <2>3, <2>5, <3>1
  <2> QED BY <2>4, <2>5
<1> QED BY <1>7, <1>8, <1>9 DEF Unspent

\* Whatever else the requests do, no agent's bucket loses a token.
LEMMA UnspentOther ==
    ASSUME QInv, UNCHANGED quotas,
           \A s \in Requests : pc'[s] = "allow" => pc[s] = "allow",
           \A a \in Agents : /\ Steady(a)'
                             /\ AgentKey(a) \in DOMAIN buckets =>
                                   /\ AgentKey(a) \in DOMAIN buckets'
                                   /\ buckets'[AgentKey(a)].tokens \in Nat
                                   /\ buckets[AgentKey(a)].tokens <= buckets'[AgentKey(a)].tokens
    PROVE  /\ shown' \in [Requests -> Nat] /\ spent' \in [Requests -> Nat]
           /\ \A a \in Agents : Steady(a)'
           /\ \A s \in Requests : Unspent(s)'
<1>1. shown' = shown /\ spent' = spent
  BY DEF quotas
<1>2. ASSUME NEW s \in Requests, pc'[s] = "allow"
      PROVE  /\ AgentKey(AgentOf(s)) \in DOMAIN buckets'
             /\ shown'[s] * Window <= buckets'[AgentKey(AgentOf(s))].tokens + spent'[s] * Window
  <2> DEFINE k == AgentKey(AgentOf(s))
             m == shown[s] * Window
             n == spent[s] * Window
  <2>1. m \in Nat /\ n \in Nat
    BY WindowAssumption DEF QInv
  <2>2. pc[s] = "allow" /\ AgentOf(s) \in Agents
    BY <1>2, RequestsAssumption
  <2>3. k \in DOMAIN buckets /\ m <= buckets[k].tokens + n /\ buckets[k].tokens \in Nat
    BY <2>2 DEF QInv, Unspent, ATypeOK, TypeOK, Bucket
  <2>4. /\ k \in DOMAIN buckets' /\ buckets'[k].tokens \in Nat
        /\ buckets[k].tokens <= buckets'[k].tokens
    BY <2>2, <2>3
  <2>5. m <= buckets'[k].tokens + n
    <3> HIDE DEF m, n
    <3> QED BY <2>1, <2>3, <2>4
  <2> QED BY <1>1, <2>4, <2>5
<1> QED BY <1>1, <1>2 DEF QInv, Unspent

LEMMA UntouchedAgents ==
    ASSUME QInv,
           \A a \in Agents : /\ AgentKey(a) \in DOMAIN buckets' <=> AgentKey(a) \in DOMAIN buckets
                             /\ AgentKey(a) \in DOMAIN buckets =>
                                   buckets'[AgentKey(a)] = buckets[AgentKey(a)]
    PROVE  \A a \in Agents : /\ Steady(a)'
                             /\ AgentKey(a) \in DOMAIN buckets =>
                                   /\ AgentKey(a) \in DOMAIN buckets'
                                   /\ buckets'[AgentKey(a)].tokens \in Nat
                                   /\ buckets[AgentKey(a)].tokens <= buckets'[AgentKey(a)].tokens
<1>1. \A a \in Agents : AgentKey(a) \in DOMAIN buckets => buckets[AgentKey(a)].tokens \in Nat
  BY DEF QInv, ATypeOK, TypeOK, Bucket
<1> QED BY <1>1 DEF QInv, Steady

LEMMA QInvStep == QInv /\ [QNext]_qvars => QInv'
<1> SUFFICES ASSUME QInv, [QNext]_qvars PROVE QInv'
  OBVIOUS
<1> DEFINE Goal == /\ shown' \in [Requests -> Nat] /\ spent' \in [Requests -> Nat]
                   /\ \A a \in Agents : Steady(a)'
                   /\ \A s \in Requests : Unspent(s)'
<1>1. ATypeOK'
  BY QuotaStep, ATypeStep DEF QInv
<1>2. ASSUME NEW r \in Requests, QStatus(r) PROVE Goal
  BY <1>2, UnspentStatus
<1>3. ASSUME NEW r \in Requests, QGrant(r) PROVE Goal
  BY <1>3, UnspentGrant
<1>4. ASSUME UNCHANGED <<buckets, quotas>>,
             \A s \in Requests : pc'[s] = "allow" => pc[s] = "allow"
      PROVE  Goal
  BY <1>4, UntouchedAgents, UnspentOther
<1>5. ASSUME NEW r \in Requests, QOther(r) PROVE Goal
  <2>1. UNCHANGED quotas
    BY <1>5 DEF QOther
  <2>2. \A s \in Requests : pc'[s] = "allow" => pc[s] = "allow"
    BY <1>5 DEF QOther, AgentRefuse, Resolve, ResolveFails, ScopeGrant, ScopeRefuse,
                ScopeStatus, Goto, QInv, ATypeOK
  <2>3. CASE AgentRefuse(r)
    <3> DEFINE a == AgentOf(r)
               b == Current(AgentKey(a), AgentRate(a))
    <3>1. a \in Agents
      BY RequestsAssumption
    <3>2. Put(AgentKey(a), b)
      BY <2>3 DEF AgentRefuse, Refuse
    <3>3. /\ b.tokens \in Nat /\ b.rate = EffectiveRate(AgentRate(a))
          /\ b.tokens <= EffectiveRate(AgentRate(a)) * Window
          /\ AgentKey(a) \in DOMAIN buckets => buckets[AgentKey(a)].tokens <= b.tokens
      BY <3>1, AgentCurrent
    <3> HIDE DEF b
    <3>4. /\ \A x \in Agents : Steady(x)'
          /\ AgentKey(a) \in DOMAIN buckets' /\ buckets'[AgentKey(a)] = b
          /\ \A x \in Agents \ {a} :
                AgentKey(x) \in DOMAIN buckets =>
                    AgentKey(x) \in DOMAIN buckets' /\ buckets'[AgentKey(x)] = buckets[AgentKey(x)]
      BY <3>1, <3>2, <3>3, AgentPut
    <3>5. \A x \in Agents : AgentKey(x) \in DOMAIN buckets =>
                               /\ AgentKey(x) \in DOMAIN buckets'
                               /\ buckets'[AgentKey(x)].tokens \in Nat
                               /\ buckets[AgentKey(x)].tokens <= buckets'[AgentKey(x)].tokens
      <4>1. \A x \in Agents : AgentKey(x) \in DOMAIN buckets => buckets[AgentKey(x)].tokens \in Nat
        BY DEF QInv, ATypeOK, TypeOK, Bucket
      <4> QED BY <3>1, <3>3, <3>4, <4>1
    <3> QED BY <2>1, <2>2, <3>4, <3>5, UnspentOther
  <2>4. CASE Resolve(r) \/ ResolveFails(r)
    <3>1. UNCHANGED <<buckets, quotas>>
      BY <2>1, <2>4 DEF Resolve, ResolveFails, vars
    <3> QED BY <2>2, <3>1, <1>4
  <2>5. CASE ScopeGrant(r) \/ ScopeRefuse(r) \/ ScopeStatus(r)
    <3>1. todo[r] \in Todo /\ todo[r] # <<>>
      BY <2>5 DEF QInv, ATypeOK, Todo, ScopeGrant, ScopeRefuse, ScopeStatus
    <3>2. Head(todo[r]).key \in ScopeKeys
      BY <3>1, KeysOfTail
    <3>3. PICK k \in ScopeKeys, b \in {buckets'[Head(todo[r]).key]} : Put(k, b)
      <4>1. \E b : Put(Head(todo[r]).key, b)
        BY <2>5 DEF ScopeGrant, ScopeRefuse, ScopeStatus, Grant, Refuse, Status
      <4>2. \A b : Put(Head(todo[r]).key, b) => b = buckets'[Head(todo[r]).key]
        BY DEF Put
      <4> QED BY <3>2, <4>1, <4>2
    <3>4. \A a \in Agents : /\ AgentKey(a) # k
                            /\ AgentKey(a) \in DOMAIN buckets' <=> AgentKey(a) \in DOMAIN buckets
                            /\ AgentKey(a) \in DOMAIN buckets =>
                                  buckets'[AgentKey(a)] = buckets[AgentKey(a)]
      BY <3>3, AgentKeys DEF Put
    <3> QED BY <2>1, <2>2, <3>4, UntouchedAgents, UnspentOther
  <2> QED BY <1>5, <2>3, <2>4, <2>5 DEF QOther
<1>6. ASSUME QWorld PROVE Goal
  <2>1. UNCHANGED <<buckets, quotas>> /\ pc' = pc
    BY <1>6 DEF QWorld, Configure, AAdvance, Advance, vars, admission
  <2>2. \A s \in Requests : pc'[s] = "allow" => pc[s] = "allow"
    BY <2>1
  <2> QED BY <2>1, <2>2, <1>4
<1>7. ASSUME UNCHANGED qvars PROVE Goal
  <2>1. UNCHANGED <<buckets, quotas>> /\ pc' = pc
    BY <1>7 DEF qvars, avars, vars, admission
  <2>2. \A s \in Requests : pc'[s] = "allow" => pc[s] = "allow"
    BY <2>1
  <2> QED BY <2>1, <2>2, <1>4
<1>8. Goal
  <2> HIDE DEF Goal
  <2> QED BY <1>2, <1>3, <1>5, <1>6, <1>7 DEF QNext
<1> QED BY <1>1, <1>8 DEF QInv

LEMMA QInvAlways == QSpec => []QInv
<1>1. QInit => QInv
  <2> SUFFICES ASSUME QInit PROVE QInv
    OBVIOUS
  <2>1. ATypeOK
    <3>1. TypeOK
      BY MaxTimeAssumption DEF QInit, AInit, Init, TypeOK
    <3> QED BY <3>1 DEF QInit, AInit, ATypeOK, PCs
  <2> QED BY <2>1 DEF QInit, QInv, AInit, Init, Steady, Unspent
<1> QED BY <1>1, QInvStep, PTL DEF QSpec

\* A refusal takes back nothing of the quota that was shown: as many other requests of
\* the agent have been granted a token since, for any requests, rates and limits.
THEOREM QuotaKeptHolds == QSpec => QuotaKept
<1>1. ASSUME QInv, [QNext]_qvars, NEW r \in Requests, pc[r] = "allow", pc'[r] = "limited"
      PROVE  spent[r] >= shown[r]
  <2>1. AgentRefuse(r)
    BY <1>1 DEF QNext, QStatus, QGrant, QOther, QWorld, AgentStatus, AgentGrant, AgentRefuse,
                Resolve, ResolveFails, ScopeGrant, ScopeRefuse, ScopeStatus, Configure, AAdvance,
                Goto, QInv, ATypeOK, admission, qvars, avars
  <2> DEFINE k == AgentKey(AgentOf(r))
             b == Current(k, AgentRate(AgentOf(r)))
  <2>2. AgentOf(r) \in Agents
    BY RequestsAssumption
  <2>3. b.tokens \in Nat /\ (k \in DOMAIN buckets => buckets[k].tokens <= b.tokens)
    BY <1>1, <2>2, AgentCurrent
  <2>4. b.tokens < Window
    BY <2>1 DEF AgentRefuse, Refuse
  <2> HIDE DEF b
  <2>5. /\ k \in DOMAIN buckets /\ buckets[k].tokens \in Nat
        /\ shown[r] * Window <= buckets[k].tokens + spent[r] * Window
    BY <1>1 DEF QInv, Unspent, ATypeOK, TypeOK, Bucket
  <2>6. shown[r] * Window < Window + spent[r] * Window
    <3> DEFINE m == shown[r] * Window
               n == spent[r] * Window
    <3>1. m \in Nat /\ n \in Nat
      BY <1>1, WindowAssumption DEF QInv
    <3> HIDE DEF m, n
    <3>2. m <= buckets[k].tokens + n
      BY <2>5 DEF m, n
    <3>3. m < Window + n
      BY <2>3, <2>4, <2>5, <3>1, <3>2, WindowAssumption
    <3> QED BY <3>3 DEF m, n
  <2>7. shown[r] \in Nat /\ spent[r] \in Nat
    BY <1>1 DEF QInv
  <2> QED BY <2>6, <2>7, FewerTokens
<1>2. QInv /\ [QNext]_qvars =>
        [\A r \in Requests : pc[r] = "allow" /\ pc'[r] = "limited" => spent[r] >= shown[r]]_qvars
  BY <1>1
<1> QED BY <1>2, QInvAlways, PTL DEF QSpec, QuotaKept
============================================================================
