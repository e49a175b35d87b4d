---------------------------- MODULE RateLimiter ----------------------------
(***************************************************************************)
(* The in-memory token buckets (internal/ratelimit/ratelimit.go).  Every   *)
(* method of Limiter holds its mutex from entry to return, so a call is    *)
(* one step.  Time is counted in ticks of the clock and tokens in units of *)
(* 1/Window: a bucket of rate r holds at most r * Window units, gains r    *)
(* units per tick and pays Window units per request, with no rounding.     *)
(* (The code keeps tokens in a float64, whose rounding is left out.)       *)
(***************************************************************************)
EXTENDS Integers

CONSTANTS
    Keys,           \* the keys of the buckets: agents, tools and their scopes
    Window,         \* rate_limit.window, in ticks
    DefaultRate,    \* rate_limit.default
    CustomRates,    \* custom rates the callers may pass, 0 for none
    MaxTime         \* bound on the clock

ASSUME WindowAssumption == Window \in Nat \ {0}
ASSUME RatesAssumption == DefaultRate \in Nat /\ CustomRates \subseteq Nat
ASSUME MaxTimeAssumption == MaxTime \in Nat

VARIABLES
    now,            \* the clock
    buckets         \* Limiter.buckets: created on a key's first call

vars == <<now, buckets>>

Bucket == [tokens : Nat, lastRefill : Nat, rate : Nat]

EffectiveRate(custom) == IF custom > 0 THEN custom ELSE DefaultRate

Rates == {EffectiveRate(c) : c \in CustomRates}

\* getBucket: the bucket of key, full when it is new, at the rate of this call.
GetBucket(key, rate) ==
    IF key \in DOMAIN buckets
    THEN [buckets[key] EXCEPT !.rate = rate]
    ELSE [tokens |-> rate * Window, lastRefill |-> now, rate |-> rate]

Smaller(a, b) == IF a <= b THEN a ELSE b

\* Mutant: the clock of the bucket moves on with a refusal, and its tokens do not.
RefillWholeTokens(b) ==
    IF now <= b.lastRefill
    THEN b
    ELSE [b EXCEPT !.tokens = Smaller(b.rate * Window,
                     @ + (((now - b.lastRefill) * b.rate) \div Window) * Window),
                   !.lastRefill = now]

\* Mutant: the bucket's clock is not moved, so the same ticks are paid out again.
RefillAgain(b) ==
    IF now <= b.lastRefill
    THEN b
    ELSE [b EXCEPT !.tokens =
                     Smaller(b.rate * Window, @ + (now - b.lastRefill) * b.rate)]

\* refill; without elapsed time it returns before the cap.
Refill(b) ==
    IF now <= b.lastRefill
    THEN b
    ELSE [b EXCEPT !.tokens =
                     Smaller(b.rate * Window, @ + (now - b.lastRefill) * b.rate),
                   !.lastRefill = now]

\* The bucket a call finds once it has the lock.
Current(key, custom) == Refill(GetBucket(key, EffectiveRate(custom)))

Put(key, b) ==
    buckets' = [k \in DOMAIN buckets \cup {key} |-> IF k = key THEN b ELSE buckets[k]]

Init ==
    /\ now = 0
    /\ buckets = [k \in {} |-> [tokens |-> 0, lastRefill |-> 0, rate |-> 0]]

\* Mutant: a fraction of a token is enough.
GrantFraction(key, custom) ==
    LET b == Current(key, custom) IN
    /\ b.tokens > 0
    /\ Put(key, [b EXCEPT !.tokens = @ - Window])
    /\ UNCHANGED now

\* Allow returns true.
Grant(key, custom) ==
    LET b == Current(key, custom) IN
    /\ b.tokens >= Window
    /\ Put(key, [b EXCEPT !.tokens = @ - Window])
    /\ UNCHANGED now

\* Allow returns false.
Refuse(key, custom) ==
    LET b == Current(key, custom) IN
    /\ b.tokens < Window
    /\ Put(key, b)
    /\ UNCHANGED now

\* Mutant: looking at the quota spends it.
StatusSpends(key, custom) ==
    LET b == Current(key, custom) IN
    /\ Put(key, IF b.tokens < Window THEN b ELSE [b EXCEPT !.tokens = @ - Window])
    /\ UNCHANGED now

\* Status: consumes nothing, but creates and refills the bucket as Allow does.
Status(key, custom) ==
    /\ Put(key, Current(key, custom))
    /\ UNCHANGED now

\* What Status returns.  The reset time is truncated to the clock's resolution.
Limit(custom) == EffectiveRate(custom)
Remaining(key, custom) == Current(key, custom).tokens \div Window
ResetAt(key, custom) ==
    LET b == Current(key, custom)
        deficit == b.rate * Window - b.tokens
    IN  IF deficit <= 0 THEN now ELSE now + (deficit \div b.rate)

Advance ==
    /\ now < MaxTime
    /\ now' = now + 1
    /\ UNCHANGED buckets

Next ==
    \/ \E k \in Keys, c \in CustomRates : Grant(k, c) \/ Refuse(k, c) \/ Status(k, c)
    \/ Advance

Spec == Init /\ [][Next]_vars

\* Every key has at most one bucket, and a bucket's clock is never ahead of the clock.
TypeOK ==
    /\ now \in 0..MaxTime
    /\ DOMAIN buckets \subseteq Keys
    /\ \A k \in DOMAIN buckets :
          buckets[k] \in Bucket /\ buckets[k].lastRefill <= now
============================================================================
