----------------------------- MODULE RateBounds -----------------------------
(***************************************************************************)
(* What a client of Limiter observes (internal/ratelimit/ratelimit.go and  *)
(* the headers of middleware.go): history variables beside RateLimiter's   *)
(* steps, and the bounds that hold of them whatever the calls and however  *)
(* often the rates of a key change.                                        *)
(***************************************************************************)
EXTENDS RateLimiter

CONSTANTS
    MaxRate,        \* no call asks for a higher rate
    MinRate,        \* nor for a lower one
    Second          \* ticks in a second

ASSUME RateRangeAssumption == /\ MaxRate \in Nat /\ MinRate \in Nat
                              /\ \A r \in Rates : MinRate <= r /\ r <= MaxRate
ASSUME SecondAssumption == Second \in Nat \ {0}

VARIABLES
    mark,           \* an arbitrary instant, fixed at the start
    granted,        \* per key, the requests granted at or after mark
    lastGrant,      \* per key, when a request was last granted; None before
    told            \* per key, the X-RateLimit-Reset that still binds; None if none does

history == <<mark, granted, lastGrant, told>>
None == -1

HInit ==
    /\ Init
    /\ mark \in 0..MaxTime
    /\ granted = [k \in Keys |-> 0]
    /\ lastGrant = [k \in Keys |-> None]
    /\ told = [k \in Keys |-> None]

\* The header middleware.go sends: resetAt.Unix(), in whole seconds.
ResetHeader(key, custom) == ResetAt(key, custom) \div Second

\* A call at another rate than the bucket's voids what the client was told.
StillTold(key, custom) ==
    IF key \in DOMAIN buckets /\ buckets[key].rate = EffectiveRate(custom)
    THEN told[key] ELSE None

HGrant(k, c) ==
    /\ Grant(k, c)
    /\ granted' = [granted EXCEPT ![k] = IF now >= mark THEN @ + 1 ELSE @]
    /\ lastGrant' = [lastGrant EXCEPT ![k] = now]
    /\ told' = [told EXCEPT ![k] = None]
    /\ UNCHANGED mark

HRefuse(k, c) ==
    /\ Refuse(k, c)
    /\ told' = [told EXCEPT ![k] = StillTold(k, c)]
    /\ UNCHANGED <<mark, granted, lastGrant>>

HStatus(k, c) ==
    /\ Status(k, c)
    /\ told' = [told EXCEPT ![k] = ResetHeader(k, c)]
    /\ UNCHANGED <<mark, granted, lastGrant>>

HAdvance == Advance /\ UNCHANGED history

HNext ==
    \/ \E k \in Keys, c \in CustomRates : HGrant(k, c) \/ HRefuse(k, c) \/ HStatus(k, c)
    \/ HAdvance

hvars == <<vars, history>>
HSpec == HInit /\ [][HNext]_hvars

----------------------------------------------------------------------------
(* Properties. *)

\* From any instant on, a key is granted at most one full bucket and what its rate
\* yields in the time since: MaxRate + MaxRate * elapsed / Window requests.  Neither
\* refused requests, nor Status calls, nor changes of the rate create tokens.
RateBound ==
    \A k \in Keys : now >= mark =>
        granted[k] * Window <= MaxRate * Window + MaxRate * (now - mark)

\* What a call at rate r would find in the bucket of k now.
Level(k) == Refill(buckets[k]).tokens

\* Retrying does not postpone admission: at every moment the bucket holds at least what
\* MinRate yields since the last grant, or a whole token, so a key is refused for at
\* most Window / MinRate after a granted request, however often it tries.
NoStarvation ==
    \A k \in DOMAIN buckets : lastGrant[k] # None =>
        Level(k) >= Smaller(Window, MinRate * (now - lastGrant[k]))

\* A client that spends nothing finds its bucket full one second after the time the
\* X-RateLimit-Reset header names: the header is early by less than a second (it is
\* truncated, middleware.go:41), and refusals or other Status calls do not move it.
\* It binds what a refusal or a Status call said: a request that is granted carries a
\* header computed before Allow took its token, and is no word on the bucket it leaves.
ResetWithinASecond ==
    \A k \in DOMAIN buckets : (told[k] # None /\ now >= (told[k] + 1) * Second) =>
        Level(k) >= buckets[k].rate * Window
============================================================================
