---------------------------- MODULE LoginLimiter ----------------------------
(***************************************************************************)
(* The limiter of login attempts (loginRateLimiter in internal/api/        *)
(* router.go): one counter per address in a sync.Map, each under a mutex   *)
(* of its own, and a goroutine that removes the expired ones.  Loading an  *)
(* entry and locking it are two steps, and so are cleanup's look at an     *)
(* entry and its deletion, which names the key and not the entry.          *)
(*                                                                         *)
(* A window is a minute, so the clock ticks only while no attempt is       *)
(* between its two steps; cleanup may take any time.  An entry is named by *)
(* the attempt that created it.                                            *)
(***************************************************************************)
EXTENDS Integers, FiniteSets

CONSTANTS
    Attempts,       \* login requests
    Addresses,
    AddressOf(_),   \* the address of an attempt
    Limit,
    Window,         \* in ticks
    MaxTime,        \* bound on the clock
    None

ASSUME AttemptsAssumption == /\ IsFiniteSet(Attempts) /\ None \notin Attempts \cup Addresses
                             /\ \A r \in Attempts : AddressOf(r) \in Addresses
ASSUME LimitAssumption == Limit \in Nat \ {0} /\ Window \in Nat \ {0} /\ MaxTime \in Nat

VARIABLES
    now,
    entries,        \* the sync.Map: the entry of each address
    entry,          \* what each entry holds: its count and windowStart
    pc,             \* where each attempt is
    held,           \* the entry each attempt has loaded
    sweepAt,        \* the time cleanup read when it began
    unswept,        \* the addresses it has still to visit
    expired,        \* the address it has found expired and deletes next
    at              \* history: when each attempt was answered

vars == <<now, entries, entry, pc, held, sweepAt, unswept, expired, at>>
attempt == <<pc, held, at>>
sweep == <<sweepAt, unswept, expired>>

PCs == {"idle", "loaded", "allowed", "limited"}

Init ==
    /\ now = 0
    /\ entries = [a \in Addresses |-> None]
    /\ entry = [e \in Attempts |-> [count |-> 0, windowStart |-> 0]]
    /\ pc = [r \in Attempts |-> "idle"]
    /\ held = [r \in Attempts |-> None]
    /\ sweepAt = 0
    /\ unswept = {}
    /\ expired = None
    /\ at = [r \in Attempts |-> 0]

----------------------------------------------------------------------------
(* allow. *)

\* time.Now and LoadOrStore.
Load(r) ==
    LET a == AddressOf(r)
        e == IF entries[a] = None THEN r ELSE entries[a]
    IN  /\ pc[r] = "idle"
        /\ entries' = [entries EXCEPT ![a] = e]
        /\ entry' = IF e = r THEN [entry EXCEPT ![r] = [count |-> 0, windowStart |-> now]]
                    ELSE entry
        /\ held' = [held EXCEPT ![r] = e]
        /\ pc' = [pc EXCEPT ![r] = "loaded"]
        /\ UNCHANGED <<now, sweep, at>>

Elapsed(e, time) == time - entry[e].windowStart >= Window

\* Mutant: a new window keeps the count of the old one.
RenewedKeepsCount(e) == IF Elapsed(e, now) THEN [entry[e] EXCEPT !.windowStart = now] ELSE entry[e]

\* The entry as the locked section finds it, its window reset if it has expired.
Renewed(e) == IF Elapsed(e, now) THEN [count |-> 0, windowStart |-> now] ELSE entry[e]

\* The locked section of an attempt that is allowed.
Allow(r) ==
    LET b == Renewed(held[r]) IN
    /\ pc[r] = "loaded"
    /\ b.count < Limit
    /\ entry' = [entry EXCEPT ![held[r]] = [b EXCEPT !.count = @ + 1]]
    /\ pc' = [pc EXCEPT ![r] = "allowed"]
    /\ at' = [at EXCEPT ![r] = now]
    /\ UNCHANGED <<now, entries, held, sweep>>

\* Mutant: refused attempts count, too.
RefuseCounts(r) ==
    LET b == Renewed(held[r]) IN
    /\ pc[r] = "loaded"
    /\ b.count >= Limit
    /\ entry' = [entry EXCEPT ![held[r]] = [b EXCEPT !.count = @ + 1]]
    /\ pc' = [pc EXCEPT ![r] = "limited"]
    /\ at' = [at EXCEPT ![r] = now]
    /\ UNCHANGED <<now, entries, held, sweep>>

\* The locked section of one that is not.
Refuse(r) ==
    LET b == Renewed(held[r]) IN
    /\ pc[r] = "loaded"
    /\ b.count >= Limit
    /\ entry' = [entry EXCEPT ![held[r]] = b]
    /\ pc' = [pc EXCEPT ![r] = "limited"]
    /\ at' = [at EXCEPT ![r] = now]
    /\ UNCHANGED <<now, entries, held, sweep>>

----------------------------------------------------------------------------
(* cleanup, which startCleanup calls in one goroutine. *)

Sweep ==
    /\ unswept = {} /\ expired = None
    /\ sweepAt' = now
    /\ unswept' = Addresses
    /\ UNCHANGED <<now, entries, entry, attempt, expired>>

\* Mutant: whatever is there is removed.
LookNotCompared(a) ==
    /\ a \in unswept /\ expired = None
    /\ unswept' = unswept \ {a}
    /\ expired' = IF entries[a] # None THEN a ELSE None
    /\ UNCHANGED <<now, entries, entry, attempt, sweepAt>>

\* Range visits the key, if it is there, and the callback's locked section compares.
Look(a) ==
    /\ a \in unswept /\ expired = None
    /\ unswept' = unswept \ {a}
    /\ expired' = IF entries[a] # None /\ Elapsed(entries[a], sweepAt) THEN a ELSE None
    /\ UNCHANGED <<now, entries, entry, attempt, sweepAt>>

\* The callback's Delete(key).
Delete ==
    /\ expired # None
    /\ entries' = [entries EXCEPT ![expired] = None]
    /\ expired' = None
    /\ UNCHANGED <<now, entry, attempt, sweepAt, unswept>>

Advance ==
    /\ now < MaxTime
    /\ \A r \in Attempts : pc[r] # "loaded"
    /\ now' = now + 1
    /\ UNCHANGED <<entries, entry, attempt, sweep>>

Next ==
    \/ \E r \in Attempts : Load(r) \/ Allow(r) \/ Refuse(r)
    \/ Sweep
    \/ \E a \in Addresses : Look(a)
    \/ Delete
    \/ Advance

Spec == Init /\ [][Next]_vars

----------------------------------------------------------------------------
(* Properties. *)

\* The variables have their types; no entry counts beyond the limit, and an attempt
\* that has loaded an entry holds one of its own address.
TypeOK ==
    /\ now \in 0..MaxTime /\ sweepAt \in 0..now
    /\ entries \in [Addresses -> Attempts \cup {None}]
    /\ entry \in [Attempts -> [count : 0..Limit, windowStart : 0..now]]
    /\ pc \in [Attempts -> PCs]
    /\ held \in [Attempts -> Attempts \cup {None}]
    /\ \A r \in Attempts : pc[r] = "loaded" =>
          held[r] # None /\ AddressOf(held[r]) = AddressOf(r)
    /\ unswept \subseteq Addresses
    /\ expired \in Addresses \cup {None}
    /\ at \in [Attempts -> 0..now]

\* The attempts from address a that were allowed from t1 until t2.
Allowed(a, t1, t2) ==
    {r \in Attempts : AddressOf(r) = a /\ pc[r] = "allowed" /\ t1 <= at[r] /\ at[r] <= t2}

\* In any period as long as the window, an address is allowed less than three times the
\* limit: the last of one window, all of the next, and, as cleanup deletes entries that
\* are in use but runs in one goroutine, all of one more (the bound is attained).
AttemptsBound ==
    \A a \in Addresses, t \in 0..now :
        Cardinality(Allowed(a, t, t + Window - 1)) <= 3 * Limit - 1

\* Nobody is locked out longer than a window, whatever cleanup does: an attempt is refused
\* only after as many as the limit were allowed from its address in the window before it.
RefusalsEarned ==
    \A r \in Attempts : pc[r] = "limited" =>
        Cardinality(Allowed(AddressOf(r), at[r] - Window + 1, at[r])) >= Limit
=============================================================================
