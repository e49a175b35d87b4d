------------------------- MODULE LoginLimiterProofs -------------------------
(***************************************************************************)
(* Proofs about LoginLimiter, for any number of attempts, addresses and    *)
(* any limit.  A count says how many attempts its entry has allowed in the *)
(* running window (Counted), also where cleanup has deleted the entry from *)
(* under an attempt that still holds it.  For the bound on what passes, a  *)
(* window of an entry opens with an attempt that it allows (Opened), which *)
(* keeps two of its windows apart (Spaced), and cleanup's deletions of an  *)
(* address are a window apart (Split): no period as long as a window meets *)
(* more than two windows of one entry and the first of the next.           *)
(***************************************************************************)
EXTENDS LoginLimiter, FiniteSetTheorems, TLAPS

\* The attempts that entry e has allowed in its window.
On(e) == {r \in Attempts : held[r] = e /\ pc[r] = "allowed" /\ at[r] >= entry[e].windowStart}

\* Attempts hold entries of their own address, which others do not create anew.
Holding ==
    /\ \A a \in Addresses : entries[a] # None =>
          AddressOf(entries[a]) = a /\ pc[entries[a]] # "idle"
    /\ \A r \in Attempts : held[r] # None =>
          AddressOf(held[r]) = AddressOf(r) /\ pc[held[r]] # "idle"
    /\ \A r \in Attempts : pc[r] # "idle" => held[r] # None

\* An allowed attempt lies in the last window of its entry, or in an earlier one.
InWindow ==
    \A r \in Attempts : pc[r] = "allowed" => at[r] < entry[held[r]].windowStart + Window

Counted == \A e \in Attempts : entry[e].count = Cardinality(On(e))

IInv == TypeOK /\ Holding /\ InWindow /\ Counted /\ RefusalsEarned

LEMMA Finite == ASSUME NEW S \in SUBSET Attempts
                PROVE  IsFiniteSet(S) /\ Cardinality(S) \in Nat
BY AttemptsAssumption, FS_Subset, FS_CardinalityType

LEMMA InvInit == Init => IInv
<1> SUFFICES ASSUME Init PROVE IInv
  OBVIOUS
<1>1. TypeOK /\ Holding /\ InWindow /\ RefusalsEarned
  BY AttemptsAssumption, LimitAssumption DEF Init, TypeOK, PCs, Holding, InWindow, RefusalsEarned
<1>2. Counted
  <2>1. \A e \in Attempts : On(e) = {}
    BY DEF Init, On
  <2> QED BY <2>1, FS_EmptySet DEF Init, Counted
<1> QED BY <1>1, <1>2 DEF IInv

\* What allow finds once it has locked an entry: a new window has allowed nothing yet.
LEMMA RenewedCounts ==
    ASSUME IInv, NEW e \in Attempts
    PROVE  LET b == Renewed(e) IN
           /\ b \in [count : 0..Limit, windowStart : 0..now]
           /\ now < b.windowStart + Window
           /\ entry[e].windowStart <= b.windowStart
           /\ b.count = Cardinality({r \in On(e) : at[r] >= b.windowStart})
<1> DEFINE b == Renewed(e)
<1> SUFFICES /\ b \in [count : 0..Limit, windowStart : 0..now]
             /\ now < b.windowStart + Window
             /\ entry[e].windowStart <= b.windowStart
             /\ b.count = Cardinality({r \in On(e) : at[r] >= b.windowStart})
  OBVIOUS
<1>0. /\ entry[e] \in [count : 0..Limit, windowStart : 0..now]
      /\ now \in Nat /\ Window \in Nat \ {0} /\ Limit \in Nat
      /\ \A r \in Attempts : at[r] \in 0..now
  BY LimitAssumption DEF IInv, TypeOK
<1>1. CASE Elapsed(e, now)
  <2>1. b = [count |-> 0, windowStart |-> now]
    BY <1>1 DEF Renewed
  <2>2. entry[e].windowStart + Window <= now
    BY <1>0, <1>1 DEF Elapsed
  <2>3. ASSUME NEW r \in On(e), at[r] >= now PROVE FALSE
    BY <1>0, <2>2, <2>3 DEF IInv, InWindow, On
  <2>4. {r \in On(e) : at[r] >= now} = {}
    BY <2>3
  <2>5. Cardinality({r \in On(e) : at[r] >= b.windowStart}) = 0
    BY <2>1, <2>4, FS_EmptySet
  <2> HIDE DEF b
  <2> QED BY <1>0, <2>1, <2>2, <2>5
<1>2. CASE ~Elapsed(e, now)
  <2>1. b = entry[e]
    BY <1>2 DEF Renewed
  <2>2. now < entry[e].windowStart + Window
    BY <1>0, <1>2 DEF Elapsed
  <2>3. {r \in On(e) : at[r] >= entry[e].windowStart} = On(e)
    BY DEF On
  <2>4. entry[e].count = Cardinality(On(e))
    BY DEF IInv, Counted
  <2> HIDE DEF b
  <2> QED BY <1>0, <2>1, <2>2, <2>3, <2>4
<1> QED BY <1>1, <1>2

----------------------------------------------------------------------------
(* The steps. *)

\* Allowed, at the end of a window that ends at t, with its state as parameters.
Recent(stage, answered, a, t) ==
    {r \in Attempts : /\ AddressOf(r) = a /\ stage[r] = "allowed"
                      /\ t - Window + 1 <= answered[r] /\ answered[r] <= t}

LEMMA Earned ==
    /\ RefusalsEarned <=> \A r \in Attempts : pc[r] = "limited" =>
          Cardinality(Recent(pc, at, AddressOf(r), at[r])) >= Limit
    /\ RefusalsEarned' <=> \A r \in Attempts : pc'[r] = "limited" =>
          Cardinality(Recent(pc', at', AddressOf(r), at'[r])) >= Limit
BY DEF RefusalsEarned, Allowed, Recent

\* Attempts that were allowed stay allowed.
LEMMA RecentKept ==
    ASSUME NEW r \in Attempts, pc[r] = "loaded",
           \A q \in Attempts \ {r} : pc'[q] = pc[q] /\ at'[q] = at[q],
           NEW a, NEW t
    PROVE  /\ Recent(pc, at, a, t) \in SUBSET Recent(pc', at', a, t)
           /\ Cardinality(Recent(pc, at, a, t)) <= Cardinality(Recent(pc', at', a, t))
           /\ IsFiniteSet(Recent(pc', at', a, t))
           /\ Cardinality(Recent(pc, at, a, t)) \in Nat
           /\ Cardinality(Recent(pc', at', a, t)) \in Nat
<1>1. Recent(pc, at, a, t) \in SUBSET Recent(pc', at', a, t)
  BY DEF Recent
<1>2. /\ Recent(pc, at, a, t) \in SUBSET Attempts
      /\ Recent(pc', at', a, t) \in SUBSET Attempts
  BY DEF Recent
<1> QED BY <1>1, <1>2, Finite, FS_Subset

LEMMA LoadStep == ASSUME IInv, NEW r \in Attempts, Load(r) PROVE IInv'
<1> DEFINE a == AddressOf(r)
           e == IF entries[a] = None THEN r ELSE entries[a]
<1>0. /\ a \in Addresses /\ e \in Attempts /\ AddressOf(e) = a /\ None \notin Attempts
      /\ e # r => pc[e] # "idle"
      /\ e = r => entries[a] = None
  BY AttemptsAssumption DEF IInv, TypeOK, Holding, Load
<1>1. /\ pc[r] = "idle" /\ pc' = [pc EXCEPT ![r] = "loaded"]
      /\ held' = [held EXCEPT ![r] = e]
      /\ entries' = [entries EXCEPT ![a] = e]
      /\ entry' = IF e = r THEN [entry EXCEPT ![r] = [count |-> 0, windowStart |-> now]] ELSE entry
      /\ UNCHANGED <<now, sweep, at>>
  BY DEF Load
<1> HIDE DEF e, a
<1>2. \A q \in Attempts : held[q] # r
  BY <1>1, <1>0 DEF IInv, Holding
<1>3. TypeOK'
  <2>1. entry' \in [Attempts -> [count : 0..Limit, windowStart : 0..now]]
    BY <1>1, LimitAssumption DEF IInv, TypeOK
  <2> QED BY <1>0, <1>1, <2>1 DEF IInv, TypeOK, PCs, sweep, a
<1>4. Holding'
  BY <1>0, <1>1 DEF IInv, TypeOK, Holding, a
<1>5. InWindow'
  BY <1>0, <1>1, <1>2 DEF IInv, TypeOK, Holding, InWindow
<1>6. Counted'
  <2>1. \A q \in Attempts : pc'[q] = "allowed" => pc[q] = "allowed" /\ held'[q] = held[q] /\ q # r
    BY <1>1 DEF IInv, TypeOK
  <2>1a. \A q \in Attempts : pc[q] = "allowed" => pc'[q] = "allowed" /\ held'[q] = held[q]
    BY <1>1 DEF IInv, TypeOK
  <2>2. ASSUME NEW d \in Attempts, d # r \/ e # r PROVE On(d)' = On(d) /\ entry'[d] = entry[d]
    <3>1. entry'[d] = entry[d]
      BY <1>1, <2>2 DEF IInv, TypeOK
    <3> QED BY <1>1, <2>1, <2>1a, <3>1 DEF On
  <2>3. CASE e = r
    <3>1. On(r)' = {}
      BY <1>2, <2>1 DEF On
    <3>2. entry'[r].count = 0
      BY <1>1, <2>3 DEF IInv, TypeOK
    <3> QED BY <2>2, <3>1, <3>2, FS_EmptySet DEF IInv, Counted
  <2>4. CASE e # r
    BY <2>2, <2>4 DEF IInv, Counted
  <2> QED BY <2>3, <2>4
<1>7. RefusalsEarned'
  <2>1. \A x, t : Recent(pc', at', x, t) = Recent(pc, at, x, t)
    BY <1>1 DEF IInv, TypeOK, Recent
  <2>2. \A q \in Attempts : pc'[q] = "limited" => pc[q] = "limited" /\ at'[q] = at[q]
    BY <1>1 DEF IInv, TypeOK
  <2> QED BY <2>1, <2>2, Earned DEF IInv
<1> QED BY <1>3, <1>4, <1>5, <1>6, <1>7 DEF IInv

\* What an answered attempt leaves of the invariant, whatever the answer.
LEMMA AnswerKeeps ==
    ASSUME IInv, NEW r \in Attempts, Allow(r) \/ Refuse(r)
    PROVE  TypeOK' /\ Holding' /\ InWindow'
<1> DEFINE e == held[r]
           b == Renewed(e)
<1>1. /\ pc[r] = "loaded" /\ e \in Attempts
      /\ \/ pc' = [pc EXCEPT ![r] = "allowed"]
         \/ pc' = [pc EXCEPT ![r] = "limited"]
      /\ at' = [at EXCEPT ![r] = now]
      /\ UNCHANGED <<now, entries, held, sweep>>
  BY DEF IInv, TypeOK, Allow, Refuse
<1>2. \E c \in [count : 0..Limit, windowStart : 0..now] :
         /\ entry' = [entry EXCEPT ![e] = c]
         /\ c.windowStart = b.windowStart
  <2>1. b \in [count : 0..Limit, windowStart : 0..now]
    BY <1>1, RenewedCounts
  <2>2. CASE Refuse(r)
    BY <2>1, <2>2 DEF Refuse
  <2>3. CASE Allow(r)
    <3>1. [b EXCEPT !.count = @ + 1] \in [count : 0..Limit, windowStart : 0..now]
      BY <2>1, <2>3, LimitAssumption DEF Allow
    <3> QED BY <2>1, <2>3, <3>1 DEF Allow
  <2> QED BY <2>2, <2>3
<1>3. now < b.windowStart + Window /\ entry[e].windowStart <= b.windowStart
  BY <1>1, RenewedCounts
<1>4. PICK c \in [count : 0..Limit, windowStart : 0..now] :
         entry' = [entry EXCEPT ![e] = c] /\ c.windowStart = b.windowStart
  BY <1>2
<1> HIDE DEF e, b
<1>5. TypeOK'
  BY <1>1, <1>4 DEF IInv, TypeOK, PCs, sweep
<1>6. Holding'
  BY <1>1 DEF IInv, TypeOK, Holding
<1>7. ASSUME NEW q \in Attempts, pc'[q] = "allowed" PROVE at'[q] < entry'[held'[q]].windowStart + Window
  <2>1. held[q] \in Attempts
    BY <1>1, <1>7 DEF IInv, TypeOK, Holding
  <2>2. /\ entry[held[q]].windowStart \in Int /\ Window \in Int
        /\ entry'[held[q]].windowStart \in Int /\ b.windowStart \in Int
        /\ now \in Int /\ at[q] \in Int
    BY <1>4, <1>5, <2>1, LimitAssumption DEF IInv, TypeOK
  <2>3. entry[held[q]].windowStart <= entry'[held[q]].windowStart
    BY <1>1, <1>3, <1>4, <2>1, <2>2 DEF IInv, TypeOK
  <2>4. CASE q = r
    BY <1>1, <1>3, <1>4, <2>2, <2>4 DEF IInv, TypeOK, e
  <2>5. CASE q # r
    <3>1. pc[q] = "allowed" /\ at'[q] = at[q] /\ held'[q] = held[q]
      BY <1>1, <1>7, <2>5 DEF IInv, TypeOK
    <3>2. at[q] < entry[held[q]].windowStart + Window
      BY <3>1 DEF IInv, InWindow
    <3> QED BY <2>2, <2>3, <3>1, <3>2
  <2> QED BY <2>4, <2>5
<1> QED BY <1>5, <1>6, <1>7 DEF InWindow

\* Who is counted by an entry after an answer: those of the running window, and r if allowed.
LEMMA AnswerCounts ==
    ASSUME IInv, NEW r \in Attempts, Allow(r) \/ Refuse(r)
    PROVE  Counted'
<1>0. PICK e \in Attempts : e = held[r]
  BY DEF IInv, TypeOK, Allow, Refuse
<1> DEFINE b == Renewed(e)
           Old == {q \in On(e) : at[q] >= b.windowStart}
<1>1. /\ pc[r] = "loaded" /\ held[r] = e
      /\ \A q \in Attempts \ {r} : pc'[q] = pc[q] /\ at'[q] = at[q]
      /\ at'[r] = now /\ held' = held /\ now \in Nat
  BY <1>0 DEF IInv, TypeOK, Allow, Refuse
<1>2. /\ b \in [count : 0..Limit, windowStart : 0..now]
      /\ b.count = Cardinality(Old)
      /\ entry[e].windowStart <= b.windowStart
  BY <1>1, RenewedCounts
<1>3. r \notin On(e) /\ IsFiniteSet(Old)
  BY <1>1, Finite DEF On
<1>4. ASSUME NEW d \in Attempts, d # e PROVE entry'[d].count = Cardinality(On(d)')
  <2>1. entry'[d] = entry[d]
    BY <1>1, <1>4 DEF IInv, TypeOK, Allow, Refuse
  <2>2. On(d)' = On(d)
    BY <1>1, <1>4, <2>1 DEF On
  <2> QED BY <2>1, <2>2 DEF IInv, Counted
<1>5. CASE Allow(r)
  <2>1. entry'[e].count = b.count + 1 /\ entry'[e].windowStart = b.windowStart /\ pc'[r] = "allowed"
    BY <1>1, <1>2, <1>5 DEF IInv, TypeOK, Allow
  <2>2. On(e)' = Old \cup {r}
    <3>1. ASSUME NEW q \in On(e)', q # r PROVE q \in Old
      BY <1>1, <1>2, <2>1, <3>1 DEF IInv, TypeOK, On
    <3>2. ASSUME NEW q \in Old PROVE q \in On(e)'
      BY <1>1, <1>3, <2>1, <3>2 DEF On
    <3>3. r \in On(e)'
      BY <1>1, <1>2, <2>1 DEF On
    <3> QED BY <3>1, <3>2, <3>3
  <2>3. Cardinality(Old \cup {r}) = Cardinality(Old) + 1
    BY <1>3, FS_AddElement
  <2>4. entry'[e].count = Cardinality(On(e)')
    BY <1>2, <2>1, <2>2, <2>3
  <2> QED BY <1>4, <2>4 DEF Counted
<1>6. CASE Refuse(r)
  <2>1. entry'[e] = b /\ pc'[r] = "limited"
    BY <1>1, <1>6 DEF IInv, TypeOK, Refuse
  <2>2. On(e)' = Old
    <3>1. ASSUME NEW q \in On(e)' PROVE q \in Old
      BY <1>1, <1>2, <2>1, <3>1 DEF IInv, TypeOK, On
    <3>2. ASSUME NEW q \in Old PROVE q \in On(e)'
      BY <1>1, <1>3, <2>1, <3>2 DEF On
    <3> QED BY <3>1, <3>2
  <2>3. entry'[e].count = Cardinality(On(e)')
    BY <1>2, <2>1, <2>2
  <2> QED BY <1>4, <2>3 DEF Counted
<1> QED BY <1>5, <1>6

\* The attempts that an attempt is refused for were allowed since its window began.
LEMMA AnswerEarned ==
    ASSUME IInv, NEW r \in Attempts, Allow(r) \/ Refuse(r)
    PROVE  RefusalsEarned'
<1>1. /\ pc[r] = "loaded" /\ pc'[r] \in {"allowed", "limited"} /\ at'[r] = now
      /\ \A q \in Attempts \ {r} : pc'[q] = pc[q] /\ at'[q] = at[q]
      /\ held[r] \in Attempts /\ AddressOf(held[r]) = AddressOf(r) /\ AddressOf(r) \in Addresses
      /\ now \in Nat /\ Window \in Nat /\ Limit \in Nat
  BY AttemptsAssumption, LimitAssumption DEF IInv, TypeOK, Allow, Refuse
<1>2. \A q \in Attempts : at[q] \in Int /\ AddressOf(q) \in Addresses
  BY AttemptsAssumption DEF IInv, TypeOK
<1>3. ASSUME NEW q \in Attempts, q # r, pc'[q] = "limited"
      PROVE  Cardinality(Recent(pc', at', AddressOf(q), at'[q])) >= Limit
  <2>1. Cardinality(Recent(pc, at, AddressOf(q), at[q])) >= Limit
    BY <1>1, <1>3, Earned DEF IInv
  <2> QED BY <1>1, <1>3, <2>1, RecentKept
<1>4. ASSUME pc'[r] = "limited"
      PROVE  Cardinality(Recent(pc', at', AddressOf(r), now)) >= Limit
  <2> DEFINE b == Renewed(held[r])
             Old == {q \in On(held[r]) : at[q] >= b.windowStart}
             New == Recent(pc', at', AddressOf(r), now)
  <2>1. b.count >= Limit
    BY <1>1, <1>4 DEF IInv, TypeOK, Allow, Refuse
  <2>2. /\ b.count = Cardinality(Old) /\ b.windowStart \in Nat
        /\ now < b.windowStart + Window
    <3>1. /\ b \in [count : 0..Limit, windowStart : 0..now]
          /\ now < b.windowStart + Window
          /\ b.count = Cardinality(Old)
      BY <1>1, RenewedCounts
    <3> HIDE DEF b, Old
    <3> QED BY <1>1, <3>1
  <2>3. ASSUME NEW q \in Old PROVE q \in Recent(pc, at, AddressOf(r), now)
    <3>1. /\ q \in Attempts /\ held[q] = held[r] /\ pc[q] = "allowed"
          /\ at[q] >= b.windowStart /\ at[q] \in 0..now
      BY <2>3 DEF On, IInv, TypeOK
    <3>2. AddressOf(q) = AddressOf(r)
      <4>1. held[q] # None
        BY <1>1, <3>1, AttemptsAssumption
      <4> QED BY <1>1, <3>1, <4>1 DEF IInv, Holding
    <3>3. now - Window + 1 <= at[q] /\ at[q] <= now
      BY <1>1, <2>2, <3>1
    <3> QED BY <3>1, <3>2, <3>3 DEF Recent
  <2>4. /\ Recent(pc, at, AddressOf(r), now) \in SUBSET New
        /\ IsFiniteSet(New) /\ Cardinality(New) \in Nat
    BY <1>1, RecentKept
  <2>5. Old \in SUBSET Attempts
    BY DEF On
  <2> HIDE DEF Old, New, b
  <2>6. Cardinality(Old) <= Cardinality(New) /\ Cardinality(Old) \in Nat
    BY <2>3, <2>4, <2>5, Finite, FS_Subset
  <2> QED BY <1>1, <2>1, <2>2, <2>4, <2>6 DEF New
<1> QED BY <1>1, <1>3, <1>4, Earned

\* Cleanup and the clock change nothing that a count depends on.
LEMMA OtherStep == ASSUME IInv, (Sweep \/ (\E a \in Addresses : Look(a)) \/ Delete \/ Advance
                                   \/ UNCHANGED vars)
                   PROVE  IInv'
<1>1. UNCHANGED <<entry, pc, held, at>>
  BY DEF Sweep, Look, Delete, Advance, vars, attempt
<1>2. /\ \A a \in Addresses : entries'[a] # None => entries'[a] = entries[a]
      /\ entries' \in [Addresses -> Attempts \cup {None}]
  BY DEF IInv, TypeOK, Sweep, Look, Delete, Advance, vars
<1>3. /\ now' \in 0..MaxTime /\ now <= now' /\ sweepAt' \in 0..now'
      /\ unswept' \subseteq Addresses /\ expired' \in Addresses \cup {None}
  BY LimitAssumption DEF IInv, TypeOK, Sweep, Look, Delete, Advance, vars, sweep
<1>4. TypeOK'
  <2>1. entry' \in [Attempts -> [count : 0..Limit, windowStart : 0..now']]
        /\ at' \in [Attempts -> 0..now']
    <3>1. 0..now \subseteq 0..now'
      BY <1>3 DEF IInv, TypeOK
    <3> QED BY <1>1, <3>1 DEF IInv, TypeOK
  <2> QED BY <1>1, <1>2, <1>3, <2>1 DEF IInv, TypeOK
<1>5. Holding' /\ InWindow'
  BY <1>1, <1>2 DEF IInv, Holding, InWindow
<1>6. Counted'
  <2>1. \A e \in Attempts : On(e)' = On(e)
    BY <1>1 DEF On
  <2> QED BY <1>1, <2>1 DEF IInv, Counted
<1>7. RefusalsEarned'
  BY <1>1, Earned DEF IInv
<1> QED BY <1>4, <1>5, <1>6, <1>7 DEF IInv

LEMMA InvStep == IInv /\ [Next]_vars => IInv'
<1> SUFFICES ASSUME IInv, [Next]_vars PROVE IInv'
  OBVIOUS
<1>1. ASSUME NEW r \in Attempts, Load(r) PROVE IInv'
  BY <1>1, LoadStep
<1>2. ASSUME NEW r \in Attempts, Allow(r) \/ Refuse(r) PROVE IInv'
  BY <1>2, AnswerKeeps, AnswerCounts, AnswerEarned DEF IInv
<1> QED BY <1>1, <1>2, OtherStep DEF Next

LEMMA InvAlways == Spec => []IInv
BY InvInit, InvStep, PTL DEF Spec

----------------------------------------------------------------------------
(* How many attempts pass. *)

\* The grants of entry e in the ticks of a window before its last window.
Early(e) ==
    {r \in Attempts : /\ held[r] = e /\ pc[r] = "allowed"
                      /\ entry[e].windowStart - Window < at[r]
                      /\ at[r] < entry[e].windowStart}

\* An entry is named by the attempt that created it.
Named ==
    /\ \A a \in Addresses : entries[a] # None => held[entries[a]] = entries[a]
    /\ \A r \in Attempts : held[r] # None => held[held[r]] = held[r]

\* A window opens with an attempt that it allows; until then its creator is at the lock.
Opened ==
    \A e \in Attempts : held[e] = e =>
        \/ \E r \in On(e) : at[r] = entry[e].windowStart
        \/ On(e) = {} /\ entry[e].windowStart = now /\ pc[e] = "loaded"

\* So two windows of an entry leave no room for twice the limit.
Spaced == \A e \in Attempts : Cardinality(Early(e)) <= Limit - 1

\* Cleanup last deleted the entry of address a at time d, and it was e.  What others than
\* the entry of a have granted was granted by then, and in the window before it by e only;
\* the entry of a has been made since, and when it is on its second window, or is found
\* expired, a window has gone by.
Split(a, d, e) ==
    /\ \A r \in Attempts : AddressOf(r) = a /\ held[r] # entries[a] =>
          /\ pc[r] = "allowed" => at[r] <= d /\ (d - Window < at[r] => held[r] = e)
          /\ pc[r] = "loaded" => now = d /\ held[r] = e
    /\ entries[a] # None =>
          /\ d <= entry[entries[a]].windowStart
          /\ \A r \in Attempts : held[r] = entries[a] /\ pc[r] = "allowed" =>
                /\ d <= at[r]
                /\ \/ entry[entries[a]].windowStart <= at[r]
                   \/ d + Window <= entry[entries[a]].windowStart
    /\ expired = a => entries[a] # None /\ d + Window <= now

Deleted == \A a \in Addresses : \E d \in 0..now, e \in Attempts \cup {None} : Split(a, d, e)

Order == IInv /\ Named /\ Opened /\ Spaced /\ Deleted

LEMMA OrderInit == Init => Order
<1> SUFFICES ASSUME Init PROVE Order
  OBVIOUS
<1>1. IInv
  BY InvInit
<1>2. Named /\ Opened
  BY AttemptsAssumption DEF Init, Named, Opened
<1>3. Spaced
  <2>1. \A e \in Attempts : Early(e) = {}
    BY DEF Init, Early
  <2> QED BY <2>1, FS_EmptySet, LimitAssumption DEF Spaced
<1>4. Deleted
  <2>1. ASSUME NEW a \in Addresses PROVE Split(a, 0, None)
    BY AttemptsAssumption DEF Init, Split
  <2> QED BY <2>1 DEF Init, Deleted
<1> QED BY <1>1, <1>2, <1>3, <1>4 DEF Order

\* What every answer does to the entry that its attempt holds, and to nothing else.
LEMMA AnswerEffect ==
    ASSUME Order, NEW r \in Attempts, Allow(r) \/ Refuse(r), NEW e \in Attempts, held[r] = e
    PROVE  /\ held[e] = e /\ AddressOf(e) = AddressOf(r) /\ pc[r] = "loaded"
           /\ \A d \in Attempts \ {e} : entry'[d] = entry[d]
           /\ entry'[e].windowStart =
                IF Elapsed(e, now) THEN now ELSE entry[e].windowStart
           /\ \A q \in Attempts \ {r} : pc'[q] = pc[q] /\ at'[q] = at[q]
           /\ pc'[r] \in {"allowed", "limited"} /\ at'[r] = now
           /\ UNCHANGED <<now, entries, held, unswept, expired>>
           /\ pc'[r] = "limited" => entry'[e].count >= Limit /\ ~ Elapsed(e, now)
<1>1. AddressOf(e) = AddressOf(r) /\ pc[r] = "loaded"
  BY DEF Order, IInv, TypeOK, Allow, Refuse
<1>2. held[e] = e
  BY <1>1, AttemptsAssumption DEF Order, Named
<1>3. /\ Renewed(e) \in [count : 0..Limit, windowStart : 0..now]
      /\ Renewed(e).windowStart = IF Elapsed(e, now) THEN now ELSE entry[e].windowStart
      /\ Elapsed(e, now) => Renewed(e).count = 0
  BY <1>1, RenewedCounts DEF Renewed, Order
<1>4. CASE Allow(r)
  BY <1>1, <1>2, <1>3, <1>4 DEF Allow, sweep, Order, IInv, TypeOK
<1>5. CASE Refuse(r)
  BY <1>1, <1>2, <1>3, <1>5, LimitAssumption DEF Refuse, sweep, Order, IInv, TypeOK
<1> QED BY <1>4, <1>5

LEMMA AnswerOpened ==
    ASSUME Order, NEW r \in Attempts, Allow(r) \/ Refuse(r), NEW e \in Attempts, held[r] = e
    PROVE  Opened'
<1>1. /\ held[r] = e /\ held[e] = e /\ pc[r] = "loaded"
      /\ \A d \in Attempts \ {e} : entry'[d] = entry[d]
      /\ entry'[e].windowStart = IF Elapsed(e, now) THEN now ELSE entry[e].windowStart
      /\ \A q \in Attempts \ {r} : pc'[q] = pc[q] /\ at'[q] = at[q]
      /\ pc'[r] \in {"allowed", "limited"} /\ at'[r] = now /\ now' = now /\ held' = held
      /\ pc'[r] = "limited" => entry'[e].count >= Limit /\ ~ Elapsed(e, now)
  BY AnswerEffect
<1>0. /\ now \in Nat /\ Limit \in Nat \ {0} /\ Window \in Nat \ {0}
      /\ \A d \in Attempts : entry[d].windowStart \in 0..now /\ at[d] \in 0..now
  BY LimitAssumption DEF Order, IInv, TypeOK
<1>2. ASSUME NEW d \in Attempts, d # e, held'[d] = d
      PROVE  \/ \E q \in On(d)' : at'[q] = entry'[d].windowStart
             \/ On(d)' = {} /\ entry'[d].windowStart = now' /\ pc'[d] = "loaded"
  <2>1. On(d)' = On(d) /\ r \notin On(d)
    BY <1>1, <1>2 DEF On
  <2>2. d # r
    BY <1>1, <1>2
  <2>3. \A q \in On(d) : at'[q] = at[q]
    BY <1>1, <2>1 DEF On
  <2> QED BY <1>1, <1>2, <2>1, <2>2, <2>3 DEF Order, Opened
<1>3. CASE pc'[r] = "allowed" /\ (Elapsed(e, now) \/ On(e) = {})
  <2>1. entry'[e].windowStart = now
    BY <1>1, <1>3 DEF Order, Opened
  <2>2. r \in On(e)'
    BY <1>0, <1>1, <1>3, <2>1 DEF On
  <2> QED BY <1>1, <1>2, <2>1, <2>2 DEF Opened
<1>4. CASE ~ Elapsed(e, now) /\ On(e) # {}
  <2>1. PICK q \in On(e) : at[q] = entry[e].windowStart
    BY <1>1, <1>4 DEF Order, Opened
  <2>2. q # r /\ q \in Attempts /\ held[q] = e /\ pc[q] = "allowed"
    BY <1>1, <2>1 DEF On
  <2>3. q \in On(e)' /\ at'[q] = entry'[e].windowStart
    BY <1>0, <1>1, <1>4, <2>1, <2>2 DEF On
  <2> QED BY <1>2, <2>3 DEF Opened
<1>5. CASE pc'[r] = "limited" /\ On(e) = {}
  <2>1. Counted'
    BY AnswerCounts DEF Order
  <2>2. On(e)' \subseteq On(e)
    BY <1>1, <1>5 DEF On
  <2>3. entry'[e].count = 0
    BY <1>1, <1>5, <2>1, <2>2, FS_EmptySet DEF Counted
  <2> QED BY <1>0, <1>1, <1>5, <2>3
<1> QED BY <1>1, <1>3, <1>4, <1>5

LEMMA AnswerSpaced ==
    ASSUME Order, NEW r \in Attempts, Allow(r) \/ Refuse(r), NEW e \in Attempts, held[r] = e
    PROVE  Spaced'
<1>1. /\ held[r] = e /\ held[e] = e /\ pc[r] = "loaded"
      /\ \A d \in Attempts \ {e} : entry'[d] = entry[d]
      /\ entry'[e].windowStart = IF Elapsed(e, now) THEN now ELSE entry[e].windowStart
      /\ \A q \in Attempts \ {r} : pc'[q] = pc[q] /\ at'[q] = at[q]
      /\ at'[r] = now /\ held' = held
  BY AnswerEffect
<1>0. /\ now \in Nat /\ Limit \in Nat \ {0} /\ Window \in Nat \ {0}
      /\ \A d \in Attempts : /\ entry[d].windowStart \in 0..now /\ at[d] \in 0..now
                             /\ entry[d].count \in 0..Limit
  BY LimitAssumption DEF Order, IInv, TypeOK
<1>2. ASSUME NEW d \in Attempts, d # e PROVE Cardinality(Early(d)') <= Limit - 1
  <2>1. Early(d)' = Early(d)
    BY <1>1, <1>2 DEF Early
  <2> QED BY <2>1 DEF Order, Spaced
<1>3. CASE ~ Elapsed(e, now)
  <2>1. entry'[e].windowStart = entry[e].windowStart /\ at'[r] >= entry[e].windowStart
    BY <1>0, <1>1, <1>3
  <2>2. Early(e)' = Early(e)
    <3>1. ASSUME NEW q \in Early(e)' PROVE q \in Early(e)
      <4>1. q # r
        BY <1>0, <1>1, <2>1, <3>1 DEF Early
      <4> QED BY <1>1, <2>1, <3>1, <4>1 DEF Early
    <3>2. ASSUME NEW q \in Early(e) PROVE q \in Early(e)'
      BY <1>1, <2>1, <3>2 DEF Early
    <3> QED BY <3>1, <3>2
  <2>3. Cardinality(Early(e)') <= Limit - 1
    BY <1>1, <2>2 DEF Order, Spaced
  <2> QED BY <1>2, <2>3 DEF Spaced
<1>4. CASE Elapsed(e, now)
  <2>1. entry'[e].windowStart = now /\ entry[e].windowStart + Window <= now
    BY <1>0, <1>1, <1>4 DEF Elapsed
  <2>2. ASSUME NEW q \in Early(e)' PROVE q \in On(e) /\ at[q] # entry[e].windowStart
    <3>1. q \in Attempts /\ q # r
      BY <1>0, <1>1, <2>1, <2>2 DEF Early
    <3>2. held[q] = e /\ pc[q] = "allowed" /\ now - Window < at[q]
      BY <1>1, <2>1, <2>2, <3>1 DEF Early
    <3> QED BY <1>0, <1>1, <2>1, <3>1, <3>2 DEF On
  <2>3. IsFiniteSet(On(e)) /\ Cardinality(On(e)) = entry[e].count
    BY <1>1, Finite DEF On, Order, IInv, Counted
  <2>4. CASE On(e) = {}
    <3>1. Early(e)' = {}
      BY <2>2, <2>4
    <3>2. Cardinality(Early(e)') <= Limit - 1
      BY <1>0, <3>1, FS_EmptySet
    <3> QED BY <1>2, <3>2 DEF Spaced
  <2>5. CASE On(e) # {}
    <3>1. PICK w \in On(e) : at[w] = entry[e].windowStart
      BY <1>1, <2>5 DEF Order, Opened
    <3>2. Early(e)' \in SUBSET (On(e) \ {w})
      BY <2>2, <3>1
    <3>3. IsFiniteSet(On(e) \ {w}) /\ Cardinality(On(e) \ {w}) = entry[e].count - 1
      BY <2>3, <3>1, FS_RemoveElement
    <3>4. Cardinality(Early(e)') <= entry[e].count - 1 /\ Cardinality(Early(e)') \in Nat
      BY <3>2, <3>3, FS_Subset, FS_CardinalityType
    <3>5. Cardinality(Early(e)') <= Limit - 1
      BY <1>0, <1>1, <3>4
    <3> QED BY <1>2, <3>5 DEF Spaced
  <2> QED BY <2>4, <2>5
<1> QED BY <1>3, <1>4

LEMMA AnswerDeleted ==
    ASSUME Order, NEW r \in Attempts, Allow(r) \/ Refuse(r), NEW h \in Attempts, held[r] = h
    PROVE  Deleted'
<1>1. /\ held[r] = h /\ AddressOf(h) = AddressOf(r) /\ pc[r] = "loaded"
      /\ \A d \in Attempts \ {h} : entry'[d] = entry[d]
      /\ entry'[h].windowStart = IF Elapsed(h, now) THEN now ELSE entry[h].windowStart
      /\ \A q \in Attempts \ {r} : pc'[q] = pc[q] /\ at'[q] = at[q]
      /\ pc'[r] \in {"allowed", "limited"} /\ at'[r] = now
      /\ UNCHANGED <<now, entries, held, expired>>
  BY AnswerEffect
<1>0. /\ now \in Nat /\ Window \in Nat \ {0}
      /\ \A d \in Attempts : entry[d].windowStart \in 0..now /\ at[d] \in 0..now
      /\ \A x \in Addresses : entries[x] # None =>
            entries[x] \in Attempts /\ AddressOf(entries[x]) = x
  BY LimitAssumption DEF Order, IInv, TypeOK, Holding
<1> SUFFICES ASSUME NEW a \in Addresses, NEW d \in 0..now, NEW e \in Attempts \cup {None},
                    Split(a, d, e)
             PROVE  Split(a, d, e)'
  BY <1>1 DEF Order, Deleted
<1>2. ASSUME NEW q \in Attempts, AddressOf(q) = a, held'[q] # entries'[a]
      PROVE  /\ pc'[q] = "allowed" => at'[q] <= d /\ (d - Window < at'[q] => held'[q] = e)
             /\ pc'[q] = "loaded" => now' = d /\ held'[q] = e
  <2>1. CASE q = r
    BY <1>0, <1>1, <1>2, <2>1 DEF Split
  <2>2. CASE q # r
    BY <1>1, <1>2, <2>2 DEF Split
  <2> QED BY <2>1, <2>2
<1>3. ASSUME NEW l \in Attempts, entries[a] = l
      PROVE  /\ d <= entry'[l].windowStart
             /\ \A q \in Attempts : held'[q] = l /\ pc'[q] = "allowed" =>
                   /\ d <= at'[q]
                   /\ \/ entry'[l].windowStart <= at'[q]
                      \/ d + Window <= entry'[l].windowStart
  <2>1. /\ l # None /\ d <= entry[l].windowStart
        /\ \A q \in Attempts : held[q] = l /\ pc[q] = "allowed" =>
              /\ d <= at[q]
              /\ entry[l].windowStart <= at[q] \/ d + Window <= entry[l].windowStart
    BY <1>3, AttemptsAssumption DEF Split
  <2>2. /\ d \in Int /\ entry[l].windowStart \in Int /\ entry[l].windowStart <= now
        /\ \/ entry'[l].windowStart = entry[l].windowStart
           \/ entry'[l].windowStart = now /\ entry[l].windowStart + Window <= now
    <3>1. d \in Int /\ entry[l].windowStart \in 0..now
      BY <1>0, <2>1
    <3>2. \/ entry'[l].windowStart = entry[l].windowStart
          \/ entry'[l].windowStart = now /\ Elapsed(l, now)
      BY <1>1
    <3> QED BY <1>0, <3>1, <3>2 DEF Elapsed
  <2>3. d <= entry'[l].windowStart
    BY <1>0, <2>1, <2>2
  <2>4. ASSUME NEW q \in Attempts, held'[q] = l, pc'[q] = "allowed"
        PROVE  /\ d <= at'[q]
               /\ entry'[l].windowStart <= at'[q] \/ d + Window <= entry'[l].windowStart
    <3>1. CASE q = r
      BY <1>0, <1>1, <2>2, <3>1
    <3>2. CASE q # r
      <4>1. /\ d <= at[q] /\ at'[q] = at[q]
            /\ entry[l].windowStart <= at[q] \/ d + Window <= entry[l].windowStart
        BY <1>1, <2>1, <2>4, <3>2
      <4> QED BY <1>0, <2>1, <2>2, <4>1
    <3> QED BY <3>1, <3>2
  <2> QED BY <2>3, <2>4
<1>4. expired' = a => entries'[a] # None /\ d + Window <= now'
  BY <1>1 DEF Split
<1> QED BY <1>0, <1>1, <1>2, <1>3, <1>4 DEF Split

LEMMA LoadOrder == ASSUME Order, NEW r \in Attempts, Load(r) PROVE Order'
<1> DEFINE b == AddressOf(r)
           n == IF entries[b] = None THEN r ELSE entries[b]
<1>0. /\ b \in Addresses /\ n \in Attempts /\ AddressOf(n) = b /\ None \notin Attempts
      /\ n # r => pc[n] # "idle" /\ entries[b] = n
      /\ n = r => entries[b] = None
      /\ now \in Nat /\ Window \in Nat
  BY AttemptsAssumption, LimitAssumption DEF Order, IInv, TypeOK, Holding, Load
<1>1. /\ pc[r] = "idle" /\ pc'[r] = "loaded" /\ held'[r] = n
      /\ \A q \in Attempts \ {r} : pc'[q] = pc[q] /\ held'[q] = held[q]
      /\ entries'[b] = n /\ \A x \in Addresses \ {b} : entries'[x] = entries[x]
      /\ n = r => entry'[r].windowStart = now
      /\ \A d \in Attempts : d # r \/ n # r => entry'[d] = entry[d]
      /\ UNCHANGED <<now, expired, at>>
  BY <1>0 DEF Order, IInv, TypeOK, Load, sweep
<1> HIDE DEF n, b
<1>2. \A q \in Attempts : held[q] # r /\ (held[q] # None => pc[held[q]] # "idle")
  BY <1>0, <1>1 DEF Order, IInv, Holding
<1>3. IInv'
  BY LoadStep DEF Order
<1>4. Named'
  <2>1. held'[n] = n
    BY <1>0, <1>1 DEF Order, Named
  <2>2. \A x \in Addresses : entries'[x] # None => held'[entries'[x]] = entries'[x]
    <3>1. ASSUME NEW x \in Addresses, x # b, entries[x] # None
          PROVE  held'[entries[x]] = entries[x]
      BY <1>0, <1>1, <3>1 DEF Order, Named, IInv, TypeOK, Holding
    <3> QED BY <1>1, <2>1, <3>1
  <2>3. \A q \in Attempts : held'[q] # None => held'[held'[q]] = held'[q]
    <3>1. ASSUME NEW q \in Attempts, q # r, held[q] # None PROVE held'[held[q]] = held[q]
      BY <1>1, <1>2, <3>1 DEF Order, Named, IInv, TypeOK
    <3> QED BY <1>1, <2>1, <3>1
  <2> QED BY <2>2, <2>3 DEF Named
<1>5. ASSUME NEW d \in Attempts, d # r \/ n # r
      PROVE  On(d)' = On(d) /\ Early(d)' = Early(d) /\ entry'[d] = entry[d]
  BY <1>1, <1>5 DEF On, Early
<1>6. ASSUME n = r PROVE On(r)' = {} /\ Early(r)' = {}
  BY <1>1, <1>2 DEF On, Early
<1>7. Opened'
  <2>1. ASSUME NEW d \in Attempts, held'[d] = d
        PROVE  \/ \E q \in On(d)' : at'[q] = entry'[d].windowStart
               \/ On(d)' = {} /\ entry'[d].windowStart = now' /\ pc'[d] = "loaded"
    <3>1. CASE d = r
      BY <1>1, <1>6, <2>1, <3>1
    <3>2. CASE d # r
      BY <1>1, <1>5, <2>1, <3>2 DEF Order, Opened
    <3> QED BY <3>1, <3>2
  <2> QED BY <2>1 DEF Opened
<1>8. Spaced'
  BY <1>5, <1>6, FS_EmptySet, LimitAssumption DEF Order, Spaced
<1>9. Deleted'
  <2> SUFFICES ASSUME NEW a \in Addresses, NEW d \in 0..now, NEW e \in Attempts \cup {None},
                      Split(a, d, e)
               PROVE  Split(a, d, e)'
    BY <1>1 DEF Order, Deleted
  <2>1. ASSUME NEW q \in Attempts, AddressOf(q) = a, held'[q] # entries'[a]
        PROVE  /\ q # r /\ pc'[q] = pc[q] /\ held'[q] = held[q]
               /\ pc[q] \in {"allowed", "loaded"} => held[q] # entries[a]
    <3>1. q # r
      BY <1>1, <2>1 DEF b
    <3>2. pc[q] # "idle" => held[q] # None
      BY DEF Order, IInv, Holding
    <3> QED BY <1>0, <1>1, <2>1, <3>1, <3>2
  <2>2. \A q \in Attempts : AddressOf(q) = a /\ held'[q] # entries'[a] =>
          /\ pc'[q] = "allowed" => at'[q] <= d /\ (d - Window < at'[q] => held'[q] = e)
          /\ pc'[q] = "loaded" => now' = d /\ held'[q] = e
    BY <1>1, <2>1 DEF Split
  <2>3. entries'[a] # None =>
          /\ d <= entry'[entries'[a]].windowStart
          /\ \A q \in Attempts : held'[q] = entries'[a] /\ pc'[q] = "allowed" =>
                /\ d <= at'[q]
                /\ \/ entry'[entries'[a]].windowStart <= at'[q]
                   \/ d + Window <= entry'[entries'[a]].windowStart
    <3>1. CASE a = b /\ n = r
      BY <1>0, <1>1, <1>2, <3>1
    <3>2. CASE ~ (a = b /\ n = r)
      <4>1. entries'[a] = entries[a]
        BY <1>0, <1>1, <3>2
      <4>2. entries[a] # None => entry'[entries[a]] = entry[entries[a]]
        BY <1>1, <3>2 DEF Order, IInv, TypeOK, Holding
      <4>3. \A q \in Attempts : pc'[q] = "allowed" => pc[q] = "allowed" /\ held'[q] = held[q]
        BY <1>1
      <4> QED BY <1>1, <4>1, <4>2, <4>3 DEF Split
    <3> QED BY <3>1, <3>2
  <2>4. expired' = a => entries'[a] # None /\ d + Window <= now'
    <3>1. expired = a => entries[a] # None /\ d + Window <= now
      BY DEF Split
    <3> QED BY <1>0, <1>1, <3>1
  <2> QED BY <2>2, <2>3, <2>4 DEF Split
<1> QED BY <1>3, <1>4, <1>7, <1>8, <1>9 DEF Order

\* Cleanup and the clock leave the counts alone; an entry is deleted only when a window
\* has gone by since the last deletion, and the clock waits for whoever holds an entry.
LEMMA OtherOrder ==
    ASSUME Order, Sweep \/ (\E a \in Addresses : Look(a)) \/ Delete \/ Advance \/ UNCHANGED vars
    PROVE  Order'
<1>0. IInv'
  BY OtherStep DEF Order
<1>1. UNCHANGED <<entry, pc, held, at>>
  BY DEF Sweep, Look, Delete, Advance, vars, attempt
<1>2. \A a \in Addresses : entries'[a] # None => entries'[a] = entries[a]
  BY DEF Order, IInv, TypeOK, Sweep, Look, Delete, Advance, vars
<1>3. /\ now \in Nat /\ Window \in Nat \ {0} /\ sweepAt \in 0..now /\ now' \in Nat /\ now <= now'
      /\ \A e \in Attempts : entry[e].windowStart \in 0..now /\ at[e] \in 0..now
      /\ \A a \in Addresses : entries[a] # None => entries[a] \in Attempts
  BY LimitAssumption DEF Order, IInv, TypeOK, Sweep, Look, Delete, Advance, vars
<1>4. now' # now => \A r \in Attempts : pc[r] # "loaded"
  BY DEF Sweep, Look, Delete, Advance, vars
<1>5. Named'
  BY <1>1, <1>2 DEF Order, Named
<1>6. \A e \in Attempts : On(e)' = On(e) /\ Early(e)' = Early(e)
  BY <1>1 DEF On, Early
<1>7. Opened' /\ Spaced'
  BY <1>1, <1>4, <1>6 DEF Order, Opened, Spaced
<1>8. ASSUME NEW a \in Addresses, NEW d \in 0..now, NEW e \in Attempts \cup {None}, Split(a, d, e)
      PROVE  \E f \in 0..now', g \in Attempts \cup {None} : Split(a, f, g)'
  <2>1. CASE Delete /\ expired = a
    <3>1. PICK l \in Attempts : l = entries[a] /\ l # None /\ d + Window <= now
      BY <1>3, <1>8, <2>1 DEF Split
    <3>2. entries'[a] = None /\ now' = now /\ expired' = None /\ a # None
      BY <2>1, AttemptsAssumption DEF Delete, Order, IInv, TypeOK
    <3>3. ASSUME NEW r \in Attempts, AddressOf(r) = a
          PROVE  /\ pc[r] = "allowed" => at[r] <= now /\ (now - Window < at[r] => held[r] = l)
                 /\ pc[r] = "loaded" => held[r] = l
      BY <1>3, <1>8, <3>1, <3>3 DEF Split
    <3>4. Split(a, now, l)'
      BY <1>1, <3>2, <3>3 DEF Split
    <3>5. now' \in 0..now' /\ l \in Attempts \cup {None}
      BY <1>3, <3>2
    <3> QED BY <3>4, <3>5
  <2>2. CASE ~ (Delete /\ expired = a)
    <3>1. entries'[a] = entries[a]
      BY <2>2 DEF Sweep, Look, Delete, Advance, vars, Order, IInv, TypeOK
    <3>2. ASSUME expired' = a PROVE entries'[a] # None /\ d + Window <= now'
      <4>1. CASE expired = a
        BY <1>3, <1>8, <3>1, <4>1 DEF Split
      <4>2. CASE expired # a
        <5>1. Look(a) /\ entries[a] # None /\ Elapsed(entries[a], sweepAt)
          BY <3>2, <4>2, AttemptsAssumption DEF Sweep, Look, Delete, Advance, vars, sweep
        <5>2. PICK l \in Attempts : l = entries[a]
          BY <1>3, <5>1
        <5>3. /\ d <= entry[l].windowStart
              /\ sweepAt - entry[l].windowStart >= Window
          BY <1>8, <5>1, <5>2 DEF Split, Elapsed
        <5> QED BY <1>3, <3>1, <5>1, <5>3
      <4> QED BY <4>1, <4>2
    <3>3. Split(a, d, e)'
      BY <1>1, <1>4, <1>8, <3>1, <3>2 DEF Split
    <3>4. d \in 0..now'
      BY <1>3
    <3> QED BY <3>3, <3>4
  <2> QED BY <2>1, <2>2
<1>9. Deleted'
  BY <1>8 DEF Order, Deleted
<1> QED BY <1>0, <1>5, <1>7, <1>9 DEF Order

LEMMA OrderStep == Order /\ [Next]_vars => Order'
<1> SUFFICES ASSUME Order, [Next]_vars PROVE Order'
  OBVIOUS
<1>1. ASSUME NEW r \in Attempts, Allow(r) \/ Refuse(r) PROVE Order'
  <2>1. IInv'
    BY <1>1, AnswerKeeps, AnswerCounts, AnswerEarned DEF Order, IInv
  <2>2. PICK e \in Attempts : held[r] = e
    BY <1>1 DEF Order, IInv, TypeOK, Allow, Refuse
  <2>3. Named'
    BY <1>1, <2>2, AnswerEffect DEF Order, Named
  <2> QED BY <1>1, <2>1, <2>2, <2>3, AnswerOpened, AnswerSpaced, AnswerDeleted DEF Order
<1> QED BY <1>1, LoadOrder, OtherOrder DEF Next

\* The period of a window that starts at t has passed, or the bound holds in it.
BoundNow ==
    \A a \in Addresses, t \in 0..now : now <= t + Window - 1 =>
        Cardinality(Allowed(a, t, t + Window - 1)) <= 3 * Limit - 1

LEMMA AtMostSum ==
    ASSUME NEW S, NEW A \in SUBSET Attempts, NEW B \in SUBSET Attempts, S \subseteq A \cup B
    PROVE  /\ Cardinality(S) \in Nat
           /\ Cardinality(S) <= Cardinality(A) + Cardinality(B)
<1>1. /\ IsFiniteSet(A \cup B) /\ IsFiniteSet(A \cap B)
      /\ Cardinality(A \cup B) = Cardinality(A) + Cardinality(B) - Cardinality(A \cap B)
  BY Finite, FS_Union, FS_Intersection
<1>2. /\ Cardinality(A) \in Nat /\ Cardinality(B) \in Nat /\ Cardinality(A \cap B) \in Nat
      /\ Cardinality(A \cup B) \in Nat
  BY <1>1, Finite, FS_CardinalityType
<1>3. Cardinality(S) \in Nat /\ Cardinality(S) <= Cardinality(A \cup B)
  BY <1>1, FS_Subset, FS_CardinalityType
<1> QED BY <1>1, <1>2, <1>3

\* In the period up to now: two windows of one entry, and one of the next.
LEMMA OrderBounds == Order => BoundNow
<1> SUFFICES ASSUME Order, NEW a \in Addresses, NEW t \in 0..now, now <= t + Window - 1
             PROVE  Cardinality(Allowed(a, t, t + Window - 1)) <= 3 * Limit - 1
  BY DEF BoundNow
<1> DEFINE S == Allowed(a, t, t + Window - 1)
           Of(e) == {r \in S : held[r] = e}
<1>0. /\ now \in Nat /\ t \in Nat /\ Window \in Nat \ {0} /\ Limit \in Nat \ {0}
      /\ \A e \in Attempts : /\ entry[e].windowStart \in 0..now /\ at[e] \in 0..now
                             /\ entry[e].count \in 0..Limit
      /\ entries[a] # None => entries[a] \in Attempts
  BY LimitAssumption DEF Order, IInv, TypeOK
<1>1. \A r \in S : /\ r \in Attempts /\ AddressOf(r) = a /\ pc[r] = "allowed" /\ t <= at[r]
                   /\ held[r] \in Attempts
  BY DEF Allowed, Order, IInv, TypeOK, Holding
<1> HIDE DEF S
<1>2. ASSUME NEW e \in Attempts
      PROVE  /\ On(e) \in SUBSET Attempts /\ Cardinality(On(e)) \in Nat
             /\ Cardinality(On(e)) <= Limit
  BY <1>0, Finite DEF On, Order, IInv, Counted
<1>3. ASSUME NEW e \in Attempts
      PROVE  /\ Cardinality(Of(e)) \in Nat /\ Of(e) \in SUBSET Attempts
             /\ Cardinality(Of(e)) <= 2 * Limit - 1
  <2>1. Of(e) \in SUBSET Attempts /\ Early(e) \in SUBSET Attempts
    BY <1>1 DEF Early
  <2>2. ASSUME NEW r \in Of(e) PROVE r \in On(e) \cup Early(e)
    <3>1. /\ r \in Attempts /\ held[r] = e /\ pc[r] = "allowed" /\ t <= at[r]
      BY <1>1
    <3> QED BY <1>0, <3>1 DEF On, Early
  <2> HIDE DEF Of
  <2>3. Cardinality(Of(e)) \in Nat /\ Cardinality(Of(e)) <= Cardinality(On(e)) + Cardinality(Early(e))
    BY <1>2, <2>1, <2>2, AtMostSum
  <2>4. Cardinality(Early(e)) <= Limit - 1 /\ Cardinality(Early(e)) \in Nat
    BY <2>1, Finite DEF Order, Spaced
  <2> QED BY <1>0, <1>2, <2>1, <2>3, <2>4
<1>4. PICK d \in 0..now, e \in Attempts \cup {None} : Split(a, d, e)
  BY DEF Order, Deleted
<1>5. CASE d < t
  <2>1. \A r \in S : held[r] = entries[a]
    BY <1>0, <1>1, <1>4, <1>5 DEF Split
  <2>2. CASE S = {}
    <3>1. Cardinality(S) = 0
      BY <2>2, FS_EmptySet
    <3> QED BY <1>0, <3>1 DEF S
  <2>3. CASE S # {}
    <3>1. PICK l \in Attempts : l = entries[a]
      BY <1>1, <2>1, <2>3
    <3>2. S = Of(l)
      BY <2>1, <3>1
    <3>3. Cardinality(S) \in Nat /\ Cardinality(S) <= 2 * Limit - 1
      BY <1>3, <3>2
    <3> QED BY <1>0, <3>3 DEF S
  <2> QED BY <2>2, <2>3
<1>6. CASE t <= d
  <2>1. ASSUME NEW r \in S, held[r] # entries[a] PROVE held[r] = e /\ e \in Attempts
    <3>1. d - Window < at[r]
      BY <1>0, <1>1, <1>6
    <3> QED BY <1>1, <1>4, <2>1, <3>1 DEF Split
  <2>2. ASSUME NEW r \in S, NEW l \in Attempts, held[r] = l, entries[a] = l PROVE r \in On(l)
    <3>1. \/ entry[l].windowStart <= at[r]
          \/ d + Window <= entry[l].windowStart
      BY <1>1, <1>4, <2>2, AttemptsAssumption DEF Split
    <3>2. r \in Attempts /\ pc[r] = "allowed"
      BY <1>1
    <3> QED BY <1>0, <1>6, <2>2, <3>1, <3>2 DEF On
  <2> DEFINE Old == {r \in S : held[r] # entries[a]}
             New == {r \in S : held[r] = entries[a]}
  <2>3. Old \in SUBSET Attempts /\ Cardinality(Old) \in Nat /\ Cardinality(Old) <= 2 * Limit - 1
    <3>1. Old \in SUBSET Attempts /\ IsFiniteSet(Old) /\ Cardinality(Old) \in Nat
      BY <1>1, Finite
    <3>2. CASE Old = {}
      <4> HIDE DEF Old
      <4> QED BY <1>0, <3>1, <3>2, FS_EmptySet
    <3>3. CASE Old # {}
      <4>1. e \in Attempts /\ Old \subseteq Of(e)
        BY <2>1, <3>3
      <4>2. IsFiniteSet(Of(e))
        BY <1>3, <4>1, Finite
      <4> HIDE DEF Old, Of
      <4>3. Cardinality(Old) <= Cardinality(Of(e))
        BY <4>1, <4>2, FS_Subset
      <4> QED BY <1>0, <1>3, <3>1, <4>1, <4>3
    <3> QED BY <3>2, <3>3
  <2>4. New \in SUBSET Attempts /\ Cardinality(New) \in Nat /\ Cardinality(New) <= Limit
    <3>1. New \in SUBSET Attempts /\ Cardinality(New) \in Nat
      BY <1>1, Finite
    <3>2. CASE New = {}
      <4> HIDE DEF New
      <4> QED BY <1>0, <3>1, <3>2, FS_EmptySet
    <3>3. CASE New # {}
      <4>1. PICK l \in Attempts : l = entries[a]
        BY <1>1, <3>3
      <4>2. New \subseteq On(l) /\ IsFiniteSet(On(l))
        BY <1>2, <2>2, <4>1, Finite
      <4> HIDE DEF New
      <4>3. Cardinality(New) <= Cardinality(On(l))
        BY <4>2, FS_Subset
      <4> QED BY <1>0, <1>2, <3>1, <4>3
    <3> QED BY <3>2, <3>3
  <2>5. S \subseteq Old \cup New
    OBVIOUS
  <2> HIDE DEF Old, New
  <2>6. Cardinality(S) \in Nat /\ Cardinality(S) <= Cardinality(Old) + Cardinality(New)
    BY <2>3, <2>4, <2>5, AtMostSum
  <2>7. Cardinality(S) <= 3 * Limit - 1
    BY <1>0, <2>3, <2>4, <2>6
  <2> QED BY <2>7 DEF S
<1> QED BY <1>0, <1>5, <1>6

\* A period that has passed keeps what it allowed.
LEMMA BoundStep == Order /\ BoundNow' /\ AttemptsBound /\ [Next]_vars => AttemptsBound'
<1> SUFFICES ASSUME Order, BoundNow', AttemptsBound, [Next]_vars,
                    NEW a \in Addresses, NEW t \in 0..now'
             PROVE  Cardinality(Allowed(a, t, t + Window - 1)') <= 3 * Limit - 1
  BY DEF AttemptsBound
<1>0. /\ now \in Nat /\ now' \in Nat /\ Window \in Nat \ {0}
  BY LimitAssumption, InvStep DEF Order, IInv, TypeOK
<1>1. CASE now' <= t + Window - 1
  BY <1>1 DEF BoundNow
<1>2. CASE ~ now' <= t + Window - 1
  <2>1. now' \in {now, now + 1}
    BY DEF Next, Load, Allow, Refuse, Sweep, Look, Delete, Advance, vars
  <2>2. t \in 0..now /\ (t + Window - 1 < now \/ UNCHANGED <<pc, at>>)
    <3>1. now' # now => UNCHANGED <<pc, at>>
      BY DEF Next, Load, Allow, Refuse, Sweep, Look, Delete, Advance, vars, attempt
    <3> QED BY <1>0, <1>2, <2>1, <3>1
  <2>3. Allowed(a, t, t + Window - 1)' = Allowed(a, t, t + Window - 1)
    <3>1. CASE UNCHANGED <<pc, at>>
      BY <3>1 DEF Allowed
    <3>2. CASE t + Window - 1 < now
      <4>1. ASSUME NEW r \in Attempts, pc'[r] # pc[r] \/ at'[r] # at[r]
            PROVE  pc[r] # "allowed" /\ (pc'[r] = "allowed" => at'[r] = now)
        BY <4>1 DEF Order, IInv, TypeOK, Next, Load, Allow, Refuse, Sweep, Look, Delete, Advance,
                    vars, attempt
      <4> QED BY <1>0, <3>2, <4>1 DEF Allowed
    <3> QED BY <2>2, <3>1, <3>2
  <2> QED BY <2>2, <2>3 DEF AttemptsBound
<1> QED BY <1>1, <1>2

LEMMA OrderAlways == Spec => []Order
BY OrderInit, OrderStep, PTL DEF Spec

----------------------------------------------------------------------------
(* The theorems. *)

\* Whatever cleanup deletes, an attempt holds an entry of its own address, and no entry
\* counts beyond the limit (allow, router.go).
THEOREM LoginTypes == Spec => []TypeOK
<1>1. IInv => TypeOK
  BY DEF IInv
<1> QED BY <1>1, InvAlways, PTL

\* Nobody is locked out longer than a window: each refusal was earned by as many allowed
\* attempts as the limit within the window before it, for any attempts and any sweeps.
THEOREM RefusalsEarnedHolds == Spec => []RefusalsEarned
<1>1. IInv => RefusalsEarned
  BY DEF IInv
<1> QED BY <1>1, InvAlways, PTL

\* In any period as long as the window an address is allowed less than three times the
\* limit, whatever cleanup deletes from under attempts and however they interleave.
THEOREM AttemptsBoundHolds == Spec => []AttemptsBound
<1>1. Init => BoundNow
  BY OrderInit, OrderBounds
<1>2. Init => AttemptsBound
  <2> SUFFICES ASSUME Init, NEW a \in Addresses, NEW t \in 0..now
               PROVE  Cardinality(Allowed(a, t, t + Window - 1)) <= 3 * Limit - 1
    BY DEF AttemptsBound
  <2>1. Allowed(a, t, t + Window - 1) = {}
    BY DEF Init, Allowed
  <2> QED BY <2>1, FS_EmptySet, LimitAssumption
<1>3. BoundNow' \/ ~ Order'
  BY OrderBounds, PTL
<1> QED BY <1>2, <1>3, BoundStep, OrderAlways, PTL DEF Spec
=============================================================================
