---------------------------- MODULE UsageLedger ----------------------------
(***************************************************************************)
(* What octroi's metering promises about the usage of its tools, whatever  *)
(* goroutines carry it out: a recorded transaction is pending until it is  *)
(* committed to the transactions table or given up, a commit takes a whole *)
(* set of pending transactions at once, and what has been given up or      *)
(* erased never comes back.  Collector.tla implements this ledger.         *)
(***************************************************************************)
CONSTANT Txns       \* the transactions: one per proxied request

VARIABLES
    pending,        \* recorded, in the memory of the gateway
    stored,         \* rows of the transactions table
    gone            \* recorded, and neither in memory nor in the table any more

vars == <<pending, stored, gone>>

Init ==
    /\ pending = {}
    /\ stored = {}
    /\ gone = {}

Accept(t) ==
    /\ t \notin pending \cup stored \cup gone
    /\ pending' = pending \cup {t}
    /\ UNCHANGED <<stored, gone>>

Commit(B) ==
    /\ B # {}
    /\ B \subseteq pending
    /\ pending' = pending \ B
    /\ stored' = stored \cup B
    /\ UNCHANGED gone

GiveUp(B) ==
    /\ B # {}
    /\ B \subseteq pending
    /\ pending' = pending \ B
    /\ gone' = gone \cup B
    /\ UNCHANGED stored

Erase(B) ==
    /\ B # {}
    /\ B \subseteq stored
    /\ stored' = stored \ B
    /\ gone' = gone \cup B
    /\ UNCHANGED pending

Next ==
    \/ \E t \in Txns : Accept(t)
    \/ \E B \in SUBSET Txns : Commit(B) \/ GiveUp(B) \/ Erase(B)

Spec == Init /\ [][Next]_vars
============================================================================
