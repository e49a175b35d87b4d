-------------------------- MODULE CollectorProofs --------------------------
(***************************************************************************)
(* Proofs about Collector, for any number of handlers, any batch size and  *)
(* any rows.  The inductive invariant is TypeOK, Accounting and three      *)
(* facts about program counters: a goroutine holds a batch only between    *)
(* the swap and the end of its flush, the loop of a dead process holds     *)
(* none, and a handler that has not called Record yet has not been         *)
(* recorded.  Without the first two a flush could overwrite a batch,       *)
(* without the last Record could append a transaction twice.               *)
(***************************************************************************)
EXTENDS Collector, FiniteSetTheorems, TLAPS

HandsEmpty == \A f \in Flushers : pc[f] \notin {"zero", "insert"} => batch[f] = {}
Exited == stage = "down" => pc[Loop] = "exited"
Fresh == \A t \in Txns : pc[t] \in {"idle", "upstream"} => t \notin recorded

IInv == TypeOK /\ HandsEmpty /\ Exited /\ Fresh /\ Accounting

LEMMA MarkedGone ==
    ASSUME NEW S \in SUBSET Txns, NEW c \in Fates \ {"none"},
           TypeOK, fate' = Marked(S, c)
    PROVE  /\ fate' \in [Txns -> Fates]
           /\ Gone' = Gone \cup S
BY DEF TypeOK, Marked, Gone, Fates

\* TypeOK is inductive: every handler and flush leaves the variables in their types.
LEMMA TypeStep == TypeOK /\ [Next]_vars => TypeOK'
<1> SUFFICES ASSUME TypeOK, [Next]_vars PROVE TypeOK'
  OBVIOUS
<1> USE TxnsAssumption, RefsAssumption
    DEF TypeOK, Flushers, Stages, HandlerPC, LoopPC, Fates, memory, database
<1>1. ASSUME NEW t \in Txns, Begin(t) PROVE TypeOK'
  BY <1>1 DEF Begin
<1>2. ASSUME NEW t \in Txns, Append(t) PROVE TypeOK'
  <2>1. IsFiniteSet(buffer)
    BY FS_Subset
  <2>2. Cardinality(buffer) \in Nat
    BY <2>1, FS_CardinalityType
  <2> QED BY <1>2, <2>2 DEF Append
<1>3. ASSUME NEW t \in Txns, Notify(t) PROVE TypeOK'
  BY <1>3 DEF Notify, Report
<1>4. CASE Tick
  BY <1>4 DEF Tick
<1>5. CASE Stopped
  BY <1>5 DEF Stopped
<1>6. ASSUME NEW f \in Flushers, FlushStep(f) PROVE TypeOK'
  <2>1. CASE FlushEmpty(f)
    BY <2>1 DEF FlushEmpty, AfterFlush
  <2>2. CASE TakeBatch(f)
    BY <2>2 DEF TakeBatch
  <2>3. CASE ZeroGauge(f)
    BY <2>3 DEF ZeroGauge, Report
  <2>4. CASE InsertOK(f)
    BY <2>4 DEF InsertOK, EndFlush, AfterFlush
  <2>5. CASE InsertRejected(f)
    BY <2>5 DEF InsertRejected, EndFlush, AfterFlush, Marked
  <2>6. CASE InsertFailed(f)
    BY <2>6 DEF InsertFailed, EndFlush, AfterFlush, Marked
  <2> QED BY <1>6, <2>1, <2>2, <2>3, <2>4, <2>5, <2>6 DEF FlushStep
<1>7. ASSUME NEW r \in Rows, Delete(r) PROVE TypeOK'
  BY <1>7 DEF Delete, Marked
<1>8. CASE Stop \/ Shutdown \/ Drained \/ DrainTimeout
  BY <1>8 DEF Stop, Shutdown, Drained, DrainTimeout
<1>9. CASE Halt
  <2>1. \A t \in Txns : pc'[t] \in {"idle", "done"} /\ lenAt'[t] = 0
    BY <1>9 DEF Halt
  <2>2. \A t \in Txns : lenAt'[t] > 0 <=> pc'[t] = "notify"
    BY <2>1
  <2> QED BY <1>9, <2>1, <2>2 DEF Halt, Marked
<1>10. CASE Restart
  BY <1>10 DEF Restart
<1>11. CASE UNCHANGED vars
  BY <1>11 DEF vars
<1> QED BY <1>1, <1>2, <1>3, <1>4, <1>5, <1>6, <1>7, <1>8, <1>9, <1>10, <1>11 DEF Next

\* The invariant holds initially.
LEMMA InvInit == Init => IInv
<1> SUFFICES ASSUME Init PROVE IInv
  OBVIOUS
<1>1. TypeOK
  <2>1. \A t \in Txns : t # Loop /\ pc[t] = "idle" /\ lenAt[t] = 0
    BY TxnsAssumption DEF Init, Flushers
  <2>2. \A t \in Txns : lenAt[t] > 0 <=> pc[t] = "notify"
    BY <2>1
  <2> QED BY <2>1, <2>2, TxnsAssumption DEF Init, TypeOK, Flushers, Stages, HandlerPC, LoopPC, Fates
<1>2. HandsEmpty /\ Exited /\ Fresh
  BY TxnsAssumption DEF Init, HandsEmpty, Exited, Fresh, Flushers
<1>3. Accounting
  BY DEF Init, Accounting, InMemory, Gone
<1> QED BY <1>1, <1>2, <1>3 DEF IInv

\* Who holds a batch is who is between the swap and the end of the flush.
LEMMA HandsStep == IInv /\ [Next]_vars => HandsEmpty' /\ Exited' /\ Fresh'
<1> SUFFICES ASSUME IInv, [Next]_vars PROVE HandsEmpty' /\ Exited' /\ Fresh'
  OBVIOUS
<1>0. TypeOK /\ HandsEmpty /\ Exited /\ Fresh
  BY DEF IInv
<1> USE <1>0, TxnsAssumption DEF TypeOK, HandsEmpty, Exited, Fresh, Flushers, memory, database
<1>1. ASSUME NEW t \in Txns, Begin(t) PROVE HandsEmpty' /\ Exited' /\ Fresh'
  BY <1>1 DEF Begin
<1>2. ASSUME NEW t \in Txns, Append(t) PROVE HandsEmpty' /\ Exited' /\ Fresh'
  BY <1>2 DEF Append
<1>3. ASSUME NEW t \in Txns, Notify(t) PROVE HandsEmpty' /\ Exited' /\ Fresh'
  BY <1>3 DEF Notify
<1>4. CASE Tick \/ Stopped
  BY <1>4 DEF Tick, Stopped
<1>5. ASSUME NEW f \in Flushers, FlushStep(f) PROVE HandsEmpty' /\ Exited' /\ Fresh'
  <2>1. CASE FlushEmpty(f)
    BY <2>1 DEF FlushEmpty, AfterFlush
  <2>2. CASE TakeBatch(f)
    BY <2>2 DEF TakeBatch
  <2>3. CASE ZeroGauge(f)
    BY <2>3 DEF ZeroGauge
  <2>4. CASE InsertOK(f) \/ InsertRejected(f) \/ InsertFailed(f)
    <3>1. EndFlush(f)
      BY <2>4 DEF InsertOK, InsertRejected, InsertFailed
    <3> QED BY <3>1 DEF EndFlush, AfterFlush
  <2> QED BY <1>5, <2>1, <2>2, <2>3, <2>4 DEF FlushStep
<1>6. ASSUME NEW r \in Rows, Delete(r) PROVE HandsEmpty' /\ Exited' /\ Fresh'
  BY <1>6 DEF Delete
<1>7. CASE Stop \/ Shutdown \/ Drained \/ DrainTimeout \/ UNCHANGED vars
  BY <1>7 DEF Stop, Shutdown, Drained, DrainTimeout, vars
<1>8. CASE Halt
  BY <1>8 DEF Halt
<1>9. CASE Restart
  BY <1>9 DEF Restart
<1> QED BY <1>1, <1>2, <1>3, <1>4, <1>5, <1>6, <1>7, <1>8, <1>9 DEF Next

\* What is in memory after one goroutine's batch and the buffer have changed hands.
LEMMA AccountingStep == IInv /\ [Next]_vars => Accounting'
<1> SUFFICES ASSUME IInv, [Next]_vars PROVE Accounting'
  OBVIOUS
<1>0. TypeOK /\ HandsEmpty /\ Exited /\ Fresh /\ Accounting
  BY DEF IInv
<1>q. ASSUME UNCHANGED <<buffer, batch, table, recorded, fate>> PROVE Accounting'
  BY <1>0, <1>q DEF Accounting, InMemory, Gone
<1>1. ASSUME NEW t \in Txns, Append(t) PROVE Accounting'
  <2>1. t \notin recorded
    BY <1>0, <1>1 DEF Append, Fresh
  <2>2. InMemory' = InMemory \cup {t} /\ UNCHANGED Gone
    BY <1>1 DEF Append, InMemory, Gone, database
  <2> QED BY <1>0, <1>1, <2>1, <2>2 DEF Append, Accounting, InMemory, database
<1>2. ASSUME NEW f \in Flushers, TakeBatch(f) PROVE Accounting'
  <2>1. batch[f] = {}
    BY <1>0, <1>2 DEF TakeBatch, HandsEmpty
  <2>2. \A g \in Flushers : batch'[g] = IF g = f THEN buffer ELSE batch[g]
    BY <1>0, <1>2 DEF TakeBatch, TypeOK
  <2>3. InMemory' = InMemory /\ UNCHANGED Gone
    BY <1>2, <2>1, <2>2 DEF TakeBatch, InMemory, Gone, database
  <2> QED BY <1>0, <1>2, <2>1, <2>2, <2>3 DEF TakeBatch, Accounting, database
<1>3. ASSUME NEW f \in Flushers, EndFlush(f)
      PROVE  /\ \A g \in Flushers : batch'[g] = IF g = f THEN {} ELSE batch[g]
             /\ InMemory' = InMemory \ batch[f]
             /\ batch[f] \subseteq InMemory
             /\ UNCHANGED <<buffer, recorded>>
  <2>1. \A g \in Flushers : batch'[g] = IF g = f THEN {} ELSE batch[g]
    BY <1>0, <1>3 DEF EndFlush, TypeOK
  <2>2. buffer' = buffer /\ recorded' = recorded
    BY <1>3 DEF EndFlush
  <2>3. InMemory' = InMemory \ batch[f]
    BY <1>0, <2>1, <2>2 DEF InMemory, Accounting
  <2> QED BY <2>1, <2>2, <2>3 DEF InMemory
<1>4. ASSUME NEW f \in Flushers, InsertOK(f) PROVE Accounting'
  <2>1. EndFlush(f) /\ table' = table \cup batch[f] /\ UNCHANGED Gone
    BY <1>4 DEF InsertOK, Gone
  <2> QED BY <1>0, <1>3, <2>1 DEF Accounting
<1>5. ASSUME NEW f \in Flushers, InsertRejected(f) \/ InsertFailed(f) PROVE Accounting'
  <2>1. EndFlush(f) /\ table' = table
    BY <1>5 DEF InsertRejected, InsertFailed
  <2>2. Gone' = Gone \cup batch[f]
    BY <1>0, <1>5, MarkedGone DEF InsertRejected, InsertFailed, TypeOK, Fates
  <2> QED BY <1>0, <1>3, <2>1, <2>2 DEF Accounting
<1>6. ASSUME NEW r \in Rows, Delete(r) PROVE Accounting'
  <2>1. Gone' = Gone \cup {t \in table : r \in Refs(t)}
    BY <1>0, <1>6, MarkedGone DEF Delete, TypeOK, Fates
  <2>2. InMemory' = InMemory
    BY <1>6 DEF Delete, memory, InMemory
  <2> QED BY <1>0, <1>6, <2>1, <2>2 DEF Delete, Accounting, memory
<1>7. CASE Halt
  <2>1. InMemory \subseteq Txns
    BY <1>0 DEF InMemory, TypeOK
  <2>2. Gone' = Gone \cup InMemory
    BY <1>0, <1>7, <2>1, MarkedGone DEF Halt, Fates
  <2>3. InMemory' = {}
    BY <1>7 DEF Halt, InMemory
  <2> QED BY <1>0, <1>7, <2>2, <2>3 DEF Halt, Accounting
<1>8. CASE \/ \E t \in Txns : Begin(t) \/ Notify(t)
           \/ Tick \/ Stopped \/ Stop \/ Shutdown \/ Drained \/ DrainTimeout \/ Restart
           \/ \E f \in Flushers : FlushEmpty(f) \/ ZeroGauge(f)
           \/ UNCHANGED vars
  BY <1>8, <1>q DEF Begin, Notify, Tick, Stopped, Stop, Shutdown, Drained, DrainTimeout,
                    Restart, FlushEmpty, ZeroGauge, vars, memory, database
<1> QED BY <1>1, <1>2, <1>4, <1>5, <1>6, <1>7, <1>8 DEF Next, FlushStep

LEMMA InvStep == IInv /\ [Next]_vars => IInv'
BY TypeStep, HandsStep, AccountingStep DEF IInv

LEMMA InvAlways == Spec => []IInv
BY InvInit, InvStep, PTL DEF Spec

\* Type correctness of every reachable state.
THEOREM TypeCorrect == Spec => []TypeOK
<1>1. IInv => TypeOK
  BY DEF IInv
<1> QED BY <1>1, InvAlways, PTL

\* No transaction is lost between the swap and the INSERT, shared by two flushes or
\* inserted twice, whatever the interleaving of Record, flush, deletions and restarts.
THEOREM AccountingHolds == Spec => []Accounting
<1>1. IInv => Accounting
  BY DEF IInv
<1> QED BY <1>1, InvAlways, PTL

----------------------------------------------------------------------------
(* The bound of the buffer. *)

LEMMA OwingFinite == ASSUME NEW S \in SUBSET Txns
                     PROVE  IsFiniteSet(S) /\ Cardinality(S) \in Nat
BY TxnsAssumption, FS_Subset, FS_CardinalityType

\* Steps that neither grow the buffer nor take a handler off its way to a flush.
LEMMA BoundKept ==
    ASSUME TypeOK, BufferBound, UNCHANGED buffer, Owing' = Owing
    PROVE  BufferBound'
BY DEF BufferBound

\* An empty buffer is within any bound.
LEMMA BoundEmpty ==
    ASSUME TypeOK', buffer' = {}
    PROVE  BufferBound'
<1>1. Owing' \in SUBSET Txns
  BY DEF Owing
<1>2. Cardinality(Owing') \in Nat
  BY <1>1, OwingFinite
<1>3. Cardinality(buffer') = 0
  BY FS_EmptySet
<1> QED BY <1>2, <1>3, BatchSizeAssumption DEF BufferBound

LEMMA BoundStep == IInv /\ IInv' /\ BufferBound /\ [Next]_vars => BufferBound'
<1> SUFFICES ASSUME IInv, IInv', BufferBound, [Next]_vars PROVE BufferBound'
  OBVIOUS
<1>0. TypeOK /\ TypeOK'
  BY DEF IInv
<1> USE TxnsAssumption
<1>1. ASSUME NEW t \in Txns, Append(t) PROVE BufferBound'
  <2>1. t \notin buffer
    BY <1>1 DEF IInv, Append, Fresh, Accounting, InMemory
  <2>2. buffer \in SUBSET Txns /\ Owing \in SUBSET Txns /\ t \notin Owing
    BY <1>0, <1>1 DEF TypeOK, Append, Owing
  <2>3. /\ IsFiniteSet(buffer) /\ Cardinality(buffer) \in Nat
        /\ IsFiniteSet(Owing) /\ Cardinality(Owing) \in Nat
    BY <2>2, OwingFinite
  <2>4. Cardinality(buffer') = Cardinality(buffer) + 1
    BY <1>1, <2>1, <2>3, FS_AddElement DEF Append
  <2>5. /\ pc' = [pc EXCEPT ![t] = "notify"]
        /\ lenAt' = [lenAt EXCEPT ![t] = Cardinality(buffer) + 1]
        /\ pc \in [Flushers -> HandlerPC \cup LoopPC] /\ lenAt \in [Txns -> Nat]
        /\ t \in Flushers
    BY <1>0, <1>1 DEF Append, TypeOK, Flushers
  <2>6. Owing' = IF Cardinality(buffer) + 1 >= BatchSize THEN Owing \cup {t} ELSE Owing
    BY <2>2, <2>5 DEF Owing, ShouldFlush, Flushers
  <2>7. CASE Cardinality(buffer) + 1 >= BatchSize
    <3>1. Cardinality(Owing') = Cardinality(Owing) + 1
      BY <2>2, <2>3, <2>6, <2>7, FS_AddElement
    <3> QED BY <2>3, <2>4, <3>1, BatchSizeAssumption DEF BufferBound
  <2>8. CASE ~(Cardinality(buffer) + 1 >= BatchSize)
    <3>1. Owing' = Owing
      BY <2>6, <2>8
    <3> QED BY <2>3, <2>4, <2>8, <3>1, BatchSizeAssumption DEF BufferBound
  <2> QED BY <2>7, <2>8
<1>2. ASSUME NEW t \in Txns, Notify(t) PROVE BufferBound'
  <2>1. Owing' = Owing
    BY <1>0, <1>2, BatchSizeAssumption DEF Notify, Owing, ShouldFlush, TypeOK, Flushers
  <2> QED BY <1>0, <1>2, <2>1, BoundKept DEF Notify
<1>3. ASSUME NEW f \in Flushers, FlushEmpty(f) \/ TakeBatch(f) PROVE BufferBound'
  BY <1>0, <1>3, BoundEmpty DEF FlushEmpty, TakeBatch, memory
<1>4. ASSUME NEW f \in Flushers,
             ZeroGauge(f) \/ InsertOK(f) \/ InsertRejected(f) \/ InsertFailed(f)
      PROVE  BufferBound'
  <2>1. UNCHANGED <<buffer, lenAt>>
    BY <1>4 DEF ZeroGauge, InsertOK, InsertRejected, InsertFailed, EndFlush
  <2>2. /\ pc[f] \in {"zero", "insert"}
        /\ \E v \in {"insert", "done", "exited", "wait"} : pc' = [pc EXCEPT ![f] = v]
    BY <1>4 DEF ZeroGauge, InsertOK, InsertRejected, InsertFailed, EndFlush, AfterFlush
  <2>3. Owing' = Owing
    BY <1>0, <2>1, <2>2 DEF Owing, ShouldFlush, TypeOK
  <2> QED BY <1>0, <2>1, <2>3, BoundKept
<1>5. ASSUME NEW t \in Txns, Begin(t) PROVE BufferBound'
  <2>1. Owing' = Owing
    BY <1>0, <1>5 DEF Begin, Owing, ShouldFlush, TypeOK, memory
  <2> QED BY <1>0, <1>5, <2>1, BoundKept DEF Begin, memory
<1>6. CASE Tick \/ Stopped \/ Restart
  <2>1. UNCHANGED <<buffer, lenAt>> /\ \A t \in Txns : pc'[t] = pc[t]
    BY <1>0, <1>6 DEF Tick, Stopped, Restart, memory, TypeOK, Flushers
  <2> QED BY <1>0, <2>1, BoundKept DEF Owing, ShouldFlush
<1>7. CASE \/ \E r \in Rows : Delete(r)
           \/ Stop \/ Shutdown \/ Drained \/ DrainTimeout \/ UNCHANGED vars
  <2>1. UNCHANGED <<buffer, lenAt, pc>>
    BY <1>7 DEF Delete, Stop, Shutdown, Drained, DrainTimeout, vars, memory
  <2> QED BY <1>0, <2>1, BoundKept DEF Owing, ShouldFlush
<1>8. CASE Halt
  BY <1>0, <1>8, BoundEmpty DEF Halt
<1> QED BY <1>1, <1>2, <1>3, <1>4, <1>5, <1>6, <1>7, <1>8 DEF Next, FlushStep

\* A full buffer never waits for the ticker: the buffer exceeds batch_size - 1 by at
\* most the number of handlers that are on their way to flush it.
THEOREM BufferBoundHolds == Spec => []BufferBound
<1>1. Init => BufferBound
  <2> SUFFICES ASSUME Init PROVE BufferBound
    OBVIOUS
  <2>1. Cardinality(buffer) = 0 /\ Cardinality(Owing) \in Nat
    <3>1. Owing \in SUBSET Txns
      BY DEF Owing
    <3> QED BY <3>1, OwingFinite, FS_EmptySet DEF Init
  <2> QED BY <2>1, BatchSizeAssumption DEF BufferBound
<1> QED BY <1>1, BoundStep, InvAlways, PTL DEF Spec

----------------------------------------------------------------------------
(* Deletions and batches in flight. *)

\* Whatever is deleted while batches are in flight, a stored transaction's agent and
\* tool exist: the foreign key refuses the late batch, the cascade takes the early one.
THEOREM NoOrphansHolds == Spec => []NoOrphans
<1>1. Init => NoOrphans
  BY DEF Init, NoOrphans
<1>2. TypeOK /\ NoOrphans /\ [Next]_vars => NoOrphans'
  <2> SUFFICES ASSUME TypeOK, NoOrphans, [Next]_vars PROVE NoOrphans'
    OBVIOUS
  <2>1. ASSUME NEW f \in Flushers, InsertOK(f) PROVE NoOrphans'
    BY <2>1 DEF InsertOK, EndFlush, NoOrphans, Storable
  <2>2. ASSUME NEW r \in Rows, Delete(r) PROVE NoOrphans'
    BY <2>2 DEF Delete, NoOrphans
  <2>3. ASSUME UNCHANGED <<rows, table>> PROVE NoOrphans'
    BY <2>3 DEF NoOrphans
  <2>4. CASE \/ \E t \in Txns : Begin(t) \/ Append(t) \/ Notify(t)
             \/ Tick \/ Stopped \/ Stop \/ Shutdown \/ Drained \/ DrainTimeout
             \/ Halt \/ Restart \/ UNCHANGED vars
    BY <2>3, <2>4 DEF Begin, Append, Notify, Tick, Stopped, Stop, Shutdown, Drained,
                      DrainTimeout, Halt, Restart, vars, database
  <2>5. CASE \E f \in Flushers : FlushStep(f) /\ ~InsertOK(f)
    BY <2>3, <2>5 DEF FlushStep, FlushEmpty, TakeBatch, ZeroGauge, InsertRejected,
                      InsertFailed, EndFlush, database
  <2>6. ASSUME NEW f \in Flushers, FlushStep(f) PROVE NoOrphans'
    BY <2>1, <2>5, <2>6
  <2> QED BY <2>2, <2>4, <2>6 DEF Next
<1> QED BY <1>1, <1>2, TypeCorrect, PTL DEF Spec

----------------------------------------------------------------------------
(* One INSERT per batch. *)

\* The table never gains part of a batch: whatever step adds to it is the INSERT of one
\* flush, which stores all that flush has taken and leaves it nothing to insert again.
THEOREM BatchAtomicHolds == Spec => BatchAtomic
<1>1. TypeOK /\ [Next]_vars =>
         [~(table' \subseteq table) =>
            \E f \in Flushers : table' = table \cup batch[f] /\ batch'[f] = {}]_vars
  <2> SUFFICES ASSUME TypeOK, [Next]_vars, ~(table' \subseteq table)
               PROVE  \E f \in Flushers : table' = table \cup batch[f] /\ batch'[f] = {}
    OBVIOUS
  <2>1. ASSUME NEW f \in Flushers, InsertOK(f)
        PROVE  \E g \in Flushers : table' = table \cup batch[g] /\ batch'[g] = {}
    BY <2>1 DEF InsertOK, EndFlush, TypeOK
  <2>2. ASSUME NEW f \in Flushers, FlushStep(f), ~InsertOK(f) PROVE FALSE
    BY <2>2 DEF FlushStep, FlushEmpty, TakeBatch, ZeroGauge, InsertRejected,
                InsertFailed, database
  <2>3. ASSUME NEW r \in Rows, Delete(r) PROVE FALSE
    BY <2>3 DEF Delete
  <2>4. CASE \/ \E t \in Txns : Begin(t) \/ Append(t) \/ Notify(t)
             \/ Tick \/ Stopped \/ Stop \/ Shutdown \/ Drained \/ DrainTimeout
             \/ Halt \/ Restart \/ UNCHANGED vars
    BY <2>4 DEF Begin, Append, Notify, Tick, Stopped, Stop, Shutdown, Drained,
                DrainTimeout, Halt, Restart, vars, database
  <2> QED BY <2>1, <2>2, <2>3, <2>4 DEF Next
<1> QED BY <1>1, TypeCorrect, PTL DEF Spec, BatchAtomic

----------------------------------------------------------------------------
(* The collector implements the ledger. *)

\* Every step of the collector is a step of the ledger or leaves it unchanged: a batch
\* is committed or given up as a whole, and nothing given up comes back.
LEMMA LedgerStep == IInv /\ [Next]_vars => [Ledger!Next]_(Ledger!vars)
<1> SUFFICES ASSUME IInv, [Next]_vars PROVE Ledger!Next \/ UNCHANGED Ledger!vars
  OBVIOUS
<1>0. TypeOK /\ HandsEmpty /\ Exited /\ Fresh /\ Accounting
  BY DEF IInv
<1> USE DEF Ledger!vars
<1>1. ASSUME NEW t \in Txns, Append(t) PROVE Ledger!Accept(t)
  <2>1. t \notin recorded
    BY <1>0, <1>1 DEF Append, Fresh
  <2>2. InMemory' = InMemory \cup {t} /\ Gone' = Gone /\ table' = table
    BY <1>1 DEF Append, InMemory, Gone, database
  <2> QED BY <1>0, <2>1, <2>2 DEF Ledger!Accept, Accounting
<1>2. ASSUME NEW f \in Flushers, TakeBatch(f) PROVE UNCHANGED Ledger!vars
  <2>1. batch[f] = {}
    BY <1>0, <1>2 DEF TakeBatch, HandsEmpty
  <2>2. \A g \in Flushers : batch'[g] = IF g = f THEN buffer ELSE batch[g]
    BY <1>0, <1>2 DEF TakeBatch, TypeOK
  <2> QED BY <1>2, <2>1, <2>2 DEF TakeBatch, InMemory, Gone, database
<1>3. ASSUME NEW f \in Flushers, EndFlush(f)
      PROVE  InMemory' = InMemory \ batch[f] /\ batch[f] \subseteq InMemory
             /\ batch[f] \in SUBSET Txns
  <2>1. \A g \in Flushers : batch'[g] = IF g = f THEN {} ELSE batch[g]
    BY <1>0, <1>3 DEF EndFlush, TypeOK
  <2>2. buffer' = buffer
    BY <1>3 DEF EndFlush
  <2> QED BY <1>0, <2>1, <2>2 DEF InMemory, Accounting, TypeOK
<1>4. ASSUME NEW f \in Flushers, InsertOK(f)
      PROVE  Ledger!Commit(batch[f]) \/ UNCHANGED Ledger!vars
  <2>1. EndFlush(f) /\ table' = table \cup batch[f] /\ Gone' = Gone
    BY <1>4 DEF InsertOK, Gone
  <2> QED BY <1>3, <2>1 DEF Ledger!Commit
<1>5. ASSUME NEW f \in Flushers, InsertRejected(f) \/ InsertFailed(f)
      PROVE  Ledger!GiveUp(batch[f]) \/ UNCHANGED Ledger!vars
  <2>1. EndFlush(f) /\ table' = table
    BY <1>5 DEF InsertRejected, InsertFailed
  <2>2. Gone' = Gone \cup batch[f]
    BY <1>0, <1>5, MarkedGone DEF InsertRejected, InsertFailed, TypeOK, Fates
  <2> QED BY <1>3, <2>1, <2>2 DEF Ledger!GiveUp
<1>6. ASSUME NEW r \in Rows, Delete(r)
      PROVE  \/ Ledger!Erase({t \in table : r \in Refs(t)})
             \/ UNCHANGED Ledger!vars
  <2>1. Gone' = Gone \cup {t \in table : r \in Refs(t)}
    BY <1>0, <1>6, MarkedGone DEF Delete, TypeOK, Fates
  <2>2. InMemory' = InMemory /\ table' = table \ {t \in table : r \in Refs(t)}
    BY <1>6 DEF Delete, memory, InMemory
  <2> QED BY <2>1, <2>2 DEF Ledger!Erase
<1>7. ASSUME Halt PROVE Ledger!GiveUp(InMemory) \/ UNCHANGED Ledger!vars
  <2>1. InMemory \subseteq Txns
    BY <1>0 DEF InMemory, TypeOK
  <2>2. Gone' = Gone \cup InMemory
    BY <1>0, <1>7, <2>1, MarkedGone DEF Halt, Fates
  <2>3. InMemory' = {} /\ table' = table
    BY <1>7 DEF Halt, InMemory
  <2> QED BY <2>2, <2>3 DEF Ledger!GiveUp
<1>8. ASSUME \/ \E t \in Txns : Begin(t) \/ Notify(t)
             \/ Tick \/ Stopped \/ Stop \/ Shutdown \/ Drained \/ DrainTimeout \/ Restart
             \/ \E f \in Flushers : FlushEmpty(f) \/ ZeroGauge(f)
             \/ UNCHANGED vars
      PROVE  UNCHANGED Ledger!vars
  BY <1>8 DEF Begin, Notify, Tick, Stopped, Stop, Shutdown, Drained, DrainTimeout,
              Restart, FlushEmpty, ZeroGauge, vars, memory, database, InMemory, Gone
<1>9. /\ InMemory \in SUBSET Txns
      /\ \A r \in Rows : {t \in table : r \in Refs(t)} \in SUBSET Txns
  BY <1>0 DEF TypeOK, InMemory
<1> QED BY <1>1, <1>2, <1>3, <1>4, <1>5, <1>6, <1>7, <1>8, <1>9
        DEF Next, FlushStep, Ledger!Next, InsertOK, InsertRejected, InsertFailed

\* The collector of collector.go keeps the promises of UsageLedger.
THEOREM LedgerImplemented == Spec => LedgerSpec
<1>1. Init => Ledger!Init
  BY DEF Init, Ledger!Init, InMemory, Gone
<1> QED BY <1>1, LedgerStep, InvAlways, PTL DEF Spec, LedgerSpec, Ledger!Spec
============================================================================
