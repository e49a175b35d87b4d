----------------------------- MODULE Collector -----------------------------
(***************************************************************************)
(* The metering collector (internal/metering/collector.go): the goroutines *)
(* of the proxy's handlers append to one buffer under a mutex, and whoever *)
(* finds it full, or the collector's own goroutine on a tick or at         *)
(* shutdown, swaps the buffer for an empty one and writes the batch with a *)
(* single INSERT (internal/metering/store.go).  The gateway's shutdown     *)
(* (cmd/octroi/serve.go) and the rows the INSERT refers to are part of it. *)
(*                                                                         *)
(* A critical section of the mutex is one step, and so is each call made   *)
(* outside it.  A handler is named by the transaction it records.  The     *)
(* order of a batch is not observable, so buffers are sets.                *)
(***************************************************************************)
EXTENDS Integers, FiniteSets

CONSTANTS
    Txns,           \* transactions, one per proxied request
    Rows,           \* the agents and tools that can be deleted
    Refs(_),        \* those that a transaction refers to by foreign key
    Unstorable,     \* transactions with a value its column refuses: a reported cost
                    \* of 10^6 overflows NUMERIC(12,6)
    BatchSize,      \* metering.batch_size
    Callbacks,      \* TRUE when SetMetricsCallbacks was called
    Loop            \* the goroutine that runs Collector.Start

ASSUME TxnsAssumption == IsFiniteSet(Txns) /\ Loop \notin Txns
ASSUME BatchSizeAssumption == BatchSize \in Nat \ {0}
ASSUME CallbacksAssumption == Callbacks \in BOOLEAN
ASSUME RefsAssumption == \A t \in Txns : Refs(t) \subseteq Rows
ASSUME UnstorableAssumption == Unstorable \subseteq Txns

VARIABLES
    stage,      \* where runServe is
    pc,         \* what each handler and the collector's goroutine does next
    lenAt,      \* bufLen, the length a handler saw under the lock in Record
    buffer,     \* Collector.buffer
    batch,      \* flush's local batch, per goroutine
    final,      \* the loop is in the flush after which Start returns
    gauge,      \* the buffer size last reported through onBufferChange
    rows,       \* agents and tools that exist in the database
    table,      \* the transactions table
    recorded,   \* history: every transaction ever passed to Record
    fate        \* history: why a recorded transaction will never be in the table

vars == <<stage, pc, lenAt, buffer, batch, final, gauge, rows, table, recorded, fate>>
memory == <<lenAt, buffer, batch, final, gauge>>
database == <<rows, table, fate>>

Flushers == Txns \cup {Loop}
Stages == {"serving", "stopping", "draining", "closed", "down"}
HandlerPC == {"idle", "upstream", "notify", "flush", "zero", "insert", "done"}
LoopPC == {"wait", "flush", "zero", "insert", "exited"}
Fates == {"none", "rejected", "failed", "vanished", "erased"}

\* Mutant: the flush starts only above batch_size.
ShouldFlushAbove(t) == lenAt[t] > BatchSize

ShouldFlush(t) == lenAt[t] >= BatchSize

InMemory == buffer \cup UNION {batch[f] : f \in Flushers}
\* The table accepts the row of t.
Storable(t) == t \notin Unstorable /\ Refs(t) \subseteq rows

Gone == {t \in Txns : fate[t] # "none"}

\* Mutant: a handler that has flushed goes on as the loop does.
AfterFlushAsLoop(f) == IF final THEN "exited" ELSE "wait"

\* onBufferChange(n), where the callback is set.
Report(n) == gauge' = IF Callbacks THEN n ELSE gauge

\* Where a goroutine continues when its flush returns.
AfterFlush(f) == IF f # Loop THEN "done" ELSE IF final THEN "exited" ELSE "wait"

\* The fates once the transactions of S have met fate c.
Marked(S, c) == [t \in Txns |-> IF t \in S THEN c ELSE fate[t]]

Init ==
    /\ stage = "serving"
    /\ pc = [f \in Flushers |-> IF f = Loop THEN "wait" ELSE "idle"]
    /\ lenAt = [t \in Txns |-> 0]
    /\ buffer = {}
    /\ batch = [f \in Flushers |-> {}]
    /\ final = FALSE
    /\ gauge = 0
    /\ rows = Rows
    /\ table = {}
    /\ recorded = {}
    /\ fate = [t \in Txns |-> "none"]

----------------------------------------------------------------------------
(* The proxy's handlers: ServeHTTP and Collector.Record. *)

\* A request is accepted, its agent authenticated and its tool found, and the
\* upstream is called.  Shutdown closes the listener.
Begin(t) ==
    /\ stage \in {"serving", "stopping"}
    /\ pc[t] = "idle"
    /\ Refs(t) \subseteq rows
    /\ pc' = [pc EXCEPT ![t] = "upstream"]
    /\ UNCHANGED <<stage, memory, database, recorded>>

\* Record, up to the unlock.
Append(t) ==
    /\ stage # "down"
    /\ pc[t] = "upstream"
    /\ buffer' = buffer \cup {t}
    /\ lenAt' = [lenAt EXCEPT ![t] = Cardinality(buffer) + 1]
    /\ recorded' = recorded \cup {t}
    /\ pc' = [pc EXCEPT ![t] = "notify"]
    /\ UNCHANGED <<stage, batch, final, gauge, database>>

\* Record, from the unlock: onBufferChange(bufLen), then flush if the buffer was full.
Notify(t) ==
    /\ stage # "down"
    /\ pc[t] = "notify"
    /\ Report(lenAt[t])
    /\ pc' = [pc EXCEPT ![t] = IF ShouldFlush(t) THEN "flush" ELSE "done"]
    /\ lenAt' = [lenAt EXCEPT ![t] = 0]
    /\ UNCHANGED <<stage, buffer, batch, final, database, recorded>>

----------------------------------------------------------------------------
(* Collector.Start: the select of the collector's own goroutine. *)

Tick ==
    /\ stage # "down"
    /\ pc[Loop] = "wait"
    /\ pc' = [pc EXCEPT ![Loop] = "flush"]
    /\ UNCHANGED <<stage, memory, database, recorded>>

\* The case of a closed done channel.
Stopped ==
    /\ stage \in {"stopping", "draining", "closed"}
    /\ pc[Loop] = "wait"
    /\ pc' = [pc EXCEPT ![Loop] = "flush"]
    /\ final' = TRUE
    /\ UNCHANGED <<stage, lenAt, buffer, batch, gauge, database, recorded>>

----------------------------------------------------------------------------
(* Collector.flush, in a handler or in the collector's goroutine. *)

\* Mutant: flush leaves a buffer that is not full alone.
FlushUnlessFull(f) ==
    /\ stage # "down"
    /\ pc[f] = "flush"
    /\ Cardinality(buffer) < BatchSize
    /\ pc' = [pc EXCEPT ![f] = AfterFlush(f)]
    /\ UNCHANGED <<stage, memory, database, recorded>>

FlushEmpty(f) ==
    /\ stage # "down"
    /\ pc[f] = "flush"
    /\ buffer = {}
    /\ pc' = [pc EXCEPT ![f] = AfterFlush(f)]
    /\ UNCHANGED <<stage, memory, database, recorded>>

\* Mutant: the buffer is not replaced, and the next flush takes it again.
TakeBatchKeepBuffer(f) ==
    /\ stage # "down"
    /\ pc[f] = "flush"
    /\ buffer # {}
    /\ batch' = [batch EXCEPT ![f] = buffer]
    /\ pc' = [pc EXCEPT ![f] = "zero"]
    /\ UNCHANGED <<stage, lenAt, buffer, final, gauge, database, recorded>>

TakeBatch(f) ==
    /\ stage # "down"
    /\ pc[f] = "flush"
    /\ buffer # {}
    /\ batch' = [batch EXCEPT ![f] = buffer]
    /\ buffer' = {}
    /\ pc' = [pc EXCEPT ![f] = "zero"]
    /\ UNCHANGED <<stage, lenAt, final, gauge, database, recorded>>

ZeroGauge(f) ==
    /\ stage # "down"
    /\ pc[f] = "zero"
    /\ Report(0)
    /\ pc' = [pc EXCEPT ![f] = "insert"]
    /\ UNCHANGED <<stage, lenAt, buffer, batch, final, database, recorded>>

\* What flush does once BatchInsert has returned, whatever it returned: an error
\* is logged and the batch is dropped with the frame.
EndFlush(f) ==
    /\ pc[f] = "insert"
    /\ pc' = [pc EXCEPT ![f] = AfterFlush(f)]
    /\ batch' = [batch EXCEPT ![f] = {}]
    /\ UNCHANGED <<stage, lenAt, buffer, final, gauge, rows, recorded>>

\* Mutant: the answer of a committed INSERT is lost, and the batch is put back.
InsertOKRequeued(f) ==
    /\ stage \notin {"closed", "down"}
    /\ pc[f] = "insert"
    /\ \A t \in batch[f] : Storable(t)
    /\ table' = table \cup batch[f]
    /\ buffer' = buffer \cup batch[f]
    /\ batch' = [batch EXCEPT ![f] = {}]
    /\ pc' = [pc EXCEPT ![f] = AfterFlush(f)]
    /\ UNCHANGED <<stage, lenAt, final, gauge, rows, recorded, fate>>

\* The INSERT commits.  (When its answer is lost flush sees an error, and does
\* the same.)  It needs a connection, and runServe closes the pool on its way out.
InsertOK(f) ==
    /\ stage \notin {"closed", "down"}
    /\ \A t \in batch[f] : Storable(t)
    /\ table' = table \cup batch[f]
    /\ UNCHANGED fate
    /\ EndFlush(f)

\* Mutant: one statement per transaction, the valid ones stay stored.
InsertRejectedByRow(f) ==
    /\ stage \notin {"closed", "down"}
    /\ \E t \in batch[f] : ~Storable(t)
    /\ table' = table \cup {t \in batch[f] : Storable(t)}
    /\ fate' = Marked({t \in batch[f] : ~Storable(t)}, "rejected")
    /\ EndFlush(f)

\* One row refers to a deleted agent or tool, or has a value out of range: the whole
\* statement fails.
InsertRejected(f) ==
    /\ stage \notin {"closed", "down"}
    /\ \E t \in batch[f] : ~Storable(t)
    /\ fate' = Marked(batch[f], "rejected")
    /\ UNCHANGED table
    /\ EndFlush(f)

\* The database is unreachable, the pool closed or the 10 s deadline exceeded.
InsertFailed(f) ==
    /\ stage # "down"
    /\ fate' = Marked(batch[f], "failed")
    /\ UNCHANGED table
    /\ EndFlush(f)

FlushStep(f) ==
    \/ FlushEmpty(f)
    \/ TakeBatch(f)
    \/ ZeroGauge(f)
    \/ InsertOK(f)
    \/ InsertRejected(f)
    \/ InsertFailed(f)

----------------------------------------------------------------------------
(* The rest of the gateway: deletions, shutdown, crash and restart. *)

\* Mutant: the foreign key does not cascade.
DeleteOnlyRow(r) ==
    /\ stage \in {"serving", "stopping", "draining"}
    /\ r \in rows
    /\ rows' = rows \ {r}
    /\ UNCHANGED <<stage, pc, memory, table, recorded, fate>>

\* An agent or a tool is deleted; its transactions cascade.
Delete(r) ==
    /\ stage \in {"serving", "stopping", "draining"}
    /\ r \in rows
    /\ rows' = rows \ {r}
    /\ table' = {t \in table : r \notin Refs(t)}
    /\ fate' = Marked({t \in table : r \in Refs(t)}, "erased")
    /\ UNCHANGED <<stage, pc, memory, recorded>>

\* runServe has its signal: collector.Stop() closes done and returns.
Stop ==
    /\ stage = "serving"
    /\ stage' = "stopping"
    /\ UNCHANGED <<pc, memory, database, recorded>>

\* srv.Shutdown closes the listeners and waits for the handlers.
Shutdown ==
    /\ stage = "stopping"
    /\ stage' = "draining"
    /\ UNCHANGED <<pc, memory, database, recorded>>

HandlersEnded == \A t \in Txns : pc[t] \in {"idle", "done"}

\* Shutdown returns with every handler ended, and pool.Close is deferred.
Drained ==
    /\ stage = "draining"
    /\ HandlersEnded
    /\ stage' = "closed"
    /\ UNCHANGED <<pc, memory, database, recorded>>

\* Shutdown returns because its 10 s have passed, with handlers still running.
DrainTimeout ==
    /\ stage = "draining"
    /\ ~HandlersEnded
    /\ stage' = "closed"
    /\ UNCHANGED <<pc, memory, database, recorded>>

\* The process ends, by main's return or by a crash: its memory is gone.
Halt ==
    /\ stage # "down"
    /\ stage' = "down"
    /\ pc' = [f \in Flushers |->
                IF f = Loop THEN "exited" ELSE IF pc[f] = "idle" THEN "idle" ELSE "done"]
    /\ lenAt' = [t \in Txns |-> 0]
    /\ buffer' = {}
    /\ batch' = [f \in Flushers |-> {}]
    /\ final' = FALSE
    /\ gauge' = 0
    /\ fate' = Marked(InMemory, "vanished")
    /\ UNCHANGED <<rows, table, recorded>>

\* A new process starts on the same database.
Restart ==
    /\ stage = "down"
    /\ stage' = "serving"
    /\ pc' = [pc EXCEPT ![Loop] = "wait"]
    /\ UNCHANGED <<memory, database, recorded>>

Next ==
    \/ \E t \in Txns : Begin(t) \/ Append(t) \/ Notify(t)
    \/ Tick
    \/ Stopped
    \/ \E f \in Flushers : FlushStep(f)
    \/ \E r \in Rows : Delete(r)
    \/ Stop
    \/ Shutdown
    \/ Drained
    \/ DrainTimeout
    \/ Halt
    \/ Restart

Spec == Init /\ [][Next]_vars

\* Goroutines are scheduled, the ticker ticks, and BatchInsert returns within its
\* 10 s deadline.  Requests, deletions, signals and crashes are not forced.
Fairness ==
    /\ \A t \in Txns : WF_vars(Notify(t))
    /\ \A f \in Flushers : WF_vars(FlushStep(f))
    /\ WF_vars(Tick)

FairSpec == Spec /\ Fairness
----------------------------------------------------------------------------
(* Properties. *)

\* The variables have their types; a handler about to compare the length it saw at its
\* append with batch_size saw at least its own transaction, and no other keeps a length.
TypeOK ==
    /\ stage \in Stages
    /\ pc \in [Flushers -> HandlerPC \cup LoopPC]
    /\ \A t \in Txns : pc[t] \in HandlerPC
    /\ pc[Loop] \in LoopPC
    /\ lenAt \in [Txns -> Nat]
    /\ \A t \in Txns : lenAt[t] > 0 <=> pc[t] = "notify"
    /\ buffer \subseteq Txns
    /\ batch \in [Flushers -> SUBSET Txns]
    /\ final \in BOOLEAN
    /\ gauge \in Nat
    /\ rows \subseteq Rows
    /\ table \subseteq Txns
    /\ recorded \subseteq Txns
    /\ fate \in [Txns -> Fates]

\* Every recorded transaction is in exactly one place: the buffer, the batch of one
\* flush, the table, or among those given up or erased.  Concurrent flushes neither
\* share a transaction, nor lose one between the swap and the INSERT, and no
\* transaction is inserted twice (Record and flush, collector.go).
Accounting ==
    /\ recorded = InMemory \cup table \cup Gone
    /\ \A f \in Flushers : batch[f] \cap buffer = {}
    /\ \A f, g \in Flushers : f # g => batch[f] \cap batch[g] = {}
    /\ InMemory \cap table = {}
    /\ InMemory \cap Gone = {}
    /\ table \cap Gone = {}

\* The handlers that found the buffer full and have not taken it yet.
Owing == {t \in Txns : (pc[t] = "notify" /\ ShouldFlush(t)) \/ pc[t] = "flush"}

\* The buffer outgrows batch_size only by as many transactions as there are handlers
\* on their way to flush it: one that is full never waits for the ticker, however
\* Record's unlock and flush's lock interleave (Record, collector.go:73-88).
BufferBound == Cardinality(buffer) <= BatchSize - 1 + Cardinality(Owing)

\* An agent or tool is never deleted from under a stored transaction: the cascade and
\* the foreign key hold however deletions interleave with batches in flight.
NoOrphans == \A t \in table : Refs(t) \subseteq rows

\* The table grows by the whole batch of one flush or not at all (one INSERT).
BatchAtomic ==
    [][~(table' \subseteq table) =>
          \E f \in Flushers : table' = table \cup batch[f] /\ batch'[f] = {}]_vars

\* The collector implements the ledger: what is in memory is pending.
Ledger == INSTANCE UsageLedger WITH pending <- InMemory, stored <- table, gone <- Gone
LedgerSpec == Ledger!Spec

\* While the gateway serves, a recorded transaction does not stay in memory: the tick
\* or a full buffer has it inserted, or given up after a failed INSERT.
UsageSettles ==
    \A t \in Txns : t \in recorded ~> (t \in table \cup Gone \/ stage # "serving")

----------------------------------------------------------------------------
(* What a comment of the code says, and the code does not do. *)

\* collector.go:122, "Stop ... performs a final flush": once every handler has ended
\* and the collector's goroutine has returned, nothing is left in the buffer.
FinalFlushLeavesNothing ==
    (stage = "closed" /\ HandlersEnded /\ pc[Loop] = "exited") => buffer = {}
============================================================================
