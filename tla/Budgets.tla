------------------------------ MODULE Budgets ------------------------------
(***************************************************************************)
(* Budget enforcement in the proxy (internal/proxy/proxy.go, ServeHTTP)    *)
(* with the queries of internal/agent/budget_store.go, for the requests to *)
(* one tool.  A check is several queries, each at its own instant, and the *)
(* cost of a request enters the table only when the metering collector     *)
(* commits it: here that is the ledger of UsageLedger, which Collector     *)
(* implements.  Costs are whole units of money; days are numbered, and a   *)
(* month has DaysPerMonth of them.                                         *)
(***************************************************************************)
EXTENDS Integers, Sequences, FiniteSetsExt

CONSTANTS
    Requests,
    Agents,
    AgentOf(_),     \* the authenticated agent of a request
    Costs,          \* what a request may cost: the tool's price or a reported cost
    Budgets,        \* the budgets an administrator may set: a daily and a monthly limit
    Caps,           \* the budgets of the tool: a limit and its window
    DaysPerMonth,
    MaxDay,         \* bound on the calendar
    NoBudget,       \* an agent without a row in agent_tool_budgets
    Everyone        \* the owner of the tool's own budget

Windows == {"daily", "monthly"}
Owners == Agents \cup {Everyone}

ASSUME RequestsAssumption ==
    /\ IsFiniteSet(Requests)
    /\ \A r \in Requests : AgentOf(r) \in Agents
    /\ Everyone \notin Agents
ASSUME MoneyAssumption ==
    /\ Costs \subseteq Nat
    /\ Budgets \subseteq [daily : Nat, monthly : Nat] /\ NoBudget \notin Budgets
    /\ Caps \subseteq [limit : Nat, window : Windows]
ASSUME CalendarAssumption == DaysPerMonth \in Nat \ {0} /\ MaxDay \in Nat

VARIABLES
    today,          \* the day, in UTC
    agents,         \* the agents that exist
    budget,         \* agent_tool_budgets for this tool, per agent
    cap,            \* budget_limit and budget_window of the tool
    pc,             \* where each request is
    todo,           \* the sums its check has still to ask for
    allowed,        \* what it has found so far
    cost,           \* the cost and
    stamp,          \* the day of each recorded transaction
    pending,        \* the ledger: recorded and not yet committed,
    stored,         \* in the transactions table,
    gone,           \* given up or erased
    arrival,        \* history: the day a request arrived
    passed,         \* history: the limits, by owner and window, a request was found below
    last            \* history: the last time a request was found below such a limit

settings == <<agents, budget, cap>>
check == <<todo, allowed>>
recorded == <<cost, stamp>>
ledger == <<pending, stored, gone>>
history == <<arrival, passed, last>>
bvars == <<today, settings, pc, check, recorded, ledger, history>>

Ledger == INSTANCE UsageLedger WITH Txns <- Requests

PCs == {"idle", "budget", "sumBudget", "cap", "sumCap", "upstream", "recorded",
        "refused", "failed"}
Checks == [owner : Owners, window : Windows, limit : Nat, since : Int]

\* startOfDay, or startOfMonth.
WindowStart(w, d) == IF w = "daily" THEN d ELSE d - (d % DaysPerMonth)

CostOf(S) == MapThenSumSet(LAMBDA r : cost[r], S)

\* The sum of the costs of those transactions of S that count for owner o.
Spend(S, o, since) ==
    CostOf({r \in S : (o = Everyone \/ AgentOf(r) = o) /\ stamp[r] >= since})

\* Mutant: a limit that is used up exactly still admits.
WithinInclusive(spent, limit) == limit > 0 => spent <= limit

\* A limit of 0 is no limit.
Within(spent, limit) == limit > 0 => spent < limit

BInit ==
    /\ today = 0
    /\ agents = Agents
    /\ budget \in [Agents -> Budgets \cup {NoBudget}]
    /\ cap \in Caps
    /\ pc = [r \in Requests |-> "idle"]
    /\ todo = [r \in Requests |-> <<>>]
    /\ allowed = [r \in Requests |-> TRUE]
    /\ cost = [r \in Requests |-> 0]
    /\ stamp = [r \in Requests |-> 0]
    /\ Ledger!Init
    /\ arrival = [r \in Requests |-> 0]
    /\ passed = [r \in Requests |-> {}]
    /\ last = [l \in Owners \X Windows |-> [limit |-> 0, open |-> {}]]

Goto(r, l) == pc' = [pc EXCEPT ![r] = l]

----------------------------------------------------------------------------
(* The checks of ServeHTTP. *)

\* The agent is authenticated and the rate limits have let the request through.
Begin(r) ==
    /\ pc[r] = "idle"
    /\ AgentOf(r) \in agents
    /\ Goto(r, "budget")
    /\ arrival' = [arrival EXCEPT ![r] = today]
    /\ UNCHANGED <<today, settings, check, recorded, ledger, passed, last>>

\* Mutant: the sum runs over all the transactions there are.
AskEver(o, w, limit) == [owner |-> o, window |-> w, limit |-> limit, since |-> 0]

\* What a check asks for: the spending of o since the window began, and its limit.
Ask(o, w, limit) ==
    [owner |-> o, window |-> w, limit |-> limit, since |-> WindowStart(w, today)]

\* CheckBudget: the row of the budget, and time.Now.
ReadBudget(r) ==
    LET a == AgentOf(r) IN
    /\ pc[r] = "budget"
    /\ budget[a] # NoBudget
    /\ todo' = [todo EXCEPT ![r] = <<Ask(a, "daily", budget[a].daily),
                                     Ask(a, "monthly", budget[a].monthly)>>]
    /\ Goto(r, "sumBudget")
    /\ UNCHANGED <<today, settings, allowed, recorded, ledger, history>>

\* CheckToolGlobalBudget: the row of the tool, and time.Now.
ReadCap(r) ==
    /\ pc[r] = "cap"
    /\ todo' = [todo EXCEPT ![r] =
                  IF cap.limit = 0 THEN <<>> ELSE <<Ask(Everyone, cap.window, cap.limit)>>]
    /\ Goto(r, IF cap.limit = 0 THEN "upstream" ELSE "sumCap")
    /\ UNCHANGED <<today, settings, allowed, recorded, ledger, history>>

\* Where a request goes after its budget, or the tool's, allows it or is not known.
After(l) == IF l \in {"budget", "sumBudget"} THEN "cap" ELSE "upstream"

\* Mutant: the sums still to ask for are not forgotten.
UncheckedKeepsSums(r) ==
    /\ pc[r] \in {"budget", "sumBudget", "cap", "sumCap"}
    /\ allowed' = [allowed EXCEPT ![r] = TRUE]
    /\ Goto(r, After(pc[r]))
    /\ UNCHANGED <<today, settings, todo, recorded, ledger, history>>

\* A query fails, or finds no row: ServeHTTP goes on as if the budget allowed it.
Unchecked(r) ==
    /\ pc[r] \in {"budget", "sumBudget", "cap", "sumCap"}
    /\ todo' = [todo EXCEPT ![r] = <<>>]
    /\ allowed' = [allowed EXCEPT ![r] = TRUE]
    /\ Goto(r, After(pc[r]))
    /\ UNCHANGED <<today, settings, recorded, ledger, history>>

\* The requests found below the limit l whose cost is still open.
Open(l) ==
    {r \in Requests : l \in passed[r] /\ pc[r] \notin {"refused", "failed"}} \ (stored \cup gone)

\* One SELECT SUM(cost); all the limits of a budget must allow the request.
Sum(r) ==
    LET c == Head(todo[r])
        l == <<c.owner, c.window>>
        ok == Within(Spend(stored, c.owner, c.since), c.limit)
        ends == Len(todo[r]) = 1
    IN  /\ pc[r] \in {"sumBudget", "sumCap"}
        /\ todo' = [todo EXCEPT ![r] = Tail(@)]
        /\ allowed' = [allowed EXCEPT ![r] = ends \/ (@ /\ ok)]
        /\ Goto(r, IF ~ends THEN pc[r] ELSE IF ok /\ allowed[r] THEN After(pc[r]) ELSE "refused")
        /\ IF ok /\ c.limit > 0
           THEN /\ passed' = [passed EXCEPT ![r] = @ \cup {l}]
                /\ last' = [last EXCEPT ![l] = [limit |-> c.limit, open |-> Open(l) \cup {r}]]
           ELSE UNCHANGED <<passed, last>>
        /\ UNCHANGED <<today, settings, recorded, ledger, arrival>>

----------------------------------------------------------------------------
(* The upstream call and recordTransaction. *)

\* The upstream has answered, or the call has failed and costs the flat price.
Record(r) ==
    /\ pc[r] = "upstream"
    /\ Ledger!Accept(r)
    /\ \E c \in Costs : cost' = [cost EXCEPT ![r] = c]
    /\ stamp' = [stamp EXCEPT ![r] = today]
    /\ Goto(r, "recorded")
    /\ UNCHANGED <<today, settings, check, history>>

\* The endpoint's template or the upstream request cannot be built: nothing is recorded.
NotForwarded(r) ==
    /\ pc[r] = "upstream"
    /\ Goto(r, "failed")
    /\ UNCHANGED <<today, settings, check, recorded, ledger, history>>

----------------------------------------------------------------------------
(* The rest of the gateway. *)

\* The collector settles a batch: it is stored, or given up.
Settle(B) ==
    /\ \/ Ledger!Commit(B) /\ \A r \in B : AgentOf(r) \in agents
       \/ Ledger!GiveUp(B)
    /\ UNCHANGED <<today, settings, pc, check, recorded, history>>

\* An agent is deleted, and with it its budget and its transactions.
DeleteAgent(a) ==
    LET B == {r \in stored : AgentOf(r) = a} IN
    /\ a \in agents
    /\ agents' = agents \ {a}
    /\ budget' = [budget EXCEPT ![a] = NoBudget]
    /\ IF B = {} THEN UNCHANGED ledger ELSE Ledger!Erase(B)
    /\ UNCHANGED <<today, cap, pc, check, recorded, history>>

\* BudgetStore.Set.
SetBudget(a, b) ==
    /\ a \in agents
    /\ budget' = [budget EXCEPT ![a] = b]
    /\ UNCHANGED <<today, agents, cap, pc, check, recorded, ledger, history>>

\* The tool is updated.
SetCap(c) ==
    /\ cap' = c
    /\ UNCHANGED <<today, agents, budget, pc, check, recorded, ledger, history>>

Midnight ==
    /\ today < MaxDay
    /\ today' = today + 1
    /\ UNCHANGED <<settings, pc, check, recorded, ledger, history>>

RequestStep(r) ==
    \/ Begin(r)
    \/ ReadBudget(r)
    \/ ReadCap(r)
    \/ Unchecked(r)
    \/ Sum(r)
    \/ Record(r)
    \/ NotForwarded(r)

BNext ==
    \/ \E r \in Requests : RequestStep(r)
    \/ \E B \in SUBSET Requests : Settle(B)
    \/ \E a \in Agents : DeleteAgent(a)
    \/ \E a \in Agents, b \in Budgets : SetBudget(a, b)
    \/ \E c \in Caps : SetCap(c)
    \/ Midnight

BSpec == BInit /\ [][BNext]_bvars

----------------------------------------------------------------------------
(* Properties. *)

\* The variables have their types, and a request that sums has something to sum.
BTypeOK ==
    /\ today \in 0..MaxDay
    /\ agents \subseteq Agents
    /\ budget \in [Agents -> Budgets \cup {NoBudget}]
    /\ cap \in Caps
    /\ pc \in [Requests -> PCs]
    /\ todo \in [Requests -> Seq(Checks)]
    /\ \A r \in Requests : pc[r] \in {"sumBudget", "sumCap"} <=> todo[r] # <<>>
    /\ allowed \in [Requests -> BOOLEAN]
    /\ cost \in [Requests -> Costs \cup {0}]
    /\ stamp \in [Requests -> 0..MaxDay]
    /\ pending \subseteq Requests /\ stored \subseteq Requests /\ gone \subseteq Requests

\* How far enforcement on settled costs lets an owner overspend: what is stored of the
\* requests found below a limit stays below the limit last respected plus the costs of
\* the requests that were open when it was.  Requests racing through the checks, costs
\* settled late, several windows, midnight and changed limits cost no more than that.
OverspendBound ==
    \A o \in Owners, w \in Windows :
        LET l == <<o, w>>
            S == {r \in stored : l \in passed[r]}
        IN  S # {} => Spend(S, o, WindowStart(w, today)) < last[l].limit + CostOf(last[l].open)

\* No request is refused on account of an earlier day or month: a refusal means that what
\* was recorded since the start of the day, or month, the request arrived in reached a
\* limit for that window.
RefusalsEarned ==
    \A r \in Requests : pc[r] = "refused" =>
        LET spent(o, w) == Spend(Requests, o, WindowStart(w, arrival[r])) IN
        \/ \E b \in Budgets, w \in Windows : b[w] > 0 /\ spent(AgentOf(r), w) >= b[w]
        \/ \E c \in Caps : c.limit > 0 /\ spent(Everyone, c.window) >= c.limit
============================================================================
