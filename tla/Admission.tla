----------------------------- MODULE Admission -----------------------------
(***************************************************************************)
(* How the gateway admits concurrent requests to one tool: the per-agent   *)
(* middleware (internal/ratelimit/middleware.go), then the tool's global,  *)
(* team and agent scopes (tool_limiter.go), as proxy.go calls them.  Each  *)
(* call on the shared Limiter takes its lock anew, so requests interleave  *)
(* between Status and Allow and between scopes, and the configured rates   *)
(* may change after a request has read them (tool_rate_store.go).          *)
(***************************************************************************)
EXTENDS RateLimiter, Sequences, FiniteSets

CONSTANTS
    Requests,
    Agents,
    Teams,
    AgentOf(_),     \* the authenticated agent of a request
    TeamOf(_),      \* the team of an agent; NoTeam when it has none
    AgentRate(_),   \* rate_limit of an agent, 0 for the default
    ToolRates(_),   \* the rates an administrator may set for a scope, 0 for none
    NoTeam

\* Mutant: the bucket is that of the agent's name, which others may share.
AgentKeyOfName(a) == <<"agent", CHOOSE b \in Agents : TRUE>>

AgentKey(a) == <<"agent", a>>       \* agent.ID
GlobalKey == <<"tool", "all">>      \* tool:<tool>
TeamKey(g) == <<"team", g>>         \* tool:<tool>:team:<team>
OwnKey(a) == <<"own", a>>           \* tool:<tool>:agent:<agent>

ScopeKeys == {GlobalKey} \cup {TeamKey(g) : g \in Teams} \cup {OwnKey(a) : a \in Agents}

ASSUME KeysAssumption == Keys = ScopeKeys \cup {AgentKey(a) : a \in Agents}
ASSUME ToolRatesAssumption == \A s \in ScopeKeys : ToolRates(s) \subseteq CustomRates
ASSUME RequestsAssumption ==
    /\ IsFiniteSet(Requests)
    /\ \A r \in Requests : AgentOf(r) \in Agents
    /\ \A a \in Agents : TeamOf(a) \in Teams \cup {NoTeam} /\ AgentRate(a) \in CustomRates
    /\ NoTeam \notin Teams

VARIABLES
    configured,     \* tools.rate_limit and tool_rate_limits: the rate of each scope, 0 if none
    pc,             \* what each request does next
    todo,           \* CheckToolRateLimit's checks still to make: scope keys and rates
    allowed,        \* CheckToolRateLimit's allowed
    paid,           \* history: keys that granted the request a token
    required,       \* history: scopes that the resolved rates made it check
    peak            \* history: the highest rate resolved for each scope

admission == <<configured, pc, todo, allowed, paid, required, peak>>
avars == <<vars, admission>>

Configurations == {c \in [ScopeKeys -> CustomRates] : \A s \in ScopeKeys : c[s] \in ToolRates(s)}
PCs == {"status", "allow", "resolve", "allowScope", "statusScope", "forwarded", "limited"}

AInit ==
    /\ Init
    /\ configured \in Configurations
    /\ pc = [r \in Requests |-> "status"]
    /\ todo = [r \in Requests |-> <<>>]
    /\ allowed = [r \in Requests |-> TRUE]
    /\ paid = [r \in Requests |-> {}]
    /\ required = [r \in Requests |-> {}]
    /\ peak = [s \in ScopeKeys |-> 0]

Goto(r, l) == pc' = [pc EXCEPT ![r] = l]
Pay(r, k) == paid' = [paid EXCEPT ![r] = @ \cup {k}]

----------------------------------------------------------------------------
(* middleware.go: the agent's own limit. *)

\* The X-RateLimit headers are set from Status, before Allow.
AgentStatus(r) ==
    LET a == AgentOf(r) IN
    /\ pc[r] = "status"
    /\ Status(AgentKey(a), AgentRate(a))
    /\ Goto(r, "allow")
    /\ UNCHANGED <<configured, todo, allowed, paid, required, peak>>

AgentGrant(r) ==
    LET a == AgentOf(r) IN
    /\ pc[r] = "allow"
    /\ Grant(AgentKey(a), AgentRate(a))
    /\ Pay(r, AgentKey(a))
    /\ Goto(r, "resolve")
    /\ UNCHANGED <<configured, todo, allowed, required, peak>>

AgentRefuse(r) ==
    LET a == AgentOf(r) IN
    /\ pc[r] = "allow"
    /\ Refuse(AgentKey(a), AgentRate(a))
    /\ Goto(r, "limited")
    /\ UNCHANGED <<configured, todo, allowed, paid, required, peak>>

----------------------------------------------------------------------------
(* CheckToolRateLimit, called by ServeHTTP. *)

\* A scope without a rate is not checked.
Limited(s) == IF configured[s] > 0 THEN <<s>> ELSE <<>>

\* The scopes to check for agent a at the rates read, in order: global, team, agent.
Checks(a) ==
    Limited(GlobalKey)
    \o (IF TeamOf(a) = NoTeam THEN <<>> ELSE Limited(TeamKey(TeamOf(a))))
    \o Limited(OwnKey(a))

\* Mutant: a request without limits enters the loop.
ResolveAlwaysChecks(r) ==
    LET scopes == Checks(AgentOf(r)) IN
    /\ pc[r] = "resolve"
    /\ todo' = [todo EXCEPT ![r] =
                  [i \in DOMAIN scopes |-> [key |-> scopes[i], rate |-> configured[scopes[i]]]]]
    /\ required' = [required EXCEPT ![r] = {scopes[i] : i \in DOMAIN scopes}]
    /\ Goto(r, "allowScope")
    /\ UNCHANGED <<vars, configured, allowed, paid, peak>>

\* Resolve reads the three rates with one query; without any the request passes.
Resolve(r) ==
    LET scopes == Checks(AgentOf(r)) IN
    /\ pc[r] = "resolve"
    /\ todo' = [todo EXCEPT ![r] =
                  [i \in DOMAIN scopes |-> [key |-> scopes[i], rate |-> configured[scopes[i]]]]]
    /\ required' = [required EXCEPT ![r] = {scopes[i] : i \in DOMAIN scopes}]
    /\ peak' = [s \in ScopeKeys |->
                  IF s \in required'[r] /\ configured[s] > peak[s] THEN configured[s] ELSE peak[s]]
    /\ Goto(r, IF scopes = <<>> THEN "forwarded" ELSE "allowScope")
    /\ UNCHANGED <<vars, configured, allowed, paid>>

\* The query fails: ServeHTTP goes on as if no limit were configured.
ResolveFails(r) ==
    /\ pc[r] = "resolve"
    /\ Goto(r, "forwarded")
    /\ UNCHANGED <<vars, configured, todo, allowed, paid, required, peak>>

\* Mutant: the verdict of a scope replaces that of the scopes before it.
ScopeGrantOverrides(r) ==
    LET c == Head(todo[r]) IN
    /\ pc[r] = "allowScope"
    /\ Grant(c.key, c.rate)
    /\ Pay(r, c.key)
    /\ allowed' = [allowed EXCEPT ![r] = TRUE]
    /\ Goto(r, "statusScope")
    /\ UNCHANGED <<configured, todo, required, peak>>

\* Mutant: the global check draws on the bucket of the agent.
ScopeGrantOwn(r) ==
    LET c == Head(todo[r]) IN
    /\ pc[r] = "allowScope"
    /\ Grant(IF c.key = GlobalKey THEN OwnKey(AgentOf(r)) ELSE c.key, c.rate)
    /\ Pay(r, c.key)
    /\ Goto(r, "statusScope")
    /\ UNCHANGED <<configured, todo, allowed, required, peak>>

ScopeGrant(r) ==
    LET c == Head(todo[r]) IN
    /\ pc[r] = "allowScope"
    /\ Grant(c.key, c.rate)
    /\ Pay(r, c.key)
    /\ Goto(r, "statusScope")
    /\ UNCHANGED <<configured, todo, allowed, required, peak>>

\* A refused scope decides the answer, and the scopes after it are still charged.
ScopeRefuse(r) ==
    LET c == Head(todo[r]) IN
    /\ pc[r] = "allowScope"
    /\ Refuse(c.key, c.rate)
    /\ allowed' = [allowed EXCEPT ![r] = FALSE]
    /\ Goto(r, "statusScope")
    /\ UNCHANGED <<configured, todo, paid, required, peak>>

\* Status for the headers, then the next scope or the verdict.
ScopeStatus(r) ==
    LET c == Head(todo[r])
        rest == Tail(todo[r])
    IN  /\ pc[r] = "statusScope"
        /\ Status(c.key, c.rate)
        /\ todo' = [todo EXCEPT ![r] = rest]
        /\ Goto(r, IF rest # <<>> THEN "allowScope"
                   ELSE IF allowed[r] THEN "forwarded" ELSE "limited")
        /\ UNCHANGED <<configured, allowed, paid, required, peak>>

----------------------------------------------------------------------------
(* The rest of the world. *)

\* An administrator sets or deletes the rate of a scope (tool_rate_store.go, tools).
Configure(s, rate) ==
    /\ configured' = [configured EXCEPT ![s] = rate]
    /\ UNCHANGED <<vars, pc, todo, allowed, paid, required, peak>>

AAdvance == Advance /\ UNCHANGED admission

RequestStep(r) ==
    \/ AgentStatus(r)
    \/ AgentGrant(r)
    \/ AgentRefuse(r)
    \/ Resolve(r)
    \/ ResolveFails(r)
    \/ ScopeGrant(r)
    \/ ScopeRefuse(r)
    \/ ScopeStatus(r)

ANext ==
    \/ \E r \in Requests : RequestStep(r)
    \/ \E s \in ScopeKeys : \E rate \in ToolRates(s) : Configure(s, rate)
    \/ AAdvance

ASpec == AInit /\ [][ANext]_avars

----------------------------------------------------------------------------
(* Properties. *)

\* The variables have their types, and a request in the loop has a scope to check.
ATypeOK ==
    /\ TypeOK
    /\ configured \in Configurations
    /\ pc \in [Requests -> PCs]
    /\ todo \in [Requests -> Seq([key : ScopeKeys, rate : CustomRates])]
    /\ allowed \in [Requests -> BOOLEAN]
    /\ paid \in [Requests -> SUBSET Keys]
    /\ required \in [Requests -> SUBSET ScopeKeys]
    /\ peak \in [ScopeKeys -> Nat]
    /\ \A r \in Requests : pc[r] \in {"allowScope", "statusScope"} => todo[r] # <<>>

\* "All buckets must allow for the request to proceed" (tool_limiter.go:20): a request
\* that went through took a token of its agent and one of every scope it resolved,
\* however other requests and changes of the rates came between its calls.
AllScopesPaid ==
    \A r \in Requests : pc[r] = "forwarded" =>
        {AgentKey(AgentOf(r))} \cup required[r] \subseteq paid[r]

\* "The stricter limit wins" (DEVELOPING.md:70): the requests forwarded under a scope
\* stay within the highest rate any of them resolved for it, one full bucket and what
\* it yields, whatever limits the other scopes and the agents have.
StricterWins ==
    \A s \in ScopeKeys :
        Window * Cardinality({r \in Requests : pc[r] = "forwarded" /\ s \in required[r]})
            <= peak[s] * Window + peak[s] * now
============================================================================
