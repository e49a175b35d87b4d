------------------------------- MODULE Quotas -------------------------------
(***************************************************************************)
(* What an agent is told of its quota (internal/ratelimit/middleware.go):  *)
(* the X-RateLimit-Remaining of a request is what Status returned, and     *)
(* Allow takes the limiter's lock anew, so other requests of the agent may *)
(* have spent what was shown.  History variables beside Admission's steps. *)
(***************************************************************************)
EXTENDS Admission

VARIABLES
    shown,      \* per request, the X-RateLimit-Remaining it carries
    spent       \* per request, the tokens others of its agent took since its Status

quotas == <<shown, spent>>
qvars == <<avars, quotas>>

QInit ==
    /\ AInit
    /\ shown = [r \in Requests |-> 0]
    /\ spent = [r \in Requests |-> 0]

\* The requests of r's agent, other than r, that are between Status and Allow.
Shown(r) == {s \in Requests \ {r} : AgentOf(s) = AgentOf(r) /\ pc[s] = "allow"}

QStatus(r) ==
    /\ AgentStatus(r)
    /\ shown' = [shown EXCEPT ![r] = Remaining(AgentKey(AgentOf(r)), AgentRate(AgentOf(r)))]
    /\ UNCHANGED spent

QGrant(r) ==
    /\ AgentGrant(r)
    /\ spent' = [s \in Requests |-> IF s \in Shown(r) THEN spent[s] + 1 ELSE spent[s]]
    /\ UNCHANGED shown

\* Every other step of Admission.
QOther(r) ==
    /\ \/ AgentRefuse(r) \/ Resolve(r) \/ ResolveFails(r)
       \/ ScopeGrant(r) \/ ScopeRefuse(r) \/ ScopeStatus(r)
    /\ UNCHANGED quotas

QWorld ==
    /\ \/ \E s \in ScopeKeys : \E rate \in ToolRates(s) : Configure(s, rate)
       \/ AAdvance
    /\ UNCHANGED quotas

QNext ==
    \/ \E r \in Requests : QStatus(r) \/ QGrant(r) \/ QOther(r)
    \/ QWorld

QSpec == QInit /\ [][QNext]_qvars

----------------------------------------------------------------------------
(* Properties. *)

\* A request that was shown a remaining quota and is refused all the same has lost it to
\* as many other requests of its own agent, admitted between its Status and its Allow
\* (middleware.go:38-43): neither time, nor refused requests, nor those of other agents,
\* nor the tool's scopes take away what the header said.  (An agent's own limit is a
\* constant here; lowering it lowers the cap of the bucket, and takes away what was shown.)
QuotaKept ==
    [][\A r \in Requests :
          pc[r] = "allow" /\ pc'[r] = "limited" => spent[r] >= shown[r]]_qvars
============================================================================
