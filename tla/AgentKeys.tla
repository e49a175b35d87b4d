----------------------------- MODULE AgentKeys -----------------------------
(***************************************************************************)
(* Agents and their API keys (internal/agent/store.go, the agent handlers  *)
(* of internal/api/member_handler.go and internal/api/agents_handler.go,   *)
(* GenerateAPIKey and the agent middleware of internal/auth).              *)
(*                                                                         *)
(* A member may work on the agents of its teams.  Its memberships are      *)
(* copied when the request is authenticated, the agent is loaded and its   *)
(* team looked for among them, and only then a statement changes the row,  *)
(* by id alone.  An administrator's request is one such statement.         *)
(***************************************************************************)
EXTENDS Naturals, FiniteSets

CONSTANTS
  User, Agent,    \* ids; an agent's is random, so a deleted one never returns
  Team,           \* team names
  Key,            \* API keys; random, so one is drawn at most once
  Request,        \* HTTP requests of members; each is served once
  Unborn, Gone,   \* an id that has no row: not inserted yet, deleted
  None            \* "this request holds no such thing"

NoRow == {Unborn, Gone}
Row == [team : Team, key : Key]   \* name and rate limit decide nothing here

ASSUME RowAssumption == Unborn # Gone /\ NoRow \cap Row = {}
ASSUME NoneAssumption == None \notin Agent \cup Team \cup Request /\ None \notin Row

VARIABLES
  teams,      \* user -> the teams of its row
  agents,     \* the agents table: agent -> row
  issued,     \* history: the keys drawn so far
  req,        \* request -> what its goroutine holds
  touched     \* history: request -> the users and agents that others put
              \* into another team since it began

vars == <<teams, agents, issued, req, touched>>

-----------------------------------------------------------------------------
HasAgent(a) == agents[a] \notin NoRow

(* GetByKeyHash, as the agent middleware asks: the agents a key opens.     *)
Opens(k) == {a \in Agent : HasAgent(a) /\ agents[a].key = k}

Op == {"create", "update", "delete", "regenerate"}
Job == [pc : {"load", "write"}, op : Op, user : User,
        teams : SUBSET Team,            \* the caller's, as authenticated
        agent : Agent \cup {None},
        team : Team \cup {None},        \* the "team" field of the body
        existing : Row \cup {None}]     \* the row that was loaded
Idle == [pc |-> "idle"]
Done == [pc |-> "done"]
InFlight(r) == req[r].pc \in {"load", "write"}

Mark == ({"user"} \X User) \cup ({"agent"} \X Agent)

(* Types, and the UNIQUE of api_key_hash.                                  *)
TypeOK ==
  /\ teams \in [User -> SUBSET Team]
  /\ agents \in [Agent -> Row \cup NoRow]
  /\ issued \in SUBSET Key
  /\ \A a \in Agent : HasAgent(a) => agents[a].key \in issued
  /\ \A a, b \in Agent : HasAgent(a) /\ HasAgent(b) /\ agents[a].key = agents[b].key => a = b
  /\ req \in [Request -> Job \cup {Idle, Done}]
  /\ touched \in [Request -> SUBSET Mark]

(* A fresh installation: users with their teams, no agent yet.             *)
Init ==
  /\ teams \in [User -> SUBSET Team]
  /\ agents = [a \in Agent |-> Unborn]
  /\ issued = {}
  /\ req = [r \in Request |-> Idle]
  /\ touched = [r \in Request |-> {}]

Advance(r, job) == req' = [req EXCEPT ![r] = job] /\ UNCHANGED <<teams, agents, issued, touched>>

(* Request r (or an administrator, for None) moved these users and agents. *)
Touch(r, marks) ==
  touched' = [s \in Request |-> IF InFlight(s) /\ s # r THEN touched[s] \cup marks ELSE {}]
MovedAgents ==
  {<<"agent", a>> : a \in {b \in Agent :
     HasAgent(b) /\ (agents'[b] \in NoRow \/ agents'[b].team # agents[b].team)}}

-----------------------------------------------------------------------------
(* The statements of agent.Store, for members and administrators alike.    *)

Create(team) ==
  \E a \in Agent, k \in Key \ issued :
    /\ agents[a] = Unborn
    /\ agents' = [agents EXCEPT ![a] = [team |-> team, key |-> k]]
    /\ issued' = issued \cup {k}

(* A partial UPDATE: the fields of the body and no other.                  *)
Update(a, team) ==
  /\ agents' = IF HasAgent(a) /\ team # None THEN [agents EXCEPT ![a].team = team] ELSE agents
  /\ UNCHANGED issued

Delete(a) ==
  /\ agents' = IF HasAgent(a) THEN [agents EXCEPT ![a] = Gone] ELSE agents
  /\ UNCHANGED issued

\* Mutant: the key is stored before the agent is looked for.
RegenerateAny(a) ==
  \E k \in Key \ issued :
    /\ agents' = [agents EXCEPT ![a] = [team |-> IF HasAgent(a) THEN @.team ELSE None,
                                        key |-> k]]
    /\ issued' = issued \cup {k}

(* A key drawn for an agent that is gone is thrown away.                   *)
RegenerateKey(a) ==
  IF HasAgent(a)
  THEN \E k \in Key \ issued :
         /\ agents' = [agents EXCEPT ![a].key = k]
         /\ issued' = issued \cup {k}
  ELSE UNCHANGED <<agents, issued>>

-----------------------------------------------------------------------------
(* MemberAuthMiddleware, then a handler up to its first statement: a new   *)
(* agent goes to a team of the caller's, named or its only one.            *)
BeginCreate(r, u, team) ==
  /\ req[r] = Idle
  /\ team \in teams[u]
  /\ Advance(r, [pc |-> "write", op |-> "create", user |-> u, teams |-> teams[u],
                 agent |-> None, team |-> team, existing |-> None])

Begin(r, u, op, a, team) ==
  /\ req[r] = Idle
  /\ op # "update" => team = None
  /\ Advance(r, [pc |-> "load", op |-> op, user |-> u, teams |-> teams[u],
                 agent |-> a, team |-> team, existing |-> None])

\* Mutant: an update may name another team.
LoadKeepsTeam(r) ==
  LET q == req[r] IN
  /\ q.pc = "load"
  /\ IF HasAgent(q.agent) /\ agents[q.agent].team \in q.teams
     THEN Advance(r, [q EXCEPT !.pc = "write", !.existing = agents[q.agent]])
     ELSE /\ req' = [req EXCEPT ![r] = Done]
          /\ Touch(r, {})
          /\ UNCHANGED <<teams, agents, issued>>

(* GetByID and InTeam: not found, unless the agent's team is the caller's. *)
(* What an update wants of the team is dropped.                            *)
Load(r) ==
  LET q == req[r] IN
  /\ q.pc = "load"
  /\ IF HasAgent(q.agent) /\ agents[q.agent].team \in q.teams
     THEN Advance(r, [q EXCEPT !.pc = "write", !.existing = agents[q.agent], !.team = None])
     ELSE /\ req' = [req EXCEPT ![r] = Done]
          /\ Touch(r, {})
          /\ UNCHANGED <<teams, agents, issued>>

\* Mutant: an update stores the whole row that was loaded.
WriteLoaded(r) ==
  LET q == req[r] IN
  /\ q.pc = "write"
  /\ CASE q.op = "create"     -> Create(q.team)
       [] q.op = "update"     ->
            /\ agents' = IF HasAgent(q.agent) THEN [agents EXCEPT ![q.agent] = q.existing] ELSE agents
            /\ UNCHANGED issued
       [] q.op = "delete"     -> Delete(q.agent)
       [] q.op = "regenerate" -> RegenerateKey(q.agent)
  /\ req' = [req EXCEPT ![r] = Done]
  /\ Touch(r, MovedAgents)
  /\ UNCHANGED teams

Write(r) ==
  LET q == req[r] IN
  /\ q.pc = "write"
  /\ CASE q.op = "create"     -> Create(q.team)
       [] q.op = "update"     -> Update(q.agent, q.team)
       [] q.op = "delete"     -> Delete(q.agent)
       [] q.op = "regenerate" -> RegenerateKey(q.agent)
  /\ req' = [req EXCEPT ![r] = Done]
  /\ Touch(r, MovedAgents)
  /\ UNCHANGED teams

(* An administrator's handlers: any agent, any team.                       *)
Admin ==
  /\ \/ \E team \in Team : Create(team) \/ \E a \in Agent : Update(a, team)
     \/ \E a \in Agent : Delete(a) \/ RegenerateKey(a)
  /\ Touch(None, MovedAgents)
  /\ UNCHANGED <<teams, req>>

(* A write of Members, as far as it shows here.                            *)
SetTeams(u, ts) ==
  /\ teams' = [teams EXCEPT ![u] = ts]
  /\ Touch(None, IF ts = teams[u] THEN {} ELSE {<<"user", u>>})
  /\ UNCHANGED <<agents, issued, req>>

Next ==
  \/ \E r \in Request :
       \/ \E u \in User :
            \/ \E team \in Team : BeginCreate(r, u, team)
            \/ \E op \in Op \ {"create"}, a \in Agent, team \in Team \cup {None} :
                 Begin(r, u, op, a, team)
       \/ Load(r) \/ Write(r)
  \/ Admin
  \/ \E u \in User, ts \in SUBSET Team : SetTeams(u, ts)

Spec == Init /\ [][Next]_vars

-----------------------------------------------------------------------------
Writes(r) == req[r].pc = "write" /\ req'[r].pc = "done"

(* A member's request creates, changes or deletes agents only in a team of *)
(* the caller's, unless the agent or the caller was put into another team  *)
(* after the request had been authenticated; and it never moves an agent.  *)
OwnAgentsOnly ==
  [][\A r \in Request, a \in Agent :
       LET q == req[r] IN
       Writes(r) /\ (a = q.agent \/ agents'[a] # agents[a]) =>
         /\ HasAgent(a) => agents'[a] \in NoRow \/ agents'[a].team = agents[a].team
         /\ \/ HasAgent(a) /\ agents[a].team \in teams[q.user]
            \/ HasAgent(a)' /\ agents'[a].team \in teams[q.user]
            \/ {<<"agent", a>>, <<"user", q.user>>} \cap touched[r] # {}]_vars

(* A key that was replaced, or deleted with its agent, opens nothing ever  *)
(* again, whatever is written by requests that had read the row before.    *)
NoKeyRevives == [][\A k \in issued : Opens(k)' \subseteq Opens(k)]_vars
=============================================================================
