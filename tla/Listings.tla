------------------------------ MODULE Listings ------------------------------
(***************************************************************************)
(* Listings and usage reports: the page queries of internal/agent/store.go,*)
(* internal/registry/store.go and internal/metering/store.go, behind the   *)
(* handlers of agents, tools, search, usage and the member area.           *)
(*                                                                         *)
(* A client walks one listing, page by page, or asks for a summary of      *)
(* usage.  A report of teams' usage takes several statements: they look up *)
(* the teams' agents, then one selects their transactions.  Meanwhile      *)
(* agents are created, moved and deleted, and the collector stores batches *)
(* of transactions that began earlier than some that are already there.    *)
(***************************************************************************)
EXTENDS Paging

CONSTANTS
  Agent, Tool, Txn,   \* ids of the rows of the three tables
  Team,
  OfAgent, OfTool,    \* the agent and the tool of a transaction
  Limit               \* page sizes clients ask for

ASSUME KindAssumption ==
  Item = Agent \cup Tool \cup Txn /\ Agent \cap Tool = {} /\ Txn \cap (Agent \cup Tool) = {}
ASSUME OfAssumption == OfAgent \in [Txn -> Agent] /\ OfTool \in [Txn -> Tool]
ASSUME LimitAssumption == Limit \subseteq 1 .. MaxPage /\ Cardinality(Item) <= MaxPage

VARIABLES
  rows,       \* the ids that have a row now
  unborn,     \* the ids that have had none yet
  team,       \* agent -> its team, kept for an agent that is gone
  ask,        \* the listing that is walked: what the client asked for
  pc,         \* "idle", "resolve", "query", "more" or "end"
  scope,      \* the agents a usage query is restricted to; {}: no restriction
  todo,       \* the teams whose agents are still to be looked up
  found,      \* the agents found so far
  cursor,     \* {} or the position of the cursor last handed out
  returned,   \* history: the rows the client has been given
  stable,     \* history: the rows it could see ever since the first page
  moved       \* history: the agents moved since the scope was looked up

tables == <<rows, unborn, team>>
lookup == <<scope, todo, found>>
vars == <<tables, ask, pc, lookup, cursor, returned, stable, moved>>

-----------------------------------------------------------------------------
(* What a client asks for: "teams" restricts agents or usage to teams,     *)
(* "agents" is the agent_id parameter, "match" the tools of the tool_id    *)
(* parameter or those whose name or description contains the search text.  *)
Ask == [of : {"agents", "tools", "usage"}, by : {"admin", "member", "agent"},
        teams : SUBSET Team, agents : SUBSET Agent, match : SUBSET Tool]

(* An agent reports on itself, and may name tools.                         *)
AgentAsks == {a \in Ask : a.by = "agent" /\ a.of = "usage" /\ a.teams = {} /\ Cardinality(a.agents) = 1}

(* A member asks for the agents or the usage of teams, never of an agent.  *)
MemberAsks == {a \in Ask : a.by = "member" /\ a.agents = {} /\ a.of # "tools"
                           /\ (a.of = "agents" => a.match = {})}

(* Anybody may list or search the tools (as a member, here).               *)
ToolAsks == {a \in Ask : a.by = "member" /\ a.of = "tools" /\ a.teams = {} /\ a.agents = {}}

(* An administrator lists all the agents, or reports on any.               *)
AdminAsks == {a \in Ask : a.by = "admin" /\ a.of # "tools"
                          /\ (a.of = "agents" => a.teams = {} /\ a.agents = {} /\ a.match = {})}

Asks == AgentAsks \cup MemberAsks \cup ToolAsks \cup AdminAsks

(* Usage by team needs the team's agents first: always for a member, for   *)
(* an administrator with a team filter and not exactly one agent.          *)
ByTeam(a) ==
  /\ a.of = "usage"
  /\ \/ a.by = "member"
     \/ a.by = "admin" /\ a.teams # {} /\ Cardinality(a.agents) # 1

\* Mutant: a tool filter replaces the filter on agents.
WhereToolOnly(ids, a, agents) ==
  {x \in ids \cap Txn : IF a.match # {} THEN OfTool[x] \in a.match
                        ELSE agents = {} \/ OfAgent[x] \in agents}

(* buildWhereClause: every filter that is not empty becomes a condition.   *)
Where(ids, a, agents) ==
  {x \in ids \cap Txn : /\ agents = {} \/ OfAgent[x] \in agents
                        /\ a.match = {} \/ OfTool[x] \in a.match}

(* List selects every agent, ListByTeams the agents of some teams.         *)
AgentsOf(ids, where, a) == {x \in ids \cap Agent : a.by = "admin" \/ where[x] \in a.teams}

(* List selects every tool, Search those that contain the text.            *)
ToolsOf(ids, a) == {x \in ids \cap Tool : a.match = {} \/ x \in a.match}

(* The rows a query selects, before cursor and limit.                      *)
Selected(ids, where, a, agents) ==
  CASE a.of = "agents" -> AgentsOf(ids, where, a)
    [] a.of = "tools"  -> ToolsOf(ids, a)
    [] a.of = "usage"  -> Where(ids, a, agents)

Visible == Selected(rows, team, ask, scope)

TypeOK ==
  /\ rows \in SUBSET Item /\ unborn \in SUBSET Item /\ rows \cap unborn = {}
  /\ \A x \in rows \cap Txn : {OfAgent[x], OfTool[x]} \subseteq rows
  /\ team \in [Agent -> Team]
  /\ ask \in Ask
  /\ pc \in {"idle", "resolve", "query", "more", "end"}
  /\ scope \in SUBSET Agent /\ found \in SUBSET Agent /\ todo \in SUBSET ask.teams
  /\ cursor = {} \/ \E x \in Item : cursor = {At[x]}
  /\ returned \in SUBSET Item /\ stable \in SUBSET Item
  /\ moved \in SUBSET Agent

(* The agents and tools are there already, or still to be created; no call *)
(* has been stored.                                                        *)
Init ==
  /\ rows \in SUBSET (Agent \cup Tool)
  /\ unborn = Item \ rows
  /\ team \in [Agent -> Team]
  /\ ask \in Asks
  /\ pc = "idle"
  /\ scope = ask.agents /\ todo = {} /\ found = {}
  /\ cursor = {} /\ returned = {} /\ stable = {} /\ moved = {}

-----------------------------------------------------------------------------
(* The client asks for the first page, or for the next one with the cursor *)
(* it was given.  A member's teams are those of its row at every request.  *)
Request ==
  /\ pc \in {"idle", "more"}
  /\ \E ts \in SUBSET Team :
       /\ ts # ask.teams => ask.by = "member" /\ ask.of # "tools"
       /\ ask' = [ask EXCEPT !.teams = ts]
  /\ IF ByTeam(ask)
     THEN pc' = "resolve" /\ todo' = ask'.teams
     ELSE pc' = "query" /\ UNCHANGED todo
  /\ UNCHANGED <<tables, scope, found, cursor, returned, moved>>

(* ListIDsByTeams, one statement, for a member; ListIDsByTeam, a statement *)
(* per team, for an administrator, whose agent_id list is intersected.     *)
Resolve ==
  /\ pc = "resolve"
  /\ \E ts \in IF ask.by = "member" THEN {todo} ELSE {{t} : t \in todo} :
       LET ids == found \cup {x \in rows \cap Agent : team[x] \in ts} IN
       /\ todo' = todo \ ts
       /\ IF ts # todo
          THEN found' = ids /\ UNCHANGED <<pc, scope>>
          ELSE /\ scope' = IF ask.by = "admin" /\ ask.agents # {} THEN ask.agents \cap ids ELSE ids
               /\ found' = {} /\ pc' = "query"
  /\ moved' = IF todo = ask.teams THEN {} ELSE moved
  /\ UNCHANGED <<tables, ask, cursor, returned>>

\* Mutant: no extra row is fetched, so that a full page looks like the last.
AnswerWithoutExtra(n) ==
  /\ pc = "query"
  /\ returned' = returned \cup Page(Remaining(Visible, At, cursor), At, n)
  /\ cursor' = {}
  /\ pc' = "end"
  /\ UNCHANGED <<tables, ask, lookup, moved>>

(* One page of at most n rows, and the cursor of the next.                 *)
Answer(n) ==
  LET left == Remaining(Visible, At, cursor) IN
  /\ pc = "query"
  /\ returned' = returned \cup Page(left, At, n)
  /\ cursor' \in NextCursors(left, At, n)
  /\ pc' = IF Cardinality(left) > n THEN "more" ELSE "end"
  /\ UNCHANGED <<tables, ask, lookup, moved>>

(* GetSummary counts every selected row: a page that holds them all.       *)
Summarise ==
  /\ ask.of = "usage" /\ cursor = {}
  /\ Answer(MaxPage)

-----------------------------------------------------------------------------
Create(x) ==
  /\ x \in unborn \ Txn
  /\ rows' = rows \cup {x} /\ unborn' = unborn \ {x}
  /\ UNCHANGED <<team, ask, pc, lookup, cursor, returned, moved>>

(* A batch of the collector: any transactions of agents and tools that are *)
(* still there, in whatever order they began.                              *)
Store(batch) ==
  /\ batch \subseteq unborn \cap Txn
  /\ \A x \in batch : {OfAgent[x], OfTool[x]} \subseteq rows
  /\ rows' = rows \cup batch /\ unborn' = unborn \ batch
  /\ UNCHANGED <<team, ask, pc, lookup, cursor, returned, moved>>

\* Mutant: the transactions of a deleted row stay.
DeleteRow(x) ==
  /\ x \in rows \ Txn
  /\ rows' = rows \ {x}
  /\ UNCHANGED <<unborn, team, ask, pc, lookup, cursor, returned, moved>>

(* Deleting an agent or a tool deletes its transactions.                   *)
Delete(x) ==
  /\ x \in rows \ Txn
  /\ rows' = rows \ ({x} \cup {y \in Txn : x \in {OfAgent[y], OfTool[y]}})
  /\ UNCHANGED <<unborn, team, ask, pc, lookup, cursor, returned, moved>>

Move(x, t) ==
  /\ x \in rows \cap Agent /\ team[x] # t
  /\ team' = [team EXCEPT ![x] = t]
  /\ moved' = moved \cup {x}
  /\ UNCHANGED <<rows, unborn, ask, pc, lookup, cursor, returned>>

Step ==
  \/ Request \/ Resolve \/ Summarise
  \/ \E n \in Limit : Answer(n)
  \/ \E x \in Item : Create(x) \/ Delete(x)
  \/ \E batch \in SUBSET Txn \ {{}} : Store(batch)
  \/ \E x \in Agent, t \in Team : Move(x, t)

(* The first page is where a row's being seen all along begins.            *)
Begins == pc = "query" /\ pc' # "query" /\ cursor = {}
Next ==
  /\ Step
  /\ stable' = IF Begins THEN Visible ELSE stable \cap Visible'

Spec == Init /\ [][Next]_vars

-----------------------------------------------------------------------------
(* The walk as PageWalk sees it.                                           *)
Walk == IF pc = "end" THEN "end" ELSE IF cursor = {} THEN "idle" ELSE "more"
P == INSTANCE PageWalk WITH visible <- Visible, walk <- Walk

(* Every listing is a walk: however rows, scopes and memberships change    *)
(* between its requests, pages descend and what was visible throughout is  *)
(* there at the end.                                                       *)
PageSpec == P!Spec
CompleteWalk == P!Complete
DescendingPages == P!Descending

(* The rows the last answer added.                                         *)
Answered == returned' \ returned

(* A report of usage holds only calls of agents that were in the teams it  *)
(* was asked for when they were looked up, of the agents it names, and of  *)
(* the agent itself; an empty lookup apart (see TeamUsageOnly).            *)
ScopeKept ==
  [][\A x \in Answered \cap Txn :
       /\ ByTeam(ask) =>
            scope = {} \/ team[OfAgent[x]] \in ask.teams \/ OfAgent[x] \in moved
       /\ ~ ByTeam(ask) /\ ask.agents # {} => OfAgent[x] \in ask.agents
       /\ ask.match # {} => OfTool[x] \in ask.match]_vars

(* A member's report holds only usage of its teams, or of agents that left *)
(* them after the lookup.  It does not hold: teams without agents leave    *)
(* the list of agent ids empty, and an empty list adds no condition.       *)
TeamUsageOnly ==
  [][ask.by = "member" =>
       \A x \in Answered \cap Txn :
         team[OfAgent[x]] \in ask.teams \/ OfAgent[x] \in moved]_vars
=============================================================================
