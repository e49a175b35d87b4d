-------------------------- MODULE AgentKeysProofs --------------------------
(***************************************************************************)
(* The properties of AgentKeys for any users, agents, teams, keys and      *)
(* overlapping requests.  What a member's request checked when it began,   *)
(* or when it loaded the agent, still holds or is marked as touched.       *)
(***************************************************************************)
EXTENDS AgentKeys, TLAPS

(* The agents table and the keys drawn for it.                             *)
AgentsOK ==
  /\ agents \in [Agent -> Row \cup NoRow]
  /\ issued \in SUBSET Key
  /\ \A a \in Agent : HasAgent(a) => agents[a].key \in issued
  /\ \A a, b \in Agent : HasAgent(a) /\ HasAgent(b) /\ agents[a].key = agents[b].key => a = b

(* The statements of the store, whoever sends them.                        *)
Statement ==
  \/ \E team \in Team : Create(team)
  \/ \E a \in Agent, team \in Team \cup {None} : Update(a, team)
  \/ \E a \in Agent : Delete(a) \/ RegenerateKey(a)

(* The caller's teams are those that were copied, or it was touched.       *)
CallerFresh(ts, q, T) == q.teams = ts[q.user] \/ <<"user", q.user>> \in T

(* The agent was found in one of those teams and still is, or was touched. *)
AgentFresh(table, q, T) ==
  IF q.op = "create"
  THEN q.pc = "write" /\ q.agent = None /\ q.team \in q.teams
  ELSE /\ q.agent \in Agent
       /\ q.pc = "write" =>
            /\ q.team = None
            /\ \/ table[q.agent] \notin NoRow /\ table[q.agent].team \in q.teams
               \/ <<"agent", q.agent>> \in T

Fresh(ts, table, q, T) == CallerFresh(ts, q, T) /\ AgentFresh(table, q, T)

IInv ==
  /\ TypeOK
  /\ \A r \in Request : InFlight(r) => Fresh(teams, agents, req[r], touched[r])

-----------------------------------------------------------------------------
LEMMA RowIntro ==
  ASSUME NEW team \in Team, NEW k \in Key
  PROVE  /\ [team |-> team, key |-> k] \in Row
         /\ [team |-> team, key |-> k].team = team
         /\ [team |-> team, key |-> k].key = k
BY DEF Row

LEMMA RowTeam ==
  ASSUME NEW row \in Row, NEW team \in Team
  PROVE  /\ [row EXCEPT !.team = team] \in Row
         /\ [row EXCEPT !.team = team].team = team
         /\ [row EXCEPT !.team = team].key = row.key
BY DEF Row

LEMMA RowKey ==
  ASSUME NEW row \in Row, NEW k \in Key
  PROVE  /\ [row EXCEPT !.key = k] \in Row
         /\ [row EXCEPT !.key = k].team = row.team
         /\ [row EXCEPT !.key = k].key = k
BY DEF Row

LEMMA RowsOnly ==
  /\ \A row \in Row : row \notin NoRow
  /\ Unborn \in NoRow /\ Gone \in NoRow
BY RowAssumption DEF NoRow

(* What any statement does: at most one agent changes, to no row, or to a  *)
(* row with its old key or with a fresh one.                               *)
LEMMA StatementEffect ==
  ASSUME AgentsOK, Statement
  PROVE  \/ UNCHANGED <<agents, issued>>
         \/ \E a \in Agent, row \in Row \cup NoRow :
              /\ agents' = [agents EXCEPT ![a] = row]
              /\ \/ row \in NoRow /\ issued' = issued
                 \/ HasAgent(a) /\ row \in Row /\ row.key = agents[a].key /\ issued' = issued
                 \/ /\ row \in Row /\ row.key \in Key \ issued
                    /\ issued' = issued \cup {row.key}
<1>1. ASSUME NEW team \in Team, Create(team)
      PROVE  \E a \in Agent, row \in Row :
               /\ agents' = [agents EXCEPT ![a] = row]
               /\ row.key \in Key \ issued /\ issued' = issued \cup {row.key}
  <2>1. PICK a \in Agent, k \in Key \ issued :
          /\ agents' = [agents EXCEPT ![a] = [team |-> team, key |-> k]]
          /\ issued' = issued \cup {k}
    BY <1>1 DEF Create
  <2>. QED  BY <2>1, RowIntro
<1>2. ASSUME NEW a \in Agent, NEW team \in Team \cup {None}, Update(a, team)
      PROVE  \/ UNCHANGED <<agents, issued>>
             \/ \E row \in Row :
                  /\ agents' = [agents EXCEPT ![a] = row] /\ HasAgent(a)
                  /\ row.key = agents[a].key /\ issued' = issued
  <2>1. CASE HasAgent(a) /\ team # None
    <3>1. agents[a] \in Row /\ team \in Team
      BY <2>1 DEF AgentsOK, HasAgent
    <3>2. agents' = [agents EXCEPT ![a] = [agents[a] EXCEPT !.team = team]] /\ issued' = issued
      BY <1>2, <2>1 DEF Update
    <3>. QED  BY <2>1, <3>1, <3>2, RowTeam
  <2>. QED  BY <1>2, <2>1 DEF Update
<1>3. ASSUME NEW a \in Agent, Delete(a)
      PROVE  \/ UNCHANGED <<agents, issued>>
             \/ agents' = [agents EXCEPT ![a] = Gone] /\ issued' = issued
  BY <1>3 DEF Delete
<1>4. ASSUME NEW a \in Agent, RegenerateKey(a)
      PROVE  \/ UNCHANGED <<agents, issued>>
             \/ \E row \in Row :
                  /\ agents' = [agents EXCEPT ![a] = row]
                  /\ row.key \in Key \ issued /\ issued' = issued \cup {row.key}
  <2>1. CASE HasAgent(a)
    <3>1. PICK k \in Key \ issued :
            /\ agents' = [agents EXCEPT ![a] = [agents[a] EXCEPT !.key = k]]
            /\ issued' = issued \cup {k}
      BY <1>4, <2>1 DEF RegenerateKey
    <3>2. agents[a] \in Row
      BY <2>1 DEF AgentsOK, HasAgent
    <3>. QED  BY <3>1, <3>2, RowKey
  <2>. QED  BY <1>4, <2>1 DEF RegenerateKey
<1>. QED  BY <1>1, <1>2, <1>3, <1>4, RowsOnly DEF Statement

LEMMA StatementTypes ==
  ASSUME AgentsOK, Statement
  PROVE  AgentsOK'
<1>1. CASE UNCHANGED <<agents, issued>>
  BY <1>1 DEF AgentsOK, HasAgent
<1>2. ASSUME NEW a \in Agent, NEW row \in Row \cup NoRow,
             agents' = [agents EXCEPT ![a] = row],
             row \in NoRow /\ issued' = issued
      PROVE  AgentsOK'
  BY <1>2, RowsOnly DEF AgentsOK, HasAgent
<1>3. ASSUME NEW a \in Agent, NEW row \in Row,
             agents' = [agents EXCEPT ![a] = row], HasAgent(a),
             row.key = agents[a].key, issued' = issued
      PROVE  AgentsOK'
  BY <1>3, RowsOnly DEF AgentsOK, HasAgent
<1>4. ASSUME NEW a \in Agent, NEW row \in Row,
             agents' = [agents EXCEPT ![a] = row],
             row.key \in Key \ issued, issued' = issued \cup {row.key}
      PROVE  AgentsOK'
  BY <1>4, RowsOnly DEF AgentsOK, HasAgent
<1>. QED  BY <1>1, <1>2, <1>3, <1>4, StatementEffect

(* No statement gives out a key again.                                     *)
LEMMA StatementKeys ==
  ASSUME AgentsOK, Statement
  PROVE  \A k \in issued : Opens(k)' \subseteq Opens(k)
<1>. SUFFICES ASSUME NEW k \in issued, NEW b \in Agent, HasAgent(b)', agents'[b].key = k
              PROVE  HasAgent(b) /\ agents[b].key = k
  BY DEF Opens
<1>1. CASE UNCHANGED <<agents, issued>>
  BY <1>1 DEF HasAgent
<1>2. ASSUME NEW a \in Agent, NEW row \in Row \cup NoRow,
             agents' = [agents EXCEPT ![a] = row],
             \/ row \in NoRow
             \/ HasAgent(a) /\ row \in Row /\ row.key = agents[a].key
             \/ row \in Row /\ row.key \in Key \ issued
      PROVE  HasAgent(b) /\ agents[b].key = k
  BY <1>2 DEF AgentsOK, HasAgent
<1>. QED  BY <1>1, <1>2, StatementEffect

(* The agents that are in no team, or in another one, in the new table.    *)
Moved(old, new) ==
  {a \in Agent : old[a] \notin NoRow /\ (new[a] \in NoRow \/ new[a].team # old[a].team)}

LEMMA MovedAgentsAre ==
  MovedAgents = {<<"agent", a>> : a \in Moved(agents, agents')}
BY DEF MovedAgents, Moved, HasAgent

(* What a request relies on stays fresh when the agents that others moved, *)
(* and the users whose teams they changed, are marked.                     *)
LEMMA FreshStable ==
  ASSUME NEW q, NEW T, NEW N, NEW ts, NEW new_ts, NEW table, NEW new,
         Fresh(ts, table, q, T), T \subseteq N,
         \A a \in Moved(table, new) : <<"agent", a>> \in N,
         ts[q.user] # new_ts[q.user] => <<"user", q.user>> \in N
  PROVE  Fresh(new_ts, new, q, N)
<1>1. CallerFresh(new_ts, q, N)
  BY DEF Fresh, CallerFresh
<1>2. AgentFresh(new, q, N)
  BY DEF Fresh, AgentFresh, Moved
<1>. QED  BY <1>1, <1>2 DEF Fresh

-----------------------------------------------------------------------------
LEMMA InitInv == Init => IInv
<1>. SUFFICES ASSUME Init PROVE IInv
  OBVIOUS
<1>1. \A r \in Request : ~ InFlight(r)
  BY DEF Init, Idle, InFlight
<1>2. TypeOK
  BY RowsOnly DEF Init, TypeOK, HasAgent
<1>. QED  BY <1>1, <1>2 DEF IInv

(* The marks that a step of request r leaves on the others.                *)
LEMMA TouchTypes ==
  ASSUME NEW r \in Request \cup {None}, NEW marks \in SUBSET Mark,
         touched \in [Request -> SUBSET Mark], Touch(r, marks)
  PROVE  /\ touched' \in [Request -> SUBSET Mark]
         /\ \A s \in Request : InFlight(s) /\ s # r => touched'[s] = touched[s] \cup marks
BY DEF Touch

LEMMA MarkTypes ==
  /\ MovedAgents \in SUBSET Mark
  /\ \A u \in User : {<<"user", u>>} \in SUBSET Mark
BY DEF MovedAgents, Mark

(* A step in which the requests other than r stand still.                  *)
LEMMA OthersFresh ==
  ASSUME IInv, NEW r \in Request \cup {None}, NEW marks \in SUBSET Mark, Touch(r, marks),
         \A a \in Moved(agents, agents') : <<"agent", a>> \in marks,
         \A u \in User : teams[u] # teams'[u] => <<"user", u>> \in marks,
         NEW s \in Request, s # r, req'[s] = req[s], InFlight(s)
  PROVE  Fresh(teams', agents', req'[s], touched'[s])
<1>1. Fresh(teams, agents, req[s], touched[s])
  BY DEF IInv
<1>2. touched'[s] = touched[s] \cup marks
  BY TouchTypes DEF IInv, TypeOK
<1>3. req[s].user \in User
  BY DEF IInv, TypeOK, InFlight, Job, Idle, Done
<1>. QED  BY <1>1, <1>2, <1>3, FreshStable

(* Nothing but the requests changes, and the one that does holds q now.    *)
LEMMA AdvanceInv ==
  ASSUME IInv, NEW r \in Request, NEW q \in Job, Advance(r, q),
         Fresh(teams, agents, q, touched[r])
  PROVE  IInv'
<1>1. TypeOK'
  BY DEF IInv, TypeOK, Advance, HasAgent
<1>2. ASSUME NEW s \in Request, InFlight(s)'
      PROVE  Fresh(teams, agents, req[s], touched[s])'
  <2>1. CASE s = r
    BY <2>1 DEF Advance, IInv, TypeOK
  <2>2. CASE s # r
    BY <1>2, <2>2 DEF Advance, IInv, TypeOK, InFlight
  <2>. QED  BY <2>1, <2>2
<1>. QED  BY <1>1, <1>2 DEF IInv

LEMMA BeginCreateInv ==
  ASSUME IInv, NEW r \in Request, NEW u \in User, NEW team \in Team, BeginCreate(r, u, team)
  PROVE  IInv'
<1>. DEFINE q == [pc |-> "write", op |-> "create", user |-> u, teams |-> teams[u],
                  agent |-> None, team |-> team, existing |-> None]
<1>1. q \in Job
  BY DEF IInv, TypeOK, Job, Op
<1>2. Fresh(teams, agents, q, touched[r])
  BY DEF BeginCreate, Fresh, CallerFresh, AgentFresh
<1>3. Advance(r, q)
  BY DEF BeginCreate
<1>. HIDE DEF q
<1>. QED  BY <1>1, <1>2, <1>3, AdvanceInv

LEMMA BeginInv ==
  ASSUME IInv, NEW r \in Request, NEW u \in User, NEW op \in Op \ {"create"},
         NEW a \in Agent, NEW team \in Team \cup {None}, Begin(r, u, op, a, team)
  PROVE  IInv'
<1>. DEFINE q == [pc |-> "load", op |-> op, user |-> u, teams |-> teams[u],
                  agent |-> a, team |-> team, existing |-> None]
<1>1. q \in Job
  BY DEF IInv, TypeOK, Job, Op
<1>2. Fresh(teams, agents, q, touched[r])
  BY DEF Fresh, CallerFresh, AgentFresh
<1>3. Advance(r, q)
  BY DEF Begin
<1>. HIDE DEF q
<1>. QED  BY <1>1, <1>2, <1>3, AdvanceInv

(* The request r ends, perhaps with a statement; the others go on.         *)
LEMMA EndInv ==
  ASSUME IInv, NEW r \in Request, req' = [req EXCEPT ![r] = Done],
         Touch(r, MovedAgents), UNCHANGED teams, AgentsOK'
  PROVE  IInv'
<1>1. TypeOK'
  <2>1. touched' \in [Request -> SUBSET Mark]
    BY TouchTypes, MarkTypes DEF IInv, TypeOK
  <2>2. req' \in [Request -> Job \cup {Idle, Done}] /\ teams' \in [User -> SUBSET Team]
    BY DEF IInv, TypeOK
  <2>. QED  BY <2>1, <2>2 DEF TypeOK, AgentsOK
<1>2. ASSUME NEW s \in Request, InFlight(s)'
      PROVE  Fresh(teams, agents, req[s], touched[s])'
  <2>1. s # r /\ req'[s] = req[s] /\ InFlight(s)
    BY <1>2 DEF InFlight, Done, IInv, TypeOK
  <2>2. \A a \in Moved(agents, agents') : <<"agent", a>> \in MovedAgents
    BY MovedAgentsAre
  <2>. QED  BY <2>1, <2>2, MarkTypes, OthersFresh
<1>. QED  BY <1>1, <1>2 DEF IInv

LEMMA LoadInv ==
  ASSUME IInv, NEW r \in Request, Load(r)
  PROVE  IInv'
<1>. DEFINE q == req[r]
<1>0. q \in Job /\ q.pc = "load" /\ Fresh(teams, agents, q, touched[r])
  BY DEF IInv, TypeOK, Load, InFlight, Idle, Done
<1>1. CASE HasAgent(q.agent) /\ agents[q.agent].team \in q.teams
  <2>. DEFINE n == [q EXCEPT !.pc = "write", !.existing = agents[q.agent], !.team = None]
  <2>1. q.op # "create" /\ q.agent \in Agent
    BY <1>0 DEF Fresh, AgentFresh
  <2>2. agents[q.agent] \in Row
    BY <1>1, <2>1 DEF IInv, TypeOK, HasAgent
  <2>3. n \in Job /\ n.op = q.op /\ n.agent = q.agent /\ n.pc = "write" /\ n.team = None
        /\ n.teams = q.teams /\ n.user = q.user
    BY <1>0, <2>2 DEF Job
  <2>4. Advance(r, n)
    BY <1>1 DEF Load
  <2>. HIDE DEF n
  <2>5. Fresh(teams, agents, n, touched[r])
    BY <1>0, <1>1, <2>1, <2>3 DEF Fresh, CallerFresh, AgentFresh, HasAgent
  <2>. QED  BY <2>3, <2>4, <2>5, AdvanceInv
<1>2. CASE ~ (HasAgent(q.agent) /\ agents[q.agent].team \in q.teams)
  <2>1. req' = [req EXCEPT ![r] = Done] /\ Touch(r, {}) /\ UNCHANGED <<teams, agents, issued>>
    BY <1>2 DEF Load
  <2>2. MovedAgents = {}
    BY <2>1 DEF MovedAgents, HasAgent
  <2>3. AgentsOK'
    BY <2>1 DEF IInv, TypeOK, AgentsOK, HasAgent
  <2>. QED  BY <2>1, <2>2, <2>3, EndInv
<1>. QED  BY <1>1, <1>2

(* The statement that a write sends.                                       *)
LEMMA WriteStatement ==
  ASSUME IInv, NEW r \in Request, Write(r)
  PROVE  Statement
<1>0. req[r] \in Job /\ req[r].pc = "write" /\ AgentFresh(agents, req[r], touched[r])
  BY DEF IInv, TypeOK, Write, InFlight, Idle, Done, Fresh
<1>1. CASE req[r].op = "create"
  <2>1. req[r].team \in Team
    BY <1>0, <1>1 DEF AgentFresh, Job
  <2>. QED  BY <1>1, <2>1 DEF Write, Statement
<1>2. CASE req[r].op # "create"
  <2>1. req[r].agent \in Agent /\ req[r].team \in Team \cup {None}
        /\ req[r].op \in {"update", "delete", "regenerate"}
    BY <1>0, <1>2 DEF AgentFresh, Job, Op
  <2>. QED  BY <1>2, <2>1 DEF Write, Statement
<1>. QED  BY <1>1, <1>2

LEMMA WriteInv ==
  ASSUME IInv, NEW r \in Request, Write(r)
  PROVE  IInv'
<1>1. AgentsOK'
  BY WriteStatement, StatementTypes DEF IInv, TypeOK, AgentsOK
<1>. QED  BY <1>1, EndInv DEF Write

LEMMA AdminStatement == Admin => Statement
BY DEF Admin, Statement

(* None is no request: a step of nobody's marks every request.             *)
LEMMA WorldInv ==
  ASSUME IInv, NEW marks \in SUBSET Mark, Touch(None, marks), UNCHANGED req, AgentsOK',
         teams' \in [User -> SUBSET Team],
         \A a \in Moved(agents, agents') : <<"agent", a>> \in marks,
         \A u \in User : teams[u] # teams'[u] => <<"user", u>> \in marks
  PROVE  IInv'
<1>1. TypeOK'
  <2>1. touched' \in [Request -> SUBSET Mark]
    BY TouchTypes DEF IInv, TypeOK
  <2>. QED  BY <2>1 DEF IInv, TypeOK, AgentsOK
<1>2. ASSUME NEW s \in Request, InFlight(s)'
      PROVE  Fresh(teams, agents, req[s], touched[s])'
  BY <1>2, OthersFresh, NoneAssumption DEF InFlight
<1>. QED  BY <1>1, <1>2 DEF IInv

LEMMA AdminInv ==
  ASSUME IInv, Admin
  PROVE  IInv'
<1>1. AgentsOK'
  BY AdminStatement, StatementTypes DEF IInv, TypeOK, AgentsOK
<1>2. \A a \in Moved(agents, agents') : <<"agent", a>> \in MovedAgents
  BY MovedAgentsAre
<1>3. UNCHANGED <<teams, req>> /\ Touch(None, MovedAgents)
  BY DEF Admin
<1>4. teams' \in [User -> SUBSET Team] /\ \A u \in User : teams[u] = teams'[u]
  BY <1>3 DEF IInv, TypeOK
<1>. QED  BY <1>1, <1>2, <1>3, <1>4, MarkTypes, WorldInv

LEMMA SetTeamsInv ==
  ASSUME IInv, NEW u \in User, NEW ts \in SUBSET Team, SetTeams(u, ts)
  PROVE  IInv'
<1>. DEFINE marks == IF ts = teams[u] THEN {} ELSE {<<"user", u>>}
<1>1. marks \in SUBSET Mark
  BY MarkTypes
<1>2. Touch(None, marks) /\ UNCHANGED req /\ UNCHANGED <<agents, issued>>
      /\ teams' = [teams EXCEPT ![u] = ts]
  BY DEF SetTeams
<1>3. AgentsOK'
  BY <1>2 DEF IInv, TypeOK, AgentsOK, HasAgent
<1>4. /\ teams' \in [User -> SUBSET Team]
      /\ \A v \in User : teams[v] # teams'[v] => <<"user", v>> \in marks
  BY <1>2 DEF IInv, TypeOK
<1>5. Moved(agents, agents') = {}
  BY <1>2 DEF Moved
<1>. HIDE DEF marks
<1>. QED  BY <1>1, <1>2, <1>3, <1>4, <1>5, WorldInv

LEMMA NextInv == IInv /\ [Next]_vars => IInv'
<1>. SUFFICES ASSUME IInv, [Next]_vars PROVE IInv'
  OBVIOUS
<1>1. ASSUME NEW r \in Request, NEW u \in User, NEW team \in Team, BeginCreate(r, u, team)
      PROVE  IInv'
  BY <1>1, BeginCreateInv
<1>2. ASSUME NEW r \in Request, NEW u \in User, NEW op \in Op \ {"create"}, NEW a \in Agent,
             NEW team \in Team \cup {None}, Begin(r, u, op, a, team)
      PROVE  IInv'
  BY <1>2, BeginInv
<1>3. ASSUME NEW r \in Request, Load(r) PROVE IInv'
  BY <1>3, LoadInv
<1>4. ASSUME NEW r \in Request, Write(r) PROVE IInv'
  BY <1>4, WriteInv
<1>5. CASE Admin
  BY <1>5, AdminInv
<1>6. ASSUME NEW u \in User, NEW ts \in SUBSET Team, SetTeams(u, ts) PROVE IInv'
  BY <1>6, SetTeamsInv
<1>7. CASE UNCHANGED vars
  <2>1. IInv' <=> IInv
    BY <1>7 DEF vars, IInv, TypeOK, HasAgent, InFlight, Fresh, CallerFresh, AgentFresh
  <2>. QED  BY <2>1
<1>. QED  BY <1>1, <1>2, <1>3, <1>4, <1>5, <1>6, <1>7 DEF Next

(* What members' requests have read is fresh or touched, always.           *)
THEOREM Safety == Spec => []IInv
BY InitInv, NextInv, PTL DEF Spec

(* The types of the tables and of what requests hold; no two agents share  *)
(* a key (TypeOK).                                                         *)
THEOREM TypeCorrect == Spec => []TypeOK
<1>1. IInv => TypeOK
  BY DEF IInv
<1>. QED  BY <1>1, Safety, PTL

-----------------------------------------------------------------------------
(* A statement of the store is the only thing that changes the tables.     *)
LEMMA OnlyStatements ==
  ASSUME IInv, [Next]_vars
  PROVE  Statement \/ UNCHANGED <<agents, issued>>
BY WriteStatement, AdminStatement DEF Next, BeginCreate, Begin, Load, Advance, SetTeams, vars

(* No request, however late it writes, brings a replaced or a deleted key  *)
(* back (NoKeyRevives).                                                    *)
THEOREM KeysStayDead == Spec => NoKeyRevives
<1>1. IInv /\ [Next]_vars => [\A k \in issued : Opens(k)' \subseteq Opens(k)]_vars
  <2>. SUFFICES ASSUME IInv, [Next]_vars
                PROVE  \A k \in issued : Opens(k)' \subseteq Opens(k)
    OBVIOUS
  <2>1. CASE Statement
    BY <2>1, StatementKeys DEF IInv, TypeOK, AgentsOK
  <2>2. CASE UNCHANGED <<agents, issued>>
    BY <2>2 DEF Opens, HasAgent
  <2>. QED  BY <2>1, <2>2, OnlyStatements
<1>. QED  BY <1>1, Safety, PTL DEF Spec, NoKeyRevives

-----------------------------------------------------------------------------
(* What OwnAgentsOnly says of the write of r, and an agent a.              *)
OwnAgent(r, a) ==
  LET q == req[r] IN
  /\ HasAgent(a) => agents'[a] \in NoRow \/ agents'[a].team = agents[a].team
  /\ \/ HasAgent(a) /\ agents[a].team \in teams[q.user]
     \/ HasAgent(a)' /\ agents'[a].team \in teams[q.user]
     \/ {<<"agent", a>>, <<"user", q.user>>} \cap touched[r] # {}

(* Only the step Write ends a request that is at its write.                *)
LEMMA WritesIsWrite ==
  ASSUME IInv, Next, NEW r \in Request, Writes(r)
  PROVE  Write(r)
<1>1. req[r].pc = "write" /\ req'[r].pc = "done"
  BY DEF Writes
<1>2. \A s \in Request : Write(s) => s = r
  BY <1>1 DEF Write, IInv, TypeOK
<1>3. \A s \in Request, u \in User, team \in Team : ~ BeginCreate(s, u, team)
  BY <1>1 DEF BeginCreate, Advance, Idle, IInv, TypeOK
<1>4. \A s \in Request, u \in User, op \in Op, a \in Agent, team \in Team \cup {None} :
        ~ Begin(s, u, op, a, team)
  BY <1>1 DEF Begin, Advance, Idle, IInv, TypeOK
<1>5. \A s \in Request : ~ Load(s)
  <2>. SUFFICES ASSUME NEW s \in Request, Load(s) PROVE FALSE
    OBVIOUS
  <2>1. s # r
    BY <1>1 DEF Load
  <2>2. \E x : req' = [req EXCEPT ![s] = x]
    BY DEF Load, Advance
  <2>. QED  BY <1>1, <2>1, <2>2 DEF IInv, TypeOK
<1>6. ~ Admin /\ \A u \in User, ts \in SUBSET Team : ~ SetTeams(u, ts)
  BY <1>1 DEF Admin, SetTeams
<1>. QED  BY <1>2, <1>3, <1>4, <1>5, <1>6 DEF Next

LEMMA WriteOwn ==
  ASSUME IInv, NEW r \in Request, Write(r), NEW a \in Agent,
         a = req[r].agent \/ agents'[a] # agents[a]
  PROVE  OwnAgent(r, a)
<1>. DEFINE q == req[r]
<1>0. /\ q \in Job /\ q.pc = "write" /\ agents \in [Agent -> Row \cup NoRow]
      /\ CallerFresh(teams, q, touched[r]) /\ AgentFresh(agents, q, touched[r])
  BY DEF IInv, TypeOK, Write, InFlight, Idle, Done, Fresh
<1>1. CASE q.op = "create"
  <2>1. Create(q.team) /\ q.team \in Team /\ q.team \in q.teams /\ q.agent = None
    BY <1>0, <1>1 DEF Write, AgentFresh, Job
  <2>2. PICK b \in Agent, k \in Key \ issued :
          agents[b] = Unborn /\ agents' = [agents EXCEPT ![b] = [team |-> q.team, key |-> k]]
    BY <2>1 DEF Create
  <2>3. a = b
    BY <1>0, <2>1, <2>2, NoneAssumption
  <2>4. ~ HasAgent(a) /\ HasAgent(a)' /\ agents'[a].team = q.team
    BY <1>0, <2>1, <2>2, <2>3, RowIntro, RowsOnly DEF HasAgent
  <2>. QED  BY <1>0, <2>1, <2>4 DEF OwnAgent, CallerFresh
<1>2. CASE q.op # "create"
  <2>1. /\ q.agent \in Agent /\ q.team = None
        /\ \/ HasAgent(q.agent) /\ agents[q.agent].team \in q.teams
           \/ <<"agent", q.agent>> \in touched[r]
        /\ q.op \in {"update", "delete", "regenerate"}
    BY <1>0, <1>2 DEF AgentFresh, HasAgent, Job, Op
  <2>2. /\ \A b \in Agent : b # q.agent => agents'[b] = agents[b]
        /\ HasAgent(q.agent) => \/ agents'[q.agent] \in NoRow
                                \/ agents'[q.agent].team = agents[q.agent].team
    <3>1. CASE q.op = "update"
      BY <2>1, <3>1 DEF Write, Update
    <3>2. CASE q.op = "delete"
      BY <1>0, <2>1, <3>2, RowsOnly DEF Write, Delete
    <3>3. CASE q.op = "regenerate" /\ HasAgent(q.agent)
      <4>1. PICK k \in Key : agents' = [agents EXCEPT ![q.agent] = [agents[q.agent] EXCEPT !.key = k]]
        BY <3>3 DEF Write, RegenerateKey
      <4>2. agents[q.agent] \in Row
        BY <1>0, <2>1, <3>3 DEF HasAgent
      <4>. QED  BY <1>0, <2>1, <4>1, <4>2, RowKey
    <3>4. CASE q.op = "regenerate" /\ ~ HasAgent(q.agent)
      BY <3>4 DEF Write, RegenerateKey
    <3>. QED  BY <2>1, <3>1, <3>2, <3>3, <3>4
  <2>3. a = q.agent
    BY <2>2
  <2>. QED  BY <1>0, <2>1, <2>2, <2>3 DEF OwnAgent, CallerFresh
<1>. QED  BY <1>1, <1>2

(* A member's request touches only agents of the caller's teams, and moves *)
(* none, whatever others do while it is under way (OwnAgentsOnly).         *)
THEOREM OwnAgentsHolds == Spec => OwnAgentsOnly
<1>. DEFINE Own == \A r \in Request, a \in Agent :
       Writes(r) /\ (a = req[r].agent \/ agents'[a] # agents[a]) => OwnAgent(r, a)
<1>1. IInv /\ [Next]_vars => [Own]_vars
  <2>. SUFFICES ASSUME IInv, Next, NEW r \in Request, NEW a \in Agent, Writes(r),
                       a = req[r].agent \/ agents'[a] # agents[a]
                PROVE  OwnAgent(r, a)
    OBVIOUS
  <2>1. Write(r)
    BY WritesIsWrite
  <2>. QED  BY <2>1, WriteOwn
<1>2. [Own]_vars =>
      [\A r \in Request, a \in Agent :
       LET q == req[r] IN
       Writes(r) /\ (a = q.agent \/ agents'[a] # agents[a]) =>
         /\ HasAgent(a) => agents'[a] \in NoRow \/ agents'[a].team = agents[a].team
         /\ \/ HasAgent(a) /\ agents[a].team \in teams[q.user]
            \/ HasAgent(a)' /\ agents'[a].team \in teams[q.user]
            \/ {<<"agent", a>>, <<"user", q.user>>} \cap touched[r] # {}]_vars
  BY DEF OwnAgent
<1>. QED  BY <1>1, <1>2, Safety, PTL DEF Spec, OwnAgentsOnly
=============================================================================
