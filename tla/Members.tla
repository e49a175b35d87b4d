------------------------------ MODULE Members ------------------------------
(***************************************************************************)
(* Users, their teams and the requests that change them                    *)
(* (internal/api/users_handler.go, internal/api/teams_handler.go,          *)
(* internal/user/store.go, the session middleware of internal/auth).       *)
(*                                                                         *)
(* A user is one row.  Its memberships are ONE JSON column, read and       *)
(* written as a whole, and no handler uses a transaction: what a request   *)
(* read may be out of date when it writes.  A request is authenticated     *)
(* once, against the rows of that moment, and then works in up to three    *)
(* steps: load the target, list all the users to count a team's            *)
(* administrators, write.  A request refused on the way, or whose statement *)
(* fails, changes nothing; one refused before its first read of the target *)
(* never begins here.  (A write whose answer is lost is a write.)          *)
(***************************************************************************)
EXTENDS Naturals, Sequences, FiniteSets

CONSTANTS
  User,       \* user ids
  Team,       \* team names; a team exists as far as a row names it
  Request,    \* HTTP requests; each is served once
  NoRow,      \* no user has this id
  Keep,       \* "this field is not in the request body"
  Org,        \* names the organisation-wide role among a user's facts
  Lists,      \* the membership lists an administrator may send
  Start       \* the contents of the users table the model starts from

TeamRole == {"admin", "member"}
Role == {"org_admin", "member"}

(* A list of memberships, by what it says of each team, in the order of its *)
(* entries.  Administrators' lists are stored as they come, a team named   *)
(* more than once included, and no handler looks across teams.  (Nothing   *)
(* validates their roles either; one that is not "admin" is "member" here.)*)
List == [Team -> Seq(TeamRole)]
NoTeams == [t \in Team |-> <<>>]
Row == [role : Role, teams : List]

ASSUME NoRowAssumption == NoRow \notin Row
ASSUME KeepAssumption == Keep \notin Role \cup TeamRole /\ Keep \notin List
ASSUME OrgAssumption == Org \notin Team
ASSUME ListsAssumption == Lists \subseteq List
ASSUME StartAssumption == Start \subseteq [User -> Row \cup {NoRow}]

VARIABLES
  users,      \* the users table: user -> row, or NoRow
  req,        \* request -> what its goroutine holds
  touched     \* history: request -> the facts others changed since it began

vars == <<users, req, touched>>

-----------------------------------------------------------------------------
(* Reading a table.                                                        *)

Exists(table, u) == table[u] # NoRow
Entries(table, u, t) == IF Exists(table, u) THEN table[u].teams[t] ELSE <<>>
RolesOf(entries) == {entries[i] : i \in DOMAIN entries}
RolesIn(table, u, t) == RolesOf(Entries(table, u, t))
OrgRole(table, u) == IF Exists(table, u) THEN table[u].role ELSE Keep
IsOrgAdmin(table, u) == OrgRole(table, u) = "org_admin"

(* CanManageTeam: an organisation admin, or an admin of the team.          *)
CanManage(table, u, t) == IsOrgAdmin(table, u) \/ "admin" \in RolesIn(table, u, t)

Admins(table, t) == {u \in User : "admin" \in RolesIn(table, u, t)}

(* What RemoveTeamMember counts: entries, not users.                       *)
AdminEntries(table, t) ==
  UNION {{<<u, i>> : i \in {j \in DOMAIN Entries(table, u, t) : Entries(table, u, t)[j] = "admin"}}
         : u \in User}

(* A fact is a user's standing in a team, or in the organisation.          *)
Fact == User \X (Team \cup {Org})
Value(table, f) ==
  IF f[2] = Org THEN <<OrgRole(table, f[1])>> ELSE Entries(table, f[1], f[2])
Changed(old, new) == {f \in Fact : Value(old, f) # Value(new, f)}

-----------------------------------------------------------------------------
(* What a request holds: the administrator handlers (create, update,       *)
(* delete) carry the list and the role of their body, the team handlers    *)
(* (add, remove) a team and a role in it; "list" is what will be written,  *)
(* "losing" the teams whose administrators must be counted first.          *)

Op == {"create", "update", "delete", "add", "remove"}
TeamOp == {"add", "remove"}
Job == [pc : {"load", "count", "write"}, op : Op, caller : User, target : User,
        team : Team \cup {Org}, role : TeamRole \cup Role \cup {Keep},
        list : List \cup {Keep}, losing : SUBSET Team]
Idle == [pc |-> "idle"]
Done == [pc |-> "done"]
InFlight(r) == req[r].pc \in {"load", "count", "write"}

TypeOK ==
  /\ users \in [User -> Row \cup {NoRow}]
  /\ req \in [Request -> Job \cup {Idle, Done}]
  /\ touched \in [Request -> SUBSET Fact]

Init ==
  /\ users \in Start
  /\ req = [r \in Request |-> Idle]
  /\ touched = [r \in Request |-> {}]

Advance(r, job) == req' = [req EXCEPT ![r] = job] /\ UNCHANGED <<users, touched>>

(* The request is answered without having changed the table.               *)
End(r) ==
  /\ req' = [req EXCEPT ![r] = Done]
  /\ touched' = [touched EXCEPT ![r] = {}]
  /\ UNCHANGED users

(* GetByID, List or the write itself fails: most handlers answer 500.      *)
Fail(r) == InFlight(r) /\ End(r)

-----------------------------------------------------------------------------
(* AdminSessionMiddleware, then an administrator handler up to its first   *)
(* database call.  An update without a list goes straight to its write.    *)
BeginAdmin(r, c, op, u, list, role) ==
  /\ req[r] = Idle
  /\ IsOrgAdmin(users, c)
  /\ op = "create" => list # Keep /\ role # Keep
  /\ op = "update" => list # Keep \/ role # Keep
  /\ op = "delete" => list = Keep /\ role = Keep
  /\ Advance(r, [pc |-> IF op = "create" \/ (op = "update" /\ list = Keep)
                        THEN "write" ELSE "load",
                 op |-> op, caller |-> c, target |-> u, team |-> Org,
                 role |-> role, list |-> list, losing |-> {}])

\* Mutant: any signed-in member may manage any team.
BeginTeamUnasked(r, c, op, u, t, role) ==
  /\ req[r] = Idle
  /\ Exists(users, c)
  /\ op = "remove" => role = Keep
  /\ op = "add" => role # Keep
  /\ Advance(r, [pc |-> "load", op |-> op, caller |-> c, target |-> u, team |-> t,
                 role |-> role, list |-> Keep, losing |-> {}])

(* MemberAuthMiddleware, then AddTeamMember or RemoveTeamMember: whether   *)
(* the caller manages the team is read off the row of the session lookup.  *)
BeginTeam(r, c, op, u, t, role) ==
  /\ req[r] = Idle
  /\ Exists(users, c)
  /\ CanManage(users, c, t)
  /\ op = "remove" => role = Keep
  /\ op = "add" => role # Keep
  /\ Advance(r, [pc |-> "load", op |-> op, caller |-> c, target |-> u, team |-> t,
                 role |-> role, list |-> Keep, losing |-> {}])

(* The teams a user administers that a new list would take from it.        *)
Losing(table, u, list) ==
  {t \in Team : "admin" \in RolesIn(table, u, t) /\ "admin" \notin RolesOf(list[t])}

\* Mutant: the new membership replaces the list that was read.
LoadAddOnly(r) ==
  LET q == req[r] IN
  /\ q.pc = "load" /\ q.op = "add"
  /\ IF \/ ~ Exists(users, q.target)
        \/ IsOrgAdmin(users, q.target)
        \/ Entries(users, q.target, q.team) # <<>>
     THEN End(r)
     ELSE Advance(r, [q EXCEPT !.pc = "write", !.list = [NoTeams EXCEPT ![q.team] = <<q.role>>]])

(* AddTeamMember after GetByID: refuse a missing user, an organisation     *)
(* admin and a member of the team, else append to the list that was read.  *)
LoadAdd(r) ==
  LET q == req[r] IN
  /\ q.pc = "load" /\ q.op = "add"
  /\ IF \/ ~ Exists(users, q.target)
        \/ IsOrgAdmin(users, q.target)
        \/ Entries(users, q.target, q.team) # <<>>
     THEN End(r)
     ELSE Advance(r, [q EXCEPT
            !.pc = "write",
            !.list = [users[q.target].teams EXCEPT ![q.team] = <<q.role>>]])

(* RemoveTeamMember after GetByID: the list without the team.  The first   *)
(* entry of the team gives the role that is removed, and removing an       *)
(* administrator asks for the count first.                                 *)
LoadRemove(r) ==
  LET q == req[r]
      entries == Entries(users, q.target, q.team)
      losing == IF Head(entries) = "admin" THEN {q.team} ELSE {} IN
  /\ q.pc = "load" /\ q.op = "remove"
  /\ IF entries = <<>>
     THEN End(r)
     ELSE Advance(r, [q EXCEPT
            !.pc = IF losing = {} THEN "write" ELSE "count",
            !.list = [users[q.target].teams EXCEPT ![q.team] = <<>>],
            !.losing = losing])

(* UpdateUser and DeleteUser after GetByID: checkLastTeamAdmin looks for   *)
(* the teams the user stops administering; none, and nobody is counted.    *)
LoadAdmin(r) ==
  LET q == req[r]
      losing == Losing(users, q.target, IF q.op = "delete" THEN NoTeams ELSE q.list) IN
  /\ q.pc = "load" /\ q.op \in {"update", "delete"}
  /\ IF ~ Exists(users, q.target)
     THEN End(r)
     ELSE Advance(r, [q EXCEPT !.pc = IF losing = {} THEN "write" ELSE "count",
                               !.losing = losing])

\* Mutant: one administrator, the target itself, is enough.
CountRemoveAny(r) ==
  LET q == req[r] IN
  /\ q.pc = "count" /\ q.op = "remove"
  /\ IF Cardinality(AdminEntries(users, q.team)) < 1
     THEN End(r)
     ELSE Advance(r, [q EXCEPT !.pc = "write"])

(* The count over List: RemoveTeamMember wants two entries, those of the   *)
(* target included; checkLastTeamAdmin skips the target.                   *)
CountRemove(r) ==
  LET q == req[r] IN
  /\ q.pc = "count" /\ q.op = "remove"
  /\ IF Cardinality(AdminEntries(users, q.team)) <= 1
     THEN End(r)
     ELSE Advance(r, [q EXCEPT !.pc = "write"])

CountAdmin(r) ==
  LET q == req[r] IN
  /\ q.pc = "count" /\ q.op \in {"update", "delete"}
  /\ IF \E t \in q.losing : Admins(users, t) \ {q.target} = {}
     THEN End(r)
     ELSE Advance(r, [q EXCEPT !.pc = "write"])

-----------------------------------------------------------------------------
\* Mutant: a role that the body leaves out is written all the same.
WrittenWithRole(table, q) ==
  CASE q.op = "create" ->
         IF Exists(table, q.target) THEN table[q.target]
         ELSE [role |-> q.role, teams |-> q.list]
    [] q.op = "delete" -> NoRow
    [] OTHER ->
         IF ~ Exists(table, q.target) THEN NoRow
         ELSE [role |-> IF q.op = "update" THEN q.role ELSE table[q.target].role,
               teams |-> IF q.list # Keep THEN q.list ELSE table[q.target].teams]

(* The row a write leaves.  Update is a partial UPDATE by id that finds    *)
(* the row or answers not found; Create fails on the unique email; Delete  *)
(* succeeds either way.                                                    *)
Written(table, q) ==
  CASE q.op = "create" ->
         IF Exists(table, q.target) THEN table[q.target]
         ELSE [role |-> q.role, teams |-> q.list]
    [] q.op = "delete" -> NoRow
    [] OTHER ->
         IF ~ Exists(table, q.target) THEN NoRow
         ELSE [role |-> IF q.op = "update" /\ q.role # Keep
                        THEN q.role ELSE table[q.target].role,
               teams |-> IF q.list # Keep THEN q.list ELSE table[q.target].teams]

After(table, q) == [table EXCEPT ![q.target] = Written(table, q)]

Write(r) ==
  /\ req[r].pc = "write"
  /\ users' = After(users, req[r])
  /\ req' = [req EXCEPT ![r] = Done]
  /\ touched' = [s \in Request |->
                   IF InFlight(s) /\ s # r
                   THEN touched[s] \cup Changed(users, After(users, req[r]))
                   ELSE {}]

Next ==
  \E r \in Request :
    \/ \E c, u \in User :
         \/ \E op \in Op \ TeamOp, list \in Lists \cup {Keep}, role \in Role \cup {Keep} :
              BeginAdmin(r, c, op, u, list, role)
         \/ \E op \in TeamOp, t \in Team, role \in TeamRole \cup {Keep} :
              BeginTeam(r, c, op, u, t, role)
    \/ LoadAdd(r) \/ LoadRemove(r) \/ LoadAdmin(r)
    \/ CountRemove(r) \/ CountAdmin(r)
    \/ Write(r) \/ Fail(r)

Spec == Init /\ [][Next]_vars

-----------------------------------------------------------------------------
(* The step in which request r writes, or fails to.                        *)
Writes(r) == req[r].pc = "write" /\ req'[r].pc = "done"

(* No step leaves a team that has an administrator without one: what       *)
(* checkLastTeamAdmin and RemoveTeamMember's count are there for           *)
(* (users_handler.go:23-26, teams_handler.go:265).  It is refuted.         *)
TeamKeepsAdmin ==
  [][\A t \in Team : Admins(users, t) # {} => Admins(users', t) # {}]_vars

(* What does hold: a team loses its last administrator only to a request   *)
(* that another one overtook in that very team (somebody's standing in it  *)
(* changed between the request's beginning and its write), or to the       *)
(* removal of a user whose list names the team more than once, of which    *)
(* RemoveTeamMember sees the first entry's role and counts every entry.    *)
(* Unrelated requests do not spoil the counts, and checkLastTeamAdmin is   *)
(* right about every list for a request that is not overtaken.             *)
LastAdminGuarded ==
  [][\A t \in Team :
       Admins(users, t) # {} /\ Admins(users', t) = {}
         => \E r \in Request :
              /\ Writes(r)
              /\ \/ \E u \in User : <<u, t>> \in touched[r]
                 \/ /\ req[r].op = "remove" /\ req[r].team = t
                    /\ Len(Entries(users, req[r].target, t)) > 1]_vars

(* Adding or removing a member writes the whole list, yet it changes no    *)
(* other membership than the one asked for, except to undo one that was    *)
(* changed while the request was under way; and it never changes another   *)
(* user or an organisation role.                                           *)
OnlyAskedMembership ==
  [][\A r \in Request :
       Writes(r) /\ req[r].op \in TeamOp
         => \A f \in Changed(users, users') :
              /\ f[1] = req[r].target
              /\ f[2] = req[r].team \/ f \in touched[r]]_vars

(* Whoever changes the table may do so at that moment, or lost the         *)
(* authority after the request had been authenticated.                     *)
WriterHasAuthority ==
  [][\A r \in Request :
       Writes(r) =>
         \/ IsOrgAdmin(users, req[r].caller)
         \/ req[r].op \in TeamOp /\ CanManage(users, req[r].caller, req[r].team)
         \/ {<<req[r].caller, Org>>, <<req[r].caller, req[r].team>>} \cap touched[r] # {}]_vars
=============================================================================
