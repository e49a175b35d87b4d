--------------------------- MODULE MembersProofs ---------------------------
(***************************************************************************)
(* What a request under way may still rely on, for any number of users,    *)
(* teams and overlapping requests: every fact it read is as it was, or is  *)
(* among the facts the others changed meanwhile.  That is the inductive    *)
(* invariant; the three properties of Members follow from it at the write. *)
(***************************************************************************)
EXTENDS Members, FiniteSetTheorems, TLAPS

Table == [User -> Row \cup {NoRow}]

(* The memberships a write by q would leave the target with.               *)
NewList(q) == IF q.op = "delete" THEN NoTeams ELSE q.list
SetsList(q) == q.op # "create" /\ ~ (q.op = "update" /\ q.list = Keep)

(* The removal from t of a user whose list names t more than once.         *)
NamedAgain(table, q, t) ==
  q.op = "remove" /\ q.team = t /\ Len(Entries(table, q.target, t)) > 1

(* The caller's authority, read when the request was authenticated.        *)
AuthorityFresh(table, q, T) ==
  \/ IsOrgAdmin(table, q.caller)
  \/ q.op \in TeamOp /\ CanManage(table, q.caller, q.team)
  \/ {<<q.caller, Org>>, <<q.caller, q.team>>} \cap T # {}

(* The target's other memberships, copied into the list to be written.     *)
ListFresh(table, q, T) ==
  q.op \in TeamOp /\ q.pc # "load" =>
    /\ q.list \in List
    /\ \A t \in Team \ {q.team} :
         <<q.target, t>> \notin T =>
           Entries(table, q.target, t) = q.list[t]

(* Every administration the write takes away was found to be one.          *)
LosingFresh(table, q, T) ==
  SetsList(q) /\ q.pc # "load" =>
    \A t \in Team :
      /\ "admin" \in RolesIn(table, q.target, t)
      /\ "admin" \notin RolesOf(NewList(q)[t])
      /\ <<q.target, t>> \notin T
      => t \in q.losing \/ NamedAgain(table, q, t)

(* ... and a team found to lose one had another administrator.             *)
CountFresh(table, q, T) ==
  q.pc = "write" =>
    \A t \in q.losing :
      \/ Admins(table, t) \ {q.target} # {}
      \/ NamedAgain(table, q, t)
      \/ \E u \in User : <<u, t>> \in T

Fresh(table, q, T) ==
  /\ AuthorityFresh(table, q, T)
  /\ ListFresh(table, q, T)
  /\ LosingFresh(table, q, T)
  /\ CountFresh(table, q, T)

(* Which fields a handler has filled by the time it is at a step.          *)
Shape(q) ==
  /\ q.op = "create" => q.pc = "write" /\ q.list # Keep /\ q.role \in Role
  /\ q.op = "update" => q.role \in Role \cup {Keep} /\ (q.list = Keep => q.pc = "write")
  /\ q.op \in TeamOp => q.team \in Team /\ (q.pc # "load" => q.list # Keep)
  /\ q.op = "add" => q.role \in TeamRole
  /\ q.pc = "load" => q.losing = {}
  /\ q.op = "remove" => q.losing \subseteq {q.team}

IInv ==
  /\ TypeOK
  /\ \A r \in Request :
       InFlight(r) => Shape(req[r]) /\ Fresh(users, req[r], touched[r])

-----------------------------------------------------------------------------
LEMMA EntriesType ==
  ASSUME NEW table \in Table, NEW u \in User, NEW t \in Team
  PROVE  Entries(table, u, t) \in Seq(TeamRole)
<1>1. ASSUME Exists(table, u) PROVE table[u].teams[t] \in Seq(TeamRole)
  BY <1>1 DEF Table, Exists, Row, List
<1>. QED  BY <1>1 DEF Entries

LEMMA UnchangedEntries ==
  ASSUME NEW old \in Table, NEW new \in Table, NEW u \in User, NEW t \in Team,
         <<u, t>> \notin Changed(old, new)
  PROVE  Entries(old, u, t) = Entries(new, u, t)
<1>1. <<u, t>> \in Fact
  BY DEF Fact
<1>2. <<u, t>>[2] # Org /\ <<u, t>>[1] = u /\ <<u, t>>[2] = t
  BY OrgAssumption
<1>. QED  BY <1>1, <1>2 DEF Changed, Value

LEMMA UnchangedOrgRole ==
  ASSUME NEW old \in Table, NEW new \in Table, NEW u \in User,
         <<u, Org>> \notin Changed(old, new)
  PROVE  OrgRole(old, u) = OrgRole(new, u)
<1>1. <<u, Org>> \in Fact
  BY DEF Fact
<1>2. <<OrgRole(old, u)>> = <<OrgRole(new, u)>>
  BY <1>1 DEF Changed, Value
<1>. QED  BY <1>2

(* A request stays fresh when the facts a write changes are added to what  *)
(* it knows was touched.                                                   *)
LEMMA FreshStable ==
  ASSUME NEW old \in Table, NEW new \in Table, NEW q \in Job, NEW T,
         Shape(q), Fresh(old, q, T)
  PROVE  Fresh(new, q, T \cup Changed(old, new))
<1>. DEFINE N == T \cup Changed(old, new)
<1>0. q.caller \in User /\ q.target \in User /\ q.team \in Team \cup {Org} /\ q.losing \subseteq Team
  BY DEF Job
<1>a. \A u \in User, t \in Team : <<u, t>> \notin N =>
        Entries(old, u, t) = Entries(new, u, t) /\ <<u, t>> \notin T
  BY UnchangedEntries
<1>b. \A u \in User : <<u, Org>> \notin N =>
        OrgRole(old, u) = OrgRole(new, u) /\ <<u, Org>> \notin T
  BY UnchangedOrgRole
<1>. HIDE DEF N
<1>1. AuthorityFresh(new, q, N)
  <2>1. CASE <<q.caller, Org>> \in N
    BY <2>1 DEF AuthorityFresh
  <2>2. CASE <<q.caller, q.team>> \in N
    BY <2>2 DEF AuthorityFresh
  <2>3. CASE <<q.caller, Org>> \notin N /\ <<q.caller, q.team>> \notin N
    <3>1. OrgRole(old, q.caller) = OrgRole(new, q.caller) /\ <<q.caller, Org>> \notin T
      BY <1>0, <1>b, <2>3
    <3>2. q.op \in TeamOp => /\ q.team \in Team
                             /\ Entries(old, q.caller, q.team) = Entries(new, q.caller, q.team)
                             /\ <<q.caller, q.team>> \notin T
      BY <1>0, <1>a, <2>3 DEF Shape
    <3>3. <<q.caller, q.team>> \notin T
      BY <2>3 DEF N
    <3>. QED  BY <3>1, <3>2, <3>3 DEF Fresh, AuthorityFresh, IsOrgAdmin, CanManage, RolesIn
  <2>. QED  BY <2>1, <2>2, <2>3
<1>2. ListFresh(new, q, N)
  BY <1>0, <1>a DEF Fresh, ListFresh
<1>3. LosingFresh(new, q, N)
  BY <1>0, <1>a DEF Fresh, LosingFresh, RolesIn, NamedAgain
<1>4. CountFresh(new, q, N)
  <2>1. SUFFICES ASSUME q.pc = "write", NEW t \in q.losing,
                        \A u \in User : <<u, t>> \notin N
                 PROVE  Admins(new, t) \ {q.target} # {} \/ NamedAgain(new, q, t)
    BY DEF CountFresh
  <2>2. t \in Team
    BY <1>0
  <2>3. \A u \in User : Entries(old, u, t) = Entries(new, u, t) /\ <<u, t>> \notin T
    BY <1>a, <2>1, <2>2
  <2>4. Admins(old, t) \ {q.target} # {} \/ NamedAgain(old, q, t)
    BY <2>1, <2>3 DEF Fresh, CountFresh
  <2>. QED  BY <1>0, <2>3, <2>4 DEF Admins, RolesIn, NamedAgain
<1>. QED  BY <1>1, <1>2, <1>3, <1>4 DEF Fresh, N

-----------------------------------------------------------------------------
LEMMA RowOfTable ==
  ASSUME NEW table \in Table, NEW u \in User, Exists(table, u)
  PROVE  /\ table[u] \in Row
         /\ table[u].role \in Role
         /\ table[u].teams \in List
  BY DEF Table, Exists, Row

LEMMA RowIntro ==
  ASSUME NEW x \in Role, NEW y \in List
  PROVE  [role |-> x, teams |-> y] \in Row
  BY DEF Row

LEMMA AfterType ==
  ASSUME NEW table \in Table, NEW q \in Job, q.pc = "write", Shape(q)
  PROVE  After(table, q) \in Table
<1>. /\ q.op = "create" => q.list # Keep /\ q.role \in Role
     /\ q.op = "update" => q.role \in Role \cup {Keep}
     /\ q.op \in TeamOp => q.list # Keep
  BY DEF Shape
<1>1. q.target \in User /\ q.list \in (List) \cup {Keep} /\ q.op \in Op
  BY DEF Job
<1>2. SUFFICES Written(table, q) \in Row \cup {NoRow}
  BY <1>1 DEF After, Table
<1>3. CASE q.op = "create"
  <2>1. CASE Exists(table, q.target)
    BY <1>1, <1>3, <2>1, RowOfTable DEF Written
  <2>2. CASE ~ Exists(table, q.target)
    <3>1. Written(table, q) = [role |-> q.role, teams |-> q.list]
      BY <1>3, <2>2 DEF Written
    <3>2. q.role \in Role /\ q.list \in List
      BY <1>1, <1>3
    <3>. QED  BY <3>1, <3>2, RowIntro
  <2>. QED  BY <2>1, <2>2
<1>4. CASE q.op = "delete"
  BY <1>4 DEF Written
<1>5. CASE q.op \notin {"create", "delete"} /\ ~ Exists(table, q.target)
  BY <1>5 DEF Written
<1>6. CASE q.op \notin {"create", "delete"} /\ Exists(table, q.target)
  <2>1. table[q.target].role \in Role /\ table[q.target].teams \in List
    BY <1>1, <1>6, RowOfTable
  <2>2. (IF q.op = "update" /\ q.role # Keep THEN q.role ELSE table[q.target].role) \in Role
    BY <2>1
  <2>3. (IF q.list # Keep THEN q.list ELSE table[q.target].teams) \in List
    BY <1>1, <2>1
  <2>4. Written(table, q) =
          [role |-> IF q.op = "update" /\ q.role # Keep THEN q.role ELSE table[q.target].role,
           teams |-> IF q.list # Keep THEN q.list ELSE table[q.target].teams]
    BY <1>6 DEF Written
  <2>. QED  BY <2>2, <2>3, <2>4, RowIntro
<1>. QED  BY <1>3, <1>4, <1>5, <1>6

-----------------------------------------------------------------------------
(* A write leaves every row but the target's as it was.                    *)
LEMMA AfterElsewhere ==
  ASSUME NEW table \in Table, NEW q \in Job, NEW u \in User, u # q.target
  PROVE  /\ \A t : Entries(After(table, q), u, t) = Entries(table, u, t)
         /\ \A t : RolesIn(After(table, q), u, t) = RolesIn(table, u, t)
         /\ OrgRole(After(table, q), u) = OrgRole(table, u)
<1>1. After(table, q)[u] = table[u]
  BY DEF After, Table
<1>. QED  BY <1>1 DEF Entries, RolesIn, OrgRole, Exists

LEMMA AfterTarget ==
  ASSUME NEW table \in Table, NEW q \in Job
  PROVE  After(table, q)[q.target] = Written(table, q)
<1>1. q.target \in User
  BY DEF Job
<1>. QED  BY <1>1 DEF After, Table

(* Where the row is there and the request sets the list, the list is the   *)
(* one the request holds.                                                  *)
LEMMA WrittenTeams ==
  ASSUME NEW table \in Table, NEW q \in Job, q.pc = "write", Shape(q),
         Exists(table, q.target)
  PROVE  /\ q.op = "delete" => Written(table, q) = NoRow
         /\ q.op # "delete" => /\ Written(table, q) # NoRow
                               /\ Written(table, q).teams =
                                    IF SetsList(q) THEN q.list ELSE table[q.target].teams
         /\ q.op \in TeamOp => Written(table, q).role = table[q.target].role
<1>0. q.target \in User /\ q.op \in Op
  BY DEF Job
<1>1. After(table, q)[q.target] = Written(table, q) /\ After(table, q) \in Table
  BY AfterTarget, AfterType
<1>2. CASE q.op = "create"
  <2>1. Written(table, q) = table[q.target]
    BY <1>2 DEF Written
  <2>. QED  BY <1>2, <2>1 DEF Exists, SetsList, TeamOp
<1>3. CASE q.op = "delete"
  BY <1>3 DEF Written, TeamOp
<1>4. CASE q.op \notin {"create", "delete"}
  <2>. DEFINE x == IF q.op = "update" /\ q.role # Keep THEN q.role ELSE table[q.target].role
              y == IF q.list # Keep THEN q.list ELSE table[q.target].teams
  <2>1. Written(table, q) = [role |-> x, teams |-> y]
    BY <1>4 DEF Written
  <2>2. /\ x \in Role /\ y \in List
    <3>1. table[q.target].role \in Role /\ table[q.target].teams \in List
      BY <1>0, RowOfTable
    <3>. QED  BY <3>1 DEF Shape, Job
  <2>3. Written(table, q) # NoRow
    BY <2>1, <2>2, RowIntro, NoRowAssumption
  <2>4. Written(table, q).teams = y /\ Written(table, q).role = x
    BY <2>1
  <2>5. q.op \in TeamOp => q.list # Keep
    BY DEF Shape
  <2>. QED  BY <1>0, <1>4, <2>3, <2>4, <2>5 DEF SetsList, TeamOp, Op
<1>. QED  BY <1>2, <1>3, <1>4

LEMMA WriteKeepsAdmins ==
  ASSUME NEW table \in Table, NEW q \in Job, NEW T, NEW t \in Team,
         q.pc = "write", Shape(q), Fresh(table, q, T),
         Admins(table, t) # {}, Admins(After(table, q), t) = {}
  PROVE  (\E u \in User : <<u, t>> \in T) \/ NamedAgain(table, q, t)
<1>. DEFINE new == After(table, q)
<1>0. q.target \in User /\ q.op \in Op /\ q.losing \subseteq Team
  BY DEF Job
<1>1. PICK u \in User : "admin" \in RolesIn(table, u, t)
  BY DEF Admins
<1>2. \A v \in User : "admin" \notin RolesIn(new, v, t)
  BY DEF Admins
<1>3. u = q.target
  BY <1>1, <1>2, AfterElsewhere
<1>4. Exists(table, q.target) /\ "admin" \in RolesOf(table[q.target].teams[t])
  BY <1>1, <1>3 DEF RolesIn, Entries, RolesOf
<1>5. ~ (Exists(new, q.target) /\ "admin" \in RolesOf(new[q.target].teams[t]))
  BY <1>0, <1>2 DEF RolesIn, Entries
<1>6. new[q.target] = Written(table, q)
  BY AfterTarget
<1>. HIDE DEF new
<1>7. SetsList(q) /\ "admin" \notin RolesOf(NewList(q)[t])
  <2>1. CASE q.op = "delete"
    <3>1. RolesOf(NoTeams[t]) = {}
      BY DEF NoTeams, RolesOf
    <3>. QED  BY <2>1, <3>1 DEF NewList, SetsList
  <2>2. CASE q.op # "delete"
    BY <1>4, <1>5, <1>6, <2>2, WrittenTeams DEF Exists, NewList, SetsList
  <2>. QED  BY <2>1, <2>2
<1>8. SUFFICES ASSUME <<q.target, t>> \notin T
               PROVE  (\E v \in User : <<v, t>> \in T) \/ NamedAgain(table, q, t)
  BY <1>0
<1>9. t \in q.losing \/ NamedAgain(table, q, t)
  BY <1>1, <1>3, <1>7, <1>8 DEF Fresh, LosingFresh
<1>10. CASE Admins(table, t) \ {q.target} # {}
  <2>1. PICK v \in User : v # q.target /\ "admin" \in RolesIn(table, v, t)
    BY <1>10 DEF Admins
  <2>2. "admin" \in RolesIn(new, v, t)
    BY <2>1, AfterElsewhere DEF new
  <2>. QED  BY <1>2, <2>2
<1>. QED  BY <1>9, <1>10 DEF Fresh, CountFresh

LEMMA WriteKeepsOthers ==
  ASSUME NEW table \in Table, NEW q \in Job, NEW T,
         q.pc = "write", Shape(q), Fresh(table, q, T), q.op \in TeamOp,
         NEW f \in Changed(table, After(table, q))
  PROVE  f[1] = q.target /\ (f[2] = q.team \/ f \in T)
<1>. DEFINE new == After(table, q)
<1>0. q.target \in User /\ q.op \in Op /\ q.op # "delete" /\ q.op # "create" /\ SetsList(q)
  BY DEF Job, TeamOp, SetsList
<1>1. PICK u \in User, t \in Team \cup {Org} : f = <<u, t>>
  BY DEF Changed, Fact
<1>2. Value(table, <<u, t>>) # Value(new, <<u, t>>)
  BY <1>1 DEF Changed
<1>3. CASE t = Org
  <2>1. OrgRole(table, u) # OrgRole(new, u)
    BY <1>2, <1>3 DEF Value
  <2>2. u = q.target
    BY <2>1, AfterElsewhere
  <2>3. new[q.target] = Written(table, q)
    BY AfterTarget
  <2>4. CASE Exists(table, q.target)
    BY <1>0, <2>1, <2>2, <2>3, <2>4, WrittenTeams DEF OrgRole, Exists
  <2>5. CASE ~ Exists(table, q.target)
    <3>1. Written(table, q) = NoRow
      BY <1>0, <2>5 DEF Written
    <3>. QED  BY <2>1, <2>2, <2>3, <2>5, <3>1 DEF OrgRole, Exists
  <2>. QED  BY <2>4, <2>5
<1>4. CASE t \in Team
  <2>1. Entries(table, u, t) # Entries(new, u, t)
    BY <1>2, <1>4, OrgAssumption DEF Value
  <2>2. u = q.target
    BY <2>1, AfterElsewhere
  <2>3. new[q.target] = Written(table, q)
    BY AfterTarget
  <2>4. Exists(table, q.target)
    <3>1. SUFFICES ASSUME ~ Exists(table, q.target) PROVE FALSE
      OBVIOUS
    <3>2. Written(table, q) = NoRow
      BY <1>0, <3>1 DEF Written
    <3>. QED  BY <2>1, <2>2, <2>3, <3>1, <3>2 DEF Entries, Exists
  <2>5. Entries(new, u, t) = q.list[t]
    BY <1>0, <2>2, <2>3, <2>4, WrittenTeams DEF Entries, Exists
  <2>6. t = q.team \/ <<u, t>> \in T
    BY <1>4, <2>1, <2>2, <2>5 DEF Fresh, ListFresh
  <2>. QED  BY <1>1, <2>2, <2>6
<1>. QED  BY <1>3, <1>4
-----------------------------------------------------------------------------
LEMMA InitInv == Init => IInv
<1>1. ASSUME Init PROVE users \in Table
  BY <1>1, StartAssumption DEF Init, Table
<1>. QED  BY <1>1 DEF Init, IInv, TypeOK, Idle, InFlight, Table

(* A step that only moves request r on: it is enough to look at r.         *)
LEMMA OneRequest ==
  ASSUME IInv, NEW r \in Request, NEW x \in Job \cup {Done},
         req' = [req EXCEPT ![r] = x], UNCHANGED users,
         touched' = touched \/ (x = Done /\ touched' = [touched EXCEPT ![r] = {}]),
         x \in Job => Shape(x) /\ Fresh(users, x, touched[r])
  PROVE  IInv'
<1>1. TypeOK'
  BY DEF IInv, TypeOK
<1>2. ASSUME NEW s \in Request, InFlight(s)'
      PROVE  Shape(req'[s]) /\ Fresh(users', req'[s], touched'[s])
  <2>1. CASE s = r
    <3>1. req'[s] = x
      BY <2>1 DEF IInv, TypeOK
    <3>2. x # Done
      BY <3>1, <1>2 DEF InFlight, Done
    <3>. QED  BY <2>1, <3>1, <3>2
  <2>2. CASE s # r
    <3>1. touched'[s] = touched[s]
      BY <2>2 DEF IInv, TypeOK
    <3>. QED  BY <1>2, <2>2, <3>1 DEF IInv, TypeOK, InFlight
  <2>. QED  BY <2>1, <2>2
<1>3. \A s \in Request : InFlight(s)' =>
        Shape(req'[s]) /\ Fresh(users', req'[s], touched'[s])
  BY <1>2
<1>. QED  BY <1>1, <1>3 DEF IInv, InFlight

(* What a request at a step of its own may count on.                       *)
LEMMA Working ==
  ASSUME IInv, NEW r \in Request, InFlight(r)
  PROVE  /\ req[r] \in Job /\ users \in Table
         /\ Shape(req[r]) /\ Fresh(users, req[r], touched[r])
<1>1. req[r] \notin {Idle, Done}
  BY DEF InFlight, Idle, Done
<1>. QED  BY <1>1 DEF IInv, TypeOK, Table

LEMMA EndInv ==
  ASSUME IInv, NEW r \in Request, End(r)
  PROVE  IInv'
<1>1. Done \notin Job
  BY DEF Done, Job
<1>. QED  BY <1>1, OneRequest DEF End

LEMMA AdvanceInv ==
  ASSUME IInv, NEW r \in Request, NEW x \in Job, Advance(r, x),
         Shape(x), Fresh(users, x, touched[r])
  PROVE  IInv'
BY OneRequest DEF Advance

LEMMA BeginAdminInv ==
  ASSUME IInv, NEW r \in Request, NEW c \in User, NEW u \in User,
         NEW op \in Op \ TeamOp, NEW list \in Lists \cup {Keep},
         NEW role \in Role \cup {Keep}, BeginAdmin(r, c, op, u, list, role)
  PROVE  IInv'
<1>. DEFINE x == [pc |-> IF op = "create" \/ (op = "update" /\ list = Keep)
                         THEN "write" ELSE "load",
                  op |-> op, caller |-> c, target |-> u, team |-> Org,
                  role |-> role, list |-> list, losing |-> {}]
<1>1. x \in Job
  BY ListsAssumption DEF Job
<1>2. Shape(x)
  BY DEF Shape, BeginAdmin, TeamOp
<1>3. Fresh(users, x, touched[r])
  BY DEF Fresh, BeginAdmin, AuthorityFresh, ListFresh, LosingFresh, CountFresh, SetsList
<1>4. Advance(r, x)
  BY DEF BeginAdmin
<1>. HIDE DEF x
<1>. QED  BY <1>1, <1>2, <1>3, <1>4, AdvanceInv

LEMMA BeginTeamInv ==
  ASSUME IInv, NEW r \in Request, NEW c \in User, NEW u \in User,
         NEW op \in TeamOp, NEW t \in Team, NEW role \in TeamRole \cup {Keep},
         BeginTeam(r, c, op, u, t, role)
  PROVE  IInv'
<1>. DEFINE x == [pc |-> "load", op |-> op, caller |-> c, target |-> u, team |-> t,
                  role |-> role, list |-> Keep, losing |-> {}]
<1>1. x \in Job
  BY DEF Job, Op, TeamOp
<1>2. Shape(x)
  BY DEF Shape, BeginTeam, TeamOp
<1>3. Fresh(users, x, touched[r])
  BY DEF Fresh, BeginTeam, AuthorityFresh, ListFresh, LosingFresh, CountFresh
<1>4. Advance(r, x)
  BY DEF BeginTeam
<1>. HIDE DEF x
<1>. QED  BY <1>1, <1>2, <1>3, <1>4, AdvanceInv

LEMMA LoadAddInv ==
  ASSUME IInv, NEW r \in Request, LoadAdd(r)
  PROVE  IInv'
<1>. DEFINE q == req[r]
            x == [q EXCEPT !.pc = "write",
                           !.list = [users[q.target].teams EXCEPT ![q.team] = <<q.role>>]]
<1>0. /\ q \in Job /\ users \in Table
      /\ Shape(q) /\ Fresh(users, q, touched[r])
      /\ q.pc = "load" /\ q.op = "add"
  BY Working DEF LoadAdd, InFlight
<1>1. CASE End(r)
  BY <1>1, EndInv
<1>2. CASE /\ Exists(users, q.target) /\ Entries(users, q.target, q.team) = <<>>
           /\ Advance(r, x)
  <2>1. /\ q.target \in User /\ q.team \in Team /\ q.role \in TeamRole /\ q.losing = {}
        /\ users[q.target].teams \in List
    BY <1>0, <1>2, RowOfTable DEF Job, Shape, TeamOp
  <2>2. <<q.role>> \in Seq(TeamRole)
    BY <2>1
  <2>. DEFINE l == [users[q.target].teams EXCEPT ![q.team] = <<q.role>>]
  <2>3. l \in List
    BY <2>1, <2>2 DEF List
  <2>4. l # Keep
    BY <2>3, KeepAssumption
  <2>5. /\ x.pc = "write" /\ x.list = l /\ x.op = "add" /\ x.caller = q.caller
        /\ x.target = q.target /\ x.team = q.team /\ x.role = q.role /\ x.losing = {}
    BY <1>0, <2>1 DEF Job
  <2>6. x \in Job
    BY <1>0, <2>3 DEF Job
  <2>7. \A t \in Team \ {q.team} : Entries(users, q.target, t) = l[t]
    BY <1>2, <2>1 DEF Entries, List
  <2>8. ASSUME NEW t \in Team, "admin" \in RolesIn(users, q.target, t)
        PROVE  "admin" \in RolesOf(l[t])
    <3>1. t # q.team
      BY <1>2, <2>8 DEF RolesIn, RolesOf
    <3>. QED  BY <2>7, <2>8, <3>1 DEF RolesIn
  <2>. HIDE DEF x, l
  <2>9. Shape(x)
    BY <2>1, <2>4, <2>5 DEF Shape, TeamOp
  <2>10. Fresh(users, x, touched[r])
    <3>1. AuthorityFresh(users, x, touched[r])
      BY <1>0, <2>5 DEF Fresh, AuthorityFresh
    <3>2. ListFresh(users, x, touched[r])
      BY <2>3, <2>5, <2>7 DEF ListFresh
    <3>3. LosingFresh(users, x, touched[r])
      BY <2>5, <2>8 DEF LosingFresh, NewList
    <3>4. CountFresh(users, x, touched[r])
      BY <2>5 DEF CountFresh
    <3>. QED  BY <3>1, <3>2, <3>3, <3>4 DEF Fresh
  <2>. QED  BY <1>2, <2>6, <2>9, <2>10, AdvanceInv
<1>. QED  BY <1>1, <1>2 DEF LoadAdd

LEMMA LoadRemoveInv ==
  ASSUME IInv, NEW r \in Request, LoadRemove(r)
  PROVE  IInv'
<1>. DEFINE q == req[r]
            entries == Entries(users, q.target, q.team)
            losing == IF Head(entries) = "admin" THEN {q.team} ELSE {}
            l == [users[q.target].teams EXCEPT ![q.team] = <<>>]
            x == [q EXCEPT !.pc = IF losing = {} THEN "write" ELSE "count",
                           !.list = l,
                           !.losing = losing]
<1>0. /\ q \in Job /\ users \in Table
      /\ Shape(q) /\ Fresh(users, q, touched[r])
      /\ q.pc = "load" /\ q.op = "remove"
  BY Working DEF LoadRemove, InFlight
<1>1. CASE End(r)
  BY <1>1, EndInv
<1>2. CASE entries # <<>> /\ Advance(r, x)
  <2>1. Exists(users, q.target)
    BY <1>2 DEF Entries
  <2>2. /\ q.target \in User /\ q.team \in Team
        /\ users[q.target].teams \in List
    BY <1>0, <2>1, RowOfTable DEF Job, Shape, TeamOp
  <2>3. l \in List /\ l # Keep
    <3>1. <<>> \in Seq(TeamRole)
      OBVIOUS
    <3>2. l \in List
      BY <2>2, <3>1 DEF List
    <3>. QED  BY <3>2, KeepAssumption
  <2>4. /\ x.pc \in {"count", "write"} /\ x.list = l /\ x.op = "remove"
        /\ x.caller = q.caller /\ x.target = q.target /\ x.team = q.team
        /\ x.losing = losing /\ losing \subseteq {q.team}
        /\ x.pc = "write" => x.losing = {}
    BY <1>0 DEF Job
  <2>5. x \in Job
    BY <1>0, <2>2, <2>3, <2>4 DEF Job
  <2>6. \A t \in Team \ {q.team} : Entries(users, q.target, t) = l[t]
    BY <2>1, <2>2 DEF Entries, List
  <2>7. ASSUME NEW t \in Team, "admin" \in RolesIn(users, q.target, t),
               "admin" \notin RolesOf(l[t])
        PROVE  t \in x.losing \/ NamedAgain(users, x, t)
    <3>1. t = q.team
      BY <2>6, <2>7 DEF RolesIn
    <3>2. entries \in Seq(TeamRole) /\ entries # <<>>
      BY <1>0, <1>2, <2>2, EntriesType
    <3>3. PICK i \in DOMAIN entries : entries[i] = "admin"
      BY <2>7, <3>1 DEF RolesIn, RolesOf
    <3>4. CASE i = 1
      <4>1. Head(entries) = "admin"
        <5>. HIDE DEF entries
        <5>. QED  BY <3>2, <3>3, <3>4
      <4>. QED  BY <2>4, <3>1, <4>1
    <3>5. CASE i # 1
      <4>1. Len(entries) > 1
        <5>. HIDE DEF entries
        <5>. QED  BY <3>2, <3>3, <3>5
      <4>. QED  BY <2>4, <3>1, <4>1 DEF NamedAgain
    <3>. QED  BY <3>4, <3>5
  <2>. HIDE DEF x, l, losing
  <2>8. Shape(x)
    BY <2>2, <2>3, <2>4 DEF Shape, TeamOp
  <2>9. Fresh(users, x, touched[r])
    <3>1. AuthorityFresh(users, x, touched[r])
      BY <1>0, <2>4 DEF Fresh, AuthorityFresh
    <3>2. ListFresh(users, x, touched[r])
      BY <2>3, <2>4, <2>6 DEF ListFresh
    <3>3. LosingFresh(users, x, touched[r])
      BY <2>4, <2>7 DEF LosingFresh, NewList
    <3>4. CountFresh(users, x, touched[r])
      BY <2>4 DEF CountFresh
    <3>. QED  BY <3>1, <3>2, <3>3, <3>4 DEF Fresh
  <2>. QED  BY <1>2, <2>5, <2>8, <2>9, AdvanceInv
<1>. QED  BY <1>1, <1>2 DEF LoadRemove

LEMMA LoadAdminInv ==
  ASSUME IInv, NEW r \in Request, LoadAdmin(r)
  PROVE  IInv'
<1>. DEFINE q == req[r]
            losing == Losing(users, q.target, IF q.op = "delete" THEN NoTeams ELSE q.list)
            x == [q EXCEPT !.pc = IF losing = {} THEN "write" ELSE "count",
                           !.losing = losing]
<1>0. /\ q \in Job /\ users \in Table
      /\ Shape(q) /\ Fresh(users, q, touched[r])
      /\ q.pc = "load" /\ q.op \in {"update", "delete"}
  BY Working DEF LoadAdmin, InFlight
<1>1. CASE End(r)
  BY <1>1, EndInv
<1>2. CASE Advance(r, x)
  <2>1. losing \subseteq Team
    BY DEF Losing
  <2>2. /\ x.pc \in {"count", "write"} /\ x.list = q.list /\ x.op = q.op
        /\ x.caller = q.caller /\ x.target = q.target /\ x.team = q.team
        /\ x.role = q.role /\ x.losing = losing
        /\ x.pc = "write" => x.losing = {}
    BY <1>0 DEF Job
  <2>3. x \in Job
    BY <1>0, <2>1 DEF Job
  <2>4. \A t \in Team :
          "admin" \in RolesIn(users, q.target, t) /\ "admin" \notin RolesOf(NewList(q)[t])
            => t \in losing
    BY DEF Losing, NewList
  <2>5. NewList(x) = NewList(q)
    BY <2>2 DEF NewList
  <2>. HIDE DEF x, losing
  <2>6. Shape(x)
    BY <1>0, <2>2 DEF Shape, TeamOp
  <2>7. Fresh(users, x, touched[r])
    <3>1. AuthorityFresh(users, x, touched[r])
      BY <1>0, <2>2 DEF Fresh, AuthorityFresh
    <3>2. ListFresh(users, x, touched[r])
      BY <1>0, <2>2 DEF ListFresh, TeamOp
    <3>3. LosingFresh(users, x, touched[r])
      BY <2>2, <2>4, <2>5 DEF LosingFresh
    <3>4. CountFresh(users, x, touched[r])
      BY <2>2 DEF CountFresh
    <3>. QED  BY <3>1, <3>2, <3>3, <3>4 DEF Fresh
  <2>. QED  BY <1>2, <2>3, <2>6, <2>7, AdvanceInv
<1>. QED  BY <1>1, <1>2 DEF LoadAdmin

(* A request that passed its count goes on to write with what it held.     *)
LEMMA CountedInv ==
  ASSUME IInv, NEW r \in Request, req[r].pc = "count",
         Advance(r, [req[r] EXCEPT !.pc = "write"]),
         \A t \in req[r].losing :
           Admins(users, t) \ {req[r].target} # {} \/ NamedAgain(users, req[r], t)
  PROVE  IInv'
<1>. DEFINE q == req[r]
            x == [q EXCEPT !.pc = "write"]
<1>0. /\ q \in Job /\ users \in Table
      /\ Shape(q) /\ Fresh(users, q, touched[r])
  BY Working DEF InFlight
<1>1. /\ x.pc = "write" /\ x.list = q.list /\ x.op = q.op
      /\ x.caller = q.caller /\ x.target = q.target /\ x.team = q.team
      /\ x.role = q.role /\ x.losing = q.losing /\ x \in Job
  BY <1>0 DEF Job
<1>2. NewList(x) = NewList(q) /\ (SetsList(x) <=> SetsList(q))
  BY <1>1 DEF NewList, SetsList
<1>3. /\ Advance(r, x)
      /\ \A t \in q.losing : Admins(users, t) \ {q.target} # {} \/ NamedAgain(users, x, t)
  BY <1>1 DEF NamedAgain
<1>. HIDE DEF x
<1>4. Shape(x)
  BY <1>0, <1>1 DEF Shape
<1>5. Fresh(users, x, touched[r])
  <2>1. AuthorityFresh(users, x, touched[r])
    BY <1>0, <1>1 DEF Fresh, AuthorityFresh
  <2>2. ListFresh(users, x, touched[r])
    BY <1>0, <1>1 DEF Fresh, ListFresh
  <2>3. LosingFresh(users, x, touched[r])
    BY <1>0, <1>1, <1>2 DEF Fresh, LosingFresh, NamedAgain
  <2>4. CountFresh(users, x, touched[r])
    BY <1>1, <1>3 DEF CountFresh
  <2>. QED  BY <2>1, <2>2, <2>3, <2>4 DEF Fresh
<1>. QED  BY <1>1, <1>3, <1>4, <1>5, AdvanceInv

LEMMA CountRemoveInv ==
  ASSUME IInv, NEW r \in Request, CountRemove(r)
  PROVE  IInv'
<1>. DEFINE q == req[r]
<1>1. CASE End(r)
  BY <1>1, EndInv
<1>2. CASE /\ ~ Cardinality(AdminEntries(users, q.team)) <= 1
           /\ Advance(r, [q EXCEPT !.pc = "write"])
  <2>1. /\ Shape(q) /\ q.pc = "count" /\ q.op = "remove" /\ users \in Table
        /\ q.target \in User /\ q.team \in Team
    BY Working DEF CountRemove, InFlight, Job, Shape, TeamOp
  <2>2. Admins(users, q.team) \ {q.target} # {} \/ NamedAgain(users, q, q.team)
    <3>. DEFINE entries == Entries(users, q.target, q.team)
    <3>1. SUFFICES ASSUME Admins(users, q.team) \ {q.target} = {}, ~ Len(entries) > 1
                   PROVE  FALSE
      BY <2>1 DEF NamedAgain
    <3>2. entries \in Seq(TeamRole)
      BY <2>1, EntriesType
    <3>3. DOMAIN entries \subseteq {1}
      <4>. HIDE DEF entries
      <4>. QED  BY <3>1, <3>2
    <3>4. ASSUME NEW e \in AdminEntries(users, q.team) PROVE e = <<q.target, 1>>
      <4>1. PICK u \in User :
              e \in {<<u, i>> : i \in {j \in DOMAIN Entries(users, u, q.team) :
                                        Entries(users, u, q.team)[j] = "admin"}}
        BY <3>4 DEF AdminEntries
      <4>2. PICK i \in DOMAIN Entries(users, u, q.team) :
              e = <<u, i>> /\ Entries(users, u, q.team)[i] = "admin"
        BY <4>1
      <4>3. u \in Admins(users, q.team)
        BY <4>2 DEF Admins, RolesIn, RolesOf
      <4>4. u = q.target
        BY <3>1, <4>3
      <4>. QED  BY <3>3, <4>2, <4>4
    <3>5. \/ AdminEntries(users, q.team) = {}
          \/ AdminEntries(users, q.team) = {<<q.target, 1>>}
      BY <3>4
    <3>. HIDE DEF q
    <3>6. Cardinality({}) = 0 /\ Cardinality({<<q.target, 1>>}) = 1
      BY FS_EmptySet, FS_Singleton
    <3>. QED  BY <1>2, <3>5, <3>6
  <2>3. \A t \in q.losing : t = q.team
    BY <2>1 DEF Shape
  <2>. QED  BY <1>2, <2>1, <2>2, <2>3, CountedInv
<1>. QED  BY <1>1, <1>2 DEF CountRemove

LEMMA CountAdminInv ==
  ASSUME IInv, NEW r \in Request, CountAdmin(r)
  PROVE  IInv'
BY EndInv, CountedInv DEF CountAdmin

LEMMA WriteInv ==
  ASSUME IInv, NEW r \in Request, Write(r)
  PROVE  IInv'
<1>. DEFINE q == req[r]
            new == After(users, q)
            delta == Changed(users, new)
<1>0. /\ q \in Job /\ users \in Table /\ q.pc = "write" /\ Shape(q)
  BY Working DEF Write, InFlight
<1>1. new \in Table
  BY <1>0, AfterType
<1>2. delta \in SUBSET Fact
  BY DEF Changed
<1>3. /\ users' = new /\ req' = [req EXCEPT ![r] = Done]
      /\ touched' = [s \in Request |->
                       IF InFlight(s) /\ s # r THEN touched[s] \cup delta ELSE {}]
  BY DEF Write
<1>. HIDE DEF new, delta
<1>4. TypeOK'
  <2>1. users' \in [User -> Row \cup {NoRow}]
    BY <1>1, <1>3 DEF Table
  <2>2. req' \in [Request -> Job \cup {Idle, Done}]
    BY <1>3 DEF IInv, TypeOK
  <2>3. touched \in [Request -> SUBSET Fact]
    BY DEF IInv, TypeOK
  <2>4. touched' \in [Request -> SUBSET Fact]
    BY <1>2, <1>3, <2>3
  <2>. QED  BY <2>1, <2>2, <2>4 DEF TypeOK
<1>5. ASSUME NEW s \in Request, InFlight(s)'
      PROVE  Shape(req'[s]) /\ Fresh(users', req'[s], touched'[s])
  <2>1. s # r
    BY <1>3, <1>5 DEF IInv, TypeOK, InFlight, Done
  <2>2. req'[s] = req[s] /\ InFlight(s)
    BY <1>3, <1>5, <2>1 DEF IInv, TypeOK, InFlight
  <2>3. touched'[s] = touched[s] \cup delta
    BY <1>3, <2>1, <2>2
  <2>4. /\ req[s] \in Job /\ Shape(req[s]) /\ Fresh(users, req[s], touched[s])
    BY <2>2, Working
  <2>5. Fresh(new, req[s], touched[s] \cup delta)
    BY <1>0, <1>1, <2>4, FreshStable DEF delta
  <2>. QED  BY <1>3, <2>2, <2>3, <2>4, <2>5
<1>6. \A s \in Request : InFlight(s)' =>
        Shape(req'[s]) /\ Fresh(users', req'[s], touched'[s])
  BY <1>5
<1>. QED  BY <1>4, <1>6 DEF IInv, InFlight

-----------------------------------------------------------------------------
LEMMA NextInv == IInv /\ [Next]_vars => IInv'
<1>. SUFFICES ASSUME IInv, [Next]_vars PROVE IInv'
  OBVIOUS
<1>1. CASE UNCHANGED vars
  BY <1>1 DEF vars, IInv, TypeOK, InFlight
<1>2. CASE Next
  <2>1. PICK r \in Request :
          \/ \E c, u \in User :
               \/ \E op \in Op \ TeamOp, list \in Lists \cup {Keep}, role \in Role \cup {Keep} :
                    BeginAdmin(r, c, op, u, list, role)
               \/ \E op \in TeamOp, t \in Team, role \in TeamRole \cup {Keep} :
                    BeginTeam(r, c, op, u, t, role)
          \/ LoadAdd(r) \/ LoadRemove(r) \/ LoadAdmin(r)
          \/ CountRemove(r) \/ CountAdmin(r) \/ Write(r) \/ Fail(r)
    BY <1>2 DEF Next
  <2>2. CASE Fail(r)
    BY <2>2, EndInv DEF Fail
  <2>. QED  BY <2>1, <2>2, BeginAdminInv, BeginTeamInv, LoadAddInv, LoadRemoveInv,
               LoadAdminInv, CountRemoveInv, CountAdminInv, WriteInv
<1>. QED  BY <1>1, <1>2

(* Whatever a request under way has read still holds or was touched.       *)
THEOREM Safety == Spec => []IInv
BY InitInv, NextInv, PTL DEF Spec

(* The table, the requests and what they know keep their types.            *)
THEOREM TypeCorrect == Spec => []TypeOK
<1>1. IInv => TypeOK
  BY DEF IInv
<1>. QED  BY Safety, <1>1, PTL

(* The table changes at a write only, and a request that goes from its     *)
(* write to done has written, or failed to and changed nothing.            *)
LEMMA OnlyWrites ==
  ASSUME IInv, Next
  PROVE  /\ users' # users => \E r \in Request : Write(r)
         /\ \A r \in Request : Writes(r) => Write(r) \/ users' = users
<1>1. PICK s \in Request :
        \/ \E c, u \in User :
             \/ \E op \in Op \ TeamOp, list \in Lists \cup {Keep}, role \in Role \cup {Keep} :
                  BeginAdmin(s, c, op, u, list, role)
             \/ \E op \in TeamOp, t \in Team, role \in TeamRole \cup {Keep} :
                  BeginTeam(s, c, op, u, t, role)
        \/ LoadAdd(s) \/ LoadRemove(s) \/ LoadAdmin(s)
        \/ CountRemove(s) \/ CountAdmin(s) \/ Write(s) \/ Fail(s)
  BY DEF Next
<1>2. CASE Write(s)
  <2>1. ASSUME NEW r \in Request, Writes(r) PROVE r = s
    BY <1>2, <2>1 DEF Write, Writes, IInv, TypeOK
  <2>. QED  BY <1>2, <2>1
<1>3. CASE ~ Write(s)
  <2>. QED  BY <1>1, <1>3 DEF BeginAdmin, BeginTeam, LoadAdd, LoadRemove, LoadAdmin, CountRemove,
                      CountAdmin, Fail, End, Advance
<1>. QED  BY <1>2, <1>3

(* A team loses its last administrator only to an overtaken request, or to *)
(* the removal of a user whose list names the team more than once.         *)
THEOREM LastAdminHolds == Spec => LastAdminGuarded
<1>. DEFINE Excused(t) ==
              \E r \in Request :
                /\ Writes(r)
                /\ \/ \E u \in User : <<u, t>> \in touched[r]
                   \/ /\ req[r].op = "remove" /\ req[r].team = t
                      /\ Len(Entries(users, req[r].target, t)) > 1
            A == \A t \in Team : Admins(users, t) # {} /\ Admins(users', t) = {} => Excused(t)
<1>1. ASSUME IInv, [Next]_vars PROVE [A]_vars
  <2>1. SUFFICES ASSUME Next, NEW t \in Team,
                        Admins(users, t) # {}, Admins(users', t) = {}
                 PROVE  Excused(t)
    BY <1>1
  <2>2. PICK r \in Request : Write(r)
    BY <1>1, <2>1, OnlyWrites
  <2>3. Writes(r)
    BY <1>1, <2>2 DEF Write, Writes, IInv, TypeOK, Done
  <2>4. /\ req[r] \in Job /\ users \in Table /\ req[r].pc = "write"
        /\ Shape(req[r]) /\ Fresh(users, req[r], touched[r])
    BY <1>1, <2>2, Working DEF Write, InFlight
  <2>5. Admins(After(users, req[r]), t) = {}
    BY <2>1, <2>2 DEF Write
  <2>6. (\E u \in User : <<u, t>> \in touched[r]) \/ NamedAgain(users, req[r], t)
    BY <2>1, <2>4, <2>5, WriteKeepsAdmins
  <2>. QED  BY <2>3, <2>6 DEF NamedAgain
<1>. QED  BY <1>1, Safety, PTL DEF Spec, LastAdminGuarded

(* A team request changes the membership it was asked to, and undoes only  *)
(* what was changed while it was under way.                                *)
THEOREM OnlyAskedHolds == Spec => OnlyAskedMembership
<1>. DEFINE A == \A r \in Request :
                   Writes(r) /\ req[r].op \in TeamOp
                     => \A f \in Changed(users, users') :
                          /\ f[1] = req[r].target
                          /\ f[2] = req[r].team \/ f \in touched[r]
<1>1. ASSUME IInv, [Next]_vars PROVE [A]_vars
  <2>1. SUFFICES ASSUME Next, NEW r \in Request, Writes(r), req[r].op \in TeamOp,
                        NEW f \in Changed(users, users')
                 PROVE  /\ f[1] = req[r].target
                        /\ f[2] = req[r].team \/ f \in touched[r]
    BY <1>1
  <2>2. Write(r)
    <3>1. users' # users
      BY <2>1 DEF Changed
    <3>. QED  BY <1>1, <2>1, <3>1, OnlyWrites
  <2>3. /\ req[r] \in Job /\ users \in Table /\ req[r].pc = "write"
        /\ Shape(req[r]) /\ Fresh(users, req[r], touched[r])
    BY <1>1, <2>2, Working DEF Write, InFlight
  <2>4. f \in Changed(users, After(users, req[r]))
    BY <2>1, <2>2 DEF Write
  <2>. QED  BY <2>1, <2>3, <2>4, WriteKeepsOthers
<1>. QED  BY <1>1, Safety, PTL DEF Spec, OnlyAskedMembership

(* Whoever writes may do so, or lost the authority after authentication.   *)
THEOREM AuthorityHolds == Spec => WriterHasAuthority
<1>. DEFINE A == \A r \in Request :
                   Writes(r) =>
                     \/ IsOrgAdmin(users, req[r].caller)
                     \/ req[r].op \in TeamOp /\ CanManage(users, req[r].caller, req[r].team)
                     \/ {<<req[r].caller, Org>>, <<req[r].caller, req[r].team>>}
                          \cap touched[r] # {}
<1>1. ASSUME IInv, [Next]_vars PROVE [A]_vars
  <2>1. SUFFICES ASSUME Next, NEW r \in Request, Writes(r)
                 PROVE  AuthorityFresh(users, req[r], touched[r])
    BY <1>1 DEF AuthorityFresh
  <2>2. InFlight(r)
    BY <2>1 DEF Writes, InFlight
  <2>. QED  BY <1>1, <2>2, Working DEF Fresh
<1>. QED  BY <1>1, Safety, PTL DEF Spec, WriterHasAuthority
=============================================================================
