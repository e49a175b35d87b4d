------------------------------ MODULE Sessions ------------------------------
(***************************************************************************)
(* Passwords and sessions (internal/api/auth_handler.go, ChangePassword of *)
(* internal/api/users_handler.go, internal/user/store.go, the member       *)
(* middleware of internal/auth, the session cleanup of cmd/octroi).        *)
(*                                                                         *)
(* Login and ChangePassword compare a password with a row they read, and   *)
(* write in a later statement; no transaction holds the row meanwhile.     *)
(* Administrators set passwords and delete users by single statements at   *)
(* any time (what their requests read before is in Members).               *)
(***************************************************************************)
EXTENDS Naturals

CONSTANTS
  User,           \* user ids; random, so a deleted one never returns
  Token,          \* session tokens; random, so one is drawn at most once
  Password,
  Request,        \* HTTP requests; each is served once
  Unborn, Gone,   \* an id that has no row: not inserted yet, deleted
  None,           \* "this request holds no such thing"
  Lifetime,       \* sessionDuration, in ticks of the clock
  MaxNow          \* bound on the clock

NoRow == {Unborn, Gone}
Session == [user : User, expires : Nat]

ASSUME RowAssumption == Unborn # Gone /\ NoRow \cap (Password \cup Session) = {}
ASSUME NoneAssumption == None \notin Token \cup Password \cup Request
ASSUME TimeAssumption == Lifetime \in Nat \ {0} /\ MaxNow \in Nat

VARIABLES
  password,   \* the users table: user -> the password its hash is of, or no row
  sessions,   \* the sessions table: token -> row
  now,        \* the clock of server and database
  req,        \* request -> what its goroutine holds
  touched     \* history: request -> the users whose row others wrote since
              \* it began

vars == <<password, sessions, now, req, touched>>

-----------------------------------------------------------------------------
HasUser(u) == password[u] \notin NoRow
HasSession(t) == sessions[t] \notin NoRow

(* GetSessionUser: the session joined with its user, while it lasts.       *)
Authenticates(t) == HasSession(t) /\ sessions[t].expires > now /\ HasUser(sessions[t].user)

(* What CleanExpiredSessions selects.                                      *)
Over(t) == HasSession(t) /\ sessions[t].expires < now

Job == [pc : {"load", "write"}, op : {"login", "logout", "change"}, user : User,
        token : Token \cup {None},        \* logout: the session it came with
        current : Password \cup {None},   \* the password that was typed
        new : Password \cup {None}]
Idle == [pc |-> "idle"]
Done == [pc |-> "done"]
InFlight(r) == req[r].pc \in {"load", "write"}

(* Types, and the foreign key: a session's user exists.                    *)
TypeOK ==
  /\ password \in [User -> Password \cup NoRow]
  /\ sessions \in [Token -> Session \cup NoRow]
  /\ \A t \in Token : HasSession(t) => HasUser(sessions[t].user)
  /\ now \in Nat
  /\ req \in [Request -> Job \cup {Idle, Done}]
  /\ touched \in [Request -> SUBSET User]

(* A fresh installation with its first users, and nobody logged in.        *)
Init ==
  /\ password \in [User -> Password]
  /\ sessions = [t \in Token |-> Unborn]
  /\ now = 0
  /\ req = [r \in Request |-> Idle]
  /\ touched = [r \in Request |-> {}]

Advance(r, job) == req' = [req EXCEPT ![r] = job] /\ UNCHANGED <<password, sessions, now, touched>>

(* Request r (or an administrator, for None) wrote these users' rows.      *)
Touch(r, us) ==
  touched' = [s \in Request |-> IF InFlight(s) /\ s # r THEN touched[s] \cup us ELSE {}]
End(r) == req' = [req EXCEPT ![r] = Done] /\ Touch(r, {})

-----------------------------------------------------------------------------
\* Mutant: bcrypt's answer is ignored.
BeginLoginUnchecked(r, u, pw) ==
  /\ req[r] = Idle
  /\ HasUser(u)
  /\ Advance(r, [pc |-> "write", op |-> "login", user |-> u, token |-> None,
                 current |-> pw, new |-> None])

(* Login up to CreateSession: GetByEmail, and bcrypt agrees with the row   *)
(* that was read.  A wrong password or address changes nothing.            *)
BeginLogin(r, u, pw) ==
  /\ req[r] = Idle
  /\ HasUser(u) /\ password[u] = pw
  /\ Advance(r, [pc |-> "write", op |-> "login", user |-> u, token |-> None,
                 current |-> pw, new |-> None])

(* CreateSession: a row under a fresh token; without the user the foreign  *)
(* key fails and the login answers 500.                                    *)
CreateSession(r) ==
  LET q == req[r] IN
  /\ q.pc = "write" /\ q.op = "login"
  /\ IF HasUser(q.user)
     THEN \E t \in Token :
            /\ sessions[t] = Unborn
            /\ sessions' = [sessions EXCEPT ![t] = [user |-> q.user, expires |-> now + Lifetime]]
     ELSE UNCHANGED sessions
  /\ End(r)
  /\ UNCHANGED <<password, now>>

(* The middleware lets a live session in; its owner logs out.              *)
BeginLogout(r, t) ==
  /\ req[r] = Idle
  /\ Authenticates(t)
  /\ Advance(r, [pc |-> "write", op |-> "logout", user |-> sessions[t].user, token |-> t,
                 current |-> None, new |-> None])

(* Logout deletes the session of its bearer token.  The handler wants the  *)
(* scheme spelled "Bearer " where the middleware ignores case, and ignores *)
(* an error of the statement: it may answer 204 without a deletion.        *)
Logout(r) ==
  LET q == req[r] IN
  /\ q.pc = "write" /\ q.op = "logout"
  /\ \/ sessions' = [sessions EXCEPT ![q.token] = Gone]
     \/ UNCHANGED sessions
  /\ End(r)
  /\ UNCHANGED <<password, now>>

(* ChangePassword: the session, then GetByID and bcrypt, then the UPDATE   *)
(* by id, which finds the row or fails.                                    *)
BeginChange(r, t, current, new) ==
  /\ req[r] = Idle
  /\ Authenticates(t)
  /\ Advance(r, [pc |-> "load", op |-> "change", user |-> sessions[t].user, token |-> None,
                 current |-> current, new |-> new])

\* Mutant: only the user is looked up.
CheckUserOnly(r) ==
  LET q == req[r] IN
  /\ q.pc = "load"
  /\ IF HasUser(q.user)
     THEN Advance(r, [q EXCEPT !.pc = "write"])
     ELSE End(r) /\ UNCHANGED <<password, sessions, now>>

CheckPassword(r) ==
  LET q == req[r] IN
  /\ q.pc = "load"
  /\ IF HasUser(q.user) /\ password[q.user] = q.current
     THEN Advance(r, [q EXCEPT !.pc = "write"])
     ELSE End(r) /\ UNCHANGED <<password, sessions, now>>

WritePassword(r) ==
  LET q == req[r] IN
  /\ q.pc = "write" /\ q.op = "change"
  /\ password' = IF HasUser(q.user) THEN [password EXCEPT ![q.user] = q.new] ELSE password
  /\ req' = [req EXCEPT ![r] = Done]
  /\ Touch(r, {q.user})
  /\ UNCHANGED <<sessions, now>>

-----------------------------------------------------------------------------
(* UpdateUser with a password, and DeleteUser, which takes the sessions    *)
(* along (ON DELETE CASCADE).                                              *)
SetPassword(u, pw) ==
  /\ HasUser(u)
  /\ password' = [password EXCEPT ![u] = pw]
  /\ Touch(None, {u})
  /\ UNCHANGED <<sessions, now, req>>

\* Mutant: the user's sessions stay behind.
DeleteUserOnly(u) ==
  /\ HasUser(u)
  /\ password' = [password EXCEPT ![u] = Gone]
  /\ Touch(None, {u})
  /\ UNCHANGED <<sessions, now, req>>

DeleteUser(u) ==
  /\ HasUser(u)
  /\ password' = [password EXCEPT ![u] = Gone]
  /\ sessions' = [t \in Token |->
                    IF HasSession(t) /\ sessions[t].user = u THEN Gone ELSE sessions[t]]
  /\ Touch(None, {u})
  /\ UNCHANGED <<now, req>>

\* Mutant: the comparison of expires_at is the wrong way round.
CleanupLive ==
  /\ \E t \in Token : HasSession(t) /\ ~ Over(t)
  /\ sessions' = [t \in Token |-> IF Over(t) THEN sessions[t] ELSE Gone]
  /\ UNCHANGED <<password, now, req, touched>>

(* The hourly goroutine of serve: CleanExpiredSessions.                    *)
Cleanup ==
  /\ \E t \in Token : Over(t)
  /\ sessions' = [t \in Token |-> IF Over(t) THEN Gone ELSE sessions[t]]
  /\ UNCHANGED <<password, now, req, touched>>

Tick == now < MaxNow /\ now' = now + 1 /\ UNCHANGED <<password, sessions, req, touched>>

Next ==
  \/ \E r \in Request :
       \/ \E u \in User, pw \in Password : BeginLogin(r, u, pw)
       \/ \E t \in Token :
            BeginLogout(r, t) \/ \E old, new \in Password : BeginChange(r, t, old, new)
       \/ CreateSession(r) \/ Logout(r) \/ CheckPassword(r) \/ WritePassword(r)
  \/ \E u \in User : DeleteUser(u) \/ \E pw \in Password : SetPassword(u, pw)
  \/ Cleanup
  \/ Tick

(* The ticker of the cleanup fires for as long as the server runs.         *)
Spec == Init /\ [][Next]_vars /\ WF_vars(Cleanup)

-----------------------------------------------------------------------------
Writes(r) == req[r].pc = "write" /\ req'[r].pc = "done"

(* A session is opened for an existing user, with the password that user   *)
(* has at that moment, or one that was replaced after the login read it.   *)
SessionEarned ==
  [][\A t \in Token :
       ~ HasSession(t) /\ HasSession(t)' =>
         \E r \in Request :
           /\ Writes(r) /\ sessions'[t].user = req[r].user /\ HasUser(req[r].user)
           /\ password[req[r].user] = req[r].current \/ req[r].user \in touched[r]]_vars

(* A user's own change of password replaces the very one it proved to      *)
(* know, or one that was set while the change was under way.               *)
PasswordEarned ==
  [][\A r \in Request, u \in User :
       Writes(r) /\ password'[u] # password[u] =>
         u = req[r].user /\ (password[u] = req[r].current \/ u \in touched[r])]_vars

(* A session that is over is removed from the table in the end.            *)
ExpiredRemoved == \A t \in Token : Over(t) ~> sessions[t] = Gone
=============================================================================
