--------------------------- MODULE SessionsProofs ---------------------------
(***************************************************************************)
(* Passwords and sessions, for any number of users and overlapping         *)
(* requests and any clock.  No transaction holds the row between the       *)
(* comparison of a password and the write that follows it; the inductive   *)
(* invariant says what is left of the comparison by then: the password is  *)
(* the one that was compared, or somebody else wrote that user's row.      *)
(***************************************************************************)
EXTENDS Sessions, TLAPS

(* The password that q was compared with is still there, or was replaced.  *)
Proved(q, written) == password[q.user] = q.current \/ q.user \in written

(* What a handler holds by the time it is at a step.                       *)
Held(q, written) ==
  /\ q.op = "login" => q.pc = "write" /\ Proved(q, written)
  /\ q.op = "logout" => q.pc = "write" /\ q.token \in Token
  /\ q.op = "change" => q.new \in Password /\ (q.pc = "write" => Proved(q, written))

IInv == TypeOK /\ \A r \in Request : InFlight(r) => Held(req[r], touched[r])

-----------------------------------------------------------------------------
LEMMA PCs ==
  ASSUME IInv, NEW r \in Request
  PROVE  /\ InFlight(r) => req[r] \in Job
         /\ req[r] \in Job \/ req[r] = Idle \/ req[r] = Done
         /\ Idle.pc = "idle" /\ Done.pc = "done"
BY DEF IInv, TypeOK, InFlight, Idle, Done

LEMMA PasswordIsARow == \A p \in Password : p \notin NoRow
BY RowAssumption

LEMMA SessionIsARow == \A s \in Session : s \notin NoRow
BY RowAssumption

(* A request moves on by itself, and writes nothing.                       *)
LEMMA AdvanceInv ==
  ASSUME IInv, NEW r \in Request, NEW job \in Job, Advance(r, job), Held(job, touched[r])
  PROVE  IInv'
<1>1. TypeOK'
  BY DEF Advance, IInv, TypeOK, HasSession, HasUser
<1>2. ASSUME NEW s \in Request, InFlight(s)'
      PROVE  Held(req[s], touched[s])'
  <2>1. CASE s = r
    BY <2>1 DEF Advance, IInv, TypeOK, Held, Proved
  <2>2. CASE s # r
    BY <1>2, <2>2 DEF Advance, IInv, TypeOK, InFlight, Held, Proved
  <2>. QED  BY <2>1, <2>2
<1>. QED  BY <1>1, <1>2 DEF IInv

(* Whoever writes passwords of the users us, in whatever way, leaves what  *)
(* the other requests hold true.                                           *)
LEMMA TouchHeld ==
  ASSUME IInv, NEW r, NEW us \in SUBSET User, Touch(r, us),
         \A u \in User \ us : password'[u] = password[u],
         NEW s \in Request \ {r}, InFlight(s), req'[s] = req[s]
  PROVE  Held(req[s], touched[s])'
<1>1. touched'[s] = touched[s] \cup us
  BY DEF Touch
<1>2. req[s] \in Job /\ req[s].user \in User
  BY PCs DEF Job
<1>3. Proved(req[s], touched[s]) => password'[req[s].user] = req[s].current
                                     \/ req[s].user \in touched'[s]
  BY <1>1, <1>2 DEF Proved
<1>4. Held(req[s], touched[s])
  BY DEF IInv
<1>. QED  BY <1>3, <1>4 DEF Held, Proved

LEMMA TouchType ==
  ASSUME IInv, NEW r, NEW us \in SUBSET User, Touch(r, us)
  PROVE  touched' \in [Request -> SUBSET User]
BY DEF Touch, IInv, TypeOK

(* A request that is answered leaves the others as they were.              *)
LEMMA AnswerInv ==
  ASSUME IInv, NEW r \in Request, NEW us \in SUBSET User, Touch(r, us),
         req' = [req EXCEPT ![r] = Done],
         \A u \in User \ us : password'[u] = password[u],
         TypeOK'
  PROVE  IInv'
<1>1. ASSUME NEW s \in Request, InFlight(s)'
      PROVE  Held(req[s], touched[s])'
  <2>1. s # r /\ req'[s] = req[s] /\ InFlight(s)
    BY <1>1 DEF IInv, TypeOK, InFlight, Done
  <2>. QED  BY <2>1, TouchHeld
<1>. QED  BY <1>1 DEF IInv

-----------------------------------------------------------------------------
LEMMA BeginLoginInv ==
  ASSUME IInv, NEW r \in Request, NEW u \in User, NEW pw \in Password, BeginLogin(r, u, pw)
  PROVE  IInv'
<1>. DEFINE job == [pc |-> "write", op |-> "login", user |-> u, token |-> None,
                    current |-> pw, new |-> None]
<1>1. job \in Job /\ Held(job, touched[r])
  BY DEF BeginLogin, Job, Held, Proved
<1>. QED  BY <1>1, AdvanceInv DEF BeginLogin

LEMMA AuthenticatedUser ==
  ASSUME IInv, NEW t \in Token, Authenticates(t)
  PROVE  sessions[t].user \in User
BY DEF IInv, TypeOK, Authenticates, HasSession, Session

LEMMA BeginLogoutInv ==
  ASSUME IInv, NEW r \in Request, NEW t \in Token, BeginLogout(r, t)
  PROVE  IInv'
<1>. DEFINE job == [pc |-> "write", op |-> "logout", user |-> sessions[t].user, token |-> t,
                    current |-> None, new |-> None]
<1>1. job \in Job /\ Held(job, touched[r])
  BY AuthenticatedUser DEF BeginLogout, Job, Held
<1>. QED  BY <1>1, AdvanceInv DEF BeginLogout

LEMMA BeginChangeInv ==
  ASSUME IInv, NEW r \in Request, NEW t \in Token, NEW old \in Password, NEW new \in Password,
         BeginChange(r, t, old, new)
  PROVE  IInv'
<1>. DEFINE job == [pc |-> "load", op |-> "change", user |-> sessions[t].user, token |-> None,
                    current |-> old, new |-> new]
<1>1. job \in Job /\ Held(job, touched[r])
  BY AuthenticatedUser DEF BeginChange, Job, Held
<1>. QED  BY <1>1, AdvanceInv DEF BeginChange

LEMMA CreateSessionInv ==
  ASSUME IInv, NEW r \in Request, CreateSession(r)
  PROVE  IInv'
<1>1. req[r] \in Job /\ req[r].user \in User
  BY PCs DEF CreateSession, InFlight, Job
<1>2. touched' \in [Request -> SUBSET User] /\ req' \in [Request -> Job \cup {Idle, Done}]
  BY TouchType DEF CreateSession, End, IInv, TypeOK
<1>3. /\ sessions' \in [Token -> Session \cup NoRow]
      /\ \A t \in Token : HasSession(t)' => HasUser(sessions'[t].user)
  <2>1. CASE sessions' = sessions
    BY <2>1 DEF IInv, TypeOK, HasSession
  <2>2. ASSUME HasUser(req[r].user), NEW t \in Token,
               sessions' = [sessions EXCEPT ![t] = [user |-> req[r].user,
                                                    expires |-> now + Lifetime]]
        PROVE  /\ sessions' \in [Token -> Session \cup NoRow]
              /\ \A s \in Token : HasSession(s)' => HasUser(sessions'[s].user)
    <3>1. [user |-> req[r].user, expires |-> now + Lifetime] \in Session
      BY <1>1, TimeAssumption DEF IInv, TypeOK, Session
    <3>. QED  BY <2>2, <3>1 DEF IInv, TypeOK, HasSession
  <2>. QED  BY <2>1, <2>2 DEF CreateSession
<1>4. TypeOK'
  BY <1>2, <1>3 DEF CreateSession, IInv, TypeOK, HasUser
<1>. QED  BY <1>4, AnswerInv DEF CreateSession, End

LEMMA LogoutInv ==
  ASSUME IInv, NEW r \in Request, Logout(r)
  PROVE  IInv'
<1>1. touched' \in [Request -> SUBSET User] /\ req' \in [Request -> Job \cup {Idle, Done}]
  BY TouchType DEF Logout, End, IInv, TypeOK
<1>2. \A t \in Token : sessions'[t] = sessions[t] \/ sessions'[t] = Gone
  BY DEF Logout, IInv, TypeOK
<1>3. TypeOK'
  BY <1>1, <1>2 DEF Logout, IInv, TypeOK, HasUser, HasSession, NoRow
<1>. QED  BY <1>3, AnswerInv DEF Logout, End

LEMMA CheckPasswordInv ==
  ASSUME IInv, NEW r \in Request, CheckPassword(r)
  PROVE  IInv'
<1>. DEFINE q == req[r]
            job == [q EXCEPT !.pc = "write"]
<1>1. q \in Job /\ q.pc = "load" /\ Held(q, touched[r])
  BY PCs DEF CheckPassword, InFlight, IInv
<1>2. CASE HasUser(q.user) /\ password[q.user] = q.current
  <2>1. /\ job \in Job /\ job.op = q.op /\ job.new = q.new
        /\ job.user = q.user /\ job.current = q.current
    BY <1>1 DEF Job
  <2>2. Held(job, touched[r])
    BY <1>1, <1>2, <2>1 DEF Held, Proved
  <2>3. Advance(r, job)
    BY <1>2 DEF CheckPassword
  <2>. QED  BY <2>1, <2>2, <2>3, AdvanceInv
<1>3. CASE ~ (HasUser(q.user) /\ password[q.user] = q.current)
  <2>1. End(r) /\ UNCHANGED <<password, sessions, now>>
    BY <1>3 DEF CheckPassword
  <2>2. TypeOK'
    BY <2>1, TouchType DEF End, IInv, TypeOK, HasUser, HasSession
  <2>. QED  BY <2>1, <2>2, AnswerInv DEF End
<1>. QED  BY <1>2, <1>3

LEMMA WritePasswordInv ==
  ASSUME IInv, NEW r \in Request, WritePassword(r)
  PROVE  IInv'
<1>1. req[r].user \in User /\ req[r].new \in Password
  BY PCs DEF WritePassword, InFlight, Job, IInv, Held
<1>2. /\ touched' \in [Request -> SUBSET User] /\ req' \in [Request -> Job \cup {Idle, Done}]
      /\ Touch(r, {req[r].user}) /\ req' = [req EXCEPT ![r] = Done]
  BY <1>1, TouchType DEF WritePassword, IInv, TypeOK
<1>3. /\ password' \in [User -> Password \cup NoRow]
      /\ \A u \in User \ {req[r].user} : password'[u] = password[u]
      /\ \A u \in User : HasUser(u) => HasUser(u)'
  BY <1>1, PasswordIsARow DEF WritePassword, IInv, TypeOK, HasUser
<1>4. TypeOK'
  BY <1>2, <1>3 DEF WritePassword, IInv, TypeOK, HasSession, Session
<1>. QED  BY <1>1, <1>2, <1>3, <1>4, AnswerInv

(* Administrators touch the row they write, in every request's eyes.       *)
LEMMA AdminInv ==
  ASSUME IInv, NEW u \in User, Touch(None, {u}), UNCHANGED <<now, req>>,
         NEW row \in Password \cup NoRow, password' = [password EXCEPT ![u] = row],
         sessions' \in [Token -> Session \cup NoRow],
         \A t \in Token : HasSession(t)' => HasUser(sessions[t].user)'
  PROVE  IInv'
<1>1. TypeOK'
  BY TouchType DEF IInv, TypeOK
<1>2. ASSUME NEW s \in Request, InFlight(s)'
      PROVE  Held(req[s], touched[s])'
  BY <1>2, TouchHeld, NoneAssumption DEF IInv, TypeOK, InFlight
<1>. QED  BY <1>1, <1>2 DEF IInv

LEMMA SetPasswordInv ==
  ASSUME IInv, NEW u \in User, NEW pw \in Password, SetPassword(u, pw)
  PROVE  IInv'
<1>1. \A v \in User : HasUser(v) => HasUser(v)'
  BY PasswordIsARow DEF SetPassword, IInv, TypeOK, HasUser
<1>2. \A t \in Token : HasSession(t)' => HasUser(sessions[t].user)'
  BY <1>1 DEF SetPassword, IInv, TypeOK, HasSession, Session
<1>. QED  BY <1>2, AdminInv DEF SetPassword, IInv, TypeOK

LEMMA DeleteUserInv ==
  ASSUME IInv, NEW u \in User, DeleteUser(u)
  PROVE  IInv'
<1>1. \A v \in User \ {u} : HasUser(v) => HasUser(v)'
  BY DEF DeleteUser, IInv, TypeOK, HasUser
<1>2. \A t \in Token : HasSession(t)' =>
        sessions'[t] = sessions[t] /\ HasSession(t) /\ sessions[t].user # u
  BY DEF DeleteUser, HasSession, NoRow
<1>3. \A t \in Token : HasSession(t)' => HasUser(sessions[t].user)'
  BY <1>1, <1>2 DEF IInv, TypeOK, HasSession, Session
<1>4. sessions' \in [Token -> Session \cup NoRow]
  BY DEF DeleteUser, IInv, TypeOK, NoRow
<1>. QED  BY <1>3, <1>4, AdminInv DEF DeleteUser, NoRow

LEMMA CleanupInv ==
  ASSUME IInv, Cleanup
  PROVE  IInv'
<1>1. \A t \in Token : sessions'[t] = sessions[t] \/ sessions'[t] = Gone
  BY DEF Cleanup
<1>. QED  BY <1>1 DEF Cleanup, IInv, TypeOK, HasSession, HasUser, NoRow, InFlight, Held, Proved

LEMMA TickInv ==
  ASSUME IInv, Tick
  PROVE  IInv'
BY DEF Tick, IInv, TypeOK, HasSession, HasUser, InFlight, Held, Proved

LEMMA InitInv == Init => IInv
BY DEF Init, IInv, TypeOK, HasSession, NoRow, InFlight, Idle

LEMMA NextInv == IInv /\ [Next]_vars => IInv'
<1>. SUFFICES ASSUME IInv, [Next]_vars PROVE IInv'
  OBVIOUS
<1>1. CASE Next
  BY <1>1, BeginLoginInv, BeginLogoutInv, BeginChangeInv, CreateSessionInv, LogoutInv,
     CheckPasswordInv, WritePasswordInv, SetPasswordInv, DeleteUserInv, CleanupInv, TickInv
     DEF Next
<1>2. CASE UNCHANGED vars
  BY <1>2 DEF vars, IInv, TypeOK, HasSession, HasUser, InFlight, Held, Proved
<1>. QED  BY <1>1, <1>2

(* What a request has established about a password is so when it writes,   *)
(* or was undone by a write of another.                                    *)
THEOREM Standing == Spec => []IInv
BY InitInv, NextInv, PTL DEF Spec

(* No session outlives its user, however logins and deletions overlap.     *)
THEOREM SessionTypes == Spec => []TypeOK
<1>1. IInv => TypeOK
  BY DEF IInv
<1>. QED  BY <1>1, Standing, PTL

-----------------------------------------------------------------------------
(* Sessions are opened by CreateSession alone.                             *)
LEMMA WhoOpens ==
  ASSUME IInv, [Next]_vars, NEW t \in Token, ~ HasSession(t), HasSession(t)'
  PROVE  \E r \in Request :
           /\ CreateSession(r) /\ HasUser(req[r].user)
           /\ sessions'[t] = [user |-> req[r].user, expires |-> now + Lifetime]
<1>1. sessions'[t] # sessions[t] /\ sessions'[t] # Gone
  BY DEF HasSession, NoRow
<1>2. ASSUME NEW r \in Request,
             \/ \E u \in User, pw \in Password : BeginLogin(r, u, pw)
             \/ \E s \in Token : BeginLogout(r, s)
             \/ \E s \in Token, old, new \in Password : BeginChange(r, s, old, new)
             \/ CheckPassword(r) \/ WritePassword(r)
      PROVE  FALSE
  BY <1>1, <1>2 DEF BeginLogin, BeginLogout, BeginChange, CheckPassword, WritePassword, Advance
<1>3. ASSUME NEW r \in Request, Logout(r) PROVE FALSE
  BY <1>1, <1>3 DEF Logout, IInv, TypeOK
<1>4. ASSUME NEW u \in User, DeleteUser(u) \/ \E pw \in Password : SetPassword(u, pw) PROVE FALSE
  BY <1>1, <1>4 DEF DeleteUser, SetPassword
<1>5. CASE Cleanup \/ Tick \/ UNCHANGED vars
  BY <1>1, <1>5 DEF Cleanup, Tick, vars
<1>6. ASSUME NEW r \in Request, CreateSession(r)
      PROVE  /\ HasUser(req[r].user)
             /\ sessions'[t] = [user |-> req[r].user, expires |-> now + Lifetime]
  BY <1>1, <1>6 DEF CreateSession, IInv, TypeOK
<1>. QED  BY <1>2, <1>3, <1>4, <1>5, <1>6 DEF Next

(* Every session is opened for a user who was there, with the password of  *)
(* that moment or one that was replaced under the login.                   *)
THEOREM SessionEarnedHolds == Spec => SessionEarned
<1>. DEFINE Opener(t) ==
              \E r \in Request :
                /\ Writes(r) /\ sessions'[t].user = req[r].user /\ HasUser(req[r].user)
                /\ password[req[r].user] = req[r].current \/ req[r].user \in touched[r]
<1>1. ASSUME IInv, [Next]_vars, NEW t \in Token, ~ HasSession(t), HasSession(t)'
      PROVE  Opener(t)
  <2>1. PICK r \in Request :
          /\ CreateSession(r) /\ HasUser(req[r].user)
          /\ sessions'[t] = [user |-> req[r].user, expires |-> now + Lifetime]
    BY <1>1, WhoOpens
  <2>2. Writes(r)
    BY <1>1, <2>1 DEF CreateSession, End, Done, Writes, IInv, TypeOK
  <2>3. Proved(req[r], touched[r])
    BY <1>1, <2>1 DEF CreateSession, IInv, Held, InFlight
  <2>. QED  BY <2>1, <2>2, <2>3 DEF Proved
<1>2. IInv /\ [Next]_vars =>
        [\A t \in Token : ~ HasSession(t) /\ HasSession(t)' => Opener(t)]_vars
  BY <1>1
<1>. QED  BY <1>2, Standing, PTL DEF Spec, SessionEarned

(* A user's own change replaces the password it was proved to know, or one *)
(* that was set while the change was under way; and nobody else's.         *)
THEOREM PasswordEarnedHolds == Spec => PasswordEarned
<1>1. ASSUME IInv, [Next]_vars, NEW r \in Request, NEW u \in User,
             Writes(r), password'[u] # password[u]
      PROVE  u = req[r].user /\ (password[u] = req[r].current \/ u \in touched[r])
  <2>1. req[r].pc = "write" /\ req'[r].pc = "done" /\ req'[r] # req[r]
    BY <1>1 DEF Writes
  <2>2. CASE WritePassword(r)
    <3>1. u = req[r].user
      BY <1>1, <2>2 DEF WritePassword, IInv, TypeOK
    <3>2. Proved(req[r], touched[r])
      BY <1>1, <2>2 DEF WritePassword, IInv, Held, InFlight
    <3>. QED  BY <3>1, <3>2 DEF Proved
  <2>3. ASSUME NEW s \in Request, WritePassword(s), s # r PROVE FALSE
    BY <1>1, <2>1, <2>3 DEF WritePassword, IInv, TypeOK
  <2>4. ASSUME NEW v \in User, DeleteUser(v) \/ \E pw \in Password : SetPassword(v, pw)
        PROVE  FALSE
    BY <2>1, <2>4 DEF DeleteUser, SetPassword
  <2>5. ASSUME NEW s \in Request,
               \/ \E v \in User, pw \in Password : BeginLogin(s, v, pw)
               \/ \E t \in Token : BeginLogout(s, t)
               \/ \E t \in Token, old, new \in Password : BeginChange(s, t, old, new)
               \/ CreateSession(s) \/ Logout(s) \/ CheckPassword(s)
        PROVE  FALSE
    BY <1>1, <2>5 DEF BeginLogin, BeginLogout, BeginChange, CreateSession, Logout,
                      CheckPassword, Advance
  <2>6. CASE Cleanup \/ Tick \/ UNCHANGED vars
    BY <1>1, <2>6 DEF Cleanup, Tick, vars
  <2>. QED  BY <1>1, <2>2, <2>3, <2>4, <2>5, <2>6 DEF Next
<1>2. IInv /\ [Next]_vars =>
        [\A r \in Request, u \in User :
           Writes(r) /\ password'[u] # password[u] =>
             u = req[r].user /\ (password[u] = req[r].current \/ u \in touched[r])]_vars
  BY <1>1
<1>. QED  BY <1>2, Standing, PTL DEF Spec, PasswordEarned
=============================================================================
