---------------------------- MODULE AdminSessions ----------------------------
(***************************************************************************)
(* The accounts and sessions of the operators, as admin-rpc keeps them in  *)
(* the tables admins and admin_refresh_tokens.                             *)
(*                                                                         *)
(* A login opens a session with a refresh token; each refresh revokes the  *)
(* token and inserts its successor; logging out revokes the token; a new   *)
(* password and the deletion of the account revoke all of its tokens.      *)
(* Every call reads rows, decides, and writes later, without a transaction *)
(* around the two: the steps of concurrent calls interleave.               *)
(*                                                                         *)
(* Names, scopes, roles, domains, access tokens (checked by signature      *)
(* only) and the audit log are left out.  A token that expires is only     *)
(* refused, which a refresh that never comes stands for.  Each password    *)
(* that is set is a new one.                                               *)
(***************************************************************************)
EXTENDS Integers, FiniteSets

CONSTANTS
  Admins,            \* ids of administrators
  SuperAdmins,       \* the one created at start-up, if bootstrap is enabled
  Tokens,            \* ids of refresh tokens
  Requests,          \* calls served at once
  MaxLoginFailures,  \* maxLoginFailures, 5 in the code
  MaxAttempts,       \* bound: wrong passwords since the last login
  MaxPasswords,      \* bound: passwords set after the first
  HazardSets         \* what may befall the accounts

(* "logins_overlap": two logins of one account are served at once.         *)
(* "change_overlap": a login is served while the password is changed or    *)
(* the account is deleted.                                                 *)
(* "db_error": a statement of the call fails.                              *)
(* "crash": a call stops between two of its statements.                    *)
AllHazards == {"logins_overlap", "change_overlap", "db_error", "crash"}

ASSUME AdminAssumption ==
  /\ SuperAdmins \subseteq Admins
  /\ MaxLoginFailures \in Nat \ {0}
  /\ MaxAttempts \in Nat
  /\ MaxPasswords \in Nat
  /\ HazardSets \subseteq SUBSET AllHazards

VARIABLES
  hazards,   \* the hazards of this behaviour (never changes)
  admin,     \* admins
  token,     \* admin_refresh_tokens
  request,   \* where each call is
  streak     \* wrong passwords of each account since its last login

vars == <<hazards, admin, token, request, streak>>

Row == [there: {"yes", "deleted"}, enabled: BOOLEAN, password: Nat,
        failed: Nat, locked: BOOLEAN]
NoRow == [there |-> "never"]

(* session is the token the login created, password the one it gave.       *)
Token == [used: {TRUE}, admin: Admins, session: Tokens, password: Nat,
          revoked: BOOLEAN]
NoToken == [used |-> FALSE]

There(a) == admin[a].there = "yes"
Live(t) == token[t].used /\ ~ token[t].revoked
LiveTokensOf(a) == {t \in Tokens : Live(t) /\ token[t].admin = a}

-----------------------------------------------------------------------------
(* Calls.                                                                  *)
Idle == [step |-> "idle"]

LoggingIn == [step: {"fail"}, admin: Admins, count: Nat]
               \cup [step: {"reset", "create"}, admin: Admins, password: Nat]
WithToken == [step: {"find", "rotate", "revoke"}, token: Tokens]
Changing == [step: {"update", "revokeAll"}, admin: Admins]

At(r, step) == request[r].step = step
Goto(r, s) == request' = [request EXCEPT ![r] = s]
Return(r) == Goto(r, Idle)

Serving(steps, a) ==
  \E r \in Requests : request[r].step \in steps /\ request[r].admin = a

LoginSteps == {"fail", "reset", "create"}
ChangeSteps == {"update", "revokeAll"}

TypeOK ==
  /\ hazards \in HazardSets
  /\ admin \in [Admins -> Row \cup {NoRow}]
  /\ token \in [Tokens -> Token \cup {NoToken}]
  /\ request \in [Requests -> LoggingIn \cup WithToken \cup Changing \cup {Idle}]
  /\ streak \in [Admins -> Nat]

Init ==
  /\ hazards \in HazardSets
  /\ admin = [a \in Admins |-> NoRow]
  /\ token = [t \in Tokens |-> NoToken]
  /\ request = [r \in Requests |-> Idle]
  /\ streak = [a \in Admins |-> 0]

-----------------------------------------------------------------------------
(* Accounts.  The super administrator is the only one of its kind, so the  *)
(* count that SetAdminStatus asks for is never more than one.              *)
CreateAdmin(a) ==
  /\ admin[a] = NoRow
  /\ \E e \in BOOLEAN :
       /\ a \in SuperAdmins => e
       /\ admin' = [admin EXCEPT ![a] =
            [there |-> "yes", enabled |-> e, password |-> 0, failed |-> 0,
             locked |-> FALSE]]
  /\ UNCHANGED <<hazards, token, request, streak>>

(* The account's sessions are left as they are.                            *)
SetAdminStatus(a, enabled) ==
  /\ There(a)
  /\ a \in SuperAdmins => enabled
  /\ admin' = [admin EXCEPT ![a].enabled = enabled]
  /\ UNCHANGED <<hazards, token, request, streak>>

ChangeAllowed(a) == "change_overlap" \in hazards \/ ~ Serving(LoginSteps, a)

(* ChangeMyPassword: the old password is compared with the row read first. *)
ChangeMyPassword(r, a) ==
  /\ At(r, "idle")
  /\ There(a)
  /\ ChangeAllowed(a)
  /\ Goto(r, [step |-> "update", admin |-> a])
  /\ UNCHANGED <<hazards, admin, token, streak>>

SetPassword(a) == admin' = [admin EXCEPT ![a].password = @ + 1]

UpdateAdminPassword(r) ==
  LET a == request[r].admin IN
  /\ At(r, "update")
  /\ \/ /\ There(a)
        /\ admin[a].password < MaxPasswords
        /\ SetPassword(a)
        /\ Goto(r, [step |-> "revokeAll", admin |-> a])
     \/ /\ ~ There(a) \/ "db_error" \in hazards
        /\ Return(r)
        /\ UNCHANGED admin
  /\ UNCHANGED <<hazards, token, streak>>

(* ResetAdminPassword: another administrator sets the password.            *)
ResetAdminPassword(r, a) ==
  /\ At(r, "idle")
  /\ There(a)
  /\ ChangeAllowed(a)
  /\ admin[a].password < MaxPasswords
  /\ SetPassword(a)
  /\ Goto(r, [step |-> "revokeAll", admin |-> a])
  /\ UNCHANGED <<hazards, token, streak>>

DeleteAdmin(r, a) ==
  /\ At(r, "idle")
  /\ There(a)
  /\ a \notin SuperAdmins
  /\ ChangeAllowed(a)
  /\ admin' = [admin EXCEPT ![a].there = "deleted"]
  /\ Goto(r, [step |-> "revokeAll", admin |-> a])
  /\ UNCHANGED <<hazards, token, streak>>

(* Its error is ignored.                                                   *)
RevokeRefreshTokensByAdmin(r) ==
  /\ At(r, "revokeAll")
  /\ \/ token' = [t \in Tokens |->
                    IF t \in LiveTokensOf(request[r].admin)
                    THEN [token[t] EXCEPT !.revoked = TRUE] ELSE token[t]]
     \/ "db_error" \in hazards /\ UNCHANGED token
  /\ Return(r)
  /\ UNCHANGED <<hazards, admin, streak>>

-----------------------------------------------------------------------------
(* AdminLogin.                                                             *)
(* FindAdmin... and checkLocked.                                           *)
Usable(a) == There(a) /\ admin[a].enabled /\ ~ admin[a].locked

LoginAllowed(a) ==
  /\ "logins_overlap" \in hazards \/ ~ Serving(LoginSteps, a)
  /\ "change_overlap" \in hazards \/ ~ Serving(ChangeSteps, a)

AdminLogin(r, a) ==
  /\ At(r, "idle")
  /\ Usable(a)
  /\ LoginAllowed(a)
  /\ \/ /\ Goto(r, [step |-> "reset", admin |-> a,
                    password |-> admin[a].password])
        /\ UNCHANGED streak
     \/ /\ admin[a].failed < MaxAttempts /\ streak[a] < MaxAttempts
        /\ Goto(r, [step |-> "fail", admin |-> a, count |-> admin[a].failed + 1])
        /\ streak' = [streak EXCEPT ![a] = @ + 1]
  /\ UNCHANGED <<hazards, admin, token>>

(* Faulty variant: a failure below the threshold leaves the count alone.   *)
SetFailureLate(r) ==
  LET a == request[r].admin
      n == request[r].count IN
  /\ At(r, "fail")
  /\ admin' = IF n >= MaxLoginFailures
              THEN [admin EXCEPT ![a].failed = n, ![a].locked = TRUE]
              ELSE admin
  /\ Return(r)
  /\ UNCHANGED <<hazards, token, streak>>

(* The count of the row read at the start, plus one.  The same statement   *)
(* clears locked_until below the threshold.  Its error is ignored.         *)
SetAdminLoginFailure(r) ==
  LET a == request[r].admin
      n == request[r].count IN
  /\ At(r, "fail")
  /\ \/ /\ There(a)
        /\ admin' = [admin EXCEPT ![a].failed = n,
                                  ![a].locked = (n >= MaxLoginFailures)]
     \/ /\ ~ There(a) \/ "db_error" \in hazards
        /\ UNCHANGED admin
  /\ Return(r)
  /\ UNCHANGED <<hazards, token, streak>>

(* Faulty variant: a login takes one failure off.                          *)
ForgiveOneFailure(r) ==
  LET a == request[r].admin IN
  /\ At(r, "reset")
  /\ admin' = [admin EXCEPT ![a].failed = @ - 1, ![a].locked = FALSE]
  /\ streak' = [streak EXCEPT ![a] = 0]
  /\ Goto(r, [request[r] EXCEPT !.step = "create"])
  /\ UNCHANGED <<hazards, token>>

ResetAdminLoginFailures(r) ==
  LET a == request[r].admin IN
  /\ At(r, "reset")
  /\ \/ /\ There(a)
        /\ admin' = [admin EXCEPT ![a].failed = 0, ![a].locked = FALSE]
        /\ streak' = [streak EXCEPT ![a] = 0]
        /\ Goto(r, [request[r] EXCEPT !.step = "create"])
     \/ /\ ~ There(a) \/ "db_error" \in hazards
        /\ Return(r)
        /\ UNCHANGED <<admin, streak>>
  /\ UNCHANGED <<hazards, token>>

(* The account is not looked at again.                                     *)
CreateRefreshToken(r) ==
  /\ At(r, "create")
  /\ \/ \E t \in Tokens :
          /\ ~ token[t].used
          /\ token' = [token EXCEPT ![t] =
               [used |-> TRUE, admin |-> request[r].admin, session |-> t,
                password |-> request[r].password, revoked |-> FALSE]]
     \/ "db_error" \in hazards /\ UNCHANGED token
  /\ Return(r)
  /\ UNCHANGED <<hazards, admin, streak>>

(* locked_until passes.                                                    *)
LockExpires(a) ==
  /\ There(a)
  /\ admin[a].locked
  /\ admin' = [admin EXCEPT ![a].locked = FALSE]
  /\ UNCHANGED <<hazards, token, request, streak>>

-----------------------------------------------------------------------------
(* AdminRefreshToken and AdminLogout, with any token that was ever issued: *)
(* a client may send the same one twice.                                   *)
AdminRefreshToken(r, t) ==
  /\ At(r, "idle")
  /\ Live(t)
  /\ Goto(r, [step |-> "find", token |-> t])
  /\ UNCHANGED <<hazards, admin, token, streak>>

CheckAdminOfToken(r) ==
  LET t == request[r].token IN
  /\ At(r, "find")
  /\ IF Usable(token[t].admin)
     THEN Goto(r, [step |-> "rotate", token |-> t])
     ELSE Return(r)
  /\ UNCHANGED <<hazards, admin, token, streak>>

Successor(old, new) ==
  [token EXCEPT ![old].revoked = TRUE, ![new] = [token[old] EXCEPT !.revoked = FALSE]]

(* Faulty variant: the UPDATE asks for the token only, and so rotates one  *)
(* that was revoked since it was read.                                     *)
RotateRevoked(r) ==
  LET t == request[r].token IN
  /\ At(r, "rotate")
  /\ \E u \in Tokens : ~ token[u].used /\ token' = Successor(t, u)
  /\ Return(r)
  /\ UNCHANGED <<hazards, admin, streak>>

(* Faulty variant: the successor is inserted, the old token stays.         *)
RotateKeepingOld(r) ==
  LET t == request[r].token IN
  /\ At(r, "rotate")
  /\ \/ /\ Live(t)
        /\ \E u \in Tokens :
             ~ token[u].used /\ token' = [token EXCEPT ![u] = token[t]]
     \/ ~ Live(t) /\ UNCHANGED token
  /\ Return(r)
  /\ UNCHANGED <<hazards, admin, streak>>

(* One transaction: revoke where revoked_at IS NULL, one row, and insert.  *)
RotateRefreshToken(r) ==
  LET t == request[r].token IN
  /\ At(r, "rotate")
  /\ \/ /\ Live(t)
        /\ \E u \in Tokens : ~ token[u].used /\ token' = Successor(t, u)
     \/ /\ ~ Live(t) \/ "db_error" \in hazards
        /\ UNCHANGED token
  /\ Return(r)
  /\ UNCHANGED <<hazards, admin, streak>>

AdminLogout(r, t) ==
  /\ At(r, "idle")
  /\ token[t].used
  /\ Goto(r, [step |-> "revoke", token |-> t])
  /\ UNCHANGED <<hazards, admin, token, streak>>

(* A token revoked meanwhile is a success too, its successor lives on.     *)
RevokeRefreshToken(r) ==
  LET t == request[r].token IN
  /\ At(r, "revoke")
  /\ \/ token' = [token EXCEPT ![t].revoked = TRUE]
     \/ "db_error" \in hazards /\ UNCHANGED token
  /\ Return(r)
  /\ UNCHANGED <<hazards, admin, streak>>

Crash(r) ==
  /\ "crash" \in hazards
  /\ ~ At(r, "idle")
  /\ Return(r)
  /\ UNCHANGED <<hazards, admin, token, streak>>

-----------------------------------------------------------------------------
Serve(r) ==
  \/ \E a \in Admins : \/ ChangeMyPassword(r, a) \/ ResetAdminPassword(r, a)
                       \/ DeleteAdmin(r, a) \/ AdminLogin(r, a)
  \/ \E t \in Tokens : AdminRefreshToken(r, t) \/ AdminLogout(r, t)
  \/ UpdateAdminPassword(r) \/ RevokeRefreshTokensByAdmin(r)
  \/ SetAdminLoginFailure(r) \/ ResetAdminLoginFailures(r)
  \/ CreateRefreshToken(r)
  \/ CheckAdminOfToken(r) \/ RotateRefreshToken(r) \/ RevokeRefreshToken(r)
  \/ Crash(r)

Next ==
  \/ \E r \in Requests : Serve(r)
  \/ \E a \in Admins : \/ CreateAdmin(a) \/ LockExpires(a)
                       \/ \E e \in BOOLEAN : SetAdminStatus(a, e)

Spec == Init /\ [][Next]_vars

-----------------------------------------------------------------------------
(* However many times the client sends its refresh token, and whatever     *)
(* runs beside it, a session has at most one token that is not revoked.    *)
OneLiveToken ==
  \A t, u \in Tokens :
    Live(t) /\ Live(u) /\ token[t].session = token[u].session => t = u

LiveSession(s) == \E t \in Tokens : Live(t) /\ token[t].session = s

(* A session that has ended, by a logout, a new password or the deletion   *)
(* of the account, is not revived by a refresh that was under way.         *)
EndedStaysEnded ==
  [][\A s \in Tokens :
       token[s].used /\ ~ LiveSession(s) => ~ LiveSession(s)']_vars

(* A new password ends the sessions opened with an old one and a deletion  *)
(* all of them, refreshes under way included, once the call has run to its *)
(* end.  A login under way is not stopped, and an error or a crash between *)
(* the two statements leaves them.                                         *)
PasswordEndsSessions ==
  hazards \subseteq {"logins_overlap"} =>
    \A t \in Tokens :
      Live(t) /\ ~ Serving(ChangeSteps, token[t].admin) =>
        /\ There(token[t].admin)
        /\ token[t].password = admin[token[t].admin].password

(* The count that locks the account is the number of wrong passwords since *)
(* the last login.                                                         *)
FailuresCounted ==
  hazards \subseteq {"change_overlap"} =>
    \A a \in Admins :
      There(a) /\ ~ Serving(LoginSteps, a) =>
        /\ admin[a].failed = streak[a]
        /\ admin[a].locked => streak[a] >= MaxLoginFailures

(* A locked account is unlocked by the clock alone: no login read the row  *)
(* before it was locked and writes it after, which overlapping ones do.    *)
LockHolds ==
  [][\A a \in Admins :
       There(a) /\ admin[a].locked /\ "logins_overlap" \notin hazards =>
         admin'[a].locked \/ LockExpires(a)]_vars
=============================================================================
