------------------------ MODULE AdminSessions_proofs ------------------------
(***************************************************************************)
(* Proofs about AdminSessions, for every set of administrators, tokens and *)
(* calls, every threshold and every set of hazards.                        *)
(***************************************************************************)
EXTENDS AdminSessions, TLAPS

(* A call under way is a record of its kind.                               *)
LEMMA RequestShape ==
  ASSUME TypeOK, NEW r \in Requests
  PROVE  /\ At(r, "fail") => request[r] \in [step: {"fail"}, admin: Admins, count: Nat]
         /\ request[r].step \in {"reset", "create"} =>
              request[r] \in [step: {"reset", "create"}, admin: Admins, password: Nat]
         /\ request[r].step \in {"find", "rotate", "revoke"} => request[r] \in WithToken
         /\ request[r].step \in ChangeSteps => request[r] \in Changing
         /\ request[r] # Idle => request[r].step # "idle"
  BY DEF TypeOK, At, LoggingIn, WithToken, Changing, Idle, ChangeSteps

(* A token that a call holds was issued, and so was the first token of its *)
(* session.                                                                *)
HeldIsUsed ==
  \A r \in Requests :
    request[r].step \in {"find", "rotate", "revoke"} => token[request[r].token].used

SessionIsUsed ==
  \A t \in Tokens : token[t].used => token[token[t].session].used

(* The inductive invariant of the token table.                             *)
TokenInv == TypeOK /\ HeldIsUsed /\ SessionIsUsed /\ OneLiveToken

LEMMA TokenShape ==
  ASSUME TypeOK, NEW t \in Tokens
  PROVE  /\ token[t].used \in BOOLEAN
         /\ token[t].used => token[t] \in Token
         /\ ~ token[t].used => token[t] = NoToken
         /\ Live(t) => token[t] \in Token
  <1>1. token[t] \in Token \/ token[t] = NoToken BY DEF TypeOK
  <1>2. CASE token[t] \in Token BY <1>2 DEF Token, Live
  <1>3. CASE token[t] = NoToken BY <1>3 DEF NoToken, Live
  <1> QED BY <1>1, <1>2, <1>3

LEMMA AdminShape ==
  ASSUME TypeOK, NEW a \in Admins
  PROVE  /\ admin[a] = NoRow <=> admin[a].there = "never"
         /\ admin[a] # NoRow <=> admin[a] \in Row
         /\ There(a) => admin[a] \in Row
  BY DEF TypeOK, Row, NoRow, There

-----------------------------------------------------------------------------
LEMMA InitTokens == Init => TokenInv
  BY DEF Init, TokenInv, TypeOK, HeldIsUsed, SessionIsUsed, OneLiveToken, Live,
     NoToken, NoRow, Idle, Token

(* What a call may write to its own record.                                *)
LEMMA GotoType ==
  ASSUME TypeOK, NEW r \in Requests, NEW s \in LoggingIn \cup WithToken \cup Changing \cup {Idle},
         Goto(r, s)
  PROVE  /\ request' \in [Requests -> LoggingIn \cup WithToken \cup Changing \cup {Idle}]
         /\ request'[r] = s
         /\ \A q \in Requests \ {r} : request'[q] = request[q]
  BY DEF TypeOK, Goto

(* The calls that leave the token table alone.                             *)
LEMMA AccountStepType ==
  ASSUME TypeOK, NEW a \in Admins, NEW r \in Requests,
         \/ CreateAdmin(a) \/ LockExpires(a)
         \/ \E e \in BOOLEAN : SetAdminStatus(a, e)
         \/ ChangeMyPassword(r, a) \/ ResetAdminPassword(r, a)
         \/ DeleteAdmin(r, a) \/ AdminLogin(r, a)
         \/ UpdateAdminPassword(r)
         \/ SetAdminLoginFailure(r) \/ ResetAdminLoginFailures(r)
         \/ Crash(r)
  PROVE  /\ TypeOK'
         /\ UNCHANGED token
         /\ \A q \in Requests :
              request'[q].step \in {"find", "rotate", "revoke"} => request'[q] = request[q]
  <1> USE DEF Row, Idle
  <1>1. CASE CreateAdmin(a) BY <1>1 DEF CreateAdmin, TypeOK
  <1>2. CASE LockExpires(a)
    BY <1>2, AdminShape DEF LockExpires, TypeOK
  <1>3. CASE \E e \in BOOLEAN : SetAdminStatus(a, e)
    BY <1>3, AdminShape DEF SetAdminStatus, TypeOK
  <1>4. CASE ChangeMyPassword(r, a)
    <2>1. [step |-> "update", admin |-> a] \in Changing BY DEF Changing
    <2> QED BY <1>4, <2>1, GotoType DEF ChangeMyPassword, TypeOK
  <1>5. CASE ResetAdminPassword(r, a)
    <2>1. [step |-> "revokeAll", admin |-> a] \in Changing BY DEF Changing
    <2>2. admin' \in [Admins -> Row \cup {NoRow}]
      BY <1>5, AdminShape DEF ResetAdminPassword, SetPassword, TypeOK
    <2> QED BY <1>5, <2>1, <2>2, GotoType DEF ResetAdminPassword, TypeOK
  <1>6. CASE DeleteAdmin(r, a)
    <2>1. [step |-> "revokeAll", admin |-> a] \in Changing BY DEF Changing
    <2>2. admin' \in [Admins -> Row \cup {NoRow}]
      BY <1>6, AdminShape DEF DeleteAdmin, TypeOK
    <2> QED BY <1>6, <2>1, <2>2, GotoType DEF DeleteAdmin, TypeOK
  <1>7. CASE AdminLogin(r, a)
    <2>1. admin[a] \in Row BY <1>7, AdminShape DEF AdminLogin, Usable
    <2>2. [step |-> "reset", admin |-> a, password |-> admin[a].password] \in LoggingIn
      BY <2>1 DEF LoggingIn
    <2>3. [step |-> "fail", admin |-> a, count |-> admin[a].failed + 1] \in LoggingIn
      BY <2>1 DEF LoggingIn
    <2>4. streak' \in [Admins -> Nat] BY <1>7 DEF AdminLogin, TypeOK
    <2> QED BY <1>7, <2>2, <2>3, <2>4, GotoType DEF AdminLogin, TypeOK
  <1>8. CASE UpdateAdminPassword(r)
    <2> DEFINE b == request[r].admin
    <2>1. b \in Admins BY <1>8, RequestShape DEF UpdateAdminPassword, At, ChangeSteps, Changing
    <2>2. [step |-> "revokeAll", admin |-> b] \in Changing BY <2>1 DEF Changing
    <2>3. admin' \in [Admins -> Row \cup {NoRow}]
      BY <1>8, <2>1, AdminShape DEF UpdateAdminPassword, SetPassword, TypeOK
    <2> QED BY <1>8, <2>2, <2>3, GotoType DEF UpdateAdminPassword, Return, TypeOK
  <1>9. CASE SetAdminLoginFailure(r)
    <2> DEFINE b == request[r].admin
    <2>1. b \in Admins /\ request[r].count \in Nat
      BY <1>9, RequestShape DEF SetAdminLoginFailure
    <2>2. admin' \in [Admins -> Row \cup {NoRow}]
      BY <1>9, <2>1, AdminShape, AdminAssumption DEF SetAdminLoginFailure, TypeOK
    <2> QED BY <1>9, <2>2, GotoType DEF SetAdminLoginFailure, Return, TypeOK
  <1>10. CASE ResetAdminLoginFailures(r)
    <2> DEFINE b == request[r].admin
    <2>1. /\ b \in Admins
          /\ [request[r] EXCEPT !.step = "create"] \in LoggingIn
      BY <1>10, RequestShape DEF ResetAdminLoginFailures, At, LoggingIn
    <2>2. admin' \in [Admins -> Row \cup {NoRow}] /\ streak' \in [Admins -> Nat]
      BY <1>10, <2>1, AdminShape DEF ResetAdminLoginFailures, TypeOK
    <2>3. [request[r] EXCEPT !.step = "create"].step = "create"
      BY <1>10, RequestShape DEF ResetAdminLoginFailures, At
    <2> DEFINE next == [request[r] EXCEPT !.step = "create"]
    <2>4. CASE Goto(r, next) /\ UNCHANGED token
      <3> HIDE DEF next
      <3>1. next \in LoggingIn /\ next.step = "create" BY <2>1, <2>3 DEF next
      <3>2. /\ request' \in [Requests -> LoggingIn \cup WithToken \cup Changing \cup {Idle}]
            /\ request'[r] = next
            /\ \A q \in Requests \ {r} : request'[q] = request[q]
        BY <2>4, <3>1, GotoType
      <3>3. hazards' = hazards BY <1>10 DEF ResetAdminLoginFailures
      <3> QED BY <2>2, <2>4, <3>1, <3>2, <3>3 DEF TypeOK
    <2>5. CASE Return(r)
      BY <1>10, <2>2, <2>5, GotoType DEF ResetAdminLoginFailures, Return, TypeOK
    <2> QED BY <1>10, <2>4, <2>5 DEF ResetAdminLoginFailures
  <1>11. CASE Crash(r)
    BY <1>11, GotoType DEF Crash, Return, TypeOK
  <1> QED BY <1>1, <1>2, <1>3, <1>4, <1>5, <1>6, <1>7, <1>8, <1>9, <1>10, <1>11

-----------------------------------------------------------------------------
(* What a step may do to the token table: revoke, issue the first token of *)
(* a new session, or replace a live token by its successor.                *)
SameToken(t) ==
  /\ token'[t].used /\ token'[t].admin = token[t].admin
  /\ token'[t].session = token[t].session
  /\ token'[t].password = token[t].password

Revokes ==
  \A t \in Tokens :
    /\ token'[t].used = token[t].used
    /\ token[t].used => SameToken(t)
    /\ Live(t)' => Live(t)

Issues(t) ==
  /\ ~ token[t].used
  /\ token'[t].used /\ token'[t].session = t
  /\ \A u \in Tokens \ {t} : token'[u] = token[u]

Replaces(t, u) ==
  /\ Live(t) /\ ~ token[u].used
  /\ token'[t].used /\ token'[t].revoked /\ SameToken(t)
  /\ token'[u].used /\ token'[u].session = token[t].session
  /\ token'[u].admin = token[t].admin /\ token'[u].password = token[t].password
  /\ \A v \in Tokens \ {t, u} : token'[v] = token[v]

(* A row whose token is revoked, or left alone.                            *)
LEMMA RevokedRow ==
  ASSUME TypeOK, NEW t \in Tokens,
         \/ token'[t] = token[t]
         \/ token[t].used /\ token'[t] = [token[t] EXCEPT !.revoked = TRUE]
  PROVE  /\ token'[t].used = token[t].used
         /\ token[t].used => SameToken(t)
         /\ Live(t)' => Live(t)
  <1>1. CASE token'[t] = token[t] BY <1>1 DEF SameToken, Live
  <1>2. CASE token[t].used /\ token'[t] = [token[t] EXCEPT !.revoked = TRUE]
    <2>1. token[t] \in Token BY <1>2, TokenShape
    <2>2. /\ token'[t].used /\ token'[t].revoked
          /\ token'[t].admin = token[t].admin
          /\ token'[t].session = token[t].session
          /\ token'[t].password = token[t].password
      BY <1>2, <2>1 DEF Token
    <2>3. ~ Live(t)' BY <2>2 DEF Live
    <2> QED BY <1>2, <2>2, <2>3, TokenShape DEF SameToken, Token
  <1> QED BY <1>1, <1>2

LEMMA RevokeStep ==
  ASSUME TokenInv, NEW r \in Requests,
         RevokeRefreshTokensByAdmin(r) \/ RevokeRefreshToken(r)
  PROVE  TypeOK' /\ Revokes /\ Return(r) /\ UNCHANGED admin
  <1> USE DEF TokenInv
  <1>1. CASE RevokeRefreshTokensByAdmin(r)
    <2>1. Return(r) /\ UNCHANGED <<hazards, admin, streak>>
      BY <1>1 DEF RevokeRefreshTokensByAdmin
    <2>2. /\ token' \in [Tokens -> Token \cup {NoToken}]
          /\ \A t \in Tokens :
               token'[t] = token[t] \/ (Live(t) /\ token'[t] = [token[t] EXCEPT !.revoked = TRUE])
      <3>1. CASE UNCHANGED token BY <3>1 DEF TypeOK
      <3>2. CASE token' = [t \in Tokens |->
                    IF t \in LiveTokensOf(request[r].admin)
                    THEN [token[t] EXCEPT !.revoked = TRUE] ELSE token[t]]
        <4>1. \A t \in LiveTokensOf(request[r].admin) :
                Live(t) /\ [token[t] EXCEPT !.revoked = TRUE] \in Token
          BY TokenShape DEF LiveTokensOf, Token
        <4> QED BY <3>2, <4>1 DEF TypeOK
      <3> QED BY <1>1, <3>1, <3>2 DEF RevokeRefreshTokensByAdmin
    <2>3. TypeOK' BY <2>1, <2>2, GotoType DEF Return, TypeOK
    <2>4. Revokes
      <3> SUFFICES ASSUME NEW t \in Tokens
                   PROVE  /\ token'[t].used = token[t].used
                          /\ token[t].used => SameToken(t)
                          /\ Live(t)' => Live(t)
        BY DEF Revokes
      <3> QED BY <2>2, RevokedRow DEF Live
    <2> QED BY <2>1, <2>3, <2>4
  <1>2. CASE RevokeRefreshToken(r)
    <2> DEFINE h == request[r].token
    <2>1. Return(r) /\ UNCHANGED <<hazards, admin, streak>>
      BY <1>2 DEF RevokeRefreshToken
    <2>2. h \in Tokens /\ token[h] \in Token
      BY <1>2, RequestShape, TokenShape DEF RevokeRefreshToken, HeldIsUsed, At, WithToken
    <2>3. /\ token' \in [Tokens -> Token \cup {NoToken}]
          /\ \A t \in Tokens :
               token'[t] = token[t] \/ (t = h /\ token'[t] = [token[t] EXCEPT !.revoked = TRUE])
      <3>1. [token[h] EXCEPT !.revoked = TRUE] \in Token BY <2>2 DEF Token
      <3> QED BY <1>2, <2>2, <3>1 DEF RevokeRefreshToken, TypeOK
    <2>4. TypeOK' BY <2>1, <2>3, GotoType DEF Return, TypeOK
    <2>5. Revokes
      <3> SUFFICES ASSUME NEW t \in Tokens
                   PROVE  /\ token'[t].used = token[t].used
                          /\ token[t].used => SameToken(t)
                          /\ Live(t)' => Live(t)
        BY DEF Revokes
      <3>1. token[h].used BY <2>2 DEF Token
      <3> QED BY <2>3, <3>1, RevokedRow
    <2> QED BY <2>1, <2>4, <2>5
  <1> QED BY <1>1, <1>2

LEMMA IssueStep ==
  ASSUME TokenInv, NEW r \in Requests, CreateRefreshToken(r)
  PROVE  /\ TypeOK' /\ Return(r) /\ UNCHANGED admin
         /\ \/ UNCHANGED token
            \/ \E t \in Tokens : /\ Issues(t)
                                 /\ token'[t].admin = request[r].admin
                                 /\ token'[t].password = request[r].password
  <1> USE DEF TokenInv
  <1>1. Return(r) /\ UNCHANGED <<hazards, admin, streak>>
    BY DEF CreateRefreshToken
  <1>2. CASE UNCHANGED token
    BY <1>1, <1>2, GotoType DEF Return, TypeOK
  <1>3. ASSUME NEW t \in Tokens, ~ token[t].used,
               token' = [token EXCEPT ![t] =
               [used |-> TRUE, admin |-> request[r].admin, session |-> t,
                password |-> request[r].password, revoked |-> FALSE]]
        PROVE  /\ TypeOK' /\ Issues(t)
               /\ token'[t].admin = request[r].admin
               /\ token'[t].password = request[r].password
    <2>1. request[r].admin \in Admins /\ request[r].password \in Nat
      BY RequestShape DEF CreateRefreshToken, At
    <2>2. [used |-> TRUE, admin |-> request[r].admin, session |-> t,
           password |-> request[r].password, revoked |-> FALSE] \in Token
      BY <2>1 DEF Token
    <2>3. TypeOK' BY <1>1, <1>3, <2>2, GotoType DEF Return, TypeOK
    <2>4. Issues(t) BY <1>3 DEF TypeOK, Issues
    <2> QED BY <1>3, <2>3, <2>4 DEF TypeOK
  <1> QED BY <1>1, <1>2, <1>3 DEF CreateRefreshToken

LEMMA RotateStep ==
  ASSUME TokenInv, NEW r \in Requests, RotateRefreshToken(r)
  PROVE  /\ TypeOK' /\ Return(r) /\ UNCHANGED admin
         /\ UNCHANGED token \/ \E t, u \in Tokens : Replaces(t, u)
  <1> USE DEF TokenInv
  <1> DEFINE t == request[r].token
  <1>1. Return(r) /\ UNCHANGED <<hazards, admin, streak>>
    BY DEF RotateRefreshToken
  <1>2. t \in Tokens BY RequestShape DEF RotateRefreshToken, At, WithToken
  <1>3. CASE UNCHANGED token
    BY <1>1, <1>3, GotoType DEF Return, TypeOK
  <1>4. ASSUME Live(t), NEW u \in Tokens, ~ token[u].used, token' = Successor(t, u)
        PROVE  TypeOK' /\ Replaces(t, u)
    <2>1. token[t] \in Token /\ t # u BY <1>2, <1>4, TokenShape DEF Live
    <2>2. /\ [token[t] EXCEPT !.revoked = TRUE] \in Token
          /\ [token[t] EXCEPT !.revoked = FALSE] \in Token
      BY <2>1 DEF Token
    <2>3. /\ token'[t] = [token[t] EXCEPT !.revoked = TRUE]
          /\ token'[u] = [token[t] EXCEPT !.revoked = FALSE]
          /\ \A v \in Tokens \ {t, u} : token'[v] = token[v]
          /\ token' \in [Tokens -> Token \cup {NoToken}]
      BY <1>2, <1>4, <2>1, <2>2 DEF Successor, TypeOK
    <2>4. TypeOK' BY <1>1, <2>3, GotoType DEF Return, TypeOK
    <2>5. Replaces(t, u)
      BY <1>4, <2>1, <2>3 DEF Replaces, SameToken, Token
    <2> QED BY <2>4, <2>5
  <1> QED BY <1>1, <1>2, <1>3, <1>4 DEF RotateRefreshToken

(* The steps of the calls that hold a token and do not write.              *)
LEMMA HoldStep ==
  ASSUME TokenInv, NEW r \in Requests, NEW t \in Tokens,
         AdminRefreshToken(r, t) \/ AdminLogout(r, t) \/ CheckAdminOfToken(r)
  PROVE  /\ TypeOK' /\ HeldIsUsed' /\ UNCHANGED <<token, admin>>
         /\ \A q \in Requests \ {r} : request'[q] = request[q]
         /\ request'[r].step \notin LoginSteps \cup ChangeSteps
         /\ request[r].step \notin LoginSteps \cup ChangeSteps
  <1> USE DEF TokenInv
  <1>1. ASSUME NEW s \in WithToken \cup {Idle}, Goto(r, s),
               s # Idle => token[s.token].used,
               UNCHANGED <<hazards, admin, token, streak>>
        PROVE  /\ TypeOK' /\ HeldIsUsed'
               /\ \A q \in Requests \ {r} : request'[q] = request[q]
               /\ request'[r].step \notin LoginSteps \cup ChangeSteps
    <2>1. /\ request' \in [Requests -> LoggingIn \cup WithToken \cup Changing \cup {Idle}]
          /\ request'[r] = s
          /\ \A q \in Requests \ {r} : request'[q] = request[q]
      BY <1>1, GotoType
    <2>2. TypeOK' BY <1>1, <2>1 DEF TypeOK
    <2>3. HeldIsUsed' BY <1>1, <2>1 DEF HeldIsUsed, Idle
    <2> QED BY <2>1, <2>2, <2>3 DEF WithToken, Idle, LoginSteps, ChangeSteps
  <1>2. CASE AdminRefreshToken(r, t)
    <2>1. [step |-> "find", token |-> t] \in WithToken BY DEF WithToken
    <2>2. token[t].used BY <1>2 DEF AdminRefreshToken, Live
    <2> QED BY <1>1, <1>2, <2>1, <2>2 DEF AdminRefreshToken, At, LoginSteps, ChangeSteps
  <1>3. CASE AdminLogout(r, t)
    <2>1. [step |-> "revoke", token |-> t] \in WithToken BY DEF WithToken
    <2> QED BY <1>1, <1>3, <2>1 DEF AdminLogout, At, LoginSteps, ChangeSteps
  <1>4. CASE CheckAdminOfToken(r)
    <2> DEFINE h == request[r].token
    <2>1. h \in Tokens /\ token[h].used
      BY <1>4, RequestShape DEF CheckAdminOfToken, At, WithToken, HeldIsUsed
    <2>2. [step |-> "rotate", token |-> h] \in WithToken BY <2>1 DEF WithToken
    <2> QED BY <1>1, <1>4, <2>1, <2>2
         DEF CheckAdminOfToken, At, LoginSteps, ChangeSteps, Return
  <1> QED BY <1>2, <1>3, <1>4

(* A step either leaves the token table alone or does one of the three.    *)
TokenStep ==
  \/ UNCHANGED token
  \/ Revokes
  \/ \E t \in Tokens : Issues(t)
  \/ \E t, u \in Tokens : Replaces(t, u)

LEMMA UsedStaysUsed ==
  ASSUME TokenInv, TokenStep
  PROVE  \A t \in Tokens : token[t].used => SameToken(t)
  BY DEF TokenStep, SameToken, Revokes, Issues, Replaces

LEMMA NextTokenStep ==
  ASSUME TokenInv, [Next]_vars
  PROVE  TypeOK' /\ HeldIsUsed' /\ TokenStep
  <1> USE DEF TokenInv
  <1>1. ASSUME TypeOK', TokenStep,
               \A q \in Requests :
                 request'[q].step \in {"find", "rotate", "revoke"} => request'[q] = request[q]
        PROVE  TypeOK' /\ HeldIsUsed' /\ TokenStep
    <2>1. \A t \in Tokens : token[t].used => token'[t].used
      BY <1>1, UsedStaysUsed DEF SameToken
    <2>2. HeldIsUsed'
      BY <1>1, <2>1, RequestShape DEF HeldIsUsed, WithToken
    <2> QED BY <1>1, <2>2
  <1>2. ASSUME NEW r \in Requests, Return(r)
        PROVE  \A q \in Requests :
                 request'[q].step \in {"find", "rotate", "revoke"} => request'[q] = request[q]
    BY <1>2, GotoType DEF Return, Idle
  <1>3. ASSUME NEW r \in Requests, Serve(r) PROVE TypeOK' /\ HeldIsUsed' /\ TokenStep
    <2>1. CASE RevokeRefreshTokensByAdmin(r) \/ RevokeRefreshToken(r)
      BY <2>1, <1>1, <1>2, RevokeStep DEF TokenStep
    <2>2. CASE CreateRefreshToken(r)
      BY <2>2, <1>1, <1>2, IssueStep DEF TokenStep
    <2>3. CASE RotateRefreshToken(r)
      BY <2>3, <1>1, <1>2, RotateStep DEF TokenStep
    <2>4. CASE \E t \in Tokens : AdminRefreshToken(r, t) \/ AdminLogout(r, t)
      BY <2>4, HoldStep DEF TokenStep
    <2>5. CASE CheckAdminOfToken(r)
      <3>1. request[r].token \in Tokens
        BY <2>5, RequestShape DEF CheckAdminOfToken, At, WithToken
      <3> QED BY <2>5, <3>1, HoldStep DEF TokenStep
    <2>6. CASE UpdateAdminPassword(r) \/ SetAdminLoginFailure(r)
                 \/ ResetAdminLoginFailures(r)
      <3>1. request[r].admin \in Admins
        BY <2>6, RequestShape DEF UpdateAdminPassword, SetAdminLoginFailure,
           ResetAdminLoginFailures, At, ChangeSteps, Changing
      <3> QED BY <2>6, <3>1, <1>1, AccountStepType DEF TokenStep
    <2>7. CASE \E a \in Admins : \/ ChangeMyPassword(r, a) \/ ResetAdminPassword(r, a)
                                 \/ DeleteAdmin(r, a) \/ AdminLogin(r, a)
      BY <2>7, <1>1, AccountStepType DEF TokenStep
    <2>8. CASE Crash(r)
      <3>1. TypeOK' /\ UNCHANGED token
        BY <2>8, GotoType DEF Crash, Return, TypeOK
      <3> QED BY <2>8, <3>1, <1>1, <1>2 DEF Crash, TokenStep
    <2> QED BY <1>3, <2>1, <2>2, <2>3, <2>4, <2>5, <2>6, <2>7, <2>8 DEF Serve
  <1>4. ASSUME NEW a \in Admins,
               \/ CreateAdmin(a) \/ LockExpires(a)
               \/ \E e \in BOOLEAN : SetAdminStatus(a, e)
        PROVE  TypeOK' /\ HeldIsUsed' /\ TokenStep
    <2>1. UNCHANGED request BY <1>4 DEF CreateAdmin, LockExpires, SetAdminStatus
    <2>2. TypeOK' /\ UNCHANGED token
      <3> USE AdminShape DEF TypeOK, Row
      <3>1. CASE CreateAdmin(a) BY <3>1 DEF CreateAdmin
      <3>2. CASE LockExpires(a) BY <3>2 DEF LockExpires
      <3>3. CASE \E e \in BOOLEAN : SetAdminStatus(a, e) BY <3>3 DEF SetAdminStatus
      <3> QED BY <1>4, <3>1, <3>2, <3>3
    <2> QED BY <2>1, <2>2, <1>1 DEF TokenStep
  <1>5. CASE UNCHANGED vars BY <1>5 DEF vars, TypeOK, HeldIsUsed, TokenStep
  <1> QED BY <1>3, <1>4, <1>5 DEF Next

LEMMA NextTokens == TokenInv /\ [Next]_vars => TokenInv'
  <1> SUFFICES ASSUME TokenInv, [Next]_vars PROVE TokenInv' OBVIOUS
  <1>1. TypeOK' /\ HeldIsUsed' /\ TokenStep BY NextTokenStep
  <1>2. \A t \in Tokens : token[t].used => SameToken(t) BY <1>1, UsedStaysUsed
  <1>3. \A t \in Tokens : token[t].used => token[t].session \in Tokens
    BY TokenShape DEF TokenInv, Token
  <1>4. SessionIsUsed'
    <2> SUFFICES ASSUME NEW t \in Tokens, token'[t].used
                 PROVE  token'[token'[t].session].used
      BY DEF SessionIsUsed
    <2>1. CASE token[t].used BY <2>1, <1>2, <1>3 DEF SameToken, TokenInv, SessionIsUsed
    <2>2. CASE ~ token[t].used
      <3>1. CASE Issues(t) BY <3>1 DEF Issues
      <3>2. ASSUME NEW v \in Tokens, Replaces(v, t) PROVE token'[token'[t].session].used
        BY <3>2, <1>2, <1>3 DEF Replaces, Live, SameToken, TokenInv, SessionIsUsed
      <3>3. CASE UNCHANGED token \/ Revokes BY <2>2, <3>3 DEF Revokes
      <3>4. ASSUME NEW u \in Tokens, Issues(u) PROVE u = t
        BY <2>2, <3>4 DEF Issues
      <3>5. ASSUME NEW u \in Tokens, NEW v \in Tokens, Replaces(u, v) PROVE v = t
        BY <2>2, <3>5 DEF Replaces, Live
      <3> QED BY <1>1, <3>1, <3>2, <3>3, <3>4, <3>5 DEF TokenStep
    <2> QED BY <2>1, <2>2
  <1>5. OneLiveToken'
    <2> USE DEF TokenInv
    <2>1. CASE UNCHANGED token BY <2>1 DEF OneLiveToken, Live
    <2>2. CASE Revokes
      BY <2>2, <1>2 DEF Revokes, OneLiveToken, Live, SameToken
    <2>3. ASSUME NEW t \in Tokens, Issues(t) PROVE OneLiveToken'
      <3>1. \A u \in Tokens \ {t} : Live(u)' => Live(u) /\ token'[u].session = token[u].session
        BY <2>3 DEF Issues, Live
      <3>2. \A u \in Tokens : token[u].used => token[u].session # t
        BY <2>3 DEF Issues, SessionIsUsed
      <3> QED BY <2>3, <3>1, <3>2 DEF OneLiveToken, Issues, Live
    <2>4. ASSUME NEW t \in Tokens, NEW u \in Tokens, Replaces(t, u) PROVE OneLiveToken'
      <3>1. \A v \in Tokens \ {u} :
              Live(v)' => v # t /\ Live(v) /\ token'[v].session = token[v].session
        BY <2>4 DEF Replaces, Live
      <3>2. Live(t) /\ token'[u].session = token[t].session BY <2>4 DEF Replaces
      <3> QED BY <3>1, <3>2 DEF OneLiveToken
    <2> QED BY <1>1, <2>1, <2>2, <2>3, <2>4 DEF TokenStep
  <1> QED BY <1>1, <1>4, <1>5 DEF TokenInv

-----------------------------------------------------------------------------
(* Every row, token and call keeps its type.                               *)
THEOREM TypeCorrect == Spec => []TypeOK
  <1>1. TokenInv => TypeOK BY DEF TokenInv
  <1> QED BY InitTokens, NextTokens, <1>1, PTL DEF Spec

(* A session never has two tokens that can be refreshed, whatever calls     *)
(* interleave, fail or crash.                                              *)
THEOREM OneTokenPerSession == Spec => []OneLiveToken
  <1>1. TokenInv => OneLiveToken BY DEF TokenInv
  <1> QED BY InitTokens, NextTokens, <1>1, PTL DEF Spec

(* A session that has ended is never revived.                              *)
THEOREM EndedSessionsStayEnded == Spec => EndedStaysEnded
  <1> DEFINE Ended == \A s \in Tokens :
                        token[s].used /\ ~ LiveSession(s) => ~ LiveSession(s)'
  <1>1. TokenInv /\ [Next]_vars => [Ended]_vars
    <2> SUFFICES ASSUME TokenInv, [Next]_vars, NEW s \in Tokens,
                        token[s].used, ~ LiveSession(s), NEW v \in Tokens,
                        Live(v)', token'[v].session = s
                 PROVE  FALSE
      BY DEF LiveSession
    <2>1. TokenStep BY NextTokenStep
    <2>2. \A t \in Tokens : Live(t) => token[t].session # s BY DEF LiveSession
    <2>3. CASE UNCHANGED token BY <2>2, <2>3 DEF Live
    <2>4. CASE Revokes BY <2>2, <2>4 DEF Revokes, Live, SameToken
    <2>5. ASSUME NEW t \in Tokens, Issues(t) PROVE FALSE
      BY <2>2, <2>5 DEF Issues, Live
    <2>6. ASSUME NEW t \in Tokens, NEW u \in Tokens, Replaces(t, u) PROVE FALSE
      BY <2>2, <2>6 DEF Replaces, Live
    <2> QED BY <2>1, <2>3, <2>4, <2>5, <2>6 DEF TokenStep
  <1> QED BY InitTokens, NextTokens, <1>1, PTL DEF Spec, EndedStaysEnded

-----------------------------------------------------------------------------
(* Passwords.  No login of an account runs beside a change of it, a login   *)
(* that has passed holds the account's password, and only while a change    *)
(* has still to revoke is there a live token of an older one.               *)
Harmless == hazards \subseteq {"logins_overlap"}

LoginsApart ==
  \A r, q \in Requests :
    request[r].step \in LoginSteps /\ request[q].step \in ChangeSteps =>
      request[r].admin # request[q].admin

LoginsKnow ==
  \A r \in Requests :
    request[r].step \in {"reset", "create"} =>
      /\ There(request[r].admin)
      /\ request[r].password = admin[request[r].admin].password

TokensKnow ==
  \A t \in Tokens :
    Live(t) /\ ~ Serving({"revokeAll"}, token[t].admin) =>
      /\ There(token[t].admin)
      /\ token[t].password = admin[token[t].admin].password

PasswordParts == LoginsApart /\ LoginsKnow /\ TokensKnow
PasswordInv == Harmless => PasswordParts

LEMMA RequestAdmin ==
  ASSUME TypeOK, NEW r \in Requests, request[r].step \in LoginSteps \cup ChangeSteps
  PROVE  request[r].admin \in Admins
  BY RequestShape DEF LoginSteps, ChangeSteps, Changing, At

(* A step that starts no login and no change, sets no password and issues   *)
(* no new session keeps the three parts.                                   *)
LEMMA QuietKeepsPasswords ==
  ASSUME TokenInv, PasswordParts,
         UNCHANGED token \/ Revokes \/ \E t, u \in Tokens : Replaces(t, u),
         \A b \in Admins :
           There(b) => There(b)' /\ admin'[b].password = admin[b].password,
         \A q \in Requests :
           /\ request'[q].step \in LoginSteps =>
                request[q].step \in LoginSteps /\ request'[q].admin = request[q].admin
           /\ request'[q].step \in {"reset", "create"} =>
                /\ request[q].step \in {"reset", "create"}
                /\ request'[q].password = request[q].password
           /\ request'[q].step \in ChangeSteps =>
                request[q].step \in ChangeSteps /\ request'[q].admin = request[q].admin
           /\ request[q].step = "revokeAll" => request'[q] = request[q]
  PROVE  PasswordParts'
  <1>1. LoginsApart' BY DEF PasswordParts, LoginsApart
  <1>2. LoginsKnow'
    BY RequestAdmin DEF PasswordParts, LoginsKnow, LoginSteps, TokenInv
  <1>3. TokensKnow'
    <2> SUFFICES ASSUME NEW t \in Tokens, Live(t)', ~ Serving({"revokeAll"}, token[t].admin)'
                 PROVE  /\ There(token[t].admin)'
                        /\ (token[t].password = admin[token[t].admin].password)'
      BY DEF TokensKnow
    <2>1. PICK u \in Tokens : /\ Live(u) /\ token'[t].admin = token[u].admin
                              /\ token'[t].password = token[u].password
      <3>1. CASE UNCHANGED token BY <3>1 DEF Live
      <3>2. CASE Revokes BY <3>2 DEF Revokes, SameToken, Live
      <3>3. ASSUME NEW v \in Tokens, NEW u \in Tokens, Replaces(v, u)
            PROVE  \E w \in Tokens : /\ Live(w) /\ token'[t].admin = token[w].admin
                                     /\ token'[t].password = token[w].password
        BY <3>3 DEF Replaces, Live
      <3> QED BY <3>1, <3>2, <3>3
    <2>2. token[u].admin \in Admins BY <2>1, TokenShape DEF TokenInv, Token
    <2>3. ~ Serving({"revokeAll"}, token[u].admin) BY <2>1 DEF Serving
    <2> QED BY <2>1, <2>2, <2>3 DEF PasswordParts, TokensKnow
  <1> QED BY <1>1, <1>2, <1>3 DEF PasswordParts

(* A change of account a that is about to revoke: nothing but a's row and   *)
(* the call of r moves.                                                    *)
LEMMA ChangeKeepsPasswords ==
  ASSUME TokenInv, PasswordParts, NEW r \in Requests, NEW a \in Admins,
         UNCHANGED token,
         \A b \in Admins \ {a} : admin'[b] = admin[b],
         ~ Serving(LoginSteps, a),
         Goto(r, [step |-> "revokeAll", admin |-> a]),
         request[r].step # "revokeAll"
  PROVE  PasswordParts'
  <1>1. /\ request'[r] = [step |-> "revokeAll", admin |-> a]
        /\ \A q \in Requests \ {r} : request'[q] = request[q]
    BY DEF TokenInv, TypeOK, Goto
  <1>2. LoginsApart'
    BY <1>1 DEF PasswordParts, LoginsApart, Serving, LoginSteps, ChangeSteps
  <1>3. LoginsKnow'
    <2> SUFFICES ASSUME NEW q \in Requests, request'[q].step \in {"reset", "create"}
                 PROVE  /\ There(request[q].admin)'
                        /\ (request[q].password = admin[request[q].admin].password)'
      BY DEF LoginsKnow
    <2>1. q # r /\ request'[q] = request[q] BY <1>1
    <2>2. request[q].admin \in Admins \ {a}
      BY <2>1, RequestAdmin DEF Serving, LoginSteps, TokenInv
    <2> QED BY <2>1, <2>2 DEF PasswordParts, LoginsKnow, There
  <1>4. TokensKnow'
    <2> SUFFICES ASSUME NEW t \in Tokens, Live(t)', ~ Serving({"revokeAll"}, token[t].admin)'
                 PROVE  /\ There(token[t].admin)'
                        /\ (token[t].password = admin[token[t].admin].password)'
      BY DEF TokensKnow
    <2>0. Live(t) /\ token[t] \in Token BY TokenShape DEF TokenInv, Live
    <2>1. token[t].admin \in Admins /\ token[t].admin # a
      <3>1. ~ \E q \in Requests : request'[q].step = "revokeAll" /\ request'[q].admin = token[t].admin
        BY DEF Serving
      <3>2. token[t].admin # a BY <1>1, <3>1
      <3> QED BY <2>0, <3>2 DEF Token
    <2>2. ~ Serving({"revokeAll"}, token[t].admin) BY <1>1, <2>1 DEF Serving
    <2> QED BY <2>1, <2>2 DEF PasswordParts, TokensKnow, Live, There
  <1> QED BY <1>2, <1>3, <1>4 DEF PasswordParts

LEMMA ServeKeepsPasswords ==
  ASSUME TokenInv, PasswordParts, Harmless, NEW r \in Requests, Serve(r)
  PROVE  PasswordParts'
  <1> USE DEF TokenInv
  <1> DEFINE a == request[r].admin
  <1>0. /\ "db_error" \notin hazards /\ "crash" \notin hazards
        /\ "change_overlap" \notin hazards
    BY DEF Harmless
  <1>1. ASSUME NEW s, Goto(r, s)
        PROVE  request'[r] = s /\ \A q \in Requests \ {r} : request'[q] = request[q]
    BY <1>1 DEF TypeOK, Goto
  <1>2. CASE \E b \in Admins : ChangeMyPassword(r, b)
    <2> PICK b \in Admins : ChangeMyPassword(r, b) BY <1>2
    <2>1. /\ ~ Serving(LoginSteps, b)
          /\ request'[r] = [step |-> "update", admin |-> b]
          /\ request[r].step = "idle"
          /\ UNCHANGED <<admin, token>>
      BY <1>0, <1>1 DEF ChangeMyPassword, ChangeAllowed, At
    <2>2. \A q \in Requests \ {r} : request'[q] = request[q]
      BY <1>1 DEF ChangeMyPassword
    <2>3. LoginsApart'
      BY <2>1, <2>2 DEF PasswordParts, LoginsApart, Serving, LoginSteps, ChangeSteps
    <2>4. LoginsKnow' BY <2>1, <2>2 DEF PasswordParts, LoginsKnow, There
    <2>5. TokensKnow'
      BY <2>1, <2>2 DEF PasswordParts, TokensKnow, There, Live, Serving
    <2> QED BY <2>3, <2>4, <2>5 DEF PasswordParts
  <1>3. CASE UpdateAdminPassword(r)
    <2>1. a \in Admins BY <1>3, RequestAdmin DEF UpdateAdminPassword, At, ChangeSteps
    <2>2. ~ Serving(LoginSteps, a)
      BY <1>3 DEF UpdateAdminPassword, At, PasswordParts, LoginsApart, Serving, ChangeSteps
    <2>3. CASE Goto(r, [step |-> "revokeAll", admin |-> a]) /\ SetPassword(a)
      <3>1. /\ \A b \in Admins \ {a} : admin'[b] = admin[b]
            /\ UNCHANGED token
            /\ request[r].step # "revokeAll"
        BY <1>3, <2>3 DEF UpdateAdminPassword, At, SetPassword, TypeOK
      <3> QED BY <2>1, <2>2, <2>3, <3>1, ChangeKeepsPasswords
    <2>4. CASE Return(r) /\ UNCHANGED admin
      <3>1. request'[r] = Idle /\ \A q \in Requests \ {r} : request'[q] = request[q]
        BY <2>4, <1>1 DEF Return
      <3>2. UNCHANGED token /\ request[r].step = "update"
        BY <1>3 DEF UpdateAdminPassword, At
      <3> QED BY <2>4, <3>1, <3>2, QuietKeepsPasswords
           DEF Idle, There, LoginSteps, ChangeSteps
    <2> QED BY <1>3, <2>3, <2>4 DEF UpdateAdminPassword
  <1>4. CASE \E b \in Admins : ResetAdminPassword(r, b) \/ DeleteAdmin(r, b)
    <2> PICK b \in Admins : ResetAdminPassword(r, b) \/ DeleteAdmin(r, b) BY <1>4
    <2>1. /\ ~ Serving(LoginSteps, b)
          /\ Goto(r, [step |-> "revokeAll", admin |-> b])
          /\ request[r].step = "idle"
          /\ UNCHANGED token
          /\ \A c \in Admins \ {b} : admin'[c] = admin[c]
      BY <1>0 DEF ResetAdminPassword, DeleteAdmin, ChangeAllowed, At, SetPassword, TypeOK
    <2> QED BY <2>1, ChangeKeepsPasswords
  <1>5. CASE RevokeRefreshTokensByAdmin(r)
    <2>1. Revokes /\ UNCHANGED admin /\ Return(r) BY <1>5, RevokeStep
    <2>2. request'[r] = Idle /\ \A q \in Requests \ {r} : request'[q] = request[q]
      BY <2>1, <1>1 DEF Return
    <2>3. \A t \in Tokens : Live(t) /\ token[t].admin = a => ~ Live(t)'
      <3> SUFFICES ASSUME NEW t \in Tokens, Live(t), token[t].admin = a
                   PROVE  ~ Live(t)'
        OBVIOUS
      <3>1. t \in LiveTokensOf(a) /\ token[t] \in Token BY TokenShape DEF LiveTokensOf
      <3>2. token'[t] = [token[t] EXCEPT !.revoked = TRUE]
        BY <1>0, <1>5, <3>1 DEF RevokeRefreshTokensByAdmin
      <3> QED BY <3>1, <3>2 DEF Token, Live
    <2>4. LoginsApart'
      BY <2>2 DEF PasswordParts, LoginsApart, Idle, LoginSteps, ChangeSteps
    <2>5. LoginsKnow' BY <2>1, <2>2 DEF PasswordParts, LoginsKnow, There, Idle
    <2>6. TokensKnow'
      <3> SUFFICES ASSUME NEW t \in Tokens, Live(t)', ~ Serving({"revokeAll"}, token[t].admin)'
                   PROVE  /\ There(token[t].admin)'
                          /\ (token[t].password = admin[token[t].admin].password)'
        BY DEF TokensKnow
      <3>1. Live(t) /\ SameToken(t) BY <2>1 DEF Revokes, Live
      <3>2. token[t].admin # a BY <2>3, <3>1
      <3>3. ~ Serving({"revokeAll"}, token[t].admin)
        BY <2>2, <3>1, <3>2 DEF Serving, SameToken
      <3> QED BY <2>1, <3>1, <3>3 DEF PasswordParts, TokensKnow, There, SameToken
    <2> QED BY <2>4, <2>5, <2>6 DEF PasswordParts
  <1>6. CASE \E b \in Admins : AdminLogin(r, b)
    <2> PICK b \in Admins : AdminLogin(r, b) BY <1>6
    <2>1. /\ ~ Serving(ChangeSteps, b) /\ There(b)
          /\ request[r].step = "idle"
          /\ UNCHANGED <<admin, token>>
      BY <1>0 DEF AdminLogin, LoginAllowed, Usable, At
    <2>2. /\ \/ request'[r] = [step |-> "reset", admin |-> b, password |-> admin[b].password]
             \/ request'[r] = [step |-> "fail", admin |-> b, count |-> admin[b].failed + 1]
          /\ \A q \in Requests \ {r} : request'[q] = request[q]
      BY <1>1 DEF AdminLogin
    <2>3. LoginsApart'
      BY <2>1, <2>2 DEF PasswordParts, LoginsApart, Serving, LoginSteps, ChangeSteps
    <2>4. LoginsKnow' BY <2>1, <2>2 DEF PasswordParts, LoginsKnow, There
    <2>5. TokensKnow'
      BY <2>1, <2>2 DEF PasswordParts, TokensKnow, There, Live, Serving
    <2> QED BY <2>3, <2>4, <2>5 DEF PasswordParts
  <1>7. CASE SetAdminLoginFailure(r)
    <2>1. a \in Admins BY <1>7, RequestAdmin DEF SetAdminLoginFailure, At, LoginSteps
    <2>2. /\ request'[r] = Idle /\ \A q \in Requests \ {r} : request'[q] = request[q]
          /\ UNCHANGED token /\ request[r].step = "fail"
      BY <1>7, <1>1 DEF SetAdminLoginFailure, Return, At
    <2>3. \A b \in Admins : There(b) => There(b)' /\ admin'[b].password = admin[b].password
      BY <1>7, <2>1, AdminShape DEF SetAdminLoginFailure, There, Row, TypeOK
    <2> QED BY <2>2, <2>3, QuietKeepsPasswords DEF Idle, LoginSteps, ChangeSteps
  <1>8. CASE ResetAdminLoginFailures(r)
    <2>1. a \in Admins BY <1>8, RequestAdmin DEF ResetAdminLoginFailures, At, LoginSteps
    <2>2. /\ UNCHANGED token /\ request[r].step = "reset"
          /\ request[r] \in [step: {"reset", "create"}, admin: Admins, password: Nat]
      BY <1>8, RequestShape DEF ResetAdminLoginFailures, At
    <2>3. \A b \in Admins : There(b) => There(b)' /\ admin'[b].password = admin[b].password
      BY <1>8, <2>1, AdminShape DEF ResetAdminLoginFailures, There, Row, TypeOK
    <2>4. /\ \/ request'[r] = Idle
             \/ /\ request'[r].step = "create" /\ request'[r].admin = request[r].admin
                /\ request'[r].password = request[r].password
          /\ \A q \in Requests \ {r} : request'[q] = request[q]
      BY <1>8, <1>1, <2>2 DEF ResetAdminLoginFailures, Return
    <2> QED BY <2>2, <2>3, <2>4, QuietKeepsPasswords DEF Idle, LoginSteps, ChangeSteps
  <1>9. CASE CreateRefreshToken(r)
    <2>1. /\ Return(r) /\ UNCHANGED admin /\ request[r].step = "create"
          /\ \/ UNCHANGED token
             \/ \E t \in Tokens : /\ Issues(t)
                                  /\ token'[t].admin = request[r].admin
                                  /\ token'[t].password = request[r].password
      BY <1>9, IssueStep DEF CreateRefreshToken, At
    <2>2. request'[r] = Idle /\ \A q \in Requests \ {r} : request'[q] = request[q]
      BY <2>1, <1>1 DEF Return
    <2>3. CASE UNCHANGED token
      BY <2>1, <2>2, <2>3, QuietKeepsPasswords DEF Idle, LoginSteps, ChangeSteps, There
    <2>4. ASSUME NEW t \in Tokens, Issues(t), token'[t].admin = request[r].admin,
                 token'[t].password = request[r].password
          PROVE  PasswordParts'
      <3>1. LoginsApart'
        BY <2>2 DEF PasswordParts, LoginsApart, Idle, LoginSteps, ChangeSteps
      <3>2. LoginsKnow' BY <2>1, <2>2 DEF PasswordParts, LoginsKnow, There, Idle
      <3>3. There(a) /\ request[r].password = admin[a].password
        BY <2>1 DEF PasswordParts, LoginsKnow
      <3>4. \A b : Serving({"revokeAll"}, b) => Serving({"revokeAll"}, b)'
        BY <2>1, <2>2 DEF Serving
      <3>5. TokensKnow'
        BY <2>1, <2>4, <3>3, <3>4 DEF PasswordParts, TokensKnow, Issues, Live, There
      <3> QED BY <3>1, <3>2, <3>5 DEF PasswordParts
    <2> QED BY <2>1, <2>3, <2>4
  <1>10. CASE \/ CheckAdminOfToken(r)
              \/ \E t \in Tokens : AdminRefreshToken(r, t) \/ AdminLogout(r, t)
    <2>0. CheckAdminOfToken(r) => request[r].token \in Tokens
      BY RequestShape DEF CheckAdminOfToken, At, WithToken
    <2>1. /\ UNCHANGED <<token, admin>>
          /\ \A q \in Requests \ {r} : request'[q] = request[q]
          /\ request'[r].step \notin LoginSteps \cup ChangeSteps
          /\ request[r].step \notin LoginSteps \cup ChangeSteps
      BY <1>10, <2>0, HoldStep
    <2> QED BY <2>1, QuietKeepsPasswords DEF LoginSteps, ChangeSteps, There
  <1>11. CASE RotateRefreshToken(r) \/ RevokeRefreshToken(r)
    <2>1. /\ Return(r) /\ UNCHANGED admin
          /\ UNCHANGED token \/ Revokes \/ \E t, u \in Tokens : Replaces(t, u)
          /\ request[r].step \in {"rotate", "revoke"}
      BY <1>11, RotateStep, RevokeStep DEF RotateRefreshToken, RevokeRefreshToken, At
    <2>2. request'[r] = Idle /\ \A q \in Requests \ {r} : request'[q] = request[q]
      BY <2>1, <1>1 DEF Return
    <2> QED BY <2>1, <2>2, QuietKeepsPasswords DEF Idle, LoginSteps, ChangeSteps, There
  <1>12. ~ Crash(r) BY <1>0 DEF Crash
  <1> QED BY <1>2, <1>3, <1>4, <1>5, <1>6, <1>7, <1>8, <1>9, <1>10, <1>11, <1>12 DEF Serve

LEMMA HazardsFixed == [Next]_vars => hazards' = hazards
  <1>1. ASSUME NEW r \in Requests, Serve(r) PROVE hazards' = hazards
    BY <1>1
    DEF Serve, ChangeMyPassword, ResetAdminPassword, DeleteAdmin, AdminLogin,
        AdminRefreshToken, AdminLogout, UpdateAdminPassword,
        RevokeRefreshTokensByAdmin, SetAdminLoginFailure,
        ResetAdminLoginFailures, CreateRefreshToken, CheckAdminOfToken,
        RotateRefreshToken, RevokeRefreshToken, Crash
  <1>2. ASSUME NEW a \in Admins,
               \/ CreateAdmin(a) \/ LockExpires(a)
               \/ \E e \in BOOLEAN : SetAdminStatus(a, e)
        PROVE  hazards' = hazards
    BY <1>2 DEF CreateAdmin, LockExpires, SetAdminStatus
  <1>3. CASE UNCHANGED vars BY <1>3 DEF vars
  <1> QED BY <1>1, <1>2, <1>3 DEF Next

LEMMA NextPasswords == TokenInv /\ PasswordInv /\ [Next]_vars => PasswordInv'
  <1> SUFFICES ASSUME TokenInv, PasswordParts, Harmless, [Next]_vars
               PROVE  PasswordParts'
    BY HazardsFixed DEF PasswordInv, Harmless
  <1>1. ASSUME NEW r \in Requests, Serve(r) PROVE PasswordParts'
    BY <1>1, ServeKeepsPasswords
  <1>2. ASSUME NEW a \in Admins,
               \/ CreateAdmin(a) \/ LockExpires(a)
               \/ \E e \in BOOLEAN : SetAdminStatus(a, e)
        PROVE  PasswordParts'
    <2>1. /\ UNCHANGED <<token, request>>
          /\ \A b \in Admins :
               There(b) => There(b)' /\ admin'[b].password = admin[b].password
      BY <1>2, AdminShape
      DEF CreateAdmin, LockExpires, SetAdminStatus, There, TokenInv, TypeOK, Row, NoRow
    <2> QED BY <2>1, QuietKeepsPasswords DEF LoginSteps, ChangeSteps
  <1>3. CASE UNCHANGED vars
    BY <1>3, QuietKeepsPasswords DEF vars, There, LoginSteps, ChangeSteps
  <1> QED BY <1>1, <1>2, <1>3 DEF Next

(* Once a change of the password or the deletion of an account has run to   *)
(* its end, every live token of the account is of its present password.    *)
THEOREM PasswordsEndSessions == Spec => []PasswordEndsSessions
  <1>1. Init => PasswordInv
    BY DEF Init, PasswordInv, PasswordParts, LoginsApart, LoginsKnow, TokensKnow,
       Idle, LoginSteps, ChangeSteps, Live, NoToken
  <1>2. TokenInv /\ PasswordInv => PasswordEndsSessions
    BY DEF PasswordInv, Harmless, PasswordParts, TokensKnow, PasswordEndsSessions,
       Serving, ChangeSteps
  <1> QED BY InitTokens, NextTokens, NextPasswords, <1>1, <1>2, PTL DEF Spec
-----------------------------------------------------------------------------
(* Wrong passwords.  Without overlapping logins, an account that has a      *)
(* login under way has one, and is not locked; a failure that is still to   *)
(* be written carries the streak, and else the row does.                    *)
LoginsAlone ==
  \A r, q \in Requests :
    /\ request[r].step \in LoginSteps /\ request[q].step \in LoginSteps
    /\ request[r].admin = request[q].admin
    => r = q

LoginsUnlocked ==
  \A r \in Requests :
    request[r].step \in LoginSteps /\ There(request[r].admin) =>
      ~ admin[request[r].admin].locked

LockParts == LoginsAlone /\ LoginsUnlocked
LockInv == "logins_overlap" \notin hazards => LockParts

CountHeld ==
  \A r \in Requests :
    At(r, "fail") => request[r].count = streak[request[r].admin]

CountKept ==
  \A a \in Admins :
    There(a) /\ ~ Serving({"fail"}, a) =>
      /\ admin[a].failed = streak[a]
      /\ admin[a].locked => streak[a] >= MaxLoginFailures

CountZero == \A a \in Admins : admin[a] = NoRow => streak[a] = 0

CountParts == CountHeld /\ CountKept /\ CountZero
CountInv == hazards \subseteq {"change_overlap"} => CountParts

(* A step that neither starts nor decides a login.                         *)
LeavesLogins ==
  /\ \A q \in Requests :
       /\ request'[q].step \in LoginSteps =>
            request[q].step \in LoginSteps /\ request'[q].admin = request[q].admin
       /\ request'[q].step = "fail" => request'[q] = request[q]
       /\ request[q].step = "fail" => request'[q] = request[q] \/ "crash" \in hazards
  /\ \A b \in Admins :
       /\ There(b)' => /\ There(b)
                       /\ admin'[b].failed = admin[b].failed
                       /\ admin'[b].locked => admin[b].locked
       /\ There(b) /\ admin[b].locked => admin'[b].locked \/ LockExpires(b)
       /\ admin'[b] = NoRow => admin[b] = NoRow
  /\ UNCHANGED streak

LEMMA LeavingKeepsLocks ==
  ASSUME TypeOK, LockParts, LeavesLogins
  PROVE  LockParts'
  <1>1. LoginsAlone' BY DEF LockParts, LoginsAlone, LeavesLogins
  <1>2. LoginsUnlocked'
    <2> SUFFICES ASSUME NEW r \in Requests, request'[r].step \in LoginSteps,
                        There(request[r].admin)'
                 PROVE  ~ admin'[request'[r].admin].locked
      BY DEF LoginsUnlocked, LeavesLogins, There
    <2>1. request[r].step \in LoginSteps /\ request'[r].admin = request[r].admin
      BY DEF LeavesLogins
    <2>2. request[r].admin \in Admins BY <2>1, RequestAdmin
    <2> QED BY <2>1, <2>2 DEF LockParts, LoginsUnlocked, LeavesLogins, There
  <1> QED BY <1>1, <1>2 DEF LockParts

LEMMA LeavingKeepsCounts ==
  ASSUME TypeOK, CountParts, LeavesLogins, "crash" \notin hazards
  PROVE  CountParts'
  <1>1. CountHeld' BY DEF CountParts, CountHeld, LeavesLogins, At
  <1>2. CountKept'
    <2> SUFFICES ASSUME NEW a \in Admins, There(a)', ~ Serving({"fail"}, a)'
                 PROVE  /\ admin'[a].failed = streak[a]
                        /\ admin'[a].locked => streak[a] >= MaxLoginFailures
      BY DEF CountKept, LeavesLogins
    <2>1. ~ Serving({"fail"}, a) BY DEF Serving, LeavesLogins
    <2> QED BY <2>1 DEF CountParts, CountKept, LeavesLogins
  <1>3. CountZero' BY DEF CountParts, CountZero, LeavesLogins
  <1> QED BY <1>1, <1>2, <1>3 DEF CountParts

(* Every step but these four leaves the logins alone.                      *)
DecidesLogin(r, a) ==
  AdminLogin(r, a) \/ SetAdminLoginFailure(r) \/ ResetAdminLoginFailures(r)

LEMMA OthersLeaveLogins ==
  ASSUME TokenInv, [Next]_vars
  PROVE  \/ LeavesLogins
         \/ \E a \in Admins : CreateAdmin(a)
         \/ \E r \in Requests, a \in Admins : DecidesLogin(r, a)
  <1> USE DEF TokenInv
  <1>1. ASSUME NEW r \in Requests, NEW s, Goto(r, s)
        PROVE  request'[r] = s /\ \A q \in Requests \ {r} : request'[q] = request[q]
    BY <1>1 DEF TypeOK, Goto
  <1>2. ASSUME NEW r \in Requests, UNCHANGED <<admin, streak>>,
               \A q \in Requests \ {r} : request'[q] = request[q],
               request'[r].step \in LoginSteps => request'[r] = request[r],
               request[r].step = "fail" => "crash" \in hazards
        PROVE  LeavesLogins
    BY <1>2 DEF LeavesLogins, There, LoginSteps
  <1>3. ASSUME NEW r \in Requests, UNCHANGED <<admin, streak>>, Return(r),
               request[r].step = "fail" => "crash" \in hazards
        PROVE  LeavesLogins
    <2>1. request'[r] = Idle /\ \A q \in Requests \ {r} : request'[q] = request[q]
      BY <1>1, <1>3 DEF Return
    <2> QED BY <1>2, <1>3, <2>1 DEF Idle, LoginSteps
  <1>4. ASSUME NEW r \in Requests, NEW a \in Admins,
               Goto(r, [step |-> "revokeAll", admin |-> a]),
               SetPassword(a) \/ admin' = [admin EXCEPT ![a].there = "deleted"],
               There(a), request[r].step # "fail", UNCHANGED streak
        PROVE  LeavesLogins
    <2>1. /\ request'[r] = [step |-> "revokeAll", admin |-> a]
          /\ \A q \in Requests \ {r} : request'[q] = request[q]
      BY <1>1, <1>4
    <2>2. admin[a] \in Row BY <1>4, AdminShape
    <2>3. /\ \A b \in Admins \ {a} : admin'[b] = admin[b]
          /\ admin'[a].failed = admin[a].failed /\ admin'[a].locked = admin[a].locked
          /\ admin'[a] # NoRow
      BY <1>4, <2>2, AdminShape DEF SetPassword, Row, TypeOK, NoRow
    <2> QED BY <1>4, <2>1, <2>3 DEF LeavesLogins, There, LoginSteps
  <1>5. ASSUME NEW r \in Requests, Serve(r)
        PROVE  LeavesLogins \/ \E a \in Admins : DecidesLogin(r, a)
    <2>1. CASE \E a \in Admins : ChangeMyPassword(r, a)
      <3> PICK a \in Admins : ChangeMyPassword(r, a) BY <2>1
      <3>1. /\ request'[r] = [step |-> "update", admin |-> a]
            /\ \A q \in Requests \ {r} : request'[q] = request[q]
        BY <1>1 DEF ChangeMyPassword
      <3> QED BY <1>2, <3>1 DEF ChangeMyPassword, At, LoginSteps
    <2>2. CASE \E a \in Admins : ResetAdminPassword(r, a) \/ DeleteAdmin(r, a)
      BY <2>2, <1>4 DEF ResetAdminPassword, DeleteAdmin, At
    <2>3. CASE UpdateAdminPassword(r)
      <3>1. request[r].admin \in Admins
        BY <2>3, RequestAdmin DEF UpdateAdminPassword, At, ChangeSteps
      <3> QED BY <2>3, <3>1, <1>3, <1>4 DEF UpdateAdminPassword, At
    <2>4. CASE \/ RevokeRefreshTokensByAdmin(r) \/ CreateRefreshToken(r)
               \/ RotateRefreshToken(r) \/ RevokeRefreshToken(r) \/ Crash(r)
      BY <2>4, <1>3 DEF RevokeRefreshTokensByAdmin, CreateRefreshToken,
         RotateRefreshToken, RevokeRefreshToken, Crash, At
    <2>5. CASE \/ CheckAdminOfToken(r)
               \/ \E t \in Tokens : AdminRefreshToken(r, t) \/ AdminLogout(r, t)
      <3>0. CheckAdminOfToken(r) => request[r].token \in Tokens
        BY RequestShape DEF CheckAdminOfToken, At, WithToken
      <3>1. /\ UNCHANGED <<token, admin>>
            /\ \A q \in Requests \ {r} : request'[q] = request[q]
            /\ request'[r].step \notin LoginSteps \cup ChangeSteps
            /\ request[r].step \notin LoginSteps \cup ChangeSteps
        BY <2>5, <3>0, HoldStep
      <3>2. UNCHANGED streak
        BY <2>5 DEF CheckAdminOfToken, AdminRefreshToken, AdminLogout
      <3> QED BY <1>2, <3>1, <3>2 DEF LoginSteps
    <2>6. CASE \/ \E a \in Admins : AdminLogin(r, a)
               \/ SetAdminLoginFailure(r) \/ ResetAdminLoginFailures(r)
      <3>1. SetAdminLoginFailure(r) \/ ResetAdminLoginFailures(r) => request[r].admin \in Admins
        BY RequestAdmin DEF SetAdminLoginFailure, ResetAdminLoginFailures, At, LoginSteps
      <3> QED BY <2>6, <3>1 DEF DecidesLogin
    <2> QED BY <1>5, <2>1, <2>2, <2>3, <2>4, <2>5, <2>6 DEF Serve
  <1>6. ASSUME NEW a \in Admins, LockExpires(a) \/ \E e \in BOOLEAN : SetAdminStatus(a, e)
        PROVE  LeavesLogins
    <2>1. admin[a] \in Row BY <1>6, AdminShape DEF LockExpires, SetAdminStatus
    <2>2. /\ \A b \in Admins \ {a} : admin'[b] = admin[b]
          /\ admin'[a].failed = admin[a].failed
          /\ admin'[a].locked => admin[a].locked
          /\ admin[a].locked => admin'[a].locked \/ LockExpires(a)
          /\ admin'[a] # NoRow /\ There(a)
      BY <1>6, <2>1, AdminShape DEF LockExpires, SetAdminStatus, Row, TypeOK, NoRow
    <2>3. UNCHANGED <<request, streak>> BY <1>6 DEF LockExpires, SetAdminStatus
    <2> QED BY <2>2, <2>3 DEF LeavesLogins, There, LoginSteps
  <1>7. CASE UNCHANGED vars BY <1>7 DEF vars, LeavesLogins, There, LoginSteps
  <1> QED BY <1>5, <1>6, <1>7 DEF Next

LEMMA NextLocks == TokenInv /\ LockInv /\ [Next]_vars => LockInv'
  <1> SUFFICES ASSUME TokenInv, LockParts, "logins_overlap" \notin hazards, [Next]_vars
               PROVE  LockParts'
    BY HazardsFixed DEF LockInv
  <1> USE DEF TokenInv
  <1>1. CASE LeavesLogins BY <1>1, LeavingKeepsLocks
  <1>2. ASSUME NEW a \in Admins, CreateAdmin(a) PROVE LockParts'
    <2>1. UNCHANGED request BY <1>2 DEF CreateAdmin
    <2>2. ~ admin'[a].locked /\ \A b \in Admins \ {a} : admin'[b] = admin[b]
      BY <1>2 DEF CreateAdmin, TypeOK
    <2>3. \A r \in Requests : request[r].step \in LoginSteps => request[r].admin \in Admins
      BY RequestAdmin
    <2> QED BY <2>1, <2>2, <2>3 DEF LockParts, LoginsAlone, LoginsUnlocked, There
  <1>3. ASSUME NEW r \in Requests, NEW a \in Admins, AdminLogin(r, a) PROVE LockParts'
    <2>1. /\ request'[r].step \in LoginSteps /\ request'[r].admin = a
          /\ \A q \in Requests \ {r} : request'[q] = request[q]
      BY <1>3 DEF AdminLogin, Goto, LoginSteps, TypeOK
    <2>2. ~ Serving(LoginSteps, a) /\ ~ admin[a].locked /\ UNCHANGED admin
      BY <1>3 DEF AdminLogin, LoginAllowed, Usable
    <2> QED BY <2>1, <2>2
         DEF LockParts, LoginsAlone, LoginsUnlocked, Serving, LoginSteps, There
  <1>4. ASSUME NEW r \in Requests, SetAdminLoginFailure(r) \/ ResetAdminLoginFailures(r)
        PROVE  LockParts'
    <2> DEFINE a == request[r].admin
    <2>1. request[r].step \in LoginSteps /\ a \in Admins
      BY <1>4, RequestAdmin DEF SetAdminLoginFailure, ResetAdminLoginFailures, At, LoginSteps
    <2>2. /\ request'[r].step \in LoginSteps => ResetAdminLoginFailures(r)
          /\ request'[r].step \in LoginSteps => request'[r].admin = a /\ ~ admin'[a].locked
          /\ \A q \in Requests \ {r} : request'[q] = request[q]
      <3>1. CASE SetAdminLoginFailure(r)
        BY <3>1 DEF SetAdminLoginFailure, Return, Goto, Idle, LoginSteps, TypeOK
      <3>2. CASE ResetAdminLoginFailures(r)
        <4>1. request[r] \in [step: {"reset", "create"}, admin: Admins, password: Nat]
          BY <3>2, RequestShape DEF ResetAdminLoginFailures, At
        <4>2. CASE Return(r)
          BY <4>2, <3>2 DEF Return, Goto, Idle, LoginSteps, TypeOK
        <4>3. CASE /\ There(a)
                   /\ admin' = [admin EXCEPT ![a].failed = 0, ![a].locked = FALSE]
                   /\ Goto(r, [request[r] EXCEPT !.step = "create"])
          <5>1. admin[a] \in Row BY <4>3, <2>1, AdminShape
          <5>2. ~ admin'[a].locked BY <4>3, <2>1, <5>1 DEF TypeOK, Row
          <5>3. /\ request'[r] = [request[r] EXCEPT !.step = "create"]
                /\ \A q \in Requests \ {r} : request'[q] = request[q]
            BY <4>3 DEF Goto, TypeOK
          <5> QED BY <3>2, <4>1, <5>2, <5>3
        <4> QED BY <3>2, <4>2, <4>3 DEF ResetAdminLoginFailures
      <3> QED BY <1>4, <3>1, <3>2
    <2>3. \A b \in Admins \ {a} : admin'[b] = admin[b]
      BY <1>4 DEF SetAdminLoginFailure, ResetAdminLoginFailures, TypeOK
    <2>4. LoginsAlone' BY <2>1, <2>2 DEF LockParts, LoginsAlone
    <2>5. LoginsUnlocked'
      <3> SUFFICES ASSUME NEW q \in Requests \ {r}, request[q].step \in LoginSteps,
                          There(request[q].admin)'
                   PROVE  ~ admin'[request[q].admin].locked
        BY <2>2 DEF LoginsUnlocked, There
      <3>1. request[q].admin \in Admins \ {a}
        BY <2>1, RequestAdmin DEF LockParts, LoginsAlone
      <3> QED BY <2>2, <2>3, <3>1 DEF LockParts, LoginsUnlocked, There
    <2> QED BY <2>4, <2>5 DEF LockParts
  <1> QED BY OthersLeaveLogins, <1>1, <1>2, <1>3, <1>4 DEF DecidesLogin

LEMMA NextCounts ==
  TokenInv /\ LockInv /\ CountInv /\ [Next]_vars => CountInv'
  <1> SUFFICES ASSUME TokenInv, LoginsAlone, CountParts, [Next]_vars,
                      hazards \subseteq {"change_overlap"}
               PROVE  CountParts'
    <2> SUFFICES ASSUME TokenInv, LockInv, CountInv, [Next]_vars,
                        hazards' \subseteq {"change_overlap"}
                 PROVE  CountParts'
      BY DEF CountInv
    <2>1. hazards \subseteq {"change_overlap"} BY HazardsFixed
    <2>2. "logins_overlap" \notin hazards BY <2>1
    <2> QED BY <2>1, <2>2 DEF LockInv, LockParts, CountInv
  <1> USE DEF TokenInv
  <1>1. CASE LeavesLogins BY <1>1, LeavingKeepsCounts
  <1>2. ASSUME NEW a \in Admins, CreateAdmin(a) PROVE CountParts'
    <2>1. UNCHANGED <<request, streak>> /\ admin[a] = NoRow BY <1>2 DEF CreateAdmin
    <2>2. /\ admin'[a].failed = 0 /\ ~ admin'[a].locked /\ admin'[a] # NoRow
          /\ \A b \in Admins \ {a} : admin'[b] = admin[b]
      BY <1>2 DEF CreateAdmin, TypeOK, NoRow
    <2>3. streak[a] = 0 BY <2>1 DEF CountParts, CountZero
    <2> QED BY <2>1, <2>2, <2>3
         DEF CountParts, CountHeld, CountKept, CountZero, There, Serving, At
  <1>3. ASSUME NEW r \in Requests, NEW a \in Admins, AdminLogin(r, a) PROVE CountParts'
    <2>1. /\ At(r, "idle") /\ There(a) /\ UNCHANGED admin
          /\ ~ Serving(LoginSteps, a)
      BY <1>3 DEF AdminLogin, LoginAllowed, Usable
    <2>2. admin[a].failed = streak[a] /\ admin[a] # NoRow
      BY <2>1, AdminShape DEF CountParts, CountKept, Serving, LoginSteps, There
    <2>3. CASE /\ UNCHANGED streak
               /\ Goto(r, [step |-> "reset", admin |-> a, password |-> admin[a].password])
      <3>1. /\ request'[r] = [step |-> "reset", admin |-> a, password |-> admin[a].password]
            /\ \A q \in Requests \ {r} : request'[q] = request[q]
        BY <2>3 DEF Goto, TypeOK
      <3> QED BY <2>1, <2>3, <3>1
           DEF CountParts, CountHeld, CountKept, CountZero, There, Serving, At
    <2>4. CASE /\ streak' = [streak EXCEPT ![a] = @ + 1]
               /\ Goto(r, [step |-> "fail", admin |-> a, count |-> admin[a].failed + 1])
      <3>1. /\ request'[r] = [step |-> "fail", admin |-> a, count |-> admin[a].failed + 1]
            /\ \A q \in Requests \ {r} : request'[q] = request[q]
        BY <2>4 DEF Goto, TypeOK
      <3>2. /\ streak'[a] = streak[a] + 1
            /\ \A b \in Admins \ {a} : streak'[b] = streak[b]
        BY <2>4 DEF TypeOK
      <3>3. CountHeld'
        <4> SUFFICES ASSUME NEW q \in Requests, request'[q].step = "fail"
                     PROVE  request'[q].count = streak'[request'[q].admin]
          BY DEF CountHeld, At
        <4>1. CASE q = r BY <4>1, <2>2, <3>1, <3>2
        <4>2. CASE q # r
          <5>1. request'[q] = request[q] /\ request[q].admin \in Admins \ {a}
            BY <4>2, <2>1, <3>1, RequestAdmin DEF Serving, LoginSteps
          <5> QED BY <5>1, <3>2 DEF CountParts, CountHeld, At
        <4> QED BY <4>1, <4>2
      <3>4. CountKept'
        BY <2>1, <3>1, <3>2 DEF CountParts, CountKept, There, Serving, At
      <3>5. CountZero' BY <2>1, <2>2, <3>2 DEF CountParts, CountZero
      <3> QED BY <3>3, <3>4, <3>5 DEF CountParts
    <2> QED BY <1>3, <2>3, <2>4 DEF AdminLogin
  <1>4. ASSUME NEW r \in Requests, SetAdminLoginFailure(r) PROVE CountParts'
    <2> DEFINE a == request[r].admin
    <2>1. a \in Admins /\ request[r].step = "fail" /\ UNCHANGED streak
      BY <1>4, RequestAdmin DEF SetAdminLoginFailure, At, LoginSteps
    <2>2. request[r].count = streak[a] BY <2>1 DEF CountParts, CountHeld, At
    <2>3. request'[r] = Idle /\ \A q \in Requests \ {r} : request'[q] = request[q]
      BY <1>4 DEF SetAdminLoginFailure, Return, Goto, TypeOK
    <2>4. CountHeld' BY <2>1, <2>3 DEF CountParts, CountHeld, At, Idle
    <2>5. \A b \in Admins \ {a} : admin'[b] = admin[b]
      BY <1>4 DEF SetAdminLoginFailure, TypeOK
    <2>6. /\ admin'[a].there = "yes" =>
                /\ admin'[a].failed = streak[a]
                /\ admin'[a].locked => streak[a] >= MaxLoginFailures
          /\ admin'[a] = NoRow => admin[a] = NoRow
      <3>1. CASE /\ There(a)
                 /\ admin' = [admin EXCEPT ![a].failed = request[r].count,
                                ![a].locked = (request[r].count >= MaxLoginFailures)]
        <4>1. admin[a] \in Row BY <3>1, <2>1, AdminShape
        <4> QED BY <3>1, <4>1, <2>1, <2>2 DEF Row, TypeOK, NoRow
      <3>2. CASE ~ There(a) /\ UNCHANGED admin BY <3>2 DEF There
      <3> QED BY <1>4, <3>1, <3>2 DEF SetAdminLoginFailure
    <2>7. CountKept'
      <3> SUFFICES ASSUME NEW b \in Admins \ {a}, There(b)', ~ Serving({"fail"}, b)'
                   PROVE  /\ admin'[b].failed = streak[b]
                          /\ admin'[b].locked => streak[b] >= MaxLoginFailures
        BY <2>1, <2>6 DEF CountKept, There
      <3>1. ~ Serving({"fail"}, b) BY <2>3 DEF Serving
      <3> QED BY <2>5, <3>1 DEF CountParts, CountKept, There
    <2>8. CountZero' BY <2>1, <2>5, <2>6 DEF CountParts, CountZero
    <2> QED BY <2>4, <2>7, <2>8 DEF CountParts
  <1>5. ASSUME NEW r \in Requests, ResetAdminLoginFailures(r) PROVE CountParts'
    <2> DEFINE a == request[r].admin
    <2>1. /\ a \in Admins /\ request[r].step = "reset"
          /\ request[r] \in [step: {"reset", "create"}, admin: Admins, password: Nat]
      BY <1>5, RequestAdmin, RequestShape DEF ResetAdminLoginFailures, At, LoginSteps
    <2>2. CASE Return(r) /\ UNCHANGED <<admin, streak>>
      <3>1. request'[r] = Idle /\ \A q \in Requests \ {r} : request'[q] = request[q]
        BY <2>2 DEF Return, Goto, TypeOK
      <3> QED BY <2>1, <2>2, <3>1
           DEF CountParts, CountHeld, CountKept, CountZero, There, Serving, At, Idle
    <2>3. CASE /\ There(a)
               /\ admin' = [admin EXCEPT ![a].failed = 0, ![a].locked = FALSE]
               /\ streak' = [streak EXCEPT ![a] = 0]
               /\ Goto(r, [request[r] EXCEPT !.step = "create"])
      <3>1. /\ request'[r] = [request[r] EXCEPT !.step = "create"]
            /\ \A q \in Requests \ {r} : request'[q] = request[q]
        BY <2>3 DEF Goto, TypeOK
      <3>2. request'[r].step = "create" BY <2>1, <3>1
      <3>3. admin[a] \in Row BY <2>1, <2>3, AdminShape
      <3>4. /\ admin'[a].failed = 0 /\ ~ admin'[a].locked /\ admin'[a] # NoRow
            /\ \A b \in Admins \ {a} : admin'[b] = admin[b]
        BY <2>1, <2>3, <3>3 DEF Row, TypeOK, NoRow
      <3>5. streak'[a] = 0 /\ \A b \in Admins \ {a} : streak'[b] = streak[b]
        BY <2>1, <2>3 DEF TypeOK
      <3>6. CountHeld'
        <4> SUFFICES ASSUME NEW q \in Requests, request'[q].step = "fail"
                     PROVE  request'[q].count = streak'[request'[q].admin]
          BY DEF CountHeld, At
        <4>1. q # r /\ request'[q] = request[q] BY <3>1, <3>2
        <4>2. request[q].admin \in Admins \ {a}
          BY <2>1, <4>1, RequestAdmin DEF LoginsAlone, LoginSteps
        <4> QED BY <4>1, <4>2, <3>5 DEF CountParts, CountHeld, At
      <3>7. CountKept'
        <4> SUFFICES ASSUME NEW b \in Admins \ {a}, There(b)', ~ Serving({"fail"}, b)'
                     PROVE  /\ admin'[b].failed = streak'[b]
                            /\ admin'[b].locked => streak'[b] >= MaxLoginFailures
          BY <3>4, <3>5 DEF CountKept
        <4>1. ~ Serving({"fail"}, b) BY <2>1, <3>1 DEF Serving
        <4> QED BY <3>4, <3>5, <4>1 DEF CountParts, CountKept, There
      <3>8. CountZero' BY <3>4, <3>5 DEF CountParts, CountZero
      <3> QED BY <3>6, <3>7, <3>8 DEF CountParts
    <2> QED BY <1>5, <2>2, <2>3 DEF ResetAdminLoginFailures
  <1> QED BY OthersLeaveLogins, <1>1, <1>2, <1>3, <1>4, <1>5 DEF DecidesLogin

LEMMA InitLogins == Init => LockInv /\ CountInv
  BY DEF Init, LockInv, LockParts, LoginsAlone, LoginsUnlocked, CountInv,
     CountParts, CountHeld, CountKept, CountZero, There, NoRow, Idle, At, LoginSteps

(* Without overlapping logins, errors and crashes, the count of a row is    *)
(* the number of wrong passwords since the last login, and an account is    *)
(* locked only once there are as many as the threshold.                     *)
THEOREM CountIsStreak == Spec => []FailuresCounted
  <1>1. CountInv => FailuresCounted
    BY DEF CountInv, CountParts, CountKept, FailuresCounted, Serving, LoginSteps
  <1> QED BY InitTokens, NextTokens, InitLogins, NextLocks, NextCounts, <1>1, PTL DEF Spec

(* Without overlapping logins, a locked account is unlocked by the clock    *)
(* alone, whatever fails or crashes.                                        *)
THEOREM LockEndsByClock == Spec => LockHolds
  <1> DEFINE Held == \A a \in Admins :
                       There(a) /\ admin[a].locked /\ "logins_overlap" \notin hazards =>
                         admin'[a].locked \/ LockExpires(a)
  <1>1. TokenInv /\ LockInv /\ [Next]_vars => [Held]_vars
    <2> SUFFICES ASSUME TokenInv, LockParts, [Next]_vars, NEW a \in Admins,
                        There(a), admin[a].locked
                 PROVE  admin'[a].locked \/ LockExpires(a)
      BY DEF LockInv
    <2> USE DEF TokenInv
    <2>1. CASE LeavesLogins BY <2>1 DEF LeavesLogins
    <2>2. ASSUME NEW b \in Admins, CreateAdmin(b) PROVE admin'[a] = admin[a]
      BY <2>2, AdminShape DEF CreateAdmin, There, TypeOK, NoRow
    <2>3. ASSUME NEW r \in Requests, NEW b \in Admins, DecidesLogin(r, b)
          PROVE  admin'[a] = admin[a]
      <3>1. CASE AdminLogin(r, b) BY <3>1 DEF AdminLogin
      <3>2. CASE SetAdminLoginFailure(r) \/ ResetAdminLoginFailures(r)
        <4>1. request[r].step \in LoginSteps /\ request[r].admin \in Admins
          BY <3>2, RequestAdmin
          DEF SetAdminLoginFailure, ResetAdminLoginFailures, At, LoginSteps
        <4>2. request[r].admin # a BY <4>1 DEF LockParts, LoginsUnlocked
        <4> QED BY <3>2, <4>1, <4>2
             DEF SetAdminLoginFailure, ResetAdminLoginFailures, TypeOK
      <3> QED BY <2>3, <3>1, <3>2 DEF DecidesLogin
    <2> QED BY OthersLeaveLogins, <2>1, <2>2, <2>3
  <1> QED BY InitTokens, NextTokens, InitLogins, NextLocks, <1>1, PTL DEF Spec, LockHolds

=============================================================================
