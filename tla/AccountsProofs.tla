--------------------------- MODULE AccountsProofs ---------------------------
(***************************************************************************)
(* What may be used once is used once, sessions that have to end do,       *)
(* requests that do not overlap leave nothing stale behind, and the last   *)
(* administrator falls only to the command line or to a caller who lost    *)
(* the role meanwhile: for any users, tables and requests.                 *)
(***************************************************************************)
EXTENDS Accounts, TLAPS

OpType ==
  /\ DOMAIN at = Request
  /\ DOMAIN op = Request
  /\ \A r \in Request : {"name", "user", "token", "role"} \subseteq DOMAIN op[r]
  /\ \A r \in Request : op[r].user \in User
  /\ \A z \in resets : z.user \in User

\* A recovery code belongs to one user and is unspent, and what a request made
\* it made before its last statement.
CodesAreFresh ==
  /\ DOMAIN codes = User
  /\ \A u, v \in User : u # v => codes[u] \cap codes[v] = {}
  /\ \A x \in spent : \A u \in User : x[1] \notin codes[u]
  /\ \A u \in User, r \in Request, i \in {1, 2} :
       <<r, i>> \in codes[u] => at[r] \in {"enable", "done"}
  /\ \A x \in spent, r \in Request, i \in {1, 2} :
       x[1] = <<r, i>> => at[r] \in {"enable", "done"}

\* A session is made by the last statement of its sign-in.
SessionsAreFresh ==
  /\ faults \in Nat
  /\ \A s \in sessions \cup ended : s.id \in Request => at[s.id] = "done"

\* A link has one token, which no other link has or had.
ResetsAreFresh ==
  /\ \A y, z \in resets : y.token = z.token => y = z
  /\ \A z \in resets : z.token \in Request => at[z.token] = "done"
  /\ \A r \in Request : op[r].name = "redeem" =>
       /\ op[r].token \in Request => at[op[r].token] = "done"
       /\ op[r].token # None => \A z \in resets : z.token # op[r].token

CodesInv == OpType /\ CodesAreFresh /\ CodeOpensOnce
SessionsInv == OpType /\ SessionsAreFresh /\ EndedSessionsGo
ResetsInv == OpType /\ ResetsAreFresh /\ ResetSpentOnce

\* Where a step of the program may leave a request that is before its last
\* statement or done, and whom it is about.
LEMMA StepShape ==
  ASSUME OpType, Next
  PROVE  /\ \A r \in Request : at[r] \in {"enable", "done"} => at'[r] \in {"enable", "done"}
         /\ \A r \in Request : at[r] = "done" => at'[r] = "done"
<1> USE DEF OpType, Goto
<1>1. ASSUME NEW r \in Request, SignIn(r)
      PROVE  at[r] \notin {"enable", "done"} /\ \A q \in Request \ {r} : at'[q] = at[q]
  BY <1>1 DEF SignIn, Authenticate, VerifySecondFactor, UseRecoveryCode, RecordLoginFailure,
              RecordLoginSuccess, CreateSession
<1>2. ASSUME NEW r \in Request, AuthenticateSession(r)
      PROVE  at[r] \notin {"enable", "done"} /\ \A q \in Request \ {r} : at'[q] = at[q]
  BY <1>2 DEF AuthenticateSession
<1>3. ASSUME NEW r \in Request, SelfService(r)
      PROVE  /\ at[r] # "done" /\ (at[r] = "enable" => at'[r] = "done")
             /\ \A q \in Request \ {r} : at'[q] = at[q]
  BY <1>3 DEF SelfService, CheckPassword, ConsumeReset, SetPassword, DeleteUserSessions, Logout,
              WriteSecret, ForgetCodes, ConfirmTOTP, ReplaceRecoveryCodes, EnableTOTP
<1>4. ASSUME NEW r \in Request, Administration(r)
      PROVE  at[r] \notin {"enable", "done"} /\ \A q \in Request \ {r} : at'[q] = at[q]
  BY <1>4 DEF Administration, UpdateUserRole, SetUserDisabled, ClearResets, InsertReset,
              CountUsers, CreateUser
<1>5. ASSUME NEW r \in Request, Fault(r)
      PROVE  /\ at[r] # "done" /\ (at[r] = "enable" => at'[r] = "done")
             /\ \A q \in Request \ {r} : at'[q] = at[q]
  BY <1>5 DEF Fault, UnderWay
<1>6. ASSUME Expire \/ \E u \in User : LockExpires(u) PROVE at' = at
  BY <1>6 DEF Expire, LockExpires
<1> QED BY <1>1, <1>2, <1>3, <1>4, <1>5, <1>6 DEF Next

\* The operations keep their fields and are about users.
LEMMA OpTypeStep == OpType /\ [Next]_vars => OpType'
<1> SUFFICES ASSUME OpType, [Next]_vars PROVE OpType'
  OBVIOUS
<1> USE DEF OpType, Goto, Subject
<1>1. ASSUME NEW r \in Request, ConsumeReset(r) PROVE OpType'
  <2>1. CASE \E z \in resets :
               /\ resets' = resets \ {z}
               /\ op' = [op EXCEPT ![r].user = z.user, ![r].token = z.token]
               /\ Goto(r, "password")
    <3>1. PICK z \in resets :
             /\ resets' = resets \ {z}
             /\ op' = [op EXCEPT ![r].user = z.user, ![r].token = z.token]
             /\ Goto(r, "password")
      BY <2>1
    <3> QED BY <3>1
  <2>2. CASE Goto(r, "done") /\ UNCHANGED <<resets, op>>
    BY <2>2
  <2> QED BY <1>1, <2>1, <2>2 DEF ConsumeReset
<1>2. ASSUME NEW r \in Request, CountUsers(r) PROVE OpType'
  BY <1>2 DEF CountUsers, rowVars
<1>3. ASSUME NEW r \in Request, InsertReset(r) PROVE OpType'
  BY <1>3 DEF InsertReset
<1>4. ASSUME NEW r \in Request, ClearResets(r) PROVE OpType'
  BY <1>4 DEF ClearResets
<1>5. CASE Expire
  BY <1>5 DEF Expire
<1>6. ASSUME UNCHANGED <<resets, op>>, DOMAIN at' = DOMAIN at PROVE OpType'
  BY <1>6
<1>7. ASSUME NEW r \in Request, SignIn(r) PROVE UNCHANGED <<resets, op>> /\ DOMAIN at' = DOMAIN at
  BY <1>7 DEF SignIn, Authenticate, VerifySecondFactor, UseRecoveryCode, RecordLoginFailure,
              RecordLoginSuccess, CreateSession, rowVars
<1>8. ASSUME NEW r \in Request, AuthenticateSession(r)
      PROVE UNCHANGED <<resets, op>> /\ DOMAIN at' = DOMAIN at
  BY <1>8 DEF AuthenticateSession, rowVars
<1>9. ASSUME NEW r \in Request, SelfService(r), ~ConsumeReset(r)
      PROVE UNCHANGED <<resets, op>> /\ DOMAIN at' = DOMAIN at
  BY <1>9 DEF SelfService, CheckPassword, SetPassword, DeleteUserSessions, Logout,
              WriteSecret, ForgetCodes, ConfirmTOTP, ReplaceRecoveryCodes, EnableTOTP, rowVars
<1>10. ASSUME NEW r \in Request, UpdateUserRole(r) \/ SetUserDisabled(r) \/ CreateUser(r)
       PROVE UNCHANGED <<resets, op>> /\ DOMAIN at' = DOMAIN at
  BY <1>10 DEF UpdateUserRole, SetUserDisabled, CreateUser, rowVars
<1>11. ASSUME (\E r \in Request : Fault(r)) \/ (\E u \in User : LockExpires(u)) \/ UNCHANGED vars
       PROVE UNCHANGED <<resets, op>> /\ DOMAIN at' = DOMAIN at
  BY <1>11 DEF Fault, LockExpires, vars, rowVars
<1> QED
  BY <1>1, <1>2, <1>3, <1>4, <1>5, <1>6, <1>7, <1>8, <1>9, <1>10, <1>11 DEF Next, Administration

-----------------------------------------------------------------------------
(* Recovery codes.                                                         *)

\* The statements that touch the codes.
LEMMA CodesTouched ==
  ASSUME Next
  PROVE  \/ UNCHANGED <<codes, spent>>
         \/ \E r \in Request : UseRecoveryCode(r) \/ ForgetCodes(r) \/ ReplaceRecoveryCodes(r)
<1>1. ASSUME NEW r \in Request, SignIn(r), ~UseRecoveryCode(r) PROVE UNCHANGED <<codes, spent>>
  BY <1>1 DEF SignIn, Authenticate, VerifySecondFactor, RecordLoginFailure,
              RecordLoginSuccess, CreateSession, rowVars, ghostVars
<1>2. ASSUME NEW r \in Request, SelfService(r), ~ForgetCodes(r), ~ReplaceRecoveryCodes(r)
      PROVE  UNCHANGED <<codes, spent>>
  BY <1>2 DEF SelfService, CheckPassword, ConsumeReset, SetPassword, DeleteUserSessions, Logout,
              WriteSecret, ConfirmTOTP, EnableTOTP, rowVars, ghostVars
<1>3. ASSUME NEW r \in Request, AuthenticateSession(r) \/ Administration(r) \/ Fault(r)
      PROVE  UNCHANGED <<codes, spent>>
  BY <1>3 DEF AuthenticateSession, Administration, UpdateUserRole, SetUserDisabled, ClearResets,
              InsertReset, CountUsers, CreateUser, Fault, rowVars, ghostVars
<1>4. ASSUME Expire \/ \E u \in User : LockExpires(u) PROVE UNCHANGED <<codes, spent>>
  BY <1>4 DEF Expire, LockExpires, ghostVars
<1> QED BY <1>1, <1>2, <1>3, <1>4 DEF Next

\* No statement brings a spent code back.
LEMMA CodesInvStep == CodesInv /\ [Next]_vars => CodesInv'
<1> SUFFICES ASSUME CodesInv, [Next]_vars PROVE CodesInv'
  OBVIOUS
<1>0. OpType'
  BY OpTypeStep DEF CodesInv
<1>1. CASE UNCHANGED vars
  BY <1>0, <1>1 DEF vars, rowVars, ghostVars, CodesInv, CodesAreFresh, CodeOpensOnce
<1>2. CASE Next
  <2>1. \A r \in Request : at[r] \in {"enable", "done"} => at'[r] \in {"enable", "done"}
    BY <1>2, StepShape DEF CodesInv
  <2>2. CASE UNCHANGED <<codes, spent>>
    BY <1>0, <2>1, <2>2 DEF CodesInv, CodesAreFresh, CodeOpensOnce
  <2>3. ASSUME NEW r \in Request, UseRecoveryCode(r) PROVE CodesInv'
    <3>1. CASE op[r].code \notin codes[Subject(r)]
      BY <1>0, <2>1, <2>3, <3>1 DEF UseRecoveryCode, CodesInv, CodesAreFresh, CodeOpensOnce
    <3>2. CASE op[r].code \in codes[Subject(r)]
      <4> DEFINE u == Subject(r)
                 c == op[r].code
      <4>1. u \in User
        BY DEF CodesInv, OpType, Subject
      <4>2. codes' = [codes EXCEPT ![u] = codes[u] \ {c}] /\ spent' = spent \cup {<<c, r>>}
        BY <2>3, <3>2 DEF UseRecoveryCode
      <4>3. \A x \in spent : x[1] # c
        BY <3>2, <4>1 DEF CodesInv, CodesAreFresh
      <4>4. CodeOpensOnce'
        BY <4>2, <4>3 DEF CodesInv, CodeOpensOnce
      <4>5. \A v \in User : codes'[v] \subseteq codes[v] /\ c \notin codes'[v]
        BY <3>2, <4>1, <4>2 DEF CodesInv, CodesAreFresh
      <4>6. DOMAIN codes' = User /\ \A v, w \in User : v # w => codes'[v] \cap codes'[w] = {}
        BY <4>2, <4>5 DEF CodesInv, CodesAreFresh
      <4>7. \A x \in spent' : \A v \in User : x[1] \notin codes'[v]
        BY <4>2, <4>5 DEF CodesInv, CodesAreFresh
      <4>8. \A v \in User, q \in Request, i \in {1, 2} :
              <<q, i>> \in codes'[v] => at'[q] \in {"enable", "done"}
        <5> SUFFICES ASSUME NEW v \in User, NEW q \in Request, NEW i \in {1, 2},
                            <<q, i>> \in codes'[v]
                     PROVE  at'[q] \in {"enable", "done"}
          OBVIOUS
        <5>1. <<q, i>> \in codes[v]
          BY <4>5
        <5>2. at[q] \in {"enable", "done"}
          BY <5>1 DEF CodesInv, CodesAreFresh
        <5> QED BY <2>1, <5>2
      <4>9. \A x \in spent', q \in Request, i \in {1, 2} :
              x[1] = <<q, i>> => at'[q] \in {"enable", "done"}
        <5> TAKE x \in spent', q \in Request, i \in {1, 2}
        <5>1. CASE x \in spent
          BY <2>1, <5>1 DEF CodesInv, CodesAreFresh
        <5>2. CASE x = <<c, r>>
          <6>1. x[1] \in codes[u]
            BY <3>2, <5>2
          <6> QED BY <2>1, <4>1, <6>1, ZenonT(60) DEF CodesInv, CodesAreFresh
        <5> QED BY <4>2, <5>1, <5>2
      <4> QED BY <1>0, <4>4, <4>6, <4>7, <4>8, <4>9 DEF CodesInv, CodesAreFresh
    <3> QED BY <3>1, <3>2
  <2>4. ASSUME NEW r \in Request, ForgetCodes(r) PROVE CodesInv'
    <3>1. codes' = [codes EXCEPT ![Subject(r)] = {}] /\ spent' = spent
      BY <2>4 DEF ForgetCodes
    <3>2. DOMAIN codes' = User /\ \A v \in User : codes'[v] \subseteq codes[v]
      BY <3>1 DEF CodesInv, CodesAreFresh
    <3> QED BY <1>0, <2>1, <3>1, <3>2 DEF CodesInv, CodesAreFresh, CodeOpensOnce
  <2>5. ASSUME NEW r \in Request, ReplaceRecoveryCodes(r) PROVE CodesInv'
    <3> DEFINE u == Subject(r)
               new == {<<r, 1>>, <<r, 2>>}
    <3>1. u \in User
      BY DEF CodesInv, OpType, Subject
    <3>2. /\ codes' = [codes EXCEPT ![u] = new] /\ spent' = spent
          /\ at[r] = "codes" /\ at'[r] = "enable"
      BY <2>5 DEF ReplaceRecoveryCodes, ghostVars, Goto, CodesInv, OpType
    <3>3. /\ \A v \in User : codes[v] \cap new = {}
          /\ \A x \in spent : x[1] \notin new
      BY <3>2 DEF CodesInv, CodesAreFresh
    <3>4. /\ DOMAIN codes' = User
          /\ codes'[u] = new
          /\ \A v \in User \ {u} : codes'[v] = codes[v]
      BY <3>1, <3>2 DEF CodesInv, CodesAreFresh
    <3>5. \A v, w \in User : v # w => codes'[v] \cap codes'[w] = {}
      BY <3>1, <3>3, <3>4 DEF CodesInv, CodesAreFresh
    <3>6. \A x \in spent' : \A v \in User : x[1] \notin codes'[v]
      BY <3>2, <3>3, <3>4 DEF CodesInv, CodesAreFresh
    <3>7. \A v \in User, q \in Request, i \in {1, 2} :
            <<q, i>> \in codes'[v] => at'[q] \in {"enable", "done"}
      BY <2>1, <3>2, <3>4 DEF CodesInv, CodesAreFresh
    <3>8. \A x \in spent', q \in Request, i \in {1, 2} :
            x[1] = <<q, i>> => at'[q] \in {"enable", "done"}
      BY <2>1, <3>2 DEF CodesInv, CodesAreFresh
    <3>9. CodeOpensOnce'
      BY <3>2 DEF CodesInv, CodeOpensOnce
    <3> QED BY <1>0, <3>4, <3>5, <3>6, <3>7, <3>8, <3>9 DEF CodesInv, CodesAreFresh
  <2> QED BY <1>2, <2>2, <2>3, <2>4, <2>5, CodesTouched
<1> QED BY <1>1, <1>2

\* The tables a behaviour starts from, with no request begun.
LEMMA OpTypeInit == Init => OpType
BY PlansAssumption, RowsAssumption DEF Init, OpType

\* Codes of earlier enrolments are nobody else's, and none is spent.
LEMMA CodesInvInit == Init => CodesInv
<1> SUFFICES ASSUME Init PROVE CodesInv
  OBVIOUS
<1>1. PICK t \in Rows : codes = t.codes
  BY DEF Init
<1>2. \A u \in User, r \in Request, i \in {1, 2} : <<r, i>> \notin codes[u]
  BY <1>1, RowsAssumption
<1>3. spent = {}
  BY DEF Init
<1> QED BY <1>1, <1>2, <1>3, OpTypeInit, RowsAssumption DEF CodesInv, CodesAreFresh, CodeOpensOnce

\* A recovery code lets one sign-in on, for any number of sign-ins, enrolments
\* and faults.
THEOREM RecoveryCodeOnce == Spec => []CodeOpensOnce
<1>1. CodesInv => CodeOpensOnce
  BY DEF CodesInv
<1> QED BY <1>1, CodesInvInit, CodesInvStep, PTL DEF Spec

-----------------------------------------------------------------------------
(* Sessions that have to end.                                              *)

\* The statements that touch sessions, those that had to end and the requests
\* that are to delete them.
LEMMA SessionsTouched ==
  ASSUME OpType, Next
  PROVE  \/ /\ UNCHANGED <<ended, faults>> /\ sessions' \subseteq sessions
            /\ \A r \in Request : at[r] = "purge" => at'[r] = "purge" /\ op'[r].user = op[r].user
         \/ \E r \in Request : \/ CreateSession(r) \/ SetPassword(r) \/ ForgetCodes(r)
                               \/ SetUserDisabled(r) \/ DeleteUserSessions(r) \/ Fault(r)
         \/ Expire
<1> USE DEF OpType, Goto
<1> DEFINE Quiet == /\ UNCHANGED <<ended, faults>> /\ sessions' \subseteq sessions
                    /\ \A r \in Request :
                         at[r] = "purge" => at'[r] = "purge" /\ op'[r].user = op[r].user
<1>1. ASSUME NEW r \in Request, SignIn(r), ~CreateSession(r) PROVE Quiet
  BY <1>1 DEF SignIn, Authenticate, VerifySecondFactor, UseRecoveryCode, RecordLoginFailure,
              RecordLoginSuccess, rowVars, ghostVars
<1>2. ASSUME NEW r \in Request, ConsumeReset(r) PROVE Quiet
  <2>1. at[r] = "start" /\ \A q \in Request \ {r} : at'[q] = at[q] /\ op'[q] = op[q]
    BY <1>2 DEF ConsumeReset
  <2> QED BY <1>2, <2>1 DEF ConsumeReset
<1>3. ASSUME NEW r \in Request, SelfService(r), ~ConsumeReset(r), ~SetPassword(r),
             ~DeleteUserSessions(r), ~ForgetCodes(r)
      PROVE  Quiet
  BY <1>3 DEF SelfService, CheckPassword, Logout, WriteSecret, ConfirmTOTP, ReplaceRecoveryCodes,
              EnableTOTP, rowVars, ghostVars
<1>4. ASSUME NEW r \in Request, CountUsers(r) PROVE Quiet
  BY <1>4 DEF CountUsers, rowVars, ghostVars
<1>5. ASSUME NEW r \in Request,
             AuthenticateSession(r) \/ UpdateUserRole(r) \/ ClearResets(r) \/ InsertReset(r)
               \/ CreateUser(r)
      PROVE  Quiet
  BY <1>5 DEF AuthenticateSession, UpdateUserRole, ClearResets, InsertReset, CreateUser,
              rowVars, ghostVars
<1>6. ASSUME NEW u \in User, LockExpires(u) PROVE Quiet
  BY <1>6 DEF LockExpires, ghostVars
<1> QED BY <1>1, <1>2, <1>3, <1>4, <1>5, <1>6 DEF Next, Administration

\* A statement that dooms sessions puts its own request before the one that
\* deletes them.
LEMMA DoomedIsPurged ==
  ASSUME SessionsInv, faults = 0, NEW r \in Request, at[r] # "purge",
         ended' = ended \cup SessionsOf(Subject(r)), at' = [at EXCEPT ![r] = "purge"],
         UNCHANGED <<sessions, op>>
  PROVE  EndedSessionsGo'
<1> SUFFICES ASSUME NEW s \in ended' \cap sessions'
             PROVE  \E q \in Request : at'[q] = "purge" /\ Subject(q)' = s.user
  BY DEF EndedSessionsGo
<1>1. CASE s \in SessionsOf(Subject(r))
  BY <1>1 DEF SessionsOf, Subject, SessionsInv, OpType
<1>2. CASE s \in ended
  <2>1. PICK q \in Request : at[q] = "purge" /\ Subject(q) = s.user
    BY <1>2 DEF SessionsInv, EndedSessionsGo
  <2> QED BY <2>1 DEF Subject, SessionsInv, OpType
<1> QED BY <1>1, <1>2

\* Every statement leaves the sessions that had to end gone or about to be.
LEMMA SessionsInvStep == SessionsInv /\ [Next]_vars => SessionsInv'
<1> SUFFICES ASSUME SessionsInv, [Next]_vars PROVE SessionsInv'
  OBVIOUS
<1>0. OpType'
  BY OpTypeStep DEF SessionsInv
<1>1. CASE UNCHANGED vars
  BY <1>0, <1>1 DEF vars, rowVars, ghostVars, SessionsInv, SessionsAreFresh, EndedSessionsGo, Subject
<1>2. CASE Next
  <2>0. \A r \in Request : at[r] = "done" => at'[r] = "done"
    BY <1>2, StepShape DEF SessionsInv
  <2>1. ASSUME /\ UNCHANGED <<ended, faults>> /\ sessions' \subseteq sessions
               /\ \A r \in Request : at[r] = "purge" => at'[r] = "purge" /\ op'[r].user = op[r].user
        PROVE  SessionsInv'
    BY <1>0, <2>0, <2>1 DEF SessionsInv, SessionsAreFresh, EndedSessionsGo, Subject
  <2>2. ASSUME NEW r \in Request, CreateSession(r) PROVE SessionsInv'
    <3> DEFINE new == [id |-> r, user |-> Subject(r)]
    <3>1. /\ sessions' = sessions \cup {new} /\ UNCHANGED <<ended, faults, op>>
          /\ at[r] = "session" /\ at' = [at EXCEPT ![r] = "done"]
      BY <2>2 DEF CreateSession, Goto, ghostVars
    <3>2. new \notin ended
      BY <3>1 DEF SessionsInv, SessionsAreFresh
    <3>3. SessionsAreFresh'
      BY <2>0, <3>1 DEF SessionsInv, SessionsAreFresh, OpType
    <3>4. EndedSessionsGo'
      BY <3>1, <3>2 DEF SessionsInv, EndedSessionsGo, Subject, OpType
    <3> QED BY <1>0, <3>3, <3>4 DEF SessionsInv
  <2>3. ASSUME ended' \subseteq ended \cup sessions, UNCHANGED <<sessions, faults>>
        PROVE  SessionsAreFresh'
    BY <2>0, <2>3 DEF SessionsInv, SessionsAreFresh
  <2>4. ASSUME NEW r \in Request, at[r] # "purge", ended' = ended \cup SessionsOf(Subject(r)),
               at' = [at EXCEPT ![r] = "purge"], UNCHANGED <<sessions, op, faults>>
        PROVE  SessionsInv'
    <3>1. SessionsAreFresh'
      BY <2>3, <2>4 DEF SessionsOf
    <3>2. CASE faults = 0
      BY <1>0, <2>4, <3>1, <3>2, DoomedIsPurged DEF SessionsInv
    <3>3. CASE faults # 0
      BY <1>0, <2>4, <3>1, <3>3 DEF SessionsInv, EndedSessionsGo
    <3> QED BY <3>2, <3>3
  <2>5. ASSUME NEW r \in Request, at[r] # "purge", UNCHANGED <<sessions, op, ended, faults>>,
               NEW step, at' = [at EXCEPT ![r] = step]
        PROVE  SessionsInv'
    <3>1. \A q \in Request : at[q] = "purge" => at'[q] = "purge"
      BY <2>5 DEF SessionsInv, OpType
    <3> QED BY <2>1, <2>5, <3>1
  <2>6. ASSUME NEW r \in Request, SetPassword(r) PROVE SessionsInv'
    BY <2>4, <2>6 DEF SetPassword, Goto
  <2>7. ASSUME NEW r \in Request, ForgetCodes(r) PROVE SessionsInv'
    <3>1. CASE op[r].by = Ctl
      BY <2>4, <2>7, <3>1 DEF ForgetCodes, Goto
    <3>2. CASE op[r].by # Ctl
      BY <2>5, <2>7, <3>2 DEF ForgetCodes, Goto
    <3> QED BY <3>1, <3>2
  <2>8. ASSUME NEW r \in Request, SetUserDisabled(r) PROVE SessionsInv'
    <3>1. CASE op[r].off = "yes"
      BY <2>4, <2>8, <3>1 DEF SetUserDisabled, Goto
    <3>2. CASE op[r].off # "yes"
      BY <2>5, <2>8, <3>2 DEF SetUserDisabled, Goto
    <3> QED BY <3>1, <3>2
  <2>9. ASSUME NEW r \in Request, DeleteUserSessions(r) PROVE SessionsInv'
    <3>1. /\ sessions' = sessions \ SessionsOf(Subject(r))
          /\ at' = [at EXCEPT ![r] = "done"] /\ UNCHANGED <<op, ended, faults>>
      BY <2>9 DEF DeleteUserSessions, Goto, ghostVars
    <3>2. SessionsAreFresh'
      BY <2>0, <3>1 DEF SessionsInv, SessionsAreFresh
    <3>3. EndedSessionsGo'
      <4> SUFFICES ASSUME faults = 0, NEW s \in ended \cap sessions', s.user # Subject(r)
                   PROVE  \E q \in Request : at'[q] = "purge" /\ Subject(q)' = s.user
        BY <3>1 DEF EndedSessionsGo, SessionsOf
      <4>1. PICK q \in Request : at[q] = "purge" /\ Subject(q) = s.user
        BY <3>1 DEF SessionsInv, EndedSessionsGo
      <4> QED BY <3>1, <4>1 DEF Subject, SessionsInv, OpType
    <3> QED BY <1>0, <3>2, <3>3 DEF SessionsInv
  <2>10. ASSUME faults' = faults + 1, sessions' \subseteq sessions, UNCHANGED ended
         PROVE  SessionsInv'
    BY <1>0, <2>0, <2>10 DEF SessionsInv, SessionsAreFresh, EndedSessionsGo
  <2>11. ASSUME Expire \/ \E r \in Request : Fault(r) PROVE SessionsInv'
    BY <2>10, <2>11 DEF Expire, Fault, rowVars, ghostVars
  <2>12. OpType
    BY DEF SessionsInv
  <2> QED BY <1>2, <2>1, <2>2, <2>6, <2>7, <2>8, <2>9, <2>11, <2>12, SessionsTouched
<1> QED BY <1>1, <1>2

\* No session there at the start has had to end.
LEMMA SessionsInvInit == Init => SessionsInv
<1> SUFFICES ASSUME Init PROVE SessionsInv
  OBVIOUS
<1>1. PICK t \in Rows : sessions = t.sessions
  BY DEF Init
<1>2. faults = 0 /\ ended = {}
  BY DEF Init
<1> QED BY <1>1, <1>2, OpTypeInit, RowsAssumption DEF SessionsInv, SessionsAreFresh, EndedSessionsGo

\* Where no statement fails half way, a changed password, a disabled account and
\* a second factor turned off by the command leave no session behind.
THEOREM DoomedSessionsEnd == Spec => []EndedSessionsGo
<1>1. SessionsInv => EndedSessionsGo
  BY DEF SessionsInv
<1> QED BY <1>1, SessionsInvInit, SessionsInvStep, PTL DEF Spec

-----------------------------------------------------------------------------
(* Reset links.                                                            *)

\* The statements that make a link or hand one to a request.
LEMMA ResetsTouched ==
  ASSUME OpType, Next
  PROVE  \/ /\ resets' \subseteq resets
            /\ \A r \in Request : op'[r].name = op[r].name /\ op'[r].token = op[r].token
         \/ \E r \in Request : ConsumeReset(r) \/ InsertReset(r)
<1> USE DEF OpType
<1> DEFINE Same == /\ resets' \subseteq resets
                   /\ \A r \in Request : op'[r].name = op[r].name /\ op'[r].token = op[r].token
<1>1. ASSUME NEW r \in Request, SignIn(r) PROVE Same
  BY <1>1 DEF SignIn, Authenticate, VerifySecondFactor, UseRecoveryCode, RecordLoginFailure,
              RecordLoginSuccess, CreateSession, rowVars
<1>2. ASSUME NEW r \in Request, SelfService(r), ~ConsumeReset(r) PROVE Same
  BY <1>2 DEF SelfService, CheckPassword, SetPassword, DeleteUserSessions, Logout, WriteSecret,
              ForgetCodes, ConfirmTOTP, ReplaceRecoveryCodes, EnableTOTP, rowVars
<1>3. ASSUME NEW r \in Request, CountUsers(r) PROVE Same
  BY <1>3 DEF CountUsers, rowVars
<1>4. ASSUME NEW r \in Request,
             AuthenticateSession(r) \/ UpdateUserRole(r) \/ SetUserDisabled(r) \/ ClearResets(r)
               \/ CreateUser(r) \/ Fault(r)
      PROVE  Same
  BY <1>4 DEF AuthenticateSession, UpdateUserRole, SetUserDisabled, ClearResets, CreateUser,
              Fault, rowVars
<1>5. ASSUME Expire \/ \E u \in User : LockExpires(u) PROVE Same
  BY <1>5 DEF Expire, LockExpires
<1> QED BY <1>1, <1>2, <1>3, <1>4, <1>5 DEF Next, Administration

\* No statement makes a link that has been used usable again.
LEMMA ResetsInvStep == ResetsInv /\ [Next]_vars => ResetsInv'
<1> SUFFICES ASSUME ResetsInv, [Next]_vars PROVE ResetsInv'
  OBVIOUS
<1>0. OpType'
  BY OpTypeStep DEF ResetsInv
<1>1. CASE UNCHANGED vars
  BY <1>0, <1>1 DEF vars, rowVars, ResetsInv, ResetsAreFresh, ResetSpentOnce
<1>2. CASE Next
  <2>0. \A r \in Request : at[r] = "done" => at'[r] = "done"
    BY <1>2, StepShape DEF ResetsInv
  <2>1. ASSUME /\ resets' \subseteq resets
               /\ \A r \in Request : op'[r].name = op[r].name /\ op'[r].token = op[r].token
        PROVE  ResetsInv'
    BY <1>0, <2>0, <2>1 DEF ResetsInv, ResetsAreFresh, ResetSpentOnce
  <2>2. ASSUME NEW r \in Request, InsertReset(r) PROVE ResetsInv'
    <3>1. /\ resets' = resets \cup {[token |-> r, user |-> Subject(r)]} /\ UNCHANGED op
          /\ at[r] = "reset" /\ at'[r] = "done"
      BY <2>2 DEF InsertReset, Goto, ResetsInv, OpType
    <3>2. /\ \A z \in resets : z.token # r
          /\ \A q \in Request : op[q].name = "redeem" => op[q].token # r
      BY <3>1 DEF ResetsInv, ResetsAreFresh
    <3>3. ResetsAreFresh'
      BY <2>0, <3>1, <3>2 DEF ResetsInv, ResetsAreFresh
    <3>4. ResetSpentOnce'
      BY <3>1 DEF ResetsInv, ResetSpentOnce
    <3> QED BY <1>0, <3>3, <3>4 DEF ResetsInv
  <2>3. ASSUME NEW r \in Request, ConsumeReset(r) PROVE ResetsInv'
    <3>1. CASE Goto(r, "done") /\ UNCHANGED <<resets, op>>
      BY <2>1, <3>1
    <3>2. ASSUME NEW z \in resets, resets' = resets \ {z},
                 op' = [op EXCEPT ![r].user = z.user, ![r].token = z.token]
          PROVE  ResetsInv'
      <4>1. /\ op'[r].name = op[r].name /\ op'[r].token = z.token
            /\ \A q \in Request \ {r} : op'[q] = op[q]
        BY <3>2 DEF ResetsInv, OpType
      <4>2. \A y \in resets' : y.token # z.token
        BY <3>2 DEF ResetsInv, ResetsAreFresh
      <4>3. \A q \in Request : op[q].name = "redeem" /\ op[q].token # None => op[q].token # z.token
        BY DEF ResetsInv, ResetsAreFresh
      <4>4. ResetsAreFresh'
        <5>1. /\ \A x, y \in resets' : x.token = y.token => x = y
              /\ \A y \in resets' : y.token \in Request => at'[y.token] = "done"
          BY <2>0, <3>2 DEF ResetsInv, ResetsAreFresh
        <5>2. ASSUME NEW q \in Request, op'[q].name = "redeem"
              PROVE  /\ op'[q].token \in Request => at'[op'[q].token] = "done"
                     /\ op'[q].token # None => \A y \in resets' : y.token # op'[q].token
          <6>1. CASE q = r
            <7>1. op'[q].token = z.token
              BY <4>1, <6>1
            <7>2. z.token \in Request => at[z.token] = "done"
              BY DEF ResetsInv, ResetsAreFresh
            <7> QED BY <2>0, <4>2, <7>1, <7>2
          <6>2. CASE q # r
            <7>1. op'[q] = op[q] /\ op[q].name = "redeem"
              BY <4>1, <5>2, <6>2
            <7>2. /\ op[q].token \in Request => at[op[q].token] = "done"
                  /\ op[q].token # None => \A y \in resets : y.token # op[q].token
              BY <7>1 DEF ResetsInv, ResetsAreFresh
            <7> QED BY <2>0, <3>2, <7>1, <7>2
          <6> QED BY <6>1, <6>2
        <5> QED BY <5>1, <5>2 DEF ResetsAreFresh
      <4>5. ResetSpentOnce'
        <5> SUFFICES ASSUME NEW p \in Request, NEW q \in Request, p # q,
                            op'[p].name = "redeem", op'[q].name = "redeem",
                            op'[p].token = op'[q].token
                     PROVE  op'[p].token = None
          BY DEF ResetSpentOnce
        <5>1. CASE p = r
          BY <4>1, <4>3, <5>1
        <5>2. CASE q = r
          BY <4>1, <4>3, <5>2
        <5>3. CASE p # r /\ q # r
          BY <4>1, <5>3 DEF ResetsInv, ResetSpentOnce
        <5> QED BY <5>1, <5>2, <5>3
      <4> QED BY <1>0, <4>4, <4>5 DEF ResetsInv
    <3> QED BY <2>3, <3>1, <3>2 DEF ConsumeReset
  <2>4. OpType
    BY DEF ResetsInv
  <2> QED BY <1>2, <2>1, <2>2, <2>3, <2>4, ResetsTouched
<1> QED BY <1>1, <1>2

\* At the start no request has a link, and links have tokens of their own.
LEMMA ResetsInvInit == Init => ResetsInv
<1> SUFFICES ASSUME Init PROVE ResetsInv
  OBVIOUS
<1>1. PICK t \in Rows : resets = t.resets
  BY DEF Init
<1>2. \A r \in Request : op[r].token = None /\ at[r] = "start"
  BY PlansAssumption DEF Init
<1>3. None \notin Request
  BY AccountsAssumption
<1> QED BY <1>1, <1>2, <1>3, OpTypeInit, RowsAssumption DEF ResetsInv, ResetsAreFresh, ResetSpentOnce

\* A reset link sets one password, however many requests present it.
THEOREM ResetLinkOnce == Spec => []ResetSpentOnce
<1>1. ResetsInv => ResetSpentOnce
  BY DEF ResetsInv
<1> QED BY <1>1, ResetsInvInit, ResetsInvStep, PTL DEF Spec

-----------------------------------------------------------------------------
(* What a step may change.                                                 *)

AcctType ==
  /\ DOMAIN acct = User
  /\ \A u \in User : AcctFields \subseteq DOMAIN acct[u] /\ acct[u].totp \in BOOLEAN

\* The step is one of request r's.
Takes(r) ==
  SignIn(r) \/ AuthenticateSession(r) \/ SelfService(r) \/ Administration(r) \/ Fault(r)

\* These fields of a row do not change; nothing that decides about the user does.
Keeps(u, fields) == \A f \in fields : acct'[u][f] = acct[u][f]
Kept(u) == Keeps(u, {"role", "disabled", "pw", "totp", "secret"})

\* The statements that write more of a row than its failed sign-ins.
WritesRow(r) ==
  SetPassword(r) \/ WriteSecret(r) \/ EnableTOTP(r) \/ UpdateUserRole(r) \/ SetUserDisabled(r)
  \/ CreateUser(r)

\* Rows keep their fields, and six statements write what decides about a user.
LEMMA RowsTouched ==
  ASSUME OpType, AcctType, Next
  PROVE  /\ AcctType'
         /\ \/ \A u \in User : Kept(u)
            \/ \E r \in Request : WritesRow(r)
<1> DEFINE Calm == AcctType' /\ \A u \in User : Kept(u)
<1>1. ASSUME UNCHANGED acct PROVE Calm
  BY <1>1 DEF AcctType, Kept, Keeps
<1>2. ASSUME NEW r \in Request, RecordLoginFailure(r) \/ RecordLoginSuccess(r) PROVE Calm
  <2>1. Subject(r) \in User
    BY DEF OpType, Subject
  <2>2. CASE RecordLoginFailure(r)
    <3> DEFINE n == Min({acct[Subject(r)].failed + 1, MaxFailed})
    <3>1. acct' = [acct EXCEPT ![Subject(r)] =
                     [acct[Subject(r)] EXCEPT !.failed = n, !.locked = @ \/ n = MaxFailed]]
      BY <2>2 DEF RecordLoginFailure, Set
    <3> HIDE DEF n
    <3> QED BY <2>1, <3>1 DEF AcctType, AcctFields, Kept, Keeps
  <2>3. CASE RecordLoginSuccess(r)
    BY <2>1, <2>3 DEF RecordLoginSuccess, Set, AcctType, AcctFields, Kept, Keeps
  <2> QED BY <1>2, <2>2, <2>3
<1>3. ASSUME NEW u \in User, LockExpires(u) PROVE Calm
  BY <1>3 DEF LockExpires, Set, AcctType, AcctFields, Kept, Keeps
<1>4. ASSUME NEW r \in Request, SignIn(r) PROVE Calm
  BY <1>1, <1>2, <1>4 DEF SignIn, Authenticate, VerifySecondFactor, UseRecoveryCode, CreateSession,
                          rowVars
<1>5. ASSUME NEW r \in Request, AuthenticateSession(r) \/ Fault(r) PROVE Calm
  BY <1>1, <1>5 DEF AuthenticateSession, Fault, rowVars
<1>6. ASSUME NEW r \in Request, WritesRow(r) PROVE AcctType'
  <2>1. Subject(r) \in User
    BY DEF OpType, Subject
  <2>2. CASE SetPassword(r)
    BY <2>1, <2>2 DEF SetPassword, Set, AcctType, AcctFields
  <2>3. CASE WriteSecret(r)
    BY <2>1, <2>3 DEF WriteSecret, Set, AcctType, AcctFields
  <2>4. CASE EnableTOTP(r)
    BY <2>1, <2>4 DEF EnableTOTP, Set, AcctType, AcctFields
  <2>5. CASE UpdateUserRole(r)
    BY <2>1, <2>5 DEF UpdateUserRole, Set, AcctType, AcctFields
  <2>6. CASE SetUserDisabled(r)
    BY <2>1, <2>6 DEF SetUserDisabled, Set, AcctType, AcctFields
  <2>7. CASE CreateUser(r)
    BY <2>1, <2>7 DEF CreateUser, Set, AcctType, AcctFields
  <2> QED BY <1>6, <2>2, <2>3, <2>4, <2>5, <2>6, <2>7 DEF WritesRow
<1>7. ASSUME NEW r \in Request, SelfService(r), ~WritesRow(r) PROVE Calm
  BY <1>1, <1>7 DEF SelfService, CheckPassword, ConsumeReset, DeleteUserSessions, Logout, ForgetCodes,
                    ConfirmTOTP, ReplaceRecoveryCodes, WritesRow, rowVars
<1>8. ASSUME NEW r \in Request, Administration(r), ~WritesRow(r) PROVE Calm
  BY <1>1, <1>8 DEF Administration, ClearResets, InsertReset, CountUsers, WritesRow, rowVars
<1>9. ASSUME Expire PROVE Calm
  BY <1>1, <1>9 DEF Expire
<1> QED BY <1>3, <1>4, <1>5, <1>6, <1>7, <1>8, <1>9 DEF Next

\* One request moves at a time; once it has started its operation is settled but
\* for the role of a first account, and whom it met stays met.
LEMMA StepOf ==
  ASSUME OpType, Next
  PROVE  /\ met \subseteq met'
         /\ met' # met => \E q \in Request : Meet(q) /\ at'[q] # "start"
         /\ \A q \in Request : op'[q].name = op[q].name
         /\ \A q \in Request : at[q] # "start" => Subject(q)' = Subject(q) /\ at'[q] # "start"
         /\ \A q \in Request : at[q] \notin {"start", "run"} => op'[q] = op[q]
         /\ \A q \in Request : at'[q] # at[q] =>
              /\ Takes(q)
              /\ \A p \in Request \ {q} : at'[p] = at[p]
              /\ at[q] = "start" => Meet(q)
<1> USE DEF OpType
<1> DEFINE Orderly(r) == /\ met \subseteq met'
                         /\ met' # met => Meet(r)
                         /\ at[r] = "start" => Meet(r)
                         /\ \A q \in Request \ {r} : at'[q] = at[q]
                         /\ at'[r] # "start"
           Settled == \A q \in Request :
                        /\ op'[q].name = op[q].name
                        /\ at[q] # "start" => op'[q].user = op[q].user
                        /\ at[q] \notin {"start", "run"} => op'[q] = op[q]
           AtRest == met' = met /\ op' = op /\ at' = at
<1>1. ASSUME UNCHANGED op PROVE Settled
  BY <1>1
<1>2. ASSUME NEW r \in Request, SignIn(r) PROVE Orderly(r) /\ Settled
  BY <1>1, <1>2 DEF SignIn, Authenticate, AfterPassword, VerifySecondFactor, UseRecoveryCode,
       RecordLoginFailure, RecordLoginSuccess, CreateSession, Goto, Meet, rowVars, ghostVars
<1>3. ASSUME NEW r \in Request, AuthenticateSession(r) PROVE Orderly(r) /\ Settled
  <2>1. First(r) # "start"
    BY DEF First
  <2>2. op' = op /\ Meet(r) /\ at' = [at EXCEPT ![r] = IF Permitted(r) THEN First(r) ELSE "done"]
    BY <1>3 DEF AuthenticateSession, Goto
  <2> HIDE DEF First, Permitted
  <2> QED BY <1>1, <2>1, <2>2 DEF Meet
<1>4. ASSUME NEW r \in Request, ConsumeReset(r) PROVE Orderly(r) /\ Settled
  <2>1. Orderly(r)
    BY <1>4 DEF ConsumeReset, Goto, Meet
  <2>2. at[r] = "start"
    BY <1>4 DEF ConsumeReset
  <2>3. CASE UNCHANGED op
    BY <1>1, <2>1, <2>3
  <2>4. ASSUME NEW z \in resets, op' = [op EXCEPT ![r].user = z.user, ![r].token = z.token]
        PROVE  Settled
    BY <2>2, <2>4
  <2> QED BY <1>4, <2>1, <2>3, <2>4 DEF ConsumeReset
<1>5. ASSUME NEW r \in Request, SelfService(r), ~ConsumeReset(r) PROVE Orderly(r) /\ Settled
  BY <1>1, <1>5 DEF SelfService, CheckPassword, SetPassword, DeleteUserSessions, Logout, WriteSecret,
       ForgetCodes, ConfirmTOTP, ReplaceRecoveryCodes, EnableTOTP, Goto, rowVars, ghostVars
<1>6. ASSUME NEW r \in Request, CountUsers(r) PROVE Orderly(r) /\ Settled
  <2> DEFINE role == IF \E u \in User : Exists(u) THEN op[r].role ELSE "admin"
  <2>1. /\ at[r] = "run" /\ met' = met /\ at' = [at EXCEPT ![r] = "insert"]
        /\ op' = [op EXCEPT ![r].role = role]
    BY <1>6 DEF CountUsers, Goto, ghostVars
  <2> HIDE DEF role
  <2> QED BY <2>1
<1>7. ASSUME NEW r \in Request, Administration(r), ~CountUsers(r) PROVE Orderly(r) /\ Settled
  BY <1>1, <1>7 DEF Administration, UpdateUserRole, SetUserDisabled, ClearResets, InsertReset,
       CreateUser, Goto, rowVars, ghostVars
<1>8. ASSUME NEW r \in Request, Fault(r) PROVE Orderly(r) /\ Settled
  BY <1>1, <1>8 DEF Fault, UnderWay, Goto, rowVars, ghostVars
<1>9. ASSUME Expire \/ \E u \in User : LockExpires(u) PROVE AtRest
  BY <1>9 DEF Expire, LockExpires, ghostVars
<1>10. ASSUME NEW r \in Request, Takes(r) PROVE Orderly(r) /\ Settled
  BY <1>2, <1>3, <1>4, <1>5, <1>6, <1>7, <1>8, <1>10 DEF Takes
<1>11. CASE \E r \in Request : Takes(r)
  <2>1. PICK r \in Request : Takes(r)
    BY <1>11
  <2>2. Orderly(r) /\ Settled
    BY <1>10, <2>1
  <2> QED BY <2>1, <2>2 DEF Subject
<1>12. CASE AtRest
  BY <1>1, <1>12 DEF Subject
<1> QED BY <1>9, <1>11, <1>12 DEF Next, Takes

-----------------------------------------------------------------------------
(* Requests that have met.                                                 *)

\* Requests under way have met, and who has been met has started.
Acquainted ==
  /\ \A r, q \in Request : r # q /\ UnderWay(r) /\ UnderWay(q) => {r, q} \in met
  /\ \A r, q \in Request : {r, q} \in met => at[r] # "start" /\ at[q] # "start"

AcquaintedInv == OpType /\ AcctType /\ Acquainted

\* A request starts beside those that are under way, and only then becomes so.
LEMMA AcquaintedInvStep == AcquaintedInv /\ [Next]_vars => AcquaintedInv'
<1> SUFFICES ASSUME AcquaintedInv, [Next]_vars PROVE AcquaintedInv'
  OBVIOUS
<1>1. CASE UNCHANGED vars
  BY <1>1 DEF vars, rowVars, ghostVars, AcquaintedInv, OpType, AcctType, Acquainted, UnderWay
<1>2. CASE Next
  <2>1. OpType' /\ AcctType'
    BY <1>2, OpTypeStep, RowsTouched DEF AcquaintedInv
  <2>2. /\ met \subseteq met'
        /\ \A q \in Request : at[q] # "start" => at'[q] # "start"
        /\ \A q \in Request : at[q] = "done" => at'[q] = "done"
        /\ \A q \in Request : at'[q] # at[q] =>
             (\A p \in Request \ {q} : at'[p] = at[p]) /\ (at[q] = "start" => Meet(q))
    BY <1>2, StepOf, StepShape DEF AcquaintedInv
  <2>3. ASSUME NEW r \in Request, NEW q \in Request, r # q, UnderWay(r)', UnderWay(q)'
        PROVE  {r, q} \in met'
    <3>1. CASE at[r] # "start" /\ at[q] # "start"
      BY <2>2, <2>3, <3>1 DEF UnderWay, AcquaintedInv, Acquainted
    <3>2. CASE at[r] = "start"
      <4>1. Meet(r) /\ at'[q] = at[q]
        BY <2>2, <2>3, <3>2 DEF UnderWay
      <4>2. q \in {p \in Request \ {r} : UnderWay(p)}
        BY <2>3, <4>1 DEF UnderWay
      <4> QED BY <4>1, <4>2 DEF Meet
    <3>3. CASE at[q] = "start"
      <4>1. Meet(q) /\ at'[r] = at[r]
        BY <2>2, <2>3, <3>3 DEF UnderWay
      <4>2. r \in {p \in Request \ {q} : UnderWay(p)}
        BY <2>3, <4>1 DEF UnderWay
      <4>3. {q, r} \in met'
        BY <4>1, <4>2 DEF Meet
      <4>4. {q, r} = {r, q}
        OBVIOUS
      <4> QED BY <4>3, <4>4
    <3> QED BY <3>1, <3>2, <3>3
  <2>4. ASSUME NEW r \in Request, NEW q \in Request, {r, q} \in met'
        PROVE  at'[r] # "start" /\ at'[q] # "start"
    <3>1. CASE {r, q} \in met
      BY <2>2, <3>1 DEF AcquaintedInv, Acquainted
    <3>2. CASE {r, q} \notin met
      <4>1. PICK p \in Request : Meet(p) /\ at'[p] # "start"
        <5>1. met' # met
          BY <2>4, <3>2
        <5> QED BY <1>2, <5>1, StepOf DEF AcquaintedInv
      <4>2. PICK x \in Request \ {p} : UnderWay(x) /\ {r, q} = {p, x}
        BY <2>4, <3>2, <4>1 DEF Meet
      <4>3. at'[x] # "start"
        BY <2>2, <4>2 DEF UnderWay
      <4> QED BY <4>1, <4>2, <4>3
    <3> QED BY <3>1, <3>2
  <2> QED BY <2>1, <2>3, <2>4 DEF AcquaintedInv, Acquainted
<1> QED BY <1>1, <1>2

\* Nobody has met anybody.
LEMMA AcquaintedInvInit == Init => AcquaintedInv
<1> SUFFICES ASSUME Init PROVE AcquaintedInv
  OBVIOUS
<1>1. PICK t \in Rows : acct = t.acct
  BY DEF Init
<1>2. AcctType
  BY <1>1, RowsAssumption DEF AcctType
<1>3. Acquainted
  BY DEF Init, Acquainted, UnderWay
<1> QED BY <1>2, <1>3, OpTypeInit DEF AcquaintedInv

\* Requests that have met are about whom they were about.
LEMMA MetStay ==
  ASSUME AcquaintedInv, Next, NEW r \in Request, NEW q \in Request, {r, q} \in met
  PROVE  /\ {r, q} \in met'
         /\ Subject(r)' = Subject(r) /\ Subject(q)' = Subject(q)
         /\ op'[r].name = op[r].name /\ op'[q].name = op[q].name
BY StepOf DEF AcquaintedInv, Acquainted

\* Which statement leads to which.
LEMMA Leads ==
  ASSUME OpType, NEW r \in Request, Takes(r)
  PROVE  /\ at'[r] = "codes" => ConfirmTOTP(r)
         /\ at'[r] = "enable" => ReplaceRecoveryCodes(r)
         /\ at'[r] = "reset" => ClearResets(r)
         /\ at'[r] = "second" => Authenticate(r)
         /\ at'[r] = "spend" => VerifySecondFactor(r)
         /\ at'[r] = "success" => Authenticate(r) \/ VerifySecondFactor(r) \/ UseRecoveryCode(r)
         /\ at'[r] = "session" => RecordLoginSuccess(r)
         /\ at'[r] = "role" => AuthenticateSession(r)
         /\ at'[r] = "disable" => AuthenticateSession(r) \/ UpdateUserRole(r)
<1> USE DEF OpType, Goto
<1> DEFINE Watched == {"codes", "enable", "reset", "second", "spend", "success", "session",
                       "role", "disable"}
<1>1. ASSUME Authenticate(r) PROVE at'[r] \in {"done", "fail", "success", "second"}
  BY <1>1 DEF Authenticate, AfterPassword
<1>2. ASSUME VerifySecondFactor(r) PROVE at'[r] \in {"done", "success", "spend"}
  BY <1>2 DEF VerifySecondFactor
<1>3. ASSUME UseRecoveryCode(r) PROVE at'[r] \in {"success", "fail"}
  BY <1>3 DEF UseRecoveryCode
<1>4. ASSUME RecordLoginFailure(r) \/ CreateSession(r) PROVE at'[r] = "done"
  BY <1>4 DEF RecordLoginFailure, CreateSession
<1>5. ASSUME RecordLoginSuccess(r) PROVE at'[r] = "session"
  BY <1>5 DEF RecordLoginSuccess
<1>6. ASSUME AuthenticateSession(r)
      PROVE  at'[r] \in {"secret", "purge", "disable", "role", "clear", "password", "run", "done"}
  <2>1. First(r) \in {"secret", "purge", "disable", "role", "clear", "password", "run"}
    BY DEF First
  <2>2. at'[r] \in {First(r), "done"}
    BY <1>6 DEF AuthenticateSession
  <2> QED BY <2>1, <2>2
<1>7. ASSUME SelfService(r), ~ConfirmTOTP(r), ~ReplaceRecoveryCodes(r) PROVE at'[r] \notin Watched
  BY <1>7 DEF SelfService, CheckPassword, ConsumeReset, SetPassword, DeleteUserSessions, Logout,
              WriteSecret, ForgetCodes, EnableTOTP
<1>8. ASSUME ConfirmTOTP(r) PROVE at'[r] \in {"codes", "done"}
  BY <1>8 DEF ConfirmTOTP
<1>9. ASSUME ReplaceRecoveryCodes(r) PROVE at'[r] = "enable"
  BY <1>9 DEF ReplaceRecoveryCodes
<1>10. ASSUME UpdateUserRole(r) PROVE at'[r] \in {"done", "disable"}
  BY <1>10 DEF UpdateUserRole
<1>11. ASSUME ClearResets(r) PROVE at'[r] = "reset"
  BY <1>11 DEF ClearResets
<1>12. ASSUME SetUserDisabled(r) \/ InsertReset(r) \/ CountUsers(r) \/ CreateUser(r)
       PROVE  at'[r] \notin Watched
  BY <1>12 DEF SetUserDisabled, InsertReset, CountUsers, CreateUser
<1>13. ASSUME Fault(r) PROVE at'[r] \in {"done", "fail"}
  BY <1>13 DEF Fault
<1>14. ASSUME SignIn(r)
       PROVE  Authenticate(r) \/ VerifySecondFactor(r) \/ UseRecoveryCode(r)
              \/ RecordLoginFailure(r) \/ CreateSession(r) \/ RecordLoginSuccess(r)
  BY <1>14 DEF SignIn
<1>15. ASSUME Administration(r)
       PROVE  UpdateUserRole(r) \/ ClearResets(r)
              \/ SetUserDisabled(r) \/ InsertReset(r) \/ CountUsers(r) \/ CreateUser(r)
  BY <1>15 DEF Administration
<1> QED
  BY <1>1, <1>2, <1>3, <1>4, <1>5, <1>6, <1>7, <1>8, <1>9, <1>10, <1>11, <1>12, <1>13, <1>14, <1>15
     DEF Takes

\* What was shown stays shown.
LEMMA ProvenGrows ==
  ASSUME Next
  PROVE  proven \subseteq proven'
<1>1. ASSUME NEW r \in Request, SignIn(r) PROVE proven \subseteq proven'
  BY <1>1 DEF SignIn, Authenticate, VerifySecondFactor, UseRecoveryCode, RecordLoginFailure,
              RecordLoginSuccess, CreateSession, ghostVars
<1>2. ASSUME NEW r \in Request, SelfService(r) PROVE proven \subseteq proven'
  BY <1>2 DEF SelfService, CheckPassword, ConsumeReset, SetPassword, DeleteUserSessions, Logout,
              WriteSecret, ForgetCodes, ConfirmTOTP, ReplaceRecoveryCodes, EnableTOTP, ghostVars
<1>3. ASSUME NEW r \in Request, AuthenticateSession(r) \/ Administration(r) \/ Fault(r)
      PROVE  proven \subseteq proven'
  BY <1>3 DEF AuthenticateSession, Administration, UpdateUserRole, SetUserDisabled, ClearResets,
              InsertReset, CountUsers, CreateUser, Fault, ghostVars
<1>4. ASSUME Expire \/ \E u \in User : LockExpires(u) PROVE proven \subseteq proven'
  BY <1>4 DEF Expire, LockExpires, ghostVars
<1> QED BY <1>1, <1>2, <1>3, <1>4 DEF Next

\* What each of the six statements writes of the row it is about.
LEMMA RowWritten ==
  ASSUME OpType, AcctType, NEW r \in Request, WritesRow(r)
  PROVE  /\ \A u \in User \ {Subject(r)} : Kept(u)
         /\ \/ SetPassword(r) /\ Keeps(Subject(r), {"role", "disabled", "totp", "secret"})
            \/ /\ WriteSecret(r) /\ Keeps(Subject(r), {"role", "disabled", "pw"})
               /\ ~acct'[Subject(r)].totp
               /\ acct'[Subject(r)].secret = None \/ op[r].name = "totp_begin"
            \/ /\ EnableTOTP(r) /\ Keeps(Subject(r), {"role", "disabled", "pw", "secret"})
               /\ acct'[Subject(r)].totp => acct[Subject(r)].totp \/ acct[Subject(r)].secret # None
            \/ /\ UpdateUserRole(r) /\ Keeps(Subject(r), {"disabled", "pw", "totp", "secret"})
               /\ acct'[Subject(r)].role = op[r].role
            \/ SetUserDisabled(r) /\ Keeps(Subject(r), {"role", "pw", "totp", "secret"})
            \/ /\ CreateUser(r) /\ Keeps(Subject(r), {"disabled", "totp", "secret"})
               /\ Kept(Subject(r)) \/ ~Exists(Subject(r))
<1> USE DEF AcctType, AcctFields, Set, Kept, Keeps
<1>1. Subject(r) \in User
  BY DEF OpType, Subject
<1>2. CASE SetPassword(r)
  BY <1>1, <1>2 DEF SetPassword
<1>3. CASE WriteSecret(r)
  BY <1>1, <1>3 DEF WriteSecret
<1>4. CASE EnableTOTP(r)
  BY <1>1, <1>4 DEF EnableTOTP
<1>5. CASE UpdateUserRole(r)
  BY <1>1, <1>5 DEF UpdateUserRole
<1>6. CASE SetUserDisabled(r)
  BY <1>1, <1>6 DEF SetUserDisabled
<1>7. CASE CreateUser(r) /\ Exists(Subject(r))
  BY <1>1, <1>7 DEF CreateUser
<1>8. CASE CreateUser(r) /\ ~Exists(Subject(r))
  <2>1. acct' = [acct EXCEPT ![Subject(r)] =
                   [acct[Subject(r)] EXCEPT !.role = op[r].role, !.pw = op[r].new]]
    BY <1>8 DEF CreateUser
  <2>2. /\ acct'[Subject(r)].disabled = acct[Subject(r)].disabled
        /\ acct'[Subject(r)].totp = acct[Subject(r)].totp
        /\ acct'[Subject(r)].secret = acct[Subject(r)].secret
        /\ \A u \in User \ {Subject(r)} : acct'[u] = acct[u]
    BY <1>1, <2>1
  <2> QED BY <1>8, <2>2
<1> QED BY <1>2, <1>3, <1>4, <1>5, <1>6, <1>7, <1>8 DEF WritesRow

\* A secret that is not forgotten comes from an enrolment.
LEMMA SecretsWritten ==
  ASSUME OpType, AcctType, Next, NEW u \in User, acct'[u].secret \notin {acct[u].secret, None}
  PROVE  \E r \in Request : WriteSecret(r) /\ Subject(r) = u /\ op[r].name = "totp_begin"
<1>1. PICK r \in Request : WritesRow(r)
  BY RowsTouched DEF Kept, Keeps
<1>2. Subject(r) = u
  BY <1>1, RowWritten DEF Kept, Keeps
<1> QED BY <1>1, <1>2, RowWritten DEF Kept, Keeps

\* A second factor that is asked for and was not comes from EnableTOTP.
LEMMA FactorsEnabled ==
  ASSUME OpType, AcctType, Next, NEW u \in User, acct'[u].totp,
         ~(acct[u].totp /\ acct'[u].secret = acct[u].secret)
  PROVE  \E r \in Request : EnableTOTP(r) /\ Subject(r) = u /\ acct[u].secret # None
<1>1. PICK r \in Request : WritesRow(r)
  BY RowsTouched DEF Kept, Keeps
<1>2. Subject(r) = u
  BY <1>1, RowWritten DEF Kept, Keeps
<1> QED BY <1>1, <1>2, RowWritten DEF Kept, Keeps

-----------------------------------------------------------------------------
(* The second factor.                                                      *)

\* An enrolment of r's user was started beside r.
Restarted(r) ==
  \E q \in Request : {r, q} \in met /\ op[q].name = "totp_begin" /\ Subject(q) = Subject(r)

\* Whoever is about to enable a second factor was shown a code of what is enabled.
EnrolmentIsShown ==
  \A r \in Request : at[r] \in {"codes", "enable"} =>
    /\ op[r].name = "totp_confirm"
    /\ \/ acct[Subject(r)].secret \in proven \cup {None}
       \/ Restarted(r)

FactorInv == AcquaintedInv /\ EnrolmentIsShown /\ ProvenSecretOnly

\* Secrets change by an enrolment or are forgotten, and are enabled as shown.
LEMMA FactorInvStep == FactorInv /\ [Next]_vars => FactorInv'
<1> SUFFICES ASSUME FactorInv, [Next]_vars PROVE FactorInv'
  OBVIOUS
<1>0. AcquaintedInv /\ AcquaintedInv'
  BY AcquaintedInvStep DEF FactorInv
<1>1. CASE UNCHANGED vars
  <2>1. UNCHANGED <<acct, proven, met, at, op>> /\ \A r \in Request : Subject(r)' = Subject(r)
    BY <1>1 DEF vars, rowVars, ghostVars, Subject
  <2>2. EnrolmentIsShown'
    BY <2>1 DEF FactorInv, EnrolmentIsShown, Restarted
  <2>3. ProvenSecretOnly'
    <3> SUFFICES ASSUME NEW u \in User, acct[u].totp, acct[u].secret \notin proven
                 PROVE  \E r, q \in Request :
                          /\ {r, q} \in met'
                          /\ op'[r].name = "totp_confirm" /\ op'[q].name = "totp_begin"
                          /\ Subject(r)' = u /\ Subject(q)' = u
      BY <2>1 DEF ProvenSecretOnly
    <3>1. PICK r, q \in Request :
                 /\ {r, q} \in met
                 /\ op[r].name = "totp_confirm" /\ op[q].name = "totp_begin"
                 /\ Subject(r) = u /\ Subject(q) = u
      BY DEF FactorInv, ProvenSecretOnly
    <3> QED BY <2>1, <3>1
  <2> QED BY <1>0, <2>2, <2>3 DEF FactorInv
<1>2. CASE Next
  <2>0. OpType /\ AcctType
    BY <1>0 DEF AcquaintedInv
  <2>1. \A r \in Request : Restarted(r) => Restarted(r)'
    BY <1>0, <1>2, MetStay DEF Restarted
  <2>2. proven \subseteq proven'
    BY <1>2, ProvenGrows
  <2>3. ASSUME NEW u \in User,
               \E r, q \in Request :
                 /\ {r, q} \in met /\ op[r].name = "totp_confirm" /\ op[q].name = "totp_begin"
                 /\ Subject(r) = u /\ Subject(q) = u
        PROVE  (\E r, q \in Request :
                 /\ {r, q} \in met /\ op[r].name = "totp_confirm" /\ op[q].name = "totp_begin"
                 /\ Subject(r) = u /\ Subject(q) = u)'
    BY <1>0, <1>2, <2>3, MetStay
  <2>4. ASSUME NEW r \in Request, at'[r] \in {"codes", "enable"}
        PROVE  /\ op'[r].name = "totp_confirm"
               /\ \/ acct'[Subject(r)'].secret \in proven' \cup {None}
                  \/ Restarted(r)'
    <3>1. CASE at[r] \in {"codes", "enable"}
      <4>1. /\ op[r].name = "totp_confirm" /\ op'[r] = op[r] /\ Subject(r)' = Subject(r)
            /\ acct[Subject(r)].secret \in proven \cup {None} \/ Restarted(r)
        BY <1>2, <2>0, <3>1, StepOf DEF FactorInv, EnrolmentIsShown
      <4>2. Subject(r) \in User
        BY <2>0 DEF OpType, Subject
      <4>3. CASE acct'[Subject(r)].secret \in {acct[Subject(r)].secret, None}
        BY <2>1, <2>2, <4>1, <4>3
      <4>4. CASE acct'[Subject(r)].secret \notin {acct[Subject(r)].secret, None}
        <5>1. PICK q \in Request : WriteSecret(q) /\ Subject(q) = Subject(r) /\ op[q].name = "totp_begin"
          BY <1>2, <2>0, <4>2, <4>4, SecretsWritten
        <5>2. at[q] = "secret"
          BY <5>1 DEF WriteSecret
        <5>3. {r, q} \in met
          BY <1>0, <3>1, <5>2 DEF UnderWay, AcquaintedInv, Acquainted
        <5>4. Restarted(r)
          BY <5>1, <5>3 DEF Restarted
        <5> QED BY <2>1, <4>1, <5>4
      <4> QED BY <4>3, <4>4
    <3>2. CASE at[r] \notin {"codes", "enable"}
      <4>1. Takes(r)
        BY <1>2, <2>0, <2>4, <3>2, StepOf
      <4>2. ConfirmTOTP(r)
        BY <2>0, <2>4, <3>2, <4>1, Leads DEF ReplaceRecoveryCodes
      <4>3. /\ op[r].name = "totp_confirm" /\ op' = op /\ acct' = acct
            /\ acct[Subject(r)].secret \in proven'
        BY <2>4, <4>2, <2>0 DEF ConfirmTOTP, Goto, OpType, rowVars
      <4> QED BY <4>3 DEF Subject
    <3> QED BY <3>1, <3>2
  <2>5. ASSUME NEW u \in User, acct'[u].totp
        PROVE  \/ acct'[u].secret \in proven'
               \/ (\E r, q \in Request :
                     /\ {r, q} \in met /\ op[r].name = "totp_confirm" /\ op[q].name = "totp_begin"
                     /\ Subject(r) = u /\ Subject(q) = u)'
    <3>1. CASE acct[u].totp /\ acct'[u].secret = acct[u].secret
      BY <2>2, <2>3, <3>1 DEF FactorInv, ProvenSecretOnly
    <3>2. CASE ~(acct[u].totp /\ acct'[u].secret = acct[u].secret)
      <4>1. PICK r \in Request : EnableTOTP(r) /\ Subject(r) = u /\ acct[u].secret # None
        BY <1>2, <2>0, <2>5, <3>2, FactorsEnabled
      <4>2. acct'[u].secret = acct[u].secret
        BY <2>0, <4>1 DEF EnableTOTP, Set, AcctType, AcctFields
      <4>3. /\ op[r].name = "totp_confirm"
            /\ acct[u].secret \in proven \/ Restarted(r)
        BY <4>1 DEF EnableTOTP, FactorInv, EnrolmentIsShown
      <4>4. CASE Restarted(r)
        BY <2>3, <4>1, <4>3, <4>4 DEF Restarted
      <4> QED BY <2>2, <4>2, <4>3, <4>4
    <3> QED BY <3>1, <3>2
  <2>6. EnrolmentIsShown'
    BY <2>4 DEF EnrolmentIsShown
  <2>7. ProvenSecretOnly'
    BY <2>5 DEF ProvenSecretOnly
  <2> QED BY <1>0, <2>6, <2>7 DEF FactorInv
<1> QED BY <1>1, <1>2

\* A second factor there at the start was confirmed with a code of its secret.
LEMMA FactorInvInit == Init => FactorInv
<1> SUFFICES ASSUME Init PROVE FactorInv
  OBVIOUS
<1>1. PICK t \in Rows : acct = t.acct /\ proven = t.proven
  BY DEF Init
<1>2. ProvenSecretOnly
  BY <1>1, RowsAssumption DEF ProvenSecretOnly
<1>3. EnrolmentIsShown
  BY DEF Init, EnrolmentIsShown
<1> QED BY <1>2, <1>3, AcquaintedInvInit DEF FactorInv

-----------------------------------------------------------------------------
(* Live links.                                                             *)

\* A link of r's user that is there when r inserts its own has come since r
\* cleared them.
ClearedOrMet ==
  \A r \in Request, z \in resets :
    at[r] = "reset" /\ z.user = Subject(r) => {z.token, r} \in met

LinksInv == AcquaintedInv /\ ResetsInv /\ ClearedOrMet /\ OneLiveReset

\* Clearing comes before inserting, so a second link comes from a second request
\* between the two.
LEMMA LinksInvStep == LinksInv /\ [Next]_vars => LinksInv'
<1> SUFFICES ASSUME LinksInv, [Next]_vars PROVE LinksInv'
  OBVIOUS
<1>0. AcquaintedInv /\ AcquaintedInv' /\ ResetsInv'
  BY AcquaintedInvStep, ResetsInvStep DEF LinksInv
<1>1. CASE UNCHANGED vars
  BY <1>0, <1>1 DEF vars, rowVars, ghostVars, LinksInv, ClearedOrMet, OneLiveReset, Subject
<1>2. CASE Next
  <2>0. /\ OpType /\ met \subseteq met'
        /\ \A q \in Request : at[q] # "start" => Subject(q)' = Subject(q)
        /\ \A q \in Request : at'[q] # at[q] => Takes(q)
    BY <1>0, <1>2, StepOf DEF AcquaintedInv
  <2>1. ASSUME resets' \subseteq resets PROVE LinksInv'
    <3>1. OneLiveReset'
      BY <2>0, <2>1 DEF LinksInv, OneLiveReset
    <3>2. ASSUME NEW r \in Request, NEW z \in resets', at'[r] = "reset", z.user = Subject(r)'
          PROVE  {z.token, r} \in met'
      <4>1. CASE at[r] = "reset"
        BY <2>0, <2>1, <3>2, <4>1 DEF LinksInv, ClearedOrMet
      <4>2. CASE at[r] # "reset"
        <5>1. ClearResets(r)
          BY <2>0, <3>2, <4>2, Leads
        <5> QED BY <3>2, <5>1 DEF ClearResets, Subject
      <4> QED BY <4>1, <4>2
    <3>3. ClearedOrMet'
      BY <3>2 DEF ClearedOrMet
    <3> QED BY <1>0, <3>1, <3>3 DEF LinksInv
  <2>2. ASSUME NEW r \in Request, InsertReset(r) PROVE LinksInv'
    <3>1. /\ resets' = resets \cup {[token |-> r, user |-> Subject(r)]}
          /\ at[r] = "reset" /\ at'[r] = "done"
          /\ \A q \in Request \ {r} : at'[q] = at[q]
          /\ UNCHANGED <<op, met>>
      BY <2>0, <2>2 DEF InsertReset, Goto, OpType, ghostVars
    <3>2. \A z \in resets : z.user = Subject(r) => {z.token, r} \in met /\ {r, z.token} \in met
      <4>1. \A z \in resets : {z.token, r} = {r, z.token}
        OBVIOUS
      <4> QED BY <3>1, <4>1 DEF LinksInv, ClearedOrMet
    <3>3. OneLiveReset'
      BY <3>1, <3>2 DEF LinksInv, OneLiveReset
    <3>4. ASSUME NEW q \in Request, NEW z \in resets', at'[q] = "reset", z.user = Subject(q)'
          PROVE  {z.token, q} \in met'
      <4>1. at[q] = "reset" /\ q # r /\ Subject(q)' = Subject(q)
        BY <3>1, <3>4 DEF Subject
      <4>2. CASE z \in resets
        BY <3>1, <3>4, <4>1, <4>2 DEF LinksInv, ClearedOrMet
      <4>3. CASE z = [token |-> r, user |-> Subject(r)]
        <5>1. {r, q} \in met
          BY <1>0, <3>1, <4>1 DEF AcquaintedInv, Acquainted, UnderWay
        <5> QED BY <3>1, <4>3, <5>1
      <4> QED BY <3>1, <4>2, <4>3
    <3>5. ClearedOrMet'
      BY <3>4 DEF ClearedOrMet
    <3> QED BY <1>0, <3>3, <3>5 DEF LinksInv
  <2>3. ASSUME NEW r \in Request, ConsumeReset(r) PROVE resets' \subseteq resets
    BY <2>3 DEF ConsumeReset
  <2> QED BY <1>2, <2>0, <2>1, <2>2, <2>3, ResetsTouched
<1> QED BY <1>1, <1>2

\* No user has two links at the start.
LEMMA LinksInvInit == Init => LinksInv
<1> SUFFICES ASSUME Init PROVE LinksInv
  OBVIOUS
<1>1. PICK t \in Rows : resets = t.resets
  BY DEF Init
<1>2. OneLiveReset
  BY <1>1, RowsAssumption DEF OneLiveReset
<1>3. ClearedOrMet
  BY DEF Init, ClearedOrMet
<1> QED BY <1>2, <1>3, AcquaintedInvInit, ResetsInvInit DEF LinksInv

-----------------------------------------------------------------------------
(* Old passwords.                                                          *)

\* A request has a role to give or none, and gives one where it sets one.
RolesAreGiven ==
  \A r \in Request : /\ op[r].role \in Roles \cup {None}
                     /\ at[r] = "role" => op[r].role # None

\* A request about r's user has been under way beside r.
Superseded(r) == \E q \in Request : Subject(q) = Subject(r) /\ {r, q} \in met

\* The statements of a sign-in after its password was found right.
SignInSteps == {"second", "spend", "success", "session"}

\* A sign-in is with the password of its user, or with the one before.
PasswordWasRight ==
  \A r \in Request : at[r] \in SignInSteps =>
    /\ Exists(Subject(r))
    /\ op[r].pw = acct[Subject(r)].pw \/ Superseded(r)

\* A session made by a request is one of an account.
HoldersExist == \A s \in sessions : s.id \in Request => s.user \in User /\ Exists(s.user)

PasswordInv ==
  /\ AcquaintedInv /\ SessionsInv
  /\ RolesAreGiven /\ PasswordWasRight /\ HoldersExist /\ OldPasswordDies

\* A role to give is the first account's or the one asked for.
LEMMA RolesWritten ==
  ASSUME OpType, Next, NEW r \in Request, op'[r].role # op[r].role
  PROVE  op'[r].role = "admin"
<1>1. ASSUME NEW q \in Request, ConsumeReset(q) PROVE op'[r].role = op[r].role
  <2>1. CASE UNCHANGED op
    BY <2>1
  <2>2. ASSUME NEW z \in resets, op' = [op EXCEPT ![q].user = z.user, ![q].token = z.token]
        PROVE  op'[r].role = op[r].role
    BY <2>2 DEF OpType
  <2> QED BY <1>1, <2>1, <2>2 DEF ConsumeReset
<1>2. ASSUME NEW q \in Request, CountUsers(q) PROVE op'[r].role \in {op[r].role, "admin"}
  BY <1>2 DEF CountUsers, OpType
<1>3. ASSUME NEW q \in Request, SignIn(q) PROVE op' = op
  BY <1>3 DEF SignIn, Authenticate, VerifySecondFactor, UseRecoveryCode, RecordLoginFailure,
              RecordLoginSuccess, CreateSession
<1>4. ASSUME NEW q \in Request, SelfService(q), ~ConsumeReset(q) PROVE op' = op
  BY <1>4 DEF SelfService, CheckPassword, SetPassword, DeleteUserSessions, Logout, WriteSecret,
              ForgetCodes, ConfirmTOTP, ReplaceRecoveryCodes, EnableTOTP
<1>5. ASSUME NEW q \in Request, Administration(q), ~CountUsers(q) PROVE op' = op
  BY <1>5 DEF Administration, UpdateUserRole, SetUserDisabled, ClearResets, InsertReset, CreateUser
<1>6. ASSUME NEW q \in Request, AuthenticateSession(q) \/ Fault(q) PROVE op' = op
  BY <1>6 DEF AuthenticateSession, Fault
<1>7. ASSUME Expire \/ \E u \in User : LockExpires(u) PROVE op' = op
  BY <1>7 DEF Expire, LockExpires
<1> QED BY <1>1, <1>2, <1>3, <1>4, <1>5, <1>6, <1>7 DEF Next

\* Roles are given as before, but for the first account's.
LEMMA RolesStayGiven ==
  ASSUME OpType, RolesAreGiven, Next
  PROVE  RolesAreGiven'
<1>1. ASSUME NEW r \in Request PROVE op'[r].role \in Roles \cup {None}
  <2>1. CASE op'[r].role = op[r].role
    BY <2>1 DEF RolesAreGiven
  <2>2. CASE op'[r].role # op[r].role
    BY <2>2, RolesWritten DEF Roles
  <2> QED BY <2>1, <2>2
<1>2. ASSUME NEW r \in Request, at'[r] = "role" PROVE op'[r].role # None
  <2>1. CASE at[r] = "role"
    BY <2>1, StepOf DEF RolesAreGiven
  <2>2. CASE at[r] # "role"
    <3>1. AuthenticateSession(r)
      BY <1>2, <2>2, StepOf, Leads
    <3>2. op' = op /\ First(r) = "role"
      BY <1>2, <3>1 DEF AuthenticateSession, Goto, OpType
    <3>3. First(r) = "role" => op[r].role # None
      BY DEF First
    <3> QED BY <3>2, <3>3
  <2> QED BY <2>1, <2>2
<1> QED BY <1>1, <1>2 DEF RolesAreGiven

\* An account does not go, and its password is set by SetPassword.
LEMMA AccountsStay ==
  ASSUME OpType, AcctType, RolesAreGiven, Next, NEW u \in User, Exists(u)
  PROVE  /\ Exists(u)'
         /\ acct'[u].pw # acct[u].pw => \E r \in Request : SetPassword(r) /\ Subject(r) = u
<1>1. CASE Kept(u)
  BY <1>1 DEF Kept, Keeps, Exists
<1>2. CASE ~Kept(u)
  <2>1. PICK r \in Request : WritesRow(r)
    BY <1>2, RowsTouched
  <2>2. Subject(r) = u
    BY <1>2, <2>1, RowWritten
  <2>3. CASE UpdateUserRole(r) /\ Keeps(u, {"pw"}) /\ acct'[u].role = op[r].role
    BY <2>3 DEF UpdateUserRole, RolesAreGiven, Exists, Keeps
  <2>4. CASE SetPassword(r) /\ Keeps(u, {"role"})
    BY <2>2, <2>4 DEF Exists, Keeps
  <2>5. CASE Keeps(u, {"role", "pw"})
    BY <2>5 DEF Exists, Keeps
  <2> QED BY <1>2, <2>1, <2>2, <2>3, <2>4, <2>5, RowWritten DEF Keeps
<1> QED BY <1>1, <1>2

\* A session comes from CreateSession, and faults are only added.
LEMMA SessionsCreated ==
  ASSUME OpType, faults \in Nat, Next
  PROVE  /\ \A s \in sessions' \ sessions :
              \E r \in Request : CreateSession(r) /\ s = [id |-> r, user |-> Subject(r)]
         /\ faults' = 0 => faults = 0
<1>1. ASSUME NEW r \in Request,
             SetPassword(r) \/ ForgetCodes(r) \/ SetUserDisabled(r) \/ DeleteUserSessions(r)
      PROVE  sessions' \subseteq sessions /\ faults' = faults
  BY <1>1 DEF SetPassword, ForgetCodes, SetUserDisabled, DeleteUserSessions, ghostVars
<1>2. ASSUME Expire \/ \E r \in Request : Fault(r)
      PROVE  sessions' \subseteq sessions /\ faults' = faults + 1
  BY <1>2 DEF Expire, Fault, rowVars
<1>3. ASSUME NEW r \in Request, CreateSession(r)
      PROVE  /\ sessions' = sessions \cup {[id |-> r, user |-> Subject(r)]} /\ faults' = faults
  BY <1>3 DEF CreateSession
<1> QED BY <1>1, <1>2, <1>3, SessionsTouched

\* A purge under way deletes or fails.
LEMMA PurgeEnds ==
  ASSUME OpType, NEW r \in Request, at[r] = "purge", Takes(r)
  PROVE  DeleteUserSessions(r) \/ Fault(r)
BY DEF Takes, SignIn, Authenticate, VerifySecondFactor, UseRecoveryCode, RecordLoginFailure,
   RecordLoginSuccess, CreateSession, AuthenticateSession, SelfService, CheckPassword, ConsumeReset,
   SetPassword, Logout, WriteSecret, ForgetCodes, ConfirmTOTP, ReplaceRecoveryCodes, EnableTOTP,
   Administration, UpdateUserRole, SetUserDisabled, ClearResets, InsertReset, CountUsers, CreateUser

\* A sign-in finds the password right once; it is set again beside it or after it.
LEMMA PasswordStaysRight ==
  ASSUME AcquaintedInv, RolesAreGiven, PasswordWasRight, Next,
         NEW r \in Request, at'[r] \in SignInSteps
  PROVE  /\ Exists(Subject(r))'
         /\ (op[r].pw = acct[Subject(r)].pw \/ Superseded(r))'
<1>0. OpType /\ AcctType /\ Subject(r) \in User
  BY DEF AcquaintedInv, OpType, Subject
<1>1. CASE at[r] \in SignInSteps
  <2>1. op'[r] = op[r] /\ Subject(r)' = Subject(r)
    BY <1>0, <1>1, StepOf DEF SignInSteps
  <2>2. Exists(Subject(r))
    BY <1>1 DEF PasswordWasRight
  <2>3. Exists(Subject(r))'
    <3>1. PICK u \in User : u = Subject(r)
      BY <1>0
    <3>2. Exists(u)'
      BY <1>0, <2>2, <3>1, AccountsStay
    <3> QED BY <2>1, <3>1, <3>2 DEF Exists
  <2>4. Superseded(r) => Superseded(r)'
    BY MetStay DEF Superseded
  <2>5. CASE acct'[Subject(r)].pw = acct[Subject(r)].pw
    BY <1>1, <2>1, <2>3, <2>4, <2>5 DEF PasswordWasRight
  <2>6. CASE acct'[Subject(r)].pw # acct[Subject(r)].pw
    <3>1. PICK q \in Request : SetPassword(q) /\ Subject(q) = Subject(r)
      BY <1>0, <2>2, <2>6, AccountsStay
    <3>2. {r, q} \in met
      BY <1>1, <3>1 DEF SetPassword, SignInSteps, UnderWay, AcquaintedInv, Acquainted
    <3>3. Superseded(r)
      BY <3>1, <3>2 DEF Superseded
    <3> QED BY <2>3, <2>4, <3>3
  <2> QED BY <2>5, <2>6
<1>2. CASE at[r] \notin SignInSteps
  <2>1. Authenticate(r)
    BY <1>0, <1>2, StepOf, Leads
       DEF SignInSteps, VerifySecondFactor, UseRecoveryCode, RecordLoginSuccess
  <2>2. /\ acct' = acct /\ op' = op
        /\ at'[r] = AfterPassword(Subject(r), op[r].pw, op[r].code)
    BY <1>0, <2>1 DEF Authenticate, Goto, OpType, rowVars
  <2>3. Exists(Subject(r)) /\ op[r].pw = acct[Subject(r)].pw
    BY <2>2 DEF AfterPassword, SignInSteps
  <2> QED BY <2>2, <2>3 DEF Exists, Subject
<1> QED BY <1>1, <1>2

\* A session is made for an account, which stays.
LEMMA HoldersStay ==
  ASSUME PasswordInv, Next, NEW s \in sessions', s.id \in Request
  PROVE  s.user \in User /\ Exists(s.user)'
<1>0. OpType /\ AcctType /\ RolesAreGiven /\ faults \in Nat
  BY DEF PasswordInv, AcquaintedInv, SessionsInv, SessionsAreFresh
<1>1. s.user \in User /\ Exists(s.user)
  <2>1. CASE s \in sessions
    BY <2>1 DEF PasswordInv, HoldersExist
  <2>2. CASE s \notin sessions
    <3>1. PICK r \in Request : CreateSession(r) /\ s = [id |-> r, user |-> Subject(r)]
      BY <1>0, <2>2, SessionsCreated
    <3> QED BY <1>0, <3>1 DEF CreateSession, PasswordInv, PasswordWasRight, SignInSteps, OpType, Subject
  <2> QED BY <2>1, <2>2
<1>2. PICK u \in User : u = s.user
  BY <1>1
<1> QED BY <1>0, <1>1, <1>2, AccountsStay DEF Exists

\* A session of an old password is about to be deleted, or was begun beside the
\* change.
LEMMA OldPasswordsDie ==
  ASSUME PasswordInv, Next, faults' = 0, NEW s \in sessions', s.id \in Request
  PROVE  \/ op'[s.id].pw = acct'[s.user].pw
         \/ \E r \in Request : Subject(r)' = s.user /\ (at'[r] = "purge" \/ {s.id, r} \in met')
<1>0. /\ OpType /\ AcctType /\ AcquaintedInv /\ RolesAreGiven /\ faults \in Nat
      /\ \A q \in sessions : q.id \in Request => at[q.id] = "done"
  BY DEF PasswordInv, AcquaintedInv, SessionsInv, SessionsAreFresh
<1>1. faults = 0
  BY <1>0, SessionsCreated
<1>2. CASE s \notin sessions
  <2>1. PICK r \in Request : CreateSession(r) /\ s = [id |-> r, user |-> Subject(r)]
    BY <1>0, <1>2, SessionsCreated
  <2>2. at[r] = "session" /\ acct' = acct /\ op' = op /\ met' = met /\ s.id = r /\ s.user = Subject(r)
    BY <2>1 DEF CreateSession, ghostVars
  <2>3. Exists(Subject(r)) /\ (op[r].pw = acct[Subject(r)].pw \/ Superseded(r))
    BY <2>2 DEF PasswordInv, PasswordWasRight, SignInSteps
  <2>4. \A q \in Request : Subject(q)' = Subject(q)
    BY <2>2 DEF Subject
  <2> QED BY <2>2, <2>3, <2>4 DEF Superseded
<1>3. CASE s \in sessions
  <2>1. s.user \in User /\ Exists(s.user)
    BY <1>3 DEF PasswordInv, HoldersExist
  <2>2. acct'[s.user].pw # acct[s.user].pw =>
          \E r \in Request : SetPassword(r) /\ Subject(r) = s.user
    <3>1. PICK u \in User : u = s.user
      BY <2>1
    <3> QED BY <1>0, <2>1, <3>1, AccountsStay DEF Exists
  <2>3. op'[s.id] = op[s.id]
    BY <1>0, <1>3, StepOf
  <2>4. CASE op[s.id].pw = acct[s.user].pw /\ acct'[s.user].pw = acct[s.user].pw
    BY <2>1, <2>2, <2>3, <2>4
  <2>5. CASE acct'[s.user].pw # acct[s.user].pw
    <3>1. PICK r \in Request : SetPassword(r) /\ Subject(r) = s.user
      BY <2>2, <2>5
    <3>2. at'[r] = "purge" /\ Subject(r)' = Subject(r)
      BY <1>0, <3>1 DEF SetPassword, Goto, OpType, Subject
    <3> QED BY <2>1, <2>2, <3>1, <3>2
  <2>6. ASSUME NEW r \in Request, Subject(r) = s.user, at[r] = "purge"
        PROVE  at'[r] = "purge" /\ Subject(r)' = s.user
    <3>1. Subject(r)' = s.user
      BY <1>0, <2>6, StepOf
    <3>2. ASSUME at'[r] # "purge" PROVE FALSE
      <4>1. Takes(r)
        BY <1>0, <2>6, <3>2, StepOf
      <4>2. CASE DeleteUserSessions(r)
        BY <1>3, <2>6, <4>2 DEF DeleteUserSessions, SessionsOf
      <4>3. CASE Fault(r)
        BY <1>0, <4>3 DEF Fault
      <4> QED BY <1>0, <2>6, <4>1, <4>2, <4>3, PurgeEnds
    <3> QED BY <3>1, <3>2
  <2>7. ASSUME NEW r \in Request, Subject(r) = s.user, {s.id, r} \in met
        PROVE  {s.id, r} \in met' /\ Subject(r)' = s.user
    <3>1. PICK q \in Request : q = s.id
      OBVIOUS
    <3>2. {q, r} \in met
      BY <2>7, <3>1
    <3> QED BY <1>0, <2>7, <3>1, <3>2, MetStay
  <2>8. \/ op[s.id].pw = acct[s.user].pw
        \/ \E r \in Request : Subject(r) = s.user /\ (at[r] = "purge" \/ {s.id, r} \in met)
    BY <1>1, <1>3 DEF PasswordInv, OldPasswordDies
  <2> QED BY <2>1, <2>2, <2>4, <2>5, <2>6, <2>7, <2>8
<1> QED BY <1>2, <1>3

\* Every statement leaves old passwords without sessions of their own.
LEMMA PasswordInvStep == PasswordInv /\ [Next]_vars => PasswordInv'
<1> SUFFICES ASSUME PasswordInv, [Next]_vars PROVE PasswordInv'
  OBVIOUS
<1>0. AcquaintedInv' /\ SessionsInv'
  BY AcquaintedInvStep, SessionsInvStep DEF PasswordInv
<1>1. CASE UNCHANGED vars
  <2>1. /\ UNCHANGED <<acct, sessions, op, at, met, faults>>
        /\ \A r \in Request : Subject(r)' = Subject(r)
    BY <1>1 DEF vars, rowVars, ghostVars, Subject
  <2>2. RolesAreGiven' /\ HoldersExist'
    BY <2>1 DEF PasswordInv, RolesAreGiven, HoldersExist, Exists
  <2>3. PasswordWasRight'
    BY <2>1 DEF PasswordInv, PasswordWasRight, Superseded, Exists
  <2>4. OldPasswordDies'
    BY <2>1 DEF PasswordInv, OldPasswordDies
  <2> QED BY <1>0, <2>2, <2>3, <2>4 DEF PasswordInv
<1>2. CASE Next
  <2>1. OpType /\ AcquaintedInv /\ RolesAreGiven /\ PasswordWasRight
    BY DEF PasswordInv, AcquaintedInv
  <2>2. RolesAreGiven'
    BY <1>2, <2>1, RolesStayGiven
  <2>3. PasswordWasRight'
    BY <1>2, <2>1, PasswordStaysRight DEF PasswordWasRight
  <2>4. HoldersExist'
    BY <1>2, HoldersStay DEF HoldersExist
  <2>5. OldPasswordDies'
    BY <1>2, OldPasswordsDie DEF OldPasswordDies
  <2> QED BY <1>0, <2>2, <2>3, <2>4, <2>5 DEF PasswordInv
<1> QED BY <1>1, <1>2

\* No session at the start is of a sign-in of this behaviour.
LEMMA PasswordInvInit == Init => PasswordInv
<1> SUFFICES ASSUME Init PROVE PasswordInv
  OBVIOUS
<1>1. PICK t \in Rows : sessions = t.sessions
  BY DEF Init
<1>2. HoldersExist /\ OldPasswordDies
  BY <1>1, RowsAssumption DEF HoldersExist, OldPasswordDies
<1>3. RolesAreGiven /\ PasswordWasRight
  BY PlansAssumption DEF Init, RolesAreGiven, PasswordWasRight, SignInSteps
<1> QED BY <1>2, <1>3, AcquaintedInvInit, SessionsInvInit DEF PasswordInv

\* Requests that do not overlap leave no unproven second factor, no second live
\* link and no session of an old password behind.
THEOREM OverlapOnlyAside == Spec => []OverlapAside
<1>1. FactorInv /\ LinksInv /\ PasswordInv => OverlapAside
  BY DEF FactorInv, LinksInv, PasswordInv, OverlapAside
<1> QED
  BY <1>1, FactorInvInit, FactorInvStep, LinksInvInit, LinksInvStep, PasswordInvInit, PasswordInvStep,
     PTL DEF Spec

-----------------------------------------------------------------------------
(* The last administrator.                                                 *)

\* A session has an id of its own and a holder.
IdsAreOwn ==
  /\ \A s \in sessions : s.user \in User
  /\ \A r, s \in sessions : r.id = s.id => r = s

\* Whoever is about to change a role or a status is not about themselves.
NotOneself ==
  \A r \in Request : at[r] \in {"role", "disable"} /\ op[r].by \notin {Ctl, Key} =>
    /\ op[r].by \in Request => at[op[r].by] = "done"
    /\ \A s \in sessions : s.id = op[r].by => s.user # Subject(r)

AdminInv == AcquaintedInv /\ SessionsInv /\ IdsAreOwn /\ NotOneself

\* The holder of an id is the user of its session.
LEMMA HolderIs ==
  ASSUME IdsAreOwn, NEW s \in sessions
  PROVE  Holder(s.id) = s.user
<1>1. \A q \in sessions : q.id = s.id <=> q = s
  BY DEF IdsAreOwn
<1>2. (CHOOSE q \in sessions : q.id = s.id) = s
  BY <1>1
<1> QED BY <1>2 DEF Holder

\* An id is not used again, so a holder stays who it was when a request was
\* permitted.
LEMMA AdminInvStep == AdminInv /\ [Next]_vars => AdminInv'
<1> SUFFICES ASSUME AdminInv, [Next]_vars PROVE AdminInv'
  OBVIOUS
<1>0. AcquaintedInv' /\ SessionsInv'
  BY AcquaintedInvStep, SessionsInvStep DEF AdminInv
<1>1. CASE UNCHANGED vars
  BY <1>0, <1>1 DEF vars, rowVars, AdminInv, IdsAreOwn, NotOneself, Subject
<1>2. CASE Next
  <2>0. /\ OpType /\ AcctType /\ faults \in Nat /\ IdsAreOwn
        /\ \A s \in sessions : s.id \in Request => at[s.id] = "done"
    BY DEF AdminInv, AcquaintedInv, SessionsInv, SessionsAreFresh
  <2>1. \A s \in sessions' \ sessions :
          \E r \in Request : /\ at[r] = "session" /\ sessions' = sessions \cup {s}
                             /\ s.id = r /\ s.user \in User
    <3> SUFFICES ASSUME NEW s \in sessions' \ sessions
                 PROVE  \E r \in Request : /\ at[r] = "session" /\ sessions' = sessions \cup {s}
                                           /\ s.id = r /\ s.user \in User
      OBVIOUS
    <3>1. PICK r \in Request : CreateSession(r) /\ s = [id |-> r, user |-> Subject(r)]
      BY <1>2, <2>0, SessionsCreated
    <3> QED BY <2>0, <3>1 DEF CreateSession, OpType, Subject
  <2>2. IdsAreOwn'
    <3>1. \A s \in sessions' : s.user \in User
      BY <2>0, <2>1 DEF IdsAreOwn
    <3>2. ASSUME NEW x \in sessions', NEW y \in sessions', x.id = y.id, x # y PROVE FALSE
      <4>1. CASE x \in sessions /\ y \in sessions
        BY <2>0, <3>2, <4>1 DEF IdsAreOwn
      <4>2. CASE x \notin sessions
        BY <2>0, <2>1, <3>2, <4>2
      <4>3. CASE y \notin sessions
        BY <2>0, <2>1, <3>2, <4>3
      <4> QED BY <4>1, <4>2, <4>3
    <3> QED BY <3>1, <3>2 DEF IdsAreOwn
  <2>3. ASSUME NEW r \in Request, at'[r] \in {"role", "disable"}, op'[r].by \notin {Ctl, Key}
        PROVE  /\ op'[r].by \in Request => at'[op'[r].by] = "done"
               /\ \A s \in sessions' : s.id = op'[r].by => s.user # Subject(r)'
    <3>1. /\ op'[r] = op[r] /\ Subject(r)' = Subject(r)
          /\ op[r].by \in Request => at[op[r].by] = "done"
          /\ \A s \in sessions : s.id = op[r].by => s.user # Subject(r)
      <4>1. CASE at[r] \in {"role", "disable"}
        BY <1>2, <2>0, <2>3, <4>1, StepOf DEF AdminInv, NotOneself
      <4>2. CASE at[r] \notin {"role", "disable"}
        <5>1. AuthenticateSession(r)
          BY <1>2, <2>0, <2>3, <4>2, StepOf, Leads DEF UpdateUserRole
        <5>2. op' = op /\ First(r) \in {"role", "disable"} /\ Permitted(r)
          BY <2>0, <2>3, <5>1 DEF AuthenticateSession, Goto, OpType
        <5>3. op[r].name = "update"
          BY <5>2 DEF First
        <5>4. Resolves(op[r].by) /\ Holder(op[r].by) # Subject(r)
          BY <2>3, <5>2, <5>3 DEF Permitted
        <5>5. PICK s \in sessions : s.id = op[r].by
          BY <5>4 DEF Resolves
        <5>6. \A q \in sessions : q.id = op[r].by => q.user # Subject(r)
          BY <2>0, <5>4, HolderIs
        <5> QED BY <2>0, <5>2, <5>5, <5>6 DEF Subject
      <4> QED BY <4>1, <4>2
    <3>2. op[r].by \in Request => at'[op[r].by] = "done"
      BY <1>2, <2>0, <3>1, StepShape
    <3>3. \A s \in sessions' \ sessions : s.id # op[r].by
      BY <2>1, <3>1
    <3> QED BY <3>1, <3>2, <3>3
  <2>4. NotOneself'
    BY <2>3 DEF NotOneself
  <2> QED BY <1>0, <2>2, <2>4 DEF AdminInv
<1> QED BY <1>1, <1>2

\* Sessions have ids of their own at the start.
LEMMA AdminInvInit == Init => AdminInv
<1> SUFFICES ASSUME Init PROVE AdminInv
  OBVIOUS
<1>1. PICK t \in Rows : sessions = t.sessions
  BY DEF Init
<1>2. IdsAreOwn
  BY <1>1, RowsAssumption DEF IdsAreOwn
<1>3. NotOneself
  BY DEF Init, NotOneself
<1> QED BY <1>2, <1>3, AcquaintedInvInit, SessionsInvInit DEF AdminInv

\* A person who demotes or disables the last administrator is another one, or was
\* one when the request was permitted.
LEMMA AdminFalls ==
  ASSUME AdminInv, Next, AdminLeft, ~AdminLeft'
  PROVE  \E r \in Request :
           /\ at'[r] # at[r]
           /\ op[r].by \in {Ctl, Key} \/ ~StillAdmin(op[r].by)
<1>0. OpType /\ AcctType /\ IdsAreOwn
  BY DEF AdminInv, AcquaintedInv
<1>1. PICK u \in User : acct[u].role = "admin" /\ ~acct[u].disabled
  BY DEF AdminLeft
<1>2. ~Keeps(u, {"role", "disabled"})
  BY <1>1 DEF AdminLeft, Keeps
<1>3. PICK r \in Request : WritesRow(r)
  BY <1>0, <1>2, RowsTouched DEF Kept, Keeps
<1>4. Subject(r) = u /\ \A v \in User \ {u} : Keeps(v, {"role", "disabled"})
  BY <1>0, <1>2, <1>3, RowWritten DEF Kept, Keeps
<1>5. UpdateUserRole(r) \/ SetUserDisabled(r)
  <2>1. Exists(u)
    BY <1>1 DEF Exists, Roles
  <2> QED BY <1>0, <1>2, <1>3, <1>4, <2>1, RowWritten DEF Kept, Keeps
<1>6. at[r] \in {"role", "disable"} /\ at'[r] # at[r]
  BY <1>0, <1>5 DEF UpdateUserRole, SetUserDisabled, Goto, OpType
<1>7. ASSUME op[r].by \notin {Ctl, Key}, StillAdmin(op[r].by)
      PROVE  FALSE
  <2>1. PICK s \in sessions : s.id = op[r].by /\ ~acct[s.user].disabled
    BY <1>7 DEF StillAdmin, Resolves
  <2>2. s.user \in User /\ s.user # u
    BY <1>4, <1>6, <1>7, <2>1 DEF AdminInv, IdsAreOwn, NotOneself
  <2>3. acct[s.user].role = "admin"
    BY <1>0, <1>7, <2>1, HolderIs DEF StillAdmin, Administers
  <2> QED BY <1>4, <2>1, <2>2, <2>3 DEF AdminLeft, Keeps
<1> QED BY <1>6, <1>7

\* The last enabled administrator falls to no request of a signed-in admin who
\* still is one: only to the command line, to an API key that passes requireAdmin,
\* or to one whose admin lost the role or the session while it was under way.
THEOREM AdminsStay == Spec => AdminStays
<1>1. AdminInv /\ [Next]_vars =>
        [AdminLeft /\ ~AdminLeft' =>
           \E r \in Request :
             /\ at'[r] # at[r]
             /\ op[r].by \in {Ctl, Key} \/ ~StillAdmin(op[r].by)]_vars
  BY AdminFalls
<1> QED BY <1>1, AdminInvInit, AdminInvStep, PTL DEF Spec, AdminStays
=============================================================================
