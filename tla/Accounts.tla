------------------------------ MODULE Accounts ------------------------------
(***************************************************************************)
(* Dashboard accounts: internal/account over the tables of migration 0011, *)
(* the handlers of internal/ingest/auth_handlers.go and the users commands *)
(* of reconsyncctl.  Every request is a process; it takes one step per     *)
(* statement on the database, so requests interleave between a check and   *)
(* the write it was made for.                                              *)
(*                                                                         *)
(* Passwords, secrets and tokens are values: a hash verifies for the value *)
(* it was made from, a TOTP code for its secret.                           *)
(***************************************************************************)
EXTENDS Naturals, FiniteSets, FiniteSetsExt

CONSTANTS
  User, Request,
  Plans,        \* SUBSET [Request -> operation]: what the requests are
  Rows,         \* the tables a behaviour may start from
  Password, Secret,
  None,         \* no secret, no code, no token, no role, no change asked for
  MaxFailed,    \* MaxFailedLogins
  MaxFaults     \* requests that end half way

ASSUME AccountsAssumption ==
  MaxFailed \in Nat \ {0} /\ MaxFaults \in Nat /\ None \notin Request

Roles == {"viewer", "operator", "admin"}

\* An operation has its fields, and has not been handed a link yet.
ASSUME PlansAssumption ==
  \A p \in Plans :
    /\ DOMAIN p = Request
    /\ \A r \in Request : /\ {"name", "user", "token", "role"} \subseteq DOMAIN p[r]
                          /\ p[r].user \in User
                          /\ p[r].role \in Roles \cup {None}
                          /\ p[r].token = None

\* A row of users.
AcctFields == {"role", "pw", "totp", "secret", "failed", "locked", "disabled"}

\* Codes, sessions and links are told apart by random values: those there at the
\* start differ from each other and from what the requests will make.  What
\* earlier requests left behind is what they leave when they do not overlap.
ASSUME RowsAssumption ==
  \A t \in Rows :
    /\ DOMAIN t.acct = User /\ DOMAIN t.codes = User
    /\ \A u \in User : /\ AcctFields \subseteq DOMAIN t.acct[u]
                       /\ t.acct[u].totp \in BOOLEAN
                       /\ t.acct[u].totp => t.acct[u].secret \in t.proven
    /\ \A u, v \in User : u # v => t.codes[u] \cap t.codes[v] = {}
    /\ \A u \in User : t.codes[u] \cap (Request \X {1, 2}) = {}
    /\ \A s \in t.sessions : s.id \notin Request /\ s.user \in User
    /\ \A r, s \in t.sessions : r.id = s.id => r = s
    /\ \A z \in t.resets : z.token \notin Request /\ z.user \in User
    /\ \A y, z \in t.resets : y.token = z.token \/ y.user = z.user => y = z

VARIABLES
  acct,       \* [User -> row of users]
  codes,      \* [User -> unspent recovery codes]
  sessions,   \* user_sessions
  resets,     \* unused rows of password_resets
  op,         \* [Request -> operation], from Plans
  at,         \* [Request -> the statement it is before]
  spent,      \* recovery codes that let a sign-in go on, with the sign-in
  ended,      \* sessions that were there when their user's sessions had to end
  proven,     \* secrets a valid code was shown for
  met,        \* pairs of requests that have been under way together
  faults      \* requests ended half way so far

rowVars == <<acct, codes, sessions, resets>>
ghostVars == <<spent, ended, proven, met>>
vars == <<rowVars, op, at, ghostVars, faults>>

\* The permission to manage users and endpoints.
Administers(role) == role = "admin"

Exists(u) == acct[u].role \in Roles

\* reconsyncctl, which needs no session, and an API key that HasScope(endpoints:write):
\* one made with that scope, or with no scopes at all.
Ctl == "ctl"
Key == "key"

Steps == {"start", "run", "second", "spend", "fail", "success", "session",
          "password", "purge", "codes", "enable", "secret", "forget",
          "role", "disable", "clear", "reset", "insert", "done"}

\* The user an operation is about.
Subject(r) == op[r].user

Goto(r, step) == at' = [at EXCEPT ![r] = step]

UnderWay(r) == at[r] \notin {"start", "done"}

\* r starts beside the requests under way.
Meet(r) == met' = met \cup {{r, q} : q \in {q \in Request \ {r} : UnderWay(q)}}

Set(u, row) == acct' = [acct EXCEPT ![u] = row]

SessionsOf(u) == {s \in sessions : s.user = u}

-----------------------------------------------------------------------------
(* Sign-in: Authenticate, VerifySecondFactor, StartSession.                *)

Active(u) == ~acct[u].disabled /\ ~acct[u].locked

\* A bug's form of AfterPassword: with a code the password is not looked at.
AfterPasswordOrCode(u, pw, code) ==
  IF ~Exists(u) \/ ~Active(u) THEN "done"
  ELSE IF acct[u].totp /\ code # None THEN "second"
  ELSE IF acct[u].pw # pw THEN "fail"
  ELSE IF acct[u].totp THEN "done" ELSE "success"

\* Where the password check leads, from one read of the row.
AfterPassword(u, pw, code) ==
  IF ~Exists(u) \/ ~Active(u) THEN "done"
  ELSE IF acct[u].pw # pw THEN "fail"
  ELSE IF ~acct[u].totp THEN "success"
  ELSE IF code = None THEN "done" ELSE "second"

Authenticate(r) ==
  /\ at[r] = "start"
  /\ op[r].name = "login"
  /\ Goto(r, AfterPassword(Subject(r), op[r].pw, op[r].code))
  /\ Meet(r)
  /\ UNCHANGED <<rowVars, op, spent, ended, proven, faults>>

VerifySecondFactor(r) ==
  /\ at[r] = "second"
  /\ LET u == Subject(r) IN
     Goto(r, IF ~Active(u) \/ ~acct[u].totp THEN "done"
             ELSE IF op[r].code = acct[u].secret THEN "success" ELSE "spend")
  /\ UNCHANGED <<rowVars, op, ghostVars, faults>>

\* A bug's form of UseRecoveryCode: spending is left for later.
UseCodeAgain(r) ==
  /\ at[r] = "spend"
  /\ IF op[r].code \in codes[Subject(r)]
     THEN spent' = spent \cup {<<op[r].code, r>>} /\ Goto(r, "success")
     ELSE UNCHANGED spent /\ Goto(r, "fail")
  /\ UNCHANGED <<rowVars, op, ended, proven, met, faults>>

\* One UPDATE that matches an unspent code only.
UseRecoveryCode(r) ==
  /\ at[r] = "spend"
  /\ IF op[r].code \in codes[Subject(r)]
     THEN /\ codes' = [codes EXCEPT ![Subject(r)] = @ \ {op[r].code}]
          /\ spent' = spent \cup {<<op[r].code, r>>}
          /\ Goto(r, "success")
     ELSE UNCHANGED <<codes, spent>> /\ Goto(r, "fail")
  /\ UNCHANGED <<acct, sessions, resets, op, ended, proven, met, faults>>

\* Counted up to the number that locks.
RecordLoginFailure(r) ==
  /\ at[r] = "fail"
  /\ LET u == Subject(r)
         n == Min({acct[u].failed + 1, MaxFailed}) IN
     Set(u, [acct[u] EXCEPT !.failed = n, !.locked = @ \/ n = MaxFailed])
  /\ Goto(r, "done")
  /\ UNCHANGED <<codes, sessions, resets, op, ghostVars, faults>>

RecordLoginSuccess(r) ==
  /\ at[r] = "success"
  /\ Set(Subject(r), [acct[Subject(r)] EXCEPT !.failed = 0, !.locked = FALSE])
  /\ Goto(r, "session")
  /\ UNCHANGED <<codes, sessions, resets, op, ghostVars, faults>>

CreateSession(r) ==
  /\ at[r] = "session"
  /\ sessions' = sessions \cup {[id |-> r, user |-> Subject(r)]}
  /\ Goto(r, "done")
  /\ UNCHANGED <<acct, codes, resets, op, ghostVars, faults>>

\* LockDuration has passed; the count stays.
LockExpires(u) ==
  /\ acct[u].locked
  /\ Set(u, [acct[u] EXCEPT !.locked = FALSE])
  /\ UNCHANGED <<codes, sessions, resets, op, at, ghostVars, faults>>

-----------------------------------------------------------------------------
(* Requests of people who are signed in, and commands.                     *)

\* SessionByToken: the session of an account that is not disabled.
Resolves(by) == \E s \in sessions : s.id = by /\ ~acct[s.user].disabled

Holder(by) == (CHOOSE s \in sessions : s.id = by).user

\* requireAdmin, and that nobody changes their own role or status.  It asks for a
\* scope and not for a person: a key may administer, and is nobody's own account.
AdminOps == {"update", "issue", "create"}
Permitted(r) ==
  \/ op[r].by = Ctl /\ (op[r].name # "create" => Exists(Subject(r)))
  \/ /\ op[r].by = Key
     /\ op[r].name \in AdminOps
     /\ op[r].name # "create" => Exists(Subject(r))
  \/ /\ Resolves(op[r].by)
     /\ op[r].name \in AdminOps => Administers(acct[Holder(op[r].by)].role)
     /\ op[r].name = "update" => Holder(op[r].by) # Subject(r)
     /\ op[r].name \in {"update", "issue"} => Exists(Subject(r))
     /\ op[r].name \notin AdminOps => Holder(op[r].by) = Subject(r)

First(r) ==
  CASE op[r].name = "totp_begin" -> "secret"
    [] op[r].name = "revoke" -> "purge"
    [] op[r].name = "update" -> IF op[r].role = None THEN "disable" ELSE "role"
    [] op[r].name = "issue" -> "clear"
    [] op[r].name = "passwd" /\ op[r].by = Ctl -> "password"
    [] op[r].name = "totp_off" /\ op[r].by = Ctl -> "secret"
    [] OTHER -> "run"

\* A bug's form of AuthenticateSession: an admin may change anybody, themselves
\* included.
AuthenticateAny(r) ==
  /\ at[r] = "start"
  /\ op[r].name \notin {"login", "redeem"}
  /\ Goto(r, IF op[r].by \in {Ctl, Key} \/ Resolves(op[r].by) THEN First(r) ELSE "done")
  /\ Meet(r)
  /\ UNCHANGED <<rowVars, op, spent, ended, proven, faults>>

\* authenticate: what the caller may do is decided once, here.
AuthenticateSession(r) ==
  /\ at[r] = "start"
  /\ op[r].name \notin {"login", "redeem"}
  /\ Goto(r, IF Permitted(r) THEN First(r) ELSE "done")
  /\ Meet(r)
  /\ UNCHANGED <<rowVars, op, spent, ended, proven, faults>>

\* The password again, for what a borrowed session must not do.
CheckPassword(r) ==
  /\ at[r] = "run"
  /\ op[r].name \in {"passwd", "totp_off"}
  /\ Goto(r, IF acct[Subject(r)].pw # op[r].pw THEN "done"
             ELSE IF op[r].name = "passwd" THEN "password" ELSE "secret")
  /\ UNCHANGED <<rowVars, op, ghostVars, faults>>

\* One UPDATE that matches an unused link only; a token of no such link is
\* refused.
ConsumeReset(r) ==
  /\ at[r] = "start"
  /\ op[r].name = "redeem"
  /\ \/ \E z \in resets :
          /\ resets' = resets \ {z}
          /\ op' = [op EXCEPT ![r].user = z.user, ![r].token = z.token]
          /\ Goto(r, "password")
     \/ Goto(r, "done") /\ UNCHANGED <<resets, op>>
  /\ Meet(r)
  /\ UNCHANGED <<acct, codes, sessions, spent, ended, proven, faults>>

\* A bug's form of SetPassword: the sessions are left to expire.
SetPasswordOnly(r) ==
  /\ at[r] = "password"
  /\ Set(Subject(r), [acct[Subject(r)] EXCEPT !.pw = op[r].new, !.failed = 0, !.locked = FALSE])
  /\ ended' = ended \cup SessionsOf(Subject(r))
  /\ Goto(r, "done")
  /\ UNCHANGED <<codes, sessions, resets, op, spent, proven, met, faults>>

SetPassword(r) ==
  /\ at[r] = "password"
  /\ Set(Subject(r), [acct[Subject(r)] EXCEPT !.pw = op[r].new, !.failed = 0, !.locked = FALSE])
  /\ ended' = ended \cup SessionsOf(Subject(r))
  /\ Goto(r, "purge")
  /\ UNCHANGED <<codes, sessions, resets, op, spent, proven, met, faults>>

DeleteUserSessions(r) ==
  /\ at[r] = "purge"
  /\ sessions' = sessions \ SessionsOf(Subject(r))
  /\ Goto(r, "done")
  /\ UNCHANGED <<acct, codes, resets, op, ghostVars, faults>>

Logout(r) ==
  /\ at[r] = "run"
  /\ op[r].name = "logout"
  /\ sessions' = {s \in sessions : s.id # op[r].by}
  /\ Goto(r, "done")
  /\ UNCHANGED <<acct, codes, resets, op, ghostVars, faults>>

-----------------------------------------------------------------------------
(* The second factor.                                                      *)

\* BeginTOTP, and the first statement of DisableTOTP.
WriteSecret(r) ==
  /\ at[r] = "secret"
  /\ Set(Subject(r), [acct[Subject(r)] EXCEPT !.totp = FALSE,
                        !.secret = IF op[r].name = "totp_begin" THEN op[r].secret ELSE None])
  /\ Goto(r, IF op[r].name = "totp_begin" THEN "done" ELSE "forget")
  /\ UNCHANGED <<codes, sessions, resets, op, ghostVars, faults>>

\* The rest of DisableTOTP; the command ends the sessions too.
ForgetCodes(r) ==
  /\ at[r] = "forget"
  /\ codes' = [codes EXCEPT ![Subject(r)] = {}]
  /\ Goto(r, IF op[r].by = Ctl THEN "purge" ELSE "done")
  /\ ended' = IF op[r].by = Ctl THEN ended \cup SessionsOf(Subject(r)) ELSE ended
  /\ UNCHANGED <<acct, sessions, resets, op, spent, proven, met, faults>>

\* A bug's form of ConfirmTOTP: any secret will do.
ConfirmAny(r) ==
  /\ at[r] = "run"
  /\ op[r].name = "totp_confirm"
  /\ Goto(r, IF acct[Subject(r)].secret # None THEN "codes" ELSE "done")
  /\ UNCHANGED <<rowVars, op, ghostVars, faults>>

ConfirmTOTP(r) ==
  /\ at[r] = "run"
  /\ op[r].name = "totp_confirm"
  /\ IF acct[Subject(r)].secret # None /\ op[r].code = acct[Subject(r)].secret
     THEN Goto(r, "codes") /\ proven' = proven \cup {op[r].code}
     ELSE Goto(r, "done") /\ UNCHANGED proven
  /\ UNCHANGED <<rowVars, op, spent, ended, met, faults>>

ReplaceRecoveryCodes(r) ==
  /\ at[r] = "codes"
  /\ codes' = [codes EXCEPT ![Subject(r)] = {<<r, 1>>, <<r, 2>>}]
  /\ Goto(r, "enable")
  /\ UNCHANGED <<acct, sessions, resets, op, ghostVars, faults>>

EnableTOTP(r) ==
  /\ at[r] = "enable"
  /\ Set(Subject(r), [acct[Subject(r)] EXCEPT !.totp = @ \/ acct[Subject(r)].secret # None])
  /\ Goto(r, "done")
  /\ UNCHANGED <<codes, sessions, resets, op, ghostVars, faults>>

-----------------------------------------------------------------------------
(* Administration.                                                         *)

UpdateUserRole(r) ==
  /\ at[r] = "role"
  /\ Set(Subject(r), [acct[Subject(r)] EXCEPT !.role = op[r].role])
  /\ Goto(r, IF op[r].off = None THEN "done" ELSE "disable")
  /\ UNCHANGED <<codes, sessions, resets, op, ghostVars, faults>>

\* Disabling ends the sessions, by a second statement.
SetUserDisabled(r) ==
  /\ at[r] = "disable"
  /\ Set(Subject(r), [acct[Subject(r)] EXCEPT !.disabled = op[r].off = "yes"])
  /\ Goto(r, IF op[r].off = "yes" THEN "purge" ELSE "done")
  /\ ended' = IF op[r].off = "yes" THEN ended \cup SessionsOf(Subject(r)) ELSE ended
  /\ UNCHANGED <<codes, sessions, resets, op, spent, proven, met, faults>>

\* A bug's form of ClearResets: earlier links stay.
ClearNone(r) ==
  /\ at[r] = "clear"
  /\ Goto(r, "reset")
  /\ UNCHANGED <<rowVars, op, ghostVars, faults>>

\* CreateReset: earlier links go, then the new one comes.
ClearResets(r) ==
  /\ at[r] = "clear"
  /\ resets' = {z \in resets : z.user # Subject(r)}
  /\ Goto(r, "reset")
  /\ UNCHANGED <<acct, codes, sessions, op, ghostVars, faults>>

InsertReset(r) ==
  /\ at[r] = "reset"
  /\ resets' = resets \cup {[token |-> r, user |-> Subject(r)]}
  /\ Goto(r, "done")
  /\ UNCHANGED <<acct, codes, sessions, op, ghostVars, faults>>

\* Create: the first account of the tenant is an admin.
CountUsers(r) ==
  /\ at[r] = "run"
  /\ op[r].name = "create"
  /\ op' = [op EXCEPT ![r].role = IF \E u \in User : Exists(u) THEN @ ELSE "admin"]
  /\ Goto(r, "insert")
  /\ UNCHANGED <<rowVars, ghostVars, faults>>

CreateUser(r) ==
  /\ at[r] = "insert"
  /\ IF Exists(Subject(r)) THEN UNCHANGED acct
     ELSE Set(Subject(r), [acct[Subject(r)] EXCEPT !.role = op[r].role, !.pw = op[r].new])
  /\ Goto(r, "done")
  /\ UNCHANGED <<codes, sessions, resets, op, ghostVars, faults>>

-----------------------------------------------------------------------------
\* The process ends or a statement fails; a recovery code that could not be
\* looked up counts as a wrong one.
Fault(r) ==
  /\ UnderWay(r)
  /\ faults < MaxFaults
  /\ faults' = faults + 1
  /\ Goto(r, "done") \/ (at[r] = "spend" /\ Goto(r, "fail"))
  /\ UNCHANGED <<rowVars, op, ghostVars>>

\* A session's day or a link's hour is over; bounded like the faults.
Expire ==
  /\ faults < MaxFaults
  /\ faults' = faults + 1
  /\ \/ \E s \in sessions : sessions' = sessions \ {s} /\ UNCHANGED resets
     \/ \E z \in resets : resets' = resets \ {z} /\ UNCHANGED sessions
  /\ UNCHANGED <<acct, codes, op, at, ghostVars>>

\* The tables are the instance's: Rows is its set of initial contents.
Init ==
  /\ op \in Plans
  /\ at = [r \in Request |-> "start"]
  /\ \E t \in Rows : /\ acct = t.acct
                    /\ codes = t.codes
                    /\ sessions = t.sessions
                    /\ resets = t.resets
                    /\ proven = t.proven
  /\ spent = {}
  /\ ended = {}
  /\ met = {}
  /\ faults = 0

SignIn(r) ==
  Authenticate(r) \/ VerifySecondFactor(r) \/ UseRecoveryCode(r)
  \/ RecordLoginFailure(r) \/ RecordLoginSuccess(r) \/ CreateSession(r)

SelfService(r) ==
  CheckPassword(r) \/ ConsumeReset(r) \/ SetPassword(r) \/ DeleteUserSessions(r) \/ Logout(r)
  \/ WriteSecret(r) \/ ForgetCodes(r) \/ ConfirmTOTP(r) \/ ReplaceRecoveryCodes(r) \/ EnableTOTP(r)

Administration(r) ==
  UpdateUserRole(r) \/ SetUserDisabled(r) \/ ClearResets(r) \/ InsertReset(r)
  \/ CountUsers(r) \/ CreateUser(r)

Next ==
  \/ \E r \in Request :
       SignIn(r) \/ AuthenticateSession(r) \/ SelfService(r) \/ Administration(r) \/ Fault(r)
  \/ \E u \in User : LockExpires(u)
  \/ Expire

Spec == Init /\ [][Next]_vars

-----------------------------------------------------------------------------
\* The rows keep their types, and a lock and a second factor their reasons:
\* only a full count locks, and nothing is asked for without a secret.
TypeOK ==
  /\ \A u \in User :
       /\ acct[u].role \in Roles \cup {None}
       /\ acct[u].pw \in Password
       /\ acct[u].failed \in 0..MaxFailed
       /\ acct[u].locked => acct[u].failed = MaxFailed
       /\ acct[u].totp => acct[u].secret \in Secret
       /\ ~Exists(u) => codes[u] = {} /\ SessionsOf(u) = {}
  /\ \A s \in sessions : s.user \in User
  /\ \A z \in resets : z.user \in User
  /\ at \in [Request -> Steps]
  /\ faults \in 0..MaxFaults

\* A recovery code lets one sign-in on, however many present it together
\* (UseRecoveryCode: "spends a code, and only ever once").
CodeOpensOnce == \A x, y \in spent : x[1] = y[1] => x = y

\* A reset link sets one password (ConsumeReset: "only ever once").
ResetSpentOnce ==
  \A r, q \in Request :
    op[r].name = "redeem" /\ op[q].name = "redeem" /\ op[r].token = op[q].token
      => r = q \/ op[r].token = None

\* Sessions that had to end are gone, or a request that will delete them is
\* under way: a changed password, a disabled account and a second factor turned
\* off by the command leave nobody signed in.  (A statement that fails between
\* the two writes does.)
EndedSessionsGo ==
  faults = 0 =>
    \A s \in ended \cap sessions : \E r \in Request : at[r] = "purge" /\ Subject(r) = s.user

\* Every account under which a second factor is asked for has shown a code of
\* that secret, unless an enrolment was started while another was confirmed.
ProvenSecretOnly ==
  \A u \in User :
    acct[u].totp =>
      \/ acct[u].secret \in proven
      \/ \E r, q \in Request : /\ {r, q} \in met
                             /\ op[r].name = "totp_confirm" /\ op[q].name = "totp_begin"
                             /\ Subject(r) = u /\ Subject(q) = u

\* Two live links of one user come from two requests that were under way
\* together; otherwise the earlier link has stopped working (CreateReset).
OneLiveReset ==
  \A y, z \in resets : y.user = z.user => y = z \/ {y.token, z.token} \in met

\* A password change leaves no session that was spent with the old password,
\* unless that sign-in was under way when the password was changed.
OldPasswordDies ==
  faults = 0 =>
    \A s \in sessions : s.id \in Request =>
      \/ op[s.id].pw = acct[s.user].pw
      \/ \E r \in Request : Subject(r) = s.user /\ (at[r] = "purge" \/ {s.id, r} \in met)

\* Requests that do not overlap leave no unproven second factor, no second live
\* link and no session of an old password behind, whatever their order.
OverlapAside == ProvenSecretOnly /\ OneLiveReset /\ OldPasswordDies

AdminLeft == \E u \in User : acct[u].role = "admin" /\ ~acct[u].disabled

\* The caller is an enabled admin who is signed in, at this moment.
StillAdmin(by) == Resolves(by) /\ Administers(acct[Holder(by)].role)

\* No signed-in admin takes the tenant's last enabled admin away, by any number of
\* requests: whoever does is the command line, an API key, or an admin who lost the
\* role or the session after requireAdmin had let the request pass.
AdminStays ==
  [][AdminLeft /\ ~AdminLeft' =>
       \E r \in Request :
         /\ at'[r] # at[r]
         /\ op[r].by \in {Ctl, Key} \/ ~StillAdmin(op[r].by)]_vars

\* What handleUpdateUser refuses a change of oneself for (auth_handlers.go:350-355):
\* "so a tenant is never left without one", and "the only way back is the CLI".
\* Two people who demote each other, and a key that demotes both, leave it so.
NeverWithoutAdmin ==
  (\A r \in Request : at[r] = "start" \/ op[r].by # Ctl) => AdminLeft
=============================================================================
