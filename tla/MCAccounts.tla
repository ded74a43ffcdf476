----------------------------- MODULE MCAccounts -----------------------------
(***************************************************************************)
(* Accounts on a small instance: two admins who are signed in, a third     *)
(* address, a reset link handed out earlier, and two or three requests     *)
(* from a list.                                                            *)
(***************************************************************************)
EXTENDS Accounts, Sequences

CONSTANTS r1, r2, r3, ann, ben, cat, old, s1, s2, p1, p2, k1, k2

Op == [name |-> "login", user |-> ann, by |-> None, pw |-> p1, new |-> p2, code |-> None,
       token |-> None, role |-> None, off |-> None, secret |-> s2]

By(who, name, user) == [Op EXCEPT !.name = name, !.user = user, !.by = who]

Ops == <<
  Op, [Op EXCEPT !.pw = p2], [Op EXCEPT !.code = s1], [Op EXCEPT !.code = k1],
  [Op EXCEPT !.user = cat, !.pw = p2],
  [Op EXCEPT !.name = "redeem"],
  By(ann, "passwd", ann), By(Ctl, "passwd", ann),
  By(ann, "totp_begin", ann), [By(ann, "totp_confirm", ann) EXCEPT !.code = s2],
  By(ann, "totp_off", ann), By(Ctl, "totp_off", ann),
  By(ann, "logout", ann), By(ann, "revoke", ann),
  [By(ann, "update", ben) EXCEPT !.role = "viewer"],
  [By(ben, "update", ann) EXCEPT !.role = "viewer", !.off = "yes"],
  [By(ann, "update", ann) EXCEPT !.role = "operator"],
  [By(Ctl, "update", ann) EXCEPT !.off = "no"],
  By(ben, "issue", ann), By(Ctl, "create", cat),
  [By(Key, "update", ann) EXCEPT !.role = "viewer"]>>

\* Every pair of requests, and three of those that race.
Idle == [Op EXCEPT !.name = "idle"]
Plan(x, y, z) == [r \in Request |-> IF r = r1 THEN x ELSE IF r = r2 THEN y ELSE z]
Racing == {1, 4, 6, 7, 9, 10, 12, 15, 16, 19}
PairsAndTriples ==
  {Plan(Ops[i], Ops[j], Idle) : <<i, j>> \in {t \in (1..Len(Ops)) \X (1..Len(Ops)) : t[1] <= t[2]}}
  \cup {Plan(Ops[i], Ops[j], Ops[k]) :
          <<i, j, k>> \in {t \in Racing \X Racing \X Racing : t[1] <= t[2] /\ t[2] <= t[3]}}

\* Two requests of one API key, one after the other or beside each other.
KeyPlans ==
  {Plan([By(Key, "update", ann) EXCEPT !.role = "viewer"],
        [By(Key, "update", ben) EXCEPT !.off = "yes"], Idle)}

Row == [role |-> "admin", pw |-> p1, totp |-> FALSE, secret |-> None,
        failed |-> 0, locked |-> FALSE, disabled |-> FALSE]

\* cat has no account; ann may have a second factor, and one failed sign-in.
Tables ==
  {[acct |-> [u \in User |->
       IF u = cat THEN [Row EXCEPT !.role = None]
       ELSE IF u = ann THEN [Row EXCEPT !.totp = on, !.secret = IF on THEN s1 ELSE None, !.failed = 1]
       ELSE Row],
    codes |-> [u \in User |-> IF on /\ u = ann THEN {k1, k2} ELSE {}],
    sessions |-> {[id |-> ann, user |-> ann], [id |-> ben, user |-> ben]},
    resets |-> {[token |-> old, user |-> ann]},
    proven |-> {s1}] : on \in BOOLEAN}
=============================================================================
