------------------------------- MODULE Limits -------------------------------
(***************************************************************************)
(* Two limits kept in memory: the token bucket of reports and fire drills  *)
(* (internal/ratelimit) and the count of failed sign-ins of an address     *)
(* (loginLimiter, internal/ingest/auth_http.go).                           *)
(***************************************************************************)
EXTENDS Clock, FiniteSets, FiniteSetsExt, Functions

CONSTANTS
  Tenant,
  Unit,        \* parts of a token
  Rate,        \* parts a bucket gains in an instant
  Burst,       \* tokens a bucket holds
  MaxBuckets,  \* buckets above which idle ones are dropped
  Idle,        \* how long a bucket is kept untouched
  Attempt,     \* sign-in requests of one address, at one time
  Window,      \* loginWindow
  MaxFails,    \* loginMaxFails
  MaxGrants    \* bound on the calls allowed to a tenant in an instant

ASSUME LimitsAssumption ==
  /\ Unit \in Nat \ {0} /\ Rate \in Nat \ {0} /\ Burst \in Nat \ {0}
  /\ MaxBuckets \in Nat /\ Idle \in Nat
  /\ Window \in Nat \ {0} /\ MaxFails \in Nat \ {0} /\ MaxGrants \in Nat
  /\ IsFiniteSet(Attempt)

VARIABLES
  bucket,     \* [tenants with a bucket -> [parts, last]]
  granted,    \* [Tenant -> [instant -> calls allowed in it]]
  failures,   \* [instant -> failed sign-ins of the address]
  signing     \* attempts that have been allowed and have not ended

limitVars == <<bucket, granted, failures, signing>>

Instants == 0..MaxNow

-----------------------------------------------------------------------------
(* Limiter.Allow.                                                          *)

Refilled(b) == Min({Burst * Unit, b.parts + (now - b.last) * Rate})

\* A bug's form of Buckets: a bucket is dropped one instant early.
BucketsEarly(k) ==
  IF k \in DOMAIN bucket THEN bucket
  ELSE LET all == [x \in DOMAIN bucket \cup {k} |->
                     IF x = k THEN [parts |-> Burst * Unit, last |-> now] ELSE bucket[x]] IN
       IF Cardinality(DOMAIN all) <= MaxBuckets THEN all
       ELSE Restrict(all, {x \in DOMAIN all : now - all[x].last < Idle})

\* A new tenant's bucket is full; it may be what makes the idle ones go.
Buckets(k) ==
  IF k \in DOMAIN bucket THEN bucket
  ELSE LET all == [x \in DOMAIN bucket \cup {k} |->
                     IF x = k THEN [parts |-> Burst * Unit, last |-> now] ELSE bucket[x]] IN
       IF Cardinality(DOMAIN all) <= MaxBuckets THEN all
       ELSE Restrict(all, {x \in DOMAIN all : now - all[x].last <= Idle})

Allow(k) ==
  LET all == Buckets(k)
      parts == Refilled(all[k])
      ok == parts >= Unit IN
  /\ granted[k][now] < MaxGrants
  /\ bucket' = [all EXCEPT ![k] = [parts |-> IF ok THEN parts - Unit ELSE parts, last |-> now]]
  /\ granted' = IF ok THEN [granted EXCEPT ![k][now] = @ + 1] ELSE granted
  /\ UNCHANGED <<failures, signing, now>>

-----------------------------------------------------------------------------
(* loginLimiter: asked before the password is checked, told afterwards.    *)

\* A bug's form of Recent: an instant too few is looked at.
RecentShort(t) == SumFunctionOnSet(failures, {i \in Instants : i <= t /\ i + Window > t + 1})

\* The failures after t - Window, up to t.
Recent(t) == SumFunctionOnSet(failures, {i \in Instants : i <= t /\ i + Window > t})

AllowSignIn(a) ==
  /\ a \notin signing
  /\ Recent(now) < MaxFails
  /\ signing' = signing \cup {a}
  /\ UNCHANGED <<bucket, granted, failures, now>>

\* The sign-in ends, and is noted if it failed.
EndSignIn(a, failed) ==
  /\ a \in signing
  /\ signing' = signing \ {a}
  /\ failures' = IF failed THEN [failures EXCEPT ![now] = @ + 1] ELSE failures
  /\ UNCHANGED <<bucket, granted, now>>

LimitTick == Tick({}) /\ UNCHANGED limitVars

LimitInit ==
  /\ bucket = <<>>
  /\ granted = [k \in Tenant |-> [i \in Instants |-> 0]]
  /\ failures = [i \in Instants |-> 0]
  /\ signing = {}

BucketNext == LimitTick \/ \E k \in Tenant : Allow(k)
SignInNext ==
  LimitTick \/ \E a \in Attempt : AllowSignIn(a) \/ \E failed \in BOOLEAN : EndSignIn(a, failed)

BucketSpec == now = 0 /\ LimitInit /\ [][BucketNext]_<<now, limitVars>>
SignInSpec == now = 0 /\ LimitInit /\ [][SignInNext]_<<now, limitVars>>

-----------------------------------------------------------------------------
\* What a tenant can gain in the instants after which its bucket may be dropped:
\* what the rate gives, or a whole bucket if it is dropped and made anew.
Span == Idle + 1
Gain == Max({Rate * Span, Burst * Unit})

\* In no stretch of time is a tenant allowed more than a burst and what it gains in
\* it, by the rate or by having its bucket dropped: a limit that refills slower than
\* buckets are dropped, as that of the fire drills, is as loose as that, no looser.
BudgetHolds ==
  \A k \in Tenant : \A s \in 0..now :
    SumFunctionOnSet(granted[k], s..now) * (Unit * Span) <= Burst * Unit * Span + Gain * (now - s)

\* However the sign-ins of an address overlap, no window, wherever it starts,
\* holds more failures than the limit and one for each that was already past it.
FailuresHold ==
  \A s \in Instants :
    SumFunctionOnSet(failures, {i \in Instants : s <= i /\ i < s + Window})
      < MaxFails + Cardinality(Attempt)
=============================================================================
