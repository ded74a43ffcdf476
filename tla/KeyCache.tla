------------------------------ MODULE KeyCache ------------------------------
(***************************************************************************)
(* API keys and the Authenticator's cache of verified ones                 *)
(* (internal/auth/authenticator.go).  Keys are created by reconsyncctl and *)
(* revoked in the database, by other processes, so nothing drops an entry  *)
(* of the cache but its age: Invalidate has no caller.  A secret stands    *)
(* for its hash.                                                           *)
(***************************************************************************)
EXTENDS Clock, FiniteSets

CONSTANTS
  Key, KeyRequest,
  NoKey,
  KeyTTL,       \* Options.CacheTTL
  MaxCacheKeys  \* maxCacheEntries

ASSUME KeyCacheAssumption == KeyTTL \in Nat \ {0} /\ MaxCacheKeys \in Nat \ {0}

VARIABLES
  issued,     \* keys with a row
  revoked,    \* those with a revoked_at: entries [key, at]
  trusted,    \* the cache: entries [key, until]
  looking,    \* [KeyRequest -> what it verified: [key, at], or Idle]
  accepted    \* [KeyRequest -> the key it last authenticated, or NoKey]

keyVars == <<issued, revoked, trusted, looking, accepted>>

KeyIdle == [key |-> NoKey, at |-> 0]

Usable(k) == k \in issued /\ \A e \in revoked : e.key # k

Accept(q, k) == accepted' = [accepted EXCEPT ![q] = k]

\* A bug's form of FromCache: a use extends the trust.
FromCacheSliding(q, k) ==
  /\ looking[q] = KeyIdle
  /\ \E e \in trusted :
       /\ e.key = k /\ now <= e.until
       /\ trusted' = (trusted \ {e}) \cup {[key |-> k, until |-> now + KeyTTL]}
  /\ Accept(q, k)
  /\ UNCHANGED <<issued, revoked, looking, now>>

\* A hit: the entry is good up to and at its last instant.
FromCache(q, k) ==
  /\ looking[q] = KeyIdle
  /\ \E e \in trusted : e.key = k /\ now <= e.until
  /\ Accept(q, k)
  /\ UNCHANGED <<issued, revoked, trusted, looking, now>>

\* A miss: the row is read, and the argon2 verification starts.
LookupKey(q, k) ==
  /\ looking[q] = KeyIdle
  /\ \A e \in trusted : e.key = k => now > e.until
  /\ IF Usable(k)
     THEN looking' = [looking EXCEPT ![q] = [key |-> k, at |-> now]]
     ELSE UNCHANGED looking
  /\ Accept(q, NoKey)
  /\ UNCHANGED <<issued, revoked, trusted, now>>

\* Verified: stored until a TTL from now, in an empty cache if it was full.
StoreKey(q) ==
  /\ looking[q] # KeyIdle
  /\ LET k == looking[q].key
         kept == IF Cardinality(trusted) >= MaxCacheKeys THEN {}
                 ELSE {e \in trusted : e.key # k} IN
     /\ trusted' = kept \cup {[key |-> k, until |-> now + KeyTTL]}
     /\ Accept(q, k)
  /\ looking' = [looking EXCEPT ![q] = KeyIdle]
  /\ UNCHANGED <<issued, revoked, now>>

CreateAPIKey(k) ==
  /\ k \notin issued
  /\ issued' = issued \cup {k}
  /\ UNCHANGED <<revoked, trusted, looking, accepted, now>>

RevokeAPIKey(k) ==
  /\ Usable(k)
  /\ revoked' = revoked \cup {[key |-> k, at |-> now]}
  /\ UNCHANGED <<issued, trusted, looking, accepted, now>>

\* A request's answer belongs to the instant it was given.
KeyTick ==
  /\ Tick({looking[q].at : q \in {q \in KeyRequest : looking[q] # KeyIdle}})
  /\ accepted' = [q \in KeyRequest |-> NoKey]
  /\ UNCHANGED <<issued, revoked, trusted, looking>>

KeyInit ==
  /\ issued = {}
  /\ revoked = {}
  /\ trusted = {}
  /\ looking = [q \in KeyRequest |-> KeyIdle]
  /\ accepted = [q \in KeyRequest |-> NoKey]

KeyNext ==
  \/ \E q \in KeyRequest : StoreKey(q) \/ \E k \in Key : FromCache(q, k) \/ LookupKey(q, k)
  \/ \E k \in Key : CreateAPIKey(k) \/ RevokeAPIKey(k)
  \/ KeyTick

KeySpec == now = 0 /\ KeyInit /\ [][KeyNext]_<<now, keyVars>>

-----------------------------------------------------------------------------
\* A revoked key is accepted no longer than a TTL after its revocation, plus the
\* time a verification that read the row before it may take ("bounds how long a
\* verified key stays trusted, and so how long a revocation takes to take effect",
\* authenticator.go).
RevocationTakesEffect ==
  \A q \in KeyRequest : accepted[q] # NoKey =>
    /\ accepted[q] \in issued
    /\ \A e \in revoked : e.key = accepted[q] => now <= e.at + KeyTTL + Latency
=============================================================================
