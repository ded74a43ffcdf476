------------------------------- MODULE Rules -------------------------------
(***************************************************************************)
(* Reconciliation rules: which rule sets a debit's window                  *)
(* (internal/rules/rules.go), and the cache a replica resolves them from   *)
(* (internal/rules/provider.go).  reconsyncctl changes the table; the      *)
(* server never calls Invalidate.                                          *)
(***************************************************************************)
EXTENDS Clock, Lists, Integers, FiniteSets, SequencesExt

CONSTANTS
  Rule,         \* rules that may be created
  Txn,          \* transactions to resolve a window for
  Unset,          \* a criterion that is not set
  RuleRequest,
  RuleTTL,      \* ProviderOptions.TTL
  DefaultWindow,
  MaxChanges    \* bound on the changes to the table

\* Ids are handed out by the table.
ASSUME RulesAssumption ==
  /\ RuleTTL \in Nat \ {0} /\ MaxChanges \in Nat
  /\ \A r \in Rule : r.id \in Nat \ {0} /\ r.priority \in Int
  /\ \A r, s \in Rule : r.id = s.id => r = s

VARIABLES
  table,      \* the tenant's rows, a set of rules
  rcache,     \* the cached entry: [set, until], or NoEntry
  loading,    \* [RuleRequest -> what it loads, when, and the entry it found, or NotLoading]
  served,     \* the set just resolved with, and how
  lastHeld,   \* [set -> the last instant the table was it], for sets it has been
  changes     \* changes so far

ruleVars == <<table, rcache, loading, served, lastHeld, changes>>

NoEntry == [set |-> <<>>, until |-> 0]
NotLoading == [set |-> <<>>, at |-> 0, old |-> NoEntry, busy |-> FALSE]
NotServed == [set |-> <<>>, how |-> "none"]

Criteria == {"type", "provider", "currency"}

Specificity(r) == Cardinality({c \in Criteria : r.want[c] # Unset})
                  + Cardinality({b \in {"min", "max"} : r[b] # Unset})

Matches(r, t) ==
  /\ r.enabled
  /\ \A c \in Criteria : r.want[c] \in {Unset, t.has[c]}
  /\ r.min = Unset \/ t.amount >= r.min
  /\ r.max = Unset \/ t.amount <= r.max

\* A bug's form of Better: a tie of priorities goes to the older rule.
BetterByAge(candidate, current) ==
  IF candidate.priority # current.priority THEN candidate.priority > current.priority
  ELSE candidate.id < current.id

Better(candidate, current) ==
  IF candidate.priority # current.priority THEN candidate.priority > current.priority
  ELSE IF Specificity(candidate) # Specificity(current)
       THEN Specificity(candidate) > Specificity(current)
       ELSE candidate.id < current.id

NoRule == [id |-> 0, window |-> DefaultWindow]

Wins(r, t, best) == Matches(r, t) /\ (best = NoRule \/ Better(r, best))

\* Set.Resolve: one pass in the order of the set.
Resolve(set, t) ==
  LET best[n \in 0..Len(set)] ==
        IF n = 0 THEN NoRule
        ELSE IF Wins(set[n], t, best[n - 1]) THEN set[n] ELSE best[n - 1]
  IN  best[Len(set)]

\* NewSet: disabled rules are dropped.
NewSet(rows) == Without(rows, {r \in table : ~r.enabled})

\* ListRules orders by priority and id; any order is allowed here.
ListRules == SetToSeqs(table)

-----------------------------------------------------------------------------
\* A hit: the entry is good before its last instant.
ResolveHit(q) ==
  /\ ~loading[q].busy
  /\ rcache # NoEntry /\ now < rcache.until
  /\ served' = [set |-> rcache.set, how |-> "fresh"]
  /\ UNCHANGED <<table, rcache, loading, lastHeld, changes, now>>

LoadRules(q) ==
  /\ ~loading[q].busy
  /\ rcache = NoEntry \/ now >= rcache.until
  /\ \E rows \in ListRules :
       loading' = [loading EXCEPT ![q] = [set |-> NewSet(rows), at |-> now, old |-> rcache, busy |-> TRUE]]
  /\ served' = NotServed
  /\ UNCHANGED <<table, rcache, lastHeld, changes, now>>

\* A bug's form of LoadFails: the old set is put back for another TTL.
LoadFailsRestamped(q) ==
  /\ loading[q].busy
  /\ loading[q].old # NoEntry
  /\ rcache' = [loading[q].old EXCEPT !.until = now + RuleTTL]
  /\ served' = [set |-> loading[q].old.set, how |-> "stale"]
  /\ loading' = [loading EXCEPT ![q] = NotLoading]
  /\ UNCHANGED <<table, lastHeld, changes, now>>

\* The load fails: the old set if there is one, or the debit is refused.
LoadFails(q) ==
  /\ loading[q].busy
  /\ loading' = [loading EXCEPT ![q] = NotLoading]
  /\ served' = IF loading[q].old = NoEntry THEN NotServed
               ELSE [set |-> loading[q].old.set, how |-> "stale"]
  /\ UNCHANGED <<table, rcache, lastHeld, changes, now>>

StoreRules(q) ==
  /\ loading[q].busy
  /\ rcache' = [set |-> loading[q].set, until |-> now + RuleTTL]
  /\ served' = [set |-> loading[q].set, how |-> "fresh"]
  /\ loading' = [loading EXCEPT ![q] = NotLoading]
  /\ UNCHANGED <<table, lastHeld, changes, now>>

\* lastHeld: the table has been what it now is, until now.
Change(rows) ==
  /\ changes < MaxChanges
  /\ changes' = changes + 1
  /\ table' = rows
  /\ lastHeld' = [s \in DOMAIN lastHeld \cup {table, rows} |->
                    IF s \in {table, rows} THEN now ELSE lastHeld[s]]
  /\ served' = NotServed
  /\ UNCHANGED <<rcache, loading, now>>

\* An id is given out once, and a window is positive.
CreateRule ==
  \E r \in Rule \ UNION DOMAIN lastHeld : r.window > 0 /\ Change(table \cup {r})
DeleteRule == \E r \in table : Change(table \ {r})

RuleTick ==
  /\ Tick({loading[q].at : q \in {q \in RuleRequest : loading[q].busy}})
  /\ served' = NotServed
  /\ UNCHANGED <<table, rcache, loading, lastHeld, changes>>

RuleInit ==
  /\ table = {}
  /\ rcache = NoEntry
  /\ loading = [q \in RuleRequest |-> NotLoading]
  /\ served = NotServed
  /\ lastHeld = [s \in {{}} |-> 0]
  /\ changes = 0

RuleNext ==
  \/ \E q \in RuleRequest : ResolveHit(q) \/ LoadRules(q) \/ LoadFails(q) \/ StoreRules(q)
  \/ CreateRule \/ DeleteRule
  \/ RuleTick

RuleSpec == now = 0 /\ RuleInit /\ [][RuleNext]_<<now, ruleVars>>

-----------------------------------------------------------------------------
\* What the table said: the best of the enabled rules that match, by priority,
\* then by the number of criteria, then by age.
Beats(r, s) ==
  LET rank(x) == 100 * x.priority + 10 * Specificity(x) IN
  rank(r) > rank(s) \/ (rank(r) = rank(s) /\ r.id < s.id)
BestOf(rows, t) ==
  LET those == {r \in rows : Matches(r, t)} IN
  IF those = {} THEN NoRule ELSE CHOOSE r \in those : \A s \in those \ {r} : Beats(r, s)

\* Whatever order the rows were scanned in, every transaction gets the window of
\* the best rule of the set ("so the outcome never depends on map or scan
\* ordering", rules.go).
BestRuleWins ==
  served.how # "none" =>
    \A t \in Txn : Resolve(served.set, t) = BestOf(Range(served.set), t)

\* A debit is given a window from rules that were the tenant's at most a TTL and a
\* load ago, unless the store could not be read just then ("bounds how stale a
\* rule set can be", provider.go).
RulesTakeEffect ==
  served.how = "fresh" =>
    \E s \in DOMAIN lastHeld :
      /\ Range(served.set) = {r \in s : r.enabled}
      /\ s = table \/ now <= lastHeld[s] + RuleTTL + Latency
=============================================================================
