------------------------------ MODULE MCLocal ------------------------------
(***************************************************************************)
(* What one process keeps in memory about things that change elsewhere,    *)
(* against one clock: the key cache, the rule cache, the settlement files  *)
(* and the limits.  They do not touch each other's state, so a behaviour   *)
(* runs one of them.                                                       *)
(***************************************************************************)
EXTENDS KeyCache, Rules, Settlement, Limits

CONSTANTS
  x1, x2,
  Parts    \* the parts a behaviour may run

VARIABLE part

rest == <<keyVars, ruleVars, fileVars, limitVars, part>>

\* Rules that tie on priority, on criteria, and on neither; one is disabled.
Wants(type, provider) == [type |-> type, provider |-> provider, currency |-> Unset]
MCRule == {
  [id |-> 1, want |-> Wants("card", Unset), min |-> Unset, max |-> Unset, window |-> 10, priority |-> 1, enabled |-> TRUE],
  [id |-> 2, want |-> Wants("card", "nip"), min |-> 5, max |-> Unset, window |-> 20, priority |-> 1, enabled |-> TRUE],
  [id |-> 3, want |-> Wants(Unset, "nip"), min |-> Unset, max |-> Unset, window |-> 30, priority |-> 1, enabled |-> TRUE],
  [id |-> 4, want |-> Wants(Unset, Unset), min |-> Unset, max |-> 4, window |-> 40, priority |-> 2, enabled |-> TRUE],
  [id |-> 5, want |-> Wants("card", "nip"), min |-> Unset, max |-> Unset, window |-> 50, priority |-> 9, enabled |-> FALSE]}
MCTxn == {[has |-> [type |-> "card", provider |-> p, currency |-> "NGN"], amount |-> n] :
            p \in {"nip", "other"}, n \in {4, 5}}

\* A row whose amount is not the transaction's.
MCContent == {
  {[ref |-> x1, settled |-> TRUE, amount |-> 7, at |-> 1]},
  {[ref |-> x1, settled |-> FALSE, amount |-> 0, at |-> 1], [ref |-> x2, settled |-> TRUE, amount |-> 9, at |-> 2]},
  Malformed}
MCRef == {[id |-> x1, amount |-> 7], [id |-> x2, amount |-> 7]}

Symmetry == Permutations(Querier) \cup Permutations(Key) \cup Permutations(Tenant)

Init ==
  /\ now = 0
  /\ part \in Parts
  /\ KeyInit /\ RuleInit /\ FileInit /\ LimitInit

Next ==
  \/ part = "keys" /\ KeyNext /\ UNCHANGED <<ruleVars, fileVars, limitVars, part>>
  \/ part = "rules" /\ RuleNext /\ UNCHANGED <<keyVars, fileVars, limitVars, part>>
  \/ part = "files" /\ FileNext /\ UNCHANGED <<keyVars, ruleVars, limitVars, part>>
  \/ part = "buckets" /\ BucketNext /\ UNCHANGED <<keyVars, ruleVars, fileVars, part>>
  \/ part = "signins" /\ SignInNext /\ UNCHANGED <<keyVars, ruleVars, fileVars, part>>

Spec == Init /\ [][Next]_<<now, rest>>
=============================================================================
