SPECIFICATION Spec
CONSTANTS
  MaxNow = 3
  Latency = 1
  Key = {k1, k2}
  KeyRequest = {q1, q2}
  NoKey = NoKey
  KeyTTL = 1
  MaxCacheKeys = 1
  Rule <- MCRule
  Txn <- MCTxn
  Unset = Unset
  RuleRequest = {q1, q2}
  RuleTTL = 1
  DefaultWindow = 300
  MaxChanges = 2
  Path = {1, 2}
  Content <- MCContent
  Malformed = Malformed
  Ref <- MCRef
  Querier = {q1, q2}
  Refresh = 1
  Grace = 1
  MaxWrites = 3
  Tenant = {t1, t2}
  Unit = 3
  Rate = 1
  Burst = 1
  MaxBuckets = 1
  Idle = 1
  Attempt = {q1, q2}
  Window = 2
  MaxFails = 2
  MaxGrants = 2
  Parts = {"keys", "rules", "files", "buckets", "signins"}
  x1 = x1
  x2 = x2
INVARIANTS RevocationTakesEffect BestRuleWins RulesTakeEffect AnswersFromDisk BudgetHolds FailuresHold
SYMMETRY Symmetry
CHECK_DEADLOCK FALSE
