SPECIFICATION Spec
CONSTANTS
  t1 = t1
  d1 = d1
  d2 = d2
  Txn = {t1}
  Delivery = {d1, d2}
  DeliveryTxn <- AboutOne
  IsReversal <- AllReversals
  Suspendable = {}
  Replica = {r1, r2}
  Results = {"ok", "retryable", "permanent"}
  MaxAttempts = 2
  Limit = 2
  Concurrency = 1
  MaxFailures = 0
  MaxReplays = 0
  MaxToggles = 0
CHECK_DEADLOCK FALSE
INVARIANTS OneAttemptAtATime
