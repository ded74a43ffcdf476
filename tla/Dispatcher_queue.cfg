SPECIFICATION FairSpec
CONSTANTS
  t1 = t1
  d1 = d1
  d2 = d2
  Txn = {t1}
  Delivery = {d1, d2}
  DeliveryTxn <- AboutOne
  IsReversal <- AllReversals
  Suspendable = {d2}
  Replica = {r1, r2}
  Results = {"ok", "retryable", "permanent"}
  MaxAttempts = 2
  Limit = 2
  Concurrency = 2
  MaxFailures = 1
  MaxReplays = 1
  MaxToggles = 1
CHECK_DEADLOCK FALSE
INVARIANTS WithinSchedule FailedHasDeadLetter
PROPERTIES EveryDeliverySettles
