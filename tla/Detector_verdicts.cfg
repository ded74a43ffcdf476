SPECIFICATION MCSpec
CONSTANTS
  t1 = t1
  t2 = t2
  e1 = e1
  Near = {t1}
  Parts = {"sweep", "claims"}
  Txn = {t1}
  Sweeper = {s1, s2}
  Endpoint = {e1, e2}
  Subscribed <- SplitEvents
  Backfill = {}
  Verdicts = {"success", "failed", "unknown"}
  Corroborate = TRUE
  Floor = 80
  Batch = 2
  MaxAborts = 1
  MaxToggles = 1
  Caller = {a, b, c}
  NoCaller = NoCaller
  Tenant = {n1}
  Replica = {r1, r2}
  Quiet = 1
  Baseline = 2
  MinActive = 2
  MaxMinute = 4
  MaxFaults = 1
CHECK_DEADLOCK FALSE
INVARIANTS SingleVerdict ReversalIsWarranted RecordsAgree PaidOnce
