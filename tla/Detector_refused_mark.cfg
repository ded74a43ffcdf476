SPECIFICATION MCSpec
CONSTANTS
  t1 = t1
  t2 = t2
  e1 = e1
  Near = {}
  Parts = {"sweep"}
  Txn = {t1}
  Sweeper = {s1}
  Endpoint = {e1}
  Subscribed <- VerdictEvents
  Backfill = {}
  Verdicts = {"success"}
  Corroborate = TRUE
  Floor = 0
  Batch = 2
  MaxAborts = 0
  MaxToggles = 0
  Caller = {a}
  NoCaller = NoCaller
  Tenant = {n1}
  Replica = {r1, r2}
  Quiet = 1
  Baseline = 2
  MinActive = 2
  MaxMinute = 4
  MaxFaults = 1
CHECK_DEADLOCK FALSE
INVARIANTS CorroborationDecides
