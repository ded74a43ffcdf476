SPECIFICATION MCFairSpec
CONSTANTS
  t1 = t1
  t2 = t2
  e1 = e1
  Near = {}
  Parts = {"sweep", "silence"}
  Txn = {t1, t2}
  Sweeper = {s1}
  Endpoint = {e1}
  Subscribed <- VerdictEvents
  Backfill = {t2}
  Verdicts = {"success", "unknown"}
  Corroborate = TRUE
  Floor = 0
  Batch = 2
  MaxAborts = 0
  MaxToggles = 0
  Caller = {a}
  NoCaller = NoCaller
  Tenant = {n1}
  Replica = {r1, r2}
  Quiet = 1
  Baseline = 2
  MinActive = 2
  MaxMinute = 4
  MaxFaults = 1
CHECK_DEADLOCK FALSE
INVARIANTS OrphanIsNotified AlertsMatchEpisodes
PROPERTIES ExpiryIsJudged VerdictIsDelivered NoStorm EpisodesConverge
