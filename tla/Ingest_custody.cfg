SPECIFICATION MCSpec
CONSTANTS
  a = a
  b = b
  c = c
  d = d
  ta = ta
  tb = tb
  single = single
  bulk = bulk
  Event = {a, b, c, d}
  Tenant = {ta, tb}
  TenantOf <- TwoTenants
  Report = {single, bulk}
  NoReport = NoReport
  Body <- SingleAndBulk
  Malformed = {c}
  Foreign = {a, d}
  CWorker = {c1}
  PWorker = {p1}
  RBuffer = 1
  MaxAttempts = 2
  BufferSize = 1
  BatchSize = 2
  MayStop = TRUE
CHECK_DEADLOCK FALSE
INVARIANTS RefusalIsOnRecord SentIsKept
PROPERTIES CustodySpec SentIsSettled ShutdownEnds
