SPECIFICATION MCSpec
CONSTANTS
  t1 = t1
  t2 = t2
  t3 = t3
  c1 = c1
  c2 = c2
  c3 = c3
  c4 = c4
  c5 = c5
  k1 = k1
  k2 = k2
  k4 = k4
  k5 = k5
  d1 = d1
  d2 = d2
  NoCredit = NoCredit
  Txn = {t1, t2, t3}
  Credit = {c1, c2, c3, c4, c5}
  CreditKeys = {k1, k2, k4, k5}
  DebitKeys = {d1, d2}
  Worker = {w1, w2}
  DebitKey <- DebitKeys12
  Expected <- ExpectTwo
  CreditTxn <- CreditOf
  CreditKey <- Keys
  Verdict <- Results
  Amount <- Amounts
  Foreign <- ForeignSecond
  MaxSends = 1
  BatchSize = 2
  TransitionAttempts = 2
CHECK_DEADLOCK FALSE
INVARIANTS OpenIsShort TotalIsLedger NoStrandedPark MoneyNotForgotten
PROPERTIES CountsOnce ParkedIsDrained LifecycleSpec
