SPECIFICATION MCSpec
CONSTANTS
  a1 = a1
  a2 = a2
  k1 = k1
  k2 = k2
  h1 = h1
  c1 = c1
  Appender = {a1, a2}
  Checkpointer = {k1, k2}
  Handler = {h1}
  Ctl = {c1}
  Amount = {1, 2, 3}
  MaxExact = 2
  Page = 2
  Limit = 3
  MaxRecords = 3
  MaxTampers = 2
CHECK_DEADLOCK FALSE
INVARIANTS AppendsNeverClash ChainIsHistory SignedIsReached AnswersAreRight
