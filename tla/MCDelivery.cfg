SPECIFICATION Spec
CONSTANTS
  j1 = j1
  j2 = j2
  j3 = j3
  j4 = j4
  p1 = p1
  p2 = p2
  w1 = w1
  w2 = w2
  Jobs = {j1, j2, j3, j4}
  Presses = {p1, p2}
  Workers = {w1}
  Limit = 2
  Patient = TRUE
  MaxSends = 7
  CrashBudget = 1
  MissBudget = 1
  RetryBudget = 1
  NoJob = NoJob
CHECK_DEADLOCK FALSE
INVARIANTS CountedWereSent SentAreCounted SentWithinLimit
