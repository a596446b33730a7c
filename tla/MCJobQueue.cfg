SPECIFICATION FairSpec
CONSTANTS
  j1 = j1
  j2 = j2
  w1 = w1
  w2 = w2
  Jobs = {j1, j2}
  Workers = {w1, w2}
  RetryHandlers = {"a1"}
  JobKey <- MCJobKey
  NoWorker = NoWorker
  NoJob = NoJob
  Lease = 2
  CallTime = 1
  BatchLimit = 2
  MaxAttempts = 2
  Backoff <- MCBackoff
  MaxLate = 2
  CrashBudget = 1
INVARIANTS QueueInv NoDoubleRun AttemptsBounded
PROPERTIES SettledStays RefinesContract OpenJobsSettle
CHECK_DEADLOCK FALSE
