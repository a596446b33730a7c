SPECIFICATION Spec
CONSTANTS
  s1 = s1
  Subs = {s1}
  Period = 2
  Grace = 2
  MaxLeft = 3
  MaxJobs = 1
  LostAnswers = TRUE
  LateCalls = FALSE
  ChangeInCall = FALSE
  RetryAllowed = FALSE
  NoSub = NoSub
INVARIANTS PaidHasPeer
CHECK_DEADLOCK FALSE
