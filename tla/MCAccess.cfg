SPECIFICATION FairSpec
CONSTANTS
  s1 = s1
  Subs = {s1}
  Period = 1
  Grace = 2
  MaxLeft = 2
  MaxJobs = 1
  LostAnswers = TRUE
  LateCalls = TRUE
  ChangeInCall = TRUE
  RetryAllowed = TRUE
  NoSub = NoSub
INVARIANTS TypeOK RemovedHasNoPeer CallsUnpaid
PROPERTIES LossOnlyInCall LossOnlyInEdit ExpiredIsCut DisabledIsRemoved
CHECK_DEADLOCK FALSE
