SPECIFICATION Spec
CONSTANTS
  s1 = s1
  Subs = {s1}
  Thresholds = {1, 2}
  Day = 2
  Period = 3
  Horizon = 6
  CrashBudget = 1
  CutBudget = 1
  MaxFailed = 1
  Punctual = TRUE
INVARIANTS RepeatsNeedCrash
PROPERTIES NotADayEarly WarnedInTime OffIsAnnounced
