SPECIFICATION FairSpec
CONSTANTS
  Thread = {t1, t2, t3}
  NULL = NULL
  MaxCalls = 2
CHECK_DEADLOCK FALSE
PROPERTIES SetWakesAll TimedWaitsReturn
