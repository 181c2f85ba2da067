SPECIFICATION Spec
CONSTANTS
  t1 = t1
  t2 = t2
  t3 = t3
  None = None
  Calls = {t1, t2, t3}
  MaxStarts = 3
INVARIANT NoSecondLaunch
CHECK_DEADLOCK FALSE
