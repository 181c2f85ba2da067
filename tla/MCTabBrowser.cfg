SPECIFICATION FairSpec
CONSTANTS
  t1 = t1
  t2 = t2
  t3 = t3
  None = None
  Calls = {t1, t2, t3}
  MaxStarts = 3
INVARIANT OneAtTheTab
INVARIANT NoOtherLeak
PROPERTY ImplementsSharedBrowser
PROPERTY ResetDropsDead
PROPERTY CallReturns
CHECK_DEADLOCK FALSE
