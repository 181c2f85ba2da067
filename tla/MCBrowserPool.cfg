SPECIFICATION FairSpec
CONSTANTS
  t1 = t1
  t2 = t2
  t3 = t3
  None = None
  Calls = {t1, t2, t3}
  MaxTabs = 2
  MaxStarts = 3
INVARIANT PermitsConserved
INVARIANT SingleBrowser
PROPERTY ImplementsSharedBrowser
PROPERTY LostToLateReset
PROPERTY AcquireEnds
CHECK_DEADLOCK FALSE
