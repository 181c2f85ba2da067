SPECIFICATION FairSpec
CONSTANTS
  o1 = o1
  q1 = q1
  q2 = q2
  q3 = q3
  c1 = c1
  c2 = c2
  Owners = {o1}
  Queries = {q1, q2}
  Poison = {q2}
  Prices = {100, 101, 200}
  Threshold = 2
  Parallel = 2
  Creators = {c1, c2}
  MaxRows = 3
  MaxAlerts = 2
INVARIANT NoGhostAlerts
INVARIANT AlertChain
INVARIANT TwinsOverlapped
PROPERTY OldestFirst
PROPERTY DueIsChecked
CHECK_DEADLOCK FALSE
