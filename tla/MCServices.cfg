SPECIFICATION MCSpec
CONSTANTS
  u1 = u1
  u2 = u2
  u3 = u3
  i1 = i1
  i2 = i2
  v1 = v1
  v2 = v2
  r1 = r1
  r2 = r2
  Turns = {u1, u2, u3}
  MaxRounds = 1
  MaxCalls = 1
  Images = {i1, i2}
  Viewers = {v1, v2}
  Origin = Origin
  Requests = {r1, r2}
  Nobody = Nobody
  Lifetime = 2
  MaxClients = 2
  MaxOptions = 5
  MaxOffers = 4
  Sellers = {1, 2, 3, 4}
  Prices = {0, 1, 2, 5}
  Trusts = {0, 1}
  KpLimit = 3
  p1 = p1
  p2 = p2
  c1 = c1
  c2 = c2
  Procs = {p1, p2}
  Callers = {c1, c2}
  ProcOf <- MCProcOf
  Rpm = 2
  Minute = 3
  Poll = 1
  MaxWait = 2
  Slack = 1
  Open = 1
  Horizon = 4
INVARIANT SharedBudget
INVARIANT LocalBudget
INVARIANT HistoryKept
INVARIANT OneClient
INVARIANT ObviousClarified
INVARIANT KpDefensible
PROPERTY PatientGiveUp
PROPERTY AcquireReturns
PROPERTY RedirectLands
PROPERTY OutagePasses
CHECK_DEADLOCK FALSE
