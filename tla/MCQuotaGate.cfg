SPECIFICATION Spec
CONSTANTS
  r1 = r1
  r2 = r2
  r3 = r3
  r4 = r4
  free = free
  big = big
  Requests = {r1, r2, r3, r4}
  Orgs = {free, big}
  PlanOf <- MCPlanOf
  DailyLimit <- MCDailyLimit
  LastDay = 1
  Faults = {"redis", "disconnect"}
INVARIANTS
  CounterIsExact
  ExpiryIsOwned
  DashboardAgrees
PROPERTIES
  RefusalIsFinal
  BudgetKept
SYMMETRY MCSymmetry
CHECK_DEADLOCK FALSE
