SPECIFICATION Spec
CONSTANTS
  p1 = p1
  p2 = p2
  Processes <- MCProcesses
  Emails = {"ann"}
  AdminEmail = "root"
  DemoEmail = "demo"
  DefaultPolicies = {"pii", "keys"}
  DemoPolicy = "demo pii"
  MaxAttempts = 2
  MaxOrgs = 5
  MaxFaults = 2
  MaxEdits = 1
INVARIANTS
  AdminBeforeServing
  UnprotectedOnlyIfTorn
PROPERTIES
  EventuallyServing
CHECK_DEADLOCK FALSE
