SPECIFICATION Spec
CONSTANTS
  r1 = r1
  Requests <- MCRequests
  Prompts <- MCPrompts
  Replies <- MCReplies
  PolicySets <- MCPolicySets
  MaxEdits = 2
INVARIANTS
  MaskedOutside
  BlockedGoesNowhere
  AuditMatchesExchange
  AlertsExplained
PROPERTIES
  BlockedIsNotified
CHECK_DEADLOCK FALSE
