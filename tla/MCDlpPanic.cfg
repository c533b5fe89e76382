SPECIFICATION ScanSpec
CONSTANTS
  Patterns <- MCPatterns
  TextWidths <- MCTexts
  Matches <- MCMatches
  PolicyLists <- MCPolicyLists
  EntityLists <- MCEntityLists
INVARIANT
  EntitiesNeverKill
CHECK_DEADLOCK FALSE
