SPECIFICATION ScanSpec
CONSTANTS
  Patterns <- MCPatterns
  TextWidths <- MCTexts
  Matches <- MCMatches
  PolicyLists <- MCPolicyLists
  EntityLists <- MCEntityLists
INVARIANTS
  MergeIsExact
  MergeKeepsTheStrongest
  RedactionIsExact
  SidecarOnlyAdds
CHECK_DEADLOCK FALSE
