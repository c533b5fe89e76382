SPECIFICATION Spec
CONSTANTS
  Texts <- MCTexts
  PolicySets <- MCPolicySets
  Findings <- MCFindings
  HOLDBACK = 2
  MaxMatch = 2
  MaxText = 2
  MaxFrames = 7
INVARIANTS
  NoMatchShown
  NothingLost
  MarkersComeLast
  PendingBounded
PROPERTY
  MaskingPromised
CHECK_DEADLOCK FALSE
