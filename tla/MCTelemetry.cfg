SPECIFICATION Spec
CONSTANTS
  m1 = m1
  k1 = k1
  e1 = e1
  slack = slack
  hooks = hooks
  sheets = sheets
  u1 = u1
  u2 = u2
  NoKey = NoKey
  NoUrl = NoUrl
  Members <- MCMembers
  Keys <- MCKeys
  Reports <- MCReports
  Slugs <- MCSlugs
  Deliverable <- MCDeliverable
  Urls <- MCUrls
  Setups <- MCSetups
  MaxEdits = 3
  MaxStops = 1
INVARIANTS
  DeadKeysAdmitNothing
  PostsObeySettings
  NotifiedEventsAreStored
PROPERTY
  DispatchEnds
CHECK_DEADLOCK FALSE
