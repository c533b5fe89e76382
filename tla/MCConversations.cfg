SPECIFICATION Spec
CONSTANTS
  u1 = u1
  u2 = u2
  c1 = c1
  c2 = c2
  i1 = i1
  i2 = i2
  r1 = r1
  r2 = r2
  Users <- MCUsers
  Ids <- MCIds
  MessageIds <- MCMessageIds
  Requests <- MCRequests
  MaxEdits = 2
INVARIANTS
  TypeOK
  AtRestObeysSettings
  OwnersOnly
  AnsweredIsKept
SYMMETRY MCSymmetry
CHECK_DEADLOCK FALSE
