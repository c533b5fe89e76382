SPECIFICATION Spec
CONSTANTS
  m1 = m1
  m2 = m2
  r1 = r1
  r2 = r2
  r3 = r3
  r4 = r4
  Members <- MCMembers
  Requests <- MCRequests
  MaxInvites = 3
INVARIANTS
  InviteWorksOnce
SYMMETRY MCSymmetry
CHECK_DEADLOCK FALSE
