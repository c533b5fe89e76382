SPECIFICATION Spec
CONSTANTS
  r1 = r1
  r2 = r2
  Requests <- MCRequests
  Windows <- MCWindows
  Asked <- MCAsked
  Replies <- MCReplies
INVARIANTS
  AllOrNothing
  StoredCoversText
  ChunksAddText
  VectorsAreTheirs
CHECK_DEADLOCK FALSE
