CONSTANTS
  v1 = v1
  a1 = a1
  s1 = s1
  s2 = s2
  Out = Out
  None = None
  Viewers = {v1}
  Listeners = {a1}
  Sessions = {s1, s2}
  Capacity = 2
  Broken = {3}
  MaxPieces = 3
  MaxUpdates = 1
  MaxServed = 1
SPECIFICATION FairSpec
INVARIANT
  Inv
PROPERTIES
  RefinesFeeds
  CaughtUp
  ForgottenLeave
CHECK_DEADLOCK FALSE
