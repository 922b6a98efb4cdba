CONSTANTS
  c1 = c1
  c2 = c2
  None = None
  Cameras = {c1, c2}
  Expected = c1
  MaxPunch = 1
  Sessions = 2
  MaxPorts = 2
  MaxEvents = 2
  MaxNet = 2
SPECIFICATION FairSpec
INVARIANTS
  Inv
  RightCamera
PROPERTIES
  Pinned
  LinksAgain
  Acknowledged
