CONSTANTS
  a = a
  b = b
  vga = vga
  qvga = qvga
  setup = setup
  lan = lan
  h1 = h1
  h2 = h2
  NoCamera = NoCamera
  Torn = Torn
  NoHandler = NoHandler
  NoRequest = NoRequest
  Ids = {a, b}
  Sizes = {vga, qvga}
  Rests = {setup, lan}
  SetupRest = setup
  LanRest = lan
  Handlers = {h1, h2}
  Ops = {"post", "patch", "delete", "size", "provision"}
  MaxRequests = 3
  MaxCrashes = 1
SPECIFICATION Spec
SYMMETRY Symmetry
INVARIANTS
  SavedUnlessFailed
  RuntimesFollow
PROPERTIES
  DeletedStaysDeleted
  RefinesStore
CHECK_DEADLOCK FALSE
