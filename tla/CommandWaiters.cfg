CONSTANTS
  h1 = h1
  h2 = h2
  l1 = l1
  l2 = l2
  get = get
  set = set
  x = x
  y = y
  None = None
  Handlers = {h1, h2}
  Loops = {l1, l2}
  Cmds = {get, set}
  Answers = {x, y}
  MaxCalls = 2
  MaxAnswers = 2
  MaxUpdates = 1
SPECIFICATION Spec
SYMMETRY Symmetry
INVARIANT
  IInv
PROPERTY
  RefinesCalls
CHECK_DEADLOCK FALSE
