CONSTANTS
  s1 = s1
  s2 = s2
  c1 = c1
  on = on
  off = off
  NoSession = NoSession
  Sessions = {s1, s2}
  Cfgs = {on, off}
  EnabledCfgs = {on}
  Loops = {"health", "stream"}
  Clients = {}
  MaxTimers = 1
  MaxEvents = 0
  Prompt = TRUE
SPECIFICATION Spec
INVARIANT
  PeerIsCurrent
CHECK_DEADLOCK FALSE
