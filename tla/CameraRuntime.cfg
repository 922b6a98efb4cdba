CONSTANTS
  s1 = s1
  s2 = s2
  c1 = c1
  on = on
  off = off
  NoSession = NoSession
  Sessions = {s1, s2}
  Cfgs = {on, off}
  EnabledCfgs = {on}
  Clients = {c1}
  Loops = {"health"}
  MaxTimers = 1
  MaxEvents = 1
  Prompt = TRUE
SPECIFICATION FairSpec
INVARIANTS
  Ownership
  Watched
  StartCommitted
PROPERTIES
  ZombiesUnopened
  SessionComesBack
  DeadSessionReplaced
  ClosedSessionEnds
CHECK_DEADLOCK FALSE
