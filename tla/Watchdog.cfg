CONSTANTS
  RequestWindow = 1
  RestartDelay = 1
  AudioStale = 1
  Cooldown = 3
  HealthPeriod = 1
  VideoStale = 3
  NudgeCooldown = 3
  SnapshotDemand = 3
  OnlineTraffic = 4
  MediaRestart = 5
  ConnectTimeout = 6
  VideoRefresh = 7
  StaleTraffic = 8
  TrafficRestart = 9
  Reconnect = 0
  FirstFrame = 1
  Bounds <- MCBounds
SPECIFICATION FairSpec
INVARIANTS
  Inv
  DeadIsReplaced
PROPERTIES
  FlowIsKept
  VideoComesBack
CHECK_DEADLOCK FALSE
