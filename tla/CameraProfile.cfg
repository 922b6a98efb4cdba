CONSTANTS
  Id = "id"
  Files <- MCFiles
  Bodies <- MCBodies
  Edits <- MCEdits
  Setups <- MCSetups
  Broadcast = "all"
  Lan = "lan"
  None = None
SPECIFICATION ProfileSpec
INVARIANT
  ProfileTypeOK
PROPERTY
  OnlyWhatIsAsked
