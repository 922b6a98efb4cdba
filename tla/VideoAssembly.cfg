CONSTANTS
  IndexSpace = 16
  Window = 5
  Reach = 5
  LastChunk = 60
  Streams <- MCStreams
  NoFrame = NoFrame
SPECIFICATION Spec
INVARIANTS
  NoMixing
  FrameWhole
PROPERTIES
  InOrderOnce
  NothingLeftOut
CHECK_DEADLOCK FALSE
