CONSTANTS
  MutexTimeout = 4
  MaxFrames = 3
SPECIFICATION Spec
INVARIANTS
  TypeOK
  FramesTogether
  WifiGetsMutex
PROPERTIES
  PushEnds
\* After the last frame.
CHECK_DEADLOCK FALSE
