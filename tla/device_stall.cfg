CONSTANTS
  Capacity = 4
  HeaderSize = 2
  MaxBytes = 8
  Frames <- MCSoundFrames
SPECIFICATION Spec
PROPERTIES
  EveryFrameRelayed
CHECK_DEADLOCK FALSE
