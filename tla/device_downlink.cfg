CONSTANTS
  Capacity = 4
  HeaderSize = 2
  MaxBytes = 7
  Frames <- MCFrames
SPECIFICATION Spec
INVARIANTS
  TypeOK
  BufferHoldsStream
  NothingLost
  StallNeedsCause
PROPERTIES
  RelaySpec
  RelayedUnlessStalled
\* LengthWraps ends the firmware.
CHECK_DEADLOCK FALSE
