CONSTANTS
  MaxPackets = 2
SPECIFICATION QueueSpec
INVARIANTS
  EachFrameOnce
CHECK_DEADLOCK FALSE
