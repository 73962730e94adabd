CONSTANTS
  RingSize = 2
  MaxPackets = 1
  MaxRestarts = 0
SPECIFICATION Spec
PROPERTIES
  BridgeStarts
\* A device that runs and has nothing to read waits.
CHECK_DEADLOCK FALSE
