CONSTANTS
  RingSize = 1
  MaxPackets = 2
  MaxRestarts = 2
SPECIFICATION Spec
INVARIANTS
  TypeOK
  NoStrayAnswer
  StuckNeedsCause
PROPERTIES
  HandshakeCompletes
\* A device that runs and has nothing to read waits.
CHECK_DEADLOCK FALSE
