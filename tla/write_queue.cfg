CONSTANTS
  MaxPackets = 3
SPECIFICATION QueueSpec
INVARIANTS
  QueueTypeOK
  NoIdleQueue
  NoOvertaking
  ExactWhenAlone
PROPERTIES
  Drains
\* All packets are pushed, or the daemon's behaviour is undefined.
CHECK_DEADLOCK FALSE
