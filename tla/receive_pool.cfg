CONSTANTS
  Slots = 4
  QueueSize = 2
  MaxPackets = 7
SPECIFICATION Spec
INVARIANTS
  TypeOK
  OneOwner
  LeakBounded
  PassedInOrder
PROPERTIES
  FifoSpec
  SlotFreedAgain
\* The air falls silent after MaxPackets packets.
CHECK_DEADLOCK FALSE
