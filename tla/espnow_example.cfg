CONSTANTS
  Peers = {p1, p2}
  Magics = {1, 2}
  MaxPeers = 1
  QueueSize = 2
  SendCount = 2
  MaxArrived = 4
SPECIFICATION ExampleSpec
INVARIANTS
  ExampleTypeOK
  OneSendAtATime
  UnicastsCounted
  BlocksOwned
PROPERTIES
  UnicastsEnd
\* The device stops in the end.
CHECK_DEADLOCK FALSE
