CONSTANTS
  c1 = c1
  c2 = c2
  c3 = c3
  Clients <- MCClients
  Files <- MCFiles
  Commands <- MCCommands
  MaxSessions = 2
SPECIFICATION Spec
INVARIANTS
  TypeOK
  LiveHandlers
  ToldOfEveryDevice
  RefusalIsOwn
PROPERTIES
  CommandEnds
\* The clients come to their end.
CHECK_DEADLOCK FALSE
