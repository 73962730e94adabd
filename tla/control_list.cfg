CONSTANTS
  c1 = c1
  c2 = c2
  c3 = c3
  Clients <- MCClients
  Files <- MCFiles
  Commands <- MCCommands
  MaxSessions = 2
SPECIFICATION Spec
INVARIANTS
  DevicesPrintsList
CHECK_DEADLOCK FALSE
