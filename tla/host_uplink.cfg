CONSTANTS
  Capacity = 4
  HeaderSize = 2
  LogHeader = 2
  TunBuffer = 3
  MaxBytes = 6
  Payload = 250
  TunBytes = 512
  Frames <- MCFrames
SPECIFICATION Spec
INVARIANTS
  TypeOK
  TapGetsReceived
  AnsweredOnce
PROPERTIES
  HandlingSpec
  EveryMessageHandled
\* A tty error ends the chain of reads.
CHECK_DEADLOCK FALSE
