SPECIFICATION Spec
CONSTANTS
  DropSocket = TRUE
  Limits = TRUE
  MaxLen = 5
INVARIANT TypeOK
INVARIANT EngineGetsExpected
INVARIANT InjectionInChain
INVARIANT SocketNeverMounted
CHECK_DEADLOCK FALSE
