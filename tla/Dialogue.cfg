CONSTANTS
  ClientTries = 2
  MaxAhead = 2
SPECIFICATION Spec
INVARIANTS TypeOK OneLineAtATime InStep
PROPERTIES StoresSealed FailsOnlyAtGet Answered
CHECK_DEADLOCK FALSE
