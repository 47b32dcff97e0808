SPECIFICATION Spec
CONSTANTS
  MaxSessions = 2
  MaxBytes = 2
INVARIANTS
  BytesInOrder
  
  StallNeedsLostSession
  FirstSessionKept
CHECK_DEADLOCK FALSE
