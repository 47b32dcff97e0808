SPECIFICATION Spec
INVARIANTS
  InterruptsFollowTheClock
PROPERTIES
  ClockTicks
