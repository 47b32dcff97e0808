SPECIFICATION Spec
CONSTANTS
  DEQNA_MAX_N_QUEUED = 1
  MaxFrames = 3
  MaxLists = 1
INVARIANTS
  FilledIsSignalled
  DeafNeedsOverlap
PROPERTY
  FrameIsKept
CHECK_DEADLOCK FALSE
