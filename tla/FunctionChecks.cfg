SPECIFICATION Spec
CONSTANTS
  WordBits = 4
  Places = {0, 2}
  Contents = {1, 6, 12}
  NoWord = NoWord
  Attached = {"tm11", "rk05", "rl02", "tty", "dc11", "dz11", "rp06", "deqna"}
INVARIANTS
  InstructionsCompute
  DebuggerShowsWhatRuns
  IoPageConsistent
  
  MediaAreReadInOrder
  SnapshotKeepsTheRest
