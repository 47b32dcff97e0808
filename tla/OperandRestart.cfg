SPECIFICATION RestartSpec
CONSTANTS
  Regs = {1, 6, 7}
  Addresses = {64, 66}
INVARIANTS
  Restartable
