SPECIFICATION Spec
CONSTANTS
  RunModes = {0, 3}
  Apfs = {0, 7}
  Blocks = {0, 1}
  Descriptors <- MCDescriptors
  Mmr0Values <- MCMmr0Values
  MaxMapped = 1
INVARIANTS
  WriteProtected
