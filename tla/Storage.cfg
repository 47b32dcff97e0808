SPECIFICATION Spec
CONSTANTS
  Sectors = {0, 1, 2, 3, 4, 5, 6}
  Size = 4
  Values = {"zeros", "blank", "a", "b"}
  Zero = "zeros"
  Blank = "blank"
  NoData = NoData
  MaxFaults = 1
  Starts = {3, 5}
  MaxCount = 2
  MaxCommands = 2
INVARIANTS
  TransferIsPrefix
PROPERTIES
  EndTellsProgress
  ImplementsDisk
  CommandEnds
CHECK_DEADLOCK FALSE
