SPECIFICATION Spec
CONSTANTS
  Vectors <- MCVectors
  VectorIpl <- MCVectorIpl
  Requests <- MCRequests
  StackPage = 6
  StackTop = 14
  DefaultLimit = 10
  YellowBytes = 4
  Limits = {0, 12}
  Mappings = {{}, {"stack"}, {"vectors"}}
INVARIANTS
  NestingBounded
  DepthSettles
  RedZoneIsFatal
  KernelEntryAtHandler
PROPERTIES
  RtiRestores
