SPECIFICATION Spec
CONSTANTS
  x = x
  y = y
  NodeKindCount = 2
  EdgeKindCount = 2
  PropertyKindCount = 2
  EdgeProperty <- MCEdgeProperty
  NodeProperty <- MCNodeProperty
  KindProperties <- MCKindProperties
  MultiProperties <- MCMultiProperties
  EnumVariants <- MCEnumVariants
  MaxOffset = 3
  MaxNodes = 3
  Texts = {x, y}
  RawGraphs <- MCRawGraphs
  ParallelThreshold = 8
INVARIANTS TypeOK ReportsFirstError AcceptsExactlyWellFormed
CHECK_DEADLOCK TRUE
