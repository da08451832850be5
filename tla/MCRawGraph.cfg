SPECIFICATION Spec
CONSTANTS
  x = x
  y = y
  NodeKindCount = 1
  EdgeKindCount = 1
  PropertyKindCount = 1
  EdgeProperty <- MCEdgeProperty
  NodeProperty <- MCNodeProperty
  KindProperties <- MCKindProperties
  MultiProperties <- MCMultiProperties
  EnumVariants <- MCEnumVariants
  MaxOffset = 2
  MaxNodes = 3
  Texts = {x, y}
  Seeds <- MCSeeds
  EdgeLists <- MCEdgeLists
  OffsetLists <- MCOffsetLists
  Items <- MCItems
  Batches <- MCBatches
  Pools <- MCPools
  MaxItems = 2
  MaxEdits = 4
INVARIANTS TypeOK GraphsReadWhole
PROPERTIES ItemsStay
CHECK_DEADLOCK FALSE
