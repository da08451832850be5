SPECIFICATION Spec
CONSTANTS
  NodeKindCount = 4
  EdgeKindCount = 1
  PropertyKindCount = 0
  EdgeProperty <- MCEdgeProperty
  NodeProperty <- MCNodeProperty
  KindProperties <- MCKindProperties
  MultiProperties = {}
  EnumVariants <- MCEnumVariants
  Half16 = 1
  Half32 = 2
  Half64 = 8
  Span8 = 2
  NodeCounts <- MCNodeCounts
INVARIANTS TypeOK HalvesCompareAsStored NodesResolve RefusedWhenTooMany
CHECK_DEADLOCK FALSE
