SPECIFICATION Spec
CONSTANTS
  x = x
  y = y
  NodeKindCount = 2
  EdgeKindCount = 2
  PropertyKindCount = 3
  EdgeProperty <- MCEdgeProperty
  NodeProperty <- MCNodeProperty
  KindProperties <- MCKindProperties
  MultiProperties <- MCMultiProperties
  EnumVariants <- MCEnumVariants
  MaxOffset = 3
  MaxNodes = 4
  Texts = {x, y}
  Diffs = {d1}
  Seeds <- MCSeeds
  NewNodeInputs <- MCDanglingNodes
  EdgeEnds <- MCEdgeEnds
  EdgeProps <- MCEdgeProps
  RemovedNodes <- MCRemovedNodes
  UpdateInputs <- MCUpdateInputs
  RemoveEdges = TRUE
  StrayIds = {}
  FreshIds = TRUE
  MaxOperations = 1
  MaxCommits = 1
INVARIANT IntegrityKept
CHECK_DEADLOCK FALSE
