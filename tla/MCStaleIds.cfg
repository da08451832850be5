SPECIFICATION Spec
CONSTANTS
  NodeKindCount = 1
  EdgeKindCount = 1
  PropertyKindCount = 0
  EdgeProperty <- MCEdgeProperty
  NodeProperty <- MCNodeProperty
  KindProperties <- MCKindProperties
  MultiProperties <- MCMultiProperties
  EnumVariants <- MCEnumVariants
  MaxOffset = 5
  MaxNodes = 4
  Texts = {}
  Diffs = {d1}
  Seeds <- MCSeeds
  NewNodeInputs <- MCNewNodeInputs
  EdgeEnds <- MCEdgeEnds
  EdgeProps <- MCEdgeProps
  RemovedNodes <- MCRemovedNodes
  UpdateInputs <- MCUpdateInputs
  RemoveEdges = TRUE
  StrayIds = {}
  FreshIds = FALSE
  MaxOperations = 1
  MaxCommits = 2
INVARIANT IntegrityKept
CHECK_DEADLOCK FALSE
