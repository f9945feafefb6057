SPECIFICATION Spec
CONSTANTS
  Nodes <- MCNodes
  Edges <- MCEdges
  Pools <- MCPools
  Outs <- MCOuts
  Ins <- MCIns
  OrderOnly <- MCOrderOnly
  PoolOf <- MCPoolOf
  Depth <- MCDepth
  Priority <- MCPriority
  Phony <- MCPhony
  DepsMissing = {}
  Targets = {"all", "doc"}
  Restat = {}
  Parallelism = 2
  FailuresAllowed = 2
  Loads <- MCLoads
  Faults = {}
  UseJobserver = TRUE
  Tokens = 1
  TokenByte = 43
INVARIANTS
  PipeTokensConserved
