SPECIFICATION Spec
CONSTANTS
  Nodes <- MCNodes
  Edges <- MCEdges
  Pools <- MCPools
  Outs <- MCOuts
  Ins <- MCInsStrict
  OrderOnly <- MCNoOrderOnly
  PoolOf <- MCPoolOf
  Depth <- MCDepth
  Priority <- MCPriority
  Phony <- MCPhony
  DepsMissing = {}
  Targets = {"all", "doc"}
  Restat = {}
  Parallelism = 2
  FailuresAllowed = 2
  Loads <- MCLoads
  Faults = {"command", "record"}
  UseJobserver = TRUE
  Tokens = 1
  TokenByte = 43
INVARIANTS
  TokensConserved
  NeverStuck
