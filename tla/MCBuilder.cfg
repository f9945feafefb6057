SPECIFICATION FairSpec
CONSTANTS
  Nodes <- MCNodes
  Edges <- MCEdges
  Pools <- MCPools
  Outs <- MCOuts
  Ins <- MCIns
  OrderOnly <- MCOrderOnly
  PoolOf <- MCPoolOf
  Depth <- MCDepth
  Priority <- MCPriority
  Phony <- MCPhony
  DepsMissing = {}
  Targets = {"all", "doc"}
  Restat = {"gen", "cca"}
  Parallelism = 2
  FailuresAllowed = 2
  Loads = {}
  Faults = {"command", "start", "stat", "record", "interrupt"}
  UseJobserver = FALSE
  Tokens = 0
  TokenByte = 43
INVARIANTS
  TypeOK
  PoolsRespected
  DelayedOnlyWhenFull
  PlacementInv
  StartedOnce
  InputsBuiltFirst
  WantedEdgesCounted
  RunningIsWanted
  ParallelismRespected
  NeverStuck
  SuccessIsComplete
PROPERTIES
  Termination
  FailuresStopBuild
  ImplementsBuildOrder
