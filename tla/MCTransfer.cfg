SPECIFICATION FairSpec
CONSTANTS
  Edges = {"e1", "e2"}
  Blobs <- MCBlobs
  Files = {"h", "big", "o1", "o2"}
  Size <- MCSize
  BatchLimit = 2
  Inputs <- MCInputs
  Outputs <- MCOutputs
  Stdout <- MCStdout
  MaxRetries = 1
  MaxReconnects = 1
  MaxFaults = 2
INVARIANTS
  ClaimedIsStored
  OutputsAreWhole
PROPERTIES
  EveryEdgeAnswered
CHECK_DEADLOCK FALSE
