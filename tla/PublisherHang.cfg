SPECIFICATION FairSpec
CONSTANTS
  Subscriptions = {1, 2}
  MaxRetries = 1
  InitialBackoff = 3
  MaxBackoff = 10
  Multiplier = 2
  MaxEvents = 1
  MaxChunks = 1
PROPERTIES
  FinalizeToolExits
