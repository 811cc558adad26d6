SPECIFICATION WorkSpec
CONSTANTS
  Focuses = {"results", "media", "models", "batches"}
  Plans <- MCPlans
  QueueSize = 1
  BatchSize = 2
  Timeout = 2
  MaxReconnects = 1
  MaxFrames = 3
  MaxRequests = 2
  ClosingOperators = {TRUE, FALSE}
  Workers = {w1}
  MaxUnits = 3
  ShardUnits = 2
  MaxPublishes = 2
  MaxCrashes = 1
  MaxLapses = 0
  MaxFaults = 1
  MaxIndexFailures = 1
  ModelKeys = {"k1", "k2"}
  Inferrers = {"c1", "c2"}
  Machines <- MCMachines
  MAX_LOADED_MODELS = 1
  MaxConcurrency = 1
  GpuLimit = 1
  MaxBundles = 2
  Inferences <- MCInferences
  max_batch_size = 2
  max_queue_size = 3
  NoDoc = NoDoc
  NoRef = NoRef
CHECK_DEADLOCK FALSE
INVARIANTS CompletedReadable ShardsExact MediaExact SessionsAlive BatchesExact
PROPERTIES CommitBacked
