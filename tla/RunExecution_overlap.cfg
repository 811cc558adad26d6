SPECIFICATION SafeSpec
CONSTANTS
  Runs = {r1}
  Pausable = {r1}
  Entries = {e1}
  Workers = {w1, w2}
  Clients = {c1}
  NoRun = NoRun
  NoEntry = NoEntry
  MaxTries = 2
  MaxProgress = 3
  MaxRequests = 1
  MaxCrashes = 0
  MaxLapses = 1
  MaxLosses = 0
SYMMETRY WorkerSymmetry
INVARIANTS CopiesCurrent AckedRunsSettled
PROPERTIES StatusContract ProgressMonotonic
