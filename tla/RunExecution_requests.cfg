SPECIFICATION SafeSpec
CONSTANTS
  Runs = {r1}
  Pausable = {r1}
  Entries = {e1}
  Workers = {w1}
  Clients = {c1, c2}
  NoRun = NoRun
  NoEntry = NoEntry
  MaxTries = 3
  MaxProgress = 2
  MaxRequests = 3
  MaxCrashes = 1
  MaxLapses = 0
  MaxLosses = 0
INVARIANTS TypeOK QueuedCancelSticks BeginRetriesOnce
