SPECIFICATION Spec
CONSTANTS
  Runs = {r1}
  Pausable = {r1}
  Entries = {e1, e2}
  Workers = {w1}
  Clients = {c1}
  NoRun = NoRun
  NoEntry = NoEntry
  MaxTries = 2
  MaxProgress = 1
  MaxRequests = 1
  MaxCrashes = 1
  MaxLapses = 0
  MaxLosses = 1
PROPERTIES EntriesServed CancellingEnds
