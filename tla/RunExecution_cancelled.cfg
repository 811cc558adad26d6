SPECIFICATION Spec
CONSTANTS
  Runs = {r1}
  Pausable = {r1}
  Entries = {e1}
  Workers = {w1}
  Clients = {c1}
  NoRun = NoRun
  NoEntry = NoEntry
  MaxTries = 2
  MaxProgress = 1
  MaxRequests = 2
  MaxCrashes = 0
  MaxLapses = 0
  MaxLosses = 0
PROPERTIES CancelledIsFinal
