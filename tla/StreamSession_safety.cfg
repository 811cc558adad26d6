SPECIFICATION Spec
CONSTANTS
  Workers = {w1, w2}
  Clients = {c1}
  NoSegment = NoSegment
  MaxSegment = 2
  MaxRequests = 3
  MaxCrashes = 1
  MaxLapses = 1
  MaxErrors = 1
CHECK_DEADLOCK FALSE
INVARIANTS OneLiveSegment ChainSound
PROPERTIES Continues
