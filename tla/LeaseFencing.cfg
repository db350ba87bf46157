SPECIFICATION Spec
CONSTANTS
  Session = {s1, s2}
  Worker = {w1, w2}
  NoWorker = NoWorker
  Pooled = {w1, w2}
  Capacity = 1
  MaxLease = 2
  MaxTurn = 1
  MaxRestarts = 0
  MaxReplays = 0
  MaxMessages = 2
  MaxReports = 1
  Lossy = {}
  Redeliverable = {}
INVARIANTS   OneLiveRun
CONSTRAINT InFlightBound
SYMMETRY Symmetry
CHECK_DEADLOCK FALSE
