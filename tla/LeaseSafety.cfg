SPECIFICATION Spec
CONSTANTS
  Session = {s1}
  Worker = {w1}
  NoWorker = NoWorker
  Pooled = {w1}
  Capacity = 1
  MaxLease = 2
  MaxTurn = 2
  MaxRestarts = 1
  MaxReplays = 1
  MaxMessages = 3
  MaxReports = 1
  Lossy = {}
  Redeliverable = {"session.input", "session.pause.requested", "turn.completed"}
INVARIANTS TypeOK  CompletedWorkIsKept
PROPERTY SnapshotOfCurrentLease
CONSTRAINT InFlightBound
CHECK_DEADLOCK FALSE
