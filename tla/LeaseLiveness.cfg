SPECIFICATION FairSpec
CONSTANTS
  Session = {s1}
  Worker = {w1}
  NoWorker = NoWorker
  Pooled = {w1}
  Capacity = 1
  MaxLease = 1
  MaxTurn = 2
  MaxRestarts = 0
  MaxReplays = 2
  MaxMessages = 2
  MaxReports = 1
  Lossy = {"session.pause.requested", "session.paused", "worker.command.rejected"}
  Redeliverable = {}
PROPERTIES PausingResolves DeadWorkerIsLeft
CHECK_DEADLOCK FALSE
