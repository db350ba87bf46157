SPECIFICATION FairSpec
CONSTANTS
  NoSession = NoSession
  Session = {s1, s2}
  Pinned = {s1}
  MaxPending = 1
  MaxInstance = 3
  MaxWorker = 2
  MaxPauses = 1
  MaxFaults = 1
INVARIANTS TypeOK NoOrphanHost
 
