SPECIFICATION FairSpec
CONSTANTS
  MaxTurn = 1
  MaxLease = 2
  MaxWorker = 2
  MaxPausers = 1
  MaxCrashes = 1
INVARIANT AcknowledgedIsProjected
 
CONSTRAINT FaultsApart
CHECK_DEADLOCK FALSE
