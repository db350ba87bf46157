SPECIFICATION FairSpec
CONSTANTS
  Device = {d1, d2}
  MaxCrashes = 1
  MaxAbsences = 1
INVARIANTS SettledWhenAllEnded CompletedIsTrue HeardTheAggregate OperatorDecides
 
CHECK_DEADLOCK FALSE
