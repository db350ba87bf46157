SPECIFICATION FairSpec
CONSTANTS
 r1 = r1
 r2 = r2
 Request = {r1, r2}
 Client = client
 MaxQueuedCalls = 1
 MaxRestarts = 1
 MaxAbsences = 0
 MaxClientInputs = 0
 MaxPauseRaces = 0
PROPERTIES KeepsPromise 
CONSTRAINT CrashWithoutRival
CHECK_DEADLOCK FALSE
