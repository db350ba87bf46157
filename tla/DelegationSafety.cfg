SPECIFICATION Spec
CONSTANTS
 r1 = r1
 r2 = r2
 Request = {r1, r2}
 Client = client
 MaxQueuedCalls = 2
 MaxRestarts = 1
 MaxAbsences = 1
 MaxClientInputs = 1
 MaxPauseRaces = 0
INVARIANTS TypeOK OneOpenRelation RelationIsConsistent 
SYMMETRY Alike
CONSTRAINT FaultsApart
CHECK_DEADLOCK FALSE
