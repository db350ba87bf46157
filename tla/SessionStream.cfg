SPECIFICATION Spec
CONSTANTS
  MaxInputs = 2
  MaxMoves = 3
  MaxTail = 2
  MaxLag = 1
INVARIANTS TypeOK LogFollowsAgent NothingIsForgotten
PROPERTY ImplementsFeed
CHECK_DEADLOCK FALSE
