SPECIFICATION FairSpec
CONSTANTS
  Responder = {r1}
  Nobody = Nobody
  View = {owner}
  MaxCrashes = 1
CONSTRAINT OneFailure
CHECK_DEADLOCK FALSE
PROPERTIES ViewsConverge DeliverySettles
