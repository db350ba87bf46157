SPECIFICATION Spec
CONSTANTS
  Responder = {r1, r2}
  Nobody = Nobody
  View = {owner, parent}
  MaxCrashes = 1
SYMMETRY Symmetry
CONSTRAINT CrashWithoutRival
CHECK_DEADLOCK FALSE
INVARIANTS ViewsAgree AcceptedMeansAnswered
PROPERTY ImplementsDecision
