CONSTANTS
  r1 = r1
  r2 = r2
  Requests <- MCRequests
  HungRequests <- MCHungRequests
  Shapes <- MCShapes

SPECIFICATION Spec
INVARIANT VerifiedOnlyIfAllChecksPassed
PROPERTY EveryRequestAnswered
CHECK_DEADLOCK FALSE
