CONSTANTS
  MaxRequests = 2
  MaxCancels = 1
  MaxAsks = 4
  MaxUnlimited = 3
  Limits = {0, 1}
  Batches <- SmallBatches
  Reenters <- HonouredPoints
SPECIFICATION FairSpec
INVARIANTS
  OneLoop
  RequestsAccounted
  ResultsFollowTheirCalls
PROPERTIES
  UnansweredCallsWereCutOff
  EveryRequestEnds
CHECK_DEADLOCK FALSE
