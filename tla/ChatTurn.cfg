CONSTANTS
  Conversations = {c1, c2}
  Agents = {courses, notes}
  Keepers = {courses}
  Compacting = TRUE
  MaxTurns = 2
  MaxCalls = 2
  MaxSessions = 2
  MaxDelegations = 1
  MaxFollowUps = 1
  MaxToolRounds = 1
SPECIFICATION FairSpec
CHECK_DEADLOCK FALSE
INVARIANTS
  OneOwnerPerSession
  StepsTellTheOutcome
PROPERTIES
  IsAnAgentTurn
