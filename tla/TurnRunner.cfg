CONSTANTS
  MaxMessages = 4
  MaxSessions = 2
  MaxCrashes = 1
SPECIFICATION FairSpec
CHECK_DEADLOCK FALSE
INVARIANTS
  RunningIsOwned
  StoredSessionIsAlive
  SessionsAccounted
  EndedAnswerHasNoOpenStep
  TurnHasConversation
PROPERTIES
  CompleteIsFinal
  EveryTurnEnds
  EveryRemovalEnds
