CONSTANTS
  Conversations = {c1, c2}
  NoConversation = NoConversation
  MaxTurns = 2
  MaxEdits = 2
  MaxFailures = 2
SPECIFICATION Spec
CHECK_DEADLOCK FALSE
INVARIANTS
  ShowsOnlyTheFollowed
  ShowsTheConversation
  NeverStuckBusy
  ListsTheConversations
