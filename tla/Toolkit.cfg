CONSTANTS
  Explored = {"chat rows", "schema", "repository", "where", "select", "tasks", "events", "dates",
              "requests", "answers", "tests", "flow", "keyboard", "dictionary", "rich text",
              "layers", "cells", "matches", "syllables"}
  Conversations = {c1, c2}
  MaxRows = 5
  MaxFailedSaves = 1
  MaxFailures = 2
  MaxCrashes = 1
  Ids = {1, 2, 3}
  Values = {1, 2}
  ChunkSizes = {1, 2}
  MaxWrites = 1
  MaxItems = 2
  MaxConditionTokens = 6
  MaxSelectCalls = 4
  MaxStages = 3
  MaxSubscriptions = 2
  MaxEvents = 3
  MaxDay = 3
  MaxMessages = 5
  MaxRepliedCalls = 2
  MaxToolCalls = 1
  MaxAnswerTokens = 7
  MaxLinks = 3
  MaxFields = 2
  MaxCharacters = 4
  MaxLetters = 5
  MaxLines = 2
  MaxSteps = 4
  MaxLength = 4
  MaxLearned = 2
SYMMETRY ConversationSymmetry
SPECIFICATION ToolkitSpec
CHECK_DEADLOCK FALSE
INVARIANTS
  ChatIsKept
  
  ResultsArrive
  MessagesAreUnderstood
  ShowsWhatIsThere
