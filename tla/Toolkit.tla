------------------------------ MODULE Toolkit ------------------------------
(***************************************************************************)
(* The parts of the libraries that the chat is built from and that share   *)
(* no state with one another, each in a module of its own: a run of this   *)
(* one is a run of one part, which the initial state chooses.              *)
(* The tables of the chat have a variable of their own, which only their   *)
(* part changes; the state of every other part is "state".                 *)
(***************************************************************************)
EXTENDS ChatRows, TLC

CONSTANTS
  Explored,                                         \* the parts of a run
  MaxFailures,                                      \* Schema, with the crashes of ChatRows
  Ids, Values, ChunkSizes, MaxWrites, MaxItems,     \* DbRepository, and the items of FlowRows
  MaxConditionTokens, MaxSelectCalls,               \* WhereClause, SelectStatement
  MaxStages, MaxSubscriptions, MaxEvents, MaxDay,   \* TaskChain, EventBus, DateWatcher
  MaxMessages, MaxRepliedCalls, MaxToolCalls,       \* ChatRequests
  MaxAnswerTokens,                                  \* CliAnswer
  MaxLinks, MaxFields,                              \* LayeredLayout, BitsLayout
  MaxCharacters, MaxLetters,                        \* TextMatcher, Syllabifier
  MaxLines, MaxSteps, MaxLength, MaxLearned         \* UiAutomation, FlowRows, the keyboard

VARIABLES part, state

vars == <<part, state, rows>>

Schemas   == INSTANCE Schema WITH schema <- state
Repo      == INSTANCE DbRepository WITH repo <- state, MaxCalls <- MaxWrites
Where     == INSTANCE WhereClause WITH where <- state, MaxTokens <- MaxConditionTokens
Selects   == INSTANCE SelectStatement WITH select <- state, MaxCalls <- MaxSelectCalls
Tasks     == INSTANCE TaskChain WITH chain <- state
Events    == INSTANCE EventBus WITH bus <- state
Dates     == INSTANCE DateWatcher WITH watch <- state
Requests  == INSTANCE ChatRequests WITH chat <- state, MaxCalls <- MaxRepliedCalls
Answers   == INSTANCE CliAnswer WITH cli <- state, MaxTokens <- MaxAnswerTokens
Tests     == INSTANCE UiAutomation WITH ui <- state
Flow      == INSTANCE FlowRows WITH flow <- state
Keyboard  == INSTANCE KeyboardBuffer WITH buffer <- state
T9        == INSTANCE T9Dictionary WITH dictionary <- state, MaxCalls <- MaxLearned
Rich      == INSTANCE RichDiagrams WITH rich <- state
Layers    == INSTANCE LayeredLayout WITH flow <- state
Cells     == INSTANCE BitsLayout WITH bits <- state
Matches   == INSTANCE TextMatcher WITH search <- state
Syllables == INSTANCE Syllabifier WITH syllables <- state

ToolkitInit ==
  /\ part \in Explored
  /\ Init
  /\ \/ part = "chat rows"   /\ state = <<>>
     \/ part = "schema"      /\ Schemas!Init
     \/ part = "repository"  /\ Repo!Init
     \/ part = "where"       /\ Where!Start
     \/ part = "select"      /\ Selects!Init
     \/ part = "tasks"       /\ Tasks!Init
     \/ part = "events"      /\ Events!Init
     \/ part = "dates"       /\ Dates!Init
     \/ part = "requests"    /\ Requests!Init
     \/ part = "answers"     /\ Answers!Init
     \/ part = "tests"       /\ Tests!Init
     \/ part = "flow"        /\ Flow!Init
     \/ part = "keyboard"    /\ Keyboard!Init
     \/ part = "dictionary"  /\ T9!Init
     \/ part = "rich text"   /\ Rich!Init
     \/ part = "layers"      /\ Layers!Init
     \/ part = "cells"       /\ Cells!Init
     \/ part = "matches"     /\ Matches!Init
     \/ part = "syllables"   /\ Syllables!Init

ToolkitNext ==
  \/ part = "chat rows"   /\ Next /\ UNCHANGED <<part, state>>
  \/ part = "schema"      /\ Schemas!Next /\ UNCHANGED <<part, rows>>
  \/ part = "repository"  /\ Repo!Next /\ UNCHANGED <<part, rows>>
  \/ part = "where"       /\ Where!Next /\ UNCHANGED <<part, rows>>
  \/ part = "select"      /\ Selects!Next /\ UNCHANGED <<part, rows>>
  \/ part = "tasks"       /\ Tasks!Next /\ UNCHANGED <<part, rows>>
  \/ part = "events"      /\ Events!Next /\ UNCHANGED <<part, rows>>
  \/ part = "dates"       /\ Dates!Next /\ UNCHANGED <<part, rows>>
  \/ part = "requests"    /\ Requests!Next /\ UNCHANGED <<part, rows>>
  \/ part = "answers"     /\ Answers!Next /\ UNCHANGED <<part, rows>>
  \/ part = "tests"       /\ Tests!Next /\ UNCHANGED <<part, rows>>
  \/ part = "flow"        /\ Flow!Next /\ UNCHANGED <<part, rows>>
  \/ part = "keyboard"    /\ Keyboard!Next /\ UNCHANGED <<part, rows>>
  \/ part = "dictionary"  /\ T9!Next /\ UNCHANGED <<part, rows>>
  \/ part = "rich text"   /\ Rich!Next /\ UNCHANGED <<part, rows>>
  \/ part = "layers"      /\ Layers!Next /\ UNCHANGED <<part, rows>>
  \/ part = "cells"       /\ Cells!Next /\ UNCHANGED <<part, rows>>
  \/ part = "matches"     /\ Matches!Next /\ UNCHANGED <<part, rows>>
  \/ part = "syllables"   /\ Syllables!Next /\ UNCHANGED <<part, rows>>

ToolkitSpec == ToolkitInit /\ [][ToolkitNext]_vars

-----------------------------------------------------------------------------


\* What one thread or moment hands to another arrives: the result of a task at its handlers, in
\* order and in their threads, while their owners live (TaskChain), an event once at each living
\* subscriber, which is published at one time for all of them (EventBus),
\* the new day at the watcher of the date (DateWatcher).
ResultsArrive ==
  /\ part = "tasks" => Tasks!ResultsArrive
  /\ part = "events" => Events!EventsArrive
  /\ part = "dates" => Dates!TellsTheDay

\* The requests made of a conversation are ones the services accept, but for calls of the
\* history that have no result (ChatRequests); the answer of a one-shot client is taken for the
\* calls it stands for, but for the arguments of an invented answer of an agent with tools
\* (CliAnswer).
MessagesAreUnderstood ==
  /\ part = "requests" => Requests!RequestsMakeSense
  /\ part = "answers" => Answers!AnswerIsUnderstood

\* What is shown, or found, is what is there: rows of a flow (FlowRows), the composed text and
\* its candidates (KeyboardBuffer, T9Dictionary), the diagrams of a text, each as it would
\* be drawn now but for its canvas once fillWidth was turned off (RichDiagrams), the items a test
\* acts on (UiAutomation), the items and bits of a diagram where its links and
\* numbers put them (LayeredLayout, BitsLayout), a text in a sentence and the syllables of a word
\* (TextMatcher, Syllabifier).
ShowsWhatIsThere ==
  /\ part = "flow" => Flow!RowsShowTheSource
  /\ part = "keyboard" => Keyboard!TextIsEdited
  /\ part = "dictionary" => T9!CandidatesAreRanked
  /\ part = "rich text" => Rich!TextShowsItsDiagrams
  /\ part = "tests" => Tests!TestsSeeTheApp
  /\ part = "layers" => Layers!LevelsAreLaidOut
  /\ part = "cells" => Cells!BitsAreDrawn
  /\ part = "matches" => Matches!TextsAreFound
  /\ part = "syllables" => Syllables!WordsAreSplit

\* The conversations of ChatRows are interchangeable.
ConversationSymmetry == Permutations(Conversations)
=============================================================================
