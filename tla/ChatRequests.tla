---------------------------- MODULE ChatRequests ----------------------------
(***************************************************************************)
(* What the HTTP clients send to a model and make of its replies           *)
(* (src/cpp/agent/client.cpp, anthropicclient.cpp, structures.cpp), for    *)
(* the messages an Agent keeps (agent.cpp; its callbacks and observers are *)
(* in AgentLoop).  A text is there or empty.  A request of the Anthropic   *)
(* API is a sequence of turns made of blocks; the OpenAI one lists the     *)
(* messages as they are.  Tool calls are numbered as the model makes them; *)
(* their names, arguments and the usage of a reply are left out.           *)
(***************************************************************************)
EXTENDS Integers, Sequences, FiniteSets, SequencesExt

CONSTANTS
  MaxMessages,  \* the messages of an agent, and the tool calls it ever gets
  MaxCalls,     \* the tool calls of one reply
  MaxToolCalls  \* m_maxToolCalls, the rounds of calls of one request; 0 is no limit

VARIABLE chat

Apis == {"anthropic", "openai"}

\* A message; "raw" are the blocks of the reply it was made from, none for one written by hand.
Message(role, text) == [role |-> role, text |-> text, calls |-> <<>>, of |-> 0, images |-> 0, raw |-> <<>>]

Nothing == [turns |-> <<>>, system |-> 0]

\* The constructor: clear() leaves the system prompt.  "unanswered" are the calls that will never
\* have a result, "parted" says that a message or a clear came between calls and their results.
\* "request" is what the last step posted, "outcome" how it ended one.  The agent has a prompt
\* with one API and none with the other: a prompt changes no turn.
Init ==
  \E api \in Apis, key \in BOOLEAN :
    chat = [api |-> api, key |-> key, prompt |-> api = "anthropic",
            messages |-> <<Message("system", api = "anthropic")>>,
            asking |-> FALSE, waiting |-> FALSE, open |-> <<>>, rounds |-> 0, made |-> 0,
            request |-> Nothing, outcome |-> "none", unanswered |-> {}, parted |-> FALSE]

-----------------------------------------------------------------------------
\* The Anthropic request.

TextBlock        == [block |-> "text", call |-> 0, content |-> <<>>]
ImageBlock       == [block |-> "image", call |-> 0, content |-> <<>>]
ToolUseBlock(call) == [block |-> "tool_use", call |-> call, content |-> <<>>]

TextBlocks(message) == IF message.text THEN <<TextBlock>> ELSE <<>>

\* The content is a text, or a list of blocks when there are images.
ToolResultBlock(message) ==
  [block |-> "tool_result", call |-> message.of,
   content |-> TextBlocks(message) \o [i \in 1..message.images |-> ImageBlock]]

AssistantBlocks(message) ==
  IF message.raw # <<>> THEN message.raw
  ELSE TextBlocks(message) \o [i \in 1..Len(message.calls) |-> ToolUseBlock(message.calls[i])]

BlocksOf(message) == IF message.role = "assistant" THEN AssistantBlocks(message) ELSE TextBlocks(message)

Turn(role, blocks) == IF blocks = <<>> THEN <<>> ELSE <<[role |-> role, blocks |-> blocks]>>

\* Variant: each result is a turn of its own.
ConversationResultByResult(messages) ==
  FlattenSeq([i \in 1..Len(messages) |->
    CASE messages[i].role = "system" -> <<>>
      [] messages[i].role = "tool" -> Turn("user", <<ToolResultBlock(messages[i])>>)
      [] OTHER -> Turn(messages[i].role, BlocksOf(messages[i]))])

\* The results of a round are gathered into one turn of the user; a message without blocks is
\* no turn.
Conversation(messages) ==
  LET Add(state, message) ==
        CASE message.role = "system" -> state
          [] message.role = "tool" -> [state EXCEPT !.results = Append(@, ToolResultBlock(message))]
          [] OTHER -> [turns   |-> state.turns \o Turn("user", state.results)
                                     \o Turn(message.role, BlocksOf(message)),
                       results |-> <<>>]
      all == FoldLeft(Add, [turns |-> <<>>, results |-> <<>>], messages)
  IN  all.turns \o Turn("user", all.results)

\* How many system messages have a text to send.
SystemBlocks(messages) ==
  Len(SelectSeq(messages, LAMBDA message : message.role = "system" /\ message.text))

\* Message::toJsonObject: the text, the calls and the id of a result are sent, the images and the
\* raw blocks never.
ToJsonObject(message) == [role |-> message.role, text |-> message.text, calls |-> message.calls, of |-> message.of]
ToJsonArray(messages) == [i \in 1..Len(messages) |-> ToJsonObject(messages[i])]

RequestBody(messages) == [turns |-> Conversation(messages), system |-> SystemBlocks(messages)]

CreateRequest(messages) == [turns |-> ToJsonArray(messages), system |-> 0]

Post(messages) == IF chat.api = "anthropic" THEN RequestBody(messages) ELSE CreateRequest(messages)

\* Without a key nothing is posted, and nobody is ever called back.
Send(after) ==
  chat' = IF chat.key THEN [after EXCEPT !.request = Post(after.messages), !.waiting = TRUE,
                                         !.outcome = "none"]
          ELSE [after EXCEPT !.request = Nothing, !.outcome = "none"]

\* A step that posts nothing, and one that ends a request (deliverResponse).
Becomes(after) == chat' = [after EXCEPT !.request = Nothing, !.outcome = "none"]
Ends(after, outcome) ==
  chat' = [after EXCEPT !.asking = FALSE, !.waiting = FALSE, !.request = Nothing, !.outcome = outcome]

-----------------------------------------------------------------------------
\* The agent.

MayGrow == Len(chat.messages) < MaxMessages

Request(text) ==
  /\ ~chat.asking /\ MayGrow
  /\ Send([chat EXCEPT !.messages = Append(@, Message("user", text)), !.rounds = 0, !.asking = TRUE])

InARound == chat.open # <<>>

\* A message restored from elsewhere, or the one that opens the chat.  The agent does not look
\* whether it comes between calls and their results.
AddMessage(role) ==
  /\ MayGrow
  /\ Becomes([chat EXCEPT !.messages = Append(@, Message(role, TRUE)), !.parted = @ \/ InARound])

Cancel ==
  Becomes([chat EXCEPT !.asking = FALSE, !.waiting = FALSE, !.open = <<>>, !.rounds = 0,
                       !.unanswered = @ \cup ToSet(chat.open)])

\* At any time too: the results of a round that goes on have lost their calls.  The calls are
\* numbered anew.
Clear ==
  Becomes([chat EXCEPT !.messages = <<Message("system", chat.prompt)>>,
                       !.made = 0, !.unanswered = {}, !.parted = InARound])

\* classifyError: the HTTP status, or the code in the body when there is none.
ClassifyError(status, code) ==
  LET known == IF status = 0 THEN code ELSE status
  IN  CASE known \in {401, 403} -> "invalid_key"
        [] known = 402 -> "insufficient_credits"
        [] known = 429 -> "rate_limit"
        [] known \in 500..599 -> "server_error"
        [] OTHER -> IF status = 0 THEN "network_error" ELSE "unknown_error"

\* errorToken: the errors that the Anthropic API names.
ErrorToken(type) ==
  CASE type \in {"authentication_error", "permission_error"} -> "invalid_key"
    [] type = "billing_error" -> "insufficient_credits"
    [] type = "rate_limit_error" -> "rate_limit"
    [] type \in {"api_error", "overloaded_error", "timeout_error"} -> "server_error"
    [] OTHER -> "unknown_error"

FinishReasonFor(stop) ==
  CASE stop = "tool_use" -> "tool_calls"
    [] stop \in {"end_turn", "stop_sequence"} -> "stop"
    [] stop = "max_tokens" -> "length"
    [] OTHER -> ""

\* AnthropicClient::parse: an error of the network counts by its type when the body has one.
ParsedError(status, code, type) == IF type # "none" THEN ErrorToken(type) ELSE ClassifyError(status, code)

\* A reply that failed, as AnthropicClient::parse or Client::parseReply reads it.
AnswerError(status, code, type) ==
  /\ chat.waiting
  /\ Ends(chat, IF chat.api = "anthropic" THEN ParsedError(status, code, type)
                ELSE ClassifyError(status, code))

\* A reply that did not fail: the Anthropic API says why it stopped, the OpenAI one has a choice.
CompletionFrom(stop) ==
  CASE chat.api = "anthropic" /\ stop = "refusal" -> [error |-> "refusal", reason |-> ""]
    [] chat.api = "anthropic" /\ FinishReasonFor(stop) = "" -> [error |-> "unknown_error", reason |-> ""]
    [] stop = "garbage" -> [error |-> "unknown_error", reason |-> ""]
    [] OTHER -> [error |-> "", reason |-> IF chat.api = "anthropic" THEN FinishReasonFor(stop)
                                          ELSE IF stop = "tool_use" THEN "tool_calls" ELSE "stop"]

\* The message of a reply: a text, calls, or both; the Anthropic client keeps its blocks as they came.
FromJsonObject(text, count) ==
  [Message("assistant", text) EXCEPT !.calls = [i \in 1..count |-> chat.made + i]]
Replied(text, count) ==
  LET message == FromJsonObject(text, count)
  IN  IF chat.api = "anthropic" THEN [message EXCEPT !.raw = AssistantBlocks(message)] ELSE message

\* A round of tool calls.  One too many ends the turn with its calls unanswered.  A call of a tool
\* the agent has not is skipped, and a round without any other call asks again at once.
HandleToolCalls(after, calls, known) ==
  LET started == [after EXCEPT !.rounds = @ + 1, !.waiting = FALSE]
      open    == SelectSeq(calls, LAMBDA call : call \in known)
  IN  IF started.rounds > MaxToolCalls /\ MaxToolCalls # 0
      THEN Ends([started EXCEPT !.unanswered = @ \cup ToSet(calls)], "too_many_tool_calls")
      ELSE LET round == [started EXCEPT !.open = open,
                                        !.unanswered = @ \cup (ToSet(calls) \ known)]
           IN  IF open = <<>> THEN Send(round) ELSE Becomes(round)

\* onCompletionReceived.  Only a round keeps the calls of the reply; any other answer is its text,
\* with the raw blocks.  Calls come from a model that stops for them or at the limit of its tokens.
Answer(stop, text, count, known) ==
  LET completion == CompletionFrom(stop)
      message    == Replied(text, count)
      after      == [chat EXCEPT !.made = @ + count]
  IN  /\ chat.waiting /\ MayGrow
      /\ count > 0 => stop \in {"tool_use", "max_tokens"} /\ chat.made + count <= MaxMessages
      /\ IF completion.error # "" THEN Ends(chat, completion.error)
         ELSE IF completion.reason = "tool_calls"
         THEN HandleToolCalls([after EXCEPT !.messages = Append(@, message)], message.calls,
                              {chat.made + i : i \in known})
         ELSE Ends([after EXCEPT !.messages = Append(@, [message EXCEPT !.calls = <<>>]),
                                 !.unanswered = IF chat.api = "anthropic"
                                                THEN @ \cup ToSet(message.calls) ELSE @], "answered")

\* The result of the first open call; after the last one the agent asks again.
Tool(images) ==
  LET result == [Message("tool", TRUE) EXCEPT !.of = Head(chat.open), !.images = images]
      after  == [chat EXCEPT !.open = Tail(@), !.messages = Append(@, result)]
  IN  /\ chat.open # <<>> /\ MayGrow
      /\ IF after.open = <<>> THEN Send(after) ELSE Becomes(after)

Stops  == {"tool_use", "end_turn", "max_tokens", "refusal", "pause_turn", "garbage"}
Errors == {[status |-> 429, code |-> 0, type |-> "rate_limit_error"],
           [status |-> 0, code |-> 402, type |-> "none"], [status |-> 0, code |-> 0, type |-> "none"],
           [status |-> 529, code |-> 0, type |-> "overloaded_error"]}

Next ==
  \/ \E text \in BOOLEAN : Request(text)
  \/ \E role \in {"user", "assistant"} : AddMessage(role)
  \/ Cancel \/ Clear
  \/ \E error \in Errors : AnswerError(error.status, error.code, error.type)
  \/ \E stop \in Stops, text \in BOOLEAN, count \in 0..MaxCalls :
       \E known \in SUBSET (1..count) : Answer(stop, text, count, known)
  \/ \E images \in 0..1 : Tool(images)

-----------------------------------------------------------------------------

Calls(turn)   == SelectSeq(turn.blocks, LAMBDA block : block.block = "tool_use")
Results(turn) == SelectSeq(turn.blocks, LAMBDA block : block.block = "tool_result")
CallIds(blocks) == [i \in 1..Len(blocks) |-> blocks[i].call]

\* The calls among these that wait for a result.
Answerable(calls) == SelectSeq(calls, LAMBDA call : call \notin chat.unanswered)

\* What the API wants of the results in the turns it is sent: the turn after one that calls
\* tools, and no other, has the results of those calls, in their order.
AnthropicAccepts(turns) ==
  /\ \A i \in 1..Len(turns) :
       LET called == CallIds(Calls(turns[i]))
           given  == IF i = Len(turns) THEN <<>> ELSE CallIds(Results(turns[i + 1]))
       IN  Answerable(called) = given
  /\ Len(turns) > 0 => Results(turns[1]) = <<>>

\* In the list of messages the results come one by one after the message that called for them,
\* and nowhere else.
OpenAiAccepts(messages) ==
  \A i \in 1..Len(messages) :
    LET answerable == Answerable(messages[i].calls)
    IN  /\ i + Len(answerable) <= Len(messages)
        /\ \A c \in 1..Len(answerable) : messages[i + c].of = answerable[c]
        /\ messages[i].of # 0 =>
             \E j \in 1..i - 1 : i <= j + Len(Answerable(messages[j].calls))

\* Every request is one the API accepts but for the calls without a result: those of a round
\* that was cancelled, that was one too many or that ended at the limit of its tokens, and of a
\* tool the agent has not.  The code leaves them in the messages and the API refuses them; but
\* no other result is missing, none is out of its place, and no later round suffers.  Only when
\* a message or a clear came between calls and their results is nothing said of the results.
RequestsAreAccepted ==
  chat.request # Nothing =>
    IF chat.api = "anthropic"
    THEN /\ \A i \in 1..Len(chat.request.turns) : chat.request.turns[i].blocks # <<>>
         /\ chat.parted \/ AnthropicAccepts(chat.request.turns)
    ELSE chat.parted \/ OpenAiAccepts(chat.request.turns)

\* An agent that asks waits for the network or for a tool, unless it has no key to ask with.
NobodyWaitsForNothing ==
  chat.asking => chat.waiting \/ chat.open # <<>> \/ ~chat.key

RequestsMakeSense == RequestsAreAccepted /\ NobodyWaitsForNothing
=============================================================================
