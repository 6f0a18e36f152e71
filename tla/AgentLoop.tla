------------------------------ MODULE AgentLoop ------------------------------
(***************************************************************************)
(* Agent (cpp/agent/agent.cpp): a request is a loop of completions and      *)
(* tool calls, driven by callbacks of a client and of tools, and watched by *)
(* an observer.  The application may cancel and ask again while it is       *)
(* called back in the middle of the loop, so what the agent still has to    *)
(* do is a stack: the C++ calls that are under way, innermost first.  A     *)
(* frame "app" is a callback into the application, the others are the rest  *)
(* of an agent function.  Text, arguments and results are left out; a       *)
(* message keeps its role, the ask or the call it belongs to and, for the   *)
(* properties, the request that put it there.                               *)
(***************************************************************************)
EXTENDS Naturals, Sequences, FiniteSets

CONSTANTS
  MaxRequests,  \* bound: requests made of the agent
  MaxCancels,   \* bound: calls of cancel()
  MaxAsks,      \* bound: completions asked for
  MaxUnlimited, \* bound: of them, when the tool rounds are unlimited
  Limits,       \* the limits of tool rounds setMaxToolCalls may have set
  Batches,      \* the tool calls of a reply: sequences of "known" and "unknown"
  Reenters      \* the callbacks from which the application calls the agent

Points == {"requestStarted", "usageReported", "error", "response", "round",
           "toolStarted", "toolFinished", "tool", "finished"}
(* The callbacks the tests and the chat call the agent from; the others     *)
(* only record what they are told.                                          *)
HonouredPoints == {"round", "toolStarted", "toolFinished", "tool", "finished"}

\* Replies with a tool the agent has not, and with two it has: batches enough for TLC.
SmallBatches == {<<"unknown", "known">>, <<"known", "known">>}

(* kUnlimitedToolCalls *)
Unlimited == 0

ASSUME BoundsAssumption ==
  /\ {MaxRequests, MaxCancels, MaxAsks} \subseteq Nat
  /\ MaxUnlimited \in 0..MaxAsks
ASSUME LimitsAssumption ==
  /\ Limits \subseteq Nat
  /\ \A l \in Limits \ {Unlimited} : MaxRequests * (l + 1) <= MaxAsks
ASSUME BatchesAssumption == Batches \subseteq Seq({"known", "unknown"})
ASSUME ReentersAssumption == Reenters \subseteq Points

VARIABLES
  limit,     \* m_maxToolCalls, set before the first request
  life,      \* m_life: counts the tokens that expired
  request,   \* the request whose m_responseReceivedCallback is kept, 0 if none
  rounds,    \* m_toolCallsCount
  messages,  \* m_messages
  reply,     \* what the client answered to each ask
  held,      \* callbacks the client still holds
  open,      \* calls a tool has not reported `done` for
  stack,     \* the calls under way, innermost first
  requests,  \* requests made so far
  asks,      \* completions asked for so far
  sent,      \* of them, per request
  reports,   \* request -> what the observer was told: "finished", "failed"
  cancelled  \* requests that cancel() ended

vars == <<limit, life, request, rounds, messages, reply, held, open, stack,
          requests, asks, sent, reports, cancelled>>
(* What only the application's own calls and reports change. *)
caller == <<limit, requests, reports, cancelled>>

Requests == 1..MaxRequests
AskBound == IF limit = Unlimited THEN MaxUnlimited ELSE MaxAsks
NoReply == [kind |-> "none", calls |-> << >>]
Replies == {[kind |-> k, calls |-> << >>] : k \in {"text", "error"}}
             \cup {[kind |-> "calls", calls |-> b] : b \in Batches}

Message(role, by, of, call) == [role |-> role, by |-> by, of |-> of, call |-> call]
Frame(step, ask, call, alive) ==
  [step |-> step, ask |-> ask, call |-> call, alive |-> alive]
AppFrame == Frame("app", 0, 0, 0)

(* A variant: tokens never expire. *)
ExpiredNever(alive) == FALSE
(* weak_ptr::expired() of a token taken when `alive` was current. *)
Expired(alive) == alive # life

Top == Head(stack)
At(step) == stack # << >> /\ Top.step = step
(* The application runs: from the event loop, or inside a callback. *)
AppRuns == IF stack = << >> THEN TRUE ELSE Top.step = "app"

(* The rest of a function that first calls back: the application comes in  *)
(* between if it calls the agent from that callback at all.                *)
After(point, frame) ==
  IF point \in Reenters THEN <<AppFrame, frame>> ELSE <<frame>>
Inside(point) == IF point \in Reenters THEN <<AppFrame>> ELSE << >>

(* createCompletionAsync, up to the observer's requestStarted. *)
Create == After("requestStarted", Frame("send", 0, 0, 0))

Init ==
  /\ limit \in Limits
  /\ life = 0
  /\ request = 0
  /\ rounds = 0
  /\ messages = <<Message("system", 0, 0, 0)>>
  /\ reply = [a \in 1..MaxAsks |-> NoReply]
  /\ held = {}
  /\ open = {}
  /\ stack = << >>
  /\ requests = 0
  /\ asks = 0
  /\ sent = [r \in Requests |-> 0]
  /\ reports = [r \in Requests |-> << >>]
  /\ cancelled = {}

-----------------------------------------------------------------------------
(* The application *)

(* A variant: a second request is let in. *)
AlwaysStarts == request <= requests
(* requestAsync refuses while a request is open. *)
RequestMayStart == request = 0

RequestAsync ==
  /\ AppRuns
  /\ RequestMayStart
  /\ requests < MaxRequests
  /\ messages' = Append(messages, Message("user", requests + 1, requests + 1, 0))
  /\ rounds' = 0
  /\ requests' = requests + 1
  /\ request' = requests + 1
  /\ stack' = Create \o stack
  /\ UNCHANGED <<limit, life, reply, held, open, asks, sent, reports, cancelled>>

(* Destroying the agent expires its token too: it is a cancel after which   *)
(* nothing is asked.                                                        *)
Cancel ==
  /\ AppRuns
  /\ life < MaxCancels
  /\ life' = life + 1
  /\ request' = 0
  /\ rounds' = 0
  /\ cancelled' = cancelled \cup ({request} \ {0})
  /\ UNCHANGED <<limit, messages, reply, held, open, stack, requests, asks, sent, reports>>

(* clear() does not ask whether a request is open. *)
Clear ==
  /\ AppRuns
  /\ messages' = <<Message("system", 0, asks, 0)>>
  /\ UNCHANGED <<life, request, rounds, reply, held, open, stack, caller, asks, sent>>

AppReturns ==
  /\ At("app")
  /\ stack' = Tail(stack)
  /\ UNCHANGED <<life, request, rounds, messages, reply, held, open, caller, asks, sent>>

-----------------------------------------------------------------------------
(* The client *)

(* client.createCompletionAsync: it keeps the callback, or calls it at once. *)
Send ==
  /\ At("send")
  /\ asks < AskBound
  /\ asks' = asks + 1
  /\ sent' = IF request = 0 THEN sent ELSE [sent EXCEPT ![request] = @ + 1]
  /\ \/ /\ held' = held \cup {[ask |-> asks + 1, alive |-> life]}
        /\ stack' = Tail(stack)
        /\ UNCHANGED reply
     \/ /\ \E r \in Replies : reply' = [reply EXCEPT ![asks + 1] = r]
        /\ stack' = <<Frame("completion", asks + 1, 0, 0)>> \o Tail(stack)
        /\ UNCHANGED held
  /\ UNCHANGED <<life, request, rounds, messages, open, caller>>

(* A callback kept from before a cancel does nothing. *)
ClientAnswers ==
  /\ stack = << >>
  /\ \E h \in held, r \in Replies :
       /\ held' = held \ {h}
       /\ reply' = [reply EXCEPT ![h.ask] = r]
       /\ stack' = IF Expired(h.alive) THEN << >>
                   ELSE <<Frame("completion", h.ask, 0, 0)>>
  /\ UNCHANGED <<life, request, rounds, messages, open, caller, asks, sent>>

-----------------------------------------------------------------------------
(* onCompletionReceived and deliverResponse *)

OnCompletion ==
  /\ At("completion")
  /\ stack' = (IF reply[Top.ask].kind = "error"
               THEN After("error", Frame("deliver", Top.ask, 0, 0))
               ELSE After("usageReported", Frame("reply", Top.ask, 0, 0)))
              \o Tail(stack)
  /\ UNCHANGED <<life, request, rounds, messages, reply, held, open, caller, asks, sent>>

TooManyRounds(n) == limit # Unlimited /\ n > limit

OnReply ==
  LET text == reply[Top.ask].kind = "text"
      over == ~text /\ TooManyRounds(rounds + 1)
  IN
  /\ At("reply")
  /\ messages' = Append(messages,
                    Message(IF text THEN "assistant" ELSE "calls", request, Top.ask, 0))
  /\ rounds' = IF text THEN rounds ELSE rounds + 1
  /\ stack' = <<IF text \/ over THEN Frame("deliver", Top.ask, 0, 0)
                ELSE Frame("calls", Top.ask, 1, 0)>> \o Tail(stack)
  /\ UNCHANGED <<life, request, reply, held, open, caller, asks, sent>>

(* The response callback is called before it is cleared. *)
Deliver ==
  /\ At("deliver")
  /\ stack' = (IF request = 0 THEN << >>
               ELSE After("response", Frame("delivered", Top.ask, request, 0)))
              \o Tail(stack)
  /\ UNCHANGED <<life, request, rounds, messages, reply, held, open, caller, asks, sent>>

Delivered ==
  /\ At("delivered")
  /\ request' = 0
  /\ reports' = [reports EXCEPT ![Top.call] =
                   Append(@, IF reply[Top.ask].kind = "text" THEN "finished" ELSE "failed")]
  /\ stack' = Inside("finished") \o Tail(stack)
  /\ UNCHANGED <<limit, life, rounds, messages, reply, held, open, requests, asks, sent,
                 cancelled>>

-----------------------------------------------------------------------------
(* handleToolCallsAsync *)

CallsOf(ask) == reply[ask].calls
(* A variant: the last call of a reply is not handled. *)
HandledButLast(f) == f.call >= Len(CallsOf(f.ask))
AllHandled(f) == f.call > Len(CallsOf(f.ask))

(* The end of a round calls the response callback, with nothing to say. *)
EndRound ==
  /\ At("calls")
  /\ AllHandled(Top)
  /\ stack' = (IF request = 0 THEN Create
               ELSE After("round", Frame("roundEnd", Top.ask, 0, life))) \o Tail(stack)
  /\ UNCHANGED <<life, request, rounds, messages, reply, held, open, caller, asks, sent>>

AskAgain ==
  /\ At("roundEnd")
  /\ stack' = (IF Expired(Top.alive) THEN << >> ELSE Create) \o Tail(stack)
  /\ UNCHANGED <<life, request, rounds, messages, reply, held, open, caller, asks, sent>>

Handling(call) == At("calls") /\ ~AllHandled(Top) /\ CallsOf(Top.ask)[Top.call] = call

(* A variant: the loop does not go on after a call. *)
LoopStops(frame) == << >>
NextCall(frame) == <<Frame("calls", frame.ask, frame.call + 1, 0)>>

(* A tool the model made up is skipped: it gets no answer. *)
SkipUnknownTool ==
  /\ Handling("unknown")
  /\ stack' = NextCall(Top) \o Tail(stack)
  /\ UNCHANGED <<life, request, rounds, messages, reply, held, open, caller, asks, sent>>

StartTool ==
  /\ Handling("known")
  /\ stack' = After("toolStarted", Frame("tool", Top.ask, Top.call, life)) \o Tail(stack)
  /\ UNCHANGED <<life, request, rounds, messages, reply, held, open, caller, asks, sent>>

RunTool ==
  /\ At("tool")
  /\ IF Expired(Top.alive)
     THEN open' = open /\ stack' = Tail(stack)
     ELSE /\ open' = open \cup {[ask |-> Top.ask, call |-> Top.call, alive |-> Top.alive]}
          /\ stack' = Inside("tool") \o Tail(stack)
  /\ UNCHANGED <<life, request, rounds, messages, reply, held, caller, asks, sent>>

(* A tool calls `done` once, from its own body or later. *)
ToolDone ==
  /\ AppRuns
  /\ \E t \in open :
       /\ open' = open \ {t}
       /\ stack' = (IF Expired(t.alive) THEN << >>
                    ELSE After("toolFinished", Frame("answer", t.ask, t.call, t.alive)))
                   \o stack
  /\ UNCHANGED <<life, request, rounds, messages, reply, held, caller, asks, sent>>

RecordAnswer ==
  /\ At("answer")
  /\ IF Expired(Top.alive)
     THEN messages' = messages /\ stack' = Tail(stack)
     ELSE /\ messages' = Append(messages, Message("tool", request, Top.ask, Top.call))
          /\ stack' = NextCall(Top) \o Tail(stack)
  /\ UNCHANGED <<life, request, rounds, reply, held, open, caller, asks, sent>>

-----------------------------------------------------------------------------
AgentStep ==
  \/ Send \/ OnCompletion \/ OnReply \/ Deliver \/ Delivered
  \/ EndRound \/ AskAgain \/ SkipUnknownTool \/ StartTool \/ RunTool \/ RecordAnswer

Next ==
  \/ RequestAsync \/ Cancel \/ Clear \/ AppReturns
  \/ ClientAnswers \/ ToolDone
  \/ AgentStep

Spec == Init /\ [][Next]_vars

(* Code that runs goes on, a client answers, a tool reports its result. *)
FairSpec ==
  /\ Spec
  /\ WF_vars(AgentStep) /\ WF_vars(AppReturns)
  /\ WF_vars(ClientAnswers) /\ SF_vars(ToolDone)

-----------------------------------------------------------------------------
FrameType ==
  [step : {"app", "send", "completion", "reply", "deliver", "delivered", "calls",
           "roundEnd", "tool", "answer"},
   ask : 0..MaxAsks, call : Nat, alive : 0..MaxCancels]

TypeOK ==
  /\ limit \in Limits
  /\ life \in 0..MaxCancels
  /\ request \in 0..requests
  /\ rounds \in Nat
  /\ messages \in Seq([role : {"system", "user", "assistant", "calls", "tool"},
                       by : Nat, of : Nat, call : Nat])
  /\ reply \in [1..MaxAsks -> Replies \cup {NoReply}]
  /\ held \subseteq [ask : 1..MaxAsks, alive : 0..MaxCancels]
  /\ open \subseteq [ask : 1..MaxAsks, call : Nat \ {0}, alive : 0..MaxCancels]
  /\ stack \in Seq(FrameType)
  /\ requests \in 0..MaxRequests
  /\ asks \in 0..MaxAsks
  /\ sent \in [Requests -> Nat]
  /\ reports \in [Requests -> Seq({"finished", "failed"})]
  /\ cancelled \subseteq 1..requests

(* The places from which the loop goes on if nothing is cancelled: a        *)
(* callback of the client, a call of a tool, a function that is under way.  *)
Guarded == {"roundEnd", "tool", "answer"}
GoesOn(f) == f.step # "app" /\ (f.step \in Guarded => f.alive = life)
LiveFrames == {i \in DOMAIN stack : GoesOn(stack[i])}
Live(waiting) == {w \in waiting : w.alive = life}

(* While a request is open the loop goes on from exactly one place, and     *)
(* when none is open it goes on from nowhere, whatever was cancelled and    *)
(* asked again from within the callbacks: completions and tools of an       *)
(* earlier request never drive the next one (m_life, agent.cpp:221-371).    *)
OneLoop ==
  Cardinality(Live(held)) + Cardinality(Live(open)) + Cardinality(LiveFrames)
    = IF request = 0 THEN 0 ELSE 1

(* A request is open, or was cancelled, or was reported finished or failed  *)
(* once; never two of these, and none is forgotten                          *)
(* (requestAsync, cancel and deliverResponse, agent.cpp:151-259).  Unless   *)
(* the tool rounds are unlimited it asks for at most one completion more    *)
(* than their limit (agent.cpp:299), also after cancels and requests from   *)
(* callbacks.                                                               *)
RequestsAccounted ==
  \A r \in 1..requests :
    /\ Len(reports[r]) + (IF r \in cancelled THEN 1 ELSE 0) + (IF r = request THEN 1 ELSE 0) = 1
    /\ limit # Unlimited => sent[r] <= limit + 1

Answerable(ask) == {c \in DOMAIN CallsOf(ask) : CallsOf(ask)[c] = "known"}

(* A result stands behind the reply that asked for it, with only results of *)
(* earlier calls of the same reply in between, unless the messages were     *)
(* cleared since: APIs refuse a conversation whose results have no call     *)
(* (agent.cpp:286, 372-377).                                                *)
ResultsFollowTheirCalls ==
  \A i \in DOMAIN messages :
    messages[i].role = "tool" =>
      LET m == messages[i]
          before == messages[i - 1]
      IN \/ before.role \in {"calls", "tool"} /\ before.of = m.of /\ before.call < m.call
         \/ before.role = "system" /\ before.of >= m.of

(* Every call of a reply a tool can answer has a result in the history.     *)
Answered(i, c) ==
  \E j \in DOMAIN messages :
    /\ j > i
    /\ messages[j].role = "tool" /\ messages[j].of = messages[i].of /\ messages[j].call = c
AllAnswered(i) == \A c \in Answerable(messages[i].of) : Answered(i, c)

(* The request was cancelled, or stopped by an error or by the limit.       *)
CutOff(r) == r \in cancelled \/ \E n \in DOMAIN reports[r] : reports[r][n] = "failed"
LastRoundOf(r, i) ==
  /\ messages[i].by = r
  /\ \A j \in DOMAIN messages : j > i /\ messages[j].role = "calls" => messages[j].by # r

(* Whenever a completion is asked for, every reply in the history that is   *)
(* sent with it has a result for each call a tool can answer, unless it is  *)
(* the last reply of a request that was cut off (handleToolCallsAsync,      *)
(* agent.cpp:299-319).  The exception is what the code does: after a cancel *)
(* in mid-round, or after too many rounds, the calls that got no result     *)
(* stay in m_messages (agent.cpp:166-171, 286, 299-304), and every later    *)
(* request sends them.  Calls of tools the agent has not never get a        *)
(* result.                                                                  *)
UnansweredCallsWereCutOff ==
  [][asks' # asks =>
       \A i \in DOMAIN messages :
         messages[i].role = "calls" =>
           \/ AllAnswered(i)
           \/ \E r \in Requests : CutOff(r) /\ LastRoundOf(r, i)]_vars

(* Every request ends (requestAsync, agent.cpp:151), but one without a      *)
(* limit goes on as long as the model calls tools, as a test says           *)
(* (agentobservertest.cpp:396): it ends, or uses up the completions the     *)
(* bound allows.                                                            *)
EveryRequestEnds ==
  \A r \in Requests : request = r ~> request # r \/ (limit = Unlimited /\ asks = MaxUnlimited)
=============================================================================
