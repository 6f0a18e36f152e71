--------------------------- MODULE ClaudeRun_proofs ---------------------------
(***************************************************************************)
(* Proofs about ClaudeRun, for every number of asks and tool calls, with   *)
(* and without time limits.  NoAskLost is not inductive: that a callback   *)
(* is never overwritten rests on the stage, the stage on the processes and *)
(* their pipes.  The parts below say how these hang together.              *)
(***************************************************************************)
EXTENDS ClaudeRun, TLAPS

(* What a CLI has written: its calls are its own and each is written once; *)
(* a CLI whose session is missing never made a call.                       *)
PipesInOrder ==
  \A p \in Procs :
    /\ phase[p] = "booting" => called[p] = {}
    /\ status[p] \in {"unborn", "failed"} => called[p] = {} /\ pipe[p] = << >>
    /\ \A i \in 1..Len(pipe[p]) :
         /\ pipe[p][i] \in Calls => pipe[p][i] \in called[p] /\ <<p, pipe[p][i]>> \notin heard
         /\ pipe[p][i] = "missing" => phase[p] = "finished" /\ called[p] = {}
    /\ \A i, j \in 1..Len(pipe[p]) : i # j /\ pipe[p][i] \in Calls => pipe[p][i] # pipe[p][j]
    /\ \A c \in Calls : <<p, c>> \in heard => c \in called[p]

(* The processes of a run: only the current one can be alive, and later    *)
(* ones do not exist yet.  A second process means the run was reseeded.    *)
ProcessesInOrder ==
  /\ \A p \in Procs : status[p] = "up" => p = process
  /\ ~down => \A p \in Procs : status[p] = "unborn" <=> p > process
  /\ down => process = 0
  /\ mode = "Resume" => status[2] = "unborn"
  /\ stage = "Idle" => process = 0
  /\ stage # "Idle" /\ ~down /\ process = 0 => stage = "Finished"
  /\ pump \in {"drain", "end"} => process # 0 /\ status[process] = "dead" /\ ~down

(* The callback is held exactly while the run is Running.                  *)
CallbackInStep ==
  /\ callback <= asks
  /\ stage = "Running" /\ ~down <=> callback # 0
  /\ \A a \in Asks : Len(replies[a]) <= 1
  /\ \A a \in Asks : a > asks => replies[a] = << >>
  /\ ~down => \A a \in Asks : a <= asks => (replies[a] = << >> <=> a = callback)

(* While the run is on, its timers are armed, its process has not ended    *)
(* for good, and the calls it waits for are calls its process made.        *)
RunInStep ==
  /\ stage \in {"Running", "AwaitingTools"} /\ ~down =>
       /\ HardLimit => hardTimer
       /\ process # 0
       /\ status[process] \in {"up", "failed", "dead"}
  /\ stage = "Running" /\ ~down /\ IdleLimit => idleTimer
  /\ stage \in {"Idle", "Running"} => awaiting = {}
  /\ parsed => stage = "Finished"
  /\ stage = "AwaitingTools" => awaiting # {}
  /\ stage # "Finished" /\ ~down => \A c \in queued \cup awaiting : <<process, c>> \in heard

(* An answer was called back, or waits for an ask.                         *)
AnswerKnown == outcome = "answer" \/ \E a \in Asks : Received(a, "answer")
Named == IF mode = "Resume" THEN "given" ELSE "new"

(* No answer is known before the session is named: the line that names it  *)
(* stands before the answer in the pipe.                                   *)
SessionInStep ==
  /\ AnswerKnown => parsed /\ sessionId = Named
  /\ status[2] # "unborn" => sessionId # "given"
  /\ \A p \in Procs : status[p] = "unborn" => phase[p] = "booting"
  /\ process # 0 /\ ~parsed /\ sessionId # Named =>
       /\ phase[process] = "ready" =>
            \E j \in 1..Len(pipe[process]) : pipe[process][j] = "init"
       /\ \A i \in 1..Len(pipe[process]) :
            pipe[process][i] = "answer" => \E j \in 1..i-1 : pipe[process][j] = "init"

IInv ==
  /\ TypeOK
  /\ PipesInOrder
  /\ ProcessesInOrder
  /\ CallbackInStep
  /\ RunInStep
  /\ ToolCallsConserved
  /\ SessionInStep

-----------------------------------------------------------------------------
(* Facts about the operators the actions are built from.                   *)

LEMMA ReplyFacts ==
  /\ "tool_calls" \in Replies
  /\ \A r \in {"answer", "server_error", "network_error", "timeout", "not_logged_in"} :
       r \in Replies
BY DEF Replies, Outcomes, Failures

LEMMA KilledType ==
  ASSUME TypeOK, NEW p
  PROVE  /\ Killed(p) \in [Procs -> Statuses]
         /\ \A q \in Procs : Killed(p)[q] = IF q = p /\ status[q] = "up" THEN "dead" ELSE status[q]
BY DEF TypeOK, CliTypeOK, Killed, Statuses

(* A callback gets one more completion and is let go.                      *)
LEMMA RepliesAppend ==
  ASSUME TypeOK, NEW a \in Asks, NEW reply \in Replies,
         replies' = [replies EXCEPT ![a] = Append(@, reply)]
  PROVE  /\ replies' \in [Asks -> Seq(Replies)]
         /\ Len(replies'[a]) = Len(replies[a]) + 1
         /\ \A b \in Asks : b # a => replies'[b] = replies[b]
BY DEF TypeOK

LEMMA DeliverType ==
  ASSUME TypeOK, NEW cb \in 0..MaxAsks, NEW reply \in Replies, Deliver(cb, reply)
  PROVE  /\ callback' = 0
         /\ outcome' \in Replies \cup {"none"}
         /\ replies' \in [Asks -> Seq(Replies)]
<1>1. CASE cb = 0
  BY <1>1 DEF Deliver, TypeOK
<1>2. CASE cb # 0
  <2>1. cb \in Asks
    BY <1>2, MaxAsksAssumption DEF Asks
  <2> QED
    BY <1>2, <2>1, RepliesAppend DEF Deliver, TypeOK
<1> QED
  BY <1>1, <1>2

LEMMA NoCallback == 0 \in 0..MaxAsks
BY MaxAsksAssumption

LEMMA NextAskFacts ==
  ASSUME TypeOK, NextAsk
  PROVE  asks + 1 \in Asks /\ asks + 1 \in 0..MaxAsks /\ asks + 1 # 0
         /\ asks' = asks + 1 /\ ~down
BY MaxAsksAssumption DEF TypeOK, NextAsk, Asks

LEMMA SpawnType ==
  ASSUME TypeOK, process \in {0, 1}, NEW plan \in Modes, NEW running \in BOOLEAN,
         Spawn(plan, running)
  PROVE  /\ process' = process + 1
         /\ process' \in Procs
         /\ status' \in [Procs -> Statuses]
         /\ status'[process'] \in {"up", "failed"}
         /\ \A q \in Procs : q # process' => status'[q] = Killed(process)[q]
         /\ mode' = plan
         /\ sessionId' \in SessionIds
         /\ parsed' = FALSE
         /\ queued' = {}
         /\ fed' \in SUBSET Procs
         /\ idleTimer' \in BOOLEAN
<1>1. PICK started \in {"up", "failed"} :
        status' = [Killed(process) EXCEPT ![process + 1] = started]
  BY DEF Spawn, Retired
<1>2. process + 1 \in Procs
  BY DEF Procs
<1>3. status' \in [Procs -> Statuses] /\ status'[process + 1] = started
  BY <1>1, <1>2, KilledType DEF Statuses
<1> QED
  BY <1>1, <1>2, <1>3, KilledType, LimitsAssumption
     DEF Spawn, IdFor, TypeOK, CliTypeOK, SessionIds, IdleRestarted

LEMMA FlushType ==
  ASSUME TypeOK, NEW q \in SUBSET Calls, NEW timer \in BOOLEAN, FlushToolCalls(q, timer)
  PROVE  /\ stage' \in Stages
         /\ idleTimer' \in BOOLEAN
         /\ queued' \in SUBSET Calls
         /\ awaiting' \in SUBSET Calls
         /\ callback' \in 0..MaxAsks
         /\ outcome' \in Replies \cup {"none"}
         /\ replies' \in [Asks -> Seq(Replies)]
<1>1. CASE stage = "Running" /\ q # {}
  <2>1. Deliver(callback, "tool_calls") /\ callback \in 0..MaxAsks
    BY <1>1 DEF FlushToolCalls, Flushes, TypeOK
  <2>2. /\ callback' \in 0..MaxAsks
        /\ outcome' \in Replies \cup {"none"}
        /\ replies' \in [Asks -> Seq(Replies)]
    BY <2>1, DeliverType, ReplyFacts, MaxAsksAssumption
  <2> QED
    BY <1>1, <2>2 DEF FlushToolCalls, Flushes, Stages
<1>2. CASE ~(stage = "Running" /\ q # {})
  BY <1>2 DEF FlushToolCalls, Flushes, TypeOK
<1> QED
  BY <1>1, <1>2

LEMMA EndLineType ==
  ASSUME TypeOK, NEW q \in SUBSET Calls, NEW last \in BOOLEAN, EndLine(q, last)
  PROVE  /\ stage' \in Stages
         /\ idleTimer' \in BOOLEAN
         /\ queued' \in SUBSET Calls
         /\ awaiting' \in SUBSET Calls
         /\ callback' \in 0..MaxAsks
         /\ outcome' \in Replies \cup {"none"}
         /\ replies' \in [Asks -> Seq(Replies)]
<1>1. IdleAfterOutput \in BOOLEAN
  BY LimitsAssumption DEF IdleAfterOutput, IdleRestarted, TypeOK
<1> QED
  BY <1>1, FlushType DEF EndLine, TypeOK

LEMMA ConcludeType ==
  ASSUME TypeOK, NEW cb \in 0..MaxAsks, NEW reply \in Replies, NEW closing,
         Conclude(cb, reply, closing)
  PROVE  /\ stage' = "Finished"
         /\ idleTimer' = FALSE
         /\ status' \in [Procs -> Statuses]
         /\ callback' = 0
         /\ outcome' \in Replies \cup {"none"}
         /\ replies' \in [Asks -> Seq(Replies)]
BY DeliverType, KilledType DEF Conclude, TypeOK, CliTypeOK

(* Taking a line off the front of a pipe leaves the others in order.       *)
LEMMA TakeLineFacts ==
  ASSUME TypeOK, NEW line, NEW last, TakeLine(line, last)
  PROVE  /\ process \in Procs
         /\ pipe[process] \in Seq(Lines) /\ pipe[process] # << >>
         /\ line = pipe[process][1] /\ line \in Lines
         /\ pipe' \in [Procs -> Seq(Lines)]
         /\ \A p \in Procs : p # process => pipe'[p] = pipe[p]
         /\ Len(pipe'[process]) = Len(pipe[process]) - 1
         /\ \A i \in 1..Len(pipe'[process]) : pipe'[process][i] = pipe[process][i + 1]
<1>1. process \in Procs
  BY DEF TypeOK, TakeLine, Procs
<1>2. pipe[process] \in Seq(Lines) /\ pipe[process] # << >>
  BY <1>1 DEF TypeOK, CliTypeOK, TakeLine
<1>3. pipe'[process] = Tail(pipe[process]) /\ pipe' \in [Procs -> Seq(Lines)]
  BY <1>1, <1>2 DEF TypeOK, CliTypeOK, TakeLine
<1>4. \A p \in Procs : p # process => pipe'[p] = pipe[p]
  BY DEF TypeOK, CliTypeOK, TakeLine
<1> QED
  BY <1>1, <1>2, <1>3, <1>4 DEF TakeLine

-----------------------------------------------------------------------------
(* The steps of the CLI, and the cases of Next.                            *)

LEMMA WriteFacts ==
  ASSUME CliTypeOK, NEW p \in Procs, NEW line \in Lines, Write(p, line)
  PROVE  /\ status[p] = "up" /\ status' = status /\ fed' = fed
         /\ pipe' \in [Procs -> Seq(Lines)]
         /\ \A q \in Procs : q # p => pipe'[q] = pipe[q]
         /\ pipe[p] \in Seq(Lines)
         /\ Len(pipe'[p]) = Len(pipe[p]) + 1
         /\ pipe'[p][Len(pipe[p]) + 1] = line
         /\ \A i \in 1..Len(pipe[p]) : pipe'[p][i] = pipe[p][i]
<1>1. pipe[p] \in Seq(Lines) /\ pipe' = [pipe EXCEPT ![p] = Append(pipe[p], line)]
  BY DEF CliTypeOK, Write
<1> QED
  BY <1>1 DEF CliTypeOK, Write

LEMMA LineFacts ==
  /\ \A s \in {"init", "text", "answer", "failure", "missing"} : s \in Lines /\ s \notin Calls
  /\ \A c \in Calls : c \in Lines
BY CallsAssumption DEF Lines, Signals

LEMMA CliTypeStep == CliTypeOK /\ CliNext => CliTypeOK'
<1> SUFFICES ASSUME CliTypeOK, NEW p \in Procs,
                    \/ CliReady(p) \/ CliText(p) \/ (\E c \in Calls : CliCall(p, c))
                    \/ CliAnswer(p) \/ CliFailure(p) \/ CliMissing(p) \/ CliExit(p)
             PROVE  CliTypeOK'
  BY DEF CliNext
<1> USE LineFacts
<1>1. CASE CliReady(p)
  BY <1>1, WriteFacts DEF CliReady, CliTypeOK, Phases
<1>2. CASE CliText(p)
  BY <1>2, WriteFacts DEF CliText, CliTypeOK
<1>3. ASSUME NEW c \in Calls, CliCall(p, c) PROVE CliTypeOK'
  BY <1>3, WriteFacts DEF CliCall, CliTypeOK
<1>4. CASE CliAnswer(p)
  BY <1>4, WriteFacts DEF CliAnswer, CliTypeOK, Phases
<1>5. CASE CliFailure(p)
  BY <1>5, WriteFacts DEF CliFailure, CliTypeOK, Phases
<1>6. CASE CliMissing(p)
  BY <1>6, WriteFacts DEF CliMissing, CliTypeOK, Phases
<1>7. CASE CliExit(p)
  BY <1>7 DEF CliExit, CliTypeOK, Statuses
<1> QED
  BY <1>1, <1>2, <1>3, <1>4, <1>5, <1>6, <1>7

LEMMA StepCases ==
  ASSUME [Next]_vars
  PROVE  \/ RefuseAsk \/ BeginWithoutProgram \/ Begin \/ AskWithoutResults
         \/ AskWithResults \/ AskFinished \/ Shutdown
         \/ \E last \in BOOLEAN : ReadInit(last) \/ ReadText(last) \/ ReadResult(last)
                                 \/ ReadMissing(last)
         \/ \E last \in BOOLEAN, c \in Calls : ReadCall(c, last)
         \/ Reseed \/ ProcessFinished \/ DrainEnds \/ StreamEnds \/ StartFailed
         \/ IdleTimeout \/ HardTimeout
         \/ Cli
         \/ UNCHANGED vars
BY DEF Next, Application, EventLoop, ReadLine

-----------------------------------------------------------------------------
(* Type correctness.  That a second process is the last one is part of     *)
(* ProcessesInOrder, so the types are preserved under IInv.                *)
LEMMA TypeStep == IInv /\ [Next]_vars => TypeOK'
<1> SUFFICES ASSUME IInv, [Next]_vars PROVE TypeOK'
  OBVIOUS
<1>t. TypeOK
  BY DEF IInv
<1> USE ReplyFacts
<1>1. CASE RefuseAsk
  <2>1. replies' \in [Asks -> Seq(Replies)] /\ asks' \in 0..MaxAsks
    BY <1>1, <1>t, NextAskFacts, RepliesAppend DEF RefuseAsk
  <2> QED
    BY <1>1, <1>t, <2>1 DEF RefuseAsk, TypeOK, CliTypeOK, cliVars, runVars
<1>2. CASE BeginWithoutProgram
  <2>1. asks + 1 \in 0..MaxAsks /\ asks' \in 0..MaxAsks
    BY <1>2, <1>t, NextAskFacts DEF BeginWithoutProgram
  <2>2. Conclude(asks + 1, "network_error", "Graceful")
    BY <1>2 DEF BeginWithoutProgram
  <2>3. stage' = "Finished" /\ idleTimer' = FALSE /\ callback' \in 0..MaxAsks
       /\ status' \in [Procs -> Statuses]
       /\ outcome' \in Replies \cup {"none"} /\ replies' \in [Asks -> Seq(Replies)]
    BY <1>t, <2>1, <2>2, ConcludeType, NoCallback
  <2> QED
    BY <1>2, <1>t, <2>1, <2>3 DEF BeginWithoutProgram, TypeOK, CliTypeOK, Stages
<1>3. CASE Begin
  <2>1. asks + 1 \in 0..MaxAsks /\ asks' \in 0..MaxAsks
    BY <1>3, <1>t, NextAskFacts DEF Begin
  <2>2. process = 0 /\ PlanFor(FALSE) \in Modes /\ Spawn(PlanFor(FALSE), TRUE)
    BY <1>3 DEF Begin, IInv, ProcessesInOrder, PlanFor, Modes
  <2>3. /\ process' \in Procs /\ status' \in [Procs -> Statuses] /\ mode' \in Modes
        /\ sessionId' \in SessionIds /\ parsed' = FALSE /\ queued' = {}
        /\ fed' \in SUBSET Procs /\ idleTimer' \in BOOLEAN
    BY <1>t, <2>2, SpawnType
  <2>4. process' \in 0..2
    BY <2>3 DEF Procs
  <2>5. stage' \in Stages /\ callback' \in 0..MaxAsks /\ hardTimer' \in BOOLEAN
    BY <1>3, <2>1, LimitsAssumption DEF Begin, HardStarted, Stages
  <2> QED
    BY <1>3, <1>t, <2>1, <2>3, <2>4, <2>5 DEF Begin, TypeOK, CliTypeOK
<1>4. CASE AskWithoutResults
  <2>1. asks + 1 \in 0..MaxAsks /\ asks' \in 0..MaxAsks
    BY <1>4, <1>t, NextAskFacts DEF AskWithoutResults
  <2>2. Conclude(asks + 1, "server_error", "Kill")
    BY <1>4 DEF AskWithoutResults
  <2>3. stage' = "Finished" /\ idleTimer' = FALSE /\ callback' \in 0..MaxAsks
       /\ status' \in [Procs -> Statuses]
       /\ outcome' \in Replies \cup {"none"} /\ replies' \in [Asks -> Seq(Replies)]
    BY <1>t, <2>1, <2>2, ConcludeType, NoCallback
  <2> QED
    BY <1>4, <1>t, <2>1, <2>3 DEF AskWithoutResults, TypeOK, CliTypeOK, Stages
<1>5. CASE AskWithResults
  <2>1. asks + 1 \in 0..MaxAsks /\ asks' \in 0..MaxAsks
    BY <1>5, <1>t, NextAskFacts DEF AskWithResults
  <2>2. process \in Procs
    BY <1>5, <1>t DEF AskWithResults, NextAsk, IInv, RunInStep, TypeOK, Procs
  <2>3. answered' \in SUBSET (Procs \X Calls)
    BY <1>5, <1>t, <2>2 DEF AskWithResults, TypeOK
  <2>4. /\ stage' \in Stages
        /\ idleTimer' \in BOOLEAN
        /\ callback' \in 0..MaxAsks
        /\ outcome' \in Replies \cup {"none"}
        /\ replies' \in [Asks -> Seq(Replies)]
    <3>1. CASE queued = {}
      BY <1>5, <1>t, <2>1, <3>1, LimitsAssumption
         DEF AskWithResults, TypeOK, Stages, IdleRestarted
    <3>2. CASE queued # {}
      <4>1. Deliver(asks + 1, "tool_calls")
        BY <1>5, <3>2 DEF AskWithResults
      <4>2. /\ callback' \in 0..MaxAsks
            /\ outcome' \in Replies \cup {"none"}
            /\ replies' \in [Asks -> Seq(Replies)]
        BY <1>t, <2>1, <4>1, DeliverType, NoCallback
      <4> QED
        BY <1>5, <3>2, <4>2 DEF AskWithResults, Stages
    <3> QED
      BY <3>1, <3>2
  <2> QED
    BY <1>5, <1>t, <2>1, <2>3, <2>4 DEF AskWithResults, TypeOK, CliTypeOK, cliVars
<1>6. CASE AskFinished
  <2>1. asks + 1 \in Asks /\ asks' \in 0..MaxAsks
    BY <1>6, <1>t, NextAskFacts DEF AskFinished
  <2>2. (IF outcome = "none" THEN "server_error" ELSE outcome) \in Replies
    BY <1>t DEF TypeOK
  <2>3. replies' \in [Asks -> Seq(Replies)]
    BY <1>6, <1>t, <2>1, <2>2, RepliesAppend DEF AskFinished
  <2> QED
    BY <1>6, <1>t, <2>1, <2>3, MaxAsksAssumption
       DEF AskFinished, TypeOK, CliTypeOK, cliVars
<1>7. CASE Shutdown
  <2>1. status' \in [Procs -> Statuses]
    BY <1>7, <1>t, KilledType DEF Shutdown, Retired
  <2>2. callback' \in 0..MaxAsks /\ process' \in 0..2
    BY <1>7, NoCallback DEF Shutdown
  <2> QED
    BY <1>7, <1>t, <2>1, <2>2 DEF Shutdown, TypeOK, CliTypeOK, historyVars
<1>8. CASE Reseed
  <2>1. PICK last \in BOOLEAN : TakeLine("missing", last)
    BY <1>8 DEF Reseed
  <2>2. process \in {0, 1}
    BY <1>8, <1>t DEF Reseed, TakeLine, IInv, ProcessesInOrder, TypeOK, Procs
  <2>3. PlanFor(TRUE) \in Modes /\ Spawn(PlanFor(TRUE), stage = "Running")
    BY <1>8 DEF Reseed, PlanFor, Modes
  <2>4. pipe' \in [Procs -> Seq(Lines)]
    BY <1>t, <2>1, TakeLineFacts
  <2>5. /\ process' \in Procs /\ status' \in [Procs -> Statuses] /\ mode' \in Modes
        /\ sessionId' \in SessionIds /\ parsed' = FALSE /\ queued' = {}
        /\ fed' \in SUBSET Procs /\ idleTimer' \in BOOLEAN
    BY <1>t, <2>2, <2>3, SpawnType
  <2>6. process' \in 0..2
    BY <2>5 DEF Procs
  <2> QED
    BY <1>8, <1>t, <2>4, <2>5, <2>6 DEF Reseed, TypeOK, CliTypeOK
<1>9. ASSUME NEW last \in BOOLEAN, ReadInit(last) PROVE TypeOK'
  <2>1. TakeLine("init", last) /\ EndLine(queued, last)
    BY <1>9 DEF ReadInit
  <2> QED
    BY <1>9, <1>t, <2>1, TakeLineFacts, EndLineType
       DEF ReadInit, TypeOK, CliTypeOK, Pumping, SessionIds
<1>10. ASSUME NEW last \in BOOLEAN, ReadText(last) PROVE TypeOK'
  <2>1. PICK line \in Lines : TakeLine(line, last)
    BY <1>10 DEF ReadText
  <2>2. EndLine(queued, last)
    BY <1>10 DEF ReadText
  <2> QED
    BY <1>10, <1>t, <2>1, <2>2, TakeLineFacts, EndLineType
       DEF ReadText, TypeOK, CliTypeOK, Pumping
<1>11. ASSUME NEW last \in BOOLEAN, NEW c \in Calls, ReadCall(c, last) PROVE TypeOK'
  <2>1. TakeLine(c, last) /\ EndLine(queued \cup {c}, last)
    BY <1>11 DEF ReadCall
  <2>2. process \in Procs /\ pipe' \in [Procs -> Seq(Lines)]
    BY <1>t, <2>1, TakeLineFacts
  <2>3. heard' \in SUBSET (Procs \X Calls) /\ queued \cup {c} \in SUBSET Calls
    BY <1>11, <1>t, <2>2 DEF ReadCall, TypeOK
  <2> QED
    BY <1>11, <1>t, <2>1, <2>2, <2>3, EndLineType
       DEF ReadCall, TypeOK, CliTypeOK, Pumping
<1>12. ASSUME NEW last \in BOOLEAN, ReadResult(last) PROVE TypeOK'
  <2>1. PICK reply \in {"answer", "server_error", "not_logged_in"} :
          /\ TakeLine(IF reply = "answer" THEN "answer" ELSE "failure", last)
          /\ Conclude(callback, reply, "Graceful")
    BY <1>12 DEF ReadResult
  <2>2. callback \in 0..MaxAsks
    BY <1>t DEF TypeOK
  <2>3. stage' = "Finished" /\ idleTimer' = FALSE /\ callback' \in 0..MaxAsks
       /\ status' \in [Procs -> Statuses]
       /\ outcome' \in Replies \cup {"none"} /\ replies' \in [Asks -> Seq(Replies)]
    BY <1>t, <2>1, <2>2, ConcludeType, NoCallback
  <2>4. pipe' \in [Procs -> Seq(Lines)]
    BY <1>t, <2>1, TakeLineFacts
  <2> QED
    BY <1>12, <1>t, <2>3, <2>4 DEF ReadResult, TypeOK, CliTypeOK, Pumping, Stages
<1>13. ASSUME NEW last \in BOOLEAN, ReadMissing(last) PROVE TypeOK'
  <2>1. TakeLine("missing", last) /\ Conclude(callback, "server_error", "Kill")
    BY <1>13 DEF ReadMissing
  <2>2. callback \in 0..MaxAsks
    BY <1>t DEF TypeOK
  <2>3. stage' = "Finished" /\ idleTimer' = FALSE /\ callback' \in 0..MaxAsks
       /\ status' \in [Procs -> Statuses]
       /\ outcome' \in Replies \cup {"none"} /\ replies' \in [Asks -> Seq(Replies)]
    BY <1>t, <2>1, <2>2, ConcludeType, NoCallback
  <2>4. pipe' \in [Procs -> Seq(Lines)]
    BY <1>t, <2>1, TakeLineFacts
  <2> QED
    BY <1>13, <1>t, <2>3, <2>4 DEF ReadMissing, TypeOK, CliTypeOK, Pumping, Stages
<1>14. CASE ProcessFinished
  BY <1>14, <1>t DEF ProcessFinished, TypeOK, CliTypeOK, historyVars, Statuses
<1>15. CASE DrainEnds
  <2>1. queued \in SUBSET Calls /\ idleTimer \in BOOLEAN /\ FlushToolCalls(queued, idleTimer)
    BY <1>15, <1>t DEF DrainEnds, TypeOK
  <2> QED
    BY <1>15, <1>t, <2>1, FlushType DEF DrainEnds, TypeOK, CliTypeOK, cliVars
<1>16. CASE StreamEnds
  <2>1. callback \in 0..MaxAsks
    BY <1>t DEF TypeOK
  <2>2. stage' \in Stages /\ callback' \in 0..MaxAsks
       /\ outcome' \in Replies \cup {"none"} /\ replies' \in [Asks -> Seq(Replies)]
    <3>1. CASE stage = "Finished" \/ parsed
      BY <1>16, <1>t, <3>1 DEF StreamEnds, TypeOK
    <3>2. CASE ~(stage = "Finished" \/ parsed)
      <4>1. stage' = "Finished" /\ Deliver(callback, "server_error")
        BY <1>16, <3>2 DEF StreamEnds
      <4> QED
        BY <1>t, <2>1, <4>1, DeliverType, NoCallback DEF Stages
    <3> QED
      BY <3>1, <3>2
  <2> QED
    BY <1>16, <1>t, <2>2 DEF StreamEnds, TypeOK, CliTypeOK, Statuses
<1>17. CASE StartFailed
  <2>1. callback \in 0..MaxAsks
    BY <1>t DEF TypeOK
  <2>2. stage' \in Stages /\ idleTimer' \in BOOLEAN /\ callback' \in 0..MaxAsks
       /\ outcome' \in Replies \cup {"none"} /\ replies' \in [Asks -> Seq(Replies)]
    <3>1. CASE stage # "Running"
      BY <1>17, <1>t, <3>1 DEF StartFailed, TypeOK
    <3>2. CASE stage = "Running"
      <4>1. stage' = "Finished" /\ idleTimer' = FALSE /\ Deliver(callback, "network_error")
        BY <1>17, <3>2 DEF StartFailed
      <4> QED
        BY <1>t, <2>1, <4>1, DeliverType, NoCallback DEF Stages
    <3> QED
      BY <3>1, <3>2
  <2> QED
    BY <1>17, <1>t, <2>2 DEF StartFailed, TypeOK, CliTypeOK, Statuses
<1>18. CASE IdleTimeout
  <2>1. callback \in 0..MaxAsks
    BY <1>t DEF TypeOK
  <2>2. stage' \in Stages /\ idleTimer' \in BOOLEAN /\ callback' \in 0..MaxAsks
       /\ status' \in [Procs -> Statuses]
       /\ outcome' \in Replies \cup {"none"} /\ replies' \in [Asks -> Seq(Replies)]
    <3>1. CASE stage = "Running"
      <4>1. Conclude(callback, "timeout", "Kill")
        BY <1>18, <3>1 DEF IdleTimeout
      <4> QED
        BY <1>t, <2>1, <4>1, ConcludeType, NoCallback DEF Stages
    <3>2. CASE ~(stage = "Running")
      BY <1>18, <1>t, <3>2 DEF IdleTimeout, TypeOK, CliTypeOK
    <3> QED
      BY <3>1, <3>2
  <2> QED
    BY <1>18, <1>t, <2>2 DEF IdleTimeout, TypeOK, CliTypeOK
<1>19. CASE HardTimeout
  <2>1. callback \in 0..MaxAsks
    BY <1>t DEF TypeOK
  <2>2. stage' \in Stages /\ idleTimer' \in BOOLEAN /\ callback' \in 0..MaxAsks
       /\ status' \in [Procs -> Statuses]
       /\ outcome' \in Replies \cup {"none"} /\ replies' \in [Asks -> Seq(Replies)]
    <3>1. CASE stage # "Finished"
      <4>1. Conclude(callback, "timeout", "Kill")
        BY <1>19, <3>1 DEF HardTimeout
      <4> QED
        BY <1>t, <2>1, <4>1, ConcludeType, NoCallback DEF Stages
    <3>2. CASE ~(stage # "Finished")
      BY <1>19, <1>t, <3>2, KilledType DEF HardTimeout, TypeOK, CliTypeOK
    <3> QED
      BY <3>1, <3>2
  <2> QED
    BY <1>19, <1>t, <2>2 DEF HardTimeout, TypeOK, CliTypeOK
<1>20. CASE Cli
  BY <1>20, <1>t, CliTypeStep DEF Cli, TypeOK, runVars, historyVars
<1>21. CASE UNCHANGED vars
  BY <1>21, <1>t DEF vars, cliVars, runVars, historyVars, TypeOK, CliTypeOK
<1> QED
  BY <1>1, <1>2, <1>3, <1>4, <1>5, <1>6, <1>7, <1>8, <1>9, <1>10, <1>11, <1>12, <1>13,
     <1>14, <1>15, <1>16, <1>17, <1>18, <1>19, <1>20, <1>21, StepCases

(* What a step does to the status of a process.                            *)
LEMMA StatusStep ==
  ASSUME IInv, [Next]_vars, NEW p \in Procs
  PROVE  \/ status'[p] = status[p]
         \/ status[p] = "up" /\ status'[p] = "dead"
         \/ p = process /\ status[p] \in {"dead", "failed"} /\ status'[p] = "gone"
         \/ /\ p = process + 1 /\ process' = p
            /\ status[p] = "unborn" /\ status'[p] \in {"up", "failed"}
<1>t. TypeOK /\ ProcessesInOrder
  BY DEF IInv
<1>k. \A q : Killed(q)[p] = status[p] \/ (status[p] = "up" /\ Killed(q)[p] = "dead")
  BY <1>t, KilledType
<1>1. CASE RefuseAsk \/ AskWithResults \/ AskFinished \/ DrainEnds
  BY <1>1 DEF RefuseAsk, AskWithResults, AskFinished, DrainEnds, cliVars
<1>2. CASE BeginWithoutProgram \/ AskWithoutResults
  BY <1>2, <1>k DEF BeginWithoutProgram, AskWithoutResults, Conclude
<1>3. CASE Begin
  <2>1. process = 0 /\ PlanFor(FALSE) \in Modes /\ Spawn(PlanFor(FALSE), TRUE) /\ ~down
    BY <1>3, <1>t DEF Begin, NextAsk, ProcessesInOrder, PlanFor, Modes
  <2>2. /\ process' = process + 1 /\ status'[process'] \in {"up", "failed"}
        /\ \A q \in Procs : q # process' => status'[q] = Killed(process)[q]
    BY <1>t, <2>1, SpawnType
  <2>3. status[process + 1] = "unborn"
    BY <1>t, <2>1 DEF ProcessesInOrder, Procs
  <2> QED
    BY <1>k, <2>2, <2>3
<1>4. CASE Shutdown
  BY <1>4, <1>k DEF Shutdown, Retired
<1>5. CASE \E last \in BOOLEAN : ReadInit(last) \/ ReadText(last) \/ ReadResult(last)
                                 \/ ReadMissing(last)
  BY <1>5, <1>k DEF ReadInit, ReadText, ReadResult, ReadMissing, Conclude
<1>6. CASE \E last \in BOOLEAN, c \in Calls : ReadCall(c, last)
  BY <1>6 DEF ReadCall
<1>7. CASE Reseed
  <2>1. process \in {0, 1} /\ PlanFor(TRUE) \in Modes /\ ~down
        /\ Spawn(PlanFor(TRUE), stage = "Running")
    BY <1>7, <1>t DEF Reseed, TakeLine, ProcessesInOrder, TypeOK, Procs, PlanFor, Modes
  <2>2. /\ process' = process + 1 /\ status'[process'] \in {"up", "failed"}
        /\ \A q \in Procs : q # process' => status'[q] = Killed(process)[q]
    BY <1>t, <2>1, SpawnType
  <2>3. status[process + 1] = "unborn"
    BY <1>t, <2>1 DEF ProcessesInOrder, Procs
  <2> QED
    BY <1>k, <2>2, <2>3
<1>8. CASE ProcessFinished
  BY <1>8, <1>t DEF ProcessFinished, TypeOK, CliTypeOK
<1>9. CASE StreamEnds
  BY <1>9, <1>t DEF StreamEnds, ProcessesInOrder, TypeOK, CliTypeOK
<1>10. CASE StartFailed
  BY <1>10, <1>t DEF StartFailed, TypeOK, CliTypeOK
<1>11. CASE IdleTimeout \/ HardTimeout
  BY <1>11, <1>k DEF IdleTimeout, HardTimeout, Conclude
<1>12. CASE Cli
  <2>1. PICK q \in Procs : status' = status \/ CliExit(q)
    BY <1>12 DEF Cli, CliNext, CliReady, CliText, CliCall, CliAnswer, CliFailure,
                 CliMissing, Write, Procs
  <2> QED
    BY <2>1, <1>t DEF CliExit, TypeOK, CliTypeOK
<1>13. CASE UNCHANGED vars
  BY <1>13 DEF vars, cliVars
<1> QED
  BY <1>1, <1>2, <1>3, <1>4, <1>5, <1>6, <1>7, <1>8, <1>9, <1>10, <1>11, <1>12, <1>13,
     StepCases

-----------------------------------------------------------------------------
(* The pipes: steps that leave them alone, take a line, or write one.      *)
LEMMA PipesKept ==
  ASSUME IInv, [Next]_vars, UNCHANGED <<phase, pipe, called, heard>>
  PROVE  PipesInOrder'
<1>1. \A p \in Procs : status'[p] \in {"unborn", "failed"} => status[p] \in {"unborn", "failed"}
  BY StatusStep
<1> QED
  BY <1>1 DEF IInv, PipesInOrder

LEMMA PipesShorter ==
  ASSUME IInv, [Next]_vars, NEW line, NEW last, TakeLine(line, last),
         UNCHANGED <<phase, called>>,
         heard' = heard \/ (line \in Calls /\ heard' = heard \cup {<<process, line>>})
  PROVE  PipesInOrder'
<1>1. \A p \in Procs : status'[p] \in {"unborn", "failed"} => status[p] \in {"unborn", "failed"}
  BY StatusStep
<1>2. TypeOK /\ PipesInOrder
  BY DEF IInv
<1>3. /\ process \in Procs
      /\ pipe[process] \in Seq(Lines) /\ pipe[process] # << >>
      /\ line = pipe[process][1] /\ line \in Lines
      /\ \A p \in Procs : p # process => pipe'[p] = pipe[p]
      /\ Len(pipe'[process]) = Len(pipe[process]) - 1
      /\ \A i \in 1..Len(pipe'[process]) : pipe'[process][i] = pipe[process][i + 1]
      /\ pipe'[process] \in Seq(Lines)
  BY <1>2, TakeLineFacts
<1>4. status[process] \in {"up", "dead"}
  BY DEF TakeLine
<1>5. \A p \in Procs : \A i \in 1..Len(pipe'[p]) : \E k \in 1..Len(pipe[p]) :
        pipe'[p][i] = pipe[p][k] /\ (p = process => k = i + 1) /\ (p # process => k = i)
  <2> TAKE p \in Procs
  <2> TAKE i \in 1..Len(pipe'[p])
  <2>1. CASE p = process
    <3>1. i + 1 \in 1..Len(pipe[process]) /\ pipe'[p][i] = pipe[p][i + 1]
      BY <1>3, <2>1
    <3> QED
      BY <2>1, <3>1
  <2>2. CASE p # process
    <3>1. pipe'[p] = pipe[p]
      BY <1>3, <2>2
    <3> QED
      BY <2>2, <3>1
  <2> QED
    BY <2>1, <2>2
<1>6. Len(pipe[process]) >= 1 /\ 1 \in 1..Len(pipe[process])
  BY <1>3
<1> SUFFICES ASSUME NEW p \in Procs
             PROVE
    /\ phase'[p] = "booting" => called'[p] = {}
    /\ status'[p] \in {"unborn", "failed"} => called'[p] = {} /\ pipe'[p] = << >>
    /\ \A i \in 1..Len(pipe'[p]) :
         /\ pipe'[p][i] \in Calls => pipe'[p][i] \in called'[p] /\ <<p, pipe'[p][i]>> \notin heard'
         /\ pipe'[p][i] = "missing" => phase'[p] = "finished" /\ called'[p] = {}
    /\ \A i, j \in 1..Len(pipe'[p]) : i # j /\ pipe'[p][i] \in Calls => pipe'[p][i] # pipe'[p][j]
    /\ \A c \in Calls : <<p, c>> \in heard' => c \in called'[p]
  BY DEF PipesInOrder
<1>7. /\ phase'[p] = "booting" => called'[p] = {}
      /\ status'[p] \in {"unborn", "failed"} => called'[p] = {} /\ pipe'[p] = << >>
  BY <1>1, <1>2, <1>3, <1>4 DEF PipesInOrder
<1>8. \A i, j \in 1..Len(pipe'[p]) : i # j /\ pipe'[p][i] \in Calls => pipe'[p][i] # pipe'[p][j]
  <2> SUFFICES ASSUME NEW i \in 1..Len(pipe'[p]), NEW j \in 1..Len(pipe'[p]), i # j,
                      pipe'[p][i] \in Calls
               PROVE  pipe'[p][i] # pipe'[p][j]
    OBVIOUS
  <2>1. PICK k \in 1..Len(pipe[p]), l \in 1..Len(pipe[p]) :
          k # l /\ pipe'[p][i] = pipe[p][k] /\ pipe'[p][j] = pipe[p][l]
    BY <1>5
  <2> QED
    BY <1>2, <2>1 DEF PipesInOrder
<1>9. \A c \in Calls : <<p, c>> \in heard' => c \in called'[p]
  BY <1>2, <1>3, <1>6 DEF PipesInOrder
<1>10. ASSUME NEW i \in 1..Len(pipe'[p])
       PROVE  /\ pipe'[p][i] \in Calls =>
                   pipe'[p][i] \in called'[p] /\ <<p, pipe'[p][i]>> \notin heard'
              /\ pipe'[p][i] = "missing" => phase'[p] = "finished" /\ called'[p] = {}
  <2>1. PICK k \in 1..Len(pipe[p]) : pipe'[p][i] = pipe[p][k] /\ (p = process => k = i + 1)
    BY <1>5
  <2>2. pipe[p][k] \in Calls => pipe[p][k] \in called[p] /\ <<p, pipe[p][k]>> \notin heard
    BY <1>2, <2>1 DEF PipesInOrder
  <2>3. pipe[p][k] \in Calls /\ p = process => pipe[p][k] # line
    BY <1>2, <1>3, <1>6, <2>1 DEF PipesInOrder
  <2>4. pipe[p][k] = "missing" => phase[p] = "finished" /\ called[p] = {}
    BY <1>2, <2>1 DEF PipesInOrder
  <2> QED
    BY <2>1, <2>2, <2>3, <2>4
<1> QED
  BY <1>7, <1>8, <1>9, <1>10

LEMMA PipesLonger ==
  ASSUME TypeOK, PipesInOrder, NEW q \in Procs, NEW line \in Lines, Write(q, line),
         heard' = heard,
         \A p \in Procs : p # q => phase'[p] = phase[p] /\ called'[p] = called[p],
         phase'[q] # "booting", phase[q] # "finished",
         \/ line \notin Calls /\ called'[q] = called[q]
         \/ line \in Calls /\ line \notin called[q] /\ called'[q] = called[q] \cup {line},
         line = "missing" => phase'[q] = "finished" /\ called[q] = {}
  PROVE  PipesInOrder'
<1>1. /\ status[q] = "up" /\ status' = status
      /\ \A p \in Procs : p # q => pipe'[p] = pipe[p]
      /\ pipe[q] \in Seq(Lines)
      /\ Len(pipe'[q]) = Len(pipe[q]) + 1
      /\ pipe'[q][Len(pipe[q]) + 1] = line
      /\ \A i \in 1..Len(pipe[q]) : pipe'[q][i] = pipe[q][i]
  BY WriteFacts DEF TypeOK
<1>2. "missing" \notin Calls
  BY LineFacts
<1> SUFFICES ASSUME NEW p \in Procs
             PROVE
    /\ phase'[p] = "booting" => called'[p] = {}
    /\ status'[p] \in {"unborn", "failed"} => called'[p] = {} /\ pipe'[p] = << >>
    /\ \A i \in 1..Len(pipe'[p]) :
         /\ pipe'[p][i] \in Calls => pipe'[p][i] \in called'[p] /\ <<p, pipe'[p][i]>> \notin heard'
         /\ pipe'[p][i] = "missing" => phase'[p] = "finished" /\ called'[p] = {}
    /\ \A i, j \in 1..Len(pipe'[p]) : i # j /\ pipe'[p][i] \in Calls => pipe'[p][i] # pipe'[p][j]
    /\ \A c \in Calls : <<p, c>> \in heard' => c \in called'[p]
  BY DEF PipesInOrder
<1>3. CASE p # q
  <2>1. pipe'[p] = pipe[p] /\ phase'[p] = phase[p] /\ called'[p] = called[p]
    BY <1>1, <1>3
  <2> QED
    BY <1>1, <2>1 DEF PipesInOrder
<1>4. CASE p = q
  <2>1. /\ phase'[q] = "booting" => called'[q] = {}
        /\ status'[q] \in {"unborn", "failed"} => called'[q] = {} /\ pipe'[q] = << >>
        /\ \A c \in Calls : <<q, c>> \in heard' => c \in called'[q]
    BY <1>1 DEF PipesInOrder
  <2>2. \A i \in 1..Len(pipe[q]) :
          /\ pipe[q][i] \in Calls => pipe[q][i] \in called[q] /\ <<q, pipe[q][i]>> \notin heard
          /\ pipe[q][i] # "missing"
    BY DEF PipesInOrder
  <2>3. ASSUME NEW i \in 1..Len(pipe'[q])
        PROVE  /\ pipe'[q][i] \in Calls =>
                    pipe'[q][i] \in called'[q] /\ <<q, pipe'[q][i]>> \notin heard'
               /\ pipe'[q][i] = "missing" => phase'[q] = "finished" /\ called'[q] = {}
    <3>1. CASE i = Len(pipe[q]) + 1
      BY <1>1, <1>2, <3>1 DEF PipesInOrder
    <3>2. CASE i # Len(pipe[q]) + 1
      <4>1. i \in 1..Len(pipe[q])
        BY <1>1, <3>2
      <4> QED
        BY <1>1, <2>2, <4>1
    <3> QED
      BY <3>1, <3>2
  <2>4. ASSUME NEW i \in 1..Len(pipe'[q]), NEW j \in 1..Len(pipe'[q]), i # j,
               pipe'[q][i] \in Calls
        PROVE  pipe'[q][i] # pipe'[q][j]
    <3>1. CASE i = Len(pipe[q]) + 1
      <4>1. j \in 1..Len(pipe[q])
        BY <1>1, <2>4, <3>1
      <4> QED
        BY <1>1, <2>2, <2>4, <3>1, <4>1
    <3>2. CASE j = Len(pipe[q]) + 1
      <4>1. i \in 1..Len(pipe[q])
        BY <1>1, <2>4, <3>2
      <4> QED
        BY <1>1, <2>2, <2>4, <3>2, <4>1
    <3>3. CASE i # Len(pipe[q]) + 1 /\ j # Len(pipe[q]) + 1
      <4>1. i \in 1..Len(pipe[q]) /\ j \in 1..Len(pipe[q])
        BY <1>1, <3>3
      <4> QED
        BY <1>1, <2>4, <4>1 DEF PipesInOrder
    <3> QED
      BY <3>1, <3>2, <3>3
  <2> QED
    BY <1>4, <2>1, <2>3, <2>4
<1> QED
  BY <1>3, <1>4

LEMMA PipesCli == TypeOK /\ PipesInOrder /\ CliNext /\ heard' = heard => PipesInOrder'
<1> SUFFICES ASSUME TypeOK, PipesInOrder, heard' = heard, NEW p \in Procs,
                    \/ CliReady(p) \/ CliText(p) \/ (\E c \in Calls : CliCall(p, c))
                    \/ CliAnswer(p) \/ CliFailure(p) \/ CliMissing(p) \/ CliExit(p)
             PROVE  PipesInOrder'
  BY DEF CliNext
<1>t. phase \in [Procs -> Phases] /\ called \in [Procs -> SUBSET Calls]
      /\ status \in [Procs -> Statuses]
  BY DEF TypeOK, CliTypeOK
<1> USE LineFacts
<1>1. CASE CliReady(p)
  BY <1>1, <1>t, PipesLonger DEF CliReady
<1>2. CASE CliText(p)
  BY <1>2, <1>t, PipesLonger DEF CliText
<1>3. ASSUME NEW c \in Calls, CliCall(p, c) PROVE PipesInOrder'
  BY <1>3, <1>t, PipesLonger DEF CliCall
<1>4. CASE CliAnswer(p)
  BY <1>4, <1>t, PipesLonger DEF CliAnswer
<1>5. CASE CliFailure(p)
  BY <1>5, <1>t, PipesLonger DEF CliFailure
<1>6. CASE CliMissing(p)
  BY <1>6, <1>t, PipesLonger DEF CliMissing, PipesInOrder
<1>7. CASE CliExit(p)
  BY <1>7, <1>t DEF CliExit, PipesInOrder
<1> QED
  BY <1>1, <1>2, <1>3, <1>4, <1>5, <1>6, <1>7

LEMMA PipesStep == IInv /\ [Next]_vars => PipesInOrder'
<1> SUFFICES ASSUME IInv, [Next]_vars PROVE PipesInOrder'
  OBVIOUS
<1>t. TypeOK /\ PipesInOrder
  BY DEF IInv
<1>1. CASE RefuseAsk \/ AskWithResults \/ AskFinished \/ DrainEnds
  BY <1>1, PipesKept DEF RefuseAsk, AskWithResults, AskFinished, DrainEnds, cliVars
<1>2. CASE BeginWithoutProgram \/ AskWithoutResults \/ Begin
  BY <1>2, PipesKept DEF BeginWithoutProgram, AskWithoutResults, Begin
<1>3. CASE Shutdown
  BY <1>3, PipesKept DEF Shutdown, historyVars
<1>4. CASE ProcessFinished \/ StreamEnds \/ StartFailed \/ IdleTimeout \/ HardTimeout
  BY <1>4, PipesKept DEF ProcessFinished, StreamEnds, StartFailed, IdleTimeout, HardTimeout,
                         historyVars
<1>5. ASSUME NEW last \in BOOLEAN,
             ReadInit(last) \/ ReadText(last) \/ ReadResult(last) \/ ReadMissing(last)
      PROVE  PipesInOrder'
  <2>1. \E line : TakeLine(line, last)
    BY <1>5 DEF ReadInit, ReadText, ReadResult, ReadMissing
  <2>2. UNCHANGED <<phase, called, heard>>
    BY <1>5 DEF ReadInit, ReadText, ReadResult, ReadMissing
  <2> QED
    BY <2>1, <2>2, PipesShorter
<1>6. ASSUME NEW last \in BOOLEAN, NEW c \in Calls, ReadCall(c, last) PROVE PipesInOrder'
  BY <1>6, PipesShorter DEF ReadCall
<1>7. CASE Reseed
  BY <1>7, PipesShorter DEF Reseed
<1>8. CASE Cli
  BY <1>8, <1>t, PipesCli DEF Cli, historyVars
<1>9. CASE UNCHANGED vars
  BY <1>9, PipesKept DEF vars, cliVars, historyVars
<1> QED
  BY <1>1, <1>2, <1>3, <1>4, <1>5, <1>6, <1>7, <1>8, <1>9, StepCases

-----------------------------------------------------------------------------
(* The processes.                                                          *)
LEMMA ProcessesKept ==
  ASSUME IInv, [Next]_vars, UNCHANGED <<process, mode, down>>,
         stage' = stage \/ (stage' # "Idle" /\ (process = 0 => stage' = "Finished")),
         pump' \in {"drain", "end"} => pump' = pump \/ pump = "drain"
                                       \/ (process # 0 /\ ~down /\ status'[process] = "dead"),
         pump' \in {"drain", "end"} => status'[process] = status[process] \/ status'[process] = "dead"
  PROVE  ProcessesInOrder'
<1>1. TypeOK /\ ProcessesInOrder
  BY DEF IInv
<1>2. ASSUME NEW p \in Procs
      PROVE  /\ status'[p] = "up" => status[p] = "up"
             /\ status'[p] = "unborn" <=> status[p] = "unborn"
  <2>1. process # process + 1
    BY <1>1 DEF TypeOK
  <2> QED
    BY <2>1, StatusStep
<1>3. 2 \in Procs
  BY DEF Procs
<1> QED
  BY <1>1, <1>2, <1>3 DEF ProcessesInOrder

LEMMA ProcessesSpawn ==
  ASSUME IInv, process \in {0, 1}, ~down, UNCHANGED down, NEW plan \in Modes,
         NEW running \in BOOLEAN, Spawn(plan, running), stage' # "Idle",
         process = 1 => plan # "Resume", pump' \notin {"drain", "end"}
  PROVE  ProcessesInOrder'
<1>1. TypeOK /\ ProcessesInOrder
  BY DEF IInv
<1>2. /\ process' = process + 1 /\ process' \in Procs
      /\ status'[process'] \in {"up", "failed"}
      /\ \A q \in Procs : q # process' => status'[q] = Killed(process)[q]
      /\ mode' = plan
  BY <1>1, SpawnType
<1>3. \A q \in Procs : q # process' =>
        /\ status'[q] # "up"
        /\ status'[q] = "unborn" <=> status[q] = "unborn"
  BY <1>1, <1>2, KilledType DEF ProcessesInOrder
<1>4. ASSUME NEW p \in Procs
      PROVE  /\ status'[p] = "up" => p = process'
             /\ status'[p] = "unborn" <=> p > process'
  <2>1. status[p] = "unborn" <=> p > process
    BY <1>1 DEF ProcessesInOrder
  <2>2. CASE p = process'
    BY <1>2, <2>2 DEF Procs
  <2>3. CASE p # process'
    BY <1>2, <1>3, <2>1, <2>3 DEF Procs
  <2> QED
    BY <2>2, <2>3
<1>5. mode' = "Resume" => status'[2] = "unborn"
  BY <1>2, <1>4 DEF Procs
<1>6. process' # 0
  BY <1>2 DEF Procs
<1> QED
  BY <1>4, <1>5, <1>6 DEF ProcessesInOrder

LEMMA ProcessesStep == IInv /\ [Next]_vars => ProcessesInOrder'
<1> SUFFICES ASSUME IInv, [Next]_vars PROVE ProcessesInOrder'
  OBVIOUS
<1>t. TypeOK /\ ProcessesInOrder
  BY DEF IInv
<1>k. \A q : \A p \in Procs : Killed(q)[p] = status[p] \/ Killed(q)[p] = "dead"
  BY <1>t, KilledType
<1>1. CASE RefuseAsk \/ AskFinished
  BY <1>1, ProcessesKept DEF RefuseAsk, AskFinished, cliVars, runVars
<1>2. CASE AskWithResults
  BY <1>2, <1>t, ProcessesKept DEF AskWithResults, cliVars, ProcessesInOrder, NextAsk
<1>3. CASE BeginWithoutProgram \/ AskWithoutResults
  <2>1. UNCHANGED <<process, mode, down, pump>> /\ stage' = "Finished" /\ ~down
    BY <1>3 DEF BeginWithoutProgram, AskWithoutResults, Conclude, NextAsk
  <2>2. \A p \in Procs : status'[p] = status[p] \/ status'[p] = "dead"
    BY <1>3, <1>k DEF BeginWithoutProgram, AskWithoutResults, Conclude
  <2>3. pump \in {"drain", "end"} => process \in Procs
    BY <1>t DEF ProcessesInOrder, TypeOK, Procs
  <2> QED
    BY <2>1, <2>2, <2>3, ProcessesKept
<1>4. CASE Begin
  <2>1. process = 0 /\ ~down /\ UNCHANGED down /\ stage' # "Idle"
        /\ PlanFor(FALSE) \in Modes /\ Spawn(PlanFor(FALSE), TRUE)
    BY <1>4, <1>t DEF Begin, NextAsk, ProcessesInOrder, PlanFor, Modes
  <2>2. UNCHANGED pump /\ pump \notin {"drain", "end"}
    BY <1>4, <1>t, <2>1 DEF Begin, ProcessesInOrder
  <2>3. /\ process \in {0, 1} /\ (process = 1 => PlanFor(FALSE) # "Resume")
        /\ pump' \notin {"drain", "end"}
    BY <2>1, <2>2
  <2> QED
    BY <2>1, <2>3, ProcessesSpawn
<1>5. CASE Shutdown
  <2>1. down' /\ process' = 0 /\ pump' = "no" /\ UNCHANGED <<mode, stage>>
        /\ status' = Killed(process)
    BY <1>5 DEF Shutdown, Retired
  <2>2. \A p \in Procs : status'[p] # "up" /\ (status[p] = "unborn" => status'[p] = "unborn")
    <3> TAKE p \in Procs
    <3>1. Killed(process)[p] = IF p = process /\ status[p] = "up" THEN "dead" ELSE status[p]
      BY <1>t, KilledType
    <3>2. status[p] = "up" => p = process
      BY <1>t DEF ProcessesInOrder
    <3> QED
      BY <2>1, <3>1, <3>2
  <2>3. stage' = "Idle" => process' = 0
    BY <2>1
  <2> QED
    BY <1>t, <2>1, <2>2, <2>3 DEF ProcessesInOrder, Procs
<1>6. CASE Reseed
  <2>0. process \in {0, 1}
    BY <1>6, <1>t DEF Reseed, TakeLine, ProcessesInOrder, TypeOK, Procs
  <2>1. /\ process # 0 /\ ~down /\ UNCHANGED <<down, stage>>
        /\ Spawn(PlanFor(TRUE), stage = "Running") /\ pump' = "no"
    BY <1>6 DEF Reseed, TakeLine
  <2>2. PlanFor(TRUE) \in Modes /\ PlanFor(TRUE) # "Resume"
    BY DEF PlanFor, Modes
  <2>3. stage' # "Idle"
    BY <1>t, <2>1 DEF ProcessesInOrder
  <2> QED
    BY <2>0, <2>1, <2>2, <2>3, ProcessesSpawn
<1>7. ASSUME NEW last \in BOOLEAN,
             ReadInit(last) \/ ReadText(last) \/ \E c \in Calls : ReadCall(c, last)
      PROVE  ProcessesInOrder'
  <2>1. UNCHANGED <<process, mode, down, status>> /\ process # 0
        /\ pump' = Pumping(last)
    BY <1>7 DEF ReadInit, ReadText, ReadCall, TakeLine
  <2>2. \E q, timer : EndLine(q, last)
    BY <1>7 DEF ReadInit, ReadText, ReadCall
  <2>3. stage' = stage \/ stage' # "Idle"
    BY <2>2 DEF EndLine, FlushToolCalls, Flushes
  <2> QED
    BY <2>1, <2>3, ProcessesKept DEF Pumping
<1>8. ASSUME NEW last \in BOOLEAN, ReadResult(last) \/ ReadMissing(last)
      PROVE  ProcessesInOrder'
  <2>1. UNCHANGED <<process, mode, down>> /\ process # 0
        /\ stage' = "Finished" /\ pump' = Pumping(last)
    BY <1>8 DEF ReadResult, ReadMissing, TakeLine, Conclude
  <2>2. process \in Procs
    BY <1>t, <2>1 DEF TypeOK, Procs
  <2>3. status'[process] = status[process] \/ status'[process] = "dead"
    BY <1>8, <1>k, <2>2 DEF ReadResult, ReadMissing, Conclude
  <2> QED
    BY <2>1, <2>3, ProcessesKept DEF Pumping
<1>9. CASE ProcessFinished
  <2>1. process \in Procs /\ ~down /\ UNCHANGED <<process, mode, down, stage>>
    BY <1>9, <1>t DEF ProcessFinished, TypeOK, Procs
  <2>2. pump' \in {"drain", "end"} => process # 0 /\ ~down /\ status'[process] = "dead"
    BY <1>9 DEF ProcessFinished
  <2> QED
    BY <2>1, <2>2, ProcessesKept
<1>10. CASE DrainEnds
  <2>1. stage' = stage \/ stage' # "Idle"
    BY <1>10 DEF DrainEnds, FlushToolCalls, Flushes
  <2>2. UNCHANGED <<process, mode, down, status>> /\ pump = "drain"
    BY <1>10 DEF DrainEnds, cliVars
  <2>3. process # 0
    BY <1>t, <2>2 DEF ProcessesInOrder
  <2> QED
    BY <2>1, <2>2, <2>3, ProcessesKept
<1>11. CASE StreamEnds \/ StartFailed
  <2>1. UNCHANGED <<process, mode, down>> /\ pump' = "no"
        /\ (stage' = stage \/ stage' = "Finished")
    BY <1>11 DEF StreamEnds, StartFailed
  <2> QED
    BY <2>1, ProcessesKept
<1>12. CASE IdleTimeout \/ HardTimeout
  <2>1. UNCHANGED <<process, mode, down, pump>> /\ pump = "no"
        /\ (stage' = stage \/ stage' = "Finished")
    BY <1>12 DEF IdleTimeout, HardTimeout, Conclude
  <2> QED
    BY <2>1, ProcessesKept
<1>13. CASE Cli
  <2>1. UNCHANGED <<process, mode, down, stage, pump>>
    BY <1>13 DEF Cli, runVars
  <2>2. pump \in {"drain", "end"} => process \in Procs /\ status[process] = "dead"
    BY <1>t DEF ProcessesInOrder, TypeOK, Procs
  <2>3. pump \in {"drain", "end"} => status'[process] = "dead"
    <3>1. \A p \in Procs : status'[p] = status[p] \/ status'[p] = "dead"
      BY <1>13, <1>t DEF Cli, CliNext, CliReady, CliText, CliCall, CliAnswer, CliFailure,
                         CliMissing, CliExit, Write, TypeOK, CliTypeOK
    <3> QED
      BY <2>2, <3>1
  <2> QED
    BY <2>1, <2>2, <2>3, ProcessesKept
<1>14. CASE UNCHANGED vars
  BY <1>14, ProcessesKept DEF vars, cliVars, runVars
<1> QED
  BY <1>1, <1>2, <1>3, <1>4, <1>5, <1>6, <1>7, <1>8, <1>9, <1>10, <1>11, <1>12, <1>13,
     <1>14, StepCases

-----------------------------------------------------------------------------
(* The callback.  A completion goes either to the ask that holds the       *)
(* callback or to a new ask of a run that holds none.                      *)
LEMMA CallbackKept ==
  ASSUME CallbackInStep, UNCHANGED <<callback, asks, replies, down>>,
         stage' = "Running" <=> stage = "Running"
  PROVE  CallbackInStep'
BY DEF CallbackInStep

LEMMA CallbackDeliver ==
  ASSUME TypeOK, CallbackInStep, NEW reply \in Replies, Deliver(callback, reply),
         ~down, UNCHANGED <<down, asks>>, stage' # "Running"
  PROVE  CallbackInStep'
<1>1. CASE callback = 0
  BY <1>1 DEF Deliver, CallbackInStep, TypeOK
<1>2. CASE callback # 0
  <2>1. callback \in Asks /\ callback' = 0
        /\ replies' = [replies EXCEPT ![callback] = Append(@, reply)]
    BY <1>2, MaxAsksAssumption DEF Deliver, TypeOK, Asks
  <2>2. /\ Len(replies'[callback]) = Len(replies[callback]) + 1
        /\ \A b \in Asks : b # callback => replies'[b] = replies[b]
        /\ replies' \in [Asks -> Seq(Replies)]
    BY <2>1, RepliesAppend
  <2>3. replies[callback] = << >>
    BY <2>1 DEF CallbackInStep
  <2>4. Len(replies'[callback]) = 1 /\ replies'[callback] # << >>
    BY <2>1, <2>2, <2>3 DEF TypeOK
  <2> QED
    BY <2>1, <2>2, <2>4 DEF CallbackInStep, TypeOK, Asks
<1> QED
  BY <1>1, <1>2

(* An ask that is answered before it returns leaves the callback alone.    *)
LEMMA CallbackAtOnce ==
  ASSUME TypeOK, CallbackInStep, NextAsk, NEW reply \in Replies,
         replies' = [replies EXCEPT ![asks + 1] = Append(@, reply)],
         UNCHANGED <<down, callback>>, stage' = "Running" <=> stage = "Running"
  PROVE  CallbackInStep'
<1>1. asks + 1 \in Asks /\ asks' = asks + 1 /\ ~down
  BY NextAskFacts
<1>2. /\ Len(replies'[asks + 1]) = Len(replies[asks + 1]) + 1
      /\ \A b \in Asks : b # asks + 1 => replies'[b] = replies[b]
      /\ replies' \in [Asks -> Seq(Replies)]
  BY <1>1, RepliesAppend
<1>3. asks \in Nat /\ callback \in Nat
  BY DEF TypeOK
<1>4. replies[asks + 1] = << >>
  BY <1>1, <1>3 DEF CallbackInStep
<1>5. Len(replies'[asks + 1]) = 1 /\ replies'[asks + 1] # << >>
  BY <1>1, <1>2, <1>4
<1>6. callback # asks + 1
  BY <1>3 DEF CallbackInStep
<1>7. \A a \in Asks : a \in Nat
  BY DEF Asks
<1>8. \A a \in Asks : a > asks' => replies'[a] = << >>
  BY <1>1, <1>2, <1>3, <1>7 DEF CallbackInStep
<1>9. \A a \in Asks : a <= asks' => (replies'[a] = << >> <=> a = callback')
  <2> TAKE a \in Asks
  <2>1. CASE a = asks + 1
    BY <1>5, <1>6, <2>1
  <2>2. CASE a # asks + 1
    BY <1>1, <1>2, <1>3, <1>7, <2>2 DEF CallbackInStep
  <2> QED
    BY <2>1, <2>2
<1> QED
  BY <1>1, <1>2, <1>3, <1>5, <1>8, <1>9 DEF CallbackInStep

LEMMA CallbackNew ==
  ASSUME TypeOK, CallbackInStep, NextAsk, stage # "Running", NEW reply \in Replies,
         Deliver(asks + 1, reply), UNCHANGED down, stage' # "Running"
  PROVE  CallbackInStep'
<1>1. asks + 1 # 0 /\ ~down
  BY NextAskFacts
<1>2. callback = 0
  BY DEF CallbackInStep
<1> QED
  BY <1>1, <1>2, CallbackAtOnce DEF Deliver

(* The callback of a new ask is kept: the run is Running from now on.      *)
LEMMA CallbackHeld ==
  ASSUME TypeOK, CallbackInStep, NextAsk, stage # "Running", stage' = "Running",
         callback' = asks + 1, UNCHANGED <<down, replies>>
  PROVE  CallbackInStep'
<1>1. asks + 1 \in Asks /\ asks' = asks + 1 /\ ~down /\ asks + 1 # 0
  BY NextAskFacts
<1>2. asks \in Nat /\ callback = 0 /\ \A a \in Asks : a \in Nat \ {0}
  BY DEF TypeOK, CallbackInStep, Asks
<1>3. \A a \in Asks : a <= asks' => (replies'[a] = << >> <=> a = callback')
  <2> TAKE a \in Asks
  <2>1. CASE a = asks + 1
    BY <1>1, <1>2, <2>1 DEF CallbackInStep
  <2>2. CASE a # asks + 1
    BY <1>1, <1>2, <2>2 DEF CallbackInStep
  <2> QED
    BY <2>1, <2>2
<1> QED
  BY <1>1, <1>2, <1>3 DEF CallbackInStep

LEMMA CallbackFlush ==
  ASSUME TypeOK, CallbackInStep, NEW q, NEW timer, FlushToolCalls(q, timer),
         ~down, UNCHANGED <<down, asks>>
  PROVE  CallbackInStep'
<1>1. CASE stage = "Running" /\ q # {}
  BY <1>1, CallbackDeliver, ReplyFacts DEF FlushToolCalls, Flushes
<1>2. CASE ~(stage = "Running" /\ q # {})
  BY <1>2, CallbackKept DEF FlushToolCalls, Flushes
<1> QED
  BY <1>1, <1>2

LEMMA CallbackStep == IInv /\ [Next]_vars => CallbackInStep'
<1> SUFFICES ASSUME IInv, [Next]_vars PROVE CallbackInStep'
  OBVIOUS
<1>t. TypeOK /\ CallbackInStep /\ ProcessesInOrder
  BY DEF IInv
<1> USE ReplyFacts
<1>1. CASE RefuseAsk
  BY <1>1, <1>t, CallbackAtOnce DEF RefuseAsk, runVars
<1>2. CASE BeginWithoutProgram
  BY <1>2, <1>t, CallbackNew DEF BeginWithoutProgram, Conclude
<1>3. CASE Begin
  BY <1>3, <1>t, CallbackHeld DEF Begin
<1>4. CASE AskWithoutResults
  BY <1>4, <1>t, CallbackNew DEF AskWithoutResults, Conclude
<1>5. CASE AskWithResults
  <2>1. CASE queued = {}
    BY <1>5, <1>t, <2>1, CallbackHeld DEF AskWithResults
  <2>2. CASE queued # {}
    BY <1>5, <1>t, <2>2, CallbackNew DEF AskWithResults
  <2> QED
    BY <2>1, <2>2
<1>6. CASE AskFinished
  <2>1. (IF outcome = "none" THEN "server_error" ELSE outcome) \in Replies
    BY <1>t DEF TypeOK
  <2>2. callback = 0
    BY <1>6, <1>t DEF AskFinished, CallbackInStep
  <2> QED
    BY <1>6, <1>t, <2>1, <2>2, CallbackAtOnce DEF AskFinished
<1>7. CASE Shutdown
  BY <1>7, <1>t DEF Shutdown, CallbackInStep, historyVars, TypeOK
<1>8. ASSUME NEW last \in BOOLEAN,
             ReadInit(last) \/ ReadText(last) \/ \E c \in Calls : ReadCall(c, last)
      PROVE  CallbackInStep'
  <2>1. ~down /\ UNCHANGED <<down, asks>>
    BY <1>8 DEF ReadInit, ReadText, ReadCall, TakeLine
  <2>2. PICK q : EndLine(q, last)
    BY <1>8 DEF ReadInit, ReadText, ReadCall
  <2>3. CASE last
    BY <1>t, <2>1, <2>2, <2>3, CallbackFlush DEF EndLine
  <2>4. CASE ~last
    BY <1>t, <2>1, <2>2, <2>4, CallbackKept DEF EndLine
  <2> QED
    BY <2>3, <2>4
<1>9. ASSUME NEW last \in BOOLEAN, ReadResult(last) PROVE CallbackInStep'
  <2>1. PICK reply \in {"answer", "server_error", "not_logged_in"} :
          Conclude(callback, reply, "Graceful")
    BY <1>9 DEF ReadResult
  <2>2. ~down /\ UNCHANGED <<down, asks>>
    BY <1>9 DEF ReadResult, TakeLine
  <2> QED
    BY <1>t, <2>1, <2>2, CallbackDeliver DEF Conclude
<1>10. ASSUME NEW last \in BOOLEAN, ReadMissing(last) PROVE CallbackInStep'
  <2>1. Conclude(callback, "server_error", "Kill") /\ ~down /\ UNCHANGED <<down, asks>>
    BY <1>10 DEF ReadMissing, TakeLine
  <2> QED
    BY <1>t, <2>1, CallbackDeliver DEF Conclude
<1>11. CASE Reseed
  BY <1>11, <1>t, CallbackKept DEF Reseed
<1>12. CASE ProcessFinished
  BY <1>12, <1>t, CallbackKept DEF ProcessFinished, historyVars
<1>13. CASE DrainEnds
  BY <1>13, <1>t, CallbackFlush DEF DrainEnds, ProcessesInOrder
<1>14. CASE StreamEnds
  <2>1. ~down /\ UNCHANGED <<down, asks>>
    BY <1>14, <1>t DEF StreamEnds, ProcessesInOrder
  <2>2. CASE stage = "Finished" \/ parsed
    BY <1>14, <1>t, <2>1, <2>2, CallbackKept DEF StreamEnds
  <2>3. CASE ~(stage = "Finished" \/ parsed)
    BY <1>14, <1>t, <2>1, <2>3, CallbackDeliver DEF StreamEnds
  <2> QED
    BY <2>2, <2>3
<1>15. CASE StartFailed
  <2>1. ~down /\ UNCHANGED <<down, asks>>
    BY <1>15 DEF StartFailed
  <2>2. CASE stage = "Running"
    BY <1>15, <1>t, <2>1, <2>2, CallbackDeliver DEF StartFailed
  <2>3. CASE stage # "Running"
    BY <1>15, <1>t, <2>1, <2>3, CallbackKept DEF StartFailed
  <2> QED
    BY <2>2, <2>3
<1>16. CASE IdleTimeout
  <2>1. ~down /\ UNCHANGED <<down, asks>>
    BY <1>16 DEF IdleTimeout
  <2>2. CASE stage = "Running"
    BY <1>16, <1>t, <2>1, <2>2, CallbackDeliver DEF IdleTimeout, Conclude
  <2>3. CASE stage # "Running"
    BY <1>16, <1>t, <2>1, <2>3, CallbackKept DEF IdleTimeout
  <2> QED
    BY <2>2, <2>3
<1>17. CASE HardTimeout
  <2>1. ~down /\ UNCHANGED <<down, asks>>
    BY <1>17 DEF HardTimeout
  <2>2. CASE stage # "Finished"
    BY <1>17, <1>t, <2>1, <2>2, CallbackDeliver DEF HardTimeout, Conclude
  <2>3. CASE stage = "Finished"
    BY <1>17, <1>t, <2>1, <2>3, CallbackKept DEF HardTimeout
  <2> QED
    BY <2>2, <2>3
<1>18. CASE Cli
  BY <1>18, <1>t, CallbackKept DEF Cli, runVars, historyVars
<1>19. CASE UNCHANGED vars
  BY <1>19, <1>t, CallbackKept DEF vars, runVars, historyVars
<1> QED
  BY <1>1, <1>2, <1>3, <1>4, <1>5, <1>6, <1>7, <1>8, <1>9, <1>10, <1>11, <1>12, <1>13,
     <1>14, <1>15, <1>16, <1>17, <1>18, <1>19, StepCases

-----------------------------------------------------------------------------
(* The run.  A step that ends the run has nothing to show; one that does   *)
(* not must keep the process from ending unnoticed.                        *)
LEMMA RunFinished == stage' = "Finished" => RunInStep'
BY DEF RunInStep

LEMMA RunKept ==
  ASSUME IInv, [Next]_vars,
         UNCHANGED <<stage, down, process, queued, awaiting, parsed, heard>>,
         stage # "Finished" => hardTimer' = hardTimer /\ status'[process] # "gone",
         stage = "Running" => idleTimer' = idleTimer
  PROVE  RunInStep'
<1>1. TypeOK /\ RunInStep
  BY DEF IInv
<1>2. stage \in {"Running", "AwaitingTools"} /\ ~down => process \in Procs
  BY <1>1 DEF RunInStep, TypeOK, Procs
<1>3. stage \in {"Running", "AwaitingTools"} /\ ~down =>
        status'[process] \in {"up", "failed", "dead"}
  <2>1. process # process + 1
    BY <1>1 DEF TypeOK
  <2> QED
    BY <1>1, <1>2, <2>1, StatusStep DEF RunInStep
<1> QED
  BY <1>1, <1>3 DEF RunInStep

(* The line of a chunk that is not its last, and the flush after it.       *)
LEMMA RunQueued ==
  ASSUME IInv, NEW q \in SUBSET Calls, queued' = q,
         UNCHANGED <<stage, down, process, awaiting, parsed, hardTimer, status>>,
         stage = "Running" /\ IdleLimit => idleTimer',
         heard \subseteq heard',
         stage # "Finished" /\ ~down => \A c \in q : <<process, c>> \in heard'
  PROVE  RunInStep'
BY DEF IInv, RunInStep

LEMMA RunFlush ==
  ASSUME IInv, NEW q \in SUBSET Calls, NEW timer, FlushToolCalls(q, timer),
         UNCHANGED <<down, process, parsed, hardTimer, status>>,
         stage = "Running" /\ IdleLimit => timer,
         heard \subseteq heard',
         stage # "Finished" /\ ~down => \A c \in q : <<process, c>> \in heard'
  PROVE  RunInStep'
<1>1. CASE stage = "Running" /\ q # {}
  <2>1. stage' = "AwaitingTools" /\ awaiting' = q /\ queued' = {}
    BY <1>1 DEF FlushToolCalls, Flushes
  <2> QED
    BY <1>1, <2>1 DEF IInv, RunInStep
<1>2. CASE ~(stage = "Running" /\ q # {})
  <2>1. queued' = q /\ idleTimer' = timer /\ UNCHANGED <<stage, awaiting>>
    BY <1>2 DEF FlushToolCalls, Flushes
  <2> QED
    BY <2>1, RunQueued
<1> QED
  BY <1>1, <1>2

LEMMA RunEndLine ==
  ASSUME IInv, NEW q \in SUBSET Calls, NEW last \in BOOLEAN, EndLine(q, last),
         UNCHANGED <<down, process, parsed, hardTimer, status>>, ~down,
         heard \subseteq heard',
         stage # "Finished" => \A c \in q : <<process, c>> \in heard'
  PROVE  RunInStep'
<1>1. stage = "Running" /\ IdleLimit => IdleAfterOutput
  BY DEF IInv, RunInStep, IdleAfterOutput, IdleRestarted
<1>2. CASE last
  BY <1>1, <1>2, RunFlush DEF EndLine
<1>3. CASE ~last
  BY <1>1, <1>3, RunQueued DEF EndLine
<1> QED
  BY <1>2, <1>3

(* A CLI that never started, or whose session is missing, made no calls,   *)
(* so nobody works on a call of it.                                        *)
LEMMA NoCallsNoAwaiting ==
  ASSUME IInv, process \in Procs, ~down, called[process] = {}
  PROVE  stage # "AwaitingTools"
BY DEF IInv, TypeOK, RunInStep, PipesInOrder

LEMMA RunStep == IInv /\ [Next]_vars => RunInStep'
<1> SUFFICES ASSUME IInv, [Next]_vars PROVE RunInStep'
  OBVIOUS
<1>t. TypeOK /\ RunInStep /\ ProcessesInOrder
  BY DEF IInv
<1>g. (stage \in {"Running", "AwaitingTools"} /\ ~down) =>
        process \in Procs /\ status[process] # "gone"
  BY <1>t DEF RunInStep, TypeOK, Procs
<1>q. queued \in SUBSET Calls /\ (stage # "Finished" /\ ~down =>
                                   \A c \in queued : <<process, c>> \in heard)
  BY <1>t DEF TypeOK, RunInStep
<1>1. CASE RefuseAsk \/ AskFinished
  <2>1. UNCHANGED <<stage, down, process, queued, awaiting, parsed, heard, hardTimer,
                    idleTimer, status>>
    BY <1>1 DEF RefuseAsk, AskFinished, cliVars, runVars
  <2>2. stage # "Finished" => stage = "Running" /\ ~down
    BY <1>1 DEF RefuseAsk, AskFinished, AskRunning, NextAsk
  <2> QED
    BY <1>t, <2>1 DEF RunInStep
<1>2. CASE BeginWithoutProgram \/ AskWithoutResults
  BY <1>2, RunFinished DEF BeginWithoutProgram, AskWithoutResults, Conclude
<1>3. CASE Begin
  <2>1. /\ stage' = "Running" /\ hardTimer' = HardLimit /\ ~down /\ stage = "Idle"
        /\ UNCHANGED <<down, awaiting>> /\ Spawn(PlanFor(FALSE), TRUE)
    BY <1>3 DEF Begin, NextAsk, HardStarted
  <2>2. process = 0 /\ PlanFor(FALSE) \in Modes
    BY <1>t, <2>1 DEF ProcessesInOrder, PlanFor, Modes
  <2>3. process' \in Procs /\ status'[process'] \in {"up", "failed"} /\ queued' = {}
        /\ parsed' = FALSE
    BY <1>t, <2>1, <2>2, SpawnType
  <2>4. idleTimer' = IdleRestarted
    BY <2>1 DEF Spawn
  <2>5. awaiting' = {} /\ process' # 0
    BY <1>t, <2>1, <2>3 DEF RunInStep, Procs
  <2> QED
    BY <2>1, <2>3, <2>4, <2>5 DEF RunInStep, IdleRestarted
<1>4. CASE AskWithResults
  <2>1. /\ UNCHANGED <<down, process, parsed, hardTimer, status, heard>>
        /\ awaiting' = queued /\ queued' = {} /\ stage = "AwaitingTools" /\ ~down
    BY <1>4 DEF AskWithResults, NextAsk, cliVars
  <2>2. CASE queued = {}
    <3>1. stage' = "Running" /\ idleTimer' = IdleRestarted
      BY <1>4, <2>2 DEF AskWithResults
    <3> QED
      BY <1>t, <2>1, <2>2, <3>1 DEF RunInStep, IdleRestarted
  <2>3. CASE queued # {}
    <3>1. stage' = "AwaitingTools"
      BY <1>4, <2>3 DEF AskWithResults
    <3> QED
      BY <1>t, <2>1, <2>3, <3>1 DEF RunInStep
  <2> QED
    BY <2>2, <2>3
<1>5. CASE Shutdown
  BY <1>5, <1>t DEF Shutdown, RunInStep, historyVars
<1>6. ASSUME NEW last \in BOOLEAN, ReadInit(last) \/ ReadText(last) PROVE RunInStep'
  <2>1. EndLine(queued, last) /\ ~down
        /\ UNCHANGED <<down, process, parsed, hardTimer, status, heard>>
    BY <1>6 DEF ReadInit, ReadText, TakeLine
  <2> QED
    BY <1>q, <2>1, RunEndLine
<1>7. ASSUME NEW last \in BOOLEAN, NEW c \in Calls, ReadCall(c, last) PROVE RunInStep'
  <2>1. EndLine(queued \cup {c}, last) /\ ~down
        /\ heard' = heard \cup {<<process, c>>}
        /\ UNCHANGED <<down, process, parsed, hardTimer, status>>
    BY <1>7 DEF ReadCall, TakeLine
  <2>2. stage # "Finished" => \A d \in queued \cup {c} : <<process, d>> \in heard'
    BY <1>q, <2>1
  <2> QED
    BY <1>q, <2>1, <2>2, RunEndLine
<1>8. ASSUME NEW last \in BOOLEAN, ReadResult(last) \/ ReadMissing(last) PROVE RunInStep'
  BY <1>8, RunFinished DEF ReadResult, ReadMissing, Conclude
<1>9. CASE Reseed
  <2>1. PICK last \in BOOLEAN : TakeLine("missing", last)
    BY <1>9 DEF Reseed
  <2>2. process \in Procs /\ "missing" = pipe[process][1]
        /\ pipe[process] \in Seq(Lines) /\ pipe[process] # << >>
    BY <1>t, <2>1, TakeLineFacts
  <2>3. called[process] = {} /\ ~down
    <3>1. 1 \in 1..Len(pipe[process])
      BY <2>2
    <3> QED
      BY <2>1, <2>2, <3>1 DEF IInv, PipesInOrder, TakeLine
  <2>4. stage # "AwaitingTools" /\ stage # "Idle"
    BY <1>t, <2>2, <2>3, NoCallsNoAwaiting DEF ProcessesInOrder, Procs
  <2>5. process \in {0, 1}
    BY <1>9, <1>t, <2>1 DEF Reseed, TakeLine, ProcessesInOrder, TypeOK, Procs
  <2>6. PlanFor(TRUE) \in Modes /\ Spawn(PlanFor(TRUE), stage = "Running")
    BY <1>9 DEF Reseed, PlanFor, Modes
  <2>7. process' \in Procs /\ status'[process'] \in {"up", "failed"} /\ queued' = {}
        /\ parsed' = FALSE
    BY <1>t, <2>5, <2>6, SpawnType
  <2>8. stage = "Running" => idleTimer' = IdleRestarted
    BY <2>6 DEF Spawn
  <2>9. UNCHANGED <<stage, down, awaiting, hardTimer>>
    BY <1>9 DEF Reseed
  <2>10. process' # 0
    BY <2>7 DEF Procs
  <2>11. CASE stage = "Running"
    BY <1>t, <2>3, <2>7, <2>8, <2>9, <2>10, <2>11 DEF RunInStep, IdleRestarted
  <2>12. CASE stage = "Finished"
    BY <2>9, <2>12, RunFinished
  <2> QED
    BY <1>t, <2>4, <2>11, <2>12 DEF TypeOK, Stages
<1>10. CASE ProcessFinished
  BY <1>10, <1>g, RunKept DEF ProcessFinished, historyVars
<1>11. CASE DrainEnds
  <2>1. FlushToolCalls(queued, idleTimer)
        /\ UNCHANGED <<down, process, parsed, hardTimer, status, heard>>
    BY <1>11 DEF DrainEnds, cliVars
  <2>2. ~down
    BY <1>11, <1>t DEF DrainEnds, ProcessesInOrder
  <2>3. stage = "Running" /\ IdleLimit => idleTimer
    BY <1>t, <2>2 DEF RunInStep
  <2> QED
    BY <1>q, <2>1, <2>2, <2>3, RunFlush
<1>12. CASE StreamEnds
  BY <1>12, <1>t, RunFinished DEF StreamEnds, RunInStep
<1>13. CASE StartFailed
  <2>1. process \in Procs /\ ~down /\ called[process] = {}
    BY <1>13, <1>t DEF StartFailed, TypeOK, Procs, IInv, PipesInOrder
  <2>2. stage # "AwaitingTools" /\ stage # "Idle"
    BY <1>t, <2>1, NoCallsNoAwaiting DEF ProcessesInOrder, Procs
  <2>3. stage' = "Finished"
    BY <1>13, <1>t, <2>2 DEF StartFailed, TypeOK, Stages
  <2> QED
    BY <2>3, RunFinished
<1>14. CASE IdleTimeout
  <2>1. CASE stage = "Running"
    BY <1>14, <2>1, RunFinished DEF IdleTimeout, Conclude
  <2>2. CASE stage # "Running"
    BY <1>14, <1>t, <2>2 DEF IdleTimeout, RunInStep
  <2> QED
    BY <2>1, <2>2
<1>15. CASE HardTimeout
  BY <1>15, RunFinished DEF HardTimeout, Conclude
<1>16. CASE Cli
  <2>1. UNCHANGED <<stage, down, process, queued, awaiting, parsed, heard, hardTimer, idleTimer>>
    BY <1>16 DEF Cli, runVars, historyVars
  <2>2. \A p \in Procs : status'[p] = status[p] \/ status'[p] = "dead"
    BY <1>16, <1>t DEF Cli, CliNext, CliReady, CliText, CliCall, CliAnswer, CliFailure,
                       CliMissing, CliExit, Write, TypeOK, CliTypeOK
  <2> QED
    BY <1>t, <1>g, <2>1, <2>2 DEF RunInStep
<1>17. CASE UNCHANGED vars
  BY <1>17, <1>t DEF vars, cliVars, runVars, historyVars, RunInStep
<1> QED
  BY <1>1, <1>2, <1>3, <1>4, <1>5, <1>6, <1>7, <1>8, <1>9, <1>10, <1>11, <1>12, <1>13,
     <1>14, <1>15, <1>16, <1>17, StepCases

-----------------------------------------------------------------------------
(* The tool calls.                                                         *)
LEMMA ToolCallsKept ==
  ASSUME ToolCallsConserved, UNCHANGED <<process, queued, awaiting, heard, answered>>,
         stage' # "Finished" => stage # "Finished"
  PROVE  ToolCallsConserved'
BY DEF ToolCallsConserved

LEMMA ToolCallsFinished ==
  ASSUME ToolCallsConserved, UNCHANGED <<heard, answered>>, stage' = "Finished"
  PROVE  ToolCallsConserved'
BY DEF ToolCallsConserved

(* A new process has made no call yet.                                     *)
LEMMA ToolCallsNewProcess ==
  ASSUME IInv, UNCHANGED <<heard, answered>>, process' \in Procs, status[process'] = "unborn"
  PROVE  ToolCallsConserved'
<1>1. \A c \in Calls : <<process', c>> \notin heard
  BY DEF IInv, PipesInOrder
<1> QED
  BY <1>1 DEF IInv, ToolCallsConserved

(* The calls in q join the queue, or the batch if the run waits for none.  *)
LEMMA ToolCallsEndLine ==
  ASSUME IInv, NEW q \in SUBSET Calls, NEW last \in BOOLEAN, NEW timer, ~down,
         FlushToolCalls(q, timer) \/ EndLine(q, last),
         UNCHANGED <<process, answered>>, queued \subseteq q,
         q \cap awaiting = {} \/ stage = "Finished",
         heard \subseteq heard',
         \A c \in Calls : <<process, c>> \in heard' /\ <<process, c>> \notin heard => c \in q,
         \A c \in q : <<process, c>> \notin answered \/ stage = "Finished"
  PROVE  ToolCallsConserved'
<1>1. RunInStep /\ ToolCallsConserved /\ TypeOK
  BY DEF IInv
<1>2. \/ /\ stage = "Running" /\ stage' = "AwaitingTools" /\ awaiting' = q /\ queued' = {}
      \/ queued' = q /\ UNCHANGED <<stage, awaiting>>
  BY DEF EndLine, FlushToolCalls, Flushes
<1>3. CASE stage = "Running" /\ stage' = "AwaitingTools" /\ awaiting' = q /\ queued' = {}
  BY <1>1, <1>3 DEF RunInStep, ToolCallsConserved
<1>4. CASE queued' = q /\ UNCHANGED <<stage, awaiting>>
  BY <1>1, <1>4 DEF ToolCallsConserved
<1> QED
  BY <1>2, <1>3, <1>4

LEMMA ToolCallsStep == IInv /\ [Next]_vars => ToolCallsConserved'
<1> SUFFICES ASSUME IInv, [Next]_vars PROVE ToolCallsConserved'
  OBVIOUS
<1>t. TypeOK /\ PipesInOrder /\ ProcessesInOrder /\ RunInStep /\ ToolCallsConserved
  BY DEF IInv
<1>q. /\ queued \in SUBSET Calls /\ awaiting \in SUBSET Calls
      /\ stage # "Finished" /\ ~down =>
           \A c \in queued \cup awaiting : <<process, c>> \in heard
  BY <1>t DEF TypeOK, RunInStep
<1>d. stage # "Finished" /\ ~down =>
        /\ queued \cap awaiting = {}
        /\ \A c \in queued : <<process, c>> \notin answered
  BY <1>t, <1>q DEF ToolCallsConserved
<1>1. CASE RefuseAsk \/ AskFinished
  BY <1>1, <1>t, ToolCallsKept DEF RefuseAsk, AskFinished, runVars
<1>2. CASE BeginWithoutProgram \/ AskWithoutResults
  BY <1>2, <1>t, ToolCallsFinished DEF BeginWithoutProgram, AskWithoutResults, Conclude
<1>3. CASE Begin
  <2>1. process = 0 /\ ~down /\ PlanFor(FALSE) \in Modes /\ Spawn(PlanFor(FALSE), TRUE)
    BY <1>3, <1>t DEF Begin, NextAsk, ProcessesInOrder, PlanFor, Modes
  <2>2. process' \in Procs /\ process' = process + 1
    BY <1>t, <2>1, SpawnType
  <2>3. status[process'] = "unborn"
    BY <1>t, <2>1, <2>2 DEF ProcessesInOrder
  <2> QED
    BY <1>3, <2>2, <2>3, ToolCallsNewProcess DEF Begin
<1>4. CASE AskWithResults
  <2>1. /\ stage = "AwaitingTools" /\ ~down /\ UNCHANGED <<process, heard>>
        /\ answered' = answered \cup ({process} \X awaiting)
        /\ awaiting' = queued /\ queued' = {}
    BY <1>4 DEF AskWithResults, NextAsk
  <2>2. \A c \in Calls : <<process, c>> \in answered'
                           <=> <<process, c>> \in answered \/ c \in awaiting
    BY <2>1
  <2>3. answered' \subseteq heard'
    BY <1>t, <1>q, <2>1 DEF ToolCallsConserved
  <2> QED
    BY <1>t, <1>d, <2>1, <2>2, <2>3 DEF ToolCallsConserved
<1>5. CASE Shutdown
  <2>1. process' = 0 /\ UNCHANGED <<heard, answered>>
    BY <1>5 DEF Shutdown, historyVars
  <2>2. \A c \in Calls : <<process', c>> \notin heard
    BY <1>t, <2>1 DEF TypeOK, Procs
  <2> QED
    BY <1>t, <2>1, <2>2 DEF ToolCallsConserved
<1>6. ASSUME NEW last \in BOOLEAN, ReadInit(last) \/ ReadText(last)
      PROVE  ToolCallsConserved'
  <2>1. EndLine(queued, last) /\ ~down /\ UNCHANGED <<process, heard, answered>>
    BY <1>6 DEF ReadInit, ReadText, TakeLine
  <2> QED
    BY <1>q, <1>d, <2>1, ToolCallsEndLine
<1>7. ASSUME NEW last \in BOOLEAN, NEW c \in Calls, ReadCall(c, last)
      PROVE  ToolCallsConserved'
  <2>1. EndLine(queued \cup {c}, last) /\ ~down /\ UNCHANGED <<process, answered>>
        /\ heard' = heard \cup {<<process, c>>} /\ TakeLine(c, last)
    BY <1>7 DEF ReadCall, TakeLine
  <2>2. process \in Procs /\ c = pipe[process][1] /\ 1 \in 1..Len(pipe[process])
    <3>1. process \in Procs /\ c = pipe[process][1]
          /\ pipe[process] \in Seq(Lines) /\ pipe[process] # << >>
      BY <1>t, <2>1, TakeLineFacts
    <3> QED
      BY <3>1
  <2>3. <<process, c>> \notin heard
    BY <1>t, <2>2 DEF PipesInOrder
  <2>4. stage # "Finished" => c \notin awaiting
    BY <1>q, <2>1, <2>3
  <2>5. <<process, c>> \notin answered
    BY <1>t, <2>3 DEF ToolCallsConserved
  <2>6. /\ (queued \cup {c}) \cap awaiting = {} \/ stage = "Finished"
        /\ \A d \in queued \cup {c} : <<process, d>> \notin answered \/ stage = "Finished"
    BY <1>d, <2>1, <2>4, <2>5
  <2>7. \A d \in Calls : <<process, d>> \in heard' /\ <<process, d>> \notin heard
                           => d \in queued \cup {c}
    BY <2>1
  <2> QED
    BY <1>q, <2>1, <2>6, <2>7, ToolCallsEndLine
<1>8. ASSUME NEW last \in BOOLEAN, ReadResult(last) \/ ReadMissing(last)
      PROVE  ToolCallsConserved'
  BY <1>8, <1>t, ToolCallsFinished DEF ReadResult, ReadMissing, Conclude
<1>9. CASE Reseed
  <2>1. process \in {0, 1} /\ ~down
    BY <1>9, <1>t DEF Reseed, TakeLine, ProcessesInOrder, TypeOK, Procs
  <2>2. PlanFor(TRUE) \in Modes /\ Spawn(PlanFor(TRUE), stage = "Running")
    BY <1>9 DEF Reseed, PlanFor, Modes
  <2>3. process' \in Procs /\ process' = process + 1
    BY <1>t, <2>1, <2>2, SpawnType
  <2>4. status[process'] = "unborn"
    BY <1>t, <2>1, <2>3 DEF ProcessesInOrder
  <2> QED
    BY <1>9, <2>3, <2>4, ToolCallsNewProcess DEF Reseed
<1>10. CASE ProcessFinished
  BY <1>10, <1>t, ToolCallsKept DEF ProcessFinished, historyVars
<1>11. CASE DrainEnds
  <2>1. FlushToolCalls(queued, idleTimer) /\ ~down /\ UNCHANGED <<process, heard, answered>>
    BY <1>11, <1>t DEF DrainEnds, ProcessesInOrder
  <2> QED
    BY <1>q, <1>d, <2>1, ToolCallsEndLine
<1>12. CASE StreamEnds \/ StartFailed \/ IdleTimeout \/ HardTimeout
  <2>1. UNCHANGED <<process, queued, awaiting, heard, answered>>
        /\ (stage' = stage \/ stage' = "Finished")
    BY <1>12 DEF StreamEnds, StartFailed, IdleTimeout, HardTimeout, Conclude
  <2> QED
    BY <1>t, <2>1, ToolCallsKept
<1>13. CASE Cli
  BY <1>13, <1>t, ToolCallsKept DEF Cli, runVars, historyVars
<1>14. CASE UNCHANGED vars
  BY <1>14, <1>t, ToolCallsKept DEF vars, runVars, historyVars
<1> QED
  BY <1>1, <1>2, <1>3, <1>4, <1>5, <1>6, <1>7, <1>8, <1>9, <1>10, <1>11, <1>12, <1>13,
     <1>14, StepCases

-----------------------------------------------------------------------------
(* The session.  An answer is known once it was called back, or waits for  *)
(* an ask; only reading one makes it known.                                *)
LEMMA AnswerAtOnce ==
  ASSUME TypeOK, NEW a \in Asks, NEW reply \in Replies, reply = "answer" => outcome = "answer",
         replies' = [replies EXCEPT ![a] = Append(@, reply)], outcome' \in {outcome, "none"}
  PROVE  AnswerKnown' => AnswerKnown
<1> SUFFICES ASSUME NEW b \in Asks, Received(b, "answer")', outcome # "answer"
             PROVE  Received(b, "answer")
  BY DEF AnswerKnown
<1>1. replies[b] \in Seq(Replies) /\ replies'[b] # << >> /\ replies'[b][1] = "answer"
  BY DEF TypeOK, Received
<1>2. CASE b # a
  <2>1. replies'[b] = replies[b]
    BY <1>2, RepliesAppend
  <2> QED
    BY <1>1, <2>1 DEF Received
<1>3. CASE b = a
  <2>1. replies'[a] = Append(replies[a], reply)
    BY DEF TypeOK
  <2>2. replies[a] # << >>
    BY <1>1, <1>3, <2>1
  <2>3. Append(replies[a], reply)[1] = replies[a][1]
    BY <1>1, <1>3, <2>2
  <2> QED
    BY <1>1, <1>3, <2>1, <2>2, <2>3 DEF Received
<1> QED
  BY <1>2, <1>3

LEMMA AnswerDelivered ==
  ASSUME TypeOK, NEW cb \in 0..MaxAsks, NEW reply \in Replies, reply # "answer",
         Deliver(cb, reply)
  PROVE  AnswerKnown' => AnswerKnown
<1>1. CASE cb = 0
  BY <1>1 DEF Deliver, AnswerKnown, Received
<1>2. CASE cb # 0
  <2>1. cb \in Asks
    BY <1>2, MaxAsksAssumption DEF Asks
  <2> QED
    BY <1>2, <2>1, AnswerAtOnce DEF Deliver
<1> QED
  BY <1>1, <1>2

LEMMA AnswerKept == UNCHANGED <<outcome, replies>> => (AnswerKnown' => AnswerKnown)
BY DEF AnswerKnown, Received

LEMMA AnswerFlush ==
  ASSUME TypeOK, NEW q, NEW timer, NEW last \in BOOLEAN,
         FlushToolCalls(q, timer) \/ EndLine(q, last)
  PROVE  AnswerKnown' => AnswerKnown
<1>1. CASE Deliver(callback, "tool_calls")
  BY <1>1, ReplyFacts, AnswerDelivered DEF TypeOK
<1>2. CASE UNCHANGED <<outcome, replies>>
  BY <1>2, AnswerKept
<1> QED
  BY <1>1, <1>2 DEF FlushToolCalls, EndLine

(* The steps that neither read nor write a pipe, nor start a process.      *)
LEMMA SessionKept ==
  ASSUME IInv, [Next]_vars, UNCHANGED <<process, mode, sessionId, pipe, phase>>,
         parsed => parsed', AnswerKnown' => AnswerKnown
  PROVE  SessionInStep'
<1>1. \A p \in Procs : status'[p] = "unborn" => status[p] = "unborn"
  BY StatusStep
<1>2. \A p \in Procs : status[p] = "unborn" => status'[p] = "unborn"
  <2>1. ~(process + 1 = process)
    BY DEF IInv, TypeOK
  <2> QED
    BY <2>1, StatusStep
<1>3. Named' = Named
  BY DEF Named
<1> QED
  BY <1>1, <1>2, <1>3 DEF IInv, SessionInStep, Procs

(* A new process has written nothing, and made no session yet.             *)
LEMMA SessionSpawned ==
  ASSUME IInv, [Next]_vars, NEW reseed \in BOOLEAN, Spawn(PlanFor(reseed), stage = "Running")
                                                     \/ Spawn(PlanFor(reseed), TRUE),
         process \in {0, 1}, reseed <=> process = 1, ~down, phase' = phase,
         pipe'[process + 1] = pipe[process + 1], AnswerKnown' => AnswerKnown, ~AnswerKnown
  PROVE  SessionInStep'
<1>1. /\ process' = process + 1 /\ mode' = PlanFor(reseed) /\ sessionId' = IdFor(PlanFor(reseed))
      /\ process + 1 \in Procs
  BY DEF Spawn, Procs
<1>2. status[process + 1] = "unborn"
  BY <1>1 DEF IInv, ProcessesInOrder, TypeOK
<1>3. pipe'[process'] = << >> /\ phase'[process'] = "booting"
  BY <1>1, <1>2 DEF IInv, PipesInOrder, SessionInStep
<1>4. \A p \in Procs : status'[p] = "unborn" => status[p] = "unborn"
  BY StatusStep
<1>5. process = 0 => status'[2] = "unborn"
  <2>1. process = 0 => status[2] = "unborn"
    BY DEF IInv, ProcessesInOrder, Procs
  <2>2. 2 \in Procs
    BY DEF Procs
  <2>3. process = 0 => status'[2] = status[2]
    BY <1>1, <2>1, <2>2, StatusStep
  <2> QED
    BY <2>1, <2>3
<1>6. status'[2] # "unborn" => sessionId' # "given"
  BY <1>1, <1>5 DEF PlanFor, IdFor
<1>7. \A p \in Procs : status'[p] = "unborn" => phase'[p] = "booting"
  BY <1>4 DEF IInv, SessionInStep
<1> QED
  BY <1>3, <1>6, <1>7 DEF SessionInStep

(* A line other than the one that names the session is taken.              *)
LEMMA SessionTaken ==
  ASSUME IInv, [Next]_vars, NEW line, NEW last, TakeLine(line, last),
         UNCHANGED <<process, mode, sessionId, phase>>, line # "init" \/ parsed',
         parsed => parsed', AnswerKnown' => AnswerKnown \/ (parsed' /\ sessionId = Named)
  PROVE  SessionInStep'
<1>1. TypeOK /\ SessionInStep
  BY DEF IInv
<1>2. /\ process \in Procs
      /\ pipe[process] \in Seq(Lines) /\ pipe[process] # << >>
      /\ line = pipe[process][1]
      /\ Len(pipe'[process]) = Len(pipe[process]) - 1
      /\ \A i \in 1..Len(pipe'[process]) : pipe'[process][i] = pipe[process][i + 1]
  BY <1>1, TakeLineFacts
<1>3. \A p \in Procs : status'[p] = "unborn" <=> status[p] = "unborn"
  <2>1. ~(process + 1 = process)
    BY DEF IInv, TypeOK
  <2> QED
    BY <2>1, StatusStep
<1>4. Named' = Named /\ Len(pipe[process]) \in Nat
  BY <1>2 DEF Named
<1>5. ASSUME ~parsed', sessionId # Named
      PROVE  /\ phase[process] = "ready" =>
                  \E j \in 1..Len(pipe'[process]) : pipe'[process][j] = "init"
             /\ \A i \in 1..Len(pipe'[process]) : pipe'[process][i] = "answer" =>
                  \E j \in 1..i-1 : pipe'[process][j] = "init"
  <2>1. process # 0 /\ ~parsed /\ line # "init"
    BY <1>2, <1>5 DEF Procs
  <2>2. ASSUME phase[process] = "ready"
        PROVE  \E j \in 1..Len(pipe'[process]) : pipe'[process][j] = "init"
    <3>1. PICK j \in 1..Len(pipe[process]) : pipe[process][j] = "init"
      BY <1>1, <1>5, <2>1, <2>2 DEF SessionInStep
    <3>2. j # 1 /\ j - 1 \in 1..Len(pipe'[process]) /\ j - 1 + 1 = j
      BY <1>2, <1>4, <2>1, <3>1
    <3>3. pipe'[process][j - 1] = "init"
      BY <1>2, <3>1, <3>2
    <3> QED
      BY <3>2, <3>3
  <2>3. ASSUME NEW i \in 1..Len(pipe'[process]), pipe'[process][i] = "answer"
        PROVE  \E j \in 1..i-1 : pipe'[process][j] = "init"
    <3>1. i + 1 \in 1..Len(pipe[process]) /\ pipe[process][i + 1] = "answer" /\ i + 1 - 1 = i
      BY <1>2, <1>4, <2>3
    <3>2. PICK j \in 1..i : pipe[process][j] = "init"
      BY <1>1, <1>5, <2>1, <3>1 DEF SessionInStep
    <3>3. j # 1 /\ j - 1 \in 1..i-1 /\ j - 1 \in 1..Len(pipe'[process]) /\ j - 1 + 1 = j
      BY <1>2, <1>4, <2>1, <3>1, <3>2
    <3>4. pipe'[process][j - 1] = "init"
      BY <1>2, <3>2, <3>3
    <3> QED
      BY <3>3, <3>4
  <2> QED
    BY <2>2, <2>3
<1>6. AnswerKnown' => parsed' /\ sessionId' = Named'
  BY <1>1, <1>4 DEF SessionInStep
<1>7. status'[2] # "unborn" => sessionId' # "given"
  BY <1>1, <1>3 DEF SessionInStep, Procs
<1> QED
  BY <1>1, <1>3, <1>4, <1>5, <1>6, <1>7 DEF SessionInStep

(* The CLI writes the line that names its session before an answer.        *)
LEMMA SessionCli ==
  ASSUME IInv, CliNext, UNCHANGED <<process, mode, sessionId, parsed, outcome, replies>>
  PROVE  SessionInStep'
<1>1. TypeOK /\ CliTypeOK /\ SessionInStep
  BY DEF IInv, TypeOK
<1>2. Named' = Named /\ (AnswerKnown' <=> AnswerKnown)
  BY DEF Named, AnswerKnown, Received
<1>3. CASE \E p \in Procs : CliExit(p)
  BY <1>1, <1>2, <1>3 DEF CliExit, CliTypeOK, SessionInStep, Procs
<1>4. ASSUME NEW p \in Procs,
             \/ CliReady(p) \/ CliText(p) \/ (\E c \in Calls : CliCall(p, c))
             \/ CliAnswer(p) \/ CliFailure(p) \/ CliMissing(p)
      PROVE  SessionInStep'
  <2>1. PICK line \in Lines :
          /\ Write(p, line)
          /\ phase'[p] = "ready" => phase[p] = "ready" \/ line = "init"
          /\ line = "answer" => phase[p] = "ready"
          /\ \A q \in Procs : q # p => phase'[q] = phase[q]
    BY <1>1, <1>4, LineFacts
       DEF CliTypeOK, CliReady, CliText, CliCall, CliAnswer, CliFailure, CliMissing
  <2>2. /\ status[p] = "up" /\ status' = status
        /\ \A q \in Procs : q # p => pipe'[q] = pipe[q]
        /\ pipe[p] \in Seq(Lines)
        /\ Len(pipe'[p]) = Len(pipe[p]) + 1
        /\ pipe'[p][Len(pipe[p]) + 1] = line
        /\ \A i \in 1..Len(pipe[p]) : pipe'[p][i] = pipe[p][i]
    BY <1>1, <2>1, WriteFacts
  <2>3. p = process /\ Len(pipe[p]) \in Nat
    BY <2>2 DEF IInv, ProcessesInOrder
  <2>4. ASSUME ~parsed, sessionId # Named
        PROVE  /\ phase'[p] = "ready" => \E j \in 1..Len(pipe'[p]) : pipe'[p][j] = "init"
               /\ \A i \in 1..Len(pipe'[p]) : pipe'[p][i] = "answer" =>
                    \E j \in 1..i-1 : pipe'[p][j] = "init"
    <3>1. /\ phase[p] = "ready" => \E j \in 1..Len(pipe[p]) : pipe[p][j] = "init"
          /\ \A i \in 1..Len(pipe[p]) : pipe[p][i] = "answer" =>
               \E j \in 1..i-1 : pipe[p][j] = "init"
      BY <1>1, <2>3, <2>4 DEF SessionInStep, Procs
    <3>2. phase'[p] = "ready" => \E j \in 1..Len(pipe'[p]) : pipe'[p][j] = "init"
      <4>1. \A j \in 1..Len(pipe[p]) : j \in 1..Len(pipe'[p])
        BY <2>2, <2>3
      <4>2. Len(pipe[p]) + 1 \in 1..Len(pipe'[p])
        BY <2>2, <2>3
      <4> QED
        BY <2>1, <2>2, <3>1, <4>1, <4>2
    <3>3. ASSUME NEW i \in 1..Len(pipe'[p]), pipe'[p][i] = "answer"
          PROVE  \E j \in 1..i-1 : pipe'[p][j] = "init"
      <4>1. CASE i = Len(pipe[p]) + 1
        <5>1. PICK j \in 1..Len(pipe[p]) : pipe[p][j] = "init"
          BY <2>1, <2>2, <3>1, <3>3, <4>1
        <5>2. j \in 1..i-1 /\ pipe'[p][j] = "init"
          BY <2>2, <2>3, <4>1, <5>1
        <5> QED
          BY <5>2
      <4>2. CASE i # Len(pipe[p]) + 1
        <5>1. i \in 1..Len(pipe[p]) /\ pipe[p][i] = "answer"
          BY <2>2, <2>3, <3>3, <4>2
        <5>2. PICK j \in 1..i-1 : pipe[p][j] = "init"
          BY <3>1, <5>1
        <5>3. j \in 1..Len(pipe[p])
          BY <2>3, <5>1
        <5> QED
          BY <2>2, <5>2, <5>3
      <4> QED
        BY <4>1, <4>2
    <3> QED
      BY <3>2, <3>3
  <2>5. \A q \in Procs : status'[q] = "unborn" => phase'[q] = "booting"
    BY <1>1, <2>1, <2>2 DEF SessionInStep
  <2> QED
    BY <1>1, <1>2, <2>2, <2>3, <2>4, <2>5 DEF SessionInStep
<1> QED
  BY <1>3, <1>4 DEF CliNext

LEMMA SessionStep == IInv /\ [Next]_vars => SessionInStep'
<1> SUFFICES ASSUME IInv, [Next]_vars PROVE SessionInStep'
  OBVIOUS
<1>t. /\ TypeOK /\ ProcessesInOrder /\ RunInStep /\ SessionInStep
      /\ callback \in 0..MaxAsks /\ outcome \in Replies \cup {"none"}
  BY DEF IInv, TypeOK
<1> USE ReplyFacts
<1>1. CASE RefuseAsk
  <2>1. AnswerKnown' => AnswerKnown
    BY <1>1, <1>t, NextAskFacts, AnswerAtOnce DEF RefuseAsk, runVars
  <2> QED
    BY <1>1, <2>1, SessionKept DEF RefuseAsk, cliVars, runVars
<1>2. CASE BeginWithoutProgram \/ AskWithoutResults
  <2>1. AnswerKnown' => AnswerKnown
    BY <1>2, <1>t, NextAskFacts, AnswerDelivered
       DEF BeginWithoutProgram, AskWithoutResults, Conclude
  <2> QED
    BY <1>2, <2>1, SessionKept DEF BeginWithoutProgram, AskWithoutResults
<1>3. CASE Begin
  <2>1. /\ Spawn(PlanFor(FALSE), TRUE) /\ UNCHANGED <<phase, pipe, outcome, replies>>
        /\ stage = "Idle" /\ ~down
    BY <1>3 DEF Begin, NextAsk
  <2>2. process = 0 /\ ~parsed
    BY <1>t, <2>1 DEF ProcessesInOrder, RunInStep
  <2>3. ~AnswerKnown /\ (AnswerKnown' => AnswerKnown)
    BY <1>t, <2>1, <2>2, AnswerKept DEF SessionInStep
  <2>4. pipe'[process + 1] = pipe[process + 1] /\ process # 1
    BY <2>1, <2>2
  <2> QED
    BY <2>1, <2>2, <2>3, <2>4, SessionSpawned
<1>4. CASE AskWithResults
  <2>1. CASE queued = {}
    BY <1>4, <2>1, AnswerKept, SessionKept DEF AskWithResults, cliVars
  <2>2. CASE queued # {}
    <3>1. AnswerKnown' => AnswerKnown
      BY <1>4, <1>t, <2>2, NextAskFacts, AnswerDelivered DEF AskWithResults
    <3> QED
      BY <1>4, <3>1, SessionKept DEF AskWithResults, cliVars
  <2> QED
    BY <2>1, <2>2
<1>5. CASE AskFinished
  <2> DEFINE reply == IF outcome = "none" THEN "server_error" ELSE outcome
  <2>1. reply \in Replies /\ (reply = "answer" => outcome = "answer")
    BY <1>t
  <2>2. asks + 1 \in Asks /\ replies' = [replies EXCEPT ![asks + 1] = Append(@, reply)]
        /\ outcome' = "none"
    BY <1>5, <1>t, NextAskFacts DEF AskFinished
  <2> HIDE DEF reply
  <2>3. AnswerKnown' => AnswerKnown
    BY <1>t, <2>1, <2>2, AnswerAtOnce
  <2> QED
    BY <1>5, <2>3, SessionKept DEF AskFinished, cliVars
<1>6. CASE Shutdown
  <2>1. UNCHANGED <<phase, mode, sessionId, outcome, replies, parsed>> /\ process' = 0
    BY <1>6 DEF Shutdown, historyVars
  <2>2. \A p \in Procs : status'[p] = "unborn" <=> status[p] = "unborn"
    <3>1. 1 \in Procs /\ 2 \in Procs /\ \A p \in Procs : p # 0
      BY DEF Procs
    <3> QED
      BY <2>1, <3>1, StatusStep
  <2>3. Named' = Named /\ (AnswerKnown' => AnswerKnown)
    BY <2>1, AnswerKept DEF Named
  <2> QED
    BY <1>t, <2>1, <2>2, <2>3 DEF SessionInStep, Procs
<1>7. ASSUME NEW last \in BOOLEAN, ReadInit(last) PROVE SessionInStep'
  <2>1. /\ ~parsed /\ UNCHANGED <<parsed, mode, phase, process>>
        /\ sessionId' = (IF mode = "Resume" THEN "given" ELSE "new") /\ EndLine(queued, last)
    BY <1>7 DEF ReadInit
  <2>2. ~AnswerKnown'
    BY <1>t, <2>1, AnswerFlush DEF SessionInStep
  <2>3. \A p \in Procs : status'[p] = "unborn" <=> status[p] = "unborn"
    BY <1>7 DEF ReadInit
  <2>4. sessionId' = Named'
    BY <2>1 DEF Named
  <2>5. status'[2] # "unborn" => sessionId' # "given"
    BY <1>t, <2>1, <2>3 DEF ProcessesInOrder, Procs
  <2> QED
    BY <1>t, <2>1, <2>2, <2>3, <2>4, <2>5 DEF SessionInStep
<1>8. ASSUME NEW last \in BOOLEAN, ReadText(last) \/ \E c \in Calls : ReadCall(c, last)
      PROVE  SessionInStep'
  <2>1. PICK q : EndLine(q, last)
    BY <1>8 DEF ReadText, ReadCall
  <2>2. PICK line : TakeLine(line, last) /\ (line # "init" \/ parsed)
    <3>1. CASE ReadText(last)
      BY <3>1 DEF ReadText
    <3>2. ASSUME NEW c \in Calls, ReadCall(c, last)
          PROVE  TakeLine(c, last) /\ c # "init"
      BY <3>2, LineFacts DEF ReadCall
    <3> QED
      BY <1>8, <3>1, <3>2
  <2>3. UNCHANGED <<process, mode, sessionId, phase, parsed>>
    BY <1>8 DEF ReadText, ReadCall
  <2>4. AnswerKnown' => AnswerKnown
    BY <1>t, <2>1, AnswerFlush
  <2> QED
    BY <2>2, <2>3, <2>4, SessionTaken
<1>9. ASSUME NEW last \in BOOLEAN, ReadResult(last) PROVE SessionInStep'
  <2>1. PICK reply \in {"answer", "server_error", "not_logged_in"} :
          /\ TakeLine(IF reply = "answer" THEN "answer" ELSE "failure", last)
          /\ Conclude(callback, reply, "Graceful")
    BY <1>9 DEF ReadResult
  <2>2. ~parsed /\ parsed' = TRUE /\ UNCHANGED <<process, mode, sessionId, phase>>
    BY <1>9 DEF ReadResult
  <2>3. CASE reply # "answer"
    <3>1. AnswerKnown' => AnswerKnown
      BY <1>t, <2>1, <2>3, AnswerDelivered DEF Conclude
    <3> QED
      BY <2>1, <2>2, <3>1, SessionTaken
  <2>4. CASE reply = "answer"
    <3>1. process \in Procs /\ pipe[process][1] = "answer" /\ 1 \in 1..Len(pipe[process])
      <4>1. process \in Procs /\ pipe[process] \in Seq(Lines) /\ pipe[process] # << >>
            /\ pipe[process][1] = "answer"
        BY <1>t, <2>1, <2>4, TakeLineFacts
      <4> QED
        BY <4>1
    <3>2. sessionId = Named
      BY <1>t, <2>2, <3>1 DEF SessionInStep, Procs
    <3> QED
      BY <2>1, <2>2, <2>4, <3>2, SessionTaken
  <2> QED
    BY <2>3, <2>4
<1>10. ASSUME NEW last \in BOOLEAN, ReadMissing(last) PROVE SessionInStep'
  <2>1. TakeLine("missing", last) /\ Conclude(callback, "server_error", "Kill")
        /\ parsed' = TRUE /\ UNCHANGED <<process, mode, sessionId, phase>>
    BY <1>10 DEF ReadMissing
  <2>2. AnswerKnown' => AnswerKnown
    BY <1>t, <2>1, AnswerDelivered DEF Conclude
  <2> QED
    BY <2>1, <2>2, SessionTaken
<1>11. CASE Reseed
  <2>1. /\ ~parsed /\ mode = "Resume" /\ Spawn(PlanFor(TRUE), stage = "Running")
        /\ UNCHANGED <<phase, outcome, replies>>
    BY <1>11 DEF Reseed
  <2>2. PICK last \in BOOLEAN : TakeLine("missing", last)
    BY <1>11 DEF Reseed
  <2>3. ~down /\ process = 1
    <3>1. status[2] = "unborn" /\ process \in Procs /\ status[process] # "unborn" /\ ~down
      BY <1>t, <2>1, <2>2, TakeLineFacts DEF ProcessesInOrder, TakeLine
    <3> QED
      BY <3>1 DEF Procs
  <2>4. pipe'[process + 1] = pipe[process + 1]
    <3>1. process + 1 \in Procs /\ process + 1 # process
      BY <2>3 DEF Procs
    <3> QED
      BY <1>t, <2>2, <3>1, TakeLineFacts
  <2>5. ~AnswerKnown
    BY <1>t, <2>1 DEF SessionInStep
  <2> QED
    BY <2>1, <2>3, <2>4, <2>5, AnswerKept, SessionSpawned
<1>12. CASE ProcessFinished
  BY <1>12, AnswerKept, SessionKept DEF ProcessFinished, historyVars
<1>13. CASE DrainEnds
  <2>1. AnswerKnown' => AnswerKnown
    BY <1>13, <1>t, AnswerFlush DEF DrainEnds
  <2> QED
    BY <1>13, <2>1, SessionKept DEF DrainEnds, cliVars
<1>14. CASE StreamEnds \/ StartFailed \/ IdleTimeout \/ HardTimeout
  <2>1. \/ UNCHANGED <<outcome, replies>>
        \/ \E reply \in {"server_error", "network_error", "timeout"} : Deliver(callback, reply)
    BY <1>14 DEF StreamEnds, StartFailed, IdleTimeout, HardTimeout, Conclude
  <2>2. AnswerKnown' => AnswerKnown
    BY <1>t, <2>1, AnswerKept, AnswerDelivered
  <2>3. UNCHANGED <<process, mode, sessionId, pipe, phase>> /\ (parsed => parsed')
    BY <1>14 DEF StreamEnds, StartFailed, IdleTimeout, HardTimeout
  <2> QED
    BY <2>2, <2>3, SessionKept
<1>15. CASE Cli
  BY <1>15, SessionCli DEF Cli, runVars, historyVars
<1>16. CASE UNCHANGED vars
  BY <1>16, AnswerKept, SessionKept DEF vars, cliVars, runVars, historyVars
<1> QED
  BY <1>1, <1>2, <1>3, <1>4, <1>5, <1>6, <1>7, <1>8, <1>9, <1>10, <1>11, <1>12, <1>13,
     <1>14, <1>15, <1>16, StepCases

-----------------------------------------------------------------------------
(* The theorems.                                                           *)
LEMMA InvInit == Init => IInv
<1> SUFFICES ASSUME Init PROVE IInv
  OBVIOUS
<1>1. TypeOK
  <2>1. CliTypeOK
    BY DEF Init, CliInit, CliTypeOK, Statuses, Phases
  <2>2. replies \in [Asks -> Seq(Replies)] /\ asks \in 0..MaxAsks /\ callback \in 0..MaxAsks
    BY MaxAsksAssumption DEF Init
  <2>3. sessionId \in SessionIds
    BY DEF Init, SessionIds
  <2>4. session \in Sessions /\ stage \in Stages /\ mode \in Modes /\ process \in 0..2
    BY DEF Init, Stages, Modes
  <2>5. down \in BOOLEAN /\ idleTimer \in BOOLEAN /\ hardTimer \in BOOLEAN /\ parsed \in BOOLEAN
    BY Zenon DEF Init
  <2>6. /\ queued \in SUBSET Calls /\ awaiting \in SUBSET Calls
        /\ heard \in SUBSET (Procs \X Calls) /\ answered \in SUBSET (Procs \X Calls)
    BY DEF Init
  <2>7. outcome \in Replies \cup {"none"} /\ pump \in {"no", "output", "drain", "end"}
    BY DEF Init
  <2> QED
    BY <2>1, <2>2, <2>3, <2>4, <2>5, <2>6, <2>7 DEF TypeOK
<1>2. PipesInOrder
  BY DEF Init, CliInit, PipesInOrder
<1>3. ProcessesInOrder
  BY DEF Init, CliInit, ProcessesInOrder, Procs
<1>4. CallbackInStep
  BY MaxAsksAssumption DEF Init, CallbackInStep, Asks
<1>5. RunInStep /\ ToolCallsConserved
  BY DEF Init, RunInStep, ToolCallsConserved
<1>6. SessionInStep
  <2>1. ~AnswerKnown
    BY DEF Init, AnswerKnown, Received
  <2> QED
    BY <2>1 DEF Init, CliInit, SessionInStep, Procs
<1> QED
  BY <1>1, <1>2, <1>3, <1>4, <1>5, <1>6 DEF IInv

(* The inductive invariant holds in every state of every run.              *)
THEOREM Inductive == Spec => []IInv
<1>1. IInv /\ [Next]_vars => IInv'
  BY TypeStep, PipesStep, ProcessesStep, CallbackStep, RunStep, ToolCallsStep, SessionStep
  DEF IInv
<1> QED
  BY InvInit, <1>1, PTL DEF Spec

(* Every variable keeps its type, whatever the callbacks do: TypeOK.       *)
THEOREM TypeCorrect == Spec => []TypeOK
<1>1. IInv => TypeOK
  BY DEF IInv
<1> QED
  BY Inductive, <1>1, PTL

(* Every ask is called back exactly once: ClaudeStdioClient::ask,          *)
(* deliver and the handlers between them, for any number of asks.          *)
THEOREM AsksAnsweredOnce == Spec => []NoAskLost
<1>1. IInv => NoAskLost
  BY DEF IInv, CallbackInStep, NoAskLost, TypeOK, Asks
<1> QED
  BY Inductive, <1>1, PTL

(* No tool call is dropped, handed out twice or answered to the wrong      *)
(* process: dispatch, flushToolCalls and answerTools, for any set of calls. *)
THEOREM ToolCallsAccounted == Spec => []ToolCallsConserved
<1>1. IInv => ToolCallsConserved
  BY DEF IInv
<1> QED
  BY Inductive, <1>1, PTL

(* A run that owes an answer has its timers armed and a process whose end  *)
(* is still to be signalled, through spawn and the reseeding respawn.      *)
THEOREM RunsAreNotStranded == Spec => []NeverStranded
<1>1. IInv => NeverStranded
  BY DEF IInv, RunInStep, NeverStranded
<1> QED
  BY Inductive, <1>1, PTL

(* At most one CLI process of a run is alive (spawn, retireProcess), and   *)
(* none once the client was destroyed.                                     *)
THEOREM OneCli == Spec => []OneCliAtATime
<1>1. IInv => OneCliAtATime
  BY DEF IInv, ProcessesInOrder, OneCliAtATime, Procs
<1> QED
  BY Inductive, <1>1, PTL

------------------------------------------------------------(* The session stored after an answer is the one the answering CLI keeps,  *)
(* and a missing one is not offered again: SessionStarted and Answer in    *)
(* StreamJsonParser, spawn and handleSessionMissing, for any order of      *)
(* output, results, timeouts and reseeding.                                *)
THEOREM AnswerNamesSession == Spec => []SessionOfTheAnswer
<1>1. IInv => SessionOfTheAnswer
  BY DEF IInv, SessionInStep, SessionOfTheAnswer, AnswerKnown, Named
<1> QED
  BY Inductive, <1>1, PTL

-----------------
(* ClaudeRun implements Completions: a step of the run is a step of the    *)
(* abstract client, or nothing its caller can see.                         *)
ClientStep == Service!Next \/ UNCHANGED <<asks, callback, replies, down>>

LEMMA ServiceDeliver ==
  ASSUME NEW reply \in Replies, Deliver(callback, reply), UNCHANGED <<asks, down>>
  PROVE  ClientStep
BY DEF Deliver, ClientStep, Service!Next, Service!Answer

LEMMA ServiceAtOnce ==
  ASSUME TypeOK, NextAsk, NEW reply \in Replies, UNCHANGED <<down, callback>>,
         replies' = [replies EXCEPT ![asks + 1] = Append(@, reply)]
  PROVE  ClientStep
BY DEF NextAsk, ClientStep, Service!Next, Service!AnswerAtOnce

LEMMA ServiceNew ==
  ASSUME IInv, NextAsk, stage # "Running", NEW reply \in Replies,
         Deliver(asks + 1, reply), UNCHANGED down
  PROVE  ClientStep
<1>1. asks + 1 # 0 /\ callback = 0
  BY NextAskFacts DEF IInv, CallbackInStep
<1> QED
  BY <1>1, ServiceAtOnce DEF Deliver, IInv

LEMMA ServiceAccept ==
  ASSUME IInv, NextAsk, stage # "Running", callback' = asks + 1, UNCHANGED <<down, replies>>
  PROVE  ClientStep
<1>1. callback = 0
  BY DEF IInv, CallbackInStep
<1> QED
  BY <1>1 DEF NextAsk, ClientStep, Service!Next, Service!Accept

LEMMA ServiceFlush ==
  ASSUME NEW q, NEW timer, FlushToolCalls(q, timer), UNCHANGED <<asks, down>>
  PROVE  ClientStep
BY ServiceDeliver, ReplyFacts DEF FlushToolCalls, Flushes, ClientStep

LEMMA ServiceStep == IInv /\ [Next]_vars => ClientStep
<1> SUFFICES ASSUME IInv, [Next]_vars PROVE ClientStep
  OBVIOUS
<1>t. TypeOK /\ CallbackInStep
  BY DEF IInv
<1> USE ReplyFacts
<1>1. CASE RefuseAsk
  BY <1>1, <1>t, ServiceAtOnce DEF RefuseAsk, runVars
<1>2. CASE BeginWithoutProgram
  BY <1>2, ServiceNew DEF BeginWithoutProgram, Conclude
<1>3. CASE Begin
  BY <1>3, ServiceAccept DEF Begin
<1>4. CASE AskWithoutResults
  BY <1>4, ServiceNew DEF AskWithoutResults, Conclude
<1>5. CASE AskWithResults
  <2>1. CASE queued = {}
    BY <1>5, <2>1, ServiceAccept DEF AskWithResults
  <2>2. CASE queued # {}
    BY <1>5, <2>2, ServiceNew DEF AskWithResults
  <2> QED
    BY <2>1, <2>2
<1>6. CASE AskFinished
  <2>1. (IF outcome = "none" THEN "server_error" ELSE outcome) \in Replies
    BY <1>t DEF TypeOK
  <2>2. callback = 0
    BY <1>6, <1>t DEF AskFinished, CallbackInStep
  <2> QED
    BY <1>6, <1>t, <2>1, <2>2, ServiceAtOnce DEF AskFinished
<1>7. CASE Shutdown
  BY <1>7 DEF Shutdown, historyVars, ClientStep, Service!Next, Service!Close
<1>8. ASSUME NEW last \in BOOLEAN,
             ReadInit(last) \/ ReadText(last) \/ \E c \in Calls : ReadCall(c, last)
      PROVE  ClientStep
  <2>1. UNCHANGED <<down, asks>>
    BY <1>8 DEF ReadInit, ReadText, ReadCall
  <2>2. PICK q : EndLine(q, last)
    BY <1>8 DEF ReadInit, ReadText, ReadCall
  <2>3. CASE last
    BY <2>1, <2>2, <2>3, ServiceFlush DEF EndLine
  <2>4. CASE ~last
    BY <2>1, <2>2, <2>4 DEF EndLine, ClientStep
  <2> QED
    BY <2>3, <2>4
<1>9. ASSUME NEW last \in BOOLEAN, ReadResult(last) PROVE ClientStep
  BY <1>9, ServiceDeliver DEF ReadResult, Conclude
<1>10. ASSUME NEW last \in BOOLEAN, ReadMissing(last) PROVE ClientStep
  BY <1>10, ServiceDeliver DEF ReadMissing, Conclude
<1>11. CASE Reseed \/ ProcessFinished
  BY <1>11 DEF Reseed, ProcessFinished, historyVars, ClientStep
<1>12. CASE DrainEnds
  BY <1>12, ServiceFlush DEF DrainEnds
<1>13. CASE StreamEnds
  BY <1>13, ServiceDeliver DEF StreamEnds, ClientStep
<1>14. CASE StartFailed
  BY <1>14, ServiceDeliver DEF StartFailed, ClientStep
<1>15. CASE IdleTimeout \/ HardTimeout
  BY <1>15, ServiceDeliver DEF IdleTimeout, HardTimeout, Conclude, ClientStep
<1>16. CASE Cli \/ UNCHANGED vars
  BY <1>16 DEF Cli, vars, runVars, historyVars, ClientStep
<1> QED
  BY <1>1, <1>2, <1>3, <1>4, <1>5, <1>6, <1>7, <1>8, <1>9, <1>10, <1>11, <1>12, <1>13,
     <1>14, <1>15, <1>16, StepCases

(* A run is a client as an Agent expects one: it accepts an ask only when  *)
(* none is open, answers it once, and calls nobody after its destruction   *)
(* (ClaudeStdioClient behind Client::createCompletionAsync).               *)
THEOREM RunIsAClient == Spec => IsAClient
<1>1. Init => Service!Init
  BY DEF Init, Service!Init, Asks
<1>2. IInv /\ [Next]_vars => [Service!Next]_(Service!vars)
  BY ServiceStep DEF ClientStep, Service!vars
<1> QED
  BY <1>1, <1>2, Inductive, PTL DEF Spec, IsAClient, Service!Spec
=============================================================================
