------------------------------ MODULE ClaudeRun ------------------------------
(***************************************************************************)
(* ClaudeStdioClient::Run (cpp/agent/claudestdioclient.cpp): one run of    *)
(* the Claude CLI behind the Client interface.  The caller asks for a      *)
(* completion and gets it through a callback; the completion is either the *)
(* end of the run or a batch of tool calls, whose results the caller hands *)
(* in with its next ask.                                                   *)
(*                                                                         *)
(* Everything runs on one thread, so a Qt event handler is one step, with  *)
(* one exception: the handlers call back into the application, which may   *)
(* destroy the client or ask again from inside the callback.  A chunk of   *)
(* output is therefore taken line by line; "pump" says which handler is in *)
(* the middle of its work, and only the application may then step in.      *)
(***************************************************************************)
EXTENDS ClaudeCli, TLC

CONSTANTS
  MaxAsks,    \* bound: asks the application makes on one run
  IdleLimit,  \* ClaudeLauncher::idleTimeoutMs > 0
  HardLimit   \* ClaudeLauncher::hardTimeoutMs > 0

ASSUME MaxAsksAssumption == MaxAsks \in Nat \ {0}
ASSUME LimitsAssumption == IdleLimit \in BOOLEAN /\ HardLimit \in BOOLEAN

Asks == 1..MaxAsks

(* The completions a callback can receive: the tokens of claudecli::failure *)
(* next to the two finish reasons "stop" and "tool_calls".                  *)
Failures == {"server_error", "network_error", "timeout", "not_logged_in"}
Outcomes == Failures \cup {"answer"}
Replies == Outcomes \cup {"tool_calls"}

Stages == {"Idle", "Running", "AwaitingTools", "Finished"}
Modes == {"Seed", "Resume", "Ephemeral"}

(* What ClaudeSession the client was made with: keep = false, keep without *)
(* a usable id, keep with an id to resume.                                 *)
Sessions == {"unkept", "fresh", "resume"}

(* m_sessionId: none, the id of ClaudeSession::resume, or one made for the *)
(* process now running.                                                    *)
SessionIds == {"none", "given", "new"}

VARIABLES
  session,    \* m_session
  stage,      \* m_stage
  mode,       \* m_mode
  down,       \* m_down
  sessionId,  \* m_sessionId
  callback,   \* m_callback: the ask it belongs to, 0 when null
  outcome,    \* m_outcome: the completion nobody asked for yet, or "none"
  queued,     \* m_queued
  awaiting,   \* m_awaiting
  process,    \* m_process: 0 when null
  idleTimer,  \* the idle timer is active
  hardTimer,  \* the hard timer is active
  parsed,     \* StreamJsonParser::m_finished
  pump,       \* the handler in progress: "no", "output", "drain" or "end"
  asks,       \* history: asks accepted or refused so far
  replies,    \* history: [Asks -> Seq(Replies)], what each callback received
  heard,      \* history: <<process, call>> requests the parser reported
  answered    \* history: <<process, call>> results written to a process

runVars == <<session, stage, mode, down, sessionId, callback, outcome, queued,
             awaiting, process, idleTimer, hardTimer, parsed, pump>>
historyVars == <<asks, replies, heard, answered>>
vars == <<cliVars, runVars, historyVars>>

TypeOK ==
  /\ CliTypeOK
  /\ session \in Sessions
  /\ stage \in Stages
  /\ mode \in Modes
  /\ down \in BOOLEAN
  /\ sessionId \in SessionIds
  /\ callback \in 0..MaxAsks
  /\ outcome \in Replies \cup {"none"}
  /\ queued \in SUBSET Calls
  /\ awaiting \in SUBSET Calls
  /\ process \in 0..2
  /\ idleTimer \in BOOLEAN
  /\ hardTimer \in BOOLEAN
  /\ parsed \in BOOLEAN
  /\ pump \in {"no", "output", "drain", "end"}
  /\ asks \in 0..MaxAsks
  /\ replies \in [Asks -> Seq(Replies)]
  /\ heard \in SUBSET (Procs \X Calls)
  /\ answered \in SUBSET (Procs \X Calls)

Init ==
  /\ CliInit
  /\ session \in Sessions
  /\ stage = "Idle"
  /\ mode = "Ephemeral"
  /\ down = FALSE
  /\ sessionId = IF session = "resume" THEN "given" ELSE "none"
  /\ callback = 0
  /\ outcome = "none"
  /\ queued = {}
  /\ awaiting = {}
  /\ process = 0
  /\ idleTimer = FALSE
  /\ hardTimer = FALSE
  /\ parsed = FALSE
  /\ pump = "no"
  /\ asks = 0
  /\ replies = [a \in Asks |-> << >>]
  /\ heard = {}
  /\ answered = {}

-----------------------------------------------------------------------------
(* Pieces the handlers share.  Each says which variables it assigns.       *)

(* Mutant of Deliver: the callback is called but not let go.               *)
DeliverTwice(cb, reply) ==
  /\ callback' = cb
  /\ IF cb = 0
       THEN outcome' = reply /\ UNCHANGED replies
       ELSE replies' = [replies EXCEPT ![cb] = Append(@, reply)] /\ UNCHANGED outcome

(* deliver() with m_callback = cb: assigns callback, outcome and replies.  *)
Deliver(cb, reply) ==
  /\ callback' = 0
  /\ IF cb = 0
       THEN outcome' = reply /\ UNCHANGED replies
       ELSE replies' = [replies EXCEPT ![cb] = Append(@, reply)] /\ UNCHANGED outcome

(* conclude() with m_callback = cb: also assigns stage, idleTimer, status. *)
(* Closing the write channel leaves the CLI free to exit, as it always is. *)
Conclude(cb, reply, closing) ==
  /\ stage' = "Finished"
  /\ idleTimer' = FALSE
  /\ status' = IF closing = "Kill" THEN Killed(process) ELSE status
  /\ Deliver(cb, reply)

(* restartIdleTimer(), and its mutant that leaves the timer as it is.      *)
IdleForgotten == idleTimer
IdleRestarted == IdleLimit \/ idleTimer

(* createTimers() starts the hard timer; its mutant does not.              *)
HardForgotten == FALSE
HardStarted == HardLimit

(* The early return of flushToolCalls(); its mutant flushes in any stage,  *)
(* so over the batch the caller still works on.                            *)
FlushesAlways(q) == q # {}
Flushes(q) == stage = "Running" /\ q # {}

(* flushToolCalls() when the queue holds q: assigns stage, idleTimer,      *)
(* queued, awaiting, callback, outcome, replies; "timer" is the state of   *)
(* the idle timer should there be nothing to flush.                        *)
FlushToolCalls(q, timer) ==
  IF Flushes(q)
    THEN /\ stage' = "AwaitingTools"
         /\ idleTimer' = FALSE
         /\ queued' = {}
         /\ awaiting' = q
         /\ Deliver(callback, "tool_calls")
    ELSE /\ queued' = q
         /\ idleTimer' = timer
         /\ UNCHANGED <<stage, awaiting, callback, outcome, replies>>

(* planFor(reseed); its mutant resumes the missing session again.          *)
PlanAlike(reseed) ==
  IF session = "unkept" THEN "Ephemeral"
  ELSE IF session = "resume" THEN "Resume" ELSE "Seed"
PlanFor(reseed) ==
  IF session = "unkept" THEN "Ephemeral"
  ELSE IF session = "resume" /\ ~reseed THEN "Resume" ELSE "Seed"

(* m_sessionId in spawn(plan); its mutant keeps the old id.                *)
IdKept(plan) == sessionId
IdFor(plan) == IF plan = "Resume" THEN "given" ELSE "none"

(* What retireProcess() leaves of the old process; its mutant spares it.   *)
RetiredAlive == status
Retired == Killed(process)

(* spawn(plan), after retireProcess() when there is an old process: the new *)
(* one is "up" or "failed" and is fed only if the run is Running by then.   *)
(* A start that fails at once is one whose error signal comes first.        *)
Spawn(plan, running) ==
  LET new == process + 1 IN
  /\ \E started \in {"up", "failed"} :
       status' = [Retired EXCEPT ![new] = started]
  /\ process' = new
  /\ mode' = plan
  /\ sessionId' = IdFor(plan)
  /\ parsed' = FALSE
  /\ queued' = {}
  /\ fed' = IF running THEN fed \cup {new} ELSE fed
  /\ idleTimer' = IF running THEN IdleRestarted ELSE idleTimer

-----------------------------------------------------------------------------
(* ask(): one action per stage, and begin() with and without a program.    *)

AskRunning == stage = "Running"

NextAsk ==
  /\ ~down
  /\ pump \in {"no", "end"}
  /\ asks < MaxAsks
  /\ asks' = asks + 1

RefuseAsk ==
  /\ NextAsk
  /\ AskRunning
  /\ replies' = [replies EXCEPT ![asks + 1] = Append(@, "server_error")]
  /\ UNCHANGED <<cliVars, runVars, heard, answered>>

BeginWithoutProgram ==
  /\ NextAsk
  /\ stage = "Idle"
  /\ Conclude(asks + 1, "network_error", "Graceful")
  /\ UNCHANGED <<phase, pipe, fed, called, session, mode, down, sessionId, queued,
                 awaiting, process, hardTimer, parsed, pump, heard, answered>>

Begin ==
  /\ NextAsk
  /\ stage = "Idle"
  /\ stage' = "Running"
  /\ callback' = asks + 1
  /\ hardTimer' = HardStarted
  /\ Spawn(PlanFor(FALSE), TRUE)
  /\ UNCHANGED <<phase, pipe, called, session, down, outcome, awaiting, pump,
                 replies, heard, answered>>

(* answerTools(): a message list that lacks a result ends the run.         *)
AskWithoutResults ==
  /\ NextAsk
  /\ stage = "AwaitingTools"
  /\ Conclude(asks + 1, "server_error", "Kill")
  /\ UNCHANGED <<phase, pipe, fed, called, session, mode, down, sessionId, queued,
                 awaiting, process, hardTimer, parsed, pump, heard, answered>>

(* answerTools() with every result: the calls that were queued meanwhile   *)
(* go out at once, to the ask that brought the results.                    *)
AskWithResults ==
  /\ NextAsk
  /\ stage = "AwaitingTools"
  /\ answered' = answered \cup ({process} \X awaiting)
  /\ awaiting' = queued
  /\ queued' = {}
  /\ IF queued = {}
       THEN /\ stage' = "Running"
            /\ idleTimer' = IdleRestarted
            /\ callback' = asks + 1
            /\ UNCHANGED <<outcome, replies>>
       ELSE /\ stage' = "AwaitingTools"
            /\ idleTimer' = FALSE
            /\ Deliver(asks + 1, "tool_calls")
  /\ UNCHANGED <<cliVars, session, mode, down, sessionId, process, hardTimer,
                 parsed, pump, heard>>

AskFinished ==
  /\ NextAsk
  /\ stage = "Finished"
  /\ callback' = 0
  /\ replies' = [replies EXCEPT ![asks + 1] =
                   Append(@, IF outcome = "none" THEN "server_error" ELSE outcome)]
  /\ outcome' = "none"
  /\ UNCHANGED <<cliVars, session, stage, mode, down, sessionId, queued, awaiting,
                 process, idleTimer, hardTimer, parsed, pump, heard, answered>>

(* ~ClaudeStdioClient, at any time, also from inside a callback.           *)
Shutdown ==
  /\ ~down
  /\ down' = TRUE
  /\ callback' = 0
  /\ idleTimer' = FALSE
  /\ hardTimer' = FALSE
  /\ status' = Retired
  /\ process' = 0
  /\ pump' = "no"
  /\ UNCHANGED <<phase, pipe, fed, called, session, stage, mode, sessionId, outcome,
                 queued, awaiting, parsed, historyVars>>

-----------------------------------------------------------------------------
(* onOutput() and dispatch().  The process's readyRead delivers a chunk,   *)
(* an arbitrary number of lines; "last" marks its last line, after which   *)
(* dispatch() flushes.  onFinished() reads what is left the same way and   *)
(* flushes in DrainEnds.                                                   *)

TakeLine(line, last) ==
  /\ ~down
  /\ process # 0
  /\ pump \in {"no", "output", "drain"}
  /\ status[process] \in {"up", "dead"}
  /\ pipe[process] # << >>
  /\ line = Head(pipe[process])
  /\ IF pump = "drain" THEN ~last ELSE last \/ Len(pipe[process]) > 1
  /\ pipe' = [pipe EXCEPT ![process] = Tail(@)]

Pumping(last) == IF pump = "drain" THEN "drain" ELSE IF last THEN "no" ELSE "output"

(* The idle timer as onOutput() leaves it; onFinished() does not touch it. *)
IdleAfterOutput ==
  IF stage = "Running" /\ pump = "no" THEN IdleRestarted ELSE idleTimer

EndLine(q, last) ==
  IF last THEN FlushToolCalls(q, IdleAfterOutput)
          ELSE /\ queued' = q
               /\ idleTimer' = IdleAfterOutput
               /\ UNCHANGED <<stage, awaiting, callback, outcome, replies>>

(* SessionStarted *)
ReadInit(last) ==
  /\ ~parsed
  /\ TakeLine("init", last)
  /\ pump' = Pumping(last)
  /\ sessionId' = IF mode = "Resume" THEN "given" ELSE "new"
  /\ EndLine(queued, last)
  /\ UNCHANGED <<status, phase, fed, called, session, mode, down, process, hardTimer,
                 parsed, asks, heard, answered>>

(* PartialText; and any line at all once the parser has finished.          *)
ReadText(last) ==
  /\ \E line \in Lines : TakeLine(line, last) /\ (line = "text" \/ parsed)
  /\ pump' = Pumping(last)
  /\ EndLine(queued, last)
  /\ UNCHANGED <<status, phase, fed, called, session, mode, down, sessionId, process,
                 hardTimer, parsed, asks, heard, answered>>

(* handleMcpRequest() of a tools/call for a known tool                     *)
ReadCall(c, last) ==
  /\ ~parsed
  /\ TakeLine(c, last)
  /\ pump' = Pumping(last)
  /\ heard' = heard \cup {<<process, c>>}
  /\ EndLine(queued \cup {c}, last)
  /\ UNCHANGED <<status, phase, fed, called, session, mode, down, sessionId, process,
                 hardTimer, parsed, asks, answered>>

(* Answer and Failure: conclude() runs whatever the stage is.              *)
ReadResult(last) ==
  /\ ~parsed
  /\ \E reply \in {"answer", "server_error", "not_logged_in"} :
       /\ TakeLine(IF reply = "answer" THEN "answer" ELSE "failure", last)
       /\ Conclude(callback, reply, "Graceful")
  /\ parsed' = TRUE
  /\ pump' = Pumping(last)
  /\ UNCHANGED <<phase, fed, called, session, mode, down, sessionId, queued, awaiting,
                 process, hardTimer, asks, heard, answered>>

(* handleSessionMissing() outside Resume                                   *)
ReadMissing(last) ==
  /\ ~parsed
  /\ mode # "Resume"
  /\ TakeLine("missing", last)
  /\ Conclude(callback, "server_error", "Kill")
  /\ parsed' = TRUE
  /\ pump' = Pumping(last)
  /\ UNCHANGED <<phase, fed, called, session, mode, down, sessionId, queued, awaiting,
                 process, hardTimer, asks, heard, answered>>

(* handleSessionMissing() in Resume: a new process and parser, in whatever *)
(* stage the run is; the interrupted handler has nothing left to do.       *)
Reseed ==
  /\ ~parsed
  /\ mode = "Resume"
  /\ \E last \in BOOLEAN : TakeLine("missing", last)
  /\ Spawn(PlanFor(TRUE), stage = "Running")
  /\ pump' = "no"
  /\ UNCHANGED <<phase, called, session, stage, down, callback, outcome, awaiting,
                 hardTimer, asks, replies, heard, answered>>

-----------------------------------------------------------------------------
(* onFinished(): nothing but the timers when the run is over; otherwise it *)
(* reads the rest of the output, flushes, and ends the stream.             *)

ProcessFinished ==
  /\ ~down
  /\ process # 0
  /\ pump = "no"
  /\ status[process] = "dead"
  /\ IF stage = "Finished"
       THEN /\ status' = [status EXCEPT ![process] = "gone"]
            /\ idleTimer' = FALSE
            /\ hardTimer' = FALSE
            /\ UNCHANGED pump
       ELSE /\ pump' = "drain"
            /\ UNCHANGED <<status, idleTimer, hardTimer>>
  /\ UNCHANGED <<phase, pipe, fed, called, session, stage, mode, down, sessionId,
                 callback, outcome, queued, awaiting, process, parsed, historyVars>>

DrainEnds ==
  /\ pump = "drain"
  /\ pipe[process] = << >>
  /\ FlushToolCalls(queued, idleTimer)
  /\ pump' = "end"
  /\ UNCHANGED <<cliVars, session, mode, down, sessionId, process, hardTimer, parsed,
                 asks, heard, answered>>

StreamEnds ==
  /\ pump = "end"
  /\ IF stage = "Finished" \/ parsed
       THEN UNCHANGED <<stage, callback, outcome, replies>>
       ELSE stage' = "Finished" /\ Deliver(callback, "server_error")
  /\ parsed' = TRUE
  /\ status' = [status EXCEPT ![process] = "gone"]
  /\ idleTimer' = FALSE
  /\ hardTimer' = FALSE
  /\ pump' = "no"
  /\ UNCHANGED <<phase, pipe, fed, called, session, mode, down, sessionId, queued,
                 awaiting, process, asks, heard, answered>>

(* onStartFailed() *)
StartFailed ==
  /\ ~down
  /\ process # 0
  /\ pump = "no"
  /\ status[process] = "failed"
  /\ IF stage = "Running"
       THEN /\ stage' = "Finished"
            /\ idleTimer' = FALSE
            /\ Deliver(callback, "network_error")
       ELSE UNCHANGED <<stage, idleTimer, callback, outcome, replies>>
  /\ status' = [status EXCEPT ![process] = "gone"]
  /\ UNCHANGED <<phase, pipe, fed, called, session, mode, down, sessionId, queued,
                 awaiting, process, hardTimer, parsed, pump, asks, heard, answered>>

-----------------------------------------------------------------------------
(* The single-shot timers.                                                 *)

IdleTimeout ==
  /\ idleTimer
  /\ ~down
  /\ pump = "no"
  /\ IF stage = "Running"
       THEN Conclude(callback, "timeout", "Kill")
       ELSE idleTimer' = FALSE /\ UNCHANGED <<stage, status, callback, outcome, replies>>
  /\ UNCHANGED <<phase, pipe, fed, called, session, mode, down, sessionId, queued,
                 awaiting, process, hardTimer, parsed, pump, asks, heard, answered>>

HardTimeout ==
  /\ hardTimer
  /\ ~down
  /\ pump = "no"
  /\ hardTimer' = FALSE
  /\ IF stage = "Finished"
       THEN status' = Killed(process) /\ UNCHANGED <<stage, idleTimer, callback, outcome, replies>>
       ELSE Conclude(callback, "timeout", "Kill")
  /\ UNCHANGED <<phase, pipe, fed, called, session, mode, down, sessionId, queued,
                 awaiting, process, parsed, pump, asks, heard, answered>>

-----------------------------------------------------------------------------
Application ==
  \/ RefuseAsk
  \/ BeginWithoutProgram
  \/ Begin
  \/ AskWithoutResults
  \/ AskWithResults
  \/ AskFinished
  \/ Shutdown

ReadLine ==
  \/ \E last \in BOOLEAN :
       \/ ReadInit(last)
       \/ ReadText(last)
       \/ \E c \in Calls : ReadCall(c, last)
       \/ ReadResult(last)
       \/ ReadMissing(last)
  \/ Reseed

EventLoop ==
  \/ ReadLine
  \/ ProcessFinished
  \/ DrainEnds
  \/ StreamEnds
  \/ StartFailed
  \/ IdleTimeout
  \/ HardTimeout

Cli == CliNext /\ UNCHANGED <<runVars, historyVars>>

Next == Application \/ EventLoop \/ Cli

Spec == Init /\ [][Next]_vars

(* The event loop delivers what is pending: a chunk of output ends, the    *)
(* end of a process is handled, and a timer that stays armed goes off even *)
(* if other events keep the loop busy.  The CLI and the application owe    *)
(* nothing: the CLI may hang, the application may never ask again.         *)
ChunkEnds == ReadLine /\ pump' # "output"

FairSpec ==
  /\ Spec
  /\ WF_vars(ChunkEnds)
  /\ WF_vars(DrainEnds)
  /\ WF_vars(StreamEnds)
  /\ SF_vars(HardTimeout)

-----------------------------------------------------------------------------
(* Correctness.                                                            *)

Received(a, reply) == replies[a] # << >> /\ replies[a][1] = reply

(* The callback of an ask is called exactly once: never twice, and never   *)
(* lost, whatever order output, timeouts, the process's end and further    *)
(* asks come in.  Only an ask still open when the client is destroyed goes *)
(* without.                                                                *)
NoAskLost ==
  \A a \in Asks :
    /\ Len(replies[a]) <= 1
    /\ a > asks => replies[a] = << >>
    /\ a <= asks /\ ~down => (replies[a] = << >> <=> a = callback)

(* Until the run is over, a tool call the CLI made is in exactly one place: *)
(* queued behind the batch the caller works on, part of that batch, or      *)
(* answered.  So no call is dropped and none is handed out twice; and only  *)
(* the process that made a call is written its result.                      *)
ToolCallsConserved ==
  /\ answered \subseteq heard
  /\ stage # "Finished" =>
       \A c \in Calls : <<process, c>> \in heard =>
         /\ c \in queued \cup awaiting \/ <<process, c>> \in answered
         /\ ~(c \in queued /\ c \in awaiting)
         /\ <<process, c>> \in answered => c \notin queued \cup awaiting

(* A run that owes an answer is never stranded: every configured timer is  *)
(* armed, and it has a process whose end is still to be signalled.  This   *)
(* must survive reseeding, where the end of the first process may arrive   *)
(* after the second has started.                                           *)
NeverStranded ==
  stage = "Running" /\ ~down =>
    /\ IdleLimit => idleTimer
    /\ HardLimit => hardTimer
    /\ process # 0
    /\ status[process] \in {"up", "failed", "dead"}

(* At most one CLI of a run is alive, and none once the client is gone.    *)
OneCliAtATime ==
  /\ \A p, q \in Procs : status[p] = "up" /\ status[q] = "up" => p = q
  /\ down => \A p \in Procs : status[p] # "up"

(* The session the caller may store after an answer is the one the         *)
(* answering process keeps; and a session the CLI reported as missing is   *)
(* not offered again once the run was reseeded.                            *)
SessionOfTheAnswer ==
  /\ outcome = "answer" \/ (\E a \in Asks : Received(a, "answer")) =>
       sessionId = IF mode = "Resume" THEN "given" ELSE "new"
  /\ status[2] # "unborn" => sessionId # "given"

(* A run is a client in the sense of Completions; under FairSpec and with  *)
(* a hard limit it also answers every ask in the end, however the CLI      *)
(* behaves.                                                                *)
Service == INSTANCE Completions WITH pending <- callback, closed <- down
IsAClient == Service!Spec
IsAResponsiveClient == Service!FairSpec

(* With a hard limit no CLI outlives a finished run for ever, even if it   *)
(* ignores the end of its input.  Runs that resume a session are left out: *)
(* see KilledRunStaysDead.                                                 *)
FinishedRunIsReaped ==
  (HardLimit /\ session # "resume" /\ stage = "Finished")
    ~> (\A p \in Procs : status[p] # "up")

(* What tests/agent/claudestdioclienttest.cpp says of an ask on a finished *)
(* run: it fails.  A timeout finishes the run, so no ask after it receives *)
(* an answer.                                                              *)
NoAnswerAfterTimeout ==
  \A a, b \in Asks :
    a < b /\ Received(a, "timeout") => ~Received(b, "answer")

(* What the same tests say of a timeout: the CLI is dead after it.         *)
KilledRunStaysDead ==
  (\E a \in Asks : Received(a, "timeout")) => \A p \in Procs : status[p] # "up"

(* Tool call ids are interchangeable.                                       *)
CallSymmetry == Permutations(Calls)
=============================================================================
