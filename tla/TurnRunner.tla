----------------------------- MODULE TurnRunner -----------------------------
(***************************************************************************)
(* TurnRunner (cpp/chat/application/turnrunner.cpp): the turns of one      *)
(* conversation.  A turn is a chain of store calls, a run of the agent     *)
(* backend, and a last store call; "stage" names the call the chain waits  *)
(* for, or "turn" while the backend works.  The user may cancel, remove,   *)
(* send and retry at any point, a store call may fail, and the program may *)
(* die between any two steps and be started again.                         *)
(*                                                                         *)
(* Conversations share nothing but the worker's queue, so one is enough.   *)
(***************************************************************************)
EXTENDS ChatStore

CONSTANT MaxCrashes  \* bound: times the program dies

ASSUME CrashAssumption == MaxCrashes \in Nat

Stages == {"none", "question", "answer", "pick", "restart", "messages",
           "conversation", "turn", "finish"}

VARIABLES
  program,          \* "up"; "down"; "opened": database open, runner not made
  stage,            \* where the turn is; m_turns has an entry iff not "none"
  target,           \* the assistant message of the turn, 0 while unknown
  cancelRequested,  \* ActiveTurn::cancelRequested
  previous,         \* ActiveTurn::previousSession, 0 when null
  resumed,          \* ActiveTurn::resumed
  ready,            \* ActiveTurn::readySession, 0 when empty
  step,             \* the step of the agent's turn
  storing,          \* the session the finish call in flight stores
  removal,          \* "wanted": in m_removing, turn active; "removing"; "none"
  dropped,          \* ChatStorage::droppedSessions
  made,             \* sessions 1..made were reported by turns
  forgotten,        \* sessions AgentBackend::forget was called with
  lost,             \* history: sessions only the memory of a dead program knew
  trouble,          \* history: an awaited call failed since the program started
  stepTrouble,      \* history: a step was not saved since the program started
  crashes           \* times the program died

turnVars == <<stage, target, cancelRequested, previous, resumed, ready, step, storing>>
backendVars == <<made, forgotten>>
historyVars == <<lost, trouble, stepTrouble, crashes>>
vars == <<storeVars, program, turnVars, removal, dropped, backendVars, historyVars>>

Flags ==
  /\ cancelRequested \in BOOLEAN
  /\ resumed \in BOOLEAN
  /\ trouble \in BOOLEAN
  /\ stepTrouble \in BOOLEAN

TypeOK ==
  /\ StoreTypeOK
  /\ Flags
  /\ program \in {"up", "down", "opened"}
  /\ stage \in Stages
  /\ target \in 0..MaxMessages
  /\ previous \in 0..made
  /\ ready \in 0..made
  /\ step \in Steps
  /\ storing \in 0..made
  /\ removal \in {"none", "wanted", "removing"}
  /\ dropped \in 0..made
  /\ made \in 0..MaxSessions
  /\ forgotten \subseteq 1..made
  /\ lost \subseteq 1..made
  /\ crashes \in 0..MaxCrashes

(* A conversation as createConversation() leaves it.                       *)
Init ==
  /\ StoreInit
  /\ program = "up"
  /\ stage = "none"
  /\ target = 0
  /\ cancelRequested = FALSE
  /\ previous = 0
  /\ resumed = FALSE
  /\ ready = 0
  /\ step = "none"
  /\ storing = 0
  /\ removal = "none"
  /\ dropped = 0
  /\ made = 0
  /\ forgotten = {}
  /\ lost = {}
  /\ trouble = FALSE
  /\ stepTrouble = FALSE
  /\ crashes = 0

-----------------------------------------------------------------------------
(* Pieces the handlers share.                                              *)

Up == program = "up"
IsBusy == stage # "none" \/ removal # "none"
Post(job) == queue' = Append(queue, job)

(* The continuation of the awaited call runs, with its result.             *)
Continue(at, state) ==
  /\ Up
  /\ stage = at
  /\ reply.state = state
  /\ reply' = NoReply

(* m_turns.try_emplace()                                                   *)
NewTurn(first) ==
  /\ stage' = first
  /\ target' = 0
  /\ cancelRequested' = FALSE
  /\ previous' = 0
  /\ resumed' = FALSE
  /\ ready' = 0
  /\ step' = "none"
  /\ storing' = 0

(* ActiveTurn::knownSessions(). *)
KnownSessions == {previous, ready} \ {0}

(* ActiveTurn::sessionAfterSuccess(), when "reported" is the ready session. *)
SessionAfterSuccess(reported) ==
  IF reported # 0 THEN reported ELSE IF resumed THEN previous ELSE 0

(* forgetAllBut(known, result.isSuccess() ? stored : nullopt); the mutants  *)
(* keep the session of a message that was not saved, and forget the one of  *)
(* a message that was.                                                      *)
KeptAlways(saved) == storing
ForgottenAlways(saved) == 0
Kept(saved) == IF saved THEN storing ELSE 0
ForgetAllBut(kept) == forgotten' = forgotten \cup (KnownSessions \ {kept})

(* conclude(): "saves" is what the handler has posted before.              *)
Conclude(saves, status, stored) ==
  /\ stage' = "finish"
  /\ storing' = stored
  /\ queue' = queue \o saves \o <<Call("finish", target, status, stored)>>

(* finish(): the turn is gone, and a removal that waited for it starts.    *)
(* The mutant only removes what is removed while no turn is active.        *)
RemovalDropped == removal
RemovalStarts == IF removal = "wanted" THEN "removing" ELSE removal
Finish ==
  /\ NewTurn("none")
  /\ removal' = RemovalStarts
  /\ queue' = IF RemovalStarts = "removing" THEN Append(queue, Read("remove")) ELSE queue

-----------------------------------------------------------------------------
(* The user.                                                               *)

Send ==
  /\ Up
  /\ ~IsBusy
  /\ Len(messages) + 2 <= MaxMessages
  /\ NewTurn("question")
  /\ Post(Call("append", 0, "Question", 0))
  /\ UNCHANGED <<disk, reply, program, removal, dropped, backendVars, historyVars>>

Retry ==
  /\ Up
  /\ ~IsBusy
  /\ NewTurn("pick")
  /\ Post(Read("messages"))
  /\ UNCHANGED <<disk, reply, program, removal, dropped, backendVars, historyVars>>

(* The step ChatTurn::fail() closes before it reports the failure.         *)
ClosedStep == IF step = "open" THEN <<Call("saveStep", target, "closed", 0)>> ELSE << >>

(* cancel() with a turn in the backend: ChatTurn::cancel() fails it within *)
(* the call.                                                               *)
CancelTurn ==
  /\ Up
  /\ stage = "turn"
  /\ cancelRequested' = TRUE
  /\ Conclude(ClosedStep, "Cancelled", 0)
  /\ UNCHANGED <<target, previous, resumed, ready, step>>

Cancel ==
  /\ CancelTurn
  /\ UNCHANGED <<disk, reply, program, removal, dropped, backendVars, historyVars>>

CancelEarly ==
  /\ Up
  /\ stage \notin {"none", "turn"}
  /\ cancelRequested' = TRUE
  /\ UNCHANGED <<storeVars, program, stage, target, previous, resumed, ready, step,
                 storing, removal, dropped, backendVars, historyVars>>

(* remove(): at once, or once the active turn, which it cancels, is over.  *)
RemoveIdle ==
  /\ Up
  /\ stage = "none"
  /\ removal = "none"
  /\ removal' = "removing"
  /\ Post(Read("remove"))
  /\ UNCHANGED <<disk, reply, program, turnVars, dropped, backendVars, historyVars>>

(* Its mutant does not wait for the turn.                                  *)
RemoveAtOnce ==
  /\ Up
  /\ removal = "none"
  /\ removal' = "removing"
  /\ Post(Read("remove"))
  /\ UNCHANGED <<disk, reply, program, turnVars, dropped, backendVars, historyVars>>

RemoveActive ==
  /\ Up
  /\ stage # "none"
  /\ removal = "none"
  /\ removal' = "wanted"
  /\ \/ CancelTurn
     \/ /\ stage # "turn"
        /\ cancelRequested' = TRUE
        /\ UNCHANGED <<queue, stage, target, previous, resumed, ready, step, storing>>
  /\ UNCHANGED <<disk, reply, program, dropped, backendVars, historyVars>>

-----------------------------------------------------------------------------
(* The chain of send() and retry() up to launch().                         *)

Chained(next, job) ==
  /\ stage' = next
  /\ Post(job)
  /\ UNCHANGED <<disk, program, cancelRequested, previous, resumed, ready, step,
                 storing, removal, dropped, backendVars, historyVars>>

QuestionAppended ==
  /\ Continue("question", "ok")
  /\ Chained("answer", Call("append", 0, "Running", 0))
  /\ UNCHANGED target

AnswerAppended ==
  /\ Continue("answer", "ok")
  /\ target' = reply.value
  /\ Chained("messages", Read("messages"))

RetryPicked ==
  /\ Continue("pick", "ok")
  /\ reply.value # 0
  /\ target' = reply.value
  /\ Chained("restart", Call("restart", reply.value, "none", 0))

Restarted ==
  /\ Continue("restart", "ok")
  /\ Chained("messages", Read("messages"))
  /\ UNCHANGED target

MessagesRead ==
  /\ Continue("messages", "ok")
  /\ Chained("conversation", Read("conversation"))
  /\ UNCHANGED target

(* abandon(): the chain ends with a failure, in whichever call.            *)
Abandon ==
  /\ \/ /\ \E at \in {"question", "answer", "restart", "conversation"} : Continue(at, "failed")
        /\ trouble' = TRUE
     \/ /\ Continue("pick", "ok")
        /\ reply.value = 0
        /\ UNCHANGED trouble
  /\ Finish
  /\ UNCHANGED <<disk, program, dropped, backendVars, lost, stepTrouble, crashes>>

-----------------------------------------------------------------------------
(* begin(): the conversation has been read.                                *)

BeginWith ==
  /\ Continue("conversation", "ok")
  /\ previous' = reply.value
  /\ UNCHANGED <<disk, program, target, cancelRequested, ready, step, removal, dropped,
                 backendVars, historyVars>>

(* The mutant of a begin() that finds the turn cancelled just returns.     *)
BeginReturns ==
  /\ BeginWith
  /\ cancelRequested
  /\ UNCHANGED <<queue, stage, storing, resumed>>

BeginCancelled ==
  /\ BeginWith
  /\ cancelRequested
  /\ Conclude(<< >>, "Cancelled", 0)
  /\ UNCHANGED resumed

(* planTranscript() resumes a session whose tail fits the limits.          *)
PlansToResume == IF reply.value # 0 THEN BOOLEAN ELSE {FALSE}

BeginUnavailable ==
  /\ BeginWith
  /\ ~cancelRequested
  /\ resumed' \in PlansToResume
  /\ Conclude(<< >>, "Failed", 0)

Begin ==
  /\ BeginWith
  /\ ~cancelRequested
  /\ resumed' \in PlansToResume
  /\ stage' = "turn"
  /\ UNCHANGED <<queue, storing>>

-----------------------------------------------------------------------------
(* What the agent's turn reports.                                          *)

Reports ==
  /\ Up
  /\ stage = "turn"
  /\ UNCHANGED <<disk, reply, program, target, cancelRequested, previous, resumed,
                 removal, dropped, forgotten, historyVars>>

StepStarted ==
  /\ Reports
  /\ step = "none"
  /\ step' = "open"
  /\ Post(Call("saveStep", target, "open", 0))
  /\ UNCHANGED <<stage, ready, storing, made>>

StepFinished ==
  /\ Reports
  /\ step = "open"
  /\ step' = "closed"
  /\ Post(Call("saveStep", target, "closed", 0))
  /\ UNCHANGED <<stage, ready, storing, made>>

(* ChatTurn::succeed(): sessionReady, when the client kept a session, and  *)
(* finished.  A resumed session is kept or was reseeded; see ClaudeRun.    *)
TurnFinished ==
  /\ Reports
  /\ step # "open"
  /\ \/ ready' = 0 /\ UNCHANGED made
     \/ ready' = made + 1 /\ made' = made + 1 /\ made < MaxSessions
     \/ resumed /\ ready' = previous /\ UNCHANGED made
  /\ Conclude(<< >>, "Complete", SessionAfterSuccess(ready'))
  /\ UNCHANGED step

TurnFailed ==
  /\ Reports
  /\ Conclude(ClosedStep, "Failed", 0)
  /\ UNCHANGED <<ready, step, made>>

-----------------------------------------------------------------------------
(* The end of a turn, and of the conversation.                             *)

MessageFinished ==
  /\ \/ Continue("finish", "ok") /\ UNCHANGED trouble
     \/ Continue("finish", "failed") /\ trouble' = TRUE
  /\ ForgetAllBut(Kept(reply.state = "ok"))
  /\ Finish
  /\ UNCHANGED <<disk, program, dropped, made, lost, stepTrouble, crashes>>

(* removeConversation(): a removal that failed is only logged.             *)
Removed ==
  /\ \/ /\ Continue("none", "ok")
        /\ forgotten' = IF reply.value # 0 THEN forgotten \cup {reply.value} ELSE forgotten
        /\ UNCHANGED trouble
     \/ Continue("none", "failed") /\ trouble' = TRUE /\ UNCHANGED forgotten
  /\ removal' = "none"
  /\ UNCHANGED <<disk, queue, program, turnVars, dropped, made, lost, stepTrouble, crashes>>

-----------------------------------------------------------------------------
(* The worker thread, and the life of the program.                         *)

WorkerStep ==
  /\ Up
  /\ Worker
  /\ stepTrouble' = (stepTrouble \/ SaveStepFails)
  /\ UNCHANGED <<program, turnVars, removal, dropped, backendVars, lost, trouble, crashes>>

(* What no file on disk knows: these sessions cannot be forgotten any more. *)
InMemoryOnly == (1..made) \ (forgotten \cup {session})

Crash ==
  /\ program # "down"
  /\ crashes < MaxCrashes
  /\ crashes' = crashes + 1
  /\ program' = "down"
  /\ queue' = << >>
  /\ reply' = NoReply
  /\ NewTurn("none")
  /\ removal' = "none"
  /\ dropped' = 0
  /\ lost' = lost \cup InMemoryOnly
  /\ UNCHANGED <<disk, backendVars, trouble, stepTrouble>>

(* ChatStorage::open()                                                     *)
Open ==
  /\ program = "down"
  /\ program' = "opened"
  /\ InterruptRunning
  /\ dropped' = DroppedSession
  /\ trouble' = FALSE
  /\ stepTrouble' = FALSE
  /\ UNCHANGED <<queue, reply, turnVars, removal, backendVars, lost, crashes>>

(* The constructor of ChatModule forgets what the storage dropped.         *)
Start ==
  /\ program = "opened"
  /\ program' = "up"
  /\ forgotten' = forgotten \cup ({dropped} \ {0})
  /\ dropped' = 0
  /\ UNCHANGED <<storeVars, turnVars, removal, made, historyVars>>

-----------------------------------------------------------------------------
User == Send \/ Retry \/ Cancel \/ CancelEarly \/ RemoveIdle \/ RemoveActive

Continuation ==
  \/ QuestionAppended
  \/ AnswerAppended
  \/ RetryPicked
  \/ Restarted
  \/ MessagesRead
  \/ Abandon
  \/ BeginCancelled
  \/ BeginUnavailable
  \/ Begin
  \/ MessageFinished
  \/ Removed

TurnEnds == TurnFinished \/ TurnFailed

Turn == StepStarted \/ StepFinished \/ TurnEnds

Life == Crash \/ Open \/ Start

Next == User \/ Continuation \/ Turn \/ WorkerStep \/ Life

Spec == Init /\ [][Next]_vars

(* The worker runs what it is given, the event loop delivers results, and  *)
(* a turn of the backend ends: its client answers, or times out.  Nothing  *)
(* obliges the user to do anything, or the program to be started again.    *)
FairSpec ==
  /\ Spec
  /\ WF_vars(WorkerStep)
  /\ WF_vars(Continuation)
  /\ WF_vars(TurnEnds)

-----------------------------------------------------------------------------
(* Correctness.                                                            *)

(* The answer the active turn is responsible for, as soon as it has a row. *)
CurrentAnswer == IF stage = "answer" THEN reply.value ELSE target

(* A message shown as running is being worked on: after a restart, and     *)
(* as long as every awaited store call succeeds, no answer is left in the  *)
(* state in which the user can neither read nor retry it.                  *)
RunningIsOwned ==
  Up /\ ~trouble =>
    \A m \in DOMAIN messages :
      messages[m] = "Running" => stage # "none" /\ m = CurrentAnswer

(* The session the next turn would resume has not been forgotten.  When a  *)
(* message could not be finished it has, but then a stranded message shares *)
(* the conversation, so that the next start of the program clears both.    *)
StoredSessionIsAlive ==
  Up /\ session # 0 /\ session \in forgotten =>
    \E m \in DOMAIN messages :
      messages[m] = "Running" /\ ~(stage # "none" /\ m = CurrentAnswer)

(* Every session a turn reported is stored with the conversation, has been *)
(* forgotten, or is about to be: only a crash loses one.                   *)
SessionsAccounted ==
  \A s \in 1..made :
    \/ s = session
    \/ s \in forgotten \cup lost
    \/ stage = "finish" /\ s \in KnownSessions
    \/ s = dropped
    \/ removal = "removing" /\ reply.state = "ok" /\ s = reply.value

(* The steps of an answer that ended have ended too, although the runner   *)
(* does not wait for them to be saved.                                     *)
EndedAnswerHasNoOpenStep ==
  Up /\ ~stepTrouble =>
    \A m \in DOMAIN messages : messages[m] \in Endings => steps[m] # "open"

(* A complete answer is final: neither a retry, a late call nor a restart  *)
(* of the program touches it; only a removal takes it away.                *)
CompleteIsFinal ==
  [][\A m \in DOMAIN messages :
       messages[m] = "Complete" /\ exists' => m \in DOMAIN messages' /\ messages'[m] = "Complete"]_vars

(* The backend never works for a conversation that is gone: a removal      *)
(* waits for the turn, and a turn does not begin once the row is deleted.  *)
TurnHasConversation == stage = "turn" => exists /\ target \in DOMAIN messages

(* Every turn ends, however it is cancelled and whatever store call fails; *)
(* until then the conversation refuses further questions.                  *)
EveryTurnEnds == stage # "none" ~> stage = "none"

(* A removal that was accepted is carried out, or fails, also when it had  *)
(* to wait for a turn.                                                     *)
EveryRemovalEnds == removal # "none" ~> removal = "none"
=============================================================================
