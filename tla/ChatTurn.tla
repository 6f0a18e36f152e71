------------------------------- MODULE ChatTurn -------------------------------
(***************************************************************************)
(* ChatTurn (cpp/chat/application/chatagent.cpp): a turn of the chat.  The  *)
(* main agent answers the question; the app's agents are its tools, and a   *)
(* call of one is a delegation: an agent of its own, on a client of its     *)
(* own, whose report is the result of the call.  A delegate may go on from  *)
(* a kept context, have it compacted first, and be asked to follow up.      *)
(*                                                                          *)
(* Both agents behave as AgentLoop shows: calls of a reply one after the    *)
(* other, one end per request, none after a cancel.  Texts, models and      *)
(* token counts are left out.  One turn at a time is modelled; turns of     *)
(* other conversations touch other keys of the contexts only.               *)
(***************************************************************************)
EXTENDS Naturals, Sequences, FiniteSets

CONSTANTS
  Conversations,
  Agents,          \* keys of the app's agents
  Keepers,         \* the agents with a context policy
  Compacting,      \* whether their policy compacts
  MaxTurns,        \* bound: turns started
  MaxCalls,        \* bound: calls of the main agent in a turn
  MaxSessions,     \* bound: sessions the backend makes
  MaxDelegations,  \* AppAgent::maxDelegations
  MaxFollowUps,    \* kMaxFollowUps
  MaxToolRounds    \* the limit of tool rounds of a delegate

ASSUME KeepersAssumption == Keepers \subseteq Agents
ASSUME CompactingAssumption == Compacting \in BOOLEAN
ASSUME TurnBoundsAssumption ==
  {MaxTurns, MaxCalls, MaxSessions, MaxDelegations, MaxFollowUps, MaxToolRounds} \subseteq Nat

VARIABLES
  contexts,     \* m_contexts, what is kept of delegates between delegations
  forgotten,    \* the sessions given to m_forget
  phase,        \* "idle", "running", or how the last turn ended
  conversation, \* of the turn
  main,         \* what the main agent is doing
  delegate,     \* the agent the main agent called last
  run,          \* m_running
  delegation,   \* m_delegation: the open step of a delegation, 0 if none
  tool,         \* m_tool: the open step of a delegate's tool, 0 if none
  failing,      \* m_delegationFailed
  delegations,  \* m_delegations
  told,         \* sessionReady was emitted
  steps,        \* every step of the turn: how it was closed, and what came of it
  turns, calls, sessions \* counters

contextVars == <<contexts, forgotten>>
turnVars == <<phase, conversation, main, delegate, run, delegation, tool, failing,
              delegations, told, steps, turns, calls, sessions>>
vars == <<turnVars, contextVars>>

-----------------------------------------------------------------------------
(* DelegateContexts (delegatecontexts.cpp): what is kept, per conversation  *)
(* and agent.  A context is the agent's messages, which are not modelled,   *)
(* and a session of the backend; one that is no longer needed is given to   *)
(* `forget`, which deletes it.                                              *)

Keys == Conversations \X Agents
NoSession == 0
NoContext == [kept |-> FALSE, session |-> NoSession, large |-> FALSE, old |-> FALSE]
(* A context: large once its last request exceeded maxInputTokens, old once *)
(* maxAge has passed since that request started.                            *)
Context(session, large) ==
  [kept |-> TRUE, session |-> session, large |-> large, old |-> FALSE]

ContextsInit ==
  /\ contexts = [k \in Keys |-> NoContext]
  /\ forgotten = {}

Forgets(given) == forgotten' = forgotten \cup (given \ {NoSession})

(* A variant: the age is not looked at. *)
UsableAtAnyAge(c) == c.kept /\ (c.large => Compacting)
(* take(): a context that is too old, or too large with no way to compact   *)
(* it, is dropped with its session.                                         *)
Usable(c) == c.kept /\ ~c.old /\ (c.large => Compacting)

(* Time passes for a context that is kept. *)
Ages(key) ==
  /\ contexts[key].kept
  /\ ~contexts[key].old
  /\ contexts' = [contexts EXCEPT ![key].old = TRUE]
  /\ UNCHANGED forgotten

Without(key) == [contexts EXCEPT ![key] = NoContext]

(* keep(): what the key held before is forgotten. *)
With(key, context) == [contexts EXCEPT ![key] = context]

(* forgetConversation(), and the destructor for all conversations. *)
ForgetConversations(which) ==
  LET gone == {k \in Keys : k[1] \in which} IN
  /\ contexts' = [k \in Keys |-> IF k \in gone THEN NoContext ELSE contexts[k]]
  /\ Forgets({contexts[k].session : k \in gone})

-----------------------------------------------------------------------------
(* The turn *)

NoRun == [mode |-> "none", session |-> NoSession, resumes |-> FALSE, inTool |-> FALSE,
          followUps |-> 0, rounds |-> 0]
(* A request to a delegate, on a client that resumes `session` if it can. *)
Request(mode, session, followUps) ==
  [mode |-> mode, session |-> session, resumes |-> session # NoSession, inTool |-> FALSE,
   followUps |-> followUps, rounds |-> 0]

Key == <<conversation, delegate>>
Keeps == delegate \in Keepers
(* sessionFor(): an agent without a policy gets a client that keeps none. *)
SessionFor(session) == IF Keeps THEN session ELSE NoSession

Init ==
  /\ ContextsInit
  /\ phase = "idle"
  /\ conversation \in Conversations
  /\ main = "done"
  /\ delegate \in Agents
  /\ run = NoRun
  /\ delegation = 0
  /\ tool = 0
  /\ failing = FALSE
  /\ delegations = [a \in Agents |-> 0]
  /\ told = FALSE
  /\ steps = << >>
  /\ turns = 0
  /\ calls = 0
  /\ sessions = 0

-----------------------------------------------------------------------------
(* Steps *)

Opens == Append(steps, [status |-> "Running", outcome |-> "none"])
Close(all, step, status) ==
  IF step = 0 THEN all ELSE [all EXCEPT ![step].status = status]
(* What a delegation came to; the step is told later, by toolFinished. *)
Came(outcome) == [steps EXCEPT ![delegation].outcome = outcome]

-----------------------------------------------------------------------------
(* The main agent *)

Start(c) ==
  /\ phase # "running"
  /\ turns < MaxTurns
  /\ phase' = "running"
  /\ conversation' = c
  /\ main' = "queued"
  /\ delegations' = [a \in Agents |-> 0]
  /\ failing' = FALSE
  /\ told' = FALSE
  /\ steps' = << >>
  /\ turns' = turns + 1
  /\ calls' = 0
  /\ UNCHANGED <<delegate, run, delegation, tool, sessions, contextVars>>

(* The question is sent from the event loop, when a cancel may have come. *)
Ask ==
  /\ main = "queued"
  /\ main' = "model"
  /\ UNCHANGED <<phase, conversation, delegate, run, delegation, tool, failing, delegations,
                 told, steps, turns, calls, sessions, contextVars>>

(* A call of a tool: the observer opens the step of the delegation first. *)
CallAgent(a) ==
  /\ main \in {"model", "calls"}
  /\ calls < MaxCalls
  /\ main' = "starting"
  /\ delegate' = a
  /\ steps' = Opens
  /\ delegation' = Len(steps) + 1
  /\ calls' = calls + 1
  /\ UNCHANGED <<phase, conversation, run, tool, failing, delegations, told, turns,
                 sessions, contextVars>>

(* All calls of the reply are answered: the model is asked again. *)
AskAgain ==
  /\ main = "calls"
  /\ main' = "model"
  /\ UNCHANGED <<phase, conversation, delegate, run, delegation, tool, failing, delegations,
                 told, steps, turns, calls, sessions, contextVars>>

(* A variant: m_delegationFailed outlives its delegation. *)
StaysFailing == failing
FailingAfterwards == FALSE

(* toolFinished of the main agent. *)
DelegationFinished ==
  /\ main = "finishing"
  /\ main' = "calls"
  /\ steps' = Close(steps, delegation, IF failing THEN "Failed" ELSE "Ok")
  /\ delegation' = 0
  /\ failing' = FailingAfterwards
  /\ UNCHANGED <<phase, conversation, delegate, run, tool, delegations, told, turns, calls,
                 sessions, contextVars>>

Succeed ==
  /\ main = "model"
  /\ phase' = "answered"
  /\ main' = "done"
  /\ told' \in BOOLEAN
  /\ UNCHANGED <<conversation, delegate, run, delegation, tool, failing, delegations, steps,
                 turns, calls, sessions, contextVars>>

(* A variant: only the step of the tool is closed. *)
ToolClosed == /\ steps' = Close(steps, tool, "Failed")
              /\ tool' = 0
              /\ delegation' = delegation
(* fail(): the open steps are closed, the inner one first. *)
StepsFail ==
  /\ steps' = Close(Close(steps, tool, "Failed"), delegation, "Failed")
  /\ tool' = 0
  /\ delegation' = 0

Fail ==
  /\ main = "model"
  /\ phase' = "failed"
  /\ main' = "done"
  /\ StepsFail
  /\ UNCHANGED <<conversation, delegate, run, failing, delegations, told, turns, calls,
                 sessions, contextVars>>

(* A cancel comes from the event loop, never while an agent runs its code. *)
Cancel ==
  /\ phase = "running"
  /\ main \in {"queued", "model", "delegating"}
  /\ phase' = "cancelled"
  /\ main' = "done"
  /\ Forgets({run.session})
  /\ run' = NoRun
  /\ StepsFail
  /\ UNCHANGED <<contexts, conversation, delegate, failing, delegations, told, turns, calls,
                 sessions>>

-----------------------------------------------------------------------------
(* delegate() *)

(* done(report), and reportDelegationFailure(). *)
Reports == main' = "finishing" /\ steps' = Came("report") /\ failing' = failing
ReportsFailure == main' = "finishing" /\ steps' = Came("failure") /\ failing' = TRUE

Counted == [delegations EXCEPT ![delegate] = @ + 1]
WithinCeiling == delegations[delegate] < MaxDelegations

PastCeiling ==
  /\ main = "starting"
  /\ ~WithinCeiling
  /\ delegations' = Counted
  /\ ReportsFailure
  /\ UNCHANGED <<phase, conversation, delegate, run, delegation, tool, told, turns, calls,
                 sessions, contextVars>>

Taken == contexts[Key]
(* A variant: a context that is dropped keeps its session. *)
DropsContext == Forgets({})
(* take() drops what it does not return. *)
Takes == Forgets(IF Usable(Taken) THEN {} ELSE {Taken.session})

(* No client: what was taken is kept again. *)
DelegateUnavailable ==
  /\ main = "starting"
  /\ WithinCeiling
  /\ delegations' = Counted
  /\ Takes
  /\ contexts' = IF Usable(Taken) THEN contexts ELSE Without(Key)
  /\ ReportsFailure
  /\ UNCHANGED <<phase, conversation, delegate, run, delegation, tool, told, turns, calls, sessions>>

Delegate ==
  /\ main = "starting"
  /\ WithinCeiling
  /\ delegations' = Counted
  /\ Takes
  /\ contexts' = Without(Key)
  /\ main' = "delegating"
  /\ run' = IF Usable(Taken)
            THEN Request(IF Taken.large THEN "compaction" ELSE "task", Taken.session, 0)
            ELSE Request("task", NoSession, 0)
  /\ UNCHANGED <<phase, conversation, delegate, delegation, tool, failing, told, steps, turns,
                 calls, sessions>>

-----------------------------------------------------------------------------
(* The delegate and its client *)

Delegating == main = "delegating" /\ ~run.inTool
(* What a step of the delegate itself leaves alone. *)
mainVars == <<phase, conversation, main, delegate, delegation, failing, delegations, told,
              turns, calls>>

(* The backend names the session of a client that keeps one. *)
SessionStarts ==
  /\ Delegating
  /\ Keeps
  /\ run.session = NoSession
  /\ sessions < MaxSessions
  /\ sessions' = sessions + 1
  /\ run' = [run EXCEPT !.session = sessions + 1]
  /\ UNCHANGED <<mainVars, tool, steps, contextVars>>

(* The backend has no such session any more, and starts another. *)
SessionMissing ==
  /\ Delegating
  /\ run.resumes
  /\ Forgets({run.session})
  /\ run' = [run EXCEPT !.session = NoSession, !.resumes = FALSE]
  /\ UNCHANGED <<mainVars, tool, steps, sessions, contexts>>

DelegateCallsTool ==
  /\ Delegating
  /\ run.rounds < MaxToolRounds
  /\ run' = [run EXCEPT !.inTool = TRUE, !.rounds = @ + 1]
  /\ steps' = Opens
  /\ tool' = Len(steps) + 1
  /\ UNCHANGED <<mainVars, sessions, contextVars>>

DelegateToolDone ==
  /\ main = "delegating"
  /\ run.inTool
  /\ run' = [run EXCEPT !.inTool = FALSE]
  /\ steps' = Close(steps, tool, "Ok")
  /\ tool' = 0
  /\ UNCHANGED <<mainVars, sessions, contextVars>>

(* The observer's `finished`: the delegate is asked to follow up, on a      *)
(* client that resumes the session of the one before.                       *)
FollowUp ==
  /\ Delegating
  /\ run.mode = "task"
  /\ run.followUps < MaxFollowUps
  /\ run' = Request("task", SessionFor(run.session), run.followUps + 1)
  /\ UNCHANGED <<mainVars, tool, steps, sessions, contextVars>>

KeepContext(large) ==
  contexts' = IF Keeps THEN With(Key, Context(run.session, large)) ELSE contexts

(* `finished` with nothing to follow up, or no client to do it on. *)
DelegateReports ==
  /\ Delegating
  /\ run.mode = "task"
  /\ \E large \in BOOLEAN : KeepContext(large)
  /\ Forgets(IF Keeps THEN {contexts[Key].session} ELSE {})
  /\ run' = NoRun
  /\ Reports
  /\ UNCHANGED <<phase, conversation, delegate, delegation, tool, delegations, told, turns,
                 calls, sessions>>

(* A variant: a failure leaves the session. *)
LeavesSession == Forgets({})
ForgetsRun == Forgets({run.session})

DelegateFails ==
  /\ Delegating
  /\ run.mode = "task"
  /\ ForgetsRun
  /\ run' = NoRun
  /\ ReportsFailure
  /\ UNCHANGED <<phase, conversation, delegate, delegation, tool, delegations, told, turns,
                 calls, sessions, contexts>>

(* restart(), after the compaction answered or failed. *)
Restart ==
  /\ Delegating
  /\ run.mode = "compaction"
  /\ ForgetsRun
  /\ run' = Request("task", NoSession, run.followUps)
  /\ UNCHANGED <<mainVars, tool, steps, sessions, contexts>>

RestartUnavailable ==
  /\ Delegating
  /\ run.mode = "compaction"
  /\ ForgetsRun
  /\ run' = NoRun
  /\ ReportsFailure
  /\ UNCHANGED <<phase, conversation, delegate, delegation, tool, delegations, told, turns,
                 calls, sessions, contexts>>

-----------------------------------------------------------------------------
(* The runner removes a conversation when its turn is over. *)
ForgetConversation(c) ==
  /\ phase = "running" => conversation # c
  /\ ForgetConversations({c})
  /\ UNCHANGED turnVars

(* The chat is closed between turns: every kept session goes. *)
CloseChat ==
  /\ phase # "running"
  /\ ForgetConversations(Conversations)
  /\ UNCHANGED turnVars

TimePasses(key) == Ages(key) /\ UNCHANGED turnVars

Progress ==
  \/ Ask \/ AskAgain \/ DelegationFinished \/ Succeed \/ Fail
  \/ \E a \in Agents : CallAgent(a)
  \/ PastCeiling \/ DelegateUnavailable \/ Delegate
  \/ SessionStarts \/ SessionMissing
  \/ DelegateCallsTool \/ DelegateToolDone
  \/ FollowUp \/ DelegateReports \/ DelegateFails \/ Restart \/ RestartUnavailable

Next ==
  \/ Progress
  \/ Cancel
  \/ CloseChat
  \/ \E c \in Conversations : Start(c) \/ ForgetConversation(c)
  \/ \E key \in Keys : TimePasses(key)

Spec == Init /\ [][Next]_vars

(* Posted events are delivered, models answer and tools call back. *)
FairSpec == Spec /\ WF_vars(Progress)

-----------------------------------------------------------------------------
Statuses == {"Running", "Ok", "Failed"}

TypeOK ==
  /\ phase \in {"idle", "running", "answered", "failed", "cancelled"}
  /\ conversation \in Conversations
  /\ main \in {"queued", "model", "calls", "starting", "delegating", "finishing", "done"}
  /\ delegate \in Agents
  /\ run \in [mode : {"none", "task", "compaction"}, session : 0..MaxSessions,
              resumes : BOOLEAN, inTool : BOOLEAN, followUps : 0..MaxFollowUps,
              rounds : 0..MaxToolRounds]
  /\ {delegation, tool} \subseteq 0..Len(steps)
  /\ failing \in BOOLEAN
  /\ delegations \in [Agents -> 0..MaxCalls]
  /\ told \in BOOLEAN
  /\ steps \in Seq([status : Statuses, outcome : {"none", "report", "failure"}])
  /\ turns \in 0..MaxTurns
  /\ calls \in 0..MaxCalls
  /\ sessions \in 0..MaxSessions
  /\ contexts \in [Keys -> [kept : BOOLEAN, session : 0..MaxSessions,
                            large : BOOLEAN, old : BOOLEAN]]
  /\ forgotten \subseteq 1..MaxSessions

(* Every session that was made for a delegate is in exactly one place: the  *)
(* delegate that runs, the context of one agent in one conversation, or     *)
(* deleted.  So none is left behind on the disk by a compaction, a failure, *)
(* a cancel or a context that expired, none is resumed after it was         *)
(* deleted, and no two delegates go on in the same one (take, keep and      *)
(* forgetSession, delegatecontexts.cpp:24-77; chatagent.cpp:153-248).       *)
OneOwnerPerSession ==
  \A s \in 1..sessions :
    Cardinality({k \in Keys : contexts[k].session = s})
      + (IF run.session = s THEN 1 ELSE 0)
      + (IF s \in forgotten THEN 1 ELSE 0) = 1

(* The step of a delegation is told Ok exactly if the delegate reported,    *)
(* also when one before it in the turn failed; of a turn that ended early   *)
(* no step is told Ok that was not (chatagent.cpp:183-192, 362-377).        *)
StepsTellTheOutcome ==
  \A i \in DOMAIN steps :
    /\ steps[i].status = "Ok" => steps[i].outcome # "failure"
    /\ steps[i].status = "Failed" /\ phase = "running" => steps[i].outcome # "report"

(* The turn does what its runner relies on, and ends. *)
Turn == INSTANCE AgentTurn WITH open <- {delegation, tool} \ {0}

(* The steps are told as the runner expects, none after the end; and, if    *)
(* models answer and tools call back, every turn ends (AgentTurn).          *)
IsAnAgentTurn == Turn!Spec /\ Turn!EverEnds
===============================================================================
