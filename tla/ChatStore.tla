------------------------------ MODULE ChatStore ------------------------------
(***************************************************************************)
(* ChatStore (cpp/chat/application/chatstore.cpp) and the database behind  *)
(* it, for one conversation.  A call is posted to the worker thread, which *)
(* runs the calls in order, each in one transaction; the result travels    *)
(* back to the main thread (Task::run, Service::invoke).  At most one call *)
(* is awaited at a time; saved steps are not awaited.                      *)
(*                                                                         *)
(* A write may fail at any time, and then leaves the database as it was.   *)
(***************************************************************************)
EXTENDS Naturals, Sequences

CONSTANTS
  MaxMessages,  \* bound: rows of the conversation
  MaxSessions   \* bound: backend sessions ever reported

ASSUME StoreAssumption == MaxMessages \in Nat /\ MaxSessions \in Nat

(* MessageStatus; a question of the user is stored as Complete and is told *)
(* apart from an answer by its role.                                       *)
Endings == {"Complete", "Failed", "Cancelled", "Interrupted"}
Statuses == Endings \cup {"Running"}
Rows == Statuses \cup {"Question"}
Steps == {"none", "open", "closed"}

MessageIds == 1..MaxMessages
SessionIds == 1..MaxSessions

Ops == {"append", "messages", "conversation", "restart", "finish", "remove", "saveStep"}

Jobs == [op : Ops, message : 0..MaxMessages, row : Rows \cup Steps, session : 0..MaxSessions]
Replies == [state : {"none", "ok", "failed"}, value : Nat]

Call(op, message, row, session) ==
  [op |-> op, message |-> message, row |-> row, session |-> session]
Read(op) == Call(op, 0, "none", 0)
NoReply == [state |-> "none", value |-> 0]
Success(value) == [state |-> "ok", value |-> value]
Failure == [state |-> "failed", value |-> 0]

VARIABLES
  exists,    \* the conversation has a row
  messages,  \* Seq(Rows): its messages, by position
  steps,     \* [MessageIds -> Steps]: the step recorded for a message
  session,   \* Conversation::backendSession, 0 when null
  queue,     \* Seq(Jobs): posted to the worker
  reply      \* the result of the awaited call on its way to the main thread

disk == <<exists, messages, steps, session>>
storeVars == <<disk, queue, reply>>

StoreTypeOK ==
  /\ exists \in BOOLEAN
  /\ messages \in Seq(Rows) /\ Len(messages) <= MaxMessages
  /\ steps \in [MessageIds -> Steps]
  /\ session \in 0..MaxSessions
  /\ queue \in Seq(Jobs)
  /\ reply \in Replies

StoreInit ==
  /\ exists = TRUE
  /\ messages = << >>
  /\ steps = [m \in MessageIds |-> "none"]
  /\ session = 0
  /\ queue = << >>
  /\ reply = NoReply

-----------------------------------------------------------------------------
(* The worker.                                                             *)

Job == Head(queue)

Running(op) ==
  /\ queue # << >>
  /\ Job.op = op
  /\ queue' = Tail(queue)

(* What every write looks for before it changes anything.                  *)
HasMessage == exists /\ Job.message \in DOMAIN messages

AppendMessage ==
  /\ Running("append")
  /\ exists
  /\ messages' = Append(messages, Job.row)
  /\ reply' = Success(Len(messages) + 1)
  /\ UNCHANGED <<exists, steps, session>>

(* retryTarget() of the messages read; its mutant retries any answer.      *)
RetryAny(rows) == IF rows # << >> /\ rows[Len(rows)] # "Question" THEN Len(rows) ELSE 0
RetryTarget(rows) ==
  IF rows # << >> /\ rows[Len(rows)] \in Endings \ {"Complete"} THEN Len(rows) ELSE 0

(* messages(): of the rows read only the message to retry matters later;   *)
(* a query that fails reads no rows.                                       *)
ReadMessages ==
  /\ Running("messages")
  /\ \E rows \in {messages, << >>} : reply' = Success(RetryTarget(rows))
  /\ UNCHANGED disk

ReadConversation ==
  /\ Running("conversation")
  /\ exists
  /\ reply' = Success(session)
  /\ UNCHANGED disk

RestartMessage ==
  /\ Running("restart")
  /\ HasMessage
  /\ messages' = [messages EXCEPT ![Job.message] = "Running"]
  /\ steps' = [steps EXCEPT ![Job.message] = "none"]
  /\ reply' = Success(Job.message)
  /\ UNCHANGED <<exists, session>>

FinishMessage ==
  /\ Running("finish")
  /\ HasMessage
  /\ messages' = [messages EXCEPT ![Job.message] = Job.row]
  /\ session' = Job.session
  /\ reply' = Success(Job.message)
  /\ UNCHANGED <<exists, steps>>

(* remove(): the rows of the messages and steps go with the conversation's. *)
RemoveConversation ==
  /\ Running("remove")
  /\ exists' = FALSE
  /\ messages' = << >>
  /\ steps' = [m \in MessageIds |-> "none"]
  /\ session' = 0
  /\ reply' = Success(session)

CallFails ==
  /\ \E op \in Ops \ {"saveStep", "messages"} : Running(op)
  /\ reply' = Failure
  /\ UNCHANGED disk

SaveStep ==
  /\ Running("saveStep")
  /\ HasMessage
  /\ steps' = [steps EXCEPT ![Job.message] = Job.row]
  /\ UNCHANGED <<exists, messages, session, reply>>

SaveStepFails ==
  /\ Running("saveStep")
  /\ UNCHANGED <<disk, reply>>

Worker ==
  \/ AppendMessage
  \/ ReadMessages
  \/ ReadConversation
  \/ RestartMessage
  \/ FinishMessage
  \/ RemoveConversation
  \/ CallFails
  \/ SaveStep
  \/ SaveStepFails

-----------------------------------------------------------------------------
(* ChatStorage::interruptRunning(), when the database is opened: one        *)
(* transaction over all conversations.  Each part has a mutant that leaves  *)
(* it out.                                                                  *)

Untouched(rows) == rows
Interrupted(rows) ==
  [m \in DOMAIN rows |-> IF rows[m] = "Running" THEN "Interrupted" ELSE rows[m]]

StepsKept(saved) == saved
StepsFailed(saved) ==
  [m \in MessageIds |-> IF saved[m] = "open" THEN "closed" ELSE saved[m]]

HasRunning(rows) == \E m \in DOMAIN rows : rows[m] = "Running"

(* The session the update drops, 0 when there is none.                     *)
DroppedSession == IF HasRunning(messages) THEN session ELSE 0

InterruptRunning ==
  /\ messages' = Interrupted(messages)
  /\ steps' = StepsFailed(steps)
  /\ session' = IF HasRunning(messages) THEN 0 ELSE session
  /\ UNCHANGED exists
=============================================================================
