------------------------- MODULE TurnRunner_proofs -------------------------
(***************************************************************************)
(* Proofs about TurnRunner, for every number of messages, sessions and     *)
(* crashes.  The properties of the turns are about the disk, while a turn  *)
(* is a chain of calls in flight; the parts below say what each stage      *)
(* knows: which call is under way, which row the turn works on, which      *)
(* session it holds and which step it still has to save.                   *)
(***************************************************************************)
EXTENDS TurnRunner, SequenceTheorems, TLAPS

Count == Len(messages)

(* A call is awaited: that of the turn, or the removal.                    *)
Waiting == stage \notin {"none", "turn"} \/ removal = "removing"

Endable == {"Complete", "Failed", "Cancelled"}

(* The jobs that may be the awaited one.                                   *)
Awaited ==
  CASE stage = "none" -> {Read("remove")}
    [] stage = "question" -> {Call("append", 0, "Question", 0)}
    [] stage = "answer" -> {Call("append", 0, "Running", 0)}
    [] stage \in {"pick", "messages"} -> {Read("messages")}
    [] stage = "restart" -> {Call("restart", target, "none", 0)}
    [] stage = "conversation" -> {Read("conversation")}
    [] stage = "turn" -> {}
    [] stage = "finish" -> {Call("finish", target, status, storing) : status \in Endable}

(* What the turn posts of its step.                                        *)
Saves ==
  IF stage \in {"turn", "finish"}
  THEN {Call("saveStep", target, row, 0) : row \in {"open", "closed"}} ELSE {}

(* The worker has the awaited call, behind the steps the turn saved, or    *)
(* has answered it and has nothing left.                                   *)
QueueInStep ==
  /\ \A i \in 1..Len(queue) :
       queue[i] \in Saves \/ (queue[i] \in Awaited /\ i = Len(queue) /\ Waiting)
  /\ Waiting /\ reply.state = "none" => queue # << >> /\ queue[Len(queue)] \in Awaited
  /\ reply.state # "none" => queue = << >> /\ Waiting
  /\ reply.state # "ok" => reply.value = 0

(* What is kept in memory is there only while the program is up; what its  *)
(* start cleared has nothing running and no step open.                     *)
ProgramInStep ==
  /\ removal = "wanted" => stage # "none"
  /\ removal = "removing" => stage = "none"
  /\ program # "up" => stage = "none" /\ removal = "none" /\ queue = << >>
  /\ program # "opened" => dropped = 0
  /\ program = "opened" => ~HasRunning(messages) /\ \A m \in MessageIds : steps[m] # "open"
  /\ dropped # 0 => session = 0

DiskInStep ==
  /\ ~exists => messages = << >> /\ session = 0
  /\ \A m \in MessageIds : m > Count => steps[m] = "none"
  /\ session \in 0..made

Room(n) == Count + n <= MaxMessages

(* A turn works on the last row: before it is there, while it runs, and    *)
(* once it has ended.                                                      *)
RunningLast == messages[Count] = "Running"
EndedLast == messages[Count] \in Endings
Retryable == messages[Count] \in Endings \ {"Complete"}
HasRow == exists /\ target = Count /\ Count # 0
AnswerInStep ==
  /\ stage \in {"none", "question", "answer", "pick"} => target = 0
  /\ stage = "question" /\ reply.state = "none" => Room(2)
  /\ stage = "question" /\ reply.state = "ok" => exists /\ Room(1)
  /\ stage = "answer" /\ reply.state = "none" => Room(1)
  /\ stage = "answer" /\ reply.state = "ok" =>
       exists /\ reply.value = Count /\ Count # 0 /\ RunningLast /\ steps[Count] = "none"
  /\ stage = "pick" /\ reply.value # 0 => exists /\ reply.value = Count /\ Retryable
  /\ stage \in {"restart", "messages", "conversation", "turn", "finish"} => HasRow
  /\ stage = "restart" /\ reply.state # "ok" => Retryable
  /\ stage = "restart" /\ reply.state = "ok" => RunningLast /\ steps[Count] = "none"
  /\ stage \in {"messages", "conversation"} => RunningLast /\ steps[Count] = "none"
  /\ stage = "turn" => RunningLast
  /\ stage = "finish" /\ reply.state # "ok" => RunningLast
  /\ stage = "finish" /\ reply.state = "ok" => EndedLast

(* The session a turn read is the stored one until the turn stores another. *)
SessionInStep ==
  /\ stage = "conversation" /\ reply.state = "ok" => reply.value = session
  /\ stage = "turn" \/ (stage = "finish" /\ reply.state # "ok") => previous = session
  /\ stage = "finish" /\ reply.state = "ok" => session = storing
  /\ stage = "turn" => ready = 0
  /\ stage = "finish" /\ storing # 0 => storing \in {previous, ready}
  /\ stage = "finish" /\ ready \in forgotten => ready = previous
  /\ stage \notin {"turn", "finish"} => previous = 0 /\ ready = 0
  /\ removal = "removing" /\ reply.state = "ok" => ~exists /\ reply.value \in 0..made

(* The last word about the step of the turn, saved or on its way, is that  *)
(* it is open.                                                             *)
LastSaveIsOpen ==
  \/ \E i \in 1..Len(queue) :
       /\ queue[i].op = "saveStep" /\ queue[i].row = "open"
       /\ \A j \in i+1..Len(queue) : queue[j].op # "saveStep"
  \/ /\ target # 0 /\ steps[target] = "open"
     /\ \A i \in 1..Len(queue) : queue[i].op # "saveStep"

StepsInStep ==
  ~stepTrouble /\ LastSaveIsOpen => stage = "turn" /\ step = "open"

(* A message shown as running that no turn works on.                       *)
Stranded(m) == messages[m] = "Running" /\ ~(stage # "none" /\ m = CurrentAnswer)

(* StoredSessionIsAlive, also while the program is down.                   *)
SessionIsAlive ==
  session # 0 /\ session \in forgotten => \E m \in DOMAIN messages : Stranded(m)

IInv ==
  /\ TypeOK
  /\ QueueInStep
  /\ ProgramInStep
  /\ DiskInStep
  /\ AnswerInStep
  /\ SessionInStep
  /\ StepsInStep
  /\ SessionIsAlive
  /\ RunningIsOwned
  /\ EndedAnswerHasNoOpenStep
  /\ SessionsAccounted

-----------------------------------------------------------------------------
(* Facts about the store.                                                  *)

LEMMA CallType ==
  ASSUME NEW op \in Ops, NEW m \in 0..MaxMessages, NEW row \in Rows \cup Steps,
         NEW s \in 0..MaxSessions
  PROVE  Call(op, m, row, s) \in Jobs
BY DEF Call, Jobs

LEMMA ReadType == \A op \in Ops : Read(op) \in Jobs
BY StoreAssumption DEF Read, Call, Jobs, Steps

LEMMA ReplyTypes ==
  /\ NoReply \in Replies /\ Failure \in Replies
  /\ \A n \in Nat : Success(n) \in Replies
BY DEF NoReply, Failure, Success, Replies

LEMMA Positions ==
  ASSUME TypeOK
  PROVE  /\ Count \in 0..MaxMessages /\ DOMAIN messages = 1..Count
         /\ DOMAIN messages \subseteq MessageIds /\ \A m \in DOMAIN messages : m # 0
         /\ Count # 0 => Count \in DOMAIN messages
         /\ \A m \in DOMAIN messages : messages[m] \in Rows
BY StoreAssumption DEF TypeOK, StoreTypeOK, Count, MessageIds

(* What the worker takes is a step of the turn, or the awaited call and the *)
(* last one; nothing has been answered yet.                                *)
LEMMA HeadJob ==
  ASSUME TypeOK, QueueInStep, queue # << >>
  PROVE  /\ Job \in Jobs /\ Job = queue[1] /\ Tail(queue) \in Seq(Jobs)
         /\ reply.state = "none"
         /\ \/ Job \in Saves /\ Job.op = "saveStep" /\ stage \in {"turn", "finish"}
            \/ Job \in Awaited /\ Job.op # "saveStep" /\ Len(queue) = 1 /\ Tail(queue) = << >> /\ Waiting
<1>1. queue \in Seq(Jobs) /\ Len(queue) \in Nat /\ Len(queue) >= 1
  BY DEF TypeOK, StoreTypeOK
<1>2. Job = queue[1] /\ Tail(queue) \in Seq(Jobs) /\ Job \in Jobs
  BY <1>1 DEF Job
<1>3. reply.state = "none"
  BY DEF QueueInStep
<1>4. CASE queue[1] \in Saves
  BY <1>2, <1>3, <1>4 DEF Saves, Call
<1>5. CASE queue[1] \in Awaited /\ 1 = Len(queue) /\ Waiting
  <2>1. Tail(queue) = << >>
    <3>1. Tail(queue) \in Seq(Jobs) /\ Len(Tail(queue)) = 0
      BY <1>1, <1>5
    <3> QED
      BY <3>1, EmptySeq
  <2>2. queue[1].op # "saveStep"
    BY <1>5 DEF Awaited, Read, Call, TypeOK, Stages
  <2> QED
    BY <1>2, <1>3, <1>5, <2>1, <2>2
<1>6. 1 \in 1..Len(queue)
  BY <1>1
<1> QED
  BY <1>4, <1>5, <1>6 DEF QueueInStep

(* Nothing is under way between two turns. *)
LEMMA Idle ==
  ASSUME IInv, ~Waiting
  PROVE  reply.state = "none" /\ reply = NoReply /\ (stage = "none" => queue = << >>)
<1>1. reply.state = "none" /\ reply.value = 0
  BY DEF IInv, TypeOK, StoreTypeOK, Replies, QueueInStep
<1>2. reply = NoReply
  BY <1>1 DEF IInv, TypeOK, StoreTypeOK, Replies, NoReply
<1>3. ASSUME stage = "none", queue # << >> PROVE FALSE
  BY <1>3, HeadJob DEF IInv
<1> QED
  BY <1>1, <1>2, <1>3

(* A job is posted to a worker that has nothing to do. *)
LEMMA PostAlone ==
  ASSUME NEW job \in Jobs, queue = << >>, Post(job)
  PROVE  /\ queue' = <<job>> /\ queue' \in Seq(Jobs) /\ queue' # << >>
         /\ Len(queue') = 1 /\ queue'[1] = job
BY DEF Post

(* The awaited call is all the worker has. *)
LEMMA OneAwaited ==
  ASSUME queue' \in Seq(Jobs), Len(queue') = 1, queue'[1] \in Awaited', Waiting',
         reply'.state = "none", reply'.value = 0
  PROVE  QueueInStep'
<1>1. \A i \in 1..Len(queue') : i = 1
  OBVIOUS
<1>2. queue' # << >>
  BY EmptySeq
<1> QED
  BY <1>1, <1>2 DEF QueueInStep

LEMMA SendKeeps ==
  ASSUME IInv, Send
  PROVE  IInv'
<1>1. /\ Up /\ stage = "none" /\ removal = "none" /\ Room(2)
      /\ stage' = "question" /\ target' = 0 /\ previous' = 0 /\ ready' = 0 /\ storing' = 0
      /\ UNCHANGED <<disk, reply, program, removal, dropped, backendVars, historyVars>>
      /\ cancelRequested' = FALSE /\ resumed' = FALSE /\ step' = "none"
  BY DEF Send, IsBusy, NewTurn, Room, Count
<1>2. reply.state = "none" /\ reply = NoReply /\ queue = << >>
  BY <1>1, Idle DEF Waiting
<1>3. /\ queue' = <<Call("append", 0, "Question", 0)>> /\ queue' \in Seq(Jobs) /\ queue' # << >>
      /\ Len(queue') = 1 /\ queue'[1] = Call("append", 0, "Question", 0)
  BY <1>2, PostAlone, CallType, StoreAssumption DEF Send, Ops, Rows
<1>4. TypeOK'
  <2>1. StoreTypeOK'
    BY <1>1, <1>3 DEF IInv, TypeOK, StoreTypeOK, disk
  <2>2. Flags'
    BY <1>1, Zenon DEF IInv, TypeOK, historyVars, Flags
  <2> QED
    BY <1>1, <2>1, <2>2, StoreAssumption DEF IInv, TypeOK, backendVars, historyVars, Stages, Steps
<1>5. QueueInStep'
  BY <1>1, <1>2, <1>3, OneAwaited DEF Awaited, Waiting, NoReply
<1>6. ProgramInStep'
  BY <1>1 DEF IInv, ProgramInStep, disk, HasRunning, Up
<1>7. DiskInStep'
  BY <1>1 DEF IInv, DiskInStep, disk, Count, backendVars
<1>8. AnswerInStep'
  BY <1>1, <1>2 DEF AnswerInStep, disk, Room, Count
<1>9. SessionInStep'
  BY <1>1 DEF SessionInStep
<1>10. StepsInStep'
  <2>1. \A i \in 1..Len(queue') : queue'[i].op # "saveStep"
    BY <1>3 DEF Call
  <2> QED
    BY <1>1, <2>1 DEF StepsInStep, LastSaveIsOpen
<1>11. SessionIsAlive'
  BY <1>1, Positions DEF IInv, SessionIsAlive, Stranded, CurrentAnswer, disk, backendVars
<1>12. RunningIsOwned'
  BY <1>1 DEF IInv, RunningIsOwned, CurrentAnswer, disk, historyVars, Up
<1>13. EndedAnswerHasNoOpenStep'
  BY <1>1 DEF IInv, EndedAnswerHasNoOpenStep, disk, historyVars, Up
<1>14. SessionsAccounted'
  BY <1>1 DEF IInv, SessionsAccounted, disk, backendVars, historyVars, KnownSessions
<1> QED
  BY <1>4, <1>5, <1>6, <1>7, <1>8, <1>9, <1>10, <1>11, <1>12, <1>13, <1>14 DEF IInv

-----------------------------------------------------------------------------
(* The steps of the chain up to the agent's turn.                          *)

(* A continuation runs when the worker has nothing left. *)
LEMMA Continues ==
  ASSUME IInv, NEW at, NEW state \in {"ok", "failed"}, Continue(at, state)
  PROVE  /\ program = "up" /\ stage = at /\ reply.state = state /\ queue = << >> /\ Waiting
         /\ reply' = NoReply /\ reply'.state = "none" /\ reply'.value = 0 /\ reply' \in Replies
BY ReplyTypes DEF IInv, Continue, Up, QueueInStep, NoReply

(* What a running message is to the turn matters, not where the turn keeps *)
(* its number.                                                             *)
SameAnswer ==
  \A m \in DOMAIN messages :
    messages[m] = "Running" => (stage # "none" /\ m = CurrentAnswer
                                  <=> stage' # "none" /\ m = CurrentAnswer')

LEMMA SameAnswerIsAlive ==
  ASSUME IInv, SameAnswer, UNCHANGED messages,
         session' # 0 /\ session' \in forgotten' => session # 0 /\ session \in forgotten
  PROVE  SessionIsAlive'
BY Zenon DEF IInv, SessionIsAlive, SameAnswer, Stranded

LEMMA SameAnswerIsOwned ==
  ASSUME IInv, SameAnswer, UNCHANGED messages, Up, trouble' = trouble
  PROVE  RunningIsOwned'
BY Zenon DEF IInv, RunningIsOwned, SameAnswer

LEMMA ChainKeeps ==
  ASSUME IInv, program = "up", queue = << >>, reply' = NoReply,
         stage \in {"question", "answer", "pick", "restart", "messages"},
         stage' \in {"answer", "restart", "messages", "conversation"},
         NEW job \in Jobs, Post(job), job \in Awaited', target' \in 0..MaxMessages,
         UNCHANGED <<disk, program, cancelRequested, previous, resumed, ready, step,
                     storing, removal, dropped, backendVars, historyVars>>,
         AnswerInStep', SameAnswer,
         target' # 0 /\ ~stepTrouble => steps[target'] # "open"
  PROVE  IInv'
<1>1. /\ queue' = <<job>> /\ queue' \in Seq(Jobs) /\ queue' # << >>
      /\ Len(queue') = 1 /\ queue'[1] = job
  BY PostAlone
<1>2. reply'.state = "none" /\ reply'.value = 0 /\ reply' \in Replies
  BY ReplyTypes DEF NoReply
<1>3. TypeOK'
  <2>1. StoreTypeOK'
    BY <1>1, <1>2 DEF IInv, TypeOK, StoreTypeOK, disk
  <2>2. Flags'
    BY Zenon DEF IInv, TypeOK, historyVars, Flags
  <2> QED
    BY <2>1, <2>2 DEF IInv, TypeOK, backendVars, historyVars, Stages
<1>4. QueueInStep'
  BY <1>1, <1>2, OneAwaited DEF Waiting
<1>5. ProgramInStep'
  BY DEF IInv, ProgramInStep, disk, HasRunning
<1>6. DiskInStep'
  BY DEF IInv, DiskInStep, disk, Count, backendVars
<1>7. SessionInStep'
  BY <1>2 DEF IInv, SessionInStep, ProgramInStep
<1>8. StepsInStep'
  <2>1. job.op # "saveStep"
    BY DEF Awaited, Read, Call
  <2>2. \A i \in 1..Len(queue') : queue'[i].op # "saveStep"
    BY <1>1, <2>1
  <2> QED
    BY <2>2 DEF StepsInStep, LastSaveIsOpen, disk, historyVars
<1>9. SessionIsAlive'
  BY SameAnswerIsAlive DEF disk, backendVars
<1>10. RunningIsOwned'
  BY SameAnswerIsOwned DEF disk, historyVars, Up
<1>11. EndedAnswerHasNoOpenStep'
  BY DEF IInv, EndedAnswerHasNoOpenStep, disk, historyVars, Up
<1>12. SessionsAccounted'
  BY DEF IInv, SessionsAccounted, ProgramInStep, disk, backendVars, historyVars, KnownSessions
<1> QED
  BY <1>3, <1>4, <1>5, <1>6, <1>7, <1>8, <1>9, <1>10, <1>11, <1>12 DEF IInv

LEMMA QuestionAppendedKeeps ==
  ASSUME IInv, QuestionAppended
  PROVE  IInv'
<1>1. /\ program = "up" /\ stage = "question" /\ reply.state = "ok" /\ queue = << >>
      /\ reply' = NoReply /\ reply'.state = "none" /\ reply'.value = 0
  BY Continues DEF QuestionAppended
<1>2. /\ stage' = "answer" /\ Post(Call("append", 0, "Running", 0))
      /\ UNCHANGED <<disk, program, target, cancelRequested, previous, resumed, ready, step,
                     storing, removal, dropped, backendVars, historyVars>>
  BY DEF QuestionAppended, Chained
<1>3. Call("append", 0, "Running", 0) \in Jobs
  BY CallType, StoreAssumption DEF Ops, Rows, Statuses
<1>4. target = 0 /\ exists /\ Room(1)
  BY <1>1 DEF IInv, AnswerInStep
<1>5. AnswerInStep'
  BY <1>1, <1>2, <1>4 DEF AnswerInStep, disk, Room, Count
<1>6. SameAnswer
  BY <1>1, <1>2, <1>4, Positions DEF IInv, SameAnswer, CurrentAnswer
<1> QED
  BY <1>1, <1>2, <1>3, <1>4, <1>5, <1>6, ChainKeeps, StoreAssumption DEF Awaited

LEMMA AnswerAppendedKeeps ==
  ASSUME IInv, AnswerAppended
  PROVE  IInv'
<1>1. /\ program = "up" /\ stage = "answer" /\ reply.state = "ok" /\ queue = << >>
      /\ reply' = NoReply /\ reply'.state = "none" /\ reply'.value = 0
  BY Continues DEF AnswerAppended
<1>2. /\ stage' = "messages" /\ Post(Read("messages")) /\ target' = reply.value
      /\ UNCHANGED <<disk, program, cancelRequested, previous, resumed, ready, step,
                     storing, removal, dropped, backendVars, historyVars>>
  BY DEF AnswerAppended, Chained
<1>3. Read("messages") \in Jobs
  BY ReadType DEF Ops
<1>4. /\ target' = Count /\ exists /\ Count # 0 /\ RunningLast /\ steps[Count] = "none"
      /\ Count \in 0..MaxMessages
  BY <1>1, <1>2, Positions DEF IInv, AnswerInStep
<1>5. AnswerInStep'
  BY <1>1, <1>2, <1>4 DEF AnswerInStep, disk, Room, Count, HasRow, RunningLast
<1>6. SameAnswer
  BY <1>1, <1>2 DEF SameAnswer, CurrentAnswer
<1> QED
  BY <1>1, <1>2, <1>3, <1>4, <1>5, <1>6, ChainKeeps DEF Awaited

LEMMA RetryPickedKeeps ==
  ASSUME IInv, RetryPicked
  PROVE  IInv'
<1>1. /\ program = "up" /\ stage = "pick" /\ reply.state = "ok" /\ queue = << >>
      /\ reply' = NoReply /\ reply'.state = "none" /\ reply'.value = 0
  BY Continues DEF RetryPicked
<1>2. /\ stage' = "restart" /\ target' = reply.value /\ reply.value # 0
      /\ Post(Call("restart", reply.value, "none", 0))
      /\ UNCHANGED <<disk, program, cancelRequested, previous, resumed, ready, step,
                     storing, removal, dropped, backendVars, historyVars>>
  BY DEF RetryPicked, Chained
<1>3. target' = Count /\ exists /\ Count # 0 /\ Retryable /\ target = 0
      /\ Count \in 0..MaxMessages /\ Count \in DOMAIN messages
  BY <1>1, <1>2, Positions DEF IInv, AnswerInStep
<1>4. Call("restart", reply.value, "none", 0) \in Jobs
  BY <1>2, <1>3, CallType, StoreAssumption DEF Ops, Steps
<1>5. AnswerInStep'
  BY <1>1, <1>2, <1>3 DEF AnswerInStep, disk, Room, Count, HasRow, Retryable
<1>6. SameAnswer
  BY <1>1, <1>2, <1>3, Positions DEF IInv, SameAnswer, CurrentAnswer, Retryable, Endings
<1>7. ~stepTrouble => steps[target'] # "open"
  BY <1>1, <1>3 DEF IInv, EndedAnswerHasNoOpenStep, Retryable, Up
<1> QED
  BY <1>1, <1>2, <1>3, <1>4, <1>5, <1>6, <1>7, ChainKeeps DEF Awaited

LEMMA RestartedKeeps ==
  ASSUME IInv, Restarted
  PROVE  IInv'
<1>1. /\ program = "up" /\ stage = "restart" /\ reply.state = "ok" /\ queue = << >>
      /\ reply' = NoReply /\ reply'.state = "none" /\ reply'.value = 0
  BY Continues DEF Restarted
<1>2. /\ stage' = "messages" /\ Post(Read("messages"))
      /\ UNCHANGED <<disk, program, target, cancelRequested, previous, resumed, ready, step,
                     storing, removal, dropped, backendVars, historyVars>>
  BY DEF Restarted, Chained
<1>3. Read("messages") \in Jobs
  BY ReadType DEF Ops
<1>4. HasRow /\ RunningLast /\ steps[Count] = "none"
  BY <1>1 DEF IInv, AnswerInStep
<1>5. AnswerInStep'
  BY <1>1, <1>2, <1>4 DEF AnswerInStep, disk, Room, Count, HasRow, RunningLast
<1>6. SameAnswer
  BY <1>1, <1>2 DEF SameAnswer, CurrentAnswer
<1>7. target' \in 0..MaxMessages /\ steps[target'] # "open"
  BY <1>2, <1>4 DEF IInv, TypeOK, HasRow
<1> QED
  BY <1>1, <1>2, <1>3, <1>5, <1>6, <1>7, ChainKeeps DEF Awaited

LEMMA MessagesReadKeeps ==
  ASSUME IInv, MessagesRead
  PROVE  IInv'
<1>1. /\ program = "up" /\ stage = "messages" /\ reply.state = "ok" /\ queue = << >>
      /\ reply' = NoReply /\ reply'.state = "none" /\ reply'.value = 0
  BY Continues DEF MessagesRead
<1>2. /\ stage' = "conversation" /\ Post(Read("conversation"))
      /\ UNCHANGED <<disk, program, target, cancelRequested, previous, resumed, ready, step,
                     storing, removal, dropped, backendVars, historyVars>>
  BY DEF MessagesRead, Chained
<1>3. Read("conversation") \in Jobs
  BY ReadType DEF Ops
<1>4. HasRow /\ RunningLast /\ steps[Count] = "none"
  BY <1>1 DEF IInv, AnswerInStep
<1>5. AnswerInStep'
  BY <1>1, <1>2, <1>4 DEF AnswerInStep, disk, Room, Count, HasRow, RunningLast
<1>6. SameAnswer
  BY <1>1, <1>2 DEF SameAnswer, CurrentAnswer
<1>7. target' \in 0..MaxMessages /\ steps[target'] # "open"
  BY <1>2, <1>4 DEF IInv, TypeOK, HasRow
<1> QED
  BY <1>1, <1>2, <1>3, <1>5, <1>6, <1>7, ChainKeeps DEF Awaited

-----------------------------------------------------------------------------
(* The user, while no turn is with the agent.                              *)

LEMMA RetryKeeps ==
  ASSUME IInv, Retry
  PROVE  IInv'
<1>1. /\ program = "up" /\ stage = "none" /\ removal = "none" /\ target = 0
      /\ stage' = "pick" /\ target' = 0 /\ previous' = 0 /\ ready' = 0 /\ storing' = 0
      /\ UNCHANGED <<disk, reply, program, removal, dropped, backendVars, historyVars>>
      /\ cancelRequested' = FALSE /\ resumed' = FALSE /\ step' = "none"
  BY DEF Retry, IsBusy, NewTurn, Up, IInv, AnswerInStep
<1>2. reply.state = "none" /\ reply = NoReply /\ queue = << >>
  BY <1>1, Idle DEF Waiting
<1>3. /\ queue' = <<Read("messages")>> /\ queue' \in Seq(Jobs) /\ queue' # << >>
      /\ Len(queue') = 1 /\ queue'[1] = Read("messages")
  BY <1>2, PostAlone, ReadType DEF Retry, Ops
<1>4. TypeOK'
  <2>1. StoreTypeOK'
    BY <1>1, <1>3 DEF IInv, TypeOK, StoreTypeOK, disk
  <2>2. Flags'
    BY <1>1, Zenon DEF IInv, TypeOK, historyVars, Flags
  <2> QED
    BY <1>1, <2>1, <2>2, StoreAssumption DEF IInv, TypeOK, backendVars, historyVars, Stages, Steps
<1>5. QueueInStep'
  BY <1>1, <1>2, <1>3, OneAwaited DEF Awaited, Waiting, NoReply
<1>6. ProgramInStep'
  BY <1>1 DEF IInv, ProgramInStep, disk, HasRunning
<1>7. DiskInStep'
  BY <1>1 DEF IInv, DiskInStep, disk, Count, backendVars
<1>8. AnswerInStep'
  BY <1>1, <1>2 DEF AnswerInStep, NoReply
<1>9. SessionInStep'
  BY <1>1 DEF SessionInStep
<1>10. StepsInStep'
  <2>1. \A i \in 1..Len(queue') : queue'[i].op # "saveStep"
    BY <1>3 DEF Read, Call
  <2> QED
    BY <1>1, <2>1 DEF StepsInStep, LastSaveIsOpen
<1>11. SameAnswer
  BY <1>1, Positions DEF IInv, SameAnswer, CurrentAnswer
<1>12. SessionIsAlive'
  BY <1>1, <1>11, SameAnswerIsAlive DEF disk, backendVars
<1>13. RunningIsOwned'
  BY <1>1, <1>11, SameAnswerIsOwned DEF disk, historyVars, Up
<1>14. EndedAnswerHasNoOpenStep'
  BY <1>1 DEF IInv, EndedAnswerHasNoOpenStep, disk, historyVars, Up
<1>15. SessionsAccounted'
  BY <1>1 DEF IInv, SessionsAccounted, disk, backendVars, historyVars, KnownSessions
<1> QED
  BY <1>4, <1>5, <1>6, <1>7, <1>8, <1>9, <1>10, <1>12, <1>13, <1>14, <1>15 DEF IInv

(* A cancel that comes too early is only remembered. *)
OthersThanCancel ==
  <<storeVars, program, stage, target, previous, resumed, ready, step, storing, dropped,
    backendVars, historyVars>>

LEMMA RemembersKeeps ==
  ASSUME IInv, stage # "none", stage # "turn", UNCHANGED OthersThanCancel,
         cancelRequested' = TRUE, removal' = removal \/ (removal = "none" /\ removal' = "wanted")
  PROVE  IInv'
<1>1. /\ UNCHANGED <<disk, queue, reply, program, stage, target, previous, ready, step, storing,
                     dropped, backendVars, historyVars>>
      /\ removal # "removing" /\ removal' # "removing"
  BY DEF OthersThanCancel, storeVars, IInv, ProgramInStep
<1>2. TypeOK'
  <2>1. StoreTypeOK'
    BY <1>1 DEF IInv, TypeOK, StoreTypeOK, disk
  <2>2. Flags'
    BY Zenon DEF IInv, TypeOK, historyVars, Flags, OthersThanCancel
  <2> QED
    BY <1>1, <2>1, <2>2 DEF IInv, TypeOK, backendVars, historyVars
<1>3. QueueInStep'
  <2>1. Awaited' = Awaited /\ Saves' = Saves
    BY <1>1 DEF Awaited, Saves
  <2>2. Waiting /\ Waiting'
    BY <1>1 DEF Waiting
  <2> QED
    BY <1>1, <2>1, <2>2 DEF IInv, QueueInStep
<1>4. ProgramInStep'
  BY <1>1 DEF IInv, ProgramInStep, disk, HasRunning
<1>5. DiskInStep'
  BY <1>1 DEF IInv, DiskInStep, disk, Count, backendVars
<1>6. AnswerInStep'
  BY <1>1 DEF IInv, AnswerInStep, disk, Room, Count, HasRow, RunningLast, Retryable, EndedLast
<1>7. SessionInStep'
  BY <1>1 DEF IInv, SessionInStep, disk, backendVars
<1>8. StepsInStep'
  BY <1>1, Zenon DEF IInv, StepsInStep, LastSaveIsOpen, disk, historyVars
<1>9. SameAnswer
  BY <1>1 DEF SameAnswer, CurrentAnswer
<1>10. SessionIsAlive'
  BY <1>1, <1>9, SameAnswerIsAlive DEF disk, backendVars
<1>11. RunningIsOwned'
  BY <1>1, <1>9, SameAnswerIsOwned DEF disk, historyVars, RunningIsOwned, Up
<1>12. EndedAnswerHasNoOpenStep'
  BY <1>1 DEF IInv, EndedAnswerHasNoOpenStep, disk, historyVars, Up
<1>13. SessionsAccounted'
  BY <1>1 DEF IInv, SessionsAccounted, disk, backendVars, historyVars, KnownSessions
<1> QED
  BY <1>2, <1>3, <1>4, <1>5, <1>6, <1>7, <1>8, <1>10, <1>11, <1>12, <1>13 DEF IInv

LEMMA CancelEarlyKeeps ==
  ASSUME IInv, CancelEarly
  PROVE  IInv'
BY RemembersKeeps DEF CancelEarly, OthersThanCancel

LEMMA RemoveIdleKeeps ==
  ASSUME IInv, RemoveIdle
  PROVE  IInv'
<1>1. /\ program = "up" /\ stage = "none" /\ removal = "none" /\ removal' = "removing"
      /\ Post(Read("remove"))
      /\ UNCHANGED <<disk, reply, program, turnVars, dropped, backendVars, historyVars>>
      /\ UNCHANGED <<stage, target, previous, ready, step, storing>>
  BY DEF RemoveIdle, Up, turnVars
<1>2. reply.state = "none" /\ reply = NoReply /\ queue = << >>
  BY <1>1, Idle DEF Waiting
<1>3. /\ queue' = <<Read("remove")>> /\ queue' \in Seq(Jobs) /\ queue' # << >>
      /\ Len(queue') = 1 /\ queue'[1] = Read("remove")
  BY <1>1, <1>2, PostAlone, ReadType DEF Ops
<1>4. TypeOK'
  <2>1. StoreTypeOK'
    BY <1>1, <1>3 DEF IInv, TypeOK, StoreTypeOK, disk
  <2>2. Flags'
    BY <1>1, Zenon DEF IInv, TypeOK, historyVars, Flags, turnVars
  <2> QED
    BY <1>1, <2>1, <2>2 DEF IInv, TypeOK, backendVars, historyVars
<1>5. QueueInStep'
  BY <1>1, <1>2, <1>3, OneAwaited DEF Awaited, Waiting, NoReply
<1>6. ProgramInStep'
  BY <1>1 DEF IInv, ProgramInStep, disk, HasRunning
<1>7. DiskInStep'
  BY <1>1 DEF IInv, DiskInStep, disk, Count, backendVars
<1>8. AnswerInStep'
  BY <1>1, <1>2 DEF IInv, AnswerInStep, NoReply
<1>9. SessionInStep'
  BY <1>1, <1>2 DEF IInv, SessionInStep
<1>10. StepsInStep'
  <2>1. \A i \in 1..Len(queue') : queue'[i].op # "saveStep"
    BY <1>3 DEF Read, Call
  <2>2. target' = 0
    BY <1>1 DEF IInv, AnswerInStep
  <2> QED
    BY <1>1, <2>1, <2>2 DEF StepsInStep, LastSaveIsOpen
<1>11. SameAnswer
  BY <1>1 DEF SameAnswer, CurrentAnswer
<1>12. SessionIsAlive'
  BY <1>1, <1>11, SameAnswerIsAlive DEF disk, backendVars
<1>13. RunningIsOwned'
  BY <1>1, <1>11, SameAnswerIsOwned DEF disk, historyVars, Up
<1>14. EndedAnswerHasNoOpenStep'
  BY <1>1 DEF IInv, EndedAnswerHasNoOpenStep, disk, historyVars, Up
<1>15. SessionsAccounted'
  BY <1>1 DEF IInv, SessionsAccounted, disk, backendVars, historyVars, KnownSessions
<1> QED
  BY <1>4, <1>5, <1>6, <1>7, <1>8, <1>9, <1>10, <1>12, <1>13, <1>14, <1>15 DEF IInv

-----------------------------------------------------------------------------
(* The turn is with the agent, or is being concluded.                      *)

SaveOf(row) == Call("saveStep", target, row, 0)

LEMMA SaveType ==
  ASSUME TypeOK, NEW row \in {"open", "closed"}
  PROVE  SaveOf(row) \in Jobs /\ SaveOf(row).op = "saveStep" /\ SaveOf(row).row = row
BY CallType, StoreAssumption DEF TypeOK, SaveOf, Call, Ops, Steps

(* While the agent works, what the worker has are steps of its answer. *)
LEMMA OnlySaves ==
  ASSUME IInv, stage = "turn" \/ queue = << >>
  PROVE  \A i \in 1..Len(queue) : queue[i] \in {SaveOf("open"), SaveOf("closed")}
<1>1. CASE queue = << >>
  BY <1>1
<1>2. CASE stage = "turn"
  BY <1>2 DEF IInv, QueueInStep, Saves, Awaited, SaveOf
<1> QED
  BY <1>1, <1>2

(* The last call of a turn is posted behind its steps. *)
LEMMA ConcludeQueue ==
  ASSUME queue \in Seq(Jobs), NEW save \in Jobs, NEW last \in Jobs,
         \/ queue' = queue \o << >> \o <<last>>
         \/ queue' = queue \o <<save>> \o <<last>>
  PROVE  /\ queue' \in Seq(Jobs) /\ Len(queue') \in Nat /\ Len(queue') # 0
         /\ queue' # << >> /\ queue'[Len(queue')] = last
         /\ \A i \in 1..Len(queue') : i # Len(queue') =>
              (i \in 1..Len(queue) /\ queue'[i] = queue[i]) \/ queue'[i] = save
         /\ queue' = queue \o <<save>> \o <<last>> =>
              Len(queue') = Len(queue) + 2 /\ queue'[Len(queue) + 1] = save
         /\ queue' = queue \o << >> \o <<last>> =>
              Len(queue') = Len(queue) + 1 /\ \A i \in 1..Len(queue) : queue'[i] = queue[i]
<1>1. CASE queue' = queue \o << >> \o <<last>>
  <2>1. queue' = Append(queue, last)
    BY <1>1
  <2>2. queue' \in Seq(Jobs) /\ Len(queue') = Len(queue) + 1 /\ queue'[Len(queue) + 1] = last
        /\ \A i \in 1..Len(queue) : queue'[i] = queue[i]
    BY <2>1
  <2>3. queue' # queue \o <<save>> \o <<last>>
    <3>1. Len(queue \o <<save>> \o <<last>>) = Len(queue) + 2
      OBVIOUS
    <3> QED
      BY <2>2, <3>1
  <2> QED
    BY <2>2, <2>3, EmptySeq
<1>2. CASE queue' = queue \o <<save>> \o <<last>>
  <2>1. queue' = Append(Append(queue, save), last)
    <3>1. queue \o <<save>> = Append(queue, save) /\ Append(queue, save) \in Seq(Jobs)
      BY AppendIsConcat, AppendProperties
    <3>2. Append(queue, save) \o <<last>> = Append(Append(queue, save), last)
      BY <3>1, AppendIsConcat
    <3> QED
      BY <1>2, <3>1, <3>2
  <2>2. queue' \in Seq(Jobs) /\ Len(queue') = Len(queue) + 2 /\ queue'[Len(queue) + 2] = last
        /\ queue'[Len(queue) + 1] = save
        /\ \A i \in 1..Len(queue) : queue'[i] = queue[i]
    BY <2>1
  <2>3. queue' # queue \o << >> \o <<last>>
    <3>1. Len(queue \o << >> \o <<last>>) = Len(queue) + 1
      OBVIOUS
    <3> QED
      BY <2>2, <3>1
  <2> QED
    BY <2>2, <2>3, EmptySeq
<1> QED
  BY <1>1, <1>2

(* The step of the turn is closed before the turn is concluded. *)
LEMMA ConcludeKeeps ==
  ASSUME IInv, program = "up", UNCHANGED <<disk, program, target, dropped, forgotten, historyVars>>,
         stage \in {"conversation", "turn"}, stage = "conversation" => queue = << >>,
         reply' = NoReply, HasRow, RunningLast,
         NEW saves, NEW status \in Endable, NEW stored \in 0..made',
         Conclude(saves, status, stored),
         saves = << >> \/ saves = <<SaveOf("closed")>>,
         saves = << >> /\ ~stepTrouble => ~LastSaveIsOpen,
         previous' = session, stored = 0 \/ stored \in {previous', ready'},
         \/ made' = made /\ ready' \in {0, previous'}
         \/ made' = made + 1 /\ made < MaxSessions /\ ready' = made + 1,
         Flags', step' \in Steps, removal = "none" \/ removal' = removal, removal' \in {"none", "wanted"}
  PROVE  IInv'
<1> DEFINE last == Call("finish", target, status, stored)
<1>1. stage' = "finish" /\ storing' = stored /\ queue' = queue \o saves \o <<last>>
      /\ reply'.state = "none" /\ reply'.value = 0 /\ reply' \in Replies
  BY ReplyTypes DEF Conclude, NoReply
<1>2. made \in 0..MaxSessions /\ made' \in 0..MaxSessions /\ made <= made'
      /\ session \in 0..made /\ target \in 0..MaxMessages /\ target # 0 /\ queue \in Seq(Jobs)
      /\ forgotten \subseteq 1..made
  BY StoreAssumption DEF IInv, TypeOK, StoreTypeOK, DiskInStep, HasRow
<1>3. last \in Jobs /\ last.op # "saveStep"
  <2>1. status \in Rows \cup Steps /\ "finish" \in Ops
    BY DEF Endable, Rows, Statuses, Endings, Ops
  <2> QED
    BY <1>2, <2>1, CallType, StoreAssumption DEF Call
<1>4. SaveOf("closed") \in Jobs /\ SaveOf("closed").op = "saveStep" /\ SaveOf("closed").row = "closed"
  BY SaveType DEF IInv
<1>5. /\ queue' \in Seq(Jobs) /\ Len(queue') \in Nat /\ Len(queue') # 0
      /\ queue' # << >> /\ queue'[Len(queue')] = last
      /\ \A i \in 1..Len(queue') : i # Len(queue') =>
           (i \in 1..Len(queue) /\ queue'[i] = queue[i]) \/ queue'[i] = SaveOf("closed")
      /\ saves # << >> => Len(queue') = Len(queue) + 2 /\ queue'[Len(queue) + 1] = SaveOf("closed")
      /\ saves = << >> => Len(queue') = Len(queue) + 1 /\ \A i \in 1..Len(queue) : queue'[i] = queue[i]
  BY <1>1, <1>2, <1>3, <1>4, ConcludeQueue
<1>6. TypeOK'
  <2>1. StoreTypeOK'
    BY <1>1, <1>5 DEF IInv, TypeOK, StoreTypeOK, disk
  <2> QED
    BY <1>1, <1>2, <2>1 DEF IInv, TypeOK, historyVars, Stages
<1>7. QueueInStep'
  <2>1. last \in Awaited'
    BY <1>1 DEF Awaited
  <2>2. {SaveOf("open"), SaveOf("closed")} \subseteq Saves'
    BY <1>1 DEF Saves, SaveOf
  <2>3. \A i \in 1..Len(queue') : i # Len(queue') => queue'[i] \in Saves'
    BY <1>5, <2>2, OnlySaves
  <2>4. Waiting'
    BY <1>1 DEF Waiting
  <2> QED
    BY <1>1, <1>5, <2>1, <2>3, <2>4 DEF QueueInStep
<1>8. ProgramInStep'
  BY <1>1 DEF IInv, ProgramInStep, disk, HasRunning
<1>9. DiskInStep'
  BY <1>2 DEF IInv, DiskInStep, disk, Count
<1>10. AnswerInStep'
  BY <1>1 DEF AnswerInStep, HasRow, RunningLast, Count, disk
<1>11. SessionInStep'
  <2>1. ready' \in forgotten' => ready' = previous'
    BY <1>2
  <2> QED
    BY <1>1, <2>1 DEF SessionInStep, disk
<1>12. StepsInStep'
  <2>1. CASE saves # << >>
    <3>1. Len(queue) + 1 \in 1..Len(queue') /\ queue'[Len(queue) + 1].op = "saveStep"
          /\ queue'[Len(queue) + 1].row = "closed" /\ queue'[Len(queue')].op # "saveStep"
          /\ Len(queue') = Len(queue) + 2 /\ Len(queue) \in Nat
      BY <1>2, <1>3, <1>4, <1>5, <2>1
    <3> QED
      BY <3>1 DEF StepsInStep, LastSaveIsOpen
  <2>2. CASE saves = << >>
    <3>1. /\ Len(queue') = Len(queue) + 1 /\ Len(queue) \in Nat
          /\ \A i \in 1..Len(queue) : queue'[i] = queue[i]
          /\ queue'[Len(queue')].op # "saveStep"
      BY <1>2, <1>3, <1>5, <2>2
    <3>2. LastSaveIsOpen' => LastSaveIsOpen
      BY <3>1 DEF LastSaveIsOpen, disk
    <3> QED
      BY <2>2, <3>2 DEF StepsInStep, historyVars
  <2> QED
    BY <2>1, <2>2
<1>13. SameAnswer
  BY <1>1 DEF SameAnswer, CurrentAnswer
<1>14. SessionIsAlive'
  BY <1>13, SameAnswerIsAlive DEF disk
<1>15. RunningIsOwned'
  BY <1>13, SameAnswerIsOwned DEF disk, historyVars, Up
<1>16. EndedAnswerHasNoOpenStep'
  BY DEF IInv, EndedAnswerHasNoOpenStep, disk, historyVars, Up
<1>17. SessionsAccounted'
  <2>1. ready' # 0 => ready' \in KnownSessions'
    BY DEF KnownSessions
  <2>2. \A s \in 1..made' : s \in 1..made \/ s = ready'
    BY <1>2
  <2>3. \A s \in 1..made : s = session \/ s \in forgotten \cup lost \/ s = dropped
    BY DEF IInv, SessionsAccounted, ProgramInStep
  <2> QED
    BY <1>1, <2>1, <2>2, <2>3 DEF SessionsAccounted, disk, historyVars
<1> QED
  BY <1>6, <1>7, <1>8, <1>9, <1>10, <1>11, <1>12, <1>14, <1>15, <1>16, <1>17 DEF IInv

(* What is known while the agent works. *)
LEMMA AtWork ==
  ASSUME IInv, stage = "turn"
  PROVE  /\ program = "up" /\ reply = NoReply /\ HasRow /\ RunningLast
         /\ previous = session /\ ready = 0
         /\ removal \in {"none", "wanted"} /\ session \in 0..made
         /\ ~stepTrouble /\ LastSaveIsOpen => step = "open"
<1>1. program = "up" /\ removal \in {"none", "wanted"}
  BY DEF IInv, TypeOK, ProgramInStep
<1>2. reply = NoReply
  BY <1>1, Idle DEF Waiting
<1>3. HasRow /\ RunningLast
  BY DEF IInv, AnswerInStep
<1>4. previous = session /\ ready = 0 /\ session \in 0..made
  BY DEF IInv, SessionInStep, DiskInStep
<1>5. ~stepTrouble /\ LastSaveIsOpen => step = "open"
  BY DEF IInv, StepsInStep
<1> QED
  BY <1>1, <1>2, <1>3, <1>4, <1>5

LEMMA ClosedStepFacts ==
  /\ ClosedStep = << >> \/ ClosedStep = <<SaveOf("closed")>>
  /\ ClosedStep = << >> => step # "open"
<1>1. CASE step = "open"
  <2>1. ClosedStep = <<SaveOf("closed")>>
    BY <1>1 DEF ClosedStep, SaveOf
  <2>2. Len(ClosedStep) = 1
    BY <2>1
  <2> QED
    BY <2>1, <2>2, EmptySeq
<1>2. CASE step # "open"
  BY <1>2 DEF ClosedStep
<1> QED
  BY <1>1, <1>2

LEMMA CancelTurnKeeps ==
  ASSUME IInv, CancelTurn, removal = "none" \/ removal' = removal, removal' \in {"none", "wanted"},
         UNCHANGED <<disk, reply, program, dropped, backendVars, historyVars>>
  PROVE  IInv'
<1>1. /\ stage = "turn" /\ Conclude(ClosedStep, "Cancelled", 0) /\ cancelRequested' = TRUE
      /\ UNCHANGED <<target, previous, resumed, ready, step>>
  BY DEF CancelTurn
<1>2. Flags'
  BY <1>1, Zenon DEF IInv, TypeOK, Flags, historyVars
<1>3. step' \in Steps /\ 0 \in 0..made' /\ "Cancelled" \in Endable
  BY <1>1, StoreAssumption DEF IInv, TypeOK, backendVars, Endable
<1> QED
  BY <1>1, <1>2, <1>3, AtWork, ClosedStepFacts, ConcludeKeeps DEF backendVars

LEMMA CancelKeeps ==
  ASSUME IInv, Cancel
  PROVE  IInv'
<1>1. removal \in {"none", "wanted"}
  BY AtWork DEF Cancel, CancelTurn
<1> QED
  BY <1>1, CancelTurnKeeps DEF Cancel

LEMMA RemoveActiveKeeps ==
  ASSUME IInv, RemoveActive
  PROVE  IInv'
<1>1. CASE CancelTurn
  BY <1>1, CancelTurnKeeps DEF RemoveActive
<1>2. CASE ~CancelTurn
  BY <1>2, RemembersKeeps DEF RemoveActive, OthersThanCancel, storeVars
<1> QED
  BY <1>1, <1>2

LEMMA TurnFinishedKeeps ==
  ASSUME IInv, TurnFinished
  PROVE  IInv'
<1>1. /\ stage = "turn" /\ step # "open" /\ Conclude(<< >>, "Complete", SessionAfterSuccess(ready'))
      /\ UNCHANGED <<disk, reply, program, target, cancelRequested, previous, resumed,
                     removal, dropped, forgotten, historyVars, step>>
      /\ \/ ready' = 0 /\ UNCHANGED made
         \/ ready' = made + 1 /\ made' = made + 1 /\ made < MaxSessions
         \/ resumed /\ ready' = previous /\ UNCHANGED made
  BY DEF TurnFinished, Reports
<1>2. Flags'
  BY <1>1, Zenon DEF IInv, TypeOK, Flags, historyVars
<1>3. step' \in Steps /\ made \in Nat /\ made' \in Nat /\ made <= made' /\ session \in 0..made
      /\ previous = session /\ "Complete" \in Endable
  BY <1>1, AtWork DEF IInv, TypeOK, Endable
<1>4. SessionAfterSuccess(ready') \in 0..made'
      /\ (SessionAfterSuccess(ready') = 0 \/ SessionAfterSuccess(ready') \in {previous', ready'})
  BY <1>1, <1>3 DEF SessionAfterSuccess
<1> QED
  BY <1>1, <1>2, <1>3, <1>4, AtWork, ConcludeKeeps

LEMMA TurnFailedKeeps ==
  ASSUME IInv, TurnFailed
  PROVE  IInv'
<1>1. /\ stage = "turn" /\ Conclude(ClosedStep, "Failed", 0)
      /\ UNCHANGED <<disk, reply, program, target, cancelRequested, previous, resumed, ready,
                     removal, dropped, backendVars, historyVars, step>>
  BY DEF TurnFailed, Reports, backendVars
<1>2. Flags'
  BY <1>1, Zenon DEF IInv, TypeOK, Flags, historyVars
<1>3. step' \in Steps /\ 0 \in 0..made' /\ "Failed" \in Endable
  BY <1>1, StoreAssumption DEF IInv, TypeOK, backendVars, Endable
<1> QED
  BY <1>1, <1>2, <1>3, AtWork, ClosedStepFacts, ConcludeKeeps DEF backendVars

-----------------------------------------------------------------------------
(* begin()                                                                 *)

LEMMA BeginWithFacts ==
  ASSUME IInv, BeginWith
  PROVE  /\ stage = "conversation" /\ program = "up" /\ queue = << >> /\ reply' = NoReply
         /\ removal \in {"none", "wanted"} /\ HasRow /\ RunningLast /\ steps[Count] = "none"
         /\ previous' = session /\ ready = 0 /\ session \in 0..made /\ reply.value = session
         /\ UNCHANGED <<disk, program, target, cancelRequested, ready, step, removal, dropped,
                        backendVars, historyVars>>
         /\ ~LastSaveIsOpen
<1>1. /\ stage = "conversation" /\ program = "up" /\ queue = << >> /\ reply' = NoReply
      /\ reply.state = "ok"
  BY Continues DEF BeginWith
<1>2. removal \in {"none", "wanted"}
  BY <1>1 DEF IInv, TypeOK, ProgramInStep
<1>3. HasRow /\ RunningLast /\ steps[Count] = "none"
  BY <1>1 DEF IInv, AnswerInStep
<1>4. reply.value = session /\ ready = 0 /\ session \in 0..made
  BY <1>1 DEF IInv, SessionInStep, DiskInStep
<1>5. ~LastSaveIsOpen
  BY <1>1, <1>3 DEF LastSaveIsOpen, HasRow
<1> QED
  BY <1>1, <1>2, <1>3, <1>4, <1>5 DEF BeginWith

LEMMA BeginCancelledKeeps ==
  ASSUME IInv, BeginCancelled
  PROVE  IInv'
<1>1. BeginWith /\ Conclude(<< >>, "Cancelled", 0) /\ resumed' = resumed
  BY DEF BeginCancelled
<1>2. Flags'
  BY <1>1, BeginWithFacts, Zenon DEF IInv, TypeOK, Flags, historyVars
<1>3. step' \in Steps /\ 0 \in 0..made' /\ "Cancelled" \in Endable /\ made' = made /\ forgotten' = forgotten
  BY <1>1, BeginWithFacts, StoreAssumption DEF IInv, TypeOK, backendVars, Endable
<1> QED
  BY <1>1, <1>2, <1>3, BeginWithFacts, ConcludeKeeps

LEMMA BeginUnavailableKeeps ==
  ASSUME IInv, BeginUnavailable
  PROVE  IInv'
<1>1. BeginWith /\ Conclude(<< >>, "Failed", 0) /\ resumed' \in BOOLEAN
  BY Zenon DEF BeginUnavailable, PlansToResume
<1>2. Flags'
  BY <1>1, BeginWithFacts, Zenon DEF IInv, TypeOK, Flags, historyVars
<1>3. step' \in Steps /\ 0 \in 0..made' /\ "Failed" \in Endable /\ made' = made /\ forgotten' = forgotten
  BY <1>1, BeginWithFacts, StoreAssumption DEF IInv, TypeOK, backendVars, Endable
<1> QED
  BY <1>1, <1>2, <1>3, BeginWithFacts, ConcludeKeeps

LEMMA BeginKeeps ==
  ASSUME IInv, Begin
  PROVE  IInv'
<1>1. /\ BeginWith /\ resumed' \in BOOLEAN /\ stage' = "turn" /\ UNCHANGED <<queue, storing>>
      /\ queue' = << >>
  BY BeginWithFacts, Zenon DEF Begin, PlansToResume
<1>2. /\ stage = "conversation" /\ program = "up" /\ program' = "up" /\ queue = << >>
      /\ reply' = NoReply /\ reply'.state = "none" /\ reply'.value = 0 /\ reply' \in Replies
      /\ removal' \in {"none", "wanted"} /\ removal' = removal
      /\ HasRow /\ RunningLast /\ steps[Count] = "none" /\ target' = target /\ step' = step
      /\ previous' = session /\ ready' = 0 /\ ready = 0 /\ session \in 0..made
      /\ UNCHANGED <<disk, dropped, backendVars, historyVars, cancelRequested>>
  BY <1>1, BeginWithFacts, ReplyTypes DEF NoReply
<1>3. TypeOK'
  <2>1. StoreTypeOK'
    BY <1>1, <1>2 DEF IInv, TypeOK, StoreTypeOK, disk
  <2>2. Flags'
    BY <1>1, <1>2, Zenon DEF IInv, TypeOK, Flags, historyVars
  <2> QED
    BY <1>1, <1>2, <2>1, <2>2 DEF IInv, TypeOK, backendVars, historyVars, Stages
<1>4. QueueInStep'
  BY <1>1, <1>2 DEF QueueInStep, Waiting
<1>5. ProgramInStep'
  BY <1>1, <1>2 DEF IInv, ProgramInStep, disk, HasRunning
<1>6. DiskInStep'
  BY <1>2 DEF IInv, DiskInStep, disk, Count, backendVars
<1>7. AnswerInStep'
  BY <1>1, <1>2 DEF AnswerInStep, HasRow, RunningLast, Count, disk
<1>8. SessionInStep'
  BY <1>1, <1>2 DEF SessionInStep, disk, ProgramInStep
<1>9. StepsInStep'
  BY <1>1, <1>2 DEF StepsInStep, LastSaveIsOpen, disk, HasRow
<1>10. SameAnswer
  BY <1>1, <1>2 DEF SameAnswer, CurrentAnswer
<1>11. SessionIsAlive'
  BY <1>2, <1>10, SameAnswerIsAlive DEF disk, backendVars
<1>12. RunningIsOwned'
  BY <1>2, <1>10, SameAnswerIsOwned DEF disk, historyVars, Up
<1>13. EndedAnswerHasNoOpenStep'
  BY <1>2 DEF IInv, EndedAnswerHasNoOpenStep, disk, historyVars, Up
<1>14. SessionsAccounted'
  BY <1>2 DEF IInv, SessionsAccounted, ProgramInStep, disk, backendVars, historyVars
<1> QED
  BY <1>3, <1>4, <1>5, <1>6, <1>7, <1>8, <1>9, <1>11, <1>12, <1>13, <1>14 DEF IInv

-----------------------------------------------------------------------------
(* The agent reports a step.                                               *)

LEMMA StepKeeps ==
  ASSUME IInv, Reports, NEW row \in {"open", "closed"}, step' = row,
         Post(Call("saveStep", target, row, 0)), UNCHANGED <<stage, ready, storing, made>>
  PROVE  IInv'
<1>1. /\ stage = "turn" /\ stage' = "turn" /\ queue' = Append(queue, SaveOf(row))
      /\ UNCHANGED <<disk, reply, program, target, cancelRequested, previous, resumed,
                     removal, dropped, forgotten, historyVars>>
  BY DEF Reports, Post, SaveOf
<1>2. /\ program = "up" /\ reply = NoReply /\ HasRow /\ RunningLast /\ removal # "removing"
      /\ reply.state = "none" /\ reply.value = 0 /\ previous = session /\ ready = 0
  BY <1>1, AtWork DEF NoReply
<1>3. SaveOf(row) \in Jobs /\ SaveOf(row).op = "saveStep" /\ SaveOf(row).row = row
  BY SaveType DEF IInv
<1>4. /\ queue \in Seq(Jobs) /\ queue' \in Seq(Jobs) /\ Len(queue) \in Nat
      /\ Len(queue') = Len(queue) + 1 /\ queue'[Len(queue) + 1] = SaveOf(row)
      /\ \A i \in 1..Len(queue) : queue'[i] = queue[i]
  BY <1>1, <1>3 DEF IInv, TypeOK, StoreTypeOK
<1>5. TypeOK'
  <2>1. StoreTypeOK'
    BY <1>1, <1>4 DEF IInv, TypeOK, StoreTypeOK, disk
  <2>2. Flags'
    BY <1>1, Zenon DEF IInv, TypeOK, Flags, historyVars
  <2> QED
    BY <1>1, <2>1, <2>2 DEF IInv, TypeOK, historyVars, Steps
<1>6. QueueInStep'
  <2>1. {SaveOf("open"), SaveOf("closed")} \subseteq Saves'
    BY <1>1 DEF Saves, SaveOf
  <2>2. \A i \in 1..Len(queue') : queue'[i] \in Saves'
    BY <1>1, <1>4, <2>1, OnlySaves
  <2>3. ~Waiting'
    BY <1>1, <1>2 DEF Waiting
  <2> QED
    BY <1>1, <1>2, <2>2, <2>3 DEF QueueInStep
<1>7. ProgramInStep'
  BY <1>1, <1>2 DEF IInv, ProgramInStep, disk, HasRunning
<1>8. DiskInStep'
  BY <1>1 DEF IInv, DiskInStep, disk, Count
<1>9. AnswerInStep'
  BY <1>1, <1>2 DEF AnswerInStep, HasRow, RunningLast, Count, disk
<1>10. SessionInStep'
  BY <1>1, <1>2 DEF SessionInStep, disk
<1>11. StepsInStep'
  <2>1. row = "closed" => ~LastSaveIsOpen'
    <3>1. Len(queue) + 1 \in 1..Len(queue') /\ queue'[Len(queue) + 1].op = "saveStep"
      BY <1>3, <1>4
    <3>2. \A i \in 1..Len(queue') : i = Len(queue) + 1 \/ Len(queue) + 1 \in i+1..Len(queue')
      BY <1>4
    <3> QED
      BY <1>3, <1>4, <3>1, <3>2 DEF LastSaveIsOpen
  <2> QED
    BY <1>1, <2>1 DEF StepsInStep
<1>12. SameAnswer
  BY <1>1 DEF SameAnswer, CurrentAnswer
<1>13. SessionIsAlive'
  BY <1>1, <1>12, SameAnswerIsAlive DEF disk
<1>14. RunningIsOwned'
  BY <1>1, <1>2, <1>12, SameAnswerIsOwned DEF disk, historyVars, Up
<1>15. EndedAnswerHasNoOpenStep'
  BY <1>1 DEF IInv, EndedAnswerHasNoOpenStep, disk, historyVars, Up
<1>16. SessionsAccounted'
  BY <1>1, <1>2 DEF IInv, SessionsAccounted, disk, historyVars
<1> QED
  BY <1>5, <1>6, <1>7, <1>8, <1>9, <1>10, <1>11, <1>13, <1>14, <1>15, <1>16 DEF IInv

LEMMA StepStartedKeeps ==
  ASSUME IInv, StepStarted
  PROVE  IInv'
BY StepKeeps DEF StepStarted

LEMMA StepFinishedKeeps ==
  ASSUME IInv, StepFinished
  PROVE  IInv'
BY StepKeeps DEF StepFinished

-----------------------------------------------------------------------------
(* The end of a turn, and of the conversation.                             *)

(* A turn is over: what it worked on is answered for by somebody else.     *)
LEMMA FinishKeeps ==
  ASSUME IInv, program = "up", queue = << >>, stage # "none", reply' = NoReply, Finish,
         UNCHANGED <<disk, program, dropped, made, lost, stepTrouble, crashes>>,
         trouble' \in BOOLEAN, ~trouble' => \A m \in DOMAIN messages : messages[m] # "Running",
         forgotten' \subseteq 1..made,
         session # 0 /\ session \in forgotten' => \E m \in DOMAIN messages : messages[m] = "Running",
         \A s \in 1..made : s = session \/ s \in forgotten' \cup lost \/ s = dropped
  PROVE  IInv'
<1>1. /\ stage' = "none" /\ target' = 0 /\ previous' = 0 /\ ready' = 0 /\ storing' = 0
      /\ cancelRequested' = FALSE /\ resumed' = FALSE /\ step' = "none"
      /\ reply'.state = "none" /\ reply'.value = 0 /\ reply' \in Replies
      /\ removal \in {"none", "wanted"}
  BY ReplyTypes DEF Finish, NewTurn, NoReply, IInv, TypeOK, ProgramInStep
<1>2. \/ removal' = "none" /\ queue' = << >>
      \/ removal' = "removing" /\ Post(Read("remove"))
  BY <1>1 DEF Finish, RemovalStarts, Post
<1>3. \/ removal' = "none" /\ queue' = << >>
      \/ /\ removal' = "removing"
         /\ queue' = <<Read("remove")>> /\ queue' \in Seq(Jobs) /\ queue' # << >>
         /\ Len(queue') = 1 /\ queue'[1] = Read("remove")
  BY <1>2, PostAlone, ReadType DEF Ops
<1>4. QueueInStep'
  <2>1. CASE removal' = "none" /\ queue' = << >>
    <3>1. ~Waiting'
      BY <1>1, <2>1 DEF Waiting
    <3> QED
      BY <1>1, <2>1, <3>1 DEF QueueInStep
  <2>2. CASE removal' = "removing" /\ queue' # << >>
    BY <1>1, <1>3, <2>2, OneAwaited DEF Waiting, Awaited
  <2> QED
    BY <1>3, <2>1, <2>2
<1>5. TypeOK'
  <2>1. StoreTypeOK'
    BY <1>1, <1>3 DEF IInv, TypeOK, StoreTypeOK, disk
  <2>2. Flags'
    BY <1>1, Zenon DEF IInv, TypeOK, Flags
  <2> QED
    BY <1>1, <1>3, <2>1, <2>2, StoreAssumption DEF IInv, TypeOK, Stages, Steps
<1>6. ProgramInStep'
  BY <1>1, <1>3 DEF IInv, ProgramInStep, disk, HasRunning
<1>7. DiskInStep'
  BY DEF IInv, DiskInStep, disk, Count
<1>8. AnswerInStep'
  BY <1>1 DEF AnswerInStep
<1>9. SessionInStep'
  BY <1>1 DEF SessionInStep
<1>10. StepsInStep'
  <2>1. \A i \in 1..Len(queue') : queue'[i].op # "saveStep"
    BY <1>3 DEF Read, Call
  <2> QED
    BY <1>1, <2>1 DEF StepsInStep, LastSaveIsOpen
<1>11. SessionIsAlive'
  BY <1>1 DEF SessionIsAlive, Stranded, disk
<1>12. RunningIsOwned'
  BY DEF RunningIsOwned, disk
<1>13. EndedAnswerHasNoOpenStep'
  BY DEF IInv, EndedAnswerHasNoOpenStep, disk, Up
<1>14. SessionsAccounted'
  BY DEF SessionsAccounted, disk
<1> QED
  BY <1>4, <1>5, <1>6, <1>7, <1>8, <1>9, <1>10, <1>11, <1>12, <1>13, <1>14 DEF IInv

LEMMA AbandonKeeps ==
  ASSUME IInv, Abandon
  PROVE  IInv'
<1>1. /\ program = "up" /\ queue = << >> /\ stage # "none" /\ stage # "finish" /\ reply' = NoReply
      /\ Finish /\ UNCHANGED <<disk, program, dropped, made, forgotten, lost, stepTrouble, crashes>>
  BY Continues DEF Abandon, backendVars
<1>2. trouble' = TRUE \/ (trouble' = trouble /\ stage = "pick")
  BY Zenon DEF Abandon, Continue
<1>3. trouble' \in BOOLEAN
  BY <1>2, Zenon DEF IInv, TypeOK, Flags
<1>4. ~trouble' => \A m \in DOMAIN messages : messages[m] # "Running"
  BY <1>1, <1>2, Positions DEF IInv, RunningIsOwned, AnswerInStep, CurrentAnswer, Up
<1>5. session # 0 /\ session \in forgotten' => \E m \in DOMAIN messages : messages[m] = "Running"
  BY <1>1, Zenon DEF IInv, SessionIsAlive, Stranded
<1>6. \A s \in 1..made : s = session \/ s \in forgotten' \cup lost \/ s = dropped
  BY <1>1 DEF IInv, SessionsAccounted, ProgramInStep
<1> QED
  BY <1>1, <1>3, <1>4, <1>5, <1>6, FinishKeeps DEF IInv, TypeOK

LEMMA MessageFinishedKeeps ==
  ASSUME IInv, MessageFinished
  PROVE  IInv'
<1>1. /\ program = "up" /\ queue = << >> /\ stage = "finish" /\ reply' = NoReply
      /\ Finish /\ UNCHANGED <<disk, program, dropped, made, lost, stepTrouble, crashes>>
      /\ \/ reply.state = "ok" /\ trouble' = trouble
         \/ reply.state = "failed" /\ trouble' = TRUE
      /\ forgotten' = forgotten \cup (KnownSessions \ {Kept(reply.state = "ok")})
  BY Continues DEF MessageFinished, ForgetAllBut
<1>2. trouble' \in BOOLEAN
  BY <1>1, Zenon DEF IInv, TypeOK, Flags
<1>3. forgotten' \subseteq 1..made
  <2>1. KnownSessions \subseteq 1..made /\ forgotten \subseteq 1..made
    BY DEF IInv, TypeOK, KnownSessions
  <2> QED
    BY <1>1, <2>1
<1>4. HasRow /\ target = Count /\ Count \in DOMAIN messages
  BY <1>1, Positions DEF IInv, AnswerInStep, HasRow
<1>5. ~trouble' => \A m \in DOMAIN messages : messages[m] # "Running"
  <2>1. CASE reply.state = "ok"
    BY <1>1, <1>4, <2>1 DEF IInv, RunningIsOwned, AnswerInStep, EndedLast, CurrentAnswer, Up, Endings
  <2>2. CASE reply.state = "failed"
    BY <1>1, <2>2
  <2> QED
    BY <1>1, <2>1, <2>2
<1>6. session # 0 /\ session \in forgotten' => \E m \in DOMAIN messages : messages[m] = "Running"
  <2>1. CASE reply.state = "ok"
    <3>1. session = storing /\ Kept(reply.state = "ok") = storing
      BY <1>1, <2>1 DEF IInv, SessionInStep, Kept
    <3> QED
      BY <1>1, <3>1 DEF IInv, SessionIsAlive, Stranded
  <2>2. CASE reply.state = "failed"
    BY <1>1, <1>4, <2>2 DEF IInv, AnswerInStep, RunningLast
  <2> QED
    BY <1>1, <2>1, <2>2
<1>7. \A s \in 1..made : s = session \/ s \in forgotten' \cup lost \/ s = dropped
  <2>1. Kept(reply.state = "ok") \in {0, session}
    BY <1>1 DEF IInv, SessionInStep, Kept
  <2> QED
    BY <1>1, <2>1 DEF IInv, SessionsAccounted, ProgramInStep, KnownSessions
<1> QED
  BY <1>1, <1>2, <1>3, <1>5, <1>6, <1>7, FinishKeeps

LEMMA RemovedKeeps ==
  ASSUME IInv, Removed
  PROVE  IInv'
<1>1. /\ program = "up" /\ queue = << >> /\ stage = "none" /\ Waiting /\ removal' = "none"
      /\ reply' = NoReply /\ reply'.state = "none" /\ reply'.value = 0 /\ reply' \in Replies
      /\ UNCHANGED <<disk, queue, program, turnVars, dropped, made, lost, stepTrouble, crashes>>
      /\ UNCHANGED <<stage, target, previous, ready, storing, step>>
      /\ \/ /\ reply.state = "ok" /\ trouble' = trouble
            /\ forgotten' = IF reply.value # 0 THEN forgotten \cup {reply.value} ELSE forgotten
         \/ reply.state = "failed" /\ trouble' = TRUE /\ forgotten' = forgotten
  BY Continues DEF Removed, turnVars
<1>2. /\ removal = "removing"
      /\ reply.state = "ok" => session = 0 /\ reply.value \in 0..made
      /\ made \in Nat
  BY <1>1 DEF Waiting, IInv, SessionInStep, DiskInStep, TypeOK
<1>3. TypeOK'
  <2>1. StoreTypeOK'
    BY <1>1 DEF IInv, TypeOK, StoreTypeOK, disk
  <2>2. Flags'
    BY <1>1, Zenon DEF IInv, TypeOK, Flags, turnVars
  <2>3. forgotten' \subseteq 1..made'
    <3>1. forgotten \subseteq 1..made /\ made' = made
      BY <1>1 DEF IInv, TypeOK
    <3>2. forgotten' = forgotten \/ (reply.value \in 1..made /\ forgotten' = forgotten \cup {reply.value})
      BY <1>1, <1>2
    <3> QED
      BY <3>1, <3>2
  <2> QED
    BY <1>1, <2>1, <2>2, <2>3 DEF IInv, TypeOK
<1>4. QueueInStep'
  <2>1. ~Waiting'
    BY <1>1 DEF Waiting
  <2> QED
    BY <1>1, <2>1 DEF QueueInStep
<1>5. ProgramInStep'
  BY <1>1 DEF IInv, ProgramInStep, disk, HasRunning
<1>6. DiskInStep'
  BY <1>1 DEF IInv, DiskInStep, disk, Count
<1>7. AnswerInStep'
  BY <1>1 DEF IInv, AnswerInStep
<1>8. SessionInStep'
  BY <1>1 DEF IInv, SessionInStep
<1>9. StepsInStep'
  BY <1>1 DEF IInv, AnswerInStep, StepsInStep, LastSaveIsOpen
<1>10. SameAnswer
  BY <1>1 DEF SameAnswer, CurrentAnswer
<1>11. SessionIsAlive'
  BY <1>1, <1>2, <1>10, SameAnswerIsAlive DEF disk
<1>12. RunningIsOwned'
  BY <1>1, <1>10, SameAnswerIsOwned DEF disk, Up, RunningIsOwned
<1>13. EndedAnswerHasNoOpenStep'
  BY <1>1 DEF IInv, EndedAnswerHasNoOpenStep, disk, Up
<1>14. SessionsAccounted'
  BY <1>1 DEF IInv, SessionsAccounted, ProgramInStep, disk
<1> QED
  BY <1>3, <1>4, <1>5, <1>6, <1>7, <1>8, <1>9, <1>11, <1>12, <1>13, <1>14 DEF IInv

-----------------------------------------------------------------------------
(* The worker.                                                             *)

OthersThanStore ==
  <<program, turnVars, removal, dropped, backendVars, lost, trouble, crashes>>

LEMMA WorkerFacts ==
  ASSUME IInv, WorkerStep
  PROVE  /\ program = "up" /\ UNCHANGED OthersThanStore
         /\ UNCHANGED <<program, stage, target, previous, ready, step, storing, removal, dropped,
                        made, forgotten, lost, crashes>>
         /\ queue # << >> /\ queue' = Tail(queue)
         /\ stepTrouble' \in BOOLEAN /\ (stepTrouble => stepTrouble') /\ (SaveStepFails => stepTrouble')
<1>1. stepTrouble' \in BOOLEAN /\ (stepTrouble => stepTrouble') /\ (SaveStepFails => stepTrouble')
  BY Zenon DEF WorkerStep, IInv, TypeOK, Flags
<1>2. queue # << >> /\ queue' = Tail(queue)
  BY DEF WorkerStep, Worker, AppendMessage, ReadMessages, ReadConversation, RestartMessage,
         FinishMessage, RemoveConversation, CallFails, SaveStep, SaveStepFails, Running
<1> QED
  BY <1>1, <1>2 DEF WorkerStep, Up, OthersThanStore, turnVars, backendVars

(* The parts that do not look at the disk, when an awaited call is answered. *)
LEMMA AnsweredKeeps ==
  ASSUME IInv, WorkerStep, Job.op # "saveStep", reply' \in Replies,
         reply'.state = "ok" \/ (reply'.state = "failed" /\ reply'.value = 0),
         StoreTypeOK',
         ~stepTrouble' /\ target # 0 => steps'[target] # "open",
         DiskInStep', AnswerInStep', SessionInStep', SessionIsAlive', RunningIsOwned',
         EndedAnswerHasNoOpenStep', SessionsAccounted', dropped # 0 => session' = 0
  PROVE  IInv'
<1>1. /\ program = "up" /\ UNCHANGED OthersThanStore
      /\ UNCHANGED <<program, stage, target, previous, ready, step, storing, removal, dropped,
                     made, forgotten, lost, crashes>>
      /\ queue # << >> /\ queue' = Tail(queue)
      /\ stepTrouble' \in BOOLEAN
  BY WorkerFacts
<1>2. queue' = << >> /\ Waiting
  BY <1>1, HeadJob DEF IInv
<1>3. TypeOK'
  <2>1. Flags'
    BY <1>1, Zenon DEF IInv, TypeOK, Flags, OthersThanStore, turnVars
  <2> QED
    BY <1>1, <2>1 DEF IInv, TypeOK
<1>4. QueueInStep'
  <2>1. Waiting'
    BY <1>1, <1>2 DEF Waiting
  <2> QED
    BY <1>2, <2>1 DEF QueueInStep
<1>5. ProgramInStep'
  <2>1. program' = "up" /\ dropped' = 0 /\ dropped = dropped'
    BY <1>1 DEF IInv, ProgramInStep
  <2>2. (removal' = "wanted" => stage' # "none") /\ (removal' = "removing" => stage' = "none")
    BY <1>1 DEF IInv, ProgramInStep
  <2> QED
    BY <2>1, <2>2 DEF ProgramInStep
<1>6. StepsInStep'
  <2>1. 1..Len(queue') = {} /\ target' = target
    BY <1>1, <1>2
  <2>2. ASSUME ~stepTrouble' PROVE ~LastSaveIsOpen'
    BY <2>1, <2>2 DEF LastSaveIsOpen
  <2> QED
    BY <2>2 DEF StepsInStep
<1> QED
  BY <1>3, <1>4, <1>5, <1>6 DEF IInv

(* A call that changes nothing on the disk. *)
LEMMA ReadKeeps ==
  ASSUME IInv, WorkerStep, Job.op # "saveStep", UNCHANGED disk, reply' \in Replies,
         reply'.state = "ok" \/ (reply'.state = "failed" /\ reply'.value = 0),
         reply'.state = "ok" => stage # "answer",
         removal = "removing" => reply'.state = "failed",
         AnswerInStep', SessionInStep'
  PROVE  IInv'
<1>1. /\ program = "up" /\ UNCHANGED OthersThanStore
      /\ UNCHANGED <<program, stage, target, previous, ready, step, storing, removal, dropped,
                     made, forgotten, lost, crashes>>
      /\ queue # << >> /\ queue' = Tail(queue)
      /\ stepTrouble => stepTrouble'
  BY WorkerFacts
<1>2. queue' = << >> /\ reply.state = "none" /\ reply.value = 0 /\ Waiting /\ stage # "turn"
      /\ Tail(queue) \in Seq(Jobs) /\ \A i \in 1..Len(queue) : queue[i].op # "saveStep"
  <2>1. queue' = << >> /\ reply.state = "none" /\ Waiting /\ Tail(queue) \in Seq(Jobs)
        /\ Len(queue) = 1 /\ queue[1].op # "saveStep" /\ Job \in Awaited
    BY <1>1, HeadJob DEF IInv
  <2>2. stage # "turn"
    BY <2>1 DEF Awaited
  <2>3. reply.value = 0
    BY <2>1 DEF IInv, QueueInStep
  <2> QED
    BY <2>1, <2>2, <2>3
<1>3. StoreTypeOK'
  BY <1>1, <1>2 DEF IInv, TypeOK, StoreTypeOK, disk
<1>4. ~stepTrouble' /\ target # 0 => steps'[target] # "open"
  BY <1>1, <1>2 DEF IInv, StepsInStep, LastSaveIsOpen, disk
<1>5. DiskInStep'
  BY <1>1 DEF IInv, DiskInStep, disk, Count
<1>6. SameAnswer
  BY <1>1, <1>2 DEF SameAnswer, CurrentAnswer
<1>7. SessionIsAlive'
  BY <1>1, <1>6, SameAnswerIsAlive DEF disk
<1>8. RunningIsOwned'
  BY <1>1, <1>6, SameAnswerIsOwned DEF disk, OthersThanStore, Up
<1>9. EndedAnswerHasNoOpenStep'
  BY <1>1 DEF IInv, EndedAnswerHasNoOpenStep, disk, Up
<1>10. SessionsAccounted'
  BY <1>1, <1>2 DEF IInv, SessionsAccounted, disk, KnownSessions
<1>11. dropped # 0 => session' = 0
  BY DEF IInv, ProgramInStep, disk
<1> QED
  BY <1>3, <1>4, <1>5, <1>7, <1>8, <1>9, <1>10, <1>11, AnsweredKeeps

LEMMA CallFailsKeeps ==
  ASSUME IInv, WorkerStep, CallFails
  PROVE  IInv'
<1>1. /\ Job.op # "saveStep" /\ Job.op # "messages" /\ reply' = Failure /\ UNCHANGED disk
      /\ reply'.state = "failed" /\ reply'.value = 0 /\ reply' \in Replies
  BY ReplyTypes DEF CallFails, Running, Failure
<1>2. UNCHANGED <<program, stage, target, previous, ready, storing, removal, made, forgotten>>
      /\ queue # << >>
  BY WorkerFacts
<1>3. reply.state = "none"
  BY <1>2, HeadJob DEF IInv
<1>4. AnswerInStep'
  BY <1>1, <1>2, <1>3 DEF IInv, AnswerInStep, disk, Room, Count, HasRow, RunningLast, Retryable
<1>5. SessionInStep'
  BY <1>1, <1>2, <1>3 DEF IInv, SessionInStep, disk
<1> QED
  BY <1>1, <1>4, <1>5, ReadKeeps

(* What the worker takes tells the stage. *)
LEMMA JobTellsStage ==
  ASSUME IInv, queue # << >>
  PROVE  /\ Job.op = "append" => \/ stage = "question" /\ Job = Call("append", 0, "Question", 0)
                                 \/ stage = "answer" /\ Job = Call("append", 0, "Running", 0)
         /\ Job.op = "messages" => stage \in {"pick", "messages"}
         /\ Job.op = "conversation" => stage = "conversation"
         /\ Job.op = "restart" => stage = "restart" /\ Job.message = target
         /\ Job.op = "finish" => stage = "finish" /\ Job.message = target /\ Job.row \in Endable
                                   /\ Job.session = storing
         /\ Job.op = "remove" => stage = "none" /\ removal = "removing"
<1>1. \/ Job \in Saves /\ Job.op = "saveStep"
      \/ Job \in Awaited /\ Waiting
  BY HeadJob DEF IInv
<1>2. stage \in Stages
  BY DEF IInv, TypeOK
<1> QED
  BY <1>1, <1>2 DEF Awaited, Call, Read, Stages, Waiting, Endable

LEMMA ReadMessagesKeeps ==
  ASSUME IInv, WorkerStep, ReadMessages
  PROVE  IInv'
<1>1. PICK rows \in {messages, << >>} : reply' = Success(RetryTarget(rows))
  BY DEF ReadMessages
<1>2. /\ Job.op = "messages" /\ UNCHANGED disk /\ queue # << >> /\ stage \in {"pick", "messages"}
      /\ UNCHANGED <<program, stage, target, previous, ready, storing, removal, made, forgotten>>
      /\ reply.state = "none"
  BY WorkerFacts, JobTellsStage, HeadJob DEF ReadMessages, Running, IInv
<1>3. /\ RetryTarget(rows) \in Nat
      /\ RetryTarget(rows) # 0 => RetryTarget(rows) = Count /\ Retryable /\ Count # 0 /\ exists
  <2>1. Count \in Nat /\ (Count = 0 => messages = << >>) /\ (~exists => messages = << >>)
    BY Positions, EmptySeq DEF IInv, TypeOK, StoreTypeOK, Count, DiskInStep
  <2>2. CASE rows = << >>
    BY <2>2 DEF RetryTarget
  <2>3. CASE rows = messages /\ rows # << >>
    BY <2>1, <2>3 DEF RetryTarget, Retryable, Count
  <2> QED
    BY <2>2, <2>3
<1>4. reply' \in Replies /\ reply'.state = "ok" /\ reply'.value = RetryTarget(rows)
  BY <1>1, <1>3, ReplyTypes DEF Success
<1>5. AnswerInStep'
  BY <1>2, <1>3, <1>4 DEF IInv, AnswerInStep, disk, Room, Count, HasRow, RunningLast, Retryable
<1>6. SessionInStep'
  BY <1>2, <1>4 DEF IInv, SessionInStep, ProgramInStep, disk
<1> QED
  BY <1>2, <1>4, <1>5, <1>6, ReadKeeps DEF IInv, ProgramInStep

LEMMA ReadConversationKeeps ==
  ASSUME IInv, WorkerStep, ReadConversation
  PROVE  IInv'
<1>1. /\ Job.op = "conversation" /\ UNCHANGED disk /\ queue # << >> /\ stage = "conversation"
      /\ UNCHANGED <<program, stage, target, previous, ready, storing, removal, made, forgotten>>
      /\ reply' = Success(session) /\ reply.state = "none"
  BY WorkerFacts, JobTellsStage, HeadJob DEF ReadConversation, Running, IInv
<1>2. reply' \in Replies /\ reply'.state = "ok" /\ reply'.value = session
  BY <1>1, ReplyTypes DEF Success, IInv, TypeOK, StoreTypeOK
<1>3. AnswerInStep'
  BY <1>1, <1>2 DEF IInv, AnswerInStep, disk, Room, Count, HasRow, RunningLast
<1>4. SessionInStep'
  BY <1>1, <1>2 DEF IInv, SessionInStep, ProgramInStep, disk
<1> QED
  BY <1>1, <1>2, <1>3, <1>4, ReadKeeps DEF IInv, ProgramInStep

LEMMA AppendMessageKeeps ==
  ASSUME IInv, WorkerStep, AppendMessage
  PROVE  IInv'
<1>1. /\ Job.op = "append" /\ queue # << >> /\ queue' = Tail(queue) /\ exists
      /\ messages' = Append(messages, Job.row) /\ reply' = Success(Len(messages) + 1)
      /\ UNCHANGED <<exists, steps, session>>
      /\ UNCHANGED <<program, stage, target, previous, ready, step, storing, removal, dropped,
                     made, forgotten, lost>>
  BY WorkerFacts DEF AppendMessage, Running
<1>2. /\ program = "up" /\ trouble' = trouble /\ (stepTrouble => stepTrouble')
  BY WorkerFacts DEF OthersThanStore
<1>3. reply.state = "none" /\ reply.value = 0 /\ Tail(queue) \in Seq(Jobs)
  BY <1>1, HeadJob DEF IInv, QueueInStep
<1>4. \/ stage = "question" /\ Job.row = "Question" /\ Room(2)
      \/ stage = "answer" /\ Job.row = "Running" /\ Room(1)
  BY <1>1, <1>3, JobTellsStage DEF Call, IInv, AnswerInStep
<1>5. target = 0 /\ Count \in Nat /\ Count + 1 \in MessageIds
  BY <1>4, Positions, StoreAssumption DEF IInv, AnswerInStep, Room, MessageIds
<1>6. /\ messages' \in Seq(Rows) /\ Count' = Count + 1 /\ DOMAIN messages' = 1..Count+1
      /\ messages'[Count + 1] = Job.row /\ \A m \in 1..Count : messages'[m] = messages[m]
      /\ DOMAIN messages = 1..Count
  BY <1>1, <1>4, Positions DEF Count, IInv, TypeOK, StoreTypeOK, Rows, Statuses
<1>7. reply' \in Replies /\ reply'.state = "ok" /\ reply'.value = Count + 1
  BY <1>1, <1>5, ReplyTypes DEF Success, Count
<1>8. StoreTypeOK'
  <2>1. exists' \in BOOLEAN
    BY <1>1, Zenon DEF IInv, TypeOK, StoreTypeOK
  <2>2. Len(messages') <= MaxMessages
    BY <1>4, <1>5, <1>6, StoreAssumption DEF Room, Count
  <2> QED
    BY <1>1, <1>3, <1>6, <1>7, <2>1, <2>2 DEF IInv, TypeOK, StoreTypeOK
<1>9. DiskInStep'
  BY <1>1, <1>5, <1>6 DEF IInv, DiskInStep, MessageIds
<1>10. AnswerInStep'
  <2>1. steps[Count + 1] = "none"
    BY <1>5 DEF IInv, DiskInStep
  <2> QED
    BY <1>1, <1>4, <1>5, <1>6, <1>7, <2>1 DEF AnswerInStep, Room, RunningLast
<1>11. SessionInStep'
  BY <1>1, <1>4 DEF IInv, SessionInStep, ProgramInStep
<1>12. CurrentAnswer' \notin 1..Count
  BY <1>1, <1>5, <1>7 DEF CurrentAnswer
<1>13. SessionIsAlive'
  <2>1. \A m \in DOMAIN messages : Stranded(m) => m \in DOMAIN messages' /\ Stranded(m)'
    BY <1>5, <1>6, <1>12 DEF Stranded
  <2> QED
    BY <1>1, <2>1 DEF IInv, SessionIsAlive
<1>14. RunningIsOwned'
  <2>1. CurrentAnswer = 0
    BY <1>3, <1>5 DEF CurrentAnswer
  <2>2. ASSUME Up', ~trouble', NEW m \in DOMAIN messages', messages'[m] = "Running"
        PROVE  stage' # "none" /\ m = CurrentAnswer'
    <3>1. m \notin 1..Count
      BY <1>2, <1>5, <1>6, <2>1, <2>2 DEF IInv, RunningIsOwned, Up
    <3>2. m = Count + 1 /\ Job.row = "Running"
      BY <1>5, <1>6, <2>2, <3>1
    <3> QED
      BY <1>1, <1>4, <1>7, <3>2 DEF CurrentAnswer
  <2> QED
    BY <2>2 DEF RunningIsOwned
<1>15. EndedAnswerHasNoOpenStep'
  <2>1. \A m \in DOMAIN messages' : messages'[m] \in Endings => m \in 1..Count
    BY <1>4, <1>5, <1>6 DEF Endings
  <2> QED
    BY <1>1, <1>2, <1>6, <2>1 DEF IInv, EndedAnswerHasNoOpenStep, Up
<1>16. SessionsAccounted'
  BY <1>1, <1>3 DEF IInv, SessionsAccounted, KnownSessions
<1>17. dropped # 0 => session' = 0
  BY <1>1 DEF IInv, ProgramInStep
<1> QED
  BY <1>1, <1>5, <1>7, <1>8, <1>9, <1>10, <1>11, <1>13, <1>14, <1>15, <1>16, <1>17, AnsweredKeeps

(* A row the turn works on changes. *)
LEMMA RowChanges ==
  ASSUME IInv, HasRow, NEW row \in Rows, messages' = [messages EXCEPT ![target] = row],
         UNCHANGED <<stage, target>>, stage \in {"restart", "finish"}
  PROVE  /\ messages' \in Seq(Rows) /\ Count' = Count /\ DOMAIN messages' = DOMAIN messages
         /\ target \in DOMAIN messages /\ messages'[Count] = row
         /\ \A m \in DOMAIN messages : m # target => messages'[m] = messages[m]
         /\ \A m \in DOMAIN messages : Stranded(m) => Stranded(m)'
         /\ UNCHANGED <<program, trouble>> => RunningIsOwned'
<1>1. /\ messages \in Seq(Rows) /\ target \in DOMAIN messages /\ DOMAIN messages = 1..Count
      /\ target = Count
  BY Positions DEF IInv, TypeOK, StoreTypeOK, HasRow
<1>2. /\ messages' \in Seq(Rows) /\ Len(messages') = Len(messages)
      /\ DOMAIN messages' = DOMAIN messages /\ messages'[target] = row
      /\ \A m \in DOMAIN messages : m # target => messages'[m] = messages[m]
  BY <1>1
<1>3. CurrentAnswer = target /\ CurrentAnswer' = target
  BY DEF CurrentAnswer
<1>4. \A m \in DOMAIN messages : Stranded(m) => Stranded(m)'
  BY <1>2, <1>3 DEF Stranded
<1>5. ASSUME UNCHANGED <<program, trouble>> PROVE RunningIsOwned'
  BY <1>2, <1>3, <1>5 DEF IInv, RunningIsOwned, Up
<1> QED
  BY <1>1, <1>2, <1>4, <1>5 DEF Count

LEMMA RestartMessageKeeps ==
  ASSUME IInv, WorkerStep, RestartMessage
  PROVE  IInv'
<1>1. /\ Job.op = "restart" /\ queue # << >> /\ queue' = Tail(queue)
      /\ messages' = [messages EXCEPT ![Job.message] = "Running"]
      /\ steps' = [steps EXCEPT ![Job.message] = "none"]
      /\ reply' = Success(Job.message)
      /\ UNCHANGED <<exists, session>>
      /\ UNCHANGED <<program, stage, target, previous, ready, step, storing, removal, dropped,
                     made, forgotten, lost>>
  BY WorkerFacts DEF RestartMessage, Running
<1>2. /\ program = "up" /\ trouble' = trouble /\ (stepTrouble => stepTrouble')
  BY WorkerFacts DEF OthersThanStore
<1>3. reply.state = "none" /\ reply.value = 0 /\ Tail(queue) \in Seq(Jobs)
  BY <1>1, HeadJob DEF IInv, QueueInStep
<1>4. stage = "restart" /\ Job.message = target /\ HasRow /\ "Running" \in Rows
  BY <1>1, JobTellsStage DEF IInv, AnswerInStep, Rows, Statuses
<1>5. /\ messages' \in Seq(Rows) /\ Count' = Count /\ DOMAIN messages' = DOMAIN messages
      /\ target \in DOMAIN messages /\ messages'[Count] = "Running"
      /\ \A m \in DOMAIN messages : m # target => messages'[m] = messages[m]
      /\ \A m \in DOMAIN messages : Stranded(m) => Stranded(m)'
      /\ RunningIsOwned'
  BY <1>1, <1>2, <1>4, RowChanges
<1>6. target \in MessageIds /\ target \in Nat /\ Count \in Nat /\ target = Count
  BY <1>4, <1>5, Positions DEF IInv, HasRow
<1>7. /\ steps' \in [MessageIds -> Steps] /\ steps'[target] = "none"
      /\ \A m \in MessageIds : m # target => steps'[m] = steps[m]
  BY <1>1, <1>4, <1>6 DEF IInv, TypeOK, StoreTypeOK, Steps
<1>8. reply' \in Replies /\ reply'.state = "ok"
  BY <1>1, <1>4, <1>6, ReplyTypes DEF Success
<1>9. StoreTypeOK'
  BY <1>1, <1>3, <1>5, <1>7, <1>8 DEF IInv, TypeOK, StoreTypeOK, Count
<1>10. DiskInStep'
  <2>1. exists
    BY <1>4 DEF HasRow
  <2> QED
    BY <1>1, <1>5, <1>6, <1>7, <2>1 DEF IInv, DiskInStep
<1>11. AnswerInStep'
  BY <1>1, <1>4, <1>5, <1>6, <1>7, <1>8 DEF AnswerInStep, HasRow, RunningLast
<1>12. SessionInStep'
  BY <1>1, <1>4 DEF IInv, SessionInStep, ProgramInStep
<1>13. SessionIsAlive'
  BY <1>1, <1>5 DEF IInv, SessionIsAlive
<1>14. EndedAnswerHasNoOpenStep'
  <2>1. \A m \in DOMAIN messages' : messages'[m] \in Endings => m # target
    BY <1>5, <1>6 DEF Endings
  <2> QED
    BY <1>1, <1>2, <1>5, <1>7, <2>1, Positions DEF IInv, EndedAnswerHasNoOpenStep, Up
<1>15. SessionsAccounted'
  BY <1>1, <1>3 DEF IInv, SessionsAccounted, KnownSessions
<1>16. dropped # 0 => session' = 0
  BY <1>1 DEF IInv, ProgramInStep
<1> QED
  BY <1>1, <1>5, <1>7, <1>8, <1>9, <1>10, <1>11, <1>12, <1>13, <1>14, <1>15, <1>16, AnsweredKeeps

(* The session the last call stores is not one its turn forgets: an old one *)
(* that is forgotten was so before.                                        *)
LEMMA FinishMessageKeeps ==
  ASSUME IInv, WorkerStep, FinishMessage
  PROVE  IInv'
<1>1. /\ Job.op = "finish" /\ queue # << >> /\ queue' = Tail(queue)
      /\ messages' = [messages EXCEPT ![Job.message] = Job.row]
      /\ session' = Job.session /\ reply' = Success(Job.message)
      /\ UNCHANGED <<exists, steps>>
      /\ UNCHANGED <<program, stage, target, previous, ready, step, storing, removal, dropped,
                     made, forgotten, lost>>
  BY WorkerFacts DEF FinishMessage, Running
<1>2. /\ program = "up" /\ trouble' = trouble /\ (stepTrouble => stepTrouble')
  BY WorkerFacts DEF OthersThanStore
<1>3. /\ reply.state = "none" /\ reply.value = 0 /\ Tail(queue) \in Seq(Jobs)
      /\ Len(queue) = 1 /\ queue[1].op # "saveStep"
  BY <1>1, HeadJob DEF IInv, QueueInStep
<1>4. /\ stage = "finish" /\ Job.message = target /\ Job.row \in Endable /\ Job.session = storing
      /\ HasRow /\ Job.row \in Rows /\ Job.row \in Endings /\ Job.row # "Running"
  BY <1>1, JobTellsStage DEF IInv, AnswerInStep, Rows, Statuses, Endings, Endable
<1>5. /\ messages' \in Seq(Rows) /\ Count' = Count /\ DOMAIN messages' = DOMAIN messages
      /\ target \in DOMAIN messages /\ messages'[Count] = Job.row
      /\ \A m \in DOMAIN messages : m # target => messages'[m] = messages[m]
      /\ \A m \in DOMAIN messages : Stranded(m) => Stranded(m)'
      /\ RunningIsOwned'
  BY <1>1, <1>2, <1>4, RowChanges
<1>6. target \in MessageIds /\ target \in Nat /\ target = Count /\ target # 0
  BY <1>4, <1>5, Positions DEF IInv, HasRow
<1>7. reply' \in Replies /\ reply'.state = "ok"
  BY <1>1, <1>4, <1>6, ReplyTypes DEF Success
<1>8. storing \in 0..made /\ storing \in 0..MaxSessions /\ previous = session
  BY <1>3, <1>4, StoreAssumption DEF IInv, TypeOK, SessionInStep
<1>9. StoreTypeOK'
  BY <1>1, <1>3, <1>4, <1>5, <1>7, <1>8 DEF IInv, TypeOK, StoreTypeOK, Count
<1>10. DiskInStep'
  <2>1. exists
    BY <1>4 DEF HasRow
  <2> QED
    BY <1>1, <1>4, <1>5, <1>8, <2>1 DEF IInv, DiskInStep
<1>11. AnswerInStep'
  BY <1>1, <1>4, <1>5, <1>6, <1>7 DEF AnswerInStep, HasRow, EndedLast
<1>12. SessionInStep'
  BY <1>1, <1>4, <1>7 DEF IInv, SessionInStep, ProgramInStep
<1>13. SessionIsAlive'
  <2>1. storing # 0 /\ storing \in forgotten => storing = session
    BY <1>4, <1>8 DEF IInv, SessionInStep
  <2> QED
    BY <1>1, <1>4, <1>5, <2>1 DEF IInv, SessionIsAlive
<1>14. ~stepTrouble' => steps[target] # "open"
  BY <1>2, <1>3, <1>4, <1>6 DEF IInv, StepsInStep, LastSaveIsOpen
<1>15. EndedAnswerHasNoOpenStep'
  BY <1>1, <1>2, <1>5, <1>14 DEF IInv, EndedAnswerHasNoOpenStep, Up
<1>16. SessionsAccounted'
  <2>1. \A s \in 1..made : s = session => s \in KnownSessions
    BY <1>8 DEF KnownSessions
  <2> QED
    BY <1>1, <1>3, <1>4, <2>1 DEF IInv, SessionsAccounted, KnownSessions
<1>17. dropped # 0 => session' = 0
  BY <1>2 DEF IInv, ProgramInStep
<1> QED
  BY <1>1, <1>5, <1>7, <1>9, <1>10, <1>11, <1>12, <1>13, <1>14, <1>15, <1>16, <1>17, AnsweredKeeps

LEMMA RemoveConversationKeeps ==
  ASSUME IInv, WorkerStep, RemoveConversation
  PROVE  IInv'
<1>1. /\ Job.op = "remove" /\ queue # << >> /\ queue' = Tail(queue)
      /\ exists' = FALSE /\ messages' = << >> /\ steps' = [m \in MessageIds |-> "none"]
      /\ session' = 0 /\ reply' = Success(session)
      /\ UNCHANGED <<program, stage, target, previous, ready, step, storing, removal, dropped,
                     made, forgotten, lost>>
  BY WorkerFacts DEF RemoveConversation, Running
<1>2. reply.state = "none" /\ reply.value = 0 /\ Tail(queue) \in Seq(Jobs)
  BY <1>1, HeadJob DEF IInv, QueueInStep
<1>3. stage = "none" /\ removal = "removing" /\ target = 0
  BY <1>1, JobTellsStage DEF IInv, AnswerInStep
<1>4. session \in 0..made /\ session \in Nat
  BY DEF IInv, DiskInStep, TypeOK, StoreTypeOK
<1>5. reply' \in Replies /\ reply'.state = "ok" /\ reply'.value = session
  BY <1>1, <1>4, ReplyTypes DEF Success
<1>6. Len(messages') = 0 /\ DOMAIN messages' = {} /\ messages' \in Seq(Rows)
  BY <1>1
<1>7. StoreTypeOK'
  <2>1. steps' \in [MessageIds -> Steps]
    BY <1>1 DEF Steps
  <2>2. exists' \in BOOLEAN
    BY <1>1, Zenon
  <2>3. session' \in 0..MaxSessions /\ Len(messages') <= MaxMessages
    BY <1>1, <1>6, StoreAssumption
  <2> QED
    BY <1>1, <1>2, <1>5, <1>6, <2>1, <2>2, <2>3 DEF StoreTypeOK
<1>8. DiskInStep'
  BY <1>1, <1>4 DEF DiskInStep, IInv, TypeOK
<1>9. AnswerInStep'
  BY <1>1, <1>3 DEF AnswerInStep
<1>10. SessionInStep'
  BY <1>1, <1>3, <1>4, <1>5 DEF IInv, SessionInStep
<1>11. SessionIsAlive'
  BY <1>1 DEF SessionIsAlive
<1>12. RunningIsOwned'
  BY <1>6 DEF RunningIsOwned
<1>13. EndedAnswerHasNoOpenStep'
  BY <1>6 DEF EndedAnswerHasNoOpenStep
<1>14. SessionsAccounted'
  BY <1>1, <1>2, <1>3, <1>5 DEF IInv, SessionsAccounted, KnownSessions
<1> QED
  BY <1>1, <1>3, <1>5, <1>7, <1>8, <1>9, <1>10, <1>11, <1>12, <1>13, <1>14, AnsweredKeeps

(* A step of the turn leaves the queue: the rest moves up. *)
LEMMA SaveLeaves ==
  ASSUME IInv, WorkerStep, Job.op = "saveStep", UNCHANGED <<exists, messages, session, reply>>,
         steps' \in [MessageIds -> Steps],
         \A m \in MessageIds : m # target => steps'[m] = steps[m],
         ~stepTrouble' => steps'[target] = Job.row
  PROVE  IInv'
<1>1. /\ program = "up" /\ trouble' = trouble /\ (stepTrouble => stepTrouble')
      /\ queue # << >> /\ queue' = Tail(queue) /\ stepTrouble' \in BOOLEAN
      /\ UNCHANGED OthersThanStore
      /\ UNCHANGED <<program, stage, target, previous, ready, step, storing, removal, dropped,
                     made, forgotten, lost, crashes>>
  BY WorkerFacts DEF OthersThanStore
<1>2. /\ Job = queue[1] /\ Tail(queue) \in Seq(Jobs) /\ reply.state = "none"
      /\ Job \in Saves /\ stage \in {"turn", "finish"}
  BY <1>1, HeadJob DEF IInv
<1>3. /\ queue \in Seq(Jobs) /\ Len(queue) \in Nat /\ Len(queue) >= 1
      /\ Len(queue') = Len(queue) - 1
      /\ \A i \in 1..Len(queue') : i + 1 \in 1..Len(queue) /\ queue'[i] = queue[i + 1]
  BY <1>1 DEF IInv, TypeOK, StoreTypeOK
<1>4. HasRow /\ RunningLast /\ target \in MessageIds /\ target = Count
  BY <1>2, Positions DEF IInv, AnswerInStep, HasRow
<1>5. TypeOK'
  <2>1. Flags'
    BY <1>1, Zenon DEF IInv, TypeOK, Flags, OthersThanStore, turnVars
  <2>2. StoreTypeOK'
    BY <1>1, <1>2 DEF IInv, TypeOK, StoreTypeOK
  <2> QED
    BY <1>1, <2>1, <2>2 DEF IInv, TypeOK
<1>6. QueueInStep'
  <2>1. Saves' = Saves /\ Awaited' = Awaited /\ (Waiting' <=> Waiting)
    BY <1>1 DEF Saves, Awaited, Waiting
  <2>2. \A i \in 1..Len(queue') : \/ queue'[i] \in Saves'
                                  \/ queue'[i] \in Awaited' /\ i = Len(queue') /\ Waiting'
    BY <1>3, <2>1 DEF IInv, QueueInStep
  <2>3. Waiting => Len(queue) # 1
    <3>1. SUFFICES ASSUME Waiting, Len(queue) = 1 PROVE FALSE
      OBVIOUS
    <3>2. queue[1] \in Awaited
      BY <1>2, <3>1 DEF IInv, QueueInStep
    <3>3. queue[1].op # "saveStep"
      BY <3>2, <1>2 DEF Awaited, Call
    <3> QED
      BY <1>2, <3>3
  <2>4. Waiting => queue' # << >> /\ queue'[Len(queue')] \in Awaited'
    <3>1. SUFFICES ASSUME Waiting PROVE queue' # << >> /\ queue'[Len(queue')] \in Awaited'
      OBVIOUS
    <3>2. Len(queue') \in 1..Len(queue') /\ Len(queue') + 1 = Len(queue)
      BY <1>3, <2>3, <3>1
    <3>3. queue'[Len(queue')] = queue[Len(queue)]
      BY <1>3, <3>2
    <3>4. queue[Len(queue)] \in Awaited
      BY <1>2, <3>1, <1>1 DEF IInv, QueueInStep
    <3> QED
      BY <2>1, <3>2, <3>3, <3>4, EmptySeq
  <2>5. reply'.value = 0 /\ reply'.state = "none"
    BY <1>2 DEF IInv, QueueInStep
  <2> QED
    BY <2>1, <2>2, <2>4, <2>5 DEF QueueInStep
<1>7. ProgramInStep'
  <2>1. program' = "up" /\ dropped' = 0
    BY <1>1 DEF IInv, ProgramInStep
  <2>2. (removal' = "wanted" => stage' # "none") /\ (removal' = "removing" => stage' = "none")
    BY <1>1 DEF IInv, ProgramInStep
  <2> QED
    BY <2>1, <2>2 DEF ProgramInStep
<1>8. DiskInStep'
  BY <1>1, <1>4 DEF IInv, DiskInStep, Count, MessageIds
<1>9. AnswerInStep'
  BY <1>1, <1>2, <1>4 DEF AnswerInStep, HasRow, RunningLast, Count
<1>10. SessionInStep'
  BY <1>1 DEF IInv, SessionInStep
<1>11. StepsInStep'
  <2>1. SUFFICES ASSUME ~stepTrouble', LastSaveIsOpen' PROVE LastSaveIsOpen
    BY <1>1 DEF IInv, StepsInStep
  <2>2. CASE \E i \in 1..Len(queue') :
               /\ queue'[i].op = "saveStep" /\ queue'[i].row = "open"
               /\ \A j \in i+1..Len(queue') : queue'[j].op # "saveStep"
    <3>1. PICK i \in 1..Len(queue') :
               /\ queue'[i].op = "saveStep" /\ queue'[i].row = "open"
               /\ \A j \in i+1..Len(queue') : queue'[j].op # "saveStep"
      BY <2>2
    <3>2. \A j \in i+2..Len(queue) : queue[j].op # "saveStep"
      <4>1. SUFFICES ASSUME NEW j \in i+2..Len(queue) PROVE queue[j].op # "saveStep"
        OBVIOUS
      <4>2. j - 1 \in i+1..Len(queue') /\ j - 1 \in 1..Len(queue') /\ (j - 1) + 1 = j
        BY <1>3
      <4> QED
        BY <1>3, <3>1, <4>2
    <3>3. i + 1 \in 1..Len(queue) /\ queue[i + 1].op = "saveStep" /\ queue[i + 1].row = "open"
          /\ (i + 1) + 1 = i + 2
      BY <1>3, <3>1
    <3> QED
      BY <3>2, <3>3 DEF LastSaveIsOpen
  <2>3. CASE /\ target' # 0 /\ steps'[target'] = "open"
             /\ \A i \in 1..Len(queue') : queue'[i].op # "saveStep"
    <3>1. Job.row = "open"
      BY <1>1, <2>1, <2>3
    <3>2. \A j \in 1+1..Len(queue) : queue[j].op # "saveStep"
      <4>1. SUFFICES ASSUME NEW j \in 1+1..Len(queue) PROVE queue[j].op # "saveStep"
        OBVIOUS
      <4>2. j - 1 \in 1..Len(queue') /\ (j - 1) + 1 = j
        BY <1>3
      <4> QED
        BY <1>3, <2>3, <4>2
    <3> QED
      BY <1>2, <1>3, <3>1, <3>2 DEF LastSaveIsOpen
  <2> QED
    BY <2>1, <2>2, <2>3 DEF LastSaveIsOpen
<1>12. SameAnswer
  BY <1>1, <1>2 DEF SameAnswer, CurrentAnswer
<1>13. SessionIsAlive'
  BY <1>1, <1>12, SameAnswerIsAlive
<1>14. RunningIsOwned'
  BY <1>1, <1>12, SameAnswerIsOwned DEF Up
<1>15. EndedAnswerHasNoOpenStep'
  <2>1. \A m \in DOMAIN messages : messages[m] \in Endings => m # target
    BY <1>4 DEF RunningLast, Endings
  <2> QED
    BY <1>1, <2>1, Positions DEF IInv, EndedAnswerHasNoOpenStep, Up
<1>16. SessionsAccounted'
  BY <1>1 DEF IInv, SessionsAccounted, KnownSessions
<1> QED
  BY <1>5, <1>6, <1>7, <1>8, <1>9, <1>10, <1>11, <1>13, <1>14, <1>15, <1>16 DEF IInv

LEMMA SaveStepKeeps ==
  ASSUME IInv, WorkerStep, SaveStep
  PROVE  IInv'
<1>1. Job.op = "saveStep" /\ queue # << >> /\ UNCHANGED <<exists, messages, session, reply>>
      /\ steps' = [steps EXCEPT ![Job.message] = Job.row]
  BY DEF SaveStep, Running
<1>2. Job.message = target /\ Job.row \in {"open", "closed"} /\ stage \in {"turn", "finish"}
  BY <1>1, HeadJob DEF IInv, Saves, Call
<1>3. target \in MessageIds
  BY <1>2, Positions DEF IInv, AnswerInStep, HasRow
<1>4. /\ steps' \in [MessageIds -> Steps] /\ steps'[target] = Job.row
      /\ \A m \in MessageIds : m # target => steps'[m] = steps[m]
  BY <1>1, <1>2, <1>3 DEF IInv, TypeOK, StoreTypeOK, Steps
<1> QED
  BY <1>1, <1>4, SaveLeaves

LEMMA SaveStepFailsKeeps ==
  ASSUME IInv, WorkerStep, SaveStepFails
  PROVE  IInv'
<1>1. Job.op = "saveStep" /\ UNCHANGED <<exists, messages, steps, session, reply>>
  BY DEF SaveStepFails, Running, disk
<1>2. stepTrouble'
  BY WorkerFacts
<1>3. steps' \in [MessageIds -> Steps] /\ \A m \in MessageIds : steps'[m] = steps[m]
  BY <1>1 DEF IInv, TypeOK, StoreTypeOK
<1> QED
  BY <1>1, <1>2, <1>3, SaveLeaves

LEMMA WorkerStepKeeps ==
  ASSUME IInv, WorkerStep
  PROVE  IInv'
<1>1. Worker
  BY DEF WorkerStep
<1> QED
  BY <1>1, AppendMessageKeeps, ReadMessagesKeeps, ReadConversationKeeps, RestartMessageKeeps,
     FinishMessageKeeps, RemoveConversationKeeps, CallFailsKeeps, SaveStepKeeps,
     SaveStepFailsKeeps DEF Worker

-----------------------------------------------------------------------------
(* The program dies and starts again.                                      *)

LEMMA CrashKeeps ==
  ASSUME IInv, Crash
  PROVE  IInv'
<1>1. /\ program' = "down" /\ queue' = << >> /\ reply' = NoReply /\ stage' = "none" /\ target' = 0
      /\ cancelRequested' = FALSE /\ previous' = 0 /\ resumed' = FALSE /\ ready' = 0
      /\ step' = "none" /\ storing' = 0 /\ removal' = "none" /\ dropped' = 0
      /\ lost' = lost \cup InMemoryOnly /\ crashes < MaxCrashes /\ crashes' = crashes + 1
      /\ UNCHANGED <<exists, messages, steps, session, made, forgotten, trouble, stepTrouble>>
  BY DEF Crash, NewTurn, disk, backendVars
<1>2. reply'.state = "none" /\ reply'.value = 0 /\ reply' \in Replies
  BY <1>1, ReplyTypes DEF NoReply
<1>3. queue' \in Seq(Jobs) /\ 1..Len(queue') = {}
  BY <1>1
<1>4. TypeOK'
  <2>1. StoreTypeOK'
    BY <1>1, <1>2, <1>3 DEF IInv, TypeOK, StoreTypeOK
  <2>2. Flags'
    BY <1>1, Zenon DEF IInv, TypeOK, Flags
  <2>3. crashes' \in 0..MaxCrashes
    BY <1>1, CrashAssumption DEF IInv, TypeOK
  <2>4. made' \in 0..MaxSessions /\ 0 \in 0..made' /\ 0 \in 0..MaxMessages
    BY <1>1, StoreAssumption DEF IInv, TypeOK
  <2>5. forgotten' \subseteq 1..made' /\ lost' \subseteq 1..made'
    BY <1>1 DEF IInv, TypeOK, InMemoryOnly
  <2> QED
    BY <1>1, <2>1, <2>2, <2>3, <2>4, <2>5 DEF TypeOK, Stages, Steps
<1>5. QueueInStep'
  BY <1>1, <1>2, <1>3 DEF QueueInStep, Waiting
<1>6. ProgramInStep'
  BY <1>1 DEF ProgramInStep
<1>7. DiskInStep'
  BY <1>1 DEF IInv, DiskInStep, Count
<1>8. AnswerInStep'
  BY <1>1, <1>2 DEF AnswerInStep
<1>9. SessionInStep'
  BY <1>1, <1>2 DEF SessionInStep
<1>10. StepsInStep'
  BY <1>1, <1>3 DEF StepsInStep, LastSaveIsOpen
<1>11. SessionIsAlive'
  <2>1. \A m \in DOMAIN messages : Stranded(m) => Stranded(m)'
    BY <1>1 DEF Stranded
  <2> QED
    BY <1>1, <2>1 DEF IInv, SessionIsAlive
<1>12. RunningIsOwned' /\ EndedAnswerHasNoOpenStep'
  BY <1>1 DEF RunningIsOwned, EndedAnswerHasNoOpenStep, Up
<1>13. SessionsAccounted'
  <2>1. \A s \in 1..made : s = session \/ s \in forgotten \cup lost \cup InMemoryOnly
    BY DEF InMemoryOnly
  <2> QED
    BY <1>1, <2>1 DEF SessionsAccounted
<1> QED
  BY <1>4, <1>5, <1>6, <1>7, <1>8, <1>9, <1>10, <1>11, <1>12, <1>13 DEF IInv

(* The recovery drops the session only together with a row it interrupts.  *)
LEMMA OpenKeeps ==
  ASSUME IInv, Open
  PROVE  IInv'
<1>1. /\ program = "down" /\ program' = "opened" /\ messages' = Interrupted(messages)
      /\ steps' = StepsFailed(steps) /\ session' = IF HasRunning(messages) THEN 0 ELSE session
      /\ dropped' = DroppedSession /\ trouble' = FALSE /\ stepTrouble' = FALSE
      /\ UNCHANGED <<exists, queue, reply, stage, target, cancelRequested, previous, resumed, ready,
                     step, storing, removal, made, forgotten, lost, crashes>>
  BY DEF Open, InterruptRunning, turnVars, backendVars
<1>2. stage = "none" /\ removal = "none" /\ queue = << >> /\ dropped = 0
  BY <1>1 DEF IInv, ProgramInStep
<1>3. reply.state = "none" /\ reply = NoReply /\ target = 0
  BY <1>2, Idle DEF Waiting, IInv, AnswerInStep
<1>4. /\ messages' \in Seq(Rows) /\ Count' = Count /\ DOMAIN messages' = DOMAIN messages
      /\ \A m \in DOMAIN messages : messages'[m] # "Running"
  <2>1. messages \in Seq(Rows) /\ \A m \in DOMAIN messages : messages[m] \in Rows
    BY Positions DEF IInv, TypeOK, StoreTypeOK
  <2> QED
    BY <1>1, <2>1 DEF Interrupted, Count, Rows, Statuses, Endings
<1>5. steps' \in [MessageIds -> Steps]
      /\ \A m \in MessageIds : steps'[m] # "open" /\ (steps[m] = "none" => steps'[m] = "none")
  BY <1>1 DEF StepsFailed, IInv, TypeOK, StoreTypeOK, Steps
<1>6. session \in 0..made /\ session' \in 0..made /\ dropped' \in 0..made
      /\ (dropped' # 0 => session' = 0) /\ (session' # 0 => session' = session)
      /\ (session # 0 => session' = session \/ dropped' = session)
  BY <1>1 DEF DroppedSession, IInv, DiskInStep, TypeOK
<1>7. TypeOK'
  <2>1. exists' \in BOOLEAN
    BY <1>1, Zenon DEF IInv, TypeOK, StoreTypeOK
  <2>2. Flags'
    BY <1>1, Zenon DEF IInv, TypeOK, Flags
  <2>3. session' \in 0..MaxSessions /\ Len(messages') <= MaxMessages
    BY <1>1, <1>4, <1>6, StoreAssumption DEF IInv, TypeOK, StoreTypeOK, Count
  <2>4. StoreTypeOK'
    BY <1>1, <1>4, <1>5, <2>1, <2>3 DEF IInv, TypeOK, StoreTypeOK
  <2> QED
    BY <1>1, <1>6, <2>2, <2>4 DEF IInv, TypeOK
<1>8. QueueInStep'
  BY <1>1 DEF IInv, QueueInStep, Waiting, Awaited, Saves
<1>9. ProgramInStep'
  BY <1>1, <1>2, <1>4, <1>5, <1>6 DEF ProgramInStep, HasRunning
<1>10. DiskInStep'
  <2>1. ~exists => messages' = << >> /\ session' = 0
    <3>1. SUFFICES ASSUME ~exists PROVE messages' = << >> /\ session' = 0
      OBVIOUS
    <3>2. messages = << >> /\ session = 0
      BY <3>1 DEF IInv, DiskInStep
    <3>3. Count' = 0
      BY <1>4, <3>2 DEF Count
    <3> QED
      BY <1>1, <1>4, <3>2, <3>3, EmptySeq DEF Count
  <2> QED
    BY <1>1, <1>4, <1>5, <1>6, <2>1 DEF IInv, DiskInStep
<1>11. AnswerInStep'
  BY <1>1, <1>2, <1>3 DEF AnswerInStep, NoReply
<1>12. SessionInStep'
  BY <1>1, <1>2 DEF IInv, SessionInStep
<1>13. StepsInStep'
  <2>1. 1..Len(queue') = {} /\ target' = 0
    BY <1>1, <1>2, <1>3
  <2> QED
    BY <2>1 DEF StepsInStep, LastSaveIsOpen
<1>14. SessionIsAlive'
  <2>1. SUFFICES ASSUME session' # 0, session' \in forgotten' PROVE FALSE
    BY DEF SessionIsAlive
  <2>2. session' = session /\ ~HasRunning(messages)
    BY <1>1, <2>1
  <2>3. PICK m \in DOMAIN messages : Stranded(m)
    BY <1>1, <2>1, <2>2 DEF IInv, SessionIsAlive
  <2> QED
    BY <2>2, <2>3 DEF Stranded, HasRunning
<1>15. RunningIsOwned' /\ EndedAnswerHasNoOpenStep'
  BY <1>1 DEF RunningIsOwned, EndedAnswerHasNoOpenStep, Up
<1>16. SessionsAccounted'
  BY <1>1, <1>2, <1>6 DEF IInv, SessionsAccounted
<1> QED
  BY <1>7, <1>8, <1>9, <1>10, <1>11, <1>12, <1>13, <1>14, <1>15, <1>16 DEF IInv

LEMMA StartKeeps ==
  ASSUME IInv, Start
  PROVE  IInv'
<1>1. /\ program = "opened" /\ program' = "up" /\ forgotten' = forgotten \cup ({dropped} \ {0})
      /\ dropped' = 0
      /\ UNCHANGED <<exists, messages, steps, session, queue, reply, stage, target, cancelRequested,
                     previous, resumed, ready, step, storing, removal, made, lost, trouble,
                     stepTrouble, crashes>>
  BY DEF Start, storeVars, disk, turnVars, historyVars
<1>2. /\ stage = "none" /\ removal = "none" /\ queue = << >> /\ ~HasRunning(messages)
      /\ \A m \in MessageIds : steps[m] # "open"
      /\ dropped # 0 => session = 0
  BY <1>1 DEF IInv, ProgramInStep
<1>3. TypeOK'
  <2>1. StoreTypeOK'
    BY <1>1 DEF IInv, TypeOK, StoreTypeOK
  <2>2. Flags'
    BY <1>1, Zenon DEF IInv, TypeOK, Flags
  <2>3. forgotten' \subseteq 1..made'
    BY <1>1 DEF IInv, TypeOK
  <2> QED
    BY <1>1, <2>1, <2>2, <2>3 DEF IInv, TypeOK
<1>4. QueueInStep'
  BY <1>1 DEF IInv, QueueInStep, Waiting, Awaited, Saves
<1>5. ProgramInStep'
  BY <1>1, <1>2 DEF ProgramInStep
<1>6. DiskInStep'
  BY <1>1 DEF IInv, DiskInStep, Count
<1>7. AnswerInStep'
  BY <1>1, <1>2 DEF IInv, AnswerInStep
<1>8. SessionInStep'
  BY <1>1, <1>2 DEF IInv, SessionInStep
<1>9. StepsInStep'
  BY <1>1 DEF IInv, StepsInStep, LastSaveIsOpen
<1>10. \A m \in DOMAIN messages : messages[m] # "Running"
  BY <1>2 DEF HasRunning
<1>11. SessionIsAlive'
  <2>1. SUFFICES ASSUME session' # 0, session' \in forgotten' PROVE FALSE
    BY DEF SessionIsAlive
  <2>2. session # 0 /\ session \in forgotten
    BY <1>1, <1>2, <2>1
  <2> QED
    BY <1>10, <2>2 DEF IInv, SessionIsAlive, Stranded
<1>12. RunningIsOwned'
  BY <1>1, <1>10 DEF RunningIsOwned
<1>13. EndedAnswerHasNoOpenStep'
  BY <1>1, <1>2, Positions DEF EndedAnswerHasNoOpenStep, IInv
<1>14. SessionsAccounted'
  BY <1>1, <1>2 DEF IInv, SessionsAccounted
<1> QED
  BY <1>3, <1>4, <1>5, <1>6, <1>7, <1>8, <1>9, <1>11, <1>12, <1>13, <1>14 DEF IInv

-----------------------------------------------------------------------------
(* The invariant.                                                          *)

LEMMA InitHolds == Init => IInv
<1> SUFFICES ASSUME Init PROVE IInv
  OBVIOUS
<1>1. /\ exists = TRUE /\ messages = << >> /\ steps = [m \in MessageIds |-> "none"] /\ session = 0
      /\ queue = << >> /\ reply = NoReply /\ program = "up" /\ stage = "none" /\ target = 0
      /\ previous = 0 /\ ready = 0 /\ step = "none" /\ storing = 0 /\ removal = "none"
      /\ dropped = 0 /\ made = 0 /\ forgotten = {} /\ lost = {} /\ crashes = 0
  BY DEF Init, StoreInit
<1>2. Len(messages) = 0 /\ DOMAIN messages = {} /\ messages \in Seq(Rows)
      /\ queue \in Seq(Jobs) /\ 1..Len(queue) = {}
  BY <1>1
<1>3. reply \in Replies /\ reply.state = "none" /\ reply.value = 0
  BY <1>1, ReplyTypes DEF NoReply
<1>4. TypeOK
  <2>1. exists \in BOOLEAN
    BY Zenon DEF Init, StoreInit
  <2>2. Flags
    BY Zenon DEF Init, Flags
  <2>3. StoreTypeOK
    BY <1>1, <1>2, <1>3, <2>1, StoreAssumption DEF StoreTypeOK, Steps
  <2> QED
    BY <1>1, <2>2, <2>3, StoreAssumption, CrashAssumption DEF TypeOK, Stages, Steps
<1>5. QueueInStep
  BY <1>1, <1>2, <1>3 DEF QueueInStep, Waiting
<1>6. ProgramInStep
  BY <1>1 DEF ProgramInStep
<1>7. DiskInStep
  BY <1>1 DEF DiskInStep
<1>8. AnswerInStep
  BY <1>1, <1>3 DEF AnswerInStep
<1>9. SessionInStep
  BY <1>1 DEF SessionInStep
<1>10. StepsInStep
  BY <1>1, <1>2 DEF StepsInStep, LastSaveIsOpen
<1>11. SessionIsAlive /\ SessionsAccounted
  BY <1>1 DEF SessionIsAlive, SessionsAccounted
<1>12. RunningIsOwned /\ EndedAnswerHasNoOpenStep
  BY <1>2 DEF RunningIsOwned, EndedAnswerHasNoOpenStep
<1> QED
  BY <1>4, <1>5, <1>6, <1>7, <1>8, <1>9, <1>10, <1>11, <1>12 DEF IInv

(* A part of a state function follows from the whole being unchanged. *)
LEMMA StutterKeeps ==
  ASSUME IInv, UNCHANGED vars
  PROVE  IInv'
<1>1. UNCHANGED <<exists, messages, steps, session, queue, reply, program, stage, target,
                  cancelRequested, previous, resumed, ready, step, storing, removal, dropped,
                  made, forgotten, lost, trouble, stepTrouble, crashes>>
  BY DEF vars, storeVars, disk, turnVars, backendVars, historyVars
<1>2. TypeOK'
  <2>1. Flags'
    BY <1>1, Zenon DEF IInv, TypeOK, Flags
  <2> QED
    BY <1>1, <2>1 DEF IInv, TypeOK, StoreTypeOK
<1>3. QueueInStep'
  BY <1>1 DEF IInv, QueueInStep, Waiting, Awaited, Saves
<1>4. ProgramInStep' /\ DiskInStep'
  BY <1>1 DEF IInv, ProgramInStep, DiskInStep, HasRunning, Count
<1>5. AnswerInStep' /\ SessionInStep'
  BY <1>1 DEF IInv, AnswerInStep, SessionInStep, Room, HasRow, RunningLast, EndedLast, Retryable, Count
<1>6. StepsInStep'
  BY <1>1 DEF IInv, StepsInStep, LastSaveIsOpen
<1>7. SameAnswer
  BY <1>1 DEF SameAnswer, CurrentAnswer
<1>8. SessionIsAlive'
  BY <1>1, <1>7, SameAnswerIsAlive
<1>9. RunningIsOwned'
  BY <1>1 DEF IInv, RunningIsOwned, CurrentAnswer, Up
<1>10. EndedAnswerHasNoOpenStep' /\ SessionsAccounted'
  BY <1>1 DEF IInv, EndedAnswerHasNoOpenStep, SessionsAccounted, KnownSessions, Up
<1> QED
  BY <1>2, <1>3, <1>4, <1>5, <1>6, <1>8, <1>9, <1>10 DEF IInv

LEMMA NextKeeps ==
  ASSUME IInv, Next
  PROVE  IInv'
<1>1. CASE User
  BY <1>1, SendKeeps, RetryKeeps, CancelKeeps, CancelEarlyKeeps, RemoveIdleKeeps, RemoveActiveKeeps
  DEF User
<1>2. CASE Continuation
  BY <1>2, QuestionAppendedKeeps, AnswerAppendedKeeps, RetryPickedKeeps, RestartedKeeps,
     MessagesReadKeeps, AbandonKeeps, BeginCancelledKeeps, BeginUnavailableKeeps, BeginKeeps,
     MessageFinishedKeeps, RemovedKeeps DEF Continuation
<1>3. CASE Turn
  BY <1>3, StepStartedKeeps, StepFinishedKeeps, TurnFinishedKeeps, TurnFailedKeeps DEF Turn, TurnEnds
<1>4. CASE Life
  BY <1>4, CrashKeeps, OpenKeeps, StartKeeps DEF Life
<1>5. CASE WorkerStep
  BY <1>5, WorkerStepKeeps
<1> QED
  BY <1>1, <1>2, <1>3, <1>4, <1>5 DEF Next

LEMMA Invariance == Spec => []IInv
<1>1. IInv /\ [Next]_vars => IInv'
  BY NextKeeps, StutterKeeps
<1> QED
  BY InitHolds, <1>1, PTL DEF Spec

-----------------------------------------------------------------------------
(* The theorems.                                                           *)

(* The state of turnrunner.cpp and of the store keeps its types; the next   *)
(* theorems say what it means.                                             *)
THEOREM TypeCorrect == Spec => []TypeOK
BY Invariance, PTL DEF IInv

(* A message is shown as running only while the turn that answers it runs  *)
(* (send(), retry(), finish() in turnrunner.cpp and interruptRunning() of   *)
(* the storage), whatever is cancelled, fails to launch or dies on the way. *)
THEOREM RunningOwned == Spec => []RunningIsOwned
BY Invariance, PTL DEF IInv

(* forgetAllBut() never forgets the session it stored: the next turn does   *)
(* not resume one that is gone, except beside a stranded message.          *)
THEOREM SessionAlive == Spec => []StoredSessionIsAlive
<1>1. IInv => StoredSessionIsAlive
  BY Zenon DEF IInv, SessionIsAlive, StoredSessionIsAlive, Stranded
<1> QED
  BY Invariance, <1>1, PTL

(* No session a backend reported leaks, but to a crash: each is stored,    *)
(* was forgotten or is on its way to AgentBackend::forget().               *)
THEOREM SessionsKept == Spec => []SessionsAccounted
BY Invariance, PTL DEF IInv

(* An answer that ended shows no step still at work, although saveStep() is *)
(* posted and never awaited: the worker's order closes it in time.         *)
THEOREM StepsEndFirst == Spec => []EndedAnswerHasNoOpenStep
BY Invariance, PTL DEF IInv

(* A removal and a turn exclude each other: the backend works for a row     *)
(* that is there.                                                          *)
THEOREM TurnKeepsItsRow == Spec => []TurnHasConversation
<1>1. IInv => TurnHasConversation
  BY Positions DEF IInv, AnswerInStep, HasRow, TurnHasConversation
<1> QED
  BY Invariance, <1>1, PTL

(* What a turn or a recovery rewrites is a row that is not complete.       *)
LEMMA StepsLeaveComplete ==
  ASSUME IInv, [Next]_vars, exists', NEW m \in DOMAIN messages, messages[m] = "Complete"
  PROVE  m \in DOMAIN messages' /\ messages'[m] = "Complete"
<1>1. CASE UNCHANGED messages
  BY <1>1
<1>2. CASE AppendMessage
  <2>1. messages' = Append(messages, Job.row) /\ queue # << >>
    BY <1>2 DEF AppendMessage, Running
  <2>2. messages \in Seq(Rows) /\ m \in 1..Len(messages) /\ Job \in Jobs
    BY <2>1, HeadJob DEF IInv, TypeOK, StoreTypeOK
  <2> QED
    BY <2>1, <2>2
<1>3. stage \in {"restart", "finish"} /\ reply.state = "none" => m # target
  BY DEF IInv, AnswerInStep, HasRow, RunningLast, Retryable
<1>4. CASE RestartMessage \/ FinishMessage
  <2>1. queue # << >> /\ (Job.op = "restart" \/ Job.op = "finish")
        /\ \E row : messages' = [messages EXCEPT ![Job.message] = row]
    BY <1>4 DEF RestartMessage, FinishMessage, Running
  <2>2. Job.message = target /\ stage \in {"restart", "finish"}
    BY <2>1, JobTellsStage
  <2>3. reply.state = "none"
    BY <2>1, HeadJob DEF IInv
  <2>4. PICK row : messages' = [messages EXCEPT ![target] = row]
    BY <2>1, <2>2
  <2> QED
    BY <1>3, <2>2, <2>3, <2>4 DEF IInv, TypeOK, StoreTypeOK
<1>5. CASE RemoveConversation
  BY <1>5, Zenon DEF RemoveConversation
<1>6. CASE Open
  BY <1>6 DEF Open, InterruptRunning, Interrupted
<1>7. CASE WorkerStep
  BY <1>1, <1>2, <1>4, <1>5, <1>7
  DEF WorkerStep, Worker, ReadMessages, ReadConversation, CallFails, SaveStep, SaveStepFails, disk
<1>8. CASE User
  BY <1>1, <1>8 DEF User, Send, Retry, Cancel, CancelEarly, RemoveIdle, RemoveActive, disk, storeVars
<1>9. CASE Continuation
  BY <1>1, <1>9 DEF Continuation, QuestionAppended, AnswerAppended, RetryPicked, Restarted,
     MessagesRead, Abandon, BeginCancelled, BeginUnavailable, Begin, BeginWith, MessageFinished,
     Removed, Chained, disk
<1>10. CASE Turn
  BY <1>1, <1>10 DEF Turn, TurnEnds, StepStarted, StepFinished, TurnFinished, TurnFailed, Reports, disk
<1>11. CASE Crash \/ Start
  BY <1>1, <1>11 DEF Crash, Start, disk, storeVars
<1>12. CASE UNCHANGED vars
  BY <1>1, <1>12 DEF vars, storeVars, disk
<1> QED
  BY <1>6, <1>7, <1>8, <1>9, <1>10, <1>11, <1>12 DEF Next, Life

(* A complete answer is final: restartMessage() is called for what          *)
(* retryTarget() picked, finishMessage() for what the turn started, and     *)
(* interruptRunning() touches only what runs.                              *)
THEOREM CompleteStays == Spec => CompleteIsFinal
<1>1. IInv /\ [Next]_vars =>
        [\A m \in DOMAIN messages :
           messages[m] = "Complete" /\ exists' => m \in DOMAIN messages' /\ messages'[m] = "Complete"]_vars
  BY StepsLeaveComplete
<1> QED
  BY Invariance, <1>1, PTL DEF Spec, CompleteIsFinal
=============================================================================
