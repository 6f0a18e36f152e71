------------------------------ MODULE ChatRows ------------------------------
(***************************************************************************)
(* The tables a chat is kept in and what is made of them: messages and     *)
(* steps that refer to their conversation, the rows a crash leaves behind  *)
(* (src/cpp/chat/infrastructure) and the part of a conversation a turn     *)
(* hands to its agent (chat/application/transcript.cpp).                   *)
(* A call of the store is one transaction and one step here; how turns     *)
(* interleave with the store's queue is the business of TurnRunner, and a  *)
(* commit that fails that of DbTransactions.  Texts are their sizes, and   *)
(* an answer that was cancelled is a failed one.                           *)
(***************************************************************************)
EXTENDS Integers, Sequences, FiniteSets, SequencesExt

CONSTANTS
  Conversations,   \* the conversations of a run
  MaxRows,         \* the messages and steps there are at a time
  MaxFailedSaves,  \* the store's calls that fail
  MaxCrashes       \* the crashes

\* The ids of rows are 1..MaxRows.
ASSUME RowsAssumption == MaxRows \in Nat

VARIABLE rows

Nobody   == 0                                  \* no parent, no answer
Limits   == [messages |-> 3, size |-> 5]       \* kTranscriptLimits
Seed     == [messages |-> 1, size |-> 2]       \* kSeedLimits, the half of them
Sizes    == {1, 3}
NoTurn   == [answer |-> Nobody, transcript |-> <<>>, marked |-> FALSE, resumed |-> FALSE,
             start |-> 0, known |-> <<>>, missed |-> FALSE]
Gone     == [there |-> FALSE, session |-> FALSE, start |-> 0, forgotten |-> FALSE]
Created  == [Gone EXCEPT !.there = TRUE]

Init ==
  rows = [open |-> TRUE, conversations |-> [c \in Conversations |-> Gone], messages |-> {},
          steps |-> {}, turns |-> [c \in Conversations |-> NoTurn],
          seen |-> [c \in Conversations |-> {}], left |-> {}, failures |-> 0, restarts |-> 0]

-----------------------------------------------------------------------------
\* The repositories.

\* ORDER BY position
Read(table) ==
  [i \in 1..Cardinality(table) |->
     CHOOSE r \in table : Cardinality({s \in table : s.position < r.position}) = i - 1]
MessagesOf(c) == {m \in rows.messages : m.conversation = c}
StepsOf(message) == {s \in rows.steps : s.message = message}

FindByConversation(c) == Read(MessagesOf(c))
NextPosition(c) ==
  IF MessagesOf(c) = {} THEN 0 ELSE Last(FindByConversation(c)).position + 1

Upserted(table, row) == {r \in table : r.id # row.id} \cup {row}

\* The row of a step that is saved: one that is there keeps its place.
StepRow(message, step) ==
  LET existing == {s \in rows.steps : s.id = step.id} IN
  [id |-> step.id, message |-> message, parent |-> step.parent, status |-> step.status,
   position |-> IF existing = {} THEN Cardinality(StepsOf(message))
                ELSE (CHOOSE s \in existing : TRUE).position]

\* The keys and the index that the tables of messages and steps have.
StepFits(row) ==
  /\ \E m \in rows.messages : m.id = row.message
  /\ row.parent # Nobody => \E s \in rows.steps : s.id = row.parent
  /\ \A s \in StepsOf(row.message) : s.position = row.position => s.id = row.id

\* ON DELETE CASCADE, from a conversation to its messages to their steps.
RemoveRows(c) ==
  [rows EXCEPT !.conversations[c] = Gone, !.messages = @ \ MessagesOf(c),
               !.steps = {s \in @ : \A m \in MessagesOf(c) : s.message # m.id},
               !.seen[c] = {}, !.left = @ \ {m.id : m \in MessagesOf(c)}]

-----------------------------------------------------------------------------
\* The transcript of a turn.

IsComplete(m) == m.status = "Complete"
CompleteMessages(messages) == Read({m \in messages : IsComplete(m)})

SizeOf(messages) == FoldLeft(LAMBDA n, m : n + m.size, 0, messages)
FitsLimits(messages, limits) == Len(messages) <= limits.messages /\ SizeOf(messages) <= limits.size

TailFrom(messages, first) == SubSeq(messages, first, Len(messages))

FirstAtOrAfter(messages, position) ==
  CHOOSE first \in 1..Len(messages) + 1 :
    /\ \A i \in 1..first - 1 : messages[i].position < position
    /\ first <= Len(messages) => messages[first].position >= position

\* From the last message back, as long as what is kept fits; the last is kept whatever its size.
FirstKeptIndex(messages, limits) ==
  CHOOSE first \in 1..Len(messages) :
    /\ \A i \in first..Len(messages) - 1 : FitsLimits(TailFrom(messages, i), limits)
    /\ first > 1 => ~FitsLimits(TailFrom(messages, first - 1), limits)

\* The messages from one of them on; that there are others before it is marked.
WindowFrom(messages, first, start, resumed) ==
  [messages |-> [i \in 1..Len(messages) - first + 1 |-> messages[first + i - 1].id],
   marked |-> first > 1 /\ first <= Len(messages), start |-> start, resumed |-> resumed]

TrimTranscript(messages, limits) ==
  LET first == FirstKeptIndex(messages, limits)
  IN  IF messages = <<>> THEN WindowFrom(messages, 1, 0, FALSE)
      ELSE WindowFrom(messages, first, messages[first].position, FALSE)

PlanTranscript(messages, session, start) ==
  LET history == CompleteMessages(messages)
      first   == FirstAtOrAfter(history, start)
  IN  IF session /\ FitsLimits(TailFrom(history, first), Limits)
      THEN WindowFrom(history, first, start, TRUE)
      ELSE TrimTranscript(history, IF FitsLimits(history, Limits) THEN Limits ELSE Seed)

-----------------------------------------------------------------------------
\* The calls of the store, by the turn of a conversation.

Used ==
  {m.id : m \in rows.messages} \cup {s.id : s \in rows.steps}
    \cup {step.id : step \in UNION {ToSet(rows.turns[c].known) : c \in Conversations}}

MayCall(c) == rows.open /\ rows.conversations[c].there
Room(n)    == Cardinality(Used) + n <= MaxRows
Idle(c)    == MayCall(c) /\ rows.turns[c] = NoTurn

CreateConversation(c) ==
  /\ rows.open
  /\ ~rows.conversations[c].there
  /\ rows' = [rows EXCEPT !.conversations[c] = Created]

Message(c, id, position, role, status, size) ==
  [id |-> id, conversation |-> c, position |-> position, role |-> role, status |-> status,
   size |-> size]

\* The turn of an answer begins with the messages that were read after it was stored.  A
\* session that is resumed hears the question and begins the answer.
Begun(table, c, answer) ==
  LET conversation == table.conversations[c]
      plan == PlanTranscript({m \in table.messages : m.conversation = c},
                             conversation.session, conversation.start)
      turn == [answer |-> answer, transcript |-> plan.messages, marked |-> plan.marked,
               resumed |-> plan.resumed, start |-> plan.start, known |-> <<>>, missed |-> FALSE]
  IN  [table EXCEPT !.turns[c] = turn,
         !.seen[c] = IF plan.resumed THEN @ \cup {Last(plan.messages), answer} ELSE @]

\* launch(): the turn begins, or a call that reads for it fails and the turn is abandoned; the
\* answer is then left as it was stored, running.
Launch(table, c, answer) ==
  \/ rows' = Begun(table, c, answer)
  \/ rows.failures < MaxFailedSaves
     /\ rows' = [table EXCEPT !.failures = @ + 1, !.left = @ \cup {answer}]

\* Ids nothing has, one for a row and one for a second.
NewId      == CHOOSE id \in 1..MaxRows : id \notin Used
OtherNewId == CHOOSE id \in 1..MaxRows : id \notin Used \cup {NewId}

Appended(c, size) ==
  [rows EXCEPT !.messages = @ \cup
     {Message(c, NewId, NextPosition(c), "User", "Complete", size)}]

Send(c, size) ==
  LET answer == Message(c, OtherNewId, NextPosition(c) + 1, "Assistant", "Running", 0)
      asked  == Appended(c, size)
  IN  /\ Idle(c)
      /\ Room(2)
      /\ Launch([asked EXCEPT !.messages = @ \cup {answer}], c, answer.id)

\* The answer cannot be stored: the turn is abandoned and its question stays.  A question that
\* cannot be stored, like a call of retry() that fails before its launch, leaves no row.
SendFails(c, size) ==
  /\ Idle(c)
  /\ Room(1)
  /\ rows.failures < MaxFailedSaves
  /\ rows' = [Appended(c, size) EXCEPT !.failures = @ + 1]

Retry(c) ==
  /\ Idle(c)
  /\ MessagesOf(c) # {}
  /\ LET last == Last(FindByConversation(c)) IN
     /\ last.role = "Assistant" /\ last.status \in {"Failed", "Interrupted"}
     /\ Launch([rows EXCEPT !.steps = @ \ StepsOf(last.id),
                   !.messages = Upserted(@, [last EXCEPT !.status = "Running", !.size = 0])],
               c, last.id)

Runs(c) == MayCall(c) /\ rows.turns[c] # NoTurn

\* What upsertStep() makes of the steps a turn holds.
Held(known, step) ==
  IF \E i \in 1..Len(known) : known[i].id = step.id
  THEN [i \in 1..Len(known) |-> IF known[i].id = step.id THEN step ELSE known[i]]
  ELSE Append(known, step)

SaveStep(c, step) ==
  LET turn  == rows.turns[c]
      row   == StepRow(turn.answer, step)
      held  == [rows EXCEPT !.turns[c].known = Held(@, step)]
      lost  == [held EXCEPT !.turns[c].missed = TRUE]
      saved == [held EXCEPT !.steps = Upserted(@, row)]
  IN  \/ rows' = IF StepFits(row) THEN saved ELSE lost
      \/ rows.failures < MaxFailedSaves /\ rows' = [lost EXCEPT !.failures = @ + 1]

StepStarts(c, parent) ==
  /\ Runs(c)
  /\ Room(1)
  /\ \/ parent = Nobody
     \/ \E i \in 1..Len(rows.turns[c].known) :
          LET step == rows.turns[c].known[i] IN
          step.id = parent /\ step.parent = Nobody /\ step.status = "Running"
  /\ SaveStep(c, [id |-> NewId, parent |-> parent, status |-> "Running"])

StepFinishes(c, i) ==
  /\ Runs(c)
  /\ LET known == rows.turns[c].known IN
     /\ known[i].status = "Running"
     /\ \A j \in 1..Len(known) : known[j].parent = known[i].id => known[j].status # "Running"
     /\ SaveStep(c, [known[i] EXCEPT !.status = "Ok"])

StepsAreClosed(c) ==
  \A i \in 1..Len(rows.turns[c].known) : rows.turns[c].known[i].status # "Running"

\* The turn is over: its answer, and the session that goes on with the conversation.
Finished(c, status, size, session, start, seen) ==
  LET answer == CHOOSE m \in rows.messages : m.id = rows.turns[c].answer IN
  [rows EXCEPT !.messages = Upserted(@, [answer EXCEPT !.status = status, !.size = size]),
               !.conversations[c] = [@ EXCEPT !.session = session, !.start = start,
                                              !.forgotten = FALSE],
               !.turns[c] = NoTurn, !.seen[c] = seen]

Ends(c) == Runs(c) /\ StepsAreClosed(c)

\* The session that was resumed goes on.
KeepsSession(c) ==
  /\ rows.turns[c].resumed
  /\ ~rows.conversations[c].forgotten
  /\ rows' = Finished(c, "Complete", 1, TRUE, rows.turns[c].start, rows.seen[c])

\* A new session was seeded with the transcript, be it for one that could not be resumed.
BeginsSession(c) ==
  LET turn == rows.turns[c] IN
  rows' = Finished(c, "Complete", 1, TRUE, turn.start, ToSet(turn.transcript) \cup {turn.answer})

\* The agent named no session.
KeepsNoSession(c) ==
  /\ ~rows.turns[c].resumed
  /\ rows' = Finished(c, "Complete", 1, FALSE, 0, {})

Succeed(c) == Ends(c) /\ (KeepsSession(c) \/ BeginsSession(c) \/ KeepsNoSession(c))

Fail(c) == Ends(c) /\ rows' = Finished(c, "Failed", 0, FALSE, 0, {})

\* finishMessage() fails, however the turn ended: the answer is left running, and the session
\* that is stored is one the agent is told to forget.
FinishFails(c) ==
  /\ Ends(c)
  /\ rows.failures < MaxFailedSaves
  /\ rows' = [rows EXCEPT !.turns[c] = NoTurn, !.failures = @ + 1,
                          !.left = @ \cup {rows.turns[c].answer},
                          !.conversations[c].forgotten = rows.conversations[c].session]

RemoveConversation(c) == Idle(c) /\ rows' = RemoveRows(c)

-----------------------------------------------------------------------------
\* The program dies and is started again.

Crash ==
  /\ rows.open
  /\ rows.restarts < MaxCrashes
  /\ rows' = [rows EXCEPT !.open = FALSE, !.restarts = @ + 1,
                          !.turns = [c \in Conversations |-> NoTurn]]

RunningMessages == {m \in rows.messages : m.status = "Running"}
Interrupted     == {m.conversation : m \in RunningMessages}

\* A storage that ends what was running and leaves the sessions.
InterruptMessagesOnly ==
  [rows EXCEPT
    !.messages = {[m EXCEPT !.status = IF @ = "Running" THEN "Interrupted" ELSE @] : m \in @},
    !.steps = {[s EXCEPT !.status = IF @ = "Running" THEN "Failed" ELSE @] : s \in @}]

InterruptRunning ==
  [rows EXCEPT
    !.conversations = [c \in Conversations |->
       IF c \in Interrupted
       THEN [@[c] EXCEPT !.session = FALSE, !.start = 0, !.forgotten = FALSE] ELSE @[c]],
    !.messages = {[m EXCEPT !.status = IF @ = "Running" THEN "Interrupted" ELSE @] : m \in @},
    !.steps = {[s EXCEPT !.status = IF @ = "Running" THEN "Failed" ELSE @] : s \in @},
    !.seen = [c \in Conversations |-> IF c \in Interrupted THEN {} ELSE @[c]],
    !.left = {}]

Open == ~rows.open /\ rows' = [InterruptRunning EXCEPT !.open = TRUE]

Next ==
  \/ \E c \in Conversations :
       \/ CreateConversation(c)
       \/ \E size \in Sizes : Send(c, size) \/ SendFails(c, size)
       \/ Retry(c)
       \/ \E parent \in {Nobody} \cup {s.id : s \in ToSet(rows.turns[c].known)} : StepStarts(c, parent)
       \/ \E i \in 1..Len(rows.turns[c].known) : StepFinishes(c, i)
       \/ Succeed(c)
       \/ Fail(c)
       \/ FinishFails(c)
       \/ RemoveConversation(c)
  \/ Crash
  \/ Open

Spec == Init /\ [][Next]_rows

-----------------------------------------------------------------------------

\* Messages and steps read back are those that were saved, in the order they were first saved:
\* places count from 0, without gaps, and a step stands after the one it belongs to.
PlacesAreDense ==
  /\ \A c \in Conversations :
       {m.position : m \in MessagesOf(c)} = 0..Cardinality(MessagesOf(c)) - 1
  /\ \A m \in rows.messages :
       {s.position : s \in StepsOf(m.id)} = 0..Cardinality(StepsOf(m.id)) - 1
  /\ \A s \in rows.steps : \E m \in rows.messages : m.id = s.message
  /\ \A s \in rows.steps : s.parent # Nobody =>
       \E p \in StepsOf(s.message) : p.id = s.parent /\ p.position < s.position

\* The steps of a running answer are stored as the turn holds them, unless a save failed.
ReadsBackItsSteps ==
  \A c \in Conversations : rows.turns[c] # NoTurn /\ ~rows.turns[c].missed =>
    LET read == Read(StepsOf(rows.turns[c].answer))
        known == rows.turns[c].known
    IN  /\ Len(read) = Len(known)
        /\ \A i \in 1..Len(read) : read[i].id = known[i].id /\ read[i].status = known[i].status

\* A turn is given a transcript that ends with its question, leaves out complete messages only
\* before a point and says so, and fits the limits unless it is the question alone.
TranscriptEndsWithTheQuestion ==
  \A c \in Conversations : rows.turns[c] # NoTurn =>
    LET turn     == rows.turns[c]
        complete == CompleteMessages(MessagesOf(c))
        kept     == TailFrom(complete, Len(complete) - Len(turn.transcript) + 1)
    IN  /\ turn.transcript # <<>>
        /\ Last(complete).role = "User"
        /\ [i \in 1..Len(kept) |-> kept[i].id] = turn.transcript
        /\ turn.marked <=> Len(complete) > Len(kept)
        /\ Len(kept) > 1 => FitsLimits(kept, Limits)

Unanswered(c) ==
  {m \in MessagesOf(c) : m.role = "User" /\
     ~\E a \in MessagesOf(c) : a.role = "Assistant" /\ IsComplete(a) /\ a.position = m.position + 1}

\* Between turns, the stored session of a conversation saw the complete messages from its start
\* on, and nothing else; a question whose answer was never complete may be missing from what it
\* saw.  One the agent was told to forget because its turn could not be stored saw more or less.
SessionSawItsTail ==
  \A c \in Conversations :
    rows.open /\ rows.turns[c] = NoTurn
      /\ rows.conversations[c].session /\ ~rows.conversations[c].forgotten =>
    LET tail == {m \in MessagesOf(c) : IsComplete(m) /\ m.position >= rows.conversations[c].start}
    IN  /\ rows.seen[c] \subseteq {m.id : m \in tail}
        /\ {m.id : m \in tail \ Unanswered(c)} \subseteq rows.seen[c]

\* While the store is open, what is stored as running belongs to a turn, unless a call of the
\* store failed that would have begun its turn or ended it; it then stays running, without a
\* turn, until the next start.  The steps of an answer that is over are over, unless a call failed.
NothingRunsUnattended ==
  rows.open =>
    /\ \A m \in RunningMessages :
         rows.turns[m.conversation].answer = m.id \/ m.id \in rows.left
    /\ rows.failures = 0 => rows.left = {} /\ \A s \in rows.steps : s.status = "Running" =>
         \E m \in RunningMessages : m.id = s.message

\* What the tables of the chat keep, a crash and a failed save included.
ChatIsKept ==
  /\ PlacesAreDense /\ ReadsBackItsSteps
  /\ TranscriptEndsWithTheQuestion /\ SessionSawItsTail
  /\ NothingRunsUnattended
=============================================================================
