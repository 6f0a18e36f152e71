------------------------------- MODULE ChatView -------------------------------
(***************************************************************************)
(* What the user sees of a chat (cpp/chat/ui): ChatSession, the view of one *)
(* conversation, and Chat with its list of conversations.  Both hear the    *)
(* signals of the turn runner at once, and read the store by calls that a   *)
(* worker answers later and in order; meanwhile the user switches to        *)
(* another conversation, sends, renames, removes, or the session is         *)
(* detached from its chat.                                                  *)
(*                                                                          *)
(* Of the runner (TurnRunner.tla) the calls a turn makes are merged into    *)
(* one to store it and one to finish it.  A message shown is its answer:    *)
(* texts, titles of the session and agents' titles are loaded along with    *)
(* it and not modelled.  A turn has at most one step.                       *)
(***************************************************************************)
EXTENDS Naturals, Sequences, FiniteSets, SequencesExt

CONSTANTS
  Conversations,
  NoConversation,  \* the null id: a conversation that is not created yet
  MaxTurns,        \* bound: turns sent or retried
  MaxEdits,        \* bound: other actions of the user: switches, detachments,
                   \* renames and removals
  MaxFailures      \* bound: calls of the store that fail

ASSUME ViewAssumption ==
  /\ NoConversation \notin Conversations
  /\ {MaxTurns, MaxEdits, MaxFailures} \subseteq Nat

VARIABLES
  order,     \* stored conversations, the one touched last first
  rows,      \* stored answers of each conversation
  created,   \* ids that have been used
  calls,     \* the calls of the store that are not answered yet, in order
  failed,    \* kinds of calls that failed
  turn,      \* where the runner is with each conversation: m_turns
  told,      \* the step the turn has told
  removing,  \* m_removing
  session,   \* the ChatSession
  listed,    \* the list of Chat
  turns, edits \* counters

storeVars == <<order, rows, created, failed>>
runnerVars == <<turn, told, removing>>
counters == <<turns, edits>>
vars == <<storeVars, calls, runnerVars, session, listed, counters>>

NoStep == "none"
Row(c, status, step) == [conversation |-> c, status |-> status, step |-> step]

Call(kind, c) == [kind |-> kind, conversation |-> c, step |-> NoStep]
ListCall == <<Call("list", NoConversation)>>

IsBusy(c) == turn[c] # "none" \/ c \in removing

Init ==
  /\ \E kept \in {{}} \cup {{c} : c \in Conversations} :
       /\ created = kept
       /\ \/ kept = {} /\ order = << >>
          \/ \E c \in kept : order = <<[id |-> c, title |-> 0]>>
       /\ rows = [c \in Conversations |->
                   IF c \in kept THEN <<Row(c, "Failed", NoStep)>> ELSE << >>]
  /\ calls = ListCall
  /\ failed = {}
  /\ turn = [c \in Conversations |-> "none"]
  /\ told = [c \in Conversations |-> NoStep]
  /\ removing = {}
  /\ session = [attached |-> TRUE, followed |-> NoConversation, busy |-> FALSE,
                activity |-> FALSE, live |-> NoStep, shown |-> << >>]
  /\ listed = << >>
  /\ turns = 0
  /\ edits = 0

-----------------------------------------------------------------------------
(* ChatConversationModel: the list a view shows is brought to a new list by *)
(* the smallest removals, moves and insertions, so that the view keeps its  *)
(* place.  A conversation is [id, title].                                   *)

Holds(list, id) == \E i \in DOMAIN list : list[i].id = id

(* One step of removeMissing(), which goes through the rows from the last. *)
WithoutMissing(list, wanted, row) ==
  IF Holds(wanted, list[row].id) THEN list ELSE RemoveAt(list, row)

RemoveMissing(list, wanted) ==
  LET removed[done \in 0..Len(list)] ==
        IF done = 0 THEN list ELSE WithoutMissing(removed[done - 1], wanted, Len(list) + 1 - done)
  IN removed[Len(list)]

(* rowOf(): the first row from `row` on that shows `id`, 0 if there is none. *)
RowOf(list, id, row) ==
  LET found == {i \in row..Len(list) : list[i].id = id} IN
  IF found = {} THEN 0 ELSE CHOOSE i \in found : \A j \in found : i <= j

Moved(list, from, to) == InsertAt(RemoveAt(list, from), to, list[from])

(* The last of the wanted rows from `row` on that the list lacks. *)
LastMissing(list, wanted, row) ==
  CHOOSE last \in row..Len(wanted) :
    /\ \A i \in (row + 1)..last : ~Holds(list, wanted[i].id)
    /\ last < Len(wanted) => Holds(list, wanted[last + 1].id)

Inserted(list, wanted, row, last) ==
  SubSeq(list, 1, row - 1) \o SubSeq(wanted, row, last) \o SubSeq(list, row, Len(list))

(* One step of arrange(): the rows before `row` are in place.  Rows that    *)
(* were inserted along with an earlier one are found where they belong.     *)
Arranged(list, wanted, row) ==
  LET from == RowOf(list, wanted[row].id, row) IN
  IF from = row THEN list
  ELSE IF from > row THEN Moved(list, from, row)
  ELSE Inserted(list, wanted, row, LastMissing(list, wanted, row))

Arrange(list, wanted) ==
  LET arranged[row \in 0..Len(wanted)] ==
        IF row = 0 THEN list ELSE Arranged(arranged[row - 1], wanted, row)
  IN arranged[Len(wanted)]

(* A variant: rows that stay are not refreshed. *)
KeepsRows(list, wanted) == list
(* refreshChanged(): row by row, the list now being as long as the new one. *)
RefreshChanged(list, wanted) ==
  [row \in DOMAIN list |-> IF list[row] = wanted[row] THEN list[row] ELSE wanted[row]]

Updated(list, wanted) ==
  RefreshChanged(Arrange(RemoveMissing(list, wanted), wanted), wanted)

-----------------------------------------------------------------------------
(* The session's own handlers, as functions of it *)

Follows(c) == session.attached /\ session.followed = c
Cleared(s) == [s EXCEPT !.live = NoStep]

(* reloadMessages() *)
Reload(s) ==
  IF s.attached /\ s.followed # NoConversation THEN <<Call("messages", s.followed)>> ELSE << >>

ResetTo(s, c) ==
  [s EXCEPT !.followed = c, !.live = NoStep, !.shown = << >>, !.busy = FALSE, !.activity = FALSE]

(* What loadConversation() makes of busy. *)
Loaded(s) ==
  IF s.attached /\ s.followed # NoConversation THEN [s EXCEPT !.busy = IsBusy(s.followed)] ELSE s

OnTurnStarted(s) == [Cleared(s) EXCEPT !.busy = TRUE]
OnTurnFinished(s) == [Cleared(s) EXCEPT !.busy = FALSE, !.activity = FALSE]

(* ChatMessageModel::runningRow(), putRunningStep() and activity(). *)
RunningRows(list) == {i \in DOMAIN list : list[i].status = "Running"}
RunningRow(list) == CHOOSE i \in RunningRows(list) : \A j \in RunningRows(list) : j <= i
PutStep(list, step) ==
  IF RunningRows(list) = {} THEN list ELSE [list EXCEPT ![RunningRow(list)].step = step]
Activity(list) == RunningRows(list) # {} /\ list[RunningRow(list)].step = "Running"

OnStep(s, step) ==
  LET list == PutStep(s.shown, step) IN
  [s EXCEPT !.live = step, !.shown = list, !.activity = Activity(list)]

(* A variant: an answer is taken without asking for which conversation. *)
IsCurrentAlways(s, c) == TRUE
IsCurrent(s, c) == c = s.followed

(* A variant: what has been told since the call was made is forgotten. *)
LoadedRows(s, list) == list
WithLive(s, list) == IF s.live = NoStep THEN list ELSE PutStep(list, s.live)

OnMessages(s, c, list) ==
  LET now == WithLive(s, list) IN
  IF IsCurrent(s, c)
  THEN [s EXCEPT !.shown = now, !.activity = Activity(now), !.busy = s.attached /\ IsBusy(c)]
  ELSE s

-----------------------------------------------------------------------------
(* The signals of the runner: what Chat and the session post upon each. *)

Reloads(c) == IF Follows(c) THEN Reload(session) ELSE << >>

TurnStarted(c) == ListCall \o Reloads(c)
TurnFinished(c) == ListCall \o Reloads(c)

-----------------------------------------------------------------------------
(* The runner *)

Begin(c) ==
  /\ turn[c] = "launching"
  /\ turn' = [turn EXCEPT ![c] = "running"]
  /\ told' = [told EXCEPT ![c] = NoStep]
  /\ session' = IF Follows(c) THEN OnTurnStarted(session) ELSE session
  /\ calls' = calls \o TurnStarted(c)
  /\ UNCHANGED <<storeVars, removing, listed, counters>>

StepTold(c, step) ==
  /\ turn[c] = "running"
  /\ <<told[c], step>> \in {<<NoStep, "Running">>, <<"Running", "Ok">>}
  /\ told' = [told EXCEPT ![c] = step]
  /\ session' = IF Follows(c) THEN OnStep(session, step) ELSE session
  /\ calls' = Append(calls, [Call("saveStep", c) EXCEPT !.step = step])
  /\ UNCHANGED <<storeVars, turn, removing, listed, counters>>

Conclude(c) ==
  /\ turn[c] = "running"
  /\ told[c] # "Running"
  /\ turn' = [turn EXCEPT ![c] = "finishing"]
  /\ calls' = Append(calls, Call("finish", c))
  /\ UNCHANGED <<storeVars, told, removing, session, listed, counters>>

(* finish(): in `rest` are the calls after the one that was answered. *)
Finish(c, rest) ==
  /\ turn' = [turn EXCEPT ![c] = "none"]
  /\ session' = IF Follows(c) THEN OnTurnFinished(session) ELSE session
  /\ calls' = rest \o TurnFinished(c)
                   \o (IF c \in removing THEN <<Call("remove", c)>> ELSE << >>)
  /\ UNCHANGED <<created, told, removing, listed, counters>>

(* A read of launch() fails, and the turn is abandoned. *)
LaunchFails(c) ==
  /\ turn[c] = "launching"
  /\ Finish(c, calls)
  /\ UNCHANGED <<order, rows, failed>>

-----------------------------------------------------------------------------
(* Answers reach the main thread.  The worker runs the calls one by one and *)
(* nothing else changes the store, so what a call finds there depends on    *)
(* the calls before it alone: it is run here when its answer arrives.       *)

Answered(kind) == calls # << >> /\ Head(calls).kind = kind
Rest == Tail(calls)
Subject == Head(calls).conversation

Fails(kind) ==
  /\ Cardinality(failed) < MaxFailures
  /\ failed' = failed \cup {kind}
Succeeds == failed' = failed

Exists(c) == Holds(order, c)
Entry(c) == CHOOSE e \in {order[i] : i \in DOMAIN order} : e.id = c
Others(c) == IF Exists(c) THEN RemoveAt(order, RowOf(order, c, 1)) ELSE order
Touches(c) == order' = <<Entry(c)>> \o Others(c)
LastRow(c) == rows[c][Len(rows[c])]
WithLast(c, row) == [rows EXCEPT ![c][Len(rows[c])] = row]

ListArrives ==
  /\ Answered("list")
  /\ listed' = Updated(listed, order)
  /\ calls' = Rest
  /\ UNCHANGED <<storeVars, runnerVars, session, counters>>

MessagesArrive ==
  /\ Answered("messages")
  /\ session' = OnMessages(session, Subject, rows[Subject])
  /\ calls' = Rest
  /\ UNCHANGED <<storeVars, runnerVars, listed, counters>>

(* retryTarget(): only a failed answer at the end is run again. *)
Retryable(c) == rows[c] # << >> /\ LastRow(c).status = "Failed"

(* The question and the running answer of a turn, or a restarted answer. *)
TurnStored ==
  LET c == Subject IN
  /\ Succeeds
  /\ \/ /\ Answered("append")
        /\ rows' = [rows EXCEPT ![c] = Append(@, Row(c, "Running", NoStep))]
     \/ /\ Answered("restart")
        /\ Retryable(c)
        /\ rows' = WithLast(c, Row(c, "Running", NoStep))
  /\ Exists(c)
  /\ Touches(c)
  /\ turn' = [turn EXCEPT ![c] = "launching"]
  /\ calls' = Rest
  /\ UNCHANGED <<created, told, removing, session, listed, counters>>

TurnAbandoned ==
  /\ \/ Answered("append") /\ (Fails("append") \/ (~Exists(Subject) /\ Succeeds))
     \/ Answered("restart") /\ (Fails("restart") \/ (~Retryable(Subject) /\ Succeeds))
  /\ Finish(Subject, Rest)
  /\ UNCHANGED <<order, rows>>

TurnConcluded ==
  LET c == Subject IN
  /\ Answered("finish")
  /\ \/ Fails("finish") /\ UNCHANGED <<order, rows>>
     \/ /\ Succeeds
        /\ \E status \in {"Complete", "Failed"} : rows' = WithLast(c, Row(c, status, LastRow(c).step))
        /\ Touches(c)
  /\ Finish(c, Rest)

StepSaved ==
  LET c == Subject IN
  /\ Answered("saveStep")
  /\ \/ Fails("saveStep") /\ UNCHANGED rows
     \/ Succeeds /\ rows' = WithLast(c, Row(c, LastRow(c).status, Head(calls).step))
  /\ calls' = Rest
  /\ UNCHANGED <<order, created, runnerVars, session, listed, counters>>

Removed ==
  LET c == Subject IN
  /\ Answered("remove")
  /\ removing' = removing \ {c}
  /\ \/ /\ Fails("remove")
        /\ calls' = Rest
        /\ UNCHANGED <<order, rows, session>>
     \/ /\ Succeeds
        /\ order' = Others(c)
        /\ rows' = [rows EXCEPT ![c] = << >>]
        /\ session' = IF Follows(c) THEN ResetTo(session, NoConversation) ELSE session
        /\ calls' = Rest \o ListCall
  /\ UNCHANGED <<created, turn, told, listed, counters>>

Retitled(c) ==
  [i \in DOMAIN order |-> IF order[i].id = c THEN [id |-> c, title |-> order[i].title + 1] ELSE order[i]]

Renamed ==
  LET c == Subject IN
  /\ Answered("rename")
  /\ \/ /\ Fails("rename") \/ (~Exists(c) /\ Succeeds)
        /\ calls' = Rest
        /\ UNCHANGED order
     \/ /\ Exists(c)
        /\ Succeeds
        /\ order' = Retitled(c)
        /\ calls' = Rest \o ListCall
  /\ UNCHANGED <<rows, created, runnerVars, session, listed, counters>>

(* The conversation was created: it is followed unless the user has turned  *)
(* to another, and its turn is sent if there is still a chat.               *)
Created(c) ==
  /\ Answered("create")
  /\ Succeeds
  /\ c \notin created
  /\ created' = created \cup {c}
  /\ order' = <<[id |-> c, title |-> 0]>> \o order
  /\ LET adopted == [session EXCEPT !.followed = IF @ = NoConversation THEN c ELSE @] IN
       IF session.attached
       THEN /\ session' = adopted
            /\ turn' = [turn EXCEPT ![c] = "storing"]
            /\ calls' = Append(Rest, Call("append", c))
       ELSE /\ session' = [adopted EXCEPT !.busy = IF adopted.followed = c THEN FALSE ELSE @]
            /\ calls' = Rest
            /\ UNCHANGED turn
  /\ UNCHANGED <<rows, told, removing, listed, counters>>

(* A variant: the failure is left to the log. *)
StaysBusy(s) == s
IdleAgain(s) == [s EXCEPT !.busy = IF s.followed = NoConversation THEN FALSE ELSE @]

CreationFailed ==
  /\ Answered("create")
  /\ Fails("create")
  /\ session' = IdleAgain(session)
  /\ calls' = Rest
  /\ UNCHANGED <<order, rows, created, runnerVars, listed, counters>>

Deliver ==
  \/ ListArrives \/ MessagesArrive \/ TurnStored \/ TurnAbandoned \/ TurnConcluded
  \/ StepSaved \/ Removed \/ Renamed \/ CreationFailed
  \/ \E c \in Conversations : Created(c)

-----------------------------------------------------------------------------
(* The user, who acts on any conversation that has been seen, also on one   *)
(* that is not listed any more.                                             *)

MayEdit ==
  /\ edits < MaxEdits
  /\ edits' = edits + 1

SetConversation(c) ==
  /\ c # session.followed
  /\ MayEdit
  /\ session' = Loaded(ResetTo(session, c))
  /\ calls' = calls \o Reload(session')
  /\ UNCHANGED <<storeVars, runnerVars, listed, turns>>

Detach ==
  /\ session.attached
  /\ MayEdit
  /\ session' = [Cleared(session) EXCEPT !.attached = FALSE, !.busy = FALSE, !.activity = FALSE]
  /\ UNCHANGED <<storeVars, calls, runnerVars, listed, turns>>

Attach ==
  /\ ~session.attached
  /\ session' = Loaded([session EXCEPT !.attached = TRUE])
  /\ calls' = calls \o Reload(session')
  /\ UNCHANGED <<storeVars, runnerVars, listed, counters>>

MaySend ==
  /\ session.attached
  /\ ~session.busy
  /\ turns < MaxTurns
  /\ turns' = turns + 1

SendNew ==
  /\ MaySend
  /\ session.followed = NoConversation
  /\ Cardinality(created) + Len(SelectSeq(calls, LAMBDA k : k.kind = "create"))
       < Cardinality(Conversations)
  /\ session' = [Cleared(session) EXCEPT !.busy = TRUE]
  /\ calls' = Append(calls, Call("create", NoConversation))
  /\ UNCHANGED <<storeVars, runnerVars, listed, edits>>

(* send() to a conversation, and retry(). *)
RunTurn(kind) ==
  LET c == session.followed IN
  /\ MaySend
  /\ c # NoConversation
  /\ ~IsBusy(c)
  /\ session' = [Cleared(session) EXCEPT !.busy = TRUE]
  /\ turn' = [turn EXCEPT ![c] = "storing"]
  /\ calls' = Append(calls, Call(kind, c))
  /\ UNCHANGED <<storeVars, told, removing, listed, edits>>

(* The runner refuses: the conversation is being removed. *)
SendRefused ==
  /\ MaySend
  /\ session.followed # NoConversation
  /\ IsBusy(session.followed)
  /\ session' = [Cleared(session) EXCEPT !.busy = TRUE]
  /\ UNCHANGED <<storeVars, calls, runnerVars, listed, edits>>

RemoveConversation(c) ==
  /\ c \in created
  /\ MayEdit
  /\ c \notin removing
  /\ removing' = removing \cup {c}
  /\ calls' = IF turn[c] = "none" THEN Append(calls, Call("remove", c)) ELSE calls
  /\ UNCHANGED <<storeVars, turn, told, session, listed, turns>>

RenameConversation(c) ==
  /\ c \in created
  /\ MayEdit
  /\ calls' = Append(calls, Call("rename", c))
  /\ UNCHANGED <<storeVars, runnerVars, session, listed, turns>>

User ==
  \/ Detach \/ Attach \/ SendNew \/ SendRefused
  \/ \E kind \in {"append", "restart"} : RunTurn(kind)
  \/ \E c \in created \cup {NoConversation} : SetConversation(c)
  \/ \E c \in Conversations : RemoveConversation(c) \/ RenameConversation(c)

Runner ==
  \E c \in Conversations :
    \/ Begin(c) \/ Conclude(c) \/ LaunchFails(c)
    \/ \E step \in {"Running", "Ok"} : StepTold(c, step)

Next == Deliver \/ Runner \/ User

Spec == Init /\ [][Next]_vars

-----------------------------------------------------------------------------
Kinds == {"list", "messages", "create", "append", "restart", "finish", "saveStep", "remove",
          "rename"}
StepStates == {NoStep, "Running", "Ok"}
Rows == [conversation : Conversations, status : {"Running", "Complete", "Failed"},
         step : StepStates]

(* The lists of conversations, `order` and `listed`, are the concern of     *)
(* ListsTheConversations.                                                   *)
TypeOK ==
  /\ rows \in [Conversations -> Seq(Rows)]
  /\ created \subseteq Conversations
  /\ calls \in Seq([kind : Kinds, conversation : Conversations \cup {NoConversation},
                    step : StepStates])
  /\ failed \subseteq Kinds
  /\ turn \in [Conversations -> {"none", "storing", "launching", "running", "finishing"}]
  /\ told \in [Conversations -> StepStates]
  /\ removing \subseteq created
  /\ session \in [attached : BOOLEAN, followed : created \cup {NoConversation},
                  busy : BOOLEAN, activity : BOOLEAN, live : StepStates, shown : Seq(Rows)]
  /\ turns \in 0..MaxTurns
  /\ edits \in 0..MaxEdits

Pending(kind, c) == \E i \in DOMAIN calls : calls[i].kind = kind /\ calls[i].conversation = c

(* Whatever answers are still under way from conversations shown before,    *)
(* the rows are those of the conversation that is followed, and the live    *)
(* step is one of its turn that runs (chatsession.cpp:41, 224, 257-275).    *)
ShowsOnlyTheFollowed ==
  /\ \A i \in DOMAIN session.shown : session.shown[i].conversation = session.followed
  /\ session.live # NoStep => /\ session.followed \in Conversations
                              /\ turn[session.followed] \in {"running", "finishing"}
                              /\ session.live = told[session.followed]

(* Once the messages that were asked for have come, a session shows what is *)
(* stored, and the step its turn has told, whether it was told before or    *)
(* after the messages were read (chatsession.cpp:247-277, 351-371).         *)
ShowsTheConversation ==
  LET c == session.followed IN
  session.attached /\ c # NoConversation /\ ~Pending("messages", c) =>
    /\ ~IsBusy(c) => session.shown = rows[c]
    /\ ~IsBusy(c) /\ ~({"finish", "saveStep"} \subseteq failed) => ~session.activity
    /\ turn[c] = "running" /\ "saveStep" \notin failed =>
         /\ RunningRows(session.shown) # {}
         /\ session.shown[RunningRow(session.shown)].step = told[c]
         /\ session.activity = (told[c] = "Running")

(* A session is busy only while something is under way that will make it    *)
(* idle again: messages being loaded, a conversation being created, its     *)
(* turn, or a removal.  A removal that fails tells nobody, and a session    *)
(* that was reloaded meanwhile stays busy: it is left out                   *)
(* (chatsession.cpp:117-125, 244, 274, 286-296, 365-371).                   *)
NeverStuckBusy ==
  LET c == session.followed IN
  session.busy /\ "remove" \notin failed =>
    IF c = NoConversation THEN \E i \in DOMAIN calls : calls[i].kind = "create"
    ELSE IsBusy(c) \/ Pending("messages", c)

(* When nothing is under way the list shows the stored conversations, in    *)
(* their order and with their titles, unless a conversation was created for *)
(* a session that has left its chat (chat.cpp:33-36, 167-173).              *)
ListsTheConversations ==
  /\ calls = << >>
  /\ \A c \in Conversations : turn[c] = "none" /\ (Exists(c) => rows[c] # << >>)
  => listed = order
===============================================================================
