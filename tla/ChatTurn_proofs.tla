--------------------------- MODULE ChatTurn_proofs ---------------------------
(***************************************************************************)
(* Proofs about ChatTurn and the contexts it keeps of its delegates, for    *)
(* any agents, conversations, turns, calls, sessions and limits.  What the  *)
(* main agent is doing says which step is open, whether a delegate runs and *)
(* what its report came to; every session is followed from the delegate     *)
(* that made it through the contexts to its deletion.                       *)
(***************************************************************************)
EXTENDS ChatTurn, FiniteSetTheorems, TLAPS

(* A turn runs as long as its main agent does; a delegate runs, and fails,  *)
(* at one point of it only.                                                 *)
MainInStep ==
  /\ phase = "running" <=> main # "done"
  /\ main # "delegating" => run = NoRun
  /\ failing => main = "finishing"
  /\ \A a \in Agents : delegations[a] <= calls /\ (main = "starting" => delegations[a] < calls)

(* The open steps: the delegation, and in it a tool of the delegate.        *)
StepsInStep ==
  /\ delegation # 0 <=> main \in {"starting", "delegating", "finishing"}
  /\ tool # 0 <=> run.inTool
  /\ tool # 0 => delegation < tool /\ steps[tool].outcome = "none"
  /\ delegation # 0 => steps[delegation].status = "Running"
  /\ main = "finishing" => steps[delegation].outcome = (IF failing THEN "failure" ELSE "report")

(* Only agents with a context policy have contexts and sessions, and no     *)
(* session is known that was not made.                                      *)
SessionsInStep ==
  /\ run.session # NoSession => Keeps
  /\ run.session <= sessions
  /\ \A k \in Keys : /\ contexts[k].session <= sessions
                     /\ ~contexts[k].kept => contexts[k].session = NoSession
                     /\ contexts[k].kept => k[2] \in Keepers
  /\ \A s \in forgotten : s <= sessions

Kept(s) == \E k \in Keys : contexts[k].session = s
(* OneOwnerPerSession without counting. *)
Owned(s) ==
  /\ Kept(s) \/ run.session = s \/ s \in forgotten
  /\ ~(Kept(s) /\ run.session = s)
  /\ ~(Kept(s) /\ s \in forgotten)
  /\ ~(run.session = s /\ s \in forgotten)
  /\ \A k, l \in Keys : contexts[k].session = s /\ contexts[l].session = s => k = l
OwnersInStep == \A s \in 1..sessions : Owned(s)

IInv ==
  /\ TypeOK
  /\ MainInStep
  /\ StepsInStep
  /\ SessionsInStep
  /\ OwnersInStep
  /\ StepsTellTheOutcome

-----------------------------------------------------------------------------
(* The types.                                                              *)

RunType == [mode : {"none", "task", "compaction"}, session : 0..MaxSessions,
            resumes : BOOLEAN, inTool : BOOLEAN, followUps : 0..MaxFollowUps,
            rounds : 0..MaxToolRounds]
ContextType == [kept : BOOLEAN, session : 0..MaxSessions, large : BOOLEAN, old : BOOLEAN]
StepType == [status : Statuses, outcome : {"none", "report", "failure"}]

LEMMA Bounds ==
  /\ MaxTurns \in Nat /\ MaxCalls \in Nat /\ MaxSessions \in Nat /\ MaxDelegations \in Nat
  /\ MaxFollowUps \in Nat /\ MaxToolRounds \in Nat
BY TurnBoundsAssumption

LEMMA RequestIs ==
  ASSUME NEW mode \in {"task", "compaction"}, NEW session \in 0..MaxSessions,
         NEW followUps \in 0..MaxFollowUps
  PROVE  /\ Request(mode, session, followUps) \in RunType
         /\ Request(mode, session, followUps).session = session
         /\ Request(mode, session, followUps).inTool = FALSE
BY Bounds DEF Request, RunType, NoSession

LEMMA NoRunIs == NoRun \in RunType /\ NoRun.session = NoSession /\ NoRun.inTool = FALSE
BY Bounds DEF NoRun, RunType, NoSession

LEMMA ContextIs ==
  /\ NoContext \in ContextType /\ ~NoContext.kept /\ NoContext.session = NoSession
  /\ \A session \in 0..MaxSessions, large \in BOOLEAN :
       /\ Context(session, large) \in ContextType /\ Context(session, large).kept
       /\ Context(session, large).session = session
BY Bounds DEF NoContext, Context, ContextType, NoSession

LEMMA OpensIs ==
  ASSUME TypeOK, steps' = Opens
  PROVE  /\ steps' \in Seq(StepType) /\ Len(steps') = Len(steps) + 1 /\ Len(steps) \in Nat
         /\ DOMAIN steps = 1..Len(steps) /\ DOMAIN steps' = 1..Len(steps) + 1
         /\ \A i \in DOMAIN steps : steps'[i] = steps[i]
         /\ steps'[Len(steps) + 1].status = "Running" /\ steps'[Len(steps) + 1].outcome = "none"
<1> DEFINE e == [status |-> "Running", outcome |-> "none"]
<1>1. e \in StepType /\ e.status = "Running" /\ e.outcome = "none"
  BY DEF StepType, Statuses
<1>2. steps \in Seq(StepType) /\ steps' = Append(steps, e)
  BY DEF TypeOK, StepType, Opens
<1> HIDE DEF e
<1> QED
  BY <1>1, <1>2

(* Closing a step, or what it came to, changes that step only. *)
LEMMA CloseIs ==
  ASSUME NEW all \in Seq(StepType), NEW step \in 0..Len(all), NEW status \in Statuses
  PROVE  /\ Close(all, step, status) \in Seq(StepType) /\ Len(Close(all, step, status)) = Len(all)
         /\ DOMAIN Close(all, step, status) = DOMAIN all /\ DOMAIN all = 1..Len(all)
         /\ \A i \in DOMAIN all : i # step => Close(all, step, status)[i] = all[i]
         /\ \A i \in DOMAIN all : Close(all, step, status)[i].outcome = all[i].outcome
         /\ step # 0 => Close(all, step, status)[step].status = status
<1>1. CASE step = 0
  BY <1>1 DEF Close
<1>2. CASE step # 0
  <2>1. step \in DOMAIN all /\ DOMAIN all = 1..Len(all)
    BY <1>2
  <2>2. Close(all, step, status) = [all EXCEPT ![step].status = status]
    BY <1>2 DEF Close
  <2>3. ASSUME NEW i \in DOMAIN all
        PROVE  /\ Close(all, step, status)[i] \in StepType
               /\ i # step => Close(all, step, status)[i] = all[i]
               /\ Close(all, step, status)[i].outcome = all[i].outcome
    <3>1. all[i] \in StepType
      BY <2>1
    <3>2. CASE i = step
      <4>1. Close(all, step, status)[i] = [all[i] EXCEPT !.status = status]
        BY <2>1, <2>2, <3>2
      <4> QED
        BY <3>1, <3>2, <4>1 DEF StepType
    <3>3. CASE i # step
      BY <2>1, <2>2, <3>1, <3>3
    <3> QED
      BY <3>2, <3>3
  <2>4. Close(all, step, status)[step].status = status
    BY <2>1, <2>2 DEF StepType
  <2>5. DOMAIN Close(all, step, status) = 1..Len(all)
    BY <2>1, <2>2
  <2>6. Close(all, step, status) \in [1..Len(all) -> StepType] /\ Len(all) \in Nat
    BY <2>1, <2>2, <2>3, <2>5
  <2>7. Close(all, step, status) \in Seq(StepType) /\ Len(Close(all, step, status)) = Len(all)
    BY <2>5, <2>6
  <2> QED
    BY <2>1, <2>3, <2>4, <2>5, <2>7
<1> QED
  BY <1>1, <1>2

LEMMA CameIs ==
  ASSUME TypeOK, delegation # 0, NEW outcome \in {"report", "failure"}, steps' = Came(outcome)
  PROVE  /\ steps' \in Seq(StepType) /\ Len(steps') = Len(steps) /\ DOMAIN steps' = DOMAIN steps
         /\ delegation \in DOMAIN steps /\ steps'[delegation].outcome = outcome
         /\ steps'[delegation].status = steps[delegation].status
         /\ \A i \in DOMAIN steps : i # delegation => steps'[i] = steps[i]
<1>1. steps \in Seq(StepType) /\ delegation \in DOMAIN steps /\ DOMAIN steps = 1..Len(steps)
  BY DEF TypeOK, StepType
<1>2. steps' = [steps EXCEPT ![delegation].outcome = outcome]
  BY DEF Came
<1>3. ASSUME NEW i \in DOMAIN steps
      PROVE  /\ steps'[i] \in StepType /\ i # delegation => steps'[i] = steps[i]
  BY <1>1, <1>2 DEF StepType
<1>4. steps'[delegation].outcome = outcome /\ steps'[delegation].status = steps[delegation].status
  BY <1>1, <1>2 DEF StepType
<1>5. DOMAIN steps' = 1..Len(steps) /\ Len(steps) \in Nat
  BY <1>1, <1>2
<1>6. steps' \in [1..Len(steps) -> StepType]
  <2>1. PICK e \in StepType : steps' = [steps EXCEPT ![delegation] = e]
    <3>1. steps[delegation] \in StepType
      BY <1>1
    <3>2. [steps[delegation] EXCEPT !.outcome = outcome] \in StepType
      BY <3>1 DEF StepType
    <3> QED
      BY <1>2, <3>2
  <2> QED
    BY <1>1, <2>1
<1>7. steps' \in Seq(StepType) /\ Len(steps') = Len(steps)
  BY <1>5, <1>6
<1> QED
  BY <1>1, <1>3, <1>4, <1>5, <1>7

-----------------------------------------------------------------------------
(* Where a session can go.                                                 *)

LEMMA SessionStays ==
  ASSUME NEW s, Owned(s), contexts' = contexts, forgotten' = forgotten,
         run'.session = run.session
  PROVE  Owned(s)'
BY DEF Owned, Kept

(* The delegate's session is deleted. *)
LEMMA RunForgotten ==
  ASSUME NEW s, s # NoSession, Owned(s), contexts' = contexts, Forgets({run.session}),
         run'.session = NoSession
  PROVE  Owned(s)'
BY DEF Owned, Kept, Forgets

(* The sessions of some contexts are deleted with them. *)
LEMMA KeysForgotten ==
  ASSUME NEW s, s # NoSession, Owned(s), NEW gone \in SUBSET Keys,
         \A k \in Keys : contexts'[k].session = IF k \in gone THEN NoSession ELSE contexts[k].session,
         Forgets({contexts[k].session : k \in gone}), run'.session = run.session
  PROVE  Owned(s)'
<1>1. forgotten' = forgotten \cup ({contexts[k].session : k \in gone} \ {NoSession})
  BY DEF Forgets
<1>2. s \in forgotten' <=> s \in forgotten \/ \E k \in gone : contexts[k].session = s
  BY <1>1
<1>3. Kept(s)' <=> \E k \in Keys : k \notin gone /\ contexts[k].session = s
  BY DEF Kept
<1>4. \A k, l \in Keys : contexts'[k].session = s /\ contexts'[l].session = s => k = l
  BY DEF Owned
<1> QED
  BY <1>2, <1>3, <1>4 DEF Owned, Kept

(* A context is taken up by the delegate. *)
LEMMA KeyTaken ==
  ASSUME NEW s, s # NoSession, Owned(s), NEW key \in Keys,
         \A k \in Keys : contexts'[k].session = IF k = key THEN NoSession ELSE contexts[k].session,
         forgotten' = forgotten, run.session = NoSession, run'.session = contexts[key].session
  PROVE  Owned(s)'
<1>1. Kept(s)' <=> \E k \in Keys : k # key /\ contexts[k].session = s
  BY DEF Kept
<1>2. \A k, l \in Keys : contexts'[k].session = s /\ contexts'[l].session = s => k = l
  BY DEF Owned
<1> QED
  BY <1>1, <1>2 DEF Owned, Kept

(* The delegate's session is kept; what the key held before is deleted. *)
LEMMA RunKept ==
  ASSUME NEW s, s # NoSession, Owned(s), NEW key \in Keys,
         \A k \in Keys : contexts'[k].session = IF k = key THEN run.session ELSE contexts[k].session,
         Forgets({contexts[key].session}), run'.session = NoSession
  PROVE  Owned(s)'
<1>1. Kept(s)' <=> run.session = s \/ \E k \in Keys : k # key /\ contexts[k].session = s
  BY DEF Kept
<1>2. s \in forgotten' <=> s \in forgotten \/ contexts[key].session = s
  BY DEF Forgets
<1>3. \A k, l \in Keys : contexts'[k].session = s /\ contexts'[l].session = s => k = l
  BY DEF Owned, Kept
<1> QED
  BY <1>1, <1>2, <1>3 DEF Owned, Kept

(* What is known of Key: where a turn keeps the contexts of its delegates. *)
LEMMA KeyIs ==
  ASSUME TypeOK
  PROVE  /\ Key \in Keys /\ Key[2] = delegate /\ contexts[Key] \in ContextType
         /\ contexts \in [Keys -> ContextType] /\ run \in RunType
         /\ run.session \in 0..MaxSessions /\ sessions \in 0..MaxSessions
         /\ \A k \in Keys : contexts[k] \in ContextType /\ contexts[k].session \in 0..MaxSessions
BY DEF TypeOK, Key, Keys, ContextType, RunType

(* One key is given a context. *)
LEMMA Rekeyed ==
  ASSUME TypeOK, NEW key \in Keys, NEW c \in ContextType, contexts' = [contexts EXCEPT ![key] = c]
  PROVE  /\ contexts' \in [Keys -> ContextType] /\ contexts'[key] = c
         /\ \A k \in Keys : k # key => contexts'[k] = contexts[k]
         /\ \A k \in Keys : contexts'[k].session = IF k = key THEN c.session ELSE contexts[k].session
BY KeyIs

-----------------------------------------------------------------------------
(* Steps that move no session.                                             *)

LEMMA NoSessionMoves ==
  ASSUME IInv, UNCHANGED <<contexts, forgotten, sessions>>, run'.session = run.session,
         run.session # NoSession => delegate' = delegate
  PROVE  SessionsInStep' /\ OwnersInStep'
<1>1. SessionsInStep'
  BY DEF IInv, SessionsInStep, Keeps
<1>2. OwnersInStep'
  BY SessionStays DEF IInv, OwnersInStep
<1> QED
  BY <1>1, <1>2

(* The state whose types are not looked at again in each step. *)
LEMMA StillTyped ==
  ASSUME IInv, UNCHANGED <<turns, sessions, contexts, forgotten>>,
         phase' \in {"idle", "running", "answered", "failed", "cancelled"},
         conversation' \in Conversations,
         main' \in {"queued", "model", "calls", "starting", "delegating", "finishing", "done"},
         delegate' \in Agents, run' \in RunType, {delegation', tool'} \subseteq 0..Len(steps'),
         failing' \in BOOLEAN, delegations' \in [Agents -> 0..MaxCalls], told' \in BOOLEAN,
         steps' \in Seq(StepType), calls' \in 0..MaxCalls
  PROVE  TypeOK'
BY DEF IInv, TypeOK, RunType, StepType

LEMMA Parts ==
  ASSUME IInv
  PROVE  /\ phase \in {"idle", "running", "answered", "failed", "cancelled"}
         /\ conversation \in Conversations /\ delegate \in Agents /\ run \in RunType
         /\ main \in {"queued", "model", "calls", "starting", "delegating", "finishing", "done"}
         /\ delegation \in 0..Len(steps) /\ tool \in 0..Len(steps) /\ Len(steps) \in Nat
         /\ failing \in BOOLEAN /\ told \in BOOLEAN
         /\ delegations \in [Agents -> 0..MaxCalls] /\ calls \in 0..MaxCalls
         /\ steps \in Seq(StepType) /\ turns \in 0..MaxTurns
         /\ contexts \in [Keys -> ContextType] /\ forgotten \subseteq 1..MaxSessions
         /\ sessions \in 0..MaxSessions /\ run.session \in 0..MaxSessions
BY DEF IInv, TypeOK, RunType, StepType, ContextType

(* No delegate runs while the main agent is not waiting for it. *)
LEMMA NoDelegate ==
  ASSUME IInv, main # "delegating"
  PROVE  run = NoRun /\ run.session = NoSession /\ run.inTool = FALSE /\ tool = 0
BY NoRunIs DEF IInv, MainInStep, StepsInStep

(* The types once the sessions have moved. *)
LEMMA Retyped ==
  ASSUME IInv, turns' \in 0..MaxTurns, conversation' \in Conversations,
         phase' \in {"idle", "running", "answered", "failed", "cancelled"},
         main' \in {"queued", "model", "calls", "starting", "delegating", "finishing", "done"},
         delegate' \in Agents, run' \in RunType, {delegation', tool'} \subseteq 0..Len(steps'),
         failing' \in BOOLEAN, delegations' \in [Agents -> 0..MaxCalls], told' \in BOOLEAN,
         steps' \in Seq(StepType), calls' \in 0..MaxCalls, sessions' \in 0..MaxSessions,
         contexts' \in [Keys -> ContextType], forgotten' \subseteq 1..MaxSessions
  PROVE  TypeOK'
BY DEF IInv, TypeOK, RunType, StepType, ContextType

LEMMA StartKeeps ==
  ASSUME IInv, NEW c \in Conversations, Start(c)
  PROVE  IInv'
<1>1. main = "done" /\ run = NoRun /\ run.session = NoSession /\ tool = 0 /\ delegation = 0
      /\ run.inTool = FALSE
  BY NoDelegate, Parts DEF IInv, MainInStep, StepsInStep, Start
<1>2. /\ UNCHANGED <<delegate, run, delegation, tool, sessions, contexts, forgotten>>
      /\ phase' = "running" /\ conversation' = c /\ main' = "queued" /\ failing' = FALSE
      /\ told' = FALSE /\ steps' = << >> /\ turns' = turns + 1 /\ calls' = 0 /\ turns < MaxTurns
      /\ delegations' = [a \in Agents |-> 0]
  BY DEF Start, contextVars
<1>3. TypeOK'
  <2>1. steps' \in Seq(StepType) /\ Len(steps') = 0 /\ DOMAIN steps' = {}
    BY <1>2
  <2>2. delegations' \in [Agents -> 0..MaxCalls] /\ calls' \in 0..MaxCalls /\ turns' \in 0..MaxTurns
    <3>1. 0 \in 0..MaxCalls
      BY Bounds
    <3>2. turns \in 0..MaxTurns
      BY Parts
    <3>3. turns' \in 0..MaxTurns
      BY <1>2, <3>2, Bounds
    <3> QED
      BY <1>2, <3>1, <3>3
  <2>3. {delegation', tool'} \subseteq 0..Len(steps')
    BY <1>1, <1>2, <2>1
  <2> QED
    BY <1>1, <1>2, <2>1, <2>2, <2>3, Parts, Retyped
<1>4. MainInStep' /\ StepsInStep' /\ StepsTellTheOutcome'
  BY <1>1, <1>2 DEF MainInStep, StepsInStep, StepsTellTheOutcome
<1>5. SessionsInStep' /\ OwnersInStep'
  BY <1>2, NoSessionMoves
<1> QED
  BY <1>3, <1>4, <1>5 DEF IInv

LEMMA AskKeeps ==
  ASSUME IInv, Ask \/ AskAgain
  PROVE  IInv'
<1>1. /\ UNCHANGED <<phase, conversation, delegate, run, delegation, tool, failing, delegations,
                     told, steps, turns, calls, sessions, contexts, forgotten>>
      /\ main' = "model" /\ main \in {"queued", "calls"}
  BY DEF Ask, AskAgain, contextVars
<1>2. TypeOK'
  BY <1>1 DEF IInv, TypeOK
<1>3. MainInStep' /\ StepsInStep' /\ StepsTellTheOutcome'
  BY <1>1 DEF IInv, MainInStep, StepsInStep, StepsTellTheOutcome
<1>4. SessionsInStep' /\ OwnersInStep'
  BY <1>1, NoSessionMoves
<1> QED
  BY <1>2, <1>3, <1>4 DEF IInv

LEMMA CallAgentKeeps ==
  ASSUME IInv, NEW a \in Agents, CallAgent(a)
  PROVE  IInv'
<1>1. /\ UNCHANGED <<phase, conversation, run, tool, failing, delegations, told, turns, sessions,
                     contexts, forgotten>>
      /\ main \in {"model", "calls"} /\ main' = "starting" /\ delegate' = a /\ steps' = Opens
      /\ delegation' = Len(steps) + 1 /\ calls < MaxCalls /\ calls' = calls + 1
  BY DEF CallAgent, contextVars
<1>2. run.session = NoSession /\ run = NoRun /\ run.inTool = FALSE /\ tool = 0 /\ ~failing
  BY <1>1, NoDelegate DEF IInv, MainInStep
<1>3. /\ steps' \in Seq(StepType) /\ Len(steps') = Len(steps) + 1 /\ Len(steps) \in Nat
      /\ DOMAIN steps = 1..Len(steps) /\ DOMAIN steps' = 1..Len(steps) + 1
      /\ \A i \in DOMAIN steps : steps'[i] = steps[i]
      /\ steps'[Len(steps) + 1].status = "Running" /\ steps'[Len(steps) + 1].outcome = "none"
  BY <1>1, OpensIs DEF IInv
<1>4. calls' \in 0..MaxCalls /\ calls \in Nat /\ calls < calls'
  BY <1>1, Parts, Bounds
<1>5. TypeOK'
  <2>1. {delegation', tool'} \subseteq 0..Len(steps')
    BY <1>1, <1>2, <1>3
  <2> QED
    BY <1>1, <1>3, <1>4, <2>1, Parts, StillTyped
<1>6. MainInStep'
  <2>1. \A b \in Agents : delegations[b] <= calls' /\ delegations[b] < calls'
    BY <1>1, <1>4, Parts DEF IInv, MainInStep
  <2> QED
    BY <1>1, <1>2, <2>1 DEF IInv, MainInStep
<1>7. StepsInStep'
  BY <1>1, <1>2, <1>3 DEF StepsInStep
<1>8. StepsTellTheOutcome'
  BY <1>1, <1>3 DEF IInv, StepsTellTheOutcome
<1>9. SessionsInStep' /\ OwnersInStep'
  BY <1>1, <1>2, NoSessionMoves
<1> QED
  BY <1>5, <1>6, <1>7, <1>8, <1>9 DEF IInv

LEMMA DelegationFinishedKeeps ==
  ASSUME IInv, DelegationFinished
  PROVE  IInv'
<1> DEFINE status == IF failing THEN "Failed" ELSE "Ok"
<1>1. /\ UNCHANGED <<phase, conversation, delegate, run, tool, delegations, told, turns, calls,
                     sessions, contexts, forgotten>>
      /\ main = "finishing" /\ main' = "calls" /\ delegation' = 0 /\ failing' = FALSE
      /\ steps' = Close(steps, delegation, status)
  BY DEF DelegationFinished, contextVars, FailingAfterwards
<1>2. run.session = NoSession /\ run = NoRun /\ run.inTool = FALSE /\ tool = 0
      /\ steps[delegation].outcome = (IF failing THEN "failure" ELSE "report")
      /\ delegation # 0 /\ phase = "running"
  BY <1>1, NoDelegate DEF IInv, MainInStep, StepsInStep
<1>3. /\ steps' \in Seq(StepType) /\ Len(steps') = Len(steps)
      /\ DOMAIN steps' = DOMAIN steps
      /\ \A i \in DOMAIN steps : i # delegation => steps'[i] = steps[i]
      /\ \A i \in DOMAIN steps : steps'[i].outcome = steps[i].outcome
      /\ steps'[delegation].status = status
  BY <1>1, <1>2, Parts, CloseIs DEF Statuses
<1>4. TypeOK'
  <2>1. {delegation', tool'} \subseteq 0..Len(steps')
    BY <1>1, <1>2, <1>3, Parts
  <2> QED
    BY <1>1, <1>3, <2>1, Parts, StillTyped
<1>5. MainInStep' /\ StepsInStep'
  BY <1>1, <1>2 DEF IInv, MainInStep, StepsInStep
<1>6. StepsTellTheOutcome'
  <2>1. SUFFICES ASSUME NEW i \in DOMAIN steps
                 PROVE  /\ steps'[i].status = "Ok" => steps'[i].outcome # "failure"
                        /\ steps'[i].status = "Failed" => steps'[i].outcome # "report"
    BY <1>3 DEF StepsTellTheOutcome
  <2>2. CASE i = delegation
    BY <1>2, <1>3, <2>2
  <2>3. CASE i # delegation
    BY <1>2, <1>3, <2>3 DEF IInv, StepsTellTheOutcome
  <2> QED
    BY <2>2, <2>3
<1>7. SessionsInStep' /\ OwnersInStep'
  BY <1>1, NoSessionMoves
<1> QED
  BY <1>4, <1>5, <1>6, <1>7 DEF IInv

LEMMA SucceedKeeps ==
  ASSUME IInv, Succeed
  PROVE  IInv'
<1>1. /\ UNCHANGED <<conversation, delegate, run, delegation, tool, failing, delegations, steps,
                     turns, calls, sessions, contexts, forgotten>>
      /\ main = "model" /\ main' = "done" /\ phase' = "answered" /\ told' \in BOOLEAN
  BY DEF Succeed, contextVars
<1>2. TypeOK'
  BY <1>1 DEF IInv, TypeOK
<1>3. MainInStep' /\ StepsInStep' /\ StepsTellTheOutcome'
  BY <1>1 DEF IInv, MainInStep, StepsInStep, StepsTellTheOutcome
<1>4. SessionsInStep' /\ OwnersInStep'
  BY <1>1, NoSessionMoves
<1> QED
  BY <1>2, <1>3, <1>4 DEF IInv

(* The steps of a turn that failed: none is told Ok that was not. *)
LEMMA StepsFailIs ==
  ASSUME IInv, StepsFail, phase' # "running"
  PROVE  /\ steps' \in Seq(StepType) /\ Len(steps') = Len(steps) /\ StepsTellTheOutcome'
         /\ delegation' = 0 /\ tool' = 0
<1> DEFINE inner == Close(steps, tool, "Failed")
<1>1. steps' = Close(inner, delegation, "Failed") /\ delegation' = 0 /\ tool' = 0
  BY DEF StepsFail
<1>2. /\ inner \in Seq(StepType) /\ Len(inner) = Len(steps) /\ DOMAIN inner = DOMAIN steps
      /\ \A i \in DOMAIN steps : i # tool => inner[i] = steps[i]
      /\ \A i \in DOMAIN steps : inner[i].outcome = steps[i].outcome
      /\ tool # 0 => inner[tool].status = "Failed"
  BY Parts, CloseIs DEF Statuses
<1> HIDE DEF inner
<1>3. /\ steps' \in Seq(StepType) /\ Len(steps') = Len(inner) /\ DOMAIN steps' = DOMAIN inner
      /\ \A i \in DOMAIN inner : i # delegation => steps'[i] = inner[i]
      /\ \A i \in DOMAIN inner : steps'[i].outcome = inner[i].outcome
      /\ delegation # 0 => steps'[delegation].status = "Failed"
  BY <1>1, <1>2, Parts, CloseIs DEF Statuses
<1>4. ASSUME NEW i \in DOMAIN steps', steps'[i].status = "Ok"
      PROVE  steps'[i].outcome # "failure"
  <2>1. i \in DOMAIN steps /\ i # 0 /\ i # delegation /\ i # tool
    BY <1>2, <1>3, <1>4
  <2>2. steps'[i] = steps[i]
    BY <1>2, <1>3, <2>1
  <2> QED
    BY <1>4, <2>1, <2>2 DEF IInv, StepsTellTheOutcome
<1> QED
  BY <1>1, <1>2, <1>3, <1>4 DEF StepsTellTheOutcome

LEMMA FailKeeps ==
  ASSUME IInv, Fail
  PROVE  IInv'
<1>1. /\ UNCHANGED <<conversation, delegate, run, failing, delegations, told, turns, calls,
                     sessions, contexts, forgotten>>
      /\ main = "model" /\ main' = "done" /\ phase' = "failed" /\ StepsFail
  BY DEF Fail, contextVars
<1>2. /\ steps' \in Seq(StepType) /\ Len(steps') = Len(steps) /\ StepsTellTheOutcome'
      /\ delegation' = 0 /\ tool' = 0
  BY <1>1, StepsFailIs
<1>3. run = NoRun /\ run.inTool = FALSE
  BY <1>1, NoDelegate
<1>4. TypeOK'
  <2>1. {delegation', tool'} \subseteq 0..Len(steps')
    BY <1>2, Parts
  <2> QED
    BY <1>1, <1>2, <2>1, Parts, StillTyped
<1>5. MainInStep' /\ StepsInStep'
  BY <1>1, <1>2, <1>3 DEF IInv, MainInStep, StepsInStep
<1>6. SessionsInStep' /\ OwnersInStep'
  BY <1>1, NoSessionMoves
<1> QED
  BY <1>2, <1>4, <1>5, <1>6 DEF IInv

(* delegate() counts the delegation it looks at. *)
LEMMA CountedIs ==
  ASSUME IInv, main = "starting", delegations' = Counted
  PROVE  /\ delegations' \in [Agents -> 0..MaxCalls]
         /\ \A a \in Agents : delegations'[a] <= calls
<1>1. /\ delegations \in [Agents -> 0..MaxCalls] /\ delegate \in Agents /\ calls \in 0..MaxCalls
      /\ \A a \in Agents : delegations[a] \in 0..MaxCalls /\ delegations[a] < calls
  BY Parts DEF IInv, MainInStep
<1>2. delegations' = [delegations EXCEPT ![delegate] = @ + 1]
  BY DEF Counted
<1>3. ASSUME NEW a \in Agents
      PROVE  delegations'[a] \in 0..MaxCalls /\ delegations'[a] <= calls
  <2>1. delegations'[a] = delegations[a] + 1 \/ delegations'[a] = delegations[a]
    BY <1>1, <1>2
  <2> QED
    BY <1>1, <2>1, Bounds
<1> QED
  BY <1>1, <1>2, <1>3

(* The delegation is told to have failed, before or after a delegate ran. *)
LEMMA ReportIs ==
  ASSUME IInv, main \in {"starting", "delegating"}, ~run.inTool, tool' = tool,
         delegation' = delegation, phase' = phase, run' = NoRun,
         \/ Reports
         \/ ReportsFailure,
         \A a \in Agents : delegations'[a] <= calls', delegations' \in [Agents -> 0..MaxCalls]
  PROVE  /\ steps' \in Seq(StepType) /\ {delegation', tool'} \subseteq 0..Len(steps')
         /\ main' = "finishing" /\ failing' \in BOOLEAN
         /\ MainInStep' /\ StepsInStep' /\ StepsTellTheOutcome'
<1>1. /\ phase = "running" /\ ~failing /\ tool = 0 /\ delegation # 0
      /\ steps[delegation].status = "Running"
  BY Parts DEF IInv, MainInStep, StepsInStep
<1>2. PICK outcome \in {"report", "failure"} :
        /\ main' = "finishing" /\ steps' = Came(outcome) /\ failing' \in BOOLEAN
        /\ failing' <=> outcome = "failure"
  <2>1. CASE Reports
    <3>1. main' = "finishing" /\ steps' = Came("report") /\ failing' = failing /\ failing \in BOOLEAN
      BY <2>1, Parts DEF Reports
    <3> QED
      BY <1>1, <3>1
  <2>2. CASE ReportsFailure
    BY <2>2 DEF ReportsFailure
  <2> QED
    BY <2>1, <2>2
<1>3. /\ steps' \in Seq(StepType) /\ Len(steps') = Len(steps) /\ DOMAIN steps' = DOMAIN steps
      /\ delegation \in DOMAIN steps /\ steps'[delegation].outcome = outcome
      /\ steps'[delegation].status = steps[delegation].status
      /\ \A i \in DOMAIN steps : i # delegation => steps'[i] = steps[i]
  BY <1>1, <1>2, CameIs DEF IInv
<1>4. {delegation', tool'} \subseteq 0..Len(steps')
  BY <1>3, Parts
<1>5. MainInStep'
  BY <1>1, <1>2 DEF IInv, MainInStep
<1>6. StepsInStep'
  BY <1>1, <1>2, <1>3, NoRunIs DEF StepsInStep
<1>7. StepsTellTheOutcome'
  BY <1>1, <1>3 DEF IInv, StepsTellTheOutcome
<1> QED
  BY <1>2, <1>3, <1>4, <1>5, <1>6, <1>7

LEMMA PastCeilingKeeps ==
  ASSUME IInv, PastCeiling
  PROVE  IInv'
<1>1. /\ UNCHANGED <<phase, conversation, delegate, run, delegation, tool, told, turns, calls,
                     sessions, contexts, forgotten>>
      /\ main = "starting" /\ delegations' = Counted /\ ReportsFailure
  BY DEF PastCeiling, contextVars
<1>2. run' = NoRun /\ ~run.inTool
  BY <1>1, NoDelegate
<1>3. delegations' \in [Agents -> 0..MaxCalls] /\ \A a \in Agents : delegations'[a] <= calls'
  BY <1>1, CountedIs
<1>4. /\ steps' \in Seq(StepType) /\ {delegation', tool'} \subseteq 0..Len(steps')
      /\ main' = "finishing" /\ failing' \in BOOLEAN
      /\ MainInStep' /\ StepsInStep' /\ StepsTellTheOutcome'
  BY <1>1, <1>2, <1>3, ReportIs
<1>5. TypeOK'
  BY <1>1, <1>3, <1>4, Parts, StillTyped
<1>6. SessionsInStep' /\ OwnersInStep'
  BY <1>1, NoSessionMoves
<1> QED
  BY <1>4, <1>5, <1>6 DEF IInv

-----------------------------------------------------------------------------
(* Steps of the delegate.                                                  *)

(* What the main agent knows stays as it is while the delegate works. *)
LEMMA MainWaits ==
  ASSUME IInv, main = "delegating",
         UNCHANGED <<phase, conversation, main, delegate, delegation, failing, delegations, told,
                     turns, calls>>
  PROVE  /\ MainInStep' /\ phase = "running" /\ delegation # 0 /\ ~failing
         /\ delegation \in DOMAIN steps /\ DOMAIN steps = 1..Len(steps)
         /\ steps[delegation].status = "Running"
<1>1. phase = "running" /\ delegation # 0 /\ ~failing /\ steps[delegation].status = "Running"
  BY DEF IInv, MainInStep, StepsInStep
<1>2. delegation \in DOMAIN steps /\ DOMAIN steps = 1..Len(steps)
  BY <1>1, Parts
<1>3. MainInStep'
  BY DEF IInv, MainInStep
<1> QED
  BY <1>1, <1>2, <1>3

(* A step of the delegate that opens and closes no step of the turn. *)
LEMMA RunChanges ==
  ASSUME IInv, main = "delegating",
         UNCHANGED <<phase, conversation, main, delegate, delegation, failing, delegations, told,
                     turns, calls, tool, steps>>,
         run' \in RunType, run'.inTool = run.inTool
  PROVE  MainInStep' /\ StepsInStep' /\ StepsTellTheOutcome'
<1>1. MainInStep'
  BY MainWaits
<1>2. StepsInStep'
  BY DEF IInv, StepsInStep
<1>3. StepsTellTheOutcome'
  BY DEF IInv, StepsTellTheOutcome
<1> QED
  BY <1>1, <1>2, <1>3

LEMMA RunIs ==
  ASSUME NEW r \in RunType
  PROVE  /\ r.mode \in {"none", "task", "compaction"} /\ r.session \in 0..MaxSessions
         /\ r.inTool \in BOOLEAN /\ r.followUps \in 0..MaxFollowUps /\ r.rounds \in 0..MaxToolRounds
         /\ \A s \in 0..MaxSessions :
              /\ [r EXCEPT !.session = s] \in RunType /\ [r EXCEPT !.session = s].session = s
              /\ [r EXCEPT !.session = s].inTool = r.inTool
BY DEF RunType

LEMMA SessionStartsKeeps ==
  ASSUME IInv, SessionStarts
  PROVE  IInv'
<1>1. /\ UNCHANGED <<phase, conversation, main, delegate, delegation, failing, delegations, told,
                     turns, calls, tool, steps, contexts, forgotten>>
      /\ main = "delegating" /\ Keeps /\ run.session = NoSession /\ sessions < MaxSessions
      /\ sessions' = sessions + 1 /\ run' = [run EXCEPT !.session = sessions + 1]
  BY DEF SessionStarts, Delegating, mainVars, contextVars
<1>2. /\ sessions \in Nat /\ sessions' \in 0..MaxSessions /\ sessions' # NoSession
      /\ run' \in RunType /\ run'.session = sessions' /\ run'.inTool = run.inTool
  <2>1. sessions \in 0..MaxSessions /\ sessions + 1 \in 0..MaxSessions
    BY <1>1, Parts, Bounds
  <2> QED
    BY <1>1, <2>1, RunIs, Parts DEF NoSession
<1>3. TypeOK'
  BY <1>1, <1>2, Parts, Retyped
<1>4. SessionsInStep'
  <2>1. \A n \in Nat : n <= sessions => n <= sessions'
    BY <1>1, <1>2
  <2>2. /\ \A k \in Keys : contexts[k].session \in Nat /\ contexts[k].session <= sessions
        /\ \A s \in forgotten : s \in Nat /\ s <= sessions
    BY Parts, KeyIs DEF IInv, SessionsInStep
  <2>3. run'.session <= sessions'
    BY <1>2
  <2>4. Keeps'
    BY <1>1 DEF Keeps
  <2> QED
    BY <1>1, <2>1, <2>2, <2>3, <2>4 DEF IInv, SessionsInStep
<1>5. OwnersInStep'
  <2>1. ASSUME NEW s \in 1..sessions PROVE Owned(s)'
    <3>1. s # run'.session /\ s # run.session /\ s # NoSession
      BY <1>1, <1>2 DEF NoSession
    <3> QED
      BY <1>1, <3>1 DEF IInv, OwnersInStep, Owned, Kept
  <2>2. ~Kept(sessions') /\ sessions' \notin forgotten
    <3>1. \A k \in Keys : contexts[k].session <= sessions /\ contexts[k].session \in Nat
      BY Parts, KeyIs DEF IInv, SessionsInStep
    <3>2. \A s \in forgotten : s <= sessions
      BY DEF IInv, SessionsInStep
    <3> QED
      BY <1>1, <1>2, <3>1, <3>2 DEF Kept
  <2>3. ASSUME NEW s, s = sessions' PROVE Owned(s)'
    BY <1>1, <1>2, <2>2, <2>3 DEF Owned, Kept
  <2>4. \A s \in 1..sessions' : s \in 1..sessions \/ s = sessions'
    BY <1>1, <1>2
  <2> QED
    BY <2>1, <2>3, <2>4 DEF OwnersInStep
<1>6. MainInStep' /\ StepsInStep' /\ StepsTellTheOutcome'
  BY <1>1, <1>2, RunChanges
<1> QED
  BY <1>3, <1>4, <1>5, <1>6 DEF IInv

(* The delegate's session is deleted, and it has none. *)
LEMMA RunLosesSession ==
  ASSUME IInv, UNCHANGED <<contexts, sessions>>, Forgets({run.session}), run'.session = NoSession
  PROVE  SessionsInStep' /\ OwnersInStep' /\ forgotten' \subseteq 1..MaxSessions
<1>1. run.session \in 0..MaxSessions /\ sessions \in 0..MaxSessions
      /\ forgotten' = forgotten \cup ({run.session} \ {NoSession})
  BY Parts DEF Forgets
<1>2. SessionsInStep'
  <2>1. \A s \in forgotten' : s <= sessions
    BY <1>1 DEF IInv, SessionsInStep
  <2>2. run'.session <= sessions
    BY <1>1 DEF NoSession
  <2> QED
    BY <2>1, <2>2 DEF IInv, SessionsInStep
<1>3. OwnersInStep'
  <2>1. ASSUME NEW s \in 1..sessions PROVE Owned(s)'
    <3>1. s # NoSession
      BY DEF NoSession
    <3> QED
      BY <3>1, RunForgotten DEF IInv, OwnersInStep
  <2> QED
    BY <2>1 DEF OwnersInStep
<1>4. forgotten' \subseteq 1..MaxSessions
  BY <1>1, Parts DEF NoSession
<1> QED
  BY <1>2, <1>3, <1>4

LEMMA SessionMissingKeeps ==
  ASSUME IInv, SessionMissing
  PROVE  IInv'
<1>1. /\ UNCHANGED <<phase, conversation, main, delegate, delegation, failing, delegations, told,
                     turns, calls, tool, steps, sessions, contexts>>
      /\ main = "delegating" /\ Forgets({run.session})
      /\ run' = [run EXCEPT !.session = NoSession, !.resumes = FALSE]
  BY DEF SessionMissing, Delegating, mainVars
<1>2. run' \in RunType /\ run'.session = NoSession /\ run'.inTool = run.inTool
  <2>1. run \in RunType /\ NoSession \in 0..MaxSessions
    BY Parts, Bounds DEF NoSession
  <2> QED
    BY <1>1, <2>1 DEF RunType
<1>3. SessionsInStep' /\ OwnersInStep' /\ forgotten' \subseteq 1..MaxSessions
  BY <1>1, <1>2, RunLosesSession
<1>4. MainInStep' /\ StepsInStep' /\ StepsTellTheOutcome'
  BY <1>1, <1>2, RunChanges
<1>5. TypeOK'
  BY <1>1, <1>2, <1>3, Parts, Retyped
<1> QED
  BY <1>3, <1>4, <1>5 DEF IInv

LEMMA DelegateCallsToolKeeps ==
  ASSUME IInv, DelegateCallsTool
  PROVE  IInv'
<1>1. /\ UNCHANGED <<phase, conversation, main, delegate, delegation, failing, delegations, told,
                     turns, calls, sessions, contexts, forgotten>>
      /\ main = "delegating" /\ ~run.inTool /\ run.rounds < MaxToolRounds
      /\ run' = [run EXCEPT !.inTool = TRUE, !.rounds = @ + 1]
      /\ steps' = Opens /\ tool' = Len(steps) + 1
  BY DEF DelegateCallsTool, Delegating, mainVars, contextVars
<1>2. run' \in RunType /\ run'.session = run.session /\ run'.inTool = TRUE
  <2>1. run \in RunType /\ run.rounds \in 0..MaxToolRounds
    BY Parts, RunIs
  <2>2. run.rounds + 1 \in 0..MaxToolRounds
    BY <1>1, <2>1, Bounds
  <2> QED
    BY <1>1, <2>1, <2>2 DEF RunType
<1>3. /\ steps' \in Seq(StepType) /\ Len(steps') = Len(steps) + 1 /\ Len(steps) \in Nat
      /\ DOMAIN steps = 1..Len(steps) /\ DOMAIN steps' = 1..Len(steps) + 1
      /\ \A i \in DOMAIN steps : steps'[i] = steps[i]
      /\ steps'[Len(steps) + 1].status = "Running" /\ steps'[Len(steps) + 1].outcome = "none"
  BY <1>1, OpensIs DEF IInv
<1>4. /\ MainInStep' /\ delegation # 0 /\ delegation \in DOMAIN steps
      /\ steps[delegation].status = "Running"
  BY <1>1, MainWaits
<1>5. StepsInStep'
  BY <1>1, <1>2, <1>3, <1>4 DEF IInv, StepsInStep
<1>6. StepsTellTheOutcome'
  BY <1>1, <1>3 DEF IInv, StepsTellTheOutcome
<1>7. TypeOK'
  <2>1. {delegation', tool'} \subseteq 0..Len(steps')
    BY <1>1, <1>3, Parts
  <2> QED
    BY <1>1, <1>2, <1>3, <2>1, Parts, StillTyped
<1>8. SessionsInStep' /\ OwnersInStep'
  BY <1>1, <1>2, NoSessionMoves
<1> QED
  BY <1>4, <1>5, <1>6, <1>7, <1>8 DEF IInv

LEMMA DelegateToolDoneKeeps ==
  ASSUME IInv, DelegateToolDone
  PROVE  IInv'
<1>1. /\ UNCHANGED <<phase, conversation, main, delegate, delegation, failing, delegations, told,
                     turns, calls, sessions, contexts, forgotten>>
      /\ main = "delegating" /\ run.inTool /\ run' = [run EXCEPT !.inTool = FALSE]
      /\ steps' = Close(steps, tool, "Ok") /\ tool' = 0
  BY DEF DelegateToolDone, mainVars, contextVars
<1>2. run' \in RunType /\ run'.session = run.session /\ run'.inTool = FALSE
  BY <1>1, Parts DEF RunType
<1>3. tool # 0 /\ delegation < tool /\ steps[tool].outcome = "none"
  BY <1>1 DEF IInv, StepsInStep
<1>4. /\ steps' \in Seq(StepType) /\ Len(steps') = Len(steps) /\ DOMAIN steps' = DOMAIN steps
      /\ \A i \in DOMAIN steps : i # tool => steps'[i] = steps[i]
      /\ \A i \in DOMAIN steps : steps'[i].outcome = steps[i].outcome
      /\ steps'[tool].status = "Ok"
  <2>1. "Ok" \in Statuses /\ steps \in Seq(StepType) /\ tool \in 0..Len(steps)
    BY Parts DEF Statuses
  <2> QED
    BY <1>1, <1>3, <2>1, CloseIs
<1>5. /\ MainInStep' /\ delegation # 0 /\ delegation \in DOMAIN steps
      /\ steps[delegation].status = "Running"
  BY <1>1, MainWaits
<1>6. StepsInStep'
  <2>1. delegation # tool
    BY <1>3, Parts
  <2> QED
    BY <1>1, <1>2, <1>4, <1>5, <2>1 DEF IInv, StepsInStep
<1>7. StepsTellTheOutcome'
  <2>1. SUFFICES ASSUME NEW i \in DOMAIN steps
                 PROVE  /\ steps'[i].status = "Ok" => steps'[i].outcome # "failure"
                        /\ steps'[i].status = "Failed" /\ phase = "running" => steps'[i].outcome # "report"
    BY <1>1, <1>4 DEF StepsTellTheOutcome
  <2>2. CASE i = tool
    BY <1>3, <1>4, <2>2
  <2>3. CASE i # tool
    BY <1>4, <2>3 DEF IInv, StepsTellTheOutcome
  <2> QED
    BY <2>2, <2>3
<1>8. TypeOK'
  <2>1. {delegation', tool'} \subseteq 0..Len(steps')
    BY <1>1, <1>4, Parts
  <2> QED
    BY <1>1, <1>2, <1>4, <2>1, Parts, StillTyped
<1>9. SessionsInStep' /\ OwnersInStep'
  BY <1>1, <1>2, NoSessionMoves
<1> QED
  BY <1>5, <1>6, <1>7, <1>8, <1>9 DEF IInv

LEMMA FollowUpKeeps ==
  ASSUME IInv, FollowUp
  PROVE  IInv'
<1>1. /\ UNCHANGED <<phase, conversation, main, delegate, delegation, failing, delegations, told,
                     turns, calls, tool, steps, sessions, contexts, forgotten>>
      /\ main = "delegating" /\ ~run.inTool /\ run.followUps < MaxFollowUps
      /\ run' = Request("task", SessionFor(run.session), run.followUps + 1)
  BY DEF FollowUp, Delegating, mainVars, contextVars
<1>2. SessionFor(run.session) = run.session /\ run.session \in 0..MaxSessions
  BY Parts DEF IInv, SessionsInStep, SessionFor
<1>3. run.followUps + 1 \in 0..MaxFollowUps
  BY <1>1, Parts, RunIs, Bounds
<1>4. run' \in RunType /\ run'.session = run.session /\ run'.inTool = run.inTool
  BY <1>1, <1>2, <1>3, Parts, RunIs, RequestIs
<1>5. MainInStep' /\ StepsInStep' /\ StepsTellTheOutcome'
  BY <1>1, <1>4, RunChanges
<1>6. TypeOK'
  BY <1>1, <1>4, Parts, StillTyped
<1>7. SessionsInStep' /\ OwnersInStep'
  BY <1>1, <1>4, NoSessionMoves
<1> QED
  BY <1>5, <1>6, <1>7 DEF IInv

LEMMA RestartKeeps ==
  ASSUME IInv, Restart
  PROVE  IInv'
<1>1. /\ UNCHANGED <<phase, conversation, main, delegate, delegation, failing, delegations, told,
                     turns, calls, tool, steps, sessions, contexts>>
      /\ main = "delegating" /\ ~run.inTool /\ Forgets({run.session})
      /\ run' = Request("task", NoSession, run.followUps)
  BY DEF Restart, Delegating, mainVars, ForgetsRun
<1>2. run' \in RunType /\ run'.session = NoSession /\ run'.inTool = run.inTool
  <2>1. NoSession \in 0..MaxSessions /\ run.followUps \in 0..MaxFollowUps
    BY Parts, RunIs, Bounds DEF NoSession
  <2> QED
    BY <1>1, <2>1, Parts, RunIs, RequestIs
<1>3. SessionsInStep' /\ OwnersInStep' /\ forgotten' \subseteq 1..MaxSessions
  BY <1>1, <1>2, RunLosesSession
<1>4. MainInStep' /\ StepsInStep' /\ StepsTellTheOutcome'
  BY <1>1, <1>2, RunChanges
<1>5. TypeOK'
  BY <1>1, <1>2, <1>3, Parts, Retyped
<1> QED
  BY <1>3, <1>4, <1>5 DEF IInv

(* The delegate failed, or could not start again: its session is deleted. *)
LEMMA DelegateFailsKeeps ==
  ASSUME IInv, DelegateFails \/ RestartUnavailable
  PROVE  IInv'
<1>1. /\ UNCHANGED <<phase, conversation, delegate, delegation, tool, delegations, told, turns,
                     calls, sessions, contexts>>
      /\ main = "delegating" /\ ~run.inTool /\ Forgets({run.session}) /\ run' = NoRun
      /\ ReportsFailure
  BY DEF DelegateFails, RestartUnavailable, Delegating, ForgetsRun
<1>2. \A a \in Agents : delegations'[a] <= calls'
  BY <1>1 DEF IInv, MainInStep
<1>3. /\ steps' \in Seq(StepType) /\ {delegation', tool'} \subseteq 0..Len(steps')
      /\ main' = "finishing" /\ failing' \in BOOLEAN
      /\ MainInStep' /\ StepsInStep' /\ StepsTellTheOutcome'
  BY <1>1, <1>2, Parts, ReportIs
<1>4. SessionsInStep' /\ OwnersInStep' /\ forgotten' \subseteq 1..MaxSessions
  BY <1>1, NoRunIs, RunLosesSession
<1>5. TypeOK'
  BY <1>1, <1>3, <1>4, NoRunIs, Parts, Retyped
<1> QED
  BY <1>3, <1>4, <1>5 DEF IInv

LEMMA CancelKeeps ==
  ASSUME IInv, Cancel
  PROVE  IInv'
<1>1. /\ UNCHANGED <<contexts, conversation, delegate, failing, delegations, told, turns, calls,
                     sessions>>
      /\ main \in {"queued", "model", "delegating"} /\ phase' = "cancelled" /\ main' = "done"
      /\ Forgets({run.session}) /\ run' = NoRun /\ StepsFail
  BY DEF Cancel
<1>2. /\ steps' \in Seq(StepType) /\ Len(steps') = Len(steps) /\ StepsTellTheOutcome'
      /\ delegation' = 0 /\ tool' = 0
  BY <1>1, StepsFailIs
<1>3. MainInStep' /\ StepsInStep'
  BY <1>1, <1>2, NoRunIs DEF IInv, MainInStep, StepsInStep
<1>4. SessionsInStep' /\ OwnersInStep' /\ forgotten' \subseteq 1..MaxSessions
  BY <1>1, NoRunIs, RunLosesSession
<1>5. TypeOK'
  <2>1. {delegation', tool'} \subseteq 0..Len(steps')
    BY <1>2, Parts
  <2> QED
    BY <1>1, <1>2, <1>4, <2>1, NoRunIs, Parts, Retyped
<1> QED
  BY <1>2, <1>3, <1>4, <1>5 DEF IInv

-----------------------------------------------------------------------------
(* Steps that move contexts.                                               *)

(* Contexts that are dropped have their sessions deleted. *)
LEMMA ContextsGone ==
  ASSUME IInv, NEW gone \in SUBSET Keys,
         contexts' = [k \in Keys |-> IF k \in gone THEN NoContext ELSE contexts[k]],
         Forgets({contexts[k].session : k \in gone}),
         sessions' = sessions, run'.session = run.session,
         run.session # NoSession => delegate' = delegate
  PROVE  /\ SessionsInStep' /\ OwnersInStep'
         /\ contexts' \in [Keys -> ContextType] /\ forgotten' \subseteq 1..MaxSessions
<1>1. /\ contexts \in [Keys -> ContextType] /\ forgotten \subseteq 1..MaxSessions
      /\ sessions \in 0..MaxSessions
      /\ \A k \in Keys : contexts[k].session \in 0..MaxSessions /\ contexts[k].session <= sessions
  BY Parts, KeyIs DEF IInv, SessionsInStep
<1>2. /\ contexts' \in [Keys -> ContextType]
      /\ \A k \in Keys : contexts'[k] = IF k \in gone THEN NoContext ELSE contexts[k]
  BY <1>1, ContextIs
<1>3. \A k \in Keys : contexts'[k].session = IF k \in gone THEN NoSession ELSE contexts[k].session
  BY <1>2, ContextIs
<1>4. forgotten' = forgotten \cup ({contexts[k].session : k \in gone} \ {NoSession})
  BY DEF Forgets
<1>5. forgotten' \subseteq 1..MaxSessions /\ \A s \in forgotten' : s <= sessions
  <2>1. ASSUME NEW s \in forgotten' PROVE s \in 1..MaxSessions /\ s <= sessions
    <3>1. CASE s \in forgotten
      BY <1>1, <3>1 DEF IInv, SessionsInStep
    <3>2. CASE s # NoSession /\ \E k \in gone : s = contexts[k].session
      BY <1>1, <3>2 DEF NoSession
    <3> QED
      BY <1>4, <3>1, <3>2
  <2> QED
    BY <2>1
<1>6. SessionsInStep'
  <2>1. ASSUME NEW k \in Keys
        PROVE  /\ contexts'[k].session <= sessions
               /\ ~contexts'[k].kept => contexts'[k].session = NoSession
               /\ contexts'[k].kept => k[2] \in Keepers
    <3>1. CASE k \in gone
      <4>1. contexts'[k] = NoContext
        BY <1>2, <3>1
      <4> QED
        BY <1>1, <4>1, ContextIs DEF NoSession
    <3>2. CASE k \notin gone
      BY <1>2, <3>2 DEF IInv, SessionsInStep
    <3> QED
      BY <3>1, <3>2
  <2>2. run'.session # NoSession => Keeps'
    BY DEF IInv, SessionsInStep, Keeps
  <2>3. run'.session <= sessions'
    BY DEF IInv, SessionsInStep
  <2> QED
    BY <1>5, <2>1, <2>2, <2>3 DEF SessionsInStep
<1>7. OwnersInStep'
  <2>1. ASSUME NEW s \in 1..sessions PROVE Owned(s)'
    <3>1. s # NoSession
      BY DEF NoSession
    <3> QED
      BY <1>3, <3>1, KeysForgotten DEF IInv, OwnersInStep
  <2> QED
    BY <2>1 DEF OwnersInStep
<1> QED
  BY <1>2, <1>5, <1>6, <1>7

(* What take() does not return is gone. *)
LEMMA TakenIsGone ==
  ASSUME IInv, main = "starting", ~Usable(Taken), Takes, contexts' = Without(Key),
         sessions' = sessions, run'.session = NoSession
  PROVE  /\ SessionsInStep' /\ OwnersInStep'
         /\ contexts' \in [Keys -> ContextType] /\ forgotten' \subseteq 1..MaxSessions
<1>1. PICK key \in Keys : key = Key
  BY KeyIs DEF IInv
<1>2. contexts \in [Keys -> ContextType] /\ run.session = NoSession
  BY NoDelegate, Parts
<1>3. contexts' = [k \in Keys |-> IF k \in {key} THEN NoContext ELSE contexts[k]]
  BY <1>1, <1>2 DEF Without
<1>4. Forgets({contexts[k].session : k \in {key}})
  BY <1>1 DEF Takes, Taken
<1> QED
  BY <1>2, <1>3, <1>4, ContextsGone

LEMMA DelegateUnavailableKeeps ==
  ASSUME IInv, DelegateUnavailable
  PROVE  IInv'
<1>1. /\ UNCHANGED <<phase, conversation, delegate, run, delegation, tool, told, turns, calls,
                     sessions>>
      /\ main = "starting" /\ delegations' = Counted /\ Takes /\ ReportsFailure
      /\ contexts' = IF Usable(Taken) THEN contexts ELSE Without(Key)
  BY DEF DelegateUnavailable
<1>2. run = NoRun /\ ~run.inTool /\ run.session = NoSession
  BY <1>1, NoDelegate
<1>3. delegations' \in [Agents -> 0..MaxCalls] /\ \A a \in Agents : delegations'[a] <= calls'
  BY <1>1, CountedIs
<1>4. /\ steps' \in Seq(StepType) /\ {delegation', tool'} \subseteq 0..Len(steps')
      /\ main' = "finishing" /\ failing' \in BOOLEAN
      /\ MainInStep' /\ StepsInStep' /\ StepsTellTheOutcome'
  BY <1>1, <1>2, <1>3, ReportIs
<1>5. /\ SessionsInStep' /\ OwnersInStep'
      /\ contexts' \in [Keys -> ContextType] /\ forgotten' \subseteq 1..MaxSessions
  <2>1. CASE Usable(Taken)
    <3>1. contexts' = contexts /\ forgotten' = forgotten
      BY <1>1, <2>1 DEF Takes, Forgets
    <3> QED
      BY <1>1, <3>1, NoSessionMoves, Parts
  <2>2. CASE ~Usable(Taken)
    BY <1>1, <1>2, <2>2, TakenIsGone
  <2> QED
    BY <2>1, <2>2
<1>6. TypeOK'
  BY <1>1, <1>3, <1>4, <1>5, Parts, Retyped
<1> QED
  BY <1>4, <1>5, <1>6 DEF IInv

LEMMA DelegateKeeps ==
  ASSUME IInv, Delegate
  PROVE  IInv'
<1>1. /\ UNCHANGED <<phase, conversation, delegate, delegation, tool, failing, told, steps, turns,
                     calls, sessions>>
      /\ main = "starting" /\ main' = "delegating" /\ delegations' = Counted /\ Takes
      /\ contexts' = Without(Key)
      /\ run' = IF Usable(Taken)
                THEN Request(IF Taken.large THEN "compaction" ELSE "task", Taken.session, 0)
                ELSE Request("task", NoSession, 0)
  BY DEF Delegate
<1>2. /\ run = NoRun /\ run.session = NoSession /\ tool = 0 /\ phase = "running"
      /\ delegation # 0 /\ steps[delegation].status = "Running" /\ ~failing
  BY <1>1, NoDelegate DEF IInv, MainInStep, StepsInStep
<1>3. delegations' \in [Agents -> 0..MaxCalls] /\ \A a \in Agents : delegations'[a] <= calls'
  BY <1>1, CountedIs
<1>4. PICK key \in Keys : key = Key /\ key[2] = delegate
  BY KeyIs DEF IInv
<1>5. /\ Taken = contexts[key] /\ Taken.session \in 0..MaxSessions /\ NoSession \in 0..MaxSessions
      /\ 0 \in 0..MaxFollowUps
  BY <1>4, KeyIs, Bounds DEF IInv, Taken, NoSession
<1>6. run' \in RunType /\ run'.inTool = FALSE
      /\ run'.session = IF Usable(Taken) THEN Taken.session ELSE NoSession
  BY <1>1, <1>5, RequestIs
<1>7. MainInStep' /\ StepsInStep' /\ StepsTellTheOutcome'
  <2>1. MainInStep'
    BY <1>1, <1>2, <1>3 DEF MainInStep
  <2>2. StepsInStep'
    BY <1>1, <1>2, <1>6 DEF StepsInStep
  <2>3. StepsTellTheOutcome'
    BY <1>1 DEF IInv, StepsTellTheOutcome
  <2> QED
    BY <2>1, <2>2, <2>3
<1>8. /\ SessionsInStep' /\ OwnersInStep'
      /\ contexts' \in [Keys -> ContextType] /\ forgotten' \subseteq 1..MaxSessions
  <2>1. CASE Usable(Taken)
    <3>1. forgotten' = forgotten /\ Taken.kept /\ run'.session = contexts[key].session
      BY <1>1, <1>5, <1>6, <2>1 DEF Takes, Forgets, Usable
    <3>2. /\ contexts' \in [Keys -> ContextType] /\ contexts'[key] = NoContext
          /\ \A k \in Keys : k # key => contexts'[k] = contexts[k]
          /\ \A k \in Keys : contexts'[k].session = IF k = key THEN NoSession ELSE contexts[k].session
      BY <1>1, <1>4, ContextIs, Rekeyed DEF Without, IInv
    <3>3. SessionsInStep'
      <4>1. ASSUME NEW k \in Keys
            PROVE  /\ contexts'[k].session <= sessions
                   /\ ~contexts'[k].kept => contexts'[k].session = NoSession
                   /\ contexts'[k].kept => k[2] \in Keepers
        <5>1. CASE k = key
          BY <3>2, <5>1, ContextIs, Parts DEF NoSession
        <5>2. CASE k # key
          BY <3>2, <5>2 DEF IInv, SessionsInStep
        <5> QED
          BY <5>1, <5>2
      <4>2. Keeps' /\ run'.session <= sessions'
        BY <1>1, <1>4, <1>5, <3>1 DEF IInv, SessionsInStep, Keeps
      <4> QED
        BY <1>1, <3>1, <4>1, <4>2 DEF IInv, SessionsInStep
    <3>4. OwnersInStep'
      <4>1. ASSUME NEW s \in 1..sessions PROVE Owned(s)'
        <5>1. s # NoSession
          BY DEF NoSession
        <5> QED
          BY <1>2, <3>1, <3>2, <5>1, KeyTaken DEF IInv, OwnersInStep
      <4> QED
        BY <1>1, <4>1 DEF OwnersInStep
    <3> QED
      BY <3>1, <3>2, <3>3, <3>4, Parts
  <2>2. CASE ~Usable(Taken)
    BY <1>1, <1>6, <2>2, TakenIsGone
  <2> QED
    BY <2>1, <2>2
<1>9. TypeOK'
  <2>1. {delegation', tool'} \subseteq 0..Len(steps')
    BY <1>1, Parts
  <2> QED
    BY <1>1, <1>3, <1>6, <1>8, <2>1, Parts, Retyped
<1> QED
  BY <1>7, <1>8, <1>9 DEF IInv

LEMMA DelegateReportsKeeps ==
  ASSUME IInv, DelegateReports
  PROVE  IInv'
<1>1. /\ UNCHANGED <<phase, conversation, delegate, delegation, tool, delegations, told, turns,
                     calls, sessions>>
      /\ main = "delegating" /\ ~run.inTool /\ run' = NoRun /\ Reports
      /\ Forgets(IF Keeps THEN {contexts[Key].session} ELSE {})
  BY DEF DelegateReports, Delegating
<1>2. PICK large \in BOOLEAN :
        contexts' = IF Keeps THEN With(Key, Context(run.session, large)) ELSE contexts
  BY DEF DelegateReports, KeepContext
<1>3. \A a \in Agents : delegations'[a] <= calls'
  BY <1>1 DEF IInv, MainInStep
<1>4. /\ steps' \in Seq(StepType) /\ {delegation', tool'} \subseteq 0..Len(steps')
      /\ main' = "finishing" /\ failing' \in BOOLEAN
      /\ MainInStep' /\ StepsInStep' /\ StepsTellTheOutcome'
  BY <1>1, <1>3, Parts, ReportIs
<1>5. run'.session = NoSession /\ run' \in RunType
  BY <1>1, NoRunIs
<1>6. /\ SessionsInStep' /\ OwnersInStep'
      /\ contexts' \in [Keys -> ContextType] /\ forgotten' \subseteq 1..MaxSessions
  <2>1. CASE Keeps
    <3>1. PICK key \in Keys : key = Key /\ key[2] = delegate
      BY KeyIs DEF IInv
    <3>2. PICK c \in ContextType : /\ c = Context(run.session, large)
                                   /\ c.kept /\ c.session = run.session
      BY Parts, ContextIs
    <3>3. Forgets({contexts[key].session}) /\ contexts' = [contexts EXCEPT ![key] = c]
      BY <1>1, <1>2, <2>1, <3>1, <3>2 DEF With
    <3>4. /\ contexts' \in [Keys -> ContextType] /\ contexts'[key] = c
          /\ \A k \in Keys : k # key => contexts'[k] = contexts[k]
          /\ \A k \in Keys : contexts'[k].session = IF k = key THEN run.session ELSE contexts[k].session
      BY <3>2, <3>3, Rekeyed DEF IInv
    <3>5. forgotten' = forgotten \cup ({contexts[key].session} \ {NoSession})
      BY <3>3 DEF Forgets
    <3>6. /\ contexts[key].session \in 0..MaxSessions /\ contexts[key].session <= sessions
          /\ run.session <= sessions /\ delegate \in Keepers
      BY <2>1, KeyIs DEF IInv, SessionsInStep, Keeps
    <3>7. forgotten' \subseteq 1..MaxSessions /\ \A s \in forgotten' : s <= sessions
      BY <3>5, <3>6, Parts DEF IInv, SessionsInStep, NoSession
    <3>8. SessionsInStep'
      <4>1. ASSUME NEW k \in Keys
            PROVE  /\ contexts'[k].session <= sessions
                   /\ ~contexts'[k].kept => contexts'[k].session = NoSession
                   /\ contexts'[k].kept => k[2] \in Keepers
        <5>1. CASE k = key
          BY <3>1, <3>2, <3>4, <3>6, <5>1
        <5>2. CASE k # key
          BY <3>4, <5>2 DEF IInv, SessionsInStep
        <5> QED
          BY <5>1, <5>2
      <4>2. run'.session <= sessions'
        BY <1>1, <1>5, Parts DEF NoSession
      <4> QED
        BY <1>1, <1>5, <3>7, <4>1, <4>2 DEF SessionsInStep
    <3>9. OwnersInStep'
      <4>1. ASSUME NEW s \in 1..sessions PROVE Owned(s)'
        <5>1. s # NoSession
          BY DEF NoSession
        <5> QED
          BY <1>5, <3>3, <3>4, <5>1, RunKept DEF IInv, OwnersInStep
      <4> QED
        BY <1>1, <4>1 DEF OwnersInStep
    <3> QED
      BY <3>4, <3>7, <3>8, <3>9
  <2>2. CASE ~Keeps
    <3>1. contexts' = contexts /\ forgotten' = forgotten /\ run.session = NoSession
      BY <1>1, <1>2, <2>2 DEF Forgets, IInv, SessionsInStep
    <3> QED
      BY <1>1, <1>5, <3>1, NoSessionMoves, Parts
  <2> QED
    BY <2>1, <2>2
<1>7. TypeOK'
  BY <1>1, <1>4, <1>5, <1>6, Parts, Retyped
<1> QED
  BY <1>4, <1>6, <1>7 DEF IInv

(* A step that touches the contexts only. *)
LEMMA TurnStays ==
  ASSUME IInv, UNCHANGED turnVars
  PROVE  /\ UNCHANGED <<phase, conversation, main, delegate, run, delegation, tool, failing,
                        delegations, told, steps, turns, calls, sessions>>
         /\ MainInStep' /\ StepsInStep' /\ StepsTellTheOutcome'
<1>1. UNCHANGED <<phase, conversation, main, delegate, run, delegation, tool, failing,
                  delegations, told, steps, turns, calls, sessions>>
  BY DEF turnVars
<1> QED
  BY <1>1 DEF IInv, MainInStep, StepsInStep, StepsTellTheOutcome

LEMMA ForgetKeeps ==
  ASSUME IInv, NEW which, ForgetConversations(which), UNCHANGED turnVars
  PROVE  IInv'
<1> DEFINE gone == {k \in Keys : k[1] \in which}
<1>1. /\ UNCHANGED <<phase, conversation, main, delegate, run, delegation, tool, failing,
                     delegations, told, steps, turns, calls, sessions>>
      /\ MainInStep' /\ StepsInStep' /\ StepsTellTheOutcome'
  BY TurnStays
<1>2. /\ gone \in SUBSET Keys
      /\ contexts' = [k \in Keys |-> IF k \in gone THEN NoContext ELSE contexts[k]]
      /\ Forgets({contexts[k].session : k \in gone})
  BY DEF ForgetConversations
<1> HIDE DEF gone
<1>3. /\ SessionsInStep' /\ OwnersInStep'
      /\ contexts' \in [Keys -> ContextType] /\ forgotten' \subseteq 1..MaxSessions
  BY <1>1, <1>2, ContextsGone
<1>4. TypeOK'
  <2>1. {delegation', tool'} \subseteq 0..Len(steps')
    BY <1>1, Parts
  <2> QED
    BY <1>1, <1>3, <2>1, Parts, Retyped
<1> QED
  BY <1>1, <1>3, <1>4 DEF IInv

LEMMA TimePassesKeeps ==
  ASSUME IInv, NEW key \in Keys, TimePasses(key)
  PROVE  IInv'
<1>1. /\ UNCHANGED <<phase, conversation, main, delegate, run, delegation, tool, failing,
                     delegations, told, steps, turns, calls, sessions, forgotten>>
      /\ MainInStep' /\ StepsInStep' /\ StepsTellTheOutcome'
      /\ contexts' = [contexts EXCEPT ![key].old = TRUE]
  BY TurnStays DEF TimePasses, Ages
<1>2. PICK c \in ContextType : /\ contexts' = [contexts EXCEPT ![key] = c]
                               /\ c.session = contexts[key].session /\ c.kept = contexts[key].kept
  <2>1. contexts[key] \in ContextType
    BY KeyIs DEF IInv
  <2>2. [contexts[key] EXCEPT !.old = TRUE] \in ContextType
        /\ [contexts[key] EXCEPT !.old = TRUE].session = contexts[key].session
        /\ [contexts[key] EXCEPT !.old = TRUE].kept = contexts[key].kept
    BY <2>1 DEF ContextType
  <2> QED
    BY <1>1, <2>2
<1>3. /\ contexts' \in [Keys -> ContextType]
      /\ \A k \in Keys : contexts'[k].session = contexts[k].session
                         /\ contexts'[k].kept = contexts[k].kept
  BY <1>2, Rekeyed DEF IInv
<1>4. SessionsInStep'
  BY <1>1, <1>3 DEF IInv, SessionsInStep, Keeps
<1>5. OwnersInStep'
  BY <1>1, <1>3 DEF IInv, OwnersInStep, Owned, Kept
<1>6. TypeOK'
  <2>1. {delegation', tool'} \subseteq 0..Len(steps')
    BY <1>1, Parts
  <2> QED
    BY <1>1, <1>3, <2>1, Parts, Retyped
<1> QED
  BY <1>1, <1>4, <1>5, <1>6 DEF IInv

-----------------------------------------------------------------------------
(* The invariant holds. *)

LEMMA InitHolds == Init => IInv
<1> SUFFICES ASSUME Init PROVE IInv
  OBVIOUS
<1>1. /\ phase = "idle" /\ conversation \in Conversations /\ main = "done" /\ delegate \in Agents
      /\ run = NoRun /\ delegation = 0 /\ tool = 0 /\ failing = FALSE
      /\ delegations = [a \in Agents |-> 0] /\ told = FALSE /\ steps = << >>
      /\ turns = 0 /\ calls = 0 /\ sessions = 0
      /\ contexts = [k \in Keys |-> NoContext] /\ forgotten = {}
  BY DEF Init, ContextsInit
<1>2. run \in RunType /\ run.session = NoSession /\ run.inTool = FALSE
  BY <1>1, NoRunIs
<1>3. /\ contexts \in [Keys -> ContextType]
      /\ \A k \in Keys : contexts[k].session = NoSession /\ ~contexts[k].kept
  BY <1>1, ContextIs
<1>4. steps \in Seq(StepType) /\ DOMAIN steps = {} /\ Len(steps) = 0
  BY <1>1
<1>5. delegations \in [Agents -> 0..MaxCalls] /\ \A a \in Agents : delegations[a] = 0
  BY <1>1, Bounds
<1>6. TypeOK
  <2>1. turns \in 0..MaxTurns /\ calls \in 0..MaxCalls /\ sessions \in 0..MaxSessions
    BY <1>1, Bounds
  <2>2. {delegation, tool} \subseteq 0..Len(steps)
    BY <1>1, <1>4
  <2> QED
    BY <1>1, <1>2, <1>3, <1>4, <1>5, <2>1, <2>2 DEF TypeOK, RunType, ContextType, StepType
<1>7. MainInStep
  BY <1>1, <1>5 DEF MainInStep
<1>8. StepsInStep
  BY <1>1, <1>2 DEF StepsInStep
<1>9. SessionsInStep
  BY <1>1, <1>2, <1>3 DEF SessionsInStep, NoSession
<1>10. OwnersInStep /\ StepsTellTheOutcome
  BY <1>1, <1>4 DEF OwnersInStep, StepsTellTheOutcome
<1> QED
  BY <1>6, <1>7, <1>8, <1>9, <1>10 DEF IInv

LEMMA StutterKeeps ==
  ASSUME IInv, UNCHANGED vars
  PROVE  IInv'
<1>1. UNCHANGED turnVars /\ UNCHANGED <<contexts, forgotten>>
  BY DEF vars, contextVars
<1>2. /\ UNCHANGED <<phase, conversation, main, delegate, run, delegation, tool, failing,
                     delegations, told, steps, turns, calls, sessions>>
      /\ MainInStep' /\ StepsInStep' /\ StepsTellTheOutcome'
  BY <1>1, TurnStays
<1>3. SessionsInStep' /\ OwnersInStep'
  BY <1>1, <1>2, NoSessionMoves
<1>4. TypeOK'
  BY <1>1, <1>2 DEF IInv, TypeOK
<1> QED
  BY <1>2, <1>3, <1>4 DEF IInv

LEMMA ProgressKeeps == ASSUME IInv, Progress PROVE IInv'
<1>1. CASE Ask \/ AskAgain
  BY <1>1, AskKeeps
<1>2. CASE DelegationFinished
  BY <1>2, DelegationFinishedKeeps
<1>3. CASE Succeed
  BY <1>3, SucceedKeeps
<1>4. CASE Fail
  BY <1>4, FailKeeps
<1>5. CASE \E a \in Agents : CallAgent(a)
  BY <1>5, CallAgentKeeps
<1>6. CASE PastCeiling
  BY <1>6, PastCeilingKeeps
<1>7. CASE DelegateUnavailable
  BY <1>7, DelegateUnavailableKeeps
<1>8. CASE Delegate
  BY <1>8, DelegateKeeps
<1>9. CASE SessionStarts
  BY <1>9, SessionStartsKeeps
<1>10. CASE SessionMissing
  BY <1>10, SessionMissingKeeps
<1>11. CASE DelegateCallsTool
  BY <1>11, DelegateCallsToolKeeps
<1>12. CASE DelegateToolDone
  BY <1>12, DelegateToolDoneKeeps
<1>13. CASE FollowUp
  BY <1>13, FollowUpKeeps
<1>14. CASE DelegateReports
  BY <1>14, DelegateReportsKeeps
<1>15. CASE DelegateFails \/ RestartUnavailable
  BY <1>15, DelegateFailsKeeps
<1>16. CASE Restart
  BY <1>16, RestartKeeps
<1> QED
  BY <1>1, <1>2, <1>3, <1>4, <1>5, <1>6, <1>7, <1>8, <1>9, <1>10, <1>11, <1>12, <1>13, <1>14,
     <1>15, <1>16 DEF Progress

LEMMA NextKeeps == IInv /\ [Next]_vars => IInv'
<1> SUFFICES ASSUME IInv, [Next]_vars PROVE IInv'
  OBVIOUS
<1>1. CASE UNCHANGED vars
  BY <1>1, StutterKeeps
<1>2. CASE Progress
  BY <1>2, ProgressKeeps
<1>3. CASE Cancel
  BY <1>3, CancelKeeps
<1>4. CASE CloseChat
  BY <1>4, ForgetKeeps DEF CloseChat
<1>5. CASE \E c \in Conversations : Start(c)
  BY <1>5, StartKeeps
<1>6. CASE \E c \in Conversations : ForgetConversation(c)
  BY <1>6, ForgetKeeps DEF ForgetConversation
<1>7. CASE \E key \in Keys : TimePasses(key)
  BY <1>7, TimePassesKeeps
<1> QED
  BY <1>1, <1>2, <1>3, <1>4, <1>5, <1>6, <1>7 DEF Next

LEMMA Invariance == Spec => []IInv
BY InitHolds, NextKeeps, PTL DEF Spec

-----------------------------------------------------------------------------
(* Every variable of a turn, and of the contexts, stays within its type:    *)
(* the open steps name steps of the turn, and no session is kept that was   *)
(* not made (the members of Turn in chatagent.cpp, Context in               *)
(* delegatecontexts.h).                                                     *)
THEOREM TypeCorrect == Spec => []TypeOK
BY Invariance, PTL DEF IInv

(* At most one key holds a session: the count says what Owned says. *)
LEMMA OwnersCounted ==
  ASSUME NEW s, Owned(s)
  PROVE  Cardinality({k \in Keys : contexts[k].session = s})
           + (IF run.session = s THEN 1 ELSE 0) + (IF s \in forgotten THEN 1 ELSE 0) = 1
<1> DEFINE holders == {k \in Keys : contexts[k].session = s}
<1>1. CASE Kept(s)
  <2>1. PICK k \in Keys : contexts[k].session = s
    BY <1>1 DEF Kept
  <2>2. holders = {k}
    BY <2>1 DEF Owned
  <2>3. Cardinality(holders) = 1
    BY <2>2, FS_Singleton
  <2>4. run.session # s /\ s \notin forgotten
    BY <1>1 DEF Owned
  <2> HIDE DEF holders
  <2> QED
    BY <2>3, <2>4 DEF holders
<1>2. CASE ~Kept(s)
  <2>1. holders = {}
    BY <1>2 DEF Kept
  <2>2. Cardinality(holders) = 0
    BY <2>1, FS_EmptySet
  <2>3. run.session = s <=> s \notin forgotten
    BY <1>2 DEF Owned
  <2> HIDE DEF holders
  <2> QED
    BY <2>2, <2>3 DEF holders
<1> QED
  BY <1>1, <1>2

(* A session made for a delegate is in one place as long as the chat lives: *)
(* with the delegate that runs, in one context, or deleted, for any number  *)
(* of agents, conversations and turns (take, keep and forgetSession,        *)
(* delegatecontexts.cpp:24-77; chatagent.cpp:153-248).                      *)
THEOREM OneOwner == Spec => []OneOwnerPerSession
<1>1. IInv => OneOwnerPerSession
  BY OwnersCounted DEF IInv, OwnersInStep, OneOwnerPerSession
<1> QED
  BY Invariance, <1>1, PTL

(* No step is told Ok whose delegation failed, and none Failed in a running *)
(* turn whose delegation reported, although the outcome is kept in a flag   *)
(* of the turn until toolFinished (chatagent.cpp:183-192, 362-377).         *)
THEOREM StepsTold == Spec => []StepsTellTheOutcome
BY Invariance, PTL DEF IInv

-----------------------------------------------------------------------------
(* A turn is an AgentTurn. *)

Open == {delegation, tool} \ {0}
TurnStep == [Turn!Next]_<<phase, Open, told>>

(* Nothing the runner is told. *)
LEMMA Untold == UNCHANGED <<phase, delegation, tool, told>> => TurnStep
BY DEF TurnStep, Open

LEMMA StartTold == ASSUME IInv, NEW c \in Conversations, Start(c) PROVE TurnStep
<1>1. phase # "running" /\ phase' = "running" /\ told' = FALSE /\ delegation' = delegation /\ tool' = tool
  BY DEF Start
<1>2. phase \in {"idle", "answered", "failed", "cancelled"}
  BY <1>1, Parts
<1> QED
  BY <1>1, <1>2 DEF TurnStep, Open, Turn!Next, Turn!Start, Turn!Ends

(* The step of a delegation is the first, the step of a tool the second. *)
LEMMA OpenedTold ==
  ASSUME IInv, (\E a \in Agents : CallAgent(a)) \/ DelegateCallsTool
  PROVE  TurnStep
<1>1. phase = "running" /\ phase' = phase /\ told' = told /\ Len(steps) \in Nat
      /\ delegation \in 0..Len(steps) /\ tool \in 0..Len(steps) /\ tool = 0
  BY Parts, NoDelegate DEF IInv, MainInStep, StepsInStep, CallAgent, DelegateCallsTool, Delegating, mainVars
<1>2. PICK s \in Nat : s = Len(steps) + 1
  BY <1>1
<1>3. s \in Open' /\ (\A t \in Open : t < s) /\ Open' = Open \cup {s}
  <2>1. CASE \E a \in Agents : CallAgent(a)
    <3>1. delegation = 0 /\ delegation' = s /\ tool' = 0
      BY <1>1, <1>2, <2>1 DEF IInv, StepsInStep, CallAgent
    <3> QED
      BY <1>1, <1>2, <3>1 DEF Open
  <2>2. CASE DelegateCallsTool
    <3>1. delegation' = delegation /\ tool' = s
      BY <1>2, <2>2 DEF DelegateCallsTool, mainVars
    <3> QED
      BY <1>1, <1>2, <3>1 DEF Open
  <2> QED
    BY <2>1, <2>2
<1>4. Cardinality(Open) <= 1
  <2>1. Open = {} \/ Open = {delegation}
    BY <1>1 DEF Open
  <2>2. Cardinality(Open) = 0 \/ Cardinality(Open) = 1
    BY <2>1, FS_EmptySet, FS_Singleton
  <2> QED
    BY <2>2
<1>5. Turn!StepStarted
  <2>1. UNCHANGED <<phase, told>>
    BY <1>1
  <2>2. \E x \in Open' : (\A t \in Open : t < x) /\ Open' = Open \cup {x}
    BY <1>3
  <2>3. Turn!Cardinality(Open) = Cardinality(Open)
    BY DEF Turn!Cardinality, Cardinality
  <2> QED
    BY <1>1, <1>4, <2>1, <2>2, <2>3, Zenon DEF Turn!StepStarted, Open
<1> QED
  BY <1>5 DEF TurnStep, Turn!Next

LEMMA ClosedTold == ASSUME IInv, DelegationFinished \/ DelegateToolDone PROVE TurnStep
<1>1. phase = "running" /\ phase' = phase /\ told' = told /\ delegation # 0
      /\ delegation \in Nat /\ tool \in Nat
  BY Parts DEF IInv, MainInStep, StepsInStep, DelegationFinished, DelegateToolDone, mainVars
<1>2. PICK s \in Open : (\A t \in Open : t <= s) /\ Open' = Open \ {s}
  <2>1. CASE DelegationFinished
    <3>1. tool = 0 /\ tool' = 0 /\ delegation' = 0
      BY <2>1, NoDelegate DEF DelegationFinished
    <3> QED
      BY <1>1, <3>1 DEF Open
  <2>2. CASE DelegateToolDone
    <3>1. tool # 0 /\ delegation < tool /\ tool' = 0 /\ delegation' = delegation
      BY <2>2 DEF IInv, StepsInStep, DelegateToolDone, mainVars
    <3> QED
      BY <1>1, <3>1 DEF Open
  <2> QED
    BY <2>1, <2>2
<1>3. Turn!StepFinished
  BY <1>1, <1>2, Zenon DEF Turn!StepFinished, Open
<1> QED
  BY <1>3 DEF TurnStep, Turn!Next

LEMMA EndTold == ASSUME IInv, Succeed \/ Fail \/ Cancel PROVE TurnStep
<1>1. CASE Succeed
  <2>1. /\ phase = "running" /\ phase' = "answered" /\ told' \in BOOLEAN
        /\ delegation' = delegation /\ tool' = tool /\ delegation = 0 /\ tool = 0
    BY <1>1, NoDelegate DEF IInv, MainInStep, StepsInStep, Succeed
  <2> QED
    BY <2>1 DEF TurnStep, Open, Turn!Next, Turn!Answered
<1>2. CASE Fail \/ Cancel
  <2>1. /\ phase = "running" /\ phase' \in {"failed", "cancelled"} /\ told' = told
        /\ delegation' = 0 /\ tool' = 0
    BY <1>2 DEF IInv, MainInStep, Fail, Cancel, StepsFail
  <2> QED
    BY <2>1 DEF TurnStep, Open, Turn!Next, Turn!Failed
<1> QED
  BY <1>1, <1>2

LEMMA StepTold == IInv /\ [Next]_vars => TurnStep
<1> SUFFICES ASSUME IInv, [Next]_vars PROVE TurnStep
  OBVIOUS
<1>1. CASE Ask \/ AskAgain
  BY <1>1, Untold DEF Ask, AskAgain
<1>2. CASE DelegationFinished \/ DelegateToolDone
  BY <1>2, ClosedTold
<1>3. CASE Succeed \/ Fail \/ Cancel
  BY <1>3, EndTold
<1>4. CASE (\E a \in Agents : CallAgent(a)) \/ DelegateCallsTool
  BY <1>4, OpenedTold
<1>5. CASE PastCeiling \/ DelegateUnavailable \/ Delegate
  BY <1>5, Untold DEF PastCeiling, DelegateUnavailable, Delegate
<1>6. CASE SessionStarts \/ SessionMissing \/ FollowUp \/ Restart
  BY <1>6, Untold DEF SessionStarts, SessionMissing, FollowUp, Restart, mainVars
<1>7. CASE DelegateReports \/ DelegateFails \/ RestartUnavailable
  BY <1>7, Untold DEF DelegateReports, DelegateFails, RestartUnavailable
<1>8. CASE \E c \in Conversations : Start(c)
  BY <1>8, StartTold
<1>9. CASE UNCHANGED turnVars
  BY <1>9, Untold DEF turnVars
<1>10. \/ UNCHANGED vars \/ Cancel \/ CloseChat
       \/ \E c \in Conversations : Start(c) \/ ForgetConversation(c)
       \/ \E key \in Keys : TimePasses(key)
       \/ Progress
  BY DEF Next
<1>11. CASE UNCHANGED vars \/ CloseChat \/ (\E c \in Conversations : ForgetConversation(c))
            \/ \E key \in Keys : TimePasses(key)
  BY <1>9, <1>11 DEF vars, CloseChat, ForgetConversation, TimePasses
<1>12. CASE Progress
  BY <1>1, <1>2, <1>3, <1>4, <1>5, <1>6, <1>7, <1>12 DEF Progress
<1> QED
  BY <1>3, <1>8, <1>10, <1>11, <1>12

(* A turn does what its runner relies on, whatever its delegates do: a step *)
(* is new and within the one open step, the inner one ends first, no step   *)
(* is left open by an end, and nothing is told after it (agentturn.h; fail, *)
(* cancel and the observers in chatagent.cpp).                              *)
THEOREM IsATurn == Spec => Turn!Spec
<1>1. Init => Turn!Init
  BY DEF Init, Turn!Init
<1>2. IInv /\ [Next]_vars => [Turn!Next]_Turn!turnVars
  BY StepTold DEF TurnStep, Open, Turn!turnVars
<1> QED
  BY Invariance, <1>1, <1>2, PTL DEF Spec, Turn!Spec

=============================================================================
