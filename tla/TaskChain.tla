----------------------------- MODULE TaskChain ------------------------------
(***************************************************************************)
(* Work on the worker's thread and the callbacks chained to it             *)
(* (src/cpp/async/task.h, result.h, continuationanchors.cpp, service.h,    *)
(* backendworker.cpp).  Future n is what stage n waits for: future 1 is    *)
(* the work's, a "then" or "task" stage makes the next one, "finally"      *)
(* makes none.  A stage is posted to its context's thread when its future  *)
(* ends; whether the context still lives is looked at there.  Qt is        *)
(* external: a promise dropped without a result cancels its future, and no *)
(* callback runs for a canceled future.                                    *)
(***************************************************************************)
EXTENDS Integers, Sequences, FiniteSets, SequencesExt

CONSTANT MaxStages   \* the stages of one chain

VARIABLE chain

Threads  == {"gui", "worker"}
Contexts == {"view", "worker"}
AnchorOf(context) == IF context = "view" THEN "gui" ELSE "worker"
Work == 0   \* the queued call of the work itself

Init ==
  chain = [futures |-> <<"pending">>,
           stages  |-> <<>>,
           queues  |-> [t \in Threads |-> IF t = "worker" THEN <<[call |-> "run", stage |-> Work]>> ELSE <<>>],
           alive   |-> Contexts,
           ran     |-> <<>>,     \* the callbacks that ran, with what they were given
           lost    |-> FALSE]    \* a context died or a callback threw before its stage was done

Ended(future) == chain.futures[future] # "pending"
\* A continuation that runs wherever the result comes from.
PostedToTheWorker(state, n) ==
  [state EXCEPT !.queues["worker"] = Append(@, [call |-> "stage", stage |-> n])]

\* A continuation is a call to the anchor of its context, in the context's thread.
Posted(state, n) ==
  [state EXCEPT !.queues[AnchorOf(state.stages[n].context)] = Append(@, [call |-> "stage", stage |-> n])]

\* A future gets its result: its stage, when it was chained already, is posted, or dropped with
\* all stages after it when the future is canceled.
Settled(state, future, status) ==
  LET n      == Len(state.stages)
      after  == [state EXCEPT !.futures[future] = status]
  IN  IF status = "canceled"
      THEN [after EXCEPT !.lost = TRUE,
              !.futures = [f \in 1..Len(@) |-> IF f >= future THEN "canceled" ELSE @[f]]]
      ELSE IF future <= n THEN Posted(after, future) ELSE after

\* Task::then, thenTaskOn, finally and onError, called in the GUI's thread at any time.
Chain(kind, context) ==
  LET n     == Len(chain.stages) + 1
      added == [chain EXCEPT
                  !.stages  = Append(@, [kind |-> kind, context |-> context]),
                  !.futures = IF kind = "finally" THEN @
                              ELSE Append(@, IF @[n] = "canceled" THEN "canceled" ELSE "pending")]
  IN  /\ n <= MaxStages /\ n <= Len(chain.futures) /\ context \in chain.alive
      /\ chain' = IF chain.futures[n] \in {"value", "failure"} THEN Posted(added, n) ELSE added

Taken(thread) == [chain EXCEPT !.queues[thread] = Tail(@)]
NextOf(thread) == Head(chain.queues[thread])

\* Task::run: an exception of the work is a failure.
RunWork(result) ==
  /\ chain.queues["worker"] # <<>> /\ NextOf("worker").call = "run"
  /\ result \in {"value", "failure"}
  /\ LET n == NextOf("worker").stage
     IN  chain' = Settled(Taken("worker"), IF n = Work THEN 1 ELSE n + 1, result)

\* What a stage does with the result of its future: a failure passes a "then" by, a callback
\* runs on a value, and its exception is the loss of its promise.
Continued(state, n, outcome, thread) ==
  LET stage == state.stages[n]
      given == state.futures[n]
      ran   == [state EXCEPT !.ran = Append(@, [stage |-> n, given |-> given, on |-> thread])]
      Drop(s) == IF stage.kind = "finally" THEN [s EXCEPT !.lost = TRUE] ELSE Settled(s, n + 1, "canceled")
  IN  IF stage.context \notin state.alive THEN Drop(state)
      ELSE IF stage.kind = "finally" THEN ran
      ELSE IF given = "failure" THEN Settled(state, n + 1, "failure")
      ELSE IF outcome = "throws" THEN Drop(ran)
      ELSE IF stage.kind = "then" THEN Settled(ran, n + 1, outcome)
      ELSE IF outcome = "failure" THEN Settled(ran, n + 1, "failure")
      ELSE IF "worker" \notin state.alive THEN Settled(ran, n + 1, "canceled")
      ELSE [ran EXCEPT !.queues["worker"] = Append(@, [call |-> "run", stage |-> n])]

Continue(thread, outcome) ==
  /\ chain.queues[thread] # <<>> /\ NextOf(thread).call = "stage"
  /\ chain' = Continued(Taken(thread), NextOf(thread).stage, outcome, thread)

\* A context is destroyed.  The continuations are the anchor's calls and stay; the work that the
\* worker had not begun goes with it, and its promise.
Destroy(context) ==
  LET gone     == [chain EXCEPT !.alive = @ \ {context}]
      IsWork(call) == context = "worker" /\ call.call = "run"
      dropped  == {chain.queues["worker"][i].stage : i \in
                     {j \in 1..Len(chain.queues["worker"]) : IsWork(chain.queues["worker"][j])}}
      without  == [gone EXCEPT !.queues["worker"] = SelectSeq(@, LAMBDA call : ~IsWork(call))]
  IN  /\ context \in chain.alive
      /\ chain' = IF dropped = {} THEN without
                  ELSE LET n == CHOOSE d \in dropped : TRUE
                       IN  Settled(without, IF n = Work THEN 1 ELSE n + 1, "canceled")

Next ==
  \/ \E kind \in {"then", "task", "finally"}, context \in Contexts : Chain(kind, context)
  \/ \E result \in {"value", "failure"} : RunWork(result)
  \/ \E thread \in Threads, outcome \in {"value", "failure", "throws"} : Continue(thread, outcome)
  \/ \E context \in Contexts : Destroy(context)

-----------------------------------------------------------------------------

Idle == \A t \in Threads : chain.queues[t] = <<>>
RanAt(n) == {i \in 1..Len(chain.ran) : chain.ran[i].stage = n}
Handlers == {n \in 1..Len(chain.stages) : chain.stages[n].kind = "finally"}

\* The callbacks run once each, in the order of the chain and in the threads of their contexts;
\* after a failure only the last handler runs, and it is told of the failure.
RunInOrder ==
  /\ \A i, j \in 1..Len(chain.ran) : i < j => chain.ran[i].stage < chain.ran[j].stage
  /\ \A i \in 1..Len(chain.ran) :
       /\ chain.ran[i].on = AnchorOf(chain.stages[chain.ran[i].stage].context)
       /\ chain.ran[i].given = chain.futures[chain.ran[i].stage]
       /\ chain.ran[i].given = "failure" => chain.ran[i].stage \in Handlers
  /\ \A n \in 1..(Len(chain.futures) - 1) :
       chain.futures[n] = "failure" => chain.futures[n + 1] \in {"failure", "pending", "canceled"}

\* Once nothing is left to run the handler was told, unless a context died or a callback threw.
IsTold == Idle /\ ~chain.lost => \A n \in Handlers : RanAt(n) # {}

ResultsArrive == RunInOrder /\ IsTold
=============================================================================
