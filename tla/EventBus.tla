------------------------------ MODULE EventBus ------------------------------
(***************************************************************************)
(* The event bus (src/cpp/eventbus/eventbus.h, eventbus.cpp) for events of *)
(* one type.  A handler bound to a context runs in the thread of the       *)
(* context: at once when the event was published there, otherwise when the *)
(* event loop of that thread comes to it.  A handler may publish the next  *)
(* event itself.  "log" is what handlers were given, in order.             *)
(***************************************************************************)
EXTENDS Integers, Sequences, FiniteSets, SequencesExt

CONSTANTS
  MaxSubscriptions,  \* the handlers of a run
  MaxEvents          \* the events of a run

VARIABLE bus

Threads  == {"gui", "worker"}
Contexts == {"view", "service"}
Home(context) == IF context = "view" THEN "gui" ELSE "worker"
Unbound == "none"

Init ==
  bus = [subscriptions |-> <<>>,      \* the context of each handler, and whether it publishes
         alive  |-> Contexts,
         queues |-> [t \in Threads |-> <<>>],
         log    |-> <<>>,
         sent   |-> <<>>,             \* the thread, the handlers and whether a handler published it
         died   |-> {}]

\* Only before the first event: the handlers are a plain vector without a lock.
Subscribe(context, publishes) ==
  /\ bus.sent = <<>> /\ Len(bus.subscriptions) < MaxSubscriptions
  /\ context \in bus.alive \cup {Unbound}
  /\ bus' = [bus EXCEPT !.subscriptions = Append(@, [context |-> context, publishes |-> publishes])]

Entry(subscription, event, thread) == [subscription |-> subscription, event |-> event, on |-> thread]

\* Running a handler; one that publishes does so at the first event, from where it runs.
RECURSIVE Published(_, _, _), Handled(_, _, _, _)
Handled(state, subscription, event, thread) ==
  LET told == [state EXCEPT !.log = Append(@, Entry(subscription, event, thread))]
  IN  IF state.subscriptions[subscription].publishes /\ event = 1 /\ Len(state.sent) = 1
      THEN Published(told, thread, TRUE) ELSE told

\* EventBus::publish: handlers in the order of their subscription; one without a context runs
\* where the event is published, a context that is gone is passed over, and a handler of
\* another thread is queued.
Published(state, thread, nested) ==
  LET event == Len(state.sent) + 1
      Give(s, i) ==
        LET context == s.subscriptions[i].context
        IN  IF context = Unbound THEN Handled(s, i, event, thread)
            ELSE IF context \notin s.alive THEN s
            ELSE IF Home(context) = thread THEN Handled(s, i, event, thread)
            ELSE [s EXCEPT !.queues[Home(context)] = Append(@, [subscription |-> i, event |-> event])]
  IN  FoldLeft(Give, [state EXCEPT !.sent = Append(@, [by |-> thread, nested |-> nested,
                                                       to |-> Len(state.subscriptions)])],
               [i \in 1..Len(state.subscriptions) |-> i])

Publish(thread) ==
  /\ Len(bus.sent) < MaxEvents
  /\ bus' = Published(bus, thread, FALSE)

\* The event loop of a thread comes to a queued call.
Deliver(thread) ==
  /\ bus.queues[thread] # <<>>
  /\ LET call == Head(bus.queues[thread])
     IN  bus' = Handled([bus EXCEPT !.queues[thread] = Tail(@)], call.subscription, call.event, thread)

\* An object that is destroyed takes its queued calls with it.
Destroy(context) ==
  /\ context \in bus.alive
  /\ bus' = [bus EXCEPT
       !.alive  = @ \ {context},
       !.died   = @ \cup {i \in 1..Len(bus.subscriptions) : bus.subscriptions[i].context = context},
       !.queues = [t \in Threads |->
                     SelectSeq(@[t], LAMBDA call : bus.subscriptions[call.subscription].context # context)]]

Next ==
  \/ \E context \in Contexts \cup {Unbound}, publishes \in BOOLEAN : Subscribe(context, publishes)
  \/ \E thread \in Threads : Publish(thread)
  \/ \E thread \in Threads : Deliver(thread)
  \/ \E context \in Contexts : Destroy(context)

-----------------------------------------------------------------------------

Times(i, e) == Cardinality({n \in 1..Len(bus.log) : bus.log[n].subscription = i /\ bus.log[n].event = e})
Queued(i, e) == \E t \in Threads : Contains(bus.queues[t], [subscription |-> i, event |-> e])

\* A living subscriber is given every event once; none is given one twice, or after its context
\* is gone, or in a thread that is not its own.
GivenOnce ==
  \A e \in 1..Len(bus.sent) : \A i \in 1..bus.sent[e].to :
    /\ Times(i, e) <= 1
    /\ i \notin bus.died => Times(i, e) + (IF Queued(i, e) THEN 1 ELSE 0) = 1
    /\ i \in bus.died => ~Queued(i, e)

InItsThread ==
  \A n \in 1..Len(bus.log) :
    LET context == bus.subscriptions[bus.log[n].subscription].context
    IN  context # Unbound => bus.log[n].on = Home(context)

\* What one thread publishes, a subscriber is given in that order.  An event that a handler
\* published while it handled another one is not held to that.
InOrder ==
  \A n, m \in 1..Len(bus.log) :
    LET a == bus.log[n]  b == bus.log[m]
    IN  n < m /\ a.subscription = b.subscription /\ bus.sent[a.event].by = bus.sent[b.event].by
          /\ ~bus.sent[a.event].nested /\ ~bus.sent[b.event].nested
        => a.event < b.event

EventsArrive == GivenOnce /\ InItsThread /\ InOrder
=============================================================================
