-------------------------- MODULE AgentLoop_proofs --------------------------
(***************************************************************************)
(* Proofs about AgentLoop, for every number of requests, cancels and        *)
(* rounds and for all replies, as long as the application calls the agent   *)
(* from the callbacks it honours.  Then a function that goes on without     *)
(* looking at its token is always on top of the stack, and everything below *)
(* either checks its token or belongs to the application: "the loop" has    *)
(* one place, and what the request may still do follows from that place.    *)
(* What the history holds is a second invariant on top of it.               *)
(***************************************************************************)
EXTENDS AgentLoop, FiniteSetTheorems, SequenceTheorems, TLAPS

Honours == Reenters \subseteq HonouredPoints

(* Everything that does not check its token has nothing above it, and no    *)
(* token is newer than the agent's.                                         *)
StackInStep ==
  /\ \A i \in DOMAIN stack : i # 1 => stack[i].step \in Guarded \cup {"app"}
  /\ \A i \in DOMAIN stack : stack[i].alive <= life

(* The same of what others keep; each ask is kept once.                    *)
WaitersInStep ==
  /\ \A h \in held : h.alive <= life /\ h.ask <= asks
  /\ \A t \in open : t.alive <= life
  /\ \A g, h \in held : g.ask = h.ask => g = h

MessageType ==
  [role : {"system", "user", "assistant", "calls", "tool"}, by : Nat, of : Nat, call : Nat]
Last == messages[Len(messages)]

(* The last round: its calls, and behind them only results.                *)
Round(i) == messages[i].role = "calls" /\ \A j \in DOMAIN messages : j > i => messages[j].role = "tool"
(* Of the last round, the calls before c have been answered.               *)
AnsweredUpTo(c) ==
  \A i \in DOMAIN messages : Round(i) =>
    \A d \in Answerable(messages[i].of) : d < c => Answered(i, d)
RoundAnswered == \A i \in DOMAIN messages : Round(i) => AllAnswered(i)

(* The messages while call c of the reply to `ask` is handled.             *)
RoundInStep(ask, c) ==
  /\ ask \in 1..asks /\ c \in Nat \ {0}
  /\ \A h \in held : h.ask # ask
  /\ \/ Last.role \in {"calls", "tool"} /\ Last.of = ask /\ Last.call < c
     \/ Last.role = "system" /\ Last.of >= ask
  /\ \A i \in DOMAIN messages : Round(i) => messages[i].of = ask
  /\ AnsweredUpTo(c)

Asked == {"held", "completion", "reply"}
Rounding == {"calls", "tool", "open", "answer"}

(* What is known while the loop is at a place.                             *)
InPhase(step, ask, c) ==
  /\ request # 0
  /\ step \in Asked => /\ sent[request] = rounds + 1 /\ ~TooManyRounds(rounds)
                       /\ ask \in 1..asks
  /\ step \in {"completion", "reply"} => \A h \in held : h.ask # ask
  /\ step \in Rounding \cup {"roundEnd", "send"} => sent[request] = rounds /\ ~TooManyRounds(rounds)
  /\ step \in Rounding => RoundInStep(ask, c)
  /\ step \in {"roundEnd", "send"} => RoundAnswered
  /\ step = "delivered" => c = request
  /\ step \in {"deliver", "delivered"} /\ reply[ask].kind = "text" => sent[request] = rounds + 1

NoneHeld == \A h \in held : h.alive # life
NoneOpen == \A t \in open : t.alive # life
NoFrame == \A i \in DOMAIN stack : ~GoesOn(stack[i])

AtHeld == /\ NoneOpen /\ NoFrame
          /\ \E h \in held : /\ h.alive = life /\ InPhase("held", h.ask, 0)
                             /\ \A g \in held : g.alive = life => g = h
AtOpen == /\ NoneHeld /\ NoFrame
          /\ \E t \in open : /\ t.alive = life /\ InPhase("open", t.ask, t.call)
                             /\ \A u \in open : u.alive = life => u = t
AtFrame == /\ NoneHeld /\ NoneOpen
           /\ \E i \in DOMAIN stack : /\ GoesOn(stack[i])
                                      /\ InPhase(stack[i].step, stack[i].ask, stack[i].call)
                                      /\ \A j \in DOMAIN stack : GoesOn(stack[j]) => j = i

(* The loop has one place while a request is open, and none otherwise.     *)
LoopInStep ==
  \/ request = 0 /\ NoneHeld /\ NoneOpen /\ NoFrame
  \/ AtHeld
  \/ AtOpen
  \/ AtFrame

MessagesInStep ==
  /\ messages # << >>
  /\ messages[1].role = "system"

RequestsInStep ==
  \A r \in Requests : r > requests => reports[r] = << >> /\ sent[r] = 0

IInv ==
  /\ Honours
  /\ TypeOK
  /\ StackInStep
  /\ WaitersInStep
  /\ LoopInStep
  /\ MessagesInStep
  /\ RequestsInStep
  /\ RequestsAccounted
  /\ ResultsFollowTheirCalls

-----------------------------------------------------------------------------
(* Facts about frames and the stack.                                       *)

LEMMA FrameIs ==
  ASSUME NEW step \in {"app", "send", "completion", "reply", "deliver", "delivered", "calls",
                       "roundEnd", "tool", "answer"},
         NEW ask \in 0..MaxAsks, NEW call \in Nat, NEW alive \in 0..MaxCancels
  PROVE  /\ Frame(step, ask, call, alive) \in FrameType
         /\ Frame(step, ask, call, alive).step = step /\ Frame(step, ask, call, alive).ask = ask
         /\ Frame(step, ask, call, alive).call = call /\ Frame(step, ask, call, alive).alive = alive
BY DEF Frame, FrameType

LEMMA Bounds == MaxAsks \in Nat /\ MaxCancels \in Nat /\ MaxRequests \in Nat
BY BoundsAssumption

LEMMA LimitIs ==
  ASSUME IInv
  PROVE  limit \in Nat /\ AskBound \in Nat /\ AskBound <= MaxAsks
BY BoundsAssumption, LimitsAssumption DEF IInv, TypeOK, AskBound

LEMMA AppFrameIs == AppFrame \in FrameType /\ AppFrame.step = "app" /\ AppFrame.alive = 0
BY FrameIs, Bounds DEF AppFrame

LEMMA Piled ==
  ASSUME NEW rest \in Seq(FrameType), NEW f \in FrameType
  PROVE  /\ << >> \o rest = rest
         /\ LET one == <<f>> \o rest IN
              /\ one \in Seq(FrameType) /\ DOMAIN one = 1..Len(rest) + 1 /\ one[1] = f
              /\ \A i \in DOMAIN one : i = 1 \/ (i - 1 \in 1..Len(rest) /\ one[i] = rest[i - 1])
         /\ LET two == <<AppFrame, f>> \o rest IN
              /\ two \in Seq(FrameType) /\ DOMAIN two = 1..Len(rest) + 2
              /\ two[1] = AppFrame /\ two[2] = f
              /\ \A i \in DOMAIN two :
                   i = 1 \/ i = 2 \/ (i - 2 \in 1..Len(rest) /\ two[i] = rest[i - 2])
<1> DEFINE one == <<f>> \o rest
           two == <<AppFrame, f>> \o rest
<1>1. AppFrame \in FrameType
  BY AppFrameIs
<1>2. <<f>> \in Seq(FrameType) /\ Len(<<f>>) = 1 /\ <<f>>[1] = f
  OBVIOUS
<1>3. <<AppFrame, f>> \in Seq(FrameType) /\ Len(<<AppFrame, f>>) = 2
      /\ <<AppFrame, f>>[1] = AppFrame /\ <<AppFrame, f>>[2] = f
  BY <1>1
<1>4. << >> \o rest = rest /\ Len(rest) \in Nat
  OBVIOUS
<1>5. /\ one \in Seq(FrameType) /\ Len(one) = Len(rest) + 1 /\ one[1] = f
      /\ \A i \in 1..Len(rest) : one[i + 1] = rest[i]
  BY <1>2, ConcatProperties
<1>6. /\ two \in Seq(FrameType) /\ Len(two) = Len(rest) + 2
      /\ two[1] = AppFrame /\ two[2] = f
      /\ \A i \in 1..Len(rest) : two[i + 2] = rest[i]
  BY <1>3, ConcatProperties
<1> HIDE DEF one, two
<1>7. DOMAIN one = 1..Len(rest) + 1 /\ DOMAIN two = 1..Len(rest) + 2
  BY <1>4, <1>5, <1>6
<1>8. ASSUME NEW i \in DOMAIN one, i # 1 PROVE i - 1 \in 1..Len(rest) /\ one[i] = rest[i - 1]
  <2>1. i - 1 \in 1..Len(rest) /\ (i - 1) + 1 = i
    BY <1>4, <1>7, <1>8
  <2> QED
    BY <1>5, <2>1
<1>9. ASSUME NEW i \in DOMAIN two, i # 1, i # 2 PROVE i - 2 \in 1..Len(rest) /\ two[i] = rest[i - 2]
  <2>1. i - 2 \in 1..Len(rest) /\ (i - 2) + 2 = i
    BY <1>4, <1>7, <1>9
  <2> QED
    BY <1>6, <2>1
<1> QED
  BY <1>4, <1>5, <1>6, <1>7, <1>8, <1>9 DEF one, two

(* What may lie under a function that is under way.                        *)
Resting(rest) ==
  /\ rest \in Seq(FrameType)
  /\ \A i \in 1..Len(rest) : rest[i].step \in Guarded \cup {"app"} /\ rest[i].alive <= life
Quiet(rest) == \A i \in 1..Len(rest) : ~GoesOn(rest[i])

LEMMA StackFacts ==
  ASSUME IInv, stack # << >>
  PROVE  /\ Top = stack[1] /\ Top \in FrameType /\ Top.alive <= life /\ Len(stack) \in Nat \ {0}
         /\ Resting(Tail(stack)) /\ Len(Tail(stack)) = Len(stack) - 1
         /\ \A i \in 1..Len(Tail(stack)) : Tail(stack)[i] = stack[i + 1]
<1>1. stack \in Seq(FrameType) /\ Len(stack) \in Nat \ {0}
  BY EmptySeq DEF IInv, TypeOK
<1>2. /\ Top = stack[1] /\ Tail(stack) \in Seq(FrameType) /\ Len(Tail(stack)) = Len(stack) - 1
      /\ \A i \in 1..Len(Tail(stack)) : Tail(stack)[i] = stack[i + 1]
      /\ 1 \in DOMAIN stack /\ \A i \in 1..Len(Tail(stack)) : i + 1 \in DOMAIN stack /\ i + 1 # 1
  BY <1>1 DEF Top
<1> QED
  BY <1>1, <1>2 DEF IInv, StackInStep, Resting

(* A function that is under way and goes on is where the loop is.          *)
LEMMA TopDrives ==
  ASSUME IInv, stack # << >>, GoesOn(Top)
  PROVE  /\ request # 0 /\ NoneHeld /\ NoneOpen /\ Quiet(Tail(stack))
         /\ InPhase(Top.step, Top.ask, Top.call)
<1>1. Top = stack[1] /\ 1 \in DOMAIN stack /\ stack \in Seq(FrameType)
      /\ \A i \in 1..Len(Tail(stack)) : Tail(stack)[i] = stack[i + 1] /\ i + 1 \in DOMAIN stack
  BY StackFacts DEF IInv, TypeOK
<1>2. AtFrame
  BY <1>1 DEF IInv, LoopInStep, NoFrame, AtHeld, AtOpen
<1>3. PICK i \in DOMAIN stack : /\ GoesOn(stack[i])
                                /\ InPhase(stack[i].step, stack[i].ask, stack[i].call)
                                /\ \A j \in DOMAIN stack : GoesOn(stack[j]) => j = i
  BY <1>2 DEF AtFrame
<1>4. i = 1
  BY <1>1, <1>3
<1>5. Quiet(Tail(stack))
  <2>1. SUFFICES ASSUME NEW j \in 1..Len(Tail(stack)) PROVE ~GoesOn(Tail(stack)[j])
    BY DEF Quiet
  <2>2. j + 1 \in DOMAIN stack /\ j + 1 # 1 /\ Tail(stack)[j] = stack[j + 1]
    BY <1>1
  <2> QED
    BY <1>3, <1>4, <2>2
<1> QED
  BY <1>1, <1>2, <1>3, <1>4, <1>5 DEF AtFrame, InPhase

(* The application runs on top of a stack that only rests.                 *)
LEMMA AppRests ==
  ASSUME IInv, AppRuns
  PROVE  Resting(stack)
<1>1. CASE stack = << >>
  BY <1>1 DEF Resting
<1>2. CASE stack # << >> /\ Top.step = "app"
  <2>1. Top = stack[1] /\ stack \in Seq(FrameType)
    BY <1>2, StackFacts DEF IInv, TypeOK
  <2> QED
    BY <1>2, <2>1 DEF IInv, StackInStep, Resting
<1> QED
  BY <1>1, <1>2 DEF AppRuns

(* A function goes on, perhaps after the application was called.           *)
LEMMA GoesOnTop ==
  ASSUME IInv, NEW rest, Resting(rest), Quiet(rest), life' = life,
         NEW f \in FrameType, GoesOn(f), f.alive <= life,
         \/ stack' = <<f>> \o rest
         \/ f.step \in Guarded /\ stack' = <<AppFrame, f>> \o rest,
         NoneHeld', NoneOpen', InPhase(f.step, f.ask, f.call)'
  PROVE  stack' \in Seq(FrameType) /\ StackInStep' /\ LoopInStep'
<1>1. life \in Nat /\ Len(rest) \in Nat
  BY DEF IInv, TypeOK, Resting
<1>2. AppFrame.step = "app" /\ AppFrame.alive = 0
  BY AppFrameIs
<1>3. GoesOn(f)' /\ \A i \in 1..Len(rest) : ~GoesOn(rest[i])' /\ ~GoesOn(AppFrame)'
  BY <1>2 DEF GoesOn, Quiet
<1>4. CASE stack' = <<f>> \o rest
  <2>1. stack' \in Seq(FrameType) /\ stack'[1] = f
    BY <1>4, Piled DEF Resting
  <2>2. /\ DOMAIN stack' = 1..Len(rest) + 1
        /\ \A i \in DOMAIN stack' : i = 1 \/ (i - 1 \in 1..Len(rest) /\ stack'[i] = rest[i - 1])
    BY <1>4, Piled DEF Resting
  <2>3. StackInStep'
    BY <2>1, <2>2 DEF StackInStep, Resting
  <2>4. AtFrame'
    <3>1. 1 \in DOMAIN stack'
      BY <1>1, <2>2
    <3>2. \A j \in DOMAIN stack' : GoesOn(stack[j])' => j = 1
      BY <1>3, <2>2 DEF GoesOn
    <3>3. GoesOn(stack[1])' /\ InPhase(stack[1].step, stack[1].ask, stack[1].call)'
      BY <1>3, <2>1 DEF GoesOn
    <3> QED
      BY <3>1, <3>2, <3>3 DEF AtFrame
  <2> QED
    BY <2>1, <2>3, <2>4 DEF LoopInStep
<1>5. CASE f.step \in Guarded /\ stack' = <<AppFrame, f>> \o rest
  <2>1. stack' \in Seq(FrameType) /\ stack'[1] = AppFrame /\ stack'[2] = f
    BY <1>5, Piled DEF Resting
  <2>2. /\ DOMAIN stack' = 1..Len(rest) + 2
        /\ \A i \in DOMAIN stack' :
             i = 1 \/ i = 2 \/ (i - 2 \in 1..Len(rest) /\ stack'[i] = rest[i - 2])
    BY <1>5, Piled DEF Resting
  <2>3. StackInStep'
    BY <1>1, <1>2, <1>5, <2>1, <2>2 DEF StackInStep, Resting
  <2>4. AtFrame'
    <3>1. 2 \in DOMAIN stack'
      BY <1>1, <2>2
    <3>2. ASSUME NEW j \in DOMAIN stack', j # 2 PROVE ~GoesOn(stack[j])'
      <4>1. CASE j = 1
        BY <1>2, <2>1, <4>1 DEF GoesOn
      <4>2. CASE j - 2 \in 1..Len(rest) /\ stack'[j] = rest[j - 2]
        BY <1>3, <4>2 DEF GoesOn
      <4> QED
        BY <2>2, <3>2, <4>1, <4>2
    <3>3. GoesOn(stack[2])' /\ InPhase(stack[2].step, stack[2].ask, stack[2].call)'
      BY <1>3, <2>1 DEF GoesOn
    <3> QED
      BY <3>1, <3>2, <3>3 DEF AtFrame
  <2> QED
    BY <2>1, <2>3, <2>4 DEF LoopInStep
<1> QED
  BY <1>4, <1>5

(* A function ends, perhaps after the application was called.              *)
LEMMA EndsOnTop ==
  ASSUME IInv, NEW rest, Resting(rest), Quiet(rest), life' = life,
         stack' = rest \/ stack' = <<AppFrame>> \o rest
  PROVE  stack' \in Seq(FrameType) /\ StackInStep' /\ NoFrame'
<1>1. life \in Nat /\ Len(rest) \in Nat /\ rest \in Seq(FrameType)
  BY DEF IInv, TypeOK, Resting
<1>2. AppFrame.step = "app" /\ AppFrame.alive = 0
  BY AppFrameIs
<1>3. \A i \in 1..Len(rest) : ~GoesOn(rest[i])' /\ ~GoesOn(AppFrame)'
  BY <1>2 DEF GoesOn, Quiet
<1>4. CASE stack' = rest
  <2>1. \A i \in DOMAIN stack' : i \in 1..Len(rest) /\ stack'[i] = rest[i]
    BY <1>1, <1>4
  <2>2. StackInStep'
    BY <2>1 DEF StackInStep, Resting
  <2>3. NoFrame'
    BY <1>3, <2>1 DEF NoFrame, GoesOn
  <2> QED
    BY <1>1, <1>4, <2>2, <2>3
<1>5. CASE stack' = <<AppFrame>> \o rest
  <2>1. stack' \in Seq(FrameType) /\ stack'[1] = AppFrame
    BY <1>1, <1>5, Piled, AppFrameIs
  <2>2. /\ DOMAIN stack' = 1..Len(rest) + 1
        /\ \A i \in DOMAIN stack' : i = 1 \/ (i - 1 \in 1..Len(rest) /\ stack'[i] = rest[i - 1])
    BY <1>1, <1>5, Piled, AppFrameIs
  <2>3. ASSUME NEW i \in DOMAIN stack'
        PROVE  /\ i # 1 => stack'[i].step \in Guarded \cup {"app"}
               /\ stack'[i].alive <= life /\ ~GoesOn(stack[i])'
    <3>1. CASE i = 1
      BY <1>1, <1>2, <2>1, <3>1 DEF GoesOn
    <3>2. CASE i - 1 \in 1..Len(rest) /\ stack'[i] = rest[i - 1]
      BY <1>3, <3>2 DEF GoesOn, Resting
    <3> QED
      BY <2>2, <3>1, <3>2
  <2> QED
    BY <2>1, <2>3 DEF StackInStep, NoFrame
<1> QED
  BY <1>4, <1>5

-----------------------------------------------------------------------------
(* Steps that leave the loop where it is.                                  *)

(* What is known at a place depends on the request and the messages only.  *)
LEMMA PhaseStays ==
  ASSUME UNCHANGED <<limit, request, rounds, sent, messages, asks, reply>>, held' \subseteq held,
         NEW step, NEW ask, NEW c, InPhase(step, ask, c)
  PROVE  InPhase(step, ask, c)'
<1>1. \A n : Answerable(n)' = Answerable(n)
  BY DEF Answerable, CallsOf
<1>2. RoundAnswered => RoundAnswered'
  BY <1>1 DEF RoundAnswered, Round, Answered, AllAnswered
<1>3. RoundInStep(ask, c) => RoundInStep(ask, c)'
  BY <1>1 DEF RoundInStep, AnsweredUpTo, Round, Answered, Last
<1> QED
  BY <1>2, <1>3 DEF InPhase, TooManyRounds

(* The frame that is gone, if any, would not have gone on.                 *)
LEMMA PlaceStays ==
  ASSUME IInv, UNCHANGED <<limit, life, request>>,
         held' \subseteq held, \A h \in held : h.alive = life => h \in held',
         open' \subseteq open, \A t \in open : t.alive = life => t \in open',
         \A h \in held : InPhase("held", h.ask, 0) => InPhase("held", h.ask, 0)',
         \A t \in open : InPhase("open", t.ask, t.call) => InPhase("open", t.ask, t.call)',
         \A f \in FrameType : (\E i \in DOMAIN stack : f = stack[i]) /\ InPhase(f.step, f.ask, f.call)
                                => InPhase(f.step, f.ask, f.call)',
         \/ stack' = stack
         \/ stack # << >> /\ ~GoesOn(Top) /\ stack' = Tail(stack)
  PROVE  stack' \in Seq(FrameType) /\ StackInStep' /\ LoopInStep'
<1>1. /\ NoneHeld => NoneHeld'
      /\ NoneOpen => NoneOpen'
  BY DEF NoneHeld, NoneOpen
<1>2. AtHeld /\ (NoFrame => NoFrame') => AtHeld'
  <2>1. SUFFICES ASSUME AtHeld, NoFrame' PROVE AtHeld'
    BY DEF AtHeld
  <2>2. PICK h \in held : /\ h.alive = life /\ InPhase("held", h.ask, 0)
                          /\ \A g \in held : g.alive = life => g = h
    BY <2>1 DEF AtHeld
  <2>3. h \in held' /\ InPhase("held", h.ask, 0)'
    BY <2>2
  <2> QED
    BY <1>1, <2>1, <2>2, <2>3 DEF AtHeld
<1>3. AtOpen /\ (NoFrame => NoFrame') => AtOpen'
  <2>1. SUFFICES ASSUME AtOpen, NoFrame' PROVE AtOpen'
    BY DEF AtOpen
  <2>2. PICK t \in open : /\ t.alive = life /\ InPhase("open", t.ask, t.call)
                          /\ \A u \in open : u.alive = life => u = t
    BY <2>1 DEF AtOpen
  <2>3. t \in open' /\ InPhase("open", t.ask, t.call)'
    BY <2>2
  <2> QED
    BY <1>1, <2>1, <2>2, <2>3 DEF AtOpen
<1>4. CASE stack' = stack
  <2>1. stack' \in Seq(FrameType) /\ StackInStep'
    BY <1>4 DEF IInv, TypeOK, StackInStep
  <2>2. NoFrame => NoFrame'
    <3>1. SUFFICES ASSUME NoFrame, NEW i \in DOMAIN stack' PROVE ~GoesOn(stack[i])'
      BY DEF NoFrame
    <3> QED
      BY <1>4, <3>1 DEF NoFrame, GoesOn
  <2>3. ASSUME AtFrame PROVE AtFrame'
    <3>1. PICK i \in DOMAIN stack : /\ GoesOn(stack[i])
                                    /\ InPhase(stack[i].step, stack[i].ask, stack[i].call)
                                    /\ \A j \in DOMAIN stack : GoesOn(stack[j]) => j = i
      BY <2>3 DEF AtFrame
    <3>2. PICK f \in FrameType : f = stack[i]
      BY DEF IInv, TypeOK
    <3>3. InPhase(f.step, f.ask, f.call)' /\ f = stack'[i] /\ i \in DOMAIN stack'
      BY <1>4, <3>1, <3>2
    <3>4. GoesOn(stack[i])' /\ \A j \in DOMAIN stack' : GoesOn(stack[j])' => j = i
      BY <1>4, <3>1 DEF GoesOn
    <3> QED
      BY <1>1, <2>3, <3>3, <3>4 DEF AtFrame
  <2> QED
    BY <1>1, <1>2, <1>3, <2>1, <2>2, <2>3 DEF IInv, LoopInStep
<1>5. CASE stack # << >> /\ ~GoesOn(Top) /\ stack' = Tail(stack)
  <2>1. /\ Top = stack[1] /\ Resting(Tail(stack)) /\ Len(stack) \in Nat \ {0}
        /\ Len(Tail(stack)) = Len(stack) - 1
        /\ \A i \in 1..Len(Tail(stack)) : Tail(stack)[i] = stack[i + 1]
        /\ DOMAIN stack = 1..Len(stack) /\ stack \in Seq(FrameType)
    BY <1>5, StackFacts DEF IInv, TypeOK
  <2>2. DOMAIN stack' = 1..Len(stack) - 1
        /\ \A i \in DOMAIN stack' : i + 1 \in DOMAIN stack /\ stack'[i] = stack[i + 1]
    <3>1. stack' \in Seq(FrameType)
      BY <1>5, <2>1 DEF Resting
    <3>2. DOMAIN stack' = 1..Len(stack')
      BY <3>1
    <3>3. Len(stack') = Len(stack) - 1
      BY <1>5, <2>1
    <3>4. ASSUME NEW i \in DOMAIN stack' PROVE i + 1 \in DOMAIN stack /\ stack'[i] = stack[i + 1]
      <4>1. i \in 1..Len(stack) - 1 /\ Len(stack) \in Nat
        BY <2>1, <3>2, <3>3
      <4>2. i + 1 \in 1..Len(stack)
        BY <4>1
      <4>3. i \in 1..Len(Tail(stack))
        BY <2>1, <4>1
      <4> QED
        BY <1>5, <2>1, <4>2, <4>3
    <3> QED
      BY <3>2, <3>3, <3>4
  <2>3. stack' \in Seq(FrameType) /\ StackInStep'
    <3>1. Resting(stack') /\ life' = life
      BY <1>5, <2>1
    <3>2. \A i \in DOMAIN stack' : i \in 1..Len(stack')
      BY <3>1 DEF Resting
    <3> QED
      BY <3>1, <3>2 DEF StackInStep, Resting
  <2>4. NoFrame => NoFrame'
    <3>1. SUFFICES ASSUME NoFrame, NEW i \in DOMAIN stack' PROVE ~GoesOn(stack[i])'
      BY DEF NoFrame
    <3>2. i + 1 \in DOMAIN stack /\ stack'[i] = stack[i + 1]
      BY <2>2
    <3> QED
      BY <3>1, <3>2 DEF NoFrame, GoesOn
  <2>5. ASSUME AtFrame PROVE AtFrame'
    <3>1. PICK i \in DOMAIN stack : /\ GoesOn(stack[i])
                                    /\ InPhase(stack[i].step, stack[i].ask, stack[i].call)
                                    /\ \A j \in DOMAIN stack : GoesOn(stack[j]) => j = i
      BY <2>5 DEF AtFrame
    <3>2. PICK f \in FrameType : f = stack[i]
      BY <2>1
    <3>3. PICK k \in DOMAIN stack' : k + 1 = i /\ stack'[k] = f
      <4>1. i # 1
        BY <1>5, <2>1, <3>1
      <4>2. i - 1 \in DOMAIN stack' /\ (i - 1) + 1 = i
        BY <2>1, <2>2, <4>1
      <4> QED
        BY <2>2, <3>2, <4>2
    <3>4. InPhase(stack[k].step, stack[k].ask, stack[k].call)'
      BY <3>1, <3>2, <3>3
    <3>5. ASSUME NEW j \in DOMAIN stack', GoesOn(stack[j])' PROVE j = k
      <4>1. j + 1 \in DOMAIN stack /\ stack'[j] = stack[j + 1]
        BY <2>2
      <4>2. j + 1 = i
        BY <3>1, <3>5, <4>1 DEF GoesOn
      <4> QED
        BY <2>1, <2>2, <3>3, <4>2
    <3>6. GoesOn(stack[k])'
      BY <3>1, <3>2, <3>3 DEF GoesOn
    <3> QED
      BY <1>1, <2>5, <3>4, <3>5, <3>6 DEF AtFrame
  <2> QED
    BY <1>1, <1>2, <1>3, <2>3, <2>4, <2>5 DEF IInv, LoopInStep
<1> QED
  BY <1>4, <1>5

-----------------------------------------------------------------------------
(* Steps that change nothing but what is under way.                        *)

stored == <<life, request, rounds, messages, reply, held, open, caller, asks, sent>>

LEMMA MessagesSame ==
  ASSUME IInv, UNCHANGED messages
  PROVE  MessagesInStep' /\ ResultsFollowTheirCalls'
BY DEF IInv, MessagesInStep, ResultsFollowTheirCalls

LEMMA RequestsSame ==
  ASSUME IInv, UNCHANGED <<limit, request, requests, reports, cancelled, sent>>
  PROVE  RequestsInStep' /\ RequestsAccounted'
BY DEF IInv, RequestsInStep, RequestsAccounted

LEMMA WaitersSame ==
  ASSUME IInv, UNCHANGED <<life, asks>>, held' \subseteq held, open' \subseteq open
  PROVE  WaitersInStep' /\ (NoneHeld => NoneHeld') /\ (NoneOpen => NoneOpen')
BY DEF IInv, WaitersInStep, NoneHeld, NoneOpen

LEMMA OnlyStack ==
  ASSUME IInv, UNCHANGED stored, stack' \in Seq(FrameType), StackInStep', LoopInStep'
  PROVE  IInv'
<1>1. UNCHANGED <<limit, life, request, rounds, messages, reply, held, open, requests, reports,
                  cancelled, asks, sent>>
  BY DEF stored, caller
<1>2. TypeOK'
  BY <1>1 DEF IInv, TypeOK
<1>3. MessagesInStep' /\ ResultsFollowTheirCalls'
  BY <1>1, MessagesSame
<1>4. RequestsInStep' /\ RequestsAccounted'
  BY <1>1, RequestsSame
<1>5. WaitersInStep'
  BY <1>1, WaitersSame
<1> QED
  BY <1>2, <1>3, <1>4, <1>5 DEF IInv, Honours

(* The loop moves on from the top of the stack. *)
LEMMA Moves ==
  ASSUME IInv, stack # << >>, GoesOn(Top), UNCHANGED stored,
         NEW f \in FrameType, GoesOn(f), f.alive <= life,
         \/ stack' = <<f>> \o Tail(stack)
         \/ f.step \in Guarded /\ stack' = <<AppFrame, f>> \o Tail(stack),
         InPhase(f.step, f.ask, f.call)
  PROVE  IInv'
<1>1. UNCHANGED <<limit, life, request, rounds, messages, reply, held, open, asks, sent>>
  BY DEF stored, caller
<1>2. Resting(Tail(stack)) /\ Quiet(Tail(stack)) /\ NoneHeld /\ NoneOpen
  BY StackFacts, TopDrives
<1>3. NoneHeld' /\ NoneOpen'
  BY <1>1, <1>2, WaitersSame
<1>4. InPhase(f.step, f.ask, f.call)'
  BY <1>1, PhaseStays
<1>5. stack' \in Seq(FrameType) /\ StackInStep' /\ LoopInStep'
  BY <1>1, <1>2, <1>3, <1>4, GoesOnTop
<1> QED
  BY <1>5, OnlyStack

LEMMA SilentCall ==
  ASSUME Honours, NEW point, point \notin HonouredPoints, NEW f
  PROVE  After(point, f) = <<f>>
BY DEF Honours, After

LEMMA OpenCall ==
  ASSUME NEW point, NEW f
  PROVE  After(point, f) \in {<<f>>, <<AppFrame, f>>} /\ Inside(point) \in {<<AppFrame>>, << >>}
BY DEF After, Inside

LEMMA CreateIs ==
  ASSUME IInv
  PROVE  /\ Create = <<Frame("send", 0, 0, 0)>>
         /\ Frame("send", 0, 0, 0) \in FrameType /\ GoesOn(Frame("send", 0, 0, 0))
         /\ Frame("send", 0, 0, 0).step = "send" /\ Frame("send", 0, 0, 0).alive = 0
<1>1. Create = <<Frame("send", 0, 0, 0)>>
  BY SilentCall DEF IInv, Create, HonouredPoints
<1>2. /\ Frame("send", 0, 0, 0) \in FrameType /\ Frame("send", 0, 0, 0).step = "send"
      /\ Frame("send", 0, 0, 0).alive = 0
  BY FrameIs, Bounds
<1> QED
  BY <1>1, <1>2 DEF GoesOn, Guarded

LEMMA AtTop ==
  ASSUME IInv, NEW step, At(step)
  PROVE  /\ stack # << >> /\ Top.step = step /\ Top \in FrameType /\ Top.alive <= life
         /\ Top.ask \in 0..MaxAsks /\ Top.call \in Nat /\ life \in 0..MaxCancels
         /\ step \notin Guarded \cup {"app"} => GoesOn(Top)
BY StackFacts DEF At, FrameType, IInv, TypeOK, GoesOn

LEMMA OnCompletionKeeps ==
  ASSUME IInv, OnCompletion
  PROVE  IInv'
<1>1. /\ stack # << >> /\ Top.step = "completion" /\ GoesOn(Top) /\ UNCHANGED stored
      /\ Top.ask \in 0..MaxAsks
  BY AtTop DEF OnCompletion, Guarded, stored
<1>2. InPhase("completion", Top.ask, Top.call) /\ request # 0 /\ 0 <= life
  BY <1>1, TopDrives DEF IInv, TypeOK
<1>3. CASE reply[Top.ask].kind = "error"
  <2> DEFINE f == Frame("deliver", Top.ask, 0, 0)
  <2>1. f \in FrameType /\ f.step = "deliver" /\ f.alive = 0
    BY <1>1, FrameIs, Bounds
  <2>2. stack' = <<f>> \o Tail(stack)
    BY <1>3, SilentCall DEF OnCompletion, IInv, HonouredPoints
  <2>3. GoesOn(f) /\ InPhase(f.step, f.ask, f.call)
    BY <1>2, <2>1 DEF GoesOn, Guarded, InPhase, Asked, Rounding
  <2> HIDE DEF f
  <2> QED
    BY <1>1, <1>2, <2>1, <2>2, <2>3, Moves
<1>4. CASE reply[Top.ask].kind # "error"
  <2> DEFINE f == Frame("reply", Top.ask, 0, 0)
  <2>1. f \in FrameType /\ f.step = "reply" /\ f.alive = 0 /\ f.ask = Top.ask /\ f.call = 0
    BY <1>1, FrameIs, Bounds
  <2>2. stack' = <<f>> \o Tail(stack)
    BY <1>4, SilentCall DEF OnCompletion, IInv, HonouredPoints
  <2>3. GoesOn(f) /\ InPhase(f.step, f.ask, f.call)
    BY <1>2, <2>1 DEF GoesOn, Guarded, InPhase, Asked, Rounding
  <2> HIDE DEF f
  <2> QED
    BY <1>1, <1>2, <2>1, <2>2, <2>3, Moves
<1> QED
  BY <1>3, <1>4

LEMMA DeliverKeeps ==
  ASSUME IInv, Deliver
  PROVE  IInv'
<1>1. /\ stack # << >> /\ Top.step = "deliver" /\ GoesOn(Top) /\ UNCHANGED stored
      /\ Top.ask \in 0..MaxAsks
  BY AtTop DEF Deliver, Guarded, stored
<1>2. request # 0 /\ 0 <= life /\ request \in Nat /\ InPhase("deliver", Top.ask, Top.call)
  BY <1>1, TopDrives DEF IInv, TypeOK
<1> DEFINE f == Frame("delivered", Top.ask, request, 0)
<1>3. /\ f \in FrameType /\ f.step = "delivered" /\ f.alive = 0 /\ f.call = request
      /\ f.ask = Top.ask
  BY <1>1, <1>2, FrameIs, Bounds
<1>4. stack' = <<f>> \o Tail(stack)
  BY <1>2, SilentCall DEF Deliver, IInv, HonouredPoints
<1>5. GoesOn(f) /\ InPhase(f.step, f.ask, f.call)
  BY <1>2, <1>3 DEF GoesOn, Guarded, InPhase, Asked, Rounding
<1> HIDE DEF f
<1> QED
  BY <1>1, <1>2, <1>3, <1>4, <1>5, Moves

LEMMA CallsAreWords ==
  ASSUME IInv, NEW ask \in 1..asks
  PROVE  CallsOf(ask) \in Seq({"known", "unknown"})
<1>1. reply[ask] \in Replies \cup {NoReply}
  BY Bounds DEF IInv, TypeOK
<1>2. CASE \E b \in Batches : reply[ask] = [kind |-> "calls", calls |-> b]
  BY <1>2, BatchesAssumption DEF CallsOf
<1>3. CASE reply[ask].calls = << >>
  BY <1>3 DEF CallsOf
<1> QED
  BY <1>1, <1>2, <1>3 DEF Replies, NoReply

LEMMA EndRoundKeeps ==
  ASSUME IInv, EndRound
  PROVE  IInv'
<1>1. /\ stack # << >> /\ Top.step = "calls" /\ GoesOn(Top) /\ UNCHANGED stored
      /\ Top.ask \in 0..MaxAsks /\ Top.call \in Nat /\ life \in 0..MaxCancels
  BY AtTop DEF EndRound, Guarded, stored
<1>2. InPhase("calls", Top.ask, Top.call) /\ request # 0
  BY <1>1, TopDrives
<1>3. RoundInStep(Top.ask, Top.call) /\ sent[request] = rounds /\ ~TooManyRounds(rounds)
  BY <1>2 DEF InPhase, Rounding
<1>4. RoundAnswered
  <2>1. CallsOf(Top.ask) \in Seq({"known", "unknown"})
    BY <1>3, CallsAreWords DEF RoundInStep
  <2>2. \A d \in Answerable(Top.ask) : d < Top.call
    BY <1>1, <2>1 DEF EndRound, AllHandled, Answerable
  <2> QED
    BY <1>3, <2>2 DEF AllAnswered, RoundAnswered, RoundInStep, AnsweredUpTo
<1> DEFINE f == Frame("roundEnd", Top.ask, 0, life)
<1>5. f \in FrameType /\ f.step = "roundEnd" /\ f.alive = life
  <2>1. 0 \in Nat
    OBVIOUS
  <2> QED
    BY <1>1, <2>1, FrameIs
<1>6. stack' = <<f>> \o Tail(stack) \/ stack' = <<AppFrame, f>> \o Tail(stack)
  BY <1>2, OpenCall DEF EndRound
<1>7. GoesOn(f) /\ InPhase(f.step, f.ask, f.call) /\ f.alive <= life
  BY <1>1, <1>2, <1>3, <1>4, <1>5 DEF GoesOn, InPhase, Asked, Rounding
<1> HIDE DEF f
<1> QED
  BY <1>1, <1>5, <1>6, <1>7, Moves DEF Guarded

LEMMA FrameEnds ==
  ASSUME IInv, stack # << >>, ~GoesOn(Top), stack' = Tail(stack), UNCHANGED stored
  PROVE  IInv'
<1>1. UNCHANGED <<limit, life, request, rounds, messages, reply, held, open, asks, sent>>
  BY DEF stored, caller
<1>2. /\ \A h \in held : InPhase("held", h.ask, 0) => InPhase("held", h.ask, 0)'
      /\ \A t \in open : InPhase("open", t.ask, t.call) => InPhase("open", t.ask, t.call)'
      /\ \A f \in FrameType : InPhase(f.step, f.ask, f.call) => InPhase(f.step, f.ask, f.call)'
  BY <1>1, PhaseStays
<1>3. stack' \in Seq(FrameType) /\ StackInStep' /\ LoopInStep'
  BY <1>1, <1>2, PlaceStays
<1> QED
  BY <1>3, OnlyStack

LEMMA AskAgainKeeps ==
  ASSUME IInv, AskAgain
  PROVE  IInv'
<1>1. stack # << >> /\ Top.step = "roundEnd" /\ UNCHANGED stored /\ Resting(Tail(stack))
  BY AtTop, StackFacts DEF AskAgain, stored
<1>2. CASE Expired(Top.alive)
  <2>1. ~GoesOn(Top) /\ stack' = Tail(stack)
    BY <1>1, <1>2, Piled, AppFrameIs DEF AskAgain, Expired, GoesOn, Guarded, Resting
  <2> QED
    BY <1>1, <2>1, FrameEnds
<1>3. CASE ~Expired(Top.alive)
  <2>1. GoesOn(Top)
    BY <1>1, <1>3 DEF Expired, GoesOn
  <2>2. InPhase("roundEnd", Top.ask, Top.call) /\ 0 <= life
    BY <1>1, <2>1, TopDrives DEF IInv, TypeOK
  <2> DEFINE f == Frame("send", 0, 0, 0)
  <2>3. f \in FrameType /\ f.step = "send" /\ f.alive = 0 /\ GoesOn(f) /\ stack' = <<f>> \o Tail(stack)
    BY <1>3, CreateIs DEF AskAgain
  <2>4. InPhase(f.step, f.ask, f.call)
    BY <2>2, <2>3 DEF InPhase, Asked, Rounding
  <2> HIDE DEF f
  <2> QED
    BY <1>1, <2>1, <2>2, <2>3, <2>4, Moves
<1> QED
  BY <1>2, <1>3

LEMMA LastMessage ==
  ASSUME IInv
  PROVE  /\ Len(messages) \in Nat \ {0} /\ Len(messages) \in DOMAIN messages
         /\ Last.of \in Nat /\ Last.call \in Nat
<1>1. messages \in Seq(MessageType) /\ messages # << >>
  BY DEF IInv, TypeOK, MessagesInStep, MessageType
<1>2. Len(messages) \in 1..Len(messages) /\ DOMAIN messages = 1..Len(messages)
  BY <1>1, EmptySeq
<1>3. Last \in MessageType
  BY <1>1, <1>2 DEF Last
<1> QED
  BY <1>2, <1>3 DEF MessageType

(* A call the agent has no tool for needs no answer. *)
LEMMA SkipUnknownToolKeeps ==
  ASSUME IInv, SkipUnknownTool
  PROVE  IInv'
<1>1. /\ stack # << >> /\ Top.step = "calls" /\ GoesOn(Top) /\ UNCHANGED stored
      /\ Top.ask \in 0..MaxAsks /\ Top.call \in Nat /\ life \in 0..MaxCancels
      /\ CallsOf(Top.ask)[Top.call] = "unknown"
  BY AtTop DEF SkipUnknownTool, Handling, Guarded, stored
<1>2. InPhase("calls", Top.ask, Top.call) /\ request # 0
  BY <1>1, TopDrives
<1>3. RoundInStep(Top.ask, Top.call) /\ sent[request] = rounds /\ ~TooManyRounds(rounds)
  BY <1>2 DEF InPhase, Rounding
<1>4. RoundInStep(Top.ask, Top.call + 1)
  <2>1. CallsOf(Top.ask) \in Seq({"known", "unknown"})
    BY <1>3, CallsAreWords DEF RoundInStep
  <2>2. \A d \in Answerable(Top.ask) : d < Top.call + 1 => d < Top.call
    BY <1>1, <2>1 DEF Answerable
  <2>3. AnsweredUpTo(Top.call + 1)
    BY <1>3, <2>2 DEF RoundInStep, AnsweredUpTo
  <2>4. Last.role \in {"calls", "tool"} /\ Last.of = Top.ask /\ Last.call < Top.call
          => Last.call < Top.call + 1
    <3>1. Last.call \in Nat
      BY LastMessage
    <3> QED
      BY <1>1, <3>1
  <2> QED
    BY <1>1, <1>3, <2>3, <2>4 DEF RoundInStep
<1> DEFINE f == Frame("calls", Top.ask, Top.call + 1, 0)
<1>5. f \in FrameType /\ f.step = "calls" /\ f.ask = Top.ask /\ f.call = Top.call + 1 /\ f.alive = 0
  BY <1>1, FrameIs, Bounds
<1>6. stack' = <<f>> \o Tail(stack)
  BY DEF SkipUnknownTool, NextCall
<1>7. GoesOn(f) /\ InPhase(f.step, f.ask, f.call) /\ f.alive <= life
  BY <1>1, <1>2, <1>3, <1>4, <1>5 DEF GoesOn, InPhase, Asked, Rounding, Guarded
<1> HIDE DEF f
<1> QED
  BY <1>1, <1>5, <1>6, <1>7, Moves

LEMMA StartToolKeeps ==
  ASSUME IInv, StartTool
  PROVE  IInv'
<1>1. /\ stack # << >> /\ Top.step = "calls" /\ GoesOn(Top) /\ UNCHANGED stored
      /\ Top.ask \in 0..MaxAsks /\ Top.call \in Nat /\ life \in 0..MaxCancels
  BY AtTop DEF StartTool, Handling, Guarded, stored
<1>2. InPhase("calls", Top.ask, Top.call)
  BY <1>1, TopDrives
<1> DEFINE f == Frame("tool", Top.ask, Top.call, life)
<1>3. f \in FrameType /\ f.step = "tool" /\ f.ask = Top.ask /\ f.call = Top.call /\ f.alive = life
  BY <1>1, FrameIs
<1>4. stack' = <<f>> \o Tail(stack) \/ stack' = <<AppFrame, f>> \o Tail(stack)
  BY OpenCall DEF StartTool
<1>5. GoesOn(f) /\ InPhase(f.step, f.ask, f.call) /\ f.alive <= life
  BY <1>1, <1>2, <1>3 DEF GoesOn, InPhase, Asked, Rounding
<1> HIDE DEF f
<1> QED
  BY <1>1, <1>3, <1>4, <1>5, Moves DEF Guarded

-----------------------------------------------------------------------------
(* Steps of the loop that change the messages or what others wait for.     *)

LEMMA MessageIs ==
  ASSUME NEW role \in {"system", "user", "assistant", "calls", "tool"}, NEW by \in Nat,
         NEW of \in Nat, NEW call \in Nat
  PROVE  /\ Message(role, by, of, call) \in MessageType
         /\ Message(role, by, of, call).role = role /\ Message(role, by, of, call).by = by
         /\ Message(role, by, of, call).of = of /\ Message(role, by, of, call).call = call
BY DEF Message, MessageType

LEMMA Appended ==
  ASSUME IInv, NEW m \in MessageType, messages' = Append(messages, m)
  PROVE  /\ messages' \in Seq(MessageType) /\ Len(messages') = Len(messages) + 1 /\ Last' = m
         /\ DOMAIN messages' = 1..Len(messages) + 1 /\ DOMAIN messages = 1..Len(messages)
         /\ Len(messages) \in Nat \ {0}
         /\ \A i \in DOMAIN messages : messages'[i] = messages[i]
         /\ messages'[Len(messages) + 1] = m
         /\ MessagesInStep'
<1>1. messages \in Seq(MessageType) /\ Len(messages) \in Nat \ {0}
  BY LastMessage DEF IInv, TypeOK, MessageType
<1>2. /\ messages' \in Seq(MessageType) /\ Len(messages') = Len(messages) + 1
      /\ messages'[Len(messages) + 1] = m
      /\ DOMAIN messages' = 1..Len(messages) + 1 /\ DOMAIN messages = 1..Len(messages)
      /\ \A i \in DOMAIN messages : messages'[i] = messages[i]
  BY <1>1
<1>3. messages'[1] = messages[1] /\ messages' # << >>
  BY <1>1, <1>2
<1> QED
  BY <1>1, <1>2, <1>3 DEF IInv, MessagesInStep, Last

(* A message that is no result starts, or ends, a round. *)
LEMMA AppendedOther ==
  ASSUME IInv, NEW m \in MessageType, m.role # "tool", messages' = Append(messages, m)
  PROVE  /\ ResultsFollowTheirCalls'
         /\ \A i \in DOMAIN messages' : Round(i)' => i = Len(messages) + 1 /\ m.role = "calls"
<1>1. /\ messages' \in Seq(MessageType) /\ Len(messages') = Len(messages) + 1
      /\ DOMAIN messages' = 1..Len(messages) + 1 /\ DOMAIN messages = 1..Len(messages)
      /\ Len(messages) \in Nat \ {0}
      /\ \A i \in DOMAIN messages : messages'[i] = messages[i]
      /\ messages'[Len(messages) + 1] = m /\ messages[1].role = "system"
  BY Appended DEF IInv, MessagesInStep
<1>2. ResultsFollowTheirCalls'
  <2>1. ASSUME NEW i \in DOMAIN messages', messages'[i].role = "tool"
        PROVE  i - 1 \in DOMAIN messages /\ i \in DOMAIN messages
    <3>1. i # Len(messages) + 1 /\ i # 1
      BY <1>1, <2>1
    <3> QED
      BY <1>1, <3>1
  <2>2. ASSUME NEW i \in DOMAIN messages', messages'[i].role = "tool"
        PROVE  LET before == messages'[i - 1] IN
               \/ before.role \in {"calls", "tool"} /\ before.of = messages'[i].of
                    /\ before.call < messages'[i].call
               \/ before.role = "system" /\ before.of >= messages'[i].of
    BY <1>1, <2>1, <2>2 DEF IInv, ResultsFollowTheirCalls
  <2> QED
    BY <2>2 DEF ResultsFollowTheirCalls
<1>3. ASSUME NEW i \in DOMAIN messages', Round(i)' PROVE i = Len(messages) + 1
  <2>1. Len(messages) + 1 \in DOMAIN messages'
    BY <1>1
  <2>2. ~(Len(messages) + 1 > i)
    BY <1>1, <1>3, <2>1 DEF Round
  <2> QED
    BY <1>1, <2>2
<1>4. ASSUME NEW i \in DOMAIN messages', Round(i)' PROVE m.role = "calls"
  BY <1>1, <1>3, <1>4 DEF Round
<1> QED
  BY <1>2, <1>3, <1>4

(* Everything but the loop, when the loop moves on. *)
LEMMA OthersKeep ==
  ASSUME IInv, UNCHANGED <<limit, life, requests>>, stack' \in Seq(FrameType), StackInStep', LoopInStep',
         WaitersInStep', MessagesInStep', ResultsFollowTheirCalls', RequestsInStep', RequestsAccounted',
         request' \in 0..requests, rounds' \in Nat, messages' \in Seq(MessageType),
         reply' \in [1..MaxAsks -> Replies \cup {NoReply}],
         held' \subseteq [ask : 1..MaxAsks, alive : 0..MaxCancels],
         open' \subseteq [ask : 1..MaxAsks, call : Nat \ {0}, alive : 0..MaxCancels],
         asks' \in 0..MaxAsks, sent' \in [Requests -> Nat],
         reports' \in [Requests -> Seq({"finished", "failed"})], cancelled' \subseteq 1..requests
  PROVE  IInv'
<1>1. TypeOK'
  BY DEF IInv, TypeOK, MessageType
<1> QED
  BY <1>1 DEF IInv, Honours

LEMMA OnReplyKeeps ==
  ASSUME IInv, OnReply
  PROVE  IInv'
<1> DEFINE text == reply[Top.ask].kind = "text"
           over == ~text /\ TooManyRounds(rounds + 1)
<1>1. /\ stack # << >> /\ Top.step = "reply" /\ GoesOn(Top) /\ Top.ask \in 0..MaxAsks
      /\ UNCHANGED <<limit, life, request, reply, held, open, requests, reports, cancelled, asks, sent>>
      /\ rounds' = IF text THEN rounds ELSE rounds + 1
  BY AtTop DEF OnReply, Guarded, caller
<1>2. InPhase("reply", Top.ask, Top.call) /\ request # 0 /\ NoneHeld /\ NoneOpen
      /\ Resting(Tail(stack)) /\ Quiet(Tail(stack)) /\ 0 <= life
  BY <1>1, TopDrives, StackFacts DEF IInv, TypeOK
<1>3. PICK a \in 1..asks : a = Top.ask
  BY <1>2 DEF InPhase, Asked
<1>4. /\ sent[request] = rounds + 1 /\ ~TooManyRounds(rounds) /\ \A h \in held : h.ask # a
      /\ rounds \in Nat /\ asks \in Nat /\ a \in Nat /\ a \in 0..MaxAsks /\ limit \in Nat
  <2>1. limit \in Nat
    BY LimitIs
  <2> QED
    BY <1>2, <1>3, <2>1, Bounds DEF InPhase, Asked, IInv, TypeOK
<1>5. PICK m \in MessageType :
        /\ m.role = (IF text THEN "assistant" ELSE "calls") /\ m.of = a /\ m.call = 0
        /\ messages' = Append(messages, m)
  <2> DEFINE role == IF text THEN "assistant" ELSE "calls"
             m == Message(role, request, a, 0)
  <2>1. role \in {"system", "user", "assistant", "calls", "tool"} /\ request \in Nat
    BY Bounds DEF IInv, TypeOK
  <2>2. messages' = Append(messages, m)
    BY <1>3 DEF OnReply
  <2> HIDE DEF role
  <2>3. m \in MessageType /\ m.role = role /\ m.of = a /\ m.call = 0
    <3>1. a \in Nat /\ 0 \in Nat
      BY <1>4
    <3> QED
      BY <2>1, <3>1, MessageIs
  <2> HIDE DEF m
  <2> QED
    BY <2>2, <2>3 DEF role
<1>6. PICK f \in FrameType :
        /\ f.alive = 0 /\ f.ask = a /\ stack' = <<f>> \o Tail(stack)
        /\ text \/ over => f.step = "deliver"
        /\ ~(text \/ over) => f.step = "calls" /\ f.call = 1
  <2>1. CASE text \/ over
    <3> DEFINE g == Frame("deliver", a, 0, 0)
    <3>1. g \in FrameType /\ g.step = "deliver" /\ g.alive = 0 /\ g.ask = a
      BY <1>4, FrameIs, Bounds
    <3>2. stack' = <<g>> \o Tail(stack)
      BY <1>3, <2>1 DEF OnReply
    <3> HIDE DEF g
    <3> QED
      BY <2>1, <3>1, <3>2
  <2>2. CASE ~(text \/ over)
    <3> DEFINE g == Frame("calls", a, 1, 0)
    <3>1. g \in FrameType /\ g.step = "calls" /\ g.alive = 0 /\ g.ask = a /\ g.call = 1
      BY <1>4, FrameIs, Bounds
    <3>2. stack' = <<g>> \o Tail(stack)
      BY <1>3, <2>2 DEF OnReply
    <3> HIDE DEF g
    <3> QED
      BY <2>2, <3>1, <3>2
  <2> QED
    BY <2>1, <2>2
<1>7. WaitersInStep' /\ NoneHeld' /\ NoneOpen'
  BY <1>1, <1>2, WaitersSame
<1>8. /\ messages' \in Seq(MessageType) /\ Last' = m /\ MessagesInStep' /\ ResultsFollowTheirCalls'
      /\ \A i \in DOMAIN messages' : Round(i)' => i = Len(messages) + 1
      /\ messages'[Len(messages) + 1] = m
  BY <1>5, Appended, AppendedOther
<1>9. RequestsInStep' /\ RequestsAccounted'
  BY <1>1, RequestsSame
<1>10. ~text => RoundInStep(a, 1)'
  <2>1. SUFFICES ASSUME ~text PROVE RoundInStep(a, 1)'
    OBVIOUS
  <2>2. CallsOf(a) \in Seq({"known", "unknown"})
    BY CallsAreWords
  <2>3. \A d \in Answerable(a) : ~(d < 1)
    BY <2>2 DEF Answerable
  <2>4. \A i \in DOMAIN messages' : Round(i)' => messages'[i].of = a
    BY <1>5, <1>8
  <2>5. AnsweredUpTo(1)'
    BY <1>1, <2>3, <2>4 DEF AnsweredUpTo, Answerable, CallsOf
  <2>6. Last'.role = "calls" /\ Last'.of = a /\ Last'.call < 1
    BY <1>5, <1>8, <2>1
  <2> QED
    BY <1>1, <1>4, <2>4, <2>5, <2>6 DEF RoundInStep
<1>11. ~(text \/ over) => sent'[request'] = rounds' /\ ~TooManyRounds(rounds)'
  <2>1. SUFFICES ASSUME ~text, ~TooManyRounds(rounds + 1)
                 PROVE  sent[request] = rounds' /\ ~TooManyRounds(rounds)'
    BY <1>1
  <2> QED
    BY <1>1, <1>4, <2>1 DEF TooManyRounds
<1>12. InPhase(f.step, f.ask, f.call)'
  BY <1>1, <1>2, <1>3, <1>4, <1>6, <1>10, <1>11 DEF TooManyRounds, InPhase, Asked, Rounding
<1>13. GoesOn(f) /\ f.alive <= life
  BY <1>2, <1>6 DEF GoesOn, Guarded
<1>14. stack' \in Seq(FrameType) /\ StackInStep' /\ LoopInStep'
  BY <1>1, <1>2, <1>6, <1>7, <1>12, <1>13, GoesOnTop
<1>15. rounds' \in Nat
  BY <1>1, <1>4
<1> QED
  BY <1>1, <1>7, <1>8, <1>9, <1>14, <1>15, OthersKeep DEF IInv, TypeOK


(* A result is put behind the round it belongs to. *)
LEMMA AppendedResult ==
  ASSUME IInv, NEW m \in MessageType, m.role = "tool", messages' = Append(messages, m),
         \/ Last.role \in {"calls", "tool"} /\ Last.of = m.of /\ Last.call < m.call
         \/ Last.role = "system" /\ Last.of >= m.of
  PROVE  /\ ResultsFollowTheirCalls'
         /\ \A i \in DOMAIN messages' : Round(i)' =>
              /\ i \in DOMAIN messages /\ Round(i) /\ messages'[i] = messages[i]
              /\ \A d : (d = m.call /\ messages[i].of = m.of) \/ Answered(i, d) => Answered(i, d)'
<1>1. /\ DOMAIN messages' = 1..Len(messages) + 1 /\ DOMAIN messages = 1..Len(messages)
      /\ Len(messages) \in Nat \ {0}
      /\ \A i \in DOMAIN messages : messages'[i] = messages[i]
      /\ messages'[Len(messages) + 1] = m /\ messages[1].role = "system"
  BY Appended DEF IInv, MessagesInStep
<1>2. ResultsFollowTheirCalls'
  <2>1. ASSUME NEW i \in DOMAIN messages', messages'[i].role = "tool"
        PROVE  LET before == messages'[i - 1] IN
               \/ before.role \in {"calls", "tool"} /\ before.of = messages'[i].of
                    /\ before.call < messages'[i].call
               \/ before.role = "system" /\ before.of >= messages'[i].of
    <3>1. CASE i = Len(messages) + 1
      <4>1. i - 1 = Len(messages) /\ i - 1 \in DOMAIN messages
        BY <1>1, <3>1
      <4>2. messages'[i] = m /\ messages'[i - 1] = Last
        BY <1>1, <3>1, <4>1 DEF Last
      <4> QED
        BY <4>2
    <3>2. CASE i # Len(messages) + 1
      <4>1. i \in DOMAIN messages /\ messages'[i] = messages[i]
        BY <1>1, <3>2
      <4>2. i - 1 \in DOMAIN messages /\ messages'[i - 1] = messages[i - 1]
        BY <1>1, <2>1, <4>1
      <4> QED
        BY <2>1, <4>1, <4>2 DEF IInv, ResultsFollowTheirCalls
    <3> QED
      BY <3>1, <3>2
  <2> QED
    BY <2>1 DEF ResultsFollowTheirCalls
<1>3. ASSUME NEW i \in DOMAIN messages', Round(i)'
      PROVE  /\ i \in DOMAIN messages /\ Round(i) /\ messages'[i] = messages[i]
             /\ \A d : (d = m.call /\ messages[i].of = m.of) \/ Answered(i, d) => Answered(i, d)'
  <2>1. i \in DOMAIN messages /\ messages'[i] = messages[i]
    BY <1>1, <1>3 DEF Round
  <2>2. Round(i)
    <3>1. ASSUME NEW j \in DOMAIN messages, j > i PROVE messages[j].role = "tool"
      BY <1>1, <1>3, <3>1 DEF Round
    <3> QED
      BY <1>3, <2>1, <3>1 DEF Round
  <2>3. Len(messages) + 1 \in DOMAIN messages' /\ Len(messages) + 1 > i
    BY <1>1, <2>1
  <2>4. ASSUME NEW d, d = m.call, messages[i].of = m.of PROVE Answered(i, d)'
    BY <1>1, <2>1, <2>3, <2>4 DEF Answered
  <2>5. ASSUME NEW d, Answered(i, d) PROVE Answered(i, d)'
    <3>1. PICK j \in DOMAIN messages :
            j > i /\ messages[j].role = "tool" /\ messages[j].of = messages[i].of /\ messages[j].call = d
      BY <2>5 DEF Answered
    <3>2. j \in DOMAIN messages' /\ messages'[j] = messages[j]
      BY <1>1
    <3> QED
      BY <2>1, <3>1, <3>2 DEF Answered
  <2> QED
    BY <2>1, <2>2, <2>4, <2>5
<1> QED
  BY <1>2, <1>3

LEMMA RecordAnswerKeeps ==
  ASSUME IInv, RecordAnswer
  PROVE  IInv'
<1>1. /\ stack # << >> /\ Top.step = "answer" /\ Top.ask \in 0..MaxAsks /\ Top.call \in Nat
      /\ life \in 0..MaxCancels
      /\ UNCHANGED <<limit, life, request, rounds, reply, held, open, requests, reports, cancelled, asks, sent>>
  BY AtTop DEF RecordAnswer, caller
<1>2. CASE Expired(Top.alive)
  <2>1. ~GoesOn(Top) /\ stack' = Tail(stack) /\ UNCHANGED stored
    BY <1>1, <1>2 DEF RecordAnswer, Expired, GoesOn, Guarded, stored, caller
  <2> QED
    BY <1>1, <2>1, FrameEnds
<1>3. CASE ~Expired(Top.alive)
  <2>1. /\ GoesOn(Top)
        /\ messages' = Append(messages, Message("tool", request, Top.ask, Top.call))
        /\ stack' = <<Frame("calls", Top.ask, Top.call + 1, 0)>> \o Tail(stack)
    BY <1>1, <1>3 DEF RecordAnswer, Expired, GoesOn, NextCall
  <2>2. InPhase("answer", Top.ask, Top.call) /\ request # 0 /\ NoneHeld /\ NoneOpen
        /\ Resting(Tail(stack)) /\ Quiet(Tail(stack))
    BY <1>1, <2>1, TopDrives, StackFacts
  <2>3. PICK a \in 1..asks, c \in Nat \ {0} : a = Top.ask /\ c = Top.call
    BY <2>2 DEF InPhase, Rounding, RoundInStep
  <2>4. RoundInStep(a, c) /\ sent[request] = rounds /\ ~TooManyRounds(rounds)
    BY <2>2, <2>3 DEF InPhase, Rounding
  <2>5. a \in Nat /\ a \in 0..MaxAsks /\ c + 1 \in Nat \ {0} /\ c < c + 1
    BY <1>1, <2>3, Bounds
  <2>6. PICK m \in MessageType : /\ m.role = "tool" /\ m.of = a /\ m.call = c
                                 /\ messages' = Append(messages, m)
    <3> DEFINE m == Message("tool", request, a, c)
    <3>1. m \in MessageType /\ m.role = "tool" /\ m.of = a /\ m.call = c
      <4>1. request \in Nat /\ c \in Nat
        BY <2>3 DEF IInv, TypeOK
      <4> QED
        BY <2>5, <4>1, MessageIs
    <3>2. messages' = Append(messages, m)
      BY <2>1, <2>3
    <3> HIDE DEF m
    <3> QED
      BY <3>1, <3>2
  <2>7. PICK f \in FrameType : /\ f.step = "calls" /\ f.ask = a /\ f.call = c + 1 /\ f.alive = 0
                               /\ stack' = <<f>> \o Tail(stack)
    <3> DEFINE f == Frame("calls", a, c + 1, 0)
    <3>1. f \in FrameType /\ f.step = "calls" /\ f.ask = a /\ f.call = c + 1 /\ f.alive = 0
      BY <2>5, FrameIs, Bounds
    <3>2. stack' = <<f>> \o Tail(stack)
      BY <2>1, <2>3
    <3> HIDE DEF f
    <3> QED
      BY <3>1, <3>2
  <2>8. /\ ResultsFollowTheirCalls' /\ MessagesInStep' /\ messages' \in Seq(MessageType) /\ Last' = m
        /\ \A i \in DOMAIN messages' : Round(i)' =>
              /\ i \in DOMAIN messages /\ Round(i) /\ messages'[i] = messages[i]
              /\ \A d : (d = c /\ messages[i].of = a) \/ Answered(i, d) => Answered(i, d)'
    BY <2>4, <2>6, Appended, AppendedResult DEF RoundInStep
  <2>9. RoundInStep(a, c + 1)'
    <3>1. \A i \in DOMAIN messages' : Round(i)' => messages'[i].of = a
      BY <2>4, <2>8 DEF RoundInStep
    <3>2. AnsweredUpTo(c + 1)'
      <4>1. SUFFICES ASSUME NEW i \in DOMAIN messages', Round(i)',
                            NEW d \in Answerable(a), d < c + 1
                     PROVE  Answered(i, d)'
        BY <1>1, <3>1 DEF AnsweredUpTo, Answerable, CallsOf
      <4>2. d = c \/ d < c
        <5>1. d \in Nat
          BY CallsAreWords DEF Answerable
        <5> QED
          BY <4>1, <5>1
      <4>3. d < c => Answered(i, d)
        BY <2>4, <2>8, <4>1 DEF RoundInStep, AnsweredUpTo
      <4>4. messages[i].of = a
        BY <2>4, <2>8, <4>1 DEF RoundInStep
      <4> QED
        BY <2>8, <4>1, <4>2, <4>3, <4>4
    <3>3. Last'.role = "tool" /\ Last'.of = a /\ Last'.call < c + 1
      BY <2>5, <2>6, <2>8
    <3>4. \A h \in held : h.ask # a
      BY <2>4 DEF RoundInStep
    <3> QED
      BY <1>1, <2>5, <3>1, <3>2, <3>3, <3>4 DEF RoundInStep
  <2>10. WaitersInStep' /\ NoneHeld' /\ NoneOpen'
    BY <1>1, <2>2, WaitersSame
  <2>11. InPhase(f.step, f.ask, f.call)'
    BY <1>1, <2>2, <2>4, <2>7, <2>9 DEF TooManyRounds, InPhase, Asked, Rounding
  <2>12. GoesOn(f) /\ f.alive <= life
    BY <1>1, <2>7 DEF GoesOn, Guarded
  <2>13. stack' \in Seq(FrameType) /\ StackInStep' /\ LoopInStep'
    BY <1>1, <2>2, <2>7, <2>10, <2>11, <2>12, GoesOnTop
  <2>14. RequestsInStep' /\ RequestsAccounted'
    BY <1>1, RequestsSame
  <2> QED
    BY <1>1, <2>8, <2>10, <2>13, <2>14, OthersKeep DEF IInv, TypeOK
<1> QED
  BY <1>2, <1>3

(* The loop waits for a tool, or for the client, from now on. *)
LEMMA InsideIs ==
  ASSUME NEW point, NEW rest \in Seq(FrameType)
  PROVE  Inside(point) \o rest = rest \/ Inside(point) \o rest = <<AppFrame>> \o rest
BY Piled, AppFrameIs DEF Inside

LEMMA RunToolKeeps ==
  ASSUME IInv, RunTool
  PROVE  IInv'
<1>1. /\ stack # << >> /\ Top.step = "tool" /\ Top.ask \in 0..MaxAsks /\ Top.call \in Nat
      /\ life \in 0..MaxCancels
      /\ UNCHANGED <<limit, life, request, rounds, messages, reply, held, requests, reports, cancelled, asks, sent>>
  BY AtTop DEF RunTool, caller
<1>2. CASE Expired(Top.alive)
  <2>1. ~GoesOn(Top) /\ stack' = Tail(stack) /\ UNCHANGED stored
    BY <1>1, <1>2 DEF RunTool, Expired, GoesOn, Guarded, stored, caller
  <2> QED
    BY <1>1, <2>1, FrameEnds
<1>3. CASE ~Expired(Top.alive)
  <2>1. /\ GoesOn(Top) /\ Top.alive = life
        /\ open' = open \cup {[ask |-> Top.ask, call |-> Top.call, alive |-> Top.alive]}
        /\ stack' = Inside("tool") \o Tail(stack)
    BY <1>1, <1>3 DEF RunTool, Expired, GoesOn
  <2>2. InPhase("tool", Top.ask, Top.call) /\ NoneHeld /\ NoneOpen
        /\ Resting(Tail(stack)) /\ Quiet(Tail(stack))
    BY <1>1, <2>1, TopDrives, StackFacts
  <2>3. Top.ask \in 1..asks /\ Top.call \in Nat \ {0}
    BY <2>2 DEF InPhase, Rounding, RoundInStep
  <2>4. PICK t \in [ask : 1..MaxAsks, call : Nat \ {0}, alive : 0..MaxCancels] :
          t.ask = Top.ask /\ t.call = Top.call /\ t.alive = life /\ open' = open \cup {t}
    <3> DEFINE t == [ask |-> Top.ask, call |-> Top.call, alive |-> Top.alive]
    <3>1. t \in [ask : 1..MaxAsks, call : Nat \ {0}, alive : 0..MaxCancels]
      BY <1>1, <2>1, <2>3, Bounds
    <3>2. t.ask = Top.ask /\ t.call = Top.call /\ t.alive = life /\ open' = open \cup {t}
      BY <2>1
    <3> HIDE DEF t
    <3> QED
      BY <3>1, <3>2
  <2>5. InPhase("open", t.ask, t.call)'
    <3>1. InPhase("open", t.ask, t.call)
      BY <2>2, <2>4 DEF InPhase, Asked, Rounding
    <3> QED
      BY <1>1, <3>1, PhaseStays
  <2>6. stack' \in Seq(FrameType) /\ StackInStep' /\ NoFrame'
    BY <1>1, <2>1, <2>2, InsideIs, EndsOnTop DEF Resting
  <2>7. NoneHeld' /\ WaitersInStep'
    <3>1. \A u \in open' : u.alive <= life
      <4>1. life <= life
        BY <1>1
      <4> QED
        BY <2>4, <4>1 DEF IInv, WaitersInStep
    <3> QED
      BY <1>1, <2>2, <3>1 DEF NoneHeld, WaitersInStep, IInv
  <2>8. AtOpen'
    BY <1>1, <2>2, <2>4, <2>5, <2>6, <2>7 DEF AtOpen, NoneOpen
  <2>9. MessagesInStep' /\ ResultsFollowTheirCalls' /\ RequestsInStep' /\ RequestsAccounted'
    BY <1>1, MessagesSame, RequestsSame
  <2> QED
    BY <1>1, <2>1, <2>4, <2>6, <2>7, <2>8, <2>9, OthersKeep DEF IInv, TypeOK, LoopInStep, MessageType
<1> QED
  BY <1>2, <1>3

LEMMA AskedOnce ==
  ASSUME IInv, request # 0, sent[request] = rounds, ~TooManyRounds(rounds), asks < MaxAsks,
         UNCHANGED <<limit, request, requests, reports, cancelled>>,
         sent' = [sent EXCEPT ![request] = @ + 1], asks' = asks + 1
  PROVE  /\ RequestsInStep' /\ RequestsAccounted' /\ sent' \in [Requests -> Nat]
         /\ sent'[request] = rounds + 1 /\ asks' \in 0..MaxAsks
         /\ asks \in Nat /\ asks' \in 1..asks' /\ asks' \in 1..MaxAsks
<1>1. /\ request \in Requests /\ request <= requests /\ requests \in 0..MaxRequests
      /\ rounds \in Nat /\ asks \in Nat /\ MaxAsks \in Nat /\ limit \in Nat
      /\ sent \in [Requests -> Nat]
  <2>1. limit \in Nat
    BY LimitIs
  <2> QED
    BY <2>1, Bounds DEF IInv, TypeOK, Requests
<1>2. /\ sent' \in [Requests -> Nat] /\ sent'[request] = rounds + 1
      /\ \A r \in Requests : r # request => sent'[r] = sent[r]
  BY <1>1
<1>3. RequestsInStep'
  BY <1>1, <1>2 DEF IInv, RequestsInStep, Requests
<1>4. RequestsAccounted'
  <2> DEFINE acc(r) == Len(reports[r]) + (IF r \in cancelled THEN 1 ELSE 0)
                        + (IF r = request THEN 1 ELSE 0)
  <2>0. /\ requests' = requests /\ \A r : acc(r)' = acc(r)
        /\ \A r \in 1..requests : acc(r) = 1
    BY DEF IInv, RequestsAccounted
  <2> HIDE DEF acc
  <2>1. ASSUME NEW r \in 1..requests PROVE (limit' # Unlimited => sent'[r] <= limit' + 1)
    <3>1. r \in Requests
      BY <1>1, Bounds DEF Requests
    <3>2. (limit # Unlimited => sent[r] <= limit + 1)
      BY DEF IInv, RequestsAccounted
    <3> QED
      BY <1>1, <1>2, <3>1, <3>2 DEF TooManyRounds
  <2>2. \A r \in 1..requests' : acc(r)' = 1 /\ (limit' # Unlimited => sent'[r] <= limit' + 1)
    BY <2>0, <2>1
  <2> QED
    BY <2>2, Zenon DEF RequestsAccounted, acc
<1> QED
  BY <1>1, <1>2, <1>3, <1>4

LEMMA SendKeeps ==
  ASSUME IInv, Send
  PROVE  IInv'
<1>1. /\ stack # << >> /\ Top.step = "send" /\ GoesOn(Top) /\ life \in 0..MaxCancels
      /\ asks < MaxAsks /\ asks' = asks + 1
      /\ UNCHANGED <<limit, life, request, rounds, messages, open, requests, reports, cancelled>>
  <2>1. asks < AskBound /\ asks \in Nat /\ MaxAsks \in Nat
    BY Bounds DEF Send, IInv, TypeOK
  <2>2. asks < MaxAsks
    BY <2>1, LimitIs
  <2> QED
    BY <2>2, AtTop DEF Send, Guarded, caller
<1>2. /\ InPhase("send", Top.ask, Top.call) /\ request # 0 /\ NoneHeld /\ NoneOpen
      /\ Resting(Tail(stack)) /\ Quiet(Tail(stack))
  BY <1>1, TopDrives, StackFacts
<1>3. sent[request] = rounds /\ ~TooManyRounds(rounds) /\ sent' = [sent EXCEPT ![request] = @ + 1]
  BY <1>2 DEF InPhase, Asked, Rounding, Send
<1>4. /\ RequestsInStep' /\ RequestsAccounted' /\ sent' \in [Requests -> Nat]
      /\ sent'[request] = rounds + 1 /\ asks' \in 0..MaxAsks
      /\ asks \in Nat /\ asks' \in 1..asks' /\ asks' \in 1..MaxAsks
  BY <1>1, <1>2, <1>3, AskedOnce
<1>5. PICK a : a = asks'
  OBVIOUS
<1>6. MessagesInStep' /\ ResultsFollowTheirCalls' /\ NoneOpen'
  BY <1>1, <1>2, MessagesSame DEF NoneOpen
<1>7. \A h \in held : h.ask \in Nat /\ h.ask < a
  <2>1. \A h \in held : h.ask \in Nat /\ h.ask <= asks
    BY Bounds DEF IInv, TypeOK, WaitersInStep
  <2> QED
    BY <1>1, <1>4, <1>5, <2>1
<1>8. CASE /\ held' = held \cup {[ask |-> asks + 1, alive |-> life]}
           /\ stack' = Tail(stack) /\ UNCHANGED reply
  <2>1. PICK h \in [ask : 1..MaxAsks, alive : 0..MaxCancels] :
          h.ask = a /\ h.alive = life /\ held' = held \cup {h}
    <3> DEFINE h == [ask |-> asks + 1, alive |-> life]
    <3>1. h \in [ask : 1..MaxAsks, alive : 0..MaxCancels] /\ h.ask = a /\ h.alive = life
      BY <1>1, <1>4, <1>5
    <3>2. held' = held \cup {h}
      BY <1>8
    <3> HIDE DEF h
    <3> QED
      BY <3>1, <3>2
  <2>2. stack' \in Seq(FrameType) /\ StackInStep' /\ NoFrame'
    BY <1>1, <1>2, <1>8, EndsOnTop
  <2>3. WaitersInStep'
    <3>1. \A g \in held' : g.alive <= life /\ g.ask <= a
      <4>1. \A g \in held : g.alive <= life
        BY DEF IInv, WaitersInStep
      <4>2. life <= life /\ a <= a
        BY <1>1, <1>4, <1>5
      <4>3. \A g \in held : g.ask <= a
        BY <1>4, <1>5, <1>7
      <4> QED
        BY <2>1, <4>1, <4>2, <4>3
    <3>2. \A f, g \in held' : f.ask = g.ask => f = g
      <4>1. \A f \in held : f.ask # h.ask
        BY <1>4, <1>5, <1>7, <2>1
      <4> QED
        BY <2>1, <4>1 DEF IInv, WaitersInStep
    <3> QED
      BY <1>1, <1>5, <3>1, <3>2 DEF IInv, WaitersInStep
  <2>4. InPhase("held", h.ask, 0)'
    BY <1>1, <1>2, <1>3, <1>4, <1>5, <2>1 DEF TooManyRounds, InPhase, Asked, Rounding
  <2>5. AtHeld'
    BY <1>1, <1>2, <1>6, <2>1, <2>2, <2>4 DEF AtHeld, NoneHeld
  <2>6. held' \subseteq [ask : 1..MaxAsks, alive : 0..MaxCancels]
    BY <2>1 DEF IInv, TypeOK
  <2> QED
    BY <1>1, <1>4, <1>6, <1>8, <2>2, <2>3, <2>5, <2>6, OthersKeep
       DEF IInv, TypeOK, LoopInStep, MessageType
<1>9. CASE /\ \E r \in Replies : reply' = [reply EXCEPT ![asks + 1] = r]
           /\ stack' = <<Frame("completion", asks + 1, 0, 0)>> \o Tail(stack)
           /\ UNCHANGED held
  <2>1. PICK f \in FrameType : /\ f.step = "completion" /\ f.ask = a /\ f.call = 0 /\ f.alive = 0
                               /\ stack' = <<f>> \o Tail(stack)
    <3> DEFINE f == Frame("completion", asks + 1, 0, 0)
    <3>1. f \in FrameType /\ f.step = "completion" /\ f.ask = a /\ f.call = 0 /\ f.alive = 0
      <4>1. asks + 1 \in 0..MaxAsks /\ asks + 1 = a
        BY <1>1, <1>4, <1>5
      <4> QED
        BY <4>1, FrameIs, Bounds
    <3>2. stack' = <<f>> \o Tail(stack)
      BY <1>9
    <3> HIDE DEF f
    <3> QED
      BY <3>1, <3>2
  <2>2. WaitersInStep' /\ NoneHeld'
    <3>1. \A g \in held : g.ask <= a
      BY <1>4, <1>5, <1>7
    <3> QED
      BY <1>1, <1>2, <1>5, <1>9, <3>1 DEF IInv, WaitersInStep, NoneHeld
  <2>3. InPhase(f.step, f.ask, f.call)'
    <3>1. \A h \in held' : h.ask # a
      BY <1>4, <1>5, <1>7, <1>9
    <3> QED
      BY <1>1, <1>2, <1>3, <1>4, <1>5, <2>1, <3>1 DEF TooManyRounds, InPhase, Asked, Rounding
  <2>4. GoesOn(f) /\ f.alive <= life
    BY <1>1, <2>1 DEF GoesOn, Guarded
  <2>5. stack' \in Seq(FrameType) /\ StackInStep' /\ LoopInStep'
    BY <1>1, <1>2, <1>6, <2>1, <2>2, <2>3, <2>4, GoesOnTop
  <2>6. reply' \in [1..MaxAsks -> Replies \cup {NoReply}]
    BY <1>9 DEF IInv, TypeOK
  <2> QED
    BY <1>1, <1>4, <1>6, <1>9, <2>2, <2>5, <2>6, OthersKeep DEF IInv, TypeOK, MessageType
<1> QED
  BY <1>8, <1>9 DEF Send

LEMMA DeliveredKeeps ==
  ASSUME IInv, Delivered
  PROVE  IInv'
<1>1. /\ stack # << >> /\ Top.step = "delivered" /\ GoesOn(Top)
      /\ request' = 0 /\ stack' = Inside("finished") \o Tail(stack)
      /\ UNCHANGED <<limit, life, rounds, messages, reply, held, open, requests, asks, sent, cancelled>>
  BY AtTop DEF Delivered, Guarded
<1>2. /\ request # 0 /\ Top.call = request /\ NoneHeld /\ NoneOpen
      /\ Resting(Tail(stack)) /\ Quiet(Tail(stack))
  BY <1>1, TopDrives, StackFacts DEF InPhase
<1>3. PICK e \in {"finished", "failed"} : reports' = [reports EXCEPT ![request] = Append(@, e)]
  BY <1>2 DEF Delivered
<1>4. /\ request \in Requests /\ request \in 1..requests /\ requests \in 0..MaxRequests
      /\ reports \in [Requests -> Seq({"finished", "failed"})]
  BY <1>2, Bounds DEF IInv, TypeOK, Requests
<1>5. /\ reports' \in [Requests -> Seq({"finished", "failed"})]
      /\ Len(reports'[request]) = Len(reports[request]) + 1 /\ Len(reports[request]) \in Nat
      /\ \A r \in Requests : r # request => reports'[r] = reports[r]
  BY <1>3, <1>4
<1>6. RequestsInStep'
  BY <1>1, <1>4, <1>5 DEF IInv, RequestsInStep, Requests
<1>7. RequestsAccounted'
  <2> DEFINE gone(r) == IF r \in cancelled THEN 1 ELSE 0
             there(r) == IF r = request THEN 1 ELSE 0
  <2>1. /\ \A r : gone(r)' = gone(r) /\ gone(r) \in {0, 1}
        /\ \A r \in 1..requests : there(r) = (IF r = request THEN 1 ELSE 0) /\ there(r)' = 0
    BY <1>1, <1>4
  <2>2. \A r \in 1..requests :
          /\ Len(reports[r]) + gone(r) + there(r) = 1 /\ (limit # Unlimited => sent[r] <= limit + 1)
          /\ r \in Requests
    <3>1. \A r \in 1..requests : r \in Requests
      BY <1>4, Bounds DEF Requests
    <3>2. RequestsAccounted
      BY DEF IInv
    <3> QED
      BY <3>1, <3>2, Zenon DEF RequestsAccounted
  <2> HIDE DEF gone, there
  <2>3. SUFFICES ASSUME NEW r \in 1..requests PROVE Len(reports'[r]) + gone(r)' + there(r)' = 1
    BY <1>1, <2>2, Zenon DEF RequestsAccounted, gone, there
  <2>4. CASE r = request
    <3>1. there(r) = 1 /\ there(r)' = 0 /\ gone(r)' = gone(r) /\ gone(r) \in {0, 1}
      BY <2>1, <2>4
    <3>2. Len(reports[r]) + gone(r) + there(r) = 1
      BY <2>2
    <3> QED
      BY <1>5, <2>4, <3>1, <3>2
  <2>5. CASE r # request
    <3>1. there(r) = 0 /\ there(r)' = 0 /\ gone(r)' = gone(r)
      BY <2>1, <2>5
    <3>2. Len(reports[r]) + gone(r) + there(r) = 1 /\ reports'[r] = reports[r]
      BY <1>5, <2>2, <2>5
    <3> QED
      BY <3>1, <3>2
  <2> QED
    BY <2>4, <2>5
<1>8. MessagesInStep' /\ ResultsFollowTheirCalls' /\ WaitersInStep' /\ NoneHeld' /\ NoneOpen'
  BY <1>1, <1>2, MessagesSame, WaitersSame
<1>9. stack' \in Seq(FrameType) /\ StackInStep' /\ NoFrame'
  BY <1>1, <1>2, InsideIs, EndsOnTop DEF Resting
<1>10. LoopInStep' /\ request' \in 0..requests
  BY <1>1, <1>4, <1>8, <1>9 DEF LoopInStep
<1> QED
  BY <1>1, <1>5, <1>6, <1>7, <1>8, <1>9, <1>10, OthersKeep DEF IInv, TypeOK, MessageType

-----------------------------------------------------------------------------
(* The client and the tools.                                               *)

(* What is known at a place does not depend on replies to other asks. *)
LEMMA PhaseOfOthers ==
  ASSUME UNCHANGED <<limit, request, rounds, sent, messages, asks>>, held' \subseteq held,
         NEW a, \A n : n # a => reply'[n] = reply[n],
         NEW step, NEW ask, NEW c, ask # a, step \in Asked \cup Rounding, InPhase(step, ask, c)
  PROVE  InPhase(step, ask, c)'
<1>1. Answerable(ask)' = Answerable(ask)
  BY DEF Answerable, CallsOf
<1>2. RoundInStep(ask, c) => RoundInStep(ask, c)'
  BY <1>1 DEF RoundInStep, AnsweredUpTo, Round, Answered, Last
<1> QED
  BY <1>2 DEF TooManyRounds, InPhase, Asked, Rounding

LEMMA ClientAnswersKeeps ==
  ASSUME IInv, ClientAnswers
  PROVE  IInv'
<1>1. /\ stack = << >> /\ NoFrame /\ life \in 0..MaxCancels
      /\ UNCHANGED <<limit, life, request, rounds, messages, open, requests, reports, cancelled, asks, sent>>
  BY DEF ClientAnswers, caller, NoFrame, IInv, TypeOK
<1>2. PICK h \in held, r \in Replies :
        /\ held' = held \ {h} /\ reply' = [reply EXCEPT ![h.ask] = r]
        /\ stack' = IF Expired(h.alive) THEN << >> ELSE <<Frame("completion", h.ask, 0, 0)>>
  BY DEF ClientAnswers
<1>3. PICK a \in 1..MaxAsks : a = h.ask
  BY DEF IInv, TypeOK
<1>4. /\ reply' \in [1..MaxAsks -> Replies \cup {NoReply}]
      /\ held' \subseteq [ask : 1..MaxAsks, alive : 0..MaxCancels]
      /\ \A n : n # a => reply'[n] = reply[n]
  BY <1>2, <1>3 DEF IInv, TypeOK
<1>5. WaitersInStep' /\ (NoneHeld => NoneHeld') /\ (NoneOpen => NoneOpen')
  BY <1>1, <1>2, WaitersSame
<1>6. MessagesInStep' /\ ResultsFollowTheirCalls' /\ RequestsInStep' /\ RequestsAccounted'
  BY <1>1, MessagesSame, RequestsSame
<1>7. CASE Expired(h.alive)
  <2>1. stack' = stack
    BY <1>1, <1>2, <1>7
  <2>2. \A g \in held : g.alive = life => g \in held'
    BY <1>2, <1>7 DEF Expired
  <2>3. ASSUME NEW g \in held, InPhase("held", g.ask, 0) PROVE InPhase("held", g.ask, 0)'
    BY <1>1, <2>3 DEF TooManyRounds, InPhase, Asked, Rounding
  <2>4. ASSUME NEW t \in open, InPhase("open", t.ask, t.call) PROVE InPhase("open", t.ask, t.call)'
    <3>1. t.ask # a
      BY <1>2, <1>3, <2>4 DEF InPhase, Rounding, RoundInStep
    <3> QED
      BY <1>1, <1>2, <1>4, <2>4, <3>1, PhaseOfOthers DEF Rounding
  <2>5. \A f \in FrameType : ~(\E i \in DOMAIN stack : f = stack[i])
    BY <1>1
  <2>6. stack' \in Seq(FrameType) /\ StackInStep' /\ LoopInStep'
    BY <1>1, <1>2, <2>1, <2>2, <2>3, <2>4, <2>5, PlaceStays
  <2> QED
    BY <1>1, <1>4, <1>5, <1>6, <2>6, OthersKeep DEF IInv, TypeOK, MessageType
<1>8. CASE ~Expired(h.alive)
  <2>1. AtHeld
    BY <1>1, <1>8 DEF IInv, LoopInStep, NoneHeld, AtOpen, AtFrame, NoFrame, Expired
  <2>2. InPhase("held", a, 0) /\ NoneOpen /\ \A g \in held : g.alive = life => g = h
    BY <1>3, <1>8, <2>1 DEF AtHeld, Expired
  <2>3. PICK f \in FrameType : /\ f.step = "completion" /\ f.ask = a /\ f.call = 0 /\ f.alive = 0
                               /\ stack' = <<f>> \o << >>
    <3> DEFINE f == Frame("completion", a, 0, 0)
    <3>1. f \in FrameType /\ f.step = "completion" /\ f.ask = a /\ f.call = 0 /\ f.alive = 0
      <4>1. a \in 0..MaxAsks
        OBVIOUS
      <4> QED
        BY <4>1, FrameIs, Bounds
    <3>2. stack' = <<f>>
      BY <1>2, <1>3, <1>8
    <3>3. <<f>> \o << >> = <<f>>
      OBVIOUS
    <3> HIDE DEF f
    <3> QED
      BY <3>1, <3>2, <3>3
  <2>4. NoneHeld'
    BY <1>1, <1>2, <2>2 DEF NoneHeld
  <2>5. InPhase(f.step, f.ask, f.call)'
    <3>1. \A g \in held' : g.ask # a
      BY <1>2, <1>3 DEF IInv, WaitersInStep
    <3> QED
      BY <1>1, <2>2, <2>3, <3>1 DEF TooManyRounds, InPhase, Asked, Rounding
  <2>6. GoesOn(f) /\ f.alive <= life
    BY <1>1, <2>3 DEF GoesOn, Guarded
  <2>7. Resting(<< >>) /\ Quiet(<< >>)
    BY DEF Resting, Quiet
  <2>8. stack' \in Seq(FrameType) /\ StackInStep' /\ LoopInStep'
    BY <1>1, <1>5, <2>2, <2>3, <2>4, <2>5, <2>6, <2>7, GoesOnTop
  <2> QED
    BY <1>1, <1>4, <1>5, <1>6, <2>8, OthersKeep DEF IInv, TypeOK, MessageType
<1> QED
  BY <1>7, <1>8

LEMMA ToolDoneKeeps ==
  ASSUME IInv, ToolDone
  PROVE  IInv'
<1>1. /\ Resting(stack) /\ life \in 0..MaxCancels
      /\ UNCHANGED <<limit, life, request, rounds, messages, reply, held, requests, reports, cancelled,
                     asks, sent>>
  BY AppRests DEF ToolDone, caller, IInv, TypeOK
<1>2. PICK t \in open :
        /\ open' = open \ {t}
        /\ stack' = (IF Expired(t.alive) THEN << >>
                     ELSE After("toolFinished", Frame("answer", t.ask, t.call, t.alive))) \o stack
  BY DEF ToolDone
<1>3. PICK a \in 1..MaxAsks, c \in Nat \ {0} : a = t.ask /\ c = t.call
  BY DEF IInv, TypeOK
<1>4. WaitersInStep' /\ (NoneHeld => NoneHeld') /\ (NoneOpen => NoneOpen')
  BY <1>1, <1>2, WaitersSame
<1>5. MessagesInStep' /\ ResultsFollowTheirCalls' /\ RequestsInStep' /\ RequestsAccounted'
  BY <1>1, MessagesSame, RequestsSame
<1>6. /\ stack' \in Seq(FrameType) /\ StackInStep' /\ LoopInStep'
  <2>1. CASE Expired(t.alive)
    <3>1. stack' = stack
      BY <1>1, <1>2, <2>1, Piled, AppFrameIs DEF Resting
    <3>2. \A u \in open : u.alive = life => u \in open'
      BY <1>2, <2>1 DEF Expired
    <3>3. /\ \A h \in held : InPhase("held", h.ask, 0) => InPhase("held", h.ask, 0)'
          /\ \A u \in open : InPhase("open", u.ask, u.call) => InPhase("open", u.ask, u.call)'
          /\ \A f \in FrameType : InPhase(f.step, f.ask, f.call) => InPhase(f.step, f.ask, f.call)'
      BY <1>1, PhaseStays
    <3> QED
      BY <1>1, <1>2, <3>1, <3>2, <3>3, PlaceStays
  <2>2. CASE ~Expired(t.alive)
    <3>1. AtOpen
      BY <2>2 DEF IInv, LoopInStep, NoneOpen, AtHeld, AtFrame, Expired
    <3>2. /\ InPhase("open", a, c) /\ NoneHeld /\ NoFrame
          /\ \A u \in open : u.alive = life => u = t
      BY <1>3, <2>2, <3>1 DEF AtOpen, Expired
    <3>3. PICK f \in FrameType : /\ f.step = "answer" /\ f.ask = a /\ f.call = c /\ f.alive = life
                                 /\ stack' \in {<<f>> \o stack, <<AppFrame, f>> \o stack}
      <4> DEFINE f == Frame("answer", a, c, life)
      <4>1. f \in FrameType /\ f.step = "answer" /\ f.ask = a /\ f.call = c /\ f.alive = life
        <5>1. a \in 0..MaxAsks
          OBVIOUS
        <5> QED
          BY <1>1, <5>1, FrameIs, Bounds
      <4>2. stack' = After("toolFinished", f) \o stack
        BY <1>2, <1>3, <2>2 DEF Expired
      <4> HIDE DEF f
      <4> QED
        BY <4>1, <4>2, OpenCall
    <3>4. NoneOpen'
      BY <1>1, <1>2, <3>2 DEF NoneOpen
    <3>5. InPhase(f.step, f.ask, f.call)'
      <4>1. InPhase(f.step, f.ask, f.call)
        BY <3>2, <3>3 DEF InPhase, Asked, Rounding
      <4> QED
        BY <1>1, <4>1, PhaseStays
    <3>6. GoesOn(f) /\ f.alive <= life /\ f.step \in Guarded
      BY <1>1, <3>3 DEF GoesOn, Guarded
    <3>7. Quiet(stack)
      BY <1>1, <3>2 DEF Quiet, NoFrame, Resting
    <3> QED
      BY <1>1, <1>4, <3>2, <3>3, <3>4, <3>5, <3>6, <3>7, GoesOnTop
  <2> QED
    BY <2>1, <2>2
<1> QED
  BY <1>1, <1>2, <1>4, <1>5, <1>6, OthersKeep DEF IInv, TypeOK, MessageType

-----------------------------------------------------------------------------
(* The application.                                                        *)

LEMMA AppReturnsKeeps ==
  ASSUME IInv, AppReturns
  PROVE  IInv'
<1>1. stack # << >> /\ ~GoesOn(Top) /\ stack' = Tail(stack) /\ UNCHANGED stored
  BY AtTop DEF AppReturns, GoesOn, stored
<1> QED
  BY <1>1, FrameEnds

LEMMA CancelKeeps ==
  ASSUME IInv, Cancel
  PROVE  IInv'
<1>1. /\ Resting(stack) /\ life \in 0..MaxCancels /\ life < MaxCancels /\ life' = life + 1
      /\ request' = 0 /\ rounds' = 0 /\ cancelled' = cancelled \cup ({request} \ {0})
      /\ UNCHANGED <<limit, messages, reply, held, open, stack, requests, asks, sent, reports>>
  BY AppRests DEF Cancel, IInv, TypeOK
<1>2. life' \in 0..MaxCancels /\ \A n \in Nat : n <= life => n <= life' /\ n # life'
  BY <1>1, Bounds
<1>3. /\ \A h \in held : h.alive \in Nat /\ h.alive <= life
      /\ \A t \in open : t.alive \in Nat /\ t.alive <= life
      /\ \A i \in DOMAIN stack : stack[i].alive \in Nat /\ stack[i].alive <= life
  <2>1. 0..MaxCancels \subseteq Nat
    OBVIOUS
  <2>2. \A i \in DOMAIN stack : stack[i] \in FrameType
    BY DEF IInv, TypeOK
  <2> QED
    BY <2>1, <2>2 DEF IInv, TypeOK, WaitersInStep, StackInStep, FrameType
<1>4. StackInStep' /\ WaitersInStep' /\ NoneHeld' /\ NoneOpen'
  BY <1>1, <1>2, <1>3 DEF IInv, StackInStep, WaitersInStep, NoneHeld, NoneOpen
<1>5. NoFrame'
  <2>1. SUFFICES ASSUME NEW i \in DOMAIN stack PROVE ~GoesOn(stack[i])'
    BY <1>1 DEF NoFrame
  <2>2. stack[i].step \in Guarded \cup {"app"}
    BY <1>1 DEF Resting
  <2>3. stack'[i].step = stack[i].step /\ stack'[i].alive # life'
    BY <1>1, <1>2, <1>3
  <2> QED
    BY <2>2, <2>3 DEF GoesOn
<1>6. LoopInStep'
  BY <1>1, <1>4, <1>5 DEF LoopInStep
<1>7. /\ request \in 0..requests /\ requests \in 0..MaxRequests
      /\ reports \in [Requests -> Seq({"finished", "failed"})] /\ MaxRequests \in Nat
  BY Bounds DEF IInv, TypeOK
<1>8. RequestsAccounted'
  <2> DEFINE gone(r) == IF r \in cancelled THEN 1 ELSE 0
             there(r) == IF r = request THEN 1 ELSE 0
  <2>1. ASSUME NEW r \in 1..requests
        PROVE  /\ gone(r) \in {0, 1} /\ there(r) \in {0, 1} /\ there(r)' = 0
               /\ gone(r) = 1 \/ there(r) = 1 => gone(r)' = 1
               /\ gone(r) = 0 /\ there(r) = 0 => gone(r)' = 0
    BY <1>1, <1>7
  <2>2. \A r \in 1..requests :
          Len(reports[r]) + gone(r) + there(r) = 1 /\ (limit # Unlimited => sent[r] <= limit + 1)
    <3>1. RequestsAccounted
      BY DEF IInv
    <3> QED
      BY <3>1, Zenon DEF RequestsAccounted
  <2> HIDE DEF gone, there
  <2>3. \A r \in 1..requests' :
          Len(reports'[r]) + gone(r)' + there(r)' = 1 /\ (limit' # Unlimited => sent'[r] <= limit' + 1)
    <3>1. SUFFICES ASSUME NEW r \in 1..requests
                   PROVE  Len(reports[r]) + gone(r)' + there(r)' = 1 /\ (limit # Unlimited => sent[r] <= limit + 1)
      BY <1>1
    <3>2. r \in Requests
      BY <1>7 DEF Requests
    <3>3. Len(reports[r]) \in Nat
      BY <1>7, <3>2
    <3> QED
      BY <2>1, <2>2, <3>3
  <2> QED
    BY <2>3, Zenon DEF RequestsAccounted, gone, there
<1>9. RequestsInStep' /\ MessagesInStep' /\ ResultsFollowTheirCalls'
  BY <1>1, MessagesSame DEF IInv, RequestsInStep
<1>10. /\ request' \in 0..requests' /\ rounds' \in Nat
       /\ cancelled' \subseteq 1..requests'
  BY <1>1, <1>7, Bounds DEF IInv, TypeOK
<1>11. TypeOK'
  BY <1>1, <1>2, <1>10 DEF IInv, TypeOK
<1> QED
  BY <1>4, <1>6, <1>8, <1>9, <1>11 DEF IInv, Honours

LEMMA ClearKeeps ==
  ASSUME IInv, Clear
  PROVE  IInv'
<1>1. /\ asks \in Nat
      /\ UNCHANGED <<limit, life, request, rounds, reply, held, open, stack, requests, reports, cancelled,
                     asks, sent>>
  BY Bounds DEF Clear, caller, IInv, TypeOK
<1>2. PICK m \in MessageType : /\ m.role = "system" /\ m.of = asks /\ m.call = 0
                               /\ messages' = <<m>>
  <2> DEFINE m == Message("system", 0, asks, 0)
  <2>1. m \in MessageType /\ m.role = "system" /\ m.of = asks /\ m.call = 0
    BY <1>1, MessageIs
  <2>2. messages' = <<m>>
    BY DEF Clear
  <2> HIDE DEF m
  <2> QED
    BY <2>1, <2>2
<1>3. /\ messages' \in Seq(MessageType) /\ Len(messages') = 1 /\ messages'[1] = m
      /\ DOMAIN messages' = {1} /\ Last' = m /\ messages' # << >>
  <2>1. messages' \in Seq(MessageType) /\ Len(messages') = 1 /\ messages'[1] = m
    BY <1>2
  <2> QED
    BY <1>2, <2>1 DEF Last
<1>4. MessagesInStep' /\ ResultsFollowTheirCalls' /\ \A i \in DOMAIN messages' : ~Round(i)'
  BY <1>2, <1>3 DEF MessagesInStep, ResultsFollowTheirCalls, Round
<1>5. ASSUME NEW step, NEW ask, NEW c, InPhase(step, ask, c)
      PROVE  InPhase(step, ask, c)'
  <2>1. RoundAnswered' /\ AnsweredUpTo(c)'
    BY <1>4 DEF RoundAnswered, AnsweredUpTo
  <2>2. RoundInStep(ask, c) => RoundInStep(ask, c)'
    <3>1. SUFFICES ASSUME RoundInStep(ask, c) PROVE RoundInStep(ask, c)'
      OBVIOUS
    <3>2. ask \in 1..asks /\ c \in Nat \ {0} /\ \A h \in held : h.ask # ask
      BY <3>1 DEF RoundInStep
    <3>3. Last'.role = "system" /\ Last'.of >= ask
      BY <1>1, <1>2, <1>3, <3>2
    <3> QED
      BY <1>1, <1>4, <2>1, <3>2, <3>3 DEF RoundInStep
  <2> QED
    BY <1>1, <1>5, <2>1, <2>2 DEF TooManyRounds, InPhase
<1>6. stack' \in Seq(FrameType) /\ StackInStep' /\ LoopInStep'
  BY <1>1, <1>5, PlaceStays
<1>7. RequestsInStep' /\ RequestsAccounted' /\ WaitersInStep'
  BY <1>1, RequestsSame, WaitersSame
<1> QED
  BY <1>1, <1>3, <1>4, <1>6, <1>7, OthersKeep DEF IInv, TypeOK

LEMMA RequestAsyncKeeps ==
  ASSUME IInv, RequestAsync
  PROVE  IInv'
<1>1. /\ Resting(stack) /\ life \in 0..MaxCancels
      /\ request = 0 /\ requests < MaxRequests /\ rounds' = 0
      /\ requests' = requests + 1 /\ request' = requests + 1
      /\ messages' = Append(messages, Message("user", requests + 1, requests + 1, 0)) /\ stack' = Create \o stack
      /\ UNCHANGED <<limit, life, reply, held, open, asks, sent, reports, cancelled>>
  BY AppRests DEF RequestAsync, RequestMayStart, IInv, TypeOK
<1>2. /\ requests \in 0..MaxRequests /\ requests + 1 \in Requests /\ requests + 1 \in Nat
      /\ MaxRequests \in Nat /\ requests' \in 0..MaxRequests
      /\ reports \in [Requests -> Seq({"finished", "failed"})] /\ cancelled \subseteq 1..requests
  BY <1>1, Bounds DEF IInv, TypeOK, Requests
<1>3. PICK m \in MessageType : m.role = "user" /\ messages' = Append(messages, m)
  <2> DEFINE m == Message("user", requests + 1, requests + 1, 0)
  <2>1. m \in MessageType /\ m.role = "user"
    BY <1>2, MessageIs
  <2> HIDE DEF m
  <2> QED
    BY <1>1, <2>1 DEF m
<1>4. /\ messages' \in Seq(MessageType) /\ MessagesInStep' /\ ResultsFollowTheirCalls'
      /\ \A i \in DOMAIN messages' : ~Round(i)'
  BY <1>3, Appended, AppendedOther
<1>5. NoneHeld /\ NoneOpen /\ NoFrame
  BY <1>1 DEF IInv, LoopInStep, AtHeld, AtOpen, AtFrame, InPhase
<1>6. WaitersInStep' /\ NoneHeld' /\ NoneOpen'
  BY <1>1, <1>5, WaitersSame
<1>7. sent[requests + 1] = 0 /\ reports[requests + 1] = << >>
  <2>1. requests + 1 > requests
    BY <1>2
  <2> QED
    BY <1>2, <2>1 DEF IInv, RequestsInStep
<1>8. stack' \in Seq(FrameType) /\ StackInStep' /\ LoopInStep'
  <2> DEFINE f == Frame("send", 0, 0, 0)
  <2>1. f \in FrameType /\ GoesOn(f) /\ f.step = "send" /\ f.alive = 0 /\ stack' = <<f>> \o stack
    BY <1>1, CreateIs
  <2> HIDE DEF f
  <2>2. f.alive <= life
    BY <1>1, <2>1
  <2>3. Quiet(stack)
    BY <1>1, <1>5 DEF Quiet, NoFrame, Resting
  <2>4. InPhase(f.step, f.ask, f.call)'
    <3>1. RoundAnswered'
      BY <1>4 DEF RoundAnswered
    <3>2. request' # 0 /\ sent'[request'] = 0 /\ rounds' = 0 /\ ~TooManyRounds(rounds)'
      <4>1. limit' \in Nat
        BY <1>1, LimitIs
      <4> QED
        BY <1>1, <1>2, <1>7, <4>1 DEF TooManyRounds
    <3> QED
      BY <2>1, <3>1, <3>2 DEF InPhase, Asked, Rounding
  <2> QED
    BY <1>1, <1>6, <2>1, <2>2, <2>3, <2>4, GoesOnTop
<1>9. RequestsInStep'
  <2>1. \A r \in Requests : r > requests' => r > requests
    BY <1>1, <1>2 DEF Requests
  <2> QED
    BY <1>1, <2>1 DEF IInv, RequestsInStep
<1>10. RequestsAccounted'
  <2> DEFINE gone(r) == IF r \in cancelled THEN 1 ELSE 0
             there(r) == IF r = request THEN 1 ELSE 0
  <2>1. \A r \in 1..requests :
          Len(reports[r]) + gone(r) + there(r) = 1 /\ (limit # Unlimited => sent[r] <= limit + 1)
    <3>1. RequestsAccounted
      BY DEF IInv
    <3> QED
      BY <3>1, Zenon DEF RequestsAccounted
  <2>2. ASSUME NEW r \in 1..requests
        PROVE  gone(r)' = gone(r) /\ there(r) = 0 /\ there(r)' = 0
    BY <1>1, <1>2
  <2> HIDE DEF gone, there
  <2>3. ASSUME NEW r \in 1..requests'
        PROVE  Len(reports'[r]) + gone(r)' + there(r)' = 1 /\ (limit' # Unlimited => sent'[r] <= limit' + 1)
    <3>1. CASE r \in 1..requests
      BY <1>1, <2>1, <2>2, <3>1
    <3>2. CASE r = requests + 1
      <4>1. gone(r)' = 0 /\ there(r)' = 1
        BY <1>1, <1>2, <3>2 DEF gone, there
      <4>2. Len(reports'[r]) = 0 /\ sent'[r] = 0
        BY <1>1, <1>7, <3>2
      <4>3. limit \in Nat /\ limit' = limit
        BY <1>1, LimitIs
      <4>4. 0 <= limit + 1
        BY <4>3
      <4>5. Len(reports'[r]) + gone(r)' + there(r)' = 1
        BY <4>1, <4>2
      <4> QED
        BY <4>2, <4>3, <4>4, <4>5
    <3> QED
      BY <1>1, <1>2, <3>1, <3>2
  <2> QED
    BY <2>3, Zenon DEF RequestsAccounted, gone, there
<1>11. /\ request' \in 0..requests' /\ rounds' \in Nat
       /\ cancelled' \subseteq 1..requests'
  BY <1>1, <1>2, Bounds
<1>12. TypeOK'
  BY <1>1, <1>2, <1>4, <1>8, <1>11 DEF IInv, TypeOK, MessageType
<1> QED
  BY <1>4, <1>6, <1>8, <1>9, <1>10, <1>12 DEF IInv, Honours

-----------------------------------------------------------------------------
(* The invariant.                                                          *)

LEMMA InitHolds ==
  ASSUME Honours, Init
  PROVE  IInv
<1>1. TypeOK
  <2>1. messages \in Seq([role : {"system", "user", "assistant", "calls", "tool"}, by : Nat, of : Nat, call : Nat])
    BY DEF Init, Message
  <2> QED
    BY <2>1, Bounds DEF Init, TypeOK, Requests
<1>2. MessagesInStep /\ ResultsFollowTheirCalls
  BY DEF Init, Message, MessagesInStep, ResultsFollowTheirCalls
<1>3. StackInStep /\ WaitersInStep /\ LoopInStep /\ RequestsInStep
  BY DEF Init, StackInStep, WaitersInStep, LoopInStep, NoneHeld, NoneOpen, NoFrame, RequestsInStep
<1>4. RequestsAccounted
  BY DEF Init, RequestsAccounted
<1> QED
  BY <1>1, <1>2, <1>3, <1>4 DEF IInv

LEMMA StutterKeeps ==
  ASSUME IInv, UNCHANGED vars
  PROVE  IInv'
<1>1. UNCHANGED stored /\ stack' = stack
  BY DEF vars, stored, caller
<1>2. UNCHANGED <<limit, life, request, rounds, messages, reply, held, open, asks, sent>>
  BY <1>1 DEF stored, caller
<1>3. /\ \A h \in held : InPhase("held", h.ask, 0) => InPhase("held", h.ask, 0)'
      /\ \A t \in open : InPhase("open", t.ask, t.call) => InPhase("open", t.ask, t.call)'
      /\ \A f \in FrameType : InPhase(f.step, f.ask, f.call) => InPhase(f.step, f.ask, f.call)'
  BY <1>2, PhaseStays
<1>4. stack' \in Seq(FrameType) /\ StackInStep' /\ LoopInStep'
  BY <1>1, <1>2, <1>3, PlaceStays
<1> QED
  BY <1>1, <1>4, OnlyStack

LEMMA NextKeeps ==
  ASSUME IInv, [Next]_vars
  PROVE  IInv'
<1>1. CASE AgentStep
  BY <1>1, SendKeeps, OnCompletionKeeps, OnReplyKeeps, DeliverKeeps, DeliveredKeeps, EndRoundKeeps,
     AskAgainKeeps, SkipUnknownToolKeeps, StartToolKeeps, RunToolKeeps, RecordAnswerKeeps DEF AgentStep
<1>2. CASE ClientAnswers \/ ToolDone
  BY <1>2, ClientAnswersKeeps, ToolDoneKeeps
<1>3. CASE RequestAsync \/ Cancel \/ Clear \/ AppReturns
  BY <1>3, RequestAsyncKeeps, CancelKeeps, ClearKeeps, AppReturnsKeeps
<1>4. CASE UNCHANGED vars
  BY <1>4, StutterKeeps
<1> QED
  BY <1>1, <1>2, <1>3, <1>4 DEF Next

LEMMA Invariance ==
  ASSUME Honours
  PROVE  Spec => []IInv
<1>1. Init => IInv
  BY InitHolds
<1>2. IInv /\ [Next]_vars => IInv'
  BY NextKeeps
<1> QED
  BY <1>1, <1>2, PTL DEF Spec

-----------------------------------------------------------------------------
(* The theorems.                                                           *)

(* The state of Agent (agent.h) keeps its types, and nobody holds a token   *)
(* from the future.                                                         *)
THEOREM TypeCorrect ==
  ASSUME Honours
  PROVE  Spec => []TypeOK
BY Invariance, PTL DEF IInv

LEMMA OnePlace ==
  ASSUME IInv
  PROVE  OneLoop
<1>1. /\ NoneHeld => Live(held) = {}
      /\ NoneOpen => Live(open) = {}
      /\ NoFrame => LiveFrames = {}
  BY DEF NoneHeld, NoneOpen, NoFrame, Live, LiveFrames
<1>2. Cardinality({}) = 0
  BY FS_EmptySet
<1>3. \A x : Cardinality({x}) = 1
  BY FS_Singleton
<1>4. CASE request = 0 /\ NoneHeld /\ NoneOpen /\ NoFrame
  BY <1>1, <1>2, <1>4 DEF OneLoop
<1>5. CASE AtHeld
  <2>1. PICK h \in held : h.alive = life /\ InPhase("held", h.ask, 0)
                          /\ \A g \in held : g.alive = life => g = h
    BY <1>5 DEF AtHeld
  <2>2. Live(held) = {h} /\ Live(open) = {} /\ LiveFrames = {} /\ request # 0
    BY <1>1, <1>5, <2>1 DEF AtHeld, Live, InPhase
  <2> QED
    BY <1>2, <1>3, <2>2 DEF OneLoop
<1>6. CASE AtOpen
  <2>1. PICK t \in open : t.alive = life /\ InPhase("open", t.ask, t.call)
                          /\ \A u \in open : u.alive = life => u = t
    BY <1>6 DEF AtOpen
  <2>2. Live(held) = {} /\ Live(open) = {t} /\ LiveFrames = {} /\ request # 0
    BY <1>1, <1>6, <2>1 DEF AtOpen, Live, InPhase
  <2> QED
    BY <1>2, <1>3, <2>2 DEF OneLoop
<1>7. CASE AtFrame
  <2>1. PICK i \in DOMAIN stack : /\ GoesOn(stack[i])
                                  /\ InPhase(stack[i].step, stack[i].ask, stack[i].call)
                                  /\ \A j \in DOMAIN stack : GoesOn(stack[j]) => j = i
    BY <1>7 DEF AtFrame
  <2>2. Live(held) = {} /\ Live(open) = {} /\ request # 0
    BY <1>1, <1>7, <2>1 DEF AtFrame, InPhase
  <2>3. LiveFrames = {i}
    BY <2>1 DEF LiveFrames
  <2>4. /\ Cardinality(Live(held)) = 0 /\ Cardinality(Live(open)) = 0
        /\ Cardinality(LiveFrames) = 1
    BY <1>2, <1>3, <2>2, <2>3, Zenon
  <2> QED
    BY <2>2, <2>4 DEF OneLoop
<1> QED
  BY <1>4, <1>5, <1>6, <1>7 DEF IInv, LoopInStep

(* A request that is open goes on from one place, and one that ended from   *)
(* none: a completion or a tool result of an earlier request never drives   *)
(* a later one, whatever was cancelled and asked again from the callbacks   *)
(* (m_life, agent.cpp:221-371).                                             *)
THEOREM OneLoopHolds ==
  ASSUME Honours
  PROVE  Spec => []OneLoop
BY Invariance, OnePlace, PTL

(* A request is open, was cancelled, or was reported to the observer once,  *)
(* and asks for one completion more than its limit of rounds at most, if    *)
(* the rounds are limited (requestAsync, cancel and deliverResponse, agent.cpp:151-259).           *)
THEOREM RequestsKept ==
  ASSUME Honours
  PROVE  Spec => []RequestsAccounted
BY Invariance, PTL DEF IInv

(* The conversation can be sent: every tool result stands behind the reply  *)
(* that asked for it (handleToolCallsAsync, agent.cpp:286-377).             *)
THEOREM ResultsInPlace ==
  ASSUME Honours
  PROVE  Spec => []ResultsFollowTheirCalls
BY Invariance, PTL DEF IInv

LEMMA OnlySendAsks ==
  ASSUME [Next]_vars, asks' # asks
  PROVE  Send
<1>1. CASE UNCHANGED asks
  BY <1>1
<1> QED
  BY <1>1 DEF Next, AgentStep, vars, RequestAsync, Cancel, Clear, AppReturns, ClientAnswers, ToolDone,
     OnCompletion, OnReply, Deliver, Delivered, EndRound, AskAgain, SkipUnknownTool, StartTool,
     RunTool, RecordAnswer

-----------------------------------------------------------------------------
(* The history: what a completion is asked for with.  A reply whose calls  *)
(* are not all answered is the round that is under way, or was the last of *)
(* a request that was cut off.  A reply is asked for only when the round    *)
(* before is answered, so that none is left behind by a request that goes   *)
(* on; sent is one ahead of rounds while the client has been asked.         *)

LeftBehind(i) == \E r \in Requests : CutOff(r) /\ LastRoundOf(r, i)
Settled(i) == AllAnswered(i) \/ LeftBehind(i)
UnderWay(i) == messages[i].by = request /\ Round(i)

CallsInStep(i) ==
  /\ messages[i].of \in 1..asks /\ messages[i].by \in 1..requests
  /\ \A h \in held : h.ask # messages[i].of
  /\ Settled(i) \/ UnderWay(i)
HistoryInStep ==
  /\ \A i \in DOMAIN messages : messages[i].role = "calls" => CallsInStep(i)
  /\ request # 0 /\ sent[request] = rounds + 1 => RoundAnswered

LEMMA OpenIsNotCutOff ==
  ASSUME IInv, request # 0
  PROVE  ~CutOff(request) /\ request \in 1..requests /\ request \in Requests
<1>1. /\ request \in 1..requests /\ request \in Requests
      /\ Len(reports[request]) \in Nat /\ reports[request] \in Seq({"finished", "failed"})
  BY Bounds DEF IInv, TypeOK, Requests
<1> DEFINE gone == IF request \in cancelled THEN 1 ELSE 0
<1>2. Len(reports[request]) + gone + 1 = 1 /\ gone \in {0, 1}
  BY <1>1 DEF IInv, RequestsAccounted
<1>3. request \notin cancelled /\ Len(reports[request]) = 0
  <2>1. gone = 1 => request \in cancelled
    OBVIOUS
  <2>2. request \in cancelled => gone = 1
    OBVIOUS
  <2> HIDE DEF gone
  <2> QED
    BY <1>1, <1>2, <2>1, <2>2
<1>4. DOMAIN reports[request] = {}
  BY <1>1, <1>3
<1> QED
  BY <1>1, <1>3, <1>4 DEF CutOff

(* What was settled stays settled, as long as no request that was cut off  *)
(* makes calls.                                                            *)
LEMMA SettledStays ==
  ASSUME NEW i \in DOMAIN messages, Settled(i),
         \A j \in DOMAIN messages : j \in DOMAIN messages' /\ messages'[j] = messages[j],
         \A j \in DOMAIN messages' :
           j \in DOMAIN messages \/ messages'[j].role # "calls" \/ ~CutOff(messages'[j].by),
         Answerable(messages[i].of)' = Answerable(messages[i].of),
         \A r \in Requests : CutOff(r) => CutOff(r)'
  PROVE  Settled(i)'
<1>1. CASE AllAnswered(i)
  <2>1. ASSUME NEW c, Answered(i, c) PROVE Answered(i, c)'
    BY <2>1 DEF Answered
  <2> QED
    BY <1>1, <2>1 DEF AllAnswered, Settled
<1>2. CASE LeftBehind(i)
  <2>1. PICK r \in Requests : CutOff(r) /\ LastRoundOf(r, i)
    BY <1>2 DEF LeftBehind
  <2>2. LastRoundOf(r, i)'
    BY <2>1 DEF LastRoundOf
  <2> QED
    BY <2>1, <2>2 DEF LeftBehind, Settled
<1> QED
  BY <1>1, <1>2 DEF Settled

(* Steps that say nothing. *)
LEMMA HistoryStays ==
  ASSUME HistoryInStep,
         UNCHANGED <<messages, request, rounds, reply, requests, asks, sent, reports, cancelled>>,
         held' \subseteq held
  PROVE  HistoryInStep'
<1>1. \A n : Answerable(n)' = Answerable(n)
  BY DEF Answerable, CallsOf
<1>2. \A r \in Requests : CutOff(r) => CutOff(r)'
  BY DEF CutOff
<1>3. ASSUME NEW i \in DOMAIN messages, messages[i].role = "calls" PROVE CallsInStep(i)'
  <2>1. CallsInStep(i)
    BY <1>3 DEF HistoryInStep
  <2>2. Settled(i) => Settled(i)'
    BY <1>1, <1>2, SettledStays
  <2>3. UnderWay(i) => UnderWay(i)'
    BY DEF UnderWay, Round
  <2> QED
    BY <2>1, <2>2, <2>3 DEF CallsInStep
<1>4. RoundAnswered => RoundAnswered'
  BY <1>1 DEF RoundAnswered, Round, AllAnswered, Answered
<1> QED
  BY <1>3, <1>4 DEF HistoryInStep

(* Steps that leave the messages alone and change the reply to one ask,    *)
(* which is not one of those whose calls are in the history.               *)
LEMMA HistoryOfOthers ==
  ASSUME IInv, HistoryInStep, UNCHANGED <<messages, request, requests, reports, cancelled>>,
         NEW a, \A n : n # a => reply'[n] = reply[n],
         asks' \in Nat, asks <= asks',
         \A i \in DOMAIN messages : messages[i].role = "calls" => messages[i].of # a,
         \A h \in held' : h \in held \/ h.ask = a
  PROVE  /\ \A i \in DOMAIN messages : messages[i].role = "calls" => CallsInStep(i)'
         /\ RoundAnswered => RoundAnswered'
<1>1. \A n : n # a => Answerable(n)' = Answerable(n)
  BY DEF Answerable, CallsOf
<1>2. \A r \in Requests : CutOff(r) => CutOff(r)'
  BY DEF CutOff
<1>3. asks \in Nat
  BY DEF IInv, TypeOK
<1>4. ASSUME NEW i \in DOMAIN messages, messages[i].role = "calls" PROVE CallsInStep(i)'
  <2>1. CallsInStep(i) /\ messages[i].of # a
    BY <1>4 DEF HistoryInStep
  <2>2. Answerable(messages[i].of)' = Answerable(messages[i].of)
    BY <1>1, <2>1
  <2>3. Settled(i) => Settled(i)'
    BY <1>2, <2>2, SettledStays
  <2>4. UnderWay(i) => UnderWay(i)'
    BY DEF UnderWay, Round
  <2>5. (messages[i].of)' \in 1..asks' /\ (messages[i].by)' \in 1..requests'
    BY <1>3, <2>1 DEF CallsInStep
  <2>6. \A h \in held' : h.ask # messages'[i].of
    BY <2>1 DEF CallsInStep
  <2> QED
    BY <2>1, <2>3, <2>4, <2>5, <2>6 DEF CallsInStep
<1>5. ASSUME RoundAnswered, NEW i \in DOMAIN messages, Round(i) PROVE AllAnswered(i)'
  <2>1. AllAnswered(i) /\ messages[i].of # a
    BY <1>5 DEF RoundAnswered, Round
  <2>2. Answerable(messages[i].of)' = Answerable(messages[i].of)
    BY <1>1, <2>1
  <2> QED
    BY <2>1, <2>2 DEF AllAnswered, Answered
<1>6. RoundAnswered => RoundAnswered'
  BY <1>5 DEF RoundAnswered, Round
<1> QED
  BY <1>4, <1>6

LEMMA SendKeepsHistory ==
  ASSUME IInv, IInv', HistoryInStep, Send
  PROVE  HistoryInStep'
<1>1. /\ UNCHANGED <<messages, request, rounds, requests, reports, cancelled>> /\ asks' = asks + 1
      /\ asks \in Nat
  BY DEF Send, caller, IInv, TypeOK
<1>2. PICK a \in Nat : a = asks + 1
  BY <1>1
<1>3. /\ \A n : n # a => reply'[n] = reply[n]
      /\ \A h \in held' : h \in held \/ h.ask = a
  <2>1. CASE held' = held \cup {[ask |-> asks + 1, alive |-> life]} /\ UNCHANGED reply
    BY <1>2, <2>1
  <2>2. CASE (\E r \in Replies : reply' = [reply EXCEPT ![asks + 1] = r]) /\ UNCHANGED held
    BY <1>2, <2>2 DEF IInv, TypeOK
  <2> QED
    BY <2>1, <2>2 DEF Send
<1>4. \A i \in DOMAIN messages : messages[i].role = "calls" => messages[i].of # a
  BY <1>1, <1>2 DEF HistoryInStep, CallsInStep
<1>5. /\ \A i \in DOMAIN messages : messages[i].role = "calls" => CallsInStep(i)'
      /\ RoundAnswered => RoundAnswered'
  BY <1>1, <1>3, <1>4, HistoryOfOthers
<1>6. RoundAnswered
  <2>1. stack # << >> /\ Top.step = "send" /\ GoesOn(Top)
    BY AtTop DEF Send, Guarded
  <2> QED
    BY <2>1, TopDrives DEF InPhase
<1> QED
  BY <1>1, <1>5, <1>6 DEF HistoryInStep

LEMMA ClientAnswersKeepsHistory ==
  ASSUME IInv, IInv', HistoryInStep, ClientAnswers
  PROVE  HistoryInStep'
<1>1. UNCHANGED <<messages, request, rounds, requests, asks, sent, reports, cancelled>> /\ asks \in Nat
  BY DEF ClientAnswers, caller, IInv, TypeOK
<1>2. PICK h \in held, r \in Replies : held' = held \ {h} /\ reply' = [reply EXCEPT ![h.ask] = r]
  BY DEF ClientAnswers
<1>3. PICK a : a = h.ask
  OBVIOUS
<1>4. \A n : n # a => reply'[n] = reply[n]
  BY <1>2, <1>3 DEF IInv, TypeOK
<1>5. \A i \in DOMAIN messages : messages[i].role = "calls" => messages[i].of # a
  BY <1>3 DEF HistoryInStep, CallsInStep
<1>6. /\ \A i \in DOMAIN messages : messages[i].role = "calls" => CallsInStep(i)'
      /\ RoundAnswered => RoundAnswered'
  <2>1. asks' \in Nat /\ asks <= asks' /\ \A g \in held' : g \in held \/ g.ask = a
    BY <1>1, <1>2
  <2> QED
    BY <1>1, <1>4, <1>5, <2>1, HistoryOfOthers
<1> QED
  BY <1>1, <1>6 DEF HistoryInStep

(* What was said stays said when a message is put behind it. *)
LEMMA AppendedHistory ==
  ASSUME IInv, HistoryInStep, NEW m \in MessageType, messages' = Append(messages, m),
         UNCHANGED <<reply, held, asks, reports, cancelled>>,
         m.role # "calls" \/ ~CutOff(m.by), requests' \in Nat, requests <= requests',
         NEW i \in DOMAIN messages, messages[i].role = "calls",
         Settled(i) \/ UnderWay(i) => Settled(i) \/ UnderWay(i)'
  PROVE  i \in DOMAIN messages' /\ messages'[i] = messages[i] /\ CallsInStep(i)'
<1>1. /\ DOMAIN messages' = 1..Len(messages) + 1 /\ DOMAIN messages = 1..Len(messages)
      /\ Len(messages) \in Nat
      /\ \A j \in DOMAIN messages : messages'[j] = messages[j]
      /\ messages'[Len(messages) + 1] = m
  BY Appended
<1>2. \A j \in DOMAIN messages : j \in DOMAIN messages' /\ messages'[j] = messages[j]
  BY <1>1
<1>3. \A j \in DOMAIN messages' :
        j \in DOMAIN messages \/ messages'[j].role # "calls" \/ ~CutOff(messages'[j].by)
  BY <1>1
<1>4. \A n : Answerable(n)' = Answerable(n)
  BY DEF Answerable, CallsOf
<1>5. \A r \in Requests : CutOff(r) => CutOff(r)'
  BY DEF CutOff
<1>6. Answerable(messages[i].of)' = Answerable(messages[i].of)
  BY <1>2, <1>4
<1>7. Settled(i) => Settled(i)'
  BY <1>2, <1>3, <1>5, <1>6, SettledStays
<1>8. CallsInStep(i) /\ requests \in Nat
  BY DEF HistoryInStep, IInv, TypeOK
<1> QED
  BY <1>2, <1>7, <1>8 DEF CallsInStep

(* A new reply ends the round before, all of whose calls are answered.     *)
LEMMA OnReplyKeepsHistory ==
  ASSUME IInv, IInv', HistoryInStep, OnReply
  PROVE  HistoryInStep'
<1> DEFINE text == reply[Top.ask].kind = "text"
<1>1. /\ stack # << >> /\ Top.step = "reply" /\ GoesOn(Top)
      /\ UNCHANGED <<request, reply, held, requests, reports, cancelled, asks, sent>>
      /\ rounds' = IF text THEN rounds ELSE rounds + 1
  <2>1. stack # << >> /\ Top.step = "reply" /\ GoesOn(Top)
    <3>1. At("reply")
      BY DEF OnReply
    <3> QED
      BY <3>1, AtTop DEF Guarded
  <2> QED
    BY <2>1 DEF OnReply, caller
<1>2. /\ InPhase("reply", Top.ask, Top.call) /\ request # 0
      /\ ~CutOff(request) /\ request \in 1..requests
  BY <1>1, TopDrives, OpenIsNotCutOff
<1>3. /\ sent[request] = rounds + 1 /\ Top.ask \in 1..asks /\ \A h \in held : h.ask # Top.ask
      /\ rounds \in Nat /\ asks \in Nat /\ requests \in Nat /\ request \in Nat
  BY <1>2 DEF InPhase, Asked, IInv, TypeOK
<1>4. PICK m \in MessageType :
        /\ m.role = (IF text THEN "assistant" ELSE "calls") /\ m.of = Top.ask /\ m.by = request
        /\ messages' = Append(messages, m)
  <2> DEFINE role == IF text THEN "assistant" ELSE "calls"
             m == Message(role, request, Top.ask, 0)
  <2>1. role \in {"system", "user", "assistant", "calls", "tool"}
    OBVIOUS
  <2>2. messages' = Append(messages, m)
    BY DEF OnReply
  <2> HIDE DEF role
  <2>3. m \in MessageType /\ m.role = role /\ m.of = Top.ask /\ m.by = request
    <3>1. Top.ask \in Nat /\ 0 \in Nat /\ request \in Nat
      BY <1>3
    <3> QED
      BY <2>1, <3>1, MessageIs
  <2> HIDE DEF m
  <2> QED
    BY <2>2, <2>3 DEF role
<1> HIDE DEF text
<1>5. /\ DOMAIN messages' = 1..Len(messages) + 1 /\ DOMAIN messages = 1..Len(messages)
      /\ Len(messages) \in Nat
      /\ messages'[Len(messages) + 1] = m
      /\ \A i \in DOMAIN messages' : Round(i)' => i = Len(messages) + 1 /\ m.role = "calls"
  BY <1>4, Appended, AppendedOther
<1>6. RoundAnswered
  BY <1>2, <1>3 DEF HistoryInStep
<1>7. ASSUME NEW i \in DOMAIN messages, messages[i].role = "calls"
      PROVE  messages'[i] = messages[i] /\ CallsInStep(i)'
  <2>1. UnderWay(i) => Settled(i)
    BY <1>6 DEF RoundAnswered, UnderWay, Settled
  <2>2. m.role # "calls" \/ ~CutOff(m.by)
    BY <1>2, <1>4
  <2> QED
    BY <1>1, <1>3, <1>4, <1>7, <2>1, <2>2, AppendedHistory
<1>8. ASSUME NEW i \in DOMAIN messages', i \notin DOMAIN messages, messages'[i].role = "calls"
      PROVE  CallsInStep(i)'
  <2>1. i = Len(messages) + 1 /\ messages'[i] = m
    BY <1>5, <1>8
  <2>2. UnderWay(i)'
    <3>1. \A j \in DOMAIN messages' : ~(j > i)
      BY <1>5, <2>1
    <3> QED
      BY <1>1, <1>4, <1>8, <2>1, <3>1 DEF UnderWay, Round
  <2> QED
    BY <1>1, <1>2, <1>3, <1>4, <2>1, <2>2 DEF CallsInStep
<1>9. ASSUME NEW i \in DOMAIN messages', messages'[i].role = "calls" PROVE CallsInStep(i)'
  <2>1. CASE i \in DOMAIN messages
    <3>1. messages'[i] = messages[i]
      BY <1>4, <2>1, Appended
    <3> QED
      BY <1>7, <1>9, <2>1, <3>1
  <2> QED
    BY <1>8, <1>9, <2>1
<1>10. text => RoundAnswered'
  BY <1>4, <1>5 DEF RoundAnswered
<1>11. ~text => sent'[request'] # rounds' + 1
  BY <1>1, <1>3
<1> QED
  BY <1>9, <1>10, <1>11 DEF HistoryInStep

(* A result is put behind the round that is under way. *)
LEMMA RecordAnswerKeepsHistory ==
  ASSUME IInv, IInv', HistoryInStep, RecordAnswer
  PROVE  HistoryInStep'
<1>1. /\ stack # << >> /\ Top.step = "answer" /\ Top.ask \in Nat /\ Top.call \in Nat
      /\ UNCHANGED <<request, rounds, reply, held, requests, reports, cancelled, asks, sent>>
  <2>1. stack # << >> /\ Top.step = "answer" /\ Top.ask \in Nat /\ Top.call \in Nat
    BY AtTop, Bounds DEF RecordAnswer
  <2> QED
    BY <2>1 DEF RecordAnswer, caller
<1>2. CASE Expired(Top.alive)
  BY <1>1, <1>2, HistoryStays DEF RecordAnswer
<1>3. CASE ~Expired(Top.alive)
  <2>1. GoesOn(Top)
    BY <1>1, <1>3 DEF Expired, GoesOn
  <2>2. sent[request] = rounds /\ rounds \in Nat /\ request \in Nat
    BY <1>1, <2>1, TopDrives DEF InPhase, Rounding, IInv, TypeOK
  <2>3. PICK m \in MessageType : m.role = "tool" /\ messages' = Append(messages, m)
    <3> DEFINE m == Message("tool", request, Top.ask, Top.call)
    <3>1. m \in MessageType /\ m.role = "tool"
      <4>1. PICK r, a, c \in Nat : r = request /\ a = Top.ask /\ c = Top.call
        BY <1>1, <2>2
      <4>2. /\ Message("tool", r, a, c) \in MessageType
            /\ Message("tool", r, a, c).role = "tool"
        BY MessageIs
      <4> QED
        BY <4>1, <4>2
    <3>2. messages' = Append(messages, m)
      BY <1>3 DEF RecordAnswer
    <3> HIDE DEF m
    <3> QED
      BY <3>1, <3>2
  <2>4. /\ DOMAIN messages' = 1..Len(messages) + 1 /\ DOMAIN messages = 1..Len(messages)
        /\ Len(messages) \in Nat
        /\ messages'[Len(messages) + 1] = m
        /\ \A j \in DOMAIN messages : messages'[j] = messages[j]
    BY <2>3, Appended
  <2>5. ASSUME NEW i \in DOMAIN messages', messages'[i].role = "calls" PROVE CallsInStep(i)'
    <3>1. i \in DOMAIN messages /\ messages[i].role = "calls"
      BY <2>3, <2>4, <2>5
    <3>2. ASSUME UnderWay(i) PROVE UnderWay(i)'
      <4>1. \A j \in DOMAIN messages' : j > i => messages'[j].role = "tool"
        BY <2>3, <2>4, <3>2 DEF UnderWay, Round
      <4> QED
        BY <1>1, <2>4, <3>1, <3>2, <4>1 DEF UnderWay, Round
    <3>3. requests \in Nat /\ requests' = requests
      BY <1>1 DEF IInv, TypeOK
    <3>4. requests' \in Nat /\ requests <= requests'
      BY <3>3
    <3> QED
      BY <1>1, <2>3, <3>1, <3>2, <3>4, AppendedHistory
  <2>6. sent'[request'] # rounds' + 1
    BY <1>1, <2>2
  <2> QED
    BY <2>5, <2>6 DEF HistoryInStep
<1> QED
  BY <1>2, <1>3

LEMMA RequestAsyncKeepsHistory ==
  ASSUME IInv, IInv', HistoryInStep, RequestAsync
  PROVE  HistoryInStep'
<1>1. /\ request = 0 /\ requests < MaxRequests /\ rounds' = 0
      /\ requests' = requests + 1 /\ request' = requests + 1
      /\ messages' = Append(messages, Message("user", requests + 1, requests + 1, 0))
      /\ UNCHANGED <<reply, held, asks, sent, reports, cancelled>>
  BY DEF RequestAsync, RequestMayStart
<1>2. requests \in Nat /\ MaxRequests \in Nat /\ requests + 1 \in Nat /\ requests + 1 \in Requests
  BY <1>1, Bounds DEF IInv, TypeOK, Requests
<1>3. PICK m \in MessageType : m.role = "user" /\ messages' = Append(messages, m)
  <2> DEFINE m == Message("user", requests + 1, requests + 1, 0)
  <2>1. m \in MessageType /\ m.role = "user"
    BY <1>2, MessageIs
  <2> HIDE DEF m
  <2> QED
    BY <1>1, <2>1 DEF m
<1>4. /\ DOMAIN messages' = 1..Len(messages) + 1 /\ DOMAIN messages = 1..Len(messages)
      /\ Len(messages) \in Nat
      /\ messages'[Len(messages) + 1] = m
      /\ \A j \in DOMAIN messages : messages'[j] = messages[j]
  BY <1>3, Appended
<1>5. ASSUME NEW i \in DOMAIN messages', messages'[i].role = "calls" PROVE CallsInStep(i)'
  <2>1. i \in DOMAIN messages /\ messages[i].role = "calls"
    BY <1>3, <1>4, <1>5
  <2>2. ~UnderWay(i)
    BY <1>1, <2>1 DEF UnderWay, HistoryInStep, CallsInStep
  <2>3. requests' \in Nat /\ requests <= requests'
    BY <1>1, <1>2
  <2> QED
    BY <1>1, <1>3, <2>1, <2>2, <2>3, AppendedHistory
<1>6. sent'[request'] # rounds' + 1
  <2>1. sent[requests + 1] = 0
    <3>1. requests + 1 > requests
      BY <1>2
    <3> QED
      BY <1>2, <3>1 DEF IInv, RequestsInStep
  <2> QED
    BY <1>1, <2>1
<1> QED
  BY <1>5, <1>6 DEF HistoryInStep

LEMMA ClearKeepsHistory ==
  ASSUME IInv, HistoryInStep, Clear
  PROVE  HistoryInStep'
<1>1. DOMAIN messages' = {1} /\ messages'[1].role = "system"
  BY DEF Clear, Message
<1> QED
  BY <1>1 DEF HistoryInStep, RoundAnswered, Round

(* The round of a request that ends here is answered, or left behind.      *)
LEMMA Ends ==
  ASSUME HistoryInStep, NEW r \in Requests, request = r, request' = 0,
         UNCHANGED <<messages, reply, held, asks, requests>>,
         \A q \in Requests : CutOff(q) => CutOff(q)',
         RoundAnswered \/ CutOff(r)'
  PROVE  HistoryInStep'
<1>1. \A n : Answerable(n)' = Answerable(n)
  BY DEF Answerable, CallsOf
<1>2. ASSUME NEW i \in DOMAIN messages, messages[i].role = "calls" PROVE CallsInStep(i)'
  <2>1. CallsInStep(i)
    BY <1>2 DEF HistoryInStep
  <2>2. Settled(i) => Settled(i)'
    BY <1>1, SettledStays
  <2>3. ASSUME UnderWay(i), RoundAnswered PROVE Settled(i)
    BY <2>3 DEF UnderWay, RoundAnswered, Settled
  <2>4. ASSUME UnderWay(i), CutOff(r)' PROVE Settled(i)'
    <3>1. LastRoundOf(r, i)
      BY <2>4 DEF UnderWay, Round, LastRoundOf
    <3>2. LastRoundOf(r, i)'
      BY <3>1 DEF LastRoundOf
    <3> QED
      BY <2>4, <3>2 DEF Settled, LeftBehind
  <2> QED
    BY <2>1, <2>2, <2>3, <2>4 DEF CallsInStep
<1> QED
  BY <1>2 DEF HistoryInStep

LEMMA CancelKeepsHistory ==
  ASSUME IInv, IInv', HistoryInStep, Cancel
  PROVE  HistoryInStep'
<1>1. /\ request' = 0 /\ cancelled' = cancelled \cup ({request} \ {0})
      /\ UNCHANGED <<messages, reply, held, asks, requests, sent, reports>>
  BY DEF Cancel
<1>2. CASE request = 0
  <2>1. \A n : Answerable(n)' = Answerable(n)
    BY <1>1 DEF Answerable, CallsOf
  <2>2. \A r \in Requests : CutOff(r) => CutOff(r)'
    BY <1>1 DEF CutOff
  <2>3. ASSUME NEW i \in DOMAIN messages, messages[i].role = "calls" PROVE CallsInStep(i)'
    <3>1. CallsInStep(i) /\ ~UnderWay(i)
      BY <1>2, <2>3 DEF HistoryInStep, CallsInStep, UnderWay
    <3>2. Settled(i) => Settled(i)'
      BY <1>1, <2>1, <2>2, SettledStays
    <3> QED
      BY <1>1, <3>1, <3>2 DEF CallsInStep
  <2> QED
    BY <1>1, <2>3 DEF HistoryInStep
<1>3. CASE request # 0
  <2>1. PICK r \in Requests : request = r
    BY <1>3, OpenIsNotCutOff
  <2>2. CutOff(r)' /\ \A q \in Requests : CutOff(q) => CutOff(q)'
    BY <1>1, <1>3, <2>1 DEF CutOff
  <2> QED
    BY <1>1, <2>1, <2>2, Ends
<1> QED
  BY <1>2, <1>3

(* A request that ends with a text has all its calls answered; one that    *)
(* ends with an error, or with too many rounds, is reported as failed.      *)
LEMMA DeliveredKeepsHistory ==
  ASSUME IInv, IInv', HistoryInStep, Delivered
  PROVE  HistoryInStep'
<1>1. /\ stack # << >> /\ Top.step = "delivered" /\ GoesOn(Top)
  <2>1. At("delivered")
    BY DEF Delivered
  <2> QED
    BY <2>1, AtTop DEF Guarded
<1>2. /\ request # 0 /\ Top.call = request
      /\ reply[Top.ask].kind = "text" => sent[request] = rounds + 1
  BY <1>1, TopDrives DEF InPhase
<1>3. PICK r \in Requests : request = r
  BY <1>2, OpenIsNotCutOff
<1>4. PICK e \in {"finished", "failed"} :
        /\ e = "failed" \/ reply[Top.ask].kind = "text"
        /\ reports' = [reports EXCEPT ![r] = Append(@, e)]
  BY <1>2, <1>3 DEF Delivered
<1>5. request' = 0 /\ UNCHANGED <<messages, reply, held, asks, requests, cancelled>>
  BY DEF Delivered
<1>6. /\ reports \in [Requests -> Seq({"finished", "failed"})]
      /\ reports' \in [Requests -> Seq({"finished", "failed"})]
  BY DEF IInv, TypeOK
<1>7. /\ reports'[r] = Append(reports[r], e)
      /\ \A q \in Requests : q # r => reports'[q] = reports[q]
  BY <1>3, <1>4, <1>6
<1>8. /\ Len(reports[r]) + 1 \in DOMAIN reports'[r] /\ reports'[r][Len(reports[r]) + 1] = e
      /\ \A n \in DOMAIN reports[r] : n \in DOMAIN reports'[r] /\ reports'[r][n] = reports[r][n]
  <2>1. reports[r] \in Seq({"finished", "failed"})
    BY <1>6
  <2> QED
    BY <1>7, <2>1
<1>9. \A q \in Requests : CutOff(q) => CutOff(q)'
  <2>1. CutOff(r) => CutOff(r)'
    BY <1>5, <1>8 DEF CutOff
  <2>2. \A q \in Requests : q # r => (CutOff(q) => CutOff(q)')
    BY <1>5, <1>7 DEF CutOff
  <2> QED
    BY <2>1, <2>2
<1>10. RoundAnswered \/ CutOff(r)'
  <2>1. CASE e = "failed"
    BY <1>8, <2>1 DEF CutOff
  <2>2. CASE reply[Top.ask].kind = "text"
    BY <1>2, <2>2 DEF HistoryInStep
  <2> QED
    BY <1>4, <2>1, <2>2
<1> QED
  BY <1>3, <1>5, <1>9, <1>10, Ends

LEMMA NextKeepsHistory ==
  ASSUME IInv, IInv', HistoryInStep, [Next]_vars
  PROVE  HistoryInStep'
<1>1. CASE OnCompletion \/ Deliver \/ EndRound \/ AskAgain \/ SkipUnknownTool \/ StartTool
  BY <1>1, HistoryStays
     DEF OnCompletion, Deliver, EndRound, AskAgain, SkipUnknownTool, StartTool, caller
<1>2. CASE RunTool \/ ToolDone \/ AppReturns \/ UNCHANGED vars
  BY <1>2, HistoryStays DEF RunTool, ToolDone, AppReturns, vars, caller
<1>3. CASE Send \/ OnReply \/ Delivered \/ RecordAnswer
  BY <1>3, SendKeepsHistory, OnReplyKeepsHistory, DeliveredKeepsHistory, RecordAnswerKeepsHistory
<1>4. CASE RequestAsync \/ Cancel \/ Clear \/ ClientAnswers
  BY <1>4, RequestAsyncKeepsHistory, CancelKeepsHistory, ClearKeepsHistory, ClientAnswersKeepsHistory
<1> QED
  BY <1>1, <1>2, <1>3, <1>4 DEF Next, AgentStep

(* Whenever a completion is asked for, each reply in the history has a      *)
(* result for every call a tool can answer, unless it is the last reply of  *)
(* a request that was cancelled or failed: no request that goes on, and     *)
(* none that finished, leaves a call without its result                     *)
(* (handleToolCallsAsync, agent.cpp:299-319).                               *)
THEOREM CallsAnsweredOrCutOff ==
  ASSUME Honours
  PROVE  Spec => UnansweredCallsWereCutOff
<1>1. Init => HistoryInStep
  BY DEF Init, Message, HistoryInStep
<1>2. IInv /\ IInv' /\ HistoryInStep /\ [Next]_vars => HistoryInStep'
  BY NextKeepsHistory
<1>3. ASSUME IInv, HistoryInStep, [Next]_vars, asks' # asks,
             NEW i \in DOMAIN messages, messages[i].role = "calls"
      PROVE  Settled(i)
  <2>1. Send
    BY <1>3, OnlySendAsks
  <2>2. stack # << >> /\ Top.step = "send" /\ GoesOn(Top)
    <3>1. At("send")
      BY <2>1 DEF Send
    <3> QED
      BY <1>3, <3>1, AtTop DEF Guarded
  <2>3. RoundAnswered
    BY <1>3, <2>2, TopDrives DEF InPhase
  <2> QED
    BY <1>3, <2>3 DEF HistoryInStep, CallsInStep, UnderWay, RoundAnswered, Settled
<1>4. IInv /\ HistoryInStep /\ [Next]_vars =>
        [asks' # asks =>
           \A i \in DOMAIN messages :
             messages[i].role = "calls" =>
               \/ AllAnswered(i)
               \/ \E r \in Requests : CutOff(r) /\ LastRoundOf(r, i)]_vars
  BY <1>3 DEF Settled, LeftBehind
<1> QED
  BY Invariance, <1>1, <1>2, <1>4, PTL DEF Spec, UnansweredCallsWereCutOff
=============================================================================
