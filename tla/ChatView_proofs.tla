--------------------------- MODULE ChatView_proofs ---------------------------
(***************************************************************************)
(* Proofs about ChatView, for any conversations, turns, edits and failures: *)
(* what a session shows is that of the conversation it follows.  The calls  *)
(* that are not answered yet say where the runner is with a conversation,   *)
(* what the store holds once they are answered, and whether a session will  *)
(* still read it.  Then the list of conversations: what the loops of the    *)
(* model make of a list, by induction over their rounds, and that a list    *)
(* that is out of date will be read again.                                  *)
(***************************************************************************)
EXTENDS ChatView, SequenceTheorems, WellFoundedInduction, TLAPS

CallType == [kind : Kinds, conversation : Conversations \cup {NoConversation}, step : StepStates]

(* Of a list of calls: a call of this kind is in it. *)
IsA(k, kind, c) == k.kind = kind /\ k.conversation = c
Has(s, kind, c) == \E i \in DOMAIN s : IsA(s[i], kind, c)

(* The last step it saves of the turn of c is `step`, if it saves any. *)
Saves(s, c, step) ==
  \A i \in DOMAIN s : IsA(s[i], "saveStep", c) =>
    s[i].step = step \/ \E j \in DOMAIN s : i < j /\ IsA(s[j], "saveStep", c)

(* The messages of c are read after every step it saves. *)
Rereads(s, c) ==
  \A i \in DOMAIN s : IsA(s[i], "saveStep", c) => \E j \in DOMAIN s : i < j /\ IsA(s[j], "messages", c)

(* A turn is stored once and finished once, after its steps; a conversation *)
(* is removed once.                                                         *)
Clash(k, l) ==
  /\ k.conversation = l.conversation
  /\ \/ k.kind \in {"append", "restart"} /\ l.kind \in {"append", "restart"}
     \/ k.kind = "finish" /\ l.kind \in {"finish", "saveStep"}
     \/ k.kind = "remove" /\ l.kind = "remove"
Once(s) == \A i, j \in DOMAIN s : i < j => ~Clash(s[i], s[j])

(* What is still to be answered of a conversation fits where the runner is  *)
(* with it.                                                                 *)
CallsAt(c) ==
  /\ \A kind \in Kinds \ {"list", "create"} : Has(calls, kind, c) => c \in created
  /\ Has(calls, "append", c) \/ Has(calls, "restart", c) => turn[c] = "storing"
  /\ Has(calls, "saveStep", c) => turn[c] \in {"running", "finishing"}
  /\ Has(calls, "finish", c) => turn[c] = "finishing"
  /\ Has(calls, "remove", c) => turn[c] = "none" /\ c \in removing
CallsInStep ==
  /\ Once(calls)
  /\ \A c \in Conversations \cup {NoConversation} : CallsAt(c)

LastRunning(list) == list # << >> /\ list[Len(list)].status = "Running"
(* A step stays at work in the store only if neither it nor its answer      *)
(* could be stored.                                                         *)
BothFailed == {"finish", "saveStep"} \subseteq failed

(* The answer of a turn under way is the last row of its conversation. *)
StoreAt(c) ==
  /\ turn[c] # "none" => c \in created
  /\ \A i \in DOMAIN rows[c] : rows[c][i].conversation = c
  /\ turn[c] \in {"launching", "running", "finishing"} => LastRunning(rows[c])
  /\ turn[c] = "launching" => LastRow(c).step = NoStep
  /\ turn[c] = "finishing" => told[c] # "Running"
  /\ BothFailed \/ \A i \in DOMAIN rows[c] :
       rows[c][i].status = "Running" /\ rows[c][i].step = "Running" =>
         turn[c] \in {"running", "finishing"} /\ i = Len(rows[c])
StoreInStep == \A c \in Conversations : StoreAt(c)

(* The store has the step that was told last, or will have it. *)
StepsAt(c) ==
  turn[c] \in {"running", "finishing"} =>
    /\ Saves(calls, c, told[c])
    /\ ~Has(calls, "saveStep", c) => LastRow(c).step = told[c]
StepsInStep == "saveStep" \notin failed => \A c \in Conversations : StepsAt(c)

(* The session: what it shows of the conversation it follows, and what it   *)
(* will still be given of it.                                               *)
SessionAt(c) ==
  /\ turn[c] \in {"running", "finishing"} => session.busy
  /\ turn[c] = "running" /\ session.live = NoStep => Rereads(calls, c)
  /\ ~Has(calls, "messages", c) =>
       /\ turn[c] = "none" => session.shown = rows[c] /\ (BothFailed \/ ~session.activity)
       /\ turn[c] = "running" =>
            /\ LastRunning(session.shown)
            /\ "saveStep" \notin failed =>
                 /\ session.shown[Len(session.shown)].step = told[c]
                 /\ session.activity = (told[c] = "Running")
SessionInStep ==
  /\ session.busy => session.attached
  /\ session.live # NoStep => session.attached
  /\ session.followed = NoConversation => session.shown = << >> /\ ~session.activity
  /\ session.attached /\ session.followed # NoConversation => SessionAt(session.followed)

IInv ==
  /\ TypeOK
  /\ CallsInStep
  /\ StoreInStep
  /\ StepsInStep
  /\ SessionInStep
  /\ ShowsOnlyTheFollowed
  /\ NeverStuckBusy

-----------------------------------------------------------------------------
(* Lists of calls. *)

LEMMA KindsAre ==
  /\ {"list", "messages", "create", "append", "restart", "finish", "saveStep", "remove", "rename"}
       = Kinds
  /\ NoStep \in StepStates /\ NoStep = "none" /\ "Running" \in StepStates /\ "Ok" \in StepStates
BY DEF Kinds, StepStates, NoStep

(* A call is given: it stands last. *)
LEMMA Gives ==
  ASSUME NEW s \in Seq(CallType), NEW k \in CallType
  PROVE  /\ s \o <<k>> \in Seq(CallType) /\ Append(s, k) = s \o <<k>>
         /\ \A kind, c : Has(s \o <<k>>, kind, c) <=> Has(s, kind, c) \/ IsA(k, kind, c)
         /\ \A c, step : Saves(s, c, step) /\ ~IsA(k, "saveStep", c) => Saves(s \o <<k>>, c, step)
         /\ \A c : IsA(k, "saveStep", c) => Saves(s \o <<k>>, c, k.step)
         /\ \A c : Rereads(s, c) /\ ~IsA(k, "saveStep", c) => Rereads(s \o <<k>>, c)
         /\ \A c : IsA(k, "messages", c) => Rereads(s \o <<k>>, c)
         /\ Once(s) /\ (\A i \in DOMAIN s : ~Clash(s[i], k)) => Once(s \o <<k>>)
<1> DEFINE n == s \o <<k>>
<1>1. /\ n \in Seq(CallType) /\ Append(s, k) = n /\ Len(n) = Len(s) + 1 /\ Len(s) \in Nat
      /\ DOMAIN n = 1..Len(s) + 1 /\ DOMAIN s = 1..Len(s) /\ n[Len(s) + 1] = k
      /\ \A i \in DOMAIN s : n[i] = s[i]
  OBVIOUS
<1>2. \A i \in DOMAIN s : i \in DOMAIN n /\ i < Len(s) + 1 /\ Len(s) + 1 \in DOMAIN n
  BY <1>1
<1>3. \A i \in DOMAIN n : i \in DOMAIN s \/ i = Len(s) + 1
  BY <1>1
<1>4. Len(s) + 1 \in DOMAIN n
  BY <1>1
<1> HIDE DEF n
<1>5. ASSUME NEW kind, NEW c PROVE Has(n, kind, c) <=> Has(s, kind, c) \/ IsA(k, kind, c)
  BY <1>1, <1>2, <1>3, <1>4 DEF Has
<1>6. ASSUME NEW c, NEW step, Saves(s, c, step), ~IsA(k, "saveStep", c) PROVE Saves(n, c, step)
  <2> SUFFICES ASSUME NEW i \in DOMAIN n, IsA(n[i], "saveStep", c)
               PROVE  n[i].step = step \/ \E j \in DOMAIN n : i < j /\ IsA(n[j], "saveStep", c)
    BY DEF Saves
  <2>1. i \in DOMAIN s
    BY <1>1, <1>3, <1>6
  <2> QED
    BY <1>1, <1>2, <1>6, <2>1 DEF Saves
<1>7. ASSUME NEW c, IsA(k, "saveStep", c) PROVE Saves(n, c, k.step)
  BY <1>1, <1>2, <1>3, <1>7 DEF Saves
<1>8. ASSUME NEW c, Rereads(s, c), ~IsA(k, "saveStep", c) PROVE Rereads(n, c)
  <2> SUFFICES ASSUME NEW i \in DOMAIN n, IsA(n[i], "saveStep", c)
               PROVE  \E j \in DOMAIN n : i < j /\ IsA(n[j], "messages", c)
    BY DEF Rereads
  <2>1. i \in DOMAIN s
    BY <1>1, <1>3, <1>8
  <2> QED
    BY <1>1, <1>2, <1>8, <2>1 DEF Rereads
<1>9. ASSUME NEW c, IsA(k, "messages", c) PROVE Rereads(n, c)
  <2> SUFFICES ASSUME NEW i \in DOMAIN n, IsA(n[i], "saveStep", c)
               PROVE  \E j \in DOMAIN n : i < j /\ IsA(n[j], "messages", c)
    BY DEF Rereads
  <2>1. i \in DOMAIN s
    BY <1>1, <1>3, <1>9 DEF IsA
  <2> QED
    BY <1>1, <1>2, <1>9, <2>1
<1>10. ASSUME Once(s), \A i \in DOMAIN s : ~Clash(s[i], k) PROVE Once(n)
  <2> SUFFICES ASSUME NEW i \in DOMAIN n, NEW j \in DOMAIN n, i < j PROVE ~Clash(n[i], n[j])
    BY DEF Once
  <2>1. i \in DOMAIN s
    BY <1>1
  <2> QED
    BY <1>1, <1>3, <1>10, <2>1 DEF Once
<1> QED
  BY <1>1, <1>5, <1>6, <1>7, <1>8, <1>9, <1>10 DEF n

(* A call is answered: it stood first. *)
LEMMA Answers ==
  ASSUME NEW s \in Seq(CallType), s # << >>
  PROVE  /\ Head(s) \in CallType /\ Tail(s) \in Seq(CallType)
         /\ \A kind, c : Has(Tail(s), kind, c) => Has(s, kind, c)
         /\ \A kind, c : Has(s, kind, c) => Has(Tail(s), kind, c) \/ IsA(Head(s), kind, c)
         /\ \A kind, c : IsA(Head(s), kind, c) => Has(s, kind, c)
         /\ \A c, step : Saves(s, c, step) => Saves(Tail(s), c, step)
         /\ \A c, step : Saves(s, c, step) /\ IsA(Head(s), "saveStep", c)
                           /\ ~Has(Tail(s), "saveStep", c) => Head(s).step = step
         /\ \A c : Rereads(s, c) => Rereads(Tail(s), c)
         /\ \A c : Rereads(s, c) /\ ~Has(Tail(s), "messages", c) => ~Has(Tail(s), "saveStep", c)
         /\ Once(s) => Once(Tail(s)) /\ \A i \in DOMAIN Tail(s) : ~Clash(Head(s), Tail(s)[i])
<1> DEFINE n == Tail(s)
<1>1. /\ n \in Seq(CallType) /\ Len(n) = Len(s) - 1 /\ Len(s) \in Nat /\ Head(s) = s[1]
      /\ s[1] \in CallType /\ DOMAIN n = 1..Len(s) - 1 /\ DOMAIN s = 1..Len(s) /\ 1 \in DOMAIN s
      /\ \A i \in DOMAIN n : n[i] = s[i + 1]
  OBVIOUS
<1>2. \A i \in DOMAIN n : i + 1 \in DOMAIN s /\ i \in Nat /\ 1 < i + 1
  BY <1>1
<1>3. ASSUME NEW i \in DOMAIN s, i # 1
      PROVE  i - 1 \in DOMAIN n /\ n[i - 1] = s[i]
  BY <1>1, <1>3
<1>4. \A i, j \in DOMAIN n : i + 1 < j + 1 <=> i < j
  BY <1>1
<1>5. ASSUME NEW i \in DOMAIN n, NEW j \in DOMAIN s, i + 1 < j
      PROVE  j - 1 \in DOMAIN n /\ i < j - 1 /\ n[j - 1] = s[j]
  BY <1>1, <1>5
<1> HIDE DEF n
<1>6. ASSUME NEW kind, NEW c
      PROVE  /\ Has(n, kind, c) => Has(s, kind, c)
             /\ Has(s, kind, c) => Has(n, kind, c) \/ IsA(Head(s), kind, c)
             /\ IsA(Head(s), kind, c) => Has(s, kind, c)
  BY <1>1, <1>2, <1>3 DEF Has
<1>7. ASSUME NEW c, NEW step, Saves(s, c, step) PROVE Saves(n, c, step)
  <2> SUFFICES ASSUME NEW i \in DOMAIN n, IsA(n[i], "saveStep", c), n[i].step # step
               PROVE  \E j \in DOMAIN n : i < j /\ IsA(n[j], "saveStep", c)
    BY DEF Saves
  <2>1. PICK j \in DOMAIN s : i + 1 < j /\ IsA(s[j], "saveStep", c)
    BY <1>1, <1>2, <1>7 DEF Saves
  <2> QED
    BY <1>5, <2>1
<1>8. ASSUME NEW c, NEW step, Saves(s, c, step), IsA(Head(s), "saveStep", c),
             ~Has(n, "saveStep", c)
      PROVE  Head(s).step = step
  <2>1. \A j \in DOMAIN s : 1 < j => ~IsA(s[j], "saveStep", c)
    BY <1>1, <1>3, <1>8 DEF Has
  <2> QED
    BY <1>1, <1>8, <2>1 DEF Saves
<1>9. ASSUME NEW c, Rereads(s, c) PROVE Rereads(n, c)
  <2> SUFFICES ASSUME NEW i \in DOMAIN n, IsA(n[i], "saveStep", c)
               PROVE  \E j \in DOMAIN n : i < j /\ IsA(n[j], "messages", c)
    BY DEF Rereads
  <2>1. PICK j \in DOMAIN s : i + 1 < j /\ IsA(s[j], "messages", c)
    BY <1>1, <1>2, <1>9 DEF Rereads
  <2> QED
    BY <1>5, <2>1
<1>10. ASSUME NEW c, Rereads(s, c), ~Has(n, "messages", c) PROVE ~Has(n, "saveStep", c)
  BY <1>9, <1>10 DEF Rereads, Has
<1>11. ASSUME Once(s) PROVE Once(n) /\ \A i \in DOMAIN n : ~Clash(Head(s), n[i])
  BY <1>1, <1>2, <1>4, <1>11 DEF Once
<1> QED
  BY <1>1, <1>6, <1>7, <1>8, <1>9, <1>10, <1>11 DEF n

(* Once, in the words of the calls that stand in the list. *)
LEMMA AnsweredOnce ==
  ASSUME NEW s \in Seq(CallType), s # << >>, Once(s), NEW c
  PROVE  /\ IsA(Head(s), "append", c) \/ IsA(Head(s), "restart", c) =>
              ~Has(Tail(s), "append", c) /\ ~Has(Tail(s), "restart", c)
         /\ IsA(Head(s), "finish", c) =>
              ~Has(Tail(s), "finish", c) /\ ~Has(Tail(s), "saveStep", c)
         /\ IsA(Head(s), "remove", c) => ~Has(Tail(s), "remove", c)
<1>1. \A i \in DOMAIN Tail(s) : ~Clash(Head(s), Tail(s)[i])
  BY Answers
<1> QED
  BY <1>1 DEF Has, IsA, Clash

LEMMA GivenOnce ==
  ASSUME NEW s \in Seq(CallType), Once(s), NEW k \in CallType,
         k.kind \in {"append", "restart"} =>
           ~Has(s, "append", k.conversation) /\ ~Has(s, "restart", k.conversation),
         k.kind \in {"finish", "saveStep"} => ~Has(s, "finish", k.conversation),
         k.kind = "remove" => ~Has(s, "remove", k.conversation)
  PROVE  Once(s \o <<k>>)
<1>1. ASSUME NEW i \in DOMAIN s PROVE ~Clash(s[i], k)
  BY DEF Clash, Has, IsA
<1> QED
  BY <1>1, Gives

-----------------------------------------------------------------------------
(* What a list of calls says of one conversation. *)

Work == {"append", "restart", "finish", "saveStep", "remove"}
Creating(s) == \E i \in DOMAIN s : s[i].kind = "create"

SameWork(n, s, d) ==
  /\ \A kind \in Work : Has(n, kind, d) <=> Has(s, kind, d)
  /\ \A step : Saves(s, d, step) => Saves(n, d, step)
Same(n, s, d) ==
  /\ SameWork(n, s, d)
  /\ Has(n, "messages", d) <=> Has(s, "messages", d)
  /\ Rereads(s, d) => Rereads(n, d)

LEMMA SameThen ==
  ASSUME NEW s, NEW m, NEW n, NEW d
  PROVE  /\ SameWork(m, s, d) /\ SameWork(n, m, d) => SameWork(n, s, d)
         /\ Same(m, s, d) /\ Same(n, m, d) => Same(n, s, d)
         /\ SameWork(s, s, d) /\ Same(s, s, d)
BY DEF Same, SameWork

LEMMA GivesSame ==
  ASSUME NEW s \in Seq(CallType), NEW k \in CallType
  PROVE  /\ \A d : k.conversation # d \/ k.kind \in {"list", "create", "rename"} => Same(s \o <<k>>, s, d)
         /\ \A d : k.conversation # d \/ k.kind \notin Work => SameWork(s \o <<k>>, s, d)
         /\ Creating(s) => Creating(s \o <<k>>)
         /\ k.kind \notin Work /\ Once(s) => Once(s \o <<k>>)
<1> DEFINE n == s \o <<k>>
<1>1. \A kind, d : Has(n, kind, d) <=> Has(s, kind, d) \/ IsA(k, kind, d)
  BY Gives
<1>2. \A d, step : Saves(s, d, step) /\ ~IsA(k, "saveStep", d) => Saves(n, d, step)
  BY Gives
<1>3. \A d : Rereads(s, d) /\ ~IsA(k, "saveStep", d) => Rereads(n, d)
  BY Gives
<1>4. Creating(s) <=> \E c : Has(s, "create", c)
  BY DEF Creating, Has, IsA
<1>5. Creating(n) <=> \E c : Has(n, "create", c)
  BY DEF Creating, Has, IsA
<1>6. k.kind \notin Work /\ Once(s) => Once(n)
  <2>1. k.kind \notin Work => \A i \in DOMAIN s : ~Clash(s[i], k)
    BY DEF Clash, Work
  <2> QED
    BY <2>1, Gives
<1> HIDE DEF n
<1>7. ASSUME NEW d, k.conversation # d \/ k.kind \in {"list", "create", "rename"} PROVE Same(n, s, d)
  <2>1. \A kind : kind \notin {"list", "create", "rename"} => ~IsA(k, kind, d)
    BY <1>7 DEF IsA
  <2> QED
    BY <1>1, <1>2, <1>3, <2>1 DEF Same, SameWork, Work
<1>8. ASSUME NEW d, k.conversation # d \/ k.kind \notin Work PROVE SameWork(n, s, d)
  <2>1. \A kind \in Work : ~IsA(k, kind, d)
    BY <1>8 DEF IsA
  <2> QED
    BY <1>1, <1>2, <2>1 DEF SameWork, Work
<1> QED
  BY <1>1, <1>4, <1>5, <1>6, <1>7, <1>8 DEF n

LEMMA AnswersSame ==
  ASSUME NEW s \in Seq(CallType), s # << >>
  PROVE  /\ \A d : Head(s).conversation # d \/ Head(s).kind \in {"list", "create", "rename"} =>
              Same(Tail(s), s, d)
         /\ \A d : Head(s).conversation # d \/ Head(s).kind \notin Work => SameWork(Tail(s), s, d)
         /\ Head(s).kind # "create" /\ Creating(s) => Creating(Tail(s))
<1> DEFINE n == Tail(s)
           k == Head(s)
<1>1. \A kind, d : (Has(n, kind, d) => Has(s, kind, d))
                   /\ (Has(s, kind, d) => Has(n, kind, d) \/ IsA(k, kind, d))
  BY Answers
<1>2. \A d, step : Saves(s, d, step) => Saves(n, d, step)
  BY Answers
<1>3. \A d : Rereads(s, d) => Rereads(n, d)
  BY Answers
<1>4. Creating(s) <=> \E c : Has(s, "create", c)
  BY DEF Creating, Has, IsA
<1>5. Creating(n) <=> \E c : Has(n, "create", c)
  BY DEF Creating, Has, IsA
<1> HIDE DEF n, k
<1>6. \A kind, d : IsA(k, kind, d) => k.kind = kind /\ k.conversation = d
  BY DEF IsA
<1>7. ASSUME NEW d, k.conversation # d \/ k.kind \in {"list", "create", "rename"} PROVE Same(n, s, d)
  <2>1. \A kind : kind \notin {"list", "create", "rename"} => ~IsA(k, kind, d)
    BY <1>6, <1>7
  <2> QED
    BY <1>1, <1>2, <1>3, <2>1 DEF Same, SameWork, Work
<1>8. ASSUME NEW d, k.conversation # d \/ k.kind \notin Work PROVE SameWork(n, s, d)
  <2>1. \A kind \in Work : ~IsA(k, kind, d)
    BY <1>6, <1>8
  <2> QED
    BY <1>1, <1>2, <2>1 DEF SameWork
<1>9. k.kind # "create" /\ Creating(s) => Creating(n)
  BY <1>1, <1>4, <1>5, <1>6
<1> QED
  BY <1>7, <1>8, <1>9 DEF n, k

(* The messages of the conversation it follows are asked for, if it follows *)
(* one.                                                                     *)
Loads(x) == x.attached /\ x.followed # NoConversation
SessionType ==
  [attached : BOOLEAN, followed : created \cup {NoConversation}, busy : BOOLEAN,
   activity : BOOLEAN, live : StepStates, shown : Seq(Rows)]

LEMMA CallTypes ==
  ASSUME NEW kind \in Kinds, NEW c \in Conversations \cup {NoConversation}
  PROVE  /\ Call(kind, c) \in CallType
         /\ Call(kind, c).kind = kind /\ Call(kind, c).conversation = c
         /\ \A other, d : IsA(Call(kind, c), other, d) <=> other = kind /\ d = c
BY KindsAre DEF Call, CallType, IsA

LEMMA Reloading ==
  ASSUME NEW s \in Seq(CallType), NEW x, x.followed \in Conversations \cup {NoConversation}
  PROVE  /\ s \o Reload(x) \in Seq(CallType)
         /\ \A kind, d : Has(s \o Reload(x), kind, d)
              <=> Has(s, kind, d) \/ (Loads(x) /\ kind = "messages" /\ d = x.followed)
         /\ \A d : d # x.followed => Same(s \o Reload(x), s, d)
         /\ \A d : SameWork(s \o Reload(x), s, d) /\ (Rereads(s, d) => Rereads(s \o Reload(x), d))
         /\ Loads(x) => Rereads(s \o Reload(x), x.followed)
         /\ Creating(s) => Creating(s \o Reload(x))
         /\ Once(s) => Once(s \o Reload(x))
<1> DEFINE k == Call("messages", x.followed)
<1>1. CASE Loads(x)
  <2>1. Reload(x) = <<k>>
    BY <1>1 DEF Reload, Loads
  <2>2. /\ k \in CallType /\ k.kind = "messages" /\ k.conversation = x.followed
        /\ \A other, d : IsA(k, other, d) <=> other = "messages" /\ d = x.followed
    BY KindsAre, CallTypes
  <2> HIDE DEF k
  <2>3. "messages" \notin Work
    BY DEF Work
  <2>4. /\ s \o <<k>> \in Seq(CallType)
        /\ \A kind, d : Has(s \o <<k>>, kind, d) <=> Has(s, kind, d) \/ IsA(k, kind, d)
        /\ \A d : Rereads(s, d) /\ ~IsA(k, "saveStep", d) => Rereads(s \o <<k>>, d)
        /\ \A d : IsA(k, "messages", d) => Rereads(s \o <<k>>, d)
    BY <2>2, Gives
  <2>5. /\ \A d : k.conversation # d => Same(s \o <<k>>, s, d)
        /\ \A d : SameWork(s \o <<k>>, s, d)
        /\ Creating(s) => Creating(s \o <<k>>)
        /\ Once(s) => Once(s \o <<k>>)
    BY <2>2, <2>3, GivesSame
  <2> QED
    BY <1>1, <2>1, <2>2, <2>4, <2>5
<1>2. CASE ~Loads(x)
  <2>1. Reload(x) = << >>
    BY <1>2 DEF Reload, Loads
  <2>2. s \o Reload(x) = s
    BY <2>1
  <2> QED
    BY <1>2, <2>2, SameThen
<1> QED
  BY <1>1, <1>2

(* What Chat and the session post upon a signal of the runner about c. *)
LEMMA Signals ==
  ASSUME NEW s \in Seq(CallType), NEW c \in Conversations, ViewAssumption
  PROVE  LET n == s \o (ListCall \o Reloads(c)) IN
         /\ n \in Seq(CallType)
         /\ \A kind, d : kind # "list" =>
              (Has(n, kind, d) <=> Has(s, kind, d) \/ (Follows(c) /\ kind = "messages" /\ d = c))
         /\ \A d : d # c => Same(n, s, d)
         /\ \A d : SameWork(n, s, d) /\ (Rereads(s, d) => Rereads(n, d))
         /\ Follows(c) => Rereads(n, c)
         /\ Creating(s) => Creating(n)
         /\ Once(s) => Once(n)
<1> DEFINE k == Call("list", NoConversation)
           m == s \o <<k>>
           n == s \o (ListCall \o Reloads(c))
<1>1. /\ k \in CallType /\ k.kind = "list"
      /\ \A other, d : IsA(k, other, d) <=> other = "list" /\ d = NoConversation
  <2>1. "list" \in Kinds /\ NoConversation \in Conversations \cup {NoConversation}
    BY KindsAre
  <2> QED
    BY <2>1, CallTypes
<1>2. c # NoConversation
  BY DEF ViewAssumption
<1>3. /\ m \in Seq(CallType)
      /\ \A kind, d : Has(m, kind, d) <=> Has(s, kind, d) \/ IsA(k, kind, d)
      /\ \A d : Rereads(s, d) /\ ~IsA(k, "saveStep", d) => Rereads(m, d)
  BY <1>1, Gives
<1>4. "list" \notin Work
  BY DEF Work
<1>5. /\ \A d : Same(m, s, d) /\ SameWork(m, s, d)
      /\ Creating(s) => Creating(m)
      /\ Once(s) => Once(m)
  BY <1>1, <1>4, GivesSame
<1>6. n = m \o Reloads(c)
  <2>1. CASE Reloads(c) = << >>
    BY <1>1, <2>1 DEF ListCall
  <2>2. CASE Reloads(c) # << >>
    <3>1. Reloads(c) = <<Call("messages", session.followed)>>
      BY <2>2 DEF Reloads, Reload
    <3> QED
      BY <1>1, <3>1 DEF ListCall
  <2> QED
    BY <2>1, <2>2
<1>7. CASE Follows(c)
  <2>1. /\ session.followed = c /\ Loads(session) /\ Reloads(c) = Reload(session)
    BY <1>2, <1>7 DEF Follows, Loads, Reloads
  <2> DEFINE r == m \o Reload(session)
  <2>2. n = r
    BY <1>6, <2>1
  <2>3. /\ r \in Seq(CallType)
        /\ \A kind, d : Has(r, kind, d) <=> Has(m, kind, d) \/ (kind = "messages" /\ d = c)
        /\ \A d : d # c => Same(r, m, d)
        /\ \A d : SameWork(r, m, d) /\ (Rereads(m, d) => Rereads(r, d))
        /\ Rereads(r, c)
        /\ Creating(m) => Creating(r)
        /\ Once(m) => Once(r)
    <3>1. session.followed \in Conversations \cup {NoConversation}
      BY <2>1
    <3>2. /\ r \in Seq(CallType)
          /\ \A kind, d : Has(r, kind, d)
               <=> Has(m, kind, d) \/ (Loads(session) /\ kind = "messages" /\ d = session.followed)
          /\ \A d : d # session.followed => Same(r, m, d)
          /\ \A d : SameWork(r, m, d) /\ (Rereads(m, d) => Rereads(r, d))
          /\ Loads(session) => Rereads(r, session.followed)
          /\ Creating(m) => Creating(r)
          /\ Once(m) => Once(r)
      BY <1>3, <3>1, Reloading
    <3> HIDE DEF m, r, k
    <3> QED
      BY <2>1, <3>2
  <2> HIDE DEF k, m, n, r
  <2>4. \A d : (d # c => Same(r, s, d)) /\ SameWork(r, s, d)
    BY <1>5, <2>3, SameThen
  <2>5. \A d : Rereads(s, d) => Rereads(r, d)
    BY <1>1, <1>3, <2>3
  <2> QED
    BY <1>1, <1>3, <1>5, <1>7, <2>2, <2>3, <2>4, <2>5 DEF n
<1>8. CASE ~Follows(c)
  <2>1. n = m
    <3>1. Reloads(c) = << >>
      BY <1>8 DEF Reloads
    <3> QED
      BY <1>3, <1>6, <3>1
  <2> HIDE DEF k, m, n
  <2> QED
    BY <1>1, <1>3, <1>5, <1>8, <2>1 DEF n
<1> QED
  BY <1>7, <1>8

-----------------------------------------------------------------------------
(* What a step leaves alone. *)

SessionPart == SessionInStep /\ ShowsOnlyTheFollowed /\ NeverStuckBusy

Kept(d) ==
  /\ Same(calls', calls, d)
  /\ turn'[d] = turn[d] /\ told'[d] = told[d] /\ rows'[d] = rows[d]
  /\ d \in removing <=> d \in removing'

OnlyOfCreated ==
  \A d \in Conversations \cup {NoConversation} :
    \A kind \in Kinds \ {"list", "create"} : Has(calls, kind, d) => d \in created

LEMMA WorkKinds ==
  /\ \A kind \in Work : kind \in Kinds \ {"list", "create"}
  /\ "append" \in Work /\ "restart" \in Work /\ "finish" \in Work /\ "saveStep" \in Work
  /\ "remove" \in Work /\ "messages" \notin Work /\ "rename" \notin Work /\ "list" \notin Work
  /\ "create" \notin Work
  /\ "messages" \in Kinds \ {"list", "create"} /\ "rename" \in Kinds \ {"list", "create"}
BY DEF Work, Kinds

LEMMA KeptOf ==
  ASSUME ViewAssumption, IInv, TypeOK', NEW d \in Conversations,
         SameWork(calls', calls, d),
         turn'[d] = turn[d], told'[d] = told[d], rows'[d] = rows[d],
         d \in removing => d \in removing', created \subseteq created', failed \subseteq failed',
         OnlyOfCreated'
  PROVE  CallsAt(d)' /\ StoreAt(d)' /\ ("saveStep" \notin failed' => StepsAt(d)')
<1>1. CallsAt(d) /\ StoreAt(d) /\ ("saveStep" \notin failed => StepsAt(d))
  BY DEF IInv, CallsInStep, StoreInStep, StepsInStep
<1>2. \A kind \in Work : Has(calls', kind, d) <=> Has(calls, kind, d)
  BY DEF SameWork
<1>3. CallsAt(d)'
  <2>1. \A kind \in Kinds \ {"list", "create"} : Has(calls', kind, d) => d \in created'
    BY DEF OnlyOfCreated
  <2> QED
    BY <1>1, <1>2, <2>1, WorkKinds DEF CallsAt
<1>4. StoreAt(d)'
  <2>1. BothFailed => BothFailed'
    BY DEF BothFailed
  <2> QED
    BY <1>1, <2>1 DEF StoreAt, LastRow
<1>5. "saveStep" \notin failed' => StepsAt(d)'
  <2>1. \A step : Saves(calls, d, step) => Saves(calls', d, step)
    BY DEF SameWork
  <2> QED
    BY <1>1, <1>2, <2>1, WorkKinds DEF StepsAt, LastRow
<1> QED
  BY <1>3, <1>4, <1>5

(* A step that concerns the runner and the store not at all. *)
LEMMA WorkKept ==
  ASSUME ViewAssumption, IInv, TypeOK', UNCHANGED <<rows, turn, told, removing>>,
         created \subseteq created', failed \subseteq failed', Once(calls'), OnlyOfCreated',
         \A d \in Conversations : SameWork(calls', calls, d)
  PROVE  CallsInStep' /\ StoreInStep' /\ StepsInStep'
<1>1. \A d \in Conversations : CallsAt(d)' /\ StoreAt(d)' /\ ("saveStep" \notin failed' => StepsAt(d)')
  BY KeptOf
<1>2. CallsAt(NoConversation)'
  <2>1. NoConversation \notin created'
    BY DEF ViewAssumption, TypeOK
  <2> QED
    BY <2>1, WorkKinds DEF OnlyOfCreated, CallsAt
<1>3. CallsInStep'
  BY <1>1, <1>2 DEF CallsInStep
<1> QED
  BY <1>1, <1>3 DEF StoreInStep, StepsInStep

(* A step that concerns one conversation. *)
LEMMA WorkOf ==
  ASSUME ViewAssumption, IInv, TypeOK', NEW c \in Conversations,
         \A d \in Conversations \ {c} : Kept(d),
         created \subseteq created', failed \subseteq failed', Once(calls'), OnlyOfCreated',
         CallsAt(c)', StoreAt(c)', "saveStep" \notin failed' => StepsAt(c)'
  PROVE  CallsInStep' /\ StoreInStep' /\ StepsInStep'
<1>1. ASSUME NEW d \in Conversations
      PROVE  CallsAt(d)' /\ StoreAt(d)' /\ ("saveStep" \notin failed' => StepsAt(d)')
  <2>1. CASE d = c
    BY <2>1
  <2>2. CASE d # c
    BY <2>2, KeptOf DEF Kept, Same
  <2> QED
    BY <2>1, <2>2
<1>2. CallsAt(NoConversation)'
  <2>1. NoConversation \notin created'
    BY DEF ViewAssumption, TypeOK
  <2> QED
    BY <2>1, WorkKinds DEF OnlyOfCreated, CallsAt
<1>3. CallsInStep'
  BY <1>1, <1>2 DEF CallsInStep
<1> QED
  BY <1>1, <1>3 DEF StoreInStep, StepsInStep

LEMMA PendingIs ==
  /\ \A kind, c : Pending(kind, c) <=> Has(calls, kind, c)
  /\ \A kind, c : Pending(kind, c)' <=> Has(calls', kind, c)
BY DEF Pending, Has, IsA

(* A session that does not follow the conversation a step concerns. *)
LEMMA SessionKept ==
  ASSUME ViewAssumption, IInv, session' = session,
         session.attached /\ session.followed # NoConversation => Kept(session.followed),
         failed \subseteq failed',
         session.followed = NoConversation /\ Creating(calls) => Creating(calls')
  PROVE  SessionPart'
<1> PICK c : c = session.followed
  OBVIOUS
<1>1. /\ session \in SessionType /\ created \subseteq Conversations
      /\ SessionInStep /\ ShowsOnlyTheFollowed /\ NeverStuckBusy
  BY DEF IInv, TypeOK, SessionType
<1>2. /\ session.busy => session.attached
      /\ session.live # NoStep => session.attached
      /\ c = NoConversation => session.shown = << >> /\ ~session.activity
      /\ session.attached /\ c # NoConversation => SessionAt(c)
  BY <1>1 DEF SessionInStep
<1>3. session.attached /\ c # NoConversation => SessionAt(c)'
  <2> SUFFICES ASSUME session.attached, c # NoConversation PROVE SessionAt(c)'
    OBVIOUS
  <2>1. SessionAt(c) /\ Kept(c)
    BY <1>2
  <2>2. /\ Has(calls', "messages", c) <=> Has(calls, "messages", c)
        /\ Rereads(calls, c) => Rereads(calls', c)
    BY <2>1 DEF Kept, Same
  <2>3. BothFailed => BothFailed'
    BY DEF BothFailed
  <2> QED
    BY <2>1, <2>2, <2>3 DEF SessionAt, Kept
<1>4. SessionInStep'
  BY <1>2, <1>3 DEF SessionInStep
<1>5. ShowsOnlyTheFollowed'
  <2>1. session.live # NoStep => c \in Conversations
    BY <1>1 DEF ShowsOnlyTheFollowed
  <2>2. session.live # NoStep => Kept(c)
    BY <1>2, <2>1 DEF ViewAssumption
  <2> QED
    BY <1>1, <2>2 DEF ShowsOnlyTheFollowed, Kept
<1>6. NeverStuckBusy'
  <2> SUFFICES ASSUME session.busy, "remove" \notin failed'
               PROVE  IF c = NoConversation THEN Creating(calls')
                      ELSE IsBusy(c)' \/ Pending("messages", c)'
    BY DEF NeverStuckBusy, Creating
  <2>1. IF c = NoConversation THEN Creating(calls) ELSE IsBusy(c) \/ Pending("messages", c)
    BY <1>1 DEF NeverStuckBusy, Creating
  <2>2. CASE c = NoConversation
    BY <2>1, <2>2
  <2>3. CASE c # NoConversation
    <3>1. Kept(c)
      BY <1>2, <2>3
    <3>2. Has(calls', "messages", c) <=> Has(calls, "messages", c)
      BY <3>1 DEF Kept, Same
    <3> QED
      BY <2>1, <2>3, <3>1, <3>2, PendingIs DEF IsBusy, Kept
  <2> QED
    BY <2>2, <2>3
<1> QED
  BY <1>4, <1>5, <1>6 DEF SessionPart

-----------------------------------------------------------------------------
(* The rows a session shows. *)

LEMMA Greatest ==
  ASSUME NEW n \in Nat, NEW S \in SUBSET (1..n), S # {}
  PROVE  \E x \in S : \A y \in S : y <= x
<1> DEFINE T == {n - x : x \in S}
           R == OpToRel(<, Nat)
<1>1. \A x \in S : x \in Nat /\ n - x \in Nat
  OBVIOUS
<1>2. T \subseteq Nat /\ T # {}
  <2> HIDE DEF R
  <2> QED
    BY <1>1
<1>3. IsWellFoundedOn(R, Nat)
  BY NatLessThanWellFounded
<1>4. PICK t \in T : \A y \in T : ~ (<<y, t>> \in R)
  <2> HIDE DEF T, R
  <2> QED
    BY <1>2, <1>3, WFMin
<1>5. \A y \in T : ~(y < t)
  BY <1>2, <1>4 DEF OpToRel
<1> HIDE DEF R
<1>6. PICK x \in S : t = n - x
  OBVIOUS
<1>7. ASSUME NEW y \in S PROVE y <= x
  <2>1. ~(n - y < n - x)
    BY <1>5, <1>6
  <2> HIDE DEF T
  <2> QED
    BY <1>1, <2>1
<1> QED
  BY <1>7

LEMMA RunningRowIs ==
  ASSUME NEW list \in Seq(Rows), RunningRows(list) # {}
  PROVE  RunningRow(list) \in DOMAIN list /\ list[RunningRow(list)].status = "Running"
<1>1. RunningRows(list) \in SUBSET (1..Len(list)) /\ Len(list) \in Nat
  BY DEF RunningRows
<1>2. \E i \in RunningRows(list) : \A j \in RunningRows(list) : j <= i
  BY <1>1, Greatest
<1>3. RunningRow(list) \in RunningRows(list)
  BY <1>2 DEF RunningRow
<1> QED
  BY <1>3 DEF RunningRows

LEMMA LastRunningRow ==
  ASSUME NEW list \in Seq(Rows), LastRunning(list)
  PROVE  /\ RunningRows(list) # {} /\ RunningRow(list) = Len(list) /\ Len(list) \in DOMAIN list
         /\ Activity(list) = (list[Len(list)].step = "Running")
<1>1. Len(list) \in RunningRows(list) /\ \A j \in RunningRows(list) : j <= Len(list)
  BY DEF RunningRows, LastRunning
<1>2. \A i \in RunningRows(list) : i \in Nat
  BY DEF RunningRows
<1>3. \A i \in RunningRows(list) : (\A j \in RunningRows(list) : j <= i) => i = Len(list)
  BY <1>1, <1>2
<1>4. RunningRow(list) = Len(list)
  BY <1>1, <1>3 DEF RunningRow
<1> QED
  BY <1>1, <1>4 DEF Activity, RunningRows

LEMMA Idle ==
  ASSUME NEW list \in Seq(Rows),
         \A i \in DOMAIN list : list[i].status = "Running" => list[i].step # "Running"
  PROVE  ~Activity(list)
BY RunningRowIs DEF Activity

(* A step that is put leaves all of the rows but the last running one. *)
LEMMA Puts ==
  ASSUME NEW list \in Seq(Rows), NEW step \in StepStates
  PROVE  /\ PutStep(list, step) \in Seq(Rows)
         /\ DOMAIN PutStep(list, step) = DOMAIN list
         /\ \A i \in DOMAIN list : PutStep(list, step)[i].conversation = list[i].conversation
         /\ LastRunning(list) => /\ LastRunning(PutStep(list, step))
                                 /\ PutStep(list, step)[Len(PutStep(list, step))].step = step
<1>1. CASE RunningRows(list) = {}
  <2>1. PutStep(list, step) = list
    BY <1>1 DEF PutStep
  <2> QED
    BY <1>1, <2>1, LastRunningRow
<1>2. CASE RunningRows(list) # {}
  <2> PICK r \in DOMAIN list : r = RunningRow(list)
    BY <1>2, RunningRowIs
  <2> DEFINE put == [list EXCEPT ![r].step = step]
  <2>1. PutStep(list, step) = put
    BY <1>2 DEF PutStep
  <2>2. list[r] \in Rows /\ [list[r] EXCEPT !.step = step] \in Rows
    <3>1. list[r] \in Rows
      OBVIOUS
    <3> QED
      BY <3>1 DEF Rows
  <2>3. /\ put \in Seq(Rows) /\ Len(put) = Len(list) /\ DOMAIN put = DOMAIN list
        /\ put[r] = [list[r] EXCEPT !.step = step]
        /\ \A i \in DOMAIN list : i # r => put[i] = list[i]
    BY <2>2
  <2> HIDE DEF put
  <2>4. /\ put[r].step = step /\ put[r].status = list[r].status
        /\ put[r].conversation = list[r].conversation
    BY <2>2, <2>3 DEF Rows
  <2>5. LastRunning(list) => r = Len(list)
    BY LastRunningRow
  <2>6. LastRunning(list) => LastRunning(put) /\ put[Len(put)].step = step
    <3>1. LastRunning(list) => Len(put) = r /\ put # << >>
      BY <2>3, <2>5 DEF LastRunning
    <3>2. LastRunning(list) => list[r].status = "Running"
      BY <2>5 DEF LastRunning
    <3> QED
      BY <2>4, <3>1, <3>2 DEF LastRunning
  <2> QED
    BY <2>1, <2>3, <2>4, <2>6
<1> QED
  BY <1>1, <1>2

-----------------------------------------------------------------------------
(* Steps that concern the view alone: the runner and the rows that are      *)
(* stored stay as they are.                                                 *)

LEMMA Invariants ==
  ASSUME ViewAssumption, IInv
  PROVE  /\ calls \in Seq(CallType) /\ Once(calls) /\ OnlyOfCreated
         /\ session \in SessionType /\ created \subseteq Conversations
         /\ \A c \in Conversations : /\ CallsAt(c) /\ StoreAt(c)
                                     /\ "saveStep" \notin failed => StepsAt(c)
                                     /\ rows[c] \in Seq(Rows) /\ told[c] \in StepStates
         /\ SessionInStep /\ ShowsOnlyTheFollowed /\ NeverStuckBusy
<1>1. TypeOK /\ CallsInStep /\ StoreInStep /\ StepsInStep
  BY DEF IInv
<1>2. OnlyOfCreated
  BY <1>1 DEF CallsInStep, CallsAt, OnlyOfCreated
<1>3. SessionInStep /\ ShowsOnlyTheFollowed /\ NeverStuckBusy
  BY DEF IInv
<1>4. Once(calls) /\ \A c \in Conversations : CallsAt(c) /\ StoreAt(c)
  BY <1>1 DEF CallsInStep, StoreInStep
<1>5. "saveStep" \notin failed => \A c \in Conversations : StepsAt(c)
  BY <1>1 DEF StepsInStep
<1>6. /\ calls \in Seq(CallType) /\ session \in SessionType /\ created \subseteq Conversations
      /\ \A c \in Conversations : rows[c] \in Seq(Rows) /\ told[c] \in StepStates
  BY <1>1 DEF TypeOK, CallType, SessionType
<1> QED
  BY <1>2, <1>3, <1>4, <1>5, <1>6

LEMMA AnsweredIs ==
  ASSUME ViewAssumption, IInv, NEW kind, Answered(kind)
  PROVE  /\ calls \in Seq(CallType) /\ calls # << >>
         /\ Head(calls) \in CallType /\ IsA(Head(calls), kind, Subject)
         /\ Rest \in Seq(CallType) /\ Once(Rest) /\ Has(calls, kind, Subject)
         /\ \A k, c : Has(Rest, k, c) => Has(calls, k, c)
         /\ kind \in Kinds \ {"list", "create"} => Subject \in created /\ Subject \in Conversations
         /\ \A d : d # Subject => Same(Rest, calls, d)
         /\ kind \in {"list", "create", "rename"} => \A d : Same(Rest, calls, d)
         /\ kind \notin Work => \A d : SameWork(Rest, calls, d)
         /\ kind # "create" /\ Creating(calls) => Creating(Rest)
<1>1. /\ calls \in Seq(CallType) /\ calls # << >> /\ Once(calls) /\ OnlyOfCreated
      /\ Head(calls).kind = kind /\ created \subseteq Conversations
  BY Invariants DEF Answered
<1>2. /\ Head(calls) \in CallType /\ IsA(Head(calls), kind, Subject)
      /\ Rest \in Seq(CallType) /\ Once(Rest) /\ Has(calls, kind, Subject)
      /\ \A k, c : Has(Rest, k, c) => Has(calls, k, c)
  <2>1. IsA(Head(calls), kind, Subject)
    BY <1>1 DEF IsA, Subject
  <2> QED
    BY <1>1, <2>1, Answers DEF Rest
<1>3. Subject \in Conversations \cup {NoConversation}
  BY <1>2 DEF CallType, Subject
<1>4. kind \in Kinds \ {"list", "create"} => Subject \in created
  BY <1>1, <1>2, <1>3 DEF OnlyOfCreated
<1>5. /\ \A d : d # Subject => Same(Rest, calls, d)
      /\ kind \in {"list", "create", "rename"} => \A d : Same(Rest, calls, d)
      /\ kind \notin Work => \A d : SameWork(Rest, calls, d)
      /\ kind # "create" /\ Creating(calls) => Creating(Rest)
  BY <1>1, AnswersSame DEF Rest, Subject
<1> QED
  BY <1>1, <1>2, <1>4, <1>5

LEMMA Assembled ==
  ASSUME TypeOK', CallsInStep', StoreInStep', StepsInStep', SessionPart'
  PROVE  IInv'
BY DEF IInv, SessionPart

(* The calls grow or shrink, and nothing of the session changes. *)
LEMMA CallsOnly ==
  ASSUME ViewAssumption, IInv, UNCHANGED <<rows, created, turn, told, removing, session>>,
         failed \subseteq failed', failed' \subseteq Kinds, calls' \in Seq(CallType), Once(calls'),
         turns' \in 0..MaxTurns, edits' \in 0..MaxEdits,
         \A d : Same(calls', calls, d), OnlyOfCreated',
         session.followed = NoConversation /\ Creating(calls) => Creating(calls')
  PROVE  IInv'
<1>1. TypeOK'
  <2>1. TypeOK
    BY DEF IInv
  <2> QED
    BY <2>1 DEF TypeOK, CallType
<1>2. \A d \in Conversations : SameWork(calls', calls, d) /\ Kept(d)
  BY DEF Same, Kept
<1>3. CallsInStep' /\ StoreInStep' /\ StepsInStep'
  BY <1>1, <1>2, WorkKept
<1>4. SessionPart'
  <2>1. session.followed # NoConversation => session.followed \in Conversations
    BY Invariants DEF SessionType
  <2> QED
    BY <1>2, <2>1, SessionKept
<1> QED
  BY <1>1, <1>3, <1>4, Assembled

LEMMA Bounds == ASSUME IInv PROVE turns \in 0..MaxTurns /\ edits \in 0..MaxEdits /\ failed \subseteq Kinds
BY DEF IInv, TypeOK

LEMMA ListArrivesKeeps ==
  ASSUME ViewAssumption, IInv, ListArrives
  PROVE  IInv'
<1>1. /\ Answered("list") /\ calls' = Rest /\ failed' = failed /\ turns' = turns /\ edits' = edits
      /\ UNCHANGED <<rows, created, turn, told, removing, session>>
  BY DEF ListArrives, storeVars, runnerVars, counters
<1>2. /\ Rest \in Seq(CallType) /\ Once(Rest) /\ (\A k, c : Has(Rest, k, c) => Has(calls, k, c))
      /\ (\A d : Same(Rest, calls, d)) /\ (Creating(calls) => Creating(Rest))
  BY <1>1, AnsweredIs
<1>3. OnlyOfCreated'
  BY <1>1, <1>2, Invariants DEF OnlyOfCreated
<1> QED
  BY <1>1, <1>2, <1>3, Bounds, CallsOnly

LEMMA RenameKeeps ==
  ASSUME ViewAssumption, IInv, NEW c \in Conversations, RenameConversation(c)
  PROVE  IInv'
<1> DEFINE k == Call("rename", c)
<1>1. /\ c \in created /\ calls' = Append(calls, k) /\ failed' = failed /\ turns' = turns
      /\ edits < MaxEdits /\ edits' = edits + 1
      /\ UNCHANGED <<rows, created, turn, told, removing, session>>
  BY DEF RenameConversation, MayEdit, storeVars, runnerVars
<1>2. /\ k \in CallType /\ k.kind = "rename"
      /\ \A other, d : IsA(k, other, d) <=> other = "rename" /\ d = c
  <2>1. "rename" \in Kinds
    BY KindsAre
  <2> QED
    BY <2>1, CallTypes
<1>3. calls \in Seq(CallType) /\ Once(calls) /\ OnlyOfCreated
  BY Invariants
<1> HIDE DEF k
<1>4. /\ calls' = calls \o <<k>> /\ calls' \in Seq(CallType)
      /\ \A kind, d : Has(calls', kind, d) <=> Has(calls, kind, d) \/ IsA(k, kind, d)
  <2>1. /\ calls \o <<k>> \in Seq(CallType) /\ Append(calls, k) = calls \o <<k>>
        /\ \A kind, d : Has(calls \o <<k>>, kind, d) <=> Has(calls, kind, d) \/ IsA(k, kind, d)
    BY <1>2, <1>3, Gives
  <2> QED
    BY <1>1, <2>1
<1>5. /\ \A d : Same(calls', calls, d)
      /\ Creating(calls) => Creating(calls')
      /\ Once(calls')
  BY <1>2, <1>3, <1>4, WorkKinds, GivesSame
<1>6. OnlyOfCreated'
  BY <1>1, <1>2, <1>3, <1>4 DEF OnlyOfCreated
<1>7. edits' \in 0..MaxEdits
  BY <1>1, Bounds DEF ViewAssumption
<1> QED
  BY <1>1, <1>4, <1>5, <1>6, <1>7, Bounds, CallsOnly

(* The list is asked for. *)
LEMMA Lists ==
  ASSUME NEW s \in Seq(CallType)
  PROVE  /\ s \o ListCall \in Seq(CallType)
         /\ \A kind, d : Has(s \o ListCall, kind, d) /\ kind # "list" => Has(s, kind, d)
         /\ \A d : Same(s \o ListCall, s, d)
         /\ Creating(s) => Creating(s \o ListCall)
         /\ Once(s) => Once(s \o ListCall)
<1> DEFINE k == Call("list", NoConversation)
<1>1. /\ k \in CallType /\ k.kind = "list"
      /\ \A other, d : IsA(k, other, d) <=> other = "list" /\ d = NoConversation
  <2>1. "list" \in Kinds /\ NoConversation \in Conversations \cup {NoConversation}
    BY KindsAre
  <2> QED
    BY <2>1, CallTypes
<1>2. ListCall = <<k>>
  BY DEF ListCall
<1> HIDE DEF k
<1>3. \A kind, d : Has(s \o <<k>>, kind, d) <=> Has(s, kind, d) \/ IsA(k, kind, d)
  BY <1>1, Gives
<1>4. s \o <<k>> \in Seq(CallType)
  BY <1>1, Gives
<1> QED
  BY <1>1, <1>2, <1>3, <1>4, WorkKinds, GivesSame

LEMMA FailsIs ==
  ASSUME IInv, NEW kind \in Kinds, Fails(kind) \/ Succeeds
  PROVE  failed \subseteq failed' /\ failed' \subseteq Kinds
BY Bounds DEF Fails, Succeeds

LEMMA RenamedKeeps ==
  ASSUME ViewAssumption, IInv, Renamed
  PROVE  IInv'
<1>1. /\ Answered("rename") /\ turns' = turns /\ edits' = edits
      /\ UNCHANGED <<rows, created, turn, told, removing, session>>
      /\ Fails("rename") \/ Succeeds
      /\ calls' = Rest \/ calls' = Rest \o ListCall
  BY DEF Renamed, runnerVars, counters
<1>2. /\ Rest \in Seq(CallType) /\ Once(Rest) /\ (\A k, c : Has(Rest, k, c) => Has(calls, k, c))
      /\ (\A d : Same(Rest, calls, d)) /\ (Creating(calls) => Creating(Rest))
  BY <1>1, AnsweredIs
<1>3. failed \subseteq failed' /\ failed' \subseteq Kinds
  BY <1>1, KindsAre, FailsIs
<1>4. /\ calls' \in Seq(CallType) /\ Once(calls')
      /\ \A kind, d : Has(calls', kind, d) /\ kind # "list" => Has(calls, kind, d)
      /\ \A d : Same(calls', calls, d)
      /\ Creating(calls) => Creating(calls')
  <2>1. CASE calls' = Rest
    BY <1>2, <2>1
  <2>2. CASE calls' = Rest \o ListCall
    <3>1. /\ Rest \o ListCall \in Seq(CallType) /\ Once(Rest \o ListCall)
          /\ \A kind, d : Has(Rest \o ListCall, kind, d) /\ kind # "list" => Has(Rest, kind, d)
          /\ \A d : Same(Rest \o ListCall, Rest, d)
          /\ Creating(Rest) => Creating(Rest \o ListCall)
      BY <1>2, Lists
    <3> QED
      BY <1>2, <2>2, <3>1, SameThen
  <2> QED
    BY <1>1, <2>1, <2>2
<1>5. OnlyOfCreated'
  BY <1>1, <1>4, Invariants DEF OnlyOfCreated
<1> QED
  BY <1>1, <1>3, <1>4, <1>5, Bounds, CallsOnly

(* A session that is set to a conversation, or to a chat, and loads it. *)
LEMMA Loading ==
  ASSUME ViewAssumption, IInv, NEW x \in SessionType, NEW y,
         UNCHANGED <<rows, created, failed, turn, told, removing>>,
         turns' \in 0..MaxTurns, edits' \in 0..MaxEdits,
         ~x.busy, x.live = NoStep,
         x.followed = NoConversation => x.shown = << >> /\ ~x.activity,
         \A i \in DOMAIN x.shown : x.shown[i].conversation = x.followed,
         y = Loaded(x), session' = y, calls' = calls \o Reload(y)
  PROVE  IInv'
<1>1. /\ calls \in Seq(CallType) /\ Once(calls) /\ OnlyOfCreated /\ created \subseteq Conversations
  BY Invariants
<1>2. /\ x.attached \in BOOLEAN /\ x.followed \in created \cup {NoConversation}
      /\ x.busy \in BOOLEAN /\ x.activity \in BOOLEAN /\ x.shown \in Seq(Rows)
      /\ x.followed \in Conversations \cup {NoConversation}
  BY <1>1 DEF SessionType
<1>3. /\ y \in SessionType
      /\ y.attached = x.attached /\ y.followed = x.followed /\ y.live = NoStep
      /\ y.activity = x.activity /\ y.shown = x.shown
      /\ Loads(x) => y.busy = IsBusy(x.followed)
      /\ ~Loads(x) => y.busy = FALSE
  <2>1. CASE Loads(x)
    <3>1. y = [x EXCEPT !.busy = IsBusy(x.followed)] /\ IsBusy(x.followed) \in BOOLEAN
      BY <2>1 DEF Loaded, Loads, IsBusy
    <3> QED
      BY <2>1, <3>1 DEF SessionType
  <2>2. CASE ~Loads(x)
    <3>1. y = x
      BY <2>2 DEF Loaded, Loads
    <3> QED
      BY <1>2, <2>2, <3>1
  <2> QED
    BY <2>1, <2>2
<1>4. /\ calls' \in Seq(CallType)
      /\ \A kind, d : Has(calls', kind, d)
           <=> Has(calls, kind, d) \/ (Loads(y) /\ kind = "messages" /\ d = y.followed)
      /\ \A d : SameWork(calls', calls, d)
      /\ Loads(y) => Rereads(calls', y.followed)
      /\ Once(calls')
  BY <1>1, <1>2, <1>3, Reloading
<1>5. TypeOK'
  <2>1. TypeOK
    BY DEF IInv
  <2> QED
    BY <1>3, <1>4, <2>1 DEF TypeOK, CallType, SessionType
<1>6. OnlyOfCreated'
  BY <1>1, <1>2, <1>3, <1>4 DEF OnlyOfCreated, Loads
<1>7. CallsInStep' /\ StoreInStep' /\ StepsInStep'
  BY <1>4, <1>5, <1>6, WorkKept
<1> PICK c : c = x.followed
  OBVIOUS
<1>8. SessionInStep'
  <2>1. Loads(y) => SessionAt(c)'
    <3> SUFFICES ASSUME Loads(y) PROVE SessionAt(c)'
      OBVIOUS
    <3>1. Has(calls', "messages", c) /\ Rereads(calls', c)
      BY <1>3, <1>4
    <3>2. session'.busy = IsBusy(c)
      BY <1>3 DEF Loads
    <3> QED
      BY <3>1, <3>2 DEF SessionAt, IsBusy
  <2> QED
    BY <1>3, <2>1 DEF SessionInStep, Loads
<1>9. ShowsOnlyTheFollowed'
  BY <1>3 DEF ShowsOnlyTheFollowed
<1>10. NeverStuckBusy'
  <2>1. session'.busy => c # NoConversation /\ IsBusy(c)
    BY <1>3 DEF Loads
  <2>2. IsBusy(c) <=> IsBusy(c)'
    BY DEF IsBusy
  <2> QED
    BY <1>3, <2>1, <2>2 DEF NeverStuckBusy
<1> QED
  BY <1>5, <1>7, <1>8, <1>9, <1>10, Assembled DEF SessionPart

LEMMA SetConversationKeeps ==
  ASSUME ViewAssumption, IInv, NEW c \in created \cup {NoConversation}, SetConversation(c)
  PROVE  IInv'
<1> DEFINE x == ResetTo(session, c)
<1> PICK y : y = session'
  OBVIOUS
<1>1. /\ edits < MaxEdits /\ edits' = edits + 1 /\ turns' = turns
      /\ y = Loaded(x) /\ calls' = calls \o Reload(y)
      /\ UNCHANGED <<rows, created, failed, turn, told, removing>>
  BY DEF SetConversation, MayEdit, storeVars, runnerVars
<1>2. session \in SessionType
  BY Invariants
<1>3. /\ x \in SessionType /\ ~x.busy /\ x.live = NoStep
      /\ x.shown = << >> /\ ~x.activity
  <2>1. << >> \in Seq(Rows)
    OBVIOUS
  <2>2. x = [session EXCEPT !.followed = c, !.live = NoStep, !.shown = << >>, !.busy = FALSE,
                            !.activity = FALSE]
    BY DEF ResetTo
  <2> HIDE DEF x
  <2> QED
    BY <1>2, <2>1, <2>2, KindsAre DEF SessionType
<1>4. edits' \in 0..MaxEdits
  BY <1>1, Bounds DEF ViewAssumption
<1> HIDE DEF x
<1>5. \A i \in DOMAIN x.shown : x.shown[i].conversation = x.followed
  BY <1>3
<1> QED
  BY <1>1, <1>3, <1>4, <1>5, Bounds, Loading

LEMMA AttachKeeps ==
  ASSUME ViewAssumption, IInv, Attach
  PROVE  IInv'
<1> DEFINE x == [session EXCEPT !.attached = TRUE]
<1> PICK y : y = session'
  OBVIOUS
<1>1. /\ edits' = edits /\ turns' = turns /\ ~session.attached
      /\ y = Loaded(x) /\ calls' = calls \o Reload(y)
      /\ UNCHANGED <<rows, created, failed, turn, told, removing>>
  BY DEF Attach, storeVars, runnerVars, counters
<1>2. session \in SessionType /\ SessionInStep /\ ShowsOnlyTheFollowed
  BY Invariants
<1>3. /\ x \in SessionType /\ x.busy = session.busy /\ x.live = session.live
      /\ x.followed = session.followed
      /\ x.shown = session.shown /\ x.activity = session.activity
  BY <1>2 DEF SessionType
<1>4. /\ ~x.busy /\ x.live = NoStep
      /\ x.followed = NoConversation => x.shown = << >> /\ ~x.activity
      /\ \A i \in DOMAIN x.shown : x.shown[i].conversation = x.followed
  BY <1>1, <1>2, <1>3 DEF SessionInStep, ShowsOnlyTheFollowed
<1> HIDE DEF x
<1> QED
  BY <1>1, <1>3, <1>4, Bounds, Loading

(* A session that is set aside or made busy: no conversation is concerned. *)
LEMMA SessionOnly ==
  ASSUME ViewAssumption, IInv, session' \in SessionType, SessionPart',
         UNCHANGED <<rows, created, turn, told, removing>>,
         failed \subseteq failed', failed' \subseteq Kinds, calls' \in Seq(CallType), Once(calls'),
         turns' \in 0..MaxTurns, edits' \in 0..MaxEdits,
         \A d : SameWork(calls', calls, d), OnlyOfCreated'
  PROVE  IInv'
<1>1. TypeOK'
  <2>1. TypeOK
    BY DEF IInv
  <2> QED
    BY <2>1 DEF TypeOK, CallType, SessionType
<1>2. CallsInStep' /\ StoreInStep' /\ StepsInStep'
  BY <1>1, WorkKept
<1> QED
  BY <1>1, <1>2, Assembled

LEMMA DetachKeeps ==
  ASSUME ViewAssumption, IInv, Detach
  PROVE  IInv'
<1>1. /\ edits < MaxEdits /\ edits' = edits + 1 /\ turns' = turns
      /\ session' = [Cleared(session) EXCEPT !.attached = FALSE, !.busy = FALSE, !.activity = FALSE]
      /\ UNCHANGED <<rows, created, failed, turn, told, removing, calls>>
  BY DEF Detach, MayEdit, storeVars, runnerVars
<1>2. /\ session \in SessionType /\ SessionInStep /\ ShowsOnlyTheFollowed
      /\ calls \in Seq(CallType) /\ Once(calls) /\ OnlyOfCreated
  BY Invariants
<1>3. /\ session' \in SessionType /\ ~session'.busy /\ session'.live = NoStep
      /\ ~session'.attached /\ ~session'.activity /\ session'.followed = session.followed
      /\ session'.shown = session.shown
  BY <1>1, <1>2, KindsAre DEF SessionType, Cleared
<1>4. SessionPart'
  BY <1>2, <1>3 DEF SessionPart, SessionInStep, ShowsOnlyTheFollowed, NeverStuckBusy
<1>5. edits' \in 0..MaxEdits
  BY <1>1, Bounds DEF ViewAssumption
<1>6. OnlyOfCreated'
  BY <1>1, <1>2 DEF OnlyOfCreated
<1> QED
  BY <1>1, <1>2, <1>3, <1>4, <1>5, <1>6, Bounds, SameThen, SessionOnly

LEMMA SendNewKeeps ==
  ASSUME ViewAssumption, IInv, SendNew
  PROVE  IInv'
<1> DEFINE k == Call("create", NoConversation)
<1>1. /\ turns < MaxTurns /\ turns' = turns + 1 /\ edits' = edits
      /\ session.attached /\ session.followed = NoConversation
      /\ session' = [Cleared(session) EXCEPT !.busy = TRUE]
      /\ calls' = Append(calls, k)
      /\ UNCHANGED <<rows, created, failed, turn, told, removing>>
  BY DEF SendNew, MaySend, storeVars, runnerVars
<1>2. /\ session \in SessionType /\ SessionInStep /\ ShowsOnlyTheFollowed
      /\ calls \in Seq(CallType) /\ Once(calls) /\ OnlyOfCreated
  BY Invariants
<1>3. /\ session' \in SessionType /\ session'.busy /\ session'.live = NoStep
      /\ session'.attached /\ session'.activity = session.activity
      /\ session'.followed = NoConversation /\ session'.shown = session.shown
  BY <1>1, <1>2, KindsAre DEF SessionType, Cleared
<1>4. k \in CallType /\ k.kind = "create"
  <2>1. "create" \in Kinds /\ NoConversation \in Conversations \cup {NoConversation}
    BY KindsAre
  <2> QED
    BY <2>1, CallTypes
<1> HIDE DEF k
<1>5. /\ calls' = calls \o <<k>> /\ calls' \in Seq(CallType)
      /\ \A kind, d : Has(calls', kind, d) <=> Has(calls, kind, d) \/ IsA(k, kind, d)
  <2>1. /\ calls \o <<k>> \in Seq(CallType) /\ Append(calls, k) = calls \o <<k>>
        /\ \A kind, d : Has(calls \o <<k>>, kind, d) <=> Has(calls, kind, d) \/ IsA(k, kind, d)
    BY <1>2, <1>4, Gives
  <2> QED
    BY <1>1, <2>1
<1>6. Once(calls') /\ \A d : SameWork(calls', calls, d)
  BY <1>2, <1>4, <1>5, WorkKinds, GivesSame
<1>7. OnlyOfCreated'
  BY <1>1, <1>2, <1>4, <1>5 DEF OnlyOfCreated, IsA
<1>8. Creating(calls')
  <2>1. calls'[Len(calls) + 1] = k /\ Len(calls) + 1 \in DOMAIN calls'
    BY <1>2, <1>4, <1>5
  <2> QED
    BY <1>4, <2>1 DEF Creating
<1>9. SessionPart'
  BY <1>1, <1>2, <1>3, <1>8
  DEF SessionPart, SessionInStep, ShowsOnlyTheFollowed, NeverStuckBusy, Creating
<1>10. turns' \in 0..MaxTurns
  BY <1>1, Bounds DEF ViewAssumption
<1> QED
  BY <1>1, <1>3, <1>5, <1>6, <1>7, <1>9, <1>10, Bounds, SessionOnly

LEMMA CreationFailedKeeps ==
  ASSUME ViewAssumption, IInv, CreationFailed
  PROVE  IInv'
<1>1. /\ Answered("create") /\ Fails("create") /\ calls' = Rest /\ turns' = turns /\ edits' = edits
      /\ session' = IdleAgain(session)
      /\ UNCHANGED <<rows, created, turn, told, removing>>
  BY DEF CreationFailed, runnerVars, counters
<1>2. /\ session \in SessionType /\ SessionInStep /\ ShowsOnlyTheFollowed
      /\ calls \in Seq(CallType) /\ Once(calls) /\ OnlyOfCreated
  BY Invariants
<1>3. /\ Rest \in Seq(CallType) /\ Once(Rest) /\ (\A k, c : Has(Rest, k, c) => Has(calls, k, c))
      /\ \A d : Same(Rest, calls, d)
  BY <1>1, AnsweredIs
<1>4. failed \subseteq failed' /\ failed' \subseteq Kinds
  BY <1>1, KindsAre, FailsIs
<1>5. OnlyOfCreated'
  BY <1>1, <1>2, <1>3 DEF OnlyOfCreated
<1>6. CASE session.followed = NoConversation
  <2>1. /\ session' \in SessionType /\ ~session'.busy /\ session'.live = session.live
        /\ session'.activity = session.activity /\ session'.attached = session.attached
        /\ session'.followed = NoConversation /\ session'.shown = session.shown
    BY <1>1, <1>2, <1>6 DEF SessionType, IdleAgain
  <2>2. session.live = NoStep
    BY <1>2, <1>6 DEF ShowsOnlyTheFollowed, ViewAssumption
  <2>3. SessionPart'
    BY <1>2, <1>6, <2>1, <2>2 DEF SessionPart, SessionInStep, ShowsOnlyTheFollowed, NeverStuckBusy
  <2>4. \A d : SameWork(calls', calls, d)
    BY <1>1, <1>3 DEF Same
  <2> QED
    BY <1>1, <1>3, <1>4, <1>5, <2>1, <2>3, <2>4, Bounds, SessionOnly
<1>7. CASE session.followed # NoConversation
  <2>1. session' = session
    BY <1>1, <1>2, <1>7 DEF SessionType, IdleAgain
  <2> QED
    BY <1>1, <1>3, <1>4, <1>5, <1>7, <2>1, Bounds, CallsOnly
<1> QED
  BY <1>6, <1>7

LEMMA SendRefusedKeeps ==
  ASSUME ViewAssumption, IInv, SendRefused
  PROVE  IInv'
<1> PICK c : c = session.followed
  OBVIOUS
<1>1. /\ turns < MaxTurns /\ turns' = turns + 1 /\ edits' = edits
      /\ session.attached /\ ~session.busy /\ c # NoConversation /\ IsBusy(c)
      /\ session' = [Cleared(session) EXCEPT !.busy = TRUE]
      /\ UNCHANGED <<rows, created, failed, turn, told, removing, calls>>
  BY DEF SendRefused, MaySend, storeVars, runnerVars
<1>2. /\ session \in SessionType /\ SessionInStep /\ ShowsOnlyTheFollowed
      /\ calls \in Seq(CallType) /\ Once(calls) /\ OnlyOfCreated
  BY Invariants
<1>3. /\ session' \in SessionType /\ session'.busy /\ session'.live = NoStep
      /\ session'.attached /\ session'.activity = session.activity
      /\ session'.followed = c /\ session'.shown = session.shown
  BY <1>1, <1>2, KindsAre DEF SessionType, Cleared
<1>4. SessionAt(c) /\ turn[c] \notin {"running", "finishing"}
  BY <1>1, <1>2 DEF SessionInStep, SessionAt
<1>5. SessionAt(c)'
  <2>1. BothFailed => BothFailed'
    BY <1>1 DEF BothFailed
  <2> QED
    BY <1>1, <1>3, <1>4, <2>1 DEF SessionAt
<1>6. IsBusy(c)'
  BY <1>1 DEF IsBusy
<1>7. SessionPart'
  BY <1>1, <1>2, <1>3, <1>5, <1>6
  DEF SessionPart, SessionInStep, ShowsOnlyTheFollowed, NeverStuckBusy
<1>8. turns' \in 0..MaxTurns
  BY <1>1, Bounds DEF ViewAssumption
<1>9. OnlyOfCreated'
  BY <1>1, <1>2 DEF OnlyOfCreated
<1> QED
  BY <1>1, <1>2, <1>3, <1>7, <1>8, <1>9, Bounds, SameThen, SessionOnly

(* The rows that are read and the step that has been told meanwhile. *)
LEMMA LiveRows ==
  ASSUME ViewAssumption, IInv, NEW c \in Conversations, session.followed = c,
         NEW now, now = WithLive(session, rows[c])
  PROVE  /\ now \in Seq(Rows)
         /\ \A i \in DOMAIN now : now[i].conversation = c
         /\ turn[c] = "none" => now = rows[c] /\ (BothFailed \/ ~Activity(now))
         /\ turn[c] = "running" => LastRunning(now)
         /\ turn[c] = "running" /\ session.live # NoStep => now[Len(now)].step = told[c]
         /\ session.live = NoStep => now = rows[c]
<1>1. /\ session \in SessionType /\ ShowsOnlyTheFollowed /\ StoreAt(c) /\ rows[c] \in Seq(Rows)
  BY Invariants
<1>2. /\ session.live \in StepStates
      /\ session.live # NoStep => turn[c] \in {"running", "finishing"} /\ session.live = told[c]
  BY <1>1 DEF SessionType, ShowsOnlyTheFollowed
<1>3. \A i \in DOMAIN rows[c] : rows[c][i].conversation = c
  BY <1>1 DEF StoreAt
<1>4. CASE session.live = NoStep
  <2>1. now = rows[c]
    BY <1>4 DEF WithLive
  <2>2. turn[c] = "none" => BothFailed \/ ~Activity(rows[c])
    <3>1. turn[c] = "none" => BothFailed \/ \A i \in DOMAIN rows[c] :
            rows[c][i].status = "Running" => rows[c][i].step # "Running"
      BY <1>1 DEF StoreAt
    <3> QED
      BY <1>1, <3>1, Idle
  <2>3. turn[c] = "running" => LastRunning(rows[c])
    BY <1>1 DEF StoreAt
  <2> QED
    BY <1>1, <1>3, <1>4, <2>1, <2>2, <2>3
<1>5. CASE session.live # NoStep
  <2>1. now = PutStep(rows[c], session.live)
    BY <1>5 DEF WithLive
  <2>2. LastRunning(rows[c])
    BY <1>1, <1>2, <1>5 DEF StoreAt
  <2>3. /\ now \in Seq(Rows) /\ DOMAIN now = DOMAIN rows[c]
        /\ \A i \in DOMAIN rows[c] : now[i].conversation = rows[c][i].conversation
        /\ LastRunning(now) /\ now[Len(now)].step = session.live
    BY <1>1, <1>2, <2>1, <2>2, Puts
  <2> QED
    BY <1>2, <1>3, <1>5, <2>3
<1> QED
  BY <1>4, <1>5

LEMMA MessagesArriveKeeps ==
  ASSUME ViewAssumption, IInv, MessagesArrive
  PROVE  IInv'
<1> PICK c : c = Subject
  OBVIOUS
<1>1. /\ Answered("messages") /\ calls' = Rest
      /\ session' = OnMessages(session, c, rows[c])
      /\ UNCHANGED <<rows, created, failed, turn, told, removing, turns, edits>>
  BY DEF MessagesArrive, storeVars, runnerVars, counters
<1>2. /\ session \in SessionType /\ SessionInStep /\ ShowsOnlyTheFollowed /\ NeverStuckBusy
      /\ calls \in Seq(CallType) /\ Once(calls) /\ OnlyOfCreated /\ calls # << >>
      /\ created \subseteq Conversations
  BY <1>1, Invariants, AnsweredIs
<1>3. /\ Rest \in Seq(CallType) /\ Once(Rest) /\ (\A k, d : Has(Rest, k, d) => Has(calls, k, d))
      /\ (\A d : d # c => Same(Rest, calls, d)) /\ (\A d : SameWork(Rest, calls, d))
      /\ (Creating(calls) => Creating(Rest))
      /\ IsA(Head(calls), "messages", c) /\ c \in created /\ c \in Conversations
  BY <1>1, <1>2, WorkKinds, AnsweredIs
<1>4. OnlyOfCreated'
  BY <1>1, <1>2, <1>3 DEF OnlyOfCreated
<1>5. CASE c # session.followed
  <2>1. session' = session
    BY <1>1, <1>5 DEF OnMessages, IsCurrent
  <2>2. SessionPart'
    <3>1. session.followed # NoConversation => Kept(session.followed)
      BY <1>1, <1>3, <1>5 DEF Kept
    <3> QED
      BY <1>1, <1>3, <2>1, <3>1, SessionKept
  <2> QED
    BY <1>1, <1>2, <1>3, <1>4, <2>1, <2>2, Bounds, SessionOnly
<1>6. CASE c = session.followed
  <2> PICK now : now = WithLive(session, rows[c])
    OBVIOUS
  <2>1. session' = [session EXCEPT !.shown = now, !.activity = Activity(now),
                                   !.busy = session.attached /\ IsBusy(c)]
    BY <1>1, <1>6 DEF OnMessages, IsCurrent
  <2>2. /\ now \in Seq(Rows)
        /\ \A i \in DOMAIN now : now[i].conversation = c
        /\ turn[c] = "none" => now = rows[c] /\ (BothFailed \/ ~Activity(now))
        /\ turn[c] = "running" => LastRunning(now)
        /\ turn[c] = "running" /\ session.live # NoStep => now[Len(now)].step = told[c]
        /\ session.live = NoStep => now = rows[c]
    BY <1>3, <1>6, LiveRows
  <2>3. Activity(now) \in BOOLEAN /\ (session.attached /\ IsBusy(c)) \in BOOLEAN
    BY <1>2 DEF Activity, IsBusy, SessionType
  <2>4. /\ session' \in SessionType
        /\ session'.busy = (session.attached /\ IsBusy(c)) /\ session'.live = session.live
        /\ session'.attached = session.attached /\ session'.activity = Activity(now)
        /\ session'.followed = c /\ session'.shown = now
    BY <1>1, <1>2, <1>6, <2>1, <2>2, <2>3 DEF SessionType
  <2>5. c # NoConversation
    BY <1>3 DEF ViewAssumption
  <2>6. session.attached => SessionAt(c)'
    <3> SUFFICES ASSUME session.attached PROVE SessionAt(c)'
      OBVIOUS
    <3>1. SessionAt(c) /\ StepsInStep
      BY <1>2, <1>6, <2>5 DEF SessionInStep, IInv
    <3>2. turn[c] \in {"running", "finishing"} => session'.busy
      BY <2>4 DEF IsBusy
    <3>3. turn[c] = "running" /\ session.live = NoStep => Rereads(calls, c)
      BY <3>1 DEF SessionAt
    <3>4. turn[c] = "running" /\ session.live = NoStep => Rereads(Rest, c)
      BY <1>2, <3>3, Answers DEF Rest
    <3>5. turn[c] = "running" /\ "saveStep" \notin failed /\ ~Has(Rest, "messages", c) =>
            now[Len(now)].step = told[c]
      <4> SUFFICES ASSUME turn[c] = "running", "saveStep" \notin failed, session.live = NoStep,
                          ~Has(Rest, "messages", c)
                   PROVE  now[Len(now)].step = told[c]
        BY <2>2
      <4>1. ~Has(Rest, "saveStep", c)
        BY <1>2, <3>3, Answers DEF Rest
      <4>2. ~Has(calls, "saveStep", c)
        <5>1. \A kind \in Work : Has(Rest, kind, c) <=> Has(calls, kind, c)
          BY <1>3 DEF SameWork
        <5> QED
          BY <4>1, <5>1, WorkKinds
      <4>3. LastRow(c).step = told[c]
        BY <1>3, <3>1, <4>2 DEF StepsInStep, StepsAt
      <4> QED
        BY <2>2, <4>3 DEF LastRow
    <3>6. turn[c] = "running" => Activity(now) = (now[Len(now)].step = "Running")
      BY <2>2, LastRunningRow
    <3>7. BothFailed => BothFailed'
      BY <1>1 DEF BothFailed
    <3> QED
      BY <1>1, <2>2, <2>4, <3>2, <3>4, <3>5, <3>6, <3>7 DEF SessionAt
  <2>7. SessionInStep'
    BY <1>2, <2>4, <2>5, <2>6 DEF SessionInStep
  <2>8. ShowsOnlyTheFollowed'
    BY <1>1, <1>2, <1>6, <2>2, <2>4 DEF ShowsOnlyTheFollowed
  <2>9. NeverStuckBusy'
    <3>1. IsBusy(c) <=> IsBusy(c)'
      BY <1>1 DEF IsBusy
    <3> QED
      BY <2>4, <2>5, <3>1 DEF NeverStuckBusy
  <2> QED
    BY <1>1, <1>3, <1>4, <2>4, <2>7, <2>8, <2>9, Bounds, SessionOnly DEF SessionPart
<1> QED
  BY <1>5, <1>6

-----------------------------------------------------------------------------
(* Steps that concern one conversation. *)

LEMMA SessionOf ==
  ASSUME NEW c, c # NoConversation, session'.attached, session'.followed = c, SessionAt(c)',
         \A i \in DOMAIN session'.shown : session'.shown[i].conversation = c,
         session'.live # NoStep => /\ c \in Conversations
                                   /\ turn'[c] \in {"running", "finishing"}
                                   /\ session'.live = told'[c],
         session'.busy => IsBusy(c)' \/ "remove" \in failed'
  PROVE  SessionPart'
<1>1. SessionInStep'
  BY DEF SessionInStep
<1>2. ShowsOnlyTheFollowed'
  BY DEF ShowsOnlyTheFollowed
<1>3. NeverStuckBusy'
  BY DEF NeverStuckBusy
<1> QED
  BY <1>1, <1>2, <1>3 DEF SessionPart

LEMMA Concerns ==
  ASSUME ViewAssumption, IInv, TypeOK', NEW c \in Conversations,
         \A d \in Conversations \ {c} : Kept(d),
         created \subseteq created', failed \subseteq failed', Once(calls'), OnlyOfCreated',
         CallsAt(c)', StoreAt(c)', "saveStep" \notin failed' => StepsAt(c)',
         Follows(c) => SessionPart', ~Follows(c) => session' = session,
         Creating(calls) => Creating(calls')
  PROVE  IInv'
<1>1. CallsInStep' /\ StoreInStep' /\ StepsInStep'
  BY WorkOf
<1>2. CASE ~Follows(c)
  <2>1. session.followed \in Conversations \cup {NoConversation}
    BY Invariants DEF SessionType
  <2>2. session.attached /\ session.followed # NoConversation => Kept(session.followed)
    BY <1>2, <2>1 DEF Follows
  <2>3. SessionPart'
    BY <1>2, <2>2, SessionKept
  <2> QED
    BY <1>1, <2>3, Assembled
<1>3. CASE Follows(c)
  BY <1>1, <1>3, Assembled
<1> QED
  BY <1>2, <1>3

(* Where the runner is with a conversation, no other calls of it remain. *)
LEMMA NoWork ==
  ASSUME ViewAssumption, IInv, NEW c \in Conversations
  PROVE  /\ turn[c] = "launching" => \A kind \in Work : ~Has(calls, kind, c)
         /\ turn[c] = "storing" =>
              \A kind \in Work \ {"append", "restart"} : ~Has(calls, kind, c)
         /\ turn[c] = "none" => \A kind \in Work \ {"remove"} : ~Has(calls, kind, c)
         /\ turn[c] = "running" => \A kind \in Work \ {"saveStep"} : ~Has(calls, kind, c)
         /\ turn[c] = "finishing" =>
              \A kind \in Work \ {"saveStep", "finish"} : ~Has(calls, kind, c)
<1>1. CallsAt(c)
  BY Invariants
<1> QED
  BY <1>1 DEF CallsAt, Work

LEMMA NothingSaved ==
  ASSUME NEW s, NEW c, ~Has(s, "saveStep", c)
  PROVE  \A step : Saves(s, c, step)
BY DEF Saves, Has

LEMMA RunnerTypes ==
  ASSUME IInv
  PROVE  /\ turn \in [Conversations -> {"none", "storing", "launching", "running", "finishing"}]
         /\ told \in [Conversations -> StepStates] /\ rows \in [Conversations -> Seq(Rows)]
         /\ removing \subseteq created /\ created \subseteq Conversations
BY DEF IInv, TypeOK

LEMMA BeginKeeps ==
  ASSUME ViewAssumption, IInv, NEW c \in Conversations, Begin(c)
  PROVE  IInv'
<1>1. /\ turn[c] = "launching" /\ turn' = [turn EXCEPT ![c] = "running"]
      /\ told' = [told EXCEPT ![c] = NoStep]
      /\ session' = IF Follows(c) THEN OnTurnStarted(session) ELSE session
      /\ calls' = calls \o (ListCall \o Reloads(c))
      /\ UNCHANGED <<rows, created, failed, removing, turns, edits>>
  BY DEF Begin, TurnStarted, storeVars, counters
<1>2. /\ session \in SessionType /\ SessionInStep /\ ShowsOnlyTheFollowed
      /\ calls \in Seq(CallType) /\ Once(calls) /\ OnlyOfCreated
      /\ StoreAt(c) /\ CallsAt(c)
  BY Invariants
<1>3. /\ calls' \in Seq(CallType)
      /\ \A kind, d : kind # "list" =>
           (Has(calls', kind, d) <=> Has(calls, kind, d) \/ (Follows(c) /\ kind = "messages" /\ d = c))
      /\ \A d : d # c => Same(calls', calls, d)
      /\ Follows(c) => Rereads(calls', c)
      /\ Creating(calls) => Creating(calls')
      /\ Once(calls')
  BY <1>1, <1>2, Signals
<1>4. c \in created
  BY <1>1, <1>2 DEF StoreAt
<1>5. OnlyOfCreated'
  BY <1>1, <1>2, <1>3, <1>4 DEF OnlyOfCreated
<1>6. turn'[c] = "running" /\ told'[c] = NoStep /\ \A d \in Conversations \ {c} : Kept(d)
  BY <1>1, <1>3, RunnerTypes DEF Kept
<1>7. \A kind \in Work : ~Has(calls', kind, c)
  <2>1. \A kind \in Work : ~Has(calls, kind, c)
    BY <1>1, NoWork
  <2> QED
    BY <1>3, <2>1, WorkKinds
<1>8. CallsAt(c)'
  BY <1>1, <1>4, <1>5, <1>7, WorkKinds DEF CallsAt, OnlyOfCreated
<1>9. StoreAt(c)'
  <2>1. BothFailed <=> BothFailed'
    BY <1>1 DEF BothFailed
  <2> QED
    BY <1>1, <1>2, <1>6, <2>1 DEF StoreAt, LastRow
<1>10. StepsAt(c)'
  <2>1. LastRow(c)' = LastRow(c) /\ LastRow(c).step = NoStep
    BY <1>1, <1>2 DEF StoreAt, LastRow
  <2> QED
    BY <1>6, <1>7, <2>1, WorkKinds, NothingSaved DEF StepsAt
<1>11. Follows(c) => session' \in SessionType /\ SessionPart'
  <2> SUFFICES ASSUME Follows(c) PROVE session' \in SessionType /\ SessionPart'
    OBVIOUS
  <2>1. session' = [session EXCEPT !.live = NoStep, !.busy = TRUE]
    BY <1>1, <1>2 DEF OnTurnStarted, Cleared, SessionType
  <2>2. /\ session' \in SessionType /\ session'.busy /\ session'.live = NoStep
        /\ session'.attached /\ session'.followed = c /\ session'.shown = session.shown
    BY <1>2, <2>1, KindsAre DEF SessionType, Follows
  <2>3. SessionAt(c)'
    BY <1>3, <1>6, <2>2 DEF SessionAt
  <2>4. IsBusy(c)'
    BY <1>6 DEF IsBusy
  <2>5. \A i \in DOMAIN session'.shown : session'.shown[i].conversation = c
    BY <1>2, <2>2 DEF ShowsOnlyTheFollowed, Follows
  <2>6. c # NoConversation
    BY DEF ViewAssumption
  <2> QED
    BY <2>2, <2>3, <2>4, <2>5, <2>6, SessionOf
<1>12. TypeOK'
  <2>1. session' \in SessionType
    BY <1>1, <1>2, <1>11
  <2>2. /\ turn' \in [Conversations -> {"none", "storing", "launching", "running", "finishing"}]
        /\ told' \in [Conversations -> StepStates]
    BY <1>1, RunnerTypes, KindsAre
  <2>3. TypeOK
    BY DEF IInv
  <2> QED
    BY <1>1, <1>3, <2>1, <2>2, <2>3 DEF TypeOK, CallType, SessionType
<1> QED
  BY <1>1, <1>3, <1>5, <1>6, <1>8, <1>9, <1>10, <1>11, <1>12, Concerns

LEMMA StepToldKeeps ==
  ASSUME ViewAssumption, IInv, NEW c \in Conversations, NEW step \in {"Running", "Ok"},
         StepTold(c, step)
  PROVE  IInv'
<1> DEFINE k == [Call("saveStep", c) EXCEPT !.step = step]
<1>1. /\ turn[c] = "running" /\ told' = [told EXCEPT ![c] = step]
      /\ session' = IF Follows(c) THEN OnStep(session, step) ELSE session
      /\ calls' = Append(calls, k)
      /\ UNCHANGED <<rows, created, failed, turn, removing, turns, edits>>
  BY DEF StepTold, storeVars, counters
<1>2. /\ session \in SessionType /\ SessionInStep /\ ShowsOnlyTheFollowed
      /\ calls \in Seq(CallType) /\ Once(calls) /\ OnlyOfCreated
      /\ StoreAt(c) /\ CallsAt(c)
  BY Invariants
<1>3. /\ k \in CallType /\ k.kind = "saveStep" /\ k.conversation = c /\ k.step = step
      /\ step \in StepStates /\ step # NoStep
  BY KindsAre DEF Call, CallType
<1>4. /\ IsA(k, "saveStep", c)
      /\ \A kind, d : IsA(k, kind, d) <=> kind = "saveStep" /\ d = c
  BY <1>3 DEF IsA
<1> HIDE DEF k
<1>5. c \in created
  BY <1>1, <1>2 DEF StoreAt
<1>6. /\ calls' = calls \o <<k>> /\ calls' \in Seq(CallType)
      /\ \A kind, d : Has(calls', kind, d) <=> Has(calls, kind, d) \/ (kind = "saveStep" /\ d = c)
      /\ Saves(calls', c, step)
  <2>1. /\ calls \o <<k>> \in Seq(CallType) /\ Append(calls, k) = calls \o <<k>>
        /\ \A kind, d : Has(calls \o <<k>>, kind, d) <=> Has(calls, kind, d) \/ IsA(k, kind, d)
        /\ \A d : IsA(k, "saveStep", d) => Saves(calls \o <<k>>, d, k.step)
    BY <1>2, <1>3, Gives
  <2> QED
    BY <1>1, <1>3, <1>4, <2>1
<1>7. \A d : d # c => Same(calls', calls, d)
  BY <1>2, <1>3, <1>6, GivesSame
<1>8. Creating(calls) => Creating(calls')
  BY <1>2, <1>3, <1>6, GivesSame
<1>9. Once(calls')
  <2>1. ~Has(calls, "finish", c)
    BY <1>1, WorkKinds, NoWork
  <2> QED
    BY <1>2, <1>3, <1>6, <2>1, GivenOnce
<1>10. OnlyOfCreated'
  BY <1>1, <1>2, <1>5, <1>6 DEF OnlyOfCreated
<1>11. /\ turn'[c] = "running" /\ told'[c] = step /\ rows'[c] = rows[c]
       /\ \A d \in Conversations \ {c} : Kept(d)
  BY <1>1, <1>7, RunnerTypes DEF Kept
<1>12. CallsAt(c)'
  BY <1>1, <1>2, <1>6, <1>10, WorkKinds DEF CallsAt, OnlyOfCreated
<1>13. StoreAt(c)'
  <2>1. BothFailed <=> BothFailed'
    BY <1>1 DEF BothFailed
  <2> QED
    BY <1>1, <1>2, <1>11, <2>1 DEF StoreAt, LastRow
<1>14. StepsAt(c)'
  BY <1>6, <1>11 DEF StepsAt
<1>15. Follows(c) => session' \in SessionType /\ SessionPart'
  <2> SUFFICES ASSUME Follows(c) PROVE session' \in SessionType /\ SessionPart'
    OBVIOUS
  <2> PICK list : list = PutStep(session.shown, step)
    OBVIOUS
  <2>1. session' = [session EXCEPT !.live = step, !.shown = list, !.activity = Activity(list)]
    BY <1>1 DEF OnStep
  <2>2. /\ session.shown \in Seq(Rows) /\ session.attached /\ session.followed = c
        /\ c # NoConversation /\ SessionAt(c)
    BY <1>2 DEF SessionType, Follows, SessionInStep, ViewAssumption
  <2>3. /\ list \in Seq(Rows) /\ DOMAIN list = DOMAIN session.shown
        /\ \A i \in DOMAIN list : list[i].conversation = session.shown[i].conversation
        /\ LastRunning(session.shown) => LastRunning(list) /\ list[Len(list)].step = step
    BY <1>3, <2>2, Puts
  <2>4. Activity(list) \in BOOLEAN
    BY DEF Activity
  <2>5. /\ session' \in SessionType /\ session'.busy = session.busy /\ session'.live = step
        /\ session'.attached /\ session'.followed = c /\ session'.shown = list
        /\ session'.activity = Activity(list)
    BY <1>2, <1>3, <2>1, <2>2, <2>3, <2>4 DEF SessionType
  <2>6. SessionAt(c)'
    <3>1. LastRunning(list) => Activity(list) = (list[Len(list)].step = "Running")
      BY <2>3, LastRunningRow
    <3>2. ~Has(calls', "messages", c) => LastRunning(session.shown)
      BY <1>1, <1>6, <2>2 DEF SessionAt
    <3>3. session'.busy
      BY <1>1, <2>2, <2>5 DEF SessionAt
    <3> QED
      BY <1>3, <1>11, <2>3, <2>5, <3>1, <3>2, <3>3 DEF SessionAt
  <2>7. IsBusy(c)'
    BY <1>11 DEF IsBusy
  <2>8. \A i \in DOMAIN session'.shown : session'.shown[i].conversation = c
    BY <1>2, <2>2, <2>3, <2>5 DEF ShowsOnlyTheFollowed
  <2> QED
    BY <1>11, <2>2, <2>5, <2>6, <2>7, <2>8, SessionOf
<1>16. TypeOK'
  <2>1. session' \in SessionType
    BY <1>1, <1>2, <1>15
  <2>2. told' \in [Conversations -> StepStates]
    BY <1>1, <1>3, RunnerTypes
  <2>3. TypeOK
    BY DEF IInv
  <2> QED
    BY <1>1, <1>6, <2>1, <2>2, <2>3 DEF TypeOK, CallType, SessionType
<1> QED
  BY <1>1, <1>8, <1>9, <1>10, <1>11, <1>12, <1>13, <1>14, <1>15, <1>16, Concerns

(* A call that is work for c is given. *)
LEMMA GivesWork ==
  ASSUME ViewAssumption, IInv, NEW c \in Conversations, c \in created',
         NEW kind \in Work \ {"saveStep"}, calls' = Append(calls, Call(kind, c)),
         created \subseteq created',
         kind \in {"append", "restart"} => ~Has(calls, "append", c) /\ ~Has(calls, "restart", c),
         kind = "finish" => ~Has(calls, "finish", c),
         kind = "remove" => ~Has(calls, "remove", c)
  PROVE  /\ calls' \in Seq(CallType) /\ Once(calls') /\ OnlyOfCreated'
         /\ \A other, d : Has(calls', other, d) <=> Has(calls, other, d) \/ (other = kind /\ d = c)
         /\ \A d : d # c => Same(calls', calls, d)
         /\ \A d, step : Saves(calls, d, step) => Saves(calls', d, step)
         /\ \A d : Rereads(calls, d) => Rereads(calls', d)
         /\ Creating(calls) => Creating(calls')
<1> DEFINE k == Call(kind, c)
<1>1. /\ calls \in Seq(CallType) /\ Once(calls) /\ OnlyOfCreated
  BY Invariants
<1>2. /\ k \in CallType /\ k.kind = kind /\ k.conversation = c
      /\ \A other, d : IsA(k, other, d) <=> other = kind /\ d = c
  BY WorkKinds, CallTypes
<1>3. calls' = Append(calls, k)
  OBVIOUS
<1> HIDE DEF k
<1>4. /\ calls' = calls \o <<k>> /\ calls' \in Seq(CallType)
      /\ \A other, d : Has(calls', other, d) <=> Has(calls, other, d) \/ IsA(k, other, d)
      /\ \A d, step : Saves(calls, d, step) /\ ~IsA(k, "saveStep", d) => Saves(calls', d, step)
      /\ \A d : Rereads(calls, d) /\ ~IsA(k, "saveStep", d) => Rereads(calls', d)
  <2>1. /\ calls \o <<k>> \in Seq(CallType) /\ Append(calls, k) = calls \o <<k>>
        /\ \A other, d : Has(calls \o <<k>>, other, d) <=> Has(calls, other, d) \/ IsA(k, other, d)
        /\ \A d, step : Saves(calls, d, step) /\ ~IsA(k, "saveStep", d) => Saves(calls \o <<k>>, d, step)
        /\ \A d : Rereads(calls, d) /\ ~IsA(k, "saveStep", d) => Rereads(calls \o <<k>>, d)
    BY <1>1, <1>2, Gives
  <2> QED
    BY <1>3, <2>1
<1>5. \A d : d # c => Same(calls', calls, d)
  BY <1>1, <1>2, <1>4, GivesSame
<1>6. Creating(calls) => Creating(calls')
  BY <1>1, <1>2, <1>4, GivesSame
<1>7. Once(calls')
  BY <1>1, <1>2, <1>4, GivenOnce
<1>8. OnlyOfCreated'
  BY <1>1, <1>2, <1>4 DEF OnlyOfCreated
<1> QED
  BY <1>2, <1>4, <1>5, <1>6, <1>7, <1>8

LEMMA ConcludeKeeps ==
  ASSUME ViewAssumption, IInv, NEW c \in Conversations, Conclude(c)
  PROVE  IInv'
<1>1. /\ turn[c] = "running" /\ told[c] # "Running" /\ turn' = [turn EXCEPT ![c] = "finishing"]
      /\ calls' = Append(calls, Call("finish", c))
      /\ UNCHANGED <<rows, created, failed, told, removing, session, turns, edits>>
  BY DEF Conclude, storeVars, counters
<1>2. /\ session \in SessionType /\ SessionInStep /\ ShowsOnlyTheFollowed
      /\ StoreAt(c) /\ CallsAt(c) /\ ("saveStep" \notin failed => StepsAt(c))
  BY Invariants
<1>3. c \in created
  BY <1>1, <1>2 DEF StoreAt
<1>4. /\ calls' \in Seq(CallType) /\ Once(calls') /\ OnlyOfCreated'
      /\ \A other, d : Has(calls', other, d) <=> Has(calls, other, d) \/ (other = "finish" /\ d = c)
      /\ \A d : d # c => Same(calls', calls, d)
      /\ \A d, step : Saves(calls, d, step) => Saves(calls', d, step)
      /\ Creating(calls) => Creating(calls')
  <2>1. ~Has(calls, "finish", c) /\ "finish" \in Work \ {"saveStep"}
    BY <1>1, WorkKinds, NoWork
  <2>2. c \in created' /\ created \subseteq created'
    BY <1>1, <1>3
  <2>3. /\ "finish" \notin {"append", "restart"} /\ "finish" # "remove"
    OBVIOUS
  <2> HIDE DEF Work
  <2> QED
    BY <1>1, <2>1, <2>2, <2>3, GivesWork
<1>5. turn'[c] = "finishing" /\ \A d \in Conversations \ {c} : Kept(d)
  BY <1>1, <1>4, RunnerTypes DEF Kept
<1>6. CallsAt(c)'
  BY <1>1, <1>2, <1>4, <1>5, WorkKinds DEF CallsAt, OnlyOfCreated
<1>7. StoreAt(c)'
  <2>1. BothFailed <=> BothFailed'
    BY <1>1 DEF BothFailed
  <2> QED
    BY <1>1, <1>2, <1>5, <2>1 DEF StoreAt, LastRow
<1>8. "saveStep" \notin failed' => StepsAt(c)'
  BY <1>1, <1>2, <1>4, <1>5 DEF StepsAt, LastRow
<1>9. Follows(c) => SessionPart'
  <2> SUFFICES ASSUME Follows(c) PROVE SessionPart'
    OBVIOUS
  <2>1. c # NoConversation /\ session.attached /\ session.followed = c /\ SessionAt(c)
    BY <1>2 DEF ViewAssumption, Follows, SessionInStep
  <2>2. SessionAt(c)' /\ IsBusy(c)'
    BY <1>1, <1>5, <2>1 DEF SessionAt, IsBusy
  <2>3. /\ \A i \in DOMAIN session'.shown : session'.shown[i].conversation = c
        /\ session'.live # NoStep => session'.live = told'[c]
    BY <1>1, <1>2, <2>1 DEF ShowsOnlyTheFollowed
  <2> QED
    BY <1>1, <1>5, <2>1, <2>2, <2>3, SessionOf
<1>10. TypeOK'
  <2>1. turn' \in [Conversations -> {"none", "storing", "launching", "running", "finishing"}]
    BY <1>1, RunnerTypes
  <2>2. TypeOK
    BY DEF IInv
  <2> QED
    BY <1>1, <1>4, <2>1, <2>2 DEF TypeOK, CallType
<1> QED
  BY <1>1, <1>4, <1>5, <1>6, <1>7, <1>8, <1>9, <1>10, Concerns

LEMMA RunTurnKeeps ==
  ASSUME ViewAssumption, IInv, NEW kind \in {"append", "restart"}, RunTurn(kind)
  PROVE  IInv'
<1> PICK c : c = session.followed
  OBVIOUS
<1>1. /\ turns < MaxTurns /\ turns' = turns + 1 /\ edits' = edits
      /\ session.attached /\ c # NoConversation /\ ~IsBusy(c)
      /\ session' = [Cleared(session) EXCEPT !.busy = TRUE]
      /\ turn' = [turn EXCEPT ![c] = "storing"]
      /\ calls' = Append(calls, Call(kind, c))
      /\ UNCHANGED <<rows, created, failed, told, removing>>
  BY DEF RunTurn, MaySend, storeVars
<1>2. /\ session \in SessionType /\ SessionInStep /\ ShowsOnlyTheFollowed
      /\ created \subseteq Conversations
  BY Invariants
<1>3. c \in created /\ c \in Conversations
  BY <1>1, <1>2 DEF SessionType
<1>4. StoreAt(c) /\ CallsAt(c)
  BY <1>3, Invariants
<1>5. turn[c] = "none" /\ c \notin removing
  BY <1>1 DEF IsBusy
<1>6. \A other \in Work : ~Has(calls, other, c)
  BY <1>3, <1>4, <1>5, NoWork DEF CallsAt
<1>7. /\ calls' \in Seq(CallType) /\ Once(calls') /\ OnlyOfCreated'
      /\ \A other, d : Has(calls', other, d) <=> Has(calls, other, d) \/ (other = kind /\ d = c)
      /\ \A d : d # c => Same(calls', calls, d)
      /\ Creating(calls) => Creating(calls')
  <2>1. kind \in Work \ {"saveStep"} /\ kind # "finish" /\ kind # "remove"
    BY DEF Work
  <2>2. c \in created' /\ created \subseteq created'
    BY <1>1, <1>3
  <2>3. ~Has(calls, "append", c) /\ ~Has(calls, "restart", c)
    BY <1>6, WorkKinds
  <2> HIDE DEF Work
  <2> QED
    BY <1>1, <1>3, <2>1, <2>2, <2>3, GivesWork
<1>8. turn'[c] = "storing" /\ \A d \in Conversations \ {c} : Kept(d)
  BY <1>1, <1>3, <1>7, RunnerTypes DEF Kept
<1>9. CallsAt(c)'
  <2>1. kind \notin {"saveStep", "finish", "remove"}
    OBVIOUS
  <2> QED
    BY <1>6, <1>7, <1>8, <1>3, <2>1, WorkKinds DEF CallsAt, OnlyOfCreated
<1>10. StoreAt(c)'
  <2>1. BothFailed <=> BothFailed'
    BY <1>1 DEF BothFailed
  <2> QED
    BY <1>1, <1>3, <1>4, <1>5, <1>8, <2>1 DEF StoreAt, LastRow
<1>11. StepsAt(c)'
  BY <1>8 DEF StepsAt
<1>12. /\ session' \in SessionType /\ session'.live = NoStep
       /\ session'.attached /\ session'.followed = c /\ session'.shown = session.shown
  BY <1>1, <1>2, KindsAre DEF SessionType, Cleared
<1>13. SessionPart'
  <2>1. SessionAt(c)' /\ IsBusy(c)'
    BY <1>8 DEF SessionAt, IsBusy
  <2>2. \A i \in DOMAIN session'.shown : session'.shown[i].conversation = c
    BY <1>2, <1>12 DEF ShowsOnlyTheFollowed
  <2> QED
    BY <1>1, <1>12, <2>1, <2>2, SessionOf
<1>14. TypeOK'
  <2>1. turn' \in [Conversations -> {"none", "storing", "launching", "running", "finishing"}]
    BY <1>1, RunnerTypes
  <2>2. TypeOK
    BY DEF IInv
  <2>3. turns' \in 0..MaxTurns
    BY <1>1, Bounds DEF ViewAssumption
  <2> QED
    BY <1>1, <1>7, <1>12, <2>1, <2>2, <2>3 DEF TypeOK, CallType, SessionType
<1> QED
  BY <1>1, <1>3, <1>7, <1>8, <1>9, <1>10, <1>11, <1>13, <1>14, Concerns DEF Follows

LEMMA RemoveKeeps ==
  ASSUME ViewAssumption, IInv, NEW c \in Conversations, RemoveConversation(c)
  PROVE  IInv'
<1>1. /\ edits < MaxEdits /\ edits' = edits + 1 /\ turns' = turns
      /\ c \in created /\ c \notin removing /\ removing' = removing \cup {c}
      /\ calls' = IF turn[c] = "none" THEN Append(calls, Call("remove", c)) ELSE calls
      /\ UNCHANGED <<rows, created, failed, turn, told, session>>
  BY DEF RemoveConversation, MayEdit, storeVars
<1>2. /\ session \in SessionType /\ SessionInStep /\ ShowsOnlyTheFollowed
      /\ calls \in Seq(CallType) /\ Once(calls) /\ OnlyOfCreated
      /\ StoreAt(c) /\ CallsAt(c) /\ ("saveStep" \notin failed => StepsAt(c))
  BY Invariants
<1>3. /\ calls' \in Seq(CallType) /\ Once(calls') /\ OnlyOfCreated'
      /\ \A other, d : Has(calls', other, d)
           <=> Has(calls, other, d) \/ (turn[c] = "none" /\ other = "remove" /\ d = c)
      /\ \A d : d # c => Same(calls', calls, d)
      /\ \A d, step : Saves(calls, d, step) => Saves(calls', d, step)
      /\ \A d : Rereads(calls, d) => Rereads(calls', d)
      /\ Creating(calls) => Creating(calls')
  <2>1. CASE turn[c] = "none"
    <3>1. ~Has(calls, "remove", c)
      BY <1>1, <1>2 DEF CallsAt
    <3>2. "remove" \in Work \ {"saveStep"} /\ calls' = Append(calls, Call("remove", c))
      BY <1>1, <2>1, WorkKinds
    <3>3. c \in created' /\ created \subseteq created'
      BY <1>1
    <3>4. "remove" \notin {"append", "restart"} /\ "remove" # "finish"
      OBVIOUS
    <3>5. /\ calls' \in Seq(CallType) /\ Once(calls') /\ OnlyOfCreated'
          /\ \A other, d : Has(calls', other, d) <=> Has(calls, other, d) \/ (other = "remove" /\ d = c)
          /\ \A d : d # c => Same(calls', calls, d)
          /\ \A d, step : Saves(calls, d, step) => Saves(calls', d, step)
          /\ \A d : Rereads(calls, d) => Rereads(calls', d)
          /\ Creating(calls) => Creating(calls')
      BY <3>1, <3>2, <3>3, <3>4, GivesWork
    <3> QED
      BY <2>1, <3>5
  <2>2. CASE turn[c] # "none"
    <3>1. calls' = calls
      BY <1>1, <2>2
    <3>2. OnlyOfCreated'
      BY <1>1, <1>2, <3>1 DEF OnlyOfCreated
    <3> QED
      BY <1>2, <2>2, <3>1, <3>2, SameThen
  <2> QED
    BY <2>1, <2>2
<1>4. \A d \in Conversations \ {c} : Kept(d)
  BY <1>1, <1>3 DEF Kept
<1>5. CallsAt(c)'
  BY <1>1, <1>2, <1>3, WorkKinds DEF CallsAt, OnlyOfCreated
<1>6. StoreAt(c)'
  <2>1. BothFailed <=> BothFailed'
    BY <1>1 DEF BothFailed
  <2> QED
    BY <1>1, <1>2, <2>1 DEF StoreAt, LastRow
<1>7. "saveStep" \notin failed' => StepsAt(c)'
  BY <1>1, <1>2, <1>3 DEF StepsAt, LastRow
<1>8. Follows(c) => SessionPart'
  <2> SUFFICES ASSUME Follows(c) PROVE SessionPart'
    OBVIOUS
  <2>1. c # NoConversation /\ session.attached /\ session.followed = c /\ SessionAt(c)
    BY <1>2 DEF ViewAssumption, Follows, SessionInStep
  <2>2. Has(calls', "messages", c) <=> Has(calls, "messages", c)
    BY <1>3
  <2>3. BothFailed <=> BothFailed'
    BY <1>1 DEF BothFailed
  <2>4. SessionAt(c)' /\ IsBusy(c)'
    BY <1>1, <1>3, <2>1, <2>2, <2>3 DEF SessionAt, IsBusy
  <2>5. /\ \A i \in DOMAIN session'.shown : session'.shown[i].conversation = c
        /\ session'.live # NoStep => turn'[c] \in {"running", "finishing"} /\ session'.live = told'[c]
    BY <1>1, <1>2, <2>1 DEF ShowsOnlyTheFollowed
  <2> QED
    BY <1>1, <2>1, <2>4, <2>5, SessionOf
<1>9. TypeOK'
  <2>1. edits' \in 0..MaxEdits
    BY <1>1, Bounds DEF ViewAssumption
  <2>2. TypeOK
    BY DEF IInv
  <2> QED
    BY <1>1, <1>3, <2>1, <2>2 DEF TypeOK, CallType
<1> QED
  BY <1>1, <1>3, <1>4, <1>5, <1>6, <1>7, <1>8, <1>9, Concerns

(* What finish() posts. *)
LEMMA FinishCalls ==
  ASSUME ViewAssumption, NEW c \in Conversations, NEW rest \in Seq(CallType), Finish(c, rest),
         Once(rest), ~Has(rest, "remove", c)
  PROVE  /\ calls' \in Seq(CallType) /\ Once(calls')
         /\ \A kind, d : kind # "list" =>
              (Has(calls', kind, d)
                <=> Has(rest, kind, d) \/ (Follows(c) /\ kind = "messages" /\ d = c)
                    \/ (c \in removing /\ kind = "remove" /\ d = c))
         /\ \A d : d # c => Same(calls', rest, d)
         /\ Creating(rest) => Creating(calls')
<1> DEFINE m == rest \o (ListCall \o Reloads(c))
           k == Call("remove", c)
<1>1. calls' = m \o (IF c \in removing THEN <<k>> ELSE << >>)
  BY DEF Finish, TurnFinished
<1>2. /\ m \in Seq(CallType) /\ Once(m)
      /\ \A kind, d : kind # "list" =>
           (Has(m, kind, d) <=> Has(rest, kind, d) \/ (Follows(c) /\ kind = "messages" /\ d = c))
      /\ \A d : d # c => Same(m, rest, d)
      /\ Creating(rest) => Creating(m)
  BY Signals
<1>3. /\ k \in CallType /\ k.kind = "remove" /\ k.conversation = c
      /\ \A other, d : IsA(k, other, d) <=> other = "remove" /\ d = c
  BY KindsAre, CallTypes
<1> HIDE DEF m, k
<1>4. CASE c \in removing
  <2>1. calls' = m \o <<k>>
    BY <1>1, <1>4
  <2>2. /\ m \o <<k>> \in Seq(CallType)
        /\ \A other, d : Has(m \o <<k>>, other, d) <=> Has(m, other, d) \/ IsA(k, other, d)
    BY <1>2, <1>3, Gives
  <2>3. /\ \A d : d # c => Same(m \o <<k>>, m, d)
        /\ Creating(m) => Creating(m \o <<k>>)
    BY <1>2, <1>3, GivesSame
  <2>4. Once(m \o <<k>>)
    <3>1. ~Has(m, "remove", c) /\ k.kind \notin {"append", "restart", "finish", "saveStep"}
      BY <1>2, <1>3
    <3> QED
      BY <1>2, <1>3, <3>1, GivenOnce
  <2>5. \A d : d # c => Same(m \o <<k>>, rest, d)
    BY <1>2, <2>3, SameThen
  <2> QED
    BY <1>2, <1>3, <1>4, <2>1, <2>2, <2>3, <2>4, <2>5
<1>5. CASE c \notin removing
  <2>1. calls' = m
    BY <1>1, <1>2, <1>5
  <2> QED
    BY <1>2, <1>5, <2>1
<1> QED
  BY <1>4, <1>5

(* finish(): the turn of c is over, whatever has become of its answer. *)
LEMMA FinishKeeps ==
  ASSUME ViewAssumption, IInv, NEW c \in Conversations, NEW rest \in Seq(CallType),
         Finish(c, rest), turn[c] # "none",
         failed \subseteq failed', failed' \subseteq Kinds,
         rows' \in [Conversations -> Seq(Rows)],
         \A d \in Conversations \ {c} : rows'[d] = rows[d],
         \A i \in DOMAIN rows'[c] : rows'[c][i].conversation = c,
         BothFailed' \/ \A i \in DOMAIN rows'[c] :
           rows'[c][i].status = "Running" => rows'[c][i].step # "Running",
         Once(rest), \A kind \in Work : ~Has(rest, kind, c),
         \A kind, d : Has(rest, kind, d) => Has(calls, kind, d),
         \A d : d # c => Same(rest, calls, d),
         Creating(calls) => Creating(rest)
  PROVE  IInv'
<1>1. /\ turn' = [turn EXCEPT ![c] = "none"]
      /\ session' = IF Follows(c) THEN OnTurnFinished(session) ELSE session
      /\ UNCHANGED <<created, told, removing, turns, edits>>
  BY DEF Finish, counters
<1>2. /\ session \in SessionType /\ SessionInStep /\ ShowsOnlyTheFollowed
      /\ OnlyOfCreated /\ StoreAt(c)
  BY Invariants
<1>3. c \in created
  BY <1>2 DEF StoreAt
<1>4. ~Has(rest, "remove", c)
  BY WorkKinds
<1>5. /\ calls' \in Seq(CallType) /\ Once(calls')
      /\ \A d : d # c => Same(calls', rest, d)
      /\ Creating(rest) => Creating(calls')
  BY <1>4, FinishCalls
<1>6. \A kind, d : kind # "list" =>
        (Has(calls', kind, d)
          <=> Has(rest, kind, d) \/ (Follows(c) /\ kind = "messages" /\ d = c)
              \/ (c \in removing /\ kind = "remove" /\ d = c))
  BY <1>4, FinishCalls
<1>8. \A d : d # c => Same(calls', calls, d)
  BY <1>5, SameThen
<1>9. OnlyOfCreated'
  BY <1>1, <1>2, <1>3, <1>6 DEF OnlyOfCreated
<1>10. turn'[c] = "none" /\ \A d \in Conversations \ {c} : Kept(d)
  BY <1>1, <1>8, RunnerTypes DEF Kept
<1>11. CallsAt(c)'
  <2>1. \A kind \in Work \ {"remove"} : ~Has(calls', kind, c)
    BY <1>6, WorkKinds
  <2>2. Has(calls', "remove", c) => c \in removing
    BY <1>4, <1>6
  <2> QED
    BY <1>1, <1>9, <1>10, <2>1, <2>2, WorkKinds DEF CallsAt, OnlyOfCreated
<1>12. StoreAt(c)'
  BY <1>10 DEF StoreAt
<1>13. StepsAt(c)'
  BY <1>10 DEF StepsAt
<1>14. Follows(c) => session' \in SessionType /\ SessionPart'
  <2> SUFFICES ASSUME Follows(c) PROVE session' \in SessionType /\ SessionPart'
    OBVIOUS
  <2>1. session' = [session EXCEPT !.live = NoStep, !.busy = FALSE, !.activity = FALSE]
    BY <1>1, <1>2 DEF OnTurnFinished, Cleared, SessionType
  <2>2. /\ session' \in SessionType /\ ~session'.busy /\ session'.live = NoStep
        /\ session'.attached /\ session'.followed = c /\ session'.shown = session.shown
    BY <1>2, <2>1, KindsAre DEF SessionType, Follows
  <2>3. Has(calls', "messages", c)
    BY <1>6
  <2>4. SessionAt(c)'
    BY <1>10, <2>3 DEF SessionAt
  <2>5. \A i \in DOMAIN session'.shown : session'.shown[i].conversation = c
    BY <1>2, <2>2 DEF ShowsOnlyTheFollowed, Follows
  <2>6. c # NoConversation
    BY DEF ViewAssumption
  <2> QED
    BY <2>2, <2>4, <2>5, <2>6, SessionOf
<1>15. TypeOK'
  <2>1. session' \in SessionType
    BY <1>1, <1>2, <1>14
  <2>2. turn' \in [Conversations -> {"none", "storing", "launching", "running", "finishing"}]
    BY <1>1, RunnerTypes
  <2>3. TypeOK
    BY DEF IInv
  <2> QED
    BY <1>1, <1>5, <2>1, <2>2, <2>3 DEF TypeOK, CallType, SessionType
<1> QED
  BY <1>1, <1>5, <1>9, <1>10, <1>11, <1>12, <1>13, <1>14, <1>15, Concerns

LEMMA NotAtWork ==
  ASSUME ViewAssumption, IInv, NEW c \in Conversations, turn[c] \notin {"running", "finishing"}
  PROVE  BothFailed \/ \A i \in DOMAIN rows[c] :
           rows[c][i].status = "Running" => rows[c][i].step # "Running"
<1>1. StoreAt(c)
  BY Invariants
<1> QED
  BY <1>1 DEF StoreAt

LEMMA LaunchFailsKeeps ==
  ASSUME ViewAssumption, IInv, NEW c \in Conversations, LaunchFails(c)
  PROVE  IInv'
<1>1. turn[c] = "launching" /\ Finish(c, calls) /\ UNCHANGED <<rows, failed>>
  BY DEF LaunchFails
<1>2. /\ calls \in Seq(CallType) /\ Once(calls) /\ StoreAt(c)
  BY Invariants
<1>3. \A kind \in Work : ~Has(calls, kind, c)
  BY <1>1, NoWork
<1>4. rows' \in [Conversations -> Seq(Rows)]
  BY <1>1, RunnerTypes
<1>5. \A i \in DOMAIN rows'[c] : rows'[c][i].conversation = c
  BY <1>1, <1>2 DEF StoreAt
<1>6. BothFailed' \/ \A i \in DOMAIN rows'[c] :
        rows'[c][i].status = "Running" => rows'[c][i].step # "Running"
  <2>1. BothFailed <=> BothFailed'
    BY <1>1 DEF BothFailed
  <2> QED
    BY <1>1, <2>1, NotAtWork
<1>7. \A d \in Conversations \ {c} : rows'[d] = rows[d]
  BY <1>1
<1>8. failed \subseteq failed' /\ failed' \subseteq Kinds
  BY <1>1, Bounds
<1>9. \A d : d # c => Same(calls, calls, d)
  BY SameThen
<1> QED
  BY <1>1, <1>2, <1>3, <1>4, <1>5, <1>6, <1>7, <1>8, <1>9, FinishKeeps

LEMMA TurnAbandonedKeeps ==
  ASSUME ViewAssumption, IInv, TurnAbandoned
  PROVE  IInv'
<1> PICK c : c = Subject
  OBVIOUS
<1> PICK kind \in {"append", "restart"} :
      Answered(kind) /\ (Fails(kind) \/ Succeeds)
  BY DEF TurnAbandoned
<1>1. Finish(c, Rest) /\ rows' = rows
  BY DEF TurnAbandoned
<1>2. /\ Rest \in Seq(CallType) /\ Once(Rest) /\ (\A k, d : Has(Rest, k, d) => Has(calls, k, d))
      /\ (\A d : d # c => Same(Rest, calls, d)) /\ Has(calls, kind, c)
      /\ IsA(Head(calls), kind, c) /\ c \in created /\ c \in Conversations
      /\ calls \in Seq(CallType) /\ calls # << >>
      /\ Creating(calls) => Creating(Rest)
  <2>1. kind \in Kinds \ {"list", "create"} /\ kind # "create"
    BY DEF Kinds
  <2> QED
    BY <2>1, AnsweredIs
<1>3. /\ Once(calls) /\ StoreAt(c) /\ CallsAt(c)
  BY <1>2, Invariants
<1>4. turn[c] = "storing"
  BY <1>2, <1>3 DEF CallsAt
<1>5. \A other \in Work : ~Has(Rest, other, c)
  <2>1. ~Has(Rest, "append", c) /\ ~Has(Rest, "restart", c)
    BY <1>2, <1>3, AnsweredOnce DEF Rest
  <2>2. \A other \in Work \ {"append", "restart"} : ~Has(calls, other, c)
    BY <1>2, <1>4, NoWork
  <2> QED
    BY <1>2, <2>1, <2>2
<1>6. rows' \in [Conversations -> Seq(Rows)]
  BY <1>1, RunnerTypes
<1>7. \A i \in DOMAIN rows'[c] : rows'[c][i].conversation = c
  BY <1>1, <1>3 DEF StoreAt
<1>8. failed \subseteq failed' /\ failed' \subseteq Kinds
  <2>1. kind \in Kinds
    BY DEF Kinds
  <2> QED
    BY <2>1, FailsIs
<1>9. BothFailed' \/ \A i \in DOMAIN rows'[c] :
        rows'[c][i].status = "Running" => rows'[c][i].step # "Running"
  <2>1. BothFailed => BothFailed'
    BY <1>8 DEF BothFailed
  <2> QED
    BY <1>1, <1>2, <1>4, <2>1, NotAtWork
<1>10. \A d \in Conversations \ {c} : rows'[d] = rows[d]
  BY <1>1
<1> QED
  BY <1>1, <1>2, <1>4, <1>5, <1>6, <1>7, <1>8, <1>9, <1>10, FinishKeeps

(* The last row of a conversation is written. *)
LEMMA LastWritten ==
  ASSUME IInv, NEW c \in Conversations, NEW row \in Rows, rows[c] # << >>,
         rows' = WithLast(c, row)
  PROVE  /\ rows' \in [Conversations -> Seq(Rows)]
         /\ \A d \in Conversations \ {c} : rows'[d] = rows[d]
         /\ Len(rows'[c]) = Len(rows[c]) /\ DOMAIN rows'[c] = DOMAIN rows[c] /\ rows'[c] # << >>
         /\ rows'[c][Len(rows[c])] = row /\ Len(rows[c]) \in DOMAIN rows[c]
         /\ \A i \in DOMAIN rows[c] : i # Len(rows[c]) => rows'[c][i] = rows[c][i]
<1> DEFINE list == [rows[c] EXCEPT ![Len(rows[c])] = row]
<1>1. rows \in [Conversations -> Seq(Rows)] /\ rows[c] \in Seq(Rows)
  BY RunnerTypes
<1>2. rows' = [rows EXCEPT ![c] = list]
  BY DEF WithLast
<1>3. /\ list \in Seq(Rows) /\ Len(list) = Len(rows[c]) /\ DOMAIN list = DOMAIN rows[c]
      /\ list # << >> /\ Len(rows[c]) \in DOMAIN rows[c]
      /\ list[Len(rows[c])] = row
      /\ \A i \in DOMAIN rows[c] : i # Len(rows[c]) => list[i] = rows[c][i]
  BY <1>1
<1> HIDE DEF list
<1> QED
  BY <1>1, <1>2, <1>3

LEMMA RowTypes ==
  ASSUME NEW c \in Conversations, NEW status \in {"Running", "Complete", "Failed"},
         NEW step \in StepStates
  PROVE  /\ Row(c, status, step) \in Rows
         /\ Row(c, status, step).conversation = c /\ Row(c, status, step).status = status
         /\ Row(c, status, step).step = step
BY DEF Row, Rows

LEMMA TurnConcludedKeeps ==
  ASSUME ViewAssumption, IInv, TurnConcluded
  PROVE  IInv'
<1> PICK c : c = Subject
  OBVIOUS
<1>1. Answered("finish") /\ Finish(c, Rest) /\ (Fails("finish") \/ Succeeds)
  BY DEF TurnConcluded
<1>2. /\ Rest \in Seq(CallType) /\ Once(Rest) /\ (\A k, d : Has(Rest, k, d) => Has(calls, k, d))
      /\ (\A d : d # c => Same(Rest, calls, d)) /\ Has(calls, "finish", c)
      /\ IsA(Head(calls), "finish", c) /\ c \in created /\ c \in Conversations
      /\ calls \in Seq(CallType) /\ calls # << >>
      /\ Creating(calls) => Creating(Rest)
  BY <1>1, WorkKinds, AnsweredIs
<1>3. /\ Once(calls) /\ StoreAt(c) /\ CallsAt(c) /\ ("saveStep" \notin failed => StepsAt(c))
      /\ rows[c] \in Seq(Rows)
  BY <1>2, Invariants
<1>4. turn[c] = "finishing" /\ told[c] # "Running" /\ LastRunning(rows[c])
  BY <1>2, <1>3 DEF CallsAt, StoreAt
<1>5. \A other \in Work : ~Has(Rest, other, c)
  <2>1. ~Has(Rest, "finish", c) /\ ~Has(Rest, "saveStep", c)
    BY <1>2, <1>3, AnsweredOnce DEF Rest
  <2>2. \A other \in Work \ {"saveStep", "finish"} : ~Has(calls, other, c)
    BY <1>2, <1>4, NoWork
  <2> QED
    BY <1>2, <2>1, <2>2
<1>6. failed \subseteq failed' /\ failed' \subseteq Kinds
  BY <1>1, KindsAre, FailsIs
<1>7. ASSUME rows' = rows, "finish" \in failed'
      PROVE  BothFailed' \/ \A i \in DOMAIN rows'[c] :
               rows'[c][i].status = "Running" => rows'[c][i].step # "Running"
  <2>1. CASE "saveStep" \in failed'
    BY <1>7, <2>1 DEF BothFailed
  <2>2. CASE "saveStep" \notin failed'
    <3>1. ~Has(calls, "saveStep", c)
      <4>1. Has(calls, "saveStep", c) => Has(Rest, "saveStep", c) \/ IsA(Head(calls), "saveStep", c)
        BY <1>2, Answers DEF Rest
      <4> QED
        BY <1>2, <1>5, <4>1, WorkKinds DEF IsA
    <3>2. StepsAt(c) /\ ~BothFailed
      BY <1>3, <1>6, <2>2 DEF BothFailed
    <3>3. LastRow(c).step # "Running"
      BY <1>4, <3>1, <3>2 DEF StepsAt
    <3> QED
      BY <1>3, <1>7, <3>2, <3>3 DEF StoreAt, LastRow
  <2> QED
    BY <2>1, <2>2
<1>8. \/ rows' = rows /\ "finish" \in failed'
      \/ \E status \in {"Complete", "Failed"} : rows' = WithLast(c, Row(c, status, LastRow(c).step))
  BY DEF TurnConcluded, Fails
<1>9. CASE rows' = rows /\ "finish" \in failed'
  <2>1. rows' \in [Conversations -> Seq(Rows)] /\ \A d \in Conversations \ {c} : rows'[d] = rows[d]
    BY <1>9, RunnerTypes
  <2>2. \A i \in DOMAIN rows'[c] : rows'[c][i].conversation = c
    BY <1>3, <1>9 DEF StoreAt
  <2>3. turn[c] # "none"
    BY <1>4
  <2> QED
    BY <1>1, <1>2, <1>5, <1>6, <1>7, <1>9, <2>1, <2>2, <2>3, FinishKeeps
<1>10. ASSUME NEW status \in {"Complete", "Failed"}, rows' = WithLast(c, Row(c, status, LastRow(c).step))
       PROVE  IInv'
  <2> PICK row : row = Row(c, status, LastRow(c).step)
    OBVIOUS
  <2>1. LastRow(c).step \in StepStates
    <3>1. rows[c][Len(rows[c])] \in Rows
      BY <1>3, <1>4 DEF LastRunning
    <3> QED
      BY <3>1 DEF Rows, LastRow
  <2>2. row \in Rows /\ row.conversation = c /\ row.status # "Running"
    BY <1>2, <2>1, RowTypes
  <2>3. /\ rows' \in [Conversations -> Seq(Rows)]
        /\ \A d \in Conversations \ {c} : rows'[d] = rows[d]
        /\ DOMAIN rows'[c] = DOMAIN rows[c]
        /\ rows'[c][Len(rows[c])] = row
        /\ \A i \in DOMAIN rows[c] : i # Len(rows[c]) => rows'[c][i] = rows[c][i]
    BY <1>2, <1>4, <1>10, <2>2, LastWritten DEF LastRunning
  <2>4. \A i \in DOMAIN rows'[c] : rows'[c][i].conversation = c
    BY <1>3, <2>2, <2>3 DEF StoreAt
  <2>5. BothFailed' \/ \A i \in DOMAIN rows'[c] :
          rows'[c][i].status = "Running" => rows'[c][i].step # "Running"
    <3>1. BothFailed => BothFailed'
      BY <1>6 DEF BothFailed
    <3> QED
      BY <1>3, <2>2, <2>3, <3>1 DEF StoreAt
  <2>6. turn[c] # "none"
    BY <1>4
  <2> QED
    BY <1>1, <1>2, <1>5, <1>6, <2>3, <2>4, <2>5, <2>6, FinishKeeps
<1> QED
  BY <1>8, <1>9, <1>10

LEMMA TurnStoredKeeps ==
  ASSUME ViewAssumption, IInv, TurnStored
  PROVE  IInv'
<1> PICK c : c = Subject
  OBVIOUS
<1> PICK kind \in {"append", "restart"} : Answered(kind)
  BY DEF TurnStored
<1> PICK row : row = Row(c, "Running", NoStep)
  OBVIOUS
<1>1. /\ calls' = Rest /\ turn' = [turn EXCEPT ![c] = "launching"]
      /\ \/ rows' = [rows EXCEPT ![c] = Append(@, row)]
         \/ rows[c] # << >> /\ rows' = WithLast(c, row)
      /\ UNCHANGED <<created, failed, told, removing, session, turns, edits>>
  BY DEF TurnStored, Retryable, Succeeds, counters
<1>2. /\ Rest \in Seq(CallType) /\ Once(Rest) /\ (\A k, d : Has(Rest, k, d) => Has(calls, k, d))
      /\ (\A d : d # c => Same(Rest, calls, d)) /\ Has(calls, kind, c)
      /\ IsA(Head(calls), kind, c) /\ c \in created /\ c \in Conversations
      /\ calls \in Seq(CallType) /\ calls # << >>
      /\ Creating(calls) => Creating(Rest)
  <2>1. kind \in Kinds \ {"list", "create"} /\ kind # "create"
    BY DEF Kinds
  <2> QED
    BY <2>1, AnsweredIs
<1>3. /\ Once(calls) /\ StoreAt(c) /\ CallsAt(c) /\ rows[c] \in Seq(Rows) /\ OnlyOfCreated
      /\ SessionInStep /\ ShowsOnlyTheFollowed
  BY <1>2, Invariants
<1>4. turn[c] = "storing"
  BY <1>2, <1>3 DEF CallsAt
<1>5. \A other \in Work : ~Has(Rest, other, c)
  <2>1. ~Has(Rest, "append", c) /\ ~Has(Rest, "restart", c)
    BY <1>2, <1>3, AnsweredOnce DEF Rest
  <2>2. \A other \in Work \ {"append", "restart"} : ~Has(calls, other, c)
    BY <1>2, <1>4, NoWork
  <2> QED
    BY <1>2, <2>1, <2>2
<1>6. row \in Rows /\ row.conversation = c /\ row.status = "Running" /\ row.step = NoStep
  BY <1>2, KindsAre, RowTypes
<1>7. PICK last \in Nat :
        /\ rows' \in [Conversations -> Seq(Rows)]
        /\ \A d \in Conversations \ {c} : rows'[d] = rows[d]
        /\ Len(rows'[c]) = last /\ rows'[c] # << >> /\ rows'[c][last] = row
        /\ \A i \in DOMAIN rows'[c] : i # last => i \in DOMAIN rows[c] /\ rows'[c][i] = rows[c][i]
  <2>1. CASE rows' = [rows EXCEPT ![c] = Append(@, row)]
    <3> DEFINE list == Append(rows[c], row)
    <3>1. /\ list \in Seq(Rows) /\ Len(list) = Len(rows[c]) + 1 /\ Len(rows[c]) + 1 \in Nat
          /\ list # << >> /\ list[Len(rows[c]) + 1] = row
          /\ \A i \in DOMAIN list :
               i # Len(rows[c]) + 1 => i \in DOMAIN rows[c] /\ list[i] = rows[c][i]
      BY <1>3, <1>6
    <3>2. rows' = [rows EXCEPT ![c] = list]
      BY <2>1
    <3> HIDE DEF list
    <3>3. rows'[c] = list /\ rows' \in [Conversations -> Seq(Rows)]
          /\ \A d \in Conversations \ {c} : rows'[d] = rows[d]
      BY <1>2, <3>1, <3>2, RunnerTypes
    <3> QED
      BY <3>1, <3>3
  <2>2. CASE rows[c] # << >> /\ rows' = WithLast(c, row)
    <3>1. Len(rows[c]) \in Nat
      BY <1>3
    <3> QED
      BY <1>2, <1>6, <2>2, <3>1, LastWritten
  <2> QED
    BY <1>1, <2>1, <2>2
<1>8. turn'[c] = "launching" /\ \A d \in Conversations \ {c} : Kept(d)
  BY <1>1, <1>2, <1>7, RunnerTypes DEF Kept
<1>9. OnlyOfCreated'
  BY <1>1, <1>2, <1>3 DEF OnlyOfCreated
<1>10. CallsAt(c)'
  BY <1>1, <1>2, <1>5, <1>9, WorkKinds DEF CallsAt, OnlyOfCreated
<1>11. StoreAt(c)'
  <2>1. BothFailed <=> BothFailed'
    BY <1>1 DEF BothFailed
  <2>2. \A i \in DOMAIN rows'[c] : rows'[c][i].conversation = c
    BY <1>3, <1>6, <1>7 DEF StoreAt
  <2>3. BothFailed \/ \A i \in DOMAIN rows'[c] :
          rows'[c][i].status = "Running" => rows'[c][i].step # "Running"
    BY <1>2, <1>4, <1>6, <1>7, NotAtWork, KindsAre
  <2>4. LastRunning(rows'[c]) /\ rows'[c][Len(rows'[c])].step = NoStep
    BY <1>6, <1>7 DEF LastRunning
  <2> QED
    BY <1>1, <1>2, <1>8, <2>1, <2>2, <2>3, <2>4 DEF StoreAt, LastRow
<1>12. StepsAt(c)'
  BY <1>8 DEF StepsAt
<1>13. Follows(c) => SessionPart'
  <2> SUFFICES ASSUME Follows(c) PROVE SessionPart'
    OBVIOUS
  <2>1. c # NoConversation /\ session.attached /\ session.followed = c
    BY <1>2 DEF ViewAssumption, Follows
  <2>2. SessionAt(c)' /\ IsBusy(c)'
    BY <1>8 DEF SessionAt, IsBusy
  <2>3. /\ \A i \in DOMAIN session'.shown : session'.shown[i].conversation = c
        /\ session'.live = NoStep
    BY <1>1, <1>3, <1>4, <2>1 DEF ShowsOnlyTheFollowed
  <2> QED
    BY <1>1, <2>1, <2>2, <2>3, SessionOf
<1>14. TypeOK'
  <2>1. turn' \in [Conversations -> {"none", "storing", "launching", "running", "finishing"}]
    BY <1>1, RunnerTypes
  <2>2. TypeOK
    BY DEF IInv
  <2> QED
    BY <1>1, <1>2, <1>7, <2>1, <2>2 DEF TypeOK, CallType
<1> QED
  BY <1>1, <1>2, <1>8, <1>9, <1>10, <1>11, <1>12, <1>13, <1>14, Concerns

LEMMA StepSavedKeeps ==
  ASSUME ViewAssumption, IInv, StepSaved
  PROVE  IInv'
<1> PICK c : c = Subject
  OBVIOUS
<1> PICK row : row = Row(c, LastRow(c).status, Head(calls).step)
  OBVIOUS
<1>1. /\ Answered("saveStep") /\ calls' = Rest
      /\ \/ rows' = rows /\ "saveStep" \in failed'
         \/ rows' = WithLast(c, row)
      /\ Fails("saveStep") \/ Succeeds
      /\ UNCHANGED <<created, turn, told, removing, session, turns, edits>>
  BY DEF StepSaved, Fails, runnerVars, counters
<1>2. /\ Rest \in Seq(CallType) /\ Once(Rest) /\ (\A k, d : Has(Rest, k, d) => Has(calls, k, d))
      /\ (\A d : d # c => Same(Rest, calls, d)) /\ Has(calls, "saveStep", c)
      /\ IsA(Head(calls), "saveStep", c) /\ c \in created /\ c \in Conversations
      /\ calls \in Seq(CallType) /\ calls # << >> /\ Head(calls) \in CallType
      /\ Creating(calls) => Creating(Rest)
  BY <1>1, WorkKinds, AnsweredIs
<1>3. /\ Once(calls) /\ StoreAt(c) /\ CallsAt(c) /\ rows[c] \in Seq(Rows) /\ OnlyOfCreated
      /\ SessionInStep /\ ShowsOnlyTheFollowed /\ ("saveStep" \notin failed => StepsAt(c))
  BY <1>2, Invariants
<1>4. turn[c] \in {"running", "finishing"} /\ LastRunning(rows[c])
  BY <1>2, <1>3 DEF CallsAt, StoreAt
<1>5. /\ row \in Rows /\ row.conversation = c /\ row.status = "Running"
      /\ row.step = Head(calls).step
  <2>1. LastRow(c).status = "Running" /\ Head(calls).step \in StepStates
    BY <1>2, <1>4 DEF LastRunning, LastRow, CallType
  <2> QED
    BY <1>2, <2>1, RowTypes
<1>6. failed \subseteq failed' /\ failed' \subseteq Kinds
  BY <1>1, KindsAre, FailsIs
<1>7. /\ rows' \in [Conversations -> Seq(Rows)]
      /\ \A d \in Conversations \ {c} : rows'[d] = rows[d]
      /\ Len(rows'[c]) = Len(rows[c]) /\ DOMAIN rows'[c] = DOMAIN rows[c] /\ rows'[c] # << >>
      /\ \A i \in DOMAIN rows[c] : i # Len(rows[c]) => rows'[c][i] = rows[c][i]
      /\ LastRunning(rows'[c])
      /\ \A i \in DOMAIN rows'[c] : rows'[c][i].conversation = c
      /\ "saveStep" \notin failed' => rows'[c][Len(rows[c])].step = Head(calls).step
  <2>1. CASE rows' = rows /\ "saveStep" \in failed'
    BY <1>3, <1>4, <2>1, RunnerTypes DEF StoreAt, LastRunning
  <2>2. CASE rows' = WithLast(c, row)
    <3>1. /\ rows' \in [Conversations -> Seq(Rows)]
          /\ \A d \in Conversations \ {c} : rows'[d] = rows[d]
          /\ Len(rows'[c]) = Len(rows[c]) /\ DOMAIN rows'[c] = DOMAIN rows[c] /\ rows'[c] # << >>
          /\ rows'[c][Len(rows[c])] = row
          /\ \A i \in DOMAIN rows[c] : i # Len(rows[c]) => rows'[c][i] = rows[c][i]
      BY <1>2, <1>4, <1>5, <2>2, LastWritten DEF LastRunning
    <3>2. LastRunning(rows'[c])
      BY <1>5, <3>1 DEF LastRunning
    <3>3. \A i \in DOMAIN rows'[c] : rows'[c][i].conversation = c
      BY <1>3, <1>5, <3>1 DEF StoreAt
    <3> QED
      BY <1>5, <3>1, <3>2, <3>3
  <2> QED
    BY <1>1, <2>1, <2>2
<1>8. \A d \in Conversations \ {c} : Kept(d)
  BY <1>1, <1>2, <1>7 DEF Kept
<1>9. OnlyOfCreated'
  BY <1>1, <1>2, <1>3 DEF OnlyOfCreated
<1>10. CallsAt(c)'
  BY <1>1, <1>2, <1>3, <1>9, WorkKinds DEF CallsAt
<1>11. StoreAt(c)'
  <2>1. BothFailed => BothFailed'
    BY <1>6 DEF BothFailed
  <2>2. BothFailed' \/ \A i \in DOMAIN rows'[c] :
          rows'[c][i].status = "Running" /\ rows'[c][i].step = "Running" => i = Len(rows'[c])
    BY <1>3, <1>7, <2>1 DEF StoreAt
  <2> QED
    BY <1>1, <1>2, <1>3, <1>4, <1>7, <2>2 DEF StoreAt, LastRow
<1>12. "saveStep" \notin failed' => StepsAt(c)'
  <2> SUFFICES ASSUME "saveStep" \notin failed' PROVE StepsAt(c)'
    OBVIOUS
  <2>1. Saves(calls, c, told[c])
    BY <1>3, <1>4, <1>6 DEF StepsAt
  <2>2. /\ Saves(Rest, c, told[c])
        /\ ~Has(Rest, "saveStep", c) => Head(calls).step = told[c]
    BY <1>2, <2>1, Answers DEF Rest
  <2>3. ~Has(Rest, "saveStep", c) => rows'[c][Len(rows'[c])].step = told[c]
    BY <1>7, <2>2
  <2> QED
    BY <1>1, <2>2, <2>3 DEF StepsAt, LastRow
<1>13. Follows(c) => SessionPart'
  <2> SUFFICES ASSUME Follows(c) PROVE SessionPart'
    OBVIOUS
  <2>1. c # NoConversation /\ session.attached /\ session.followed = c /\ SessionAt(c)
    BY <1>2, <1>3 DEF ViewAssumption, Follows, SessionInStep
  <2>2. Rereads(calls, c) => Rereads(Rest, c)
    BY <1>2, Answers DEF Rest
  <2>3. Has(Rest, "messages", c) <=> Has(calls, "messages", c)
    <3>1. Has(calls, "messages", c) => Has(Rest, "messages", c) \/ IsA(Head(calls), "messages", c)
      BY <1>2, Answers DEF Rest
    <3> QED
      BY <1>2, <3>1 DEF IsA
  <2>4. SessionAt(c)'
    BY <1>1, <1>4, <1>6, <2>1, <2>2, <2>3 DEF SessionAt
  <2>5. /\ \A i \in DOMAIN session'.shown : session'.shown[i].conversation = c
        /\ session'.live # NoStep => session'.live = told'[c]
    BY <1>1, <1>3, <2>1 DEF ShowsOnlyTheFollowed
  <2>6. IsBusy(c)'
    BY <1>1, <1>4 DEF IsBusy
  <2> QED
    BY <1>1, <1>2, <1>4, <2>1, <2>4, <2>5, <2>6, SessionOf
<1>14. TypeOK'
  <2>1. TypeOK
    BY DEF IInv
  <2> QED
    BY <1>1, <1>2, <1>6, <1>7, <2>1 DEF TypeOK, CallType
<1> QED
  BY <1>1, <1>2, <1>6, <1>8, <1>9, <1>10, <1>11, <1>12, <1>13, <1>14, Concerns

LEMMA RemovedKeeps ==
  ASSUME ViewAssumption, IInv, Removed
  PROVE  IInv'
<1> PICK c : c = Subject
  OBVIOUS
<1>1. /\ Answered("remove") /\ removing' = removing \ {c}
      /\ \/ /\ "remove" \in failed' /\ calls' = Rest /\ UNCHANGED <<rows, session>>
         \/ /\ rows' = [rows EXCEPT ![c] = << >>]
            /\ session' = IF Follows(c) THEN ResetTo(session, NoConversation) ELSE session
            /\ calls' = Rest \o ListCall
      /\ Fails("remove") \/ Succeeds
      /\ UNCHANGED <<created, turn, told, turns, edits>>
  BY DEF Removed, Fails, counters
<1>2. /\ Rest \in Seq(CallType) /\ Once(Rest) /\ (\A k, d : Has(Rest, k, d) => Has(calls, k, d))
      /\ (\A d : d # c => Same(Rest, calls, d)) /\ Has(calls, "remove", c)
      /\ IsA(Head(calls), "remove", c) /\ c \in created /\ c \in Conversations
      /\ calls \in Seq(CallType) /\ calls # << >>
      /\ Creating(calls) => Creating(Rest)
  BY <1>1, WorkKinds, AnsweredIs
<1>3. /\ Once(calls) /\ StoreAt(c) /\ CallsAt(c) /\ OnlyOfCreated
      /\ session \in SessionType /\ SessionInStep /\ ShowsOnlyTheFollowed
  BY <1>2, Invariants
<1>4. turn[c] = "none"
  BY <1>2, <1>3 DEF CallsAt
<1>5. \A other \in Work : ~Has(Rest, other, c)
  <2>1. ~Has(Rest, "remove", c)
    BY <1>2, <1>3, AnsweredOnce DEF Rest
  <2>2. \A other \in Work \ {"remove"} : ~Has(calls, other, c)
    BY <1>2, <1>4, NoWork
  <2> QED
    BY <1>2, <2>1, <2>2
<1>6. failed \subseteq failed' /\ failed' \subseteq Kinds
  BY <1>1, KindsAre, FailsIs
<1>7. /\ calls' \in Seq(CallType) /\ Once(calls')
      /\ \A kind, d : Has(calls', kind, d) /\ kind # "list" => Has(Rest, kind, d)
      /\ \A d : d # c => Same(calls', calls, d)
      /\ Creating(calls) => Creating(calls')
  <2>1. CASE calls' = Rest
    BY <1>2, <2>1
  <2>2. CASE calls' = Rest \o ListCall
    <3>1. /\ Rest \o ListCall \in Seq(CallType) /\ Once(Rest \o ListCall)
          /\ \A kind, d : Has(Rest \o ListCall, kind, d) /\ kind # "list" => Has(Rest, kind, d)
          /\ \A d : Same(Rest \o ListCall, Rest, d)
          /\ Creating(Rest) => Creating(Rest \o ListCall)
      BY <1>2, Lists
    <3> QED
      BY <1>2, <2>2, <3>1, SameThen
  <2> QED
    BY <1>1, <2>1, <2>2
<1>8. /\ rows' \in [Conversations -> Seq(Rows)]
      /\ \A d \in Conversations \ {c} : rows'[d] = rows[d]
      /\ rows' = rows \/ rows'[c] = << >>
  <2>1. << >> \in Seq(Rows)
    OBVIOUS
  <2> QED
    BY <1>1, <1>2, <2>1, RunnerTypes
<1>9. \A d \in Conversations \ {c} : Kept(d)
  BY <1>1, <1>7, <1>8 DEF Kept
<1>10. OnlyOfCreated'
  BY <1>1, <1>2, <1>3, <1>7 DEF OnlyOfCreated
<1>11. CallsAt(c)'
  BY <1>1, <1>2, <1>5, <1>7, WorkKinds DEF CallsAt
<1>12. StoreAt(c)'
  <2>1. BothFailed => BothFailed'
    BY <1>6 DEF BothFailed
  <2>2. CASE rows' = rows
    BY <1>1, <1>3, <1>4, <2>1, <2>2 DEF StoreAt
  <2>3. CASE rows'[c] = << >>
    BY <1>1, <1>4, <2>3 DEF StoreAt
  <2> QED
    BY <1>8, <2>2, <2>3
<1>13. StepsAt(c)'
  BY <1>1, <1>4 DEF StepsAt
<1>14. c # NoConversation
  BY <1>2 DEF ViewAssumption
<1>15. Follows(c) => session' \in SessionType /\ SessionPart'
  <2> SUFFICES ASSUME Follows(c) PROVE session' \in SessionType /\ SessionPart'
    OBVIOUS
  <2>1. CASE "remove" \in failed' /\ calls' = Rest /\ UNCHANGED <<rows, session>>
    <3>1. session.attached /\ session.followed = c /\ SessionAt(c)
      BY <1>3, <1>14 DEF Follows, SessionInStep
    <3>2. Has(Rest, "messages", c) <=> Has(calls, "messages", c)
      <4>1. Has(calls, "messages", c) => Has(Rest, "messages", c) \/ IsA(Head(calls), "messages", c)
        BY <1>2, Answers DEF Rest
      <4> QED
        BY <1>2, <4>1 DEF IsA
    <3>3. BothFailed => BothFailed'
      BY <1>6 DEF BothFailed
    <3>4. SessionAt(c)'
      BY <1>1, <1>4, <2>1, <3>1, <3>2, <3>3 DEF SessionAt
    <3>5. /\ \A i \in DOMAIN session'.shown : session'.shown[i].conversation = c
          /\ session'.live = NoStep
      BY <1>3, <1>4, <2>1, <3>1 DEF ShowsOnlyTheFollowed
    <3> QED
      BY <1>3, <1>14, <2>1, <3>1, <3>4, <3>5, SessionOf
  <2>2. CASE session' = ResetTo(session, NoConversation)
    <3>1. << >> \in Seq(Rows)
      OBVIOUS
    <3>2. /\ session' \in SessionType /\ session'.followed = NoConversation
          /\ session'.live = NoStep /\ session'.shown = << >> /\ ~session'.busy
          /\ ~session'.activity
      BY <1>3, <2>2, <3>1, KindsAre DEF SessionType, ResetTo
    <3> QED
      BY <3>2 DEF SessionPart, SessionInStep, ShowsOnlyTheFollowed, NeverStuckBusy
  <2> QED
    BY <1>1, <2>1, <2>2
<1>16. ~Follows(c) => session' = session
  BY <1>1
<1>17. TypeOK'
  <2>1. session' \in SessionType /\ removing' \subseteq created'
    BY <1>1, <1>3, <1>15, RunnerTypes
  <2>2. TypeOK
    BY DEF IInv
  <2> QED
    BY <1>1, <1>6, <1>7, <1>8, <2>1, <2>2 DEF TypeOK, CallType, SessionType
<1> QED
  BY <1>1, <1>2, <1>6, <1>7, <1>9, <1>10, <1>11, <1>12, <1>13, <1>15, <1>16, <1>17, Concerns

LEMMA CreatedKeeps ==
  ASSUME ViewAssumption, IInv, NEW c \in Conversations, Created(c)
  PROVE  IInv'
<1> DEFINE k == Call("append", c)
           adopted == [session EXCEPT !.followed = IF @ = NoConversation THEN c ELSE @]
<1>1. /\ Answered("create") /\ failed' = failed /\ c \notin created
      /\ created' = created \cup {c}
      /\ IF session.attached
         THEN /\ session' = adopted
              /\ turn' = [turn EXCEPT ![c] = "storing"]
              /\ calls' = Append(Rest, k)
         ELSE /\ session' = [adopted EXCEPT !.busy = IF adopted.followed = c THEN FALSE ELSE @]
              /\ calls' = Rest
              /\ UNCHANGED turn
      /\ UNCHANGED <<rows, told, removing, turns, edits>>
  BY DEF Created, Succeeds, counters
<1>2. /\ session \in SessionType /\ SessionInStep /\ ShowsOnlyTheFollowed
      /\ OnlyOfCreated /\ StoreAt(c) /\ CallsAt(c) /\ created \subseteq Conversations
  BY Invariants
<1>3. /\ Rest \in Seq(CallType) /\ Once(Rest) /\ (\A kind, d : Has(Rest, kind, d) => Has(calls, kind, d))
      /\ \A d : Same(Rest, calls, d)
  BY <1>1, AnsweredIs
<1>4. turn[c] = "none" /\ c # NoConversation
  BY <1>1, <1>2 DEF StoreAt, ViewAssumption
<1>5. \A kind \in Kinds \ {"list", "create"} : ~Has(Rest, kind, c)
  BY <1>1, <1>2, <1>3 DEF OnlyOfCreated
<1>6. /\ k \in CallType /\ k.kind = "append" /\ k.conversation = c
      /\ \A other, d : IsA(k, other, d) <=> other = "append" /\ d = c
  BY KindsAre, CallTypes
<1> HIDE DEF k
<1>7. /\ calls' \in Seq(CallType) /\ Once(calls')
      /\ \A kind, d : Has(calls', kind, d)
           <=> Has(Rest, kind, d) \/ (session.attached /\ kind = "append" /\ d = c)
      /\ \A d : d # c => Same(calls', Rest, d)
  <2>1. CASE session.attached
    <3>1. /\ Append(Rest, k) = Rest \o <<k>> /\ Rest \o <<k>> \in Seq(CallType)
          /\ \A kind, d : Has(Rest \o <<k>>, kind, d) <=> Has(Rest, kind, d) \/ IsA(k, kind, d)
      BY <1>3, <1>6, Gives
    <3>2. \A d : d # c => Same(Rest \o <<k>>, Rest, d)
      BY <1>3, <1>6, GivesSame
    <3>3. Once(Rest \o <<k>>)
      <4>1. /\ ~Has(Rest, "append", c) /\ ~Has(Rest, "restart", c)
            /\ k.kind \notin {"finish", "saveStep"} /\ k.kind # "remove"
        BY <1>5, <1>6, WorkKinds
      <4> QED
        BY <1>3, <1>6, <4>1, GivenOnce
    <3>4. calls' = Rest \o <<k>>
      BY <1>1, <2>1, <3>1
    <3> QED
      BY <1>6, <2>1, <3>1, <3>2, <3>3, <3>4
  <2>2. CASE ~session.attached
    BY <1>1, <1>3, <2>2, SameThen
  <2> QED
    BY <2>1, <2>2
<1>8. \A d : d # c => Same(calls', calls, d)
  BY <1>3, <1>7, SameThen
<1>9. /\ turn' \in [Conversations -> {"none", "storing", "launching", "running", "finishing"}]
      /\ turn'[c] = IF session.attached THEN "storing" ELSE "none"
      /\ \A d \in Conversations \ {c} : turn'[d] = turn[d]
  <2>1. CASE session.attached
    BY <1>1, <2>1, RunnerTypes
  <2>2. CASE ~session.attached
    BY <1>1, <1>4, <2>2, RunnerTypes
  <2> QED
    BY <2>1, <2>2
<1>10. \A d \in Conversations \ {c} : Kept(d)
  BY <1>1, <1>8, <1>9 DEF Kept
<1>11. OnlyOfCreated'
  BY <1>1, <1>2, <1>3, <1>7 DEF OnlyOfCreated
<1>12. CallsAt(c)'
  <2>1. \A kind \in Kinds \ {"list", "create", "append"} : ~Has(calls', kind, c)
    BY <1>5, <1>7
  <2>2. Has(calls', "append", c) => session.attached
    BY <1>5, <1>7, WorkKinds
  <2>3. \A kind \in {"restart", "saveStep", "finish", "remove"} : ~Has(calls', kind, c)
    BY <2>1, WorkKinds
  <2> QED
    BY <1>1, <1>9, <2>2, <2>3 DEF CallsAt
<1>13. StoreAt(c)'
  <2>1. BothFailed => BothFailed'
    BY <1>1 DEF BothFailed
  <2> QED
    BY <1>1, <1>2, <1>4, <1>9, <2>1 DEF StoreAt
<1>14. StepsAt(c)'
  BY <1>9 DEF StepsAt
<1>15. CASE session.followed = NoConversation
  <2>1. session.live = NoStep /\ session.shown = << >> /\ ~session.activity
    BY <1>2, <1>15 DEF SessionInStep, ShowsOnlyTheFollowed, ViewAssumption
  <2>2. /\ adopted.followed = c /\ adopted.live = NoStep /\ adopted.shown = << >>
        /\ ~adopted.activity /\ adopted.busy = session.busy /\ adopted.attached = session.attached
        /\ adopted \in [attached : BOOLEAN, followed : created' \cup {NoConversation},
                        busy : BOOLEAN, activity : BOOLEAN, live : StepStates, shown : Seq(Rows)]
    BY <1>1, <1>2, <1>15, <2>1 DEF SessionType
  <2> HIDE DEF adopted
  <2>3. /\ session' \in [attached : BOOLEAN, followed : created' \cup {NoConversation},
                         busy : BOOLEAN, activity : BOOLEAN, live : StepStates, shown : Seq(Rows)]
        /\ session'.followed = c /\ session'.live = NoStep /\ session'.shown = << >>
        /\ ~session'.activity /\ session'.attached = session.attached
        /\ ~session.attached => ~session'.busy
    BY <1>1, <2>2
  <2>4. session.attached => SessionAt(c)' /\ IsBusy(c)'
    BY <1>9 DEF SessionAt, IsBusy
  <2>5. SessionPart'
    <3>1. CASE session.attached
      <4>1. \A i \in DOMAIN session'.shown : session'.shown[i].conversation = c
        BY <2>3
      <4> QED
        BY <1>4, <2>3, <2>4, <3>1, <4>1, SessionOf
    <3>2. CASE ~session.attached
      BY <1>4, <2>3, <3>2 DEF SessionPart, SessionInStep, ShowsOnlyTheFollowed, NeverStuckBusy
    <3> QED
      BY <3>1, <3>2
  <2>6. TypeOK'
    <3>1. TypeOK
      BY DEF IInv
    <3> QED
      BY <1>1, <1>7, <1>9, <2>3, <3>1 DEF TypeOK, CallType
  <2>7. CallsInStep' /\ StoreInStep' /\ StepsInStep'
    BY <1>1, <1>7, <1>10, <1>11, <1>12, <1>13, <1>14, <2>6, WorkOf
  <2> QED
    BY <2>5, <2>6, <2>7, Assembled
<1>16. CASE session.followed # NoConversation
  <2>1. session.followed # c /\ session.followed \in Conversations
    BY <1>1, <1>2, <1>16 DEF SessionType
  <2>2. adopted = session
    BY <1>2, <1>16 DEF SessionType
  <2> HIDE DEF adopted
  <2>3. session' = session
    BY <1>1, <1>2, <2>1, <2>2 DEF SessionType
  <2>4. SessionPart'
    BY <1>1, <1>10, <1>16, <2>1, <2>3, SessionKept
  <2>5. TypeOK'
    <3>1. TypeOK
      BY DEF IInv
    <3> QED
      BY <1>1, <1>7, <1>9, <2>3, <3>1 DEF TypeOK, CallType
  <2>6. CallsInStep' /\ StoreInStep' /\ StepsInStep'
    BY <1>1, <1>7, <1>10, <1>11, <1>12, <1>13, <1>14, <2>5, WorkOf
  <2> QED
    BY <2>4, <2>5, <2>6, Assembled
<1> QED
  BY <1>15, <1>16

-----------------------------------------------------------------------------
LEMMA StutterKeeps ==
  ASSUME ViewAssumption, IInv, UNCHANGED vars
  PROVE  IInv'
<1>1. /\ UNCHANGED <<rows, created, turn, told, removing, session, failed, calls, turns, edits>>
  BY DEF vars, storeVars, runnerVars, counters
<1>2. calls \in Seq(CallType) /\ Once(calls) /\ OnlyOfCreated
  BY Invariants
<1>3. OnlyOfCreated'
  BY <1>1, <1>2 DEF OnlyOfCreated
<1> QED
  BY <1>1, <1>2, <1>3, Bounds, SameThen, CallsOnly

LEMMA NextKeeps ==
  ASSUME ViewAssumption, IInv, Next
  PROVE  IInv'
<1>1. CASE Deliver
  BY <1>1, ListArrivesKeeps, MessagesArriveKeeps, TurnStoredKeeps, TurnAbandonedKeeps,
     TurnConcludedKeeps, StepSavedKeeps, RemovedKeeps, RenamedKeeps, CreationFailedKeeps,
     CreatedKeeps
  DEF Deliver
<1>2. CASE Runner
  BY <1>2, BeginKeeps, ConcludeKeeps, LaunchFailsKeeps, StepToldKeeps DEF Runner
<1>3. CASE User
  BY <1>3, DetachKeeps, AttachKeeps, SendNewKeeps, SendRefusedKeeps, RunTurnKeeps,
     SetConversationKeeps, RemoveKeeps, RenameKeeps
  DEF User
<1> QED
  BY <1>1, <1>2, <1>3 DEF Next

LEMMA InitHolds ==
  ASSUME ViewAssumption, Init
  PROVE  IInv
<1>1. PICK kept \in {{}} \cup {{c} : c \in Conversations} :
        /\ created = kept
        /\ rows = [c \in Conversations |->
                    IF c \in kept THEN <<Row(c, "Failed", NoStep)>> ELSE << >>]
  BY DEF Init
<1>2. /\ calls = << >> \o ListCall /\ failed = {} /\ removing = {}
      /\ turn = [c \in Conversations |-> "none"] /\ told = [c \in Conversations |-> NoStep]
      /\ session = [attached |-> TRUE, followed |-> NoConversation, busy |-> FALSE,
                    activity |-> FALSE, live |-> NoStep, shown |-> << >>]
      /\ turns = 0 /\ edits = 0
  BY DEF Init, ListCall
<1>3. << >> \in Seq(CallType) /\ << >> \in Seq(Rows)
  OBVIOUS
<1>4. ~(\E kind, c : Has(<< >>, kind, c)) /\ Once(<< >>)
  BY DEF Has, Once
<1>5. /\ calls \in Seq(CallType) /\ Once(calls)
      /\ \A kind, c : Has(calls, kind, c) => kind = "list"
  BY <1>2, <1>3, <1>4, Lists
<1>6. ASSUME NEW c \in Conversations
      PROVE  /\ rows[c] \in Seq(Rows)
             /\ \A i \in DOMAIN rows[c] : rows[c][i] = Row(c, "Failed", NoStep)
  <2>1. Row(c, "Failed", NoStep) \in Rows
    BY KindsAre, RowTypes
  <2>2. CASE c \in kept
    <3>1. rows[c] = <<Row(c, "Failed", NoStep)>>
      BY <1>1, <2>2
    <3> QED
      BY <2>1, <3>1
  <2>3. CASE c \notin kept
    <3>1. rows[c] = << >>
      BY <1>1, <2>3
    <3> QED
      BY <1>3, <3>1
  <2> QED
    BY <2>2, <2>3
<1>7. rows \in [Conversations -> Seq(Rows)]
  BY <1>1, <1>6
<1>8. TypeOK
  <2>1. created \subseteq Conversations
    BY <1>1
  <2>2. failed \subseteq Kinds /\ removing \subseteq created
    BY <1>2
  <2>3. /\ turn \in [Conversations -> {"none", "storing", "launching", "running", "finishing"}]
        /\ told \in [Conversations -> StepStates]
    BY <1>2, KindsAre
  <2>4. session \in [attached : BOOLEAN, followed : created \cup {NoConversation},
                     busy : BOOLEAN, activity : BOOLEAN, live : StepStates, shown : Seq(Rows)]
    BY <1>2, <1>3, KindsAre
  <2>5. turns \in 0..MaxTurns /\ edits \in 0..MaxEdits
    BY <1>2 DEF ViewAssumption
  <2> QED
    BY <1>5, <1>7, <2>1, <2>2, <2>3, <2>4, <2>5 DEF TypeOK, CallType
<1>9. CallsInStep
  <2>1. ASSUME NEW c \in Conversations \cup {NoConversation} PROVE CallsAt(c)
    BY <1>5 DEF CallsAt
  <2> QED
    BY <1>5, <2>1 DEF CallsInStep
<1>10. StoreInStep
  <2> SUFFICES ASSUME NEW c \in Conversations PROVE StoreAt(c)
    BY DEF StoreInStep
  <2>1. \A i \in DOMAIN rows[c] : rows[c][i].conversation = c /\ rows[c][i].status = "Failed"
    BY <1>6, KindsAre, RowTypes
  <2>2. turn[c] = "none"
    BY <1>2
  <2> QED
    BY <2>1, <2>2 DEF StoreAt
<1>11. StepsInStep
  BY <1>2 DEF StepsInStep, StepsAt
<1>12. SessionInStep /\ ShowsOnlyTheFollowed /\ NeverStuckBusy
  BY <1>2, KindsAre DEF SessionInStep, ShowsOnlyTheFollowed, NeverStuckBusy
<1> QED
  BY <1>8, <1>9, <1>10, <1>11, <1>12 DEF IInv

LEMMA Invariant == Spec => []IInv
<1>1. Init => IInv
  BY ViewAssumption, InitHolds
<1>2. IInv /\ [Next]_vars => IInv'
  BY ViewAssumption, NextKeeps, StutterKeeps
<1> QED
  BY <1>1, <1>2, PTL DEF Spec

(* Every variable but the two lists keeps its type.                         *)
THEOREM TypeCorrect == Spec => []TypeOK
<1>1. IInv => TypeOK
  BY DEF IInv
<1> QED
  BY <1>1, Invariant, PTL

(* Whatever answers arrive late, a session shows rows of the conversation   *)
(* it follows alone, and the live step is one of that conversation's turn   *)
(* (chatsession.cpp:41, 224, 257-275).                                      *)
THEOREM ShowsFollowed == Spec => []ShowsOnlyTheFollowed
<1>1. IInv => ShowsOnlyTheFollowed
  BY DEF IInv
<1> QED
  BY <1>1, Invariant, PTL

(* What the invariant says of a session that has read its messages.         *)
LEMMA ReadSession ==
  ASSUME ViewAssumption, IInv
  PROVE  ShowsTheConversation
<1> PICK c : c = session.followed
  OBVIOUS
<1> SUFFICES ASSUME session.attached, c # NoConversation, ~Pending("messages", c)
             PROVE  /\ ~IsBusy(c) => session.shown = rows[c]
                    /\ ~IsBusy(c) /\ ~({"finish", "saveStep"} \subseteq failed) => ~session.activity
                    /\ turn[c] = "running" /\ "saveStep" \notin failed =>
                         /\ RunningRows(session.shown) # {}
                         /\ session.shown[RunningRow(session.shown)].step = told[c]
                         /\ session.activity = (told[c] = "Running")
  BY DEF ShowsTheConversation
<1>1. SessionAt(c) /\ session.shown \in Seq(Rows) /\ ~Has(calls, "messages", c)
  BY Invariants, PendingIs DEF SessionInStep, SessionType
<1>2. ~IsBusy(c) => session.shown = rows[c] /\ (BothFailed \/ ~session.activity)
  BY <1>1 DEF SessionAt, IsBusy
<1>3. turn[c] = "running" /\ "saveStep" \notin failed =>
        /\ LastRunning(session.shown)
        /\ session.shown[Len(session.shown)].step = told[c]
        /\ session.activity = (told[c] = "Running")
  BY <1>1 DEF SessionAt
<1>4. LastRunning(session.shown) =>
        RunningRows(session.shown) # {} /\ RunningRow(session.shown) = Len(session.shown)
  BY <1>1, LastRunningRow
<1> QED
  BY <1>2, <1>3, <1>4 DEF BothFailed

(* A session that is not waiting for messages shows what is stored, and the *)
(* step its running turn has told, whichever of the signal, the step's save *)
(* and the read came first (chatsession.cpp:247-277, 351-371).              *)
THEOREM ShowsConversation == Spec => []ShowsTheConversation
<1>1. IInv => ShowsTheConversation
  BY ViewAssumption, ReadSession
<1> QED
  BY <1>1, Invariant, PTL

(* A busy session waits for something that will make it idle, as long as no *)
(* removal has failed (chatsession.cpp:117-125, 244, 274, 286-296,          *)
(* 365-371).                                                                *)
THEOREM NeverBusyForGood == Spec => []NeverStuckBusy
<1>1. IInv => NeverStuckBusy
  BY DEF IInv
<1> QED
  BY <1>1, Invariant, PTL

-----------------------------------------------------------------------------
(* Recursion: natural numbers are reached one by one, and so are the values *)
(* of a function that is defined by recursion over them.                    *)

LEMMA LeastOf ==
  ASSUME NEW S, S \subseteq Nat, S # {}
  PROVE  \E n \in S : \A m \in S : n <= m
<1> DEFINE R == OpToRel(<, Nat)
<1>1. IsWellFoundedOn(R, Nat)
  BY NatLessThanWellFounded
<1>2. \A x, y \in Nat : x < y => <<x, y>> \in R
  BY DEF OpToRel
<1> HIDE DEF R
<1>3. PICK x \in S : \A y \in S : ~ (<<y, x>> \in R)
  BY <1>1, WFMin
<1>4. \A y \in S : ~(y < x)
  BY <1>2, <1>3
<1> QED
  BY <1>4

LEMMA Induction ==
  ASSUME NEW S, 0 \in S, \A n \in Nat : n \in S => n + 1 \in S
  PROVE  Nat \subseteq S
<1> SUFFICES ASSUME Nat \ S # {} PROVE FALSE
  OBVIOUS
<1>1. PICK n \in Nat \ S : \A m \in Nat \ S : n <= m
  BY LeastOf
<1> QED
  BY <1>1

(* Step i takes what may have been reached after i - 1 steps to what may be *)
(* reached after i; and f lists what n such steps have made of `first`.     *)
Leads(F, T, n) == \A i \in 1..n : \A x \in T[i - 1] : F[i][x] \in T[i]
IsRun(f, F, T, first, n) ==
  /\ f = [i \in 0..n |-> f[i]]
  /\ f[0] = first
  /\ \A i \in 0..n : f[i] \in T[i]
  /\ \A i \in 1..n : f[i] = F[i][f[i - 1]]

LEMMA RunExists ==
  ASSUME NEW n \in Nat, NEW F, NEW T, NEW first \in T[0], Leads(F, T, n)
  PROVE  \E f : IsRun(f, F, T, first, n)
<1> DEFINE Reached == {m \in Nat : m <= n => \E f : IsRun(f, F, T, first, m)}
<1>1. 0 \in Reached
  <2> DEFINE f == [i \in 0..0 |-> first]
  <2>1. IsRun(f, F, T, first, 0)
    BY DEF IsRun
  <2> QED
    BY <2>1
<1>2. ASSUME NEW m \in Nat, m \in Reached PROVE m + 1 \in Reached
  <2> SUFFICES ASSUME m + 1 <= n PROVE \E f : IsRun(f, F, T, first, m + 1)
    OBVIOUS
  <2>1. PICK f : IsRun(f, F, T, first, m)
    BY <1>2
  <2> DEFINE g == [i \in 0..m + 1 |-> IF i = m + 1 THEN F[m + 1][f[m]] ELSE f[i]]
  <2>2. f[m] \in T[m] /\ m + 1 \in 1..n
    BY <2>1 DEF IsRun
  <2>3. F[m + 1][f[m]] \in T[m + 1]
    BY <2>2 DEF Leads
  <2>4. g = [i \in 0..m + 1 |-> g[i]]
    OBVIOUS
  <2>5. g[m + 1] = F[m + 1][f[m]] /\ \A i \in 0..m : g[i] = f[i]
    OBVIOUS
  <2> HIDE DEF g
  <2>6. ASSUME NEW i \in 1..m + 1 PROVE g[i] = F[i][g[i - 1]]
    <3>1. i - 1 \in 0..m /\ g[i - 1] = f[i - 1]
      BY <2>5
    <3>2. CASE i = m + 1
      BY <2>5, <3>1, <3>2
    <3>3. CASE i \in 1..m
      <4>1. f[i] = F[i][f[i - 1]]
        BY <2>1, <3>3 DEF IsRun
      <4>2. g[i] = f[i]
        BY <2>5, <3>3
      <4> QED
        BY <3>1, <4>1, <4>2
    <3> QED
      BY <3>2, <3>3
  <2>7. ASSUME NEW i \in 0..m + 1 PROVE g[i] \in T[i]
    BY <2>1, <2>3, <2>5 DEF IsRun
  <2>8. g[0] = first
    BY <2>1, <2>5 DEF IsRun
  <2> QED
    BY <2>4, <2>6, <2>7, <2>8 DEF IsRun
<1>3. Nat \subseteq Reached
  <2> HIDE DEF Reached
  <2> QED
    BY <1>1, <1>2, Induction
<1> QED
  BY <1>3

(* Functions that satisfy the same recursion are equal. *)
LEMMA SameRun ==
  ASSUME NEW n \in Nat, NEW f, NEW g,
         g[0] = f[0], \A i \in 1..n : g[i - 1] = f[i - 1] => g[i] = f[i]
  PROVE  \A i \in 0..n : g[i] = f[i]
<1> DEFINE Alike == {i \in Nat : i <= n => g[i] = f[i]}
<1>1. 0 \in Alike
  OBVIOUS
<1>2. ASSUME NEW i \in Nat, i \in Alike PROVE i + 1 \in Alike
  <2> SUFFICES ASSUME i + 1 <= n PROVE g[i + 1] = f[i + 1]
    OBVIOUS
  <2>1. i + 1 \in 1..n /\ (i + 1) - 1 = i
    OBVIOUS
  <2> QED
    BY <1>2, <2>1
<1>3. Nat \subseteq Alike
  <2> HIDE DEF Alike
  <2> QED
    BY <1>1, <1>2, Induction
<1> QED
  BY <1>3

-----------------------------------------------------------------------------
(* Lists of conversations, none of which is listed twice. *)

Entries == [id : Conversations, title : Nat]
Distinct(list) == \A i, j \in DOMAIN list : list[i].id = list[j].id => i = j
Listings == {list \in Seq(Entries) : Distinct(list)}
Within(list, wanted) == \A i \in DOMAIN list : Holds(wanted, list[i].id)

LEMMA RemoveAtIs ==
  ASSUME NEW S, NEW s \in Seq(S), NEW row \in 1..Len(s)
  PROVE  /\ RemoveAt(s, row) \in Seq(S)
         /\ Len(RemoveAt(s, row)) = Len(s) - 1
         /\ \A i \in 1..Len(s) - 1 :
              RemoveAt(s, row)[i] = IF i < row THEN s[i] ELSE s[i + 1]
<1> DEFINE a == SubSeq(s, 1, row - 1)
           b == SubSeq(s, row + 1, Len(s))
<1>1. /\ a \in Seq(S) /\ Len(a) = row - 1
      /\ \A i \in 1..row - 1 : a[i] = s[i]
  BY SubSeqProperties
<1>2. /\ b \in Seq(S) /\ Len(b) = Len(s) - row
      /\ \A i \in 1..Len(s) - row : b[i] = s[row + i]
  <2>1. \A i \in row + 1..Len(s) : s[i] \in S
    OBVIOUS
  <2>2. /\ b \in Seq(S) /\ Len(b) = IF row + 1 <= Len(s) THEN Len(s) - (row + 1) + 1 ELSE 0
        /\ \A i \in 1..Len(s) - (row + 1) + 1 : b[i] = s[row + 1 + i - 1]
    BY <2>1, SubSeqProperties
  <2> QED
    BY <2>2
<1> HIDE DEF a, b
<1>3. /\ a \o b \in Seq(S) /\ Len(a \o b) = Len(a) + Len(b)
      /\ \A i \in 1..Len(a) + Len(b) : (a \o b)[i] = IF i <= Len(a) THEN a[i] ELSE b[i - Len(a)]
  BY <1>1, <1>2, ConcatProperties
<1>4. ASSUME NEW i \in 1..Len(s) - 1
      PROVE  (a \o b)[i] = IF i < row THEN s[i] ELSE s[i + 1]
  <2>1. CASE i < row
    BY <1>1, <1>2, <1>3, <2>1
  <2>2. CASE i >= row
    <3>1. i - Len(a) \in 1..Len(s) - row /\ row + (i - Len(a)) = i + 1
      BY <1>1, <2>2
    <3>2. i \in 1..Len(a) + Len(b) /\ ~(i <= Len(a)) /\ ~(i < row)
      BY <1>1, <1>2, <2>2
    <3>3. (a \o b)[i] = b[i - Len(a)]
      BY <1>3, <3>2
    <3> QED
      BY <1>2, <3>1, <3>2, <3>3
  <2>3. i < row \/ i >= row
    OBVIOUS
  <2> QED
    BY <2>1, <2>2, <2>3
<1>5. a \o b = RemoveAt(s, row)
  BY DEF RemoveAt, a, b
<1> QED
  BY <1>1, <1>2, <1>3, <1>4, <1>5

(* Rows `r` are put into s before its row `row`. *)
LEMMA PutIs ==
  ASSUME NEW S, NEW s \in Seq(S), NEW row \in 1..Len(s) + 1, NEW r \in Seq(S)
  PROVE  LET n == SubSeq(s, 1, row - 1) \o r \o SubSeq(s, row, Len(s)) IN
         /\ n \in Seq(S)
         /\ Len(n) = Len(s) + Len(r)
         /\ \A i \in 1..Len(s) + Len(r) :
              n[i] = IF i < row THEN s[i]
                     ELSE IF i < row + Len(r) THEN r[i - row + 1] ELSE s[i - Len(r)]
<1> DEFINE a == SubSeq(s, 1, row - 1)
           b == SubSeq(s, row, Len(s))
           n == a \o r \o b
<1>1. /\ a \in Seq(S) /\ Len(a) = row - 1
      /\ \A i \in 1..row - 1 : a[i] = s[i]
  <2>1. \A i \in 1..row - 1 : s[i] \in S
    OBVIOUS
  <2>2. /\ a \in Seq(S) /\ Len(a) = IF 1 <= row - 1 THEN row - 1 - 1 + 1 ELSE 0
        /\ \A i \in 1..(row - 1) - 1 + 1 : a[i] = s[1 + i - 1]
    BY <2>1, SubSeqProperties
  <2> QED
    BY <2>2
<1>2. /\ b \in Seq(S) /\ Len(b) = Len(s) - row + 1
      /\ \A i \in 1..Len(s) - row + 1 : b[i] = s[row + i - 1]
  <2>1. \A i \in row..Len(s) : s[i] \in S
    OBVIOUS
  <2>2. /\ b \in Seq(S) /\ Len(b) = IF row <= Len(s) THEN Len(s) - row + 1 ELSE 0
        /\ \A i \in 1..Len(s) - row + 1 : b[i] = s[row + i - 1]
    BY <2>1, SubSeqProperties
  <2> QED
    BY <2>2
<1> HIDE DEF a, b
<1> DEFINE m == a \o r
<1>3. /\ m \in Seq(S) /\ Len(m) = Len(a) + Len(r)
      /\ \A i \in 1..Len(a) + Len(r) : m[i] = IF i <= Len(a) THEN a[i] ELSE r[i - Len(a)]
  BY <1>1, ConcatProperties
<1> HIDE DEF m
<1>4. /\ m \o b \in Seq(S) /\ Len(m \o b) = Len(m) + Len(b)
      /\ \A i \in 1..Len(m) + Len(b) : (m \o b)[i] = IF i <= Len(m) THEN m[i] ELSE b[i - Len(m)]
  <2>1. m \in Seq(S) /\ b \in Seq(S)
    BY <1>2, <1>3
  <2> QED
    BY <2>1, ConcatProperties
<1>5. Len(r) \in Nat /\ Len(s) \in Nat
  OBVIOUS
<1>6. ASSUME NEW i \in 1..Len(s) + Len(r)
      PROVE  (m \o b)[i] = IF i < row THEN s[i]
                           ELSE IF i < row + Len(r) THEN r[i - row + 1] ELSE s[i - Len(r)]
  <2>1. CASE i < row
    <3>1. i \in 1..Len(m) + Len(b) /\ i <= Len(m) /\ i \in 1..Len(a) + Len(r) /\ i <= Len(a)
      <4>1. /\ Len(a) = row - 1 /\ Len(m) = Len(a) + Len(r) /\ Len(b) = Len(s) - row + 1
        BY <1>1, <1>2, <1>3
      <4>2. row \in Nat /\ i \in Nat /\ 1 <= i /\ i <= Len(s) + Len(r) /\ row <= Len(s) + 1
        BY <1>5
      <4> QED
        BY <1>5, <2>1, <4>1, <4>2
    <3>2. (m \o b)[i] = m[i] /\ m[i] = a[i]
      BY <1>3, <1>4, <3>1
    <3>3. a[i] = s[i]
      BY <1>1, <2>1
    <3> QED
      BY <2>1, <3>2, <3>3
  <2>2. CASE i >= row /\ i < row + Len(r)
    <3>1. (m \o b)[i] = m[i]
      BY <1>1, <1>2, <1>3, <1>4, <1>5, <2>2
    <3>2. m[i] = r[i - Len(a)] /\ i - Len(a) = i - row + 1
      BY <1>1, <1>3, <1>5, <2>2
    <3> QED
      BY <2>2, <3>1, <3>2
  <2>3. CASE i >= row + Len(r)
    <3>1. (m \o b)[i] = b[i - Len(m)]
      BY <1>1, <1>2, <1>3, <1>4, <1>5, <2>3
    <3>2. i - Len(m) \in 1..Len(s) - row + 1 /\ row + (i - Len(m)) - 1 = i - Len(r)
      BY <1>1, <1>3, <1>5, <2>3
    <3>3. b[i - Len(m)] = s[i - Len(r)]
      BY <1>2, <3>2
    <3> QED
      BY <1>5, <2>3, <3>1, <3>3
  <2>4. i < row \/ (i >= row /\ i < row + Len(r)) \/ i >= row + Len(r)
    BY <1>5
  <2> QED
    BY <2>1, <2>2, <2>3, <2>4
<1>7. m \o b = n
  BY DEF m
<1>8. Len(m \o b) = Len(s) + Len(r)
  BY <1>1, <1>2, <1>3, <1>4, <1>5
<1> QED
  BY <1>4, <1>6, <1>7, <1>8 DEF a, b

(* What putting rows into a list or taking one out of it does to what it    *)
(* holds.                                                                   *)
LEMMA RemovedIs ==
  ASSUME NEW list \in Listings, NEW row \in DOMAIN list
  PROVE  /\ RemoveAt(list, row) \in Listings
         /\ \A id : Holds(RemoveAt(list, row), id) <=> Holds(list, id) /\ id # list[row].id
<1>1. list \in Seq(Entries) /\ row \in 1..Len(list) /\ DOMAIN list = 1..Len(list) /\ Len(list) \in Nat
  BY DEF Listings
<1> DEFINE n == RemoveAt(list, row)
<1>2. /\ n \in Seq(Entries) /\ Len(n) = Len(list) - 1
      /\ \A i \in 1..Len(list) - 1 : n[i] = IF i < row THEN list[i] ELSE list[i + 1]
  BY <1>1, RemoveAtIs
<1>3. DOMAIN n = 1..Len(list) - 1
  BY <1>2
<1> HIDE DEF n
<1> DEFINE At(i) == IF i < row THEN i ELSE i + 1
<1>4. \A i \in DOMAIN n : At(i) \in DOMAIN list /\ At(i) # row /\ n[i] = list[At(i)]
  BY <1>1, <1>2, <1>3
<1>5. \A i, j \in DOMAIN n : At(i) = At(j) => i = j
  BY <1>1, <1>3
<1> HIDE DEF At
<1>6. Distinct(list)
  BY DEF Listings
<1>7. Distinct(n)
  BY <1>4, <1>5, <1>6 DEF Distinct
<1>8. ASSUME NEW id PROVE Holds(n, id) => Holds(list, id) /\ id # list[row].id
  BY <1>1, <1>4, <1>6 DEF Distinct, Holds
<1>9. ASSUME NEW id, Holds(list, id), id # list[row].id PROVE Holds(n, id)
  <2>1. PICK i \in DOMAIN list : list[i].id = id /\ i # row
    BY <1>9 DEF Holds
  <2>2. CASE i < row
    BY <1>1, <1>2, <1>3, <2>1, <2>2 DEF Holds
  <2>3. CASE i > row
    <3>1. i - 1 \in DOMAIN n /\ n[i - 1] = list[i]
      BY <1>1, <1>2, <1>3, <2>3
    <3> QED
      BY <2>1, <3>1 DEF Holds
  <2> QED
    BY <1>1, <2>1, <2>2, <2>3
<1> QED
  BY <1>2, <1>7, <1>8, <1>9 DEF Listings, n

(* removeMissing(), when the last `done` rows have been looked at. *)
Looked(list, wanted, done) ==
  {x \in Listings : /\ Len(list) - done <= Len(x)
                    /\ \A i \in 1..Len(list) - done : x[i] = list[i]
                    /\ \A i \in DOMAIN x : i > Len(list) - done => Holds(wanted, x[i].id)}

LEMMA LooksAtOne ==
  ASSUME NEW list \in Listings, NEW wanted, NEW done \in 1..Len(list),
         NEW x \in Looked(list, wanted, done - 1)
  PROVE  WithoutMissing(x, wanted, Len(list) + 1 - done) \in Looked(list, wanted, done)
<1> DEFINE row == Len(list) + 1 - done
<1>1. /\ list \in Seq(Entries) /\ x \in Seq(Entries) /\ x \in Listings /\ Len(list) \in Nat
      /\ Len(x) \in Nat /\ DOMAIN x = 1..Len(x)
  BY DEF Listings, Looked
<1>2. /\ row \in 1..Len(list) /\ row - 1 = Len(list) - done /\ row = Len(list) - (done - 1)
      /\ row <= Len(x) /\ row \in DOMAIN x
  BY <1>1 DEF Looked
<1>3. (\A i \in 1..row : x[i] = list[i]) /\ \A i \in DOMAIN x : i > row => Holds(wanted, x[i].id)
  BY <1>2 DEF Looked
<1>4. ASSUME NEW n \in Listings, row - 1 <= Len(n), \A i \in 1..row - 1 : n[i] = x[i],
             \A i \in DOMAIN n : i > row - 1 => Holds(wanted, n[i].id)
      PROVE  n \in Looked(list, wanted, done)
  <2>1. \A i \in 1..row - 1 : n[i] = list[i]
    BY <1>2, <1>3, <1>4
  <2> HIDE DEF row
  <2> QED
    BY <1>2, <1>4, <2>1 DEF Looked
<1> HIDE DEF row
<1>5. CASE Holds(wanted, x[row].id)
  <2>1. \A i \in DOMAIN x : i > row - 1 => Holds(wanted, x[i].id)
    BY <1>1, <1>2, <1>3, <1>5
  <2>2. x \in Looked(list, wanted, done)
    BY <1>1, <1>2, <1>4, <2>1
  <2> QED
    BY <1>5, <2>2 DEF WithoutMissing, row
<1>6. CASE ~Holds(wanted, x[row].id)
  <2> DEFINE n == RemoveAt(x, row)
  <2>1. n \in Listings
    BY <1>1, <1>2, RemovedIs
  <2>2. /\ n \in Seq(Entries) /\ Len(n) = Len(x) - 1
        /\ \A i \in 1..Len(x) - 1 : n[i] = IF i < row THEN x[i] ELSE x[i + 1]
    BY <1>1, <1>2, RemoveAtIs
  <2>3. DOMAIN n = 1..Len(x) - 1
    BY <2>2
  <2> HIDE DEF n
  <2>4. row - 1 <= Len(n) /\ \A i \in 1..row - 1 : n[i] = x[i]
    BY <1>1, <1>2, <2>2
  <2>5. ASSUME NEW i \in DOMAIN n, i > row - 1 PROVE Holds(wanted, n[i].id)
    <3>1. i + 1 \in DOMAIN x /\ i + 1 > row /\ n[i] = x[i + 1]
      BY <1>1, <1>2, <2>2, <2>3, <2>5
    <3> QED
      BY <1>3, <3>1
  <2>6. n \in Looked(list, wanted, done)
    BY <1>4, <2>1, <2>4, <2>5
  <2> QED
    BY <1>6, <2>6 DEF WithoutMissing, row, n
<1> QED
  BY <1>5, <1>6

LEMMA RemovesMissing ==
  ASSUME NEW list \in Listings, NEW wanted
  PROVE  RemoveMissing(list, wanted) \in Listings /\ Within(RemoveMissing(list, wanted), wanted)
<1> DEFINE removed[done \in 0..Len(list)] ==
             IF done = 0 THEN list
             ELSE WithoutMissing(removed[done - 1], wanted, Len(list) + 1 - done)
           n == Len(list)
           T == [done \in 0..n |-> Looked(list, wanted, done)]
           F == [done \in 1..n |->
                  [x \in Looked(list, wanted, done - 1) |-> WithoutMissing(x, wanted, n + 1 - done)]]
<1>1. n \in Nat /\ list \in Seq(Entries) /\ DOMAIN list = 1..n
  BY DEF Listings
<1>2. list \in T[0]
  <2>1. list \in Looked(list, wanted, 0)
    BY <1>1 DEF Looked
  <2> QED
    BY <1>1, <2>1
<1>3. Leads(F, T, n)
  <2> SUFFICES ASSUME NEW done \in 1..n, NEW x \in T[done - 1] PROVE F[done][x] \in T[done]
    BY DEF Leads
  <2>1. done - 1 \in 0..n /\ done \in 0..n
    BY <1>1
  <2>2. x \in Looked(list, wanted, done - 1)
    BY <2>1
  <2>3. WithoutMissing(x, wanted, n + 1 - done) \in Looked(list, wanted, done)
    BY <2>2, LooksAtOne
  <2> QED
    BY <2>1, <2>2, <2>3
<1>4. \E f : IsRun(f, F, T, list, n)
  <2> HIDE DEF F, T, n
  <2> QED
    BY <1>1, <1>2, <1>3, RunExists
<1>5. PICK f : IsRun(f, F, T, list, n)
  BY <1>4
<1>6. ASSUME NEW done \in 1..n
      PROVE  /\ done - 1 \in 0..n
             /\ f[done] = WithoutMissing(f[done - 1], wanted, n + 1 - done)
  <2>1. done - 1 \in 0..n
    BY <1>1
  <2>2. f[done - 1] \in T[done - 1] /\ f[done] = F[done][f[done - 1]]
    BY <1>5, <2>1 DEF IsRun
  <2>3. f[done - 1] \in Looked(list, wanted, done - 1)
    BY <2>1, <2>2
  <2> QED
    BY <2>1, <2>2, <2>3
<1>7. f = [done \in 0..n |->
             IF done = 0 THEN list ELSE WithoutMissing(f[done - 1], wanted, n + 1 - done)]
  <2> HIDE DEF F, T, n
  <2>1. f = [done \in 0..n |-> f[done]] /\ f[0] = list
    BY <1>5 DEF IsRun
  <2>2. \A done \in 0..n : f[done] =
          IF done = 0 THEN list ELSE WithoutMissing(f[done - 1], wanted, n + 1 - done)
    BY <1>1, <1>6, <2>1
  <2> QED
    BY <2>1, <2>2
<1>8. removed = [done \in 0..n |->
             IF done = 0 THEN list ELSE WithoutMissing(removed[done - 1], wanted, n + 1 - done)]
  BY <1>7
<1>9. RemoveMissing(list, wanted) = removed[n]
  BY DEF RemoveMissing
<1> HIDE DEF removed, F
<1>10. removed[n] = f[n]
  <2>1. removed[0] = f[0]
    BY <1>1, <1>7, <1>8
  <2>2. ASSUME NEW done \in 1..n, removed[done - 1] = f[done - 1] PROVE removed[done] = f[done]
    <3>1. removed[done] = WithoutMissing(removed[done - 1], wanted, n + 1 - done)
      BY <1>1, <1>8
    <3> QED
      BY <1>6, <2>2, <3>1
  <2>3. \A done \in 0..n : removed[done] = f[done]
    <3> HIDE DEF n, T
    <3> QED
      BY <1>1, <2>1, <2>2, SameRun
  <2> QED
    BY <1>1, <2>3
<1>11. f[n] \in Looked(list, wanted, n)
  <2>1. f[n] \in T[n]
    BY <1>1, <1>5 DEF IsRun
  <2> QED
    BY <1>1, <2>1
<1>12. \A i \in DOMAIN f[n] : i \in Nat /\ i > 0
  BY <1>11 DEF Looked, Listings
<1> QED
  BY <1>1, <1>9, <1>10, <1>11, <1>12 DEF Looked, Within

(* arrange(), when the first `row` rows are in place. *)
InPlace(wanted, row) ==
  {x \in Listings : /\ Within(x, wanted)
                    /\ row <= Len(x)
                    /\ \A i \in 1..row : x[i].id = wanted[i].id}

(* A row is moved, which from < to leaves out. *)
LEMMA MovedIs ==
  ASSUME NEW s \in Seq(Entries), NEW from \in 1..Len(s), NEW to \in 1..from
  PROVE  /\ Moved(s, from, to) \in Seq(Entries)
         /\ Len(Moved(s, from, to)) = Len(s)
         /\ \A i \in 1..Len(s) :
              Moved(s, from, to)[i] = s[IF i = to THEN from
                                        ELSE IF to < i /\ i <= from THEN i - 1 ELSE i]
<1> DEFINE m == RemoveAt(s, from)
           r == <<s[from]>>
           n == SubSeq(m, 1, to - 1) \o r \o SubSeq(m, to, Len(m))
<1>1. /\ m \in Seq(Entries) /\ Len(m) = Len(s) - 1
      /\ \A i \in 1..Len(s) - 1 : m[i] = IF i < from THEN s[i] ELSE s[i + 1]
  BY RemoveAtIs
<1>2. r \in Seq(Entries) /\ Len(r) = 1 /\ r[1] = s[from]
  OBVIOUS
<1>3. Len(s) \in Nat /\ to \in 1..Len(m) + 1
  BY <1>1
<1>4. n = Moved(s, from, to)
  BY DEF Moved, InsertAt
<1> HIDE DEF m, r
<1>5. /\ n \in Seq(Entries) /\ Len(n) = Len(m) + Len(r)
      /\ \A i \in 1..Len(m) + Len(r) :
           n[i] = IF i < to THEN m[i] ELSE IF i < to + Len(r) THEN r[i - to + 1] ELSE m[i - Len(r)]
  BY <1>1, <1>2, <1>3, PutIs
<1> HIDE DEF n
<1>6. ASSUME NEW i \in 1..Len(s)
      PROVE  n[i] = s[IF i = to THEN from ELSE IF to < i /\ i <= from THEN i - 1 ELSE i]
  <2>1. n[i] = IF i < to THEN m[i] ELSE IF i = to THEN r[1] ELSE m[i - 1]
    BY <1>1, <1>2, <1>3, <1>5
  <2>2. CASE i < to
    BY <1>1, <1>3, <2>1, <2>2
  <2>3. CASE i = to
    BY <1>2, <2>1, <2>3
  <2>4. CASE i > to
    <3>1. i - 1 \in 1..Len(s) - 1 /\ n[i] = m[i - 1] /\ (i - 1 < from <=> i <= from) /\ (i - 1) + 1 = i
      BY <1>3, <2>1, <2>4
    <3> QED
      BY <1>1, <2>4, <3>1
  <2> QED
    BY <2>2, <2>3, <2>4
<1> QED
  BY <1>1, <1>2, <1>3, <1>4, <1>5, <1>6

(* A row that is out of place is moved to `row`. *)
LEMMA Moves ==
  ASSUME NEW wanted \in Listings, NEW row \in DOMAIN wanted, NEW x \in InPlace(wanted, row - 1),
         NEW from \in row + 1..Len(x), x[from].id = wanted[row].id
  PROVE  Moved(x, from, row) \in InPlace(wanted, row)
<1> DEFINE n == Moved(x, from, row)
           At(i) == IF i = row THEN from ELSE IF row < i /\ i <= from THEN i - 1 ELSE i
<1>1. /\ wanted \in Seq(Entries) /\ x \in Seq(Entries) /\ Len(x) \in Nat /\ Len(wanted) \in Nat
      /\ row \in 1..Len(wanted) /\ DOMAIN x = 1..Len(x) /\ Distinct(x) /\ Within(x, wanted)
      /\ from \in DOMAIN x /\ row \in 1..from
      /\ \A i \in 1..row - 1 : x[i].id = wanted[i].id
  BY DEF Listings, InPlace
<1>2. n \in Seq(Entries) /\ Len(n) = Len(x) /\ \A i \in 1..Len(x) : n[i] = x[At(i)]
  BY <1>1, MovedIs
<1>3. DOMAIN n = DOMAIN x
  BY <1>1, <1>2
<1> HIDE DEF n
<1>4. \A i \in DOMAIN x : At(i) \in DOMAIN x
  BY <1>1
<1>5. \A i, j \in DOMAIN x : At(i) = At(j) => i = j
  BY <1>1
<1>6. At(row) = from /\ \A i \in 1..row - 1 : At(i) = i /\ i \in DOMAIN x
  BY <1>1
<1>7. row \in DOMAIN x /\ \A i \in 1..row : i = row \/ i \in 1..row - 1
  BY <1>1
<1> HIDE DEF At
<1>8. Distinct(n)
  BY <1>1, <1>2, <1>3, <1>4, <1>5 DEF Distinct
<1>9. Within(n, wanted)
  BY <1>1, <1>2, <1>3, <1>4 DEF Within
<1>10. \A i \in 1..row : n[i].id = wanted[i].id
  BY <1>1, <1>2, <1>6, <1>7
<1>11. row <= Len(n)
  BY <1>1, <1>2
<1> QED
  BY <1>2, <1>8, <1>9, <1>10, <1>11 DEF Listings, InPlace, n

(* Rows that the list lacks are put in together. *)
LEMMA LastMissingIs ==
  ASSUME NEW list, NEW wanted \in Listings, NEW row \in DOMAIN wanted
  PROVE  /\ LastMissing(list, wanted, row) \in row..Len(wanted)
         /\ \A i \in row + 1..LastMissing(list, wanted, row) : ~Holds(list, wanted[i].id)
<1>1. wanted \in Seq(Entries) /\ Len(wanted) \in Nat /\ row \in 1..Len(wanted)
  BY DEF Listings
<1> DEFINE Ends == {i \in row..Len(wanted) : i < Len(wanted) => Holds(list, wanted[i + 1].id)}
<1>2. Ends \subseteq Nat /\ Len(wanted) \in Ends
  BY <1>1
<1>3. PICK last \in Ends : \A i \in Ends : last <= i
  <2> HIDE DEF Ends
  <2> QED
    BY <1>2, LeastOf
<1>4. ASSUME NEW i \in row + 1..last PROVE ~Holds(list, wanted[i].id)
  <2>1. i - 1 \in row..Len(wanted) /\ i - 1 \notin Ends /\ i - 1 < Len(wanted) /\ (i - 1) + 1 = i
    BY <1>1, <1>3
  <2> QED
    BY <2>1
<1> DEFINE Fits(l) == /\ \A i \in (row + 1)..l : ~Holds(list, wanted[i].id)
                      /\ l < Len(wanted) => Holds(list, wanted[l + 1].id)
<1>5. last \in row..Len(wanted) /\ Fits(last)
  BY <1>3, <1>4
<1>6. LastMissing(list, wanted, row) = CHOOSE l \in row..Len(wanted) : Fits(l)
  BY DEF LastMissing
<1>7. \A l : Fits(l) => \A i \in row + 1..l : ~Holds(list, wanted[i].id)
  OBVIOUS
<1> HIDE DEF Fits
<1> QED
  BY <1>5, <1>6, <1>7

LEMMA Inserts ==
  ASSUME NEW wanted \in Listings, NEW row \in DOMAIN wanted, NEW x \in InPlace(wanted, row - 1),
         ~Holds(x, wanted[row].id)
  PROVE  Inserted(x, wanted, row, LastMissing(x, wanted, row)) \in InPlace(wanted, row)
<1> DEFINE last == LastMissing(x, wanted, row)
           r == SubSeq(wanted, row, last)
           n == SubSeq(x, 1, row - 1) \o r \o SubSeq(x, row, Len(x))
<1>1. /\ wanted \in Seq(Entries) /\ x \in Seq(Entries) /\ Len(x) \in Nat /\ Len(wanted) \in Nat
      /\ row \in 1..Len(wanted) /\ DOMAIN x = 1..Len(x) /\ DOMAIN wanted = 1..Len(wanted)
      /\ Distinct(x) /\ Within(x, wanted) /\ Distinct(wanted)
      /\ row \in 1..Len(x) + 1
      /\ \A i \in 1..row - 1 : x[i].id = wanted[i].id
  BY DEF Listings, InPlace
<1>2. last \in row..Len(wanted) /\ \A i \in row + 1..last : ~Holds(x, wanted[i].id)
  BY LastMissingIs
<1>3. n = Inserted(x, wanted, row, last)
  BY DEF Inserted
<1> HIDE DEF last
<1>4. /\ r \in Seq(Entries) /\ Len(r) = last - row + 1
      /\ \A i \in 1..last - row + 1 : r[i] = wanted[row + i - 1]
  <2>1. \A i \in row..last : wanted[i] \in Entries
    BY <1>1, <1>2
  <2>2. /\ r \in Seq(Entries) /\ Len(r) = IF row <= last THEN last - row + 1 ELSE 0
        /\ \A i \in 1..last - row + 1 : r[i] = wanted[row + i - 1]
    BY <1>1, <1>2, <2>1, SubSeqProperties
  <2> QED
    BY <1>2, <2>2
<1> HIDE DEF r
<1>5. /\ n \in Seq(Entries) /\ Len(n) = Len(x) + Len(r)
      /\ \A i \in 1..Len(x) + Len(r) :
           n[i] = IF i < row THEN x[i] ELSE IF i < row + Len(r) THEN r[i - row + 1] ELSE x[i - Len(r)]
  BY <1>1, <1>4, PutIs
<1>6. DOMAIN n = 1..Len(x) + Len(r)
  BY <1>1, <1>4, <1>5
<1> HIDE DEF n
<1> DEFINE New(i) == row <= i /\ i <= last
           At(i) == IF i < row THEN i ELSE i - Len(r)
<1>7. ASSUME NEW i \in DOMAIN n, New(i)
      PROVE  i \in DOMAIN wanted /\ n[i] = wanted[i] /\ ~Holds(x, n[i].id)
  <2>1. n[i] = r[i - row + 1] /\ i - row + 1 \in 1..last - row + 1 /\ row + (i - row + 1) - 1 = i
    <3>1. i \in 1..Len(x) + Len(r) /\ row \in Nat /\ last \in Nat /\ row <= i /\ i <= last
      BY <1>1, <1>2, <1>6, <1>7
    <3>2. ~(i < row) /\ i < row + Len(r)
      BY <1>4, <3>1
    <3>3. n[i] = r[i - row + 1]
      BY <1>5, <3>1, <3>2
    <3> QED
      BY <3>1, <3>3
  <2>2. n[i] = wanted[i] /\ i \in DOMAIN wanted /\ (i = row \/ i \in row + 1..last)
    BY <1>1, <1>2, <1>4, <1>7, <2>1
  <2> QED
    BY <1>2, <2>2
<1>8. ASSUME NEW i \in DOMAIN n, ~New(i)
      PROVE  At(i) \in DOMAIN x /\ n[i] = x[At(i)]
  <2>1. i < row \/ i > last
    BY <1>1, <1>2, <1>6, <1>8
  <2>2. CASE i < row
    BY <1>1, <1>4, <1>5, <1>6, <2>2
  <2>3. CASE i > last
    <3>1. ~(i < row) /\ ~(i < row + Len(r)) /\ i \in 1..Len(x) + Len(r)
      BY <1>1, <1>2, <1>4, <1>6, <2>3
    <3>2. n[i] = x[i - Len(r)]
      BY <1>5, <3>1
    <3>3. i - Len(r) \in 1..Len(x)
      BY <1>1, <1>2, <1>4, <3>1, <2>3
    <3> QED
      BY <1>1, <3>1, <3>2, <3>3
  <2> QED
    BY <2>1, <2>2, <2>3
<1>9. ASSUME NEW i \in DOMAIN n, NEW j \in DOMAIN n, ~New(i), ~New(j), At(i) = At(j) PROVE i = j
  BY <1>1, <1>2, <1>4, <1>6, <1>9
<1>10. row \in DOMAIN n /\ New(row) /\ row <= Len(n)
       /\ \A i \in 1..row - 1 : i \in DOMAIN n /\ ~New(i) /\ At(i) = i
  BY <1>1, <1>2, <1>4, <1>5, <1>6
<1>11. \A i \in 1..row : i = row \/ i \in 1..row - 1
  BY <1>1
<1> HIDE DEF New, At
<1>12. ASSUME NEW i \in DOMAIN n, NEW j \in DOMAIN n, n[i].id = n[j].id PROVE i = j
  <2>1. CASE New(i) /\ New(j)
    BY <1>1, <1>7, <1>12, <2>1 DEF Distinct
  <2>2. CASE ~New(i) /\ ~New(j)
    BY <1>1, <1>8, <1>9, <1>12, <2>2 DEF Distinct
  <2>3. CASE New(i) /\ ~New(j)
    BY <1>7, <1>8, <1>12, <2>3 DEF Holds
  <2>4. CASE ~New(i) /\ New(j)
    BY <1>7, <1>8, <1>12, <2>4 DEF Holds
  <2> QED
    BY <2>1, <2>2, <2>3, <2>4
<1>13. ASSUME NEW i \in DOMAIN n PROVE Holds(wanted, n[i].id)
  <2>1. CASE New(i)
    BY <1>7, <2>1 DEF Holds
  <2>2. CASE ~New(i)
    BY <1>1, <1>8, <2>2 DEF Within
  <2> QED
    BY <2>1, <2>2
<1>14. \A i \in 1..row : n[i].id = wanted[i].id
  BY <1>1, <1>7, <1>8, <1>10, <1>11
<1> QED
  BY <1>3, <1>5, <1>10, <1>12, <1>13, <1>14 DEF Listings, InPlace, Distinct, Within, last

(* RowOf() from `row` on. *)
LEMMA RowOfIs ==
  ASSUME NEW list \in Listings, NEW id, NEW row \in Nat \ {0}
  PROVE  \/ RowOf(list, id, row) = 0 /\ \A i \in row..Len(list) : list[i].id # id
         \/ RowOf(list, id, row) \in row..Len(list) /\ list[RowOf(list, id, row)].id = id
<1> DEFINE found == {i \in row..Len(list) : list[i].id = id}
<1>1. Len(list) \in Nat
  BY DEF Listings
<1>2. CASE found = {}
  BY <1>2 DEF RowOf
<1>3. CASE found # {}
  <2>1. found \subseteq Nat
    BY <1>1
  <2>2. \E i \in found : \A j \in found : i <= j
    <3> HIDE DEF found
    <3> QED
      BY <1>3, <2>1, LeastOf
  <2>3. (CHOOSE i \in found : \A j \in found : i <= j) \in found
    <3> HIDE DEF found
    <3> QED
      BY <2>2
  <2>4. RowOf(list, id, row) = CHOOSE i \in found : \A j \in found : i <= j
    BY <1>3 DEF RowOf
  <2>5. RowOf(list, id, row) \in found
    BY <2>3, <2>4
  <2> QED
    BY <2>5
<1> QED
  BY <1>2, <1>3

LEMMA ArrangesOne ==
  ASSUME NEW wanted \in Listings, NEW row \in DOMAIN wanted, NEW x \in InPlace(wanted, row - 1)
  PROVE  Arranged(x, wanted, row) \in InPlace(wanted, row)
<1> DEFINE id == wanted[row].id
           from == RowOf(x, id, row)
<1>1. /\ x \in Listings /\ wanted \in Listings /\ row \in 1..Len(wanted) /\ row \in Nat \ {0}
      /\ Len(x) \in Nat /\ DOMAIN x = 1..Len(x) /\ DOMAIN wanted = 1..Len(wanted) /\ Len(wanted) \in Nat
      /\ Distinct(wanted) /\ Within(x, wanted) /\ \A i \in 1..row - 1 : x[i].id = wanted[i].id
  BY DEF InPlace, Listings
<1>2. \/ from = 0 /\ \A i \in row..Len(x) : x[i].id # id
      \/ from \in row..Len(x) /\ x[from].id = id
  BY <1>1, RowOfIs
<1>3. Arranged(x, wanted, row) =
        IF from = row THEN x
        ELSE IF from > row THEN Moved(x, from, row)
        ELSE Inserted(x, wanted, row, LastMissing(x, wanted, row))
  BY DEF Arranged
<1> HIDE DEF from
<1>4. CASE from = row
  <2>1. row <= Len(x) /\ x[row].id = id
    BY <1>1, <1>2, <1>4
  <2>2. \A i \in 1..row : x[i].id = wanted[i].id
    BY <1>1, <2>1
  <2>3. x \in InPlace(wanted, row)
    BY <1>1, <2>1, <2>2 DEF InPlace
  <2> QED
    BY <1>3, <1>4, <2>3
<1>5. CASE from > row
  <2>1. from \in row + 1..Len(x) /\ x[from].id = wanted[row].id
    BY <1>1, <1>2, <1>5
  <2>2. Moved(x, from, row) \in InPlace(wanted, row)
    BY <2>1, Moves
  <2> QED
    BY <1>1, <1>3, <1>5, <2>2
<1>6. CASE from = 0
  <2>1. \A i \in row..Len(x) : x[i].id # id
    BY <1>1, <1>2, <1>6
  <2>2. \A i \in 1..row - 1 : x[i].id # id
    BY <1>1 DEF Distinct
  <2>3. ~Holds(x, wanted[row].id)
    BY <1>1, <2>1, <2>2 DEF Holds
  <2>4. Inserted(x, wanted, row, LastMissing(x, wanted, row)) \in InPlace(wanted, row)
    BY <2>3, Inserts
  <2> QED
    BY <1>1, <1>3, <1>6, <2>4
<1> QED
  BY <1>1, <1>2, <1>4, <1>5, <1>6

LEMMA Arranges ==
  ASSUME NEW list \in Listings, NEW wanted \in Listings, Within(list, wanted)
  PROVE  Arrange(list, wanted) \in InPlace(wanted, Len(wanted))
<1> DEFINE arranged[row \in 0..Len(wanted)] ==
             IF row = 0 THEN list ELSE Arranged(arranged[row - 1], wanted, row)
           n == Len(wanted)
           T == [row \in 0..n |-> InPlace(wanted, row)]
           F == [row \in 1..n |-> [x \in InPlace(wanted, row - 1) |-> Arranged(x, wanted, row)]]
<1>1. n \in Nat /\ DOMAIN wanted = 1..n /\ Len(list) \in Nat
  BY DEF Listings
<1>2. list \in T[0]
  <2>1. list \in InPlace(wanted, 0)
    BY <1>1 DEF InPlace
  <2> QED
    BY <1>1, <2>1
<1>3. Leads(F, T, n)
  <2> SUFFICES ASSUME NEW row \in 1..n, NEW x \in T[row - 1] PROVE F[row][x] \in T[row]
    BY DEF Leads
  <2>1. row - 1 \in 0..n /\ row \in 0..n /\ row \in DOMAIN wanted
    BY <1>1
  <2>2. x \in InPlace(wanted, row - 1)
    BY <2>1
  <2>3. Arranged(x, wanted, row) \in InPlace(wanted, row)
    BY <2>1, <2>2, ArrangesOne
  <2> QED
    BY <2>1, <2>2, <2>3
<1>4. \E f : IsRun(f, F, T, list, n)
  <2> HIDE DEF F, T, n
  <2> QED
    BY <1>1, <1>2, <1>3, RunExists
<1>5. PICK f : IsRun(f, F, T, list, n)
  BY <1>4
<1>6. ASSUME NEW row \in 1..n
      PROVE  row - 1 \in 0..n /\ f[row] = Arranged(f[row - 1], wanted, row)
  <2>1. row - 1 \in 0..n
    BY <1>1
  <2>2. f[row - 1] \in T[row - 1] /\ f[row] = F[row][f[row - 1]]
    BY <1>5, <2>1 DEF IsRun
  <2>3. f[row - 1] \in InPlace(wanted, row - 1)
    BY <2>1, <2>2
  <2> QED
    BY <2>1, <2>2, <2>3
<1>7. f = [row \in 0..n |-> IF row = 0 THEN list ELSE Arranged(f[row - 1], wanted, row)]
  <2> HIDE DEF F, T, n
  <2>1. f = [row \in 0..n |-> f[row]] /\ f[0] = list
    BY <1>5 DEF IsRun
  <2>2. \A row \in 0..n :
          f[row] = IF row = 0 THEN list ELSE Arranged(f[row - 1], wanted, row)
    <3>1. \A row \in 0..n : row = 0 \/ row \in 1..n
      BY <1>1
    <3> QED
      BY <1>6, <2>1, <3>1
  <2> QED
    BY <2>1, <2>2
<1>8. arranged =
        [row \in 0..n |-> IF row = 0 THEN list ELSE Arranged(arranged[row - 1], wanted, row)]
  BY <1>7
<1>9. Arrange(list, wanted) = arranged[n]
  BY DEF Arrange
<1> HIDE DEF arranged, F
<1>10. arranged[n] = f[n]
  <2>1. arranged[0] = f[0]
    BY <1>1, <1>7, <1>8
  <2>2. ASSUME NEW row \in 1..n, arranged[row - 1] = f[row - 1] PROVE arranged[row] = f[row]
    <3>1. arranged[row] = Arranged(arranged[row - 1], wanted, row)
      BY <1>1, <1>8
    <3> QED
      BY <1>6, <2>2, <3>1
  <2>3. \A row \in 0..n : arranged[row] = f[row]
    <3> HIDE DEF n, T
    <3> QED
      BY <1>1, <2>1, <2>2, SameRun
  <2> QED
    BY <1>1, <2>3
<1>11. f[n] \in InPlace(wanted, n)
  <2>1. f[n] \in T[n]
    BY <1>1, <1>5 DEF IsRun
  <2> QED
    BY <1>1, <2>1
<1> QED
  BY <1>9, <1>10, <1>11

(* Whatever list is shown, the updates of the model make it the wanted one. *)
LEMMA UpdatedIs ==
  ASSUME NEW list \in Listings, NEW wanted \in Listings
  PROVE  Updated(list, wanted) = wanted
<1> DEFINE x == Arrange(RemoveMissing(list, wanted), wanted)
<1>1. x \in InPlace(wanted, Len(wanted))
  BY RemovesMissing, Arranges
<1> HIDE DEF x
<1>2. /\ x \in Seq(Entries) /\ Distinct(x) /\ Within(x, wanted) /\ Len(x) \in Nat
      /\ wanted \in Seq(Entries) /\ Len(wanted) \in Nat /\ DOMAIN wanted = 1..Len(wanted)
      /\ DOMAIN x = 1..Len(x) /\ Len(wanted) <= Len(x)
      /\ \A i \in 1..Len(wanted) : x[i].id = wanted[i].id
  BY <1>1 DEF InPlace, Listings
<1>3. ASSUME Len(wanted) < Len(x) PROVE FALSE
  <2>1. Len(wanted) + 1 \in DOMAIN x
    BY <1>2, <1>3
  <2>2. PICK i \in DOMAIN wanted : wanted[i].id = x[Len(wanted) + 1].id
    BY <1>2, <2>1 DEF Within, Holds
  <2>3. i \in DOMAIN x /\ i # Len(wanted) + 1 /\ x[i].id = x[Len(wanted) + 1].id
    BY <1>2, <2>2
  <2> QED
    BY <1>2, <2>1, <2>3 DEF Distinct
<1>4. DOMAIN x = DOMAIN wanted
  <2>1. ~(Len(wanted) < Len(x)) /\ Len(x) \in Nat /\ Len(wanted) \in Nat /\ Len(wanted) <= Len(x)
    BY <1>2, <1>3
  <2>2. Len(x) = Len(wanted)
    BY <2>1
  <2> QED
    BY <1>2, <2>2
<1>5. Updated(list, wanted) = [row \in DOMAIN wanted |-> wanted[row]]
  BY <1>4 DEF Updated, RefreshChanged, x
<1>6. wanted = [row \in DOMAIN wanted |-> wanted[row]]
  BY <1>2
<1> QED
  BY <1>5, <1>6

(* The store's list of conversations. *)
LEMMA OthersAre ==
  ASSUME order \in Listings, NEW c
  PROVE  /\ Others(c) \in Listings
         /\ \A id : Holds(Others(c), id) <=> Holds(order, id) /\ id # c
<1>1. Len(order) \in Nat /\ DOMAIN order = 1..Len(order)
  BY DEF Listings
<1>2. CASE Exists(c)
  <2> DEFINE row == RowOf(order, c, 1)
  <2>1. \/ row = 0 /\ \A i \in 1..Len(order) : order[i].id # c
        \/ row \in 1..Len(order) /\ order[row].id = c
    BY RowOfIs
  <2> HIDE DEF row
  <2>2. row \in DOMAIN order /\ order[row].id = c
    BY <1>1, <1>2, <2>1 DEF Exists, Holds
  <2>3. RemoveAt(order, row) \in Listings
    BY <2>2, RemovedIs
  <2>4. \A id : Holds(RemoveAt(order, row), id) <=> Holds(order, id) /\ id # order[row].id
    BY <2>2, RemovedIs
  <2> QED
    BY <1>2, <2>2, <2>3, <2>4 DEF Others, row
<1>3. CASE ~Exists(c)
  <2>1. Others(c) = order
    BY <1>3 DEF Others
  <2> QED
    BY <1>3, <2>1 DEF Exists
<1> QED
  BY <1>2, <1>3

LEMMA PutFirst ==
  ASSUME NEW list \in Listings, NEW e \in Entries, ~Holds(list, e.id)
  PROVE  /\ <<e>> \o list \in Listings
         /\ \A id : Holds(<<e>> \o list, id) <=> id = e.id \/ Holds(list, id)
<1> DEFINE n == <<e>> \o list
<1>1. /\ list \in Seq(Entries) /\ Len(list) \in Nat /\ DOMAIN list = 1..Len(list) /\ Distinct(list)
  BY DEF Listings
<1>2. /\ n \in Seq(Entries) /\ Len(n) = Len(list) + 1 /\ n[1] = e
      /\ \A i \in 1..Len(list) : n[i + 1] = list[i]
  BY <1>1
<1>3. DOMAIN n = 1..Len(list) + 1
  BY <1>1, <1>2
<1> HIDE DEF n
<1>4. \A i \in DOMAIN n : i = 1 \/ (i - 1 \in DOMAIN list /\ n[i] = list[i - 1])
  BY <1>1, <1>2, <1>3
<1>5. \A i \in DOMAIN list : i + 1 \in DOMAIN n /\ n[i + 1] = list[i]
  BY <1>1, <1>2, <1>3
<1>6. ASSUME NEW i \in DOMAIN n, NEW j \in DOMAIN n, n[i].id = n[j].id PROVE i = j
  <2>1. CASE i = 1 /\ j # 1
    BY <1>2, <1>4, <1>6, <2>1 DEF Holds
  <2>2. CASE i # 1 /\ j = 1
    BY <1>2, <1>4, <1>6, <2>2 DEF Holds
  <2>3. CASE i # 1 /\ j # 1
    <3>1. i - 1 \in DOMAIN list /\ j - 1 \in DOMAIN list /\ list[i - 1].id = list[j - 1].id
      BY <1>4, <1>6, <2>3
    <3>2. i - 1 = j - 1
      BY <1>1, <3>1 DEF Distinct
    <3> QED
      BY <1>3, <3>2
  <2> QED
    BY <2>1, <2>2, <2>3
<1>7. 1 \in DOMAIN n
  BY <1>1, <1>3
<1>8. ASSUME NEW id PROVE Holds(n, id) <=> id = e.id \/ Holds(list, id)
  <2>1. ASSUME Holds(n, id), id # e.id PROVE Holds(list, id)
    <3>1. PICK i \in DOMAIN n : n[i].id = id
      BY <2>1 DEF Holds
    <3>2. i - 1 \in DOMAIN list /\ n[i] = list[i - 1]
      BY <1>2, <1>4, <2>1, <3>1
    <3> QED
      BY <3>1, <3>2 DEF Holds
  <2>2. Holds(list, id) => Holds(n, id)
    BY <1>5 DEF Holds
  <2>3. Holds(n, e.id)
    BY <1>2, <1>7 DEF Holds
  <2> QED
    BY <2>1, <2>2, <2>3
<1> QED
  BY <1>2, <1>6, <1>8 DEF Listings, Distinct, n

LEMMA TouchedIs ==
  ASSUME order \in Listings, NEW c, Exists(c), Touches(c)
  PROVE  order' \in Listings /\ \A id : Holds(order', id) <=> Holds(order, id)
<1>1. order \in Seq(Entries)
  BY DEF Listings
<1>2. PICK i \in DOMAIN order : order[i].id = c
  BY DEF Exists, Holds
<1>3. order[i] \in {order[j] : j \in DOMAIN order}
  OBVIOUS
<1>4. Entry(c) \in {order[j] : j \in DOMAIN order} /\ Entry(c).id = c
  BY <1>2, <1>3 DEF Entry
<1>5. Entry(c) \in Entries
  BY <1>1, <1>4
<1>6. Others(c) \in Listings /\ \A id : Holds(Others(c), id) <=> Holds(order, id) /\ id # c
  BY OthersAre
<1>7. order' = <<Entry(c)>> \o Others(c)
  BY DEF Touches
<1>8. \A id : Holds(order', id) <=> id = c \/ Holds(Others(c), id)
  BY <1>4, <1>5, <1>6, <1>7, PutFirst
<1>9. order' \in Listings
  BY <1>4, <1>5, <1>6, <1>7, PutFirst
<1> QED
  BY <1>6, <1>8, <1>9 DEF Exists

LEMMA RetitledIs ==
  ASSUME order \in Listings, NEW c \in Conversations
  PROVE  Retitled(c) \in Listings /\ \A id : Holds(Retitled(c), id) <=> Holds(order, id)
<1>1. order \in Seq(Entries) /\ DOMAIN order = 1..Len(order) /\ Len(order) \in Nat /\ Distinct(order)
  BY DEF Listings
<1>2. \A i \in DOMAIN order : order[i] \in Entries /\ order[i].title + 1 \in Nat
  <2>1. \A i \in DOMAIN order : order[i] \in Entries
    BY <1>1
  <2>2. \A e \in Entries : e.title \in Nat
    BY DEF Entries
  <2> QED
    BY <2>1, <2>2
<1>3. DOMAIN Retitled(c) = DOMAIN order
  BY DEF Retitled
<1>4. ASSUME NEW i \in DOMAIN order
      PROVE  Retitled(c)[i] \in Entries /\ Retitled(c)[i].id = order[i].id
  <2>1. Retitled(c)[i] = IF order[i].id = c THEN [id |-> c, title |-> order[i].title + 1] ELSE order[i]
    BY DEF Retitled
  <2> QED
    BY <1>2, <2>1 DEF Entries
<1>5. Retitled(c) \in Seq(Entries)
  <2>1. Retitled(c) = [i \in 1..Len(order) |-> Retitled(c)[i]]
    BY <1>1 DEF Retitled
  <2>2. Retitled(c) \in [1..Len(order) -> Entries]
    BY <1>1, <1>4, <2>1
  <2> QED
    BY <1>1, <2>2
<1>6. Distinct(Retitled(c))
  BY <1>1, <1>3, <1>4 DEF Distinct
<1>7. \A id : Holds(Retitled(c), id) <=> Holds(order, id)
  BY <1>3, <1>4 DEF Holds
<1> QED
  BY <1>5, <1>6, <1>7 DEF Listings

-----------------------------------------------------------------------------
(* Whether the list will be read again. *)
AsksList(s) == \E i \in DOMAIN s : s[i].kind = "list"
AtWork == {"launching", "running", "finishing"}

Due ==
  \/ AsksList(calls)
  \/ \E c \in Conversations : turn[c] # "none" \/ (Exists(c) /\ rows[c] = << >>)

(* The list shows the stored conversations, or it will be read again; for   *)
(* that the conversations of a turn that has been stored have to stay.      *)
ListInStep ==
  /\ order \in Listings
  /\ listed \in Listings
  /\ \A c : Exists(c) => c \in created
  /\ \A c \in Conversations : /\ c \notin created => rows[c] = << >>
                              /\ turn[c] \in AtWork => Exists(c)
  /\ listed = order \/ Due

LEMMA Asks ==
  ASSUME NEW s \in Seq(CallType), NEW t \in Seq(CallType)
  PROVE  /\ AsksList(s) \/ AsksList(t) => AsksList(s \o t)
         /\ s # << >> /\ Head(s).kind # "list" /\ AsksList(s) => AsksList(Tail(s))
         /\ \A k \in CallType : AsksList(s) => AsksList(Append(s, k))
<1>1. AsksList(s) => AsksList(s \o t)
  <2>1. \A i \in DOMAIN s : i \in DOMAIN (s \o t) /\ (s \o t)[i] = s[i]
    OBVIOUS
  <2> QED
    BY <2>1 DEF AsksList
<1>2. AsksList(t) => AsksList(s \o t)
  <2>1. \A i \in DOMAIN t : Len(s) + i \in DOMAIN (s \o t) /\ (s \o t)[Len(s) + i] = t[i]
    OBVIOUS
  <2> QED
    BY <2>1 DEF AsksList
<1>3. ASSUME s # << >>, Head(s).kind # "list", AsksList(s) PROVE AsksList(Tail(s))
  <2>1. PICK i \in DOMAIN s : s[i].kind = "list"
    BY <1>3 DEF AsksList
  <2>2. i # 1
    BY <1>3, <2>1
  <2>3. i - 1 \in DOMAIN Tail(s) /\ Tail(s)[i - 1] = s[i]
    BY <1>3, <2>2
  <2> QED
    BY <2>1, <2>3 DEF AsksList
<1>4. ASSUME NEW k \in CallType, AsksList(s) PROVE AsksList(Append(s, k))
  <2>1. \A i \in DOMAIN s : i \in DOMAIN Append(s, k) /\ Append(s, k)[i] = s[i]
    OBVIOUS
  <2> QED
    BY <1>4, <2>1 DEF AsksList
<1> QED
  BY <1>1, <1>2, <1>3, <1>4

LEMMA ListCallIs ==
  ListCall \in Seq(CallType) /\ AsksList(ListCall) /\ << >> \in Seq(CallType)
<1>1. Call("list", NoConversation) \in CallType /\ Call("list", NoConversation).kind = "list"
  BY KindsAre, CallTypes
<1> QED
  BY <1>1 DEF ListCall, AsksList

LEMMA ReloadIs ==
  ASSUME NEW x, x.followed \in Conversations \cup {NoConversation}
  PROVE  Reload(x) \in Seq(CallType)
<1>1. Call("messages", x.followed) \in CallType
  BY KindsAre, CallTypes
<1> QED
  BY <1>1 DEF Reload

(* Upon a signal of the runner the list is read again. *)
LEMMA SignalsAsk ==
  ASSUME ViewAssumption, NEW c \in Conversations
  PROVE  /\ ListCall \o Reloads(c) \in Seq(CallType)
         /\ AsksList(ListCall \o Reloads(c))
<1>1. Reloads(c) \in Seq(CallType)
  <2>1. CASE Follows(c)
    <3>1. session.followed = c
      BY <2>1 DEF Follows
    <3> QED
      BY <2>1, <3>1, ReloadIs DEF Reloads
  <2>2. CASE ~Follows(c)
    BY <2>2, ListCallIs DEF Reloads
  <2> QED
    BY <2>1, <2>2
<1>2. /\ ListCall \in Seq(CallType) /\ AsksList(ListCall)
      /\ ListCall \o Reloads(c) \in Seq(CallType)
  BY <1>1, ListCallIs
<1> QED
  BY <1>1, <1>2, Asks

(* Neither list is touched, and a list that was to be read still is. *)
LEMMA ListKept ==
  ASSUME IInv, ListInStep, UNCHANGED <<order, listed, created>>,
         AsksList(calls) => AsksList(calls'),
         \A c \in Conversations : /\ turn[c] # "none" => turn'[c] # "none"
                                  /\ turn'[c] \in AtWork => turn[c] \in AtWork
                                  /\ rows'[c] = << >> <=> rows[c] = << >>
  PROVE  ListInStep'
<1>1. \A c : Exists(c)' <=> Exists(c)
  BY DEF Exists, Holds
<1>2. Due => Due'
  BY <1>1 DEF Due
<1> QED
  BY <1>1, <1>2 DEF ListInStep

(* The stored list is touched, and the list will be read. *)
LEMMA ListDue ==
  ASSUME ListInStep, order' \in Listings, listed' = listed,
         \A c : Exists(c)' => c \in created',
         \A c \in Conversations : /\ c \notin created' => rows'[c] = << >>
                                  /\ turn'[c] \in AtWork => Exists(c)',
         Due'
  PROVE  ListInStep'
BY DEF ListInStep

LEMMA ListTypes ==
  ASSUME ViewAssumption, IInv, ListInStep
  PROVE  /\ calls \in Seq(CallType) /\ created \subseteq Conversations
         /\ turn \in [Conversations -> {"none", "storing", "launching", "running", "finishing"}]
         /\ rows \in [Conversations -> Seq(Rows)]
         /\ session.followed \in Conversations \cup {NoConversation}
         /\ order \in Listings /\ listed \in Listings
BY Invariants, RunnerTypes DEF ListInStep, SessionType

LEMMA ListAnswered ==
  ASSUME ViewAssumption, IInv, NEW kind, Answered(kind)
  PROVE  /\ Rest \in Seq(CallType)
         /\ kind # "list" /\ AsksList(calls) => AsksList(Rest)
         /\ kind \in Kinds \ {"list", "create"} => Subject \in created /\ Subject \in Conversations
<1>1. calls \in Seq(CallType) /\ calls # << >> /\ Head(calls).kind = kind
  BY Invariants DEF Answered
<1>2. kind # "list" /\ AsksList(calls) => AsksList(Rest)
  BY <1>1, Asks DEF Rest
<1> QED
  BY <1>2, AnsweredIs

(* The list is read: it becomes what is stored. *)
LEMMA ListReadKeeps ==
  ASSUME ListInStep, ListArrives
  PROVE  ListInStep'
<1>1. UNCHANGED <<order, rows, created, turn>> /\ listed' = Updated(listed, order)
  BY DEF ListArrives, storeVars, runnerVars
<1>2. order \in Listings /\ listed \in Listings
  BY DEF ListInStep
<1>3. listed' = order
  BY <1>1, <1>2, UpdatedIs
<1>4. \A c : Exists(c)' <=> Exists(c)
  BY <1>1 DEF Exists, Holds
<1> QED
  BY <1>1, <1>2, <1>3, <1>4 DEF ListInStep

LEMMA MessagesKeepList ==
  ASSUME ViewAssumption, IInv, ListInStep, MessagesArrive
  PROVE  ListInStep'
<1>1. /\ Answered("messages") /\ calls' = Rest
      /\ UNCHANGED <<order, listed, created, rows, turn>>
  BY DEF MessagesArrive, storeVars, runnerVars
<1>2. AsksList(calls) => AsksList(calls')
  BY <1>1, ListAnswered
<1> QED
  BY <1>1, <1>2, ListKept

LEMMA StoredKeepsList ==
  ASSUME ViewAssumption, IInv, ListInStep, TurnStored
  PROVE  ListInStep'
<1> PICK c : c = Subject
  OBVIOUS
<1>1. /\ Exists(c) /\ Touches(c) /\ turn' = [turn EXCEPT ![c] = "launching"]
      /\ created' = created /\ listed' = listed
      /\ Answered("append") \/ Answered("restart")
      /\ \/ rows' = [rows EXCEPT ![c] = Append(@, Row(c, "Running", NoStep))]
         \/ rows' = WithLast(c, Row(c, "Running", NoStep))
  BY DEF TurnStored
<1>2. c \in created /\ c \in Conversations
  BY <1>1, KindsAre, ListAnswered
<1>3. order' \in Listings /\ \A id : Holds(order', id) <=> Holds(order, id)
  BY <1>1, ListTypes, TouchedIs
<1>4. \A d : Exists(d)' <=> Exists(d)
  BY <1>3 DEF Exists
<1>5. \A d \in Conversations : d # c => rows'[d] = rows[d] /\ turn'[d] = turn[d]
  BY <1>1, <1>2, ListTypes DEF WithLast
<1>6. turn'[c] = "launching"
  BY <1>1, <1>2, ListTypes
<1>7. Due'
  BY <1>2, <1>6 DEF Due
<1> QED
  BY <1>1, <1>2, <1>3, <1>4, <1>5, <1>7, ListDue DEF ListInStep

(* A turn is over, and the list is read again. *)
LEMMA FinishAsks ==
  ASSUME ViewAssumption, IInv, ListInStep, NEW c \in Conversations,
         NEW rest \in Seq(CallType), Finish(c, rest)
  PROVE  /\ AsksList(calls') /\ created' = created /\ listed' = listed
         /\ turn' = [turn EXCEPT ![c] = "none"]
         /\ \A d \in Conversations : turn'[d] \in AtWork => turn[d] \in AtWork /\ d # c
<1> DEFINE signal == ListCall \o Reloads(c)
           last == IF c \in removing THEN <<Call("remove", c)>> ELSE << >>
<1>1. /\ calls' = (rest \o signal) \o last /\ created' = created /\ listed' = listed
      /\ turn' = [turn EXCEPT ![c] = "none"]
  BY DEF Finish, TurnFinished
<1>2. last \in Seq(CallType)
  <2>1. Call("remove", c) \in CallType
    BY KindsAre, CallTypes
  <2> QED
    BY <2>1, ListCallIs
<1>3. signal \in Seq(CallType) /\ AsksList(signal)
  BY SignalsAsk
<1> HIDE DEF signal, last
<1>4. rest \o signal \in Seq(CallType) /\ AsksList(rest \o signal)
  BY <1>3, Asks
<1>5. AsksList((rest \o signal) \o last)
  BY <1>2, <1>4, Asks
<1>6. \A d \in Conversations : turn'[d] \in AtWork => turn[d] \in AtWork /\ d # c
  BY <1>1, ListTypes DEF AtWork
<1> QED
  BY <1>1, <1>5, <1>6

LEMMA FinishKeepsList ==
  ASSUME ViewAssumption, IInv, ListInStep, NEW c \in Conversations,
         NEW rest \in Seq(CallType), Finish(c, rest),
         order' \in Listings, \A id : Holds(order', id) <=> Holds(order, id),
         \A d \in Conversations : d \notin created => rows'[d] = rows[d]
  PROVE  ListInStep'
<1>1. /\ AsksList(calls') /\ created' = created /\ listed' = listed
      /\ \A d \in Conversations : turn'[d] \in AtWork => turn[d] \in AtWork
  BY FinishAsks
<1>2. \A d : Exists(d)' <=> Exists(d)
  BY DEF Exists
<1>3. Due'
  BY <1>1 DEF Due
<1> QED
  BY <1>1, <1>2, <1>3, ListDue DEF ListInStep

LEMMA LaunchFailsKeepsList ==
  ASSUME ViewAssumption, IInv, ListInStep, NEW c \in Conversations, LaunchFails(c)
  PROVE  ListInStep'
BY ListTypes, FinishKeepsList DEF LaunchFails

LEMMA AbandonedKeepsList ==
  ASSUME ViewAssumption, IInv, ListInStep, TurnAbandoned
  PROVE  ListInStep'
<1>1. /\ Answered("append") \/ Answered("restart")
      /\ Finish(Subject, Rest) /\ order' = order /\ rows' = rows
  BY DEF TurnAbandoned
<1>2. Subject \in Conversations /\ Rest \in Seq(CallType)
  BY <1>1, KindsAre, ListAnswered
<1> QED
  BY <1>1, <1>2, ListTypes, FinishKeepsList

LEMMA ConcludedKeepsList ==
  ASSUME ViewAssumption, IInv, ListInStep, TurnConcluded
  PROVE  ListInStep'
<1> PICK c : c = Subject
  OBVIOUS
<1>1. /\ Answered("finish") /\ Finish(c, Rest)
      /\ \/ UNCHANGED <<order, rows>>
         \/ Touches(c) /\ \E row : rows' = WithLast(c, row)
  BY DEF TurnConcluded
<1>2. c \in created /\ c \in Conversations /\ Rest \in Seq(CallType)
  BY <1>1, KindsAre, ListAnswered
<1>3. Exists(c)
  <2>1. turn[c] = "finishing"
    <3>1. Has(calls, "finish", c) /\ CallsAt(c)
      BY <1>1, <1>2, AnsweredIs, Invariants
    <3> QED
      BY <3>1 DEF CallsAt
  <2> QED
    BY <1>2, <2>1 DEF ListInStep, AtWork
<1>4. order' \in Listings /\ \A id : Holds(order', id) <=> Holds(order, id)
  BY <1>1, <1>3, ListTypes, TouchedIs
<1>5. \A d \in Conversations : d # c => rows'[d] = rows[d]
  BY <1>1, ListTypes DEF WithLast
<1> QED
  BY <1>1, <1>2, <1>4, <1>5, FinishKeepsList

LEMMA SavedKeepsList ==
  ASSUME ViewAssumption, IInv, ListInStep, StepSaved
  PROVE  ListInStep'
<1> PICK c : c = Subject
  OBVIOUS
<1>1. /\ Answered("saveStep") /\ calls' = Rest /\ UNCHANGED <<order, listed, created, turn>>
      /\ rows' = rows \/ \E status, step : rows' = WithLast(c, Row(c, status, step))
  BY DEF StepSaved, runnerVars
<1>2. c \in Conversations /\ (AsksList(calls) => AsksList(calls'))
  BY <1>1, KindsAre, ListAnswered
<1>3. \A d \in Conversations : rows'[d] = << >> <=> rows[d] = << >>
  <2>1. CASE rows' = rows
    BY <2>1
  <2>2. CASE rows' # rows
    <3>1. PICK row : rows' = [rows EXCEPT ![c] = [rows[c] EXCEPT ![Len(rows[c])] = row]]
      BY <1>1, <2>2 DEF WithLast
    <3>2. rows[c] \in Seq(Rows)
      BY <1>2, ListTypes
    <3>3. DOMAIN rows'[c] = DOMAIN rows[c]
      BY <1>2, <3>1, ListTypes
    <3>4. rows[c] # << >> /\ rows'[c] # << >>
      <4>1. Has(calls, "saveStep", c) /\ CallsAt(c) /\ StoreAt(c)
        BY <1>1, <1>2, AnsweredIs, Invariants
      <4>2. rows[c] # << >>
        BY <4>1 DEF CallsAt, StoreAt, LastRunning
      <4>3. 1 \in DOMAIN rows[c]
        BY <3>2, <4>2
      <4> QED
        BY <3>3, <4>2, <4>3
    <3>5. \A d \in Conversations : d # c => rows'[d] = rows[d]
      BY <3>1, ListTypes
    <3> QED
      BY <3>4, <3>5
  <2> QED
    BY <2>1, <2>2
<1> QED
  BY <1>1, <1>2, <1>3, ListKept

LEMMA RemovedKeepsList ==
  ASSUME ViewAssumption, IInv, ListInStep, Removed
  PROVE  ListInStep'
<1> PICK c : c = Subject
  OBVIOUS
<1>1. /\ Answered("remove") /\ UNCHANGED <<created, turn, listed>>
      /\ \/ calls' = Rest /\ UNCHANGED <<order, rows>>
         \/ /\ order' = Others(c)
            /\ rows' = [rows EXCEPT ![c] = << >>]
            /\ calls' = Rest \o ListCall
  BY DEF Removed
<1>2. /\ c \in Conversations /\ Rest \in Seq(CallType)
      /\ AsksList(calls) => AsksList(Rest)
  BY <1>1, KindsAre, ListAnswered
<1>3. CASE calls' = Rest /\ UNCHANGED <<order, rows>>
  BY <1>1, <1>2, <1>3, ListKept
<1>4. CASE order' = Others(c) /\ rows' = [rows EXCEPT ![c] = << >>] /\ calls' = Rest \o ListCall
  <2>1. AsksList(calls')
    BY <1>2, <1>4, ListCallIs, Asks
  <2>2. order' \in Listings /\ \A d : Exists(d)' <=> Exists(d) /\ d # c
    BY <1>4, ListTypes, OthersAre DEF Exists
  <2>3. turn[c] = "none"
    <3>1. Has(calls, "remove", c) /\ CallsAt(c)
      BY <1>1, <1>2, AnsweredIs, Invariants
    <3> QED
      BY <3>1 DEF CallsAt
  <2>4. \A d \in Conversations : rows'[d] = rows[d] \/ rows'[d] = << >>
    BY <1>4, ListTypes
  <2>5. \A d \in Conversations : turn'[d] \in AtWork => turn[d] \in AtWork /\ d # c
    BY <1>1, <2>3 DEF AtWork
  <2>6. Due'
    BY <2>1 DEF Due
  <2> QED
    BY <1>1, <2>2, <2>4, <2>5, <2>6, ListDue DEF ListInStep
<1> QED
  BY <1>1, <1>3, <1>4

LEMMA RenamedKeepsList ==
  ASSUME ViewAssumption, IInv, ListInStep, Renamed
  PROVE  ListInStep'
<1> PICK c : c = Subject
  OBVIOUS
<1>1. /\ Answered("rename") /\ UNCHANGED <<rows, created, turn, listed>>
      /\ \/ calls' = Rest /\ order' = order
         \/ order' = Retitled(c) /\ calls' = Rest \o ListCall
  BY DEF Renamed, runnerVars
<1>2. /\ c \in Conversations /\ Rest \in Seq(CallType)
      /\ AsksList(calls) => AsksList(Rest)
  BY <1>1, KindsAre, ListAnswered
<1>3. CASE calls' = Rest /\ order' = order
  BY <1>1, <1>2, <1>3, ListKept
<1>4. CASE order' = Retitled(c) /\ calls' = Rest \o ListCall
  <2>1. AsksList(calls')
    BY <1>2, <1>4, ListCallIs, Asks
  <2>2. order' \in Listings /\ \A d : Exists(d)' <=> Exists(d)
    BY <1>2, <1>4, ListTypes, RetitledIs DEF Exists
  <2>3. Due'
    BY <2>1 DEF Due
  <2> QED
    BY <1>1, <2>2, <2>3, ListDue DEF ListInStep
<1> QED
  BY <1>1, <1>3, <1>4

LEMMA CreationFailedKeepsList ==
  ASSUME ViewAssumption, IInv, ListInStep, CreationFailed
  PROVE  ListInStep'
<1>1. /\ Answered("create") /\ calls' = Rest
      /\ UNCHANGED <<order, listed, created, rows, turn>>
  BY DEF CreationFailed, runnerVars
<1>2. AsksList(calls) => AsksList(calls')
  BY <1>1, ListAnswered
<1> QED
  BY <1>1, <1>2, ListKept

(* Nothing has been stored of a conversation that is created, and the list  *)
(* is read again once its turn has been.                                    *)
LEMMA CreatedKeepsList ==
  ASSUME ViewAssumption, IInv, ListInStep, NEW c \in Conversations, Created(c)
  PROVE  ListInStep'
<1> DEFINE e == [id |-> c, title |-> 0]
<1>1. /\ c \notin created /\ created' = created \cup {c} /\ order' = <<e>> \o order
      /\ UNCHANGED <<rows, listed>>
      /\ turn' = [turn EXCEPT ![c] = "storing"] \/ turn' = turn
  BY DEF Created
<1>2. e \in Entries /\ e.id = c
  BY DEF Entries
<1> HIDE DEF e
<1>3. ~Holds(order, c)
  BY <1>1 DEF ListInStep, Exists
<1>4. order' \in Listings
  BY <1>1, <1>2, <1>3, ListTypes, PutFirst
<1>5. \A d : Holds(order', d) <=> d = c \/ Holds(order, d)
  BY <1>1, <1>2, <1>3, ListTypes, PutFirst
<1>6. \A d : Exists(d)' <=> d = c \/ Exists(d)
  BY <1>5 DEF Exists
<1>7. \A d \in Conversations : turn'[d] \in AtWork => turn[d] \in AtWork
  BY <1>1, ListTypes DEF AtWork
<1>8. rows'[c] = << >>
  BY <1>1 DEF ListInStep
<1>9. Due'
  BY <1>6, <1>8 DEF Due
<1> QED
  BY <1>1, <1>4, <1>6, <1>7, <1>9, ListDue DEF ListInStep

(* The runner and the user touch neither list.                              *)
LEMMA RunnerKeepsList ==
  ASSUME ViewAssumption, IInv, ListInStep, Runner
  PROVE  ListInStep'
<1> PICK c \in Conversations :
      Begin(c) \/ Conclude(c) \/ LaunchFails(c) \/ \E step \in {"Running", "Ok"} : StepTold(c, step)
  BY DEF Runner
<1>1. CASE Begin(c)
  <2>1. /\ turn[c] = "launching" /\ turn' = [turn EXCEPT ![c] = "running"]
        /\ calls' = calls \o (ListCall \o Reloads(c))
        /\ UNCHANGED <<order, listed, created, rows>>
    BY <1>1 DEF Begin, TurnStarted, storeVars
  <2>2. AsksList(calls')
    BY <2>1, ListTypes, SignalsAsk, Asks
  <2>3. \A d \in Conversations : /\ turn[d] # "none" => turn'[d] # "none"
                                 /\ turn'[d] \in AtWork => turn[d] \in AtWork
    BY <2>1, ListTypes DEF AtWork
  <2> QED
    BY <2>1, <2>2, <2>3, ListKept
<1>2. CASE Conclude(c)
  <2>1. /\ turn[c] = "running" /\ turn' = [turn EXCEPT ![c] = "finishing"]
        /\ calls' = Append(calls, Call("finish", c))
        /\ UNCHANGED <<order, listed, created, rows>>
    BY <1>2 DEF Conclude, storeVars
  <2>2. AsksList(calls) => AsksList(calls')
    BY <2>1, KindsAre, CallTypes, ListTypes, Asks
  <2>3. \A d \in Conversations : /\ turn[d] # "none" => turn'[d] # "none"
                                 /\ turn'[d] \in AtWork => turn[d] \in AtWork
    BY <2>1, ListTypes DEF AtWork
  <2> QED
    BY <2>1, <2>2, <2>3, ListKept
<1>3. CASE LaunchFails(c)
  BY <1>3, LaunchFailsKeepsList
<1>4. CASE \E step \in {"Running", "Ok"} : StepTold(c, step)
  <2>1. PICK step \in {"Running", "Ok"} : StepTold(c, step)
    BY <1>4
  <2>2. /\ calls' = Append(calls, [Call("saveStep", c) EXCEPT !.step = step])
        /\ UNCHANGED <<order, listed, created, rows, turn>>
    BY <2>1 DEF StepTold, storeVars
  <2>3. [Call("saveStep", c) EXCEPT !.step = step] \in CallType
    BY KindsAre DEF Call, CallType
  <2>4. AsksList(calls) => AsksList(calls')
    BY <2>2, <2>3, ListTypes, Asks
  <2> QED
    BY <2>2, <2>4, ListKept
<1> QED
  BY <1>1, <1>2, <1>3, <1>4

LEMMA UserKeepsList ==
  ASSUME ViewAssumption, IInv, ListInStep, User
  PROVE  ListInStep'
<1>1. UNCHANGED <<order, listed, created, rows>>
  BY DEF User, Detach, Attach, SendNew, SendRefused, RunTurn, SetConversation,
         RemoveConversation, RenameConversation, storeVars
<1>2. AsksList(calls) => AsksList(calls')
  <2>1. CASE calls' = calls
    BY <2>1
  <2>2. CASE \E k \in CallType : calls' = Append(calls, k)
    BY <2>2, ListTypes, Asks
  <2>3. CASE calls' = calls \o Reload(session')
    <3>1. session'.followed \in Conversations \cup {NoConversation}
      <4>1. IInv'
        BY NextKeeps DEF Next
      <4>2. TypeOK'
        BY <4>1 DEF IInv
      <4> QED
        BY <4>2 DEF TypeOK
    <3> QED
      BY <2>3, <3>1, ListTypes, ReloadIs, Asks
  <2>4. \/ calls' = calls
        \/ calls' = calls \o Reload(session')
        \/ \E k \in CallType : calls' = Append(calls, k)
    <3>1. CASE Detach \/ SendRefused
      BY <3>1 DEF Detach, SendRefused
    <3>2. CASE Attach \/ \E c \in created \cup {NoConversation} : SetConversation(c)
      BY <3>2 DEF Attach, SetConversation
    <3>3. CASE SendNew
      <4>1. Call("create", NoConversation) \in CallType
        BY KindsAre, CallTypes
      <4> QED
        BY <3>3, <4>1 DEF SendNew
    <3>4. CASE \E kind \in {"append", "restart"} : RunTurn(kind)
      <4>1. PICK kind \in {"append", "restart"} : RunTurn(kind)
        BY <3>4
      <4>2. Call(kind, session.followed) \in CallType
        BY KindsAre, CallTypes, ListTypes
      <4> QED
        BY <4>1, <4>2 DEF RunTurn
    <3>5. CASE \E c \in Conversations : RemoveConversation(c) \/ RenameConversation(c)
      <4>1. PICK c \in Conversations : RemoveConversation(c) \/ RenameConversation(c)
        BY <3>5
      <4>2. Call("remove", c) \in CallType /\ Call("rename", c) \in CallType
        BY KindsAre, CallTypes
      <4> QED
        BY <4>1, <4>2 DEF RemoveConversation, RenameConversation
    <3> QED
      BY <3>1, <3>2, <3>3, <3>4, <3>5 DEF User
  <2> QED
    BY <2>1, <2>2, <2>3, <2>4
<1>3. \A d \in Conversations : /\ turn[d] # "none" => turn'[d] # "none"
                               /\ turn'[d] \in AtWork => turn[d] \in AtWork
  <2>1. turn' = turn \/ \E c : turn' = [turn EXCEPT ![c] = "storing"]
    BY DEF User, Detach, Attach, SendNew, SendRefused, RunTurn, SetConversation,
           RemoveConversation, RenameConversation, runnerVars
  <2> QED
    BY <2>1, ListTypes DEF AtWork
<1> QED
  BY <1>1, <1>2, <1>3, ListKept

LEMMA NextKeepsList ==
  ASSUME ViewAssumption, IInv, ListInStep, Next
  PROVE  ListInStep'
<1>1. CASE Deliver
  BY <1>1, ListReadKeeps, MessagesKeepList, StoredKeepsList, AbandonedKeepsList,
     ConcludedKeepsList, SavedKeepsList, RemovedKeepsList, RenamedKeepsList,
     CreationFailedKeepsList, CreatedKeepsList
  DEF Deliver
<1> QED
  BY <1>1, RunnerKeepsList, UserKeepsList DEF Next

LEMMA InitLists ==
  ASSUME ViewAssumption, Init
  PROVE  ListInStep
<1>1. PICK kept \in {{}} \cup {{c} : c \in Conversations} :
        /\ created = kept
        /\ \/ kept = {} /\ order = << >>
           \/ \E c \in kept : order = <<[id |-> c, title |-> 0]>>
        /\ rows = [c \in Conversations |->
                    IF c \in kept THEN <<Row(c, "Failed", NoStep)>> ELSE << >>]
  BY DEF Init
<1>2. calls = ListCall /\ listed = << >> /\ turn = [c \in Conversations |-> "none"]
  BY DEF Init
<1>3. << >> \in Listings
  BY DEF Listings, Distinct
<1>4. order \in Listings /\ \A c : Holds(order, c) => c \in created
  <2>1. CASE order = << >>
    BY <1>3, <2>1 DEF Holds
  <2>2. CASE \E c \in kept : order = <<[id |-> c, title |-> 0]>>
    <3>1. PICK c \in kept : order = <<[id |-> c, title |-> 0]>>
      BY <2>2
    <3>2. c \in Conversations /\ [id |-> c, title |-> 0] \in Entries
      BY <1>1 DEF Entries
    <3>3. order \in Seq(Entries) /\ DOMAIN order = {1} /\ order[1].id = c
      BY <3>1, <3>2
    <3> QED
      BY <1>1, <3>3 DEF Listings, Distinct, Holds
  <2> QED
    BY <1>1, <2>1, <2>2
<1>5. \A c \in Conversations : c \notin created => rows[c] = << >>
  BY <1>1
<1>6. Due
  BY <1>2, ListCallIs DEF Due
<1> QED
  BY <1>2, <1>3, <1>4, <1>5, <1>6 DEF ListInStep, AtWork, Exists

LEMMA ListInvariant == Spec => []ListInStep
<1>1. Init => ListInStep
  BY ViewAssumption, InitLists
<1>2. IInv /\ ListInStep /\ [Next]_vars => ListInStep'
  <2> SUFFICES ASSUME IInv, ListInStep, UNCHANGED vars PROVE ListInStep'
    BY ViewAssumption, NextKeepsList
  <2>1. UNCHANGED <<order, listed, created, rows, turn, calls>>
    BY DEF vars, storeVars, runnerVars
  <2> QED
    BY <2>1, ListKept
<1> QED
  BY <1>1, <1>2, Invariant, PTL DEF Spec

(* When nothing is under way the list shows the stored conversations, in    *)
(* their order and with their titles, unless a conversation was created for *)
(* a session that has left its chat: whatever list was shown before, the    *)
(* removals, moves and insertions of the model bring it to the one that is  *)
(* read (chatconversationmodel.cpp:62-160, chat.cpp:33-36, 167-173).        *)
THEOREM ListsConversations == Spec => []ListsTheConversations
<1>1. ListInStep => ListsTheConversations
  <2> SUFFICES ASSUME ListInStep, calls = << >>,
                      \A c \in Conversations : turn[c] = "none" /\ (Exists(c) => rows[c] # << >>)
               PROVE  listed = order
    BY DEF ListsTheConversations
  <2>1. ~AsksList(calls)
    BY DEF AsksList
  <2> QED
    BY <2>1 DEF ListInStep, Due
<1> QED
  BY <1>1, ListInvariant, PTL
=============================================================================
