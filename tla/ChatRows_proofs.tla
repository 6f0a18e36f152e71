-------------------------- MODULE ChatRows_proofs --------------------------
(***************************************************************************)
(* The tables of a chat keep what ChatRows says of them.  RowsInv is the   *)
(* inductive invariant: what holds of the messages of one conversation and *)
(* of its turn, what the steps of a turn have to do with those it holds,   *)
(* and that no two turns share one.  Each call of the store keeps it.      *)
(***************************************************************************)
EXTENDS ChatRows, FiniteSetTheorems, WellFoundedInduction, TLAPS

-----------------------------------------------------------------------------
\* What is inductive of the tables of a chat.

RowIds == 1..MaxRows
MessageRows ==
  [id : RowIds, conversation : Conversations, position : Nat, role : {"User", "Assistant"},
   status : {"Complete", "Running", "Failed", "Interrupted"}, size : Nat]
StepRows ==
  [id : RowIds, message : RowIds, parent : {Nobody} \cup RowIds, status : {"Running", "Ok", "Failed"},
   position : Nat]
KnownSteps == [id : RowIds, parent : {Nobody} \cup RowIds, status : {"Running", "Ok"}]
Turns ==
  [answer : {Nobody} \cup RowIds, transcript : Seq(RowIds), marked : BOOLEAN, resumed : BOOLEAN,
   start : Nat, known : Seq(KnownSteps), missed : BOOLEAN]
Sessions ==
  {k \in [there : BOOLEAN, session : BOOLEAN, start : Nat, forgotten : BOOLEAN] :
     k.forgotten => k.there}

TypeOK ==
  rows \in [open : BOOLEAN, conversations : [Conversations -> Sessions],
            messages : SUBSET MessageRows, steps : SUBSET StepRows,
            turns : [Conversations -> Turns], seen : [Conversations -> SUBSET RowIds],
            left : SUBSET RowIds, failures : Nat, restarts : Nat]

UniqueIds(table) == \A r, s \in table : r.id = s.id => r = s

\* The places of a table count from 0 and none is taken twice.
Dense(table) ==
  /\ \E n \in Nat : {r.position : r \in table} = 0..n - 1
  /\ \A r, s \in table : r.position = s.position => r = s

\* The messages M of one conversation, its turn t, its session k and what that saw, s.

\* A question is complete when it is there, and an answer follows its question.
AnswersFollowQuestions(M) ==
  \A m \in M :
    /\ m.role = "User" => m.status = "Complete"
    /\ m.role = "Assistant" => \E q \in M : q.role = "User" /\ q.position + 1 = m.position

IsTheAnswer(M, t, a) ==
  /\ a \in M /\ a.id = t.answer /\ a.status = "Running" /\ a.role = "Assistant"
  /\ \A m \in M : m.position <= a.position

CompleteFrom(M, start) == {m \in M : IsComplete(m) /\ m.position >= start}
IdsOf(table) == {r.id : r \in table}
Begins(M, start) == \E m \in M : IsComplete(m) /\ m.position = start

NotAnswered(M) ==
  {m \in M : m.role = "User" /\
     ~\E a \in M : a.role = "Assistant" /\ IsComplete(a) /\ a.position = m.position + 1}

\* What a turn is given of the complete messages, in their order.
IsGiven(complete, transcript, marked) ==
  LET kept == TailFrom(complete, Len(complete) - Len(transcript) + 1)
  IN  /\ transcript # <<>>
      /\ Last(complete).role = "User"
      /\ [i \in 1..Len(kept) |-> kept[i].id] = transcript
      /\ marked <=> Len(complete) > Len(kept)
      /\ Len(kept) > 1 => FitsLimits(kept, Limits)

TurnIsFine(M, t) ==
  t # NoTurn =>
    /\ \E a \in M : IsTheAnswer(M, t, a)
    /\ IsGiven(CompleteMessages(M), t.transcript, t.marked)
    /\ Begins(M, t.start)
    /\ {t.transcript[i] : i \in 1..Len(t.transcript)} = IdsOf(CompleteFrom(M, t.start))

SawTail(M, start, s) ==
  /\ s \subseteq IdsOf(CompleteFrom(M, start))
  /\ IdsOf(CompleteFrom(M, start) \ NotAnswered(M)) \subseteq s

\* What runs was left so, that is, no turn goes on.
AreLeft(M, left) == \A m \in M : m.status = "Running" => m.id \in left

SessionIsFine(M, k, s, left) ==
  k.session =>
    /\ Begins(M, k.start)
    /\ ~k.forgotten /\ AreLeft(M, left) => SawTail(M, k.start, s)

\* A session that goes on has begun the answer and heard its question.
TurnSaw(M, t, k, s) ==
  t # NoTurn /\ t.resumed /\ ~k.forgotten =>
    /\ s \subseteq IdsOf(CompleteFrom(M, t.start)) \cup {t.answer}
    /\ IdsOf(CompleteFrom(M, t.start) \ NotAnswered(M)) \subseteq s
    /\ t.answer \in s
    /\ \A a, q \in M : a.id = t.answer /\ q.position + 1 = a.position => q.id \in s

ConversationIsFine(M, t, k, s, left) ==
  /\ Dense(M) /\ AnswersFollowQuestions(M)
  /\ TurnIsFine(M, t) /\ SessionIsFine(M, k, s, left) /\ TurnSaw(M, t, k, s)

StepsIn(T, message) == {s \in T : s.message = message}

\* The steps T of the messages of M.
StepsAreFine(M, T) ==
  /\ UniqueIds(T)
  /\ \A s \in T : \E m \in M : m.id = s.message
  /\ \A message \in RowIds : Dense(StepsIn(T, message))
  /\ \A s \in T : s.parent # Nobody =>
       \E p \in T : p.message = s.message /\ p.id = s.parent /\ p.position < s.position

\* The steps S of an answer are those that its turn knows.
IsMirrored(S, known) ==
  /\ \A s \in S : /\ s.position + 1 \in 1..Len(known)
                  /\ known[s.position + 1].id = s.id /\ known[s.position + 1].status = s.status
  /\ \A i \in 1..Len(known) : \E s \in S : s.position + 1 = i

KnownIsFine(T, t) ==
  /\ \A i, j \in 1..Len(t.known) : t.known[i].id = t.known[j].id => i = j
  /\ \A i \in 1..Len(t.known) : t.known[i].parent # Nobody =>
       \E j \in 1..Len(t.known) : t.known[j].id = t.known[i].parent
  /\ \A i \in 1..Len(t.known), s \in T : s.id = t.known[i].id =>
       s.message = t.answer /\ s.parent = t.known[i].parent
  /\ t # NoTurn /\ ~t.missed => IsMirrored(StepsIn(T, t.answer), t.known)

\* No two turns know a step of the same id.
KnowApart(t, u) ==
  \A i \in 1..Len(t.known), j \in 1..Len(u.known) : t.known[i].id # u.known[j].id

\* The answers that were left are running, and are those of no turn.
LeftRun(messages, left) == \A id \in left : \E m \in messages : m.id = id /\ m.status = "Running"
LeftAlone(turns, left)  == \A c \in Conversations : turns[c].answer \notin left

Attended ==
  /\ ~rows.open => \A c \in Conversations : rows.turns[c] = NoTurn
  /\ rows.open => \A m \in rows.messages : m.status = "Running" =>
       rows.turns[m.conversation].answer = m.id \/ m.id \in rows.left
  /\ LeftRun(rows.messages, rows.left) /\ LeftAlone(rows.turns, rows.left)
  /\ rows.left # {} => rows.failures > 0
  /\ \A c \in Conversations : rows.turns[c].missed => rows.failures > 0
  /\ rows.open /\ rows.failures = 0 => \A s \in rows.steps : s.status = "Running" =>
       \E m \in rows.messages : m.id = s.message /\ m.status = "Running"

RowsInv ==
  /\ TypeOK
  /\ UniqueIds(rows.messages)
  /\ \A c \in Conversations :
       ConversationIsFine(MessagesOf(c), rows.turns[c], rows.conversations[c], rows.seen[c], rows.left)
  /\ StepsAreFine(rows.messages, rows.steps)
  /\ \A c \in Conversations : KnownIsFine(rows.steps, rows.turns[c])
  /\ \A c, d \in Conversations : c # d => KnowApart(rows.turns[c], rows.turns[d])
  /\ Attended

-----------------------------------------------------------------------------
\* Tables.

LEMMA LeastOf ==
  ASSUME NEW S \in SUBSET Nat, S # {}
  PROVE  \E x \in S : \A y \in S : x <= y
PROOF
  <1>1. \E x \in S : \A y \in S : ~(<<y, x>> \in OpToRel(<, Nat))
    BY NatLessThanWellFounded, WFMin
  <1>2. \A x, y \in S : ~(<<y, x>> \in OpToRel(<, Nat)) => x <= y
    BY DEF OpToRel
  <1> QED
    BY <1>1, <1>2

LEMMA FiniteCard ==
  ASSUME NEW S, IsFiniteSet(S)
  PROVE  Cardinality(S) \in Nat
  BY FS_CardinalityType

\* A dense table has as many rows as places.
LEMMA DenseSize ==
  ASSUME NEW table, NEW n \in Nat, {r.position : r \in table} = 0..n - 1,
         \A r, s \in table : r.position = s.position => r = s
  PROVE  IsFiniteSet(table) /\ Cardinality(table) = n
PROOF
  <1> DEFINE f == [i \in 0..n - 1 |-> CHOOSE r \in table : r.position = i]
  <1>1. \A i \in 0..n - 1 : f[i] \in table /\ f[i].position = i
    <2> TAKE i \in 0..n - 1
    <2>1. \E r \in table : r.position = i
      OBVIOUS
    <2> QED
      BY <2>1
  <1>2. \A r \in table : r.position \in 0..n - 1 /\ f[r.position] = r
    <2> TAKE r \in table
    <2>1. r.position \in 0..n - 1
      OBVIOUS
    <2> QED
      BY <1>1, <2>1
  <1>3. f \in Bijection(0..n - 1, table)
    <2>1. f \in [0..n - 1 -> table]
      BY <1>1
    <2>2. \A i, j \in 0..n - 1 : f[i] = f[j] => i = j
      BY <1>1
    <2>3. \A r \in table : \E i \in 0..n - 1 : f[i] = r
      BY <1>2
    <2> HIDE DEF f
    <2> QED
      BY <2>1, <2>2, <2>3 DEF Bijection, Injection, Surjection, IsInjective
  <1>4. IsFiniteSet(0..n - 1) /\ Cardinality(0..n - 1) = n
    BY FS_Interval
  <1> HIDE DEF f
  <1> QED
    BY <1>3, <1>4, FS_Bijection DEF ExistsBijection

LEMMA DenseIs ==
  ASSUME NEW table, Dense(table)
  PROVE  /\ IsFiniteSet(table) /\ Cardinality(table) \in Nat
         /\ {r.position : r \in table} = 0..Cardinality(table) - 1
         /\ \A r \in table : r.position \in 0..Cardinality(table) - 1
         /\ \A i \in 0..Cardinality(table) - 1 : \E r \in table : r.position = i
         /\ \A r, s \in table : r.position = s.position => r = s
PROOF
  <1>1. PICK n \in Nat : {r.position : r \in table} = 0..n - 1
    BY DEF Dense
  <1>2. \A r, s \in table : r.position = s.position => r = s
    BY DEF Dense
  <1>3. IsFiniteSet(table) /\ Cardinality(table) = n
    BY <1>1, <1>2, DenseSize
  <1>4. {r.position : r \in table} = 0..Cardinality(table) - 1
    BY <1>1, <1>3
  <1> HIDE <1>1, <1>3
  <1>5. \A r \in table : r.position \in 0..Cardinality(table) - 1
    BY <1>4
  <1>6. \A i \in 0..Cardinality(table) - 1 : \E r \in table : r.position = i
    BY <1>4
  <1> QED
    BY <1>1, <1>2, <1>3, <1>4, <1>5, <1>6

\* ORDER BY: the rows of a table whose places are all different are read in their order, each once.
IsRead(table, read) ==
  /\ read \in Seq(table)
  /\ \A i, j \in 1..Len(read) : i < j => read[i].position < read[j].position
  /\ \A r \in table : \E i \in 1..Len(read) : read[i] = r

Rank(table, r) == Cardinality({s \in table : s.position < r.position})

LEMMA RankGrows ==
  ASSUME NEW table, IsFiniteSet(table), \A r \in table : r.position \in Nat,
         NEW r \in table, NEW s \in table, r.position < s.position
  PROVE  Rank(table, r) \in Nat /\ Rank(table, s) \in Nat /\ Rank(table, r) < Rank(table, s)
PROOF
  <1> DEFINE R == {q \in table : q.position < r.position}
             S == {q \in table : q.position < s.position}
  <1>1. R \subseteq S /\ r \in S /\ r \notin R
    OBVIOUS
  <1>2. IsFiniteSet(R) /\ IsFiniteSet(S)
    BY FS_Subset
  <1>3. R \in SUBSET S /\ S # R
    BY <1>1
  <1>4. Cardinality(R) <= Cardinality(S) /\ Cardinality(R) # Cardinality(S)
    <2> HIDE DEF R, S
    <2> QED
      BY <1>2, <1>3, FS_Subset
  <1>5. Cardinality(R) \in Nat /\ Cardinality(S) \in Nat
    BY <1>2, FiniteCard
  <1>6. Rank(table, r) = Cardinality(R) /\ Rank(table, s) = Cardinality(S)
    BY DEF Rank
  <1> HIDE DEF R, S
  <1> QED
    BY <1>4, <1>5, <1>6

LEMMA RankBelow ==
  ASSUME NEW table, IsFiniteSet(table), \A r \in table : r.position \in Nat, NEW r \in table
  PROVE  Rank(table, r) \in 0..Cardinality(table) - 1
PROOF
  <1> DEFINE R == {q \in table : q.position < r.position}
  <1>1. R \in SUBSET table /\ r \notin R /\ table # R
    OBVIOUS
  <1> HIDE DEF R
  <1>2. IsFiniteSet(R) /\ Cardinality(R) <= Cardinality(table) /\ Cardinality(R) # Cardinality(table)
    BY <1>1, FS_Subset
  <1>3. Cardinality(R) \in Nat /\ Cardinality(table) \in Nat
    BY <1>2, FiniteCard
  <1>4. Rank(table, r) = Cardinality(R)
    BY DEF Rank, R
  <1> QED
    BY <1>2, <1>3, <1>4

LEMMA ReadIs ==
  ASSUME NEW table, IsFiniteSet(table), \A r \in table : r.position \in Nat,
         \A r, s \in table : r.position = s.position => r = s
  PROVE  IsRead(table, Read(table)) /\ Len(Read(table)) = Cardinality(table)
PROOF
  <1> DEFINE n == Cardinality(table)
             rank == [r \in table |-> Rank(table, r)]
             read == Read(table)
  <1>1. n \in Nat
    BY FiniteCard
  <1>2. \A r, s \in table : r.position < s.position => Rank(table, r) < Rank(table, s)
    BY RankGrows
  <1>3. \A r \in table : Rank(table, r) \in 0..n - 1
    BY RankBelow
  <1>4. \A r, s \in table : Rank(table, r) = Rank(table, s) => r = s
    <2> SUFFICES ASSUME NEW r \in table, NEW s \in table, r # s
                 PROVE  Rank(table, r) # Rank(table, s)
      OBVIOUS
    <2>1. r.position < s.position \/ s.position < r.position
      OBVIOUS
    <2>2. Rank(table, r) \in Nat /\ Rank(table, s) \in Nat
      BY <1>1, <1>3
    <2> QED
      BY <2>1, <2>2, <1>2
  <1>5. rank \in Injection(table, 0..n - 1)
    <2>1. rank \in [table -> 0..n - 1]
      BY <1>3
    <2>2. \A r, s \in table : rank[r] = rank[s] => r = s
      BY <1>4
    <2> HIDE DEF rank, n
    <2> QED
      BY <2>1, <2>2 DEF Injection, IsInjective
  <1>6. IsFiniteSet(0..n - 1) /\ Cardinality(0..n - 1) = n
    BY <1>1, FS_Interval
  <1>7. rank \in Surjection(table, 0..n - 1)
    <2> HIDE DEF rank
    <2> QED
      BY <1>5, <1>6, FS_Injection
  <1>8. \A i \in 0..n - 1 : \E r \in table : Rank(table, r) = i
    <2>1. \A i \in 0..n - 1 : \E r \in table : rank[r] = i
      <3> HIDE DEF rank, n
      <3> QED
        BY <1>7 DEF Surjection
    <2> QED
      BY <2>1
  <1>9. read = [i \in 1..n |-> CHOOSE r \in table : Rank(table, r) = i - 1]
    BY DEF Read, Rank
  <1>10. \A i \in 1..n : read[i] \in table /\ Rank(table, read[i]) = i - 1
    <2> SUFFICES ASSUME NEW i \in 1..n
                 PROVE  read[i] \in table /\ Rank(table, read[i]) = i - 1
      OBVIOUS
    <2>1. read[i] = CHOOSE r \in table : Rank(table, r) = i - 1
      BY <1>9
    <2>2. i - 1 \in 0..n - 1
      BY <1>1
    <2>3. \E r \in table : Rank(table, r) = i - 1
      BY <1>8, <2>2
    <2> HIDE DEF read
    <2> QED
      BY <2>1, <2>3
  <1>11. read \in Seq(table) /\ Len(read) = n
    <2>1. read \in [1..n -> table]
      BY <1>9, <1>10
    <2> HIDE DEF read, n
    <2> QED
      BY <1>1, <2>1
  <1> HIDE DEF read, rank, n
  <1>12. \A i, j \in 1..Len(read) : i < j => read[i].position < read[j].position
    <2> SUFFICES ASSUME NEW i \in 1..n, NEW j \in 1..n, i < j
                 PROVE  read[i].position < read[j].position
      BY <1>11
    <2>1. /\ read[i] \in table /\ Rank(table, read[i]) = i - 1
          /\ read[j] \in table /\ Rank(table, read[j]) = j - 1
      BY <1>10
    <2>2. read[i].position \in Nat /\ read[j].position \in Nat
      BY <2>1
    <2>3. CASE read[j].position < read[i].position
      <3>1. j - 1 < i - 1
        BY <2>1, <2>3, <1>2
      <3> QED
        BY <3>1, <1>1
    <2>4. CASE read[j].position = read[i].position
      <3>1. read[j] = read[i]
        BY <2>1, <2>4
      <3>2. j - 1 = i - 1
        BY <2>1, <3>1
      <3> QED
        BY <3>2, <1>1
    <2> QED
      BY <2>2, <2>3, <2>4
  <1>13. \A r \in table : \E i \in 1..Len(read) : read[i] = r
    <2> SUFFICES ASSUME NEW r \in table
                 PROVE  \E i \in 1..n : read[i] = r
      BY <1>11
    <2>1. Rank(table, r) \in 0..n - 1
      BY <1>3
    <2> DEFINE i == Rank(table, r) + 1
    <2>2. i \in 1..n /\ i - 1 = Rank(table, r)
      BY <2>1, <1>1
    <2>3. read[i] \in table /\ Rank(table, read[i]) = Rank(table, r)
      BY <2>2, <1>10
    <2> QED
      BY <2>2, <2>3, <1>4
  <1> QED
    BY <1>11, <1>12, <1>13 DEF IsRead, n, read

\* The rows of a dense table are read at their places.
LEMMA DenseRead ==
  ASSUME NEW table, Dense(table)
  PROVE  /\ Read(table) \in Seq(table) /\ Len(Read(table)) = Cardinality(table)
         /\ \A i \in 1..Len(Read(table)) : Read(table)[i].position = i - 1
         /\ \A r \in table : r.position + 1 \in 1..Len(Read(table)) /\ Read(table)[r.position + 1] = r
PROOF
  <1> DEFINE n == Cardinality(table)
  <1>1. /\ IsFiniteSet(table) /\ n \in Nat
        /\ \A r \in table : r.position \in 0..n - 1
        /\ \A i \in 0..n - 1 : \E r \in table : r.position = i
        /\ \A r, s \in table : r.position = s.position => r = s
    BY DenseIs
  <1>2. \A r \in table : Rank(table, r) = r.position
    <2> TAKE r \in table
    <2> DEFINE R == {s \in table : s.position < r.position}
    <2>1. {s.position : s \in R} = 0..r.position - 1
      <3>1. \A s \in R : s.position \in 0..r.position - 1
        BY <1>1
      <3>2. \A i \in 0..r.position - 1 : \E s \in R : s.position = i
        <4> TAKE i \in 0..r.position - 1
        <4>1. i \in 0..n - 1 /\ i < r.position
          BY <1>1
        <4>2. PICK s \in table : s.position = i
          BY <4>1, <1>1
        <4> QED
          BY <4>1, <4>2
      <3> HIDE DEF R
      <3> QED
        BY <3>1, <3>2
    <2>2. r.position \in Nat
      BY <1>1
    <2>3. \A s, q \in R : s.position = q.position => s = q
      BY <1>1
    <2> HIDE DEF R
    <2>4. Cardinality(R) = r.position
      BY <2>1, <2>2, <2>3, DenseSize
    <2> QED
      BY <2>4 DEF Rank, R
  <1>3. Read(table) = [i \in 1..n |-> CHOOSE r \in table : Rank(table, r) = i - 1]
    BY DEF Read, Rank
  <1>4. \A i \in 1..n : Read(table)[i] \in table /\ Read(table)[i].position = i - 1
    <2> TAKE i \in 1..n
    <2>1. i - 1 \in 0..n - 1
      BY <1>1
    <2>2. PICK r \in table : r.position = i - 1
      BY <2>1, <1>1
    <2>3. Rank(table, r) = i - 1
      BY <2>2, <1>2
    <2>4. Read(table)[i] = CHOOSE q \in table : Rank(table, q) = i - 1
      BY <1>3
    <2>5. Read(table)[i] \in table /\ Rank(table, Read(table)[i]) = i - 1
      BY <2>3, <2>4
    <2> QED
      BY <2>5, <1>2
  <1>5. Read(table) \in Seq(table) /\ Len(Read(table)) = n
    <2>1. Read(table) \in [1..n -> table]
      BY <1>3, <1>4
    <2> QED
      BY <1>1, <2>1
  <1>6. \A r \in table : r.position + 1 \in 1..n /\ Read(table)[r.position + 1] = r
    <2> TAKE r \in table
    <2>1. r.position + 1 \in 1..n /\ (r.position + 1) - 1 = r.position
      BY <1>1
    <2>2. Read(table)[r.position + 1] \in table /\ Read(table)[r.position + 1].position = r.position
      BY <2>1, <1>4
    <2> QED
      BY <2>1, <2>2, <1>1
  <1> QED
    BY <1>4, <1>5, <1>6

LEMMA DenseEmpty == Dense({})
  BY DEF Dense

LEMMA DenseAdds ==
  ASSUME NEW table, Dense(table), NEW row, row.position = Cardinality(table)
  PROVE  Dense(table \cup {row})
PROOF
  <1> DEFINE n == Cardinality(table)
             more == table \cup {row}
  <1>1. /\ n \in Nat /\ {r.position : r \in table} = 0..n - 1
        /\ \A r \in table : r.position \in 0..n - 1
        /\ \A r, s \in table : r.position = s.position => r = s
    BY DenseIs
  <1>2. row.position = n
    OBVIOUS
  <1> HIDE DEF n
  <1>3. {r.position : r \in more} = {r.position : r \in table} \cup {row.position}
    OBVIOUS
  <1>4. (0..n - 1) \cup {n} = 0..(n + 1) - 1
    BY <1>1
  <1>5. {r.position : r \in more} = 0..(n + 1) - 1
    BY <1>1, <1>2, <1>3, <1>4
  <1>6. \A r, s \in more : r.position = s.position => r = s
    BY <1>1, <1>2
  <1> HIDE DEF more
  <1>7. \E k \in Nat : {r.position : r \in more} = 0..k - 1
    <2>1. n + 1 \in Nat
      BY <1>1
    <2> QED
      BY <1>5, <2>1
  <1>8. Dense(more)
    BY <1>6, <1>7 DEF Dense
  <1> QED
    BY <1>8 DEF more

LEMMA DenseReplaces ==
  ASSUME NEW table, Dense(table), NEW row \in table, NEW other, other.position = row.position
  PROVE  Dense((table \ {row}) \cup {other})
PROOF
  <1> DEFINE more == (table \ {row}) \cup {other}
  <1>1. PICK n \in Nat : {r.position : r \in table} = 0..n - 1
    BY DEF Dense
  <1>2. \A r, s \in table : r.position = s.position => r = s
    BY DEF Dense
  <1>3. {r.position : r \in more} = {r.position : r \in table}
    OBVIOUS
  <1>4. \A r, s \in more : r.position = s.position => r = s
    BY <1>2
  <1> HIDE DEF more
  <1>5. Dense(more)
    BY <1>1, <1>3, <1>4 DEF Dense
  <1> QED
    BY <1>5 DEF more

LEMMA DenseMapped ==
  ASSUME NEW table, Dense(table), NEW f, \A r \in table : f[r].position = r.position
  PROVE  Dense({f[r] : r \in table})
PROOF
  <1> DEFINE mapped == {f[r] : r \in table}
  <1>1. PICK n \in Nat : {r.position : r \in table} = 0..n - 1
    BY DEF Dense
  <1>2. \A r, s \in table : r.position = s.position => r = s
    BY DEF Dense
  <1>3. {r.position : r \in mapped} = {r.position : r \in table}
    OBVIOUS
  <1>4. \A r, s \in mapped : r.position = s.position => r = s
    BY <1>2
  <1> HIDE DEF mapped
  <1>5. Dense(mapped)
    BY <1>1, <1>3, <1>4 DEF Dense
  <1> QED
    BY <1>5 DEF mapped

\* A table with as many rows, of unique ids, has the row of an id only once.
LEMMA UpsertedIs ==
  ASSUME NEW table, UniqueIds(table), NEW row \in table, NEW other, other.id = row.id
  PROVE  Upserted(table, other) = (table \ {row}) \cup {other}
  BY DEF Upserted, UniqueIds

LEMMA UpsertedAdds ==
  ASSUME NEW table, NEW other, \A r \in table : r.id # other.id
  PROVE  Upserted(table, other) = table \cup {other}
  BY DEF Upserted

-----------------------------------------------------------------------------
\* What a turn is given.

Ascends(messages) ==
  /\ \A i \in 1..Len(messages) : messages[i].position \in Nat
  /\ \A i, j \in 1..Len(messages) : i < j => messages[i].position < messages[j].position

IsFirstFrom(messages, first, position) ==
  /\ first \in 1..Len(messages) + 1
  /\ \A i \in 1..Len(messages) : messages[i].position >= position <=> i >= first

LEMMA FirstIs ==
  ASSUME NEW messages, Len(messages) \in Nat, Ascends(messages), NEW position \in Nat
  PROVE  IsFirstFrom(messages, FirstAtOrAfter(messages, position), position)
PROOF
  <1> DEFINE n == Len(messages)
             Fits(first) == /\ \A i \in 1..first - 1 : messages[i].position < position
                            /\ first <= n => messages[first].position >= position
             behind == {i \in 1..n : messages[i].position >= position} \cup {n + 1}
  <1>1. PICK least \in behind : \A i \in behind : least <= i
    <2>1. behind \in SUBSET Nat /\ behind # {}
      OBVIOUS
    <2> HIDE DEF behind
    <2> QED
      BY <2>1, LeastOf
  <1>2. least \in 1..n + 1 /\ Fits(least)
    <2>1. least \in 1..n + 1
      OBVIOUS
    <2>2. \A i \in 1..least - 1 : messages[i].position < position
      <3> TAKE i \in 1..least - 1
      <3>1. i \in 1..n /\ i < least
        BY <2>1
      <3>2. ~(messages[i].position >= position)
        BY <3>1, <1>1
      <3> QED
        BY <3>1, <3>2 DEF Ascends
    <2> QED
      BY <2>1, <2>2
  <1>3. FirstAtOrAfter(messages, position) = CHOOSE first \in 1..n + 1 : Fits(first)
    BY DEF FirstAtOrAfter
  <1> DEFINE first == FirstAtOrAfter(messages, position)
  <1>4. first \in 1..n + 1 /\ Fits(first)
    <2> HIDE DEF Fits, first
    <2>1. first = CHOOSE i \in 1..n + 1 : Fits(i)
      BY <1>3 DEF first
    <2> QED
      BY <1>2, <2>1
  <1> HIDE DEF first, behind
  <1>5. \A i \in 1..n : messages[i].position >= position <=> i >= first
    <2> TAKE i \in 1..n
    <2>1. messages[i].position \in Nat
      BY DEF Ascends
    <2>2. CASE i < first
      BY <1>4, <2>1, <2>2
    <2>3. CASE i = first
      BY <1>4, <2>1, <2>3
    <2>4. CASE i > first
      <3>1. first \in 1..n /\ messages[first].position < messages[i].position
        BY <1>4, <2>4 DEF Ascends
      <3>2. messages[first].position >= position /\ messages[first].position \in Nat
        BY <1>4, <3>1 DEF Ascends
      <3> QED
        BY <2>1, <2>4, <3>1, <3>2
    <2> QED
      BY <1>4, <2>2, <2>3, <2>4
  <1> QED
    BY <1>4, <1>5 DEF IsFirstFrom, first

LEMMA FirstKeptIs ==
  ASSUME NEW messages, Len(messages) \in Nat \ {0}, NEW limits
  PROVE  /\ FirstKeptIndex(messages, limits) \in 1..Len(messages)
         /\ \A i \in FirstKeptIndex(messages, limits)..Len(messages) - 1 : FitsLimits(TailFrom(messages, i), limits)
PROOF
  <1> DEFINE n == Len(messages)
             Fits(i) == FitsLimits(TailFrom(messages, i), limits)
             Kept(first) == /\ \A i \in first..n - 1 : Fits(i)
                            /\ first > 1 => ~Fits(first - 1)
             \* how many messages are kept, counted from the last
             enough == {k \in 1..n : k = n \/ ~Fits(n - k)}
  <1>1. PICK least \in enough : \A k \in enough : least <= k
    <2>1. enough \in SUBSET Nat /\ n \in enough
      OBVIOUS
    <2> HIDE DEF enough
    <2> QED
      BY <2>1, LeastOf
  <1> DEFINE last == n + 1 - least
  <1> HIDE DEF Fits
  <1>2. last \in 1..n
    OBVIOUS
  <1>3. \A i \in last..n - 1 : Fits(i)
    <2> TAKE i \in last..n - 1
    <2>1. n - i \in 1..n /\ n - i < least /\ n - (n - i) = i
      BY <1>2
    <2>2. n - i \notin enough
      BY <2>1, <1>1
    <2> QED
      BY <2>1, <2>2
  <1>4. last > 1 => ~Fits(last - 1)
    <2>1. last > 1 => least # n /\ n - least = last - 1
      OBVIOUS
    <2> QED
      BY <2>1
  <1>5. FirstKeptIndex(messages, limits) = CHOOSE first \in 1..n : Kept(first)
    BY DEF FirstKeptIndex, Fits
  <1>6. Kept(last)
    BY <1>3, <1>4
  <1> HIDE DEF Kept, last
  <1>7. FirstKeptIndex(messages, limits) \in 1..n /\ Kept(FirstKeptIndex(messages, limits))
    BY <1>2, <1>5, <1>6
  <1> QED
    BY <1>7 DEF Kept, Fits

CompleteOf(M) == {m \in M : IsComplete(m)}

LEMMA CompleteIs ==
  ASSUME NEW M \in SUBSET MessageRows, Dense(M)
  PROVE  /\ IsRead(CompleteOf(M), CompleteMessages(M))
         /\ Len(CompleteMessages(M)) \in Nat /\ Ascends(CompleteMessages(M))
         /\ \A i \in 1..Len(CompleteMessages(M)) : CompleteMessages(M)[i] \in CompleteOf(M)
PROOF
  <1> DEFINE C == CompleteOf(M)
  <1>1. C \subseteq M
    BY DEF CompleteOf
  <1>2. IsFiniteSet(C)
    BY <1>1, DenseIs, FS_Subset
  <1>3. \A m \in C : m.position \in Nat
    BY <1>1 DEF MessageRows
  <1>4. \A m, q \in C : m.position = q.position => m = q
    BY <1>1, DenseIs
  <1>5. CompleteMessages(M) = Read(C)
    BY DEF CompleteMessages, CompleteOf
  <1> HIDE DEF C
  <1>6. IsRead(C, CompleteMessages(M))
    BY <1>2, <1>3, <1>4, <1>5, ReadIs
  <1> DEFINE read == CompleteMessages(M)
  <1> HIDE DEF read
  <1>7. IsRead(C, read)
    BY <1>6 DEF read
  <1>8. Len(read) \in Nat /\ \A i \in 1..Len(read) : read[i] \in C
    BY <1>7 DEF IsRead
  <1>9. Ascends(read)
    BY <1>3, <1>7, <1>8 DEF IsRead, Ascends
  <1> QED
    BY <1>6, <1>8, <1>9 DEF read, C

\* The plan of a turn is what the turn is given.
IsPlan(M, plan) ==
  /\ plan.messages \in Seq(RowIds) /\ plan.marked \in BOOLEAN
  /\ plan.start \in Nat /\ plan.resumed \in BOOLEAN
  /\ IsGiven(CompleteMessages(M), plan.messages, plan.marked)
  /\ Begins(M, plan.start)
  /\ {plan.messages[i] : i \in 1..Len(plan.messages)} = IdsOf(CompleteFrom(M, plan.start))
  /\ Last(plan.messages) = Last(CompleteMessages(M)).id

LEMMA WindowIs ==
  ASSUME NEW M \in SUBSET MessageRows, Dense(M),
         NEW first \in 1..Len(CompleteMessages(M)), NEW start \in Nat, NEW resumed \in BOOLEAN,
         Last(CompleteMessages(M)).role = "User", Begins(M, start),
         IsFirstFrom(CompleteMessages(M), first, start),
         first < Len(CompleteMessages(M)) => FitsLimits(TailFrom(CompleteMessages(M), first), Limits)
  PROVE  IsPlan(M, WindowFrom(CompleteMessages(M), first, start, resumed))
PROOF
  <1> DEFINE complete == CompleteMessages(M)
             n == Len(complete)
             plan == WindowFrom(complete, first, start, resumed)
             ids == plan.messages
             kept == TailFrom(complete, n - Len(ids) + 1)
  <1>1. /\ n \in Nat /\ complete \in Seq(CompleteOf(M))
        /\ \A i \in 1..n : complete[i] \in CompleteOf(M)
        /\ \A m \in CompleteOf(M) : \E i \in 1..n : complete[i] = m
    BY CompleteIs DEF IsRead
  <1>2. /\ ids = [i \in 1..n - first + 1 |-> complete[first + i - 1].id]
        /\ plan.marked = (first > 1 /\ first <= n)
        /\ plan.start = start /\ plan.resumed = resumed
    BY DEF WindowFrom
  <1>3. first \in 1..n
    OBVIOUS
  <1>4. \A i \in 1..n : complete[i].id \in RowIds
    BY <1>1 DEF CompleteOf, MessageRows
  <1> HIDE DEF complete, n, plan, ids, kept
  <1>5. ids \in Seq(RowIds) /\ Len(ids) = n - first + 1
    <2>1. \A i \in 1..n - first + 1 : complete[first + i - 1].id \in RowIds
      BY <1>1, <1>3, <1>4
    <2>2. ids \in [1..n - first + 1 -> RowIds]
      BY <1>2, <2>1
    <2>3. n - first + 1 \in Nat
      BY <1>1, <1>3
    <2> QED
      BY <2>2, <2>3
  <1>6. kept = TailFrom(complete, first)
    <2>1. n - Len(ids) + 1 = first
      BY <1>1, <1>3, <1>5
    <2> QED
      BY <2>1 DEF kept
  <1>7. kept = SubSeq(complete, first, n)
    BY <1>6 DEF TailFrom, n
  <1>8. /\ Len(kept) = n - first + 1
        /\ \A i \in 1..n - first + 1 : kept[i] = complete[first + i - 1]
    BY <1>1, <1>3, <1>7 DEF n
  <1>9. IsGiven(complete, ids, plan.marked)
    <2>1. ids # <<>>
      BY <1>1, <1>3, <1>5
    <2>2. Last(complete).role = "User"
      BY DEF complete
    <2>3. [i \in 1..Len(kept) |-> kept[i].id] = ids
      BY <1>2, <1>8
    <2>4. plan.marked <=> n > Len(kept)
      <3>1. (first > 1 /\ first <= n) <=> n > Len(kept)
        BY <1>1, <1>3, <1>8
      <3> QED
        BY <1>2, <3>1
    <2>5. Len(kept) > 1 => FitsLimits(kept, Limits)
      <3>1. Len(kept) > 1 => first < n
        BY <1>1, <1>3, <1>8
      <3>2. first < n => FitsLimits(TailFrom(complete, first), Limits)
        BY DEF complete, n
      <3> QED
        BY <3>1, <3>2, <1>6
    <2> QED
      BY <2>1, <2>2, <2>3, <2>4, <2>5 DEF IsGiven, kept, n
  <1>10. \A i \in 1..n : complete[i].position >= start <=> i >= first
    BY DEF IsFirstFrom, complete, n
  <1>11. {ids[i] : i \in 1..Len(ids)} = IdsOf(CompleteFrom(M, start))
    <2>1. ASSUME NEW i \in 1..Len(ids)
          PROVE  ids[i] \in IdsOf(CompleteFrom(M, start))
      <3>1. first + i - 1 \in 1..n /\ first + i - 1 >= first /\ ids[i] = complete[first + i - 1].id
        BY <1>1, <1>2, <1>3, <1>5
      <3>2. complete[first + i - 1] \in CompleteFrom(M, start)
        BY <1>1, <1>10, <3>1 DEF CompleteFrom, CompleteOf
      <3> QED
        BY <3>1, <3>2 DEF IdsOf
    <2>2. ASSUME NEW m \in CompleteFrom(M, start)
          PROVE  \E i \in 1..Len(ids) : ids[i] = m.id
      <3>1. m \in CompleteOf(M) /\ m.position >= start
        BY DEF CompleteFrom, CompleteOf
      <3>2. PICK j \in 1..n : complete[j] = m
        BY <1>1, <3>1
      <3>3. j >= first
        BY <1>10, <3>1, <3>2
      <3>4. j - first + 1 \in 1..Len(ids) /\ first + (j - first + 1) - 1 = j
        BY <1>1, <1>3, <1>5, <3>2, <3>3
      <3>5. ids[j - first + 1] = complete[j].id
        BY <1>2, <1>5, <3>4
      <3> QED
        BY <3>2, <3>4, <3>5
    <2> QED
      BY <2>1, <2>2 DEF IdsOf
  <1>12. Last(ids) = Last(complete).id
    <2>1. Last(ids) = ids[n - first + 1] /\ Last(complete) = complete[n]
      BY <1>5 DEF Last, n
    <2>2. n - first + 1 \in 1..n - first + 1 /\ first + (n - first + 1) - 1 = n
      BY <1>1, <1>3
    <2> QED
      BY <1>2, <2>1, <2>2
  <1>13. plan.marked \in BOOLEAN
    BY <1>2
  <1>14. /\ ids \in Seq(RowIds) /\ plan.start = start /\ start \in Nat /\ plan.resumed \in BOOLEAN
         /\ Begins(M, plan.start)
    BY <1>2, <1>5
  <1>15. {ids[i] : i \in 1..Len(ids)} = IdsOf(CompleteFrom(M, plan.start))
    BY <1>11, <1>14
  <1> QED
    BY <1>9, <1>12, <1>13, <1>14, <1>15 DEF IsPlan, plan, ids, complete

LEMMA PlanIs ==
  ASSUME NEW M \in SUBSET MessageRows, Dense(M), CompleteMessages(M) # <<>>,
         Last(CompleteMessages(M)).role = "User",
         NEW session \in BOOLEAN, NEW start \in Nat, session => Begins(M, start)
  PROVE  /\ IsPlan(M, PlanTranscript(M, session, start))
         /\ PlanTranscript(M, session, start).resumed =>
              session /\ PlanTranscript(M, session, start).start = start
PROOF
  <1> DEFINE complete == CompleteMessages(M)
             n == Len(complete)
             first == FirstAtOrAfter(complete, start)
             plan == PlanTranscript(M, session, start)
  <1>1. /\ n \in Nat /\ complete \in Seq(CompleteOf(M)) /\ Ascends(complete)
        /\ \A i \in 1..n : complete[i] \in CompleteOf(M)
        /\ \A m \in CompleteOf(M) : \E i \in 1..n : complete[i] = m
    BY CompleteIs DEF IsRead
  <1>2. n >= 1
    <2> HIDE DEF complete
    <2>1. complete # <<>>
      BY DEF complete
    <2> QED
      BY <1>1, <2>1
  <1>3. CASE session /\ FitsLimits(TailFrom(complete, first), Limits)
    <2>1. plan = WindowFrom(complete, first, start, TRUE)
      BY <1>3 DEF PlanTranscript
    <2> HIDE DEF complete, plan
    <2>2. IsFirstFrom(complete, first, start)
      BY <1>1, FirstIs
    <2>3. PICK m \in CompleteOf(M) : m.position = start
      BY <1>3 DEF Begins, CompleteOf
    <2>4. PICK i \in 1..n : complete[i] = m
      BY <1>1
    <2>5. i >= first
      BY <2>2, <2>3, <2>4 DEF IsFirstFrom
    <2> HIDE DEF first
    <2>6. first \in 1..n
      BY <1>1, <2>2, <2>4, <2>5 DEF IsFirstFrom
    <2>7. IsPlan(M, WindowFrom(complete, first, start, TRUE))
      BY <1>3, <2>2, <2>6, WindowIs DEF complete
    <2>8. plan.start = start
      BY <2>1 DEF WindowFrom
    <2> QED
      BY <1>3, <2>1, <2>7, <2>8 DEF plan
  <1>4. CASE ~(session /\ FitsLimits(TailFrom(complete, first), Limits))
    <2> DEFINE limits == IF FitsLimits(complete, Limits) THEN Limits ELSE Seed
               kept == FirstKeptIndex(complete, limits)
               position == complete[kept].position
    <2>1. plan = TrimTranscript(complete, limits)
      BY <1>4 DEF PlanTranscript
    <2> HIDE DEF complete, plan, limits, first
    <2>2. kept \in 1..n /\ \A i \in kept..n - 1 : FitsLimits(TailFrom(complete, i), limits)
      BY <1>1, <1>2, FirstKeptIs
    <2> HIDE DEF kept
    <2>3. complete # <<>>
      BY <1>1, <1>2
    <2>4. plan = WindowFrom(complete, kept, position, FALSE)
      BY <2>1, <2>3 DEF TrimTranscript, kept
    <2>5. complete[kept] \in CompleteOf(M)
      BY <1>1, <2>2
    <2>6. position \in Nat /\ Begins(M, position)
      BY <2>5 DEF CompleteOf, Begins, MessageRows
    <2> HIDE DEF position
    <2>7. IsFirstFrom(complete, kept, position)
      <3>0. complete[kept].position = position
        BY DEF position
      <3>1. \A i \in 1..n : complete[i].position >= position <=> i >= kept
        <4> TAKE i \in 1..n
        <4>1. complete[i].position \in Nat /\ i \in Nat /\ kept \in Nat
          BY <1>1, <2>2 DEF Ascends
        <4>2. CASE i < kept
          <5>1. complete[i].position < position
            BY <1>1, <2>2, <4>2, <3>0 DEF Ascends
          <5> QED
            BY <2>6, <4>1, <4>2, <5>1
        <4>3. CASE i = kept
          BY <2>2, <2>6, <4>3, <3>0
        <4>4. CASE i > kept
          <5>1. position < complete[i].position
            BY <1>1, <2>2, <4>4, <3>0 DEF Ascends
          <5> QED
            BY <2>6, <4>1, <4>4, <5>1
        <4> QED
          BY <1>1, <2>2, <4>2, <4>3, <4>4
      <3> QED
        BY <1>1, <2>2, <3>1 DEF IsFirstFrom
    <2>8. kept < n => FitsLimits(TailFrom(complete, kept), Limits)
      <3> SUFFICES ASSUME kept < n
                   PROVE  FitsLimits(TailFrom(complete, kept), Limits)
        OBVIOUS
      <3>1. FitsLimits(TailFrom(complete, kept), limits)
        BY <1>1, <2>2
      <3>2. Len(TailFrom(complete, kept)) = n - kept + 1
        BY <1>1, <2>2 DEF TailFrom
      <3>3. limits # Seed
        <4> SUFFICES ASSUME limits = Seed
                     PROVE  FALSE
          OBVIOUS
        <4>1. Len(TailFrom(complete, kept)) <= 1
          BY <3>1 DEF FitsLimits, Seed
        <4> QED
          BY <1>1, <2>2, <3>2, <4>1
      <3>4. limits = Limits
        BY <3>3 DEF limits
      <3> QED
        BY <3>1, <3>4
    <2>9. IsPlan(M, WindowFrom(complete, kept, position, FALSE))
      <3> QED
        BY <2>2, <2>6, <2>7, <2>8, WindowIs DEF complete
    <2>10. plan.resumed = FALSE
      BY <2>4 DEF WindowFrom
    <2> QED
      BY <2>4, <2>9, <2>10 DEF plan
  <1> QED
    BY <1>3, <1>4

-----------------------------------------------------------------------------
\* What the calls of the store make of one conversation.

LEMMA QuestionAdded ==
  ASSUME NEW M \in SUBSET MessageRows, Dense(M), AnswersFollowQuestions(M),
         NEW q \in MessageRows, q.position = Cardinality(M), q.role = "User", q.status = "Complete"
  PROVE  /\ Dense(M \cup {q}) /\ AnswersFollowQuestions(M \cup {q})
         /\ \A start : Begins(M, start) => Begins(M \cup {q}, start)
         /\ \A start, s : SawTail(M, start, s) => SawTail(M \cup {q}, start, s)
PROOF
  <1> DEFINE more == M \cup {q}
  <1>1. Dense(more)
    BY DenseAdds
  <1>2. AnswersFollowQuestions(more)
    BY DEF AnswersFollowQuestions
  <1>3. \A start : Begins(M, start) => Begins(more, start)
    BY DEF Begins
  <1>4. \A m \in M : m.position \in Nat /\ m.position < q.position
    BY DenseIs
  <1>5. NotAnswered(more) = NotAnswered(M) \cup {q}
    <2>1. q \in NotAnswered(more)
      <3>1. \A a \in more : a.position # q.position + 1
        BY <1>4 DEF MessageRows
      <3> QED
        BY <3>1 DEF NotAnswered
    <2>2. \A m \in M : m \in NotAnswered(more) <=> m \in NotAnswered(M)
      BY DEF NotAnswered
    <2> QED
      BY <2>1, <2>2 DEF NotAnswered
  <1>6. ASSUME NEW start, NEW s, SawTail(M, start, s)
        PROVE  SawTail(more, start, s)
    <2>1. CompleteFrom(M, start) \subseteq CompleteFrom(more, start)
      BY DEF CompleteFrom
    <2>2. CompleteFrom(more, start) \ NotAnswered(more) \subseteq CompleteFrom(M, start) \ NotAnswered(M)
      BY <1>5 DEF CompleteFrom
    <2> QED
      BY <1>6, <2>1, <2>2 DEF SawTail, IdsOf
  <1> HIDE DEF more
  <1>7. \A start, s : SawTail(M, start, s) => SawTail(more, start, s)
    BY <1>6
  <1> QED
    BY <1>1, <1>2, <1>3, <1>7 DEF more

LEMMA AnswerAdded ==
  ASSUME NEW M \in SUBSET MessageRows, Dense(M), AnswersFollowQuestions(M),
         NEW q \in M, q.role = "User",
         NEW a \in MessageRows, a.position = Cardinality(M), q.position + 1 = a.position,
         a.role = "Assistant", a.status = "Running"
  PROVE  /\ Dense(M \cup {a}) /\ AnswersFollowQuestions(M \cup {a})
         /\ \A m \in M \cup {a} : m.position <= a.position
         /\ \A start : Begins(M, start) => Begins(M \cup {a}, start)
         /\ \A start, s : SawTail(M, start, s) => SawTail(M \cup {a}, start, s)
PROOF
  <1> DEFINE more == M \cup {a}
  <1>1. Dense(more)
    BY DenseAdds
  <1>2. AnswersFollowQuestions(more)
    BY DEF AnswersFollowQuestions
  <1>3. \A start : Begins(M, start) => Begins(more, start)
    BY DEF Begins
  <1>4. \A m \in more : m.position <= a.position
    BY DenseIs DEF MessageRows
  <1>5. NotAnswered(more) = NotAnswered(M)
    BY DEF NotAnswered, IsComplete
  <1>6. \A start : CompleteFrom(more, start) = CompleteFrom(M, start)
    BY DEF CompleteFrom, IsComplete
  <1>7. \A start, s : SawTail(M, start, s) => SawTail(more, start, s)
    BY <1>5, <1>6 DEF SawTail
  <1> HIDE DEF more
  <1> QED
    BY <1>1, <1>2, <1>3, <1>4, <1>7 DEF more

\* An answer that ends or is begun anew keeps its place.
LEMMA AnswerChanged ==
  ASSUME NEW M \in SUBSET MessageRows, Dense(M), AnswersFollowQuestions(M),
         NEW a \in M, a.role = "Assistant", NEW b \in MessageRows, b.role = "Assistant",
         b.position = a.position
  PROVE  Dense((M \ {a}) \cup {b}) /\ AnswersFollowQuestions((M \ {a}) \cup {b})
PROOF
  <1>1. Dense((M \ {a}) \cup {b})
    BY DenseReplaces
  <1>2. AnswersFollowQuestions((M \ {a}) \cup {b})
    BY DEF AnswersFollowQuestions
  <1> QED
    BY <1>1, <1>2

LEMMA AnswerBegunAnew ==
  ASSUME NEW M \in SUBSET MessageRows,
         NEW a \in M, a.role = "Assistant", ~IsComplete(a),
         NEW b \in MessageRows, b.role = "Assistant", ~IsComplete(b)
  PROVE  /\ \A start : Begins(M, start) => Begins((M \ {a}) \cup {b}, start)
         /\ \A start, s : SawTail(M, start, s) => SawTail((M \ {a}) \cup {b}, start, s)
PROOF
  <1> DEFINE changed == (M \ {a}) \cup {b}
  <1>1. \A start : Begins(M, start) => Begins(changed, start)
    BY DEF Begins
  <1>2. \A start : CompleteFrom(changed, start) = CompleteFrom(M, start)
    BY DEF CompleteFrom
  <1>3. NotAnswered(changed) = NotAnswered(M)
    BY DEF NotAnswered
  <1>4. \A start, s : SawTail(M, start, s) => SawTail(changed, start, s)
    BY <1>2, <1>3 DEF SawTail
  <1> HIDE DEF changed
  <1> QED
    BY <1>1, <1>4 DEF changed

\* The turn of an answer, as Begun() makes it.
TurnFor(answer, plan) ==
  [answer |-> answer, transcript |-> plan.messages, marked |-> plan.marked,
   resumed |-> plan.resumed, start |-> plan.start, known |-> <<>>, missed |-> FALSE]
Heard(s, answer, plan) == IF plan.resumed THEN s \cup {Last(plan.messages), answer} ELSE s

LEMMA TurnBegins ==
  ASSUME NEW M \in SUBSET MessageRows, UniqueIds(M), Dense(M), AnswersFollowQuestions(M),
         NEW a \in M, a.role = "Assistant", a.status = "Running",
         \A m \in M : m.position <= a.position,
         NEW k \in Sessions, NEW s \in SUBSET RowIds, NEW left, a.id \notin left,
         k.session => Begins(M, k.start), k.session /\ ~k.forgotten => SawTail(M, k.start, s),
         NEW plan, plan = PlanTranscript(M, k.session, k.start)
  PROVE  /\ TurnFor(a.id, plan) \in Turns /\ TurnFor(a.id, plan) # NoTurn
         /\ Heard(s, a.id, plan) \in SUBSET RowIds
         /\ ConversationIsFine(M, TurnFor(a.id, plan), k, Heard(s, a.id, plan), left)
PROOF
  <1> DEFINE complete == CompleteMessages(M)
             n == Len(complete)
             t == TurnFor(a.id, plan)
             heard == Heard(s, a.id, plan)
  <1>1. PICK q \in M : q.role = "User" /\ q.position + 1 = a.position
    BY DEF AnswersFollowQuestions
  <1>2. q \in CompleteOf(M) /\ a \notin CompleteOf(M)
    BY <1>1 DEF AnswersFollowQuestions, CompleteOf, IsComplete
  <1>3. /\ n \in Nat /\ Ascends(complete)
        /\ \A i \in 1..n : complete[i] \in CompleteOf(M)
        /\ \A m \in CompleteOf(M) : \E i \in 1..n : complete[i] = m
    BY CompleteIs DEF IsRead
  <1>4. PICK i \in 1..n : complete[i] = q
    BY <1>2, <1>3
  <1>5. complete[n] = q
    <2>1. CASE i = n
      BY <1>4, <2>1
    <2>2. CASE i < n
      <3> DEFINE m == complete[n]
      <3>1. n \in 1..n /\ m \in CompleteOf(M) /\ q.position < m.position
        BY <1>3, <1>4, <2>2 DEF Ascends
      <3>2. m \in M /\ m.position <= a.position
        BY <3>1 DEF CompleteOf
      <3>3. m.position \in Nat /\ q.position \in Nat /\ a.position \in Nat
        BY <3>2 DEF MessageRows
      <3> HIDE DEF m
      <3>4. m.position = a.position
        BY <1>1, <3>1, <3>2, <3>3
      <3>5. m = a
        BY <3>2, <3>4 DEF Dense
      <3> QED
        BY <1>2, <3>1, <3>5
    <2> QED
      BY <1>3, <2>1, <2>2
  <1>6. Last(complete) = q /\ complete # <<>>
    <2>1. n >= 1
      BY <1>3
    <2> QED
      BY <1>5, <2>1 DEF Last
  <1>7. k.session \in BOOLEAN /\ k.start \in Nat
    BY DEF Sessions
  <1>8. IsPlan(M, plan) /\ (plan.resumed => k.session /\ plan.start = k.start)
    <2> HIDE DEF complete
    <2>1. CompleteMessages(M) # <<>> /\ Last(CompleteMessages(M)).role = "User"
      BY <1>1, <1>6 DEF complete
    <2> QED
      BY <1>7, <2>1, PlanIs
  <1>9. a.id \in RowIds /\ a.id # Nobody
    BY DEF MessageRows, RowIds, Nobody
  <1> HIDE DEF complete
  <1>10. /\ t.answer = a.id /\ t.transcript = plan.messages /\ t.marked = plan.marked
         /\ t.resumed = plan.resumed /\ t.start = plan.start
    BY DEF TurnFor
  <1>11. t \in Turns /\ t # NoTurn
    <2>1. t \in Turns
      BY <1>8, <1>9 DEF TurnFor, Turns, IsPlan
    <2>2. NoTurn.answer = Nobody
      BY DEF NoTurn
    <2> QED
      BY <1>9, <1>10, <2>1, <2>2
  <1>12. TurnIsFine(M, t)
    <2>1. IsTheAnswer(M, t, a)
      BY <1>10 DEF IsTheAnswer
    <2>2. IsGiven(CompleteMessages(M), t.transcript, t.marked) /\ Begins(M, t.start)
      BY <1>8, <1>10 DEF IsPlan
    <2>3. {t.transcript[j] : j \in 1..Len(t.transcript)} = IdsOf(CompleteFrom(M, t.start))
      BY <1>8, <1>10 DEF IsPlan
    <2> QED
      BY <2>1, <2>2, <2>3 DEF TurnIsFine
  <1>13. Last(plan.messages) = q.id
    BY <1>6, <1>8 DEF IsPlan, complete
  <1>14. plan.resumed => heard = s \cup {q.id, a.id}
    BY <1>13 DEF Heard
  <1>15. heard \in SUBSET RowIds
    <2>1. q.id \in RowIds
      BY DEF MessageRows
    <2> QED
      BY <1>9, <1>13, <2>1 DEF Heard
  <1> HIDE DEF t, heard
  <1>16. TurnSaw(M, t, k, heard)
    <2> SUFFICES ASSUME t.resumed, ~k.forgotten
                 PROVE  /\ heard \subseteq IdsOf(CompleteFrom(M, t.start)) \cup {t.answer}
                        /\ IdsOf(CompleteFrom(M, t.start) \ NotAnswered(M)) \subseteq heard
                        /\ t.answer \in heard
                        /\ \A b, r \in M : b.id = t.answer /\ r.position + 1 = b.position => r.id \in heard
      BY DEF TurnSaw
    <2>1. k.session /\ t.start = k.start /\ heard = s \cup {q.id, a.id}
      BY <1>8, <1>10, <1>14
    <2>2. SawTail(M, t.start, s) /\ Begins(M, t.start)
      BY <2>1
    <2>3. q.id \in IdsOf(CompleteFrom(M, t.start))
      <3>1. PICK m \in M : IsComplete(m) /\ m.position = t.start
        BY <2>2 DEF Begins
      <3>2. m # a /\ m.position # a.position
        BY <1>2, <3>1 DEF CompleteOf, Dense
      <3>3. m.position \in Nat /\ a.position \in Nat /\ q.position \in Nat /\ m.position <= a.position
        BY DEF MessageRows
      <3>4. q.position >= t.start
        BY <1>1, <3>1, <3>2, <3>3
      <3> QED
        BY <1>2, <3>4 DEF CompleteFrom, CompleteOf, IdsOf
    <2>4. heard \subseteq IdsOf(CompleteFrom(M, t.start)) \cup {t.answer}
      BY <1>10, <2>1, <2>2, <2>3 DEF SawTail
    <2>5. IdsOf(CompleteFrom(M, t.start) \ NotAnswered(M)) \subseteq heard
      BY <2>1, <2>2 DEF SawTail
    <2>6. t.answer \in heard
      BY <1>10, <2>1
    <2>7. ASSUME NEW b \in M, NEW r \in M, b.id = t.answer, r.position + 1 = b.position
          PROVE  r.id \in heard
      <3>1. b = a
        BY <1>10, <2>7 DEF UniqueIds
      <3>2. r.position = q.position
        <4>1. r.position \in Nat /\ q.position \in Nat
          BY DEF MessageRows
        <4> QED
          BY <1>1, <2>7, <3>1, <4>1
      <3>3. r = q
        BY <3>2 DEF Dense
      <3> QED
        BY <2>1, <3>3
    <2> QED
      BY <2>4, <2>5, <2>6, <2>7
  <1>17. SessionIsFine(M, k, heard, left)
    BY DEF SessionIsFine, AreLeft
  <1> QED
    BY <1>11, <1>12, <1>15, <1>16, <1>17 DEF ConversationIsFine, t, heard

LEMMA TurnSucceeds ==
  ASSUME NEW M \in SUBSET MessageRows, NEW t \in Turns, t # NoTurn, NEW k, NEW s, NEW left,
         ConversationIsFine(M, t, k, s, left), UniqueIds(M), NEW a \in M, a.id = t.answer,
         NEW b \in MessageRows, b.id = a.id, b.position = a.position, b.role = a.role,
         b.status = "Complete",
         NEW ended, ended.session, ended.start = t.start,
         NEW seen, \/ t.resumed /\ ~k.forgotten /\ seen = s
                   \/ seen = {t.transcript[i] : i \in 1..Len(t.transcript)} \cup {t.answer}
  PROVE  ConversationIsFine((M \ {a}) \cup {b}, NoTurn, ended, seen, left)
PROOF
  <1> DEFINE changed == (M \ {a}) \cup {b}
             start == t.start
  <1>1. IsTheAnswer(M, t, a) /\ Begins(M, start) /\ Dense(M) /\ AnswersFollowQuestions(M)
    BY DEF ConversationIsFine, TurnIsFine, IsTheAnswer, UniqueIds
  <1>2. {t.transcript[i] : i \in 1..Len(t.transcript)} = IdsOf(CompleteFrom(M, start))
    BY DEF ConversationIsFine, TurnIsFine
  <1>3. a.role = "Assistant" /\ a.status = "Running" /\ \A m \in M : m.position <= a.position
    BY <1>1 DEF IsTheAnswer
  <1>4. Dense(changed) /\ AnswersFollowQuestions(changed)
    BY <1>1, <1>3, AnswerChanged
  <1>5. ~IsComplete(a) /\ IsComplete(b)
    BY <1>3 DEF IsComplete
  <1>6. Begins(changed, start)
    BY <1>1, <1>5 DEF Begins
  <1>7. b.position >= start
    BY <1>1, <1>3 DEF Begins
  <1>8. CompleteFrom(changed, start) = CompleteFrom(M, start) \cup {b}
    BY <1>5, <1>7 DEF CompleteFrom
  <1>9. IdsOf(CompleteFrom(changed, start)) = IdsOf(CompleteFrom(M, start)) \cup {t.answer}
    BY <1>8 DEF IdsOf
  <1>10. ASSUME NEW m \in CompleteFrom(changed, start) \ NotAnswered(changed), m # b
         PROVE  m \in CompleteFrom(M, start) \ NotAnswered(M) \/ m.position + 1 = a.position
    <2>1. m \in CompleteFrom(M, start) /\ m \in M /\ m \in changed /\ m \notin NotAnswered(changed)
      BY <1>8, <1>10 DEF CompleteFrom
    <2>2. CASE m.role = "User"
      <3>1. PICK r \in changed : r.role = "Assistant" /\ IsComplete(r) /\ r.position = m.position + 1
        BY <2>1, <2>2 DEF NotAnswered
      <3>2. CASE r = b
        BY <3>1, <3>2
      <3>3. CASE r \in M
        BY <2>1, <3>1, <3>3 DEF NotAnswered
      <3> QED
        BY <3>2, <3>3
    <2>3. CASE m.role # "User"
      BY <2>1, <2>3 DEF NotAnswered
    <2> QED
      BY <2>2, <2>3
  <1> HIDE DEF changed
  <1>11. SawTail(changed, start, seen)
    <2>1. CASE t.resumed /\ ~k.forgotten /\ seen = s
      <3>1. /\ s \subseteq IdsOf(CompleteFrom(M, start)) \cup {t.answer}
            /\ IdsOf(CompleteFrom(M, start) \ NotAnswered(M)) \subseteq s
            /\ t.answer \in s
            /\ \A x, q \in M : x.id = t.answer /\ q.position + 1 = x.position => q.id \in s
        BY <2>1 DEF ConversationIsFine, TurnSaw
      <3>2. ASSUME NEW m \in CompleteFrom(changed, start) \ NotAnswered(changed)
            PROVE  m.id \in s
        <4>1. CASE m = b
          BY <3>1, <4>1
        <4>2. CASE m # b
          <5>1. m \in M
            BY <1>8, <4>2 DEF CompleteFrom
          <5>2. m \in CompleteFrom(M, start) \ NotAnswered(M) \/ m.position + 1 = a.position
            BY <1>10, <4>2
          <5> QED
            BY <3>1, <5>1, <5>2 DEF IdsOf
        <4> QED
          BY <4>1, <4>2
      <3> QED
        BY <1>9, <2>1, <3>1, <3>2 DEF SawTail, IdsOf
    <2>2. CASE seen = {t.transcript[i] : i \in 1..Len(t.transcript)} \cup {t.answer}
      <3>1. seen = IdsOf(CompleteFrom(changed, start))
        BY <1>2, <1>9, <2>2
      <3> QED
        BY <3>1 DEF SawTail, IdsOf
    <2> QED
      BY <2>1, <2>2
  <1>12. SessionIsFine(changed, ended, seen, left)
    BY <1>6, <1>11 DEF SessionIsFine
  <1>13. TurnIsFine(changed, NoTurn) /\ TurnSaw(changed, NoTurn, ended, seen)
    BY DEF TurnIsFine, TurnSaw
  <1> QED
    BY <1>4, <1>12, <1>13 DEF ConversationIsFine, changed

\* A conversation without a turn and without a session has only its messages to be fine.
LEMMA NothingGoesOn ==
  ASSUME NEW M, Dense(M), AnswersFollowQuestions(M), NEW k, ~k.session, NEW s, NEW left
  PROVE  ConversationIsFine(M, NoTurn, k, s, left)
  BY DEF ConversationIsFine, TurnIsFine, SessionIsFine, TurnSaw

\* Which answers were left matters to the conversation they are of.
LEMMA FewerAreLeft ==
  ASSUME NEW M, NEW t, NEW k, NEW s, NEW left, ConversationIsFine(M, t, k, s, left),
         NEW fewer, \A m \in M : m.id \in fewer => m.id \in left
  PROVE  ConversationIsFine(M, t, k, s, fewer)
PROOF
  <1>1. AreLeft(M, fewer) => AreLeft(M, left)
    BY DEF AreLeft
  <1> QED
    BY <1>1 DEF ConversationIsFine, SessionIsFine

-----------------------------------------------------------------------------
\* What the calls of the store make of the steps.

LEMMA StepsOfOthers ==
  ASSUME NEW M, NEW T, StepsAreFine(M, T), NEW N, \A m \in M : \E n \in N : n.id = m.id
  PROVE  StepsAreFine(N, T)
PROOF
  <1>1. \A s \in T : \E n \in N : n.id = s.message
    BY DEF StepsAreFine
  <1> QED
    BY <1>1 DEF StepsAreFine

\* The steps of messages that go, or of an answer that is begun anew, go with them.
StepsWithout(T, gone) == {s \in T : s.message \notin gone}

LEMMA StepsDropped ==
  ASSUME NEW M, NEW T, StepsAreFine(M, T), NEW gone,
         NEW N, IdsOf(M) \ gone \subseteq IdsOf(N)
  PROVE  /\ StepsAreFine(N, StepsWithout(T, gone))
         /\ \A t : KnownIsFine(T, t) /\ t.answer \notin gone => KnownIsFine(StepsWithout(T, gone), t)
PROOF
  <1> DEFINE left == StepsWithout(T, gone)
  <1> USE DEF StepsWithout
  <1>1. UniqueIds(left)
    BY DEF StepsAreFine, UniqueIds
  <1>2. \A s \in left : \E n \in N : n.id = s.message
    BY DEF StepsAreFine, IdsOf
  <1>3. \A message : message \notin gone => StepsIn(left, message) = StepsIn(T, message)
    BY DEF StepsIn
  <1>4. \A message : message \in gone => StepsIn(left, message) = {}
    BY DEF StepsIn
  <1>5. \A message \in RowIds : Dense(StepsIn(left, message))
    <2> TAKE message \in RowIds
    <2>1. CASE message \in gone
      <3>1. StepsIn(left, message) = {}
        BY <1>4, <2>1
      <3> QED
        BY <3>1, DenseEmpty
    <2>2. CASE message \notin gone
      <3>1. StepsIn(left, message) = StepsIn(T, message)
        BY <1>3, <2>2
      <3>2. Dense(StepsIn(T, message))
        BY DEF StepsAreFine
      <3> QED
        BY <3>1, <3>2
    <2> QED
      BY <2>1, <2>2
  <1>6. \A s \in left : s.parent # Nobody =>
          \E p \in left : p.message = s.message /\ p.id = s.parent /\ p.position < s.position
    <2> SUFFICES ASSUME NEW s \in left, s.parent # Nobody
                 PROVE  \E p \in left : p.message = s.message /\ p.id = s.parent /\ p.position < s.position
      OBVIOUS
    <2>1. PICK p \in T : p.message = s.message /\ p.id = s.parent /\ p.position < s.position
      BY DEF StepsAreFine
    <2> QED
      BY <2>1
  <1>7. ASSUME NEW t, KnownIsFine(T, t), t.answer \notin gone
        PROVE  KnownIsFine(left, t)
    <2>1. left \subseteq T /\ StepsIn(left, t.answer) = StepsIn(T, t.answer)
      BY <1>3, <1>7
    <2> QED
      BY <1>7, <2>1 DEF KnownIsFine
  <1> QED
    BY <1>1, <1>2, <1>5, <1>6, <1>7 DEF StepsAreFine

\* A turn without steps knows all there are.
LEMMA NothingKnown ==
  ASSUME NEW T, NEW t, t.known = <<>>, StepsIn(T, t.answer) = {} \/ t = NoTurn
  PROVE  KnownIsFine(T, t)
PROOF
  <1>1. Len(t.known) = 0 /\ 1..Len(t.known) = {}
    OBVIOUS
  <1>2. t # NoTurn => IsMirrored(StepsIn(T, t.answer), t.known)
    BY <1>1 DEF IsMirrored
  <1> QED
    BY <1>1, <1>2 DEF KnownIsFine

\* A step a turn is given: one that nothing has, or one of those it knows.
MayBeSaved(T, t, step) ==
  /\ step \in KnownSteps
  /\ step.parent # Nobody => \E j \in 1..Len(t.known) : t.known[j].id = step.parent
  /\ \/ /\ \A s \in T : s.id # step.id
        /\ \A j \in 1..Len(t.known) : t.known[j].id # step.id
     \/ \E i \in 1..Len(t.known) : t.known[i].id = step.id /\ t.known[i].parent = step.parent

IsHeld(known, step, held, p) ==
  /\ held \in Seq(KnownSteps)
  /\ p \in 1..Len(held) /\ held[p] = step
  /\ \A j \in 1..Len(held) : j # p => j \in 1..Len(known) /\ held[j] = known[j]
  /\ \/ /\ p \in 1..Len(known) /\ Len(held) = Len(known)
        /\ known[p].id = step.id /\ known[p].parent = step.parent
     \/ /\ p = Len(known) + 1 /\ Len(held) = Len(known) + 1
        /\ \A j \in 1..Len(known) : known[j].id # step.id

LEMMA HeldIs ==
  ASSUME NEW T, NEW t \in Turns, KnownIsFine(T, t), NEW step, MayBeSaved(T, t, step)
  PROVE  \E p \in 1..Len(Held(t.known, step)) : IsHeld(t.known, step, Held(t.known, step), p)
PROOF
  <1> DEFINE known == t.known
             held == Held(known, step)
  <1>1. known \in Seq(KnownSteps) /\ step \in KnownSteps
    BY DEF Turns, MayBeSaved
  <1>2. Len(known) \in Nat
    BY <1>1
  <1>3. \A i, j \in 1..Len(known) : known[i].id = known[j].id => i = j
    BY DEF KnownIsFine
  <1>4. CASE \A j \in 1..Len(known) : known[j].id # step.id
    <2>1. held = Append(known, step)
      BY <1>4 DEF Held
    <2> HIDE DEF known, held
    <2>2. /\ held \in Seq(KnownSteps) /\ Len(held) = Len(known) + 1
          /\ held[Len(known) + 1] = step
          /\ \A j \in 1..Len(held) : j # Len(known) + 1 => j \in 1..Len(known) /\ held[j] = known[j]
      BY <1>1, <2>1
    <2>3. Len(known) + 1 \in 1..Len(held)
      BY <1>2, <2>2
    <2>4. IsHeld(known, step, held, Len(known) + 1)
      BY <1>4, <2>2, <2>3 DEF IsHeld
    <2> QED
      BY <2>3, <2>4 DEF known, held
  <1>5. CASE \E j \in 1..Len(known) : known[j].id = step.id
    <2>1. PICK p \in 1..Len(known) : known[p].id = step.id
      BY <1>5
    <2>2. held = [i \in 1..Len(known) |-> IF known[i].id = step.id THEN step ELSE known[i]]
      BY <1>5 DEF Held
    <2>3. known[p].parent = step.parent
      BY <1>3, <2>1 DEF MayBeSaved
    <2> HIDE DEF known, held
    <2>4. held \in [1..Len(known) -> KnownSteps]
      BY <1>1, <2>2
    <2>5. held \in Seq(KnownSteps) /\ Len(held) = Len(known)
      BY <1>2, <2>4
    <2>6. held[p] = step /\ \A j \in 1..Len(known) : j # p => held[j] = known[j]
      BY <1>3, <2>1, <2>2
    <2>7. IsHeld(known, step, held, p)
      BY <2>1, <2>3, <2>5, <2>6 DEF IsHeld
    <2> QED
      BY <2>1, <2>5, <2>7 DEF known, held
  <1> QED
    BY <1>4, <1>5

\* The turn, with a step held and perhaps lost.
LEMMA StepLost ==
  ASSUME NEW T, NEW t \in Turns, KnownIsFine(T, t), NEW step, MayBeSaved(T, t, step),
         NEW u, u.known = Held(t.known, step), u.answer = t.answer
  PROVE  /\ u.known \in Seq(KnownSteps)
         /\ \A i, j \in 1..Len(u.known) : u.known[i].id = u.known[j].id => i = j
         /\ \A i \in 1..Len(u.known) : u.known[i].parent # Nobody =>
              \E j \in 1..Len(u.known) : u.known[j].id = u.known[i].parent
         /\ \A i \in 1..Len(u.known), s \in T : s.id = u.known[i].id =>
              s.message = u.answer /\ s.parent = u.known[i].parent
PROOF
  <1> DEFINE known == t.known
             held == u.known
  <1>1. PICK p \in 1..Len(held) : IsHeld(known, step, held, p)
    BY HeldIs
  <1>2. known \in Seq(KnownSteps) /\ held \in Seq(KnownSteps)
    BY <1>1 DEF Turns, IsHeld
  <1>3. Len(known) \in Nat /\ Len(held) \in Nat
    BY <1>2
  <1>4. /\ \A i, j \in 1..Len(known) : known[i].id = known[j].id => i = j
        /\ \A i \in 1..Len(known) : known[i].parent # Nobody =>
             \E j \in 1..Len(known) : known[j].id = known[i].parent
        /\ \A i \in 1..Len(known), s \in T : s.id = known[i].id =>
             s.message = u.answer /\ s.parent = known[i].parent
    BY DEF KnownIsFine
  <1>5. /\ step.parent # Nobody => \E j \in 1..Len(known) : known[j].id = step.parent
        /\ p \notin 1..Len(known) => \A s \in T : s.id # step.id
    BY <1>1 DEF MayBeSaved, IsHeld
  <1> HIDE DEF known, held
  <1>6. \A j \in 1..Len(known) : j \in 1..Len(held) /\ held[j].id = known[j].id
    <2> TAKE j \in 1..Len(known)
    <2>1. j \in 1..Len(held)
      BY <1>1, <1>3 DEF IsHeld
    <2> QED
      BY <1>1, <2>1 DEF IsHeld
  <1>7. \A i, j \in 1..Len(held) : held[i].id = held[j].id => i = j
    BY <1>1, <1>4 DEF IsHeld
  <1>8. \A i \in 1..Len(held) : held[i].parent # Nobody =>
          \E j \in 1..Len(held) : held[j].id = held[i].parent
    <2> SUFFICES ASSUME NEW i \in 1..Len(held), held[i].parent # Nobody
                 PROVE  \E j \in 1..Len(held) : held[j].id = held[i].parent
      OBVIOUS
    <2>1. \E j \in 1..Len(known) : known[j].id = held[i].parent
      BY <1>1, <1>4, <1>5 DEF IsHeld
    <2> QED
      BY <1>6, <2>1
  <1>9. \A i \in 1..Len(held), s \in T : s.id = held[i].id =>
          s.message = u.answer /\ s.parent = held[i].parent
    <2> SUFFICES ASSUME NEW i \in 1..Len(held), NEW s \in T, s.id = held[i].id
                 PROVE  s.message = u.answer /\ s.parent = held[i].parent
      OBVIOUS
    <2>1. CASE i # p
      BY <1>1, <1>4, <2>1 DEF IsHeld
    <2>2. CASE i = p
      <3>1. p \in 1..Len(known) /\ known[p].id = held[p].id /\ known[p].parent = held[p].parent
        BY <1>1, <1>5, <2>2 DEF IsHeld
      <3> QED
        BY <1>4, <2>2, <3>1
    <2> QED
      BY <2>1, <2>2
  <1> QED
    BY <1>2, <1>7, <1>8, <1>9 DEF held

LEMMA RowIs ==
  ASSUME NEW message, NEW step, UniqueIds(rows.steps),
         NEW row, row = StepRow(message, step)
  PROVE  /\ row = [id |-> step.id, message |-> message, parent |-> step.parent,
                   status |-> step.status, position |-> row.position]
         /\ \A e \in rows.steps : e.id = step.id => row.position = e.position
         /\ (\A s \in rows.steps : s.id # step.id) =>
              row.position = Cardinality(StepsIn(rows.steps, message))
PROOF
  <1> DEFINE existing == {s \in rows.steps : s.id = step.id}
  <1>1. row = [id |-> step.id, message |-> message, parent |-> step.parent, status |-> step.status,
               position |-> IF existing = {} THEN Cardinality(StepsIn(rows.steps, message))
                            ELSE (CHOOSE s \in existing : TRUE).position]
    BY DEF StepRow, StepsOf, StepsIn
  <1>2. row.position = IF existing = {} THEN Cardinality(StepsIn(rows.steps, message))
                       ELSE (CHOOSE s \in existing : TRUE).position
    BY <1>1
  <1>3. ASSUME NEW e \in rows.steps, e.id = step.id
        PROVE  row.position = e.position
    <2>1. existing = {e}
      BY <1>3 DEF UniqueIds
    <2>2. (CHOOSE s \in existing : TRUE) = e
      BY <2>1
    <2> QED
      BY <1>2, <2>1, <2>2
  <1>4. ASSUME \A s \in rows.steps : s.id # step.id
        PROVE  row.position = Cardinality(StepsIn(rows.steps, message))
    <2>1. existing = {}
      BY <1>4
    <2> QED
      BY <1>2, <2>1
  <1>5. row = [id |-> step.id, message |-> message, parent |-> step.parent,
               status |-> step.status, position |-> row.position]
    BY <1>1
  <1> QED
    BY <1>3, <1>4, <1>5

\* What is stored of the step is the same turn's, so the row takes its place or the next one.
LEMMA RowTakesAPlace ==
  ASSUME NEW M, StepsAreFine(M, rows.steps), NEW t \in Turns, t # NoTurn, t.answer \in RowIds,
         KnownIsFine(rows.steps, t),
         NEW step, MayBeSaved(rows.steps, t, step), NEW row, row = StepRow(t.answer, step)
  PROVE  /\ row.id = step.id /\ row.message = t.answer /\ row.parent = step.parent
         /\ row.status = step.status
         /\ \/ \E e \in StepsIn(rows.steps, t.answer) :
                 /\ e.id = step.id /\ e.position = row.position /\ e.parent = row.parent
                 /\ Upserted(rows.steps, row) = (rows.steps \ {e}) \cup {row}
            \/ /\ \A s \in rows.steps : s.id # step.id
               /\ row.position = Cardinality(StepsIn(rows.steps, t.answer))
               /\ Upserted(rows.steps, row) = rows.steps \cup {row}
PROOF
  <1>1. UniqueIds(rows.steps)
    BY DEF StepsAreFine
  <1>2. /\ row = [id |-> step.id, message |-> t.answer, parent |-> step.parent,
                  status |-> step.status, position |-> row.position]
        /\ \A e \in rows.steps : e.id = step.id => row.position = e.position
        /\ (\A s \in rows.steps : s.id # step.id) =>
             row.position = Cardinality(StepsIn(rows.steps, t.answer))
    BY <1>1, RowIs
  <1>3. row.id = step.id /\ row.message = t.answer /\ row.parent = step.parent /\ row.status = step.status
    BY <1>2
  <1>4. CASE \A s \in rows.steps : s.id # step.id
    <2>1. Upserted(rows.steps, row) = rows.steps \cup {row}
      BY <1>3, <1>4, UpsertedAdds
    <2> QED
      BY <1>2, <1>3, <1>4, <2>1
  <1>5. CASE \E s \in rows.steps : s.id = step.id
    <2>1. PICK e \in rows.steps : e.id = step.id
      BY <1>5
    <2>2. PICK i \in 1..Len(t.known) : t.known[i].id = step.id /\ t.known[i].parent = step.parent
      BY <2>1 DEF MayBeSaved
    <2>3. e.message = t.answer /\ e.parent = step.parent
      BY <2>1, <2>2 DEF KnownIsFine
    <2>4. e \in StepsIn(rows.steps, t.answer)
      BY <2>3 DEF StepsIn
    <2>5. Upserted(rows.steps, row) = (rows.steps \ {e}) \cup {row}
      BY <1>1, <1>3, <2>1, UpsertedIs
    <2> QED
      BY <1>2, <1>3, <2>1, <2>3, <2>4, <2>5
  <1> QED
    BY <1>4, <1>5

\* As long as no save failed, a step fits: its parent is there and its place is free.
LEMMA StepFitsUnlessMissed ==
  ASSUME StepsAreFine(rows.messages, rows.steps), NEW t \in Turns, t # NoTurn, t.answer \in RowIds,
         \E m \in rows.messages : m.id = t.answer,
         KnownIsFine(rows.steps, t), ~t.missed,
         NEW step, MayBeSaved(rows.steps, t, step), NEW row, row = StepRow(t.answer, step)
  PROVE  StepFits(row)
PROOF
  <1> DEFINE S == StepsIn(rows.steps, t.answer)
  <1>1. /\ row.id = step.id /\ row.message = t.answer /\ row.parent = step.parent
        /\ \/ \E e \in S : e.id = step.id /\ e.position = row.position
           \/ row.position = Cardinality(S)
    BY RowTakesAPlace
  <1>2. Dense(S)
    BY DEF StepsAreFine
  <1>3. IsMirrored(S, t.known)
    BY DEF KnownIsFine
  <1>4. S \subseteq rows.steps
    BY DEF StepsIn
  <1>5. StepsOf(row.message) = S
    BY <1>1 DEF StepsOf, StepsIn
  <1> HIDE DEF S
  <1>6. row.parent # Nobody => \E s \in rows.steps : s.id = row.parent
    <2> SUFFICES ASSUME row.parent # Nobody
                 PROVE  \E s \in rows.steps : s.id = row.parent
      OBVIOUS
    <2>1. PICK j \in 1..Len(t.known) : t.known[j].id = row.parent
      BY <1>1 DEF MayBeSaved
    <2>2. PICK s \in S : s.position + 1 = j
      BY <1>3 DEF IsMirrored
    <2>3. s.id = row.parent
      BY <1>3, <2>1, <2>2 DEF IsMirrored
    <2> QED
      BY <1>4, <2>3
  <1>7. \A s \in S : s.position = row.position => s.id = row.id
    <2> SUFFICES ASSUME NEW s \in S, s.position = row.position
                 PROVE  s.id = row.id
      OBVIOUS
    <2>1. CASE \E e \in S : e.id = step.id /\ e.position = row.position
      <3>1. PICK e \in S : e.id = step.id /\ e.position = row.position
        BY <2>1
      <3>2. s = e
        BY <1>2, <3>1 DEF Dense
      <3> QED
        BY <1>1, <3>1, <3>2
    <2>2. CASE row.position = Cardinality(S)
      <3>1. s.position \in 0..Cardinality(S) - 1 /\ Cardinality(S) \in Nat
        BY <1>2, DenseIs
      <3> QED
        BY <2>2, <3>1
    <2> QED
      BY <1>1, <2>1, <2>2
  <1> QED
    BY <1>1, <1>5, <1>6, <1>7 DEF StepFits

LEMMA StepSavedIsFine ==
  ASSUME StepsAreFine(rows.messages, rows.steps), NEW t \in Turns, t # NoTurn, t.answer \in RowIds,
         KnownIsFine(rows.steps, t),
         NEW step, MayBeSaved(rows.steps, t, step), NEW row, row = StepRow(t.answer, step),
         StepFits(row)
  PROVE  StepsAreFine(rows.messages, Upserted(rows.steps, row))
PROOF
  <1> DEFINE T == rows.steps
             S == StepsIn(T, t.answer)
             saved == Upserted(T, row)
             Old(e) == /\ e.id = row.id /\ e.position = row.position /\ e.parent = row.parent
                       /\ saved = (T \ {e}) \cup {row}
             New == (\A s \in T : s.id # row.id) /\ row.position = Cardinality(S) /\ saved = T \cup {row}
  <1>1. /\ row.message = t.answer /\ row.id = step.id /\ row.parent = step.parent
        /\ (\E e \in S : Old(e)) \/ New
    BY RowTakesAPlace
  <1>2. /\ UniqueIds(T) /\ Dense(S)
        /\ \A s \in T : \E m \in rows.messages : m.id = s.message
        /\ \A message \in RowIds : Dense(StepsIn(T, message))
        /\ \A s \in T : s.parent # Nobody =>
             \E p \in T : p.message = s.message /\ p.id = s.parent /\ p.position < s.position
    BY DEF StepsAreFine
  <1>3. S \subseteq T /\ \A s \in S : s.message = t.answer
    BY DEF StepsIn
  <1>4. /\ \E m \in rows.messages : m.id = row.message
        /\ row.parent # Nobody => \E s \in T : s.id = row.parent
    BY DEF StepFits
  <1>5. row.parent # Nobody => \E j \in 1..Len(t.known) : t.known[j].id = row.parent
    BY <1>1 DEF MayBeSaved
  <1>6. \A i \in 1..Len(t.known), s \in T : s.id = t.known[i].id => s.message = t.answer
    BY DEF KnownIsFine
  <1>7. saved = {r \in T : r.id # row.id} \cup {row}
    BY DEF Upserted
  <1> HIDE DEF T, saved
  <1>8. UniqueIds(saved)
    BY <1>2, <1>7 DEF UniqueIds
  <1>9. \A s \in saved : \E m \in rows.messages : m.id = s.message
    BY <1>2, <1>4, <1>7
  <1>10. \A message : message # t.answer => StepsIn(saved, message) = StepsIn(T, message)
    <2>1. CASE \E e \in S : Old(e)
      BY <1>1, <1>3, <2>1 DEF StepsIn
    <2>2. CASE New
      BY <1>1, <2>2 DEF StepsIn
    <2> QED
      BY <1>1, <2>1, <2>2
  <1>11. Dense(StepsIn(saved, t.answer))
    <2>1. CASE \E e \in S : Old(e)
      <3>1. PICK e \in S : Old(e)
        BY <2>1
      <3>2. StepsIn(saved, t.answer) = (S \ {e}) \cup {row}
        BY <1>1, <3>1 DEF StepsIn
      <3>3. Dense((S \ {e}) \cup {row})
        BY <1>2, <3>1, DenseReplaces
      <3> QED
        BY <3>2, <3>3
    <2>2. CASE New
      <3>1. StepsIn(saved, t.answer) = S \cup {row}
        BY <1>1, <2>2 DEF StepsIn
      <3>2. Dense(S \cup {row})
        BY <1>2, <2>2, DenseAdds
      <3> QED
        BY <3>1, <3>2
    <2> QED
      BY <1>1, <2>1, <2>2
  <1>12. \A message \in RowIds : Dense(StepsIn(saved, message))
    <2> TAKE message \in RowIds
    <2>1. CASE message = t.answer
      BY <1>11, <2>1
    <2>2. CASE message # t.answer
      BY <1>2, <1>10, <2>2
    <2> QED
      BY <2>1, <2>2
  <1>13. row.parent # Nobody =>
           \E p \in saved : p.message = row.message /\ p.id = row.parent /\ p.position < row.position
    <2> SUFFICES ASSUME row.parent # Nobody
                 PROVE  \E p \in saved : p.message = row.message /\ p.id = row.parent /\ p.position < row.position
      OBVIOUS
    <2>1. PICK p \in T : p.id = row.parent
      BY <1>4
    <2>2. p \in S
      BY <1>5, <1>6, <2>1 DEF StepsIn
    <2>3. CASE \E e \in S : Old(e)
      <3>1. PICK e \in S : Old(e)
        BY <2>3
      <3>2. \E r \in T : r.message = e.message /\ r.id = e.parent /\ r.position < e.position
        BY <1>2, <1>3, <3>1
      <3>3. p.position < row.position
        BY <2>1, <3>1, <3>2, <1>2 DEF UniqueIds
      <3>4. p # e
        <4>1. p.position \in 0..Cardinality(S) - 1
          BY <1>2, <2>2, DenseIs
        <4> QED
          BY <3>1, <3>3, <4>1
      <3> QED
        BY <1>1, <1>3, <2>1, <2>2, <3>1, <3>3, <3>4
    <2>4. CASE New
      <3>1. p.position \in 0..Cardinality(S) - 1 /\ Cardinality(S) \in Nat
        BY <1>2, <2>2, DenseIs
      <3>2. p.position < row.position
        BY <2>4, <3>1
      <3> QED
        BY <1>1, <1>3, <2>1, <2>2, <2>4, <3>2
    <2> QED
      BY <1>1, <2>3, <2>4
  <1>14. ASSUME NEW s \in saved, s # row, s.parent # Nobody
         PROVE  \E p \in saved : p.message = s.message /\ p.id = s.parent /\ p.position < s.position
    <2>1. s \in T
      BY <1>7, <1>14
    <2>2. PICK p \in T : p.message = s.message /\ p.id = s.parent /\ p.position < s.position
      BY <1>2, <1>14, <2>1
    <2>3. CASE p \in saved
      BY <2>2, <2>3
    <2>4. CASE p \notin saved
      <3>1. p.id = row.id
        BY <1>7, <2>4
      <3>2. PICK e \in S : Old(e)
        BY <1>1, <3>1
      <3>3. p = e
        BY <1>2, <1>3, <3>1, <3>2 DEF UniqueIds
      <3>4. row \in saved /\ row.message = s.message /\ row.id = s.parent /\ row.position < s.position
        BY <1>1, <1>3, <1>7, <2>2, <3>2, <3>3
      <3> QED
        BY <3>4
    <2> QED
      BY <2>3, <2>4
  <1>15. \A s \in saved : s.parent # Nobody =>
           \E p \in saved : p.message = s.message /\ p.id = s.parent /\ p.position < s.position
    BY <1>13, <1>14
  <1> QED
    BY <1>8, <1>9, <1>12, <1>15 DEF StepsAreFine, saved, T

LEMMA StepSavedIsKnown ==
  ASSUME StepsAreFine(rows.messages, rows.steps), NEW t \in Turns, t # NoTurn, t.answer \in RowIds,
         KnownIsFine(rows.steps, t),
         NEW step, MayBeSaved(rows.steps, t, step), NEW row, row = StepRow(t.answer, step),
         NEW u, u.known = Held(t.known, step), u.answer = t.answer, u.missed = t.missed
  PROVE  KnownIsFine(Upserted(rows.steps, row), u)
PROOF
  <1> DEFINE T == rows.steps
             S == StepsIn(T, t.answer)
             saved == Upserted(T, row)
             known == t.known
             held == u.known
             Old(e) == /\ e.id = row.id /\ e.position = row.position
                       /\ saved = (T \ {e}) \cup {row}
             New == (\A s \in T : s.id # row.id) /\ row.position = Cardinality(S) /\ saved = T \cup {row}
  <1>1. /\ row.message = t.answer /\ row.id = step.id /\ row.parent = step.parent
        /\ row.status = step.status
        /\ (\E e \in S : Old(e)) \/ New
    BY RowTakesAPlace
  <1>2. PICK p \in 1..Len(held) : IsHeld(known, step, held, p)
    BY HeldIs
  <1>3. /\ \A i, j \in 1..Len(held) : held[i].id = held[j].id => i = j
        /\ \A i \in 1..Len(held) : held[i].parent # Nobody =>
             \E j \in 1..Len(held) : held[j].id = held[i].parent
        /\ \A i \in 1..Len(held), s \in T : s.id = held[i].id =>
             s.message = u.answer /\ s.parent = held[i].parent
    BY StepLost
  <1>4. saved = {r \in T : r.id # row.id} \cup {row}
    BY DEF Upserted
  <1>5. ~t.missed => IsMirrored(S, known)
    BY DEF KnownIsFine
  <1>6. Dense(S) /\ S \subseteq T
    BY DEF StepsAreFine, StepsIn
  <1>7. known \in Seq(KnownSteps) /\ held \in Seq(KnownSteps)
    BY <1>2 DEF Turns, IsHeld
  <1>8. Len(known) \in Nat /\ Len(held) \in Nat
    BY <1>7
  <1> HIDE DEF T, saved, known, held
  <1>9. held[p] = step /\ \A j \in 1..Len(held) : j # p => j \in 1..Len(known) /\ held[j] = known[j]
    BY <1>2 DEF IsHeld
  <1>10. \A i \in 1..Len(held), s \in saved : s.id = held[i].id =>
           s.message = u.answer /\ s.parent = held[i].parent
    <2> SUFFICES ASSUME NEW i \in 1..Len(held), NEW s \in saved, s.id = held[i].id
                 PROVE  s.message = u.answer /\ s.parent = held[i].parent
      OBVIOUS
    <2>1. CASE s = row
      <3>1. i = p
        BY <1>1, <1>3, <1>9, <2>1
      <3> QED
        BY <1>1, <1>9, <2>1, <3>1
    <2>2. CASE s # row
      BY <1>3, <1>4, <2>2
    <2> QED
      BY <2>1, <2>2
  <1>11. ~t.missed => IsMirrored(StepsIn(saved, t.answer), held)
    <2> SUFFICES ASSUME ~t.missed
                 PROVE  IsMirrored(StepsIn(saved, t.answer), held)
      OBVIOUS
    <2>1. /\ \A s \in S : /\ s.position + 1 \in 1..Len(known)
                          /\ known[s.position + 1].id = s.id /\ known[s.position + 1].status = s.status
          /\ \A i \in 1..Len(known) : \E s \in S : s.position + 1 = i
      BY <1>5 DEF IsMirrored
    <2>2. CASE \E e \in S : Old(e)
      <3>1. PICK e \in S : Old(e)
        BY <2>2
      <3>2. StepsIn(saved, t.answer) = (S \ {e}) \cup {row}
        BY <1>1, <3>1 DEF StepsIn
      <3>3. known[e.position + 1].id = step.id /\ e.position + 1 \in 1..Len(known)
        BY <1>1, <2>1, <3>1
      <3>4. p \in 1..Len(known) /\ Len(held) = Len(known) /\ known[p].id = step.id
        BY <1>2, <3>3 DEF IsHeld
      <3>5. p = e.position + 1
        BY <3>3, <3>4 DEF KnownIsFine, known
      <3>6. ASSUME NEW s \in (S \ {e}) \cup {row}
            PROVE  /\ s.position + 1 \in 1..Len(held)
                   /\ held[s.position + 1].id = s.id /\ held[s.position + 1].status = s.status
        <4>1. CASE s = row
          BY <1>1, <1>9, <3>1, <3>4, <3>5, <4>1
        <4>2. CASE s \in S \ {e}
          <5>1. s.position # e.position
            BY <1>6, <4>2 DEF Dense
          <5>2. s.position \in Nat /\ e.position \in Nat
            BY <1>6, <4>2, DenseIs
          <5>3. s.position + 1 # p
            BY <3>5, <5>1, <5>2
          <5> QED
            BY <1>9, <2>1, <3>4, <4>2, <5>3
        <4> QED
          BY <4>1, <4>2
      <3>7. ASSUME NEW i \in 1..Len(held)
            PROVE  \E s \in (S \ {e}) \cup {row} : s.position + 1 = i
        <4>1. PICK s \in S : s.position + 1 = i
          BY <2>1, <3>4
        <4> QED
          BY <3>1, <4>1
      <3> QED
        BY <3>2, <3>6, <3>7 DEF IsMirrored
    <2>3. CASE New
      <3>1. StepsIn(saved, t.answer) = S \cup {row}
        BY <1>1, <2>3 DEF StepsIn
      <3>2. Cardinality(S) \in Nat /\ \A s \in S : s.position \in 0..Cardinality(S) - 1
        BY <1>6, DenseIs
      <3>3. Cardinality(S) = Len(known)
        <4>1. \A i \in 0..Cardinality(S) - 1 : \E s \in S : s.position = i
          BY <1>6, DenseIs
        <4>2. \A i \in 1..Len(known) : i - 1 \in 0..Cardinality(S) - 1
          BY <2>1, <3>2
        <4>3. \A i \in 0..Cardinality(S) - 1 : i + 1 \in 1..Len(known)
          BY <2>1, <4>1
        <4>4. Len(known) <= Cardinality(S)
          <5>1. CASE Len(known) = 0
            BY <3>2, <5>1
          <5>2. CASE Len(known) \in 1..Len(known)
            BY <3>2, <4>2, <5>2
          <5> QED
            BY <1>8, <5>1, <5>2
        <4>5. Cardinality(S) <= Len(known)
          <5>1. CASE Cardinality(S) = 0
            BY <1>8, <5>1
          <5>2. CASE Cardinality(S) - 1 \in 0..Cardinality(S) - 1
            BY <3>2, <1>8, <4>3, <5>2
          <5> QED
            BY <3>2, <5>1, <5>2
        <4> QED
          BY <1>8, <3>2, <4>4, <4>5
      <3>4. \A j \in 1..Len(known) : known[j].id # step.id
        <4> SUFFICES ASSUME NEW j \in 1..Len(known), known[j].id = step.id
                     PROVE  FALSE
          OBVIOUS
        <4>1. PICK s \in S : s.position + 1 = j
          BY <2>1
        <4>2. s.id = row.id /\ s \in T
          BY <1>1, <1>6, <2>1, <4>1
        <4> QED
          BY <2>3, <4>2
      <3>5. p = Len(known) + 1 /\ Len(held) = Len(known) + 1
        BY <1>2, <3>4 DEF IsHeld
      <3>6. ASSUME NEW s \in S \cup {row}
            PROVE  /\ s.position + 1 \in 1..Len(held)
                   /\ held[s.position + 1].id = s.id /\ held[s.position + 1].status = s.status
        <4>1. CASE s = row
          <5>1. row.position + 1 = p
            BY <2>3, <3>3, <3>5
          <5> QED
            BY <1>1, <1>9, <4>1, <5>1
        <4>2. CASE s \in S
          <5>1. s.position + 1 \in 1..Len(known)
            BY <2>1, <4>2
          <5>2. s.position + 1 # p /\ s.position + 1 \in 1..Len(held)
            BY <1>8, <3>5, <5>1
          <5>3. held[s.position + 1] = known[s.position + 1]
            BY <1>9, <5>2
          <5> QED
            BY <2>1, <4>2, <5>2, <5>3
        <4> QED
          BY <4>1, <4>2
      <3>7. ASSUME NEW i \in 1..Len(held)
            PROVE  \E s \in S \cup {row} : s.position + 1 = i
        <4>1. CASE i = p
          BY <2>3, <3>3, <3>5, <4>1
        <4>2. CASE i # p
          BY <1>9, <2>1, <4>2
        <4> QED
          BY <4>1, <4>2
      <3> QED
        BY <3>1, <3>6, <3>7 DEF IsMirrored
    <2> QED
      BY <1>1, <2>2, <2>3
  <1>12. u # NoTurn /\ ~u.missed => IsMirrored(StepsIn(saved, u.answer), held)
    BY <1>11
  <1> QED
    BY <1>3, <1>10, <1>12 DEF KnownIsFine, saved, held, T

\* The steps that another turn knows are not touched.
LEMMA StepOfAnother ==
  ASSUME NEW T, NEW row, NEW t, KnownIsFine(T, t), row.message # t.answer \/ t = NoTurn,
         \A i \in 1..Len(t.known) : t.known[i].id # row.id,
         \A s \in T : s.id = row.id => s.message = row.message
  PROVE  KnownIsFine(Upserted(T, row), t)
PROOF
  <1> DEFINE saved == Upserted(T, row)
  <1>1. saved = {r \in T : r.id # row.id} \cup {row}
    BY DEF Upserted
  <1>2. t # NoTurn => StepsIn(saved, t.answer) = StepsIn(T, t.answer)
    BY <1>1 DEF StepsIn
  <1>3. \A i \in 1..Len(t.known), s \in saved : s.id = t.known[i].id =>
          s.message = t.answer /\ s.parent = t.known[i].parent
    BY <1>1 DEF KnownIsFine
  <1> HIDE DEF saved
  <1>4. KnownIsFine(saved, t)
    BY <1>2, <1>3 DEF KnownIsFine
  <1> QED
    BY <1>4 DEF saved

-----------------------------------------------------------------------------
\* The tables together.

LEMMA Types ==
  ASSUME TypeOK
  PROVE  /\ rows.open \in BOOLEAN /\ rows.failures \in Nat /\ rows.restarts \in Nat
         /\ rows.messages \in SUBSET MessageRows /\ rows.steps \in SUBSET StepRows
         /\ \A c \in Conversations :
              /\ rows.conversations[c] \in Sessions /\ rows.turns[c] \in Turns
              /\ rows.seen[c] \in SUBSET RowIds /\ MessagesOf(c) \in SUBSET MessageRows
         /\ rows.left \in SUBSET RowIds
         /\ \A c \in Conversations : \A m \in MessagesOf(c) : m \in rows.messages /\ m.conversation = c
  BY DEF TypeOK, MessagesOf

LEMMA NoTurnIs ==
  /\ NoTurn \in Turns /\ NoTurn.answer = Nobody /\ NoTurn.known = <<>> /\ NoTurn.missed = FALSE
  /\ Nobody \notin RowIds
  BY DEF NoTurn, Turns, Nobody, RowIds

LEMMA UsedIds ==
  ASSUME TypeOK
  PROVE  /\ IsFiniteSet(Used) /\ Used \subseteq RowIds
         /\ \A m \in rows.messages : m.id \in Used
         /\ \A s \in rows.steps : s.id \in Used
         /\ \A c \in Conversations : \A i \in 1..Len(rows.turns[c].known) : rows.turns[c].known[i].id \in Used
PROOF
  <1>1. \A m \in rows.messages : m.id \in Used /\ m.id \in RowIds
    BY Types DEF Used, MessageRows
  <1>2. \A s \in rows.steps : s.id \in Used /\ s.id \in RowIds
    BY Types DEF Used, StepRows
  <1>3. ASSUME NEW c \in Conversations, NEW i \in 1..Len(rows.turns[c].known)
        PROVE  rows.turns[c].known[i].id \in Used
    <2>1. rows.turns[c].known[i] \in ToSet(rows.turns[c].known)
      BY DEF ToSet
    <2>2. rows.turns[c].known[i] \in UNION {ToSet(rows.turns[d].known) : d \in Conversations}
      BY <2>1
    <2> QED
      BY <2>2 DEF Used
  <1>4. ASSUME NEW step \in UNION {ToSet(rows.turns[c].known) : c \in Conversations}
        PROVE  step.id \in RowIds
    <2>1. PICK c \in Conversations : step \in ToSet(rows.turns[c].known)
      OBVIOUS
    <2>2. rows.turns[c].known \in Seq(KnownSteps)
      BY Types DEF Turns
    <2>3. step \in KnownSteps
      BY <2>1, <2>2 DEF ToSet
    <2> QED
      BY <2>3 DEF KnownSteps
  <1>5. Used \subseteq RowIds
    BY <1>1, <1>2, <1>4 DEF Used
  <1>6. IsFiniteSet(RowIds)
    BY RowsAssumption, FS_Interval DEF RowIds
  <1>7. IsFiniteSet(Used)
    BY <1>5, <1>6, FS_Subset
  <1> QED
    BY <1>1, <1>2, <1>3, <1>5, <1>7

\* There is an id for every row there is room for.
LEMMA NewIds ==
  ASSUME TypeOK
  PROVE  /\ Room(1) => NewId \in RowIds \ Used
         /\ Room(2) => /\ NewId \in RowIds \ Used
                       /\ OtherNewId \in RowIds \ (Used \cup {NewId})
PROOF
  <1>1. IsFiniteSet(Used) /\ Used \subseteq RowIds
    BY UsedIds
  <1>2. IsFiniteSet(RowIds) /\ Cardinality(RowIds) = MaxRows
    BY RowsAssumption, FS_Interval DEF RowIds
  <1>3. Cardinality(Used) \in Nat
    BY <1>1, FiniteCard
  <1>4. ASSUME NEW S, IsFiniteSet(S), S \subseteq RowIds, Cardinality(S) < MaxRows
        PROVE  \E id \in RowIds : id \notin S
    <2>1. S # RowIds
      <3>1. Cardinality(S) \in Nat
        BY <1>4, FiniteCard
      <3> QED
        BY <1>2, <1>4, <3>1, RowsAssumption
    <2> QED
      BY <1>4, <2>1
  <1>5. ASSUME Cardinality(Used) + 1 <= MaxRows
        PROVE  NewId \in RowIds \ Used
    <2>1. Cardinality(Used) < MaxRows
      BY <1>3, <1>5, RowsAssumption
    <2>2. \E id \in 1..MaxRows : id \notin Used
      BY <1>1, <1>4, <2>1 DEF RowIds
    <2> QED
      BY <2>2 DEF NewId, RowIds
  <1>6. ASSUME Cardinality(Used) + 2 <= MaxRows
        PROVE  NewId \in RowIds \ Used /\ OtherNewId \in RowIds \ (Used \cup {NewId})
    <2>1. NewId \in RowIds \ Used
      BY <1>3, <1>5, <1>6, RowsAssumption
    <2> DEFINE S == Used \cup {NewId}
    <2>2. IsFiniteSet(S) /\ Cardinality(S) = Cardinality(Used) + 1
      BY <1>1, <2>1, FS_AddElement
    <2>3. S \subseteq RowIds
      BY <1>1, <2>1
    <2> HIDE DEF S
    <2>4. Cardinality(S) < MaxRows
      BY <1>3, <1>6, <2>2, RowsAssumption
    <2>5. \E id \in 1..MaxRows : id \notin S
      BY <1>4, <2>2, <2>3, <2>4 DEF RowIds
    <2>6. OtherNewId \in RowIds \ S
      BY <2>5 DEF OtherNewId, RowIds, S
    <2> QED
      BY <2>1, <2>6 DEF S
  <1> QED
    BY <1>5, <1>6 DEF Room

LEMMA NextPositionIs ==
  ASSUME NEW c, Dense(MessagesOf(c))
  PROVE  NextPosition(c) = Cardinality(MessagesOf(c)) /\ NextPosition(c) \in Nat
PROOF
  <1> DEFINE M == MessagesOf(c)
             read == Read(M)
  <1>1. Cardinality(M) \in Nat /\ IsFiniteSet(M)
    BY DenseIs
  <1>2. CASE M = {}
    BY <1>1, <1>2, FS_EmptySet DEF NextPosition
  <1>3. CASE M # {}
    <2>1. NextPosition(c) = Last(read).position + 1
      BY <1>3 DEF NextPosition, FindByConversation
    <2> HIDE DEF M, read
    <2>2. /\ Len(read) = Cardinality(M)
          /\ \A i \in 1..Len(read) : read[i].position = i - 1
      BY DenseRead DEF read, M
    <2>3. Cardinality(M) # 0
      BY <1>1, <1>3, FS_EmptySet
    <2>4. Last(read) = read[Len(read)] /\ Len(read) \in 1..Len(read)
      BY <1>1, <2>2, <2>3 DEF Last
    <2>5. Last(read).position = Cardinality(M) - 1
      BY <2>2, <2>4
    <2> QED
      BY <1>1, <2>1, <2>5 DEF M
  <1> QED
    BY <1>2, <1>3

LEMMA LastIs ==
  ASSUME NEW c, Dense(MessagesOf(c)), MessagesOf(c) # {}
  PROVE  /\ Last(FindByConversation(c)) \in MessagesOf(c)
         /\ \A m \in MessagesOf(c) : m.position <= Last(FindByConversation(c)).position
PROOF
  <1> DEFINE M == MessagesOf(c)
             read == Read(M)
  <1>1. FindByConversation(c) = read
    BY DEF FindByConversation
  <1>2. /\ Cardinality(M) \in Nat /\ IsFiniteSet(M)
        /\ \A m \in M : m.position \in 0..Cardinality(M) - 1
    BY DenseIs
  <1>3. /\ read \in Seq(M) /\ Len(read) = Cardinality(M)
        /\ \A i \in 1..Len(read) : read[i].position = i - 1
    BY DenseRead
  <1>4. M # {}
    OBVIOUS
  <1> HIDE DEF M, read
  <1>5. Cardinality(M) # 0
    BY <1>2, <1>4, FS_EmptySet
  <1>6. Last(read) = read[Len(read)] /\ Len(read) \in 1..Len(read)
    BY <1>2, <1>3, <1>5 DEF Last
  <1>7. Last(read) \in M /\ Last(read).position = Cardinality(M) - 1
    BY <1>3, <1>6
  <1> QED
    BY <1>1, <1>2, <1>7 DEF M

\* In a conversation without a turn nothing runs.
LEMMA IdleIs ==
  ASSUME RowsInv, NEW c \in Conversations, rows.open, rows.turns[c] = NoTurn
  PROVE  AreLeft(MessagesOf(c), rows.left)
  BY Types, NoTurnIs DEF RowsInv, Attended, MessageRows, AreLeft

\* Ids of messages are unique within a conversation too.
LEMMA UniqueOf ==
  ASSUME NEW c, UniqueIds(rows.messages)
  PROVE  UniqueIds(MessagesOf(c))
  BY DEF UniqueIds, MessagesOf

-----------------------------------------------------------------------------
\* Each call keeps the tables as they should be.

Tables ==
  [open : BOOLEAN, conversations : [Conversations -> Sessions], messages : SUBSET MessageRows,
   steps : SUBSET StepRows, turns : [Conversations -> Turns],
   seen : [Conversations -> SUBSET RowIds], left : SUBSET RowIds, failures : Nat, restarts : Nat]

RowsOf(messages, c) == {m \in messages : m.conversation = c}
PlanOf(table, c) ==
  PlanTranscript(RowsOf(table.messages, c), table.conversations[c].session, table.conversations[c].start)

LEMMA BegunIs ==
  ASSUME NEW table \in Tables, NEW c \in Conversations, NEW answer
  PROVE  Begun(table, c, answer) =
           [table EXCEPT !.turns = [@ EXCEPT ![c] = TurnFor(answer, PlanOf(table, c))],
                         !.seen = [@ EXCEPT ![c] = Heard(table.seen[c], answer, PlanOf(table, c))]]
  BY DEF Begun, TurnFor, Heard, Tables, PlanOf, RowsOf

LEMMA InitIsFine == Init => RowsInv
PROOF
  <1> SUFFICES ASSUME Init
               PROVE  RowsInv
    OBVIOUS
  <1>1. /\ rows.open = TRUE /\ rows.messages = {} /\ rows.steps = {} /\ rows.failures = 0
        /\ rows.left = {}
        /\ \A c \in Conversations :
             /\ rows.conversations[c] = Gone /\ rows.turns[c] = NoTurn /\ rows.seen[c] = {}
    BY DEF Init
  <1>2. TypeOK
    <2>1. Gone \in Sessions
      BY DEF Gone, Sessions
    <2> QED
      BY <2>1, NoTurnIs DEF Init, TypeOK
  <1>3. ASSUME NEW c \in Conversations
        PROVE  ConversationIsFine(MessagesOf(c), rows.turns[c], rows.conversations[c], rows.seen[c], rows.left)
    <2>1. MessagesOf(c) = {}
      BY <1>1 DEF MessagesOf
    <2>2. ~Gone.session
      BY DEF Gone
    <2>3. AnswersFollowQuestions({})
      BY DEF AnswersFollowQuestions
    <2> QED
      BY <1>1, <2>1, <2>2, <2>3, DenseEmpty, NothingGoesOn
  <1>4. StepsAreFine(rows.messages, rows.steps)
    <2>1. \A message : StepsIn({}, message) = {}
      BY DEF StepsIn
    <2> QED
      BY <1>1, <2>1, DenseEmpty DEF StepsAreFine, UniqueIds
  <1>5. \A c \in Conversations : KnownIsFine(rows.steps, rows.turns[c])
    BY <1>1, NoTurnIs, NothingKnown
  <1>6. \A c, d \in Conversations : KnowApart(rows.turns[c], rows.turns[d])
    BY <1>1, NoTurnIs DEF KnowApart
  <1>7. Attended
    BY <1>1, NoTurnIs DEF Attended, LeftRun, LeftAlone
  <1> QED
    BY <1>1, <1>2, <1>3, <1>4, <1>5, <1>6, <1>7 DEF RowsInv, UniqueIds

LEMMA CreateConversationIsFine ==
  ASSUME RowsInv, NEW c \in Conversations, CreateConversation(c)
  PROVE  RowsInv'
PROOF
  <1>1. rows' = [rows EXCEPT !.conversations[c] = Created]
    BY DEF CreateConversation
  <1>2. TypeOK
    BY DEF RowsInv
  <1>3. Created \in Sessions /\ ~Created.session
    BY DEF Created, Gone, Sessions
  <1>4. /\ rows'.open = rows.open /\ rows'.messages = rows.messages /\ rows'.steps = rows.steps
        /\ rows'.turns = rows.turns /\ rows'.seen = rows.seen /\ rows'.failures = rows.failures
        /\ rows'.left = rows.left /\ rows'.conversations = [rows.conversations EXCEPT ![c] = Created]
    BY <1>1, <1>2 DEF TypeOK
  <1>5. TypeOK'
    BY <1>1, <1>2, <1>3 DEF TypeOK
  <1>6. \A d : MessagesOf(d)' = MessagesOf(d)
    BY <1>4 DEF MessagesOf
  <1>7. ASSUME NEW d \in Conversations
        PROVE  ConversationIsFine(MessagesOf(d)', rows'.turns[d], rows'.conversations[d], rows'.seen[d], rows'.left)
    <2>1. ConversationIsFine(MessagesOf(d), rows.turns[d], rows.conversations[d], rows.seen[d], rows.left)
      BY DEF RowsInv
    <2>2. CASE d # c
      <3>1. rows'.conversations[d] = rows.conversations[d]
        BY <1>2, <1>4, <2>2 DEF TypeOK
      <3> QED
        BY <1>4, <1>6, <2>1, <3>1
    <2>3. CASE d = c
      <3>1. rows'.conversations[d] = Created
        BY <1>2, <1>4, <2>3 DEF TypeOK
      <3> QED
        <4>1. ~rows.conversations[c].forgotten
          BY <1>2, Types DEF CreateConversation, Sessions
        <4>2. TurnSaw(MessagesOf(c), rows.turns[c], Created, rows.seen[c])
          BY <2>1, <2>3, <4>1 DEF ConversationIsFine, TurnSaw
        <4>3. SessionIsFine(MessagesOf(c), Created, rows.seen[c], rows.left)
          BY <1>3 DEF SessionIsFine
        <4>4. ConversationIsFine(MessagesOf(c), rows.turns[c], Created, rows.seen[c], rows.left)
          BY <2>1, <2>3, <4>2, <4>3 DEF ConversationIsFine
        <4> QED
          BY <1>4, <1>6, <2>3, <3>1, <4>4
    <2> QED
      BY <2>2, <2>3
  <1>8. Attended'
    BY <1>4 DEF RowsInv, Attended
  <1> QED
    BY <1>4, <1>5, <1>7, <1>8 DEF RowsInv

\* A question that is stored.
Question(c, size) == Message(c, NewId, NextPosition(c), "User", "Complete", size)

LEMMA AppendedIs ==
  ASSUME RowsInv, NEW c \in Conversations, Idle(c), NEW size \in Sizes, NewId \in RowIds \ Used,
         NEW q, q = Question(c, size)
  PROVE  /\ q \in MessageRows /\ q.conversation = c /\ q.id = NewId
         /\ q.position = Cardinality(MessagesOf(c)) /\ q.role = "User" /\ q.status = "Complete"
         /\ Appended(c, size) = [rows EXCEPT !.messages = @ \cup {q}]
         /\ UniqueIds(rows.messages \cup {q})
         /\ Dense(MessagesOf(c) \cup {q}) /\ AnswersFollowQuestions(MessagesOf(c) \cup {q})
         /\ rows.conversations[c].session =>
              Begins(MessagesOf(c) \cup {q}, rows.conversations[c].start)
         /\ rows.conversations[c].session /\ ~rows.conversations[c].forgotten =>
              SawTail(MessagesOf(c) \cup {q}, rows.conversations[c].start, rows.seen[c])
PROOF
  <1> DEFINE M == MessagesOf(c)
             k == rows.conversations[c]
  <1>1. TypeOK /\ rows.open /\ rows.turns[c] = NoTurn
    BY DEF RowsInv, Idle, MayCall
  <1>2. ConversationIsFine(M, NoTurn, k, rows.seen[c], rows.left)
    BY <1>1 DEF RowsInv
  <1>3. Dense(M) /\ AnswersFollowQuestions(M) /\ M \in SUBSET MessageRows
    BY <1>1, <1>2, Types DEF ConversationIsFine
  <1>4. NextPosition(c) = Cardinality(M) /\ NextPosition(c) \in Nat
    BY <1>3, NextPositionIs
  <1>5. size \in Nat
    BY DEF Sizes
  <1>6. /\ q \in MessageRows /\ q.conversation = c /\ q.id = NewId
        /\ q.position = Cardinality(M) /\ q.role = "User" /\ q.status = "Complete"
    BY <1>4, <1>5 DEF Question, Message, MessageRows
  <1>7. Appended(c, size) = [rows EXCEPT !.messages = @ \cup {q}]
    BY DEF Appended, Question
  <1>8. UniqueIds(rows.messages \cup {q})
    BY <1>1, <1>6, UsedIds DEF RowsInv, UniqueIds
  <1>9. AreLeft(M, rows.left)
    BY <1>1, IdleIs
  <1>10. /\ k.session => Begins(M, k.start)
         /\ k.session /\ ~k.forgotten => SawTail(M, k.start, rows.seen[c])
    BY <1>2, <1>9 DEF ConversationIsFine, SessionIsFine
  <1> HIDE DEF M, k
  <1>11. /\ Dense(M \cup {q}) /\ AnswersFollowQuestions(M \cup {q})
         /\ k.session => Begins(M \cup {q}, k.start)
         /\ k.session /\ ~k.forgotten => SawTail(M \cup {q}, k.start, rows.seen[c])
    BY <1>3, <1>6, <1>10, QuestionAdded
  <1> QED
    BY <1>6, <1>7, <1>8, <1>11 DEF M, k

\* A call for one conversation leaves the others alone.
LEMMA OthersAreLeft ==
  ASSUME RowsInv, NEW c \in Conversations, TypeOK', UniqueIds(rows'.messages),
         \A d \in Conversations : d # c =>
           /\ MessagesOf(d)' = MessagesOf(d) /\ rows'.turns[d] = rows.turns[d]
           /\ rows'.conversations[d] = rows.conversations[d] /\ rows'.seen[d] = rows.seen[d]
           /\ KnownIsFine(rows'.steps, rows.turns[d]) /\ KnowApart(rows'.turns[c], rows.turns[d])
           /\ \A m \in MessagesOf(d) : m.id \in rows'.left => m.id \in rows.left,
         ConversationIsFine(MessagesOf(c)', rows'.turns[c], rows'.conversations[c], rows'.seen[c], rows'.left),
         StepsAreFine(rows'.messages, rows'.steps), KnownIsFine(rows'.steps, rows'.turns[c]),
         Attended'
  PROVE  RowsInv'
PROOF
  <1>1. ASSUME NEW d \in Conversations
        PROVE  ConversationIsFine(MessagesOf(d)', rows'.turns[d], rows'.conversations[d], rows'.seen[d], rows'.left)
    <2>1. CASE d = c
      BY <2>1
    <2>2. CASE d # c
      <3>1. ConversationIsFine(MessagesOf(d), rows.turns[d], rows.conversations[d], rows.seen[d], rows.left)
        BY DEF RowsInv
      <3>2. \A m \in MessagesOf(d) : m.id \in rows'.left => m.id \in rows.left
        BY <2>2
      <3>3. ConversationIsFine(MessagesOf(d), rows.turns[d], rows.conversations[d], rows.seen[d], rows'.left)
        BY <3>1, <3>2, FewerAreLeft
      <3> QED
        BY <2>2, <3>3
    <2> QED
      BY <2>1, <2>2
  <1>2. \A d \in Conversations : KnownIsFine(rows'.steps, rows'.turns[d])
    OBVIOUS
  <1>3. ASSUME NEW d \in Conversations, NEW e \in Conversations, d # e
        PROVE  KnowApart(rows'.turns[d], rows'.turns[e])
    <2>1. CASE d # c /\ e # c
      BY <1>3, <2>1 DEF RowsInv
    <2>2. CASE d = c
      BY <1>3, <2>2
    <2>3. CASE e = c
      <3>1. KnowApart(rows'.turns[e], rows'.turns[d])
        BY <1>3, <2>3
      <3> QED
        BY <3>1 DEF KnowApart
    <2> QED
      BY <2>1, <2>2, <2>3
  <1> QED
    BY <1>1, <1>2, <1>3 DEF RowsInv

\* A turn that holds no step shares none.
LEMMA NobodyKnows ==
  ASSUME NEW t, NEW u, t.known = <<>>
  PROVE  KnowApart(t, u)
  BY DEF KnowApart

LEMMA SendFailsIsFine ==
  ASSUME RowsInv, NEW c \in Conversations, NEW size \in Sizes, SendFails(c, size)
  PROVE  RowsInv'
PROOF
  <1> DEFINE M == MessagesOf(c)
             k == rows.conversations[c]
  <1> PICK q : q = Question(c, size)
    OBVIOUS
  <1>1. TypeOK /\ Idle(c) /\ rows.open /\ rows.turns[c] = NoTurn
    BY DEF RowsInv, SendFails, Idle, MayCall
  <1>2. NewId \in RowIds \ Used
    BY <1>1, NewIds DEF SendFails
  <1>3. /\ q \in MessageRows /\ q.conversation = c /\ q.status = "Complete"
        /\ Appended(c, size) = [rows EXCEPT !.messages = @ \cup {q}]
        /\ UniqueIds(rows.messages \cup {q})
        /\ Dense(M \cup {q}) /\ AnswersFollowQuestions(M \cup {q})
        /\ k.session => Begins(M \cup {q}, k.start)
        /\ k.session /\ ~k.forgotten => SawTail(M \cup {q}, k.start, rows.seen[c])
    BY <1>1, <1>2, AppendedIs
  <1>4. rows' = [[rows EXCEPT !.messages = @ \cup {q}] EXCEPT !.failures = @ + 1]
    BY <1>3 DEF SendFails
  <1>5. /\ rows'.open = rows.open /\ rows'.messages = rows.messages \cup {q}
        /\ rows'.steps = rows.steps /\ rows'.turns = rows.turns /\ rows'.seen = rows.seen
        /\ rows'.conversations = rows.conversations /\ rows'.failures = rows.failures + 1
        /\ rows'.left = rows.left
    BY <1>1, <1>4 DEF TypeOK
  <1>6. rows.failures \in Nat /\ rows.messages \cup {q} \in SUBSET MessageRows
    BY <1>1, <1>3, Types
  <1>7. TypeOK'
    <2>1. rows.failures + 1 \in Nat
      BY <1>6
    <2> QED
      BY <1>1, <1>4, <1>6, <2>1 DEF TypeOK
  <1>8. MessagesOf(c)' = M \cup {q} /\ \A d : d # c => MessagesOf(d)' = MessagesOf(d)
    BY <1>3, <1>5 DEF MessagesOf
  <1>9. ConversationIsFine(MessagesOf(c)', rows'.turns[c], rows'.conversations[c], rows'.seen[c], rows'.left)
    <2>1. ConversationIsFine(M \cup {q}, NoTurn, k, rows.seen[c], rows.left)
      <3> HIDE DEF M, k
      <3> QED
        BY <1>3 DEF ConversationIsFine, TurnIsFine, TurnSaw, SessionIsFine
    <2> QED
      BY <1>1, <1>5, <1>8, <2>1
  <1>10. StepsAreFine(rows'.messages, rows'.steps)
    <2>1. \A m \in rows.messages : \E n \in rows.messages \cup {q} : n.id = m.id
      OBVIOUS
    <2> QED
      BY <1>5, <2>1, StepsOfOthers DEF RowsInv
  <1>11. Attended'
    <2>1. \A m \in rows'.messages : m.status = "Running" =>
            rows'.turns[m.conversation].answer = m.id \/ m.id \in rows'.left
      BY <1>1, <1>3, <1>5 DEF RowsInv, Attended
    <2>2. ~rows'.failures = 0 /\ rows'.failures > 0
      BY <1>5, <1>6
    <2>3. LeftRun(rows'.messages, rows'.left) /\ LeftAlone(rows'.turns, rows'.left)
      BY <1>5 DEF RowsInv, Attended, LeftRun
    <2> QED
      BY <1>1, <1>5, <2>1, <2>2, <2>3 DEF Attended
  <1>12. KnownIsFine(rows.steps, NoTurn) /\ \A u : KnowApart(NoTurn, u)
    BY NoTurnIs, NothingKnown, NobodyKnows
  <1>13. \A d \in Conversations : KnownIsFine(rows.steps, rows.turns[d])
    BY DEF RowsInv
  <1> HIDE DEF M, k
  <1> QED
    BY <1>1, <1>3, <1>5, <1>7, <1>8, <1>9, <1>10, <1>11, <1>12, <1>13, OthersAreLeft

\* The tables as they are when the turn of the answer a begins.
MayBegin(table, c, a) ==
  LET N == RowsOf(table.messages, c)
      k == rows.conversations[c]
  IN  /\ table \in Tables
      /\ table.open = rows.open /\ table.conversations = rows.conversations
      /\ table.turns = rows.turns /\ table.seen = rows.seen /\ table.failures = rows.failures
      /\ table.left = rows.left /\ LeftRun(table.messages, rows.left) /\ a.id \notin rows.left
      /\ UniqueIds(table.messages) /\ Dense(N) /\ AnswersFollowQuestions(N)
      /\ k.session => Begins(N, k.start)
      /\ k.session /\ ~k.forgotten => SawTail(N, k.start, rows.seen[c])
      /\ \A d \in Conversations : d # c => RowsOf(table.messages, d) = MessagesOf(d)
      /\ a \in N /\ a.role = "Assistant" /\ a.status = "Running"
      /\ \A m \in N : m.position <= a.position /\ (m.status = "Running" => m = a \/ m.id \in rows.left)
      /\ StepsAreFine(table.messages, table.steps) /\ StepsIn(table.steps, a.id) = {}
      /\ \A d \in Conversations : d # c => KnownIsFine(table.steps, rows.turns[d])
      /\ rows.failures = 0 => \A s \in table.steps : s.status = "Running" =>
           \E m \in table.messages : m.id = s.message /\ m.status = "Running"

LEMMA TurnBegunIsFine ==
  ASSUME RowsInv, NEW c \in Conversations, Idle(c), NEW table, NEW a, MayBegin(table, c, a),
         rows' = Begun(table, c, a.id)
  PROVE  RowsInv'
PROOF
  <1> DEFINE k == rows.conversations[c]
             s == rows.seen[c]
             N == RowsOf(table.messages, c)
  <1> PICK plan : plan = PlanOf(table, c)
    OBVIOUS
  <1> USE DEF MayBegin
  <1> DEFINE t == TurnFor(a.id, plan)
             heard == Heard(s, a.id, plan)
  <1>1. TypeOK /\ rows.open /\ rows.turns[c] = NoTurn /\ k \in Sessions /\ s \in SUBSET RowIds
    BY Types DEF RowsInv, Idle, MayCall
  <1>2. N \in SUBSET MessageRows /\ UniqueIds(N)
    BY DEF Tables, UniqueIds, RowsOf
  <1>3. /\ t \in Turns /\ t # NoTurn /\ heard \in SUBSET RowIds
        /\ ConversationIsFine(N, t, k, heard, rows.left)
    <2>1. \A m \in N : m.position <= a.position
      OBVIOUS
    <2>2. /\ k.session => Begins(N, k.start)
          /\ k.session /\ ~k.forgotten => SawTail(N, k.start, s)
      OBVIOUS
    <2>3. plan = PlanTranscript(N, k.session, k.start)
      BY DEF PlanOf
    <2> HIDE DEF k, s
    <2> QED
      BY <1>1, <1>2, <2>1, <2>2, <2>3, TurnBegins
  <1>4. rows' = [table EXCEPT !.turns = [@ EXCEPT ![c] = t], !.seen = [@ EXCEPT ![c] = heard]]
    <2>1. rows' = [table EXCEPT !.turns = [@ EXCEPT ![c] = TurnFor(a.id, PlanOf(table, c))],
                                !.seen = [@ EXCEPT ![c] = Heard(table.seen[c], a.id, PlanOf(table, c))]]
      BY BegunIs
    <2> QED
      BY <2>1
  <1>5. t.known = <<>> /\ t.answer = a.id /\ t.missed = FALSE
    BY DEF TurnFor
  <1> HIDE DEF t, heard
  <1>6. /\ rows'.open = rows.open /\ rows'.messages = table.messages /\ rows'.steps = table.steps
        /\ rows'.conversations = rows.conversations /\ rows'.failures = rows.failures
        /\ rows'.turns = [rows.turns EXCEPT ![c] = t] /\ rows'.seen = [rows.seen EXCEPT ![c] = heard]
        /\ rows'.left = rows.left
    BY <1>4 DEF Tables
  <1>7. /\ rows.turns \in [Conversations -> Turns] /\ rows.seen \in [Conversations -> SUBSET RowIds]
    BY <1>1 DEF TypeOK
  <1>8. TypeOK'
    <2>1. [rows.turns EXCEPT ![c] = t] \in [Conversations -> Turns]
      BY <1>3, <1>7
    <2>2. [rows.seen EXCEPT ![c] = heard] \in [Conversations -> SUBSET RowIds]
      BY <1>3, <1>7
    <2>3. rows' = [table EXCEPT !.turns = [rows.turns EXCEPT ![c] = t],
                                !.seen = [rows.seen EXCEPT ![c] = heard]]
      BY <1>4 DEF Tables
    <2>4. \A tt \in [Conversations -> Turns], ss \in [Conversations -> SUBSET RowIds] :
            [table EXCEPT !.turns = tt, !.seen = ss] \in Tables
      BY DEF Tables
    <2>5. rows' \in Tables
      <3> HIDE DEF MayBegin, k, s, N
      <3> QED
        BY <2>1, <2>2, <2>3, <2>4
    <2> QED
      BY <2>5 DEF Tables, TypeOK
  <1>9. MessagesOf(c)' = N /\ \A d \in Conversations : d # c => MessagesOf(d)' = MessagesOf(d)
    BY <1>6 DEF MessagesOf, RowsOf
  <1>10. /\ rows'.turns[c] = t /\ rows'.seen[c] = heard /\ rows'.conversations[c] = k
         /\ \A d \in Conversations : d # c =>
              /\ rows'.turns[d] = rows.turns[d] /\ rows'.seen[d] = rows.seen[d]
              /\ rows'.conversations[d] = rows.conversations[d]
    BY <1>6, <1>7
  <1>11. KnownIsFine(rows'.steps, t) /\ \A u : KnowApart(t, u)
    BY <1>5, <1>6, NothingKnown, NobodyKnows
  <1>12. Attended'
    <2>1. \A m \in rows'.messages : m.status = "Running" =>
            rows'.turns[m.conversation].answer = m.id \/ m.id \in rows'.left
      <3> SUFFICES ASSUME NEW m \in table.messages, m.status = "Running"
                   PROVE  rows'.turns[m.conversation].answer = m.id \/ m.id \in rows.left
        BY <1>6
      <3>1. m.conversation \in Conversations
        BY DEF Tables, MessageRows
      <3>2. CASE m.conversation = c
        BY <1>5, <1>10, <3>2 DEF RowsOf
      <3>3. CASE m.conversation # c
        <4>1. m \in rows.messages
          BY <3>1, <3>3 DEF MessagesOf, RowsOf
        <4>2. rows.turns[m.conversation].answer = m.id \/ m.id \in rows.left
          BY <1>1, <4>1 DEF RowsInv, Attended
        <4> QED
          BY <1>10, <3>1, <3>3, <4>2
      <3> QED
        BY <3>2, <3>3
    <2>2. \A d \in Conversations : rows'.turns[d].missed => rows'.failures > 0
      BY <1>5, <1>6, <1>10 DEF RowsInv, Attended
    <2>3. LeftRun(rows'.messages, rows'.left)
      BY <1>6
    <2>4. LeftAlone(rows'.turns, rows'.left)
      BY <1>5, <1>6, <1>10 DEF RowsInv, Attended, LeftAlone
    <2>5. rows'.left # {} => rows'.failures > 0
      BY <1>6 DEF RowsInv, Attended
    <2> QED
      BY <1>1, <1>6, <2>1, <2>2, <2>3, <2>4, <2>5 DEF Attended
  <1> HIDE DEF k, s
  <1> QED
    BY <1>3, <1>6, <1>8, <1>9, <1>10, <1>11, <1>12, OthersAreLeft

\* The answer whose turn does not begin is that of no other turn.
LEMMA NobodysAnswer ==
  ASSUME RowsInv, NEW c \in Conversations, Idle(c), NEW table, NEW a, MayBegin(table, c, a),
         NEW d \in Conversations
  PROVE  rows.turns[d].answer # a.id
PROOF
  <1>1. TypeOK /\ rows.turns[c] = NoTurn /\ a \in RowsOf(table.messages, c) /\ table \in Tables
    BY DEF RowsInv, Idle, MayBegin
  <1>2. a \in table.messages /\ a.conversation = c /\ a.id \in RowIds
    BY <1>1 DEF RowsOf, Tables, MessageRows
  <1>3. CASE rows.turns[d] = NoTurn
    BY <1>2, <1>3, NoTurnIs
  <1>4. CASE rows.turns[d] # NoTurn
    <2>1. PICK b \in MessagesOf(d) : b.id = rows.turns[d].answer
      BY <1>4 DEF RowsInv, ConversationIsFine, TurnIsFine, IsTheAnswer
    <2>2. d # c /\ RowsOf(table.messages, d) = MessagesOf(d)
      BY <1>1, <1>4 DEF MayBegin
    <2>3. b \in table.messages /\ b.conversation = d
      BY <2>1, <2>2 DEF RowsOf
    <2>4. UniqueIds(table.messages)
      BY DEF MayBegin
    <2> QED
      BY <1>2, <2>1, <2>2, <2>3, <2>4 DEF UniqueIds
  <1> QED
    BY <1>3, <1>4

\* A launch that fails leaves the answer running.
LEMMA AnswerLeftIsFine ==
  ASSUME RowsInv, NEW c \in Conversations, Idle(c), NEW table, NEW a, MayBegin(table, c, a),
         rows' = [table EXCEPT !.failures = @ + 1, !.left = @ \cup {a.id}]
  PROVE  RowsInv'
PROOF
  <1> DEFINE k == rows.conversations[c]
             s == rows.seen[c]
             N == RowsOf(table.messages, c)
  <1>l. PICK left : left = rows.left \cup {a.id}
    OBVIOUS
  <1>1. /\ TypeOK /\ rows.open /\ rows.turns[c] = NoTurn
        /\ rows.failures \in Nat /\ rows.left \in SUBSET RowIds
    BY Types DEF RowsInv, Idle, MayCall
  <1>2. /\ table \in Tables /\ table.open = rows.open /\ table.conversations = rows.conversations
        /\ table.turns = rows.turns /\ table.seen = rows.seen /\ table.failures = rows.failures
        /\ table.left = rows.left /\ a \in N
    BY DEF MayBegin
  <1>3. a \in table.messages /\ a.conversation = c /\ a.id \in RowIds /\ a.status = "Running"
    BY <1>2 DEF RowsOf, Tables, MessageRows, MayBegin
  <1>4. rows' = [table EXCEPT !.failures = rows.failures + 1, !.left = left]
    BY <1>l, <1>2
  <1>5. /\ rows'.open = rows.open /\ rows'.messages = table.messages /\ rows'.steps = table.steps
        /\ rows'.conversations = rows.conversations /\ rows'.failures = rows.failures + 1
        /\ rows'.turns = rows.turns /\ rows'.seen = rows.seen /\ rows'.left = left
    BY <1>2, <1>4 DEF Tables
  <1>6. rows.failures + 1 \in Nat /\ ~(rows.failures + 1 = 0) /\ rows.failures + 1 > 0
    BY <1>1
  <1>7. TypeOK'
    <2>1. left \in SUBSET RowIds
      BY <1>l, <1>1, <1>3
    <2>2. rows' \in Tables
      BY <1>2, <1>4, <1>6, <2>1 DEF Tables
    <2> QED
      BY <2>2 DEF Tables, TypeOK
  <1>8. MessagesOf(c)' = N /\ \A d \in Conversations : d # c => MessagesOf(d)' = MessagesOf(d)
    BY <1>5 DEF MessagesOf, RowsOf, MayBegin
  <1>9. ConversationIsFine(N, NoTurn, k, s, left)
    <2>1. /\ Dense(N) /\ AnswersFollowQuestions(N)
          /\ k.session => Begins(N, k.start)
          /\ k.session /\ ~k.forgotten => SawTail(N, k.start, s)
      BY DEF MayBegin
    <2> HIDE DEF N, k, s
    <2> QED
      BY <2>1 DEF ConversationIsFine, TurnIsFine, TurnSaw, SessionIsFine
  <1>10. ConversationIsFine(MessagesOf(c)', rows'.turns[c], rows'.conversations[c], rows'.seen[c], rows'.left)
    BY <1>1, <1>5, <1>8, <1>9
  <1>11. StepsAreFine(rows'.messages, rows'.steps) /\ UniqueIds(rows'.messages)
    BY <1>5 DEF MayBegin
  <1>12. KnownIsFine(rows'.steps, rows'.turns[c]) /\ \A u : KnowApart(rows'.turns[c], u)
    BY <1>1, <1>5, NoTurnIs, NothingKnown, NobodyKnows
  <1>13. \A d \in Conversations : d # c => KnownIsFine(rows'.steps, rows.turns[d])
    BY <1>5 DEF MayBegin
  <1>14. \A d \in Conversations : d # c => \A m \in MessagesOf(d) : m.id \in rows'.left => m.id \in rows.left
    <2> SUFFICES ASSUME NEW d \in Conversations, d # c, NEW m \in MessagesOf(d), m.id \in rows'.left
                 PROVE  m.id \in rows.left
      OBVIOUS
    <2>1. m \in table.messages /\ m.conversation = d
      <3>1. RowsOf(table.messages, d) = MessagesOf(d)
        BY DEF MayBegin
      <3> QED
        BY <3>1 DEF RowsOf
    <2>2. m.id # a.id
      BY <1>3, <1>5, <1>11, <2>1 DEF UniqueIds
    <2> QED
      BY <1>l, <1>5, <2>2
  <1>15. Attended'
    <2>1. ASSUME NEW m \in table.messages, m.status = "Running"
          PROVE  rows.turns[m.conversation].answer = m.id \/ m.id \in left
      <3>1. m.conversation \in Conversations
        BY <1>2 DEF Tables, MessageRows
      <3>2. CASE m.conversation = c
        <4>1. m \in N
          BY <3>2 DEF RowsOf
        <4>2. m = a \/ m.id \in rows.left
          BY <2>1, <4>1 DEF MayBegin
        <4> QED
          BY <1>l, <4>2
      <3>3. CASE m.conversation # c
        <4>1. RowsOf(table.messages, m.conversation) = MessagesOf(m.conversation)
          BY <3>1, <3>3 DEF MayBegin
        <4>2. m \in rows.messages
          BY <4>1 DEF MessagesOf, RowsOf
        <4> QED
          BY <1>1, <1>l, <2>1, <4>2 DEF RowsInv, Attended
      <3> QED
        BY <3>2, <3>3
    <2>2. LeftRun(table.messages, left)
      <3>1. LeftRun(table.messages, rows.left)
        BY DEF MayBegin
      <3> QED
        BY <1>l, <1>3, <3>1 DEF LeftRun
    <2>3. LeftAlone(rows.turns, left)
      <3>1. LeftAlone(rows.turns, rows.left)
        BY DEF RowsInv, Attended
      <3>2. \A d \in Conversations : rows.turns[d].answer # a.id
        BY NobodysAnswer
      <3> QED
        BY <1>l, <3>1, <3>2 DEF LeftAlone
    <2> QED
      BY <1>1, <1>5, <1>6, <2>1, <2>2, <2>3 DEF Attended
  <1>16. \A d \in Conversations : d # c => KnowApart(rows'.turns[c], rows.turns[d])
    BY <1>12
  <1> HIDE DEF k, s, N
  <1> QED
    BY <1>5, <1>7, <1>8, <1>10, <1>11, <1>12, <1>13, <1>14, <1>15, <1>16, OthersAreLeft

\* Either way, a launch is fine.
LEMMA LaunchIsFine ==
  ASSUME RowsInv, NEW c \in Conversations, Idle(c), NEW table, NEW a, MayBegin(table, c, a),
         Launch(table, c, a.id)
  PROVE  RowsInv'
  BY TurnBegunIsFine, AnswerLeftIsFine DEF Launch

LEMMA SendIsFine ==
  ASSUME RowsInv, NEW c \in Conversations, NEW size \in Sizes, Send(c, size)
  PROVE  RowsInv'
PROOF
  <1> DEFINE M == MessagesOf(c)
             k == rows.conversations[c]
  <1> PICK q : q = Question(c, size)
    OBVIOUS
  <1>1. TypeOK /\ Idle(c) /\ rows.open /\ rows.turns[c] = NoTurn
    BY DEF RowsInv, Send, Idle, MayCall
  <1>2. NewId \in RowIds \ Used /\ OtherNewId \in RowIds \ (Used \cup {NewId})
    BY <1>1, NewIds DEF Send
  <1>3. /\ q \in MessageRows /\ q.conversation = c /\ q.status = "Complete" /\ q.role = "User"
        /\ q.id = NewId /\ q.position = Cardinality(M)
        /\ Appended(c, size) = [rows EXCEPT !.messages = @ \cup {q}]
        /\ UniqueIds(rows.messages \cup {q})
        /\ Dense(M \cup {q}) /\ AnswersFollowQuestions(M \cup {q})
        /\ k.session => Begins(M \cup {q}, k.start)
        /\ k.session /\ ~k.forgotten => SawTail(M \cup {q}, k.start, rows.seen[c])
    <2>1. NewId \in RowIds \ Used
      BY <1>2
    <2> HIDE <1>2
    <2> QED
      BY <1>1, <2>1, AppendedIs
  <1>a. PICK a : a = Message(c, OtherNewId, NextPosition(c) + 1, "Assistant", "Running", 0)
    OBVIOUS
  <1>4. M \in SUBSET MessageRows /\ Dense(M) /\ rows.messages \in SUBSET MessageRows
    BY <1>1, Types DEF RowsInv, ConversationIsFine
  <1>5. NextPosition(c) = Cardinality(M) /\ NextPosition(c) \in Nat
    BY <1>4, NextPositionIs
  <1>6. /\ a.conversation = c /\ a.id = OtherNewId /\ a.role = "Assistant" /\ a.status = "Running"
        /\ a.position = Cardinality(M) + 1 /\ a \in MessageRows
    BY <1>a, <1>2, <1>5 DEF Message, MessageRows
  <1>7. Cardinality(M \cup {q}) = Cardinality(M) + 1
    <2>1. IsFiniteSet(M) /\ \A m \in M : m.position \in 0..Cardinality(M) - 1
      BY <1>4, DenseIs
    <2>2. q \notin M
      BY <1>3, <1>5, <2>1
    <2> HIDE DEF M
    <2> QED
      BY <2>1, <2>2, FS_AddElement
  <1> DEFINE N == M \cup {q} \cup {a}
             table == [rows EXCEPT !.messages = rows.messages \cup {q} \cup {a}]
  <1>8. /\ Dense(N) /\ AnswersFollowQuestions(N) /\ \A m \in N : m.position <= a.position
        /\ k.session => Begins(N, k.start)
        /\ k.session /\ ~k.forgotten => SawTail(N, k.start, rows.seen[c])
    <2>1. M \cup {q} \in SUBSET MessageRows /\ q \in M \cup {q} /\ q.position + 1 = a.position
      BY <1>3, <1>4, <1>6
    <2> PICK P : P = M \cup {q}
      OBVIOUS
    <2> HIDE DEF M, k
    <2>2. /\ Dense(P \cup {a}) /\ AnswersFollowQuestions(P \cup {a})
          /\ \A m \in P \cup {a} : m.position <= a.position
          /\ \A start : Begins(P, start) => Begins(P \cup {a}, start)
          /\ \A start, s : SawTail(P, start, s) => SawTail(P \cup {a}, start, s)
      <3>1. /\ P \in SUBSET MessageRows /\ Dense(P) /\ AnswersFollowQuestions(P) /\ q \in P
            /\ a.position = Cardinality(P) /\ q.position + 1 = a.position
        BY <1>3, <1>6, <1>7, <2>1
      <3> QED
        BY <1>3, <1>6, <3>1, AnswerAdded
    <2> QED
      BY <1>3, <2>2
  <1>9. N = RowsOf(table.messages, c)
    BY <1>1, <1>3, <1>6 DEF MessagesOf, TypeOK, RowsOf
  <1>10. \A d \in Conversations : d # c => RowsOf(table.messages, d) = MessagesOf(d)
    BY <1>1, <1>3, <1>6 DEF MessagesOf, TypeOK, RowsOf
  <1>11. UniqueIds(table.messages)
    <2>1. \A m \in rows.messages \cup {q} : m.id # a.id
      BY <1>1, <1>2, <1>3, <1>6, UsedIds
    <2> QED
      BY <1>1, <1>3, <2>1 DEF UniqueIds, TypeOK
  <1>12. /\ table.open = rows.open /\ table.conversations = rows.conversations
         /\ table.turns = rows.turns /\ table.seen = rows.seen /\ table.failures = rows.failures
         /\ table.left = rows.left /\ table.steps = rows.steps /\ table.messages = rows.messages \cup {q} \cup {a}
    BY <1>1 DEF TypeOK
  <1>13. table \in Tables
    BY <1>1, <1>3, <1>4, <1>6 DEF TypeOK, Tables
  <1>14. \A m \in N : m.status = "Running" => m = a \/ m.id \in rows.left
    BY <1>1, <1>3, IdleIs DEF AreLeft
  <1>15. StepsIn(table.steps, a.id) = {}
    <2>1. \A s \in rows.steps : s.message # a.id
      BY <1>1, <1>2, <1>6, UsedIds DEF RowsInv, StepsAreFine
    <2> QED
      BY <1>12, <2>1 DEF StepsIn
  <1>16. StepsAreFine(table.messages, table.steps)
    <2>1. \A m \in rows.messages : \E n \in table.messages : n.id = m.id
      BY <1>12
    <2> HIDE DEF table
    <2> QED
      BY <1>12, <2>1, StepsOfOthers DEF RowsInv
  <1>17. \A d \in Conversations : KnownIsFine(table.steps, rows.turns[d])
    BY <1>12 DEF RowsInv
  <1>18. rows.failures = 0 => \A s \in table.steps : s.status = "Running" =>
           \E m \in table.messages : m.id = s.message /\ m.status = "Running"
    BY <1>1, <1>12 DEF RowsInv, Attended
  <1>19. Launch(table, c, a.id)
    <2>1. [Appended(c, size) EXCEPT !.messages = @ \cup {a}] = table
      BY <1>1, <1>3 DEF TypeOK
    <2> QED
      BY <2>1, <1>a, <1>6 DEF Send
  <1>21. LeftRun(table.messages, rows.left) /\ a.id \notin rows.left
    <2>1. LeftRun(rows.messages, rows.left)
      BY DEF RowsInv, Attended
    <2>2. \A m \in rows.messages : m.id # a.id
      BY <1>1, <1>2, <1>6, UsedIds
    <2> HIDE DEF M, k, N, table
    <2> QED
      BY <1>12, <2>1, <2>2 DEF LeftRun
  <1>20. MayBegin(table, c, a)
    <2>1. a \in N
      OBVIOUS
    <2> HIDE DEF M, N, table
    <2> QED
      BY <1>21, <1>6, <1>8, <1>9, <1>10, <1>11, <1>12, <1>13, <1>14, <1>15, <1>16, <1>17, <1>18, <2>1 DEF MayBegin
  <1> HIDE DEF M, N, k, table
  <1> QED
    BY <1>1, <1>19, <1>20, LaunchIsFine

\* A message of one conversation is not the answer of the turn of another.
LEMMA AnswersDiffer ==
  ASSUME RowsInv, NEW c \in Conversations, NEW d \in Conversations, c # d, NEW m \in MessagesOf(c)
  PROVE  rows.turns[d].answer # m.id
PROOF
  <1>1. TypeOK /\ UniqueIds(rows.messages)
    BY DEF RowsInv
  <1>2. m.id \in RowIds /\ m \in rows.messages /\ m.conversation = c
    BY <1>1, Types DEF MessageRows
  <1>3. CASE rows.turns[d] = NoTurn
    BY <1>2, <1>3, NoTurnIs
  <1>4. CASE rows.turns[d] # NoTurn
    <2>1. PICK a \in MessagesOf(d) : a.id = rows.turns[d].answer
      BY <1>4 DEF RowsInv, ConversationIsFine, TurnIsFine, IsTheAnswer
    <2>2. a \in rows.messages /\ a.conversation = d
      BY <1>1, Types
    <2> QED
      BY <1>1, <1>2, <2>1, <2>2 DEF UniqueIds
  <1> QED
    BY <1>3, <1>4

\* A row that takes the place of another.
Changed(table, a, b) == (table \ {a}) \cup {b}

LEMMA OneRowChanged ==
  ASSUME NEW table, UniqueIds(table), NEW a \in table, NEW b, b.id = a.id,
         b.conversation = a.conversation
  PROVE  /\ UniqueIds(Changed(table, a, b))
         /\ \A m \in table : \E n \in Changed(table, a, b) : n.id = m.id
         /\ RowsOf(Changed(table, a, b), a.conversation) = Changed(RowsOf(table, a.conversation), a, b)
         /\ \A d : d # a.conversation => RowsOf(Changed(table, a, b), d) = RowsOf(table, d)
PROOF
  <1> USE DEF Changed
  <1>1. UniqueIds(Changed(table, a, b))
    BY DEF UniqueIds
  <1>2. \A m \in table : \E n \in Changed(table, a, b) : n.id = m.id
    OBVIOUS
  <1>3. RowsOf(Changed(table, a, b), a.conversation) = Changed(RowsOf(table, a.conversation), a, b)
    BY DEF RowsOf
  <1>4. \A d : d # a.conversation => RowsOf(Changed(table, a, b), d) = RowsOf(table, d)
    BY DEF RowsOf
  <1> QED
    BY <1>1, <1>2, <1>3, <1>4

LEMMA RetryIsFine ==
  ASSUME RowsInv, NEW c \in Conversations, Retry(c)
  PROVE  RowsInv'
PROOF
  <1> DEFINE M == MessagesOf(c)
             k == rows.conversations[c]
  <1>a. PICK a : a = Last(FindByConversation(c))
    OBVIOUS
  <1>b. PICK b : b = [a EXCEPT !.status = "Running", !.size = 0]
    OBVIOUS
  <1>1. TypeOK /\ Idle(c) /\ rows.open /\ rows.turns[c] = NoTurn
    BY DEF RowsInv, Retry, Idle, MayCall
  <1>2. /\ M \in SUBSET MessageRows /\ Dense(M) /\ AnswersFollowQuestions(M)
        /\ rows.messages \in SUBSET MessageRows /\ UniqueIds(rows.messages)
        /\ k.session => Begins(M, k.start)
        /\ k.session /\ ~k.forgotten => SawTail(M, k.start, rows.seen[c])
    <2>1. ConversationIsFine(M, NoTurn, k, rows.seen[c], rows.left)
      BY <1>1 DEF RowsInv
    <2>2. AreLeft(M, rows.left)
      BY <1>1, IdleIs
    <2>3. M \in SUBSET MessageRows /\ rows.messages \in SUBSET MessageRows /\ UniqueIds(rows.messages)
      BY <1>1, Types DEF RowsInv
    <2> HIDE DEF M, k
    <2> QED
      BY <2>1, <2>2, <2>3 DEF ConversationIsFine, SessionIsFine
  <1>3. a \in M /\ \A m \in M : m.position <= a.position
    BY <1>a, <1>2, LastIs DEF Retry
  <1>4. a.role = "Assistant" /\ a.status \in {"Failed", "Interrupted"} /\ ~IsComplete(a)
    BY <1>a DEF Retry, IsComplete
  <1>5. a \in rows.messages /\ a.conversation = c
    BY <1>3 DEF MessagesOf
  <1>6. /\ b \in MessageRows /\ b.id = a.id /\ b.conversation = c /\ b.position = a.position
        /\ b.role = "Assistant" /\ b.status = "Running" /\ ~IsComplete(b)
    BY <1>b, <1>2, <1>4, <1>5 DEF MessageRows, IsComplete
  <1> DEFINE table == [rows EXCEPT !.steps = @ \ StepsOf(a.id), !.messages = (@ \ {a}) \cup {b}]
             N == (M \ {a}) \cup {b}
  <1>7. /\ table.open = rows.open /\ table.conversations = rows.conversations
        /\ table.turns = rows.turns /\ table.seen = rows.seen /\ table.failures = rows.failures
        /\ table.left = rows.left
        /\ table.steps = rows.steps \ StepsOf(a.id) /\ table.messages = (rows.messages \ {a}) \cup {b}
    BY <1>1 DEF TypeOK
  <1>8. table \in Tables
    <2>1. rows \in Tables
      BY <1>1 DEF TypeOK, Tables
    <2>2. /\ rows.steps \ StepsOf(a.id) \in SUBSET StepRows
          /\ (rows.messages \ {a}) \cup {b} \in SUBSET MessageRows
      BY <1>1, <1>6, Types
    <2>3. \A ss \in SUBSET StepRows, mm \in SUBSET MessageRows :
            [rows EXCEPT !.steps = ss, !.messages = mm] \in Tables
      BY <2>1 DEF Tables
    <2> QED
      BY <2>2, <2>3
  <1>9. Launch(table, c, a.id)
    <2>1. Upserted(rows.messages, b) = (rows.messages \ {a}) \cup {b}
      BY <1>2, <1>5, <1>6, UpsertedIs
    <2> QED
      BY <1>a, <1>b, <2>1 DEF Retry
  <1>10. /\ UniqueIds(table.messages)
         /\ \A m \in rows.messages : \E n \in table.messages : n.id = m.id
         /\ RowsOf(table.messages, c) = (RowsOf(rows.messages, c) \ {a}) \cup {b}
         /\ \A d : d # c => RowsOf(table.messages, d) = RowsOf(rows.messages, d)
    <2>1. /\ UniqueIds(Changed(rows.messages, a, b))
          /\ \A m \in rows.messages : \E n \in Changed(rows.messages, a, b) : n.id = m.id
          /\ RowsOf(Changed(rows.messages, a, b), a.conversation)
               = Changed(RowsOf(rows.messages, a.conversation), a, b)
          /\ \A d : d # a.conversation =>
               RowsOf(Changed(rows.messages, a, b), d) = RowsOf(rows.messages, d)
      <3>1. UniqueIds(rows.messages) /\ a \in rows.messages /\ b.id = a.id /\ b.conversation = a.conversation
        BY <1>2, <1>5, <1>6
      <3> QED
        BY <3>1, OneRowChanged
    <2> HIDE DEF table, M, k
    <2> QED
      BY <1>5, <1>6, <1>7, <2>1 DEF Changed
  <1>11. \A d : RowsOf(rows.messages, d) = MessagesOf(d)
    BY DEF RowsOf, MessagesOf
  <1>12. N = RowsOf(table.messages, c)
    BY <1>10, <1>11
  <1>13. /\ Dense(N) /\ AnswersFollowQuestions(N)
         /\ k.session => Begins(N, k.start)
         /\ k.session /\ ~k.forgotten => SawTail(N, k.start, rows.seen[c])
    <2> HIDE DEF M, k
    <2>1. Dense(N) /\ AnswersFollowQuestions(N)
      BY <1>2, <1>3, <1>4, <1>6, AnswerChanged
    <2>2. /\ \A start : Begins(M, start) => Begins(N, start)
          /\ \A start, s : SawTail(M, start, s) => SawTail(N, start, s)
      BY <1>2, <1>3, <1>4, <1>6, AnswerBegunAnew
    <2> QED
      BY <1>2, <2>1, <2>2
  <1>14. \A m \in N : m.position <= b.position /\ (m.status = "Running" => m = b \/ m.id \in rows.left)
    <2>1. \A m \in M : m.status = "Running" => m.id \in rows.left
      BY <1>1, IdleIs DEF AreLeft
    <2>2. b.position <= b.position
      BY <1>6 DEF MessageRows
    <2> QED
      BY <1>3, <1>6, <2>1, <2>2
  <1>15. /\ StepsAreFine(table.messages, table.steps)
         /\ \A t : KnownIsFine(rows.steps, t) /\ t.answer # a.id => KnownIsFine(table.steps, t)
    <2>g. PICK gone : gone = {a.id}
      OBVIOUS
    <2>1. table.steps = StepsWithout(rows.steps, gone)
      BY <2>g, <1>7 DEF StepsOf, StepsWithout
    <2>2. IdsOf(rows.messages) \ gone \subseteq IdsOf(table.messages)
      BY <2>g, <1>10 DEF IdsOf
    <2>3. StepsAreFine(rows.messages, rows.steps)
      BY DEF RowsInv
    <2> HIDE DEF table
    <2>4. /\ StepsAreFine(table.messages, table.steps)
          /\ \A t : KnownIsFine(rows.steps, t) /\ t.answer \notin gone => KnownIsFine(table.steps, t)
      BY <2>1, <2>2, <2>3, StepsDropped
    <2> QED
      BY <2>g, <2>4
  <1>16. StepsIn(table.steps, b.id) = {}
    BY <1>6, <1>7 DEF StepsIn, StepsOf
  <1>17. \A d \in Conversations : d # c => KnownIsFine(table.steps, rows.turns[d])
    BY <1>3, <1>15, AnswersDiffer DEF RowsInv
  <1>18. rows.failures = 0 => \A s \in table.steps : s.status = "Running" =>
           \E m \in table.messages : m.id = s.message /\ m.status = "Running"
    <2>1. rows.failures = 0 => \A s \in rows.steps : s.status = "Running" =>
            \E m \in rows.messages : m.id = s.message /\ m.status = "Running"
      BY <1>1 DEF RowsInv, Attended
    <2> QED
      BY <1>4, <1>7, <2>1
  <1>20. LeftRun(table.messages, rows.left) /\ b.id \notin rows.left
    <2>1. LeftRun(rows.messages, rows.left)
      BY DEF RowsInv, Attended
    <2>2. \A m \in rows.messages : m.status = "Running" => m # a /\ m.id # a.id
      BY <1>2, <1>4, <1>5 DEF UniqueIds
    <2> HIDE DEF M, k, N, table
    <2> QED
      BY <1>6, <1>7, <2>1, <2>2 DEF LeftRun
  <1>19. MayBegin(table, c, b)
    <2>1. b \in N
      OBVIOUS
    <2> HIDE DEF M, N, table
    <2> QED
      BY <1>20, <1>6, <1>7, <1>8, <1>10, <1>11, <1>12, <1>13, <1>14, <1>15, <1>16, <1>17, <1>18, <2>1 DEF MayBegin
  <1> HIDE DEF M, N, k, table
  <1> QED
    BY <1>1, <1>6, <1>9, <1>19, LaunchIsFine

\* The steps a turn holds are not what a conversation is judged by.
LEMMA HeldStepsAreApart ==
  ASSUME NEW M, NEW t \in Turns, t # NoTurn, t.answer # Nobody, NEW k, NEW s, NEW left,
         ConversationIsFine(M, t, k, s, left), NEW u, u.answer = t.answer, u.transcript = t.transcript, u.marked = t.marked,
         u.resumed = t.resumed, u.start = t.start
  PROVE  ConversationIsFine(M, u, k, s, left) /\ u # NoTurn
PROOF
  <1>1. u # NoTurn
    BY NoTurnIs
  <1>2. TurnIsFine(M, u)
    BY <1>1 DEF ConversationIsFine, TurnIsFine, IsTheAnswer
  <1>3. TurnSaw(M, u, k, s)
    BY <1>1 DEF ConversationIsFine, TurnSaw
  <1> QED
    BY <1>1, <1>2, <1>3 DEF ConversationIsFine

\* The turn that runs and its answer.
LEMMA RunningIs ==
  ASSUME RowsInv, NEW c \in Conversations, Runs(c)
  PROVE  /\ TypeOK /\ rows.open /\ rows.turns[c] \in Turns /\ rows.turns[c] # NoTurn
         /\ \E a \in MessagesOf(c) :
              /\ a \in rows.messages /\ a \in MessageRows /\ a.conversation = c
              /\ a.id = rows.turns[c].answer /\ a.status = "Running" /\ a.role = "Assistant"
         /\ rows.turns[c].answer \in RowIds /\ rows.turns[c].answer # Nobody
         /\ ConversationIsFine(MessagesOf(c), rows.turns[c], rows.conversations[c], rows.seen[c], rows.left)
         /\ KnownIsFine(rows.steps, rows.turns[c])
PROOF
  <1>1. TypeOK /\ rows.open /\ rows.turns[c] # NoTurn
    BY DEF RowsInv, Runs, MayCall
  <1>2. /\ ConversationIsFine(MessagesOf(c), rows.turns[c], rows.conversations[c], rows.seen[c], rows.left)
        /\ KnownIsFine(rows.steps, rows.turns[c])
    BY DEF RowsInv
  <1>3. PICK a \in MessagesOf(c) : a.id = rows.turns[c].answer /\ a.status = "Running" /\ a.role = "Assistant"
    BY <1>1, <1>2 DEF ConversationIsFine, TurnIsFine, IsTheAnswer
  <1>4. a \in rows.messages /\ a \in MessageRows /\ a.conversation = c /\ rows.turns[c] \in Turns
    BY <1>1, Types
  <1>5. a.id \in RowIds /\ a.id # Nobody
    BY <1>4, NoTurnIs DEF MessageRows
  <1> QED
    BY <1>1, <1>2, <1>3, <1>4, <1>5

\* What a turn holds after a step was saved.
LEMMA HeldApart ==
  ASSUME NEW T, NEW t \in Turns, KnownIsFine(T, t), NEW step, MayBeSaved(T, t, step),
         NEW u, u.known = Held(t.known, step),
         NEW v, KnowApart(t, v), \A i \in 1..Len(v.known) : v.known[i].id # step.id
  PROVE  KnowApart(u, v)
PROOF
  <1> PICK held : held = Held(t.known, step)
    OBVIOUS
  <1>1. PICK p \in 1..Len(held) : IsHeld(t.known, step, held, p)
    BY HeldIs
  <1>2. \A i \in 1..Len(held) : held[i].id = step.id \/ \E j \in 1..Len(t.known) : held[i].id = t.known[j].id
    BY <1>1 DEF IsHeld
  <1> QED
    BY <1>2 DEF KnowApart

\* The steps of other conversations, of which none knows the step.
NobodyElseKnows(c, step) ==
  \A d \in Conversations : d # c =>
    \A i \in 1..Len(rows.turns[d].known) : rows.turns[d].known[i].id # step.id

LEMMA StepNotStoredIsFine ==
  ASSUME RowsInv, NEW c \in Conversations, Runs(c), NEW step,
         MayBeSaved(rows.steps, rows.turns[c], step), NobodyElseKnows(c, step),
         NEW n \in Nat, rows.failures <= n, n > 0,
         rows' = [rows EXCEPT !.turns[c].known = Held(@, step), !.turns[c].missed = TRUE, !.failures = n]
  PROVE  RowsInv'
PROOF
  <1> PICK t : t = rows.turns[c]
    OBVIOUS
  <1>1. /\ TypeOK /\ rows.open /\ t \in Turns /\ t # NoTurn /\ t.answer \in RowIds /\ t.answer # Nobody
        /\ ConversationIsFine(MessagesOf(c), t, rows.conversations[c], rows.seen[c], rows.left)
        /\ KnownIsFine(rows.steps, t) /\ MayBeSaved(rows.steps, t, step)
    BY RunningIs
  <1>2. rows.turns \in [Conversations -> Turns] /\ rows.failures \in Nat
    BY <1>1 DEF TypeOK
  <1>u. PICK u : u = [t EXCEPT !.known = Held(t.known, step), !.missed = TRUE]
    OBVIOUS
  <1>3. /\ u.known = Held(t.known, step) /\ u.missed = TRUE /\ u.answer = t.answer
        /\ u.transcript = t.transcript /\ u.marked = t.marked /\ u.resumed = t.resumed /\ u.start = t.start
    BY <1>u, <1>1 DEF Turns
  <1>4. /\ u.known \in Seq(KnownSteps)
        /\ \A i, j \in 1..Len(u.known) : u.known[i].id = u.known[j].id => i = j
        /\ \A i \in 1..Len(u.known) : u.known[i].parent # Nobody =>
             \E j \in 1..Len(u.known) : u.known[j].id = u.known[i].parent
        /\ \A i \in 1..Len(u.known), s \in rows.steps : s.id = u.known[i].id =>
             s.message = u.answer /\ s.parent = u.known[i].parent
    BY <1>1, <1>3, StepLost
  <1>5. u \in Turns
    BY <1>u, <1>1, <1>3, <1>4 DEF Turns
  <1>6. rows' = [rows EXCEPT !.turns = [@ EXCEPT ![c] = u], !.failures = n]
    BY <1>u, <1>1, <1>2 DEF TypeOK, Turns
  <1>7. /\ rows'.open = rows.open /\ rows'.messages = rows.messages /\ rows'.steps = rows.steps
        /\ rows'.conversations = rows.conversations /\ rows'.seen = rows.seen /\ rows'.failures = n
        /\ rows'.left = rows.left
        /\ rows'.turns = [rows.turns EXCEPT ![c] = u]
    BY <1>1, <1>6 DEF TypeOK
  <1>8. rows'.turns[c] = u /\ \A d \in Conversations : d # c => rows'.turns[d] = rows.turns[d]
    BY <1>2, <1>7
  <1>9. TypeOK'
    <2>1. [rows.turns EXCEPT ![c] = u] \in [Conversations -> Turns]
      BY <1>2, <1>5
    <2> QED
      BY <1>1, <1>6, <2>1 DEF TypeOK
  <1>10. \A d : MessagesOf(d)' = MessagesOf(d)
    BY <1>7 DEF MessagesOf
  <1>11. ConversationIsFine(MessagesOf(c), u, rows.conversations[c], rows.seen[c], rows.left)
    BY <1>1, <1>3, HeldStepsAreApart
  <1>12. KnownIsFine(rows.steps, u)
    BY <1>3, <1>4 DEF KnownIsFine
  <1>13. \A d \in Conversations : d # c => KnowApart(u, rows.turns[d])
    <2> TAKE d \in Conversations
    <2>1. d # c => KnowApart(t, rows.turns[d])
      BY DEF RowsInv
    <2>2. d # c => \A i \in 1..Len(rows.turns[d].known) : rows.turns[d].known[i].id # step.id
      BY DEF NobodyElseKnows
    <2> QED
      BY <1>1, <1>3, <2>1, <2>2, HeldApart
  <1>14. Attended'
    <2>1. LeftAlone(rows'.turns, rows'.left)
      BY <1>3, <1>7, <1>8 DEF RowsInv, Attended, LeftAlone
    <2>2. LeftRun(rows'.messages, rows'.left)
      BY <1>7 DEF RowsInv, Attended
    <2> QED
      BY <1>1, <1>3, <1>7, <1>8, <2>1, <2>2, Types, <1>2 DEF RowsInv, Attended, MessageRows
  <1>15. /\ StepsAreFine(rows.messages, rows.steps) /\ UniqueIds(rows.messages)
         /\ \A d \in Conversations : KnownIsFine(rows.steps, rows.turns[d])
    BY DEF RowsInv
  <1> QED
    BY <1>7, <1>8, <1>9, <1>10, <1>11, <1>12, <1>13, <1>14, <1>15, OthersAreLeft

LEMMA StepStoredIsFine ==
  ASSUME RowsInv, NEW c \in Conversations, Runs(c), NEW step,
         MayBeSaved(rows.steps, rows.turns[c], step), NobodyElseKnows(c, step),
         NEW row, row = StepRow(rows.turns[c].answer, step), StepFits(row),
         rows' = [rows EXCEPT !.turns[c].known = Held(@, step), !.steps = Upserted(@, row)]
  PROVE  RowsInv'
PROOF
  <1>t. PICK t : t = rows.turns[c]
    OBVIOUS
  <1>1. /\ TypeOK /\ rows.open /\ t \in Turns /\ t # NoTurn /\ t.answer \in RowIds /\ t.answer # Nobody
        /\ ConversationIsFine(MessagesOf(c), t, rows.conversations[c], rows.seen[c], rows.left)
        /\ KnownIsFine(rows.steps, t) /\ MayBeSaved(rows.steps, t, step) /\ row = StepRow(t.answer, step)
    BY <1>t, RunningIs
  <1>2. rows.turns \in [Conversations -> Turns] /\ rows.steps \in SUBSET StepRows
    BY <1>1 DEF TypeOK
  <1>u. PICK u : u = [t EXCEPT !.known = Held(t.known, step)]
    OBVIOUS
  <1>3. /\ u.known = Held(t.known, step) /\ u.missed = t.missed /\ u.answer = t.answer
        /\ u.transcript = t.transcript /\ u.marked = t.marked /\ u.resumed = t.resumed /\ u.start = t.start
    BY <1>u, <1>1 DEF Turns
  <1>4. u.known \in Seq(KnownSteps)
    BY <1>1, <1>3, StepLost
  <1>5. u \in Turns
    BY <1>u, <1>1, <1>3, <1>4 DEF Turns
  <1>s. PICK stored : stored = Upserted(rows.steps, row)
    OBVIOUS
  <1>6. rows' = [rows EXCEPT !.turns = [@ EXCEPT ![c] = u], !.steps = stored]
    BY <1>t, <1>u, <1>s, <1>1, <1>2 DEF TypeOK, Turns
  <1>7. /\ rows'.open = rows.open /\ rows'.messages = rows.messages /\ rows'.steps = stored
        /\ rows'.conversations = rows.conversations /\ rows'.seen = rows.seen
        /\ rows'.failures = rows.failures /\ rows'.turns = [rows.turns EXCEPT ![c] = u]
        /\ rows'.left = rows.left
    BY <1>1, <1>6 DEF TypeOK
  <1>8. rows'.turns[c] = u /\ \A d \in Conversations : d # c => rows'.turns[d] = rows.turns[d]
    BY <1>2, <1>7
  <1>9. StepsAreFine(rows.messages, rows.steps) /\ UniqueIds(rows.steps) /\ UniqueIds(rows.messages)
    BY DEF RowsInv, StepsAreFine
  <1>10. StepsAreFine(rows.messages, stored)
    BY <1>s, <1>1, <1>9, StepSavedIsFine
  <1>11. KnownIsFine(stored, u)
    BY <1>s, <1>1, <1>3, <1>9, StepSavedIsKnown
  <1>12. /\ row.id = step.id /\ row.message = t.answer /\ row.parent = step.parent
         /\ row.status = step.status /\ row.position \in Nat
         /\ \A s \in stored : s = row \/ s \in rows.steps
    <2>1. /\ row.id = step.id /\ row.message = t.answer /\ row.parent = step.parent
          /\ row.status = step.status
          /\ \/ \E e \in StepsIn(rows.steps, t.answer) :
                  /\ e.id = step.id /\ e.position = row.position /\ e.parent = row.parent
                  /\ Upserted(rows.steps, row) = (rows.steps \ {e}) \cup {row}
             \/ /\ \A s \in rows.steps : s.id # step.id
                /\ row.position = Cardinality(StepsIn(rows.steps, t.answer))
                /\ Upserted(rows.steps, row) = rows.steps \cup {row}
      BY <1>1, <1>9, RowTakesAPlace
    <2>2. Cardinality(StepsIn(rows.steps, t.answer)) \in Nat
      BY <1>1, <1>9, DenseIs DEF StepsAreFine
    <2>3. \A e \in StepsIn(rows.steps, t.answer) : e.position \in Nat
      BY <1>2 DEF StepsIn, StepRows
    <2> QED
      BY <1>s, <2>1, <2>2, <2>3
  <1>13. row \in StepRows
    <2>1. row = [id |-> step.id, message |-> t.answer, parent |-> step.parent,
                 status |-> step.status, position |-> row.position]
      BY <1>1, <1>9, RowIs
    <2>2. step \in KnownSteps
      BY <1>1 DEF MayBeSaved
    <2> QED
      BY <1>1, <1>12, <2>1, <2>2 DEF StepRows, KnownSteps
  <1>14. TypeOK'
    <2>1. [rows.turns EXCEPT ![c] = u] \in [Conversations -> Turns]
      BY <1>2, <1>5
    <2>2. stored \in SUBSET StepRows
      BY <1>2, <1>12, <1>13
    <2> QED
      BY <1>1, <1>6, <2>1, <2>2 DEF TypeOK
  <1>15. \A d : MessagesOf(d)' = MessagesOf(d)
    BY <1>7 DEF MessagesOf
  <1>16. ConversationIsFine(MessagesOf(c), u, rows.conversations[c], rows.seen[c], rows.left)
    BY <1>1, <1>3, HeldStepsAreApart
  <1>17. \A d \in Conversations : d # c => KnowApart(u, rows.turns[d])
    <2> TAKE d \in Conversations
    <2>1. d # c => KnowApart(t, rows.turns[d])
      BY <1>t DEF RowsInv
    <2>2. d # c => \A i \in 1..Len(rows.turns[d].known) : rows.turns[d].known[i].id # step.id
      BY DEF NobodyElseKnows
    <2> QED
      BY <1>1, <1>3, <2>1, <2>2, HeldApart
  <1>18. PICK a \in MessagesOf(c) : a \in rows.messages /\ a.id = t.answer /\ a.status = "Running"
    BY <1>t, RunningIs
  <1>19. \A d \in Conversations : d # c => KnownIsFine(stored, rows.turns[d])
    <2> SUFFICES ASSUME NEW d \in Conversations, d # c
                 PROVE  KnownIsFine(stored, rows.turns[d])
      OBVIOUS
    <2>1. KnownIsFine(rows.steps, rows.turns[d])
      BY DEF RowsInv
    <2>2. row.message # rows.turns[d].answer
      BY <1>12, <1>18, AnswersDiffer
    <2>3. \A i \in 1..Len(rows.turns[d].known) : rows.turns[d].known[i].id # row.id
      BY <1>12 DEF NobodyElseKnows
    <2>4. \A s \in rows.steps : s.id = row.id => s.message = row.message
      BY <1>1, <1>12 DEF MayBeSaved, KnownIsFine
    <2> QED
      BY <1>s, <2>1, <2>2, <2>3, <2>4, StepOfAnother
  <1>20. Attended'
    <2>1. \A m \in rows.messages : m.status = "Running" =>
            rows'.turns[m.conversation].answer = m.id \/ m.id \in rows.left
      BY <1>t, <1>1, <1>3, <1>8, Types DEF RowsInv, Attended, MessageRows
    <2>2. \A d \in Conversations : rows'.turns[d].missed => rows'.failures > 0
      BY <1>t, <1>3, <1>7, <1>8 DEF RowsInv, Attended
    <2>3. rows.failures = 0 => \A s \in stored : s.status = "Running" =>
            \E m \in rows.messages : m.id = s.message /\ m.status = "Running"
      BY <1>1, <1>12, <1>18 DEF RowsInv, Attended
    <2>4. LeftAlone(rows'.turns, rows'.left)
      BY <1>t, <1>3, <1>7, <1>8 DEF RowsInv, Attended, LeftAlone
    <2>5. LeftRun(rows'.messages, rows'.left) /\ (rows'.left # {} => rows'.failures > 0)
      BY <1>7 DEF RowsInv, Attended
    <2> QED
      BY <1>1, <1>7, <2>1, <2>2, <2>3, <2>4, <2>5 DEF Attended
  <1> QED
    BY <1>7, <1>8, <1>9, <1>10, <1>11, <1>14, <1>15, <1>16, <1>17, <1>19, <1>20, OthersAreLeft

LEMMA SaveStepIsFine ==
  ASSUME RowsInv, NEW c \in Conversations, Runs(c), NEW step,
         MayBeSaved(rows.steps, rows.turns[c], step), NobodyElseKnows(c, step), SaveStep(c, step)
  PROVE  RowsInv'
PROOF
  <1>r. PICK row : row = StepRow(rows.turns[c].answer, step)
    OBVIOUS
  <1>1. TypeOK /\ rows.failures \in Nat
    BY Types DEF RowsInv
  <1>2. \/ StepFits(row) /\ rows' = [rows EXCEPT !.turns[c].known = Held(@, step), !.steps = Upserted(@, row)]
        \/ /\ ~StepFits(row)
           /\ rows' = [rows EXCEPT !.turns[c].known = Held(@, step), !.turns[c].missed = TRUE]
        \/ rows' = [rows EXCEPT !.turns[c].known = Held(@, step), !.turns[c].missed = TRUE, !.failures = @ + 1]
    BY <1>r, <1>1 DEF SaveStep, TypeOK
  <1>3. CASE StepFits(row) /\ rows' = [rows EXCEPT !.turns[c].known = Held(@, step), !.steps = Upserted(@, row)]
    BY <1>r, <1>3, StepStoredIsFine
  <1>4. CASE /\ ~StepFits(row)
             /\ rows' = [rows EXCEPT !.turns[c].known = Held(@, step), !.turns[c].missed = TRUE]
    <2>1. rows.turns[c].missed
      <3>1. StepsAreFine(rows.messages, rows.steps)
        BY DEF RowsInv
      <3>2. /\ rows.turns[c] \in Turns /\ rows.turns[c] # NoTurn /\ rows.turns[c].answer \in RowIds
            /\ \E m \in rows.messages : m.id = rows.turns[c].answer
            /\ KnownIsFine(rows.steps, rows.turns[c])
        BY RunningIs
      <3> QED
        BY <1>r, <1>4, <3>1, <3>2, StepFitsUnlessMissed
    <2>2. rows.failures > 0 /\ rows.failures <= rows.failures
      BY <1>1, <2>1 DEF RowsInv, Attended
    <2>3. rows' = [rows EXCEPT !.turns[c].known = Held(@, step), !.turns[c].missed = TRUE,
                               !.failures = rows.failures]
      BY <1>1, <1>4 DEF TypeOK
    <2> QED
      BY <1>1, <2>2, <2>3, StepNotStoredIsFine
  <1>5. CASE rows' = [rows EXCEPT !.turns[c].known = Held(@, step), !.turns[c].missed = TRUE, !.failures = @ + 1]
    <2>1. rows.failures + 1 \in Nat /\ rows.failures + 1 > 0 /\ rows.failures <= rows.failures + 1
      BY <1>1
    <2>2. rows' = [rows EXCEPT !.turns[c].known = Held(@, step), !.turns[c].missed = TRUE,
                               !.failures = rows.failures + 1]
      BY <1>5
    <2> QED
      BY <2>1, <2>2, StepNotStoredIsFine
  <1> QED
    BY <1>2, <1>3, <1>4, <1>5

LEMMA StepStartsIsFine ==
  ASSUME RowsInv, NEW c \in Conversations, NEW parent, StepStarts(c, parent)
  PROVE  RowsInv'
PROOF
  <1>s. PICK step : step = [id |-> NewId, parent |-> parent, status |-> "Running"]
    OBVIOUS
  <1>1. Runs(c) /\ SaveStep(c, step)
    BY <1>s DEF StepStarts
  <1>2. TypeOK /\ rows.turns[c].known \in Seq(KnownSteps)
    BY <1>1, RunningIs DEF Turns
  <1>3. NewId \in RowIds \ Used
    BY <1>2, NewIds DEF StepStarts
  <1>4. parent = Nobody \/ \E i \in 1..Len(rows.turns[c].known) : rows.turns[c].known[i].id = parent
    BY DEF StepStarts
  <1>5. parent \in {Nobody} \cup RowIds
    <2>1. \A i \in 1..Len(rows.turns[c].known) : rows.turns[c].known[i] \in KnownSteps
      BY <1>2
    <2> QED
      BY <1>4, <2>1 DEF KnownSteps
  <1>6. step.id = NewId /\ step.parent = parent /\ step \in KnownSteps
    BY <1>s, <1>3, <1>5 DEF KnownSteps
  <1>7. MayBeSaved(rows.steps, rows.turns[c], step)
    BY <1>2, <1>3, <1>4, <1>6, UsedIds DEF MayBeSaved
  <1>8. NobodyElseKnows(c, step)
    BY <1>2, <1>3, <1>6, UsedIds DEF NobodyElseKnows
  <1> QED
    BY <1>1, <1>7, <1>8, SaveStepIsFine

LEMMA StepFinishesIsFine ==
  ASSUME RowsInv, NEW c \in Conversations, NEW i \in 1..Len(rows.turns[c].known), StepFinishes(c, i)
  PROVE  RowsInv'
PROOF
  <1>s. PICK step : step = [rows.turns[c].known[i] EXCEPT !.status = "Ok"]
    OBVIOUS
  <1>1. Runs(c) /\ SaveStep(c, step)
    BY <1>s DEF StepFinishes
  <1>2. TypeOK /\ rows.turns[c].known \in Seq(KnownSteps) /\ KnownIsFine(rows.steps, rows.turns[c])
    BY <1>1, RunningIs DEF Turns
  <1>3. rows.turns[c].known[i] \in KnownSteps
    BY <1>2
  <1>4. /\ step \in KnownSteps /\ step.id = rows.turns[c].known[i].id
        /\ step.parent = rows.turns[c].known[i].parent
    BY <1>s, <1>3 DEF KnownSteps
  <1>5. MayBeSaved(rows.steps, rows.turns[c], step)
    BY <1>2, <1>4 DEF MayBeSaved, KnownIsFine
  <1>6. NobodyElseKnows(c, step)
    BY <1>4 DEF NobodyElseKnows, RowsInv, KnowApart
  <1> QED
    BY <1>1, <1>5, <1>6, SaveStepIsFine

\* A turn that is over, when what is left of its conversation is as it should be.
Ended(a, status, size) == [a EXCEPT !.status = status, !.size = size]
GoesOn(k, session, start) ==
  [k EXCEPT !.session = session, !.start = start, !.forgotten = FALSE]

LEMMA FinishedIsFine ==
  ASSUME RowsInv, NEW c \in Conversations, Runs(c), StepsAreClosed(c),
         NEW a \in MessagesOf(c), a.id = rows.turns[c].answer,
         NEW status \in {"Complete", "Failed"}, NEW size \in Nat, NEW session \in BOOLEAN,
         NEW start \in Nat, NEW seen \in SUBSET RowIds,
         NEW b, b = Ended(a, status, size),
         NEW k, k = GoesOn(rows.conversations[c], session, start),
         ConversationIsFine(Changed(MessagesOf(c), a, b), NoTurn, k, seen, rows.left),
         rows' = Finished(c, status, size, session, start, seen)
  PROVE  RowsInv'
PROOF
  <1>1. TypeOK /\ rows.open /\ UniqueIds(rows.messages)
    BY RunningIs DEF RowsInv
  <1>2. /\ rows.turns \in [Conversations -> Turns] /\ rows.messages \in SUBSET MessageRows
        /\ rows.conversations \in [Conversations -> Sessions]
        /\ rows.seen \in [Conversations -> SUBSET RowIds]
    BY <1>1 DEF TypeOK
  <1>3. a \in rows.messages /\ a \in MessageRows /\ a.conversation = c
    BY <1>1, Types
  <1>4. /\ b \in MessageRows /\ b.id = a.id /\ b.conversation = c /\ b.status = status
        /\ b.status # "Running"
    BY <1>3 DEF Ended, MessageRows
  <1>5. k \in Sessions
    BY <1>2 DEF GoesOn, Sessions
  <1>6. (CHOOSE m \in rows.messages : m.id = rows.turns[c].answer) = a
    BY <1>1, <1>3 DEF UniqueIds
  <1>m. PICK messages : messages = Changed(rows.messages, a, b)
    OBVIOUS
  <1>7. Upserted(rows.messages, b) = messages
    BY <1>m, <1>1, <1>3, <1>4 DEF Upserted, UniqueIds, Changed
  <1>8. rows' = [rows EXCEPT !.messages = messages, !.conversations = [@ EXCEPT ![c] = k],
                             !.turns = [@ EXCEPT ![c] = NoTurn], !.seen = [@ EXCEPT ![c] = seen]]
    BY <1>1, <1>6, <1>7 DEF Ended, GoesOn, Finished, TypeOK
  <1>9. /\ rows'.open = rows.open /\ rows'.messages = messages /\ rows'.steps = rows.steps
        /\ rows'.conversations = [rows.conversations EXCEPT ![c] = k]
        /\ rows'.turns = [rows.turns EXCEPT ![c] = NoTurn]
        /\ rows'.seen = [rows.seen EXCEPT ![c] = seen] /\ rows'.failures = rows.failures
        /\ rows'.left = rows.left
    BY <1>1, <1>8 DEF TypeOK
  <1>10. /\ rows'.turns[c] = NoTurn /\ rows'.conversations[c] = k /\ rows'.seen[c] = seen
         /\ \A d \in Conversations : d # c =>
              /\ rows'.turns[d] = rows.turns[d] /\ rows'.seen[d] = rows.seen[d]
              /\ rows'.conversations[d] = rows.conversations[d]
    BY <1>2, <1>9
  <1>11. TypeOK'
    <2>1. /\ messages \in SUBSET MessageRows
          /\ [rows.conversations EXCEPT ![c] = k] \in [Conversations -> Sessions]
          /\ [rows.turns EXCEPT ![c] = NoTurn] \in [Conversations -> Turns]
          /\ [rows.seen EXCEPT ![c] = seen] \in [Conversations -> SUBSET RowIds]
      BY <1>m, <1>2, <1>4, <1>5, NoTurnIs DEF Changed
    <2>3. rows' \in Tables
      <3>1. rows' = [rows EXCEPT !.messages = messages,
                                 !.conversations = [rows.conversations EXCEPT ![c] = k],
                                 !.turns = [rows.turns EXCEPT ![c] = NoTurn],
                                 !.seen = [rows.seen EXCEPT ![c] = seen]]
        BY <1>8
      <3> QED
        BY <1>1, <2>1, <3>1 DEF TypeOK, Tables
    <2> QED
      BY <2>3 DEF TypeOK, Tables
  <1>12. /\ UniqueIds(messages) /\ \A m \in rows.messages : \E n \in messages : n.id = m.id
         /\ RowsOf(messages, c) = Changed(RowsOf(rows.messages, c), a, b)
         /\ \A d : d # c => RowsOf(messages, d) = RowsOf(rows.messages, d)
    <2>1. /\ UniqueIds(messages) /\ \A m \in rows.messages : \E n \in messages : n.id = m.id
          /\ RowsOf(messages, a.conversation) = Changed(RowsOf(rows.messages, a.conversation), a, b)
          /\ \A d : d # a.conversation => RowsOf(messages, d) = RowsOf(rows.messages, d)
      <3>1. b.conversation = a.conversation
        BY <1>3, <1>4
      <3> HIDE DEF Changed
      <3> QED
        BY <1>m, <1>1, <1>3, <1>4, <3>1, OneRowChanged
    <2> QED
      BY <1>3, <2>1
  <1>13. MessagesOf(c)' = Changed(MessagesOf(c), a, b) /\ \A d : d # c => MessagesOf(d)' = MessagesOf(d)
    BY <1>9, <1>12 DEF RowsOf, MessagesOf
  <1>14. StepsAreFine(messages, rows.steps)
    BY <1>12, StepsOfOthers DEF RowsInv
  <1>15. KnownIsFine(rows.steps, NoTurn) /\ \A u : KnowApart(NoTurn, u)
    BY NoTurnIs, NothingKnown, NobodyKnows
  <1>16. \A d \in Conversations : KnownIsFine(rows.steps, rows.turns[d])
    BY DEF RowsInv
  <1>17. Attended'
    <2>1. ASSUME NEW m \in messages, m.status = "Running"
          PROVE  rows'.turns[m.conversation].answer = m.id \/ m.id \in rows.left
      <3>1. m \in rows.messages /\ m # a
        BY <1>m, <1>4, <2>1 DEF Changed
      <3>2. rows.turns[m.conversation].answer = m.id \/ m.id \in rows.left
        BY <1>1, <2>1, <3>1 DEF RowsInv, Attended
      <3>3. rows.turns[m.conversation].answer = m.id => m.conversation # c
        BY <1>1, <1>3, <3>1 DEF UniqueIds
      <3> QED
        BY <1>2, <1>10, <3>1, <3>2, <3>3 DEF MessageRows
    <2>2. \A d \in Conversations : rows'.turns[d].missed => rows'.failures > 0
      BY <1>9, <1>10, NoTurnIs DEF RowsInv, Attended
    <2>3. ASSUME rows.failures = 0, NEW s \in rows.steps, s.status = "Running"
          PROVE  \E m \in messages : m.id = s.message /\ m.status = "Running"
      <3>1. PICK m \in rows.messages : m.id = s.message /\ m.status = "Running"
        BY <1>1, <2>3 DEF RowsInv, Attended
      <3>2. CASE m # a
        BY <1>m, <3>1, <3>2 DEF Changed
      <3>3. CASE m = a
        <4>1. s \in StepsIn(rows.steps, rows.turns[c].answer)
          BY <3>1, <3>3 DEF StepsIn
        <4>2. rows.turns[c] # NoTurn /\ ~rows.turns[c].missed
          BY <2>3, RunningIs DEF RowsInv, Attended
        <4>3. IsMirrored(StepsIn(rows.steps, rows.turns[c].answer), rows.turns[c].known)
          BY <1>16, <4>2 DEF KnownIsFine
        <4> QED
          BY <2>3, <4>1, <4>3 DEF IsMirrored, StepsAreClosed
      <3> QED
        BY <3>2, <3>3
    <2>4. LeftAlone(rows.turns, rows.left) /\ LeftRun(rows.messages, rows.left)
      BY DEF RowsInv, Attended
    <2>5. LeftAlone(rows'.turns, rows.left)
      BY <1>1, <1>10, <2>4, NoTurnIs, Types DEF LeftAlone
    <2>6. a.id \notin rows.left
      BY <2>4 DEF LeftAlone
    <2>7. LeftRun(messages, rows.left)
      BY <1>m, <2>4, <2>6 DEF LeftRun, Changed
    <2>8. rows.left # {} => rows.failures > 0
      BY DEF RowsInv, Attended
    <2> QED
      BY <1>1, <1>9, <2>1, <2>2, <2>3, <2>5, <2>7, <2>8 DEF Attended
  <1> QED
    BY <1>9, <1>10, <1>11, <1>12, <1>13, <1>14, <1>15, <1>16, <1>17, OthersAreLeft

\* A turn that leaves a session: the one it resumed, or one that was seeded.
LEMMA SessionStoredIsFine ==
  ASSUME RowsInv, NEW c \in Conversations, Ends(c),
         NEW t, t = rows.turns[c],
         NEW seen, \/ t.resumed /\ ~rows.conversations[c].forgotten /\ seen = rows.seen[c]
                   \/ seen = ToSet(t.transcript) \cup {t.answer},
         rows' = Finished(c, "Complete", 1, TRUE, t.start, seen)
  PROVE  RowsInv'
PROOF
  <1>M. PICK M : M = MessagesOf(c)
    OBVIOUS
  <1>s. PICK s : s = rows.seen[c]
    OBVIOUS
  <1>1. Runs(c) /\ StepsAreClosed(c)
    BY DEF Ends
  <1>2. /\ TypeOK /\ rows.open /\ t \in Turns /\ t # NoTurn /\ t.answer \in RowIds
        /\ ConversationIsFine(M, t, rows.conversations[c], s, rows.left)
    BY <1>1, <1>M, <1>s, RunningIs
  <1>3. PICK a \in M : /\ a \in rows.messages /\ a \in MessageRows /\ a.conversation = c
                       /\ a.id = t.answer /\ a.status = "Running" /\ a.role = "Assistant"
    BY <1>1, <1>M, RunningIs
  <1>b. PICK b : b = Ended(a, "Complete", 1)
    OBVIOUS
  <1>k. PICK k : k = GoesOn(rows.conversations[c], TRUE, t.start)
    OBVIOUS
  <1>4. /\ b \in MessageRows /\ b.id = a.id /\ b.position = a.position /\ b.role = a.role
        /\ b.status = "Complete"
    BY <1>b, <1>3 DEF Ended, MessageRows
  <1>5. k.session /\ k.start = t.start /\ t.start \in Nat
    BY <1>k, <1>2, Types DEF GoesOn, Sessions, Turns
  <1>6. ToSet(t.transcript) = {t.transcript[i] : i \in 1..Len(t.transcript)} /\ ToSet(t.transcript) \subseteq RowIds
    BY <1>2 DEF ToSet, Turns
  <1>7. \/ t.resumed /\ ~rows.conversations[c].forgotten /\ seen = s
        \/ seen = {t.transcript[i] : i \in 1..Len(t.transcript)} \cup {t.answer}
    BY <1>s, <1>6
  <1>8. seen \in SUBSET RowIds
    BY <1>s, <1>2, <1>6, <1>7, Types
  <1>9. M \in SUBSET MessageRows /\ UniqueIds(M)
    BY <1>M, <1>2, Types, UniqueOf DEF RowsInv
  <1>11. ConversationIsFine((M \ {a}) \cup {b}, NoTurn, k, seen, rows.left)
    BY <1>2, <1>3, <1>4, <1>5, <1>7, <1>9, TurnSucceeds
  <1>12. ConversationIsFine(Changed(MessagesOf(c), a, b), NoTurn, k, seen, rows.left)
    BY <1>M, <1>11 DEF Changed
  <1> QED
    BY <1>M, <1>b, <1>k, <1>1, <1>3, <1>5, <1>8, <1>12, FinishedIsFine

\* A turn that leaves none.
LEMMA NoSessionStoredIsFine ==
  ASSUME RowsInv, NEW c \in Conversations, Ends(c),
         NEW status \in {"Complete", "Failed"}, NEW size \in Nat,
         rows' = Finished(c, status, size, FALSE, 0, {})
  PROVE  RowsInv'
PROOF
  <1>M. PICK M : M = MessagesOf(c)
    OBVIOUS
  <1>1. Runs(c) /\ StepsAreClosed(c)
    BY DEF Ends
  <1>2. PICK a \in M : /\ a \in rows.messages /\ a \in MessageRows /\ a.conversation = c
                       /\ a.id = rows.turns[c].answer /\ a.status = "Running" /\ a.role = "Assistant"
    BY <1>1, <1>M, RunningIs
  <1>3. TypeOK /\ Dense(M) /\ AnswersFollowQuestions(M) /\ M \in SUBSET MessageRows
    BY <1>1, <1>M, RunningIs, Types DEF ConversationIsFine
  <1>b. PICK b : b = Ended(a, status, size)
    OBVIOUS
  <1>k. PICK k : k = GoesOn(rows.conversations[c], FALSE, 0)
    OBVIOUS
  <1>4. b \in MessageRows /\ b.position = a.position /\ b.role = "Assistant"
    BY <1>b, <1>2 DEF Ended, MessageRows
  <1>5. ~k.session
    BY <1>k, <1>3, Types DEF GoesOn, Sessions
  <1>6. Dense((M \ {a}) \cup {b}) /\ AnswersFollowQuestions((M \ {a}) \cup {b})
    BY <1>2, <1>3, <1>4, AnswerChanged
  <1>7. ConversationIsFine((M \ {a}) \cup {b}, NoTurn, k, {}, rows.left)
    BY <1>5, <1>6, NothingGoesOn
  <1>8. ConversationIsFine(Changed(MessagesOf(c), a, b), NoTurn, k, {}, rows.left)
    BY <1>M, <1>7 DEF Changed
  <1>9. {} \in SUBSET RowIds /\ 0 \in Nat /\ FALSE \in BOOLEAN
    OBVIOUS
  <1> QED
    BY <1>M, <1>b, <1>k, <1>1, <1>2, <1>8, <1>9, FinishedIsFine

LEMMA SucceedIsFine ==
  ASSUME RowsInv, NEW c \in Conversations, Succeed(c)
  PROVE  RowsInv'
PROOF
  <1>t. PICK t : t = rows.turns[c]
    OBVIOUS
  <1>1. Ends(c)
    BY DEF Succeed
  <1>2. CASE KeepsSession(c)
    BY <1>t, <1>1, <1>2, SessionStoredIsFine DEF KeepsSession
  <1>3. CASE BeginsSession(c)
    BY <1>t, <1>1, <1>3, SessionStoredIsFine DEF BeginsSession
  <1>4. CASE KeepsNoSession(c)
    BY <1>1, <1>4, NoSessionStoredIsFine DEF KeepsNoSession
  <1> QED
    BY <1>2, <1>3, <1>4 DEF Succeed

LEMMA FailIsFine ==
  ASSUME RowsInv, NEW c \in Conversations, Fail(c)
  PROVE  RowsInv'
  BY NoSessionStoredIsFine DEF Fail

LEMMA FinishFailsIsFine ==
  ASSUME RowsInv, NEW c \in Conversations, FinishFails(c)
  PROVE  RowsInv'
PROOF
  <1>M. PICK M : M = MessagesOf(c)
    OBVIOUS
  <1>t. PICK t : t = rows.turns[c]
    OBVIOUS
  <1>o. PICK old : old = rows.conversations[c]
    OBVIOUS
  <1>k. PICK k : k = [old EXCEPT !.forgotten = old.session]
    OBVIOUS
  <1>l. PICK left : left = rows.left \cup {t.answer}
    OBVIOUS
  <1>1. /\ Runs(c) /\ rows.conversations[c].there
        /\ rows' = [rows EXCEPT !.turns[c] = NoTurn, !.failures = @ + 1,
                                !.left = @ \cup {rows.turns[c].answer},
                                !.conversations[c].forgotten = rows.conversations[c].session]
    BY DEF FinishFails, Ends, Runs, MayCall
  <1>2. /\ TypeOK /\ rows.open /\ t \in Turns /\ t # NoTurn /\ t.answer \in RowIds
        /\ ConversationIsFine(M, t, old, rows.seen[c], rows.left)
    BY <1>1, <1>M, <1>t, <1>o, RunningIs
  <1>3. PICK a \in M : /\ a \in rows.messages /\ a.conversation = c
                       /\ a.id = t.answer /\ a.status = "Running"
    BY <1>1, <1>M, <1>t, RunningIs
  <1>4. /\ rows.turns \in [Conversations -> Turns] /\ rows.conversations \in [Conversations -> Sessions]
        /\ rows.failures \in Nat /\ rows.left \in SUBSET RowIds /\ rows.messages \in SUBSET MessageRows
    BY <1>2 DEF TypeOK
  <1>5. old \in Sessions /\ old.there
    BY <1>1, <1>4, <1>o
  <1>6. /\ k \in Sessions /\ k.session = old.session /\ k.start = old.start
        /\ k.session => k.forgotten
    BY <1>k, <1>5 DEF Sessions
  <1>7. rows' = [rows EXCEPT !.turns = [@ EXCEPT ![c] = NoTurn], !.failures = rows.failures + 1,
                             !.left = left, !.conversations = [@ EXCEPT ![c] = k]]
    BY <1>1, <1>2, <1>4, <1>t, <1>o, <1>k, <1>l DEF TypeOK
  <1>8. /\ rows'.open = rows.open /\ rows'.messages = rows.messages /\ rows'.steps = rows.steps
        /\ rows'.conversations = [rows.conversations EXCEPT ![c] = k]
        /\ rows'.turns = [rows.turns EXCEPT ![c] = NoTurn] /\ rows'.seen = rows.seen
        /\ rows'.failures = rows.failures + 1 /\ rows'.left = left
    BY <1>2, <1>7 DEF TypeOK
  <1>9. /\ rows'.turns[c] = NoTurn /\ rows'.conversations[c] = k
        /\ \A d \in Conversations : d # c =>
             rows'.turns[d] = rows.turns[d] /\ rows'.conversations[d] = rows.conversations[d]
    BY <1>4, <1>8
  <1>10. rows.failures + 1 \in Nat /\ ~(rows.failures + 1 = 0) /\ rows.failures + 1 > 0
    BY <1>4
  <1>11. TypeOK'
    <2>1. /\ left \in SUBSET RowIds
          /\ [rows.turns EXCEPT ![c] = NoTurn] \in [Conversations -> Turns]
          /\ [rows.conversations EXCEPT ![c] = k] \in [Conversations -> Sessions]
      BY <1>l, <1>2, <1>4, <1>6, NoTurnIs
    <2>2. rows' = [rows EXCEPT !.turns = [rows.turns EXCEPT ![c] = NoTurn],
                               !.failures = rows.failures + 1, !.left = left,
                               !.conversations = [rows.conversations EXCEPT ![c] = k]]
      BY <1>7
    <2> QED
      BY <1>2, <1>10, <2>1, <2>2 DEF TypeOK
  <1>12. \A d : MessagesOf(d)' = MessagesOf(d)
    BY <1>8 DEF MessagesOf
  <1>13. ConversationIsFine(M, NoTurn, k, rows.seen[c], left)
    BY <1>2, <1>6 DEF ConversationIsFine, TurnIsFine, TurnSaw, SessionIsFine
  <1>14. ConversationIsFine(MessagesOf(c)', rows'.turns[c], rows'.conversations[c], rows'.seen[c], rows'.left)
    BY <1>M, <1>8, <1>9, <1>12, <1>13
  <1>15. /\ StepsAreFine(rows.messages, rows.steps) /\ UniqueIds(rows.messages)
         /\ \A d \in Conversations : KnownIsFine(rows.steps, rows.turns[d])
    BY DEF RowsInv
  <1>16. KnownIsFine(rows.steps, NoTurn) /\ \A u : KnowApart(NoTurn, u)
    BY NoTurnIs, NothingKnown, NobodyKnows
  <1>17. \A d \in Conversations : d # c => \A m \in MessagesOf(d) : m.id \in left => m.id \in rows.left
    <2> SUFFICES ASSUME NEW d \in Conversations, d # c, NEW m \in MessagesOf(d), m.id \in left
                 PROVE  m.id \in rows.left
      OBVIOUS
    <2>1. m.id # t.answer
      BY <1>t, AnswersDiffer
    <2> QED
      BY <1>l, <2>1
  <1>18. Attended'
    <2>1. \A m \in rows.messages : m.status = "Running" =>
            rows'.turns[m.conversation].answer = m.id \/ m.id \in left
      <3> SUFFICES ASSUME NEW m \in rows.messages, m.status = "Running"
                   PROVE  rows'.turns[m.conversation].answer = m.id \/ m.id \in left
        OBVIOUS
      <3>1. rows.turns[m.conversation].answer = m.id \/ m.id \in rows.left
        BY <1>2 DEF RowsInv, Attended
      <3>2. m.conversation \in Conversations
        BY <1>4 DEF MessageRows
      <3> QED
        BY <1>t, <1>l, <1>9, <3>1, <3>2
    <2>2. LeftRun(rows.messages, left)
      <3>1. LeftRun(rows.messages, rows.left)
        BY DEF RowsInv, Attended
      <3> QED
        BY <1>l, <1>3, <3>1 DEF LeftRun
    <2>3. LeftAlone(rows'.turns, left)
      <3> SUFFICES ASSUME NEW d \in Conversations
                   PROVE  rows'.turns[d].answer \notin left
        BY DEF LeftAlone
      <3>1. CASE d = c
        BY <1>l, <1>2, <1>4, <1>9, <3>1, NoTurnIs
      <3>2. CASE d # c
        <4>1. rows.turns[d].answer \notin rows.left
          BY DEF RowsInv, Attended, LeftAlone
        <4>2. rows.turns[d].answer # t.answer
          BY <1>M, <1>3, <3>2, AnswersDiffer
        <4> QED
          BY <1>l, <1>9, <3>2, <4>1, <4>2
      <3> QED
        BY <3>1, <3>2
    <2> QED
      BY <1>2, <1>8, <1>10, <2>1, <2>2, <2>3 DEF Attended
  <1> QED
    BY <1>8, <1>9, <1>11, <1>12, <1>14, <1>15, <1>16, <1>17, <1>18, OthersAreLeft

LEMMA RemoveConversationIsFine ==
  ASSUME RowsInv, NEW c \in Conversations, RemoveConversation(c)
  PROVE  RowsInv'
PROOF
  <1>1. TypeOK /\ rows.open /\ rows.turns[c] = NoTurn /\ rows' = RemoveRows(c)
    BY DEF RowsInv, RemoveConversation, Idle, MayCall
  <1>2. /\ rows.conversations \in [Conversations -> Sessions]
        /\ rows.seen \in [Conversations -> SUBSET RowIds]
        /\ rows.messages \in SUBSET MessageRows /\ rows.steps \in SUBSET StepRows
        /\ rows.turns \in [Conversations -> Turns]
    BY <1>1 DEF TypeOK
  <1>m. PICK messages : messages = rows.messages \ MessagesOf(c)
    OBVIOUS
  <1>g. PICK gone : gone = IdsOf(MessagesOf(c))
    OBVIOUS
  <1>s. PICK steps : steps = StepsWithout(rows.steps, gone)
    OBVIOUS
  <1>3. steps = {s \in rows.steps : \A m \in MessagesOf(c) : s.message # m.id}
    BY <1>g, <1>s DEF StepsWithout, IdsOf
  <1>l. PICK left : left = rows.left \ gone
    OBVIOUS
  <1>4. rows' = [rows EXCEPT !.conversations = [@ EXCEPT ![c] = Gone], !.messages = messages,
                             !.steps = steps, !.seen = [@ EXCEPT ![c] = {}], !.left = left]
    BY <1>m, <1>g, <1>l, <1>1, <1>3 DEF RemoveRows, IdsOf
  <1>5. /\ rows'.open = rows.open /\ rows'.messages = messages /\ rows'.steps = steps
        /\ rows'.conversations = [rows.conversations EXCEPT ![c] = Gone]
        /\ rows'.turns = rows.turns /\ rows'.failures = rows.failures
        /\ rows'.seen = [rows.seen EXCEPT ![c] = {}] /\ rows'.left = left
    BY <1>1, <1>4 DEF TypeOK
  <1>6. Gone \in Sessions /\ ~Gone.session
    BY DEF Gone, Sessions
  <1>7. TypeOK'
    <2>1. /\ messages \in SUBSET MessageRows /\ steps \in SUBSET StepRows
          /\ [rows.conversations EXCEPT ![c] = Gone] \in [Conversations -> Sessions]
          /\ [rows.seen EXCEPT ![c] = {}] \in [Conversations -> SUBSET RowIds]
          /\ left \in SUBSET RowIds
      BY <1>m, <1>s, <1>l, <1>1, <1>2, <1>6, Types DEF StepsWithout
    <2>2. rows' = [rows EXCEPT !.conversations = [rows.conversations EXCEPT ![c] = Gone],
                               !.messages = messages, !.steps = steps, !.left = left,
                               !.seen = [rows.seen EXCEPT ![c] = {}]]
      BY <1>4
    <2> QED
      BY <1>1, <2>1, <2>2 DEF TypeOK
  <1>8. MessagesOf(c)' = {} /\ \A d : d # c => MessagesOf(d)' = MessagesOf(d)
    BY <1>m, <1>5 DEF MessagesOf
  <1>9. /\ rows'.conversations[c] = Gone
        /\ \A d \in Conversations : d # c =>
             rows'.conversations[d] = rows.conversations[d] /\ rows'.seen[d] = rows.seen[d]
    BY <1>2, <1>5
  <1>10. ConversationIsFine({}, NoTurn, Gone, rows'.seen[c], rows'.left)
    <2>1. AnswersFollowQuestions({})
      BY DEF AnswersFollowQuestions
    <2> QED
      BY <1>6, <2>1, DenseEmpty, NothingGoesOn
  <1>11. /\ StepsAreFine(messages, steps)
         /\ \A t : KnownIsFine(rows.steps, t) /\ t.answer \notin gone => KnownIsFine(steps, t)
    <2>1. IdsOf(rows.messages) \ gone \subseteq IdsOf(messages)
      BY <1>m, <1>g DEF IdsOf
    <2>2. StepsAreFine(rows.messages, rows.steps)
      BY DEF RowsInv
    <2> QED
      BY <1>s, <2>1, <2>2, StepsDropped
  <1>12. \A d \in Conversations : KnownIsFine(steps, rows.turns[d])
    <2> TAKE d \in Conversations
    <2>1. CASE d = c
      BY <1>1, <2>1, NoTurnIs, NothingKnown
    <2>2. CASE d # c
      <3>1. rows.turns[d].answer \notin gone
        BY <1>g, <2>2, AnswersDiffer DEF IdsOf
      <3> QED
        BY <1>11, <3>1 DEF RowsInv
    <2> QED
      BY <2>1, <2>2
  <1>13. UniqueIds(messages)
    BY <1>m DEF RowsInv, UniqueIds
  <1>14. \A u : KnowApart(NoTurn, u)
    BY NoTurnIs, NobodyKnows
  <1>15. Attended'
    <2>1. \A m \in messages : m.status = "Running" =>
            rows.turns[m.conversation].answer = m.id \/ m.id \in left
      <3> SUFFICES ASSUME NEW m \in messages, m.status = "Running"
                   PROVE  rows.turns[m.conversation].answer = m.id \/ m.id \in left
        OBVIOUS
      <3>1. m \in rows.messages /\ m \notin MessagesOf(c)
        BY <1>m
      <3>2. rows.turns[m.conversation].answer = m.id \/ m.id \in rows.left
        BY <1>1, <3>1 DEF RowsInv, Attended
      <3>3. m.id \notin gone
        BY <1>g, <3>1 DEF RowsInv, UniqueIds, IdsOf, MessagesOf
      <3> QED
        BY <1>l, <3>2, <3>3
    <2>2. ASSUME rows.failures = 0, NEW s \in steps, s.status = "Running"
          PROVE  \E m \in messages : m.id = s.message /\ m.status = "Running"
      <3>1. s \in rows.steps /\ \A m \in MessagesOf(c) : s.message # m.id
        BY <1>3
      <3>2. PICK m \in rows.messages : m.id = s.message /\ m.status = "Running"
        BY <1>1, <2>2, <3>1 DEF RowsInv, Attended
      <3> QED
        BY <1>m, <3>1, <3>2
    <2>3. LeftRun(rows.messages, rows.left) /\ LeftAlone(rows.turns, rows.left)
      BY DEF RowsInv, Attended
    <2>4. LeftRun(messages, left)
      BY <1>m, <1>g, <1>l, <2>3 DEF LeftRun, IdsOf
    <2>5. LeftAlone(rows.turns, left)
      BY <1>l, <2>3 DEF LeftAlone
    <2>6. left # {} => rows.failures > 0
      BY <1>l DEF RowsInv, Attended
    <2>7. \A d \in Conversations : rows.turns[d].missed => rows.failures > 0
      BY DEF RowsInv, Attended
    <2> QED
      BY <1>1, <1>5, <2>1, <2>2, <2>4, <2>5, <2>6, <2>7 DEF Attended
  <1>16. \A d \in Conversations : \A m \in MessagesOf(d) : m.id \in rows'.left => m.id \in rows.left
    BY <1>l, <1>5
  <1> QED
    BY <1>1, <1>5, <1>7, <1>8, <1>9, <1>10, <1>11, <1>12, <1>13, <1>14, <1>15, <1>16, OthersAreLeft

LEMMA CrashIsFine ==
  ASSUME RowsInv, Crash
  PROVE  RowsInv'
PROOF
  <1>t. PICK turns : turns = [c \in Conversations |-> NoTurn]
    OBVIOUS
  <1>1. TypeOK
    BY DEF RowsInv
  <1>2. /\ rows' = [rows EXCEPT !.open = FALSE, !.restarts = rows.restarts + 1, !.turns = turns]
        /\ rows.restarts + 1 \in Nat
    BY <1>t, <1>1, Types DEF Crash
  <1>3. /\ rows'.open = FALSE /\ rows'.messages = rows.messages /\ rows'.steps = rows.steps
        /\ rows'.conversations = rows.conversations /\ rows'.turns = turns
        /\ rows'.failures = rows.failures /\ rows'.seen = rows.seen /\ rows'.left = rows.left
    BY <1>1, <1>2 DEF TypeOK
  <1>4. turns \in [Conversations -> Turns] /\ \A c \in Conversations : rows'.turns[c] = NoTurn
    BY <1>t, <1>3, NoTurnIs
  <1>5. TypeOK'
    BY <1>1, <1>2, <1>4 DEF TypeOK
  <1>6. \A c : MessagesOf(c)' = MessagesOf(c)
    BY <1>3 DEF MessagesOf
  <1>7. ASSUME NEW c \in Conversations
        PROVE  ConversationIsFine(MessagesOf(c)', rows'.turns[c], rows'.conversations[c], rows'.seen[c], rows'.left)
    <2>1. ConversationIsFine(MessagesOf(c), rows.turns[c], rows.conversations[c], rows.seen[c], rows.left)
      BY DEF RowsInv
    <2> QED
      BY <1>3, <1>4, <1>6, <2>1 DEF ConversationIsFine, TurnIsFine, TurnSaw
  <1>8. KnownIsFine(rows.steps, NoTurn) /\ KnowApart(NoTurn, NoTurn)
    BY NoTurnIs, NothingKnown, NobodyKnows
  <1>9. Attended'
    <2>1. LeftRun(rows.messages, rows.left) /\ (rows.left # {} => rows.failures > 0)
      BY DEF RowsInv, Attended
    <2>2. LeftAlone(rows'.turns, rows.left)
      BY <1>1, <1>4, NoTurnIs, Types DEF LeftAlone
    <2> QED
      BY <1>3, <1>4, <2>1, <2>2, NoTurnIs DEF Attended
  <1> QED
    BY <1>3, <1>4, <1>5, <1>7, <1>8, <1>9 DEF RowsInv

\* What the start of the program makes of a row.
OfMessage(m) == [m EXCEPT !.status = IF @ = "Running" THEN "Interrupted" ELSE @]
OfStep(s)    == [s EXCEPT !.status = IF @ = "Running" THEN "Failed" ELSE @]
OfSession(k) == [k EXCEPT !.session = FALSE, !.start = 0, !.forgotten = FALSE]

LEMMA RowsAreInterrupted ==
  /\ \A m \in MessageRows :
       /\ OfMessage(m) \in MessageRows /\ OfMessage(m).id = m.id
       /\ OfMessage(m).conversation = m.conversation /\ OfMessage(m).position = m.position
       /\ OfMessage(m).role = m.role /\ OfMessage(m).status # "Running"
       /\ m.status # "Running" => OfMessage(m) = m
       /\ m.status = "Complete" => OfMessage(m).status = "Complete"
  /\ \A s \in StepRows :
       /\ OfStep(s) \in StepRows /\ OfStep(s).id = s.id /\ OfStep(s).message = s.message
       /\ OfStep(s).parent = s.parent /\ OfStep(s).position = s.position
       /\ OfStep(s).status # "Running"
  /\ \A k \in Sessions : OfSession(k) \in Sessions /\ ~OfSession(k).session
PROOF
  <1>1. \A m \in MessageRows :
          /\ OfMessage(m) \in MessageRows /\ OfMessage(m).id = m.id
          /\ OfMessage(m).conversation = m.conversation /\ OfMessage(m).position = m.position
          /\ OfMessage(m).role = m.role /\ OfMessage(m).status # "Running"
          /\ m.status = "Complete" => OfMessage(m).status = "Complete"
    BY DEF OfMessage, MessageRows
  <1>2. \A m \in MessageRows : m.status # "Running" => OfMessage(m) = m
    BY DEF OfMessage, MessageRows
  <1>3. \A s \in StepRows :
          /\ OfStep(s) \in StepRows /\ OfStep(s).id = s.id /\ OfStep(s).message = s.message
          /\ OfStep(s).parent = s.parent /\ OfStep(s).position = s.position
          /\ OfStep(s).status # "Running"
    BY DEF OfStep, StepRows
  <1>4. \A k \in Sessions : OfSession(k) \in Sessions /\ ~OfSession(k).session
    BY DEF OfSession, Sessions
  <1> QED
    BY <1>1, <1>2, <1>3, <1>4

LEMMA MessagesInterrupted ==
  ASSUME NEW M \in SUBSET MessageRows, Dense(M), AnswersFollowQuestions(M)
  PROVE  /\ Dense({OfMessage(m) : m \in M}) /\ AnswersFollowQuestions({OfMessage(m) : m \in M})
         /\ (\A m \in M : m.status # "Running") => {OfMessage(m) : m \in M} = M
PROOF
  <1>f. PICK f : f = [m \in M |-> OfMessage(m)]
    OBVIOUS
  <1>1. {OfMessage(m) : m \in M} = {f[m] : m \in M}
    BY <1>f
  <1>2. \A m \in M : f[m].position = m.position
    BY <1>f, RowsAreInterrupted
  <1>3. Dense({f[m] : m \in M})
    BY <1>2, DenseMapped
  <1>4. AnswersFollowQuestions({OfMessage(m) : m \in M})
    BY RowsAreInterrupted DEF AnswersFollowQuestions
  <1>5. (\A m \in M : m.status # "Running") => {OfMessage(m) : m \in M} = M
    BY RowsAreInterrupted
  <1> QED
    BY <1>1, <1>3, <1>4, <1>5

LEMMA StepsInterrupted ==
  ASSUME NEW M, NEW T \in SUBSET StepRows, StepsAreFine(M, T),
         NEW N, \A m \in M : \E n \in N : n.id = m.id
  PROVE  StepsAreFine(N, {OfStep(s) : s \in T})
PROOF
  <1>e. PICK ended : ended = {OfStep(s) : s \in T}
    OBVIOUS
  <1>1. UniqueIds(ended)
    BY <1>e, RowsAreInterrupted DEF StepsAreFine, UniqueIds
  <1>2. \A s \in ended : \E n \in N : n.id = s.message
    BY <1>e, RowsAreInterrupted DEF StepsAreFine
  <1>3. ASSUME NEW message \in RowIds
        PROVE  Dense(StepsIn(ended, message))
    <2>S. PICK S : S = StepsIn(T, message)
      OBVIOUS
    <2>f. PICK f : f = [s \in S |-> OfStep(s)]
      OBVIOUS
    <2>1. S \subseteq T
      BY <2>S DEF StepsIn
    <2>2. StepsIn(ended, message) = {f[s] : s \in S}
      BY <1>e, <2>S, <2>f, RowsAreInterrupted DEF StepsIn
    <2>3. \A s \in S : f[s].position = s.position
      BY <2>f, <2>1, RowsAreInterrupted
    <2>4. Dense(S)
      BY <2>S DEF StepsAreFine
    <2>5. Dense({f[s] : s \in S})
      BY <2>3, <2>4, DenseMapped
    <2> QED
      BY <2>2, <2>5
  <1>4. \A s \in ended : s.parent # Nobody =>
          \E p \in ended : p.message = s.message /\ p.id = s.parent /\ p.position < s.position
    <2> SUFFICES ASSUME NEW s \in T, s.parent # Nobody
                 PROVE  \E p \in ended : /\ p.message = s.message /\ p.id = s.parent
                                         /\ p.position < s.position
      BY <1>e, RowsAreInterrupted
    <2>1. PICK p \in T : p.message = s.message /\ p.id = s.parent /\ p.position < s.position
      BY DEF StepsAreFine
    <2>2. OfStep(p) \in ended
      BY <1>e
    <2> QED
      BY <2>1, <2>2, RowsAreInterrupted
  <1> QED
    BY <1>e, <1>1, <1>2, <1>3, <1>4 DEF StepsAreFine

LEMMA OpenIsFine ==
  ASSUME RowsInv, Open
  PROVE  RowsInv'
PROOF
  <1>1. TypeOK /\ ~rows.open /\ \A c \in Conversations : rows.turns[c] = NoTurn
    BY DEF RowsInv, Open, Attended
  <1>m. PICK messages : messages = {OfMessage(m) : m \in rows.messages}
    OBVIOUS
  <1>s. PICK steps : steps = {OfStep(s) : s \in rows.steps}
    OBVIOUS
  <1>k. PICK conversations : conversations =
          [c \in Conversations |-> IF c \in Interrupted THEN OfSession(rows.conversations[c])
                                   ELSE rows.conversations[c]]
    OBVIOUS
  <1>n. PICK seen : seen = [c \in Conversations |-> IF c \in Interrupted THEN {} ELSE rows.seen[c]]
    OBVIOUS
  <1>2. rows' = [rows EXCEPT !.conversations = conversations, !.messages = messages, !.steps = steps,
                             !.seen = seen, !.left = {}, !.open = TRUE]
    BY <1>m, <1>s, <1>k, <1>n DEF Open, InterruptRunning, OfMessage, OfStep, OfSession
  <1>3. /\ rows'.open = TRUE /\ rows'.messages = messages /\ rows'.steps = steps
        /\ rows'.conversations = conversations /\ rows'.turns = rows.turns /\ rows'.seen = seen
        /\ rows'.left = {} /\ rows'.failures = rows.failures
    BY <1>1, <1>2 DEF TypeOK
  <1>4. /\ rows.messages \in SUBSET MessageRows /\ rows.steps \in SUBSET StepRows
        /\ \A c \in Conversations :
             rows.conversations[c] \in Sessions /\ rows.seen[c] \in SUBSET RowIds
    BY <1>1, Types
  <1>5. messages \in SUBSET MessageRows /\ steps \in SUBSET StepRows
    BY <1>m, <1>s, <1>4, RowsAreInterrupted
  <1>6. conversations \in [Conversations -> Sessions] /\ seen \in [Conversations -> SUBSET RowIds]
    BY <1>k, <1>n, <1>4, RowsAreInterrupted
  <1>7. TypeOK'
    BY <1>1, <1>2, <1>5, <1>6 DEF TypeOK
  <1>8. \A c : MessagesOf(c)' = {OfMessage(m) : m \in MessagesOf(c)}
    BY <1>m, <1>3, <1>4, RowsAreInterrupted DEF MessagesOf
  <1>9. ASSUME NEW c \in Conversations
        PROVE  ConversationIsFine(MessagesOf(c)', rows'.turns[c], rows'.conversations[c], rows'.seen[c], rows'.left)
    <2>M. PICK M : M = MessagesOf(c)
      OBVIOUS
    <2>1. /\ ConversationIsFine(M, NoTurn, rows.conversations[c], rows.seen[c], rows.left)
          /\ M \in SUBSET MessageRows
      BY <2>M, <1>1, Types DEF RowsInv
    <2>2. /\ Dense({OfMessage(m) : m \in M}) /\ AnswersFollowQuestions({OfMessage(m) : m \in M})
          /\ (\A m \in M : m.status # "Running") => {OfMessage(m) : m \in M} = M
      BY <2>1, MessagesInterrupted DEF ConversationIsFine
    <2>3. CASE c \in Interrupted
      <3>1. ~conversations[c].session
        BY <1>k, <1>4, <2>3, RowsAreInterrupted
      <3>2. ConversationIsFine({OfMessage(m) : m \in M}, NoTurn, conversations[c], seen[c], {})
        BY <2>2, <3>1, NothingGoesOn
      <3> QED
        BY <1>1, <1>3, <1>8, <2>M, <3>2
    <2>4. CASE c \notin Interrupted
      <3>1. conversations[c] = rows.conversations[c] /\ seen[c] = rows.seen[c]
        BY <1>k, <1>n, <2>4
      <3>2. \A m \in M : m.status # "Running"
        BY <2>M, <2>4 DEF Interrupted, RunningMessages, MessagesOf
      <3>3. MessagesOf(c)' = M
        BY <1>8, <2>M, <2>2, <3>2
      <3>4. ConversationIsFine(M, NoTurn, rows.conversations[c], rows.seen[c], {})
        BY <2>1, FewerAreLeft
      <3> QED
        BY <1>1, <1>3, <3>1, <3>3, <3>4
    <2> QED
      BY <2>3, <2>4
  <1>10. UniqueIds(messages)
    BY <1>m, <1>4, RowsAreInterrupted DEF RowsInv, UniqueIds
  <1>11. StepsAreFine(messages, steps)
    <2>1. \A m \in rows.messages : \E n \in messages : n.id = m.id
      BY <1>m, <1>4, RowsAreInterrupted
    <2>2. StepsAreFine(rows.messages, rows.steps)
      BY DEF RowsInv
    <2> QED
      BY <1>s, <1>4, <2>1, <2>2, StepsInterrupted
  <1>12. KnownIsFine(steps, NoTurn) /\ KnowApart(NoTurn, NoTurn)
    BY NoTurnIs, NothingKnown, NobodyKnows
  <1>13. Attended'
    <2>1. \A m \in messages : m.status # "Running"
      BY <1>m, <1>4, RowsAreInterrupted
    <2>2. \A s \in steps : s.status # "Running"
      BY <1>s, <1>4, RowsAreInterrupted
    <2> QED
      BY <1>1, <1>3, <2>1, <2>2, NoTurnIs DEF Attended, LeftRun, LeftAlone
  <1> QED
    BY <1>1, <1>3, <1>7, <1>9, <1>10, <1>11, <1>12, <1>13 DEF RowsInv

-----------------------------------------------------------------------------

LEMMA NextIsFine ==
  ASSUME RowsInv, Next
  PROVE  RowsInv'
PROOF
  <1>1. ASSUME NEW c \in Conversations, NEW size \in Sizes, Send(c, size) \/ SendFails(c, size)
        PROVE  RowsInv'
    BY <1>1, SendIsFine, SendFailsIsFine
  <1>2. ASSUME NEW c \in Conversations, NEW parent, StepStarts(c, parent)
        PROVE  RowsInv'
    BY <1>2, StepStartsIsFine
  <1>3. ASSUME NEW c \in Conversations, NEW i \in 1..Len(rows.turns[c].known), StepFinishes(c, i)
        PROVE  RowsInv'
    BY <1>3, StepFinishesIsFine
  <1>4. ASSUME NEW c \in Conversations, Succeed(c) \/ Fail(c) \/ FinishFails(c)
        PROVE  RowsInv'
    BY <1>4, SucceedIsFine, FailIsFine, FinishFailsIsFine
  <1>5. ASSUME NEW c \in Conversations,
               CreateConversation(c) \/ Retry(c) \/ RemoveConversation(c)
        PROVE  RowsInv'
    BY <1>5, CreateConversationIsFine, RetryIsFine, RemoveConversationIsFine
  <1>6. CASE Crash
    BY <1>6, CrashIsFine
  <1>7. CASE Open
    BY <1>7, OpenIsFine
  <1> QED
    BY <1>1, <1>2, <1>3, <1>4, <1>5, <1>6, <1>7 DEF Next

LEMMA PlacesAreDenseThen ==
  ASSUME RowsInv
  PROVE  PlacesAreDense
PROOF
  <1>1. TypeOK /\ StepsAreFine(rows.messages, rows.steps)
    BY DEF RowsInv
  <1>2. \A message : StepsOf(message) = StepsIn(rows.steps, message)
    BY DEF StepsOf, StepsIn
  <1>3. ASSUME NEW c \in Conversations
        PROVE  {m.position : m \in MessagesOf(c)} = 0..Cardinality(MessagesOf(c)) - 1
    <2>1. Dense(MessagesOf(c))
      BY DEF RowsInv, ConversationIsFine
    <2> QED
      BY <2>1, DenseIs
  <1>4. ASSUME NEW m \in rows.messages
        PROVE  {s.position : s \in StepsOf(m.id)} = 0..Cardinality(StepsOf(m.id)) - 1
    <2>1. m.id \in RowIds
      BY <1>1, Types DEF MessageRows
    <2>2. Dense(StepsOf(m.id))
      BY <1>1, <1>2, <2>1 DEF StepsAreFine
    <2> QED
      BY <2>2, DenseIs
  <1>5. \A s \in rows.steps : \E m \in rows.messages : m.id = s.message
    BY <1>1 DEF StepsAreFine
  <1>6. \A s \in rows.steps : s.parent # Nobody =>
          \E p \in StepsOf(s.message) : p.id = s.parent /\ p.position < s.position
    BY <1>1 DEF StepsAreFine, StepsOf
  <1> QED
    BY <1>3, <1>4, <1>5, <1>6 DEF PlacesAreDense

LEMMA ReadsBackItsStepsThen ==
  ASSUME RowsInv
  PROVE  ReadsBackItsSteps
PROOF
  <1> SUFFICES ASSUME NEW c \in Conversations, rows.turns[c] # NoTurn, ~rows.turns[c].missed
               PROVE  LET read == Read(StepsOf(rows.turns[c].answer))
                          known == rows.turns[c].known
                      IN  /\ Len(read) = Len(known)
                          /\ \A i \in 1..Len(read) : read[i].id = known[i].id /\ read[i].status = known[i].status
    BY DEF ReadsBackItsSteps
  <1>S. PICK S : S = StepsOf(rows.turns[c].answer)
    OBVIOUS
  <1>k. PICK known : known = rows.turns[c].known
    OBVIOUS
  <1>r. PICK read : read = Read(S)
    OBVIOUS
  <1>1. TypeOK
    BY DEF RowsInv
  <1>2. PICK a \in MessagesOf(c) : a.id = rows.turns[c].answer
    BY DEF RowsInv, ConversationIsFine, TurnIsFine, IsTheAnswer
  <1>3. rows.turns[c].answer \in RowIds /\ Len(known) \in Nat
    BY <1>k, <1>1, <1>2, Types DEF MessageRows, Turns
  <1>4. S = StepsIn(rows.steps, rows.turns[c].answer)
    BY <1>S DEF StepsOf, StepsIn
  <1>5. Dense(S)
    BY <1>3, <1>4 DEF RowsInv, StepsAreFine
  <1>6. IsMirrored(S, known)
    BY <1>k, <1>4 DEF RowsInv, KnownIsFine
  <1>7. /\ Cardinality(S) \in Nat /\ \A s \in S : s.position \in 0..Cardinality(S) - 1
        /\ \A i \in 0..Cardinality(S) - 1 : \E s \in S : s.position = i
    BY <1>5, DenseIs
  <1>8. /\ read \in Seq(S) /\ Len(read) = Cardinality(S)
        /\ \A i \in 1..Len(read) : read[i].position = i - 1
    BY <1>r, <1>5, DenseRead
  <1>9. \A i \in 1..Len(read) : read[i] \in S
    BY <1>8
  <1>10. ~(Cardinality(S) < Len(known))
    <2> SUFFICES ASSUME Cardinality(S) < Len(known)
                 PROVE  FALSE
      OBVIOUS
    <2>1. Len(known) \in 1..Len(known)
      BY <1>3, <1>7
    <2>2. PICK s \in S : s.position + 1 = Len(known)
      BY <1>6, <2>1 DEF IsMirrored
    <2> QED
      BY <1>3, <1>7, <2>2
  <1>11. ~(Len(known) < Cardinality(S))
    <2> SUFFICES ASSUME Len(known) < Cardinality(S)
                 PROVE  FALSE
      OBVIOUS
    <2>1. Len(known) \in 0..Cardinality(S) - 1
      BY <1>3, <1>7
    <2>2. PICK s \in S : s.position = Len(known)
      BY <1>7, <2>1
    <2>3. s.position + 1 \in 1..Len(known)
      BY <1>6 DEF IsMirrored
    <2> QED
      BY <1>3, <2>2, <2>3
  <1>12. Len(read) = Len(known)
    BY <1>3, <1>7, <1>8, <1>10, <1>11
  <1>13. \A i \in 1..Len(read) : read[i].id = known[i].id /\ read[i].status = known[i].status
    <2> TAKE i \in 1..Len(read)
    <2>1. read[i] \in S /\ read[i].position + 1 = i
      BY <1>8, <1>9
    <2> QED
      BY <1>6, <2>1 DEF IsMirrored
  <1> QED
    BY <1>S, <1>k, <1>r, <1>12, <1>13

LEMMA ChatIsKeptThen ==
  ASSUME RowsInv
  PROVE  ChatIsKept
PROOF
  <1>1. TranscriptEndsWithTheQuestion
    <2> SUFFICES ASSUME NEW c \in Conversations, rows.turns[c] # NoTurn
                 PROVE  IsGiven(CompleteMessages(MessagesOf(c)), rows.turns[c].transcript, rows.turns[c].marked)
      BY DEF TranscriptEndsWithTheQuestion, IsGiven
    <2> QED
      BY DEF RowsInv, ConversationIsFine, TurnIsFine
  <1>2. SessionSawItsTail
    <2> SUFFICES ASSUME NEW c \in Conversations, rows.open, rows.turns[c] = NoTurn,
                        rows.conversations[c].session, ~rows.conversations[c].forgotten
                 PROVE  LET tail == {m \in MessagesOf(c) : IsComplete(m) /\ m.position >= rows.conversations[c].start}
                        IN  /\ rows.seen[c] \subseteq {m.id : m \in tail}
                            /\ {m.id : m \in tail \ Unanswered(c)} \subseteq rows.seen[c]
      BY DEF SessionSawItsTail
    <2>1. AreLeft(MessagesOf(c), rows.left)
      BY IdleIs
    <2>2. SawTail(MessagesOf(c), rows.conversations[c].start, rows.seen[c])
      BY <2>1 DEF RowsInv, ConversationIsFine, SessionIsFine
    <2>3. Unanswered(c) = NotAnswered(MessagesOf(c))
      BY DEF Unanswered, NotAnswered
    <2> QED
      BY <2>2, <2>3 DEF SawTail, CompleteFrom, IdsOf
  <1>3. NothingRunsUnattended
    <2>1. \A m \in RunningMessages : rows.open =>
            rows.turns[m.conversation].answer = m.id \/ m.id \in rows.left
      BY DEF RowsInv, Attended, RunningMessages
    <2>2. rows.failures = 0 => rows.left = {}
      BY DEF RowsInv, Attended
    <2> QED
      BY <2>1, <2>2 DEF RowsInv, Attended, NothingRunsUnattended, RunningMessages
  <1> QED
    BY <1>1, <1>2, <1>3, PlacesAreDenseThen, ReadsBackItsStepsThen DEF ChatIsKept

LEMMA StepIsFine == RowsInv /\ [Next]_rows => RowsInv'
PROOF
  <1>1. ASSUME RowsInv, UNCHANGED rows
        PROVE  RowsInv'
    BY <1>1 DEF RowsInv, TypeOK, Attended, MessagesOf
  <1> QED
    BY <1>1, NextIsFine

\* The rows are of their types in every state, with ids below MaxRows.
THEOREM RowsAreTyped == Spec => []TypeOK
PROOF
  <1>1. RowsInv => TypeOK
    BY DEF RowsInv
  <1> QED
    BY <1>1, InitIsFine, StepIsFine, PTL DEF Spec

\* However the turns of the conversations, calls of the store that fail, crashes and starts follow
\* one another: places have no gaps and a step stands after its parent (the repositories of
\* messages and steps), what is read back of a running answer is what its turn holds, a transcript
\* ends with its question and says when it leaves something out (transcript.cpp), a session that is
\* stored and was not given up saw exactly the complete messages from its start on, and what is
\* stored as running has a turn, or lost it to a call that failed (turnrunner.cpp).
THEOREM ChatIsAlwaysKept == Spec => []ChatIsKept
  BY InitIsFine, StepIsFine, ChatIsKeptThen, PTL DEF Spec
=============================================================================
