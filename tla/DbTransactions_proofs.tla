------------------------ MODULE DbTransactions_proofs ------------------------
(***************************************************************************)
(* Proofs about DbTransactions, for any number of writes, scopes, failures *)
(* and restarts.  The depth counter and the engine's levels may drift      *)
(* apart for good: a commit that failed leaves a level behind, an engine   *)
(* that rolled back by itself leaves the counter too high.  What holds     *)
(* nevertheless is that the innermost levels are those of the open scopes, *)
(* name by name, or that the engine has no level left and the scopes are   *)
(* being abandoned (InStep).                                               *)
(***************************************************************************)
EXTENDS DbTransactions, SequenceTheorems, TLAPS

LevelEntry == [name : Nat, before : SUBSET Nat]

Types ==
  /\ disk \in SUBSET Nat /\ data \in SUBSET Nat
  /\ undone \in SUBSET Nat /\ promised \in SUBSET Nat
  /\ levels \in Seq(LevelEntry)
  /\ depth \in Nat
  /\ scopes \in Seq(SUBSET Nat)
  /\ givingUp \in BOOLEAN /\ commitFailed \in BOOLEAN
  /\ writes \in Nat

(* A write that was not tried yet is nowhere. *)
Fresh ==
  /\ disk \subseteq data
  /\ \A w \in data \cup undone : w <= writes
  /\ \A i \in DOMAIN scopes : \A w \in scopes[i] : w <= writes

(* Savepoint names grow inwards and stay below the depth counter. *)
NamesGrow ==
  /\ \A i, j \in DOMAIN levels : i < j => levels[i].name < levels[j].name
  /\ \A i \in DOMAIN levels : levels[i].name < depth

(* Rolling back a level never loses what is on disk and never brings back   *)
(* what the connection does not see.                                        *)
Snapshots ==
  /\ \A i \in DOMAIN levels : disk \subseteq levels[i].before /\ levels[i].before \subseteq data
  /\ \A i, j \in DOMAIN levels : i < j => levels[i].before \subseteq levels[j].before

(* An open scope has nothing on disk. *)
Unwritten == \A i \in DOMAIN scopes : scopes[i] \cap disk = {}

(* The level that belongs to a scope. *)
Own(i) == Len(levels) - Len(scopes) + i

Aligned ==
  /\ Len(levels) >= Len(scopes)
  /\ \A i \in DOMAIN scopes : levels[Own(i)].name = depth - Len(scopes) + i - 1
  /\ \A i, j \in DOMAIN scopes : i <= j => scopes[j] \cap levels[Own(i)].before = {}
  /\ \A i, j \in DOMAIN scopes : i < j => scopes[i] \subseteq levels[Own(j)].before

Seen == \A i \in DOMAIN scopes : scopes[i] \subseteq data

InStep ==
  /\ (Aligned /\ Seen) \/ (givingUp /\ levels = << >> /\ data = disk)
  /\ givingUp => scopes # << >>

Durable == ~commitFailed => Len(levels) <= Len(scopes) /\ promised \subseteq disk

Gone == undone \cap data = {}

IInv ==
  /\ Types /\ Fresh /\ NamesGrow /\ Snapshots /\ Unwritten /\ InStep /\ Durable /\ Gone

-----------------------------------------------------------------------------
(* What the entries of the two stacks are. *)
LEMMA EntryTypes ==
  ASSUME Types
  PROVE  /\ \A i \in DOMAIN levels : /\ levels[i].name \in Nat
                                    /\ levels[i].before \in SUBSET Nat
         /\ \A i \in DOMAIN scopes : scopes[i] \in SUBSET Nat
         /\ DOMAIN levels = 1..Len(levels) /\ Len(levels) \in Nat
         /\ DOMAIN scopes = 1..Len(scopes) /\ Len(scopes) \in Nat
<1>1. \A l \in LevelEntry : l.name \in Nat /\ l.before \in SUBSET Nat
  BY DEF LevelEntry
<1>2. \A i \in DOMAIN levels : levels[i] \in LevelEntry
  BY DEF Types
<1>3. \A i \in DOMAIN scopes : scopes[i] \in SUBSET Nat
  BY DEF Types
<1> QED
  BY <1>1, <1>2, <1>3 DEF Types

(* The invariant holds at the start, with nothing written or open. *)
LEMMA InitInvariant == Init => IInv
<1> SUFFICES ASSUME Init PROVE IInv
  OBVIOUS
<1>1. /\ levels = << >> /\ scopes = << >> /\ DOMAIN levels = {} /\ DOMAIN scopes = {}
      /\ Len(levels) = 0 /\ Len(scopes) = 0
  BY DEF Init
<1>2. Types
  <2>1. << >> \in Seq(LevelEntry) /\ << >> \in Seq(SUBSET Nat)
    OBVIOUS
  <2> QED
    BY <2>1 DEF Init, Types
<1>3. Fresh /\ NamesGrow /\ Snapshots /\ Unwritten
  BY <1>1 DEF Init, Fresh, NamesGrow, Snapshots, Unwritten
<1>4. InStep
  BY <1>1 DEF Init, InStep, Aligned, Seen
<1>5. Durable /\ Gone
  BY <1>1 DEF Init, Durable, Gone
<1> QED
  BY <1>2, <1>3, <1>4, <1>5 DEF IInv

(* commit() and rollback() of the innermost scope address the innermost     *)
(* level, and no level exactly when the engine has none left                *)
(* (dbstorage.cpp:50-108).                                                  *)
LEMMA LevelIsInnermost ==
  ASSUME IInv, scopes # << >>
  PROVE  Level = Len(levels)
<1> USE DEF IInv, Types
<1>1. CASE levels = << >>
  BY <1>1 DEF Level, OuterLevel, LevelOf
<1>2. CASE levels # << >>
  <2> DEFINE n == Len(levels)
  <2>1. Aligned
    BY <1>2 DEF InStep
  <2>2. Len(scopes) \in DOMAIN scopes /\ n \in DOMAIN levels /\ n \in Nat /\ n >= 1
    BY <1>2
  <2>3. levels[n].name = depth - 1
    BY <2>1, <2>2 DEF Aligned, Own
  <2>4. CASE depth = 1
    <3>1. 1 \in DOMAIN levels /\ levels[1].name \in Nat /\ levels[n].name = 0
      BY <2>2, <2>3, <2>4, EntryTypes
    <3>2. n = 1
      <4>1. 1 < n => levels[1].name < levels[n].name
        BY <2>2, <3>1 DEF NamesGrow
      <4> HIDE DEF n
      <4> QED
        BY <4>1, <3>1, <2>2
    <3> QED
      BY <3>2, <2>4, <1>2 DEF Level, OuterLevel
  <2>5. CASE depth # 1
    <3> DEFINE named == {k \in DOMAIN levels : levels[k].name = depth - 1}
    <3>0. \A k \in DOMAIN levels : k # n => levels[k].name < levels[n].name
      BY <2>2 DEF NamesGrow
    <3>1. named = {n}
      BY <2>2, <2>3, <3>0
    <3>2. LevelOf(depth - 1) = CHOOSE k \in named : \A j \in named : j <= k
      BY <3>1 DEF LevelOf
    <3>3. LevelOf(depth - 1) = n
      BY <3>1, <3>2, <2>2
    <3> QED
      BY <3>3, <2>5 DEF Level, SavepointName
  <2> QED
    BY <2>4, <2>5
<1> QED
  BY <1>1, <1>2

-----------------------------------------------------------------------------
(* A new scope gets the innermost level, named by the depth. *)
LEMMA OpenScopeKeepsInvariant == IInv /\ OpenScope => IInv'
<1> SUFFICES ASSUME IInv, OpenScope PROVE IInv'
  OBVIOUS
<1> USE DEF IInv, Types, LevelEntry
<1> DEFINE l == [name |-> depth, before |-> data]
<1>1. /\ levels' = Append(levels, l)
      /\ depth' = depth + 1
      /\ scopes' = Append(scopes, {})
      /\ UNCHANGED <<disk, data, givingUp, writes, commitFailed, promised, undone>>
      /\ ~givingUp
  BY DEF OpenScope, OpenLevel, SavepointName, counts, outcomes, CanWork
<1> HIDE DEF l
<1>a. l \in LevelEntry /\ l.name = depth /\ l.before = data
  BY DEF l
<1>b. /\ Len(levels') = Len(levels) + 1 /\ Len(scopes') = Len(scopes) + 1
      /\ \A i \in DOMAIN levels : levels'[i] = levels[i]
      /\ levels'[Len(levels) + 1] = l
      /\ \A i \in DOMAIN scopes : scopes'[i] = scopes[i]
      /\ scopes'[Len(scopes) + 1] = {}
      /\ DOMAIN levels' = DOMAIN levels \cup {Len(levels) + 1}
      /\ DOMAIN scopes' = DOMAIN scopes \cup {Len(scopes) + 1}
  BY <1>1, <1>a
<1>2. Types'
  BY <1>1, <1>a
<1>3. Fresh'
  BY <1>1, <1>b DEF Fresh
<1>4. NamesGrow'
  <2>1. \A i \in DOMAIN levels : i < Len(levels) + 1 /\ levels[i].name \in Nat /\ levels[i].name < depth
    BY EntryTypes DEF NamesGrow
  <2>2. ASSUME NEW i \in DOMAIN levels', NEW j \in DOMAIN levels', i < j
        PROVE  levels'[i].name < levels'[j].name
    BY <2>1, <2>2, <1>a, <1>b DEF NamesGrow
  <2>3. \A i \in DOMAIN levels' : levels'[i].name < depth'
    BY <2>1, <1>1, <1>a, <1>b
  <2> QED
    BY <2>2, <2>3 DEF NamesGrow
<1>5. Snapshots'
  BY <1>1, <1>a, <1>b DEF Snapshots, Fresh
<1>6. Unwritten'
  BY <1>1, <1>b DEF Unwritten
<1>7. InStep'
  <2>1. Aligned
    BY <1>1 DEF InStep
  <2>8. Seen
    BY <1>1 DEF InStep
  <2>2. \A i \in DOMAIN scopes : Own(i)' = Own(i) /\ Own(i) \in DOMAIN levels
    BY <1>b, <2>1 DEF Own, Aligned
  <2>3. \A i : i = Len(scopes) + 1 => Own(i)' = Len(levels) + 1
    BY <1>b DEF Own
  <2>4. Len(levels') >= Len(scopes')
    BY <1>b, <2>1 DEF Aligned
  <2>5. ASSUME NEW i \in DOMAIN scopes'
        PROVE  levels'[Own(i)'].name = depth' - Len(scopes') + i - 1
    <3>1. CASE i \in DOMAIN scopes
      <4>1. levels'[Own(i)'].name = depth - Len(scopes) + i - 1
        BY <3>1, <1>b, <2>1, <2>2 DEF Aligned
      <4> QED
        BY <3>1, <4>1, <1>1, <1>b
    <3>2. CASE i = Len(scopes) + 1
      BY <3>2, <1>1, <1>a, <1>b, <2>3
    <3> QED
      BY <3>1, <3>2, <1>b
  <2>6. ASSUME NEW i \in DOMAIN scopes', NEW j \in DOMAIN scopes', i <= j
        PROVE  scopes'[j] \cap levels'[Own(i)'].before = {}
    <3>1. CASE j \in DOMAIN scopes
      <4>1. i \in DOMAIN scopes
        BY <3>1, <2>6, <1>b
      <4>2. scopes[j] \cap levels[Own(i)].before = {}
        BY <3>1, <4>1, <2>6, <2>1 DEF Aligned
      <4> QED
        BY <3>1, <4>1, <4>2, <1>b, <2>2
    <3>2. CASE j = Len(scopes) + 1
      BY <3>2, <1>b
    <3> QED
      BY <3>1, <3>2, <1>b
  <2>7. ASSUME NEW i \in DOMAIN scopes', NEW j \in DOMAIN scopes', i < j
        PROVE  scopes'[i] \subseteq levels'[Own(j)'].before
    <3>0. i \in DOMAIN scopes /\ scopes'[i] = scopes[i]
      BY <2>7, <1>b
    <3>1. CASE j \in DOMAIN scopes
      <4>1. scopes[i] \subseteq levels[Own(j)].before
        BY <3>0, <3>1, <2>7, <2>1 DEF Aligned
      <4> QED
        BY <3>0, <3>1, <4>1, <1>b, <2>2
    <3>2. CASE j = Len(scopes) + 1
      BY <3>0, <3>2, <1>a, <1>b, <2>3, <2>8 DEF Seen
    <3> QED
      BY <3>1, <3>2, <1>b
  <2>9. Aligned'
    BY <2>4, <2>5, <2>6, <2>7 DEF Aligned
  <2>10. Seen'
    BY <2>8, <1>1, <1>b DEF Seen
  <2> QED
    BY <2>9, <2>10, <1>1, <1>b DEF InStep
<1>8. Durable'
  BY <1>1, <1>b DEF Durable
<1>9. Gone'
  BY <1>1 DEF Gone
<1> QED
  BY <1>2, <1>3, <1>4, <1>5, <1>6, <1>7, <1>8, <1>9

(* Facts about the stacks without their innermost entries. *)
LEMMA CutLevels ==
  ASSUME Types, NEW k \in DOMAIN levels, levels' = SubSeq(levels, 1, k - 1)
  PROVE  /\ levels' \in Seq(LevelEntry)
         /\ Len(levels') = k - 1
         /\ DOMAIN levels' = 1..(k - 1)
         /\ \A i \in 1..(k - 1) : i \in DOMAIN levels /\ levels'[i] = levels[i]
<1>1. k \in Nat /\ 1 <= k /\ k <= Len(levels)
  BY EntryTypes
<1>2. Len(levels') = k - 1 /\ DOMAIN levels' = 1..(k - 1)
  BY <1>1 DEF Types
<1>3. \A i \in 1..(k - 1) : i \in DOMAIN levels /\ levels'[i] = levels[i]
  BY <1>1 DEF Types
<1>4. levels' \in Seq(LevelEntry)
  BY <1>1 DEF Types
<1> QED
  BY <1>2, <1>3, <1>4

LEMMA OuterScopes ==
  ASSUME Types, scopes # << >>
  PROVE  /\ Outer \in Seq(SUBSET Nat)
         /\ Len(Outer) = Len(scopes) - 1
         /\ DOMAIN Outer = 1..(Len(scopes) - 1)
         /\ \A i \in DOMAIN Outer : i \in DOMAIN scopes /\ Outer[i] = scopes[i]
         /\ Len(scopes) \in DOMAIN scopes
         /\ Top \in SUBSET Nat
<1>1. Len(scopes) \in Nat /\ 1 <= Len(scopes)
  BY DEF Types
<1>2. /\ Outer \in Seq(SUBSET Nat)
      /\ Len(Outer) = Len(scopes) - 1
      /\ DOMAIN Outer = 1..(Len(scopes) - 1)
  <2>1. Len(Outer) = Len(scopes) - 1 /\ DOMAIN Outer = 1..(Len(scopes) - 1)
    <3> DEFINE m == Len(scopes) - 1
    <3>1. m \in Nat /\ m <= Len(scopes)
      BY <1>1
    <3>2. Outer = SubSeq(scopes, 1, m)
      BY DEF Outer
    <3> HIDE DEF m
    <3>3. Len(Outer) = m /\ DOMAIN Outer = 1..m
      BY <3>1, <3>2 DEF Types
    <3> QED
      BY <3>3 DEF m
  <2>2. Outer \in Seq(SUBSET Nat)
    BY <1>1 DEF Types, Outer
  <2> QED
    BY <2>1, <2>2
<1>3. \A i \in DOMAIN Outer : i \in DOMAIN scopes /\ Outer[i] = scopes[i]
  BY <1>1 DEF Types, Outer
<1>4. Len(scopes) \in DOMAIN scopes /\ Top \in SUBSET Nat
  BY <1>1 DEF Types, Top
<1> QED
  BY <1>2, <1>3, <1>4

(* While a scope writes, the engine has a level for each scope. *)
LEMMA WorkingIsAligned ==
  ASSUME IInv, ~givingUp, scopes # << >>
  PROVE  Aligned /\ Seen /\ levels # << >> /\ Len(levels) \in DOMAIN levels
<1>1. Aligned /\ Seen
  BY DEF IInv, InStep
<1>2. Len(levels) >= 1
  BY <1>1, EntryTypes DEF IInv, Types, Aligned
<1> QED
  BY <1>1, <1>2 DEF IInv, Types

(* A write goes to the innermost scope and not to the disk. *)
LEMMA WriteKeepsInvariant == IInv /\ Write => IInv'
<1> SUFFICES ASSUME IInv, Write PROVE IInv'
  OBVIOUS
<1> DEFINE w == writes + 1
           n == Len(scopes)
<1>1. /\ scopes # << >> /\ ~givingUp
      /\ writes' = w
      /\ data' = data \cup {w}
      /\ scopes' = Append(Outer, Top \cup {w})
      /\ UNCHANGED <<levels, depth, givingUp, commitFailed, promised, undone>>
  BY DEF Write, CanWork, outcomes
<1>2. Types /\ Aligned /\ Seen /\ levels # << >>
  BY <1>1, WorkingIsAligned DEF IInv
<1>3. disk' = disk
  BY <1>2 DEF Write
<1>4. w \in Nat /\ writes < w
  BY <1>2 DEF Types
<1>5. /\ scopes' \in Seq(SUBSET Nat)
      /\ Len(scopes') = n /\ DOMAIN scopes' = 1..n /\ n \in Nat
      /\ \A i \in 1..n : i # n => scopes'[i] = scopes[i]
      /\ scopes'[n] = scopes[n] \cup {w}
      /\ DOMAIN scopes = 1..n
  BY <1>1, <1>2, <1>4, OuterScopes, EntryTypes DEF Top
<1> HIDE DEF w, n
<1>6. Types'
  BY <1>1, <1>2, <1>3, <1>4, <1>5 DEF Types
<1>7. Fresh'
  <2>1. disk' \subseteq data' /\ \A v \in data' \cup undone' : v <= writes'
    BY <1>1, <1>2, <1>3, <1>4 DEF IInv, Fresh, Types
  <2>2. \A i \in DOMAIN scopes' : \A v \in scopes'[i] : v <= writes'
    BY <1>1, <1>2, <1>4, <1>5, EntryTypes DEF IInv, Fresh, Types
  <2> QED
    BY <2>1, <2>2 DEF Fresh
<1>8. NamesGrow' /\ Durable' /\ Snapshots'
  BY <1>1, <1>3, <1>5 DEF IInv, NamesGrow, Durable, Snapshots, n
<1>9. Unwritten'
  <2>1. w \notin disk
    BY <1>2, <1>4 DEF IInv, Fresh, Types
  <2> QED
    BY <2>1, <1>3, <1>5 DEF IInv, Unwritten
<1>10. InStep'
  <2>0. Len(levels) >= n /\ Len(levels) \in Nat /\ DOMAIN levels = 1..Len(levels)
    BY <1>2, EntryTypes DEF Aligned, n
  <2>1. \A i \in 1..n : Own(i)' = Own(i) /\ Own(i) \in DOMAIN levels
    <3>1. \A i \in 1..n : Own(i) = Len(levels) - n + i
      BY DEF Own, n
    <3>2. \A i \in 1..n : Own(i)' = Len(levels) - n + i
      BY <1>1, <1>5 DEF Own
    <3> QED
      BY <3>1, <3>2, <2>0, <1>5
  <2>2. \A i \in DOMAIN levels : w \notin levels[i].before
    BY <1>2, <1>4 DEF IInv, Fresh, Snapshots, Types
  <2>3. ASSUME NEW i \in DOMAIN scopes', NEW j \in DOMAIN scopes', i <= j
        PROVE  scopes'[j] \cap levels'[Own(i)'].before = {}
    <3>1. scopes[j] \cap levels[Own(i)].before = {}
      BY <2>3, <1>2, <1>5 DEF Aligned
    <3> QED
      BY <3>1, <2>1, <2>2, <1>1, <1>5
  <2>4. Len(levels') >= Len(scopes')
    BY <1>1, <1>2, <1>5 DEF Aligned, n
  <2>5. \A i \in DOMAIN scopes' : levels'[Own(i)'].name = depth' - Len(scopes') + i - 1
    BY <2>1, <1>1, <1>2, <1>5 DEF Aligned, n
  <2>6. ASSUME NEW i \in DOMAIN scopes', NEW j \in DOMAIN scopes', i < j
        PROVE  scopes'[i] \subseteq levels'[Own(j)'].before
    <3>1. scopes[i] \subseteq levels[Own(j)].before
      BY <2>6, <1>2, <1>5 DEF Aligned
    <3>2. i # n
      BY <2>6, <1>5
    <3> QED
      BY <3>1, <3>2, <2>1, <1>1, <1>5
  <2>7. Aligned'
    BY <2>3, <2>4, <2>5, <2>6 DEF Aligned
  <2>8. Seen'
    BY <1>1, <1>2, <1>5 DEF Seen
  <2> QED
    BY <2>7, <2>8, <1>1 DEF InStep
<1>11. Gone'
  BY <1>1, <1>2, <1>4 DEF IInv, Gone, Fresh, Types
<1> QED
  BY <1>6, <1>7, <1>8, <1>9, <1>10, <1>11 DEF IInv

(* When the innermost scope ends together with its level, the levels that   *)
(* are left belong to the scopes that are left, whether or not the scope    *)
(* around it takes over the writes.                                         *)
LEMMA PopKeepsStep ==
  ASSUME IInv, Aligned, scopes # << >>,
         levels' = SubSeq(levels, 1, Len(levels) - 1),
         depth' = depth - 1,
         scopes' \in Seq(SUBSET Nat),
         Len(scopes') = Len(scopes) - 1,
         \A i \in DOMAIN scopes' : scopes'[i] \subseteq scopes[i] \cup scopes[Len(scopes)],
         \A i \in DOMAIN scopes' : i < Len(scopes') => scopes'[i] = scopes[i]
  PROVE  /\ levels' \in Seq(LevelEntry) /\ depth' \in Nat
         /\ Len(levels') = Len(levels) - 1
         /\ DOMAIN levels' = 1..(Len(levels) - 1)
         /\ \A i \in DOMAIN levels' : i \in DOMAIN levels /\ levels'[i] = levels[i]
         /\ NamesGrow' /\ Aligned'
<1> DEFINE n == Len(scopes)
           k == Len(levels)
<1>1. Types
  BY DEF IInv
<1>2. /\ k \in Nat /\ n \in Nat /\ 1 <= n /\ n <= k
      /\ DOMAIN levels = 1..k /\ DOMAIN scopes = 1..n
      /\ k \in DOMAIN levels /\ n \in DOMAIN scopes
  <2>1. n \in Nat /\ n >= 1 /\ k \in Nat /\ k >= n
    BY <1>1, EntryTypes DEF Types, Aligned
  <2> QED
    BY <2>1, <1>1, EntryTypes
<1>3. /\ levels' \in Seq(LevelEntry)
      /\ Len(levels') = k - 1
      /\ DOMAIN levels' = 1..(k - 1)
      /\ \A i \in 1..(k - 1) : i \in DOMAIN levels /\ levels'[i] = levels[i]
  BY <1>1, <1>2, CutLevels
<1>4. levels[k].name = depth - 1 /\ levels[k].name \in Nat
  <2>1. Own(n) = k
    BY <1>2 DEF Own
  <2>2. levels[Own(n)].name = depth - n + n - 1
    BY <1>2 DEF Aligned
  <2>3. levels[k].name \in Nat
    BY <1>1, <1>2, EntryTypes
  <2> QED
    BY <2>1, <2>2, <2>3, <1>1, <1>2 DEF Types
<1>5. DOMAIN scopes' = 1..(n - 1)
  BY <1>2
<1> HIDE DEF n, k
<1>6. NamesGrow'
  <2>1. \A i \in DOMAIN levels' : levels'[i].name < depth'
    BY <1>2, <1>3, <1>4 DEF IInv, NamesGrow
  <2>2. \A i, j \in DOMAIN levels' : i < j => levels'[i].name < levels'[j].name
    BY <1>3 DEF IInv, NamesGrow
  <2> QED
    BY <2>1, <2>2 DEF NamesGrow
<1>7. \A i \in 1..(n - 1) : Own(i) = k - n + i /\ Own(i)' = k - n + i
  BY <1>2, <1>3 DEF Own, n, k
<1>8. \A i \in 1..(n - 1) : k - n + i \in 1..(k - 1) /\ i \in DOMAIN scopes
  BY <1>2
<1>9. \A i \in DOMAIN scopes' : levels'[Own(i)'].name = depth' - Len(scopes') + i - 1
  <2> SUFFICES ASSUME NEW i \in 1..(n - 1)
               PROVE  levels'[Own(i)'].name = depth' - (n - 1) + i - 1
    BY <1>5 DEF n
  <2>1. levels'[Own(i)'] = levels[Own(i)]
    BY <1>3, <1>7, <1>8
  <2>2. levels[Own(i)].name = depth - n + i - 1
    BY <1>8 DEF Aligned, n
  <2>3. depth \in Nat /\ i \in Nat /\ n \in Nat
    BY <1>1, <1>2 DEF Types
  <2>4. depth - n + i - 1 = (depth') - (n - 1) + i - 1
    BY <2>3
  <2> QED
    BY <2>1, <2>2, <2>4
<1>10. ASSUME NEW i \in DOMAIN scopes', NEW j \in DOMAIN scopes', i <= j
       PROVE  scopes'[j] \cap levels'[Own(i)'].before = {}
  <2>1. levels'[Own(i)'] = levels[Own(i)]
    BY <1>3, <1>5, <1>7, <1>8
  <2>2. scopes[j] \cap levels[Own(i)].before = {}
    BY <1>5, <1>8, <1>10 DEF Aligned
  <2>3. i <= n
    BY <1>2, <1>5
  <2>4. scopes[n] \cap levels[Own(i)].before = {}
    BY <2>3, <1>2, <1>5, <1>8 DEF Aligned
  <2>5. scopes'[j] \subseteq scopes[j] \cup scopes[n]
    BY DEF n
  <2> QED
    BY <2>1, <2>2, <2>4, <2>5
<1>11. Len(levels') >= Len(scopes')
  BY <1>2, <1>3 DEF n
<1>13. ASSUME NEW i \in DOMAIN scopes', NEW j \in DOMAIN scopes', i < j
       PROVE  scopes'[i] \subseteq levels'[Own(j)'].before
  <2>1. levels'[Own(j)'] = levels[Own(j)]
    BY <1>3, <1>5, <1>7, <1>8
  <2>2. scopes[i] \subseteq levels[Own(j)].before
    BY <1>5, <1>8, <1>13 DEF Aligned
  <2>3. scopes'[i] = scopes[i]
    BY <1>2, <1>5, <1>13 DEF n
  <2> QED
    BY <2>1, <2>2, <2>3
<1>12. Aligned'
  BY <1>9, <1>10, <1>11, <1>13 DEF Aligned
<1> QED
  BY <1>1, <1>3, <1>4, <1>6, <1>12 DEF Types, k

(* A commit ends the innermost level; the scope around it takes over. *)
LEMMA CommitSucceedsKeepsInvariant == IInv /\ CommitSucceeds => IInv'
<1> SUFFICES ASSUME IInv, CommitSucceeds PROVE IInv'
  OBVIOUS
<1> DEFINE n == Len(scopes)
           k == Len(levels)
<1>1. /\ scopes # << >> /\ ~givingUp
      /\ depth' = depth - 1
      /\ UNCHANGED <<data, givingUp, writes, commitFailed, undone>>
  BY DEF CommitSucceeds, CanWork, counts, Release, Shallower
<1>2. Types /\ Aligned /\ Seen /\ levels # << >> /\ k \in DOMAIN levels
  BY <1>1, WorkingIsAligned DEF IInv
<1>3. /\ levels' = SubSeq(levels, 1, k - 1)
      /\ disk' = IF k = 1 THEN data ELSE disk
  BY <1>1, LevelIsInnermost DEF CommitSucceeds, Release
<1>4. /\ n \in Nat /\ k \in Nat /\ 1 <= n /\ n <= k
      /\ DOMAIN scopes = 1..n /\ DOMAIN levels = 1..k
  BY <1>1, <1>2, EntryTypes DEF Types, Aligned
<1>5. /\ scopes' \in Seq(SUBSET Nat)
      /\ Len(scopes') = n - 1
      /\ DOMAIN scopes' = 1..(n - 1)
      /\ \A i \in DOMAIN scopes' : i \in DOMAIN scopes /\ scopes'[i] \subseteq scopes[i] \cup scopes[n]
      /\ \A i \in DOMAIN scopes' : i < Len(scopes') => scopes'[i] = scopes[i]
  <2>1. CASE n = 1
    BY <2>1, <1>2 DEF CommitSucceeds
  <2>2. CASE n # 1
    <3>1. scopes' = [Outer EXCEPT ![Len(Outer)] = Outer[Len(Outer)] \cup Top]
      BY <2>2 DEF CommitSucceeds
    <3>2. /\ Outer \in Seq(SUBSET Nat) /\ Len(Outer) = n - 1 /\ DOMAIN Outer = 1..(n - 1)
          /\ \A i \in DOMAIN Outer : i \in DOMAIN scopes /\ Outer[i] = scopes[i]
          /\ Top \in SUBSET Nat
      BY <1>1, <1>2, OuterScopes
    <3>3. n - 1 \in DOMAIN Outer
      BY <3>2, <2>2, <1>4
    <3>4. scopes' \in Seq(SUBSET Nat) /\ Len(scopes') = n - 1 /\ DOMAIN scopes' = 1..(n - 1)
      <4>1. Outer[Len(Outer)] \cup Top \in SUBSET Nat
        BY <3>2, <3>3, EntryTypes, <1>2
      <4> QED
        BY <3>1, <3>2, <3>3, <4>1
    <3>5. \A i \in DOMAIN scopes' : scopes'[i] \subseteq scopes[i] \cup scopes[n]
      BY <3>1, <3>2, <3>3, <3>4 DEF Top
    <3>6. \A i \in DOMAIN scopes' : i < Len(scopes') => scopes'[i] = scopes[i]
      BY <3>1, <3>2, <3>3, <3>4
    <3> QED
      BY <3>2, <3>4, <3>5, <3>6
  <2> QED
    BY <2>1, <2>2
<1>6. /\ levels' \in Seq(LevelEntry) /\ depth' \in Nat
      /\ Len(levels') = k - 1
      /\ DOMAIN levels' = 1..(k - 1)
      /\ \A i \in DOMAIN levels' : i \in DOMAIN levels /\ levels'[i] = levels[i]
      /\ NamesGrow' /\ Aligned'
  BY <1>1, <1>2, <1>3, <1>5, PopKeepsStep
<1>7. promised' = promised \/ (promised' = promised \cup Top /\ n = 1)
  BY DEF CommitSucceeds
<1>8. Top \in SUBSET Nat /\ Top = scopes[n] /\ n \in DOMAIN scopes
  BY <1>1, <1>2, OuterScopes DEF Top
<1>9. scopes[n] \subseteq 0..writes
  BY <1>2, <1>8 DEF IInv, Fresh, Types
<1> HIDE DEF n, k
<1>10. Types'
  <2>1. disk' \in SUBSET Nat /\ promised' \in SUBSET Nat
    BY <1>2, <1>3, <1>7, <1>8 DEF Types
  <2> QED
    BY <2>1, <1>1, <1>2, <1>5, <1>6 DEF Types
<1>11. Fresh'
  <2>1. disk' \subseteq data'
    BY <1>1, <1>3 DEF IInv, Fresh
  <2>2. \A i \in DOMAIN scopes' : \A v \in scopes'[i] : v <= writes
    BY <1>5, <1>8 DEF IInv, Fresh
  <2> QED
    BY <2>1, <2>2, <1>1 DEF IInv, Fresh
<1>12. Snapshots'
  <2>1. CASE k = 1
    BY <2>1, <1>6 DEF Snapshots
  <2>2. CASE k # 1
    BY <2>2, <1>1, <1>3, <1>6 DEF IInv, Snapshots
  <2> QED
    BY <2>1, <2>2
<1>13. Unwritten'
  <2>1. CASE k = 1
    BY <2>1, <1>4, <1>5 DEF Unwritten
  <2>2. CASE k # 1
    BY <2>2, <1>3, <1>5, <1>8 DEF IInv, Unwritten
  <2> QED
    BY <2>1, <2>2
<1>14. InStep'
  <2>1. Seen'
    BY <1>1, <1>2, <1>5, <1>8 DEF Seen
  <2> QED
    BY <2>1, <1>1, <1>6 DEF InStep
<1>15. Durable'
  <2> SUFFICES ASSUME ~commitFailed'
               PROVE  Len(levels') <= Len(scopes') /\ promised' \subseteq disk'
    BY DEF Durable
  <2>1. k <= n /\ promised \subseteq disk
    BY <1>1 DEF IInv, Durable, n, k
  <2>2. Len(levels') <= Len(scopes')
    BY <2>1, <1>4, <1>5, <1>6
  <2>3. disk \subseteq disk'
    BY <1>3 DEF IInv, Fresh
  <2>4. n = 1 => Top \subseteq disk'
    <3> SUFFICES ASSUME n = 1 PROVE Top \subseteq data
      BY <2>1, <1>3, <1>4
    <3> QED
      BY <1>2, <1>8 DEF Seen
  <2> QED
    BY <2>1, <2>2, <2>3, <2>4, <1>7
<1>16. Gone'
  BY <1>1 DEF IInv, Gone
<1> QED
  BY <1>6, <1>10, <1>11, <1>12, <1>13, <1>14, <1>15, <1>16 DEF IInv

(* A commit that fails leaves the level behind, unless the engine rolled   *)
(* back by itself; only an outermost commit can fail.                       *)
LEMMA CommitFailsKeepsInvariant == IInv /\ CommitFails => IInv'
<1> SUFFICES ASSUME IInv, CommitFails PROVE IInv'
  OBVIOUS
<1>1. /\ scopes # << >> /\ ~givingUp /\ Level \in {0, 1}
      /\ scopes' = Outer
      /\ givingUp' = (Outer # << >>)
      /\ commitFailed' = TRUE
      /\ UNCHANGED <<depth, writes, promised, undone, disk>>
      /\ UNCHANGED <<levels, data>> \/ (levels' = << >> /\ data' = disk)
  BY DEF CommitFails, CanWork, engine, RollBackByItself
<1>2. Types /\ Aligned /\ Len(levels) \in DOMAIN levels
  BY <1>1, WorkingIsAligned DEF IInv
<1>3. Len(scopes) = 1
  <2>1. Level = Len(levels)
    BY <1>1, LevelIsInnermost
  <2>2. Len(scopes) \in Nat /\ Len(levels) \in Nat /\ Len(scopes) # 0
    BY <1>1, <1>2 DEF Types
  <2>3. Len(levels) >= Len(scopes)
    BY <1>2 DEF Aligned
  <2>4. Len(levels) \in {0, 1}
    BY <2>1, <1>1
  <2> QED
    BY <2>2, <2>3, <2>4
<1>4. scopes' = << >> /\ ~givingUp' /\ Len(scopes') = 0 /\ DOMAIN scopes' = {}
  <2>1. Outer = << >>
    BY <1>2, <1>3 DEF Outer, Types
  <2>2. scopes' = << >>
    BY <2>1, <1>1
  <2>3. ~givingUp'
    BY <2>1, <1>1
  <2> QED
    BY <2>2, <2>3
<1>5. Types'
  <2>1. << >> \in Seq(LevelEntry) /\ << >> \in Seq(SUBSET Nat)
    OBVIOUS
  <2>2. levels' \in Seq(LevelEntry) /\ data' \in SUBSET Nat
    BY <2>1, <1>1, <1>2 DEF Types
  <2> QED
    BY <2>1, <2>2, <1>1, <1>2, <1>4 DEF Types
<1>6. Fresh' /\ Gone'
  BY <1>1, <1>4 DEF IInv, Fresh, Gone
<1>7. NamesGrow' /\ Snapshots'
  <2>1. CASE UNCHANGED <<levels, data>>
    BY <2>1, <1>1 DEF IInv, NamesGrow, Snapshots
  <2>2. CASE levels' = << >>
    BY <2>2 DEF NamesGrow, Snapshots
  <2> QED
    BY <2>1, <2>2, <1>1
<1>8. Unwritten' /\ Durable'
  BY <1>1, <1>4 DEF Unwritten, Durable
<1>9. InStep'
  <2>1. Len(levels') >= 0
    BY <1>5 DEF Types
  <2> QED
    BY <2>1, <1>4 DEF InStep, Aligned, Seen
<1> QED
  BY <1>5, <1>6, <1>7, <1>8, <1>9 DEF IInv

(* A failing statement writes nothing; at worst the engine drops all levels. *)
LEMMA WriteFailsKeepsInvariant == IInv /\ WriteFails => IInv'
<1> SUFFICES ASSUME IInv, WriteFails PROVE IInv'
  OBVIOUS
<1>1. /\ scopes # << >> /\ ~givingUp /\ givingUp'
      /\ givingUp' \in BOOLEAN
      /\ UNCHANGED <<depth, scopes, writes, promised, undone, disk, commitFailed>>
      /\ UNCHANGED <<levels, data>> \/ (levels' = << >> /\ data' = disk)
  BY DEF WriteFails, CanWork, engine, RollBackByItself, outcomes
<1>2. Types /\ Aligned /\ Seen
  BY <1>1, WorkingIsAligned DEF IInv
<1>3. CASE UNCHANGED <<levels, data>>
  <2>1. Types' /\ Fresh' /\ Gone'
    BY <1>1, <1>2, <1>3 DEF IInv, Types, Fresh, Gone
  <2>2. NamesGrow' /\ Snapshots' /\ Unwritten' /\ Durable'
    BY <1>1, <1>3 DEF IInv, NamesGrow, Snapshots, Unwritten, Durable
  <2>3. Aligned' /\ Seen'
    BY <1>1, <1>2, <1>3 DEF Aligned, Own, Seen
  <2> QED
    BY <2>1, <2>2, <2>3, <1>1 DEF IInv, InStep
<1>4. CASE levels' = << >> /\ data' = disk
  <2>1. Types' /\ Fresh' /\ Gone'
    BY <1>1, <1>2, <1>4 DEF IInv, Types, Fresh, Gone
  <2>2. NamesGrow' /\ Snapshots' /\ Unwritten'
    BY <1>1, <1>4 DEF IInv, NamesGrow, Snapshots, Unwritten
  <2>3. Durable'
    BY <1>1, <1>2, <1>4, EntryTypes DEF IInv, Durable
  <2> QED
    BY <2>1, <2>2, <2>3, <1>1, <1>4 DEF IInv, InStep
<1> QED
  BY <1>1, <1>3, <1>4

(* Leaving a scope restores what its level was opened on, or finds it       *)
(* restored.                                                                *)
LEMMA LeaveScopeKeepsInvariant == IInv /\ LeaveScope => IInv'
<1> SUFFICES ASSUME IInv, LeaveScope PROVE IInv'
  OBVIOUS
<1> DEFINE n == Len(scopes)
           k == Len(levels)
<1>1. /\ scopes # << >>
      /\ undone' = undone \cup Top
      /\ scopes' = Outer
      /\ UNCHANGED <<writes, commitFailed, promised, disk>>
      /\ givingUp' = (givingUp /\ Outer # << >>)
      /\ IF Level = 0 THEN UNCHANGED <<levels, data, depth>>
         ELSE /\ levels' = SubSeq(levels, 1, Level - 1)
              /\ data' = levels[Level].before
              /\ depth' = depth - 1
  BY DEF LeaveScope, counts, engine, RollBackTo, Shallower
<1>2. Types /\ Level = k
  BY <1>1, LevelIsInnermost DEF IInv
<1>3. /\ n \in Nat /\ k \in Nat /\ 1 <= n
      /\ DOMAIN scopes = 1..n /\ DOMAIN levels = 1..k
  BY <1>1, <1>2, EntryTypes DEF Types
<1>4. /\ scopes' \in Seq(SUBSET Nat)
      /\ Len(scopes') = n - 1
      /\ DOMAIN scopes' = 1..(n - 1)
      /\ \A i \in DOMAIN scopes' : i \in DOMAIN scopes /\ scopes'[i] = scopes[i]
      /\ n \in DOMAIN scopes
      /\ Top \in SUBSET Nat /\ Top = scopes[n]
  BY <1>1, <1>2, OuterScopes DEF Top
<1>5. \A w \in Top : w <= writes
  BY <1>4 DEF IInv, Fresh
<1>6. Top \cap disk = {}
  BY <1>4 DEF IInv, Unwritten
<1>7. givingUp' \in BOOLEAN /\ (givingUp' => givingUp /\ scopes' # << >>)
  BY <1>1
<1>8. Unwritten'
  BY <1>1, <1>4 DEF IInv, Unwritten
<1>9. CASE Level = 0
  <2>1. levels = << >> /\ levels' = << >> /\ data' = data /\ depth' = depth
    <3>1. Len(levels) = 0
      BY <1>2, <1>9
    <3>2. levels = << >>
      BY <3>1, <1>2 DEF Types
    <3> QED
      BY <3>2, <1>1, <1>9
  <2>2. givingUp /\ data = disk
    BY <2>1, <1>1, WorkingIsAligned DEF IInv, InStep, Aligned
  <2>3. Types'
    BY <2>1, <1>1, <1>2, <1>4, <1>7 DEF Types
  <2>4. Fresh' /\ Gone'
    BY <2>1, <2>2, <1>1, <1>4, <1>5, <1>6 DEF IInv, Fresh, Gone
  <2>5. NamesGrow' /\ Snapshots'
    BY <2>1 DEF NamesGrow, Snapshots
  <2>6. InStep'
    <3>1. CASE Outer = << >>
      BY <3>1, <2>1, <1>1, <1>7 DEF InStep, Aligned, Seen
    <3>2. CASE Outer # << >>
      BY <3>2, <2>1, <2>2, <1>1, <1>7 DEF InStep
    <3> QED
      BY <3>1, <3>2
  <2>7. Durable'
    BY <2>1, <1>1, <1>2, <1>3, <1>4 DEF IInv, Durable
  <2> QED
    BY <2>3, <2>4, <2>5, <2>6, <2>7, <1>8 DEF IInv
<1>10. CASE Level # 0
  <2>1. levels # << >> /\ k \in DOMAIN levels
    BY <1>2, <1>3, <1>10
  <2>2. Aligned /\ Seen
    BY <2>1 DEF IInv, InStep
  <2>3. /\ levels' = SubSeq(levels, 1, k - 1) /\ depth' = depth - 1
        /\ data' = levels[k].before
    BY <1>1, <1>2, <1>10
  <2>4. /\ levels' \in Seq(LevelEntry) /\ depth' \in Nat
        /\ Len(levels') = k - 1
        /\ DOMAIN levels' = 1..(k - 1)
        /\ \A i \in DOMAIN levels' : i \in DOMAIN levels /\ levels'[i] = levels[i]
        /\ NamesGrow' /\ Aligned'
    BY <2>2, <2>3, <1>1, <1>4, PopKeepsStep
  <2>5. Own(n) = k
    BY <1>3 DEF Own
  <2>6. Top \cap data' = {}
    BY <2>2, <2>3, <2>5, <1>4 DEF Aligned
  <2>7. disk \subseteq data' /\ data' \subseteq data /\ data' \in SUBSET Nat
    BY <2>1, <2>3, <1>2, EntryTypes DEF IInv, Snapshots
  <2>8. Types'
    BY <2>4, <2>7, <1>1, <1>2, <1>4, <1>7 DEF Types
  <2>9. Fresh' /\ Gone'
    BY <2>6, <2>7, <1>1, <1>4, <1>5 DEF IInv, Fresh, Gone
  <2>10. Snapshots'
    <3>1. \A i \in 1..(k - 1) : i < k
      BY <1>3
    <3> QED
      BY <3>1, <2>1, <2>3, <2>4, <1>1 DEF IInv, Snapshots
  <2>11. Seen'
    <3>1. ASSUME NEW i \in DOMAIN scopes'
          PROVE  scopes[i] \subseteq levels[Own(n)].before
      <4>1. i < n /\ i \in DOMAIN scopes
        BY <1>3, <1>4
      <4> QED
        BY <4>1, <2>2, <1>4 DEF Aligned
    <3> QED
      BY <3>1, <2>3, <2>5, <1>4 DEF Seen
  <2>12. Durable'
    BY <2>4, <1>1, <1>3, <1>4 DEF IInv, Durable
  <2>13. InStep'
    BY <2>4, <2>11, <1>7 DEF InStep
  <2> QED
    BY <2>4, <2>8, <2>9, <2>10, <2>12, <2>13, <1>8 DEF IInv
<1> QED
  BY <1>9, <1>10

(* After a restart nothing is open. *)
LEMMA CrashKeepsInvariant == IInv /\ Crash => IInv'
<1> SUFFICES ASSUME IInv, Crash PROVE IInv'
  OBVIOUS
<1>1. /\ data' = disk /\ levels' = << >> /\ depth' = 0 /\ scopes' = << >>
      /\ givingUp' = FALSE
      /\ UNCHANGED <<disk, writes, commitFailed, promised, undone>>
  BY DEF Crash
<1>2. /\ DOMAIN levels' = {} /\ DOMAIN scopes' = {}
      /\ Len(levels') = 0 /\ Len(scopes') = 0
      /\ levels' \in Seq(LevelEntry) /\ scopes' \in Seq(SUBSET Nat)
  BY <1>1
<1>3. Types'
  BY <1>1, <1>2 DEF IInv, Types
<1>4. Fresh' /\ Gone'
  BY <1>1, <1>2 DEF IInv, Fresh, Gone
<1>5. NamesGrow' /\ Snapshots' /\ Unwritten'
  BY <1>2 DEF NamesGrow, Snapshots, Unwritten
<1>6. InStep' /\ Durable'
  BY <1>1, <1>2 DEF IInv, InStep, Aligned, Seen, Durable
<1> QED
  BY <1>3, <1>4, <1>5, <1>6 DEF IInv

-----------------------------------------------------------------------------
(* The invariant of every reachable state. *)
LEMMA Invariance == Spec => []IInv
<1>1. IInv /\ UNCHANGED vars => IInv'
  BY DEF vars, IInv, Types, Fresh, NamesGrow, Snapshots, Unwritten, InStep, Aligned,
         Seen, Own, Durable, Gone
<1>2. IInv /\ [Next]_vars => IInv'
  BY <1>1, OpenScopeKeepsInvariant, WriteKeepsInvariant, WriteFailsKeepsInvariant,
     CommitSucceedsKeepsInvariant, CommitFailsKeepsInvariant, LeaveScopeKeepsInvariant,
     CrashKeepsInvariant DEF Next
<1> QED
  BY <1>2, InitInvariant, PTL DEF Spec

-----------------------------------------------------------------------------
(* Types within the bounds. *)
Tried == SUBSET (1..MaxWrites)
Named == [name : Nat, before : Tried]

(* What the stacks of a typed state are cut to. *)
LEMMA CutStacks ==
  ASSUME TypeOK
  PROVE  /\ \A k \in DOMAIN levels : /\ SubSeq(levels, 1, k - 1) \in Seq(Named)
                                     /\ levels[k].before \in Tried
         /\ scopes # << >> => Outer \in Seq(Tried) /\ Top \in Tried
         /\ UNION {scopes[i] : i \in DOMAIN scopes} \in Tried
<1>1. levels \in Seq(Named) /\ scopes \in Seq(Tried)
  BY DEF TypeOK, Named, Tried
<1>2. ASSUME NEW k \in DOMAIN levels
      PROVE  SubSeq(levels, 1, k - 1) \in Seq(Named) /\ levels[k].before \in Tried
  <2>1. levels[k] \in Named /\ k \in 1..Len(levels)
    BY <1>1, <1>2
  <2>2. \A i \in 1..(k - 1) : levels[i] \in Named
    BY <1>1, <2>1
  <2> QED
    BY <2>1, <2>2, SubSeqProperties DEF Named
<1>3. ASSUME scopes # << >> PROVE Outer \in Seq(Tried) /\ Top \in Tried
  <2>1. Len(scopes) \in Nat /\ 1 <= Len(scopes) /\ \A i \in 1..Len(scopes) : scopes[i] \in Tried
    BY <1>1, <1>3
  <2> QED
    BY <2>1, SubSeqProperties DEF Outer, Top
<1>4. \A i \in DOMAIN scopes : scopes[i] \in Tried
  BY <1>1
<1>5. UNION {scopes[i] : i \in DOMAIN scopes} \in Tried
  BY <1>4 DEF Tried
<1> QED
  BY <1>2, <1>3, <1>5

LEMMA TypeStep == ASSUME IInv, IInv', TypeOK, Next PROVE TypeOK'
<1> USE DEF Tried, Named
<1>1. /\ disk' \subseteq data' /\ depth' \in Nat
      /\ givingUp' \in BOOLEAN /\ commitFailed' \in BOOLEAN
  BY DEF IInv, Types, Fresh
<1>2. {MaxWrites, MaxScopes, MaxFailures, MaxCrashes} \subseteq Nat
  BY DbBoundsAssumption
<1>0. /\ disk \in Tried /\ data \in Tried /\ promised \in Tried /\ undone \in Tried
      /\ levels \in Seq(Named) /\ scopes \in Seq(Tried) /\ groups \subseteq Tried
  BY DEF TypeOK
<1>3. CASE OpenScope
  <2>1. [name |-> IF depth = 0 THEN 0 ELSE SavepointName(depth), before |-> data] \in Named
    BY DEF TypeOK, SavepointName
  <2>2. levels' \in Seq(Named) /\ scopes' \in Seq(Tried)
    BY <1>3, <2>1 DEF TypeOK, OpenScope, OpenLevel
  <2> QED
    BY <1>1, <1>3, <2>2 DEF TypeOK, OpenScope, OpenLevel, counts, outcomes
<1>4. CASE Write
  <2>1. writes' \in 1..MaxWrites /\ data' \in Tried /\ disk' \in Tried
    BY <1>2, <1>4 DEF TypeOK, Write
  <2>2. scopes' \in Seq(Tried)
    <3>1. Outer \in Seq(Tried) /\ Top \cup {writes + 1} \in Tried
      BY <1>4, <2>1, CutStacks DEF Write
    <3> QED
      BY <1>4, <3>1 DEF Write
  <2> QED
    BY <1>1, <1>4, <2>1, <2>2 DEF TypeOK, Write, outcomes
<1>5. CASE WriteFails
  <2>1. failures' \in 0..MaxFailures
    BY <1>2, <1>5 DEF TypeOK, WriteFails
  <2>2. levels' \in Seq(Named) /\ disk' \in Tried /\ data' \in Tried
    <3>1. CASE UNCHANGED engine
      BY <1>0, <3>1 DEF engine
    <3>2. CASE RollBackByItself
      BY <1>0, <3>2 DEF RollBackByItself
    <3> QED
      BY <1>5, <3>1, <3>2 DEF WriteFails
  <2> QED
    BY <1>1, <1>5, <2>1, <2>2 DEF TypeOK, WriteFails, outcomes
<1>6. CASE CommitSucceeds
  <2>1. scopes # << >> /\ Level = Len(levels) /\ Level # 0
    BY <1>6, LevelIsInnermost DEF CommitSucceeds
  <2>2. Level \in DOMAIN levels
    BY <2>1 DEF TypeOK
  <2>3. levels' \in Seq(Named) /\ disk' \in Tried /\ data' \in Tried
    BY <1>0, <1>6, <2>2, CutStacks DEF CommitSucceeds, Release
  <2>4. scopes' \in Seq(Tried) /\ promised' \in Tried /\ groups' \subseteq Tried
    <3>1. Outer \in Seq(Tried) /\ Top \in Tried
      BY <2>1, CutStacks
    <3>2. CASE Len(scopes) = 1
      <4>1. promised' = promised \cup Top /\ groups' = groups \cup {Top} /\ scopes' = << >>
        BY <1>6, <3>2 DEF CommitSucceeds
      <4>2. promised' \in Tried /\ groups' \subseteq Tried
        BY <1>0, <3>1, <4>1
      <4> QED
        BY <4>1, <4>2
    <3>3. CASE Len(scopes) # 1
      <4>1. Len(Outer) \in DOMAIN Outer
        BY <2>1, <3>3, OuterScopes DEF IInv, TypeOK
      <4>2. Outer[Len(Outer)] \in Tried
        BY <3>1, <4>1
      <4>3. scopes' = [Outer EXCEPT ![Len(Outer)] = Outer[Len(Outer)] \cup Top]
        BY <1>6, <3>3 DEF CommitSucceeds
      <4> HIDE DEF Tried
      <4>5. Outer[Len(Outer)] \cup Top \in Tried
        BY <3>1, <4>2 DEF Tried
      <4>4. scopes' \in Seq(Tried)
        BY <3>1, <4>1, <4>3, <4>5
      <4> QED
        BY <1>6, <3>3, <4>4 DEF CommitSucceeds, TypeOK, Tried
    <3> QED
      BY <3>2, <3>3
  <2> QED
    BY <1>1, <1>6, <2>3, <2>4 DEF TypeOK, CommitSucceeds, counts
<1>7. CASE CommitFails
  <2>1. failures' \in 0..MaxFailures
    BY <1>2, <1>7 DEF TypeOK, CommitFails
  <2>2. levels' \in Seq(Named) /\ disk' \in Tried /\ data' \in Tried
    <3>1. CASE UNCHANGED engine
      BY <1>0, <3>1 DEF engine
    <3>2. CASE RollBackByItself
      BY <1>0, <3>2 DEF RollBackByItself
    <3> QED
      BY <1>7, <3>1, <3>2 DEF CommitFails
  <2>3. scopes' \in Seq(Tried) /\ groups' \subseteq Tried
    BY <1>7, CutStacks DEF TypeOK, CommitFails
  <2> QED
    BY <1>1, <1>7, <2>1, <2>2, <2>3 DEF TypeOK, CommitFails
<1>8. CASE LeaveScope
  <2>1. scopes # << >> /\ Level = Len(levels)
    BY <1>8, LevelIsInnermost DEF LeaveScope
  <2>2. Level # 0 => Level \in DOMAIN levels
    BY <2>1 DEF TypeOK
  <2>3. levels' \in Seq(Named) /\ disk' \in Tried /\ data' \in Tried
    BY <1>8, <2>2, CutStacks DEF TypeOK, LeaveScope, engine, RollBackTo
  <2>4. scopes' \in Seq(Tried) /\ undone' \in Tried
    BY <1>8, <2>1, CutStacks DEF TypeOK, LeaveScope
  <2> QED
    BY <1>1, <1>8, <2>3, <2>4 DEF TypeOK, LeaveScope, counts
<1>9. CASE Crash
  <2>1. crashes' \in 0..MaxCrashes
    BY <1>2, <1>9 DEF TypeOK, Crash
  <2>2. groups' \subseteq Tried
    BY <1>9, CutStacks DEF TypeOK, Crash
  <2> QED
    BY <1>1, <1>9, <2>1, <2>2 DEF TypeOK, Crash
<1> QED
  BY <1>3, <1>4, <1>5, <1>6, <1>7, <1>8, <1>9 DEF Next

(* The storage, the engine and the scopes keep their types, for any bounds. *)
THEOREM TypeCorrect == Spec => []TypeOK
<1>1. Init => TypeOK
  <2> SUFFICES ASSUME Init PROVE TypeOK
    OBVIOUS
  <2>1. << >> \in Seq([name : Nat, before : SUBSET (1..MaxWrites)])
        /\ << >> \in Seq(SUBSET (1..MaxWrites))
    OBVIOUS
  <2>2. {MaxWrites, MaxFailures, MaxCrashes} \subseteq Nat
    BY DbBoundsAssumption
  <2>3. writes \in 0..MaxWrites /\ failures \in 0..MaxFailures /\ crashes \in 0..MaxCrashes
    BY <2>2 DEF Init
  <2> QED
    BY <2>1, <2>3 DEF Init, TypeOK
<1>2. TypeOK /\ UNCHANGED vars => TypeOK'
  BY DEF vars, TypeOK
<1> QED
  BY <1>1, <1>2, TypeStep, Invariance, PTL DEF Spec

(* What a scope wrote is gone for good once it was left without a commit,   *)
(* whatever failed before (~Transaction, transaction.cpp:11-17).            *)
THEOREM RollbackIsFinal == Spec => []RolledBackStaysGone
<1>1. IInv => RolledBackStaysGone
  BY DEF IInv, Gone, Fresh, RolledBackStaysGone
<1> QED
  BY <1>1, Invariance, PTL

(* Open savepoints never share a name (savepointName, dbstorage.cpp:127). *)
THEOREM SavepointNames == Spec => []SavepointsAreDistinct
<1>1. ASSUME IInv PROVE SavepointsAreDistinct
  <2> SUFFICES ASSUME NEW i \in DOMAIN levels, NEW j \in DOMAIN levels,
                      levels[i].name = levels[j].name
               PROVE  i = j
    BY DEF SavepointsAreDistinct
  <2>1. i \in Nat /\ j \in Nat /\ levels[i].name \in Nat /\ levels[j].name \in Nat
    BY <1>1, EntryTypes DEF IInv
  <2>2. (i < j => levels[i].name < levels[j].name) /\ (j < i => levels[j].name < levels[i].name)
    BY <1>1 DEF IInv, NamesGrow
  <2> QED
    BY <2>1, <2>2
<1> QED
  BY <1>1, Invariance, PTL

(* As long as no commit has failed, what commit() reported as committed is  *)
(* on the disk (dbstorage.cpp:60-76).                                       *)
THEOREM CommitsAreDurable == Spec => []CommitPersistsUntilOneFails
<1>1. IInv => CommitPersistsUntilOneFails
  BY DEF IInv, Durable, CommitPersistsUntilOneFails, CommitPersists
<1> QED
  BY <1>1, Invariance, PTL

-----------------------------------------------------------------------------
(* What a set of writes that reached the disk as a whole, or not at all,    *)
(* has to be in every state the engine may go back to.                      *)
Whole(g, S) == (g \ undone) \subseteq S \/ (g \ undone) \cap S = {}

WholeEverywhere(g) ==
  /\ \A w \in g : w \in Nat /\ w <= writes
  /\ Whole(g, disk)
  /\ Whole(g, data)
  /\ \A i \in DOMAIN levels : Whole(g, levels[i].before)

GroupsAreWhole == \A g \in groups : WholeEverywhere(g)

(* Whatever state the engine goes back to, and whatever else is undone or   *)
(* newly written, a group stays whole.                                      *)
LEMMA GroupsStay ==
  ASSUME GroupsAreWhole, undone \subseteq undone',
         writes \in Nat, writes' \in Nat, writes <= writes',
         disk' \in {disk, data},
         \/ data' \in {disk, data} \cup {levels[i].before : i \in DOMAIN levels}
         \/ \E w \in Nat : w > writes /\ data' = data \cup {w},
         \A i \in DOMAIN levels' :
           levels'[i].before \in {data} \cup {levels[j].before : j \in DOMAIN levels}
  PROVE  \A g \in groups : WholeEverywhere(g)'
<1> SUFFICES ASSUME NEW g \in groups PROVE WholeEverywhere(g)'
  OBVIOUS
<1>1. WholeEverywhere(g)
  BY DEF GroupsAreWhole
<1>2. \A S : Whole(g, S) => (g \ undone') \subseteq S \/ (g \ undone') \cap S = {}
  BY DEF Whole
<1>3. \A w \in g : w \in Nat /\ w <= writes'
  BY <1>1 DEF WholeEverywhere
<1>4. Whole(g, disk)'
  BY <1>1, <1>2 DEF WholeEverywhere, Whole
<1>5. Whole(g, data)'
  <2>1. CASE data' \in {disk, data} \cup {levels[i].before : i \in DOMAIN levels}
    BY <2>1, <1>1, <1>2 DEF WholeEverywhere, Whole
  <2>2. CASE \E w \in Nat : w > writes /\ data' = data \cup {w}
    <3>1. PICK w \in Nat : w > writes /\ data' = data \cup {w}
      BY <2>2
    <3>2. w \notin g
      BY <3>1, <1>1 DEF WholeEverywhere
    <3> QED
      BY <3>1, <3>2, <1>1, <1>2 DEF WholeEverywhere, Whole
  <2> QED
    BY <2>1, <2>2
<1>6. \A i \in DOMAIN levels' : Whole(g, levels[i].before)'
  BY <1>1, <1>2 DEF WholeEverywhere, Whole
<1> QED
  BY <1>3, <1>4, <1>5, <1>6 DEF WholeEverywhere

(* A step that ends no group changes none. *)
LEMMA StepKeepsGroups ==
  ASSUME IInv, IInv', GroupsAreWhole,
         OpenScope \/ Write \/ WriteFails \/ LeaveScope
  PROVE  GroupsAreWhole'
<1>1. writes \in Nat /\ writes' \in Nat
  BY DEF IInv, Types
<1>2. CASE OpenScope
  <2>1. /\ levels' = Append(levels, [name |-> IF depth = 0 THEN 0 ELSE SavepointName(depth),
                                    before |-> data])
        /\ UNCHANGED <<disk, data, writes, undone, groups>>
    BY <1>2 DEF OpenScope, OpenLevel, counts, outcomes
  <2>2. \A i \in DOMAIN levels' :
          levels'[i].before \in {data} \cup {levels[j].before : j \in DOMAIN levels}
    BY <2>1, EntryTypes DEF IInv, Types
  <2> QED
    BY <1>1, <2>1, <2>2, GroupsStay DEF GroupsAreWhole
<1>3. CASE Write
  <2>1. /\ writes' = writes + 1 /\ data' = data \cup {writes + 1}
        /\ disk' \in {disk, data'} /\ UNCHANGED <<levels, undone, groups>>
    BY <1>3 DEF Write, outcomes
  <2>2. disk' = disk
    BY <1>3, WorkingIsAligned DEF Write, CanWork
  <2>3. \E w \in Nat : w > writes /\ data' = data \cup {w}
    BY <1>1, <2>1
  <2> QED
    BY <1>1, <2>1, <2>2, <2>3, GroupsStay DEF GroupsAreWhole
<1>4. CASE WriteFails
  <2>1. /\ UNCHANGED <<disk, writes, undone, groups>>
        /\ UNCHANGED <<levels, data>> \/ (levels' = << >> /\ data' = disk)
    BY <1>4 DEF WriteFails, engine, RollBackByItself, outcomes
  <2> QED
    BY <1>1, <2>1, GroupsStay DEF GroupsAreWhole
<1>5. CASE LeaveScope
  <2>1. /\ UNCHANGED <<disk, writes, groups>> /\ undone \subseteq undone'
        /\ IF Level = 0 THEN UNCHANGED <<levels, data>>
           ELSE levels' = SubSeq(levels, 1, Level - 1) /\ data' = levels[Level].before
    BY <1>5 DEF LeaveScope, counts, engine, RollBackTo
  <2>2. Level = Len(levels) /\ Types
    BY <1>5, LevelIsInnermost DEF LeaveScope, IInv
  <2>3. CASE Level = 0
    BY <1>1, <2>1, <2>3, GroupsStay DEF GroupsAreWhole
  <2>4. CASE Level # 0
    <3>1. Level \in DOMAIN levels
      BY <2>2, <2>4, EntryTypes
    <3>2. \A i \in DOMAIN levels' :
            levels'[i].before \in {levels[j].before : j \in DOMAIN levels}
      BY <2>1, <2>2, <2>4, <3>1, CutLevels
    <3> QED
      BY <1>1, <2>1, <2>4, <3>1, <3>2, GroupsStay DEF GroupsAreWhole
  <2> QED
    BY <2>3, <2>4
<1> QED
  BY <1>2, <1>3, <1>4, <1>5

(* A new group is what the outermost scope wrote: all of it is in the data  *)
(* the connection sees, and none in what was there before.                  *)
LEMMA NewGroupIsWhole ==
  ASSUME IInv, ~givingUp, Len(scopes) = 1, UNCHANGED <<undone, writes>>,
         disk' \in {disk, data}, data' \in {disk, data},
         \A i \in DOMAIN levels' : i \in DOMAIN levels /\ levels'[i] = levels[i],
         NEW g, g = scopes[1]
  PROVE  WholeEverywhere(g)'
<1>1. scopes # << >> /\ 1 \in DOMAIN scopes /\ Types
  <2>1. Types
    BY DEF IInv
  <2>2. DOMAIN scopes = 1..Len(scopes)
    BY <2>1, EntryTypes
  <2>3. 1 \in DOMAIN scopes
    BY <2>2
  <2>4. scopes # << >>
    BY <2>3
  <2> QED
    BY <2>1, <2>3, <2>4
<1>2. Aligned /\ Seen /\ Len(levels) \in DOMAIN levels
  BY <1>1, WorkingIsAligned
<1>3. Own(1) = Len(levels)
  BY <1>1, EntryTypes DEF Own
<1>4. g \subseteq data /\ g \cap disk = {}
  BY <1>1, <1>2 DEF IInv, Seen, Unwritten
<1>5. \A w \in g : w \in Nat /\ w <= writes'
  BY <1>1, EntryTypes DEF IInv, Fresh
<1>6. \A i \in DOMAIN levels : g \cap levels[i].before = {}
  <2>1. g \cap levels[Len(levels)].before = {}
    BY <1>1, <1>2, <1>3 DEF Aligned
  <2>2. \A i \in DOMAIN levels : i < Len(levels) \/ i = Len(levels)
    BY <1>1, EntryTypes
  <2>3. \A i \in DOMAIN levels : levels[i].before \subseteq levels[Len(levels)].before
    BY <1>2, <2>2 DEF IInv, Snapshots
  <2> QED
    BY <2>1, <2>3
<1>7. Whole(g, disk)' /\ Whole(g, data)'
  BY <1>4 DEF Whole
<1>8. \A i \in DOMAIN levels' : Whole(g, levels[i].before)'
  BY <1>6 DEF Whole
<1> QED
  BY <1>5, <1>7, <1>8 DEF WholeEverywhere

(* The commit of the outermost scope makes its group one. *)
LEMMA CommitSucceedsKeepsGroups ==
  ASSUME IInv, IInv', GroupsAreWhole, CommitSucceeds
  PROVE  GroupsAreWhole'
<1>1. /\ scopes # << >> /\ ~givingUp /\ Level # 0
      /\ levels' = SubSeq(levels, 1, Level - 1)
      /\ disk' \in {disk, data}
      /\ UNCHANGED <<data, writes, undone>>
  BY DEF CommitSucceeds, CanWork, counts, Release
<1>2. Level = Len(levels) /\ Types /\ writes \in Nat
  BY <1>1, LevelIsInnermost DEF IInv, Types
<1>3. Level \in DOMAIN levels
  BY <1>1, <1>2, EntryTypes
<1>4. \A i \in DOMAIN levels' : i \in DOMAIN levels /\ levels'[i] = levels[i]
  BY <1>1, <1>2, <1>3, CutLevels
<1>5. \A g \in groups : WholeEverywhere(g)'
  BY <1>1, <1>2, <1>4, GroupsStay
<1>6. CASE Len(scopes) = 1
  <2>1. groups' = groups \cup {scopes[1]}
    BY <1>6 DEF CommitSucceeds, Top
  <2>2. ASSUME NEW g, g = scopes[1] PROVE WholeEverywhere(g)'
    BY <1>1, <1>4, <1>6, <2>2, NewGroupIsWhole
  <2> QED
    BY <1>5, <2>1, <2>2 DEF GroupsAreWhole
<1>7. CASE Len(scopes) # 1
  BY <1>5, <1>7 DEF CommitSucceeds, GroupsAreWhole
<1> QED
  BY <1>6, <1>7

(* A commit that fails is that of the outermost scope. *)
LEMMA CommitFailsKeepsGroups ==
  ASSUME IInv, IInv', GroupsAreWhole, CommitFails
  PROVE  GroupsAreWhole'
<1>1. /\ scopes # << >> /\ ~givingUp /\ Level \in {0, 1}
      /\ UNCHANGED <<writes, undone, disk>>
      /\ UNCHANGED <<levels, data>> \/ (levels' = << >> /\ data' = disk)
      /\ groups' = groups \cup {UNION {scopes[i] : i \in DOMAIN scopes}}
  BY DEF CommitFails, CanWork, engine, RollBackByItself
<1>2. Aligned /\ Types /\ writes \in Nat
  BY <1>1, WorkingIsAligned DEF IInv, Types
<1>3. Len(scopes) = 1
  <2>1. Level = Len(levels)
    BY <1>1, LevelIsInnermost
  <2>2. Len(scopes) \in Nat /\ Len(levels) \in Nat /\ Len(scopes) # 0
    BY <1>1, <1>2 DEF Types
  <2>3. Len(levels) >= Len(scopes)
    BY <1>2 DEF Aligned
  <2>4. Len(levels) \in {0, 1}
    BY <2>1, <1>1
  <2> QED
    BY <2>2, <2>3, <2>4
<1>4. UNION {scopes[i] : i \in DOMAIN scopes} = scopes[1]
  <2>1. DOMAIN scopes = {1}
    BY <1>2, <1>3, EntryTypes
  <2> QED
    BY <2>1
<1>5. \A g \in groups : WholeEverywhere(g)'
  BY <1>1, <1>2, GroupsStay
<1>6. ASSUME NEW g, g = scopes[1] PROVE WholeEverywhere(g)'
  BY <1>1, <1>3, <1>6, NewGroupIsWhole
<1> QED
  BY <1>1, <1>4, <1>5, <1>6 DEF GroupsAreWhole

(* What was open when the program died has nothing on the disk. *)
LEMMA CrashKeepsGroups ==
  ASSUME IInv, IInv', GroupsAreWhole, Crash
  PROVE  GroupsAreWhole'
<1>1. /\ UNCHANGED <<writes, undone, disk>> /\ levels' = << >> /\ data' = disk
      /\ groups' = groups \cup {UNION {scopes[i] : i \in DOMAIN scopes}}
  BY DEF Crash
<1>2. Types /\ writes \in Nat
  BY DEF IInv, Types
<1>3. \A g \in groups : WholeEverywhere(g)'
  BY <1>1, <1>2, GroupsStay
<1>4. ASSUME NEW g, g = UNION {scopes[i] : i \in DOMAIN scopes}
      PROVE  WholeEverywhere(g)'
  <2>1. g \cap disk = {}
    BY <1>4 DEF IInv, Unwritten
  <2>2. \A w \in g : w \in Nat /\ w <= writes
    BY <1>2, <1>4, EntryTypes DEF IInv, Fresh
  <2>3. Whole(g, disk)' /\ Whole(g, data)' /\ DOMAIN levels' = {}
    BY <1>1, <2>1 DEF Whole
  <2> QED
    BY <1>1, <2>2, <2>3 DEF WholeEverywhere
<1> QED
  BY <1>1, <1>3, <1>4 DEF GroupsAreWhole

(* What an outermost scope wrote and was committed, or tried to be, is on   *)
(* the disk as a whole or not at all, after any failures and restarts       *)
(* (dbstorage.cpp:50-108).                                                  *)
THEOREM CommitsAreAtomic == Spec => []AllOrNothing
<1>1. Init => GroupsAreWhole
  BY DEF Init, GroupsAreWhole
<1>2. ASSUME IInv, IInv', GroupsAreWhole, [Next]_vars PROVE GroupsAreWhole'
  <2>1. CASE UNCHANGED vars
    BY <1>2, <2>1 DEF vars, GroupsAreWhole, WholeEverywhere, Whole
  <2> QED
    BY <1>2, <2>1, StepKeepsGroups, CommitSucceedsKeepsGroups, CommitFailsKeepsGroups,
       CrashKeepsGroups DEF Next
<1>3. GroupsAreWhole => AllOrNothing
  BY DEF GroupsAreWhole, WholeEverywhere, Whole, AllOrNothing
<1> QED
  BY <1>1, <1>2, <1>3, Invariance, PTL DEF Spec
=============================================================================
