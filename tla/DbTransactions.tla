--------------------------- MODULE DbTransactions ----------------------------
(***************************************************************************)
(* Transactions of cpp/dbtoolkit: DbStorage counts how deep it is in        *)
(* transactions (the first is the engine's, the others are savepoints), and *)
(* Transaction is the C++ scope that rolls back unless it was committed.    *)
(* The engine, SQLite, is external: it may refuse a statement, and some     *)
(* failures make it roll back everything by itself.  A write is a number,   *)
(* the database a set of writes.  One user works on the storage, as the     *)
(* chat's worker does; once a statement fails it writes no more and leaves  *)
(* its scopes, as the cores of ChatStore do.                                *)
(***************************************************************************)
EXTENDS Naturals, Sequences, FiniteSets

CONSTANTS
  MaxWrites,   \* bound: writes tried
  MaxScopes,   \* bound: nesting of Transaction scopes
  MaxFailures, \* bound: commits and writes the engine fails
  MaxCrashes   \* bound: restarts of the program

ASSUME DbBoundsAssumption ==
  {MaxWrites, MaxScopes, MaxFailures, MaxCrashes} \subseteq Nat

VARIABLES
  disk,      \* the writes that survive a crash
  data,      \* the writes the connection sees
  levels,    \* the engine's open transaction and savepoints, outermost first
  depth,     \* m_transactionDepth
  scopes,    \* writes of the active Transaction objects, outermost first
  givingUp,  \* a statement failed; the scopes are being left
  writes,    \* writes tried so far
  failures, crashes, commitFailed,
  promised,  \* writes of scopes whose commit() returned true
  undone,    \* writes of scopes left without a commit
  groups     \* what each outermost scope wrote that did not end by a rollback

vars == <<disk, data, levels, depth, scopes, givingUp, writes, failures, crashes,
          commitFailed, promised, undone, groups>>
engine == <<disk, data, levels>>
counts == <<writes, failures, crashes>>
outcomes == <<promised, undone, groups>>

Init ==
  /\ disk = {} /\ data = {} /\ levels = << >>
  /\ depth = 0
  /\ scopes = << >> /\ givingUp = FALSE
  /\ writes = 0 /\ failures = 0 /\ crashes = 0 /\ commitFailed = FALSE
  /\ promised = {} /\ undone = {} /\ groups = {}

-----------------------------------------------------------------------------
(* The engine.  A level is named 0 when BEGIN opened it, k for SAVEPOINT spk. *)

(* A variant: one name for all savepoints. *)
SameName(d) == 1
SavepointName(d) == d

OpenLevel(name) ==
  /\ levels' = Append(levels, [name |-> name, before |-> data])
  /\ UNCHANGED <<disk, data>>

(* The innermost level of a name; 0 when there is none. *)
LevelOf(name) ==
  LET named == {k \in DOMAIN levels : levels[k].name = name}
  IN IF named = {} THEN 0 ELSE CHOOSE k \in named : \A j \in named : j <= k

(* A variant: the real commit does not happen. *)
Postpone(k) ==
  /\ levels' = SubSeq(levels, 1, k - 1)
  /\ UNCHANGED <<disk, data>>
(* Ending the outermost level, whatever opened it, is the real commit. *)
Release(k) ==
  /\ levels' = SubSeq(levels, 1, k - 1)
  /\ disk' = IF k = 1 THEN data ELSE disk
  /\ UNCHANGED data

(* A variant: RELEASE without ROLLBACK TO. *)
ReleaseOnly(k) == Release(k)
RollBackTo(k) ==
  /\ levels' = SubSeq(levels, 1, k - 1)
  /\ data' = levels[k].before
  /\ UNCHANGED disk

(* Errors such as a full disk or an I/O error end the whole transaction. *)
RollBackByItself ==
  /\ levels' = << >>
  /\ data' = disk
  /\ UNCHANGED disk

-----------------------------------------------------------------------------
(* DbStorage and Transaction *)

Top == scopes[Len(scopes)]
Outer == SubSeq(scopes, 1, Len(scopes) - 1)
CanWork == ~givingUp

(* Transaction's constructor, beginTransaction().  A refused BEGIN or       *)
(* SAVEPOINT leaves an inactive scope and changes nothing.                  *)
OpenScope ==
  /\ CanWork
  /\ Len(scopes) < MaxScopes
  /\ depth = 0 => levels = << >>
  /\ OpenLevel(IF depth = 0 THEN 0 ELSE SavepointName(depth))
  /\ depth' = depth + 1
  /\ scopes' = Append(scopes, {})
  /\ UNCHANGED <<givingUp, counts, commitFailed, outcomes>>

(* execute() of a statement inside a scope; without an open transaction     *)
(* the engine commits it at once.                                           *)
Write ==
  /\ CanWork
  /\ scopes # << >>
  /\ writes < MaxWrites
  /\ writes' = writes + 1
  /\ data' = data \cup {writes + 1}
  /\ disk' = IF levels = << >> THEN data' ELSE disk
  /\ scopes' = Append(Outer, Top \cup {writes + 1})
  /\ UNCHANGED <<levels, depth, givingUp, failures, crashes, commitFailed, outcomes>>

WriteFails ==
  /\ CanWork
  /\ scopes # << >>
  /\ failures < MaxFailures
  /\ failures' = failures + 1
  /\ givingUp' = TRUE
  /\ UNCHANGED engine \/ RollBackByItself
  /\ UNCHANGED <<depth, scopes, writes, crashes, commitFailed, outcomes>>

(* COMMIT and ROLLBACK address the transaction, if there is one. *)
OuterLevel == IF levels = << >> THEN 0 ELSE 1
(* What commit() and rollback() address: the level below the depth counter. *)
Level == IF depth = 1 THEN OuterLevel ELSE LevelOf(SavepointName(depth - 1))
Shallower(d) == d - 1

(* Transaction::commit() and the end of its scope.  The scope is inactive   *)
(* from then on, so nobody rolls back what fails to commit.                 *)
CommitSucceeds ==
  /\ CanWork
  /\ scopes # << >>
  /\ Level # 0
  /\ Release(Level)
  /\ depth' = Shallower(depth)
  /\ IF Len(scopes) = 1
     THEN /\ promised' = promised \cup Top
          /\ groups' = groups \cup {Top}
          /\ scopes' = << >>
     ELSE /\ scopes' = [Outer EXCEPT ![Len(Outer)] = @ \cup Top]
          /\ UNCHANGED <<promised, groups>>
  /\ UNCHANGED <<givingUp, counts, commitFailed, undone>>

(* The commit of the outermost level fails, or there is no level. *)
CommitFails ==
  /\ CanWork
  /\ scopes # << >>
  /\ Level \in {0, 1}
  /\ failures < MaxFailures
  /\ failures' = failures + 1
  /\ commitFailed' = TRUE
  /\ UNCHANGED engine \/ RollBackByItself
  /\ groups' = groups \cup {UNION {scopes[i] : i \in DOMAIN scopes}}
  /\ scopes' = Outer
  /\ givingUp' = (Outer # << >>)
  /\ UNCHANGED <<depth, writes, crashes, promised, undone>>

(* ~Transaction of an active scope, rollback(). *)
LeaveScope ==
  /\ scopes # << >>
  /\ IF Level = 0 THEN UNCHANGED <<engine, depth>>
     ELSE RollBackTo(Level) /\ depth' = Shallower(depth)
  /\ undone' = undone \cup Top
  /\ scopes' = Outer
  /\ givingUp' = (givingUp /\ Outer # << >>)
  /\ UNCHANGED <<counts, commitFailed, promised, groups>>

(* The program dies and opens the database again. *)
Crash ==
  /\ crashes < MaxCrashes
  /\ crashes' = crashes + 1
  /\ data' = disk
  /\ levels' = << >>
  /\ depth' = 0
  /\ groups' = groups \cup {UNION {scopes[i] : i \in DOMAIN scopes}}
  /\ scopes' = << >>
  /\ givingUp' = FALSE
  /\ UNCHANGED <<disk, writes, failures, commitFailed, promised, undone>>

Next ==
  \/ OpenScope \/ Write \/ WriteFails \/ CommitSucceeds \/ CommitFails
  \/ LeaveScope \/ Crash

Spec == Init /\ [][Next]_vars

-----------------------------------------------------------------------------
TypeOK ==
  /\ {disk, data, promised, undone} \subseteq SUBSET (1..MaxWrites)
  /\ disk \subseteq data
  /\ levels \in Seq([name : Nat, before : SUBSET (1..MaxWrites)])
  /\ depth \in Nat
  /\ scopes \in Seq(SUBSET (1..MaxWrites))
  /\ givingUp \in BOOLEAN /\ commitFailed \in BOOLEAN
  /\ writes \in 0..MaxWrites /\ failures \in 0..MaxFailures /\ crashes \in 0..MaxCrashes
  /\ groups \subseteq SUBSET (1..MaxWrites)

(* What a scope wrote and a commit() ended, or tried to end, reaches the    *)
(* disk as a whole or not at all, after any failures and restarts; what     *)
(* nested scopes undid of it does not count (dbstorage.cpp:50-108).         *)
AllOrNothing ==
  \A g \in groups : (g \ undone) \subseteq disk \/ (g \ undone) \cap disk = {}

(* What a scope wrote is gone for good once the scope was left without a    *)
(* commit, also when the depth counter and the engine disagree              *)
(* (~Transaction, transaction.cpp:11-17).                                   *)
RolledBackStaysGone == undone \cap (data \cup disk) = {}

(* Two savepoints that are open at once have different names, so RELEASE    *)
(* and ROLLBACK TO never reach a level of another scope                     *)
(* (savepointName, dbstorage.cpp:127).                                      *)
SavepointsAreDistinct ==
  \A i, j \in DOMAIN levels : levels[i].name = levels[j].name => i = j

(* What the outermost scope committed survives a crash: "Commit_PersistsWrites" *)
(* (tests/dbtoolkit/transaction_test.cpp:52-63).                            *)
CommitPersists == promised \subseteq disk

(* It does as long as no commit has failed before (dbstorage.cpp:60-76). *)
CommitPersistsUntilOneFails == commitFailed \/ CommitPersists
=============================================================================
