---------------------------- MODULE DbRepository ----------------------------
(***************************************************************************)
(* A table of the app behind its repository                                *)
(* (src/cpp/dbtoolkit/dbrepository.cpp) and the statements the repository  *)
(* sends (query/insert.cpp, update.cpp, delete.cpp).  An item is a         *)
(* function from some keys to values; a row has every key of the table.    *)
(* SQLite is external: a statement succeeds as a whole or changes nothing, *)
(* gives the next number to a row without an id, and "last" is the number  *)
(* of the row it inserted last.  One call is one action: the repository    *)
(* works on the storage's thread.  "call" remembers the last call, what it *)
(* answered and of which items ("sent": of the statements that succeeded). *)
(***************************************************************************)
EXTENDS Integers, Sequences, FiniteSets, SequencesExt

CONSTANTS
  Ids,         \* the ids a row can have: 1..n
  Values,      \* the values of a column
  MaxItems,    \* the items of one call
  ChunkSizes,  \* the items the repository sends in one statement
  MaxCalls     \* the calls of a run

VARIABLE repo

Null   == 0   \* no value; ids and values count from 1
Id     == "id"
\* The columns of the table, and a key that items have and the table has not.
Keys   == <<"id", "name", "age">>
KeySet == {"id", "name", "age"}
Extra  == "extra"

NoCall == [is |-> "none", items |-> <<>>, ids |-> <<>>, sent |-> <<>>, before |-> <<>>, rows |-> 0]

\* The table is there when the repository is made, with rows that earlier calls left in it.
Tables == UNION {[ids -> {[name |-> v, age |-> Null] : v \in Values \cup {Null}}] : ids \in SUBSET Ids}
Init ==
  \E table \in Tables :
    repo = [table |-> table, call |-> [NoCall EXCEPT !.before = table], calls |-> 0]

\* The items of calls: an id or none (a null one counts as none), a name or none, no age.
Items ==
  LET idItems == {[id |-> i] : i \in Ids \cup {Null}}
      named   == {[name |-> v, extra |-> v] : v \in Values}
      both    == {[id |-> i, name |-> v] : i \in Ids, v \in Values}
  IN  idItems \cup named \cup both

Has(item, key)  == key \in DOMAIN item
ValueOf(item, key) == IF Has(item, key) THEN item[key] ELSE Null
Only(item, keys) == [key \in (DOMAIN item) \cap keys |-> item[key]]

-----------------------------------------------------------------------------
\* What the repository sends.

FilterValidKeys(item) == Only(item, KeySet)

\* An id that says nothing is left out, so that the table gives the row its number.
FilterValidItems(items) ==
  LET hasExplicitId == \E i \in 1..Len(items) : ValueOf(items[i], Id) # Null
      Valid(item) == IF hasExplicitId /\ ValueOf(item, Id) # Null THEN FilterValidKeys(item)
                     ELSE Only(item, KeySet \ {Id})
  IN  [i \in 1..Len(items) |-> Valid(items[i])]

ColumnsPresentIn(items) ==
  SelectSeq(Keys, LAMBDA key : \E i \in 1..Len(items) : Has(items[i], key))

\* An INSERT: no statement without columns; the values are bound in the order of the
\* placeholders, row by row.
InsertStatement(items, columns, conflict) ==
  [columns  |-> columns,
   bound    |-> FlattenSeq([i \in 1..Len(items) |->
                  [c \in 1..Len(columns) |-> ValueOf(items[i], columns[c])]]),
   rows     |-> IF columns = <<>> THEN 0 ELSE Len(items),
   conflict |-> conflict]

BatchInsertStatement(items) ==
  InsertStatement(items, ColumnsPresentIn(items), FALSE)

BatchUpsertStatement(items) ==
  LET columns == ColumnsPresentIn(items)
  IN  InsertStatement(items, columns, Id \in {columns[c] : c \in 1..Len(columns)})

-----------------------------------------------------------------------------
\* What SQLite makes of a statement.

Largest(numbers) == IF numbers = {} THEN 0 ELSE CHOOSE n \in numbers : \A m \in numbers : m <= n

\* The n-th row of a statement, as a function from its columns to the values bound to them.
Given(statement, n) ==
  LET width == Len(statement.columns)
  IN  [key \in {statement.columns[c] : c \in 1..width} |->
         statement.bound[(n - 1) * width
                           + (CHOOSE c \in 1..width : statement.columns[c] = key)]]

FullRow(given) == [key \in KeySet \ {Id} |-> ValueOf(given, key)]

\* One row into the table; ok becomes FALSE when the id is taken.  ON CONFLICT sets the
\* columns of the statement to what was to be inserted.
InsertRow(state, given, conflict) ==
  LET id    == IF ValueOf(given, Id) = Null THEN Largest(DOMAIN state.table) + 1 ELSE given.id
      taken == id \in DOMAIN state.table
      old   == state.table[id]
      row   == IF taken THEN [key \in KeySet \ {Id} |-> IF Has(given, key) THEN given[key] ELSE old[key]]
               ELSE FullRow(given)
  IN  IF taken /\ ~conflict THEN [state EXCEPT !.ok = FALSE]
      ELSE [state EXCEPT !.table = [k \in DOMAIN @ \cup {id} |-> IF k = id THEN row ELSE @[k]],
                         !.last = IF taken THEN @ ELSE id]

\* The table after the statement and the number of the row inserted last, ok unless it failed.
Executed(table, statement, refused) ==
  LET start == [table |-> table, last |-> 0, ok |-> statement.rows > 0 /\ ~refused]
      after == FoldLeft(LAMBDA state, n :
                          IF state.ok THEN InsertRow(state, Given(statement, n), statement.conflict)
                          ELSE state,
                        start, [n \in 1..statement.rows |-> n])
  IN  IF after.ok /\ DOMAIN after.table \subseteq Ids THEN after
      ELSE [start EXCEPT !.ok = FALSE]

-----------------------------------------------------------------------------

\* The ids of the rows: the item's own, or counted on from the row inserted last.
IdsOf(items, last) ==
  [i \in 1..Len(items) |-> IF Has(items[i], Id) THEN items[i].id ELSE last + i - 1]

\* One chunk is one statement; a chunk that fails answers no id, and the next one is tried.
SendChunk(state, chunk, upsert) ==
  LET items     == FilterValidItems(chunk.items)
      statement == IF upsert THEN BatchUpsertStatement(items) ELSE BatchInsertStatement(items)
      after     == Executed(state.table, statement, chunk.refused)
      Sent(item) == [item |-> item, alone |-> Len(items) = 1]
  IN  IF after.ok THEN [table |-> after.table, ids |-> state.ids \o IdsOf(items, after.last),
                        sent  |-> state.sent \o [i \in 1..Len(items) |-> Sent(items[i])]]
      ELSE state

Chunks(items, size, refused) ==
  [c \in 1..((Len(items) + size - 1) \div size) |->
     [items   |-> SubSeq(items, (c - 1) * size + 1,
                         IF c * size < Len(items) THEN c * size ELSE Len(items)),
      refused |-> c = refused]]

Answered(is, items, after) ==
  repo' = [table |-> after.table, calls |-> repo.calls + 1,
           call  |-> [is |-> is, items |-> items, ids |-> after.ids, sent |-> after.sent,
                      before |-> repo.table, rows |-> after.rows]]

Write(items, size, refused, upsert) ==
  LET after == FoldLeft(LAMBDA state, chunk : SendChunk(state, chunk, upsert),
                        [table |-> repo.table, ids |-> <<>>, sent |-> <<>>],
                        Chunks(items, size, refused))
  IN  Answered(IF upsert THEN "upsert" ELSE "insert", items,
               [table |-> after.table, ids |-> after.ids, sent |-> after.sent, rows |-> 0])

Insert(items, size, refused) == Write(items, size, refused, FALSE)
Upsert(items, size, refused) == Write(items, size, refused, TRUE)

\* The rows a condition is about: {} is the empty condition, which is no condition.
Matching(condition) == condition \cap DOMAIN repo.table

\* Without a condition an item is found by its id; without an id nothing is updated.
ConditionOf(item, condition) ==
  IF condition # {} THEN condition
  ELSE IF ValueOf(item, Id) # Null THEN {item.id} ELSE {}

\* An UPDATE sets the columns of the item except its id, in every row the condition is about.
Updated(table, item, condition, refused) ==
  LET set  == Only(item, KeySet \ {Id})
      hit  == Matching(ConditionOf(item, condition))
      done == DOMAIN set # {} /\ ~refused
      Row(id) == [key \in KeySet \ {Id} |->
                    IF done /\ id \in hit /\ Has(set, key) THEN set[key] ELSE table[id][key]]
  IN  [table |-> [id \in DOMAIN table |-> Row(id)], rows |-> IF done THEN Cardinality(hit) ELSE 0]

Update(item, condition, refused) ==
  LET after == Updated(repo.table, item, condition, refused)
  IN  Answered("update", <<item>>, [table |-> after.table, ids |-> <<>>, sent |-> <<>>, rows |-> after.rows])

\* One update after the other; the ids of the items that hit a row are answered.
UpdateAll(items, condition) ==
  LET One(state, item) ==
        LET after == Updated(state.table, item, condition, FALSE)
        IN  [table |-> after.table, rows |-> 0, sent |-> <<>>,
             ids   |-> IF after.rows > 0 /\ Has(item, Id) THEN Append(state.ids, item.id) ELSE state.ids]
  IN  Answered("updateAll", items,
               FoldLeft(One, [table |-> repo.table, rows |-> 0, sent |-> <<>>, ids |-> <<>>], items))

WithoutRows(ids) == [id \in DOMAIN repo.table \ ids |-> repo.table[id]]
Deleted(is, ids) ==
  Answered(is, <<>>, [table |-> WithoutRows(ids), ids |-> <<>>, sent |-> <<>>,
                      rows  |-> Cardinality(ids \cap DOMAIN repo.table)])

Refused == [table |-> repo.table, ids |-> <<>>, sent |-> <<>>, rows |-> -1]

\* Variant: an empty condition deletes what it says.
DeleteWithoutGuard(condition, refused) ==
  IF refused THEN Answered("remove", <<>>, Refused)
  ELSE Deleted("remove", IF condition = {} THEN DOMAIN repo.table ELSE condition)

\* A DELETE without a condition is refused; removeAll and clearTable say that they mean it.
RemoveRows(condition, refused) ==
  IF condition = {} \/ refused THEN Answered("remove", <<>>, Refused)
  ELSE Deleted("remove", condition)

RemoveAll == Deleted("removeAll", Ids)

Conditions == {{}, {1}, Ids}
Lists == UNION {[1..n -> Items] : n \in 1..MaxItems}

Next ==
  /\ repo.calls < MaxCalls
  /\ \/ \E items \in Lists, size \in ChunkSizes, refused \in 0..1 : Insert(items, size, refused)
     \/ \E items \in Lists, size \in ChunkSizes, refused \in 0..1 : Upsert(items, size, refused)
     \/ \E item \in Items, condition \in Conditions, refused \in BOOLEAN :
          Update(item, condition, refused)
     \/ \E items \in Lists, condition \in Conditions : UpdateAll(items, condition)
     \/ \E condition \in Conditions, refused \in BOOLEAN : RemoveRows(condition, refused)
     \/ RemoveAll

-----------------------------------------------------------------------------

Called   == repo.call
IdsGiven == {ValueOf(Called.items[i], Id) : i \in 1..Len(Called.items)} \ {Null}

\* That an id is known to be the row's: the item has it, or is the only one of its statement.
IsKnown(sent) == Has(sent.item, Id) \/ sent.alone

\* An insert adds a row for every id it answers.  The id answered for an item that has one or
\* is alone in its statement is that of a row which holds what was given, unless a later item
\* of the call is for that row; of an insert, a new row for each.  Of several items without an
\* id in one statement the code counts their ids on from the row inserted last, as if it were
\* the first; that they are of rows is not stated.
IdsAreOfRows ==
  LET ids  == Called.ids
      sent == Called.sent
      known == {n \in 1..Len(ids) : IsKnown(sent[n])}
  IN  Called.is \in {"insert", "upsert"} =>
        /\ Len(ids) = Len(sent)
        /\ Called.is = "insert" =>
             /\ Cardinality(DOMAIN repo.table) = Cardinality(DOMAIN Called.before) + Len(ids)
             /\ \A n \in known : ids[n] \notin DOMAIN Called.before
             /\ \A n, m \in known : ids[n] = ids[m] => n = m
        /\ \A n \in known :
             /\ ids[n] \in DOMAIN repo.table
             /\ Has(sent[n].item, "name") /\ (\A m \in known : m > n => ids[m] # ids[n]) =>
                  repo.table[ids[n]].name = sent[n].item.name

\* No call touches a row it was not asked about, none but a removal loses one, and a removal
\* that names nothing or fails loses nothing.
OthersAreKept ==
  LET before == Called.before
  IN  /\ Called.is \in {"insert", "upsert", "update", "updateAll"} =>
           DOMAIN before \subseteq DOMAIN repo.table
      /\ Called.is = "insert" => \A id \in DOMAIN before : repo.table[id] = before[id]
      /\ Called.is = "upsert" => \A id \in DOMAIN before \ IdsGiven : repo.table[id] = before[id]
      /\ Called.is = "remove" /\ Called.rows < 1 => repo.table = before

RowsAreAsAsked == IdsAreOfRows /\ OthersAreKept
=============================================================================
