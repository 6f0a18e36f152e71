-------------------------- MODULE SelectStatement ---------------------------
(***************************************************************************)
(* A SELECT and the rows read from it: the builder                         *)
(* (src/cpp/dbtoolkit/query/select.cpp, join.cpp, order.cpp, alias.cpp)    *)
(* and the projections that split a row into the groups it came from       *)
(* (query/projection.cpp, expr.cpp, dbprojection.h).  A name is a sequence *)
(* of words, as an underscore joins them: a table's conversation_id and    *)
(* the id of conversation have the same name in a row.  Each clause is one *)
(* token; a condition or an expression is left out of it.                  *)
(***************************************************************************)
EXTENDS Integers, Sequences, FiniteSets, SequencesExt

CONSTANT MaxCalls   \* the calls of one builder

VARIABLE select

Joinable   == {"owner", "thread"}
Columns    == {<<"id">>, <<"title">>, <<"owner", "id">>}
Directions == {"ASC", "DESC"}
None       == <<>>

\* An expression of the list: what it reads, and the name its value has in a row.
Expression(table, column, name) == [table |-> table, column |-> column, name |-> name]

\* ColumnPrefix::createColumn: no prefix leaves the column as it is.
Prefixed(prefix, column) == prefix \o column

Base == "base"
Empty ==
  [columns |-> <<>>, joins |-> <<>>, joinColumns |-> <<>>, where |-> FALSE, order |-> <<>>,
   pending |-> FALSE, group |-> FALSE, limit |-> FALSE, offset |-> FALSE, calls |-> 0]
Init == select = Empty

Called(after) == select' = [after EXCEPT !.calls = @ + 1]

SetColumns(columns) == Called([select EXCEPT !.columns = columns])

\* A join brings the columns it was given, under its prefix when it has one.
JoinColumns(table, keys, prefix) ==
  [i \in 1..Len(keys) |-> Expression(table, keys[i], Prefixed(prefix, keys[i]))]

Join(kind, table, keys, prefix) ==
  Called([select EXCEPT !.joins = Append(@, [kind |-> kind, table |-> table, keys |-> keys, prefix |-> prefix]),
                        !.joinColumns = @ \o JoinColumns(table, keys, prefix)])

\* An empty condition or order is no clause.
Where(condition) == Called([select EXCEPT !.where = @ \/ condition # {}])

\* Order::then names a column, asc or desc finishes it; a direction without a column says nothing.
Then == Called([select EXCEPT !.pending = TRUE])
Finalized(direction) ==
  IF select.pending THEN [select EXCEPT !.order = Append(@, direction), !.pending = FALSE] ELSE select
OrderBy(direction) == Called(Finalized(direction))

Limit   == Called([select EXCEPT !.limit = TRUE])
Offset  == Called([select EXCEPT !.offset = TRUE])
GroupBy == Called([select EXCEPT !.group = TRUE])

-----------------------------------------------------------------------------
\* What is sent and what is read back.

SelectColumns(statement) ==
  [i \in 1..Len(statement.columns) |-> Expression(Base, statement.columns[i], statement.columns[i])]
    \o statement.joinColumns

ToSql(statement) ==
  LET Clause(present, token) == IF present THEN <<token>> ELSE <<>>
  IN  <<"SELECT", "FROM">>
        \o [i \in 1..Len(statement.joins) |-> statement.joins[i].kind]
        \o Clause(statement.where, "WHERE")
        \o Clause(statement.group, "GROUP BY")
        \o Clause(statement.order # <<>>, "ORDER BY")
        \o Clause(statement.limit, "LIMIT")
        \o Clause(statement.offset, "OFFSET")

\* A row by the names of its values; of two with one name the later is kept.
RowOf(expressions) ==
  FoldLeft(LAMBDA row, e : [name \in DOMAIN row \cup {e.name} |->
                              IF name = e.name THEN [table |-> e.table, column |-> e.column] ELSE row[name]],
           [name \in {} |-> None], expressions)

\* Select::extractPrefixedData and extractColumns: the keys that the row has.
Extracted(row, prefix, keys) ==
  [key \in {k \in keys : Prefixed(prefix, k) \in DOMAIN row} |-> row[Prefixed(prefix, key)]]

\* Variant: the output names do not tell the groups apart.
KeyAsOutputName(projection, key) == key

\* A projection is the columns of one table under the group that its alias names.
Projection(table, columns) == [group |-> <<table>>, table |-> table, columns |-> columns]
OutputName(projection, key) == Prefixed(projection.group, key)

SelectExpressions(projections) ==
  FlattenSeq([p \in 1..Len(projections) |->
    [c \in 1..Len(projections[p].columns) |->
       Expression(projections[p].table, projections[p].columns[c],
                  OutputName(projections[p], projections[p].columns[c]))]])

\* DbProjection::projected: the shape of the query with the expressions of the projections.
Projected(statement, projections) ==
  [statement EXCEPT !.columns = <<>>, !.joinColumns = SelectExpressions(projections)]

\* DbProjection::counting: the rows that the shape has, in any order.
Counting(statement) ==
  [statement EXCEPT !.columns = <<>>, !.joinColumns = <<Expression(Base, <<"1">>, <<"1">>)>>,
                    !.order = <<>>]

\* DbProjection::split: every group with the values read for it.
Split(row, projections) ==
  [g \in {projections[p].group : p \in 1..Len(projections)} |->
     LET last == CHOOSE p \in 1..Len(projections) :
                   /\ projections[p].group = g
                   /\ \A q \in (p + 1)..Len(projections) : projections[q].group # g
     IN  [key \in {k \in Columns : \E c \in 1..Len(projections[last].columns) :
                                     /\ projections[last].columns[c] = k
                                     /\ OutputName(projections[last], k) \in DOMAIN row} |->
            row[OutputName(projections[last], key)]]]

KeyLists == {<<<<"id">>>>, <<<<"id">>, <<"title">>>>}

Next ==
  /\ select.calls < MaxCalls
  /\ \/ \E columns \in {<<<<"id">>, <<"title">>>>, <<<<"id">>, <<"owner", "id">>>>} : SetColumns(columns)
     \/ \E kind \in {"INNER JOIN", "LEFT JOIN"}, table \in Joinable, keys \in KeyLists,
           prefixed \in BOOLEAN :
          /\ \A j \in 1..Len(select.joins) : select.joins[j].table # table
          /\ Join(kind, table, keys, IF prefixed THEN <<table>> ELSE <<>>)
     \/ \E condition \in SUBSET {"condition"} : Where(condition)
     \/ Then
     \/ \E direction \in Directions : OrderBy(direction)
     \/ Limit
     \/ Offset
     \/ GroupBy

-----------------------------------------------------------------------------

\* The order in which SQL wants the clauses of a SELECT.  That an OFFSET wants a LIMIT before it
\* is not asked: DbRepository::select sends one alone, and SQLite refuses the statement.
Rank(token) ==
  CASE token = "SELECT" -> 0   [] token = "FROM" -> 1
    [] token \in {"INNER JOIN", "LEFT JOIN"} -> 2
    [] token = "WHERE" -> 3    [] token = "GROUP BY" -> 4 [] token = "ORDER BY" -> 5
    [] token = "LIMIT" -> 6    [] token = "OFFSET" -> 7

InOrder(sql) == \A i \in 1..(Len(sql) - 1) : Rank(sql[i]) <= Rank(sql[i + 1])

Unambiguous(expressions) ==
  \A i, j \in 1..Len(expressions) : expressions[i].name = expressions[j].name => i = j

\* Every column of a row that no two columns share a name in is found under the table it came
\* from; the columns of a join are told apart by its prefix only.
JoinsKeepTheirColumns ==
  Unambiguous(SelectColumns(select)) =>
    \A j \in 1..Len(select.joins) :
      LET join == select.joins[j]
          keys == {join.keys[k] : k \in 1..Len(join.keys)}
      IN  \A key \in keys :
            Extracted(RowOf(SelectColumns(select)), join.prefix, keys)[key]
              = [table |-> join.table, column |-> key]

\* Projections need no such care: each group has its own columns, whatever the shape selected.
GroupsKeepTheirColumns ==
  LET all         == <<<<"id">>, <<"title">>>>
      projections == <<Projection(Base, <<<<"id">>, <<"owner", "id">>>>)>>
                       \o [j \in 1..Len(select.joins) |-> Projection(select.joins[j].table, all)]
      groups      == Split(RowOf(SelectColumns(Projected(select, projections))), projections)
  IN  /\ \A p \in 1..Len(projections) :
           LET columns == {projections[p].columns[c] : c \in 1..Len(projections[p].columns)}
           IN  groups[projections[p].group]
                 = [key \in columns |-> [table |-> projections[p].table, column |-> key]]
      /\ InOrder(ToSql(Projected(select, projections)))

\* Whatever was called, the clauses of the statement and of the one that counts its rows stand
\* in the order of SQL, and the values read are those of the columns asked for.
StatementReadsBack ==
  /\ InOrder(ToSql(select)) /\ InOrder(ToSql(Counting(select)))
  /\ JoinsKeepTheirColumns
  /\ GroupsKeepTheirColumns
=============================================================================
