------------------------------- MODULE Schema -------------------------------
(***************************************************************************)
(* The schema of a database file: the migrations that bring it to a        *)
(* version (src/cpp/dbtoolkit/migrationrunner.cpp) and the statements a    *)
(* migration is made of (query/createtable.cpp, altertable.cpp,            *)
(* createindex.cpp, column.cpp, pragma.cpp).  A database is its            *)
(* user_version, the columns of one table and of one index.  "data" is     *)
(* what the connection sees, "disk" what a restart finds.  SQLite is       *)
(* external: it can refuse a statement, and a crash loses what was not     *)
(* committed.                                                              *)
(***************************************************************************)
EXTENDS Integers, Sequences, FiniteSets, SequencesExt

CONSTANTS
  MaxFailures,  \* the statements that fail in a run
  MaxCrashes    \* the restarts

VARIABLE schema

Column(name) == [name |-> name, primaryKey |-> FALSE, autoIncrement |-> FALSE,
                 notNull |-> FALSE, unique |-> FALSE, default |-> FALSE]
PrimaryKey(column) == [column EXCEPT !.primaryKey = TRUE]
NotNull(column)    == [column EXCEPT !.notNull = TRUE]
Default(column)    == [column EXCEPT !.default = TRUE]

CreateTable(columns) == [is |-> "create", columns |-> columns]
CreateIndex(columns) == [is |-> "index", columns |-> columns]
AlterTable(add, drop, rename) == [is |-> "alter", add |-> add, drop |-> drop, rename |-> rename]

\* What the app registers: a table with an index, a column added, one renamed and one dropped.
Steps == <<
  <<CreateTable(<<PrimaryKey(Column("id")), NotNull(Column("name"))>>), CreateIndex(<<"name">>)>>,
  <<AlterTable(<<Default(NotNull(Column("age"))), Column("note")>>, <<>>, <<>>)>>,
  <<AlterTable(<<>>, <<"note">>, <<[from |-> "age", to |-> "years"]>>)>> >>
Versions == 1..Len(Steps)

Nothing == [version |-> 0, columns |-> <<>>, index |-> <<>>]
Idle == [at |-> "idle", left |-> <<>>, result |-> "none"]

Init ==
  \E order \in {o \in [Versions -> Versions] : \A i, j \in Versions : o[i] = o[j] => i = j} :
    schema = [disk |-> Nothing, data |-> Nothing, levels |-> <<>>, order |-> order,
              runner |-> Idle, failures |-> 0, crashes |-> 0, misread |-> FALSE, open |-> FALSE]

-----------------------------------------------------------------------------
\* SQLite: what each statement does to a database, or that it is refused.

Names(database) == {database.columns[i] : i \in 1..Len(database.columns)}
Refused == [refused |-> TRUE]
IsRefused(database) == "refused" \in DOMAIN database

Created(database, command) ==
  IF database.columns # <<>> THEN database
  ELSE [database EXCEPT !.columns = [i \in 1..Len(command.columns) |-> command.columns[i].name]]

Indexed(database, command) ==
  IF {command.columns[i] : i \in 1..Len(command.columns)} \subseteq Names(database)
  THEN [database EXCEPT !.index = command.columns] ELSE Refused

\* A column that is added can be no key, and one that forbids NULL needs a default.
ColumnAdded(database, column) ==
  IF column.primaryKey \/ column.unique \/ (column.notNull /\ ~column.default)
     \/ column.name \in Names(database) \/ database.columns = <<>>
  THEN Refused ELSE [database EXCEPT !.columns = Append(@, column.name)]

ColumnDropped(database, name) ==
  IF name \notin Names(database) \/ name \in {database.index[i] : i \in 1..Len(database.index)}
  THEN Refused ELSE [database EXCEPT !.columns = SelectSeq(@, LAMBDA c : c # name)]

ColumnRenamed(database, rename) ==
  IF rename.from \notin Names(database) \/ rename.to \in Names(database) THEN Refused
  ELSE [database EXCEPT !.columns = [i \in 1..Len(@) |-> IF @[i] = rename.from THEN rename.to ELSE @[i]]]

-----------------------------------------------------------------------------
\* AlterTable::execute: what the table had when it began decides what is left to do.

Todo(command, existing) ==
  LET adds    == SelectSeq(command.add, LAMBDA column : column.name \notin existing)
      drops   == SelectSeq(command.drop, LAMBDA name : name \in existing)
      renames == SelectSeq(command.rename,
                   LAMBDA rename : rename.from \in existing /\ rename.to \notin existing)
  IN  [i \in 1..Len(adds) |-> [does |-> "add", column |-> adds[i]]]
        \o [i \in 1..Len(drops) |-> [does |-> "drop", name |-> drops[i]]]
        \o [i \in 1..Len(renames) |-> [does |-> "rename", rename |-> renames[i]]]

Statement(database, statement) ==
  CASE statement.does = "add"    -> ColumnAdded(database, statement.column)
    [] statement.does = "drop"   -> ColumnDropped(database, statement.name)
    [] statement.does = "rename" -> ColumnRenamed(database, statement.rename)

\* The statements one after the other; the one numbered failing is refused whatever it says.
\* The first refusal ends the command and leaves what was done before it.
Altered(database, command, failing) ==
  LET Do(state, statement) ==
        LET after == Statement(state.database, statement)
        IN  IF ~state.ok THEN state
            ELSE IF state.done + 1 = failing \/ IsRefused(after) THEN [state EXCEPT !.ok = FALSE]
            ELSE [database |-> after, ok |-> TRUE, done |-> state.done + 1]
  IN  FoldLeft(Do, [database |-> database, ok |-> TRUE, done |-> 0], Todo(command, Names(database)))

\* A command of a migration: its database and whether it answered 1.
Executed(database, command, failing) ==
  IF command.is = "alter" THEN Altered(database, command, failing)
  ELSE LET after == IF command.is = "create" THEN Created(database, command)
                    ELSE Indexed(database, command)
       IN  IF failing = 1 \/ IsRefused(after) THEN [database |-> database, ok |-> FALSE, done |-> 0]
           ELSE [database |-> after, ok |-> TRUE, done |-> 1]

\* The step of a migration; the command numbered broken meets a refusal at statement failing.
Stepped(database, commands, broken, failing) ==
  LET Do(state, i) ==
        IF ~state.ok THEN state
        ELSE LET after == Executed(state.database, commands[i], IF i = broken THEN failing ELSE 0)
             IN  [database |-> after.database, ok |-> after.ok]
  IN  FoldLeft(Do, [database |-> database, ok |-> TRUE], [i \in 1..Len(commands) |-> i])

-----------------------------------------------------------------------------
\* MigrationRunner::run.

Runner == schema.runner
May(fails) == fails => schema.failures < MaxFailures
Fail(fails) == schema.failures + (IF fails THEN 1 ELSE 0)

\* user_version; a read that fails answers 0.
CurrentVersion(fails) == IF fails THEN 0 ELSE schema.data.version


\* The migrations by version, whatever the order they were added in.
Sorted == SetToSortSeq({schema.order[i] : i \in Versions}, LAMBDA a, b : a < b)

Run(fails) ==
  /\ Runner.at = "idle" /\ May(fails)
  /\ schema' = [schema EXCEPT
       !.runner = [at |-> "begin", result |-> "none",
                   left |-> SelectSeq(Sorted, LAMBDA v : v > CurrentVersion(fails))],
       !.failures = Fail(fails), !.misread = @ \/ (fails /\ schema.data.version # 0)]

Return(result) == [at |-> "idle", left |-> <<>>, result |-> result]

\* The first transaction is the database's, one inside it is a savepoint.
Begin(fails) ==
  /\ Runner.at = "begin" /\ Runner.left # <<>> /\ May(fails)
  /\ schema' = IF fails THEN [schema EXCEPT !.runner = Return("false"), !.failures = Fail(fails)]
               ELSE [schema EXCEPT !.runner.at = "step", !.levels = Append(@, schema.data)]

Migrate(broken, failing) ==
  LET fails == broken # 0
      after == Stepped(schema.data, Steps[Head(Runner.left)], broken, failing)
  IN  /\ Runner.at = "step" /\ May(fails)
      /\ schema' = [schema EXCEPT !.data = after.database, !.failures = Fail(fails),
                      !.runner.at = IF after.ok THEN "version" ELSE "rollback"]

SetVersion(fails) ==
  /\ Runner.at = "version" /\ May(fails)
  /\ schema' = IF fails THEN [schema EXCEPT !.runner.at = "rollback", !.failures = Fail(fails)]
               ELSE [schema EXCEPT !.runner.at = "commit", !.data.version = Head(Runner.left)]

RollBack(fails) ==
  /\ Runner.at = "rollback" /\ May(fails)
  /\ schema' = [schema EXCEPT
       !.data     = IF fails THEN @ ELSE Last(schema.levels),
       !.levels   = IF fails THEN @ ELSE Front(@),
       !.open     = @ \/ fails,
       !.failures = Fail(fails),
       !.runner   = Return("false")]

\* Only the commit of the outermost transaction reaches the disk.  One that fails leaves the
\* transaction as it is.
Commit(fails) ==
  /\ Runner.at = "commit" /\ May(fails)
  /\ schema' = IF fails
               THEN [schema EXCEPT !.runner = Return("false"), !.failures = Fail(fails), !.open = TRUE]
               ELSE [schema EXCEPT
                       !.disk   = IF Len(schema.levels) = 1 THEN schema.data ELSE @,
                       !.levels = Front(@),
                       !.runner = [Runner EXCEPT !.at = "begin", !.left = Tail(@)]]

Done ==
  /\ Runner.at = "begin" /\ Runner.left = <<>>
  /\ schema' = [schema EXCEPT !.runner = Return("true")]

Crash ==
  /\ schema.crashes < MaxCrashes
  /\ schema' = [schema EXCEPT !.data = schema.disk, !.levels = <<>>, !.runner = Idle,
                  !.crashes = @ + 1, !.open = FALSE]

Next ==
  \/ \E fails \in BOOLEAN :
       Run(fails) \/ Begin(fails) \/ SetVersion(fails) \/ RollBack(fails) \/ Commit(fails)
  \/ \E broken, failing \in 0..2 : (broken = 0 <=> failing = 0) /\ Migrate(broken, failing)
  \/ Done
  \/ Crash

-----------------------------------------------------------------------------

\* The columns a database of each version has.
ColumnsAt(version) ==
  CASE version = 0 -> {}
    [] version = 1 -> {"id", "name"}
    [] version = 2 -> {"id", "name", "age", "note"}
    [] version = 3 -> {"id", "name", "years"}

\* What is on disk is a whole number of migrations, each done once and in the order of their
\* versions, unless the version could once not be read.
DiskIsOfItsVersion ==
  /\ schema.disk.version \in 0..Len(Steps)
  /\ ~schema.misread => Names(schema.disk) = ColumnsAt(schema.disk.version)

\* run() answers TRUE when the target version is on disk, unless a commit or a rollback that
\* failed left a transaction open.
RunIsDurable ==
  Runner.result = "true" /\ ~schema.open => schema.disk.version = Len(Steps)

SchemaIsMigrated == DiskIsOfItsVersion /\ RunIsDurable
=============================================================================
