---------------------------- MODULE WhereClause -----------------------------
(***************************************************************************)
(* The builder of conditions (src/cpp/dbtoolkit/query/where.cpp): a call   *)
(* names a column, the next one tests it, and the text grows at its end.   *)
(* A test is one token whatever it compares; the values' wording is left   *)
(* out.  A call that has no column to test is ignored, and so is a test    *)
(* against an empty list, which leaves its column waiting: "skipped" says  *)
(* that it did.  The next column then takes the place of the one that      *)
(* waits, and what was to stand before that one is "lost".                 *)
(***************************************************************************)
EXTENDS Integers, Sequences, SequencesExt

CONSTANT MaxTokens   \* the tokens of one condition
VARIABLE where

Empty == [condition |-> <<>>, column |-> FALSE, tests |-> 0, skipped |-> FALSE, lost |-> FALSE]

\* The conditions a caller has at hand to combine: none, one test, two.
Parts == {<<>>, <<"test">>, <<"test", "OR", "test">>}

Start == \E column \in BOOLEAN : where = [Empty EXCEPT !.column = column]

\* A test of the waiting column.
Tested ==
  IF where.column
  THEN [where EXCEPT !.condition = Append(@, "test"), !.column = FALSE, !.tests = @ + 1,
                     !.skipped = FALSE]
  ELSE where

Compare == where' = Tested   \* a comparison or a pattern
InRange == where' = Tested   \* BETWEEN, IS NULL, IS NOT NULL

Skipped == [where EXCEPT !.skipped = where.column]

In(values) == where' = IF values = {} THEN Skipped ELSE Tested

\* A subquery without SQL is no list at all.
InSubquery(sql) == where' = IF sql = {} THEN Skipped ELSE Tested

\* What is appended while a column waits: the column's place is lost.
Appended(tokens) ==
  [where EXCEPT !.condition = @ \o tokens, !.lost = @ \/ where.column]

Named(tokens) == [Appended(tokens) EXCEPT !.column = TRUE, !.skipped = FALSE]

\* Variant: a connective whatever stands before it.
ConnectAlways(connective) == where' = Named(<<connective>>)

\* A connective before the next column; nothing stands before the first one.
Connect(connective) == where' = Named(IF where.condition = <<>> THEN <<>> ELSE <<connective>>)

\* NOT before the next column, whatever stands before it.
Negate == where' = Named(<<"NOT">>)

TestsOf(part) == Len(SelectSeq(part, LAMBDA token : token = "test"))
Parenthesised(part) == <<"(">> \o part \o <<")">>

\* A whole condition joins as one operand; an empty one is ignored, with its connective.
Join(prefix, part) ==
  where' = IF part = <<>> THEN where
           ELSE [Appended((IF where.condition = <<>> THEN <<>> ELSE prefix) \o Parenthesised(part))
                   EXCEPT !.tests = @ + TestsOf(part)]

NegateCondition(part) ==
  where' = IF part = <<>> THEN where
           ELSE [Appended(<<"NOT">> \o Parenthesised(part)) EXCEPT !.tests = @ + TestsOf(part)]

Raw(part) == Join(<<>>, part)

\* What callers do: every column is tested, though the test may be against an empty list; a
\* connective comes after a test, NOT and raw text come first.
MayConnect == where.column => where.skipped
MayBegin   == MayConnect /\ where.condition = <<>>

Next ==
  /\ Len(where.condition) < MaxTokens
  /\ \/ Compare
     \/ InRange
     \/ \E values \in SUBSET {"value"} : In(values)
     \/ \E sql \in SUBSET {"query"} : InSubquery(sql)
     \/ MayConnect /\ \E connective \in {"AND", "OR"} : Connect(connective)
     \/ MayBegin /\ Negate
     \/ MayConnect /\ \E connective \in {"AND", "OR"}, part \in Parts : Join(<<connective>>, part)
     \/ MayBegin /\ \E part \in Parts : NegateCondition(part)
     \/ MayBegin /\ \E part \in Parts : Raw(part)

-----------------------------------------------------------------------------

\* Reading a condition as SQL does: what may stand next, and how many parentheses are open.
Read(state, token) ==
  CASE state.next = "operand" /\ token = "NOT"  -> state
    [] state.next = "operand" /\ token = "("    -> [state EXCEPT !.open = @ + 1]
    [] state.next = "operand" /\ token = "test" -> [state EXCEPT !.next = "connective"]
    [] state.next = "connective" /\ token \in {"AND", "OR"} -> [state EXCEPT !.next = "operand"]
    [] state.next = "connective" /\ token = ")" /\ state.open > 0 -> [state EXCEPT !.open = @ - 1]
    [] OTHER -> [state EXCEPT !.next = "nothing"]

Parses(condition) ==
  FoldLeft(Read, [next |-> "operand", open |-> 0], condition) = [next |-> "connective", open |-> 0]

\* A condition that waits for no column is SQL, or empty when nothing was tested, unless an
\* empty list made a column lose its place: of "a IN () AND b" the second test is left, and "c
\* AND a IN () AND b" becomes "c AND AND b", which SQLite refuses.  Either way it has every test
\* that was not ignored.
WellFormed ==
  /\ ~where.column /\ ~where.lost /\ where.condition # <<>> => Parses(where.condition)
  /\ where.tests = TestsOf(where.condition)
=============================================================================
