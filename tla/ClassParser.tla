---------------------------- MODULE ClassParser ----------------------------
(***************************************************************************)
(* The reader of class diagrams (src/cpp/diagram/classparser.cpp).  Inside *)
(* the body of a class every line but a comment block is a member; a body  *)
(* without separators is split into fields and methods when it closes.     *)
(* Members are numbered as they are read; a compartment is the set of its  *)
(* members, and the order of a class's compartments is left out.           *)
(* Names are model values.  "text" stands for the lines that say nothing   *)
(* outside a body (a title, a marker, an ignored directive); blank lines   *)
(* and line comments are skipped everywhere and left out.                  *)
(***************************************************************************)
EXTENDS SkippedBlocks, Sequences, FiniteSets

CONSTANTS Names,        \* the names a text gives to classes
          MaxElements   \* the classes, relations, notes and members one diagram may have
VARIABLE reader

NoNote == [type |-> 0, side |-> "none"]
NoBody == [type |-> 0, above |-> {}, last |-> {}, separated |-> FALSE]
Sides  == {"left", "right"}

Lines ==
  [is : {"class"}, id : Names, enum : BOOLEAN, opens : BOOLEAN, closes : BOOLEAN]
    \cup [is : {"relation"}, from : Names, to : Names]
    \cup [is : {"note"}, id : Names, side : Sides, inline : BOOLEAN]
    \cup [is : {"close", "endnote", "separator", "field", "method", "text", "unsupported"}]
    \cup BlockLines({"comment"})

Empty == [types |-> <<>>, relations |-> <<>>, notes |-> <<>>, members |-> 0, methods |-> {},
          declared |-> {}, body |-> NoBody, note |-> NoNote, skipped |-> NoBlock, outcome |-> "reading"]

Failed == [Empty EXCEPT !.outcome = "failed"]
Init   == reader = Empty

Elements(r) == Len(r.types) + Len(r.relations) + Len(r.notes) + r.members

Reads(r) == reader' = IF Elements(r) > MaxElements THEN Failed ELSE r
Fails    == reader' = Failed

Found(r, id) == {i \in 1..Len(r.types) : r.types[i].id = id}
First(found) == CHOOSE i \in found : \A j \in found : i <= j

Resolved(r, id) ==
  IF Found(r, id) # {} THEN r
  ELSE [r EXCEPT !.types = Append(@, [id |-> id, enum |-> FALSE, compartments |-> {}])]
IndexOf(r, id) == First(Found(Resolved(r, id), id))

\* The compartments of a closed body: as separated, or the fields and the methods; no empty ones.
Compartments(r, enum) ==
  (IF r.body.separated \/ enum THEN r.body.above \cup {r.body.last}
   ELSE {r.body.last \ r.methods, r.body.last \cap r.methods}) \ {{}}

BodyClosed(r) ==
  [r EXCEPT !.body = NoBody,
            !.types[r.body.type].compartments = @ \cup Compartments(r, r.types[r.body.type].enum)]

ReadDeclaration(line) ==
  /\ line.is = "class"
  /\ LET i == IndexOf(reader, line.id)
         r == [Resolved(reader, line.id) EXCEPT !.types[i].enum = line.enum, !.declared = @ \cup {i}]
         opened == [r EXCEPT !.body = [NoBody EXCEPT !.type = i]]
     IN  IF i \in reader.declared THEN Fails
         ELSE Reads(IF ~line.opens THEN r ELSE IF line.closes THEN BodyClosed(opened) ELSE opened)

ReadRelation(line) ==
  /\ line.is = "relation"
  /\ LET r == Resolved(reader, line.from)
         s == Resolved(r, line.to)
     IN  Reads([s EXCEPT !.relations =
                  Append(@, [from |-> IndexOf(reader, line.from), to |-> IndexOf(r, line.to)])])

HasNote(r, type, side) ==
  \/ \E n \in 1..Len(r.notes) : r.notes[n] = [type |-> type, side |-> side]
  \/ r.note = [type |-> type, side |-> side]

ReadNote(line) ==
  /\ line.is = "note"
  /\ LET found == Found(reader, line.id)
         note  == [type |-> First(found), side |-> line.side]
     IN  IF found = {} \/ HasNote(reader, First(found), line.side) THEN Fails
         ELSE IF line.inline THEN Reads([reader EXCEPT !.notes = Append(@, note)])
         ELSE Reads([reader EXCEPT !.note = note])

ReadNoteLine(line) ==
  IF line.is = "endnote"
  THEN Reads([reader EXCEPT !.note = NoNote, !.notes = Append(@, reader.note)])
  ELSE Reads(reader)

\* A member goes to the last compartment, whatever statement it looks like.
MemberRead(r, method) ==
  LET member == r.members + 1
  IN  [r EXCEPT !.members = member, !.body.last = @ \cup {member},
                !.methods = IF method THEN @ \cup {member} ELSE @]

ReadBodyLine(line) ==
  CASE line.is = "close"     -> Reads(BodyClosed(reader))
    [] line.is = "separator" -> Reads([reader EXCEPT !.body.separated = TRUE,
                                  !.body.above = @ \cup {reader.body.last}, !.body.last = {}])
    [] line.is = "unsupported" -> Fails
    [] OTHER -> Reads(MemberRead(reader, line.is = "method"))

ReadIgnored(line) == line.is = "text" /\ Reads(reader)

StartBlock(line) == line.is = "block" /\ Reads([reader EXCEPT !.skipped = Started(line)])

\* A closing brace without a body, and every line that is no statement.
ReadUnsupported(line) ==
  line.is \in {"close", "separator", "field", "method", "unsupported", "endnote", "ends"} /\ Fails

ReadStatement(line) ==
  \/ StartBlock(line)
  \/ ReadDeclaration(line)
  \/ ReadRelation(line)
  \/ ReadNote(line)
  \/ ReadIgnored(line)
  \/ ReadUnsupported(line)

\* What a line means depends on what is open: a block, a note, a body, then the diagram.
ReadLine(line) ==
  /\ reader.outcome = "reading"
  /\ \/ /\ IsOpen(reader.skipped)
        /\ Reads([reader EXCEPT !.skipped = Continued(@, line)])
     \/ /\ ~IsOpen(reader.skipped) /\ reader.note # NoNote
        /\ ReadNoteLine(line)
     \/ /\ ~IsOpen(reader.skipped) /\ reader.note = NoNote
        /\ reader.body # NoBody /\ line.is # "block"
        /\ ReadBodyLine(line)
     \/ /\ ~IsOpen(reader.skipped) /\ reader.note = NoNote
        /\ reader.body = NoBody \/ line.is = "block"
        /\ ReadStatement(line)

Unfinished(r) == r.note # NoNote \/ IsOpen(r.skipped) \/ r.body # NoBody \/ r.types = <<>>

Finish ==
  /\ reader.outcome = "reading"
  /\ reader' = IF Unfinished(reader) THEN Failed ELSE [reader EXCEPT !.outcome = "parsed"]

Next == Finish \/ \E line \in Lines : ReadLine(line)

-----------------------------------------------------------------------------

\* What the layout takes for granted: indices are classes', a name stands for one class, a
\* side of a class has one note, no compartment is empty and every member read is in one.
WellFormed(r) ==
  LET all == 1..Len(r.types) IN
  /\ \A k \in 1..Len(r.relations) : r.relations[k].from \in all /\ r.relations[k].to \in all
  /\ \A i, j \in all : r.types[i].id = r.types[j].id => i = j
  /\ \A m, n \in 1..Len(r.notes) : m # n => r.notes[m] # r.notes[n]
  /\ \A n \in 1..Len(r.notes) : r.notes[n].type \in all
  /\ \A i \in all : {} \notin r.types[i].compartments
  /\ \A member \in 1..r.members : \E i \in all : \E compartment \in r.types[i].compartments :
       /\ member \in compartment
       /\ \A j \in all : \A other \in r.types[j].compartments :
            member \in other => j = i /\ other = compartment
=============================================================================
