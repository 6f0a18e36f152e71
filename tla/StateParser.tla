---------------------------- MODULE StateParser ----------------------------
(***************************************************************************)
(* The reader of state diagrams (src/cpp/diagram/stateparser.cpp): one     *)
(* line is read at a time, the first error ends the reading and drops what *)
(* was read.  A state belongs to the composite state that is open where it *)
(* is first named.  Names and labels are model values and wording is left  *)
(* out; "text" stands for every line that says nothing to a reader (blank, *)
(* comment, title, marker, ignored) or that is only text of a note.        *)
(***************************************************************************)
EXTENDS SkippedBlocks, Sequences, FiniteSets

CONSTANTS Names,        \* the names a text gives to states
          MaxElements   \* the states, transitions and notes one diagram may have
VARIABLE reader

Pseudo == "[*]"
NoNote == [state |-> 0, side |-> "none"]
Sides  == {"left", "right"}

\* The statements the reader tells apart.
Lines ==
  [is : {"state"}, id : Names, opens : BOOLEAN]
    \cup [is : {"transition"}, from : Names \cup {Pseudo}, to : Names \cup {Pseudo}]
    \cup [is : {"note"}, id : Names, side : Sides, inline : BOOLEAN]
    \cup [is : {"description"}, id : Names]
    \cup [is : {"close", "endnote", "text", "unsupported"}]
    \cup BlockLines({"comment"})

Empty == [states |-> <<>>, transitions |-> <<>>, notes |-> <<>>, composites |-> <<>>,
          declared |-> {}, note |-> NoNote, skipped |-> NoBlock, outcome |-> "reading"]

Failed == [Empty EXCEPT !.outcome = "failed"]
Init   == reader = Empty

Elements(r) == Len(r.states) + Len(r.transitions) + Len(r.notes)

\* A line that was read well still fails the text when the diagram is now too large.
Reads(r) == reader' = IF Elements(r) > MaxElements THEN Failed ELSE r
Fails    == reader' = Failed

\* The composite state that is open, 0 for none.
Scope(r) == IF r.composites = <<>> THEN 0 ELSE r.composites[Len(r.composites)]

\* The states with this name, or this pseudo state of the open composite: at most one is looked for.
Found(r, id)       == {i \in 1..Len(r.states) : r.states[i].kind = "normal" /\ r.states[i].id = id}
FoundPseudo(r, kind) ==
  {i \in 1..Len(r.states) : r.states[i].kind = kind /\ r.states[i].parent = Scope(r)}
First(found)       == CHOOSE i \in found : \A j \in found : i <= j

AppendState(r, id, kind) ==
  [r EXCEPT !.states = Append(@, [id |-> id, kind |-> kind, parent |-> Scope(r), composite |-> FALSE])]

Existing(r, token, kind) == IF token = Pseudo THEN FoundPseudo(r, kind) ELSE Found(r, token)

\* The reader once the token has a state, and the index of that state.
Resolved(r, token, kind) ==
  IF Existing(r, token, kind) # {} THEN r
  ELSE AppendState(r, token, IF token = Pseudo THEN kind ELSE "normal")
IndexOf(r, token, kind) == First(Existing(Resolved(r, token, kind), token, kind))

ReadClose(line) ==
  /\ line.is = "close"
  /\ IF reader.composites = <<>> THEN Fails
     ELSE Reads([reader EXCEPT !.composites = SubSeq(@, 1, Len(@) - 1)])

ReadDeclaration(line) ==
  /\ line.is = "state"
  /\ LET r == Resolved(reader, line.id, "normal")
         i == IndexOf(reader, line.id, "normal")
     IN  IF i \in reader.declared THEN Fails
         ELSE Reads([r EXCEPT !.declared = @ \cup {i},
                              !.states[i].composite = line.opens,
                              !.composites = IF line.opens THEN Append(@, i) ELSE @])

ReadTransition(line) ==
  /\ line.is = "transition"
  /\ IF line.from = Pseudo /\ line.to = Pseudo THEN Fails
     ELSE LET r == Resolved(reader, line.from, "initial")
              s == Resolved(r, line.to, "final")
          IN  Reads([s EXCEPT !.transitions =
                       Append(@, [from |-> IndexOf(reader, line.from, "initial"),
                                  to   |-> IndexOf(r, line.to, "final")])])

HasNote(r, state, side) ==
  \/ \E n \in 1..Len(r.notes) : r.notes[n] = [state |-> state, side |-> side]
  \/ r.note = [state |-> state, side |-> side]

ReadNote(line) ==
  /\ line.is = "note"
  /\ LET found == Found(reader, line.id)
         note  == [state |-> First(found), side |-> line.side]
     IN  IF found = {} \/ HasNote(reader, First(found), line.side) THEN Fails
         ELSE IF line.inline THEN Reads([reader EXCEPT !.notes = Append(@, note)])
         ELSE Reads([reader EXCEPT !.note = note])

ReadNoteLine(line) ==
  IF line.is = "endnote"
  THEN Reads([reader EXCEPT !.note = NoNote, !.notes = Append(@, reader.note)])
  ELSE Reads(reader)

ReadDescription(line) ==
  line.is = "description" /\ Reads(Resolved(reader, line.id, "normal"))

ReadIgnored(line) == line.is = "text" /\ Reads(reader)

ReadUnsupported(line) == line.is \in {"unsupported", "endnote", "ends"} /\ Fails

StartBlock(line) == line.is = "block" /\ Reads([reader EXCEPT !.skipped = Started(line)])

ReadStatement(line) ==
  \/ StartBlock(line)
  \/ ReadClose(line)
  \/ ReadDeclaration(line)
  \/ ReadTransition(line)
  \/ ReadNote(line)
  \/ ReadDescription(line)
  \/ ReadIgnored(line)
  \/ ReadUnsupported(line)

\* What a line means depends on what is open: a skipped block, then a note, then the diagram.
ReadLine(line) ==
  /\ reader.outcome = "reading"
  /\ \/ /\ IsOpen(reader.skipped)
        /\ Reads([reader EXCEPT !.skipped = Continued(@, line)])
     \/ /\ ~IsOpen(reader.skipped) /\ reader.note # NoNote
        /\ ReadNoteLine(line)
     \/ /\ ~IsOpen(reader.skipped) /\ reader.note = NoNote
        /\ ReadStatement(line)

\* The end of the text: whatever is still open is an error, and so is a diagram without a state.
Unfinished(r) == r.note # NoNote \/ IsOpen(r.skipped) \/ r.composites # <<>> \/ r.states = <<>>

Finish ==
  /\ reader.outcome = "reading"
  /\ reader' = IF Unfinished(reader) THEN Failed ELSE [reader EXCEPT !.outcome = "parsed"]

Next == Finish \/ \E line \in Lines : ReadLine(line)

-----------------------------------------------------------------------------

\* What the layout takes for granted of a parsed diagram: every index is a state's, a name
\* stands for one state, a scope has one initial and one final state, only a declared
\* composite holds states and stands before them, a side of a state has one note.
WellFormed(r) ==
  LET all == 1..Len(r.states) IN
  /\ \A t \in 1..Len(r.transitions) :
       r.transitions[t].from \in all /\ r.transitions[t].to \in all
         /\ r.states[r.transitions[t].from].kind # "final"
         /\ r.states[r.transitions[t].to].kind # "initial"
  /\ \A i, j \in all : i # j =>
       \/ r.states[i].id # r.states[j].id
       \/ r.states[i].kind # r.states[j].kind
       \/ r.states[i].kind # "normal" /\ r.states[i].parent # r.states[j].parent
  /\ \A i \in all :
       r.states[i].parent # 0 =>
         r.states[i].parent < i /\ r.states[r.states[i].parent].composite
  /\ \A m, n \in 1..Len(r.notes) : m # n => r.notes[m] # r.notes[n]
  /\ \A n \in 1..Len(r.notes) : r.notes[n].state \in all
=============================================================================
