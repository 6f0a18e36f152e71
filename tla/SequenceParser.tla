-------------------------- MODULE SequenceParser ---------------------------
(***************************************************************************)
(* The reader of sequence diagrams (src/cpp/diagram/sequenceparser.cpp).   *)
(* A participant exists from the first line that names it.  A solid        *)
(* message is a call; "return" answers the latest call that nothing        *)
(* answered.  Names are model values, labels and colours are left out.     *)
(***************************************************************************)
EXTENDS SkippedBlocks, Sequences, FiniteSets

CONSTANTS Names,     \* the names a text gives to participants
          MaxSteps   \* the steps one diagram may have
VARIABLE reader

Places == {"left", "right", "over"}
None   == "none"    \* a note that names no participant, or one only
NoMessage == [from |-> 0, to |-> 0, dashed |-> FALSE]
NoNote    == [first |-> 0, last |-> 0]

Lines ==
  [is : {"participant"}, id : Names, database : BOOLEAN]
    \cup [is : {"message"}, left : Names, right : Names, reversed : BOOLEAN, dashed : BOOLEAN]
    \cup [is : {"note"}, place : Places, id : Names \cup {None}, second : Names \cup {None},
          inline : BOOLEAN]
    \cup [is : {"return", "group", "else", "end", "divider", "endnote", "close", "text", "unknown"}]
    \cup BlockLines({"skinparam"})

Empty == [participants |-> <<>>, steps |-> <<>>, last |-> NoMessage, calls |-> <<>>, groups |-> 0,
          note |-> NoNote, skipped |-> NoBlock, outcome |-> "reading"]

Failed == [Empty EXCEPT !.outcome = "failed"]
Init   == reader = Empty

Reads(r) == reader' = IF Len(r.steps) > MaxSteps THEN Failed ELSE r
Fails    == reader' = Failed

Named(r, id) == {i \in 1..Len(r.participants) : r.participants[i] = id}

\* The reader once the participant is known, and its index.
Known(r, id)   == IF Named(r, id) # {} THEN r ELSE [r EXCEPT !.participants = Append(@, id)]
IndexOf(r, id) == CHOOSE i \in Named(Known(r, id), id) : TRUE

ReadParticipant(line) == line.is = "participant" /\ Reads(Known(reader, line.id))

Top(calls) == calls[Len(calls)]
Pop(calls) == SubSeq(calls, 1, Len(calls) - 1)

\* The calls that wait for an answer: a solid message adds one, a dashed message the other
\* way between the same two participants takes the latest off.
TrackCall(calls, message) ==
  IF message.from = message.to THEN calls
  ELSE IF ~message.dashed THEN Append(calls, message)
  ELSE IF calls # <<>> /\ Top(calls).from = message.to /\ Top(calls).to = message.from
       THEN Pop(calls) ELSE calls

AppendMessage(r, message) ==
  [r EXCEPT !.steps = Append(@, [is |-> "message", from |-> message.from, to |-> message.to,
                                 dashed |-> message.dashed]),
            !.last = message]

ReadMessage(line) ==
  /\ line.is = "message"
  /\ LET left    == IndexOf(reader, line.left)
         r       == Known(reader, line.left)
         right   == IndexOf(r, line.right)
         message == [from |-> IF line.reversed THEN right ELSE left,
                     to   |-> IF line.reversed THEN left ELSE right, dashed |-> line.dashed]
         s       == Known(r, line.right)
     IN  Reads(AppendMessage([s EXCEPT !.calls = TrackCall(@, message)], message))

ReadReturn(line) ==
  /\ line.is = "return"
  /\ IF reader.calls = <<>> THEN Fails
     ELSE LET call == Top(reader.calls)
          IN  Reads(AppendMessage([reader EXCEPT !.calls = Pop(@)],
                      [from |-> call.to, to |-> call.from, dashed |-> TRUE]))

Smaller(a, b) == IF a < b THEN a ELSE b
Larger(a, b)  == IF a > b THEN a ELSE b
NoteStep(note) == [is |-> "note", first |-> note.first, last |-> note.last]

PutNote(r, note, inline) ==
  IF inline THEN Reads([r EXCEPT !.steps = Append(@, NoteStep(note))])
  ELSE Reads([r EXCEPT !.note = note])

\* A note that names nobody stands at the participants of the last message.
NoteAtLastMessage(line) ==
  LET low  == Smaller(reader.last.from, reader.last.to)
      high == Larger(reader.last.from, reader.last.to)
  IN  IF reader.last = NoMessage THEN Fails
      ELSE PutNote(reader, [first |-> IF line.place = "right" THEN high ELSE low,
                            last  |-> IF line.place = "left" THEN low ELSE high], line.inline)

NoteAtParticipants(line) ==
  LET r      == Known(reader, line.id)
      first  == IndexOf(reader, line.id)
      second == IndexOf(r, line.second)
  IN  IF line.second = None THEN PutNote(r, [first |-> first, last |-> first], line.inline)
      ELSE IF line.place # "over" THEN Fails
      ELSE PutNote(Known(r, line.second),
                   [first |-> Smaller(first, second), last |-> Larger(first, second)], line.inline)

ReadNote(line) ==
  /\ line.is = "note"
  /\ line.id = None => line.second = None
  /\ IF line.id = None THEN NoteAtLastMessage(line) ELSE NoteAtParticipants(line)

ReadNoteLine(line) ==
  IF line.is = "endnote"
  THEN Reads([reader EXCEPT !.note = NoNote, !.steps = Append(@, NoteStep(reader.note))])
  ELSE Reads(reader)

Step(name) == [is |-> name]

ReadGroupStart(line) ==
  line.is = "group" /\ Reads([reader EXCEPT !.steps = Append(@, Step("start")), !.groups = @ + 1])

ReadGroupElse(line) ==
  /\ line.is = "else"
  /\ IF reader.groups = 0 THEN Fails
     ELSE Reads([reader EXCEPT !.steps = Append(@, Step("else"))])

\* Mutant: an "end" that closes no group is read.
ReadGroupEndAnywhere(line) ==
  line.is = "end" /\ Reads([reader EXCEPT !.steps = Append(@, Step("end")), !.groups = @ - 1])

ReadGroupEnd(line) ==
  /\ line.is = "end"
  /\ IF reader.groups = 0 THEN Fails
     ELSE Reads([reader EXCEPT !.steps = Append(@, Step("end")), !.groups = @ - 1])

ReadDivider(line) ==
  line.is = "divider" /\ Reads([reader EXCEPT !.steps = Append(@, Step("divider"))])

ReadIgnored(line) == line.is = "text" /\ Reads(reader)
StartBlock(line)  == line.is = "block" /\ Reads([reader EXCEPT !.skipped = Started(line)])
ReadUnknown(line) == line.is \in {"unknown", "endnote", "close", "ends"} /\ Fails

ReadStatement(line) ==
  \/ ReadMessage(line)
  \/ StartBlock(line)
  \/ ReadDivider(line)
  \/ ReadParticipant(line)
  \/ ReadReturn(line)
  \/ ReadNote(line)
  \/ ReadGroupStart(line)
  \/ ReadGroupElse(line)
  \/ ReadGroupEnd(line)
  \/ ReadIgnored(line)
  \/ ReadUnknown(line)

ReadLine(line) ==
  /\ reader.outcome = "reading"
  /\ \/ /\ IsOpen(reader.skipped)
        /\ Reads([reader EXCEPT !.skipped = Continued(@, line)])
     \/ /\ ~IsOpen(reader.skipped) /\ reader.note # NoNote
        /\ ReadNoteLine(line)
     \/ /\ ~IsOpen(reader.skipped) /\ reader.note = NoNote
        /\ ReadStatement(line)

Unfinished(r) == r.note # NoNote \/ IsOpen(r.skipped) \/ r.groups > 0 \/ r.participants = <<>>

Finish ==
  /\ reader.outcome = "reading"
  /\ reader' = IF Unfinished(reader) THEN Failed ELSE [reader EXCEPT !.outcome = "parsed"]

Next == Finish \/ \E line \in Lines : ReadLine(line)

-----------------------------------------------------------------------------

\* How many steps of this name there are up to step n.
Count(r, name, n) == Cardinality({k \in 1..n : r.steps[k].is = name})

\* What the layout takes for granted: messages and notes stand at participants, a note's
\* first is not after its last, every name is one participant, the groups nest: no end or
\* else before a start that it belongs to, and none left open.
WellFormed(r) ==
  LET all   == 1..Len(r.participants)
      steps == 1..Len(r.steps)
  IN
  /\ \A i, j \in all : r.participants[i] = r.participants[j] => i = j
  /\ \A k \in steps :
       /\ r.steps[k].is = "message" => r.steps[k].from \in all /\ r.steps[k].to \in all
       /\ r.steps[k].is = "note" => /\ r.steps[k].first \in all /\ r.steps[k].last \in all
                                    /\ r.steps[k].first <= r.steps[k].last
       /\ Count(r, "end", k) <= Count(r, "start", k)
       /\ r.steps[k].is = "else" => Count(r, "end", k) < Count(r, "start", k)
  /\ Count(r, "start", Len(r.steps)) = Count(r, "end", Len(r.steps))
=============================================================================
