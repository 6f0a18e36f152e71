---------------------------- MODULE BlockParser ----------------------------
(***************************************************************************)
(* The reader of block diagrams (src/cpp/diagram/blockparser.cpp).  Unlike *)
(* a state, a block exists only from its declaration: a link or a note     *)
(* that names another block is an error.  Names are model values, labels,  *)
(* kinds and arrow heads are left out.                                     *)
(***************************************************************************)
EXTENDS SkippedBlocks, Sequences, FiniteSets

CONSTANTS Names,        \* the names a text gives to blocks
          MaxElements   \* the blocks, links and notes one diagram may have
VARIABLE reader

NoNote == [block |-> 0, side |-> "none"]
Sides  == {"left", "right"}

Lines ==
  [is : {"block of"}, id : Names, opens : BOOLEAN, database : BOOLEAN]
    \cup [is : {"link"}, from : Names, to : Names]
    \cup [is : {"note"}, id : Names, side : Sides, inline : BOOLEAN]
    \cup [is : {"close", "endnote", "text", "arrow", "unsupported"}]
    \cup BlockLines({"legend"})

Empty == [blocks |-> <<>>, links |-> <<>>, notes |-> <<>>, containers |-> <<>>,
          note |-> NoNote, skipped |-> NoBlock, outcome |-> "reading"]

Failed == [Empty EXCEPT !.outcome = "failed"]
Init   == reader = Empty

Elements(r) == Len(r.blocks) + Len(r.links) + Len(r.notes)

Reads(r) == reader' = IF Elements(r) > MaxElements THEN Failed ELSE r
Fails    == reader' = Failed

Found(r, id) == {i \in 1..Len(r.blocks) : r.blocks[i].id = id}
First(found) == CHOOSE i \in found : \A j \in found : i <= j
Scope(r)     == IF r.containers = <<>> THEN 0 ELSE r.containers[Len(r.containers)]

ReadClose(line) ==
  /\ line.is = "close"
  /\ IF reader.containers = <<>> THEN Fails
     ELSE Reads([reader EXCEPT !.containers = SubSeq(@, 1, Len(@) - 1)])

ReadDeclaration(line) ==
  /\ line.is = "block of"
  /\ LET block == [id |-> line.id, container |-> line.opens, parent |-> Scope(reader)]
     IN  IF Found(reader, line.id) # {} THEN Fails
         ELSE Reads([reader EXCEPT !.blocks = Append(@, block),
                       !.containers = IF line.opens THEN Append(@, Len(reader.blocks) + 1) ELSE @])

ReadLink(line) ==
  /\ line.is = "link"
  /\ LET from == Found(reader, line.from)
         to   == Found(reader, line.to)
     IN  IF from = {} \/ to = {} \/ First(from) = First(to) THEN Fails
         ELSE Reads([reader EXCEPT !.links = Append(@, [from |-> First(from), to |-> First(to)])])

HasNote(r, block, side) ==
  \/ \E n \in 1..Len(r.notes) : r.notes[n] = [block |-> block, side |-> side]
  \/ r.note = [block |-> block, side |-> side]

ReadNote(line) ==
  /\ line.is = "note"
  /\ LET found == Found(reader, line.id)
         note  == [block |-> First(found), side |-> line.side]
     IN  IF found = {} \/ HasNote(reader, First(found), line.side) THEN Fails
         ELSE IF line.inline THEN Reads([reader EXCEPT !.notes = Append(@, note)])
         ELSE Reads([reader EXCEPT !.note = note])

ReadNoteLine(line) ==
  IF line.is = "endnote"
  THEN Reads([reader EXCEPT !.note = NoNote, !.notes = Append(@, reader.note)])
  ELSE Reads(reader)

ReadIgnored(line)     == line.is = "text" /\ Reads(reader)
ReadUnsupported(line) == line.is \in {"unsupported", "arrow", "endnote", "ends"} /\ Fails
StartBlock(line)      == line.is = "block" /\ Reads([reader EXCEPT !.skipped = Started(line)])

ReadStatement(line) ==
  \/ StartBlock(line)
  \/ ReadClose(line)
  \/ ReadDeclaration(line)
  \/ ReadLink(line)
  \/ ReadNote(line)
  \/ ReadIgnored(line)
  \/ ReadUnsupported(line)

ReadLine(line) ==
  /\ reader.outcome = "reading"
  /\ \/ /\ IsOpen(reader.skipped)
        /\ Reads([reader EXCEPT !.skipped = Continued(@, line)])
     \/ /\ ~IsOpen(reader.skipped) /\ reader.note # NoNote
        /\ ReadNoteLine(line)
     \/ /\ ~IsOpen(reader.skipped) /\ reader.note = NoNote
        /\ ReadStatement(line)

Unfinished(r) == r.note # NoNote \/ IsOpen(r.skipped) \/ r.containers # <<>> \/ r.blocks = <<>>

Finish ==
  /\ reader.outcome = "reading"
  /\ reader' = IF Unfinished(reader) THEN Failed ELSE [reader EXCEPT !.outcome = "parsed"]

Next == Finish \/ \E line \in Lines : ReadLine(line)

-----------------------------------------------------------------------------

\* What the layout takes for granted: a name is one block, links and notes stand at blocks,
\* no block is linked to itself, a block's container is one and stands before it.
WellFormed(r) ==
  LET all == 1..Len(r.blocks) IN
  /\ \A i, j \in all : r.blocks[i].id = r.blocks[j].id => i = j
  /\ \A i \in all : r.blocks[i].parent # 0 =>
       r.blocks[i].parent < i /\ r.blocks[r.blocks[i].parent].container
  /\ \A k \in 1..Len(r.links) :
       /\ r.links[k].from \in all /\ r.links[k].to \in all
       /\ r.links[k].from # r.links[k].to
  /\ \A m, n \in 1..Len(r.notes) : m # n => r.notes[m] # r.notes[n]
  /\ \A n \in 1..Len(r.notes) : r.notes[n].block \in all
=============================================================================
