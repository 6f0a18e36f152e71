-------------------------- MODULE ActivityParser ---------------------------
(***************************************************************************)
(* The reader of activity diagrams (src/cpp/diagram/activityparser.cpp).   *)
(* The open blocks are a stack of frames; closing one puts it, with its    *)
(* branches, into the block of the frame below.  Elements are numbered as  *)
(* they are made, and a block holds their numbers.  A connector's label    *)
(* waits for the next element.  An action's text runs until a line that    *)
(* ends in a terminator, whatever statement that line looks like.          *)
(***************************************************************************)
EXTENDS SkippedBlocks, Sequences, FiniteSets

CONSTANT MaxElements   \* the elements one diagram may have
VARIABLE reader

Nested == {"if", "while", "repeat", "fork", "partition"}

Lines ==
  [is : {"action", "repeat action"}, closed : BOOLEAN]
    \cup [is : {"flow"}, ends : {"start", "stop", "detach"}]
    \cup [is : {"note"}, inline : BOOLEAN]
    \cup [is : {"partition"}, opens : {TRUE}]
    \cup [is : {"connector", "if", "elseif", "else", "endif", "while", "endwhile", "repeat",
                "repeat while", "fork", "again", "endfork", "close", "endnote", "text",
                "unsupported"}]
    \cup BlockLines({"skinparam"})

Element(is, label, blocks, else) ==
  [is |-> is, label |-> label, note |-> FALSE, blocks |-> blocks, else |-> else]
Frame(kind, label) ==
  [kind |-> kind, label |-> label, block |-> <<>>, done |-> <<>>, else |-> FALSE]

Empty == [frames |-> <<Frame("root", FALSE)>>, elements |-> <<>>, count |-> 0,
          pending |-> FALSE, previous |-> "other", action |-> FALSE, note |-> FALSE,
          skipped |-> NoBlock, outcome |-> "reading"]

Failed == [Empty EXCEPT !.outcome = "failed"]
Init   == reader = Empty

Reads(r) == reader' = IF r.count > MaxElements THEN Failed ELSE r
Fails    == reader' = Failed

Depth(r)    == Len(r.frames)
Top(r)      == r.frames[Depth(r)]
IsTop(kind) == Top(reader).kind = kind

\* A statement other than an action, a note or a text line is the "previous" one of no note.
Statement == [reader EXCEPT !.previous = "other"]
Discarded(r) == [r EXCEPT !.pending = FALSE]

\* The element that is made now, and its number at the end of a block.
Numbered(r, block) == Append(block, Len(r.elements) + 1)

Appended(r, is) ==
  [r EXCEPT !.elements = Append(@, Element(is, r.pending, <<>>, FALSE)),
            !.frames[Depth(r)].block = Numbered(r, @),
            !.pending = FALSE, !.count = @ + 1]

Opened(r, kind) ==
  [r EXCEPT !.frames = Append(@, Frame(kind, r.pending)), !.pending = FALSE, !.count = @ + 1]

\* The block being read becomes a branch of its frame, and the next branch begins.
NextBranch(r, else) ==
  [Discarded(r) EXCEPT !.frames[Depth(r)] =
     [Top(r) EXCEPT !.done = Append(Top(r).done, Top(r).block), !.block = <<>>, !.else = else]]

\* The frame on top goes, with its last block, to the end of the block below.
Closed(r) ==
  LET top   == Top(r)
      below == SubSeq(r.frames, 1, Depth(r) - 1)
  IN  [r EXCEPT !.elements = Append(@, Element(top.kind, top.label, Append(top.done, top.block), top.else)),
                !.frames = [below EXCEPT ![Depth(r) - 1].block = Numbered(r, @)]]

ReadConnector(line) ==
  line.is = "connector" /\ Reads([Statement EXCEPT !.pending = TRUE])

ReadUnsupported(line) == line.is \in {"unsupported", "endnote", "ends"} /\ Fails

\* Mutant: a note after the end of a flow is taken for one of the action before it.
ReadFlowEndAsPartOfTheAction(line) == line.is = "flow" /\ Reads(Appended(reader, line.ends))

ReadFlowEnd(line) == line.is = "flow" /\ Reads(Appended(Statement, line.ends))

\* The text of an action ends with this line.
Terminates(line) ==
  \/ line.is \in {"connector", "close"}
  \/ line.is \in {"action", "repeat action", "block"} /\ line.closed

ActionLine(r, line) ==
  IF Terminates(line)
  THEN [Appended([r EXCEPT !.action = FALSE], "action") EXCEPT !.previous = "action"]
  ELSE [r EXCEPT !.action = TRUE]

ReadAction(line)     == line.is = "action" /\ Reads(ActionLine(Statement, line))
ReadActionLine(line) == Reads(ActionLine(reader, line))

ReadIf(line)   == line.is = "if" /\ Reads(Opened(Statement, "if"))
ReadElse(line) ==
  /\ line.is \in {"elseif", "else"}
  /\ IF ~IsTop("if") \/ Top(reader).else THEN Fails
     ELSE Reads(NextBranch(Statement, line.is = "else"))
\* A label that waits is not discarded here: the element after the if takes it.
ReadEndIf(line) ==
  line.is = "endif" /\ IF IsTop("if") THEN Reads(Closed(Statement)) ELSE Fails

ReadWhile(line)    == line.is = "while" /\ Reads(Opened(Statement, "while"))
ReadEndWhile(line) ==
  line.is = "endwhile" /\ IF IsTop("while") THEN Reads(Closed(Discarded(Statement))) ELSE Fails

ReadRepeat(line) ==
  \/ line.is = "repeat" /\ Reads(Opened(Statement, "repeat"))
  \/ line.is = "repeat action" /\ Reads(ActionLine(Opened(Statement, "repeat"), line))
ReadRepeatWhile(line) ==
  line.is = "repeat while" /\ IF IsTop("repeat") THEN Reads(Closed(Discarded(Statement))) ELSE Fails

ReadFork(line)  == line.is = "fork" /\ Reads(Opened(Statement, "fork"))
ReadAgain(line) ==
  line.is = "again" /\ IF IsTop("fork") THEN Reads(NextBranch(Statement, FALSE)) ELSE Fails
ReadEndFork(line) ==
  line.is = "endfork" /\ IF IsTop("fork") THEN Reads(Closed(Discarded(Statement))) ELSE Fails

ReadPartition(line) == line.is = "partition" /\ Reads(Opened(Statement, "partition"))
ReadEndPartition(line) ==
  line.is = "close" /\ IF IsTop("partition") THEN Reads(Closed(Discarded(Statement))) ELSE Fails

\* The note goes to the last element of the block: the action the reader has just read.
LastOf(block) == block[Len(block)]

Attached(r) ==
  [r EXCEPT !.elements[LastOf(Top(r).block)].note = TRUE, !.previous = "note", !.note = FALSE]

ReadNote(line) ==
  /\ line.is = "note"
  /\ IF reader.previous # "action" THEN Fails
     ELSE IF line.inline THEN Reads(Attached(reader))
     ELSE Reads([Statement EXCEPT !.note = TRUE])

ReadNoteLine(line) == IF line.is = "endnote" THEN Reads(Attached(reader)) ELSE Reads(reader)

ReadIgnored(line) == line.is = "text" /\ Reads(reader)
StartBlock(line)  == line.is = "block" /\ Reads([reader EXCEPT !.skipped = Started(line)])

ReadStatement(line) ==
  \/ StartBlock(line)
  \/ ReadConnector(line)
  \/ ReadUnsupported(line)
  \/ ReadFlowEnd(line)
  \/ ReadAction(line)
  \/ ReadIf(line)
  \/ ReadElse(line)
  \/ ReadEndIf(line)
  \/ ReadWhile(line)
  \/ ReadEndWhile(line)
  \/ ReadRepeat(line)
  \/ ReadRepeatWhile(line)
  \/ ReadFork(line)
  \/ ReadAgain(line)
  \/ ReadEndFork(line)
  \/ ReadPartition(line)
  \/ ReadEndPartition(line)
  \/ ReadNote(line)
  \/ ReadIgnored(line)

\* What a line means depends on what is open: a block, an action, a note, then the diagram.
ReadLine(line) ==
  /\ reader.outcome = "reading"
  /\ \/ /\ IsOpen(reader.skipped)
        /\ Reads([reader EXCEPT !.skipped = Continued(@, line)])
     \/ /\ ~IsOpen(reader.skipped) /\ reader.action
        /\ ReadActionLine(line)
     \/ /\ ~IsOpen(reader.skipped) /\ ~reader.action /\ reader.note
        /\ ReadNoteLine(line)
     \/ /\ ~IsOpen(reader.skipped) /\ ~reader.action /\ ~reader.note
        /\ ReadStatement(line)

Unfinished(r) == r.action \/ r.note \/ IsOpen(r.skipped) \/ Depth(r) > 1 \/ r.count = 0

Finish ==
  /\ reader.outcome = "reading"
  /\ reader' = IF Unfinished(reader) THEN Failed
               ELSE [Discarded(reader) EXCEPT !.outcome = "parsed"]

Next == Finish \/ \E line \in Lines : ReadLine(line)

-----------------------------------------------------------------------------

\* The blocks of an element, and as those of element 0 the body of the diagram; the places of
\* all blocks and what stands there.
BlocksOf(r, k) == IF k = 0 THEN <<r.frames[1].block>> ELSE r.elements[k].blocks
Places(r) ==
  UNION {UNION {{<<k, b, i>> : i \in 1..Len(BlocksOf(r, k)[b])} : b \in 1..Len(BlocksOf(r, k))} :
           k \in 0..Len(r.elements)}
At(r, place) == BlocksOf(r, place[1])[place[2]][place[3]]

\* Every element stands in one place, and what stands in an element was made before it.
IsTree(r) ==
  /\ \A e \in 1..Len(r.elements) : \E place \in Places(r) : At(r, place) = e
  /\ \A one, other \in Places(r) : At(r, one) = At(r, other) => one = other
  /\ \A place \in Places(r) :
       At(r, place) \in 1..Len(r.elements) /\ (place[1] # 0 => At(r, place) < place[1])

\* What the layout takes for granted of the tree: only actions carry notes, only nested
\* elements have blocks and each has one (an if and a fork: one a branch), an else is not
\* the only branch, and every element that was counted is in the tree exactly once.
WellFormed(r) ==
  /\ Len(r.elements) = r.count
  /\ IsTree(r)
  /\ \A k \in 1..Len(r.elements) :
       LET element == r.elements[k] IN
       /\ element.note => element.is = "action"
       /\ (element.blocks # <<>>) <=> (element.is \in Nested)
       /\ Len(element.blocks) > 1 => element.is \in {"if", "fork"}
       /\ element.else => element.is = "if" /\ Len(element.blocks) > 1

\* While the text is read, a note always has an action to go to.
NoteHasAction(r) ==
  r.outcome = "reading" /\ (r.note \/ r.previous = "action") =>
    /\ Top(r).block # <<>>
    /\ r.elements[LastOf(Top(r).block)].is = "action"
=============================================================================
