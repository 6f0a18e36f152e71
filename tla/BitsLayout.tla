----------------------------- MODULE BitsLayout -----------------------------
(***************************************************************************)
(* How the bits of a register, or the bytes of a memory, are drawn         *)
(* (src/cpp/diagram/bitslayout.cpp, and the wrapping of texts in           *)
(* layoutsupport.cpp): rows of cells, a field cut into pieces where a row  *)
(* ends, and texts in the first piece, below it, or in notes when there is *)
(* no room.  The diagram grows span by span, as BitsParser accepts them.   *)
(* Sizes are whole numbers; a text is the widths of its words.  Heights,   *)
(* colours and the title are left out.                                     *)
(***************************************************************************)
EXTENDS Integers, Sequences, FiniteSets, SequencesExt

CONSTANT MaxFields   \* the spans of a diagram

VARIABLE bits

Widths      == [bits |-> {3, 6}, bytes |-> {2}]   \* of a register, of a row of memory
HighestByte == 4
RowBits     == <<4, 2>>         \* 32, 16 and 8 in the program
MinCell     == 2
MaxCell     == 4
OffsetWidth == 2                \* the column of the offsets of a memory
Padding     == 1
Inset       == 1
Continued   == 2                \* the width of "(cont.)"
MinWrap     == 2
MostLines   == 3                \* kMostDescriptionLines
ContentWidths == {4, 8, 13, 24}

Labels       == {<<1>>, <<3, 2>>}
Descriptions == {<<>>, <<2, 1, 2>>, <<4, 1>>}

Init ==
  \E mode \in {"bits", "bytes"} : \E width \in Widths[mode] :
    bits = [mode |-> mode, width |-> width, spans |-> <<>>]

InBits == bits.mode = "bits"

AddSpan(low, high, kind, label, description) ==
  /\ Len(bits.spans) < MaxFields
  /\ low <= high /\ high <= (IF InBits THEN bits.width - 1 ELSE HighestByte)
  /\ \A i \in DOMAIN bits.spans : high < bits.spans[i].low \/ bits.spans[i].high < low
  /\ kind = "pad" => label = <<1>> /\ description = <<>>
  /\ bits' = [bits EXCEPT !.spans =
       Append(@, [low |-> low, high |-> high, kind |-> kind, label |-> label, description |-> description])]

Next ==
  \E low, high \in 0..5, kind \in {"field", "pad"}, label \in Labels, description \in Descriptions :
    AddSpan(low, high, kind, label, description)

-----------------------------------------------------------------------------
\* Texts.

WidthOf(words) == FoldLeft(LAMBDA sum, word : sum + word, Len(words) - 1, words)
Widest(words)  == FoldLeft(LAMBDA most, word : IF word > most THEN word ELSE most, 0, words)

\* A word wider than the limit is broken where the limit is; its rest opens a line.
BreakLongWord(word, limit) ==
  [i \in 1..((word + limit - 1) \div limit) |->
     <<IF i * limit <= word THEN limit ELSE word - (i - 1) * limit>>]

\* One paragraph: a word goes to the line before it if there is room.
Wrap(words, maxWidth) ==
  LET limit == IF maxWidth > MinWrap THEN maxWidth ELSE MinWrap
      Add(lines, word) ==
        IF lines # <<>> /\ WidthOf(Append(Last(lines), word)) <= limit
        THEN Append(Front(lines), Append(Last(lines), word))
        ELSE lines \o BreakLongWord(word, limit)
  IN  FoldLeft(Add, <<>>, words)

FitsInside(words, width) == WidthOf(words) <= width - Padding

-----------------------------------------------------------------------------
\* Units and columns.

\* The memory is drawn to the end of the row of its last byte.
UnitCount ==
  IF InBits THEN bits.width
  ELSE LET last == FoldLeft(LAMBDA most, span : IF span.high > most THEN span.high ELSE most, -1, bits.spans)
       IN  ((last + bits.width) \div bits.width) * bits.width

\* The span of a unit, 0 if it is of none.
Owner(unit) ==
  LET owners == {i \in DOMAIN bits.spans : unit \in bits.spans[i].low..bits.spans[i].high}
  IN  IF owners = {} THEN 0 ELSE CHOOSE i \in owners : TRUE

\* The whole register in a row if its cells can be read, or the first number of bits that can;
\* if none can, the smallest.
BitColumns(contentWidth) ==
  LET candidates == <<bits.width>> \o SelectSeq(RowBits, LAMBDA rowBits : rowBits < bits.width)
      readable   == SelectSeq(candidates, LAMBDA columns : contentWidth \div columns >= MinCell)
  IN  IF readable # <<>> THEN Head(readable) ELSE Last(candidates)

Columns(contentWidth) == IF InBits THEN BitColumns(contentWidth) ELSE bits.width

CellWidth(contentWidth) ==
  LET fitting == (contentWidth - (IF InBits THEN 0 ELSE OffsetWidth)) \div Columns(contentWidth)
  IN  IF fitting < MinCell THEN MinCell ELSE IF fitting > MaxCell THEN MaxCell ELSE fitting

SpanStart(span) == IF InBits THEN bits.spans[span].high ELSE bits.spans[span].low
SpanEnd(span)   == IF InBits THEN bits.spans[span].low ELSE bits.spans[span].high

ColumnOf(unit, bottom, columns) == IF InBits THEN columns - 1 - (unit - bottom) ELSE unit - bottom

Piece(owner, row, left, right, bottom, columns) ==
  [span |-> owner, row |-> row, left |-> left, right |-> right,
   firstColumn |-> ColumnOf(left, bottom, columns), lastColumn |-> ColumnOf(right, bottom, columns),
   kind |-> IF owner # 0 THEN bits.spans[owner].kind ELSE IF InBits THEN "reserved" ELSE "unknown",
   continuesBefore |-> owner # 0 /\ left # SpanStart(owner),
   continuesAfter  |-> owner # 0 /\ right # SpanEnd(owner)]

\* The units of a row from left to right, neighbours of the same owner in one piece.
AppendPieces(pieces, row, units, bottom, columns) ==
  LET Add(found, unit) ==
        IF found # <<>> /\ Last(found).row = row /\ Last(found).span = Owner(unit)
        THEN Append(Front(found), Piece(Owner(unit), row, Last(found).left, unit, bottom, columns))
        ELSE Append(found, Piece(Owner(unit), row, unit, unit, bottom, columns))
  IN  FoldLeft(Add, pieces, units)

\* Bits are numbered from the right and from below, bytes as one reads.
Arrange(columns) ==
  LET rows == (UnitCount + columns - 1) \div columns
      AddRow(pieces, row) ==
        LET bottom == (IF InBits THEN rows - row ELSE row - 1) * columns
            top    == IF bottom + columns < UnitCount THEN bottom + columns - 1 ELSE UnitCount - 1
            units  == [i \in 1..(top - bottom + 1) |-> IF InBits THEN top - (i - 1) ELSE bottom + i - 1]
        IN  AppendPieces(pieces, row - 1, units, bottom, columns)
  IN  FoldLeft(AddRow, <<>>, [row \in 1..rows |-> row])

-----------------------------------------------------------------------------
\* The texts of the pieces.

Nothing == [words |-> <<>>, muted |-> FALSE]

InsideFirst(label, width) == IF FitsInside(label, width) THEN [words |-> label, muted |-> FALSE] ELSE Nothing

InsideLater(label, width) ==
  LET candidates == SelectSeq(<<Append(label, Continued), <<Continued>>>>,
                              LAMBDA candidate : FitsInside(candidate, width))
  IN  [words |-> IF candidates = <<>> THEN <<>> ELSE Head(candidates), muted |-> TRUE]

\* A description is shown below when no word is broken and there are few lines.
Below(description, width) ==
  LET room    == width - 2 * Inset
      wrapped == Wrap(description, room)
  IN  IF description # <<>> /\ Widest(description) <= room /\ Len(wrapped) <= MostLines THEN wrapped ELSE <<>>

\* What each piece shows, and what of its span the notes have to.
DecideTexts(pieces, cell) ==
  [i \in 1..Len(pieces) |->
     LET piece == pieces[i]
         width == (piece.lastColumn - piece.firstColumn + 1) * cell
         first == \A earlier \in 1..(i - 1) : pieces[earlier].span # piece.span
     IN  IF piece.kind # "field" THEN [inside |-> Nothing, below |-> <<>>, lists |-> FALSE, describes |-> FALSE]
         ELSE LET span   == bits.spans[piece.span]
                  inside == IF first THEN InsideFirst(span.label, width) ELSE InsideLater(span.label, width)
                  below  == IF first THEN Below(span.description, width) ELSE <<>>
              IN  [inside |-> inside, below |-> below,
                   lists     |-> first /\ inside = Nothing,
                   describes |-> first /\ span.description # <<>> /\ below = <<>>]]

SpansInReadingOrder ==
  SortSeq([i \in 1..Len(bits.spans) |-> i],
          LAMBDA one, other : IF InBits THEN bits.spans[one].high > bits.spans[other].high
                              ELSE bits.spans[one].low < bits.spans[other].low)

\* A note has the label, and the description too if that was not shown.
ListedNotes(pieces, texts) ==
  LET Asks(span, what) == \E i \in DOMAIN pieces : pieces[i].span = span /\ texts[i][what]
      listed == SelectSeq(SpansInReadingOrder, LAMBDA span : Asks(span, "lists") \/ Asks(span, "describes"))
  IN  [n \in 1..Len(listed) |-> [span |-> listed[n], describes |-> Asks(listed[n], "describes")]]

\* The numbers above a piece of a register: those of its ends.
Numbers(piece) ==
  IF InBits THEN {<<piece.firstColumn, piece.left>>, <<piece.lastColumn, piece.right>>} ELSE {}

\* The edges of a field: dashed where it goes on in another row.
DashedEdges(piece) ==
  (IF piece.continuesBefore THEN {"left"} ELSE {}) \cup (IF piece.continuesAfter THEN {"right"} ELSE {})

\* The offset at the left of a row of bytes.
OffsetOf(row) == row * bits.width

-----------------------------------------------------------------------------

\* As one reads, every unit is drawn once, the bits downwards and the bytes upwards; bits that
\* stand above one another differ by whole rows, and the offset is that of the first byte.
UnitsAreInOrder(pieces, columns) ==
  LET UnitsOf(piece) ==
        [i \in 1..(piece.lastColumn - piece.firstColumn + 1) |->
           IF InBits THEN piece.left - (i - 1) ELSE piece.left + i - 1]
      units == FlattenSeq([i \in 1..Len(pieces) |-> UnitsOf(pieces[i])])
  IN  /\ units = [i \in 1..UnitCount |-> IF InBits THEN UnitCount - i ELSE i - 1]
      /\ \A i \in DOMAIN pieces : \A number \in Numbers(pieces[i]) :
           number[1] = columns - 1 - (number[2] % columns)
      /\ \A i \in DOMAIN pieces : pieces[i].firstColumn = 0 /\ ~InBits => pieces[i].left = OffsetOf(pieces[i].row)

\* A piece has a dashed edge exactly where another piece of its span comes before or after it,
\* which is at the other end of the next row.
PiecesContinue(pieces) ==
  \A i \in DOMAIN pieces :
    LET same == {j \in DOMAIN pieces : pieces[i].span # 0 /\ pieces[j].span = pieces[i].span}
    IN  /\ "left" \in DashedEdges(pieces[i]) <=> \E j \in same : j < i
        /\ "right" \in DashedEdges(pieces[i]) <=> \E j \in same : j > i
        /\ \A j \in same : j > i => pieces[j].row > pieces[i].row
        /\ "right" \in DashedEdges(pieces[i])
             => i + 1 \in same /\ pieces[i + 1].row = pieces[i].row + 1

\* The label and the description of every field are shown, and once: in or at its first piece, or
\* in the notes.  What is shown in a piece fits it, and no word of a description is broken.
TextsAreShownOnce(pieces, texts, notes, cell) ==
  /\ \A span \in DOMAIN bits.spans :
       LET own    == {i \in DOMAIN pieces : pieces[i].span = span}
           inside == {i \in own : texts[i].inside.words # <<>> /\ ~texts[i].inside.muted}
           below  == {i \in own : texts[i].below # <<>>}
           noted  == {n \in DOMAIN notes : notes[n].span = span}
       IN  /\ Cardinality(noted) <= 1
           /\ bits.spans[span].kind = "pad" => inside \cup below \cup noted = {}
           /\ bits.spans[span].kind = "field" =>
                /\ inside # {} \/ noted # {}
                /\ inside # {} => \A n \in noted : notes[n].describes
                /\ \A i \in inside \cup below : \A j \in own : i <= j
                /\ bits.spans[span].description # <<>> =>
                     (below # {}) # (\E n \in noted : notes[n].describes)
  /\ \A i, j \in DOMAIN notes : i < j => (SpanStart(notes[i].span) > SpanStart(notes[j].span)) = InBits
  /\ \A i \in DOMAIN pieces :
       LET width == (pieces[i].lastColumn - pieces[i].firstColumn + 1) * cell
       IN  /\ texts[i].inside.words # <<>> => WidthOf(texts[i].inside.words) < width
           /\ \A line \in ToSet(texts[i].below) : WidthOf(line) < width
           /\ texts[i].below # <<>> => FlattenSeq(texts[i].below) = bits.spans[pieces[i].span].description

\* A text wrapped at any width keeps its words, and no line is too wide; only a word that is too
\* wide itself is broken.
WrapsItsWords(words) ==
  \A limit \in MinWrap..6 :
    LET lines == Wrap(words, limit)
    IN  /\ \A i \in DOMAIN lines : WidthOf(lines[i]) <= limit
        /\ FoldLeft(LAMBDA sum, word : sum + word, 0, FlattenSeq(lines)) = FoldLeft(LAMBDA sum, word : sum + word, 0, words)
        /\ Widest(words) <= limit => FlattenSeq(lines) = words
        /\ \A i \in 1..(Len(lines) - 1) : WidthOf(Append(lines[i], Head(lines[i + 1]))) > limit

BitsAreDrawn ==
  /\ \A contentWidth \in ContentWidths :
       LET columns == Columns(contentWidth)
           cell    == CellWidth(contentWidth)
           pieces  == Arrange(columns)
           texts   == DecideTexts(pieces, cell)
       IN  /\ UnitsAreInOrder(pieces, columns)
           /\ PiecesContinue(pieces)
           /\ TextsAreShownOnce(pieces, texts, ListedNotes(pieces, texts), cell)
  /\ \A i \in DOMAIN bits.spans : WrapsItsWords(bits.spans[i].description)
=============================================================================
