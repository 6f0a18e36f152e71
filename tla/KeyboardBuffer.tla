--------------------------- MODULE KeyboardBuffer ---------------------------
(***************************************************************************)
(* The text behind an on-screen keyboard (src/qml/themed/keyboardbuffer):  *)
(* a text and its cursor, the shift key, and a composition, the character  *)
(* or word that the next key may still replace.  A text is a sequence of   *)
(* UTF-16 units: a small letter, one whose capital is two letters, their   *)
(* capitals, a blank and the halves of a surrogate pair.  "view" is what   *)
(* the field last read of the composition, when it was told to; "around"   *)
(* remembers the text on both sides of where the composition began, and    *)
(* "split" that a caller has put the cursor inside a pair.                 *)
(***************************************************************************)
EXTENDS Integers, Sequences, SequencesExt

CONSTANT MaxLength   \* the units of a text

VARIABLE buffer

Pair   == <<"high", "low">>
Keys   == {<<"a">>, <<"sharp s">>, <<" ">>, Pair}
Groups == {<<<<"a">>, <<"sharp s">>, <<"b">>>>, <<Pair, <<"a">>>>}
Words  == {<<>>, <<"a">>, <<"sharp s", "a">>, <<"a", "b">>}

ToUpper(text) ==
  FlattenSeq([i \in 1..Len(text) |->
    CASE text[i] = "a" -> <<"A">> [] text[i] = "b" -> <<"B">> [] text[i] = "sharp s" -> <<"S", "S">>
      [] OTHER -> <<text[i]>>])

Left(text, n) == SubSeq(text, 1, IF n < Len(text) THEN n ELSE Len(text))
Mid(text, n)  == SubSeq(text, n + 1, Len(text))
Replace(text, at, length, by) == Left(text, at) \o by \o Mid(text, at + length)

NoView == [composing |-> FALSE, start |-> 0, length |-> 0]

Init ==
  buffer = [text |-> <<>>, cursor |-> 0, shift |-> "Off", composition |-> <<>>, index |-> 1, start |-> 0,
            upper |-> FALSE, word |-> FALSE, wordShift |-> "Off",
            view |-> NoView,
            around |-> [left |-> <<>>, right |-> <<>>], split |-> FALSE]

-----------------------------------------------------------------------------

UpperCase(b) == b.shift # "Off"
Composing(b) == b.composition # <<>> \/ b.word
CompositionStart(b)  == IF Composing(b) THEN b.start ELSE b.cursor
CompositionLength(b) == IF Composing(b) THEN b.cursor - b.start ELSE 0

\* compositionChanged: the field reads the composition, when there is one.
CompositionChanged(b) ==
  [b EXCEPT !.view = IF ~Composing(b) THEN NoView
                     ELSE [composing |-> TRUE, start |-> CompositionStart(b), length |-> CompositionLength(b)]]

\* What a composition leaves behind is set anew before it is read again, the model clears it.
Settled(b) ==
  [b EXCEPT !.composition = <<>>, !.index = 1, !.word = FALSE, !.start = 0, !.upper = FALSE, !.wordShift = "Off",
            !.around = [left |-> <<>>, right |-> <<>>]]
CommitComposition(b) == IF Composing(b) THEN CompositionChanged(Settled(b)) ELSE b

PlaceCursor(b, position) ==
  [b EXCEPT !.cursor = IF position < 0 THEN 0 ELSE IF position > Len(b.text) THEN Len(b.text) ELSE position]
Apply(b, text, position) == PlaceCursor([b EXCEPT !.text = text], position)

SpendShift(b) == [b EXCEPT !.shift = IF @ = "Once" THEN "Off" ELSE @]

IsPairAt(text, i) == i >= 1 /\ i + 1 <= Len(text) /\ text[i] = "high" /\ text[i + 1] = "low"
PreviousBoundary(text, position) ==
  IF position <= 0 THEN 0
  ELSE IF position >= 2 /\ IsPairAt(text, position - 1) THEN position - 2 ELSE position - 1
NextBoundary(text, position) ==
  IF position >= Len(text) THEN Len(text)
  ELSE IF IsPairAt(text, position + 1) THEN position + 2 ELSE position + 1

-----------------------------------------------------------------------------
\* The edits that end a composition.

Inserted(b, text) ==
  LET done == CommitComposition(b)
  IN  IF text = <<>> THEN done
      ELSE Apply(done, Replace(done.text, done.cursor, 0, text), done.cursor + Len(text))
Typed(b, key) == SpendShift(Inserted(b, IF UpperCase(b) THEN ToUpper(key) ELSE key))

Insert(text) == buffer' = Inserted(buffer, text)
TypeKey(key) == buffer' = Typed(buffer, key)
SetText(text) == buffer' = Apply(CommitComposition(buffer), text, Len(text))
Clear == buffer' = Apply(CommitComposition(buffer), <<>>, 0)

Backspace ==
  LET start == PreviousBoundary(buffer.text, buffer.cursor)
  IN  buffer' = Apply(CommitComposition(buffer), Replace(buffer.text, start, buffer.cursor - start, <<>>), start)
DeleteForward ==
  LET end == NextBoundary(buffer.text, buffer.cursor)
  IN  buffer' = Apply(CommitComposition(buffer), Replace(buffer.text, buffer.cursor, end - buffer.cursor, <<>>),
                      buffer.cursor)

IsInPair(text, position) == IsPairAt(text, position)
SetCursorPosition(position) ==
  LET placed == PlaceCursor(CommitComposition(buffer), position)
  IN  buffer' = [placed EXCEPT !.split = @ \/ IsInPair(placed.text, placed.cursor)]
MoveCursor(back) ==
  buffer' = PlaceCursor(CommitComposition(buffer),
                        IF back THEN PreviousBoundary(buffer.text, buffer.cursor)
                        ELSE NextBoundary(buffer.text, buffer.cursor))

ToggleShift == buffer' = [CommitComposition(buffer) EXCEPT !.shift = IF @ = "Off" THEN "Once" ELSE "Off"]
LockShift   == buffer' = [CommitComposition(buffer) EXCEPT !.shift = "Locked"]

\* commitComposition; submit does no more to the text.
Commit == buffer' = CommitComposition(buffer)

-----------------------------------------------------------------------------
\* The composition.

ComposedCharacter(b) ==
  IF b.upper THEN ToUpper(b.composition[b.index]) ELSE b.composition[b.index]

CasedWord(b, word) ==
  CASE b.wordShift = "Locked" -> ToUpper(word)
    [] b.wordShift = "Once"   -> ToUpper(Left(word, 1)) \o Mid(word, 1)
    [] OTHER -> word

\* A composition begins at the cursor.
Begun(b) == [b EXCEPT !.start = b.cursor, !.around = [left |-> Left(b.text, b.cursor), right |-> Mid(b.text, b.cursor)]]

Recomposed(b, length, by) ==
  CompositionChanged(Apply(b, Replace(b.text, b.start, length, by), b.start + Len(by)))

\* Variant: the character is put in place of one unit, whatever there was.
ComposeOverOneUnit(characters) ==
  LET begun  == [Begun(CommitComposition(buffer)) EXCEPT !.composition = characters, !.index = 1,
                                                         !.upper = UpperCase(buffer)]
      cycled == [buffer EXCEPT !.index = 1 + (@ % Len(characters))]
  IN  buffer' = IF characters = buffer.composition
                THEN Recomposed(cycled, 1, ComposedCharacter(cycled))
                ELSE Recomposed(SpendShift(begun), 0, ComposedCharacter(begun))

\* compose: a key of several characters.  The same key again shows its next character.
Compose(characters) ==
  LET begun  == [Begun(CommitComposition(buffer)) EXCEPT !.composition = characters, !.index = 1,
                                                         !.upper = UpperCase(buffer)]
      cycled == [buffer EXCEPT !.index = 1 + (@ % Len(characters))]
  IN  buffer' = IF characters = buffer.composition
                THEN Recomposed(cycled, CompositionLength(buffer), ComposedCharacter(cycled))
                ELSE Recomposed(SpendShift(begun), 0, ComposedCharacter(begun))

\* composeWord: another word in place of the one that is composed, none to give it up.
ComposeWord(word) ==
  LET done  == CommitComposition(buffer)
      begun == SpendShift([Begun(done) EXCEPT !.word = TRUE, !.wordShift = done.shift])
      b     == IF buffer.word THEN buffer ELSE begun
      shown == Recomposed([b EXCEPT !.word = word # <<>>], CompositionLength(b), CasedWord(b, word))
  IN  buffer' = IF ~buffer.word /\ word = <<>> THEN done
                ELSE IF word = <<>> THEN Settled(shown) ELSE shown

Next ==
  \/ \E key \in Keys : Len(buffer.text) + 2 <= MaxLength /\ (Insert(key) \/ TypeKey(key))
  \/ \E text \in Words \cup Keys : SetText(text)
  \/ \E position \in 0..MaxLength : SetCursorPosition(position)
  \/ \E back \in BOOLEAN : MoveCursor(back)
  \/ Clear \/ Backspace \/ DeleteForward \/ ToggleShift \/ LockShift \/ Commit
  \/ \E characters \in Groups : Len(buffer.text) + 2 <= MaxLength /\ Compose(characters)
  \/ \E word \in Words : Len(buffer.text) + 3 <= MaxLength /\ ComposeWord(word)

-----------------------------------------------------------------------------

\* A composition is a part of the text that ends at the cursor; what stands before and behind it
\* is what stood there when it began.
OnlyTheCompositionChanges ==
  Composing(buffer) =>
    /\ Left(buffer.text, buffer.start) = buffer.around.left
    /\ Mid(buffer.text, buffer.cursor) = buffer.around.right
    /\ buffer.start < buffer.cursor

\* The field underlines the composition, and nothing when there is none.
ViewShowsTheComposition ==
  /\ buffer.view.composing = Composing(buffer)
  /\ Composing(buffer) => buffer.view.start = buffer.start /\ buffer.view.length = buffer.cursor - buffer.start

\* Unless a caller puts the cursor inside a surrogate pair, none is ever taken apart.
PairsStayWhole ==
  ~buffer.split =>
    /\ ~IsInPair(buffer.text, buffer.cursor)
    /\ \A i \in 1..Len(buffer.text) :
         /\ buffer.text[i] = "high" => IsPairAt(buffer.text, i)
         /\ buffer.text[i] = "low"  => IsPairAt(buffer.text, i - 1)

TextIsEdited == OnlyTheCompositionChanges /\ ViewShowsTheComposition /\ PairsStayWhole
=============================================================================
