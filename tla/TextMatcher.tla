---------------------------- MODULE TextMatcher ----------------------------
(***************************************************************************)
(* How a text is found in a sentence, and how far two texts are apart      *)
(* (src/cpp/utils/textmatcher.cpp).  Texts are sequences of characters:    *)
(* "a" stands for the letters, "K" for those of the scripts that fix       *)
(* particles to a word, "," for the punctuation.  Case is left out.  The   *)
(* sentence grows by a character at a time; positions count from 1.        *)
(***************************************************************************)
EXTENDS Integers, Sequences, FiniteSets, SequencesExt

CONSTANT MaxCharacters    \* the characters of a sentence

VARIABLE search    \* a text and the sentence it is looked for in

Texts == {<<"-">>, <<"a">>, <<"a", "a">>, <<"a", " ", "a">>, <<"a", "-", "a">>, <<"a", "'">>,
          <<"a", "'", "a">>, <<"1">>, <<"1", "1">>, <<"1", ",", "1">>, <<"K">>, <<"K", "a">>}

Text     == search.text
Sentence == search.sentence

Init == \E text \in Texts : search = [text |-> text, sentence |-> <<>>]

\* A sentence has the characters of the text, letters, spaces and apostrophes.
Next == \E character \in ToSet(Text) \cup {"a", " ", "'"} :
          /\ Len(Sentence) < MaxCharacters
          /\ search' = [search EXCEPT !.sentence = Append(@, character)]

-----------------------------------------------------------------------------
\* Pieces.  "joined" is whether a separator between digits belongs to its number.

IsDigitSeparator(text, i) == text[i] = "," /\ i > 1 /\ i < Len(text) /\ text[i - 1] = "1" /\ text[i + 1] = "1"

IsBoundary(text, i, joined) == text[i] \in {" ", "-", ","} /\ ~(joined /\ IsDigitSeparator(text, i))

WithoutDigitSeparators(text) ==
  LET kept == SelectSeq([i \in 1..Len(text) |-> i], LAMBDA i : ~IsDigitSeparator(text, i))
  IN  [k \in 1..Len(kept) |-> text[kept[k]]]

\* An apostrophe ends a piece when it follows a letter and another letter follows it.
IsElision(text, i, joined) ==
  /\ text[i] = "'" /\ i > 1 /\ i < Len(text)
  /\ ~IsBoundary(text, i - 1, joined) /\ ~IsBoundary(text, i + 1, joined) /\ text[i + 1] # "'"

IsAllAffixingScript(text) == text # <<>> /\ \A i \in DOMAIN text : text[i] = "K"

GapBetween(between) ==
  IF between = <<>> THEN "joined" ELSE IF between = <<"-">> THEN "hyphen" ELSE "separated"

StartsPiece(text, i, joined) ==
  /\ ~IsBoundary(text, i, joined)
  /\ i = 1 \/ IsBoundary(text, i - 1, joined) \/ IsElision(text, i - 1, joined)

EndsPiece(text, i, joined) ==
  /\ ~IsBoundary(text, i, joined)
  /\ i = Len(text) \/ IsBoundary(text, i + 1, joined) \/ IsElision(text, i, joined)

PiecesBetween(text, starts, ends) ==
  [k \in 1..Len(starts) |->
     [start |-> starts[k], end |-> ends[k], text |-> SubSeq(text, starts[k], ends[k]),
      gap |-> IF k = 1 THEN "separated" ELSE GapBetween(SubSeq(text, ends[k - 1] + 1, starts[k] - 1))]]

SplitPieces(text, joined) ==
  PiecesBetween(text, SelectSeq([i \in 1..Len(text) |-> i], LAMBDA i : StartsPiece(text, i, joined)),
                      SelectSeq([i \in 1..Len(text) |-> i], LAMBDA i : EndsPiece(text, i, joined)))

\* Where in a word a piece of the text is, <<first, last>>; <<>> if it is not there.
MatchPiece(word, target, allowPrefix, allowSuffix, joined) ==
  LET rest == Len(word) - Len(target)
  IN  CASE \/ word = target
           \/ joined /\ WithoutDigitSeparators(word) = WithoutDigitSeparators(target)
             -> <<1, Len(word)>>
        [] OTHER ->
             IF rest <= 0 THEN <<>>
             ELSE IF /\ allowPrefix /\ Last(target) = "K" /\ IsPrefix(target, word)
                     /\ IsAllAffixingScript(SubSeq(word, Len(target) + 1, Len(word)))
                  THEN <<1, Len(target)>>
             ELSE IF /\ allowSuffix /\ Head(target) = "K" /\ IsSuffix(target, word)
                     /\ IsAllAffixingScript(SubSeq(word, 1, rest))
                  THEN <<rest + 1, Len(word)>>
             ELSE <<>>

\* Where a word is piece k of the text, of which there are "last": only the last piece may have
\* something after it, and only the first something before it.
MatchWord(word, target, from, k, last, joined) ==
  LET found == MatchPiece(word.text, target.text, k = last, k = 1, joined)
  IN  IF found # <<>> /\ k = 1 /\ word.start + found[1] - 1 <= from
      THEN MatchPiece(word.text, target.text, FALSE, TRUE, joined)
      ELSE found

FitsInPlace(found, word, target, from, k, last) ==
  /\ k > 1 => word.gap = target.gap
  /\ found # <<>>
  /\ k = 1 => word.start + found[1] - 1 > from
  /\ k < last => found[2] = Len(word.text)
  /\ k > 1 => found[1] = 1

\* The matches of the text with the words from "first" on.
MatchesFrom(words, targets, first, from, joined) ==
  [k \in DOMAIN targets |-> MatchWord(words[first + k - 1], targets[k], from, k, Len(targets), joined)]

Fits(matches, words, targets, first, from) ==
  /\ words[first].end > from
  /\ \A k \in DOMAIN targets :
       FitsInPlace(matches[k], words[first + k - 1], targets[k], from, k, Len(targets))

SpanOf(matches, words, first) ==
  LET last == Len(matches)
  IN  <<words[first].start + matches[1][1] - 1, words[first + last - 1].start + matches[last][2] - 1>>

\* The first words that match piece by piece, with the same gaps between them.
FindAmong(words, targets, from, joined) ==
  LET matches == [first \in 1..(Len(words) - Len(targets) + 1) |->
                    MatchesFrom(words, targets, first, from, joined)]
      firsts  == {first \in DOMAIN matches : Fits(matches[first], words, targets, first, from)}
  IN  IF targets = <<>> \/ firsts = {} THEN <<>>
      ELSE SpanOf(matches[Min(firsts)], words, Min(firsts))

FindPieces(from, joined) == FindAmong(SplitPieces(Sentence, joined), SplitPieces(Text, joined), from, joined)

\* <<first, last>> of the text in the sentence after the first "from" characters.
FindInSentence(from) ==
  LET split == FindPieces(from, FALSE)
  IN  IF split # <<>> THEN split ELSE FindPieces(from, TRUE)

-----------------------------------------------------------------------------

\* The table of distances, a row at a time.
EditDistance(one, other) ==
  LET NextRow(previous, row) ==
        LET Add(current, column) ==
              LET substitution == previous[column] + (IF one[row] = other[column] THEN 0 ELSE 1)
                  least == IF previous[column + 1] < Last(current) THEN previous[column + 1] + 1 ELSE Last(current) + 1
              IN  Append(current, IF substitution < least THEN substitution ELSE least)
        IN  FoldLeft(Add, <<row>>, [column \in 1..Len(other) |-> column])
  IN  Last(FoldLeft(NextRow, [column \in 1..(Len(other) + 1) |-> column - 1], [row \in 1..Len(one) |-> row]))

-----------------------------------------------------------------------------

\* A text as it is compared: what stands between two words is a hyphen or a space.
Spelled(text) ==
  LET Separates(i) == text[i] \in {" ", "-", ","}
      kept == SelectSeq([i \in 1..Len(text) |-> i], LAMBDA i : ~Separates(i) \/ i = 1 \/ ~Separates(i - 1))
      Alone(i) == i = Len(text) \/ ~Separates(i + 1)
  IN  [k \in 1..Len(kept) |-> IF ~Separates(kept[k]) \/ (text[kept[k]] = "-" /\ Alone(kept[k]))
                              THEN text[kept[k]] ELSE " "]

IsSpelled(one, other) ==
  \/ Spelled(one) = Spelled(other)
  \/ Spelled(WithoutDigitSeparators(one)) = Spelled(WithoutDigitSeparators(other))

\* What is found is spelled as the text, begins after "from", and is not a part of a longer
\* word, except between affixes and after or before an apostrophe that elides.
IsTheText(span, from) ==
  /\ from < span[1] /\ span[1] <= span[2] /\ span[2] <= Len(Sentence)
  /\ IsSpelled(SubSeq(Sentence, span[1], span[2]), Text)
  /\ \/ span[1] = 1 \/ Sentence[span[1] - 1] \in {" ", "-", ",", "'"}
     \/ Sentence[span[1]] = "K" /\ Sentence[span[1] - 1] = "K"
  /\ \/ span[2] = Len(Sentence) \/ Sentence[span[2] + 1] \in {" ", "-", ","}
     \/ Sentence[span[2]] = "'"
     \/ Sentence[span[2]] = "K" /\ Sentence[span[2] + 1] = "K"

\* Whether the text stands by itself after the first "at" characters, up to "end".
StandsAt(at, end) ==
  /\ at < end /\ Text # <<"-">>
  /\ Sentence[at + 1] \notin {" ", "-", ",", "'"}
  /\ at > 0 => Sentence[at] = " " \/ (at > 1 /\ Sentence[at - 1] = "a" /\ Sentence[at] = "'")
  /\ end < Len(Sentence) => Sentence[end + 1] = " "
  /\ IsSpelled(SubSeq(Sentence, at + 1, end), Text)

\* What stands between spaces, or after a letter that is elided, is found no later than there;
\* so is, there or elsewhere, a number whose digits are grouped in another way.
FindsWhatIsThere(span, from) ==
  \A at \in from..Len(Sentence), end \in 0..Len(Sentence) : StandsAt(at, end) =>
    /\ span # <<>>
    /\ Spelled(SubSeq(Sentence, at + 1, end)) = Spelled(Text) => span[1] <= at + 1

FindsTheText(span, from) == (span # <<>> => IsTheText(span, from)) /\ FindsWhatIsThere(span, from)

RECURSIVE Distance(_, _)

\* The fewest letters to insert, remove or replace.
Distance(one, other) ==
  IF one = <<>> THEN Len(other) ELSE IF other = <<>> THEN Len(one)
  ELSE IF Head(one) = Head(other) THEN Distance(Tail(one), Tail(other))
  ELSE 1 + CHOOSE least \in 0..(Len(one) + Len(other)) :
             LET ways == {Distance(Tail(one), other), Distance(one, Tail(other)), Distance(Tail(one), Tail(other))}
             IN  least \in ways /\ \A way \in ways : least <= way

DistanceIsTheFewestEdits ==
  /\ EditDistance(Text, Sentence) = Distance(Text, Sentence)
  /\ EditDistance(Sentence, Text) = EditDistance(Text, Sentence)

TextsAreFound ==
  /\ \A from \in 0..Len(Sentence) : FindsTheText(FindInSentence(from), from)
  /\ DistanceIsTheFewestEdits
=============================================================================
