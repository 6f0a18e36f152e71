---------------------------- MODULE Syllabifier ----------------------------
(***************************************************************************)
(* How a word is split into syllables (src/cpp/utils/syllabifier.cpp), for *)
(* three of its languages and, in each, the groups of a few of its letters.*)
(* The word grows letter by letter.  Hangul words, whose letters are       *)
(* syllables, and the letters of other alphabets are left out.             *)
(***************************************************************************)
EXTENDS Integers, Sequences, FiniteSets, SequencesExt

CONSTANT MaxLetters    \* the letters of a word

VARIABLE syllables

Languages == {"en", "fr", "pl"}

Letters(language) ==
  CASE language = "en" -> {"e", "c", "d", "k", "l", "s"}
    [] language = "fr" -> {"a", "e", "u", "l", "t", "s"}
    [] language = "pl" -> {"a", "i", "y", "d", "z", "r"}

\* The groups, the longest first.
ConsonantGroups(language) ==
  CASE language = "en" -> <<<<"c", "k">>>>
    [] language = "fr" -> <<>>
    [] language = "pl" -> <<<<"d", "z">>, <<"r", "z">>>>

VowelGroups(language) ==
  CASE language = "en" -> <<<<"e", "e">>>>
    [] language = "fr" -> <<<<"e", "a", "u">>, <<"a", "u">>, <<"e", "u">>>>
    [] language = "pl" -> <<>>

CodaOnlyGroups == {<<"c", "k">>}
YIsVowel       == {"fr", "pl"}
SilentFinalE   == {"en", "fr"}
SofteningI     == {"pl"}

Init == \E language \in Languages : syllables = [language |-> language, word |-> <<>>]

AddLetter(letter) ==
  /\ Len(syllables.word) < MaxLetters
  /\ syllables' = [syllables EXCEPT !.word = Append(@, letter)]

Next == \E letter \in Letters(syllables.language) : AddLetter(letter)

Language == syllables.language

-----------------------------------------------------------------------------
\* Units: letters and groups of letters.

IsVowelLetter(letter) == letter \in {"a", "e", "i", "u"} \/ (letter = "y" /\ Language \in YIsVowel)

Unit(text, vowel) == [text |-> text, vowel |-> vowel, codaOnly |-> text \in CodaOnlyGroups]

\* The first group that the rest of a word begins with, <<>> if there is none.
MatchGroup(rest, groups) ==
  LET matching == SelectSeq(groups, LAMBDA group : IsPrefix(group, rest))
  IN  IF matching = <<>> THEN <<>> ELSE Head(matching)

\* An i that only softens the consonant before it.
Softens(rest, before) ==
  /\ Language \in SofteningI /\ Head(rest) = "i"
  /\ Len(rest) > 1 /\ IsVowelLetter(rest[2])
  /\ before # <<>> /\ ~Last(before).vowel

RECURSIVE UnitsOf(_, _)

UnitsOf(rest, before) ==
  LET vowels     == MatchGroup(rest, VowelGroups(Language))
      consonants == MatchGroup(rest, ConsonantGroups(Language))
      After(unit) == UnitsOf(SubSeq(rest, Len(unit.text) + 1, Len(rest)), Append(before, unit))
  IN  CASE rest = <<>> -> before
        [] rest # <<>> /\ Softens(rest, before) ->
             UnitsOf(Tail(rest), [before EXCEPT ![Len(before)].text = Append(@, "i")])
        [] OTHER -> IF vowels # <<>> THEN After(Unit(vowels, TRUE))
                    ELSE IF consonants # <<>> THEN After(Unit(consonants, FALSE))
                    ELSE After(Unit(<<Head(rest)>>, IsVowelLetter(Head(rest))))

IsLiquid(unit)    == unit.text \in {<<"r">>, <<"l">>, <<"r", "z">>}
IsObstruent(unit) == unit.text \in {<<"t">>, <<"d">>, <<"k">>, <<"c">>}
IsSibilant(unit)  == unit.text \in {<<"s">>, <<"z">>, <<"c">>}

KeepsFinalE(units, e, ending) ==
  LET before == units[e - 1]
      syllabicLiquid == ~units[e - 2].vowel
                          /\ (before.text = <<"l">> \/ (Language = "fr" /\ before.text = <<"r">>))
  IN  IF Language = "fr" THEN syllabicLiquid
      ELSE \/ before.vowel
           \/ ending = <<"d">> /\ before.text \in {<<"t">>, <<"d">>}
           \/ ending # <<"d">> /\ syllabicLiquid
           \/ ending = <<"s">> /\ IsSibilant(before)

Endings == IF Language = "en" THEN {<<>>, <<"s">>, <<"d">>} ELSE {<<>>, <<"s">>}

\* A last e, or one before a last s or d, is silent unless it is the only vowel or is needed to speak
\* what stands before it.
SilenceFinalE(units) ==
  LET last   == Len(units)
      e      == IF units[last].vowel THEN last ELSE last - 1
      ending == IF units[last].vowel THEN <<>> ELSE units[last].text
  IN  IF /\ Language \in SilentFinalE
         /\ Len(SelectSeq(units, LAMBDA unit : unit.vowel)) >= 2
         /\ e >= 3 /\ units[e].text = <<"e">> /\ ending \in Endings
         /\ ~KeepsFinalE(units, e, ending)
      THEN [units EXCEPT ![e].vowel = FALSE] ELSE units

Units == IF syllables.word = <<>> THEN <<>> ELSE SilenceFinalE(UnitsOf(syllables.word, <<>>))

-----------------------------------------------------------------------------
\* Syllables.

\* How many of the consonants between two nuclei go to the second.
OnsetLength(units, from, to) ==
  IF to = from \/ units[to - 1].codaOnly THEN 0
  ELSE IF to - from >= 2 /\ IsObstruent(units[to - 2]) /\ IsLiquid(units[to - 1]) THEN 2
  ELSE 1

\* Words without a vowel: three letters at a time, no letter alone at the end.
Chunks(word) ==
  LET count  == (Len(word) + 2) \div 3
      chunks == [i \in 1..count |-> SubSeq(word, 3 * i - 2, IF 3 * i < Len(word) THEN 3 * i ELSE Len(word))]
  IN  IF count > 1 /\ Len(chunks[count]) = 1
      THEN Append(SubSeq(chunks, 1, count - 2), chunks[count - 1] \o chunks[count])
      ELSE chunks

\* The units that open a syllable.
Boundaries(units) ==
  LET nuclei == SelectSeq([i \in 1..Len(units) |-> i], LAMBDA i : units[i].vowel)
  IN  {nuclei[i] - OnsetLength(units, nuclei[i - 1] + 1, nuclei[i]) : i \in 2..Len(nuclei)}

SplitAt(units, boundaries) ==
  LET Add(split, i) ==
        IF i \in boundaries /\ Last(split) # <<>> THEN Append(split, units[i].text)
        ELSE Append(Front(split), Last(split) \o units[i].text)
  IN  FoldLeft(Add, <<<<>>>>, [i \in 1..Len(units) |-> i])

Split(units) ==
  IF syllables.word = <<>> THEN <<>>
  ELSE IF \A i \in 1..Len(units) : ~units[i].vowel THEN Chunks(syllables.word)
  ELSE SplitAt(units, Boundaries(units))

-----------------------------------------------------------------------------

\* The syllables are the word, and the word is the units.
AreTheWord(split, units) ==
  /\ FlattenSeq(split) = syllables.word
  /\ FlattenSeq([i \in 1..Len(units) |-> units[i].text]) = syllables.word
  /\ \A i \in DOMAIN split : split[i] # <<>>

\* How many letters there are up to the end of each unit, and up to that of each syllable.
UnitEnds(units)     == [i \in 1..Len(units) |-> Len(FlattenSeq([j \in 1..i |-> units[j].text]))]
SyllableEnds(split) == [i \in 1..Len(split) |-> Len(FlattenSeq(SubSeq(split, 1, i)))]

\* The units that open a syllable.
Openers(unitEnds, syllableEnds) ==
  {i \in DOMAIN unitEnds : i = 1 \/ unitEnds[i - 1] \in Range(syllableEnds)}

\* The units from one opener to the next: one vowel, at most two consonants before it unless
\* the word begins with them, no group that only ends syllables, and a consonant if there is one
\* that may open the syllable.  No syllable ends within a group.
AreSpoken(units, openers, split) ==
  /\ Cardinality(openers) = Len(split)
  /\ Len(split) = Len(SelectSeq(units, LAMBDA unit : unit.vowel))
  /\ \A i, j \in DOMAIN units : i < j /\ units[i].vowel /\ units[j].vowel => \E k \in openers : i < k /\ k <= j
  /\ \A i \in openers \ {1} :
       /\ ~units[i].codaOnly
       /\ units[i].vowel \/ units[i + 1].vowel \/ (IsLiquid(units[i + 1]) /\ units[i + 2].vowel)
       /\ units[i].vowel => units[i - 1].vowel \/ units[i - 1].codaOnly

\* A word without vowels is cut into threes, or a four or two at its end.
AreEven(split) ==
  \A i \in DOMAIN split : Len(split[i]) = 3 \/ (i = Len(split) /\ (Len(split[i]) \in {2, 4} \/ Len(split) = 1))

\* A word with vowels never loses all of them, and only an e at its end is silent.
AreHeard(vowels, heard) ==
  /\ vowels # {} => heard # {}
  /\ heard # vowels => \E e \in vowels : heard = vowels \ {e} /\ \A i \in vowels : i <= e

VowelsIn(units) == {i \in DOMAIN units : units[i].vowel}

WordIsSplit(split, units) ==
  /\ AreTheWord(split, units)
  /\ IF VowelsIn(units) = {} THEN AreEven(split)
     ELSE AreSpoken(units, Openers(UnitEnds(units), SyllableEnds(split)), split)
  /\ AreHeard(VowelsIn(UnitsOf(syllables.word, <<>>)), VowelsIn(units))

WordsAreSplit == LET units == Units IN WordIsSplit(Split(units), units)
=============================================================================
