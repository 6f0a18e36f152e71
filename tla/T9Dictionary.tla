---------------------------- MODULE T9Dictionary ----------------------------
(***************************************************************************)
(* The dictionary of a nine-key keyboard (src/cpp/utils/t9dictionary.cpp): *)
(* words sorted in one vector, which is searched letter by letter for the  *)
(* words that one key after another may begin, and how often and when the  *)
(* user chose them.  An entry is a word and its offset in the letters of   *)
(* all words, by which its usage is kept.  A letter is its code in the     *)
(* order of the alphabet, the hyphen comes first; "A" is a capital and "1" *)
(* no letter.  "known" and "used" remember the words in the order in which *)
(* they came, and their usage.                                             *)
(***************************************************************************)
EXTENDS Integers, Sequences, FiniteSets, SequencesExt

CONSTANT MaxCalls   \* the calls that learn a word

VARIABLE dictionary

Hyphen == 1
Typed  == {<<"a">>, <<"A", "b">>, <<"a", "-", "b">>, <<"b", "a">>, <<"-", "a">>, <<"b", "-">>, <<"a", "1">>}
Lists  == {<<>>, <<<<"b", "a">>, <<"a">>, <<"A">>, <<"a", "a">>>>, <<<<"a", "b">>, <<"1">>, <<"b">>>>}
Groups == {<<"a", "b">>, <<"A", "1">>, <<"b">>, <<"-">>, <<"1">>}
Presses == {<<>>} \cup {<<g>> : g \in Groups} \cup {<<g, h>> : g, h \in Groups}

Folded(character) ==
  CASE character = "-" -> Hyphen [] character \in {"a", "A"} -> 2 [] character = "b" -> 3 [] OTHER -> 0
IsJoiner(letter) == letter = Hyphen

\* What a word is to the dictionary, <<>> when it is none: a joiner stands between letters.
LettersOf(word) ==
  LET letters == [i \in 1..Len(word) |-> Folded(word[i])]
  IN  IF /\ \A i \in 1..Len(letters) :
              /\ letters[i] # 0
              /\ IsJoiner(letters[i]) => i > 1 /\ i < Len(letters) /\ ~IsJoiner(letters[i - 1])
      THEN letters ELSE <<>>

GroupOf(group) == SelectSeq([i \in 1..Len(group) |-> Folded(group[i])], LAMBDA letter : letter # 0)

NoUsage == [count |-> 0, lastUsed |-> 0]
Unused  == [offset \in {} |-> NoUsage]

Init ==
  dictionary = [entries |-> <<>>, letters |-> 0, usage |-> Unused, known |-> <<>>, used |-> Unused, calls |-> 0]

-----------------------------------------------------------------------------
\* The vector.

Less(v, w) ==
  \E n \in 0..Len(w) :
    /\ n <= Len(v) /\ SubSeq(v, 1, n) = SubSeq(w, 1, n)
    /\ n < Len(w) /\ (n = Len(v) \/ v[n + 1] < w[n + 1])

\* Where a search from first ends that passes by these places.
Bound(first, passed) == first + Cardinality(passed)

\* The place of a word among the entries, 0 for none.
FindWord(entries, word) ==
  LET at == Bound(1, {i \in 1..Len(entries) : Less(entries[i].word, word)})
  IN  IF at <= Len(entries) /\ entries[at].word = word THEN at ELSE 0

Sorted(entries) ==
  [i \in 1..Len(entries) |->
     entries[CHOOSE j \in 1..Len(entries) :
               Cardinality({k \in 1..Len(entries) :
                              \/ Less(entries[k].word, entries[j].word)
                              \/ entries[k].word = entries[j].word /\ k < j}) = i - 1]]

FirstOfEach(entries) ==
  LET first == {i \in 1..Len(entries) : i = 1 \/ entries[i - 1].word # entries[i].word}
  IN  [n \in 1..Cardinality(first) |->
         entries[CHOOSE i \in first : Cardinality({j \in first : j < i}) = n - 1]]

\* Variant: a word that is new goes to the end.
AppendedLast(d, word) == Append(d.entries, [word |-> word, offset |-> d.letters])

\* append: a word that is new goes to its place in the order.
Appended(d, word) ==
  LET entry == [word |-> word, offset |-> d.letters]
      at    == Bound(1, {i \in 1..Len(d.entries) : ~Less(word, d.entries[i].word)})
  IN  InsertAt(d.entries, at, entry)

With(function, at, value) == [x \in DOMAIN function \cup {at} |-> IF x = at THEN value ELSE function[x]]
UsageOf(function, at) == IF at \in DOMAIN function THEN function[at] ELSE NoUsage

\* The entry of a word that is in the dictionary or is put there.
EntryOf(d, word) ==
  LET found == FindWord(d.entries, word)
  IN  IF found # 0 THEN d.entries[found] ELSE [word |-> word, offset |-> d.letters]

Noted(d, word, usage) ==
  LET found == FindWord(d.entries, word) # 0
  IN  [d EXCEPT !.entries = IF found THEN @ ELSE Appended(d, word),
                !.letters = IF found THEN @ ELSE @ + Len(word),
                !.usage   = With(@, EntryOf(d, word).offset, usage),
                !.known   = IF Contains(@, word) THEN @ ELSE Append(@, word),
                !.used    = With(@, word, usage),
                !.calls   = @ + 1]

-----------------------------------------------------------------------------

\* setWords: what was learned before is forgotten.
SetWords(words) ==
  LET Add(state, word) ==
        LET letters == LettersOf(word)
        IN  IF letters = <<>> THEN state
            ELSE [entries |-> Append(state.entries, [word |-> letters, offset |-> state.letters]),
                  letters |-> state.letters + Len(letters),
                  known   |-> IF Contains(state.known, letters) THEN state.known ELSE Append(state.known, letters)]
      all == FoldLeft(Add, [entries |-> <<>>, letters |-> 0, known |-> <<>>], words)
  IN  dictionary' = [dictionary EXCEPT !.entries = FirstOfEach(Sorted(all.entries)), !.letters = all.letters,
                                       !.known = all.known, !.usage = Unused, !.used = Unused]

SetUsage(word, count, lastUsed) ==
  /\ dictionary.calls < MaxCalls /\ LettersOf(word) # <<>>
  /\ dictionary' = Noted(dictionary, LettersOf(word), [count |-> count, lastUsed |-> lastUsed])

Learn(word, usedAt) ==
  /\ dictionary.calls < MaxCalls /\ LettersOf(word) # <<>>
  /\ LET usage == UsageOf(dictionary.usage, EntryOf(dictionary, LettersOf(word)).offset)
     IN  dictionary' = Noted(dictionary, LettersOf(word), [count |-> usage.count + 1, lastUsed |-> usedAt])

-----------------------------------------------------------------------------
\* candidatesForGroups.

\* The entries from first to last have the letters before depth in common: those that go on with
\* one letter stand together behind an entry that ends there.
RECURSIVE CollectMatches(_, _, _, _, _)
CollectMatches(entries, first, last, depth, groups) ==
  IF depth > Len(groups) THEN first..last
  ELSE UNION {LET from == Bound(first, {i \in first..last : \/ Len(entries[i].word) < depth
                                                           \/ entries[i].word[depth] < letter})
                  to   == Bound(from, {i \in from..last : ~(letter < entries[i].word[depth])}) - 1
              IN  IF from > to THEN {} ELSE CollectMatches(entries, from, to, depth + 1, groups)
              : letter \in {groups[depth][i] : i \in 1..Len(groups[depth])}}

RankedBefore(d, e, f) ==
  LET a == UsageOf(d.usage, e.offset)
      b == UsageOf(d.usage, f.offset)
  IN  \/ a.count > b.count
      \/ a.count = b.count /\ a.lastUsed > b.lastUsed
      \/ a = b /\ e.offset < f.offset

Ranked(d, entries) ==
  [i \in 1..Cardinality(entries) |->
     CHOOSE e \in entries : Cardinality({f \in entries : RankedBefore(d, f, e)}) = i - 1]

\* rankedWords: words of just these letters before longer ones.
CandidatesForGroups(d, presses, limit) ==
  LET groups  == [i \in 1..Len(presses) |-> GroupOf(presses[i])]
      matches == {d.entries[i] : i \in CollectMatches(d.entries, 1, Len(d.entries), 1, groups)}
      exact   == {e \in matches : Len(e.word) = Len(groups)}
      all     == Ranked(d, exact) \o Ranked(d, matches \ exact)
      shown   == IF limit < Len(all) THEN SubSeq(all, 1, limit) ELSE all
  IN  IF groups = <<>> \/ limit <= 0 \/ Contains(groups, <<>>) THEN <<>>
      ELSE [i \in 1..Len(shown) |-> shown[i].word]

Next ==
  \/ \E words \in Lists : SetWords(words)
  \/ \E word \in Typed, count, lastUsed \in 0..1 : SetUsage(word, count, lastUsed)
  \/ \E word \in Typed, usedAt \in 1..2 : Learn(word, usedAt)

-----------------------------------------------------------------------------

\* The candidates are the words that the keys may begin, each once, ranked by whether the keys
\* spell all of it, how often and how late it was chosen, and when it came to be known; a limit
\* keeps the first of them.
CandidatesAreRanked ==
  LET known == dictionary.known
      Words == {known[i] : i \in 1..Len(known)}
      Came(word) == CHOOSE i \in 1..Len(known) : known[i] = word
      Before(v, w, length) ==
        LET a == UsageOf(dictionary.used, v)
            b == UsageOf(dictionary.used, w)
        IN  IF (Len(v) = length) # (Len(w) = length) THEN Len(v) = length
            ELSE IF a.count # b.count THEN a.count > b.count
            ELSE IF a.lastUsed # b.lastUsed THEN a.lastUsed > b.lastUsed
            ELSE Came(v) < Came(w)
      Begin(presses, word) ==
        /\ presses # <<>> /\ Len(presses) <= Len(word)
        /\ \A i \in 1..Len(presses) : \E j \in 1..Len(presses[i]) : Folded(presses[i][j]) = word[i]
  IN  \A presses \in Presses, limit \in {0, 1, 5} :
        LET found == CandidatesForGroups(dictionary, presses, limit)
            words == {word \in Words : Begin(presses, word)}
        IN  /\ Len(found) = IF limit < Cardinality(words) THEN limit ELSE Cardinality(words)
            /\ \A i \in 1..Len(found) :
                 /\ found[i] \in words
                 /\ \A word \in words \ {found[j] : j \in 1..i} : Before(found[i], word, Len(presses))
                 /\ \A j \in 1..(i - 1) : found[j] # found[i]
=============================================================================
