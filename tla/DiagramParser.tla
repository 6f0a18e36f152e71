--------------------------- MODULE DiagramParser ---------------------------
(***************************************************************************)
(* What kind of diagram a text is and the reader that reads it             *)
(* (src/cpp/diagram/diagramparser.cpp).  The program scans the whole text  *)
(* for its kind and reads it then; the model reveals one line at a time to *)
(* both, so "kind" is what the scan will have found.  Only a text that     *)
(* opens with a database is undecided at its first body line: a later      *)
(* construct that only sequences have makes it a sequence.                 *)
(***************************************************************************)
EXTENDS Integers, Sequences, TLC

CONSTANTS Kinds,         \* the kinds of diagrams the texts of a run are of
          Names,         \* the names a text uses
          Indexes,       \* the numbers a bits diagram writes
          MaxLines,      \* the lines of a text
          MaxElements, MaxBits, MaxRowBytes, MaxByteIndex, MaxSpans

ASSUME KindsAssumption  == Kinds \subseteq {"activity", "bits", "block", "class", "sequence", "state"}
ASSUME BoundsAssumption == /\ Indexes \subseteq Nat
                           /\ {MaxElements, MaxBits, MaxRowBytes, MaxByteIndex, MaxSpans} \subseteq Nat

VARIABLES
  kind,    \* the kind of the text
  reader,  \* what the reader of that kind has read
  scan,    \* what the scan for the kind has seen of the text
  lines    \* how many lines were read

vars == <<kind, reader, scan, lines>>

Activity == INSTANCE ActivityParser
Bits     == INSTANCE BitsParser
Block    == INSTANCE BlockParser
Class    == INSTANCE ClassParser
Sequence == INSTANCE SequenceParser WITH MaxSteps <- MaxElements
State    == INSTANCE StateParser
Skipped  == INSTANCE SkippedBlocks

\* A name is a word, which the mark of a pseudo state is not.
ASSUME NamesAssumption == State!Pseudo \notin Names

Empty ==
  CASE kind = "activity" -> Activity!Empty
    [] kind = "bits"     -> Bits!Empty
    [] kind = "block"    -> Block!Empty
    [] kind = "class"    -> Class!Empty
    [] kind = "sequence" -> Sequence!Empty
    [] kind = "state"    -> State!Empty

Init ==
  /\ kind \in Kinds
  /\ reader = Empty
  /\ scan = [head |-> "none", skipped |-> Skipped!NoBlock, note |-> FALSE, sequence |-> FALSE]
  /\ lines = 0

IsSkippableBeforeTheBody(line) == line.is = "text"

\* The first body line that makes a text one of the kinds other than a sequence.
Starts(line) ==
  CASE kind = "activity" ->
         \/ line.is \in {"action", "if", "while", "repeat", "repeat action", "fork", "partition"}
         \/ (line.is = "flow" /\ line.ends = "start")
    [] kind = "bits"     -> line.is \in {"mode", "field", "pad"}
    [] kind = "block"    -> line.is = "block of"
    [] kind = "class"    -> line.is = "class"
    [] kind = "state"    ->
         \/ line.is = "state"
         \/ (line.is = "transition" /\ line.from = State!Pseudo)
    [] kind = "sequence" -> TRUE

IsADatabase(line) ==
  line.is \in {"block of", "participant"} /\ line.database

\* What only a sequence has: its participants, groups and returns, and arrows of one dash.
IsSequenceOnly(line) ==
  \/ line.is \in {"return", "group", "divider", "arrow"}
  \/ line.is = "participant" /\ ~line.database
  \/ line.is = "message" /\ ~line.dashed
  \/ line.is = "note" /\ kind = "sequence" /\ line.place = "over"

\* The note lines the scan steps over.
OpensANote(line) ==
  /\ line.is = "note" /\ ~line.inline
  /\ kind = "sequence" => line.place # "over" /\ line.id # Sequence!None

\* The scan of a body line of a text that opened with a database.
ScannedBody(line) ==
  IF scan.note THEN [scan EXCEPT !.note = line.is # "endnote"]
  ELSE IF OpensANote(line) THEN [scan EXCEPT !.note = TRUE]
  ELSE [scan EXCEPT !.sequence = @ \/ IsSequenceOnly(line)]

Scanned(line) ==
  IF Skipped!IsOpen(scan.skipped) THEN [scan EXCEPT !.skipped = Skipped!Continued(@, line)]
  ELSE IF line.is = "block" THEN [scan EXCEPT !.skipped = Skipped!Started(line)]
  ELSE IF scan.head = "database" THEN ScannedBody(line)
  ELSE IF scan.head = "body" \/ IsSkippableBeforeTheBody(line) THEN scan
  ELSE [scan EXCEPT !.head = IF IsADatabase(line) THEN "database" ELSE "body"]

\* The text may be of this kind so far.
MayBe(line) ==
  LET s == Scanned(line) IN
  /\ scan.head = "none" /\ s.head # "none" => Starts(line)
  /\ kind = "block" => ~s.sequence

Read(readLine) ==
  /\ lines < MaxLines
  /\ lines' = lines + 1
  /\ readLine
  /\ UNCHANGED kind

ReadActivity == kind = "activity" /\ \E line \in Activity!Lines :
  MayBe(line) /\ Read(Activity!ReadLine(line)) /\ scan' = Scanned(line)
ReadBits == kind = "bits" /\ \E line \in Bits!Lines :
  MayBe(line) /\ Read(Bits!ReadLine(line)) /\ scan' = Scanned(line)
ReadBlock == kind = "block" /\ \E line \in Block!Lines :
  MayBe(line) /\ Read(Block!ReadLine(line)) /\ scan' = Scanned(line)
ReadClass == kind = "class" /\ \E line \in Class!Lines :
  MayBe(line) /\ Read(Class!ReadLine(line)) /\ scan' = Scanned(line)
ReadSequence == kind = "sequence" /\ \E line \in Sequence!Lines :
  MayBe(line) /\ Read(Sequence!ReadLine(line)) /\ scan' = Scanned(line)
ReadState == kind = "state" /\ \E line \in State!Lines :
  MayBe(line) /\ Read(State!ReadLine(line)) /\ scan' = Scanned(line)

\* The text ends: it is of the kind it was read as, and its reader checks what is still open.
IsOfItsKind ==
  /\ kind # "sequence" => scan.head # "none"
  /\ kind = "sequence" /\ scan.head = "database" => scan.sequence

Finish ==
  /\ IsOfItsKind
  /\ \/ kind = "activity" /\ Activity!Finish
     \/ kind = "bits"     /\ Bits!Finish
     \/ kind = "block"    /\ Block!Finish
     \/ kind = "class"    /\ Class!Finish
     \/ kind = "sequence" /\ Sequence!Finish
     \/ kind = "state"    /\ State!Finish
  /\ UNCHANGED <<kind, scan, lines>>

Next ==
  \/ ReadActivity \/ ReadBits \/ ReadBlock \/ ReadClass \/ ReadSequence \/ ReadState
  \/ Finish

Spec == Init /\ [][Next]_vars

-----------------------------------------------------------------------------

\* A diagram that was parsed is what its layout takes for granted, whatever the text was.
ParsedIsWellFormed ==
  reader.outcome = "parsed" =>
    CASE kind = "activity" -> Activity!WellFormed(reader)
      [] kind = "bits"     -> Bits!WellFormed(reader)
      [] kind = "block"    -> Block!WellFormed(reader)
      [] kind = "class"    -> Class!WellFormed(reader)
      [] kind = "sequence" -> Sequence!WellFormed(reader)
      [] kind = "state"    -> State!WellFormed(reader)

\* The reader of an activity attaches a note to the last element of the open block without
\* looking at it: that element is always there and always an action.
NotesStandAtActions == kind = "activity" => Activity!NoteHasAction(reader)

\* The names of a text are interchangeable.
NameSymmetry == Permutations(Names)
=============================================================================
