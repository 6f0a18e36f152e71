---------------------------- MODULE BitsParser -----------------------------
(***************************************************************************)
(* The reader of bits diagrams (src/cpp/diagram/bitsparser.cpp): a mode    *)
(* line sets the width, then every field and pad takes the bits or bytes   *)
(* from low to high, which "owner" remembers.  Labels are left out.        *)
(***************************************************************************)
EXTENDS SkippedBlocks, Sequences, FiniteSets

CONSTANTS Indexes,       \* the numbers a text writes
          MaxBits,       \* the widest register
          MaxRowBytes,   \* the widest row of a memory layout
          MaxByteIndex,  \* the last byte of the largest memory layout
          MaxSpans       \* the fields and pads one diagram may have
VARIABLE reader

Lines ==
  [is : {"mode"}, bits : BOOLEAN, width : Indexes]
    \cup [is : {"field", "pad"}, first : Indexes, second : Indexes]
    \cup [is : {"text", "unknown"}]
    \cup BlockLines({"style"})

Empty == [mode |-> "none", width |-> 0, spans |-> <<>>, owner |-> <<>>,
          skipped |-> NoBlock, outcome |-> "reading"]

Failed == [Empty EXCEPT !.outcome = "failed"]
Init   == reader = Empty

Reads(r) == reader' = r
Fails    == reader' = Failed

\* Who owns each index, from 0 on; 0 is nobody, k the k-th span.
NoOwners(bits, width) == [index \in 0..(IF bits THEN width - 1 ELSE MaxByteIndex) |-> 0]

ReadMode(line) ==
  /\ line.is = "mode"
  /\ IF \/ reader.mode # "none"
        \/ line.width < 1
        \/ line.width > (IF line.bits THEN MaxBits ELSE MaxRowBytes)
     THEN Fails
     ELSE Reads([reader EXCEPT !.mode = IF line.bits THEN "bits" ELSE "bytes",
                               !.width = line.width, !.owner = NoOwners(line.bits, line.width)])

\* A range in either order.
IndexesOf(line) ==
  IF line.first <= line.second THEN [low |-> line.first, high |-> line.second]
  ELSE [low |-> line.second, high |-> line.first]

InRange(r, span)  == IF r.mode = "bits" THEN span.high < r.width ELSE span.high <= MaxByteIndex
Overlaps(r, span) == \E index \in span.low..span.high : r.owner[index] # 0

ReadSpan(line) ==
  /\ line.is \in {"field", "pad"}
  /\ LET span == IndexesOf(line) IN
     IF \/ reader.mode = "none"
        \/ ~InRange(reader, span)
        \/ Overlaps(reader, span)
        \/ Len(reader.spans) >= MaxSpans
     THEN Fails
     ELSE Reads([reader EXCEPT
            !.spans = Append(@, [low |-> span.low, high |-> span.high, kind |-> line.is]),
            !.owner = [index \in DOMAIN @ |-> IF index \in span.low..span.high
                                               THEN Len(reader.spans) + 1 ELSE @[index]]])

ReadIgnored(line) == line.is = "text" /\ Reads(reader)
ReadUnknown(line) == line.is \in {"unknown", "ends"} /\ Fails
StartBlock(line)  == line.is = "block" /\ Reads([reader EXCEPT !.skipped = Started(line)])

ReadStatement(line) ==
  \/ StartBlock(line)
  \/ ReadMode(line)
  \/ ReadSpan(line)
  \/ ReadIgnored(line)
  \/ ReadUnknown(line)

ReadLine(line) ==
  /\ reader.outcome = "reading"
  /\ \/ /\ IsOpen(reader.skipped)
        /\ Reads([reader EXCEPT !.skipped = Continued(@, line)])
     \/ /\ ~IsOpen(reader.skipped)
        /\ ReadStatement(line)

Unfinished(r) == IsOpen(r.skipped) \/ r.mode = "none" \/ r.spans = <<>>

Finish ==
  /\ reader.outcome = "reading"
  /\ reader' = IF Unfinished(reader) THEN Failed ELSE [reader EXCEPT !.outcome = "parsed"]

Next == Finish \/ \E line \in Lines : ReadLine(line)

-----------------------------------------------------------------------------

\* What the layout takes for granted: spans run upwards inside the layout, and no index
\* belongs to two of them.
WellFormed(r) ==
  /\ r.width \in 1..(IF r.mode = "bits" THEN MaxBits ELSE MaxRowBytes)
  /\ Len(r.spans) \in 1..MaxSpans
  /\ \A k \in 1..Len(r.spans) :
       /\ r.spans[k].low <= r.spans[k].high
       /\ r.spans[k].high < (IF r.mode = "bits" THEN r.width ELSE MaxByteIndex + 1)
  /\ \A j, k \in 1..Len(r.spans) :
       j # k => r.spans[j].high < r.spans[k].low \/ r.spans[k].high < r.spans[j].low
=============================================================================
