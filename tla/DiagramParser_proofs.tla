------------------------ MODULE DiagramParser_proofs ------------------------
(***************************************************************************)
(* Proofs about DiagramParser, for texts of any length: a diagram that was *)
(* parsed is what its layout takes for granted, and a note of an activity  *)
(* has an action to go to.                                                 *)
(***************************************************************************)
EXTENDS DiagramParser, SequenceTheorems, FiniteSetTheorems, WellFoundedInduction, TLAPS

BlockNames == {"none", "comment", "legend", "style", "skinparam"}
Outcomes == {"reading", "parsed", "failed"}
Blocks   == [name : BlockNames, depth : Int]

(* A block that every reader steps over. *)
LEMMA SkippedAre ==
  /\ Skipped!NoBlock \in Blocks
  /\ \A line : line.name \in BlockNames => Skipped!Started(line) \in Blocks
  /\ \A block \in Blocks : \A line : Skipped!Continued(block, line) \in Blocks
<1>1. Skipped!NoBlock \in Blocks
  BY DEF Skipped!NoBlock, Blocks, BlockNames
<1>2. ASSUME NEW line, line.name \in BlockNames PROVE Skipped!Started(line) \in Blocks
  BY <1>1, <1>2 DEF Skipped!Started, Blocks
<1>3. ASSUME NEW block \in Blocks, NEW line PROVE Skipped!Continued(block, line) \in Blocks
  <2>1. Skipped!BraceBalance(line) \in Int
    BY DEF Skipped!BraceBalance
  <2> QED
    BY <1>1, <2>1 DEF Skipped!Continued, Blocks
<1> QED
  BY <1>1, <1>2, <1>3

(* Numbers have a least one. *)
LEMMA LeastOf ==
  ASSUME NEW S, S \subseteq Nat, S # {}
  PROVE  \E n \in S : \A m \in S : n <= m
<1> DEFINE R == OpToRel(<, Nat)
<1>1. IsWellFoundedOn(R, Nat)
  BY NatLessThanWellFounded
<1>2. \A x, y \in Nat : x < y => <<x, y>> \in R
  BY DEF OpToRel
<1> HIDE DEF R
<1>3. PICK x \in S : \A y \in S : ~(<<y, x>> \in R)
  BY <1>1, WFMin
<1>4. \A y \in S : ~(y < x)
  BY <1>2, <1>3
<1> QED
  BY <1>4

(* The end of a list. *)
LEMMA AppendIs ==
  ASSUME NEW S, NEW s \in Seq(S), NEW e \in S
  PROVE  /\ Append(s, e) \in Seq(S) /\ Len(s) \in Nat
         /\ Len(Append(s, e)) = Len(s) + 1
         /\ Append(s, e)[Len(s) + 1] = e
         /\ \A i \in 1..Len(s) : Append(s, e)[i] = s[i] /\ s[i] \in S
         /\ \A i \in 1..Len(s) + 1 : i \in 1..Len(s) \/ i = Len(s) + 1
OBVIOUS

LEMMA ButLastIs ==
  ASSUME NEW S, NEW s \in Seq(S), s # <<>>
  PROVE  /\ SubSeq(s, 1, Len(s) - 1) \in Seq(S) /\ Len(s) \in Nat \ {0}
         /\ Len(SubSeq(s, 1, Len(s) - 1)) = Len(s) - 1
         /\ \A i \in 1..Len(s) - 1 : SubSeq(s, 1, Len(s) - 1)[i] = s[i] /\ s[i] \in S
         /\ s[Len(s)] \in S
<1>1. Len(s) \in Nat /\ Len(s) >= 1 /\ \A i \in 1..Len(s) : s[i] \in S
  OBVIOUS
<1>2. /\ SubSeq(s, 1, Len(s) - 1) \in Seq(S)
      /\ Len(SubSeq(s, 1, Len(s) - 1)) = IF 1 <= Len(s) - 1 THEN Len(s) - 1 - 1 + 1 ELSE 0
      /\ \A i \in 1..(Len(s) - 1 - 1 + 1) : SubSeq(s, 1, Len(s) - 1)[i] = s[1 + i - 1]
  <2>1. \A i \in 1..Len(s) - 1 : s[i] \in S
    BY <1>1
  <2>2. 1 \in Int /\ Len(s) - 1 \in Int
    BY <1>1
  <2> QED
    BY <2>1, <2>2, SubSeqProperties
<1>3. Len(SubSeq(s, 1, Len(s) - 1)) = Len(s) - 1
  <2> DEFINE n == Len(s)
  <2>1. n \in Nat /\ n >= 1 /\ Len(SubSeq(s, 1, n - 1)) = IF 1 <= n - 1 THEN n - 1 - 1 + 1 ELSE 0
    BY <1>1, <1>2
  <2> HIDE DEF n
  <2>2. Len(SubSeq(s, 1, n - 1)) = n - 1
    BY <2>1
  <2> QED
    BY <2>2 DEF n
<1>4. ASSUME NEW i \in 1..Len(s) - 1
      PROVE  SubSeq(s, 1, Len(s) - 1)[i] = s[i] /\ s[i] \in S
  <2>1. i \in 1..(Len(s) - 1 - 1 + 1) /\ 1 + i - 1 = i
    BY <1>1
  <2> QED
    BY <1>1, <1>2, <2>1
<1> QED
  BY <1>1, <1>2, <1>3, <1>4

-----------------------------------------------------------------------------
(* The reader of bits: the owner of an index is the one span that has it. *)

BitsOwners == UNION {[indexes -> Nat] : indexes \in SUBSET Nat}

BitsSpan == [low : Nat, high : Nat, kind : {"field", "pad"}]

BitsType(r) ==
  r \in [mode : {"none", "bits", "bytes"}, width : Nat,
         spans : Seq(BitsSpan), owner : BitsOwners, skipped : Blocks, outcome : Outcomes]

BitsEnd(r) == IF r.mode = "bits" THEN r.width ELSE MaxByteIndex + 1

BitsInv(r) ==
  /\ BitsType(r)
  /\ r.mode = "none" => r.spans = <<>>
  /\ r.mode # "none" => /\ r.width \in 1..(IF r.mode = "bits" THEN MaxBits ELSE MaxRowBytes)
                        /\ DOMAIN r.owner = 0..(BitsEnd(r) - 1)
  /\ Len(r.spans) <= MaxSpans
  /\ \A k \in 1..Len(r.spans) :
       /\ r.spans[k].low <= r.spans[k].high
       /\ r.spans[k].high < BitsEnd(r)
       /\ \A index \in r.spans[k].low..r.spans[k].high : r.owner[index] = k
  /\ r.outcome = "parsed" => r.mode # "none" /\ r.spans # <<>>

LEMMA BitsEmpty == BitsInv(Bits!Empty) /\ BitsInv(Bits!Failed)
<1>1. <<>> \in BitsOwners
  <2>1. <<>> \in [{} -> Nat]
    OBVIOUS
  <2> QED
    BY <2>1 DEF BitsOwners
<1>2. Bits!NoBlock \in Blocks
  BY SkippedAre DEF Bits!NoBlock, Skipped!NoBlock
<1>3. BitsType(Bits!Empty) /\ BitsType(Bits!Failed)
  <2>1. BitsType(Bits!Empty)
    BY <1>1, <1>2 DEF BitsType, Bits!Empty, Outcomes
  <2> QED
    BY <2>1 DEF BitsType, Bits!Failed, Outcomes
<1>4. /\ Bits!Empty.mode = "none" /\ Bits!Empty.spans = <<>> /\ Bits!Empty.outcome = "reading"
      /\ Bits!Failed.mode = "none" /\ Bits!Failed.spans = <<>> /\ Bits!Failed.outcome = "failed"
  BY DEF Bits!Empty, Bits!Failed
<1> QED
  BY <1>3, <1>4, BoundsAssumption DEF BitsInv

LEMMA BitsMode ==
  ASSUME BitsInv(reader), NEW line \in Bits!Lines, Bits!ReadMode(line), reader.outcome = "reading"
  PROVE  BitsInv(reader')
<1>1. CASE reader' = Bits!Failed
  BY <1>1, BitsEmpty
<1>2. CASE reader' # Bits!Failed
  <2>1. /\ line.is = "mode" /\ line.width \in Nat /\ line.bits \in BOOLEAN
    BY BoundsAssumption DEF Bits!Lines, Bits!ReadMode, Bits!BlockLines
  <2>2. /\ reader.mode = "none" /\ line.width >= 1
        /\ line.width <= (IF line.bits THEN MaxBits ELSE MaxRowBytes)
        /\ reader' = [reader EXCEPT !.mode = IF line.bits THEN "bits" ELSE "bytes",
                        !.width = line.width, !.owner = Bits!NoOwners(line.bits, line.width)]
    BY <1>2, <2>1, BoundsAssumption DEF Bits!ReadMode, Bits!Fails, Bits!Reads
  <2>3. Bits!NoOwners(line.bits, line.width) \in BitsOwners
    BY <2>1, BoundsAssumption DEF Bits!NoOwners, BitsOwners
  <2>4. BitsType(reader') /\ reader'.spans = <<>> /\ reader'.outcome = "reading"
    BY <2>1, <2>2, <2>3 DEF BitsInv, BitsType
  <2>5. DOMAIN reader'.owner = 0..(BitsEnd(reader') - 1)
    BY <2>1, <2>2, BoundsAssumption DEF BitsInv, BitsType, BitsEnd, Bits!NoOwners
  <2> QED
    BY <2>1, <2>2, <2>4, <2>5, BoundsAssumption DEF BitsInv, BitsType, BitsEnd
<1> QED
  BY <1>1, <1>2

LEMMA BitsSpanRead ==
  ASSUME BitsInv(reader), NEW line \in Bits!Lines, Bits!ReadSpan(line), reader.outcome = "reading"
  PROVE  BitsInv(reader')
<1>1. CASE reader' = Bits!Failed
  BY <1>1, BitsEmpty
<1>2. CASE reader' # Bits!Failed
  <2> DEFINE indexes == Bits!IndexesOf(line)
             k       == Len(reader.spans) + 1
             span    == [low |-> indexes.low, high |-> indexes.high, kind |-> line.is]
             owner   == [index \in DOMAIN reader.owner |->
                           IF index \in indexes.low..indexes.high THEN k ELSE reader.owner[index]]
  <2>1. line.is \in {"field", "pad"} /\ line.first \in Nat /\ line.second \in Nat
    BY BoundsAssumption DEF Bits!Lines, Bits!ReadSpan, Bits!BlockLines
  <2>2. /\ indexes.low \in Nat /\ indexes.high \in Nat /\ indexes.low <= indexes.high
        /\ span \in BitsSpan /\ span.low = indexes.low /\ span.high = indexes.high
    BY <2>1 DEF Bits!IndexesOf, BitsSpan
  <2>3. /\ reader.mode # "none"
        /\ Bits!InRange(reader, indexes)
        /\ ~Bits!Overlaps(reader, indexes)
        /\ Len(reader.spans) < MaxSpans
        /\ reader' = [reader EXCEPT !.spans = Append(@, span), !.owner = owner]
    BY <1>2, BoundsAssumption DEF Bits!ReadSpan, Bits!Fails, Bits!Reads, BitsInv, BitsType
  <2>4. /\ reader.spans \in Seq(BitsSpan) /\ Len(reader.spans) \in Nat
        /\ DOMAIN reader.owner = 0..(BitsEnd(reader) - 1) /\ reader.owner \in BitsOwners
        /\ reader.width \in Nat /\ reader.mode \in {"bits", "bytes"}
    BY <2>3 DEF BitsInv, BitsType
  <2>5. indexes.high < BitsEnd(reader)
    BY <2>2, <2>3, <2>4, BoundsAssumption DEF Bits!InRange, BitsEnd
  <2>6. owner \in BitsOwners /\ DOMAIN owner = 0..(BitsEnd(reader) - 1)
    <3>1. PICK all \in SUBSET Nat : reader.owner \in [all -> Nat]
      BY <2>4 DEF BitsOwners
    <3>2. owner \in [all -> Nat]
      BY <2>4, <3>1
    <3> QED
      BY <2>4, <3>1, <3>2 DEF BitsOwners
  <2>7. /\ BitsType(reader')
        /\ reader'.spans = Append(reader.spans, span) /\ reader'.owner = owner
        /\ reader'.mode = reader.mode /\ reader'.width = reader.width /\ reader'.outcome = "reading"
    <3>1. Append(reader.spans, span) \in Seq(BitsSpan)
      BY <2>2, <2>4
    <3> HIDE DEF span, owner
    <3> QED
      BY <2>3, <2>6, <3>1 DEF BitsInv, BitsType
  <2>8. BitsEnd(reader') = BitsEnd(reader)
    BY <2>7 DEF BitsEnd
  <2>9. /\ Len(reader'.spans) = k /\ reader'.spans[k] = span
        /\ \A j \in 1..Len(reader.spans) : reader'.spans[j] = reader.spans[j]
    BY <2>2, <2>4, <2>7
  <2>10. ASSUME NEW j \in 1..k
         PROVE  /\ reader'.spans[j].low <= reader'.spans[j].high
                /\ reader'.spans[j].high < BitsEnd(reader')
                /\ \A index \in reader'.spans[j].low..reader'.spans[j].high : reader'.owner[index] = j
    <3>1. CASE j = k
      <4>1. \A index \in indexes.low..indexes.high : index \in DOMAIN owner
        BY <2>2, <2>4, <2>5, <2>6, BoundsAssumption DEF BitsEnd
      <4> QED
        BY <2>2, <2>5, <2>7, <2>8, <2>9, <3>1, <4>1
    <3>2. CASE j # k
      <4>1. /\ j \in 1..Len(reader.spans) /\ reader'.spans[j] = reader.spans[j]
            /\ reader.spans[j] \in BitsSpan
        BY <2>4, <2>9, <3>2
      <4>2. /\ reader.spans[j].low <= reader.spans[j].high
            /\ reader.spans[j].high < BitsEnd(reader)
            /\ \A index \in reader.spans[j].low..reader.spans[j].high : reader.owner[index] = j
        BY <4>1 DEF BitsInv
      <4>3. ASSUME NEW index \in reader.spans[j].low..reader.spans[j].high
            PROVE  owner[index] = j
        <5> DEFINE at == reader.spans[j]
        <5>1. /\ index \in DOMAIN reader.owner /\ reader.owner[index] = j
          <6>1. at.low \in Nat /\ at.high \in Nat
            BY <4>1 DEF BitsSpan
          <6>2. BitsEnd(reader) \in Nat
            BY <2>4, BoundsAssumption DEF BitsEnd
          <6> QED
            BY <2>4, <4>2, <6>1, <6>2
        <5>2. index \notin indexes.low..indexes.high
          BY <2>3, <4>1, <5>1 DEF Bits!Overlaps
        <5> QED
          BY <5>1, <5>2
      <4> QED
        BY <2>7, <2>8, <4>1, <4>2, <4>3
    <3> QED
      BY <3>1, <3>2
  <2>11. reader'.mode # "none" /\ reader'.width \in 1..(IF reader'.mode = "bits" THEN MaxBits ELSE MaxRowBytes)
    BY <2>3, <2>7 DEF BitsInv
  <2>12. DOMAIN reader'.owner = 0..(BitsEnd(reader') - 1) /\ Len(reader'.spans) <= MaxSpans
    BY <2>3, <2>4, <2>6, <2>7, <2>8, <2>9, BoundsAssumption
  <2> QED
    BY <2>7, <2>9, <2>10, <2>11, <2>12 DEF BitsInv
<1> QED
  BY <1>1, <1>2

(* A block that is stepped over changes nothing else of the reader. *)
LEMMA BitsSkips ==
  ASSUME BitsInv(reader), NEW block \in Blocks, reader' = [reader EXCEPT !.skipped = block]
  PROVE  BitsInv(reader')
<1>1. /\ BitsType(reader') /\ reader'.mode = reader.mode /\ reader'.width = reader.width
      /\ reader'.spans = reader.spans /\ reader'.owner = reader.owner /\ reader'.outcome = reader.outcome
  BY DEF BitsInv, BitsType
<1> QED
  BY <1>1 DEF BitsInv, BitsEnd

LEMMA BitsLine ==
  ASSUME BitsInv(reader), NEW line \in Bits!Lines, Bits!ReadLine(line)
  PROVE  BitsInv(reader')
<1>1. CASE reader' = [reader EXCEPT !.skipped = Bits!Continued(@, line)]
  <2>1. Bits!Continued(reader.skipped, line) \in Blocks
    BY SkippedAre DEF BitsInv, BitsType, Bits!Continued, Skipped!Continued, Bits!NoBlock,
       Skipped!NoBlock, Bits!BraceBalance, Skipped!BraceBalance
  <2> QED
    BY <1>1, <2>1, BitsSkips
<1>2. CASE Bits!StartBlock(line)
  <2>1. line.name \in BlockNames
    BY <1>2 DEF Bits!StartBlock, Bits!Lines, Bits!BlockLines, BlockNames
  <2>2. Bits!Started(line) \in Blocks
    BY <2>1, SkippedAre DEF Bits!Started, Skipped!Started, Bits!NoBlock, Skipped!NoBlock
  <2> QED
    BY <1>2, <2>2, BitsSkips DEF Bits!StartBlock, Bits!Reads
<1>3. CASE Bits!ReadMode(line)
  BY <1>3, BitsMode DEF Bits!ReadLine
<1>4. CASE Bits!ReadSpan(line)
  BY <1>4, BitsSpanRead DEF Bits!ReadLine
<1>5. CASE Bits!ReadIgnored(line) \/ Bits!ReadUnknown(line)
  BY <1>5, BitsEmpty DEF Bits!ReadIgnored, Bits!ReadUnknown, Bits!Reads, Bits!Fails
<1> QED
  BY <1>1, <1>2, <1>3, <1>4, <1>5 DEF Bits!ReadLine, Bits!ReadStatement, Bits!Reads

LEMMA BitsFinish ==
  ASSUME BitsInv(reader), Bits!Finish
  PROVE  BitsInv(reader')
<1>1. CASE reader' = Bits!Failed
  BY <1>1, BitsEmpty
<1>2. CASE reader' # Bits!Failed
  <2>1. reader' = [reader EXCEPT !.outcome = "parsed"] /\ reader.mode # "none" /\ reader.spans # <<>>
    BY <1>2 DEF Bits!Finish, Bits!Unfinished
  <2>2. /\ BitsType(reader') /\ reader'.mode = reader.mode /\ reader'.width = reader.width
        /\ reader'.spans = reader.spans /\ reader'.owner = reader.owner
    BY <2>1 DEF BitsInv, BitsType, Outcomes
  <2> QED
    BY <2>1, <2>2 DEF BitsInv, BitsEnd
<1> QED
  BY <1>1, <1>2

LEMMA BitsWellFormed ==
  ASSUME BitsInv(reader), reader.outcome = "parsed"
  PROVE  Bits!WellFormed(reader)
<1>1. /\ reader.mode # "none" /\ reader.spans # <<>>
      /\ reader.spans \in Seq(BitsSpan) /\ reader.width \in Nat
  BY DEF BitsInv, BitsType
<1>2. Len(reader.spans) \in 1..MaxSpans
  BY <1>1, BoundsAssumption DEF BitsInv
<1>3. ASSUME NEW j \in 1..Len(reader.spans), NEW k \in 1..Len(reader.spans), j # k
      PROVE  reader.spans[j].high < reader.spans[k].low \/ reader.spans[k].high < reader.spans[j].low
  <2> DEFINE one == reader.spans[j]
             other == reader.spans[k]
  <2>1. /\ one \in BitsSpan /\ other \in BitsSpan
        /\ one.low <= one.high /\ other.low <= other.high
        /\ \A index \in one.low..one.high : reader.owner[index] = j
        /\ \A index \in other.low..other.high : reader.owner[index] = k
    BY <1>1 DEF BitsInv
  <2> HIDE DEF one, other
  <2>2. {one.low, one.high, other.low, other.high} \subseteq Nat
    BY <2>1 DEF BitsSpan
  <2>3. one.low \in one.low..one.high /\ other.low \in other.low..other.high
    BY <2>1, <2>2
  <2>4. ~(one.low \in other.low..other.high) /\ ~(other.low \in one.low..one.high)
    BY <1>3, <2>1, <2>3
  <2> QED
    BY <2>1, <2>2, <2>4 DEF one, other
<1> QED
  BY <1>1, <1>2, <1>3 DEF BitsInv, Bits!WellFormed, BitsEnd

-----------------------------------------------------------------------------
(* The reader of blocks. *)

ABlock == [id : Names, container : BOOLEAN, parent : Nat]
ALink  == [from : Nat, to : Nat]
ABlockNote == [block : Nat, side : {"left", "right", "none"}]

BlockType(r) ==
  r \in [blocks : Seq(ABlock), links : Seq(ALink), notes : Seq(ABlockNote), containers : Seq(Nat),
         note : ABlockNote, skipped : Blocks, outcome : Outcomes]

BlocksFit(r) ==
  /\ \A i, j \in 1..Len(r.blocks) : r.blocks[i].id = r.blocks[j].id => i = j
  /\ \A i \in 1..Len(r.blocks) : r.blocks[i].parent # 0 =>
       r.blocks[i].parent < i /\ r.blocks[r.blocks[i].parent].container
  /\ \A c \in 1..Len(r.containers) :
       r.containers[c] \in 1..Len(r.blocks) /\ r.blocks[r.containers[c]].container

BlockLinksFit(r) ==
  \A k \in 1..Len(r.links) : /\ r.links[k].from \in 1..Len(r.blocks)
                             /\ r.links[k].to \in 1..Len(r.blocks)
                             /\ r.links[k].from # r.links[k].to

BlockNotesFit(r) ==
  /\ \A m, n \in 1..Len(r.notes) : m # n => r.notes[m] # r.notes[n]
  /\ \A n \in 1..Len(r.notes) : r.notes[n].block \in 1..Len(r.blocks)
  /\ r.note # Block!NoNote =>
       r.note.block \in 1..Len(r.blocks) /\ \A n \in 1..Len(r.notes) : r.notes[n] # r.note

BlockInv(r) == BlockType(r) /\ BlocksFit(r) /\ BlockLinksFit(r) /\ BlockNotesFit(r)

LEMMA BlockEmpty == BlockInv(Block!Empty) /\ BlockInv(Block!Failed)
<1>1. Block!NoBlock \in Blocks /\ Block!NoNote \in ABlockNote
  BY SkippedAre DEF Block!NoBlock, Skipped!NoBlock, Block!NoNote, ABlockNote
<1>2. BlockType(Block!Empty)
  BY <1>1 DEF BlockType, Block!Empty, Outcomes
<1>3. BlockType(Block!Failed)
  BY <1>2 DEF BlockType, Block!Failed, Outcomes
<1>4. /\ Block!Empty.blocks = <<>> /\ Block!Empty.links = <<>> /\ Block!Empty.notes = <<>>
      /\ Block!Empty.containers = <<>> /\ Block!Empty.note = Block!NoNote
      /\ Block!Failed.blocks = <<>> /\ Block!Failed.links = <<>> /\ Block!Failed.notes = <<>>
      /\ Block!Failed.containers = <<>> /\ Block!Failed.note = Block!NoNote
  BY DEF Block!Empty, Block!Failed
<1> QED
  BY <1>2, <1>3, <1>4 DEF BlockInv, BlocksFit, BlockLinksFit, BlockNotesFit

LEMMA BlockReads ==
  ASSUME NEW r, BlockInv(r), Block!Reads(r)
  PROVE  BlockInv(reader')
BY BlockEmpty DEF Block!Reads

LEMMA BlockFound ==
  ASSUME BlockInv(reader), NEW id, Block!Found(reader, id) # {}
  PROVE  LET i == Block!First(Block!Found(reader, id))
         IN  i \in 1..Len(reader.blocks) /\ reader.blocks[i].id = id
<1> DEFINE found == Block!Found(reader, id)
<1>1. found \subseteq 1..Len(reader.blocks) /\ found \subseteq Nat
  BY DEF Block!Found
<1>2. \E i \in found : \A j \in found : i <= j
  BY <1>1, LeastOf
<1>3. Block!First(found) \in found
  BY <1>2 DEF Block!First
<1> QED
  BY <1>3 DEF Block!Found

LEMMA BlockDeclaration ==
  ASSUME BlockInv(reader), NEW line \in Block!Lines, Block!ReadDeclaration(line)
  PROVE  BlockInv(reader')
<1>1. CASE reader' = Block!Failed
  BY <1>1, BlockEmpty
<1>2. CASE Block!Found(reader, line.id) = {}
  <2> DEFINE block == [id |-> line.id, container |-> line.opens, parent |-> Block!Scope(reader)]
             n     == Len(reader.blocks) + 1
             containers == IF line.opens THEN Append(reader.containers, n) ELSE reader.containers
             r     == [reader EXCEPT !.blocks = Append(@, block), !.containers = containers]
  <2>1. line.id \in Names /\ line.opens \in BOOLEAN
    BY DEF Block!ReadDeclaration, Block!Lines, Block!BlockLines
  <2>2. Block!Reads(r)
    BY <1>2 DEF Block!ReadDeclaration, BlockInv, BlockType
  <2>3. /\ reader.blocks \in Seq(ABlock) /\ reader.containers \in Seq(Nat) /\ Len(reader.blocks) \in Nat
        /\ Len(reader.containers) \in Nat
    BY DEF BlockInv, BlockType
  <2>4. /\ Block!Scope(reader) \in Nat
        /\ Block!Scope(reader) # 0 => /\ Block!Scope(reader) \in 1..Len(reader.blocks)
                                      /\ reader.blocks[Block!Scope(reader)].container
    <3>1. CASE reader.containers = <<>>
      BY <3>1 DEF Block!Scope
    <3>2. CASE reader.containers # <<>>
      <4>1. Len(reader.containers) \in 1..Len(reader.containers)
        BY <2>3, <3>2
      <4> QED
        BY <2>3, <3>2, <4>1 DEF Block!Scope, BlockInv, BlocksFit
    <3> QED
      BY <3>1, <3>2
  <2>5. /\ block \in ABlock /\ block.id = line.id /\ block.parent = Block!Scope(reader)
        /\ block.container = line.opens
    BY <2>1, <2>4 DEF ABlock
  <2> HIDE DEF block
  <2>6. containers \in Seq(Nat)
    BY <2>3
  <2>7. /\ BlockType(r) /\ r.blocks = Append(reader.blocks, block) /\ r.containers = containers
        /\ r.links = reader.links /\ r.notes = reader.notes /\ r.note = reader.note
    <3>1. Append(reader.blocks, block) \in Seq(ABlock)
      BY <2>3, <2>5
    <3> HIDE DEF containers
    <3> QED
      BY <2>6, <3>1 DEF BlockInv, BlockType
  <2> HIDE DEF r
  <2>8. /\ Len(r.blocks) = n /\ r.blocks[n] = block
        /\ \A i \in 1..Len(reader.blocks) : r.blocks[i] = reader.blocks[i] /\ reader.blocks[i] \in ABlock
        /\ \A i \in 1..n : i \in 1..Len(reader.blocks) \/ i = n
    BY <2>3, <2>5, <2>7, AppendIs
  <2>9. \A i \in 1..Len(reader.blocks) : reader.blocks[i].id # line.id
    BY <1>2 DEF Block!Found
  <2>10. ASSUME NEW i \in 1..n, NEW j \in 1..n, r.blocks[i].id = r.blocks[j].id
         PROVE  i = j
    <3>1. CASE i \in 1..Len(reader.blocks) /\ j \in 1..Len(reader.blocks)
      <4>1. reader.blocks[i].id = reader.blocks[j].id
        BY <2>8, <2>10, <3>1
      <4> QED
        BY <3>1, <4>1 DEF BlockInv, BlocksFit
    <3>2. CASE i \in 1..Len(reader.blocks) /\ j = n
      BY <2>5, <2>8, <2>9, <2>10, <3>2
    <3>3. CASE i = n /\ j \in 1..Len(reader.blocks)
      BY <2>5, <2>8, <2>9, <2>10, <3>3
    <3> QED
      BY <2>8, <3>1, <3>2, <3>3
  <2>11. ASSUME NEW i \in 1..n, r.blocks[i].parent # 0
         PROVE  r.blocks[i].parent < i /\ r.blocks[r.blocks[i].parent].container
    <3>1. CASE i = n
      BY <2>3, <2>4, <2>5, <2>8, <2>11, <3>1
    <3>2. CASE i # n
      <4>1. i \in 1..Len(reader.blocks) /\ r.blocks[i] = reader.blocks[i] /\ reader.blocks[i] \in ABlock
        BY <2>8, <3>2
      <4>2. reader.blocks[i].parent < i /\ reader.blocks[reader.blocks[i].parent].container
        BY <2>11, <4>1 DEF BlockInv, BlocksFit
      <4>3. reader.blocks[i].parent \in 1..Len(reader.blocks)
        BY <2>3, <2>11, <4>1, <4>2 DEF ABlock
      <4> QED
        BY <2>8, <4>1, <4>2, <4>3
    <3> QED
      BY <3>1, <3>2
  <2>12. ASSUME NEW c \in 1..Len(containers)
         PROVE  containers[c] \in 1..n /\ r.blocks[containers[c]].container
    <3> DEFINE at == containers[c]
    <3>1. CASE c \in 1..Len(reader.containers)
      <4>1. at = reader.containers[c]
        BY <2>3, <3>1
      <4>2. at \in 1..Len(reader.blocks) /\ reader.blocks[at].container
        BY <3>1, <4>1 DEF BlockInv, BlocksFit
      <4> HIDE DEF at
      <4>3. r.blocks[at] = reader.blocks[at] /\ at \in 1..n
        BY <2>3, <2>8, <4>2
      <4> QED
        BY <4>2, <4>3 DEF at
    <3>2. CASE c \notin 1..Len(reader.containers)
      <4>1. line.opens /\ at = n
        BY <2>3, <3>2
      <4> HIDE DEF at
      <4>2. n \in 1..n
        BY <2>3
      <4> QED
        BY <2>5, <2>8, <4>1, <4>2 DEF at
    <3> QED
      BY <3>1, <3>2
  <2>13. BlocksFit(r)
    BY <2>7, <2>8, <2>10, <2>11, <2>12 DEF BlocksFit
  <2>14. 1..Len(reader.blocks) \subseteq 1..Len(r.blocks)
    BY <2>3, <2>8
  <2>15. BlockLinksFit(r) /\ BlockNotesFit(r)
    BY <2>7, <2>14 DEF BlockInv, BlockLinksFit, BlockNotesFit
  <2> QED
    BY <2>2, <2>7, <2>13, <2>15, BlockReads DEF BlockInv, r
<1> QED
  BY <1>1, <1>2 DEF Block!ReadDeclaration, Block!Fails

(* A change of the notes and of what is open leaves blocks and links alone. *)
LEMMA BlockChanged ==
  ASSUME BlockInv(reader), NEW r, Block!Reads(r), BlockType(r), r.blocks = reader.blocks,
         r.containers = reader.containers, BlockLinksFit(r), BlockNotesFit(r)
  PROVE  BlockInv(reader')
BY BlockReads DEF BlockInv, BlocksFit

LEMMA BlockClose ==
  ASSUME BlockInv(reader), NEW line \in Block!Lines, Block!ReadClose(line)
  PROVE  BlockInv(reader')
<1>1. CASE reader.containers = <<>>
  BY <1>1, BlockEmpty DEF Block!ReadClose, Block!Fails
<1>2. CASE reader.containers # <<>>
  <2> DEFINE rest == SubSeq(reader.containers, 1, Len(reader.containers) - 1)
             r    == [reader EXCEPT !.containers = rest]
  <2>1. Block!Reads(r)
    BY <1>2 DEF Block!ReadClose, BlockInv, BlockType
  <2>2. reader.containers \in Seq(Nat)
    BY DEF BlockInv, BlockType
  <2>3. /\ rest \in Seq(Nat) /\ Len(reader.containers) \in Nat \ {0}
        /\ Len(rest) = Len(reader.containers) - 1
        /\ \A i \in 1..Len(reader.containers) - 1 : rest[i] = reader.containers[i]
    BY <1>2, <2>2, ButLastIs
  <2> HIDE DEF rest
  <2>4. /\ BlockType(r) /\ r.blocks = reader.blocks /\ r.containers = rest
        /\ r.links = reader.links /\ r.notes = reader.notes /\ r.note = reader.note
    BY <2>3 DEF BlockInv, BlockType
  <2>5. ASSUME NEW c \in 1..Len(rest)
        PROVE  c \in 1..Len(reader.containers) /\ rest[c] = reader.containers[c]
    BY <2>3
  <2>6. BlocksFit(r)
    BY <2>4, <2>5 DEF BlockInv, BlocksFit
  <2>7. BlockLinksFit(r) /\ BlockNotesFit(r)
    BY <2>4 DEF BlockInv, BlockLinksFit, BlockNotesFit
  <2> QED
    BY <2>1, <2>4, <2>6, <2>7, BlockReads DEF BlockInv
<1> QED
  BY <1>1, <1>2

LEMMA BlockLink ==
  ASSUME BlockInv(reader), NEW line \in Block!Lines, Block!ReadLink(line)
  PROVE  BlockInv(reader')
<1> DEFINE from == Block!Found(reader, line.from)
           to   == Block!Found(reader, line.to)
           link == [from |-> Block!First(from), to |-> Block!First(to)]
           r    == [reader EXCEPT !.links = Append(@, link)]
<1>1. CASE reader' = Block!Failed
  BY <1>1, BlockEmpty
<1>2. CASE reader' # Block!Failed
  <2>1. from # {} /\ to # {} /\ Block!First(from) # Block!First(to) /\ Block!Reads(r)
    BY <1>2 DEF Block!ReadLink, Block!Fails, BlockInv, BlockType
  <2>2. Block!First(from) \in 1..Len(reader.blocks) /\ Block!First(to) \in 1..Len(reader.blocks)
    BY <2>1, BlockFound
  <2>3. reader.links \in Seq(ALink) /\ reader.blocks \in Seq(ABlock) /\ Len(reader.blocks) \in Nat
    BY DEF BlockInv, BlockType
  <2>4. link \in ALink /\ link.from = Block!First(from) /\ link.to = Block!First(to)
    BY <2>2, <2>3 DEF ALink
  <2> HIDE DEF link
  <2>5. /\ Append(reader.links, link) \in Seq(ALink)
        /\ Len(Append(reader.links, link)) = Len(reader.links) + 1
        /\ Append(reader.links, link)[Len(reader.links) + 1] = link
        /\ \A k \in 1..Len(reader.links) : Append(reader.links, link)[k] = reader.links[k]
        /\ \A k \in 1..Len(reader.links) + 1 : k \in 1..Len(reader.links) \/ k = Len(reader.links) + 1
    BY <2>3, <2>4, AppendIs
  <2>6. /\ BlockType(r) /\ r.blocks = reader.blocks /\ r.containers = reader.containers
        /\ r.links = Append(reader.links, link) /\ r.notes = reader.notes /\ r.note = reader.note
    BY <2>5 DEF BlockInv, BlockType
  <2> HIDE DEF r
  <2>7. BlockLinksFit(r)
    BY <2>1, <2>2, <2>4, <2>5, <2>6 DEF BlockInv, BlockLinksFit
  <2>8. BlockNotesFit(r)
    BY <2>6 DEF BlockInv, BlockNotesFit
  <2> QED
    BY <2>1, <2>6, <2>7, <2>8, BlockChanged
<1> QED
  BY <1>1, <1>2

(* A note that no block has yet is one more, and all of them still differ. *)
LEMMA BlockNoteAdded ==
  ASSUME BlockInv(reader), NEW note \in ABlockNote, note.block \in 1..Len(reader.blocks),
         \A n \in 1..Len(reader.notes) : reader.notes[n] # note,
         NEW r, Block!Reads(r), BlockType(r), r.blocks = reader.blocks, r.links = reader.links,
         r.containers = reader.containers, r.notes = Append(reader.notes, note), r.note = Block!NoNote
  PROVE  BlockInv(reader')
<1>1. reader.notes \in Seq(ABlockNote)
  BY DEF BlockInv, BlockType
<1>2. /\ Len(r.notes) = Len(reader.notes) + 1 /\ r.notes[Len(reader.notes) + 1] = note
      /\ \A n \in 1..Len(reader.notes) : r.notes[n] = reader.notes[n]
      /\ \A n \in 1..Len(reader.notes) + 1 : n \in 1..Len(reader.notes) \/ n = Len(reader.notes) + 1
  BY <1>1, AppendIs
<1>3. \A n \in 1..Len(r.notes) : r.notes[n].block \in 1..Len(r.blocks)
  BY <1>2 DEF BlockInv, BlockNotesFit
<1>4. ASSUME NEW m \in 1..Len(r.notes), NEW n \in 1..Len(r.notes), m # n
      PROVE  r.notes[m] # r.notes[n]
  <2>1. CASE m \in 1..Len(reader.notes) /\ n \in 1..Len(reader.notes)
    BY <1>2, <1>4, <2>1 DEF BlockInv, BlockNotesFit
  <2>2. CASE m \in 1..Len(reader.notes) /\ n = Len(reader.notes) + 1
    BY <1>2, <2>2
  <2>3. CASE m = Len(reader.notes) + 1 /\ n \in 1..Len(reader.notes)
    BY <1>2, <2>3
  <2> QED
    BY <1>2, <1>4, <2>1, <2>2, <2>3
<1>5. BlockNotesFit(r)
  BY <1>3, <1>4 DEF BlockNotesFit
<1>6. BlockLinksFit(r)
  BY DEF BlockInv, BlockLinksFit
<1> QED
  BY <1>5, <1>6, BlockChanged

LEMMA BlockNote ==
  ASSUME BlockInv(reader), NEW line \in Block!Lines, Block!ReadNote(line), reader.note = Block!NoNote
  PROVE  BlockInv(reader')
<1> DEFINE found == Block!Found(reader, line.id)
           note  == [block |-> Block!First(found), side |-> line.side]
<1>1. CASE reader' = Block!Failed
  BY <1>1, BlockEmpty
<1>2. CASE reader' # Block!Failed
  <2>1. /\ found # {} /\ ~Block!HasNote(reader, Block!First(found), line.side)
        /\ IF line.inline THEN Block!Reads([reader EXCEPT !.notes = Append(@, note)])
           ELSE Block!Reads([reader EXCEPT !.note = note])
    BY <1>2 DEF Block!ReadNote, Block!Fails
  <2>2. line.side \in {"left", "right"}
    BY DEF Block!ReadNote, Block!Lines, Block!BlockLines, Block!Sides
  <2>3. Block!First(found) \in 1..Len(reader.blocks)
    BY <2>1, BlockFound
  <2>4. reader.notes \in Seq(ABlockNote) /\ reader.blocks \in Seq(ABlock) /\ Len(reader.blocks) \in Nat
    BY DEF BlockInv, BlockType
  <2>5. note \in ABlockNote /\ note.block = Block!First(found)
    BY <2>2, <2>3, <2>4 DEF ABlockNote
  <2>6. \A n \in 1..Len(reader.notes) : reader.notes[n] # note
    BY <2>1 DEF Block!HasNote
  <2> HIDE DEF note
  <2>7. CASE line.inline
    <3> DEFINE r == [reader EXCEPT !.notes = Append(@, note)]
    <3>1. Append(reader.notes, note) \in Seq(ABlockNote)
      BY <2>4, <2>5
    <3>2. /\ BlockType(r) /\ r.blocks = reader.blocks /\ r.containers = reader.containers
          /\ r.links = reader.links /\ r.notes = Append(reader.notes, note) /\ r.note = Block!NoNote
      BY <3>1 DEF BlockInv, BlockType
    <3>3. Block!Reads(r)
      BY <2>1, <2>7
    <3> HIDE DEF r
    <3> QED
      BY <2>3, <2>5, <2>6, <3>2, <3>3, BlockNoteAdded
  <2>8. CASE ~line.inline
    <3> DEFINE r == [reader EXCEPT !.note = note]
    <3>1. /\ BlockType(r) /\ r.blocks = reader.blocks /\ r.containers = reader.containers
          /\ r.links = reader.links /\ r.notes = reader.notes /\ r.note = note
      BY <2>5 DEF BlockInv, BlockType
    <3>2. Block!Reads(r)
      BY <2>1, <2>8
    <3> HIDE DEF r
    <3>3. BlockLinksFit(r) /\ BlockNotesFit(r)
      BY <2>3, <2>5, <2>6, <3>1 DEF BlockInv, BlockLinksFit, BlockNotesFit
    <3> QED
      BY <3>1, <3>2, <3>3, BlockChanged
  <2> QED
    BY <2>7, <2>8
<1> QED
  BY <1>1, <1>2

LEMMA BlockNoteLine ==
  ASSUME BlockInv(reader), NEW line \in Block!Lines, Block!ReadNoteLine(line), reader.note # Block!NoNote
  PROVE  BlockInv(reader')
<1>1. CASE line.is # "endnote"
  BY <1>1, BlockReads DEF Block!ReadNoteLine
<1>2. CASE line.is = "endnote"
  <2> DEFINE r == [reader EXCEPT !.note = Block!NoNote, !.notes = Append(@, reader.note)]
  <2>1. Block!Reads(r)
    BY <1>2 DEF Block!ReadNoteLine, BlockInv, BlockType
  <2>2. reader.notes \in Seq(ABlockNote) /\ reader.note \in ABlockNote /\ Block!NoNote \in ABlockNote
    BY DEF BlockInv, BlockType, Block!NoNote, ABlockNote
  <2>3. Append(reader.notes, reader.note) \in Seq(ABlockNote)
    BY <2>2
  <2>4. /\ BlockType(r) /\ r.blocks = reader.blocks /\ r.containers = reader.containers
        /\ r.links = reader.links /\ r.notes = Append(reader.notes, reader.note) /\ r.note = Block!NoNote
    BY <2>2, <2>3 DEF BlockInv, BlockType
  <2>5. /\ reader.note.block \in 1..Len(reader.blocks)
        /\ \A n \in 1..Len(reader.notes) : reader.notes[n] # reader.note
    BY DEF BlockInv, BlockNotesFit
  <2> HIDE DEF r
  <2> QED
    BY <2>1, <2>2, <2>4, <2>5, BlockNoteAdded
<1> QED
  BY <1>1, <1>2

LEMMA BlockSkips ==
  ASSUME BlockInv(reader), NEW block \in Blocks, Block!Reads([reader EXCEPT !.skipped = block])
  PROVE  BlockInv(reader')
<1> DEFINE r == [reader EXCEPT !.skipped = block]
<1>1. /\ BlockType(r) /\ r.blocks = reader.blocks /\ r.containers = reader.containers
      /\ r.links = reader.links /\ r.notes = reader.notes /\ r.note = reader.note
  BY DEF BlockInv, BlockType
<1>2. BlockLinksFit(r) /\ BlockNotesFit(r)
  BY <1>1 DEF BlockInv, BlockLinksFit, BlockNotesFit
<1> HIDE DEF r
<1> QED
  BY <1>1, <1>2, BlockChanged DEF r

LEMMA BlockLine ==
  ASSUME BlockInv(reader), NEW line \in Block!Lines, Block!ReadLine(line)
  PROVE  BlockInv(reader')
<1>1. CASE Block!Reads([reader EXCEPT !.skipped = Block!Continued(@, line)])
  <2>1. Block!Continued(reader.skipped, line) \in Blocks
    BY SkippedAre DEF BlockInv, BlockType, Block!Continued, Skipped!Continued, Block!NoBlock,
       Skipped!NoBlock, Block!BraceBalance, Skipped!BraceBalance
  <2>2. Block!Reads([reader EXCEPT !.skipped = Block!Continued(reader.skipped, line)])
    BY <1>1 DEF BlockInv, BlockType
  <2> QED
    BY <2>1, <2>2, BlockSkips
<1>2. CASE Block!StartBlock(line)
  <2>1. line.name \in BlockNames
    BY <1>2 DEF Block!StartBlock, Block!Lines, Block!BlockLines, BlockNames
  <2>2. Block!Started(line) \in Blocks
    BY <2>1, SkippedAre DEF Block!Started, Skipped!Started, Block!NoBlock, Skipped!NoBlock
  <2> QED
    BY <1>2, <2>2, BlockSkips DEF Block!StartBlock
<1>3. CASE Block!ReadClose(line)
  BY <1>3, BlockClose
<1>4. CASE Block!ReadDeclaration(line)
  BY <1>4, BlockDeclaration
<1>5. CASE Block!ReadLink(line)
  BY <1>5, BlockLink
<1>6. CASE reader.note = Block!NoNote /\ Block!ReadNote(line)
  BY <1>6, BlockNote
<1>7. CASE reader.note # Block!NoNote /\ Block!ReadNoteLine(line)
  BY <1>7, BlockNoteLine
<1>8. CASE Block!ReadIgnored(line) \/ Block!ReadUnsupported(line)
  BY <1>8, BlockReads, BlockEmpty DEF Block!ReadIgnored, Block!ReadUnsupported, Block!Fails
<1> QED
  BY <1>1, <1>2, <1>3, <1>4, <1>5, <1>6, <1>7, <1>8 DEF Block!ReadLine, Block!ReadStatement

LEMMA BlockFinish ==
  ASSUME BlockInv(reader), Block!Finish
  PROVE  BlockInv(reader')
<1>1. CASE reader' = Block!Failed
  BY <1>1, BlockEmpty
<1>2. CASE reader' # Block!Failed
  <2>1. reader' = [reader EXCEPT !.outcome = "parsed"]
    BY <1>2 DEF Block!Finish
  <2>2. /\ BlockType(reader') /\ reader'.blocks = reader.blocks /\ reader'.links = reader.links
        /\ reader'.notes = reader.notes /\ reader'.containers = reader.containers
        /\ reader'.note = reader.note
    BY <2>1 DEF BlockInv, BlockType, Outcomes
  <2> QED
    BY <2>2 DEF BlockInv, BlocksFit, BlockLinksFit, BlockNotesFit
<1> QED
  BY <1>1, <1>2

LEMMA BlockWellFormed ==
  ASSUME BlockInv(reader)
  PROVE  Block!WellFormed(reader)
BY DEF BlockInv, BlocksFit, BlockLinksFit, BlockNotesFit, Block!WellFormed

-----------------------------------------------------------------------------
(* The reader of classes: every member read is in one compartment, of a class or of the open *)
(* body, and a body that closes hands its members over to its class.                         *)

AType == [id : Names, enum : BOOLEAN, compartments : SUBSET SUBSET Nat]
ABody == [type : Nat, above : SUBSET SUBSET Nat, last : SUBSET Nat, separated : BOOLEAN]
ATypeNote == [type : Nat, side : {"left", "right", "none"}]

ClassType(r) ==
  r \in [types : Seq(AType), relations : Seq(ALink), notes : Seq(ATypeNote), members : Nat,
         methods : SUBSET Nat, declared : SUBSET Nat, body : ABody, note : ATypeNote,
         skipped : Blocks, outcome : Outcomes]

ClassNamesFit(r) ==
  /\ \A i, j \in 1..Len(r.types) : r.types[i].id = r.types[j].id => i = j
  /\ \A i \in 1..Len(r.types) : {} \notin r.types[i].compartments

ClassRelationsFit(r) ==
  \A k \in 1..Len(r.relations) : /\ r.relations[k].from \in 1..Len(r.types)
                                 /\ r.relations[k].to \in 1..Len(r.types)

ClassNotesFit(r) ==
  /\ \A m, n \in 1..Len(r.notes) : m # n => r.notes[m] # r.notes[n]
  /\ \A n \in 1..Len(r.notes) : r.notes[n].type \in 1..Len(r.types)
  /\ r.note # Class!NoNote =>
       r.note.type \in 1..Len(r.types) /\ \A n \in 1..Len(r.notes) : r.notes[n] # r.note

ClassBodyFits(r) ==
  /\ r.body.type \in 0..Len(r.types)
  /\ r.body.type = 0 => r.body = Class!NoBody
  /\ ~r.body.separated => r.body.above = {}

ClassMembersFit(r) ==
  /\ \A m \in 1..r.members : \/ \E i \in 1..Len(r.types) : \E c \in r.types[i].compartments : m \in c
                             \/ \E c \in r.body.above : m \in c
                             \/ m \in r.body.last
  /\ \A i, j \in 1..Len(r.types) : \A c \in r.types[i].compartments : \A d \in r.types[j].compartments :
       c \cap d = {} \/ (i = j /\ c = d)
  /\ \A i \in 1..Len(r.types) : \A c \in r.types[i].compartments :
       /\ c \subseteq 1..r.members /\ c \cap r.body.last = {}
       /\ \A d \in r.body.above : c \cap d = {}
  /\ \A c \in r.body.above :
       /\ c \subseteq 1..r.members /\ c \cap r.body.last = {}
       /\ \A d \in r.body.above : c \cap d = {} \/ c = d
  /\ r.body.last \subseteq 1..r.members

ClassInv(r) ==
  /\ ClassType(r) /\ ClassNamesFit(r) /\ ClassRelationsFit(r) /\ ClassNotesFit(r)
  /\ ClassBodyFits(r) /\ ClassMembersFit(r)

LEMMA ReplacedIs ==
  ASSUME NEW S, NEW s \in Seq(S), NEW i \in 1..Len(s), NEW e \in S
  PROVE  /\ [s EXCEPT ![i] = e] \in Seq(S) /\ Len([s EXCEPT ![i] = e]) = Len(s) /\ Len(s) \in Nat
         /\ [s EXCEPT ![i] = e][i] = e
         /\ \A j \in 1..Len(s) : j # i => [s EXCEPT ![i] = e][j] = s[j]
         /\ \A j \in 1..Len(s) : s[j] \in S
OBVIOUS

LEMMA ClassEmpty == ClassInv(Class!Empty) /\ ClassInv(Class!Failed)
<1>1. Class!NoBlock \in Blocks /\ Class!NoNote \in ATypeNote /\ Class!NoBody \in ABody
  BY SkippedAre DEF Class!NoBlock, Skipped!NoBlock, Class!NoNote, ATypeNote, Class!NoBody, ABody
<1>2. ClassType(Class!Empty)
  BY <1>1 DEF ClassType, Class!Empty, Outcomes
<1>3. ClassType(Class!Failed)
  BY <1>2 DEF ClassType, Class!Failed, Outcomes
<1>4. ASSUME NEW r \in {Class!Empty, Class!Failed}
      PROVE  /\ r.types = <<>> /\ r.relations = <<>> /\ r.notes = <<>> /\ r.note = Class!NoNote
             /\ r.members = 0 /\ r.body = Class!NoBody
  BY DEF Class!Empty, Class!Failed
<1>5. Class!NoBody.type = 0 /\ Class!NoBody.above = {} /\ Class!NoBody.last = {}
  BY DEF Class!NoBody
<1> QED
  BY <1>2, <1>3, <1>4, <1>5 DEF ClassInv, ClassNamesFit, ClassRelationsFit, ClassNotesFit, ClassBodyFits,
     ClassMembersFit

LEMMA ClassReads ==
  ASSUME NEW r, ClassInv(r), Class!Reads(r)
  PROVE  ClassInv(reader')
BY ClassEmpty DEF Class!Reads

(* What a change of the classes leaves alone as long as their compartments stay. *)
LEMMA ClassKept ==
  ASSUME NEW r, ClassInv(r), NEW s, ClassType(s), ClassNamesFit(s), s.body = r.body,
         s.members = r.members, s.relations = r.relations, s.notes = r.notes, s.note = r.note,
         \A i \in 1..Len(r.types) :
           i \in 1..Len(s.types) /\ s.types[i].compartments = r.types[i].compartments,
         \A i \in 1..Len(s.types) : i \in 1..Len(r.types) \/ s.types[i].compartments = {}
  PROVE  ClassInv(s)
<1>1. Len(r.types) \in Nat /\ Len(s.types) \in Nat /\ 1..Len(r.types) \subseteq 1..Len(s.types)
  BY DEF ClassInv, ClassType
<1>2. Len(r.types) <= Len(s.types)
  BY <1>1
<1>3. ClassRelationsFit(s) /\ ClassNotesFit(s)
  BY <1>1 DEF ClassInv, ClassRelationsFit, ClassNotesFit
<1>4. ClassBodyFits(s)
  BY <1>1, <1>2 DEF ClassInv, ClassBodyFits
<1>5. \A i \in 1..Len(s.types) : \A c \in s.types[i].compartments :
        i \in 1..Len(r.types) /\ c \in r.types[i].compartments
  OBVIOUS
<1>6. ClassMembersFit(s)
  <2>1. \A m \in 1..s.members : \/ \E i \in 1..Len(s.types) : \E c \in s.types[i].compartments : m \in c
                                \/ \E c \in s.body.above : m \in c
                                \/ m \in s.body.last
    BY DEF ClassInv, ClassMembersFit
  <2>2. \A i, j \in 1..Len(s.types) : \A c \in s.types[i].compartments : \A d \in s.types[j].compartments :
          c \cap d = {} \/ (i = j /\ c = d)
    BY <1>5 DEF ClassInv, ClassMembersFit
  <2>3. \A i \in 1..Len(s.types) : \A c \in s.types[i].compartments :
          /\ c \subseteq 1..s.members /\ c \cap s.body.last = {}
          /\ \A d \in s.body.above : c \cap d = {}
    BY <1>5 DEF ClassInv, ClassMembersFit
  <2> QED
    BY <2>1, <2>2, <2>3 DEF ClassInv, ClassMembersFit
<1> QED
  BY <1>3, <1>4, <1>6 DEF ClassInv

LEMMA ClassFound ==
  ASSUME NEW r, ClassType(r), NEW id, Class!Found(r, id) # {}
  PROVE  LET i == Class!First(Class!Found(r, id))
         IN  i \in 1..Len(r.types) /\ r.types[i].id = id
<1> DEFINE found == Class!Found(r, id)
<1>1. found \subseteq 1..Len(r.types) /\ found \subseteq Nat
  BY DEF Class!Found
<1>2. \E i \in found : \A j \in found : i <= j
  BY <1>1, LeastOf
<1>3. Class!First(found) \in found
  BY <1>2 DEF Class!First
<1> QED
  BY <1>3 DEF Class!Found

(* A name that is looked up has a class from then on. *)
LEMMA ClassResolved ==
  ASSUME NEW r, ClassInv(r), NEW id \in Names
  PROVE  LET s == Class!Resolved(r, id)
         IN  /\ ClassInv(s)
             /\ Class!IndexOf(r, id) \in 1..Len(s.types)
             /\ 1..Len(r.types) \subseteq 1..Len(s.types)
             /\ s.body = r.body /\ s.members = r.members /\ s.note = r.note
<1> DEFINE s == Class!Resolved(r, id)
<1>1. CASE Class!Found(r, id) # {}
  <2>1. s = r
    BY <1>1 DEF Class!Resolved
  <2>2. Class!IndexOf(r, id) \in 1..Len(s.types)
    BY <1>1, <2>1, ClassFound DEF Class!IndexOf, ClassInv
  <2> QED
    BY <2>1, <2>2
<1>2. CASE Class!Found(r, id) = {}
  <2> DEFINE type == [id |-> id, enum |-> FALSE, compartments |-> {}]
             n    == Len(r.types) + 1
  <2>1. r.types \in Seq(AType)
    BY DEF ClassInv, ClassType
  <2>2. type \in AType /\ type.id = id /\ type.compartments = {}
    BY DEF AType
  <2>3. s = [r EXCEPT !.types = Append(r.types, type)]
    BY <1>2 DEF Class!Resolved, ClassInv, ClassType
  <2> HIDE DEF type
  <2>4. /\ Append(r.types, type) \in Seq(AType) /\ Len(r.types) \in Nat
        /\ Len(Append(r.types, type)) = n
        /\ Append(r.types, type)[n] = type
        /\ \A i \in 1..Len(r.types) : Append(r.types, type)[i] = r.types[i]
        /\ \A i \in 1..n : i \in 1..Len(r.types) \/ i = n
    BY <2>1, <2>2, AppendIs
  <2>5. /\ ClassType(s) /\ s.types = Append(r.types, type) /\ s.body = r.body
        /\ s.members = r.members /\ s.relations = r.relations /\ s.notes = r.notes /\ s.note = r.note
    BY <2>3, <2>4 DEF ClassInv, ClassType
  <2> HIDE DEF s
  <2>6. 1..Len(r.types) \subseteq 1..n /\ n \in 1..n
    BY <2>4
  <2>7. \A i \in 1..Len(r.types) : r.types[i].id # id
    BY <1>2 DEF Class!Found
  <2>8. ASSUME NEW i \in 1..n, NEW j \in 1..n, s.types[i].id = s.types[j].id
        PROVE  i = j
    <3>1. CASE i \in 1..Len(r.types) /\ j \in 1..Len(r.types)
      BY <2>4, <2>5, <2>8, <3>1 DEF ClassInv, ClassNamesFit
    <3>2. CASE i \in 1..Len(r.types) /\ j = n
      BY <2>2, <2>4, <2>5, <2>7, <2>8, <3>2
    <3>3. CASE i = n /\ j \in 1..Len(r.types)
      BY <2>2, <2>4, <2>5, <2>7, <2>8, <3>3
    <3> QED
      BY <2>4, <3>1, <3>2, <3>3
  <2>9. \A i \in 1..n : {} \notin s.types[i].compartments
    BY <2>2, <2>4, <2>5 DEF ClassInv, ClassNamesFit
  <2>10. ClassNamesFit(s)
    BY <2>4, <2>5, <2>8, <2>9 DEF ClassNamesFit
  <2>11. ClassInv(s)
    BY <2>2, <2>4, <2>5, <2>6, <2>10, ClassKept
  <2>12. n \in Class!Found(s, id)
    BY <2>2, <2>4, <2>5, <2>6 DEF Class!Found
  <2>13. Class!IndexOf(r, id) \in 1..Len(s.types)
    BY <2>5, <2>12, ClassFound DEF Class!IndexOf, s
  <2> QED
    BY <2>4, <2>5, <2>6, <2>11, <2>13 DEF s
<1> QED
  BY <1>1, <1>2

(* A body that closes: its members go to compartments of its class that nothing else shares. *)
LEMMA ClassClosed ==
  ASSUME NEW r, ClassInv(r), r.body.type # 0
  PROVE  ClassInv(Class!BodyClosed(r)) /\ Class!BodyClosed(r).body = Class!NoBody
<1> DEFINE b     == r.body.type
           new   == Class!Compartments(r, r.types[b].enum)
           type  == [r.types[b] EXCEPT !.compartments = @ \cup new]
           types == [r.types EXCEPT ![b] = type]
           s     == Class!BodyClosed(r)
<1>1. /\ r.types \in Seq(AType) /\ Len(r.types) \in Nat /\ r.body \in ABody /\ r.methods \subseteq Nat
      /\ r.members \in Nat
  BY DEF ClassInv, ClassType
<1>2. b \in 1..Len(r.types) /\ r.types[b] \in AType
  BY <1>1 DEF ClassInv, ClassBodyFits
<1>3. /\ r.body.above \in SUBSET SUBSET Nat /\ r.body.last \in SUBSET Nat
      /\ ~r.body.separated => r.body.above = {}
  BY <1>1 DEF ABody, ClassInv, ClassBodyFits
<1>4. \/ new = (r.body.above \cup {r.body.last}) \ {{}}
      \/ r.body.above = {} /\ new = {r.body.last \ r.methods, r.body.last \cap r.methods} \ {{}}
  BY <1>3 DEF Class!Compartments
<1>5. /\ {} \notin new
      /\ new \in SUBSET SUBSET Nat
      /\ \A c \in new : c \subseteq r.body.last \/ c \in r.body.above
      /\ \A m : (m \in r.body.last \/ \E c \in r.body.above : m \in c) => \E c \in new : m \in c
      /\ \A c, d \in new : c \cap d = {} \/ c = d
  <2>1. {} \notin new
    BY <1>4
  <2>2. new \in SUBSET SUBSET Nat
    BY <1>3, <1>4
  <2>3. \A c \in new : c \subseteq r.body.last \/ c \in r.body.above
    BY <1>4
  <2>4. ASSUME NEW m, m \in r.body.last \/ \E c \in r.body.above : m \in c
        PROVE  \E c \in new : m \in c
    <3>1. CASE new = (r.body.above \cup {r.body.last}) \ {{}}
      BY <2>4, <3>1
    <3>2. CASE r.body.above = {} /\ new = {r.body.last \ r.methods, r.body.last \cap r.methods} \ {{}}
      <4>1. m \in r.body.last
        BY <2>4, <3>2
      <4>2. CASE m \in r.methods
        BY <3>2, <4>1, <4>2
      <4>3. CASE m \notin r.methods
        <5>1. m \in r.body.last \ r.methods
          BY <4>1, <4>3
        <5>2. r.body.last \ r.methods \in new
          BY <3>2, <5>1
        <5> QED
          BY <5>1, <5>2
      <4> QED
        BY <4>2, <4>3
    <3> QED
      BY <1>4, <3>1, <3>2
  <2>5. ASSUME NEW c \in new, NEW d \in new
        PROVE  c \cap d = {} \/ c = d
    <3>1. CASE new = (r.body.above \cup {r.body.last}) \ {{}}
      <4>1. \A x \in r.body.above : x \cap r.body.last = {} /\ \A y \in r.body.above : x \cap y = {} \/ x = y
        BY DEF ClassInv, ClassMembersFit
      <4>2. (c \in r.body.above \/ c = r.body.last) /\ (d \in r.body.above \/ d = r.body.last)
        BY <3>1
      <4> QED
        BY <4>1, <4>2
    <3>2. CASE r.body.above = {} /\ new = {r.body.last \ r.methods, r.body.last \cap r.methods} \ {{}}
      BY <3>2
    <3> QED
      BY <1>4, <3>1, <3>2
  <2> QED
    BY <2>1, <2>2, <2>3, <2>4, <2>5
<1> HIDE DEF new
<1>6. /\ type \in AType /\ type.id = r.types[b].id
      /\ type.compartments = r.types[b].compartments \cup new
  BY <1>2, <1>5 DEF AType
<1> HIDE DEF type
<1>7. /\ types \in Seq(AType) /\ Len(types) = Len(r.types) /\ types[b] = type
      /\ \A i \in 1..Len(r.types) : i # b => types[i] = r.types[i]
  BY <1>1, <1>2, <1>6, ReplacedIs
<1>8. s = [r EXCEPT !.body = Class!NoBody, !.types = types]
  <2>1. s = [r EXCEPT !.body = Class!NoBody, !.types[b].compartments = @ \cup new]
    BY DEF Class!BodyClosed, new
  <2> QED
    BY <2>1 DEF types, type, ClassInv, ClassType
<1> HIDE DEF types
<1>9. Class!NoBody \in ABody /\ Class!NoBody.type = 0 /\ Class!NoBody.above = {} /\ Class!NoBody.last = {}
  BY DEF Class!NoBody, ABody
<1>10. /\ ClassType(s) /\ s.types = types /\ s.body = Class!NoBody /\ s.members = r.members
       /\ s.relations = r.relations /\ s.notes = r.notes /\ s.note = r.note
  BY <1>7, <1>8, <1>9 DEF ClassInv, ClassType
<1> HIDE DEF s
<1>11. \A i \in 1..Len(r.types) : s.types[i].id = r.types[i].id
  BY <1>6, <1>7, <1>10
<1>12. \A i \in 1..Len(r.types) : \A c \in s.types[i].compartments :
         c \in r.types[i].compartments \/ (i = b /\ c \in new)
  BY <1>6, <1>7, <1>10
<1>13. ClassNamesFit(s)
  BY <1>5, <1>7, <1>10, <1>11, <1>12 DEF ClassInv, ClassNamesFit
<1>14. ClassRelationsFit(s) /\ ClassNotesFit(s)
  BY <1>7, <1>10 DEF ClassInv, ClassRelationsFit, ClassNotesFit
<1>15. ClassBodyFits(s)
  BY <1>1, <1>9, <1>10, <1>7 DEF ClassBodyFits
<1>16. ClassMembersFit(s)
  <2>1. ASSUME NEW m \in 1..s.members
        PROVE  \E i \in 1..Len(s.types) : \E c \in s.types[i].compartments : m \in c
    <3>1. CASE \E i \in 1..Len(r.types) : \E c \in r.types[i].compartments : m \in c
      <4>1. PICK i \in 1..Len(r.types) : \E c \in r.types[i].compartments : m \in c
        BY <3>1
      <4>2. r.types[i].compartments \subseteq s.types[i].compartments
        BY <1>6, <1>7, <1>10
      <4> QED
        BY <1>7, <1>10, <4>1, <4>2
    <3>2. CASE m \in r.body.last \/ \E c \in r.body.above : m \in c
      <4>1. \E c \in new : m \in c
        BY <1>5, <3>2
      <4> QED
        BY <1>2, <1>6, <1>7, <1>10, <4>1
    <3> QED
      BY <1>10, <3>1, <3>2 DEF ClassInv, ClassMembersFit
  <2>2. ASSUME NEW i \in 1..Len(r.types), NEW c \in r.types[i].compartments, NEW d \in new
        PROVE  c \cap d = {}
    <3>1. c \cap r.body.last = {} /\ \A x \in r.body.above : c \cap x = {}
      BY DEF ClassInv, ClassMembersFit
    <3>2. d \subseteq r.body.last \/ d \in r.body.above
      BY <1>5
    <3> QED
      BY <3>1, <3>2
  <2>3. ASSUME NEW i \in 1..Len(r.types), NEW j \in 1..Len(r.types),
               NEW c \in s.types[i].compartments, NEW d \in s.types[j].compartments
        PROVE  c \cap d = {} \/ (i = j /\ c = d)
    <3>1. CASE c \in r.types[i].compartments /\ d \in r.types[j].compartments
      BY <3>1 DEF ClassInv, ClassMembersFit
    <3>2. CASE c \in r.types[i].compartments /\ j = b /\ d \in new
      BY <2>2, <3>2
    <3>3. CASE i = b /\ c \in new /\ d \in r.types[j].compartments
      BY <2>2, <3>3
    <3>4. CASE i = b /\ c \in new /\ j = b /\ d \in new
      BY <1>5, <3>4
    <3> QED
      BY <1>12, <3>1, <3>2, <3>3, <3>4
  <2>4. ASSUME NEW i \in 1..Len(r.types), NEW c \in s.types[i].compartments
        PROVE  c \subseteq 1..s.members
    <3>1. CASE c \in r.types[i].compartments
      BY <1>10, <3>1 DEF ClassInv, ClassMembersFit
    <3>2. CASE c \in new
      <4>1. c \subseteq r.body.last \/ c \in r.body.above
        BY <1>5, <3>2
      <4> QED
        BY <1>10, <4>1 DEF ClassInv, ClassMembersFit
    <3> QED
      BY <1>12, <3>1, <3>2
  <2> QED
    BY <1>7, <1>9, <1>10, <2>1, <2>3, <2>4 DEF ClassMembersFit
<1> QED
  BY <1>10, <1>13, <1>14, <1>15, <1>16 DEF ClassInv, s

LEMMA ClassDeclaration ==
  ASSUME ClassInv(reader), NEW line \in Class!Lines, Class!ReadDeclaration(line),
         reader.body = Class!NoBody
  PROVE  ClassInv(reader')
<1> DEFINE base   == Class!Resolved(reader, line.id)
           i      == Class!IndexOf(reader, line.id)
           r      == [base EXCEPT !.types[i].enum = line.enum, !.declared = @ \cup {i}]
           opened == [r EXCEPT !.body = [Class!NoBody EXCEPT !.type = i]]
<1>1. line.id \in Names /\ line.enum \in BOOLEAN /\ line.opens \in BOOLEAN /\ line.closes \in BOOLEAN
  BY DEF Class!ReadDeclaration, Class!Lines, Class!BlockLines
<1>2. ClassInv(base) /\ i \in 1..Len(base.types) /\ base.body = Class!NoBody
  BY <1>1, ClassResolved
<1> HIDE DEF base, i
<1>3. ClassInv(r) /\ r.body = Class!NoBody /\ Len(r.types) = Len(base.types)
  <2> DEFINE type  == [base.types[i] EXCEPT !.enum = line.enum]
             types == [base.types EXCEPT ![i] = type]
  <2>1. base.types \in Seq(AType) /\ Len(base.types) \in Nat
    BY <1>2 DEF ClassInv, ClassType
  <2>2. base.types[i] \in AType
    BY <1>2, <2>1
  <2>3. /\ type \in AType /\ type.id = base.types[i].id
        /\ type.compartments = base.types[i].compartments
    BY <1>1, <2>2 DEF AType
  <2> HIDE DEF type
  <2>4. /\ types \in Seq(AType) /\ Len(types) = Len(base.types) /\ types[i] = type
        /\ \A j \in 1..Len(base.types) : j # i => types[j] = base.types[j]
    BY <1>2, <2>1, <2>3, ReplacedIs
  <2>5. r = [base EXCEPT !.types = types, !.declared = base.declared \cup {i}]
    BY <1>2 DEF types, type, ClassInv, ClassType
  <2> HIDE DEF types
  <2>6. base.declared \cup {i} \in SUBSET Nat
    BY <1>2 DEF ClassInv, ClassType
  <2>7. /\ ClassType(r) /\ r.types = types /\ r.body = base.body /\ r.members = base.members
        /\ r.relations = base.relations /\ r.notes = base.notes /\ r.note = base.note
    BY <1>2, <2>4, <2>5, <2>6 DEF ClassInv, ClassType
  <2> HIDE DEF r
  <2>8. \A j \in 1..Len(base.types) :
          r.types[j].id = base.types[j].id /\ r.types[j].compartments = base.types[j].compartments
    BY <2>3, <2>4, <2>7
  <2>9. ClassNamesFit(r)
    BY <1>2, <2>4, <2>7, <2>8 DEF ClassInv, ClassNamesFit
  <2>10. ClassInv(r)
    BY <1>2, <2>4, <2>7, <2>8, <2>9, ClassKept
  <2> QED
    BY <1>2, <2>4, <2>7, <2>10
<1> HIDE DEF r
<1>4. ClassInv(opened) /\ opened.body.type # 0
  <2> DEFINE body == [Class!NoBody EXCEPT !.type = i]
  <2>1. /\ body.type = i /\ body.above = {} /\ body.last = {}
        /\ Class!NoBody.type = 0 /\ Class!NoBody.above = {} /\ Class!NoBody.last = {}
    BY DEF Class!NoBody
  <2>2. Len(base.types) \in Nat /\ i \in Nat \ {0}
    BY <1>2 DEF ClassInv, ClassType
  <2>3. body \in ABody
    BY <2>2 DEF ABody, Class!NoBody
  <2> HIDE DEF body
  <2>4. /\ ClassType(opened) /\ opened.types = r.types /\ opened.members = r.members
        /\ opened.relations = r.relations /\ opened.notes = r.notes /\ opened.note = r.note
        /\ opened.body.type = i /\ opened.body.above = {} /\ opened.body.last = {}
    BY <1>3, <2>1, <2>3 DEF ClassInv, ClassType, body
  <2> HIDE DEF opened
  <2>5. ClassNamesFit(opened) /\ ClassRelationsFit(opened) /\ ClassNotesFit(opened)
    <3>1. ClassNamesFit(r) /\ ClassRelationsFit(r) /\ ClassNotesFit(r)
      BY <1>3 DEF ClassInv
    <3>2. ClassNamesFit(opened)
      BY <2>4, <3>1 DEF ClassNamesFit
    <3>3. ClassRelationsFit(opened)
      BY <2>4, <3>1 DEF ClassRelationsFit
    <3>4. ClassNotesFit(opened)
      BY <2>4, <3>1 DEF ClassNotesFit
    <3> QED
      BY <3>2, <3>3, <3>4
  <2>6. ClassBodyFits(opened)
    BY <1>2, <1>3, <2>2, <2>4 DEF ClassBodyFits
  <2>7. ClassMembersFit(opened)
    BY <1>3, <2>1, <2>4 DEF ClassInv, ClassMembersFit
  <2> QED
    BY <2>2, <2>4, <2>5, <2>6, <2>7 DEF ClassInv
<1>5. \/ reader' = Class!Failed
      \/ Class!Reads(r) \/ Class!Reads(Class!BodyClosed(opened)) \/ Class!Reads(opened)
  BY DEF Class!ReadDeclaration, Class!Fails, base, i, r
<1> HIDE DEF opened
<1> QED
  BY <1>3, <1>4, <1>5, ClassReads, ClassClosed, ClassEmpty

LEMMA ClassRelation ==
  ASSUME ClassInv(reader), NEW line \in Class!Lines, Class!ReadRelation(line)
  PROVE  ClassInv(reader')
<1> DEFINE r        == Class!Resolved(reader, line.from)
           s        == Class!Resolved(r, line.to)
           relation == [from |-> Class!IndexOf(reader, line.from), to |-> Class!IndexOf(r, line.to)]
           t        == [s EXCEPT !.relations = Append(@, relation)]
<1>1. line.from \in Names /\ line.to \in Names
  BY DEF Class!ReadRelation, Class!Lines, Class!BlockLines
<1>2. ClassInv(r) /\ Class!IndexOf(reader, line.from) \in 1..Len(r.types)
  BY <1>1, ClassResolved
<1>3. /\ ClassInv(s) /\ Class!IndexOf(r, line.to) \in 1..Len(s.types)
      /\ 1..Len(r.types) \subseteq 1..Len(s.types)
  BY <1>1, <1>2, ClassResolved
<1>4. Class!Reads(t)
  BY DEF Class!ReadRelation
<1>5. /\ relation.from \in 1..Len(s.types) /\ relation.to \in 1..Len(s.types)
      /\ relation \in [from : 1..Len(s.types), to : 1..Len(s.types)]
  BY <1>2, <1>3
<1> HIDE DEF r, s, relation
<1>6. relation \in ALink /\ s.relations \in Seq(ALink)
  BY <1>3, <1>5 DEF ALink, ClassInv, ClassType
<1>7. /\ Append(s.relations, relation) \in Seq(ALink)
      /\ Len(Append(s.relations, relation)) = Len(s.relations) + 1
      /\ Append(s.relations, relation)[Len(s.relations) + 1] = relation
      /\ \A k \in 1..Len(s.relations) : Append(s.relations, relation)[k] = s.relations[k]
      /\ \A k \in 1..Len(s.relations) + 1 : k \in 1..Len(s.relations) \/ k = Len(s.relations) + 1
  BY <1>6, AppendIs
<1>8. /\ ClassType(t) /\ t.types = s.types /\ t.body = s.body /\ t.members = s.members
      /\ t.relations = Append(s.relations, relation) /\ t.notes = s.notes /\ t.note = s.note
  BY <1>3, <1>7 DEF ClassInv, ClassType
<1> HIDE DEF t
<1>9. ClassRelationsFit(t)
  BY <1>3, <1>5, <1>7, <1>8 DEF ClassInv, ClassRelationsFit
<1>10. ClassNamesFit(t) /\ ClassNotesFit(t) /\ ClassBodyFits(t) /\ ClassMembersFit(t)
  BY <1>3, <1>8 DEF ClassInv, ClassNamesFit, ClassNotesFit, ClassBodyFits, ClassMembersFit
<1> QED
  BY <1>4, <1>8, <1>9, <1>10, ClassReads DEF ClassInv

(* A change of the notes and of the skipped block leaves the rest alone. *)
LEMMA ClassChanged ==
  ASSUME ClassInv(reader), NEW r, Class!Reads(r), ClassType(r), r.types = reader.types,
         r.relations = reader.relations, r.body = reader.body, r.members = reader.members,
         ClassNotesFit(r)
  PROVE  ClassInv(reader')
<1>1. ClassNamesFit(r)
  BY DEF ClassInv, ClassNamesFit
<1>2. ClassRelationsFit(r)
  BY DEF ClassInv, ClassRelationsFit
<1>3. ClassBodyFits(r)
  BY DEF ClassInv, ClassBodyFits
<1>4. ClassMembersFit(r)
  BY DEF ClassInv, ClassMembersFit
<1> QED
  BY <1>1, <1>2, <1>3, <1>4, ClassReads DEF ClassInv

LEMMA ClassNoteAdded ==
  ASSUME ClassInv(reader), NEW note \in ATypeNote, note.type \in 1..Len(reader.types),
         \A n \in 1..Len(reader.notes) : reader.notes[n] # note,
         NEW r, Class!Reads(r), ClassType(r), r.types = reader.types, r.relations = reader.relations,
         r.body = reader.body, r.members = reader.members,
         r.notes = Append(reader.notes, note), r.note = Class!NoNote
  PROVE  ClassInv(reader')
<1>1. reader.notes \in Seq(ATypeNote)
  BY DEF ClassInv, ClassType
<1>2. /\ Len(r.notes) = Len(reader.notes) + 1 /\ r.notes[Len(reader.notes) + 1] = note
      /\ \A n \in 1..Len(reader.notes) : r.notes[n] = reader.notes[n]
      /\ \A n \in 1..Len(reader.notes) + 1 : n \in 1..Len(reader.notes) \/ n = Len(reader.notes) + 1
  BY <1>1, AppendIs
<1>3. \A n \in 1..Len(r.notes) : r.notes[n].type \in 1..Len(r.types)
  BY <1>2 DEF ClassInv, ClassNotesFit
<1>4. ASSUME NEW m \in 1..Len(r.notes), NEW n \in 1..Len(r.notes), m # n
      PROVE  r.notes[m] # r.notes[n]
  <2>1. CASE m \in 1..Len(reader.notes) /\ n \in 1..Len(reader.notes)
    BY <1>2, <1>4, <2>1 DEF ClassInv, ClassNotesFit
  <2>2. CASE m \in 1..Len(reader.notes) /\ n = Len(reader.notes) + 1
    BY <1>2, <2>2
  <2>3. CASE m = Len(reader.notes) + 1 /\ n \in 1..Len(reader.notes)
    BY <1>2, <2>3
  <2> QED
    BY <1>2, <1>4, <2>1, <2>2, <2>3
<1>5. ClassNotesFit(r)
  BY <1>3, <1>4 DEF ClassNotesFit
<1> QED
  BY <1>5, ClassChanged

LEMMA ClassNote ==
  ASSUME ClassInv(reader), NEW line \in Class!Lines, Class!ReadNote(line), reader.note = Class!NoNote
  PROVE  ClassInv(reader')
<1> DEFINE found == Class!Found(reader, line.id)
           note  == [type |-> Class!First(found), side |-> line.side]
<1>1. CASE reader' = Class!Failed
  BY <1>1, ClassEmpty
<1>2. CASE reader' # Class!Failed
  <2>1. /\ found # {} /\ ~Class!HasNote(reader, Class!First(found), line.side)
        /\ IF line.inline THEN Class!Reads([reader EXCEPT !.notes = Append(@, note)])
           ELSE Class!Reads([reader EXCEPT !.note = note])
    BY <1>2 DEF Class!ReadNote, Class!Fails
  <2>2. line.side \in {"left", "right"}
    BY DEF Class!ReadNote, Class!Lines, Class!BlockLines, Class!Sides
  <2>3. Class!First(found) \in 1..Len(reader.types)
    BY <2>1, ClassFound DEF ClassInv
  <2>4. reader.notes \in Seq(ATypeNote) /\ reader.types \in Seq(AType) /\ Len(reader.types) \in Nat
    BY DEF ClassInv, ClassType
  <2>5. note \in ATypeNote /\ note.type = Class!First(found)
    BY <2>2, <2>3, <2>4 DEF ATypeNote
  <2>6. \A n \in 1..Len(reader.notes) : reader.notes[n] # note
    BY <2>1 DEF Class!HasNote
  <2> HIDE DEF note
  <2>7. CASE line.inline
    <3> DEFINE r == [reader EXCEPT !.notes = Append(@, note)]
    <3>1. Append(reader.notes, note) \in Seq(ATypeNote)
      BY <2>4, <2>5
    <3>2. /\ ClassType(r) /\ r.types = reader.types /\ r.relations = reader.relations
          /\ r.body = reader.body /\ r.members = reader.members
          /\ r.notes = Append(reader.notes, note) /\ r.note = Class!NoNote
      BY <3>1 DEF ClassInv, ClassType
    <3>3. Class!Reads(r)
      BY <2>1, <2>7
    <3> HIDE DEF r
    <3> QED
      BY <2>3, <2>5, <2>6, <3>2, <3>3, ClassNoteAdded
  <2>8. CASE ~line.inline
    <3> DEFINE r == [reader EXCEPT !.note = note]
    <3>1. /\ ClassType(r) /\ r.types = reader.types /\ r.relations = reader.relations
          /\ r.body = reader.body /\ r.members = reader.members
          /\ r.notes = reader.notes /\ r.note = note
      BY <2>5 DEF ClassInv, ClassType
    <3>2. Class!Reads(r)
      BY <2>1, <2>8
    <3> HIDE DEF r
    <3>3. ClassNotesFit(r)
      BY <2>3, <2>5, <2>6, <3>1 DEF ClassInv, ClassNotesFit
    <3> QED
      BY <3>1, <3>2, <3>3, ClassChanged
  <2> QED
    BY <2>7, <2>8
<1> QED
  BY <1>1, <1>2

LEMMA ClassNoteLine ==
  ASSUME ClassInv(reader), NEW line \in Class!Lines, Class!ReadNoteLine(line), reader.note # Class!NoNote
  PROVE  ClassInv(reader')
<1>1. CASE line.is # "endnote"
  BY <1>1, ClassReads DEF Class!ReadNoteLine
<1>2. CASE line.is = "endnote"
  <2> DEFINE r == [reader EXCEPT !.note = Class!NoNote, !.notes = Append(@, reader.note)]
  <2>1. Class!Reads(r)
    BY <1>2 DEF Class!ReadNoteLine, ClassInv, ClassType
  <2>2. reader.notes \in Seq(ATypeNote) /\ reader.note \in ATypeNote /\ Class!NoNote \in ATypeNote
    BY DEF ClassInv, ClassType, Class!NoNote, ATypeNote
  <2>3. Append(reader.notes, reader.note) \in Seq(ATypeNote)
    BY <2>2
  <2>4. /\ ClassType(r) /\ r.types = reader.types /\ r.relations = reader.relations
        /\ r.body = reader.body /\ r.members = reader.members
        /\ r.notes = Append(reader.notes, reader.note) /\ r.note = Class!NoNote
    BY <2>2, <2>3 DEF ClassInv, ClassType
  <2>5. /\ reader.note.type \in 1..Len(reader.types)
        /\ \A n \in 1..Len(reader.notes) : reader.notes[n] # reader.note
    BY DEF ClassInv, ClassNotesFit
  <2> HIDE DEF r
  <2> QED
    BY <2>1, <2>2, <2>4, <2>5, ClassNoteAdded
<1> QED
  BY <1>1, <1>2

(* A line of a body: a member more in its last compartment, or a compartment more. *)
LEMMA ClassBodyLine ==
  ASSUME ClassInv(reader), NEW line \in Class!Lines, Class!ReadBodyLine(line),
         reader.body # Class!NoBody
  PROVE  ClassInv(reader')
<1> DEFINE b == reader.body
<1>1. /\ b \in ABody /\ b.type \in 1..Len(reader.types) /\ b.type # 0 /\ reader.members \in Nat
      /\ reader.methods \in SUBSET Nat
  BY DEF ClassInv, ClassBodyFits, ClassType
<1>2. b.above \in SUBSET SUBSET Nat /\ b.last \in SUBSET Nat /\ b.separated \in BOOLEAN /\ b.type \in Nat
  BY <1>1 DEF ABody
<1>3. CASE Class!Reads(Class!BodyClosed(reader))
  BY <1>1, <1>3, ClassClosed, ClassReads
<1>4. CASE Class!Reads([reader EXCEPT !.body.separated = TRUE,
                          !.body.above = @ \cup {reader.body.last}, !.body.last = {}])
  <2> DEFINE body == [type |-> b.type, above |-> b.above \cup {b.last}, last |-> {}, separated |-> TRUE]
             r    == [reader EXCEPT !.body = body]
  <2>1. Class!Reads(r)
    <3>1. r = [reader EXCEPT !.body.separated = TRUE,
                             !.body.above = @ \cup {reader.body.last}, !.body.last = {}]
      BY <1>1 DEF ABody, ClassInv, ClassType
    <3> QED
      BY <1>4, <3>1
  <2>2. body \in ABody
    BY <1>2 DEF ABody
  <2>3. body.type = b.type /\ body.above = b.above \cup {b.last} /\ body.last = {} /\ body.separated
    OBVIOUS
  <2> HIDE DEF body
  <2>4. /\ ClassType(r) /\ r.types = reader.types /\ r.relations = reader.relations
        /\ r.notes = reader.notes /\ r.note = reader.note /\ r.members = reader.members /\ r.body = body
    BY <2>2 DEF ClassInv, ClassType
  <2> HIDE DEF r
  <2>5. ClassNamesFit(r)
    BY <2>4 DEF ClassInv, ClassNamesFit
  <2>6. ClassRelationsFit(r)
    BY <2>4 DEF ClassInv, ClassRelationsFit
  <2>7. ClassNotesFit(r)
    BY <2>4 DEF ClassInv, ClassNotesFit
  <2>8. ClassBodyFits(r)
    BY <1>1, <2>3, <2>4 DEF ClassInv, ClassBodyFits
  <2>9. ClassMembersFit(r)
    <3>1. \A m \in 1..r.members :
            \/ \E i \in 1..Len(r.types) : \E c \in r.types[i].compartments : m \in c
            \/ \E c \in r.body.above : m \in c
      BY <2>3, <2>4 DEF ClassInv, ClassMembersFit
    <3>2. \A i \in 1..Len(r.types) : \A c \in r.types[i].compartments :
            /\ c \subseteq 1..r.members /\ c \cap r.body.last = {}
            /\ \A d \in r.body.above : c \cap d = {}
      BY <2>3, <2>4 DEF ClassInv, ClassMembersFit
    <3>3. ASSUME NEW c \in r.body.above
          PROVE  /\ c \subseteq 1..r.members /\ c \cap r.body.last = {}
                 /\ \A d \in r.body.above : c \cap d = {} \/ c = d
      <4>1. c \subseteq 1..r.members
        BY <2>3, <2>4 DEF ClassInv, ClassMembersFit
      <4>2. ASSUME NEW d \in r.body.above PROVE c \cap d = {} \/ c = d
        <5>1. (c \in b.above \/ c = b.last) /\ (d \in b.above \/ d = b.last)
          BY <2>3, <2>4
        <5>2. \A x \in b.above : x \cap b.last = {} /\ \A y \in b.above : x \cap y = {} \/ x = y
          BY DEF ClassInv, ClassMembersFit
        <5> QED
          BY <5>1, <5>2
      <4> QED
        BY <2>3, <2>4, <4>1, <4>2
    <3>4. \A i, j \in 1..Len(r.types) : \A c \in r.types[i].compartments : \A d \in r.types[j].compartments :
            c \cap d = {} \/ (i = j /\ c = d)
      BY <2>4 DEF ClassInv, ClassMembersFit
    <3> QED
      BY <2>3, <2>4, <3>1, <3>2, <3>3, <3>4 DEF ClassMembersFit
  <2> QED
    BY <2>1, <2>4, <2>5, <2>6, <2>7, <2>8, <2>9, ClassReads DEF ClassInv
<1>5. CASE Class!Reads(Class!MemberRead(reader, line.is = "method"))
  <2> DEFINE n    == reader.members + 1
             r    == Class!MemberRead(reader, line.is = "method")
             body == [b EXCEPT !.last = @ \cup {n}]
             methods == IF line.is = "method" THEN reader.methods \cup {n} ELSE reader.methods
  <2>1. /\ body \in ABody /\ body.type = b.type /\ body.above = b.above
        /\ body.last = b.last \cup {n} /\ body.separated = b.separated
    BY <1>1 DEF ABody
  <2>2. methods \in SUBSET Nat
    BY <1>1
  <2>3. r = [reader EXCEPT !.members = n, !.body = body, !.methods = methods]
    BY DEF Class!MemberRead, ClassInv, ClassType
  <2> HIDE DEF body, methods
  <2>4. /\ ClassType(r) /\ r.types = reader.types /\ r.relations = reader.relations
        /\ r.notes = reader.notes /\ r.note = reader.note /\ r.members = n /\ r.body = body
    <3>1. n \in Nat
      BY <1>1
    <3> HIDE DEF n, r
    <3> QED
      BY <2>1, <2>2, <2>3, <3>1 DEF ClassInv, ClassType
  <2> HIDE DEF r
  <2>5. ClassNamesFit(r)
    BY <2>4 DEF ClassInv, ClassNamesFit
  <2>6. ClassRelationsFit(r)
    BY <2>4 DEF ClassInv, ClassRelationsFit
  <2>7. ClassNotesFit(r)
    BY <2>4 DEF ClassInv, ClassNotesFit
  <2>8. ClassBodyFits(r)
    BY <1>1, <2>1, <2>4 DEF ClassInv, ClassBodyFits
  <2>9. ClassMembersFit(r)
    <3>1. \A m \in 1..n : m \in 1..reader.members \/ m = n
      BY <1>1
    <3>2. n \in 1..n /\ n \notin 1..reader.members /\ 1..reader.members \subseteq 1..n
      BY <1>1
    <3>3. \A m \in 1..r.members :
            \/ \E i \in 1..Len(r.types) : \E c \in r.types[i].compartments : m \in c
            \/ \E c \in r.body.above : m \in c
            \/ m \in r.body.last
      BY <2>1, <2>4, <3>1 DEF ClassInv, ClassMembersFit
    <3>4. ASSUME NEW i \in 1..Len(r.types), NEW c \in r.types[i].compartments
          PROVE  /\ c \subseteq 1..r.members /\ c \cap r.body.last = {}
                 /\ \A d \in r.body.above : c \cap d = {}
      <4>1. /\ c \subseteq 1..reader.members /\ c \cap b.last = {}
            /\ \A d \in b.above : c \cap d = {}
        BY <2>4 DEF ClassInv, ClassMembersFit
      <4> QED
        BY <2>1, <2>4, <3>2, <4>1
    <3>5. ASSUME NEW c \in r.body.above
          PROVE  /\ c \subseteq 1..r.members /\ c \cap r.body.last = {}
                 /\ \A d \in r.body.above : c \cap d = {} \/ c = d
      <4>1. /\ c \subseteq 1..reader.members /\ c \cap b.last = {}
            /\ \A d \in b.above : c \cap d = {} \/ c = d
        BY <2>1, <2>4 DEF ClassInv, ClassMembersFit
      <4> QED
        BY <2>1, <2>4, <3>2, <4>1
    <3>6. \A i, j \in 1..Len(r.types) : \A c \in r.types[i].compartments : \A d \in r.types[j].compartments :
            c \cap d = {} \/ (i = j /\ c = d)
      BY <2>4 DEF ClassInv, ClassMembersFit
    <3>7. r.body.last \subseteq 1..r.members
      BY <2>1, <2>4, <3>2 DEF ClassInv, ClassMembersFit
    <3> QED
      BY <3>3, <3>4, <3>5, <3>6, <3>7 DEF ClassMembersFit
  <2> QED
    BY <1>5, <2>4, <2>5, <2>6, <2>7, <2>8, <2>9, ClassReads DEF ClassInv, r
<1>6. CASE Class!Fails
  BY <1>6, ClassEmpty DEF Class!Fails
<1> QED
  BY <1>3, <1>4, <1>5, <1>6 DEF Class!ReadBodyLine

LEMMA ClassSkips ==
  ASSUME ClassInv(reader), NEW block \in Blocks, Class!Reads([reader EXCEPT !.skipped = block])
  PROVE  ClassInv(reader')
<1> DEFINE r == [reader EXCEPT !.skipped = block]
<1>1. /\ ClassType(r) /\ r.types = reader.types /\ r.relations = reader.relations
      /\ r.body = reader.body /\ r.members = reader.members
      /\ r.notes = reader.notes /\ r.note = reader.note
  BY DEF ClassInv, ClassType
<1>2. ClassNotesFit(r)
  BY <1>1 DEF ClassInv, ClassNotesFit
<1> HIDE DEF r
<1> QED
  BY <1>1, <1>2, ClassChanged DEF r

LEMMA ClassLine ==
  ASSUME ClassInv(reader), NEW line \in Class!Lines, Class!ReadLine(line)
  PROVE  ClassInv(reader')
<1>1. CASE Class!Reads([reader EXCEPT !.skipped = Class!Continued(@, line)])
  <2>1. Class!Continued(reader.skipped, line) \in Blocks
    BY SkippedAre DEF ClassInv, ClassType, Class!Continued, Skipped!Continued, Class!NoBlock,
       Skipped!NoBlock, Class!BraceBalance, Skipped!BraceBalance
  <2>2. Class!Reads([reader EXCEPT !.skipped = Class!Continued(reader.skipped, line)])
    BY <1>1 DEF ClassInv, ClassType
  <2> QED
    BY <2>1, <2>2, ClassSkips
<1>2. CASE Class!StartBlock(line)
  <2>1. line.name \in BlockNames
    BY <1>2 DEF Class!StartBlock, Class!Lines, Class!BlockLines, BlockNames
  <2>2. Class!Started(line) \in Blocks
    BY <2>1, SkippedAre DEF Class!Started, Skipped!Started, Class!NoBlock, Skipped!NoBlock
  <2> QED
    BY <1>2, <2>2, ClassSkips DEF Class!StartBlock
<1>3. CASE reader.body = Class!NoBody /\ Class!ReadDeclaration(line)
  BY <1>3, ClassDeclaration
<1>4. CASE Class!ReadRelation(line)
  BY <1>4, ClassRelation
<1>5. CASE reader.note = Class!NoNote /\ Class!ReadNote(line)
  BY <1>5, ClassNote
<1>6. CASE reader.note # Class!NoNote /\ Class!ReadNoteLine(line)
  BY <1>6, ClassNoteLine
<1>7. CASE reader.body # Class!NoBody /\ Class!ReadBodyLine(line)
  BY <1>7, ClassBodyLine
<1>8. CASE Class!ReadIgnored(line) \/ Class!ReadUnsupported(line)
  BY <1>8, ClassReads, ClassEmpty DEF Class!ReadIgnored, Class!ReadUnsupported, Class!Fails
<1>9. line.is = "block" => ~Class!ReadDeclaration(line)
  BY DEF Class!ReadDeclaration
<1> QED
  BY <1>1, <1>2, <1>3, <1>4, <1>5, <1>6, <1>7, <1>8, <1>9 DEF Class!ReadLine, Class!ReadStatement

LEMMA ClassFinish ==
  ASSUME ClassInv(reader), Class!Finish
  PROVE  /\ ClassInv(reader')
         /\ reader'.outcome = "parsed" => reader'.body = Class!NoBody
<1>1. CASE reader' = Class!Failed
  BY <1>1, ClassEmpty DEF Class!Failed, Class!Empty
<1>2. CASE reader' # Class!Failed
  <2>1. reader' = [reader EXCEPT !.outcome = "parsed"] /\ reader.body = Class!NoBody
    BY <1>2 DEF Class!Finish, Class!Unfinished
  <2> DEFINE r == reader'
  <2>2. /\ ClassType(r) /\ r.types = reader.types /\ r.relations = reader.relations
        /\ r.body = reader.body /\ r.members = reader.members
        /\ r.notes = reader.notes /\ r.note = reader.note
    BY <2>1 DEF ClassInv, ClassType, Outcomes
  <2> HIDE DEF r
  <2>3. ClassNamesFit(r) /\ ClassRelationsFit(r)
    BY <2>2 DEF ClassInv, ClassNamesFit, ClassRelationsFit
  <2>4. ClassNotesFit(r)
    BY <2>2 DEF ClassInv, ClassNotesFit
  <2>5. ClassBodyFits(r)
    BY <2>2 DEF ClassInv, ClassBodyFits
  <2>6. ClassMembersFit(r)
    BY <2>2 DEF ClassInv, ClassMembersFit
  <2> QED
    BY <2>1, <2>2, <2>3, <2>4, <2>5, <2>6 DEF ClassInv, r
<1> QED
  BY <1>1, <1>2

LEMMA ClassWellFormed ==
  ASSUME ClassInv(reader), reader.body = Class!NoBody
  PROVE  Class!WellFormed(reader)
<1> DEFINE all == 1..Len(reader.types)
<1>1. reader.body.above = {} /\ reader.body.last = {}
  BY DEF Class!NoBody
<1>2. ASSUME NEW m \in 1..reader.members
      PROVE  \E i \in all : \E c \in reader.types[i].compartments :
               /\ m \in c
               /\ \A j \in all : \A d \in reader.types[j].compartments : m \in d => j = i /\ d = c
  <2>0. PICK i \in all : \E c \in reader.types[i].compartments : m \in c
    BY <1>1 DEF ClassInv, ClassMembersFit
  <2>1. PICK c \in reader.types[i].compartments : m \in c
    BY <2>0
  <2>2. \A j \in all : \A d \in reader.types[j].compartments : m \in d => j = i /\ d = c
    BY <2>1 DEF ClassInv, ClassMembersFit
  <2> QED
    BY <2>1, <2>2
<1> QED
  BY <1>2 DEF ClassInv, ClassNamesFit, ClassRelationsFit, ClassNotesFit, Class!WellFormed

-----------------------------------------------------------------------------
(* The reader of sequences: the groups that are open are the starts that no end answered. *)

ACall == [from : Nat, to : Nat, dashed : BOOLEAN]
ASpan == [first : Nat, last : Nat]
AStep == [is : {"message"}, from : Nat, to : Nat, dashed : BOOLEAN]
           \cup [is : {"note"}, first : Nat, last : Nat]
           \cup [is : {"start", "else", "end", "divider"}]

SequenceType(r) ==
  r \in [participants : Seq(Names), steps : Seq(AStep), last : ACall, calls : Seq(ACall), groups : Nat,
         note : ASpan, skipped : Blocks, outcome : Outcomes]

AreParticipants(r, i, j) == i \in 1..Len(r.participants) /\ j \in 1..Len(r.participants)

StepFits(r, step) ==
  /\ step.is = "message" => AreParticipants(r, step.from, step.to)
  /\ step.is = "note" => AreParticipants(r, step.first, step.last) /\ step.first <= step.last

SequenceNamesFit(r) ==
  \A i, j \in 1..Len(r.participants) : r.participants[i] = r.participants[j] => i = j

SequenceStepsFit(r) == \A k \in 1..Len(r.steps) : StepFits(r, r.steps[k])

SequenceOpenFits(r) ==
  /\ \A c \in 1..Len(r.calls) : AreParticipants(r, r.calls[c].from, r.calls[c].to)
  /\ r.last # Sequence!NoMessage => AreParticipants(r, r.last.from, r.last.to)
  /\ r.note # Sequence!NoNote => AreParticipants(r, r.note.first, r.note.last) /\ r.note.first <= r.note.last

SequenceGroupsFit(r) ==
  /\ Sequence!Count(r, "start", Len(r.steps)) = Sequence!Count(r, "end", Len(r.steps)) + r.groups
  /\ \A k \in 1..Len(r.steps) :
       /\ Sequence!Count(r, "end", k) <= Sequence!Count(r, "start", k)
       /\ r.steps[k].is = "else" => Sequence!Count(r, "end", k) < Sequence!Count(r, "start", k)

SequenceInv(r) ==
  /\ SequenceType(r) /\ SequenceNamesFit(r) /\ SequenceStepsFit(r) /\ SequenceOpenFits(r)
  /\ SequenceGroupsFit(r)

(* The reader counts as the library does. *)
LEMMA SequenceCardinality == ASSUME NEW S PROVE Sequence!Cardinality(S) = Cardinality(S)
BY DEF Sequence!Cardinality, Cardinality

(* One step more counts for its own name and for no other. *)
LEMMA CountIs ==
  ASSUME NEW r, r.steps \in Seq(AStep), NEW name, NEW k \in 0..Len(r.steps)
  PROVE  Sequence!Count(r, name, k) \in Nat
<1>1. k \in Int
  OBVIOUS
<1>2. IsFiniteSet(1..k)
  BY <1>1, FS_Interval
<1>3. IsFiniteSet({j \in 1..k : r.steps[j].is = name})
  BY <1>2, FS_Subset
<1> QED
  BY <1>3, FS_CardinalityType, SequenceCardinality DEF Sequence!Count

LEMMA CountEmpty == ASSUME NEW r, NEW name PROVE Sequence!Count(r, name, 0) = 0
<1>1. {k \in 1..0 : r.steps[k].is = name} = {}
  OBVIOUS
<1> QED
  BY <1>1, FS_EmptySet, SequenceCardinality DEF Sequence!Count

LEMMA CountAppended ==
  ASSUME NEW r, r.steps \in Seq(AStep), NEW step \in AStep,
         NEW s, s.steps = Append(r.steps, step), NEW name
  PROVE  LET n == Len(r.steps)
         IN  /\ \A k \in 0..n : Sequence!Count(s, name, k) = Sequence!Count(r, name, k)
             /\ Sequence!Count(s, name, n + 1) =
                  Sequence!Count(r, name, n) + (IF step.is = name THEN 1 ELSE 0)
<1> DEFINE n == Len(r.steps)
           counted == {k \in 1..n : r.steps[k].is = name}
<1>1. n \in Nat /\ s.steps[n + 1] = step /\ \A k \in 1..n : s.steps[k] = r.steps[k]
  BY AppendIs
<1>2. ASSUME NEW k \in 0..n PROVE Sequence!Count(s, name, k) = Sequence!Count(r, name, k)
  <2>1. \A j \in 1..k : j \in 1..n
    BY <1>1
  <2>2. {j \in 1..k : s.steps[j].is = name} = {j \in 1..k : r.steps[j].is = name}
    BY <1>1, <2>1
  <2> QED
    BY <2>2 DEF Sequence!Count
<1>3. IsFiniteSet(counted) /\ n + 1 \notin counted
  <2>1. IsFiniteSet(1..n)
    BY <1>1, FS_Interval
  <2>2. n + 1 \notin 1..n
    BY <1>1
  <2> QED
    BY <2>1, <2>2, FS_Subset
<1>4. Sequence!Count(r, name, n) = Cardinality(counted) /\ Cardinality(counted) \in Nat
  BY <1>3, FS_CardinalityType, SequenceCardinality DEF Sequence!Count
<1>5. \A k \in 1..(n + 1) : k \in 1..n \/ k = n + 1
  BY <1>1
<1>6. n + 1 \in 1..(n + 1) /\ 1..n \subseteq 1..(n + 1)
  BY <1>1
<1>7. CASE step.is = name
  <2>1. {k \in 1..(n + 1) : s.steps[k].is = name} = counted \cup {n + 1}
    BY <1>1, <1>5, <1>6, <1>7
  <2>2. Cardinality(counted \cup {n + 1}) = Cardinality(counted) + 1
    BY <1>3, FS_AddElement
  <2> QED
    BY <1>2, <1>4, <1>7, <2>1, <2>2, SequenceCardinality DEF Sequence!Count
<1>8. CASE step.is # name
  <2>1. {k \in 1..(n + 1) : s.steps[k].is = name} = counted
    BY <1>1, <1>5, <1>6, <1>8
  <2> QED
    <3>1. Sequence!Count(s, name, n + 1) = Cardinality(counted)
      BY <2>1, SequenceCardinality DEF Sequence!Count
    <3> HIDE DEF counted
    <3> QED
      BY <1>2, <1>4, <1>8, <3>1
<1> QED
  BY <1>7, <1>8

LEMMA SequenceEmpty == SequenceInv(Sequence!Empty) /\ SequenceInv(Sequence!Failed)
<1>1. Sequence!NoBlock \in Blocks /\ Sequence!NoNote \in ASpan /\ Sequence!NoMessage \in ACall
  BY SkippedAre DEF Sequence!NoBlock, Skipped!NoBlock, Sequence!NoNote, ASpan, Sequence!NoMessage, ACall
<1>2. SequenceType(Sequence!Empty)
  BY <1>1 DEF SequenceType, Sequence!Empty, Outcomes
<1>3. SequenceType(Sequence!Failed)
  BY <1>2 DEF SequenceType, Sequence!Failed, Outcomes
<1>4. ASSUME NEW r \in {Sequence!Empty, Sequence!Failed}
      PROVE  /\ r.participants = <<>> /\ r.steps = <<>> /\ r.calls = <<>> /\ r.groups = 0
             /\ r.last = Sequence!NoMessage /\ r.note = Sequence!NoNote
  BY DEF Sequence!Empty, Sequence!Failed
<1>5. ASSUME NEW r \in {Sequence!Empty, Sequence!Failed}
      PROVE  SequenceGroupsFit(r)
  BY <1>4, CountEmpty DEF SequenceGroupsFit
<1> QED
  BY <1>2, <1>3, <1>4, <1>5 DEF SequenceInv, SequenceNamesFit, SequenceStepsFit, SequenceOpenFits

LEMMA SequenceReads ==
  ASSUME NEW r, SequenceInv(r), Sequence!Reads(r)
  PROVE  SequenceInv(reader')
BY SequenceEmpty DEF Sequence!Reads

(* What the steps say stays as long as they stay and the participants are not fewer. *)
LEMMA SequenceKept ==
  ASSUME NEW r, SequenceInv(r), NEW s, SequenceType(s), SequenceNamesFit(s),
         1..Len(r.participants) \subseteq 1..Len(s.participants), s.steps = r.steps, s.groups = r.groups,
         SequenceOpenFits(s)
  PROVE  SequenceInv(s)
<1>1. \A name, k : Sequence!Count(s, name, k) = Sequence!Count(r, name, k)
  BY DEF Sequence!Count
<1>2. SequenceGroupsFit(s)
  BY <1>1 DEF SequenceInv, SequenceGroupsFit
<1>3. SequenceStepsFit(s)
  BY DEF SequenceInv, SequenceStepsFit, StepFits, AreParticipants
<1> QED
  BY <1>2, <1>3 DEF SequenceInv

(* A step more. *)
LEMMA SequenceStepped ==
  ASSUME NEW r, SequenceInv(r), NEW step \in AStep, StepFits(r, step),
         step.is \in {"else", "end"} => r.groups > 0,
         NEW s, SequenceType(s), s.participants = r.participants, s.steps = Append(r.steps, step),
         s.groups = r.groups + (IF step.is = "start" THEN 1 ELSE IF step.is = "end" THEN -1 ELSE 0),
         SequenceOpenFits(s)
  PROVE  SequenceInv(s)
<1> DEFINE n == Len(r.steps)
           starts(k) == Sequence!Count(s, "start", k)
           ends(k)   == Sequence!Count(s, "end", k)
<1>1. r.steps \in Seq(AStep) /\ r.groups \in Nat
  BY DEF SequenceInv, SequenceType
<1>2. /\ n \in Nat /\ Len(s.steps) = n + 1 /\ s.steps[n + 1] = step
      /\ \A k \in 1..n : s.steps[k] = r.steps[k]
      /\ \A k \in 1..n + 1 : k \in 1..n \/ k = n + 1
  BY <1>1, AppendIs
<1>3. SequenceStepsFit(s)
  BY <1>2 DEF SequenceInv, SequenceStepsFit, StepFits, AreParticipants
<1>4. SequenceNamesFit(s)
  BY DEF SequenceInv, SequenceNamesFit
<1>5. /\ \A k \in 1..n : /\ starts(k) = Sequence!Count(r, "start", k)
                         /\ ends(k) = Sequence!Count(r, "end", k)
      /\ starts(n + 1) = Sequence!Count(r, "start", n) + (IF step.is = "start" THEN 1 ELSE 0)
      /\ ends(n + 1) = Sequence!Count(r, "end", n) + (IF step.is = "end" THEN 1 ELSE 0)
  <2>1. 1..n \subseteq 0..n
    BY <1>2
  <2> QED
    BY <1>1, <2>1, CountAppended
<1>6. /\ Sequence!Count(r, "start", n) \in Nat /\ Sequence!Count(r, "end", n) \in Nat
      /\ Sequence!Count(r, "start", n) = Sequence!Count(r, "end", n) + r.groups
  BY <1>1, <1>2, CountIs DEF SequenceInv, SequenceGroupsFit
<1> HIDE DEF starts, ends
<1>7. /\ starts(n + 1) = ends(n + 1) + s.groups /\ ends(n + 1) <= starts(n + 1)
      /\ step.is = "else" => ends(n + 1) < starts(n + 1)
  <2>1. CASE step.is = "start"
    BY <1>1, <1>5, <1>6, <2>1
  <2>2. CASE step.is = "end"
    <3>1. r.groups > 0 /\ s.groups = r.groups - 1
      BY <1>1, <2>2
    <3>2. starts(n + 1) = Sequence!Count(r, "start", n) /\ ends(n + 1) = Sequence!Count(r, "end", n) + 1
      BY <1>5, <1>6, <2>2
    <3>3. r.groups \in Nat /\ ~(step.is = "else")
      BY <1>1, <2>2
    <3> QED
      BY <1>6, <3>1, <3>2, <3>3
  <2>3. CASE step.is # "start" /\ step.is # "end"
    BY <1>1, <1>5, <1>6, <2>3
  <2> QED
    BY <2>1, <2>2, <2>3
<1>8. \A k \in 1..n : /\ ends(k) <= starts(k)
                      /\ s.steps[k].is = "else" => ends(k) < starts(k)
  BY <1>2, <1>5 DEF SequenceInv, SequenceGroupsFit
<1>9. SequenceGroupsFit(s)
  BY <1>2, <1>7, <1>8 DEF SequenceGroupsFit, starts, ends
<1> QED
  BY <1>3, <1>4, <1>9 DEF SequenceInv

LEMMA SequenceNamed ==
  ASSUME NEW r, SequenceType(r), NEW id, Sequence!Named(r, id) # {}
  PROVE  (CHOOSE i \in Sequence!Named(r, id) : TRUE) \in 1..Len(r.participants)
BY DEF Sequence!Named

(* A name that is used has a participant from then on. *)
LEMMA SequenceKnown ==
  ASSUME NEW r, SequenceInv(r), NEW id \in Names
  PROVE  LET s == Sequence!Known(r, id)
         IN  /\ SequenceInv(s)
             /\ Sequence!IndexOf(r, id) \in 1..Len(s.participants)
             /\ 1..Len(r.participants) \subseteq 1..Len(s.participants)
             /\ s.calls = r.calls /\ s.note = r.note
<1> DEFINE s == Sequence!Known(r, id)
<1>1. CASE Sequence!Named(r, id) # {}
  <2>1. s = r
    BY <1>1 DEF Sequence!Known
  <2>2. Sequence!IndexOf(r, id) \in 1..Len(s.participants)
    BY <1>1, <2>1, SequenceNamed DEF Sequence!IndexOf, SequenceInv
  <2> QED
    BY <2>1, <2>2
<1>2. CASE Sequence!Named(r, id) = {}
  <2> DEFINE n == Len(r.participants) + 1
  <2>1. r.participants \in Seq(Names)
    BY DEF SequenceInv, SequenceType
  <2>2. s = [r EXCEPT !.participants = Append(r.participants, id)]
    BY <1>2 DEF Sequence!Known, SequenceInv, SequenceType
  <2>3. /\ Append(r.participants, id) \in Seq(Names) /\ Len(r.participants) \in Nat
        /\ Len(Append(r.participants, id)) = n
        /\ Append(r.participants, id)[n] = id
        /\ \A i \in 1..Len(r.participants) : Append(r.participants, id)[i] = r.participants[i]
        /\ \A i \in 1..n : i \in 1..Len(r.participants) \/ i = n
    BY <2>1, AppendIs
  <2>4. /\ SequenceType(s) /\ s.participants = Append(r.participants, id) /\ s.steps = r.steps
        /\ s.calls = r.calls /\ s.last = r.last /\ s.groups = r.groups /\ s.note = r.note
    BY <2>2, <2>3 DEF SequenceInv, SequenceType
  <2> HIDE DEF s
  <2>5. 1..Len(r.participants) \subseteq 1..n /\ n \in 1..n
    BY <2>3
  <2>6. \A i \in 1..Len(r.participants) : r.participants[i] # id
    BY <1>2 DEF Sequence!Named
  <2>7. ASSUME NEW i \in 1..n, NEW j \in 1..n, s.participants[i] = s.participants[j]
        PROVE  i = j
    <3>1. CASE i \in 1..Len(r.participants) /\ j \in 1..Len(r.participants)
      BY <2>3, <2>4, <2>7, <3>1 DEF SequenceInv, SequenceNamesFit
    <3>2. CASE i \in 1..Len(r.participants) /\ j = n
      BY <2>3, <2>4, <2>6, <2>7, <3>2
    <3>3. CASE i = n /\ j \in 1..Len(r.participants)
      BY <2>3, <2>4, <2>6, <2>7, <3>3
    <3> QED
      BY <2>3, <3>1, <3>2, <3>3
  <2>8. SequenceNamesFit(s)
    BY <2>3, <2>4, <2>7 DEF SequenceNamesFit
  <2>9. SequenceOpenFits(s)
    BY <2>3, <2>4, <2>5 DEF SequenceInv, SequenceOpenFits, AreParticipants
  <2>10. SequenceInv(s)
    BY <2>3, <2>4, <2>5, <2>8, <2>9, SequenceKept
  <2>11. n \in Sequence!Named(s, id)
    BY <2>3, <2>4, <2>5 DEF Sequence!Named
  <2>12. Sequence!IndexOf(r, id) \in 1..Len(s.participants)
    BY <2>4, <2>11, SequenceNamed DEF Sequence!IndexOf, s
  <2> QED
    BY <2>3, <2>4, <2>5, <2>10, <2>12 DEF s
<1> QED
  BY <1>1, <1>2

(* A message more, with the calls that wait for an answer after it. *)
LEMMA SequenceMessaged ==
  ASSUME NEW r, SequenceInv(r), NEW calls \in Seq(ACall),
         \A c \in 1..Len(calls) : AreParticipants(r, calls[c].from, calls[c].to),
         NEW message \in ACall, AreParticipants(r, message.from, message.to)
  PROVE  SequenceInv(Sequence!AppendMessage([r EXCEPT !.calls = calls], message))
<1> DEFINE step == [is |-> "message", from |-> message.from, to |-> message.to,
                    dashed |-> message.dashed]
           s    == Sequence!AppendMessage([r EXCEPT !.calls = calls], message)
<1>1. step \in AStep /\ step.is = "message" /\ step.from = message.from /\ step.to = message.to
  BY DEF AStep, ACall
<1>2. s = [r EXCEPT !.calls = calls, !.steps = Append(r.steps, step), !.last = message]
  BY DEF Sequence!AppendMessage, SequenceInv, SequenceType
<1> HIDE DEF step
<1>3. r.steps \in Seq(AStep) /\ r.groups \in Nat
  BY DEF SequenceInv, SequenceType
<1>4. Append(r.steps, step) \in Seq(AStep)
  BY <1>1, <1>3
<1>5. /\ SequenceType(s) /\ s.participants = r.participants /\ s.steps = Append(r.steps, step)
      /\ s.calls = calls /\ s.last = message /\ s.groups = r.groups /\ s.note = r.note
  BY <1>2, <1>4 DEF SequenceInv, SequenceType
<1> HIDE DEF s
<1>6. StepFits(r, step)
  BY <1>1 DEF StepFits, AreParticipants
<1>7. SequenceOpenFits(s)
  BY <1>5 DEF SequenceInv, SequenceOpenFits, AreParticipants
<1>8. s.groups = r.groups + (IF step.is = "start" THEN 1 ELSE IF step.is = "end" THEN -1 ELSE 0)
  BY <1>1, <1>3, <1>5
<1>9. ~(step.is \in {"else", "end"})
  BY <1>1
<1>10. SequenceInv(s)
  BY <1>1, <1>5, <1>6, <1>7, <1>8, <1>9, SequenceStepped
<1> QED
  BY <1>10 DEF s

(* A note more, or a note that is open. *)
LEMMA SequenceNotePut ==
  ASSUME NEW r, SequenceInv(r), NEW note \in ASpan, AreParticipants(r, note.first, note.last),
         note.first <= note.last, NEW inline, r.note = Sequence!NoNote, Sequence!PutNote(r, note, inline)
  PROVE  SequenceInv(reader')
<1>1. CASE inline
  <2> DEFINE step == Sequence!NoteStep(note)
             s    == [r EXCEPT !.steps = Append(@, step)]
  <2>1. step \in AStep /\ step.is = "note" /\ step.first = note.first /\ step.last = note.last
    BY DEF AStep, ASpan, Sequence!NoteStep
  <2>2. Sequence!Reads(s)
    BY <1>1 DEF Sequence!PutNote
  <2> HIDE DEF step
  <2>3. r.steps \in Seq(AStep) /\ r.groups \in Nat
    BY DEF SequenceInv, SequenceType
  <2>4. Append(r.steps, step) \in Seq(AStep)
    BY <2>1, <2>3
  <2>5. /\ SequenceType(s) /\ s.participants = r.participants /\ s.steps = Append(r.steps, step)
        /\ s.calls = r.calls /\ s.last = r.last /\ s.groups = r.groups /\ s.note = r.note
    BY <2>4 DEF SequenceInv, SequenceType
  <2> HIDE DEF s
  <2>6. StepFits(r, step)
    BY <2>1 DEF StepFits, AreParticipants
  <2>7. SequenceOpenFits(s)
    BY <2>5 DEF SequenceInv, SequenceOpenFits, AreParticipants
  <2>8. s.groups = r.groups + (IF step.is = "start" THEN 1 ELSE IF step.is = "end" THEN -1 ELSE 0)
    BY <2>1, <2>3, <2>5
  <2>9. ~(step.is \in {"else", "end"})
    BY <2>1
  <2> QED
    BY <2>1, <2>2, <2>5, <2>6, <2>7, <2>8, <2>9, SequenceStepped, SequenceReads
<1>2. CASE ~inline
  <2> DEFINE s == [r EXCEPT !.note = note]
  <2>1. Sequence!Reads(s)
    BY <1>2 DEF Sequence!PutNote
  <2>2. /\ SequenceType(s) /\ s.participants = r.participants /\ s.steps = r.steps
        /\ s.calls = r.calls /\ s.last = r.last /\ s.groups = r.groups /\ s.note = note
    BY DEF SequenceInv, SequenceType
  <2> HIDE DEF s
  <2>3. SequenceOpenFits(s) /\ SequenceNamesFit(s)
    BY <2>2 DEF SequenceInv, SequenceOpenFits, SequenceNamesFit, AreParticipants
  <2> QED
    BY <2>1, <2>2, <2>3, SequenceKept, SequenceReads
<1> QED
  BY <1>1, <1>2

(* A step of a group or a divider. *)
LEMMA SequenceNamedStep ==
  ASSUME SequenceInv(reader), NEW name \in {"start", "else", "end", "divider"},
         name \in {"else", "end"} => reader.groups # 0,
         Sequence!Reads([reader EXCEPT !.steps = Append(@, Sequence!Step(name)),
           !.groups = reader.groups + (IF name = "start" THEN 1 ELSE IF name = "end" THEN -1 ELSE 0)])
  PROVE  SequenceInv(reader')
<1> DEFINE step   == Sequence!Step(name)
           groups == reader.groups + (IF name = "start" THEN 1 ELSE IF name = "end" THEN -1 ELSE 0)
           s      == [reader EXCEPT !.steps = Append(@, step), !.groups = groups]
<1>1. step \in AStep /\ step.is = name
  BY DEF Sequence!Step, AStep
<1> HIDE DEF step
<1>2. reader.steps \in Seq(AStep) /\ reader.groups \in Nat
  BY DEF SequenceInv, SequenceType
<1>3. Append(reader.steps, step) \in Seq(AStep) /\ groups \in Nat
  BY <1>1, <1>2
<1>4. Sequence!Reads(s)
  BY DEF step
<1>5. groups = reader.groups + (IF step.is = "start" THEN 1 ELSE IF step.is = "end" THEN -1 ELSE 0)
  BY <1>1
<1> HIDE DEF groups
<1>6. /\ SequenceType(s) /\ s.participants = reader.participants /\ s.steps = Append(reader.steps, step)
      /\ s.calls = reader.calls /\ s.last = reader.last /\ s.groups = groups /\ s.note = reader.note
  BY <1>3 DEF SequenceInv, SequenceType
<1> HIDE DEF s
<1>7. StepFits(reader, step)
  BY <1>1 DEF StepFits
<1>8. SequenceOpenFits(s)
  BY <1>6 DEF SequenceInv, SequenceOpenFits, AreParticipants
<1>9. step.is \in {"else", "end"} => reader.groups > 0
  BY <1>1, <1>2
<1> QED
  BY <1>1, <1>4, <1>5, <1>6, <1>7, <1>8, <1>9, SequenceStepped, SequenceReads

LEMMA SequenceMessage ==
  ASSUME SequenceInv(reader), NEW line \in Sequence!Lines, Sequence!ReadMessage(line)
  PROVE  SequenceInv(reader')
<1> DEFINE left    == Sequence!IndexOf(reader, line.left)
           r       == Sequence!Known(reader, line.left)
           right   == Sequence!IndexOf(r, line.right)
           message == [from |-> IF line.reversed THEN right ELSE left,
                       to   |-> IF line.reversed THEN left ELSE right, dashed |-> line.dashed]
           s       == Sequence!Known(r, line.right)
           calls   == Sequence!TrackCall(s.calls, message)
<1>1. line.left \in Names /\ line.right \in Names /\ line.dashed \in BOOLEAN
  BY DEF Sequence!ReadMessage, Sequence!Lines, Sequence!BlockLines
<1>2. SequenceInv(r) /\ left \in 1..Len(r.participants)
  BY <1>1, SequenceKnown
<1>3. /\ SequenceInv(s) /\ right \in 1..Len(s.participants)
      /\ 1..Len(r.participants) \subseteq 1..Len(s.participants)
  BY <1>1, <1>2, SequenceKnown
<1>4. Sequence!Reads(Sequence!AppendMessage([s EXCEPT !.calls = calls], message))
  BY <1>3 DEF Sequence!ReadMessage, SequenceInv, SequenceType
<1>5. /\ AreParticipants(s, message.from, message.to)
      /\ message.dashed = line.dashed
      /\ message \in [from : 1..Len(s.participants), to : 1..Len(s.participants), dashed : BOOLEAN]
  BY <1>1, <1>2, <1>3 DEF AreParticipants
<1> HIDE DEF left, right, r, s, message
<1>6. message \in ACall
  BY <1>5 DEF ACall
<1>7. s.calls \in Seq(ACall) /\ \A c \in 1..Len(s.calls) : AreParticipants(s, s.calls[c].from, s.calls[c].to)
  BY <1>3 DEF SequenceInv, SequenceOpenFits, SequenceType
<1>8. calls \in Seq(ACall) /\ \A c \in 1..Len(calls) : AreParticipants(s, calls[c].from, calls[c].to)
  <2>1. CASE calls = s.calls
    BY <1>7, <2>1
  <2>2. CASE calls = Append(s.calls, message)
    <3>1. /\ Append(s.calls, message) \in Seq(ACall)
          /\ Len(Append(s.calls, message)) = Len(s.calls) + 1
          /\ Append(s.calls, message)[Len(s.calls) + 1] = message
          /\ \A i \in 1..Len(s.calls) : Append(s.calls, message)[i] = s.calls[i]
          /\ \A i \in 1..Len(s.calls) + 1 : i \in 1..Len(s.calls) \/ i = Len(s.calls) + 1
      BY <1>6, <1>7, AppendIs
    <3> HIDE DEF calls
    <3> QED
      BY <1>5, <1>7, <2>2, <3>1
  <2>3. CASE s.calls # <<>> /\ calls = Sequence!Pop(s.calls)
    <3>1. calls = SubSeq(s.calls, 1, Len(s.calls) - 1)
      BY <2>3 DEF Sequence!Pop
    <3> HIDE DEF calls
    <3>2. /\ calls \in Seq(ACall) /\ Len(s.calls) \in Nat \ {0} /\ Len(calls) = Len(s.calls) - 1
          /\ \A i \in 1..Len(s.calls) - 1 : calls[i] = s.calls[i]
      BY <1>7, <2>3, <3>1, ButLastIs
    <3>3. ASSUME NEW c \in 1..Len(calls) PROVE c \in 1..Len(s.calls) /\ calls[c] = s.calls[c]
      BY <3>2
    <3> QED
      BY <1>7, <3>2, <3>3
  <2> QED
    BY <2>1, <2>2, <2>3 DEF Sequence!TrackCall
<1> QED
  BY <1>3, <1>4, <1>5, <1>6, <1>8, SequenceMessaged, SequenceReads

LEMMA SequenceReturn ==
  ASSUME SequenceInv(reader), NEW line \in Sequence!Lines, Sequence!ReadReturn(line)
  PROVE  SequenceInv(reader')
<1>1. CASE reader.calls = <<>>
  BY <1>1, SequenceEmpty DEF Sequence!ReadReturn, Sequence!Fails
<1>2. CASE reader.calls # <<>>
  <2> DEFINE call    == Sequence!Top(reader.calls)
             message == [from |-> call.to, to |-> call.from, dashed |-> TRUE]
             calls   == SubSeq(reader.calls, 1, Len(reader.calls) - 1)
  <2>1. Sequence!Reads(Sequence!AppendMessage([reader EXCEPT !.calls = calls], message))
    BY <1>2 DEF Sequence!ReadReturn, Sequence!Pop, SequenceInv, SequenceType
  <2>2. /\ reader.calls \in Seq(ACall)
        /\ \A c \in 1..Len(reader.calls) : AreParticipants(reader, reader.calls[c].from, reader.calls[c].to)
    BY DEF SequenceInv, SequenceOpenFits, SequenceType
  <2>3. /\ calls \in Seq(ACall) /\ Len(reader.calls) \in Nat \ {0} /\ Len(calls) = Len(reader.calls) - 1
        /\ \A i \in 1..Len(reader.calls) - 1 : calls[i] = reader.calls[i]
    BY <1>2, <2>2, ButLastIs
  <2> HIDE DEF calls
  <2>4. ASSUME NEW c \in 1..Len(calls) PROVE c \in 1..Len(reader.calls) /\ calls[c] = reader.calls[c]
    BY <2>3
  <2>5. Len(reader.calls) \in 1..Len(reader.calls)
    BY <2>3
  <2>6. AreParticipants(reader, call.from, call.to) /\ call \in ACall
    BY <2>2, <2>5 DEF Sequence!Top
  <2>7. message \in ACall /\ AreParticipants(reader, message.from, message.to)
    BY <2>6 DEF ACall, AreParticipants
  <2> QED
    BY <2>1, <2>2, <2>3, <2>4, <2>7, SequenceMessaged, SequenceReads
<1> QED
  BY <1>1, <1>2

LEMMA SequenceNote ==
  ASSUME SequenceInv(reader), NEW line \in Sequence!Lines, Sequence!ReadNote(line),
         reader.note = Sequence!NoNote
  PROVE  SequenceInv(reader')
<1>1. CASE Sequence!Fails
  BY <1>1, SequenceEmpty DEF Sequence!Fails
<1>2. CASE line.id = Sequence!None /\ ~Sequence!Fails
  <2> DEFINE low  == Sequence!Smaller(reader.last.from, reader.last.to)
             high == Sequence!Larger(reader.last.from, reader.last.to)
             note == [first |-> IF line.place = "right" THEN high ELSE low,
                      last  |-> IF line.place = "left" THEN low ELSE high]
  <2>1. reader.last # Sequence!NoMessage /\ Sequence!PutNote(reader, note, line.inline)
    BY <1>2 DEF Sequence!ReadNote, Sequence!NoteAtLastMessage
  <2>2. /\ Len(reader.participants) \in Nat
        /\ reader.last.from \in 1..Len(reader.participants) /\ reader.last.to \in 1..Len(reader.participants)
    BY <2>1 DEF SequenceInv, SequenceType, SequenceOpenFits, AreParticipants
  <2>3. low \in 1..Len(reader.participants) /\ high \in 1..Len(reader.participants) /\ low <= high
    BY <2>2 DEF Sequence!Smaller, Sequence!Larger
  <2> HIDE DEF low, high
  <2>4. note \in ASpan /\ note.first <= note.last /\ AreParticipants(reader, note.first, note.last)
    <3>1. note.first \in {low, high} /\ note.last \in {low, high} /\ note.first <= note.last
      BY <2>2, <2>3
    <3> QED
      BY <2>2, <2>3, <3>1 DEF ASpan, AreParticipants
  <2> HIDE DEF note
  <2> QED
    BY <2>1, <2>4, SequenceNotePut
<1>3. CASE line.id # Sequence!None /\ ~Sequence!Fails
  <2> DEFINE r      == Sequence!Known(reader, line.id)
             first  == Sequence!IndexOf(reader, line.id)
             s      == Sequence!Known(r, line.second)
             second == Sequence!IndexOf(r, line.second)
  <2>1. line.id \in Names /\ line.second \in Names \cup {Sequence!None}
    BY <1>3 DEF Sequence!ReadNote, Sequence!Lines, Sequence!BlockLines
  <2>2. SequenceInv(r) /\ first \in 1..Len(r.participants) /\ r.note = Sequence!NoNote
    BY <2>1, SequenceKnown
  <2>3. CASE line.second = Sequence!None
    <3> DEFINE note == [first |-> first, last |-> first]
    <3>1. Sequence!PutNote(r, note, line.inline)
      BY <1>3, <2>3 DEF Sequence!ReadNote, Sequence!NoteAtParticipants
    <3> HIDE DEF r, first
    <3>2. first \in Nat
      BY <2>2 DEF SequenceInv, SequenceType
    <3>3. note \in ASpan /\ note.first <= note.last /\ AreParticipants(r, note.first, note.last)
      BY <2>2, <3>2 DEF ASpan, AreParticipants
    <3> HIDE DEF note
    <3> QED
      BY <2>2, <3>1, <3>3, SequenceNotePut
  <2>4. CASE line.second # Sequence!None
    <3> DEFINE note == [first |-> Sequence!Smaller(first, second), last |-> Sequence!Larger(first, second)]
    <3>1. Sequence!PutNote(s, note, line.inline)
      BY <1>3, <2>4 DEF Sequence!ReadNote, Sequence!NoteAtParticipants
    <3>2. /\ SequenceInv(s) /\ second \in 1..Len(s.participants) /\ s.note = Sequence!NoNote
          /\ 1..Len(r.participants) \subseteq 1..Len(s.participants)
      BY <2>1, <2>2, <2>4, SequenceKnown
    <3> HIDE DEF r, s, first, second
    <3>3. Len(s.participants) \in Nat /\ first \in 1..Len(s.participants)
      BY <2>2, <3>2 DEF SequenceInv, SequenceType
    <3>4. /\ note.first \in 1..Len(s.participants) /\ note.last \in 1..Len(s.participants)
          /\ note.first <= note.last
          /\ note \in [first : 1..Len(s.participants), last : 1..Len(s.participants)]
      BY <3>2, <3>3 DEF Sequence!Smaller, Sequence!Larger
    <3> HIDE DEF note
    <3>5. note \in ASpan /\ AreParticipants(s, note.first, note.last)
      BY <3>3, <3>4 DEF ASpan, AreParticipants
    <3> QED
      BY <3>1, <3>2, <3>4, <3>5, SequenceNotePut
  <2> QED
    BY <2>3, <2>4
<1> QED
  BY <1>1, <1>2, <1>3

LEMMA SequenceNoteLine ==
  ASSUME SequenceInv(reader), NEW line \in Sequence!Lines, Sequence!ReadNoteLine(line),
         reader.note # Sequence!NoNote
  PROVE  SequenceInv(reader')
<1>1. CASE line.is # "endnote"
  BY <1>1, SequenceReads DEF Sequence!ReadNoteLine
<1>2. CASE line.is = "endnote"
  <2> DEFINE r == [reader EXCEPT !.note = Sequence!NoNote]
             s == [r EXCEPT !.steps = Append(@, Sequence!NoteStep(reader.note))]
  <2>1. Sequence!Reads(s)
    <3>1. s = [reader EXCEPT !.note = Sequence!NoNote, !.steps = Append(@, Sequence!NoteStep(reader.note))]
      OBVIOUS
    <3> QED
      BY <1>2, <3>1 DEF Sequence!ReadNoteLine
  <2>2. /\ reader.note \in ASpan /\ Sequence!NoNote \in ASpan
        /\ AreParticipants(reader, reader.note.first, reader.note.last)
        /\ reader.note.first <= reader.note.last
    BY DEF SequenceInv, SequenceType, SequenceOpenFits, Sequence!NoNote, ASpan
  <2>3. /\ SequenceType(r) /\ r.participants = reader.participants /\ r.steps = reader.steps
        /\ r.calls = reader.calls /\ r.last = reader.last /\ r.groups = reader.groups
        /\ r.note = Sequence!NoNote
    BY <2>2 DEF SequenceInv, SequenceType
  <2>4. Sequence!PutNote(r, reader.note, TRUE)
    BY <2>1 DEF Sequence!PutNote
  <2> HIDE DEF r, s
  <2>5. SequenceOpenFits(r) /\ SequenceNamesFit(r)
    BY <2>3 DEF SequenceInv, SequenceOpenFits, SequenceNamesFit, AreParticipants
  <2>6. SequenceInv(r)
    BY <2>3, <2>5, SequenceKept
  <2>7. AreParticipants(r, reader.note.first, reader.note.last)
    BY <2>2, <2>3 DEF AreParticipants
  <2> QED
    BY <2>2, <2>3, <2>4, <2>6, <2>7, SequenceNotePut
<1> QED
  BY <1>1, <1>2

LEMMA SequenceSkips ==
  ASSUME SequenceInv(reader), NEW block \in Blocks, Sequence!Reads([reader EXCEPT !.skipped = block])
  PROVE  SequenceInv(reader')
<1> DEFINE r == [reader EXCEPT !.skipped = block]
<1>1. /\ SequenceType(r) /\ r.participants = reader.participants /\ r.steps = reader.steps
      /\ r.calls = reader.calls /\ r.last = reader.last /\ r.groups = reader.groups
      /\ r.note = reader.note
  BY DEF SequenceInv, SequenceType
<1>2. SequenceOpenFits(r) /\ SequenceNamesFit(r)
  BY <1>1 DEF SequenceInv, SequenceOpenFits, SequenceNamesFit, AreParticipants
<1> HIDE DEF r
<1> QED
  BY <1>1, <1>2, SequenceKept, SequenceReads DEF r

LEMMA SequenceGroups ==
  ASSUME SequenceInv(reader), NEW line,
         \/ Sequence!ReadGroupStart(line) \/ Sequence!ReadGroupElse(line)
         \/ Sequence!ReadGroupEnd(line) \/ Sequence!ReadDivider(line)
  PROVE  SequenceInv(reader')
<1> DEFINE put(name, groups) == [reader EXCEPT !.steps = Append(@, Sequence!Step(name)), !.groups = groups]
<1>1. CASE reader' = Sequence!Failed
  BY <1>1, SequenceEmpty
<1>2. CASE reader' # Sequence!Failed
  <2>1. reader.groups \in Nat
    BY DEF SequenceInv, SequenceType
  <2>2. ASSUME NEW name
        PROVE  [reader EXCEPT !.steps = Append(@, Sequence!Step(name))] = put(name, reader.groups + 0)
    <3>1. \A steps : [reader EXCEPT !.steps = steps] = [reader EXCEPT !.steps = steps, !.groups = reader.groups]
      BY DEF SequenceInv, SequenceType
    <3>2. reader.groups + 0 = reader.groups
      BY <2>1
    <3> QED
      BY <3>1, <3>2
  <2>3. CASE Sequence!ReadGroupStart(line)
    BY <2>1, <2>3, SequenceNamedStep DEF Sequence!ReadGroupStart
  <2>4. CASE Sequence!ReadGroupElse(line)
    <3>1. reader.groups # 0 /\ Sequence!Reads(put("else", reader.groups + 0))
      BY <1>2, <2>2, <2>4 DEF Sequence!ReadGroupElse, Sequence!Fails
    <3> QED
      BY <3>1, SequenceNamedStep
  <2>5. CASE Sequence!ReadGroupEnd(line)
    <3>1. reader.groups # 0 /\ Sequence!Reads(put("end", reader.groups - 1))
      BY <1>2, <2>5 DEF Sequence!ReadGroupEnd, Sequence!Fails
    <3>2. reader.groups - 1 = reader.groups + (-1)
      BY <2>1
    <3> QED
      BY <3>1, <3>2, SequenceNamedStep
  <2>6. CASE Sequence!ReadDivider(line)
    <3>1. Sequence!Reads(put("divider", reader.groups + 0))
      BY <2>2, <2>6 DEF Sequence!ReadDivider
    <3> QED
      BY <3>1, SequenceNamedStep
  <2> QED
    BY <2>3, <2>4, <2>5, <2>6
<1> QED
  BY <1>1, <1>2

LEMMA SequenceLine ==
  ASSUME SequenceInv(reader), NEW line \in Sequence!Lines, Sequence!ReadLine(line)
  PROVE  SequenceInv(reader')
<1>1. CASE Sequence!Reads([reader EXCEPT !.skipped = Sequence!Continued(@, line)])
  <2>1. Sequence!Continued(reader.skipped, line) \in Blocks
    BY SkippedAre DEF SequenceInv, SequenceType, Sequence!Continued, Skipped!Continued, Sequence!NoBlock,
       Skipped!NoBlock, Sequence!BraceBalance, Skipped!BraceBalance
  <2>2. Sequence!Reads([reader EXCEPT !.skipped = Sequence!Continued(reader.skipped, line)])
    BY <1>1 DEF SequenceInv, SequenceType
  <2> QED
    BY <2>1, <2>2, SequenceSkips
<1>2. CASE Sequence!StartBlock(line)
  <2>1. line.name \in BlockNames
    BY <1>2 DEF Sequence!StartBlock, Sequence!Lines, Sequence!BlockLines, BlockNames
  <2>2. Sequence!Started(line) \in Blocks
    BY <2>1, SkippedAre DEF Sequence!Started, Skipped!Started, Sequence!NoBlock, Skipped!NoBlock
  <2> QED
    BY <1>2, <2>2, SequenceSkips DEF Sequence!StartBlock
<1>3. CASE Sequence!ReadMessage(line)
  BY <1>3, SequenceMessage
<1>4. CASE Sequence!ReadReturn(line)
  BY <1>4, SequenceReturn
<1>5. CASE reader.note = Sequence!NoNote /\ Sequence!ReadNote(line)
  BY <1>5, SequenceNote
<1>6. CASE reader.note # Sequence!NoNote /\ Sequence!ReadNoteLine(line)
  BY <1>6, SequenceNoteLine
<1>7. CASE \/ Sequence!ReadGroupStart(line) \/ Sequence!ReadGroupElse(line)
           \/ Sequence!ReadGroupEnd(line) \/ Sequence!ReadDivider(line)
  BY <1>7, SequenceGroups
<1>8. CASE Sequence!ReadParticipant(line)
  <2>1. line.id \in Names
    BY <1>8 DEF Sequence!ReadParticipant, Sequence!Lines, Sequence!BlockLines
  <2> QED
    BY <1>8, <2>1, SequenceKnown, SequenceReads DEF Sequence!ReadParticipant
<1>9. CASE Sequence!ReadIgnored(line) \/ Sequence!ReadUnknown(line)
  BY <1>9, SequenceReads, SequenceEmpty DEF Sequence!ReadIgnored, Sequence!ReadUnknown, Sequence!Fails
<1> QED
  BY <1>1, <1>2, <1>3, <1>4, <1>5, <1>6, <1>7, <1>8, <1>9 DEF Sequence!ReadLine, Sequence!ReadStatement

LEMMA SequenceFinish ==
  ASSUME SequenceInv(reader), Sequence!Finish
  PROVE  /\ SequenceInv(reader')
         /\ reader'.outcome = "parsed" => reader'.groups = 0
<1>1. CASE reader' = Sequence!Failed
  BY <1>1, SequenceEmpty DEF Sequence!Failed, Sequence!Empty
<1>2. CASE reader' # Sequence!Failed
  <2> DEFINE r == reader'
  <2>1. r = [reader EXCEPT !.outcome = "parsed"] /\ ~(reader.groups > 0)
    BY <1>2 DEF Sequence!Finish, Sequence!Unfinished
  <2>2. /\ SequenceType(r) /\ r.participants = reader.participants /\ r.steps = reader.steps
        /\ r.calls = reader.calls /\ r.last = reader.last /\ r.groups = reader.groups
        /\ r.note = reader.note
    BY <2>1 DEF SequenceInv, SequenceType, Outcomes
  <2> HIDE DEF r
  <2>3. SequenceOpenFits(r) /\ SequenceNamesFit(r)
    BY <2>2 DEF SequenceInv, SequenceOpenFits, SequenceNamesFit, AreParticipants
  <2>4. SequenceInv(r)
    BY <2>2, <2>3, SequenceKept
  <2>5. reader.groups = 0
    <3>1. reader.groups \in Nat
      BY DEF SequenceInv, SequenceType
    <3> QED
      BY <2>1, <3>1
  <2> QED
    BY <2>2, <2>4, <2>5 DEF r
<1> QED
  BY <1>1, <1>2

LEMMA SequenceWellFormed ==
  ASSUME SequenceInv(reader), reader.groups = 0
  PROVE  Sequence!WellFormed(reader)
<1>1. /\ reader.steps \in Seq(AStep) /\ Len(reader.steps) \in 0..Len(reader.steps)
      /\ Sequence!Count(reader, "end", Len(reader.steps)) \in Nat
  <2>1. reader.steps \in Seq(AStep) /\ Len(reader.steps) \in Nat
    BY DEF SequenceInv, SequenceType
  <2> QED
    BY <2>1, CountIs
<1>2. Sequence!Count(reader, "start", Len(reader.steps)) = Sequence!Count(reader, "end", Len(reader.steps))
  BY <1>1 DEF SequenceInv, SequenceGroupsFit
<1>3. /\ SequenceNamesFit(reader) /\ SequenceStepsFit(reader)
      /\ \A k \in 1..Len(reader.steps) :
           /\ Sequence!Count(reader, "end", k) <= Sequence!Count(reader, "start", k)
           /\ reader.steps[k].is = "else" =>
                Sequence!Count(reader, "end", k) < Sequence!Count(reader, "start", k)
  BY DEF SequenceInv, SequenceGroupsFit
<1> QED
  BY <1>2, <1>3 DEF SequenceNamesFit, SequenceStepsFit, StepFits, AreParticipants, Sequence!WellFormed

-----------------------------------------------------------------------------
(* The reader of states: a state that is composite was declared so, and a second declaration *)
(* is an error, so no state loses the states it holds.                                       *)

AState == [id : Names \cup {State!Pseudo}, kind : {"normal", "initial", "final"}, parent : Nat,
           composite : BOOLEAN]
AStateNote == [state : Nat, side : {"left", "right", "none"}]

StateType(r) ==
  r \in [states : Seq(AState), transitions : Seq(ALink), notes : Seq(AStateNote), composites : Seq(Nat),
         declared : SUBSET Nat, note : AStateNote, skipped : Blocks, outcome : Outcomes]

StatesDiffer(r) ==
  \A i, j \in 1..Len(r.states) : i # j =>
    \/ r.states[i].id # r.states[j].id
    \/ r.states[i].kind # r.states[j].kind
    \/ r.states[i].kind # "normal" /\ r.states[i].parent # r.states[j].parent

StatesNest(r) ==
  /\ \A i \in 1..Len(r.states) : r.states[i].parent # 0 =>
       r.states[i].parent < i /\ r.states[r.states[i].parent].composite
  /\ \A i \in 1..Len(r.states) : r.states[i].composite => i \in r.declared
  /\ \A c \in 1..Len(r.composites) :
       r.composites[c] \in 1..Len(r.states) /\ r.states[r.composites[c]].composite

TransitionsFit(r) ==
  \A t \in 1..Len(r.transitions) :
    /\ r.transitions[t].from \in 1..Len(r.states) /\ r.transitions[t].to \in 1..Len(r.states)
    /\ r.states[r.transitions[t].from].kind # "final"
    /\ r.states[r.transitions[t].to].kind # "initial"

StateNotesFit(r) ==
  /\ \A m, n \in 1..Len(r.notes) : m # n => r.notes[m] # r.notes[n]
  /\ \A n \in 1..Len(r.notes) : r.notes[n].state \in 1..Len(r.states)
  /\ r.note # State!NoNote =>
       r.note.state \in 1..Len(r.states) /\ \A n \in 1..Len(r.notes) : r.notes[n] # r.note

StateInv(r) ==
  StateType(r) /\ StatesDiffer(r) /\ StatesNest(r) /\ TransitionsFit(r) /\ StateNotesFit(r)

LEMMA StateEmpty == StateInv(State!Empty) /\ StateInv(State!Failed)
<1>1. State!NoBlock \in Blocks /\ State!NoNote \in AStateNote
  BY SkippedAre DEF State!NoBlock, Skipped!NoBlock, State!NoNote, AStateNote
<1>2. StateType(State!Empty)
  BY <1>1 DEF StateType, State!Empty, Outcomes
<1>3. StateType(State!Failed)
  BY <1>2 DEF StateType, State!Failed, Outcomes
<1>4. ASSUME NEW r \in {State!Empty, State!Failed}
      PROVE  /\ r.states = <<>> /\ r.transitions = <<>> /\ r.notes = <<>> /\ r.composites = <<>>
             /\ r.note = State!NoNote
  BY DEF State!Empty, State!Failed
<1> QED
  BY <1>2, <1>3, <1>4 DEF StateInv, StatesDiffer, StatesNest, TransitionsFit, StateNotesFit

LEMMA StateReads ==
  ASSUME NEW r, StateInv(r), State!Reads(r)
  PROVE  StateInv(reader')
BY StateEmpty DEF State!Reads

(* Transitions and notes stay right when no state goes away or changes its kind. *)
LEMMA StateGrown ==
  ASSUME NEW r, StateInv(r), NEW s, StateType(s), StatesDiffer(s), StatesNest(s),
         s.transitions = r.transitions, s.notes = r.notes, s.note = r.note,
         \A i \in 1..Len(r.states) : i \in 1..Len(s.states) /\ s.states[i].kind = r.states[i].kind
  PROVE  StateInv(s)
<1>1. TransitionsFit(s)
  BY DEF StateInv, TransitionsFit
<1>2. StateNotesFit(s)
  BY DEF StateInv, StateNotesFit
<1> QED
  BY <1>1, <1>2 DEF StateInv

LEMMA StateFirst ==
  ASSUME NEW n, NEW found \in SUBSET (1..n), found # {}
  PROVE  State!First(found) \in found
<1>1. found \subseteq Nat
  OBVIOUS
<1>2. \E i \in found : \A j \in found : i <= j
  BY <1>1, LeastOf
<1> QED
  BY <1>2 DEF State!First

LEMMA StateScope ==
  ASSUME NEW r, StateInv(r)
  PROVE  /\ State!Scope(r) \in Nat
         /\ State!Scope(r) # 0 => /\ State!Scope(r) \in 1..Len(r.states)
                                  /\ r.states[State!Scope(r)].composite
<1>1. r.composites \in Seq(Nat)
  BY DEF StateInv, StateType
<1>2. CASE r.composites = <<>>
  BY <1>2 DEF State!Scope
<1>3. CASE r.composites # <<>>
  <2>1. Len(r.composites) \in 1..Len(r.composites) /\ r.composites[Len(r.composites)] \in Nat
    BY <1>1, <1>3
  <2> QED
    BY <1>3, <2>1 DEF State!Scope, StateInv, StatesNest
<1> QED
  BY <1>2, <1>3

(* A state more in the open scope, which no other is. *)
LEMMA StateAppended ==
  ASSUME NEW r, StateInv(r), NEW id \in Names \cup {State!Pseudo}, NEW kind_ \in {"normal", "initial", "final"},
         kind_ = "normal" => State!Found(r, id) = {},
         kind_ # "normal" => State!FoundPseudo(r, kind_) = {}
  PROVE  LET s == State!AppendState(r, id, kind_)
             n == Len(r.states) + 1
         IN  /\ StateInv(s) /\ n \in 1..Len(s.states)
             /\ s.states[n].id = id /\ s.states[n].kind = kind_ /\ s.states[n].parent = State!Scope(s)
             /\ \A i \in 1..Len(r.states) : i \in 1..Len(s.states) /\ s.states[i] = r.states[i]
             /\ s.note = r.note /\ s.declared = r.declared /\ s.composites = r.composites
<1> DEFINE state == [id |-> id, kind |-> kind_, parent |-> State!Scope(r), composite |-> FALSE]
           s     == State!AppendState(r, id, kind_)
           n     == Len(r.states) + 1
<1>1. r.states \in Seq(AState)
  BY DEF StateInv, StateType
<1>2. /\ state \in AState /\ state.id = id /\ state.kind = kind_ /\ state.parent = State!Scope(r)
      /\ ~state.composite
  BY StateScope DEF AState
<1>3. s = [r EXCEPT !.states = Append(r.states, state)]
  BY DEF State!AppendState, StateInv, StateType
<1> HIDE DEF state
<1>4. /\ Append(r.states, state) \in Seq(AState) /\ Len(r.states) \in Nat
      /\ Len(Append(r.states, state)) = n
      /\ Append(r.states, state)[n] = state
      /\ \A i \in 1..Len(r.states) : Append(r.states, state)[i] = r.states[i] /\ r.states[i] \in AState
      /\ \A i \in 1..n : i \in 1..Len(r.states) \/ i = n
  BY <1>1, <1>2, AppendIs
<1>5. /\ StateType(s) /\ s.states = Append(r.states, state) /\ s.transitions = r.transitions
      /\ s.notes = r.notes /\ s.note = r.note /\ s.declared = r.declared /\ s.composites = r.composites
  BY <1>3, <1>4 DEF StateInv, StateType
<1> HIDE DEF s
<1>6. 1..Len(r.states) \subseteq 1..n /\ n \in 1..n /\ Len(s.states) = n
  BY <1>4, <1>5
<1>7. \A i \in 1..Len(r.states) : s.states[i] = r.states[i]
  BY <1>4, <1>5
<1>8. s.states[n] = state
  BY <1>4, <1>5
<1>9. StatesDiffer(s)
  <2>1. \A i \in 1..Len(r.states) :
          \/ r.states[i].id # id
          \/ r.states[i].kind # kind_
          \/ r.states[i].kind # "normal" /\ r.states[i].parent # State!Scope(r)
    <3>1. CASE kind_ = "normal"
      BY <3>1 DEF State!Found
    <3>2. CASE kind_ # "normal"
      BY <3>2 DEF State!FoundPseudo
    <3> QED
      BY <3>1, <3>2
  <2>2. ASSUME NEW i \in 1..n, NEW j \in 1..n, i # j
        PROVE  \/ s.states[i].id # s.states[j].id
               \/ s.states[i].kind # s.states[j].kind
               \/ s.states[i].kind # "normal" /\ s.states[i].parent # s.states[j].parent
    <3>1. CASE i \in 1..Len(r.states) /\ j \in 1..Len(r.states)
      BY <1>7, <2>2, <3>1 DEF StateInv, StatesDiffer
    <3>2. CASE i \in 1..Len(r.states) /\ j = n
      BY <1>2, <1>7, <1>8, <2>1, <3>2
    <3>3. CASE i = n /\ j \in 1..Len(r.states)
      BY <1>2, <1>7, <1>8, <2>1, <3>3
    <3> QED
      BY <1>4, <2>2, <3>1, <3>2, <3>3
  <2> QED
    BY <1>6, <2>2 DEF StatesDiffer
<1>10. StatesNest(s)
  <2>1. ASSUME NEW i \in 1..n, s.states[i].parent # 0
        PROVE  s.states[i].parent < i /\ s.states[s.states[i].parent].composite
    <3>1. CASE i = n
      <4>1. State!Scope(r) \in 1..Len(r.states) /\ r.states[State!Scope(r)].composite
        BY <1>2, <1>8, <2>1, <3>1, StateScope
      <4> QED
        BY <1>2, <1>4, <1>7, <1>8, <3>1, <4>1
    <3>2. CASE i \in 1..Len(r.states)
      <4>1. r.states[i].parent # 0 /\ r.states[i].parent \in Nat
        BY <1>4, <1>7, <2>1, <3>2 DEF AState
      <4>2. r.states[i].parent < i /\ r.states[r.states[i].parent].composite
        BY <3>2, <4>1 DEF StateInv, StatesNest
      <4>3. r.states[i].parent \in 1..Len(r.states)
        BY <1>4, <3>2, <4>1, <4>2
      <4> QED
        BY <1>7, <3>2, <4>2, <4>3
    <3> QED
      BY <1>4, <3>1, <3>2
  <2>2. \A i \in 1..n : s.states[i].composite => i \in s.declared
    BY <1>2, <1>4, <1>5, <1>7, <1>8 DEF StateInv, StatesNest
  <2>3. \A c \in 1..Len(s.composites) :
          s.composites[c] \in 1..n /\ s.states[s.composites[c]].composite
    BY <1>5, <1>6, <1>7 DEF StateInv, StatesNest
  <2> QED
    BY <1>6, <2>1, <2>2, <2>3 DEF StatesNest
<1>11. StateInv(s)
  BY <1>5, <1>6, <1>7, <1>9, <1>10, StateGrown
<1>12. State!Scope(s) = State!Scope(r)
  BY <1>5 DEF State!Scope
<1> QED
  BY <1>2, <1>5, <1>6, <1>7, <1>8, <1>11, <1>12 DEF s

TokenFits(r, token, kind_) ==
  LET s == State!Resolved(r, token, kind_)
      i == State!IndexOf(r, token, kind_)
  IN  /\ StateInv(s) /\ i \in 1..Len(s.states)
      /\ s.states[i].kind = IF token = State!Pseudo THEN kind_ ELSE "normal"
      /\ \A j \in 1..Len(r.states) : j \in 1..Len(s.states) /\ s.states[j] = r.states[j]
      /\ s.note = r.note /\ s.declared = r.declared /\ s.composites = r.composites

(* A token that is used has a state from then on: of its name, or the pseudo state of the scope. *)
LEMMA StateResolved ==
  ASSUME NEW r, StateInv(r), NEW token \in Names \cup {State!Pseudo},
         NEW kind_ \in {"normal", "initial", "final"}, token = State!Pseudo => kind_ # "normal"
  PROVE  TokenFits(r, token, kind_)
<1> DEFINE s     == State!Resolved(r, token, kind_)
           is    == IF token = State!Pseudo THEN kind_ ELSE "normal"
           found == State!Existing(s, token, kind_)
<1>1. \A t : State!Existing(t, token, kind_) \subseteq {j \in 1..Len(t.states) : t.states[j].kind = is}
  BY DEF State!Existing, State!Found, State!FoundPseudo
<1>2. /\ StateInv(s) /\ found # {}
      /\ \A j \in 1..Len(r.states) : j \in 1..Len(s.states) /\ s.states[j] = r.states[j]
      /\ s.note = r.note /\ s.declared = r.declared /\ s.composites = r.composites
  <2>1. CASE State!Existing(r, token, kind_) # {}
    BY <2>1 DEF State!Resolved
  <2>2. CASE State!Existing(r, token, kind_) = {}
    <3>1. s = State!AppendState(r, token, is)
      BY <2>2 DEF State!Resolved
    <3>2. /\ is \in {"normal", "initial", "final"}
          /\ is = "normal" => State!Found(r, token) = {}
          /\ is # "normal" => State!FoundPseudo(r, is) = {}
      BY <2>2 DEF State!Existing
    <3> HIDE DEF s, is
    <3>3. /\ StateInv(s) /\ Len(r.states) + 1 \in 1..Len(s.states)
          /\ s.states[Len(r.states) + 1].id = token /\ s.states[Len(r.states) + 1].kind = is
          /\ s.states[Len(r.states) + 1].parent = State!Scope(s)
          /\ \A j \in 1..Len(r.states) : j \in 1..Len(s.states) /\ s.states[j] = r.states[j]
          /\ s.note = r.note /\ s.declared = r.declared /\ s.composites = r.composites
      BY <3>1, <3>2, StateAppended
    <3>4. Len(r.states) + 1 \in found
      BY <3>3 DEF State!Existing, State!Found, State!FoundPseudo, is
    <3> QED
      BY <3>3, <3>4
  <2> QED
    BY <2>1, <2>2
<1> HIDE DEF s
<1>3. found \in SUBSET (1..Len(s.states)) /\ \A j \in found : s.states[j].kind = is
  BY <1>1
<1>4. State!First(found) \in found
  BY <1>2, <1>3, StateFirst
<1> QED
  BY <1>2, <1>3, <1>4 DEF State!IndexOf, s, TokenFits

LEMMA StateDeclaration ==
  ASSUME StateInv(reader), NEW line \in State!Lines, State!ReadDeclaration(line)
  PROVE  StateInv(reader')
<1> DEFINE r == State!Resolved(reader, line.id, "normal")
           i == State!IndexOf(reader, line.id, "normal")
           composites == IF line.opens THEN Append(r.composites, i) ELSE r.composites
           state  == [r.states[i] EXCEPT !.composite = line.opens]
           states == [r.states EXCEPT ![i] = state]
           declared == r.declared \cup {i}
           s == [r EXCEPT !.declared = declared, !.states = states, !.composites = composites]
<1>1. line.id \in Names /\ line.opens \in BOOLEAN
  BY DEF State!ReadDeclaration, State!Lines, State!BlockLines
<1>2. StateInv(r) /\ i \in 1..Len(r.states) /\ r.declared = reader.declared
  <2>1. /\ line.id \in Names \cup {State!Pseudo} /\ "normal" \in {"normal", "initial", "final"}
        /\ line.id # State!Pseudo
    BY <1>1, NamesAssumption
  <2>2. TokenFits(reader, line.id, "normal")
    BY <2>1, StateResolved
  <2> QED
    BY <2>2 DEF TokenFits
<1>3. CASE i \in reader.declared
  BY <1>3, StateEmpty DEF State!ReadDeclaration, State!Fails
<1>4. CASE i \notin reader.declared
  <2>1. State!Reads([r EXCEPT !.declared = @ \cup {i}, !.states[i].composite = line.opens,
                              !.composites = IF line.opens THEN Append(@, i) ELSE @])
    BY <1>4 DEF State!ReadDeclaration
  <2> HIDE DEF r, i
  <2>2. State!Reads(s)
    BY <1>2, <2>1 DEF StateInv, StateType
  <2>3. /\ r.states \in Seq(AState) /\ Len(r.states) \in Nat /\ r.composites \in Seq(Nat)
        /\ Len(r.composites) \in Nat /\ r.declared \in SUBSET Nat /\ i \in Nat
    BY <1>2 DEF StateInv, StateType
  <2>4. /\ \A j \in 1..Len(r.states) : r.states[j] \in AState
        /\ state \in AState /\ state.id = r.states[i].id /\ state.kind = r.states[i].kind
        /\ state.parent = r.states[i].parent /\ state.composite = line.opens
    <3>1. \A j \in 1..Len(r.states) : r.states[j] \in AState
      BY <2>3
    <3> QED
      BY <1>1, <1>2, <3>1 DEF AState
  <2> HIDE DEF state
  <2>5. /\ states \in Seq(AState) /\ Len(states) = Len(r.states) /\ states[i] = state
        /\ \A j \in 1..Len(r.states) : j # i => states[j] = r.states[j]
    BY <1>2, <2>3, <2>4, ReplacedIs
  <2> HIDE DEF states
  <2>6. /\ composites \in Seq(Nat)
        /\ \A c \in 1..Len(composites) :
             (c \in 1..Len(r.composites) /\ composites[c] = r.composites[c]) \/ (line.opens /\ composites[c] = i)
    BY <1>1, <2>3, AppendIs
  <2>7. declared \in SUBSET Nat
    BY <2>3
  <2> HIDE DEF composites
  <2>8. /\ StateType(s) /\ s.states = states /\ s.transitions = r.transitions
        /\ s.notes = r.notes /\ s.note = r.note /\ s.declared = declared /\ s.composites = composites
    BY <1>2, <2>5, <2>6, <2>7 DEF StateInv, StateType
  <2> HIDE DEF s
  <2>9. \A j \in 1..Len(r.states) : /\ states[j].id = r.states[j].id /\ states[j].kind = r.states[j].kind
                                    /\ states[j].parent = r.states[j].parent
    BY <2>4, <2>5
  <2>10. ~r.states[i].composite
    BY <1>2, <1>4 DEF StateInv, StatesNest
  <2>11. \A j \in 1..Len(r.states) : r.states[j].composite => states[j].composite
    BY <2>5, <2>10
  <2>12. StatesDiffer(s)
    BY <1>2, <2>5, <2>8, <2>9 DEF StateInv, StatesDiffer
  <2>13. StatesNest(s)
    <3>1. ASSUME NEW j \in 1..Len(r.states), states[j].parent # 0
          PROVE  states[j].parent < j /\ states[states[j].parent].composite
      <4>1. r.states[j].parent # 0 /\ r.states[j].parent \in Nat /\ states[j].parent = r.states[j].parent
        BY <2>4, <2>9, <3>1 DEF AState
      <4>2. r.states[j].parent < j /\ r.states[r.states[j].parent].composite
        BY <1>2, <4>1 DEF StateInv, StatesNest
      <4>3. r.states[j].parent \in 1..Len(r.states)
        BY <2>3, <4>1, <4>2
      <4> QED
        BY <2>11, <4>1, <4>2, <4>3
    <3>2. \A j \in 1..Len(r.states) : states[j].composite => j \in declared
      BY <1>2, <2>5 DEF StateInv, StatesNest
    <3>3. ASSUME NEW c \in 1..Len(composites)
          PROVE  composites[c] \in 1..Len(r.states) /\ states[composites[c]].composite
      <4>1. CASE c \in 1..Len(r.composites) /\ composites[c] = r.composites[c]
        BY <1>2, <2>11, <4>1 DEF StateInv, StatesNest
      <4>2. CASE line.opens /\ composites[c] = i
        BY <1>2, <2>4, <2>5, <4>2
      <4> QED
        BY <2>6, <4>1, <4>2
    <3> QED
      BY <2>5, <2>8, <3>1, <3>2, <3>3 DEF StatesNest
  <2>14. \A j \in 1..Len(r.states) : j \in 1..Len(s.states) /\ s.states[j].kind = r.states[j].kind
    BY <2>5, <2>8, <2>9
  <2> QED
    BY <1>2, <2>2, <2>8, <2>12, <2>13, <2>14, StateGrown, StateReads
<1> QED
  BY <1>3, <1>4

(* An end of a transition is a state of a name or the pseudo state of its end. *)
LEMMA StatePseudo ==
  ASSUME NEW r, StateInv(r), NEW token \in Names \cup {State!Pseudo}, NEW kind_ \in {"initial", "final"}
  PROVE  LET s == State!Resolved(r, token, kind_)
             i == State!IndexOf(r, token, kind_)
         IN  /\ StateInv(s) /\ i \in 1..Len(s.states) /\ s.states[i].kind \in {kind_, "normal"}
             /\ \A j \in 1..Len(r.states) : j \in 1..Len(s.states) /\ s.states[j] = r.states[j]
<1>1. kind_ \in {"normal", "initial", "final"} /\ (token = State!Pseudo => kind_ # "normal")
  OBVIOUS
<1>2. TokenFits(r, token, kind_)
  BY <1>1, StateResolved
<1> QED
  BY <1>2 DEF TokenFits

LEMMA StateTransition ==
  ASSUME StateInv(reader), NEW line \in State!Lines, State!ReadTransition(line)
  PROVE  StateInv(reader')
<1>1. CASE line.from = State!Pseudo /\ line.to = State!Pseudo
  BY <1>1, StateEmpty DEF State!ReadTransition, State!Fails
<1>2. CASE ~(line.from = State!Pseudo /\ line.to = State!Pseudo)
  <2> DEFINE r    == State!Resolved(reader, line.from, "initial")
             from == State!IndexOf(reader, line.from, "initial")
             s    == State!Resolved(r, line.to, "final")
             to   == State!IndexOf(r, line.to, "final")
             link == [from |-> from, to |-> to]
             t    == [s EXCEPT !.transitions = Append(@, link)]
  <2>1. line.from \in Names \cup {State!Pseudo} /\ line.to \in Names \cup {State!Pseudo}
    BY DEF State!ReadTransition, State!Lines, State!BlockLines
  <2>2. /\ StateInv(r) /\ from \in 1..Len(r.states)
        /\ r.states[from].kind \in {"initial", "normal"}
    <3> DEFINE token == line.from
    <3>1. token \in Names \cup {State!Pseudo}
      BY <2>1
    <3> HIDE DEF token
    <3>2. LET q == State!Resolved(reader, token, "initial")
              i == State!IndexOf(reader, token, "initial")
          IN  StateInv(q) /\ i \in 1..Len(q.states) /\ q.states[i].kind \in {"initial", "normal"}
      BY <3>1, StatePseudo
    <3> QED
      BY <3>2 DEF token
  <2>3. /\ StateInv(s) /\ to \in 1..Len(s.states)
        /\ s.states[to].kind \in {"final", "normal"}
        /\ \A j \in 1..Len(r.states) : j \in 1..Len(s.states) /\ s.states[j] = r.states[j]
    <3> DEFINE token == line.to
    <3>1. token \in Names \cup {State!Pseudo}
      BY <2>1
    <3> HIDE DEF token, r
    <3>2. LET q == State!Resolved(r, token, "final")
              i == State!IndexOf(r, token, "final")
          IN  /\ StateInv(q) /\ i \in 1..Len(q.states) /\ q.states[i].kind \in {"final", "normal"}
              /\ \A j \in 1..Len(r.states) : j \in 1..Len(q.states) /\ q.states[j] = r.states[j]
      BY <2>2, <3>1, StatePseudo
    <3> QED
      BY <3>2 DEF token
  <2>4. State!Reads(t)
    BY <1>2 DEF State!ReadTransition
  <2> HIDE DEF r, from, s, to
  <2>5. /\ from \in 1..Len(s.states) /\ s.states[from].kind \in {"initial", "normal"}
        /\ s.transitions \in Seq(ALink) /\ Len(s.states) \in Nat
    <3>1. from \in 1..Len(s.states) /\ s.states[from] = r.states[from]
      BY <2>2, <2>3
    <3>2. s.transitions \in Seq(ALink) /\ s.states \in Seq(AState)
      BY <2>3 DEF StateInv, StateType
    <3> QED
      BY <2>2, <3>1, <3>2
  <2>6. link \in ALink /\ link.from = from /\ link.to = to
    BY <2>3, <2>5 DEF ALink
  <2> HIDE DEF link
  <2>7. /\ Append(s.transitions, link) \in Seq(ALink)
        /\ Len(Append(s.transitions, link)) = Len(s.transitions) + 1
        /\ Append(s.transitions, link)[Len(s.transitions) + 1] = link
        /\ \A k \in 1..Len(s.transitions) : Append(s.transitions, link)[k] = s.transitions[k]
        /\ \A k \in 1..Len(s.transitions) + 1 : k \in 1..Len(s.transitions) \/ k = Len(s.transitions) + 1
    BY <2>5, <2>6, AppendIs
  <2>8. /\ StateType(t) /\ t.states = s.states /\ t.transitions = Append(s.transitions, link)
        /\ t.notes = s.notes /\ t.note = s.note /\ t.declared = s.declared /\ t.composites = s.composites
    BY <2>3, <2>7 DEF StateInv, StateType
  <2> HIDE DEF t
  <2>9. TransitionsFit(t)
    <3>1. s.states[to].kind # "initial" /\ s.states[from].kind # "final"
      BY <2>3, <2>5
    <3>2. TransitionsFit(s)
      BY <2>3 DEF StateInv
    <3>3. ASSUME NEW k \in 1..Len(s.transitions) + 1
          PROVE  LET u == Append(s.transitions, link)[k] IN
                   /\ u.from \in 1..Len(s.states) /\ u.to \in 1..Len(s.states)
                   /\ s.states[u.from].kind # "final" /\ s.states[u.to].kind # "initial"
      <4>1. CASE k \in 1..Len(s.transitions)
        BY <2>7, <3>2, <4>1 DEF TransitionsFit
      <4>2. CASE k = Len(s.transitions) + 1
        BY <2>3, <2>5, <2>6, <2>7, <3>1, <4>2
      <4> QED
        BY <2>7, <4>1, <4>2
    <3> QED
      BY <2>7, <2>8, <3>3 DEF TransitionsFit
  <2>10. StatesDiffer(t)
    BY <2>3, <2>8 DEF StateInv, StatesDiffer
  <2>11. StatesNest(t)
    BY <2>3, <2>8 DEF StateInv, StatesNest
  <2>12. StateNotesFit(t)
    BY <2>3, <2>8 DEF StateInv, StateNotesFit
  <2> QED
    BY <2>4, <2>8, <2>9, <2>10, <2>11, <2>12, StateReads DEF StateInv
<1> QED
  BY <1>1, <1>2

LEMMA StateChanged ==
  ASSUME StateInv(reader), NEW r, State!Reads(r), StateType(r), r.states = reader.states,
         r.transitions = reader.transitions, r.declared = reader.declared,
         r.composites = reader.composites, StateNotesFit(r)
  PROVE  StateInv(reader')
<1>1. StatesDiffer(r)
  BY DEF StateInv, StatesDiffer
<1>2. StatesNest(r)
  BY DEF StateInv, StatesNest
<1>3. TransitionsFit(r)
  BY DEF StateInv, TransitionsFit
<1> QED
  BY <1>1, <1>2, <1>3, StateReads DEF StateInv

LEMMA StateClose ==
  ASSUME StateInv(reader), NEW line \in State!Lines, State!ReadClose(line)
  PROVE  StateInv(reader')
<1>1. CASE reader.composites = <<>>
  BY <1>1, StateEmpty DEF State!ReadClose, State!Fails
<1>2. CASE reader.composites # <<>>
  <2> DEFINE rest == SubSeq(reader.composites, 1, Len(reader.composites) - 1)
             r    == [reader EXCEPT !.composites = rest]
  <2>1. State!Reads(r)
    BY <1>2 DEF State!ReadClose, StateInv, StateType
  <2>2. reader.composites \in Seq(Nat)
    BY DEF StateInv, StateType
  <2>3. /\ rest \in Seq(Nat) /\ Len(reader.composites) \in Nat \ {0}
        /\ Len(rest) = Len(reader.composites) - 1
        /\ \A i \in 1..Len(reader.composites) - 1 : rest[i] = reader.composites[i]
    BY <1>2, <2>2, ButLastIs
  <2> HIDE DEF rest
  <2>4. /\ StateType(r) /\ r.states = reader.states /\ r.transitions = reader.transitions
        /\ r.notes = reader.notes /\ r.note = reader.note /\ r.declared = reader.declared
        /\ r.composites = rest
    BY <2>3 DEF StateInv, StateType
  <2> HIDE DEF r
  <2>5. ASSUME NEW c \in 1..Len(rest)
        PROVE  c \in 1..Len(reader.composites) /\ rest[c] = reader.composites[c]
    BY <2>3
  <2>6. StatesNest(r)
    BY <2>4, <2>5 DEF StateInv, StatesNest
  <2>7. StatesDiffer(r)
    BY <2>4 DEF StateInv, StatesDiffer
  <2> QED
    BY <2>1, <2>4, <2>6, <2>7, StateGrown, StateReads
<1> QED
  BY <1>1, <1>2

LEMMA StateNoteAdded ==
  ASSUME StateInv(reader), NEW note \in AStateNote, note.state \in 1..Len(reader.states),
         \A n \in 1..Len(reader.notes) : reader.notes[n] # note,
         NEW r, State!Reads(r), StateType(r), r.states = reader.states,
         r.transitions = reader.transitions, r.declared = reader.declared,
         r.composites = reader.composites, r.notes = Append(reader.notes, note), r.note = State!NoNote
  PROVE  StateInv(reader')
<1>1. reader.notes \in Seq(AStateNote)
  BY DEF StateInv, StateType
<1>2. /\ Len(r.notes) = Len(reader.notes) + 1 /\ r.notes[Len(reader.notes) + 1] = note
      /\ \A n \in 1..Len(reader.notes) : r.notes[n] = reader.notes[n]
      /\ \A n \in 1..Len(reader.notes) + 1 : n \in 1..Len(reader.notes) \/ n = Len(reader.notes) + 1
  BY <1>1, AppendIs
<1>3. \A n \in 1..Len(r.notes) : r.notes[n].state \in 1..Len(r.states)
  BY <1>2 DEF StateInv, StateNotesFit
<1>4. ASSUME NEW m \in 1..Len(r.notes), NEW n \in 1..Len(r.notes), m # n
      PROVE  r.notes[m] # r.notes[n]
  <2>1. CASE m \in 1..Len(reader.notes) /\ n \in 1..Len(reader.notes)
    BY <1>2, <1>4, <2>1 DEF StateInv, StateNotesFit
  <2>2. CASE m \in 1..Len(reader.notes) /\ n = Len(reader.notes) + 1
    BY <1>2, <2>2
  <2>3. CASE m = Len(reader.notes) + 1 /\ n \in 1..Len(reader.notes)
    BY <1>2, <2>3
  <2> QED
    BY <1>2, <1>4, <2>1, <2>2, <2>3
<1>5. StateNotesFit(r)
  BY <1>3, <1>4 DEF StateNotesFit
<1> QED
  BY <1>5, StateChanged

LEMMA StateNote ==
  ASSUME StateInv(reader), NEW line \in State!Lines, State!ReadNote(line), reader.note = State!NoNote
  PROVE  StateInv(reader')
<1> DEFINE found == State!Found(reader, line.id)
           note  == [state |-> State!First(found), side |-> line.side]
<1>1. CASE reader' = State!Failed
  BY <1>1, StateEmpty
<1>2. CASE reader' # State!Failed
  <2>1. /\ found # {} /\ ~State!HasNote(reader, State!First(found), line.side)
        /\ IF line.inline THEN State!Reads([reader EXCEPT !.notes = Append(@, note)])
           ELSE State!Reads([reader EXCEPT !.note = note])
    BY <1>2 DEF State!ReadNote, State!Fails
  <2>2. line.side \in {"left", "right"}
    BY DEF State!ReadNote, State!Lines, State!BlockLines, State!Sides
  <2>3. State!First(found) \in 1..Len(reader.states)
    <3>1. found \in SUBSET (1..Len(reader.states))
      BY DEF State!Found
    <3> QED
      BY <2>1, <3>1, StateFirst
  <2>4. reader.notes \in Seq(AStateNote) /\ reader.states \in Seq(AState) /\ Len(reader.states) \in Nat
    BY DEF StateInv, StateType
  <2>5. note \in AStateNote /\ note.state = State!First(found)
    BY <2>2, <2>3, <2>4 DEF AStateNote
  <2>6. \A n \in 1..Len(reader.notes) : reader.notes[n] # note
    BY <2>1 DEF State!HasNote
  <2> HIDE DEF note
  <2>7. CASE line.inline
    <3> DEFINE r == [reader EXCEPT !.notes = Append(@, note)]
    <3>1. Append(reader.notes, note) \in Seq(AStateNote)
      BY <2>4, <2>5
    <3>2. /\ StateType(r) /\ r.states = reader.states /\ r.transitions = reader.transitions
          /\ r.declared = reader.declared /\ r.composites = reader.composites
          /\ r.notes = Append(reader.notes, note) /\ r.note = State!NoNote
      BY <3>1 DEF StateInv, StateType
    <3>3. State!Reads(r)
      BY <2>1, <2>7
    <3> HIDE DEF r
    <3> QED
      BY <2>3, <2>5, <2>6, <3>2, <3>3, StateNoteAdded
  <2>8. CASE ~line.inline
    <3> DEFINE r == [reader EXCEPT !.note = note]
    <3>1. /\ StateType(r) /\ r.states = reader.states /\ r.transitions = reader.transitions
          /\ r.declared = reader.declared /\ r.composites = reader.composites
          /\ r.notes = reader.notes /\ r.note = note
      BY <2>5 DEF StateInv, StateType
    <3>2. State!Reads(r)
      BY <2>1, <2>8
    <3> HIDE DEF r
    <3>3. StateNotesFit(r)
      BY <2>3, <2>5, <2>6, <3>1 DEF StateInv, StateNotesFit
    <3> QED
      BY <3>1, <3>2, <3>3, StateChanged
  <2> QED
    BY <2>7, <2>8
<1> QED
  BY <1>1, <1>2

LEMMA StateNoteLine ==
  ASSUME StateInv(reader), NEW line \in State!Lines, State!ReadNoteLine(line), reader.note # State!NoNote
  PROVE  StateInv(reader')
<1>1. CASE line.is # "endnote"
  BY <1>1, StateReads DEF State!ReadNoteLine
<1>2. CASE line.is = "endnote"
  <2> DEFINE r == [reader EXCEPT !.note = State!NoNote, !.notes = Append(@, reader.note)]
  <2>1. State!Reads(r)
    BY <1>2 DEF State!ReadNoteLine, StateInv, StateType
  <2>2. reader.notes \in Seq(AStateNote) /\ reader.note \in AStateNote /\ State!NoNote \in AStateNote
    BY DEF StateInv, StateType, State!NoNote, AStateNote
  <2>3. Append(reader.notes, reader.note) \in Seq(AStateNote)
    BY <2>2
  <2>4. /\ StateType(r) /\ r.states = reader.states /\ r.transitions = reader.transitions
        /\ r.declared = reader.declared /\ r.composites = reader.composites
        /\ r.notes = Append(reader.notes, reader.note) /\ r.note = State!NoNote
    BY <2>2, <2>3 DEF StateInv, StateType
  <2>5. /\ reader.note.state \in 1..Len(reader.states)
        /\ \A n \in 1..Len(reader.notes) : reader.notes[n] # reader.note
    BY DEF StateInv, StateNotesFit
  <2> HIDE DEF r
  <2> QED
    BY <2>1, <2>2, <2>4, <2>5, StateNoteAdded
<1> QED
  BY <1>1, <1>2

LEMMA StateSkips ==
  ASSUME StateInv(reader), NEW block \in Blocks, State!Reads([reader EXCEPT !.skipped = block])
  PROVE  StateInv(reader')
<1> DEFINE r == [reader EXCEPT !.skipped = block]
<1>1. /\ StateType(r) /\ r.states = reader.states /\ r.transitions = reader.transitions
      /\ r.declared = reader.declared /\ r.composites = reader.composites
      /\ r.notes = reader.notes /\ r.note = reader.note
  BY DEF StateInv, StateType
<1>2. StateNotesFit(r)
  BY <1>1 DEF StateInv, StateNotesFit
<1> HIDE DEF r
<1> QED
  BY <1>1, <1>2, StateChanged DEF r

LEMMA StateDescription ==
  ASSUME StateInv(reader), NEW line \in State!Lines, State!ReadDescription(line)
  PROVE  StateInv(reader')
<1>1. /\ line.id \in Names \cup {State!Pseudo} /\ "normal" \in {"normal", "initial", "final"}
      /\ line.id # State!Pseudo
  BY NamesAssumption DEF State!ReadDescription, State!Lines, State!BlockLines
<1>2. TokenFits(reader, line.id, "normal")
  BY <1>1, StateResolved
<1> QED
  BY <1>2, StateReads DEF State!ReadDescription, TokenFits

LEMMA StateLine ==
  ASSUME StateInv(reader), NEW line \in State!Lines, State!ReadLine(line)
  PROVE  StateInv(reader')
<1>1. CASE State!Reads([reader EXCEPT !.skipped = State!Continued(@, line)])
  <2>1. State!Continued(reader.skipped, line) \in Blocks
    BY SkippedAre DEF StateInv, StateType, State!Continued, Skipped!Continued, State!NoBlock,
       Skipped!NoBlock, State!BraceBalance, Skipped!BraceBalance
  <2>2. State!Reads([reader EXCEPT !.skipped = State!Continued(reader.skipped, line)])
    BY <1>1 DEF StateInv, StateType
  <2> QED
    BY <2>1, <2>2, StateSkips
<1>2. CASE State!StartBlock(line)
  <2>1. line.name \in BlockNames
    BY <1>2 DEF State!StartBlock, State!Lines, State!BlockLines, BlockNames
  <2>2. State!Started(line) \in Blocks
    BY <2>1, SkippedAre DEF State!Started, Skipped!Started, State!NoBlock, Skipped!NoBlock
  <2> QED
    BY <1>2, <2>2, StateSkips DEF State!StartBlock
<1>3. CASE State!ReadClose(line)
  BY <1>3, StateClose
<1>4. CASE State!ReadDeclaration(line)
  BY <1>4, StateDeclaration
<1>5. CASE State!ReadTransition(line)
  BY <1>5, StateTransition
<1>6. CASE reader.note = State!NoNote /\ State!ReadNote(line)
  BY <1>6, StateNote
<1>7. CASE reader.note # State!NoNote /\ State!ReadNoteLine(line)
  BY <1>7, StateNoteLine
<1>8. CASE State!ReadDescription(line)
  BY <1>8, StateDescription
<1>9. CASE State!ReadIgnored(line) \/ State!ReadUnsupported(line)
  BY <1>9, StateReads, StateEmpty DEF State!ReadIgnored, State!ReadUnsupported, State!Fails
<1> QED
  BY <1>1, <1>2, <1>3, <1>4, <1>5, <1>6, <1>7, <1>8, <1>9 DEF State!ReadLine, State!ReadStatement

LEMMA StateFinish ==
  ASSUME StateInv(reader), State!Finish
  PROVE  StateInv(reader')
<1>1. CASE reader' = State!Failed
  BY <1>1, StateEmpty
<1>2. CASE reader' # State!Failed
  <2> DEFINE r == reader'
  <2>1. r = [reader EXCEPT !.outcome = "parsed"]
    BY <1>2 DEF State!Finish
  <2>2. /\ StateType(r) /\ r.states = reader.states /\ r.transitions = reader.transitions
        /\ r.declared = reader.declared /\ r.composites = reader.composites
        /\ r.notes = reader.notes /\ r.note = reader.note
    BY <2>1 DEF StateInv, StateType, Outcomes
  <2> HIDE DEF r
  <2>3. StatesDiffer(r)
    BY <2>2 DEF StateInv, StatesDiffer
  <2>4. StatesNest(r)
    BY <2>2 DEF StateInv, StatesNest
  <2> QED
    BY <2>2, <2>3, <2>4, StateGrown DEF r
<1> QED
  BY <1>1, <1>2

LEMMA StateWellFormed ==
  ASSUME StateInv(reader)
  PROVE  State!WellFormed(reader)
BY DEF StateInv, StatesDiffer, StatesNest, TransitionsFit, StateNotesFit, State!WellFormed

-----------------------------------------------------------------------------
(* The reader of activities: the elements of the open frames and of the elements made so far *)
(* are one tree, from the frame on top, which becomes the last element, down to the root.    *)

Numbers  == Seq(Nat)
Branches == Seq(Numbers)

AnElement == [is : Activity!Nested \cup {"action", "start", "stop", "detach"}, label : BOOLEAN,
              note : BOOLEAN, blocks : Branches, else : BOOLEAN]
AFrame    == [kind : Activity!Nested \cup {"root"}, label : BOOLEAN, block : Numbers,
              done : Branches, else : BOOLEAN]

ActivityType(r) ==
  r \in [frames : Seq(AFrame), elements : Seq(AnElement), count : Nat, pending : BOOLEAN,
         previous : {"other", "action", "note"}, action : BOOLEAN, note : BOOLEAN, skipped : Blocks,
         outcome : Outcomes]

FramesFit(r) ==
  /\ r.frames # <<>>
  /\ \A f \in 1..Len(r.frames) :
       /\ r.frames[f].kind = "root" <=> f = 1
       /\ r.frames[f].done # <<>> => r.frames[f].kind \in {"if", "fork"}
       /\ r.frames[f].else => r.frames[f].kind = "if" /\ r.frames[f].done # <<>>

ElementFits(element) ==
  /\ element.note => element.is = "action"
  /\ (element.blocks # <<>>) <=> (element.is \in Activity!Nested)
  /\ Len(element.blocks) > 1 => element.is \in {"if", "fork"}
  /\ element.else => element.is = "if" /\ Len(element.blocks) > 1

ElementsFit(r) == \A k \in 1..Len(r.elements) : ElementFits(r.elements[k])

(* The blocks of an element, and under 0 and the numbers below it those of the open frames. *)
Holders(r) == (1 - Len(r.frames))..Len(r.elements)
Held(r, h) == IF h > 0 THEN r.elements[h].blocks ELSE Append(r.frames[1 - h].done, r.frames[1 - h].block)

InBlocks(blocks, b, i, e) == b \in 1..Len(blocks) /\ i \in 1..Len(blocks[b]) /\ blocks[b][i] = e
Stands(r, h, b, i, e)     == h \in Holders(r) /\ InBlocks(Held(r, h), b, i, e)

TreeFits(r) ==
  /\ \A e \in 1..Len(r.elements) : \E h, b, i : Stands(r, h, b, i, e)
  /\ \A e, h, b, i, g, c, j : Stands(r, h, b, i, e) /\ Stands(r, g, c, j, e) => h = g /\ b = c /\ i = j
  /\ \A e, h, b, i : Stands(r, h, b, i, e) => e \in 1..Len(r.elements) /\ (h > 0 => e < h)

ActivityShape(r) ==
  /\ ActivityType(r) /\ FramesFit(r) /\ ElementsFit(r) /\ TreeFits(r)
  /\ r.count = Len(r.elements) + (Len(r.frames) - 1)

LastIsAction(r) ==
  /\ Activity!Top(r).block # <<>>
  /\ r.elements[Activity!LastOf(Activity!Top(r).block)].is = "action"

ActivityInv(r) ==
  /\ ActivityShape(r)
  /\ r.note \/ r.previous = "action" => LastIsAction(r)

(* The tree as elements are added and frames come and go. *)
LEMMA TreeKept ==
  ASSUME NEW r, TreeFits(r), NEW s, Len(s.elements) = Len(r.elements),
         \A h, b, i, e : Stands(s, h, b, i, e) <=> Stands(r, h, b, i, e)
  PROVE  TreeFits(s)
BY DEF TreeFits

(* Where an element stood another may have come to hold it, and one is new. *)
AlsoStands(r, s, moved, h0, b0, i0, new) ==
  \A h, b, i, e : Stands(s, h, b, i, e) <=>
    \/ \E g : Stands(r, g, b, i, e) /\ h = moved[g]
    \/ h = h0 /\ b = b0 /\ i = i0 /\ e = new

LEMMA TreeGrown ==
  ASSUME NEW r, TreeFits(r), Len(r.elements) \in Nat, NEW s, Len(s.elements) = Len(r.elements) + 1,
         NEW moved, NEW h0 \in Int, h0 <= 0, NEW b0, NEW i0,
         AlsoStands(r, s, moved, h0, b0, i0, Len(r.elements) + 1),
         \A g \in Holders(r) : moved[g] = g \/ moved[g] = Len(r.elements) + 1
  PROVE  TreeFits(s)
<1> DEFINE n == Len(r.elements)
<1>0. \A h, b, i, e : Stands(s, h, b, i, e) <=>
        \/ \E g : Stands(r, g, b, i, e) /\ h = moved[g]
        \/ h = h0 /\ b = b0 /\ i = i0 /\ e = n + 1
  BY DEF AlsoStands
<1>1. ASSUME NEW e \in 1..n + 1 PROVE \E h, b, i : Stands(s, h, b, i, e)
  <2>1. CASE e = n + 1
    BY <1>0, <2>1
  <2>2. CASE e \in 1..n
    <3>1. PICK g, b, i : Stands(r, g, b, i, e)
      BY <2>2 DEF TreeFits
    <3>2. Stands(s, moved[g], b, i, e)
      BY <1>0, <3>1
    <3> QED
      BY <3>2
  <2> QED
    BY <2>1, <2>2
<1>2. ASSUME NEW e, NEW h, NEW b, NEW i, NEW g, NEW c, NEW j, Stands(s, h, b, i, e), Stands(s, g, c, j, e)
      PROVE  h = g /\ b = c /\ i = j
  <2>1. \A k, x, y : ~Stands(r, k, x, y, n + 1)
    BY DEF TreeFits
  <2>2. CASE e = n + 1
    BY <1>0, <1>2, <2>1, <2>2
  <2>3. CASE e # n + 1
    <3>1. PICK k : Stands(r, k, b, i, e) /\ h = moved[k]
      BY <1>0, <1>2, <2>3
    <3>2. PICK l : Stands(r, l, c, j, e) /\ g = moved[l]
      BY <1>0, <1>2, <2>3
    <3>3. k = l /\ b = c /\ i = j
      BY <3>1, <3>2 DEF TreeFits
    <3> QED
      BY <3>1, <3>2, <3>3
  <2> QED
    BY <2>2, <2>3
<1>3. ASSUME NEW e, NEW h, NEW b, NEW i, Stands(s, h, b, i, e)
      PROVE  e \in 1..n + 1 /\ (h > 0 => e < h)
  <2>1. CASE h = h0 /\ e = n + 1
    BY <2>1
  <2>2. CASE \E g : Stands(r, g, b, i, e) /\ h = moved[g]
    <3>1. PICK g : Stands(r, g, b, i, e) /\ h = moved[g]
      BY <2>2
    <3>2. e \in 1..n /\ (g > 0 => e < g) /\ g \in Holders(r)
      BY <3>1 DEF TreeFits, Stands
    <3> QED
      BY <3>1, <3>2
  <2> QED
    BY <1>0, <1>3, <2>1, <2>2
<1> QED
  BY <1>1, <1>2, <1>3 DEF TreeFits

(* A number more at the end of the last block, and a block more. *)
LEMMA Pushed ==
  ASSUME NEW done \in Branches, NEW block \in Numbers, NEW x \in Nat, NEW b, NEW i, NEW e
  PROVE  InBlocks(Append(done, Append(block, x)), b, i, e) <=>
           \/ InBlocks(Append(done, block), b, i, e)
           \/ b = Len(done) + 1 /\ i = Len(block) + 1 /\ e = x
<1> DEFINE m   == Len(done) + 1
           k   == Len(block) + 1
           more == Append(block, x)
<1>1. /\ more \in Numbers /\ Len(block) \in Nat /\ Len(more) = k /\ more[k] = x
      /\ \A j \in 1..Len(block) : more[j] = block[j]
      /\ \A j \in 1..k : j \in 1..Len(block) \/ j = k
  BY AppendIs DEF Numbers
<1>2. 1..Len(block) \subseteq 1..k /\ k \in 1..k
  BY <1>1
<1> HIDE DEF more
<1>3. ASSUME NEW last \in Numbers
      PROVE  /\ Len(done) \in Nat /\ Len(Append(done, last)) = m /\ Append(done, last)[m] = last
             /\ \A c \in 1..Len(done) : Append(done, last)[c] = done[c]
             /\ \A c \in 1..m : c \in 1..Len(done) \/ c = m
  BY AppendIs DEF Branches
<1>4. CASE b \in 1..Len(done)
  <2>1. b # m /\ b \in 1..m
    BY <1>1, <1>3, <1>4
  <2> QED
    BY <1>1, <1>3, <1>4, <2>1 DEF InBlocks
<1>5. CASE b = m
  <2>1. b \in 1..m
    BY <1>1, <1>3, <1>5
  <2>2. InBlocks(Append(done, more), b, i, e) <=> i \in 1..k /\ more[i] = e
    BY <1>1, <1>3, <1>5, <2>1 DEF InBlocks
  <2>3. InBlocks(Append(done, block), b, i, e) <=> i \in 1..Len(block) /\ block[i] = e
    BY <1>3, <1>5, <2>1 DEF InBlocks
  <2> QED
    BY <1>1, <1>2, <1>5, <2>2, <2>3 DEF more
<1>6. CASE b \notin 1..m
  BY <1>1, <1>3, <1>6 DEF InBlocks, more
<1> QED
  BY <1>1, <1>3, <1>4, <1>5, <1>6

LEMMA Branched ==
  ASSUME NEW blocks \in Branches, NEW b, NEW i, NEW e
  PROVE  InBlocks(Append(blocks, <<>>), b, i, e) <=> InBlocks(blocks, b, i, e)
<1>1. <<>> \in Numbers
  BY DEF Numbers
<1>2. /\ Len(blocks) \in Nat /\ Len(Append(blocks, <<>>)) = Len(blocks) + 1
      /\ Append(blocks, <<>>)[Len(blocks) + 1] = <<>>
      /\ \A c \in 1..Len(blocks) : Append(blocks, <<>>)[c] = blocks[c]
      /\ \A c \in 1..Len(blocks) + 1 : c \in 1..Len(blocks) \/ c = Len(blocks) + 1
  BY <1>1, AppendIs DEF Branches
<1>3. 1..Len(blocks) \subseteq 1..Len(blocks) + 1
  BY <1>2
<1> QED
  BY <1>2, <1>3 DEF InBlocks

LEMMA OneIs ==
  ASSUME NEW S, NEW e \in S
  PROVE  <<e>> \in Seq(S) /\ Len(<<e>>) = 1 /\ <<e>>[1] = e /\ <<e>> # <<>>
OBVIOUS

(* An empty diagram is the root, without a block or an element. *)
LEMMA ActivityRoot ==
  ASSUME NEW r, ActivityType(r), r.frames = <<Activity!Frame("root", FALSE)>>, r.elements = <<>>,
         r.count = 0, ~r.note, r.previous = "other"
  PROVE  ActivityInv(r)
<1> DEFINE root == Activity!Frame("root", FALSE)
<1>1. root.kind = "root" /\ root.block = <<>> /\ root.done = <<>> /\ ~root.else
  BY DEF Activity!Frame
<1> HIDE DEF root
<1>2. r.frames = <<root>>
  BY DEF root
<1>3. Len(r.frames) = 1 /\ r.frames[1] = root /\ r.frames # <<>>
  <2>1. root \in {root}
    OBVIOUS
  <2> QED
    BY <1>2, <2>1, OneIs
<1>4. FramesFit(r)
  <2>1. \A f \in 1..Len(r.frames) : f = 1
    BY <1>3
  <2> QED
    BY <1>1, <1>3, <2>1 DEF FramesFit
<1>5. Len(r.elements) = 0
  OBVIOUS
<1>6. ElementsFit(r)
  BY <1>5 DEF ElementsFit
<1>7. ASSUME NEW h, NEW b, NEW i, NEW e PROVE ~Stands(r, h, b, i, e)
  <2>1. h \in Holders(r) => h = 0
    BY <1>3, <1>5 DEF Holders
  <2>2. Held(r, 0) = Append(root.done, root.block)
    <3>1. ~(0 > 0) /\ 1 - 0 = 1
      OBVIOUS
    <3> QED
      BY <1>3, <3>1 DEF Held
  <2>3. Held(r, 0) = <<<<>>>>
    BY <1>1, <2>2
  <2>4. ~InBlocks(<<<<>>>>, b, i, e)
    BY DEF InBlocks
  <2> QED
    BY <2>1, <2>3, <2>4 DEF Stands
<1>8. TreeFits(r)
  BY <1>5, <1>7 DEF TreeFits
<1> QED
  BY <1>3, <1>4, <1>5, <1>6, <1>8 DEF ActivityInv, ActivityShape

LEMMA ActivityEmpty == ActivityInv(Activity!Empty) /\ ActivityInv(Activity!Failed)
<1> DEFINE frames == <<Activity!Frame("root", FALSE)>>
<1>1. frames \in Seq(AFrame)
  <2>1. Activity!Frame("root", FALSE) \in AFrame
    BY DEF Activity!Frame, AFrame, Numbers, Branches
  <2> QED
    BY <2>1, OneIs
<1>2. Activity!NoBlock \in Blocks
  BY SkippedAre DEF Activity!NoBlock, Skipped!NoBlock
<1>3. Activity!Empty =
        [frames |-> frames, elements |-> <<>>, count |-> 0, pending |-> FALSE, previous |-> "other",
         action |-> FALSE, note |-> FALSE, skipped |-> Activity!NoBlock, outcome |-> "reading"]
  BY DEF Activity!Empty
<1> HIDE DEF frames
<1>4. /\ ActivityType(Activity!Empty) /\ Activity!Empty.frames = frames /\ Activity!Empty.elements = <<>>
      /\ Activity!Empty.count = 0 /\ ~Activity!Empty.note /\ Activity!Empty.previous = "other"
  BY <1>1, <1>2, <1>3 DEF ActivityType, Outcomes
<1>5. /\ ActivityType(Activity!Failed) /\ Activity!Failed.frames = frames /\ Activity!Failed.elements = <<>>
      /\ Activity!Failed.count = 0 /\ ~Activity!Failed.note /\ Activity!Failed.previous = "other"
  BY <1>4 DEF ActivityType, Activity!Failed, Outcomes
<1> QED
  BY <1>4, <1>5, ActivityRoot DEF frames

LEMMA ActivityReads ==
  ASSUME NEW r, ActivityInv(r), Activity!Reads(r)
  PROVE  ActivityInv(reader')
BY ActivityEmpty DEF Activity!Reads

(* What the shape and a note look at is left alone. *)
LEMMA ActivityKept ==
  ASSUME NEW r, ActivityShape(r), NEW s, ActivityType(s),
         s.frames = r.frames, s.elements = r.elements, s.count = r.count
  PROVE  ActivityShape(s) /\ (LastIsAction(r) => LastIsAction(s))
<1>1. FramesFit(s) /\ ElementsFit(s) /\ s.count = Len(s.elements) + (Len(s.frames) - 1)
  BY DEF ActivityShape, FramesFit, ElementsFit
<1>2. \A h, b, i, e : Stands(s, h, b, i, e) <=> Stands(r, h, b, i, e)
  BY DEF Stands, Holders, Held
<1>3. TreeFits(s)
  BY <1>2, TreeKept DEF ActivityShape
<1>4. LastIsAction(r) => LastIsAction(s)
  BY DEF LastIsAction, Activity!Top, Activity!Depth
<1> QED
  BY <1>1, <1>3, <1>4 DEF ActivityShape

LEMMA TopIs ==
  ASSUME NEW r, ActivityShape(r)
  PROVE  /\ Activity!Depth(r) = Len(r.frames) /\ Activity!Top(r) = r.frames[Len(r.frames)]
         /\ Len(r.frames) \in Nat \ {0} /\ Len(r.frames) \in 1..Len(r.frames)
         /\ Activity!Top(r) \in AFrame /\ Len(r.elements) \in Nat
         /\ Activity!Top(r).block \in Numbers /\ Activity!Top(r).done \in Branches
         /\ Activity!Top(r).kind \in Activity!Nested \cup {"root"}
         /\ Activity!Top(r).label \in BOOLEAN /\ Activity!Top(r).else \in BOOLEAN
<1>1. r.frames \in Seq(AFrame) /\ r.frames # <<>> /\ Len(r.elements) \in Nat
  BY DEF ActivityShape, ActivityType, FramesFit
<1>2. Len(r.frames) \in Nat \ {0} /\ r.frames[Len(r.frames)] \in AFrame
  BY <1>1, ButLastIs
<1> QED
  BY <1>1, <1>2 DEF Activity!Depth, Activity!Top, AFrame

(* An element more without blocks, at the end of the open block. *)
LEMMA ActivityAppended ==
  ASSUME NEW r, ActivityShape(r), NEW is \in {"action", "start", "stop", "detach"}
  PROVE  LET s == Activity!Appended(r, is) IN
           /\ ActivityShape(s)
           /\ Activity!Top(s).block # <<>> /\ s.elements[Activity!LastOf(Activity!Top(s).block)].is = is
           /\ s.note = r.note /\ s.previous = r.previous
<1> DEFINE d     == Len(r.frames)
           n     == Len(r.elements)
           top   == Activity!Top(r)
           new   == Activity!Element(is, r.pending, <<>>, FALSE)
           frame == [top EXCEPT !.block = Append(@, n + 1)]
           fs    == [r.frames EXCEPT ![d] = frame]
           es    == Append(r.elements, new)
           s     == Activity!Appended(r, is)
<1>1. /\ Activity!Depth(r) = d /\ top = r.frames[d] /\ d \in Nat \ {0} /\ d \in 1..d /\ top \in AFrame /\ n \in Nat
      /\ top.block \in Numbers /\ top.done \in Branches
  BY TopIs
<1>2. r \in [frames : Seq(AFrame), elements : Seq(AnElement), count : Nat, pending : BOOLEAN,
             previous : {"other", "action", "note"}, action : BOOLEAN, note : BOOLEAN, skipped : Blocks,
             outcome : Outcomes]
  BY DEF ActivityShape, ActivityType
<1>3. s = [r EXCEPT !.elements = es, !.frames = fs, !.pending = FALSE, !.count = r.count + 1]
  BY <1>1, <1>2 DEF Activity!Appended, Activity!Numbered
<1>4. new \in AnElement /\ new.is = is /\ new.blocks = <<>> /\ ~new.note /\ ~new.else
  BY <1>2 DEF Activity!Element, AnElement, Numbers, Branches
<1> HIDE DEF new
<1>5. /\ frame \in AFrame /\ frame.block = Append(top.block, n + 1) /\ frame.done = top.done
      /\ frame.kind = top.kind /\ frame.else = top.else
  <2> HIDE DEF top, n
  <2>1. Append(top.block, n + 1) \in Numbers
    BY <1>1, AppendIs DEF Numbers
  <2> QED
    BY <1>1, <2>1 DEF AFrame
<1>6. /\ es \in Seq(AnElement) /\ Len(es) = n + 1 /\ es[n + 1] = new
      /\ \A k \in 1..n : es[k] = r.elements[k]
      /\ \A k \in 1..n + 1 : k \in 1..n \/ k = n + 1
  BY <1>2, <1>4, AppendIs
<1> HIDE DEF frame
<1>7. /\ fs \in Seq(AFrame) /\ Len(fs) = d /\ fs[d] = frame
      /\ \A f \in 1..d : f # d => fs[f] = r.frames[f]
  BY <1>1, <1>2, <1>5, ReplacedIs
<1> HIDE DEF es, fs
<1>8. /\ ActivityType(s) /\ s.elements = es /\ s.frames = fs /\ s.count = r.count + 1
      /\ s.note = r.note /\ s.previous = r.previous
  <2> HIDE DEF s
  <2>1. r.count + 1 \in Nat
    BY <1>2
  <2> QED
    BY <1>2, <1>3, <1>6, <1>7, <2>1 DEF ActivityType
<1> HIDE DEF s
<1>9. FramesFit(s)
  <2>1. s.frames # <<>>
    BY <1>1, <1>7, <1>8
  <2>2. ASSUME NEW f \in 1..d
        PROVE  fs[f].kind = r.frames[f].kind /\ fs[f].done = r.frames[f].done /\ fs[f].else = r.frames[f].else
    BY <1>1, <1>5, <1>7
  <2> QED
    BY <1>7, <1>8, <2>1, <2>2 DEF FramesFit, ActivityShape
<1>10. ElementsFit(s)
  <2>1. ElementFits(new)
    <3>1. is \notin Activity!Nested
      BY DEF Activity!Nested
    <3> QED
      BY <1>4, <3>1 DEF ElementFits
  <2> QED
    BY <1>6, <1>8, <2>1 DEF ElementsFit, ActivityShape
<1>11. s.count = Len(s.elements) + (Len(s.frames) - 1)
  <2>1. r.count = n + (d - 1) /\ n \in Nat /\ d \in Nat
    BY <1>1 DEF ActivityShape
  <2>2. Len(s.elements) = n + 1 /\ Len(s.frames) = d /\ s.count = r.count + 1
    BY <1>6, <1>7, <1>8
  <2> HIDE DEF n, d
  <2> QED
    BY <2>1, <2>2
<1>12. TreeFits(s)
  <2> DEFINE moved == [g \in Holders(r) |-> g]
             b0    == Len(top.done) + 1
             i0    == Len(top.block) + 1
  <2>1. ASSUME NEW h, NEW b, NEW i, NEW e
        PROVE  Stands(s, h, b, i, e) <=>
                 Stands(r, h, b, i, e) \/ (h = 1 - d /\ b = b0 /\ i = i0 /\ e = n + 1)
    <3>1. /\ h \in Holders(r) <=> h \in (1 - d)..n
          /\ h \in Holders(s) <=> h \in (1 - d)..n \/ h = n + 1
          /\ 1 - d # n + 1
      BY <1>1, <1>6, <1>7, <1>8 DEF Holders
    <3>2. CASE h = 1 - d
      <4>1. /\ h \in (1 - d)..n /\ ~(h > 0) /\ 1 - h = d
        BY <1>1, <3>2
      <4>2. Held(r, h) = Append(top.done, top.block)
        BY <1>1, <4>1 DEF Held
      <4>3. Held(s, h) = Append(top.done, Append(top.block, n + 1))
        BY <1>5, <1>7, <1>8, <4>1 DEF Held
      <4>4. InBlocks(Append(top.done, Append(top.block, n + 1)), b, i, e) <=>
              InBlocks(Append(top.done, top.block), b, i, e) \/ (b = b0 /\ i = i0 /\ e = n + 1)
        <5>1. n + 1 \in Nat /\ top.done \in Branches /\ top.block \in Numbers
          BY <1>1
        <5> HIDE DEF n, top
        <5> QED
          BY <5>1, Pushed
      <4>5. InBlocks(Held(s, h), b, i, e) <=> InBlocks(Held(r, h), b, i, e) \/ (b = b0 /\ i = i0 /\ e = n + 1)
        BY <4>2, <4>3, <4>4
      <4> QED
        BY <3>1, <3>2, <4>1, <4>5 DEF Stands
    <3>3. CASE h \in (1 - d)..n /\ h # 1 - d
      <4>1. Held(s, h) = Held(r, h)
        <5>1. CASE h > 0
          BY <1>6, <1>8, <3>3, <5>1 DEF Held
        <5>2. CASE ~(h > 0)
          <6>1. 1 - h \in 1..d /\ 1 - h # d
            BY <1>1, <3>3, <5>2
          <6> QED
            BY <1>7, <1>8, <5>2, <6>1 DEF Held
        <5> QED
          BY <5>1, <5>2
      <4> QED
        BY <3>1, <3>3, <4>1 DEF Stands
    <3>4. CASE h = n + 1
      <4>1. h > 0 /\ h \notin (1 - d)..n /\ h # 1 - d
        BY <1>1, <3>4
      <4>2. Held(s, h) = <<>>
        BY <1>4, <1>6, <1>8, <3>4, <4>1 DEF Held
      <4> QED
        BY <3>1, <4>1, <4>2 DEF Stands, InBlocks
    <3> QED
      BY <3>1, <3>2, <3>3, <3>4 DEF Stands
  <2>2. AlsoStands(r, s, moved, 1 - d, b0, i0, n + 1)
    BY <2>1 DEF AlsoStands, Stands
  <2>3. 1 - d \in Int /\ 1 - d <= 0 /\ \A g \in Holders(r) : moved[g] = g
    BY <1>1
  <2>4. Len(s.elements) = n + 1 /\ TreeFits(r)
    BY <1>6, <1>8 DEF ActivityShape
  <2> HIDE DEF moved, b0, i0
  <2> QED
    BY <1>1, <2>2, <2>3, <2>4, TreeGrown
<1>13. ActivityShape(s)
  BY <1>8, <1>9, <1>10, <1>11, <1>12 DEF ActivityShape
<1>14. Activity!Top(s).block # <<>> /\ s.elements[Activity!LastOf(Activity!Top(s).block)].is = is
  <2>1. Activity!Top(s) = frame
    BY <1>7, <1>8 DEF Activity!Top, Activity!Depth
  <2>2. /\ Append(top.block, n + 1) # <<>>
        /\ Append(top.block, n + 1)[Len(Append(top.block, n + 1))] = n + 1
    <3>1. top.block \in Seq(Nat) /\ n + 1 \in Nat
      BY <1>1 DEF Numbers
    <3> HIDE DEF top, n
    <3> QED
      BY <3>1, AppendIs
  <2> QED
    BY <1>4, <1>5, <1>6, <1>8, <2>1, <2>2 DEF Activity!LastOf
<1> QED
  BY <1>8, <1>13, <1>14 DEF s

(* A frame more, and a branch more of the frame on top: neither has an element yet. *)
LEMMA ActivityOpened ==
  ASSUME NEW r, ActivityShape(r), NEW kind_ \in Activity!Nested
  PROVE  LET s == Activity!Opened(r, kind_) IN
           ActivityShape(s) /\ s.note = r.note /\ s.previous = r.previous
<1> DEFINE d   == Len(r.frames)
           n   == Len(r.elements)
           new == Activity!Frame(kind_, r.pending)
           fs  == Append(r.frames, new)
           s   == Activity!Opened(r, kind_)
<1>1. d \in Nat \ {0} /\ n \in Nat
  BY TopIs
<1>2. r \in [frames : Seq(AFrame), elements : Seq(AnElement), count : Nat, pending : BOOLEAN,
             previous : {"other", "action", "note"}, action : BOOLEAN, note : BOOLEAN, skipped : Blocks,
             outcome : Outcomes]
  BY DEF ActivityShape, ActivityType
<1>3. new \in AFrame /\ new.kind = kind_ /\ new.block = <<>> /\ new.done = <<>> /\ ~new.else
  BY <1>2 DEF Activity!Frame, AFrame, Numbers, Branches
<1>4. s = [r EXCEPT !.frames = fs, !.pending = FALSE, !.count = r.count + 1]
  BY <1>2 DEF Activity!Opened
<1> HIDE DEF new
<1>5. /\ fs \in Seq(AFrame) /\ Len(fs) = d + 1 /\ fs[d + 1] = new
      /\ \A f \in 1..d : fs[f] = r.frames[f]
      /\ \A f \in 1..d + 1 : f \in 1..d \/ f = d + 1
  BY <1>2, <1>3, AppendIs
<1> HIDE DEF fs
<1>6. /\ ActivityType(s) /\ s.elements = r.elements /\ s.frames = fs /\ s.count = r.count + 1
      /\ s.note = r.note /\ s.previous = r.previous
  <2> HIDE DEF s
  <2>1. r.count + 1 \in Nat
    BY <1>2
  <2> QED
    BY <1>2, <1>4, <1>5, <2>1 DEF ActivityType
<1> HIDE DEF s
<1>7. FramesFit(s)
  <2>1. s.frames # <<>> /\ d + 1 # 1
    BY <1>1, <1>5, <1>6
  <2>2. kind_ # "root"
    BY DEF Activity!Nested
  <2> QED
    BY <1>3, <1>5, <1>6, <2>1, <2>2 DEF FramesFit, ActivityShape
<1>8. ElementsFit(s)
  BY <1>6 DEF ElementsFit, ActivityShape
<1>9. s.count = Len(s.elements) + (Len(s.frames) - 1)
  <2>1. r.count = n + (d - 1) /\ n \in Nat /\ d \in Nat
    BY <1>1 DEF ActivityShape
  <2>2. Len(s.elements) = n /\ Len(s.frames) = d + 1 /\ s.count = r.count + 1
    BY <1>5, <1>6
  <2> HIDE DEF n, d
  <2> QED
    BY <2>1, <2>2
<1>10. ASSUME NEW h, NEW b, NEW i, NEW e
       PROVE  Stands(s, h, b, i, e) <=> Stands(r, h, b, i, e)
  <2>1. /\ h \in Holders(r) <=> h \in (1 - d)..n
        /\ h \in Holders(s) <=> h \in (1 - d)..n \/ h = -d
        /\ -d \notin (1 - d)..n
    BY <1>1, <1>5, <1>6 DEF Holders
  <2>2. CASE h = -d
    <3>1. ~(h > 0) /\ 1 - h = d + 1
      BY <1>1, <2>2
    <3>2. Held(s, h) = Append(new.done, new.block)
      BY <1>5, <1>6, <3>1 DEF Held
    <3>3. Held(s, h) = <<<<>>>>
      BY <1>3, <3>2
    <3> QED
      BY <2>1, <2>2, <3>3 DEF Stands, InBlocks
  <2>3. CASE h \in (1 - d)..n
    <3>1. h > 0 \/ 1 - h \in 1..d
      BY <1>1, <2>3
    <3>2. Held(s, h) = Held(r, h)
      BY <1>5, <1>6, <3>1 DEF Held
    <3> QED
      BY <2>1, <2>3, <3>2 DEF Stands
  <2> QED
    BY <2>1, <2>2, <2>3 DEF Stands
<1>11. TreeFits(s)
  BY <1>6, <1>10, TreeKept DEF ActivityShape
<1>12. ActivityShape(s)
  BY <1>6, <1>7, <1>8, <1>9, <1>11 DEF ActivityShape
<1> QED
  BY <1>6, <1>12 DEF s

LEMMA ActivityNextBranch ==
  ASSUME NEW r, ActivityShape(r), NEW else \in BOOLEAN,
         Activity!Top(r).kind \in {"if", "fork"}, else => Activity!Top(r).kind = "if"
  PROVE  LET s == Activity!NextBranch(r, else) IN
           ActivityShape(s) /\ s.note = r.note /\ s.previous = r.previous
<1> DEFINE d     == Len(r.frames)
           n     == Len(r.elements)
           top   == Activity!Top(r)
           done  == Append(top.done, top.block)
           frame == [top EXCEPT !.done = done, !.block = <<>>, !.else = else]
           fs    == [r.frames EXCEPT ![d] = frame]
           s     == Activity!NextBranch(r, else)
<1>1. /\ Activity!Depth(r) = d /\ top = r.frames[d] /\ d \in Nat \ {0} /\ d \in 1..d /\ top \in AFrame /\ n \in Nat
      /\ top.block \in Numbers /\ top.done \in Branches
  BY TopIs
<1>2. r \in [frames : Seq(AFrame), elements : Seq(AnElement), count : Nat, pending : BOOLEAN,
             previous : {"other", "action", "note"}, action : BOOLEAN, note : BOOLEAN, skipped : Blocks,
             outcome : Outcomes]
  BY DEF ActivityShape, ActivityType
<1>3. s = [r EXCEPT !.pending = FALSE, !.frames = fs]
  BY <1>1, <1>2 DEF Activity!NextBranch, Activity!Discarded
<1>4. done \in Branches /\ done # <<>>
  BY <1>1, AppendIs DEF Branches
<1> HIDE DEF done
<1>5. /\ frame \in AFrame /\ frame.block = <<>> /\ frame.done = done
      /\ frame.kind = top.kind /\ frame.else = else
  <2> HIDE DEF top
  <2>1. <<>> \in Numbers
    BY DEF Numbers
  <2> QED
    BY <1>1, <1>4, <2>1 DEF AFrame
<1> HIDE DEF frame
<1>6. /\ fs \in Seq(AFrame) /\ Len(fs) = d /\ fs[d] = frame
      /\ \A f \in 1..d : f # d => fs[f] = r.frames[f]
  BY <1>1, <1>2, <1>5, ReplacedIs
<1> HIDE DEF fs
<1>7. /\ ActivityType(s) /\ s.elements = r.elements /\ s.frames = fs /\ s.count = r.count
      /\ s.note = r.note /\ s.previous = r.previous
  <2> HIDE DEF s
  <2> QED
    BY <1>2, <1>3, <1>6 DEF ActivityType
<1> HIDE DEF s
<1>8. FramesFit(s)
  <2>1. s.frames # <<>> /\ (top.kind = "root" <=> d = 1)
    BY <1>1, <1>6, <1>7 DEF ActivityShape, FramesFit
  <2> QED
    BY <1>1, <1>4, <1>5, <1>6, <1>7, <2>1 DEF FramesFit, ActivityShape
<1>9. ElementsFit(s) /\ s.count = Len(s.elements) + (Len(s.frames) - 1)
  BY <1>6, <1>7 DEF ElementsFit, ActivityShape
<1>10. ASSUME NEW h, NEW b, NEW i, NEW e
       PROVE  Stands(s, h, b, i, e) <=> Stands(r, h, b, i, e)
  <2>1. Holders(s) = Holders(r) /\ (h \in Holders(r) <=> h \in (1 - d)..n)
    BY <1>6, <1>7 DEF Holders
  <2>2. CASE h = 1 - d
    <3>1. ~(h > 0) /\ 1 - h = d
      BY <1>1, <2>2
    <3>2. Held(r, h) = done
      BY <1>1, <3>1 DEF Held, done
    <3>3. Held(s, h) = Append(done, <<>>)
      BY <1>5, <1>6, <1>7, <3>1 DEF Held
    <3> QED
      BY <1>4, <2>1, <3>2, <3>3, Branched DEF Stands
  <2>3. CASE h \in (1 - d)..n /\ h # 1 - d
    <3>1. h > 0 \/ (1 - h \in 1..d /\ 1 - h # d)
      BY <1>1, <2>3
    <3>2. Held(s, h) = Held(r, h)
      BY <1>6, <1>7, <3>1 DEF Held
    <3> QED
      BY <2>1, <2>3, <3>2 DEF Stands
  <2> QED
    BY <2>1, <2>2, <2>3 DEF Stands
<1>11. TreeFits(s)
  BY <1>7, <1>10, TreeKept DEF ActivityShape
<1>12. ActivityShape(s)
  BY <1>7, <1>8, <1>9, <1>11 DEF ActivityShape
<1> QED
  BY <1>7, <1>12 DEF s

LEMMA ActivityClosed ==
  ASSUME NEW r, ActivityShape(r), Activity!Top(r).kind # "root"
  PROVE  LET s == Activity!Closed(r) IN
           ActivityShape(s) /\ s.note = r.note /\ s.previous = r.previous
<1> DEFINE d     == Len(r.frames)
           n     == Len(r.elements)
           top   == Activity!Top(r)
           under == r.frames[d - 1]
           last  == Append(top.done, top.block)
           new   == Activity!Element(top.kind, top.label, last, top.else)
           below == SubSeq(r.frames, 1, d - 1)
           frame == [under EXCEPT !.block = Append(@, n + 1)]
           fs    == [below EXCEPT ![d - 1] = frame]
           es    == Append(r.elements, new)
           s     == Activity!Closed(r)
<1>1. /\ Activity!Depth(r) = d /\ top = r.frames[d] /\ d \in Nat \ {0} /\ d \in 1..d /\ top \in AFrame /\ n \in Nat
      /\ top.block \in Numbers /\ top.done \in Branches
  BY TopIs
<1>2. r \in [frames : Seq(AFrame), elements : Seq(AnElement), count : Nat, pending : BOOLEAN,
             previous : {"other", "action", "note"}, action : BOOLEAN, note : BOOLEAN, skipped : Blocks,
             outcome : Outcomes]
  BY DEF ActivityShape, ActivityType
<1>3. d # 1 /\ d - 1 \in 1..d - 1 /\ d - 1 \in Nat \ {0}
  <2>1. d # 1
    BY <1>1 DEF ActivityShape, FramesFit
  <2>2. d \in Nat \ {0}
    BY <1>1
  <2> HIDE DEF d
  <2> QED
    BY <2>1, <2>2
<1>4. /\ below \in Seq(AFrame) /\ Len(below) = d - 1 /\ below[d - 1] = under /\ under \in AFrame
      /\ \A f \in 1..d - 1 : below[f] = r.frames[f]
  <2>1. r.frames # <<>>
    BY DEF ActivityShape, FramesFit
  <2> QED
    BY <1>2, <1>3, <2>1, ButLastIs
<1>5. /\ last \in Branches /\ last # <<>> /\ (Len(last) > 1 <=> top.done # <<>>)
      /\ under.block \in Numbers /\ under.done \in Branches
  <2>1. last \in Branches /\ Len(last) = Len(top.done) + 1 /\ Len(top.done) \in Nat
    BY <1>1, AppendIs DEF Branches
  <2>2. Len(top.done) > 0 <=> top.done # <<>>
    BY <1>1 DEF Branches
  <2>3. Len(last) > 1 <=> top.done # <<>>
    BY <2>1, <2>2
  <2>4. last # <<>>
    <3>1. Len(last) # 0
      BY <2>1
    <3> HIDE DEF last
    <3> QED
      BY <3>1
  <2> QED
    BY <1>4, <2>1, <2>3, <2>4 DEF AFrame
<1> HIDE DEF last, below, under
<1>6. s = [r EXCEPT !.elements = es, !.frames = fs]
  BY <1>1, <1>2, <1>3, <1>4 DEF Activity!Closed, Activity!Numbered, below, last
<1>7. /\ new \in AnElement /\ new.is = top.kind /\ new.blocks = last /\ ~new.note /\ new.else = top.else
      /\ top.kind \in Activity!Nested
  <2>1. top.kind \in Activity!Nested /\ top.label \in BOOLEAN /\ top.else \in BOOLEAN
    BY TopIs
  <2> QED
    BY <1>5, <2>1 DEF Activity!Element, AnElement
<1> HIDE DEF new
<1>8. /\ frame \in AFrame /\ frame.block = Append(under.block, n + 1) /\ frame.done = under.done
      /\ frame.kind = under.kind /\ frame.else = under.else
  <2> HIDE DEF n
  <2>1. Append(under.block, n + 1) \in Numbers
    BY <1>1, <1>5, AppendIs DEF Numbers
  <2> QED
    BY <1>4, <2>1 DEF AFrame
<1>9. /\ es \in Seq(AnElement) /\ Len(es) = n + 1 /\ es[n + 1] = new
      /\ \A k \in 1..n : es[k] = r.elements[k]
      /\ \A k \in 1..n + 1 : k \in 1..n \/ k = n + 1
  BY <1>2, <1>7, AppendIs
<1> HIDE DEF frame
<1>10. /\ fs \in Seq(AFrame) /\ Len(fs) = d - 1 /\ fs[d - 1] = frame
       /\ \A f \in 1..d - 1 : f # d - 1 => fs[f] = r.frames[f]
  <2>1. d - 1 \in 1..Len(below)
    BY <1>3, <1>4
  <2> QED
    BY <1>4, <1>8, <2>1, ReplacedIs
<1> HIDE DEF es, fs
<1>11. /\ ActivityType(s) /\ s.elements = es /\ s.frames = fs /\ s.count = r.count
       /\ s.note = r.note /\ s.previous = r.previous
  <2> HIDE DEF s
  <2> QED
    BY <1>2, <1>6, <1>9, <1>10 DEF ActivityType
<1> HIDE DEF s
<1>12. FramesFit(s)
  <2>1. s.frames # <<>>
    BY <1>3, <1>10, <1>11
  <2>2. ASSUME NEW f \in 1..d - 1
        PROVE  /\ f \in 1..d
               /\ fs[f].kind = r.frames[f].kind /\ fs[f].done = r.frames[f].done /\ fs[f].else = r.frames[f].else
    <3>1. f \in 1..d
      BY <1>1
    <3> QED
      BY <1>8, <1>10, <3>1 DEF under
  <2>3. ASSUME NEW f \in 1..d
        PROVE  /\ r.frames[f].kind = "root" <=> f = 1
               /\ r.frames[f].done # <<>> => r.frames[f].kind \in {"if", "fork"}
               /\ r.frames[f].else => r.frames[f].kind = "if" /\ r.frames[f].done # <<>>
    BY DEF FramesFit, ActivityShape
  <2>4. Len(s.frames) = d - 1 /\ s.frames = fs
    BY <1>10, <1>11
  <2> QED
    BY <2>1, <2>2, <2>3, <2>4 DEF FramesFit
<1>13. ElementsFit(s)
  <2>1. ElementFits(new)
    <3>1. /\ top.done # <<>> => top.kind \in {"if", "fork"}
          /\ top.else => top.kind = "if" /\ top.done # <<>>
      BY <1>1 DEF ActivityShape, FramesFit
    <3> QED
      BY <1>5, <1>7, <3>1 DEF ElementFits
  <2> QED
    BY <1>9, <1>11, <2>1 DEF ElementsFit, ActivityShape
<1>14. s.count = Len(s.elements) + (Len(s.frames) - 1)
  <2>1. r.count = n + (d - 1) /\ n \in Nat /\ d \in Nat
    BY <1>1 DEF ActivityShape
  <2>2. Len(s.elements) = n + 1 /\ Len(s.frames) = d - 1 /\ s.count = r.count
    BY <1>9, <1>10, <1>11
  <2> HIDE DEF n, d
  <2> QED
    BY <2>1, <2>2
<1>15. TreeFits(s)
  <2> DEFINE moved == [g \in Holders(r) |-> IF g = 1 - d THEN n + 1 ELSE g]
             b0    == Len(under.done) + 1
             i0    == Len(under.block) + 1
  <2>1. /\ Holders(r) = (1 - d)..n /\ Holders(s) = (2 - d)..n + 1
        /\ 1 - d \in Holders(r) /\ 2 - d \in Holders(r) /\ 2 - d # 1 - d /\ 1 - d # n + 1 /\ 2 - d # n + 1
        /\ n + 1 \notin Holders(r) /\ n + 1 \in Holders(s)
    <3>1. Holders(s) = (1 - (d - 1))..n + 1
      BY <1>9, <1>10, <1>11 DEF Holders
    <3>2. 1 - (d - 1) = 2 - d
      BY <1>1
    <3>3. Holders(r) = (1 - d)..n
      BY DEF Holders
    <3> HIDE DEF d, n
    <3>4. /\ 1 - d \in (1 - d)..n /\ 2 - d \in (1 - d)..n /\ 2 - d # 1 - d /\ 1 - d # n + 1 /\ 2 - d # n + 1
          /\ n + 1 \notin (1 - d)..n /\ n + 1 \in (2 - d)..n + 1
      BY <1>1, <1>3
    <3> QED
      BY <3>1, <3>2, <3>3, <3>4
  <2>2. \A h : h \in Holders(s) <=> (h \in Holders(r) /\ h # 1 - d) \/ h = n + 1
    <3>1. d \in Nat \ {0} /\ n \in Nat /\ Holders(r) = (1 - d)..n /\ Holders(s) = (2 - d)..n + 1
      BY <1>1, <2>1
    <3> HIDE DEF d, n
    <3> QED
      BY <3>1
  <2>3. Held(r, 1 - d) = last /\ Held(s, n + 1) = last
    <3>1. ~(1 - d > 0) /\ 1 - (1 - d) = d /\ n + 1 > 0
      <4>1. d \in Nat \ {0} /\ n \in Nat
        BY <1>1
      <4> HIDE DEF d, n
      <4> QED
        BY <4>1
    <3> QED
      BY <1>1, <1>7, <1>9, <1>11, <3>1 DEF Held, last
  <2>4. Held(r, 2 - d) = Append(under.done, under.block) /\ Held(s, 2 - d) = Append(under.done, Append(under.block, n + 1))
    <3>1. ~(2 - d > 0) /\ 1 - (2 - d) = d - 1
      BY <1>1, <1>3
    <3> QED
      BY <1>8, <1>10, <1>11, <3>1 DEF Held, under
  <2>5. ASSUME NEW h \in Holders(r), h # 1 - d, h # 2 - d
        PROVE  Held(s, h) = Held(r, h)
    <3>1. h \in 1..n \/ (~(h > 0) /\ 1 - h \in 1..d - 1 /\ 1 - h # d - 1)
      <4>1. h \in (1 - d)..n /\ h # 1 - d /\ h # 2 - d /\ d \in Nat /\ n \in Nat
        BY <1>1, <2>1, <2>5
      <4> HIDE DEF d, n
      <4> QED
        BY <4>1
    <3>2. CASE h \in 1..n
      BY <1>9, <1>11, <3>2 DEF Held
    <3>3. CASE ~(h > 0) /\ 1 - h \in 1..d - 1 /\ 1 - h # d - 1
      BY <1>10, <1>11, <3>3 DEF Held
    <3> QED
      BY <3>1, <3>2, <3>3
  <2>6. ASSUME NEW b, NEW i, NEW e
        PROVE  InBlocks(Held(s, 2 - d), b, i, e) <=>
                 InBlocks(Held(r, 2 - d), b, i, e) \/ (b = b0 /\ i = i0 /\ e = n + 1)
    <3>1. InBlocks(Append(under.done, Append(under.block, n + 1)), b, i, e) <=>
            InBlocks(Append(under.done, under.block), b, i, e) \/ (b = b0 /\ i = i0 /\ e = n + 1)
      <4>1. n + 1 \in Nat /\ under.done \in Branches /\ under.block \in Numbers
        BY <1>1, <1>5
      <4> HIDE DEF n
      <4> QED
        BY <4>1, Pushed
    <3> QED
      BY <2>4, <3>1
  <2>7. ASSUME NEW h, NEW g \in Holders(r)
        PROVE  h = moved[g] <=> IF h = n + 1 THEN g = 1 - d ELSE g = h /\ h # 1 - d
    BY <2>1
  <2> HIDE DEF moved, b0, i0
  <2>8. ASSUME NEW h, NEW b, NEW i, NEW e
        PROVE  Stands(s, h, b, i, e) <=>
                 \/ \E g : Stands(r, g, b, i, e) /\ h = moved[g]
                 \/ h = 2 - d /\ b = b0 /\ i = i0 /\ e = n + 1
    <3>1. (\E g : Stands(r, g, b, i, e) /\ h = moved[g]) <=>
            IF h = n + 1 THEN Stands(r, 1 - d, b, i, e) ELSE Stands(r, h, b, i, e) /\ h # 1 - d
      <4>1. \A g : Stands(r, g, b, i, e) => g \in Holders(r)
        BY DEF Stands
      <4>2. 1 - d \in Holders(r)
        BY <2>1
      <4>3. \A g \in Holders(r) : h = moved[g] <=> IF h = n + 1 THEN g = 1 - d ELSE g = h /\ h # 1 - d
        BY <2>7
      <4> HIDE DEF d, n
      <4>4. CASE h = n + 1
        BY <4>1, <4>2, <4>3, <4>4
      <4>5. CASE h # n + 1
        BY <4>1, <4>3, <4>5
      <4> QED
        BY <4>4, <4>5
    <3>2. CASE h = n + 1
      <4>1. Stands(s, h, b, i, e) <=> InBlocks(last, b, i, e)
        BY <2>1, <2>3, <3>2 DEF Stands
      <4>2. Stands(r, 1 - d, b, i, e) <=> InBlocks(last, b, i, e)
        BY <2>1, <2>3 DEF Stands
      <4>3. h # 2 - d
        BY <2>1, <3>2
      <4> QED
        BY <3>1, <3>2, <4>1, <4>2, <4>3
    <3>3. CASE h = 2 - d
      <4>1. h # n + 1 /\ h # 1 - d /\ h \in Holders(r) /\ h \in Holders(s)
        BY <2>1, <2>2, <3>3
      <4>2. Stands(s, h, b, i, e) <=> Stands(r, h, b, i, e) \/ (b = b0 /\ i = i0 /\ e = n + 1)
        BY <2>6, <3>3, <4>1 DEF Stands
      <4> QED
        BY <3>1, <3>3, <4>1, <4>2
    <3>4. CASE h # n + 1 /\ h # 2 - d
      <4>1. h \in Holders(s) <=> h \in Holders(r) /\ h # 1 - d
        BY <2>2, <3>4
      <4>2. Stands(s, h, b, i, e) <=> Stands(r, h, b, i, e) /\ h # 1 - d
        BY <2>5, <3>4, <4>1 DEF Stands
      <4> QED
        BY <3>1, <3>4, <4>2
    <3> QED
      BY <3>2, <3>3, <3>4
  <2>9. AlsoStands(r, s, moved, 2 - d, b0, i0, n + 1)
    BY <2>8 DEF AlsoStands
  <2>10. 2 - d \in Int /\ 2 - d <= 0
    BY <1>1, <1>3
  <2>11. \A g \in Holders(r) : moved[g] = g \/ moved[g] = n + 1
    BY DEF moved
  <2>12. Len(s.elements) = n + 1 /\ TreeFits(r)
    BY <1>9, <1>11 DEF ActivityShape
  <2> QED
    BY <1>1, <2>9, <2>10, <2>11, <2>12, TreeGrown
<1>16. ActivityShape(s)
  BY <1>11, <1>12, <1>13, <1>14, <1>15 DEF ActivityShape
<1> QED
  BY <1>11, <1>16 DEF s

LEMMA LastStands ==
  ASSUME NEW r, ActivityShape(r), Activity!Top(r).block # <<>>
  PROVE  Activity!LastOf(Activity!Top(r).block) \in 1..Len(r.elements)
<1> DEFINE d     == Len(r.frames)
           n     == Len(r.elements)
           top   == Activity!Top(r)
           m     == Len(top.done) + 1
           k     == Len(top.block)
           last  == Append(top.done, top.block)
<1>1. /\ top = r.frames[d] /\ d \in Nat \ {0} /\ n \in Nat /\ top.block \in Numbers /\ top.done \in Branches
  BY TopIs
<1>2. k \in 1..k
  BY <1>1 DEF Numbers
<1>3. Len(last) = m /\ last[m] = top.block /\ Len(top.done) \in Nat
  <2>1. top.done \in Seq(Numbers) /\ top.block \in Numbers
    BY <1>1 DEF Branches
  <2> HIDE DEF top
  <2> QED
    BY <2>1, AppendIs
<1>4. Held(r, 1 - d) = last /\ 1 - d \in Holders(r)
  <2>1. ~(1 - d > 0) /\ 1 - (1 - d) = d /\ 1 - d \in (1 - d)..n
    BY <1>1
  <2> QED
    BY <1>1, <2>1 DEF Held, Holders
<1>5. m \in 1..m
  BY <1>3
<1> HIDE DEF last
<1>6. InBlocks(last, m, k, Activity!LastOf(top.block))
  BY <1>2, <1>3, <1>5 DEF InBlocks, Activity!LastOf
<1>7. Stands(r, 1 - d, m, k, Activity!LastOf(top.block))
  BY <1>4, <1>6 DEF Stands
<1> QED
  BY <1>7 DEF ActivityShape, TreeFits

(* The note goes to an action that stands at the end of the open block. *)
LEMMA ActivityAttached ==
  ASSUME NEW r, ActivityShape(r), LastIsAction(r)
  PROVE  ActivityInv(Activity!Attached(r))
<1> DEFINE n   == Len(r.elements)
           l   == Activity!LastOf(Activity!Top(r).block)
           new == [r.elements[l] EXCEPT !.note = TRUE]
           es  == [r.elements EXCEPT ![l] = new]
           s   == Activity!Attached(r)
<1>1. l \in 1..n /\ r.elements[l].is = "action" /\ n \in Nat
  BY LastStands, TopIs DEF LastIsAction
<1>2. r \in [frames : Seq(AFrame), elements : Seq(AnElement), count : Nat, pending : BOOLEAN,
             previous : {"other", "action", "note"}, action : BOOLEAN, note : BOOLEAN, skipped : Blocks,
             outcome : Outcomes]
  BY DEF ActivityShape, ActivityType
<1>3. s = [r EXCEPT !.elements = es, !.previous = "note", !.note = FALSE]
  BY <1>2 DEF Activity!Attached
<1> HIDE DEF l
<1>4. r.elements[l] \in AnElement
  BY <1>1, <1>2
<1>5. /\ new \in AnElement /\ new.is = "action" /\ new.blocks = r.elements[l].blocks
      /\ new.else = r.elements[l].else
  BY <1>1, <1>4 DEF AnElement
<1> HIDE DEF new
<1>6. /\ es \in Seq(AnElement) /\ Len(es) = n /\ es[l] = new
      /\ \A k \in 1..n : k # l => es[k] = r.elements[k]
  BY <1>1, <1>2, <1>5, ReplacedIs
<1> HIDE DEF es
<1>7. /\ ActivityType(s) /\ s.elements = es /\ s.frames = r.frames /\ s.count = r.count
      /\ ~s.note /\ s.previous = "note"
  <2> HIDE DEF s
  <2> QED
    BY <1>2, <1>3, <1>6 DEF ActivityType
<1> HIDE DEF s
<1>8. FramesFit(s)
  BY <1>7 DEF FramesFit, ActivityShape
<1>9. ElementsFit(s)
  <2>1. ElementFits(new)
    <3>1. ElementFits(r.elements[l])
      BY <1>1 DEF ActivityShape, ElementsFit
    <3> QED
      BY <1>1, <1>5, <3>1 DEF ElementFits
  <2> QED
    BY <1>6, <1>7, <2>1 DEF ElementsFit, ActivityShape
<1>10. s.count = Len(s.elements) + (Len(s.frames) - 1)
  BY <1>6, <1>7 DEF ActivityShape
<1>11. ASSUME NEW h, NEW b, NEW i, NEW e
       PROVE  Stands(s, h, b, i, e) <=> Stands(r, h, b, i, e)
  <2>1. Holders(s) = Holders(r)
    BY <1>6, <1>7 DEF Holders
  <2>2. ASSUME h \in Holders(r)
        PROVE  Held(s, h) = Held(r, h)
    <3>1. CASE h > 0
      <4>1. h \in 1..n
        BY <1>1, <2>2, <3>1 DEF Holders
      <4> QED
        BY <1>5, <1>6, <1>7, <3>1, <4>1 DEF Held
    <3>2. CASE ~(h > 0)
      BY <1>7, <3>2 DEF Held
    <3> QED
      BY <3>1, <3>2
  <2> QED
    BY <2>1, <2>2 DEF Stands
<1>12. TreeFits(s)
  BY <1>6, <1>7, <1>11, TreeKept DEF ActivityShape
<1>13. ActivityShape(s)
  BY <1>7, <1>8, <1>9, <1>10, <1>12 DEF ActivityShape
<1> QED
  BY <1>7, <1>13 DEF ActivityInv, s

(* An action's last line makes it the last element; before that it is only under way. *)
LEMMA ActivityActionLine ==
  ASSUME NEW r, ActivityInv(r), NEW line
  PROVE  ActivityInv(Activity!ActionLine(r, line))
<1>1. CASE Activity!Terminates(line)
  <2> DEFINE q == [r EXCEPT !.action = FALSE]
             a == Activity!Appended(q, "action")
             s == [a EXCEPT !.previous = "action"]
  <2>1. ActivityType(q) /\ q.frames = r.frames /\ q.elements = r.elements /\ q.count = r.count
    BY DEF ActivityInv, ActivityShape, ActivityType
  <2> HIDE DEF q
  <2>2. ActivityShape(q)
    BY <2>1, ActivityKept DEF ActivityInv
  <2>3. ActivityShape(a) /\ LastIsAction(a)
    BY <2>2, ActivityAppended DEF LastIsAction
  <2> HIDE DEF a
  <2>4. ActivityType(s) /\ s.frames = a.frames /\ s.elements = a.elements /\ s.count = a.count
    BY <2>3 DEF ActivityShape, ActivityType
  <2>5. s = Activity!ActionLine(r, line)
    BY <1>1 DEF Activity!ActionLine, a, q
  <2> HIDE DEF s
  <2> QED
    BY <2>3, <2>4, <2>5, ActivityKept DEF ActivityInv
<1>2. CASE ~Activity!Terminates(line)
  <2> DEFINE s == [r EXCEPT !.action = TRUE]
  <2>1. /\ ActivityType(s) /\ s.frames = r.frames /\ s.elements = r.elements /\ s.count = r.count
        /\ s.note = r.note /\ s.previous = r.previous
    BY DEF ActivityInv, ActivityShape, ActivityType
  <2>2. s = Activity!ActionLine(r, line)
    BY <1>2 DEF Activity!ActionLine
  <2> HIDE DEF s
  <2>3. ActivityShape(s) /\ (LastIsAction(r) => LastIsAction(s))
    BY <2>1, ActivityKept DEF ActivityInv
  <2> QED
    BY <2>1, <2>2, <2>3 DEF ActivityInv
<1> QED
  BY <1>1, <1>2

LEMMA ActivityStatement ==
  ASSUME ActivityInv(reader), ~reader.note
  PROVE  LET s == Activity!Statement IN
           /\ ActivityInv(s) /\ ~s.note /\ s.previous = "other"
           /\ Activity!Top(s) = Activity!Top(reader)
           /\ s.pending = reader.pending
<1> DEFINE s == Activity!Statement
<1>1. /\ ActivityType(s) /\ s.frames = reader.frames /\ s.elements = reader.elements
      /\ s.count = reader.count /\ ~s.note /\ s.previous = "other" /\ s.pending = reader.pending
  BY DEF ActivityInv, ActivityShape, ActivityType, Activity!Statement
<1> HIDE DEF s
<1>2. ActivityShape(s)
  BY <1>1, ActivityKept DEF ActivityInv
<1>3. Activity!Top(s) = Activity!Top(reader)
  BY <1>1 DEF Activity!Top, Activity!Depth
<1> QED
  BY <1>1, <1>2, <1>3 DEF ActivityInv, s

LEMMA ActivityDiscarded ==
  ASSUME NEW r, ActivityShape(r)
  PROVE  LET s == Activity!Discarded(r) IN
           /\ ActivityShape(s) /\ s.note = r.note /\ s.previous = r.previous
           /\ Activity!Top(s) = Activity!Top(r)
<1> DEFINE s == Activity!Discarded(r)
<1>1. /\ ActivityType(s) /\ s.frames = r.frames /\ s.elements = r.elements
      /\ s.count = r.count /\ s.note = r.note /\ s.previous = r.previous
  BY DEF ActivityShape, ActivityType, Activity!Discarded
<1> HIDE DEF s
<1>2. ActivityShape(s)
  BY <1>1, ActivityKept
<1>3. Activity!Top(s) = Activity!Top(r)
  BY <1>1 DEF Activity!Top, Activity!Depth
<1> QED
  BY <1>1, <1>2, <1>3 DEF s

LEMMA ActivityOpens ==
  ASSUME ActivityInv(reader), ~reader.note, NEW kind_ \in Activity!Nested
  PROVE  ActivityInv(Activity!Opened(Activity!Statement, kind_))
<1> DEFINE s == Activity!Statement
<1>1. ActivityShape(s) /\ ~s.note /\ s.previous = "other"
  BY ActivityStatement DEF ActivityInv
<1> HIDE DEF s
<1>2. /\ ActivityShape(Activity!Opened(s, kind_)) /\ ~Activity!Opened(s, kind_).note
      /\ Activity!Opened(s, kind_).previous = "other"
  BY <1>1, ActivityOpened
<1> QED
  BY <1>2 DEF ActivityInv, s

LEMMA ActivityCloses ==
  ASSUME ActivityInv(reader), ~reader.note, Activity!Top(reader).kind # "root",
         NEW r \in {Activity!Statement, Activity!Discarded(Activity!Statement)}
  PROVE  ActivityInv(Activity!Closed(r))
<1> DEFINE s == Activity!Statement
<1>1. ActivityShape(s) /\ ~s.note /\ s.previous = "other" /\ Activity!Top(s).kind # "root"
  BY ActivityStatement DEF ActivityInv
<1> HIDE DEF s
<1>2. ActivityShape(r) /\ ~r.note /\ r.previous = "other" /\ Activity!Top(r).kind # "root"
  BY <1>1, ActivityDiscarded DEF s
<1>3. ActivityShape(Activity!Closed(r)) /\ ~Activity!Closed(r).note /\ Activity!Closed(r).previous = "other"
  BY <1>2, ActivityClosed
<1> QED
  BY <1>3 DEF ActivityInv

LEMMA ActivityBranches ==
  ASSUME ActivityInv(reader), ~reader.note, NEW else \in BOOLEAN,
         Activity!Top(reader).kind \in {"if", "fork"}, else => Activity!Top(reader).kind = "if"
  PROVE  ActivityInv(Activity!NextBranch(Activity!Statement, else))
<1> DEFINE s == Activity!Statement
<1>1. ActivityShape(s) /\ ~s.note /\ s.previous = "other" /\ Activity!Top(s) = Activity!Top(reader)
  BY ActivityStatement DEF ActivityInv
<1> HIDE DEF s
<1>2. /\ ActivityShape(Activity!NextBranch(s, else)) /\ ~Activity!NextBranch(s, else).note
      /\ Activity!NextBranch(s, else).previous = "other"
  BY <1>1, ActivityNextBranch
<1> QED
  BY <1>2 DEF ActivityInv, s

LEMMA ActivityNote ==
  ASSUME ActivityInv(reader), NEW line, Activity!ReadNote(line)
  PROVE  ActivityInv(reader')
<1>1. CASE reader.previous # "action"
  BY <1>1, ActivityEmpty DEF Activity!ReadNote, Activity!Fails
<1>2. CASE reader.previous = "action" /\ line.inline
  <2>1. ActivityShape(reader) /\ LastIsAction(reader)
    BY <1>2 DEF ActivityInv
  <2>2. ActivityInv(Activity!Attached(reader))
    BY <2>1, ActivityAttached
  <2> QED
    BY <1>2, <2>2, ActivityReads DEF Activity!ReadNote
<1>3. CASE reader.previous = "action" /\ ~line.inline
  <2> DEFINE s == [Activity!Statement EXCEPT !.note = TRUE]
  <2>1. ActivityShape(reader) /\ LastIsAction(reader)
    BY <1>3 DEF ActivityInv
  <2>2. /\ ActivityType(s) /\ s.frames = reader.frames /\ s.elements = reader.elements
        /\ s.count = reader.count
    BY DEF ActivityInv, ActivityShape, ActivityType, Activity!Statement
  <2> HIDE DEF s
  <2>3. ActivityInv(s)
    BY <2>1, <2>2, ActivityKept DEF ActivityInv
  <2> QED
    BY <1>3, <2>3, ActivityReads DEF Activity!ReadNote, s
<1> QED
  BY <1>1, <1>2, <1>3

LEMMA ActivityNoteLine ==
  ASSUME ActivityInv(reader), reader.note, NEW line, Activity!ReadNoteLine(line)
  PROVE  ActivityInv(reader')
<1>1. ActivityShape(reader) /\ LastIsAction(reader)
  BY DEF ActivityInv
<1>2. ActivityInv(Activity!Attached(reader))
  BY <1>1, ActivityAttached
<1> QED
  BY <1>2, ActivityReads DEF Activity!ReadNoteLine

LEMMA ActivitySkips ==
  ASSUME ActivityInv(reader), NEW block \in Blocks, Activity!Reads([reader EXCEPT !.skipped = block])
  PROVE  ActivityInv(reader')
<1> DEFINE r == [reader EXCEPT !.skipped = block]
<1>1. /\ ActivityType(r) /\ r.frames = reader.frames /\ r.elements = reader.elements
      /\ r.count = reader.count /\ r.note = reader.note /\ r.previous = reader.previous
  BY DEF ActivityInv, ActivityShape, ActivityType
<1> HIDE DEF r
<1>2. ActivityShape(r) /\ (LastIsAction(reader) => LastIsAction(r))
  BY <1>1, ActivityKept DEF ActivityInv
<1>3. ActivityInv(r)
  BY <1>1, <1>2 DEF ActivityInv
<1> QED
  BY <1>3, ActivityReads DEF r

(* The statements that open, end or branch what is nested. *)
LEMMA ActivityNests ==
  ASSUME ActivityInv(reader), ~reader.note, NEW line,
         \/ Activity!ReadIf(line) \/ Activity!ReadElse(line) \/ Activity!ReadEndIf(line)
         \/ Activity!ReadWhile(line) \/ Activity!ReadEndWhile(line)
         \/ Activity!ReadRepeat(line) \/ Activity!ReadRepeatWhile(line)
         \/ Activity!ReadFork(line) \/ Activity!ReadAgain(line) \/ Activity!ReadEndFork(line)
         \/ Activity!ReadPartition(line) \/ Activity!ReadEndPartition(line)
  PROVE  ActivityInv(reader')
<1>1. CASE reader' = Activity!Failed
  BY <1>1, ActivityEmpty
<1>2. CASE \E kind_ \in Activity!Nested : Activity!Reads(Activity!Opened(Activity!Statement, kind_))
  BY <1>2, ActivityOpens, ActivityReads
<1>3. CASE Activity!Reads(Activity!ActionLine(Activity!Opened(Activity!Statement, "repeat"), line))
  <2>1. "repeat" \in Activity!Nested
    BY DEF Activity!Nested
  <2>2. ActivityInv(Activity!Opened(Activity!Statement, "repeat"))
    BY <2>1, ActivityOpens
  <2> QED
    BY <1>3, <2>2, ActivityActionLine, ActivityReads
<1>4. CASE /\ Activity!Top(reader).kind # "root"
           /\ \/ Activity!Reads(Activity!Closed(Activity!Statement))
              \/ Activity!Reads(Activity!Closed(Activity!Discarded(Activity!Statement)))
  BY <1>4, ActivityCloses, ActivityReads
<1>5. CASE /\ Activity!Top(reader).kind = "if"
           /\ Activity!Reads(Activity!NextBranch(Activity!Statement, line.is = "else"))
  <2>1. (line.is = "else") \in BOOLEAN
    OBVIOUS
  <2> QED
    BY <1>5, <2>1, ActivityBranches, ActivityReads
<1>6. CASE /\ Activity!Top(reader).kind = "fork"
           /\ Activity!Reads(Activity!NextBranch(Activity!Statement, FALSE))
  BY <1>6, ActivityBranches, ActivityReads
<1>7. CASE Activity!ReadIf(line) \/ Activity!ReadWhile(line) \/ Activity!ReadFork(line) \/ Activity!ReadPartition(line)
  BY <1>2, <1>7 DEF Activity!ReadIf, Activity!ReadWhile, Activity!ReadFork, Activity!ReadPartition, Activity!Nested
<1>8. CASE Activity!ReadRepeat(line)
  BY <1>2, <1>3, <1>8 DEF Activity!ReadRepeat, Activity!Nested
<1>9. CASE Activity!ReadElse(line) \/ Activity!ReadAgain(line)
  BY <1>1, <1>5, <1>6, <1>9 DEF Activity!ReadElse, Activity!ReadAgain, Activity!IsTop, Activity!Fails
<1>10. CASE \/ Activity!ReadEndIf(line) \/ Activity!ReadEndWhile(line) \/ Activity!ReadRepeatWhile(line)
            \/ Activity!ReadEndFork(line) \/ Activity!ReadEndPartition(line)
  BY <1>1, <1>4, <1>10 DEF Activity!ReadEndIf, Activity!ReadEndWhile, Activity!ReadRepeatWhile,
     Activity!ReadEndFork, Activity!ReadEndPartition, Activity!IsTop, Activity!Fails
<1> QED
  BY <1>7, <1>8, <1>9, <1>10

LEMMA ActivityPlain ==
  ASSUME ActivityInv(reader), ~reader.note, NEW line \in Activity!Lines,
         Activity!ReadConnector(line) \/ Activity!ReadFlowEnd(line) \/ Activity!ReadAction(line)
  PROVE  ActivityInv(reader')
<1> DEFINE s == Activity!Statement
<1>1. ActivityInv(s) /\ ActivityShape(s) /\ ~s.note /\ s.previous = "other"
  BY ActivityStatement DEF ActivityInv
<1>2. CASE Activity!ReadConnector(line)
  <2> HIDE DEF s
  <2> DEFINE q == [s EXCEPT !.pending = TRUE]
  <2>1. /\ ActivityType(q) /\ q.frames = s.frames /\ q.elements = s.elements /\ q.count = s.count
        /\ ~q.note /\ q.previous = "other"
    BY <1>1 DEF ActivityShape, ActivityType
  <2>2. Activity!Reads(q)
    BY <1>2 DEF Activity!ReadConnector, s
  <2> HIDE DEF q
  <2>3. ActivityInv(q)
    BY <1>1, <2>1, ActivityKept DEF ActivityInv
  <2> QED
    BY <2>2, <2>3, ActivityReads
<1>3. CASE Activity!ReadFlowEnd(line)
  <2>1. line.ends \in {"action", "start", "stop", "detach"}
    BY <1>3 DEF Activity!ReadFlowEnd, Activity!Lines, Activity!BlockLines
  <2> DEFINE q == Activity!Appended(s, line.ends)
  <2>2. Activity!Reads(q)
    BY <1>3 DEF Activity!ReadFlowEnd
  <2> HIDE DEF s
  <2>3. ActivityShape(q) /\ ~q.note /\ q.previous = "other"
    BY <1>1, <2>1, ActivityAppended
  <2> HIDE DEF q
  <2> QED
    BY <2>2, <2>3, ActivityReads DEF ActivityInv
<1>4. CASE Activity!ReadAction(line)
  BY <1>1, <1>4, ActivityActionLine, ActivityReads DEF Activity!ReadAction
<1> QED
  BY <1>2, <1>3, <1>4

LEMMA ActivityLine ==
  ASSUME ActivityInv(reader), NEW line \in Activity!Lines, Activity!ReadLine(line)
  PROVE  ActivityInv(reader')
<1>1. CASE Activity!Reads([reader EXCEPT !.skipped = Activity!Continued(@, line)])
  <2>1. Activity!Continued(reader.skipped, line) \in Blocks
    BY SkippedAre DEF ActivityInv, ActivityShape, ActivityType, Activity!Continued, Skipped!Continued,
       Activity!NoBlock, Skipped!NoBlock, Activity!BraceBalance, Skipped!BraceBalance
  <2>2. Activity!Reads([reader EXCEPT !.skipped = Activity!Continued(reader.skipped, line)])
    BY <1>1 DEF ActivityInv, ActivityShape, ActivityType
  <2> QED
    BY <2>1, <2>2, ActivitySkips
<1>2. CASE Activity!StartBlock(line)
  <2>1. line.name \in BlockNames
    BY <1>2 DEF Activity!StartBlock, Activity!Lines, Activity!BlockLines, BlockNames
  <2>2. Activity!Started(line) \in Blocks
    BY <2>1, SkippedAre DEF Activity!Started, Skipped!Started, Activity!NoBlock, Skipped!NoBlock
  <2> QED
    BY <1>2, <2>2, ActivitySkips DEF Activity!StartBlock
<1>3. CASE Activity!ReadActionLine(line)
  BY <1>3, ActivityActionLine, ActivityReads DEF Activity!ReadActionLine
<1>4. CASE reader.note /\ Activity!ReadNoteLine(line)
  BY <1>4, ActivityNoteLine
<1>5. CASE Activity!ReadNote(line)
  BY <1>5, ActivityNote
<1>6. CASE Activity!ReadIgnored(line) \/ Activity!ReadUnsupported(line)
  BY <1>6, ActivityReads, ActivityEmpty DEF Activity!ReadIgnored, Activity!ReadUnsupported, Activity!Fails
<1>7. CASE ~reader.note /\ Activity!ReadStatement(line)
  BY <1>2, <1>5, <1>6, <1>7, ActivityPlain, ActivityNests DEF Activity!ReadStatement
<1> QED
  BY <1>1, <1>3, <1>4, <1>7 DEF Activity!ReadLine

LEMMA ActivityFinish ==
  ASSUME ActivityInv(reader), Activity!Finish
  PROVE  ActivityInv(reader') /\ (reader'.outcome = "parsed" => Len(reader'.frames) = 1)
<1>1. CASE Activity!Unfinished(reader)
  <2>1. reader' = Activity!Failed
    BY <1>1 DEF Activity!Finish
  <2>2. reader'.outcome # "parsed"
    BY <2>1 DEF Activity!Failed, Activity!Empty
  <2> QED
    BY <2>1, <2>2, ActivityEmpty
<1>2. CASE ~Activity!Unfinished(reader)
  <2> DEFINE r == reader'
  <2>1. r = [Activity!Discarded(reader) EXCEPT !.outcome = "parsed"]
    BY <1>2 DEF Activity!Finish
  <2>2. /\ ActivityType(r) /\ r.frames = reader.frames /\ r.elements = reader.elements
        /\ r.count = reader.count /\ r.note = reader.note /\ r.previous = reader.previous
    BY <2>1 DEF ActivityInv, ActivityShape, ActivityType, Outcomes, Activity!Discarded
  <2> HIDE DEF r
  <2>3. ActivityShape(r) /\ (LastIsAction(reader) => LastIsAction(r))
    BY <2>2, ActivityKept DEF ActivityInv
  <2>4. Len(r.frames) = 1
    <3>1. ~(Len(reader.frames) > 1)
      BY <1>2 DEF Activity!Unfinished, Activity!Depth
    <3>2. Len(reader.frames) \in Nat \ {0}
      BY TopIs DEF ActivityInv
    <3>3. \A k \in Nat \ {0} : ~(k > 1) => k = 1
      OBVIOUS
    <3>4. Len(reader.frames) = 1
      BY <3>1, <3>2, <3>3
    <3> QED
      BY <2>2, <3>4
  <2> QED
    BY <2>2, <2>3, <2>4 DEF ActivityInv, r
<1> QED
  BY <1>1, <1>2

(* Where only the root is open, the places of the diagram are where its elements stand. *)
LEMMA ActivityPlaces ==
  ASSUME NEW r, ActivityShape(r), Len(r.frames) = 1
  PROVE  /\ \A place \in Activity!Places(r) :
              /\ Stands(r, place[1], place[2], place[3], Activity!At(r, place))
              /\ place = <<place[1], place[2], place[3]>>
         /\ \A h, b, i, e : Stands(r, h, b, i, e) =>
              <<h, b, i>> \in Activity!Places(r) /\ Activity!At(r, <<h, b, i>>) = e
<1>1. Holders(r) = 0..Len(r.elements)
  BY DEF Holders
<1>2. ASSUME NEW h \in Holders(r)
      PROVE  Activity!BlocksOf(r, h) = Held(r, h)
  <2>1. CASE h = 0
    <3>1. r.frames[1] \in AFrame /\ r.frames[1].done = <<>>
      <4>1. r.frames[1] \in AFrame /\ 1 \in 1..Len(r.frames)
        BY TopIs
      <4>2. r.frames[1].kind = "root"
        BY <4>1 DEF ActivityShape, FramesFit
      <4>3. r.frames[1].done # <<>> => r.frames[1].kind \in {"if", "fork"}
        BY <4>1 DEF ActivityShape, FramesFit
      <4> QED
        BY <4>1, <4>2, <4>3
    <3>2. ~(h > 0) /\ 1 - h = 1
      BY <2>1
    <3>3. Append(<<>>, r.frames[1].block) = <<r.frames[1].block>>
      OBVIOUS
    <3> QED
      BY <2>1, <3>1, <3>2, <3>3 DEF Held, Activity!BlocksOf
  <2>2. CASE h # 0
    <3>1. h > 0
      BY <1>1, <2>2, TopIs
    <3> QED
      BY <2>2, <3>1 DEF Held, Activity!BlocksOf
  <2> QED
    BY <2>1, <2>2
<1>3. ASSUME NEW place \in Activity!Places(r)
      PROVE  /\ Stands(r, place[1], place[2], place[3], Activity!At(r, place))
             /\ place = <<place[1], place[2], place[3]>>
  <2>1. PICK h \in 0..Len(r.elements) : \E b \in 1..Len(Activity!BlocksOf(r, h)) :
          \E i \in 1..Len(Activity!BlocksOf(r, h)[b]) : place = <<h, b, i>>
    <3>1. PICK h \in 0..Len(r.elements) :
            place \in UNION {{<<h, b, i>> : i \in 1..Len(Activity!BlocksOf(r, h)[b])} :
                               b \in 1..Len(Activity!BlocksOf(r, h))}
      BY <1>3 DEF Activity!Places
    <3>2. PICK b \in 1..Len(Activity!BlocksOf(r, h)) :
            place \in {<<h, b, i>> : i \in 1..Len(Activity!BlocksOf(r, h)[b])}
      BY <3>1
    <3> QED
      BY <3>2
  <2>2. PICK b \in 1..Len(Activity!BlocksOf(r, h)) :
          \E i \in 1..Len(Activity!BlocksOf(r, h)[b]) : place = <<h, b, i>>
    BY <2>1
  <2>3. PICK i \in 1..Len(Activity!BlocksOf(r, h)[b]) : place = <<h, b, i>>
    BY <2>2
  <2>4. place[1] = h /\ place[2] = b /\ place[3] = i
    BY <2>3
  <2>5. h \in Holders(r) /\ Activity!BlocksOf(r, h) = Held(r, h)
    BY <1>1, <1>2
  <2>6. Activity!At(r, place) = Held(r, h)[b][i]
    BY <2>4, <2>5 DEF Activity!At
  <2> QED
    BY <2>3, <2>4, <2>5, <2>6 DEF Stands, InBlocks
<1>4. ASSUME NEW h, NEW b, NEW i, NEW e, Stands(r, h, b, i, e)
      PROVE  <<h, b, i>> \in Activity!Places(r) /\ Activity!At(r, <<h, b, i>>) = e
  <2>1. /\ h \in 0..Len(r.elements) /\ b \in 1..Len(Activity!BlocksOf(r, h))
        /\ i \in 1..Len(Activity!BlocksOf(r, h)[b]) /\ Activity!BlocksOf(r, h)[b][i] = e
    BY <1>1, <1>2, <1>4 DEF Stands, InBlocks
  <2> QED
    BY <2>1 DEF Activity!Places, Activity!At
<1> QED
  BY <1>3, <1>4

LEMMA ActivityWellFormed ==
  ASSUME ActivityInv(reader), Len(reader.frames) = 1
  PROVE  Activity!WellFormed(reader)
<1>1. ActivityShape(reader) /\ TreeFits(reader) /\ ElementsFit(reader) /\ Len(reader.elements) \in Nat
  BY TopIs DEF ActivityInv, ActivityShape
<1>2. Len(reader.elements) = reader.count
  BY <1>1 DEF ActivityShape
<1>3. ASSUME NEW e \in 1..Len(reader.elements)
      PROVE  \E place \in Activity!Places(reader) : Activity!At(reader, place) = e
  <2>1. PICK h, b, i : Stands(reader, h, b, i, e)
    BY <1>1 DEF TreeFits
  <2> QED
    BY <1>1, <2>1, ActivityPlaces
<1>4. ASSUME NEW one \in Activity!Places(reader), NEW other \in Activity!Places(reader),
             Activity!At(reader, one) = Activity!At(reader, other)
      PROVE  one = other
  <2>1. /\ Stands(reader, one[1], one[2], one[3], Activity!At(reader, one))
        /\ Stands(reader, other[1], other[2], other[3], Activity!At(reader, one))
        /\ one = <<one[1], one[2], one[3]>> /\ other = <<other[1], other[2], other[3]>>
    BY <1>1, <1>4, ActivityPlaces
  <2>2. one[1] = other[1] /\ one[2] = other[2] /\ one[3] = other[3]
    BY <1>1, <2>1 DEF TreeFits
  <2> QED
    BY <2>1, <2>2
<1>5. ASSUME NEW place \in Activity!Places(reader)
      PROVE  /\ Activity!At(reader, place) \in 1..Len(reader.elements)
             /\ place[1] # 0 => Activity!At(reader, place) < place[1]
  <2>1. Stands(reader, place[1], place[2], place[3], Activity!At(reader, place))
    BY <1>1, ActivityPlaces
  <2>2. /\ Activity!At(reader, place) \in 1..Len(reader.elements)
        /\ place[1] > 0 => Activity!At(reader, place) < place[1]
    BY <1>1, <2>1 DEF TreeFits
  <2>3. place[1] \in 0..Len(reader.elements)
    BY <2>1 DEF Stands, Holders
  <2>4. place[1] # 0 => place[1] > 0
    BY <1>1, <2>3
  <2> QED
    BY <2>2, <2>4
<1>6. Activity!IsTree(reader)
  BY <1>3, <1>4, <1>5 DEF Activity!IsTree
<1> QED
  BY <1>1, <1>2, <1>6 DEF Activity!WellFormed, ElementsFit, ElementFits

-----------------------------------------------------------------------------
(* Only the end of a text makes a reader be done: a line leaves it reading or failed. *)

IsReading(r) == "outcome" \in DOMAIN r /\ r.outcome = "reading"

LEMMA ActivityStillReads ==
  ASSUME ActivityInv(reader), NEW line, Activity!ReadLine(line)
  PROVE  reader'.outcome # "parsed"
<1>1. IsReading(reader)
  BY DEF ActivityInv, ActivityShape, ActivityType, Activity!ReadLine, IsReading
<1>2. Activity!Failed.outcome # "parsed"
  BY DEF Activity!Failed, Activity!Empty
<1>3. ASSUME NEW r, IsReading(r), Activity!Reads(r)
      PROVE  reader'.outcome # "parsed"
  BY <1>2, <1>3 DEF Activity!Reads, IsReading
<1>4. ASSUME NEW r, IsReading(r), NEW x
      PROVE  /\ IsReading(Activity!Discarded(r)) /\ IsReading(Activity!Appended(r, x))
             /\ IsReading(Activity!Opened(r, x)) /\ IsReading(Activity!Closed(r))
             /\ IsReading(Activity!Attached(r)) /\ IsReading([r EXCEPT !.previous = x])
             /\ IsReading([r EXCEPT !.action = x]) /\ IsReading([r EXCEPT !.pending = x])
             /\ IsReading([r EXCEPT !.note = x]) /\ IsReading([r EXCEPT !.skipped = x])
  BY <1>4 DEF IsReading, Activity!Discarded, Activity!Appended, Activity!Opened, Activity!Closed, Activity!Attached
<1>5. ASSUME NEW r, IsReading(r), NEW x
      PROVE  IsReading(Activity!ActionLine(r, x)) /\ IsReading(Activity!NextBranch(r, x))
  <2>1. IsReading(Activity!ActionLine(r, x))
    BY <1>4, <1>5 DEF Activity!ActionLine
  <2>2. IsReading(Activity!NextBranch(r, x))
    <3>1. IsReading(Activity!Discarded(r))
      BY <1>4, <1>5
    <3> QED
      BY <3>1 DEF IsReading, Activity!NextBranch
  <2> QED
    BY <2>1, <2>2
<1>6. IsReading(Activity!Statement)
  BY <1>1, <1>4 DEF Activity!Statement
<1>7. CASE Activity!Reads([reader EXCEPT !.skipped = Activity!Continued(@, line)])
  BY <1>1, <1>3, <1>4, <1>7
<1>8. CASE Activity!ReadActionLine(line)
  BY <1>1, <1>3, <1>5, <1>8 DEF Activity!ReadActionLine
<1>9. CASE Activity!ReadNoteLine(line)
  BY <1>1, <1>3, <1>4, <1>9 DEF Activity!ReadNoteLine
<1>10. CASE Activity!ReadStatement(line)
  <2>1. CASE Activity!StartBlock(line) \/ Activity!ReadIgnored(line) \/ Activity!ReadUnsupported(line)
    BY <1>1, <1>2, <1>3, <1>4, <2>1 DEF Activity!StartBlock, Activity!ReadIgnored, Activity!ReadUnsupported, Activity!Fails
  <2>2. CASE Activity!ReadConnector(line) \/ Activity!ReadFlowEnd(line) \/ Activity!ReadAction(line)
    BY <1>3, <1>4, <1>5, <1>6, <2>2 DEF Activity!ReadConnector, Activity!ReadFlowEnd, Activity!ReadAction
  <2>3. CASE Activity!ReadIf(line) \/ Activity!ReadWhile(line) \/ Activity!ReadFork(line) \/ Activity!ReadPartition(line)
    BY <1>3, <1>4, <1>6, <2>3 DEF Activity!ReadIf, Activity!ReadWhile, Activity!ReadFork, Activity!ReadPartition
  <2>4. CASE Activity!ReadRepeat(line)
    BY <1>3, <1>4, <1>5, <1>6, <2>4 DEF Activity!ReadRepeat
  <2>5. CASE Activity!ReadElse(line) \/ Activity!ReadAgain(line)
    BY <1>2, <1>3, <1>5, <1>6, <2>5 DEF Activity!ReadElse, Activity!ReadAgain, Activity!Fails
  <2>6. CASE \/ Activity!ReadEndIf(line) \/ Activity!ReadEndWhile(line) \/ Activity!ReadRepeatWhile(line)
             \/ Activity!ReadEndFork(line) \/ Activity!ReadEndPartition(line)
    BY <1>2, <1>3, <1>4, <1>6, <2>6 DEF Activity!ReadEndIf, Activity!ReadEndWhile, Activity!ReadRepeatWhile,
       Activity!ReadEndFork, Activity!ReadEndPartition, Activity!Fails
  <2>7. CASE Activity!ReadNote(line)
    BY <1>1, <1>2, <1>3, <1>4, <1>6, <2>7 DEF Activity!ReadNote, Activity!Fails
  <2> QED
    BY <1>10, <2>1, <2>2, <2>3, <2>4, <2>5, <2>6, <2>7 DEF Activity!ReadStatement
<1> QED
  BY <1>7, <1>8, <1>9, <1>10 DEF Activity!ReadLine

LEMMA ClassStillReads ==
  ASSUME ClassInv(reader), NEW line, Class!ReadLine(line)
  PROVE  reader'.outcome # "parsed"
<1>1. IsReading(reader)
  BY DEF ClassInv, ClassType, Class!ReadLine, IsReading
<1>2. Class!Failed.outcome # "parsed"
  BY DEF Class!Failed, Class!Empty
<1>3. ASSUME NEW r, IsReading(r), Class!Reads(r)
      PROVE  reader'.outcome # "parsed"
  BY <1>2, <1>3 DEF Class!Reads, IsReading
<1>4. ASSUME NEW r, IsReading(r), NEW x
      PROVE  /\ IsReading(Class!Resolved(r, x)) /\ IsReading(Class!BodyClosed(r))
             /\ IsReading(Class!MemberRead(r, x)) /\ IsReading([r EXCEPT !.skipped = x])
             /\ IsReading([r EXCEPT !.body = x]) /\ IsReading([r EXCEPT !.relations = x])
             /\ IsReading([r EXCEPT !.note = x]) /\ IsReading([r EXCEPT !.notes = x])
  BY <1>4 DEF IsReading, Class!Resolved, Class!BodyClosed, Class!MemberRead
<1>5. CASE Class!Reads([reader EXCEPT !.skipped = Class!Continued(@, line)])
  BY <1>1, <1>3, <1>4, <1>5
<1>6. CASE Class!ReadNoteLine(line)
  <2>1. IsReading([reader EXCEPT !.note = Class!NoNote, !.notes = Append(@, reader.note)])
    BY <1>1 DEF IsReading
  <2> QED
    BY <1>1, <1>3, <1>6, <2>1 DEF Class!ReadNoteLine
<1>7. CASE Class!ReadBodyLine(line)
  <2>1. IsReading([reader EXCEPT !.body.separated = TRUE, !.body.above = @ \cup {reader.body.last}, !.body.last = {}])
    BY <1>1 DEF IsReading
  <2> QED
    BY <1>1, <1>2, <1>3, <1>4, <1>7, <2>1 DEF Class!ReadBodyLine, Class!Fails
<1>8. CASE Class!ReadDeclaration(line)
  <2> DEFINE i      == Class!IndexOf(reader, line.id)
             r      == [Class!Resolved(reader, line.id) EXCEPT !.types[i].enum = line.enum, !.declared = @ \cup {i}]
             opened == [r EXCEPT !.body = [Class!NoBody EXCEPT !.type = i]]
  <2>1. IsReading(r)
    <3>1. IsReading(Class!Resolved(reader, line.id))
      BY <1>1, <1>4
    <3> QED
      BY <3>1 DEF IsReading
  <2>2. IsReading(opened) /\ IsReading(Class!BodyClosed(opened))
    <3> HIDE DEF r
    <3>1. IsReading(opened)
      BY <1>4, <2>1
    <3> HIDE DEF opened
    <3> QED
      BY <1>4, <3>1
  <2>3. \/ reader' = Class!Failed \/ Class!Reads(r) \/ Class!Reads(opened) \/ Class!Reads(Class!BodyClosed(opened))
    BY <1>8 DEF Class!ReadDeclaration, Class!Fails
  <2> HIDE DEF r, opened
  <2> QED
    BY <1>2, <1>3, <2>1, <2>2, <2>3
<1>9. CASE Class!ReadRelation(line)
  <2> DEFINE r == Class!Resolved(reader, line.from)
             s == Class!Resolved(r, line.to)
             q == [s EXCEPT !.relations =
                     Append(@, [from |-> Class!IndexOf(reader, line.from), to |-> Class!IndexOf(r, line.to)])]
  <2>1. IsReading(r)
    BY <1>1, <1>4
  <2>2. IsReading(s)
    <3> HIDE DEF r
    <3> QED
      BY <1>4, <2>1
  <2>3. Class!Reads(q)
    BY <1>9 DEF Class!ReadRelation
  <2>4. IsReading(q)
    <3> HIDE DEF s
    <3> QED
      BY <2>2 DEF IsReading
  <2> HIDE DEF q
  <2> QED
    BY <1>3, <2>3, <2>4
<1>10. CASE Class!ReadNote(line)
  <2> DEFINE note == [type |-> Class!First(Class!Found(reader, line.id)), side |-> line.side]
             r    == [reader EXCEPT !.notes = Append(@, note)]
             s    == [reader EXCEPT !.note = note]
  <2>1. reader' = Class!Failed \/ Class!Reads(r) \/ Class!Reads(s)
    BY <1>10 DEF Class!ReadNote, Class!Fails
  <2>2. IsReading(r) /\ IsReading(s)
    BY <1>1 DEF IsReading
  <2> HIDE DEF r, s
  <2> QED
    BY <1>2, <1>3, <2>1, <2>2
<1>11. CASE Class!StartBlock(line) \/ Class!ReadIgnored(line) \/ Class!ReadUnsupported(line)
  BY <1>1, <1>2, <1>3, <1>4, <1>11 DEF Class!StartBlock, Class!ReadIgnored, Class!ReadUnsupported, Class!Fails
<1> QED
  BY <1>5, <1>6, <1>7, <1>8, <1>9, <1>10, <1>11 DEF Class!ReadLine, Class!ReadStatement

LEMMA SequenceStillReads ==
  ASSUME SequenceInv(reader), NEW line, Sequence!ReadLine(line)
  PROVE  reader'.outcome # "parsed"
<1>1. IsReading(reader)
  BY DEF SequenceInv, SequenceType, Sequence!ReadLine, IsReading
<1>2. Sequence!Failed.outcome # "parsed"
  BY DEF Sequence!Failed, Sequence!Empty
<1>3. ASSUME NEW r, IsReading(r), Sequence!Reads(r)
      PROVE  reader'.outcome # "parsed"
  BY <1>2, <1>3 DEF Sequence!Reads, IsReading
<1>4. ASSUME NEW r, IsReading(r), NEW x
      PROVE  /\ IsReading(Sequence!Known(r, x)) /\ IsReading(Sequence!AppendMessage(r, x))
             /\ IsReading([r EXCEPT !.skipped = x]) /\ IsReading([r EXCEPT !.note = x])
             /\ IsReading([r EXCEPT !.calls = x]) /\ IsReading([r EXCEPT !.steps = x])
             /\ IsReading([r EXCEPT !.groups = x])
  BY <1>4 DEF IsReading, Sequence!Known, Sequence!AppendMessage
<1>5. ASSUME NEW r, IsReading(r), NEW note, NEW inline, Sequence!PutNote(r, note, inline)
      PROVE  reader'.outcome # "parsed"
  BY <1>3, <1>4, <1>5 DEF Sequence!PutNote
<1>6. CASE Sequence!Reads([reader EXCEPT !.skipped = Sequence!Continued(@, line)])
  BY <1>1, <1>3, <1>4, <1>6
<1>7. CASE Sequence!ReadNoteLine(line)
  <2>1. IsReading([reader EXCEPT !.note = Sequence!NoNote, !.steps = Append(@, Sequence!NoteStep(reader.note))])
    BY <1>1 DEF IsReading
  <2> QED
    BY <1>1, <1>3, <1>7, <2>1 DEF Sequence!ReadNoteLine
<1>8. CASE Sequence!ReadMessage(line)
  <2> DEFINE r       == Sequence!Known(reader, line.left)
             left    == Sequence!IndexOf(reader, line.left)
             right   == Sequence!IndexOf(r, line.right)
             message == [from |-> IF line.reversed THEN right ELSE left,
                         to   |-> IF line.reversed THEN left ELSE right, dashed |-> line.dashed]
             s       == Sequence!Known(r, line.right)
             t       == [s EXCEPT !.calls = Sequence!TrackCall(@, message)]
             q       == Sequence!AppendMessage(t, message)
  <2>1. Sequence!Reads(q)
    BY <1>8 DEF Sequence!ReadMessage
  <2> HIDE DEF message
  <2>2. IsReading(r)
    BY <1>1, <1>4
  <2> HIDE DEF r
  <2>3. IsReading(s)
    BY <1>4, <2>2
  <2> HIDE DEF s
  <2>4. IsReading(t)
    BY <1>4, <2>3
  <2> HIDE DEF t
  <2>5. IsReading(q)
    BY <1>4, <2>4
  <2> HIDE DEF q
  <2> QED
    BY <1>3, <2>1, <2>5
<1>9. CASE Sequence!ReadReturn(line)
  <2> DEFINE call == Sequence!Top(reader.calls)
             r    == [reader EXCEPT !.calls = Sequence!Pop(@)]
             q    == Sequence!AppendMessage(r, [from |-> call.to, to |-> call.from, dashed |-> TRUE])
  <2>1. reader' = Sequence!Failed \/ Sequence!Reads(q)
    BY <1>9 DEF Sequence!ReadReturn, Sequence!Fails
  <2>2. IsReading(r)
    BY <1>1, <1>4
  <2> HIDE DEF r, call
  <2>3. IsReading(q)
    BY <1>4, <2>2
  <2> HIDE DEF q
  <2> QED
    BY <1>2, <1>3, <2>1, <2>3
<1>10. CASE Sequence!ReadNote(line)
  <2>1. ASSUME NEW id PROVE IsReading(Sequence!Known(reader, id))
    BY <1>1, <1>4
  <2>2. ASSUME NEW id, NEW second PROVE IsReading(Sequence!Known(Sequence!Known(reader, id), second))
    BY <1>4, <2>1
  <2>3. CASE Sequence!NoteAtLastMessage(line)
    BY <1>1, <1>2, <1>5, <2>3 DEF Sequence!NoteAtLastMessage, Sequence!Fails
  <2>4. CASE Sequence!NoteAtParticipants(line)
    BY <1>2, <1>5, <2>1, <2>2, <2>4 DEF Sequence!NoteAtParticipants, Sequence!Fails
  <2> QED
    BY <1>10, <2>3, <2>4 DEF Sequence!ReadNote
<1>11. CASE Sequence!StartBlock(line) \/ Sequence!ReadIgnored(line) \/ Sequence!ReadUnknown(line)
  BY <1>1, <1>2, <1>3, <1>4, <1>11 DEF Sequence!StartBlock, Sequence!ReadIgnored, Sequence!ReadUnknown, Sequence!Fails
<1>12. CASE Sequence!ReadDivider(line) \/ Sequence!ReadParticipant(line) \/ Sequence!ReadGroupElse(line)
  BY <1>1, <1>2, <1>3, <1>4, <1>12 DEF Sequence!ReadDivider, Sequence!ReadParticipant, Sequence!ReadGroupElse, Sequence!Fails
<1>13. CASE Sequence!ReadGroupStart(line) \/ Sequence!ReadGroupEnd(line)
  <2>1. /\ IsReading([reader EXCEPT !.steps = Append(@, Sequence!Step("start")), !.groups = @ + 1])
        /\ IsReading([reader EXCEPT !.steps = Append(@, Sequence!Step("end")), !.groups = @ - 1])
    BY <1>1 DEF IsReading
  <2> QED
    BY <1>2, <1>3, <1>13, <2>1 DEF Sequence!ReadGroupStart, Sequence!ReadGroupEnd, Sequence!Fails
<1> QED
  BY <1>6, <1>7, <1>8, <1>9, <1>10, <1>11, <1>12, <1>13 DEF Sequence!ReadLine, Sequence!ReadStatement

-----------------------------------------------------------------------------
(* The inductive invariant: the reader of the kind of the text has its own, and what was      *)
(* parsed has nothing left open.                                                              *)

IInv ==
  /\ kind \in Kinds
  /\ kind = "activity" => ActivityInv(reader) /\ (reader.outcome = "parsed" => Len(reader.frames) = 1)
  /\ kind = "bits"     => BitsInv(reader)
  /\ kind = "block"    => BlockInv(reader)
  /\ kind = "class"    => ClassInv(reader) /\ (reader.outcome = "parsed" => reader.body = Class!NoBody)
  /\ kind = "sequence" => SequenceInv(reader) /\ (reader.outcome = "parsed" => reader.groups = 0)
  /\ kind = "state"    => StateInv(reader)

AllKinds == {"activity", "bits", "block", "class", "sequence", "state"}

LEMMA InitInv == ASSUME Init PROVE IInv
<1>1. kind \in Kinds /\ kind \in AllKinds /\ reader = Empty
  BY KindsAssumption DEF Init, AllKinds
<1>2. CASE kind = "activity"
  <2>1. reader = Activity!Empty
    BY <1>1, <1>2 DEF Empty
  <2>2. reader.outcome # "parsed"
    BY <2>1 DEF Activity!Empty
  <2> QED
    BY <1>1, <1>2, <2>1, <2>2, ActivityEmpty DEF IInv
<1>3. CASE kind = "bits"
  <2>1. reader = Bits!Empty
    BY <1>1, <1>3 DEF Empty
  <2> QED
    BY <1>1, <1>3, <2>1, BitsEmpty DEF IInv
<1>4. CASE kind = "block"
  <2>1. reader = Block!Empty
    BY <1>1, <1>4 DEF Empty
  <2> QED
    BY <1>1, <1>4, <2>1, BlockEmpty DEF IInv
<1>5. CASE kind = "class"
  <2>1. reader = Class!Empty
    BY <1>1, <1>5 DEF Empty
  <2>2. reader.outcome # "parsed"
    BY <2>1 DEF Class!Empty
  <2> QED
    BY <1>1, <1>5, <2>1, <2>2, ClassEmpty DEF IInv
<1>6. CASE kind = "sequence"
  <2>1. reader = Sequence!Empty
    BY <1>1, <1>6 DEF Empty
  <2>2. reader.outcome # "parsed"
    BY <2>1 DEF Sequence!Empty
  <2> QED
    BY <1>1, <1>6, <2>1, <2>2, SequenceEmpty DEF IInv
<1>7. CASE kind = "state"
  <2>1. reader = State!Empty
    BY <1>1, <1>7 DEF Empty
  <2> QED
    BY <1>1, <1>7, <2>1, StateEmpty DEF IInv
<1> QED
  BY <1>1, <1>2, <1>3, <1>4, <1>5, <1>6, <1>7 DEF AllKinds

LEMMA LineInv ==
  ASSUME IInv,
         ReadActivity \/ ReadBits \/ ReadBlock \/ ReadClass \/ ReadSequence \/ ReadState
  PROVE  IInv'
<1>1. kind' = kind /\ kind \in Kinds
  BY DEF IInv, ReadActivity, ReadBits, ReadBlock, ReadClass, ReadSequence, ReadState, Read
<1>2. CASE ReadActivity
  <2>1. kind = "activity" /\ \E line \in Activity!Lines : Activity!ReadLine(line)
    BY <1>2 DEF ReadActivity, Read
  <2>2. ActivityInv(reader') /\ reader'.outcome # "parsed"
    BY <2>1, ActivityLine, ActivityStillReads DEF IInv
  <2> QED
    BY <1>1, <2>1, <2>2 DEF IInv
<1>3. CASE ReadBits
  <2>1. kind = "bits" /\ \E line \in Bits!Lines : Bits!ReadLine(line)
    BY <1>3 DEF ReadBits, Read
  <2>2. BitsInv(reader')
    BY <2>1, BitsLine DEF IInv
  <2> QED
    BY <1>1, <2>1, <2>2 DEF IInv
<1>4. CASE ReadBlock
  <2>1. kind = "block" /\ \E line \in Block!Lines : Block!ReadLine(line)
    BY <1>4 DEF ReadBlock, Read
  <2>2. BlockInv(reader')
    BY <2>1, BlockLine DEF IInv
  <2> QED
    BY <1>1, <2>1, <2>2 DEF IInv
<1>5. CASE ReadClass
  <2>1. kind = "class" /\ \E line \in Class!Lines : Class!ReadLine(line)
    BY <1>5 DEF ReadClass, Read
  <2>2. ClassInv(reader') /\ reader'.outcome # "parsed"
    BY <2>1, ClassLine, ClassStillReads DEF IInv
  <2> QED
    BY <1>1, <2>1, <2>2 DEF IInv
<1>6. CASE ReadSequence
  <2>1. kind = "sequence" /\ \E line \in Sequence!Lines : Sequence!ReadLine(line)
    BY <1>6 DEF ReadSequence, Read
  <2>2. SequenceInv(reader') /\ reader'.outcome # "parsed"
    BY <2>1, SequenceLine, SequenceStillReads DEF IInv
  <2> QED
    BY <1>1, <2>1, <2>2 DEF IInv
<1>7. CASE ReadState
  <2>1. kind = "state" /\ \E line \in State!Lines : State!ReadLine(line)
    BY <1>7 DEF ReadState, Read
  <2>2. StateInv(reader')
    BY <2>1, StateLine DEF IInv
  <2> QED
    BY <1>1, <2>1, <2>2 DEF IInv
<1> QED
  BY <1>2, <1>3, <1>4, <1>5, <1>6, <1>7

LEMMA FinishInv == ASSUME IInv, Finish PROVE IInv'
<1>1. kind' = kind /\ kind \in Kinds
  BY DEF IInv, Finish
<1>2. CASE kind = "activity" /\ Activity!Finish
  BY <1>1, <1>2, ActivityFinish DEF IInv
<1>3. CASE kind = "bits" /\ Bits!Finish
  BY <1>1, <1>3, BitsFinish DEF IInv
<1>4. CASE kind = "block" /\ Block!Finish
  BY <1>1, <1>4, BlockFinish DEF IInv
<1>5. CASE kind = "class" /\ Class!Finish
  BY <1>1, <1>5, ClassFinish DEF IInv
<1>6. CASE kind = "sequence" /\ Sequence!Finish
  BY <1>1, <1>6, SequenceFinish DEF IInv
<1>7. CASE kind = "state" /\ State!Finish
  BY <1>1, <1>7, StateFinish DEF IInv
<1> QED
  BY <1>2, <1>3, <1>4, <1>5, <1>6, <1>7 DEF Finish

LEMMA StepInv == IInv /\ [Next]_vars => IInv'
<1> SUFFICES ASSUME IInv, [Next]_vars PROVE IInv'
  OBVIOUS
<1>1. CASE ReadActivity \/ ReadBits \/ ReadBlock \/ ReadClass \/ ReadSequence \/ ReadState
  BY <1>1, LineInv
<1>2. CASE Finish
  BY <1>2, FinishInv
<1>3. CASE UNCHANGED vars
  <2>1. kind' = kind /\ reader' = reader
    BY <1>3 DEF vars
  <2> QED
    BY <2>1 DEF IInv
<1> QED
  BY <1>1, <1>2, <1>3 DEF Next

LEMMA ParsedFits == IInv => ParsedIsWellFormed
<1> SUFFICES ASSUME IInv, reader.outcome = "parsed"
             PROVE  CASE kind = "activity" -> Activity!WellFormed(reader)
                      [] kind = "bits"     -> Bits!WellFormed(reader)
                      [] kind = "block"    -> Block!WellFormed(reader)
                      [] kind = "class"    -> Class!WellFormed(reader)
                      [] kind = "sequence" -> Sequence!WellFormed(reader)
                      [] kind = "state"    -> State!WellFormed(reader)
  BY DEF ParsedIsWellFormed
<1>1. kind \in AllKinds
  BY KindsAssumption DEF IInv, AllKinds
<1>2. kind = "activity" => Activity!WellFormed(reader)
  BY ActivityWellFormed DEF IInv
<1>3. kind = "bits" => Bits!WellFormed(reader)
  BY BitsWellFormed DEF IInv
<1>4. kind = "block" => Block!WellFormed(reader)
  BY BlockWellFormed DEF IInv
<1>5. kind = "class" => Class!WellFormed(reader)
  BY ClassWellFormed DEF IInv
<1>6. kind = "sequence" => Sequence!WellFormed(reader)
  BY SequenceWellFormed DEF IInv
<1>7. kind = "state" => State!WellFormed(reader)
  BY StateWellFormed DEF IInv
<1> QED
  BY <1>1, <1>2, <1>3, <1>4, <1>5, <1>6, <1>7 DEF AllKinds

LEMMA NotesFit == IInv => NotesStandAtActions
BY DEF IInv, ActivityInv, LastIsAction, NotesStandAtActions, Activity!NoteHasAction

(* Whatever lines a text has, in whatever order: a reader that does not refuse it returns a   *)
(* diagram that is what the layout of its kind takes for granted (diagramparser.cpp and the    *)
(* six parsers it calls).                                                                      *)
THEOREM ParsedDiagramsAreWellFormed == Spec => []ParsedIsWellFormed
<1>1. Spec => []IInv
  BY InitInv, StepInv, PTL DEF Spec
<1> QED
  BY <1>1, ParsedFits, PTL

(* attachNote of activityparser.cpp takes the last element of the open block without looking:  *)
(* it is there, and it is an action, at every line and every depth.                            *)
THEOREM NotesAlwaysStandAtActions == Spec => []NotesStandAtActions
<1>1. Spec => []IInv
  BY InitInv, StepInv, PTL DEF Spec
<1> QED
  BY <1>1, NotesFit, PTL
=============================================================================
