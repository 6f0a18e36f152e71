--------------------------- MODULE SkippedBlocks ---------------------------
(***************************************************************************)
(* The blocks of a diagram text that every reader steps over               *)
(* (src/cpp/diagram/parsersupport.cpp): comments, legends, styles and the  *)
(* skinparam blocks, the last of which end where their braces balance.  A  *)
(* line of text is a record: "is" names the statement it holds, the other  *)
(* fields are what the statement says.                                     *)
(***************************************************************************)
EXTENDS Integers

NoBlock == [name |-> "none", depth |-> 0]

IsOpen(block) == block # NoBlock

\* The braces a line opens less those it closes.
BraceBalance(line) ==
  CASE line.is = "close" -> -1
    [] "opens" \in DOMAIN line /\ line.opens -> 1
    [] OTHER -> 0

\* What is open after a line that starts a block: nothing when the block ends on its own line.
Started(line) ==
  IF line.closed THEN NoBlock ELSE [name |-> line.name, depth |-> 1]

\* What is open after a line inside the block.
Continued(block, line) ==
  LET depth == block.depth + BraceBalance(line)
      over  == \/ block.name = "skinparam" /\ depth <= 0
               \/ block.name # "skinparam" /\ line.is = "ends" /\ line.name = block.name
  IN  IF over THEN NoBlock
      ELSE IF block.name = "skinparam" THEN [block EXCEPT !.depth = depth] ELSE block

\* The lines that start or end a block of the given names.
BlockLines(names) ==
  [is : {"block"}, name : names, closed : BOOLEAN] \cup [is : {"ends"}, name : names]
=============================================================================
