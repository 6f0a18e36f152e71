------------------------------ MODULE AgentTurn ------------------------------
(***************************************************************************)
(* What the turn runner relies on in an AgentTurn                           *)
(* (cpp/chat/application/agentturn.h): the steps it is told of are started  *)
(* and finished once, a step of a tool within one of a delegation; the end  *)
(* is told once, with no step left open; nothing is told after it, and a    *)
(* session is told only with an answer.                                     *)
(***************************************************************************)
EXTENDS Naturals, FiniteSets

VARIABLES
  phase,    \* "idle", "running", or how the turn ended
  open,     \* the steps under way
  told      \* the turn has told its session

turnVars == <<phase, open, told>>

Ends == {"answered", "failed", "cancelled"}

Init ==
  /\ phase = "idle"
  /\ open = {}
  /\ told = FALSE

Start ==
  /\ phase \in {"idle"} \cup Ends
  /\ phase' = "running"
  /\ told' = FALSE
  /\ UNCHANGED open

(* A step is new, and at most one other is open: the one it belongs to.     *)
(* (Numbers grow with every step; only the relation of the two states is    *)
(* of use, so the step is not enumerated.)                                  *)
StepStarted ==
  /\ phase = "running"
  /\ Cardinality(open) <= 1
  /\ \E s \in open' :
       /\ \A t \in open : t < s
       /\ open' = open \cup {s}
  /\ UNCHANGED <<phase, told>>

(* The inner step ends before the one it belongs to. *)
StepFinished ==
  /\ phase = "running"
  /\ \E s \in open :
       /\ \A t \in open : t <= s
       /\ open' = open \ {s}
  /\ UNCHANGED <<phase, told>>

Answered ==
  /\ phase = "running"
  /\ open = {}
  /\ phase' = "answered"
  /\ told' \in BOOLEAN
  /\ UNCHANGED open

(* Steps that are under way are told as failed before the turn itself is. *)
Failed ==
  /\ phase = "running"
  /\ phase' \in {"failed", "cancelled"}
  /\ open' = {}
  /\ UNCHANGED told

Next == Start \/ StepStarted \/ StepFinished \/ Answered \/ Failed

Spec == Init /\ [][Next]_turnVars

(* Every turn that is started ends. *)
EverEnds == phase = "running" ~> phase \in Ends
=============================================================================
