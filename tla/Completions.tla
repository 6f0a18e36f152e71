----------------------------- MODULE Completions -----------------------------
(***************************************************************************)
(* What an Agent may rely on when it talks to a Client (cpp/agent/client.h, *)
(* createCompletionAsync): a completion it asks for arrives through the     *)
(* callback once, at once or later; no second ask is open next to the      *)
(* first; and a client that was closed calls nobody.                       *)
(***************************************************************************)
EXTENDS Naturals, Sequences

CONSTANTS
  MaxAsks,  \* bound: asks made of one client
  Replies   \* the completions a client can produce

VARIABLES
  asks,     \* asks made so far
  pending,  \* the ask whose callback the client holds, 0 when none
  replies,  \* [1..MaxAsks -> Seq(Replies)]
  closed    \* the client was destroyed

vars == <<asks, pending, replies, closed>>

Init ==
  /\ asks = 0
  /\ pending = 0
  /\ replies = [a \in 1..MaxAsks |-> << >>]
  /\ closed = FALSE

(* The client keeps the callback. *)
Accept ==
  /\ ~closed
  /\ pending = 0
  /\ asks < MaxAsks
  /\ asks' = asks + 1
  /\ pending' = asks + 1
  /\ UNCHANGED <<replies, closed>>

(* The client calls back before createCompletionAsync returns; an ask that *)
(* is already open stays open.                                             *)
AnswerAtOnce ==
  /\ ~closed
  /\ asks < MaxAsks
  /\ asks' = asks + 1
  /\ \E r \in Replies : replies' = [replies EXCEPT ![asks + 1] = Append(@, r)]
  /\ UNCHANGED <<pending, closed>>

Answer ==
  /\ pending # 0
  /\ \E r \in Replies : replies' = [replies EXCEPT ![pending] = Append(@, r)]
  /\ pending' = 0
  /\ UNCHANGED <<asks, closed>>

Close ==
  /\ ~closed
  /\ closed' = TRUE
  /\ pending' = 0
  /\ UNCHANGED <<asks, replies>>

Next == Accept \/ AnswerAtOnce \/ Answer \/ Close

Spec == Init /\ [][Next]_vars
FairSpec == Spec /\ WF_vars(Answer)
=============================================================================
