------------------------------ MODULE ClaudeCli ------------------------------
(***************************************************************************)
(* The Claude command line tool as ClaudeStdioClient sees it: an external  *)
(* process that is started, fed over stdin, and writes JSON lines to a     *)
(* pipe the application reads.  Nothing here is code of the repository: it *)
(* is the environment, as cpp/agent/claudestdioclient.cpp and the fake CLI *)
(* of tests/agent use it.  The CLI is untrusted: it may stay silent, exit  *)
(* at any moment, answer without waiting for a tool result, or never exit. *)
(***************************************************************************)
EXTENDS Naturals, Sequences

CONSTANTS
  Calls,    \* ids of tool calls a CLI may make
  MaxPipe   \* bound: complete lines waiting in a stdout pipe

(* What a line of output is, once parsed.  A tool call is its own id. *)
Signals == {"init", "text", "answer", "failure", "missing"}
Lines == Calls \cup Signals

ASSUME CallsAssumption == Calls \cap Signals = {}
ASSUME MaxPipeAssumption == MaxPipe \in Nat \ {0}

(* A run starts one process, and a second one when it must reseed. *)
Procs == 1..2

VARIABLES
  status,  \* [Procs -> Statuses], the operating system's view of a process
  phase,   \* [Procs -> Phases], where a CLI is in its protocol
  pipe,    \* [Procs -> Seq(Lines)], stdout not yet read by the application
  fed,     \* the processes that were sent the initialize and user message
  called   \* [Procs -> SUBSET Calls], the tool calls a CLI has made

cliVars == <<status, phase, pipe, fed, called>>

(* "failed": it never started and errorOccurred is still to come; "dead":  *)
(* it ended and finished() is still to come; "gone": that signal was seen. *)
Statuses == {"unborn", "up", "failed", "dead", "gone"}
Phases == {"booting", "ready", "finished"}

CliTypeOK ==
  /\ status \in [Procs -> Statuses]
  /\ phase \in [Procs -> Phases]
  /\ pipe \in [Procs -> Seq(Lines)]
  /\ fed \in SUBSET Procs
  /\ called \in [Procs -> SUBSET Calls]

CliInit ==
  /\ status = [p \in Procs |-> "unborn"]
  /\ phase = [p \in Procs |-> "booting"]
  /\ pipe = [p \in Procs |-> << >>]
  /\ fed = {}
  /\ called = [p \in Procs |-> {}]

-----------------------------------------------------------------------------
Write(p, line) ==
  /\ status[p] = "up"
  /\ Len(pipe[p]) < MaxPipe
  /\ pipe' = [pipe EXCEPT ![p] = Append(@, line)]
  /\ UNCHANGED <<status, fed>>

(* The system/init line that names the session. *)
CliReady(p) ==
  /\ phase[p] = "booting"
  /\ p \in fed
  /\ Write(p, "init")
  /\ phase' = [phase EXCEPT ![p] = "ready"]
  /\ UNCHANGED called

(* A text delta, or any other line without an effect on the run. *)
CliText(p) ==
  /\ phase[p] = "ready"
  /\ Write(p, "text")
  /\ UNCHANGED <<phase, called>>

(* A tools/call control request, under a request id of its own. *)
CliCall(p, c) ==
  /\ phase[p] = "ready"
  /\ c \notin called[p]
  /\ Write(p, c)
  /\ called' = [called EXCEPT ![p] = @ \cup {c}]
  /\ UNCHANGED phase

(* The result line.  A CLI whose tool call timed out on its own side may   *)
(* write it while the application still works on the call.                 *)
CliAnswer(p) ==
  /\ phase[p] = "ready"
  /\ Write(p, "answer")
  /\ phase' = [phase EXCEPT ![p] = "finished"]
  /\ UNCHANGED called

CliFailure(p) ==
  /\ phase[p] # "finished"
  /\ Write(p, "failure")
  /\ phase' = [phase EXCEPT ![p] = "finished"]
  /\ UNCHANGED called

(* error_during_execution before any init line: the session is not there.  *)
CliMissing(p) ==
  /\ phase[p] = "booting"
  /\ Write(p, "missing")
  /\ phase' = [phase EXCEPT ![p] = "finished"]
  /\ UNCHANGED called

CliExit(p) ==
  /\ status[p] = "up"
  /\ status' = [status EXCEPT ![p] = "dead"]
  /\ UNCHANGED <<phase, pipe, fed, called>>

CliNext ==
  \E p \in Procs :
    \/ CliReady(p)
    \/ CliText(p)
    \/ \E c \in Calls : CliCall(p, c)
    \/ CliAnswer(p)
    \/ CliFailure(p)
    \/ CliMissing(p)
    \/ CliExit(p)

(* The statuses after SIGKILL reached the group of process p; p = 0 stands *)
(* for a null QProcess.                                                    *)
(* The mutant kills nothing.                                               *)
Spared(p) == status
Killed(p) ==
  [q \in Procs |-> IF q = p /\ status[q] = "up" THEN "dead" ELSE status[q]]

=============================================================================
