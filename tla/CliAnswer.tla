----------------------------- MODULE CliAnswer ------------------------------
(***************************************************************************)
(* The client that asks the Claude CLI once per completion                 *)
(* (src/cpp/agent/claudecliclient.cpp): the process it starts, and the     *)
(* calls of tools it finds in the answer.  An answer is a sequence of      *)
(* tokens: prose, the name of a tool, braces, and keys with their values;  *)
(* "args" is a key whose value is the object that follows.  The texts are  *)
(* shorter than the 160 characters in which the client looks for a name.   *)
(* JSON and QProcess are external.                                         *)
(***************************************************************************)
EXTENDS Integers, Sequences, FiniteSets, SequencesExt

CONSTANT MaxTokens   \* the tokens of an answer

VARIABLE cli

Keys   == {"tool", "named", "field", "result"}   \* keys with a plain value: "named" is "name"
Tokens == {"prose", "the name", "{", "}", "args"} \cup Keys

\* The process: not started, running, ended, or one that never started; and whether the agent
\* has tools, whose names are then looked for.
Init == cli = [text |-> <<>>, process |-> "none", tools |-> FALSE, given |-> <<>>]

Depth(text) ==
  FoldLeft(LAMBDA depth, token : CASE token = "{" -> depth + 1 [] token = "}" -> depth - 1 [] OTHER -> depth,
           0, text)

\* Keys that stand together are written in one order, for it says nothing.
KeyOrder == <<"tool", "named", "field", "result">>
Precedes(key, other) == \E i, j \in 1..Len(KeyOrder) : i < j /\ KeyOrder[i] = key /\ KeyOrder[j] = other

\* What a model writes: prose outside objects, keys within them.
MayFollow(text, token) ==
  IF text # <<>> /\ Last(text) = "args" THEN token = "{"
  ELSE IF Depth(text) = 0
  THEN token \in {"prose", "the name", "{"} /\ (text # <<>> => token # Last(text))
  ELSE /\ token \notin {"prose", "the name"}
       /\ token = "{" => Last(text) = "{" /\ Depth(text) = 1
       /\ token \in Keys /\ Last(text) \in Keys => Precedes(Last(text), token)

-----------------------------------------------------------------------------
\* JSON: the keys of the object that a text is, and those of its arguments.

NoObject == [keys |-> {}, args |-> {}, hasArgs |-> FALSE]

\* An object of objects without a key is none, and an object ends where its text does.
IsObject(text) ==
  /\ Len(text) >= 2 /\ text[1] = "{" /\ Depth(text) = 0
  /\ \A i \in 1..(Len(text) - 1) : Depth(SubSeq(text, 1, i)) > 0
  /\ \A i \in 2..Len(text) : text[i] = "{" => text[i - 1] = "args"

KeysAt(text, depth) ==
  {text[i] : i \in {j \in 1..Len(text) : text[j] \in Keys \cup {"args"} /\ Depth(SubSeq(text, 1, j)) = depth}}

Object(text) ==
  IF ~IsObject(text) THEN NoObject
  ELSE [keys |-> KeysAt(text, 1) \ {"args"}, args |-> KeysAt(text, 2), hasArgs |-> "args" \in KeysAt(text, 1)]

IsEmpty(object) == object.keys = {} /\ ~object.hasArgs

-----------------------------------------------------------------------------
\* What is a call.

IsFabricatedAnswer(object) == "result" \in object.keys \cup object.args

\* A name in the object, beside its arguments, or among them.
NamesATool(object) ==
  \/ "tool" \in object.keys
  \/ "named" \in object.keys /\ object.args # {}
  \/ "tool" \in object.args

ToolCallFrom(object) == NamesATool(object) /\ ~IsFabricatedAnswer(object)

\* The arguments of a tool that was named before them; a name in an earlier object counts.
NamedBeforeObject(text, start, object, tools) ==
  /\ tools /\ ~IsEmpty(object) /\ "tool" \notin object.keys
  /\ \E i \in 1..(start - 1) : text[i] \in {"the name", "tool", "named"}

-----------------------------------------------------------------------------
\* The scan.

\* Where the object that begins at start is closed, 0 for nowhere.
ObjectEnd(text, start) ==
  LET ends == {i \in start..Len(text) : Depth(SubSeq(text, start, i)) = 0}
  IN  IF ends = {} THEN 0 ELSE CHOOSE i \in ends : \A j \in ends : i <= j

\* An object that lacks its last brace is taken up to the first place where one would make it
\* an object.
UnclosedEnd(text, start) ==
  LET ends == {i \in (start + 1)..Len(text) :
                 /\ text[i] = "}" /\ Depth(SubSeq(text, start, i)) = 1
                 /\ ~IsEmpty(Object(Append(SubSeq(text, start, i), "}")))}
  IN  IF ends = {} THEN 0 ELSE CHOOSE i \in ends : \A j \in ends : i <= j

NextBrace(text, from) ==
  LET braces == {i \in from..Len(text) : text[i] = "{"}
  IN  IF braces = {} THEN 0 ELSE CHOOSE i \in braces : \A j \in braces : i <= j

EndFrom(text, start, closed) == IF closed # 0 THEN closed ELSE UnclosedEnd(text, start)

\* The object is completed when its last brace is missing.
ObjectAt(text, start, end) ==
  Object(SubSeq(text, start, end) \o (IF Depth(SubSeq(text, start, end)) = 0 THEN <<>> ELSE <<"}">>))

IsCall(text, start, object, tools) ==
  ToolCallFrom(object) \/ NamedBeforeObject(text, start, object, tools)

IsCallAt(text, start, end, tools) == IsCall(text, start, ObjectAt(text, start, end), tools)

CallAt(start, end, calls) == [start |-> start, end |-> end, id |-> Len(calls) + 1]

\* Variant: the scan goes on behind the brace of a call, into its arguments.
RECURSIVE CallsIntoArguments(_, _, _, _)
CallsIntoArguments(text, start, calls, tools) ==
  LET end == EndFrom(text, start, ObjectEnd(text, start))
  IN  IF start = 0 \/ end = 0 THEN calls
      ELSE CallsIntoArguments(text, NextBrace(text, start + 1),
             IF IsCallAt(text, start, end, tools) THEN Append(calls, CallAt(start, end, calls)) ELSE calls,
             tools)

\* From brace to brace: behind an object that is a call, into one that is not.
RECURSIVE CallsFrom(_, _, _, _)
CallsFrom(text, start, calls, tools) ==
  LET end == EndFrom(text, start, ObjectEnd(text, start))
  IN  IF start = 0 \/ end = 0 THEN calls
      ELSE IF IsCallAt(text, start, end, tools)
      THEN CallsFrom(text, NextBrace(text, end + 1), Append(calls, CallAt(start, end, calls)), tools)
      ELSE CallsFrom(text, NextBrace(text, start + 1), calls, tools)

ToolCallsIn(text, tools) == CallsFrom(text, NextBrace(text, 1), <<>>, tools)

\* The calls are the answer when there are any, otherwise all of its text is.
CompletionFromAnswer(text, tools) ==
  LET calls == ToolCallsIn(text, tools)
  IN  IF calls # <<>> THEN [error |-> "", reason |-> "tool_calls", calls |-> calls, content |-> <<>>]
      ELSE [error |-> "", reason |-> "stop", calls |-> <<>>, content |-> text]

Failure(error) == [error |-> error, reason |-> "", calls |-> <<>>, content |-> <<>>]

CompletionFromOutput(text, tools, isError) ==
  IF text = <<>> \/ isError THEN Failure("server_error") ELSE CompletionFromAnswer(text, tools)

-----------------------------------------------------------------------------
\* The process.

Callback(process, completion) == cli' = [cli EXCEPT !.process = process, !.given = Append(@, completion)]

\* createCompletionAsync: without a CLI the callback comes at once.
Ask(available, tools) ==
  /\ cli.process = "none"
  /\ IF available THEN cli' = [cli EXCEPT !.process = "running", !.tools = tools]
     ELSE Callback("ended", Failure("network_error"))

\* The CLI writes its answer.
Write(token) ==
  /\ cli.process = "running" /\ cli.given = <<>>
  /\ Len(cli.text) < MaxTokens /\ MayFollow(cli.text, token)
  /\ cli' = [cli EXCEPT !.text = Append(@, token)]

Answered == cli.given # <<>>

\* It cannot be started, its pipe breaks, or it crashes; after a crash it has also finished.
ErrorOccurred(ends) ==
  /\ cli.process = "running"
  /\ LET process == IF ends THEN "crashed" ELSE "running"
     IN  IF Answered THEN ends /\ cli' = [cli EXCEPT !.process = process]
         ELSE Callback(process, Failure("network_error"))

Finished(isError) ==
  /\ cli.process \in {"running", "crashed"}
  /\ IF Answered THEN cli' = [cli EXCEPT !.process = "ended"]
     ELSE Callback("ended", CompletionFromOutput(cli.text, cli.tools, isError))

Next ==
  \/ \E available, tools \in BOOLEAN : Ask(available, tools)
  \/ \E token \in Tokens : Write(token)
  \/ \E ends \in BOOLEAN : ErrorOccurred(ends)
  \/ \E isError \in BOOLEAN : Finished(isError)

-----------------------------------------------------------------------------

\* A callback comes once, and has come when the process is no more.
AnsweredOnce ==
  Len(cli.given) <= 1 /\ (cli.process \in {"ended", "crashed"} => Len(cli.given) = 1)

\* The spans of the objects of a text, and the calls among them.
Spans(text) == {s \in (1..Len(text)) \X (1..Len(text)) : IsObject(SubSeq(text, s[1], s[2]))}
Within(inner, outer) == outer[1] < inner[1] /\ inner[2] < outer[2]
Outermost(spans) == {s \in spans : \A t \in spans : ~Within(s, t)}
SpansOf(calls) == {<<calls[i].start, calls[i].end>> : i \in 1..Len(calls)}

\* An answer to a call that the model invented, and its arguments.
IsInvented(object) ==
  LET keys == object.keys \cup object.args IN "result" \in keys /\ keys \cap {"tool", "named"} # {}
Invented(text)     == {s \in Spans(text) : IsInvented(Object(SubSeq(text, s[1], s[2])))}
OfInvented(span, text) == \E s \in Invented(text) : span = s \/ Within(span, s)

\* The calls of an answer whose braces match are the objects that call a tool and are not in the
\* arguments of another call, those of an invented answer apart; whatever the braces, no two
\* calls share a part of the answer.
AreTheOutermost(calls, text, tools) ==
  /\ Depth(text) = 0 =>
       {s \in SpansOf(calls) : ~OfInvented(s, text)}
         = Outermost({s \in Spans(text) : IsCallAt(text, s[1], s[2], tools) /\ ~OfInvented(s, text)})
  /\ \A i, j \in 1..Len(calls) : i < j => calls[i].end < calls[j].start

CallsAreTheOutermost == AreTheOutermost(ToolCallsIn(cli.text, cli.tools), cli.text, cli.tools)

\* An answer the model invented for a tool is not a call, and of its arguments only one that
\* names a tool itself, for an agent without tools.  With tools the code takes any object behind
\* the name of one for its arguments, and so those of an invented answer; that these are no
\* calls is not stated.
InventedIsNoCall ==
  ~cli.tools => \A s \in SpansOf(ToolCallsIn(cli.text, cli.tools)) :
    LET object == ObjectAt(cli.text, s[1], s[2])
    IN  /\ ~IsInvented(object)
        /\ OfInvented(s, cli.text) => "tool" \in object.keys

\* A call that lacks its last brace, as the last thing of an answer, is found.
BraceIsForgiven ==
  LET text == Append(cli.text, "}")
  IN  (IsObject(text) /\ cli.text # <<>> /\ Last(cli.text) = "}" /\ ToolCallFrom(Object(text))) =>
        Len(ToolCallsIn(cli.text, cli.tools)) = 1

AnswerIsUnderstood ==
  /\ AnsweredOnce
  /\ cli.process = "running" => CallsAreTheOutermost /\ InventedIsNoCall /\ BraceIsForgiven
=============================================================================
