---------------------------- MODULE UiAutomation ----------------------------
(***************************************************************************)
(* The server that lets tests drive the app's user interface               *)
(* (src/cpp/automation/uiautomationserver.cpp): one connection, whose      *)
(* lines are commands, and a small scene.  A line is two pieces of the     *)
(* stream, the second one with its newline.  The Qt side is external: the  *)
(* objects and where they are, mouse and key events, the input method.     *)
(* Both axes of a scroll are alike, the model has one.  "last" remembers   *)
(* the last command and what it found.                                     *)
(***************************************************************************)
EXTENDS Integers, Sequences, FiniteSets, SequencesExt

CONSTANT MaxLines   \* the lines of a connection

VARIABLE ui

-----------------------------------------------------------------------------
\* The scene: a window with a list of two rows of one name, a timer in the second, and a button
\* that the window owns and an unnamed part of the list shows.

Nodes == 1..7
Window == 1   List == 2   Button == 6   Timer == 7
Names == <<"", "list", "row", "row", "", "button", "timer">>
NameOf(node) == Names[node]
IsItem(node) == node \notin {Window, Timer}

Owned  == <<<<2, 6>>, <<3, 4, 5>>, <<>>, <<7>>, <<>>, <<>>, <<>>>>
Shown  == <<<<>>, <<3, 4, 5>>, <<>>, <<>>, <<6>>, <<>>, <<>>>>
ParentItem == <<0, 0, 2, 2, 2, 5, 0>>

Viewport == 4
Margin   == 1
Height(node) == IF node = Button THEN 2 ELSE 1

\* The tiles of a word puzzle, as the letters they bear; the last tile confirms.
Pieces == <<<<"a">>, <<"a", "b">>, <<"b", "c">>>>
Words  == {<<"a", "b">>, <<"a", "b", "a">>, <<"a", "b", "c">>, <<"c">>}

Scene(content, top) ==
  [hidden |-> {}, collapsed |-> {}, pos |-> 0, content |-> content, top |-> top,
   pressed |-> FALSE, path |-> <<>>, clicked |-> 0, focused |-> FALSE, mocked |-> FALSE, day |-> 0]

NoCommand == [cmd |-> "none", name |-> "", arg |-> 0, fine |-> TRUE]
Init ==
  \E content \in {4, 9}, top \in {0, 2, 7} :
    /\ top + Height(Button) <= content
    /\ ui = [scene |-> Scene(content, top), wire |-> <<>>, buffer |-> <<>>, sent |-> <<>>,
             answers |-> <<>>, last |-> [command |-> NoCommand, ok |-> TRUE, scene |-> Scene(content, top)]]

RECURSIVE Ancestors(_)
Ancestors(node) ==
  IF ParentItem[node] = 0 THEN {} ELSE {ParentItem[node]} \cup Ancestors(ParentItem[node])

\* childObjects: what an object owns, then what it shows besides.
ChildObjects(node) ==
  Owned[node] \o SelectSeq(Shown[node], LAMBDA child : ~Contains(Owned[node], child))

\* An item is not seen when it or one it stands in is hidden, or one clips it to nothing.
IsEffectivelyVisible(scene, node) ==
  /\ ({node} \cup Ancestors(node)) \cap scene.hidden = {}
  /\ Ancestors(node) \cap scene.collapsed = {}

\* The first object of that name, depth first; hidden items are passed by.
RECURSIVE FindNamed(_, _, _)
FindNamed(scene, node, name) ==
  IF NameOf(node) = name /\ (IsItem(node) => IsEffectivelyVisible(scene, node)) THEN node
  ELSE LET found == SelectSeq(ChildObjects(node), LAMBDA child : FindNamed(scene, child, name) # 0)
       IN  IF found = <<>> THEN 0 ELSE FindNamed(scene, found[1], name)

FindByObjectName(scene, name) == FindNamed(scene, Window, name)

\* Variant: an object that is owned and shown in two places is listed in both.
RECURSIVE CollectNamedTwice(_, _, _, _)
CollectNamedTwice(scene, node, under, state) ==
  FoldLeft(LAMBDA s, child :
             IF IsItem(child) /\ ~IsEffectivelyVisible(scene, child) THEN s
             ELSE IF NameOf(child) = "" THEN CollectNamedTwice(scene, child, under, s)
             ELSE CollectNamedTwice(scene, child, child,
                                    [s EXCEPT !.listed = Append(@, [node |-> child, under |-> under])]),
           state, ChildObjects(node))

\* The named objects below one, each under the nearest named one; none is visited twice and
\* what is below a hidden item is not looked at.
RECURSIVE CollectNamed(_, _, _, _)
CollectNamed(scene, node, under, state) ==
  FoldLeft(LAMBDA s, child :
             LET seen == [s EXCEPT !.visited = @ \cup {child}]
             IN  IF child \in s.visited THEN s
                 ELSE IF IsItem(child) /\ ~IsEffectivelyVisible(scene, child) THEN seen
                 ELSE IF NameOf(child) = "" THEN CollectNamed(scene, child, under, seen)
                 ELSE CollectNamed(scene, child, child,
                                   [seen EXCEPT !.listed = Append(@, [node |-> child, under |-> under])]),
           state, ChildObjects(node))

Dump(scene) == CollectNamed(scene, Window, Window, [listed |-> <<>>, visited |-> {Window}]).listed

IsScrollable(scene) == scene.content > Viewport
Clamped(value, most) == IF value < 0 THEN 0 ELSE IF value > most THEN most ELSE value

\* scrollIntoView: the list moves as far as brings the item and a margin into its viewport.
TopInViewport(scene, node) == (IF node = Button THEN scene.top ELSE 0) - scene.pos
ScrolledIntoView(scene, node) ==
  LET start == TopInViewport(scene, node)
      delta == IF start < Margin THEN start - Margin
               ELSE IF start + Height(node) > Viewport - Margin THEN start + Height(node) - Viewport + Margin
               ELSE 0
  IN  IF List \notin Ancestors(node) \/ ~IsScrollable(scene) THEN scene
      ELSE [scene EXCEPT !.pos = Clamped(scene.pos + delta, scene.content - Viewport)]

-----------------------------------------------------------------------------
\* The commands.  Each gives its answer and the scene after it.

MakeOk(scene) == [ok |-> TRUE, scene |-> scene]
MakeError(scene) == [ok |-> FALSE, scene |-> scene]

\* The first command about the time puts a mock clock in place, which stands at the present.
EnsureMockTime(scene) == [scene EXCEPT !.mocked = TRUE]

SetTime(scene, command) ==
  LET mocked == EnsureMockTime(scene)
  IN  IF command.fine THEN MakeOk([mocked EXCEPT !.day = command.arg]) ELSE MakeError(mocked)
AdvanceTime(scene, command) ==
  IF ~command.fine THEN MakeError(scene)
  ELSE MakeOk([EnsureMockTime(scene) EXCEPT !.day = @ + command.arg])
ResetTime(scene) == MakeOk([scene EXCEPT !.mocked = FALSE, !.day = 0])

\* A press and a release at the middle of the item, once it is in view.
Click(scene, command) ==
  LET target == FindByObjectName(scene, command.name)
      there  == ScrolledIntoView(scene, target)
  IN  IF target = 0 \/ ~IsItem(target) THEN MakeError(scene)
      ELSE MakeOk([there EXCEPT !.pressed = FALSE, !.clicked = target, !.path = <<>>])

ScrollTo(scene, command) ==
  LET target == FindByObjectName(scene, command.name)
  IN  IF target = 0 \/ ~IsItem(target) THEN MakeError(scene)
      ELSE MakeOk(ScrolledIntoView(scene, target))

\* findFlickable: the object itself or one below it, one that can scroll rather than one that
\* cannot.  The scene has one.
FindFlickable(target) == target \in {Window, List}
Scroll(scene, command) ==
  LET target == FindByObjectName(scene, command.name)
      most   == IF IsScrollable(scene) THEN scene.content - Viewport ELSE 0
  IN  IF target = 0 \/ ~FindFlickable(target) THEN MakeError(scene)
      ELSE MakeOk([scene EXCEPT !.pos = Clamped(@ + command.arg, most)])

Get(scene, command) ==
  IF FindByObjectName(scene, command.name) = 0 THEN MakeError(scene) ELSE MakeOk(scene)

\* A property that the object has not, or a value it does not take, is refused; the model sets
\* "visible".
Set(scene, command) ==
  LET target == FindByObjectName(scene, command.name)
  IN  IF target = 0 \/ ~IsItem(target) \/ ~command.fine THEN MakeError(scene)
      ELSE MakeOk([scene EXCEPT !.hidden = IF command.arg = 0 THEN @ \cup {target} ELSE @ \ {target}])

\* A method is called when there is one of that name with as many parameters, and every
\* argument converts; the model's method collapses the item.
Invoke(scene, command) ==
  LET target == FindByObjectName(scene, command.name)
  IN  IF target = 0 \/ ~command.fine THEN MakeError(scene)
      ELSE MakeOk([scene EXCEPT !.collapsed = @ \cup {target}])

Tap(scene) == MakeOk([scene EXCEPT !.pressed = FALSE, !.clicked = 0])

\* A press, moves along the points, and a release unless it is told to hold.
Drag(scene, command) ==
  IF command.arg < 2 THEN MakeError(scene)
  ELSE MakeOk([scene EXCEPT !.pressed = ~command.fine, !.path = <<>>])

Mouse(scene, command) ==
  CASE command.name = "press"   -> MakeOk([scene EXCEPT !.pressed = TRUE])
    [] command.name = "release" -> MakeOk([scene EXCEPT !.pressed = FALSE])
    [] command.name = "move"    -> MakeOk(scene)
    [] OTHER -> MakeError(scene)

\* A window without focus is given it before the key is looked at.
Key(scene, command) ==
  LET focused == [scene EXCEPT !.focused = TRUE]
  IN  IF command.fine THEN MakeOk(focused) ELSE MakeError(focused)

\* The tiles that spell a word: at each place the longest unused one that goes on with it.
RECURSIVE TilesFor(_, _, _)
TilesFor(word, at, used) ==
  LET GoesOn(i) == /\ i \notin used /\ at + Len(Pieces[i]) <= Len(word) + 1
                   /\ SubSeq(word, at, at + Len(Pieces[i]) - 1) = Pieces[i]
      fit  == {i \in 1..Len(Pieces) : GoesOn(i)}
      best == CHOOSE i \in fit : \A j \in fit :
                Len(Pieces[j]) < Len(Pieces[i]) \/ (Len(Pieces[j]) = Len(Pieces[i]) /\ i <= j)
  IN  IF at > Len(word) THEN <<>>
      ELSE IF fit = {} THEN <<0>>
      ELSE <<best>> \o TilesFor(word, at + Len(Pieces[best]), used \cup {best})

SwipeWord(scene, command) ==
  LET tiles == TilesFor(command.arg, 1, {})
  IN  IF Contains(tiles, 0) THEN MakeError(scene)
      ELSE MakeOk([scene EXCEPT !.pressed = FALSE, !.path = tiles])

\* handleCommand.
HandleCommand(scene, command) ==
  CASE command.cmd = "set_time"     -> SetTime(scene, command)
    [] command.cmd = "advance_time" -> AdvanceTime(scene, command)
    [] command.cmd = "reset_time"   -> ResetTime(scene)
    [] command.cmd = "click"        -> Click(scene, command)
    [] command.cmd = "scrollto"     -> ScrollTo(scene, command)
    [] command.cmd = "scroll"       -> Scroll(scene, command)
    [] command.cmd = "get"          -> Get(scene, command)
    [] command.cmd = "set"          -> Set(scene, command)
    [] command.cmd = "invoke"       -> Invoke(scene, command)
    [] command.cmd = "tap"          -> Tap(scene)
    [] command.cmd = "drag"         -> Drag(scene, command)
    [] command.cmd = "mouse"        -> Mouse(scene, command)
    [] command.cmd = "key"          -> Key(scene, command)
    [] command.cmd = "swipeword"    -> SwipeWord(scene, command)
    [] command.cmd \in {"ping", "dump"} -> MakeOk(scene)
    [] OTHER -> MakeError(scene)

Command(cmd, names, args, fines) ==
  {[cmd |-> cmd, name |-> n, arg |-> a, fine |-> f] : n \in names, a \in args, f \in fines}

SomeNames == {"list", "row", "button", "timer", "nobody"}
Commands ==
  Command("set_time", {""}, {1}, BOOLEAN) \cup Command("advance_time", {""}, {1}, BOOLEAN)
    \cup Command("reset_time", {""}, {0}, {TRUE})
    \cup Command("click", SomeNames, {0}, {TRUE}) \cup Command("scrollto", {"button"}, {0}, {TRUE})
    \cup Command("scroll", {"list", "row"}, {-2, 3}, {TRUE}) \cup Command("get", SomeNames, {0}, {TRUE})
    \cup Command("set", {"row", "list"}, {0}, BOOLEAN) \cup Command("invoke", {"list", "row"}, {0}, BOOLEAN)
    \cup Command("tap", {""}, {0}, {TRUE}) \cup Command("drag", {""}, {1, 2}, BOOLEAN)
    \cup Command("mouse", {"press", "release", "move", "wave"}, {0}, {TRUE})
    \cup Command("key", {""}, {0}, BOOLEAN) \cup Command("swipeword", {""}, Words, {TRUE})
    \cup Command("dump", {""}, {0}, {TRUE}) \cup Command("blank", {""}, {0}, {TRUE})
    \cup Command("garbage", {""}, {0}, {TRUE})

-----------------------------------------------------------------------------

\* The client writes a line.
Send(command) ==
  /\ Len(ui.sent) < MaxLines
  /\ LET n == Len(ui.sent) + 1
     IN  ui' = [ui EXCEPT !.sent = Append(@, command),
                          !.wire = @ \o <<[line |-> n, end |-> FALSE], [line |-> n, end |-> TRUE]>>]

\* onReadyRead: what arrived joins the buffer; every line that is complete is answered in turn,
\* but for a blank one, and the rest stays.
Answered(state) ==
  FoldLeft(LAMBDA s, piece :
             LET command == s.sent[piece.line]
                 answer  == HandleCommand(s.scene, command)
             IN  IF ~piece.end \/ command.cmd = "blank" THEN s
                 ELSE [s EXCEPT !.answers = Append(@, piece.line), !.scene = answer.scene,
                                !.last = [command |-> command, ok |-> answer.ok, scene |-> s.scene]],
           state, state.buffer)

Complete(pieces) ==
  LET ends == {i \in 1..Len(pieces) : pieces[i].end}
  IN  IF ends = {} THEN 0 ELSE CHOOSE i \in ends : \A j \in ends : j <= i

ReadyRead(count) ==
  LET buffer == ui.buffer \o SubSeq(ui.wire, 1, count)
      whole  == Complete(buffer)
      after  == Answered([ui EXCEPT !.buffer = SubSeq(buffer, 1, whole)])
  IN  /\ count <= Len(ui.wire)
      /\ ui' = [after EXCEPT !.wire = SubSeq(@, count + 1, Len(@)),
                             !.buffer = SubSeq(buffer, whole + 1, Len(buffer))]

Next ==
  \/ \E command \in Commands : Send(command)
  \/ \E count \in 1..(2 * MaxLines) : ReadyRead(count)

-----------------------------------------------------------------------------

\* However the stream is cut, every line that arrived whole was answered once and in order, and
\* what is kept of it is the beginning of the next one.
LinesAreAnswered ==
  LET waiting == {ui.wire[i].line : i \in {j \in 1..Len(ui.wire) : ui.wire[j].end}}
      due     == SelectSeq([i \in 1..Len(ui.sent) |-> i],
                           LAMBDA n : n \notin waiting /\ ui.sent[n].cmd # "blank")
  IN  ui.answers = due /\ Len(ui.buffer) <= 1

\* A dump lists every item that can be seen and has a name, once; and a name is found by a
\* command exactly when it is listed.
DumpListsWhatIsFound ==
  LET listed == Dump(ui.scene)
      nodes  == {listed[i].node : i \in 1..Len(listed)}
  IN  /\ \A i, j \in 1..Len(listed) : listed[i].node = listed[j].node => i = j
      /\ \A node \in Nodes : IsItem(node) /\ NameOf(node) # "" =>
           (node \in nodes <=> IsEffectivelyVisible(ui.scene, node))
      /\ \A name \in {"list", "row", "button"} :
           FindByObjectName(ui.scene, name) # 0 <=> \E node \in nodes : NameOf(node) = name

\* An item that was clicked was all in view, and a swipe spells its word with tiles of its own.
ReachesItsTarget ==
  LET command == ui.last.command
  IN  ui.last.ok =>
        /\ command.cmd \in {"click", "scrollto"} /\ command.name = "button" =>
             LET top == TopInViewport(ui.scene, Button)
             IN  0 <= top /\ top + Height(Button) <= Viewport
        /\ command.cmd = "swipeword" =>
             /\ FlattenSeq([i \in 1..Len(ui.scene.path) |-> Pieces[ui.scene.path[i]]]) = command.arg
             /\ IsInjective(ui.scene.path)

\* A command that is answered with an error moved nothing, hid nothing, clicked nothing and set
\* no time.  Two effects of a refused command are left out, and described here as they are: a
\* set_time without a good time has put the mock clock in place, so the time stands still from
\* then on, and a key that is not known has given the window the focus.
ErrorsMoveNothing ==
  LET before == ui.last.scene
      cmd    == ui.last.command.cmd
  IN  ~ui.last.ok =>
        /\ ui.scene = [before EXCEPT !.mocked = ui.scene.mocked, !.focused = ui.scene.focused]
        /\ ui.scene.mocked = (before.mocked \/ cmd = "set_time")
        /\ ui.scene.focused = (before.focused \/ cmd = "key")

TestsSeeTheApp == LinesAreAnswered /\ DumpListsWhatIsFound /\ ReachesItsTarget /\ ErrorsMoveNothing
=============================================================================
