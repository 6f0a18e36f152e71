--------------------------- MODULE LayeredLayout ---------------------------
(***************************************************************************)
(* Where the blocks, classes and states of a diagram stand                 *)
(* (src/cpp/diagram/layoutsupport.cpp, and layersOf of blocklayout.cpp,    *)
(* classlayout.cpp and statelayout.cpp): the items of one level are put in *)
(* layers by their links, a layer is broken into rows by the width there   *)
(* is, and the items of a row share what is left.  The diagram grows link  *)
(* by link; sizes are whole numbers, coordinates and routes are left out.  *)
(***************************************************************************)
EXTENDS Integers, Sequences, FiniteSets, SequencesExt

CONSTANT MaxLinks    \* the links of a diagram

VARIABLE flow

\* Item 4 of a block or state diagram stands inside item 3; classes are items 1 to 3.
Items      == 1..4
ParentOf   == <<0, 0, 0, 3>>
Natural    == <<4, 2, 6, 3>>
Minimal    == <<2, 2, 3, 1>>
Gap        == 1
SceneWidths == {2, 5, 8, 10, 14}

\* In a state diagram an item may be an initial or a final state; "turned" is a class relation
\* with the mark of the whole at its far end only.
Init ==
  \E kind \in {"block", "class", "state"}, first \in {"normal", "final"}, second \in {"normal", "initial"} :
    /\ kind # "state" => first = "normal" /\ second = "normal"
    /\ flow = [kind |-> kind, marks |-> <<first, second, "normal", "normal">>, links |-> <<>>]

AddLink(from, to, turned) ==
  /\ Len(flow.links) < MaxLinks
  /\ turned => flow.kind = "class"
  /\ flow.kind = "class" => 4 \notin {from, to}
  /\ from = to => from = 3    \* one loop stands for all
  /\ flow' = [flow EXCEPT !.links = Append(@, [from |-> from, to |-> to, turned |-> turned])]

Next == \E from, to \in Items, turned \in BOOLEAN : AddLink(from, to, turned)

\* The items of one level, in the order of the text; those of a class diagram are all of one level.
Siblings(inside) ==
  IF flow.kind = "class" THEN <<1, 2, 3>>
  ELSE SelectSeq(<<1, 2, 3, 4>>, LAMBDA item : ParentOf[item] = inside)

Levels == IF flow.kind = "class" THEN {0} ELSE {0, 3}

-----------------------------------------------------------------------------
\* The links of a level.

AncestorIn(item, siblings) ==
  LET level == ToSet(siblings)
  IN  IF item \in level THEN item
      ELSE IF ParentOf[item] \in level THEN ParentOf[item]
      ELSE 0

UpperIsFrom(link) == ~link.turned

\* The items of a level that a link joins, <<0, 0>> if it joins no two of them.  The ends of
\* a class relation are the classes themselves, for they all are of one level.
Joined(link, siblings) ==
  LET from == AncestorIn(IF UpperIsFrom(link) THEN link.from ELSE link.to, siblings)
      to   == AncestorIn(IF UpperIsFrom(link) THEN link.to ELSE link.from, siblings)
  IN  IF 0 \in {from, to} \/ from = to THEN <<0, 0>> ELSE <<from, to>>

\* For each item the items below it, each once, in the order of the links.
Successors(siblings) ==
  LET Add(successors, link) ==
        LET joined == Joined(link, siblings)
        IN  IF joined = <<0, 0>> \/ Contains(successors[joined[1]], joined[2]) THEN successors
            ELSE [successors EXCEPT ![joined[1]] = Append(@, joined[2])]
  IN  FoldLeft(Add, [item \in ToSet(siblings) |-> <<>>], flow.links)

HasIncoming(successors, item) == \E other \in DOMAIN successors : Contains(successors[other], item)

\* Classes nothing points to go first, and so do initial states.
GoesFirst(successors, item) ==
  CASE flow.kind = "block" -> TRUE
    [] flow.kind = "class" -> ~HasIncoming(successors, item)
    [] flow.kind = "state" -> flow.marks[item] = "initial"

VisitOrder(siblings, successors) ==
  SelectSeq(siblings, LAMBDA item : GoesFirst(successors, item))
    \o SelectSeq(siblings, LAMBDA item : ~GoesFirst(successors, item))

LinksAnother(item, siblings) ==
  \E i \in DOMAIN flow.links : item \in ToSet(Joined(flow.links[i], siblings))

-----------------------------------------------------------------------------
\* The layers.

RECURSIVE Visit(_, _, _)

\* The depth-first search: a link back to an item that is still being visited is dropped.
Visit(successors, item, search) ==
  LET Follow(found, next) ==
        IF found.state[next] = 1 THEN found
        ELSE LET kept == [found EXCEPT !.kept[item] = Append(@, next)]
             IN  IF found.state[next] = 0 THEN Visit(successors, next, kept) ELSE kept
      visited == FoldLeft(Follow, [search EXCEPT !.state[item] = 1], successors[item])
  IN  [visited EXCEPT !.state[item] = 2, !.finished = Append(@, item)]

Searched(successors, visitOrder) ==
  FoldLeft(LAMBDA search, item : IF search.state[item] = 0 THEN Visit(successors, item, search) ELSE search,
           [state |-> [item \in DOMAIN successors |-> 0],
            kept  |-> [item \in DOMAIN successors |-> <<>>],
            finished |-> <<>>],
           visitOrder)

\* What was finished last comes first: an item is put below everything that points to it.
LowerThan(search) ==
  LET Lower(layerOf, item) ==
        [next \in DOMAIN layerOf |->
           IF Contains(search.kept[item], next) /\ layerOf[next] <= layerOf[item]
           THEN layerOf[item] + 1 ELSE layerOf[next]]
  IN  FoldLeft(Lower, [item \in DOMAIN search.kept |-> 0], Reverse(search.finished))

LongestPathLayers(successors, visitOrder) == LowerThan(Searched(successors, visitOrder))

LayerOf(siblings, successors) == LongestPathLayers(successors, VisitOrder(siblings, successors))

GroupedByLayer(siblings, layerOf) ==
  LET Add(layers, item) ==
        LET filled == layers \o [i \in 1..(layerOf[item] + 1 - Len(layers)) |-> <<>>]
        IN  [filled EXCEPT ![layerOf[item] + 1] = Append(@, item)]
  IN  FoldLeft(Add, <<>>, siblings)

\* The final states of a layer come first.
FinalFirst(layer) ==
  LET Final(item) == flow.marks[item] = "final"
  IN  SelectSeq(layer, Final) \o SelectSeq(layer, LAMBDA item : ~Final(item))

FinalFirstIn(layers) == [i \in 1..Len(layers) |-> FinalFirst(layers[i])]

LayersOf(siblings, successors) == FinalFirstIn(GroupedByLayer(siblings, LayerOf(siblings, successors)))

-----------------------------------------------------------------------------
\* The rows of a layer.

Total(sizes, row) == FoldLeft(LAMBDA sum, item : sum + sizes[item], 0, row)

\* A layer with a linked item counts on its items being squeezed.
RowsOf(layer, siblings, maxWidth) ==
  LET sizes == IF \E i \in DOMAIN layer : LinksAnother(layer[i], siblings) THEN Minimal ELSE Natural
      Add(rows, item) ==
        IF rows # <<>> /\ Total(sizes, Last(rows)) + Gap * Len(Last(rows)) + sizes[item] <= maxWidth
        THEN Append(Front(rows), Append(Last(rows), item))
        ELSE Append(rows, <<item>>)
  IN  FoldLeft(Add, <<>>, layer)

\* The parts that a unit of width is cut into, so that the shares are whole.
Room(row) == Total(Natural, row) - Total(Minimal, row)
Parts(row) == IF Room(row) > 0 THEN Room(row) ELSE 1

\* The limits of a row, in parts: all get their natural width, or what is left above the minimal
\* ones in proportion to what they would like.
LimitsOf(row, maxWidth) ==
  LET budget == maxWidth - Gap * (Len(row) - 1)
      spare  == IF budget > Total(Minimal, row) THEN budget - Total(Minimal, row) ELSE 0
      whole  == Total(Natural, row) <= budget \/ Room(row) = 0
  IN  [i \in 1..Len(row) |->
         IF whole THEN Natural[row[i]] * Parts(row)
         ELSE Minimal[row[i]] * Parts(row) + spare * (Natural[row[i]] - Minimal[row[i]])]

-----------------------------------------------------------------------------

\* The items that links lead to from an item of a level.
Reached(successors, item) ==
  LET Grow(found, unused) == found \cup UNION {ToSet(successors[other]) : other \in found}
  IN  FoldLeft(Grow, ToSet(successors[item]), [i \in 1..Cardinality(DOMAIN successors) |-> i])

\* Every item of a level stands in one row, and no two that are linked stand beside one another.
\* A link goes down unless it is one of a cycle, and no item is lower than a link from the layer
\* above it puts it: without cycles a layer is the longest way to its items.
FollowTheLinks(at, successors) ==
  \A item \in DOMAIN successors :
    /\ \A next \in ToSet(successors[item]) :
         /\ at[next] # at[item]
         /\ at[next] < at[item] => item \in Reached(successors, next)
    /\ at[item] > 1 => \E other \in DOMAIN successors :
                         at[other] = at[item] - 1 /\ Contains(successors[other], item)

\* An initial state, the only one, is at the top if all that leads to it comes from itself.
BeginsAtTheTop(at, successors) ==
  \A item \in DOMAIN successors :
    /\ flow.kind = "state" /\ flow.marks[item] = "initial"
    /\ \A other \in DOMAIN successors :
         /\ Contains(successors[other], item) => other \in Reached(successors, item)
         /\ flow.marks[other] = "initial" => other = item
    => at[item] = 1

PlacesIn(layers, siblings) == [item \in ToSet(siblings) |-> CHOOSE i \in 1..Len(layers) : Contains(layers[i], item)]

LayersFollowTheLinks(layers, siblings, successors) ==
  /\ Len(FlattenSeq(layers)) = Len(siblings) /\ ToSet(FlattenSeq(layers)) = ToSet(siblings)
  /\ FollowTheLinks(PlacesIn(layers, siblings), successors)
  /\ BeginsAtTheTop(PlacesIn(layers, siblings), successors)

\* The rows have the items of their layer in order.  A row of several fits the width there is
\* and takes all of it that its items can use; nobody gets less than it needs at least.
FitsTheScene(limits, row, maxWidth) ==
  LET width == Total(limits, [i \in 1..Len(row) |-> i]) + Gap * (Len(row) - 1) * Parts(row)
  IN  /\ Len(row) > 1 => width <= maxWidth * Parts(row)
      /\ width < maxWidth * Parts(row) => \A i \in 1..Len(row) : limits[i] = Natural[row[i]] * Parts(row)
      /\ \A i \in 1..Len(row) : limits[i] >= Minimal[row[i]] * Parts(row) /\ limits[i] <= Natural[row[i]] * Parts(row)

RowsFitTheScene(rows, layer, maxWidth) ==
  /\ FlattenSeq(rows) = layer
  /\ \A row \in ToSet(rows) : FitsTheScene(LimitsOf(row, maxWidth), row, maxWidth)

LevelIsLaidOut(layers, siblings, successors) ==
  /\ LayersFollowTheLinks(layers, siblings, successors)
  /\ \A maxWidth \in SceneWidths : \A layer \in ToSet(layers) :
       RowsFitTheScene(RowsOf(layer, siblings, maxWidth), layer, maxWidth)

LevelsAreLaidOut ==
  \A inside \in Levels : \A siblings \in {Siblings(inside)} : \A successors \in {Successors(siblings)} :
    LevelIsLaidOut(LayersOf(siblings, successors), siblings, successors)
=============================================================================
