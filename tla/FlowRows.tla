------------------------------ MODULE FlowRows ------------------------------
(***************************************************************************)
(* Chips in rows (src/cpp/qmlutils/flowrowsmodel.cpp, flowrowlayout.cpp):  *)
(* a list model that packs the items of another model into the rows of a   *)
(* view.  Changes of the source that move chips are gathered in one        *)
(* rebuild, which the event loop runs later; others go to the view at      *)
(* once.  An item is its text, as the width of it, whether it bears an     *)
(* icon, and a mark that changes often.  The view is external: it reads    *)
(* rows when it likes, and forgets what a signal tells it has changed.     *)
(***************************************************************************)
EXTENDS Integers, Sequences, FiniteSets, SequencesExt

CONSTANTS
  MaxItems,  \* the items of the source
  MaxSteps   \* the steps of a run

VARIABLE flow

Item(text, icon, mark) == [text |-> text, icon |-> icon, mark |-> mark]
Items == {Item(text, icon, FALSE) : text \in 1..2, icon \in BOOLEAN}
Blank == Item(0, FALSE, FALSE)   \* what an index without an item has
Nothing == [row \in {} |-> Blank]
Absent(function, rows) == [row \in DOMAIN function \ rows |-> function[row]]
With(function, row, value) == [r \in DOMAIN function \cup {row} |-> IF r = row THEN value ELSE function[r]]

\* The layout: the items as they were measured, and the rows they were packed into.
NoLayout == [items |-> <<>>, natural |-> <<>>, widths |-> <<>>, rows |-> <<>>, memo |-> Nothing,
             font |-> 1, spacing |-> 0, container |-> 0]
NoRows == [chips |-> Nothing, states |-> Nothing]

Init ==
  flow = [source |-> <<>>, alive |-> TRUE, layout |-> NoLayout, lines |-> TRUE, extra |-> 0,
          pending |-> FALSE, cache |-> NoRows, shown |-> NoRows, steps |-> 0]

-----------------------------------------------------------------------------
\* FlowRowLayout.

\* Texts are measured once for a font; the memo is by text.
Measure(layout) ==
  LET Widen(state, item) ==
        LET width == IF item.text \in DOMAIN state.memo THEN state.memo[item.text] ELSE item.text * layout.font
        IN  [memo |-> With(state.memo, item.text, width), natural |-> Append(state.natural, width + item.extra)]
      all == FoldLeft(Widen, [memo |-> layout.memo, natural |-> <<>>], layout.items)
  IN  [layout EXCEPT !.memo = all.memo, !.natural = all.natural]

\* Item by item into the row while it fits; an item wider than the container is cut to it.
Wraps(layout) == layout.container > 0
WidthIn(layout, natural) ==
  IF Wraps(layout) /\ layout.container < natural THEN layout.container ELSE natural

Row(first) == [first |-> first, count |-> 0, width |-> 0]
Pack(layout) ==
  LET widths == [i \in 1..Len(layout.natural) |-> WidthIn(layout, layout.natural[i])]
      Place(state, i) ==
        LET breaks == Wraps(layout) /\ state.x > 0 /\ state.x + widths[i] > layout.container
            closed == [state.current EXCEPT !.width = state.x - layout.spacing]
            row    == IF breaks THEN Row(i) ELSE state.current
        IN  [rows    |-> IF breaks THEN Append(state.rows, closed) ELSE state.rows,
             current |-> [row EXCEPT !.count = @ + 1],
             x       |-> (IF breaks THEN 0 ELSE state.x) + widths[i] + layout.spacing]
      all == FoldLeft(Place, [rows |-> <<>>, current |-> Row(1), x |-> 0], [i \in 1..Len(widths) |-> i])
  IN  [layout EXCEPT
         !.widths = widths,
         !.rows   = IF widths = <<>> THEN <<>>
                    ELSE Append(all.rows, [all.current EXCEPT !.width = all.x - layout.spacing])]

\* The row of an item of the layout, 0 for none.
RowOfItem(layout, item) ==
  IF item \notin 1..Len(layout.widths) THEN 0
  ELSE Len(SelectSeq(layout.rows, LAMBDA row : row.first <= item))

-----------------------------------------------------------------------------
\* What a row shows: read from the source at the place the layout has for it.

SourceItem(i) == IF flow.alive /\ i <= Len(flow.source) THEN flow.source[i] ELSE Blank
Places(row) == [n \in 1..row.count |-> row.first + n - 1]
BuildChips(row) ==
  IF ~flow.alive THEN <<>>
  ELSE [n \in 1..row.count |->
          [text |-> SourceItem(Places(row)[n]).text, at |-> Places(row)[n],
           width |-> flow.layout.widths[Places(row)[n]]]]
BuildChipStates(row) ==
  IF ~flow.alive THEN <<>> ELSE [n \in 1..row.count |-> SourceItem(Places(row)[n]).mark]

Cached(cache, row, built) == IF row \in DOMAIN cache THEN cache[row] ELSE built

\* data(): the view reads a row.
Data(r) ==
  /\ r <= Len(flow.layout.rows)
  /\ LET row    == flow.layout.rows[r]
         chips  == Cached(flow.cache.chips, r, BuildChips(row))
         states == Cached(flow.cache.states, r, BuildChipStates(row))
     IN  flow' = [flow EXCEPT
           !.cache = [chips |-> With(@.chips, r, chips), states |-> With(@.states, r, states)],
           !.shown = [chips |-> With(@.chips, r, chips), states |-> With(@.states, r, states)]]

\* The model is reset: the view forgets everything, and so do the caches.
Reset(state, layout) == [state EXCEPT !.layout = layout, !.cache = NoRows, !.shown = NoRows]

\* The caches of the marks of some rows are dropped and the view is told.
StatesChanged(state, rows) ==
  [state EXCEPT !.cache.states = Absent(@, rows), !.shown.states = Absent(@, rows)]
ChipsChanged(state, rows) ==
  [state EXCEPT !.cache.chips = Absent(@, rows), !.shown.chips = Absent(@, rows)]

AllRows == 1..Len(flow.layout.rows)

-----------------------------------------------------------------------------

ScheduleRebuild(state) == [state EXCEPT !.pending = TRUE]
Step(state) == flow' = [state EXCEPT !.steps = flow.steps + 1]
MaySet == flow.steps < MaxSteps

\* What goes into the measuring is looked up anew for every item, an unknown role is no text.
Measured(items) ==
  [i \in 1..Len(items) |->
     [text |-> IF flow.lines THEN items[i].text ELSE 0, extra |-> IF items[i].icon THEN flow.extra ELSE 0]]

PerformRebuild ==
  /\ flow.pending
  /\ LET rebuilt == IF flow.alive
                    THEN Pack(Measure([flow.layout EXCEPT !.items = Measured(flow.source)]))
                    ELSE [flow.layout EXCEPT !.items = <<>>, !.natural = <<>>, !.widths = <<>>, !.rows = <<>>]
     IN  flow' = Reset([flow EXCEPT !.pending = FALSE], rebuilt)

\* The fonts go to the layout at once, which packs its rows again; the view is told later.
SetLineFonts(font) ==
  /\ MaySet /\ font # flow.layout.font
  /\ Step(ScheduleRebuild([flow EXCEPT
            !.layout = Pack(Measure([@ EXCEPT !.font = font, !.memo = Nothing]))]))

\* Roles and widths that items are measured by.
SetLineRoles(lines) ==
  MaySet /\ lines # flow.lines /\ Step(ScheduleRebuild([flow EXCEPT !.lines = lines]))
SetExtraWidth(extra) ==
  MaySet /\ extra # flow.extra /\ Step(ScheduleRebuild([flow EXCEPT !.extra = extra]))

\* The width and the spacing pack the rows again at once.
SetContainerWidth(container) ==
  /\ MaySet /\ container # flow.layout.container
  /\ Step(Reset(flow, Pack([flow.layout EXCEPT !.container = container])))
SetSpacing(spacing) ==
  /\ MaySet /\ spacing # flow.layout.spacing
  /\ Step(Reset(flow, Pack([flow.layout EXCEPT !.spacing = spacing])))

\* Other roles of the chips than before: all rows are read again.
SetVolatileRoles == MaySet /\ Step(StatesChanged(flow, AllRows))
SetItemRoles     == MaySet /\ Step(ChipsChanged(flow, AllRows))

-----------------------------------------------------------------------------
\* The source changes.

Insert(i, item) ==
  /\ MaySet /\ flow.alive /\ Len(flow.source) < MaxItems /\ i <= Len(flow.source) + 1
  /\ Step(ScheduleRebuild([flow EXCEPT !.source = InsertAt(@, i, item)]))

Erase(i) ==
  /\ MaySet /\ flow.alive /\ i <= Len(flow.source)
  /\ Step(ScheduleRebuild([flow EXCEPT !.source = RemoveAt(@, i)]))

\* Variant: only the first of the rows is read again.
SourceDataChangedInOneRow(state, first, last, measured) ==
  LET firstRow == RowOfItem(state.layout, first)
      lastRow  == RowOfItem(state.layout, last)
  IN  IF measured THEN ScheduleRebuild(state)
      ELSE IF firstRow = 0 \/ lastRow = 0 THEN state ELSE StatesChanged(state, {firstRow})

\* onSourceDataChanged: what is measured needs a rebuild, anything else is only read again.
\* Items the layout has not placed yet are not looked for.
SourceDataChanged(state, first, last, measured) ==
  LET firstRow == RowOfItem(state.layout, first)
      lastRow  == RowOfItem(state.layout, last)
  IN  IF measured THEN ScheduleRebuild(state)
      ELSE IF firstRow = 0 \/ lastRow = 0 THEN state ELSE StatesChanged(state, firstRow..lastRow)

Mark(first, last) ==
  /\ MaySet /\ flow.alive /\ first <= last /\ last <= Len(flow.source)
  /\ Step(SourceDataChanged(
            [flow EXCEPT !.source = [i \in 1..Len(@) |-> IF i \in first..last THEN [@[i] EXCEPT !.mark = ~@] ELSE @[i]]],
            first, last, FALSE))

Rename(i, text) ==
  /\ MaySet /\ flow.alive /\ i <= Len(flow.source) /\ flow.source[i].text # text
  /\ Step(SourceDataChanged([flow EXCEPT !.source[i].text = text], i, i, flow.lines))

\* Another source, or none: rows wait for the rebuild.
SetSourceModel(items) ==
  MaySet /\ Step(ScheduleRebuild([flow EXCEPT !.source = items, !.alive = TRUE]))

\* The source is destroyed; nothing is told of it.
DestroySource ==
  MaySet /\ flow.alive /\ Step([flow EXCEPT !.alive = FALSE, !.source = <<>>])

Next ==
  \/ \E r \in 1..MaxItems : Data(r)
  \/ PerformRebuild
  \/ \E font \in 1..2 : SetLineFonts(font)
  \/ \E lines \in BOOLEAN : SetLineRoles(lines)
  \/ \E extra \in 0..1 : SetExtraWidth(extra)
  \/ \E container \in {0, 3} : SetContainerWidth(container)
  \/ \E spacing \in 0..1 : SetSpacing(spacing)
  \/ SetVolatileRoles \/ SetItemRoles
  \/ \E i \in 1..MaxItems, item \in Items : Insert(i, item)
  \/ \E i \in 1..MaxItems : Erase(i)
  \/ \E first, last \in 1..MaxItems : Mark(first, last)
  \/ \E i \in 1..MaxItems, text \in 1..2 : Rename(i, text)
  \/ \E item \in Items : SetSourceModel(<<item>>)
  \/ DestroySource

-----------------------------------------------------------------------------

\* The rows hold every item of the layout once and in order, none is wider than the container,
\* and none is broken before it has to be.
RowsArePacked ==
  LET layout == flow.layout
      RowEnd(r) == layout.rows[r].first + layout.rows[r].count
  IN  /\ FlattenSeq([r \in 1..Len(layout.rows) |-> Places(layout.rows[r])]) = [i \in 1..Len(layout.widths) |-> i]
      /\ Wraps(layout) =>
           \A r \in 1..Len(layout.rows) :
             /\ layout.rows[r].width <= layout.container
             /\ r < Len(layout.rows) =>
                  layout.rows[r].width + layout.spacing + layout.widths[RowEnd(r)] > layout.container

\* While no rebuild is due and the source lives, the layout has the items of the source, and
\* every row that the view has read still shows them as they are.
ViewShowsTheSource ==
  flow.alive /\ ~flow.pending =>
    /\ Len(flow.layout.widths) = Len(flow.source)
    /\ \A i \in 1..Len(flow.source) :
         flow.lines => flow.layout.natural[i] = flow.source[i].text * flow.layout.font
                                                  + (IF flow.source[i].icon THEN flow.extra ELSE 0)
    /\ DOMAIN flow.shown.chips \cup DOMAIN flow.shown.states \subseteq AllRows
    /\ \A r \in DOMAIN flow.shown.states : flow.shown.states[r] = BuildChipStates(flow.layout.rows[r])
    /\ \A r \in DOMAIN flow.shown.chips : flow.lines => flow.shown.chips[r] = BuildChips(flow.layout.rows[r])

RowsShowTheSource == RowsArePacked /\ ViewShowsTheSource
=============================================================================
