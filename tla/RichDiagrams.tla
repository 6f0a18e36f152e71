---------------------------- MODULE RichDiagrams ----------------------------
(***************************************************************************)
(* Diagrams in a rich text (src/cpp/diagram/richtextdiagrams.cpp): the     *)
(* blocks it finds in the text (embeddeddiagrams.cpp), a provider for each *)
(* that turns a diagram into an image (diagramsvgprovider.cpp), and the    *)
(* text with the images in their places.  Providers are used again, by     *)
(* their place, for the diagrams of the next text; each redoes no more of  *)
(* its work than a change calls for.  A line is a member of a small set; a *)
(* body that has "bad" in it does not parse, what an image shows is the    *)
(* diagram and all it was drawn with.  The font has one number for its     *)
(* family and size, 0 for none; how a diagram is laid out is external.     *)
(* "unfilled" remembers that fillWidth was turned off since the image of a *)
(* provider was written.                                                   *)
(***************************************************************************)
EXTENDS Integers, Sequences, FiniteSets, SequencesExt

VARIABLE rich

Markers == {"uml", "bits"}
StartOf == [uml |-> "@startuml", bits |-> "@startbits"]
EndOf   == [uml |-> "@enduml", bits |-> "@endbits"]

Blocks == {<<"text">>, <<"@startuml", "good", "@enduml">>, <<"@startuml", "bad", "@enduml">>,
           <<"@startbits", "@enduml", "@endbits">>, <<"@startuml", "@startbits">>}
Texts  == Blocks \cup {a \o b : a, b \in Blocks} \cup {<<>>, <<"@endbits", "@startuml", "@enduml">>}

KWidthStep == 16
Style == 1   \* the font of a provider that was given none

NoScene  == [of |-> <<>>, font |-> 0, width |-> 0]
NoSource == [scene |-> NoScene, shift |-> 0, width |-> 0, colors |-> 0, ratio |-> 0]
NoImage  == 0
Provider == [text |-> <<>>, width |-> 0, fill |-> FALSE, ratio |-> 3, font |-> Style, colors |-> 0, error |-> FALSE,
             diagram |-> <<>>, scene |-> NoScene, laidOut |-> 0, source |-> NoSource, imageWidth |-> NoImage, unfilled |-> FALSE]

Init ==
  rich = [html |-> <<>>, diagrams |-> <<>>, providers |-> <<>>, rendered |-> <<>>,
          settings |-> [width |-> 0, fill |-> FALSE, ratio |-> 3, font |-> 0, colors |-> 0]]

-----------------------------------------------------------------------------
\* EmbeddedDiagrams::find: a block goes from a line that opens one to the next line that closes
\* it, whatever is between them; one that is not closed goes to the end of the text.

NotOpen == [first |-> 0, last |-> 0, marker |-> "", closed |-> FALSE]
OpenedBy(line) == {m \in Markers : StartOf[m] = line}

Find(html) ==
  LET Line(state, i) ==
        IF state.open = NotOpen /\ OpenedBy(html[i]) # {}
        THEN [state EXCEPT !.open = [first |-> i, last |-> 0, marker |-> CHOOSE m \in OpenedBy(html[i]) : TRUE,
                                     closed |-> FALSE]]
        ELSE IF state.open # NotOpen /\ html[i] = EndOf[state.open.marker]
        THEN [found |-> Append(state.found, [state.open EXCEPT !.last = i, !.closed = TRUE]), open |-> NotOpen]
        ELSE state
      all == FoldLeft(Line, [found |-> <<>>, open |-> NotOpen], [i \in 1..Len(html) |-> i])
  IN  IF all.open = NotOpen THEN all.found ELSE Append(all.found, [all.open EXCEPT !.last = Len(html)])

Body(html, diagram) == SubSeq(html, diagram.first + 1, diagram.last - 1)
Closed(diagrams) == SelectSeq(diagrams, LAMBDA diagram : diagram.closed)

-----------------------------------------------------------------------------
\* DiagramSvgProvider.

\* DiagramLayout::layout: a diagram takes the width it wants, as far as there is, and overflows
\* a width too small for it.
Wanted(scene) == 22 * scene.font
SceneWidth(scene) ==
  IF scene.width < 18 THEN 18 ELSE IF Wanted(scene) < scene.width THEN Wanted(scene) ELSE scene.width

LayoutWidth(p) == IF p.width < KWidthStep THEN KWidthStep ELSE (p.width \div KWidthStep) * KWidthStep

\* displayedScene: with the spare width on both sides of it when the width is to be filled.
Spare(p) == p.width - SceneWidth(p.scene)
Fills(p) == p.fill /\ Spare(p) >= 1
DisplayedWidth(p) == IF Fills(p) THEN p.width ELSE SceneWidth(p.scene)

Write(p) ==
  [p EXCEPT !.unfilled = FALSE, !.source =
     IF p.scene = NoScene THEN NoSource
     ELSE [scene |-> p.scene, shift |-> IF Fills(p) THEN Spare(p) \div 2 ELSE 0, width |-> DisplayedWidth(p),
           colors |-> p.colors, ratio |-> p.ratio]]

UpdateImageSize(p) ==
  [p EXCEPT !.imageWidth = IF p.scene = NoScene THEN NoImage
                           ELSE IF p.width < DisplayedWidth(p) THEN p.width ELSE DisplayedWidth(p)]

LayOut(p) ==
  LET drawn == p.diagram # <<>> /\ p.width > 0
  IN  UpdateImageSize(Write(
        [p EXCEPT !.scene = IF drawn THEN [of |-> p.diagram, font |-> p.font, width |-> LayoutWidth(p)] ELSE NoScene,
                  !.laidOut = IF drawn THEN LayoutWidth(p) ELSE 0]))

\* Variant: an image that fills the width keeps the width it was written with.
RefreshSizeOnly(p) == UpdateImageSize(p)

RefreshForWidth(p) == UpdateImageSize(IF p.fill THEN Write(p) ELSE p)

\* parse: what is not a diagram shows nothing, and an empty text is no error.
Parsed(p) ==
  LET bad == Contains(p.text, "bad")
  IN  LayOut([p EXCEPT !.error = bad, !.diagram = IF bad THEN <<>> ELSE p.text])
SetText(p, text) == IF p.text = text THEN p ELSE Parsed([p EXCEPT !.text = text])

\* Only another step of the width needs another layout.
ProviderWidth(p, width) ==
  LET clamped == IF width < 0 THEN 0 ELSE width
      wider   == [p EXCEPT !.width = clamped]
  IN  IF p.width = clamped THEN p
      ELSE IF LayoutWidth(wider) # p.laidOut \/ (p.width > 0) # (clamped > 0) THEN LayOut(wider)
      ELSE RefreshForWidth(wider)

ProviderFill(p, fill) ==
  IF p.fill = fill THEN p ELSE RefreshForWidth([p EXCEPT !.fill = fill, !.unfilled = ~fill])
ProviderRatio(p, ratio) ==
  LET clamped == IF ratio < 1 THEN 1 ELSE ratio
  IN  IF p.ratio = clamped THEN p ELSE Write([p EXCEPT !.ratio = clamped])
ProviderFont(p, font) == IF p.font = font \/ font = 0 THEN p ELSE LayOut([p EXCEPT !.font = font])
ProviderColors(p, colors) == IF p.colors = colors THEN p ELSE Write([p EXCEPT !.colors = colors])

-----------------------------------------------------------------------------
\* RichTextDiagrams.

Configure(p, settings) ==
  ProviderColors(ProviderFont(ProviderRatio(ProviderWidth(ProviderFill(p, settings.fill), settings.width),
                                            settings.ratio), settings.font), settings.colors)

\* An error in place of a diagram that is not closed or does not parse, and nothing in place of
\* one that shows nothing.
Figure(diagram, p) ==
  IF ~diagram.closed THEN <<[kind |-> "unclosed", marker |-> diagram.marker]>>
  ELSE IF p.error THEN <<[kind |-> "error"]>>
  ELSE IF p.source = NoSource THEN <<>>
  ELSE <<[kind |-> "image", source |-> p.source, width |-> p.imageWidth]>>

Copied(html, first, last) == [i \in 1..(last - first + 1) |-> [kind |-> "line", line |-> html[first + i - 1]]]

\* compose.
Compose(r) ==
  LET Place(state, d) ==
        LET diagram == r.diagrams[d]
            shown   == Figure(diagram, IF diagram.closed THEN r.providers[state.index] ELSE Provider)
        IN  [rendered |-> state.rendered \o Copied(r.html, state.copied + 1, diagram.first - 1) \o shown,
             copied   |-> diagram.last,
             index    |-> state.index + (IF diagram.closed THEN 1 ELSE 0)]
      all == FoldLeft(Place, [rendered |-> <<>>, copied |-> 0, index |-> 1],
                      [d \in 1..Len(r.diagrams) |-> d])
  IN  [r EXCEPT !.rendered = all.rendered \o Copied(r.html, all.copied + 1, Len(r.html))]

\* setHtml: the providers there are take the texts in order; more are made, or some are dropped.
SetHtml(html) ==
  LET diagrams == Find(html)
      closed   == Closed(diagrams)
      ProviderAt(i) == IF i <= Len(rich.providers) THEN rich.providers[i] ELSE Configure(Provider, rich.settings)
      providers == [i \in 1..Len(closed) |-> SetText(ProviderAt(i), Body(html, closed[i]))]
  IN  /\ html # rich.html
      /\ rich' = Compose([rich EXCEPT !.html = html, !.diagrams = diagrams, !.providers = providers])

\* reconfigure.
Reconfigure(settings) ==
  /\ settings # rich.settings
  /\ rich' = Compose([rich EXCEPT !.settings = settings,
                                  !.providers = [i \in 1..Len(@) |-> Configure(@[i], settings)]])

SetAvailableWidth(width) == Reconfigure([rich.settings EXCEPT !.width = width])
SetFillWidth(fill)       == Reconfigure([rich.settings EXCEPT !.fill = fill])
SetPixelRatio(ratio)     == Reconfigure([rich.settings EXCEPT !.ratio = ratio])
SetFont(font)            == Reconfigure([rich.settings EXCEPT !.font = font])
SetColors(colors)        == Reconfigure([rich.settings EXCEPT !.colors = colors])

Next ==
  \/ \E html \in Texts : SetHtml(html)
  \/ \E width \in {-1, 10, 20, 40} : SetAvailableWidth(width)
  \/ \E fill \in BOOLEAN : SetFillWidth(fill)
  \/ \E ratio \in {0, 3} : SetPixelRatio(ratio)
  \/ \E font \in 0..2 : SetFont(font)
  \/ \E colors \in 0..1 : SetColors(colors)

-----------------------------------------------------------------------------

\* The diagrams of a text do not overlap, each ends where its marker is first closed, and no
\* line that opens a diagram is left outside of them.
DiagramsAreTheBlocks ==
  LET D == rich.diagrams
      InSome(i) == \E d \in 1..Len(D) : D[d].first <= i /\ i <= D[d].last
  IN  /\ \A d \in 1..Len(D) :
           /\ rich.html[D[d].first] = StartOf[D[d].marker]
           /\ \A i \in (D[d].first + 1)..(D[d].last - 1) : rich.html[i] # EndOf[D[d].marker]
           /\ IF D[d].closed THEN rich.html[D[d].last] = EndOf[D[d].marker]
              ELSE D[d].last = Len(rich.html) /\ rich.html[D[d].last] # EndOf[D[d].marker]
           /\ d < Len(D) => D[d].closed /\ D[d].last < D[d + 1].first
      /\ \A i \in 1..Len(rich.html) : OpenedBy(rich.html[i]) # {} => InSome(i)

\* The image of a diagram, drawn anew with the settings there are.
Drawn(body, s) ==
  LET scene == [of |-> body, font |-> s.font, width |-> IF s.width < 16 THEN 16 ELSE s.width - (s.width % 16)]
      spare == s.width - SceneWidth(scene)
      wide  == s.fill /\ spare > 0
      width == IF wide THEN s.width ELSE SceneWidth(scene)
  IN  [kind |-> "image", width |-> IF s.width < width THEN s.width ELSE width,
       source |-> [scene |-> scene, shift |-> IF wide THEN spare \div 2 ELSE 0, width |-> width,
                   colors |-> s.colors, ratio |-> IF s.ratio < 1 THEN 1 ELSE s.ratio]]

\* Whatever was changed in whatever order, once a font is set the text shows every diagram that
\* parses as it would be drawn now, in its place, and nothing of the diagrams it showed before.
\* One thing stays behind: doc/diagram.md:23 says that "the same text, width and style always
\* produce the same SVG", but an image that filled the width keeps its canvas, and its place on
\* it, when fillWidth is turned off, until something else writes it.
RenderedIsCurrent ==
  LET D == rich.diagrams
      ProviderOf(d) == rich.providers[Cardinality({e \in 1..d : D[e].closed})]
      Kept(image, p) ==
        IF p.unfilled THEN [image EXCEPT !.source.shift = p.source.shift, !.source.width = p.source.width]
        ELSE image
      Shown(d) ==
        LET body == Body(rich.html, D[d])
        IN  IF ~D[d].closed THEN <<[kind |-> "unclosed", marker |-> D[d].marker]>>
            ELSE IF Contains(body, "bad") THEN <<[kind |-> "error"]>>
            ELSE IF body = <<>> \/ rich.settings.width <= 0 THEN <<>>
            ELSE <<Kept(Drawn(body, rich.settings), ProviderOf(d))>>
      At(i) == IF \E d \in 1..Len(D) : D[d].first = i
               THEN Shown(CHOOSE d \in 1..Len(D) : D[d].first = i)
               ELSE IF \E d \in 1..Len(D) : D[d].first < i /\ i <= D[d].last THEN <<>>
               ELSE Copied(rich.html, i, i)
  IN  rich.settings.font # 0 => rich.rendered = FlattenSeq([i \in 1..Len(rich.html) |-> At(i)])

TextShowsItsDiagrams == DiagramsAreTheBlocks /\ RenderedIsCurrent
=============================================================================
