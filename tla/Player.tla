------------------------------- MODULE Player -------------------------------
(***************************************************************************)
(* The script of index.html: the page that plays the steps of a graph.     *)
(* One action per event handler, each the whole of the handler, and one    *)
(* for the playback timer.  What the analysis in ir-core.js makes of a     *)
(* text is a parameter; the step builder itself is module StepBuilder.     *)
(*                                                                         *)
(* Of the page's elements the model keeps what tells a reader where the    *)
(* execution is: the state classes of the node boxes (the labels follow    *)
(* them), the values under them, the class of the arrows, the step line    *)
(* and the two pairs of navigation buttons.  Zoom, minimap, tooltip, theme *)
(* and the Java source lines are left out.                                 *)
(***************************************************************************)
EXTENDS Integers, Sequences

CONSTANTS
  Texts,              \* the dumps that can be visualized
  DefaultText,        \* the one in the text area when the page loads
  Params,             \* what the parameter fields can hold
  DefaultParams,      \* what a new graph's fields hold
  Queries,            \* what can be searched for
  NoValue,            \* a value line that is not displayed
  Values,             \* what a value line can display
  NodesOf(_),         \* the nodes, data edges and exception nodes of a text
  EdgesOf(_),
  ExceptionNodesOf(_),
  StepsOf(_, _, _),   \* its steps, with the check box and parameters given
  Matches(_, _)       \* the nodes of a text that a query matches

NoQuery == "the search box is empty"

\* What buildSteps returns (module StepBuilder).
StepType(t) == [activeNodes : SUBSET NodesOf(t), activeEdges : SUBSET EdgesOf(t),
                completedNodes : SUBSET NodesOf(t),
                completedEdges : SUBSET EdgesOf(t),
                values : [NodesOf(t) -> Values \cup {NoValue}]]

ASSUME ParameterAssumption ==
  /\ DefaultText \in Texts /\ DefaultParams \in Params
  /\ NoQuery \notin Queries

\* buildSteps always returns the initial step, whatever the levels are.
ASSUME StepsAssumption ==
  \A t \in Texts, h \in BOOLEAN, p \in Params :
    /\ StepsOf(t, h, p) \in Seq(StepType(t))
    /\ StepsOf(t, h, p) # <<>>

VARIABLES
  text, happy, input, param,  \* the graph loaded; the check box; the fields and
                              \* what was last taken from them
  steps, cur,                 \* _steps and _currentStep
  query, searching,           \* the search box and _searching
  playing, timers,            \* _playing; how many intervals are running
  rect, value, arrow, info,   \* the boxes' classes, the values, the arrows'
                              \* classes and the step line displayed
  buttons                     \* which navigation buttons are disabled

page == <<rect, value, arrow, info, buttons>>

vars == <<text, happy, input, param, steps, cur, query, searching, playing,
          timers, page>>
-----------------------------------------------------------------------------
(* applyStep *)

StepMarks == {"n-active", "n-done", "n-dim"}
SearchMarks == {"n-search", "n-search-dim"}
NodeMarks == StepMarks \cup SearchMarks \cup {"n-exception"}
EdgeMarks == {"e-data", "e-active", "e-done", "e-dim", "e-exception"}

NodeMark(t, h, s, n) ==
  IF h /\ n \in ExceptionNodesOf(t) THEN "n-exception"
  ELSE IF n \in s.activeNodes THEN "n-active"
  ELSE IF n \in s.completedNodes THEN "n-done" ELSE "n-dim"

EdgeMark(t, h, s, e) ==
  IF h /\ (e[1] \in ExceptionNodesOf(t) \/ e[2] \in ExceptionNodesOf(t))
    THEN "e-exception"
  ELSE IF e \in s.activeEdges THEN "e-active"
  ELSE IF e \in s.completedEdges THEN "e-done" ELSE "e-dim"

Rects(t, h, s) == [n \in NodesOf(t) |-> {NodeMark(t, h, s, n)}]
Arrows(t, h, s) == [e \in EdgesOf(t) |-> EdgeMark(t, h, s, e)]
Info(ss, k) == <<k, Len(ss) - 1, ss[k + 1]>>

\* The initial step has an array for its active edges where the others have a
\* set (ir-core.js:209): asking it "has", for the first data edge, throws.  The
\* nodes are displayed by then, the arrows and the step line are not, and the
\* rest of the handler is not run.
Throws(t, k) == k = 0 /\ EdgesOf(t) # {}

\* On a page whose boxes, values and arrows are r, v and a.
ApplyStep(r, v, a) ==
  LET s == steps'[cur' + 1]
      detailsKept == searching' \/ Throws(text', cur')
  IN  /\ rect'  = IF searching' THEN r ELSE Rects(text', happy', s)
      /\ value' = IF searching' THEN v ELSE s.values
      /\ arrow' = IF detailsKept THEN a ELSE Arrows(text', happy', s)
      /\ info'  = IF detailsKept THEN info ELSE Info(steps', cur')

\* updateButtons: first and previous, next and last.
Disabled(ss, k) == [back |-> k = 0, forward |-> k = Len(ss) - 1]

\* It is called after applyStep, if that returns.
UpdateButtons ==
  buttons' = IF ~searching' /\ Throws(text', cur') THEN buttons
             ELSE Disabled(steps', cur')

ApplyAndUpdate == ApplyStep(rect, value, arrow) /\ UpdateButtons
-----------------------------------------------------------------------------
(* The handlers *)

\* renderGraph: new elements for everything but the step line.
NewRects(t)  == [n \in NodesOf(t) |-> {}]
NewValues(t) == [n \in NodesOf(t) |-> NoValue]
NewArrows(t) == [e \in EdgesOf(t) |-> "e-data"]

\* The page has loaded and visualized the text it came with.
Init ==
  /\ text = DefaultText /\ happy = TRUE
  /\ input = DefaultParams /\ param = DefaultParams
  /\ steps = StepsOf(text, happy, param) /\ cur = 0
  /\ query = NoQuery /\ searching = FALSE
  /\ playing = FALSE /\ timers = 0
  /\ rect = Rects(text, happy, steps[1]) /\ value = steps[1].values
  /\ arrow = IF Throws(text, 0) THEN NewArrows(text) ELSE Arrows(text, happy, steps[1])
  /\ info = IF Throws(text, 0) THEN <<>> ELSE Info(steps, 0)
  /\ buttons = IF Throws(text, 0) THEN [back |-> FALSE, forward |-> FALSE]
               ELSE Disabled(steps, cur)

\* Neither the search nor the playback is ended.
Visualize(t) ==
  /\ text' = t
  /\ input' = DefaultParams /\ param' = DefaultParams
  /\ steps' = StepsOf(t, happy, DefaultParams)
  /\ cur' = 0
  /\ UNCHANGED <<happy, query, searching, playing, timers>>
  /\ ApplyStep(NewRects(t), NewValues(t), NewArrows(t)) /\ UpdateButtons

Clamp(n) == IF n > Len(steps) - 1 THEN Len(steps) - 1 ELSE IF n < 0 THEN 0 ELSE n

\* Mutant: the search box keeps its text.
GoToKeepsQuery(n) ==
  /\ cur' = Clamp(n)
  /\ searching' = FALSE
  /\ UNCHANGED <<text, happy, input, param, steps, query, playing, timers>>
  /\ ApplyAndUpdate

\* goToStep: leaves the search.
GoTo(n) ==
  /\ cur' = Clamp(n)
  /\ query' = NoQuery /\ searching' = FALSE
  /\ UNCHANGED <<text, happy, input, param, steps, playing, timers>>
  /\ ApplyAndUpdate

\* Buttons and keys: Home, left, right, End.
Navigate == GoTo(0) \/ GoTo(cur - 1) \/ GoTo(cur + 1) \/ GoTo(Len(steps) - 1)

TogglePlay ==
  /\ playing' = ~playing
  /\ timers' = IF playing THEN timers - 1 ELSE timers + 1
  /\ UNCHANGED <<text, happy, input, param, steps, cur, query, searching,
                 page>>

AtEnd == cur >= Len(steps) - 1

\* Mutant: the timer is not stopped at the last step.
TickGoesOn == timers > 0 /\ GoTo(cur + 1)

\* The interval's callback.
Tick ==
  /\ timers > 0
  /\ \/ AtEnd /\ TogglePlay
     \/ ~AtEnd /\ GoTo(cur + 1)

\* doSearch with a query.  It takes the step's marks off the boxes, all but the
\* one of an exception node.
Search(q) ==
  /\ q # query
  /\ query' = q /\ searching' = TRUE
  /\ rect' = [n \in NodesOf(text) |->
       (rect[n] \ (StepMarks \cup SearchMarks))
         \cup {IF n \in Matches(text, q) THEN "n-search" ELSE "n-search-dim"}]
  /\ UNCHANGED <<text, happy, input, param, steps, cur, playing, timers, value,
                 arrow, info, buttons>>

\* Mutant: the step's display is not restored.
ClearSearchOnly ==
  /\ query # NoQuery
  /\ query' = NoQuery /\ searching' = FALSE
  /\ UNCHANGED <<text, happy, input, param, steps, cur, playing, timers, page>>

\* doSearch with the box emptied.
ClearSearch ==
  /\ query # NoQuery
  /\ query' = NoQuery /\ searching' = FALSE
  /\ UNCHANGED <<text, happy, input, param, steps, cur, playing, timers, buttons>>
  /\ ApplyStep(rect, value, arrow)

\* Mutants: the current step is kept though there may be no such step, which
\* applyStep does not survive; the buttons are not brought up to date.
RebuildKeepsStep ==
  /\ param' = input
  /\ steps' = StepsOf(text, happy', param')
  /\ UNCHANGED <<text, input, cur, query, searching, playing, timers>>
  /\ IF cur < Len(steps') THEN ApplyAndUpdate ELSE UNCHANGED page

RebuildKeepsButtons ==
  /\ param' = input
  /\ steps' = StepsOf(text, happy', param')
  /\ cur' = IF cur > Len(steps') - 1 THEN Len(steps') - 1 ELSE cur
  /\ UNCHANGED <<text, input, query, searching, playing, timers, buttons>>
  /\ ApplyStep(rect, value, arrow)

\* rebuildSteps: takes the parameters from their fields.
Rebuild ==
  /\ param' = input
  /\ steps' = StepsOf(text, happy', param')
  /\ cur' = IF cur > Len(steps') - 1 THEN Len(steps') - 1 ELSE cur
  /\ UNCHANGED <<text, input, query, searching, playing, timers>>
  /\ ApplyAndUpdate

\* Mutant: the steps are displayed again and not built again.
ToggleHappyOnly ==
  /\ happy' = ~happy
  /\ UNCHANGED <<text, input, param, steps, cur, query, searching, playing, timers>>
  /\ ApplyAndUpdate

ToggleHappy == happy' = ~happy /\ Rebuild

\* A number is typed; Enter, or leaving the field, takes it.
TypeParam(v) ==
  /\ input' = v
  /\ UNCHANGED <<text, happy, param, steps, cur, query, searching, playing,
                 timers, page>>

CommitParam == UNCHANGED happy /\ Rebuild

Next ==
  \/ \E t \in Texts : Visualize(t)
  \/ Navigate \/ TogglePlay \/ Tick
  \/ (\E q \in Queries : Search(q)) \/ ClearSearch
  \/ ToggleHappy \/ (\E v \in Params : TypeParam(v)) \/ CommitParam

\* The user is free to do nothing; an interval that is not cleared keeps firing.
Spec == Init /\ [][Next]_vars /\ WF_vars(Tick)
-----------------------------------------------------------------------------
(* Properties *)

\* The types, and that the current step is one of the steps: a rebuild may
\* leave fewer of them than there were, in any mode (index.html:833).
TypeOK ==
  /\ text \in Texts /\ happy \in BOOLEAN
  /\ input \in Params /\ param \in Params
  /\ steps \in Seq(StepType(text)) /\ steps # <<>>
  /\ cur \in 0..(Len(steps) - 1)
  /\ query \in Queries \cup {NoQuery} /\ searching \in BOOLEAN
  /\ playing \in BOOLEAN /\ timers \in Nat
  /\ rect \in [NodesOf(text) -> SUBSET NodeMarks]
  /\ value \in [NodesOf(text) -> Values \cup {NoValue}]
  /\ arrow \in [EdgesOf(text) -> EdgeMarks]
  /\ buttons \in [back : BOOLEAN, forward : BOOLEAN]

\* The steps played are the ones of the graph displayed, the check box and the
\* parameters last taken from the fields: none of the handlers that change one
\* of the three forgets to build them again (index.html:822-836, :838-859).
StepsCurrent == steps = StepsOf(text, happy, param)

\* Outside a search the boxes and values are those of the current step, however
\* the page got there: through a search, a rebuild during a search, a new graph
\* during a search, the timer (index.html:457-486, :753-759).
NodesShowStep ==
  ~searching =>
    /\ rect = Rects(text, happy, steps[cur + 1])
    /\ value = steps[cur + 1].values

\* So are the arrows, the step line and the buttons, from the first executed
\* step on (index.html:493-514, :791-796).
DetailsShowStep ==
  ~Throws(text, cur) =>
    /\ ~searching => /\ arrow = Arrows(text, happy, steps[cur + 1])
                     /\ info = Info(steps, cur)
    /\ buttons = Disabled(steps, cur)

\* The search box holds text exactly during a search, and an interval runs
\* exactly during playback and is the only one: a second would go on stepping
\* after pause (index.html:783, :799-812).
ModesAgree ==
  /\ searching <=> query # NoQuery
  /\ timers = IF playing THEN 1 ELSE 0

\* Left alone, playback reaches the end and stops, whatever it was started in
\* the middle of (index.html:808).
PlaybackEnds == <>[][Tick]_vars => <>[](~playing)

\* "There should be controls to go back to the beginning or the end" (plan.md:56):
\* back at the initial step, the arrows and the step line are its own and the
\* next step is on offer.  The code breaks it.
BeginningIsShown ==
  cur = 0 /\ ~searching /\ info # <<>> =>
    /\ arrow = Arrows(text, happy, steps[1])
    /\ info = Info(steps, 0)
    /\ buttons = Disabled(steps, 0)
=============================================================================
