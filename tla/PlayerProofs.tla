---------------------------- MODULE PlayerProofs ----------------------------
(***************************************************************************)
(* The invariant of Player, for every set of dumps, parameters and queries *)
(* and every way to build steps and to match: the page displays the step   *)
(* it is at.                                                               *)
(***************************************************************************)
EXTENDS Player, SequenceTheorems, TLAPS

\* What the handlers keep true together.
IInv == TypeOK /\ StepsCurrent /\ NodesShowStep /\ DetailsShowStep /\ ModesAgree

\* The classes applyStep gives are classes of the loaded graph's boxes and
\* arrows, and what renderGraph makes is as well (index.html:464-466, :495-504).
LEMMA DisplayTypes ==
  ASSUME NEW t, NEW h, NEW s
  PROVE  /\ Rects(t, h, s) \in [NodesOf(t) -> SUBSET NodeMarks]
         /\ Arrows(t, h, s) \in [EdgesOf(t) -> EdgeMarks]
         /\ NewRects(t) \in [NodesOf(t) -> SUBSET NodeMarks]
         /\ NewValues(t) \in [NodesOf(t) -> Values \cup {NoValue}]
         /\ NewArrows(t) \in [EdgesOf(t) -> EdgeMarks]
<1>1. \A n : {NodeMark(t, h, s, n)} \in SUBSET NodeMarks BY DEF NodeMark, NodeMarks, StepMarks
<1>2. \A e : EdgeMark(t, h, s, e) \in EdgeMarks BY DEF EdgeMark, EdgeMarks
<1>3. Rects(t, h, s) \in [NodesOf(t) -> SUBSET NodeMarks] BY <1>1 DEF Rects
<1>4. Arrows(t, h, s) \in [EdgesOf(t) -> EdgeMarks] BY <1>2 DEF Arrows
<1> QED BY <1>3, <1>4 DEF EdgeMarks, NewRects, NewValues, NewArrows

\* A step of a non-empty sequence of steps has the values it displays.
LEMMA StepValues ==
  ASSUME NEW t, NEW ss \in Seq(StepType(t)), NEW k \in 0..(Len(ss) - 1)
  PROVE  ss[k + 1].values \in [NodesOf(t) -> Values \cup {NoValue}]
<1>1. k + 1 \in 1..Len(ss) OBVIOUS
<1>2. ss[k + 1] \in StepType(t) BY <1>1
<1> QED BY <1>2 DEF StepType

\* The page that has just loaded is in order.
LEMMA InitHolds == Init => IInv
<1> SUFFICES ASSUME Init PROVE IInv OBVIOUS
<1>1. /\ text \in Texts /\ happy \in BOOLEAN /\ input \in Params /\ param \in Params
      /\ steps \in Seq(StepType(text)) /\ steps # <<>>
  BY ParameterAssumption, StepsAssumption DEF Init
<1>2. cur = 0 /\ cur \in 0..(Len(steps) - 1)
  <2>1. Len(steps) \in Nat \ {0} BY <1>1, EmptySeq, LenProperties
  <2>2. cur = 0 BY DEF Init
  <2> QED BY <2>1, <2>2
<1>3. steps[1].values \in [NodesOf(text) -> Values \cup {NoValue}]
  <2>1. steps[0 + 1].values \in [NodesOf(text) -> Values \cup {NoValue}]
    BY <1>1, <1>2, StepValues
  <2> QED BY <2>1
<1>4. /\ rect \in [NodesOf(text) -> SUBSET NodeMarks]
      /\ arrow \in [EdgesOf(text) -> EdgeMarks]
      /\ value \in [NodesOf(text) -> Values \cup {NoValue}]
  BY <1>3, DisplayTypes DEF Init
<1>5. buttons \in [back : BOOLEAN, forward : BOOLEAN] BY DEF Init, Disabled
<1>6. TypeOK BY <1>1, <1>2, <1>4, <1>5 DEF Init, TypeOK
<1>7. StepsCurrent BY DEF Init, StepsCurrent
<1>8. NodesShowStep BY <1>2 DEF Init, NodesShowStep
<1>9. DetailsShowStep BY <1>2 DEF Init, DetailsShowStep
<1>10. ModesAgree BY ParameterAssumption DEF Init, ModesAgree
<1> QED BY <1>6, <1>7, <1>8, <1>9, <1>10 DEF IInv

\* What a handler that ends in applyStep and updateButtons has to see to before
\* it calls them; r, v and a are what the boxes, values and arrows were.
LEMMA ApplyDisplays ==
  ASSUME NEW STATE r, NEW STATE v, NEW STATE a,
         text' \in Texts, searching' \in BOOLEAN,
         steps' \in Seq(StepType(text')), cur' \in 0..(Len(steps') - 1),
         r \in [NodesOf(text') -> SUBSET NodeMarks],
         v \in [NodesOf(text') -> Values \cup {NoValue}],
         a \in [EdgesOf(text') -> EdgeMarks],
         ApplyStep(r, v, a)
  PROVE  /\ rect' \in [NodesOf(text') -> SUBSET NodeMarks]
         /\ value' \in [NodesOf(text') -> Values \cup {NoValue}]
         /\ arrow' \in [EdgesOf(text') -> EdgeMarks]
         /\ NodesShowStep'
         /\ ~Throws(text', cur') /\ ~searching' =>
              /\ arrow' = Arrows(text', happy', steps'[cur' + 1])
              /\ info' = Info(steps', cur')
<1>1. steps'[cur' + 1].values \in [NodesOf(text') -> Values \cup {NoValue}]
  BY StepValues
<1> QED BY <1>1, DisplayTypes DEF ApplyStep, NodesShowStep

\* Moving about: a button, a key or the timer.
LEMMA GoToHolds == ASSUME IInv, NEW n \in Int, GoTo(n) PROVE IInv'
<1> USE DEF IInv
<1>1. /\ text' = text /\ happy' = happy /\ input' = input /\ param' = param
      /\ steps' = steps /\ playing' = playing /\ timers' = timers
      /\ query' = NoQuery /\ searching' = FALSE
      /\ cur' = Clamp(n) /\ ApplyAndUpdate
  BY DEF GoTo
<1>2. Len(steps) \in Nat \ {0} BY EmptySeq DEF TypeOK
<1>3. cur' \in 0..(Len(steps') - 1) BY <1>1, <1>2 DEF Clamp
<1>4. /\ rect' \in [NodesOf(text') -> SUBSET NodeMarks]
      /\ value' \in [NodesOf(text') -> Values \cup {NoValue}]
      /\ arrow' \in [EdgesOf(text') -> EdgeMarks]
      /\ NodesShowStep'
      /\ ~Throws(text', cur') /\ ~searching' =>
           /\ arrow' = Arrows(text', happy', steps'[cur' + 1])
           /\ info' = Info(steps', cur')
  <2>1. ApplyStep(rect, value, arrow) BY <1>1 DEF ApplyAndUpdate
  <2> QED BY <1>1, <1>3, <2>1, ApplyDisplays DEF TypeOK
<1>5. buttons' \in [back : BOOLEAN, forward : BOOLEAN]
  BY <1>1 DEF ApplyAndUpdate, UpdateButtons, Disabled, TypeOK
<1>6. ~Throws(text', cur') => buttons' = Disabled(steps', cur')
  BY <1>1 DEF ApplyAndUpdate, UpdateButtons
<1>7. TypeOK' BY <1>1, <1>3, <1>4, <1>5 DEF TypeOK
<1>8. StepsCurrent' BY <1>1 DEF StepsCurrent
<1>9. DetailsShowStep' BY <1>4, <1>6 DEF DetailsShowStep
<1>10. ModesAgree' BY <1>1, ParameterAssumption DEF ModesAgree
<1> QED BY <1>4, <1>7, <1>8, <1>9, <1>10

\* Building the steps again, the check box as it is or changed.
LEMMA RebuildHolds == ASSUME IInv, happy' \in BOOLEAN, Rebuild PROVE IInv'
<1> USE DEF IInv
<1>1. /\ text' = text /\ input' = input /\ param' = input
      /\ steps' = StepsOf(text, happy', param')
      /\ query' = query /\ searching' = searching
      /\ playing' = playing /\ timers' = timers
      /\ cur' = (IF cur > Len(steps') - 1 THEN Len(steps') - 1 ELSE cur)
      /\ ApplyAndUpdate
  BY DEF Rebuild
<1>2. steps' \in Seq(StepType(text')) /\ steps' # <<>>
  BY <1>1, StepsAssumption DEF TypeOK
<1>3. cur' \in 0..(Len(steps') - 1)
  <2>1. Len(steps') \in Nat \ {0} BY <1>2, EmptySeq
  <2>2. cur \in Nat BY DEF TypeOK
  <2> QED BY <1>1, <2>1, <2>2
<1>4. /\ rect' \in [NodesOf(text') -> SUBSET NodeMarks]
      /\ value' \in [NodesOf(text') -> Values \cup {NoValue}]
      /\ arrow' \in [EdgesOf(text') -> EdgeMarks]
      /\ NodesShowStep'
      /\ ~Throws(text', cur') /\ ~searching' =>
           /\ arrow' = Arrows(text', happy', steps'[cur' + 1])
           /\ info' = Info(steps', cur')
  <2>1. ApplyStep(rect, value, arrow) BY <1>1 DEF ApplyAndUpdate
  <2> QED BY <1>1, <1>2, <1>3, <2>1, ApplyDisplays DEF TypeOK
<1>5. buttons' \in [back : BOOLEAN, forward : BOOLEAN]
  BY <1>1 DEF ApplyAndUpdate, UpdateButtons, Disabled, TypeOK
<1>6. ~Throws(text', cur') => buttons' = Disabled(steps', cur')
  BY <1>1 DEF ApplyAndUpdate, UpdateButtons
<1>7. TypeOK' BY <1>1, <1>2, <1>3, <1>4, <1>5 DEF TypeOK
<1>8. StepsCurrent' BY <1>1 DEF StepsCurrent
<1>9. DetailsShowStep' BY <1>4, <1>6 DEF DetailsShowStep
<1>10. ModesAgree' BY <1>1 DEF ModesAgree
<1> QED BY <1>4, <1>7, <1>8, <1>9, <1>10

\* A new graph, whatever goes on.
LEMMA VisualizeHolds == ASSUME IInv, NEW t \in Texts, Visualize(t) PROVE IInv'
<1> USE DEF IInv
<1>1. /\ text' = t /\ input' = DefaultParams /\ param' = DefaultParams
      /\ steps' = StepsOf(t, happy, DefaultParams) /\ cur' = 0
      /\ happy' = happy /\ query' = query /\ searching' = searching
      /\ playing' = playing /\ timers' = timers
      /\ ApplyStep(NewRects(t), NewValues(t), NewArrows(t)) /\ UpdateButtons
  BY DEF Visualize
<1>2. steps' \in Seq(StepType(text')) /\ steps' # <<>>
  BY <1>1, StepsAssumption, ParameterAssumption DEF TypeOK
<1>3. cur' \in 0..(Len(steps') - 1)
  <2>1. Len(steps') \in Nat \ {0} BY <1>2, EmptySeq
  <2> QED BY <1>1, <2>1
<1>4. /\ rect' \in [NodesOf(text') -> SUBSET NodeMarks]
      /\ value' \in [NodesOf(text') -> Values \cup {NoValue}]
      /\ arrow' \in [EdgesOf(text') -> EdgeMarks]
      /\ NodesShowStep'
      /\ ~Throws(text', cur') /\ ~searching' =>
           /\ arrow' = Arrows(text', happy', steps'[cur' + 1])
           /\ info' = Info(steps', cur')
  <2>1. /\ NewRects(t) \in [NodesOf(text') -> SUBSET NodeMarks]
        /\ NewValues(t) \in [NodesOf(text') -> Values \cup {NoValue}]
        /\ NewArrows(t) \in [EdgesOf(text') -> EdgeMarks]
    BY <1>1, DisplayTypes
  <2> QED BY <1>1, <1>2, <1>3, <2>1, ApplyDisplays DEF TypeOK
<1>5. buttons' \in [back : BOOLEAN, forward : BOOLEAN]
  BY <1>1 DEF UpdateButtons, Disabled, TypeOK
<1>6. ~Throws(text', cur') => buttons' = Disabled(steps', cur')
  BY <1>1 DEF UpdateButtons
<1>7. TypeOK' BY <1>1, <1>2, <1>3, <1>4, <1>5, ParameterAssumption DEF TypeOK
<1>8. StepsCurrent' BY <1>1 DEF StepsCurrent
<1>9. DetailsShowStep' BY <1>4, <1>6 DEF DetailsShowStep
<1>10. ModesAgree' BY <1>1 DEF ModesAgree
<1> QED BY <1>4, <1>7, <1>8, <1>9, <1>10

\* A query only touches the boxes, and the search excuses them.
LEMMA SearchHolds == ASSUME IInv, NEW q \in Queries, Search(q) PROVE IInv'
<1> USE DEF IInv
<1>1. /\ text' = text /\ happy' = happy /\ input' = input /\ param' = param
      /\ steps' = steps /\ cur' = cur /\ playing' = playing /\ timers' = timers
      /\ value' = value /\ arrow' = arrow /\ info' = info /\ buttons' = buttons
      /\ query' = q /\ searching' = TRUE
  BY DEF Search
<1>2. rect' \in [NodesOf(text') -> SUBSET NodeMarks]
  <2> DEFINE marks(n) ==
        (rect[n] \ (StepMarks \cup SearchMarks))
          \cup {IF n \in Matches(text, q) THEN "n-search" ELSE "n-search-dim"}
  <2>1. rect' = [n \in NodesOf(text) |-> marks(n)] BY DEF Search
  <2>2. ASSUME NEW n \in NodesOf(text) PROVE marks(n) \in SUBSET NodeMarks
    BY DEF TypeOK, NodeMarks, SearchMarks
  <2> HIDE DEF marks
  <2> QED BY <1>1, <2>1, <2>2
<1>3. TypeOK' BY <1>1, <1>2 DEF TypeOK
<1>4. StepsCurrent' BY <1>1 DEF StepsCurrent
<1>5. NodesShowStep' BY <1>1 DEF NodesShowStep
<1>6. DetailsShowStep' BY <1>1 DEF DetailsShowStep
<1>7. ModesAgree' BY <1>1, ParameterAssumption DEF ModesAgree
<1> QED BY <1>3, <1>4, <1>5, <1>6, <1>7

\* Emptying the box displays the step again.
LEMMA ClearSearchHolds == ASSUME IInv, ClearSearch PROVE IInv'
<1> USE DEF IInv
<1>1. /\ text' = text /\ happy' = happy /\ input' = input /\ param' = param
      /\ steps' = steps /\ cur' = cur /\ playing' = playing /\ timers' = timers
      /\ buttons' = buttons /\ query' = NoQuery /\ searching' = FALSE
      /\ ApplyStep(rect, value, arrow)
  BY DEF ClearSearch
<1>2. /\ rect' \in [NodesOf(text') -> SUBSET NodeMarks]
      /\ value' \in [NodesOf(text') -> Values \cup {NoValue}]
      /\ arrow' \in [EdgesOf(text') -> EdgeMarks]
      /\ NodesShowStep'
      /\ ~Throws(text', cur') /\ ~searching' =>
           /\ arrow' = Arrows(text', happy', steps'[cur' + 1])
           /\ info' = Info(steps', cur')
  BY <1>1, ApplyDisplays DEF TypeOK
<1>3. TypeOK' BY <1>1, <1>2 DEF TypeOK
<1>4. StepsCurrent' BY <1>1 DEF StepsCurrent
<1>5. DetailsShowStep' BY <1>1, <1>2 DEF DetailsShowStep
<1>6. ModesAgree' BY <1>1 DEF ModesAgree
<1> QED BY <1>2, <1>3, <1>4, <1>5, <1>6

\* Pausing takes the interval away, playing makes one.
LEMMA TogglePlayHolds == ASSUME IInv, TogglePlay PROVE IInv'
<1> USE DEF IInv
<1>1. UNCHANGED <<text, happy, input, param, steps, cur, query, searching, page>>
  BY DEF TogglePlay
<1>2. playing' \in BOOLEAN /\ timers' = (IF playing' THEN 1 ELSE 0)
  <2>1. playing' = ~playing /\ timers' = (IF playing THEN timers - 1 ELSE timers + 1)
    BY DEF TogglePlay
  <2>2. timers = IF playing THEN 1 ELSE 0 BY DEF ModesAgree
  <2>3. playing' \in BOOLEAN BY <2>1, Zenon
  <2>4. CASE playing
    <3>1. playing' = FALSE BY <2>1, <2>4, Zenon
    <3>2. timers' = 1 - 1 BY <2>1, <2>2, <2>4, Zenon
    <3> QED BY <2>3, <3>1, <3>2
  <2>5. CASE ~playing
    <3>1. playing' = TRUE BY <2>1, <2>5, Zenon
    <3>2. timers' = 0 + 1 BY <2>1, <2>2, <2>5, Zenon
    <3> QED BY <2>3, <3>1, <3>2
  <2> QED BY <2>4, <2>5
<1>3. TypeOK' BY <1>1, <1>2 DEF TypeOK, page
<1>4. StepsCurrent' BY <1>1 DEF StepsCurrent
<1>5. NodesShowStep' BY <1>1 DEF NodesShowStep, page
<1>6. DetailsShowStep' BY <1>1 DEF DetailsShowStep, page
<1>7. ModesAgree' BY <1>1, <1>2 DEF ModesAgree
<1> QED BY <1>3, <1>4, <1>5, <1>6, <1>7

\* A step that at most changes what is typed in a parameter field.
LEMMA TypingHolds ==
  ASSUME IInv, input' \in Params,
         UNCHANGED <<text, happy, param, steps, cur, query, searching, playing,
                     timers, page>>
  PROVE  IInv'
BY DEF IInv, TypeOK, StepsCurrent, NodesShowStep, DetailsShowStep, ModesAgree, page

\* Every handler keeps the page in order.
LEMMA NextHolds == IInv /\ [Next]_vars => IInv'
<1> SUFFICES ASSUME IInv, [Next]_vars PROVE IInv' OBVIOUS
<1>1. cur \in Int /\ Len(steps) \in Int
  BY LenProperties DEF IInv, TypeOK
<1>2. ASSUME NEW t \in Texts, Visualize(t) PROVE IInv' BY <1>2, VisualizeHolds
<1>3. CASE Navigate
  BY <1>1, <1>3, GoToHolds DEF Navigate
<1>4. CASE TogglePlay BY <1>4, TogglePlayHolds
<1>5. CASE Tick
  BY <1>1, <1>5, GoToHolds, TogglePlayHolds DEF Tick
<1>6. ASSUME NEW q \in Queries, Search(q) PROVE IInv' BY <1>6, SearchHolds
<1>7. CASE ClearSearch BY <1>7, ClearSearchHolds
<1>8. CASE ToggleHappy
  <2>1. happy' \in BOOLEAN BY <1>8 DEF ToggleHappy, IInv, TypeOK
  <2> QED BY <1>8, <2>1, RebuildHolds DEF ToggleHappy
<1>9. ASSUME NEW v \in Params, TypeParam(v) PROVE IInv'
  BY <1>9, TypingHolds DEF TypeParam, page
<1>10. CASE CommitParam
  <2>1. happy' \in BOOLEAN BY <1>10 DEF CommitParam, IInv, TypeOK
  <2> QED BY <1>10, <2>1, RebuildHolds DEF CommitParam
<1>11. CASE UNCHANGED vars
  BY <1>11, TypingHolds DEF vars, page, IInv, TypeOK
<1> QED
  BY <1>2, <1>3, <1>4, <1>5, <1>6, <1>7, <1>8, <1>9, <1>10, <1>11 DEF Next

\* The page is in order in every state of every behaviour.
THEOREM PageInvariant == Spec => []IInv
BY InitHolds, NextHolds, PTL DEF Spec

\* The current step is always one of the steps, after a rebuild that leaves
\* fewer of them as well (index.html:833).
THEOREM TypeTheorem == Spec => []TypeOK
<1>1. IInv => TypeOK BY DEF IInv
<1> QED BY <1>1, PageInvariant, PTL

\* The steps played are always those of the graph, the check box and the
\* parameter last applied (index.html:822-859).
THEOREM StepsTheorem == Spec => []StepsCurrent
<1>1. IInv => StepsCurrent BY DEF IInv
<1> QED BY <1>1, PageInvariant, PTL

\* Outside a search the boxes and values are the current step's
\* (index.html:457-486).
THEOREM NodesTheorem == Spec => []NodesShowStep
<1>1. IInv => NodesShowStep BY DEF IInv
<1> QED BY <1>1, PageInvariant, PTL

\* From the first executed step on, the arrows, the step line and the buttons
\* are too (index.html:493-514, :791-796).
THEOREM DetailsTheorem == Spec => []DetailsShowStep
<1>1. IInv => DetailsShowStep BY DEF IInv
<1> QED BY <1>1, PageInvariant, PTL

\* One interval during playback and none otherwise; text in the search box
\* during a search and none otherwise (index.html:783, :799-812).
THEOREM ModesTheorem == Spec => []ModesAgree
<1>1. IInv => ModesAgree BY DEF IInv
<1> QED BY <1>1, PageInvariant, PTL
=============================================================================
