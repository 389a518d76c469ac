---------------------------- MODULE StepBuilder ----------------------------
(***************************************************************************)
(* How index.html turns a parsed graph into the steps the visualizer       *)
(* plays: classifyExceptionNodes (ExceptionPaths), topoLevels, here one    *)
(* action per level (TopoLevels has its inner loops), filterLevels when    *)
(* the box "Happy path only" is checked, and buildSteps, one action per id *)
(* of a level and two per level.                                           *)
(***************************************************************************)
EXTENDS ExceptionPaths, IRValues

CONSTANT Params      \* the numbers the parameter fields can hold

\* C2 gives a node itself as an input only where the input is control.
ASSUME SelfInputsAssumption ==
  \A G \in Graphs : \A n \in DOMAIN G :
    n \in InputIds(G, n) => G[n].type \in {"Root", "Start", "Region", "Loop"}

VARIABLES param,                     \* what the parameter field holds
          hidden,                    \* the ids filterLevels takes out
          levels,                    \* the levels still to turn into steps
          todo,                      \* the ids of the current level left
          activeEdges, completedNodes, completedEdges, nodeValues, steps,
          pc                         \* "order", "filter", "next", "level" or "done"

buildVars == <<param, hidden, levels, todo, activeEdges,
               completedNodes, completedEdges, nodeValues, steps, pc>>

Step(active, edges, doneNodes, doneEdges, values) ==
  [activeNodes |-> active, activeEdges |-> edges, completedNodes |-> doneNodes,
   completedEdges |-> doneEdges, values |-> values]

NoValues == [n \in DOMAIN nodes |-> Nothing]

BuildInit ==
  /\ Init
  /\ param \in Params
  /\ hidden = {} /\ levels = <<>>
  /\ todo = {} /\ activeEdges = {}
  /\ completedNodes = {} /\ completedEdges = {}
  /\ nodeValues = NoValues
  /\ steps = <<Step({}, {}, {}, {}, NoValues)>>
  /\ pc = "order"

Classify == Next /\ UNCHANGED buildVars

\* The nodes of the levels so far, and those with every data input among them.
Placed == UNION ToSet(levels)

\* Mutant: a node joins the level as soon as one input is there.
ReadyAnyInput ==
  {n \in DOMAIN nodes \ Placed :
     \A e \in DataEdges(nodes) : e[2] = n =>
       \E f \in DataEdges(nodes) : f[2] = n /\ f[1] \in Placed}

Ready ==
  {n \in DOMAIN nodes \ Placed :
     \A e \in DataEdges(nodes) : e[2] = n => e[1] \in Placed}

TakeLevel ==
  /\ walk = "done" /\ pc = "order" /\ Ready # {}
  /\ levels' = Append(levels, Ready)
  /\ UNCHANGED <<vars, param, hidden, todo, activeEdges, completedNodes,
                 completedEdges, nodeValues, steps, pc>>

\* The nodes in and behind cycles make the last level.
TakeRest ==
  /\ walk = "done" /\ pc = "order" /\ Ready = {}
  /\ levels' = IF Placed = DOMAIN nodes THEN levels
               ELSE Append(levels, DOMAIN nodes \ Placed)
  /\ pc' = "filter"
  /\ UNCHANGED <<vars, param, hidden, todo, activeEdges, completedNodes,
                 completedEdges, nodeValues, steps>>

\* The box is checked, and there is an exception path, or not.
Filter ==
  /\ pc = "filter"
  /\ hidden' \in {{}, exceptionOnly}
  /\ levels' = FilterLevels(levels, hidden')
  /\ pc' = "next"
  /\ UNCHANGED <<vars, param, todo, activeEdges, completedNodes,
                 completedEdges, nodeValues, steps>>

BeginLevel ==
  /\ pc = "next" /\ levels # <<>>
  /\ todo' = Head(levels)
  /\ activeEdges' = {}
  /\ pc' = "level"
  /\ UNCHANGED <<vars, param, hidden, levels, completedNodes,
                 completedEdges, nodeValues, steps>>

\* The values of a node's inputs, a placeholder's and a missing one's being
\* undefined.
InputValues(n) ==
  [i \in DOMAIN nodes[n].in |->
     IF nodes[n].in[i] \in DOMAIN nodes THEN nodeValues[nodes[n].in[i]]
     ELSE Nothing]

\* A level is computed in the order of its array: any order in a level that
\* nothing in it feeds, ascending ids in the last level of a cyclic graph.
Cyclic(level) == \E e \in DataEdges(nodes) : e[1] \in level /\ e[2] \in level

Due == {n \in todo : Cyclic(Head(levels)) => \A m \in todo : n <= m}

Compute(n) ==
  /\ pc = "level" /\ n \in Due
  /\ nodeValues' = [nodeValues EXCEPT ![n] =
                      ComputeValue(nodes[n], InputValues(n), param)]
  /\ activeEdges' = activeEdges \cup {e \in DataEdges(nodes) : e[2] = n}
  /\ todo' = todo \ {n}
  /\ UNCHANGED <<vars, param, hidden, levels, completedNodes,
                 completedEdges, steps, pc>>

\* Mutant: the steps share one values object.
EndLevelShares ==
  /\ pc = "level" /\ todo = {}
  /\ steps' = [k \in 1..(Len(steps) + 1) |->
                 IF k <= Len(steps) THEN [steps[k] EXCEPT !.values = nodeValues]
                 ELSE Step(Head(levels), activeEdges, completedNodes,
                           completedEdges, nodeValues)]
  /\ completedNodes' = completedNodes \cup Head(levels)
  /\ completedEdges' = completedEdges \cup activeEdges
  /\ levels' = Tail(levels)
  /\ pc' = "next"
  /\ UNCHANGED <<vars, param, hidden, todo, activeEdges, nodeValues>>

\* The step is cut before the level counts as completed, with copies of what
\* will go on changing.
EndLevel ==
  /\ pc = "level" /\ todo = {}
  /\ steps' = Append(steps, Step(Head(levels), activeEdges, completedNodes,
                                 completedEdges, nodeValues))
  /\ completedNodes' = completedNodes \cup Head(levels)
  /\ completedEdges' = completedEdges \cup activeEdges \cup
       {e \in DataEdges(nodes) : {e[1], e[2]} \subseteq completedNodes'}
  /\ levels' = Tail(levels)
  /\ pc' = "next"
  /\ UNCHANGED <<vars, param, hidden, todo, activeEdges, nodeValues>>

Return ==
  /\ pc = "next" /\ levels = <<>>
  /\ pc' = "done"
  /\ UNCHANGED <<vars, param, hidden, levels, todo, activeEdges,
                 completedNodes, completedEdges, nodeValues, steps>>

BuildNext ==
  \/ Classify \/ TakeLevel \/ TakeRest \/ Filter
  \/ BeginLevel \/ (\E n \in todo : Compute(n)) \/ EndLevel \/ Return

BuildSpec == BuildInit /\ [][BuildNext]_<<vars, buildVars>>
-----------------------------------------------------------------------------
\* The steps of a level that a cycle leaves unordered.
UnorderedSteps == {k \in 1..Len(steps) : Cyclic(steps[k].activeNodes)}

\* Data moves forward: an edge lights up when its source has executed in an
\* earlier step, or is hidden, or a cycle leaves no order; and so no input comes
\* too late: what a node showed when it executed is what it would show if it were
\* computed again from the final values.
ValuesAreFinal ==
  \A k \in (1..Len(steps)) \ UnorderedSteps :
    /\ \A e \in steps[k].activeEdges : e[1] \in steps[k].completedNodes \cup hidden
    /\ pc = "done" =>
         \A n \in steps[k].activeNodes :
           nodeValues[n] = ComputeValue(nodes[n], InputValues(n), param)

\* A step shows the values of the nodes executed so far and of no other, and
\* goes on showing them: a step is a snapshot, not a view of the final state.
StepsAreSnapshots ==
  \A k \in 1..Len(steps) : \A n \in DOMAIN nodes :
    /\ steps[k].values[n] # Nothing =>
         n \in steps[k].completedNodes \cup steps[k].activeNodes
    /\ \A l \in k..Len(steps) : n \in steps[k].completedNodes =>
         steps[l].values[n] = steps[k].values[n]

\* With "Happy path only" the steps execute everything except the exception
\* path, which is what only a Rethrow depends on (test.html:699), without it
\* everything; in either case once.
ShownPath ==
  pc = "done" =>
    /\ hidden # {} => hidden = ExceptionOnly(nodes)
    /\ UNION {steps[k].activeNodes : k \in 1..Len(steps)} = DOMAIN nodes \ hidden
    /\ \A k, l \in 1..Len(steps) :
         k # l => steps[k].activeNodes \cap steps[l].activeNodes = {}
=============================================================================
