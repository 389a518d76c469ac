--------------------------- MODULE DataflowOrder ---------------------------
(***************************************************************************)
(* What the visualizer promises about the order in which it "executes" a   *)
(* C2 graph (make/plans/dynamic-ir/plan.md: "how data that comes into the  *)
(* IR can move through the graph at each step"): a step fires every node   *)
(* all of whose data inputs have fired in earlier steps, and only when no  *)
(* node is ready and some are left, because of a cycle, do the nodes that  *)
(* are left fire together.  TopoLevels implements it.                      *)
(***************************************************************************)
CONSTANTS Node,     \* the node ids of the IR
          Graphs    \* the sets of data edges <<from, to>> considered

VARIABLES edges,    \* the data edges of the graph being executed
          fired     \* the nodes that have been executed

vars == <<edges, fired>>

Ready == {n \in Node \ fired : \A e \in edges : e[2] = n => e[1] \in fired}

Init == edges \in Graphs /\ fired = {}

\* One step of the execution: every ready node at once.
FireReady ==
  /\ Ready # {}
  /\ fired' = fired \cup Ready
  /\ UNCHANGED edges

\* The last step of a cyclic graph.
FireRest ==
  /\ Ready = {}
  /\ fired # Node
  /\ fired' = Node
  /\ UNCHANGED edges

Next == FireReady \/ FireRest

Spec == Init /\ [][Next]_vars /\ WF_vars(Next)
=============================================================================
