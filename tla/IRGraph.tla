------------------------------ MODULE IRGraph ------------------------------
(***************************************************************************)
(* The graph that ir-core.js works on.  parseIR returns an object keyed by *)
(* node id; here it is a function from ids to records                      *)
(*   type  the node's type, of which the code tells the families apart,    *)
(*   in    node.inputs: an array of ids, Gap where the line has a "_",     *)
(*   ret   node.returnValIdx, from 1 on, or 0 for the code's -1,           *)
(*   arg   <<the number>> a constant or a parameter's label carries, or <<>>.  *)
(***************************************************************************)
EXTENDS Integers, FiniteSets, Sequences, SequencesExt

Gap == -1

\* What a filter leaves of an array: the elements at the places in P, each at the
\* place it has among those.
Rank(P, i) == Cardinality({j \in P : j <= i})

Selected(s, P) ==
  [k \in 1..Cardinality(P) |-> s[CHOOSE i \in P : Rank(P, i) = k]]

\* node.inputIds: the inputs without the placeholders.
InputIds(nodes, n) == ToSet(nodes[n].in) \ {Gap}

OfType(nodes, T) == {n \in DOMAIN nodes : nodes[n].type = T}

\* Constants of every kind: the code asks startsWith('Con'), which the
\* conversions ConvI2L and ConvL2I answer as well.
IsCon(type) == type \in {"Con", "Conv"}

Structural(nodes, a, b) ==
  \/ a = b
  \/ nodes[a].type = "Root"  /\ nodes[b].type = "Start"
  \/ nodes[a].type = "Start" /\ nodes[b].type = "Root"
  \/ nodes[a].type = "Root"  /\ IsCon(nodes[b].type)

\* The edges of buildEdges, as a set: no self-loop, no edge to a node that was
\* not parsed.
Edges(nodes) ==
  {e \in (DOMAIN nodes) \X (DOMAIN nodes) :
     e[1] # e[2] /\ e[1] \in InputIds(nodes, e[2])}

DataEdges(nodes) == {e \in Edges(nodes) : ~Structural(nodes, e[1], e[2])}

\* A step applied to a start value as often as the graph has nodes, which is
\* as often as it can still change anything.
Iterate(nodes, Grow(_), start) ==
  FoldLeft(LAMBDA x, k : Grow(x), start, [k \in 1..Cardinality(DOMAIN nodes) |-> k])

\* topoLevels on its own terms, for the modules that only need its result: the
\* nodes all of whose inputs are in the levels so far make the next one, and
\* what is left when there are none makes the last.
Levels(nodes) ==
  LET N == DOMAIN nodes
      E == DataEdges(nodes)
      Done(ls) == UNION ToSet(ls)
      Ready(S) == {n \in N \ S : \A e \in E : e[2] = n => e[1] \in S}
      NonEmpty(ls, l) == IF l = {} THEN ls ELSE Append(ls, l)
      Ordered == Iterate(nodes, LAMBDA ls : NonEmpty(ls, Ready(Done(ls))), <<>>)
  IN  NonEmpty(Ordered, N \ Done(Ordered))

\* Mutant: a level is dropped when something in it is.
FilterLevelsWhole(levels, exclude) ==
  Selected(levels, {i \in DOMAIN levels : levels[i] \cap exclude = {}})

\* filterLevels: the ids left, level by level, empty levels dropped.
FilterLevels(levels, exclude) ==
  LET left == [i \in DOMAIN levels |-> levels[i] \ exclude]
  IN  Selected(left, {i \in DOMAIN left : left[i] # {}})

\* What a backward walk from the seeds should reach: what is in every set that
\* holds the seeds and, of its members but Root and Start, all inputs.
Inner(nodes, n) == nodes[n].type \notin {"Root", "Start"}

Closed(nodes, S) ==
  \A n \in S : Inner(nodes, n) => InputIds(nodes, n) \cap DOMAIN nodes \subseteq S

BackwardFrom(nodes, seeds) ==
  {n \in DOMAIN nodes :
     \A S \in SUBSET DOMAIN nodes : seeds \subseteq S /\ Closed(nodes, S) => n \in S}

ExceptionOnly(nodes) ==
  BackwardFrom(nodes, OfType(nodes, "Rethrow"))
    \ BackwardFrom(nodes, OfType(nodes, "Return"))
=============================================================================
