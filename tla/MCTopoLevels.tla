---------------------------- MODULE MCTopoLevels ----------------------------
(* Every simple graph of at most MaxEdges data edges on four nodes.          *)
EXTENDS TopoLevels, FiniteSetsExt

CONSTANT MaxEdges

MCNode == 1..4

MCGraphs ==
  LET Pairs == {e \in MCNode \X MCNode : e[1] # e[2]}
  IN  UNION {kSubset(k, Pairs) : k \in 0..MaxEdges}
=============================================================================
