CONSTANTS
  Node <- MCNode
  Graphs <- MCGraphs
  MaxEdges = 4
SPECIFICATION Spec
INVARIANTS IInv ExactlyOnce OnlyCyclesAreUnordered AsEarlyAsPossible
PROPERTIES Implements Terminates
CHECK_DEADLOCK FALSE
