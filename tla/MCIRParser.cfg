CONSTANT Dumps <- MCDumps
SPECIFICATION Spec
INVARIANTS EdgesAreComplete ReturnIndexPointsAtValue PlainLinksAreEdges
CHECK_DEADLOCK FALSE
