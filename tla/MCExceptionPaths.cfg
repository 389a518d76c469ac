CONSTANT Graphs <- MCGraphs
SPECIFICATION Spec
INVARIANTS FrontierComplete ClassifiesReachability HappyPathIsClosed
PROPERTY Terminates
CHECK_DEADLOCK FALSE
