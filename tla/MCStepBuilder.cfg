CONSTANTS
  Graphs <- MCGraphs
  Params <- MCParams
SPECIFICATION BuildSpec
INVARIANTS ValuesAreFinal StepsAreSnapshots ShownPath
CHECK_DEADLOCK FALSE
