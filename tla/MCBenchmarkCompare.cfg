CONSTANTS
  Directories <- MCDirectories
  BenchOrder <- MCBenchOrder
SPECIFICATION Spec
INVARIANTS ComparesCounterparts NothingDropped TableInOrder
CHECK_DEADLOCK FALSE
