CONSTANT
    Trees <- MCTrees
SPECIFICATION Spec
INVARIANT DecodedIsNotFolded
CHECK_DEADLOCK FALSE
