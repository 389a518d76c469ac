CONSTANT
    Trees <- MCTrees
SPECIFICATION Spec
INVARIANTS
    IInv
    LeastCost
    ClosedUnderChains
    EveryNodeSelects
    Commutes
    FoldsIndex
    FusesSameAddress
    FoldsWholeVectors
    BarriersKept
    BranchFollowsCompare
CHECK_DEADLOCK FALSE
