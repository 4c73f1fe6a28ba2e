SPECIFICATION runFairSpec
CONSTANTS
    Nodes <- MCNodes
    Graphs <- MCGraphs
    BaseObjs <- MCBaseObjs
    Objs <- MCObjs
    BaseOf <- MCBaseOf
    Heaps <- MCHeaps
    Programs <- MCPrograms
    Globals <- MCGlobals
    HeapObjs = {"h"}
    Owner <- MCOwner
    MaxDepth = 3
    MaxPointers = 3
\* The program may end.
CHECK_DEADLOCK FALSE
INVARIANTS
    EffectsExact
    RegionsSplit
    DefsReachUses
    OptimisedAlike
PROPERTY SVFGEnds
