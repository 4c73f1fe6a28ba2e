SPECIFICATION FairSpec
CONSTANTS
    Programs <- TestPrograms
    MaxContextLen = 3
    MaxInstances = 4
INVARIANTS
    ForkJoinSound
    ParallelReported
    JoinedApart
PROPERTY MHPEnds

CHECK_DEADLOCK FALSE
