SPECIFICATION PointsToSpec
CONSTANTS
    Keys = {p, q}
    Objects = {o1, o2, o3}
    MaxId = 3
    MaxCached = 2
    MaxUsed = 2
SYMMETRY Symm
CONSTRAINTS
    FewOps
    FewObjects
    NotCleared
INVARIANTS
    IdsAreSets
    CachedResultsSound
    AnswersCorrect
    RevPtsExact
    BackendsAgree
PROPERTIES
    IdsAreStable
    ImplementsDiffPTData
