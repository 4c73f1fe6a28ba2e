SPECIFICATION Spec
CONSTANTS
    Programs <- MCPrograms
    MaxCxtLen = 2
    MaxStep = 2
    MaxDepth = 3
\* All sources are analysed.
CHECK_DEADLOCK FALSE
INVARIANTS
    BugsFound
    AlarmsReal
PROPERTY SaberEnds
