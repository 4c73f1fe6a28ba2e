SPECIFICATION Spec
CONSTANTS
    Vars <- SVFGVars
    Objs <- SVFGObjs
    Programs <- MCPrograms
    Threads = {1, 2}
\* The analysis is done when no call is resolved any more.
CHECK_DEADLOCK FALSE
INVARIANTS
    FlowExact
    VersionsExact
PROPERTY FlowSensitiveEnds
