SPECIFICATION Spec
CONSTANTS
    Vars <- SVFGVars
    Objs <- SVFGObjs
    Programs <- MCPrograms
    Budgets = {3, 7, 100}
    Unlimited = 100
    MaxQueries = 2
\* The queries are answered.
CHECK_DEADLOCK FALSE
INVARIANTS
    DDAPrecise
    DDAComplete
PROPERTY DDAEnds
