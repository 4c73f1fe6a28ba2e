SPECIFICATION FairSpec
CONSTANTS
    Vars <- MCVars
    BaseObjs <- MCBaseObjs
    FieldObjs <- MCFieldObjs
    BaseOf <- MCBaseOf
    FieldIdx <- MCFieldIdx
    NumFields <- MCNumFields
    Opaque <- MCOpaque
    Constants <- MCConstants
    IndirectCallLimit = 2
    Programs <- MCPrograms
INVARIANTS
    RepConsistent
    PropagatedArrived
    ResultCloses
    Precise
PROPERTIES
    PtsGrow
    Terminates
