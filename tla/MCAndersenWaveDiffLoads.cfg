SPECIFICATION Spec
CONSTANTS
    Vars <- MCVars
    BaseObjs <- MCBaseObjs
    FieldObjs <- MCFieldObjs
    BaseOf <- MCBaseOf
    FieldIdx <- MCFieldIdx
    NumFields <- MCNumFields
    Opaque <- MCOpaque
    Constants <- MCConstants
    IndirectCallLimit = 2
    Programs <- LoadPrograms
INVARIANT LoadStoreClosed
