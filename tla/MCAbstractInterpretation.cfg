SPECIFICATION FairSpec
CONSTANTS
    Programs <- ProgramSet
    Delays = {1, 3}
    Recursions = {"WIDEN_ONLY", "WIDEN_NARROW"}
    Main = "main"
    None = None
    Infinity = 1000
INVARIANTS WTOValid Sound
PROPERTIES LoopsClosed AEEnds
