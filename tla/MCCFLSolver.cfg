SPECIFICATION Spec
CONSTANTS
    Addr = addr
    AddrBar = addrbar
    Copy = copy
    CopyBar = copybar
    Plain = plain
    Call1 = callA
    Ret1 = retA
    Call2 = callB
    Ret2 = retB
    A = A
    F = F
    V = V
    Y1 = X1
    Y2 = X2
    Problems <- MCProblems
    Solvers <- MCSolvers
CHECK_DEADLOCK FALSE
INVARIANTS
    EdgesDerivable
    SolverCloses
