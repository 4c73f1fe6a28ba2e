SPECIFICATION Spec
CONSTANTS
    Nodes = {n1, n2, n3, n4}
    Graphs <- MCGraphs
SYMMETRY Symm
INVARIANTS
    ComponentsExact
    TopoOrder
