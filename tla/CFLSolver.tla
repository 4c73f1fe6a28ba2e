----------------------------- MODULE CFLSolver -----------------------------
(***************************************************************************)
(* Context-free-language reachability: the solvers of svf/lib/CFL/         *)
(* CFLSolver.cpp and the rounds of CFLAlias.cpp around them.  An edge is   *)
(* <<source, symbol, target>>.  CFLSolver reads the graph itself; POCR and *)
(* POCRHybrid keep tables of successors and predecessors next to it.       *)
(*                                                                         *)
(* The work list is a set of which any edge may be next: the order of the  *)
(* FIFO list comes from hash sets of pointers.  The productions of one     *)
(* kind are applied at once.                                               *)
(***************************************************************************)
EXTENDS FiniteSets, Digraphs

CONSTANTS
    Problems,    \* [nodes, graph: edges, epsilon: {X}, single: {<<X, Y>>},
                 \*  pair: {<<X, Y, Z>>}, targets]; a target is a callee of an
                 \* indirect call, [when: edge, copies: {<<source, target>>}]
    Solvers,     \* among "CFL", "POCR", "POCRHybrid"
    F,           \* the transitive symbol POCRHybrid treats by itself
    Copy, CopyBar

\* Graphs and grammars are finite, and edges join nodes.
ASSUME ProblemsAssumption ==
    \A p \in Problems :
        /\ IsFiniteSet(p.nodes) /\ IsFiniteSet(p.graph)
        /\ IsFiniteSet(p.epsilon) /\ IsFiniteSet(p.single) /\ IsFiniteSet(p.pair)
        /\ \A e \in p.graph : e \in p.nodes \X {e[2]} \X p.nodes
        /\ \A t \in p.targets : t.copies \subseteq p.nodes \X p.nodes

VARIABLES
    prob, solver,
    phase,       \* "initialize", "solve", "update" or "done"
    edges,       \* cflEdgeSet of the graph
    worklist,
    succMap, predMap,   \* the edges in POCR's tables
    succKeys,    \* the nodes with an entry in succMap, empty or not
    connected    \* targets in the call graph

vars == <<prob, solver, phase, edges, worklist, succMap, predMap, succKeys, connected>>
tables == <<succMap, predMap, succKeys>>

Sources(E) == {e[1] : e \in E}

\* The constructor of POCRSolver copies the graph into the tables (buildCFLData).
Init ==
    /\ prob \in Problems /\ solver \in Solvers
    /\ phase = "initialize"
    /\ edges = prob.graph /\ worklist = {} /\ connected = {}
    /\ succMap = (IF solver = "CFL" THEN {} ELSE prob.graph)
    /\ predMap = succMap
    /\ succKeys = Sources(succMap)

-----------------------------------------------------------------------------
(* What an edge gives by one production, with the edges E of a table.      *)

BySingle(p, e)    == IF p[2] = e[2] THEN {<<e[1], p[1], e[3]>>} ELSE {}
ByFirst(p, e, E)  == IF p[2] = e[2]
                       THEN {<<e[1], p[1], z[3]>> : z \in {z \in E : z[1] = e[3] /\ z[2] = p[3]}}
                       ELSE {}
\* Mutant: the symbol of the incoming edge is not looked at.
BySecondAny(p, e, E) == IF p[3] = e[2]
                          THEN {<<y[1], p[1], e[3]>> : y \in {y \in E : y[3] = e[1]}} ELSE {}
\* Mutant: an edge is combined with outgoing edges only.
BySecondNone(p, e, E) == {}
BySecond(p, e, E) == IF p[3] = e[2]
                       THEN {<<y[1], p[1], e[3]>> : y \in {y \in E : y[3] = e[1] /\ y[2] = p[2]}}
                       ELSE {}

Singles(e)    == UNION {BySingle(p, e) : p \in prob.single}
Firsts(e, E)  == {ByFirst(p, e, E) : p \in prob.pair}
Seconds(e, E) == {BySecond(p, e, E) : p \in prob.pair}

Loops(N) == {<<n, x, n>> : n \in N, x \in prob.epsilon}

\* initialize: every edge is visited (again), and X -> epsilon gives a loop at
\* every node of the graph, or of POCR's successor table.
Initialize ==
    /\ phase = "initialize" /\ phase' = "solve"
    /\ IF solver = "CFL"
         THEN /\ edges' = edges \cup Loops(prob.nodes)
              /\ worklist' = edges'
              /\ UNCHANGED tables
         ELSE LET new == Loops(succKeys) \ predMap
              IN  /\ edges' = edges \cup new
                  /\ worklist' = edges'
                  /\ succMap' = succMap \cup Loops(succKeys)
                  /\ predMap' = predMap \cup Loops(succKeys)
                  /\ UNCHANGED succKeys
    /\ UNCHANGED <<prob, solver, connected>>

\* CFLSolver::processCFLEdge
ProcessCFL(e) ==
    LET E1 == edges \cup Singles(e)
        E2 == E1 \cup UNION Firsts(e, E1)
        E3 == E2 \cup UNION Seconds(e, E2)
    IN  /\ edges' = E3
        /\ worklist' = (worklist \ {e}) \cup (E3 \ edges)
        /\ UNCHANGED tables

\* POCRHybridSolver leaves F -> F F to addArc, which returns at once because an
\* edge is in the tables before it is in the work list.
Combined(p) == ~(solver = "POCRHybrid" /\ p = <<F, F, F>>)

\* addEdges returns before the second table when the first does not change.
Changed(batches, E) == UNION {b \in batches : ~(b \subseteq E)}

\* POCRSolver::processCFLEdge and POCRHybridSolver::processCFLEdge
ProcessPOCR(e) ==
    LET single == Singles(e)
        succ1  == succMap \cup single
        pred1  == predMap \cup single
        first  == Changed({ByFirst(p, e, succ1) : p \in {p \in prob.pair : Combined(p)}}, succ1)
        succ2  == succ1 \cup first
        pred2  == pred1 \cup first
        second == Changed({BySecond(p, e, pred2) : p \in {p \in prob.pair : Combined(p)}}, pred2)
        new    == (single \ predMap) \cup (first \ pred1) \cup (second \ succ2)
    IN  /\ succMap' = succ2 \cup second
        /\ predMap' = pred2 \cup second
        /\ edges' = edges \cup new
        /\ worklist' = (worklist \ {e}) \cup new
        \* operator[] makes an entry for the target of e as well.
        /\ succKeys' = succKeys \cup Sources(single \cup first \cup second)
                         \cup (IF \E p \in prob.pair : p[2] = e[2] /\ Combined(p)
                                 THEN {e[3]} ELSE {})

Process ==
    /\ phase = "solve"
    /\ \E e \in worklist : IF solver = "CFL" THEN ProcessCFL(e) ELSE ProcessPOCR(e)
    /\ UNCHANGED <<prob, solver, phase, connected>>

Solved ==
    /\ phase = "solve" /\ worklist = {} /\ phase' = "update"
    /\ UNCHANGED <<prob, solver, edges, worklist, succMap, predMap, succKeys, connected>>

-----------------------------------------------------------------------------
(* CFLAlias: resolve indirect calls by the edges found, and go on while    *)
(* that added any edge.                                                    *)

\* addCopyEdge: into the graph and the work list, not into POCR's tables.
CopyEdges(copies) ==
    LET missing == {c \in copies : <<c[1], Copy, c[2]>> \notin edges}
    IN  {<<c[1], Copy, c[2]>> : c \in missing} \cup {<<c[2], CopyBar, c[1]>> : c \in missing}

UpdateCallGraph ==
    /\ phase = "update"
    /\ LET new  == {t \in prob.targets \ connected : t.when \in edges}
           copy == CopyEdges(UNION {t.copies : t \in new})
       IN  /\ connected' = connected \cup new
           /\ edges' = edges \cup copy
           /\ worklist' = copy
           /\ phase' = (IF copy = {} THEN "done" ELSE "initialize")
    /\ UNCHANGED <<prob, solver, succMap, predMap, succKeys>>

Next == Initialize \/ Process \/ Solved \/ UpdateCallGraph

Spec == Init /\ [][Next]_vars

-----------------------------------------------------------------------------
ClosedSingle(E) == \A e \in E : Singles(e) \subseteq E
ClosedPair(E)   == \A e \in E : UNION Firsts(e, E) \subseteq E
Closed(E)       == Loops(prob.nodes) \subseteq E /\ ClosedSingle(E) /\ ClosedPair(E)

Consequences(E) == E \cup UNION {Singles(e) \cup UNION Firsts(e, E) : e \in E}

Symbols == {e[2] : e \in prob.graph} \cup prob.epsilon \cup {Copy, CopyBar}
             \cup {p[1] : p \in prob.single \cup prob.pair}

\* The least closed set that holds E, in rounds.
Derivable(E) ==
    Limit([S \in SUBSET (prob.nodes \X Symbols \X prob.nodes) |-> Consequences(S)], E)

AllCopies(targets) ==
    LET copies == UNION {t.copies : t \in targets}
    IN  {<<c[1], Copy, c[2]>> : c \in copies} \cup {<<c[2], CopyBar, c[1]>> : c \in copies}

\* No edge without a derivation from the graph, the loops and the calls resolved.
EdgesDerivable ==
    edges \subseteq Derivable(prob.graph \cup Loops(prob.nodes) \cup AllCopies(connected))

\* When the work list of CFLSolver is empty nothing can be derived any more,
\* although an edge is combined with others only when it is visited.
CFLCloses == solver = "CFL" /\ phase \in {"update", "done"} => Closed(edges)

\* What POCR's solvers leave out: loops at nodes without an entry, combinations
\* with an edge that is in the graph only, and F -> F F of POCRHybrid.
POCRCloses ==
    solver # "CFL" =>
        /\ succMap = predMap /\ succMap \subseteq edges
        /\ phase \in {"update", "done"} =>
             /\ worklist = {} /\ ClosedSingle(edges)
             /\ \A p \in prob.pair : Combined(p) =>
                  \A e \in succMap : ByFirst(p, e, succMap) \subseteq succMap

\* Either way the solver does not stop before what it combines is closed.
SolverCloses == CFLCloses /\ POCRCloses
=============================================================================
