-------------------------- MODULE AndersenWaveDiff --------------------------
(***************************************************************************)
(* The wave-propagation solver for inclusion constraints that every other  *)
(* analysis of SVF starts from: svf/lib/WPA/AndersenWaveDiff.cpp on top of *)
(* Andersen.cpp, WPASolver.h and the constraint graph of Graphs/ConsG.cpp. *)
(*                                                                         *)
(* One round of the solver is                                              *)
(*   scc    detect the cycles of copy and gep edges and merge each into    *)
(*          one node (SCCDetect, mergeSccCycle);                           *)
(*   wave   visit the nodes in topological order; each propagates what it  *)
(*          has not propagated yet (processNode), and objects that became  *)
(*          field-insensitive are collapsed on the way;                    *)
(*   post   for the nodes whose points-to set changed, turn loads and      *)
(*          stores into copy edges (postProcessNode);                      *)
(*   calls  connect the parameters of newly resolved indirect calls        *)
(*          (updateCallGraph);                                             *)
(* and rounds repeat while one of them sets `reanalyze'.                   *)
(*                                                                         *)
(* A statement is in the model when both its operands are pointers; the    *)
(* code skips the others when it builds or uses the edge.                  *)
(***************************************************************************)
EXTENDS Integers, FiniteSets, Digraphs

CONSTANTS
    Vars,       \* top-level pointers (ValVars)
    BaseObjs,   \* memory objects (BaseObjVars), functions among them
    FieldObjs,  \* field objects (GepObjVars)
    BaseOf,     \* [object -> the base object it is, or is a field of]
    FieldIdx,   \* [field object -> its field index]
    NumFields,  \* [base object -> getMaxFieldOffsetLimit()]
    Opaque,     \* isBlkObjOrConstantObj: never split into fields or collapsed
    Constants,  \* isConstantObj: loads and stores through them are skipped
    IndirectCallLimit,  \* the option: how many indirect calls are resolved at most
    Programs    \* the inputs, see IsProgram

Objs  == BaseObjs \cup FieldObjs
Nodes == Vars \cup Objs

Variant == -1              \* the offset of a VariantGep edge
Offsets == Nat \cup {Variant}

(***************************************************************************)
(* An input: the pointer assignments of SVFIR.  addr is <<object, p>> for  *)
(* p = &object, copy <<q, p>> for p = q, gep <<q, p, k>> for p = &q->k,    *)
(* load <<q, p>> for p = *q, store <<q, p>> for *p = q, calls <<fp, actual,*)
(* result>> for result = fp(actual) through a function pointer, funs the   *)
(* <<formal, returned value>> of each function object, matchArgs the       *)
(* <<call, function>> pairs that agree in the number of arguments, and     *)
(* insensitive the objects that are field-insensitive from the start.      *)
(* LLVM's values have one definition: what a gep defines, nothing else     *)
(* does, itself included.                                                  *)
(***************************************************************************)
DefinedByGep(p) == {e[2] : e \in p.gep}

IsProgram(p) ==
    /\ p.addr \subseteq BaseObjs \X Vars
    /\ p.copy \subseteq Vars \X Vars
    /\ p.gep \subseteq Vars \X Vars \X Offsets
    /\ p.load \subseteq Vars \X Vars
    /\ p.store \subseteq Vars \X Vars
    /\ p.calls \subseteq Vars \X Vars \X Vars
    /\ DOMAIN p.funs \subseteq BaseObjs
    /\ \A f \in DOMAIN p.funs : p.funs[f] \in Vars \X Vars
    /\ p.matchArgs \subseteq p.calls \X DOMAIN p.funs
    /\ p.insensitive \subseteq BaseObjs
    /\ \A e \in p.gep : e[1] # e[2] /\ \A f \in p.gep : e[2] = f[2] => e = f
    /\ \A e \in p.addr \cup p.copy \cup p.load : e[2] \notin DefinedByGep(p)
    /\ \A c \in p.calls : c[3] \notin DefinedByGep(p)
    /\ \A f \in DOMAIN p.funs : p.funs[f][1] \notin DefinedByGep(p)

ASSUME ObjectsAssumption ==
    /\ Vars # {} /\ Vars \cap Objs = {} /\ BaseObjs \cap FieldObjs = {}
    /\ IsFiniteSet(Nodes)
    /\ BaseOf \in [Objs -> BaseObjs]
    /\ \A b \in BaseObjs : BaseOf[b] = b
    /\ FieldIdx \in [FieldObjs -> Nat]
    /\ NumFields \in [BaseObjs -> Nat]
    /\ Constants \subseteq Opaque /\ Opaque \subseteq BaseObjs
    /\ IndirectCallLimit \in Nat

ASSUME ProgramsAssumption ==
    \A p \in Programs :
        /\ IsProgram(p)
        /\ \A b \in BaseObjs \ (Opaque \cup p.insensitive) :
              /\ NumFields[b] > 0
              /\ \A i \in 0 .. NumFields[b] - 1 :
                    \E f \in FieldObjs : BaseOf[f] = b /\ FieldIdx[f] = i

VARIABLES
    prog,        \* the program analysed
    rep,         \* [node -> its representative] (nodeToRepMap)
    pts, propa,  \* DiffPTData: points-to sets, and what was propagated of them
    copyE, gepE, loadE, storeE,   \* the edges of the constraint graph
    pwc,         \* nodes flagged as positive weight cycles
    insens,      \* field-insensitive base objects
    fields,      \* field objects created so far (memToFieldsMap)
    worklist,    \* nodes whose points-to set changed
    stack,       \* nodes the wave has still to visit (the SCC node stack)
    order,       \* the edges the SCC detection ordered them by
    cur,         \* the node the wave is at
    toCollapse,  \* base objects collapseField is still to be called on
    todo,        \* copy edges about to be added
    calls,       \* resolved <<call site, function>> pairs (getIndCallMap)
    reanalyze,   \* whether another round is needed
    pc           \* where solveConstraints is

graph == <<copyE, gepE, loadE, storeE>>
vars  == <<prog, rep, pts, propa, graph, pwc, insens, fields, worklist, stack,
           order, cur, toCollapse, todo, calls, reanalyze, pc>>

Reps == {n \in Nodes : rep[n] = n}

(***************************************************************************)
(* Field objects.  getGepObjVar creates the field object for an offset     *)
(* (modulo the number of fields) when it is first asked for.               *)
(***************************************************************************)
IdxOf(o)      == IF o \in FieldObjs THEN FieldIdx[o] ELSE 0
FieldAt(b, i) == CHOOSE f \in FieldObjs : BaseOf[f] = b /\ FieldIdx[f] = i

GepTarget(o, k) ==
    IF BaseOf[o] \in Opaque THEN o
    ELSE IF k = Variant THEN BaseOf[o]
    ELSE IF BaseOf[o] \in insens THEN o
    ELSE FieldAt(BaseOf[o], (IdxOf(o) + k) % NumFields[BaseOf[o]])

(***************************************************************************)
(* mergeNodeToRep, for every node n with m[n] # n, in the order of their   *)
(* ids: n's edges move to m[n], edges that become internal disappear,      *)
(* points-to sets are united, and m[n] has propagated only what all of     *)
(* them had; p is the points-to map to start from.                         *)
(*                                                                         *)
(* A gep that may change the offset flags m[n] as a PWC node when its ends *)
(* meet.  But ConsG.h identifies a NormalGep edge by its two ends, so of   *)
(* several that come to lie between the same nodes one survives and        *)
(* hasEdge drops the others in silence, and while the members of a cycle   *)
(* are merged one after the other, two geps from one member meet already   *)
(* between it and the representative.  A critical gep may so go under in   *)
(* one of offset 0, which flags nothing.  Whether it does depends on the   *)
(* ids of the members.                                                     *)
(***************************************************************************)
\* Mutants: only one end is moved; geps that become internal are not noticed.
MoveEdgeSrc(m, e)   == <<m[e[1]], e[2]>>
CriticalUnseen(m)   == {}

MoveEdge(m, e) == <<m[e[1]], m[e[2]]>>
MoveGep(m, e)  == <<m[e[1]], m[e[2]], e[3]>>

Unmoved(m, e)   == m[e[1]] = e[1] /\ m[e[2]] = e[2]
Internal(m)     == {e \in gepE : m[e[1]] = m[e[2]] /\ ~Unmoved(m, e)}
Critical(m)     == {e \in Internal(m) : e[3] # 0}
SameEdge(e, f)  == e[1] = f[1] /\ e[2] = f[2] /\ (e[3] = Variant <=> f[3] = Variant)

\* Both ends of e are merged into a third node, which the source of e may reach
\* first by a gep of offset 0.
MayGoUnder(m, e) ==
    /\ e[3] # Variant /\ m[e[1]] # e[1] /\ m[e[2]] # e[2]
    /\ \E f \in gepE : f[1] = e[1] /\ m[f[2]] = m[e[1]] /\ f[3] = 0

\* Mutants: the representative keeps its own points-to set, or propagated set.
MergedPtsOwn(m, p) == p
MergedPropaOwn(m)  == propa

MergedPts(m, p) == [x \in Nodes |-> p[x] \cup UNION {p[y] : y \in {z \in Reps : m[z] = x}}]
MergedPropa(m) ==
    [x \in Nodes |-> {o \in propa[x] : \A y \in Reps : m[y] = x => o \in propa[y]}]

MergeNodes(m, p) ==
    /\ rep' = [x \in Nodes |-> m[rep[x]]]
    /\ pts' = MergedPts(m, p)
    /\ propa' = MergedPropa(m)
    /\ copyE' = {MoveEdge(m, e) : e \in {f \in copyE : m[f[1]] # m[f[2]]}}
    /\ loadE' = {MoveEdge(m, e) : e \in loadE}
    /\ storeE' = {MoveEdge(m, e) : e \in storeE}
    /\ LET moved == {MoveGep(m, e) : e \in gepE \ Internal(m)}
           kept  == {e \in gepE : Unmoved(m, e)}
       IN  \E keep \in SUBSET moved :
              /\ kept \subseteq keep
              /\ \A e \in moved : \E f \in keep : SameEdge(e, f)
              /\ \A e, f \in keep : SameEdge(e, f) => e = f
              /\ gepE' = keep
    /\ \E seen \in SUBSET Critical(m) :
          /\ {e \in Critical(m) : ~MayGoUnder(m, e)} \subseteq seen
          /\ pwc' = {m[x] : x \in pwc \cup {e[1] : e \in seen}}

(***************************************************************************)
(* addCopyEdge: no duplicate and no self edge; the source has propagated   *)
(* only what the target had already.                                       *)
(***************************************************************************)
NewCopies(es) == {e \in es : e[1] # e[2]} \ copyE

AddCopyEdge(e) ==
    /\ copyE' = copyE \cup {e}
    /\ propa' = [propa EXCEPT ![e[1]] = @ \cap propa[e[2]]]

-----------------------------------------------------------------------------
(***************************************************************************)
(* The nodes of the graph: the operands of the statements and the field    *)
(* objects created so far.                                                 *)
(***************************************************************************)
GraphNodes ==
    fields
    \cup {e[i] : e \in prog.addr \cup prog.copy \cup prog.load \cup prog.store, i \in 1 .. 2}
    \cup {e[i] : e \in prog.gep, i \in 1 .. 2} \cup {c[i] : c \in prog.calls, i \in 1 .. 3}
    \cup {prog.funs[f][i] : f \in DOMAIN prog.funs, i \in 1 .. 2}

DirectEdges == copyE \cup {<<e[1], e[2]>> : e \in gepE}

SameSCC(E, N) == LET R == Closure(E, N) IN {e \in R : <<e[2], e[1]>> \in R}

(***************************************************************************)
(* SCCDetect and mergeSccCycle.  m maps every node to the representative   *)
(* of its cycle; which member of a cycle Nuutila's algorithm makes the     *)
(* representative depends on the node ids.                                 *)
(***************************************************************************)
SccDetect ==
    /\ pc = "scc"
    /\ LET N      == Reps \cap GraphNodes
           same   == SameSCC(DirectEdges, N)
           cycle(n) == {n} \cup {x \in N : <<n, x>> \in same}
           cyclic == N \cap {e[1] : e \in {f \in same : f[1] # f[2]}}
       IN  \E picked \in SUBSET cyclic :
              /\ \A n \in cyclic : Cardinality(cycle(n) \cap picked) = 1
              /\ MergeNodes([n \in Nodes |-> IF n \in picked \/ n \notin cyclic THEN n
                                               ELSE CHOOSE r \in picked : r \in cycle(n)], pts)
              /\ stack' = (N \ cyclic) \cup picked
    /\ order' = {e \in copyE' \cup {<<g[1], g[2]>> : g \in gepE'} : e[1] # e[2]}
    /\ pc' = "wave"
    /\ UNCHANGED <<prog, insens, fields, worklist, cur, toCollapse, todo, calls, reanalyze>>

(***************************************************************************)
(* The loop over the node stack in solveWorklist: pop the next node in     *)
(* topological order; collapse what a PWC node points to (collapsePWCNode);*)
(* then process the node.                                                  *)
(***************************************************************************)
ToCollapse(os, ins) == {BaseOf[o] : o \in os} \ (ins \cup Opaque)

PopNode ==
    /\ pc = "wave" /\ toCollapse = {}
    /\ \E n \in stack :
          /\ \A x \in stack : <<x, n>> \notin order
          /\ stack' = stack \ {n}
          /\ cur' = n
          /\ toCollapse' = IF rep[n] \in pwc THEN ToCollapse(pts[rep[n]], insens) ELSE {}
    /\ pc' = "node"
    /\ UNCHANGED <<prog, rep, pts, propa, graph, pwc, insens, fields, worklist,
                   order, todo, calls, reanalyze>>

(***************************************************************************)
(* processNode: computeDiffPts, then processCopy and processGep for every  *)
(* outgoing edge, NormalGep edges before VariantGep ones.  A node that was *)
(* merged away since it was stacked is skipped.                            *)
(***************************************************************************)
DiffPts == pts[cur] \ propa[cur]

\* What the copy and gep edges from cur to d carry.
Into(d) == (IF <<cur, d>> \in copyE THEN DiffPts ELSE {})
           \cup {GepTarget(o, e[3]) : o \in DiffPts,
                    e \in {g \in gepE : g[1] = cur /\ g[2] = d}}

\* The objects a VariantGep edge makes field-insensitive.
Blurred == IF \E e \in gepE : e[1] = cur /\ e[3] = Variant
           THEN ToCollapse(DiffPts, insens) ELSE {}

ProcessNode ==
    /\ pc = "node" /\ toCollapse = {}
    /\ pc' = "wave"
    /\ IF rep[cur] = cur
         THEN /\ pts' = [d \in Nodes |-> pts[d] \cup Into(d)]
              /\ propa' = [propa EXCEPT ![cur] = pts[cur]]
              /\ worklist' = worklist \cup {d \in Nodes : ~ Into(d) \subseteq pts[d]}
              /\ fields' = fields \cup {f \in FieldObjs : \E d \in Nodes : f \in Into(d)}
              /\ insens' = insens \cup Blurred
              /\ toCollapse' = Blurred
         ELSE UNCHANGED <<pts, propa, worklist, fields, insens, toCollapse>>
    /\ UNCHANGED <<prog, rep, graph, pwc, stack, order, cur, todo, calls, reanalyze>>

(***************************************************************************)
(* collapseField(b): every pointer to a field of b now points to b, and    *)
(* the fields' nodes are merged into b's.  When that node is a PWC node,   *)
(* what it points to is collapsed in turn (collapseNodePts).               *)
(***************************************************************************)
CollapseField ==
    /\ \E b \in toCollapse :
       LET fs      == {f \in fields : BaseOf[f] = b}
           holders == {n \in Nodes : pts[n] \cap fs # {}}
           ofBase  == [n \in Nodes |-> IF n \in holders THEN (pts[n] \ fs) \cup {b} ELSE pts[n]]
           m       == [n \in Nodes |-> IF n \in {rep[f] : f \in fs} THEN rep[b] ELSE n]
       IN  /\ insens' = insens \cup {b}
           /\ MergeNodes(m, ofBase)
           /\ worklist' = worklist \cup {rep'[n] : n \in holders}
           /\ reanalyze' = (reanalyze \/ holders # {})
           /\ toCollapse' = (toCollapse \ {b}) \cup
                              (IF rep[b] \in pwc' THEN ToCollapse(pts'[rep[b]], insens') ELSE {})
    /\ UNCHANGED <<prog, fields, stack, order, cur, todo, calls, pc>>

EndWave ==
    /\ pc = "wave" /\ toCollapse = {} /\ stack = {}
    /\ pc' = "post"
    /\ UNCHANGED <<prog, rep, pts, propa, graph, pwc, insens, fields, worklist, stack,
                   order, cur, toCollapse, todo, calls, reanalyze>>

(***************************************************************************)
(* postProcessNode: handleLoad for the outgoing loads of the node,         *)
(* handleStore for its incoming stores.                                    *)
(***************************************************************************)
LoadCopies(n)  == {<<rep[o], e[2]>> : o \in pts[n] \ Constants, e \in {l \in loadE : l[1] = n}}
StoreCopies(n) == {<<e[1], rep[o]>> : o \in pts[n] \ Constants, e \in {s \in storeE : s[2] = n}}

PostProcessNode ==
    /\ pc = "post" /\ todo = {}
    /\ \E n \in worklist :
          /\ worklist' = worklist \ {n}
          /\ todo' = NewCopies(LoadCopies(rep[n]) \cup StoreCopies(rep[n]))
    /\ UNCHANGED <<prog, rep, pts, propa, graph, pwc, insens, fields, stack, order, cur,
                   toCollapse, calls, reanalyze, pc>>

AddLoadStoreEdge ==
    /\ pc = "post"
    /\ \E e \in todo : AddCopyEdge(e) /\ todo' = todo \ {e}
    /\ reanalyze' = TRUE
    /\ UNCHANGED <<prog, rep, pts, gepE, loadE, storeE, pwc, insens, fields, worklist,
                   stack, order, cur, toCollapse, calls, pc>>

(***************************************************************************)
(* updateCallGraph: every function object the called pointer may point to, *)
(* that takes the arguments of the site and is not yet a callee of it,     *)
(* becomes one (resolveIndCalls), and its parameters and result are        *)
(* connected (connectCaller2CalleeParams).  Once IndirectCallLimit calls   *)
(* are resolved, the sites and targets still to come are left alone; which *)
(* those are depends on the order of the sites and of the objects' ids.    *)
(***************************************************************************)
NewCalls == {x \in prog.matchArgs : x[2] \in pts[rep[x[1][1]]]} \ calls

\* The calls resolved from now on can be new.
Resolvable(new) ==
    /\ new \subseteq NewCalls
    /\ new # NewCalls => Cardinality(calls \cup new) = IndirectCallLimit
    /\ Cardinality(calls \cup new) <= IndirectCallLimit
    /\ \A x, y \in new, z, w \in NewCalls \ new : x[1] = z[1] /\ y[1] = w[1] => x[1] = y[1]

ParamCopies(c, f) == {<<rep[c[2]], rep[prog.funs[f][1]]>>, <<rep[prog.funs[f][2]], rep[c[3]]>>}

\* Mutant: new callees ask for no further round.
UpdateCallGraphLast ==
    /\ pc = "post" /\ todo = {} /\ worklist = {}
    /\ \E new \in SUBSET NewCalls :
          /\ Resolvable(new)
          /\ calls' = calls \cup new
          /\ todo' = NewCopies(UNION {ParamCopies(x[1], x[2]) : x \in new})
    /\ pc' = "calls"
    /\ UNCHANGED <<prog, rep, pts, propa, graph, pwc, insens, fields, worklist, stack,
                   order, cur, toCollapse, reanalyze>>

UpdateCallGraph ==
    /\ pc = "post" /\ todo = {} /\ worklist = {}
    /\ \E new \in SUBSET NewCalls :
          /\ Resolvable(new)
          /\ calls' = calls \cup new
          /\ todo' = NewCopies(UNION {ParamCopies(x[1], x[2]) : x \in new})
          /\ reanalyze' = (reanalyze \/ new # {})
    /\ pc' = "calls"
    /\ UNCHANGED <<prog, rep, pts, propa, graph, pwc, insens, fields, worklist, stack,
                   order, cur, toCollapse>>

AddParamEdge ==
    /\ pc = "calls"
    /\ \E e \in todo :
          /\ AddCopyEdge(e)
          /\ todo' = todo \ {e}
          /\ worklist' = worklist \cup {e[1]}
    /\ UNCHANGED <<prog, rep, pts, gepE, loadE, storeE, pwc, insens, fields, stack, order,
                   cur, toCollapse, calls, reanalyze, pc>>

\* Mutant: reanalyze is not reset.
EndRoundSticky ==
    /\ pc = "calls" /\ todo = {}
    /\ pc' = IF reanalyze THEN "scc" ELSE "done"
    /\ UNCHANGED <<prog, rep, pts, propa, graph, pwc, insens, fields, worklist, stack,
                   order, cur, toCollapse, todo, calls, reanalyze>>

\* The condition of the do-while loop of AndersenBase::solveConstraints.
EndRound ==
    /\ pc = "calls" /\ todo = {}
    /\ pc' = IF reanalyze THEN "scc" ELSE "done"
    /\ reanalyze' = FALSE
    /\ UNCHANGED <<prog, rep, pts, propa, graph, pwc, insens, fields, worklist, stack,
                   order, cur, toCollapse, todo, calls>>

Done == pc = "done" /\ UNCHANGED vars

(***************************************************************************)
(* Building the graph (ConstraintGraph::buildCG) and processAllAddr.       *)
(***************************************************************************)
Init ==
    /\ prog \in Programs
    /\ rep = [n \in Nodes |-> n]
    /\ pts = [n \in Nodes |-> {o \in BaseObjs : <<o, n>> \in prog.addr}]
    /\ propa = [n \in Nodes |-> {}]
    /\ copyE = {e \in prog.copy : e[1] # e[2]}
    /\ gepE \in SUBSET prog.gep
    /\ \A e \in prog.gep : \E f \in gepE : SameEdge(e, f)
    /\ \A e, f \in gepE : SameEdge(e, f) => e = f
    /\ loadE = prog.load
    /\ storeE = prog.store
    /\ pwc = {} /\ insens = prog.insensitive /\ fields = {}
    /\ worklist = {e[2] : e \in prog.addr}
    /\ stack = {} /\ order = {} /\ cur \in {CHOOSE n \in Nodes : TRUE}
    /\ toCollapse = {} /\ todo = {} /\ calls = {}
    /\ reanalyze = FALSE
    /\ pc = "scc"

Next == SccDetect \/ PopNode \/ ProcessNode \/ CollapseField \/ EndWave
        \/ PostProcessNode \/ AddLoadStoreEdge \/ UpdateCallGraph \/ AddParamEdge
        \/ EndRound \/ Done

Spec == Init /\ [][Next]_vars
\* Weak fairness of Next, which is enabled exactly until the solver is done,
\* written without ENABLED: the steps with many choices make that slow to evaluate.
FairSpec == Spec /\ ([]<><<Next>>_vars \/ []<>(pc = "done"))

-----------------------------------------------------------------------------
(***************************************************************************)
(* What the constraints mean, independently of the solver: the least       *)
(* points-to sets closed under the statements of program p, when every     *)
(* object that is field-sensitive at the start stays so.                   *)
(***************************************************************************)
FieldOf(p, o, k) ==
    IF BaseOf[o] \in Opaque THEN o
    ELSE IF k = Variant THEN BaseOf[o]
    ELSE IF BaseOf[o] \in p.insensitive THEN o
    ELSE FieldAt(BaseOf[o], (IdxOf(o) + k) % NumFields[BaseOf[o]])

\* A solution is a set of facts <<n, o>>: node n may point to object o.
PointedBy(sol, n) == {x[2] : x \in {y \in sol : y[1] = n}}

Copies(p, sol) ==
    p.copy
    \cup (UNION {{<<o, e[2]>> : o \in PointedBy(sol, e[1]) \ Constants} : e \in p.load})
    \cup (UNION {{<<e[1], o>> : o \in PointedBy(sol, e[2]) \ Constants} : e \in p.store})
    \cup (UNION {{<<x[1][2], p.funs[x[2]][1]>>, <<p.funs[x[2]][2], x[1][3]>>} :
                    x \in {y \in p.matchArgs : y[2] \in PointedBy(sol, y[1][1])}})

Consequences(p, sol) ==
    sol \cup (UNION {{<<c[2], o>> : o \in PointedBy(sol, c[1])} : c \in Copies(p, sol)})
        \cup (UNION {{<<g[2], FieldOf(p, o, g[3])>> : o \in PointedBy(sol, g[1])} : g \in p.gep})

LeastSolution(p) ==
    Limit([sol \in SUBSET (Nodes \X Objs) |-> Consequences(p, sol)], {<<e[2], e[1]>> : e \in p.addr})

SolutionOf == [p \in Programs |-> LeastSolution(p)]

-----------------------------------------------------------------------------
\* The variables range over what their C++ types and the graph allow: edges
\* join representatives only, no copy edge is a self edge, and node ids are
\* those of the program (Andersen.h, ConsG.h).
TypeOK ==
    /\ prog \in Programs
    /\ rep \in [Nodes -> Nodes]
    /\ pts \in [Nodes -> SUBSET Objs] /\ propa \in [Nodes -> SUBSET Objs]
    /\ copyE \subseteq Nodes \X Nodes /\ gepE \subseteq Nodes \X Nodes \X Offsets
    /\ loadE \subseteq Nodes \X Nodes /\ storeE \subseteq Nodes \X Nodes
    /\ pwc \subseteq Nodes /\ fields \subseteq FieldObjs
    /\ prog.insensitive \subseteq insens /\ insens \subseteq BaseObjs
    /\ worklist \subseteq Nodes /\ stack \subseteq Nodes /\ order \subseteq Nodes \X Nodes
    /\ cur \in Nodes /\ toCollapse \subseteq BaseObjs /\ todo \subseteq Nodes \X Nodes
    /\ calls \subseteq prog.calls \X DOMAIN prog.funs
    /\ reanalyze \in BOOLEAN
    /\ pc \in {"scc", "wave", "node", "post", "calls", "done"}

\* Merging keeps one level of representatives, and no edge, PWC flag or pending
\* copy edge is left on a node that was merged away (mergeSrcToTgt removes the
\* node, so a left-over edge would dangle); edges are pending only in phases that
\* merge nothing.
RepConsistent ==
    /\ \A n \in Nodes : rep[rep[n]] = rep[n]
    /\ \A e \in copyE \cup loadE \cup storeE \cup todo : e[1] \in Reps /\ e[2] \in Reps
    /\ \A e \in gepE : e[1] \in Reps /\ e[2] \in Reps
    /\ \A e \in copyE \cup todo : e[1] # e[2]
    /\ pwc \subseteq Reps
    /\ todo # {} => pc \in {"post", "calls"}
    /\ toCollapse # {} => pc \in {"wave", "node"}

\* What a node is recorded to have propagated has really arrived at the other
\* end of each of its copy edges, whatever was merged, added or collapsed since:
\* otherwise computeDiffPts drops it for good.  A field object may since have
\* been replaced by its collapsed object (updatePropaPts, mergeSrcToTgt).
Arrived(o, d) == o \in pts[d] \/ (BaseOf[o] \in insens /\ BaseOf[o] \in pts[d])

PropagatedArrived ==
    /\ \A e \in copyE : \A o \in propa[e[1]] : Arrived(o, e[2])
    /\ \A n \in Reps : \A o \in propa[n] : Arrived(o, n)

\* Once an object has been collapsed nothing points to its fields any more and
\* they share its node: a field pointer created later would be missed by
\* everything that reads the collapsed object (collapseField).
CollapsedGone ==
    toCollapse = {} =>
        /\ \A n \in Nodes : \A o \in pts[n] \cap FieldObjs : BaseOf[o] \notin insens
        /\ \A f \in fields : BaseOf[f] \in insens => rep[f] = rep[BaseOf[f]]

\* When the solver stops, the points-to sets are closed under all copy and gep
\* edges, those added by loads, stores and calls included: no round was missed.
CopyGepClosed ==
    pc = "done" =>
        /\ \A e \in copyE : pts[e[1]] \subseteq pts[e[2]]
        /\ \A e \in gepE : \A o \in pts[e[1]] : GepTarget(o, e[3]) \in pts[e[2]]

\* When the solver stops, every function a called pointer may point to and that
\* takes the arguments is a callee of the site and receives them, unless the limit
\* of resolved calls was reached (updateCallGraph, resolveIndCalls).
CallsResolved ==
    pc = "done" =>
        /\ NewCalls = {} \/ Cardinality(calls) = IndirectCallLimit
        /\ \A x \in calls : \A e \in ParamCopies(x[1], x[2]) : pts[e[1]] \subseteq pts[e[2]]

\* Gep e may have gone under in a gep of offset 0 when a cycle was merged: such a
\* sibling, from the same node, lies in the same cycle (see MergeNodes).
GoneUnder(e) ==
    /\ e[3] # Variant
    /\ \E f \in prog.gep : f[3] = 0 /\ rep[f[1]] = rep[e[1]] /\ rep[f[2]] = rep[e[2]]

\* Every gep statement is still represented when edges are moved to
\* representatives, although ConsG.h tells NormalGep edges with different
\* offsets apart only by their ends: by an edge, or, when its ends were merged, by
\* its offset being 0 or the PWC flag of the node ("if find gep edges inside SCC
\* cycle, the rep node will become a PWC node", Andersen.cpp:863).  Excepted are
\* geps that have gone under.
NoGepLost ==
    \A e \in prog.gep :
        \/ <<rep[e[1]], rep[e[2]], e[3]>> \in gepE
        \/ rep[e[1]] = rep[e[2]] /\ (e[3] = 0 \/ rep[e[1]] \in pwc \/ GoneUnder(e))

\* When the solver stops, every gep statement is met: what its source points to it
\* has turned into a pointee of its destination, also when both were merged and what
\* they point to had to be collapsed for it (collapsePWCNode).  Excepted are geps
\* that have gone under, and merged ones of offset 0 (see Undisturbed).
GepsMet ==
    pc = "done" =>
        \A e \in prog.gep :
            \/ \A o \in pts[rep[e[1]]] : GepTarget(o, e[3]) \in pts[rep[e[2]]]
            \/ rep[e[1]] = rep[e[2]] /\ (e[3] = 0 \/ GoneUnder(e))

\* The other statements are never lost: their edges move with their ends, and an
\* object whose address was taken stays where it was put (mergeNodeToRep, collapseField).
StatementsKept ==
    /\ \A e \in prog.addr : e[1] \in pts[rep[e[2]]]
    /\ \A e \in prog.copy : rep[e[1]] = rep[e[2]] \/ <<rep[e[1]], rep[e[2]]>> \in copyE
    /\ \A e \in prog.load : <<rep[e[1]], rep[e[2]]>> \in loadE
    /\ \A e \in prog.store : <<rep[e[1]], rep[e[2]]>> \in storeE

\* processLoad and processStore, for every load and store edge of node n:
\* "node \in pts(src) ==> node--copy-->dst".
LoadStoreClosedAt(n) == NewCopies(LoadCopies(n) \cup StoreCopies(n)) = {}

LoadStoreClosed == pc = "done" => \A n \in Reps : LoadStoreClosedAt(n)

\* It holds at least at the nodes nothing was ever merged into.
LoadStoreClosedUnmerged ==
    pc = "done" => \A n \in Reps : (\A x \in Nodes : rep[x] = n => x = n)
                                       => LoadStoreClosedAt(n)

\* What the solver stops with solves the constraints: every statement is still
\* represented by an edge, all copies and geps are closed, all calls resolved, and
\* every load and store met all its pointees (but see LoadStoreClosed), and no set
\* is left with fields that were given up.
ResultCloses ==
    /\ NoGepLost /\ StatementsKept /\ GepsMet
    /\ CopyGepClosed /\ CallsResolved /\ LoadStoreClosedUnmerged /\ CollapsedGone

\* No object was given up, and only cycles of copy edges were merged.  A gep with
\* offset 0 in a cycle is merged without making it a PWC (isZeroOffsettedGepCGEdge),
\* as if an object and its first field were the same place; they are two objects.
Undisturbed ==
    /\ pwc = {} /\ insens = prog.insensitive
    /\ \A e \in prog.gep : e[3] = 0 => rep[e[1]] # rep[e[2]]

\* Merging the cycles of copy edges costs no precision: nothing is pointed to
\* that the least solution does not have.
Precise ==
    Undisturbed => \A n \in Nodes : pts[rep[n]] \subseteq PointedBy(SolutionOf[prog], n)

\* A pointer never stops pointing to an object, but for a field that becomes
\* its collapsed object; merging two nodes loses nothing of either.
PointsToKept ==
    \A n \in Nodes : \A o \in pts[rep[n]] :
        \/ o \in pts'[rep'[n]]
        \/ o \in FieldObjs /\ BaseOf[o] \in insens' /\ BaseOf[o] \in pts'[rep'[n]]

PtsGrow == [][PointsToKept]_vars

\* The do-while loop ends: every round that asks for another one has added a
\* copy edge, a call edge or collapsed an object.
Terminates == <>(pc = "done")
=============================================================================
