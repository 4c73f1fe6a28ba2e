# A TLA+ model of SVF's analyses

SVF reads a program as a graph of statements and answers questions about its
pointers and values: what may this pointer point to, which functions may this
call reach, what memory may this call change, is this allocation freed. Its
analyses are fixed-point computations over shared graphs and tables that change
while they are being computed on. This directory holds specifications of them,
the TLC configurations that check them on small instances and TLAPS proofs
about the core. Paths below are relative to `src/svf/`.

    tlc -workers 2 -config MCMHP.cfg MCMHP.tla     # model-check one
    tlapm CFLSolver_proofs.tla                     # check the proofs of one

## 1. The system

| component | state | operations | interacts with | hard behaviour |
|---|---|---|---|---|
| Points-to cache (`PersistentPointsToCache.h`) | `idToPts`, `ptsToId`, three operation caches, id counter | emplacePts, unionPts, complementPts, intersectPts, remapAllPts, reset | every table of ids holds ids into it | results entered ahead of time for operations never performed; remapping under live ids; end of the id space |
| Points-to tables (`MutablePointsToDS.h`, `PersistentPointsToDS.h`) | points-to, reverse, difference and propagation maps; IN and OUT sets per node | addPts, unionPts, clearPts, computeDiffPts, updateDFIn..., ... | owned by an analysis (`PointerAnalysisImpl.cpp`), one of two implementations | forward and reverse maps change separately; differences from ids of an earlier wave; updates skipped when a flag says nothing changed |
| SCC detection (`Graphs/SCC.h`) | visit numbers, representatives, two stacks | find, visit, clear; repNode, subNodes, topoNodeStack | reused by the solvers each round, by mod/ref and by the call graph | tentative representatives; state left over from the previous graph |
| Constraint graph and Andersen's wave solver (`ConsG.cpp`, `Andersen.cpp`, `AndersenWaveDiff.cpp`) | edges, representatives, PWC flags, points-to and propagated sets, work list, wave, call edges | mergeSccCycle, processNode, collapseField, postProcessNode, updateCallGraph | tables, SCC detection, SVFIR (creates field objects), call graph | nodes merged and objects collapsed under way; edges added by loads, stores and calls; rounds must end |
| Mod/ref and memory regions (`MSSA/MemRegion.cpp`, `MemPartition.cpp`) | effects of functions and call sites, work list; cached chains of objects; regions | collectModRefForCall, handleCallsiteModRef, CollectPtsChain, partitionMRs | call graph, its SCCs, points-to results | a work list refilled as it is drained, with ids of one kind read as another; a recursive function that returns an unfinished cache entry |
| Memory SSA (`MSSA/MemSSA.cpp`) | mus, chis, phis, version counters and stacks | createMUCHI, insertPHI, SSARename | regions, dominators | versions on stacks shared by the walk of a tree; calls that read and write regions |
| Value-flow graphs (`Graphs/SVFG.cpp`, `SVFGOPT.cpp`) | nodes, edges with the objects that flow; recorded definitions, nodes to delete, work list of phis | connectIndirectSVFGEdges, updateCallGraph; retargetEdges..., bypassMSSAPHINode | memory SSA, indirect calls, all sparse analyses | nodes are removed while their edges are moved; an edge carries one call site; indirect calls connected after the removal |
| Flow-sensitive and versioned analyses (`FlowSensitive.cpp`, `VersionedFlowSensitive.cpp`) | IN and OUT tables, SVFG edges; versions, reliances, footprints | processSVFGNode, strong updates, updateConnectedNodes; meld labelling by threads, propagateVersion | SVFG, tables, call graph | what a store kills shrinks while pointers grow; edges added to values that no longer change; worker threads |
| Demand-driven analyses (`DDA/`) | caches, items visited, recursion and reverse-dependence maps, budget | findPT, reCompute, resolveFunPtr | SVFG, flow-insensitive answers as a fallback | recursion cut where an item was visited; caches kept after an aborted query |
| Source-sink checkers (`SABER/`) | current slice, work lists with contexts, visited items, conditions | initSrcs, forward and backward slices, AllPathReachableSolve | SVFG, branch conditions, dominators | call strings of bounded length, wrappers found within a number of steps, conditions not known yet |
| Multithreaded analyses (`MTA/`) | thread creation tree, marks of statements, relations between threads, interleavings | collect..., handleFork, handleJoin, handleCall, handleRet, updateSiblingThreads | thread call graph, ICFG | joins on some paths only, marks that are lowered again, threads that outlive their parents |
| Abstract execution (`AE/`, `WTO.h`) | states per node, work of nested components | handleWTOComponents, handleLoopOrRecursion, isBranchFeasible, widen, narrow | ICFG, call graph | widening after a delay, then narrowing; inlined calls and recursion |
| CFL reachability (`CFL/CFLSolver.cpp`, `CFLAlias.cpp`) | graph edges, work list, tables of successors and predecessors | initialize, processCFLEdge, addEdges, updateCallGraph | grammar and graph builders, call graph | an edge is combined only when popped; two representations of one graph; edges added between rounds |
| Front end, SVFIR building, value flows of top-level pointers, files, options, statistics | graphs built once | | | |

`PROJECT.json` lists every component with what of it is modelled, and the
hazards at their lines. Except for the labelling workers of
`VersionedFlowSensitive` the program is single-threaded: the interleavings here
are those of operations, of the order in which hash sets and work lists deliver
their elements, of steps of nested loops and recursions, and, in MHP, those of
the program that is analysed.

What makes each part correct, in one line: **cache**, an id means one set for
ever and a remembered answer is the answer; **tables**, which implementation is
used cannot be noticed, and the reverse map is exact; **SCC**, representatives
are those of the components and come out in topological order; **Andersen**,
what counts as propagated has arrived, nothing is lost or invented by merging,
the result solves the constraints, and it ends; **mod/ref and memory SSA**, a
load sees its last writer along the versions of its region, within a function
and through calls; **value-flow graphs**, the graph has a path from that writer to the
load that enters and leaves functions as calls do, and optimising it changes no
such path; **flow-sensitive and versioned**, the least flow-sensitive
solution, whatever the order and the tables; **demand-driven**, no more than
that and all of it; **CFL**, the edges are those the grammar derives; **MHP**,
statements that can be executed at the same time are reported; **abstract
execution**, every run of the program stays in the states computed;
**checkers**, allocations that leak or are freed twice are reported, and no
others.

## 2. The modules

A module that models code is checked as `MCX` (instances for TLC; `PointsToTables`
as it is) and, where something is proved, comes with `X_proofs`. The modules of one row of the
system table build on each other with EXTENDS.

- **PersistentPointsToCache**: the cache as a record with one operator per
  method, so that other modules can hold one. A set is a TLA+ set; the three
  `Map`s are functions from (operation, lhs, rhs) to ids; each method returns
  the record after it. `PropertyResult` is the chain of shortcuts at the head of
  each method, `OpPts` the remembered or computed answer, `AfterUnion` and its
  siblings the entries learnt ahead. **PersistentPointsToCacheSM**: any sequence
  of calls to it.
- **DiffPTData**: what `AbstractPointsToDS.h` promises, as functions from keys to
  sets. **PersistentDiffPTData**: the tables of ids over one cache.
  **MutableDiffPTData**: the tables of explicit sets. **PointsToTables**: both of
  them driven by the same calls of `BVDataPTAImpl`, for the question whether an
  analysis can notice which it was given. It also has the behaviour that is checked,
  either a cache by itself or the tables with theirs.
- **Digraphs**: fixed points (`Limit`) and reachability in a set of pairs. **SCCDetection**: Nuutila's
  algorithm one step of its recursion at a time (`path` is the call stack), on a
  graph that may change between two calls of `find`.
- **AndersenWaveDiff**: the solver. `SccDetect` is mergeSccCycle (with the merges
  of edges, sets and flags it makes; `MergeNodes` does for all members of a component
  what the code does for one after another, with a choice where their order matters,
  see `MayGoUnder`), `PopNode`, `ProcessNode`, `CollapseField`
  the wave, `PostProcessNode` and `AddLoadStoreEdge` the loads and stores after
  it, `UpdateCallGraph` and `AddParamEdge` the calls (at most `IndirectCallLimit` of them,
  with targets that take the arguments), `EndRound` and `Done` the
  rounds. It uses the components of the graph and an order of the nodes as
  SCCDetection establishes them (`ComponentsExact`, `TopoOrder`): `order` holds
  the edges at detection, and any node no waiting node leads to may be next.
- **PtsChain** (CollectPtsChain, its recursion as the stack `chasing`) and
  **SCCDetection** are composed in **ModRefAnalysis** (MRGenerator: effects of
  loads, stores and call sites, the work list over the call graph). **MemSSA** extends
  it: the three ways of making regions of MemPartition, as operators, the placing of
  mus, chis and phis, and renaming.
- **SVFG** (extends MemSSA): `buildSVFG` makes the nodes and edges of address-taken
  objects from the versions, `updateCallGraph` connects the indirect calls. An edge
  is <<source, target, site, object>>, one for each object of its points-to set;
  the site says by which call it leaves or enters a function. `Flows` is what a
  graph says: which store's value a statement may meet. **SVFGOPT**: with `opt` the
  graph is optimised before indirect calls are connected. Actual ins and formal
  outs go in one step, since each of them touches its own edges only; actual outs
  and formal ins (`RemoveCandidate`) and phis (`RemovePhi`) go one at a time in any
  order, and a phi comes back to the work list as in the code, which looks at the
  neighbours of a phi while that still has its edges.
- **SVFGRun**: when the graph of a program that is not optimised is built,
  `StartRun` lets the analysed program itself run. `frames` is its stack; a frame
  has the versions that the path it took leads to and knows for each object the
  store that wrote it last. One object stands for all instances of a local, which
  are fresh in each frame. The actions of the run (`Load`, `Store`, `Call`, `Jump`,
  ...) are the meaning of the program the analysis is compared with, not code of
  SVF. An optimised graph is compared with the one that is not (`flows`).
- **ValueFlowProblem**: what the flow-sensitive analyses are given (an SVFG) and
  their least solution, defined without them. **FlowSensitive**: the solver
  over the plain or the incremental data-flow tables; `ProcessNode` is
  processNode with every propagation it makes, `UpdateCallGraph` the edges of
  resolved calls. **VersionedFlowSensitive** (extends it): prelabelling, the
  workers (`PopObject`, `ClaimFootprint`, which registers the owner of a footprint,
  `FillVersionReliance` and `AssignVersions` as separate steps), and solving over
  versions. **DemandDriven**:
  DDAVFSolver as FlowDDA instantiates it; the recursion of findPT and reCompute
  is a stack. What counts as recursive for a strong update is `callGraphSCC`, which
  is computed again only when a resolved call brings edges. **SVFGPrograms**: the graphs all of them are checked on.
- **CFLSolver**: the work-list solvers CFLSolver, POCRSolver and
  POCRHybridSolver, and the rounds of CFLAlias around them. One step pops one
  edge; the productions of one kind are applied at once.
- **WeakTopologicalOrder**: WTO's construction as operators over a record of
  its members. **IntervalDomain**: interval and address values, states, joins,
  widening, narrowing, with bounds that saturate at `Infinity`.
  **AbstractInterpretation**: the interpreter; the recursion of handleFunction,
  handleFunCall and handleLoopOrRecursion is the list `todo`.
- **ThreadCreationTree** (TCT), **ForkJoinAnalysis** and **MHP** form one
  behaviour: the tree is collected, each thread is walked from its fork, the
  interleavings are propagated, and then (`phase = "run"`) the program runs with
  its threads interleaved, which is what the answers are compared with.
- **SaberCondAllocator**: conditions as the sets of valuations of the branches
  that satisfy them, which is what Z3 decides for the code; evaluation of
  branches and guards within and between functions. **SrcSnkDDA**: the slices,
  one action per step of a work list, and the reports; `Outcomes`, what
  executions of the program do with an allocation, is the reference.

Abstractions shared by all: names, types and source positions are left out,
statements whose operands are not pointers are not inputs, statistics and
printing change no state that is read. The order of hash containers is a
nondeterministic choice.

Definitions named in a comment as *mutant* are the code with one plausible bug;
`PROJECT.json` says which property fails with each.

## 3. What is checked

| run | bounds | shows |
|---|---|---|
| `points_to` | the cache by itself: 3 objects (8 sets), ids 0..3; the tables: 2 pointers, 3 objects of which their cache has 2 at a time, 4 ids, 2 cached results; symmetric objects and pointers | one-to-one ids, sound caches, right answers, ids that never change; reverse maps exact, refinement of DiffPTData, both implementations agree |
| `scc` | all digraphs on 4 nodes without self-loops, those with at most 4 edges and one self-loop, every candidate set, a changed graph for the second `find` | components complete while they are found and exact at the end, topological order |
| `andersen` | 11 programs: copies in cycles, fields, a pointer advanced in a loop, by nothing, or by two offsets, an array index, a function pointer with a target that takes other arguments, more calls than the limit of 2, cycles that appear late, a linked list, a load of merged nodes; every choice the order of merging leaves | representation invariants, a result that solves the constraints and holds no more than their least solution, monotonicity, termination |
| `andersen_merged_loads` (violation) | the program LoadOfMerged | finding 1 |
| `mem_ssa` | 4 functions, 5 objects, 41 programs, 19 of them a second time with their graph optimised, and every heap of up to 3 pointers (757 initial states): a loop and a heap under two or three partitions each, a phi in a cycle with itself, nested, recursive and mutually recursive calls, a call with two targets, every placement of stores in five blocks of a six-block graph with a back edge; both settings of keeping actual outs and formal ins, all three of self-cycles, every order of removal; calls nested 3 deep | chains and effects exact, regions made of what they should, versions along every path of a run, each last writer flows to its load in the graph, also when it is optimised, building ends |
| `flow_sensitive` | 6 SVFGs: strong updates through a joined pointer, a loop, a callback, objects with the same footprint, late recursion, an optimised graph; either kind of tables; 1 or 2 labelling workers | the least solution, from every order of the work list; versions agree with it; both end |
| `shared_reliances` (violation) | the same | finding 2 |
| `dda` | those, a parameter in a cycle, one computed before it is passed, and late recursion with a parameter; two queries in any order; budgets of 3, 7 and unlimited steps; every order of edges and objects | answers never too large and, under two conditions, complete; every query ends |
| `cfl` | a copy cycle with an exit, matched calls and returns, a call resolved between rounds; three solvers | derivable edges only; what each solver is closed under |
| `ae` | counting, nested and shared loops, branches on either side, compared either way round, a store that comes late in a loop, pointers, a switch, recursion, indirect calls, and all flow graphs of four nodes; widening delays 1 and 3; -handle-recur widen-only and widen-narrow | the order is weakly topological, every run of the program is covered, loops are left at a post-fixpoint, iteration ends |
| `mhp` | 771 programs: main bodies of 4 to 6 statements that start and join two or three threads, with skipped parts; calls, loops, threads that start threads; contexts of 3 call sites, 4 thread instances | ordered threads are not alive together, statements executed at once are reported, joins are believed, work lists run dry |
| `saber` | 14 programs: null tests, exits, loops, a switch, strong updates, wrappers, recursion, globals, phis; contexts of 2 calls, wrappers of 2 steps, calls nested 3 deep, every order of traversal | under two conditions leaks and double frees are found and none is made up; every source is reported on |

Why these bounds are enough to be interesting: for the cache by itself, 8 sets compete
for 4 ids, so the end of the id space, every shortcut (equal, empty, subset, disjoint
operands) and every learnt entry occurs. For the tables the ids just suffice for
the sets, so an id can run out only by being handed out twice; `clear()` is taken
and checked in every state but not explored beyond (`NotCleared`), since only
there the implementations are known to differ. Four nodes allow two components
of two nodes, nested back edges and an edge into a finished component. The
programs of the solvers were chosen so that each of their actions and each
branch of a merge is taken, and all of them are compared with a least solution
defined without the solver. Three objects make the shortest cycle of a heap
with an entry from outside. Six blocks with a back edge give phis whose
arguments are phis and a dominance frontier that must be iterated. Budgets of 3
and 7 steps stop queries before and after they have cached something that a
later query reads. A widening delay of 3 is longer than some of the loops run
and shorter than others. MHP's contexts are shorter than the deepest chain of
calls, SABER's wrappers both within and beyond its steps.

What a result is compared with is written without the algorithm: for `mem_ssa`,
`ae`, `mhp` and `saber` it is the analysed program itself, executed. In `mem_ssa`
and `mhp` the run is part of the behaviour, in `ae` and `saber` a set of
executions (`Runs`, `Outcomes`).

**Stopping.** `CHECK_DEADLOCK FALSE` is given where a run really ends: an empty
work list, an analysed program that is over, all queries answered, all sources
reported on. Andersen's solver and the abstract interpreter have a last action
that stutters.

**Fairness.** `Terminates`, `SVFGEnds`, `FlowSensitiveEnds`, `DDAEnds`,
`SaberEnds`, `AEEnds` and `MHPEnds` are the liveness properties. The assumption is
always that the *whole* next-state relation, or the part of it that is the
analysis, goes on taking steps until the analysis is done: one sequential loop
takes its next step while it has one. It is stated as `WF_vars(Next)`, and where
ENABLED is too slow to evaluate as `[]<><<Next>>_vars \/ []<>(done)`, which says the
same of a relation enabled exactly until the analysis is done. The analysed program need not go on, nor need anybody ask a query.
Labelling workers are joined before solving, so each of them finishes; the
formula asks only that some step is taken. Fairness of single actions or of
elements of a work list would be unjustified and is not assumed; termination
comes from sets that grow, and where they do not, from the marks that are
lowered at most once (`MHPEnds`) and from widening (`AEEnds`).

### Where a property has a condition

The analyses promise more than they keep, and a property that held only by luck
of the programs would say nothing. So where a promise fails the property says when it
is kept; the programs named below, on which one fails, are all among those checked.

- `LoadStoreClosed` is finding 1; `ResultCloses` has it for nodes nothing was
  merged into.
- `ResultCloses` excepts geps that may have gone under (`GoneUnder`). A cycle is merged
  one member at a time (`Andersen.cpp:733-737`), and a gep whose ends meet flags a PWC. But
  a gep from one member to another that is merged before it lies between the member
  and the representative for a while, and if a gep by another offset is there
  already, `hasEdge` (`ConsG.cpp:248`) drops it in silence. When the one left has
  offset 0 nothing is flagged: after `x = phi(&S, q, r); q = &x->1; r = &x->0`
  (`TwoFieldsLoop`) q may lack the second field, depending on the ids of x, q
  and r. The run takes either outcome. It also excepts calls beyond the limit of resolved
  calls (`PointerAnalysis.cpp:384`), which the other analyses' models take as not
  reached, as they take arguments to match.
- `Precise` asks that no gep was merged away (`Undisturbed`). A gep by offset 0 in a
  cycle is merged like a copy, without the flag of a PWC (`ConsG.cpp:503`, 562), so
  after `q = phi(&S, r); r = &q->0` (`FirstFieldLoop`) r points to S besides its
  first field, which the model, like SVF, has as two objects.
- `EffectsExact`, first part (`ChainsExact`): entries of the cache of chains are
  complete as long as no two objects reach each other. CollectPtsChain enters its cache entry before it
  visits what the object points to (`MemRegion.cpp:511`), and on a cyclic heap an
  inner object's entry is completed from the unfinished one and stays short.
- Its second part (`SideEffectsExact`): when a caller's effects grow its own id is
  pushed, but the loop visits the sub-nodes of the id popped (`MemRegion.cpp:636`, 619), of which
  a non-representative has none: in mutual recursion call sites lack effects. End
  to end a load then misses its writer, hence the conditions on `DefsReachUses`;
  that versions are those of the path (`NamesHold`) holds without them.
- `OptimisedAlike`: `bypassMSSAPHINode` makes no edge from a node to itself
  (`SVFGOPT.cpp:517`). In a recursive function such an edge is the recursive call
  (`RecursiveCode`: f stores in a loop and may then call itself, so what flows from
  the store to the store enters f by that call). Without it a path from main
  to the load after that call enters f by one call and leaves it by another, and
  the value stored in main no longer meets that load. So matched flows are
  compared without recursion, flows without regard to calls always. The comment on
  `addNewSVFGEdge` (`SVFGOPT.cpp:541`) has "Self-cycle edges may be added here".
- `RegionsSplit`: with `inter-disjoint` the regions cover the points-to sets but
  may overlap, against `MemPartition.h`: the shortcut for a singleton
  (`MemPartition.cpp:159`) supposes an order that lists of several functions,
  added in turn, do not have. `intra-disjoint` sorts its lists by size and is
  exact.
- `VersionsExact` asks that objects own their footprints (`OwnFootprints`). The
  pass-through at a store walks the objects that have a consumed version, which
  are canonical ones only (`VersionedFlowSensitive.cpp:742`; the comment in 740-741
  speaks of all): an object that shares a footprint can lose what flows past.
- `DDAComplete` supposes that only addresses are passed as parameters
  (`ParametersAreAddresses`). A top-level pointer has one set, at its definition and
  at the actual parameters that pass it; what has grown at the definition does not
  grow again at the actual parameter, and recomputation stops there. It takes no
  cycle: in F(x) { y = &A; t = y; s = phi(y, t, x); F(t) }, asked for s and then for
  x, x comes out empty (`Again`). And it supposes that no call resolved late makes a
  function recursive whose stores were taken for strong updates before
  (`NoLateRecursion`).
- `Sound` and `LoopsClosed` suppose that, from one visit of a loop's head to the next,
  objects change in numbers alone (`SteadyObjects`). The widened state keeps only the
  entries the head's previous state had (`AbstractState.cpp:59`), and widening and
  narrowing touch intervals only, so an object that is first stored to after the delay
  is lost: in `LateStore`, which is among the programs, runs leave the loop with
  x = 1 and the state there has no x. The comment at `AbstractInterpretation.cpp:940`
  has iteration go on until a fixpoint is reached. Besides, `Sound` excepts return nodes
  of calls that head a cycle (`HeadReturns`), and `LoopsClosed` speaks of objects, not
  registers: the branch conditions refine states on edges.
- `ForkJoinSound`, `ParallelReported` and `JoinedApart`: handles that several
  forks write are may-aliases, and one join ends all their threads
  (`HandlesUnique`); a return follows the out-edges of the call node, of which a
  call with a body has none in its caller (ICFGBuilder), so the walk ends unless
  every path passes the call (`CallsUnavoidable`); a thread nobody joins is not
  spread into the routine of a later sibling of its parent (`mayOutlive`).
- `BugsFound` and `AlarmsReal`: see `FlowsApart` and `WaysKnown`. A guard of a phi
  does not ask for the incoming block (getPHIComplementCond is never called); a
  strong update over what a memory phi brings is not remembered, only over a
  store; a wrapper of more than `MaxStep` steps, called from several places, is
  not one. Guards stop at the header of a loop with what is known by then, a
  switch with three successors leaves one combination of its two decisions to
  nobody, and branches that are decided several times (loops with two exits,
  recursion) are decided once: false alarms.

### Findings

`Andersen.cpp:857` (run `andersen_merged_loads`). Merging a node unions its
points-to set into the representative and hands over its loads and stores, but
does not push the representative. Pointees the representative had propagated
before are in no difference, so the moved load never meets them.

`VersionedFlowSensitive.cpp:235` (run `shared_reliances`). The comment in line 232 has
"Same version and stmt reliance as the canonical", and the copy is made when an object
is found to share a footprint. The owner has registered the footprint by then, but
another worker may not have filled the owner's reliances yet, and nothing copies
them later.

Met and not given a run of their own, besides those under the conditions above:

- `SCC.h:138` promises reverse topological order of a list that comes out in
  topological order, and `SCC.h:193` that a node without sub-nodes is its own,
  which `subNodes()` of a non-representative is not.
- `MutableDiffPTData::clear` keeps what was propagated, against
  `AbstractPointsToDS.h:106` (latent, nobody calls it).
- `CFLSolver.cpp:316`: POCRHybrid leaves F -> F F to `addArc`, which returns at
  once as the edge is in the tables already (237). POCR initialises X -> epsilon
  at the nodes its table of successors has an entry for, and looks for outgoing
  edges only in its tables, where copies added between rounds are not.
  `POCRCloses` says what remains.
- `MHP.cpp:517` speaks of a join that must happen; `isMustJoin` (`MHP.h:177`) is
  given the thread that joins, so a thread forked in a loop and joined once
  counts as joined altogether. A grandparent's join never matches, a second
  parent with the same context and fork gets no edge, isSameSCEV is always false.
- Abstract execution: -widen-delay=0 leaves loops unanalysed; updateStateOnCmp
  compares sets of addresses whatever the predicate; storeValue overwrites all
  pointees (`AbstractState.cpp:381`); a branch refines an object through the load
  its condition came from even if something was stored since; recursion merges
  the locals of all frames; ICMP_SLE and ICMP_ULE are missing from both tables of
  predicates, so a loop left by `<=` of a constant on the left, or by its negation,
  is refined by nothing.
- `SVFIRBuilder.cpp:309` fills the map of post-dominators with the children of
  the tree, where `SVFLoopAndDomInfo.h:53` says "BasicBlocks it PostDominates": the
  guards know immediate post-dominators only. A use that is looked at before the
  strong update that hides it has its invalid condition remembered (a false
  alarm), nodes without a value skip the tests for exits and null.

## 4. What is proved

All for every value of the constants, from the ASSUMEs of the modules only:
`MaxIdAssumption`, there is an id besides that of the empty set;
`ObjectsAssumption` and `ProgramsAssumption` of Andersen's solver, the shape of
objects, fields and statements, and that a pointer a gep defines has no other
definition, as LLVM's values have one; `GraphsAssumption` and `ProblemsAssumption`, graphs
and grammars are finite; `PtsChainAssumption` and `ModRefAssumption`, there are
finitely many objects, each with a base, the targets of calls are functions of the
program, and what statements point to, pass, return and allocate are objects; `ProgramsAssumption` and `ProblemAssumption` of the
flow-sensitive and demand-driven analyses, SVFGs are well formed, and objects flow
along the edges of a call only where both ends may access them, and calls only to
functions the pre-analysis found for the pointer. Well formed is what building the
SVFG gives: every variable used has one definition (`getDef` asserts that there is one,
`VFG.h:485`, and `setDef` that there is no other), definitions have edges to all their
uses and to nothing else, parameters to formals and returns only, what a call adds
between pointers starts at parameters, and variables are no objects. TLC evaluates the
assumptions on every run.

- **Fixed points** (`Digraphs_proofs`). Reachability and the least solutions are
  defined as `Limit`, what is left when a step is applied until it changes nothing.
  If every change makes a finite set grow, `LimitFixed` says that this ends, with a
  fixed point inside every set the step does not leave, and `LimitLeast` that of a
  monotone step it is the least; `ClosureLeast` is that for reachability. There is no
  induction: a family of subsets of a finite set has a maximal member
  (`MaximalSubset`), and an input that failed with the largest rank would hand its
  failure to its successor.
- **Cache** (`PointsToTables_proofs`).
  Inductive invariant `CacheOK`: dense ids, ids and sets one to one, every cached
  entry right. The ids stored must be one to one for a cached entry to stay right
  when a set is interned (`ExtendsSound`), and entries must be right for an
  answer from the cache to be. Each method is a lemma about the record
  (`EmplaceCorrect`, `OpCorrect`, `RemapCorrect`); the theorems
  `IdsAreSetsAlways`, `CachedResultsSoundAlways`, `AnswersCorrectAlways` and the
  action property `IdsAreStableAlways` follow.
- **Tables** (same module). Of the tables of ids, with the cache's
  lemmas: `TypeOKAlways` (every id held is stored), `RevPtsExactAlways`, and
  `Refinement`, `Spec => Abstract!Spec` with the maps of ids read as maps of sets. Of
  both: `BackendsAgreeAlways`, each action changes both alike, since equal sets have
  equal ids and the explicit reverse map is determined by the forward one, and
  `TablesRefine`: the composition implements DiffPTData as well.
- **SCC detection** (`ModRefAnalysis_proofs`). `ComponentsExactAlways` and
  `TopoOrderAlways`: every finite graph, every set of start nodes, every order of
  children, and a second detection after the graph has changed. The invariant
  `SccInv` is Tarjan's, for Nuutila's two stacks: an open node reaches every node
  visited after it (`Ahead`); a finished node that is still open reaches an earlier
  node of the recursion (`Back`), which is what makes its component incomplete; the
  representative of a node of the recursion is as low as that of any open node
  visited under it (`Low`); and the stack of finished nodes is split by visit number
  (`Split`), so that popping those above the root pops exactly its component.
- **Chains and effects** (same module). `EffectsExactAlways`, for all programs. The
  recursion of CollectPtsChain enters an object in the cache before it has collected
  anything, so the calls it makes may read a chain that is not finished. `ChainInv`
  says that each frame's base leads to those above it (`Nested`), hence in an acyclic
  heap an entry that is found is one no frame is working on; what a finished entry
  has is complete (`Finished`), and what the entry of a frame lacks is what it has still
  to collect or what the next frame will bring back (`Unfinished`). For the effects,
  `MrInv` needs that of the components (a function that isInCycle says is
  recursive is, `NonLocalEscapes`) and that of the chains (what arguments and results
  reach is within the full chains, `Found`). Every function's effects are within all
  solutions of the equations over the call graph (`EffectsSound`), and the least one
  is a solution because all changes are additions (`LeastSolves`). Once the fixed point
  has begun, a representative waits in the work list or among the popped members, or
  every call site of it has what it sees (`Propagated`): a site
  whose callee shows it nothing new has nothing new for its caller, and otherwise the
  caller is pushed.
- **Regions** (same module). `RegionsSplitAlways`: the points-to set of every load,
  store and call is made up of regions, and the regions of a function do not overlap
  unless functions share them. The loops over intersections, over the points-to sets of
  a function and over functions are `Limit`s, so `LimitFixed` gives their end and
  carries their invariants. In the first (`Meeting`) a divided intersection is made up
  of its parts, an object of the set is still in what is left of it or in an
  intersection within the set, and if the list is disjoint what is left meets none
  of those it has met. In the second (`Adding`) singletons come first, and until they
  are done every intersection is one: without it the shortcut for a singleton
  (`MemPartition.cpp:159`) would break disjointness, as it does for `inter-disjoint`.
- **Andersen** (`AndersenWaveDiff_proofs`). `IndInv` is `TypeOK /\ RepConsistent /\
  PropagatedArrived`, with one lemma per action. `PropagatedArrived` alone is not
  inductive: a merge redirects edges through `rep`, so it needs idempotent
  representatives and no edge at a node merged away; collapsing needs the phases
  in which copies may be pending. `PtsGrowAlways` is the action property from it.
  `PreciseAlways`: with `PreciseInv`, as long as nothing is given up, loads, stores
  and geps are images of statements (`Origins`), the detection sees every edge
  (`InGraph`), and each points-to set and copy edge is one the least solution has
  (`Within`). The step that matters merges a cycle: a gep in it would have raised a
  PWC flag or be merged away, so the cycle is one of copies, and inclusion along its
  edges is equality between its nodes (`AlongCycle`, from `ClosureLeast`).
  `ResultClosesAlways` is the other direction, and `SolvedAlways` reads it off the
  statements: the final sets satisfy every address-of, copy, gep, load, store and
  indirect call, but for geps merged into one node that have offset 0 or have gone
  under, loads and stores through a node that others were merged into (finding 1) and
  calls beyond the limit. A gep whose ends were merged is met because what its node
  points to was collapsed: `PwcCollapsedAlways` is the invariant that between two visits
  of the wave whatever a flagged node has propagated belongs to objects given up, or
  never split, whatever is merged into the node meanwhile. The invariant `Closing` says where
  each thing left to do is remembered: loads and stores of an unmerged node by the
  work list (`LoadsSeen`), copies asked for by `todo` (`CallsJoined`), fields of an
  object given up by the pending collapse (`Collapsing`), what has not been propagated
  by another round or, in a round that asks for none, by the stack: there every node
  with something left is still stacked, and so is all it leads to (`LastRound`, for
  which the detection must have stacked every node with an edge or a pointee,
  `Placed`). A collapse that finds nobody pointing to a field merges nothing, so it
  need not ask for a round (`NothingCollapsed`). `NoGepLostAlways`: a gep
  statement has its edge or, when its ends were merged and its offset is not 0, has
  flagged the node, unless it has gone under. ConsG.h tells NormalGep edges apart by
  their ends only, but outside a cycle being merged two geps never come to share both: a
  variable a gep defines has the gep's edge as its only one in, whatever copies loads,
  stores and calls add, so it is in a cycle only if the gep's source is (`OneWayIn`).
- **CFL** (`CFLSolver_proofs`). `SolverClosesAlways`, from `CFLClosesAlways` and
  `POCRClosesAlways`. The invariant is that every pair of *visited* edges has been
  combined, so at an empty work list all have. A pair one of which was not in the
  graph at the other's visit is combined when the later one is visited, from its
  side, which is why both `ByFirst` and `BySecond` are needed; for POCR the two
  tables are equal and below the graph besides. `SoundAlways`: every edge is in
  every closed set of edges that has the graph, and the closure the runs compare
  with is such a set, hence `EdgesDerivableAlways`.
- **The flow-sensitive solution** (`ValueFlowProblem_proofs`), used by the next three.
  `SolutionLeast`: the solution the runs compare with is the least set of values closed
  under all statements and edges. It is not the least fixed point of a monotone step,
  since a store that kills may cease to do so when its pointer grows, but what the
  step adds to a smaller flow it adds to a larger one. `SolutionUnderAndersen`: it is
  within the solution that ignores the order of statements.
- **Flow-sensitive analysis** (`VersionedFlowSensitive_proofs`).
  `FlowExactAlways`: the result is the least flow-sensitive solution, for both kinds
  of tables and every order of visits. Half of it is `Precise`, which both analyses
  share: each step adds what the least solution has, whose strong updates rest on
  points-to sets that may be complete too late, never too early. The other half is
  `Plain`: what a node has not passed on is in its work list or in the pending part
  of the incremental tables.
- **Versioned analysis** (same module). `VersionsPreciseAlways`: no version holds
  more than the solution has at any place that uses it, for any number of workers.
  Nothing is proved of objects that share a footprint, whose reliances depend on
  the interleaving of the workers (finding 2). `Progress` follows
  an object from the queue to its owner and each footprint through the labelling.
  `VersionsExactAlways`: with objects that own their footprints, versions end with
  what the solution has. `Solving` says of every reliance that it has passed on what
  it can or its source waits; at the end what versions hold, read back at the
  places that use them, is a flow closed under the statements, so it has all of the
  least one.
- **Demand-driven analysis** (`DemandDriven_proofs`). `DDAPreciseAlways`, for any
  sequence of queries, budget and order. A *bound* is a set for every item, and it is
  closed if it holds whatever a frame may compute from what it holds (`Closes`).
  `Within` says of a frame on the stack that what it has gathered, and what the items it
  has still to ask for may return, is within the bound of its own item; of a store in
  stage "value" also that the object asked for is one the pointer points to, without
  which a strong update could not be told from a weak one. Every step keeps the caches
  within any closed bound, and there are two: the flow-sensitive solution
  (`ExactCloses`), until a query falls back, and Andersen's (`CoarseCloses`), always,
  as that is what a fallback adds. `Shape` has what links the frames and the components of the call graph, which are at
  most older than the calls (`callGraphSCC \subseteq called`): the frame below a
  call has its item still to do, and the query at the bottom is out of budget when
  what lies on top of nothing is a recomputation. That no query has fallen back
  now means that none had before (`PureBefore`), hence the last conjunct of `Shape`.
  `DDACompleteAlways` is the other direction, under the two conditions of `DDAComplete`.
  An item is `Closed` when its cache holds what its node computes from the caches of
  what it reads, and all of that was visited. `CompleteInv` says of the query under way
  that an item visited is closed, or a frame is computing it, or a recomputation
  `Owes` it: it is at the end of an edge which that frame has still to follow
  (`Pending`). What a frame has gathered is up to date, or its item is owed by a
  frame above it, which was pushed since and whose set has grown (`UnderWay`). So a cache
  that grows disturbs only items its own frame then owes (`ReadsHit`, `GrowComplete`).
  Items of earlier queries read nothing of the present one (`Settled` in `Steady`), and
  those out of budget hold Andersen's answer (`Full`), which is why a query that runs
  out may forget what it has visited. Passing only addresses matters in `Known`: the
  set an actual parameter shares is empty or final, so it does not grow unseen. At the
  end the caches of what has an answer, and Andersen's sets for the rest, are a flow that
  holds what it computes (`Collects`), so the least solution is below it
  (`AnswersHold`). The attempt to prove this without the condition led to `Again`.

Only model-checked, with the reason:

- Liveness, and whatever needs ENABLED, is beyond the prover.
- The versions of memory SSA, value-flow graphs, abstract execution, MHP and the checkers:
  invariants over runs of the analysed program, to be done.
- WeakTopologicalOrder (visit and component call each other), SaberCondAllocator
  (the search for a guard), and the executions in AbstractInterpretation and
  SrcSnkDDA have RECURSIVE operators, with which nothing can be proved.

## 5. What is not modelled, and the plan

Next, in this order:

1. Proofs: that ordered threads are not alive together in MHP; a refinement that replaces the abstract detection in
   Andersen's solver.
2. Value flows of top-level pointers (`VFG.cpp`, and the phis SVFGOPT makes of
   parameters) and between threads; the flow-sensitive analyses
   on the graphs that SVFG builds.
3. ContextDDA with its conditional points-to sets; fields in DDA and in the
   flow-sensitive analysis.
4. LockAnalysis, recursion and function pointers in MHP, where a thread is a
   cycle of the call graph.
5. SABER's SVFG builder (which globals end a slice) and the file checker.
6. Abstract execution with gep, external calls and the overflow detectors.
7. Containers and bit vectors, id allocation, the query tools.

Out of scope: the LLVM front end (a translation, instruction by instruction),
parsing of files and grammars, external API tables, Z3 and its expressions
(conditions are the sets of valuations it decides about), options, statistics,
output, and the vendored libraries. Of the modelled parts, Andersen's solver
leaves out fork and join sites, heap allocators called through pointers and
virtual calls; the flow-sensitive ones field-insensitive objects; CFL leaves out
grammar normalisation and graph building, and the trees of POCRHybrid, which are
never melded; memory SSA takes dominators and frontiers from LLVM, as the code
does; MHP has no recursion and one target for each call.
