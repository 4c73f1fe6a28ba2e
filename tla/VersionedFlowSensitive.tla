----------------------- MODULE VersionedFlowSensitive -----------------------
(***************************************************************************)
(* The versioned flow-sensitive analysis,                                  *)
(* svf/lib/WPA/VersionedFlowSensitive.cpp, a subclass of FlowSensitive.    *)
(* Worker threads label the SVFG, one object at a time: nodes that the     *)
(* same stores reach share a version of the object.  Then the indirect     *)
(* edges are dropped, and points-to sets are kept per object and version   *)
(* and propagated between versions that rely on each other.                *)
(*                                                                         *)
(* A version is what it was melded from: the stores, and the nodes that    *)
(* may get edges while solving (delta nodes), whose memory it combines.    *)
(* The code numbers these sets.  The empty one stands for invalidVersion:  *)
(* where nothing arrives, the code has a version that nothing is added to. *)
(***************************************************************************)
EXTENDS FlowSensitive

CONSTANT Threads      \* values of Options::VersioningThreads

VARIABLES
    versioning,         \* "off" for FlowSensitive, else "labelling", then "on"
    threads,            \* number of versioning workers
    queue,              \* objectQueue
    jobs,               \* the objects workers have taken: [obj, at]
    equivalentObject,   \* [objects with a claimed footprint -> its owner]
    consume, yield,     \* versions: [node -> [object -> version]]
    versionReliance,    \* [object -> {<<v, r>> : what v holds goes to r}]
    stmtReliance,       \* [object -> {<<v, n>> : node n reads v}]
    vpts,               \* points-to sets: [object -> [version -> objects]]
    propNodes, propWork \* dummy nodes <<o, v>>, and those in the work list

labels  == <<equivalentObject, consume, yield>>
solving == <<versionReliance, stmtReliance, vpts, propNodes, propWork>>
vVars   == <<versioning, threads, queue, jobs, labels, solving>>
allVars == <<fsVars, vVars>>

-----------------------------------------------------------------------------
(***************************************************************************)
(* Labelling one object: prelabel and steps 1 and 3 to 7 of meldLabel.     *)
(* Delta nodes can get incoming edges from indirect calls; they and the    *)
(* stores are prelabelled with versions of their own.                      *)
(***************************************************************************)
CallMemory(p) == UNION {c.indirect : c \in p.calls}
Delta(p)       == {e[2] : e \in CallMemory(p)}
DeltaSource(p) == {e[1] : e \in CallMemory(p)}
Prelabelled(p) == Stores(p) \cup Delta(p)

StartingNodes(p, aux, o) ==
    {n \in Stores(p) : o \in aux[p.stmt[n].ptr]} \cup {n \in Delta(p) : o \in p.stmt[n].objs}

\* detectSCCs follows the edges on o from the starting nodes but not into stores and
\* delta nodes; the edges met are o's footprint.
Overlay(p, o) == {<<e[1], e[2]>> : e \in {f \in p.indirect : f[3] = o}}
Reached(p, aux, o) ==
    ReachedFrom(StartingNodes(p, aux, o),
                Closure({e \in Overlay(p, o) : e[2] \notin Prelabelled(p)}, NodesOf(p)))
Footprint(p, aux, o) == {e \in Overlay(p, o) : e[1] \in Reached(p, aux, o)}

(***************************************************************************)
(* Melding in topological order of the components: what is yielded at a    *)
(* prelabelled node gets to all that is reached from it through nodes that *)
(* are not prelabelled, and the nodes of a component get the same.         *)
(***************************************************************************)
MeldVersion(p, fp, n) ==
    LET through == Closure({e \in fp : e[1] \notin Prelabelled(p)}, NodesOf(p))
    IN  {e[1] : e \in {f \in fp : f[1] \in Prelabelled(p)
                                  /\ (f[2] = n \/ <<f[2], n>> \in through)}}

Consume(p, fp, n) == IF n \in Delta(p) THEN {n} ELSE MeldVersion(p, fp, n)

Yield(p, fp, n) == IF n \in Stores(p) THEN {n} ELSE Consume(p, fp, n)

Label(p, aux, o) ==
    LET fp == Footprint(p, aux, o)
        ns == Reached(p, aux, o)
        versioned == ns \cap (Prelabelled(p) \cup DeltaSource(p) \cup Loads(p))
        read      == {n \in versioned : n \in Stores(p) \cup Loads(p) /\ Consume(p, fp, n) # {}}
    IN  [footprint |-> fp,
         consume   |-> [n \in versioned |-> Consume(p, fp, n)],
         yield     |-> [n \in versioned |-> Yield(p, fp, n)],
         versions  |-> {Consume(p, fp, n) : n \in ns} \cup {Yield(p, fp, n) : n \in ns},
         relied    |-> {r \in {<<Yield(p, fp, e[1]), Consume(p, fp, e[2])>> : e \in fp} : r[1] # r[2]},
         stmts     |-> {<<Consume(p, fp, n), n>> : n \in read}]

LabelOf ==
    [name \in DOMAIN Programs |->
        [o \in Objs |-> Label(Programs[name], AndersenPts[name], o)]]

PrelabelledObjects ==
    {o \in Objs : StartingNodes(g, AndersenPts[prog], o) # {}}

Versions(name) == UNION {LabelOf[name][o].versions : o \in Objs}

-----------------------------------------------------------------------------
(***************************************************************************)
(* The workers.                                                            *)
(***************************************************************************)
Labelled(o) == LabelOf[prog][o]
At(o, where) == [obj |-> o, at |-> where]
Advance(o, from, to) == jobs' = (jobs \ {At(o, from)}) \cup {At(o, to)}

PopObject ==
    /\ versioning = "labelling" /\ Cardinality(jobs) < threads
    /\ \E o \in queue : queue' = queue \ {o} /\ jobs' = jobs \cup {At(o, "claim")}
    /\ UNCHANGED <<fsVars, versioning, threads, labels, solving>>

SetOwner(o, owner) ==
    equivalentObject' = [x \in DOMAIN equivalentObject \cup {o} |->
                            IF x = o THEN owner ELSE equivalentObject[x]]
SameFootprint(o) ==
    {x \in DOMAIN equivalentObject :
        equivalentObject[x] = x /\ Labelled(x).footprint = Labelled(o).footprint}

(***************************************************************************)
(* Step 2, under footprintOwnerMutex: the first object with a footprint    *)
(* owns it; another one takes over what its owner's reliances are now.     *)
(***************************************************************************)
ClaimFootprint ==
    \E o \in Objs :
        /\ At(o, "claim") \in jobs
        /\ IF SameFootprint(o) = {}
             THEN /\ SetOwner(o, o) /\ Advance(o, "claim", "rely")
                  /\ UNCHANGED <<versionReliance, stmtReliance>>
             ELSE LET owner == CHOOSE x \in SameFootprint(o) : TRUE
                  IN  /\ SetOwner(o, owner) /\ jobs' = jobs \ {At(o, "claim")}
                      /\ versionReliance' = [versionReliance EXCEPT ![o] = @ \cup versionReliance[owner]]
                      /\ stmtReliance' = [stmtReliance EXCEPT ![o] = @ \cup stmtReliance[owner]]
        /\ UNCHANGED <<fsVars, versioning, threads, queue, consume, yield, vpts, propNodes, propWork>>

\* Step 6.
FillVersionReliance ==
    \E o \in Objs :
        /\ At(o, "rely") \in jobs /\ Advance(o, "rely", "assign")
        /\ versionReliance' = [versionReliance EXCEPT ![o] = Labelled(o).relied]
        /\ UNCHANGED <<fsVars, versioning, threads, queue, labels, stmtReliance, vpts, propNodes,
                       propWork>>

\* Step 7, every node under its own mutex.
AssignVersions ==
    \E o \in Objs :
        /\ At(o, "assign") \in jobs /\ jobs' = jobs \ {At(o, "assign")}
        /\ consume' = [n \in NodesOf(g) |-> IF n \in DOMAIN Labelled(o).consume
                            THEN [consume[n] EXCEPT ![o] = Labelled(o).consume[n]] ELSE consume[n]]
        /\ yield' = [n \in NodesOf(g) |-> IF n \in DOMAIN Labelled(o).yield
                            THEN [yield[n] EXCEPT ![o] = Labelled(o).yield[n]] ELSE yield[n]]
        /\ stmtReliance' = [stmtReliance EXCEPT ![o] = Labelled(o).stmts]
        /\ UNCHANGED <<fsVars, versioning, threads, queue, equivalentObject, versionReliance, vpts,
                       propNodes, propWork>>

\* All workers have joined; removeAllIndirectSVFGEdges.
JoinWorkers ==
    /\ versioning = "labelling" /\ queue = {} /\ jobs = {}
    /\ versioning' = "on"
    /\ indirect' = {}
    /\ UNCHANGED <<prog, incremental, pts, df, direct, called, worklist, pc,
                   threads, queue, jobs, labels, solving>>

-----------------------------------------------------------------------------
(***************************************************************************)
(* Solving.                                                                *)
(***************************************************************************)
Canonical(o)     == IF o \in DOMAIN equivalentObject THEN equivalentObject[o] ELSE o
getConsume(n, o) == consume[n][Canonical(o)]
getYield(n, o)   == yield[n][Canonical(o)]
Readers(ovs)     == UNION {{e[2] : e \in {f \in stmtReliance[ov[1]] : f[1] = ov[2]}} : ov \in ovs}

(***************************************************************************)
(* propagateVersion: along the reliances, given as sets of pairs of        *)
(* versions.  Versions that grow are left to their dummy nodes, and the    *)
(* statements that read them are visited again.                            *)
(***************************************************************************)
PropagateVersions(vp, rel) ==
    LET add(o, r) == UNION {vp[o][e[1]] : e \in {f \in rel[o] : f[2] = r}}
        grown     == UNION {{<<o, e[2]>> : e \in {f \in rel[o] : ~(vp[o][f[1]] \subseteq vp[o][f[2]])}} :
                            o \in Objs}
    IN  [vpts |-> [o \in Objs |-> [v \in Versions(prog) |-> vp[o][v] \cup add(o, v)]],
         grown |-> grown]

Propagate(vp, rel, nodes, dummies) ==
    LET r == PropagateVersions(vp, rel)
    IN  /\ vpts' = r.vpts
        /\ propNodes' = propNodes \cup r.grown
        /\ propWork' = dummies \cup r.grown
        /\ worklist' = nodes \cup Readers(r.grown)

\* The reliances of some versions only.
From(ovs) == [o \in Objs |-> {r \in versionReliance[o] : <<o, r[1]>> \in ovs}]

Ready == versioning = "on" /\ pc = "solve"

\* A DummyVersionPropSVFGNode.
ProcessDummy ==
    /\ Ready
    /\ \E ov \in propWork : Propagate(vpts, From({ov}), worklist, propWork \ {ov})
    /\ UNCHANGED <<prog, incremental, pts, df, direct, indirect, called, pc,
                   versioning, threads, queue, jobs, labels, versionReliance, stmtReliance>>

\* Loads read the versions they consume.  Memory nodes have no edges left that count.
ProcessVLoad(n) ==
    Define(Stmt(n).dst, UNION {vpts[o][getConsume(n, o)] :
                               o \in {x \in pts[Stmt(n).ptr] : getConsume(n, x) # {}}})

ProcessOther ==
    /\ Ready
    /\ \E n \in worklist :
          /\ ~IsStore(n)
          /\ LET r   == IF Stmt(n).kind = "load" THEN ProcessVLoad(n) ELSE ProcessTopLevel(n)
                 top == PassOn(n, r.pts)
             IN  IF r.changed
                   THEN pts' = top.pts /\ worklist' = (worklist \ {n}) \cup top.push
                   ELSE pts' = r.pts /\ worklist' = worklist \ {n}
    /\ UNCHANGED <<prog, incremental, df, direct, indirect, called, pc, vVars>>

(***************************************************************************)
(* processStore: the source goes to the yielded versions of the objects    *)
(* pointed to; what is consumed passes on, except for an object that is    *)
(* killed.  The second loop runs over consume[l], the map itself.          *)
(***************************************************************************)
StoreResult(n) ==
    LET written == pts[Stmt(n).ptr]
        passed  == {o \in Objs : consume[n][o] # {} /\ ~IsStrongUpdate(n, o)}
        add(o)  == (IF o \in written THEN pts[Stmt(n).src] ELSE {})
                   \cup (IF o \in passed THEN vpts[o][consume[n][o]] ELSE {})
        changed == {o \in Objs : getYield(n, o) # {} /\ ~(add(o) \subseteq vpts[o][getYield(n, o)])}
    IN  IF written = {} THEN [vpts |-> vpts, changed |-> {}]
        ELSE [changed |-> {<<o, getYield(n, o)>> : o \in changed},
              vpts    |-> [o \in Objs |-> IF o \in changed
                            THEN [vpts[o] EXCEPT ![getYield(n, o)] = @ \cup add(o)] ELSE vpts[o]]]

ProcessVStore ==
    /\ Ready
    /\ \E n \in worklist :
          /\ IsStore(n)
          /\ LET r == StoreResult(n)
             IN  Propagate(r.vpts, From(r.changed), (worklist \ {n}) \cup Readers(r.changed), propWork)
    /\ UNCHANGED <<prog, incremental, pts, df, direct, indirect, called, pc,
                   versioning, threads, queue, jobs, labels, versionReliance, stmtReliance>>

\* initWorklist also takes the dummy nodes there are by now.
VInitWorklist ==
    /\ versioning = "on" /\ InitWorklist
    /\ propWork' = propNodes
    /\ UNCHANGED <<versioning, threads, queue, jobs, labels, versionReliance, stmtReliance, vpts,
                   propNodes>>

(***************************************************************************)
(* updateCallGraph with updateConnectedNodes: the new edges become         *)
(* reliances between versions, along which what is there is propagated.    *)
(***************************************************************************)
NewReliance(cs, o) ==
    {r \in {<<getYield(e[1], o), getConsume(e[2], o)>> :
             e \in {f \in UNION {c.indirect : c \in cs} : f[3] = o}} :
        r[1] # {} /\ r[2] # {} /\ r \notin versionReliance[o]}

\* Mutant: reliances are added, but nothing is propagated along them.
VUpdateCallGraphLazily ==
    /\ Ready /\ worklist = {} /\ propWork = {}
    /\ Connect(NewCalls)
    /\ versionReliance' = [o \in Objs |-> versionReliance[o] \cup NewReliance(NewCalls, o)]
    /\ UNCHANGED <<prog, incremental, pts, df, worklist, versioning, threads, queue, jobs, labels,
                   stmtReliance, vpts, propNodes, propWork>>

VUpdateCallGraph ==
    /\ Ready /\ worklist = {} /\ propWork = {}
    /\ Connect(NewCalls)
    /\ LET new == [o \in Objs |-> NewReliance(NewCalls, o)]
       IN  /\ versionReliance' = [o \in Objs |-> versionReliance[o] \cup new[o]]
           /\ Propagate(vpts, new, worklist, propWork)
    /\ UNCHANGED <<prog, incremental, pts, df, versioning, threads, queue, jobs, labels,
                   stmtReliance>>

NoVersions == [n \in NodesOf(g) |-> [o \in Objs |-> {}]]

Init ==
    /\ fsInit
    /\ \/ versioning = "off" /\ threads = 1 /\ queue = {}
       \/ /\ versioning = "labelling" /\ threads \in Threads /\ queue = PrelabelledObjects
          /\ ~incremental /\ ~g.optimised
    /\ jobs = {} /\ equivalentObject = [o \in {} |-> o]
    /\ consume = NoVersions /\ yield = NoVersions
    /\ versionReliance = [o \in Objs |-> {}] /\ stmtReliance = [o \in Objs |-> {}]
    /\ vpts = [o \in Objs |-> [v \in Versions(prog) |-> {}]]
    /\ propNodes = {} /\ propWork = {}

FlowSensitiveNext == versioning = "off" /\ fsNext /\ UNCHANGED vVars
LabellingNext     == PopObject \/ ClaimFootprint \/ FillVersionReliance \/ AssignVersions \/ JoinWorkers
VersionedNext     == VInitWorklist \/ ProcessDummy \/ ProcessOther \/ ProcessVStore \/ VUpdateCallGraph

Next == FlowSensitiveNext \/ LabellingNext \/ VersionedNext

\* A step can be taken until the analysis is done, so this is weak fairness of Next.
Spec == Init /\ [][Next]_allVars /\ ([]<><<Next>>_allVars \/ []<>(pc = "done"))

-----------------------------------------------------------------------------
\* The plain analysis stays within the least solution and ends with it.
FlowExact == FlowPrecise /\ (versioning = "off" => FlowComplete)

\* An object that shares a footprint starts solving with the reliances of the object
\* that owns it ("Same version and stmt reliance as the canonical",
\* VersionedFlowSensitive.cpp:232).
SharedReliance ==
    versioning = "on" /\ called = {} =>
        \A o \in DOMAIN equivalentObject :
            /\ versionReliance[o] = versionReliance[Canonical(o)]
            /\ stmtReliance[o] = stmtReliance[Canonical(o)]

\* No version ever holds more than flows to the loads and stores that read it.
VersionsPrecise ==
    versioning = "on" =>
        \A n \in Stores(g) \cup Loads(g), o \in Objs :
            getConsume(n, o) # {} => vpts[o][getConsume(n, o)] \subseteq Solution[prog].in[n][o]

\* At the end loads and stores read all that flows to them, as long as every object
\* owns its footprint: sharing versions loses nothing.
OwnFootprints == \A o \in DOMAIN equivalentObject : Canonical(o) = o
VersionsComplete ==
    versioning = "on" /\ pc = "done" /\ OwnFootprints =>
        /\ pts = Solution[prog].pts
        /\ \A n \in Stores(g) \cup Loads(g), o \in Objs :
              Solution[prog].in[n][o] = IF getConsume(n, o) = {} THEN {} ELSE vpts[o][getConsume(n, o)]

\* Versions change how values are kept, not which values there are: neither more
\* nor less than with one set per location.
VersionsExact == VersionsPrecise /\ VersionsComplete
=============================================================================
