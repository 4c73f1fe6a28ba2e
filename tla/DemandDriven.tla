---------------------------- MODULE DemandDriven ----------------------------
(***************************************************************************)
(* Flow-sensitive demand-driven points-to analysis: the solver             *)
(* DDAVFSolver.h as FlowDDA instantiates it.  A query walks the SVFG        *)
(* backwards.  It caches what it finds, visits an item once, and when the  *)
(* set of an item grows it walks again from the items that used it.  A     *)
(* query that takes more steps than the budget allows returns Andersen's   *)
(* answer.  Caches and visited items are kept for the next query.          *)
(*                                                                         *)
(* An item (DPIm) <<n, x>> asks for the points-to set of x at node n.  The *)
(* stack holds the calls of findPT and reCompute under way, the innermost  *)
(* first.  The edges of a node and the elements of a set come in any order. *)
(***************************************************************************)
EXTENDS ValueFlowProblem, Sequences

CONSTANTS Budgets,    \* values of Options::FlowBudget
          Unlimited,  \* one no query of the programs uses up; its steps are not counted
          MaxQueries  \* bound on the pointers asked for

VARIABLES
    prog,               \* the program
    maxBudget,
    pts,                \* points-to sets of top-level pointers
    dpmToADCPtSetMap,   \* those of objects, by item
    backwardVisited,
    locToDpmSetMap,     \* the items of this query
    outOfBudgetDpms, outOfBudgetQuery, numOfStep,
    called,             \* indirect calls resolved
    callGraphSCC,       \* those the components of the call graph were last computed with
    queried,            \* pointers asked for so far
    stack               \* frames [item, stage, todo, rest, base, val]

caches == <<pts, dpmToADCPtSetMap, callGraphSCC>>
budget == <<outOfBudgetDpms, outOfBudgetQuery, numOfStep>>
vars   == <<prog, maxBudget, caches, backwardVisited, locToDpmSetMap, budget, called, queried,
            stack>>

g       == Programs[prog]
Kind(n) == g.stmt[n].kind
Stmt(n) == g.stmt[n]
Direct   == DirectOf(g, called)
Indirect == IndirectOf(g, called)

Pointer(n) == IF Kind(n) = "formal" THEN Stmt(n).var ELSE Stmt(n).dst
Defs       == {n \in NodesOf(g) : Kind(n) \in {"addr", "copy", "load", "formal"}}
getDefSVFGNode(v)   == CHOOSE n \in Defs : Pointer(n) = v
getLHSTopLevPtr(n)  == IF Kind(n) = "actual" THEN Stmt(n).var ELSE Pointer(n)
Item(v)             == <<getDefSVFGNode(v), v>>
isTopLevelPtrStmt(n) == Kind(n) \notin {"store", "mssa"}

getCachedPointsTo(d) == IF isTopLevelPtrStmt(d[1]) THEN pts[d[2]] ELSE dpmToADCPtSetMap[d]

\* unionDDAPts: top-level pointers have one set, at whichever node they are.
unionDDAPts(d, set) ==
    IF isTopLevelPtrStmt(d[1])
      THEN pts' = [pts EXCEPT ![d[2]] = @ \cup set] /\ UNCHANGED dpmToADCPtSetMap
      ELSE dpmToADCPtSetMap' = [dpmToADCPtSetMap EXCEPT ![d] = @ \cup set] /\ UNCHANGED pts

-----------------------------------------------------------------------------
(***************************************************************************)
(* Frames.  stage says what the items of todo are asked for: "funptr" and  *)
(* "pointer" before a node is handled, "value" and "edges" for its result, *)
(* "calls" and "uses" while the items of todo are computed again.          *)
(***************************************************************************)
Frame(d, stage, todo) ==
    [item |-> d, stage |-> stage, todo |-> todo, rest |-> {}, base |-> {}, val |-> {}]
Top   == Head(stack)
Below == Tail(stack)
Become(f) == stack' = <<f>> \o Below

\* What a call returns is used by the frame that made it.
Absorb(f, d, set) ==
    [f EXCEPT !.todo = @ \ {d},
              !.base = IF f.stage = "pointer" THEN @ \cup set ELSE @,
              !.val  = IF f.stage \in {"value", "edges"} THEN @ \cup set ELSE @]

\* resolveFunPtr: the pointers of the calls that may enter, or return to, this node.
FunPtrs(n) == {c.ptr : c \in {k \in g.calls : \E e \in k.direct \cup k.indirect : e[2] = n}}

(***************************************************************************)
(* findPT of an item of the top frame.  reCompute clears its mark first;   *)
(* otherwise an item visited before is answered from the cache.            *)
(***************************************************************************)
Return(d) == Become(Absorb(Top, d, getCachedPointsTo(d)))

Visited(d) ==
    /\ d \in backwardVisited /\ Top.stage \notin {"calls", "uses"}
    /\ Return(d)
    /\ UNCHANGED <<backwardVisited, locToDpmSetMap, budget>>

StepsLeft == maxBudget = Unlimited \/ numOfStep < maxBudget
Mark(d) ==
    /\ d \notin backwardVisited \/ Top.stage \in {"calls", "uses"}
    /\ backwardVisited' = backwardVisited \cup {d}
    /\ locToDpmSetMap' = locToDpmSetMap \cup {d}
    /\ UNCHANGED outOfBudgetDpms
    /\ numOfStep' = IF outOfBudgetQuery \/ maxBudget = Unlimited THEN numOfStep ELSE numOfStep + 1
    /\ outOfBudgetQuery' = (outOfBudgetQuery \/ ~StepsLeft)

OutOfBudget(d) ==
    /\ outOfBudgetQuery \/ ~StepsLeft \/ d \in outOfBudgetDpms
    /\ Mark(d)
    /\ Return(d)

Handle(d) ==
    /\ ~outOfBudgetQuery /\ StepsLeft /\ d \notin outOfBudgetDpms
    /\ Mark(d)
    /\ stack' = <<Frame(d, "funptr", {Item(p) : p \in FunPtrs(d[1])}), Top>> \o Below

findPT ==
    /\ stack # <<>>
    /\ \E d \in Top.todo : Visited(d) \/ OutOfBudget(d) \/ Handle(d)
    /\ UNCHANGED <<prog, maxBudget, caches, called, queried>>

-----------------------------------------------------------------------------
(***************************************************************************)
(* handleSingleStatement.                                                  *)
(***************************************************************************)
DirectItems(n) == {<<e[1], getLHSTopLevPtr(e[1])>> : e \in {f \in Direct : f[2] = n}}
IndirectItems(n, o) == {<<e[1], o>> : e \in {f \in Indirect : f[2] = n /\ f[3] = o}}

Ready(stage) == stack # <<>> /\ Top.stage = stage /\ Top.todo = {}
Unmoved == UNCHANGED <<prog, maxBudget, caches, backwardVisited, locToDpmSetMap, budget, called, queried>>

handleSingleStatement ==
    /\ Ready("funptr")
    /\ LET d == Top.item
           n == d[1]
       IN  Become(CASE Kind(n) = "addr" -> [Top EXCEPT !.stage = "edges", !.val = {Stmt(n).obj}]
                    [] Kind(n) \in {"load", "store"} ->
                          [Top EXCEPT !.stage = "pointer", !.todo = {Item(Stmt(n).ptr)}]
                    [] Kind(n) = "mssa" ->
                          [Top EXCEPT !.stage = "edges", !.todo = IndirectItems(n, d[2])]
                    [] OTHER -> [Top EXCEPT !.stage = "edges", !.todo = DirectItems(n)])
    /\ Unmoved

\* The objects the load or store may access are taken one by one.
PointerKnown ==
    /\ Ready("pointer")
    /\ Become([Top EXCEPT !.stage = "edges", !.rest = Top.base])
    /\ Unmoved

\* propagateViaObj; what is stored comes before what may still be there.
Accessed(n, o, x) ==
    IF Kind(n) = "load" THEN [Top EXCEPT !.rest = @ \ {o}, !.todo = IndirectItems(n, o)]
    ELSE IF o = x THEN [Top EXCEPT !.rest = @ \ {o}, !.stage = "value",
                                   !.todo = {Item(Stmt(n).src)}]
    ELSE [Top EXCEPT !.rest = @ \ {o}, !.todo = IndirectItems(n, x)]

AccessObject ==
    /\ Ready("edges") /\ Kind(Top.item[1]) \in {"load", "store"}
    /\ \E o \in Top.rest : Become(Accessed(Top.item[1], o, Top.item[2]))
    /\ Unmoved

isStrongUpdate(storepts) == Cardinality(storepts) = 1 /\ storepts \subseteq StrongObjs(g, callGraphSCC)

\* Mutant: no store updates strongly.
StoredNeverStrong ==
    /\ Ready("value")
    /\ LET d == Top.item
       IN  Become([Top EXCEPT !.stage = "edges", !.todo = IndirectItems(d[1], d[2])])
    /\ Unmoved

Stored ==
    /\ Ready("value")
    /\ LET d == Top.item
       IN  Become([Top EXCEPT !.stage = "edges",
                              !.todo = IF isStrongUpdate(Top.base) THEN {}
                                       ELSE IndirectItems(d[1], d[2])])
    /\ Unmoved

-----------------------------------------------------------------------------
(***************************************************************************)
(* updateCachedPointsTo: a set that grew is followed by reCompute.         *)
(***************************************************************************)
Pop(d) == IF Below = <<>> THEN <<>>
          ELSE <<Absorb(Head(Below), d, getCachedPointsTo(d))>> \o Tail(Below)

\* The calls resolved by what a function pointer is known to point to.
NewCalls(d, set) == {c \in g.calls \ called : c.ptr = d[2] /\ c.callee \in set}

\* The components are computed again only when the calls bring edges to the SVFG.
Grow(d, set) ==
    /\ unionDDAPts(d, set)
    /\ LET new == NewCalls(d, getCachedPointsTo(d) \cup set)
           to  == {<<e[2], "call">> : e \in UNION {c.direct \cup c.indirect : c \in new}}
       IN  /\ called' = called \cup new
           /\ callGraphSCC' = IF to = {} THEN callGraphSCC ELSE called'
           /\ Become([Frame(d, "calls", {}) EXCEPT !.rest = to])
    /\ UNCHANGED <<prog, maxBudget, backwardVisited, locToDpmSetMap, budget, queried>>

updateCachedPointsTo ==
    /\ Ready("edges") /\ Top.rest = {}
    /\ IF Top.val \subseteq getCachedPointsTo(Top.item)
         THEN stack' = Pop(Top.item) /\ Unmoved
         ELSE Grow(Top.item, Top.val)

(***************************************************************************)
(* reComputeForEdges: the items of this query at the end of an edge.  Over *)
(* memory, only those that ask for the same object.                        *)
(***************************************************************************)
Affected(d, e) ==
    {x \in locToDpmSetMap : x[1] = e[1] /\ (e[2] = "indirect" /\ Kind(e[1]) # "load" => x[2] = d[2])}

\* Mutant: the items at loads are those of the same object too.
AffectedSameObject(d, e) ==
    {x \in locToDpmSetMap : x[1] = e[1] /\ (e[2] = "indirect" => x[2] = d[2])}

\* Mutant: an edge followed stays in the set.
FollowEdgeAgain ==
    /\ stack # <<>> /\ Top.stage \in {"calls", "uses"} /\ Top.todo = {}
    /\ \E e \in Top.rest : Become([Top EXCEPT !.todo = Affected(Top.item, e)])
    /\ Unmoved

FollowEdge ==
    /\ stack # <<>> /\ Top.stage \in {"calls", "uses"} /\ Top.todo = {}
    /\ \E e \in Top.rest : Become([Top EXCEPT !.rest = @ \ {e}, !.todo = Affected(Top.item, e)])
    /\ Unmoved

reCompute ==
    /\ Ready("calls") /\ Top.rest = {}
    /\ LET n == Top.item[1]
       IN  Become([Top EXCEPT !.stage = "uses",
                              !.rest  = {<<e[2], "direct">> : e \in {f \in Direct : f[1] = n}}
                                   \cup {<<e[2], "indirect">> : e \in {f \in Indirect : f[1] = n}}])
    /\ Unmoved

\* The fallback is computed with no frame of its query left: its item is then
\* out of budget for good.
Recomputed ==
    /\ Ready("uses") /\ Top.rest = {}
    /\ stack' = Pop(Top.item)
    /\ outOfBudgetDpms' = outOfBudgetDpms \cup (IF Below = <<>> THEN {Top.item} ELSE {})
    /\ UNCHANGED <<prog, maxBudget, caches, backwardVisited, locToDpmSetMap, outOfBudgetQuery,
                   numOfStep, called, queried>>

-----------------------------------------------------------------------------
(***************************************************************************)
(* computeDDAPts, with resetQuery: items of a query out of budget may be   *)
(* incomplete and are no longer visited.                                   *)
(***************************************************************************)
\* Mutant: nothing is reset.
StillVisitedKept == backwardVisited

StillVisited ==
    IF outOfBudgetQuery THEN backwardVisited \ (locToDpmSetMap \ outOfBudgetDpms)
    ELSE backwardVisited

computeDDAPts ==
    /\ stack = <<>> /\ Cardinality(queried) < MaxQueries
    /\ \E v \in {Pointer(n) : n \in Defs} \ queried :
          /\ stack' = <<Frame(Item(v), "query", {Item(v)})>>
          /\ queried' = queried \cup {v}
    /\ backwardVisited' = StillVisited
    /\ locToDpmSetMap' = {} /\ outOfBudgetQuery' = FALSE /\ numOfStep' = 0
    /\ UNCHANGED <<prog, maxBudget, caches, outOfBudgetDpms, called>>

Answer ==
    /\ Ready("query") /\ ~outOfBudgetQuery
    /\ stack' = <<>>
    /\ Unmoved

\* "Out of budget query, downgrade to andersen analysis"
handleOutOfBudgetDpm ==
    /\ Ready("query") /\ outOfBudgetQuery
    /\ LET d    == Top.item
           andr == AndersenPts[prog][d[2]]
       IN  IF andr \subseteq getCachedPointsTo(d)
             THEN /\ stack' = <<>>
                  /\ outOfBudgetDpms' = outOfBudgetDpms \cup {d}
                  /\ UNCHANGED <<prog, maxBudget, caches, backwardVisited, locToDpmSetMap,
                                 outOfBudgetQuery, numOfStep, called, queried>>
             ELSE Grow(d, andr)

Init ==
    /\ prog \in DOMAIN Programs /\ maxBudget \in Budgets
    /\ pts = [v \in Vars |-> {}]
    /\ dpmToADCPtSetMap = [d \in {n \in NodesOf(g) : ~isTopLevelPtrStmt(n)} \X Objs |-> {}]
    /\ backwardVisited = {} /\ locToDpmSetMap = {}
    /\ outOfBudgetDpms = {} /\ outOfBudgetQuery = FALSE /\ numOfStep = 0
    /\ called = {} /\ callGraphSCC = {} /\ queried = {} /\ stack = <<>>

Solve == \/ findPT \/ handleSingleStatement \/ PointerKnown \/ AccessObject \/ Stored
         \/ updateCachedPointsTo \/ FollowEdge \/ reCompute \/ Recomputed
         \/ Answer \/ handleOutOfBudgetDpm

Next == computeDDAPts \/ Solve

\* A query under way goes on until it is answered; nobody need ask another one.
Spec == Init /\ [][Next]_vars /\ WF_vars(Solve)

-----------------------------------------------------------------------------
Exact(d) == IF isTopLevelPtrStmt(d[1]) THEN Solution[prog].pts[d[2]]
            ELSE Exit(g, Solution[prog], d[1], d[2])
Items == {Item(v) : v \in {Pointer(n) : n \in Defs}} \cup DOMAIN dpmToADCPtSetMap

\* Until a query falls back on Andersen's answer, no cache holds more than the least
\* flow-sensitive solution; afterwards none holds more than Andersen's.
DDAPrecise ==
    \A d \in Items :
        /\ getCachedPointsTo(d) \subseteq AndersenPts[prog][d[2]]
        /\ outOfBudgetDpms = {} /\ ~outOfBudgetQuery => getCachedPointsTo(d) \subseteq Exact(d)

\* Every answer holds all that flows to the pointer, also after queries that ran out
\* of budget, as long as no call resolved on the way makes a function recursive whose
\* stores were taken for strong updates before.
NoLateRecursion == \A c \in g.calls : c.locals \cap g.strong = {}
DDARecomputes ==
    stack = <<>> /\ NoLateRecursion => \A v \in queried : Solution[prog].pts[v] \subseteq pts[v]

\* The same where only addresses are passed.  The item of an actual parameter shares the
\* set of the variable passed: what grew at the definition does not grow again there, and
\* the formal parameter is not computed again.
ParametersAreAddresses ==
    \A n \in NodesOf(g) : Kind(n) = "actual" => Kind(getDefSVFGNode(Stmt(n).var)) = "addr"
DDAComplete == ParametersAreAddresses => DDARecomputes

\* Every query is answered: walking again from what has grown comes to an end.
DDAEnds == []<>(stack = <<>>)
=============================================================================
