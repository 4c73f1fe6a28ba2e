------------------------------- MODULE SVFGOPT -------------------------------
(***************************************************************************)
(* The optimisation of a value-flow graph, lib/Graphs/SVFGOPT.cpp: nodes   *)
(* at calls, entries and exits and then memory phis are taken out, and     *)
(* what came in is connected with what went out.  Indirect calls are       *)
(* connected afterwards, so what they will need has to stay.               *)
(***************************************************************************)
EXTENDS SVFG

VARIABLES
    keepActualOutFormalIn, \* an option
    selfCycle,             \* another: "all", "context" or "none"
    defOf,                 \* actualInToDefMap and formalOutToDefMap
    nodesToBeDeleted,
    phiWork                \* worklist of handleIntraValueFlow

optVars == <<keepActualOutFormalIn, selfCycle, defOf, nodesToBeDeleted, phiWork>>

optInit ==
    /\ svfgInit
    /\ keepActualOutFormalIn = FALSE /\ selfCycle = "all"
    /\ defOf = <<>> /\ nodesToBeDeleted = {} /\ phiWork = {}

isDefOfAInFOut(n) == \E m \in DOMAIN defOf : defOf[m] = n

isConnectingTwoCallSites(g, n) ==
    (\E e \in Into(g, n) : Between(e)) /\ (\E e \in OutOf(g, n) : Between(e))

SiteOf(n) == CHOOSE x \in LiveSites : x.id = n[2]
hasAddressTaken(f) == \E x \in IndirectSites : f \in x.callees

\* canBeRemoved, but for isConnectingTwoCallSites: n resides at an indirect call or
\* in a function that may be called so, or defines what an actual in or a formal out
\* had.  Nothing of this changes once the definitions are recorded.
\* Mutant: the definitions that calls will be connected to are removed.
IsNeededNoDefs(n, defs) ==
    IF n[1] \in {"AIN", "AOUT"} THEN SiteOf(n).indirect ELSE hasAddressTaken(n[2])

IsNeeded(n, defs) ==
    \/ IF n[1] \in {"AIN", "AOUT"} THEN SiteOf(n).indirect ELSE hasAddressTaken(n[2])
    \/ n[1] \in {"AOUT", "FIN"} /\ n \in defs

-----------------------------------------------------------------------------
(***************************************************************************)
(* handleInterValueFlow.  retargetEdgesOfAInFOut(n), called for all actual *)
(* ins and formal outs, changes nothing but n's own edges, of which one    *)
(* comes in: no call sees what another did, and as it leaves n without     *)
(* edges, removing n touches nothing else.                                 *)
(***************************************************************************)
retargetEdgesOfAInFOut ==
    /\ phase = "inter"
    /\ LET AInFOut == AllActualINs \cup AllFormalOUTs
           def == [n \in AInFOut |-> CHOOSE m \in vfgNodes : \E e \in Into(vfg, n) : e[1] = m]
           out == {e \in vfg : e[1] \in AInFOut /\ \E d \in Into(vfg, e[1]) : d[4] = e[4]}
       IN  /\ defOf' = def
           /\ vfg' = {e \in vfg : e[1] \notin AInFOut /\ e[2] \notin AInFOut}
                     \cup {<<def[e[1]], e[2], e[3], e[4]>> : e \in out}
           /\ keepActualOutFormalIn' \in BOOLEAN
           /\ vfgNodes' = vfgNodes \ {n \in AInFOut : ~IsNeeded(n, {})}
           /\ nodesToBeDeleted' =
                IF keepActualOutFormalIn' THEN {}
                ELSE {n \in AllActualOUTs \cup AllFormalINs : ~IsNeeded(n, {def[m] : m \in AInFOut})}
    /\ phase' = "remove"
    /\ UNCHANGED <<sccVars, chainVars, prog, chainCallVars, effectVars, parts, ssaVars,
                   selfCycle, phiWork>>

\* retargetEdgesOfAOutFIn: the new edge is of the kind of the one that came in.
BypassAOutFIn(n) ==
    {<<e[1][1], e[2][2], e[1][3], e[1][4]>> :
        e \in {d \in Into(vfg, n) \X OutOf(vfg, n) : d[1][4] = d[2][4]}}

Detached(g, n) == {e \in g : e[1] # n /\ e[2] # n}

RemoveCandidate ==
    /\ phase = "remove"
    /\ \E n \in nodesToBeDeleted :
          /\ nodesToBeDeleted' = nodesToBeDeleted \ {n}
          /\ IF isConnectingTwoCallSites(vfg, n) THEN UNCHANGED svfgVars
             ELSE /\ vfg' = Detached(vfg \cup BypassAOutFIn(n), n)
                  /\ vfgNodes' = vfgNodes \ {n}
    /\ UNCHANGED <<memVars, keepActualOutFormalIn, selfCycle, defOf, phiWork>>

-----------------------------------------------------------------------------
(***************************************************************************)
(* handleIntraValueFlow.  The order of the work list is that of a hash     *)
(* map, then first in, first out: any order here.                          *)
(***************************************************************************)
\* addIntoWorklist, for the nodes given.
Enlisted(g, ns) ==
    {n \in ns : n[1] = "phi" /\ ~isConnectingTwoCallSites(g, n) /\ ~isDefOfAInFOut(n)}

initialWorkList ==
    /\ phase = "remove" /\ nodesToBeDeleted = {}
    /\ phase' = "intra"
    /\ selfCycle' \in {"all", "context", "none"}
    /\ phiWork' = Enlisted(vfg, vfgNodes)
    /\ UNCHANGED <<sccVars, chainVars, prog, chainCallVars, effectVars, parts, ssaVars, svfgVars,
                   keepActualOutFormalIn, defOf, nodesToBeDeleted>>

\* checkSelfCycleEdges: the self-cycles of n that are removed, and whether some stay.
SelfCycles(n)   == {e \in Into(vfg, n) : e[1] = n}
KeptSelfCycles(n) ==
    CASE selfCycle = "all"     -> SelfCycles(n)
      [] selfCycle = "context" -> {e \in SelfCycles(n) : Between(e)}
      [] selfCycle = "none"    -> {}

\* addNewSVFGEdge: what one edge into a node and one out of it make.
SiteThrough(pre, succ) ==
    CASE pre[3][1] = "call"  -> pre[3]
      [] succ[3][1] = "call" -> succ[3]
      [] pre[3][1] = "ret"   -> pre[3]
      [] OTHER               -> succ[3]

bypassMSSAPHINode(g, n) ==
    {<<e[1][1], e[2][2], SiteThrough(e[1], e[2]), e[1][4]>> :
        e \in {d \in Into(g, n) \X OutOf(g, n) : d[1][4] = d[2][4] /\ d[1][1] # d[2][2]}}

\* Neighbours of n that get nothing new from it, looked at again, since they will have
\* fewer edges.
LookedAtAgain(g, n, new) ==
    {e[1] : e \in {d \in Into(g, n) : \A a \in new \ g : a[1] # d[1]}}
    \cup {e[2] : e \in {d \in OutOf(g, n) : \E b \in Into(g, n) :
                          \A a \in new \ g : ~(a[1] = b[1] /\ a[2] = d[2])}}

\* A neighbour is looked at while the edges round n are made and n still has its own: a
\* phi that only n's edges connect to two call sites is not put on the list.  Which of
\* the new edges are there by then depends on the order of n's edges: none or all here.
RemovePhi ==
    /\ phase = "intra"
    /\ \E n \in phiWork :
          LET g   == vfg \ (SelfCycles(n) \ KeptSelfCycles(n))
              new == bypassMSSAPHINode(g, n)
          IN  IF KeptSelfCycles(n) # {}
                THEN vfg' = g /\ phiWork' = phiWork \ {n} /\ UNCHANGED vfgNodes
                ELSE /\ vfg' = Detached(g \cup new, n)
                     /\ \E made \in {{}, new} :
                           phiWork' = (phiWork \cup Enlisted(g \cup made, LookedAtAgain(g, n, new))) \ {n}
                     /\ vfgNodes' = vfgNodes \ {n}
    /\ UNCHANGED <<memVars, keepActualOutFormalIn, selfCycle, defOf, nodesToBeDeleted>>

\* updateCallGraph, by connectAInAndFIn and connectFOutAndAOut of SVFGOPT: from where
\* an actual in or a formal out was defined.
connectOptimised ==
    /\ phase = "intra" /\ phiWork = {}
    /\ vfg' = vfg \cup {<<defOf[e[1]], e[2], e[3], e[4]>> : e \in CallEdgesAt(IndirectSites)}
                  \cup {<<defOf[e[1]], e[2], e[3], e[4]>> : e \in RetEdgesAt(IndirectSites)}
    /\ phase' = "optimised"
    /\ UNCHANGED <<sccVars, chainVars, prog, chainCallVars, effectVars, parts, ssaVars, vfgNodes, optVars>>

OptimiseSVFG ==
    retargetEdgesOfAInFOut \/ RemoveCandidate \/ initialWorkList \/ RemovePhi \/ connectOptimised

-----------------------------------------------------------------------------
\* The function of a node; a store that initialises a global has none.
FunsOfNode(n) ==
    CASE n[1] \in {"FIN", "FOUT"} -> {n[2]}
      [] n[1] = "phi"             -> {prog.home[n[2]]}
      [] OTHER -> {f \in DOMAIN prog.entry : \E x \in LiveStmts(f) : x.id = n[2]}

\* An edge, a work list and a recorded definition name nodes that exist; and the
\* assertions of the code hold: one edge comes into an actual in and a formal out,
\* of two edges that are joined at a phi one stays in its function, and an edge that
\* is not of a call does.
NothingDangles ==
    /\ \A e \in vfg : {e[1], e[2]} \subseteq vfgNodes
    /\ \A e \in vfg : ~Between(e) => FunsOfNode(e[1]) \subseteq FunsOfNode(e[2])
    /\ phiWork \subseteq vfgNodes /\ nodesToBeDeleted \subseteq vfgNodes
    /\ \A n \in DOMAIN defOf : defOf[n] \in vfgNodes
    /\ phase = "inter" =>
          \A n \in AllActualINs \cup AllFormalOUTs : Cardinality({<<e[1], e[3]>> : e \in Into(vfg, n)}) = 1
    /\ phase = "intra" =>
          \A n \in phiWork : \A e \in Into(vfg, n), d \in OutOf(vfg, n) :
              e[4] = d[4] => ~(Between(e) /\ Between(d))
=============================================================================
