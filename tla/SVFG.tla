-------------------------------- MODULE SVFG --------------------------------
(***************************************************************************)
(* The sparse value-flow graph of address-taken objects, lib/Graphs/       *)
(* SVFG.cpp, as SVFGBuilder builds it from memory SSA (MemSSA).  Values of *)
(* top-level pointers (VFG) are left out.                                  *)
(*                                                                         *)
(* A program has, besides what ModRefAnalysis asks, for each call whether  *)
(* it is indirect; inits, the stores that initialise globals; and opt,     *)
(* SVFGWithPostOpts: whether SVFGOPT optimises the graph.                  *)
(***************************************************************************)
EXTENDS MemSSA

CONSTANT MaxDepth   \* calls on a stack

VARIABLES
    vfgNodes,   \* the nodes
    vfg         \* the edges, one <<source, target, site, o>> for each object o
                \* of the points-to set of an indirect edge

svfgVars == <<vfgNodes, vfg>>

\* Where an edge leaves or enters a function: <<"call" or "ret", call, callee>>, which
\* is what getCallSiteID numbers, or Intra.
Intra == <<"intra", "", "">>

Labelled(src, dst, site, cpts) == {<<src, dst, site, o>> : o \in cpts}
Into(g, n)  == {e \in g : e[2] = n}
OutOf(g, n) == {e \in g : e[1] = n}
Between(e)  == e[3] # Intra

-----------------------------------------------------------------------------
LiveStmts(f) == UNION {Code(prog, b) : b \in Reachable(f)}
LiveSites == UNION {{x \in LiveStmts(f) : x.op = "call"} : f \in DOMAIN prog.entry}

FormalINs(f)  == {<<"FIN", f, r>> : r \in UsedRegs(f)}
FormalOUTs(f) == {<<"FOUT", f, r>> : r \in UsedRegs(f)}
ActualINs(x)  == {<<"AIN", x.id, r>> : r \in MuRegs(x)}
ActualOUTs(x) == {<<"AOUT", x.id, r>> : r \in ChiRegs(x)}
RegionOf(n)   == n[3]                       \* getPointsTo of these nodes

AllFormalINs  == UNION {FormalINs(f) : f \in DOMAIN prog.entry}
AllFormalOUTs == UNION {FormalOUTs(f) : f \in DOMAIN prog.entry}
AllActualINs  == UNION {ActualINs(x) : x \in LiveSites}
AllActualOUTs == UNION {ActualOUTs(x) : x \in LiveSites}
MSSAPhis      == {<<"phi", x[1], x[2]>> : x \in phis}
StmtNodes     == {<<x.op, x.id, {}>> : x \in prog.inits \cup UNION {
                     {y \in LiveStmts(f) : y.op # "call"} : f \in DOMAIN prog.entry}}

AddrTakenNodes ==
    StmtNodes \cup MSSAPhis \cup AllFormalINs \cup AllFormalOUTs \cup AllActualINs \cup AllActualOUTs

(***************************************************************************)
(* MSSAVarToDefMap.  A key of ver (see createMUCHI) names an operand or a  *)
(* result, and its function is that of its statement or block.             *)
(***************************************************************************)
KeysOf(f) ==
    LET ids == {f} \cup {x.id : x \in LiveStmts(f)}
    IN  {k \in DOMAIN ver : IF k[1] \in {"phi", "arg"} THEN prog.home[k[2]] = f ELSE k[2] \in ids}

StmtAt(f, id) == CHOOSE x \in LiveStmts(f) : x.id = id

\* The node that reads or writes the version of a key.
NodeOf(f, k) ==
    CASE k[1] = "res" /\ k[2] = f -> <<"FIN", f, k[3]>>
      [] k[1] = "mu"  /\ k[2] = f -> <<"FOUT", f, k[3]>>
      [] k[1] \in {"phi", "arg"}  -> <<"phi", k[2], k[3]>>
      [] OTHER -> LET x == StmtAt(f, k[2])
                  IN  IF x.op = "call" THEN <<IF k[1] = "res" THEN "AOUT" ELSE "AIN", x.id, k[3]>>
                      ELSE <<x.op, x.id, {}>>

getDef(f, r, v) ==
    NodeOf(f, CHOOSE k \in KeysOf(f) : k[1] \in {"res", "phi"} /\ k[3] = r /\ ver[k] = v)

\* Uses that are connected to their definitions: of loads, stores, calls, returns
\* and phis; "no need to connect actual out node to its definition site", and the
\* operand of an entry chi has none.
ConnectedKeys(f) ==
    {k \in KeysOf(f) : \/ k[1] \in {"mu", "arg"}
                       \/ k[1] = "op" /\ k[2] # f /\ StmtAt(f, k[2]).op = "store"}

IntraEdges ==
    UNION {UNION {Labelled(getDef(f, k[3], ver[k]), NodeOf(f, k), Intra, k[3]) :
                    k \in ConnectedKeys(f)} : f \in DOMAIN prog.entry}

\* addInterIndirectVFCallEdge and addInterIndirectVFRetEdge, for the calls given.
CallEdgesAt(xs) ==
    UNION {UNION {UNION {Labelled(e[1], e[2], <<"call", x.id, f>>, RegionOf(e[1]) \cap RegionOf(e[2])) :
        e \in ActualINs(x) \X FormalINs(f)} : f \in x.callees \cap DOMAIN prog.entry} : x \in xs}

RetEdgesAt(xs) ==
    UNION {UNION {UNION {Labelled(e[1], e[2], <<"ret", x.id, f>>, RegionOf(e[1]) \cap RegionOf(e[2])) :
        e \in FormalOUTs(f) \X ActualOUTs(x)} : f \in x.callees \cap DOMAIN prog.entry} : x \in xs}

connectFromGlobalToProgEntry ==
    UNION {UNION {Labelled(<<"store", x.id, {}>>, n, Intra, x.pts \cap RegionOf(n)) :
                    n \in FormalINs("main")} : x \in prog.inits}

connectIndirectSVFGEdges ==
    LET direct == {x \in LiveSites : ~x.indirect}
    IN  IntraEdges \cup CallEdgesAt(direct) \cup RetEdgesAt(direct) \cup connectFromGlobalToProgEntry

buildSVFG ==
    /\ phase = "ssa" /\ step = "idle" /\ unbuilt = {}
    /\ vfgNodes' = AddrTakenNodes
    /\ vfg' = connectIndirectSVFGEdges
    /\ phase' = IF prog.opt THEN "inter" ELSE "svfg"
    /\ UNCHANGED <<sccVars, chainVars, prog, chainCallVars, effectVars, parts, ssaVars>>

\* What VFG::updateCallGraph adds when connectCallerAndCallee has connected every
\* indirect call with its callees.
IndirectSites == {x \in LiveSites : x.indirect}
IndirectEdges == CallEdgesAt(IndirectSites) \cup RetEdgesAt(IndirectSites)

updateCallGraph ==
    /\ phase = "svfg"
    /\ vfg' = vfg \cup IndirectEdges
    /\ phase' = "connected"
    /\ UNCHANGED <<sccVars, chainVars, prog, chainCallVars, effectVars, parts, ssaVars, vfgNodes>>

svfgInit == ssaInit /\ vfgNodes = {} /\ vfg = {}

-----------------------------------------------------------------------------
(***************************************************************************)
(* What a graph says: the stores whose value of object o may be what a     *)
(* statement meets.  A path keeps the calls it has entered and leaves a    *)
(* function by the call it entered it by; one it did not enter, by any.    *)
(***************************************************************************)
Moves(e, calls) ==
    CASE e[3][1] = "intra" -> {calls}
      [] e[3][1] = "call"  -> {<<e[3][2]>> \o calls}
      [] e[3][1] = "ret"   -> IF calls = <<>> THEN {calls}
                              ELSE IF Head(calls) = e[3][2] THEN {Tail(calls)} ELSE {}

\* The statements reached from node n in the graph g of one object.
Met(g, n) ==
    LET universe == ({e[1] : e \in g} \cup {e[2] : e \in g} \cup {n}) \X Seq(STRING)
        steps(x) == UNION {{<<e[2], c>> : c \in {d \in Moves(e, x[2]) : Len(d) < MaxDepth}} : e \in OutOf(g, x[1])}
        from[seen \in SUBSET universe, new \in SUBSET universe] ==
            IF new = {} THEN {x[1] : x \in seen}
            ELSE LET next == (UNION {steps(x) : x \in new}) \ seen
                 IN  from[seen \cup next, next]
    IN  from[{<<n, <<>>>>}, {<<n, <<>>>>}] \cap StmtNodes

Flows(g) ==
    LET objects == {e[4] : e \in g}
        stores  == {n \in StmtNodes : n[1] = "store"}
    IN  UNION {LET go == {e \in g : e[4] = o}
               IN  UNION {{<<s[2], n[2], o>> : n \in Met(go, s) \ {s}} : s \in stores} : o \in objects}
=============================================================================
