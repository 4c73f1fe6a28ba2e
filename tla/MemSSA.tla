------------------------------- MODULE MemSSA -------------------------------
(***************************************************************************)
(* Memory SSA, svf/lib/MSSA/MemSSA.cpp: after generateMRs (ModRefAnalysis) *)
(* has made regions, every function gets mus (uses), chis (definitions) of *)
(* regions at its loads, stores and calls, phis at iterated dominance      *)
(* frontiers, and version numbers by a walk of the dominator tree.  SVFG   *)
(* connects the versions.                                                  *)
(***************************************************************************)
EXTENDS ModRefAnalysis, TLC

VARIABLES
    parts,      \* the lists of intersections and funToMRsMap: [inters, regions]
    unbuilt,    \* functions buildMemSSA is not called for yet
    fun,        \* the function it is building
    step,       \* "idle", "phi", "rename" or "walk"
    phis,       \* bb2PhiSetMap, as <<block, region>>
    ver,        \* the version of each operand and result that has one
    counter,    \* mr2CounterMap
    verStack,   \* mr2VerStackMap, its top is the last element
    walk        \* the recursion of SSARenameBB: frames [block, todo, defs]

ssaVars == <<unbuilt, fun, step, phis, ver, counter, verStack, walk>>
memVars == <<mrVars, parts, ssaVars>>

-----------------------------------------------------------------------------
(***************************************************************************)
(* How the points-to sets of the loads, stores and calls of functions are  *)
(* divided into memory regions, svf/lib/MSSA/MemPartition.cpp: DistinctMRG,*)
(* IntraDisjointMRG (the default) and InterDisjointMRG.  A region is a set *)
(* of objects.                                                             *)
(***************************************************************************)
\* The first element of a PointsToList: cmpNodeBS orders by size.
Smallest(S) == CHOOSE a \in S : \A b \in S : Cardinality(a) <= Cardinality(b)

(***************************************************************************)
(* The loop of computeIntersections: inters are met smallest first, and    *)
(* what is left of cpts after each of them meets the next.                 *)
(***************************************************************************)
Meet(m) ==
    LET i == Smallest(m.todo)
        next == [m EXCEPT !.rest = @ \ i, !.todo = @ \ {i}]
    IN  IF m.rest = {} \/ m.todo = {} THEN m
        ELSE IF i \cap m.rest \in {{}, i} THEN next
        ELSE [next EXCEPT !.gone = @ \cup {i}, !.new = @ \cup {i \cap m.rest, i \ m.rest}]

MeetAll(cpts, inters) ==
    Limit([m \in [rest : SUBSET cpts, todo : SUBSET inters, gone : SUBSET inters,
                  new : SUBSET SUBSET UNION inters] |-> Meet(m)],
          [rest |-> cpts, todo |-> inters, gone |-> {}, new |-> {}])

\* Mutant: a set that was divided stays in the list.
computeIntersectionsKeep(cpts, inters) ==
    LET found == MeetAll(cpts, inters)
    IN  inters \cup found.new \cup ({found.rest} \ {{}})

computeIntersections(cpts, inters) ==
    LET found == MeetAll(cpts, inters)
    IN  IF cpts \in inters THEN inters
        ELSE IF Cardinality(cpts) = 1 THEN inters \cup {cpts}
        ELSE (inters \ found.gone) \cup found.new \cup ({found.rest} \ {{}})

\* The loop over the points-to sets of a function.
AddNext(a) ==
    LET cpts == Smallest(a.todo)
    IN  IF a.todo = {} THEN a
        ELSE [todo |-> a.todo \ {cpts}, done |-> computeIntersections(cpts, a.done)]

AddAll(cptss, inters) ==
    Limit([a \in [todo : SUBSET cptss, done : SUBSET SUBSET UNION (cptss \cup inters)] |-> AddNext(a)],
          [todo |-> cptss, done |-> inters]).done

(***************************************************************************)
(* partitionMRs, for the points-to sets cptsOf[f] of the functions, taken  *)
(* in the order given: [inters |-> the list of f, regions |-> funToMRsMap]. *)
(***************************************************************************)
Distinct(cptsOf) ==
    LET single == [f \in DOMAIN cptsOf |-> {{o} : o \in UNION cptsOf[f]}]
    IN  [inters |-> single, regions |-> single]

IntraDisjoint(cptsOf) ==
    LET inters == [f \in DOMAIN cptsOf |-> AddAll(cptsOf[f], {})]
    IN  [inters |-> inters, regions |-> inters]

\* The loop over the functions.
NextFunction(cptsOf, order, s) ==
    IF s.at = Cardinality(DOMAIN cptsOf) THEN s
    ELSE [at |-> s.at + 1, inters |-> AddAll(cptsOf[order[s.at + 1]], s.inters)]

InterDisjoint(cptsOf, order) ==
    LET all    == UNION {UNION cptsOf[f] : f \in DOMAIN cptsOf}
        inters == Limit([s \in [at : 0 .. Cardinality(DOMAIN cptsOf), inters : SUBSET SUBSET all] |->
                            NextFunction(cptsOf, order, s)],
                        [at |-> 0, inters |-> {}]).inters
    IN  [inters  |-> [f \in DOMAIN cptsOf |-> inters],
         regions |-> [f \in DOMAIN cptsOf |-> {i \in inters : \E c \in cptsOf[f] : i \subseteq c}]]

-----------------------------------------------------------------------------
(***************************************************************************)
(* The end of collectModRefForCall, partitionMRs and updateAliasMRs.       *)
(***************************************************************************)
Objects(k, s) == {e[2] : e \in {x \in atSite[s] : x[1] = k}}
ModsAt(s) == Objects("mod", s)
RefsAt(s) == ModsAt(s) \cup Objects("ref", s)    \* "mods are treated as both def and use"

\* funToPointsToMap
CptsOf(f) ==
    ({x.pts : x \in Accesses(prog, f)}
     \cup UNION {{ModsAt(s), Objects("ref", s)} : s \in SitesOf(prog, f)}) \ {{}}

Orders(S) == {q \in [1 .. Cardinality(S) -> S] : \A i, j \in DOMAIN q : i # j => q[i] # q[j]}

partitionMRs ==
    /\ ModRefDone
    /\ LET cptsOf == [f \in prog.funs |-> CptsOf(f)]
       IN  \/ prog.memPar = "distinct" /\ parts' = Distinct(cptsOf)
           \/ prog.memPar = "intra-disjoint" /\ parts' = IntraDisjoint(cptsOf)
           \/ /\ prog.memPar = "inter-disjoint"
              /\ \E order \in Orders(prog.funs) : parts' = InterDisjoint(cptsOf, order)
    /\ phase' = "ssa"
    /\ UNCHANGED <<sccVars, chainVars, prog, chainCallVars, effectVars, ssaVars>>

FunOf(x) == CHOOSE f \in prog.funs : x \in StmtsOf(prog, f)
Aliased(cpts, f) == {r \in parts.regions[f] : r \cap cpts # {}}
Within(cpts, f)  == {r \in parts.inters[f] : r \subseteq cpts}

MuRegs(x) ==
    CASE x.op = "load"  -> Within(x.pts, FunOf(x))
      [] x.op = "store" -> {}
      [] x.op = "call"  -> Within(RefsAt(x), FunOf(x))

ChiRegs(x) ==
    CASE x.op = "load"  -> {}
      [] x.op = "store" -> Aliased(x.pts, FunOf(x))
      [] x.op = "call"  -> Aliased(ModsAt(x), FunOf(x))

-----------------------------------------------------------------------------
(***************************************************************************)
(* The control-flow graph of a function, its dominator tree and dominance  *)
(* frontiers, which come with the program.                                 *)
(***************************************************************************)
Reaches(f, without) ==
    LET B == BlocksOf(prog, f) \ {without}
        E == UNION {{<<b, c>> : c \in prog.succ[b] \cap B} : b \in B}
    IN  ReachedFrom({prog.entry[f]} \cap B, Closure(E, B))

Reachable(f) == Reaches(f, "")
Dominates(f, b, c) == b = c \/ c \notin Reaches(f, b)
DomChildren(b) ==
    LET f == prog.home[b]
        Strict(c, d) == c # d /\ Dominates(f, c, d)
    IN  {c \in Reachable(f) : /\ Strict(b, c)
                              /\ \A d \in Reachable(f) : Strict(d, c) => Dominates(f, d, b)}
Frontier(f, b) ==
    {c \in Reachable(f) : /\ ~(b # c /\ Dominates(f, b, c))
                          /\ \E p \in Reachable(f) : c \in prog.succ[p] /\ Dominates(f, b, p)}

UsedRegs(f) ==
    UNION {UNION {MuRegs(x) \cup ChiRegs(x) : x \in Code(prog, b)} : b \in Reachable(f)}
DefBlocks(f, r) == {b \in Reachable(f) : \E x \in Code(prog, b) : r \in ChiRegs(x)}

-----------------------------------------------------------------------------
(***************************************************************************)
(* buildMemSSA.  Keys of ver: <<"mu", id, r>> and, of a chi, <<"op", id,   *)
(* r>> and <<"res", id, r>>, with the statement or, of the entry chi and   *)
(* the return mu, the function; <<"phi", block, r>> for the result of a    *)
(* phi and <<"arg", block, r, predecessor>> for its operands.              *)
(***************************************************************************)
createMUCHI ==
    /\ phase = "ssa" /\ step = "idle"
    /\ \E f \in unbuilt :
          /\ fun' = f /\ unbuilt' = unbuilt \ {f}
          /\ counter' = [r \in UsedRegs(f) |-> 2]
          /\ verStack' = [r \in UsedRegs(f) |-> <<0, 1>>]
          /\ ver' = ver @@ [k \in {<<"op", f, r>> : r \in UsedRegs(f)} |-> 0]
                        @@ [k \in {<<"res", f, r>> : r \in UsedRegs(f)} |-> 1]
    /\ step' = "phi"
    /\ UNCHANGED <<mrVars, parts, phis, walk>>

\* "continue to insert phi in its iterative dominate frontiers"
insertPHI ==
    /\ step = "phi"
    /\ LET B == Reachable(fun)
           R == Closure(UNION {{<<b, c>> : c \in Frontier(fun, b)} : b \in B}, B)
       IN  phis' = phis \cup UNION {{<<e[2], r>> : e \in {x \in R : x[1] \in DefBlocks(fun, r)}} :
                                    r \in UsedRegs(fun)}
    /\ step' = "rename"
    /\ UNCHANGED <<mrVars, parts, unbuilt, fun, ver, counter, verStack, walk>>

PhisAt(b) == {x[2] : x \in {y \in phis : y[1] = b}}
TopVer(stack, r) == stack[r][Len(stack[r])]

(***************************************************************************)
(* SSARenameBB.  s is [ver, counter, stack, defs], where defs counts the   *)
(* entries of memRegs.  The third part of a key is its region, and each    *)
(* region of the keys gets a new version.                                  *)
(***************************************************************************)
NewNames(s, keys) ==
    LET rs == {k[3] : k \in keys}
    IN  [ver     |-> s.ver @@ [k \in keys |-> s.counter[k[3]]],
         counter |-> [r \in DOMAIN s.counter |-> s.counter[r] + (IF r \in rs THEN 1 ELSE 0)],
         stack   |-> [r \in DOMAIN s.stack |->
                        IF r \in rs THEN Append(s.stack[r], s.counter[r]) ELSE s.stack[r]],
         defs    |-> [r \in DOMAIN s.defs |-> s.defs[r] + (IF r \in rs THEN 1 ELSE 0)]]

Uses(s, keys) == [s EXCEPT !.ver = @ @@ [k \in keys |-> TopVer(s.stack, k[3])]]

RenameStmt(s, x) ==
    NewNames(Uses(s, {<<"mu", x.id, r>> : r \in MuRegs(x)} \cup {<<"op", x.id, r>> : r \in ChiRegs(x)}),
             {<<"res", x.id, r>> : r \in ChiRegs(x)})

RenameCode(s, b) ==
    LET upTo[i \in 0 .. Len(prog.code[b])] ==
            IF i = 0 THEN s ELSE RenameStmt(upTo[i - 1], prog.code[b][i])
    IN  upTo[Len(prog.code[b])]

\* Mutant: the result of a phi is not popped when the block is left.
RenamePhiResKept(s, b) == [NewNames(s, {<<"phi", b, r>> : r \in PhisAt(b)}) EXCEPT !.defs = s.defs]

RenamePhiRes(s, b) == NewNames(s, {<<"phi", b, r>> : r \in PhisAt(b)})

SSARenameBB(b, callers) ==
    LET s0 == [ver |-> ver, counter |-> counter, stack |-> verStack,
               defs |-> [r \in DOMAIN counter |-> 0]]
        s1 == RenameCode(RenamePhiRes(s0, b), b)
        s2 == Uses(s1, (IF prog.succ[b] = {} THEN {<<"mu", fun, r>> : r \in DOMAIN counter} ELSE {})
                       \cup UNION {{<<"arg", c, r, b>> : r \in PhisAt(c)} : c \in prog.succ[b]})
    IN  /\ ver' = s2.ver /\ counter' = s2.counter /\ verStack' = s2.stack
        /\ walk' = Append(callers, [block |-> b, todo |-> DomChildren(b), defs |-> s2.defs])

SSARename ==
    /\ step = "rename"
    /\ SSARenameBB(prog.entry[fun], <<>>)
    /\ step' = "walk"
    /\ UNCHANGED <<mrVars, parts, unbuilt, fun, phis>>

Walker == walk[Len(walk)]

RenameChild ==
    /\ step = "walk" /\ walk # <<>>
    /\ \E b \in Walker.todo : SSARenameBB(b, [walk EXCEPT ![Len(walk)].todo = @ \ {b}])
    /\ UNCHANGED <<mrVars, parts, unbuilt, fun, step, phis>>

\* "pop ver stack(r)"
LeaveBlock ==
    /\ step = "walk" /\ walk # <<>> /\ Walker.todo = {}
    /\ verStack' = [r \in DOMAIN verStack |->
                      SubSeq(verStack[r], 1, Len(verStack[r]) - Walker.defs[r])]
    /\ walk' = SubSeq(walk, 1, Len(walk) - 1)
    /\ step' = IF Len(walk) = 1 THEN "idle" ELSE step
    /\ UNCHANGED <<mrVars, parts, unbuilt, fun, phis, ver, counter>>

-----------------------------------------------------------------------------
ssaInit ==
    /\ mrInit
    /\ parts = [inters |-> <<>>, regions |-> <<>>]
    /\ unbuilt = DOMAIN prog.entry /\ fun = "" /\ step = "idle"
    /\ phis = {} /\ ver = <<>> /\ counter = <<>> /\ verStack = <<>> /\ walk = <<>>

GenerateMRs == mrNext /\ UNCHANGED <<parts, ssaVars>>
BuildMemSSA == createMUCHI \/ insertPHI \/ SSARename \/ RenameChild \/ LeaveBlock
ssaNext     == GenerateMRs \/ partitionMRs \/ BuildMemSSA

-----------------------------------------------------------------------------
\* Every points-to set of a function is made up of regions of the function, which
\* do not overlap; with inter-disjoint they may, see README.
RegionsSplit ==
    phase = "ssa" =>
        \A f \in prog.funs :
            /\ \A cpts \in CptsOf(f) : UNION Within(cpts, f) = cpts
            /\ prog.memPar # "inter-disjoint" =>
                  \A r, s \in parts.regions[f] : r = s \/ r \cap s = {}
=============================================================================
