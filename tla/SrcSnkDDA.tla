------------------------------ MODULE SrcSnkDDA ------------------------------
(***************************************************************************)
(* SABER's source-sink analysis (SrcSnkDDA, ProgSlice) as the leak and the *)
(* double-free checkers use it: for every allocation the nodes its address *)
(* flows to, the frees among them, the nodes that lie on the way, and the  *)
(* conditions under which the address gets there.                          *)
(***************************************************************************)
EXTENDS SaberCondAllocator, TLC

CONSTANTS Programs,     \* name -> program
          MaxCxtLen,    \* Options::CxtLimit
          MaxStep,      \* Options::MaxStepInWrapper
          MaxDepth      \* calls in an execution are nested at most this deep

ASSUME SaberAssumption == MaxCxtLen \in Nat /\ MaxStep \in Nat

VARIABLES prog,         \* the program, with all that does not change
          phase,
          sources,      \* sources that are still to be analysed
          slice,        \* _curSlice
          work,         \* the work list of the current phase
          visited,      \* nodeToDPItemsMap: items visited forward
          bvisited,     \* visitedSet: nodes visited backward
          sinksLeft,    \* sinks that are still to be traversed backward from
          verdict       \* source -> what was reported for it

vars == <<prog, phase, sources, slice, work, visited, bvisited, sinksLeft, verdict>>

-----------------------------------------------------------------------------
(***************************************************************************)
(* What really happens to one allocation: the executions of the program,   *)
(* and which SVFG nodes hold the address on the way.  This is what the     *)
(* reports are compared with; it uses no conditions, contexts or slices.   *)
(***************************************************************************)
IsCall(e) == e.kind \in {"callDir", "callInd"}
IsRet(e)  == e.kind \in {"retDir", "retInd"}
NodesAt(p, b) == {n \in DOMAIN p.nodes : p.nodes[n].bb = b}
In(p, f) == {n \in DOMAIN p.nodes : p.fun[p.nodes[n].bb] = f}

\* A strong update overwrites what other nodes put into the object.
Overwriting(p) == {e \in p.flows : e.kind = "ind" /\ e.to \in p.strong}
Overwritten(p, b) == {e.from : e \in {f \in Overwriting(p) : f.to \in NodesAt(p, b)}}

\* Block b is executed after block `from` while the nodes in held hold the address;
\* fresh nodes get it in another way.  A phi takes what came along `from`, every
\* other node is computed anew.
Settle(p, held, fresh, b, from) ==
    LET here == {e \in p.flows : e.to \in NodesAt(p, b) /\ ~IsCall(e) /\ ~IsRet(e)} \ Overwriting(p)
        phis == {e.to : e \in {f \in here : f.from \in held /\ from \in f.via}}
        grow[H \in SUBSET DOMAIN p.nodes] ==
            LET more == {e.to : e \in {f \in here : f.via = {} /\ f.from \in H}} \ H
            IN  IF more = {} THEN H ELSE grow[H \cup more]
    IN  grow[(held \ NodesAt(p, b)) \cup phis \cup fresh]

Visit(p, s, x, b, from, fresh) ==
    LET after(start) ==
            LET held == Settle(p, x.held, fresh \cup start, b, from) \ Overwritten(p, b)
            IN  [x EXCEPT !.at = b, !.held = held, !.started = @ \/ start # {},
                          !.sinks = @ \cup (held \cap p.sinks),
                          !.glob = @ \/ held \cap p.globals # {}]
    IN  {after({})} \cup
        (IF p.nodes[s].bb = b /\ ~x.started /\ (b \in DOMAIN p.calls => x.back)
         THEN {after({s})} ELSE {})

\* An address that is tested for null is not null.
Allowed(p, x, t) ==
    (x.at \in DOMAIN p.test /\ \E n \in x.held : p.nodes[n].val = p.test[x.at].var)
        => t = p.test[x.at].nonNull

Enter(p, s, x) ==
    LET cs == p.calls[x.at]
        f  == p.callee[cs]
    IN  IF Len(x.stack) = MaxDepth THEN {}
        ELSE Visit(p, s, [x EXCEPT !.stack = Append(@, x.at)], p.entry[f], 0,
                   {e.to : e \in {g \in p.flows : IsCall(g) /\ g.site = cs /\ g.from \in x.held}})

Leave(p, s, x) ==
    LET b  == Last(x.stack)
        cs == p.calls[b]
    IN  Visit(p, s, [x EXCEPT !.stack = Front(@), !.back = TRUE,
                              !.held = @ \ In(p, p.callee[cs])], b, 0,
              {e.to : e \in {g \in p.flows : IsRet(g) /\ g.site = cs /\ g.from \in x.held}})

Steps(p, s, x) ==
    IF x.at \in DOMAIN p.calls /\ ~x.back THEN Enter(p, s, x)
    ELSE IF x.at = p.exit[p.fun[x.at]] /\ x.stack # <<>> THEN Leave(p, s, x)
    ELSE UNION {Visit(p, s, [x EXCEPT !.back = FALSE], t, x.at, {}) :
                  t \in {u \in p.succ[x.at] : Allowed(p, x, u)}}

RECURSIVE Walk(_, _, _, _)
Walk(p, s, seen, front) ==
    IF front = {} THEN seen
    ELSE LET new == UNION {Steps(p, s, x) : x \in front} \ seen
         IN  Walk(p, s, seen \cup new, new)

\* How the executions that allocate at s end, but for those that call exit().
Outcomes(p, s) ==
    LET start  == [at |-> p.entry["main"], stack |-> <<>>, back |-> FALSE, held |-> {},
                   started |-> FALSE, sinks |-> {}, glob |-> FALSE]
        first  == Visit(p, s, start, start.at, 0, {})
        ended  == {x \in Walk(p, s, first, first) :
                     /\ x.started /\ x.stack = <<>> /\ x.at = p.exit["main"]
                     /\ x.at \in DOMAIN p.calls => x.back}
    IN  {[sinks |-> x.sinks, glob |-> x.glob] : x \in ended}

Leaks(os)       == \E o \in os : o.sinks = {} /\ ~o.glob
Frees(os)       == \E o \in os : o.sinks # {}
FreesTwice(os)  == \E o \in os : Cardinality(o.sinks) > 1
MeetsGlobal(os) == \E o \in os : o.glob

-----------------------------------------------------------------------------
\* rmIncomingEdgeForSUStore: a strong update receives nothing through memory.  Only
\* what comes from a store is remembered for the conditions.
RemovedEdges(p) ==
    {e \in p.flows : e.kind \in {"ind", "callInd", "retInd"} /\ e.to \in p.strong}

removedSUVFEdges(p) ==
    {<<e.from, e.to>> : e \in {f \in RemovedEdges(p) : p.nodes[f.from].kind = "store"}}

\* A program with all that does not change: its SVFG, conditions and guards.
Prepared(p0) ==
    LET calls == {<<b, c>> \in Blocks(p0) \X Blocks(p0) :
                    b \in DOMAIN p0.calls /\ c = p0.entry[p0.callee[p0.calls[b]]]}
        flow  == {<<b, c>> \in Blocks(p0) \X Blocks(p0) : c \in p0.succ[b]}
        p1    == p0 @@ [edges |-> p0.flows \ RemovedEdges(p0), true |-> AllValuations(p0),
                        pdom |-> PostDomTree(p0), paths |-> Closure(flow \cup calls, Blocks(p0))]
    IN  p1 @@ [guard |-> [e \in p1.edges |-> VFGuard(p1, e)],
               removed |-> [r \in removedSUVFEdges(p0) |-> IntraGuard(p1, r[1], r[2])]]

Out(n) == {e \in prog.edges : e.from = n}

(***************************************************************************)
(* isInAWrapper: the address is only returned.  One level of stores and    *)
(* loads is followed, and the search gives up after some steps.            *)
(***************************************************************************)
Tracked(q, e) ==
    \/ e.kind = "dir" /\ q.nodes[e.to].kind \in {"copy", "gep", "phi", "formalRet", "actualRet", "store"}
    \/ e.kind = "ind" /\ q.nodes[e.to].kind \in {"load", "mphi"}

WrapperNodes(q, n) ==
    ReachedFrom({n}, Closure({<<e.from, e.to>> : e \in {f \in q.edges : Tracked(q, f)}}, DOMAIN q.nodes))

csIdSet(q, n) == {e.site : e \in {f \in q.edges : f.from \in WrapperNodes(q, n) /\ f.kind = "retDir"}}

isInAWrapper(q, n) ==
    /\ Cardinality(WrapperNodes(q, n)) <= MaxStep + 1
    /\ \A e \in q.edges : e.from \in WrapperNodes(q, n) => e.kind \in {"dir", "ind", "retDir"}
    /\ csIdSet(q, n) # {}

\* initSrcs: instead of the allocation in a wrapper, the calls of the wrapper.
initSrcs(q) ==
    LET live(cs) == q.fun[q.sites[cs].bb] \notin q.dead
        callers  == {<<cs, d>> \in (DOMAIN q.sites) \X (DOMAIN q.sites) :
                       isInAWrapper(q, q.sites[cs].ret) /\ d \in csIdSet(q, q.sites[cs].ret)}
        allocs   == {cs \in q.allocs : live(cs)}
    IN  {q.sites[cs].ret : cs \in {d \in ReachedFrom(allocs, Closure(callers, DOMAIN q.sites)) :
                                     live(d) /\ ~isInAWrapper(q, q.sites[d].ret)}}

(***************************************************************************)
(* ContextCond: the last MaxCxtLen call sites.                             *)
(***************************************************************************)
pushContext(c, cs) ==
    IF Len(c) < MaxCxtLen THEN Append(c, cs) ELSE IF c = <<>> THEN c ELSE Append(Tail(c), cs)

matchContext(c, cs) == c = <<>> \/ Last(c) = cs

NewItem(c, e) ==
    <<e.to, IF IsCall(e) THEN pushContext(c, e.site)
            ELSE IF IsRet(e) /\ c # <<>> THEN Front(c) ELSE c>>

-----------------------------------------------------------------------------
NewSlice(s) == [root |-> s, forward |-> {}, backward |-> {}, sinks |-> {}, partial |-> FALSE,
                glob |-> FALSE, cond |-> [n \in {} |-> False]]

Init ==
    /\ \E name \in DOMAIN Programs : prog = Prepared(Programs[name])
    /\ phase = "next" /\ sources = initSrcs(prog) /\ slice = NewSlice("")
    /\ work = {} /\ visited = {} /\ bvisited = {} /\ sinksLeft = {}
    /\ verdict = [s \in {} |-> ""]

\* Mutant: what the last slice visited stays visited.
SetCurSliceOnly(s) ==
    /\ slice' = NewSlice(s)
    /\ UNCHANGED <<visited, bvisited>>

setCurSlice(s) ==
    /\ slice' = NewSlice(s)
    /\ visited' = {} /\ bvisited' = {}

StartSlice ==
    /\ phase = "next"
    /\ \E s \in sources :
          /\ setCurSlice(s)
          /\ sources' = sources \ {s}
          /\ work' = {<<s, <<>>>>}
    /\ phase' = "forward"
    /\ UNCHANGED <<prog, sinksLeft, verdict>>

(***************************************************************************)
(* forwardTraverse.  The first edge into a global node gives the slice up; *)
(* edges that were handled before it have been followed.                   *)
(***************************************************************************)
Forward(item) ==
    LET n     == item[1]
        c     == item[2]
        sink  == n \in prog.sinks
        glob  == \E e \in Out(n) : e.to \in prog.globals
        fresh == {NewItem(c, e) : e \in {f \in Out(n) : IsRet(f) => matchContext(c, f.site)}} \ visited
    IN  \E new \in IF slice.glob THEN {{}} ELSE IF glob THEN SUBSET fresh ELSE {fresh} :
           /\ slice' = [slice EXCEPT !.forward = @ \cup {n}, !.partial = @ \/ sink,
                                     !.sinks = IF sink THEN @ \cup {n} ELSE @,
                                     !.glob = @ \/ glob]
           /\ visited' = visited \cup new
           /\ work' = (work \ {item}) \cup new

ForwardTraverse ==
    /\ phase = "forward"
    /\ \E item \in work : Forward(item)
    /\ UNCHANGED <<prog, phase, sources, bvisited, sinksLeft, verdict>>

ForwardEnds ==
    /\ phase = "forward" /\ work = {}
    /\ phase' = IF slice.glob THEN "report" ELSE "backward"
    /\ sinksLeft' = slice.sinks
    /\ UNCHANGED <<prog, sources, slice, work, visited, bvisited, verdict>>

(***************************************************************************)
(* backwardTraverse, from one sink after the other.                        *)
(***************************************************************************)
BackwardFrom ==
    /\ phase = "backward" /\ work = {}
    /\ \E s \in sinksLeft : work' = {s} /\ sinksLeft' = sinksLeft \ {s}
    /\ UNCHANGED <<prog, phase, sources, slice, visited, bvisited, verdict>>

BackwardTraverse ==
    /\ phase = "backward"
    /\ \E n \in work :
          LET new == {e.from : e \in {f \in prog.edges : f.to = n}} \ bvisited
          IN  /\ slice' = [slice EXCEPT !.backward = @ \cup ({n} \cap slice.forward)]
              /\ bvisited' = bvisited \cup new
              /\ work' = (work \ {n}) \cup new
    /\ UNCHANGED <<prog, phase, sources, visited, sinksLeft, verdict>>

(***************************************************************************)
(* AllPathReachableSolve: conditions from the source to the sinks.         *)
(***************************************************************************)
getVFCond(sl, n) == IF n \in DOMAIN sl.cond THEN sl.cond[n] ELSE False

SolveGuards ==
    /\ phase = "backward" /\ work = {} /\ sinksLeft = {}
    /\ phase' = "guards"
    /\ work' = {slice.root}
    /\ slice' = [slice EXCEPT !.cond = slice.root :> prog.true]
    /\ UNCHANGED <<prog, sources, visited, bvisited, sinksLeft, verdict>>

\* Mutant: nothing is invalid.
InvalidCondNone(n) == False

computeInvalidCondFromRemovedSUVFEdge(n) ==
    LET valid == {BlockOf(prog, e.to) : e \in {f \in Out(n) : f.to \in slice.backward}}
    IN  UNION {prog.removed[r] : r \in {q \in DOMAIN prog.removed :
                                       q[1] = n /\ BlockOf(prog, q[2]) \notin valid}}

NewVFCond(n, m) ==
    getVFCond(slice, m) \cup
    (getVFCond(slice, n) \cap
       (UNION {prog.guard[e] : e \in {f \in Out(n) : f.to = m}}
          \ computeInvalidCondFromRemovedSUVFEdge(n)))

\* Mutant: a node is taken up again whether its condition has changed or not.
ChangedAlways(n) == {e.to : e \in {f \in Out(n) : f.to \in slice.backward}}

\* The successors whose condition setVFCond changes.
Changed(n) ==
    {m \in {e.to : e \in {f \in Out(n) : f.to \in slice.backward}} :
        m \notin DOMAIN slice.cond \/ slice.cond[m] # NewVFCond(n, m)}

GuardStep ==
    /\ phase = "guards"
    /\ \E n \in work :
          /\ slice' = [slice EXCEPT !.cond = [m \in Changed(n) |-> NewVFCond(n, m)] @@ slice.cond]
          /\ work' = (work \ {n}) \cup Changed(n)
    /\ UNCHANGED <<prog, phase, sources, visited, bvisited, sinksLeft, verdict>>

GuardsEnd ==
    /\ phase = "guards" /\ work = {}
    /\ phase' = "report"
    /\ UNCHANGED <<prog, sources, slice, work, visited, bvisited, sinksLeft, verdict>>

(***************************************************************************)
(* reportBug of the leak checker and of the double-free checker.           *)
(***************************************************************************)
isSatisfiableForAll   == UNION {getVFCond(slice, t) : t \in slice.sinks} = prog.true
isSatisfiableForPairs ==
    \A t, u \in slice.sinks : t # u => getVFCond(slice, t) \cap getVFCond(slice, u) = False

reportBug ==
    /\ phase = "report"
    /\ verdict' = verdict @@ (slice.root :>
         [leak   |-> IF slice.glob \/ isSatisfiableForAll THEN "none"
                     ELSE IF slice.partial THEN "partial" ELSE "never",
          double |-> ~isSatisfiableForPairs])
    /\ phase' = "next"
    /\ UNCHANGED <<prog, sources, slice, work, visited, bvisited, sinksLeft>>

Next == StartSlice \/ ForwardTraverse \/ ForwardEnds \/ BackwardFrom \/ BackwardTraverse
        \/ SolveGuards \/ GuardStep \/ GuardsEnd \/ reportBug

Finished == phase = "next" /\ sources = {}

\* A step can be taken until all sources are analysed, so this is weak fairness of Next.
Spec == Init /\ [][Next]_vars /\ ([]<><<Next>>_vars \/ []<>Finished)

-----------------------------------------------------------------------------
Leads(b, c) == c \in ReachedFrom({b}, prog.paths)
Callers(f)  == {cs \in DOMAIN prog.callee : prog.callee[cs] = f}

\* Where SABER follows the address no further than it really goes: a phi takes it
\* on all ways from where it was, not only some (the guard of an edge does not ask
\* for the incoming block); only what a store wrote is overwritten; and an
\* allocation that returns to several callers was recognised as a wrapper.
FlowsApart(s) ==
    /\ \A e \in prog.edges : e.kind = "dir" /\ e.via # {} =>
          \A b \in Blocks(prog) \ e.via :
              BlockOf(prog, e.to) \in prog.succ[b] => ~Leads(BlockOf(prog, e.from), b)
    /\ \A e \in RemovedEdges(prog) : prog.nodes[e.from].kind = "store"
    /\ Cardinality(Callers(prog.fun[BlockOf(prog, s)])) <= 1

\* Where it knows all ways on which the address gets there.  The variables of a
\* branch have a value for each of its successors and no other; a branch is decided
\* once, so no function is recursive and loops have one way out; the ways to a loop
\* are equally long, so that the search stops there with all of them; nodes without
\* a value come with no exits and tests; and what is overwritten was not used before.
Lengths(b, h) ==
    LET at[k \in 0 .. Cardinality(Blocks(prog))] ==
            IF k = 0 THEN {b} ELSE UNION {prog.succ[c] : c \in at[k - 1] \ {h}}
    IN  {k \in DOMAIN at : h \in at[k]}

WaysKnown ==
    /\ \A b \in Branches(prog) : Cardinality(prog.succ[b]) = 2^bit_num(Cardinality(prog.succ[b]))
    /\ \A b \in DOMAIN prog.calls : ~Leads(prog.entry[prog.callee[prog.calls[b]]], b)
    /\ \A h \in DOMAIN prog.loops :
          /\ Cardinality({e \in LoopExits(prog, h) : ~isBBCallsProgExit(prog, e)}) = 1
          /\ \A b \in Branches(prog) \ prog.loops[h] : Cardinality(Lengths(b, h)) <= 1
    /\ (\E n \in DOMAIN prog.nodes : prog.nodes[n].val = NoValue) => prog.exits = {} /\ DOMAIN prog.test = {}
    /\ \A r \in RemovedEdges(prog) : \A e \in Out(r.from) : ~Leads(BlockOf(prog, e.to), BlockOf(prog, r.to))

Truth(s) == Outcomes(prog, s)

\* No leak and no double free is missed (SrcSnkDDA::analyze and the reportBug of both
\* checkers), but for addresses a global may hold, and where FlowsApart and WaysKnown
\* say that the flows and their conditions are those of the program.
BugsFound ==
    \A s \in DOMAIN verdict :
        LET truth == Truth(s)
        IN  FlowsApart(s) /\ ~MeetsGlobal(truth) =>
                /\ Leaks(truth) => verdict[s].leak # "none"
                /\ FreesTwice(truth) /\ WaysKnown => verdict[s].double

\* Nothing is reported that cannot happen: what is reported as never freed is never
\* freed, and, under the same conditions, partial leaks and double frees happen.
AlarmsReal ==
    \A s \in DOMAIN verdict :
        LET truth == Truth(s)
        IN  /\ verdict[s].leak = "never" => ~Frees(truth)
            /\ verdict[s].leak # "none" /\ WaysKnown => Leaks(truth)
            /\ verdict[s].double /\ FlowsApart(s) => FreesTwice(truth)

\* Every source is reported on: conditions reach a fixed point round the cycles of
\* the value flow, and no traversal starts over.
SaberEnds == <>Finished
=============================================================================
