-------------------------- MODULE ValueFlowProblem --------------------------
(***************************************************************************)
(* What the flow-sensitive analyses are given: a sparse value-flow graph   *)
(* (SVFG) built from Andersen's points-to sets, and what their results are *)
(* measured against: its least flow-sensitive solution.                    *)
(*                                                                         *)
(* A program g holds                                                       *)
(*   stmt      [node -> statement], a record with the field kind:          *)
(*               addr [dst, obj]     dst = &obj                            *)
(*               copy [dst, srcs]    copies and top-level phis             *)
(*               load [dst, ptr]     dst = *ptr                            *)
(*               store [ptr, src]    *ptr = src                            *)
(*               mssa [objs]         phis of memory and the formal/actual  *)
(*                                   in/out nodes: what memory arrives     *)
(*               actual [var]        actual parameter or formal return     *)
(*               formal [var]        formal parameter or actual return     *)
(*   direct    edges <<n, m>>;  indirect edges <<n, m, o>>, one per object *)
(*   strong    objects a store may kill: neither heap, array nor           *)
(*             field-insensitive                                           *)
(*   calls     indirect calls Andersen's analysis resolved: [ptr, callee,  *)
(*             direct, indirect, locals], the edges connecting them adds   *)
(*             and the local variables of the functions it makes recursive *)
(* Fields and constant objects are left out.                               *)
(***************************************************************************)
EXTENDS Naturals, FiniteSets, Digraphs

CONSTANTS Vars, Objs,
          Programs    \* the programs by name

NodesOf(g)   == DOMAIN g.stmt
OfKind(g, k) == {n \in NodesOf(g) : g.stmt[n].kind = k}
Stores(g)    == OfKind(g, "store")
Loads(g)     == OfKind(g, "load")

Resolved(g, p)     == {c \in g.calls : c.callee \in p[c.ptr]}
DirectOf(g, cs)    == g.direct \cup UNION {c.direct : c \in cs}
IndirectOf(g, cs)  == g.indirect \cup UNION {c.indirect : c \in cs}

\* isStrongUpdate's conditions on the object; isLocalVarInRecursiveFun goes by the
\* calls resolved so far.
StrongObjs(g, cs) == g.strong \ UNION {c.locals : c \in cs}

\* The parameter and return copies along direct edges.
ParamCopies(g, es) ==
    {e \in es : g.stmt[e[1]].kind = "actual" /\ g.stmt[e[2]].kind = "formal"}

-----------------------------------------------------------------------------
(***************************************************************************)
(* Andersen's points-to sets of variables and objects.                     *)
(***************************************************************************)
AndersenStep(g, p) ==
    LET cs == Resolved(g, p)
        gen(x) ==
            UNION ( {{g.stmt[n].obj} : n \in {m \in OfKind(g, "addr") : g.stmt[m].dst = x}}
               \cup {UNION {p[y] : y \in g.stmt[n].srcs} :
                        n \in {m \in OfKind(g, "copy") : g.stmt[m].dst = x}}
               \cup {UNION {p[o] : o \in p[g.stmt[n].ptr]} :
                        n \in {m \in Loads(g) : g.stmt[m].dst = x}}
               \cup {p[g.stmt[n].src] : n \in {m \in Stores(g) : x \in p[g.stmt[m].ptr]}}
               \cup {p[g.stmt[e[1]].var] :
                        e \in {f \in ParamCopies(g, DirectOf(g, cs)) : g.stmt[f[2]].var = x}})
    IN  [x \in Vars \cup Objs |-> p[x] \cup gen(x)]

AndersenPts ==
    [name \in DOMAIN Programs |->
        LET g == Programs[name]
        IN  Limit([p \in [Vars \cup Objs -> SUBSET Objs] |-> AndersenStep(g, p)],
                  [x \in Vars \cup Objs |-> {}])]

(***************************************************************************)
(* The least flow-sensitive solution: points-to sets of variables, and of  *)
(* objects before (in) and after (out) the nodes.  A store with an empty   *)
(* pointer lets nothing pass, as processStore returns at once.             *)
(***************************************************************************)
Exit(g, s, n, o) == IF g.stmt[n].kind = "store" THEN s.out[n][o] ELSE s.in[n][o]

Gen(g, s, v) ==
    {x \in Objs :
        \/ \E n \in OfKind(g, "addr") : g.stmt[n].dst = v /\ g.stmt[n].obj = x
        \/ \E n \in OfKind(g, "copy") : g.stmt[n].dst = v /\ \E w \in g.stmt[n].srcs : x \in s.pts[w]
        \/ \E n \in Loads(g) : g.stmt[n].dst = v /\ \E o \in s.pts[g.stmt[n].ptr] : x \in s.in[n][o]
        \/ \E e \in ParamCopies(g, DirectOf(g, Resolved(g, s.pts))) :
              g.stmt[e[2]].var = v /\ x \in s.pts[g.stmt[e[1]].var]}

Arrives(g, s, n, o) ==
    {x \in Objs : \E e \in IndirectOf(g, Resolved(g, s.pts)) :
                     e[2] = n /\ e[3] = o /\ x \in Exit(g, s, e[1], o)}

Killed(to, o, strong) == to = {} \/ (to = {o} /\ o \in strong)
Leaves(g, s, n, o) ==
    LET to == s.pts[g.stmt[n].ptr]
    IN  (IF o \in to THEN s.pts[g.stmt[n].src] ELSE {})
        \cup (IF Killed(to, o, StrongObjs(g, Resolved(g, s.pts))) THEN {} ELSE s.in[n][o])

FlowStep(g, s) ==
    [pts |-> [v \in Vars |-> s.pts[v] \cup Gen(g, s, v)],
     in  |-> [n \in NodesOf(g) |-> [o \in Objs |-> s.in[n][o] \cup Arrives(g, s, n, o)]],
     out |-> [n \in NodesOf(g) |-> [o \in Objs |->
                s.out[n][o] \cup (IF n \in Stores(g) THEN Leaves(g, s, n, o) ELSE {})]]]

Memory(g) == [NodesOf(g) -> [Objs -> SUBSET Objs]]
Flows(g)  == [pts : [Vars -> SUBSET Objs], in : Memory(g), out : Memory(g)]

NoFlow(g) == [pts |-> [v \in Vars |-> {}],
              in  |-> [n \in NodesOf(g) |-> [o \in Objs |-> {}]],
              out |-> [n \in NodesOf(g) |-> [o \in Objs |-> {}]]]

Solution ==
    [name \in DOMAIN Programs |->
        LET g == Programs[name]
        IN  Limit([s \in Flows(g) |-> FlowStep(g, s)], NoFlow(g))]

(***************************************************************************)
(* Every def-use edge carries objects Andersen's analysis says the store   *)
(* it leaves, or the store or load it enters, may access; memory nodes     *)
(* list the objects of their edges.                                        *)
(***************************************************************************)
Accesses(name, n) ==
    LET st == Programs[name].stmt[n]
    IN  CASE st.kind \in {"store", "load"} -> AndersenPts[name][st.ptr]
          [] st.kind = "mssa" -> st.objs
          [] OTHER -> {}

Typed(st) ==
    CASE st.kind = "addr"  -> st.dst \in Vars /\ st.obj \in Objs
      [] st.kind = "copy"  -> st.dst \in Vars /\ st.srcs \subseteq Vars
      [] st.kind = "load"  -> st.dst \in Vars /\ st.ptr \in Vars
      [] st.kind = "store" -> st.ptr \in Vars /\ st.src \in Vars
      [] st.kind \in {"actual", "formal"} -> st.var \in Vars
      [] OTHER -> st.kind = "mssa"

Defined(st) == CASE st.kind \in {"addr", "copy", "load"} -> {st.dst}
                 [] st.kind = "formal" -> {st.var}
                 [] OTHER -> {}
Used(st) == CASE st.kind = "copy"   -> st.srcs
              [] st.kind = "load"   -> {st.ptr}
              [] st.kind = "store"  -> {st.ptr, st.src}
              [] st.kind = "actual" -> {st.var}
              [] OTHER -> {}

\* A variable has one definition (setDef asserts it), with an edge to every use
\* (connectDirectVFGEdges); actual parameters and formal returns have edges to formal
\* parameters and actual returns, and nothing else has direct edges; every variable used
\* has a definition (getDef asserts it); edges for memory leave stores and memory nodes;
\* those of calls enter formal-in and actual-out nodes, or leave actual parameters and
\* formal returns.
WellFormed(g) ==
    LET N       == NodesOf(g)
        defined == UNION {Defined(g.stmt[n]) : n \in N}
    IN  /\ IsFiniteSet(N)
        /\ \A n \in N : Typed(g.stmt[n]) /\ Used(g.stmt[n]) \subseteq defined
        /\ DirectOf(g, g.calls) \subseteq N \X N
        /\ IndirectOf(g, g.calls) \subseteq N \X N \X Objs
        /\ \A c \in g.calls : c.ptr \in Vars \cap defined
        /\ \A n, m \in N : Defined(g.stmt[n]) \cap Used(g.stmt[m]) # {} => <<n, m>> \in g.direct
        /\ \A e \in DirectOf(g, g.calls) :
              IF g.stmt[e[1]].kind = "actual" THEN g.stmt[e[2]].kind = "formal"
              ELSE Defined(g.stmt[e[1]]) \cap Used(g.stmt[e[2]]) # {}
        /\ \A e \in IndirectOf(g, g.calls) : g.stmt[e[1]].kind \in {"store", "mssa"}
        /\ \A c \in g.calls : \A e \in c.indirect : g.stmt[e[2]].kind = "mssa"
        /\ \A c \in g.calls : \A e \in c.direct : g.stmt[e[1]].kind = "actual"
        /\ \A n, m \in N : Defined(g.stmt[n]) \cap Defined(g.stmt[m]) # {} => n = m

ASSUME ProgramsAssumption ==
    /\ IsFiniteSet(Vars) /\ IsFiniteSet(Objs) /\ Vars \cap Objs = {}
    /\ \A name \in DOMAIN Programs : WellFormed(Programs[name])

ASSUME ProblemAssumption ==
    \A name \in DOMAIN Programs :
        LET g == Programs[name]
        IN  /\ \A e \in IndirectOf(g, g.calls) :
                  e[3] \in Accesses(name, e[1]) \cap Accesses(name, e[2])
            /\ \A c \in g.calls : c.callee \in AndersenPts[name][c.ptr]
=============================================================================
