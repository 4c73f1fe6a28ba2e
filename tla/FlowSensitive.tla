---------------------------- MODULE FlowSensitive ----------------------------
(***************************************************************************)
(* Sparse flow-sensitive points-to analysis, svf/lib/WPA/FlowSensitive.cpp, *)
(* on the data-flow points-to tables of PersistentPointsToDS.h and         *)
(* MutablePointsToDS.h.  The tables keep a points-to set of every object   *)
(* before (IN) and, for stores, after (OUT) each node.  The incremental    *)
(* tables also flag what changed, and an update whose source is not flagged *)
(* does nothing.                                                           *)
(*                                                                         *)
(* The work list is a set: a node may be visited in any order.             *)
(***************************************************************************)
EXTENDS ValueFlowProblem

VARIABLES
    prog,         \* the program
    incremental,  \* whether the tables are the incremental ones (-inc-data)
    pts,          \* points-to sets of top-level variables
    df,           \* the tables: [in, out, inNew, outNew], the last two the flags
    direct, indirect,   \* the edges of the SVFG
    called,       \* indirect calls resolved
    worklist,
    pc            \* "init", "solve", "done"

fsVars == <<prog, incremental, pts, df, direct, indirect, called, worklist, pc>>

g             == Programs[prog]
Stmt(n)       == g.stmt[n]
IsStore(n)    == Stmt(n).kind = "store"
HasNew(fs, n, o) == incremental => o \in fs[n]

Unchanged == [pts |-> pts, df |-> df, changed |-> FALSE]

-----------------------------------------------------------------------------
(***************************************************************************)
(* processSVFGNode: the new points-to sets and tables, and whether the     *)
(* node has changed anything.                                              *)
(***************************************************************************)
Define(v, add) ==
    [pts |-> [pts EXCEPT ![v] = @ \cup add], df |-> df, changed |-> ~(add \subseteq pts[v])]

\* unionPtsFromIn consumes the flag.
ProcessLoad(n) ==
    LET from == {o \in pts[Stmt(n).ptr] : HasNew(df.inNew, n, o)}
    IN  [Define(Stmt(n).dst, UNION {df.in[n][o] : o \in from})
            EXCEPT !.df.inNew[n] = @ \ from]

IsStrongUpdate(n, o) == pts[Stmt(n).ptr] = {o} /\ o \in StrongObjs(g, called)

\* Mutant: nothing is killed.
ProcessStoreWeak(n) ==
    LET to     == pts[Stmt(n).ptr]
        passed == {o \in Objs : HasNew(df.inNew, n, o)}
        out    == [o \in Objs |-> df.out[n][o]
                                  \cup (IF o \in to THEN pts[Stmt(n).src] ELSE {})
                                  \cup (IF o \in passed THEN df.in[n][o] ELSE {})]
        grown  == {o \in Objs : out[o] # df.out[n][o]}
    IN  IF to = {} THEN Unchanged
        ELSE [pts |-> pts, changed |-> grown # {},
              df |-> [df EXCEPT !.out[n] = out, !.outNew[n] = @ \cup grown,
                                !.inNew[n] = @ \ passed]]

(***************************************************************************)
(* OUT takes what the store writes, then what is flagged in IN, except the *)
(* object that a strong update kills, whose flag stays.                    *)
(***************************************************************************)
ProcessStore(n) ==
    LET to     == pts[Stmt(n).ptr]
        passed == {o \in Objs : HasNew(df.inNew, n, o) /\ ~IsStrongUpdate(n, o)}
        out    == [o \in Objs |-> df.out[n][o]
                                  \cup (IF o \in to THEN pts[Stmt(n).src] ELSE {})
                                  \cup (IF o \in passed THEN df.in[n][o] ELSE {})]
        grown  == {o \in Objs : out[o] # df.out[n][o]}
    IN  IF to = {} THEN Unchanged
        ELSE [pts |-> pts, changed |-> grown # {},
              df |-> [df EXCEPT !.out[n] = out, !.outNew[n] = @ \cup grown,
                                !.inNew[n] = @ \ passed]]

\* Memory, parameter and return nodes always count as changed.
ProcessTopLevel(n) ==
    CASE Stmt(n).kind = "addr" -> Define(Stmt(n).dst, {Stmt(n).obj})
      [] Stmt(n).kind = "copy" -> Define(Stmt(n).dst, UNION {pts[v] : v \in Stmt(n).srcs})
      [] OTHER -> [Unchanged EXCEPT !.changed = TRUE]

ProcessSVFGNode(n) ==
    CASE Stmt(n).kind = "load"  -> ProcessLoad(n)
      [] Stmt(n).kind = "store" -> ProcessStore(n)
      [] OTHER -> ProcessTopLevel(n)

-----------------------------------------------------------------------------
(***************************************************************************)
(* propagate, along direct edges: the points-to sets with the parameters   *)
(* passed on, and the nodes to visit.                                      *)
(***************************************************************************)
PassOn(n, p) ==
    LET succ    == {e[2] : e \in {f \in direct : f[1] = n}}
        grown   == {m \in succ : ~(p[Stmt(n).var] \subseteq p[Stmt(m).var])}
        formals == {Stmt(m).var : m \in grown}
    IN  IF Stmt(n).kind = "actual"
          THEN [pts |-> [v \in Vars |-> p[v] \cup (IF v \in formals THEN p[Stmt(n).var] ELSE {})],
                push |-> grown]
          ELSE [pts |-> p, push |-> succ]

(***************************************************************************)
(* Update IN of the targets of a set of indirect edges from n: from OUT    *)
(* when n is a store, from IN otherwise; with flags unless all is taken.   *)
(***************************************************************************)
LeavesNew(d, n, o) == IF IsStore(n) THEN HasNew(d.outNew, n, o) ELSE HasNew(d.inNew, n, o)
UpdateIn(d, es) ==
    LET add(m, o) == UNION {Exit(g, d, e[1], o) : e \in {f \in es : f[2] = m /\ f[3] = o}}
        grown     == {e \in es : ~(Exit(g, d, e[1], e[3]) \subseteq d.in[e[2]][e[3]])}
        push      == {e[2] : e \in grown}
    IN  [push |-> push,
         df   |-> [d EXCEPT
                    !.in    = [m \in NodesOf(g) |-> IF m \in push
                                THEN [o \in Objs |-> @[m][o] \cup add(m, o)] ELSE @[m]],
                    !.inNew = [m \in NodesOf(g) |-> IF m \in push
                                THEN @[m] \cup {e[3] : e \in {f \in grown : f[2] = m}} ELSE @[m]]]]

(***************************************************************************)
(* processNode: process, propagate when changed, clear the OUT flags.      *)
(***************************************************************************)
ProcessNode(n) ==
    LET r   == ProcessSVFGNode(n)
        top == PassOn(n, r.pts)
        mem == UpdateIn(r.df, {e \in indirect : e[1] = n /\ LeavesNew(r.df, n, e[3])})
    IN  IF r.changed
          THEN /\ pts' = top.pts
               /\ df' = [mem.df EXCEPT !.outNew[n] = {}]
               /\ worklist' = (worklist \ {n}) \cup top.push \cup mem.push
          ELSE /\ pts' = r.pts
               /\ df' = [r.df EXCEPT !.outNew[n] = {}]
               /\ worklist' = worklist \ {n}

SolveWorklist ==
    /\ pc = "solve"
    /\ \E n \in worklist : ProcessNode(n)
    /\ UNCHANGED <<prog, incremental, direct, indirect, called, pc>>

\* The head of the loop of solveConstraints: initWorklist takes every node.
InitWorklist ==
    /\ pc = "init"
    /\ worklist' = NodesOf(g)
    /\ pc' = "solve"
    /\ UNCHANGED <<prog, incremental, pts, df, direct, indirect, called>>

(***************************************************************************)
(* updateCallGraph: connect the calls resolved meanwhile, as far as        *)
(* Andersen's analysis resolved them too.  updateConnectedNodes brings what *)
(* the sources hold to the new targets, flagged or not.                    *)
(***************************************************************************)
NewCalls == Resolved(g, pts) \ called

\* Mutant: the call graph counts as changed as long as any call is resolved.
ConnectAgain(cs) ==
    /\ called' = called \cup cs
    /\ direct' = DirectOf(g, called')
    /\ indirect' = IndirectOf(g, called')
    /\ pc' = IF called' = {} THEN "done" ELSE "init"

Connect(cs) ==
    /\ called' = called \cup cs
    /\ direct' = DirectOf(g, called')
    /\ indirect' = IndirectOf(g, called')
    /\ pc' = IF cs = {} THEN "done" ELSE "init"

UpdateCallGraph ==
    /\ pc = "solve" /\ worklist = {}
    /\ Connect(NewCalls)
    /\ LET r == UpdateIn(df, UNION {c.indirect : c \in NewCalls})
       IN  df' = r.df /\ worklist' = r.push
    /\ UNCHANGED <<prog, incremental, pts>>

EmptyTables == [in     |-> NoFlow(g).in, out |-> NoFlow(g).out,
                inNew  |-> [n \in NodesOf(g) |-> {}],
                outNew |-> [n \in NodesOf(g) |-> {}]]

fsInit ==
    /\ prog \in DOMAIN Programs /\ incremental \in BOOLEAN
    /\ pts = [v \in Vars |-> {}]
    /\ df = EmptyTables
    /\ direct = g.direct /\ indirect = g.indirect /\ called = {}
    /\ worklist = {} /\ pc = "init"

fsNext == InitWorklist \/ SolveWorklist \/ UpdateCallGraph

\* A step can be taken until the analysis is done, so this is weak fairness of fsNext.
fsSpec == fsInit /\ [][fsNext]_fsVars /\ ([]<><<fsNext>>_fsVars \/ []<>(pc = "done"))

-----------------------------------------------------------------------------
\* What the tables hold never goes beyond the least solution: no value survives a
\* strong update, whatever the order of visits.
FlowPrecise ==
    LET s == Solution[prog]
    IN  /\ \A v \in Vars : pts[v] \subseteq s.pts[v]
        /\ \A n \in NodesOf(g), o \in Objs :
              df.in[n][o] \subseteq s.in[n][o] /\ df.out[n][o] \subseteq s.out[n][o]

\* At the end nothing is missing either: what a flag held back was not needed.
FlowComplete ==
    pc = "done" =>
        LET s == Solution[prog]
        IN  pts = s.pts /\ df.in = s.in /\ df.out = s.out

FlowSensitiveEnds == <>(pc = "done")
=============================================================================
