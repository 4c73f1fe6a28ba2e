------------------------ MODULE AbstractInterpretation ------------------------
(***************************************************************************)
(* The abstract interpreter of AE/Svfexe/AbstractInterpretation.cpp: from    *)
(* each entry function it takes the components of the weak topological       *)
(* order, inlines calls, and iterates cycles with widening after a delay and *)
(* narrowing after that.  The recursion of handleFunction, handleFunCall and *)
(* handleLoopOrRecursion is the list of what is still to be handled.         *)
(*                                                                         *)
(* A program is a record: funs, its functions in the order of the call       *)
(* graph; entry, their entry nodes; fun, stmt and out, for each node its     *)
(* function, statement and outgoing edges [dst, kind, cond, val], where      *)
(* kind is "intra", "call" or "ret" and cond a register or None; ret, the    *)
(* return node of each call node; callee, the function called, or for an     *)
(* indirect call the register that holds it; targets, the functions the      *)
(* call graph has for it, in order; globals, the registers of constants and  *)
(* of functions with their values; vars, all registers and objects.          *)
(***************************************************************************)
EXTENDS IntervalDomain, WeakTopologicalOrder, Digraphs

CONSTANTS Programs,   \* a set of programs
          Delays,     \* the values of the option -widen-delay
          Recursions, \* of the option -handle-recur
          Main, None

VARIABLES prog,      \* the program
          options,   \* the delay and the mode of recursion
          reaches,   \* the pairs of functions joined by a path of calls
          funcToWTO, \* the order of each function called from outside its component
          trace,     \* abstractTrace: the states of the nodes that have one
          todo       \* what is to be handled, the next first

vars == <<prog, options, reaches, funcToWTO, trace, todo>>
given == <<prog, options, reaches, funcToWTO>>

-----------------------------------------------------------------------------
(* The call graph, its components and the orders made from them.            *)

NodesOf(p) == DOMAIN p.stmt
CallNodes(p) == DOMAIN p.ret
CallPairs(p) == UNION {{<<p.fun[n], f>> : f \in ToSet(p.targets[n])} : n \in CallNodes(p)}

SCC(R, f) == {f} \cup {e[2] : e \in {d \in R : d[1] = f /\ <<d[2], f>> \in R}}
isRecursiveFun(f) == <<f, f>> \in reaches

\* getSuccessors of ICFGWTO, within the functions of scc.
getSuccessors(p, scc, n) ==
    IF n \in CallNodes(p)
    THEN [i \in DOMAIN p.out[n] |-> IF p.fun[p.out[n][i].dst] \in scc THEN p.out[n][i].dst
                                                                      ELSE p.ret[n]]
    ELSE LET inside == SelectSeq(p.out[n], LAMBDA e : p.fun[e.dst] \in scc)
         IN  [i \in DOMAIN inside |-> inside[i].dst]
Successors(p, R, f) == [n \in NodesOf(p) |-> getSuccessors(p, SCC(R, f), n)]

\* An order for each function nobody calls or called from outside its component.
isEntry(p, R, f) ==
    LET callers == {c[1] : c \in {d \in CallPairs(p) : d[2] = f}}
    IN  callers = {} \/ ~(callers \subseteq SCC(R, f))
initWTO(p, R) ==
    [f \in {g \in ToSet(p.funs) : isEntry(p, R, g)} |-> wto(p.entry[f], Successors(p, R, f))]

-----------------------------------------------------------------------------
(* Statements and branches.                                                 *)

AsInterval(a, x) == IF isInterval(a[x]) THEN a ELSE [a EXCEPT ![x] = Interval(Top)]

\* updateStateOnBinary for an addition.
updateStateOnBinary(a, s) ==
    LET b == AsInterval(AsInterval(a, s.op0), s.op1)
    IN  [b EXCEPT ![s.res] = Interval(add(b[s.op0].interval, b[s.op1].interval))]

\* Addresses are compared as sets, whatever the predicate.
updateStateOnCmp(a, s) ==
    IF isAddr(a[s.op0]) /\ isAddr(a[s.op1])
    THEN LET x == a[s.op0].addrs
             y == a[s.op1].addrs
         IN  [a EXCEPT ![s.res] = Interval(Truth(x = y, x \cap y = {}))]
    ELSE LET b == AsInterval(AsInterval(a, s.op0), s.op1)
         IN  [b EXCEPT ![s.res] = Interval(compare(s.pred, b[s.op0].interval, b[s.op1].interval))]

handleSVFStatement(a, s) ==
    CASE s.op = "addr"  -> [a EXCEPT ![s.lhs] = Address({s.obj})]
      [] s.op = "copy"  -> [a EXCEPT ![s.lhs] = a[s.rhs]]
      [] s.op = "add"   -> updateStateOnBinary(a, s)
      [] s.op = "cmp"   -> updateStateOnCmp(a, s)
      [] s.op = "load"  -> [a EXCEPT ![s.lhs] = loadValue(a, s.rhs)]
      [] s.op = "store" -> storeValue(a, s.lhs, a[s.rhs])
      [] s.op = "skip"  -> a

\* The statement that defines a register, and the load it is the value of.
Definition(p, x) == {p.stmt[n] : n \in {m \in NodesOf(p) : p.stmt[m].op \in {"copy", "add", "cmp", "load"}
                                        /\ (CASE p.stmt[m].op \in {"copy", "load"} -> p.stmt[m].lhs
                                              [] OTHER -> p.stmt[m].res) = x}}
LoadsOf(p, x) ==
    LET loads(y) == {s \in Definition(p, y) : s.op = "load"}
    IN  loads(x) \cup UNION {loads(s.rhs) : s \in {t \in Definition(p, x) : t.op = "copy"}}

\* <= is in neither table of the code, and what is not in a table restricts nothing.
Swapped == [lt |-> "gt", le |-> "none", gt |-> "lt", ge |-> "le", eq |-> "eq", ne |-> "ne"]
\* Mutant: of i < n, i > n is taken for the contrary.
ReversedStrict ==
    [lt |-> "gt", le |-> "none", gt |-> "lt", ge |-> "lt", eq |-> "ne", ne |-> "eq", none |-> "none"]
Reversed ==
    [lt |-> "ge", le |-> "none", gt |-> "le", ge |-> "lt", eq |-> "ne", ne |-> "eq", none |-> "none"]

\* What x pred n leaves of x.
Restriction(pred, i) ==
    CASE pred = "eq" -> i
      [] pred = "gt" -> <<safeAdd(i[1], 1), Infinity>>
      [] pred = "ge" -> <<i[1], Infinity>>
      [] pred = "lt" -> <<-Infinity, safeAdd(i[2], -1)>>
      [] pred = "le" -> <<-Infinity, i[2]>>
      [] OTHER -> Top

\* The states in which the branch on comparison s to value val is taken: none
\* or one.  The variable is restricted, and so is what it was loaded from, which
\* keeps no address: the bound it is met with is a value without any.
CmpBranch(p, s, val, a) ==
    LET numeral(x) == is_numeral(a[x].interval)
        swap == numeral(s.op0) /\ ~numeral(s.op1)
        x == IF swap THEN s.op1 ELSE s.op0
        n == IF swap THEN s.op0 ELSE s.op1
        pred == IF swap THEN Swapped[s.pred] ELSE s.pred
        range == Restriction(IF val = 0 THEN Reversed[pred] ELSE pred, a[n].interval)
        cells == {o \in UNION {a[l.rhs].addrs : l \in LoadsOf(p, x)} : isInterval(a[o])}
    IN  IF isAddr(a[s.op0]) \/ isAddr(a[s.op1]) THEN {a}
        ELSE IF isBottom(meet_with(a[s.res].interval, <<val, val>>)) THEN {}
        ELSE IF numeral(x) \/ ~numeral(n) THEN {a}
        ELSE {[y \in DOMAIN a |-> IF y = x THEN [a[y] EXCEPT !.interval = meet_with(@, range)]
                                  ELSE IF y \in cells THEN Interval(meet_with(a[y].interval, range))
                                  ELSE a[y]]}

\* The branch on a value that is no comparison.
SwitchBranch(p, x, val, a) ==
    LET cond == meet_with(a[x].interval, <<val, val>>)
        cells == {o \in UNION {a[s.rhs].addrs : s \in {t \in Definition(p, x) : t.op = "load"}} :
                      isInterval(a[o])}
    IN  IF isBottom(cond) THEN {}
        ELSE {[y \in DOMAIN a |-> IF y = x THEN [a[y] EXCEPT !.interval = cond]
                                  ELSE IF y \in cells THEN Interval(meet_with(a[y].interval, cond))
                                  ELSE a[y]]}

isBranchFeasible(p, e, a) ==
    LET cmps == {s \in Definition(p, e.cond) : s.op = "cmp"}
    IN  IF cmps # {} THEN UNION {CmpBranch(p, s, e.val, a) : s \in cmps}
                     ELSE SwitchBranch(p, e.cond, e.val, a)

-----------------------------------------------------------------------------
(* Nodes.                                                                   *)

\* What an edge brings to its destination m under trace tr.
Brought(p, tr, n, e) ==
    CASE n \notin DOMAIN tr -> {}
      [] e.kind = "intra" /\ e.cond # None -> isBranchFeasible(p, e, tr[n])
      [] e.kind = "ret" /\ ~\E c \in DOMAIN tr \cap CallNodes(p) : p.ret[c] = e.dst -> {}
      [] OTHER -> {tr[n]}

Incoming(p, tr, m) ==
    UNION {UNION {Brought(p, tr, n, e) : e \in {f \in ToSet(p.out[n]) : f.dst = m}} : n \in NodesOf(p)}

Empty(p) == [x \in p.vars |-> Nothing]
Global(p) == [x \in p.vars |-> IF x \in DOMAIN p.globals THEN p.globals[x] ELSE Nothing]

isFunEntry(p, n) == n = p.entry[p.fun[n]]

\* The states handleICFGNode starts from at node n: none if no predecessor has
\* one, except at the entry of a function, which has the global state then.
mergeStatesFromPredecessors(p, tr, n) ==
    LET ins == Incoming(p, tr, n)
    IN  IF ins # {} THEN {FoldSet(joinWith, Empty(p), ins)}
        ELSE IF isFunEntry(p, n) THEN {Global(p)} ELSE {}

\* handleICFGNode but for the call: the trace after it.
handleICFGNode(p, tr, n) ==
    LET set(a) == [m \in DOMAIN tr \cup {n} |-> IF m = n THEN handleSVFStatement(a, p.stmt[n]) ELSE tr[m]]
        ins == mergeStatesFromPredecessors(p, tr, n)
    IN  IF ins = {} THEN tr ELSE set(CHOOSE a \in ins : TRUE)

\* getCallee: of an indirect call, the first of the addresses its register has.
getCallee(p, a, n) ==
    IF p.callee[n] \in ToSet(p.funs) THEN {p.callee[n]}
    ELSE LET known == SelectSeq(p.funs, LAMBDA f : f \in a[p.callee[n]].addrs)
         IN  IF known = <<>> THEN {} ELSE {known[1]}

skipRecursiveCall(a, n) ==
    \E f \in getCallee(prog, a, n) : isRecursiveFun(f) /\ f \in SCC(reaches, prog.fun[n])

\* Items to do: a component, the return state of a call, the widening at a head.
ItemOf(c) == [kind |-> IF c.loop THEN "head" ELSE "node", node |-> c.head, body |-> c.body,
              iter |-> 0, increasing |-> TRUE, prev |-> None]
Items(comps) == [i \in DOMAIN comps |-> ItemOf(comps[i])]

\* The components of functions fs in turn; a function without an order has none.
handleFunctions(orders, fs) ==
    FoldLeft(LAMBDA s, f : s \o IF f \in DOMAIN orders THEN Items(orders[f]) ELSE <<>>, <<>>, fs)

\* The call at node n, between traces before and after of its handling: the
\* callees, then the return state.
handleFunCall(before, after, n) ==
    IF \/ n \notin CallNodes(prog)
       \/ mergeStatesFromPredecessors(prog, before, n) = {}
       \/ skipRecursiveCall(after[n], n)
    THEN <<>>
    ELSE handleFunctions(funcToWTO, prog.targets[n]) \o <<[ItemOf(Node(n)) EXCEPT !.kind = "return"]>>

-----------------------------------------------------------------------------
collectProgEntryFuns(p) ==
    LET free == SelectSeq(p.funs, LAMBDA f : \A c \in CallPairs(p) : c[2] # f)
    IN  SelectSeq(free, LAMBDA f : f = Main) \o SelectSeq(free, LAMBDA f : f # Main)

\* analyzeFromAllProgEntries.
Init ==
    /\ prog \in Programs
    /\ options \in [delay : Delays, recursion : Recursions]
    /\ reaches = Closure(CallPairs(prog), ToSet(prog.funs))
    /\ funcToWTO = initWTO(prog, reaches)
    /\ trace = <<>>
    /\ todo = handleFunctions(funcToWTO, collectProgEntryFuns(prog))

item == todo[1]
HandledAt(n) == handleICFGNode(prog, trace, n)

\* A node outside the heads of cycles.
HandleNode ==
    /\ todo # <<>> /\ item.kind = "node"
    /\ trace' = HandledAt(item.node)
    /\ todo' = handleFunCall(trace, trace', item.node) \o Tail(todo)
    /\ UNCHANGED given

\* The state of a call node becomes that of its return node.
SetReturn ==
    /\ todo # <<>> /\ item.kind = "return"
    /\ trace' = [m \in DOMAIN trace \cup {prog.ret[item.node]} |->
                    IF m = prog.ret[item.node] THEN trace[item.node] ELSE trace[m]]
    /\ todo' = Tail(todo)
    /\ UNCHANGED given

StateAt(tr, n) == IF n \in DOMAIN tr THEN tr[n] ELSE Empty(prog)

\* An iteration of handleLoopOrRecursion: the head first, then Iterate.
HandleHead ==
    /\ todo # <<>> /\ item.kind = "head"
    /\ trace' = HandledAt(item.node)
    /\ todo' = handleFunCall(trace, trace', item.node)
               \o <<[item EXCEPT !.kind = "iterate", !.prev = StateAt(trace, item.node)]>>
               \o Tail(todo)
    /\ UNCHANGED given

shouldApplyNarrowing(n) ==
    isRecursiveFun(prog.fun[n]) => options.recursion = "WIDEN_NARROW"

\* Mutant: the iterations are not counted, so widening never begins.
AgainUncounted(increasing) ==
    [item EXCEPT !.kind = "head", !.increasing = increasing, !.prev = None]
Again(increasing) ==
    [item EXCEPT !.kind = "head", !.iter = @ + 1, !.increasing = increasing, !.prev = None]
SetHead(a) == trace' = [m \in DOMAIN trace \cup {item.node} |-> IF m = item.node THEN a ELSE trace[m]]

\* The body, and the next iteration after it.
Body == todo' = Items(item.body) \o <<Again(item.increasing)>> \o Tail(todo)

Delay ==
    /\ item.iter < options.delay
    /\ SetHead(StateAt(trace, item.node))
    /\ Body
Widen ==
    /\ item.iter >= options.delay /\ item.increasing
    /\ LET new == widening(item.prev, StateAt(trace, item.node))
       IN  /\ SetHead(new)
           /\ IF new = item.prev THEN todo' = <<Again(FALSE)>> \o Tail(todo) ELSE Body
Narrow ==
    /\ item.iter >= options.delay /\ ~item.increasing
    /\ IF shouldApplyNarrowing(item.node)
       THEN LET new == narrowing(item.prev, StateAt(trace, item.node))
            IN  /\ SetHead(new)
                /\ IF new = item.prev THEN todo' = Tail(todo) ELSE Body
       ELSE /\ SetHead(StateAt(trace, item.node))
            /\ todo' = Tail(todo)

Iterate ==
    /\ todo # <<>> /\ item.kind = "iterate"
    /\ Delay \/ Widen \/ Narrow
    /\ UNCHANGED given

Done == todo = <<>> /\ UNCHANGED vars

Next == HandleNode \/ SetReturn \/ HandleHead \/ Iterate \/ Done

Spec == Init /\ [][Next]_vars
\* The loop takes its next step as long as something is left to be handled.
FairSpec == Spec /\ WF_vars(Next)

-----------------------------------------------------------------------------
(* Runs of the program: the node just executed, the contents of variables   *)
(* and objects, and the call nodes not returned from.                       *)

Num(k) == <<"num", k>>
Ref(o) == <<"ref", o>>
Undef == <<"undef", 0>>

Holds(pred, x, y) ==
    CASE pred = "eq" -> x = y
      [] pred = "ne" -> x # y
      [] pred = "lt" -> x[2] < y[2]
      [] pred = "le" -> x[2] <= y[2]
      [] pred = "gt" -> x[2] > y[2]
      [] pred = "ge" -> x[2] >= y[2]

Executed(env, s) ==
    CASE s.op = "addr"  -> [env EXCEPT ![s.lhs] = Ref(s.obj)]
      [] s.op = "copy"  -> [env EXCEPT ![s.lhs] = env[s.rhs]]
      [] s.op = "add"   -> [env EXCEPT ![s.res] = IF Undef \in {env[s.op0], env[s.op1]} THEN Undef
                                                  ELSE Num(env[s.op0][2] + env[s.op1][2])]
      [] s.op = "cmp"   -> [env EXCEPT ![s.res] = IF Undef \in {env[s.op0], env[s.op1]} THEN Undef
                                                  ELSE Num(IF Holds(s.pred, env[s.op0], env[s.op1])
                                                           THEN 1 ELSE 0)]
      [] s.op = "load"  -> [env EXCEPT ![s.lhs] = env[env[s.rhs][2]]]
      [] s.op = "store" -> [env EXCEPT ![env[s.lhs][2]] = env[s.rhs]]
      [] s.op = "skip"  -> env

Taken(p, c, e) ==
    CASE e.kind = "intra" -> e.cond = None \/ c.env[e.cond] = Num(e.val)
      [] e.kind = "call"  -> p.callee[c.node] = p.fun[e.dst]
                             \/ c.env[p.callee[c.node]] = Ref(p.fun[e.dst])
      [] e.kind = "ret"   -> c.calls # <<>> /\ p.ret[c.calls[1]] = e.dst

Stepped(p, c, e) ==
    [node |-> e.dst, env |-> Executed(c.env, p.stmt[e.dst]),
     calls |-> CASE e.kind = "call" -> <<c.node>> \o c.calls
                 [] e.kind = "ret"  -> Tail(c.calls)
                 [] OTHER           -> c.calls]

Start(p) ==
    [x \in p.vars |-> IF x \notin DOMAIN p.globals THEN Undef
                      ELSE IF isInterval(p.globals[x]) THEN Num(p.globals[x].interval[1])
                      ELSE Ref(CHOOSE o \in p.globals[x].addrs : TRUE)]

RECURSIVE RunsFrom(_, _, _)
\* C and what follows the configurations new of it.
RunsFrom(p, C, new) ==
    LET next == UNION {{Stepped(p, c, e) : e \in {d \in ToSet(p.out[c.node]) : Taken(p, c, d)}} : c \in new}
    IN  IF next \subseteq C THEN C ELSE RunsFrom(p, C \cup next, next \ C)

Runs(p) ==
    LET begin == {[node |-> p.entry[f], env |-> Executed(Start(p), p.stmt[p.entry[f]]), calls |-> <<>>] :
                     f \in ToSet(collectProgEntryFuns(p))}
    IN  RunsFrom(p, begin, begin)

-----------------------------------------------------------------------------
(* Properties.                                                              *)
\* The orders the interpreter follows are weakly topological, on the part of
\* the graph that getSuccessors shows them.
WTOValid ==
    trace = <<>> => \A f \in DOMAIN funcToWTO :
        WeaklyTopological(funcToWTO[f], prog.entry[f], Successors(prog, reaches, f))

InValue(v, x) ==
    CASE x[1] = "num" -> v.interval[1] <= x[2] /\ x[2] <= v.interval[2]
      [] x[1] = "ref" -> x[2] \in v.addrs
      [] OTHER -> TRUE

Objects == {s.obj : s \in {t \in {prog.stmt[n] : n \in NodesOf(prog)} : t.op = "addr"}}
           \cup UNION {prog.globals[x].addrs : x \in DOMAIN prog.globals}
\* The variables of the statement at n; others may be dead there.
Used(n) == LET s == prog.stmt[n] IN {s[f] : f \in DOMAIN s \cap {"lhs", "rhs", "res", "op0", "op1"}}

CycleHeads == {n \in NodesOf(prog) : \E f \in DOMAIN funcToWTO : n \in Within(n, funcToWTO[f])}

\* Whenever a run comes to the head of a cycle it finds numbers in an object, or
\* always the same.  An object that is first stored to, or gets another address, only
\* after the delay is not in the state of the head: widening and narrowing go through
\* what the older state has, and change intervals alone (AbstractState.cpp:59-98).
SteadyObjects ==
    \A h \in CycleHeads :
        LET found == {c.env : c \in {d \in Runs(prog) : d.node = h}}
        IN  \A o \in Objects, x, y \in found : x[o] = y[o] \/ (x[o][1] = "num" /\ y[o][1] = "num")

\* In the end every node a run of the program comes to has a state, and the
\* state covers what the run has in its objects there and in the variables the
\* node uses: neither widening nor narrowing, calls analysed once for all their
\* callers nor branches held infeasible lose a run, as long as what is in the objects
\* changes in numbers alone (SteadyObjects).  Excepted is the return node
\* of a call that heads a cycle: the last visit of the head leaves it with the
\* state before the call, and its own turn in the body does not come.
HeadReturns == {prog.ret[n] : n \in CallNodes(prog) \cap CycleHeads}
Sound ==
    todo = <<>> /\ SteadyObjects =>
        \A c \in {d \in Runs(prog) : d.node \notin HeadReturns} :
                              /\ c.node \in DOMAIN trace
                              /\ \A x \in Objects \cup Used(c.node) :
                                     InValue(trace[c.node][x], c.env[x])

\* A cycle is left only when the state of its head covers, for every object, what
\* the head would get from its predecessors now: "iteratively updated until a
\* fixpoint is reached" (line 940).  It is no fixpoint for objects that change in more
\* than numbers (SteadyObjects).
Left == todo # <<>> /\ item.kind = "iterate" /\ todo' = Tail(todo)
LoopsClosed ==
    [][Left /\ SteadyObjects =>
               LET new == handleICFGNode(prog, trace', item.node)[item.node]
                   old == trace'[item.node]
               IN  \A o \in Objects : JoinValues(old[o], new[o]) = old[o]]_vars

\* The iteration ends: bounds grow only to infinity and are narrowed once.
AEEnds == <>(todo = <<>>)
=============================================================================
