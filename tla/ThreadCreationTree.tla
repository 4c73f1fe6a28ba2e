------------------------- MODULE ThreadCreationTree -------------------------
(***************************************************************************)
(* The threads of a program, as svf/lib/MTA/TCT.cpp collects them.         *)
(*                                                                         *)
(* A program is a sequence of statements; a node of its control-flow graph *)
(* is a position in it.  A statement has the function it is in, a kind     *)
(* ("stmt", "fork", "join", "call" or "exit"), the statements that follow  *)
(* it in its function (for a call, where it returns to), the function a    *)
(* fork or a call enters, the variable that holds the handle of the thread *)
(* a fork starts or a join waits for, whether a loop holds it, and, for a  *)
(* join every pass of its loop executes, the exits of that loop.  The      *)
(* statements of a function are consecutive and its first one is its       *)
(* entry.  Function pointers, recursion and several entry functions are    *)
(* left out: a call and a fork have one target and "main" is the only      *)
(* function without a caller.                                              *)
(*                                                                         *)
(* A thread is a fork site and the calling context it is reached in, the   *)
(* last MaxContextLen call sites.                                          *)
(***************************************************************************)
EXTENDS Integers, Sequences, FiniteSets, SequencesExt, FiniteSetsExt

CONSTANTS Programs,       \* the programs analysed, sequences of statements
          MaxContextLen   \* call sites a context keeps

ASSUME MaxContextLenAssumption == MaxContextLen \in Nat \ {0}

VARIABLES prog,         \* the program
          tct,          \* the threads in the order of their ids
          tctEdges,     \* <<t, u>>: thread t starts thread u
          visitedCTPs,  \* <<thread, context, function>> ever listed
          ctpList,      \* those still to be looked at
          phase         \* the analysis that runs

tctVars == <<prog, tct, tctEdges, visitedCTPs, ctpList, phase>>

Main == "main"
NoFork == 0

Nodes == DOMAIN prog
Funs == {prog[n].fun : n \in Nodes}
NodesOf(f) == {n \in Nodes : prog[n].fun = f}
Entry(f) == Min(NodesOf(f))
IsExit(n) == prog[n].kind = "exit"
OfKind(k) == {n \in Nodes : prog[n].kind = k}
Forks == OfKind("fork")
Joins == OfKind("join")
Calls == OfKind("call")

\* The edges of the control-flow graph that stay in the function.  A call of a
\* function with a body has none: its edges lead to the callee and back.
Intra(n) == IF n \in Calls THEN {} ELSE prog[n].next
ReturnsTo(c) == prog[c].next

CallsTo(f) == {c \in Calls : prog[c].target = f}
SitesIn(f) == {n \in Calls \cup Forks : prog[n].fun = f}
SitesTo(f) == {n \in Calls \cup Forks : prog[n].target = f}

(***************************************************************************)
(* Functions, loops and contexts                                           *)
(***************************************************************************)
\* The functions from which one of a set is reached by calls and forks.
Reaching(fs) ==
    LET Callers(S) == S \cup {prog[n].fun : n \in UNION {SitesTo(f) : f \in S}}
        up[i \in 0 .. Cardinality(Funs)] ==
            IF i = 0 THEN fs ELSE Callers(up[i - 1])
    IN  up[Cardinality(Funs)]

\* The functions the analyses walk through: those that reach a fork or a join,
\* and the start routines.
Candidates ==
    Reaching({prog[n].fun : n \in Forks \cup Joins})
        \cup {prog[n].target : n \in Forks}
isCandidateFun(f) == f \in Candidates

\* A fork may run more than once: a loop holds it, or a call or a fork of a
\* function it is reached from.
isInLoopInstruction(n) ==
    \/ prog[n].loop
    \/ \E m \in UNION {SitesTo(f) : f \in Reaching({prog[n].fun})} : prog[m].loop

pushCxt(cxt, site) ==
    IF ~isCandidateFun(prog[site].fun) THEN cxt
    ELSE LET longer == Append(cxt, site)
         IN  IF Len(longer) > MaxContextLen THEN Tail(longer) ELSE longer

matchesCxt(cxt, call) ==
    ~isCandidateFun(prog[call].fun) \/ cxt = <<>> \/ Last(cxt) = call
popCxt(cxt, call) ==
    IF ~isCandidateFun(prog[call].fun) \/ cxt = <<>> THEN cxt ELSE Front(cxt)

isContextSuffix(lhs, cxt) == IsSuffix(lhs, cxt)

(***************************************************************************)
(* Threads                                                                 *)
(***************************************************************************)
Thread(cxt, fork, routine, forkCxts) ==
    [cxt |-> cxt, fork |-> fork, routine |-> routine, forkCxts |-> forkCxts]

Tids == DOMAIN tct
ThreadsOf(cxt, fork) == {t \in Tids : tct[t].cxt = cxt /\ tct[t].fork = fork}
getTCTNode(cxt, fork) == CHOOSE t \in ThreadsOf(cxt, fork) : TRUE

Parents(t) == {e[1] : e \in {x \in tctEdges : x[2] = t}}
Children(t) == {e[2] : e \in {x \in tctEdges : x[1] = t}}
hasParentThread(t) == Cardinality(Parents(t)) = 1

getAncestorThreads(t) ==
    LET step(S) == S \cup UNION {Parents(u) : u \in {x \in S : hasParentThread(x)}}
        up[i \in 0 .. Cardinality(Tids)] ==
            IF i = 0 THEN (IF hasParentThread(t) THEN Parents(t) ELSE {})
            ELSE step(up[i - 1])
    IN  up[Cardinality(Tids)]

getSiblingThread(t) ==
    IF ~hasParentThread(t) THEN {}
    ELSE UNION {Children(p) : p \in Parents(t)} \ {t}

\* A thread stands for several when its fork may run several times or when a
\* thread that starts it stands for several.
isMultiforked(t) ==
    \E u \in {t} \cup getAncestorThreads(t) :
        tct[u].fork # NoFork /\ isInLoopInstruction(tct[u].fork)

(***************************************************************************)
(* Building the tree                                                       *)
(***************************************************************************)
TCTInit ==
    /\ prog \in Programs
    /\ tct = << Thread(<<>>, NoFork, Main, {}) >>
    /\ tctEdges = {}
    /\ visitedCTPs = {<<1, <<>>, Main>>}
    /\ ctpList = << <<1, <<>>, Main>> >>
    /\ phase = "tct"

\* A call or a fork at site in thread t under context cxt, in what the steps
\* before it left: acc holds the threads, the edges, the visited and the list.
\* The edge is added only when the routine was not seen in that thread before.
handleCallRelation(acc, t, cxt, site) ==
    LET newCxt  == pushCxt(cxt, site)
        routine == prog[site].target
        known   == {u \in DOMAIN acc.tct :
                        acc.tct[u].cxt = newCxt /\ acc.tct[u].fork = site}
        forks   == site \in Forks
        threads == IF forks /\ known = {}
                     THEN Append(acc.tct, Thread(newCxt, site, routine, {<<t, cxt>>}))
                     ELSE acc.tct
        tid     == IF ~forks THEN t
                   ELSE IF known = {} THEN Len(threads) ELSE CHOOSE u \in known : TRUE
        ctp     == <<tid, newCxt, routine>>
        new     == ctp \notin acc.visited
    IN  [tct     |-> threads,
         edges   |-> IF forks /\ new THEN acc.edges \cup {<<t, tid>>} ELSE acc.edges,
         visited |-> acc.visited \cup {ctp},
         list    |-> IF new THEN Append(acc.list, ctp) ELSE acc.list]

BuildStep ==
    /\ phase = "tct" /\ ctpList # <<>>
    /\ LET t    == Head(ctpList)[1]
           cxt  == Head(ctpList)[2]
           f    == Head(ctpList)[3]
           todo == IF isCandidateFun(f) THEN SetToSortSeq(SitesIn(f), <) ELSE <<>>
           acc  == [tct |-> tct, edges |-> tctEdges,
                    visited |-> visitedCTPs, list |-> Tail(ctpList)]
           res  == FoldLeft(LAMBDA a, s : handleCallRelation(a, t, cxt, s), acc, todo)
       IN  /\ tct' = res.tct
           /\ tctEdges' = res.edges
           /\ visitedCTPs' = res.visited
           /\ ctpList' = res.list
    /\ UNCHANGED <<prog, phase>>

BuildDone ==
    /\ phase = "tct" /\ ctpList = <<>>
    /\ phase' = "forkjoin"
    /\ UNCHANGED <<prog, tct, tctEdges, visitedCTPs, ctpList>>
=============================================================================
