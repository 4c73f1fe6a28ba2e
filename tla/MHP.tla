-------------------------------- MODULE MHP --------------------------------
(***************************************************************************)
(* Which statements may happen in parallel: MHP of svf/lib/MTA/MHP.cpp.    *)
(* Every statement of a thread, by context, gets the threads that may be   *)
(* alive while it runs; one thread after the other is sent through the     *)
(* statements that may run beside it, and taken out where a join has       *)
(* waited for it.                                                          *)
(*                                                                         *)
(* The program then runs, its threads interleaved, and every two of them   *)
(* that are about to take a step are held against what was computed.       *)
(***************************************************************************)
EXTENDS ForkJoinAnalysis

CONSTANT MaxInstances   \* threads a run of the program may start, main included

ASSUME MaxInstancesAssumption == MaxInstances \in Nat \ {0}

VARIABLES interleav,    \* the threads that may be alive, by statement
          cxtThreadList,\* the statements to be looked at
          threads,      \* the threads of the running program
          holds         \* the thread a handle stands for in it

mhpVars == <<interleav, cxtThreadList>>
runVars == <<threads, holds>>
vars == <<tctVars, fjaVars, mhpVars, runVars>>

CTS(t, cxt, n) == [tid |-> t, cxt |-> cxt, node |-> n]

(***************************************************************************)
(* Sets of threads                                                         *)
(***************************************************************************)
InterleavIn(il, cts) == IF cts \in DOMAIN il THEN il[cts] ELSE {}

\* tids added at every statement of T.
addInterleaving(il, T, tids) ==
    [cts \in DOMAIN il \cup T |->
        InterleavIn(il, cts) \cup (IF cts \in T THEN tids ELSE {})]

\* The new sets, with the statements they changed listed.
Spread(il, list) ==
    /\ interleav' = il
    /\ cxtThreadList' =
         PushAll(list, {cts \in DOMAIN il : il[cts] # InterleavIn(interleav, cts)})

At == Head(cxtThreadList)
Later == Tail(cxtThreadList)
successors(cts) == {CTS(cts.tid, cts.cxt, n) : n \in Intra(cts.node)}
\* Mutant: the statements are listed whether or not their sets grew.
SpreadAgain(T) ==
    /\ interleav' = addInterleaving(interleav, T, interleav[At])
    /\ cxtThreadList' = PushAll(Later, T)

SpreadTo(T) == Spread(addInterleaving(interleav, T, interleav[At]), Later)

(***************************************************************************)
(* Where a thread starts to be spread                                      *)
(***************************************************************************)
routineEntry(t) == CTS(t, tct[t].cxt, Entry(tct[t].routine))

behindForks(t) ==
    {CTS(c[1], c[2], n) : c \in tct[t].forkCxts, n \in Intra(tct[t].fork)}
\* Mutant: only behind the fork of t itself.
updateParentThreads(t) == IF tct[t].fork = NoFork THEN {} ELSE behindForks(t)

updateAncestorThreads(t) ==
    UNION {behindForks(u) : u \in {v \in {t} \cup getAncestorThreads(t) :
                                        tct[v].fork # NoFork}}

\* Every thread between t and its ancestor p is waited for by its parent.
isRecurFullJoin(p, t) ==
    LET climb[i \in 0 .. Cardinality(Tids), u \in Tids] ==
            \/ u = p
            \/ /\ i > 0 /\ Parents(u) # {}
               /\ \A q \in Parents(u) : isFullJoin(q, u)
               /\ \E q \in Parents(u) : climb[i - 1, q]
    IN  climb[Cardinality(Tids), t]

\* The siblings of t and of its ancestors, but for those known to have ended
\* before and those known to start after.
updateSiblingThreads(t) ==
    {routineEntry(s[2]) : s \in
        {r \in {<<u, v>> \in ({t} \cup getAncestorThreads(t)) \X Tids :
                    v \in getSiblingThread(u)} :
            /\ ~(isHBPair(r[1], r[2]) /\ isRecurFullJoin(r[1], t))
            /\ ~isHBPair(r[2], r[1])}}

StartSpread ==
    /\ phase = "interleaving" /\ cxtThreadList = <<>> /\ root < Len(tct)
    /\ root' = root + 1
    /\ LET t == root + 1
       IN  Spread(addInterleaving(interleav,
                    {routineEntry(t)} \cup updateAncestorThreads(t)
                                      \cup updateSiblingThreads(t), {t}), <<>>)
    /\ UNCHANGED <<tctVars, flags, cxtStmtList, cxtStmts, fjaResults, runVars>>

(***************************************************************************)
(* Statements                                                              *)
(***************************************************************************)
Spreading(kind) ==
    /\ phase = "interleaving" /\ cxtThreadList # <<>>
    /\ prog[At.node].kind = kind
    /\ isCandidateFun(prog[At.node].fun)

handleIntra ==
    /\ Spreading("stmt")
    /\ SpreadTo(successors(At))
    /\ UNCHANGED <<tctVars, fjaVars, runVars>>

handleFork ==
    /\ Spreading("fork")
    /\ LET cxt == pushCxt(At.cxt, At.node)
           new == CTS(getTCTNode(cxt, At.node), cxt, Entry(prog[At.node].target))
       IN  SpreadTo({new} \cup successors(At))
    /\ UNCHANGED <<tctVars, fjaVars, runVars>>

\* Whether a join of thread t is one that must have waited: whether t stands
\* for one thread.  The code hands it the thread that executes the join.
isMustJoin(t) == ~isMultiforked(t)

handleJoin ==
    /\ Spreading("join")
    /\ LET joined == getDirAndIndJoinedTid(CxtStmt(At.cxt, At.node))
           gone   == IF ~hasJoinLoop(At.node) /\ isMustJoin(At.tid)
                       THEN joined ELSE {}
           exits  == {CTS(At.tid, At.cxt, n) : n \in prog[At.node].exits}
           here   == interleav[At] \ gone
       IN  Spread(addInterleaving([interleav EXCEPT ![At] = here],
                                  successors(At) \cup exits, here), Later)
    /\ UNCHANGED <<tctVars, fjaVars, runVars>>

handleCall ==
    /\ Spreading("call")
    /\ LET callee == prog[At.node].target
           enter  == CTS(At.tid, pushCxt(At.cxt, At.node), Entry(callee))
           past   == {CTS(At.tid, At.cxt, n) : n \in ReturnsTo(At.node)}
       IN  SpreadTo({enter} \cup (IF isCandidateFun(callee) THEN {} ELSE past))
    /\ UNCHANGED <<tctVars, fjaVars, runVars>>

\* Back to where the callers return to: the function's exit has an edge to the
\* return of every call of it, and every context known at a caller that
\* extends the popped one is taken up.
handleRet ==
    /\ Spreading("exit")
    /\ LET calls == CallsTo(prog[At.node].fun)
           known == {c \in DOMAIN interleav :
                       /\ c.node \in calls
                       /\ matchesCxt(At.cxt, c.node)
                       /\ isContextSuffix(popCxt(At.cxt, c.node), c.cxt)}
           returns(c) == UNION {ReturnsTo(d) :
                            d \in {e \in calls : prog[e].fun = prog[c.node].fun}}
       IN  SpreadTo(UNION {{CTS(At.tid, c.cxt, n) : n \in returns(c)} : c \in known})
    /\ UNCHANGED <<tctVars, fjaVars, runVars>>

\* A function not walked through is only entered: its callees are too.
handleNonCandidateFun ==
    /\ phase = "interleaving" /\ cxtThreadList # <<>>
    /\ LET f == prog[At.node].fun
       IN  /\ ~isCandidateFun(f)
           /\ SpreadTo({CTS(At.tid, At.cxt, Entry(prog[c].target)) :
                            c \in {d \in Calls : prog[d].fun = f}})
    /\ UNCHANGED <<tctVars, fjaVars, runVars>>

\* In the end the other statements of those functions get what their entries
\* got.
updateNonCandidateFunInterleaving ==
    /\ phase = "interleaving" /\ cxtThreadList = <<>> /\ root = Len(tct)
    /\ phase' = "run"
    /\ LET entered == {c \in DOMAIN interleav : ~isCandidateFun(prog[c.node].fun)}
           inside(c) == {CTS(c.tid, c.cxt, n) : n \in NodesOf(prog[c.node].fun)}
           all == UNION {inside(c) : c \in entered}
       IN  interleav' =
             [c \in DOMAIN interleav \cup all |->
                IF c \in all
                  THEN interleav[CTS(c.tid, c.cxt, Entry(prog[c.node].fun))]
                  ELSE interleav[c]]
    /\ UNCHANGED <<prog, tct, tctEdges, visitedCTPs, ctpList>>
    /\ UNCHANGED <<fjaVars, cxtThreadList, runVars>>

\* The answer to a query.
mayHappenInParallelInst(m, n) ==
    \E a, b \in DOMAIN interleav :
        /\ a.node = m /\ b.node = n
        /\ IF a.tid = b.tid THEN isMultiforked(a.tid)
           ELSE b.tid \in interleav[a] /\ a.tid \in interleav[b]

(***************************************************************************)
(* The program running                                                     *)
(***************************************************************************)
\* A thread of the run: the thread it is for the analysis, the calls it is in,
\* with their contexts, and the statement it is about to execute.
Instance(t, n, cxt) == [tid |-> t, at |-> n, cxt |-> cxt, calls |-> <<>>, over |-> FALSE]

Running == {i \in DOMAIN threads : ~threads[i].over}
MainRuns == 1 \in Running

Go(i) ==
    LET th == threads[i]
        n  == th.at
        to(m) == [threads EXCEPT ![i].at = m]
    IN  \/ /\ prog[n].kind = "stmt"
           /\ \E m \in prog[n].next : threads' = to(m)
           /\ UNCHANGED holds
        \/ /\ prog[n].kind = "fork" /\ Len(threads) < MaxInstances
           /\ LET cxt == pushCxt(th.cxt, n)
              IN  \E m \in prog[n].next :
                    threads' = Append(to(m), Instance(getTCTNode(cxt, n),
                                                Entry(prog[n].target), cxt))
           /\ holds' = [holds EXCEPT ![prog[n].handle] = Len(threads) + 1]
        \/ /\ prog[n].kind = "join"
           /\ holds[prog[n].handle] \in DOMAIN threads
           /\ threads[holds[prog[n].handle]].over
           /\ \E m \in prog[n].next : threads' = to(m)
           /\ UNCHANGED holds
        \/ /\ prog[n].kind = "call"
           /\ threads' = [threads EXCEPT ![i] =
                [th EXCEPT !.at = Entry(prog[n].target), !.cxt = pushCxt(th.cxt, n),
                           !.calls = Append(@, [site |-> n, cxt |-> th.cxt])]]
           /\ UNCHANGED holds
        \/ /\ prog[n].kind = "exit" /\ th.calls # <<>>
           /\ \E m \in ReturnsTo(Last(th.calls).site) :
                threads' = [threads EXCEPT ![i] =
                    [th EXCEPT !.at = m, !.cxt = Last(th.calls).cxt,
                               !.calls = Front(@)]]
           /\ UNCHANGED holds
        \/ /\ prog[n].kind = "exit" /\ th.calls = <<>>
           /\ threads' = [threads EXCEPT ![i].over = TRUE]
           /\ UNCHANGED holds

Execute ==
    /\ phase = "run" /\ MainRuns
    /\ \E i \in Running : Go(i)
    /\ UNCHANGED <<tctVars, fjaVars, mhpVars>>

(***************************************************************************)
(* Specification                                                           *)
(***************************************************************************)
Init ==
    /\ TCTInit
    /\ FJAInit
    /\ interleav = <<>>
    /\ cxtThreadList = <<>>
    /\ threads = << Instance(1, Entry(Main), <<>>) >>
    /\ holds = [h \in {prog[n].handle : n \in Forks \cup Joins} |-> 0]

Analyse ==
    \/ FJANext /\ UNCHANGED <<mhpVars, runVars>>
    \/ StartSpread \/ handleIntra \/ handleFork \/ handleJoin \/ handleCall
    \/ handleRet \/ handleNonCandidateFun \/ updateNonCandidateFunInterleaving

Next == Analyse \/ Execute

\* The analyses are loops over their lists, which go on while they can; the
\* program may stop anywhere.
FairSpec == Init /\ [][Next]_vars /\ ([]<><<Analyse>>_vars \/ []<>(phase = "run"))

(***************************************************************************)
(* Properties                                                              *)
(***************************************************************************)
\* Every thread a join may wait for is started once, in one context, and with a
\* handle of its own.
HandlesUnique ==
    \A j \in Joins : \A m, n \in {f \in Forks : isAliasedForkJoin(f, j)} :
        /\ m = n
        /\ ~isInLoopInstruction(m)
        /\ \A t, u \in Tids : tct[t].fork = m /\ tct[u].fork = m => t = u

\* No path through a function goes around a call the walks get lost in.
CallsUnavoidable ==
    \A c \in Calls : isCandidateFun(prog[c].target) =>
        LET f == prog[c].fun
            step(S) == S \cup (UNION {prog[n].next : n \in S} \ {c})
            reach[i \in 0 .. Cardinality(NodesOf(f))] ==
                IF i = 0 THEN {Entry(f)} \ {c} ELSE step(reach[i - 1])
        IN  \A n \in reach[Cardinality(NodesOf(f))] : ~IsExit(n)

\* Thread v may outlive an ancestor that is said to end before u, or before an
\* ancestor of u, starts.
mayOutlive(v, u) ==
    \E t \in getAncestorThreads(v) :
        /\ ~isRecurFullJoin(t, v)
        /\ \E w \in {u} \cup getAncestorThreads(u) : isHBPair(t, w)

CanStep(i) ==
    /\ i \in Running /\ MainRuns
    /\ prog[threads[i].at].kind = "join" =>
         /\ holds[prog[threads[i].at].handle] \in DOMAIN threads
         /\ threads[holds[prog[threads[i].at].handle]].over

\* Two threads said to be ordered are never alive together, and a thread said
\* to wait for one it starts does not end before it.
ForkJoinSound ==
    phase = "run" /\ HandlesUnique /\ CallsUnavoidable =>
        /\ \A i, j \in Running : MainRuns => ~isHBPair(threads[i].tid, threads[j].tid)
        /\ \A i \in DOMAIN threads, j \in Running :
              threads[i].over => ~isFullJoin(threads[i].tid, threads[j].tid)

\* No two statements that threads of the program are about to execute at the
\* same time are missed, where the handles and the calls are as above and
\* neither thread may outlive what is said to end before the other.
ParallelReported ==
    phase = "run" /\ HandlesUnique /\ CallsUnavoidable =>
        \A i, j \in Running : i # j /\ CanStep(i) /\ CanStep(j) =>
            \/ mayHappenInParallelInst(threads[i].at, threads[j].at)
            \/ mayOutlive(threads[i].tid, threads[j].tid)
            \/ mayOutlive(threads[j].tid, threads[i].tid)

\* In a program without branches and calls nothing behind a join is reported to
\* happen in parallel with the thread it waits for, when the function of the
\* join also started it.
JoinedApart ==
    phase = "run" /\ HandlesUnique /\ Calls = {}
        /\ (\A n \in Nodes : Cardinality(prog[n].next) <= 1) =>
      \A j \in Joins, t \in Tids \ {1} :
        isAliasedForkJoin(tct[t].fork, j) /\ prog[tct[t].fork].fun = prog[j].fun =>
        \A m \in NodesOf(prog[j].fun), n \in NodesOf(tct[t].routine) :
            m > j => ~mayHappenInParallelInst(m, n)

MHPEnds == <>(phase = "run")
=============================================================================
