-------------------------- MODULE ForkJoinAnalysis --------------------------
(***************************************************************************)
(* Which threads end before which others start, and which threads wait for *)
(* those they start: ForkJoinAnalysis of svf/lib/MTA/MHP.cpp.  One thread  *)
(* after the other, a walk starts behind its fork and marks the statements *)
(* it reaches with whether the thread may still be alive there.            *)
(***************************************************************************)
EXTENDS ThreadCreationTree

VARIABLES root,         \* the thread whose fork the walk started from
          flags,        \* what the statements are marked with, by context
          cxtStmtList,  \* the statements to be looked at
          cxtStmts,     \* those ever marked, over all walks
          directJoin,   \* <<statement, thread>>: this join waits for the thread
          HBPair, HPPair, fullJoin, partialJoin   \* pairs of threads

fjaVars == <<root, flags, cxtStmtList, cxtStmts, directJoin,
             HBPair, HPPair, fullJoin, partialJoin>>
fjaResults == <<directJoin, HBPair, HPPair, fullJoin, partialJoin>>

CxtStmt(cxt, n) == [cxt |-> cxt, node |-> n]

\* A set put behind a list that holds each of its entries once.
PushAll(list, S) == list \o SetToSeq(S \ Range(list))

(***************************************************************************)
(* Marks                                                                   *)
(***************************************************************************)
FlagIn(fl, cs) == IF cs \in DOMAIN fl THEN fl[cs] ELSE "Empty"
getMarkedFlag(cs) == FlagIn(flags, cs)

\* Mutant: Dead stays too.
mergeFirst(old, src) == IF old = "Empty" THEN src ELSE old

\* Alive stays, and covers Dead.
mergeFlag(old, src) ==
    IF old = "Empty" \/ (old = "Dead" /\ src = "Alive") THEN src ELSE old

\* The marks once flag was merged into those of T.
markCxtStmtFlag(fl, T, flag) ==
    [cs \in DOMAIN fl \cup T |->
        IF cs \in T THEN mergeFlag(FlagIn(fl, cs), flag) ELSE fl[cs]]

\* The new marks, with what they changed listed and remembered.
Marked(fl, list) ==
    LET changed == {cs \in DOMAIN fl : fl[cs] # getMarkedFlag(cs)}
    IN  /\ flags' = fl
        /\ cxtStmtList' = PushAll(list, changed)
        /\ cxtStmts' = cxtStmts \cup changed

(***************************************************************************)
(* Walks                                                                   *)
(***************************************************************************)
FJAInit ==
    /\ root = 0
    /\ flags = <<>>
    /\ cxtStmtList = <<>>
    /\ cxtStmts = {}
    /\ directJoin = {}
    /\ HBPair = {} /\ HPPair = {}
    /\ fullJoin = {} /\ partialJoin = {}

behindForkOf(t) ==
    IF tct[t].fork = NoFork THEN {}
    ELSE {CxtStmt(c[2], n) : c \in tct[t].forkCxts, n \in Intra(tct[t].fork)}

StartWalk ==
    /\ phase = "forkjoin" /\ cxtStmtList = <<>> /\ root < Len(tct)
    /\ root' = root + 1
    /\ LET starts == behindForkOf(root + 1)
       IN  /\ flags' = [cs \in starts |-> "Alive"]
           /\ cxtStmtList' = SetToSeq(starts)
           /\ cxtStmts' = cxtStmts \cup starts
    /\ UNCHANGED <<tctVars, fjaResults>>

Walking(kind) ==
    /\ phase = "forkjoin" /\ cxtStmtList # <<>>
    /\ prog[Head(cxtStmtList).node].kind = kind

Here == Head(cxtStmtList)
Rest == Tail(cxtStmtList)
following(cs) == {CxtStmt(cs.cxt, n) : n \in Intra(cs.node)}

\* The statement's mark passed on to the statements of T.
Propagate(T) == Marked(markCxtStmtFlag(flags, T, getMarkedFlag(Here)), Rest)

WalkIntra ==
    /\ Walking("stmt")
    /\ Propagate(following(Here))
    /\ UNCHANGED <<tctVars, root, fjaResults>>

\* The thread forked here starts after root ended, or while it may be alive.
WalkFork ==
    /\ Walking("fork")
    /\ LET other == getTCTNode(pushCxt(Here.cxt, Here.node), Here.node)
       IN  IF getMarkedFlag(Here) # "Alive"
             THEN HBPair' = HBPair \cup {<<root, other>>} /\ UNCHANGED HPPair
             ELSE /\ HPPair' = HPPair \cup {<<root, other>>, <<other, root>>}
                  /\ UNCHANGED HBPair
    /\ Propagate(following(Here))
    /\ UNCHANGED <<tctVars, root, directJoin, fullJoin, partialJoin>>

isAliasedForkJoin(fork, join) == prog[fork].handle = prog[join].handle
hasJoinLoop(join) == prog[join].exits # {}

\* A join outside the loops it must be executed in ends the thread it waits
\* for; the mark is overwritten.  No join in such a loop is ever matched
\* (isSameSCEV returns FALSE): the mark goes on to the exits of the loop.
WalkJoin ==
    /\ Walking("join")
    /\ LET j == Here.node
           matched == ~hasJoinLoop(j) /\ isAliasedForkJoin(tct[root].fork, j)
           atJoin  == IF matched THEN [flags EXCEPT ![Here] = "Dead"] ELSE flags
           exits   == {CxtStmt(Here.cxt, n) : n \in prog[j].exits}
       IN  /\ directJoin' = directJoin \cup
                    (IF matched THEN {<<Here, root>>} ELSE {})
           /\ Marked(markCxtStmtFlag(atJoin, following(Here) \cup exits,
                                     atJoin[Here]), Rest)
    /\ UNCHANGED <<tctVars, root, HBPair, HPPair, fullJoin, partialJoin>>

\* Into the callee; past it only when the callee is not walked through.
WalkCall ==
    /\ Walking("call")
    /\ LET callee == prog[Here.node].target
       IN  Propagate(IF isCandidateFun(callee)
                       THEN {CxtStmt(pushCxt(Here.cxt, Here.node), Entry(callee))}
                       ELSE {CxtStmt(Here.cxt, n) : n \in ReturnsTo(Here.node)})
    /\ UNCHANGED <<tctVars, root, fjaResults>>

\* Where the walk goes from an exit: along the edges the call sites have in
\* their own function.
afterReturn(cs) ==
    UNION {{CxtStmt(c.cxt, n) : n \in Intra(c.node)} :
        c \in {d \in cxtStmts :
                 /\ d.node \in CallsTo(prog[cs.node].fun)
                 /\ matchesCxt(cs.cxt, d.node)
                 /\ isContextSuffix(popCxt(cs.cxt, d.node), d.cxt)}}

\* At the exit of the start routine of a parent of root it is known whether
\* that parent has waited for root on the path the walk took.
WalkExit ==
    /\ Walking("exit")
    /\ Propagate(afterReturn(Here))
    /\ LET ending == {<<p, root>> : p \in {q \in Parents(root) :
                                        tct[q].routine = prog[Here.node].fun}}
       IN  IF getMarkedFlag(Here) # "Alive"
             THEN fullJoin' = fullJoin \cup ending /\ UNCHANGED partialJoin
             ELSE partialJoin' = partialJoin \cup ending /\ UNCHANGED fullJoin
    /\ UNCHANGED <<tctVars, root, directJoin, HBPair, HPPair>>

WalksDone ==
    /\ phase = "forkjoin" /\ cxtStmtList = <<>> /\ root = Len(tct)
    /\ phase' = "interleaving"
    /\ root' = 0
    /\ UNCHANGED <<prog, tct, tctEdges, visitedCTPs, ctpList>>
    /\ UNCHANGED <<flags, cxtStmtList, cxtStmts, fjaResults>>

FJANext ==
    \/ BuildStep /\ UNCHANGED fjaVars
    \/ BuildDone /\ UNCHANGED fjaVars
    \/ StartWalk \/ WalkIntra \/ WalkFork \/ WalkJoin \/ WalkCall
    \/ WalkExit \/ WalksDone

(***************************************************************************)
(* Answers                                                                 *)
(***************************************************************************)
isHBPair(t, u) == <<t, u>> \in HBPair /\ <<t, u>> \notin HPPair
isFullJoin(t, u) == <<t, u>> \in fullJoin /\ <<t, u>> \notin partialJoin

\* Mutant: the threads the joined ones have waited for, without themselves.
getIndJoinedTid(cs) ==
    {u \in Tids : \E p \in directJoin :
        p[1] = cs /\ u \in Children(p[2]) /\ isFullJoin(p[2], u)}

\* The threads known to have ended once a join is passed: those it waits for
\* and those they have waited for.
getDirAndIndJoinedTid(cs) ==
    LET direct  == {p[2] : p \in {q \in directJoin : q[1] = cs}}
        step(S) == S \cup {u \in Tids : \E t \in S :
                                u \in Children(t) /\ isFullJoin(t, u)}
        down[i \in 0 .. Cardinality(Tids)] ==
            IF i = 0 THEN direct ELSE step(down[i - 1])
    IN  down[Cardinality(Tids)]
=============================================================================
