-------------------------- MODULE CFLSolver_proofs --------------------------
(***************************************************************************)
(* What the CFL solvers compute, for any graph and any grammar in normal   *)
(* form.  The invariant behind both closure theorems: whatever two visited *)
(* edges (in the table, and not in the work list) give is in the table.    *)
(* One of the two was visited last, and the other was in the table then.   *)
(***************************************************************************)
EXTENDS CFLSolver, Digraphs_proofs

Phases == {"initialize", "solve", "update", "done"}

\* Edges y and z in a row, and what a production makes of them.
Match(p, y, z)  == p[2] = y[2] /\ p[3] = z[2] /\ y[3] = z[1]
Result(p, y, z) == <<y[1], p[1], z[3]>>

\* Whatever the edges of V give is in E.
Combines(V, E) ==
    /\ \A e \in V : Singles(e) \subseteq E
    /\ \A p \in prob.pair : \A y, z \in V : Match(p, y, z) => Result(p, y, z) \in E

LEMMA FirstsGive ==
    ASSUME NEW E, NEW p \in prob.pair, NEW y, NEW z \in E, Match(p, y, z)
    PROVE  Result(p, y, z) \in UNION Firsts(y, E)
<1>1. ByFirst(p, y, E) \in Firsts(y, E)
  BY DEF Firsts
<1>2. Result(p, y, z) \in ByFirst(p, y, E)
  BY DEF ByFirst, Match, Result
<1> QED
  BY <1>1, <1>2

LEMMA SecondsGive ==
    ASSUME NEW E, NEW p \in prob.pair, NEW y \in E, NEW z, Match(p, y, z)
    PROVE  Result(p, y, z) \in UNION Seconds(z, E)
<1>1. BySecond(p, z, E) \in Seconds(z, E)
  BY DEF Seconds
<1>2. Result(p, y, z) \in BySecond(p, z, E)
  BY DEF BySecond, Match, Result
<1> QED
  BY <1>1, <1>2

LEMMA CombinesCloses ==
    ASSUME NEW E, Combines(E, E)
    PROVE  ClosedSingle(E) /\ ClosedPair(E)
<1>1. ClosedSingle(E)
  BY DEF Combines, ClosedSingle
<1>2. ASSUME NEW e \in E, NEW x \in UNION Firsts(e, E) PROVE x \in E
  <2>1. PICK p \in prob.pair : x \in ByFirst(p, e, E)
    BY <1>2 DEF Firsts
  <2>2. PICK z \in E : Match(p, e, z) /\ x = Result(p, e, z)
    BY <2>1 DEF ByFirst, Match, Result
  <2> QED
    BY <2>2, <1>2 DEF Combines
<1> QED
  BY <1>1, <1>2 DEF ClosedPair

-----------------------------------------------------------------------------
(* CFLSolver                                                               *)

CFLInv ==
    /\ phase \in Phases
    /\ solver = "CFL" =>
         /\ worklist \subseteq edges
         /\ phase # "initialize" => Loops(prob.nodes) \subseteq edges
         /\ phase # "initialize" => Combines(edges \ worklist, edges)
         /\ phase \in {"update", "done"} => worklist = {}

LEMMA ProcessCFLKeeps ==
    ASSUME Combines(edges \ worklist, edges), worklist \subseteq edges,
           NEW e \in worklist, ProcessCFL(e), prob' = prob
    PROVE  /\ worklist' \subseteq edges' /\ edges \subseteq edges'
           /\ Combines(edges \ worklist, edges)'
<1> DEFINE E1 == edges \cup Singles(e)
           E2 == E1 \cup UNION Firsts(e, E1)
           E3 == E2 \cup UNION Seconds(e, E2)
           V  == edges \ worklist
<1>1. edges' = E3 /\ worklist' = (worklist \ {e}) \cup (E3 \ edges)
  BY DEF ProcessCFL
<1>2. edges \subseteq E1 /\ E1 \subseteq E2 /\ E2 \subseteq E3
  OBVIOUS
<1>3. edges' \ worklist' \subseteq V \cup {e}
  BY <1>1
<1>4. \A y \in V \cup {e} : Singles(y) \subseteq E3
  BY <1>2 DEF Combines
<1>5. ASSUME NEW p \in prob.pair, NEW y \in V \cup {e}, NEW z \in V \cup {e}, Match(p, y, z)
      PROVE  Result(p, y, z) \in E3
  <2>1. y \in E1 /\ z \in E1 /\ y \in E2
    OBVIOUS
  <2>2. CASE y = e
    BY <1>5, <2>1, <2>2, FirstsGive
  <2>3. CASE z = e
    BY <1>5, <2>1, <2>3, SecondsGive
  <2>4. CASE y \in V /\ z \in V
    BY <1>2, <1>5, <2>4 DEF Combines
  <2> QED
    BY <2>2, <2>3, <2>4
<1>6. Combines(edges \ worklist, edges)'
  <2>1. \A y \in V \cup {e} : Singles(y)' = Singles(y)
    BY DEF Singles, BySingle
  <2>2. \A y \in edges' \ worklist' : Singles(y)' \subseteq edges'
    <3> HIDE DEF E3, V
    <3> QED
      BY <1>1, <1>3, <1>4, <2>1
  <2>3. \A p \in prob.pair : \A y, z \in edges' \ worklist' :
          Match(p, y, z) => Result(p, y, z) \in edges'
    <3> HIDE DEF E3, V
    <3> QED
      BY <1>1, <1>3, <1>5
  <2> QED
    BY <2>2, <2>3 DEF Combines
<1> QED
  BY <1>1, <1>2, <1>6

LEMMA CFLStep == CFLInv /\ [Next]_vars => CFLInv'
<1> SUFFICES ASSUME CFLInv, [Next]_vars PROVE CFLInv'
  OBVIOUS
<1>1. CASE Initialize
  <2>1. ASSUME solver' = "CFL"
        PROVE  worklist' = edges' /\ Loops(prob.nodes)' \subseteq edges'
    BY <1>1, <2>1 DEF Initialize, Loops
  <2>2. solver' = "CFL" => Combines(edges \ worklist, edges)'
    BY <2>1 DEF Combines
  <2>3. phase' = "solve"
    BY <1>1 DEF Initialize
  <2> QED
    BY <2>1, <2>2, <2>3 DEF CFLInv, Phases
<1>2. CASE Process
  <2>1. SUFFICES ASSUME solver = "CFL" PROVE CFLInv'
    BY <1>2 DEF CFLInv, Process, Phases
  <2>2. PICK e \in worklist : ProcessCFL(e)
    BY <1>2, <2>1 DEF Process
  <2>3. prob' = prob /\ phase' = "solve" /\ phase = "solve" /\ solver' = solver
    BY <1>2 DEF Process
  <2>4. /\ worklist' \subseteq edges' /\ edges \subseteq edges'
        /\ Combines(edges \ worklist, edges)'
    BY <2>1, <2>2, <2>3, ProcessCFLKeeps DEF CFLInv
  <2>5. Loops(prob.nodes)' \subseteq edges'
    BY <2>1, <2>3, <2>4 DEF CFLInv, Loops
  <2> QED
    BY <2>3, <2>4, <2>5 DEF CFLInv, Phases
<1>3. CASE Solved
  BY <1>3 DEF CFLInv, Solved, Phases, Combines, Singles, BySingle, Loops
<1>4. CASE UpdateCallGraph
  <2>1. phase' = "initialize" \/ (phase' = "done" /\ edges' = edges /\ worklist' = {})
    BY <1>4 DEF UpdateCallGraph
  <2>2. worklist' \subseteq edges'
    BY <1>4 DEF UpdateCallGraph
  <2>3. phase = "update" /\ prob' = prob /\ solver' = solver
    BY <1>4 DEF UpdateCallGraph
  <2> QED
    BY <2>1, <2>2, <2>3 DEF CFLInv, Phases, Combines, Singles, BySingle, Loops
<1>5. CASE UNCHANGED vars
  BY <1>5 DEF vars, CFLInv, Combines, Singles, BySingle, Loops
<1> QED
  BY <1>1, <1>2, <1>3, <1>4, <1>5 DEF Next

\* CFLSolver leaves no edge underived, for any graph and grammar.
THEOREM CFLClosesAlways == Spec => []CFLCloses
<1>1. Init => CFLInv
  BY DEF Init, CFLInv, Phases
<1>2. CFLInv => CFLCloses
  <2> SUFFICES ASSUME CFLInv, solver = "CFL", phase \in {"update", "done"}
               PROVE  Closed(edges)
    BY DEF CFLCloses
  <2>1. Combines(edges, edges) /\ Loops(prob.nodes) \subseteq edges
    BY DEF CFLInv
  <2> QED
    BY <2>1, CombinesCloses DEF Closed
<1> QED
  BY <1>1, <1>2, CFLStep, PTL DEF Spec

-----------------------------------------------------------------------------
(* POCRSolver and POCRHybridSolver                                         *)

\* The productions the tables are closed under.
CombinesTables(V, E) ==
    \A p \in prob.pair : Combined(p) =>
        \A y, z \in V : Match(p, y, z) => Result(p, y, z) \in E

POCRInv ==
    /\ phase \in Phases
    /\ solver # "CFL" =>
         /\ succMap = predMap /\ succMap \subseteq edges /\ worklist \subseteq edges
         /\ phase # "initialize" =>
              /\ \A e \in edges \ worklist : Singles(e) \subseteq edges
              /\ CombinesTables(succMap \ worklist, succMap)
         /\ phase \in {"update", "done"} => worklist = {}

LEMMA ChangedAdds ==
    ASSUME NEW B, NEW E
    PROVE  /\ \A b \in B : b \subseteq E \cup Changed(B, E)
           /\ Changed(B, E) \subseteq UNION B
BY DEF Changed

LEMMA ProcessPOCRKeeps ==
    ASSUME POCRInv, solver # "CFL", phase = "solve",
           NEW e \in worklist, ProcessPOCR(e), prob' = prob, solver' = solver
    PROVE  /\ succMap' = predMap' /\ succMap \subseteq succMap'
           /\ edges' = edges \cup succMap'
           /\ worklist' = (worklist \ {e}) \cup (succMap' \ succMap)
           /\ Singles(e) \subseteq succMap'
           /\ CombinesTables(succMap \ worklist, succMap)'
<1> DEFINE single == Singles(e)
           succ1  == succMap \cup single
           pred1  == predMap \cup single
           Bs1    == {ByFirst(p, e, succ1) : p \in {p \in prob.pair : Combined(p)}}
           first  == Changed(Bs1, succ1)
           succ2  == succ1 \cup first
           pred2  == pred1 \cup first
           Bs2    == {BySecond(p, e, pred2) : p \in {p \in prob.pair : Combined(p)}}
           second == Changed(Bs2, pred2)
           new    == (single \ predMap) \cup (first \ pred1) \cup (second \ succ2)
<1>1. /\ succMap' = succ2 \cup second /\ predMap' = pred2 \cup second
      /\ edges' = edges \cup new /\ worklist' = (worklist \ {e}) \cup new
  BY DEF ProcessPOCR
<1>2. succMap = predMap /\ succMap \subseteq edges
  BY DEF POCRInv
<1>3. succ1 = pred1 /\ succ2 = pred2
  BY <1>2
<1>4. ASSUME NEW p \in prob.pair, Combined(p)
      PROVE  ByFirst(p, e, succ1) \subseteq succMap'
  <2>1. ByFirst(p, e, succ1) \in Bs1
    BY <1>4
  <2> HIDE DEF Bs1, succ1
  <2>2. ByFirst(p, e, succ1) \subseteq succ1 \cup first
    BY <2>1, ChangedAdds
  <2> QED
    BY <1>1, <2>2
<1>5. ASSUME NEW p \in prob.pair, Combined(p)
      PROVE  BySecond(p, e, pred2) \subseteq succMap'
  <2>1. BySecond(p, e, pred2) \in Bs2
    BY <1>5
  <2> HIDE DEF Bs2, pred2
  <2>2. BySecond(p, e, pred2) \subseteq pred2 \cup second
    BY <2>1, ChangedAdds
  <2>3. pred2 \cup second \subseteq succMap'
    BY <1>1, <1>3
  <2> QED
    BY <2>2, <2>3
<1> HIDE DEF first, second, Bs1, Bs2, single
<1>6. new = succMap' \ succMap
  BY <1>1, <1>2
<1>7. succMap' = predMap' /\ succMap \subseteq succMap' /\ edges' = edges \cup succMap'
  BY <1>1, <1>2, <1>3, <1>6
<1>8. Singles(e) \subseteq succMap'
  BY <1>1 DEF single
<1>9. succMap' \ worklist' \subseteq (succMap \ worklist) \cup {e}
  BY <1>1, <1>6
<1>10. e \in succMap' \ worklist' => e \in succMap
  BY <1>1, <1>6
<1>11. ASSUME NEW p \in prob.pair, Combined(p),
              NEW y \in succMap' \ worklist', NEW z \in succMap' \ worklist', Match(p, y, z)
       PROVE  Result(p, y, z) \in succMap'
  <2>1. y \in succMap /\ z \in succMap
    BY <1>9, <1>10
  <2>2. CASE y = e
    <3>1. z \in succ1 /\ z[1] = e[3] /\ z[2] = p[3] /\ p[2] = e[2]
      BY <2>1, <2>2, <1>11 DEF Match
    <3>2. <<e[1], p[1], z[3]>> \in ByFirst(p, e, succ1)
      BY <3>1 DEF ByFirst
    <3> QED
      BY <1>4, <1>11, <2>2, <3>2 DEF Result
  <2>3. CASE z = e
    <3>1. y \in pred2 /\ y[3] = e[1] /\ y[2] = p[2] /\ p[3] = e[2]
      BY <1>2, <2>1, <2>3, <1>11 DEF Match
    <3>2. <<y[1], p[1], e[3]>> \in BySecond(p, e, pred2)
      BY <3>1 DEF BySecond
    <3> QED
      BY <1>5, <1>11, <2>3, <3>2 DEF Result
  <2>4. CASE y # e /\ z # e
    <3>1. y \in succMap \ worklist /\ z \in succMap \ worklist
      BY <1>9, <2>4
    <3> QED
      BY <3>1, <1>7, <1>11 DEF POCRInv, CombinesTables
  <2> QED
    BY <2>2, <2>3, <2>4
<1>12. CombinesTables(succMap \ worklist, succMap)'
  <2>1. \A p : Combined(p)' = Combined(p)
    BY DEF Combined
  <2> QED
    BY <1>11, <2>1 DEF CombinesTables
<1> QED
  BY <1>1, <1>6, <1>7, <1>8, <1>12

LEMMA POCRStep == POCRInv /\ [Next]_vars => POCRInv'
<1> SUFFICES ASSUME POCRInv, [Next]_vars PROVE POCRInv'
  OBVIOUS
<1>1. CASE Initialize
  <2>1. ASSUME solver' # "CFL"
        PROVE  worklist' = edges' /\ succMap' = predMap' /\ succMap' \subseteq edges'
    <3>1. succMap = predMap /\ succMap \subseteq edges
      BY <1>1, <2>1 DEF POCRInv, Initialize
    <3> QED
      BY <1>1, <2>1, <3>1 DEF Initialize
  <2>2. solver' # "CFL" => CombinesTables(succMap \ worklist, succMap)'
    BY <2>1 DEF CombinesTables
  <2>3. phase' = "solve"
    BY <1>1 DEF Initialize
  <2> QED
    BY <2>1, <2>2, <2>3 DEF POCRInv, Phases
<1>2. CASE Process
  <2>1. SUFFICES ASSUME solver # "CFL" PROVE POCRInv'
    BY <1>2 DEF POCRInv, Process, Phases
  <2>2. PICK e \in worklist : ProcessPOCR(e)
    BY <1>2, <2>1 DEF Process
  <2>3. prob' = prob /\ phase' = "solve" /\ phase = "solve" /\ solver' = solver
    BY <1>2 DEF Process
  <2>4. /\ succMap' = predMap' /\ succMap \subseteq succMap'
        /\ edges' = edges \cup succMap'
        /\ worklist' = (worklist \ {e}) \cup (succMap' \ succMap)
        /\ Singles(e) \subseteq succMap'
        /\ CombinesTables(succMap \ worklist, succMap)'
    BY <2>1, <2>2, <2>3, ProcessPOCRKeeps
  <2>5. \A y : Singles(y)' = Singles(y)
    BY <2>3 DEF Singles, BySingle
  <2>6. edges' \ worklist' \subseteq (edges \ worklist) \cup {e}
    <3>1. succMap \subseteq edges
      BY <2>1 DEF POCRInv
    <3> QED
      BY <2>4, <3>1
  <2>7. \A y \in edges' \ worklist' : Singles(y)' \subseteq edges'
    BY <2>1, <2>3, <2>4, <2>5, <2>6 DEF POCRInv
  <2>8. worklist' \subseteq edges'
    BY <2>1, <2>4 DEF POCRInv
  <2> QED
    BY <2>3, <2>4, <2>7, <2>8 DEF POCRInv, Phases
<1>3. CASE Solved
  BY <1>3 DEF POCRInv, Solved, Phases, CombinesTables, Combined, Singles, BySingle
<1>4. CASE UpdateCallGraph
  <2>1. phase' = "initialize" \/ (phase' = "done" /\ edges' = edges /\ worklist' = {})
    BY <1>4 DEF UpdateCallGraph
  <2>2. worklist' \subseteq edges' /\ edges \subseteq edges'
    BY <1>4 DEF UpdateCallGraph
  <2>3. /\ phase = "update" /\ prob' = prob /\ solver' = solver
        /\ succMap' = succMap /\ predMap' = predMap
    BY <1>4 DEF UpdateCallGraph
  <2> QED
    BY <2>1, <2>2, <2>3 DEF POCRInv, Phases, CombinesTables, Combined, Singles, BySingle
<1>5. CASE UNCHANGED vars
  BY <1>5 DEF vars, POCRInv, CombinesTables, Combined, Singles, BySingle
<1> QED
  BY <1>1, <1>2, <1>3, <1>4, <1>5 DEF Next

\* The tables of POCR mirror each other, and are closed but for what POCRCloses
\* names, for any graph and grammar.
THEOREM POCRClosesAlways == Spec => []POCRCloses
<1>1. Init => POCRInv
  BY DEF Init, POCRInv, Phases
<1>2. POCRInv => POCRCloses
  <2> SUFFICES ASSUME POCRInv, solver # "CFL" PROVE POCRCloses
    BY DEF POCRCloses
  <2>1. SUFFICES ASSUME phase \in {"update", "done"}
                 PROVE  /\ ClosedSingle(edges)
                        /\ \A p \in prob.pair : Combined(p) =>
                             \A e \in succMap : ByFirst(p, e, succMap) \subseteq succMap
    BY DEF POCRCloses, POCRInv
  <2>2. worklist = {} /\ edges \ worklist = edges /\ succMap \ worklist = succMap
    BY <2>1 DEF POCRInv
  <2>3. ClosedSingle(edges)
    <3>1. phase # "initialize"
      BY <2>1
    <3>2. \A e \in edges \ worklist : Singles(e) \subseteq edges
      BY <3>1 DEF POCRInv
    <3> QED
      BY <2>2, <3>2 DEF ClosedSingle
  <2>4. ASSUME NEW p \in prob.pair, Combined(p), NEW e \in succMap,
               NEW x \in ByFirst(p, e, succMap)
        PROVE  x \in succMap
    <3>1. PICK z \in succMap : Match(p, e, z) /\ x = Result(p, e, z)
      BY <2>4 DEF ByFirst, Match, Result
    <3> QED
      BY <2>1, <2>2, <2>4, <3>1 DEF POCRInv, CombinesTables
  <2> QED
    BY <2>3, <2>4
<1> QED
  BY <1>1, <1>2, POCRStep, PTL DEF Spec

\* None of the three solvers stops before what it combines is closed, whatever the
\* graph, the grammar and the calls it resolves on the way.
THEOREM SolverClosesAlways == Spec => []SolverCloses
  BY CFLClosesAlways, POCRClosesAlways, PTL DEF SolverCloses

-----------------------------------------------------------------------------
(* No solver derives too much: every closed set of edges between nodes of  *)
(* the graph that has the graph and the copies of the calls resolved has   *)
(* all edges of the solver, and Derivable is such a set.                   *)

ClosedOver(S) ==
    /\ prob.graph \subseteq S /\ AllCopies(connected) \subseteq S /\ Closed(S)
    /\ \A e \in S : e[1] \in prob.nodes /\ e[3] \in prob.nodes

Sound(S) == ClosedOver(S) => edges \subseteq S

SoundInv(S) ==
    /\ worklist \subseteq edges
    /\ ClosedOver(S) => /\ edges \subseteq S /\ succMap \subseteq S /\ predMap \subseteq S
                        /\ succKeys \subseteq prob.nodes

LEMMA ConsequencesStay ==
    ASSUME NEW S, ClosedSingle(S), ClosedPair(S), NEW e \in S, NEW E, E \subseteq S
    PROVE  /\ Singles(e) \subseteq S
           /\ \A p \in prob.pair : ByFirst(p, e, E) \subseteq S /\ BySecond(p, e, E) \subseteq S
<1>1. Singles(e) \subseteq S
  BY DEF ClosedSingle
<1>2. ASSUME NEW p \in prob.pair, NEW z \in E, Match(p, e, z) PROVE Result(p, e, z) \in S
  BY <1>2, FirstsGive DEF ClosedPair
<1>3. ASSUME NEW p \in prob.pair, NEW y \in E, Match(p, y, e) PROVE Result(p, y, e) \in S
  BY <1>3, FirstsGive DEF ClosedPair
<1> QED
  BY <1>1, <1>2, <1>3 DEF ByFirst, BySecond, Match, Result

\* What one visited edge adds stays in any set X that holds the edges and what
\* its own edges give.
Absorbs(X) ==
    \A e \in X : \A E : E \subseteq X =>
        /\ Singles(e) \subseteq X
        /\ \A p \in prob.pair : ByFirst(p, e, E) \subseteq X /\ BySecond(p, e, E) \subseteq X

LEMMA ProcessCFLStays ==
    ASSUME NEW X, Absorbs(X), edges \subseteq X, NEW e \in edges, ProcessCFL(e)
    PROVE  edges' \subseteq X
<1> DEFINE E1 == edges \cup Singles(e)
           E2 == E1 \cup UNION Firsts(e, E1)
<1>1. edges' = E2 \cup UNION Seconds(e, E2)
  BY DEF ProcessCFL
<1>2. E1 \subseteq X
  BY DEF Absorbs
<1>3. UNION Firsts(e, E1) \subseteq X
  <2> HIDE DEF E1
  <2> QED
    BY <1>2 DEF Absorbs, Firsts
<1>4. E2 \subseteq X
  BY <1>2, <1>3
<1>5. UNION Seconds(e, E2) \subseteq X
  <2> HIDE DEF E2
  <2> QED
    BY <1>4 DEF Absorbs, Seconds
<1> QED
  BY <1>1, <1>4, <1>5

LEMMA ProcessPOCRStays ==
    ASSUME NEW X, Absorbs(X), edges \subseteq X, succMap \subseteq X, predMap \subseteq X,
           NEW e \in edges, ProcessPOCR(e)
    PROVE  /\ edges' \subseteq X /\ succMap' \subseteq X /\ predMap' \subseteq X
           /\ succKeys' \subseteq succKeys \cup Sources(X) \cup {e[3]}
<1> DEFINE single == Singles(e)
           succ1  == succMap \cup single
           pred1  == predMap \cup single
           Bs1    == {ByFirst(p, e, succ1) : p \in {p \in prob.pair : Combined(p)}}
           first  == Changed(Bs1, succ1)
           succ2  == succ1 \cup first
           pred2  == pred1 \cup first
           Bs2    == {BySecond(p, e, pred2) : p \in {p \in prob.pair : Combined(p)}}
           second == Changed(Bs2, pred2)
           new    == (single \ predMap) \cup (first \ pred1) \cup (second \ succ2)
<1>1. /\ succMap' = succ2 \cup second /\ predMap' = pred2 \cup second
      /\ edges' = edges \cup new
      /\ succKeys' \subseteq succKeys \cup Sources(single \cup first \cup second) \cup {e[3]}
  BY DEF ProcessPOCR
<1>2. single \subseteq X
  BY DEF Absorbs
<1>3. first \subseteq X
  <2>1. succ1 \subseteq X
    BY <1>2
  <2> HIDE DEF succ1
  <2>2. \A b \in Bs1 : b \subseteq X
    BY <2>1 DEF Absorbs
  <2> HIDE DEF Bs1
  <2> QED
    BY <2>2, ChangedAdds
<1>4. second \subseteq X
  <2> HIDE DEF single, first
  <2>1. pred2 \subseteq X
    BY <1>2, <1>3
  <2> HIDE DEF pred2
  <2>2. \A b \in Bs2 : b \subseteq X
    BY <2>1 DEF Absorbs
  <2> HIDE DEF Bs2
  <2> QED
    BY <2>2, ChangedAdds
<1> HIDE DEF single, first, second
<1>5. Sources(single \cup first \cup second) \subseteq Sources(X)
  BY <1>2, <1>3, <1>4 DEF Sources
<1> QED
  BY <1>1, <1>2, <1>3, <1>4, <1>5

LEMMA ClosedAbsorbs ==
    ASSUME NEW S, ClosedOver(S)
    PROVE  Absorbs(S)
BY ConsequencesStay DEF ClosedOver, Closed, Absorbs

LEMMA CopyEdgesFew ==
    ASSUME NEW T, NEW U, T \subseteq U
    PROVE  CopyEdges(UNION {t.copies : t \in T}) \subseteq AllCopies(U)
<1>1. UNION {t.copies : t \in T} \subseteq UNION {t.copies : t \in U}
  OBVIOUS
<1>2. ASSUME NEW C, NEW D, C \subseteq D
      PROVE  CopyEdges(C) \subseteq {<<c[1], Copy, c[2]>> : c \in D}
                                      \cup {<<c[2], CopyBar, c[1]>> : c \in D}
  BY <1>2 DEF CopyEdges
<1> QED
  BY <1>1, <1>2 DEF AllCopies

LEMMA SoundStep ==
    ASSUME NEW S, SoundInv(S), [Next]_vars
    PROVE  SoundInv(S)'
<1>1. prob' = prob /\ connected \subseteq connected'
  BY DEF Next, vars, Initialize, Process, Solved, UpdateCallGraph
<1>2. ClosedOver(S)' => ClosedOver(S)
  <2>1. Closed(S)' = Closed(S)
    BY <1>1 DEF Closed, ClosedSingle, ClosedPair, Loops, Singles, BySingle, Firsts, ByFirst
  <2>2. AllCopies(connected) \subseteq AllCopies(connected')
    BY <1>1 DEF AllCopies
  <2> QED
    BY <1>1, <2>1, <2>2 DEF ClosedOver, AllCopies
<1>3. CASE Initialize
  <2>1. worklist' \subseteq edges'
    BY <1>3 DEF Initialize
  <2>2. ASSUME ClosedOver(S)
        PROVE  /\ edges' \subseteq S /\ succMap' \subseteq S /\ predMap' \subseteq S
               /\ succKeys' = succKeys
    <3>1. Loops(prob.nodes) \subseteq S
      BY <2>2 DEF ClosedOver, Closed
    <3>2. Loops(succKeys) \subseteq S
      BY <2>2, <3>1 DEF SoundInv, Loops
    <3> QED
      BY <1>3, <2>2, <3>1, <3>2 DEF Initialize, SoundInv, tables
  <2> QED
    BY <1>1, <1>2, <2>1, <2>2 DEF SoundInv
<1>4. CASE Process
  <2>1. PICK e \in worklist : IF solver = "CFL" THEN ProcessCFL(e) ELSE ProcessPOCR(e)
    BY <1>4 DEF Process
  <2>2. e \in edges
    BY <2>1 DEF SoundInv
  <2>3. worklist' \subseteq edges'
    BY <2>1 DEF SoundInv, ProcessCFL, ProcessPOCR
  <2>4. ASSUME ClosedOver(S)
        PROVE  /\ edges' \subseteq S /\ succMap' \subseteq S /\ predMap' \subseteq S
               /\ succKeys' \subseteq prob.nodes
    <3>1. /\ Absorbs(S) /\ edges \subseteq S /\ succMap \subseteq S /\ predMap \subseteq S
          /\ succKeys \subseteq prob.nodes
      BY <2>4, ClosedAbsorbs DEF SoundInv
    <3>2. CASE solver = "CFL"
      BY <2>1, <2>2, <3>1, <3>2, ProcessCFLStays DEF ProcessCFL, tables
    <3>3. CASE solver # "CFL"
      <4>1. /\ edges' \subseteq S /\ succMap' \subseteq S /\ predMap' \subseteq S
            /\ succKeys' \subseteq succKeys \cup Sources(S) \cup {e[3]}
        BY <2>1, <2>2, <3>1, <3>3, ProcessPOCRStays
      <4>2. Sources(S) \subseteq prob.nodes /\ e[3] \in prob.nodes
        BY <2>2, <2>4, <3>1 DEF ClosedOver, Sources
      <4> QED
        BY <3>1, <4>1, <4>2
    <3> QED
      BY <3>2, <3>3
  <2> QED
    BY <1>1, <1>2, <2>3, <2>4 DEF SoundInv
<1>5. CASE Solved
  BY <1>1, <1>2, <1>5 DEF Solved, SoundInv
<1>6. CASE UpdateCallGraph
  <2> DEFINE new  == {t \in prob.targets \ connected : t.when \in edges}
             copy == CopyEdges(UNION {t.copies : t \in new})
  <2>1. /\ edges' = edges \cup copy /\ worklist' = copy
        /\ succMap' = succMap /\ predMap' = predMap /\ succKeys' = succKeys
    BY <1>6 DEF UpdateCallGraph
  <2>2. copy \subseteq AllCopies(connected')
    <3>1. new \subseteq connected'
      BY <1>6 DEF UpdateCallGraph
    <3> HIDE DEF new
    <3> QED
      BY <3>1, CopyEdgesFew
  <2> QED
    BY <1>1, <1>2, <2>1, <2>2 DEF SoundInv, ClosedOver
<1>7. CASE UNCHANGED vars
  BY <1>1, <1>2, <1>7 DEF vars, SoundInv
<1> QED
  BY <1>3, <1>4, <1>5, <1>6, <1>7 DEF Next

SoundInvs == \A S : SoundInv(S)

LEMMA SoundSteps == SoundInvs /\ [Next]_vars => SoundInvs'
BY SoundStep DEF SoundInvs

LEMMA SoundInit == Init => SoundInvs
BY DEF Init, SoundInvs, SoundInv, ClosedOver, Sources

\* Every edge any of the solvers ever adds is in every closed set.
THEOREM SoundAlways ==
    ASSUME NEW CONSTANT S
    PROVE  Spec => []Sound(S)
<1>1. SoundInvs => Sound(S)
  BY DEF SoundInvs, SoundInv, Sound
<1> QED
  BY <1>1, SoundInit, SoundSteps, PTL DEF Spec

Universe == prob.nodes \X Symbols \X prob.nodes

LEMMA UniverseFinite ==
    ASSUME prob \in Problems
    PROVE  IsFiniteSet(Universe)
<1>1. IsFiniteSet(Symbols)
  <2> DEFINE A == {e[2] : e \in prob.graph}
             B == {p[1] : p \in prob.single \cup prob.pair}
             C == {Copy, CopyBar}
  <2>1. IsFiniteSet(A)
    <3> DEFINE f == [e \in prob.graph |-> e[2]]
    <3>1. f \in [prob.graph -> A] /\ \A t \in A : \E x \in prob.graph : f[x] = t
      OBVIOUS
    <3>2. IsFiniteSet(prob.graph)
      BY ProblemsAssumption
    <3> HIDE DEF f, A
    <3> QED
      BY <3>1, <3>2, OntoFinite
  <2>2. IsFiniteSet(B)
    <3> DEFINE P == prob.single \cup prob.pair
               f == [p \in P |-> p[1]]
    <3>1. f \in [P -> B] /\ \A t \in B : \E x \in P : f[x] = t
      OBVIOUS
    <3>2. IsFiniteSet(P)
      BY ProblemsAssumption, FS_Union
    <3> HIDE DEF f, B, P
    <3> QED
      BY <3>1, <3>2, OntoFinite
  <2>3. IsFiniteSet(C)
    <3>1. IsFiniteSet(({} \cup {Copy}) \cup {CopyBar})
      BY FS_AddElement, FS_EmptySet
    <3>2. ({} \cup {Copy}) \cup {CopyBar} = C
      OBVIOUS
    <3> QED
      BY <3>1, <3>2
  <2>4. IsFiniteSet(prob.epsilon)
    BY ProblemsAssumption
  <2>5. Symbols = (A \cup prob.epsilon) \cup (C \cup B)
    BY DEF Symbols
  <2> HIDE DEF A, B, C
  <2> QED
    BY <2>1, <2>2, <2>3, <2>4, <2>5, FS_Union
<1> QED
  BY <1>1, ProblemsAssumption, TriplesFinite DEF Universe

LEMMA ProblemStays ==
    ASSUME prob \in Problems, connected \subseteq prob.targets, [Next]_vars
    PROVE  prob' \in Problems /\ (connected \subseteq prob.targets)'
BY DEF Next, vars, Initialize, Process, Solved, UpdateCallGraph

\* The consequences of edges between nodes are such edges.
LEMMA ConsequencesJoinNodes ==
    ASSUME NEW S \in SUBSET Universe
    PROVE  Consequences(S) \in SUBSET Universe
<1>1. ASSUME NEW e \in S, NEW x \in Singles(e) PROVE x \in Universe
  <2>1. PICK p \in prob.single : x = <<e[1], p[1], e[3]>>
    BY <1>1 DEF Singles, BySingle
  <2>2. p[1] \in Symbols
    BY DEF Symbols
  <2> QED
    BY <2>1, <2>2 DEF Universe
<1>2. ASSUME NEW e \in S, NEW x \in UNION Firsts(e, S) PROVE x \in Universe
  <2>1. PICK p \in prob.pair : x \in ByFirst(p, e, S)
    BY <1>2 DEF Firsts
  <2>2. PICK z \in S : x = <<e[1], p[1], z[3]>>
    BY <2>1 DEF ByFirst
  <2>3. p[1] \in Symbols
    BY DEF Symbols
  <2> QED
    BY <2>2, <2>3 DEF Universe
<1> QED
  BY <1>1, <1>2 DEF Consequences

LEMMA ConsequencesGrow ==
    ASSUME NEW S, NEW T, S \subseteq T
    PROVE  S \subseteq Consequences(S) /\ Consequences(S) \subseteq Consequences(T)
<1>1. ASSUME NEW e PROVE UNION Firsts(e, S) \subseteq UNION Firsts(e, T)
  BY DEF Firsts, ByFirst
<1> QED
  BY <1>1 DEF Consequences

LEMMA StableCloses ==
    ASSUME NEW S, Consequences(S) = S
    PROVE  ClosedSingle(S) /\ ClosedPair(S)
BY DEF Consequences, ClosedSingle, ClosedPair

Base == prob.graph \cup Loops(prob.nodes) \cup AllCopies(connected)

LEMMA BaseJoinsNodes ==
    ASSUME prob \in Problems, connected \subseteq prob.targets
    PROVE  Base \in SUBSET Universe
<1>1. prob.graph \subseteq Universe
  BY ProblemsAssumption DEF Universe, Symbols
<1>2. Loops(prob.nodes) \subseteq Universe
  BY DEF Loops, Universe, Symbols
<1>3. AllCopies(connected) \subseteq Universe
  <2>1. \A t \in connected : t.copies \subseteq prob.nodes \X prob.nodes
    BY ProblemsAssumption
  <2>2. UNION {t.copies : t \in connected} \subseteq prob.nodes \X prob.nodes
    BY <2>1
  <2> QED
    BY <2>2 DEF AllCopies, Universe, Symbols
<1> QED
  BY <1>1, <1>2, <1>3 DEF Base

\* What can be derived from the graph, the loops and the copies is closed.
LEMMA DerivableCloses ==
    ASSUME prob \in Problems, connected \subseteq prob.targets
    PROVE  ClosedOver(Derivable(Base))
<1> DEFINE U    == Universe
           step == [S \in SUBSET U |-> Consequences(S)]
<1>1. IsFiniteSet(U) /\ Base \in SUBSET U
  BY UniverseFinite, BaseJoinsNodes
<1>2. step \in [SUBSET U -> SUBSET U]
  BY ConsequencesJoinNodes
<1>3. Extends(step, U) /\ Monotone(step, U)
  BY ConsequencesGrow DEF Extends, Monotone
<1>4. Derivable(Base) = Limit(step, Base)
  BY DEF Derivable, Universe
<1>5. \A S \in SUBSET U : step[S] = Consequences(S)
  OBVIOUS
<1> HIDE DEF step, U
<1>6. /\ Limit(step, Base) \in SUBSET U
      /\ Base \subseteq Limit(step, Base)
      /\ step[Limit(step, Base)] = Limit(step, Base)
  BY <1>1, <1>2, <1>3, LimitLeast
<1>7. Consequences(Derivable(Base)) = Derivable(Base)
  BY <1>4, <1>5, <1>6
<1>8. ClosedSingle(Derivable(Base)) /\ ClosedPair(Derivable(Base))
  BY <1>7, StableCloses
<1>9. \A e \in Derivable(Base) : e[1] \in prob.nodes /\ e[3] \in prob.nodes
  BY <1>4, <1>6 DEF U, Universe
<1> QED
  BY <1>4, <1>6, <1>8, <1>9 DEF ClosedOver, Closed, Base

\* No solver ever has an edge without a derivation from the graph, the loops and
\* the calls it has resolved by then.
THEOREM EdgesDerivableAlways == Spec => []EdgesDerivable
<1> DEFINE Inv == SoundInvs /\ prob \in Problems /\ connected \subseteq prob.targets
<1>1. Init => Inv
  BY SoundInit DEF Init
<1>2. Inv /\ [Next]_vars => Inv'
  BY SoundSteps, ProblemStays
<1>3. Inv => EdgesDerivable
  <2>1. SUFFICES ASSUME Inv PROVE edges \subseteq Derivable(Base)
    BY DEF EdgesDerivable, Base
  <2>2. SoundInv(Derivable(Base))
    BY <2>1 DEF SoundInvs
  <2> QED
    BY <2>1, <2>2, DerivableCloses DEF SoundInv
<1> QED
  BY <1>1, <1>2, <1>3, PTL DEF Spec
=============================================================================
