------------------------ MODULE AndersenWaveDiff_proofs ------------------------
(***************************************************************************)
(* For every program, every set of objects and every order in which nodes  *)
(* are visited and cycles are merged: the solver's data stay well formed,  *)
(* difference propagation never loses an object, points-to sets only grow, *)
(* and as long as nothing is given up they stay within the least solution; *)
(* and when the solver stops, the sets are closed under the constraints.   *)
(***************************************************************************)
EXTENDS AndersenWaveDiff, Digraphs_proofs

IndInv == TypeOK /\ RepConsistent /\ PropagatedArrived

-----------------------------------------------------------------------------
\* Offsets wrap around within the fields of an object (getGepObjVar).
LEMMA ModInRange ==
    ASSUME NEW a \in Nat, NEW n \in Nat, n > 0
    PROVE  a % n \in 0 .. n - 1
BY SMT

\* A gep of an object is an object, itself or another field of the same base: the
\* field asked for exists whenever the object still has fields.
LEMMA GepTargetBase ==
    ASSUME TypeOK, NEW o \in Objs, NEW k \in Offsets
    PROVE  GepTarget(o, k) \in Objs /\ BaseOf[GepTarget(o, k)] = BaseOf[o]
<1> USE ObjectsAssumption DEF Objs
<1> DEFINE b == BaseOf[o]
           i == (IdxOf(o) + k) % NumFields[b]
<1>1. b \in BaseObjs /\ BaseOf[b] = b
  OBVIOUS
<1>2. ASSUME b \notin Opaque, k # Variant, b \notin insens
      PROVE  FieldAt(b, i) \in FieldObjs /\ BaseOf[FieldAt(b, i)] = b
  <2>1. prog \in Programs /\ b \in BaseObjs \ (Opaque \cup prog.insensitive)
    BY <1>1, <1>2 DEF TypeOK
  <2>2. NumFields[b] > 0 /\ NumFields[b] \in Nat
    BY <1>1, <2>1, ProgramsAssumption
  <2>3. IdxOf(o) + k \in Nat
    BY <1>2 DEF IdxOf, Offsets, Variant
  <2>4. i \in 0 .. NumFields[b] - 1
    BY <2>2, <2>3, ModInRange
  <2>5. \E f \in FieldObjs : BaseOf[f] = b /\ FieldIdx[f] = i
    BY <2>1, <2>4, ProgramsAssumption
  <2> QED
    BY <2>5 DEF FieldAt
<1> QED
  BY <1>1, <1>2 DEF GepTarget

-----------------------------------------------------------------------------
(***************************************************************************)
(* Detecting cycles.  What holds along every edge of a cycle holds between *)
(* any two nodes of it.                                                    *)
(***************************************************************************)
LEMMA SameCycle ==
    ASSUME NEW N, IsFiniteSet(N), NEW E \in SUBSET (N \X N)
    PROVE  /\ SameSCC(E, N) \subseteq N \X N
           /\ \A a, b : <<a, b>> \in SameSCC(E, N) => <<b, a>> \in SameSCC(E, N)
           /\ Transitive(SameSCC(E, N))
<1>1. /\ Closure(E, N) \subseteq N \X N
      /\ Transitive(Closure(E, N))
  BY ClosureLeast
<1>2. \A a, b : <<a, b>> \in SameSCC(E, N) <=>
                   <<a, b>> \in Closure(E, N) /\ <<b, a>> \in Closure(E, N)
  BY DEF SameSCC
<1>3. Transitive(SameSCC(E, N))
  BY <1>1, <1>2 DEF Transitive
<1> QED
  BY <1>1, <1>2, <1>3 DEF SameSCC

LEMMA AlongCycle ==
    ASSUME NEW N, IsFiniteSet(N), NEW E \in SUBSET (N \X N), NEW f,
           \A e \in E : e \in SameSCC(E, N) => f[e[1]] \subseteq f[e[2]],
           NEW a, NEW b, <<a, b>> \in SameSCC(E, N)
    PROVE  f[a] = f[b]
<1> DEFINE R == Closure(E, N)
           T == {e \in R : <<e[2], e[1]>> \in R => f[e[1]] \subseteq f[e[2]]}
<1>1. R \in SUBSET (N \X N) /\ E \subseteq R /\ Transitive(R)
  BY ClosureLeast
<1>2. \A x, y : <<x, y>> \in T <=> <<x, y>> \in R /\ (<<y, x>> \in R => f[x] \subseteq f[y])
  OBVIOUS
<1>3. E \subseteq T
  BY <1>1 DEF SameSCC
<1>4. SameSCC(E, N) = {e \in R : <<e[2], e[1]>> \in R}
  BY DEF SameSCC
<1>5. T \in SUBSET (N \X N)
  BY <1>1
<1> HIDE DEF T, R
<1>6. Transitive(T)
  BY <1>1, <1>2 DEF Transitive
<1>7. R \subseteq T
  BY <1>3, <1>5, <1>6, ClosureLeast DEF R
<1>8. <<a, b>> \in R /\ <<b, a>> \in R
  BY <1>4
<1>9. <<a, b>> \in T /\ <<b, a>> \in T
  BY <1>7, <1>8
<1>10. f[a] \subseteq f[b] /\ f[b] \subseteq f[a]
  BY <1>2, <1>8, <1>9
<1> QED
  BY <1>10

-----------------------------------------------------------------------------
(***************************************************************************)
(* Merging nodes.  m sends representatives to representatives and leaves   *)
(* those it sends others to in place; p points to what pts did, up to      *)
(* fields of collapsed objects.                                            *)
(***************************************************************************)
MergeMap(m) ==
    /\ m \in [Nodes -> Nodes]
    /\ \A r \in Reps : m[r] \in Reps /\ m[m[r]] = m[r]

Covers(p) ==
    /\ p \in [Nodes -> SUBSET Objs]
    /\ \A n \in Nodes : \A o \in pts[n] :
          o \in p[n] \/ (o \in FieldObjs /\ BaseOf[o] \in insens' /\ BaseOf[o] \in p[n])

LEMMA MoveEdgeEnds ==
    ASSUME NEW m \in [Nodes -> Nodes], NEW e \in Nodes \X Nodes
    PROVE  /\ MoveEdge(m, e) \in Nodes \X Nodes
           /\ MoveEdge(m, e)[1] = m[e[1]] /\ MoveEdge(m, e)[2] = m[e[2]]
BY DEF MoveEdge

LEMMA MoveGepEnds ==
    ASSUME NEW m \in [Nodes -> Nodes], NEW e \in Nodes \X Nodes \X Offsets
    PROVE  /\ MoveGep(m, e) \in Nodes \X Nodes \X Offsets
           /\ MoveGep(m, e)[1] = m[e[1]] /\ MoveGep(m, e)[2] = m[e[2]]
           /\ e[1] \in Nodes /\ e[2] \in Nodes
BY DEF MoveGep

\* Every edge there is after the merge comes from one there was before it.
LEMMA MergedEdges ==
    ASSUME TypeOK, NEW m, NEW p, MergeMap(m), MergeNodes(m, p)
    PROVE  /\ \A x \in copyE' : /\ x \in Nodes \X Nodes
                               /\ \E e \in copyE : /\ x[1] = m[e[1]] /\ x[2] = m[e[2]]
                                                  /\ m[e[1]] # m[e[2]]
           /\ \A x \in loadE' : /\ x \in Nodes \X Nodes
                               /\ \E e \in loadE : x[1] = m[e[1]] /\ x[2] = m[e[2]]
           /\ \A x \in storeE' : /\ x \in Nodes \X Nodes
                                /\ \E e \in storeE : x[1] = m[e[1]] /\ x[2] = m[e[2]]
           /\ \A x \in gepE' : /\ x \in Nodes \X Nodes \X Offsets
                              /\ \E e \in gepE : x[1] = m[e[1]] /\ x[2] = m[e[2]]
<1>1. /\ m \in [Nodes -> Nodes]
      /\ copyE \subseteq Nodes \X Nodes /\ gepE \subseteq Nodes \X Nodes \X Offsets
      /\ loadE \subseteq Nodes \X Nodes /\ storeE \subseteq Nodes \X Nodes
  BY DEF TypeOK, MergeMap
<1>2. /\ copyE' = {MoveEdge(m, e) : e \in {f \in copyE : m[f[1]] # m[f[2]]}}
      /\ loadE' = {MoveEdge(m, e) : e \in loadE}
      /\ storeE' = {MoveEdge(m, e) : e \in storeE}
      /\ gepE' \subseteq {MoveGep(m, e) : e \in gepE}
  BY DEF MergeNodes, MergedPts, MergedPropa
<1>3. ASSUME NEW x \in copyE'
      PROVE  /\ x \in Nodes \X Nodes
             /\ \E e \in copyE : x[1] = m[e[1]] /\ x[2] = m[e[2]] /\ m[e[1]] # m[e[2]]
  <2>1. PICK e \in copyE : x = MoveEdge(m, e) /\ m[e[1]] # m[e[2]]
    BY <1>2
  <2> QED
    BY <1>1, <2>1, MoveEdgeEnds
<1>4. ASSUME NEW x \in loadE'
      PROVE  x \in Nodes \X Nodes /\ \E e \in loadE : x[1] = m[e[1]] /\ x[2] = m[e[2]]
  <2>1. PICK e \in loadE : x = MoveEdge(m, e)
    BY <1>2
  <2> QED
    BY <1>1, <2>1, MoveEdgeEnds
<1>5. ASSUME NEW x \in storeE'
      PROVE  x \in Nodes \X Nodes /\ \E e \in storeE : x[1] = m[e[1]] /\ x[2] = m[e[2]]
  <2>1. PICK e \in storeE : x = MoveEdge(m, e)
    BY <1>2
  <2> QED
    BY <1>1, <2>1, MoveEdgeEnds
<1>6. ASSUME NEW x \in gepE'
      PROVE  /\ x \in Nodes \X Nodes \X Offsets
             /\ \E e \in gepE : x[1] = m[e[1]] /\ x[2] = m[e[2]]
  <2>1. PICK e \in gepE : x = MoveGep(m, e)
    BY <1>2
  <2> QED
    BY <1>1, <2>1, MoveGepEnds
<1> QED
  BY <1>3, <1>4, <1>5, <1>6

\* The PWC flags move with their nodes, and those that are added come from critical
\* geps; every one is noticed that does not go under.
LEMMA MergedPwc ==
    ASSUME NEW m, NEW p, MergeNodes(m, p)
    PROVE  /\ \A x \in pwc' : \/ \E y \in pwc : x = m[y]
                             \/ \E e \in Critical(m) : x = m[e[1]]
           /\ \A x \in pwc : m[x] \in pwc'
           /\ \A e \in Critical(m) : m[e[1]] \in pwc' \/ MayGoUnder(m, e)
<1>1. PICK seen \in SUBSET Critical(m) :
          /\ {e \in Critical(m) : ~MayGoUnder(m, e)} \subseteq seen
          /\ pwc' = {m[x] : x \in pwc \cup {e[1] : e \in seen}}
  BY DEF MergeNodes
<1>2. \A x \in pwc : m[x] \in pwc'
  BY <1>1
<1>3. \A e \in seen : m[e[1]] \in pwc'
  BY <1>1
<1>4. \A e \in Critical(m) : e \in seen \/ MayGoUnder(m, e)
  BY <1>1
<1>5. \A x \in pwc' : (\E y \in pwc : x = m[y]) \/ \E e \in Critical(m) : x = m[e[1]]
  BY <1>1
<1> QED
  BY <1>2, <1>3, <1>4, <1>5

LEMMA MergeTyped ==
    ASSUME TypeOK, NEW m, NEW p, MergeMap(m), Covers(p), MergeNodes(m, p)
    PROVE  /\ rep' \in [Nodes -> Nodes]
           /\ pts' \in [Nodes -> SUBSET Objs] /\ propa' \in [Nodes -> SUBSET Objs]
           /\ copyE' \subseteq Nodes \X Nodes /\ gepE' \subseteq Nodes \X Nodes \X Offsets
           /\ loadE' \subseteq Nodes \X Nodes /\ storeE' \subseteq Nodes \X Nodes
           /\ pwc' \subseteq Nodes
<1>1. rep' \in [Nodes -> Nodes]
  BY DEF MergeNodes, MergedPts, MergedPropa, MergeMap, TypeOK
<1>2. pts' \in [Nodes -> SUBSET Objs]
  BY DEF MergeNodes, MergedPts, MergedPropa, Covers, Reps
<1>3. propa' \in [Nodes -> SUBSET Objs]
  BY DEF MergeNodes, MergedPts, MergedPropa, TypeOK
<1>4. m \in [Nodes -> Nodes]
  BY DEF MergeMap
<1>5. /\ copyE' \subseteq Nodes \X Nodes /\ gepE' \subseteq Nodes \X Nodes \X Offsets
      /\ loadE' \subseteq Nodes \X Nodes /\ storeE' \subseteq Nodes \X Nodes
  BY MergedEdges
<1>6. gepE \subseteq Nodes \X Nodes \X Offsets
  BY DEF TypeOK
<1>8. pwc' \subseteq Nodes
  <2>1. \A e \in gepE : m[e[1]] \in Nodes
    BY <1>4, <1>6, MoveGepEnds
  <2>2. \A x \in pwc : m[x] \in Nodes
    BY <1>4 DEF TypeOK
  <2>3. Critical(m) \subseteq gepE
    BY DEF Critical, Internal
  <2> QED
    BY <2>1, <2>2, <2>3, MergedPwc
<1> QED
  BY <1>1, <1>2, <1>3, <1>5, <1>8

\* Every edge ends up between representatives.
LEMMA MergeConsistent ==
    ASSUME TypeOK, RepConsistent, NEW m, NEW p, MergeMap(m), MergeNodes(m, p)
    PROVE  /\ \A n \in Nodes : rep'[rep'[n]] = rep'[n]
           /\ \A r \in Reps : rep'[m[r]] = m[r]
           /\ \A e \in copyE' \cup loadE' \cup storeE' : e[1] \in Reps' /\ e[2] \in Reps'
           /\ \A e \in gepE' : e[1] \in Reps' /\ e[2] \in Reps'
           /\ \A e \in copyE' : e[1] # e[2]
           /\ pwc' \subseteq Reps'
<1>1. \A n \in Nodes : rep[n] \in Reps /\ rep'[n] = m[rep[n]]
  BY DEF TypeOK, RepConsistent, MergeNodes, MergedPts, MergedPropa, Reps
<1>2. \A r \in Reps : m[r] \in Reps' /\ rep'[m[r]] = m[r]
  BY <1>1 DEF MergeMap, Reps
<1>3. \A n \in Nodes : rep'[rep'[n]] = rep'[n]
  BY <1>1, <1>2
<1>4. /\ \A e \in copyE' \cup loadE' \cup storeE' : e[1] \in Reps' /\ e[2] \in Reps'
      /\ \A e \in copyE' : e[1] # e[2]
  BY <1>2, MergedEdges DEF RepConsistent
<1>5. \A e \in gepE' : e[1] \in Reps' /\ e[2] \in Reps'
  BY <1>2, MergedEdges DEF RepConsistent
<1>6. pwc' \subseteq Reps'
  <2>1. Critical(m) \subseteq gepE
    BY DEF Critical, Internal
  <2> QED
    BY <1>2, <2>1, MergedPwc DEF RepConsistent
<1> QED
  BY <1>2, <1>3, <1>4, <1>5, <1>6

\* What the nodes pointed to, their representatives point to.
LEMMA MergeKeeps ==
    ASSUME TypeOK, NEW m, NEW p, MergeMap(m), Covers(p), MergeNodes(m, p),
           NEW y \in Reps
    PROVE  p[y] \subseteq pts'[m[y]]
BY DEF MergeNodes, MergedPts, MergedPropa, MergeMap, Reps

LEMMA MergeArrived ==
    ASSUME IndInv, NEW m, NEW p, MergeMap(m), Covers(p), MergeNodes(m, p),
           insens \subseteq insens'
    PROVE  PropagatedArrived'
<1> USE DEF IndInv
<1>1. ASSUME NEW o \in Objs, NEW y \in Reps, Arrived(o, y)
      PROVE  (Arrived(o, m[y]))'
  <2>1. o \in p[y] \/ (BaseOf[o] \in insens' /\ BaseOf[o] \in p[y])
    BY <1>1, ObjectsAssumption DEF Arrived, Covers, Reps, Objs
  <2> QED
    BY <2>1, MergeKeeps DEF Arrived
<1>2. ASSUME NEW y \in Reps
      PROVE  propa'[m[y]] \subseteq propa[y] /\ propa[y] \subseteq Objs
  BY <1>2 DEF MergeNodes, MergedPts, MergedPropa, MergeMap, Reps, TypeOK
<1>3. \A e \in copyE' : \A o \in propa'[e[1]] : (Arrived(o, e[2]))'
  <2> SUFFICES ASSUME NEW e \in copyE', NEW o \in propa'[e[1]]
               PROVE  (Arrived(o, e[2]))'
    OBVIOUS
  <2>1. PICK f \in copyE : e[1] = m[f[1]] /\ e[2] = m[f[2]]
    BY MergedEdges
  <2>2. f[1] \in Reps /\ f[2] \in Reps
    BY DEF RepConsistent
  <2>3. o \in propa[f[1]] /\ o \in Objs
    BY <1>2, <2>1, <2>2
  <2>4. Arrived(o, f[2])
    BY <2>3 DEF PropagatedArrived
  <2>5. (Arrived(o, m[f[2]]))'
    BY <1>1, <2>2, <2>3, <2>4
  <2> QED
    BY <2>1, <2>5 DEF Arrived
<1>4. \A n \in Reps' : \A o \in propa'[n] : (Arrived(o, n))'
  <2> SUFFICES ASSUME NEW n \in Reps', NEW o \in propa'[n]
               PROVE  (Arrived(o, n))'
    OBVIOUS
  <2>1. n \in Nodes /\ rep[n] \in Reps /\ n = m[rep[n]]
    BY DEF Reps, TypeOK, RepConsistent, MergeNodes, MergedPts, MergedPropa
  <2>2. o \in propa[rep[n]] /\ o \in Objs
    BY <1>2, <2>1
  <2>3. Arrived(o, rep[n])
    BY <2>1, <2>2 DEF PropagatedArrived
  <2> QED
    BY <1>1, <2>1, <2>2, <2>3
<1> QED
  BY <1>3, <1>4 DEF PropagatedArrived

LEMMA MergePointsToKept ==
    ASSUME TypeOK, RepConsistent, NEW m, NEW p, MergeMap(m), Covers(p), MergeNodes(m, p)
    PROVE  PointsToKept
<1> SUFFICES ASSUME NEW n \in Nodes, NEW o \in pts[rep[n]]
             PROVE  \/ o \in pts'[rep'[n]]
                    \/ o \in FieldObjs /\ BaseOf[o] \in insens' /\ BaseOf[o] \in pts'[rep'[n]]
  BY DEF PointsToKept
<1>1. rep[n] \in Reps /\ rep[n] \in Nodes /\ rep'[n] = m[rep[n]]
  BY DEF TypeOK, RepConsistent, MergeNodes, MergedPts, MergedPropa, Reps
<1>2. p[rep[n]] \subseteq pts'[rep'[n]]
  BY <1>1, MergeKeeps
<1> QED
  BY <1>1, <1>2 DEF Covers

-----------------------------------------------------------------------------
(***************************************************************************)
(* The inductive invariant, one action at a time.                          *)
(***************************************************************************)
LEMMA InitOK == Init => IndInv
<1> USE ObjectsAssumption DEF Objs, Nodes
<1> SUFFICES ASSUME Init PROVE IndInv
  OBVIOUS
<1>1. IsProgram(prog)
  BY ProgramsAssumption DEF Init
<1>2. TypeOK
  <2>1. copyE \subseteq Nodes \X Nodes /\ loadE \subseteq Nodes \X Nodes
    BY <1>1 DEF Init, IsProgram
  <2>2. storeE \subseteq Nodes \X Nodes /\ gepE \subseteq Nodes \X Nodes \X Offsets
    BY <1>1 DEF Init, IsProgram
  <2>3. worklist \subseteq Nodes
    BY <1>1 DEF Init, IsProgram
  <2>4. cur \in Nodes
    BY <1>1 DEF Init
  <2>5. pts \in [Nodes -> SUBSET Objs] /\ propa \in [Nodes -> SUBSET Objs]
        /\ rep \in [Nodes -> Nodes]
    BY DEF Init
  <2> QED
    BY <1>1, <2>1, <2>2, <2>3, <2>4, <2>5 DEF Init, IsProgram, TypeOK
<1>3. RepConsistent
  BY <1>2 DEF Init, RepConsistent, Reps, TypeOK
<1>4. PropagatedArrived
  BY <1>2 DEF Init, PropagatedArrived, TypeOK, Reps
<1> QED
  BY <1>2, <1>3, <1>4 DEF IndInv

\* What a step that changes neither nodes, edges nor points-to sets preserves.
LEMMA NothingMoved ==
    ASSUME IndInv, UNCHANGED <<rep, pts, propa, graph, pwc, insens>>,
           \A e \in todo' : e[1] \in Reps /\ e[2] \in Reps /\ e[1] # e[2],
           todo' # {} => pc' \in {"post", "calls"},
           toCollapse' # {} => pc' \in {"wave", "node"}
    PROVE  RepConsistent' /\ PropagatedArrived' /\ PointsToKept
<1>1. RepConsistent'
  BY DEF IndInv, RepConsistent, Reps, graph
<1>2. PropagatedArrived'
  BY DEF IndInv, PropagatedArrived, Arrived, Reps, graph
<1>3. PointsToKept
  BY DEF IndInv, PointsToKept
<1> QED
  BY <1>1, <1>2, <1>3

\* What the detection of cycles does: it merges the nodes of each cycle into one of
\* them, and stacks the nodes of the graph that are left.
LEMMA SccMap ==
    ASSUME IndInv, SccDetect
    PROVE  LET N    == Reps \cap GraphNodes
               same == SameSCC(DirectEdges, N)
           IN  \E m : /\ MergeMap(m) /\ MergeNodes(m, pts)
                      /\ \A n \in Nodes : m[n] = n \/ (m[n] \in N /\ <<n, m[n]>> \in same)
                      /\ DirectEdges \in SUBSET (N \X N) =>
                            \A a, b : <<a, b>> \in same => m[a] = m[b]
                      /\ stack' = {n \in N : m[n] = n}
<1> DEFINE N      == Reps \cap GraphNodes
           same   == SameSCC(DirectEdges, N)
           cycle(n) == {n} \cup {x \in N : <<n, x>> \in same}
           cyclic == N \cap {e[1] : e \in {f \in same : f[1] # f[2]}}
           map(picked) == [n \in Nodes |-> IF n \in picked \/ n \notin cyclic THEN n
                                           ELSE CHOOSE r \in picked : r \in cycle(n)]
<1> HIDE DEF same
<1>1. PICK picked \in SUBSET cyclic :
          /\ \A n \in cyclic : Cardinality(cycle(n) \cap picked) = 1
          /\ MergeNodes(map(picked), pts)
          /\ stack' = (N \ cyclic) \cup picked
  BY DEF SccDetect, same
<1> DEFINE m == map(picked)
<1>2. /\ N \subseteq Reps /\ cyclic \subseteq N /\ Reps \subseteq Nodes /\ picked \subseteq cyclic
      /\ IsFiniteSet(N)
  <2>1. IsFiniteSet(Nodes) /\ N \subseteq Nodes
    BY ObjectsAssumption DEF Reps
  <2> QED
    BY <1>1, <2>1, FS_Subset DEF Reps
\* The map sends a node of a cycle to the one member that was picked.
<1>3. ASSUME NEW n \in cyclic
      PROVE  \E r \in picked : cycle(n) \cap picked = {r} /\ m[n] = r
  <2>1. Cardinality(cycle(n) \cap picked) = 1 /\ IsFiniteSet(cycle(n) \cap picked)
    <3>1. IsFiniteSet(picked)
      BY <1>2, FS_Subset
    <3> DEFINE both == cycle(n) \cap picked
    <3>2. both \subseteq picked /\ Cardinality(both) = 1
      BY <1>1
    <3> HIDE DEF both
    <3>3. IsFiniteSet(both)
      BY <3>1, <3>2, FS_Subset
    <3> QED
      BY <3>2, <3>3 DEF both
  <2>2. PICK r : cycle(n) \cap picked = {r}
    BY <2>1, FS_Singleton
  <2>3. r \in picked /\ r \in cycle(n) /\ \A x \in picked : x \in cycle(n) => x = r
    BY <2>2
  <2>4. n \in cycle(n) /\ n \in Nodes
    BY <1>2
  <2> HIDE DEF cycle
  <2>5. m[n] = r
    <3>1. CASE n \in picked
      BY <2>3, <2>4, <3>1
    <3>2. CASE n \notin picked
      <4>1. m[n] = CHOOSE x \in picked : x \in cycle(n)
        BY <2>4, <3>2
      <4> HIDE DEF m
      <4> QED
        BY <2>3, <4>1
    <3> QED
      BY <3>1, <3>2
  <2> QED
    BY <2>2, <2>3, <2>5
<1>4. \A n \in Nodes \ cyclic : m[n] = n
  OBVIOUS
<1>5. \A n \in picked : m[n] = n
  BY <1>1, <1>2
<1>6. m \in [Nodes -> Nodes]
  <2>1. \A n \in Nodes : m[n] \in Nodes
    <3> HIDE DEF m, N, cyclic, cycle
    <3> QED
      BY <1>2, <1>3, <1>4
  <2>2. \A n \in Nodes : (IF n \in picked \/ n \notin cyclic THEN n
                          ELSE CHOOSE r \in picked : r \in cycle(n)) \in Nodes
    BY <2>1
  <2> HIDE DEF cyclic, cycle
  <2> QED
    BY <2>2
<1>7. MergeNodes(m, pts)
  BY <1>1
<1> HIDE DEF m
<1>8. MergeMap(m)
  <2> HIDE DEF cyclic, cycle
  <2> QED
    BY <1>2, <1>3, <1>4, <1>5, <1>6 DEF MergeMap
<1>9. \A n \in Nodes : m[n] = n \/ (m[n] \in N /\ <<n, m[n]>> \in same)
  <2>1. \A n \in cyclic : m[n] = n \/ (m[n] \in N /\ <<n, m[n]>> \in same)
    BY <1>3
  <2> HIDE DEF cyclic
  <2> QED
    BY <1>4, <2>1
<1>10. stack' = {n \in N : m[n] = n}
  <2>1. \A n \in cyclic : m[n] = n => n \in picked
    BY <1>3
  <2> HIDE DEF cyclic
  <2> QED
    BY <1>1, <1>2, <1>4, <1>5, <2>1
<1>11. ASSUME DirectEdges \in SUBSET (N \X N), NEW a, NEW b, <<a, b>> \in same
       PROVE  m[a] = m[b]
  <2>1. /\ same \subseteq N \X N /\ Transitive(same)
        /\ \A x, y : <<x, y>> \in same => <<y, x>> \in same
    <3> HIDE DEF N
    <3> QED
      BY <1>2, <1>11, SameCycle DEF same
  <2>2. CASE a # b
    <3>1. a \in N /\ b \in N /\ <<b, a>> \in same
      BY <1>11, <2>1
    <3>2. a \in cyclic /\ b \in cyclic
      BY <1>11, <2>2, <3>1
    <3>3. cycle(a) = cycle(b)
      BY <1>11, <2>1, <3>1 DEF Transitive
    <3> HIDE DEF cyclic, cycle
    <3> QED
      BY <1>3, <3>2, <3>3
  <2> QED
    BY <2>2
<1> QED
  BY <1>7, <1>8, <1>9, <1>10, <1>11 DEF same

LEMMA SccDetectOK ==
    ASSUME IndInv, SccDetect
    PROVE  IndInv' /\ PointsToKept
<1>1. PICK m : /\ MergeMap(m) /\ MergeNodes(m, pts)
               /\ stack' = {n \in Reps \cap GraphNodes : m[n] = n}
  BY SccMap
<1>2. Covers(pts)
  BY DEF Covers, IndInv, TypeOK
<1>3. UNCHANGED <<prog, insens, fields, worklist, cur, toCollapse, todo, calls, reanalyze>>
      /\ pc' = "wave" /\ pc = "scc"
  BY DEF SccDetect
<1>4. TypeOK'
  <2>1. stack' \subseteq Nodes
    BY <1>1 DEF Reps
  <2>2. copyE' \subseteq Nodes \X Nodes /\ gepE' \subseteq Nodes \X Nodes \X Offsets
    BY <1>1, <1>2, MergeTyped DEF IndInv
  <2>3. order' \subseteq Nodes \X Nodes
    BY <2>2 DEF SccDetect
  <2> QED
    BY <1>1, <1>2, <1>3, <2>1, <2>3, MergeTyped DEF IndInv, TypeOK
<1>5. RepConsistent'
  <2>1. todo' = {} /\ toCollapse' = {}
    BY <1>3 DEF IndInv, RepConsistent
  <2> QED
    BY <1>1, <2>1, MergeConsistent DEF IndInv, RepConsistent
<1>6. PropagatedArrived'
  BY <1>1, <1>2, <1>3, MergeArrived
<1>7. PointsToKept
  BY <1>1, <1>2, MergePointsToKept DEF IndInv
<1> QED
  BY <1>4, <1>5, <1>6, <1>7 DEF IndInv

LEMMA PopNodeOK ==
    ASSUME IndInv, PopNode
    PROVE  IndInv' /\ PointsToKept
<1>1. TypeOK'
  <2>1. PICK n \in stack : /\ stack' = stack \ {n} /\ cur' = n
                           /\ toCollapse' \subseteq {BaseOf[o] : o \in pts[rep[n]]}
    BY DEF PopNode, ToCollapse
  <2>2. n \in Nodes /\ stack' \subseteq Nodes /\ toCollapse' \subseteq BaseObjs
    BY <2>1, ObjectsAssumption DEF IndInv, TypeOK
  <2> QED
    BY <2>1, <2>2 DEF IndInv, TypeOK, PopNode, graph
<1>2. RepConsistent' /\ PropagatedArrived' /\ PointsToKept
  BY NothingMoved DEF PopNode, IndInv, RepConsistent
<1> QED
  BY <1>1, <1>2 DEF IndInv

LEMMA EndWaveOK ==
    ASSUME IndInv, EndWave
    PROVE  IndInv' /\ PointsToKept
<1>1. TypeOK'
  BY DEF IndInv, TypeOK, EndWave, graph
<1>2. RepConsistent' /\ PropagatedArrived' /\ PointsToKept
  BY NothingMoved DEF EndWave, IndInv, RepConsistent
<1> QED
  BY <1>1, <1>2 DEF IndInv

LEMMA ProcessNodeOK ==
    ASSUME IndInv, ProcessNode
    PROVE  IndInv' /\ PointsToKept
<1>1. /\ pc' = "wave" /\ toCollapse = {} /\ todo = {}
      /\ UNCHANGED <<prog, rep, graph, pwc, stack, order, cur, todo, calls, reanalyze>>
  BY DEF ProcessNode, IndInv, RepConsistent
<1>2. CASE rep[cur] # cur
  <2>1. UNCHANGED <<pts, propa, worklist, fields, insens, toCollapse>>
    BY <1>2 DEF ProcessNode
  <2>2. TypeOK'
    BY <1>1, <2>1 DEF IndInv, TypeOK, graph
  <2> QED
    BY <1>1, <2>1, <2>2, NothingMoved DEF IndInv
<1>3. CASE rep[cur] = cur
  <2>1. /\ pts' = [d \in Nodes |-> pts[d] \cup Into(d)]
        /\ propa' = [propa EXCEPT ![cur] = pts[cur]]
        /\ worklist' = worklist \cup {d \in Nodes : ~ Into(d) \subseteq pts[d]}
        /\ fields' = fields \cup {f \in FieldObjs : \E d \in Nodes : f \in Into(d)}
        /\ insens' = insens \cup Blurred
        /\ toCollapse' = Blurred
    BY <1>3 DEF ProcessNode
  <2>2. cur \in Nodes /\ DiffPts \subseteq Objs
    BY DEF DiffPts, IndInv, TypeOK
  <2>3. \A d \in Nodes : Into(d) \subseteq Objs
    <3> SUFFICES ASSUME NEW o \in DiffPts, NEW e \in gepE PROVE GepTarget(o, e[3]) \in Objs
      BY <2>2 DEF Into
    <3>1. e[3] \in Offsets
      BY DEF IndInv, TypeOK
    <3> QED
      BY <2>2, <3>1, GepTargetBase DEF IndInv
  <2>4. Blurred \subseteq BaseObjs
    BY <2>2, ObjectsAssumption DEF Blurred, ToCollapse
  <2>5. \A d \in Nodes : /\ pts[d] \subseteq pts'[d]
                         /\ <<cur, d>> \in copyE => DiffPts \subseteq pts'[d]
    BY <2>1 DEF Into
  <2>6. TypeOK'
    <3>1. pts' \in [Nodes -> SUBSET Objs] /\ propa' \in [Nodes -> SUBSET Objs]
      BY <2>1, <2>2, <2>3 DEF IndInv, TypeOK
    <3> QED
      BY <1>1, <2>1, <2>4, <3>1 DEF IndInv, TypeOK, graph
  <2>7. RepConsistent'
    BY <1>1, <2>1 DEF IndInv, RepConsistent, Reps, graph
  <2>8. ASSUME NEW o \in Objs, NEW d \in Nodes, Arrived(o, d)
        PROVE  (Arrived(o, d))'
    BY <2>1, <2>5, <2>8 DEF Arrived
  <2>9. \A n \in Nodes : propa'[n] = IF n = cur THEN pts[cur] ELSE propa[n]
    BY <2>1 DEF IndInv, TypeOK
  <2>10. PropagatedArrived'
    <3>1. ASSUME NEW e \in copyE, NEW o \in propa'[e[1]]
          PROVE  (Arrived(o, e[2]))'
      <4>1. e = <<e[1], e[2]>> /\ e[1] \in Nodes /\ e[2] \in Nodes /\ o \in Objs
        BY <2>2, <2>9 DEF IndInv, TypeOK
      <4>2. CASE o \in propa[e[1]]
        BY <2>8, <4>1, <4>2 DEF IndInv, PropagatedArrived
      <4>3. CASE o \notin propa[e[1]]
        <5>1. e[1] = cur /\ o \in DiffPts
          BY <2>9, <4>1, <4>3 DEF DiffPts
        <5>2. o \in pts'[e[2]]
          BY <2>5, <4>1, <5>1
        <5> QED
          BY <5>2 DEF Arrived
      <4> QED
        BY <4>2, <4>3
    <3>2. ASSUME NEW n \in Reps, NEW o \in propa'[n]
          PROVE  (Arrived(o, n))'
      <4>1. n \in Nodes /\ o \in Objs
        BY <2>2, <2>9 DEF IndInv, TypeOK, Reps
      <4>2. o \in pts[n] \/ o \in propa[n]
        BY <2>9, <4>1
      <4>3. Arrived(o, n)
        BY <4>2 DEF Arrived, IndInv, PropagatedArrived
      <4> QED
        BY <2>8, <4>1, <4>3
    <3>3. copyE' = copyE /\ Reps' = Reps
      BY <1>1 DEF graph, Reps
    <3> QED
      BY <3>1, <3>2, <3>3 DEF PropagatedArrived
  <2>11. PointsToKept
    BY <1>1, <2>5 DEF PointsToKept, IndInv, TypeOK
  <2> QED
    BY <2>6, <2>7, <2>10, <2>11 DEF IndInv
<1> QED
  BY <1>2, <1>3

(***************************************************************************)
(* collapseField(b): the fields of b there are, who points to them, and    *)
(* what becomes of points-to sets and of nodes.                            *)
(***************************************************************************)
FieldsOf(b)  == {f \in fields : BaseOf[f] = b}
HoldersOf(b) == {n \in Nodes : pts[n] \cap FieldsOf(b) # {}}
BasePts(b) ==
    [n \in Nodes |-> IF n \in HoldersOf(b) THEN (pts[n] \ FieldsOf(b)) \cup {b} ELSE pts[n]]
BaseMap(b) == [n \in Nodes |-> IF n \in {rep[f] : f \in FieldsOf(b)} THEN rep[b] ELSE n]

LEMMA CollapseMap ==
    ASSUME IndInv, CollapseField
    PROVE  \E b \in toCollapse :
              /\ MergeMap(BaseMap(b)) /\ Covers(BasePts(b)) /\ MergeNodes(BaseMap(b), BasePts(b))
              /\ insens' = insens \cup {b}
              /\ worklist' = worklist \cup {rep'[n] : n \in HoldersOf(b)}
              /\ reanalyze' = (reanalyze \/ HoldersOf(b) # {})
              /\ \E more \in SUBSET (BaseObjs \ insens') : toCollapse' = (toCollapse \ {b}) \cup more
<1>1. PICK b \in toCollapse :
              /\ MergeNodes(BaseMap(b), BasePts(b))
              /\ insens' = insens \cup {b}
              /\ worklist' = worklist \cup {rep'[n] : n \in HoldersOf(b)}
              /\ reanalyze' = (reanalyze \/ HoldersOf(b) # {})
              /\ toCollapse' = (toCollapse \ {b}) \cup
                                 (IF rep[b] \in pwc' THEN ToCollapse(pts'[rep[b]], insens') ELSE {})
  BY DEF CollapseField, BaseMap, BasePts, HoldersOf, FieldsOf
<1>2. b \in BaseObjs /\ b \in Nodes /\ b \in Objs /\ rep[b] \in Reps /\ Reps \subseteq Nodes
  BY DEF IndInv, TypeOK, RepConsistent, Reps, Objs, Nodes
<1> DEFINE m == BaseMap(b)
           p == BasePts(b)
           more == IF rep[b] \in pwc' THEN ToCollapse(pts'[rep[b]], insens') ELSE {}
<1>3. MergeMap(m)
  <2>1. \A n \in Nodes : m[n] = n \/ m[n] = rep[b]
    BY DEF BaseMap
  <2>2. m[rep[b]] = rep[b] /\ m \in [Nodes -> Nodes]
    BY <1>2 DEF BaseMap
  <2> HIDE DEF m
  <2> QED
    BY <1>2, <2>1, <2>2 DEF MergeMap
<1>4. Covers(p)
  <2>1. p \in [Nodes -> SUBSET Objs]
    BY <1>2 DEF BasePts, IndInv, TypeOK
  <2>2. ASSUME NEW n \in Nodes, NEW o \in pts[n]
        PROVE  o \in p[n] \/ (o \in FieldObjs /\ BaseOf[o] \in insens' /\ BaseOf[o] \in p[n])
    <3>1. CASE o \in FieldsOf(b)
      BY <1>1, <2>2, <3>1 DEF BasePts, HoldersOf, FieldsOf, IndInv, TypeOK
    <3>2. CASE o \notin FieldsOf(b)
      BY <2>2, <3>2 DEF BasePts
    <3> QED
      BY <3>1, <3>2
  <2> QED
    BY <2>1, <2>2 DEF Covers
<1>5. more \in SUBSET (BaseObjs \ insens')
  <2>1. pts'[rep[b]] \subseteq Objs
    BY <1>1, <1>2, <1>3, <1>4, MergeTyped DEF IndInv
  <2> QED
    BY <2>1, ObjectsAssumption DEF ToCollapse
<1> HIDE DEF m, p, more
<1>6. toCollapse' = (toCollapse \ {b}) \cup more
  BY <1>1 DEF more
<1> QED
  BY <1>1, <1>3, <1>4, <1>5, <1>6 DEF m, p

LEMMA CollapseFieldOK ==
    ASSUME IndInv, CollapseField
    PROVE  IndInv' /\ PointsToKept
<1>1. PICK b \in toCollapse :
              /\ MergeMap(BaseMap(b)) /\ Covers(BasePts(b)) /\ MergeNodes(BaseMap(b), BasePts(b))
              /\ insens' = insens \cup {b}
              /\ worklist' = worklist \cup {rep'[n] : n \in HoldersOf(b)}
              /\ reanalyze' = (reanalyze \/ HoldersOf(b) # {})
              /\ \E more \in SUBSET (BaseObjs \ insens') : toCollapse' = (toCollapse \ {b}) \cup more
  BY CollapseMap
<1>2. PICK m, p : m = BaseMap(b) /\ p = BasePts(b)
  OBVIOUS
<1>3. MergeMap(m) /\ Covers(p) /\ MergeNodes(m, p)
  BY <1>1, <1>2
<1>4. UNCHANGED <<prog, fields, stack, order, cur, todo, calls, pc>>
  BY DEF CollapseField
<1>5. b \in BaseObjs
  BY DEF IndInv, TypeOK
<1>6. TypeOK'
  <2>1. rep' \in [Nodes -> Nodes]
    BY <1>3, MergeTyped DEF IndInv
  <2>2. worklist' \subseteq Nodes
    BY <1>1, <2>1 DEF HoldersOf, IndInv, TypeOK
  <2>3. toCollapse' \subseteq BaseObjs
    BY <1>1 DEF IndInv, TypeOK
  <2>4. prog'.insensitive \subseteq insens' /\ insens' \subseteq BaseObjs
    BY <1>1, <1>4, <1>5 DEF IndInv, TypeOK
  <2>5. reanalyze' \in BOOLEAN
    BY <1>1 DEF IndInv, TypeOK
  <2> QED
    BY <1>3, <1>4, <2>2, <2>3, <2>4, <2>5, MergeTyped DEF IndInv, TypeOK
<1>7. RepConsistent'
  <2>1. todo = {} /\ pc \in {"wave", "node"}
    BY DEF IndInv, RepConsistent
  <2> QED
    BY <1>3, <1>4, <2>1, MergeConsistent DEF IndInv, RepConsistent
<1>8. insens \subseteq insens'
  BY <1>1
<1>9. PropagatedArrived'
  BY <1>3, <1>8, MergeArrived
<1>10. PointsToKept
  BY <1>3, MergePointsToKept DEF IndInv
<1> QED
  BY <1>6, <1>7, <1>9, <1>10 DEF IndInv

\* addCopyEdge between two representatives.
LEMMA AddCopyEdgeOK ==
    ASSUME IndInv, NEW e \in todo, AddCopyEdge(e), todo' = todo \ {e},
           UNCHANGED <<rep, pts, gepE, loadE, storeE, pwc, insens, toCollapse, pc>>
    PROVE  /\ copyE' \subseteq Nodes \X Nodes /\ propa' \in [Nodes -> SUBSET Objs]
           /\ RepConsistent' /\ PropagatedArrived' /\ PointsToKept
<1>1. e \in Nodes \X Nodes /\ e[1] \in Reps /\ e[2] \in Reps /\ Reps' = Reps
  BY DEF IndInv, TypeOK, RepConsistent, Reps
<1>2. copyE' \subseteq Nodes \X Nodes /\ propa' \in [Nodes -> SUBSET Objs]
  BY <1>1 DEF AddCopyEdge, IndInv, TypeOK, Reps
<1>3. \A n \in Nodes : propa'[n] = IF n = e[1] THEN propa[n] \cap propa[e[2]] ELSE propa[n]
  BY DEF AddCopyEdge, IndInv, TypeOK
<1>4. RepConsistent'
  BY <1>1 DEF AddCopyEdge, IndInv, RepConsistent
<1>5. PropagatedArrived'
  <2>1. \A o, d : Arrived(o, d) => (Arrived(o, d))'
    BY DEF Arrived
  <2>2. ASSUME NEW f \in copyE', NEW o \in propa'[f[1]]
        PROVE  (Arrived(o, f[2]))'
    <3>1. f[1] \in Nodes
      BY <1>2
    <3>2. CASE f \in copyE
      BY <1>3, <2>1, <3>1, <3>2 DEF IndInv, PropagatedArrived
    <3>3. CASE f = e
      BY <1>1, <1>3, <2>1, <3>1, <3>3 DEF IndInv, PropagatedArrived
    <3> QED
      BY <3>2, <3>3 DEF AddCopyEdge
  <2>3. ASSUME NEW n \in Reps, NEW o \in propa'[n]
        PROVE  (Arrived(o, n))'
    BY <1>3, <2>1 DEF Reps, IndInv, PropagatedArrived
  <2> QED
    BY <1>1, <2>2, <2>3 DEF PropagatedArrived
<1>6. PointsToKept
  BY DEF PointsToKept
<1> QED
  BY <1>2, <1>4, <1>5, <1>6

\* The copy edges loads, stores and calls ask for join representatives.
LEMMA NewCopiesOK ==
    ASSUME NEW es, es \subseteq Reps \X Reps
    PROVE  /\ NewCopies(es) \subseteq Nodes \X Nodes
           /\ \A e \in NewCopies(es) : e[1] \in Reps /\ e[2] \in Reps /\ e[1] # e[2]
BY DEF NewCopies, Reps

LEMMA LoadStoreCopiesOK ==
    ASSUME TypeOK, RepConsistent, NEW n \in Nodes
    PROVE  LoadCopies(n) \cup StoreCopies(n) \subseteq Reps \X Reps
<1>1. \A o \in pts[n] : rep[o] \in Reps
  BY DEF TypeOK, RepConsistent, Reps, Nodes
<1>2. \A e \in loadE \cup storeE : e[1] \in Reps /\ e[2] \in Reps
  BY DEF RepConsistent
<1> QED
  BY <1>1, <1>2 DEF LoadCopies, StoreCopies

LEMMA ParamCopiesOK ==
    ASSUME TypeOK, RepConsistent, NEW c \in prog.calls, NEW f \in DOMAIN prog.funs
    PROVE  ParamCopies(c, f) \subseteq Reps \X Reps
<1>1. IsProgram(prog)
  BY ProgramsAssumption DEF TypeOK
<1>2. \A v \in Vars : rep[v] \in Reps
  BY DEF TypeOK, RepConsistent, Reps, Nodes
<1>3. c[2] \in Vars /\ c[3] \in Vars /\ prog.funs[f][1] \in Vars /\ prog.funs[f][2] \in Vars
  BY <1>1 DEF IsProgram
<1> QED
  BY <1>2, <1>3 DEF ParamCopies

LEMMA PostProcessNodeOK ==
    ASSUME IndInv, PostProcessNode
    PROVE  IndInv' /\ PointsToKept
<1>1. PICK n \in worklist : /\ worklist' = worklist \ {n}
                            /\ todo' = NewCopies(LoadCopies(rep[n]) \cup StoreCopies(rep[n]))
  BY DEF PostProcessNode
<1>2. rep[n] \in Nodes
  BY <1>1 DEF IndInv, TypeOK
<1>3. /\ todo' \subseteq Nodes \X Nodes
      /\ \A e \in todo' : e[1] \in Reps /\ e[2] \in Reps /\ e[1] # e[2]
  BY <1>1, <1>2, LoadStoreCopiesOK, NewCopiesOK DEF IndInv
<1>4. TypeOK'
  BY <1>1, <1>3 DEF IndInv, TypeOK, PostProcessNode, graph
<1>5. RepConsistent' /\ PropagatedArrived' /\ PointsToKept
  <2>1. toCollapse = {}
    BY DEF PostProcessNode, IndInv, RepConsistent
  <2> QED
    BY <1>3, <2>1, NothingMoved DEF PostProcessNode
<1> QED
  BY <1>4, <1>5 DEF IndInv

LEMMA AddLoadStoreEdgeOK ==
    ASSUME IndInv, AddLoadStoreEdge
    PROVE  IndInv' /\ PointsToKept
<1>1. PICK e \in todo : AddCopyEdge(e) /\ todo' = todo \ {e}
  BY DEF AddLoadStoreEdge
<1>2. /\ copyE' \subseteq Nodes \X Nodes /\ propa' \in [Nodes -> SUBSET Objs]
      /\ RepConsistent' /\ PropagatedArrived' /\ PointsToKept
  BY <1>1, AddCopyEdgeOK DEF AddLoadStoreEdge
<1>3. TypeOK'
  BY <1>1, <1>2 DEF IndInv, TypeOK, AddLoadStoreEdge
<1> QED
  BY <1>2, <1>3 DEF IndInv

\* What updateCallGraph does: it resolves some of the new calls, all of them unless
\* the limit is reached.
LEMMA CallsAdded ==
    ASSUME UpdateCallGraph
    PROVE  \E new : /\ new \subseteq NewCalls
                    /\ calls' = calls \cup new
                    /\ new = NewCalls \/ Cardinality(calls') = IndirectCallLimit
                    /\ todo' = NewCopies(UNION {ParamCopies(x[1], x[2]) : x \in new})
                    /\ reanalyze' = (reanalyze \/ new # {})
<1>1. PICK new \in SUBSET NewCalls :
          /\ Resolvable(new)
          /\ calls' = calls \cup new
          /\ todo' = NewCopies(UNION {ParamCopies(x[1], x[2]) : x \in new})
          /\ reanalyze' = (reanalyze \/ new # {})
  BY DEF UpdateCallGraph
<1>2. new = NewCalls \/ Cardinality(calls \cup new) = IndirectCallLimit
  BY <1>1 DEF Resolvable
<1> QED
  BY <1>1, <1>2

\* A new call is of a function that takes the arguments and is pointed to.
LEMMA NewCallsAre ==
    ASSUME TypeOK, NEW x \in NewCalls
    PROVE  /\ x \in prog.calls \X DOMAIN prog.funs /\ x \in prog.matchArgs
           /\ x[1] \in prog.calls /\ x[2] \in DOMAIN prog.funs
           /\ x[2] \in pts[rep[x[1][1]]]
BY ProgramsAssumption DEF NewCalls, TypeOK, IsProgram

LEMMA UpdateCallGraphOK ==
    ASSUME IndInv, UpdateCallGraph
    PROVE  IndInv' /\ PointsToKept
<1>1. PICK new : /\ new \subseteq NewCalls
                 /\ calls' = calls \cup new
                 /\ todo' = NewCopies(UNION {ParamCopies(x[1], x[2]) : x \in new})
                 /\ reanalyze' = (reanalyze \/ new # {})
  BY CallsAdded
<1>2. (UNION {ParamCopies(x[1], x[2]) : x \in new}) \subseteq Reps \X Reps
  BY <1>1, NewCallsAre, ParamCopiesOK DEF IndInv
<1>3. /\ todo' \subseteq Nodes \X Nodes
      /\ \A e \in todo' : e[1] \in Reps /\ e[2] \in Reps /\ e[1] # e[2]
  BY <1>1, <1>2, NewCopiesOK
<1>4. TypeOK'
  <2>1. new \subseteq prog.calls \X DOMAIN prog.funs
    BY <1>1, NewCallsAre DEF IndInv
  <2> QED
    BY <1>1, <1>3, <2>1 DEF IndInv, TypeOK, UpdateCallGraph, graph
<1>5. RepConsistent' /\ PropagatedArrived' /\ PointsToKept
  <2>1. toCollapse = {}
    BY DEF UpdateCallGraph, IndInv, RepConsistent
  <2> QED
    BY <1>3, <2>1, NothingMoved DEF UpdateCallGraph
<1> QED
  BY <1>4, <1>5 DEF IndInv

LEMMA AddParamEdgeOK ==
    ASSUME IndInv, AddParamEdge
    PROVE  IndInv' /\ PointsToKept
<1>1. PICK e \in todo : /\ AddCopyEdge(e) /\ todo' = todo \ {e}
                        /\ worklist' = worklist \cup {e[1]}
  BY DEF AddParamEdge
<1>2. /\ copyE' \subseteq Nodes \X Nodes /\ propa' \in [Nodes -> SUBSET Objs]
      /\ RepConsistent' /\ PropagatedArrived' /\ PointsToKept
  BY <1>1, AddCopyEdgeOK DEF AddParamEdge
<1>3. e[1] \in Nodes
  BY <1>1 DEF IndInv, TypeOK
<1>4. TypeOK'
  BY <1>1, <1>2, <1>3 DEF IndInv, TypeOK, AddParamEdge
<1> QED
  BY <1>2, <1>4 DEF IndInv

LEMMA EndRoundOK ==
    ASSUME IndInv, EndRound
    PROVE  IndInv' /\ PointsToKept
<1>1. TypeOK'
  BY DEF IndInv, TypeOK, EndRound, graph
<1>2. RepConsistent' /\ PropagatedArrived' /\ PointsToKept
  BY NothingMoved DEF EndRound, IndInv, RepConsistent
<1> QED
  BY <1>1, <1>2 DEF IndInv

LEMMA NextOK ==
    ASSUME IndInv, [Next]_vars
    PROVE  IndInv' /\ PointsToKept
<1>1. CASE SccDetect
  BY <1>1, SccDetectOK
<1>2. CASE PopNode
  BY <1>2, PopNodeOK
<1>3. CASE ProcessNode
  BY <1>3, ProcessNodeOK
<1>4. CASE CollapseField
  BY <1>4, CollapseFieldOK
<1>5. CASE EndWave
  BY <1>5, EndWaveOK
<1>6. CASE PostProcessNode
  BY <1>6, PostProcessNodeOK
<1>7. CASE AddLoadStoreEdge
  BY <1>7, AddLoadStoreEdgeOK
<1>8. CASE UpdateCallGraph
  BY <1>8, UpdateCallGraphOK
<1>9. CASE AddParamEdge
  BY <1>9, AddParamEdgeOK
<1>10. CASE EndRound
  BY <1>10, EndRoundOK
<1>11. CASE UNCHANGED vars
  <2>1. TypeOK'
    BY <1>11 DEF IndInv, TypeOK, vars, graph
  <2> QED
    BY <1>11, <2>1, NothingMoved DEF vars, IndInv, RepConsistent
<1> QED
  BY <1>1, <1>2, <1>3, <1>4, <1>5, <1>6, <1>7, <1>8, <1>9, <1>10, <1>11 DEF Next, Done

-----------------------------------------------------------------------------
\* The invariant that the next four theorems take their properties from.
THEOREM IndInvAlways == Spec => []IndInv
<1>1. Init => IndInv
  BY InitOK
<1>2. IndInv /\ [Next]_vars => IndInv'
  BY NextOK
<1> QED
  BY <1>1, <1>2, PTL DEF Spec

\* The solver's data keep their types, whatever the program: in particular the
\* field object that getGepObjVar looks up always exists.
THEOREM TypeOKAlways == Spec => []TypeOK
<1>1. IndInv => TypeOK
  BY DEF IndInv
<1> QED
  BY <1>1, IndInvAlways, PTL

\* Merging never leaves an edge, a PWC flag or a pending copy edge on a node that
\* is no longer a representative (mergeSrcToTgt, updateNodeRepAndSubs).
THEOREM RepConsistentAlways == Spec => []RepConsistent
<1>1. IndInv => RepConsistent
  BY DEF IndInv
<1> QED
  BY <1>1, IndInvAlways, PTL

\* Difference propagation is safe: what computeDiffPts will not propagate again
\* has arrived, through merges, collapses and edges added after the fact.
THEOREM PropagatedArrivedAlways == Spec => []PropagatedArrived
<1>1. IndInv => PropagatedArrived
  BY DEF IndInv
<1> QED
  BY <1>1, IndInvAlways, PTL

\* No step of the solver makes a pointer forget an object.
THEOREM PtsGrowAlways == Spec => PtsGrow
<1>1. IndInv /\ [Next]_vars => [PointsToKept]_vars
  BY NextOK
<1> QED
  BY <1>1, IndInvAlways, PTL DEF Spec, PtsGrow
-----------------------------------------------------------------------------
(***************************************************************************)
(* Precision: nothing is pointed to that the constraints do not ask for.   *)
(* First, the least solution is one: it has every address taken and all    *)
(* consequences of its facts.                                              *)
(***************************************************************************)
\* A gep of an object is an object in the reference as well.
LEMMA FieldOfIsObject ==
    ASSUME NEW p \in Programs, NEW o \in Objs, NEW k \in Offsets
    PROVE  FieldOf(p, o, k) \in Objs
<1> USE ObjectsAssumption DEF Objs
<1> DEFINE b == BaseOf[o]
           i == (IdxOf(o) + k) % NumFields[b]
<1>1. b \in BaseObjs
  OBVIOUS
<1>2. ASSUME b \notin Opaque, k # Variant, b \notin p.insensitive
      PROVE  FieldAt(b, i) \in Objs
  <2>1. b \in BaseObjs \ (Opaque \cup p.insensitive)
    BY <1>1, <1>2
  <2>2. NumFields[b] > 0 /\ NumFields[b] \in Nat
    BY <1>1, <2>1, ProgramsAssumption
  <2>3. IdxOf(o) + k \in Nat
    BY <1>2 DEF IdxOf, Offsets, Variant
  <2>4. i \in 0 .. NumFields[b] - 1
    BY <2>2, <2>3, ModInRange
  <2>5. \E f \in FieldObjs : BaseOf[f] = b /\ FieldIdx[f] = i
    BY <2>1, <2>4, ProgramsAssumption
  <2> QED
    BY <2>5 DEF FieldAt
<1> QED
  BY <1>1, <1>2 DEF FieldOf

Facts == Nodes \X Objs
Deduce(p) == [sol \in SUBSET Facts |-> Consequences(p, sol)]
Taken(p)  == {<<e[2], e[1]>> : e \in p.addr}

LEMMA CopiesJoinNodes ==
    ASSUME NEW p \in Programs, NEW sol \in SUBSET Facts
    PROVE  Copies(p, sol) \subseteq Nodes \X Nodes
<1>1. IsProgram(p)
  BY ProgramsAssumption
<1>2. \A n : PointedBy(sol, n) \subseteq Objs
  BY DEF PointedBy, Facts
<1>3. p.copy \subseteq Nodes \X Nodes
  BY <1>1 DEF IsProgram, Nodes
<1>4. \A e \in p.load : \A o \in PointedBy(sol, e[1]) \ Constants : <<o, e[2]>> \in Nodes \X Nodes
  BY <1>1, <1>2 DEF IsProgram, Nodes
<1>5. \A e \in p.store : \A o \in PointedBy(sol, e[2]) \ Constants : <<e[1], o>> \in Nodes \X Nodes
  BY <1>1, <1>2 DEF IsProgram, Nodes
<1>6. \A x \in p.matchArgs :
         {<<x[1][2], p.funs[x[2]][1]>>, <<p.funs[x[2]][2], x[1][3]>>} \subseteq Nodes \X Nodes
  <2>1. ASSUME NEW x \in p.matchArgs
        PROVE  /\ x[1][2] \in Nodes /\ x[1][3] \in Nodes
               /\ p.funs[x[2]][1] \in Nodes /\ p.funs[x[2]][2] \in Nodes
    <3>1. x[1] \in p.calls /\ x[2] \in DOMAIN p.funs
      BY <1>1 DEF IsProgram
    <3>2. x[1] \in Vars \X Vars \X Vars /\ p.funs[x[2]] \in Vars \X Vars
      BY <1>1, <3>1 DEF IsProgram
    <3> QED
      BY <3>2 DEF Nodes
  <2> QED
    BY <2>1
<1> DEFINE loads  == UNION {{<<o, e[2]>> : o \in PointedBy(sol, e[1]) \ Constants} : e \in p.load}
           stores == UNION {{<<e[1], o>> : o \in PointedBy(sol, e[2]) \ Constants} : e \in p.store}
           pairs(x) == {<<x[1][2], p.funs[x[2]][1]>>, <<p.funs[x[2]][2], x[1][3]>>}
           params == UNION {pairs(x) :
                              x \in {y \in p.matchArgs : y[2] \in PointedBy(sol, y[1][1])}}
<1>7. Copies(p, sol) = p.copy \cup loads \cup stores \cup params
  BY DEF Copies
<1>8. loads \subseteq Nodes \X Nodes
  BY <1>4
<1>9. stores \subseteq Nodes \X Nodes
  BY <1>5
<1>10. params \subseteq Nodes \X Nodes
  <2>1. \A x \in p.matchArgs : pairs(x) \subseteq Nodes \X Nodes
    BY <1>6
  <2> HIDE DEF pairs
  <2> QED
    BY <2>1
<1> HIDE DEF loads, stores, params
<1> QED
  BY <1>3, <1>7, <1>8, <1>9, <1>10

LEMMA DeduceType ==
    ASSUME NEW p \in Programs
    PROVE  Deduce(p) \in [SUBSET Facts -> SUBSET Facts] /\ Taken(p) \in SUBSET Facts
<1>1. IsProgram(p)
  BY ProgramsAssumption
<1>2. ASSUME NEW sol \in SUBSET Facts PROVE Consequences(p, sol) \in SUBSET Facts
  <2>1. \A n : PointedBy(sol, n) \subseteq Objs
    BY DEF PointedBy, Facts
  <2>2. \A c \in Copies(p, sol) : \A o \in PointedBy(sol, c[1]) : <<c[2], o>> \in Facts
    BY <2>1, CopiesJoinNodes DEF Facts
  <2>3. ASSUME NEW g \in p.gep, NEW o \in PointedBy(sol, g[1])
        PROVE  <<g[2], FieldOf(p, o, g[3])>> \in Facts
    <3>1. g[2] \in Nodes /\ g[3] \in Offsets /\ o \in Objs
      BY <1>1, <2>1 DEF IsProgram, Nodes
    <3> QED
      BY <3>1, FieldOfIsObject DEF Facts
  <2> QED
    BY <2>2, <2>3 DEF Consequences
<1>3. Taken(p) \in SUBSET Facts
  BY <1>1 DEF IsProgram, Taken, Facts, Nodes, Objs
<1> QED
  BY <1>2, <1>3 DEF Deduce

Solves(p, sol) ==
    /\ sol \in SUBSET Facts
    /\ Taken(p) \subseteq sol
    /\ Consequences(p, sol) = sol

LEMMA LeastSolves ==
    ASSUME NEW p \in Programs
    PROVE  Solves(p, SolutionOf[p])
<1> DEFINE D    == SUBSET Facts
           step == Deduce(p)
           rank == [sol \in D |-> sol]
           I    == {sol \in D : Taken(p) \subseteq sol}
<1>1. step \in [D -> D] /\ Taken(p) \in I
  BY DeduceType
<1>2. IsFiniteSet(Facts)
  <2>1. IsFiniteSet(Nodes)
    BY ObjectsAssumption
  <2>2. IsFiniteSet(Objs)
    BY <2>1, FS_Subset DEF Nodes
  <2> QED
    BY <2>1, <2>2, FS_Product DEF Facts
<1>3. \A sol \in D : step[sol] = Consequences(p, sol) /\ sol \subseteq step[sol]
  BY DEF Deduce, Consequences
<1>4. rank \in [D -> SUBSET Facts] /\ Grows(step, rank, D)
  BY <1>1, <1>3 DEF Grows
<1>5. I \in SUBSET D /\ Stays(step, I)
  BY <1>1, <1>3 DEF Stays
<1>6. SolutionOf[p] = Limit(step, Taken(p))
  BY DEF SolutionOf, LeastSolution, Deduce, Taken, Facts
<1> HIDE DEF D, step, rank, I
<1>7. Limit(step, Taken(p)) \in I /\ step[Limit(step, Taken(p))] = Limit(step, Taken(p))
  BY <1>1, <1>2, <1>4, <1>5, LimitFixed
<1> QED
  BY <1>3, <1>6, <1>7 DEF I, D, Solves

\* What n may point to in the least solution of the program analysed.
May(n) == PointedBy(SolutionOf[prog], n)

LEMMA MayIs ==
    ASSUME TypeOK, NEW n, NEW o
    PROVE  o \in May(n) <=> <<n, o>> \in SolutionOf[prog]
<1>1. SolutionOf[prog] \subseteq Nodes \X Objs
  BY LeastSolves DEF TypeOK, Solves, Facts
<1> QED
  BY <1>1 DEF May, PointedBy

LEMMA MayCopies ==
    ASSUME TypeOK, NEW e \in Copies(prog, SolutionOf[prog])
    PROVE  May(e[1]) \subseteq May(e[2])
<1>1. ASSUME NEW o \in May(e[1]) PROVE <<e[2], o>> \in SolutionOf[prog]
  <2>1. <<e[2], o>> \in Consequences(prog, SolutionOf[prog])
    BY <1>1 DEF Consequences, May
  <2> QED
    BY <2>1, LeastSolves DEF TypeOK, Solves
<1> QED
  BY <1>1, MayIs

LEMMA MayGep ==
    ASSUME TypeOK, NEW g \in prog.gep, NEW o \in May(g[1])
    PROVE  FieldOf(prog, o, g[3]) \in May(g[2])
<1>1. <<g[2], FieldOf(prog, o, g[3])>> \in Consequences(prog, SolutionOf[prog])
  BY DEF Consequences, May
<1>2. <<g[2], FieldOf(prog, o, g[3])>> \in SolutionOf[prog]
  BY <1>1, LeastSolves DEF TypeOK, Solves
<1> QED
  BY <1>2, MayIs

LEMMA MayLoad ==
    ASSUME TypeOK, NEW e \in prog.load, NEW o \in May(e[1]) \ Constants
    PROVE  May(o) \subseteq May(e[2])
<1>1. <<o, e[2]>> \in Copies(prog, SolutionOf[prog])
  BY DEF Copies, May
<1> QED
  BY <1>1, MayCopies

LEMMA MayStore ==
    ASSUME TypeOK, NEW e \in prog.store, NEW o \in May(e[2]) \ Constants
    PROVE  May(e[1]) \subseteq May(o)
<1>1. <<e[1], o>> \in Copies(prog, SolutionOf[prog])
  BY DEF Copies, May
<1> QED
  BY <1>1, MayCopies

LEMMA MayCall ==
    ASSUME TypeOK, NEW z \in prog.matchArgs, z[2] \in May(z[1][1])
    PROVE  /\ May(z[1][2]) \subseteq May(prog.funs[z[2]][1])
           /\ May(prog.funs[z[2]][2]) \subseteq May(z[1][3])
<1> DEFINE pairs(x) == {<<x[1][2], prog.funs[x[2]][1]>>, <<prog.funs[x[2]][2], x[1][3]>>}
           params == UNION {pairs(x) :
                        x \in {y \in prog.matchArgs : y[2] \in PointedBy(SolutionOf[prog], y[1][1])}}
<1>1. params \subseteq Copies(prog, SolutionOf[prog])
  BY DEF Copies
<1>2. pairs(z) \subseteq params
  <2> HIDE DEF pairs
  <2> QED
    BY DEF May
<1> HIDE DEF params
<1>3. /\ <<z[1][2], prog.funs[z[2]][1]>> \in Copies(prog, SolutionOf[prog])
      /\ <<prog.funs[z[2]][2], z[1][3]>> \in Copies(prog, SolutionOf[prog])
  BY <1>1, <1>2
<1> QED
  BY <1>3, MayCopies

-----------------------------------------------------------------------------
(***************************************************************************)
(* The invariant.  As long as nothing was given up, edges are images of    *)
(* statements, the nodes of a cycle may point to the same objects in the   *)
(* least solution, and each points-to set and copy edge is within it.      *)
(***************************************************************************)
Origins ==
    /\ \A e \in gepE : \E g \in prog.gep : e = <<rep[g[1]], rep[g[2]], g[3]>>
    /\ \A e \in loadE : \E l \in prog.load : e = <<rep[l[1]], rep[l[2]]>>
    /\ \A e \in storeE : \E s \in prog.store : e = <<rep[s[1]], rep[s[2]]>>

\* The detection of cycles sees all edges; only nodes it sees were merged.
InGraph ==
    /\ \A n \in Nodes : rep[n] = n \/ rep[n] \in GraphNodes
    /\ \A e \in copyE \cup todo : e[1] \in GraphNodes /\ e[2] \in GraphNodes
    /\ \A n \in Nodes : \A o \in pts[n] : o \in GraphNodes /\ BaseOf[o] \in GraphNodes

Within ==
    /\ \A n \in Nodes : May(rep[n]) = May(n)
    /\ \A n \in Nodes : pts[n] \subseteq May(n)
    /\ \A e \in copyE \cup todo : May(e[1]) \subseteq May(e[2])

Held    == toCollapse = {} /\ Origins /\ InGraph /\ Within
PreciseInv == IndInv /\ (Undisturbed => Held)

\* The nodes of the graph are nodes, and stay in it.
LEMMA GraphNodesAre ==
    ASSUME TypeOK
    PROVE  /\ GraphNodes \subseteq Nodes
           /\ fields \subseteq GraphNodes
           /\ \A e \in prog.addr \cup prog.copy \cup prog.load \cup prog.store :
                 e[1] \in GraphNodes /\ e[2] \in GraphNodes
           /\ \A e \in prog.gep : e[1] \in GraphNodes /\ e[2] \in GraphNodes
           /\ \A c \in prog.calls : c[2] \in GraphNodes /\ c[3] \in GraphNodes
           /\ \A f \in DOMAIN prog.funs :
                 prog.funs[f][1] \in GraphNodes /\ prog.funs[f][2] \in GraphNodes
<1>1. IsProgram(prog) /\ fields \subseteq Nodes
  BY ProgramsAssumption DEF TypeOK, Nodes, Objs
<1>2. 1 \in 1 .. 2 /\ 2 \in 1 .. 2 /\ 2 \in 1 .. 3 /\ 3 \in 1 .. 3
  OBVIOUS
<1> DEFINE two   == prog.addr \cup prog.copy \cup prog.load \cup prog.store
           ofTwo == {e[i] : e \in two, i \in 1 .. 2}
           ofGep == {e[i] : e \in prog.gep, i \in 1 .. 2}
           ofCall == {c[i] : c \in prog.calls, i \in 1 .. 3}
           ofFun == {prog.funs[f][i] : f \in DOMAIN prog.funs, i \in 1 .. 2}
<1>3. GraphNodes = fields \cup ofTwo \cup ofGep \cup ofCall \cup ofFun
  BY DEF GraphNodes
<1>4. \A i \in 1 .. 2 : i = 1 \/ i = 2
  OBVIOUS
<1>5. \A i \in 1 .. 3 : i = 1 \/ i = 2 \/ i = 3
  OBVIOUS
<1>6. ofTwo \subseteq Nodes
  <2>1. \A e \in two : e[1] \in Nodes /\ e[2] \in Nodes
    BY <1>1 DEF IsProgram, Nodes, Objs
  <2> HIDE DEF two
  <2> QED
    BY <2>1, <1>4
<1>7. ofGep \subseteq Nodes
  <2>1. \A e \in prog.gep : e[1] \in Nodes /\ e[2] \in Nodes
    BY <1>1 DEF IsProgram, Nodes
  <2> QED
    BY <2>1, <1>4
<1>8. ofCall \subseteq Nodes
  <2>1. \A c \in prog.calls : c[1] \in Nodes /\ c[2] \in Nodes /\ c[3] \in Nodes
    BY <1>1 DEF IsProgram, Nodes
  <2> QED
    BY <2>1, <1>5
<1>9. ofFun \subseteq Nodes
  <2>1. \A f \in DOMAIN prog.funs : prog.funs[f][1] \in Nodes /\ prog.funs[f][2] \in Nodes
    BY <1>1 DEF IsProgram, Nodes
  <2> QED
    BY <2>1, <1>4
<1>10. \A e \in two : e[1] \in ofTwo /\ e[2] \in ofTwo
  BY <1>2
<1>11. \A e \in prog.gep : e[1] \in ofGep /\ e[2] \in ofGep
  BY <1>2
<1>12. \A c \in prog.calls : c[2] \in ofCall /\ c[3] \in ofCall
  BY <1>2
<1>13. \A f \in DOMAIN prog.funs : prog.funs[f][1] \in ofFun /\ prog.funs[f][2] \in ofFun
  BY <1>2
<1> HIDE DEF ofTwo, ofGep, ofCall, ofFun
<1> QED
  BY <1>1, <1>3, <1>6, <1>7, <1>8, <1>9, <1>10, <1>11, <1>12, <1>13

LEMMA InitHeld ==
    ASSUME Init
    PROVE  PreciseInv
<1>1. IndInv /\ TypeOK
  BY InitOK DEF IndInv
<1>2. IsProgram(prog)
  BY <1>1, ProgramsAssumption DEF TypeOK
<1>3. \A n \in Nodes : rep[n] = n
  BY DEF Init
<1>4. Origins
  <2>1. \A e \in gepE : e \in prog.gep /\ e = <<e[1], e[2], e[3]>> /\ e[1] \in Nodes /\ e[2] \in Nodes
    BY <1>2 DEF Init, IsProgram, Nodes
  <2>2. \A e \in loadE : e \in prog.load /\ e = <<e[1], e[2]>> /\ e[1] \in Nodes /\ e[2] \in Nodes
    BY <1>2 DEF Init, IsProgram, Nodes
  <2>3. \A e \in storeE : e \in prog.store /\ e = <<e[1], e[2]>> /\ e[1] \in Nodes /\ e[2] \in Nodes
    BY <1>2 DEF Init, IsProgram, Nodes
  <2>4. \A e \in gepE : e = <<rep[e[1]], rep[e[2]], e[3]>>
    BY <1>3, <2>1
  <2>5. \A e \in loadE : e = <<rep[e[1]], rep[e[2]]>>
    BY <1>3, <2>2
  <2>6. \A e \in storeE : e = <<rep[e[1]], rep[e[2]]>>
    BY <1>3, <2>3
  <2> QED
    BY <2>1, <2>2, <2>3, <2>4, <2>5, <2>6 DEF Origins
<1>5. \A n \in Nodes : \A o \in pts[n] :
         o \in BaseObjs /\ \E e \in prog.addr : e[1] = o /\ e[2] = n
  BY DEF Init
<1>6. copyE \subseteq prog.copy /\ todo = {}
  BY DEF Init
<1>7. InGraph
  <2>1. \A n \in Nodes : rep[n] = n \/ rep[n] \in GraphNodes
    BY <1>3
  <2>2. \A e \in copyE \cup todo : e[1] \in GraphNodes /\ e[2] \in GraphNodes
    BY <1>1, <1>6, GraphNodesAre
  <2>3. ASSUME NEW n \in Nodes, NEW o \in pts[n]
        PROVE  o \in GraphNodes /\ BaseOf[o] \in GraphNodes
    <3>1. o \in GraphNodes
      BY <1>1, <1>5, GraphNodesAre
    <3> QED
      BY <1>5, <3>1, ObjectsAssumption
  <2> QED
    BY <2>1, <2>2, <2>3 DEF InGraph
<1>8. Within
  <2>1. \A n \in Nodes : May(rep[n]) = May(n)
    BY <1>3
  <2>2. ASSUME NEW n \in Nodes, NEW o \in pts[n] PROVE o \in May(n)
    <3>1. <<n, o>> \in Taken(prog)
      BY <1>5 DEF Taken
    <3> QED
      BY <1>1, <3>1, LeastSolves, MayIs DEF TypeOK, Solves
  <2>3. ASSUME NEW e \in copyE \cup todo PROVE May(e[1]) \subseteq May(e[2])
    <3>1. e \in Copies(prog, SolutionOf[prog])
      BY <1>6 DEF Copies
    <3> QED
      BY <1>1, <3>1, MayCopies
  <2> QED
    BY <2>1, <2>2, <2>3 DEF Within
<1> QED
  BY <1>1, <1>4, <1>7, <1>8 DEF PreciseInv, Held, Init

\* The objects named by a gep are those of the reference while no object is given up.
LEMMA SameField ==
    ASSUME Undisturbed, NEW o, NEW k
    PROVE  GepTarget(o, k) = FieldOf(prog, o, k)
BY DEF Undisturbed, GepTarget, FieldOf

-----------------------------------------------------------------------------
\* Merging nodes that may point to the same objects.
LEMMA MergeHeld ==
    ASSUME IndInv, Held, NEW m, MergeMap(m), MergeNodes(m, pts),
           \A n \in Nodes : May(m[n]) = May(n),
           \A n \in Nodes : m[n] = n \/ m[n] \in GraphNodes,
           UNCHANGED <<prog, fields>>, todo' = {}, toCollapse' = {}
    PROVE  Held'
<1>1. TypeOK /\ IsProgram(prog)
  BY ProgramsAssumption DEF IndInv, TypeOK
<1>2. GraphNodes' = GraphNodes /\ GraphNodes \subseteq Nodes
  BY <1>1, GraphNodesAre DEF GraphNodes
<1>3. \A n : May(n)' = May(n)
  BY DEF May
<1>4. \A n \in Nodes : rep'[n] = m[rep[n]] /\ rep[n] \in Nodes
  BY <1>1 DEF MergeNodes, MergedPts, MergedPropa, TypeOK
<1>5. \A n \in Nodes : May(rep'[n]) = May(n)
  BY <1>4 DEF Held, Within
<1>6. /\ copyE' = {MoveEdge(m, e) : e \in {f \in copyE : m[f[1]] # m[f[2]]}}
      /\ loadE' = {MoveEdge(m, e) : e \in loadE}
      /\ storeE' = {MoveEdge(m, e) : e \in storeE}
      /\ gepE' \subseteq {MoveGep(m, e) : e \in gepE}
      /\ pts' = MergedPts(m, pts)
  BY DEF MergeNodes, MergedPts, MergedPropa
<1>7. ASSUME NEW x \in copyE'
      PROVE  /\ x[1] \in GraphNodes /\ x[2] \in GraphNodes
             /\ May(x[1]) \subseteq May(x[2])
  <2>1. PICK e \in copyE : x = MoveEdge(m, e)
    BY <1>6
  <2>2. x[1] = m[e[1]] /\ x[2] = m[e[2]]
    BY <2>1 DEF MoveEdge
  <2>3. e[1] \in GraphNodes /\ e[2] \in GraphNodes /\ May(e[1]) \subseteq May(e[2])
    BY DEF Held, InGraph, Within
  <2> QED
    BY <1>2, <2>2, <2>3
<1>8. ASSUME NEW n \in Nodes, NEW o \in pts'[n]
      PROVE  o \in May(n) /\ o \in GraphNodes /\ BaseOf[o] \in GraphNodes
  <2>1. PICK y \in Nodes : o \in pts[y] /\ (y = n \/ m[y] = n)
    BY <1>6 DEF MergedPts, Reps
  <2>2. o \in May(y) /\ May(y) = May(n)
    BY <2>1 DEF Held, Within
  <2> QED
    BY <2>1, <2>2 DEF Held, InGraph
<1>9. ASSUME NEW x \in loadE' PROVE \E l \in prog.load : x = <<rep'[l[1]], rep'[l[2]]>>
  <2>1. PICK e \in loadE : x = MoveEdge(m, e)
    BY <1>6
  <2>2. PICK l \in prog.load : e = <<rep[l[1]], rep[l[2]]>>
    BY DEF Held, Origins
  <2>3. l[1] \in Nodes /\ l[2] \in Nodes
    BY <1>1 DEF IsProgram, Nodes
  <2> QED
    BY <1>4, <2>1, <2>2, <2>3 DEF MoveEdge
<1>10. ASSUME NEW x \in storeE' PROVE \E s \in prog.store : x = <<rep'[s[1]], rep'[s[2]]>>
  <2>1. PICK e \in storeE : x = MoveEdge(m, e)
    BY <1>6
  <2>2. PICK s \in prog.store : e = <<rep[s[1]], rep[s[2]]>>
    BY DEF Held, Origins
  <2>3. s[1] \in Nodes /\ s[2] \in Nodes
    BY <1>1 DEF IsProgram, Nodes
  <2> QED
    BY <1>4, <2>1, <2>2, <2>3 DEF MoveEdge
<1>11. ASSUME NEW x \in gepE' PROVE \E g \in prog.gep : x = <<rep'[g[1]], rep'[g[2]], g[3]>>
  <2>1. PICK e \in gepE : x = MoveGep(m, e)
    BY <1>6
  <2>2. PICK g \in prog.gep : e = <<rep[g[1]], rep[g[2]], g[3]>>
    BY DEF Held, Origins
  <2>3. g[1] \in Nodes /\ g[2] \in Nodes
    BY <1>1 DEF IsProgram, Nodes
  <2> QED
    BY <1>4, <2>1, <2>2, <2>3 DEF MoveGep
<1>12. Origins'
  BY <1>9, <1>10, <1>11 DEF Origins
<1>13. InGraph'
  <2>1. \A n \in Nodes : rep'[n] = n \/ rep'[n] \in GraphNodes
    BY <1>2, <1>4 DEF Held, InGraph
  <2> QED
    BY <1>2, <1>7, <1>8, <2>1 DEF InGraph
<1>14. Within'
  BY <1>3, <1>5, <1>7, <1>8 DEF Within
<1> QED
  BY <1>12, <1>13, <1>14 DEF Held

\* Every direct edge joins representatives in the graph.
LEMMA DirectEdgesInGraph ==
    ASSUME IndInv, Held
    PROVE  /\ IsFiniteSet(Reps \cap GraphNodes)
           /\ DirectEdges \in SUBSET ((Reps \cap GraphNodes) \X (Reps \cap GraphNodes))
<1>1. IsFiniteSet(Reps \cap GraphNodes)
  <2>1. IsFiniteSet(Nodes) /\ Reps \cap GraphNodes \subseteq Nodes
    BY ObjectsAssumption DEF Reps
  <2> QED
    BY <2>1, FS_Subset
<1>2. \A e \in copyE : e = <<e[1], e[2]>> /\ e[1] \in Reps \cap GraphNodes /\ e[2] \in Reps \cap GraphNodes
  BY DEF IndInv, TypeOK, RepConsistent, Held, InGraph
<1>3. ASSUME NEW e \in gepE
      PROVE  e[1] \in Reps \cap GraphNodes /\ e[2] \in Reps \cap GraphNodes
  <2>1. PICK g \in prog.gep : e = <<rep[g[1]], rep[g[2]], g[3]>>
    BY DEF Held, Origins
  <2>2. g[1] \in GraphNodes /\ g[2] \in GraphNodes /\ GraphNodes \subseteq Nodes
    BY GraphNodesAre DEF IndInv
  <2>3. e[1] \in Reps /\ e[2] \in Reps
    BY DEF IndInv, RepConsistent
  <2> QED
    BY <2>1, <2>2, <2>3 DEF Held, InGraph
<1> QED
  BY <1>1, <1>2, <1>3 DEF DirectEdges

\* Merging never takes back a disturbance.
LEMMA MergeDisturbs ==
    ASSUME TypeOK, NEW m, NEW p, MergeNodes(m, p), prog' = prog, insens \subseteq insens',
           Undisturbed'
    PROVE  Undisturbed
<1>1. pwc = {}
  <2> SUFFICES ASSUME NEW x \in pwc PROVE FALSE
    OBVIOUS
  <2>1. m[x] \in pwc'
    BY MergedPwc
  <2> QED
    BY <2>1 DEF Undisturbed
<1>2. insens = prog.insensitive
  BY DEF Undisturbed, TypeOK
<1>3. \A n \in Nodes : rep'[n] = m[rep[n]]
  BY DEF MergeNodes, MergedPts, MergedPropa
<1>4. \A e \in prog.gep : e[1] \in Nodes /\ e[2] \in Nodes
  BY ProgramsAssumption DEF TypeOK, IsProgram, Nodes
<1> QED
  BY <1>1, <1>2, <1>3, <1>4 DEF Undisturbed

LEMMA SccDetectHeld ==
    ASSUME PreciseInv, SccDetect, Undisturbed'
    PROVE  Held'
<1> DEFINE N    == Reps \cap GraphNodes
           same == SameSCC(DirectEdges, N)
<1>1. IndInv /\ TypeOK /\ IsProgram(prog) /\ Reps \subseteq Nodes
  BY ProgramsAssumption DEF PreciseInv, IndInv, TypeOK, Reps
<1>2. PICK m : /\ MergeMap(m) /\ MergeNodes(m, pts)
               /\ \A n \in Nodes : m[n] = n \/ (m[n] \in N /\ <<n, m[n]>> \in same)
               /\ DirectEdges \in SUBSET (N \X N) => \A a, b : <<a, b>> \in same => m[a] = m[b]
  BY <1>1, SccMap
<1>3. UNCHANGED <<prog, insens, fields, worklist, cur, toCollapse, todo, calls, reanalyze>>
      /\ pc' = "wave" /\ pc = "scc"
  BY DEF SccDetect
<1>4. Undisturbed
  BY <1>1, <1>2, <1>3, MergeDisturbs
<1>5. Held
  BY <1>4 DEF PreciseInv
<1>6. IsFiniteSet(N) /\ DirectEdges \in SUBSET (N \X N)
  BY <1>1, <1>5, DirectEdgesInGraph
<1> HIDE DEF N, same
\* No gep edge is in a cycle: it would be one of offset 0, or go under in one, or have
\* flagged a PWC.
<1>12. ASSUME NEW g \in gepE, m[g[1]] = m[g[2]] PROVE g[3] # 0
  <2>1. PICK s \in prog.gep : g = <<rep[s[1]], rep[s[2]], s[3]>>
    BY <1>5 DEF Held, Origins
  <2>2. s[1] \in Nodes /\ s[2] \in Nodes
    BY <1>1 DEF IsProgram, Nodes
  <2>3. rep'[s[1]] = rep'[s[2]]
    BY <1>2, <1>12, <2>1, <2>2 DEF MergeNodes
  <2> QED
    BY <1>3, <2>1, <2>3 DEF Undisturbed
<1> DEFINE f == [n \in Nodes |-> May(n)]
<1>7. ASSUME NEW e \in DirectEdges, e \in same
      PROVE  f[e[1]] \subseteq f[e[2]]
  <2>1. e = <<e[1], e[2]>> /\ e[1] \in Nodes /\ e[2] \in Nodes
    BY <1>1, <1>6 DEF N
  <2>2. CASE e \in copyE
    BY <1>5, <2>1, <2>2 DEF Held, Within
  <2>3. CASE e[1] = e[2]
    BY <2>1, <2>3
  <2>4. CASE e \notin copyE /\ e[1] # e[2]
    <3>1. PICK g \in gepE : e = <<g[1], g[2]>>
      BY <2>4 DEF DirectEdges
    <3>2. m[g[1]] = m[g[2]] /\ g[1] # g[2]
      BY <1>2, <1>6, <1>7, <2>4, <3>1
    <3>3. g \in Critical(m)
      BY <1>12, <3>2 DEF Critical, Internal, Unmoved
    <3>4. m[g[1]] \notin pwc'
      BY DEF Undisturbed
    <3>5. PICK z \in gepE : z[1] = g[1] /\ m[z[2]] = m[g[1]] /\ z[3] = 0
      BY <1>2, <3>3, <3>4, MergedPwc DEF MayGoUnder
    <3> QED
      BY <1>12, <3>5
  <2> QED
    BY <2>2, <2>3, <2>4
<1>8. ASSUME NEW a \in Nodes, NEW b \in Nodes, <<a, b>> \in same
      PROVE  May(a) = May(b)
  <2>1. f[a] = f[b]
    <3> HIDE DEF f
    <3> QED
      BY <1>6, <1>7, <1>8, AlongCycle DEF same
  <2> QED
    BY <2>1
<1>9. \A n \in Nodes : May(m[n]) = May(n)
  BY <1>1, <1>2, <1>8 DEF N
<1>10. \A n \in Nodes : m[n] = n \/ m[n] \in GraphNodes
  BY <1>2 DEF N
<1>11. todo' = {} /\ toCollapse' = {}
  BY <1>1, <1>3, <1>5 DEF IndInv, RepConsistent, Held
<1> QED
  BY <1>1, <1>2, <1>3, <1>5, <1>9, <1>10, <1>11, MergeHeld

-----------------------------------------------------------------------------
\* What a step that leaves nodes and points-to sets alone preserves, if it adds no
\* edge that the least solution does not have.
LEMMA EdgesHeld ==
    ASSUME Held, UNCHANGED <<prog, rep, pts, gepE, loadE, storeE, fields>>, toCollapse' = {},
           \A e \in copyE' \cup todo' : /\ e[1] \in GraphNodes /\ e[2] \in GraphNodes
                                        /\ May(e[1]) \subseteq May(e[2])
    PROVE  Held'
<1>1. GraphNodes' = GraphNodes
  BY DEF GraphNodes
<1>2. \A n : May(n)' = May(n)
  BY DEF May
<1>3. Origins'
  BY DEF Held, Origins
<1>4. InGraph'
  BY <1>1 DEF Held, InGraph
<1>5. Within'
  BY <1>2 DEF Held, Within
<1> QED
  BY <1>3, <1>4, <1>5 DEF Held

LEMMA PopNodeHeld ==
    ASSUME PreciseInv, PopNode, Undisturbed'
    PROVE  Held'
<1>1. UNCHANGED <<prog, rep, pts, copyE, gepE, loadE, storeE, pwc, insens, fields, todo>>
  BY DEF PopNode, graph
<1>2. Held
  BY <1>1 DEF Undisturbed, PreciseInv
<1>3. toCollapse' = {}
  BY <1>1 DEF PopNode, Undisturbed
<1> QED
  BY <1>1, <1>2, <1>3, EdgesHeld DEF Held, InGraph, Within

\* Steps of the loop that only change its own bookkeeping.
LEMMA LoopHeld ==
    ASSUME PreciseInv, EndWave \/ EndRound \/ UNCHANGED vars, Undisturbed'
    PROVE  Held'
<1>1. UNCHANGED <<prog, rep, pts, copyE, gepE, loadE, storeE, pwc, insens, fields, todo, toCollapse>>
  BY DEF EndWave, EndRound, vars, graph
<1>2. Held
  BY <1>1 DEF Undisturbed, PreciseInv
<1> QED
  BY <1>1, <1>2, EdgesHeld DEF Held, InGraph, Within

LEMMA AddEdgeHeld ==
    ASSUME PreciseInv, AddLoadStoreEdge \/ AddParamEdge, Undisturbed'
    PROVE  Held'
<1>1. /\ UNCHANGED <<prog, rep, pts, gepE, loadE, storeE, pwc, insens, fields, toCollapse>>
      /\ \E e \in todo : copyE' = copyE \cup {e} /\ todo' = todo \ {e}
  BY DEF AddLoadStoreEdge, AddParamEdge, AddCopyEdge
<1>2. Held
  BY <1>1 DEF Undisturbed, PreciseInv
<1>3. copyE' \cup todo' \subseteq copyE \cup todo
  BY <1>1
<1> QED
  BY <1>1, <1>2, <1>3, EdgesHeld DEF Held, InGraph, Within

\* Copy edges made from a load or a store are copies of the reference.
LEMMA LoadStoreWithin ==
    ASSUME IndInv, Held, NEW n \in Nodes, NEW e \in LoadCopies(n) \cup StoreCopies(n)
    PROVE  /\ e[1] \in GraphNodes /\ e[2] \in GraphNodes
           /\ May(e[1]) \subseteq May(e[2])
<1>1. TypeOK /\ IsProgram(prog) /\ Origins /\ InGraph /\ Within
  BY ProgramsAssumption DEF IndInv, TypeOK, Held
<1>2. \A o \in pts[n] : o \in Nodes /\ o \in May(n) /\ rep[o] \in GraphNodes
  BY <1>1 DEF TypeOK, Nodes, InGraph, Within
<1>3. CASE e \in LoadCopies(n)
  <2>1. PICK o \in pts[n] \ Constants, x \in loadE : x[1] = n /\ e = <<rep[o], x[2]>>
    BY <1>3 DEF LoadCopies
  <2>2. PICK l \in prog.load : x = <<rep[l[1]], rep[l[2]]>>
    BY <1>1 DEF Origins
  <2>3. l[1] \in Nodes /\ l[2] \in Nodes /\ rep[l[2]] \in GraphNodes
    BY <1>1, GraphNodesAre DEF IsProgram, Nodes, InGraph
  <2>4. May(n) = May(l[1]) /\ May(x[2]) = May(l[2]) /\ May(rep[o]) = May(o)
    BY <1>1, <1>2, <2>1, <2>2, <2>3 DEF Within
  <2>5. May(o) \subseteq May(l[2])
    BY <1>1, <1>2, <2>1, <2>4, MayLoad
  <2>6. e[1] = rep[o] /\ e[2] = x[2] /\ x[2] = rep[l[2]]
    BY <2>1, <2>2
  <2> QED
    BY <1>2, <2>1, <2>3, <2>4, <2>5, <2>6
<1>4. CASE e \in StoreCopies(n)
  <2>1. PICK o \in pts[n] \ Constants, x \in storeE : x[2] = n /\ e = <<x[1], rep[o]>>
    BY <1>4 DEF StoreCopies
  <2>2. PICK s \in prog.store : x = <<rep[s[1]], rep[s[2]]>>
    BY <1>1 DEF Origins
  <2>3. s[1] \in Nodes /\ s[2] \in Nodes /\ rep[s[1]] \in GraphNodes
    BY <1>1, GraphNodesAre DEF IsProgram, Nodes, InGraph
  <2>4. May(n) = May(s[2]) /\ May(x[1]) = May(s[1]) /\ May(rep[o]) = May(o)
    BY <1>1, <1>2, <2>1, <2>2, <2>3 DEF Within
  <2>5. May(s[1]) \subseteq May(o)
    BY <1>1, <1>2, <2>1, <2>4, MayStore
  <2>6. e[2] = rep[o] /\ e[1] = x[1] /\ x[1] = rep[s[1]]
    BY <2>1, <2>2
  <2> QED
    BY <1>2, <2>1, <2>3, <2>4, <2>5, <2>6
<1> QED
  BY <1>3, <1>4

LEMMA PostProcessNodeHeld ==
    ASSUME PreciseInv, PostProcessNode, Undisturbed'
    PROVE  Held'
<1>1. PICK n \in worklist : todo' = NewCopies(LoadCopies(rep[n]) \cup StoreCopies(rep[n]))
  BY DEF PostProcessNode
<1>2. UNCHANGED <<prog, rep, pts, copyE, gepE, loadE, storeE, pwc, insens, fields, toCollapse>>
  BY DEF PostProcessNode, graph
<1>3. Held /\ IndInv
  BY <1>2 DEF Undisturbed, PreciseInv
<1>4. rep[n] \in Nodes
  BY <1>3 DEF IndInv, TypeOK
<1>5. todo' \subseteq LoadCopies(rep[n]) \cup StoreCopies(rep[n])
  BY <1>1 DEF NewCopies
<1>6. \A e \in todo' : /\ e[1] \in GraphNodes /\ e[2] \in GraphNodes
                       /\ May(e[1]) \subseteq May(e[2])
  BY <1>3, <1>4, <1>5, LoadStoreWithin
<1>7. \A e \in copyE : /\ e[1] \in GraphNodes /\ e[2] \in GraphNodes
                       /\ May(e[1]) \subseteq May(e[2])
  BY <1>3 DEF Held, InGraph, Within
<1> QED
  BY <1>2, <1>3, <1>6, <1>7, EdgesHeld DEF Held

LEMMA UpdateCallGraphHeld ==
    ASSUME PreciseInv, UpdateCallGraph, Undisturbed'
    PROVE  Held'
<1>1. UNCHANGED <<prog, rep, pts, copyE, gepE, loadE, storeE, pwc, insens, fields, toCollapse>>
  BY DEF UpdateCallGraph, graph
<1>2. Held /\ IndInv /\ TypeOK /\ IsProgram(prog)
  BY <1>1, ProgramsAssumption DEF Undisturbed, PreciseInv, IndInv, TypeOK
<1>3. ASSUME NEW c \in prog.calls, NEW f \in DOMAIN prog.funs, f \in pts[rep[c[1]]],
             <<c, f>> \in prog.matchArgs, NEW e \in ParamCopies(c, f)
      PROVE  /\ e[1] \in GraphNodes /\ e[2] \in GraphNodes
             /\ May(e[1]) \subseteq May(e[2])
  <2> DEFINE formal == prog.funs[f][1]
             result == prog.funs[f][2]
  <2>1. /\ c[1] \in Nodes /\ c[2] \in Nodes /\ c[3] \in Nodes
        /\ formal \in Nodes /\ result \in Nodes
    BY <1>2 DEF IsProgram, Nodes
  <2>2. f \in May(c[1])
    <3>1. rep[c[1]] \in Nodes
      BY <1>2, <2>1 DEF TypeOK
    <3>2. pts[rep[c[1]]] \subseteq May(rep[c[1]]) /\ May(rep[c[1]]) = May(c[1])
      BY <1>2, <2>1, <3>1 DEF Held, Within
    <3> QED
      BY <1>3, <3>2
  <2>3. May(c[2]) \subseteq May(formal) /\ May(result) \subseteq May(c[3])
    <3>1. PICK z \in prog.matchArgs : z = <<c, f>>
      BY <1>3
    <3>2. z[1] = c /\ z[2] = f
      BY <3>1
    <3> QED
      BY <1>2, <2>2, <3>2, MayCall
  <2>4. /\ May(rep[c[2]]) = May(c[2]) /\ May(rep[c[3]]) = May(c[3])
        /\ May(rep[formal]) = May(formal) /\ May(rep[result]) = May(result)
    BY <1>2, <2>1 DEF Held, Within
  <2>5. /\ rep[c[2]] \in GraphNodes /\ rep[c[3]] \in GraphNodes
        /\ rep[formal] \in GraphNodes /\ rep[result] \in GraphNodes
    BY <1>2, GraphNodesAre DEF Held, InGraph
  <2>6. e = <<rep[c[2]], rep[formal]>> \/ e = <<rep[result], rep[c[3]]>>
    BY DEF ParamCopies
  <2> HIDE DEF formal, result
  <2>7. CASE e = <<rep[c[2]], rep[formal]>>
    BY <2>3, <2>4, <2>5, <2>7
  <2>8. CASE e = <<rep[result], rep[c[3]]>>
    BY <2>3, <2>4, <2>5, <2>8
  <2> QED
    BY <2>6, <2>7, <2>8
<1>4. \A x \in NewCalls : /\ x[1] \in prog.calls /\ x[2] \in DOMAIN prog.funs
                           /\ x[2] \in pts[rep[x[1][1]]] /\ <<x[1], x[2]>> \in prog.matchArgs
  <2>1. ASSUME NEW x \in NewCalls PROVE x = <<x[1], x[2]>>
    BY <1>2, NewCallsAre
  <2> QED
    BY <1>2, <2>1, NewCallsAre
<1>5. todo' \subseteq UNION {ParamCopies(x[1], x[2]) : x \in NewCalls}
  BY CallsAdded DEF NewCopies
<1>6. \A e \in todo' : /\ e[1] \in GraphNodes /\ e[2] \in GraphNodes
                       /\ May(e[1]) \subseteq May(e[2])
  BY <1>3, <1>4, <1>5
<1>7. \A e \in copyE : /\ e[1] \in GraphNodes /\ e[2] \in GraphNodes
                       /\ May(e[1]) \subseteq May(e[2])
  BY <1>2 DEF Held, InGraph, Within
<1> QED
  BY <1>1, <1>2, <1>6, <1>7, EdgesHeld DEF Held

\* Collapsing an object gives it up, so it does not happen while none is.
LEMMA CollapseFieldDisturbs ==
    ASSUME PreciseInv, CollapseField
    PROVE  ~Undisturbed'
<1>1. SUFFICES ASSUME Undisturbed' PROVE FALSE
  OBVIOUS
<1> DEFINE fs(b) == {f \in fields : BaseOf[f] = b}
           map(b)  == [n \in Nodes |-> IF n \in {rep[f] : f \in fs(b)} THEN rep[b] ELSE n]
           held(b) == {n \in Nodes : pts[n] \cap fs(b) # {}}
           now(b)  == [n \in Nodes |-> IF n \in held(b) THEN (pts[n] \ fs(b)) \cup {b} ELSE pts[n]]
<1>2. PICK b \in toCollapse : insens' = insens \cup {b} /\ MergeNodes(map(b), now(b))
  BY DEF CollapseField
<1>3. prog' = prog
  BY DEF CollapseField
<1> HIDE DEF map, now
<1>4. Undisturbed
  BY <1>1, <1>2, <1>3, MergeDisturbs DEF PreciseInv, IndInv
<1> QED
  BY <1>2, <1>4 DEF PreciseInv, Held

LEMMA ProcessNodeHeld ==
    ASSUME PreciseInv, ProcessNode, Undisturbed'
    PROVE  Held'
<1>1. UNCHANGED <<prog, rep, copyE, gepE, loadE, storeE, pwc, todo>> /\ toCollapse = {}
  BY DEF ProcessNode, graph
<1>2. insens \subseteq insens' /\ prog.insensitive \subseteq insens
  BY DEF ProcessNode, PreciseInv, IndInv, TypeOK
<1>3. Undisturbed /\ insens' = insens
  BY <1>1, <1>2 DEF Undisturbed
<1>4. Held /\ IndInv /\ TypeOK /\ IsProgram(prog)
  BY <1>3, ProgramsAssumption DEF PreciseInv, IndInv, TypeOK
<1>5. CASE rep[cur] # cur
  <2>1. UNCHANGED <<pts, propa, worklist, fields, insens, toCollapse>>
    BY <1>5 DEF ProcessNode
  <2> QED
    BY <1>1, <1>4, <2>1, EdgesHeld DEF Held, InGraph, Within
<1>6. CASE rep[cur] = cur
  <2>1. /\ pts' = [d \in Nodes |-> pts[d] \cup Into(d)]
        /\ fields' = fields \cup {f \in FieldObjs : \E d \in Nodes : f \in Into(d)}
        /\ insens' = insens \cup Blurred
        /\ toCollapse' = Blurred
    BY <1>6 DEF ProcessNode
  <2>2. toCollapse' = {}
    BY <1>3, <2>1 DEF Blurred, ToCollapse
  <2>3. GraphNodes \subseteq GraphNodes' /\ fields' \subseteq GraphNodes'
    BY <1>1, <2>1 DEF GraphNodes
  <2>4. cur \in Nodes /\ DiffPts \subseteq pts[cur]
    BY <1>4 DEF TypeOK, DiffPts
  <2>5. \A o \in DiffPts : /\ o \in Objs /\ o \in May(cur)
                           /\ o \in GraphNodes /\ BaseOf[o] \in GraphNodes
    BY <1>4, <2>4 DEF TypeOK, Held, InGraph, Within
\* What comes in along an edge is what the reference has at its end.
  <2>6. ASSUME NEW d \in Nodes, NEW o \in DiffPts, NEW e \in gepE, e[1] = cur, e[2] = d
        PROVE  /\ GepTarget(o, e[3]) \in May(d)
               /\ GepTarget(o, e[3]) \in Objs
               /\ BaseOf[GepTarget(o, e[3])] = BaseOf[o]
    <3>1. PICK g \in prog.gep : e = <<rep[g[1]], rep[g[2]], g[3]>>
      BY <1>4 DEF Held, Origins
    <3>2. g[1] \in Nodes /\ g[2] \in Nodes /\ g[3] \in Offsets /\ e[3] = g[3]
      BY <1>4, <3>1 DEF IsProgram, Nodes
    <3>3. May(cur) = May(g[1]) /\ May(d) = May(g[2])
      BY <1>4, <2>6, <3>1, <3>2 DEF Held, Within
    <3>4. FieldOf(prog, o, g[3]) \in May(g[2])
      BY <1>4, <2>5, <3>3, MayGep
    <3>5. GepTarget(o, e[3]) \in Objs /\ BaseOf[GepTarget(o, e[3])] = BaseOf[o]
      BY <1>4, <2>5, <3>2, GepTargetBase
    <3> QED
      BY <1>3, <3>2, <3>3, <3>4, <3>5, SameField
  <2>7. ASSUME NEW d \in Nodes, NEW x \in Into(d)
        PROVE  /\ x \in May(d) /\ x \in Objs
               /\ BaseOf[x] \in GraphNodes
               /\ x \in GraphNodes \/ x \in fields' \/ x = BaseOf[x]
    <3>1. CASE x \in DiffPts /\ <<cur, d>> \in copyE
      <4>1. May(cur) \subseteq May(d)
        BY <1>4, <3>1 DEF Held, Within
      <4> QED
        BY <2>5, <3>1, <4>1
    <3>2. CASE \E o \in DiffPts, e \in gepE : e[1] = cur /\ e[2] = d /\ x = GepTarget(o, e[3])
      <4>1. PICK o \in DiffPts, e \in gepE : e[1] = cur /\ e[2] = d /\ x = GepTarget(o, e[3])
        BY <3>2
      <4>2. x \in May(d) /\ x \in Objs /\ BaseOf[x] = BaseOf[o]
        BY <2>6, <4>1
      <4>3. x \in FieldObjs \/ (x \in BaseObjs /\ BaseOf[x] = x)
        BY <4>2, ObjectsAssumption DEF Objs
      <4>4. x \in FieldObjs => x \in fields'
        BY <2>1
      <4> QED
        BY <2>5, <4>2, <4>3, <4>4
    <3> QED
      BY <3>1, <3>2 DEF Into
  <2>8. \A n : May(n)' = May(n)
    BY <1>1 DEF May
  <2>9. Origins'
    BY <1>1, <1>4 DEF Held, Origins
  <2>10. InGraph'
    <3>1. \A n \in Nodes : rep[n] = n \/ rep[n] \in GraphNodes'
      BY <1>4, <2>3 DEF Held, InGraph
    <3>2. \A e \in copyE \cup todo : e[1] \in GraphNodes' /\ e[2] \in GraphNodes'
      BY <1>4, <2>3 DEF Held, InGraph
    <3>3. \A n \in Nodes : \A o \in pts[n] : o \in GraphNodes' /\ BaseOf[o] \in GraphNodes'
      BY <1>4, <2>3 DEF Held, InGraph
    <3>4. \A n \in Nodes : \A o \in Into(n) : o \in GraphNodes' /\ BaseOf[o] \in GraphNodes'
      BY <2>3, <2>7
    <3>5. \A n \in Nodes : \A o \in pts'[n] : o \in pts[n] \/ o \in Into(n)
      BY <2>1
    <3> QED
      BY <1>1, <3>1, <3>2, <3>3, <3>4, <3>5 DEF InGraph
  <2>11. Within'
    <3>1. \A n \in Nodes : pts'[n] \subseteq May(n)
      BY <1>4, <2>1, <2>7 DEF Held, Within
    <3> QED
      BY <1>1, <1>4, <2>8, <3>1 DEF Held, Within
  <2> QED
    BY <2>2, <2>9, <2>10, <2>11 DEF Held
<1> QED
  BY <1>5, <1>6

LEMMA NextHeld ==
    ASSUME PreciseInv, [Next]_vars
    PROVE  PreciseInv'
<1>1. IndInv'
  BY NextOK DEF PreciseInv
<1>2. ASSUME Undisturbed' PROVE Held'
  <2>1. CASE SccDetect
    BY <1>2, <2>1, SccDetectHeld
  <2>2. CASE PopNode
    BY <1>2, <2>2, PopNodeHeld
  <2>3. CASE ProcessNode
    BY <1>2, <2>3, ProcessNodeHeld
  <2>4. CASE CollapseField
    BY <1>2, <2>4, CollapseFieldDisturbs
  <2>5. CASE EndWave \/ EndRound \/ UNCHANGED vars
    BY <1>2, <2>5, LoopHeld
  <2>6. CASE PostProcessNode
    BY <1>2, <2>6, PostProcessNodeHeld
  <2>7. CASE AddLoadStoreEdge \/ AddParamEdge
    BY <1>2, <2>7, AddEdgeHeld
  <2>8. CASE UpdateCallGraph
    BY <1>2, <2>8, UpdateCallGraphHeld
  <2> QED
    BY <2>1, <2>2, <2>3, <2>4, <2>5, <2>6, <2>7, <2>8 DEF Next, Done
<1> QED
  BY <1>1, <1>2 DEF PreciseInv

\* While nothing is given up, every edge the solver makes (mergeSccCycle, handleLoad,
\* handleStore, connectCaller2CalleeParams) is one the least solution has as well.
THEOREM PreciseInvAlways == Spec => []PreciseInv
<1>1. Init => PreciseInv
  BY InitHeld
<1>2. PreciseInv /\ [Next]_vars => PreciseInv'
  BY NextHeld
<1> QED
  BY <1>1, <1>2, PTL DEF Spec

\* As long as no object was given up and no gep was merged away, wave propagation
\* with cycle elimination computes nothing beyond the least solution of the
\* constraints: whatever was merged, in whatever order nodes were visited, each
\* node's set is within that of every node it stands for (mergeSccCycle).
THEOREM PreciseAlways == Spec => []Precise
<1>1. ASSUME PreciseInv PROVE Precise
  <2> SUFFICES ASSUME Undisturbed, NEW n \in Nodes PROVE pts[rep[n]] \subseteq May(n)
    BY DEF Precise, May
  <2>1. rep[n] \in Nodes /\ Within
    BY <1>1 DEF PreciseInv, IndInv, TypeOK, Held
  <2>2. pts[rep[n]] \subseteq May(rep[n]) /\ May(rep[n]) = May(n)
    BY <2>1 DEF Within
  <2> QED
    BY <2>2
<1> QED
  BY <1>1, PreciseInvAlways, PTL
-----------------------------------------------------------------------------
(***************************************************************************)
(* Closure: when the solver stops, nothing is left to do.  The invariant   *)
(* says, for each thing there is to do, where it is remembered.            *)
(*                                                                         *)
(* Collapsing: a pointer to a field of an object that was given up is      *)
(* noticed by the pending collapse, which finds every field by a holder.   *)
(***************************************************************************)
Collapsing ==
    /\ \A n \in Nodes : \A o \in pts[n] \cap FieldObjs :
          o \in fields /\ (BaseOf[o] \in insens => BaseOf[o] \in toCollapse)
    /\ \A f \in fields : IF BaseOf[f] \in insens \ toCollapse THEN rep[f] = rep[BaseOf[f]]
                                                            ELSE \E n \in Nodes : f \in pts[n]

\* What a node has propagated has arrived along its gep edges as well: the field
\* itself, or, while the object is to be collapsed, some other part of it.
ArrivedAt(o, k, d) ==
    \/ Arrived(GepTarget(o, k), d)
    \/ BaseOf[o] \in toCollapse /\ \E x \in pts[d] : BaseOf[x] = BaseOf[o]

GepArrived ==
    \A e \in gepE : e[1] # e[2] /\ \A o \in propa[e[1]] : ArrivedAt(o, e[3], e[2])

\* The detection of cycles sees every node that has an edge or points to something.
Placed ==
    /\ \A n \in Nodes : rep[n] = n \/ rep[n] \in GraphNodes
    /\ \A e \in copyE \cup loadE \cup storeE \cup todo : e[1] \in GraphNodes /\ e[2] \in GraphNodes
    /\ \A e \in gepE : e[1] \in GraphNodes /\ e[2] \in GraphNodes
    /\ \A n \in Nodes : pts[n] # {} => n \in GraphNodes
    /\ \A n \in Nodes : \A o \in pts[n] : o \in GraphNodes /\ BaseOf[o] \in GraphNodes
    /\ \A f \in fields : BaseOf[f] \in GraphNodes

\* In a round that asks for no other one, whatever has something to propagate is
\* still on the stack, and so is every node it propagates to.
Visiting(n) == n \in stack \/ (pc = "node" /\ n = cur)

InWave ==
    /\ \A e \in copyE : <<e[1], e[2]>> \in order
    /\ \A e \in gepE : <<e[1], e[2]>> \in order
    /\ \A e \in order : Visiting(e[1]) => e[2] \in stack
    /\ \A n \in Reps : pts[n] \subseteq propa[n] \/ Visiting(n)

LastRound ==
    /\ pc \in {"wave", "node"} /\ ~reanalyze => InWave
    /\ pc \in {"post", "calls", "done"} /\ ~reanalyze => \A n \in Reps : pts[n] \subseteq propa[n]
    /\ pc \in {"calls", "done"} /\ ~reanalyze => todo = {} /\ worklist = {}
    /\ pc = "done" => ~reanalyze

\* A copy that is asked for is an edge, or about to become one.
Copied(e) == e[1] = e[2] \/ e \in copyE \/ e \in todo

CallsJoined ==
    /\ pc \in {"calls", "done"} => NewCalls = {} \/ Cardinality(calls) = IndirectCallLimit
    /\ \A x \in calls : \A e \in ParamCopies(x[1], x[2]) : Copied(e)

Unmerged(n) == \A x \in Nodes : rep[x] = n => x = n

LoadsSeen ==
    \A n \in Reps : Unmerged(n) => \/ n \in worklist
                                   \/ \A e \in LoadCopies(n) \cup StoreCopies(n) : Copied(e)

Closing ==
    /\ IndInv /\ StatementsKept /\ Collapsing /\ GepArrived
    /\ Placed /\ LastRound /\ CallsJoined /\ LoadsSeen

\* What a step that merges nothing preserves.
LEMMA StillCollapsing ==
    ASSUME Collapsing, UNCHANGED <<rep, pts, insens, fields>>,
           toCollapse \subseteq toCollapse', toCollapse' \cap insens \subseteq toCollapse
    PROVE  Collapsing'
BY DEF Collapsing

LEMMA StillArrived ==
    ASSUME TypeOK, GepArrived, UNCHANGED <<gepE, pts, insens>>, toCollapse \subseteq toCollapse',
           \A n \in Nodes : propa'[n] \subseteq propa[n]
    PROVE  GepArrived'
<1>1. \A o, k, d : ArrivedAt(o, k, d) => ArrivedAt(o, k, d)'
  BY DEF ArrivedAt, Arrived, GepTarget
<1>2. \A e \in gepE : e[1] \in Nodes
  BY DEF TypeOK
<1> QED
  BY <1>1, <1>2 DEF GepArrived

LEMMA StillPlaced ==
    ASSUME Placed, UNCHANGED <<prog, rep, pts, gepE, loadE, storeE, fields>>,
           \A e \in copyE' \cup todo' : e[1] \in GraphNodes /\ e[2] \in GraphNodes
    PROVE  Placed'
<1>1. GraphNodes' = GraphNodes
  BY DEF GraphNodes
<1> QED
  BY <1>1 DEF Placed

\* No copy that was asked for is dropped, and no new one is asked for.
LEMMA StillCopied ==
    ASSUME UNCHANGED <<prog, rep, pts, loadE, storeE>>,
           copyE \cup todo \subseteq copyE' \cup todo'
    PROVE  /\ \A e : Copied(e) => Copied(e)'
           /\ calls' = calls /\ CallsJoined /\ (pc' \in {"calls", "done"} => pc \in {"calls", "done"})
                 => CallsJoined'
           /\ worklist \subseteq worklist' /\ LoadsSeen => LoadsSeen'
<1>1. \A e : Copied(e) => Copied(e)'
  BY DEF Copied
<1>2. \A n : LoadCopies(n)' = LoadCopies(n) /\ StoreCopies(n)' = StoreCopies(n)
  BY DEF LoadCopies, StoreCopies
<1>3. \A c, f : ParamCopies(c, f)' = ParamCopies(c, f)
  BY DEF ParamCopies
<1>4. calls' = calls => NewCalls' = NewCalls
  BY DEF NewCalls
<1> QED
  BY <1>1, <1>2, <1>3, <1>4 DEF CallsJoined, LoadsSeen, Unmerged, Reps

-----------------------------------------------------------------------------
\* Statements are kept by every step.
LEMMA StillKept ==
    ASSUME TypeOK, StatementsKept, UNCHANGED <<prog, rep, loadE, storeE>>, copyE \subseteq copyE',
           \A n \in Nodes : pts[n] \subseteq pts'[n]
    PROVE  StatementsKept'
<1>1. \A e \in prog.addr : rep[e[2]] \in Nodes
  BY ProgramsAssumption DEF TypeOK, IsProgram, Nodes
<1> QED
  BY <1>1 DEF StatementsKept

LEMMA MergeStatementsKept ==
    ASSUME IndInv, StatementsKept, NEW m, NEW p, MergeMap(m), Covers(p), MergeNodes(m, p),
           prog' = prog
    PROVE  StatementsKept'
<1>1. IsProgram(prog) /\ TypeOK
  BY ProgramsAssumption DEF IndInv, TypeOK
<1>2. \A n \in Nodes : rep'[n] = m[rep[n]]
  BY DEF IndInv, TypeOK, MergeNodes, MergedPts, MergedPropa
<1>3. ASSUME NEW e \in prog.addr PROVE e[1] \in pts'[rep'[e[2]]]
  <2>1. e[1] \in BaseObjs /\ e[1] \notin FieldObjs /\ e[2] \in Nodes
    BY <1>1, ObjectsAssumption DEF IsProgram, Nodes
  <2>2. PointsToKept
    BY MergePointsToKept DEF IndInv
  <2> QED
    BY <2>1, <2>2 DEF StatementsKept, PointsToKept
<1>4. ASSUME NEW a \in Nodes, NEW b \in Nodes
      PROVE  MoveEdge(m, <<rep[a], rep[b]>>) = <<rep'[a], rep'[b]>>
  BY <1>2 DEF MoveEdge
<1>5. /\ \A e \in copyE : m[e[1]] # m[e[2]] => MoveEdge(m, e) \in copyE'
      /\ \A e \in loadE : MoveEdge(m, e) \in loadE'
      /\ \A e \in storeE : MoveEdge(m, e) \in storeE'
  BY DEF MergeNodes, MergedPts, MergedPropa
<1>6. ASSUME NEW e \in prog.copy
      PROVE  rep'[e[1]] = rep'[e[2]] \/ <<rep'[e[1]], rep'[e[2]]>> \in copyE'
  <2>1. e[1] \in Nodes /\ e[2] \in Nodes
    BY <1>1 DEF IsProgram, Nodes
  <2> DEFINE x == <<rep[e[1]], rep[e[2]]>>
  <2>2. rep[e[1]] = rep[e[2]] \/ (x \in copyE /\ x[1] = rep[e[1]] /\ x[2] = rep[e[2]])
    BY DEF StatementsKept
  <2>3. MoveEdge(m, x) = <<rep'[e[1]], rep'[e[2]]>>
    BY <1>4, <2>1
  <2> HIDE DEF x
  <2> QED
    BY <1>2, <1>5, <2>1, <2>2, <2>3
<1>7. /\ \A e \in prog.load : <<rep'[e[1]], rep'[e[2]]>> \in loadE'
      /\ \A e \in prog.store : <<rep'[e[1]], rep'[e[2]]>> \in storeE'
  <2>1. \A e \in prog.load \cup prog.store : e[1] \in Nodes /\ e[2] \in Nodes
    BY <1>1 DEF IsProgram, Nodes
  <2> QED
    BY <1>4, <1>5, <2>1 DEF StatementsKept
<1> QED
  BY <1>3, <1>6, <1>7 DEF StatementsKept

\* What a merge preserves, of the edges that were there and the copies asked for.
LEMMA MergedReps ==
    ASSUME TypeOK, RepConsistent, NEW m, NEW p, MergeMap(m), MergeNodes(m, p)
    PROVE  /\ \A n \in Nodes : rep[n] \in Reps /\ rep'[n] = m[rep[n]]
           /\ \A n \in Reps' : n \in Reps /\ m[n] = n
           /\ \A n \in Reps : m[n] \in Reps' /\ m[n] \in Reps
<1>1. \A n \in Nodes : rep[n] \in Reps /\ rep'[n] = m[rep[n]]
  BY DEF TypeOK, RepConsistent, MergeNodes, MergedPts, MergedPropa, Reps
<1>2. \A n \in Reps' : n \in Reps /\ m[n] = n
  BY <1>1 DEF MergeMap, Reps
<1>3. \A n \in Reps : m[n] \in Reps' /\ m[n] \in Reps
  BY <1>1 DEF MergeMap, Reps
<1> QED
  BY <1>1, <1>2, <1>3

LEMMA MergedSets ==
    ASSUME TypeOK, NEW m, NEW p, MergeMap(m), Covers(p), MergeNodes(m, p), NEW n \in Nodes
    PROVE  /\ \A o \in pts'[n] : \E y \in Nodes : o \in p[y] /\ (y = n \/ (y \in Reps /\ m[y] = n))
           /\ p[n] \subseteq pts'[n]
           /\ propa'[n] \subseteq propa[n]
           /\ \A y \in Reps : m[y] = n => propa'[n] \subseteq propa[y]
<1>1. /\ pts'[n] = p[n] \cup UNION {p[y] : y \in {z \in Reps : m[z] = n}}
      /\ propa'[n] = {o \in propa[n] : \A y \in Reps : m[y] = n => o \in propa[y]}
  BY DEF MergeNodes, MergedPts, MergedPropa
<1> QED
  BY <1>1 DEF Reps

LEMMA MergedCopies ==
    ASSUME TypeOK, NEW m, NEW p, MergeMap(m), MergeNodes(m, p), todo = {},
           NEW e \in Reps \X Reps, Copied(e)
    PROVE  Copied(<<m[e[1]], m[e[2]]>>)'
<1>1. CASE e[1] = e[2] \/ m[e[1]] = m[e[2]]
  BY <1>1 DEF Copied
<1>2. CASE e \in copyE /\ m[e[1]] # m[e[2]]
  <2>1. MoveEdge(m, e) \in copyE'
    BY <1>2 DEF MergeNodes, MergedPts, MergedPropa
  <2> QED
    BY <2>1 DEF MoveEdge, Copied
<1> QED
  BY <1>1, <1>2 DEF Copied

LEMMA MergedGeps ==
    ASSUME TypeOK, GepArrived, NEW m, NEW p, MergeMap(m), MergeNodes(m, p)
    PROVE  \A x \in gepE' : /\ x[1] # x[2]
                            /\ \E e \in gepE : x[1] = m[e[1]] /\ x[2] = m[e[2]] /\ x[3] = e[3]
<1> SUFFICES ASSUME NEW x \in gepE'
             PROVE  x[1] # x[2] /\ \E e \in gepE : x[1] = m[e[1]] /\ x[2] = m[e[2]] /\ x[3] = e[3]
  OBVIOUS
<1>1. gepE' \subseteq {MoveGep(m, e) : e \in gepE \ Internal(m)}
  BY DEF MergeNodes, MergedPts, MergedPropa
<1>2. PICK e \in gepE \ Internal(m) : x = MoveGep(m, e)
  BY <1>1
<1>3. x[1] = m[e[1]] /\ x[2] = m[e[2]] /\ x[3] = e[3]
  BY <1>2 DEF MoveGep
<1>4. m[e[1]] # m[e[2]] \/ (m[e[1]] = e[1] /\ m[e[2]] = e[2])
  BY DEF Internal, Unmoved
<1>5. e[1] # e[2]
  BY DEF GepArrived
<1> QED
  BY <1>3, <1>4, <1>5

LEMMA MergeGepArrived ==
    ASSUME IndInv, GepArrived, NEW m, NEW p, MergeMap(m), Covers(p), MergeNodes(m, p),
           \A o \in Objs, k \in Offsets, y \in Reps :
              ArrivedAt(o, k, y) => ArrivedAt(o, k, m[y])'
    PROVE  GepArrived'
<1> SUFFICES ASSUME NEW x \in gepE' PROVE x[1] # x[2] /\ \A o \in propa'[x[1]] : ArrivedAt(o, x[3], x[2])'
  BY DEF GepArrived
<1>1. PICK e \in gepE : x[1] = m[e[1]] /\ x[2] = m[e[2]] /\ x[3] = e[3] /\ x[1] # x[2]
  BY MergedGeps DEF IndInv
<1>2. e[1] \in Reps /\ e[2] \in Reps /\ e[3] \in Offsets /\ m[e[1]] \in Nodes
  BY DEF IndInv, TypeOK, RepConsistent, MergeMap, Reps
<1>3. propa'[x[1]] \subseteq propa[e[1]] /\ propa[e[1]] \subseteq Objs
  BY <1>1, <1>2, MergedSets DEF IndInv, TypeOK, Reps
<1>4. \A o \in propa'[x[1]] : ArrivedAt(o, e[3], e[2])
  BY <1>3 DEF GepArrived
<1>5. \A o \in propa'[x[1]] : ArrivedAt(o, e[3], m[e[2]])'
  BY <1>2, <1>3, <1>4
<1> QED
  BY <1>1, <1>5

LEMMA MergePlaced ==
    ASSUME IndInv, Placed, NEW m, NEW p, MergeMap(m), Covers(p), MergeNodes(m, p),
           \A n \in Nodes : m[n] = n \/ m[n] \in GraphNodes,
           \A n \in Nodes : p[n] # {} => n \in GraphNodes,
           \A n \in Nodes : \A o \in p[n] : o \in GraphNodes /\ BaseOf[o] \in GraphNodes,
           UNCHANGED <<prog, fields>>, todo' = {}
    PROVE  Placed'
<1>1. GraphNodes' = GraphNodes /\ GraphNodes \subseteq Nodes
  BY GraphNodesAre DEF GraphNodes, IndInv
<1>2. \A n \in GraphNodes : m[n] \in GraphNodes
  BY <1>1
<1>3. \A n \in Nodes : rep'[n] = n \/ rep'[n] \in GraphNodes
  BY <1>2, MergedReps DEF IndInv, Placed, Reps
<1>4. \A x \in copyE' \cup loadE' \cup storeE' : x[1] \in GraphNodes /\ x[2] \in GraphNodes
  BY <1>2, MergedEdges DEF IndInv, Placed
<1>5. \A x \in gepE' : x[1] \in GraphNodes /\ x[2] \in GraphNodes
  BY <1>2, MergedEdges DEF IndInv, Placed
<1>6. ASSUME NEW n \in Nodes, NEW o \in pts'[n]
      PROVE  n \in GraphNodes /\ o \in GraphNodes /\ BaseOf[o] \in GraphNodes
  <2>1. PICK y \in Nodes : o \in p[y] /\ (y = n \/ m[y] = n)
    BY MergedSets DEF IndInv
  <2>2. y \in GraphNodes
    BY <2>1
  <2> QED
    BY <1>2, <2>1, <2>2
<1> QED
  BY <1>1, <1>3, <1>4, <1>5, <1>6 DEF Placed

LEMMA MergeCallsJoined ==
    ASSUME IndInv, CallsJoined, NEW m, NEW p, MergeMap(m), MergeNodes(m, p),
           UNCHANGED <<prog, calls>>, todo = {}, pc' \notin {"calls", "done"}
    PROVE  CallsJoined'
<1> SUFFICES ASSUME NEW x \in calls, NEW e \in ParamCopies(x[1], x[2])' PROVE Copied(e)'
  BY DEF CallsJoined
<1>1. x[1] \in prog.calls /\ x[2] \in DOMAIN prog.funs
  BY DEF IndInv, TypeOK
<1> DEFINE c == x[1]  f == x[2]
           into == <<rep[c[2]], rep[prog.funs[f][1]]>>
           back == <<rep[prog.funs[f][2]], rep[c[3]]>>
<1>2. c[2] \in Nodes /\ c[3] \in Nodes /\ prog.funs[f][1] \in Nodes /\ prog.funs[f][2] \in Nodes
  BY <1>1, ProgramsAssumption DEF IndInv, TypeOK, IsProgram, Nodes
<1>3. /\ \A n \in Nodes : rep'[n] = m[rep[n]] /\ rep[n] \in Reps
  BY MergedReps DEF IndInv
<1>4. e = <<m[into[1]], m[into[2]]>> \/ e = <<m[back[1]], m[back[2]]>>
  BY <1>2, <1>3 DEF ParamCopies
<1>5. into \in Reps \X Reps /\ back \in Reps \X Reps
  BY <1>2, <1>3
<1>6. Copied(into) /\ Copied(back)
  BY DEF CallsJoined, ParamCopies
<1> HIDE DEF into, back
<1> QED
  BY <1>4, <1>5, <1>6, MergedCopies DEF IndInv

\* A node that nothing was merged into has the loads and stores it had.
LEMMA MergeLoadsSeen ==
    ASSUME IndInv, LoadsSeen, NEW m, NEW p, MergeMap(m), Covers(p), MergeNodes(m, p),
           todo = {}, worklist \subseteq worklist',
           \A n \in Reps : m[n] = n => p[n] = pts[n] \/ n \in worklist'
    PROVE  LoadsSeen'
<1> SUFFICES ASSUME NEW n \in Reps', Unmerged(n)', n \notin worklist',
                    NEW x \in LoadCopies(n)' \cup StoreCopies(n)'
             PROVE  Copied(x)'
  BY DEF LoadsSeen
<1>1. n \in Reps /\ m[n] = n /\ n \in Nodes
  BY MergedReps DEF IndInv, Reps
<1>2. /\ \A z \in Nodes : rep'[z] = m[rep[z]] /\ rep[z] \in Reps
      /\ \A r \in Reps : r \in Nodes /\ rep[r] = r
  BY MergedReps DEF IndInv, Reps
<1>3. \A r \in Reps : m[r] = n => r = n
  BY <1>2 DEF Unmerged
<1>4. Unmerged(n)
  BY <1>1, <1>2 DEF Unmerged
<1>5. pts'[n] = pts[n]
  <2>1. p[n] = pts[n]
    BY <1>1
  <2>2. \A o \in pts'[n] : o \in p[n]
    BY <1>1, <1>3, MergedSets DEF IndInv
  <2>3. p[n] \subseteq pts'[n]
    BY <1>1, MergedSets DEF IndInv
  <2> QED
    BY <2>1, <2>2, <2>3
<1>6. \A o \in pts[n] : rep'[o] = m[rep[o]] /\ rep[o] \in Reps
  BY <1>1, <1>2 DEF IndInv, TypeOK, Nodes
<1>7. \A e \in LoadCopies(n) \cup StoreCopies(n) : Copied(e)
  BY <1>1, <1>4 DEF LoadsSeen
<1>8. \A e \in loadE \cup storeE : e[1] \in Reps /\ e[2] \in Reps
  BY DEF IndInv, RepConsistent
<1>9. CASE x \in LoadCopies(n)'
  <2>1. PICK o \in pts[n] \ Constants, l \in loadE' : l[1] = n /\ x = <<m[rep[o]], l[2]>>
    BY <1>5, <1>6, <1>9 DEF LoadCopies
  <2>2. PICK e \in loadE : l[1] = m[e[1]] /\ l[2] = m[e[2]]
    BY MergedEdges DEF IndInv
  <2>3. e[1] = n
    BY <1>3, <1>8, <2>1, <2>2
  <2> DEFINE y == <<rep[o], e[2]>>
  <2>4. y \in LoadCopies(n) /\ y \in Reps \X Reps
    BY <1>6, <1>8, <2>3 DEF LoadCopies
  <2>5. x = <<m[y[1]], m[y[2]]>>
    BY <2>1, <2>2
  <2> HIDE DEF y
  <2> QED
    BY <1>7, <2>4, <2>5, MergedCopies DEF IndInv
<1>10. CASE x \in StoreCopies(n)'
  <2>1. PICK o \in pts[n] \ Constants, s \in storeE' : s[2] = n /\ x = <<s[1], m[rep[o]]>>
    BY <1>5, <1>6, <1>10 DEF StoreCopies
  <2>2. PICK e \in storeE : s[1] = m[e[1]] /\ s[2] = m[e[2]]
    BY MergedEdges DEF IndInv
  <2>3. e[2] = n
    BY <1>3, <1>8, <2>1, <2>2
  <2> DEFINE y == <<e[1], rep[o]>>
  <2>4. y \in StoreCopies(n) /\ y \in Reps \X Reps
    BY <1>6, <1>8, <2>3 DEF StoreCopies
  <2>5. x = <<m[y[1]], m[y[2]]>>
    BY <2>1, <2>2
  <2> HIDE DEF y
  <2> QED
    BY <1>7, <2>4, <2>5, MergedCopies DEF IndInv
<1> QED
  BY <1>9, <1>10

-----------------------------------------------------------------------------
LEMMA InitClosing ==
    ASSUME Init
    PROVE  Closing
<1>1. IndInv /\ TypeOK
  BY InitOK DEF IndInv
<1>2. IsProgram(prog)
  BY <1>1, ProgramsAssumption DEF TypeOK
<1>3. \A n \in Nodes : \A o \in pts[n] :
         o \in BaseObjs /\ o \notin FieldObjs /\ BaseOf[o] = o /\ <<o, n>> \in prog.addr
  BY ObjectsAssumption DEF Init
<1>4. Collapsing
  BY <1>3 DEF Init, Collapsing
<1>5. GepArrived
  <2>1. gepE \subseteq prog.gep /\ \A e \in gepE : e[1] \in Nodes
    BY <1>2 DEF Init, IsProgram, Nodes
  <2>2. \A n \in Nodes : propa[n] = {}
    BY DEF Init
  <2> QED
    BY <1>2, <2>1, <2>2 DEF GepArrived, IsProgram
<1>6. Placed
  <2>1. \A e \in copyE \cup loadE \cup storeE \cup todo : e[1] \in GraphNodes /\ e[2] \in GraphNodes
    BY <1>1, GraphNodesAre DEF Init
  <2>2. \A e \in gepE : e[1] \in GraphNodes /\ e[2] \in GraphNodes
    BY <1>1, GraphNodesAre DEF Init
  <2>3. ASSUME NEW n \in Nodes, NEW o \in pts[n]
        PROVE  n \in GraphNodes /\ o \in GraphNodes /\ BaseOf[o] \in GraphNodes
    <3>1. PICK e \in prog.addr : e[1] = o /\ e[2] = n
      BY <1>3
    <3> QED
      BY <1>1, <1>3, <3>1, GraphNodesAre
  <2>4. (\A n \in Nodes : rep[n] = n) /\ fields = {}
    BY DEF Init
  <2> QED
    BY <2>1, <2>2, <2>3, <2>4 DEF Placed
<1>7. LastRound /\ CallsJoined
  BY DEF Init, LastRound, CallsJoined
<1>8. LoadsSeen
  <2>1. \A n \in Nodes : n \in worklist \/ pts[n] = {}
    BY <1>3 DEF Init
  <2> QED
    BY <2>1 DEF LoadsSeen, LoadCopies, StoreCopies, Reps
<1>9. StatementsKept
  <2>1. /\ \A e \in prog.addr : e[1] \in BaseObjs /\ <<e[1], e[2]>> = e /\ e[2] \in Nodes
        /\ \A e \in prog.copy \cup prog.load \cup prog.store :
              e[1] \in Nodes /\ e[2] \in Nodes /\ <<e[1], e[2]>> = e
    BY <1>2 DEF IsProgram, Nodes
  <2>2. \A e \in prog.addr : e[1] \in pts[e[2]]
    BY <2>1 DEF Init
  <2>3. \A n \in Nodes : rep[n] = n
    BY DEF Init
  <2> QED
    BY <2>1, <2>2, <2>3 DEF Init, StatementsKept
<1> QED
  BY <1>1, <1>9, <1>4, <1>5, <1>6, <1>7, <1>8 DEF Closing

LEMMA SccDetectClosing ==
    ASSUME Closing, SccDetect
    PROVE  Closing'
<1>1. IndInv /\ TypeOK /\ RepConsistent /\ IndInv' /\ TypeOK' /\ RepConsistent'
  BY SccDetectOK DEF Closing, IndInv
<1>2. PICK m : /\ MergeMap(m) /\ MergeNodes(m, pts)
               /\ \A n \in Nodes : m[n] = n \/ m[n] \in GraphNodes
               /\ stack' = {n \in Reps \cap GraphNodes : m[n] = n}
  BY <1>1, SccMap
<1>3. /\ UNCHANGED <<prog, insens, fields, worklist, cur, toCollapse, todo, calls, reanalyze>>
      /\ pc = "scc" /\ pc' = "wave"
      /\ order' = {e \in copyE' \cup {<<g[1], g[2]>> : g \in gepE'} : e[1] # e[2]}
  BY DEF SccDetect
<1>4. todo = {} /\ toCollapse = {}
  BY <1>1, <1>3 DEF RepConsistent
<1>5. Covers(pts)
  BY <1>1 DEF Covers, TypeOK
<1>6. \A n \in Nodes : \A o \in pts'[n] : \E y \in Nodes : o \in pts[y]
  BY <1>1, <1>2, <1>5, MergedSets
<1>7. \A n \in Nodes : pts[n] \subseteq pts'[n]
  BY <1>1, <1>2, <1>5, MergedSets
<1>8. Collapsing'
  <2>1. \A n \in Nodes : \A o \in pts'[n] \cap FieldObjs : o \in fields /\ BaseOf[o] \notin insens
    BY <1>4, <1>6 DEF Closing, Collapsing
  <2>2. ASSUME NEW f \in fields, BaseOf[f] \in insens
        PROVE  rep'[f] = rep'[BaseOf[f]]
    <3>1. f \in Nodes /\ BaseOf[f] \in Nodes
      BY <1>1, ObjectsAssumption DEF TypeOK, Nodes, Objs
    <3>2. rep[f] = rep[BaseOf[f]]
      BY <1>4, <2>2 DEF Closing, Collapsing
    <3> QED
      BY <1>1, <1>2, <3>1, <3>2, MergedReps
  <2>3. \A f \in fields : BaseOf[f] \notin insens => \E n \in Nodes : f \in pts'[n]
    BY <1>7 DEF Closing, Collapsing
  <2> QED
    BY <1>3, <1>4, <2>1, <2>2, <2>3 DEF Collapsing
<1>9. GepArrived'
  <2>1. ASSUME NEW o \in Objs, NEW k \in Offsets, NEW y \in Reps, ArrivedAt(o, k, y)
        PROVE  ArrivedAt(o, k, m[y])'
    <3>1. pts[y] \subseteq pts'[m[y]]
      BY <1>1, <1>2, <1>5, MergeKeeps
    <3>2. GepTarget(o, k)' = GepTarget(o, k)
      BY <1>3 DEF GepTarget
    <3> QED
      BY <1>3, <1>4, <2>1, <3>1, <3>2 DEF ArrivedAt, Arrived
  <2> QED
    BY <1>1, <1>2, <1>5, <2>1, MergeGepArrived DEF Closing
<1>10. Placed'
  BY <1>1, <1>2, <1>3, <1>4, <1>5, MergePlaced DEF Closing, Placed
<1>11. CallsJoined'
  BY <1>1, <1>2, <1>3, <1>4, MergeCallsJoined DEF Closing
<1>12. LoadsSeen'
  BY <1>1, <1>2, <1>3, <1>4, <1>5, MergeLoadsSeen DEF Closing
<1>13. LastRound'
  <2>1. Reps' \cap GraphNodes = stack' /\ GraphNodes' = GraphNodes
    <3>1. Reps' = {n \in Reps : m[n] = n}
      BY <1>1, <1>2, MergedReps DEF Reps
    <3> QED
      BY <1>2, <1>3, <3>1 DEF GraphNodes
  <2>2. /\ \A e \in copyE' : e[1] \in Reps' /\ e[2] \in Reps' /\ e[1] # e[2] /\ e = <<e[1], e[2]>>
        /\ \A e \in gepE' : e[1] \in Reps' /\ e[2] \in Reps' /\ e[1] # e[2]
    BY <1>1, <1>9 DEF RepConsistent, GepArrived, TypeOK
  <2>3. \A e \in copyE' : <<e[1], e[2]>> \in order'
    BY <1>3, <2>2
  <2>4. \A e \in gepE' : <<e[1], e[2]>> \in order'
    BY <1>3, <2>2
  <2>5. \A e \in order' : e[2] \in stack'
    <3>1. \A e \in copyE' : e[2] \in GraphNodes
      BY <1>10, <2>1 DEF Placed
    <3>2. \A e \in gepE' : e[2] \in GraphNodes
      BY <1>10, <2>1 DEF Placed
    <3> QED
      BY <1>3, <2>1, <2>2, <3>1, <3>2
  <2>6. \A n \in Reps' : pts'[n] # {} => n \in stack'
    BY <1>10, <2>1 DEF Placed, Reps
  <2>7. InWave'
    BY <2>3, <2>4, <2>5, <2>6 DEF InWave, Visiting
  <2> QED
    BY <1>3, <2>7 DEF LastRound
<1>14. StatementsKept'
  BY <1>1, <1>2, <1>3, <1>5, MergeStatementsKept DEF Closing
<1> QED
  BY <1>1, <1>14, <1>8, <1>9, <1>10, <1>11, <1>12, <1>13 DEF Closing

LEMMA PopNodeClosing ==
    ASSUME Closing, PopNode
    PROVE  Closing'
<1>1. IndInv' /\ TypeOK
  BY PopNodeOK DEF Closing, IndInv
<1>2. /\ UNCHANGED <<prog, rep, pts, propa, copyE, gepE, loadE, storeE, pwc, insens, fields,
                     worklist, order, todo, calls, reanalyze>>
      /\ pc = "wave" /\ pc' = "node" /\ toCollapse = {}
  BY DEF PopNode, graph
<1>3. PICK n \in stack : /\ \A x \in stack : <<x, n>> \notin order
                         /\ stack' = stack \ {n} /\ cur' = n
  BY DEF PopNode
<1>4. toCollapse' \cap insens = {}
  BY DEF PopNode, ToCollapse
<1>5. Collapsing' /\ GepArrived' /\ Placed' /\ CallsJoined' /\ LoadsSeen'
  BY <1>1, <1>2, <1>4, StillCollapsing, StillArrived, StillPlaced, StillCopied
     DEF Closing, Placed
<1>6. LastRound'
  <2> SUFFICES ASSUME ~reanalyze PROVE InWave'
    BY <1>2 DEF LastRound
  <2>1. InWave
    BY <1>2 DEF Closing, LastRound
  <2>2. \A e \in order : e = <<e[1], e[2]>>
    BY <1>1 DEF TypeOK
  <2>3. \A e \in order : Visiting(e[1])' => e[2] \in stack'
    BY <1>2, <1>3, <2>1, <2>2 DEF InWave, Visiting
  <2>4. \A x : Visiting(x) => Visiting(x)'
    BY <1>2, <1>3 DEF Visiting
  <2>5. Reps' = Reps
    BY <1>2 DEF Reps
  <2> QED
    BY <1>2, <2>1, <2>3, <2>4, <2>5 DEF InWave
<1>7. StatementsKept'
  BY <1>1, <1>2, StillKept DEF Closing
<1> QED
  BY <1>1, <1>7, <1>5, <1>6 DEF Closing

LEMMA EndWaveClosing ==
    ASSUME Closing, EndWave
    PROVE  Closing'
<1>1. IndInv' /\ TypeOK
  BY EndWaveOK DEF Closing, IndInv
<1>2. /\ UNCHANGED <<prog, rep, pts, propa, copyE, gepE, loadE, storeE, pwc, insens, fields,
                     worklist, stack, order, toCollapse, todo, calls, reanalyze>>
      /\ pc = "wave" /\ pc' = "post" /\ stack = {}
  BY DEF EndWave, graph
<1>3. Collapsing' /\ GepArrived' /\ Placed' /\ CallsJoined' /\ LoadsSeen'
  BY <1>1, <1>2, StillCollapsing, StillArrived, StillPlaced, StillCopied
     DEF Closing, Placed, Collapsing
<1>4. LastRound'
  BY <1>2 DEF Closing, LastRound, InWave, Visiting, Reps
<1>5. StatementsKept'
  BY <1>1, <1>2, StillKept DEF Closing
<1> QED
  BY <1>1, <1>5, <1>3, <1>4 DEF Closing

LEMMA PostProcessNodeClosing ==
    ASSUME Closing, PostProcessNode
    PROVE  Closing'
<1>1. IndInv /\ IndInv' /\ TypeOK /\ RepConsistent
  BY PostProcessNodeOK DEF Closing, IndInv
<1>2. /\ UNCHANGED <<prog, rep, pts, propa, copyE, gepE, loadE, storeE, insens, fields,
                     toCollapse, calls, reanalyze, pc>>
      /\ pc = "post" /\ todo = {}
  BY DEF PostProcessNode, graph
<1>3. PICK n \in worklist : /\ worklist' = worklist \ {n}
                            /\ todo' = NewCopies(LoadCopies(rep[n]) \cup StoreCopies(rep[n]))
  BY DEF PostProcessNode
<1>4. \A e : Copied(e) => Copied(e)'
  BY <1>2 DEF Copied
<1>5. \A r : LoadCopies(r)' = LoadCopies(r) /\ StoreCopies(r)' = StoreCopies(r)
  BY <1>2 DEF LoadCopies, StoreCopies
<1>6. Reps' = Reps /\ \A r : Unmerged(r)' <=> Unmerged(r)
  BY <1>2 DEF Unmerged, Reps
<1>7. LoadsSeen'
  <2> SUFFICES ASSUME NEW r \in Reps, Unmerged(r), r \notin worklist',
                      NEW e \in LoadCopies(r) \cup StoreCopies(r)
               PROVE  Copied(e)'
    BY <1>5, <1>6 DEF LoadsSeen
  <2>1. CASE r = n
    <3>1. rep[n] = n
      BY <2>1 DEF Reps
    <3> QED
      BY <1>2, <1>3, <2>1, <3>1 DEF NewCopies, Copied
  <2>2. CASE r # n
    BY <1>3, <1>4, <2>2 DEF Closing, LoadsSeen
  <2> QED
    BY <2>1, <2>2
<1>8. Collapsing' /\ GepArrived' /\ CallsJoined'
  BY <1>1, <1>2, StillCollapsing, StillArrived, StillCopied DEF Closing, Collapsing
<1>9. Placed'
  <2>1. rep[n] \in Nodes
    BY <1>1 DEF TypeOK
  <2>2. \A o \in pts[rep[n]] : rep[o] \in GraphNodes
    <3>1. \A o \in pts[rep[n]] : o \in Nodes /\ o \in GraphNodes
      BY <1>1, <2>1 DEF TypeOK, Nodes, Closing, Placed
    <3> QED
      BY <3>1 DEF Closing, Placed
  <2>3. \A e \in loadE \cup storeE : e[1] \in GraphNodes /\ e[2] \in GraphNodes
    BY DEF Closing, Placed
  <2>4. \A e \in LoadCopies(rep[n]) \cup StoreCopies(rep[n]) :
           e[1] \in GraphNodes /\ e[2] \in GraphNodes
    BY <2>2, <2>3 DEF LoadCopies, StoreCopies
  <2>5. \A e \in copyE' \cup todo' : e[1] \in GraphNodes /\ e[2] \in GraphNodes
    BY <1>2, <1>3, <2>4 DEF NewCopies, Closing, Placed
  <2> QED
    BY <1>2, <2>5, StillPlaced DEF Closing
<1>10. LastRound'
  BY <1>2, <1>6 DEF Closing, LastRound
<1>11. StatementsKept'
  BY <1>1, <1>2, StillKept DEF Closing
<1> QED
  BY <1>1, <1>11, <1>7, <1>8, <1>9, <1>10 DEF Closing

LEMMA UpdateCallGraphClosing ==
    ASSUME Closing, UpdateCallGraph
    PROVE  Closing'
<1>1. IndInv /\ IndInv' /\ TypeOK /\ RepConsistent
  BY UpdateCallGraphOK DEF Closing, IndInv
<1>2. /\ UNCHANGED <<prog, rep, pts, propa, copyE, gepE, loadE, storeE, insens, fields, worklist,
                     toCollapse>>
      /\ pc = "post" /\ pc' = "calls" /\ todo = {} /\ worklist = {}
  BY DEF UpdateCallGraph, graph
<1>8. PICK new : /\ new \subseteq NewCalls
                 /\ calls' = calls \cup new
                 /\ new = NewCalls \/ Cardinality(calls') = IndirectCallLimit
                 /\ todo' = NewCopies(UNION {ParamCopies(x[1], x[2]) : x \in new})
                 /\ reanalyze' = (reanalyze \/ new # {})
  BY CallsAdded
<1>3. Collapsing' /\ GepArrived' /\ LoadsSeen'
  BY <1>1, <1>2, StillCollapsing, StillArrived, StillCopied DEF Closing, Collapsing
<1>4. CallsJoined'
  <2>1. NewCalls' = {} \/ Cardinality(calls') = IndirectCallLimit
    <3>1. NewCalls' = NewCalls \ new
      BY <1>2, <1>8 DEF NewCalls
    <3> QED
      BY <1>8, <3>1
  <2>2. ASSUME NEW x \in calls', NEW e \in ParamCopies(x[1], x[2])
        PROVE  Copied(e)'
    <3>1. CASE x \in calls
      BY <1>2, <2>2, <3>1 DEF Closing, CallsJoined, Copied
    <3>2. CASE x \in new
      <4>1. e \in UNION {ParamCopies(z[1], z[2]) : z \in new}
        BY <2>2, <3>2
      <4> QED
        BY <1>2, <1>8, <4>1 DEF NewCopies, Copied
    <3> QED
      BY <1>8, <2>2, <3>1, <3>2
  <2>3. \A c, f : ParamCopies(c, f)' = ParamCopies(c, f)
    BY <1>2 DEF ParamCopies
  <2> QED
    BY <2>1, <2>2, <2>3 DEF CallsJoined
<1>5. Placed'
  <2>1. ASSUME NEW x \in NewCalls, NEW e \in ParamCopies(x[1], x[2])
        PROVE  e[1] \in GraphNodes /\ e[2] \in GraphNodes
    <3>1. x[1] \in prog.calls /\ x[2] \in DOMAIN prog.funs
      BY <1>1, NewCallsAre
    <3>2. \A n \in GraphNodes : rep[n] \in GraphNodes
      BY <1>1, GraphNodesAre DEF Closing, Placed
    <3>3. /\ x[1][2] \in GraphNodes /\ x[1][3] \in GraphNodes
          /\ prog.funs[x[2]][1] \in GraphNodes /\ prog.funs[x[2]][2] \in GraphNodes
      BY <1>1, <3>1, GraphNodesAre
    <3> QED
      BY <2>1, <3>2, <3>3 DEF ParamCopies
  <2>2. \A e \in copyE' \cup todo' : e[1] \in GraphNodes /\ e[2] \in GraphNodes
    <3>1. \A e \in todo' : \E x \in new : e \in ParamCopies(x[1], x[2])
      BY <1>8 DEF NewCopies
    <3> QED
      BY <1>2, <1>8, <2>1, <3>1 DEF Closing, Placed
  <2> QED
    BY <1>2, <2>2, StillPlaced DEF Closing
<1>6. LastRound'
  <2> SUFFICES ASSUME ~reanalyze'
               PROVE  (\A n \in Reps : pts[n] \subseteq propa[n]) /\ todo' = {}
    BY <1>2 DEF LastRound, Reps
  <2>1. ~reanalyze /\ new = {}
    BY <1>8
  <2> QED
    BY <1>2, <1>8, <2>1 DEF NewCopies, Closing, LastRound
<1>7. StatementsKept'
  BY <1>1, <1>2, StillKept DEF Closing
<1> QED
  BY <1>1, <1>7, <1>3, <1>4, <1>5, <1>6 DEF Closing

\* Adding a copy edge that was asked for, after which another round is due.
LEMMA AddEdgeClosing ==
    ASSUME Closing, AddLoadStoreEdge \/ AddParamEdge
    PROVE  Closing'
<1>1. IndInv /\ IndInv' /\ TypeOK /\ RepConsistent
  BY AddLoadStoreEdgeOK, AddParamEdgeOK DEF Closing, IndInv
<1>2. /\ UNCHANGED <<prog, rep, pts, gepE, loadE, storeE, insens, fields, toCollapse, calls, pc>>
      /\ worklist \subseteq worklist' /\ pc \in {"post", "calls"}
  BY DEF AddLoadStoreEdge, AddParamEdge
<1>3. PICK e \in todo : /\ copyE' = copyE \cup {e} /\ todo' = todo \ {e}
                        /\ propa' = [propa EXCEPT ![e[1]] = @ \cap propa[e[2]]]
  BY DEF AddLoadStoreEdge, AddParamEdge, AddCopyEdge
<1>4. \A n \in Nodes : propa'[n] \subseteq propa[n]
  BY <1>1, <1>3 DEF TypeOK
<1>5. copyE \cup todo = copyE' \cup todo'
  BY <1>3
<1>6. Collapsing' /\ GepArrived' /\ Placed' /\ CallsJoined' /\ LoadsSeen'
  BY <1>1, <1>2, <1>4, <1>5, StillCollapsing, StillArrived, StillPlaced, StillCopied
     DEF Closing, Collapsing, Placed
<1>7. reanalyze'
  BY <1>3 DEF AddLoadStoreEdge, AddParamEdge, Closing, LastRound
<1>8. LastRound'
  BY <1>2, <1>7 DEF LastRound
<1>9. StatementsKept'
  BY <1>1, <1>2, <1>3, StillKept DEF Closing
<1> QED
  BY <1>1, <1>9, <1>6, <1>8 DEF Closing

LEMMA LoopClosing ==
    ASSUME Closing, EndRound \/ UNCHANGED vars
    PROVE  Closing'
<1>1. IndInv /\ IndInv' /\ TypeOK
  BY NextOK DEF Closing, IndInv, Next
<1>2. /\ UNCHANGED <<prog, rep, pts, propa, copyE, gepE, loadE, storeE, insens, fields, worklist,
                     stack, order, cur, toCollapse, todo, calls>>
      /\ pc' \in {"calls", "done"} => pc \in {"calls", "done"}
  BY DEF EndRound, vars, graph
<1>3. Collapsing' /\ GepArrived' /\ Placed' /\ CallsJoined' /\ LoadsSeen'
  BY <1>1, <1>2, StillCollapsing, StillArrived, StillPlaced, StillCopied
     DEF Closing, Collapsing, Placed
<1>4. LastRound'
  <2>1. CASE EndRound
    BY <1>2, <2>1 DEF EndRound, Closing, LastRound, Reps
  <2>2. CASE UNCHANGED vars
    BY <2>2 DEF vars, graph, Closing, LastRound, InWave, Visiting, Reps
  <2> QED
    BY <2>1, <2>2
<1>5. StatementsKept'
  BY <1>1, <1>2, StillKept DEF Closing
<1> QED
  BY <1>1, <1>5, <1>3, <1>4 DEF Closing

LEMMA ProcessNodeClosing ==
    ASSUME Closing, ProcessNode
    PROVE  Closing'
<1>1. /\ IndInv /\ IndInv' /\ TypeOK /\ RepConsistent
  BY ProcessNodeOK DEF Closing, IndInv
<1>2. /\ UNCHANGED <<prog, rep, copyE, gepE, loadE, storeE, stack, order, cur, todo, calls, reanalyze>>
      /\ pc = "node" /\ pc' = "wave" /\ toCollapse = {} /\ todo = {} /\ Reps' = Reps
  BY <1>1 DEF ProcessNode, graph, RepConsistent, Reps
<1>3. CASE rep[cur] # cur
  <2>1. UNCHANGED <<pts, propa, worklist, fields, insens, toCollapse>>
    BY <1>3 DEF ProcessNode
  <2>2. Collapsing' /\ GepArrived' /\ Placed' /\ CallsJoined' /\ LoadsSeen'
    BY <1>1, <1>2, <2>1, StillCollapsing, StillArrived, StillPlaced, StillCopied
       DEF Closing, Collapsing, Placed
  <2>4. StatementsKept'
    BY <1>1, <1>2, <2>1, StillKept DEF Closing
  <2>3. LastRound'
    BY <1>2, <1>3, <2>1 DEF Closing, LastRound, InWave, Visiting, Reps
  <2> QED
    BY <1>1, <2>2, <2>3, <2>4 DEF Closing
<1>4. CASE rep[cur] = cur
  <2>1. /\ pts' = [d \in Nodes |-> pts[d] \cup Into(d)]
        /\ propa' = [propa EXCEPT ![cur] = pts[cur]]
        /\ worklist' = worklist \cup {d \in Nodes : ~ Into(d) \subseteq pts[d]}
        /\ fields' = fields \cup {f \in FieldObjs : \E d \in Nodes : f \in Into(d)}
        /\ insens' = insens \cup Blurred
        /\ toCollapse' = Blurred
    BY <1>4 DEF ProcessNode
  <2>2. cur \in Nodes /\ DiffPts = pts[cur] \ propa[cur] /\ DiffPts \subseteq Objs
    BY <1>1 DEF TypeOK, DiffPts
  <2>3. /\ \A d \in Nodes : pts'[d] = pts[d] \cup Into(d)
        /\ \A n \in Nodes : propa'[n] = IF n = cur THEN pts[cur] ELSE propa[n]
    BY <1>1, <2>1 DEF TypeOK
  <2>4. Blurred \cap insens = {}
    BY DEF Blurred, ToCollapse
\* What comes in is some part of an object that cur points to, and a field only of
\* one that still has fields.
  <2>5. ASSUME NEW d \in Nodes, NEW x \in Into(d)
        PROVE  /\ x \in Objs
               /\ \E o \in pts[cur] : BaseOf[x] = BaseOf[o]
               /\ x \in FieldObjs => x \in fields' /\ BaseOf[x] \notin insens
               /\ \E e \in copyE \cup {<<g[1], g[2]>> : g \in gepE} : e = <<cur, d>>
    <3>1. CASE x \in DiffPts /\ <<cur, d>> \in copyE
      <4>1. x \in pts[cur]
        BY <2>2, <3>1
      <4>2. x \in FieldObjs => x \in fields' /\ BaseOf[x] \notin insens
        BY <1>2, <2>1, <2>2, <4>1 DEF Closing, Collapsing
      <4> QED
        BY <2>2, <3>1, <4>1, <4>2
    <3>2. CASE \E o \in DiffPts, e \in gepE : e[1] = cur /\ e[2] = d /\ x = GepTarget(o, e[3])
      <4>1. PICK o \in DiffPts, e \in gepE : e[1] = cur /\ e[2] = d /\ x = GepTarget(o, e[3])
        BY <3>2
      <4>2. e[3] \in Offsets /\ o \in Objs /\ o \in pts[cur]
        BY <1>1, <2>2 DEF TypeOK
      <4>3. x \in Objs /\ BaseOf[x] = BaseOf[o]
        BY <1>1, <4>1, <4>2, GepTargetBase
      <4>4. ASSUME x \in FieldObjs, BaseOf[x] \in insens PROVE FALSE
        <5>1. o \in BaseObjs /\ BaseOf[o] = o /\ o \notin FieldObjs
          BY <1>2, <2>2, <4>2, <4>3, <4>4, ObjectsAssumption DEF Objs, Closing, Collapsing
        <5>2. x = o
          BY <4>1, <4>3, <4>4, <5>1 DEF GepTarget
        <5> QED
          BY <4>4, <5>1, <5>2
      <4>5. x \in FieldObjs => x \in fields'
        BY <2>1
      <4> QED
        BY <4>1, <4>2, <4>3, <4>4, <4>5
    <3> QED
      BY <3>1, <3>2 DEF Into
  <2>6. Collapsing'
    <3>1. ASSUME NEW n \in Nodes, NEW o \in pts'[n], o \in FieldObjs
          PROVE  o \in fields' /\ BaseOf[o] \notin insens
      <4>1. CASE o \in pts[n]
        BY <1>2, <2>1, <3>1, <4>1 DEF Closing, Collapsing
      <4>2. CASE o \in Into(n)
        BY <2>5, <3>1, <4>2
      <4> QED
        BY <2>3, <4>1, <4>2
    <3>2. ASSUME NEW f \in fields'
          PROVE  IF BaseOf[f] \in insens' \ toCollapse' THEN rep'[f] = rep'[BaseOf[f]]
                                                        ELSE \E n \in Nodes : f \in pts'[n]
      <4>1. insens' \ toCollapse' = insens
        BY <2>1, <2>4
      <4>2. CASE f \in fields
        BY <1>2, <2>3, <4>1, <4>2 DEF Closing, Collapsing
      <4>3. CASE f \notin fields
        <5>1. PICK d \in Nodes : f \in Into(d) /\ f \in FieldObjs
          BY <2>1, <4>3
        <5>2. BaseOf[f] \notin insens /\ f \in pts'[d]
          BY <2>3, <2>5, <5>1
        <5> QED
          BY <4>1, <5>2
      <4> QED
        BY <4>2, <4>3
    <3> QED
      BY <2>1, <3>1, <3>2 DEF Collapsing
  <2>7. GepArrived'
    <3>1. ASSUME NEW e \in gepE, NEW o \in propa'[e[1]]
          PROVE  ArrivedAt(o, e[3], e[2])'
      <4>1. e[1] \in Nodes /\ e[2] \in Nodes /\ e[3] \in Offsets /\ o \in Objs
        BY <1>1, <2>3 DEF TypeOK
      <4> DEFINE t == GepTarget(o, e[3])
      <4>2. t \in pts'[e[2]] \/ (BaseOf[t] \in insens /\ BaseOf[t] \in pts'[e[2]])
        <5>1. CASE o \in propa[e[1]]
          <6>1. Arrived(t, e[2])
            BY <1>2, <5>1 DEF Closing, GepArrived, ArrivedAt
          <6> QED
            BY <2>3, <4>1, <6>1 DEF Arrived
        <5>2. CASE o \notin propa[e[1]]
          <6>1. e[1] = cur /\ o \in DiffPts
            BY <2>2, <2>3, <4>1, <5>2
          <6>2. t \in Into(e[2])
            BY <6>1 DEF Into
          <6> QED
            BY <2>3, <4>1, <6>2
        <5> QED
          BY <5>1, <5>2
      <4>3. BaseOf[t] = BaseOf[o] /\ BaseOf[BaseOf[t]] = BaseOf[t]
        BY <1>1, <4>1, GepTargetBase, ObjectsAssumption DEF Objs
      <4>4. CASE BaseOf[o] \in Blurred
        BY <2>1, <4>2, <4>3, <4>4 DEF ArrivedAt
      <4>5. CASE BaseOf[o] \notin Blurred
        <5>1. GepTarget(o, e[3])' = t
          BY <2>1, <4>5 DEF GepTarget
        <5> QED
          BY <2>1, <4>2, <5>1 DEF ArrivedAt, Arrived
      <4> QED
        BY <4>4, <4>5
    <3> QED
      BY <1>2, <3>1 DEF Closing, GepArrived
  <2>8. Placed'
    <3>1. GraphNodes \subseteq GraphNodes' /\ fields' \subseteq GraphNodes'
      BY <1>2, <2>1 DEF GraphNodes
    <3>2. ASSUME NEW n \in Nodes, NEW o \in Into(n)
          PROVE  n \in GraphNodes /\ o \in GraphNodes' /\ BaseOf[o] \in GraphNodes
      <4>1. BaseOf[o] \in GraphNodes
        BY <2>2, <2>5 DEF Closing, Placed
      <4>2. o \in GraphNodes'
        BY <2>5, <3>1, <4>1, ObjectsAssumption DEF Objs
      <4>3. PICK e \in copyE \cup {<<g[1], g[2]>> : g \in gepE} : e = <<cur, n>>
        BY <2>5
      <4>4. n \in GraphNodes
        BY <4>3 DEF Closing, Placed
      <4> QED
        BY <4>1, <4>2, <4>4
    <3>3. ASSUME NEW f \in fields' PROVE BaseOf[f] \in GraphNodes
      BY <2>1, <3>2 DEF Closing, Placed
    <3>4. ASSUME NEW n \in Nodes, NEW o \in pts'[n]
          PROVE  n \in GraphNodes /\ o \in GraphNodes' /\ BaseOf[o] \in GraphNodes
      BY <2>3, <3>1, <3>2 DEF Closing, Placed
    <3>5. /\ \A n \in Nodes : rep[n] = n \/ rep[n] \in GraphNodes'
          /\ \A e \in copyE \cup loadE \cup storeE \cup todo : e[1] \in GraphNodes' /\ e[2] \in GraphNodes'
          /\ \A e \in gepE : e[1] \in GraphNodes' /\ e[2] \in GraphNodes'
      BY <3>1 DEF Closing, Placed
    <3> QED
      BY <1>2, <3>1, <3>3, <3>4, <3>5 DEF Placed
  <2>9. CallsJoined'
    <3>1. \A c, f : ParamCopies(c, f)' = ParamCopies(c, f)
      BY <1>2 DEF ParamCopies
    <3> QED
      BY <1>2, <3>1 DEF Closing, CallsJoined, Copied
  <2>10. LoadsSeen'
    <3> SUFFICES ASSUME NEW n \in Reps, Unmerged(n), n \notin worklist',
                        NEW e \in LoadCopies(n)' \cup StoreCopies(n)'
                 PROVE  Copied(e)
      BY <1>2 DEF LoadsSeen, Unmerged, Copied
    <3>1. n \notin worklist /\ pts'[n] = pts[n]
      BY <2>1, <2>3 DEF Reps
    <3>2. LoadCopies(n)' = LoadCopies(n) /\ StoreCopies(n)' = StoreCopies(n)
      BY <1>2, <3>1 DEF LoadCopies, StoreCopies
    <3> QED
      BY <3>1, <3>2 DEF Closing, LoadsSeen
  <2>11. LastRound'
    <3> SUFFICES ASSUME ~reanalyze PROVE InWave'
      BY <1>2 DEF LastRound
    <3>1. InWave
      BY <1>2 DEF Closing, LastRound
    <3>2. ASSUME NEW n \in Reps, n \notin stack PROVE pts'[n] \subseteq propa'[n]
      <4>1. n \in Nodes
        BY DEF Reps
      <4>2. Into(n) = {}
        <5> SUFFICES ASSUME NEW x \in Into(n) PROVE FALSE
          OBVIOUS
        <5>1. <<cur, n>> \in copyE \/ \E g \in gepE : g[1] = cur /\ g[2] = n
          BY DEF Into
        <5>2. <<cur, n>> \in order
          <6>1. CASE <<cur, n>> \in copyE
            <7> DEFINE e == <<cur, n>>
            <7>1. e \in copyE /\ e[1] = cur /\ e[2] = n
              BY <6>1
            <7> HIDE DEF e
            <7> QED
              BY <3>1, <7>1 DEF InWave
          <6>2. CASE \E g \in gepE : g[1] = cur /\ g[2] = n
            BY <3>1, <6>2 DEF InWave
          <6> QED
            BY <5>1, <6>1, <6>2
        <5>3. n \in stack
          <6> DEFINE e == <<cur, n>>
          <6>1. e \in order /\ e[1] = cur /\ e[2] = n
            BY <5>2
          <6> HIDE DEF e
          <6> QED
            BY <1>2, <3>1, <6>1 DEF InWave, Visiting
        <5> QED
          BY <3>2, <5>3
      <4>3. pts'[n] = pts[n]
        BY <2>3, <4>1, <4>2
      <4>4. n = cur \/ pts[n] \subseteq propa[n]
        BY <3>1, <3>2 DEF InWave, Visiting
      <4> QED
        BY <2>3, <4>1, <4>3, <4>4
    <3>3. \A e \in order : e[1] \in stack => e[2] \in stack
      BY <3>1 DEF InWave, Visiting
    <3> QED
      BY <1>2, <3>1, <3>2, <3>3 DEF InWave, Visiting
  <2>12. StatementsKept'
    BY <1>1, <1>2, <2>3, StillKept DEF Closing
  <2> QED
    BY <1>1, <2>12, <2>6, <2>7, <2>8, <2>9, <2>10, <2>11 DEF Closing
<1> QED
  BY <1>3, <1>4

\* An object none of whose fields is pointed to has no fields: nothing is merged.
LEMMA NothingCollapsed ==
    ASSUME IndInv, Collapsing, NEW b \in toCollapse, HoldersOf(b) = {},
           MergeNodes(BaseMap(b), BasePts(b))
    PROVE  UNCHANGED <<rep, pts, propa, copyE, gepE>>
<1>1. FieldsOf(b) = {}
  <2> SUFFICES ASSUME NEW f \in FieldsOf(b) PROVE FALSE
    OBVIOUS
  <2>1. \E n \in Nodes : f \in pts[n]
    BY DEF Collapsing, FieldsOf
  <2> QED
    BY <2>1 DEF HoldersOf
<1> DEFINE m == BaseMap(b)
           p == BasePts(b)
<1>2. m \in [Nodes -> Nodes] /\ \A n \in Nodes : m[n] = n
  BY <1>1 DEF BaseMap
<1>3. p = pts
  BY <1>1 DEF BasePts, HoldersOf, IndInv, TypeOK
<1> HIDE DEF m, p
<1>4. MergeNodes(m, pts)
  BY <1>3 DEF m, p
<1>5. rep' = rep
  BY <1>2, <1>4 DEF MergeNodes, MergedPts, MergedPropa, IndInv, TypeOK
<1>6. pts' = pts
  <2>1. \A n \in Nodes : pts[n] \cup (UNION {pts[y] : y \in {z \in Reps : m[z] = n}}) = pts[n]
    BY <1>2 DEF Reps
  <2> QED
    BY <1>4, <2>1 DEF MergeNodes, MergedPts, MergedPropa, IndInv, TypeOK
<1>7. propa' = propa
  <2>1. \A n \in Nodes : {o \in propa[n] : \A y \in Reps : m[y] = n => o \in propa[y]} = propa[n]
    BY <1>2 DEF Reps
  <2> QED
    BY <1>4, <2>1 DEF MergeNodes, MergedPts, MergedPropa, IndInv, TypeOK
<1>8. copyE' = copyE
  <2>1. \A e \in copyE : m[e[1]] # m[e[2]] /\ MoveEdge(m, e) = e
    BY <1>2 DEF MoveEdge, IndInv, TypeOK, RepConsistent, Reps
  <2>2. {MoveEdge(m, e) : e \in {f \in copyE : m[f[1]] # m[f[2]]}} = copyE
    BY <2>1
  <2> QED
    BY <1>4, <2>2 DEF MergeNodes, MergedPts, MergedPropa
<1>9. gepE' = gepE
  <2>1. \A e \in gepE : Unmoved(m, e) /\ MoveGep(m, e) = e
    BY <1>2 DEF MoveGep, Unmoved, IndInv, TypeOK
  <2>2. {MoveGep(m, e) : e \in gepE \ Internal(m)} = gepE /\ {e \in gepE : Unmoved(m, e)} = gepE
    BY <2>1 DEF Internal
  <2> QED
    BY <1>4, <2>2 DEF MergeNodes, MergedPts, MergedPropa
<1> QED
  BY <1>5, <1>6, <1>7, <1>8, <1>9

LEMMA CollapseFieldClosing ==
    ASSUME Closing, CollapseField
    PROVE  Closing'
<1>1. IndInv /\ TypeOK /\ RepConsistent /\ IndInv'
  BY CollapseFieldOK DEF Closing, IndInv
<1>2. PICK b \in toCollapse :
              /\ MergeMap(BaseMap(b)) /\ Covers(BasePts(b)) /\ MergeNodes(BaseMap(b), BasePts(b))
              /\ insens' = insens \cup {b}
              /\ worklist' = worklist \cup {rep'[n] : n \in HoldersOf(b)}
              /\ reanalyze' = (reanalyze \/ HoldersOf(b) # {})
              /\ \E more \in SUBSET (BaseObjs \ insens') : toCollapse' = (toCollapse \ {b}) \cup more
  BY <1>1, CollapseMap
<1>3. UNCHANGED <<prog, fields, stack, order, cur, todo, calls, pc>>
  BY DEF CollapseField
<1>4. todo = {} /\ pc \in {"wave", "node"}
  BY <1>1 DEF RepConsistent
<1>5. b \in BaseObjs /\ b \in Nodes /\ b \notin FieldObjs /\ BaseOf[b] = b /\ rep[b] \in Reps
  BY <1>1, <1>2, ObjectsAssumption DEF TypeOK, Nodes, Objs, RepConsistent, Reps
<1>0. PICK m, p : m = BaseMap(b) /\ p = BasePts(b)
  OBVIOUS
<1>6. /\ \A n \in Nodes : m[n] = IF \E f \in FieldsOf(b) : n = rep[f] THEN rep[b] ELSE n
      /\ \A n \in Nodes : p[n] = IF n \in HoldersOf(b) THEN (pts[n] \ FieldsOf(b)) \cup {b} ELSE pts[n]
  BY <1>0 DEF BaseMap, BasePts
<1>7. /\ MergeMap(m) /\ Covers(p) /\ MergeNodes(m, p)
      /\ toCollapse \ {b} \subseteq toCollapse' /\ b \notin toCollapse'
      /\ toCollapse' \cap insens' \subseteq toCollapse
  BY <1>0, <1>2
\* Afterwards nobody points to a field of b, and who did points to b.
<1>8. ASSUME NEW n \in Nodes, NEW o \in p[n]
      PROVE  /\ o = b => n \in HoldersOf(b) \/ b \in pts[n]
             /\ o # b => o \in pts[n]
             /\ o \in FieldObjs => BaseOf[o] # b
  <2>1. o \in FieldObjs /\ BaseOf[o] = b /\ o \in pts[n] => o \in FieldsOf(b) /\ n \in HoldersOf(b)
    BY DEF FieldsOf, HoldersOf, Closing, Collapsing
  <2>2. CASE n \in HoldersOf(b)
    <3>1. p[n] = (pts[n] \ FieldsOf(b)) \cup {b}
      BY <1>6, <2>2
    <3> QED
      BY <1>5, <2>1, <2>2, <3>1
  <2>3. CASE n \notin HoldersOf(b)
    <3>1. p[n] = pts[n]
      BY <1>6, <2>3
    <3> QED
      BY <2>1, <2>3, <3>1
  <2> QED
    BY <2>2, <2>3
<1>9. ASSUME NEW n \in Nodes, NEW x \in pts[n]
      PROVE  IF BaseOf[x] = b THEN b \in p[n] ELSE x \in p[n]
  <2>1. x \in Objs
    BY <1>1 DEF TypeOK
  <2>2. CASE x \in FieldObjs /\ BaseOf[x] = b
    <3>1. n \in HoldersOf(b)
      BY <2>2 DEF FieldsOf, HoldersOf, Closing, Collapsing
    <3>2. p[n] = (pts[n] \ FieldsOf(b)) \cup {b}
      BY <1>6, <3>1
    <3> QED
      BY <2>2, <3>2
  <2>3. CASE x \notin FieldObjs \/ BaseOf[x] # b
    <3>1. x \notin FieldsOf(b) /\ (BaseOf[x] = b => x = b)
      BY <1>1, <2>1, <2>3, ObjectsAssumption DEF FieldsOf, Objs, TypeOK
    <3> QED
      BY <1>6, <3>1
  <2> QED
    BY <2>2, <2>3
<1>10. Collapsing'
  <2>1. ASSUME NEW n \in Nodes, NEW o \in pts'[n], o \in FieldObjs
        PROVE  o \in fields /\ (BaseOf[o] \in insens' => BaseOf[o] \in toCollapse')
    <3>1. PICK y \in Nodes : o \in p[y]
      BY <1>1, <1>7, MergedSets
    <3>2. o \in pts[y] /\ BaseOf[o] # b
      BY <1>5, <1>8, <2>1, <3>1
    <3> QED
      BY <1>2, <1>7, <2>1, <3>2 DEF Closing, Collapsing
  <2>2. ASSUME NEW f \in fields, BaseOf[f] \in insens' \ toCollapse'
        PROVE  rep'[f] = rep'[BaseOf[f]]
    <3>1. f \in Nodes /\ BaseOf[f] \in Nodes
      BY <1>1, ObjectsAssumption DEF TypeOK, Nodes, Objs
    <3>2. rep'[f] = m[rep[f]] /\ rep'[BaseOf[f]] = m[rep[BaseOf[f]]] /\ rep[f] \in Nodes
      BY <1>1, <1>7, <3>1, MergedReps DEF Reps
    <3>3. CASE BaseOf[f] = b
      <4>1. f \in FieldsOf(b)
        BY <3>3 DEF FieldsOf
      <4> QED
        BY <1>5, <1>6, <3>2, <3>3, <4>1 DEF Reps
    <3>4. CASE BaseOf[f] # b
      <4>1. rep[f] = rep[BaseOf[f]]
        BY <1>2, <1>7, <2>2, <3>4 DEF Closing, Collapsing
      <4> QED
        BY <3>2, <4>1
    <3> QED
      BY <3>3, <3>4
  <2>3. ASSUME NEW f \in fields, BaseOf[f] \notin insens' \ toCollapse'
        PROVE  \E n \in Nodes : f \in pts'[n]
    <3>1. BaseOf[f] # b /\ BaseOf[f] \notin insens \ toCollapse
      BY <1>2, <1>7, <2>3
    <3>2. PICK n \in Nodes : f \in pts[n]
      BY <3>1 DEF Closing, Collapsing
    <3>3. f \in p[n]
      BY <1>9, <3>1, <3>2
    <3> QED
      BY <1>1, <1>7, <3>3, MergedSets
  <2> QED
    BY <1>3, <2>1, <2>2, <2>3 DEF Collapsing
<1>11. GepArrived'
  <2>1. ASSUME NEW o \in Objs, NEW k \in Offsets, NEW y \in Reps, ArrivedAt(o, k, y)
        PROVE  ArrivedAt(o, k, m[y])'
    <3>1. y \in Nodes /\ p[y] \subseteq pts'[m[y]]
      BY <1>1, <1>7, MergeKeeps DEF Reps
    <3> DEFINE t == GepTarget(o, k)
    <3>2. t \in Objs /\ BaseOf[t] = BaseOf[o] /\ BaseOf[BaseOf[o]] = BaseOf[o]
      BY <1>1, GepTargetBase, ObjectsAssumption DEF Objs
    <3>3. CASE BaseOf[o] = b
      <4>1. \E x \in pts[y] : BaseOf[x] = b
        BY <1>5, <2>1, <3>2, <3>3 DEF ArrivedAt, Arrived
      <4>2. b \in pts'[m[y]]
        BY <1>9, <3>1, <4>1
      <4>3. TypeOK'
        BY <1>1 DEF IndInv
      <4>4. BaseOf[GepTarget(o, k)'] = b
        <5>1. insens' \subseteq BaseObjs
          BY <4>3 DEF TypeOK
        <5>2. b \in insens'
          BY <1>2
        <5>3. GepTarget(o, k)' = o \/ GepTarget(o, k)' = BaseOf[o]
          BY <3>3, <5>2 DEF GepTarget
        <5> QED
          BY <1>5, <3>3, <5>3
      <4> QED
        BY <1>2, <4>2, <4>4 DEF ArrivedAt, Arrived
    <3>4. CASE BaseOf[o] # b
      <4>1. GepTarget(o, k)' = t
        BY <1>2, <3>4 DEF GepTarget
      <4>2. CASE BaseOf[o] \in toCollapse /\ \E x \in pts[y] : BaseOf[x] = BaseOf[o]
        <5>1. PICK x \in pts[y] : BaseOf[x] = BaseOf[o]
          BY <4>2
        <5>2. x \in pts'[m[y]]
          BY <1>9, <3>1, <3>4, <5>1
        <5> QED
          BY <1>7, <3>4, <4>2, <5>1, <5>2 DEF ArrivedAt
      <4>3. CASE Arrived(t, y)
        <5>1. t \in pts'[m[y]] \/ (BaseOf[t] \in insens /\ BaseOf[t] \in pts'[m[y]])
          BY <1>9, <3>1, <3>2, <3>4, <4>3 DEF Arrived
        <5> HIDE DEF t
        <5> QED
          BY <1>2, <4>1, <5>1 DEF ArrivedAt, Arrived
      <4> QED
        BY <2>1, <4>2, <4>3 DEF ArrivedAt
    <3> QED
      BY <3>3, <3>4
  <2> QED
    BY <1>1, <1>7, <2>1, MergeGepArrived DEF Closing
<1>12. Placed'
  <2>1. GraphNodes \subseteq Nodes /\ fields \subseteq GraphNodes
    BY <1>1, GraphNodesAre
  <2>2. FieldsOf(b) # {} => b \in GraphNodes /\ rep[b] \in GraphNodes
    BY <1>5, <2>1 DEF FieldsOf, Closing, Placed
  <2>3. \A n \in Nodes : m[n] = n \/ m[n] \in GraphNodes
    BY <1>6, <2>2
  <2>4. ASSUME NEW n \in Nodes, NEW o \in p[n]
        PROVE  n \in GraphNodes /\ o \in GraphNodes /\ BaseOf[o] \in GraphNodes
    <3>1. CASE o \in pts[n]
      BY <3>1 DEF Closing, Placed
    <3>2. CASE o \notin pts[n]
      <4>1. o = b /\ n \in HoldersOf(b)
        BY <1>8, <3>2
      <4>2. pts[n] # {} /\ FieldsOf(b) # {}
        BY <4>1 DEF HoldersOf
      <4> QED
        BY <1>5, <2>2, <4>1, <4>2 DEF Closing, Placed
    <3> QED
      BY <3>1, <3>2
  <2>5. \A n \in Nodes : p[n] # {} => n \in GraphNodes
    BY <2>4
  <2> QED
    BY <1>1, <1>3, <1>4, <1>7, <2>3, <2>4, <2>5, MergePlaced DEF Closing
<1>13. CallsJoined'
  BY <1>1, <1>3, <1>4, <1>7, MergeCallsJoined DEF Closing
<1>14. LoadsSeen'
  <2>1. ASSUME NEW n \in Reps, m[n] = n PROVE p[n] = pts[n] \/ n \in worklist'
    <3>1. n \in Nodes /\ rep'[n] = n
      BY <1>1, <1>7, <2>1, MergedReps DEF Reps
    <3>2. n \in HoldersOf(b) => n \in worklist'
      BY <1>2, <3>1
    <3> QED
      BY <1>6, <3>1, <3>2
  <2> QED
    BY <1>1, <1>2, <1>4, <1>7, <2>1, MergeLoadsSeen DEF Closing
<1>15. LastRound'
  <2> SUFFICES ASSUME ~reanalyze' PROVE InWave'
    BY <1>3, <1>4 DEF LastRound
  <2>1. HoldersOf(b) = {} /\ ~reanalyze
    BY <1>2
  <2>2. UNCHANGED <<rep, pts, propa, copyE, gepE>>
    BY <1>1, <1>2, <2>1, NothingCollapsed DEF Closing
  <2>3. InWave
    BY <1>4, <2>1 DEF Closing, LastRound
  <2> QED
    BY <1>3, <2>2, <2>3 DEF InWave, Visiting, Reps
<1>16. StatementsKept'
  BY <1>1, <1>3, <1>7, MergeStatementsKept DEF Closing
<1> QED
  BY <1>1, <1>16, <1>10, <1>11, <1>12, <1>13, <1>14, <1>15 DEF Closing

LEMMA NextClosing ==
    ASSUME Closing, [Next]_vars
    PROVE  Closing'
<1>1. CASE SccDetect
  BY <1>1, SccDetectClosing
<1>2. CASE PopNode
  BY <1>2, PopNodeClosing
<1>3. CASE ProcessNode
  BY <1>3, ProcessNodeClosing
<1>4. CASE CollapseField
  BY <1>4, CollapseFieldClosing
<1>5. CASE EndWave
  BY <1>5, EndWaveClosing
<1>6. CASE PostProcessNode
  BY <1>6, PostProcessNodeClosing
<1>7. CASE AddLoadStoreEdge \/ AddParamEdge
  BY <1>7, AddEdgeClosing
<1>8. CASE UpdateCallGraph
  BY <1>8, UpdateCallGraphClosing
<1>9. CASE EndRound \/ UNCHANGED vars
  BY <1>9, LoopClosing
<1> QED
  BY <1>1, <1>2, <1>3, <1>4, <1>5, <1>6, <1>7, <1>8, <1>9 DEF Next, Done

\* Whatever is left to do is remembered: on the worklist, on the stack, among the
\* objects to collapse or the edges to add, or by asking for another round.
THEOREM ClosingAlways == Spec => []Closing
<1>1. Init => Closing
  BY InitClosing
<1>2. Closing /\ [Next]_vars => Closing'
  BY NextClosing
<1> QED
  BY <1>1, <1>2, PTL DEF Spec

-----------------------------------------------------------------------------
(***************************************************************************)
(* Gep statements.  What a gep defines nothing else does, so the gep's edge *)
(* is the only one into that variable: it is merged into a cycle only when *)
(* the source of the gep is in the cycle too, and no other edge ever comes *)
(* to join the same two nodes.                                             *)
(***************************************************************************)
Own(e) ==
    /\ rep[e[2]] = e[2] /\ Unmerged(e[2])
    /\ <<rep[e[1]], e[2], e[3]>> \in gepE
    /\ \A f \in copyE \cup todo : f[2] # e[2]
    /\ \A g \in gepE : g[2] = e[2] => g[1] = rep[e[1]] /\ g[3] = e[3]

\* A gep within a merged node has no edge, but was noticed unless it went under; any
\* other still has its own.
Noticed(e) == e[3] = 0 \/ rep[e[1]] \in pwc \/ GoneUnder(e)

GepsKept ==
    /\ \A e \in prog.gep : (rep[e[1]] = rep[e[2]] /\ Noticed(e)) \/ Own(e)
    /\ \A g \in gepE : \E e \in prog.gep : g = <<rep[e[1]], rep[e[2]], e[3]>>
    /\ \A e \in loadE : \E l \in prog.load : e[2] = rep[l[2]]

\* Where there is something other than a gep that a value comes from.
Others == Nodes \ DefinedByGep(prog)

LEMMA GepEnds ==
    ASSUME TypeOK
    PROVE  /\ IsProgram(prog) /\ Objs \subseteq Others
           /\ \A e \in prog.gep : /\ e[1] \in Nodes /\ e[2] \in Nodes /\ e[1] # e[2]
                                 /\ e[3] \in Offsets /\ e = <<e[1], e[2], e[3]>>
<1>1. IsProgram(prog)
  BY ProgramsAssumption DEF TypeOK
<1>2. \A e \in prog.gep : e[1] \in Vars /\ e[2] \in Vars /\ e[3] \in Offsets /\ e = <<e[1], e[2], e[3]>>
  BY <1>1 DEF IsProgram
<1> QED
  BY <1>1, <1>2, ObjectsAssumption DEF IsProgram, Others, DefinedByGep, Nodes

\* No copy that is asked for leads into what a gep defines.
LEMMA StillOwn ==
    ASSUME TypeOK, GepsKept, UNCHANGED <<prog, rep, gepE, loadE, pwc>>,
           \A f \in copyE' \cup todo' : f \in copyE \cup todo \/ \E v \in Others : f[2] = rep[v]
    PROVE  GepsKept'
<1>1. ASSUME NEW e \in prog.gep, Own(e) PROVE Own(e)'
  <2>1. \A v \in Others : rep[v] # e[2]
    BY <1>1 DEF Own, Unmerged, Others, DefinedByGep
  <2>2. \A f \in copyE' \cup todo' : f[2] # e[2]
    BY <1>1, <2>1 DEF Own
  <2> QED
    BY <1>1, <2>2 DEF Own, Unmerged
<1>2. \A e : Noticed(e)' = Noticed(e)
  BY DEF Noticed, GoneUnder
<1> QED
  BY <1>1, <1>2 DEF GepsKept

\* A merge that takes the source along, or leaves the target alone, loses no gep.
LEMMA MergeGepsKept ==
    ASSUME TypeOK, RepConsistent, GepsKept, NEW m, NEW p, MergeMap(m), MergeNodes(m, p),
           prog' = prog, todo' = {},
           \A e \in prog.gep : Own(e) =>
              \/ m[rep[e[1]]] = m[e[2]]
              \/ m[e[2]] = e[2] /\ \A y \in Reps : m[y] = e[2] => y = e[2]
    PROVE  GepsKept'
<1>1. /\ \A n \in Nodes : rep[n] \in Reps /\ rep'[n] = m[rep[n]]
      /\ \A e \in gepE \cup copyE : e[2] \in Reps
  BY MergedReps DEF RepConsistent
<1>2. ASSUME NEW e \in prog.gep
      PROVE  (rep'[e[1]] = rep'[e[2]] /\ Noticed(e)') \/ Own(e)'
  <2>1. e[1] \in Nodes /\ e[2] \in Nodes /\ e[1] # e[2] /\ \A f \in prog.gep : f[1] \in Nodes /\ f[2] \in Nodes
    BY GepEnds
  <2>2. CASE rep[e[1]] = rep[e[2]] /\ Noticed(e)
    <3>1. rep[e[1]] \in pwc => rep'[e[1]] \in pwc'
      BY <1>1, <2>1, MergedPwc
    <3>2. GoneUnder(e) => GoneUnder(e)'
      BY <1>1, <2>1 DEF GoneUnder
    <3> QED
      BY <1>1, <2>1, <2>2, <3>1, <3>2 DEF Noticed
  <2>3. CASE Own(e) /\ m[rep[e[1]]] = m[e[2]]
    <3> DEFINE g == <<rep[e[1]], e[2], e[3]>>
    <3>1. g \in gepE /\ g[1] = rep[e[1]] /\ g[2] = e[2] /\ g[3] = e[3]
      BY <2>3 DEF Own
    <3> HIDE DEF g
    <3>2. /\ rep'[e[1]] = m[g[1]] /\ rep'[e[2]] = m[g[1]]
      BY <1>1, <2>1, <2>3, <3>1 DEF Own
    <3>3. g[1] # g[2]
      BY <2>1, <2>3, <3>1 DEF Own, Unmerged
    <3>4. CASE e[3] # 0 /\ rep'[e[1]] \notin pwc'
      <4>1. g \in Critical(m)
        BY <2>3, <3>1, <3>3, <3>4 DEF Critical, Internal, Unmoved
      <4>2. MayGoUnder(m, g)
        BY <3>2, <3>4, <4>1, MergedPwc
      <4>3. PICK z \in gepE : z[1] = g[1] /\ m[z[2]] = m[g[1]] /\ z[3] = 0
        BY <4>2 DEF MayGoUnder
      <4>4. PICK f \in prog.gep : z = <<rep[f[1]], rep[f[2]], f[3]>>
        BY DEF GepsKept
      <4>5. f[3] = 0 /\ rep'[f[1]] = rep'[e[1]] /\ rep'[f[2]] = rep'[e[2]]
        BY <1>1, <2>1, <3>2, <4>3, <4>4
      <4>6. e[3] # Variant
        BY <3>1, <4>2 DEF MayGoUnder
      <4> QED
        BY <3>2, <4>5, <4>6 DEF Noticed, GoneUnder
    <3> QED
      BY <3>2, <3>4 DEF Noticed
  <2>4. CASE Own(e) /\ m[rep[e[1]]] # m[e[2]]
    <3>1. m[e[2]] = e[2] /\ rep[e[2]] = e[2] /\ \A y \in Reps : m[y] = e[2] => y = e[2]
      BY <2>4 DEF Own
    <3>2. rep'[e[2]] = e[2] /\ Unmerged(e[2])'
      BY <1>1, <2>1, <2>4, <3>1 DEF Own, Unmerged
    <3>3. \A x \in copyE' \cup todo' : x[2] # e[2]
      BY <1>1, <2>4, <3>1, MergedEdges DEF Own
    <3>4. PICK keep : /\ gepE' = keep /\ keep \subseteq {MoveGep(m, f) : f \in gepE \ Internal(m)}
                      /\ \A f \in {MoveGep(m, h) : h \in gepE \ Internal(m)} : \E g \in keep : SameEdge(f, g)
      BY DEF MergeNodes, MergedPts, MergedPropa
    <3>5. ASSUME NEW x \in gepE', x[2] = e[2]
          PROVE  x = <<rep'[e[1]], e[2], e[3]>>
      <4>1. PICK f \in gepE : x = MoveGep(m, f)
        BY <3>4
      <4>2. x = <<m[f[1]], m[f[2]], f[3]>>
        BY <4>1 DEF MoveGep
      <4>3. f[2] = e[2]
        BY <1>1, <3>1, <3>5, <4>2
      <4>4. f[1] = rep[e[1]] /\ f[3] = e[3]
        BY <2>4, <4>3 DEF Own
      <4> QED
        BY <1>1, <2>1, <3>1, <4>2, <4>3, <4>4
    <3>6. \E x \in gepE' : x[2] = e[2]
      <4> DEFINE g == <<rep[e[1]], e[2], e[3]>>
      <4>1. g \in gepE /\ g \notin Internal(m)
        BY <2>4 DEF Own, Internal
      <4>2. PICK x \in gepE' : SameEdge(MoveGep(m, g), x)
        BY <3>4, <4>1
      <4>3. MoveGep(m, g)[2] = e[2]
        BY <3>1 DEF MoveGep
      <4> QED
        BY <4>2, <4>3 DEF SameEdge
    <3>7. <<rep'[e[1]], e[2], e[3]>> \in gepE'
      BY <3>5, <3>6
    <3>8. \A x \in gepE' : x[2] = e[2] => x[1] = rep'[e[1]] /\ x[3] = e[3]
      BY <3>5
    <3> QED
      BY <3>2, <3>3, <3>7, <3>8 DEF Own
  <2> QED
    BY <2>2, <2>3, <2>4 DEF GepsKept
<1>3. ASSUME NEW x \in loadE' PROVE \E l \in prog.load : x[2] = rep'[l[2]]
  <2>1. PICK f \in loadE : x[2] = m[f[2]]
    BY MergedEdges
  <2>2. PICK l \in prog.load : f[2] = rep[l[2]]
    BY DEF GepsKept
  <2>3. l[2] \in Nodes
    BY GepEnds DEF IsProgram, Nodes
  <2> QED
    BY <1>1, <2>1, <2>2, <2>3
<1>4. ASSUME NEW x \in gepE' PROVE \E e \in prog.gep : x = <<rep'[e[1]], rep'[e[2]], e[3]>>
  <2>1. PICK f \in gepE : x = MoveGep(m, f)
    BY DEF MergeNodes
  <2>2. PICK e \in prog.gep : f = <<rep[e[1]], rep[e[2]], e[3]>>
    BY DEF GepsKept
  <2>3. e[1] \in Nodes /\ e[2] \in Nodes
    BY GepEnds
  <2> QED
    BY <1>1, <2>1, <2>2, <2>3 DEF MoveGep
<1> QED
  BY <1>2, <1>3, <1>4 DEF GepsKept

\* A node that only a gep defines is in a cycle only if the gep's source is: its
\* one incoming edge comes from there.
LEMMA OneWayIn ==
    ASSUME NEW N, IsFiniteSet(N), NEW E \in SUBSET (N \X N), NEW r, NEW v, <<r, v>> \in E,
           \A f \in E : f[2] = v => f[1] = r,
           NEW x, <<x, v>> \in SameSCC(E, N)
    PROVE  <<r, v>> \in SameSCC(E, N)
<1> DEFINE R == Closure(E, N)
           T == {f \in R : f[2] = v => f[1] = r \/ <<f[1], r>> \in R}
<1>1. R \in SUBSET (N \X N) /\ E \subseteq R /\ Transitive(R)
  BY ClosureLeast
<1>2. SameSCC(E, N) = {e \in R : <<e[2], e[1]>> \in R}
  BY DEF SameSCC
<1>3. \A a, b : <<a, b>> \in T <=> <<a, b>> \in R /\ (b = v => a = r \/ <<a, r>> \in R)
  OBVIOUS
<1>4. E \subseteq T /\ T \in SUBSET (N \X N)
  BY <1>1
<1> HIDE DEF T, R
<1>5. Transitive(T)
  BY <1>1, <1>3 DEF Transitive
<1>6. R \subseteq T
  BY <1>4, <1>5, ClosureLeast DEF R
<1>7. <<x, v>> \in R /\ <<v, x>> \in R
  BY <1>2
<1>8. x = r \/ <<x, r>> \in R
  BY <1>3, <1>6, <1>7
<1>9. <<v, r>> \in R
  BY <1>1, <1>7, <1>8 DEF Transitive
<1> QED
  BY <1>1, <1>2, <1>9

\* Every direct edge joins representatives in the graph.
LEMMA PlacedEdges ==
    ASSUME IndInv, Placed
    PROVE  /\ IsFiniteSet(Reps \cap GraphNodes)
           /\ DirectEdges \in SUBSET ((Reps \cap GraphNodes) \X (Reps \cap GraphNodes))
<1>1. IsFiniteSet(Reps \cap GraphNodes)
  <2>1. IsFiniteSet(Nodes) /\ Reps \cap GraphNodes \subseteq Nodes
    BY ObjectsAssumption DEF Reps
  <2> QED
    BY <2>1, FS_Subset
<1>2. \A e \in copyE : e = <<e[1], e[2]>> /\ e[1] \in Reps \cap GraphNodes /\ e[2] \in Reps \cap GraphNodes
  BY DEF IndInv, TypeOK, RepConsistent, Placed
<1>3. \A e \in gepE : e[1] \in Reps \cap GraphNodes /\ e[2] \in Reps \cap GraphNodes
  BY DEF IndInv, RepConsistent, Placed
<1> QED
  BY <1>1, <1>2, <1>3 DEF DirectEdges

LEMMA SccDetectGepsKept ==
    ASSUME IndInv, Placed, GepsKept, SccDetect
    PROVE  GepsKept'
<1> DEFINE N    == Reps \cap GraphNodes
           same == SameSCC(DirectEdges, N)
<1>1. IsFiniteSet(N) /\ DirectEdges \in SUBSET (N \X N)
  BY PlacedEdges
<1>2. PICK m : /\ MergeMap(m) /\ MergeNodes(m, pts)
               /\ \A n \in Nodes : m[n] = n \/ (m[n] \in N /\ <<n, m[n]>> \in same)
               /\ \A a, b : <<a, b>> \in same => m[a] = m[b]
  BY <1>1, SccMap
<1>3. \A a, b : <<a, b>> \in same => <<b, a>> \in same
  BY <1>1, SameCycle
<1>4. ASSUME NEW e \in prog.gep, Own(e), m[rep[e[1]]] # m[e[2]]
      PROVE  m[e[2]] = e[2] /\ \A y \in Reps : m[y] = e[2] => y = e[2]
  <2> DEFINE r == rep[e[1]]  v == e[2]
  <2>1. <<r, v>> \in DirectEdges /\ \A f \in DirectEdges : f[2] = v => f[1] = r
    <3> DEFINE g == <<rep[e[1]], e[2], e[3]>>
    <3>1. g \in gepE /\ g[1] = r /\ g[2] = v
      BY <1>4 DEF Own
    <3> HIDE DEF g
    <3> QED
      BY <1>4, <3>1 DEF Own, DirectEdges
  <2>2. \A x : <<x, v>> \notin same
    <3> SUFFICES ASSUME NEW x, <<x, v>> \in same PROVE FALSE
      OBVIOUS
    <3> HIDE DEF N, r, v
    <3>1. <<r, v>> \in same
      BY <1>1, <2>1, OneWayIn
    <3> HIDE DEF same
    <3> QED
      BY <1>2, <1>4, <3>1 DEF r, v
  <2>3. v \in Nodes /\ \A y \in Reps : y \in Nodes
    BY GepEnds DEF IndInv, Reps
  <2> HIDE DEF same, N, v
  <2>4. m[v] = v
    BY <1>2, <1>3, <2>2, <2>3
  <2>5. \A y \in Reps : m[y] = v => y = v
    BY <1>2, <2>2, <2>3
  <2> QED
    BY <2>4, <2>5 DEF v
<1>5. todo' = {} /\ prog' = prog
  BY DEF SccDetect, IndInv, RepConsistent
<1> HIDE DEF same, N
<1> QED
  BY <1>2, <1>4, <1>5, MergeGepsKept DEF IndInv

\* Collapsing an object merges nodes of objects, which no gep defines.
LEMMA CollapseFieldGepsKept ==
    ASSUME IndInv, GepsKept, CollapseField
    PROVE  GepsKept'
<1>1. PICK b \in toCollapse : MergeMap(BaseMap(b)) /\ MergeNodes(BaseMap(b), BasePts(b))
  BY CollapseMap
<1>2. PICK m, p : m = BaseMap(b) /\ p = BasePts(b)
  OBVIOUS
<1>3. b \in Others /\ \A f \in FieldsOf(b) : f \in Others
  BY GepEnds DEF IndInv, TypeOK, FieldsOf, Objs
<1>4. ASSUME NEW e \in prog.gep, Own(e)
      PROVE  m[e[2]] = e[2] /\ \A y \in Reps : m[y] = e[2] => y = e[2]
  <2>1. \A o \in Others : rep[o] # e[2]
    BY <1>4 DEF Own, Unmerged, Others, DefinedByGep
  <2>2. e[2] \in Nodes /\ \A y \in Reps : y \in Nodes
    BY GepEnds DEF IndInv, Reps
  <2> QED
    BY <1>2, <1>3, <2>1, <2>2 DEF BaseMap
<1>5. todo' = {} /\ prog' = prog
  BY DEF CollapseField, IndInv, RepConsistent
<1> QED
  BY <1>1, <1>2, <1>4, <1>5, MergeGepsKept DEF IndInv

LEMMA InitGepsKept ==
    ASSUME Init
    PROVE  GepsKept
<1>1. TypeOK
  BY InitOK DEF IndInv
<1>2. gepE = prog.gep
  <2>1. ASSUME NEW e \in prog.gep PROVE e \in gepE
    <3>1. PICK f \in gepE : SameEdge(e, f)
      BY DEF Init
    <3>2. f \in prog.gep /\ e[2] = f[2]
      BY <3>1 DEF Init, SameEdge
    <3> QED
      BY <1>1, <3>1, <3>2, GepEnds DEF IsProgram
  <2> QED
    BY <2>1 DEF Init
<1>3. (\A n \in Nodes : rep[n] = n) /\ todo = {} /\ copyE \subseteq prog.copy /\ loadE = prog.load
  BY DEF Init
<1>4. ASSUME NEW e \in prog.gep PROVE Own(e)
  <2>1. e[1] \in Nodes /\ e[2] \in Nodes /\ e = <<e[1], e[2], e[3]>> /\ e[2] \in DefinedByGep(prog)
    BY <1>1, GepEnds DEF DefinedByGep
  <2>2. \A f \in copyE \cup todo : f[2] # e[2]
    BY <1>1, <1>3, <2>1, GepEnds DEF IsProgram
  <2>3. \A g \in gepE : g[2] = e[2] => g[1] = e[1] /\ g[3] = e[3]
    BY <1>1, <1>2, GepEnds DEF IsProgram
  <2> QED
    BY <1>2, <1>3, <2>1, <2>2, <2>3 DEF Own, Unmerged
<1>5. \A l \in prog.load : l[2] \in Nodes
  BY <1>1, GepEnds DEF IsProgram, Nodes
<1>6. \A e \in prog.gep : e = <<rep[e[1]], rep[e[2]], e[3]>>
  BY <1>1, <1>3, GepEnds
<1> QED
  BY <1>2, <1>3, <1>4, <1>5, <1>6 DEF GepsKept

LEMMA PostProcessNodeGepsKept ==
    ASSUME IndInv, GepsKept, PostProcessNode
    PROVE  GepsKept'
<1>1. PICK n \in worklist : todo' = NewCopies(LoadCopies(rep[n]) \cup StoreCopies(rep[n]))
  BY DEF PostProcessNode
<1>2. IsProgram(prog) /\ Objs \subseteq Others /\ rep[n] \in Nodes /\ pts[rep[n]] \subseteq Objs
  BY GepEnds DEF IndInv, TypeOK
<1>3. ASSUME NEW f \in LoadCopies(rep[n]) \cup StoreCopies(rep[n])
      PROVE  \E v \in Others : f[2] = rep[v]
  <2>1. CASE f \in LoadCopies(rep[n])
    <3>1. PICK e \in loadE : f[2] = e[2]
      BY <2>1 DEF LoadCopies
    <3>2. PICK l \in prog.load : e[2] = rep[l[2]]
      BY DEF GepsKept
    <3> QED
      BY <1>2, <3>1, <3>2 DEF IsProgram, Others, Nodes
  <2>2. CASE f \in StoreCopies(rep[n])
    BY <1>2, <2>2 DEF StoreCopies
  <2> QED
    BY <2>1, <2>2
<1>4. UNCHANGED <<prog, rep, gepE, loadE, copyE, pwc>>
  BY DEF PostProcessNode, graph
<1>5. \A f \in copyE' \cup todo' : f \in copyE \cup todo \/ \E v \in Others : f[2] = rep[v]
  BY <1>1, <1>3, <1>4 DEF NewCopies
<1> QED
  BY <1>4, <1>5, StillOwn DEF IndInv

LEMMA UpdateCallGraphGepsKept ==
    ASSUME IndInv, GepsKept, UpdateCallGraph
    PROVE  GepsKept'
<1>1. todo' \subseteq UNION {ParamCopies(x[1], x[2]) : x \in NewCalls}
  BY CallsAdded DEF NewCopies
<1>2. ASSUME NEW x \in NewCalls, NEW f \in ParamCopies(x[1], x[2])
      PROVE  \E v \in Others : f[2] = rep[v]
  <2>1. x[1] \in prog.calls /\ x[2] \in DOMAIN prog.funs
    BY NewCallsAre DEF IndInv
  <2>2. x[1][3] \in Others /\ prog.funs[x[2]][1] \in Others
    BY <2>1, GepEnds DEF IndInv, IsProgram, Others, Nodes
  <2> QED
    BY <1>2, <2>2 DEF ParamCopies
<1>3. UNCHANGED <<prog, rep, gepE, loadE, copyE, pwc>>
  BY DEF UpdateCallGraph, graph
<1>4. \A f \in copyE' \cup todo' : f \in copyE \cup todo \/ \E v \in Others : f[2] = rep[v]
  BY <1>1, <1>2, <1>3
<1> QED
  BY <1>3, <1>4, StillOwn DEF IndInv

LEMMA NextGepsKept ==
    ASSUME IndInv, Placed, GepsKept, [Next]_vars
    PROVE  GepsKept'
<1>1. CASE SccDetect
  BY <1>1, SccDetectGepsKept
<1>2. CASE CollapseField
  BY <1>2, CollapseFieldGepsKept
<1>3. CASE PostProcessNode
  BY <1>3, PostProcessNodeGepsKept
<1>4. CASE UpdateCallGraph
  BY <1>4, UpdateCallGraphGepsKept
<1>5. CASE AddLoadStoreEdge \/ AddParamEdge
  <2>1. UNCHANGED <<prog, rep, gepE, loadE, pwc>> /\ copyE' \cup todo' \subseteq copyE \cup todo
    BY <1>5 DEF AddLoadStoreEdge, AddParamEdge, AddCopyEdge
  <2> QED
    BY <2>1, StillOwn DEF IndInv
<1>6. CASE PopNode \/ ProcessNode \/ EndWave \/ EndRound \/ UNCHANGED vars
  <2>1. UNCHANGED <<prog, rep, copyE, gepE, loadE, todo, pwc>>
    BY <1>6 DEF PopNode, ProcessNode, EndWave, EndRound, vars, graph
  <2> QED
    BY <2>1, StillOwn DEF IndInv
<1> QED
  BY <1>1, <1>2, <1>3, <1>4, <1>5, <1>6 DEF Next, Done

\* Every gep statement is still represented: although ConsG.h tells NormalGep edges
\* apart by their ends only, two geps never come to share both ends as long as these
\* are different nodes; and a critical gep whose ends were merged has flagged their
\* node as a PWC node, unless a gep of offset 0 from the same node, merged as well, may
\* have taken its place (hasEdge, moveInEdgesToRepNode).
THEOREM NoGepLostAlways == Spec => []NoGepLost
<1>1. Init => GepsKept
  BY InitGepsKept
<1>2. Closing /\ GepsKept /\ [Next]_vars => GepsKept'
  BY NextGepsKept DEF Closing
<1>3. GepsKept => NoGepLost
  BY DEF GepsKept, Noticed, Own, NoGepLost
<1> QED
  BY <1>1, <1>2, <1>3, ClosingAlways, PTL DEF Spec

-----------------------------------------------------------------------------
(***************************************************************************)
(* PWC nodes.  What a node flagged as a positive weight cycle points to is *)
(* collapsed before the node propagates it: when the wave comes to the     *)
(* node (collapsePWCNode), or when the node takes in others while an       *)
(* object is collapsed (the end of collapseField).                         *)
(***************************************************************************)
GivenUp(o) == BaseOf[o] \in insens \cup toCollapse \cup Opaque

PwcCollapsed ==
    /\ pc \in {"post", "calls", "done"} => stack = {}
    /\ \A n \in pwc : n \in stack \/ \A o \in propa[n] : GivenUp(o)
    /\ pc = "node" /\ cur \in pwc => \A o \in pts[cur] : GivenUp(o)

LEMMA SccDetectPwc ==
    ASSUME Closing, Closing', SccDetect
    PROVE  PwcCollapsed'
<1>1. PICK m : /\ MergeMap(m) /\ MergeNodes(m, pts)
               /\ stack' = {n \in Reps \cap GraphNodes : m[n] = n}
  BY SccMap DEF Closing
<1>2. pc' = "wave" /\ GraphNodes' = GraphNodes
  BY DEF SccDetect, GraphNodes
<1>3. ASSUME NEW n \in pwc', n \notin stack', NEW o \in propa'[n]
      PROVE  FALSE
  <2>1. n \in Reps' /\ n \in Nodes
    BY DEF Closing, IndInv, RepConsistent, TypeOK
  <2>2. n \in Reps /\ m[n] = n
    BY <1>1, <2>1, MergedReps DEF Closing, IndInv
  <2>3. n \notin GraphNodes'
    BY <1>1, <1>2, <1>3, <2>2
  <2>4. pts'[n] = {}
    BY <2>1, <2>3 DEF Closing, Placed
  <2>5. (Arrived(o, n))'
    BY <2>1 DEF Closing, IndInv, PropagatedArrived
  <2> QED
    BY <2>4, <2>5 DEF Arrived
<1> QED
  BY <1>2, <1>3 DEF PwcCollapsed

LEMMA PopNodePwc ==
    ASSUME Closing, PwcCollapsed, PopNode
    PROVE  PwcCollapsed'
<1>1. /\ UNCHANGED <<rep, pts, propa, pwc, insens>> /\ toCollapse = {} /\ pc' = "node"
  BY DEF PopNode, graph
<1>2. PICK n \in stack :
          /\ stack' = stack \ {n} /\ cur' = n
          /\ toCollapse' = IF rep[n] \in pwc THEN ToCollapse(pts[rep[n]], insens) ELSE {}
  BY DEF PopNode
<1>3. \A o : GivenUp(o) => GivenUp(o)'
  BY <1>1 DEF GivenUp
\* What n points to is collapsed now.
<1>4. ASSUME n \in pwc
      PROVE  (\A o \in pts[n] : GivenUp(o)') /\ \A o \in propa[n] : GivenUp(o)'
  <2>1. n \in Reps /\ rep[n] = n
    BY <1>4 DEF Closing, IndInv, RepConsistent, Reps
  <2>2. \A o \in pts[n] : GivenUp(o)'
    BY <1>1, <1>2, <1>4, <2>1 DEF ToCollapse, GivenUp
  <2>3. ASSUME NEW o \in propa[n] PROVE GivenUp(o)'
    <3>1. Arrived(o, n)
      BY <2>1 DEF Closing, IndInv, PropagatedArrived
    <3> QED
      BY <1>1, <2>2, <3>1 DEF Arrived, GivenUp
  <2> QED
    BY <2>2, <2>3
<1> QED
  BY <1>1, <1>2, <1>3, <1>4 DEF PwcCollapsed

LEMMA ProcessNodePwc ==
    ASSUME Closing, PwcCollapsed, ProcessNode
    PROVE  PwcCollapsed'
<1>1. /\ UNCHANGED <<pwc, stack, cur, rep>> /\ toCollapse = {} /\ pc = "node" /\ pc' = "wave"
  BY DEF ProcessNode
<1>2. CASE rep[cur] = cur
  <2>1. propa' = [propa EXCEPT ![cur] = pts[cur]] /\ insens \subseteq insens'
    BY <1>2 DEF ProcessNode
  <2>2. \A o : GivenUp(o) => GivenUp(o)'
    BY <1>1, <2>1 DEF GivenUp
  <2>3. ASSUME NEW n \in pwc PROVE propa'[n] = propa[n] \/ (n = cur /\ propa'[n] = pts[n])
    BY <2>1 DEF Closing, IndInv, TypeOK
  <2> QED
    BY <1>1, <2>2, <2>3 DEF PwcCollapsed
<1>3. CASE rep[cur] # cur
  <2>1. UNCHANGED <<propa, insens, toCollapse>>
    BY <1>3 DEF ProcessNode
  <2> QED
    BY <1>1, <2>1 DEF PwcCollapsed, GivenUp
<1> QED
  BY <1>2, <1>3

\* Only the node of the collapsed object takes others in, and it is collapsed at once
\* when it is a PWC node.
LEMMA CollapseFieldPwc ==
    ASSUME Closing, Closing', PwcCollapsed, CollapseField
    PROVE  PwcCollapsed'
<1>1. PICK b \in toCollapse :
              /\ MergeNodes(BaseMap(b), BasePts(b))
              /\ insens' = insens \cup {b}
              /\ toCollapse' = (toCollapse \ {b}) \cup
                                 (IF rep[b] \in pwc' THEN ToCollapse(pts'[rep[b]], insens') ELSE {})
  BY DEF CollapseField, BaseMap, BasePts, HoldersOf, FieldsOf
<1>2. UNCHANGED <<stack, cur, pc>>
  BY DEF CollapseField
<1>3. \A o : GivenUp(o) => GivenUp(o)'
  BY <1>1 DEF GivenUp
<1>4. b \in BaseObjs /\ BaseOf[b] = b /\ rep[b] \in Reps /\ rep[b] \in Nodes /\ cur \in Nodes
  BY ObjectsAssumption DEF Closing, IndInv, TypeOK, RepConsistent, Reps, Objs, Nodes
<1> DEFINE m == BaseMap(b)  p == BasePts(b)
<1>5. \A n \in Nodes : m[n] = n \/ m[n] = rep[b]
  BY DEF BaseMap
<1>6. m[rep[b]] = rep[b]
  BY <1>4 DEF BaseMap
<1>7. \A n \in Nodes : \A o \in p[n] : o \in pts[n] \/ o = b
  BY DEF BasePts
<1>8. propa' = MergedPropa(m) /\ pts' = MergedPts(m, p)
  BY <1>1 DEF MergeNodes
<1>9. ASSUME NEW n \in pwc', n # rep[b] PROVE n \in pwc /\ n \in Nodes
  <2>1. CASE \E y \in pwc : n = m[y]
    BY <1>5, <1>9, <2>1 DEF Closing, IndInv, TypeOK
  <2>2. CASE \E e \in Critical(m) : n = m[e[1]]
    <3>1. PICK e \in Critical(m) : n = m[e[1]]
      BY <2>2
    <3>2. e[1] \in Nodes /\ e[2] \in Nodes
      BY DEF Critical, Internal, Closing, IndInv, TypeOK
    <3>3. m[e[1]] = m[e[2]] /\ ~(m[e[1]] = e[1] /\ m[e[2]] = e[2])
      BY DEF Critical, Internal, Unmoved
    <3> HIDE DEF m
    <3> QED
      BY <1>5, <1>9, <3>1, <3>2, <3>3
  <2> HIDE DEF m
  <2> QED
    BY <1>1, <1>9, <2>1, <2>2, MergedPwc DEF m
<1>10. ASSUME rep[b] \in pwc'
       PROVE  (\A o \in pts'[rep[b]] : GivenUp(o)') /\ \A o \in propa'[rep[b]] : GivenUp(o)'
  <2>1. \A o \in pts'[rep[b]] : GivenUp(o)'
    BY <1>1, <1>10 DEF ToCollapse, GivenUp
  <2>2. rep[b] \in Reps'
    BY <1>10 DEF Closing, IndInv, RepConsistent
  <2>3. ASSUME NEW o \in propa'[rep[b]] PROVE GivenUp(o)'
    <3>1. \A n \in Reps' : \A x \in propa'[n] : (Arrived(x, n))'
      BY DEF Closing, IndInv, PropagatedArrived
    <3>2. \A x, n : (Arrived(x, n))' <=> x \in pts'[n] \/ (BaseOf[x] \in insens' /\ BaseOf[x] \in pts'[n])
      BY DEF Arrived
    <3>3. o \in pts'[rep[b]] \/ (BaseOf[o] \in insens' /\ BaseOf[o] \in pts'[rep[b]])
      BY <2>2, <2>3, <3>1, <3>2
    <3> QED
      BY <2>1, <3>3 DEF GivenUp
  <2> QED
    BY <2>1, <2>3
<1>11. ASSUME NEW n \in pwc', n \notin stack', NEW o \in propa'[n] PROVE GivenUp(o)'
  <2>1. CASE n = rep[b]
    BY <1>10, <1>11, <2>1
  <2>2. CASE n # rep[b]
    <3>1. o \in propa[n]
      BY <1>8, <1>9, <1>11, <2>2 DEF MergedPropa
    <3> QED
      BY <1>2, <1>3, <1>9, <1>11, <2>2, <3>1 DEF PwcCollapsed
  <2> QED
    BY <2>1, <2>2
<1>12. ASSUME pc = "node", cur \in pwc', NEW o \in pts'[cur] PROVE GivenUp(o)'
  <2>1. CASE cur = rep[b]
    BY <1>10, <1>12, <2>1
  <2>2. CASE cur # rep[b]
    <3>1. PICK y \in Nodes : o \in p[y] /\ (y = cur \/ m[y] = cur)
      BY <1>4, <1>8, <1>12 DEF MergedPts, Reps
    <3>2. y = cur
      BY <1>5, <2>2, <3>1
    <3>3. o \in pts[cur] \/ o = b
      BY <1>7, <3>1, <3>2
    <3> QED
      BY <1>1, <1>3, <1>4, <1>9, <1>12, <2>2, <3>3 DEF PwcCollapsed, GivenUp
  <2> QED
    BY <2>1, <2>2
<1> QED
  BY <1>2, <1>11, <1>12 DEF PwcCollapsed

LEMMA NextPwc ==
    ASSUME Closing, Closing', PwcCollapsed, [Next]_vars
    PROVE  PwcCollapsed'
<1>1. CASE SccDetect
  BY <1>1, SccDetectPwc
<1>2. CASE PopNode
  BY <1>2, PopNodePwc
<1>3. CASE ProcessNode
  BY <1>3, ProcessNodePwc
<1>4. CASE CollapseField
  BY <1>4, CollapseFieldPwc
<1>5. CASE AddLoadStoreEdge \/ AddParamEdge
  <2>1. UNCHANGED <<pts, pwc, insens, stack, cur, toCollapse, pc>>
    BY <1>5 DEF AddLoadStoreEdge, AddParamEdge
  <2>2. PICK e \in todo : propa' = [propa EXCEPT ![e[1]] = @ \cap propa[e[2]]]
    BY <1>5 DEF AddLoadStoreEdge, AddParamEdge, AddCopyEdge
  <2>3. \A n \in pwc : propa'[n] \subseteq propa[n]
    BY <2>2 DEF Closing, IndInv, TypeOK
  <2> QED
    BY <2>1, <2>3 DEF PwcCollapsed, GivenUp
<1>6. CASE EndWave \/ PostProcessNode \/ UpdateCallGraph \/ EndRound \/ UNCHANGED vars
  <2>1. UNCHANGED <<pts, propa, pwc, insens, stack, cur, toCollapse>>
    BY <1>6 DEF EndWave, PostProcessNode, UpdateCallGraph, EndRound, vars, graph
  <2>2. /\ pc' \in {"post", "calls", "done"} => pc \in {"post", "calls", "done"} \/ stack = {}
        /\ pc' = "node" => pc = "node"
    BY <1>6 DEF EndWave, PostProcessNode, UpdateCallGraph, EndRound, vars
  <2> QED
    BY <2>1, <2>2 DEF PwcCollapsed, GivenUp
<1> QED
  BY <1>1, <1>2, <1>3, <1>4, <1>5, <1>6 DEF Next, Done

\* No PWC node propagates a field: what it points to has been collapsed before.
THEOREM PwcCollapsedAlways == Spec => []PwcCollapsed
<1>1. Init => PwcCollapsed
  BY DEF Init, PwcCollapsed
<1>2. Closing /\ Closing' /\ PwcCollapsed /\ [Next]_vars => PwcCollapsed'
  BY NextPwc
<1> QED
  BY <1>1, <1>2, ClosingAlways, PTL DEF Spec

-----------------------------------------------------------------------------
\* When the solver stops its sets are closed under all edges of the graph.
LEMMA DoneCloses ==
    ASSUME Closing, pc = "done"
    PROVE  /\ \A e \in copyE : pts[e[1]] \subseteq pts[e[2]]
           /\ \A e \in gepE : \A o \in pts[e[1]] : GepTarget(o, e[3]) \in pts[e[2]]
           /\ \A n \in Nodes : \A o \in pts[n] : BaseOf[o] \in insens => o = BaseOf[o]
<1>1. IndInv /\ TypeOK /\ RepConsistent /\ PropagatedArrived
  BY DEF Closing, IndInv
<1>2. toCollapse = {}
  BY <1>1 DEF RepConsistent
<1>3. \A n \in Reps : pts[n] \subseteq propa[n]
  BY DEF Closing, LastRound
\* What points to an object that was given up, points to the object as a whole.
<1>4. ASSUME NEW n \in Nodes, NEW o \in pts[n], BaseOf[o] \in insens
      PROVE  o = BaseOf[o]
  <2>1. o \in Objs /\ o \notin FieldObjs
    BY <1>1, <1>2, <1>4 DEF TypeOK, Closing, Collapsing
  <2> QED
    BY <2>1, ObjectsAssumption DEF Objs
<1>5. ASSUME NEW e \in copyE, NEW o \in pts[e[1]] PROVE o \in pts[e[2]]
  <2>1. e[1] \in Reps /\ e[1] \in Nodes
    BY <1>1 DEF RepConsistent, Reps
  <2>2. Arrived(o, e[2])
    BY <1>1, <1>3, <2>1 DEF PropagatedArrived
  <2> QED
    BY <1>4, <2>1, <2>2 DEF Arrived
<1>6. ASSUME NEW e \in gepE, NEW o \in pts[e[1]] PROVE GepTarget(o, e[3]) \in pts[e[2]]
  <2>1. e[1] \in Reps /\ e[1] \in Nodes /\ e[3] \in Offsets /\ o \in Objs
    BY <1>1 DEF RepConsistent, Reps, TypeOK
  <2> DEFINE t == GepTarget(o, e[3])
  <2>2. Arrived(t, e[2])
    BY <1>2, <1>3, <2>1 DEF Closing, GepArrived, ArrivedAt
  <2>3. BaseOf[t] = BaseOf[o]
    BY <1>1, <2>1, GepTargetBase
  <2>4. BaseOf[o] \in insens => t = BaseOf[o]
    BY <1>4, <2>1 DEF GepTarget
  <2> QED
    BY <2>2, <2>3, <2>4 DEF Arrived
<1> QED
  BY <1>4, <1>5, <1>6

\* A gep whose ends were merged is met because what the PWC node points to was
\* collapsed, and has no fields left.
LEMMA DoneMeetsGeps ==
    ASSUME Closing, NoGepLost, PwcCollapsed
    PROVE  GepsMet
<1> SUFFICES ASSUME pc = "done", NEW e \in prog.gep,
                    ~(rep[e[1]] = rep[e[2]] /\ (e[3] = 0 \/ GoneUnder(e))),
                    NEW o \in pts[rep[e[1]]]
             PROVE  GepTarget(o, e[3]) \in pts[rep[e[2]]]
  BY DEF GepsMet
<1>1. TypeOK /\ RepConsistent /\ IsProgram(prog)
  BY ProgramsAssumption DEF Closing, IndInv, TypeOK
<1>2. CASE <<rep[e[1]], rep[e[2]], e[3]>> \in gepE
  <2> DEFINE g == <<rep[e[1]], rep[e[2]], e[3]>>
  <2>1. g \in gepE /\ g[1] = rep[e[1]] /\ g[2] = rep[e[2]] /\ g[3] = e[3]
    BY <1>2
  <2> HIDE DEF g
  <2> QED
    BY <2>1, DoneCloses
<1>3. CASE rep[e[1]] = rep[e[2]] /\ rep[e[1]] \in pwc
  <2>1. e[1] \in Nodes /\ rep[e[1]] \in Reps /\ rep[e[1]] \in Nodes
    BY <1>1 DEF IsProgram, Nodes, TypeOK, RepConsistent, Reps
  <2>2. stack = {} /\ toCollapse = {} /\ o \in propa[rep[e[1]]]
    BY <1>1, <2>1 DEF PwcCollapsed, RepConsistent, Closing, LastRound
  <2>3. BaseOf[o] \in insens \/ BaseOf[o] \in Opaque
    BY <1>3, <2>2 DEF PwcCollapsed, GivenUp
  <2>4. BaseOf[o] \in insens => o = BaseOf[o]
    BY <2>1, DoneCloses
  <2>5. GepTarget(o, e[3]) = o
    BY <2>3, <2>4 DEF GepTarget
  <2> QED
    BY <1>3, <2>5
<1> QED
  BY <1>2, <1>3 DEF NoGepLost

\* When the solver stops it has missed nothing: no statement, no round, no callee
\* within the limit, no load or store of a node that nothing was merged into, no
\* pointer to a field of an object that was given up.  Geps that have gone under in
\* one of offset 0, and those of offset 0 inside a cycle, are excepted (GepsMet).
THEOREM ResultClosesAlways == Spec => []ResultCloses
<1>1. ASSUME Closing, NoGepLost, PwcCollapsed PROVE ResultCloses
  <2>1. IndInv /\ RepConsistent
    BY <1>1 DEF Closing, IndInv
  <2>2. CopyGepClosed
    BY <1>1, DoneCloses DEF CopyGepClosed
  <2>3. ASSUME pc = "done", NEW e, Copied(e)
        PROVE  pts[e[1]] \subseteq pts[e[2]] /\ e \notin NewCopies({e})
    <3>1. todo = {}
      BY <1>1, <2>3 DEF Closing, LastRound
    <3> QED
      BY <1>1, <2>3, <3>1, DoneCloses DEF Copied, NewCopies
  <2>4. CallsResolved
    BY <1>1, <2>3 DEF CallsResolved, Closing, CallsJoined
  <2>5. LoadStoreClosedUnmerged
    <3> SUFFICES ASSUME pc = "done", NEW n \in Reps, Unmerged(n),
                        NEW e \in LoadCopies(n) \cup StoreCopies(n)
                 PROVE  e \notin NewCopies({e})
      BY DEF LoadStoreClosedUnmerged, LoadStoreClosedAt, Unmerged, NewCopies
    <3>1. worklist = {}
      BY <1>1 DEF Closing, LastRound
    <3> QED
      BY <1>1, <2>3, <3>1 DEF Closing, LoadsSeen
  <2>6. CollapsedGone
    BY <1>1 DEF Closing, Collapsing, CollapsedGone
  <2> QED
    BY <1>1, <2>2, <2>4, <2>5, <2>6, DoneMeetsGeps DEF ResultCloses, Closing
<1> QED
  BY <1>1, ClosingAlways, NoGepLostAlways, PwcCollapsedAlways, PTL

\* The pointer assignments of the program, each read as what it asks of the final
\* points-to sets.
Solved ==
    /\ \A e \in prog.addr : e[1] \in pts[rep[e[2]]]
    /\ \A e \in prog.copy : pts[rep[e[1]]] \subseteq pts[rep[e[2]]]
    /\ \A e \in prog.gep :
          \/ \A o \in pts[rep[e[1]]] : GepTarget(o, e[3]) \in pts[rep[e[2]]]
          \/ rep[e[1]] = rep[e[2]] /\ (e[3] = 0 \/ GoneUnder(e))
    /\ \A e \in prog.load : Unmerged(rep[e[1]]) =>
          \A o \in pts[rep[e[1]]] \ Constants : pts[rep[o]] \subseteq pts[rep[e[2]]]
    /\ \A e \in prog.store : Unmerged(rep[e[2]]) =>
          \A o \in pts[rep[e[2]]] \ Constants : pts[rep[e[1]]] \subseteq pts[rep[o]]
    /\ \A x \in prog.matchArgs : x[2] \in pts[rep[x[1][1]]] =>
          \/ /\ pts[rep[x[1][2]]] \subseteq pts[rep[prog.funs[x[2]][1]]]
             /\ pts[rep[prog.funs[x[2]][2]]] \subseteq pts[rep[x[1][3]]]
          \/ x \notin calls /\ Cardinality(calls) = IndirectCallLimit

\* Soundness: the points-to sets the solver stops with satisfy every address-of, copy,
\* gep, load, store and indirect call of the program, at the representatives of its
\* operands.  Left out are a gep inside a merged cycle when its offset is 0 or it has
\* gone under in one of offset 0, loads and stores through a node that others were
\* merged into (LoadStoreClosed), and calls beyond the limit or with other numbers of
\* arguments.
THEOREM SolvedAlways == Spec => [](pc = "done" => Solved)
<1>1. ASSUME Closing, pc = "done", NoGepLost, PwcCollapsed PROVE Solved
  <2>1. TypeOK /\ RepConsistent /\ IsProgram(prog)
    BY <1>1, ProgramsAssumption DEF Closing, IndInv, TypeOK
  <2>2. todo = {} /\ worklist = {}
    BY <1>1 DEF Closing, LastRound
  <2>3. ASSUME NEW e, Copied(e) PROVE pts[e[1]] \subseteq pts[e[2]]
    BY <1>1, <2>2, <2>3, DoneCloses DEF Copied
  <2>4. ASSUME NEW a, NEW b, Copied(<<a, b>>) PROVE pts[a] \subseteq pts[b]
    <3> DEFINE e == <<a, b>>
    <3>1. Copied(e) /\ e[1] = a /\ e[2] = b
      BY <2>4
    <3> HIDE DEF e
    <3> QED
      BY <2>3, <3>1
  <2>5. \A e \in prog.addr : e[1] \in pts[rep[e[2]]]
    BY <1>1 DEF Closing, StatementsKept
  <2>6. \A e \in prog.copy : pts[rep[e[1]]] \subseteq pts[rep[e[2]]]
    <3> SUFFICES ASSUME NEW e \in prog.copy PROVE Copied(<<rep[e[1]], rep[e[2]]>>)
      BY <2>4
    <3> QED
      BY <1>1 DEF Closing, StatementsKept, Copied
  <2>7. \A e \in prog.gep :
           \/ \A o \in pts[rep[e[1]]] : GepTarget(o, e[3]) \in pts[rep[e[2]]]
           \/ rep[e[1]] = rep[e[2]] /\ (e[3] = 0 \/ GoneUnder(e))
    BY <1>1, DoneMeetsGeps DEF GepsMet
  <2>8. ASSUME NEW n \in Reps, Unmerged(n), NEW e \in LoadCopies(n) \cup StoreCopies(n)
        PROVE  pts[e[1]] \subseteq pts[e[2]]
    BY <1>1, <2>2, <2>3, <2>8 DEF Closing, LoadsSeen
  <2>9. \A n \in Nodes : rep[n] \in Reps
    BY <2>1 DEF TypeOK, RepConsistent, Reps
  <2>10. ASSUME NEW l \in prog.load, Unmerged(rep[l[1]]), NEW o \in pts[rep[l[1]]] \ Constants
         PROVE  pts[rep[o]] \subseteq pts[rep[l[2]]]
    <3> DEFINE x == <<rep[l[1]], rep[l[2]]>>
               e == <<rep[o], rep[l[2]]>>
    <3>1. x \in loadE /\ x[1] = rep[l[1]] /\ x[2] = rep[l[2]]
      BY <1>1 DEF Closing, StatementsKept
    <3> HIDE DEF x
    <3>2. e \in LoadCopies(rep[l[1]]) /\ e[1] = rep[o] /\ e[2] = rep[l[2]]
      BY <3>1 DEF LoadCopies
    <3> HIDE DEF e
    <3>3. rep[l[1]] \in Reps
      BY <2>1, <2>9 DEF IsProgram, Nodes
    <3> QED
      BY <2>8, <2>10, <3>2, <3>3
  <2>11. ASSUME NEW s \in prog.store, Unmerged(rep[s[2]]), NEW o \in pts[rep[s[2]]] \ Constants
         PROVE  pts[rep[s[1]]] \subseteq pts[rep[o]]
    <3> DEFINE x == <<rep[s[1]], rep[s[2]]>>
               e == <<rep[s[1]], rep[o]>>
    <3>1. x \in storeE /\ x[1] = rep[s[1]] /\ x[2] = rep[s[2]]
      BY <1>1 DEF Closing, StatementsKept
    <3> HIDE DEF x
    <3>2. e \in StoreCopies(rep[s[2]]) /\ e[1] = rep[s[1]] /\ e[2] = rep[o]
      BY <3>1 DEF StoreCopies
    <3> HIDE DEF e
    <3>3. rep[s[2]] \in Reps
      BY <2>1, <2>9 DEF IsProgram, Nodes
    <3> QED
      BY <2>8, <2>11, <3>2, <3>3
  <2>12. ASSUME NEW x \in prog.matchArgs, x[2] \in pts[rep[x[1][1]]],
                ~(x \notin calls /\ Cardinality(calls) = IndirectCallLimit)
         PROVE  /\ pts[rep[x[1][2]]] \subseteq pts[rep[prog.funs[x[2]][1]]]
                /\ pts[rep[prog.funs[x[2]][2]]] \subseteq pts[rep[x[1][3]]]
    <3>1. x \in calls
      <4>1. NewCalls = {} \/ Cardinality(calls) = IndirectCallLimit
        BY <1>1 DEF Closing, CallsJoined
      <4>2. x \notin calls => x \in NewCalls
        BY <2>12 DEF NewCalls
      <4> QED
        BY <2>12, <4>1, <4>2
    <3>2. \A e \in ParamCopies(x[1], x[2]) : Copied(e)
      BY <1>1, <3>1 DEF Closing, CallsJoined
    <3>3. /\ Copied(<<rep[x[1][2]], rep[prog.funs[x[2]][1]]>>)
          /\ Copied(<<rep[prog.funs[x[2]][2]], rep[x[1][3]]>>)
      BY <3>2 DEF ParamCopies
    <3> QED
      BY <2>4, <3>3
  <2> QED
    BY <2>5, <2>6, <2>7, <2>10, <2>11, <2>12 DEF Solved
<1> QED
  BY <1>1, ClosingAlways, NoGepLostAlways, PwcCollapsedAlways, PTL
=============================================================================
