------------------------- MODULE ModRefAnalysis_proofs -------------------------
(***************************************************************************)
(* Proofs about the detection of components, about the chains and the      *)
(* effects that memory regions are made from, and about the regions.       *)
(*                                                                         *)
(* First: Nuutila's detection is right on every finite graph, whatever the *)
(* order of nodes and children.  The invariant is Tarjan's: an open node   *)
(* reaches every node visited after it, and a finished one reaches a node  *)
(* that is still on the recursion.                                         *)
(***************************************************************************)
EXTENDS SVFGRun, Digraphs_proofs, SequenceTheorems

Leads(m, n) == m = n \/ <<m, n>> \in Reach[edges]
Gray    == {path[i].node : i \in 1 .. Len(path)}
Stacked == {SS[i] : i \in 1 .. Len(SS)}
Open    == Visited \ inSCC
rep     == info.rep

SccType ==
    /\ edges \in Graphs /\ start \subseteq Nodes /\ inSCC \subseteq Nodes
    /\ info \in [rep : [Nodes -> Nodes], subNodes : [Nodes -> SUBSET Nodes], repNodes : SUBSET Nodes]
    /\ D \in [Nodes -> Nat] /\ SS \in Seq(Nodes) /\ T \in Seq(Nodes)
    /\ path \in Seq([node : Nodes, todo : SUBSET Nodes])
    /\ pc \in {"idle", "find", "done"} /\ (pc # "find" => path = <<>>)

Numbered ==
    /\ \A n \in Nodes : D[n] <= Cardinality(Visited)
    /\ \A m, n \in Visited : D[m] = D[n] => m = n

Split == \A p \in Gray : \A j, k \in 1 .. Len(SS) : j < k /\ D[SS[j]] > D[p] => D[SS[k]] > D[p]
Stacks ==
    /\ inSCC \subseteq Visited /\ Open = Gray \cup Stacked /\ Gray \cap Stacked = {}
    /\ \A i, j \in 1 .. Len(path) : i < j => D[path[i].node] < D[path[j].node]
    /\ \A i \in 1 .. Len(path) : path[i].todo \subseteq Children(path[i].node)
    /\ \A i \in 1 .. Len(path) - 1 : path[i + 1].node \in path[i].todo
    /\ \A i, j \in 1 .. Len(SS) : SS[i] = SS[j] => i = j
    /\ Split

Ranked ==
    /\ \A n \in Open : rep[n] \in Open /\ D[rep[n]] <= D[n] /\ Leads(n, rep[n])
    /\ \A n \in Stacked : rep[n] # n

Seen(u, w) == w \in Visited /\ (w \in inSCC \/ D[rep[u]] <= D[w])
ChildrenSeen ==
    /\ \A i \in 1 .. Len(path) : \A w \in Children(path[i].node) \ path[i].todo : Seen(path[i].node, w)
    /\ \A u \in Stacked : \A w \in Children(u) : Seen(u, w)

InFrame(u, i) == D[path[i].node] < D[u] /\ (i < Len(path) => D[u] < D[path[i + 1].node])
Low == \A i \in 1 .. Len(path) : \A u \in Stacked : InFrame(u, i) => D[rep[path[i].node]] <= D[rep[u]]

Ahead == \A u \in Open, v \in Visited : D[u] <= D[v] => Leads(u, v)
Back  == \A u \in Stacked : \E p \in Gray : D[p] < D[u] /\ Leads(u, p)

Complete(n) ==
    /\ Children(n) \subseteq inSCC
    /\ rep[n] \in inSCC /\ rep[rep[n]] = rep[n]
    /\ \A m \in Nodes : m \in inSCC /\ rep[m] = rep[n] <=> Together(m, n)
    /\ subNodes(n) = IF rep[n] = n THEN Component(n) ELSE {}
    /\ n \in info.repNodes <=> rep[n] = n /\ Component(n) # {n}
Tentative(n) ==
    /\ subNodes(n) \subseteq Component(n)
    /\ n \in info.repNodes => Component(n) # {n}

Collected ==
    /\ \A n \in inSCC : Complete(n)
    /\ \A n \in Nodes \ inSCC : Tentative(n)

Ordered ==
    /\ {T[i] : i \in 1 .. Len(T)} = {n \in inSCC : rep[n] = n}
    /\ \A i, j \in 1 .. Len(T) : i < j => T[i] # T[j] /\ <<T[i], T[j]>> \notin Reach[edges]

Started ==
    /\ Visited \subseteq ReachedFrom(start, Reach[edges])
    /\ pc = "done" => start \subseteq Visited

Kept == info.repNodes \subseteq Visited

SccInv ==
    /\ SccType /\ Kept /\ Numbered /\ Stacks /\ Ranked /\ ChildrenSeen
    /\ Low /\ Ahead /\ Back /\ Collected /\ Ordered /\ Started

-----------------------------------------------------------------------------
(***************************************************************************)
(* Reachability.                                                           *)
(***************************************************************************)
LEMMA ReachFacts ==
    ASSUME edges \in Graphs
    PROVE  /\ edges \in SUBSET (Nodes \X Nodes) /\ Reach[edges] \in SUBSET (Nodes \X Nodes)
           /\ edges \subseteq Reach[edges] /\ Transitive(Reach[edges])
           /\ \A R \in SUBSET (Nodes \X Nodes) : edges \subseteq R /\ Transitive(R) => Reach[edges] \subseteq R
<1>1. IsFiniteSet(Nodes) /\ edges \in SUBSET (Nodes \X Nodes) /\ Reach[edges] = Closure(edges, Nodes)
  BY GraphsAssumption DEF Reach
<1> QED
  BY <1>1, ClosureLeast

LEMMA ReachesOn ==
    ASSUME edges \in Graphs
    PROVE  /\ \A m, n : <<m, n>> \in edges => Leads(m, n)
           /\ \A l, m, n : Leads(l, m) /\ Leads(m, n) => Leads(l, n)
BY ReachFacts DEF Leads, Transitive

LEMMA ChildEdge ==
    ASSUME edges \in Graphs, NEW m, NEW n \in Children(m)
    PROVE  /\ <<m, n>> \in edges /\ m \in Nodes /\ n \in Nodes
           /\ <<m, n>> \in Reach[edges] /\ Leads(m, n)
<1>1. edges \in SUBSET (Nodes \X Nodes) /\ edges \subseteq Reach[edges]
  BY ReachFacts
<1>2. <<m, n>> \in edges /\ m \in Nodes /\ n \in Nodes
  BY <1>1 DEF Children
<1> QED
  BY <1>1, <1>2 DEF Leads

LEMMA ReachesWithin ==
    ASSUME edges \in Graphs, NEW K \in SUBSET Nodes, \A m \in K : Children(m) \subseteq K
    PROVE  \A m \in K : \A n : Leads(m, n) => n \in K
<1> DEFINE R == {e \in Nodes \X Nodes : e[1] \in K => e[2] \in K}
<1>1. edges \subseteq R /\ Transitive(R) /\ R \in SUBSET (Nodes \X Nodes)
  BY ReachFacts DEF Children, Transitive
<1>2. Reach[edges] \subseteq R
  <2> HIDE DEF R
  <2> QED
    BY <1>1, ReachFacts
<1> QED
  BY <1>2 DEF Leads

LEMMA TogetherReaches == \A m, n : Together(m, n) <=> Leads(m, n) /\ Leads(n, m)
BY DEF Together, Leads

\* A path has a first edge.
LEMMA FirstEdge ==
    ASSUME edges \in Graphs, NEW m, NEW n, <<m, n>> \in Reach[edges]
    PROVE  \E l \in Children(m) : Leads(l, n)
<1> DEFINE R == {e \in Nodes \X Nodes : \E l \in Children(e[1]) : Leads(l, e[2])}
<1>1. edges \subseteq R
  <2> SUFFICES ASSUME NEW e \in edges PROVE e \in R
    OBVIOUS
  <2>1. e \in Nodes \X Nodes /\ e[2] \in Children(e[1]) /\ Leads(e[2], e[2])
    BY ReachFacts DEF Children, Leads
  <2> QED
    BY <2>1
<1>2. Transitive(R)
  <2> SUFFICES ASSUME NEW a, NEW b, NEW c, <<a, b>> \in R, <<b, c>> \in R PROVE <<a, c>> \in R
    BY DEF Transitive
  <2>1. PICK l \in Children(a) : Leads(l, b)
    OBVIOUS
  <2>2. PICK k \in Children(b) : Leads(k, c)
    OBVIOUS
  <2>3. <<b, k>> \in edges
    BY <2>2, ReachFacts DEF Children
  <2>4. Leads(l, c)
    BY <2>1, <2>2, <2>3, ReachesOn
  <2> QED
    BY <2>1, <2>4
<1>3. Reach[edges] \subseteq R
  <2>1. R \in SUBSET (Nodes \X Nodes)
    OBVIOUS
  <2> HIDE DEF R
  <2> QED
    BY <1>1, <1>2, <2>1, ReachFacts
<1>4. <<m, n>> \in R
  BY <1>3
<1> QED
  BY <1>4

LEMMA SameGraph ==
    ASSUME edges' = edges
    PROVE  /\ Reach[edges]' = Reach[edges]
           /\ \A m, n : Leads(m, n)' = Leads(m, n) /\ Together(m, n)' = Together(m, n)
           /\ \A n : Children(n)' = Children(n) /\ Component(n)' = Component(n)
BY DEF Reach, Leads, Together, Children, Component

-----------------------------------------------------------------------------
(***************************************************************************)
(* Stacks.                                                                 *)
(***************************************************************************)
Frames == [node : Nodes, todo : SUBSET Nodes]

LEMMA HandledFrames ==
    ASSUME NEW p \in Seq(Frames), p # <<>>, NEW w
    PROVE  /\ Handled(w, p) \in Seq(Frames) /\ Len(Handled(w, p)) = Len(p)
           /\ \A i \in 1 .. Len(p) :
                 /\ Handled(w, p)[i].node = p[i].node
                 /\ Handled(w, p)[i].todo = IF i = Len(p) THEN p[i].todo \ {w} ELSE p[i].todo
<1>1. /\ Len(p) \in 1 .. Len(p) /\ p[Len(p)] \in Frames /\ \A i \in 1 .. Len(p) : p[i] \in Frames
  BY EmptySeq, LenProperties
<1> DEFINE e == [p[Len(p)] EXCEPT !.todo = @ \ {w}]
<1>2. /\ e \in Frames /\ e.node = p[Len(p)].node /\ e.todo = p[Len(p)].todo \ {w}
      /\ Handled(w, p) = [p EXCEPT ![Len(p)] = e]
  BY <1>1 DEF Handled, Frames
<1> DEFINE l == Len(p)
<1> HIDE DEF e, l
<1>3. l \in 1 .. Len(p) /\ [p EXCEPT ![l] = e] = Handled(w, p)
  BY <1>1, <1>2 DEF l
<1>4. /\ [p EXCEPT ![l] = e] \in Seq(Frames) /\ Len([p EXCEPT ![l] = e]) = Len(p)
      /\ \A j \in 1 .. Len(p) : [p EXCEPT ![l] = e][j] = IF j = l THEN e ELSE p[j]
  BY <1>2, <1>3, ExceptSeq
<1> QED
  BY <1>1, <1>2, <1>3, <1>4 DEF l

LEMMA CallersFrames ==
    ASSUME path \in Seq(Frames), path # <<>>
    PROVE  /\ Callers \in Seq(Frames) /\ Len(Callers) = Len(path) - 1 /\ Len(path) \in Nat \ {0}
           /\ \A i \in 1 .. Len(path) - 1 : Callers[i] = path[i]
           /\ Callers = <<>> <=> Len(path) = 1
<1>1. Len(path) \in Nat \ {0} /\ \A i \in 1 .. Len(path) : path[i] \in Frames
  BY EmptySeq, LenProperties
<1> DEFINE n == Len(path) - 1
           q == SubSeq(path, 1, n)
<1>2. n \in Nat /\ \A i \in 1 .. n : path[i] \in Frames
  BY <1>1
<1> HIDE DEF n
<1>3. /\ q \in Seq(Frames) /\ Len(q) = (IF 1 <= n THEN n - 1 + 1 ELSE 0)
      /\ \A i \in 1 .. n - 1 + 1 : q[i] = path[1 + i - 1]
  BY ONLY <1>2, SubSeqProperties, SMTT(30)
<1>4. Len(q) = n /\ \A i \in 1 .. n : q[i] = path[i]
  BY <1>2, <1>3
<1>5. q = <<>> <=> n = 0
  BY <1>3, <1>4, EmptySeq
<1> HIDE DEF q
<1>6. Callers = q
  BY DEF Callers, q, n
<1>7. Len(path) = n + 1
  BY <1>1 DEF n
<1> QED
  BY <1>1, <1>2, <1>3, <1>4, <1>5, <1>6, <1>7

\* Unfinished segments of 1 .. n have an end.
LEMMA SegmentEnd ==
    ASSUME NEW n \in Nat, NEW L \in SUBSET (1 .. n), \A i, j \in 1 .. n : i < j /\ j \in L => i \in L
    PROVE  \E k \in 0 .. n : L = 1 .. k
<1> DEFINE C == {1 .. j : j \in L \cup {0}}
<1>1. C \in SUBSET SUBSET (1 .. n) /\ C # {}
  OBVIOUS
<1>2. IsFiniteSet(1 .. n)
  BY FS_Interval
<1>3. PICK m \in C : \A x \in C : m \subseteq x => x = m
  <2> DEFINE U == 1 .. n
  <2>1. IsFiniteSet(U) /\ C \in SUBSET SUBSET U /\ C # {}
    BY <1>1, <1>2
  <2> HIDE DEF C, U
  <2> QED
    BY <2>1, MaximalSubset
<1>4. PICK k \in L \cup {0} : m = 1 .. k
  BY <1>3
<1>5. ASSUME NEW j \in L PROVE j <= k
  <2>1. 1 .. j \in C
    OBVIOUS
  <2>2. j > k => 1 .. k \subseteq 1 .. j
    OBVIOUS
  <2>3. j > k => 1 .. j = 1 .. k
    BY <1>3, <1>4, <2>1, <2>2
  <2> QED
    BY <2>3
<1>6. k \in 0 .. n /\ \A i \in 1 .. k : i \in L
  OBVIOUS
<1> HIDE DEF C
<1>7. L \subseteq 1 .. k
  BY <1>5, <1>6
<1>8. 1 .. k \subseteq L
  BY <1>6
<1> QED
  BY <1>6, <1>7, <1>8

-----------------------------------------------------------------------------
(***************************************************************************)
(* What the three ways of giving nodes a representative do to the results. *)
(***************************************************************************)
Infos == [rep : [Nodes -> Nodes], subNodes : [Nodes -> SUBSET Nodes], repNodes : SUBSET Nodes]

LEMMA SetRepTyped ==
    ASSUME NEW s \in Infos, NEW ns \in SUBSET Nodes, NEW r \in Nodes
    PROVE  SetRep(ns, r, s) \in Infos
BY DEF SetRep, Infos

LEMMA CompleteNext ==
    ASSUME edges' = edges, NEW n \in Nodes, Children(n) \subseteq inSCC',
           info'.rep[n] \in inSCC', info'.rep[info'.rep[n]] = info'.rep[n],
           \A m \in Nodes : m \in inSCC' /\ info'.rep[m] = info'.rep[n] <=> Together(m, n),
           info'.subNodes[n] = IF info'.rep[n] = n THEN Component(n) ELSE {},
           n \in info'.repNodes <=> info'.rep[n] = n /\ Component(n) # {n}
    PROVE  Complete(n)'
<1>1. Children(n)' = Children(n) /\ Component(n)' = Component(n) /\ \A m : Together(m, n)' = Together(m, n)
  BY SameGraph
<1>2. \A m \in Nodes : m \in inSCC' /\ info'.rep[m] = info'.rep[n] <=> Together(m, n)'
  BY <1>1
<1> QED
  BY <1>1, <1>2 DEF Complete, rep, subNodes

LEMMA CompleteAsBefore ==
    ASSUME edges' = edges, inSCC' = inSCC, NEW n \in Nodes, Complete(n),
           info'.rep[n] = info.rep[n], info'.rep[info.rep[n]] = info.rep[info.rep[n]],
           \A m \in Nodes : m \in inSCC => info'.rep[m] = info.rep[m],
           info'.subNodes[n] = info.subNodes[n], n \in info'.repNodes <=> n \in info.repNodes
    PROVE  Complete(n)'
<1>1. /\ Children(n) \subseteq inSCC' /\ info'.rep[n] \in inSCC' /\ info'.rep[info'.rep[n]] = info'.rep[n]
      /\ \A m \in Nodes : m \in inSCC' /\ info'.rep[m] = info'.rep[n] <=> Together(m, n)
      /\ info'.subNodes[n] = IF info'.rep[n] = n THEN Component(n) ELSE {}
      /\ n \in info'.repNodes <=> info'.rep[n] = n /\ Component(n) # {n}
  BY DEF Complete, rep, subNodes
<1> QED
  BY <1>1, CompleteNext

LEMMA TentativeNext ==
    ASSUME edges' = edges, NEW n \in Nodes, info'.subNodes[n] \subseteq Component(n),
           n \in info'.repNodes => Component(n) # {n}
    PROVE  Tentative(n)'
BY SameGraph DEF Tentative, subNodes

LEMMA InfoEntered ==
    ASSUME SccType, Collected, edges' = edges, inSCC' = inSCC, NEW v \in Nodes \ inSCC,
           info' = SetRep({v}, v, info)
    PROVE  /\ Collected' /\ info' \in Infos /\ info'.repNodes = info.repNodes
           /\ \A n \in Nodes : rep'[n] = IF n = v THEN v ELSE rep[n]
<1>1. info' \in Infos
  BY SetRepTyped DEF SccType, Infos
<1>2. /\ \A n \in Nodes : /\ info'.rep[n] = IF n = v THEN v ELSE info.rep[n]
                          /\ info'.subNodes[n] = IF n = v THEN info.subNodes[n] \cup {v} ELSE info.subNodes[n]
      /\ info'.repNodes = info.repNodes
  BY DEF SetRep
<1>3. ASSUME NEW n \in inSCC PROVE Complete(n)'
  <2>1. Complete(n) /\ n \in Nodes /\ n # v
    BY DEF Collected, SccType
  <2>2. info.rep[n] \in inSCC /\ info.rep[n] \in Nodes /\ info.rep[n] # v
    BY <2>1 DEF Complete, SccType, rep
  <2>3. info'.rep[n] = info.rep[n] /\ info'.rep[info.rep[n]] = info.rep[info.rep[n]]
    BY <1>2, <2>1, <2>2
  <2>4. \A m \in Nodes : m \in inSCC => info'.rep[m] = info.rep[m]
    BY <1>2
  <2> QED
    BY <1>2, <2>1, <2>2, <2>3, <2>4, CompleteAsBefore
<1>4. ASSUME NEW n \in Nodes \ inSCC PROVE Tentative(n)'
  <2>1. v \in Component(v) /\ Tentative(n)
    BY DEF Component, Together, Collected
  <2> QED
    BY <1>2, <2>1, TentativeNext DEF Tentative, subNodes
<1> QED
  BY <1>1, <1>2, <1>3, <1>4 DEF Collected, rep

\* w is a child of p; p's representative gets earlier.
LEMMA InfoCompared ==
    ASSUME SccType, Stacks, Ranked, Ahead, Collected, edges' = edges, inSCC' = inSCC,
           NEW p \in Open, NEW w \in Open, <<p, w>> \in edges,
           info' = SetRep({p}, Earlier(info, p, w), info)
    PROVE  /\ Collected' /\ info' \in Infos /\ info'.repNodes \subseteq info.repNodes \cup Open
           /\ \A n \in Nodes : n # p => rep'[n] = rep[n]
           /\ rep'[p] \in Open /\ D[rep'[p]] <= D[rep[p]] /\ D[rep'[p]] <= D[rep[w]] /\ Leads(p, rep'[p])
<1> DEFINE r == Earlier(info, p, w)
<1>1. Open \subseteq Nodes /\ Open \cap inSCC = {} /\ D \in [Nodes -> Nat] /\ info \in Infos /\ edges \in Graphs
  BY DEF SccType, Open, Visited, Infos
<1>2. r \in Open /\ D[r] <= D[rep[p]] /\ D[r] <= D[rep[w]] /\ Leads(p, r)
  <2>1. Leads(p, w) /\ Leads(w, rep[w]) /\ Leads(p, rep[p]) /\ rep[w] \in Open /\ rep[p] \in Open
    BY <1>1, ReachesOn DEF Ranked
  <2>2. Leads(p, rep[w])
    BY <1>1, <2>1, ReachesOn
  <2>3. D[rep[w]] \in Nat /\ D[rep[p]] \in Nat
    BY <1>1, <2>1
  <2> QED
    BY <2>1, <2>2, <2>3 DEF Earlier, rep
<1>3. Together(p, r)
  <2>1. D[r] <= D[p]
    BY <1>1, <1>2 DEF Ranked
  <2>2. Leads(r, p)
    BY <1>1, <1>2, <2>1 DEF Ahead, Open
  <2> QED
    BY <1>2, <2>2, TogetherReaches
<1> HIDE DEF r
<1>4. info' = SetRep({p}, r, info)
  BY DEF r
<1>5. info' \in Infos
  BY <1>1, <1>2, <1>4, SetRepTyped
<1>6. /\ \A n \in Nodes : /\ info'.rep[n] = IF n = p THEN r ELSE info.rep[n]
                          /\ info'.subNodes[n] = IF n = r THEN info.subNodes[n] \cup {p}
                                                 ELSE IF n = p THEN {} ELSE info.subNodes[n]
      /\ info'.repNodes = IF p = r THEN info.repNodes ELSE (info.repNodes \ {p}) \cup {r}
  <2> DEFINE ns == {p}
  <2>1. info' = SetRep(ns, r, info)
    BY <1>4
  <2> HIDE DEF ns
  <2>2. info'.rep = [n \in Nodes |-> IF n \in ns THEN r ELSE info.rep[n]]
    BY ONLY <2>1 DEF SetRep
  <2>3. info'.subNodes = [n \in Nodes |-> IF n = r THEN info.subNodes[n] \cup ns
                                           ELSE IF n \in ns THEN {} ELSE info.subNodes[n]]
    BY ONLY <2>1 DEF SetRep
  <2>4. info'.repNodes = IF ns \subseteq {r} THEN info.repNodes ELSE (info.repNodes \ ns) \cup {r}
    BY ONLY <2>1 DEF SetRep
  <2>5. ns = {p} /\ (ns \subseteq {r} <=> p = r)
    BY DEF ns
  <2> QED
    BY <2>2, <2>3, <2>4, <2>5
<1>7. ASSUME NEW n \in inSCC PROVE Complete(n)'
  <2>1. n # p /\ n # r /\ n \in Nodes /\ Complete(n)
    BY <1>1, <1>2 DEF SccType, Collected
  <2>2. info.rep[n] \in inSCC /\ info.rep[n] \in Nodes /\ info.rep[n] # p
    BY <1>1, <2>1 DEF Complete, SccType, rep
  <2>3. info'.rep[n] = info.rep[n] /\ info'.rep[info.rep[n]] = info.rep[info.rep[n]]
    BY <1>6, <2>1, <2>2
  <2>4. \A m \in Nodes : m \in inSCC => info'.rep[m] = info.rep[m]
    BY <1>1, <1>6
  <2>5. info'.subNodes[n] = info.subNodes[n] /\ (n \in info'.repNodes <=> n \in info.repNodes)
    BY <1>6, <2>1
  <2> QED
    BY <2>1, <2>2, <2>3, <2>4, <2>5, CompleteAsBefore
<1>8. ASSUME NEW n \in Nodes \ inSCC PROVE Tentative(n)'
  <2>1. p \in Component(r)
    BY <1>1, <1>3 DEF Component
  <2>2. p # r => Component(r) # {r}
    BY <2>1
  <2>3. Tentative(n)
    BY DEF Collected
  <2>4. info'.subNodes[n] \subseteq Component(n)
    BY <1>6, <2>1, <2>3 DEF Tentative, subNodes
  <2>5. n \in info'.repNodes => Component(n) # {n}
    BY <1>6, <2>2, <2>3 DEF Tentative
  <2> QED
    BY <2>4, <2>5, TentativeNext
<1>9. info'.repNodes \subseteq info.repNodes \cup Open
  BY <1>2, <1>6
<1> QED
  BY <1>1, <1>2, <1>5, <1>6, <1>7, <1>8, <1>9 DEF Collected, rep

\* The members M of a component become complete, with representative v.
LEMMA InfoCompleted ==
    ASSUME SccType, Collected, edges' = edges, NEW M \in SUBSET (Nodes \ inSCC), NEW v \in M,
           \A n \in M : Children(n) \subseteq inSCC \cup M /\ Component(n) = M,
           inSCC' = inSCC \cup M, info' = SetRep(M, v, info)
    PROVE  /\ Collected' /\ info' \in Infos /\ info'.repNodes \subseteq info.repNodes \cup {v}
           /\ \A n \in Nodes : rep'[n] = IF n \in M THEN v ELSE rep[n]
<1>1. info' \in Infos
  BY SetRepTyped DEF SccType, Infos
<1>2. /\ \A n \in Nodes : /\ info'.rep[n] = IF n \in M THEN v ELSE info.rep[n]
                          /\ info'.subNodes[n] = IF n = v THEN info.subNodes[n] \cup M
                                                 ELSE IF n \in M THEN {} ELSE info.subNodes[n]
      /\ info'.repNodes = IF M \subseteq {v} THEN info.repNodes ELSE (info.repNodes \ M) \cup {v}
  BY DEF SetRep
<1>3. inSCC \subseteq Nodes /\ \A n \in inSCC : Complete(n)
  BY DEF SccType, Collected
<1>4. \A m \in Nodes, n \in M : Together(m, n) <=> m \in M
  BY DEF Component
<1>5. \A m, n : Together(m, n) <=> Together(n, m)
  BY DEF Together
<1>6. ASSUME NEW n \in inSCC PROVE Complete(n)'
  <2>1. Complete(n) /\ n \in Nodes /\ n \notin M /\ info.rep[n] \in inSCC /\ info.rep[n] \in Nodes
    BY <1>3 DEF Complete, rep
  <2>2. ASSUME NEW m \in Nodes PROVE m \in inSCC' /\ info'.rep[m] = info'.rep[n] <=> Together(m, n)
    <3>1. CASE m \in M
      <4>1. ~Together(m, n)
        BY <1>4, <1>5, <2>1, <3>1
      <4> QED
        BY <1>2, <2>1, <3>1, <4>1
    <3>2. CASE m \notin M
      BY <1>2, <2>1, <3>2 DEF Complete, rep
    <3> QED
      BY <3>1, <3>2
  <2>3. info'.subNodes[n] = info.subNodes[n] /\ (n \in info'.repNodes <=> n \in info.repNodes)
    <3>1. n # v /\ n \notin M
      BY <2>1
    <3>2. info'.subNodes[n] = info.subNodes[n]
      BY <1>2, <2>1, <3>1
    <3>3. n \in info'.repNodes <=> n \in info.repNodes
      BY <1>2, <2>1, <3>1
    <3> QED
      BY <3>2, <3>3
  <2>4. info'.rep[n] = info.rep[n] /\ info'.rep[info.rep[n]] = info.rep[info.rep[n]]
    BY <1>2, <2>1
  <2> QED
    BY <2>1, <2>2, <2>3, <2>4, CompleteNext DEF Complete, rep, subNodes
<1>7. ASSUME NEW n \in M PROVE Complete(n)'
  <2>1. n \in Nodes /\ v \in Nodes /\ info'.rep[n] = v /\ info'.rep[v] = v /\ Component(n) = M /\ Component(v) = M
    BY <1>2
  <2>2. ASSUME NEW m \in Nodes PROVE m \in inSCC' /\ info'.rep[m] = v <=> Together(m, n)
    <3>1. m \in inSCC => info'.rep[m] = info.rep[m] /\ info.rep[m] \in inSCC
      BY <1>2, <1>3 DEF Complete, rep
    <3> QED
      BY <1>2, <1>4, <3>1
  <2>3. Tentative(v)
    BY DEF Collected
  <2>4. info'.subNodes[n] = IF n = v THEN M ELSE {}
    BY <1>2, <2>1, <2>3 DEF Tentative, subNodes
  <2>5. n \in info'.repNodes <=> n = v /\ M # {n}
    <3>1. CASE M = {v}
      BY <1>2, <2>1, <2>3, <3>1 DEF Tentative
    <3>2. CASE M # {v}
      <4>1. ~(M \subseteq {v})
        BY <3>2
      <4> QED
        BY <1>2, <3>2, <4>1
    <3> QED
      BY <3>1, <3>2
  <2> QED
    BY <2>1, <2>2, <2>4, <2>5, CompleteNext
<1>8. ASSUME NEW n \in Nodes \ (inSCC \cup M) PROVE Tentative(n)'
  <2>1. Tentative(n) /\ n \notin M /\ n # v
    BY DEF Collected
  <2>2. info'.subNodes[n] = info.subNodes[n]
    BY <1>2, <2>1
  <2>3. n \in info'.repNodes => n \in info.repNodes
    BY <1>2, <2>1
  <2> QED
    BY <2>1, <2>2, <2>3, TentativeNext DEF Tentative, subNodes
<1>9. info'.repNodes \subseteq info.repNodes \cup {v}
  BY <1>2
<1> QED
  BY <1>1, <1>2, <1>6, <1>7, <1>8, <1>9 DEF Collected, rep

-----------------------------------------------------------------------------
(***************************************************************************)
(* Consequences of the invariant in one state.                             *)
(***************************************************************************)
LEMMA Basics ==
    ASSUME SccType, Stacks
    PROVE  /\ Visited \subseteq Nodes /\ Open \subseteq Visited /\ Gray \subseteq Open /\ Stacked \subseteq Open
           /\ IsFiniteSet(Visited) /\ Cardinality(Visited) \in Nat /\ edges \in Graphs
           /\ path \in Seq(Frames) /\ Len(path) \in Nat /\ Len(SS) \in Nat
           /\ \A i \in 1 .. Len(path) : path[i] \in Frames /\ path[i].node \in Gray
           /\ \A i \in 1 .. Len(SS) : SS[i] \in Stacked
           /\ \A n \in Nodes : D[n] \in Nat
           /\ inSCC \cap Open = {} /\ inSCC \subseteq Visited
<1>1. Visited \subseteq Nodes /\ Open \subseteq Visited /\ Gray \subseteq Open /\ Stacked \subseteq Open
  BY DEF Visited, Open, Stacks
<1>2. IsFiniteSet(Visited) /\ Cardinality(Visited) \in Nat
  BY <1>1, GraphsAssumption, FS_Subset, FS_CardinalityType
<1>3. path \in Seq(Frames) /\ SS \in Seq(Nodes)
  BY DEF SccType, Frames
<1>4. Len(path) \in Nat /\ Len(SS) \in Nat /\ \A i \in 1 .. Len(path) : path[i] \in Frames
  BY <1>3, LenProperties
<1> QED
  BY <1>1, <1>2, <1>3, <1>4 DEF Gray, Stacked, SccType, Open, Stacks

LEMMA TopFacts ==
    ASSUME SccType, Stacks, path # <<>>
    PROVE  /\ Len(path) \in 1 .. Len(path) /\ Top = path[Len(path)] /\ Top \in Frames
           /\ Top.node \in Gray /\ Top.todo \subseteq Children(Top.node)
           /\ \A g \in Gray : D[g] <= D[Top.node]
<1>1. Len(path) \in 1 .. Len(path) /\ Top = path[Len(path)] /\ Top \in Frames /\ Top.node \in Gray
  BY Basics, EmptySeq DEF Top
<1>2. Top.todo \subseteq Children(Top.node)
  BY <1>1 DEF Stacks
<1>3. ASSUME NEW g \in Gray PROVE D[g] <= D[Top.node]
  <2>1. PICK i \in 1 .. Len(path) : g = path[i].node
    BY DEF Gray
  <2>2. CASE i = Len(path)
    BY <1>1, <2>1, <2>2, Basics
  <2>3. CASE i < Len(path)
    <3>1. D[path[i].node] < D[path[Len(path)].node]
      BY <1>1, <2>1, <2>3 DEF Stacks
    <3> QED
      BY <1>1, <2>1, <3>1, Basics
  <2> QED
    BY <2>1, <2>2, <2>3, Basics
<1> QED
  BY <1>1, <1>2, <1>3

LEMMA OpenReachTop ==
    ASSUME SccType, Stacks, Ahead, Back, NEW u \in Open
    PROVE  path # <<>> /\ Leads(u, Top.node)
<1>1. PICK g \in Gray : Leads(u, g)
  BY DEF Back, Stacks, Leads
<1>2. path # <<>>
  BY EmptySeq DEF Gray
<1>3. Leads(g, Top.node)
  BY <1>2, TopFacts, Basics DEF Ahead
<1> QED
  BY <1>1, <1>2, <1>3, Basics, ReachesOn

-----------------------------------------------------------------------------
(***************************************************************************)
(* The invariant in the next state of a step that keeps the graph.         *)
(***************************************************************************)
LEMMA StacksNext ==
    ASSUME edges' = edges,
           inSCC' \subseteq Visited', Open' = Gray' \cup Stacked', Gray' \cap Stacked' = {},
           \A i, j \in 1 .. Len(path') : i < j => D'[path'[i].node] < D'[path'[j].node],
           \A i \in 1 .. Len(path') : path'[i].todo \subseteq Children(path'[i].node),
           \A i \in 1 .. Len(path') - 1 : path'[i + 1].node \in path'[i].todo,
           \A i, j \in 1 .. Len(SS') : SS'[i] = SS'[j] => i = j,
           Split'
    PROVE  Stacks'
<1>1. \A i \in 1 .. Len(path') : path'[i].todo \subseteq {e[2] : e \in {f \in edges' : f[1] = path'[i].node}}
  BY DEF Children
<1> QED
  BY <1>1 DEF Stacks, Children

LEMMA RankedNext ==
    ASSUME edges' = edges, \A n \in Stacked' : rep'[n] # n,
           \A n \in Open' : rep'[n] \in Open' /\ D'[rep'[n]] <= D'[n] /\ Leads(n, rep'[n])
    PROVE  Ranked'
<1>1. Reach[edges]' = Reach[edges]
  BY SameGraph
<1>2. \A n \in Open' : n = rep'[n] \/ <<n, rep'[n]>> \in Reach[edges]'
  BY <1>1 DEF Leads
<1> QED
  BY <1>2 DEF Ranked, Leads

SeenNext(u, w) == w \in Visited' /\ (w \in inSCC' \/ D'[rep'[u]] <= D'[w])

LEMMA ChildrenSeenNext ==
    ASSUME edges' = edges,
           \A i \in 1 .. Len(path') : \A w \in Children(path'[i].node) \ path'[i].todo : SeenNext(path'[i].node, w),
           \A u \in Stacked' : \A w \in Children(u) : SeenNext(u, w)
    PROVE  ChildrenSeen'
BY DEF ChildrenSeen, Children, Seen, SeenNext, rep

-----------------------------------------------------------------------------
(***************************************************************************)
(* The beginning of visit(v).                                              *)
(***************************************************************************)
Entering(v) ==
    /\ v \in Nodes \ Visited /\ pc = "find" /\ Enter(v, path)
    /\ IF path = <<>> THEN v \in start ELSE v \in Top.todo

LEMMA EnterFacts ==
    ASSUME SccInv, NEW v, Entering(v)
    PROVE  /\ v \notin Visited /\ v \notin inSCC /\ v \notin Open /\ v \notin Stacked /\ v \notin Gray
           /\ edges' = edges /\ inSCC' = inSCC /\ SS' = SS /\ T' = T /\ start' = start /\ pc' = pc
           /\ D' \in [Nodes -> Nat] /\ \A n \in Nodes : n # v => D'[n] = D[n]
           /\ D'[v] = Cardinality(Visited) + 1 /\ \A n \in Nodes : n # v => D'[n] < D'[v]
           /\ Visited' = Visited \cup {v} /\ Cardinality(Visited') = Cardinality(Visited) + 1
           /\ Gray' = Gray \cup {v} /\ Stacked' = Stacked /\ Open' = Open \cup {v}
           /\ path' \in Seq(Frames) /\ Len(path') = Len(path) + 1
           /\ \A i \in 1 .. Len(path) : path'[i] = path[i]
           /\ path'[Len(path) + 1] = [node |-> v, todo |-> Children(v)]
           /\ Collected' /\ info' \in Infos /\ info'.repNodes = info.repNodes
           /\ \A n \in Nodes : rep'[n] = IF n = v THEN v ELSE rep[n]
<1> USE DEF SccInv
<1>1. v \in Nodes /\ v \notin Visited /\ v \notin inSCC /\ v \notin Open /\ v \notin Stacked /\ v \notin Gray
  BY Basics DEF Entering
<1>2. /\ edges' = edges /\ inSCC' = inSCC /\ SS' = SS /\ T' = T /\ start' = start /\ pc' = pc
      /\ D' = [D EXCEPT ![v] = Cardinality(Visited) + 1] /\ info' = SetRep({v}, v, info)
      /\ path' = Append(path, [node |-> v, todo |-> Children(v)])
  BY DEF Entering, Enter
<1>3. /\ D' \in [Nodes -> Nat] /\ \A n \in Nodes : n # v => D'[n] = D[n]
      /\ D'[v] = Cardinality(Visited) + 1 /\ \A n \in Nodes : n # v => D'[n] < D'[v]
  BY <1>1, <1>2, Basics DEF SccType, Numbered
<1>4. Visited' = Visited \cup {v} /\ Cardinality(Visited') = Cardinality(Visited) + 1
  <2>1. Visited' = Visited \cup {v}
    BY <1>1, <1>3, Basics DEF Visited
  <2> QED
    BY <1>1, <2>1, Basics, FS_AddElement
<1>5. /\ path' \in Seq(Frames) /\ Len(path') = Len(path) + 1
      /\ \A i \in 1 .. Len(path) : path'[i] = path[i]
      /\ path'[Len(path) + 1] = [node |-> v, todo |-> Children(v)]
  <2> DEFINE f == [node |-> v, todo |-> Children(v)]
  <2>1. f \in Frames
    BY <1>1, ReachFacts DEF Frames, Children, SccType
  <2> HIDE DEF f
  <2>2. /\ Append(path, f) \in Seq(Frames) /\ Len(Append(path, f)) = Len(path) + 1
        /\ \A i \in 1 .. Len(path) : Append(path, f)[i] = path[i]
        /\ Append(path, f)[Len(path) + 1] = f
    BY <2>1, Basics, AppendProperties
  <2>3. path' = Append(path, f) /\ f = [node |-> v, todo |-> Children(v)]
    BY <1>2 DEF f
  <2> QED
    BY <2>2, <2>3
<1>6. Gray' = Gray \cup {v}
  <2>1. Gray' = {path'[i].node : i \in 1 .. Len(path')}
    BY DEF Gray
  <2>2. \A i \in 1 .. Len(path) + 1 : i \in 1 .. Len(path) \/ i = Len(path) + 1
    BY Basics
  <2>3. Len(path) \in Nat
    BY Basics
  <2>4. Gray' \subseteq Gray \cup {v}
    BY <1>5, <2>1, <2>2 DEF Gray
  <2>5. Gray \subseteq Gray'
    BY <1>5, <2>1, <2>3 DEF Gray
  <2>6. v \in Gray'
    BY <1>5, <2>1, <2>3
  <2> QED
    BY <2>4, <2>5, <2>6
<1>7. Stacked' = Stacked /\ Open' = Open \cup {v}
  BY <1>1, <1>2, <1>4 DEF Stacked, Open
<1>8. /\ Collected' /\ info' \in Infos /\ info'.repNodes = info.repNodes
      /\ \A n \in Nodes : rep'[n] = IF n = v THEN v ELSE rep[n]
  BY <1>1, <1>2, InfoEntered
<1> QED
  BY <1>1, <1>2, <1>3, <1>4, <1>5, <1>6, <1>7, <1>8

LEMMA EnterPreserves ==
    ASSUME SccInv, NEW v, Entering(v)
    PROVE  SccInv'
<1> USE DEF SccInv
<1> DEFINE l == Len(path)
<1>1. v \in Nodes /\ pc = "find" /\ l \in Nat /\ \A i \in 1 .. l + 1 : i \in 1 .. l \/ i = l + 1
  BY Basics DEF Entering
<1>2. /\ v \notin Visited /\ v \notin inSCC /\ v \notin Open /\ v \notin Stacked /\ v \notin Gray
      /\ edges' = edges /\ inSCC' = inSCC /\ SS' = SS /\ T' = T /\ start' = start /\ pc' = pc
  BY EnterFacts
<1>3. /\ D' \in [Nodes -> Nat] /\ \A n \in Nodes : n # v => D'[n] = D[n]
      /\ D'[v] = Cardinality(Visited) + 1 /\ \A n \in Nodes : n # v => D'[n] < D'[v]
  BY EnterFacts
<1>4. /\ Visited' = Visited \cup {v} /\ Cardinality(Visited') = Cardinality(Visited) + 1
      /\ Gray' = Gray \cup {v} /\ Stacked' = Stacked /\ Open' = Open \cup {v}
  BY EnterFacts
<1>5. /\ path' \in Seq(Frames) /\ Len(path') = l + 1
      /\ \A i \in 1 .. l : path'[i] = path[i]
      /\ path'[l + 1] = [node |-> v, todo |-> Children(v)]
  BY EnterFacts
<1>6. /\ Collected' /\ info' \in Infos /\ info'.repNodes = info.repNodes
      /\ \A n \in Nodes : rep'[n] = IF n = v THEN v ELSE rep[n]
  BY EnterFacts
<1>7. \A n \in Visited : n \in Nodes /\ n # v /\ D'[n] = D[n] /\ rep'[n] = rep[n]
  BY <1>2, <1>3, <1>6, Basics
<1>8. \A n \in Open : n \in Visited /\ rep[n] \in Visited /\ D'[rep[n]] = D[rep[n]]
  BY <1>7, Basics DEF Ranked
<1>9. \A i \in 1 .. l : path[i] \in Frames /\ path[i].node \in Open /\ path[i].node \in Visited
  BY Basics
<1>10. \A m, n : Leads(m, n)' = Leads(m, n)
  BY <1>2, SameGraph
<1> HIDE DEF l
<1>20. SccType'
  BY <1>2, <1>3, <1>5, <1>6, <1>1 DEF SccType, Infos, Frames
<1>21. Numbered'
  <2>1. \A n \in Nodes : D[n] \in Nat /\ D[n] <= Cardinality(Visited)
    BY Basics DEF Numbered
  <2>2. Cardinality(Visited) \in Nat
    BY Basics
  <2>3. \A n \in Nodes : D'[n] <= Cardinality(Visited')
    BY <1>3, <1>4, <2>1, <2>2
  <2>4. \A m, n \in Visited : D'[m] = D'[n] => m = n
    BY <1>7 DEF Numbered
  <2>5. \A m \in Visited : D'[m] # D'[v]
    BY <1>3, <1>7
  <2>6. \A m, n \in Visited' : D'[m] = D'[n] => m = n
    BY <1>4, <2>4, <2>5
  <2> QED
    BY <2>3, <2>6 DEF Numbered
<1>22. Stacks'
  <2>1. (inSCC \subseteq Visited /\ Open = Gray \cup Stacked /\ Gray \cap Stacked = {})'
    BY <1>2, <1>4 DEF Stacks
  <2>2. \A i, j \in 1 .. Len(path') : i < j => D'[path'[i].node] < D'[path'[j].node]
    <3> SUFFICES ASSUME NEW i \in 1 .. l + 1, NEW j \in 1 .. l + 1, i < j
                 PROVE  D'[path'[i].node] < D'[path'[j].node]
      BY <1>5
    <3>1. i \in 1 .. l
      BY <1>1
    <3>2. CASE j = l + 1
      BY <1>3, <1>5, <1>7, <1>9, <3>1, <3>2
    <3>3. CASE j \in 1 .. l
      BY <1>5, <1>7, <1>9, <3>1, <3>3 DEF Stacks, l
    <3> QED
      BY <1>1, <3>2, <3>3
  <2>3. \A i \in 1 .. Len(path') : path'[i].todo \subseteq Children(path'[i].node)
    BY <1>1, <1>5 DEF Stacks, l
  <2>4. \A i \in 1 .. Len(path') - 1 : path'[i + 1].node \in path'[i].todo
    <3> SUFFICES ASSUME NEW i \in 1 .. l PROVE path'[i + 1].node \in path'[i].todo
      BY <1>1, <1>5
    <3>1. CASE i = l
      <4>1. path # <<>> /\ Top = path[l]
        BY <3>1, EmptySeq DEF Top, l
      <4> QED
        BY <1>5, <3>1, <4>1 DEF Entering
    <3>2. CASE i # l
      <4>1. i + 1 \in 1 .. l /\ i \in 1 .. Len(path) - 1
        BY <1>1, <3>2 DEF l
      <4> QED
        BY <1>5, <4>1 DEF Stacks
    <3> QED
      BY <3>1, <3>2
  <2>5. Split'
    <3>1. \A k \in 1 .. Len(SS) : SS[k] \in Visited
      BY Basics
    <3>2. \A k \in 1 .. Len(SS) : D'[SS[k]] = D[SS[k]] /\ D'[SS[k]] < D'[v] /\ D'[SS[k]] \in Nat
      BY <3>1, <1>7, <1>3
    <3>3. \A p \in Gray : D'[p] = D[p]
      BY <1>7, Basics
    <3>4. Split /\ D'[v] \in Nat
      BY <1>1, <1>3 DEF Stacks
    <3> QED
      BY <1>2, <1>4, <3>2, <3>3, <3>4 DEF Split
  <2>6. \A i, j \in 1 .. Len(SS') : SS'[i] = SS'[j] => i = j
    BY <1>2 DEF Stacks
  <2> QED
    BY <2>1, <2>2, <2>3, <2>4, <2>5, <2>6, <1>2, StacksNext
<1>23. Ranked'
  <2>1. ASSUME NEW n \in Open' PROVE rep'[n] \in Open' /\ D'[rep'[n]] <= D'[n] /\ Leads(n, rep'[n])
    <3>1. CASE n = v
      BY <1>1, <1>3, <1>4, <1>6, <3>1 DEF Leads
    <3>2. CASE n \in Open
      BY <1>4, <1>7, <1>8, <3>2 DEF Ranked
    <3> QED
      BY <1>4, <3>1, <3>2
  <2>2. \A n \in Stacked' : rep'[n] # n
    BY <1>4, <1>7, Basics DEF Ranked
  <2> QED
    BY <2>1, <2>2, <1>2, RankedNext
<1>24. ChildrenSeen'
  <2>1. ASSUME NEW u \in Open, NEW w, Seen(u, w) PROVE SeenNext(u, w)
    <3>1. w \in Visited /\ w \in Visited' /\ rep'[u] = rep[u] /\ D'[rep[u]] = D[rep[u]] /\ D'[w] = D[w]
      BY <2>1, <1>4, <1>7, <1>8 DEF Seen
    <3> QED
      BY <2>1, <1>2, <3>1 DEF Seen, SeenNext
  <2>2. ASSUME NEW i \in 1 .. l + 1, NEW w \in Children(path'[i].node) \ path'[i].todo
        PROVE  SeenNext(path'[i].node, w)
    <3>1. i \in 1 .. l
      BY <1>1, <1>5
    <3>2. Seen(path[i].node, w) /\ path'[i].node = path[i].node
      BY <1>5, <3>1 DEF ChildrenSeen, l
    <3> QED
      BY <1>9, <2>1, <3>1, <3>2
  <2>3. ASSUME NEW u \in Stacked, NEW w \in Children(u) PROVE SeenNext(u, w)
    BY <2>1, Basics DEF ChildrenSeen
  <2> QED
    BY <2>2, <2>3, <1>2, <1>4, <1>5, ChildrenSeenNext
<1>25. Low'
  <2> SUFFICES ASSUME NEW i \in 1 .. l + 1, NEW u \in Stacked, InFrame(u, i)'
               PROVE  D'[rep'[path'[i].node]] <= D'[rep'[u]]
    BY <1>4, <1>5 DEF Low, rep
  <2>1. u \in Open /\ u \in Visited /\ D'[u] = D[u] /\ D[u] \in Nat
    BY <1>7, Basics
  <2>2. D'[path'[i].node] < D'[u]
    BY DEF InFrame
  <2>3. i # l + 1
    BY <1>3, <1>5, <1>7, <2>1, <2>2, <1>1
  <2>4. i \in 1 .. l /\ i \in 1 .. Len(path) /\ path[i].node \in Open
    BY <1>1, <1>9, <2>3 DEF l
  <2>5. InFrame(u, i)
    <3>1. D[path[i].node] < D[u]
      BY <1>5, <1>7, <2>1, <2>2, <2>4, <1>9
    <3>2. i < Len(path) => D[u] < D[path[i + 1].node]
      <4> SUFFICES ASSUME i < l PROVE D[u] < D[path[i + 1].node]
        BY DEF l
      <4>1. i < Len(path') /\ i + 1 \in 1 .. l
        BY <1>5, <1>1
      <4>2. D'[u] < D'[path'[i + 1].node]
        BY <4>1 DEF InFrame
      <4> QED
        BY <1>5, <1>7, <1>9, <2>1, <4>1, <4>2
    <3> QED
      BY <3>1, <3>2 DEF InFrame
  <2>6. D[rep[path[i].node]] <= D[rep[u]]
    BY <2>4, <2>5 DEF Low
  <2> QED
    BY <1>5, <1>7, <1>8, <1>9, <2>1, <2>4, <2>6
<1>26. Ahead'
  <2> SUFFICES ASSUME NEW u \in Open \cup {v}, NEW w \in Visited \cup {v}, D'[u] <= D'[w] PROVE Leads(u, w)
    BY <1>4, <1>10 DEF Ahead
  <2>1. CASE u = v
    <3>1. w = v
      BY <1>1, <1>3, <1>7, <2>1, Basics
    <3> QED
      BY <2>1, <3>1 DEF Leads
  <2>2. CASE u \in Open /\ w \in Visited
    BY <2>2, <1>7, <1>8 DEF Ahead
  <2>3. CASE u \in Open /\ w = v
    <3>1. path # <<>> /\ Leads(u, Top.node)
      BY <2>3, OpenReachTop
    <3>2. v \in Children(Top.node)
      BY <3>1, TopFacts DEF Entering
    <3>3. Leads(Top.node, v)
      BY <3>2, Basics, ChildEdge
    <3> QED
      BY <2>3, <3>1, <3>3, Basics, ReachesOn
  <2> QED
    BY <2>1, <2>2, <2>3
<1>27. Back'
  <2> SUFFICES ASSUME NEW u \in Stacked PROVE \E p \in Gray \cup {v} : D'[p] < D'[u] /\ Leads(u, p)
    BY <1>4, <1>10 DEF Back
  <2>1. PICK p \in Gray : D[p] < D[u] /\ Leads(u, p)
    BY DEF Back
  <2> QED
    BY <1>7, <2>1, Basics
<1>28. Ordered'
  <2>1. \A n \in inSCC : rep'[n] = rep[n]
    BY <1>7, Basics
  <2>2. {n \in inSCC : rep'[n] = n} = {n \in inSCC : rep[n] = n}
    BY <2>1
  <2>3. Reach[edges]' = Reach[edges]
    BY <1>2, SameGraph
  <2> QED
    BY <1>2, <2>2, <2>3 DEF Ordered, rep
<1>29. Started'
  <2>1. v \in ReachedFrom(start, Reach[edges])
    <3>1. CASE path = <<>>
      BY <3>1 DEF Entering, ReachedFrom
    <3>2. CASE path # <<>>
      <4>1. Top.node \in ReachedFrom(start, Reach[edges]) /\ v \in Children(Top.node)
        BY <3>2, TopFacts, Basics DEF Started, Entering
      <4>2. <<Top.node, v>> \in Reach[edges]
        BY <4>1, Basics, ChildEdge
      <4>3. PICK s \in start : s = Top.node \/ <<s, Top.node>> \in Reach[edges]
        BY <4>1, Basics, ReachFacts DEF ReachedFrom
      <4>4. <<s, v>> \in Reach[edges]
        BY <4>2, <4>3, Basics, ReachFacts DEF Transitive
      <4> QED
        BY <4>4 DEF ReachedFrom
    <3> QED
      BY <3>1, <3>2
  <2>2. Reach[edges]' = Reach[edges]
    BY <1>2, SameGraph
  <2> QED
    BY <1>1, <1>2, <1>4, <2>1, <2>2 DEF Started
<1>30. Kept'
  BY <1>4, <1>6 DEF Kept
<1> QED
  BY <1>6, <1>20, <1>21, <1>22, <1>23, <1>24, <1>25, <1>26, <1>27, <1>28, <1>29, <1>30

-----------------------------------------------------------------------------
(***************************************************************************)
(* The end of the loop body for a child that was visited.                  *)
(***************************************************************************)
Comparing(w) ==
    /\ path # <<>> /\ w \in Top.todo \cap Visited
    /\ info' = Compare(info, Top.node, w, inSCC) /\ path' = Handled(w, path)
    /\ UNCHANGED <<edges, start, inSCC, D, SS, T, pc>>

LEMMA CompareFacts ==
    ASSUME SccInv, NEW w, Comparing(w)
    PROVE  /\ edges' = edges /\ inSCC' = inSCC /\ SS' = SS /\ T' = T /\ start' = start /\ pc' = pc /\ D' = D
           /\ path' \in Seq(Frames) /\ Len(path') = Len(path) /\ path # <<>>
           /\ \A i \in 1 .. Len(path) :
                 /\ path'[i].node = path[i].node
                 /\ path'[i].todo = IF i = Len(path) THEN path[i].todo \ {w} ELSE path[i].todo
           /\ Gray' = Gray /\ Stacked' = Stacked /\ Visited' = Visited /\ Open' = Open
           /\ Collected' /\ info' \in Infos /\ info'.repNodes \subseteq info.repNodes \cup Open
           /\ \A n \in Nodes : n # Top.node => rep'[n] = rep[n]
           /\ \A n \in Open : rep'[n] \in Open /\ D[rep'[n]] <= D[rep[n]] /\ Leads(n, rep'[n])
           /\ w \in Visited /\ (w \in inSCC \/ D[rep'[Top.node]] <= D[w])
<1> USE DEF SccInv
<1>1. /\ edges' = edges /\ inSCC' = inSCC /\ SS' = SS /\ T' = T /\ start' = start /\ pc' = pc /\ D' = D
      /\ path # <<>> /\ w \in Visited /\ w \in Top.todo
  BY DEF Comparing
<1>2. /\ path' \in Seq(Frames) /\ Len(path') = Len(path)
      /\ \A i \in 1 .. Len(path) :
            /\ path'[i].node = path[i].node
            /\ path'[i].todo = IF i = Len(path) THEN path[i].todo \ {w} ELSE path[i].todo
  <2>1. path \in Seq(Frames) /\ path # <<>> /\ path' = Handled(w, path)
    BY Basics DEF Comparing
  <2>2. /\ Handled(w, path) \in Seq(Frames) /\ Len(Handled(w, path)) = Len(path)
        /\ \A i \in 1 .. Len(path) :
              /\ Handled(w, path)[i].node = path[i].node
              /\ Handled(w, path)[i].todo = IF i = Len(path) THEN path[i].todo \ {w} ELSE path[i].todo
    BY <2>1, HandledFrames
  <2> QED
    BY <2>1, <2>2
<1>3. Gray' = Gray /\ Stacked' = Stacked /\ Visited' = Visited /\ Open' = Open
  BY <1>1, <1>2 DEF Gray, Stacked, Visited, Open
<1>4. Top.node \in Open /\ Top.node \in Nodes /\ <<Top.node, w>> \in edges
  <2>1. Top.node \in Open /\ Top.node \in Nodes
    BY <1>1, TopFacts, Basics
  <2>2. w \in Children(Top.node)
    BY <1>1, TopFacts
  <2> QED
    BY <2>1, <2>2, Basics, ChildEdge
<1>5. ASSUME NEW n \in Open PROVE n \in Nodes /\ rep[n] \in Open /\ D[rep[n]] \in Nat /\ Leads(n, rep[n])
  BY Basics DEF Ranked
<1>6. CASE w \in inSCC
  <2>1. info' = info
    BY <1>6 DEF Comparing, Compare
  <2>2. Collected' = Collected
    BY <1>1, <2>1 DEF Collected, Complete, Tentative, Children, Together, Component, Reach, subNodes, rep
  <2>3. Collected' /\ info' \in Infos /\ rep' = rep /\ info'.repNodes \subseteq info.repNodes \cup Open
    BY <2>1, <2>2 DEF SccType, Infos, rep
  <2>4. \A n \in Open : rep'[n] \in Open /\ D[rep'[n]] <= D[rep[n]] /\ Leads(n, rep'[n])
    BY <1>5, <2>3
  <2>5. \A n \in Nodes : n # Top.node => rep'[n] = rep[n]
    BY <2>3
  <2> QED
    BY <1>1, <1>2, <1>3, <1>6, <2>3, <2>4, <2>5
<1>7. CASE w \notin inSCC
  <2>1. w \in Open
    BY <1>1, <1>7 DEF Open
  <2>2. info' = SetRep({Top.node}, Earlier(info, Top.node, w), info)
    BY <1>7 DEF Comparing, Compare
  <2> DEFINE v == Top.node
  <2>3. v \in Open /\ <<v, w>> \in edges /\ info' = SetRep({v}, Earlier(info, v, w), info)
    BY <1>4, <2>2
  <2> HIDE DEF v
  <2>4. /\ Collected' /\ info' \in Infos /\ info'.repNodes \subseteq info.repNodes \cup Open
        /\ \A n \in Nodes : n # v => rep'[n] = rep[n]
        /\ rep'[v] \in Open /\ D[rep'[v]] <= D[rep[v]] /\ D[rep'[v]] <= D[rep[w]] /\ Leads(v, rep'[v])
    BY <1>1, <2>1, <2>3, InfoCompared
  <2>5. D[rep'[v]] <= D[w]
    <3>1. D[rep'[v]] \in Nat /\ D[rep[w]] \in Nat /\ D[w] \in Nat /\ D[rep[w]] <= D[w]
      BY <1>5, <2>1, <2>4, Basics DEF Ranked
    <3> QED
      BY <2>4, <3>1
  <2>6. \A n \in Open : rep'[n] \in Open /\ D[rep'[n]] <= D[rep[n]] /\ Leads(n, rep'[n])
    <3> SUFFICES ASSUME NEW n \in Open PROVE rep'[n] \in Open /\ D[rep'[n]] <= D[rep[n]] /\ Leads(n, rep'[n])
      OBVIOUS
    <3>1. CASE n = v
      BY <2>4, <3>1
    <3>2. CASE n # v
      BY <1>5, <2>4, <3>2
    <3> QED
      BY <3>1, <3>2
  <2>7. v = Top.node
    BY DEF v
  <2> QED
    BY <1>1, <1>2, <1>3, <2>4, <2>5, <2>6, <2>7
<1> QED
  BY <1>6, <1>7

LEMMA ComparePreserves ==
    ASSUME SccInv, NEW w, Comparing(w)
    PROVE  SccInv'
<1> USE DEF SccInv
<1> DEFINE l == Len(path)
<1>1. /\ edges' = edges /\ inSCC' = inSCC /\ SS' = SS /\ T' = T /\ start' = start /\ pc' = pc /\ D' = D
      /\ path' \in Seq(Frames) /\ Len(path') = Len(path) /\ path # <<>>
  BY CompareFacts
<1>2. \A i \in 1 .. Len(path) :
         /\ path'[i].node = path[i].node
         /\ path'[i].todo = IF i = Len(path) THEN path[i].todo \ {w} ELSE path[i].todo
  BY CompareFacts
<1>3. Gray' = Gray /\ Stacked' = Stacked /\ Visited' = Visited /\ Open' = Open
  BY CompareFacts
<1>4. /\ Collected' /\ info' \in Infos /\ info'.repNodes \subseteq info.repNodes \cup Open
      /\ \A n \in Nodes : n # Top.node => rep'[n] = rep[n]
      /\ \A n \in Open : rep'[n] \in Open /\ D[rep'[n]] <= D[rep[n]] /\ Leads(n, rep'[n])
      /\ w \in Visited /\ (w \in inSCC \/ D[rep'[Top.node]] <= D[w])
  BY CompareFacts
<1>5. Top.node \in Gray /\ Top = path[Len(path)] /\ Len(path) \in 1 .. Len(path)
  BY <1>1, TopFacts
<1>6. \A n \in Open : n \in Nodes /\ D[n] \in Nat /\ rep[n] \in Open /\ D[rep[n]] \in Nat /\ D[rep'[n]] \in Nat
  BY <1>4, Basics DEF Ranked
<1>7. \A n \in Stacked : n \in Open /\ rep'[n] = rep[n] /\ n # Top.node
  <2>1. \A n \in Stacked : n \in Open /\ n # Top.node
    BY <1>5, Basics DEF Stacks
  <2> QED
    BY <1>4, <1>6, <2>1
<1>8. \A i \in 1 .. Len(path) : path[i].node \in Open
  BY Basics
<1>20. SccType'
  BY <1>1, <1>4 DEF SccType, Infos, Frames
<1>21. Numbered'
  BY <1>1, <1>3 DEF Numbered
<1>22. Stacks'
  <2>1. \A i, j \in 1 .. Len(path') : i < j => D'[path'[i].node] < D'[path'[j].node]
    BY <1>1, <1>2 DEF Stacks
  <2>2. \A i \in 1 .. Len(path') : path'[i].todo \subseteq Children(path'[i].node)
    <3> SUFFICES ASSUME NEW i \in 1 .. Len(path) PROVE path'[i].todo \subseteq Children(path[i].node)
      BY <1>1, <1>2
    <3> QED
      BY <1>2 DEF Stacks
  <2>3. \A i \in 1 .. Len(path') - 1 : path'[i + 1].node \in path'[i].todo
    <3> SUFFICES ASSUME NEW i \in 1 .. Len(path) - 1 PROVE path'[i + 1].node \in path'[i].todo
      BY <1>1
    <3>1. i \in 1 .. Len(path) /\ i + 1 \in 1 .. Len(path) /\ i # Len(path)
      BY <1>5
    <3> QED
      BY <1>2, <3>1 DEF Stacks
  <2>4. Split'
    BY <1>1, <1>3 DEF Split, Stacks
  <2> QED
    BY <1>1, <1>3, <2>1, <2>2, <2>3, <2>4, StacksNext DEF Stacks
<1>23. Ranked'
  <2>1. \A n \in Open' : rep'[n] \in Open' /\ D'[rep'[n]] <= D'[n] /\ Leads(n, rep'[n])
    BY <1>1, <1>3, <1>4, <1>6 DEF Ranked
  <2>2. \A n \in Stacked' : rep'[n] # n
    BY <1>3, <1>7 DEF Ranked
  <2> QED
    BY <1>1, <2>1, <2>2, RankedNext
<1>24. ChildrenSeen'
  <2>1. ASSUME NEW u \in Open, NEW x, Seen(u, x) PROVE SeenNext(u, x)
    <3>1. x \in Visited /\ D[x] \in Nat /\ D[rep'[u]] \in Nat /\ D[rep[u]] \in Nat /\ D[rep'[u]] <= D[rep[u]]
      BY <1>4, <1>6, <2>1, Basics DEF Seen
    <3> QED
      BY <1>1, <1>3, <2>1, <3>1 DEF Seen, SeenNext
  <2>2. ASSUME NEW i \in 1 .. Len(path), NEW x \in Children(path[i].node) \ path'[i].todo
        PROVE  SeenNext(path[i].node, x)
    <3>1. CASE x \notin path[i].todo
      BY <1>8, <2>1, <3>1 DEF ChildrenSeen
    <3>2. CASE x \in path[i].todo
      <4>1. i = Len(path) /\ x = w
        BY <1>2, <3>2
      <4> QED
        BY <1>1, <1>3, <1>4, <1>5, <4>1 DEF SeenNext
    <3> QED
      BY <3>1, <3>2
  <2>3. ASSUME NEW u \in Stacked', NEW x \in Children(u) PROVE SeenNext(u, x)
    BY <1>3, <1>7, <2>1 DEF ChildrenSeen
  <2>4. \A i \in 1 .. Len(path') : \A x \in Children(path'[i].node) \ path'[i].todo : SeenNext(path'[i].node, x)
    BY <1>1, <1>2, <2>2
  <2> QED
    BY <1>1, <2>3, <2>4, ChildrenSeenNext
<1>25. Low'
  <2> SUFFICES ASSUME NEW i \in 1 .. Len(path), NEW u \in Stacked, InFrame(u, i)'
               PROVE  D[rep'[path'[i].node]] <= D[rep'[u]]
    BY <1>1, <1>3 DEF Low, rep
  <2>1. InFrame(u, i)
    <3>1. i < Len(path) => i + 1 \in 1 .. Len(path)
      BY <1>5
    <3>2. D[path'[i].node] < D[u] /\ (i < Len(path) => D[u] < D[path'[i + 1].node])
      BY <1>1 DEF InFrame
    <3> QED
      BY <1>2, <3>1, <3>2 DEF InFrame
  <2>2. D[rep[path[i].node]] <= D[rep[u]]
    BY <2>1 DEF Low
  <2>3. D[rep'[path[i].node]] <= D[rep[path[i].node]] /\ path[i].node \in Open /\ u \in Open
    BY <1>4, <1>7, <1>8
  <2>4. D[rep'[path[i].node]] <= D[rep[u]]
    BY <1>6, <2>2, <2>3
  <2> QED
    BY <1>2, <1>7, <2>4
<1>26. Ahead'
  <2>1. Reach[edges]' = Reach[edges]
    BY <1>1, SameGraph
  <2> QED
    BY <1>1, <1>3, <2>1 DEF Ahead, Leads
<1>27. Back'
  <2>1. Reach[edges]' = Reach[edges]
    BY <1>1, SameGraph
  <2> QED
    BY <1>1, <1>3, <2>1 DEF Back, Leads
<1>28. Ordered'
  <2>1. \A n \in inSCC : rep'[n] = rep[n]
    <3>1. \A n \in inSCC : n \in Nodes /\ n # Top.node
      BY <1>5, Basics
    <3> QED
      BY <1>4, <3>1
  <2>2. {n \in inSCC : rep'[n] = n} = {n \in inSCC : rep[n] = n}
    BY <2>1
  <2>3. Reach[edges]' = Reach[edges]
    BY <1>1, SameGraph
  <2> QED
    BY <1>1, <2>2, <2>3 DEF Ordered, rep
<1>29. Started'
  <2>1. Reach[edges]' = Reach[edges]
    BY <1>1, SameGraph
  <2> QED
    BY <1>1, <1>3, <2>1 DEF Started
<1>30. Kept'
  BY <1>3, <1>4, Basics DEF Kept
<1> QED
  BY <1>4, <1>20, <1>21, <1>22, <1>23, <1>24, <1>25, <1>26, <1>27, <1>28, <1>29, <1>30

-----------------------------------------------------------------------------
(***************************************************************************)
(* The end of visit(v).                                                    *)
(***************************************************************************)
LEMMA ReturnFrames ==
    ASSUME SccInv, Return
    PROVE  /\ edges' = edges /\ start' = start /\ D' = D /\ pc' = pc /\ path # <<>> /\ Top.todo = {}
           /\ path' \in Seq(Frames) /\ Len(path') = Len(path) - 1 /\ Len(path) \in Nat \ {0}
           /\ \A i \in 1 .. Len(path) - 1 :
                 /\ path'[i].node = path[i].node
                 /\ path'[i].todo = IF i = Len(path) - 1 THEN path[i].todo \ {Top.node} ELSE path[i].todo
           /\ Gray' = Gray \ {Top.node} /\ Visited' = Visited
           /\ \A g \in Gray : g # Top.node => D[g] < D[Top.node]
<1> USE DEF SccInv
<1>1. edges' = edges /\ start' = start /\ D' = D /\ pc' = pc /\ path # <<>> /\ Top.todo = {}
  BY DEF Return
<1>2. /\ Callers \in Seq(Frames) /\ Len(Callers) = Len(path) - 1 /\ Len(path) \in Nat \ {0}
      /\ \A i \in 1 .. Len(path) - 1 : Callers[i] = path[i]
      /\ Callers = <<>> <=> Len(path) = 1
  BY <1>1, Basics, CallersFrames
<1>3. /\ path' \in Seq(Frames) /\ Len(path') = Len(path) - 1
      /\ \A i \in 1 .. Len(path) - 1 :
            /\ path'[i].node = path[i].node
            /\ path'[i].todo = IF i = Len(path) - 1 THEN path[i].todo \ {Top.node} ELSE path[i].todo
  <2>1. CASE Callers = <<>>
    <3>1. path' = Callers
      BY <2>1 DEF Return
    <3>2. path' \in Seq(Frames) /\ Len(path') = Len(path) - 1
      BY <1>2, <3>1
    <3>3. \A i \in 1 .. Len(path) - 1 : FALSE
      <4>1. Len(path) = 1
        BY <1>2, <2>1
      <4> QED
        BY <4>1
    <3> QED
      BY <3>2, <3>3
  <2>2. CASE Callers # <<>>
    <3>1. path' = Handled(Top.node, Callers)
      BY <2>2 DEF Return
    <3> DEFINE q == Callers
               w == Top.node
    <3>2. q \in Seq(Frames) /\ q # <<>> /\ path' = Handled(w, q) /\ Len(q) = Len(path) - 1
      BY <1>2, <2>2, <3>1
    <3>3. \A i \in 1 .. Len(path) - 1 : q[i] = path[i]
      BY <1>2
    <3>4. w = Top.node
      OBVIOUS
    <3> HIDE DEF q, w
    <3>5. /\ Handled(w, q) \in Seq(Frames) /\ Len(Handled(w, q)) = Len(q)
          /\ \A i \in 1 .. Len(q) :
                /\ Handled(w, q)[i].node = q[i].node
                /\ Handled(w, q)[i].todo = IF i = Len(q) THEN q[i].todo \ {w} ELSE q[i].todo
      BY <3>2, HandledFrames
    <3> QED
      BY <3>2, <3>3, <3>4, <3>5
  <2> QED
    BY <2>1, <2>2
<1>4. Top = path[Len(path)] /\ \A g \in Gray : D[g] <= D[Top.node]
  BY <1>1, TopFacts
<1>5. \A i \in 1 .. Len(path) - 1 : path[i].node # Top.node
  <2> SUFFICES ASSUME NEW i \in 1 .. Len(path) - 1 PROVE path[i].node # path[Len(path)].node
    BY <1>4
  <2>1. i \in 1 .. Len(path) /\ Len(path) \in 1 .. Len(path) /\ i < Len(path)
    BY <1>2
  <2>2. D[path[i].node] < D[path[Len(path)].node] /\ D[path[i].node] \in Nat
    BY <2>1, Basics DEF Stacks
  <2> QED
    BY <2>2
<1>6. Gray' = Gray \ {Top.node}
  <2>1. Gray' = {path'[i].node : i \in 1 .. Len(path')}
    BY DEF Gray
  <2>2. Gray' = {path[i].node : i \in 1 .. Len(path) - 1}
    BY <1>3, <2>1
  <2>3. \A i \in 1 .. Len(path) : i \in 1 .. Len(path) - 1 \/ i = Len(path)
    BY <1>2
  <2>4. \A i \in 1 .. Len(path) - 1 : i \in 1 .. Len(path)
    BY <1>2
  <2> QED
    BY <1>4, <1>5, <2>2, <2>3, <2>4 DEF Gray
<1>7. Visited' = Visited
  BY <1>1 DEF Visited
<1>8. ASSUME NEW g \in Gray, g # Top.node PROVE D[g] < D[Top.node]
  <2>1. g \in Visited /\ Top.node \in Visited /\ D[g] \in Nat /\ D[Top.node] \in Nat
    BY <1>1, TopFacts, Basics
  <2>2. D[g] # D[Top.node]
    BY <1>8, <2>1 DEF Numbered
  <2> QED
    BY <1>4, <2>1, <2>2
<1> QED
  BY <1>1, <1>2, <1>3, <1>6, <1>7, <1>8

\* The frames left are as the invariant wants them.
LEMMA ReturnStacks ==
    ASSUME SccInv, Return, inSCC' \subseteq Visited', Open' = Gray' \cup Stacked', Gray' \cap Stacked' = {},
           \A i, j \in 1 .. Len(SS') : SS'[i] = SS'[j] => i = j, Split'
    PROVE  Stacks'
<1> USE DEF SccInv
<1>1. edges' = edges /\ D' = D /\ Len(path') = Len(path) - 1 /\ Len(path) \in Nat \ {0}
  BY ReturnFrames
<1>2. \A i \in 1 .. Len(path) - 1 :
         /\ path'[i].node = path[i].node
         /\ path'[i].todo = IF i = Len(path) - 1 THEN path[i].todo \ {Top.node} ELSE path[i].todo
  BY ReturnFrames
<1>3. \A i \in 1 .. Len(path) - 1 : i \in 1 .. Len(path)
  BY <1>1
<1>4. \A i, j \in 1 .. Len(path') : i < j => D'[path'[i].node] < D'[path'[j].node]
  BY <1>1, <1>2, <1>3 DEF Stacks
<1>5. \A i \in 1 .. Len(path') : path'[i].todo \subseteq Children(path'[i].node)
  <2> SUFFICES ASSUME NEW i \in 1 .. Len(path) - 1 PROVE path'[i].todo \subseteq Children(path[i].node)
    BY <1>1, <1>2
  <2> QED
    BY <1>2, <1>3 DEF Stacks
<1>6. \A i \in 1 .. Len(path') - 1 : path'[i + 1].node \in path'[i].todo
  <2> SUFFICES ASSUME NEW i \in 1 .. Len(path) - 2 PROVE path'[i + 1].node \in path'[i].todo
    BY <1>1
  <2>1. i \in 1 .. Len(path) - 1 /\ i + 1 \in 1 .. Len(path) - 1 /\ i # Len(path) - 1
    BY <1>1
  <2> QED
    BY <1>2, <2>1 DEF Stacks
<1> QED
  BY <1>1, <1>4, <1>5, <1>6, StacksNext

\* What a frame that is left covers after the return, it covered before, or the
\* node that returns covered it.
LEMMA ReturnBetween ==
    ASSUME SccInv, Return, NEW i \in 1 .. Len(path) - 1, NEW u \in Visited, InFrame(u, i)'
    PROVE  /\ i \in 1 .. Len(path) /\ (InFrame(u, i) \/ (i = Len(path) - 1 /\ D[Top.node] <= D[u]))
           /\ u = Top.node => i = Len(path) - 1
<1> USE DEF SccInv
<1>1. D' = D /\ Len(path') = Len(path) - 1 /\ Len(path) \in Nat \ {0} /\ path # <<>>
  BY ReturnFrames
<1>2. \A k \in 1 .. Len(path) - 1 : path'[k].node = path[k].node
  BY ReturnFrames
<1>3. i \in 1 .. Len(path)
  BY <1>1
<1>4. D[path[i].node] < D[u] /\ (i < Len(path) - 1 => D[u] < D[path[i + 1].node])
  <2>1. i < Len(path) - 1 => i + 1 \in 1 .. Len(path) - 1
    BY <1>1
  <2>2. D'[path'[i].node] < D'[u] /\ (i < Len(path') => D'[u] < D'[path'[i + 1].node])
    BY DEF InFrame
  <2> QED
    BY <1>1, <1>2, <2>1, <2>2
<1>5. Top = path[Len(path)] /\ D[u] \in Nat /\ D[Top.node] \in Nat /\ \A g \in Gray : D[g] <= D[Top.node]
  BY <1>1, TopFacts, Basics
<1>6. CASE i < Len(path) - 1
  <2>1. D[path[i + 1].node] <= D[Top.node] /\ D[path[i + 1].node] \in Nat
    <3>1. i + 1 \in 1 .. Len(path)
      BY <1>1, <1>6
    <3>2. path[i + 1].node \in Gray /\ path[i + 1].node \in Nodes
      BY <3>1, Basics
    <3> QED
      BY <3>2, <1>5, Basics
  <2> QED
    BY <1>1, <1>3, <1>4, <1>5, <1>6, <2>1 DEF InFrame
<1>7. CASE i = Len(path) - 1
  <2>1. path[i + 1] = Top
    BY <1>1, <1>5, <1>7
  <2>2. D[u] < D[Top.node] \/ D[Top.node] <= D[u]
    BY <1>5
  <2> QED
    BY <1>3, <1>4, <1>7, <2>1, <2>2 DEF InFrame
<1> QED
  BY <1>1, <1>6, <1>7

\* The end of visit() for a node that is not the root of its component.
LEMMA ReturnInner ==
    ASSUME SccInv, Return, rep[Top.node] # Top.node
    PROVE  SccInv'
<1> USE DEF SccInv
<1> DEFINE l == Len(path) - 1
           v == Top.node
           p == path[l].node
           n == Len(SS)
<1>1. /\ edges' = edges /\ start' = start /\ D' = D /\ pc' = pc /\ path # <<>> /\ Top.todo = {}
      /\ path' \in Seq(Frames) /\ Len(path') = l /\ l \in Nat
      /\ Gray' = Gray \ {v} /\ Visited' = Visited
      /\ \A g \in Gray : g # v => D[g] < D[v]
  BY ReturnFrames
<1>2. \A i \in 1 .. l :
         /\ path'[i].node = path[i].node
         /\ path'[i].todo = IF i = l THEN path[i].todo \ {v} ELSE path[i].todo
  BY ReturnFrames
<1>3. \A i \in 1 .. l : i \in 1 .. Len(path) /\ i # Len(path)
  BY <1>1
<1>4. /\ Top = path[Len(path)] /\ Len(path) \in 1 .. Len(path) /\ v \in Gray /\ v \in Open /\ v \in Visited
      /\ v \in Nodes /\ v \notin Stacked /\ v \notin inSCC
  BY <1>1, TopFacts, Basics DEF Stacks
<1>5. \A u \in Open : u \in Visited /\ u \in Nodes /\ D[u] \in Nat /\ rep[u] \in Open /\ D[rep[u]] \in Nat /\ D[rep[u]] <= D[u]
  BY Basics DEF Ranked
<1>6. PICK g \in Gray : g # v /\ D[g] < D[v] /\ Leads(v, g)
  <2>1. D[rep[v]] < D[v] /\ Leads(v, rep[v]) /\ rep[v] \in Gray \cup Stacked /\ rep[v] # v
    <3>1. D[rep[v]] # D[v] /\ Leads(v, rep[v]) /\ rep[v] \in Gray \cup Stacked
      BY <1>4, <1>5 DEF Numbered, Ranked, Stacks
    <3> QED
      BY <1>4, <1>5, <3>1
  <2>2. CASE rep[v] \in Gray
    BY <2>1, <2>2
  <2>3. CASE rep[v] \in Stacked
    <3>1. PICK h \in Gray : D[h] < D[rep[v]] /\ Leads(rep[v], h)
      BY <2>3 DEF Back
    <3>2. D[h] \in Nat /\ h \in Nodes
      BY Basics
    <3>3. D[h] < D[v] /\ h # v
      BY <1>4, <1>5, <2>1, <3>1, <3>2
    <3> QED
      BY <2>1, <3>1, <3>3, Basics, ReachesOn
  <2> QED
    BY <2>1, <2>2, <2>3
<1>7. l \in 1 .. l /\ path # <<>> /\ Callers # <<>> /\ Callers[Len(Callers)].node = p
  <2>1. PICK i \in 1 .. Len(path) : g = path[i].node
    BY <1>6 DEF Gray
  <2>2. i # Len(path)
    BY <1>4, <1>6, <2>1
  <2>3. l \in 1 .. l
    BY <1>1, <1>4, <2>1, <2>2
  <2>4. /\ Len(Callers) = l /\ Callers[l] = path[l] /\ Callers # <<>>
    BY <1>1, <2>3, CallersFrames, Basics
  <2> QED
    BY <1>1, <2>3, <2>4
<1>8. inSCC' = inSCC /\ SS' = Append(SS, v) /\ T' = T /\ info' = SetRep({p}, Earlier(info, p, v), info)
  <2>1. ~(info.rep[Top.node] = Top.node)
    BY DEF rep
  <2>2. inSCC' = inSCC /\ SS' = Append(SS, v) /\ T' = T
    BY <2>1 DEF Return
  <2>3. info' = Compare(info, Callers[Len(Callers)].node, v, inSCC')
    BY <1>7, <2>1 DEF Return
  <2> QED
    BY <1>4, <1>7, <2>2, <2>3 DEF Compare
<1>9. p \in Open /\ p \in Gray /\ p # v /\ D[p] < D[v] /\ <<p, v>> \in edges
  <2>1. l \in 1 .. Len(path) /\ path[l].node \in Gray /\ path[l].node \in Open /\ l + 1 = Len(path)
    BY <1>1, <1>3, <1>7, Basics
  <2>2. path[l + 1].node \in path[l].todo /\ path[l].todo \subseteq Children(path[l].node)
    BY <1>7, <2>1 DEF Stacks
  <2>3. D[p] < D[v]
    <3>1. l < Len(path) /\ l \in 1 .. Len(path) /\ Len(path) \in 1 .. Len(path)
      BY <1>1, <1>4, <2>1
    <3> QED
      BY <3>1, <1>4 DEF Stacks
  <2>4. v \in Children(p)
    BY <1>4, <2>1, <2>2
  <2>5. <<p, v>> \in edges
    <3>1. edges \in SUBSET (Nodes \X Nodes)
      BY ReachFacts, Basics
    <3> HIDE DEF p, v
    <3> QED
      BY <2>4, <3>1 DEF Children
  <2>6. p # v
    BY <2>3, <1>4, Basics
  <2> QED
    BY <2>1, <2>3, <2>5, <2>6
<1>10. n \in Nat /\ SS' \in Seq(Nodes) /\ Len(SS') = n + 1 /\ SS'[n + 1] = v /\ \A i \in 1 .. n : SS'[i] = SS[i]
  <2>1. SS \in Seq(Nodes) /\ n \in Nat
    BY Basics DEF SccType
  <2> HIDE DEF v
  <2>2. /\ Append(SS, v) \in Seq(Nodes) /\ Len(Append(SS, v)) = Len(SS) + 1
        /\ \A i \in 1 .. Len(SS) : Append(SS, v)[i] = SS[i]
        /\ Append(SS, v)[Len(SS) + 1] = v
    BY <1>4, <2>1, AppendProperties
  <2> QED
    BY <1>8, <2>1, <2>2
<1>11. Stacked' = Stacked \cup {v} /\ Open' = Open
  <2>1. \A i \in 1 .. n + 1 : i \in 1 .. n \/ i = n + 1
    BY <1>10
  <2>2. \A i \in 1 .. n : i \in 1 .. n + 1
    BY <1>10
  <2>3. n + 1 \in 1 .. n + 1
    BY <1>10
  <2>4. Stacked' = {SS'[i] : i \in 1 .. n + 1}
    BY <1>10 DEF Stacked
  <2> HIDE DEF v
  <2>5. Stacked' = Stacked \cup {v}
    BY <1>10, <2>1, <2>2, <2>3, <2>4 DEF Stacked
  <2> QED
    BY <1>1, <1>8, <2>5 DEF Open
<1> HIDE DEF p, v, l
<1>12. /\ Collected' /\ info' \in Infos /\ info'.repNodes \subseteq info.repNodes \cup Open
       /\ \A m \in Nodes : m # p => rep'[m] = rep[m]
       /\ rep'[p] \in Open /\ D[rep'[p]] <= D[rep[p]] /\ D[rep'[p]] <= D[rep[v]] /\ Leads(p, rep'[p])
  BY <1>1, <1>4, <1>8, <1>9, InfoCompared
<1>13. ASSUME NEW u \in Open
       PROVE  rep'[u] \in Open /\ D[rep'[u]] \in Nat /\ D[rep'[u]] <= D[rep[u]] /\ Leads(u, rep'[u])
  <2>1. CASE u = p
    BY <1>5, <1>12, <2>1
  <2>2. CASE u # p
    BY <1>5, <1>12, <2>2 DEF Ranked
  <2> QED
    BY <2>1, <2>2
<1>14. \A u \in Stacked \cup {v} : u \in Open /\ u # p /\ rep'[u] = rep[u]
  <2>1. \A u \in Stacked \cup {v} : u \in Open /\ u # p
    BY <1>4, <1>9, Basics DEF Stacks
  <2> QED
    BY <1>5, <1>12, <2>1
<1>20. SccType'
  BY <1>1, <1>4, <1>8, <1>10, <1>12 DEF SccType, Infos, Frames
<1>21. Numbered'
  BY <1>1 DEF Numbered
<1>22. Stacks'
  <2>1. inSCC' \subseteq Visited' /\ Open' = Gray' \cup Stacked' /\ Gray' \cap Stacked' = {}
    BY <1>1, <1>4, <1>8, <1>11 DEF Stacks
  <2>2. \A i \in 1 .. n + 1 : i \in 1 .. n \/ i = n + 1
    BY <1>10
  <2>3. \A i \in 1 .. n : SS[i] \in Stacked /\ SS[i] # v
    BY <1>4, Basics
  <2>4. ASSUME NEW i \in 1 .. n + 1, NEW j \in 1 .. n + 1, SS'[i] = SS'[j] PROVE i = j
    BY <1>10, <2>2, <2>3, <2>4 DEF Stacks
  <2>5. Split'
    <3> SUFFICES ASSUME NEW q \in Gray \ {v}, NEW j \in 1 .. n + 1, NEW k \in 1 .. n + 1,
                        j < k, D[SS'[j]] > D[q]
                 PROVE  D[SS'[k]] > D[q]
      BY <1>1, <1>10 DEF Split
    <3>1. j \in 1 .. n
      BY <1>10
    <3>2. CASE k = n + 1
      <4>1. D[q] < D[v] /\ D[q] \in Nat /\ D[v] \in Nat
        BY <1>1, <1>4, Basics
      <4> QED
        BY <1>10, <3>2, <4>1
    <3>3. CASE k \in 1 .. n
      BY <1>10, <3>1, <3>3 DEF Split, Stacks
    <3> QED
      BY <2>2, <3>2, <3>3
  <2> QED
    BY <1>10, <2>1, <2>4, <2>5, ReturnStacks
<1>23. Ranked'
  <2>1. ASSUME NEW m \in Open PROVE D[rep'[m]] <= D[m]
    BY <1>5, <1>13
  <2>2. \A m \in Open' : rep'[m] \in Open' /\ D'[rep'[m]] <= D'[m] /\ Leads(m, rep'[m])
    BY <1>1, <1>11, <1>13, <2>1
  <2>3. \A m \in Stacked' : rep'[m] # m
    BY <1>11, <1>14 DEF Ranked, v
  <2> QED
    BY <1>1, <2>2, <2>3, RankedNext
<1>24. ChildrenSeen'
  <2>1. ASSUME NEW u \in Open, NEW x, Seen(u, x) PROVE SeenNext(u, x)
    <3>1. x \in Visited /\ D[x] \in Nat /\ D[rep'[u]] \in Nat /\ D[rep[u]] \in Nat /\ D[rep'[u]] <= D[rep[u]]
      BY <1>5, <1>13, <2>1, Basics DEF Seen
    <3> QED
      BY <1>1, <1>8, <2>1, <3>1 DEF Seen, SeenNext
  <2>2. ASSUME NEW i \in 1 .. l, NEW x \in Children(path[i].node) \ path'[i].todo
        PROVE  SeenNext(path[i].node, x)
    <3>1. CASE x \notin path[i].todo
      <4>1. Seen(path[i].node, x) /\ path[i].node \in Open
        BY <1>3, <3>1, Basics DEF ChildrenSeen
      <4> QED
        BY <4>1, <2>1
    <3>2. CASE x \in path[i].todo
      <4>1. i = l /\ x = v
        BY <1>2, <3>2
      <4>2. D[rep'[p]] <= D[v]
        BY <1>4, <1>5, <1>12
      <4> QED
        BY <1>1, <1>4, <4>1, <4>2 DEF SeenNext, p
    <3> QED
      BY <3>1, <3>2
  <2>3. ASSUME NEW u \in Stacked', NEW x \in Children(u) PROVE SeenNext(u, x)
    <3>1. CASE u \in Stacked
      BY <1>14, <2>1, <3>1 DEF ChildrenSeen
    <3>2. CASE u = v
      <4>1. x \in Children(path[Len(path)].node) \ path[Len(path)].todo
        BY <1>1, <1>4, <3>2 DEF v
      <4>2. Seen(v, x)
        BY <1>4, <4>1 DEF ChildrenSeen, v
      <4> QED
        BY <1>4, <2>1, <3>2, <4>2
    <3> QED
      BY <1>11, <3>1, <3>2
  <2>4. \A i \in 1 .. Len(path') : \A x \in Children(path'[i].node) \ path'[i].todo : SeenNext(path'[i].node, x)
    BY <1>1, <1>2, <2>2
  <2> QED
    BY <1>1, <2>3, <2>4, ChildrenSeenNext
<1>25. Low'
  <2> SUFFICES ASSUME NEW i \in 1 .. l, NEW u \in Stacked \cup {v}, InFrame(u, i)'
               PROVE  D[rep'[path'[i].node]] <= D[rep'[u]]
    BY <1>1, <1>11 DEF Low, rep
  <2>1. u \in Open /\ u \in Visited /\ rep'[u] = rep[u]
    BY <1>5, <1>14
  <2>2. path[i].node \in Open /\ path'[i].node = path[i].node
    BY <1>2, <1>3, Basics
  <2>3. /\ i \in 1 .. Len(path) /\ (InFrame(u, i) \/ (i = l /\ D[v] <= D[u])) /\ (u = v => i = l)
    BY <2>1, ReturnBetween DEF l, v
  <2>4. CASE u = v
    BY <1>12, <2>1, <2>2, <2>3, <2>4 DEF p
  <2>5. CASE u \in Stacked /\ InFrame(u, i)
    <3>1. D[rep[path[i].node]] <= D[rep[u]]
      BY <2>3, <2>5 DEF Low
    <3>2. D[rep'[path[i].node]] <= D[rep[u]]
      BY <1>5, <1>13, <2>1, <2>2, <3>1
    <3> QED
      BY <2>1, <2>2, <3>2
  <2>6. CASE u \in Stacked /\ i = l /\ D[v] <= D[u]
    <3>1. u # v /\ D[v] # D[u]
      BY <1>4, <1>5, <2>1, <2>6 DEF Numbered
    <3>2. InFrame(u, Len(path))
      BY <1>4, <1>5, <2>1, <2>6, <3>1 DEF InFrame, v
    <3>3. D[rep[v]] <= D[rep[u]]
      BY <1>4, <2>6, <3>2 DEF Low, v
    <3>4. D[rep'[p]] <= D[rep[u]]
      BY <1>4, <1>5, <1>12, <2>1, <3>3, <1>13, <1>9
    <3> QED
      BY <2>1, <2>2, <2>6, <3>4 DEF p
  <2> QED
    BY <2>3, <2>4, <2>5, <2>6
<1>26. Reach[edges]' = Reach[edges]
  BY <1>1, SameGraph
<1>27. Ahead'
  BY <1>1, <1>11, <1>26 DEF Ahead, Leads
<1>28. Back'
  <2> SUFFICES ASSUME NEW u \in Stacked \cup {v} PROVE \E q \in Gray \ {v} : D[q] < D[u] /\ Leads(u, q)
    BY <1>1, <1>11, <1>26 DEF Back, Leads
  <2>1. CASE u = v
    BY <1>6, <2>1
  <2>2. CASE u \in Stacked
    <3>1. PICK q \in Gray : D[q] < D[u] /\ Leads(u, q)
      BY <2>2 DEF Back
    <3>2. CASE q # v
      BY <3>1, <3>2
    <3>3. CASE q = v
      <4>1. Leads(u, g)
        BY <1>6, <3>1, <3>3, Basics, ReachesOn
      <4>2. D[g] \in Nat /\ D[v] \in Nat /\ D[u] \in Nat
        BY <1>5, <1>6, <1>4, <2>2, <1>14, Basics
      <4>3. D[g] < D[u]
        BY <1>6, <3>1, <3>3, <4>2
      <4> QED
        BY <1>6, <4>1, <4>3
    <3> QED
      BY <3>2, <3>3
  <2> QED
    BY <2>1, <2>2
<1>29. Ordered'
  <2>1. \A m \in inSCC : rep'[m] = rep[m]
    BY <1>9, <1>12, Basics
  <2>2. {m \in inSCC' : rep'[m] = m} = {m \in inSCC : rep[m] = m}
    BY <1>8, <2>1
  <2> QED
    BY <1>8, <1>26, <2>2 DEF Ordered
<1>30. Started'
  BY <1>1, <1>26 DEF Started
<1>31. Kept'
  BY <1>1, <1>12, Basics DEF Kept
<1> QED
  BY <1>12, <1>20, <1>21, <1>22, <1>23, <1>24, <1>25, <1>27, <1>28, <1>29, <1>30, <1>31

\* The members of a root's component are the top of SS.
LEMMA MembersTop ==
    ASSUME SccType, Stacks, NEW v \in Gray
    PROVE  /\ Members(v) = {u \in Stacked : D[u] > D[v]}
           /\ \E k \in 0 .. Len(SS) :
                 /\ Len(SS) - Cardinality(Members(v)) = k
                 /\ Members(v) = {SS[i] : i \in k + 1 .. Len(SS)}
<1> DEFINE n == Len(SS)
           L == {j \in 1 .. n : \A k \in j .. n : D[SS[k]] > D[v]}
           S == (1 .. n) \ L
<1>1. n \in Nat /\ Members(v) = {SS[i] : i \in L}
  BY Basics DEF Members
<1>2. \A i, j \in 1 .. n : i < j /\ i \in L => j \in L
  BY <1>1
<1>3. S \in SUBSET (1 .. n) /\ \A i, j \in 1 .. n : i < j /\ j \in S => i \in S
  BY <1>2
<1>4. PICK k \in 0 .. n : S = 1 .. k
  <2> HIDE DEF S, n
  <2> QED
    BY <1>1, <1>3, SegmentEnd
<1>5. L = k + 1 .. n
  <2> HIDE DEF L, n
  <2>1. L \subseteq 1 .. n
    BY DEF L
  <2>2. \A j \in 1 .. n : j \in L <=> ~(j \in 1 .. k)
    BY <1>4
  <2>3. k \in Nat /\ n \in Nat
    BY <1>1, <1>4
  <2>4. \A j \in k + 1 .. n : j \in 1 .. n /\ ~(j \in 1 .. k)
    BY <2>3
  <2>5. \A j \in 1 .. n : ~(j \in 1 .. k) => j \in k + 1 .. n
    BY <2>3
  <2> QED
    BY <2>1, <2>2, <2>4, <2>5
<1>6. Members(v) = {u \in Stacked : D[u] > D[v]}
  <2>1. ASSUME NEW j \in 1 .. n, D[SS[j]] > D[v] PROVE j \in L
    <3>1. \A m \in j .. n : m = j \/ j < m
      BY <1>1
    <3>2. \A m \in j .. n : m \in 1 .. n
      BY <1>1
    <3>3. \A m \in j .. n : D[SS[m]] > D[v]
      BY <2>1, <3>1, <3>2 DEF Stacks, Split
    <3> QED
      BY <3>3
  <2>2. \A j \in L : j \in 1 .. n /\ D[SS[j]] > D[v]
    BY <1>1
  <2> HIDE DEF L
  <2>3. Stacked = {SS[i] : i \in 1 .. n}
    BY DEF Stacked
  <2> HIDE DEF n
  <2> QED
    BY <1>1, <2>1, <2>2, <2>3
<1>7. Cardinality(Members(v)) = n - k
  <2> DEFINE I == k + 1 .. n
             M == Members(v)
             f == [i \in I |-> SS[i]]
  <2>1. IsFiniteSet(I) /\ Cardinality(I) = n - k
    <3> DEFINE a == k + 1
    <3>1. k \in Nat /\ n \in Nat /\ a \in Int /\ n \in Int /\ k <= n
      BY <1>1, <1>4
    <3>2. (IF a > n THEN 0 ELSE n - a + 1) = n - k
      BY <3>1
    <3> HIDE DEF a, n
    <3>3. IsFiniteSet(a .. n) /\ Cardinality(a .. n) = IF a > n THEN 0 ELSE n - a + 1
      BY <3>1, FS_Interval
    <3> QED
      BY <3>2, <3>3 DEF a
  <2>2. I \subseteq 1 .. n
    BY <1>1, <1>4
  <2>3. M = {SS[i] : i \in I}
    BY <1>1, <1>5
  <2>4. f \in Bijection(I, M)
    <3>1. f \in [I -> M] /\ \A m \in M : \E i \in I : f[i] = m
      BY <2>3
    <3>2. \A i, j \in I : f[i] = f[j] => i = j
      BY <2>2 DEF Stacks
    <3> HIDE DEF I, M, f
    <3> QED
      BY <3>1, <3>2 DEF Bijection, Injection, Surjection, IsInjective
  <2>5. ExistsBijection(I, M)
    BY <2>4 DEF ExistsBijection
  <2> HIDE DEF I, M
  <2>6. Cardinality(M) = Cardinality(I)
    BY <2>1, <2>5, FS_Bijection
  <2> QED
    BY <2>1, <2>6 DEF M
<1>8. n - Cardinality(Members(v)) = k
  BY <1>1, <1>4, <1>7
<1>9. Members(v) = {SS[i] : i \in k + 1 .. n}
  BY <1>1, <1>5
<1> QED
  BY <1>6, <1>8, <1>9

\* The root of a component reaches its members and they reach it; what else they
\* reach is complete.
TopMembers == Members(Top.node) \cup {Top.node}

LEMMA RootComponent ==
    ASSUME SccInv, path # <<>>, Top.todo = {}, rep[Top.node] = Top.node
    PROVE  /\ TopMembers \subseteq Open /\ TopMembers \subseteq Nodes \ inSCC
           /\ \A m \in TopMembers : D[Top.node] <= D[m]
           /\ \A n \in Open \ TopMembers : D[n] < D[Top.node]
           /\ TopMembers \cap Gray = {Top.node} /\ TopMembers \cap Stacked = Members(Top.node)
           /\ \A n \in TopMembers : Children(n) \subseteq inSCC \cup TopMembers /\ Component(n) = TopMembers
<1> USE DEF SccInv
<1> DEFINE v == Top.node
           M == TopMembers
<1>1. /\ Top = path[Len(path)] /\ Len(path) \in 1 .. Len(path) /\ v \in Gray /\ v \in Open /\ v \in Visited
      /\ v \in Nodes /\ v \notin Stacked /\ v \notin inSCC /\ D[v] \in Nat /\ \A g \in Gray : D[g] <= D[v]
  BY TopFacts, Basics DEF Stacks
<1>2. Members(v) = {u \in Stacked : D[u] > D[v]}
  BY <1>1, MembersTop
<1>3. \A u \in Open : u \in Visited /\ u \in Nodes /\ u \notin inSCC /\ D[u] \in Nat /\ rep[u] \in Open /\ D[rep[u]] \in Nat
  BY Basics DEF Ranked
<1>4. rep[v] = v /\ M = Members(v) \cup {v} /\ path # <<>> /\ path[Len(path)].todo = {}
  BY <1>1 DEF TopMembers
<1> HIDE DEF v, M
<1>5. M \subseteq Open /\ M \cap Gray = {v} /\ M \cap Stacked = Members(v)
  BY <1>1, <1>2, <1>4, Basics DEF Stacks
<1>6. ASSUME NEW w \in Open, D[v] <= D[w] PROVE w \in M
  <2>1. CASE w \in Stacked
    <3>1. w # v /\ D[w] # D[v]
      BY <1>1, <1>3, <2>1 DEF Numbered
    <3>2. D[w] > D[v]
      BY <1>1, <1>3, <1>6, <3>1
    <3> QED
      BY <1>2, <1>4, <2>1, <3>2
  <2>2. CASE w \in Gray
    <3>1. D[w] = D[v]
      BY <1>1, <1>3, <1>6, <2>2
    <3> QED
      BY <1>1, <1>3, <1>4, <3>1 DEF Numbered
  <2> QED
    BY <2>1, <2>2 DEF Stacks
<1>7. \A n \in Open \ M : D[n] < D[v]
  BY <1>1, <1>3, <1>6
<1>8. \A m \in M : D[v] <= D[m]
  BY <1>1, <1>2, <1>3, <1>4, <1>5
<1>9. ASSUME NEW n \in M, NEW w \in Children(n) PROVE w \in inSCC \cup M
  <2>1. Seen(n, w) /\ D[v] <= D[rep[n]]
    <3>1. CASE n = v
      <4>1. Seen(v, w)
        BY <1>1, <1>4, <1>9, <3>1 DEF ChildrenSeen, v
      <4> QED
        BY <1>1, <1>4, <3>1, <4>1
    <3>2. CASE n \in Members(v)
      <4>1. n \in Stacked /\ InFrame(n, Len(path))
        BY <1>1, <1>2, <1>3, <3>2, Basics DEF InFrame, v
      <4>2. D[rep[v]] <= D[rep[n]]
        BY <1>1, <4>1 DEF Low, v
      <4> QED
        BY <1>4, <1>9, <4>1, <4>2 DEF ChildrenSeen
    <3> QED
      BY <1>4, <3>1, <3>2
  <2>2. CASE w \in inSCC
    BY <2>2
  <2>3. CASE w \notin inSCC
    <3>1. w \in Open /\ D[rep[n]] <= D[w]
      BY <2>1, <2>3 DEF Seen, Open
    <3>2. D[v] <= D[w]
      BY <1>1, <1>3, <1>5, <2>1, <3>1
    <3> QED
      BY <1>6, <3>1, <3>2
  <2> QED
    BY <2>2, <2>3
<1> DEFINE K == inSCC \cup M
<1>10. K \in SUBSET Nodes /\ \A m \in K : Children(m) \subseteq K
  <2>1. \A m \in inSCC : Children(m) \subseteq inSCC
    BY DEF Collected, Complete
  <2> QED
    BY <1>3, <1>5, <1>9, <2>1 DEF SccType
<1>11. \A m \in K : \A n : Leads(m, n) => n \in K
  <2> HIDE DEF K
  <2> QED
    BY <1>10, Basics, ReachesWithin
<1>12. \A m \in inSCC : \A n : Leads(m, n) => n \in inSCC
  <2>1. inSCC \in SUBSET Nodes /\ \A m \in inSCC : Children(m) \subseteq inSCC
    BY DEF Collected, Complete, SccType
  <2> QED
    BY <2>1, Basics, ReachesWithin
<1>13. ASSUME NEW n \in M PROVE Leads(n, v) /\ Leads(v, n)
  <2>1. Leads(v, n)
    BY <1>1, <1>3, <1>5, <1>8 DEF Ahead
  <2>2. CASE n = v
    BY <2>2 DEF Leads
  <2>3. CASE n \in Stacked
    <3>1. PICK g \in Gray : Leads(n, g)
      BY <2>3 DEF Back
    <3>2. g \in K /\ g \notin inSCC
      BY <1>11, <3>1, <1>3, Basics
    <3>3. g = v
      BY <1>5, <3>2
    <3> QED
      BY <2>1, <3>1, <3>3
  <2> QED
    BY <1>2, <1>4, <2>1, <2>2, <2>3
<1>14. ASSUME NEW n \in M PROVE Component(n) = M
  <2>1. ASSUME NEW m \in M PROVE m \in Component(n)
    <3>1. Leads(m, n) /\ Leads(n, m)
      BY <1>13, Basics, ReachesOn
    <3> QED
      BY <1>3, <1>5, <3>1, TogetherReaches DEF Component
  <2>2. ASSUME NEW m \in Component(n) PROVE m \in M
    <3>1. Leads(m, n) /\ Leads(n, m)
      BY TogetherReaches DEF Component
    <3>2. m \in K /\ n \notin inSCC
      BY <1>3, <1>5, <1>11, <3>1
    <3> QED
      BY <1>12, <3>1, <3>2
  <2> QED
    BY <2>1, <2>2
<1>15. M \subseteq Nodes \ inSCC
  BY <1>3, <1>5
<1> QED
  BY <1>5, <1>7, <1>8, <1>9, <1>14, <1>15 DEF v, M

\* The end of visit() for the root of a component.
LEMMA ReturnRoot ==
    ASSUME SccInv, Return, rep[Top.node] = Top.node
    PROVE  SccInv'
<1> USE DEF SccInv
<1> DEFINE l == Len(path) - 1
           v == Top.node
           M == Members(v) \cup {v}
<1>1. /\ edges' = edges /\ start' = start /\ D' = D /\ pc' = pc /\ path # <<>> /\ Top.todo = {}
      /\ path' \in Seq(Frames) /\ Len(path') = l /\ l \in Nat
      /\ Gray' = Gray \ {v} /\ Visited' = Visited
  BY ReturnFrames
<1>2. \A i \in 1 .. l :
         /\ path'[i].node = path[i].node
         /\ path'[i].todo = IF i = l THEN path[i].todo \ {v} ELSE path[i].todo
  BY ReturnFrames
<1>3. \A i \in 1 .. l : i \in 1 .. Len(path) /\ path[i].node \in Open /\ path[i].node # v
  <2> SUFFICES ASSUME NEW i \in 1 .. l PROVE i \in 1 .. Len(path) /\ path[i].node \in Open /\ path[i].node # v
    OBVIOUS
  <2>1. i \in 1 .. Len(path) /\ i \in 1 .. Len(path')
    BY <1>1
  <2>2. path'[i].node \in Gray'
    BY <2>1 DEF Gray
  <2> QED
    BY <1>1, <1>2, <2>1, <2>2, Basics
<1>4. v \in Gray /\ v \in Open /\ v \in Nodes /\ D[v] \in Nat
  BY <1>1, TopFacts, Basics
<1>5. /\ M \subseteq Open /\ M \subseteq Nodes \ inSCC /\ \A m \in M : D[v] <= D[m]
      /\ \A n \in Open \ M : D[n] < D[v]
      /\ M \cap Gray = {v} /\ M \cap Stacked = Members(v)
      /\ \A n \in M : Children(n) \subseteq inSCC \cup M /\ Component(n) = M
  <2>1. path # <<>> /\ Top.todo = {} /\ M = TopMembers
    BY <1>1 DEF TopMembers
  <2> HIDE DEF M, v, l
  <2>2. v = Top.node
    BY DEF v
  <2> QED
    BY <2>1, <2>2, RootComponent
<1>6. /\ inSCC' = inSCC \cup M /\ T' = Append(T, v) /\ info' = SetRep(M, v, info)
      /\ SS' = SubSeq(SS, 1, Len(SS) - Cardinality(Members(v)))
  <2>1. info.rep[Top.node] = Top.node
    BY DEF rep
  <2>2. /\ inSCC' = inSCC \cup Members(v) \cup {v} /\ T' = Append(T, v)
        /\ SS' = SubSeq(SS, 1, Len(SS) - Cardinality(Members(v)))
    BY <2>1 DEF Return
  <2>3. info' = SetRep(M, v, info)
    <3>1. CASE Callers = <<>>
      BY <2>1, <3>1 DEF Return
    <3>2. CASE Callers # <<>>
      <4>1. info' = Compare(SetRep(M, v, info), Callers[Len(Callers)].node, v, inSCC')
        BY <2>1, <3>2 DEF Return
      <4>2. v \in inSCC'
        BY <2>2
      <4> QED
        BY <4>1, <4>2 DEF Compare
    <3> QED
      BY <3>1, <3>2
  <2> QED
    BY <2>2, <2>3
<1>7. PICK k \in 0 .. Len(SS) : /\ Len(SS) - Cardinality(Members(v)) = k
                                /\ Members(v) = {SS[i] : i \in k + 1 .. Len(SS)}
  BY <1>4, MembersTop
<1>8. /\ SS' \in Seq(Nodes) /\ Len(SS') = k /\ k \in Nat /\ \A i \in 1 .. k : SS'[i] = SS[i] /\ i \in 1 .. Len(SS)
  <2>1. k \in Nat /\ Len(SS) \in Nat /\ SS \in Seq(Nodes) /\ SS' = SubSeq(SS, 1, k)
    <3>1. SS \in Seq(Nodes) /\ SS' = SubSeq(SS, 1, k)
      BY <1>6, <1>7 DEF SccType
    <3>2. Len(SS) \in Nat
      BY Basics
    <3> QED
      BY <3>1, <3>2
  <2>2. \A i \in 1 .. k : i \in 1 .. Len(SS) /\ SS[i] \in Nodes
    BY <1>7, <2>1, Basics
  <2>3. /\ SubSeq(SS, 1, k) \in Seq(Nodes) /\ Len(SubSeq(SS, 1, k)) = (IF 1 <= k THEN k - 1 + 1 ELSE 0)
        /\ \A i \in 1 .. k - 1 + 1 : SubSeq(SS, 1, k)[i] = SS[1 + i - 1]
    BY ONLY <2>1, <2>2, SubSeqProperties, SMTT(30)
  <2> QED
    BY <2>1, <2>2, <2>3
<1>9. Stacked' = Stacked \ M /\ Open' = Open \ M
  <2>1. Stacked' = {SS[i] : i \in 1 .. k}
    BY <1>8 DEF Stacked
  <2>2. \A i \in 1 .. Len(SS) : i \in 1 .. k \/ i \in k + 1 .. Len(SS)
    BY <1>8, Basics
  <2>3. \A i \in 1 .. k, j \in k + 1 .. Len(SS) : i \in 1 .. Len(SS) /\ j \in 1 .. Len(SS) /\ i # j
    BY <1>8, Basics
  <2>4. \A i \in 1 .. k, j \in k + 1 .. Len(SS) : SS[i] # SS[j]
    BY <2>3 DEF Stacks
  <2>5. Stacked = {SS[i] : i \in 1 .. Len(SS)} /\ Stacked' \subseteq Stacked
    BY <1>8, <2>1 DEF Stacked
  <2>6. Stacked' = Stacked \ Members(v)
    BY <1>7, <2>1, <2>2, <2>4, <2>5
  <2>7. Stacked \ Members(v) = Stacked \ M
    BY <1>4, Basics DEF Stacks
  <2> QED
    BY <1>1, <1>6, <2>6, <2>7 DEF Open
<1> HIDE DEF M, v, l
<1>10. v \in M /\ M \in SUBSET (Nodes \ inSCC)
  BY <1>5 DEF M
<1>11. /\ Collected' /\ info' \in Infos /\ info'.repNodes \subseteq info.repNodes \cup {v}
       /\ \A n \in Nodes : rep'[n] = IF n \in M THEN v ELSE rep[n]
  BY <1>1, <1>5, <1>6, <1>10, InfoCompleted
<1>12. \A u \in Open : u \in Visited /\ u \in Nodes /\ u \notin inSCC /\ D[u] \in Nat /\ rep[u] \in Open /\ D[rep[u]] \in Nat /\ D[rep[u]] <= D[u]
  BY Basics DEF Ranked
<1>13. \A u \in Open \ M : rep'[u] = rep[u] /\ rep[u] \in Open \ M
  <2> SUFFICES ASSUME NEW u \in Open \ M PROVE rep'[u] = rep[u] /\ rep[u] \in Open \ M
    OBVIOUS
  <2>1. rep'[u] = rep[u]
    BY <1>11, <1>12
  <2>2. D[rep[u]] < D[v]
    BY <1>4, <1>5, <1>12
  <2>3. rep[u] \notin M
    BY <1>4, <1>5, <1>12, <2>2
  <2> QED
    BY <1>12, <2>1, <2>3
<1>14. Reach[edges]' = Reach[edges]
  BY <1>1, SameGraph
<1>15. T \in Seq(Nodes) /\ Len(T) \in Nat
  BY LenProperties DEF SccType
<1>16. /\ T' \in Seq(Nodes) /\ Len(T') = Len(T) + 1 /\ T'[Len(T) + 1] = v
       /\ \A i \in 1 .. Len(T) : T'[i] = T[i]
  <2>1. /\ Append(T, v) \in Seq(Nodes) /\ Len(Append(T, v)) = Len(T) + 1
        /\ \A i \in 1 .. Len(T) : Append(T, v)[i] = T[i]
        /\ Append(T, v)[Len(T) + 1] = v
    BY <1>4, <1>15, AppendProperties
  <2> QED
    BY <1>6, <2>1
<1>17. \A i \in 1 .. l : path[i].node \in Open \ M
  <2>1. \A i \in 1 .. l : path[i].node \in Gray
    BY <1>3, Basics
  <2> QED
    BY <1>3, <1>5, <2>1
<1>20. SccType'
  BY <1>1, <1>6, <1>8, <1>11, <1>16, <1>5 DEF SccType, Infos, Frames
<1>21. Numbered'
  BY <1>1 DEF Numbered
<1>22. Stacks'
  <2>1. inSCC' \subseteq Visited'
    BY <1>1, <1>5, <1>6, <1>12, Basics
  <2>2. Open' = Gray' \cup Stacked' /\ Gray' \cap Stacked' = {}
    BY <1>1, <1>5, <1>9 DEF Stacks
  <2>3. \A i, j \in 1 .. Len(SS') : SS'[i] = SS'[j] => i = j
    BY <1>8 DEF Stacks
  <2>4. Split'
    <3> SUFFICES ASSUME NEW q \in Gray, NEW i \in 1 .. k, NEW j \in 1 .. k, i < j, D[SS[i]] > D[q]
                 PROVE  D[SS[j]] > D[q]
      BY <1>1, <1>8 DEF Split
    <3> QED
      BY <1>8 DEF Split, Stacks
  <2> QED
    BY <2>1, <2>2, <2>3, <2>4, ReturnStacks
<1>23. Ranked'
  <2>1. \A m \in Open' : rep'[m] \in Open' /\ D'[rep'[m]] <= D'[m] /\ Leads(m, rep'[m])
    BY <1>1, <1>9, <1>12, <1>13 DEF Ranked
  <2>2. \A m \in Stacked' : rep'[m] # m
    BY <1>9, <1>13, Basics DEF Ranked
  <2> QED
    BY <1>1, <2>1, <2>2, RankedNext
<1>24. ChildrenSeen'
  <2>1. ASSUME NEW u \in Open \ M, NEW x, Seen(u, x) PROVE SeenNext(u, x)
    BY <1>1, <1>6, <1>13, <2>1 DEF Seen, SeenNext
  <2>2. ASSUME NEW i \in 1 .. l, NEW x \in Children(path[i].node) \ path'[i].todo
        PROVE  SeenNext(path[i].node, x)
    <3>1. CASE x \notin path[i].todo
      BY <1>3, <1>17, <2>1, <3>1 DEF ChildrenSeen
    <3>2. CASE x \in path[i].todo
      <4>1. x = v
        BY <1>2, <3>2
      <4> QED
        BY <1>1, <1>6, <1>10, <1>4, <1>12, <4>1 DEF SeenNext
    <3> QED
      BY <3>1, <3>2
  <2>3. ASSUME NEW u \in Stacked', NEW x \in Children(u) PROVE SeenNext(u, x)
    BY <1>9, <2>1, Basics DEF ChildrenSeen
  <2>4. \A i \in 1 .. Len(path') : \A x \in Children(path'[i].node) \ path'[i].todo : SeenNext(path'[i].node, x)
    BY <1>1, <1>2, <2>2
  <2> QED
    BY <1>1, <2>3, <2>4, ChildrenSeenNext
<1>25. Low'
  <2> SUFFICES ASSUME NEW i \in 1 .. l, NEW u \in Stacked \ M, InFrame(u, i)'
               PROVE  D[rep'[path'[i].node]] <= D[rep'[u]]
    BY <1>1, <1>9 DEF Low, rep
  <2>1. u \in Open \ M /\ u \in Visited /\ D[u] < D[v] /\ rep'[u] = rep[u]
    BY <1>5, <1>12, <1>13, Basics
  <2>2. i \in 1 .. Len(path) /\ (InFrame(u, i) \/ D[v] <= D[u])
    BY <2>1, ReturnBetween DEF l, v
  <2>3. InFrame(u, i)
    BY <1>4, <1>12, <2>1, <2>2
  <2>4. D[rep[path[i].node]] <= D[rep[u]]
    BY <2>2, <2>3 DEF Low
  <2> QED
    BY <1>2, <1>13, <1>17, <2>1, <2>4
<1>26. Ahead'
  BY <1>1, <1>9, <1>14 DEF Ahead, Leads
<1>27. Back'
  <2> SUFFICES ASSUME NEW u \in Stacked \ M PROVE \E q \in Gray \ {v} : D[q] < D[u] /\ Leads(u, q)
    BY <1>1, <1>9, <1>14 DEF Back, Leads
  <2>1. PICK q \in Gray : D[q] < D[u] /\ Leads(u, q)
    BY DEF Back
  <2>2. D[u] < D[v] /\ D[q] \in Nat /\ D[u] \in Nat
    BY <1>5, <1>12, Basics
  <2>3. q # v
    BY <1>4, <2>1, <2>2
  <2> QED
    BY <2>1, <2>3
<1>28. Ordered'
  <2>1. \A m \in inSCC : m \in Nodes /\ m \notin M /\ rep'[m] = rep[m]
    BY <1>5, <1>11 DEF SccType
  <2>2. {m \in inSCC' : rep'[m] = m} = {m \in inSCC : rep[m] = m} \cup {v}
    BY <1>6, <1>10, <1>11, <2>1
  <2>3. \A i \in 1 .. Len(T) + 1 : i \in 1 .. Len(T) \/ i = Len(T) + 1
    BY <1>15
  <2>4. Len(T) + 1 \in 1 .. Len(T) + 1 /\ \A i \in 1 .. Len(T) : i \in 1 .. Len(T) + 1
    BY <1>15
  <2>5. {T'[i] : i \in 1 .. Len(T')} = {T[i] : i \in 1 .. Len(T)} \cup {v}
    BY <1>16, <2>3, <2>4
  <2>6. \A i \in 1 .. Len(T) : T[i] \in inSCC
    BY DEF Ordered
  <2>7. v \notin inSCC /\ \A m \in inSCC : <<m, v>> \notin Reach[edges]
    <3>1. inSCC \in SUBSET Nodes /\ \A m \in inSCC : Children(m) \subseteq inSCC
      BY DEF Collected, Complete, SccType
    <3>2. \A m \in inSCC : \A n : Leads(m, n) => n \in inSCC
      BY <3>1, Basics, ReachesWithin
    <3> QED
      BY <1>4, <1>12, <3>2 DEF Leads
  <2>8. ASSUME NEW i \in 1 .. Len(T) + 1, NEW j \in 1 .. Len(T) + 1, i < j
        PROVE  T'[i] # T'[j] /\ <<T'[i], T'[j]>> \notin Reach[edges]
    <3>1. i \in 1 .. Len(T)
      BY <1>15, <2>8
    <3>2. CASE j = Len(T) + 1
      BY <1>16, <2>6, <2>7, <3>1, <3>2
    <3>3. CASE j \in 1 .. Len(T)
      BY <1>16, <2>8, <3>1, <3>3 DEF Ordered
    <3> QED
      BY <2>3, <3>2, <3>3
  <2>9. {T'[i] : i \in 1 .. Len(T')} = {m \in inSCC' : rep'[m] = m}
    BY <2>2, <2>5 DEF Ordered
  <2> QED
    BY <1>14, <1>16, <2>8, <2>9 DEF Ordered
<1>29. Started'
  BY <1>1, <1>14 DEF Started
<1>30. Kept'
  BY <1>1, <1>4, <1>11, Basics DEF Kept
<1> QED
  BY <1>11, <1>20, <1>21, <1>22, <1>23, <1>24, <1>25, <1>26, <1>27, <1>28, <1>29, <1>30

-----------------------------------------------------------------------------
(***************************************************************************)
(* The beginning of a detection, its end, and the theorems.                *)
(***************************************************************************)
Fresh ==
    /\ edges \in Graphs /\ start \subseteq Nodes /\ pc \in {"idle", "find"}
    /\ info = NoInfo /\ inSCC = {} /\ D = [n \in Nodes |-> 0]
    /\ SS = <<>> /\ T = <<>> /\ path = <<>>

LEMMA FreshInv == Fresh => SccInv
<1> SUFFICES ASSUME Fresh PROVE SccInv
  OBVIOUS
<1>1. /\ edges \in Graphs /\ start \subseteq Nodes /\ pc \in {"idle", "find"}
      /\ info = NoInfo /\ inSCC = {} /\ D = [n \in Nodes |-> 0]
      /\ SS = <<>> /\ T = <<>> /\ path = <<>>
  BY DEF Fresh
<1>2. /\ Len(SS) = 0 /\ Len(T) = 0 /\ Len(path) = 0
      /\ SS \in Seq(Nodes) /\ T \in Seq(Nodes) /\ path \in Seq(Frames)
  BY <1>1, EmptySeq
<1>3. Visited = {} /\ Open = {} /\ Gray = {} /\ Stacked = {} /\ \A i \in 1 .. 0 : FALSE
  BY <1>1, <1>2 DEF Visited, Open, Gray, Stacked
<1>4. info \in Infos /\ info.repNodes = {} /\ \A n \in Nodes : info.subNodes[n] = {}
  BY <1>1 DEF NoInfo, Infos
<1>5. SccType
  BY <1>1, <1>2, <1>4 DEF SccType, Infos, Frames
<1>6. Kept /\ Numbered
  <2>1. Cardinality(Visited) \in Nat
    BY <1>3, FS_EmptySet
  <2> QED
    BY <1>1, <1>3, <1>4, <2>1 DEF Kept, Numbered
<1>7. Stacks /\ Ranked /\ ChildrenSeen /\ Low /\ Ahead /\ Back
  <2>1. Len(path) - 1 < 1 /\ \A i \in 1 .. Len(path) - 1 : FALSE
    BY <1>2
  <2> QED
    BY <1>1, <1>2, <1>3, <2>1 DEF Stacks, Split, Ranked, ChildrenSeen, Low, Ahead, Back
<1>8. Collected
  BY <1>1, <1>4 DEF Collected, Tentative, subNodes
<1>9. Ordered
  BY <1>1, <1>2, <1>3 DEF Ordered
<1>10. Started
  BY <1>1, <1>3 DEF Started
<1> QED
  BY <1>5, <1>6, <1>7, <1>8, <1>9, <1>10 DEF SccInv

LEMMA FindPreserves ==
    ASSUME SccInv, NEW cs \in SUBSET Nodes, NEW E \in Graphs, Find(cs, E)
    PROVE  SccInv'
<1>1. path = <<>>
  BY DEF SccInv, SccType, Find
<1>2. Fresh'
  BY <1>1 DEF Find, Clear, Fresh
<1> QED
  BY <1>2, FreshInv, PTL

LEMMA FinishPreserves ==
    ASSUME SccInv, edges' = edges, start' = start, info' = info, inSCC' = inSCC, D' = D, SS' = SS, T' = T,
           path' = path, pc' = pc \/ (pc' = "done" /\ path = <<>> /\ start \subseteq Visited)
    PROVE  SccInv'
<1>1. /\ Visited' = Visited /\ Open' = Open /\ Gray' = Gray /\ Stacked' = Stacked /\ rep' = rep
      /\ Reach[edges]' = Reach[edges]
  BY DEF Visited, Open, Gray, Stacked, rep, Reach
<1>2. SccType'
  BY DEF SccInv, SccType
<1>3. Kept' /\ Numbered'
  BY <1>1 DEF SccInv, Kept, Numbered
<1>4. Stacks' = Stacks
  BY <1>1 DEF Stacks, Split, Children
<1>5. Ranked' = Ranked
  BY <1>1 DEF Ranked, Leads
<1>6. ChildrenSeen' = ChildrenSeen
  BY <1>1 DEF ChildrenSeen, Seen, Children
<1>7. Low' = Low
  BY <1>1 DEF Low, InFrame
<1>8. Ahead' = Ahead /\ Back' = Back
  BY <1>1 DEF Ahead, Back, Leads
<1>9. Collected' = Collected
  BY <1>1 DEF Collected, Complete, Tentative, Children, Together, Component, subNodes
<1>10. Ordered' = Ordered
  BY <1>1 DEF Ordered
<1>11. Started'
  BY <1>1 DEF SccInv, Started
<1> QED
  BY <1>2, <1>3, <1>4, <1>5, <1>6, <1>7, <1>8, <1>9, <1>10, <1>11 DEF SccInv

\* Every step of a detection, whoever runs it.
LEMMA DetectPreserves ==
    ASSUME SccInv, Detect PROVE SccInv'
<1>1. SccType /\ Stacks
  BY DEF SccInv
<1>2. CASE VisitRoot
  <2>1. PICK v \in start \ Visited : Enter(v, path)
    BY <1>2 DEF VisitRoot
  <2>2. Entering(v)
    BY <1>1, <1>2, <2>1 DEF VisitRoot, Entering, SccType
  <2> QED
    BY <2>2, EnterPreserves
<1>3. CASE VisitChild
  <2>1. PICK v \in Top.todo \ Visited : Enter(v, path)
    BY <1>3 DEF VisitChild
  <2>2. path # <<>> /\ pc = "find"
    BY <1>1, <1>3 DEF VisitChild, SccType
  <2>3. v \in Nodes
    BY <1>1, <2>2, TopFacts DEF Frames
  <2>4. Entering(v)
    BY <2>1, <2>2, <2>3 DEF Entering
  <2> QED
    BY <2>4, EnterPreserves
<1>4. CASE CompareChild
  <2>1. PICK w : Comparing(w)
    BY <1>4 DEF CompareChild, Comparing
  <2> QED
    BY <2>1, ComparePreserves
<1>5. CASE Return
  BY <1>5, ReturnRoot, ReturnInner
<1>6. CASE Finish
  BY <1>6, FinishPreserves DEF Finish
<1> QED
  BY <1>2, <1>3, <1>4, <1>5, <1>6 DEF Detect

LEMMA SccUnchanged == SccInv /\ UNCHANGED sccVars => SccInv'
BY FinishPreserves DEF sccVars

LEMMA InitSccInv == sccInit => SccInv
<1>1. sccInit => Fresh
  BY DEF sccInit, Fresh
<1> QED
  BY <1>1, FreshInv

\* Every reachable state satisfies the invariant of the detection.
THEOREM SccInvAlways == Spec => []SccInv
<1>1. SccInv /\ [Next]_sccVars => SccInv'
  <2>1. ASSUME SccInv, NEW cs \in SUBSET Nodes, NEW E \in Changed, Find(cs, E) PROVE SccInv'
    BY <2>1, FindPreserves DEF Changed
  <2> QED
    BY <2>1, DetectPreserves, SccUnchanged DEF Next
<1> QED
  BY <1>1, InitSccInv, PTL DEF Spec

LEMMA DoneComplete ==
    ASSUME SccInv, pc = "done"
    PROVE  Visited = inSCC /\ inSCC = ReachedFrom(start, Reach[edges])
<1> USE DEF SccInv
<1>1. path = <<>> /\ Len(path) = 0
  BY EmptySeq DEF SccType
<1>2. Gray = {}
  BY <1>1 DEF Gray
<1>3. Visited = inSCC
  BY <1>2 DEF Stacks, Back, Open
<1>4. start \subseteq inSCC /\ inSCC \subseteq ReachedFrom(start, Reach[edges])
  BY <1>3 DEF Started
<1>5. inSCC \in SUBSET Nodes /\ \A m \in inSCC : Children(m) \subseteq inSCC
  BY DEF Collected, Complete, SccType
<1>6. \A m \in inSCC : \A n : Leads(m, n) => n \in inSCC
  BY <1>5, Basics, ReachesWithin
<1>7. ReachedFrom(start, Reach[edges]) \subseteq inSCC
  <2> SUFFICES ASSUME NEW e \in Reach[edges], e[1] \in start PROVE e[2] \in inSCC
    BY <1>4 DEF ReachedFrom
  <2>1. Reach[edges] \in SUBSET (Nodes \X Nodes)
    BY ReachFacts, Basics
  <2>2. e = <<e[1], e[2]>>
    BY <2>1
  <2>3. Leads(e[1], e[2])
    BY <2>2 DEF Leads
  <2> QED
    BY <1>4, <1>6, <2>3
<1> QED
  BY <1>3, <1>4, <1>7

LEMMA CycleExact ==
    ASSUME SccInv, NEW n \in inSCC
    PROVE  isInCycle(n) <=> <<n, n>> \in Reach[edges]
<1> USE DEF SccInv
<1> DEFINE r == info.rep[n]
           C == Component(r)
<1>1. /\ n \in Nodes /\ r \in inSCC /\ r \in Nodes /\ info.rep[r] = r /\ Together(r, n)
      /\ info.subNodes[r] = C
  <2>1. Complete(n) /\ n \in Nodes /\ inSCC \subseteq Nodes
    BY DEF Collected, SccType
  <2>2. r \in inSCC /\ info.rep[r] = r /\ r \in Nodes
    BY <2>1 DEF Complete, rep
  <2>3. Together(r, n)
    BY <2>1, <2>2 DEF Complete, rep
  <2>4. info.subNodes[r] = C
    BY <2>2 DEF Collected, Complete, rep, subNodes
  <2> QED
    BY <2>1, <2>2, <2>3, <2>4
<1>2. isInCycle(n) <=> Cardinality(C) > 1 \/ <<r, r>> \in edges
  BY <1>1 DEF isInCycle, repNode, subNodes
<1> HIDE DEF r
<1>3. <<n, n>> \in Reach[edges] <=> <<r, r>> \in Reach[edges]
  BY <1>1, Basics, ReachFacts DEF Together, Transitive
<1>4. IsFiniteSet(C) /\ Cardinality(C) \in Nat /\ r \in C
  <2>1. C \subseteq Nodes /\ r \in C
    BY <1>1 DEF Component, Together
  <2> QED
    BY <2>1, GraphsAssumption, FS_Subset, FS_CardinalityType
<1>5. Cardinality(C) > 1 <=> C # {r}
  <2> HIDE DEF C
  <2>1. Cardinality(C) = 0 <=> C = {}
    BY <1>4, FS_EmptySet
  <2>2. Cardinality(C) = 1 <=> \E x : C = {x}
    BY <1>4, FS_Singleton
  <2>3. C = {r} <=> \E x : C = {x}
    BY <1>4
  <2>4. Cardinality(C) # 0
    BY <1>4, <2>1
  <2> QED
    BY <1>4, <2>2, <2>3, <2>4
<1>6. ASSUME C # {r} PROVE <<r, r>> \in Reach[edges]
  <2>1. PICK m \in C : m # r
    BY <1>4, <1>6
  <2>2. <<m, r>> \in Reach[edges] /\ <<r, m>> \in Reach[edges]
    BY <2>1 DEF Component, Together
  <2> QED
    BY <2>2, Basics, ReachFacts DEF Transitive
<1>7. ASSUME <<r, r>> \in Reach[edges], <<r, r>> \notin edges PROVE C # {r}
  <2>1. PICK l \in Children(r) : Leads(l, r)
    BY <1>7, Basics, FirstEdge
  <2>2. <<r, l>> \in edges /\ l \in Nodes
    BY <2>1, Basics, ChildEdge
  <2>3. l # r /\ <<r, l>> \in Reach[edges]
    BY <1>7, <2>2, Basics, ReachFacts
  <2>4. l \in C
    BY <2>1, <2>2, <2>3 DEF Component, Together, Leads
  <2> QED
    BY <2>3, <2>4
<1>8. <<r, r>> \in edges => <<r, r>> \in Reach[edges]
  BY Basics, ReachFacts
<1> QED
  BY <1>2, <1>3, <1>5, <1>6, <1>7, <1>8

\* On every finite graph, and for every choice of the start nodes and of the order
\* of nodes and children: a component is completed with exactly its nodes, and the
\* results of find() are the components of what the start nodes reach.
THEOREM ComponentsExactAlways == Spec => []ComponentsExact
<1>1. SccInv => ComponentsExact
  <2> SUFFICES ASSUME SccInv PROVE CompleteComponents /\ ResultExact
    BY DEF ComponentsExact
  <2>1. CompleteComponents
    BY DEF SccInv, Collected, Complete, CompleteComponents, rep
  <2>2. ASSUME pc = "done"
        PROVE  /\ Visited = inSCC /\ inSCC = ReachedFrom(start, Reach[edges])
               /\ \A n \in Visited : subNodes(n) = IF repNode(n) = n THEN Component(n) ELSE {}
               /\ info.repNodes = {n \in Visited : repNode(n) = n /\ Component(n) # {n}}
               /\ \A n \in Visited : isInCycle(n) <=> <<n, n>> \in Reach[edges]
    <3>1. Visited = inSCC /\ inSCC = ReachedFrom(start, Reach[edges])
      BY <2>2, DoneComplete
    <3>2. \A n \in inSCC : /\ subNodes(n) = IF repNode(n) = n THEN Component(n) ELSE {}
                           /\ n \in info.repNodes <=> repNode(n) = n /\ Component(n) # {n}
      BY DEF SccInv, Collected, Complete, rep, repNode
    <3>3. info.repNodes \subseteq inSCC
      BY <3>1 DEF SccInv, Kept
    <3>4. info.repNodes = {n \in Visited : repNode(n) = n /\ Component(n) # {n}}
      BY <3>1, <3>2, <3>3
    <3>5. \A n \in Visited : isInCycle(n) <=> <<n, n>> \in Reach[edges]
      BY <3>1, CycleExact
    <3> QED
      BY <3>1, <3>2, <3>4, <3>5
  <2>3. ResultExact
    BY <2>2 DEF ResultExact
  <2> QED
    BY <2>1, <2>3
<1> QED
  BY <1>1, SccInvAlways, PTL

\* topoNodeStack() holds the representatives of the components found, each once, and
\* none reaches one that is above it on the stack: popped, it is a topological order.
THEOREM TopoOrderAlways == Spec => []TopoOrder
<1>1. SccInv => TopoOrder
  <2> SUFFICES ASSUME SccInv, pc = "done"
               PROVE  /\ {T[i] : i \in 1 .. Len(T)} = {repNode(n) : n \in Visited}
                      /\ \A i, j \in 1 .. Len(T) : i < j => T[i] # T[j] /\ <<T[i], T[j]>> \notin Reach[edges]
    BY DEF TopoOrder
  <2>1. Visited = inSCC
    BY DoneComplete
  <2>2. \A n \in inSCC : repNode(n) \in inSCC /\ repNode(repNode(n)) = repNode(n)
    BY DEF SccInv, Collected, Complete, rep, repNode
  <2>3. {n \in inSCC : repNode(n) = n} = {repNode(n) : n \in inSCC}
    BY <2>2
  <2> QED
    BY <2>1, <2>3 DEF SccInv, Ordered, rep, repNode
<1> QED
  BY <1>1, SccInvAlways, PTL
-----------------------------------------------------------------------------
(***************************************************************************)
(* The chains of PtsChain.  An object's chain is made of the fields of the *)
(* base objects its own base leads to.                                     *)
(***************************************************************************)
LeadsTo(b, c) == b = c \/ <<b, c>> \in ReachOf[heap]
Full(b)       == {o \in Objs : LeadsTo(b, BaseOf[o])}

LEMMA BaseFacts ==
    ASSUME heap \in Heaps
    PROVE  /\ ReachOf[heap] \in SUBSET (BaseObjs \X BaseObjs) /\ Transitive(ReachOf[heap])
           /\ \A e \in heap : BaseOf[e[1]] \in BaseObjs /\ BaseOf[e[2]] \in BaseObjs
                                /\ <<BaseOf[e[1]], BaseOf[e[2]]>> \in ReachOf[heap]
           /\ \A R \in SUBSET (BaseObjs \X BaseObjs) :
                 BaseEdges(heap) \subseteq R /\ Transitive(R) => ReachOf[heap] \subseteq R
<1>1. IsFiniteSet(BaseObjs)
  BY PtsChainAssumption, FS_Subset
<1>2. \A e \in heap : BaseOf[e[1]] \in BaseObjs /\ BaseOf[e[2]] \in BaseObjs
  BY PtsChainAssumption
<1>3. BaseEdges(heap) \in SUBSET (BaseObjs \X BaseObjs)
  BY <1>2 DEF BaseEdges
<1>4. ReachOf[heap] = Closure(BaseEdges(heap), BaseObjs)
  BY DEF ReachOf
<1>5. /\ ReachOf[heap] \in SUBSET (BaseObjs \X BaseObjs) /\ BaseEdges(heap) \subseteq ReachOf[heap]
      /\ Transitive(ReachOf[heap])
      /\ \A R \in SUBSET (BaseObjs \X BaseObjs) :
            BaseEdges(heap) \subseteq R /\ Transitive(R) => ReachOf[heap] \subseteq R
  BY <1>1, <1>3, <1>4, ClosureLeast
<1>6. \A e \in heap : <<BaseOf[e[1]], BaseOf[e[2]]>> \in ReachOf[heap]
  BY <1>5 DEF BaseEdges
<1> QED
  BY <1>2, <1>5, <1>6

LEMMA LeadsOn == heap \in Heaps => \A a, b, c : LeadsTo(a, b) /\ LeadsTo(b, c) => LeadsTo(a, c)
BY BaseFacts DEF LeadsTo, Transitive

LEMMA FullChainIs ==
    ASSUME heap \in Heaps, NEW os \in SUBSET Objs
    PROVE  FullChain(os) = {o \in Objs : \E p \in os : LeadsTo(BaseOf[p], BaseOf[o])}
<1>1. \A p \in os : BaseOf[p] \in BaseObjs
  BY PtsChainAssumption
<1>2. ReachedFrom({BaseOf[o] : o \in os}, ReachOf[heap]) = {b \in BaseObjs : \E p \in os : LeadsTo(BaseOf[p], b)}
  <2>1. ReachOf[heap] \in SUBSET (BaseObjs \X BaseObjs)
    BY BaseFacts
  <2>2. ASSUME NEW b \in ReachedFrom({BaseOf[o] : o \in os}, ReachOf[heap])
        PROVE  b \in BaseObjs /\ \E p \in os : LeadsTo(BaseOf[p], b)
    <3>1. CASE b \in {BaseOf[o] : o \in os}
      BY <1>1, <3>1 DEF LeadsTo
    <3>2. CASE b \in {e[2] : e \in {f \in ReachOf[heap] : f[1] \in {BaseOf[o] : o \in os}}}
      <4>1. PICK e \in ReachOf[heap] : e[1] \in {BaseOf[o] : o \in os} /\ b = e[2]
        BY <3>2
      <4>2. e = <<e[1], e[2]>> /\ e[2] \in BaseObjs
        BY <2>1
      <4> QED
        BY <4>1, <4>2 DEF LeadsTo
    <3> QED
      BY <2>2, <3>1, <3>2 DEF ReachedFrom
  <2>3. ASSUME NEW b \in BaseObjs, NEW p \in os, LeadsTo(BaseOf[p], b)
        PROVE  b \in ReachedFrom({BaseOf[o] : o \in os}, ReachOf[heap])
    BY <2>3 DEF LeadsTo, ReachedFrom
  <2> QED
    BY <2>2, <2>3
<1>3. \A o \in Objs : BaseOf[o] \in BaseObjs
  BY PtsChainAssumption
<1> DEFINE B == ReachedFrom({BaseOf[o] : o \in os}, ReachOf[heap])
           C == {o \in Objs : \E p \in os : LeadsTo(BaseOf[p], BaseOf[o])}
<1>4. FullChain(os) = UNION {FieldsOf(b) : b \in B}
  BY DEF FullChain
<1>5. \A o \in Objs : BaseOf[o] \in B <=> o \in C
  BY <1>2, <1>3
<1>6. C \subseteq Objs
  OBVIOUS
<1> HIDE DEF B, C
<1>7. ASSUME NEW o \in FullChain(os) PROVE o \in C
  <2>1. PICK b \in B : o \in FieldsOf(b)
    BY <1>4
  <2>2. o \in Objs /\ BaseOf[o] \in B
    BY <2>1 DEF FieldsOf
  <2> QED
    BY <1>5, <2>2
<1>8. ASSUME NEW o \in C PROVE o \in FullChain(os)
  <2>1. o \in Objs /\ BaseOf[o] \in B
    BY <1>5, <1>6
  <2>2. o \in FieldsOf(BaseOf[o])
    BY <2>1 DEF FieldsOf
  <2> QED
    BY <1>4, <2>1, <2>2
<1> QED
  BY <1>7, <1>8 DEF C

LEMMA FullOf ==
    ASSUME heap \in Heaps, NEW b \in BaseObjs
    PROVE  FullChain({b}) = Full(b) /\ FieldsOf(b) \subseteq Full(b)
<1>1. BaseOf[b] = b /\ {b} \in SUBSET Objs
  BY PtsChainAssumption
<1> QED
  BY <1>1, FullChainIs DEF Full, FieldsOf, LeadsTo

LEMMA FullWithin ==
    ASSUME heap \in Heaps, NEW a, NEW b, LeadsTo(a, b)
    PROVE  Full(b) \subseteq Full(a)
BY LeadsOn DEF Full

LEMMA AskedChain ==
    ASSUME heap \in Heaps, NEW os \in SUBSET Objs, NEW o \in os
    PROVE  Full(BaseOf[o]) \subseteq FullChain(os) /\ o \in FullChain(os)
BY FullChainIs DEF Full, LeadsTo

\* A path to another base object has a first edge that leaves the first one.
LEMMA FirstPointer ==
    ASSUME heap \in Heaps, NEW b, NEW c, <<b, c>> \in ReachOf[heap], b # c
    PROVE  \E e \in heap : BaseOf[e[1]] = b /\ BaseOf[e[2]] # b /\ LeadsTo(BaseOf[e[2]], c)
<1> DEFINE Leaves(x) == \E e \in heap : BaseOf[e[1]] = x[1] /\ BaseOf[e[2]] # x[1] /\ LeadsTo(BaseOf[e[2]], x[2])
           R == {x \in ReachOf[heap] : x[1] # x[2] => Leaves(x)}
<1>1. BaseEdges(heap) \subseteq R
  <2> SUFFICES ASSUME NEW e \in heap PROVE <<BaseOf[e[1]], BaseOf[e[2]]>> \in R
    BY DEF BaseEdges
  <2>1. <<BaseOf[e[1]], BaseOf[e[2]]>> \in ReachOf[heap]
    BY BaseFacts
  <2> QED
    BY <2>1 DEF LeadsTo
<1>2. Transitive(R)
  <2> SUFFICES ASSUME NEW x, NEW y, NEW z, <<x, y>> \in R, <<y, z>> \in R PROVE <<x, z>> \in R
    BY DEF Transitive
  <2>1. <<x, z>> \in ReachOf[heap] /\ LeadsTo(y, z)
    BY BaseFacts DEF Transitive, LeadsTo
  <2>2. CASE x = y
    BY <2>2
  <2>3. CASE x # y
    <3>1. PICK e \in heap : BaseOf[e[1]] = x /\ BaseOf[e[2]] # x /\ LeadsTo(BaseOf[e[2]], y)
      BY <2>3
    <3>2. LeadsTo(BaseOf[e[2]], z)
      BY <2>1, <3>1, LeadsOn
    <3> QED
      BY <2>1, <3>1, <3>2
  <2> QED
    BY <2>2, <2>3
<1>3. R \in SUBSET (BaseObjs \X BaseObjs)
  BY BaseFacts
<1>4. <<b, c>> \in R
  <2> HIDE DEF R
  <2> QED
    BY <1>1, <1>2, <1>3, BaseFacts
<1> QED
  BY <1>4

(***************************************************************************)
(* The recursion: a frame's base leads to those above it, and what it does *)
(* not have yet is what it still has to collect, or what the next frame    *)
(* will bring back.                                                        *)
(***************************************************************************)
ChainFrames == [base : BaseObjs, todo : SUBSET (Objs \X Objs)]

ChainType ==
    /\ heap \in Heaps /\ chain \in [BaseObjs -> SUBSET Objs] /\ cached \subseteq BaseObjs
    /\ chasing \in Seq(ChainFrames)

Nested ==
    /\ \A i \in 1 .. Len(chasing) :
          /\ chasing[i].base \in cached
          /\ \A e \in chasing[i].todo : e \in heap /\ BaseOf[e[1]] = chasing[i].base
    /\ \A i, j \in 1 .. Len(chasing) : i < j => LeadsTo(chasing[i].base, chasing[j].base)

ChainsSound == \A b \in BaseObjs : chain[b] \subseteq Full(b)

OnStack(b)  == \E i \in 1 .. Len(chasing) : chasing[i].base = b
Finished    == \A b \in cached : OnStack(b) \/ Full(b) \subseteq chain[b]
Awaited(i, o) == \E e \in chasing[i].todo : BaseOf[e[2]] # chasing[i].base /\ o \in Full(BaseOf[e[2]])
Unfinished ==
    \A i \in 1 .. Len(chasing) : \A o \in Full(chasing[i].base) :
        \/ o \in chain[chasing[i].base] \/ Awaited(i, o)
        \/ i < Len(chasing) /\ o \in Full(chasing[i + 1].base)

ChainsComplete == Acyclic => Finished /\ Unfinished

ChainInv == ChainType /\ Nested /\ ChainsSound /\ ChainsComplete

LEMMA ChainsExactFrom == ChainInv => ChainsExact
<1> SUFFICES ASSUME ChainInv, NEW b \in cached
             PROVE  /\ chain[b] \subseteq FullChain({b})
                    /\ Acyclic /\ (\A i \in 1 .. Len(chasing) : chasing[i].base # b) => chain[b] = FullChain({b})
  BY DEF ChainsExact
<1>1. b \in BaseObjs /\ heap \in Heaps
  BY DEF ChainInv, ChainType
<1>2. FullChain({b}) = Full(b)
  BY <1>1, FullOf
<1> QED
  BY <1>1, <1>2 DEF ChainInv, ChainsSound, ChainsComplete, Finished, OnStack

LEMMA SameHeap ==
    ASSUME heap' = heap
    PROVE  /\ \A b, c : LeadsTo(b, c)' = LeadsTo(b, c)
           /\ \A b : Full(b)' = Full(b)
           /\ \A os : FullChain(os)' = FullChain(os)
           /\ Acyclic' = Acyclic
BY DEF LeadsTo, Full, FullChain, Acyclic, ReachOf

LEMMA ChainUnchanged == ChainInv /\ UNCHANGED chainVars => ChainInv'
<1> SUFFICES ASSUME ChainInv, UNCHANGED chainVars PROVE ChainInv'
  OBVIOUS
<1>1. heap' = heap /\ chain' = chain /\ cached' = cached /\ chasing' = chasing
  BY DEF chainVars
<1>2. ChainType' /\ Nested' /\ ChainsSound'
  BY <1>1, SameHeap DEF ChainInv, ChainType, Nested, ChainsSound
<1>3. \A i, o : Awaited(i, o)' <=> Awaited(i, o)
  BY <1>1, SameHeap DEF Awaited
<1>4. Unfinished' <=> Unfinished
  BY <1>1, <1>3, SameHeap DEF Unfinished
<1>5. Finished' <=> Finished
  BY <1>1, SameHeap DEF Finished, OnStack
<1>6. Acyclic' <=> Acyclic
  BY <1>1, SameHeap
<1>7. ChainsComplete'
  <2>1. ChainsComplete
    BY DEF ChainInv
  <2> QED
    BY <1>4, <1>5, <1>6, <2>1 DEF ChainsComplete
<1> QED
  BY <1>2, <1>7 DEF ChainInv

LEMMA InitChainInv == chainInit => ChainInv
<1> SUFFICES ASSUME chainInit PROVE ChainInv
  OBVIOUS
<1>1. heap \in Heaps /\ chain = [b \in BaseObjs |-> {}] /\ cached = {} /\ chasing = <<>>
  BY DEF chainInit
<1>2. Len(chasing) = 0 /\ chasing \in Seq(ChainFrames) /\ \A i \in 1 .. 0 : FALSE
  BY <1>1, EmptySeq
<1>3. ChainType /\ Nested /\ ChainsSound
  BY <1>1, <1>2 DEF ChainType, Nested, ChainsSound
<1>4. Finished /\ Unfinished
  BY <1>1, <1>2 DEF Finished, Unfinished
<1> QED
  BY <1>3, <1>4 DEF ChainInv, ChainsComplete

\* What the steps of the recursion do to its frames.
LEMMA Pushed ==
    ASSUME NEW F, NEW s \in Seq(F), NEW f \in F, NEW t, t = Append(s, f)
    PROVE  /\ t \in Seq(F) /\ Len(s) \in Nat /\ Len(t) = Len(s) + 1
           /\ t[Len(t)] = f /\ \A i \in 1 .. Len(s) : t[i] = s[i]
OBVIOUS

LEMMA Popped ==
    ASSUME NEW F, NEW s \in Seq(F), s # <<>>, NEW t, t = SubSeq(s, 1, Len(s) - 1)
    PROVE  /\ t \in Seq(F) /\ Len(s) \in Nat \ {0} /\ Len(t) = Len(s) - 1
           /\ \A i \in 1 .. Len(t) : t[i] = s[i]
<1>1. Len(s) \in Nat \ {0} /\ \A i \in 1 .. Len(s) : s[i] \in F
  BY EmptySeq, LenProperties
<1> DEFINE n == Len(s) - 1
<1>2. n \in Nat /\ \A i \in 1 .. n : s[i] \in F
  BY <1>1
<1>3. t = SubSeq(s, 1, n)
  OBVIOUS
<1> HIDE DEF n
<1>4. /\ t \in Seq(F) /\ Len(t) = (IF 1 <= n THEN n - 1 + 1 ELSE 0)
      /\ \A i \in 1 .. n - 1 + 1 : t[i] = s[1 + i - 1]
  BY ONLY <1>2, <1>3, SubSeqProperties, SMTT(30)
<1>5. Len(t) = n /\ \A i \in 1 .. n : t[i] = s[i]
  BY <1>2, <1>4
<1> QED
  BY <1>1, <1>4, <1>5 DEF n

LEMMA WithoutFrames ==
    ASSUME chasing \in Seq(ChainFrames), chasing # <<>>, NEW e, NEW t, t = Without(e)
    PROVE  /\ t \in Seq(ChainFrames) /\ Len(t) = Len(chasing) /\ Len(chasing) \in Nat \ {0}
           /\ \A i \in 1 .. Len(chasing) :
                 /\ t[i].base = chasing[i].base
                 /\ t[i].todo = IF i = Len(chasing) THEN chasing[i].todo \ {e} ELSE chasing[i].todo
<1>1. /\ Len(chasing) \in 1 .. Len(chasing) /\ Len(chasing) \in Nat \ {0}
      /\ chasing[Len(chasing)] \in ChainFrames
  BY EmptySeq, LenProperties
<1> DEFINE f == [chasing[Len(chasing)] EXCEPT !.todo = @ \ {e}]
           l == Len(chasing)
<1>2. /\ f \in ChainFrames /\ f.base = chasing[l].base /\ f.todo = chasing[l].todo \ {e}
      /\ t = [chasing EXCEPT ![l] = f]
  BY <1>1 DEF Without, ChainFrames
<1>3. l \in 1 .. Len(chasing)
  BY <1>1
<1> HIDE DEF f, l
<1>4. /\ t \in Seq(ChainFrames) /\ Len(t) = Len(chasing)
      /\ \A j \in 1 .. Len(chasing) : t[j] = IF j = l THEN f ELSE chasing[j]
  BY <1>2, <1>3, ExceptSeq
<1> QED
  BY <1>1, <1>2, <1>4 DEF l

\* What a new frame awaits.
LEMMA AwaitsAll ==
    ASSUME heap \in Heaps, NEW b \in BaseObjs, NEW o \in Full(b), o \notin FieldsOf(b)
    PROVE  \E e \in heap : BaseOf[e[1]] = b /\ BaseOf[e[2]] # b /\ o \in Full(BaseOf[e[2]])
<1>1. o \in Objs /\ <<b, BaseOf[o]>> \in ReachOf[heap] /\ BaseOf[o] # b
  BY DEF Full, LeadsTo, FieldsOf
<1> QED
  BY <1>1, FirstPointer DEF Full

LEMMA WithoutStep ==
    ASSUME chasing \in Seq(ChainFrames), chasing # <<>>, NEW e, chasing' = Without(e)
    PROVE  /\ chasing' \in Seq(ChainFrames) /\ Len(chasing') = Len(chasing) /\ Len(chasing) \in Nat \ {0}
           /\ \A i \in 1 .. Len(chasing) :
                 /\ chasing'[i].base = chasing[i].base
                 /\ chasing'[i].todo = IF i = Len(chasing) THEN chasing[i].todo \ {e} ELSE chasing[i].todo
<1> DEFINE t == Without(e)
<1>1. /\ t \in Seq(ChainFrames) /\ Len(t) = Len(chasing) /\ Len(chasing) \in Nat \ {0}
      /\ \A i \in 1 .. Len(chasing) :
            /\ t[i].base = chasing[i].base
            /\ t[i].todo = IF i = Len(chasing) THEN chasing[i].todo \ {e} ELSE chasing[i].todo
  BY WithoutFrames
<1>2. chasing' = t
  OBVIOUS
<1> HIDE DEF t
<1> QED
  BY <1>1, <1>2

LEMMA PoppedStep ==
    ASSUME chasing \in Seq(ChainFrames), chasing # <<>>, chasing' = SubSeq(chasing, 1, Len(chasing) - 1)
    PROVE  /\ chasing' \in Seq(ChainFrames) /\ Len(chasing) \in Nat \ {0} /\ Len(chasing') = Len(chasing) - 1
           /\ \A i \in 1 .. Len(chasing') : chasing'[i] = chasing[i]
<1> DEFINE t == chasing'
<1>1. t = SubSeq(chasing, 1, Len(chasing) - 1)
  OBVIOUS
<1> HIDE DEF t
<1>2. /\ t \in Seq(ChainFrames) /\ Len(chasing) \in Nat \ {0} /\ Len(t) = Len(chasing) - 1
      /\ \A i \in 1 .. Len(t) : t[i] = chasing[i]
  BY <1>1, Popped
<1> QED
  BY <1>2 DEF t

\* Begin(b, callers), where callers awaits b in its last frame, or is empty.
LEMMA BeginPreserves ==
    ASSUME ChainInv, NEW b \in BaseObjs \ cached, NEW callers \in Seq(ChainFrames), Begin(b, callers),
           Len(callers) = Len(chasing),
           \A i \in 1 .. Len(chasing) :
              /\ callers[i].base = chasing[i].base /\ callers[i].todo \subseteq chasing[i].todo
              /\ LeadsTo(chasing[i].base, b),
           \A i \in 1 .. Len(chasing) : \A e \in chasing[i].todo \ callers[i].todo :
              i = Len(chasing) /\ BaseOf[e[2]] = b
    PROVE  ChainInv'
<1> USE DEF ChainInv
<1> DEFINE new == [base |-> b, todo |-> {e \in heap : BaseOf[e[1]] = b}]
           l   == Len(chasing)
<1>1. /\ cached' = cached \cup {b} /\ chain' = [chain EXCEPT ![b] = FieldsOf(b)]
      /\ chasing' = Append(callers, new) /\ heap' = heap
  BY DEF Begin
<1>2. heap \in Heaps /\ chain \in [BaseObjs -> SUBSET Objs] /\ cached \subseteq BaseObjs /\ new \in ChainFrames
  BY PtsChainAssumption DEF ChainType, ChainFrames
<1>3. /\ chasing' \in Seq(ChainFrames) /\ l \in Nat /\ Len(chasing') = l + 1
      /\ chasing'[l + 1] = new /\ \A i \in 1 .. l : chasing'[i] = callers[i]
  <2> HIDE DEF new
  <2> QED
    BY <1>1, <1>2, Pushed
<1>4. /\ new.base = b /\ new.todo = {e \in heap : BaseOf[e[1]] = b}
      /\ \A i \in 1 .. l : chasing'[i].base = chasing[i].base /\ chasing'[i].base \in cached
                           /\ chasing'[i].todo \subseteq chasing[i].todo
  BY <1>3 DEF Nested
<1> HIDE DEF new, l
<1>5. \A i \in 1 .. l + 1 : i \in 1 .. l \/ i = l + 1
  BY <1>3
<1>6. /\ chain'[b] = FieldsOf(b) /\ \A c \in BaseObjs : c # b => chain'[c] = chain[c]
      /\ chain' \in [BaseObjs -> SUBSET Objs]
  BY <1>1, <1>2 DEF FieldsOf
<1>7. ChainType'
  BY <1>1, <1>2, <1>3, <1>6 DEF ChainType
<1>8. Nested'
  <2>1. ASSUME NEW i \in 1 .. l + 1
        PROVE  /\ chasing'[i].base \in cached'
               /\ \A e \in chasing'[i].todo : e \in heap /\ BaseOf[e[1]] = chasing'[i].base
    <3>1. CASE i = l + 1
      BY <1>1, <1>3, <1>4, <3>1
    <3>2. CASE i \in 1 .. l
      BY <1>1, <1>4, <3>2 DEF Nested, l
    <3> QED
      BY <1>5, <3>1, <3>2
  <2>2. ASSUME NEW i \in 1 .. l + 1, NEW j \in 1 .. l + 1, i < j
        PROVE  LeadsTo(chasing'[i].base, chasing'[j].base)
    <3>1. i \in 1 .. l
      BY <1>3, <2>2
    <3>2. CASE j = l + 1
      BY <1>3, <1>4, <3>1, <3>2 DEF l
    <3>3. CASE j \in 1 .. l
      BY <1>4, <2>2, <3>1, <3>3 DEF Nested, l
    <3> QED
      BY <1>5, <3>2, <3>3
  <2> QED
    BY <1>1, <1>3, <2>1, <2>2, SameHeap DEF Nested
<1>9. ChainsSound'
  <2>1. \A c \in BaseObjs : chain'[c] \subseteq Full(c)
    BY <1>2, <1>6, FullOf DEF ChainsSound
  <2> QED
    BY <1>1, <2>1, SameHeap DEF ChainsSound
<1>10. ASSUME Acyclic PROVE Finished'
  <2> SUFFICES ASSUME NEW c \in cached', ~OnStack(c)' PROVE Full(c) \subseteq chain'[c]
    BY <1>1, SameHeap DEF Finished
  <2>1. c # b /\ c \in cached
    <3>1. l + 1 \in 1 .. Len(chasing')
      BY <1>3
    <3> QED
      BY <1>1, <1>3, <1>4, <3>1 DEF OnStack
  <2>2. ~OnStack(c)
    <3>1. \A i \in 1 .. l : i \in 1 .. Len(chasing')
      BY <1>3
    <3> QED
      BY <1>4, <3>1 DEF OnStack, l
  <2> QED
    BY <1>2, <1>6, <1>10, <2>1, <2>2 DEF ChainsComplete, Finished
<1>11. ASSUME Acyclic PROVE Unfinished'
  <2> SUFFICES ASSUME NEW i \in 1 .. l + 1, NEW o \in Full(chasing'[i].base)
               PROVE  \/ o \in chain'[chasing'[i].base]
                      \/ \E e \in chasing'[i].todo : BaseOf[e[2]] # chasing'[i].base /\ o \in Full(BaseOf[e[2]])
                      \/ i < l + 1 /\ o \in Full(chasing'[i + 1].base)
    BY <1>1, <1>3, SameHeap DEF Unfinished, Awaited
  <2>1. CASE i = l + 1
    BY <1>2, <1>3, <1>4, <1>6, <2>1, AwaitsAll
  <2>2. CASE i \in 1 .. l
    <3>1. chasing'[i].base = chasing[i].base /\ chasing'[i].base # b /\ chasing'[i].base \in BaseObjs
      BY <1>2, <1>4, <2>2
    <3>2. chain'[chasing'[i].base] = chain[chasing[i].base]
      BY <1>6, <3>1
    <3>3. \/ o \in chain[chasing[i].base] \/ Awaited(i, o)
          \/ i < l /\ o \in Full(chasing[i + 1].base)
      BY <1>11, <2>2, <3>1 DEF ChainsComplete, Unfinished, l
    <3>4. CASE Awaited(i, o)
      <4>1. PICK e \in chasing[i].todo : BaseOf[e[2]] # chasing[i].base /\ o \in Full(BaseOf[e[2]])
        BY <3>4 DEF Awaited
      <4>2. CASE e \in chasing'[i].todo
        BY <3>1, <4>1, <4>2
      <4>3. CASE e \notin chasing'[i].todo
        <5>1. i = l /\ BaseOf[e[2]] = b
          BY <1>3, <2>2, <4>3 DEF l
        <5> QED
          BY <1>3, <1>4, <4>1, <5>1
      <4> QED
        BY <4>2, <4>3
    <3>5. CASE i < l /\ o \in Full(chasing[i + 1].base)
      <4>1. i + 1 \in 1 .. l /\ i < l + 1
        BY <1>3, <2>2, <3>5
      <4> QED
        BY <1>4, <3>5, <4>1
    <3> QED
      BY <3>2, <3>3, <3>4, <3>5
  <2> QED
    BY <1>5, <2>1, <2>2
<1>12. ChainsComplete'
  BY <1>1, <1>10, <1>11, SameHeap DEF ChainsComplete
<1> QED
  BY <1>7, <1>8, <1>9, <1>12

\* A finished entry is added to the one of the last frame.
LEMMA TakePreserves ==
    ASSUME ChainInv, chasing # <<>>, NEW e \in Chased.todo, BaseOf[e[2]] \in cached,
           chain' = [chain EXCEPT ![Chased.base] = @ \cup chain[BaseOf[e[2]]]],
           chasing' = Without(e), heap' = heap, cached' = cached
    PROVE  ChainInv'
<1> USE DEF ChainInv
<1> DEFINE l == Len(chasing)
           a == chasing[l].base
           b == BaseOf[e[2]]
<1>1. /\ heap \in Heaps /\ chain \in [BaseObjs -> SUBSET Objs] /\ cached \subseteq BaseObjs
      /\ chasing \in Seq(ChainFrames)
  BY DEF ChainType
<1>2. /\ chasing' \in Seq(ChainFrames) /\ Len(chasing') = l /\ l \in Nat \ {0}
      /\ \A i \in 1 .. l : /\ chasing'[i].base = chasing[i].base
                           /\ chasing'[i].todo = IF i = l THEN chasing[i].todo \ {e} ELSE chasing[i].todo
  BY <1>1, WithoutStep
<1> HIDE DEF l
<1>3. l \in 1 .. l /\ a \in BaseObjs /\ b \in BaseObjs /\ e \in chasing[l].todo /\ e \in heap /\ BaseOf[e[1]] = a
  BY <1>1, <1>2, BaseFacts DEF Chased, Nested, l
<1>4. LeadsTo(a, b) /\ <<a, b>> \in ReachOf[heap]
  BY <1>1, <1>3, BaseFacts DEF LeadsTo
<1>5. /\ chain' = [chain EXCEPT ![a] = @ \cup chain[b]]
      /\ \A c \in BaseObjs : chain'[c] = IF c = a THEN chain[c] \cup chain[b] ELSE chain[c]
      /\ chain' \in [BaseObjs -> SUBSET Objs]
  BY <1>1, <1>3 DEF Chased, l
<1> HIDE DEF a, b
<1>6. ChainType'
  BY <1>1, <1>2, <1>5 DEF ChainType
<1>7. Nested'
  <2>1. ASSUME NEW i \in 1 .. l
        PROVE  /\ chasing'[i].base \in cached'
               /\ \A f \in chasing'[i].todo : f \in heap' /\ BaseOf[f[1]] = chasing'[i].base
    <3>1. chasing'[i].base = chasing[i].base /\ chasing'[i].todo \subseteq chasing[i].todo
      BY <1>2
    <3>2. /\ chasing[i].base \in cached
          /\ \A f \in chasing[i].todo : f \in heap /\ BaseOf[f[1]] = chasing[i].base
      BY DEF Nested, l
    <3> QED
      BY <3>1, <3>2
  <2>2. \A i, j \in 1 .. l : i < j => LeadsTo(chasing'[i].base, chasing'[j].base)
    BY <1>2 DEF Nested, l
  <2> QED
    BY <1>2, <2>1, <2>2, SameHeap DEF Nested
<1>8. ChainsSound'
  <2>1. Full(b) \subseteq Full(a)
    BY <1>1, <1>4, FullWithin
  <2>2. \A c \in BaseObjs : chain'[c] \subseteq Full(c)
    BY <1>3, <1>5, <2>1 DEF ChainsSound
  <2> QED
    BY <2>2, SameHeap DEF ChainsSound
<1>9. \A c : OnStack(c)' <=> OnStack(c)
  BY <1>2 DEF OnStack, l
<1>10. ASSUME Acyclic PROVE Finished'
  <2> SUFFICES ASSUME NEW c \in cached, ~OnStack(c)' PROVE Full(c) \subseteq chain'[c]
    BY SameHeap DEF Finished
  <2>1. Full(c) \subseteq chain[c]
    BY <1>9, <1>10 DEF ChainsComplete, Finished
  <2> QED
    BY <1>1, <1>5, <2>1
<1>11. ASSUME Acyclic, b # a PROVE Full(b) \subseteq chain[b]
  <2>1. ASSUME NEW i \in 1 .. l, chasing[i].base = b PROVE FALSE
    <3>1. i < l
      BY <1>2, <1>11, <2>1 DEF a
    <3>2. LeadsTo(b, a)
      BY <1>3, <2>1, <3>1 DEF Nested, l, a
    <3>3. <<b, a>> \in ReachOf[heap]
      BY <1>11, <3>2 DEF LeadsTo
    <3> QED
      BY <1>4, <1>11, <3>3 DEF Acyclic
  <2> QED
    BY <1>11, <2>1 DEF ChainsComplete, Finished, OnStack, l, b
<1>12. ASSUME Acyclic PROVE Unfinished'
  <2> SUFFICES ASSUME NEW i \in 1 .. l, NEW o \in Full(chasing[i].base)
               PROVE  \/ o \in chain'[chasing[i].base]
                      \/ \E f \in chasing'[i].todo : BaseOf[f[2]] # chasing[i].base /\ o \in Full(BaseOf[f[2]])
                      \/ i < l /\ o \in Full(chasing[i + 1].base)
    <3>1. \A i \in 1 .. l : i < l => i + 1 \in 1 .. l
      BY <1>2
    <3>2. \A i \in 1 .. l : \A o :
             Awaited(i, o)' <=> \E f \in chasing'[i].todo : BaseOf[f[2]] # chasing[i].base /\ o \in Full(BaseOf[f[2]])
      BY <1>2, SameHeap DEF Awaited
    <3>3. \A i \in 1 .. l : Full(chasing[i].base)' = Full(chasing[i].base)
      BY <1>2, SameHeap
    <3>4. Len(chasing)' = l
      BY <1>2
    <3>5. \A i \in 1 .. l : i < l => Full(chasing[i + 1].base)' = Full(chasing[i + 1].base)
      BY <3>1, <3>3
    <3>6. SUFFICES \A i \in 1 .. l : \A o \in Full(chasing[i].base) :
             \/ o \in chain'[chasing'[i].base] \/ Awaited(i, o)'
             \/ i < l /\ o \in Full(chasing[i + 1].base)
      BY <3>3, <3>4, <3>5 DEF Unfinished
    <3>7. ASSUME NEW i \in 1 .. l, NEW o \in Full(chasing[i].base)
          PROVE  \/ o \in chain'[chasing'[i].base] \/ Awaited(i, o)'
                 \/ i < l /\ o \in Full(chasing[i + 1].base)
      <4>1. \/ o \in chain'[chasing[i].base]
            \/ \E f \in chasing'[i].todo : BaseOf[f[2]] # chasing[i].base /\ o \in Full(BaseOf[f[2]])
            \/ i < l /\ o \in Full(chasing[i + 1].base)
        OBVIOUS
      <4>2. chasing'[i].base = chasing[i].base
        BY <1>2
      <4> QED
        BY <3>2, <4>1, <4>2
    <3> QED
      BY <3>7
  <2>1. chasing[i].base \in BaseObjs
    BY <1>1 DEF Nested, l
  <2>2. chain[chasing[i].base] \subseteq chain'[chasing[i].base]
    BY <1>5, <2>1
  <2>3. \/ o \in chain[chasing[i].base] \/ Awaited(i, o)
        \/ i < l /\ o \in Full(chasing[i + 1].base)
    BY <1>12 DEF ChainsComplete, Unfinished, l
  <2>4. CASE Awaited(i, o)
    <3>1. PICK f \in chasing[i].todo : BaseOf[f[2]] # chasing[i].base /\ o \in Full(BaseOf[f[2]])
      BY <2>4 DEF Awaited
    <3>2. CASE f \in chasing'[i].todo
      BY <3>1, <3>2
    <3>3. CASE f \notin chasing'[i].todo
      <4>1. i = l /\ f = e
        BY <1>2, <3>3
      <4>2. chasing[i].base = a /\ BaseOf[f[2]] = b
        BY <4>1 DEF a, b
      <4>3. o \in chain[b]
        BY <1>11, <1>12, <3>1, <4>2
      <4> QED
        BY <1>3, <1>5, <4>2, <4>3
    <3> QED
      BY <3>2, <3>3
  <2> QED
    BY <2>2, <2>3, <2>4
<1>13. ChainsComplete'
  BY <1>10, <1>12, SameHeap DEF ChainsComplete
<1> QED
  BY <1>6, <1>7, <1>8, <1>13

LEMMA ReturnChainPreserves ==
    ASSUME ChainInv, ReturnChain
    PROVE  ChainInv'
<1> USE DEF ChainInv
<1> DEFINE l == Len(chasing)
           n == l - 1
           b == chasing[l].base
           a == chasing[n].base
<1>1. /\ heap \in Heaps /\ chain \in [BaseObjs -> SUBSET Objs] /\ cached \subseteq BaseObjs
      /\ chasing \in Seq(ChainFrames) /\ chasing # <<>> /\ heap' = heap /\ cached' = cached
  BY DEF ChainType, ReturnChain
<1>2. /\ chasing' \in Seq(ChainFrames) /\ l \in Nat \ {0} /\ Len(chasing') = n
      /\ \A i \in 1 .. n : chasing'[i] = chasing[i]
  BY <1>1, PoppedStep DEF ReturnChain
<1>3. /\ chasing[l].todo = {}
      /\ chain' = IF l = 1 THEN chain ELSE [chain EXCEPT ![a] = @ \cup chain[b]]
  BY DEF ReturnChain, Chased
<1> HIDE DEF l
<1>4. l \in 1 .. l /\ n \in Nat /\ (\A i \in 1 .. n : i \in 1 .. l) /\ (l # 1 => n \in 1 .. l /\ n \in 1 .. n /\ n < l)
  BY <1>2
<1>5. b \in BaseObjs /\ (l # 1 => a \in BaseObjs /\ LeadsTo(a, b))
  BY <1>1, <1>4 DEF Nested, l
<1> HIDE DEF n, a, b
<1>6. /\ \A c \in BaseObjs : chain'[c] = IF l # 1 /\ c = a THEN chain[c] \cup chain[b] ELSE chain[c]
      /\ chain' \in [BaseObjs -> SUBSET Objs]
  BY <1>1, <1>3, <1>5
<1>7. ChainType'
  BY <1>1, <1>2, <1>6 DEF ChainType
<1>8. Nested'
  <2>1. \A i \in 1 .. n : /\ chasing'[i].base \in cached'
                          /\ \A e \in chasing'[i].todo : e \in heap' /\ BaseOf[e[1]] = chasing'[i].base
    BY <1>1, <1>2, <1>4 DEF Nested, l
  <2>2. \A i, j \in 1 .. n : i < j => LeadsTo(chasing'[i].base, chasing'[j].base)
    BY <1>2, <1>4 DEF Nested, l
  <2> QED
    BY <1>1, <1>2, <2>1, <2>2, SameHeap DEF Nested
<1>9. ChainsSound'
  <2>1. l # 1 => Full(b) \subseteq Full(a)
    BY <1>1, <1>5, FullWithin
  <2>2. \A c \in BaseObjs : chain'[c] \subseteq Full(c)
    BY <1>5, <1>6, <2>1 DEF ChainsSound
  <2> QED
    BY <1>1, <2>2, SameHeap DEF ChainsSound
\* Nothing is left to collect for the frame that is popped.
<1>10. ASSUME Acyclic PROVE Full(b) \subseteq chain[b]
  <2>1. ASSUME NEW o \in Full(b) PROVE o \in chain[b]
    <3>1. \/ o \in chain[b] \/ Awaited(l, o) \/ l < l
      BY <1>4, <1>10, <2>1 DEF ChainsComplete, Unfinished, l, b
    <3>2. ~Awaited(l, o)
      BY <1>3 DEF Awaited
    <3> QED
      BY <1>2, <3>1, <3>2
  <2> QED
    BY <2>1
<1>11. ASSUME Acyclic PROVE Finished'
  <2> SUFFICES ASSUME NEW c \in cached, ~OnStack(c)' PROVE Full(c) \subseteq chain'[c]
    BY <1>1, SameHeap DEF Finished
  <2>1. CASE c = b
    BY <1>5, <1>6, <1>10, <1>11, <2>1
  <2>2. CASE c # b
    <3>1. ~OnStack(c)
      <4> SUFFICES ASSUME NEW i \in 1 .. l, chasing[i].base = c PROVE FALSE
        BY DEF OnStack, l
      <4>1. i # l
        BY <2>2 DEF b
      <4>2. i \in 1 .. n
        BY <1>2, <4>1 DEF n
      <4> QED
        BY <1>2, <4>2 DEF OnStack
    <3>2. Full(c) \subseteq chain[c]
      BY <1>11, <3>1 DEF ChainsComplete, Finished
    <3> QED
      BY <1>1, <1>6, <3>2
  <2> QED
    BY <2>1, <2>2
<1>12. ASSUME Acyclic PROVE Unfinished'
  <2> SUFFICES ASSUME NEW i \in 1 .. n, NEW o \in Full(chasing[i].base)
               PROVE  \/ o \in chain'[chasing[i].base] \/ Awaited(i, o)
                      \/ i < n /\ o \in Full(chasing[i + 1].base)
    <3>1. \A i \in 1 .. n : i < n => i + 1 \in 1 .. n
      BY <1>2, <1>4
    <3>2. \A o : \A i \in 1 .. n : Awaited(i, o)' <=> Awaited(i, o)
      BY <1>1, <1>2, SameHeap DEF Awaited
    <3> QED
      BY <1>1, <1>2, <3>1, <3>2, SameHeap DEF Unfinished
  <2>1. chasing[i].base \in BaseObjs /\ i \in 1 .. l
    BY <1>1, <1>4 DEF Nested, l
  <2>2. chain[chasing[i].base] \subseteq chain'[chasing[i].base]
    BY <1>6, <2>1
  <2>3. \/ o \in chain[chasing[i].base] \/ Awaited(i, o)
        \/ i < l /\ o \in Full(chasing[i + 1].base)
    BY <1>12, <2>1 DEF ChainsComplete, Unfinished, l
  <2>4. CASE i < n
    BY <2>2, <2>3, <2>4
  <2>5. CASE i = n
    <3>1. l # 1 /\ i + 1 = l /\ chasing[i].base = a
      BY <1>2, <2>1, <2>5 DEF n, a
    <3>2. chain[b] \subseteq chain'[chasing[i].base]
      BY <1>5, <1>6, <3>1
    <3>3. o \in Full(b) => o \in chain'[chasing[i].base]
      BY <1>10, <1>12, <3>2
    <3> QED
      BY <2>2, <2>3, <3>1, <3>3 DEF b
  <2>6. i < n \/ i = n
    BY <1>4
  <2> QED
    BY <2>4, <2>5, <2>6
<1>13. ChainsComplete'
  BY <1>1, <1>11, <1>12, SameHeap DEF ChainsComplete
<1> QED
  BY <1>7, <1>8, <1>9, <1>13

LEMMA CollectPointeePreserves ==
    ASSUME ChainInv, CollectPointee
    PROVE  ChainInv'
<1> DEFINE l == Len(chasing)
<1>1. PICK e \in Chased.todo :
         LET b == BaseOf[e[2]]
         IN  IF b \in cached
               THEN /\ chain' = [chain EXCEPT ![Chased.base] = @ \cup chain[b]]
                    /\ chasing' = Without(e)
                    /\ UNCHANGED <<heap, cached>>
               ELSE Begin(b, Without(e))
  BY DEF CollectPointee
<1>2. CASE BaseOf[e[2]] \in cached
  BY <1>1, <1>2, TakePreserves DEF CollectPointee
<1>3. CASE BaseOf[e[2]] \notin cached
  <2> DEFINE b == BaseOf[e[2]]
             t == Without(e)
  <2>1. heap \in Heaps /\ chasing \in Seq(ChainFrames) /\ chasing # <<>>
    BY DEF ChainInv, ChainType, CollectPointee
  <2>2. /\ t \in Seq(ChainFrames) /\ Len(t) = l /\ l \in Nat \ {0}
        /\ \A i \in 1 .. l : /\ t[i].base = chasing[i].base
                             /\ t[i].todo = IF i = l THEN chasing[i].todo \ {e} ELSE chasing[i].todo
    BY <2>1, WithoutFrames
  <2>3. l \in 1 .. l /\ e \in chasing[l].todo
    BY <2>2 DEF Chased
  <2>4. e \in heap /\ BaseOf[e[1]] = chasing[l].base
    BY <2>3 DEF ChainInv, Nested
  <2>5. b \in BaseObjs /\ LeadsTo(chasing[l].base, b)
    BY <2>1, <2>4, BaseFacts DEF LeadsTo
  <2>6. \A i \in 1 .. l : LeadsTo(chasing[i].base, b)
    <3> SUFFICES ASSUME NEW i \in 1 .. l PROVE LeadsTo(chasing[i].base, b)
      OBVIOUS
    <3>1. i = l \/ i < l
      BY <2>2
    <3>2. i < l => LeadsTo(chasing[i].base, chasing[l].base)
      BY <2>3 DEF ChainInv, Nested
    <3> QED
      BY <2>1, <2>5, <3>1, <3>2, LeadsOn
  <2>7. Begin(b, t) /\ \A i \in 1 .. l : \A f \in chasing[i].todo \ t[i].todo : i = l /\ BaseOf[f[2]] = b
    BY <1>1, <1>3, <2>2
  <2> HIDE DEF t, b
  <2>8. b \in BaseObjs \ cached
    BY <1>3, <2>5 DEF b
  <2> QED
    BY <2>2, <2>6, <2>7, <2>8, BeginPreserves
<1> QED
  BY <1>2, <1>3

LEMMA CollectPtsChainPreserves ==
    ASSUME ChainInv, NEW b \in BaseObjs, chasing = <<>>, CollectPtsChain(b)
    PROVE  ChainInv'
<1>1. CASE b \in cached
  BY <1>1, ChainUnchanged DEF CollectPtsChain
<1>2. CASE b \notin cached
  <2>1. chasing \in Seq(ChainFrames) /\ Len(chasing) = 0 /\ \A i \in 1 .. 0 : FALSE
    BY EmptySeq DEF ChainInv, ChainType
  <2> QED
    BY <1>2, <2>1, BeginPreserves DEF CollectPtsChain
<1> QED
  BY <1>1, <1>2
-----------------------------------------------------------------------------
(***************************************************************************)
(* The effects of ModRefAnalysis.  LeastEffects is a solution of what the  *)
(* analysis solves, and the analysis stays below every solution.           *)
(***************************************************************************)
Effects == {"mod", "ref"} \X Objs

\* eff gives each function its own effects and those of its calls.
Solves(eff) ==
    \A f \in prog.funs :
        /\ \A x \in Accesses(prog, f) : Escaping(prog, f, Effect(x)) \subseteq eff[f]
        /\ \A s \in SitesOf(prog, f) : \A g \in s.callees : Escaping(prog, f, Passed(prog, s, eff[g])) \subseteq eff[f]

LEMMA ProgramFacts ==
    ASSUME prog \in Programs
    PROVE  /\ prog.funs \subseteq Nodes /\ CallEdges(prog) \in Graphs /\ prog.heap \in Heaps
           /\ CallEdges(prog) \in SUBSET (prog.funs \X prog.funs)
           /\ \A f \in prog.funs :
                 /\ \A x \in Accesses(prog, f) : x.pts \subseteq Objs
                 /\ \A s \in SitesOf(prog, f) :
                       /\ s.callees \subseteq prog.funs
                       /\ s.args \subseteq Objs /\ s.ret \subseteq Objs /\ s.alloc \subseteq Objs
<1>1. /\ prog.funs \subseteq Nodes /\ CallEdges(prog) \in Graphs /\ prog.heap \in Heaps
      /\ \A f \in prog.funs : \A x \in StmtsOf(prog, f) :
            IF x.op = "call" THEN x.callees \subseteq prog.funs /\ x.args \cup x.ret \cup x.alloc \subseteq Objs
            ELSE x.pts \subseteq Objs
  BY ModRefAssumption
<1>2. \A f \in prog.funs :
         /\ \A x \in Accesses(prog, f) : x.pts \subseteq Objs
         /\ \A s \in SitesOf(prog, f) :
               /\ s.callees \subseteq prog.funs
               /\ s.args \subseteq Objs /\ s.ret \subseteq Objs /\ s.alloc \subseteq Objs
  BY <1>1 DEF Accesses, SitesOf
<1>3. CallEdges(prog) \in SUBSET (prog.funs \X prog.funs)
  BY <1>2 DEF CallEdges
<1> QED
  BY <1>1, <1>2, <1>3

LEMMA SiteFacts ==
    ASSUME prog \in Programs, NEW s \in Sites(prog)
    PROVE  /\ CallerOf(prog, s) \in prog.funs /\ s \in SitesOf(prog, CallerOf(prog, s))
           /\ s.callees \subseteq prog.funs
           /\ s.args \subseteq Objs /\ s.ret \subseteq Objs /\ s.alloc \subseteq Objs
<1>1. \E f \in prog.funs : s \in SitesOf(prog, f)
  BY DEF Sites
<1>2. CallerOf(prog, s) \in prog.funs /\ s \in SitesOf(prog, CallerOf(prog, s))
  BY <1>1 DEF CallerOf
<1> QED
  BY <1>2, ProgramFacts

LEMMA VisibleIn ==
    ASSUME NEW s, s.alloc \subseteq Objs, NEW A, NEW R, NEW G, NEW E \in SUBSET Effects
    PROVE  /\ Visible(A, R, G, s, E) \in SUBSET Effects
           /\ \A B, Q, H : \A F \in SUBSET Effects :
                 A \subseteq B /\ R \subseteq Q /\ G \subseteq H /\ E \subseteq F =>
                    Visible(A, R, G, s, E) \subseteq Visible(B, Q, H, s, F)
<1>1. Visible(A, R, G, s, E) \in SUBSET Effects
  BY DEF Visible, Effects
<1>2. ASSUME NEW B, NEW Q, NEW H, NEW F \in SUBSET Effects,
             A \subseteq B, R \subseteq Q, G \subseteq H, E \subseteq F
      PROVE  Visible(A, R, G, s, E) \subseteq Visible(B, Q, H, s, F)
  BY <1>2 DEF Visible
<1> QED
  BY <1>1, <1>2

LEMMA EscapingIn ==
    ASSUME NEW p, NEW f, NEW es
    PROVE  Escaping(p, f, es) \subseteq es /\ \A ds : es \subseteq ds => Escaping(p, f, es) \subseteq Escaping(p, f, ds)
BY DEF Escaping

LEMMA LeastSolves ==
    ASSUME prog \in Programs
    PROVE  LeastEffects(prog) \in [prog.funs -> SUBSET Effects] /\ Solves(LeastEffects(prog))
<1> DEFINE F         == prog.funs
           Tabs      == [F -> SUBSET Effects]
           own(f)    == Escaping(prog, f, UNION {Effect(x) : x \in Accesses(prog, f)})
           add(t, f) == Escaping(prog, f, UNION {UNION {Passed(prog, s, t[g]) : g \in s.callees} : s \in SitesOf(prog, f)})
           round      == [t \in Tabs |-> [f \in F |-> t[f] \cup add(t, f)]]
           first     == [f \in F |-> own(f)]
           rank      == [t \in Tabs |-> {x \in F \X Effects : x[2] \in t[x[1]]}]
           I         == {t \in Tabs : \A f \in F : own(f) \subseteq t[f]}
<1>1. LeastEffects(prog) = Limit(round, first)
  BY Zenon DEF LeastEffects, Effects
<1>2. ASSUME NEW f \in F PROVE own(f) \in SUBSET Effects
  <2>1. ASSUME NEW x \in Accesses(prog, f) PROVE Effect(x) \subseteq Effects
    BY ProgramFacts DEF Effect, Effects
  <2>2. UNION {Effect(x) : x \in Accesses(prog, f)} \subseteq Effects
    BY <2>1
  <2> QED
    BY <2>2, EscapingIn
<1>3. ASSUME NEW t \in Tabs, NEW f \in F PROVE add(t, f) \in SUBSET Effects
  <2>1. ASSUME NEW s \in SitesOf(prog, f), NEW g \in s.callees PROVE Passed(prog, s, t[g]) \subseteq Effects
    <3>1. s.alloc \subseteq Objs /\ g \in F
      BY ProgramFacts
    <3>2. t[g] \in SUBSET Effects
      BY <3>1
    <3> HIDE DEF F, Tabs
    <3> QED
      BY <3>1, <3>2, VisibleIn DEF Passed
  <2>2. UNION {UNION {Passed(prog, s, t[g]) : g \in s.callees} : s \in SitesOf(prog, f)} \subseteq Effects
    BY <2>1
  <2> QED
    BY <2>2, EscapingIn
<1>4. round \in [Tabs -> Tabs]
  <2> HIDE DEF add
  <2> QED
    BY <1>3
<1>5. first \in I
  <2> HIDE DEF own
  <2> QED
    BY <1>2
<1>6. Stays(round, I) /\ I \in SUBSET Tabs
  <2> HIDE DEF add, own
  <2> QED
    BY <1>3 DEF Stays
<1>7. IsFiniteSet(F \X Effects)
  <2>1. IsFiniteSet(F)
    BY ProgramFacts, GraphsAssumption, FS_Subset
  <2>2. IsFiniteSet({"mod"}) /\ IsFiniteSet({"ref"})
    BY FS_Singleton
  <2>3. {"mod", "ref"} = {"mod"} \cup {"ref"}
    OBVIOUS
  <2>4. IsFiniteSet({"mod", "ref"})
    BY <2>2, <2>3, FS_Union
  <2>5. IsFiniteSet(Effects)
    BY <2>4, PtsChainAssumption, FS_Product DEF Effects
  <2> QED
    BY <2>1, <2>5, FS_Product
<1>8. rank \in [Tabs -> SUBSET (F \X Effects)] /\ Grows(round, rank, Tabs)
  <2>1. ASSUME NEW t \in Tabs, round[t] # t PROVE rank[t] \subseteq rank[round[t]] /\ rank[t] # rank[round[t]]
    <3>1. round[t] \in Tabs /\ \A f \in F : t[f] \subseteq round[t][f]
      <4> HIDE DEF add
      <4> QED
        BY <1>4
    <3>2. PICK f \in F : round[t][f] # t[f]
      <4> HIDE DEF round
      <4> QED
        BY <2>1, <3>1
    <3>3. PICK e \in round[t][f] : e \notin t[f]
      <4> HIDE DEF round
      <4> QED
        BY <3>1, <3>2
    <3> HIDE DEF round
    <3>4. <<f, e>> \in rank[round[t]] /\ <<f, e>> \notin rank[t]
      BY <3>1, <3>3
    <3>5. rank[t] \subseteq rank[round[t]]
      BY <3>1
    <3> QED
      BY <3>4, <3>5
  <2> HIDE DEF round
  <2>2. rank \in [Tabs -> SUBSET (F \X Effects)]
    OBVIOUS
  <2> HIDE DEF rank
  <2> QED
    BY <2>1, <2>2 DEF Grows
<1> DEFINE L == Limit(round, first)
<1>9. L \in I /\ round[L] = L
  <2> HIDE DEF round, first, I, rank, F, Tabs
  <2> QED
    BY <1>4, <1>5, <1>6, <1>7, <1>8, LimitFixed
<1> HIDE DEF L
<1>10. \A f \in F : own(f) \subseteq L[f] /\ add(L, f) \subseteq L[f]
  <2> HIDE DEF own, add
  <2> QED
    BY <1>9
<1>11. L \in Tabs /\ LeastEffects(prog) = L
  BY <1>1, <1>9 DEF L
<1>12. Solves(L)
  <2> SUFFICES ASSUME NEW f \in F
               PROVE  /\ \A x \in Accesses(prog, f) : Escaping(prog, f, Effect(x)) \subseteq L[f]
                      /\ \A s \in SitesOf(prog, f) : \A g \in s.callees :
                            Escaping(prog, f, Passed(prog, s, L[g])) \subseteq L[f]
    BY DEF Solves
  <2>1. ASSUME NEW x \in Accesses(prog, f) PROVE Escaping(prog, f, Effect(x)) \subseteq own(f)
    BY EscapingIn
  <2>2. ASSUME NEW s \in SitesOf(prog, f), NEW g \in s.callees
        PROVE  Escaping(prog, f, Passed(prog, s, L[g])) \subseteq add(L, f)
    BY EscapingIn
  <2> HIDE DEF own, add
  <2> QED
    BY <1>10, <2>1, <2>2
<1> QED
  BY <1>11, <1>12

(***************************************************************************)
(* The invariant.  Once the fixed point has begun, a call site's effects   *)
(* are in its caller, and a representative waits to be handled unless its  *)
(* call sites have what they see of it.                                    *)
(***************************************************************************)
IsQuery(q) ==
    \/ \E o \in Globals : q = <<"global", "", o>>
    \/ \E s \in Sites(prog) : \/ \E o \in s.args : q = <<"args", s, o>>
                              \/ \E o \in s.ret : q = <<"ret", s, o>>

MrType ==
    /\ prog \in Programs /\ heap = prog.heap /\ edges = CallEdges(prog)
    /\ effects \in [Nodes -> SUBSET Effects] /\ atSite \in [Sites(prog) -> SUBSET Effects]
    /\ reached \in [{"args", "ret"} -> [Sites(prog) -> SUBSET Objs]] /\ allGlobals \subseteq Objs
    /\ uncollected \subseteq Sites(prog) /\ worklist \in Seq(Nodes)

Asked ==
    /\ \A q \in want : IsQuery(q)
    /\ (asking = <<>> /\ chasing = <<>>) \/ IsQuery(asking)

Early == phase \in {"globals", "components", "sites"}
Phased ==
    /\ phase = "globals" => pc = "idle"
    /\ phase # "globals" => start = prog.funs
    /\ phase \notin {"globals", "components"} => pc = "done"
    /\ ~Early => want = {} /\ asking = <<>>
    /\ Early => atSite = [s \in Sites(prog) |-> {}] /\ sites = {}

Found ==
    /\ allGlobals \subseteq FullChain(Globals)
    /\ \A s \in Sites(prog) : /\ reached["args"][s] \subseteq FullChain(s.args)
                              /\ reached["ret"][s] \subseteq FullChain(s.ret)

EffectsSound ==
    /\ \A eff \in [prog.funs -> SUBSET Effects] :
          Solves(eff) => \A f \in prog.funs : effects[f] \subseteq eff[f]
    /\ \A s \in sites : s \in Sites(prog) /\ callee \in s.callees

Waits(f)      == f \in members \/ \E i \in 1 .. Len(worklist) : worklist[i] = f
Sees(s, f)    == (callee = f /\ s \in sites) \/ VisibleAt(s, f) \subseteq atSite[s]
HandledFor(f) == \A s \in Sites(prog) : f \in s.callees => Sees(s, f)
InCaller(s)   == NonLocal(atSite[s], CallerOf(prog, s)) \subseteq effects[CallerOf(prog, s)]
Propagated ==
    phase = "modref" =>
        /\ \A s \in Sites(prog) : InCaller(s)
        /\ \A f \in prog.funs : repNode(f) = f => Waits(f) \/ HandledFor(f)

MrInv ==
    /\ SccInv /\ ChainInv /\ MrType /\ Asked /\ Phased /\ Found /\ EffectsSound /\ Propagated

LEMMA SideEffectsExactFrom == MrInv => SideEffectsExact
<1> SUFFICES ASSUME MrInv, ModRefDone
             PROVE  /\ \A f \in prog.funs : effects[f] \subseteq LeastEffects(prog)[f]
                    /\ \A f \in prog.funs : repNode(f) = f => ClosedFor(f)
  BY DEF SideEffectsExact
<1>1. \A f \in prog.funs : effects[f] \subseteq LeastEffects(prog)[f]
  BY LeastSolves DEF MrInv, MrType, EffectsSound
<1>2. phase = "modref" /\ members = {} /\ sites = {} /\ \A i \in 1 .. Len(worklist) : FALSE
  BY EmptySeq DEF ModRefDone
<1>3. ASSUME NEW f \in prog.funs, repNode(f) = f PROVE ClosedFor(f)
  <2>1. HandledFor(f)
    BY <1>2, <1>3 DEF MrInv, Propagated, Waits
  <2> QED
    BY <1>2, <2>1 DEF HandledFor, Sees, ClosedFor
<1> QED
  BY <1>1, <1>3

LEMMA SameProgram ==
    ASSUME prog' = prog, heap' = heap
    PROVE  /\ Sites(prog)' = Sites(prog)
           /\ \A s : CallerOf(prog, s)' = CallerOf(prog, s)
           /\ \A os : FullChain(os)' = FullChain(os)
           /\ \A q : IsQuery(q)' <=> IsQuery(q)
           /\ \A eff : Solves(eff)' <=> Solves(eff)
<1>1. \A os : FullChain(os)' = FullChain(os)
  BY SameHeap
<1>2. \A s, es : Passed(prog, s, es)' = Passed(prog, s, es)
  BY <1>1 DEF Passed
<1>3. \A eff : Solves(eff)' <=> Solves(eff)
  BY <1>2 DEF Solves
<1>4. \A q : IsQuery(q)' <=> IsQuery(q)
  BY DEF IsQuery
<1> QED
  BY <1>1, <1>3, <1>4

LEMMA AskedSame ==
    ASSUME prog' = prog, heap' = heap, Asked, want' = want, asking' = asking, chasing' = chasing
    PROVE  Asked'
BY SameProgram DEF Asked

\* What a call of CollectPtsChain is made for.
LEMMA QueryParts ==
    ASSUME prog \in Programs, NEW q, IsQuery(q)
    PROVE  \/ q[1] = "global" /\ q[3] \in Globals
           \/ \E s \in Sites(prog) : /\ q[2] = s
                                     /\ \/ q[1] = "args" /\ q[3] \in s.args
                                        \/ q[1] = "ret" /\ q[3] \in s.ret
<1>1. CASE \E o \in Globals : q = <<"global", "", o>>
  <2>1. PICK o \in Globals : q = <<"global", "", o>>
    BY <1>1
  <2>2. q[1] = "global" /\ q[3] = o
    BY <2>1
  <2> QED
    BY <2>2
<1>2. CASE \E s \in Sites(prog) : \/ \E o \in s.args : q = <<"args", s, o>>
                                 \/ \E o \in s.ret : q = <<"ret", s, o>>
  <2>1. PICK s \in Sites(prog) : \/ \E o \in s.args : q = <<"args", s, o>>
                                \/ \E o \in s.ret : q = <<"ret", s, o>>
    BY <1>2
  <2>2. \/ q[1] = "args" /\ q[2] = s /\ q[3] \in s.args
        \/ q[1] = "ret" /\ q[2] = s /\ q[3] \in s.ret
    BY <2>1
  <2> QED
    BY <2>2
<1> QED
  BY <1>1, <1>2 DEF IsQuery

LEMMA AskedNext ==
    ASSUME prog' = prog, heap' = heap, Asked, want' \subseteq want,
           \/ asking' = <<>> /\ chasing' = <<>>
           \/ asking' = asking /\ asking # <<>>
           \/ asking' \in want
    PROVE  Asked'
BY SameProgram DEF Asked

LEMMA FoundSame ==
    ASSUME prog' = prog, heap' = heap, Found, allGlobals' = allGlobals, reached' = reached
    PROVE  Found'
BY SameProgram DEF Found

LEMMA SoundSame ==
    ASSUME prog' = prog, heap' = heap, EffectsSound, effects' = effects, sites' \subseteq sites, callee' = callee
    PROVE  EffectsSound'
BY SameProgram DEF EffectsSound

LEMMA MrTypeSame ==
    ASSUME prog' = prog, heap' = heap, edges' = edges, MrType, effects' = effects, atSite' = atSite,
           reached' = reached, allGlobals' = allGlobals, uncollected' \subseteq uncollected, worklist' = worklist
    PROVE  MrType'
BY SameProgram DEF MrType

\* Outside of the fixed point, or when it is left.
LEMMA NotPropagating == phase' # "modref" => Propagated'
BY DEF Propagated

\* What does not concern the effects leaves them propagated.
LEMMA PropagatedSame ==
    ASSUME Propagated, phase' = phase, prog' = prog, heap' = heap, info' = info, edges' = edges,
           effects' = effects, atSite' = atSite, worklist' = worklist, members' = members,
           callee' = callee, sites' = sites, allGlobals' = allGlobals, reached' = reached
    PROVE  Propagated'
<1>1. \A s, f : VisibleAt(s, f)' = VisibleAt(s, f)
  BY DEF VisibleAt
<1>2. \A f : (Waits(f)' <=> Waits(f)) /\ (HandledFor(f)' <=> HandledFor(f)) /\ repNode(f)' = repNode(f)
  BY <1>1 DEF Waits, HandledFor, Sees, repNode
<1>3. \A es, f : NonLocal(es, f)' = NonLocal(es, f)
  BY DEF NonLocal, isNonLocalObject, isInCycle, subNodes, repNode
<1>4. \A s : InCaller(s)' <=> InCaller(s)
  BY <1>3 DEF InCaller
<1> QED
  BY <1>2, <1>4 DEF Propagated

-----------------------------------------------------------------------------
(***************************************************************************)
(* The steps that find what globals, arguments and results reach.          *)
(***************************************************************************)
LEMMA AskPreserves == MrInv /\ Ask => MrInv'
<1> SUFFICES ASSUME MrInv, Ask PROVE MrInv'
  OBVIOUS
<1> USE DEF MrInv
<1>1. PICK q \in want : asking' = q /\ want' = want \ {q} /\ CollectPtsChain(BaseOf[q[3]])
  BY DEF Ask
<1>2. /\ asking = <<>> /\ chasing = <<>>
      /\ UNCHANGED <<sccVars, prog, phase, allGlobals, reached, uncollected, effectVars>>
  BY EmptySeq DEF Ask, Asked, IsQuery
<1>3. heap' = heap
  BY <1>1 DEF CollectPtsChain, chainVars, Begin
<1>4. BaseOf[q[3]] \in BaseObjs
  <2>1. IsQuery(q) /\ prog \in Programs
    BY DEF Asked, MrType
  <2>2. Globals \subseteq Objs /\ \A s \in Sites(prog) : s.args \subseteq Objs /\ s.ret \subseteq Objs
    BY <2>1, SiteFacts, ModRefAssumption
  <2>3. q[3] \in Objs
    BY <2>1, <2>2, QueryParts
  <2> QED
    BY <2>3, PtsChainAssumption
<1>5. SccInv' /\ ChainInv'
  BY <1>1, <1>2, <1>4, SccUnchanged, CollectPtsChainPreserves
<1>6. Asked'
  BY <1>1, <1>2, <1>3, AskedNext
<1>7. MrType' /\ Found' /\ EffectsSound'
  BY <1>2, <1>3, MrTypeSame, FoundSame, SoundSame DEF sccVars, effectVars
<1>8. Propagated'
  BY <1>2, <1>3, PropagatedSame DEF sccVars, effectVars
<1>9. Phased'
  <2>1. Early
    BY <1>1 DEF Phased
  <2> QED
    BY <1>1, <1>2, <1>3, <2>1, SameProgram DEF Phased, Early, sccVars, effectVars
<1> QED
  BY <1>5, <1>6, <1>7, <1>8, <1>9

LEMMA ChasePreserves == MrInv /\ Chase => MrInv'
<1> SUFFICES ASSUME MrInv, Chase PROVE MrInv'
  OBVIOUS
<1> USE DEF MrInv
<1>1. /\ CollectPointee \/ ReturnChain
      /\ UNCHANGED <<sccVars, prog, phase, chainCallVars, effectVars>>
  BY DEF Chase
<1>2. chasing # <<>> /\ heap' = heap
  BY <1>1 DEF CollectPointee, ReturnChain, Begin
<1>3. asking # <<>> /\ IsQuery(asking)
  <2>1. IsQuery(asking)
    BY <1>2 DEF Asked
  <2> QED
    BY <2>1, EmptySeq DEF IsQuery
<1>4. SccInv' /\ ChainInv'
  BY <1>1, SccUnchanged, CollectPointeePreserves, ReturnChainPreserves
<1>5. Asked'
  BY <1>1, <1>2, <1>3, AskedNext DEF chainCallVars
<1>6. MrType' /\ Found' /\ EffectsSound'
  BY <1>1, <1>2, MrTypeSame, FoundSame, SoundSame DEF sccVars, effectVars, chainCallVars
<1>7. Propagated'
  BY <1>1, <1>2, PropagatedSame DEF sccVars, effectVars, chainCallVars
<1>8. Phased'
  BY <1>1, <1>2, SameProgram DEF Phased, Early, sccVars, effectVars, chainCallVars
<1> QED
  BY <1>4, <1>5, <1>6, <1>7, <1>8

LEMMA AnswerPreserves == MrInv /\ Answer => MrInv'
<1> SUFFICES ASSUME MrInv, Answer PROVE MrInv'
  OBVIOUS
<1> USE DEF MrInv
<1> DEFINE found == chain[BaseOf[asking[3]]]
<1>1. /\ asking # <<>> /\ chasing = <<>> /\ asking' = <<>>
      /\ IF asking[1] = "global"
           THEN allGlobals' = allGlobals \cup {asking[3]} \cup found /\ UNCHANGED reached
           ELSE reached' = [reached EXCEPT ![asking[1]][asking[2]] = @ \cup found] /\ UNCHANGED allGlobals
      /\ UNCHANGED <<sccVars, chainVars, prog, phase, want, uncollected, effectVars>>
  BY DEF Answer
<1>2. IsQuery(asking) /\ prog \in Programs /\ heap \in Heaps /\ heap' = heap /\ chasing' = <<>>
  BY <1>1, ProgramFacts DEF Asked, MrType, chainVars
<1>3. ASSUME NEW os \in SUBSET Objs, NEW o \in os, asking[3] = o
      PROVE  found \subseteq FullChain(os) /\ found \subseteq Objs /\ o \in FullChain(os)
  <2>1. BaseOf[o] \in BaseObjs
    BY PtsChainAssumption
  <2>2. found \subseteq Full(BaseOf[o]) /\ found \subseteq Objs
    BY <1>3, <2>1 DEF ChainInv, ChainsSound, ChainType
  <2> QED
    BY <1>2, <2>2, AskedChain
<1> HIDE DEF found
<1>4. SccInv' /\ ChainInv'
  BY <1>1, SccUnchanged, ChainUnchanged
<1>5. Asked'
  BY <1>1, <1>2, AskedNext
<1>6. Phased' /\ EffectsSound'
  BY <1>1, <1>2, SoundSame, SameProgram DEF Phased, Early, sccVars, effectVars
<1>7. Early
  BY <1>1 DEF Phased
<1>8. Propagated'
  BY <1>1, <1>7, NotPropagating DEF Early
<1>9. CASE asking[1] = "global"
  <2>1. PICK o \in Globals : asking[3] = o /\ Globals \in SUBSET Objs
    <3>1. asking[3] \in Globals
      BY <1>2, <1>9, QueryParts
    <3> QED
      BY <3>1, ModRefAssumption
  <2>2. /\ allGlobals' = allGlobals \cup {o} \cup found /\ reached' = reached
        /\ found \subseteq FullChain(Globals) /\ found \subseteq Objs /\ o \in FullChain(Globals)
    BY <1>1, <1>3, <1>9, <2>1
  <2>3. Found'
    BY <1>1, <1>2, <2>2, SameProgram DEF Found
  <2>4. MrType'
    BY <1>1, <1>2, <2>1, <2>2, SameProgram DEF MrType, sccVars, effectVars
  <2> QED
    BY <1>4, <1>5, <1>6, <1>8, <2>3, <2>4
<1>10. CASE asking[1] # "global"
  <2>1. PICK s \in Sites(prog), k \in {"args", "ret"} :
           asking[1] = k /\ asking[2] = s /\ asking[3] \in (IF k = "args" THEN s.args ELSE s.ret)
    <3>1. PICK s \in Sites(prog) : /\ asking[2] = s
                                  /\ \/ asking[1] = "args" /\ asking[3] \in s.args
                                     \/ asking[1] = "ret" /\ asking[3] \in s.ret
      BY <1>2, <1>10, QueryParts
    <3>2. CASE asking[1] = "args" /\ asking[3] \in s.args
      BY <3>1, <3>2
    <3>3. CASE asking[1] = "ret" /\ asking[3] \in s.ret
      BY <3>1, <3>3
    <3> QED
      BY <3>1, <3>2, <3>3
  <2> DEFINE os == IF k = "args" THEN s.args ELSE s.ret
  <2>2. os \in SUBSET Objs /\ asking[3] \in os
    BY <1>2, <2>1, SiteFacts
  <2>3. found \subseteq FullChain(os) /\ found \subseteq Objs
    <3> HIDE DEF os
    <3> QED
      BY <1>3, <2>2
  <2>4. reached' = [reached EXCEPT ![k][s] = @ \cup found] /\ allGlobals' = allGlobals
    BY <1>1, <1>10, <2>1
  <2>5. reached \in [{"args", "ret"} -> [Sites(prog) -> SUBSET Objs]]
    BY DEF MrType
  <2>6. /\ reached' \in [{"args", "ret"} -> [Sites(prog) -> SUBSET Objs]]
        /\ \A j \in {"args", "ret"}, t \in Sites(prog) :
              reached'[j][t] = IF j = k /\ t = s THEN reached[j][t] \cup found ELSE reached[j][t]
    BY <2>3, <2>4, <2>5
  <2>7. Found'
    <3>1. \A t \in Sites(prog) : /\ reached'["args"][t] \subseteq FullChain(t.args)
                                 /\ reached'["ret"][t] \subseteq FullChain(t.ret)
      BY <2>3, <2>6 DEF Found
    <3> QED
      BY <1>1, <1>2, <2>4, <3>1, SameProgram DEF Found
  <2>8. MrType'
    BY <1>1, <1>2, <2>4, <2>6, SameProgram DEF MrType, sccVars, effectVars
  <2> QED
    BY <1>4, <1>5, <1>6, <1>8, <2>7, <2>8
<1> QED
  BY <1>9, <1>10

-----------------------------------------------------------------------------
(***************************************************************************)
(* The components of the call graph, and the effects of loads and stores.  *)
(***************************************************************************)
LEMMA DetectsFinding ==
    ASSUME SccInv, Detect
    PROVE  pc = "find" /\ edges' = edges /\ start' = start
<1>1. pc # "find" => path = <<>>
  BY DEF SccInv, SccType
<1> QED
  BY <1>1 DEF Detect, VisitRoot, VisitChild, CompareChild, Return, Finish, Enter

LEMMA FindComponentsPreserves == MrInv /\ FindComponents => MrInv'
<1> SUFFICES ASSUME MrInv, FindComponents PROVE MrInv'
  OBVIOUS
<1> USE DEF MrInv
<1>1. /\ want = {} /\ asking = <<>>
      /\ (phase = "globals" /\ Find(prog.funs, edges)) \/ Detect
      /\ phase' = "components"
      /\ UNCHANGED <<chainVars, prog, chainCallVars, effectVars>>
  BY DEF FindComponents
<1>2. prog \in Programs /\ heap' = heap /\ prog.funs \in SUBSET Nodes /\ edges \in Graphs
  BY <1>1, ProgramFacts DEF MrType, chainVars
<1>3. SccInv' /\ edges' = edges /\ start' = prog.funs /\ Early
  <2>1. CASE phase = "globals" /\ Find(prog.funs, edges)
    <3>1. SccInv'
      BY <1>2, <2>1, FindPreserves
    <3> QED
      BY <2>1, <3>1 DEF Find, Early
  <2>2. CASE Detect
    <3>1. pc = "find" /\ edges' = edges /\ start' = start
      BY <2>2, DetectsFinding
    <3>2. phase = "components"
      BY <3>1 DEF Phased
    <3> QED
      BY <2>2, <3>1, <3>2, DetectPreserves DEF Phased, Early
  <2> QED
    BY <1>1, <2>1, <2>2
<1>4. ChainInv'
  BY <1>1, ChainUnchanged
<1>5. MrType' /\ Found' /\ EffectsSound' /\ Propagated'
  BY <1>1, <1>2, <1>3, MrTypeSame, FoundSame, SoundSame, NotPropagating DEF effectVars, chainCallVars
<1>6. Asked'
  BY <1>1, <1>2, AskedSame DEF chainCallVars, chainVars
<1>7. Phased'
  BY <1>1, <1>2, <1>3, SameProgram DEF Phased, Early, effectVars, chainCallVars
<1> QED
  BY <1>3, <1>4, <1>5, <1>6, <1>7

\* A function that isInCycle says is recursive is.
LEMMA NonLocalEscapes ==
    ASSUME SccInv, pc = "done", start = prog.funs, edges = CallEdges(prog), prog \in Programs,
           NEW f \in prog.funs, NEW es
    PROVE  NonLocal(es, f) \subseteq Escaping(prog, f, es)
<1>1. isInCycle(f) => Recurs(prog, f)
  <2> DEFINE C == Closure(CallEdges(prog), prog.funs)
  <2>1. /\ prog.funs \subseteq Nodes /\ IsFiniteSet(prog.funs)
        /\ CallEdges(prog) \in SUBSET (prog.funs \X prog.funs) /\ edges \in Graphs
    BY ProgramFacts, GraphsAssumption, FS_Subset
  <2>2. C \in SUBSET (prog.funs \X prog.funs) /\ edges \subseteq C /\ Transitive(C)
    BY <2>1, ClosureLeast
  <2>3. C \in SUBSET (Nodes \X Nodes)
    <3> HIDE DEF C
    <3> QED
      BY <2>1, <2>2
  <2>4. Reach[edges] \subseteq C
    <3> HIDE DEF C
    <3> QED
      BY <2>1, <2>2, <2>3, ReachFacts
  <2>5. f \in inSCC
    BY DoneComplete DEF ReachedFrom
  <2> QED
    BY <2>4, <2>5, CycleExact DEF Recurs
<1>2. ASSUME NEW e \in es, isNonLocalObject(e[2], f)
      PROVE  e[2] \in Globals \cup HeapObjs \/ Owner[e[2]] # f \/ Recurs(prog, f)
  BY <1>1, <1>2 DEF isNonLocalObject
<1> QED
  BY <1>2 DEF NonLocal, Escaping

LEMMA LoadStorePreserves == MrInv /\ collectModRefForLoadStore => MrInv'
<1> SUFFICES ASSUME MrInv, collectModRefForLoadStore PROVE MrInv'
  OBVIOUS
<1> USE DEF MrInv
<1> DEFINE own(f) == UNION {Effect(x) : x \in Accesses(prog, f)}
<1>1. /\ phase = "components" /\ pc = "done" /\ phase' = "sites"
      /\ effects' = [f \in Nodes |-> IF f \in prog.funs THEN NonLocal(own(f), f) ELSE {}]
      /\ UNCHANGED <<sccVars, chainVars, prog, chainCallVars, atSite, worklist, members, callee, sites>>
  BY DEF collectModRefForLoadStore
<1>2. /\ prog \in Programs /\ heap' = heap /\ prog.funs \in SUBSET Nodes /\ edges = CallEdges(prog)
      /\ start = prog.funs
  BY <1>1, ProgramFacts DEF MrType, chainVars, Phased
<1>3. ASSUME NEW f \in prog.funs PROVE NonLocal(own(f), f) \subseteq Effects
  <2>1. \A x \in Accesses(prog, f) : Effect(x) \subseteq Effects
    BY <1>2, ProgramFacts DEF Effect, Effects
  <2> QED
    BY <2>1 DEF NonLocal
<1>4. ASSUME NEW eff, Solves(eff), NEW f \in prog.funs PROVE NonLocal(own(f), f) \subseteq eff[f]
  <2> SUFFICES ASSUME NEW x \in Accesses(prog, f), NEW e \in Effect(x), isNonLocalObject(e[2], f) PROVE e \in eff[f]
    BY DEF NonLocal
  <2>1. e \in NonLocal(Effect(x), f)
    BY DEF NonLocal
  <2>2. e \in Escaping(prog, f, Effect(x))
    BY <1>1, <1>2, <2>1, NonLocalEscapes
  <2> QED
    BY <1>4, <2>2 DEF Solves
<1> HIDE DEF own
<1>5. SccInv' /\ ChainInv'
  BY <1>1, SccUnchanged, ChainUnchanged
<1>6. effects' \in [Nodes -> SUBSET Effects]
  BY <1>1, <1>3
<1>7. MrType'
  BY <1>1, <1>2, <1>6, SameProgram DEF MrType, sccVars, chainCallVars
<1>8. Asked' /\ Found' /\ Propagated'
  BY <1>1, <1>2, AskedSame, FoundSame, NotPropagating DEF chainCallVars, chainVars
<1>9. EffectsSound'
  <2>1. \A eff \in [prog.funs -> SUBSET Effects] : Solves(eff) => \A f \in prog.funs : effects'[f] \subseteq eff[f]
    BY <1>1, <1>2, <1>4
  <2>2. \A s \in sites' : FALSE
    BY <1>1 DEF Phased, Early
  <2> QED
    BY <1>1, <1>2, <2>1, <2>2, SameProgram DEF EffectsSound
<1>10. Phased'
  BY <1>1, <1>2, SameProgram DEF Phased, Early, sccVars, chainCallVars
<1> QED
  BY <1>5, <1>7, <1>8, <1>9, <1>10

LEMMA CollectSitePreserves == MrInv /\ CollectCallSitePts => MrInv'
<1> SUFFICES ASSUME MrInv, CollectCallSitePts PROVE MrInv'
  OBVIOUS
<1> USE DEF MrInv
<1>1. PICK s \in uncollected :
         /\ uncollected' = uncollected \ {s}
         /\ want' = {<<"args", s, o>> : o \in s.args} \cup {<<"ret", s, o>> : o \in s.ret}
  BY DEF CollectCallSitePts
<1>2. /\ phase = "sites" /\ asking = <<>>
      /\ UNCHANGED <<sccVars, chainVars, prog, phase, asking, allGlobals, reached, effectVars>>
  BY DEF CollectCallSitePts
<1>3. heap' = heap /\ s \in Sites(prog)
  BY <1>2 DEF MrType, chainVars
<1>4. SccInv' /\ ChainInv'
  BY <1>2, SccUnchanged, ChainUnchanged
<1>5. MrType' /\ Found' /\ EffectsSound' /\ Propagated'
  BY <1>1, <1>2, <1>3, MrTypeSame, FoundSame, SoundSame, NotPropagating DEF sccVars, effectVars
<1>6. Asked'
  <2>1. \A q \in want' : IsQuery(q)
    BY <1>1, <1>3 DEF IsQuery
  <2> QED
    BY <1>2, <1>3, <2>1, SameProgram DEF Asked, chainVars
<1>7. Phased'
  BY <1>2, <1>3, SameProgram DEF Phased, Early, sccVars, effectVars
<1> QED
  BY <1>4, <1>5, <1>6, <1>7

-----------------------------------------------------------------------------
(***************************************************************************)
(* The fixed point.                                                        *)
(***************************************************************************)
LEMMA ReversedStack ==
    ASSUME T \in Seq(Nodes)
    PROVE  /\ revTopoNodeStack \in Seq(Nodes)
           /\ \A i \in 1 .. Len(T) : \E j \in 1 .. Len(revTopoNodeStack) : revTopoNodeStack[j] = T[i]
<1> DEFINE l == Len(T)
           q == [i \in 1 .. l |-> T[l + 1 - i]]
<1>1. l \in Nat /\ \A i \in 1 .. l : T[i] \in Nodes /\ l + 1 - i \in 1 .. l /\ l + 1 - (l + 1 - i) = i
  BY LenProperties
<1> HIDE DEF l
<1>2. q \in [1 .. l -> Nodes]
  BY <1>1
<1>3. q \in Seq(Nodes) /\ Len(q) = l
  BY <1>1, <1>2
<1>4. \A i \in 1 .. l : q[l + 1 - i] = T[i]
  BY <1>1
<1>5. revTopoNodeStack = q
  BY DEF revTopoNodeStack, l
<1> HIDE DEF q
<1> QED
  BY <1>1, <1>3, <1>4, <1>5 DEF l

LEMMA StartModRefPreserves == MrInv /\ StartModRef => MrInv'
<1> SUFFICES ASSUME MrInv, StartModRef PROVE MrInv'
  OBVIOUS
<1> USE DEF MrInv
<1>1. /\ phase = "sites" /\ want = {} /\ asking = <<>> /\ phase' = "modref" /\ worklist' = revTopoNodeStack
      /\ UNCHANGED <<sccVars, chainVars, prog, chainCallVars, effects, atSite, members, callee, sites>>
  BY DEF StartModRef
<1>2. heap' = heap /\ pc = "done" /\ start = prog.funs /\ T \in Seq(Nodes)
  BY <1>1 DEF Phased, chainVars, SccInv, SccType
<1>3. SccInv' /\ ChainInv'
  BY <1>1, SccUnchanged, ChainUnchanged
<1>4. worklist' \in Seq(Nodes) /\ \A i \in 1 .. Len(T) : \E j \in 1 .. Len(worklist') : worklist'[j] = T[i]
  BY <1>1, <1>2, ReversedStack
<1>5. MrType'
  BY <1>1, <1>2, <1>4, SameProgram DEF MrType, sccVars, chainCallVars
<1>6. Asked' /\ Found' /\ EffectsSound'
  BY <1>1, <1>2, AskedSame, FoundSame, SoundSame DEF chainCallVars, chainVars
<1>7. Phased'
  BY <1>1, <1>2, SameProgram DEF Phased, Early, sccVars, chainCallVars
<1>8. \A f \in prog.funs : repNode(f) = f => \E i \in 1 .. Len(worklist') : worklist'[i] = f
  <2>1. \A f \in prog.funs : f \in inSCC
    BY <1>2, DoneComplete DEF ReachedFrom
  <2>2. \A f \in inSCC : repNode(f) = f => \E i \in 1 .. Len(T) : T[i] = f
    BY DEF SccInv, Ordered, rep, repNode
  <2> QED
    BY <1>4, <2>1, <2>2
<1>9. Propagated'
  <2>1. \A s \in Sites(prog) : atSite'[s] = {}
    BY <1>1 DEF Phased, Early
  <2>2. \A s \in Sites(prog) : InCaller(s)'
    BY <2>1 DEF InCaller, NonLocal
  <2> QED
    BY <1>1, <1>2, <1>8, <2>2, SameProgram DEF Propagated, Waits, repNode, sccVars
<1> QED
  BY <1>3, <1>5, <1>6, <1>7, <1>9

LEMMA PopNodePreserves == MrInv /\ PopNode => MrInv'
<1> SUFFICES ASSUME MrInv, PopNode PROVE MrInv'
  OBVIOUS
<1> USE DEF MrInv
<1>1. /\ phase = "modref" /\ members = {} /\ sites = {} /\ worklist # <<>>
      /\ members' = subNodes(Head(worklist)) /\ worklist' = Tail(worklist)
      /\ UNCHANGED <<sccVars, chainVars, prog, phase, chainCallVars, effects, atSite, callee, sites>>
  BY DEF PopNode
<1>2. heap' = heap /\ pc = "done" /\ start = prog.funs /\ worklist \in Seq(Nodes)
  BY <1>1 DEF MrType, Phased, chainVars
<1>3. SccInv' /\ ChainInv'
  BY <1>1, SccUnchanged, ChainUnchanged
<1>4. /\ worklist' \in Seq(Nodes)
      /\ \A i \in 1 .. Len(worklist) : \/ worklist[i] = Head(worklist)
                                       \/ \E j \in 1 .. Len(worklist') : worklist'[j] = worklist[i]
  <2>1. /\ worklist' \in Seq(Nodes) /\ Len(worklist) \in Nat \ {0} /\ Len(worklist') = Len(worklist) - 1
        /\ \A j \in 1 .. Len(worklist') : worklist'[j] = worklist[j + 1]
    BY <1>1, <1>2
  <2>2. ASSUME NEW i \in 1 .. Len(worklist), i # 1 PROVE \E j \in 1 .. Len(worklist') : worklist'[j] = worklist[i]
    <3>1. i - 1 \in 1 .. Len(worklist') /\ (i - 1) + 1 = i
      BY <2>1, <2>2
    <3> QED
      BY <2>1, <3>1
  <2>3. Head(worklist) = worklist[1]
    BY <1>1, <1>2
  <2> QED
    BY <2>1, <2>2, <2>3
<1>5. MrType'
  BY <1>1, <1>2, <1>4, SameProgram DEF MrType, sccVars, chainCallVars
<1>6. Asked' /\ Found' /\ EffectsSound'
  BY <1>1, <1>2, AskedSame, FoundSame, SoundSame DEF chainCallVars, chainVars
<1>7. Phased'
  BY <1>1, <1>2, SameProgram DEF Phased, Early, sccVars, chainCallVars
<1>8. \A s, f : VisibleAt(s, f)' = VisibleAt(s, f)
  BY <1>1 DEF VisibleAt, chainCallVars
<1>9. \A f : repNode(f)' = repNode(f) /\ (HandledFor(f)' <=> HandledFor(f))
  BY <1>1, <1>2, <1>8, SameProgram DEF HandledFor, Sees, repNode, sccVars
<1>10. \A s : InCaller(s)' <=> InCaller(s)
  BY <1>1 DEF InCaller, NonLocal, isNonLocalObject, isInCycle, subNodes, repNode, sccVars
\* The components found are handled for their representatives.
<1>11. ASSUME NEW f \in prog.funs, repNode(f) = f, Waits(f) PROVE Waits(f)'
  <2>1. PICK i \in 1 .. Len(worklist) : worklist[i] = f
    BY <1>1, <1>11 DEF Waits
  <2>2. CASE f = Head(worklist)
    <3>1. f \in inSCC
      BY <1>2, DoneComplete DEF ReachedFrom
    <3>2. subNodes(f) = Component(f) /\ f \in Nodes
      BY <1>11, <3>1 DEF SccInv, SccType, Collected, Complete, rep, repNode
    <3>3. f \in members'
      BY <1>1, <2>2, <3>2 DEF Component, Together
    <3> QED
      BY <3>3 DEF Waits
  <2>3. CASE \E j \in 1 .. Len(worklist') : worklist'[j] = f
    BY <2>3 DEF Waits
  <2> QED
    BY <1>4, <2>1, <2>2, <2>3
<1>12. Propagated'
  BY <1>1, <1>2, <1>9, <1>10, <1>11, SameProgram DEF Propagated
<1> QED
  BY <1>3, <1>5, <1>6, <1>7, <1>12

LEMMA ModRefOfCalleePreserves == MrInv /\ ModRefOfCallee => MrInv'
<1> SUFFICES ASSUME MrInv, ModRefOfCallee PROVE MrInv'
  OBVIOUS
<1> USE DEF MrInv
<1>1. /\ phase = "modref" /\ sites = {}
      /\ UNCHANGED <<sccVars, chainVars, prog, phase, chainCallVars, effects, atSite, worklist>>
  BY DEF ModRefOfCallee
<1>2. PICK c \in members : callee' = c /\ members' = members \ {c} /\ sites' = {s \in Sites(prog) : c \in s.callees}
  BY DEF ModRefOfCallee
<1>3. heap' = heap
  BY <1>1 DEF chainVars
<1>4. SccInv' /\ ChainInv'
  BY <1>1, SccUnchanged, ChainUnchanged
<1>5. MrType' /\ Asked' /\ Found'
  BY <1>1, <1>3, MrTypeSame, AskedSame, FoundSame DEF sccVars, chainCallVars, chainVars
<1>6. EffectsSound'
  BY <1>1, <1>2, <1>3, SameProgram DEF EffectsSound
<1>7. Phased'
  BY <1>1, <1>3, SameProgram DEF Phased, Early, sccVars, chainCallVars
<1>8. \A s, f : VisibleAt(s, f)' = VisibleAt(s, f)
  BY <1>1 DEF VisibleAt, chainCallVars
<1>9. \A s : InCaller(s)' <=> InCaller(s)
  BY <1>1 DEF InCaller, NonLocal, isNonLocalObject, isInCycle, subNodes, repNode, sccVars
<1>10. ASSUME NEW f \in prog.funs, Waits(f) \/ HandledFor(f) PROVE Waits(f)' \/ HandledFor(f)'
  <2>1. CASE f = c
    <3>1. \A s \in Sites(prog) : f \in s.callees => Sees(s, f)'
      BY <1>2, <2>1 DEF Sees
    <3> QED
      BY <1>1, <1>3, <3>1, SameProgram DEF HandledFor
  <2>2. CASE f # c /\ Waits(f)
    BY <1>1, <1>2, <2>2 DEF Waits
  <2>3. CASE HandledFor(f)
    <3>1. \A s \in Sites(prog) : f \in s.callees => Sees(s, f)'
      BY <1>1, <1>8, <2>3 DEF HandledFor, Sees
    <3> QED
      BY <1>1, <1>3, <3>1, SameProgram DEF HandledFor
  <2> QED
    BY <1>10, <2>1, <2>2, <2>3
<1>11. Propagated'
  BY <1>1, <1>3, <1>9, <1>10, SameProgram DEF Propagated, repNode, sccVars
<1> QED
  BY <1>4, <1>5, <1>6, <1>7, <1>11

LEMMA PushedOnce ==
    ASSUME NEW q \in Seq(Nodes), NEW n \in Nodes
    PROVE  /\ Push(q, n) \in Seq(Nodes)
           /\ \E i \in 1 .. Len(Push(q, n)) : Push(q, n)[i] = n
           /\ \A i \in 1 .. Len(q) : \E j \in 1 .. Len(Push(q, n)) : Push(q, n)[j] = q[i]
<1>1. CASE \E i \in 1 .. Len(q) : q[i] = n
  BY <1>1 DEF Push
<1>2. CASE ~ \E i \in 1 .. Len(q) : q[i] = n
  <2>1. Push(q, n) = Append(q, n)
    BY <1>2 DEF Push
  <2> DEFINE t == Append(q, n)
  <2>2. t \in Seq(Nodes) /\ Len(q) \in Nat /\ Len(t) = Len(q) + 1 /\ t[Len(t)] = n /\ \A i \in 1 .. Len(q) : t[i] = q[i]
    BY Pushed
  <2> HIDE DEF t
  <2>3. Len(t) \in 1 .. Len(t) /\ \A i \in 1 .. Len(q) : i \in 1 .. Len(t)
    BY <2>2
  <2>4. /\ t \in Seq(Nodes) /\ \E i \in 1 .. Len(t) : t[i] = n
        /\ \A i \in 1 .. Len(q) : \E j \in 1 .. Len(t) : t[j] = q[i]
    BY <2>2, <2>3
  <2> QED
    BY <2>1, <2>4 DEF t
<1> QED
  BY <1>1, <1>2

\* A call site gets what it sees of the callee, and its caller what of that is not its
\* own; the caller is handled again if the site did not have it.
LEMMA HandleCallSitePreserves == MrInv /\ HandleCallSite => MrInv'
<1> SUFFICES ASSUME MrInv, HandleCallSite PROVE MrInv'
  OBVIOUS
<1> USE DEF MrInv
<1>1. /\ phase = "modref"
      /\ UNCHANGED <<sccVars, chainVars, prog, phase, chainCallVars, members, callee>>
  BY DEF HandleCallSite
<1>2. PICK s \in sites :
         /\ sites' = sites \ {s}
         /\ atSite' = [atSite EXCEPT ![s] = @ \cup VisibleAt(s, callee)]
         /\ effects' = [effects EXCEPT ![CallerOf(prog, s)] = @ \cup NonLocal(VisibleAt(s, callee), CallerOf(prog, s))]
         /\ worklist' = IF VisibleAt(s, callee) \subseteq atSite[s] THEN worklist
                        ELSE Push(worklist, CallerOf(prog, s))
  BY DEF HandleCallSite
<1> DEFINE new    == VisibleAt(s, callee)
           caller == CallerOf(prog, s)
           local  == NonLocal(new, caller)
<1>3. /\ heap' = heap /\ prog \in Programs /\ heap \in Heaps /\ prog.funs \subseteq Nodes
      /\ edges = CallEdges(prog) /\ start = prog.funs /\ pc = "done"
      /\ effects \in [Nodes -> SUBSET Effects] /\ atSite \in [Sites(prog) -> SUBSET Effects] /\ worklist \in Seq(Nodes)
      /\ reached \in [{"args", "ret"} -> [Sites(prog) -> SUBSET Objs]]
  BY <1>1, ProgramFacts DEF MrType, Phased, chainVars
<1>4. s \in Sites(prog) /\ callee \in s.callees
  BY DEF EffectsSound
<1>5. caller \in prog.funs /\ s \in SitesOf(prog, caller) /\ callee \in prog.funs /\ s.alloc \subseteq Objs
  BY <1>3, <1>4, SiteFacts
<1>6. caller \in Nodes /\ callee \in Nodes
  BY <1>3, <1>5
<1>7. new \in SUBSET Effects /\ local \subseteq new
  <2>1. new \in SUBSET Effects
    BY <1>3, <1>5, <1>6, VisibleIn DEF VisibleAt
  <2> HIDE DEF new
  <2> QED
    BY <2>1 DEF NonLocal
\* What the site sees a solution gives the caller.
<1>8. ASSUME NEW eff \in [prog.funs -> SUBSET Effects], Solves(eff) PROVE local \subseteq eff[caller]
  <2>1. effects[callee] \subseteq eff[callee] /\ effects[callee] \in SUBSET Effects /\ eff[callee] \in SUBSET Effects
    BY <1>3, <1>5, <1>6, <1>8 DEF EffectsSound
  <2>2. new \subseteq Passed(prog, s, eff[callee])
    BY <1>4, <1>5, <2>1, VisibleIn DEF Found, VisibleAt, Passed
  <2>3. Escaping(prog, caller, Passed(prog, s, eff[callee])) \subseteq eff[caller]
    BY <1>4, <1>5, <1>8 DEF Solves
  <2> HIDE DEF new, caller
  <2>4. local \subseteq Escaping(prog, caller, new)
    BY <1>3, <1>5, NonLocalEscapes
  <2> QED
    BY <2>2, <2>3, <2>4, EscapingIn
<1>9. /\ sites' = sites \ {s} /\ atSite' = [atSite EXCEPT ![s] = @ \cup new]
      /\ effects' = [effects EXCEPT ![caller] = @ \cup local]
      /\ worklist' = IF new \subseteq atSite[s] THEN worklist ELSE Push(worklist, caller)
  BY <1>2
<1> HIDE DEF new, caller, local
<1>10. /\ effects' \in [Nodes -> SUBSET Effects] /\ atSite' \in [Sites(prog) -> SUBSET Effects]
       /\ \A f \in Nodes : effects'[f] = IF f = caller THEN effects[f] \cup local ELSE effects[f]
       /\ \A t \in Sites(prog) : atSite'[t] = IF t = s THEN atSite[t] \cup new ELSE atSite[t]
  BY <1>3, <1>4, <1>6, <1>7, <1>9
<1>11. /\ worklist' \in Seq(Nodes)
       /\ \A i \in 1 .. Len(worklist) : \E j \in 1 .. Len(worklist') : worklist'[j] = worklist[i]
       /\ ~(new \subseteq atSite[s]) => \E j \in 1 .. Len(worklist') : worklist'[j] = caller
  <2>1. CASE new \subseteq atSite[s]
    BY <1>3, <1>9, <2>1
  <2>2. CASE ~(new \subseteq atSite[s])
    <3>1. worklist' = Push(worklist, caller)
      BY <1>9, <2>2
    <3> DEFINE t == worklist'
    <3>2. t = Push(worklist, caller)
      BY <3>1
    <3> HIDE DEF t
    <3>3. /\ t \in Seq(Nodes)
          /\ \A i \in 1 .. Len(worklist) : \E j \in 1 .. Len(t) : t[j] = worklist[i]
          /\ \E j \in 1 .. Len(t) : t[j] = caller
      BY <1>3, <1>6, <3>2, PushedOnce
    <3> QED
      BY <3>3 DEF t
  <2> QED
    BY <2>1, <2>2
<1>12. SccInv' /\ ChainInv'
  BY <1>1, SccUnchanged, ChainUnchanged
<1>13. MrType'
  BY <1>1, <1>3, <1>10, <1>11, SameProgram DEF MrType, sccVars, chainCallVars
<1>14. Asked' /\ Found'
  BY <1>1, <1>3, AskedSame, FoundSame DEF chainCallVars, chainVars
<1>15. Phased'
  BY <1>1, <1>3, SameProgram DEF Phased, Early, sccVars, chainCallVars
<1>16. EffectsSound'
  <2>1. ASSUME NEW eff \in [prog.funs -> SUBSET Effects], Solves(eff), NEW f \in prog.funs
        PROVE  effects'[f] \subseteq eff[f]
    BY <1>3, <1>8, <1>10, <2>1 DEF EffectsSound
  <2> QED
    BY <1>1, <1>3, <1>9, <2>1, SameProgram DEF EffectsSound
<1>17. \A es, f : NonLocal(es, f)' = NonLocal(es, f)
  BY <1>1 DEF NonLocal, isNonLocalObject, isInCycle, subNodes, repNode, sccVars
<1>18. ASSUME NEW t \in Sites(prog) PROVE InCaller(t)'
  <2>1. CallerOf(prog, t)' = CallerOf(prog, t) /\ CallerOf(prog, t) \in Nodes
    BY <1>1, <1>3, SiteFacts, SameProgram
  <2>2. NonLocal(atSite[t], CallerOf(prog, t)) \subseteq effects[CallerOf(prog, t)]
    BY <1>1 DEF Propagated, InCaller
  <2>3. CASE t = s
    <3>1. NonLocal(atSite'[t], caller) \subseteq NonLocal(atSite[t], caller) \cup local
      BY <1>10, <2>3 DEF NonLocal, local
    <3>2. CallerOf(prog, t) = caller
      BY <2>3 DEF caller
    <3> QED
      BY <1>10, <1>17, <2>1, <2>2, <3>1, <3>2 DEF InCaller
  <2>4. CASE t # s
    BY <1>10, <1>17, <2>1, <2>2, <2>4 DEF InCaller
  <2> QED
    BY <2>3, <2>4
\* Nothing new for the site is nothing new for the caller.
<1>19. new \subseteq atSite[s] => effects'[caller] = effects[caller]
  <2>1. NonLocal(atSite[s], caller) \subseteq effects[caller]
    BY <1>1, <1>4 DEF Propagated, InCaller, caller
  <2>2. new \subseteq atSite[s] => local \subseteq NonLocal(atSite[s], caller)
    BY DEF NonLocal, local
  <2> QED
    BY <1>6, <1>10, <2>1, <2>2
<1>20. ASSUME NEW f \in prog.funs, Waits(f) \/ HandledFor(f) PROVE Waits(f)' \/ HandledFor(f)'
  <2>1. Waits(f) => Waits(f)'
    BY <1>1, <1>11 DEF Waits
  <2>2. CASE f = caller /\ ~(new \subseteq atSite[s])
    BY <1>11, <2>2 DEF Waits
  <2>3. CASE HandledFor(f) /\ (f # caller \/ new \subseteq atSite[s])
    <3>1. effects'[f] = effects[f]
      BY <1>3, <1>10, <1>19, <2>3
    <3>2. \A t : VisibleAt(t, f)' = VisibleAt(t, f)
      BY <1>1, <3>1 DEF VisibleAt, chainCallVars
    <3>3. ASSUME NEW t \in Sites(prog), f \in t.callees PROVE Sees(t, f)'
      <4>1. Sees(t, f)
        BY <2>3, <3>3 DEF HandledFor
      <4>2. CASE callee = f /\ t = s
        BY <1>10, <3>2, <4>2 DEF Sees, new
      <4>3. CASE ~(callee = f /\ t = s)
        BY <1>1, <1>9, <1>10, <3>2, <4>1, <4>3 DEF Sees
      <4> QED
        BY <4>2, <4>3
    <3> QED
      BY <1>1, <1>3, <3>3, SameProgram DEF HandledFor
  <2> QED
    BY <1>20, <2>1, <2>2, <2>3
<1>21. Propagated'
  BY <1>1, <1>3, <1>18, <1>20, SameProgram DEF Propagated, repNode, sccVars
<1> QED
  BY <1>12, <1>13, <1>14, <1>15, <1>16, <1>21

-----------------------------------------------------------------------------
(***************************************************************************)
(* The whole of the analyses that SVFGRun puts together.                   *)
(***************************************************************************)
LEMMA MrNextPreserves == MrInv /\ mrNext => MrInv'
BY AskPreserves, ChasePreserves, AnswerPreserves, FindComponentsPreserves, LoadStorePreserves,
   CollectSitePreserves, StartModRefPreserves, PopNodePreserves, ModRefOfCalleePreserves,
   HandleCallSitePreserves
   DEF mrNext

\* What comes after the mod-ref analysis only reads its results.
Later == phase \notin {"globals", "components", "sites", "modref"}
LEMMA LaterPreserves ==
    ASSUME MrInv, UNCHANGED <<sccVars, chainVars, prog, chainCallVars, effectVars>>,
           phase' = phase \/ (phase \notin {"globals", "components", "sites"} /\ Later')
    PROVE  MrInv'
<1> USE DEF MrInv
<1>1. heap' = heap
  BY DEF chainVars
<1>2. SccInv' /\ ChainInv'
  BY SccUnchanged, ChainUnchanged
<1>3. MrType' /\ Asked' /\ Found' /\ EffectsSound'
  BY <1>1, MrTypeSame, FoundSame, SoundSame, SameProgram DEF Asked, sccVars, chainVars, chainCallVars, effectVars
<1>4. Phased'
  BY <1>1, SameProgram DEF Phased, Early, Later, sccVars, chainCallVars, effectVars
<1>5. Propagated'
  <2>1. CASE phase' = phase
    BY <1>1, <2>1, PropagatedSame DEF sccVars, chainCallVars, effectVars
  <2>2. CASE Later'
    BY <2>2, NotPropagating DEF Later
  <2> QED
    BY <2>1, <2>2
<1> QED
  BY <1>2, <1>3, <1>4, <1>5

LEMMA MrUnchanged == MrInv /\ UNCHANGED mrVars => MrInv'
BY LaterPreserves DEF mrVars

LEMMA InitMrInv == mrInit => MrInv
<1> SUFFICES ASSUME mrInit PROVE MrInv
  OBVIOUS
<1>1. /\ prog \in Programs /\ edges = CallEdges(prog) /\ heap = prog.heap
      /\ phase = "globals" /\ asking = <<>> /\ want = {<<"global", "", o>> : o \in Globals}
      /\ allGlobals = {} /\ reached = [k \in {"args", "ret"} |-> [s \in Sites(prog) |-> {}]]
      /\ uncollected = Sites(prog) /\ effects = [f \in Nodes |-> {}] /\ atSite = [s \in Sites(prog) |-> {}]
      /\ worklist = <<>> /\ members = {} /\ sites = {}
  BY DEF mrInit
<1>2. pc = "idle" /\ chasing = <<>> /\ chainInit /\ sccInit
  BY DEF mrInit, sccInit, chainInit
<1>3. SccInv /\ ChainInv
  BY <1>2, InitSccInv, InitChainInv
<1>4. MrType
  BY <1>1, EmptySeq DEF MrType
<1>5. Asked
  BY <1>1, <1>2 DEF Asked, IsQuery
<1>6. Phased /\ Found /\ Propagated
  BY <1>1, <1>2 DEF Phased, Early, Found, Propagated
<1>7. EffectsSound
  BY <1>1, ProgramFacts DEF EffectsSound
<1> QED
  BY <1>3, <1>4, <1>5, <1>6, <1>7 DEF MrInv

LEMMA RunNextPreserves == MrInv /\ runNext => MrInv'
<1> SUFFICES ASSUME MrInv, runNext PROVE MrInv'
  OBVIOUS
<1>1. CASE ssaNext
  <2>1. CASE mrNext
    BY <2>1, MrNextPreserves
  <2>2. CASE partitionMRs
    BY <2>2, LaterPreserves DEF partitionMRs, ModRefDone, Later
  <2>3. CASE BuildMemSSA
    BY <2>3, MrUnchanged DEF BuildMemSSA, createMUCHI, insertPHI, SSARename, RenameChild, LeaveBlock
  <2> QED
    BY <1>1, <2>1, <2>2, <2>3 DEF ssaNext, GenerateMRs
<1>2. CASE buildSVFG \/ updateCallGraph \/ StartRun
  BY <1>2, LaterPreserves DEF buildSVFG, updateCallGraph, StartRun, Later
<1>3. CASE OptimiseSVFG
  BY <1>3, LaterPreserves, MrUnchanged
     DEF OptimiseSVFG, retargetEdgesOfAInFOut, RemoveCandidate, initialWorkList, RemovePhi, connectOptimised,
         memVars, Later
<1>4. CASE Run
  BY <1>4, MrUnchanged DEF Run, Load, Store, CallExternal, Call, Jump, ReturnToCaller, memVars
<1> QED
  BY <1>1, <1>2, <1>3, <1>4 DEF runNext, Analyse

\* For every program: no chain holds what its object does not reach, and on pointers
\* without a cycle every finished one is complete, in whatever order chains are asked
\* for and pointees met; and when the fixed point ends, every effect of a function is
\* its own or comes by a chain of calls, and the call sites of each representative
\* have what they see of it, in whatever order sites are visited.
THEOREM EffectsExactAlways == runSpec => []EffectsExact
<1>1. runInit => MrInv
  BY InitMrInv DEF runInit, optInit, svfgInit, ssaInit
<1>2. MrInv /\ [runNext]_vars => MrInv'
  BY RunNextPreserves, MrUnchanged DEF vars, memVars
<1>3. MrInv => EffectsExact
  BY SideEffectsExactFrom, ChainsExactFrom DEF EffectsExact, MrInv
<1> QED
  BY <1>1, <1>2, <1>3, PTL DEF runSpec
-----------------------------------------------------------------------------
(***************************************************************************)
(* The regions.  Dividing an intersection keeps what it was part of made   *)
(* up of intersections, and what is left of the set that divides it meets  *)
(* none of those it has met, as long as they are disjoint.                 *)
(***************************************************************************)
MadeUp(L, c) == \A o \in c : \E x \in L : o \in x /\ x \subseteq c
Apart(L)     == \A r, s \in L : r = s \/ r \cap s = {}
Singles(L)   == \A x \in L : Cardinality(x) = 1

LEMMA ObjsFinite == IsFiniteSet(Objs) /\ \A c \in SUBSET Objs : IsFiniteSet(c) /\ Cardinality(c) \in Nat
<1>1. IsFiniteSet(Objs)
  BY PtsChainAssumption
<1>2. ASSUME NEW c \in SUBSET Objs PROVE IsFiniteSet(c) /\ Cardinality(c) \in Nat
  BY <1>1, FS_Subset, FS_CardinalityType
<1> QED
  BY <1>1, <1>2

LEMMA SmallestIn ==
    ASSUME NEW S \in SUBSET SUBSET Objs, S # {}
    PROVE  Smallest(S) \in S /\ \A b \in S : Cardinality(Smallest(S)) <= Cardinality(b)
<1> DEFINE n == Cardinality(Objs)
           U == 0 .. n
           above(a) == {k \in U : Cardinality(a) <= k}
           C == {above(a) : a \in S}
<1>1. n \in Nat /\ \A a \in S : Cardinality(a) \in U
  <2>1. n \in Nat
    BY ObjsFinite
  <2>2. ASSUME NEW a \in S PROVE Cardinality(a) \in Nat /\ Cardinality(a) <= n
    BY ObjsFinite, FS_Subset
  <2> HIDE DEF n
  <2> QED
    BY <2>1, <2>2
<1>2. IsFiniteSet(U)
  BY <1>1, FS_Interval
<1> HIDE DEF n
<1>3. C \in SUBSET SUBSET U /\ C # {}
  OBVIOUS
<1>4. PICK m \in C : \A k \in C : m \subseteq k => k = m
  <2> HIDE DEF C, U
  <2> QED
    BY <1>2, <1>3, MaximalSubset
<1>5. PICK a \in S : m = above(a)
  BY <1>4
<1>6. ASSUME NEW b \in S PROVE Cardinality(a) <= Cardinality(b)
  <2> SUFFICES ASSUME ~(Cardinality(a) <= Cardinality(b)) PROVE FALSE
    OBVIOUS
  <2>1. Cardinality(a) \in Int /\ Cardinality(b) \in Int /\ Cardinality(b) \in U
    BY <1>1
  <2>2. above(a) \subseteq above(b)
    BY <2>1
  <2>3. above(b) = above(a)
    <3>1. above(b) \in C
      OBVIOUS
    <3> HIDE DEF C, above
    <3> QED
      BY <1>4, <1>5, <2>2, <3>1
  <2>4. Cardinality(b) \in above(b) /\ Cardinality(b) \notin above(a)
    BY <2>1
  <2> QED
    BY <2>3, <2>4
<1>7. \E x \in S : \A b \in S : Cardinality(x) <= Cardinality(b)
  BY <1>6
<1> QED
  BY <1>7 DEF Smallest

MeetRecs(c, L) ==
    [rest : SUBSET c, todo : SUBSET L, gone : SUBSET L, new : SUBSET SUBSET UNION L]

\* The loop of computeIntersections: gone are divided ones, new their parts.
Meeting(c, L, m) ==
    /\ m.todo \cap m.gone = {}
    /\ \A n \in m.new : \E g \in m.gone : n \subseteq g
    /\ \A g \in m.gone : MadeUp(m.new, g)
    /\ \A o \in c : \/ o \in m.rest
                    \/ \E x \in (L \ (m.todo \cup m.gone)) \cup m.new : o \in x /\ x \subseteq c
    /\ Apart(L) => /\ Apart(m.new) /\ \A n \in m.new : n \cap m.rest = {}
                   /\ \A i \in L \ m.todo : i \cap m.rest = {}

LEMMA MeetIs ==
    ASSUME NEW c, NEW L, NEW m \in MeetRecs(c, L), m.rest # {}, m.todo # {}
    PROVE  LET i == Smallest(m.todo)
           IN  Meet(m) = IF i \cap m.rest \in {{}, i}
                 THEN [rest |-> m.rest \ i, todo |-> m.todo \ {i}, gone |-> m.gone, new |-> m.new]
                 ELSE [rest |-> m.rest \ i, todo |-> m.todo \ {i}, gone |-> m.gone \cup {i},
                       new |-> m.new \cup {i \cap m.rest, i \ m.rest}]
<1> DEFINE i == Smallest(m.todo)
<1>1. m = [rest |-> m.rest, todo |-> m.todo, gone |-> m.gone, new |-> m.new]
  BY DEF MeetRecs
<1>2. Meet(m) = IF i \cap m.rest \in {{}, i} THEN [m EXCEPT !.rest = m.rest \ i, !.todo = m.todo \ {i}]
                ELSE [m EXCEPT !.rest = m.rest \ i, !.todo = m.todo \ {i}, !.gone = m.gone \cup {i},
                               !.new = m.new \cup {i \cap m.rest, i \ m.rest}]
  BY <1>1 DEF Meet
<1> HIDE DEF i
<1>3. /\ [m EXCEPT !.rest = m.rest \ i, !.todo = m.todo \ {i}]
           = [rest |-> m.rest \ i, todo |-> m.todo \ {i}, gone |-> m.gone, new |-> m.new]
      /\ [m EXCEPT !.rest = m.rest \ i, !.todo = m.todo \ {i}, !.gone = m.gone \cup {i},
                   !.new = m.new \cup {i \cap m.rest, i \ m.rest}]
           = [rest |-> m.rest \ i, todo |-> m.todo \ {i}, gone |-> m.gone \cup {i},
              new |-> m.new \cup {i \cap m.rest, i \ m.rest}]
  <2> DEFINE a == m.rest \ i
             b == m.todo \ {i}
             d == m.gone \cup {i}
             e == m.new \cup {i \cap m.rest, i \ m.rest}
  <2> HIDE DEF a, b, d, e
  <2> DEFINE m1 == [rest |-> a, todo |-> m.todo, gone |-> m.gone, new |-> m.new]
             m2 == [rest |-> a, todo |-> b, gone |-> m.gone, new |-> m.new]
             m3 == [rest |-> a, todo |-> b, gone |-> d, new |-> m.new]
  <2>1. [m EXCEPT !.rest = a] = m1
    BY <1>1
  <2>2. [m1 EXCEPT !.todo = b] = m2
    OBVIOUS
  <2>3. [m2 EXCEPT !.gone = d] = m3
    OBVIOUS
  <2>4. [m3 EXCEPT !.new = e] = [rest |-> a, todo |-> b, gone |-> d, new |-> e]
    OBVIOUS
  <2> HIDE DEF m1, m2, m3
  <2>5. [m EXCEPT !.rest = a, !.todo = b] = m2
    BY <2>1, <2>2
  <2>6. [m EXCEPT !.rest = a, !.todo = b, !.gone = d, !.new = e]
          = [rest |-> a, todo |-> b, gone |-> d, new |-> e]
    BY <2>3, <2>4, <2>5
  <2> QED
    BY <2>5, <2>6 DEF a, b, d, e, m2
<1>4. Meet(m) = IF i \cap m.rest \in {{}, i}
        THEN [rest |-> m.rest \ i, todo |-> m.todo \ {i}, gone |-> m.gone, new |-> m.new]
        ELSE [rest |-> m.rest \ i, todo |-> m.todo \ {i}, gone |-> m.gone \cup {i},
              new |-> m.new \cup {i \cap m.rest, i \ m.rest}]
  BY <1>2, <1>3
<1> QED
  BY <1>4 DEF i

LEMMA MeetTyped ==
    ASSUME NEW c \in SUBSET Objs, NEW L \in SUBSET SUBSET Objs, NEW m \in MeetRecs(c, L)
    PROVE  /\ Meet(m) \in MeetRecs(c, L)
           /\ Meet(m) # m => Meet(m).todo \subseteq m.todo /\ Meet(m).todo # m.todo
           /\ Meet(m) = m => m.rest = {} \/ m.todo = {}
<1>1. m.rest \subseteq c /\ m.todo \subseteq L /\ m.gone \subseteq L /\ m.new \subseteq SUBSET UNION L
  BY DEF MeetRecs
<1>2. CASE m.rest = {} \/ m.todo = {}
  <2>1. Meet(m) = m
    BY <1>2 DEF Meet
  <2> QED
    BY <1>2, <2>1
<1>3. CASE m.rest # {} /\ m.todo # {}
  <2> DEFINE i == Smallest(m.todo)
             u == i \cap m.rest
             w == i \ m.rest
             rest == m.rest \ i
             todo == m.todo \ {i}
             t1 == [rest |-> rest, todo |-> todo, gone |-> m.gone, new |-> m.new]
             t2 == [rest |-> rest, todo |-> todo, gone |-> m.gone \cup {i}, new |-> m.new \cup {u, w}]
  <2>1. i \in m.todo /\ i \in L
    BY <1>1, <1>3, SmallestIn
  <2>2. Meet(m) \in {t1, t2}
    BY <1>3, MeetIs
  <2> HIDE DEF i
  <2>3. u \subseteq UNION L /\ w \subseteq UNION L /\ rest \subseteq c /\ todo \subseteq L
    BY <1>1, <2>1
  <2> HIDE DEF u, w, rest
  <2>4. t1 \in MeetRecs(c, L) /\ t2 \in MeetRecs(c, L)
    BY <1>1, <2>1, <2>3 DEF MeetRecs
  <2>5. t1.todo = todo /\ t2.todo = todo
    OBVIOUS
  <2>6. todo \subseteq m.todo /\ todo # m.todo
    BY <2>1
  <2> HIDE DEF t1, t2, todo
  <2> QED
    BY <2>2, <2>4, <2>5, <2>6
<1> QED
  BY <1>2, <1>3

LEMMA MeetKeeps ==
    ASSUME NEW c \in SUBSET Objs, NEW L \in SUBSET SUBSET Objs, NEW m \in MeetRecs(c, L), Meeting(c, L, m)
    PROVE  Meeting(c, L, Meet(m))
<1>1. m.rest \subseteq c /\ m.todo \subseteq L /\ m.gone \subseteq L /\ m.new \subseteq SUBSET UNION L
  BY DEF MeetRecs
<1>2. CASE m.rest = {} \/ m.todo = {}
  BY <1>2 DEF Meet
<1>3. CASE m.rest # {} /\ m.todo # {}
  <2> DEFINE i == Smallest(m.todo)
             u == i \cap m.rest
             w == i \ m.rest
             rest == m.rest \ i
             todo == m.todo \ {i}
  <2>1. i \in m.todo /\ i \in L
    BY <1>1, <1>3, SmallestIn
  <2>2. Meet(m) = IF u \in {{}, i} THEN [rest |-> rest, todo |-> todo, gone |-> m.gone, new |-> m.new]
                  ELSE [rest |-> rest, todo |-> todo, gone |-> m.gone \cup {i}, new |-> m.new \cup {u, w}]
    BY <1>3, MeetIs
  <2>3. rest \subseteq c /\ todo \subseteq L /\ todo \subseteq m.todo /\ todo # m.todo
    BY <1>1, <2>1
  <2>4. i \notin m.gone
    BY <2>1 DEF Meeting
  <2> HIDE DEF i
  <2>5. CASE u \in {{}, i}
    <3> DEFINE t == [rest |-> rest, todo |-> todo, gone |-> m.gone, new |-> m.new]
    <3>1. Meet(m) = t
      BY <2>2, <2>5
    <3>3. ASSUME NEW o \in c
          PROVE  \/ o \in rest
                 \/ \E x \in (L \ (todo \cup m.gone)) \cup m.new : o \in x /\ x \subseteq c
      <4>1. CASE o \in m.rest /\ o \in i
        <5>1. u = i
          BY <2>5, <4>1
        <5>2. i \in L \ (todo \cup m.gone) /\ i \subseteq c
          BY <1>1, <2>1, <2>4, <5>1
        <5> QED
          BY <4>1, <5>2
      <4>2. CASE o \in m.rest /\ o \notin i
        BY <4>2
      <4>3. CASE \E x \in (L \ (m.todo \cup m.gone)) \cup m.new : o \in x /\ x \subseteq c
        BY <2>3, <4>3
      <4> QED
        BY <4>1, <4>2, <4>3 DEF Meeting
    <3>4. ASSUME Apart(L)
          PROVE  /\ Apart(m.new) /\ \A n \in m.new : n \cap rest = {}
                 /\ \A j \in L \ todo : j \cap rest = {}
      BY <3>4 DEF Meeting
    <3>5. Meeting(c, L, t)
      BY <2>3, <3>3, <3>4 DEF Meeting
    <3> QED
      BY <3>1, <3>5
  <2>6. CASE u \notin {{}, i}
    <3> DEFINE new == m.new \cup {u, w}
               gone == m.gone \cup {i}
               t == [rest |-> rest, todo |-> todo, gone |-> gone, new |-> new]
    <3>1. Meet(m) = t
      BY <2>2, <2>6
    <3>3. todo \cap gone = {} /\ \A n \in new : \E g \in gone : n \subseteq g
      BY DEF Meeting
    <3>4. \A g \in gone : MadeUp(new, g)
      <4>1. ASSUME NEW o \in i PROVE \E x \in new : o \in x /\ x \subseteq i
        <5>1. o \in u \/ o \in w
          BY <4>1
        <5>2. u \subseteq i /\ w \subseteq i /\ u \in new /\ w \in new
          OBVIOUS
        <5> HIDE DEF u, w, new
        <5> QED
          BY <5>1, <5>2
      <4>2. ASSUME NEW g \in m.gone, NEW o \in g PROVE \E x \in new : o \in x /\ x \subseteq g
        BY DEF Meeting, MadeUp
      <4> HIDE DEF new
      <4> QED
        BY <4>1, <4>2 DEF MadeUp
    <3>5. ASSUME NEW o \in c
          PROVE  \/ o \in rest
                 \/ \E x \in (L \ (todo \cup gone)) \cup new : o \in x /\ x \subseteq c
      <4>1. CASE o \in m.rest /\ o \in i
        <5>1. o \in u /\ u \subseteq c /\ u \in new
          BY <1>1, <4>1
        <5> HIDE DEF u, new
        <5> QED
          BY <5>1
      <4>2. CASE o \in m.rest /\ o \notin i
        BY <4>2
      <4>3. CASE \E x \in (L \ (m.todo \cup m.gone)) \cup m.new : o \in x /\ x \subseteq c
        <5>1. PICK x \in (L \ (m.todo \cup m.gone)) \cup m.new : o \in x /\ x \subseteq c
          BY <4>3
        <5>2. x \in (L \ (todo \cup gone)) \cup new
          BY <2>1, <5>1
        <5> QED
          BY <5>1, <5>2
      <4> QED
        BY <4>1, <4>2, <4>3 DEF Meeting
    <3>6. ASSUME Apart(L)
          PROVE  /\ Apart(new) /\ \A n \in new : n \cap rest = {}
                 /\ \A j \in L \ todo : j \cap rest = {}
      <4>1. /\ Apart(m.new) /\ \A n \in m.new : n \cap m.rest = {} /\ \E g \in m.gone : n \subseteq g
            /\ \A j \in L \ m.todo : j \cap m.rest = {}
        BY <3>6 DEF Meeting
      <4>2. ASSUME NEW n \in m.new PROVE n \cap i = {}
        <5>1. PICK g \in m.gone : n \subseteq g
          BY <4>1
        <5>2. g \cap i = {}
          BY <1>1, <2>1, <2>4, <3>6 DEF Apart
        <5> QED
          BY <5>1, <5>2
      <4>3. u \subseteq i /\ w \subseteq i /\ u \cap w = {}
        OBVIOUS
      <4>4. Apart(new)
        <5> HIDE DEF u, w
        <5> SUFFICES ASSUME NEW r \in new, NEW s \in new PROVE r = s \/ r \cap s = {}
          BY DEF Apart
        <5>1. CASE r \in m.new /\ s \in m.new
          BY <4>1, <5>1 DEF Apart
        <5>2. CASE r \in m.new /\ s \in {u, w}
          BY <4>2, <4>3, <5>2
        <5>3. CASE r \in {u, w} /\ s \in m.new
          BY <4>2, <4>3, <5>3
        <5>4. CASE r \in {u, w} /\ s \in {u, w}
          BY <4>3, <5>4
        <5> QED
          BY <5>1, <5>2, <5>3, <5>4
      <4>5. ASSUME NEW n \in new PROVE n \cap rest = {}
        BY <4>1, <4>5
      <4>6. ASSUME NEW j \in L \ todo PROVE j \cap rest = {}
        BY <4>1, <4>6
      <4> HIDE DEF new, rest, todo
      <4> QED
        BY <4>4, <4>5, <4>6
    <3>7. Meeting(c, L, t)
      <4> HIDE DEF new, rest, todo, gone
      <4> QED
        BY <3>3, <3>4, <3>5, <3>6 DEF Meeting
    <3> QED
      BY <3>1, <3>7
  <2> QED
    BY <2>5, <2>6
<1> QED
  BY <1>2, <1>3

LEMMA MeetAllEnds ==
    ASSUME NEW c \in SUBSET Objs, NEW L \in SUBSET SUBSET Objs, NEW m, m = MeetAll(c, L)
    PROVE  m \in MeetRecs(c, L) /\ Meeting(c, L, m) /\ (m.rest = {} \/ m.todo = {})
<1> DEFINE Recs == MeetRecs(c, L)
           I == {x \in Recs : Meeting(c, L, x)}
           round == [x \in Recs |-> Meet(x)]
           entry == [rest |-> c, todo |-> L, gone |-> {}, new |-> {}]
           rank == [x \in Recs |-> L \ x.todo]
<1>1. m = Limit(round, entry)
  BY DEF MeetAll, MeetRecs
<1>2. round \in [Recs -> Recs]
  BY MeetTyped
<1>3. rank \in [Recs -> SUBSET L] /\ IsFiniteSet(L)
  <2>1. IsFiniteSet(L)
    BY ObjsFinite, FS_SUBSET, FS_Subset
  <2> HIDE DEF Recs
  <2> QED
    BY <2>1
<1>4. Grows(round, rank, Recs)
  <2> SUFFICES ASSUME NEW x \in Recs, Meet(x) # x
               PROVE  L \ x.todo \subseteq L \ Meet(x).todo /\ L \ x.todo # L \ Meet(x).todo
    BY <1>2 DEF Grows
  <2>1. Meet(x).todo \subseteq x.todo /\ Meet(x).todo # x.todo
    BY MeetTyped
  <2>2. x.todo \subseteq L
    BY DEF MeetRecs
  <2> QED
    BY <2>1, <2>2
<1>5. entry \in I
  <2>1. entry \in Recs
    BY DEF MeetRecs
  <2>2. Meeting(c, L, entry)
    BY DEF Meeting, Apart, MadeUp
  <2> QED
    BY <2>1, <2>2
<1>6. I \in SUBSET Recs /\ Stays(round, I)
  <2>1. ASSUME NEW x \in I PROVE round[x] \in I
    <3>1. x \in Recs /\ Meeting(c, L, x)
      OBVIOUS
    <3> QED
      BY <3>1, MeetTyped, MeetKeeps
  <2> HIDE DEF round
  <2> QED
    BY <2>1 DEF Stays
<1>7. m \in I /\ round[m] = m
  <2> HIDE DEF Recs, I, round, entry, rank
  <2> QED
    BY <1>1, <1>2, <1>3, <1>4, <1>5, <1>6, LimitFixed
<1>8. m \in Recs /\ Meeting(c, L, m) /\ Meet(m) = m
  BY <1>7
<1> QED
  BY <1>8, MeetTyped

\* What computeIntersections makes of the list.
LEMMA Intersected ==
    ASSUME NEW c \in SUBSET Objs, NEW L \in SUBSET SUBSET Objs, NEW R, R = computeIntersections(c, L)
    PROVE  /\ R \subseteq SUBSET (c \cup UNION L)
           /\ MadeUp(R, c) /\ \A d : MadeUp(L, d) => MadeUp(R, d)
           /\ Apart(L) /\ (Cardinality(c) = 1 => Singles(L)) => Apart(R)
           /\ Singles(L) /\ Cardinality(c) = 1 => Singles(R)
<1>1. CASE c \in L
  <2>1. R = L
    BY <1>1 DEF computeIntersections
  <2> QED
    BY <1>1, <2>1 DEF MadeUp
<1>2. CASE c \notin L /\ Cardinality(c) = 1
  <2>1. R = L \cup {c}
    BY <1>2 DEF computeIntersections
  <2>2. MadeUp(R, c) /\ \A d : MadeUp(L, d) => MadeUp(R, d)
    BY <2>1 DEF MadeUp
  <2>3. ASSUME Singles(L), NEW r \in L PROVE r \cap c = {}
    <3>1. IsFiniteSet(r) /\ IsFiniteSet(c) /\ Cardinality(r) = 1
      BY <2>3, ObjsFinite DEF Singles
    <3>2. (\E x : r = {x}) /\ \E x : c = {x}
      BY <1>2, <3>1, FS_Singleton
    <3> QED
      BY <1>2, <3>2
  <2>4. Singles(L) /\ Cardinality(c) = 1 => Singles(R)
    BY <2>1 DEF Singles
  <2>5. ASSUME Apart(L), Singles(L) PROVE Apart(R)
    BY <2>1, <2>3, <2>5 DEF Apart
  <2>6. R \subseteq SUBSET (c \cup UNION L)
    BY <2>1
  <2> QED
    BY <1>2, <2>2, <2>4, <2>5, <2>6
<1>3. CASE c \notin L /\ Cardinality(c) # 1
  <2> DEFINE m == MeetAll(c, L)
             kept == L \ m.gone
             left == {m.rest} \ {{}}
  <2>1. R = kept \cup m.new \cup left
    BY <1>3 DEF computeIntersections
  <2>2. m \in MeetRecs(c, L) /\ Meeting(c, L, m) /\ (m.rest = {} \/ m.todo = {})
    BY MeetAllEnds
  <2> HIDE DEF m
  <2>3. m.rest \subseteq c /\ m.gone \subseteq L /\ m.new \subseteq SUBSET UNION L
    BY <2>2 DEF MeetRecs
  <2>4. R \subseteq SUBSET (c \cup UNION L)
    BY <2>1, <2>3
  <2>5. ASSUME NEW o \in c PROVE \E x \in R : o \in x /\ x \subseteq c
    <3>1. CASE o \in m.rest
      <4>1. m.rest \in R
        BY <2>1, <3>1
      <4> QED
        BY <2>3, <3>1, <4>1
    <3>2. CASE \E x \in (L \ (m.todo \cup m.gone)) \cup m.new : o \in x /\ x \subseteq c
      BY <2>1, <3>2
    <3> QED
      BY <2>2, <3>1, <3>2 DEF Meeting
  <2>6. ASSUME NEW d, MadeUp(L, d), NEW o \in d PROVE \E x \in R : o \in x /\ x \subseteq d
    <3>1. PICK i \in L : o \in i /\ i \subseteq d
      BY <2>6 DEF MadeUp
    <3>2. CASE i \in m.gone
      <4>1. PICK x \in m.new : o \in x /\ x \subseteq i
        BY <2>2, <3>1, <3>2 DEF Meeting, MadeUp
      <4> QED
        BY <2>1, <3>1, <4>1
    <3>3. CASE i \notin m.gone
      BY <2>1, <3>1, <3>3
    <3> QED
      BY <3>2, <3>3
  <2>7. ASSUME Apart(L) PROVE Apart(R)
    <3>1. /\ Apart(m.new) /\ \A n \in m.new : n \cap m.rest = {} /\ \E g \in m.gone : n \subseteq g
          /\ \A i \in L \ m.todo : i \cap m.rest = {}
      BY <2>2, <2>7 DEF Meeting
    <3>2. ASSUME NEW i \in kept, NEW n \in m.new PROVE i \cap n = {}
      <4>1. PICK g \in m.gone : n \subseteq g
        BY <3>1
      <4>2. i \cap g = {}
        BY <2>3, <2>7 DEF Apart
      <4> QED
        BY <4>1, <4>2
    <3>3. ASSUME NEW i \in kept, m.rest # {} PROVE i \cap m.rest = {}
      BY <2>2, <3>1, <3>3
    <3>4. \A i, j \in kept : i = j \/ i \cap j = {}
      BY <2>7 DEF Apart
    <3>5. \A x \in left : x = m.rest /\ m.rest # {}
      OBVIOUS
    <3> HIDE DEF kept, left
    <3> SUFFICES ASSUME NEW r \in R, NEW s \in R PROVE r = s \/ r \cap s = {}
      BY DEF Apart
    <3>6. CASE r \in kept
      BY <2>1, <3>2, <3>3, <3>4, <3>5, <3>6
    <3>7. CASE r \in m.new
      <4>1. CASE s \in kept
        BY <3>2, <3>7, <4>1
      <4>2. CASE s \in m.new
        BY <3>1, <3>7, <4>2 DEF Apart
      <4>3. CASE s \in left
        BY <3>1, <3>5, <3>7, <4>3
      <4> QED
        BY <2>1, <4>1, <4>2, <4>3
    <3>8. CASE r \in left
      <4>1. r = m.rest /\ m.rest # {}
        BY <3>5, <3>8
      <4>2. CASE s \in kept
        BY <3>3, <4>1, <4>2
      <4>3. CASE s \in m.new
        BY <3>1, <4>1, <4>3
      <4>4. CASE s \in left
        BY <3>5, <4>1, <4>4
      <4> QED
        BY <2>1, <4>2, <4>3, <4>4
    <3> QED
      BY <2>1, <3>6, <3>7, <3>8
  <2> HIDE DEF kept, left
  <2> QED
    BY <1>3, <2>4, <2>5, <2>6, <2>7 DEF MadeUp
<1> QED
  BY <1>1, <1>2, <1>3

AddRecs(S, L) == [todo : SUBSET S, done : SUBSET SUBSET UNION (S \cup L)]

\* The loop over the points-to sets of a function: singletons come first, and then no
\* intersection has more than one object.
Adding(S, L, a) ==
    /\ \A c \in S \ a.todo : MadeUp(a.done, c)
    /\ \A d : MadeUp(L, d) => MadeUp(a.done, d)
    /\ L = {} /\ {} \notin S =>
          Apart(a.done) /\ ((\E c \in a.todo : Cardinality(c) = 1) => Singles(a.done))

LEMMA AddTyped ==
    ASSUME NEW S \in SUBSET SUBSET Objs, NEW L \in SUBSET SUBSET Objs, NEW a \in AddRecs(S, L), a.todo # {}
    PROVE  LET c == Smallest(a.todo)
           IN  /\ c \in a.todo /\ c \in SUBSET Objs /\ a.done \in SUBSET SUBSET Objs
               /\ AddNext(a) = [todo |-> a.todo \ {c}, done |-> computeIntersections(c, a.done)]
               /\ AddNext(a) \in AddRecs(S, L)
<1> DEFINE c == Smallest(a.todo)
           U == UNION (S \cup L)
           R == computeIntersections(c, a.done)
<1>1. a.todo \subseteq S /\ a.done \subseteq SUBSET U
  BY DEF AddRecs
<1>2. c \in a.todo /\ c \in S
  BY <1>1, SmallestIn
<1>3. AddNext(a) = [todo |-> a.todo \ {c}, done |-> R]
  BY DEF AddNext
<1> HIDE DEF c
<1>4. c \in SUBSET Objs /\ c \subseteq U /\ U \subseteq Objs
  BY <1>2
<1>5. a.done \in SUBSET SUBSET Objs
  BY <1>1, <1>4
<1>6. R \subseteq SUBSET (c \cup UNION a.done)
  BY <1>4, <1>5, Intersected
<1>7. c \cup UNION a.done \subseteq U
  BY <1>1, <1>4
<1> HIDE DEF R, U
<1>8. R \subseteq SUBSET U
  BY <1>6, <1>7
<1>9. [todo |-> a.todo \ {c}, done |-> R] \in AddRecs(S, L)
  BY <1>1, <1>8 DEF AddRecs, U
<1> QED
  BY <1>2, <1>3, <1>4, <1>5, <1>9 DEF R, c

LEMMA AddKeeps ==
    ASSUME NEW S \in SUBSET SUBSET Objs, NEW L \in SUBSET SUBSET Objs, NEW a \in AddRecs(S, L), a.todo # {},
           Adding(S, L, a)
    PROVE  Adding(S, L, AddNext(a))
<1> DEFINE c == Smallest(a.todo)
           R == computeIntersections(c, a.done)
           b == AddNext(a)
<1>1. /\ c \in a.todo /\ c \in SUBSET Objs /\ a.done \in SUBSET SUBSET Objs
      /\ b = [todo |-> a.todo \ {c}, done |-> R] /\ a.todo \subseteq S
  BY AddTyped DEF AddRecs
<1>2. \A d \in a.todo : Cardinality(c) <= Cardinality(d)
  BY <1>1, SmallestIn DEF AddRecs
<1>3. b.todo = a.todo \ {c} /\ b.done = R
  BY <1>1
<1> HIDE DEF c, b
<1>4. /\ MadeUp(R, c) /\ \A d : MadeUp(a.done, d) => MadeUp(R, d)
      /\ Apart(a.done) /\ (Cardinality(c) = 1 => Singles(a.done)) => Apart(R)
      /\ Singles(a.done) /\ Cardinality(c) = 1 => Singles(R)
  <2> DEFINE old == a.done
  <2>1. R = computeIntersections(c, old) /\ old \in SUBSET SUBSET Objs
    BY <1>1
  <2> HIDE DEF R, old
  <2>2. /\ MadeUp(R, c) /\ \A d : MadeUp(old, d) => MadeUp(R, d)
        /\ Apart(old) /\ (Cardinality(c) = 1 => Singles(old)) => Apart(R)
        /\ Singles(old) /\ Cardinality(c) = 1 => Singles(R)
    BY <1>1, <2>1, Intersected
  <2> QED
    BY <2>2 DEF old
<1> HIDE DEF R
<1>5. (\A d \in S \ b.todo : MadeUp(b.done, d)) /\ \A d : MadeUp(L, d) => MadeUp(b.done, d)
  BY <1>3, <1>4 DEF Adding
<1>6. ASSUME L = {}, {} \notin S
      PROVE  Apart(b.done) /\ ((\E d \in b.todo : Cardinality(d) = 1) => Singles(b.done))
  <2>1. Apart(a.done) /\ ((\E d \in a.todo : Cardinality(d) = 1) => Singles(a.done))
    BY <1>6 DEF Adding
  <2>2. Apart(R)
    BY <1>1, <1>4, <2>1
  <2>3. ASSUME NEW d \in b.todo, Cardinality(d) = 1 PROVE Singles(R)
    <3>1. d \in a.todo /\ Cardinality(c) \in Nat /\ Cardinality(c) <= 1
      BY <1>1, <1>2, <1>3, <2>3, ObjsFinite
    <3>2. Cardinality(c) # 0
      BY <1>1, <1>6, ObjsFinite, FS_EmptySet
    <3>3. Cardinality(c) = 1
      BY <3>1, <3>2
    <3> QED
      BY <1>4, <2>1, <2>3, <3>1, <3>3
  <2> QED
    BY <1>3, <2>2, <2>3
<1>7. Adding(S, L, b)
  BY <1>5, <1>6 DEF Adding
<1> QED
  BY <1>7 DEF b

LEMMA AllAdded ==
    ASSUME NEW S \in SUBSET SUBSET Objs, NEW L \in SUBSET SUBSET Objs, NEW R, R = AddAll(S, L)
    PROVE  /\ R \subseteq SUBSET UNION (S \cup L)
           /\ (\A c \in S : MadeUp(R, c)) /\ \A d : MadeUp(L, d) => MadeUp(R, d)
           /\ L = {} /\ {} \notin S => Apart(R)
<1> DEFINE Recs == AddRecs(S, L)
           I == {x \in Recs : Adding(S, L, x)}
           round == [x \in Recs |-> AddNext(x)]
           entry == [todo |-> S, done |-> L]
           rank == [x \in Recs |-> S \ x.todo]
           a == Limit(round, entry)
<1>1. R = a.done
  BY DEF AddAll, AddRecs
<1>2. ASSUME NEW x \in Recs PROVE AddNext(x) \in Recs /\ (x.todo = {} => AddNext(x) = x)
  <2>1. x.todo = {} => AddNext(x) = x
    BY DEF AddNext
  <2>2. x.todo # {} => AddNext(x) \in Recs
    BY AddTyped
  <2> QED
    BY <2>1, <2>2
<1>3. ASSUME NEW x \in Recs, x.todo # {}
      PROVE  AddNext(x).todo \subseteq x.todo /\ AddNext(x).todo # x.todo
  <2> DEFINE c == Smallest(x.todo)
             next == computeIntersections(c, x.done)
  <2>1. c \in x.todo /\ AddNext(x) = [todo |-> x.todo \ {c}, done |-> next]
    BY <1>3, AddTyped
  <2> HIDE DEF c, next
  <2> QED
    BY <2>1
<1>4. round \in [Recs -> Recs]
  BY <1>2
<1>5. rank \in [Recs -> SUBSET S] /\ IsFiniteSet(S)
  <2>1. IsFiniteSet(S)
    BY ObjsFinite, FS_SUBSET, FS_Subset
  <2> HIDE DEF Recs
  <2> QED
    BY <2>1
<1>6. Grows(round, rank, Recs)
  <2> SUFFICES ASSUME NEW x \in Recs, AddNext(x) # x
               PROVE  S \ x.todo \subseteq S \ AddNext(x).todo /\ S \ x.todo # S \ AddNext(x).todo
    BY <1>4 DEF Grows
  <2>1. AddNext(x).todo \subseteq x.todo /\ AddNext(x).todo # x.todo
    BY <1>2, <1>3
  <2>2. x.todo \subseteq S
    BY DEF AddRecs
  <2> QED
    BY <2>1, <2>2
<1>7. entry \in I
  <2>1. entry \in Recs
    BY DEF AddRecs
  <2>2. Adding(S, L, entry)
    BY DEF Adding, Apart, Singles
  <2> QED
    BY <2>1, <2>2
<1>8. I \in SUBSET Recs /\ Stays(round, I)
  <2>1. ASSUME NEW x \in I PROVE AddNext(x) \in I
    <3>1. x \in Recs /\ Adding(S, L, x) /\ AddNext(x) \in Recs
      BY <1>2
    <3> QED
      BY <1>2, <3>1, AddKeeps
  <2> QED
    BY <2>1 DEF Stays
<1>9. a \in I /\ round[a] = a
  <2> HIDE DEF Recs, I, round, entry, rank
  <2> QED
    BY <1>4, <1>5, <1>6, <1>7, <1>8, LimitFixed
<1> HIDE DEF a
<1>10. a \in Recs /\ Adding(S, L, a) /\ AddNext(a) = a
  BY <1>9
<1>11. a.todo = {}
  BY <1>3, <1>10
<1> QED
  BY <1>1, <1>10, <1>11 DEF Adding, AddRecs

\* The loop over the functions.
OrderRecs(n, U) == [at : 0 .. n, inters : SUBSET SUBSET U]

LEMMA InterMadeUp ==
    ASSUME NEW F, IsFiniteSet(F), NEW cptsOf \in [F -> SUBSET SUBSET Objs], NEW order \in Orders(F),
           NEW f \in F, NEW c \in cptsOf[f]
    PROVE  MadeUp(InterDisjoint(cptsOf, order).inters[f], c)
<1> DEFINE n == Cardinality(F)
           U == UNION {UNION cptsOf[g] : g \in F}
           Recs == OrderRecs(n, U)
           Done(s) == \A k \in 1 .. s.at : \A d \in cptsOf[order[k]] : MadeUp(s.inters, d)
           I == {s \in Recs : Done(s)}
           next(s) == NextFunction(cptsOf, order, s)
           round == [s \in Recs |-> next(s)]
           entry == [at |-> 0, inters |-> {}]
           rank == [s \in Recs |-> 1 .. s.at]
           last == Limit(round, entry)
<1>1. DOMAIN cptsOf = F /\ n \in Nat /\ order \in [1 .. n -> F] /\ U \subseteq Objs
  BY FS_CardinalityType DEF Orders
<1>2. InterDisjoint(cptsOf, order).inters[f] = last.inters
  BY <1>1 DEF InterDisjoint, OrderRecs
<1>3. \E k \in 1 .. n : order[k] = f
  <2>1. order \in Injection(1 .. n, F)
    BY <1>1 DEF Orders, Injection, IsInjective
  <2>2. IsFiniteSet(1 .. n) /\ Cardinality(1 .. n) = n
    BY <1>1, FS_Interval
  <2> HIDE DEF n
  <2>3. order \in Surjection(1 .. n, F)
    BY <2>1, <2>2, FS_Injection DEF n
  <2> QED
    BY <2>3 DEF Surjection
<1> HIDE DEF n
<1>4. ASSUME NEW s \in Recs, s.at # n
      PROVE  /\ next(s) = [at |-> s.at + 1, inters |-> AddAll(cptsOf[order[s.at + 1]], s.inters)]
             /\ next(s) \in Recs
             /\ s.at + 1 \in 1 .. n /\ s.inters \in SUBSET SUBSET Objs /\ cptsOf[order[s.at + 1]] \in SUBSET SUBSET Objs
  <2> DEFINE k == s.at + 1
             S == cptsOf[order[k]]
             R == AddAll(S, s.inters)
  <2>1. s.at \in 0 .. n /\ s.inters \subseteq SUBSET U
    BY DEF OrderRecs
  <2>2. k \in 1 .. n
    BY <1>1, <1>4, <2>1
  <2> HIDE DEF k
  <2>3. order[k] \in F /\ S \in SUBSET SUBSET Objs /\ S \subseteq SUBSET U
    BY <1>1, <2>2
  <2>4. s.inters \in SUBSET SUBSET Objs
    BY <1>1, <2>1
  <2> HIDE DEF S
  <2>5. R \subseteq SUBSET UNION (S \cup s.inters)
    <3> DEFINE L == s.inters
    <3>1. R = AddAll(S, L) /\ L \in SUBSET SUBSET Objs
      BY <2>4
    <3> HIDE DEF R, L
    <3>2. S \in SUBSET SUBSET Objs
      BY <2>3
    <3>3. R \subseteq SUBSET UNION (S \cup L)
      BY <3>1, <3>2, AllAdded
    <3> QED
      BY <3>3 DEF L
  <2>6. UNION (S \cup s.inters) \subseteq U
    BY <2>1, <2>3
  <2> HIDE DEF R, U
  <2>7. R \subseteq SUBSET U
    BY <2>5, <2>6
  <2>8. [at |-> k, inters |-> R] \in Recs
    BY <1>1, <2>2, <2>7 DEF OrderRecs
  <2>9. next(s) = [at |-> k, inters |-> R]
    BY <1>1, <1>4 DEF NextFunction, k, R, S, n
  <2> HIDE DEF next, Recs
  <2> QED
    BY <2>2, <2>3, <2>4, <2>8, <2>9 DEF k, R, S
<1>5. ASSUME NEW s \in Recs, s.at = n PROVE next(s) = s
  BY <1>1, <1>5 DEF NextFunction, n
<1> HIDE DEF next, U
<1>6. round \in [Recs -> Recs]
  BY <1>4, <1>5
<1>7. rank \in [Recs -> SUBSET (1 .. n)] /\ IsFiniteSet(1 .. n)
  <2>1. IsFiniteSet(1 .. n)
    BY <1>1, FS_Interval
  <2>2. \A s \in Recs : 1 .. s.at \in SUBSET (1 .. n)
    BY <1>1 DEF OrderRecs
  <2> HIDE DEF Recs
  <2> QED
    BY <2>1, <2>2
<1>8. Grows(round, rank, Recs)
  <2> SUFFICES ASSUME NEW s \in Recs, next(s) # s
               PROVE  1 .. s.at \subseteq 1 .. next(s).at /\ 1 .. s.at # 1 .. next(s).at
    BY <1>6 DEF Grows
  <2>1. next(s).at = s.at + 1 /\ s.at \in Nat
    BY <1>1, <1>4, <1>5 DEF OrderRecs
  <2>2. s.at + 1 \in 1 .. (s.at + 1) /\ s.at + 1 \notin 1 .. s.at
    BY <2>1
  <2> QED
    BY <2>1, <2>2
<1>9. entry \in I
  BY <1>1 DEF OrderRecs
<1>10. I \in SUBSET Recs /\ Stays(round, I)
  <2>1. ASSUME NEW s \in I PROVE next(s) \in I
    <3>1. s \in Recs /\ Done(s)
      OBVIOUS
    <3>2. CASE s.at = n
      BY <1>5, <3>1, <3>2
    <3>3. CASE s.at # n
      <4> DEFINE t == next(s)
      <4>1. /\ t.at = s.at + 1 /\ t.inters = AddAll(cptsOf[order[s.at + 1]], s.inters) /\ t \in Recs
            /\ s.inters \in SUBSET SUBSET Objs /\ cptsOf[order[s.at + 1]] \in SUBSET SUBSET Objs
        BY <1>4, <3>1, <3>3
      <4> HIDE DEF t
      <4>2. /\ \A d \in cptsOf[order[s.at + 1]] : MadeUp(t.inters, d)
            /\ \A d : MadeUp(s.inters, d) => MadeUp(t.inters, d)
        <5> DEFINE S == cptsOf[order[s.at + 1]]
                   L == s.inters
                   R == t.inters
        <5>1. R = AddAll(S, L) /\ S \in SUBSET SUBSET Objs /\ L \in SUBSET SUBSET Objs
          BY <4>1
        <5> HIDE DEF S, L, R
        <5>2. (\A d \in S : MadeUp(R, d)) /\ \A d : MadeUp(L, d) => MadeUp(R, d)
          BY <5>1, AllAdded
        <5> QED
          BY <5>2 DEF S, L, R
      <4>3. s.at \in Nat
        BY <1>1, <3>1 DEF OrderRecs
      <4>4. ASSUME NEW k \in 1 .. t.at PROVE k \in 1 .. s.at \/ k = s.at + 1
        BY <4>1, <4>3
      <4>5. Done(t)
        BY <3>1, <4>2, <4>4
      <4> HIDE DEF Done
      <4> QED
        BY <4>1, <4>5 DEF t
    <3> QED
      BY <3>2, <3>3
  <2> QED
    BY <2>1 DEF Stays
<1>11. last \in I /\ round[last] = last
  <2> HIDE DEF Recs, I, round, entry, rank
  <2> QED
    BY <1>6, <1>7, <1>8, <1>9, <1>10, LimitFixed
<1> HIDE DEF last
<1>12. last \in Recs /\ Done(last) /\ next(last) = last
  BY <1>11
<1>13. last.at = n
  <2> SUFFICES ASSUME last.at # n PROVE FALSE
    OBVIOUS
  <2>1. next(last).at = last.at + 1 /\ last.at \in Nat
    BY <1>1, <1>4, <1>12 DEF OrderRecs
  <2> QED
    BY <1>12, <2>1
<1> QED
  BY <1>2, <1>3, <1>12, <1>13

LEMMA PtsOfFunction ==
    ASSUME MrInv, NEW f \in prog.funs
    PROVE  CptsOf(f) \in SUBSET SUBSET Objs /\ {} \notin CptsOf(f)
<1>1. \A x \in Accesses(prog, f) : x.pts \subseteq Objs
  BY ModRefAssumption DEF MrInv, MrType, Accesses
<1>2. ASSUME NEW s \in SitesOf(prog, f) PROVE ModsAt(s) \subseteq Objs /\ Objects("ref", s) \subseteq Objs
  <2>1. s \in Sites(prog)
    BY DEF Sites
  <2>2. atSite[s] \subseteq Effects
    BY <2>1 DEF MrInv, MrType
  <2> QED
    BY <2>2 DEF ModsAt, Objects, Effects
<1> QED
  BY <1>1, <1>2 DEF CptsOf

LEMMA PartitionSplits == MrInv /\ partitionMRs => RegionsSplit'
<1> SUFFICES ASSUME MrInv, partitionMRs PROVE RegionsSplit'
  OBVIOUS
<1> DEFINE cptsOf == [f \in prog.funs |-> CptsOf(f)]
<1>1. /\ \/ prog.memPar = "distinct" /\ parts' = Distinct(cptsOf)
         \/ prog.memPar = "intra-disjoint" /\ parts' = IntraDisjoint(cptsOf)
         \/ prog.memPar = "inter-disjoint" /\ \E order \in Orders(prog.funs) : parts' = InterDisjoint(cptsOf, order)
      /\ prog' = prog /\ atSite' = atSite
  BY DEF partitionMRs, effectVars
<1>2. \A f : CptsOf(f)' = CptsOf(f)
  BY <1>1 DEF CptsOf, ModsAt, Objects
<1>3. /\ cptsOf \in [prog.funs -> SUBSET SUBSET Objs] /\ IsFiniteSet(prog.funs) /\ DOMAIN cptsOf = prog.funs
      /\ \A f \in prog.funs : cptsOf[f] = CptsOf(f) /\ {} \notin cptsOf[f]
  BY PtsOfFunction, ProgramFacts, GraphsAssumption, FS_Subset DEF MrInv, MrType
<1> HIDE DEF cptsOf
<1>4. ASSUME NEW f \in prog.funs
      PROVE  /\ \A c \in cptsOf[f] : MadeUp(parts'.inters[f], c)
             /\ prog.memPar # "inter-disjoint" => Apart(parts'.regions[f])
  <2>1. CASE prog.memPar = "distinct" /\ parts' = Distinct(cptsOf)
    <3> DEFINE single == {{o} : o \in UNION cptsOf[f]}
    <3>1. parts'.inters[f] = single /\ parts'.regions[f] = single
      BY <1>3, <2>1 DEF Distinct
    <3>2. ASSUME NEW c \in cptsOf[f], NEW o \in c PROVE \E x \in single : o \in x /\ x \subseteq c
      <4>1. {o} \in single /\ o \in {o} /\ {o} \subseteq c
        OBVIOUS
      <4> HIDE DEF single
      <4> QED
        BY <4>1
    <3>3. Apart(single)
      BY DEF Apart
    <3> HIDE DEF single
    <3> QED
      BY <3>1, <3>2, <3>3 DEF MadeUp
  <2>2. CASE prog.memPar = "intra-disjoint" /\ parts' = IntraDisjoint(cptsOf)
    <3> DEFINE L == AddAll(cptsOf[f], {})
    <3>1. parts'.inters[f] = L /\ parts'.regions[f] = L
      BY <1>3, <2>2 DEF IntraDisjoint
    <3>2. cptsOf[f] \in SUBSET SUBSET Objs /\ {} \notin cptsOf[f] /\ {} \in SUBSET SUBSET Objs
      BY <1>3
    <3>3. (\A c \in cptsOf[f] : MadeUp(L, c)) /\ Apart(L)
      <4> DEFINE E == {}
      <4>1. L = AddAll(cptsOf[f], E) /\ E = {} /\ E \in SUBSET SUBSET Objs
        BY <3>2
      <4> HIDE DEF L, E
      <4> QED
        BY <3>2, <4>1, AllAdded
    <3> QED
      BY <3>1, <3>3
  <2>3. CASE prog.memPar = "inter-disjoint" /\ \E order \in Orders(prog.funs) : parts' = InterDisjoint(cptsOf, order)
    BY <1>3, <2>3, InterMadeUp
  <2> QED
    BY <1>1, <2>1, <2>2, <2>3
<1>5. ASSUME NEW f \in prog.funs, NEW c \in CptsOf(f) PROVE UNION {r \in parts'.inters[f] : r \subseteq c} = c
  <2>1. MadeUp(parts'.inters[f], c)
    BY <1>3, <1>4
  <2> QED
    BY <2>1 DEF MadeUp
<1> QED
  BY <1>1, <1>2, <1>3, <1>4, <1>5 DEF RegionsSplit, Within, Apart

\* The points-to sets and their parts stay as they are.
LEMMA PartsSame ==
    ASSUME RegionsSplit, phase' = "ssa" => phase = "ssa" /\ parts' = parts /\ prog' = prog /\ atSite' = atSite
    PROVE  RegionsSplit'
<1> SUFFICES ASSUME phase' = "ssa" PROVE RegionsSplit'
  BY DEF RegionsSplit
<1>1. phase = "ssa" /\ parts' = parts /\ prog' = prog /\ atSite' = atSite
  OBVIOUS
<1>2. /\ \A f : CptsOf(f)' = CptsOf(f)
      /\ \A c, f : Within(c, f)' = Within(c, f)
  BY <1>1 DEF CptsOf, ModsAt, Objects, Within
<1> QED
  BY <1>1, <1>2 DEF RegionsSplit

LEMMA RegionsNext == MrInv /\ RegionsSplit /\ runNext => RegionsSplit'
<1> SUFFICES ASSUME MrInv, RegionsSplit, runNext PROVE RegionsSplit'
  OBVIOUS
<1>1. CASE ssaNext
  <2>1. CASE mrNext /\ parts' = parts
    BY <2>1, PartsSame
       DEF mrNext, Ask, Chase, Answer, FindComponents, collectModRefForLoadStore, CollectCallSitePts, StartModRef,
           PopNode, ModRefOfCallee, HandleCallSite, effectVars
  <2>2. CASE partitionMRs
    BY <2>2, PartitionSplits
  <2>3. CASE BuildMemSSA
    BY <2>3, PartsSame
       DEF BuildMemSSA, createMUCHI, insertPHI, SSARename, RenameChild, LeaveBlock, mrVars, effectVars
  <2> QED
    BY <1>1, <2>1, <2>2, <2>3 DEF ssaNext, GenerateMRs
<1>2. CASE buildSVFG \/ updateCallGraph \/ StartRun
  BY <1>2, PartsSame DEF buildSVFG, updateCallGraph, StartRun
<1>3. CASE OptimiseSVFG
  BY <1>3, PartsSame
     DEF OptimiseSVFG, retargetEdgesOfAInFOut, RemoveCandidate, initialWorkList, RemovePhi, connectOptimised,
         memVars, mrVars, effectVars
<1>4. CASE Run
  BY <1>4, PartsSame DEF Run, Load, Store, CallExternal, Call, Jump, ReturnToCaller, memVars, mrVars, effectVars
<1> QED
  BY <1>1, <1>2, <1>3, <1>4 DEF runNext, Analyse

\* With every way to divide them: the points-to set of each load, store and call is made
\* up of intersections, so no object of it is missed, whatever the order in which sets of
\* one size, and functions, are taken; and the regions of a function do not
\* overlap, unless functions share them.
THEOREM RegionsSplitAlways == runSpec => []RegionsSplit
<1>1. runInit => MrInv /\ RegionsSplit
  BY InitMrInv DEF runInit, optInit, svfgInit, ssaInit, mrInit, RegionsSplit
<1>2. MrInv /\ RegionsSplit /\ [runNext]_vars => MrInv' /\ RegionsSplit'
  <2>1. CASE UNCHANGED vars
    BY <2>1, MrUnchanged, PartsSame DEF vars, memVars, mrVars, effectVars
  <2> QED
    BY <2>1, RunNextPreserves, RegionsNext
<1> QED
  BY <1>1, <1>2, PTL DEF runSpec
=============================================================================
