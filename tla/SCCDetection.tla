---------------------------- MODULE SCCDetection ----------------------------
(***************************************************************************)
(* Nuutila's strongly connected components, svf/include/Graphs/SCC.h: what *)
(* Andersen's solver merges cycles by, and what the call graph and the     *)
(* value-flow graph analyses order their nodes by.                         *)
(*                                                                         *)
(* The recursion of visit() is the stack `path' of frames [node, todo]:    *)
(* the node and the children its loop has not finished with.  The order of *)
(* nodes and children is that of their ids and edges, so any order here.   *)
(***************************************************************************)
EXTENDS Naturals, Sequences, FiniteSets, Digraphs

CONSTANTS Nodes,    \* node ids
          Graphs    \* the graphs looked at, sets of edges <<src, dst>>

ASSUME GraphsAssumption == IsFiniteSet(Nodes) /\ Graphs \subseteq SUBSET (Nodes \X Nodes)

VARIABLES
    edges,     \* _graph, its direct edges
    start,     \* the nodes find() starts from: all, or the candidates
    info,      \* _NodeSCCAuxInfo and repNodes: [rep, subNodes, repNodes]
    inSCC,     \* nodes whose component is complete
    D,         \* visit number of a node, 0 when it is not visited
    SS,        \* finished nodes that are not the root of their component
    T,         \* topoNodeStack(), its top is the last element
    path,      \* the recursion of visit()
    pc         \* "idle", "find" or "done"

sccVars == <<edges, start, info, inSCC, D, SS, T, path, pc>>

Visited     == {n \in Nodes : D[n] # 0}
Children(n) == {e[2] : e \in {f \in edges : f[1] = n}}

(***************************************************************************)
(* rep(n, r) for all nodes n of ns.  A node that is not its own            *)
(* representative has no sub-nodes, and only representatives of others get *)
(* into repNodes.                                                          *)
(***************************************************************************)
NoInfo == [rep |-> [n \in Nodes |-> n], subNodes |-> [n \in Nodes |-> {}], repNodes |-> {}]

\* Mutant: a node that gets another representative keeps its sub-nodes.
SetRepKeep(ns, r, s) ==
    [rep      |-> [n \in Nodes |-> IF n \in ns THEN r ELSE s.rep[n]],
     subNodes |-> [n \in Nodes |-> IF n = r THEN s.subNodes[n] \cup ns ELSE s.subNodes[n]],
     repNodes |-> IF ns \subseteq {r} THEN s.repNodes ELSE (s.repNodes \ ns) \cup {r}]

SetRep(ns, r, s) ==
    [rep      |-> [n \in Nodes |-> IF n \in ns THEN r ELSE s.rep[n]],
     subNodes |-> [n \in Nodes |-> IF n = r THEN s.subNodes[n] \cup ns
                                   ELSE IF n \in ns THEN {} ELSE s.subNodes[n]],
     repNodes |-> IF ns \subseteq {r} THEN s.repNodes ELSE (s.repNodes \ ns) \cup {r}]

\* Mutant: the topological stack of the last run is not emptied.
ClearKeepT ==
    /\ info' = NoInfo
    /\ inSCC' = {}
    /\ D' = [n \in Nodes |-> 0]
    /\ SS' = <<>> /\ UNCHANGED T

(***************************************************************************)
(* find() on the graph as it is now: clear(), then visit every node that   *)
(* is not visited yet.                                                     *)
(***************************************************************************)
Clear ==
    /\ info' = NoInfo
    /\ inSCC' = {}
    /\ D' = [n \in Nodes |-> 0]
    /\ SS' = <<>> /\ T' = <<>>

Find(cs, E) ==
    /\ pc \in {"idle", "done"}
    /\ Clear
    /\ edges' = E /\ start' = cs
    /\ pc' = "find"
    /\ UNCHANGED path

\* The beginning of visit(v), called with the frames `callers' on the stack.
Enter(v, callers) ==
    /\ D' = [D EXCEPT ![v] = Cardinality(Visited) + 1]
    /\ info' = SetRep({v}, v, info)
    /\ path' = Append(callers, [node |-> v, todo |-> Children(v)])
    /\ UNCHANGED <<edges, start, inSCC, SS, T, pc>>

VisitRoot ==
    /\ pc = "find" /\ path = <<>>
    /\ \E v \in start \ Visited : Enter(v, path)

Top        == path[Len(path)]
Callers    == SubSeq(path, 1, Len(path) - 1)
Handled(w, callers) == [callers EXCEPT ![Len(callers)].todo = @ \ {w}]

\* The loop of visit() meets a child that was not visited.
VisitChild ==
    /\ path # <<>>
    /\ \E w \in Top.todo \ Visited : Enter(w, path)

(***************************************************************************)
(* The end of the loop body: when w belongs to no complete component, v    *)
(* takes the earlier of the two representatives.                           *)
(***************************************************************************)
Earlier(s, v, w) == IF D[s.rep[v]] < D[s.rep[w]] THEN s.rep[v] ELSE s.rep[w]
Compare(s, v, w, complete) == IF w \in complete THEN s ELSE SetRep({v}, Earlier(s, v, w), s)

CompareChild ==
    /\ path # <<>>
    /\ \E w \in Top.todo \cap Visited :
          /\ info' = Compare(info, Top.node, w, inSCC)
          /\ path' = Handled(w, path)
    /\ UNCHANGED <<edges, start, inSCC, D, SS, T, pc>>

\* Mutant: a root takes everything that is on SS.
MembersAll(v) == {SS[i] : i \in 1 .. Len(SS)}

(***************************************************************************)
(* The end of visit(v), and of the loop body of its caller.  The root of a *)
(* component takes the nodes visited after it from SS.                     *)
(***************************************************************************)
Members(v) == {SS[i] : i \in {j \in 1 .. Len(SS) : \A k \in j .. Len(SS) : D[SS[k]] > D[v]}}

Return ==
    /\ path # <<>> /\ Top.todo = {}
    /\ LET v      == Top.node
           isRoot == info.rep[v] = v
           ms     == IF isRoot THEN Members(v) ELSE {}
           s      == IF isRoot THEN SetRep(ms \cup {v}, v, info) ELSE info
       IN  /\ inSCC' = IF isRoot THEN inSCC \cup ms \cup {v} ELSE inSCC
           /\ SS' = IF isRoot THEN SubSeq(SS, 1, Len(SS) - Cardinality(ms)) ELSE Append(SS, v)
           /\ T' = IF isRoot THEN Append(T, v) ELSE T
           /\ IF Callers = <<>>
                THEN info' = s /\ path' = Callers
                ELSE /\ info' = Compare(s, Callers[Len(Callers)].node, v, inSCC')
                     /\ path' = Handled(v, Callers)
    /\ UNCHANGED <<edges, start, D, pc>>

Finish ==
    /\ pc = "find" /\ path = <<>> /\ start \subseteq Visited
    /\ pc' = "done"
    /\ UNCHANGED <<edges, start, info, inSCC, D, SS, T, path>>

sccInit ==
    /\ edges \in Graphs
    /\ start = {} /\ info = NoInfo /\ inSCC = {} /\ D = [n \in Nodes |-> 0]
    /\ SS = <<>> /\ T = <<>> /\ path = <<>>
    /\ pc = "idle"

Detect == VisitRoot \/ VisitChild \/ CompareChild \/ Return \/ Finish

\* The graph may have changed since the last detection; bound: by one edge.
Changed == Graphs \cap ({edges} \cup UNION {{edges \cup {e}, edges \ {e}} : e \in Nodes \X Nodes})

Next == (\E cs \in SUBSET Nodes \ {{}}, E \in Changed : Find(cs, E)) \/ Detect

Spec == sccInit /\ [][Next]_sccVars

-----------------------------------------------------------------------------
(***************************************************************************)
(* What clients read from the result.                                      *)
(***************************************************************************)
repNode(n)  == info.rep[n]
subNodes(n) == info.subNodes[n]
isInCycle(n) == Cardinality(subNodes(repNode(n))) > 1 \/ <<repNode(n), repNode(n)>> \in edges

\* The queue revTopoNodeStack() makes of T: popped from the top, pushed at the back.
revTopoNodeStack == [i \in 1 .. Len(T) |-> T[Len(T) + 1 - i]]

-----------------------------------------------------------------------------
Reach == [E \in Graphs |-> Closure(E, Nodes)]
Together(m, n) == m = n \/ (<<m, n>> \in Reach[edges] /\ <<n, m>> \in Reach[edges])
Component(n)   == {m \in Nodes : Together(m, n)}

\* A component is declared complete only when it is one, and never before all it
\* can reach is complete: the pop loop of visit() stops at the right node.
CompleteComponents ==
    \A n \in inSCC :
        /\ Children(n) \subseteq inSCC
        /\ \A m \in Nodes : m \in inSCC /\ info.rep[m] = info.rep[n] <=> Together(m, n)

\* At the end all nodes reached are in complete components, subNodes() of a
\* representative is its component, and repNodes holds the representatives of the
\* components with several nodes; isInCycle() is right for each of them.
ResultExact ==
    pc = "done" =>
        /\ Visited = inSCC /\ inSCC = ReachedFrom(start, Reach[edges])
        /\ \A n \in Visited : subNodes(n) = IF repNode(n) = n THEN Component(n) ELSE {}
        /\ info.repNodes = {n \in Visited : repNode(n) = n /\ Component(n) # {n}}
        /\ \A n \in Visited : isInCycle(n) <=> <<n, n>> \in Reach[edges]

\* Components are right when they are completed and when the detection ends, also
\* when the detector is used again on a graph that has changed.
ComponentsExact == CompleteComponents /\ ResultExact

\* Read from the top, topoNodeStack() lists every representative once, sources
\* first: Andersen's solver processes a node before all it propagates to.
TopoOrder ==
    pc = "done" =>
        /\ {T[i] : i \in 1 .. Len(T)} = {repNode(n) : n \in Visited}
        /\ \A i, j \in 1 .. Len(T) : i < j => T[i] # T[j] /\ <<T[i], T[j]>> \notin Reach[edges]
=============================================================================
