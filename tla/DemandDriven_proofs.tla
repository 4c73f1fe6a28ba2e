------------------------ MODULE DemandDriven_proofs ------------------------
(***************************************************************************)
(* What demand-driven queries find is within the flow-sensitive solution,  *)
(* whatever is asked, in whatever order and however often it is computed   *)
(* again.  A frame holds what its result may be made from; the invariant   *)
(* is that none of it goes beyond a bound that is closed under the steps   *)
(* of a query.  The flow-sensitive solution is one such bound and, as only *)
(* Andersen's answer may be added to a cache when a query gives up,         *)
(* Andersen's solution is another.                                         *)
(*                                                                         *)
(* The second part is that answers lack nothing: whatever an item was      *)
(* computed from, a frame will compute it again if that has grown since.   *)
(***************************************************************************)
EXTENDS DemandDriven, ValueFlowProblem_proofs

(***************************************************************************)
(* The items that are asked for, and the frames of the calls under way.    *)
(***************************************************************************)
Askable == {d \in NodesOf(g) \X (Vars \cup Objs) :
              IF isTopLevelPtrStmt(d[1]) THEN d[2] = getLHSTopLevPtr(d[1]) ELSE d[2] \in Objs}

Stages    == {"query", "funptr", "pointer", "value", "edges", "calls", "uses"}
EdgeKinds == {"call", "direct", "indirect"}
Frames    == [item : Askable, stage : Stages, todo : SUBSET Askable,
              rest : SUBSET (Objs \cup (NodesOf(g) \X EdgeKinds)),
              base : SUBSET Objs, val : SUBSET Objs]

\* Each call is one the frame below it has still to make.
Chained(s) == \A i \in 1 .. Len(s) - 1 : s[i].item \in s[i + 1].todo

\* What is at the bottom is the query, or the computation its fallback starts.
Founded(s, out) ==
    s # <<>> => s[Len(s)].stage \in {"query", "calls", "uses"} /\ (s[Len(s)].stage # "query" => out)

Shape ==
    /\ prog \in DOMAIN Programs
    /\ pts \in [Vars -> SUBSET Objs]
    /\ dpmToADCPtSetMap \in [{n \in NodesOf(g) : ~isTopLevelPtrStmt(n)} \X Objs -> SUBSET Objs]
    /\ locToDpmSetMap \subseteq Askable
    /\ called \subseteq g.calls /\ callGraphSCC \subseteq called
    /\ stack \in Seq(Frames) /\ Chained(stack) /\ Founded(stack, outOfBudgetQuery)
    /\ stack = <<>> /\ outOfBudgetQuery => outOfBudgetDpms # {}

(***************************************************************************)
(* A bound is a set for every item.  CallsOf are the calls it resolves.    *)
(***************************************************************************)
ExactBound  == [d \in Askable |-> Exact(d)]
CoarseBound == [d \in Askable |-> AndersenPts[prog][d[2]]]

PointerOf(n) == Item(Stmt(n).ptr)
CallsOf(B)   == {c \in g.calls : c.callee \in B[Item(c.ptr)]}

\* It is closed when it holds whatever the steps of a query compute from what it holds.
Closes(B) ==
    /\ \A d, e \in Askable : isTopLevelPtrStmt(d[1]) /\ isTopLevelPtrStmt(e[1]) /\ d[2] = e[2] => B[d] = B[e]
    /\ \A d \in Askable : Kind(d[1]) = "addr" => Stmt(d[1]).obj \in B[d]
    /\ \A d \in Askable : Kind(d[1]) \in {"copy", "actual", "formal"} =>
          \A e \in DirectOf(g, CallsOf(B)) :
             e[2] = d[1] => B[<<e[1], getLHSTopLevPtr(e[1])>>] \subseteq B[d]
    /\ \A d \in Askable : Kind(d[1]) = "load" =>
          \A e \in IndirectOf(g, CallsOf(B)) :
             e[2] = d[1] /\ e[3] \in B[PointerOf(d[1])] => B[<<e[1], e[3]>>] \subseteq B[d]
    /\ \A d \in Askable : Kind(d[1]) = "mssa" =>
          \A e \in IndirectOf(g, CallsOf(B)) :
             e[2] = d[1] /\ e[3] = d[2] => B[<<e[1], e[3]>>] \subseteq B[d]
    /\ \A d \in Askable : Kind(d[1]) = "store" =>
          /\ d[2] \in B[PointerOf(d[1])] => B[Item(Stmt(d[1]).src)] \subseteq B[d]
          /\ \A e \in IndirectOf(g, CallsOf(B)) :
                /\ e[2] = d[1] /\ e[3] = d[2]
                /\ \E o \in B[PointerOf(d[1])] : o # d[2] \/ o \notin StrongObjs(g, CallsOf(B))
                => B[<<e[1], e[3]>>] \subseteq B[d]

FrameWithin(B, f) ==
    LET d == f.item
        n == d[1]
    IN  /\ f.stage = "funptr" => f.val = {} /\ f.base = {}
        /\ f.stage = "pointer" => /\ f.val = {} /\ f.todo \subseteq {PointerOf(n)}
                                  /\ Kind(n) \in {"load", "store"}
        /\ f.stage \in {"value", "edges"} =>
              f.val \subseteq B[d] /\ \A t \in f.todo : B[t] \subseteq B[d]
        /\ f.stage \in {"pointer", "value", "edges"} /\ Kind(n) \in {"load", "store"} =>
              f.base \subseteq B[PointerOf(n)]
        /\ f.stage \in {"value", "edges"} /\ Kind(n) \in {"load", "store"} => f.rest \subseteq f.base
        /\ f.stage = "value" => Kind(n) = "store" /\ d[2] \in f.base

Within(B) ==
    /\ \A d \in Askable : getCachedPointsTo(d) \subseteq B[d]
    /\ called \subseteq CallsOf(B)
    /\ \A i \in 1 .. Len(stack) : FrameWithin(B, stack[i])

\* No query has fallen back on Andersen's answer.
Pure == outOfBudgetDpms = {} /\ ~outOfBudgetQuery

DDAInv == Shape /\ Within(CoarseBound) /\ (Pure => Within(ExactBound))

-----------------------------------------------------------------------------
(***************************************************************************)
(* The program.                                                            *)
(***************************************************************************)
LEMMA Formed == prog \in DOMAIN Programs => WellFormed(g)
BY ProgramsAssumption DEF g

LEMMA Kinds ==
    ASSUME prog \in DOMAIN Programs, NEW n \in NodesOf(g)
    PROVE  /\ Kind(n) \in {"addr", "copy", "load", "store", "mssa", "actual", "formal"}
           /\ Typed(Stmt(n))
           /\ isTopLevelPtrStmt(n) => Kind(n) \in {"addr", "copy", "load", "actual", "formal"}
           /\ isTopLevelPtrStmt(n) => getLHSTopLevPtr(n) \in Vars
           /\ Kind(n) = "addr" => getLHSTopLevPtr(n) = Stmt(n).dst /\ Stmt(n).obj \in Objs
           /\ Kind(n) \in {"copy", "load"} => getLHSTopLevPtr(n) = Stmt(n).dst
           /\ Kind(n) \in {"actual", "formal"} => getLHSTopLevPtr(n) = Stmt(n).var
           /\ n \in Defs => Pointer(n) = getLHSTopLevPtr(n)
<1>1. Typed(Stmt(n))
  BY Formed DEF WellFormed, Stmt
<1> QED
  BY <1>1 DEF Typed, Kind, Stmt, isTopLevelPtrStmt, getLHSTopLevPtr, Pointer, Defs

\* A variable that is used has a definition, and the item that asks for it.
LEMMA DefinedItem ==
    ASSUME prog \in DOMAIN Programs, NEW v \in Vars, \E n \in NodesOf(g) : v \in Defined(g.stmt[n])
    PROVE  /\ Item(v) \in Askable /\ Item(v)[2] = v /\ Item(v)[1] \in Defs
           /\ isTopLevelPtrStmt(Item(v)[1])
<1>1. PICK n \in NodesOf(g) : v \in Defined(g.stmt[n])
  OBVIOUS
<1>2. n \in Defs /\ Pointer(n) = v
  BY <1>1, Kinds DEF Defs, Defined, Pointer, Kind, Stmt, Typed
<1>3. getDefSVFGNode(v) \in Defs /\ Pointer(getDefSVFGNode(v)) = v
  BY <1>2 DEF getDefSVFGNode
<1>4. getDefSVFGNode(v) \in NodesOf(g) /\ isTopLevelPtrStmt(getDefSVFGNode(v))
  BY <1>3 DEF Defs, isTopLevelPtrStmt
<1> QED
  BY <1>3, <1>4, Kinds DEF Item, Askable

LEMMA UsedItem ==
    ASSUME prog \in DOMAIN Programs, NEW n \in NodesOf(g), NEW v \in Used(Stmt(n))
    PROVE  v \in Vars /\ Item(v) \in Askable /\ Item(v)[2] = v /\ isTopLevelPtrStmt(Item(v)[1])
<1>1. v \in Vars
  BY Kinds DEF Used, Typed
<1>2. \E m \in NodesOf(g) : v \in Defined(g.stmt[m])
  BY Formed DEF WellFormed, Stmt
<1> QED
  BY <1>1, <1>2, DefinedItem

LEMMA CallItem ==
    ASSUME prog \in DOMAIN Programs, NEW c \in g.calls
    PROVE  c.ptr \in Vars /\ Item(c.ptr) \in Askable /\ Item(c.ptr)[2] = c.ptr
           /\ isTopLevelPtrStmt(Item(c.ptr)[1])
<1>1. c.ptr \in Vars /\ \E m \in NodesOf(g) : c.ptr \in Defined(g.stmt[m])
  BY Formed DEF WellFormed
<1> QED
  BY <1>1, DefinedItem

\* What a node reads along its edges can be asked for.
LEMMA EdgeItems ==
    ASSUME prog \in DOMAIN Programs, NEW cs \in SUBSET g.calls
    PROVE  /\ \A e \in DirectOf(g, cs) :
                 /\ e[1] \in NodesOf(g) /\ e[2] \in NodesOf(g)
                 /\ <<e[1], getLHSTopLevPtr(e[1])>> \in Askable /\ isTopLevelPtrStmt(e[1])
                 /\ IF Kind(e[1]) = "actual" THEN Kind(e[2]) = "formal"
                    ELSE e[1] \in Defs /\ getLHSTopLevPtr(e[1]) \in Used(Stmt(e[2]))
           /\ \A e \in IndirectOf(g, cs) :
                 /\ e[1] \in NodesOf(g) /\ e[2] \in NodesOf(g) /\ e[3] \in Objs
                 /\ <<e[1], e[3]>> \in Askable /\ ~isTopLevelPtrStmt(e[1])
<1>1. DirectOf(g, cs) \subseteq DirectOf(g, g.calls) /\ IndirectOf(g, cs) \subseteq IndirectOf(g, g.calls)
  BY DEF DirectOf, IndirectOf
<1>2. ASSUME NEW e \in DirectOf(g, cs)
      PROVE  /\ e[1] \in NodesOf(g) /\ e[2] \in NodesOf(g)
             /\ <<e[1], getLHSTopLevPtr(e[1])>> \in Askable /\ isTopLevelPtrStmt(e[1])
             /\ IF Kind(e[1]) = "actual" THEN Kind(e[2]) = "formal"
                ELSE e[1] \in Defs /\ getLHSTopLevPtr(e[1]) \in Used(Stmt(e[2]))
  <2>1. e[1] \in NodesOf(g) /\ e[2] \in NodesOf(g)
    BY <1>1, <1>2, Formed DEF WellFormed
  <2>2. IF Kind(e[1]) = "actual" THEN Kind(e[2]) = "formal"
        ELSE Defined(Stmt(e[1])) \cap Used(Stmt(e[2])) # {}
    BY <1>1, <1>2, Formed DEF WellFormed, Kind, Stmt
  <2>3. ASSUME Kind(e[1]) # "actual"
        PROVE  e[1] \in Defs /\ getLHSTopLevPtr(e[1]) \in Used(Stmt(e[2]))
    <3>1. PICK v : v \in Defined(Stmt(e[1])) /\ v \in Used(Stmt(e[2]))
      BY <2>2, <2>3
    <3>2. Kind(e[1]) \in {"addr", "copy", "load", "formal"}
      BY <3>1 DEF Defined, Kind, Stmt
    <3>3. v = getLHSTopLevPtr(e[1])
      BY <2>1, <3>1, <3>2, Kinds DEF Defined, Kind, Stmt
    <3> QED
      BY <2>1, <3>1, <3>2, <3>3 DEF Defs
  <2>4. isTopLevelPtrStmt(e[1])
    BY <2>3 DEF isTopLevelPtrStmt, Defs
  <2>5. getLHSTopLevPtr(e[1]) \in Vars
    BY <2>1, <2>4, Kinds
  <2> QED
    BY <2>1, <2>2, <2>3, <2>4, <2>5 DEF Askable
<1>3. ASSUME NEW e \in IndirectOf(g, cs)
      PROVE  /\ e[1] \in NodesOf(g) /\ e[2] \in NodesOf(g) /\ e[3] \in Objs
             /\ <<e[1], e[3]>> \in Askable /\ ~isTopLevelPtrStmt(e[1])
  <2>1. e[1] \in NodesOf(g) /\ e[2] \in NodesOf(g) /\ e[3] \in Objs
    BY <1>1, <1>3, Formed DEF WellFormed
  <2>2. ~isTopLevelPtrStmt(e[1])
    BY <1>1, <1>3, Formed DEF WellFormed, isTopLevelPtrStmt, Kind
  <2> QED
    BY <2>1, <2>2 DEF Askable
<1> QED
  BY <1>2, <1>3

\* What an edge between pointers carries: a source of a copy, the variable passed, or a
\* parameter into its formal.
LEMMA DirectFlow ==
    ASSUME prog \in DOMAIN Programs, NEW cs \in SUBSET g.calls, NEW e \in DirectOf(g, cs),
           NEW d \in Askable, e[2] = d[1], Kind(d[1]) \in {"copy", "actual", "formal"}
    PROVE  \/ d[1] \in OfKind(g, "copy") /\ d[2] = Stmt(d[1]).dst /\ getLHSTopLevPtr(e[1]) \in Stmt(d[1]).srcs
           \/ d[2] = getLHSTopLevPtr(e[1])
           \/ /\ e \in ParamCopies(g, DirectOf(g, cs))
              /\ d[2] = Stmt(d[1]).var /\ getLHSTopLevPtr(e[1]) = Stmt(e[1]).var
<1>1. d[1] \in NodesOf(g) /\ isTopLevelPtrStmt(d[1]) /\ d[2] = getLHSTopLevPtr(d[1])
  BY DEF Askable, isTopLevelPtrStmt
<1>2. /\ e[1] \in NodesOf(g)
      /\ IF Kind(e[1]) = "actual" THEN Kind(e[2]) = "formal"
         ELSE e[1] \in Defs /\ getLHSTopLevPtr(e[1]) \in Used(Stmt(e[2]))
  BY EdgeItems
<1>3. CASE Kind(e[1]) = "actual"
  <2>1. Kind(d[1]) = "formal"
    BY <1>2, <1>3
  <2>2. e \in ParamCopies(g, DirectOf(g, cs))
    BY <1>3, <2>1 DEF ParamCopies, Kind, Stmt
  <2> QED
    BY <1>1, <1>2, <1>3, <2>1, <2>2, Kinds
<1>4. CASE Kind(e[1]) # "actual"
  <2>1. getLHSTopLevPtr(e[1]) \in Used(Stmt(d[1]))
    BY <1>2, <1>4
  <2>2. CASE Kind(d[1]) = "copy"
    <3>1. Used(Stmt(d[1])) = Stmt(d[1]).srcs /\ d[1] \in OfKind(g, "copy")
      BY <1>1, <2>2 DEF Used, Kind, Stmt, OfKind
    <3> QED
      BY <1>1, <2>1, <2>2, <3>1, Kinds
  <2>3. CASE Kind(d[1]) = "actual"
    <3>1. Used(Stmt(d[1])) = {Stmt(d[1]).var}
      BY <2>3 DEF Used, Kind, Stmt
    <3> QED
      BY <1>1, <2>1, <2>3, <3>1, Kinds
  <2>4. CASE Kind(d[1]) = "formal"
    <3>1. Used(Stmt(d[1])) = {}
      BY <2>4 DEF Used, Kind, Stmt
    <3> QED
      BY <2>1, <3>1
  <2> QED
    BY <2>2, <2>3, <2>4
<1> QED
  BY <1>3, <1>4

-----------------------------------------------------------------------------
(***************************************************************************)
(* Both solutions are closed.                                              *)
(***************************************************************************)
LEMMA CoarseCloses ==
    ASSUME prog \in DOMAIN Programs
    PROVE  Closes(CoarseBound)
<1> DEFINE B   == CoarseBound
           aux == AndersenPts[prog]
           cs  == CallsOf(B)
<1>1. \A d \in Askable : B[d] = aux[d[2]]
  BY DEF CoarseBound
<1>2. cs = Resolved(g, aux) /\ cs \in SUBSET g.calls
  <2>1. \A c \in g.calls : B[Item(c.ptr)] = aux[c.ptr]
    BY <1>1, CallItem
  <2> QED
    BY <2>1 DEF CallsOf, Resolved
<1>3. /\ \A n \in OfKind(g, "addr") : g.stmt[n].obj \in aux[g.stmt[n].dst]
      /\ \A n \in OfKind(g, "copy") : \A w \in g.stmt[n].srcs : aux[w] \subseteq aux[g.stmt[n].dst]
      /\ \A n \in Loads(g) : \A o \in aux[g.stmt[n].ptr] : aux[o] \subseteq aux[g.stmt[n].dst]
      /\ \A n \in Stores(g) : \A o \in aux[g.stmt[n].ptr] : aux[g.stmt[n].src] \subseteq aux[o]
      /\ \A e \in ParamCopies(g, DirectOf(g, Resolved(g, aux))) :
            aux[g.stmt[e[1]].var] \subseteq aux[g.stmt[e[2]].var]
  BY AndersenCloses DEF g
<1> HIDE DEF cs
<1>4. \A d \in Askable : Kind(d[1]) = "addr" => Stmt(d[1]).obj \in B[d]
  <2>1. SUFFICES ASSUME NEW d \in Askable, Kind(d[1]) = "addr" PROVE Stmt(d[1]).obj \in B[d]
    OBVIOUS
  <2>2. d[1] \in NodesOf(g) /\ d[2] = getLHSTopLevPtr(d[1])
    BY <2>1 DEF Askable, isTopLevelPtrStmt
  <2>3. d[2] = Stmt(d[1]).dst /\ d[1] \in OfKind(g, "addr")
    BY <2>1, <2>2, Kinds DEF OfKind, Kind, Stmt
  <2> QED
    BY <1>1, <1>3, <2>3 DEF Stmt
<1>5. \A d \in Askable : Kind(d[1]) \in {"copy", "actual", "formal"} =>
          \A e \in DirectOf(g, cs) : e[2] = d[1] => B[<<e[1], getLHSTopLevPtr(e[1])>>] \subseteq B[d]
  <2>1. SUFFICES ASSUME NEW d \in Askable, Kind(d[1]) \in {"copy", "actual", "formal"},
                        NEW e \in DirectOf(g, cs), e[2] = d[1]
                 PROVE  B[<<e[1], getLHSTopLevPtr(e[1])>>] \subseteq B[d]
    OBVIOUS
  <2>2. <<e[1], getLHSTopLevPtr(e[1])>> \in Askable
    BY <1>2, EdgeItems
  <2>3. B[<<e[1], getLHSTopLevPtr(e[1])>>] = aux[getLHSTopLevPtr(e[1])] /\ B[d] = aux[d[2]]
    BY <1>1, <2>2
  <2>4. \/ d[1] \in OfKind(g, "copy") /\ d[2] = Stmt(d[1]).dst /\ getLHSTopLevPtr(e[1]) \in Stmt(d[1]).srcs
        \/ d[2] = getLHSTopLevPtr(e[1])
        \/ /\ e \in ParamCopies(g, DirectOf(g, cs))
           /\ d[2] = Stmt(d[1]).var /\ getLHSTopLevPtr(e[1]) = Stmt(e[1]).var
    BY <1>2, <2>1, DirectFlow
  <2> QED
    BY <1>2, <1>3, <2>1, <2>3, <2>4 DEF Stmt
<1>6. \A d \in Askable : Kind(d[1]) = "load" =>
          \A e \in IndirectOf(g, cs) :
             e[2] = d[1] /\ e[3] \in B[PointerOf(d[1])] => B[<<e[1], e[3]>>] \subseteq B[d]
  <2>1. SUFFICES ASSUME NEW d \in Askable, Kind(d[1]) = "load",
                        NEW e \in IndirectOf(g, cs), e[2] = d[1], e[3] \in B[PointerOf(d[1])]
                 PROVE  B[<<e[1], e[3]>>] \subseteq B[d]
    OBVIOUS
  <2>2. d[1] \in NodesOf(g) /\ d[2] = getLHSTopLevPtr(d[1])
    BY <2>1 DEF Askable, isTopLevelPtrStmt
  <2>3. d[2] = Stmt(d[1]).dst /\ d[1] \in Loads(g) /\ Stmt(d[1]).ptr \in Used(Stmt(d[1]))
    BY <2>1, <2>2, Kinds DEF OfKind, Loads, Kind, Stmt, Used
  <2>4. PointerOf(d[1]) \in Askable /\ PointerOf(d[1])[2] = Stmt(d[1]).ptr
    BY <2>2, <2>3, UsedItem DEF PointerOf
  <2>5. <<e[1], e[3]>> \in Askable
    BY <1>2, EdgeItems
  <2>6. e[3] \in aux[Stmt(d[1]).ptr]
    BY <1>1, <2>1, <2>4
  <2> QED
    BY <1>1, <1>3, <2>3, <2>5, <2>6 DEF Stmt
<1>7. \A d \in Askable : \A e \in IndirectOf(g, cs) : e[3] = d[2] => B[<<e[1], e[3]>>] \subseteq B[d]
  BY <1>1, <1>2, EdgeItems
<1>8. \A d \in Askable : Kind(d[1]) = "store" =>
          (d[2] \in B[PointerOf(d[1])] => B[Item(Stmt(d[1]).src)] \subseteq B[d])
  <2>1. SUFFICES ASSUME NEW d \in Askable, Kind(d[1]) = "store", d[2] \in B[PointerOf(d[1])]
                 PROVE  B[Item(Stmt(d[1]).src)] \subseteq B[d]
    OBVIOUS
  <2>2. d[1] \in Stores(g) /\ d[1] \in NodesOf(g)
    BY <2>1 DEF Askable, Stores, OfKind, Kind
  <2>3. {Stmt(d[1]).ptr, Stmt(d[1]).src} \subseteq Used(Stmt(d[1]))
    BY <2>1 DEF Used, Kind, Stmt
  <2>4. /\ PointerOf(d[1]) \in Askable /\ PointerOf(d[1])[2] = Stmt(d[1]).ptr
        /\ Item(Stmt(d[1]).src) \in Askable /\ Item(Stmt(d[1]).src)[2] = Stmt(d[1]).src
    BY <2>2, <2>3, UsedItem DEF PointerOf
  <2>5. d[2] \in aux[Stmt(d[1]).ptr]
    BY <1>1, <2>1, <2>4
  <2> QED
    BY <1>1, <1>3, <2>2, <2>4, <2>5 DEF Stmt
<1>9. \A d, e \in Askable : d[2] = e[2] => B[d] = B[e]
  BY <1>1
<1> HIDE DEF B
<1> QED
  BY <1>4, <1>5, <1>6, <1>7, <1>8, <1>9 DEF Closes, cs, B

LEMMA ExactCloses ==
    ASSUME prog \in DOMAIN Programs
    PROVE  Closes(ExactBound)
<1> DEFINE B  == ExactBound
           s  == Solution[prog]
           cs == CallsOf(B)
<1>1. \A d \in Askable : B[d] = IF isTopLevelPtrStmt(d[1]) THEN s.pts[d[2]] ELSE Exit(g, s, d[1], d[2])
  BY DEF ExactBound, Exact
<1>2. cs = Resolved(g, s.pts) /\ cs \in SUBSET g.calls
  <2>1. \A c \in g.calls : B[Item(c.ptr)] = s.pts[c.ptr]
    BY <1>1, CallItem
  <2> QED
    BY <2>1 DEF CallsOf, Resolved
<1>3. /\ s \in Flows(g)
      /\ \A v \in Vars : Gen(g, s, v) \subseteq s.pts[v]
      /\ \A n \in NodesOf(g), o \in Objs :
            /\ Arrives(g, s, n, o) \subseteq s.in[n][o]
            /\ n \in Stores(g) => Leaves(g, s, n, o) \subseteq s.out[n][o]
  BY SolutionClosed DEF g
<1>4. /\ \A v \in Vars : s.pts[v] \subseteq Objs
      /\ \A n \in NodesOf(g), o \in Objs : Exit(g, s, n, o) \subseteq Objs /\ s.in[n][o] \subseteq Objs
  BY <1>3 DEF Flows, Memory, Exit
<1> HIDE DEF cs
<1>5. \A d \in Askable : Kind(d[1]) = "addr" => Stmt(d[1]).obj \in B[d]
  <2>1. SUFFICES ASSUME NEW d \in Askable, Kind(d[1]) = "addr" PROVE Stmt(d[1]).obj \in B[d]
    OBVIOUS
  <2>2. d[1] \in NodesOf(g) /\ d[2] = getLHSTopLevPtr(d[1]) /\ isTopLevelPtrStmt(d[1])
    BY <2>1 DEF Askable, isTopLevelPtrStmt
  <2>3. d[2] = Stmt(d[1]).dst /\ d[1] \in OfKind(g, "addr") /\ d[2] \in Vars /\ Stmt(d[1]).obj \in Objs
    BY <2>1, <2>2, Kinds DEF OfKind, Kind, Stmt
  <2>4. Stmt(d[1]).obj \in Gen(g, s, d[2])
    BY <2>3 DEF Gen, Stmt
  <2> QED
    BY <1>1, <1>3, <2>2, <2>3, <2>4
<1>6. \A d \in Askable : Kind(d[1]) \in {"copy", "actual", "formal"} =>
          \A e \in DirectOf(g, cs) : e[2] = d[1] => B[<<e[1], getLHSTopLevPtr(e[1])>>] \subseteq B[d]
  <2>1. SUFFICES ASSUME NEW d \in Askable, Kind(d[1]) \in {"copy", "actual", "formal"},
                        NEW e \in DirectOf(g, cs), e[2] = d[1],
                        NEW x \in B[<<e[1], getLHSTopLevPtr(e[1])>>]
                 PROVE  x \in B[d]
    OBVIOUS
  <2> DEFINE w == getLHSTopLevPtr(e[1])
  <2>2. <<e[1], w>> \in Askable /\ isTopLevelPtrStmt(e[1]) /\ e[1] \in NodesOf(g)
    BY <1>2, EdgeItems
  <2>3. w \in Vars
    BY <2>2, Kinds
  <2>4. d[1] \in NodesOf(g) /\ isTopLevelPtrStmt(d[1]) /\ d[2] \in Vars
    BY <2>1, Kinds DEF Askable, isTopLevelPtrStmt
  <2>5. B[<<e[1], w>>] = s.pts[w] /\ B[d] = s.pts[d[2]]
    BY <1>1, <2>2, <2>4
  <2>6. x \in s.pts[w] /\ x \in Objs
    BY <1>4, <2>1, <2>3, <2>5
  <2>7. \/ d[1] \in OfKind(g, "copy") /\ d[2] = Stmt(d[1]).dst /\ w \in Stmt(d[1]).srcs
        \/ d[2] = w
        \/ /\ e \in ParamCopies(g, DirectOf(g, cs))
           /\ d[2] = Stmt(d[1]).var /\ w = Stmt(e[1]).var
    BY <1>2, <2>1, DirectFlow
  <2>8. CASE d[2] = w
    BY <2>5, <2>6, <2>8
  <2>9. CASE d[1] \in OfKind(g, "copy") /\ d[2] = Stmt(d[1]).dst /\ w \in Stmt(d[1]).srcs
    <3>1. x \in Gen(g, s, d[2])
      BY <2>6, <2>9 DEF Gen, Stmt
    <3> QED
      BY <1>3, <2>4, <2>5, <3>1
  <2>10. CASE /\ e \in ParamCopies(g, DirectOf(g, cs))
              /\ d[2] = Stmt(d[1]).var /\ w = Stmt(e[1]).var
    <3>1. x \in Gen(g, s, d[2])
      BY <1>2, <2>1, <2>6, <2>10 DEF Gen, Stmt
    <3> QED
      BY <1>3, <2>4, <2>5, <3>1
  <2> QED
    BY <2>7, <2>8, <2>9, <2>10
\* What comes along an edge over memory has arrived at its end.
<1>7. \A d \in Askable : \A e \in IndirectOf(g, cs) :
          e[2] = d[1] => B[<<e[1], e[3]>>] \subseteq s.in[d[1]][e[3]] /\ e[3] \in Objs
  <2>1. SUFFICES ASSUME NEW d \in Askable, NEW e \in IndirectOf(g, cs), e[2] = d[1]
                 PROVE  B[<<e[1], e[3]>>] \subseteq s.in[d[1]][e[3]] /\ e[3] \in Objs
    OBVIOUS
  <2>2. /\ e[1] \in NodesOf(g) /\ e[2] \in NodesOf(g) /\ e[3] \in Objs
        /\ <<e[1], e[3]>> \in Askable /\ ~isTopLevelPtrStmt(e[1])
    BY <1>2, EdgeItems
  <2>3. B[<<e[1], e[3]>>] = Exit(g, s, e[1], e[3])
    BY <1>1, <2>2
  <2>4. Exit(g, s, e[1], e[3]) \subseteq Arrives(g, s, e[2], e[3])
    BY <1>2, <1>4, <2>2 DEF Arrives
  <2> QED
    BY <1>3, <2>1, <2>2, <2>3, <2>4
<1>8. \A d \in Askable : Kind(d[1]) = "load" =>
          \A e \in IndirectOf(g, cs) :
             e[2] = d[1] /\ e[3] \in B[PointerOf(d[1])] => B[<<e[1], e[3]>>] \subseteq B[d]
  <2>1. SUFFICES ASSUME NEW d \in Askable, Kind(d[1]) = "load",
                        NEW e \in IndirectOf(g, cs), e[2] = d[1], e[3] \in B[PointerOf(d[1])],
                        NEW x \in B[<<e[1], e[3]>>]
                 PROVE  x \in B[d]
    OBVIOUS
  <2>2. d[1] \in NodesOf(g) /\ d[2] = getLHSTopLevPtr(d[1]) /\ isTopLevelPtrStmt(d[1])
    BY <2>1 DEF Askable, isTopLevelPtrStmt
  <2>3. d[2] = Stmt(d[1]).dst /\ d[2] \in Vars /\ d[1] \in Loads(g) /\ Stmt(d[1]).ptr \in Used(Stmt(d[1]))
    BY <2>1, <2>2, Kinds DEF OfKind, Loads, Kind, Stmt, Used
  <2>4. /\ PointerOf(d[1]) \in Askable /\ PointerOf(d[1])[2] = Stmt(d[1]).ptr
        /\ isTopLevelPtrStmt(PointerOf(d[1])[1])
    BY <2>2, <2>3, UsedItem DEF PointerOf
  <2>5. e[3] \in s.pts[Stmt(d[1]).ptr] /\ x \in s.in[d[1]][e[3]] /\ e[3] \in Objs
    BY <1>1, <1>7, <2>1, <2>4
  <2>6. x \in Gen(g, s, d[2])
    BY <1>4, <2>2, <2>3, <2>5 DEF Gen, Stmt
  <2> QED
    BY <1>1, <1>3, <2>2, <2>3, <2>6
<1>9. \A d \in Askable : Kind(d[1]) = "mssa" =>
          \A e \in IndirectOf(g, cs) : e[2] = d[1] /\ e[3] = d[2] => B[<<e[1], e[3]>>] \subseteq B[d]
  <2>1. SUFFICES ASSUME NEW d \in Askable, Kind(d[1]) = "mssa" PROVE B[d] = s.in[d[1]][d[2]]
    BY <1>7
  <2>2. ~isTopLevelPtrStmt(d[1])
    BY <2>1 DEF isTopLevelPtrStmt
  <2> QED
    BY <1>1, <2>1, <2>2 DEF Exit, Kind, Stmt
<1>10. \A d \in Askable : Kind(d[1]) = "store" =>
          /\ d[2] \in B[PointerOf(d[1])] => B[Item(Stmt(d[1]).src)] \subseteq B[d]
          /\ \A e \in IndirectOf(g, cs) :
                /\ e[2] = d[1] /\ e[3] = d[2]
                /\ \E o \in B[PointerOf(d[1])] : o # d[2] \/ o \notin StrongObjs(g, cs)
                => B[<<e[1], e[3]>>] \subseteq B[d]
  <2>1. SUFFICES ASSUME NEW d \in Askable, Kind(d[1]) = "store"
                 PROVE  /\ d[2] \in B[PointerOf(d[1])] => B[Item(Stmt(d[1]).src)] \subseteq B[d]
                        /\ \A e \in IndirectOf(g, cs) :
                              /\ e[2] = d[1] /\ e[3] = d[2]
                              /\ \E o \in B[PointerOf(d[1])] : o # d[2] \/ o \notin StrongObjs(g, cs)
                              => B[<<e[1], e[3]>>] \subseteq B[d]
    OBVIOUS
  <2>2. d[1] \in Stores(g) /\ d[1] \in NodesOf(g) /\ d[2] \in Objs /\ ~isTopLevelPtrStmt(d[1])
    BY <2>1 DEF Askable, Stores, OfKind, Kind, Stmt, isTopLevelPtrStmt
  <2>3. {Stmt(d[1]).ptr, Stmt(d[1]).src} \subseteq Used(Stmt(d[1]))
    BY <2>1 DEF Used, Kind, Stmt
  <2>4. B[PointerOf(d[1])] = s.pts[Stmt(d[1]).ptr] /\ B[Item(Stmt(d[1]).src)] = s.pts[Stmt(d[1]).src]
    BY <1>1, <2>2, <2>3, UsedItem DEF PointerOf
  <2>5. B[d] = s.out[d[1]][d[2]]
    BY <1>1, <2>1, <2>2 DEF Exit, Kind, Stmt
  <2>6. Leaves(g, s, d[1], d[2]) \subseteq B[d]
    BY <1>3, <2>2, <2>5
  <2>7. ASSUME d[2] \in B[PointerOf(d[1])]
        PROVE  B[Item(Stmt(d[1]).src)] \subseteq B[d]
    BY <2>4, <2>6, <2>7 DEF Leaves, Stmt
  <2>8. ASSUME NEW e \in IndirectOf(g, cs), e[2] = d[1], e[3] = d[2],
               NEW o \in B[PointerOf(d[1])], o # d[2] \/ o \notin StrongObjs(g, cs)
        PROVE  B[<<e[1], e[3]>>] \subseteq B[d]
    <3>1. ~Killed(s.pts[g.stmt[d[1]].ptr], d[2], StrongObjs(g, Resolved(g, s.pts)))
      BY <1>2, <2>4, <2>8 DEF Killed, Stmt
    <3>2. s.in[d[1]][d[2]] \subseteq B[d]
      BY <2>6, <3>1 DEF Leaves
    <3> QED
      BY <1>7, <2>8, <3>2
  <2> QED
    BY <2>7, <2>8
<1>11. \A d, e \in Askable : isTopLevelPtrStmt(d[1]) /\ isTopLevelPtrStmt(e[1]) /\ d[2] = e[2] => B[d] = B[e]
  BY <1>1
<1> HIDE DEF B
<1> QED
  BY <1>5, <1>6, <1>8, <1>9, <1>10, <1>11 DEF Closes, cs, B

-----------------------------------------------------------------------------
(***************************************************************************)
(* Stacks: the top frame is replaced, another is put on it, or it is taken *)
(* away and the one below replaced.                                        *)
(***************************************************************************)
LEMMA Replaced ==
    ASSUME NEW F, NEW s \in Seq(F), s # <<>>, NEW f \in F,
           NEW t, t = <<f>> \o Tail(s)
    PROVE  /\ t \in Seq(F) /\ Len(t) = Len(s) /\ Len(s) \in Nat \ {0}
           /\ t[1] = f /\ \A i \in 2 .. Len(s) : t[i] = s[i]
<1>1. Len(s) \in Nat \ {0} /\ Tail(s) \in Seq(F) /\ Len(Tail(s)) = Len(s) - 1
  OBVIOUS
<1>2. \A i \in 1 .. Len(s) - 1 : Tail(s)[i] = s[i + 1]
  OBVIOUS
<1>3. t \in Seq(F) /\ Len(t) = Len(s) /\ t[1] = f
  BY <1>1
<1>4. ASSUME NEW i \in 2 .. Len(s) PROVE t[i] = s[i]
  <2>1. i - 1 \in 1 .. Len(s) - 1 /\ (i - 1) + 1 = i
    BY <1>1
  <2>2. t[i] = Tail(s)[i - 1]
    BY <1>1, <2>1
  <2> QED
    BY <1>2, <2>1, <2>2
<1> QED
  BY <1>1, <1>3, <1>4

LEMMA Pushed ==
    ASSUME NEW F, NEW s \in Seq(F), s # <<>>, NEW f \in F,
           NEW t, t = <<f, Head(s)>> \o Tail(s)
    PROVE  /\ t \in Seq(F) /\ Len(t) = Len(s) + 1 /\ Len(s) \in Nat \ {0}
           /\ t[1] = f /\ \A i \in 2 .. Len(t) : t[i] = s[i - 1]
<1>1. Len(s) \in Nat \ {0} /\ Tail(s) \in Seq(F) /\ Len(Tail(s)) = Len(s) - 1 /\ Head(s) \in F
  OBVIOUS
<1>2. \A i \in 1 .. Len(s) - 1 : Tail(s)[i] = s[i + 1]
  OBVIOUS
<1>3. t \in Seq(F) /\ Len(t) = Len(s) + 1 /\ t[1] = f /\ t[2] = Head(s)
  BY <1>1
<1>4. ASSUME NEW i \in 2 .. Len(t) PROVE t[i] = s[i - 1]
  <2>1. CASE i = 2
    BY <1>1, <1>3, <2>1
  <2>2. CASE i # 2
    <3>1. i - 2 \in 1 .. Len(s) - 1 /\ (i - 2) + 1 = i - 1
      BY <1>1, <1>3, <2>2
    <3>2. t[i] = Tail(s)[i - 2]
      BY <1>1, <3>1
    <3> QED
      BY <1>2, <3>1, <3>2
  <2> QED
    BY <2>1, <2>2
<1> QED
  BY <1>1, <1>3, <1>4

LEMMA Popped ==
    ASSUME NEW F, NEW s \in Seq(F), s # <<>>, Tail(s) # <<>>, NEW f \in F,
           NEW t, t = <<f>> \o Tail(Tail(s))
    PROVE  /\ t \in Seq(F) /\ Len(t) = Len(s) - 1 /\ Len(t) \in Nat \ {0} /\ Len(s) \in Nat
           /\ Head(Tail(s)) = s[2] /\ t[1] = f /\ \A i \in 2 .. Len(t) : t[i] = s[i + 1]
<1>1. Len(s) \in Nat \ {0} /\ Tail(s) \in Seq(F) /\ Len(Tail(s)) = Len(s) - 1
  OBVIOUS
<1>2. \A i \in 1 .. Len(s) - 1 : Tail(s)[i] = s[i + 1]
  OBVIOUS
<1>3. /\ t \in Seq(F) /\ Len(t) = Len(Tail(s)) /\ Len(Tail(s)) \in Nat \ {0}
      /\ t[1] = f /\ \A i \in 2 .. Len(Tail(s)) : t[i] = Tail(s)[i]
  BY <1>1, Replaced
<1>4. Head(Tail(s)) = s[2]
  BY <1>1, <1>2, <1>3
<1>5. ASSUME NEW i \in 2 .. Len(t) PROVE t[i] = s[i + 1]
  BY <1>1, <1>2, <1>3
<1> QED
  BY <1>1, <1>3, <1>4, <1>5

-----------------------------------------------------------------------------
(***************************************************************************)
(* The program does not change, and with it what a frame is asked for.     *)
(***************************************************************************)
LEMMA SameProgram ==
    ASSUME prog' = prog
    PROVE  /\ g' = g /\ Askable' = Askable /\ Frames' = Frames /\ Defs' = Defs
           /\ \A n : Kind(n)' = Kind(n) /\ Stmt(n)' = Stmt(n) /\ getLHSTopLevPtr(n)' = getLHSTopLevPtr(n)
           /\ \A n : isTopLevelPtrStmt(n)' = isTopLevelPtrStmt(n)
<1>1. g' = g
  BY DEF g
<1>2. \A n : Kind(n)' = Kind(n) /\ Stmt(n)' = Stmt(n)
  BY <1>1 DEF Kind, Stmt
<1>3. \A n : Pointer(n)' = Pointer(n)
  BY <1>2 DEF Pointer
<1>4. \A n : getLHSTopLevPtr(n)' = getLHSTopLevPtr(n) /\ isTopLevelPtrStmt(n)' = isTopLevelPtrStmt(n)
  BY <1>2, <1>3 DEF getLHSTopLevPtr, isTopLevelPtrStmt
<1>5. Askable' = Askable
  BY <1>1, <1>4 DEF Askable
<1>6. Frames' = Frames
  BY <1>1, <1>5 DEF Frames
<1>7. Defs' = Defs
  BY <1>1, <1>2 DEF Defs
<1> QED
  BY <1>1, <1>2, <1>4, <1>5, <1>6, <1>7

LEMMA SameItems ==
    ASSUME prog' = prog
    PROVE  /\ \A v : Item(v)' = Item(v)
           /\ \A n : PointerOf(n)' = PointerOf(n)
<1>1. Defs' = Defs /\ \A n : Pointer(n)' = Pointer(n)
  BY SameProgram DEF Pointer, Kind, Stmt, g
<1>2. \A v : getDefSVFGNode(v)' = getDefSVFGNode(v)
  BY <1>1, Zenon DEF getDefSVFGNode
<1>3. \A v : Item(v)' = Item(v)
  BY <1>2 DEF Item
<1> QED
  BY <1>3, SameProgram DEF PointerOf

LEMMA WithinNext ==
    ASSUME NEW B, prog' = prog, \A d \in Askable : getCachedPointsTo(d)' \subseteq B[d],
           called' \subseteq CallsOf(B), NEW s, stack' = s,
           \A i \in 1 .. Len(s) : FrameWithin(B, s[i])
    PROVE  Within(B)'
<1>1. CallsOf(B)' = CallsOf(B)
  BY SameProgram, SameItems DEF CallsOf
<1>2. Askable' = Askable
  BY SameProgram
<1>3. \A i \in 1 .. Len(stack') : FrameWithin(B, stack[i])'
  BY SameProgram, SameItems DEF FrameWithin
<1> QED
  BY <1>1, <1>2, <1>3 DEF Within

-----------------------------------------------------------------------------
(***************************************************************************)
(* The top of the stack.                                                   *)
(***************************************************************************)
LEMMA TopFrame ==
    ASSUME Shape, stack # <<>>
    PROVE  /\ Top \in Frames /\ Top = stack[1] /\ Len(stack) \in Nat \ {0}
           /\ Top.item \in Askable /\ Top.item[1] \in NodesOf(g)
           /\ Below = <<>> => Len(stack) = 1
<1>1. stack \in Seq(Frames)
  BY DEF Shape
<1>2. Top \in Frames /\ Top = stack[1] /\ Len(stack) \in Nat \ {0} /\ (Below = <<>> => Len(stack) = 1)
  <2>1. Len(Tail(stack)) = Len(stack) - 1 /\ Len(stack) \in Nat \ {0}
    BY <1>1
  <2>2. Tail(stack) = <<>> => Len(stack) = 1
    <3>1. ASSUME Tail(stack) = <<>> PROVE Len(Tail(stack)) = 0
      BY <3>1
    <3> QED
      BY <2>1, <3>1
  <2>3. Top \in Frames /\ Top = stack[1]
    BY <1>1 DEF Top
  <2> QED
    BY <2>1, <2>2, <2>3 DEF Below
<1> QED
  BY <1>2 DEF Frames, Askable

LEMMA CacheTyped ==
    ASSUME Shape, NEW d \in Askable
    PROVE  getCachedPointsTo(d) \subseteq Objs
<1>1. CASE isTopLevelPtrStmt(d[1])
  <2>1. d[2] \in Vars
    BY <1>1, Kinds DEF Askable, Shape
  <2> QED
    BY <1>1, <2>1 DEF Shape, getCachedPointsTo
<1>2. CASE ~isTopLevelPtrStmt(d[1])
  <2>1. d \in {n \in NodesOf(g) : ~isTopLevelPtrStmt(n)} \X Objs
    BY <1>2 DEF Askable
  <2> QED
    BY <1>2, <2>1 DEF Shape, getCachedPointsTo
<1> QED
  BY <1>1, <1>2

\* A frame that changes and stays on top.
LEMMA BecomeWithin ==
    ASSUME NEW B, Shape, Within(B), stack # <<>>, NEW f \in Frames, Become(f), FrameWithin(B, f),
           UNCHANGED <<prog, caches, called>>
    PROVE  Within(B)'
<1>1. PICK t : t = stack'
  OBVIOUS
<1>2. /\ t \in Seq(Frames) /\ Len(t) = Len(stack) /\ Len(stack) \in Nat \ {0}
      /\ t[1] = f /\ \A i \in 2 .. Len(stack) : t[i] = stack[i]
  <2>1. stack \in Seq(Frames) /\ t = <<f>> \o Tail(stack)
    BY <1>1 DEF Shape, Become, Below
  <2> QED
    BY <2>1, Replaced
<1>3. \A i \in 1 .. Len(t) : FrameWithin(B, t[i])
  <2>1. SUFFICES ASSUME NEW i \in 1 .. Len(t) PROVE FrameWithin(B, t[i])
    OBVIOUS
  <2>2. i = 1 \/ (i \in 2 .. Len(stack) /\ i \in 1 .. Len(stack))
    BY <1>2
  <2> QED
    BY <1>2, <2>2 DEF Within
<1>4. \A d \in Askable : getCachedPointsTo(d)' = getCachedPointsTo(d)
  BY SameProgram DEF getCachedPointsTo, caches
<1> QED
  BY <1>1, <1>3, <1>4, WithinNext DEF Within

LEMMA BecomeShape ==
    ASSUME Shape, stack # <<>>, NEW f \in Frames, Become(f), f.item = Top.item,
           prog' = prog, pts' \in [Vars -> SUBSET Objs],
           dpmToADCPtSetMap' \in [{n \in NodesOf(g) : ~isTopLevelPtrStmt(n)} \X Objs -> SUBSET Objs],
           locToDpmSetMap' \subseteq Askable, called' \subseteq g.calls, callGraphSCC' \subseteq called',
           outOfBudgetQuery => outOfBudgetQuery',
           \/ f.stage = Top.stage
           \/ Top.stage \notin {"query", "calls", "uses"}
           \/ f.stage \in {"calls", "uses"} /\ (Top.stage = "query" => outOfBudgetQuery)
    PROVE  Shape'
<1>1. PICK t : t = stack'
  OBVIOUS
<1>2. /\ t \in Seq(Frames) /\ Len(t) = Len(stack) /\ Len(stack) \in Nat \ {0}
      /\ t[1] = f /\ \A i \in 2 .. Len(stack) : t[i] = stack[i]
  <2>1. stack \in Seq(Frames) /\ t = <<f>> \o Tail(stack)
    BY <1>1 DEF Shape, Become, Below
  <2> QED
    BY <2>1, Replaced
<1>3. Top = stack[1]
  BY TopFrame
<1>4. Chained(t)
  <2>1. SUFFICES ASSUME NEW i \in 1 .. Len(t) - 1 PROVE t[i].item \in t[i + 1].todo
    BY DEF Chained
  <2>2. stack[i].item \in stack[i + 1].todo
    BY <1>2 DEF Shape, Chained
  <2>3. t[i + 1] = stack[i + 1] /\ t[i].item = stack[i].item
    <3>1. i + 1 \in 2 .. Len(stack) /\ (i = 1 \/ i \in 2 .. Len(stack))
      BY <1>2
    <3> QED
      BY <1>2, <1>3, <3>1
  <2> QED
    BY <2>2, <2>3
<1>5. Founded(t, outOfBudgetQuery')
  <2>1. Founded(stack, outOfBudgetQuery)
    BY DEF Shape
  <2>2. CASE Len(stack) = 1
    BY <1>2, <1>3, <2>1, <2>2 DEF Founded
  <2>3. CASE Len(stack) # 1
    <3>1. t[Len(t)] = stack[Len(stack)]
      BY <1>2, <2>3
    <3> QED
      BY <2>1, <3>1 DEF Founded
  <2> QED
    BY <2>2, <2>3
<1>6. t # <<>>
  BY <1>2
<1> QED
  BY <1>1, <1>2, <1>4, <1>5, <1>6, SameProgram DEF Shape

\* A frame that uses what a call returns.
LEMMA AbsorbWithin ==
    ASSUME NEW B, NEW f \in Frames, FrameWithin(B, f), NEW d \in f.todo,
           NEW set \in SUBSET Objs, set \subseteq B[d]
    PROVE  /\ Absorb(f, d, set) \in Frames /\ FrameWithin(B, Absorb(f, d, set))
           /\ Absorb(f, d, set).item = f.item /\ Absorb(f, d, set).stage = f.stage
           /\ Absorb(f, d, set).todo = f.todo \ {d}
<1> DEFINE h == Absorb(f, d, set)
<1>1. /\ h \in Frames /\ h.item = f.item /\ h.stage = f.stage /\ h.todo = f.todo \ {d}
      /\ h.rest = f.rest
      /\ h.base = IF f.stage = "pointer" THEN f.base \cup set ELSE f.base
      /\ h.val = IF f.stage \in {"value", "edges"} THEN f.val \cup set ELSE f.val
  BY DEF Frames, Absorb
<1> HIDE DEF h
<1>2. FrameWithin(B, h)
  BY <1>1 DEF FrameWithin
<1> QED
  BY <1>1, <1>2 DEF h

-----------------------------------------------------------------------------
(***************************************************************************)
(* The steps of a call.  What is within a closed bound stays within it.    *)
(***************************************************************************)
\* A frame that changes leaves what a query is and what it has found alone.
LEMMA BecomeKeeps ==
    ASSUME NEW B, Shape, Within(B), stack # <<>>, NEW f \in Frames, Become(f), FrameWithin(B, f),
           f.item = Top.item,
           \/ f.stage = Top.stage
           \/ Top.stage \notin {"query", "calls", "uses"}
           \/ f.stage \in {"calls", "uses"} /\ (Top.stage = "query" => outOfBudgetQuery),
           UNCHANGED <<prog, caches, called>>, locToDpmSetMap' \subseteq Askable,
           outOfBudgetQuery => outOfBudgetQuery'
    PROVE  Shape' /\ Within(B)'
<1>1. Within(B)'
  BY BecomeWithin
<1>2. /\ pts' \in [Vars -> SUBSET Objs]
      /\ dpmToADCPtSetMap' \in [{n \in NodesOf(g) : ~isTopLevelPtrStmt(n)} \X Objs -> SUBSET Objs]
      /\ called' \subseteq g.calls /\ callGraphSCC' \subseteq called'
  BY DEF Shape, caches
<1> QED
  BY <1>1, <1>2, BecomeShape

LEMMA MarkTyped ==
    ASSUME Shape, NEW d \in Askable, Mark(d)
    PROVE  /\ locToDpmSetMap' \subseteq Askable /\ (outOfBudgetQuery => outOfBudgetQuery')
           /\ outOfBudgetDpms' = outOfBudgetDpms
BY DEF Mark, Shape

LEMMA ReturnWithin ==
    ASSUME NEW B, Shape, Within(B), stack # <<>>, NEW d \in Top.todo, Return(d),
           UNCHANGED <<prog, caches, called>>, locToDpmSetMap' \subseteq Askable,
           outOfBudgetQuery => outOfBudgetQuery'
    PROVE  Shape' /\ Within(B)'
<1> DEFINE f == Absorb(Top, d, getCachedPointsTo(d))
<1>1. Top \in Frames /\ FrameWithin(B, Top) /\ d \in Askable
  BY TopFrame DEF Within, Frames
<1>2. getCachedPointsTo(d) \subseteq Objs /\ getCachedPointsTo(d) \subseteq B[d]
  BY <1>1, CacheTyped DEF Within
<1>3. f \in Frames /\ FrameWithin(B, f) /\ f.item = Top.item /\ f.stage = Top.stage
  BY <1>1, <1>2, AbsorbWithin
<1>4. Become(f)
  BY DEF Return
<1> HIDE DEF f
<1> QED
  BY <1>3, <1>4, BecomeKeeps

LEMMA HandleWithin ==
    ASSUME NEW B, Shape, Within(B), stack # <<>>, NEW d \in Top.todo, Handle(d),
           UNCHANGED <<prog, caches, called>>
    PROVE  Shape' /\ Within(B)'
<1> DEFINE f == Frame(d, "funptr", {Item(p) : p \in FunPtrs(d[1])})
<1>0. PICK t : t = stack'
  OBVIOUS
<1>1. Top \in Frames /\ Top = stack[1] /\ d \in Askable
  BY TopFrame DEF Frames
<1>2. {Item(p) : p \in FunPtrs(d[1])} \subseteq Askable
  BY CallItem DEF FunPtrs, Shape
<1>3. f \in Frames /\ f.item = d /\ FrameWithin(B, f)
  BY <1>1, <1>2 DEF Frame, Frames, Stages, FrameWithin
<1> HIDE DEF f
<1>4. /\ t \in Seq(Frames) /\ Len(t) = Len(stack) + 1 /\ Len(stack) \in Nat \ {0}
      /\ t[1] = f /\ \A i \in 2 .. Len(t) : t[i] = stack[i - 1]
  <2>1. stack \in Seq(Frames) /\ t = <<f, Head(stack)>> \o Tail(stack)
    BY <1>0 DEF Shape, Handle, Top, Below, f
  <2> QED
    BY <1>3, <2>1, Pushed
<1>5. \A i \in 1 .. Len(t) : FrameWithin(B, t[i])
  <2>1. SUFFICES ASSUME NEW i \in 1 .. Len(t), i # 1 PROVE FrameWithin(B, t[i])
    BY <1>3, <1>4
  <2>2. i \in 2 .. Len(t) /\ i - 1 \in 1 .. Len(stack)
    BY <1>4, <2>1
  <2> QED
    BY <1>4, <2>2 DEF Within
<1>6. Chained(t)
  <2>1. SUFFICES ASSUME NEW i \in 1 .. Len(t) - 1 PROVE t[i].item \in t[i + 1].todo
    BY DEF Chained
  <2>2. CASE i = 1
    <3>1. t[2] = stack[1]
      BY <1>4
    <3> QED
      BY <1>1, <1>3, <1>4, <2>2, <3>1
  <2>3. CASE i # 1
    <3>1. i - 1 \in 1 .. Len(stack) - 1 /\ i \in 2 .. Len(t) /\ i + 1 \in 2 .. Len(t)
          /\ (i - 1) + 1 = i /\ (i + 1) - 1 = i
      BY <1>4, <2>3
    <3>2. stack[i - 1].item \in stack[(i - 1) + 1].todo
      BY <3>1 DEF Shape, Chained
    <3> QED
      BY <1>4, <3>1, <3>2
  <2> QED
    BY <2>2, <2>3
<1>7. Founded(t, outOfBudgetQuery')
  <2>1. Founded(stack, outOfBudgetQuery) /\ (outOfBudgetQuery => outOfBudgetQuery')
    BY <1>1, MarkTyped DEF Shape, Handle
  <2>2. Len(t) \in 2 .. Len(t) /\ Len(t) - 1 = Len(stack)
    BY <1>4
  <2>3. t[Len(t)] = stack[Len(stack)]
    BY <1>4, <2>2
  <2> QED
    BY <2>1, <2>3 DEF Founded
<1>8. \A x \in Askable : getCachedPointsTo(x)' = getCachedPointsTo(x)
  BY SameProgram DEF getCachedPointsTo, caches
<1>9. Within(B)'
  BY <1>0, <1>5, <1>8, WithinNext DEF Within
<1>10. t # <<>> /\ locToDpmSetMap' \subseteq Askable
  BY <1>1, <1>4, MarkTyped DEF Handle
<1>11. Shape'
  BY <1>0, <1>4, <1>6, <1>7, <1>10, SameProgram DEF Shape, caches
<1> QED
  BY <1>9, <1>11

LEMMA FindPTWithin ==
    ASSUME NEW B, Shape, Within(B), findPT
    PROVE  Shape' /\ Within(B)'
<1>1. PICK d \in Top.todo : Visited(d) \/ OutOfBudget(d) \/ Handle(d)
  BY DEF findPT
<1>2. stack # <<>> /\ UNCHANGED <<prog, caches, called>>
  BY DEF findPT
<1>3. d \in Askable
  BY <1>2, TopFrame DEF Frames
<1>4. CASE Visited(d)
  <2>1. Return(d) /\ locToDpmSetMap' \subseteq Askable /\ (outOfBudgetQuery => outOfBudgetQuery')
    BY <1>4 DEF Visited, budget, Shape
  <2> QED
    BY <1>2, <2>1, ReturnWithin
<1>5. CASE OutOfBudget(d)
  <2>1. Return(d) /\ locToDpmSetMap' \subseteq Askable /\ (outOfBudgetQuery => outOfBudgetQuery')
    BY <1>3, <1>5, MarkTyped DEF OutOfBudget
  <2> QED
    BY <1>2, <2>1, ReturnWithin
<1>6. CASE Handle(d)
  BY <1>2, <1>6, HandleWithin
<1> QED
  BY <1>1, <1>4, <1>5, <1>6

-----------------------------------------------------------------------------
(***************************************************************************)
(* The steps of a statement.                                               *)
(***************************************************************************)
\* What arrives along the edges known so far can be asked for.
LEMMA Arriving ==
    ASSUME Shape
    PROVE  /\ \A n : DirectItems(n) \subseteq Askable
           /\ \A n, o : IndirectItems(n, o) \subseteq Askable
BY EdgeItems DEF DirectItems, IndirectItems, Direct, Indirect, Shape

\* The edges of the calls found are among those the bound allows.
LEMMA EdgesWithin ==
    ASSUME NEW B, Shape, Within(B)
    PROVE  /\ Direct \subseteq DirectOf(g, CallsOf(B)) /\ Indirect \subseteq IndirectOf(g, CallsOf(B))
           /\ StrongObjs(g, CallsOf(B)) \subseteq StrongObjs(g, callGraphSCC)
BY DEF Shape, Within, Direct, Indirect, DirectOf, IndirectOf, StrongObjs

LEMMA FlowsDirect ==
    ASSUME NEW B, Shape, Within(B), Closes(B), NEW d \in Askable, Kind(d[1]) \in {"copy", "actual", "formal"}
    PROVE  \A t \in DirectItems(d[1]) : B[t] \subseteq B[d]
<1>1. Direct \subseteq DirectOf(g, CallsOf(B))
  BY EdgesWithin
<1> QED
  BY <1>1 DEF DirectItems, Closes

LEMMA FlowsMemory ==
    ASSUME NEW B, Shape, Within(B), Closes(B), NEW d \in Askable
    PROVE  /\ Kind(d[1]) = "mssa" => \A t \in IndirectItems(d[1], d[2]) : B[t] \subseteq B[d]
           /\ Kind(d[1]) = "load" =>
                 \A o \in B[PointerOf(d[1])] : \A t \in IndirectItems(d[1], o) : B[t] \subseteq B[d]
           /\ Kind(d[1]) = "store" /\ (\E o \in B[PointerOf(d[1])] : o # d[2] \/ o \notin StrongObjs(g, callGraphSCC))
                 => \A t \in IndirectItems(d[1], d[2]) : B[t] \subseteq B[d]
<1>1. /\ Indirect \subseteq IndirectOf(g, CallsOf(B))
      /\ StrongObjs(g, CallsOf(B)) \subseteq StrongObjs(g, callGraphSCC)
  BY EdgesWithin
<1>2. \A o : \A t \in IndirectItems(d[1], o) :
          \E e \in IndirectOf(g, CallsOf(B)) : t = <<e[1], e[3]>> /\ e[2] = d[1] /\ e[3] = o
  BY <1>1 DEF IndirectItems
<1>3. Kind(d[1]) = "mssa" => \A t \in IndirectItems(d[1], d[2]) : B[t] \subseteq B[d]
  BY <1>2 DEF Closes
<1>4. Kind(d[1]) = "load" =>
          \A o \in B[PointerOf(d[1])] : \A t \in IndirectItems(d[1], o) : B[t] \subseteq B[d]
  BY <1>2 DEF Closes
<1>5. Kind(d[1]) = "store" /\ (\E o \in B[PointerOf(d[1])] : o # d[2] \/ o \notin StrongObjs(g, callGraphSCC))
          => \A t \in IndirectItems(d[1], d[2]) : B[t] \subseteq B[d]
  BY <1>1, <1>2 DEF Closes
<1> QED
  BY <1>3, <1>4, <1>5

LEMMA SingleStatementWithin ==
    ASSUME NEW B, Shape, Within(B), Closes(B), handleSingleStatement
    PROVE  Shape' /\ Within(B)'
<1> DEFINE d == Top.item
           n == d[1]
           f == CASE Kind(n) = "addr" -> [Top EXCEPT !.stage = "edges", !.val = {Stmt(n).obj}]
                  [] Kind(n) \in {"load", "store"} ->
                        [Top EXCEPT !.stage = "pointer", !.todo = {Item(Stmt(n).ptr)}]
                  [] Kind(n) = "mssa" ->
                        [Top EXCEPT !.stage = "edges", !.todo = IndirectItems(n, d[2])]
                  [] OTHER -> [Top EXCEPT !.stage = "edges", !.todo = DirectItems(n)]
<1>1. stack # <<>> /\ Top.stage = "funptr" /\ Top.todo = {} /\ Become(f) /\ Unmoved
  BY DEF handleSingleStatement, Ready
<1>2. /\ Top \in Frames /\ d \in Askable /\ n \in NodesOf(g) /\ prog \in DOMAIN Programs
      /\ Kind(n) \in {"addr", "copy", "load", "store", "mssa", "actual", "formal"}
  BY <1>1, TopFrame, Kinds DEF Shape
<1>3. Top.val = {} /\ Top.base = {}
  BY <1>1, TopFrame DEF Within, FrameWithin
<1>4. f \in Frames /\ f.item = d /\ f.stage \in {"edges", "pointer"} /\ FrameWithin(B, f)
  <2>1. CASE Kind(n) = "addr"
    <3>1. f = [Top EXCEPT !.stage = "edges", !.val = {Stmt(n).obj}]
      BY <2>1
    <3>2. Stmt(n).obj \in Objs /\ Stmt(n).obj \in B[d]
      BY <1>2, <2>1, Kinds DEF Closes
    <3> HIDE DEF f
    <3>3. /\ f \in Frames /\ f.item = d /\ f.stage = "edges" /\ f.todo = {} /\ f.val = {Stmt(n).obj}
      BY <1>1, <1>2, <3>1, <3>2 DEF Frames, Stages
    <3> QED
      BY <2>1, <3>2, <3>3 DEF FrameWithin
  <2>2. CASE Kind(n) \in {"load", "store"}
    <3>1. f = [Top EXCEPT !.stage = "pointer", !.todo = {Item(Stmt(n).ptr)}]
      BY <2>2
    <3>2. Item(Stmt(n).ptr) \in Askable
      <4>1. Stmt(n).ptr \in Used(Stmt(n))
        BY <2>2 DEF Used, Kind, Stmt
      <4> QED
        BY <1>2, <4>1, UsedItem
    <3> HIDE DEF f
    <3>3. /\ f \in Frames /\ f.item = d /\ f.stage = "pointer" /\ f.todo = {PointerOf(n)}
          /\ f.val = {} /\ f.base = {}
      BY <1>1, <1>2, <1>3, <3>1, <3>2 DEF Frames, Stages, PointerOf
    <3> QED
      BY <2>2, <3>3 DEF FrameWithin
  <2>3. CASE Kind(n) = "mssa"
    <3>1. f = [Top EXCEPT !.stage = "edges", !.todo = IndirectItems(n, d[2])]
      BY <2>3
    <3>2. IndirectItems(n, d[2]) \subseteq Askable
      BY Arriving
    <3>3. \A t \in IndirectItems(n, d[2]) : B[t] \subseteq B[d]
      BY <1>2, <2>3, FlowsMemory
    <3> HIDE DEF f
    <3>4. /\ f \in Frames /\ f.item = d /\ f.stage = "edges" /\ f.todo = IndirectItems(n, d[2]) /\ f.val = {}
      BY <1>1, <1>2, <1>3, <3>1, <3>2 DEF Frames, Stages
    <3> QED
      BY <2>3, <3>3, <3>4 DEF FrameWithin
  <2>4. CASE Kind(n) \in {"copy", "actual", "formal"}
    <3>1. f = [Top EXCEPT !.stage = "edges", !.todo = DirectItems(n)]
      BY <2>4
    <3>2. DirectItems(n) \subseteq Askable
      BY Arriving
    <3>3. \A t \in DirectItems(n) : B[t] \subseteq B[d]
      BY <1>2, <2>4, FlowsDirect
    <3> HIDE DEF f
    <3>4. /\ f \in Frames /\ f.item = d /\ f.stage = "edges" /\ f.todo = DirectItems(n) /\ f.val = {}
      BY <1>1, <1>2, <1>3, <3>1, <3>2 DEF Frames, Stages
    <3> QED
      BY <2>4, <3>3, <3>4 DEF FrameWithin
  <2> QED
    BY <1>2, <2>1, <2>2, <2>3, <2>4
<1> HIDE DEF f
<1>5. UNCHANGED <<prog, caches, called>> /\ locToDpmSetMap' \subseteq Askable
      /\ (outOfBudgetQuery => outOfBudgetQuery')
  BY <1>1 DEF Unmoved, budget, Shape
<1> QED
  BY <1>1, <1>4, <1>5, BecomeKeeps

LEMMA PointerKnownWithin ==
    ASSUME NEW B, Shape, Within(B), PointerKnown
    PROVE  Shape' /\ Within(B)'
<1> DEFINE f == [Top EXCEPT !.stage = "edges", !.rest = Top.base]
<1>1. stack # <<>> /\ Top.stage = "pointer" /\ Top.todo = {} /\ Become(f) /\ Unmoved
  BY DEF PointerKnown, Ready
<1>2. Top \in Frames /\ FrameWithin(B, Top)
  BY <1>1, TopFrame DEF Within
<1>3. /\ f \in Frames /\ f.item = Top.item /\ f.stage = "edges" /\ f.todo = {} /\ f.rest = Top.base
      /\ f.base = Top.base /\ f.val = Top.val
  BY <1>1, <1>2 DEF Frames, Stages
<1> HIDE DEF f
<1>4. FrameWithin(B, f)
  BY <1>1, <1>2, <1>3 DEF FrameWithin
<1>5. UNCHANGED <<prog, caches, called>> /\ locToDpmSetMap' \subseteq Askable
      /\ (outOfBudgetQuery => outOfBudgetQuery')
  BY <1>1 DEF Unmoved, budget, Shape
<1> QED
  BY <1>1, <1>3, <1>4, <1>5, BecomeKeeps

LEMMA AccessObjectWithin ==
    ASSUME NEW B, Shape, Within(B), Closes(B), AccessObject
    PROVE  Shape' /\ Within(B)'
<1> DEFINE d == Top.item
           n == d[1]
<1>1. /\ stack # <<>> /\ Top.stage = "edges" /\ Top.todo = {} /\ Kind(n) \in {"load", "store"} /\ Unmoved
      /\ \E o \in Top.rest : Become(Accessed(n, o, d[2]))
  BY DEF AccessObject, Ready
<1>2. PICK o \in Top.rest : Become(Accessed(n, o, d[2]))
  BY <1>1
<1>3. Top \in Frames /\ d \in Askable /\ n \in NodesOf(g) /\ FrameWithin(B, Top) /\ prog \in DOMAIN Programs
  BY <1>1, TopFrame DEF Within, Shape
<1>4. /\ Top.val \subseteq B[d] /\ Top.base \subseteq B[PointerOf(n)] /\ Top.rest \subseteq Top.base
      /\ o \in Top.base /\ o \in B[PointerOf(n)]
  BY <1>1, <1>3 DEF FrameWithin
<1> DEFINE f == Accessed(n, o, d[2])
<1>5. f \in Frames /\ f.item = d /\ f.stage \in {"edges", "value"} /\ FrameWithin(B, f)
  <2>1. CASE Kind(n) = "load"
    <3>1. f = [Top EXCEPT !.rest = @ \ {o}, !.todo = IndirectItems(n, o)]
      BY <2>1 DEF Accessed
    <3>2. IndirectItems(n, o) \subseteq Askable /\ \A t \in IndirectItems(n, o) : B[t] \subseteq B[d]
      BY <1>3, <1>4, <2>1, Arriving, FlowsMemory
    <3> HIDE DEF f
    <3>3. /\ f \in Frames /\ f.item = d /\ f.stage = "edges" /\ f.todo = IndirectItems(n, o)
          /\ f.rest = Top.rest \ {o} /\ f.base = Top.base /\ f.val = Top.val
      BY <1>1, <1>3, <3>1, <3>2 DEF Frames
    <3> QED
      BY <1>4, <3>2, <3>3 DEF FrameWithin
  <2>2. CASE Kind(n) = "store" /\ o = d[2]
    <3>1. f = [Top EXCEPT !.rest = @ \ {o}, !.stage = "value", !.todo = {Item(Stmt(n).src)}]
      BY <2>2 DEF Accessed
    <3>2. Item(Stmt(n).src) \in Askable
      <4>1. Stmt(n).src \in Used(Stmt(n))
        BY <2>2 DEF Used, Kind, Stmt
      <4> QED
        BY <1>3, <4>1, UsedItem
    <3>3. B[Item(Stmt(n).src)] \subseteq B[d]
      BY <1>3, <1>4, <2>2 DEF Closes
    <3> HIDE DEF f
    <3>4. /\ f \in Frames /\ f.item = d /\ f.stage = "value" /\ f.todo = {Item(Stmt(n).src)}
          /\ f.rest = Top.rest \ {o} /\ f.base = Top.base /\ f.val = Top.val
      BY <1>1, <1>3, <3>1, <3>2 DEF Frames, Stages
    <3> QED
      BY <1>4, <2>2, <3>3, <3>4 DEF FrameWithin
  <2>3. CASE Kind(n) = "store" /\ o # d[2]
    <3>1. f = [Top EXCEPT !.rest = @ \ {o}, !.todo = IndirectItems(n, d[2])]
      BY <2>3 DEF Accessed
    <3>2. IndirectItems(n, d[2]) \subseteq Askable /\ \A t \in IndirectItems(n, d[2]) : B[t] \subseteq B[d]
      BY <1>3, <1>4, <2>3, Arriving, FlowsMemory
    <3> HIDE DEF f
    <3>3. /\ f \in Frames /\ f.item = d /\ f.stage = "edges" /\ f.todo = IndirectItems(n, d[2])
          /\ f.rest = Top.rest \ {o} /\ f.base = Top.base /\ f.val = Top.val
      BY <1>1, <1>3, <3>1, <3>2 DEF Frames
    <3> QED
      BY <1>4, <3>2, <3>3 DEF FrameWithin
  <2> QED
    BY <1>1, <2>1, <2>2, <2>3
<1> HIDE DEF f
<1>6. UNCHANGED <<prog, caches, called>> /\ locToDpmSetMap' \subseteq Askable
      /\ (outOfBudgetQuery => outOfBudgetQuery')
  BY <1>1 DEF Unmoved, budget, Shape
<1>7. Become(f)
  BY <1>2 DEF f
<1> QED
  BY <1>1, <1>5, <1>6, <1>7, BecomeKeeps

LEMMA StoredWithin ==
    ASSUME NEW B, Shape, Within(B), Closes(B), Stored
    PROVE  Shape' /\ Within(B)'
<1> DEFINE d == Top.item
           n == d[1]
           items == IF isStrongUpdate(Top.base) THEN {} ELSE IndirectItems(n, d[2])
           f == [Top EXCEPT !.stage = "edges", !.todo = items]
<1>1. stack # <<>> /\ Top.stage = "value" /\ Top.todo = {} /\ Become(f) /\ Unmoved
  BY DEF Stored, Ready
<1>2. Top \in Frames /\ d \in Askable /\ FrameWithin(B, Top)
  BY <1>1, TopFrame DEF Within
<1>3. /\ Kind(n) = "store" /\ d[2] \in Top.base /\ Top.base \subseteq B[PointerOf(n)]
      /\ Top.val \subseteq B[d] /\ Top.rest \subseteq Top.base
  BY <1>1, <1>2 DEF FrameWithin
<1>4. items \subseteq Askable
  BY Arriving
\* An update that is not strong may access another object, or one it cannot kill.
<1>5. \A t \in items : B[t] \subseteq B[d]
  <2>1. SUFFICES ASSUME ~isStrongUpdate(Top.base)
                 PROVE  \E o \in Top.base : o # d[2] \/ o \notin StrongObjs(g, callGraphSCC)
    BY <1>2, <1>3, FlowsMemory
  <2>2. SUFFICES ASSUME \A o \in Top.base : o = d[2] /\ o \in StrongObjs(g, callGraphSCC)
                 PROVE  FALSE
    OBVIOUS
  <2>3. Top.base = {d[2]} /\ Top.base \subseteq StrongObjs(g, callGraphSCC)
    BY <1>3, <2>2
  <2>4. Cardinality({d[2]}) = 1
    BY FS_Singleton
  <2> QED
    BY <2>1, <2>3, <2>4 DEF isStrongUpdate
<1> HIDE DEF items
<1>6. /\ f \in Frames /\ f.item = d /\ f.stage = "edges" /\ f.todo = items
      /\ f.rest = Top.rest /\ f.base = Top.base /\ f.val = Top.val
  BY <1>1, <1>2, <1>4 DEF Frames, Stages
<1> HIDE DEF f
<1>7. FrameWithin(B, f)
  BY <1>3, <1>5, <1>6 DEF FrameWithin
<1>8. UNCHANGED <<prog, caches, called>> /\ locToDpmSetMap' \subseteq Askable
      /\ (outOfBudgetQuery => outOfBudgetQuery')
  BY <1>1 DEF Unmoved, budget, Shape
<1> QED
  BY <1>1, <1>6, <1>7, <1>8, BecomeKeeps

LEMMA FollowEdgeWithin ==
    ASSUME NEW B, Shape, Within(B), FollowEdge
    PROVE  Shape' /\ Within(B)'
<1>1. stack # <<>> /\ Top.stage \in {"calls", "uses"} /\ Unmoved
  BY DEF FollowEdge
<1>2. PICK e \in Top.rest : Become([Top EXCEPT !.rest = @ \ {e}, !.todo = Affected(Top.item, e)])
  BY DEF FollowEdge
<1> DEFINE f == [Top EXCEPT !.rest = @ \ {e}, !.todo = Affected(Top.item, e)]
<1>3. Top \in Frames /\ Affected(Top.item, e) \subseteq Askable
  BY <1>1, TopFrame DEF Affected, Shape
<1>4. f \in Frames /\ f.item = Top.item /\ f.stage = Top.stage
  BY <1>3 DEF Frames
<1>5. Become(f)
  BY <1>2
<1> HIDE DEF f
<1>6. FrameWithin(B, f)
  BY <1>1, <1>4 DEF FrameWithin
<1>7. UNCHANGED <<prog, caches, called>> /\ locToDpmSetMap' \subseteq Askable
      /\ (outOfBudgetQuery => outOfBudgetQuery')
  BY <1>1 DEF Unmoved, budget, Shape
<1> QED
  BY <1>1, <1>4, <1>5, <1>6, <1>7, BecomeKeeps

LEMMA ReComputeWithin ==
    ASSUME NEW B, Shape, Within(B), reCompute
    PROVE  Shape' /\ Within(B)'
<1> DEFINE n == Top.item[1]
           edges == {<<e[2], "direct">> : e \in {f \in Direct : f[1] = n}}
                       \cup {<<e[2], "indirect">> : e \in {f \in Indirect : f[1] = n}}
           h == [Top EXCEPT !.stage = "uses", !.rest = edges]
<1>1. stack # <<>> /\ Top.stage = "calls" /\ Become(h) /\ Unmoved
  BY DEF reCompute, Ready
<1>2. Top \in Frames
  BY <1>1, TopFrame
<1>3. edges \subseteq NodesOf(g) \X EdgeKinds
  <2>1. \A e \in Direct \cup Indirect : e[2] \in NodesOf(g)
    BY EdgeItems DEF Direct, Indirect, Shape
  <2> QED
    BY <2>1 DEF EdgeKinds
<1> HIDE DEF edges
<1>4. h \in Frames /\ h.item = Top.item /\ h.stage = "uses"
  BY <1>2, <1>3 DEF Frames, Stages
<1> HIDE DEF h
<1>5. FrameWithin(B, h)
  BY <1>4 DEF FrameWithin
<1>6. UNCHANGED <<prog, caches, called>> /\ locToDpmSetMap' \subseteq Askable
      /\ (outOfBudgetQuery => outOfBudgetQuery')
  BY <1>1 DEF Unmoved, budget, Shape
<1> QED
  BY <1>1, <1>4, <1>5, <1>6, BecomeKeeps

-----------------------------------------------------------------------------
(***************************************************************************)
(* The end of a call.                                                      *)
(***************************************************************************)
\* Nothing is left to do, or the call below uses what the cache holds now.
LEMMA PopWithin ==
    ASSUME NEW B, Shape, Within(B), stack # <<>>, stack' = Pop(Top.item),
           UNCHANGED <<prog, caches, called, locToDpmSetMap, outOfBudgetQuery>>,
           Below = <<>> /\ outOfBudgetQuery => outOfBudgetDpms' # {}
    PROVE  Shape' /\ Within(B)'
<1>0. PICK t : t = stack'
  OBVIOUS
<1>1. /\ Top \in Frames /\ Top = stack[1] /\ Len(stack) \in Nat \ {0} /\ Top.item \in Askable
      /\ stack \in Seq(Frames)
  BY TopFrame DEF Shape
<1>2. \A x \in Askable : getCachedPointsTo(x)' = getCachedPointsTo(x)
  BY SameProgram DEF getCachedPointsTo, caches
<1>3. CASE Below = <<>>
  <2>1. stack' = <<>> /\ <<>> \in Seq(Frames) /\ Len(<<>>) = 0
    BY <1>3 DEF Pop
  <2>2. Within(B)'
    BY <1>2, <2>1, WithinNext DEF Within
  <2>3. Chained(<<>>) /\ Founded(<<>>, outOfBudgetQuery')
    BY <2>1 DEF Chained, Founded
  <2>4. Shape'
    BY <1>3, <2>1, <2>3, SameProgram DEF Shape, caches
  <2> QED
    BY <2>2, <2>4
<1>4. CASE Below # <<>>
  <2> DEFINE h == Head(Below)
             f == Absorb(h, Top.item, getCachedPointsTo(Top.item))
  <2>1. Tail(stack) # <<>> /\ Len(stack) \in Nat /\ Len(stack) >= 2 /\ h \in Frames /\ h = stack[2]
    <3>1. Tail(stack) \in Seq(Frames) /\ Len(Tail(stack)) = Len(stack) - 1 /\ Tail(stack) # <<>>
      BY <1>1, <1>4 DEF Below
    <3>2. Len(Tail(stack)) \in Nat \ {0} /\ Head(Tail(stack)) \in Frames
      BY <3>1
    <3>3. Len(stack) >= 2
      BY <1>1, <3>1, <3>2
    <3>4. Head(Tail(stack)) = stack[2]
      BY <1>1, <3>1, <3>2, <3>3
    <3> QED
      BY <1>1, <3>1, <3>2, <3>3, <3>4 DEF Below
  <2>2. Top.item \in h.todo /\ FrameWithin(B, h)
    <3>1. 1 \in 1 .. Len(stack) - 1 /\ 2 \in 1 .. Len(stack) /\ 1 + 1 = 2
      BY <2>1
    <3>2. stack[1].item \in stack[1 + 1].todo
      BY <3>1 DEF Shape, Chained
    <3> QED
      BY <1>1, <2>1, <3>1, <3>2 DEF Within
  <2>3. getCachedPointsTo(Top.item) \subseteq Objs /\ getCachedPointsTo(Top.item) \subseteq B[Top.item]
    BY <1>1, CacheTyped DEF Within
  <2> HIDE DEF h
  <2>4. f \in Frames /\ FrameWithin(B, f) /\ f.item = h.item /\ f.stage = h.stage
    BY <2>1, <2>2, <2>3, AbsorbWithin
  <2>5. t = <<f>> \o Tail(Tail(stack))
    BY <1>0, <1>4 DEF Pop, Below, h
  <2> HIDE DEF f
  <2>6. /\ t \in Seq(Frames) /\ Len(t) = Len(stack) - 1 /\ Len(t) \in Nat \ {0}
        /\ t[1] = f /\ \A i \in 2 .. Len(t) : t[i] = stack[i + 1]
    BY <1>1, <2>1, <2>4, <2>5, Popped
  <2>7. \A i \in 1 .. Len(t) : FrameWithin(B, t[i])
    <3>1. SUFFICES ASSUME NEW i \in 1 .. Len(t), i # 1 PROVE FrameWithin(B, t[i])
      BY <2>4, <2>6
    <3>2. i \in 2 .. Len(t) /\ i + 1 \in 1 .. Len(stack)
      BY <2>1, <2>6, <3>1
    <3> QED
      BY <2>6, <3>2 DEF Within
  <2>8. Chained(t)
    <3>1. SUFFICES ASSUME NEW i \in 1 .. Len(t) - 1 PROVE t[i].item \in t[i + 1].todo
      BY DEF Chained
    <3>2. i + 1 \in 2 .. Len(t) /\ i + 1 \in 1 .. Len(stack) - 1 /\ (i + 1) + 1 = i + 2
      BY <2>1, <2>6, <3>1
    <3>3. stack[i + 1].item \in stack[i + 2].todo
      BY <3>2 DEF Shape, Chained
    <3>4. t[i + 1] = stack[i + 2]
      BY <2>6, <3>2
    <3>5. t[i].item = stack[i + 1].item
      <4>1. CASE i = 1
        BY <2>1, <2>4, <2>6, <4>1
      <4>2. CASE i # 1
        <5>1. i \in 2 .. Len(t)
          BY <2>6, <3>1, <4>2
        <5> QED
          BY <2>6, <5>1
      <4> QED
        BY <4>1, <4>2
    <3> QED
      BY <3>3, <3>4, <3>5
  <2>9. Founded(t, outOfBudgetQuery')
    <3>1. Founded(stack, outOfBudgetQuery)
      BY DEF Shape
    <3>2. t[Len(t)].stage = stack[Len(stack)].stage
      <4>1. CASE Len(t) = 1
        BY <2>1, <2>4, <2>6, <4>1
      <4>2. CASE Len(t) # 1
        <5>1. Len(t) \in 2 .. Len(t) /\ Len(t) + 1 = Len(stack)
          BY <1>1, <2>1, <2>6, <4>2
        <5> QED
          BY <2>6, <5>1
      <4> QED
        BY <4>1, <4>2
    <3> QED
      BY <3>1, <3>2 DEF Founded
  <2>10. Within(B)'
    BY <1>0, <1>2, <2>7, WithinNext DEF Within
  <2>11. t # <<>>
    BY <2>6
  <2>12. Shape'
    BY <1>0, <2>6, <2>8, <2>9, <2>11, SameProgram DEF Shape, caches
  <2> QED
    BY <2>10, <2>12
<1> QED
  BY <1>3, <1>4

LEMMA RecomputedWithin ==
    ASSUME NEW B, Shape, Within(B), Recomputed
    PROVE  Shape' /\ Within(B)'
<1>1. /\ stack # <<>> /\ stack' = Pop(Top.item)
      /\ UNCHANGED <<prog, caches, called, locToDpmSetMap, outOfBudgetQuery>>
      /\ outOfBudgetDpms' = outOfBudgetDpms \cup (IF Below = <<>> THEN {Top.item} ELSE {})
  BY DEF Recomputed, Ready
<1>2. Below = <<>> => outOfBudgetDpms' # {}
  BY <1>1
<1> QED
  BY <1>1, <1>2, PopWithin

\* A set that grows within the bound resolves calls the bound resolves.
LEMMA GrowWithin ==
    ASSUME NEW B, Shape, Within(B), Closes(B), stack # <<>>, Top.stage \in {"edges", "query"},
           Top.stage = "query" => outOfBudgetQuery,
           NEW set \in SUBSET Objs, set \subseteq B[Top.item], Grow(Top.item, set)
    PROVE  Shape' /\ Within(B)'
<1> DEFINE d   == Top.item
           new == NewCalls(d, getCachedPointsTo(d) \cup set)
           to  == {<<e[2], "call">> : e \in UNION {c.direct \cup c.indirect : c \in new}}
           f   == [Frame(d, "calls", {}) EXCEPT !.rest = to]
<1>0. PICK t : t = stack'
  OBVIOUS
<1>1. /\ unionDDAPts(d, set) /\ called' = called \cup new /\ Become(f)
      /\ callGraphSCC' \in {callGraphSCC, called'}
      /\ UNCHANGED <<prog, maxBudget, backwardVisited, locToDpmSetMap, budget, queried>>
  BY DEF Grow
<1>2. Top \in Frames /\ d \in Askable /\ d[1] \in NodesOf(g) /\ prog \in DOMAIN Programs
  BY TopFrame DEF Shape
<1>3. getCachedPointsTo(d) \subseteq B[d] /\ called \subseteq CallsOf(B)
  BY <1>2 DEF Within
<1>4. new \subseteq CallsOf(B) /\ new \subseteq g.calls
  <2>1. SUFFICES ASSUME NEW c \in new PROVE c \in CallsOf(B) /\ c \in g.calls
    OBVIOUS
  <2>2. c \in g.calls /\ c.ptr = d[2] /\ c.callee \in B[d]
    BY <1>3 DEF NewCalls
  <2>3. c.ptr \in Vars /\ Item(c.ptr) \in Askable /\ Item(c.ptr)[2] = d[2] /\ isTopLevelPtrStmt(Item(c.ptr)[1])
    BY <1>2, <2>2, CallItem
  <2>4. isTopLevelPtrStmt(d[1])
    BY <1>2, <2>2, <2>3, ProgramsAssumption DEF Askable
  <2>5. B[Item(c.ptr)] = B[d]
    BY <1>2, <2>3, <2>4 DEF Closes
  <2> QED
    BY <2>2, <2>5 DEF CallsOf
<1>5. to \subseteq NodesOf(g) \X EdgeKinds
  <2>1. \A c \in g.calls : c.direct \subseteq DirectOf(g, g.calls) /\ c.indirect \subseteq IndirectOf(g, g.calls)
    BY DEF DirectOf, IndirectOf
  <2>2. /\ \A e \in DirectOf(g, g.calls) : e[2] \in NodesOf(g)
        /\ \A e \in IndirectOf(g, g.calls) : e[2] \in NodesOf(g)
    BY <1>2, EdgeItems
  <2>3. \A e \in UNION {c.direct \cup c.indirect : c \in new} : e[2] \in NodesOf(g)
    BY <1>4, <2>1, <2>2
  <2> HIDE DEF new
  <2> QED
    BY <2>3 DEF EdgeKinds
<1> HIDE DEF new, to
<1>6. f \in Frames /\ f.item = d /\ f.stage = "calls"
  BY <1>2, <1>5 DEF Frame, Frames, Stages
<1> HIDE DEF f
<1>7. FrameWithin(B, f)
  BY <1>6 DEF FrameWithin
\* The sets stay within the bound; a top-level pointer has one, at whichever node.
<1>8. \A x \in Askable : getCachedPointsTo(x)' \subseteq B[x]
  <2>1. SUFFICES ASSUME NEW x \in Askable PROVE getCachedPointsTo(x)' \subseteq B[x]
    OBVIOUS
  <2>2. getCachedPointsTo(x) \subseteq B[x]
    BY DEF Within
  <2>3. getCachedPointsTo(x)' = IF isTopLevelPtrStmt(x[1]) THEN pts'[x[2]] ELSE dpmToADCPtSetMap'[x]
    BY <1>1, SameProgram DEF getCachedPointsTo
  <2>4. CASE isTopLevelPtrStmt(d[1])
    <3>1. d[2] \in Vars /\ pts' = [pts EXCEPT ![d[2]] = @ \cup set] /\ dpmToADCPtSetMap' = dpmToADCPtSetMap
      BY <1>1, <1>2, <2>4, Kinds DEF unionDDAPts, Askable
    <3>2. CASE isTopLevelPtrStmt(x[1])
      <4>1. x[2] \in Vars
        BY <1>2, <3>2, Kinds DEF Askable
      <4>2. pts'[x[2]] = IF x[2] = d[2] THEN pts[x[2]] \cup set ELSE pts[x[2]]
        BY <3>1, <4>1 DEF Shape
      <4>3. x[2] = d[2] => B[x] = B[d]
        BY <1>2, <2>4, <3>2 DEF Closes
      <4> QED
        BY <2>2, <2>3, <3>2, <4>2, <4>3 DEF getCachedPointsTo
    <3>3. CASE ~isTopLevelPtrStmt(x[1])
      BY <2>2, <2>3, <3>1, <3>3 DEF getCachedPointsTo
    <3> QED
      BY <3>2, <3>3
  <2>5. CASE ~isTopLevelPtrStmt(d[1])
    <3>1. dpmToADCPtSetMap' = [dpmToADCPtSetMap EXCEPT ![d] = @ \cup set] /\ pts' = pts
      BY <1>1, <2>5 DEF unionDDAPts
    <3>2. CASE isTopLevelPtrStmt(x[1])
      BY <2>2, <2>3, <3>1, <3>2 DEF getCachedPointsTo
    <3>3. CASE ~isTopLevelPtrStmt(x[1])
      <4>1. x \in {n \in NodesOf(g) : ~isTopLevelPtrStmt(n)} \X Objs
        BY <3>3 DEF Askable
      <4>2. dpmToADCPtSetMap'[x] = IF x = d THEN dpmToADCPtSetMap[x] \cup set ELSE dpmToADCPtSetMap[x]
        BY <3>1, <4>1 DEF Shape
      <4> QED
        BY <2>2, <2>3, <3>3, <4>2 DEF getCachedPointsTo
    <3> QED
      BY <3>2, <3>3
  <2> QED
    BY <2>4, <2>5
<1>9. /\ pts' \in [Vars -> SUBSET Objs]
      /\ dpmToADCPtSetMap' \in [{n \in NodesOf(g) : ~isTopLevelPtrStmt(n)} \X Objs -> SUBSET Objs]
  BY <1>1 DEF Shape, unionDDAPts
<1>10. called' \subseteq CallsOf(B) /\ called' \subseteq g.calls /\ callGraphSCC' \subseteq called'
  BY <1>1, <1>3, <1>4 DEF Shape
<1>11. /\ t \in Seq(Frames) /\ Len(t) = Len(stack) /\ Len(stack) \in Nat \ {0}
       /\ t[1] = f /\ \A i \in 2 .. Len(stack) : t[i] = stack[i]
  <2>1. stack \in Seq(Frames) /\ t = <<f>> \o Tail(stack)
    BY <1>0, <1>1 DEF Shape, Become, Below
  <2> QED
    BY <1>6, <2>1, Replaced
<1>12. \A i \in 1 .. Len(t) : FrameWithin(B, t[i])
  <2>1. SUFFICES ASSUME NEW i \in 1 .. Len(t) PROVE FrameWithin(B, t[i])
    OBVIOUS
  <2>2. i = 1 \/ (i \in 2 .. Len(stack) /\ i \in 1 .. Len(stack))
    BY <1>11
  <2> QED
    BY <1>7, <1>11, <2>2 DEF Within
<1>13. Within(B)'
  BY <1>0, <1>1, <1>8, <1>10, <1>12, WithinNext
<1>14. Shape'
  <2>1. locToDpmSetMap' \subseteq Askable /\ (outOfBudgetQuery => outOfBudgetQuery')
    BY <1>1 DEF Shape, budget
  <2> QED
    BY <1>1, <1>6, <1>9, <1>10, <2>1, BecomeShape
<1> QED
  BY <1>13, <1>14

LEMMA UpdateWithin ==
    ASSUME NEW B, Shape, Within(B), Closes(B), updateCachedPointsTo
    PROVE  Shape' /\ Within(B)'
<1>1. stack # <<>> /\ Top.stage = "edges"
  BY DEF updateCachedPointsTo, Ready
<1>2. Top \in Frames /\ Top = stack[1] /\ Len(stack) \in Nat \ {0} /\ (Below = <<>> => Len(stack) = 1)
  BY <1>1, TopFrame
<1>3. CASE stack' = Pop(Top.item) /\ Unmoved
  <2>1. Below # <<>>
    BY <1>1, <1>2 DEF Shape, Founded
  <2>2. UNCHANGED <<prog, caches, called, locToDpmSetMap, outOfBudgetQuery>>
    BY <1>3 DEF Unmoved, budget
  <2> QED
    BY <1>1, <1>3, <2>1, <2>2, PopWithin
<1>4. CASE Grow(Top.item, Top.val)
  <2>1. FrameWithin(B, Top)
    BY <1>2 DEF Within
  <2>2. Top.val \in SUBSET Objs /\ Top.val \subseteq B[Top.item]
    BY <1>1, <1>2, <2>1 DEF FrameWithin, Frames
  <2> QED
    BY <1>1, <1>4, <2>2, GrowWithin
<1> QED
  BY <1>3, <1>4 DEF updateCachedPointsTo

-----------------------------------------------------------------------------
(***************************************************************************)
(* Queries.                                                                *)
(***************************************************************************)
LEMMA ComputeWithin ==
    ASSUME NEW B, Shape, Within(B), computeDDAPts
    PROVE  Shape' /\ Within(B)'
<1>1. PICK n \in Defs : stack' = <<Frame(Item(Pointer(n)), "query", {Item(Pointer(n))})>>
  BY DEF computeDDAPts
<1>2. /\ UNCHANGED <<prog, caches, called>> /\ locToDpmSetMap' = {} /\ outOfBudgetQuery' = FALSE
  BY DEF computeDDAPts
<1> DEFINE d == Item(Pointer(n))
           f == Frame(d, "query", {d})
           t == <<f>>
<1>3. d \in Askable
  <2>1. n \in NodesOf(g) /\ Pointer(n) \in Vars /\ Pointer(n) \in Defined(g.stmt[n])
    <3>1. n \in NodesOf(g) /\ Kind(n) \in {"addr", "copy", "load", "formal"} /\ Typed(Stmt(n))
      BY Kinds DEF Defs, Shape
    <3> QED
      BY <3>1 DEF Pointer, Defined, Typed, Kind, Stmt
  <2> QED
    BY <2>1, DefinedItem DEF Shape
<1>4. f \in Frames /\ f.item = d /\ f.stage = "query"
  BY <1>3 DEF Frame, Frames, Stages
<1>5. FrameWithin(B, f)
  BY <1>4 DEF FrameWithin
<1> HIDE DEF f
<1>6. t \in Seq(Frames) /\ Len(t) = 1 /\ t[1] = f /\ t # <<>>
  BY <1>4
<1>7. \A x \in Askable : getCachedPointsTo(x)' = getCachedPointsTo(x)
  BY <1>2, SameProgram DEF getCachedPointsTo, caches
<1>8. stack' = t
  BY <1>1 DEF f
<1> HIDE DEF t
<1>9. \A i \in 1 .. Len(t) : FrameWithin(B, t[i])
  BY <1>5, <1>6
<1>10. Within(B)'
  BY <1>2, <1>7, <1>8, <1>9, WithinNext DEF Within
<1>11. Chained(t) /\ Founded(t, outOfBudgetQuery')
  BY <1>4, <1>6 DEF Chained, Founded
<1>12. Shape'
  BY <1>2, <1>6, <1>8, <1>11, SameProgram DEF Shape, caches
<1> QED
  BY <1>10, <1>12

\* A query is over.
LEMMA EndWithin ==
    ASSUME NEW B, Shape, Within(B), stack' = <<>>,
           UNCHANGED <<prog, caches, called, locToDpmSetMap, outOfBudgetQuery>>,
           outOfBudgetQuery => outOfBudgetDpms' # {}
    PROVE  Shape' /\ Within(B)'
<1>1. <<>> \in Seq(Frames) /\ Len(<<>>) = 0
  OBVIOUS
<1>2. \A x \in Askable : getCachedPointsTo(x)' = getCachedPointsTo(x)
  BY SameProgram DEF getCachedPointsTo, caches
<1>3. Within(B)'
  BY <1>1, <1>2, WithinNext DEF Within
<1>4. Chained(<<>>) /\ Founded(<<>>, outOfBudgetQuery')
  BY <1>1 DEF Chained, Founded
<1>5. Shape'
  BY <1>1, <1>4, SameProgram DEF Shape, caches
<1> QED
  BY <1>3, <1>5

-----------------------------------------------------------------------------
(***************************************************************************)
(* The invariant.                                                          *)
(***************************************************************************)
LEMMA StepWithin ==
    ASSUME NEW B, Shape, Within(B), Closes(B), Next,
           handleOutOfBudgetDpm => AndersenPts[prog][Top.item[2]] \subseteq B[Top.item]
    PROVE  Shape' /\ Within(B)'
<1>1. CASE findPT
  BY <1>1, FindPTWithin
<1>2. CASE handleSingleStatement
  BY <1>2, SingleStatementWithin
<1>3. CASE PointerKnown
  BY <1>3, PointerKnownWithin
<1>4. CASE AccessObject
  BY <1>4, AccessObjectWithin
<1>5. CASE Stored
  BY <1>5, StoredWithin
<1>6. CASE updateCachedPointsTo
  BY <1>6, UpdateWithin
<1>7. CASE FollowEdge
  BY <1>7, FollowEdgeWithin
<1>8. CASE reCompute
  BY <1>8, ReComputeWithin
<1>9. CASE Recomputed
  BY <1>9, RecomputedWithin
<1>10. CASE computeDDAPts
  BY <1>10, ComputeWithin
<1>11. CASE Answer
  <2>1. /\ stack' = <<>> /\ ~outOfBudgetQuery
        /\ UNCHANGED <<prog, caches, called, locToDpmSetMap, outOfBudgetQuery>>
    BY <1>11 DEF Answer, Unmoved, budget
  <2> QED
    BY <2>1, EndWithin
<1>12. CASE handleOutOfBudgetDpm
  <2> DEFINE d == Top.item
             andr == AndersenPts[prog][d[2]]
  <2>1. stack # <<>> /\ Top.stage = "query" /\ outOfBudgetQuery
    BY <1>12 DEF handleOutOfBudgetDpm, Ready
  <2>2. d \in Askable /\ prog \in DOMAIN Programs
    BY <2>1, TopFrame DEF Shape
  <2>3. CASE /\ stack' = <<>> /\ outOfBudgetDpms' = outOfBudgetDpms \cup {d}
             /\ UNCHANGED <<prog, caches, called, locToDpmSetMap, outOfBudgetQuery>>
    <3>1. outOfBudgetDpms' # {}
      BY <2>3
    <3> QED
      BY <2>3, <3>1, EndWithin
  <2>4. CASE Grow(d, andr)
    <3>1. d[2] \in Vars \cup Objs
      BY <2>2 DEF Askable
    <3>2. andr \in SUBSET Objs
      BY <2>2, <3>1, AndersenFixed DEF AllPts
    <3> QED
      BY <1>12, <2>1, <2>4, <3>2, GrowWithin
  <2> QED
    BY <1>12, <2>3, <2>4 DEF handleOutOfBudgetDpm
<1> QED
  BY <1>1, <1>2, <1>3, <1>4, <1>5, <1>6, <1>7, <1>8, <1>9, <1>10, <1>11, <1>12 DEF Next, Solve

LEMMA SameBounds ==
    ASSUME prog' = prog
    PROVE  CoarseBound' = CoarseBound /\ ExactBound' = ExactBound
<1>1. Askable' = Askable /\ g' = g /\ \A n : isTopLevelPtrStmt(n)' = isTopLevelPtrStmt(n)
  BY SameProgram
<1>2. \A d : Exact(d)' = Exact(d)
  BY <1>1 DEF Exact
<1> QED
  BY <1>1, <1>2 DEF CoarseBound, ExactBound

\* Until a query falls back on Andersen's answer, none has.
LEMMA PureBefore ==
    ASSUME Shape, Next, Pure'
    PROVE  Pure /\ ~handleOutOfBudgetDpm
<1>1. outOfBudgetDpms \subseteq outOfBudgetDpms'
  <2>1. \A d : Mark(d) => outOfBudgetDpms' = outOfBudgetDpms
    BY DEF Mark
  <2>2. findPT => outOfBudgetDpms' = outOfBudgetDpms
    BY <2>1 DEF findPT, Visited, OutOfBudget, Handle, budget
  <2> QED
    BY <2>2 DEF Next, Solve, handleSingleStatement, PointerKnown, AccessObject, Stored, updateCachedPointsTo,
                FollowEdge, reCompute, Recomputed, Answer, handleOutOfBudgetDpm, computeDDAPts, Grow, Unmoved,
                budget
<1>2. outOfBudgetDpms = {}
  BY <1>1 DEF Pure
<1>3. ~handleOutOfBudgetDpm
  BY DEF handleOutOfBudgetDpm, Pure, Grow, budget
<1>4. ~outOfBudgetQuery
  <2>1. CASE computeDDAPts
    BY <1>2, <2>1 DEF computeDDAPts, Shape
  <2>2. CASE findPT
    <3>1. \A d : Mark(d) => (outOfBudgetQuery => outOfBudgetQuery')
      BY DEF Mark
    <3> QED
      BY <2>2, <3>1 DEF findPT, Visited, OutOfBudget, Handle, budget, Pure
  <2>3. CASE Solve /\ ~findPT
    BY <1>3, <2>3 DEF Pure, Solve, handleSingleStatement, PointerKnown, AccessObject, Stored,
                      updateCachedPointsTo, FollowEdge, reCompute, Recomputed, Answer, Grow, Unmoved, budget
  <2> QED
    BY <2>1, <2>2, <2>3 DEF Next
<1> QED
  BY <1>2, <1>3, <1>4 DEF Pure

LEMMA InitDDAInv == Init => DDAInv
<1>1. SUFFICES ASSUME Init PROVE DDAInv
  OBVIOUS
<1>2. /\ prog \in DOMAIN Programs /\ called = {} /\ callGraphSCC = {}
      /\ locToDpmSetMap = {} /\ stack = <<>> /\ ~outOfBudgetQuery
      /\ pts = [v \in Vars |-> {}]
      /\ dpmToADCPtSetMap = [d \in {n \in NodesOf(g) : ~isTopLevelPtrStmt(n)} \X Objs |-> {}]
  BY <1>1 DEF Init
<1>3. <<>> \in Seq(Frames) /\ Len(<<>>) = 0
  OBVIOUS
<1>4. Shape
  <2>1. Chained(<<>>) /\ Founded(<<>>, outOfBudgetQuery)
    BY <1>3 DEF Chained, Founded
  <2> QED
    BY <1>2, <1>3, <2>1 DEF Shape
<1>5. \A d \in Askable : getCachedPointsTo(d) = {}
  <2>1. SUFFICES ASSUME NEW d \in Askable PROVE getCachedPointsTo(d) = {}
    OBVIOUS
  <2>2. CASE isTopLevelPtrStmt(d[1])
    <3>1. d[2] \in Vars
      BY <1>2, <2>2, Kinds DEF Askable
    <3> QED
      BY <1>2, <2>2, <3>1 DEF getCachedPointsTo
  <2>3. CASE ~isTopLevelPtrStmt(d[1])
    <3>1. d \in {n \in NodesOf(g) : ~isTopLevelPtrStmt(n)} \X Objs
      BY <2>3 DEF Askable
    <3> QED
      BY <1>2, <2>3, <3>1 DEF getCachedPointsTo
  <2> QED
    BY <2>2, <2>3
<1>6. \A B : Within(B)
  BY <1>2, <1>3, <1>5 DEF Within
<1> QED
  BY <1>4, <1>6 DEF DDAInv

LEMMA NextDDAInv == DDAInv /\ [Next]_vars => DDAInv'
<1>1. SUFFICES ASSUME DDAInv, [Next]_vars PROVE DDAInv'
  OBVIOUS
<1>2. Shape /\ prog \in DOMAIN Programs
  BY <1>1 DEF DDAInv, Shape
<1>3. CASE Next
  <2>1. prog' = prog
    BY <1>3 DEF Next, Solve, findPT, handleSingleStatement, PointerKnown, AccessObject, Stored,
                updateCachedPointsTo, FollowEdge, reCompute, Recomputed, Answer, handleOutOfBudgetDpm,
                computeDDAPts, Grow, Unmoved
  <2>2. CoarseBound' = CoarseBound /\ ExactBound' = ExactBound
    BY <2>1, SameBounds
  <2>3. Shape' /\ Within(CoarseBound)'
    <3>1. PICK B : B = CoarseBound
      OBVIOUS
    <3>2. Within(B) /\ Closes(B)
      BY <1>1, <1>2, <3>1, CoarseCloses DEF DDAInv
    <3>3. handleOutOfBudgetDpm => AndersenPts[prog][Top.item[2]] \subseteq B[Top.item]
      BY <1>2, <3>1, TopFrame DEF handleOutOfBudgetDpm, Ready, CoarseBound
    <3>4. Shape' /\ Within(B)'
      BY <1>2, <1>3, <3>2, <3>3, StepWithin
    <3> QED
      BY <2>2, <3>1, <3>4 DEF Within, FrameWithin, CallsOf
  <2>4. ASSUME Pure' PROVE Within(ExactBound)'
    <3>1. PICK B : B = ExactBound
      OBVIOUS
    <3>2. Pure /\ ~handleOutOfBudgetDpm
      BY <1>2, <1>3, <2>4, PureBefore
    <3>3. Within(B) /\ Closes(B)
      BY <1>1, <1>2, <3>1, <3>2, ExactCloses DEF DDAInv
    <3>4. Within(B)'
      BY <1>2, <1>3, <3>2, <3>3, StepWithin
    <3> QED
      BY <2>2, <3>1, <3>4 DEF Within, FrameWithin, CallsOf
  <2> QED
    BY <2>3, <2>4 DEF DDAInv
<1>4. CASE vars' = vars
  <2>1. /\ prog' = prog /\ pts' = pts /\ dpmToADCPtSetMap' = dpmToADCPtSetMap /\ called' = called
        /\ callGraphSCC' = callGraphSCC /\ locToDpmSetMap' = locToDpmSetMap /\ stack' = stack
        /\ outOfBudgetDpms' = outOfBudgetDpms /\ outOfBudgetQuery' = outOfBudgetQuery
    BY <1>4 DEF vars, caches, budget
  <2>2. Shape'
    BY <1>2, <2>1, SameProgram DEF Shape
  <2>3. \A x : getCachedPointsTo(x)' = getCachedPointsTo(x)
    BY <2>1, SameProgram DEF getCachedPointsTo
  <2>4. ASSUME NEW B, Within(B) PROVE Within(B)'
    <3>1. PICK s : s = stack'
      OBVIOUS
    <3> QED
      BY <2>1, <2>3, <2>4, <3>1, WithinNext DEF Within
  <2>5. CoarseBound' = CoarseBound /\ ExactBound' = ExactBound
    BY <2>1, SameBounds
  <2>6. Within(CoarseBound)'
    <3>1. PICK B : B = CoarseBound
      OBVIOUS
    <3>2. Within(B)'
      BY <1>1, <2>4, <3>1 DEF DDAInv
    <3> QED
      BY <2>5, <3>1, <3>2 DEF Within, FrameWithin, CallsOf
  <2>7. ASSUME Pure' PROVE Within(ExactBound)'
    <3>1. PICK B : B = ExactBound
      OBVIOUS
    <3>2. Within(B)'
      BY <1>1, <2>1, <2>4, <2>7, <3>1 DEF DDAInv, Pure
    <3> QED
      BY <2>5, <3>1, <3>2 DEF Within, FrameWithin, CallsOf
  <2> QED
    BY <2>2, <2>6, <2>7 DEF DDAInv
<1> QED
  BY <1>1, <1>3, <1>4

LEMMA InvPrecise == DDAInv => DDAPrecise
<1>1. SUFFICES ASSUME DDAInv, NEW d \in Items
               PROVE  /\ getCachedPointsTo(d) \subseteq AndersenPts[prog][d[2]]
                      /\ outOfBudgetDpms = {} /\ ~outOfBudgetQuery => getCachedPointsTo(d) \subseteq Exact(d)
  BY DEF DDAPrecise
<1>2. Shape /\ prog \in DOMAIN Programs
  BY <1>1 DEF DDAInv, Shape
<1>3. d \in Askable
  <2>1. CASE d \in DOMAIN dpmToADCPtSetMap
    BY <1>2, <2>1 DEF Shape, Askable
  <2>2. CASE d \in {Item(v) : v \in {Pointer(n) : n \in Defs}}
    <3>1. PICK n \in Defs : d = Item(Pointer(n))
      BY <2>2
    <3>2. n \in NodesOf(g) /\ Kind(n) \in {"addr", "copy", "load", "formal"} /\ Typed(Stmt(n))
      BY <1>2, Kinds DEF Defs
    <3>3. Pointer(n) \in Vars /\ Pointer(n) \in Defined(g.stmt[n])
      BY <3>2 DEF Pointer, Defined, Typed, Kind, Stmt
    <3> QED
      BY <1>2, <3>1, <3>2, <3>3, DefinedItem
  <2> QED
    BY <2>1, <2>2 DEF Items
<1>4. getCachedPointsTo(d) \subseteq AndersenPts[prog][d[2]]
  BY <1>1, <1>3 DEF DDAInv, Within, CoarseBound
<1>5. ASSUME outOfBudgetDpms = {}, ~outOfBudgetQuery PROVE getCachedPointsTo(d) \subseteq Exact(d)
  BY <1>1, <1>3, <1>5 DEF DDAInv, Pure, Within, ExactBound
<1> QED
  BY <1>4, <1>5

(***************************************************************************)
(* Until a query falls back on Andersen's answer no cache of the solver    *)
(* holds more than the least flow-sensitive solution, and none ever holds  *)
(* more than Andersen's analysis found: whatever pointers are asked for,   *)
(* with whatever budget, and whichever edges and items come first.         *)
(***************************************************************************)
THEOREM DDAPreciseAlways == Spec => []DDAPrecise
<1>1. Init => DDAInv
  BY InitDDAInv
<1>2. DDAInv /\ [Next]_vars => DDAInv'
  BY NextDDAInv
<1>3. DDAInv => DDAPrecise
  BY InvPrecise
<1> QED
  BY <1>1, <1>2, <1>3, PTL DEF Spec

-----------------------------------------------------------------------------
(***************************************************************************)
(* Answers are complete.                                                   *)
(*                                                                         *)
(* Below W is a set of items that were visited, c their caches and cs the  *)
(* calls resolved.  An item is closed when its cache holds what its node   *)
(* computes from the caches of what it reads, all of which was visited.    *)
(***************************************************************************)
Cache == [d \in Askable |-> getCachedPointsTo(d)]

Into(n, cs)      == {<<e[1], getLHSTopLevPtr(e[1])>> : e \in {f \in DirectOf(g, cs) : f[2] = n}}
IntoOf(n, o, cs) == {<<e[1], o>> : e \in {f \in IndirectOf(g, cs) : f[2] = n /\ f[3] = o}}
SourceOf(n)      == Item(Stmt(n).src)

\* An address that was visited is known, also where it is passed.
Rooted(x)         == Kind(x[1]) \in {"addr", "actual"}
Seen(x, W, c)     == x \in W /\ (Rooted(x) => c[x] # {})
Has(x, set, W, c) == Seen(x, W, c) /\ c[x] \subseteq set
Got(X, val, todo, W, c) == \A x \in X : x \in todo \/ Has(x, val, W, c)

Kills(d, base) == base = {d[2]} /\ d[2] \in g.strong

\* val holds what flows into the item d, but for what is still to be done; base is what
\* the pointer of a load or store points to, rest what was not accessed of it.
Gathered(d, val, base, rest, todo, W, c, cs) ==
    LET n == d[1]
    IN  /\ Kind(n) = "addr" => Stmt(n).obj \in val
        /\ Kind(n) \in {"copy", "actual", "formal"} => Got(Into(n, cs), val, todo, W, c)
        /\ Kind(n) = "mssa" => Got(IntoOf(n, d[2], cs), val, todo, W, c)
        /\ Kind(n) = "load" =>
              /\ Has(PointerOf(n), base, W, c)
              /\ \A o \in base \ rest : Got(IntoOf(n, o, cs), val, todo, W, c)
        /\ Kind(n) = "store" =>
              /\ Has(PointerOf(n), base, W, c)
              /\ d[2] \in base \ rest => Has(SourceOf(n), val, W, c)
              /\ base \ rest # {} /\ ~Kills(d, base) => Got(IntoOf(n, d[2], cs), val, todo, W, c)

FunSeen(n, todo, W, c) == \A p \in FunPtrs(n) : Item(p) \in todo \/ Seen(Item(p), W, c)

BaseOf(d, c) == IF Kind(d[1]) \in {"load", "store"} THEN c[PointerOf(d[1])] ELSE {}
Closed(d, W, c, cs) ==
    FunSeen(d[1], {}, W, c) /\ Gathered(d, c[d], BaseOf(d, c), {}, {}, W, c, cs)

\* What a frame has gathered is what the caches hold now.
Fresh(f, W, c, cs) ==
    LET n == f.item[1]
    IN  /\ FunSeen(n, IF f.stage = "funptr" THEN f.todo ELSE {}, W, c)
        /\ f.stage = "pointer" => PointerOf(n) \in f.todo \/ Has(PointerOf(n), f.base, W, c)
        /\ f.stage = "value" => /\ Has(PointerOf(n), f.base, W, c)
                                /\ SourceOf(n) \in f.todo \/ Has(SourceOf(n), f.val, W, c)
        /\ f.stage = "edges" => Gathered(f.item, f.val, f.base, f.rest, f.todo, W, c, cs)

Evaluates(f)  == f.stage \in {"funptr", "pointer", "value", "edges"}
Recomputes(f) == f.stage \in {"calls", "uses"}

\* The item d is still to be computed again by a frame, as it is at the end of an edge
\* that the frame will follow.
Hit(y, e, d) == d[1] = e[1] /\ (e[2] = "indirect" /\ Kind(e[1]) # "load" => d[2] = y[2])
OutEdges(n, cs) == {<<e[2], "direct">> : e \in {f \in DirectOf(g, cs) : f[1] = n}}
                     \cup {<<e[2], "indirect">> : e \in {f \in IndirectOf(g, cs) : f[1] = n}}
Owes(f, d, L, cs) ==
    /\ Recomputes(f) /\ d \in L
    /\ \/ d \in f.todo
       \/ \E e \in f.rest : Hit(f.item, e, d)
       \/ f.stage = "calls" /\ \E e \in OutEdges(f.item[1], cs) : Hit(f.item, e, d)

(***************************************************************************)
(* The invariant.  V are the items visited, L those of the query, O those  *)
(* out of budget, whose caches are full; q says that the query is out of   *)
(* budget, s is the stack and qd what was asked for.  Items of earlier     *)
(* queries read nothing of this one.                                       *)
(***************************************************************************)
Settled(V, L, O) == (V \ L) \cup O
Full(d, c)       == AndersenPts[prog][d[2]] \subseteq c[d]

FrameFits(f, bottom, V, L, O, q, c) ==
    LET d == f.item
        n == d[1]
    IN  /\ f.stage # "query" => d \in L
        /\ f.stage = "query" => /\ bottom /\ f.todo \subseteq {d} /\ (d \in f.todo \/ d \in V)
                                /\ q => d \in L
        /\ bottom => n \in Defs /\ (Recomputes(f) => Full(d, c))
        /\ Recomputes(f) => f.todo \subseteq L
        /\ Evaluates(f) /\ Kind(n) = "addr" => f.todo = {}
        /\ Evaluates(f) /\ Kind(n) = "actual" => f.val \subseteq c[d] /\ f.todo \subseteq {Item(d[2])}

Steady(V, L, O, q, c, cs, s, qd) ==
    /\ V \subseteq Askable /\ L \subseteq V /\ O \subseteq Askable
    /\ \A d \in O : d[1] \in Defs /\ Full(d, c)
    /\ \A k \in g.calls : k.callee \in c[Item(k.ptr)] => k \in cs
    /\ \A d \in V \ L : d \in O \/ Closed(d, Settled(V, L, O), c, cs)
    /\ \A i \in 1 .. Len(s) : FrameFits(s[i], i = Len(s), V, L, O, q, c)
    /\ \A v \in qd : \/ Item(v) \in Settled(V, L, O)
                     \/ s # <<>> /\ s[Len(s)].item = Item(v)
                     \/ s = <<>> /\ ~q /\ Item(v) \in V

\* Of this query, as long as it is within its budget: what is not closed is to be
\* computed again, or under way; what a call under way has gathered is up to date, or it
\* is to be computed again by a call it has made; an address is known once its item is done.
Pending(V, L, O, c, cs, s) ==
    \A d \in L \ O :
        \/ Closed(d, V \cup O, c, cs)
        \/ \E i \in 1 .. Len(s) : Owes(s[i], d, L, cs) \/ (Evaluates(s[i]) /\ s[i].item = d)

UnderWay(V, L, O, c, cs, s) ==
    \A i \in 1 .. Len(s) :
        /\ s[i].stage # "query" => s[i].item \notin O
        /\ Evaluates(s[i]) => \/ Fresh(s[i], V \cup O, c, cs) \/ Closed(s[i].item, V \cup O, c, cs)
                              \/ \E j \in 1 .. i - 1 : Owes(s[j], s[i].item, L, cs)
        /\ Recomputes(s[i]) => \/ Closed(s[i].item, V \cup O, c, cs)
                               \/ \E j \in 1 .. i : Owes(s[j], s[i].item, L, cs)

Known(L, O, c, s) ==
    \A d \in L \ O : Rooted(d) /\ c[d] = {} =>
        /\ s # <<>> /\ Evaluates(s[1])
        /\ \/ s[1].item = d
           \/ Len(s) > 1 /\ s[2].item = d /\ Kind(d[1]) = "actual" /\ s[1].item = Item(d[2])

CompleteInv ==
    /\ Steady(backwardVisited, locToDpmSetMap, outOfBudgetDpms, outOfBudgetQuery, Cache, called, stack, queried)
    /\ ~outOfBudgetQuery =>
          /\ Pending(backwardVisited, locToDpmSetMap, outOfBudgetDpms, Cache, called, stack)
          /\ UnderWay(backwardVisited, locToDpmSetMap, outOfBudgetDpms, Cache, called, stack)
          /\ Known(locToDpmSetMap, outOfBudgetDpms, Cache, stack)

LEMMA CompleteNext ==
    ASSUME prog' = prog,
           NEW V, V = backwardVisited', NEW L, L = locToDpmSetMap', NEW O, O = outOfBudgetDpms',
           NEW q, q = outOfBudgetQuery', NEW c, c = Cache', NEW cs, cs = called',
           NEW s, s = stack', NEW qd, qd = queried',
           Steady(V, L, O, q, c, cs, s, qd),
           ~q => Pending(V, L, O, c, cs, s) /\ UnderWay(V, L, O, c, cs, s) /\ Known(L, O, c, s)
    PROVE  CompleteInv'
<1>1. \A n, x, y : Into(n, x)' = Into(n, x) /\ IntoOf(n, x, y)' = IntoOf(n, x, y) /\ OutEdges(n, x)' = OutEdges(n, x)
  BY SameProgram DEF Into, IntoOf, OutEdges
<1>2. \A n : SourceOf(n)' = SourceOf(n) /\ Rooted(n)' = Rooted(n) /\ PointerOf(n)' = PointerOf(n) /\ Item(n)' = Item(n)
       /\ FunPtrs(n)' = FunPtrs(n)
  BY SameProgram, SameItems DEF SourceOf, Rooted, FunPtrs
<1>3. \A d, x : Kills(d, x)' = Kills(d, x)
  BY SameProgram DEF Kills
<1>4. \A x, W, k : Seen(x, W, k)' = Seen(x, W, k)
  BY <1>2 DEF Seen
<1>5. \A x, y, W, k : Has(x, y, W, k)' = Has(x, y, W, k)
  BY <1>4 DEF Has
<1>6. \A X, y, z, W, k : Got(X, y, z, W, k)' = Got(X, y, z, W, k)
  BY <1>5 DEF Got
<1>7. \A d, v, b, r, t, W, k, z : Gathered(d, v, b, r, t, W, k, z)' = Gathered(d, v, b, r, t, W, k, z)
  BY <1>1, <1>2, <1>3, <1>5, <1>6, SameProgram DEF Gathered
<1>8. \A n, t, W, k : FunSeen(n, t, W, k)' = FunSeen(n, t, W, k)
  BY <1>2, <1>4 DEF FunSeen
<1>9. \A d, W, k, z : Closed(d, W, k, z)' = Closed(d, W, k, z)
  <2>1. \A d, k : BaseOf(d, k)' = BaseOf(d, k)
    BY <1>2, SameProgram DEF BaseOf
  <2> QED
    BY <1>7, <1>8, <2>1 DEF Closed
<1>10. \A f, W, k, z : Fresh(f, W, k, z)' = Fresh(f, W, k, z)
  BY <1>2, <1>5, <1>7, <1>8 DEF Fresh
<1>11. \A f, d, K, z : Owes(f, d, K, z)' = Owes(f, d, K, z)
  <2>1. \A y, e, d : Hit(y, e, d)' = Hit(y, e, d)
    BY SameProgram DEF Hit
  <2> QED
    BY <1>1, <2>1 DEF Owes, Recomputes
<1>12. \A d, k : Full(d, k)' = Full(d, k)
  BY DEF Full
<1>13. \A f, b, v, l, o, x, k : FrameFits(f, b, v, l, o, x, k)' = FrameFits(f, b, v, l, o, x, k)
  BY <1>2, <1>12, SameProgram DEF FrameFits, Recomputes, Evaluates
<1>14. Steady(V, L, O, q, c, cs, s, qd)' = Steady(V, L, O, q, c, cs, s, qd)
  BY <1>2, <1>9, <1>12, <1>13, SameProgram DEF Steady
<1>15. /\ Pending(V, L, O, c, cs, s)' = Pending(V, L, O, c, cs, s)
       /\ UnderWay(V, L, O, c, cs, s)' = UnderWay(V, L, O, c, cs, s)
  BY <1>9, <1>10, <1>11 DEF Pending, UnderWay, Recomputes, Evaluates
<1>16. Known(L, O, c, s)' = Known(L, O, c, s)
  BY <1>2, SameProgram DEF Known, Evaluates
<1> QED
  BY <1>14, <1>15, <1>16 DEF CompleteInv

(***************************************************************************)
(* A variable has one definition; actual parameters share its set.         *)
(***************************************************************************)
LEMMA OneDefinition ==
    ASSUME prog \in DOMAIN Programs, NEW n \in Defs
    PROVE  /\ n \in NodesOf(g) /\ isTopLevelPtrStmt(n) /\ getLHSTopLevPtr(n) = Pointer(n)
           /\ Pointer(n) \in Defined(Stmt(n))
           /\ Item(Pointer(n)) = <<n, Pointer(n)>>
<1>1. \A m \in Defs : /\ m \in NodesOf(g) /\ Kind(m) \in {"addr", "copy", "load", "formal"}
                      /\ Pointer(m) \in Defined(Stmt(m))
  <2>1. SUFFICES ASSUME NEW m \in Defs PROVE Pointer(m) \in Defined(Stmt(m))
    BY DEF Defs
  <2> QED
    BY DEF Defs, Pointer, Defined, Kind, Stmt
<1>2. n \in NodesOf(g) /\ isTopLevelPtrStmt(n) /\ getLHSTopLevPtr(n) = Pointer(n)
  BY <1>1 DEF isTopLevelPtrStmt, getLHSTopLevPtr
<1>3. getDefSVFGNode(Pointer(n)) \in Defs /\ Pointer(getDefSVFGNode(Pointer(n))) = Pointer(n)
  BY DEF getDefSVFGNode
<1>4. getDefSVFGNode(Pointer(n)) = n
  <2>1. \A m, k \in NodesOf(g) : Defined(Stmt(m)) \cap Defined(Stmt(k)) # {} => m = k
    BY Formed DEF WellFormed, Stmt
  <2> QED
    BY <1>1, <1>3, <2>1
<1> QED
  BY <1>1, <1>2, <1>4 DEF Item

LEMMA TopLevelItem ==
    ASSUME prog \in DOMAIN Programs, NEW d \in Askable, isTopLevelPtrStmt(d[1])
    PROVE  /\ d[2] \in Vars /\ d[2] = getLHSTopLevPtr(d[1])
           /\ d[1] \in Defs => d = Item(d[2]) /\ d[2] = Pointer(d[1])
           /\ d[1] \notin Defs => Kind(d[1]) = "actual" /\ d[2] = Stmt(d[1]).var
<1>1. d[1] \in NodesOf(g) /\ d[2] = getLHSTopLevPtr(d[1]) /\ d = <<d[1], d[2]>>
  BY DEF Askable
<1>2. d[2] \in Vars
  BY <1>1, Kinds
<1>3. ASSUME d[1] \in Defs PROVE d = Item(d[2]) /\ d[2] = Pointer(d[1])
  BY <1>1, <1>3, OneDefinition
<1>4. ASSUME d[1] \notin Defs PROVE Kind(d[1]) = "actual" /\ d[2] = Stmt(d[1]).var
  <2>1. Kind(d[1]) = "actual"
    BY <1>1, <1>4, Kinds DEF Defs
  <2> QED
    BY <1>1, <2>1, Kinds
<1> QED
  BY <1>1, <1>2, <1>3, <1>4

\* The address an actual parameter passes.
LEMMA PassedAddress ==
    ASSUME prog \in DOMAIN Programs, ParametersAreAddresses, NEW d \in Askable, Kind(d[1]) = "actual"
    PROVE  /\ Item(d[2]) \in Askable /\ Item(d[2])[2] = d[2] /\ Kind(Item(d[2])[1]) = "addr"
           /\ d[2] = Stmt(d[1]).var /\ isTopLevelPtrStmt(d[1]) /\ isTopLevelPtrStmt(Item(d[2])[1])
           /\ Item(d[2]) # d
<1>1. d[1] \in NodesOf(g) /\ isTopLevelPtrStmt(d[1])
  BY DEF Askable, isTopLevelPtrStmt
<1>2. d[2] = Stmt(d[1]).var /\ d[2] \in Used(Stmt(d[1]))
  BY <1>1, Kinds DEF Askable, Used, Kind, Stmt
<1>3. Item(d[2]) \in Askable /\ Item(d[2])[2] = d[2] /\ isTopLevelPtrStmt(Item(d[2])[1])
  BY <1>1, <1>2, UsedItem
<1>4. Kind(Item(d[2])[1]) = "addr"
  BY <1>1, <1>2 DEF ParametersAreAddresses, Item
<1> QED
  BY <1>1, <1>2, <1>3, <1>4

\* Only what calls are connected to waits for function pointers.
LEMMA NoFunPtrs ==
    ASSUME prog \in DOMAIN Programs, NEW n, Kind(n) \notin {"formal", "mssa"}
    PROVE  FunPtrs(n) = {}
<1>1. SUFFICES ASSUME NEW k \in g.calls, NEW e \in k.direct \cup k.indirect, e[2] = n PROVE FALSE
  BY DEF FunPtrs
<1>2. WellFormed(g)
  BY Formed
<1>3. CASE e \in k.indirect
  BY <1>1, <1>2, <1>3 DEF WellFormed, Kind
<1>4. CASE e \in k.direct
  <2>1. g.stmt[e[1]].kind = "actual" /\ e \in DirectOf(g, g.calls)
    BY <1>2, <1>4 DEF WellFormed, DirectOf
  <2>2. g.stmt[e[2]].kind = "formal"
    BY <1>2, <2>1 DEF WellFormed
  <2> QED
    BY <1>1, <2>2 DEF Kind
<1> QED
  BY <1>1, <1>3, <1>4

\* An edge leads from the definition of a variable to each use.
LEMMA UseEdge ==
    ASSUME prog \in DOMAIN Programs, NEW n \in NodesOf(g), NEW v \in Used(Stmt(n)), NEW cs
    PROVE  /\ <<Item(v)[1], n>> \in DirectOf(g, cs) /\ Item(v) \in Askable
           /\ Item(v) \in Into(n, cs)
<1>1. v \in Vars /\ Item(v) \in Askable /\ Item(v)[2] = v /\ isTopLevelPtrStmt(Item(v)[1])
  BY UsedItem
<1>2. PICK m \in NodesOf(g) : v \in Defined(g.stmt[m])
  BY Formed DEF WellFormed, Stmt
<1>3. Item(v)[1] \in Defs
  BY <1>1, <1>2, DefinedItem
<1>4. Pointer(Item(v)[1]) = v /\ v \in Defined(Stmt(Item(v)[1])) /\ Item(v)[1] \in NodesOf(g)
      /\ getLHSTopLevPtr(Item(v)[1]) = v
  BY <1>1, <1>3, OneDefinition, TopLevelItem
<1>5. <<Item(v)[1], n>> \in g.direct
  BY <1>4, Formed DEF WellFormed, Stmt
<1>6. <<Item(v)[1], n>> \in DirectOf(g, cs)
  BY <1>5 DEF DirectOf
<1>7. Item(v) = <<Item(v)[1], v>>
  BY DEF Item
<1> QED
  BY <1>1, <1>4, <1>6, <1>7 DEF Into

\* An actual parameter has only the definition of its variable before it.
LEMMA IntoActual ==
    ASSUME prog \in DOMAIN Programs, NEW d \in Askable, Kind(d[1]) = "actual", NEW cs \in SUBSET g.calls
    PROVE  Into(d[1], cs) = {Item(d[2])}
<1>1. d[1] \in NodesOf(g) /\ d[2] = getLHSTopLevPtr(d[1])
  BY DEF Askable, isTopLevelPtrStmt
<1>2. d[2] = Stmt(d[1]).var /\ Used(Stmt(d[1])) = {d[2]}
  BY <1>1, Kinds DEF Used, Kind, Stmt
<1>3. Item(d[2]) \in Into(d[1], cs)
  BY <1>1, <1>2, UseEdge
<1>4. ASSUME NEW x \in Into(d[1], cs) PROVE x = Item(d[2])
  <2>1. PICK e \in DirectOf(g, cs) : e[2] = d[1] /\ x = <<e[1], getLHSTopLevPtr(e[1])>>
    BY <1>4 DEF Into
  <2>2. x \in Askable /\ isTopLevelPtrStmt(x[1]) /\ x[1] \in Defs /\ x[2] = d[2]
    <3>1. IF Kind(e[1]) = "actual" THEN Kind(e[2]) = "formal"
          ELSE e[1] \in Defs /\ getLHSTopLevPtr(e[1]) \in Used(Stmt(e[2]))
      BY EdgeItems
    <3>2. <<e[1], getLHSTopLevPtr(e[1])>> \in Askable /\ isTopLevelPtrStmt(e[1])
      BY EdgeItems
    <3> QED
      BY <1>2, <2>1, <3>1, <3>2
  <2> QED
    BY <2>2, TopLevelItem
<1> QED
  BY <1>3, <1>4

-----------------------------------------------------------------------------
(***************************************************************************)
(* Caches: no larger than Andersen's sets, and one for a variable.  That   *)
(* of an address is empty or full.                                         *)
(***************************************************************************)
CacheFits(c) ==
    /\ \A d \in Askable : c[d] \subseteq AndersenPts[prog][d[2]] /\ c[d] \subseteq Objs
    /\ \A d, e \in Askable : isTopLevelPtrStmt(d[1]) /\ isTopLevelPtrStmt(e[1]) /\ d[2] = e[2] => c[d] = c[e]

LEMMA CacheFitsNow ==
    ASSUME Shape, Within(CoarseBound)
    PROVE  CacheFits(Cache) /\ \A d \in Askable : Cache[d] = getCachedPointsTo(d)
<1>1. \A d \in Askable : Cache[d] = getCachedPointsTo(d)
  BY DEF Cache
<1>2. \A d \in Askable : Cache[d] \subseteq AndersenPts[prog][d[2]]
  BY <1>1 DEF Within, CoarseBound
<1>3. \A d \in Askable : Cache[d] \subseteq Objs
  BY <1>1, CacheTyped
<1>4. \A d, e \in Askable : isTopLevelPtrStmt(d[1]) /\ isTopLevelPtrStmt(e[1]) /\ d[2] = e[2] => Cache[d] = Cache[e]
  BY <1>1 DEF getCachedPointsTo
<1> QED
  BY <1>1, <1>2, <1>3, <1>4 DEF CacheFits

LEMMA RootOf ==
    ASSUME prog \in DOMAIN Programs, ParametersAreAddresses, NEW d \in Askable, Rooted(d)
    PROVE  \E n \in OfKind(g, "addr") :
              /\ g.stmt[n].dst = d[2] /\ AndersenPts[prog][d[2]] = {g.stmt[n].obj}
              /\ Kind(d[1]) = "addr" => n = d[1]
<1>1. ASSUME NEW x \in Askable, Kind(x[1]) = "addr"
      PROVE  x[1] \in OfKind(g, "addr") /\ g.stmt[x[1]].dst = x[2] /\ AndersenPts[prog][x[2]] = {g.stmt[x[1]].obj}
  <2>1. x[1] \in NodesOf(g) /\ x[2] = getLHSTopLevPtr(x[1])
    BY <1>1 DEF Askable, isTopLevelPtrStmt
  <2>2. x[1] \in OfKind(g, "addr") /\ g.stmt[x[1]].dst = x[2]
    BY <1>1, <2>1, Kinds DEF OfKind, Kind, Stmt
  <2>3. AndersenPts[prog][x[2]] \subseteq {g.stmt[x[1]].obj}
    BY <2>2, AndersenOfAddress DEF g
  <2>4. g.stmt[x[1]].obj \in AndersenPts[prog][x[2]]
    BY <2>2, AndersenCloses DEF g
  <2> QED
    BY <2>2, <2>3, <2>4
<1>2. CASE Kind(d[1]) = "addr"
  BY <1>1, <1>2
<1>3. CASE Kind(d[1]) = "actual"
  BY <1>1, <1>3, PassedAddress
<1> QED
  BY <1>2, <1>3 DEF Rooted

LEMMA RootedFull ==
    ASSUME prog \in DOMAIN Programs, ParametersAreAddresses, NEW d \in Askable, Rooted(d),
           NEW c, NEW c2, CacheFits(c), CacheFits(c2), c[d] # {}, c[d] \subseteq c2[d]
    PROVE  c2[d] = c[d]
<1>1. PICK o : AndersenPts[prog][d[2]] = {o}
  BY RootOf
<1>2. c[d] \subseteq {o} /\ c2[d] \subseteq {o}
  BY <1>1 DEF CacheFits
<1> QED
  BY <1>2

\* What is out of budget was seen.
LEMMA FullSeen ==
    ASSUME prog \in DOMAIN Programs, ParametersAreAddresses, NEW d \in Askable, NEW W, d \in W,
           NEW c, Full(d, c)
    PROVE  Seen(d, W, c)
<1>1. ASSUME Rooted(d) PROVE c[d] # {}
  <2>1. PICK o : AndersenPts[prog][d[2]] = {o}
    BY <1>1, RootOf
  <2> QED
    BY <2>1 DEF Full
<1> QED
  BY <1>1 DEF Seen

\* What is closed was seen.
LEMMA ClosedSeen ==
    ASSUME prog \in DOMAIN Programs, ParametersAreAddresses, NEW d \in Askable, NEW W, d \in W,
           NEW c, CacheFits(c), NEW cs \in SUBSET g.calls, NEW W2, Closed(d, W2, c, cs)
    PROVE  Seen(d, W, c)
<1>1. Gathered(d, c[d], BaseOf(d, c), {}, {}, W2, c, cs)
  BY DEF Closed
<1>2. ASSUME Kind(d[1]) = "addr" PROVE c[d] # {}
  BY <1>1, <1>2 DEF Gathered
<1>3. ASSUME Kind(d[1]) = "actual" PROVE c[d] # {}
  <2>1. Item(d[2]) \in Into(d[1], cs)
    BY <1>3, IntoActual
  <2>2. Seen(Item(d[2]), W2, c)
    BY <1>1, <1>3, <2>1 DEF Gathered, Got, Has
  <2>3. c[Item(d[2])] # {} /\ c[d] = c[Item(d[2])]
    BY <1>3, <2>2, PassedAddress DEF Seen, Rooted, CacheFits
  <2> QED
    BY <2>3
<1> QED
  BY <1>2, <1>3 DEF Seen, Rooted

-----------------------------------------------------------------------------
(***************************************************************************)
(* What an item reads, and what does not disturb it.                       *)
(***************************************************************************)
Reads(d, cs) ==
    LET n == d[1]
    IN  CASE Kind(n) \in {"copy", "actual", "formal"} -> Into(n, cs)
          [] Kind(n) = "mssa"  -> IntoOf(n, d[2], cs)
          [] Kind(n) = "load"  -> {PointerOf(n)} \cup UNION {IntoOf(n, o, cs) : o \in Objs}
          [] Kind(n) = "store" -> {PointerOf(n), SourceOf(n)} \cup IntoOf(n, d[2], cs)
          [] OTHER -> {}

Undisturbed(d, W, W2, c, c2, cs, cs2) ==
    /\ W \subseteq W2 /\ \A x \in Askable : c[x] \subseteq c2[x]
    /\ Into(d[1], cs2) = Into(d[1], cs) /\ \A o \in Objs : IntoOf(d[1], o, cs2) = IntoOf(d[1], o, cs)
    /\ \A x \in Reads(d, cs) : Seen(x, W, c) => c2[x] = c[x]

LEMMA IntoAskable ==
    ASSUME prog \in DOMAIN Programs, NEW cs \in SUBSET g.calls, NEW n
    PROVE  Into(n, cs) \subseteq Askable /\ \A o : IntoOf(n, o, cs) \subseteq Askable
BY EdgeItems DEF Into, IntoOf

LEMMA ReadsAskable ==
    ASSUME prog \in DOMAIN Programs, NEW cs \in SUBSET g.calls, NEW d \in Askable
    PROVE  /\ Reads(d, cs) \subseteq Askable
           /\ Kind(d[1]) \in {"load", "store"} => PointerOf(d[1]) \in Reads(d, cs)
           /\ Kind(d[1]) \in {"load", "store"} => PointerOf(d[1]) \in Askable
           /\ Kind(d[1]) = "store" => SourceOf(d[1]) \in Reads(d, cs) /\ SourceOf(d[1]) \in Askable
<1>1. d[1] \in NodesOf(g)
  BY DEF Askable
<1>2. ASSUME Kind(d[1]) \in {"load", "store"} PROVE PointerOf(d[1]) \in Askable
  <2>1. Stmt(d[1]).ptr \in Used(Stmt(d[1]))
    BY <1>2 DEF Used, Kind, Stmt
  <2> QED
    BY <1>1, <2>1, UsedItem DEF PointerOf
<1>3. ASSUME Kind(d[1]) = "store" PROVE SourceOf(d[1]) \in Askable
  <2>1. Stmt(d[1]).src \in Used(Stmt(d[1]))
    BY <1>3 DEF Used, Kind, Stmt
  <2> QED
    BY <1>1, <2>1, UsedItem DEF SourceOf
<1> QED
  BY <1>2, <1>3, IntoAskable DEF Reads

LEMMA HasKept ==
    ASSUME NEW x \in Askable, NEW W, NEW W2, NEW c, NEW c2, W \subseteq W2, c[x] \subseteq c2[x],
           NEW val, NEW val2, val \subseteq val2, Has(x, val, W, c), Seen(x, W, c) => c2[x] = c[x]
    PROVE  Has(x, val2, W2, c2)
BY DEF Has, Seen

LEMMA GotKept ==
    ASSUME NEW X \in SUBSET Askable, NEW W, NEW W2, NEW c, NEW c2, W \subseteq W2,
           \A x \in X : c[x] \subseteq c2[x], \A x \in X : Seen(x, W, c) => c2[x] = c[x],
           NEW val, NEW val2, val \subseteq val2, NEW todo, Got(X, val, todo, W, c)
    PROVE  Got(X, val2, todo, W2, c2)
BY HasKept DEF Got

LEMMA GatheredKept ==
    ASSUME prog \in DOMAIN Programs, NEW d \in Askable, NEW W, NEW W2, NEW c, NEW c2, NEW cs \in SUBSET g.calls,
           NEW cs2, Undisturbed(d, W, W2, c, c2, cs, cs2), NEW val, NEW val2, val \subseteq val2,
           NEW base \in SUBSET Objs, NEW rest, NEW todo, Gathered(d, val, base, rest, todo, W, c, cs)
    PROVE  Gathered(d, val2, base, rest, todo, W2, c2, cs2)
<1> DEFINE n == d[1]
<1>1. /\ W \subseteq W2 /\ \A x \in Askable : c[x] \subseteq c2[x]
      /\ Into(n, cs2) = Into(n, cs) /\ \A o \in Objs : IntoOf(n, o, cs2) = IntoOf(n, o, cs)
      /\ \A x \in Reads(d, cs) : Seen(x, W, c) => c2[x] = c[x]
  BY DEF Undisturbed
<1>2. Reads(d, cs) \subseteq Askable /\ n \in NodesOf(g)
  BY ReadsAskable DEF Askable
<1>3. ASSUME NEW X \in SUBSET Reads(d, cs), Got(X, val, todo, W, c) PROVE Got(X, val2, todo, W2, c2)
  BY <1>1, <1>2, <1>3, GotKept
<1>4. ASSUME Kind(n) \in {"copy", "actual", "formal"} PROVE Got(Into(n, cs2), val2, todo, W2, c2)
  BY <1>1, <1>3, <1>4 DEF Gathered, Reads
<1>5. ASSUME Kind(n) = "mssa" PROVE Got(IntoOf(n, d[2], cs2), val2, todo, W2, c2)
  <2>1. d[2] \in Objs
    BY <1>5 DEF Askable, isTopLevelPtrStmt
  <2> QED
    BY <1>1, <1>3, <1>5, <2>1 DEF Gathered, Reads
<1>6. ASSUME Kind(n) = "load"
      PROVE  /\ Has(PointerOf(n), base, W2, c2)
             /\ \A o \in base \ rest : Got(IntoOf(n, o, cs2), val2, todo, W2, c2)
  <2>1. Reads(d, cs) = {PointerOf(n)} \cup UNION {IntoOf(n, o, cs) : o \in Objs}
    BY <1>6 DEF Reads
  <2>2. Has(PointerOf(n), base, W, c) /\ \A o \in base \ rest : Got(IntoOf(n, o, cs), val, todo, W, c)
    BY <1>6 DEF Gathered
  <2>3. Has(PointerOf(n), base, W2, c2)
    <3>1. PointerOf(n) \in Reads(d, cs)
      BY <2>1
    <3> QED
      BY <1>1, <1>2, <2>2, <3>1, HasKept
  <2>4. ASSUME NEW o \in base \ rest PROVE Got(IntoOf(n, o, cs2), val2, todo, W2, c2)
    BY <1>1, <1>3, <2>1, <2>2
  <2> QED
    BY <2>3, <2>4
<1>7. ASSUME Kind(n) = "store"
      PROVE  /\ Has(PointerOf(n), base, W2, c2)
             /\ d[2] \in base \ rest => Has(SourceOf(n), val2, W2, c2)
             /\ base \ rest # {} /\ ~Kills(d, base) => Got(IntoOf(n, d[2], cs2), val2, todo, W2, c2)
  <2>1. Reads(d, cs) = {PointerOf(n), SourceOf(n)} \cup IntoOf(n, d[2], cs) /\ d[2] \in Objs
    BY <1>7 DEF Reads, Askable, isTopLevelPtrStmt
  <2>2. /\ Has(PointerOf(n), base, W, c)
        /\ d[2] \in base \ rest => Has(SourceOf(n), val, W, c)
        /\ base \ rest # {} /\ ~Kills(d, base) => Got(IntoOf(n, d[2], cs), val, todo, W, c)
    BY <1>7 DEF Gathered
  <2>3. PointerOf(n) \in Reads(d, cs) /\ SourceOf(n) \in Reads(d, cs) /\ IntoOf(n, d[2], cs) \subseteq Reads(d, cs)
    BY <2>1
  <2>4. Has(PointerOf(n), base, W2, c2)
    BY <1>1, <1>2, <2>2, <2>3, HasKept
  <2>5. Has(SourceOf(n), val, W, c) => Has(SourceOf(n), val2, W2, c2)
    BY <1>1, <1>2, <2>3, HasKept
  <2>6. Got(IntoOf(n, d[2], cs), val, todo, W, c) => Got(IntoOf(n, d[2], cs2), val2, todo, W2, c2)
    BY <1>1, <1>3, <2>1, <2>3
  <2> QED
    BY <2>2, <2>4, <2>5, <2>6
<1>8. Kind(n) = "addr" => Stmt(n).obj \in val2
  BY DEF Gathered
<1> QED
  BY <1>4, <1>5, <1>6, <1>7, <1>8 DEF Gathered

LEMMA FunSeenKept ==
    ASSUME prog \in DOMAIN Programs, NEW n, NEW W, NEW W2, NEW c, NEW c2, W \subseteq W2,
           \A x \in Askable : c[x] \subseteq c2[x], NEW todo, FunSeen(n, todo, W, c)
    PROVE  FunSeen(n, todo, W2, c2)
<1>1. \A p \in FunPtrs(n) : Item(p) \in Askable
  BY CallItem DEF FunPtrs
<1> QED
  BY <1>1 DEF FunSeen, Seen

\* Less was known to be pointed to.
LEMMA BaseShrinks ==
    ASSUME NEW d, NEW val, NEW base, NEW base2, base2 \subseteq base, NEW W, NEW c, NEW cs,
           Kind(d[1]) \in {"load", "store"} => Has(PointerOf(d[1]), base2, W, c),
           Gathered(d, val, base, {}, {}, W, c, cs)
    PROVE  Gathered(d, val, base2, {}, {}, W, c, cs)
<1>1. base2 # {} /\ ~Kills(d, base2) => base # {} /\ ~Kills(d, base)
  BY DEF Kills
<1> QED
  BY <1>1 DEF Gathered

\* A computation that is over, and whose result is in the cache.
LEMMA GatheredCloses ==
    ASSUME prog \in DOMAIN Programs, NEW d \in Askable, NEW W, NEW W2, NEW c, NEW c2, NEW cs \in SUBSET g.calls,
           NEW cs2, Undisturbed(d, W, W2, c, c2, cs, cs2), NEW val, val \subseteq c2[d],
           NEW base \in SUBSET Objs, Gathered(d, val, base, {}, {}, W, c, cs), FunSeen(d[1], {}, W, c)
    PROVE  Closed(d, W2, c2, cs2)
<1>1. Gathered(d, c2[d], base, {}, {}, W2, c2, cs2)
  BY GatheredKept
<1>2. FunSeen(d[1], {}, W2, c2)
  BY FunSeenKept DEF Undisturbed
<1>3. ASSUME Kind(d[1]) \in {"load", "store"} PROVE Has(PointerOf(d[1]), BaseOf(d, c2), W2, c2)
                                                     /\ BaseOf(d, c2) \subseteq base
  <2>1. Has(PointerOf(d[1]), base, W2, c2)
    BY <1>1, <1>3 DEF Gathered
  <2> QED
    BY <1>3, <2>1 DEF Has, BaseOf
<1>4. BaseOf(d, c2) \subseteq base
  BY <1>3 DEF BaseOf
<1>5. Gathered(d, c2[d], BaseOf(d, c2), {}, {}, W2, c2, cs2)
  BY <1>1, <1>3, <1>4, BaseShrinks
<1> QED
  BY <1>2, <1>5 DEF Closed

LEMMA ClosedKept ==
    ASSUME prog \in DOMAIN Programs, NEW d \in Askable, NEW W, NEW W2, NEW c, NEW c2, CacheFits(c),
           NEW cs \in SUBSET g.calls, NEW cs2, Undisturbed(d, W, W2, c, c2, cs, cs2), Closed(d, W, c, cs)
    PROVE  Closed(d, W2, c2, cs2)
<1>1. BaseOf(d, c) \in SUBSET Objs
  BY ReadsAskable DEF BaseOf, CacheFits
<1>2. c[d] \subseteq c2[d]
  BY DEF Undisturbed
<1> QED
  BY <1>1, <1>2, GatheredCloses DEF Closed

LEMMA FreshKept ==
    ASSUME prog \in DOMAIN Programs, NEW f \in Frames, NEW W, NEW W2, NEW c, NEW c2, NEW cs \in SUBSET g.calls,
           NEW cs2, Undisturbed(f.item, W, W2, c, c2, cs, cs2), Fresh(f, W, c, cs),
           f.stage = "pointer" => Kind(f.item[1]) \in {"load", "store"},
           f.stage = "value" => Kind(f.item[1]) = "store"
    PROVE  Fresh(f, W2, c2, cs2)
<1> DEFINE d == f.item
           n == d[1]
<1>0. d \in Askable /\ f.base \in SUBSET Objs
  BY DEF Frames
<1>1. /\ W \subseteq W2 /\ \A x \in Askable : c[x] \subseteq c2[x]
      /\ \A x \in Reads(d, cs) : Seen(x, W, c) => c2[x] = c[x]
  BY DEF Undisturbed
<1>2. FunSeen(n, IF f.stage = "funptr" THEN f.todo ELSE {}, W2, c2)
  BY <1>1, FunSeenKept DEF Fresh
<1>3. ASSUME Kind(n) \in {"load", "store"}, Has(PointerOf(n), f.base, W, c) PROVE Has(PointerOf(n), f.base, W2, c2)
  BY <1>0, <1>1, <1>3, ReadsAskable, HasKept
<1>4. ASSUME Kind(n) = "store", Has(SourceOf(n), f.val, W, c) PROVE Has(SourceOf(n), f.val, W2, c2)
  BY <1>0, <1>1, <1>4, ReadsAskable, HasKept
<1>5. ASSUME f.stage = "edges" PROVE Gathered(d, f.val, f.base, f.rest, f.todo, W2, c2, cs2)
  BY <1>0, <1>5, GatheredKept DEF Fresh
<1> QED
  BY <1>2, <1>3, <1>4, <1>5 DEF Fresh

-----------------------------------------------------------------------------
(***************************************************************************)
(* Steps.  They change the frame on top, put one on it or take it away:    *)
(* below the new top frame the frames of s are those of t, k places away.  *)
(***************************************************************************)
Shifted(s, t, k) ==
    /\ k \in {-1, 0, 1} /\ Len(s) \in Nat \ {0} /\ Len(t) \in Nat \ {0} /\ Len(t) = Len(s) + k
    /\ \A j \in 2 .. Len(t) : t[j] = s[j - k]

LEMMA OwesMore ==
    ASSUME NEW f, NEW d, NEW L, NEW L2, L \subseteq L2, NEW cs, NEW cs2, cs \subseteq cs2, Owes(f, d, L, cs)
    PROVE  Owes(f, d, L2, cs2)
<1>1. \A n : OutEdges(n, cs) \subseteq OutEdges(n, cs2)
  <2>1. DirectOf(g, cs) \subseteq DirectOf(g, cs2) /\ IndirectOf(g, cs) \subseteq IndirectOf(g, cs2)
    BY DEF DirectOf, IndirectOf
  <2> QED
    BY <2>1 DEF OutEdges
<1> QED
  BY <1>1 DEF Owes

LEMMA PendingNext ==
    ASSUME NEW V, NEW L, NEW O, NEW c, NEW cs, NEW s, Pending(V, L, O, c, cs, s), UnderWay(V, L, O, c, cs, s),
           NEW V2, NEW L2, NEW c2, NEW cs2, NEW t, NEW k, Shifted(s, t, k), L \subseteq L2, cs \subseteq cs2,
           \A i \in 1 .. Len(s) : s[i].stage # "query" => s[i].item \in L,
           \A z \in L : Closed(z, V \cup O, c, cs) => Closed(z, V2 \cup O, c2, cs2) \/ Owes(t[1], z, L2, cs2),
           \A i \in 2 - k .. Len(s) : Evaluates(s[i]) /\ Fresh(s[i], V \cup O, c, cs) =>
               Fresh(s[i], V2 \cup O, c2, cs2) \/ Owes(t[1], s[i].item, L2, cs2),
           \A z \in L \ O : \A i \in 1 .. 1 - k : Owes(s[i], z, L, cs) =>
               Owes(t[1], z, L2, cs2) \/ Closed(z, V2 \cup O, c2, cs2),
           \A i \in 1 .. 1 - k : Evaluates(s[i]) =>
               \/ Closed(s[i].item, V2 \cup O, c2, cs2) \/ Owes(t[1], s[i].item, L2, cs2)
               \/ Evaluates(t[1]) /\ t[1].item = s[i].item,
           \A z \in (L2 \ L) \ O : Evaluates(t[1]) /\ t[1].item = z,
           t[1].stage # "query" => t[1].item \notin O,
           Evaluates(t[1]) => Fresh(t[1], V2 \cup O, c2, cs2) \/ Closed(t[1].item, V2 \cup O, c2, cs2),
           Recomputes(t[1]) => Closed(t[1].item, V2 \cup O, c2, cs2) \/ Owes(t[1], t[1].item, L2, cs2)
    PROVE  Pending(V2, L2, O, c2, cs2, t) /\ UnderWay(V2, L2, O, c2, cs2, t)
<1>1. /\ k \in {-1, 0, 1} /\ Len(s) \in Nat \ {0} /\ Len(t) \in Nat \ {0} /\ Len(t) = Len(s) + k
      /\ \A j \in 2 .. Len(t) : t[j] = s[j - k]
  BY DEF Shifted
<1>2. ASSUME NEW i \in 2 - k .. Len(s) PROVE i + k \in 2 .. Len(t) /\ t[i + k] = s[i]
  <2>1. i + k \in 2 .. Len(t) /\ (i + k) - k = i
    BY <1>1
  <2> QED
    BY <1>1, <2>1
<1>3. \A i \in 1 .. Len(s) : i \in 1 .. 1 - k \/ i \in 2 - k .. Len(s)
  BY <1>1
<1>4. \A f, z : Owes(f, z, L, cs) => Owes(f, z, L2, cs2)
  BY OwesMore
<1>5. 1 \in 1 .. Len(t)
  BY <1>1
<1>6. Pending(V2, L2, O, c2, cs2, t)
  <2>1. SUFFICES ASSUME NEW z \in L2 \ O
                 PROVE  \/ Closed(z, V2 \cup O, c2, cs2)
                        \/ \E i \in 1 .. Len(t) : Owes(t[i], z, L2, cs2) \/ (Evaluates(t[i]) /\ t[i].item = z)
    BY DEF Pending
  <2>2. CASE z \notin L
    BY <1>5, <2>2
  <2>3. CASE z \in L
    <3>1. CASE Closed(z, V \cup O, c, cs)
      BY <1>5, <2>3, <3>1
    <3>2. CASE \E i \in 1 .. Len(s) : Owes(s[i], z, L, cs) \/ (Evaluates(s[i]) /\ s[i].item = z)
      <4>1. PICK i \in 1 .. Len(s) : Owes(s[i], z, L, cs) \/ (Evaluates(s[i]) /\ s[i].item = z)
        BY <3>2
      <4>2. CASE i \in 1 .. 1 - k
        BY <1>5, <2>1, <2>3, <4>1, <4>2
      <4>3. CASE i \in 2 - k .. Len(s)
        <5>1. i + k \in 1 .. Len(t) /\ t[i + k] = s[i]
          BY <1>1, <1>2, <4>3
        <5> QED
          BY <1>4, <4>1, <5>1
      <4> QED
        BY <1>3, <4>2, <4>3
    <3> QED
      BY <2>1, <2>3, <3>1, <3>2 DEF Pending
  <2> QED
    BY <2>2, <2>3
<1>7. ASSUME NEW j \in 2 .. Len(t), Evaluates(t[j]) \/ Recomputes(t[j])
      PROVE  /\ t[j].item \notin O
             /\ Evaluates(t[j]) => \/ Fresh(t[j], V2 \cup O, c2, cs2) \/ Closed(t[j].item, V2 \cup O, c2, cs2)
                                   \/ \E i \in 1 .. j - 1 : Owes(t[i], t[j].item, L2, cs2)
             /\ Recomputes(t[j]) => \/ Closed(t[j].item, V2 \cup O, c2, cs2)
                                    \/ \E i \in 1 .. j : Owes(t[i], t[j].item, L2, cs2)
  <2> DEFINE m == j - k
             z == t[j].item
  <2>1. m \in 1 .. Len(s) /\ m \in 2 - k .. Len(s) /\ t[j] = s[m] /\ j \in Nat /\ 1 \in 1 .. j - 1 /\ 1 \in 1 .. j
    BY <1>1
  <2>2. t[j].stage # "query"
    BY <1>7 DEF Evaluates, Recomputes
  <2>3. z \in L
    BY <2>1, <2>2
  <2>4. z \notin O
    BY <2>1, <2>2 DEF UnderWay
  <2>5. ASSUME NEW i \in 1 .. m, Owes(s[i], z, L, cs)
        PROVE  \/ Closed(z, V2 \cup O, c2, cs2) \/ Owes(t[1], z, L2, cs2)
               \/ i + k \in 1 .. j /\ (i # m => i + k \in 1 .. j - 1) /\ Owes(t[i + k], z, L2, cs2)
    <3>1. i \in 1 .. Len(s)
      BY <1>1, <2>1
    <3>2. CASE i \in 1 .. 1 - k
      BY <2>3, <2>5, <2>4, <3>2
    <3>3. CASE i \in 2 - k .. Len(s)
      <4>1. t[i + k] = s[i] /\ i + k \in 2 .. Len(t) /\ i \in Nat
        BY <1>2, <3>3
      <4>2. i <= j - k /\ (i # m => i < j - k)
        BY <1>1, <2>1, <4>1
      <4>3. i + k \in 1 .. j /\ (i # m => i + k \in 1 .. j - 1)
        BY <1>1, <2>1, <4>1, <4>2
      <4> QED
        BY <1>4, <2>5, <4>1, <4>3
    <3> QED
      BY <1>3, <3>1, <3>2, <3>3
  <2>6. Closed(z, V \cup O, c, cs) => Closed(z, V2 \cup O, c2, cs2) \/ Owes(t[1], z, L2, cs2)
    BY <2>3
  <2> HIDE DEF m, z
  <2>7. ASSUME Evaluates(t[j])
        PROVE  \/ Fresh(t[j], V2 \cup O, c2, cs2) \/ Closed(z, V2 \cup O, c2, cs2)
               \/ \E i \in 1 .. j - 1 : Owes(t[i], z, L2, cs2)
    <3>1. \/ Fresh(s[m], V \cup O, c, cs) \/ Closed(z, V \cup O, c, cs)
          \/ \E i \in 1 .. m - 1 : Owes(s[i], z, L, cs)
      BY <2>1, <2>7 DEF UnderWay, z
    <3>2. CASE Fresh(s[m], V \cup O, c, cs)
      <4>1. Fresh(s[m], V2 \cup O, c2, cs2) \/ Owes(t[1], s[m].item, L2, cs2)
        BY <2>1, <2>7, <3>2
      <4> QED
        BY <2>1, <4>1 DEF z
    <3>3. CASE Closed(z, V \cup O, c, cs)
      BY <2>1, <2>6, <3>3
    <3>4. CASE \E i \in 1 .. m - 1 : Owes(s[i], z, L, cs)
      <4>1. PICK i \in 1 .. m - 1 : Owes(s[i], z, L, cs)
        BY <3>4
      <4>2. i \in 1 .. m /\ i # m
        BY <2>1, <1>1
      <4> QED
        BY <2>1, <2>5, <4>1, <4>2
    <3> QED
      BY <3>1, <3>2, <3>3, <3>4
  <2>8. ASSUME Recomputes(t[j])
        PROVE  Closed(z, V2 \cup O, c2, cs2) \/ \E i \in 1 .. j : Owes(t[i], z, L2, cs2)
    <3>1. Closed(z, V \cup O, c, cs) \/ \E i \in 1 .. m : Owes(s[i], z, L, cs)
      BY <2>1, <2>8 DEF UnderWay, z
    <3> QED
      BY <2>1, <2>5, <2>6, <3>1
  <2> QED
    BY <2>4, <2>7, <2>8 DEF z
<1>8. UnderWay(V2, L2, O, c2, cs2, t)
  <2>1. \A j \in 2 .. Len(t) : t[j].stage # "query" => t[j].item \notin O
    <3>1. SUFFICES ASSUME NEW j \in 2 .. Len(t), t[j].stage # "query" PROVE t[j].item \notin O
      OBVIOUS
    <3>2. j - k \in 1 .. Len(s) /\ t[j] = s[j - k]
      BY <1>1
    <3> QED
      BY <3>1, <3>2 DEF UnderWay
  <2>2. SUFFICES ASSUME NEW j \in 1 .. Len(t)
                 PROVE  /\ t[j].stage # "query" => t[j].item \notin O
                        /\ Evaluates(t[j]) => \/ Fresh(t[j], V2 \cup O, c2, cs2)
                                              \/ Closed(t[j].item, V2 \cup O, c2, cs2)
                                              \/ \E i \in 1 .. j - 1 : Owes(t[i], t[j].item, L2, cs2)
                        /\ Recomputes(t[j]) => \/ Closed(t[j].item, V2 \cup O, c2, cs2)
                                               \/ \E i \in 1 .. j : Owes(t[i], t[j].item, L2, cs2)
    BY DEF UnderWay
  <2>3. CASE j = 1
    <3>1. 1 \in 1 .. j
      BY <2>3
    <3> QED
      BY <2>3, <3>1
  <2>4. CASE j \in 2 .. Len(t)
    BY <1>7, <2>1, <2>4
  <2> QED
    BY <1>1, <2>3, <2>4
<1> QED
  BY <1>6, <1>8

LEMMA FrameFitsKept ==
    ASSUME NEW f \in Frames, NEW b, NEW V, NEW L, NEW O, NEW q, NEW c, FrameFits(f, b, V, L, O, q, c),
           NEW V2, NEW L2, V \subseteq V2, L \subseteq L2, NEW q2, NEW c2, \A x \in Askable : c[x] \subseteq c2[x],
           f.stage = "query" /\ q2 => f.item \in L2
    PROVE  FrameFits(f, b, V2, L2, O, q2, c2)
<1>1. f.item \in Askable /\ c[f.item] \subseteq c2[f.item]
  BY DEF Frames
<1> QED
  BY <1>1 DEF FrameFits, Full

LEMMA SteadyNext ==
    ASSUME NEW V, NEW L, NEW O, NEW q, NEW c, NEW cs, NEW s, NEW qd, Steady(V, L, O, q, c, cs, s, qd),
           NEW X \in SUBSET Askable, X \cap V \subseteq L, NEW q2, NEW c2, NEW cs2,
           \A x \in Askable : c[x] \subseteq c2[x],
           \A k \in g.calls : k.callee \in c2[Item(k.ptr)] => k \in cs2,
           \A d \in V \ L : Closed(d, Settled(V, L, O), c, cs) => d \in O \/ Closed(d, Settled(V, L, O), c2, cs2),
           s \in Seq(Frames), NEW t, NEW k, Shifted(s, t, k), FrameFits(t[1], 1 = Len(t), V \cup X, L \cup X, O, q2, c2),
           Len(t) = 1 => t[1].item = s[Len(s)].item,
           s[Len(s)].stage = "query" /\ q2 => s[Len(s)].item \in L \cup X
    PROVE  Steady(V \cup X, L \cup X, O, q2, c2, cs2, t, qd)
<1> DEFINE V2 == V \cup X
           L2 == L \cup X
<1>1. /\ V \subseteq Askable /\ L \subseteq V /\ O \subseteq Askable
      /\ \A d \in O : d[1] \in Defs /\ Full(d, c)
      /\ \A d \in V \ L : d \in O \/ Closed(d, Settled(V, L, O), c, cs)
      /\ \A i \in 1 .. Len(s) : FrameFits(s[i], i = Len(s), V, L, O, q, c)
      /\ \A v \in qd : \/ Item(v) \in Settled(V, L, O)
                       \/ s # <<>> /\ s[Len(s)].item = Item(v)
                       \/ s = <<>> /\ ~q /\ Item(v) \in V
  BY DEF Steady
<1>2. V2 \ L2 = V \ L /\ Settled(V2, L2, O) = Settled(V, L, O) /\ V2 \subseteq Askable /\ L2 \subseteq V2
  BY <1>1 DEF Settled
<1>3. /\ k \in {-1, 0, 1} /\ Len(s) \in Nat \ {0} /\ Len(t) \in Nat \ {0} /\ Len(t) = Len(s) + k
      /\ \A j \in 2 .. Len(t) : t[j] = s[j - k]
  BY DEF Shifted
<1>4. \A i \in 1 .. Len(s) : s[i] \in Frames
  OBVIOUS
<1>5. \A d \in O : Full(d, c2)
  BY <1>1 DEF Full
<1>6. ASSUME NEW j \in 1 .. Len(t) PROVE FrameFits(t[j], j = Len(t), V2, L2, O, q2, c2)
  <2>1. CASE j = 1
    <3>1. (j = Len(t)) = (1 = Len(t))
      BY <2>1
    <3> QED
      BY <2>1, <3>1
  <2>2. CASE j # 1
    <3>1. j - k \in 1 .. Len(s) /\ t[j] = s[j - k] /\ (j = Len(t) <=> j - k = Len(s))
      BY <1>3, <2>2
    <3>2. FrameFits(s[j - k], j - k = Len(s), V, L, O, q, c) /\ s[j - k] \in Frames
      BY <1>1, <1>4, <3>1
    <3>3. s[j - k].stage = "query" => j - k = Len(s)
      BY <3>2 DEF FrameFits
    <3>4. s[j - k].stage = "query" /\ q2 => s[j - k].item \in L2
      BY <3>3
    <3>5. FrameFits(s[j - k], j - k = Len(s), V2, L2, O, q2, c2)
      BY <3>2, <3>4, FrameFitsKept
    <3>6. (j = Len(t)) = (j - k = Len(s))
      BY <3>1
    <3> QED
      BY <3>1, <3>5, <3>6
  <2> QED
    BY <2>1, <2>2
<1>7. t[Len(t)].item = s[Len(s)].item /\ t # <<>>
  <2>1. CASE Len(t) = 1
    BY <2>1
  <2>2. CASE Len(t) # 1
    <3>1. Len(t) \in 2 .. Len(t) /\ Len(t) - k = Len(s)
      BY <1>3, <2>2
    <3> QED
      BY <1>3, <3>1
  <2> QED
    BY <1>3, <2>1, <2>2
<1>8. s # <<>>
  BY <1>3
<1> QED
  BY <1>1, <1>2, <1>5, <1>6, <1>7, <1>8 DEF Steady

\* What the frame on top has still to ask for and was visited, was seen.
LEMMA SeenHere ==
    ASSUME prog \in DOMAIN Programs, ParametersAreAddresses, NEW V, NEW L, NEW O, NEW q, NEW c, NEW cs \in SUBSET g.calls,
           NEW s \in Seq(Frames), NEW qd, Steady(V, L, O, q, c, cs, s, qd), Known(L, O, c, s), CacheFits(c),
           s # <<>>, NEW x \in s[1].todo, x \in V \cup O
    PROVE  Seen(x, V \cup O, c)
<1>1. /\ V \subseteq Askable /\ L \subseteq V /\ O \subseteq Askable
      /\ \A d \in O : d[1] \in Defs /\ Full(d, c)
      /\ \A d \in V \ L : d \in O \/ Closed(d, Settled(V, L, O), c, cs)
      /\ FrameFits(s[1], 1 = Len(s), V, L, O, q, c)
  <2>1. 1 \in 1 .. Len(s)
    OBVIOUS
  <2> QED
    BY <2>1 DEF Steady
<1>2. x \in Askable
  BY <1>1
<1>3. CASE x \in O
  BY <1>1, <1>2, <1>3, FullSeen
<1>4. CASE x \in V \ L /\ x \notin O
  BY <1>1, <1>2, <1>4, ClosedSeen
<1>5. CASE x \in L \ O
  <2>1. SUFFICES ASSUME Rooted(x), c[x] = {} PROVE FALSE
    BY DEF Seen
  <2>2. /\ Evaluates(s[1])
        /\ \/ s[1].item = x
           \/ Kind(x[1]) = "actual" /\ s[1].item = Item(x[2])
    BY <1>5, <2>1 DEF Known
  <2>3. Kind(s[1].item[1]) # "addr"
    BY <1>1, <2>2 DEF FrameFits
  <2>4. Kind(x[1]) = "actual" => Kind(Item(x[2])[1]) = "addr" /\ Item(x[2]) # x
    BY <1>2, PassedAddress
  <2>5. s[1].item = x /\ Kind(x[1]) = "actual"
    BY <2>1, <2>2, <2>3, <2>4 DEF Rooted
  <2>6. x \in {Item(x[2])}
    BY <1>1, <2>2, <2>5 DEF FrameFits
  <2> QED
    BY <2>4, <2>5, <2>6
<1> QED
  BY <1>3, <1>4, <1>5

\* Nothing grew and no call was resolved.
LEMMA UndisturbedSame ==
    ASSUME NEW d, NEW W, NEW W2, W \subseteq W2, NEW c, NEW cs
    PROVE  Undisturbed(d, W, W2, c, c, cs, cs)
BY DEF Undisturbed

\* A frame that uses the result of a call.
LEMMA FreshAbsorbs ==
    ASSUME NEW f \in Frames, NEW x \in f.todo, NEW W, NEW c, NEW cs, Seen(x, W, c), Fresh(f, W, c, cs), Evaluates(f)
    PROVE  Fresh(Absorb(f, x, c[x]), W, c, cs)
<1> DEFINE h == Absorb(f, x, c[x])
<1>1. /\ h.item = f.item /\ h.stage = f.stage /\ h.todo = f.todo \ {x} /\ h.rest = f.rest
      /\ h.base = IF f.stage = "pointer" THEN f.base \cup c[x] ELSE f.base
      /\ h.val = IF f.stage \in {"value", "edges"} THEN f.val \cup c[x] ELSE f.val
  BY DEF Frames, Absorb
<1> HIDE DEF h
<1>2. ASSUME f.stage = "funptr" PROVE Fresh(h, W, c, cs)
  BY <1>1, <1>2 DEF Fresh, FunSeen
<1>3. ASSUME f.stage = "pointer" PROVE Fresh(h, W, c, cs)
  BY <1>1, <1>3 DEF Fresh, Has
<1>4. ASSUME f.stage = "value" PROVE Fresh(h, W, c, cs)
  BY <1>1, <1>4 DEF Fresh, Has
<1>5. ASSUME f.stage = "edges" PROVE Fresh(h, W, c, cs)
  <2>1. \A X : Got(X, f.val, f.todo, W, c) => Got(X, h.val, h.todo, W, c)
    BY <1>1, <1>5 DEF Got, Has
  <2>2. \A y : Has(y, f.val, W, c) => Has(y, h.val, W, c)
    BY <1>1, <1>5 DEF Has
  <2>3. f.val \subseteq h.val /\ h.base = f.base
    BY <1>1, <1>5
  <2>4. Gathered(f.item, h.val, h.base, h.rest, h.todo, W, c, cs)
    BY <1>1, <1>5, <2>1, <2>2, <2>3 DEF Fresh, Gathered
  <2> QED
    BY <1>1, <1>5, <2>4 DEF Fresh
<1> QED
  BY <1>2, <1>3, <1>4, <1>5 DEF Evaluates, h

LEMMA CacheSame ==
    ASSUME prog' = prog, UNCHANGED caches
    PROVE  Cache' = Cache
<1>1. Askable' = Askable /\ \A d : getCachedPointsTo(d)' = getCachedPointsTo(d)
  BY SameProgram DEF getCachedPointsTo, caches
<1> QED
  BY <1>1 DEF Cache

LEMMA StackReplaced ==
    ASSUME Shape, stack # <<>>, NEW f \in Frames, NEW t, t = <<f>> \o Tail(stack)
    PROVE  /\ Shifted(stack, t, 0) /\ t[1] = f /\ t \in Seq(Frames) /\ stack \in Seq(Frames)
           /\ \A j \in 2 .. Len(t) : t[j] = stack[j]
<1>1. stack \in Seq(Frames)
  BY DEF Shape
<1>2. /\ t \in Seq(Frames) /\ Len(t) = Len(stack) /\ Len(stack) \in Nat \ {0}
      /\ t[1] = f /\ \A i \in 2 .. Len(stack) : t[i] = stack[i]
  BY <1>1, Replaced
<1>3. \A j \in 2 .. Len(t) : t[j] = stack[j - 0]
  BY <1>2
<1> QED
  BY <1>1, <1>2, <1>3 DEF Shifted

\* What the bound says of the frames.
LEMMA FrameFacts ==
    ASSUME Shape, Within(CoarseBound), NEW i \in 1 .. Len(stack)
    PROVE  /\ stack[i] \in Frames
           /\ stack[i].stage = "pointer" => Kind(stack[i].item[1]) \in {"load", "store"}
           /\ stack[i].stage = "value" => Kind(stack[i].item[1]) = "store" /\ stack[i].item[2] \in stack[i].base
<1>1. FrameWithin(CoarseBound, stack[i])
  BY DEF Within
<1> QED
  BY <1>1 DEF FrameWithin, Shape

\* The query under way is asked for one item, which is visited when it has calls under way.
LEMMA QueryItem ==
    ASSUME Shape, NEW V, NEW L, NEW O, NEW q, NEW c, NEW cs, NEW qd, Steady(V, L, O, q, c, cs, stack, qd),
           stack # <<>>, stack[Len(stack)].stage = "query", Len(stack) # 1
    PROVE  stack[Len(stack)].item \in L
<1>1. Len(stack) \in Nat \ {0} /\ Len(stack) - 1 \in 1 .. Len(stack) - 1 /\ Len(stack) - 1 \in 1 .. Len(stack)
  <2>1. Len(stack) \in Nat \ {0}
    BY TopFrame
  <2>2. PICK n : n = Len(stack)
    OBVIOUS
  <2>3. n \in Nat \ {0} /\ n # 1
    BY <2>1, <2>2
  <2>4. n - 1 \in 1 .. n - 1 /\ n - 1 \in 1 .. n
    BY <2>3
  <2> QED
    BY <2>2, <2>3, <2>4
<1>2. stack[Len(stack) - 1].item \in stack[Len(stack)].todo
  <2>1. (Len(stack) - 1) + 1 = Len(stack)
    BY <1>1
  <2> QED
    BY <1>1, <2>1 DEF Shape, Chained
<1>3. stack[Len(stack) - 1].stage # "query" /\ stack[Len(stack) - 1].item \in L
  <2>1. FrameFits(stack[Len(stack) - 1], Len(stack) - 1 = Len(stack), V, L, O, q, c)
    BY <1>1 DEF Steady
  <2> QED
    BY <1>1, <2>1 DEF FrameFits
<1>4. stack[Len(stack)].todo \subseteq {stack[Len(stack)].item}
  BY <1>1 DEF Steady, FrameFits
<1> QED
  BY <1>2, <1>3, <1>4

(***************************************************************************)
(* The frame on top changes; X was marked.                                 *)
(***************************************************************************)
LEMMA TopChanges ==
    ASSUME Shape, Within(CoarseBound), CompleteInv, stack # <<>>, NEW f \in Frames, Become(f),
           f.item = Top.item, f.stage = "query" <=> Top.stage = "query",
           Evaluates(f) <=> Evaluates(Top), Recomputes(f) <=> Recomputes(Top),
           UNCHANGED <<prog, caches, called, queried, outOfBudgetDpms>>,
           NEW X \in SUBSET Askable, X \cap backwardVisited \subseteq locToDpmSetMap,
           backwardVisited' = backwardVisited \cup X, locToDpmSetMap' = locToDpmSetMap \cup X,
           outOfBudgetQuery => outOfBudgetQuery', ~outOfBudgetQuery' => X \subseteq outOfBudgetDpms,
           outOfBudgetQuery' => outOfBudgetQuery \/ Top.todo \cap X # {},
           FrameFits(f, 1 = Len(stack), backwardVisited \cup X, locToDpmSetMap \cup X, outOfBudgetDpms,
                     outOfBudgetQuery', Cache),
           ~outOfBudgetQuery' /\ Evaluates(Top) /\ Fresh(Top, backwardVisited \cup outOfBudgetDpms, Cache, called) =>
               Fresh(f, backwardVisited \cup outOfBudgetDpms, Cache, called),
           ~outOfBudgetQuery' => \A z \in locToDpmSetMap \ outOfBudgetDpms :
               Owes(Top, z, locToDpmSetMap, called) => Owes(f, z, locToDpmSetMap, called)
    PROVE  CompleteInv'
<1>1. PICK V, L, O, q, c, cs, s, qd, q2, t :
         /\ V = backwardVisited /\ L = locToDpmSetMap /\ O = outOfBudgetDpms /\ q = outOfBudgetQuery
         /\ c = Cache /\ cs = called /\ s = stack /\ qd = queried /\ q2 = outOfBudgetQuery' /\ t = stack'
  OBVIOUS
<1>2. /\ Shifted(s, t, 0) /\ t[1] = f /\ t \in Seq(Frames) /\ s \in Seq(Frames)
      /\ \A j \in 2 .. Len(t) : t[j] = s[j]
  <2>1. t = <<f>> \o Tail(stack) /\ stack # <<>>
    BY <1>1 DEF Become, Below
  <2>2. /\ Shifted(stack, t, 0) /\ t[1] = f /\ t \in Seq(Frames) /\ stack \in Seq(Frames)
        /\ \A j \in 2 .. Len(t) : t[j] = stack[j]
    BY <2>1, StackReplaced
  <2> QED
    BY <1>1, <2>2
<1>3. Steady(V, L, O, q, c, cs, s, qd)
  BY <1>1 DEF CompleteInv
<1>4. Top = s[1] /\ Len(s) \in Nat \ {0} /\ Len(t) = Len(s) /\ 1 \in 1 .. Len(s)
  BY <1>1, <1>2, TopFrame DEF Shifted
<1>5. Cache' = c
  BY <1>1, CacheSame
<1>6. s[Len(s)].stage = "query" /\ q2 => s[Len(s)].item \in L \cup X
  <2>1. SUFFICES ASSUME s[Len(s)].stage = "query", q2 PROVE s[Len(s)].item \in L \cup X
    OBVIOUS
  <2>2. CASE Len(s) # 1
    BY <1>1, <1>3, <2>1, <2>2, QueryItem
  <2>3. CASE Len(s) = 1
    BY <1>1, <1>4, <2>1, <2>3 DEF FrameFits
  <2> QED
    BY <2>2, <2>3
<1>7. Steady(V \cup X, L \cup X, O, q2, c, cs, t, qd)
  <2>1. \A k \in g.calls : k.callee \in c[Item(k.ptr)] => k \in cs
    BY <1>3 DEF Steady
  <2>2. (1 = Len(s)) = (1 = Len(t))
    BY <1>4
  <2> QED
    BY <1>1, <1>2, <1>3, <1>4, <1>6, <2>1, <2>2, SteadyNext
<1>8. ASSUME ~q2
      PROVE  /\ Pending(V \cup X, L \cup X, O, c, cs, t) /\ UnderWay(V \cup X, L \cup X, O, c, cs, t)
             /\ Known(L \cup X, O, c, t)
  <2>1. ~q /\ Pending(V, L, O, c, cs, s) /\ UnderWay(V, L, O, c, cs, s) /\ Known(L, O, c, s) /\ X \subseteq O
    BY <1>1, <1>8 DEF CompleteInv
  <2>2. (V \cup X) \cup O = V \cup O
    BY <2>1
  <2>3. \A i \in 1 .. Len(s) : s[i].stage # "query" => s[i].item \in L
    BY <1>3 DEF Steady, FrameFits
  <2>4. \A z, i : Owes(s[i], z, L, cs) => Owes(s[i], z, L \cup X, cs)
    BY OwesMore
  <2>5. \A z \in L \ O : \A i \in 1 .. 1 - 0 : Owes(s[i], z, L, cs) => Owes(t[1], z, L \cup X, cs)
    <3>1. ASSUME NEW z \in L \ O, Owes(s[1], z, L, cs) PROVE Owes(t[1], z, L \cup X, cs)
      <4>1. Owes(f, z, L, cs)
        BY <1>1, <1>4, <1>8, <3>1
      <4> QED
        BY <1>2, <4>1, OwesMore
    <3>2. \A i \in 1 .. 1 - 0 : i = 1
      OBVIOUS
    <3> QED
      BY <3>1, <3>2
  <2>6. \A i \in 1 .. 1 - 0 : Evaluates(s[i]) => Evaluates(t[1]) /\ t[1].item = s[i].item
    BY <1>2, <1>4
  <2>7. t[1].stage # "query" => t[1].item \notin O
    BY <1>2, <1>4, <2>1 DEF UnderWay
  <2>8. Evaluates(t[1]) => Fresh(t[1], V \cup O, c, cs) \/ Closed(t[1].item, V \cup O, c, cs)
    <3>1. Evaluates(s[1]) => Fresh(s[1], V \cup O, c, cs) \/ Closed(s[1].item, V \cup O, c, cs)
      <4>1. Evaluates(s[1]) => \/ Fresh(s[1], V \cup O, c, cs) \/ Closed(s[1].item, V \cup O, c, cs)
                               \/ \E j \in 1 .. 1 - 1 : Owes(s[j], s[1].item, L, cs)
        BY <1>4, <2>1 DEF UnderWay
      <4>2. 1 .. 1 - 1 = {}
        OBVIOUS
      <4> QED
        BY <4>1, <4>2
    <3> QED
      BY <1>1, <1>2, <1>4, <1>8, <3>1
  <2>9. Recomputes(t[1]) => Closed(t[1].item, V \cup O, c, cs) \/ Owes(t[1], t[1].item, L \cup X, cs)
    <3>1. Recomputes(s[1]) => Closed(s[1].item, V \cup O, c, cs) \/ Owes(s[1], s[1].item, L, cs)
      <4>1. Recomputes(s[1]) => \/ Closed(s[1].item, V \cup O, c, cs)
                                \/ \E j \in 1 .. 1 : Owes(s[j], s[1].item, L, cs)
        BY <1>4, <2>1 DEF UnderWay
      <4>2. \A j \in 1 .. 1 : j = 1
        OBVIOUS
      <4> QED
        BY <4>1, <4>2
    <3>2. Recomputes(s[1]) => s[1].item \in L \ O
      BY <1>4, <2>1, <2>3 DEF UnderWay, Recomputes
    <3>3. \A z \in L \ O : Owes(s[1], z, L, cs) => Owes(t[1], z, L \cup X, cs)
      <4>1. 1 \in 1 .. 1 - 0
        OBVIOUS
      <4> QED
        BY <2>5, <4>1
    <3>4. (Recomputes(t[1]) => Recomputes(s[1])) /\ t[1].item = s[1].item
      BY <1>2, <1>4
    <3> QED
      BY <3>1, <3>2, <3>3, <3>4
  <2>10. (L \cup X) \ O = L \ O
    BY <2>1
  <2>11. Pending(V \cup X, L \cup X, O, c, cs, t) /\ UnderWay(V \cup X, L \cup X, O, c, cs, t)
    <3>1. \A z \in ((L \cup X) \ L) \ O : Evaluates(t[1]) /\ t[1].item = z
      BY <2>10
    <3> HIDE DEF Become
    <3> QED
      BY <1>2, <2>1, <2>2, <2>3, <2>5, <2>6, <2>7, <2>8, <2>9, <3>1, PendingNext
  <2>12. Known(L \cup X, O, c, t)
    <3>1. SUFFICES ASSUME NEW d \in L \ O, Rooted(d), c[d] = {}
                   PROVE  /\ t # <<>> /\ Evaluates(t[1])
                          /\ \/ t[1].item = d
                             \/ Len(t) > 1 /\ t[2].item = d /\ Kind(d[1]) = "actual" /\ t[1].item = Item(d[2])
      BY <2>10 DEF Known
    <3>2. /\ Evaluates(s[1])
          /\ \/ s[1].item = d
             \/ Len(s) > 1 /\ s[2].item = d /\ Kind(d[1]) = "actual" /\ s[1].item = Item(d[2])
      BY <2>1, <3>1 DEF Known
    <3>3. Len(s) > 1 => t[2] = s[2]
      BY <1>2, <1>4
    <3>4. t # <<>> /\ Evaluates(t[1]) /\ t[1].item = s[1].item
      BY <1>2, <1>4, <3>2
    <3> QED
      BY <1>4, <3>2, <3>3, <3>4
  <2> QED
    BY <2>11, <2>12
<1> QED
  BY <1>1, <1>5, <1>7, <1>8, CompleteNext

LEMMA TopFits ==
    ASSUME Shape, CompleteInv, stack # <<>>
    PROVE  /\ FrameFits(Top, 1 = Len(stack), backwardVisited, locToDpmSetMap, outOfBudgetDpms, outOfBudgetQuery, Cache)
           /\ backwardVisited \subseteq Askable /\ locToDpmSetMap \subseteq backwardVisited /\ outOfBudgetDpms \subseteq Askable
<1>1. Top = stack[1] /\ 1 \in 1 .. Len(stack)
  <2>1. Top = stack[1] /\ Len(stack) \in Nat \ {0}
    BY TopFrame
  <2> QED
    BY <2>1
<1> QED
  BY <1>1 DEF CompleteInv, Steady

\* A call under way that goes on with what it has.
LEMMA Evaluating ==
    ASSUME Shape, Within(CoarseBound), CompleteInv, stack # <<>>, Evaluates(Top), NEW f \in Frames, Evaluates(f),
           f.item = Top.item, Become(f), Unmoved,
           Kind(f.item[1]) = "addr" => f.todo = {},
           Kind(f.item[1]) = "actual" => f.val \subseteq Cache[f.item] /\ f.todo \subseteq {Item(f.item[2])},
           Fresh(Top, backwardVisited \cup outOfBudgetDpms, Cache, called) =>
               Fresh(f, backwardVisited \cup outOfBudgetDpms, Cache, called)
    PROVE  CompleteInv'
<1>1. /\ UNCHANGED <<prog, caches, called, queried, outOfBudgetDpms>>
      /\ UNCHANGED <<backwardVisited, locToDpmSetMap, outOfBudgetQuery>>
  BY DEF Unmoved, budget
<1>2. (f.stage = "query" <=> Top.stage = "query") /\ (Recomputes(f) <=> Recomputes(Top)) /\ ~Recomputes(f) /\ f.stage # "query"
  BY DEF Evaluates, Recomputes
<1>3. FrameFits(f, 1 = Len(stack), backwardVisited, locToDpmSetMap, outOfBudgetDpms, outOfBudgetQuery, Cache)
  BY <1>2, TopFits DEF FrameFits
<1>4. \A z : ~Owes(Top, z, locToDpmSetMap, called)
  BY <1>2 DEF Owes
<1>5. PICK X \in SUBSET Askable : X = {}
  OBVIOUS
<1>6. /\ backwardVisited \cup X = backwardVisited /\ locToDpmSetMap \cup X = locToDpmSetMap
      /\ X \cap backwardVisited \subseteq locToDpmSetMap /\ X \subseteq outOfBudgetDpms
  BY <1>5
<1>7. /\ backwardVisited' = backwardVisited \cup X /\ locToDpmSetMap' = locToDpmSetMap \cup X
      /\ outOfBudgetQuery' = outOfBudgetQuery
  BY <1>1, <1>6
<1>8. FrameFits(f, 1 = Len(stack), backwardVisited \cup X, locToDpmSetMap \cup X, outOfBudgetDpms,
                outOfBudgetQuery', Cache)
  BY <1>3, <1>6, <1>7
<1>9. /\ outOfBudgetQuery => outOfBudgetQuery'
      /\ ~outOfBudgetQuery' => X \subseteq outOfBudgetDpms
      /\ outOfBudgetQuery' => outOfBudgetQuery \/ Top.todo \cap X # {}
  BY <1>6, <1>7
<1>10. /\ ~outOfBudgetQuery' /\ Evaluates(Top) /\ Fresh(Top, backwardVisited \cup outOfBudgetDpms, Cache, called) =>
              Fresh(f, backwardVisited \cup outOfBudgetDpms, Cache, called)
       /\ ~outOfBudgetQuery' => \A z \in locToDpmSetMap \ outOfBudgetDpms :
              Owes(Top, z, locToDpmSetMap, called) => Owes(f, z, locToDpmSetMap, called)
  BY <1>4
<1>11. (f.stage = "query" <=> Top.stage = "query") /\ (Evaluates(f) <=> Evaluates(Top)) /\ (Recomputes(f) <=> Recomputes(Top))
  BY <1>2
<1> HIDE DEF Become
<1> QED
  BY <1>1, <1>6, <1>7, <1>8, <1>9, <1>10, <1>11, TopChanges

\* A computation of what read an item that grew.
LEMMA Recomputing ==
    ASSUME Shape, Within(CoarseBound), CompleteInv, stack # <<>>, Recomputes(Top), NEW f \in Frames, Recomputes(f),
           f.item = Top.item, Become(f), Unmoved, f.todo \subseteq locToDpmSetMap,
           \A z : Owes(Top, z, locToDpmSetMap, called) => Owes(f, z, locToDpmSetMap, called)
    PROVE  CompleteInv'
<1>1. /\ UNCHANGED <<prog, caches, called, queried, outOfBudgetDpms>>
      /\ UNCHANGED <<backwardVisited, locToDpmSetMap, outOfBudgetQuery>>
  BY DEF Unmoved, budget
<1>2. /\ (f.stage = "query" <=> Top.stage = "query") /\ f.stage # "query"
      /\ (Evaluates(f) <=> Evaluates(Top)) /\ ~Evaluates(f) /\ ~Evaluates(Top) /\ f.stage # "edges"
  BY DEF Evaluates, Recomputes
<1>3. FrameFits(f, 1 = Len(stack), backwardVisited, locToDpmSetMap, outOfBudgetDpms, outOfBudgetQuery, Cache)
  BY <1>2, TopFits DEF FrameFits
<1>5. PICK X \in SUBSET Askable : X = {}
  OBVIOUS
<1>6. /\ backwardVisited \cup X = backwardVisited /\ locToDpmSetMap \cup X = locToDpmSetMap
      /\ X \cap backwardVisited \subseteq locToDpmSetMap /\ X \subseteq outOfBudgetDpms
  BY <1>5
<1>7. /\ backwardVisited' = backwardVisited \cup X /\ locToDpmSetMap' = locToDpmSetMap \cup X
      /\ outOfBudgetQuery' = outOfBudgetQuery
  BY <1>1, <1>6
<1>8. FrameFits(f, 1 = Len(stack), backwardVisited \cup X, locToDpmSetMap \cup X, outOfBudgetDpms,
                outOfBudgetQuery', Cache)
  BY <1>3, <1>6, <1>7
<1>9. /\ outOfBudgetQuery => outOfBudgetQuery'
      /\ ~outOfBudgetQuery' => X \subseteq outOfBudgetDpms
      /\ outOfBudgetQuery' => outOfBudgetQuery \/ Top.todo \cap X # {}
  BY <1>6, <1>7
<1>10. /\ ~outOfBudgetQuery' /\ Evaluates(Top) /\ Fresh(Top, backwardVisited \cup outOfBudgetDpms, Cache, called) =>
              Fresh(f, backwardVisited \cup outOfBudgetDpms, Cache, called)
       /\ ~outOfBudgetQuery' => \A z \in locToDpmSetMap \ outOfBudgetDpms :
              Owes(Top, z, locToDpmSetMap, called) => Owes(f, z, locToDpmSetMap, called)
  BY <1>2
<1>11. (f.stage = "query" <=> Top.stage = "query") /\ (Evaluates(f) <=> Evaluates(Top)) /\ (Recomputes(f) <=> Recomputes(Top))
  BY <1>2
<1> HIDE DEF Become
<1> QED
  BY <1>1, <1>6, <1>7, <1>8, <1>9, <1>10, <1>11, TopChanges

LEMMA ItemsInto ==
    /\ \A n : DirectItems(n) = Into(n, called)
    /\ \A n, o : IndirectItems(n, o) = IntoOf(n, o, called)
BY DEF DirectItems, IndirectItems, Into, IntoOf, Direct, Indirect

LEMMA GotAll ==
    ASSUME NEW X, NEW val, NEW W, NEW c
    PROVE  Got(X, val, X, W, c)
BY DEF Got

LEMMA SingleStatementComplete ==
    ASSUME Shape, Within(CoarseBound), ParametersAreAddresses, CompleteInv, handleSingleStatement
    PROVE  CompleteInv'
<1> DEFINE d == Top.item
           n == d[1]
           f == CASE Kind(n) = "addr" -> [Top EXCEPT !.stage = "edges", !.val = {Stmt(n).obj}]
                  [] Kind(n) \in {"load", "store"} ->
                        [Top EXCEPT !.stage = "pointer", !.todo = {Item(Stmt(n).ptr)}]
                  [] Kind(n) = "mssa" ->
                        [Top EXCEPT !.stage = "edges", !.todo = IndirectItems(n, d[2])]
                  [] OTHER -> [Top EXCEPT !.stage = "edges", !.todo = DirectItems(n)]
           W == backwardVisited \cup outOfBudgetDpms
<1>1. stack # <<>> /\ Top.stage = "funptr" /\ Top.todo = {} /\ Become(f) /\ Unmoved
  BY DEF handleSingleStatement, Ready
<1>2. /\ Top \in Frames /\ d \in Askable /\ n \in NodesOf(g) /\ prog \in DOMAIN Programs
      /\ Kind(n) \in {"addr", "copy", "load", "store", "mssa", "actual", "formal"} /\ called \in SUBSET g.calls
  BY <1>1, TopFrame, Kinds DEF Shape
<1>3. Top.val = {} /\ Top.base = {}
  BY <1>1, TopFrame DEF Within, FrameWithin
<1>4. Evaluates(Top) /\ (Fresh(Top, W, Cache, called) => FunSeen(n, {}, W, Cache))
  BY <1>1 DEF Evaluates, Fresh
<1>5. ASSUME Fresh(Top, W, Cache, called) PROVE FunSeen(n, {}, W, Cache)
  BY <1>4, <1>5
<1>6. /\ f \in Frames /\ Evaluates(f) /\ f.item = d
      /\ Kind(n) = "addr" => f.todo = {}
      /\ Kind(n) = "actual" => f.val \subseteq Cache[d] /\ f.todo \subseteq {Item(d[2])}
      /\ Fresh(Top, W, Cache, called) => Fresh(f, W, Cache, called)
  <2>1. CASE Kind(n) = "addr"
    <3>1. f = [Top EXCEPT !.stage = "edges", !.val = {Stmt(n).obj}]
      BY <2>1
    <3>2. Stmt(n).obj \in Objs
      BY <1>2, <2>1, Kinds
    <3> HIDE DEF f
    <3>3. /\ f \in Frames /\ f.item = d /\ f.stage = "edges" /\ f.todo = {} /\ f.val = {Stmt(n).obj}
      BY <1>1, <1>2, <3>1, <3>2 DEF Frames, Stages
    <3>4. Gathered(f.item, f.val, f.base, f.rest, f.todo, W, Cache, called)
      BY <2>1, <3>3 DEF Gathered
    <3> QED
      BY <1>5, <2>1, <3>3, <3>4 DEF Fresh, Evaluates
  <2>2. CASE Kind(n) \in {"load", "store"}
    <3>1. f = [Top EXCEPT !.stage = "pointer", !.todo = {Item(Stmt(n).ptr)}]
      BY <2>2
    <3>2. Item(Stmt(n).ptr) \in Askable
      BY <1>2, <2>2, ReadsAskable DEF PointerOf
    <3> HIDE DEF f
    <3>3. f \in Frames /\ f.item = d /\ f.stage = "pointer" /\ f.todo = {PointerOf(n)}
      BY <1>1, <1>2, <1>3, <3>1, <3>2 DEF Frames, Stages, PointerOf
    <3> QED
      BY <1>5, <2>2, <3>3 DEF Fresh, Evaluates
  <2>3. CASE Kind(n) = "mssa"
    <3>1. f = [Top EXCEPT !.stage = "edges", !.todo = IndirectItems(n, d[2])]
      BY <2>3
    <3>2. IndirectItems(n, d[2]) \subseteq Askable
      BY Arriving
    <3> HIDE DEF f
    <3>3. f \in Frames /\ f.item = d /\ f.stage = "edges" /\ f.todo = IndirectItems(n, d[2])
      BY <1>1, <1>2, <1>3, <3>1, <3>2 DEF Frames, Stages
    <3>4. f.todo = IntoOf(n, d[2], called)
      BY <3>3, ItemsInto
    <3>5. Gathered(f.item, f.val, f.base, f.rest, f.todo, W, Cache, called)
      BY <2>3, <3>3, <3>4, GotAll DEF Gathered
    <3> QED
      BY <1>5, <2>3, <3>3, <3>5 DEF Fresh, Evaluates
  <2>4. CASE Kind(n) \in {"copy", "actual", "formal"}
    <3>1. f = [Top EXCEPT !.stage = "edges", !.todo = DirectItems(n)]
      BY <2>4
    <3>2. DirectItems(n) \subseteq Askable
      BY Arriving
    <3> HIDE DEF f
    <3>3. f \in Frames /\ f.item = d /\ f.stage = "edges" /\ f.todo = DirectItems(n) /\ f.val = {}
      BY <1>1, <1>2, <1>3, <3>1, <3>2 DEF Frames, Stages
    <3>4. f.todo = Into(n, called)
      BY <3>3, ItemsInto
    <3>5. Gathered(f.item, f.val, f.base, f.rest, f.todo, W, Cache, called)
      BY <2>4, <3>3, <3>4, GotAll DEF Gathered
    <3>6. Kind(n) = "actual" => f.todo = {Item(d[2])}
      BY <1>2, <3>4, IntoActual
    <3> QED
      BY <1>5, <2>4, <3>3, <3>5, <3>6 DEF Fresh, Evaluates
  <2> QED
    BY <1>2, <2>1, <2>2, <2>3, <2>4
<1> HIDE DEF f
<1> QED
  BY <1>1, <1>2, <1>4, <1>6, Evaluating

LEMMA PointerKnownComplete ==
    ASSUME Shape, Within(CoarseBound), CompleteInv, PointerKnown
    PROVE  CompleteInv'
<1> DEFINE d == Top.item
           n == d[1]
           f == [Top EXCEPT !.stage = "edges", !.rest = Top.base]
           W == backwardVisited \cup outOfBudgetDpms
<1>1. stack # <<>> /\ Top.stage = "pointer" /\ Top.todo = {} /\ Become(f) /\ Unmoved
  BY DEF PointerKnown, Ready
<1>2. Top \in Frames /\ Kind(n) \in {"load", "store"}
  BY <1>1, TopFrame DEF Within, FrameWithin
<1>3. /\ f \in Frames /\ f.item = d /\ f.stage = "edges" /\ f.todo = {} /\ f.rest = Top.base
      /\ f.base = Top.base
  BY <1>1, <1>2 DEF Frames, Stages
<1> HIDE DEF f
<1>4. ASSUME Fresh(Top, W, Cache, called) PROVE Fresh(f, W, Cache, called)
  <2>1. FunSeen(n, {}, W, Cache) /\ Has(PointerOf(n), Top.base, W, Cache)
    BY <1>1, <1>4 DEF Fresh
  <2>2. Gathered(f.item, f.val, f.base, f.rest, f.todo, W, Cache, called)
    BY <1>2, <1>3, <2>1 DEF Gathered
  <2> QED
    BY <1>3, <2>1, <2>2 DEF Fresh
<1> QED
  BY <1>1, <1>2, <1>3, <1>4, Evaluating DEF Evaluates

LEMMA AccessObjectComplete ==
    ASSUME Shape, Within(CoarseBound), CompleteInv, AccessObject
    PROVE  CompleteInv'
<1> DEFINE d == Top.item
           n == d[1]
           W == backwardVisited \cup outOfBudgetDpms
<1>1. /\ stack # <<>> /\ Top.stage = "edges" /\ Top.todo = {} /\ Kind(n) \in {"load", "store"} /\ Unmoved
      /\ \E o \in Top.rest : Become(Accessed(n, o, d[2]))
  BY DEF AccessObject, Ready
<1>2. PICK o \in Top.rest : Become(Accessed(n, o, d[2]))
  BY <1>1
<1>3. Top \in Frames /\ d \in Askable /\ called \in SUBSET g.calls /\ prog \in DOMAIN Programs
  BY <1>1, TopFrame DEF Shape
<1>4. Top.rest \subseteq Top.base
  BY <1>1, TopFrame DEF Within, FrameWithin
<1>5. ASSUME Fresh(Top, W, Cache, called)
      PROVE  FunSeen(n, {}, W, Cache) /\ Gathered(d, Top.val, Top.base, Top.rest, {}, W, Cache, called)
  BY <1>1, <1>5 DEF Fresh
<1> DEFINE f == Accessed(n, o, d[2])
<1>6. /\ f \in Frames /\ Evaluates(f) /\ f.item = d
      /\ Fresh(Top, W, Cache, called) => Fresh(f, W, Cache, called)
  <2>1. CASE Kind(n) = "load"
    <3>1. f = [Top EXCEPT !.rest = @ \ {o}, !.todo = IndirectItems(n, o)]
      BY <2>1 DEF Accessed
    <3>2. IndirectItems(n, o) \subseteq Askable
      BY Arriving
    <3> HIDE DEF f
    <3>3. /\ f \in Frames /\ f.item = d /\ f.stage = "edges" /\ f.todo = IndirectItems(n, o)
          /\ f.rest = Top.rest \ {o} /\ f.base = Top.base /\ f.val = Top.val
      BY <1>1, <1>3, <3>1, <3>2 DEF Frames
    <3>4. ASSUME Fresh(Top, W, Cache, called)
          PROVE  Gathered(f.item, f.val, f.base, f.rest, f.todo, W, Cache, called)
      <4>1. Has(PointerOf(n), f.base, W, Cache)
        BY <1>5, <2>1, <3>3, <3>4 DEF Gathered
      <4>2. ASSUME NEW a \in f.base \ f.rest PROVE Got(IntoOf(n, a, called), f.val, f.todo, W, Cache)
        <5>1. CASE a = o
          BY <3>3, <5>1, ItemsInto, GotAll
        <5>2. CASE a # o
          <6>1. Got(IntoOf(n, a, called), Top.val, {}, W, Cache)
            BY <1>5, <2>1, <3>3, <3>4, <5>2 DEF Gathered
          <6> QED
            BY <3>3, <6>1 DEF Got
        <5> QED
          BY <5>1, <5>2
      <4> QED
        BY <2>1, <3>3, <4>1, <4>2 DEF Gathered
    <3> QED
      BY <1>5, <3>3, <3>4 DEF Fresh, Evaluates
  <2>2. CASE Kind(n) = "store" /\ o = d[2]
    <3>1. f = [Top EXCEPT !.rest = @ \ {o}, !.stage = "value", !.todo = {Item(Stmt(n).src)}]
      BY <2>2 DEF Accessed
    <3>2. Item(Stmt(n).src) \in Askable
      BY <1>3, <2>2, ReadsAskable DEF SourceOf
    <3> HIDE DEF f
    <3>3. /\ f \in Frames /\ f.item = d /\ f.stage = "value" /\ f.todo = {SourceOf(n)}
          /\ f.base = Top.base
      BY <1>1, <1>3, <3>1, <3>2 DEF Frames, Stages, SourceOf
    <3>4. Fresh(Top, W, Cache, called) => Has(PointerOf(n), f.base, W, Cache)
      BY <1>5, <2>2, <3>3 DEF Gathered
    <3> QED
      BY <1>5, <3>3, <3>4 DEF Fresh, Evaluates
  <2>3. CASE Kind(n) = "store" /\ o # d[2]
    <3>1. f = [Top EXCEPT !.rest = @ \ {o}, !.todo = IndirectItems(n, d[2])]
      BY <2>3 DEF Accessed
    <3>2. IndirectItems(n, d[2]) \subseteq Askable
      BY Arriving
    <3> HIDE DEF f
    <3>3. /\ f \in Frames /\ f.item = d /\ f.stage = "edges" /\ f.todo = IndirectItems(n, d[2])
          /\ f.rest = Top.rest \ {o} /\ f.base = Top.base /\ f.val = Top.val
      BY <1>1, <1>3, <3>1, <3>2 DEF Frames
    <3>4. ASSUME Fresh(Top, W, Cache, called)
          PROVE  Gathered(f.item, f.val, f.base, f.rest, f.todo, W, Cache, called)
      <4>1. Has(PointerOf(n), f.base, W, Cache)
        BY <1>5, <2>3, <3>3, <3>4 DEF Gathered
      <4>2. d[2] \in f.base \ f.rest => Has(SourceOf(n), f.val, W, Cache)
        BY <1>5, <2>3, <3>3, <3>4 DEF Gathered
      <4>3. Got(IntoOf(n, d[2], called), f.val, f.todo, W, Cache)
        BY <3>3, ItemsInto, GotAll
      <4> QED
        BY <2>3, <3>3, <4>1, <4>2, <4>3 DEF Gathered
    <3> QED
      BY <1>5, <3>3, <3>4 DEF Fresh, Evaluates
  <2> QED
    BY <1>1, <2>1, <2>2, <2>3
<1> HIDE DEF f
<1>7. Become(f)
  BY <1>2 DEF f
<1> QED
  BY <1>1, <1>6, <1>7, Evaluating DEF Evaluates

LEMMA StoredComplete ==
    ASSUME Shape, Within(CoarseBound), CompleteInv, Stored
    PROVE  CompleteInv'
<1> DEFINE d == Top.item
           n == d[1]
           items == IF isStrongUpdate(Top.base) THEN {} ELSE IndirectItems(n, d[2])
           f == [Top EXCEPT !.stage = "edges", !.todo = items]
           W == backwardVisited \cup outOfBudgetDpms
<1>1. stack # <<>> /\ Top.stage = "value" /\ Top.todo = {} /\ Become(f) /\ Unmoved
  BY DEF Stored, Ready
<1>2. Top \in Frames /\ d \in Askable /\ Kind(n) = "store" /\ d[2] \in Top.base
  BY <1>1, TopFrame DEF Within, FrameWithin
<1>3. items \subseteq Askable
  BY Arriving
<1>4. Kills(d, Top.base) \/ items = IntoOf(n, d[2], called)
  <2>1. SUFFICES ASSUME isStrongUpdate(Top.base) PROVE Kills(d, Top.base)
    BY ItemsInto
  <2>2. PICK o : Top.base = {o}
    <3>1. IsFiniteSet(Top.base)
      <4>1. Top.base \subseteq Objs
        BY <1>2 DEF Frames
      <4> QED
        BY <4>1, ProgramsAssumption, FS_Subset
    <3> QED
      BY <2>1, <3>1, FS_Singleton DEF isStrongUpdate
  <2>3. Top.base = {d[2]}
    BY <1>2, <2>2
  <2> QED
    BY <2>1, <2>3 DEF Kills, isStrongUpdate, StrongObjs
<1> HIDE DEF items
<1>5. /\ f \in Frames /\ f.item = d /\ f.stage = "edges" /\ f.todo = items
      /\ f.rest = Top.rest /\ f.base = Top.base /\ f.val = Top.val
  BY <1>1, <1>2, <1>3 DEF Frames, Stages
<1> HIDE DEF f
<1>6. ASSUME Fresh(Top, W, Cache, called) PROVE Fresh(f, W, Cache, called)
  <2>1. FunSeen(n, {}, W, Cache) /\ Has(PointerOf(n), f.base, W, Cache) /\ Has(SourceOf(n), f.val, W, Cache)
    BY <1>1, <1>5, <1>6 DEF Fresh
  <2>2. ~Kills(d, f.base) => Got(IntoOf(n, d[2], called), f.val, f.todo, W, Cache)
    BY <1>4, <1>5, GotAll
  <2>3. Gathered(f.item, f.val, f.base, f.rest, f.todo, W, Cache, called)
    BY <1>2, <1>5, <2>1, <2>2 DEF Gathered
  <2> QED
    BY <1>5, <2>1, <2>3 DEF Fresh
<1> QED
  BY <1>1, <1>2, <1>5, <1>6, Evaluating DEF Evaluates

LEMMA FollowEdgeComplete ==
    ASSUME Shape, Within(CoarseBound), CompleteInv, FollowEdge
    PROVE  CompleteInv'
<1>1. stack # <<>> /\ Top.stage \in {"calls", "uses"} /\ Top.todo = {} /\ Unmoved
  BY DEF FollowEdge
<1>2. PICK e \in Top.rest : Become([Top EXCEPT !.rest = @ \ {e}, !.todo = Affected(Top.item, e)])
  BY DEF FollowEdge
<1> DEFINE f == [Top EXCEPT !.rest = @ \ {e}, !.todo = Affected(Top.item, e)]
<1>3. Top \in Frames /\ Affected(Top.item, e) \subseteq Askable
  BY <1>1, TopFrame DEF Affected, Shape
<1>4. /\ f \in Frames /\ f.item = Top.item /\ f.stage = Top.stage
      /\ f.todo = Affected(Top.item, e) /\ f.rest = Top.rest \ {e}
  BY <1>3 DEF Frames
<1>5. Become(f)
  BY <1>2
<1> HIDE DEF f
<1>6. \A z : Owes(Top, z, locToDpmSetMap, called) => Owes(f, z, locToDpmSetMap, called)
  <2>1. \A z \in locToDpmSetMap : Hit(Top.item, e, z) => z \in f.todo
    BY <1>4 DEF Affected, Hit
  <2> QED
    BY <1>1, <1>4, <2>1 DEF Owes, Recomputes
<1>7. f.todo \subseteq locToDpmSetMap
  BY <1>4 DEF Affected
<1>8. Recomputes(Top) /\ Recomputes(f)
  BY <1>1, <1>4 DEF Recomputes
<1> HIDE DEF Become
<1> QED
  BY <1>1, <1>4, <1>5, <1>6, <1>7, <1>8, Recomputing

LEMMA ReComputeComplete ==
    ASSUME Shape, Within(CoarseBound), CompleteInv, reCompute
    PROVE  CompleteInv'
<1> DEFINE n == Top.item[1]
           edges == {<<e[2], "direct">> : e \in {f \in Direct : f[1] = n}}
                       \cup {<<e[2], "indirect">> : e \in {f \in Indirect : f[1] = n}}
           h == [Top EXCEPT !.stage = "uses", !.rest = edges]
<1>1. stack # <<>> /\ Top.stage = "calls" /\ Top.todo = {} /\ Top.rest = {} /\ Become(h) /\ Unmoved
  BY DEF reCompute, Ready
<1>2. Top \in Frames /\ called \subseteq g.calls /\ prog \in DOMAIN Programs
  BY <1>1, TopFrame DEF Shape
<1>3. edges = OutEdges(n, called)
  BY DEF OutEdges, Direct, Indirect
<1>4. edges \subseteq NodesOf(g) \X EdgeKinds
  <2>1. (\A e \in Direct : e[2] \in NodesOf(g)) /\ (\A e \in Indirect : e[2] \in NodesOf(g))
    BY <1>2, EdgeItems DEF Direct, Indirect
  <2> QED
    BY <2>1 DEF EdgeKinds
<1> HIDE DEF edges
<1>5. h \in Frames /\ h.item = Top.item /\ h.stage = "uses" /\ h.rest = edges /\ h.todo = {}
  BY <1>1, <1>2, <1>4 DEF Frames, Stages
<1> HIDE DEF h
<1>6. \A z : Owes(Top, z, locToDpmSetMap, called) => Owes(h, z, locToDpmSetMap, called)
  BY <1>1, <1>3, <1>5 DEF Owes, Recomputes
<1>7. Recomputes(Top) /\ Recomputes(h) /\ h.todo \subseteq locToDpmSetMap
  BY <1>1, <1>5 DEF Recomputes
<1> HIDE DEF Become
<1> QED
  BY <1>1, <1>5, <1>6, <1>7, Recomputing

(***************************************************************************)
(* An item that is answered from its cache.                                *)
(***************************************************************************)
LEMMA ReturnComplete ==
    ASSUME Shape, Within(CoarseBound), ParametersAreAddresses, CompleteInv, stack # <<>>,
           NEW d \in Top.todo, Return(d), UNCHANGED <<prog, caches, called, queried, outOfBudgetDpms>>,
           NEW X \in SUBSET {d}, X \cap backwardVisited \subseteq locToDpmSetMap, d \in backwardVisited \cup X,
           backwardVisited' = backwardVisited \cup X, locToDpmSetMap' = locToDpmSetMap \cup X,
           outOfBudgetQuery => outOfBudgetQuery', ~outOfBudgetQuery' => X \subseteq outOfBudgetDpms,
           outOfBudgetQuery' => outOfBudgetQuery \/ d \in X,
           ~outOfBudgetQuery' /\ Recomputes(Top) => d \in outOfBudgetDpms
    PROVE  CompleteInv'
<1> DEFINE f == Absorb(Top, d, getCachedPointsTo(d))
           W == backwardVisited \cup outOfBudgetDpms
<1>1. /\ Top \in Frames /\ Top = stack[1] /\ d \in Askable /\ Top.item \in Askable
      /\ prog \in DOMAIN Programs /\ called \in SUBSET g.calls /\ stack \in Seq(Frames)
  BY TopFrame DEF Frames, Shape
<1>2. CacheFits(Cache) /\ Cache[d] = getCachedPointsTo(d) /\ Cache[d] \in SUBSET Objs
  BY <1>1, CacheFitsNow DEF CacheFits
<1>3. /\ f \in Frames /\ f.item = Top.item /\ f.stage = Top.stage /\ f.todo = Top.todo \ {d} /\ f.rest = Top.rest
      /\ f.val = IF Top.stage \in {"value", "edges"} THEN Top.val \cup Cache[d] ELSE Top.val
  BY <1>1, <1>2 DEF Frames, Absorb
<1>4. Become(f)
  BY DEF Return
<1>5. f = Absorb(Top, d, Cache[d])
  BY <1>2
<1> HIDE DEF f
<1>6. /\ (f.stage = "query" <=> Top.stage = "query") /\ (Evaluates(f) <=> Evaluates(Top))
      /\ (Recomputes(f) <=> Recomputes(Top))
  BY <1>3 DEF Evaluates, Recomputes
<1>7. FrameFits(f, 1 = Len(stack), backwardVisited \cup X, locToDpmSetMap \cup X, outOfBudgetDpms,
                outOfBudgetQuery', Cache)
  <2>1. FrameFits(Top, 1 = Len(stack), backwardVisited, locToDpmSetMap, outOfBudgetDpms, outOfBudgetQuery, Cache)
    BY TopFits
  <2>2. ASSUME f.stage = "query"
        PROVE  /\ 1 = Len(stack) /\ f.todo \subseteq {f.item} /\ (f.item \in f.todo \/ f.item \in backwardVisited \cup X)
               /\ outOfBudgetQuery' => f.item \in locToDpmSetMap \cup X
    <3>1. /\ 1 = Len(stack) /\ Top.todo \subseteq {Top.item} /\ (Top.item \in Top.todo \/ Top.item \in backwardVisited)
          /\ outOfBudgetQuery => Top.item \in locToDpmSetMap
      BY <1>6, <2>1, <2>2 DEF FrameFits
    <3>2. d = Top.item
      BY <3>1
    <3> QED
      BY <1>3, <3>1, <3>2
  <2>3. ASSUME Evaluates(f), Kind(f.item[1]) = "actual"
        PROVE  f.val \subseteq Cache[f.item] /\ f.todo \subseteq {Item(f.item[2])}
    <3>1. Top.val \subseteq Cache[Top.item] /\ Top.todo \subseteq {Item(Top.item[2])}
      BY <1>3, <1>6, <2>1, <2>3 DEF FrameFits
    <3>2. d = Item(Top.item[2])
      BY <3>1
    <3>3. Cache[d] = Cache[Top.item]
      BY <1>1, <1>2, <1>3, <2>3, <3>2, PassedAddress DEF CacheFits
    <3> QED
      BY <1>3, <3>1, <3>3
  <2>4. /\ f.stage # "query" => f.item \in locToDpmSetMap \cup X
        /\ 1 = Len(stack) => f.item[1] \in Defs /\ (Recomputes(f) => Full(f.item, Cache))
        /\ Recomputes(f) => f.todo \subseteq locToDpmSetMap \cup X
        /\ Evaluates(f) /\ Kind(f.item[1]) = "addr" => f.todo = {}
    BY <1>3, <1>6, <2>1 DEF FrameFits
  <2> QED
    BY <2>2, <2>3, <2>4 DEF FrameFits
<1>8. ASSUME ~outOfBudgetQuery', Evaluates(Top), Fresh(Top, W, Cache, called)
      PROVE  Fresh(f, W, Cache, called)
  <2>1. d \in W
    BY <1>8
  <2>2. Seen(d, W, Cache)
    <3>1. PICK s : s = stack
      OBVIOUS
    <3>2. /\ Steady(backwardVisited, locToDpmSetMap, outOfBudgetDpms, outOfBudgetQuery, Cache, called, s, queried)
          /\ Known(locToDpmSetMap, outOfBudgetDpms, Cache, s) /\ s \in Seq(Frames) /\ s # <<>> /\ d \in s[1].todo
      BY <1>1, <1>8, <3>1 DEF CompleteInv
    <3> QED
      BY <1>1, <1>2, <2>1, <3>2, SeenHere
  <2> QED
    BY <1>1, <1>5, <1>8, <2>2, FreshAbsorbs
<1>9. ASSUME ~outOfBudgetQuery'
      PROVE  \A z \in locToDpmSetMap \ outOfBudgetDpms :
                 Owes(Top, z, locToDpmSetMap, called) => Owes(f, z, locToDpmSetMap, called)
  BY <1>3, <1>6, <1>9 DEF Owes
<1>10. X \in SUBSET Askable /\ (outOfBudgetQuery' => outOfBudgetQuery \/ Top.todo \cap X # {})
  BY <1>1
<1> HIDE DEF Become
<1> QED
  BY <1>3, <1>4, <1>6, <1>7, <1>8, <1>9, <1>10, TopChanges

LEMMA VisitedComplete ==
    ASSUME Shape, Within(CoarseBound), ParametersAreAddresses, CompleteInv, stack # <<>>,
           NEW d \in Top.todo, Visited(d), UNCHANGED <<prog, caches, called, queried>>
    PROVE  CompleteInv'
<1>1. /\ d \in backwardVisited /\ ~Recomputes(Top) /\ Return(d)
      /\ UNCHANGED <<backwardVisited, locToDpmSetMap, outOfBudgetDpms, outOfBudgetQuery>>
  BY DEF Visited, budget, Recomputes
<1>2. PICK X \in SUBSET {d} : X = {}
  OBVIOUS
<1>3. /\ X \cap backwardVisited \subseteq locToDpmSetMap /\ d \in backwardVisited \cup X
      /\ backwardVisited' = backwardVisited \cup X /\ locToDpmSetMap' = locToDpmSetMap \cup X
      /\ outOfBudgetQuery => outOfBudgetQuery'
      /\ ~outOfBudgetQuery' => X \subseteq outOfBudgetDpms
      /\ outOfBudgetQuery' => outOfBudgetQuery \/ d \in X
  BY <1>1, <1>2
<1>4. UNCHANGED <<prog, caches, called, queried, outOfBudgetDpms>>
  BY <1>1
<1> HIDE DEF Return
<1> QED
  BY <1>1, <1>3, <1>4, ReturnComplete

LEMMA MarkedOnce ==
    ASSUME Shape, CompleteInv, stack # <<>>, NEW d \in Top.todo, Mark(d)
    PROVE  /\ {d} \cap backwardVisited \subseteq locToDpmSetMap
           /\ backwardVisited' = backwardVisited \cup {d} /\ locToDpmSetMap' = locToDpmSetMap \cup {d}
           /\ outOfBudgetDpms' = outOfBudgetDpms
           /\ outOfBudgetQuery' = (outOfBudgetQuery \/ ~StepsLeft)
<1>1. Recomputes(Top) => Top.todo \subseteq locToDpmSetMap
  BY TopFits DEF FrameFits
<1> QED
  BY <1>1 DEF Mark, Recomputes

LEMMA OutOfBudgetComplete ==
    ASSUME Shape, Within(CoarseBound), ParametersAreAddresses, CompleteInv, stack # <<>>,
           NEW d \in Top.todo, OutOfBudget(d), UNCHANGED <<prog, caches, called, queried>>
    PROVE  CompleteInv'
<1>1. /\ {d} \cap backwardVisited \subseteq locToDpmSetMap
      /\ backwardVisited' = backwardVisited \cup {d} /\ locToDpmSetMap' = locToDpmSetMap \cup {d}
      /\ outOfBudgetDpms' = outOfBudgetDpms
      /\ outOfBudgetQuery' = (outOfBudgetQuery \/ ~StepsLeft)
  BY MarkedOnce DEF OutOfBudget
<1>2. (outOfBudgetQuery \/ ~StepsLeft \/ d \in outOfBudgetDpms) /\ Return(d)
  BY DEF OutOfBudget
<1>3. PICK X \in SUBSET {d} : X = {d}
  OBVIOUS
<1>4. /\ X \cap backwardVisited \subseteq locToDpmSetMap /\ d \in backwardVisited \cup X
      /\ backwardVisited' = backwardVisited \cup X /\ locToDpmSetMap' = locToDpmSetMap \cup X
      /\ outOfBudgetQuery => outOfBudgetQuery'
      /\ ~outOfBudgetQuery' => X \subseteq outOfBudgetDpms
      /\ outOfBudgetQuery' => outOfBudgetQuery \/ d \in X
      /\ ~outOfBudgetQuery' /\ Recomputes(Top) => d \in outOfBudgetDpms
  BY <1>1, <1>2, <1>3
<1>5. UNCHANGED <<prog, caches, called, queried, outOfBudgetDpms>>
  BY <1>1
<1> HIDE DEF Return
<1> QED
  BY <1>2, <1>4, <1>5, ReturnComplete

(***************************************************************************)
(* A call is made.                                                         *)
(***************************************************************************)
LEMMA StackPushed ==
    ASSUME Shape, stack # <<>>, NEW f \in Frames, NEW t, t = <<f, Head(stack)>> \o Tail(stack)
    PROVE  /\ Shifted(stack, t, 1) /\ t[1] = f /\ t[2] = stack[1] /\ t \in Seq(Frames) /\ stack \in Seq(Frames)
           /\ Len(t) = Len(stack) + 1
<1>1. stack \in Seq(Frames)
  BY DEF Shape
<1>2. /\ t \in Seq(Frames) /\ Len(t) = Len(stack) + 1 /\ Len(stack) \in Nat \ {0}
      /\ t[1] = f /\ \A i \in 2 .. Len(t) : t[i] = stack[i - 1]
  BY <1>1, Pushed
<1>3. t[2] = stack[1]
  <2>1. 2 \in 2 .. Len(t) /\ 2 - 1 = 1
    BY <1>2
  <2> QED
    BY <1>2, <2>1
<1>4. Len(t) \in Nat \ {0}
  BY <1>2
<1> QED
  BY <1>1, <1>2, <1>3, <1>4 DEF Shifted

LEMMA HandleComplete ==
    ASSUME Shape, Within(CoarseBound), ParametersAreAddresses, CompleteInv, stack # <<>>,
           NEW d \in Top.todo, Handle(d), UNCHANGED <<prog, caches, called, queried>>
    PROVE  CompleteInv'
<1> DEFINE todo == {Item(p) : p \in FunPtrs(d[1])}
           f == Frame(d, "funptr", todo)
<1>1. PICK V, L, O, c, cs, s, qd, t :
         /\ V = backwardVisited /\ L = locToDpmSetMap /\ O = outOfBudgetDpms
         /\ c = Cache /\ cs = called /\ s = stack /\ qd = queried /\ t = stack'
  OBVIOUS
<1>2. /\ Top \in Frames /\ Top = s[1] /\ d \in Askable /\ d \in s[1].todo
      /\ prog \in DOMAIN Programs /\ cs \in SUBSET g.calls /\ CacheFits(c)
  BY <1>1, TopFrame, CacheFitsNow DEF Frames, Shape
<1>3. todo \subseteq Askable
  BY CallItem DEF FunPtrs, Shape
<1>4. f \in Frames /\ f.item = d /\ f.stage = "funptr" /\ f.todo = todo /\ f.val = {}
  BY <1>2, <1>3 DEF Frame, Frames, Stages
<1>5. t = <<f, Head(stack)>> \o Tail(stack)
  BY <1>1 DEF Handle, Top, Below
<1>6. Kind(d[1]) \notin {"formal", "mssa"} => f.todo = {}
  BY <1>2, <1>4, NoFunPtrs
<1>7. FunSeen(d[1], f.todo, V \cup {d} \cup O, c)
  BY <1>4 DEF FunSeen
<1> HIDE DEF f, todo
<1>8. /\ Shifted(s, t, 1) /\ t[1] = f /\ t[2] = s[1] /\ t \in Seq(Frames) /\ s \in Seq(Frames) /\ Len(t) = Len(s) + 1
      /\ Len(s) \in Nat \ {0} /\ Len(t) # 1
  <2>1. /\ Shifted(stack, t, 1) /\ t[1] = f /\ t[2] = stack[1] /\ t \in Seq(Frames) /\ stack \in Seq(Frames)
        /\ Len(t) = Len(stack) + 1
    BY <1>4, <1>5, StackPushed
  <2> QED
    BY <1>1, <2>1 DEF Shifted
<1>9. /\ {d} \cap V \subseteq L /\ backwardVisited' = V \cup {d} /\ locToDpmSetMap' = L \cup {d}
      /\ outOfBudgetDpms' = O /\ ~outOfBudgetQuery /\ ~outOfBudgetQuery' /\ d \notin O
  <2>1. Mark(d) /\ ~outOfBudgetQuery /\ StepsLeft /\ d \notin O
    BY <1>1 DEF Handle
  <2> QED
    BY <1>1, <2>1, MarkedOnce
<1>10. /\ Steady(V, L, O, outOfBudgetQuery, c, cs, s, qd) /\ Pending(V, L, O, c, cs, s) /\ UnderWay(V, L, O, c, cs, s)
       /\ Known(L, O, c, s)
  BY <1>1, <1>9 DEF CompleteInv
<1>11. L \subseteq Askable /\ FrameFits(s[1], 1 = Len(s), V, L, O, outOfBudgetQuery, c)
  BY <1>1, <1>2, TopFits
<1>12. Steady(V \cup {d}, L \cup {d}, O, FALSE, c, cs, t, qd)
  <2>1. FrameFits(t[1], 1 = Len(t), V \cup {d}, L \cup {d}, O, FALSE, c)
    BY <1>4, <1>6, <1>8 DEF FrameFits, Evaluates, Recomputes
  <2>2. \A k \in g.calls : k.callee \in c[Item(k.ptr)] => k \in cs
    BY <1>10 DEF Steady
  <2>3. {d} \in SUBSET Askable
    BY <1>2
  <2> QED
    BY <1>8, <1>9, <1>10, <2>1, <2>2, <2>3, SteadyNext
<1>13. Pending(V \cup {d}, L \cup {d}, O, c, cs, t) /\ UnderWay(V \cup {d}, L \cup {d}, O, c, cs, t)
  <2>1. \A i \in 1 .. Len(s) : s[i].stage # "query" => s[i].item \in L
    BY <1>10 DEF Steady, FrameFits
  <2>2. \A z : Undisturbed(z, V \cup O, (V \cup {d}) \cup O, c, c, cs, cs)
    <3>1. V \cup O \subseteq (V \cup {d}) \cup O
      OBVIOUS
    <3> QED
      BY <3>1, UndisturbedSame
  <2>3. \A z \in L : Closed(z, V \cup O, c, cs) => Closed(z, (V \cup {d}) \cup O, c, cs)
    BY <1>2, <1>11, <2>2, ClosedKept
  <2>4. \A i \in 1 .. Len(s) : Fresh(s[i], V \cup O, c, cs) => Fresh(s[i], (V \cup {d}) \cup O, c, cs)
    BY <1>1, <1>2, <2>2, FrameFacts, FreshKept
  <2>5. PICK k : k = 1
    OBVIOUS
  <2>6. Fresh(t[1], (V \cup {d}) \cup O, c, cs)
    BY <1>4, <1>7, <1>8 DEF Fresh
  <2>7. Evaluates(t[1]) /\ t[1].item = d /\ ~Recomputes(t[1])
    BY <1>4, <1>8 DEF Evaluates, Recomputes
  <2>8. 2 - k .. Len(s) = 1 .. Len(s) /\ 1 .. 1 - k = {} /\ Shifted(s, t, k)
    BY <1>8, <2>5
  <2>9. \A i \in 2 - k .. Len(s) : Fresh(s[i], V \cup O, c, cs) => Fresh(s[i], (V \cup {d}) \cup O, c, cs)
    BY <2>4, <2>8
  <2>10. \A i \in 1 .. 1 - k : FALSE
    BY <2>8
  <2>11. PICK V2, L2 : V2 = V \cup {d} /\ L2 = L \cup {d}
    OBVIOUS
  <2>12. L \subseteq L2 /\ cs \subseteq cs /\ \A z \in (L2 \ L) \ O : Evaluates(t[1]) /\ t[1].item = z
    BY <2>7, <2>11
  <2>13. t[1].stage # "query" => t[1].item \notin O
    BY <1>9, <2>7
  <2>14. /\ \A z \in L : Closed(z, V \cup O, c, cs) => Closed(z, V2 \cup O, c, cs) \/ Owes(t[1], z, L2, cs)
         /\ \A i \in 2 - k .. Len(s) : Evaluates(s[i]) /\ Fresh(s[i], V \cup O, c, cs) =>
                Fresh(s[i], V2 \cup O, c, cs) \/ Owes(t[1], s[i].item, L2, cs)
         /\ \A z \in L \ O : \A i \in 1 .. 1 - k : Owes(s[i], z, L, cs) =>
                Owes(t[1], z, L2, cs) \/ Closed(z, V2 \cup O, c, cs)
         /\ \A i \in 1 .. 1 - k : Evaluates(s[i]) =>
                \/ Closed(s[i].item, V2 \cup O, c, cs) \/ Owes(t[1], s[i].item, L2, cs)
                \/ Evaluates(t[1]) /\ t[1].item = s[i].item
         /\ Evaluates(t[1]) => Fresh(t[1], V2 \cup O, c, cs) \/ Closed(t[1].item, V2 \cup O, c, cs)
         /\ Recomputes(t[1]) => Closed(t[1].item, V2 \cup O, c, cs) \/ Owes(t[1], t[1].item, L2, cs)
    BY <2>3, <2>6, <2>7, <2>9, <2>10, <2>11
  <2>15. Pending(V2, L2, O, c, cs, t) /\ UnderWay(V2, L2, O, c, cs, t)
    BY <1>10, <2>1, <2>8, <2>12, <2>13, <2>14, PendingNext
  <2> QED
    BY <2>11, <2>15
<1>14. Known(L \cup {d}, O, c, t)
  <2>1. SUFFICES ASSUME NEW z \in L \cup {d}, z \notin O, Rooted(z), c[z] = {}
                 PROVE  /\ t # <<>> /\ Evaluates(t[1])
                        /\ \/ t[1].item = z
                           \/ Len(t) > 1 /\ t[2].item = z /\ Kind(z[1]) = "actual" /\ t[1].item = Item(z[2])
    BY DEF Known
  <2>2. t # <<>> /\ Evaluates(t[1]) /\ t[1].item = d /\ Len(t) > 1 /\ t[2] = s[1]
    BY <1>4, <1>8 DEF Evaluates
  <2>3. CASE z = d
    BY <2>2, <2>3
  <2>4. CASE z \in L
    <3>1. /\ Evaluates(s[1])
          /\ s[1].item = z \/ (Kind(z[1]) = "actual" /\ s[1].item = Item(z[2]))
      BY <1>10, <2>1, <2>4 DEF Known
    <3>2. Kind(s[1].item[1]) # "addr"
      BY <1>2, <1>11, <3>1 DEF FrameFits
    <3>3. Kind(z[1]) = "actual" => Kind(Item(z[2])[1]) = "addr"
      BY <1>2, <1>11, <2>4, PassedAddress
    <3>4. s[1].item = z /\ Kind(z[1]) = "actual"
      BY <2>1, <3>1, <3>2, <3>3 DEF Rooted
    <3>5. d = Item(z[2])
      BY <1>2, <1>11, <3>1, <3>4 DEF FrameFits
    <3> QED
      BY <2>2, <3>4, <3>5
  <2> QED
    BY <2>1, <2>3, <2>4
<1>15. Cache' = c
  BY <1>1, CacheSame
<1>16. outOfBudgetQuery' = FALSE
  <2>1. outOfBudgetQuery' \in BOOLEAN
    BY MarkedOnce DEF Handle
  <2> QED
    BY <1>9, <2>1
<1> QED
  BY <1>1, <1>9, <1>12, <1>13, <1>14, <1>15, <1>16, CompleteNext

LEMMA FindPTComplete ==
    ASSUME Shape, Within(CoarseBound), ParametersAreAddresses, CompleteInv, findPT
    PROVE  CompleteInv'
<1>1. PICK d \in Top.todo : Visited(d) \/ OutOfBudget(d) \/ Handle(d)
  BY DEF findPT
<1>2. stack # <<>> /\ UNCHANGED <<prog, caches, called, queried>>
  BY DEF findPT
<1> QED
  BY <1>1, <1>2, VisitedComplete, OutOfBudgetComplete, HandleComplete

(***************************************************************************)
(* A call ends, and the one below uses its result.                         *)
(***************************************************************************)
LEMMA BelowTop ==
    ASSUME Shape, stack # <<>>, Below # <<>>
    PROVE  /\ stack \in Seq(Frames) /\ Len(stack) \in Nat /\ Len(stack) >= 2 /\ stack[2] \in Frames
           /\ Head(Tail(stack)) = stack[2] /\ Tail(stack) # <<>> /\ stack[1].item \in stack[2].todo
<1>1. /\ Top \in Frames /\ Top = stack[1] /\ Len(stack) \in Nat \ {0} /\ stack \in Seq(Frames)
  BY TopFrame DEF Shape
<1>2. Tail(stack) \in Seq(Frames) /\ Len(Tail(stack)) = Len(stack) - 1 /\ Tail(stack) # <<>>
  BY <1>1 DEF Below
<1>3. Len(Tail(stack)) \in Nat \ {0} /\ Head(Tail(stack)) \in Frames
  BY <1>2
<1>4. Len(stack) >= 2
  BY <1>1, <1>2, <1>3
<1>5. Head(Tail(stack)) = stack[2]
  BY <1>1, <1>2, <1>3, <1>4
<1>6. 1 \in 1 .. Len(stack) - 1 /\ 1 + 1 = 2
  BY <1>1, <1>4
<1>7. stack[1].item \in stack[1 + 1].todo
  BY <1>6 DEF Shape, Chained
<1> QED
  BY <1>1, <1>2, <1>3, <1>4, <1>5, <1>6, <1>7

LEMMA StackPopped ==
    ASSUME Shape, stack # <<>>, Below # <<>>, NEW f \in Frames, NEW t, t = <<f>> \o Tail(Tail(stack)),
           NEW k, k = -1
    PROVE  /\ Shifted(stack, t, k) /\ t[1] = f /\ t \in Seq(Frames) /\ Len(t) = Len(stack) - 1
           /\ \A i \in 2 .. Len(t) : t[i] = stack[i + 1]
<1>1. stack \in Seq(Frames) /\ Tail(stack) # <<>> /\ Len(stack) \in Nat /\ Len(stack) >= 2
  BY BelowTop
<1>2. /\ t \in Seq(Frames) /\ Len(t) = Len(stack) - 1 /\ Len(t) \in Nat \ {0}
      /\ t[1] = f /\ \A i \in 2 .. Len(t) : t[i] = stack[i + 1]
  BY <1>1, Popped
<1>3. \A i \in 2 .. Len(t) : t[i] = stack[i - k]
  <2>1. ASSUME NEW i \in 2 .. Len(t) PROVE i - k = i + 1
    OBVIOUS
  <2> QED
    BY <1>2, <2>1
<1>4. k \in {-1, 0, 1} /\ Len(t) = Len(stack) + k /\ Len(t) \in Nat \ {0} /\ Len(stack) \in Nat \ {0}
  BY <1>1, <1>2
<1> QED
  BY <1>2, <1>3, <1>4 DEF Shifted

LEMMA AbsorbFits ==
    ASSUME prog \in DOMAIN Programs, ParametersAreAddresses, NEW c, CacheFits(c), NEW f \in Frames, NEW d \in f.todo,
           NEW b, NEW V, NEW L, NEW O, NEW q, FrameFits(f, b, V, L, O, q, c), d \in V
    PROVE  /\ FrameFits(Absorb(f, d, c[d]), b, V, L, O, q, c)
           /\ Absorb(f, d, c[d]) \in Frames
           /\ Absorb(f, d, c[d]).item = f.item /\ Absorb(f, d, c[d]).stage = f.stage
           /\ Absorb(f, d, c[d]).todo = f.todo \ {d} /\ Absorb(f, d, c[d]).rest = f.rest
<1> DEFINE h == Absorb(f, d, c[d])
<1>1. d \in Askable /\ f.item \in Askable /\ c[d] \in SUBSET Objs
  BY DEF Frames, CacheFits
<1>2. /\ h \in Frames /\ h.item = f.item /\ h.stage = f.stage /\ h.todo = f.todo \ {d} /\ h.rest = f.rest
      /\ h.val = IF f.stage \in {"value", "edges"} THEN f.val \cup c[d] ELSE f.val
  BY <1>1 DEF Frames, Absorb
<1> HIDE DEF h
<1>3. ASSUME h.stage = "query"
      PROVE  /\ b /\ h.todo \subseteq {h.item} /\ (h.item \in h.todo \/ h.item \in V)
             /\ q => h.item \in L
  <2>1. b /\ f.todo \subseteq {f.item} /\ (q => f.item \in L)
    BY <1>2, <1>3 DEF FrameFits
  <2>2. d = f.item
    BY <2>1
  <2> QED
    BY <1>2, <2>1, <2>2
<1>4. ASSUME Evaluates(h), Kind(h.item[1]) = "actual"
      PROVE  h.val \subseteq c[h.item] /\ h.todo \subseteq {Item(h.item[2])}
  <2>1. f.val \subseteq c[f.item] /\ f.todo \subseteq {Item(f.item[2])}
    BY <1>2, <1>4 DEF FrameFits, Evaluates
  <2>2. d = Item(f.item[2])
    BY <2>1
  <2>3. c[d] = c[f.item]
    BY <1>1, <1>2, <1>4, <2>2, PassedAddress DEF CacheFits
  <2> QED
    BY <1>2, <2>1, <2>3
<1>5. /\ h.stage # "query" => h.item \in L
      /\ b => h.item[1] \in Defs /\ (Recomputes(h) => Full(h.item, c))
      /\ Recomputes(h) => h.todo \subseteq L
      /\ Evaluates(h) /\ Kind(h.item[1]) = "addr" => h.todo = {}
  BY <1>2 DEF FrameFits, Evaluates, Recomputes
<1>6. FrameFits(h, b, V, L, O, q, c)
  BY <1>3, <1>4, <1>5 DEF FrameFits
<1> QED
  BY <1>2, <1>6 DEF h

LEMMA PopComplete ==
    ASSUME Shape, Within(CoarseBound), ParametersAreAddresses, CompleteInv, stack # <<>>, Below # <<>>,
           stack' = Pop(Top.item), Evaluates(Top) \/ Recomputes(Top),
           UNCHANGED <<prog, caches, called, queried, backwardVisited, locToDpmSetMap, outOfBudgetDpms, outOfBudgetQuery>>,
           \A z : ~Owes(Top, z, locToDpmSetMap, called),
           ~outOfBudgetQuery => Closed(Top.item, backwardVisited \cup outOfBudgetDpms, Cache, called)
    PROVE  CompleteInv'
<1> DEFINE f == Absorb(stack[2], Top.item, Cache[Top.item])
<1>1. PICK V, L, O, q, c, cs, s, qd, t, d :
         /\ V = backwardVisited /\ L = locToDpmSetMap /\ O = outOfBudgetDpms /\ q = outOfBudgetQuery
         /\ c = Cache /\ cs = called /\ s = stack /\ qd = queried /\ t = stack' /\ d = Top.item
  OBVIOUS
<1>2. /\ d \in Askable /\ d = s[1].item /\ Top = s[1] /\ d \in s[2].todo /\ s[1] \in Frames /\ s[2] \in Frames
      /\ prog \in DOMAIN Programs /\ cs \in SUBSET g.calls /\ CacheFits(c) /\ c[d] = getCachedPointsTo(d)
  BY <1>1, TopFrame, BelowTop, CacheFitsNow DEF Shape
<1>3. Len(s) \in Nat /\ Len(s) >= 2 /\ s \in Seq(Frames)
  BY <1>1, BelowTop
<1>4. t = <<f>> \o Tail(Tail(stack))
  BY <1>1, <1>2, BelowTop DEF Pop, Below
<1>5. Steady(V, L, O, q, c, cs, s, qd)
  BY <1>1 DEF CompleteInv
<1>6. s[1].stage # "query" /\ FrameFits(s[1], 1 = Len(s), V, L, O, q, c) /\ FrameFits(s[2], 2 = Len(s), V, L, O, q, c)
  <2>1. 1 \in 1 .. Len(s) /\ 2 \in 1 .. Len(s) /\ 1 # Len(s)
    <3>1. PICK n : n = Len(s)
      OBVIOUS
    <3>2. n \in Nat /\ n >= 2
      BY <1>3, <3>1
    <3>3. 1 \in 1 .. n /\ 2 \in 1 .. n /\ 1 # n
      BY <3>2
    <3> QED
      BY <3>1, <3>3
  <2>2. FrameFits(s[1], 1 = Len(s), V, L, O, q, c) /\ FrameFits(s[2], 2 = Len(s), V, L, O, q, c)
    BY <1>5, <2>1 DEF Steady
  <2> QED
    BY <2>1, <2>2 DEF FrameFits
<1>7. d \in L /\ d \in V /\ L \subseteq Askable
  BY <1>2, <1>5, <1>6 DEF FrameFits, Steady
<1>8. /\ FrameFits(f, 2 = Len(s), V, L, O, q, c) /\ f \in Frames /\ f.item = s[2].item /\ f.stage = s[2].stage
      /\ f.todo = s[2].todo \ {d} /\ f.rest = s[2].rest /\ f = Absorb(s[2], d, c[d])
  BY <1>1, <1>2, <1>6, <1>7, AbsorbFits
<1> HIDE DEF f
<1>0. PICK k : k = -1
  OBVIOUS
<1>9. /\ Shifted(s, t, k) /\ t[1] = f /\ t \in Seq(Frames) /\ Len(t) = Len(s) - 1
      /\ \A i \in 2 .. Len(t) : t[i] = s[i + 1]
  <2>1. /\ Shifted(stack, t, k) /\ t[1] = f /\ t \in Seq(Frames) /\ Len(t) = Len(stack) - 1
        /\ \A i \in 2 .. Len(t) : t[i] = stack[i + 1]
    <3>1. f \in Frames /\ t = <<f>> \o Tail(Tail(stack))
      BY <1>4, <1>8
    <3>2. Shifted(stack, t, k) /\ t[1] = f /\ t \in Seq(Frames)
      BY <1>0, <3>1, StackPopped
    <3>3. Len(t) = Len(stack) - 1
      BY <1>0, <3>1, StackPopped
    <3>4. \A i \in 2 .. Len(t) : t[i] = stack[i + 1]
      BY <1>0, <3>1, StackPopped
    <3> QED
      BY <3>2, <3>3, <3>4
  <2> QED
    BY <1>1, <2>1
<1>10. (Evaluates(f) <=> Evaluates(s[2])) /\ (Recomputes(f) <=> Recomputes(s[2]))
  BY <1>8 DEF Evaluates, Recomputes
<1>11. PICK X \in SUBSET Askable : X = {}
  OBVIOUS
<1>12. V \cup X = V /\ L \cup X = L /\ X \cap V \subseteq L
  BY <1>11
<1>13. Steady(V, L, O, q, c, cs, t, qd)
  <2>1. (2 = Len(s)) = (1 = Len(t))
    BY <1>3, <1>9
  <2>2. FrameFits(t[1], 1 = Len(t), V \cup X, L \cup X, O, q, c)
    BY <1>8, <1>9, <1>12, <2>1
  <2>3. Len(t) = 1 => t[1].item = s[Len(s)].item
    <3>1. Len(t) = 1 => Len(s) = 2
      <4>1. PICK n, m : n = Len(s) /\ m = Len(t)
        OBVIOUS
      <4>2. n \in Nat /\ m \in Nat /\ m = n - 1
        BY <1>3, <1>9, <4>1
      <4>3. m = 1 => n = 2
        BY <4>2
      <4> QED
        BY <4>1, <4>3
    <3> QED
      BY <1>8, <1>9, <3>1
  <2>4. s[Len(s)].stage = "query" /\ q => s[Len(s)].item \in L \cup X
    <3>1. Len(s) \in 1 .. Len(s)
      BY <1>3
    <3> QED
      BY <1>5, <1>12, <3>1 DEF Steady, FrameFits
  <2>5. \A m \in g.calls : m.callee \in c[Item(m.ptr)] => m \in cs
    BY <1>5 DEF Steady
  <2>6. Steady(V \cup X, L \cup X, O, q, c, cs, t, qd)
    BY <1>3, <1>5, <1>9, <1>12, <2>2, <2>3, <2>4, <2>5, SteadyNext
  <2> QED
    BY <1>12, <2>6
<1>14. ASSUME ~q
       PROVE  /\ Pending(V, L, O, c, cs, t) /\ UnderWay(V, L, O, c, cs, t)
              /\ Known(L, O, c, t)
  <2>1. Pending(V, L, O, c, cs, s) /\ UnderWay(V, L, O, c, cs, s) /\ Known(L, O, c, s)
    BY <1>1, <1>14 DEF CompleteInv
  <2>2. Closed(d, V \cup O, c, cs) /\ \A z : ~Owes(s[1], z, L, cs)
    BY <1>1, <1>2, <1>14
  <2>3. Seen(d, V \cup O, c)
    BY <1>2, <1>7, <2>2, ClosedSeen
  <2>4. \A i \in 1 .. Len(s) : s[i].stage # "query" => s[i].item \in L
    BY <1>5 DEF Steady, FrameFits
  <2>5. \A z : Owes(s[2], z, L, cs) => Owes(t[1], z, L, cs) \/ z = d
    BY <1>8, <1>9, <1>10 DEF Owes
  <2>6. 2 \in 1 .. Len(s)
    BY <1>3
  <2>7. t[1].stage # "query" => t[1].item \notin O
    BY <1>8, <1>9, <2>1, <2>6 DEF UnderWay
  <2>8. Evaluates(t[1]) => Fresh(t[1], V \cup O, c, cs) \/ Closed(t[1].item, V \cup O, c, cs)
    <3>1. SUFFICES ASSUME Evaluates(s[2])
                   PROVE Fresh(t[1], V \cup O, c, cs) \/ Closed(t[1].item, V \cup O, c, cs)
      BY <1>9, <1>10
    <3>2. \/ Fresh(s[2], V \cup O, c, cs) \/ Closed(s[2].item, V \cup O, c, cs)
          \/ \E j \in 1 .. 2 - 1 : Owes(s[j], s[2].item, L, cs)
      BY <2>1, <2>6, <3>1 DEF UnderWay
    <3>3. \A j \in 1 .. 2 - 1 : j = 1
      OBVIOUS
    <3>4. Fresh(s[2], V \cup O, c, cs) => Fresh(Absorb(s[2], d, c[d]), V \cup O, c, cs)
      BY <1>2, <2>3, <3>1, FreshAbsorbs
    <3> QED
      BY <1>8, <1>9, <2>2, <3>2, <3>3, <3>4
  <2>9. Recomputes(t[1]) => Closed(t[1].item, V \cup O, c, cs) \/ Owes(t[1], t[1].item, L, cs)
    <3>1. SUFFICES ASSUME Recomputes(s[2])
                   PROVE Closed(t[1].item, V \cup O, c, cs) \/ Owes(t[1], t[1].item, L, cs)
      BY <1>9, <1>10
    <3>2. \/ Closed(s[2].item, V \cup O, c, cs)
          \/ \E j \in 1 .. 2 : Owes(s[j], s[2].item, L, cs)
      BY <2>1, <2>6, <3>1 DEF UnderWay
    <3>3. \A j \in 1 .. 2 : j = 1 \/ j = 2
      OBVIOUS
    <3>4. Owes(s[2], s[2].item, L, cs) => Owes(t[1], s[2].item, L, cs) \/ Closed(s[2].item, V \cup O, c, cs)
      BY <2>2, <2>5
    <3> QED
      BY <1>8, <1>9, <2>2, <3>2, <3>3, <3>4
  <2>10. Pending(V, L, O, c, cs, t) /\ UnderWay(V, L, O, c, cs, t)
    <3>2. Shifted(s, t, k) /\ \A i \in 1 .. 1 - k : i = 1 \/ i = 2
      <4>1. 1 - k = 2
        BY <1>0
      <4>2. \A i \in 1 .. 2 : i = 1 \/ i = 2
        OBVIOUS
      <4> QED
        BY <1>0, <1>9, <4>1, <4>2
    <3>3. /\ \A z \in L : Closed(z, V \cup O, c, cs) => Closed(z, V \cup O, c, cs) \/ Owes(t[1], z, L, cs)
          /\ \A i \in 2 - k .. Len(s) : Evaluates(s[i]) /\ Fresh(s[i], V \cup O, c, cs) =>
                 Fresh(s[i], V \cup O, c, cs) \/ Owes(t[1], s[i].item, L, cs)
      OBVIOUS
    <3>4. \A z \in L \ O : \A i \in 1 .. 1 - k : Owes(s[i], z, L, cs) =>
                 Owes(t[1], z, L, cs) \/ Closed(z, V \cup O, c, cs)
      BY <2>2, <2>5, <3>2
    <3>5. \A i \in 1 .. 1 - k : Evaluates(s[i]) =>
                 \/ Closed(s[i].item, V \cup O, c, cs) \/ Owes(t[1], s[i].item, L, cs)
                 \/ Evaluates(t[1]) /\ t[1].item = s[i].item
      BY <1>2, <1>8, <1>9, <1>10, <2>2, <3>2
    <3>6. L \subseteq L /\ cs \subseteq cs /\ \A z \in (L \ L) \ O : Evaluates(t[1]) /\ t[1].item = z
      OBVIOUS
    <3> QED
      BY <2>1, <2>4, <2>7, <2>8, <2>9, <3>2, <3>3, <3>4, <3>5, <3>6, PendingNext
  <2>11. Known(L, O, c, t)
    <3>1. SUFFICES ASSUME NEW z \in L \ O, Rooted(z), c[z] = {} PROVE FALSE
      BY DEF Known
    <3>2. s[1].item = z \/ (Kind(z[1]) = "actual" /\ s[1].item = Item(z[2]))
      BY <2>1, <3>1 DEF Known
    <3>3. d # z
      BY <2>3, <3>1 DEF Seen
    <3>4. Kind(z[1]) = "actual" /\ d = Item(z[2])
      BY <1>2, <3>2, <3>3
    <3>5. c[d] = c[z] /\ Rooted(d)
      BY <1>2, <1>7, <3>1, <3>4, PassedAddress DEF CacheFits, Rooted
    <3> QED
      BY <2>3, <3>1, <3>5 DEF Seen
  <2> QED
    BY <2>10, <2>11
<1>15. Cache' = c
  BY <1>1, CacheSame
<1>16. prog' = prog /\ V = backwardVisited' /\ L = locToDpmSetMap' /\ O = outOfBudgetDpms' /\ q = outOfBudgetQuery'
       /\ cs = called' /\ qd = queried'
  BY <1>1
<1> QED
  BY <1>1, <1>13, <1>14, <1>15, <1>16, CompleteNext

LEMMA NotGrownComplete ==
    ASSUME Shape, Within(CoarseBound), ParametersAreAddresses, CompleteInv, updateCachedPointsTo,
           Top.val \subseteq getCachedPointsTo(Top.item)
    PROVE  CompleteInv'
<1> DEFINE d == Top.item
           W == backwardVisited \cup outOfBudgetDpms
<1>1. /\ stack # <<>> /\ Top.stage = "edges" /\ Top.todo = {} /\ Top.rest = {} /\ stack' = Pop(d) /\ Unmoved
  BY DEF updateCachedPointsTo, Ready
<1>2. /\ Top \in Frames /\ Top = stack[1] /\ d \in Askable /\ prog \in DOMAIN Programs /\ called \in SUBSET g.calls
      /\ Top.base \in SUBSET Objs
  BY <1>1, TopFrame DEF Shape, Frames
<1>3. Below # <<>>
  <2>1. ASSUME Below = <<>> PROVE FALSE
    <3>1. Len(stack) = 1
      BY <1>1, <2>1, TopFrame
    <3> QED
      BY <1>1, <1>2, <3>1 DEF Shape, Founded
  <2> QED
    BY <2>1
<1>4. Evaluates(Top) /\ ~Recomputes(Top)
  BY <1>1 DEF Evaluates, Recomputes
<1>5. Cache[d] = getCachedPointsTo(d)
  BY <1>2, CacheFitsNow
<1>6. ASSUME ~outOfBudgetQuery PROVE Closed(d, W, Cache, called)
  <2>1. 1 \in 1 .. Len(stack) /\ 1 .. 1 - 1 = {}
    <3>1. Len(stack) \in Nat \ {0}
      BY <1>1, TopFrame
    <3> QED
      BY <3>1
  <2>2. Fresh(Top, W, Cache, called) \/ Closed(d, W, Cache, called)
    BY <1>2, <1>4, <1>6, <2>1 DEF CompleteInv, UnderWay
  <2>3. CASE Fresh(Top, W, Cache, called)
    <3>1. FunSeen(d[1], {}, W, Cache) /\ Gathered(d, Top.val, Top.base, {}, {}, W, Cache, called)
      BY <1>1, <2>3 DEF Fresh
    <3>2. Undisturbed(d, W, W, Cache, Cache, called, called)
      BY UndisturbedSame
    <3>3. Top.val \subseteq Cache[d]
      BY <1>5
    <3> QED
      BY <1>2, <3>1, <3>2, <3>3, GatheredCloses
  <2> QED
    BY <2>2, <2>3
<1>7. UNCHANGED <<prog, caches, called, queried, backwardVisited, locToDpmSetMap, outOfBudgetDpms, outOfBudgetQuery>>
  BY <1>1 DEF Unmoved, budget
<1>8. \A z : ~Owes(Top, z, locToDpmSetMap, called)
  BY <1>4 DEF Owes
<1> QED
  BY <1>1, <1>3, <1>4, <1>6, <1>7, <1>8, PopComplete

(***************************************************************************)
(* A query ends.                                                           *)
(***************************************************************************)
LEMMA SteadyEnds ==
    ASSUME prog \in DOMAIN Programs, NEW V, NEW L, NEW O, NEW q, NEW c, NEW cs \in SUBSET g.calls, NEW s, NEW qd,
           CacheFits(c), Steady(V, L, O, q, c, cs, s, qd), s # <<>>, NEW Y \in SUBSET Askable,
           \A x \in Y : x[1] \in Defs /\ Full(x, c),
           s[Len(s)].item \in Y \/ (~q /\ s[Len(s)].item \in V)
    PROVE  Steady(V, L, O \cup Y, q, c, cs, <<>>, qd)
<1>1. /\ V \subseteq Askable /\ L \subseteq V /\ O \subseteq Askable
      /\ \A d \in O : d[1] \in Defs /\ Full(d, c)
      /\ \A k \in g.calls : k.callee \in c[Item(k.ptr)] => k \in cs
      /\ \A d \in V \ L : d \in O \/ Closed(d, Settled(V, L, O), c, cs)
      /\ \A v \in qd : Item(v) \in Settled(V, L, O) \/ s[Len(s)].item = Item(v)
  BY DEF Steady
<1>2. Settled(V, L, O) \subseteq Settled(V, L, O \cup Y) /\ Y \subseteq Settled(V, L, O \cup Y)
  BY DEF Settled
<1>3. ASSUME NEW d \in V \ L PROVE d \in O \cup Y \/ Closed(d, Settled(V, L, O \cup Y), c, cs)
  <2>1. Undisturbed(d, Settled(V, L, O), Settled(V, L, O \cup Y), c, c, cs, cs)
    BY <1>2, UndisturbedSame
  <2>2. d \in Askable
    BY <1>1
  <2> QED
    BY <1>1, <2>1, <2>2, ClosedKept
<1>4. \A v \in qd : Item(v) \in Settled(V, L, O \cup Y) \/ (~q /\ Item(v) \in V)
  BY <1>1, <1>2
<1>5. \A i \in 1 .. Len(<<>>) : FALSE
  OBVIOUS
<1> QED
  BY <1>1, <1>3, <1>4, <1>5 DEF Steady

LEMMA BottomComplete ==
    ASSUME Shape, Within(CoarseBound), CompleteInv, stack # <<>>, stack' = <<>>, Len(stack) = 1,
           UNCHANGED <<prog, caches, called, queried, backwardVisited, locToDpmSetMap, outOfBudgetQuery>>,
           outOfBudgetQuery, outOfBudgetDpms' = outOfBudgetDpms \cup {Top.item},
           Top.item[1] \in Defs, Full(Top.item, Cache)
    PROVE  CompleteInv'
<1>1. /\ Top = stack[1] /\ Top.item \in Askable /\ prog \in DOMAIN Programs /\ called \in SUBSET g.calls
      /\ CacheFits(Cache)
  BY TopFrame, CacheFitsNow DEF Shape
<1>2. PICK V, L, O, q, c, cs, qd, s :
         /\ V = backwardVisited /\ L = locToDpmSetMap /\ O = outOfBudgetDpms /\ q = outOfBudgetQuery
         /\ c = Cache /\ cs = called /\ qd = queried /\ s = stack
  OBVIOUS
<1>3. PICK Y, t, O2 : Y = {Top.item} /\ t = <<>> /\ O2 = O \cup Y
  OBVIOUS
<1>4. Steady(V, L, O2, q, c, cs, t, qd) /\ q
  <2>1. /\ \A x \in Y : x[1] \in Defs /\ Full(x, c)
        /\ s[Len(s)].item \in Y /\ s # <<>> /\ Y \in SUBSET Askable
        /\ cs \in SUBSET g.calls /\ CacheFits(c)
    BY <1>1, <1>2, <1>3
  <2>2. Steady(V, L, O, q, c, cs, s, qd)
    BY <1>2 DEF CompleteInv
  <2>3. Steady(V, L, O \cup Y, q, c, cs, <<>>, qd)
    BY <1>1, <2>1, <2>2, SteadyEnds
  <2> QED
    BY <1>2, <1>3, <2>3
<1>5. Cache' = c
  BY <1>2, CacheSame
<1>6. /\ prog' = prog /\ V = backwardVisited' /\ L = locToDpmSetMap' /\ O2 = outOfBudgetDpms' /\ q = outOfBudgetQuery'
      /\ cs = called' /\ t = stack' /\ qd = queried'
  BY <1>2, <1>3
<1> QED
  BY <1>4, <1>5, <1>6, CompleteNext

LEMMA RecomputedComplete ==
    ASSUME Shape, Within(CoarseBound), ParametersAreAddresses, CompleteInv, Recomputed
    PROVE  CompleteInv'
<1> DEFINE d == Top.item
           W == backwardVisited \cup outOfBudgetDpms
<1>1. /\ stack # <<>> /\ Top.stage = "uses" /\ Top.todo = {} /\ Top.rest = {} /\ stack' = Pop(d)
      /\ outOfBudgetDpms' = outOfBudgetDpms \cup (IF Below = <<>> THEN {d} ELSE {})
      /\ UNCHANGED <<prog, caches, called, queried, backwardVisited, locToDpmSetMap, outOfBudgetQuery>>
  BY DEF Recomputed, Ready
<1>2. /\ Top = stack[1] /\ Recomputes(Top) /\ ~Evaluates(Top) /\ Len(stack) \in Nat \ {0}
  BY <1>1, TopFrame DEF Recomputes, Evaluates
<1>3. \A z : ~Owes(Top, z, locToDpmSetMap, called)
  BY <1>1 DEF Owes
<1>4. CASE Below = <<>>
  <2>1. Len(stack) = 1 /\ stack' = <<>> /\ outOfBudgetDpms' = outOfBudgetDpms \cup {d}
    BY <1>1, <1>4, TopFrame DEF Pop
  <2>2. outOfBudgetQuery
    BY <1>1, <1>2, <2>1 DEF Shape, Founded
  <2>3. d[1] \in Defs /\ Full(d, Cache)
    BY <1>1, <1>2, <2>1, TopFits DEF FrameFits
  <2> QED
    BY <1>1, <2>1, <2>2, <2>3, BottomComplete
<1>5. CASE Below # <<>>
  <2>1. ASSUME ~outOfBudgetQuery PROVE Closed(d, W, Cache, called)
    <3>1. 1 \in 1 .. Len(stack) /\ \A j \in 1 .. 1 : j = 1
      BY <1>2
    <3>2. Closed(d, W, Cache, called) \/ \E j \in 1 .. 1 : Owes(stack[j], d, locToDpmSetMap, called)
      BY <1>2, <2>1, <3>1 DEF CompleteInv, UnderWay
    <3> QED
      BY <1>2, <1>3, <3>1, <3>2
  <2>2. UNCHANGED <<prog, caches, called, queried, backwardVisited, locToDpmSetMap, outOfBudgetDpms, outOfBudgetQuery>>
    BY <1>1, <1>5
  <2> QED
    BY <1>1, <1>2, <1>3, <1>5, <2>1, <2>2, PopComplete
<1> QED
  BY <1>4, <1>5

LEMMA AnswerComplete ==
    ASSUME Shape, Within(CoarseBound), CompleteInv, Answer
    PROVE  CompleteInv'
<1>1. /\ stack # <<>> /\ Top.stage = "query" /\ Top.todo = {} /\ ~outOfBudgetQuery /\ stack' = <<>>
      /\ UNCHANGED <<prog, caches, called, queried, backwardVisited, locToDpmSetMap, outOfBudgetDpms, outOfBudgetQuery>>
  BY DEF Answer, Ready, Unmoved, budget
<1>2. /\ Top = stack[1] /\ Top.item \in Askable /\ prog \in DOMAIN Programs /\ called \in SUBSET g.calls
      /\ CacheFits(Cache)
  BY <1>1, TopFrame, CacheFitsNow DEF Shape
<1>3. Len(stack) = 1 /\ Top.item \in backwardVisited
  BY <1>1, TopFits DEF FrameFits
<1>4. PICK V, L, O, q, c, cs, qd, s, t :
         /\ V = backwardVisited /\ L = locToDpmSetMap /\ O = outOfBudgetDpms /\ q = outOfBudgetQuery
         /\ c = Cache /\ cs = called /\ qd = queried /\ s = stack /\ t = <<>>
  OBVIOUS
<1>5. /\ Steady(V, L, O, q, c, cs, s, qd) /\ ~q
      /\ Pending(V, L, O, c, cs, s) /\ Known(L, O, c, s)
  BY <1>1, <1>4 DEF CompleteInv
<1>6. Steady(V, L, O, q, c, cs, t, qd)
  <2>1. PICK Y \in SUBSET Askable : Y = {}
    OBVIOUS
  <2>2. /\ \A x \in Y : x[1] \in Defs /\ Full(x, c)
        /\ ~q /\ s[Len(s)].item \in V /\ s # <<>>
        /\ cs \in SUBSET g.calls /\ CacheFits(c)
    BY <1>1, <1>2, <1>3, <1>4, <2>1
  <2>3. Steady(V, L, O \cup Y, q, c, cs, <<>>, qd)
    BY <1>2, <1>5, <2>2, SteadyEnds
  <2>4. O \cup Y = O
    BY <2>1
  <2> QED
    BY <1>4, <2>3, <2>4
<1>7. \A i \in 1 .. Len(t) : FALSE
  BY <1>4
<1>8. \A i \in 1 .. Len(s) : s[i] = Top
  <2>1. \A i \in 1 .. 1 : i = 1
    OBVIOUS
  <2> QED
    BY <1>2, <1>3, <1>4, <2>1
<1>9. ~Evaluates(Top) /\ ~Recomputes(Top)
  BY <1>1 DEF Evaluates, Recomputes
<1>10. Pending(V, L, O, c, cs, t)
  BY <1>5, <1>8, <1>9 DEF Pending, Owes
<1>11. UnderWay(V, L, O, c, cs, t)
  BY <1>7 DEF UnderWay
<1>12. Known(L, O, c, t)
  BY <1>2, <1>4, <1>5, <1>9 DEF Known
<1>13. Cache' = c
  BY <1>1, <1>4, CacheSame
<1>14. /\ prog' = prog /\ V = backwardVisited' /\ L = locToDpmSetMap' /\ O = outOfBudgetDpms' /\ q = outOfBudgetQuery'
       /\ cs = called' /\ t = stack' /\ qd = queried'
  BY <1>1, <1>4
<1> QED
  BY <1>6, <1>10, <1>11, <1>12, <1>13, <1>14, CompleteNext

LEMMA ComputeComplete ==
    ASSUME Shape, Within(CoarseBound), CompleteInv, computeDDAPts
    PROVE  CompleteInv'
<1>1. PICK v \in {Pointer(n) : n \in Defs} :
         stack' = <<Frame(Item(v), "query", {Item(v)})>> /\ queried' = queried \cup {v}
  BY DEF computeDDAPts
<1>2. /\ stack = <<>> /\ backwardVisited' = StillVisited /\ locToDpmSetMap' = {} /\ outOfBudgetQuery' = FALSE
      /\ UNCHANGED <<prog, caches, outOfBudgetDpms, called>>
  BY DEF computeDDAPts
<1>3. prog \in DOMAIN Programs /\ called \in SUBSET g.calls /\ CacheFits(Cache)
  BY CacheFitsNow DEF Shape
<1>4. PICK V, L, O, q, c, cs, qd, s :
         /\ V = backwardVisited /\ L = locToDpmSetMap /\ O = outOfBudgetDpms /\ q = outOfBudgetQuery
         /\ c = Cache /\ cs = called /\ qd = queried /\ s = stack
  OBVIOUS
<1>5. PICK V2, qd2, t : V2 = StillVisited /\ qd2 = qd \cup {v} /\ t = <<Frame(Item(v), "query", {Item(v)})>>
  OBVIOUS
<1>6. Steady(V, L, O, q, c, cs, s, qd) /\ (~q => Pending(V, L, O, c, cs, s)) /\ s = <<>>
  BY <1>2, <1>4 DEF CompleteInv
<1>7. IF q THEN V2 = V \ (L \ O) ELSE V2 = V
  BY <1>4, <1>5 DEF StillVisited
<1>8. /\ V \subseteq Askable /\ L \subseteq V /\ O \subseteq Askable
      /\ \A d \in O : d[1] \in Defs /\ Full(d, c)
      /\ \A k \in g.calls : k.callee \in c[Item(k.ptr)] => k \in cs
      /\ \A d \in V \ L : d \in O \/ Closed(d, Settled(V, L, O), c, cs)
      /\ \A w \in qd : Item(w) \in Settled(V, L, O) \/ (~q /\ Item(w) \in V)
  BY <1>6 DEF Steady
<1>9. Settled(V2, {}, O) = V2 \cup O /\ Settled(V, L, O) = (V \ L) \cup O
  BY DEF Settled
<1>10. Settled(V, L, O) \subseteq V2 \cup O
  BY <1>7, <1>8, <1>9
<1>11. ASSUME NEW d \in V2, d \notin O PROVE Closed(d, V2 \cup O, c, cs)
  <2>1. d \in Askable /\ d \in V
    BY <1>7, <1>8, <1>11
  <2>2. CASE d \notin L
    <3>1. Undisturbed(d, Settled(V, L, O), V2 \cup O, c, c, cs, cs)
      BY <1>10, UndisturbedSame
    <3>2. Closed(d, Settled(V, L, O), c, cs)
      BY <1>8, <1>11, <2>1, <2>2
    <3> QED
      BY <1>3, <1>4, <2>1, <3>1, <3>2, ClosedKept
  <2>3. CASE d \in L
    <3>1. ~q /\ V2 = V
      BY <1>7, <1>11, <2>1, <2>3
    <3>2. \A i \in 1 .. Len(s) : FALSE
      BY <1>6
    <3> QED
      BY <1>6, <1>11, <2>3, <3>1, <3>2 DEF Pending
  <2> QED
    BY <2>2, <2>3
<1>12. Len(t) = 1 /\ t[1].item = Item(v) /\ t[1].stage = "query" /\ t[1].todo = {Item(v)} /\ t # <<>>
  BY <1>5 DEF Frame
<1>13. \A i \in 1 .. Len(t) : i = 1
  BY <1>12
<1>14. Item(v)[1] \in Defs
  BY <1>3, OneDefinition
<1>15. FrameFits(t[1], 1 = Len(t), V2, {}, O, FALSE, c)
  BY <1>12, <1>14 DEF FrameFits, Evaluates, Recomputes
<1>16. Steady(V2, {}, O, FALSE, c, cs, t, qd2)
  <2>1. \A i \in 1 .. Len(t) : FrameFits(t[i], i = Len(t), V2, {}, O, FALSE, c)
    BY <1>13, <1>15
  <2>2. \A w \in qd2 : Item(w) \in V2 \cup O \/ t[Len(t)].item = Item(w)
    BY <1>5, <1>7, <1>8, <1>10, <1>12
  <2>3. V2 \subseteq Askable
    BY <1>7, <1>8
  <2> QED
    BY <1>8, <1>9, <1>11, <1>12, <2>1, <2>2, <2>3 DEF Steady
<1>17. Pending(V2, {}, O, c, cs, t) /\ Known({}, O, c, t)
  BY DEF Pending, Known
<1>18. UnderWay(V2, {}, O, c, cs, t)
  BY <1>12, <1>13 DEF UnderWay, Evaluates, Recomputes
<1>19. Cache' = c
  BY <1>2, <1>4, CacheSame
<1>20. PICK L2, q2 : L2 = {} /\ q2 = FALSE
  OBVIOUS
<1>21. /\ Steady(V2, L2, O, q2, c, cs, t, qd2)
       /\ Pending(V2, L2, O, c, cs, t) /\ Known(L2, O, c, t) /\ UnderWay(V2, L2, O, c, cs, t)
  BY <1>16, <1>17, <1>18, <1>20
<1>22. /\ prog' = prog /\ V2 = backwardVisited' /\ L2 = locToDpmSetMap' /\ O = outOfBudgetDpms' /\ q2 = outOfBudgetQuery'
       /\ cs = called' /\ t = stack' /\ qd2 = queried'
  BY <1>1, <1>2, <1>4, <1>5, <1>20
<1> QED
  BY <1>19, <1>21, <1>22, CompleteNext

(***************************************************************************)
(* A set grows.  No other item has its set, but the actual parameters that *)
(* pass the address: these had it empty, and were not seen.                *)
(***************************************************************************)
LEMMA GrownCache ==
    ASSUME Shape, Within(CoarseBound), ParametersAreAddresses, NEW d \in Askable, Kind(d[1]) # "actual",
           NEW set \in SUBSET Objs, set \subseteq AndersenPts[prog][d[2]], unionDDAPts(d, set), prog' = prog,
           NEW c, c = Cache, NEW c2, c2 = Cache'
    PROVE  /\ \A x \in Askable : c[x] \subseteq c2[x]
           /\ c2[d] = c[d] \cup set
           /\ CacheFits(c2)
           /\ \A x \in Askable : x # d /\ x[1] \in Defs => c2[x] = c[x]
           /\ \A x \in Askable : x # d /\ (Rooted(x) => c[x] # {}) => c2[x] = c[x]
<1>1. prog \in DOMAIN Programs /\ CacheFits(c)
  BY CacheFitsNow DEF Shape
<1>2. \A x \in Askable : c[x] = getCachedPointsTo(x) /\ c2[x] = getCachedPointsTo(x)'
  <2>1. Askable' = Askable
    BY SameProgram
  <2> QED
    BY <2>1 DEF Cache
<1>3. \A x : getCachedPointsTo(x)' = IF isTopLevelPtrStmt(x[1]) THEN pts'[x[2]] ELSE dpmToADCPtSetMap'[x]
  BY SameProgram DEF getCachedPointsTo
<1>4. \A x \in Askable : c2[x] = IF x = d \/ (isTopLevelPtrStmt(x[1]) /\ isTopLevelPtrStmt(d[1]) /\ x[2] = d[2])
                                   THEN c[x] \cup set ELSE c[x]
  <2>1. SUFFICES ASSUME NEW x \in Askable
                 PROVE  c2[x] = IF x = d \/ (isTopLevelPtrStmt(x[1]) /\ isTopLevelPtrStmt(d[1]) /\ x[2] = d[2])
                                  THEN c[x] \cup set ELSE c[x]
    OBVIOUS
  <2>2. x[1] \in NodesOf(g) /\ d[1] \in NodesOf(g)
    BY DEF Askable
  <2>3. CASE isTopLevelPtrStmt(d[1])
    <3>1. d[2] \in Vars /\ pts' = [pts EXCEPT ![d[2]] = @ \cup set] /\ dpmToADCPtSetMap' = dpmToADCPtSetMap
      BY <1>1, <2>2, <2>3, Kinds DEF unionDDAPts, Askable
    <3>2. CASE isTopLevelPtrStmt(x[1])
      <4>1. x[2] \in Vars
        BY <1>1, <2>2, <3>2, Kinds DEF Askable
      <4>2. pts'[x[2]] = IF x[2] = d[2] THEN pts[x[2]] \cup set ELSE pts[x[2]]
        BY <3>1, <4>1 DEF Shape
      <4>3. c2[x] = pts'[x[2]] /\ c[x] = pts[x[2]]
        BY <1>2, <1>3, <3>2 DEF getCachedPointsTo
      <4> QED
        BY <2>3, <3>2, <4>2, <4>3
    <3>3. CASE ~isTopLevelPtrStmt(x[1])
      BY <1>2, <1>3, <2>3, <3>1, <3>3 DEF getCachedPointsTo
    <3> QED
      BY <3>2, <3>3
  <2>4. CASE ~isTopLevelPtrStmt(d[1])
    <3>1. dpmToADCPtSetMap' = [dpmToADCPtSetMap EXCEPT ![d] = @ \cup set] /\ pts' = pts
      BY <2>4 DEF unionDDAPts
    <3>2. CASE isTopLevelPtrStmt(x[1])
      BY <1>2, <1>3, <2>4, <3>1, <3>2 DEF getCachedPointsTo
    <3>3. CASE ~isTopLevelPtrStmt(x[1])
      <4>1. x \in {n \in NodesOf(g) : ~isTopLevelPtrStmt(n)} \X Objs
        BY <3>3 DEF Askable
      <4>2. dpmToADCPtSetMap'[x] = IF x = d THEN dpmToADCPtSetMap[x] \cup set ELSE dpmToADCPtSetMap[x]
        BY <3>1, <4>1 DEF Shape
      <4>3. c2[x] = dpmToADCPtSetMap'[x] /\ c[x] = dpmToADCPtSetMap[x]
        BY <1>2, <1>3, <3>3 DEF getCachedPointsTo
      <4> QED
        BY <2>4, <4>2, <4>3
    <3> QED
      BY <3>2, <3>3
  <2> QED
    BY <2>3, <2>4
<1>5. \A x \in Askable : c[x] \subseteq c2[x]
  BY <1>4
<1>6. c2[d] = c[d] \cup set
  BY <1>4
<1>7. CacheFits(c2)
  <2>1. ASSUME NEW x \in Askable PROVE c2[x] \subseteq AndersenPts[prog][x[2]] /\ c2[x] \subseteq Objs
    <3>1. c[x] \subseteq AndersenPts[prog][x[2]] /\ c[x] \subseteq Objs
      BY <1>1 DEF CacheFits
    <3>2. x[2] = d[2] => set \subseteq AndersenPts[prog][x[2]]
      OBVIOUS
    <3>3. c2[x] = c[x] \/ (c2[x] = c[x] \cup set /\ x[2] = d[2])
      BY <1>4
    <3> QED
      BY <3>1, <3>2, <3>3
  <2>2. ASSUME NEW x \in Askable, NEW y \in Askable, isTopLevelPtrStmt(x[1]), isTopLevelPtrStmt(y[1]), x[2] = y[2]
        PROVE  c2[x] = c2[y]
    <3>1. c[x] = c[y]
      BY <1>1, <2>2 DEF CacheFits
    <3> QED
      BY <1>4, <2>2, <3>1
  <2> QED
    BY <2>1, <2>2 DEF CacheFits
<1>8. d[1] \in Defs \/ ~isTopLevelPtrStmt(d[1])
  BY <1>1, TopLevelItem
<1>9. ASSUME NEW x \in Askable, x # d, x[1] \in Defs PROVE c2[x] = c[x]
  <2>1. SUFFICES ASSUME isTopLevelPtrStmt(x[1]), isTopLevelPtrStmt(d[1]), x[2] = d[2] PROVE FALSE
    BY <1>4, <1>9
  <2> QED
    BY <1>1, <1>8, <1>9, <2>1, TopLevelItem
<1>10. ASSUME NEW x \in Askable, x # d, Rooted(x) => c[x] # {} PROVE c2[x] = c[x]
  <2>1. SUFFICES ASSUME isTopLevelPtrStmt(x[1]), isTopLevelPtrStmt(d[1]), x[2] = d[2] PROVE c2[x] = c[x]
    BY <1>4, <1>10
  <2>2. CASE x[1] \in Defs
    BY <1>9, <1>10, <2>2
  <2>3. CASE x[1] \notin Defs
    <3>1. Rooted(x)
      BY <1>1, <2>1, <2>3, TopLevelItem DEF Rooted
    <3> QED
      BY <1>1, <1>5, <1>7, <1>10, <3>1, RootedFull
  <2> QED
    BY <2>2, <2>3
<1> QED
  BY <1>5, <1>6, <1>7, <1>9, <1>10

\* What reads an item is at the end of an edge that leaves it.
LEMMA ReadsHit ==
    ASSUME prog \in DOMAIN Programs, NEW cs \in SUBSET g.calls, NEW z \in Askable, NEW d \in Reads(z, cs)
    PROVE  \E e \in OutEdges(d[1], cs) : Hit(d, e, z)
<1> DEFINE n == z[1]
<1>1. n \in NodesOf(g)
  BY DEF Askable
<1>2. ASSUME d \in Into(n, cs) PROVE \E e \in OutEdges(d[1], cs) : Hit(d, e, z)
  <2>1. PICK e \in DirectOf(g, cs) : e[2] = n /\ d = <<e[1], getLHSTopLevPtr(e[1])>>
    BY <1>2 DEF Into
  <2>2. <<n, "direct">> \in OutEdges(d[1], cs)
    BY <2>1 DEF OutEdges
  <2> QED
    BY <2>2 DEF Hit
<1>3. ASSUME NEW o, d \in IntoOf(n, o, cs), Kind(n) # "load" => o = z[2]
      PROVE  \E e \in OutEdges(d[1], cs) : Hit(d, e, z)
  <2>1. PICK e \in IndirectOf(g, cs) : e[2] = n /\ d = <<e[1], o>>
    BY <1>3 DEF IntoOf
  <2>2. <<n, "indirect">> \in OutEdges(d[1], cs)
    BY <2>1 DEF OutEdges
  <2>3. d[2] = o
    BY <2>1
  <2> QED
    BY <1>3, <2>2, <2>3 DEF Hit
<1>4. CASE Kind(n) \in {"copy", "actual", "formal"}
  BY <1>2, <1>4 DEF Reads
<1>5. CASE Kind(n) = "mssa"
  BY <1>3, <1>5 DEF Reads
<1>6. CASE Kind(n) = "load"
  <2>1. PointerOf(n) \in Into(n, cs)
    <3>1. Stmt(n).ptr \in Used(Stmt(n))
      BY <1>6 DEF Used, Kind, Stmt
    <3> QED
      BY <1>1, <3>1, UseEdge DEF PointerOf
  <2> QED
    BY <1>2, <1>3, <1>6, <2>1 DEF Reads
<1>7. CASE Kind(n) = "store"
  <2>1. PointerOf(n) \in Into(n, cs) /\ SourceOf(n) \in Into(n, cs)
    <3>1. Stmt(n).ptr \in Used(Stmt(n)) /\ Stmt(n).src \in Used(Stmt(n))
      BY <1>7 DEF Used, Kind, Stmt
    <3> QED
      BY <1>1, <3>1, UseEdge DEF PointerOf, SourceOf
  <2> QED
    BY <1>2, <1>3, <1>7, <2>1 DEF Reads
<1>8. CASE Kind(n) = "addr"
  BY <1>8 DEF Reads
<1> QED
  BY <1>1, <1>4, <1>5, <1>6, <1>7, <1>8, Kinds

\* A call has an edge to the node n.  Those that have none add nothing there.
Enters(k, n) == \E e \in k.direct \cup k.indirect : e[2] = n

LEMMA NewEdge ==
    ASSUME NEW cs, NEW new, NEW n, \A k \in new : ~Enters(k, n)
    PROVE  Into(n, cs \cup new) = Into(n, cs)
<1>1. DirectOf(g, cs \cup new) = DirectOf(g, cs) \cup UNION {k.direct : k \in new}
  BY DEF DirectOf
<1>2. {f \in DirectOf(g, cs \cup new) : f[2] = n} = {f \in DirectOf(g, cs) : f[2] = n}
  BY <1>1 DEF Enters
<1> QED
  BY <1>2 DEF Into

\* What a frame that starts to compute again does not owe is undisturbed.
LEMMA Disturbs ==
    ASSUME prog \in DOMAIN Programs, NEW cs \in SUBSET g.calls, NEW new \in SUBSET g.calls, NEW cs2, cs2 = cs \cup new,
           NEW c, NEW c2, NEW d, NEW W, NEW L, \A x \in Askable : c[x] \subseteq c2[x],
           \A x \in Askable : x # d /\ (Rooted(x) => c[x] # {}) => c2[x] = c[x],
           NEW f, f.item = d /\ f.stage = "calls",
           f.rest = {<<e[2], "call">> : e \in UNION {k.direct \cup k.indirect : k \in new}},
           NEW z \in L, z \in Askable
    PROVE  Undisturbed(z, W, W, c, c2, cs, cs2) \/ Owes(f, z, L, cs2)
<1> SUFFICES ASSUME ~Owes(f, z, L, cs2) PROVE Undisturbed(z, W, W, c, c2, cs, cs2)
  OBVIOUS
<1>1. /\ \A e \in f.rest : ~Hit(d, e, z)
      /\ \A e \in OutEdges(d[1], cs2) : ~Hit(d, e, z)
  BY DEF Owes, Recomputes
<1>2. \A k \in new : ~Enters(k, z[1])
  <2>1. SUFFICES ASSUME NEW k \in new, NEW e \in k.direct \cup k.indirect, e[2] = z[1] PROVE FALSE
    BY DEF Enters
  <2>2. <<z[1], "call">> \in f.rest
    BY <2>1
  <2>3. Hit(d, <<z[1], "call">>, z)
    BY DEF Hit
  <2> QED
    BY <1>1, <2>2, <2>3
<1>3. Into(z[1], cs2) = Into(z[1], cs) /\ \A o \in Objs : IntoOf(z[1], o, cs2) = IntoOf(z[1], o, cs)
  <2>1. Into(z[1], cs2) = Into(z[1], cs)
    BY <1>2, NewEdge
  <2>2. ASSUME NEW o PROVE IntoOf(z[1], o, cs2) = IntoOf(z[1], o, cs)
    <3>1. {e \in IndirectOf(g, cs2) : e[2] = z[1] /\ e[3] = o} = {e \in IndirectOf(g, cs) : e[2] = z[1] /\ e[3] = o}
      BY <1>2 DEF Enters, IndirectOf
    <3> QED
      BY <3>1 DEF IntoOf
  <2> QED
    BY <2>1, <2>2
<1>4. ASSUME NEW x \in Reads(z, cs), Seen(x, W, c) PROVE c2[x] = c[x]
  <2>1. x \in Askable
    BY ReadsAskable
  <2>2. x # d
    <3>1. ASSUME x = d PROVE FALSE
      <4>1. PICK e \in OutEdges(d[1], cs) : Hit(d, e, z)
        BY <3>1, ReadsHit
      <4>2. OutEdges(d[1], cs) \subseteq OutEdges(d[1], cs2)
        BY DEF OutEdges, DirectOf, IndirectOf
      <4> QED
        BY <1>1, <4>1, <4>2
    <3> QED
      BY <3>1
  <2> QED
    BY <1>4, <2>1, <2>2 DEF Seen
<1> QED
  BY <1>3, <1>4 DEF Undisturbed

\* What never read the item is undisturbed.
LEMMA Undisturbs ==
    ASSUME prog \in DOMAIN Programs, NEW cs \in SUBSET g.calls, NEW new \in SUBSET g.calls, NEW cs2, cs2 = cs \cup new,
           NEW c, NEW c2, NEW d, NEW W, d \notin W, \A x \in Askable : c[x] \subseteq c2[x],
           \A x \in Askable : x # d /\ (Rooted(x) => c[x] # {}) => c2[x] = c[x],
           \A k \in new : Item(k.ptr) = d,
           NEW z \in Askable, FunSeen(z[1], {}, W, c)
    PROVE  Undisturbed(z, W, W, c, c2, cs, cs2)
<1>1. \A k \in new : ~Enters(k, z[1])
  <2>1. SUFFICES ASSUME NEW k \in new, NEW e \in k.direct \cup k.indirect, e[2] = z[1] PROVE FALSE
    BY DEF Enters
  <2>2. k.ptr \in FunPtrs(z[1])
    BY <2>1 DEF FunPtrs
  <2>3. Item(k.ptr) \in W
    BY <2>2 DEF FunSeen, Seen
  <2> QED
    BY <2>3
<1>2. Into(z[1], cs2) = Into(z[1], cs) /\ \A o \in Objs : IntoOf(z[1], o, cs2) = IntoOf(z[1], o, cs)
  <2>1. Into(z[1], cs2) = Into(z[1], cs)
    BY <1>1, NewEdge
  <2>2. ASSUME NEW o PROVE IntoOf(z[1], o, cs2) = IntoOf(z[1], o, cs)
    <3>1. {e \in IndirectOf(g, cs2) : e[2] = z[1] /\ e[3] = o} = {e \in IndirectOf(g, cs) : e[2] = z[1] /\ e[3] = o}
      BY <1>1 DEF Enters, IndirectOf
    <3> QED
      BY <3>1 DEF IntoOf
  <2> QED
    BY <2>1, <2>2
<1>3. ASSUME NEW x \in Reads(z, cs), Seen(x, W, c) PROVE c2[x] = c[x]
  <2>1. x \in Askable
    BY ReadsAskable
  <2> QED
    BY <1>3, <2>1 DEF Seen
<1> QED
  BY <1>2, <1>3 DEF Undisturbed

\* The calls that were resolved, and the frame that computes again what they reach.
LEMMA GrownCalls ==
    ASSUME Shape, Within(CoarseBound), CompleteInv, stack # <<>>, NEW set \in SUBSET Objs, Grow(Top.item, set),
           ParametersAreAddresses, Kind(Top.item[1]) # "actual", set \subseteq AndersenPts[prog][Top.item[2]],
           NEW c2, c2 = Cache'
    PROVE  \E new \in SUBSET g.calls, f \in Frames :
              /\ called' = called \cup new
              /\ \A k \in new : Item(k.ptr) = Top.item
              /\ \A k \in g.calls : k.callee \in c2[Item(k.ptr)] => k \in called \cup new
              /\ Become(f) /\ f.item = Top.item /\ f.stage = "calls" /\ f.todo = {}
              /\ f.rest = {<<e[2], "call">> : e \in UNION {k.direct \cup k.indirect : k \in new}}
<1> DEFINE d   == Top.item
           new == NewCalls(d, getCachedPointsTo(d) \cup set)
           to  == {<<e[2], "call">> : e \in UNION {k.direct \cup k.indirect : k \in new}}
           f   == [Frame(d, "calls", {}) EXCEPT !.rest = to]
<1>1. /\ unionDDAPts(d, set) /\ called' = called \cup new /\ Become(f) /\ prog' = prog
  BY DEF Grow
<1>2. /\ Top \in Frames /\ d \in Askable /\ prog \in DOMAIN Programs /\ called \in SUBSET g.calls
      /\ CacheFits(Cache) /\ Cache[d] = getCachedPointsTo(d)
  BY TopFrame, CacheFitsNow DEF Shape
<1>3. /\ c2[d] = Cache[d] \cup set /\ CacheFits(c2)
      /\ \A x \in Askable : x # d /\ x[1] \in Defs => c2[x] = Cache[x]
  BY <1>1, <1>2, GrownCache
<1>4. \A k \in g.calls : /\ k.ptr \in Vars /\ Item(k.ptr) \in Askable /\ Item(k.ptr)[2] = k.ptr
                         /\ isTopLevelPtrStmt(Item(k.ptr)[1]) /\ Item(k.ptr)[1] \in Defs
  <2>1. SUFFICES ASSUME NEW k \in g.calls
                 PROVE  /\ k.ptr \in Vars /\ Item(k.ptr) \in Askable /\ Item(k.ptr)[2] = k.ptr
                        /\ isTopLevelPtrStmt(Item(k.ptr)[1]) /\ Item(k.ptr)[1] \in Defs
    OBVIOUS
  <2>2. k.ptr \in Vars /\ \E n \in NodesOf(g) : k.ptr \in Defined(g.stmt[n])
    BY <1>2, Formed DEF WellFormed
  <2> QED
    BY <1>2, <2>2, DefinedItem
<1>5. ASSUME NEW k \in new PROVE k \in g.calls /\ Item(k.ptr) = d
  <2>1. k \in g.calls /\ k.ptr = d[2]
    BY DEF NewCalls
  <2>2. isTopLevelPtrStmt(d[1])
    BY <1>2, <1>4, <2>1, ProgramsAssumption DEF Askable
  <2>3. d[1] \in Defs
    BY <1>2, <2>2, TopLevelItem
  <2> QED
    BY <1>2, <2>1, <2>2, <2>3, TopLevelItem
<1>6. \A k \in g.calls : k.callee \in c2[Item(k.ptr)] => k \in called \cup new
  <2>1. SUFFICES ASSUME NEW k \in g.calls, k.callee \in c2[Item(k.ptr)] PROVE k \in called \cup new
    OBVIOUS
  <2>2. CASE Item(k.ptr) = d
    <3>1. k.ptr = d[2] /\ k.callee \in getCachedPointsTo(d) \cup set
      BY <1>2, <1>3, <1>4, <2>1, <2>2
    <3> QED
      BY <2>1, <3>1 DEF NewCalls
  <2>3. CASE Item(k.ptr) # d
    <3>1. c2[Item(k.ptr)] = Cache[Item(k.ptr)]
      BY <1>3, <1>4, <2>3
    <3> QED
      BY <2>1, <3>1 DEF CompleteInv, Steady
  <2> QED
    BY <2>2, <2>3
<1>7. to \subseteq NodesOf(g) \X EdgeKinds
  <2>1. \A k \in g.calls : k.direct \subseteq DirectOf(g, g.calls) /\ k.indirect \subseteq IndirectOf(g, g.calls)
    BY DEF DirectOf, IndirectOf
  <2>2. /\ \A e \in DirectOf(g, g.calls) : e[2] \in NodesOf(g)
        /\ \A e \in IndirectOf(g, g.calls) : e[2] \in NodesOf(g)
    BY <1>2, EdgeItems
  <2>3. \A e \in UNION {k.direct \cup k.indirect : k \in new} : e[2] \in NodesOf(g)
    BY <1>5, <2>1, <2>2
  <2> HIDE DEF new
  <2> QED
    BY <2>3 DEF EdgeKinds
<1>8. new \in SUBSET g.calls
  BY <1>5
<1> HIDE DEF new, to
<1>9. f \in Frames /\ f.item = d /\ f.stage = "calls" /\ f.todo = {} /\ f.rest = to
  BY <1>2, <1>7 DEF Frame, Frames, Stages
<1> HIDE DEF f
<1>10. to = {<<e[2], "call">> : e \in UNION {k.direct \cup k.indirect : k \in new}}
  BY DEF to
<1> QED
  BY <1>1, <1>5, <1>6, <1>8, <1>9, <1>10

LEMMA BecomeShifted ==
    ASSUME Shape, stack # <<>>, NEW f \in Frames, Become(f), NEW t, t = stack'
    PROVE  /\ Shifted(stack, t, 0) /\ t[1] = f /\ t \in Seq(Frames) /\ stack \in Seq(Frames)
           /\ \A j \in 2 .. Len(t) : t[j] = stack[j]
<1>1. t = <<f>> \o Tail(stack) /\ stack # <<>>
  BY DEF Become, Below
<1> HIDE DEF Become
<1>2. Shifted(stack, t, 0) /\ t[1] = f /\ t \in Seq(Frames) /\ stack \in Seq(Frames)
  BY <1>1, StackReplaced
<1>3. \A j \in 2 .. Len(t) : t[j] = stack[j]
  BY <1>1, StackReplaced
<1> QED
  BY <1>2, <1>3

LEMMA GrowComplete ==
    ASSUME Shape, Within(CoarseBound), ParametersAreAddresses, CompleteInv, stack # <<>>,
           NEW set \in SUBSET Objs, Grow(Top.item, set), ~(set \subseteq getCachedPointsTo(Top.item)),
           Kind(Top.item[1]) # "actual", set \subseteq AndersenPts[prog][Top.item[2]], Top.item \in locToDpmSetMap,
           1 = Len(stack) => Top.item[1] \in Defs /\ AndersenPts[prog][Top.item[2]] \subseteq set,
           ~outOfBudgetQuery => Top.stage = "edges" /\ Top.todo = {} /\ Top.rest = {} /\ Top.val = set
    PROVE  CompleteInv'
<1>1. PICK V, L, O, q, c, cs, s, qd, t, d, c2 :
         /\ V = backwardVisited /\ L = locToDpmSetMap /\ O = outOfBudgetDpms /\ q = outOfBudgetQuery
         /\ c = Cache /\ cs = called /\ s = stack /\ qd = queried /\ t = stack' /\ d = Top.item /\ c2 = Cache'
  OBVIOUS
<1>2. PICK new \in SUBSET g.calls, f \in Frames :
              /\ called' = called \cup new
              /\ \A k \in new : Item(k.ptr) = Top.item
              /\ \A k \in g.calls : k.callee \in c2[Item(k.ptr)] => k \in called \cup new
              /\ Become(f) /\ f.item = Top.item /\ f.stage = "calls" /\ f.todo = {}
              /\ f.rest = {<<e[2], "call">> : e \in UNION {k.direct \cup k.indirect : k \in new}}
  BY <1>1, GrownCalls
<1>3. PICK cs2 : cs2 = cs \cup new
  OBVIOUS
<1>4. /\ unionDDAPts(Top.item, set) /\ prog' = prog
      /\ UNCHANGED <<queried, backwardVisited, locToDpmSetMap, outOfBudgetDpms, outOfBudgetQuery>>
  BY DEF Grow, budget
<1>5. /\ d \in Askable /\ d = s[1].item /\ Top = s[1] /\ s[1] \in Frames /\ Len(s) \in Nat \ {0}
      /\ prog \in DOMAIN Programs /\ cs \in SUBSET g.calls /\ CacheFits(c) /\ c[d] = getCachedPointsTo(d)
  BY <1>1, TopFrame, CacheFitsNow DEF Shape
<1>6. /\ \A x \in Askable : c[x] \subseteq c2[x]
      /\ c2[d] = c[d] \cup set
      /\ CacheFits(c2)
      /\ \A x \in Askable : x # d /\ (Rooted(x) => c[x] # {}) => c2[x] = c[x]
  <2>1. Top.item \in Askable
    BY <1>1, <1>5
  <2>2. /\ \A x \in Askable : c[x] \subseteq c2[x]
        /\ c2[Top.item] = c[Top.item] \cup set
        /\ CacheFits(c2)
        /\ \A x \in Askable : x # Top.item /\ (Rooted(x) => c[x] # {}) => c2[x] = c[x]
    BY <1>1, <1>4, <2>1, GrownCache
  <2> QED
    BY <1>1, <2>2
<1>7. /\ Shifted(s, t, 0) /\ t[1] = f /\ t \in Seq(Frames) /\ s \in Seq(Frames)
      /\ \A j \in 2 .. Len(t) : t[j] = s[j]
  <2>1. Become(f) /\ t = stack'
    BY <1>1, <1>2
  <2> HIDE DEF Become
  <2>2. /\ Shifted(stack, t, 0) /\ t[1] = f /\ t \in Seq(Frames) /\ stack \in Seq(Frames)
        /\ \A j \in 2 .. Len(t) : t[j] = stack[j]
    BY <2>1, BecomeShifted
  <2> QED
    BY <1>1, <2>2
<1>8. /\ \A k \in new : Item(k.ptr) = d
      /\ \A k \in g.calls : k.callee \in c2[Item(k.ptr)] => k \in cs2
      /\ f.item = d /\ f.stage = "calls" /\ f.todo = {}
      /\ f.rest = {<<e[2], "call">> : e \in UNION {k.direct \cup k.indirect : k \in new}}
      /\ ~(set \subseteq c[d]) /\ Kind(d[1]) # "actual" /\ set \subseteq AndersenPts[prog][d[2]] /\ d \in L
      /\ 1 = Len(s) => d[1] \in Defs /\ AndersenPts[prog][d[2]] \subseteq set
  BY <1>1, <1>2, <1>3, <1>5
<1> HIDE DEF Become
<1>9. Steady(V, L, O, q, c, cs, s, qd)
  BY <1>1 DEF CompleteInv
<1>10. /\ V \subseteq Askable /\ L \subseteq V /\ O \subseteq Askable
       /\ \A x \in O : Full(x, c)
       /\ \A x \in V \ L : x \in O \/ Closed(x, Settled(V, L, O), c, cs)
       /\ \A i \in 1 .. Len(s) : FrameFits(s[i], i = Len(s), V, L, O, q, c)
  BY <1>9 DEF Steady
<1>11. d \notin O
  BY <1>8, <1>10 DEF Full
<1>12. cs2 \in SUBSET g.calls
  BY <1>2, <1>3, <1>5
\* Items of earlier queries read nothing that grows.
<1>13. \A x \in V \ L : Closed(x, Settled(V, L, O), c, cs) => x \in O \/ Closed(x, Settled(V, L, O), c2, cs2)
  <2>1. SUFFICES ASSUME NEW x \in V \ L, Closed(x, Settled(V, L, O), c, cs)
                 PROVE  Closed(x, Settled(V, L, O), c2, cs2)
    OBVIOUS
  <2>2. PICK W : W = Settled(V, L, O)
    OBVIOUS
  <2>3. d \notin W
    BY <1>8, <1>11, <2>2 DEF Settled
  <2>4. x \in Askable /\ FunSeen(x[1], {}, W, c)
    BY <1>10, <2>1, <2>2 DEF Closed
  <2>5. Undisturbed(x, W, W, c, c2, cs, cs2)
    BY <1>3, <1>5, <1>6, <1>8, <2>3, <2>4, Undisturbs
  <2>6. Closed(x, W, c, cs)
    BY <2>1, <2>2
  <2>7. Closed(x, W, c2, cs2)
    BY <1>5, <2>4, <2>5, <2>6, ClosedKept
  <2> QED
    BY <2>2, <2>7
<1>14. Len(t) = Len(s) /\ 1 \in 1 .. Len(s)
  BY <1>5, <1>7 DEF Shifted
<1>15. Steady(V, L, O, q, c2, cs2, t, qd)
  <2>1. PICK X \in SUBSET Askable : X = {}
    OBVIOUS
  <2>2. FrameFits(f, 1 = Len(t), V, L, O, q, c2)
    <3>1. 1 = Len(t) => d[1] \in Defs /\ Full(d, c2)
      BY <1>6, <1>8, <1>14 DEF Full
    <3> QED
      BY <1>8, <3>1 DEF FrameFits, Recomputes, Evaluates
  <2>3. V \cup X = V /\ L \cup X = L
    BY <2>1
  <2>4. FrameFits(t[1], 1 = Len(t), V \cup X, L \cup X, O, q, c2)
    BY <1>7, <2>2, <2>3
  <2>5. Len(t) = 1 => t[1].item = s[Len(s)].item
    BY <1>5, <1>7, <1>8, <1>14
  <2>6. s[Len(s)].stage = "query" /\ q => s[Len(s)].item \in L \cup X
    <3>1. CASE Len(s) = 1
      BY <1>5, <1>8, <3>1
    <3>2. CASE Len(s) # 1
      BY <1>1, <1>9, <3>2, QueryItem
    <3> QED
      BY <3>1, <3>2
  <2>7. X \cap V \subseteq L
    BY <2>1
  <2>8. PICK q2 : q2 = q
    OBVIOUS
  <2>9. /\ FrameFits(t[1], 1 = Len(t), V \cup X, L \cup X, O, q2, c2)
        /\ s[Len(s)].stage = "query" /\ q2 => s[Len(s)].item \in L \cup X
    BY <2>4, <2>6, <2>8
  <2>10. Steady(V \cup X, L \cup X, O, q2, c2, cs2, t, qd)
    BY <1>6, <1>7, <1>8, <1>9, <1>13, <2>5, <2>7, <2>9, SteadyNext
  <2> QED
    BY <2>3, <2>8, <2>10
<1>16. ASSUME ~q
       PROVE  Pending(V, L, O, c2, cs2, t) /\ UnderWay(V, L, O, c2, cs2, t) /\ Known(L, O, c2, t)
  <2>1. PICK W : W = V \cup O
    OBVIOUS
  <2>2. /\ Pending(V, L, O, c, cs, s) /\ UnderWay(V, L, O, c, cs, s) /\ Known(L, O, c, s)
        /\ s[1].stage = "edges" /\ s[1].todo = {} /\ s[1].rest = {} /\ s[1].val = set
    BY <1>1, <1>5, <1>16 DEF CompleteInv
  <2>3. Evaluates(s[1]) /\ ~Recomputes(s[1])
    BY <2>2 DEF Evaluates, Recomputes
  <2>4. \A z \in L : Undisturbed(z, W, W, c, c2, cs, cs2) \/ Owes(f, z, L, cs2)
    <3>1. SUFFICES ASSUME NEW z \in L PROVE Undisturbed(z, W, W, c, c2, cs, cs2) \/ Owes(f, z, L, cs2)
      OBVIOUS
    <3>2. z \in Askable
      BY <1>10
    <3>3. /\ \A x \in Askable : c[x] \subseteq c2[x]
          /\ \A x \in Askable : x # d /\ (Rooted(x) => c[x] # {}) => c2[x] = c[x]
          /\ f.item = d /\ f.stage = "calls"
          /\ f.rest = {<<e[2], "call">> : e \in UNION {k.direct \cup k.indirect : k \in new}}
          /\ prog \in DOMAIN Programs /\ cs \in SUBSET g.calls
      BY <1>5, <1>6, <1>8
    <3> QED
      BY <1>3, <3>2, <3>3, Disturbs
  <2>5. \A z \in L : Closed(z, W, c, cs) => Closed(z, W, c2, cs2) \/ Owes(f, z, L, cs2)
    <3>1. SUFFICES ASSUME NEW z \in L, Closed(z, W, c, cs), Undisturbed(z, W, W, c, c2, cs, cs2)
                   PROVE  Closed(z, W, c2, cs2)
      BY <2>4
    <3>2. z \in Askable
      BY <1>10
    <3> QED
      BY <1>5, <3>1, <3>2, ClosedKept
  <2>6. Closed(d, W, c2, cs2) \/ Owes(f, d, L, cs2)
    <3>1. Fresh(s[1], W, c, cs) \/ Closed(d, W, c, cs)
      <4>1. \/ Fresh(s[1], V \cup O, c, cs) \/ Closed(s[1].item, V \cup O, c, cs)
            \/ \E j \in 1 .. 1 - 1 : Owes(s[j], s[1].item, L, cs)
        BY <1>14, <2>2, <2>3 DEF UnderWay
      <4>2. 1 .. 1 - 1 = {}
        OBVIOUS
      <4> QED
        BY <1>5, <2>1, <4>1, <4>2
    <3>2. CASE Closed(d, W, c, cs)
      BY <1>8, <2>5, <3>2
    <3>3. CASE Fresh(s[1], W, c, cs)
      <4>1. FunSeen(d[1], {}, W, c) /\ Gathered(d, set, s[1].base, {}, {}, W, c, cs)
        BY <1>5, <2>2, <3>3 DEF Fresh
      <4>2. SUFFICES ASSUME Undisturbed(d, W, W, c, c2, cs, cs2) PROVE Closed(d, W, c2, cs2)
        BY <1>8, <2>4
      <4>3. set \subseteq c2[d] /\ s[1].base \in SUBSET Objs
        BY <1>5, <1>6 DEF Frames
      <4> QED
        BY <1>5, <4>1, <4>2, <4>3, GatheredCloses
    <3> QED
      BY <3>1, <3>2, <3>3
  <2>7. \A i \in 1 .. Len(s) : s[i].stage # "query" => s[i].item \in L
    BY <1>10 DEF FrameFits
  <2>8. \A i \in 2 - 0 .. Len(s) : Evaluates(s[i]) /\ Fresh(s[i], W, c, cs) =>
               Fresh(s[i], W, c2, cs2) \/ Owes(f, s[i].item, L, cs2)
    <3>1. SUFFICES ASSUME NEW i \in 2 - 0 .. Len(s), Evaluates(s[i]), Fresh(s[i], W, c, cs),
                          ~Owes(f, s[i].item, L, cs2)
                   PROVE  Fresh(s[i], W, c2, cs2)
      OBVIOUS
    <3>2. i \in 1 .. Len(s)
      BY <1>5
    <3>3. s[i].item \in L
      BY <2>7, <3>1, <3>2 DEF Evaluates
    <3>4. /\ s[i] \in Frames
          /\ s[i].stage = "pointer" => Kind(s[i].item[1]) \in {"load", "store"}
          /\ s[i].stage = "value" => Kind(s[i].item[1]) = "store"
      BY <1>1, <3>2, FrameFacts
    <3>5. Undisturbed(s[i].item, W, W, c, c2, cs, cs2)
      BY <2>4, <3>1, <3>3
    <3> QED
      BY <1>5, <3>1, <3>4, <3>5, FreshKept
  <2>9. Pending(V, L, O, c2, cs2, t) /\ UnderWay(V, L, O, c2, cs2, t)
    <3>0. PICK k, V2, L2 : k = 0 /\ V2 = V /\ L2 = L
      OBVIOUS
    <3>1. t[1].stage # "query" => t[1].item \notin O
      BY <1>7, <1>8, <1>11
    <3>2. ~Evaluates(t[1])
      BY <1>7, <1>8 DEF Evaluates
    <3>3. \A i \in 1 .. 1 - k : i = 1
      BY <3>0
    <3>4. \A z \in L \ O : \A i \in 1 .. 1 - k : Owes(s[i], z, L, cs) =>
              Owes(t[1], z, L2, cs2) \/ Closed(z, V2 \cup O, c2, cs2)
      BY <2>3, <3>3 DEF Owes
    <3>5. \A i \in 1 .. 1 - k : Evaluates(s[i]) =>
               \/ Closed(s[i].item, V2 \cup O, c2, cs2) \/ Owes(t[1], s[i].item, L2, cs2)
               \/ Evaluates(t[1]) /\ t[1].item = s[i].item
      BY <1>5, <1>7, <2>1, <2>6, <3>0, <3>3
    <3>6. Recomputes(t[1]) => Closed(t[1].item, V2 \cup O, c2, cs2) \/ Owes(t[1], t[1].item, L2, cs2)
      BY <1>7, <1>8, <2>1, <2>6, <3>0
    <3>7. \A z \in L : Closed(z, V \cup O, c, cs) => Closed(z, V2 \cup O, c2, cs2) \/ Owes(t[1], z, L2, cs2)
      BY <1>7, <2>1, <2>5, <3>0
    <3>8. \A i \in 2 - k .. Len(s) : Evaluates(s[i]) /\ Fresh(s[i], V \cup O, c, cs) =>
               Fresh(s[i], V2 \cup O, c2, cs2) \/ Owes(t[1], s[i].item, L2, cs2)
      BY <1>7, <2>1, <2>8, <3>0
    <3>9. \A z \in (L2 \ L) \ O : Evaluates(t[1]) /\ t[1].item = z
      BY <3>0
    <3>10. Pending(V, L, O, c, cs, s) /\ UnderWay(V, L, O, c, cs, s) /\ cs \subseteq cs2 /\ L \subseteq L2
      BY <1>3, <2>2, <3>0
    <3>11. Shifted(s, t, k)
      BY <1>7, <3>0
    <3>12. Pending(V2, L2, O, c2, cs2, t) /\ UnderWay(V2, L2, O, c2, cs2, t)
      BY <2>7, <3>1, <3>2, <3>4, <3>5, <3>6, <3>7, <3>8, <3>9, <3>10, <3>11, PendingNext
    <3> QED
      BY <3>0, <3>12
  <2>10. Known(L, O, c2, t)
    <3>1. SUFFICES ASSUME NEW z \in L \ O, Rooted(z), c2[z] = {} PROVE FALSE
      BY DEF Known
    <3>2. z \in Askable /\ c[z] = {}
      BY <1>6, <1>10, <3>1
    <3>3. s[1].item = z \/ (Kind(z[1]) = "actual" /\ s[1].item = Item(z[2]))
      BY <2>2, <3>1, <3>2 DEF Known
    <3>4. c2[d] # {}
      BY <1>6, <1>8
    <3>5. c2[z] = c2[d]
      <4>1. CASE s[1].item = z
        BY <1>5, <4>1
      <4>2. CASE Kind(z[1]) = "actual" /\ s[1].item = Item(z[2])
        BY <1>5, <1>6, <3>2, <4>2, PassedAddress DEF CacheFits
      <4> QED
        BY <3>3, <4>1, <4>2
    <3> QED
      BY <3>1, <3>4, <3>5
  <2> QED
    BY <2>9, <2>10
<1>17. /\ V = backwardVisited' /\ L = locToDpmSetMap' /\ O = outOfBudgetDpms' /\ q = outOfBudgetQuery'
       /\ c2 = Cache' /\ cs2 = called' /\ t = stack' /\ qd = queried'
  BY <1>1, <1>2, <1>3, <1>4
<1> QED
  BY <1>4, <1>15, <1>16, <1>17, CompleteNext

LEMMA UpdateComplete ==
    ASSUME Shape, Within(CoarseBound), ParametersAreAddresses, CompleteInv, updateCachedPointsTo
    PROVE  CompleteInv'
<1>1. CASE Top.val \subseteq getCachedPointsTo(Top.item)
  BY <1>1, NotGrownComplete
<1>2. CASE ~(Top.val \subseteq getCachedPointsTo(Top.item))
  <2>1. /\ stack # <<>> /\ Top.stage = "edges" /\ Top.todo = {} /\ Top.rest = {} /\ Grow(Top.item, Top.val)
    BY <1>2 DEF updateCachedPointsTo, Ready
  <2>2. /\ Top \in Frames /\ Top = stack[1] /\ Top.item \in Askable /\ Len(stack) \in Nat \ {0}
        /\ Cache[Top.item] = getCachedPointsTo(Top.item)
    BY <2>1, TopFrame, CacheFitsNow
  <2>3. FrameFits(Top, 1 = Len(stack), backwardVisited, locToDpmSetMap, outOfBudgetDpms, outOfBudgetQuery, Cache)
    BY <2>1, TopFits
  <2>4. Top.item \in locToDpmSetMap
    BY <2>1, <2>3 DEF FrameFits
  <2>5. Kind(Top.item[1]) # "actual"
    BY <1>2, <2>1, <2>2, <2>3 DEF FrameFits, Evaluates
  <2>6. 1 # Len(stack)
    BY <2>1, <2>2 DEF Shape, Founded
  <2>7. Top.val \in SUBSET Objs /\ Top.val \subseteq AndersenPts[prog][Top.item[2]]
    <3>1. FrameWithin(CoarseBound, Top)
      BY <2>2 DEF Within
    <3> QED
      BY <2>1, <2>2, <3>1 DEF FrameWithin, CoarseBound, Frames
  <2>8. PICK set \in SUBSET Objs : set = Top.val
    BY <2>7
  <2>9. Grow(Top.item, set) /\ ~(set \subseteq getCachedPointsTo(Top.item)) /\ set \subseteq AndersenPts[prog][Top.item[2]]
    BY <1>2, <2>1, <2>7, <2>8
  <2> HIDE DEF Grow
  <2> QED
    BY <2>1, <2>4, <2>5, <2>6, <2>8, <2>9, GrowComplete
<1> QED
  BY <1>1, <1>2

LEMMA FallbackComplete ==
    ASSUME Shape, Within(CoarseBound), ParametersAreAddresses, CompleteInv, handleOutOfBudgetDpm
    PROVE  CompleteInv'
<1> DEFINE d    == Top.item
           andr == AndersenPts[prog][d[2]]
<1>1. stack # <<>> /\ Top.stage = "query" /\ Top.todo = {} /\ outOfBudgetQuery
  BY DEF handleOutOfBudgetDpm, Ready
<1>2. /\ Top \in Frames /\ Top = stack[1] /\ d \in Askable /\ Len(stack) \in Nat \ {0} /\ prog \in DOMAIN Programs
      /\ Cache[d] = getCachedPointsTo(d)
  BY <1>1, TopFrame, CacheFitsNow DEF Shape
<1>3. FrameFits(Top, 1 = Len(stack), backwardVisited, locToDpmSetMap, outOfBudgetDpms, outOfBudgetQuery, Cache)
  BY <1>1, TopFits
<1>4. 1 = Len(stack) /\ d \in locToDpmSetMap /\ d[1] \in Defs
  BY <1>1, <1>3 DEF FrameFits
<1>5. CASE andr \subseteq getCachedPointsTo(d)
  <2>1. /\ stack' = <<>> /\ outOfBudgetDpms' = outOfBudgetDpms \cup {d}
        /\ UNCHANGED <<prog, caches, called, queried, backwardVisited, locToDpmSetMap, outOfBudgetQuery>>
    BY <1>5 DEF handleOutOfBudgetDpm
  <2>2. Full(d, Cache)
    BY <1>2, <1>5 DEF Full
  <2> QED
    BY <1>1, <1>4, <2>1, <2>2, BottomComplete
<1>6. CASE ~(andr \subseteq getCachedPointsTo(d))
  <2>1. Grow(d, andr)
    BY <1>6 DEF handleOutOfBudgetDpm
  <2>2. andr \in SUBSET Objs
    <3>1. d[2] \in Vars \cup Objs
      BY <1>2 DEF Askable
    <3> QED
      BY <1>2, <3>1, AndersenFixed DEF AllPts
  <2>3. PICK set \in SUBSET Objs : set = andr
    BY <2>2
  <2>4. /\ Grow(Top.item, set) /\ ~(set \subseteq getCachedPointsTo(Top.item))
        /\ set \subseteq AndersenPts[prog][Top.item[2]] /\ AndersenPts[prog][Top.item[2]] \subseteq set
        /\ Top.item[1] \in Defs
    BY <1>4, <1>6, <2>1, <2>3
  <2>5. Kind(Top.item[1]) # "actual" /\ Top.item \in locToDpmSetMap
    BY <1>4 DEF Defs
  <2> HIDE DEF Grow
  <2> QED
    BY <1>1, <2>4, <2>5, GrowComplete
<1> QED
  BY <1>5, <1>6

LEMMA NextComplete ==
    ASSUME Shape, Within(CoarseBound), ParametersAreAddresses, CompleteInv, Next
    PROVE  CompleteInv'
<1>1. CASE findPT
  BY <1>1, FindPTComplete
<1>2. CASE handleSingleStatement
  BY <1>2, SingleStatementComplete
<1>3. CASE PointerKnown
  BY <1>3, PointerKnownComplete
<1>4. CASE AccessObject
  BY <1>4, AccessObjectComplete
<1>5. CASE Stored
  BY <1>5, StoredComplete
<1>6. CASE updateCachedPointsTo
  BY <1>6, UpdateComplete
<1>7. CASE FollowEdge
  BY <1>7, FollowEdgeComplete
<1>8. CASE reCompute
  BY <1>8, ReComputeComplete
<1>9. CASE Recomputed
  BY <1>9, RecomputedComplete
<1>10. CASE computeDDAPts
  BY <1>10, ComputeComplete
<1>11. CASE Answer
  BY <1>11, AnswerComplete
<1>12. CASE handleOutOfBudgetDpm
  BY <1>12, FallbackComplete
<1> QED
  BY <1>1, <1>2, <1>3, <1>4, <1>5, <1>6, <1>7, <1>8, <1>9, <1>10, <1>11, <1>12 DEF Next, Solve

LEMMA StutterComplete ==
    ASSUME CompleteInv, UNCHANGED vars
    PROVE  CompleteInv'
<1>1. PICK V, L, O, q, c, cs, s, qd :
         /\ V = backwardVisited /\ L = locToDpmSetMap /\ O = outOfBudgetDpms /\ q = outOfBudgetQuery
         /\ c = Cache /\ cs = called /\ s = stack /\ qd = queried
  OBVIOUS
<1>2. /\ UNCHANGED <<prog, caches, called, queried, stack>>
      /\ UNCHANGED <<backwardVisited, locToDpmSetMap, outOfBudgetDpms, outOfBudgetQuery>>
  BY DEF vars, budget
<1>3. Cache' = Cache
  BY <1>2, CacheSame
<1>4. /\ Steady(V, L, O, q, c, cs, s, qd)
      /\ ~q => Pending(V, L, O, c, cs, s) /\ UnderWay(V, L, O, c, cs, s) /\ Known(L, O, c, s)
  BY <1>1 DEF CompleteInv
<1>5. /\ prog' = prog /\ V = backwardVisited' /\ L = locToDpmSetMap' /\ O = outOfBudgetDpms' /\ q = outOfBudgetQuery'
      /\ c = Cache' /\ cs = called' /\ s = stack' /\ qd = queried'
  BY <1>1, <1>2, <1>3
<1> QED
  BY <1>4, <1>5, CompleteNext

LEMMA InitComplete ==
    ASSUME Init, Shape
    PROVE  CompleteInv
<1>1. /\ prog \in DOMAIN Programs /\ called = {} /\ locToDpmSetMap = {} /\ stack = <<>> /\ ~outOfBudgetQuery
      /\ pts = [v \in Vars |-> {}] /\ backwardVisited = {} /\ outOfBudgetDpms = {} /\ queried = {}
      /\ dpmToADCPtSetMap = [d \in {n \in NodesOf(g) : ~isTopLevelPtrStmt(n)} \X Objs |-> {}]
  BY DEF Init
<1>2. \A k \in g.calls : Item(k.ptr) \in Askable /\ isTopLevelPtrStmt(Item(k.ptr)[1]) /\ Item(k.ptr)[2] \in Vars
  BY <1>1, CallItem
<1>3. \A k \in g.calls : Cache[Item(k.ptr)] = {}
  BY <1>1, <1>2 DEF Cache, getCachedPointsTo
<1>4. \A i \in 1 .. Len(stack) : FALSE
  BY <1>1
<1>5. Steady(backwardVisited, locToDpmSetMap, outOfBudgetDpms, outOfBudgetQuery, Cache, called, stack, queried)
  BY <1>1, <1>3, <1>4 DEF Steady
<1> QED
  BY <1>1, <1>4, <1>5 DEF CompleteInv, Pending, UnderWay, Known

-----------------------------------------------------------------------------
(***************************************************************************)
(* At the end.  W are the items with an answer, full or closed.  The caches *)
(* of these and Andersen's sets elsewhere are a flow t that holds what it  *)
(* computes, and so holds the least one.                                   *)
(***************************************************************************)
Answered(W, c, cs) ==
    /\ W \subseteq Askable /\ cs \subseteq g.calls /\ CacheFits(c)
    /\ \A k \in g.calls : k.callee \in c[Item(k.ptr)] => k \in cs
    /\ \A d \in W : (d[1] \in Defs /\ Full(d, c)) \/ Closed(d, W, c, cs)

Taken(v, W, c)      == IF Item(v) \in W THEN c[Item(v)] ELSE AndersenPts[prog][v]
TakenAt(n, o, W, c) == IF <<n, o>> \in W THEN c[<<n, o>>] ELSE AndersenPts[prog][o]
Brought(n, o, es, W, c) ==
    UNION {TakenAt(e[1], o, W, c) : e \in {f \in es : f[2] = n /\ f[3] = o}}

Collects(t, W, c) ==
    /\ \A v \in Vars : t.pts[v] = Taken(v, W, c)
    /\ \A n \in NodesOf(g), o \in Objs :
          /\ t.out[n][o] = TakenAt(n, o, W, c)
          /\ t.in[n][o] = IF Kind(n) = "mssa" THEN TakenAt(n, o, W, c)
                          ELSE Brought(n, o, IndirectOf(g, Resolved(g, t.pts)), W, c)

LEMMA TakenFits ==
    ASSUME prog \in DOMAIN Programs, NEW W, NEW c, NEW cs, Answered(W, c, cs)
    PROVE  /\ \A v \in Vars : Taken(v, W, c) \subseteq AndersenPts[prog][v] /\ Taken(v, W, c) \subseteq Objs
           /\ \A n \in NodesOf(g), o \in Objs :
                 TakenAt(n, o, W, c) \subseteq AndersenPts[prog][o] /\ TakenAt(n, o, W, c) \subseteq Objs
<1>1. W \subseteq Askable /\ CacheFits(c)
  BY DEF Answered
<1>2. \A x \in Vars \cup Objs : AndersenPts[prog][x] \subseteq Objs
  BY AndersenFixed DEF AllPts
<1>3. ASSUME NEW v \in Vars, Item(v) \in W PROVE Item(v)[2] = v
  BY DEF Item
<1>4. ASSUME NEW v \in Vars PROVE Taken(v, W, c) \subseteq AndersenPts[prog][v]
  BY <1>1, <1>3 DEF Taken, CacheFits
<1>5. ASSUME NEW n \in NodesOf(g), NEW o \in Objs PROVE TakenAt(n, o, W, c) \subseteq AndersenPts[prog][o]
  BY <1>1 DEF TakenAt, CacheFits
<1> QED
  BY <1>2, <1>4, <1>5

LEMMA FlowTaken ==
    ASSUME prog \in DOMAIN Programs, NEW W, NEW c, NEW cs, Answered(W, c, cs)
    PROVE  \E t \in Flows(g) : Collects(t, W, c)
<1> DEFINE p  == [v \in Vars |-> Taken(v, W, c)]
           es == IndirectOf(g, Resolved(g, p))
           i  == [n \in NodesOf(g) |-> [o \in Objs |->
                    IF Kind(n) = "mssa" THEN TakenAt(n, o, W, c) ELSE Brought(n, o, es, W, c)]]
           m  == [n \in NodesOf(g) |-> [o \in Objs |-> TakenAt(n, o, W, c)]]
           t  == [pts |-> p, in |-> i, out |-> m]
<1>1. p \in [Vars -> SUBSET Objs] /\ m \in Memory(g)
  BY TakenFits DEF Memory
<1>2. ASSUME NEW n \in NodesOf(g), NEW o \in Objs PROVE Brought(n, o, es, W, c) \subseteq Objs
  <2>1. es \subseteq IndirectOf(g, g.calls) /\ g.calls \in SUBSET g.calls
    BY DEF IndirectOf, Resolved
  <2>2. \A e \in es : e[1] \in NodesOf(g)
    BY <2>1, EdgeItems
  <2> HIDE DEF es
  <2> QED
    BY <2>2, TakenFits DEF Brought
<1> HIDE DEF p, es
<1>3. i \in Memory(g)
  BY <1>2, TakenFits DEF Memory
<1>4. /\ \A n \in NodesOf(g), o \in Objs : m[n][o] = TakenAt(n, o, W, c)
      /\ \A n \in NodesOf(g), o \in Objs :
            i[n][o] = IF Kind(n) = "mssa" THEN TakenAt(n, o, W, c) ELSE Brought(n, o, es, W, c)
  OBVIOUS
<1>5. \A v \in Vars : p[v] = Taken(v, W, c)
  BY DEF p
<1>6. t.pts = p /\ t.in = i /\ t.out = m
  OBVIOUS
<1>7. t \in Flows(g)
  <2> HIDE DEF i, m
  <2> QED
    BY <1>1, <1>3 DEF Flows
<1>8. es = IndirectOf(g, Resolved(g, p))
  BY DEF es
<1> HIDE DEF i, m, t
<1>9. Collects(t, W, c)
  BY <1>4, <1>5, <1>6, <1>8 DEF Collects
<1> QED
  BY <1>7, <1>9

\* Of the edges into a node whose calls were looked for, none is left out.
LEMMA EdgesKnown ==
    ASSUME prog \in DOMAIN Programs, NEW W, NEW c, NEW cs, Answered(W, c, cs), NEW t, Collects(t, W, c),
           NEW n, FunSeen(n, {}, W, c)
    PROVE  /\ \A e \in DirectOf(g, Resolved(g, t.pts)) : e[2] = n => e \in DirectOf(g, cs)
           /\ \A e \in IndirectOf(g, Resolved(g, t.pts)) : e[2] = n => e \in IndirectOf(g, cs)
<1>1. ASSUME NEW k \in Resolved(g, t.pts), NEW e \in k.direct \cup k.indirect, e[2] = n PROVE k \in cs
  <2>1. k \in g.calls /\ k.callee \in t.pts[k.ptr] /\ k.ptr \in FunPtrs(n)
    BY <1>1 DEF Resolved, FunPtrs
  <2>2. Item(k.ptr) \in W
    BY <2>1 DEF FunSeen, Seen
  <2>3. k.ptr \in Vars
    BY <2>1, CallItem
  <2>4. t.pts[k.ptr] = c[Item(k.ptr)]
    BY <2>2, <2>3 DEF Collects, Taken
  <2> QED
    BY <2>1, <2>4 DEF Answered
<1> QED
  BY <1>1 DEF DirectOf, IndirectOf

LEMMA TakenBelow ==
    ASSUME prog \in DOMAIN Programs, NEW W, NEW c, NEW cs, Answered(W, c, cs), NEW t, Collects(t, W, c)
    PROVE  /\ \A v \in Vars : t.pts[v] \subseteq AndersenPts[prog][v]
           /\ \A n \in NodesOf(g), o \in Objs :
                 t.in[n][o] \subseteq AndersenPts[prog][o] /\ t.out[n][o] \subseteq AndersenPts[prog][o]
<1>1. ASSUME NEW n \in NodesOf(g), NEW o \in Objs
      PROVE  Brought(n, o, IndirectOf(g, Resolved(g, t.pts)), W, c) \subseteq AndersenPts[prog][o]
  <2>1. Resolved(g, t.pts) \in SUBSET g.calls
    BY DEF Resolved
  <2>2. \A e \in IndirectOf(g, Resolved(g, t.pts)) : e[1] \in NodesOf(g)
    BY <2>1, EdgeItems
  <2>3. \A e \in IndirectOf(g, Resolved(g, t.pts)) : TakenAt(e[1], o, W, c) \subseteq AndersenPts[prog][o]
    BY <2>2, TakenFits
  <2> QED
    BY <2>3 DEF Brought
<1>2. ASSUME NEW v \in Vars PROVE t.pts[v] \subseteq AndersenPts[prog][v]
  BY TakenFits DEF Collects
<1>3. ASSUME NEW n \in NodesOf(g), NEW o \in Objs
      PROVE  t.in[n][o] \subseteq AndersenPts[prog][o] /\ t.out[n][o] \subseteq AndersenPts[prog][o]
  BY <1>1, TakenFits DEF Collects
<1> QED
  BY <1>2, <1>3

LEMMA ClosedTaken ==
    ASSUME prog \in DOMAIN Programs, NEW W, NEW c, NEW cs, Answered(W, c, cs), NEW t, Collects(t, W, c),
           NEW v \in Vars, Item(v) \in W, Closed(Item(v), W, c, cs), NEW x \in Gen(g, t, v)
    PROVE  x \in c[Item(v)]
<1> DEFINE d == Item(v)
<1>1. d \in Askable /\ d[2] = v /\ cs \in SUBSET g.calls /\ CacheFits(c) /\ W \subseteq Askable
  BY DEF Answered, Item
<1>2. Gathered(d, c[d], BaseOf(d, c), {}, {}, W, c, cs) /\ FunSeen(d[1], {}, W, c)
  BY DEF Closed
<1>3. \A k \in NodesOf(g) : Kind(k) \in {"addr", "copy", "load", "formal"} /\ Pointer(k) = v => d = <<k, v>>
  BY OneDefinition DEF Defs
<1>4. CASE \E n \in OfKind(g, "addr") : g.stmt[n].dst = v /\ g.stmt[n].obj = x
  <2>1. PICK n \in OfKind(g, "addr") : g.stmt[n].dst = v /\ g.stmt[n].obj = x
    BY <1>4
  <2>2. n \in NodesOf(g) /\ Kind(n) = "addr" /\ Pointer(n) = v /\ Stmt(n).obj = x
    BY <2>1 DEF OfKind, Kind, Pointer, Stmt
  <2>3. d[1] = n
    BY <1>3, <2>2
  <2> QED
    BY <1>2, <2>2, <2>3 DEF Gathered
<1>5. CASE \E n \in OfKind(g, "copy") : g.stmt[n].dst = v /\ \E w \in g.stmt[n].srcs : x \in t.pts[w]
  <2>1. PICK n \in OfKind(g, "copy") : g.stmt[n].dst = v /\ \E w \in g.stmt[n].srcs : x \in t.pts[w]
    BY <1>5
  <2>2. PICK w \in g.stmt[n].srcs : x \in t.pts[w]
    BY <2>1
  <2>3. n \in NodesOf(g) /\ Kind(n) = "copy" /\ Pointer(n) = v /\ w \in Used(Stmt(n))
    BY <2>1, <2>2 DEF OfKind, Kind, Pointer, Stmt, Used
  <2>4. d[1] = n
    BY <1>3, <2>3
  <2>5. Item(w) \in Into(n, cs) /\ w \in Vars
    BY <2>3, UseEdge, UsedItem
  <2>6. Has(Item(w), c[d], W, c)
    BY <1>2, <2>3, <2>4, <2>5 DEF Gathered, Got
  <2> QED
    BY <2>2, <2>5, <2>6 DEF Has, Seen, Collects, Taken
<1>6. CASE \E n \in Loads(g) : g.stmt[n].dst = v /\ \E o \in t.pts[g.stmt[n].ptr] : x \in t.in[n][o]
  <2>1. PICK n \in Loads(g) : g.stmt[n].dst = v /\ \E o \in t.pts[g.stmt[n].ptr] : x \in t.in[n][o]
    BY <1>6
  <2>2. PICK o \in t.pts[g.stmt[n].ptr] : x \in t.in[n][o]
    BY <2>1
  <2>3. n \in NodesOf(g) /\ Kind(n) = "load" /\ Pointer(n) = v /\ Stmt(n).ptr \in Used(Stmt(n))
    BY <2>1 DEF Loads, OfKind, Kind, Pointer, Stmt, Used
  <2>4. d[1] = n
    BY <1>3, <2>3
  <2>5. Stmt(n).ptr \in Vars /\ PointerOf(n) \in Askable
    BY <2>3, UsedItem DEF PointerOf
  <2>6. PointerOf(n) \in W /\ BaseOf(d, c) = c[PointerOf(n)]
    BY <1>2, <2>3, <2>4 DEF Gathered, Has, Seen, BaseOf
  <2>7. t.pts[Stmt(n).ptr] = BaseOf(d, c)
    BY <2>5, <2>6 DEF Collects, Taken, PointerOf
  <2>8. o \in BaseOf(d, c) /\ o \in Objs
    BY <1>1, <2>2, <2>5, <2>6, <2>7 DEF Stmt, CacheFits
  <2>9. Got(IntoOf(n, o, cs), c[d], {}, W, c)
    BY <1>2, <2>3, <2>4, <2>8 DEF Gathered
  <2>10. x \in Brought(n, o, IndirectOf(g, Resolved(g, t.pts)), W, c)
    BY <2>2, <2>3, <2>8 DEF Collects
  <2>11. PICK e \in IndirectOf(g, Resolved(g, t.pts)) : e[2] = n /\ e[3] = o /\ x \in TakenAt(e[1], o, W, c)
    BY <2>10 DEF Brought
  <2>12. e \in IndirectOf(g, cs)
    BY <1>2, <2>4, <2>11, EdgesKnown
  <2>13. <<e[1], o>> \in IntoOf(n, o, cs)
    BY <2>11, <2>12 DEF IntoOf
  <2>14. Has(<<e[1], o>>, c[d], W, c)
    BY <2>9, <2>13 DEF Got
  <2> QED
    BY <2>11, <2>14 DEF Has, Seen, TakenAt
<1>7. CASE \E e \in ParamCopies(g, DirectOf(g, Resolved(g, t.pts))) :
              g.stmt[e[2]].var = v /\ x \in t.pts[g.stmt[e[1]].var]
  <2>1. PICK e \in ParamCopies(g, DirectOf(g, Resolved(g, t.pts))) :
              g.stmt[e[2]].var = v /\ x \in t.pts[g.stmt[e[1]].var]
    BY <1>7
  <2>2. e \in DirectOf(g, Resolved(g, t.pts)) /\ Kind(e[1]) = "actual" /\ Kind(e[2]) = "formal"
        /\ Resolved(g, t.pts) \in SUBSET g.calls
    BY <2>1 DEF ParamCopies, Kind, Resolved
  <2>3. e[1] \in NodesOf(g) /\ e[2] \in NodesOf(g)
    BY <2>2, EdgeItems
  <2>4. d[1] = e[2]
    BY <1>3, <2>1, <2>2, <2>3 DEF Pointer, Stmt
  <2>5. e \in DirectOf(g, cs)
    BY <1>2, <2>2, <2>4, EdgesKnown
  <2> DEFINE y == <<e[1], getLHSTopLevPtr(e[1])>>
  <2>6. y \in Askable /\ y \in Into(d[1], cs) /\ y[2] = Stmt(e[1]).var /\ y[1] = e[1]
    BY <1>1, <2>2, <2>4, <2>5, EdgeItems DEF Into, getLHSTopLevPtr
  <2>7. Has(y, c[d], W, c)
    BY <1>2, <2>2, <2>4, <2>6 DEF Gathered, Got
  <2>8. y \in W /\ y[1] \notin Defs
    BY <2>2, <2>6, <2>7 DEF Has, Seen, Defs
  <2>9. Closed(y, W, c, cs)
    BY <2>8 DEF Answered
  <2>10. Item(y[2]) \in Into(y[1], cs)
    BY <1>1, <2>2, <2>6, IntoActual
  <2>11. Item(y[2]) \in W /\ c[Item(y[2])] \subseteq c[y]
    BY <2>2, <2>6, <2>9, <2>10 DEF Closed, Gathered, Got, Has, Seen
  <2>12. y[2] \in Vars
    BY <2>2, <2>6, TopLevelItem DEF isTopLevelPtrStmt
  <2>13. x \in c[Item(y[2])]
    BY <2>1, <2>6, <2>11, <2>12 DEF Collects, Taken, Stmt
  <2> QED
    BY <2>7, <2>11, <2>13 DEF Has
<1> QED
  BY <1>4, <1>5, <1>6, <1>7 DEF Gen

LEMMA GenTaken ==
    ASSUME prog \in DOMAIN Programs, NEW W, NEW c, NEW cs, Answered(W, c, cs), NEW t, Collects(t, W, c),
           NEW v \in Vars
    PROVE  Gen(g, t, v) \subseteq t.pts[v]
<1>1. Gen(g, t, v) \subseteq AndersenPts[prog][v]
  BY TakenBelow, AndersenFlows DEF g
<1>2. CASE Item(v) \notin W
  BY <1>1, <1>2 DEF Collects, Taken
<1>3. CASE Item(v) \in W /\ Full(Item(v), c)
  BY <1>1, <1>3 DEF Collects, Taken, Full, Item
<1>4. CASE Item(v) \in W /\ Closed(Item(v), W, c, cs)
  BY <1>4, ClosedTaken DEF Collects, Taken
<1> QED
  BY <1>2, <1>3, <1>4 DEF Answered

LEMMA ArrivesTaken ==
    ASSUME prog \in DOMAIN Programs, NEW W, NEW c, NEW cs, Answered(W, c, cs), NEW t, Collects(t, W, c),
           NEW n \in NodesOf(g), NEW o \in Objs
    PROVE  Arrives(g, t, n, o) \subseteq t.in[n][o]
<1> DEFINE es == IndirectOf(g, Resolved(g, t.pts))
<1>1. Resolved(g, t.pts) \in SUBSET g.calls
  BY DEF Resolved
<1>2. ASSUME NEW e \in es, e[2] = n, e[3] = o, NEW x \in Exit(g, t, e[1], o)
      PROVE  x \in TakenAt(e[1], o, W, c) /\ e[1] \in NodesOf(g)
  <2>1. e[1] \in NodesOf(g) /\ ~isTopLevelPtrStmt(e[1])
    BY <1>1, <1>2, EdgeItems
  <2>2. Kind(e[1]) \in {"store", "mssa"}
    BY <2>1 DEF isTopLevelPtrStmt
  <2> QED
    BY <1>2, <2>1, <2>2 DEF Exit, Kind, Collects
<1>3. CASE Kind(n) # "mssa"
  <2>1. t.in[n][o] = Brought(n, o, es, W, c)
    BY <1>3 DEF Collects
  <2> HIDE DEF es
  <2>2. Arrives(g, t, n, o) \subseteq Brought(n, o, es, W, c)
    BY <1>2 DEF Arrives, Brought, es
  <2> QED
    BY <2>1, <2>2
<1>4. CASE Kind(n) = "mssa" /\ <<n, o>> \notin W
  <2>1. Arrives(g, t, n, o) \subseteq AndersenPts[prog][o]
    BY TakenBelow, AndersenFlows DEF g
  <2> QED
    BY <1>4, <2>1 DEF Collects, TakenAt
<1>5. CASE Kind(n) = "mssa" /\ <<n, o>> \in W
  <2>1. Closed(<<n, o>>, W, c, cs)
    BY <1>5 DEF Answered, Defs
  <2>2. Got(IntoOf(n, o, cs), c[<<n, o>>], {}, W, c) /\ FunSeen(n, {}, W, c)
    BY <1>5, <2>1 DEF Closed, Gathered
  <2>3. ASSUME NEW x \in Arrives(g, t, n, o) PROVE x \in c[<<n, o>>]
    <3>1. PICK e \in es : e[2] = n /\ e[3] = o /\ x \in Exit(g, t, e[1], o)
      BY <2>3 DEF Arrives
    <3>2. x \in TakenAt(e[1], o, W, c)
      BY <1>2, <3>1
    <3>3. e \in IndirectOf(g, cs)
      BY <2>2, <3>1, EdgesKnown
    <3>4. <<e[1], o>> \in IntoOf(n, o, cs)
      BY <3>1, <3>3 DEF IntoOf
    <3>5. Has(<<e[1], o>>, c[<<n, o>>], W, c)
      BY <2>2, <3>4 DEF Got
    <3> QED
      BY <3>2, <3>5 DEF Has, Seen, TakenAt
  <2> QED
    BY <1>5, <2>3 DEF Collects, TakenAt
<1> QED
  BY <1>3, <1>4, <1>5

LEMMA LeavesTaken ==
    ASSUME prog \in DOMAIN Programs, NoLateRecursion, NEW W, NEW c, NEW cs, Answered(W, c, cs),
           NEW t, Collects(t, W, c), NEW n \in Stores(g), NEW o \in Objs
    PROVE  Leaves(g, t, n, o) \subseteq t.out[n][o]
<1>1. n \in NodesOf(g) /\ Kind(n) = "store" /\ Stmt(n).ptr \in Used(Stmt(n)) /\ Stmt(n).src \in Used(Stmt(n))
  BY DEF Stores, OfKind, Kind, Stmt, Used
<1>2. CASE <<n, o>> \notin W
  <2>1. Leaves(g, t, n, o) \subseteq AndersenPts[prog][o]
    BY TakenBelow, AndersenFlows DEF g
  <2> QED
    BY <1>1, <1>2, <2>1 DEF Collects, TakenAt
<1>3. CASE <<n, o>> \in W
  <2> DEFINE d    == <<n, o>>
             base == c[PointerOf(n)]
  <2>1. Closed(d, W, c, cs)
    BY <1>1, <1>3 DEF Answered, Defs
  <2>2. /\ Has(PointerOf(n), base, W, c) /\ FunSeen(n, {}, W, c)
        /\ o \in base => Has(SourceOf(n), c[d], W, c)
        /\ base # {} /\ ~Kills(d, base) => Got(IntoOf(n, o, cs), c[d], {}, W, c)
    BY <1>1, <2>1 DEF Closed, Gathered, BaseOf
  <2>3. Stmt(n).ptr \in Vars /\ Stmt(n).src \in Vars
    BY <1>1, UsedItem
  <2>4. t.pts[g.stmt[n].ptr] = base
    BY <2>2, <2>3 DEF Has, Seen, Collects, Taken, PointerOf, Stmt
  <2>5. o \in base => t.pts[g.stmt[n].src] \subseteq c[d]
    BY <2>2, <2>3 DEF Has, Seen, Collects, Taken, SourceOf, Stmt
  <2>6. StrongObjs(g, Resolved(g, t.pts)) = g.strong
    BY DEF StrongObjs, Resolved, NoLateRecursion
  <2>7. ASSUME ~Killed(base, o, g.strong) PROVE t.in[n][o] \subseteq c[d]
    <3>1. Got(IntoOf(n, o, cs), c[d], {}, W, c)
      BY <2>2, <2>7 DEF Killed, Kills
    <3>2. ASSUME NEW x \in t.in[n][o] PROVE x \in c[d]
      <4>1. x \in Brought(n, o, IndirectOf(g, Resolved(g, t.pts)), W, c)
        BY <1>1, <3>2 DEF Collects
      <4>2. PICK e \in IndirectOf(g, Resolved(g, t.pts)) : e[2] = n /\ e[3] = o /\ x \in TakenAt(e[1], o, W, c)
        BY <4>1 DEF Brought
      <4>3. e \in IndirectOf(g, cs)
        BY <2>2, <4>2, EdgesKnown
      <4>4. <<e[1], o>> \in IntoOf(n, o, cs)
        BY <4>2, <4>3 DEF IntoOf
      <4>5. Has(<<e[1], o>>, c[d], W, c)
        BY <3>1, <4>4 DEF Got
      <4> QED
        BY <4>2, <4>5 DEF Has, Seen, TakenAt
    <3> QED
      BY <3>2
  <2>8. t.out[n][o] = c[d]
    BY <1>1, <1>3 DEF Collects, TakenAt
  <2> HIDE DEF d, base
  <2> QED
    BY <2>4, <2>5, <2>6, <2>7, <2>8 DEF Leaves
<1> QED
  BY <1>2, <1>3

\* Answers hold the solution.
LEMMA AnswersHold ==
    ASSUME prog \in DOMAIN Programs, NoLateRecursion, NEW W, NEW c, NEW cs, Answered(W, c, cs),
           NEW v \in Vars, Item(v) \in W
    PROVE  Solution[prog].pts[v] \subseteq c[Item(v)]
<1>1. PICK t \in Flows(g) : Collects(t, W, c)
  BY FlowTaken
<1>2. Under(g, FlowStep(g, t), t)
  <2>1. \A u \in Vars : FlowStep(g, t).pts[u] \subseteq t.pts[u]
    BY <1>1, GenTaken, FlowStepFields
  <2>2. \A n \in NodesOf(g), o \in Objs : FlowStep(g, t).in[n][o] \subseteq t.in[n][o]
    BY <1>1, ArrivesTaken, FlowStepFields
  <2>3. \A n \in NodesOf(g), o \in Objs : FlowStep(g, t).out[n][o] \subseteq t.out[n][o]
    BY <1>1, LeavesTaken, FlowStepFields
  <2> QED
    BY <2>1, <2>2, <2>3 DEF Under
<1>3. Under(g, Solution[prog], t)
  BY <1>1, <1>2, SolutionLeast DEF g
<1> QED
  BY <1>1, <1>3 DEF Under, Collects, Taken

\* With no call under way, all that was visited has its answer.
LEMMA EndAnswered ==
    ASSUME prog \in DOMAIN Programs, NEW V, NEW L, NEW O, NEW q, NEW c, NEW cs \in SUBSET g.calls, NEW s,
           NEW qd, CacheFits(c), Steady(V, L, O, q, c, cs, s, qd), s = <<>>, ~q => Pending(V, L, O, c, cs, s)
    PROVE  \E W : Answered(W, c, cs) /\ \A v \in qd : Item(v) \in W
<1>1. /\ V \subseteq Askable /\ L \subseteq V /\ O \subseteq Askable
      /\ \A d \in O : d[1] \in Defs /\ Full(d, c)
      /\ \A k \in g.calls : k.callee \in c[Item(k.ptr)] => k \in cs
      /\ \A d \in V \ L : d \in O \/ Closed(d, Settled(V, L, O), c, cs)
      /\ \A v \in qd : Item(v) \in Settled(V, L, O) \/ (~q /\ Item(v) \in V)
  BY DEF Steady
<1>2. Settled(V, L, O) \subseteq V \cup O /\ Settled(V, L, O) = (V \ L) \cup O
  BY <1>1 DEF Settled
<1>3. CASE q
  <2>1. Answered(Settled(V, L, O), c, cs)
    BY <1>1, <1>2 DEF Answered
  <2> QED
    BY <1>1, <1>3, <2>1
<1>4. CASE ~q
  <2>1. \A d \in L \ O : Closed(d, V \cup O, c, cs)
    <3>1. Len(s) = 0 /\ 1 .. 0 = {}
      OBVIOUS
    <3> QED
      BY <1>4, <3>1 DEF Pending
  <2>2. ASSUME NEW d \in V \ L, d \notin O PROVE Closed(d, V \cup O, c, cs)
    <3>1. Undisturbed(d, Settled(V, L, O), V \cup O, c, c, cs, cs)
      BY <1>2, UndisturbedSame
    <3>2. d \in Askable /\ Closed(d, Settled(V, L, O), c, cs)
      BY <1>1, <2>2
    <3> QED
      BY <3>1, <3>2, ClosedKept
  <2>3. Answered(V \cup O, c, cs)
    BY <1>1, <2>1, <2>2 DEF Answered
  <2> QED
    BY <1>1, <1>2, <2>3
<1> QED
  BY <1>3, <1>4

\* What is asked for are pointers.
Asked == queried \subseteq {Pointer(n) : n \in Defs}

DDACompleteInv == DDAInv /\ Asked /\ (ParametersAreAddresses => CompleteInv)

LEMMA InvComplete == DDACompleteInv => DDAComplete
<1>1. SUFFICES ASSUME DDACompleteInv, ParametersAreAddresses, stack = <<>>, NoLateRecursion, NEW v \in queried
               PROVE  Solution[prog].pts[v] \subseteq pts[v]
  BY DEF DDAComplete, DDARecomputes
<1>2. Shape /\ Within(CoarseBound) /\ CompleteInv /\ prog \in DOMAIN Programs /\ called \in SUBSET g.calls
  BY <1>1 DEF DDACompleteInv, DDAInv, Shape
<1>3. PICK n \in Defs : v = Pointer(n)
  BY <1>1 DEF DDACompleteInv, Asked
<1>4. Item(v) \in Askable /\ Item(v)[2] = v /\ isTopLevelPtrStmt(Item(v)[1]) /\ v \in Vars
  <2>1. v \in Defined(Stmt(n)) /\ n \in NodesOf(g)
    BY <1>2, <1>3, OneDefinition
  <2>2. v \in Vars
    BY <1>2, <2>1, Kinds DEF Typed, Defined
  <2> QED
    BY <1>2, <2>1, <2>2, DefinedItem DEF Stmt
<1>5. CacheFits(Cache) /\ Cache[Item(v)] = pts[v]
  BY <1>2, <1>4, CacheFitsNow DEF getCachedPointsTo
<1>6. PICK V, L, O, q, c, cs, s, qd :
         /\ V = backwardVisited /\ L = locToDpmSetMap /\ O = outOfBudgetDpms /\ q = outOfBudgetQuery
         /\ c = Cache /\ cs = called /\ s = stack /\ qd = queried
  OBVIOUS
<1>7. /\ Steady(V, L, O, q, c, cs, s, qd) /\ (~q => Pending(V, L, O, c, cs, s))
      /\ cs \in SUBSET g.calls /\ CacheFits(c) /\ s = <<>>
  BY <1>1, <1>2, <1>5, <1>6 DEF CompleteInv
<1>8. PICK W : Answered(W, c, cs) /\ \A u \in qd : Item(u) \in W
  BY <1>2, <1>7, EndAnswered
<1>9. Item(v) \in W
  BY <1>1, <1>6, <1>8
<1>10. Solution[prog].pts[v] \subseteq c[Item(v)]
  BY <1>1, <1>2, <1>4, <1>8, <1>9, AnswersHold
<1> QED
  BY <1>5, <1>6, <1>10

LEMMA InitDDACompleteInv == Init => DDACompleteInv
<1>1. SUFFICES ASSUME Init PROVE DDACompleteInv
  OBVIOUS
<1>2. DDAInv /\ Shape
  BY <1>1, InitDDAInv DEF DDAInv
<1>3. Asked
  BY <1>1 DEF Init, Asked
<1>4. CompleteInv
  BY <1>1, <1>2, InitComplete
<1> QED
  BY <1>2, <1>3, <1>4 DEF DDACompleteInv

LEMMA NextDDACompleteInv == DDACompleteInv /\ [Next]_vars => DDACompleteInv'
<1>1. SUFFICES ASSUME DDACompleteInv, [Next]_vars PROVE DDACompleteInv'
  OBVIOUS
<1>2. DDAInv /\ Asked /\ Shape /\ Within(CoarseBound)
  BY <1>1 DEF DDACompleteInv, DDAInv
<1>3. DDAInv'
  BY <1>1, <1>2, NextDDAInv
<1>4. prog' = prog
  BY <1>1 DEF Next, Solve, findPT, handleSingleStatement, PointerKnown, AccessObject, Stored,
              updateCachedPointsTo, FollowEdge, reCompute, Recomputed, Answer, handleOutOfBudgetDpm,
              computeDDAPts, Grow, Unmoved, vars
<1>5. Asked'
  <2>1. {Pointer(n) : n \in Defs}' = {Pointer(n) : n \in Defs}
    BY <1>4, SameProgram DEF Pointer, Kind, Stmt, g
  <2>2. queried' \subseteq queried \cup {Pointer(n) : n \in Defs}
    <3>1. CASE computeDDAPts
      BY <3>1 DEF computeDDAPts
    <3>2. CASE Solve \/ UNCHANGED vars
      BY <3>2 DEF Solve, findPT, handleSingleStatement, PointerKnown, AccessObject, Stored,
                  updateCachedPointsTo, FollowEdge, reCompute, Recomputed, Answer, handleOutOfBudgetDpm,
                  Grow, Unmoved, vars
    <3> QED
      BY <1>1, <3>1, <3>2 DEF Next
  <2> QED
    BY <1>2, <2>1, <2>2 DEF Asked
<1>6. ASSUME ParametersAreAddresses' PROVE CompleteInv'
  <2>1. ParametersAreAddresses
    <3>1. \A v : Item(v)' = Item(v) /\ Item(v)[1] = getDefSVFGNode(v)
      BY <1>4, SameItems DEF Item
    <3>2. \A v : getDefSVFGNode(v)' = getDefSVFGNode(v)
      BY <3>1 DEF Item
    <3> QED
      BY <1>4, <1>6, <3>2, SameProgram DEF ParametersAreAddresses
  <2>2. CompleteInv
    BY <1>1, <2>1 DEF DDACompleteInv
  <2>3. CASE Next
    BY <1>2, <2>1, <2>2, <2>3, NextComplete
  <2>4. CASE UNCHANGED vars
    BY <2>2, <2>4, StutterComplete
  <2> QED
    BY <1>1, <2>3, <2>4
<1> QED
  BY <1>3, <1>5, <1>6 DEF DDACompleteInv

(***************************************************************************)
(* Every answer of the solver holds all that the least flow-sensitive      *)
(* solution lets flow to the pointer asked for: after any queries, whether *)
(* or not they ran out of budget, and whichever edges and items came       *)
(* first, where only addresses are passed and no call resolved on the way  *)
(* makes the stores of a function weak.                                    *)
(***************************************************************************)
THEOREM DDACompleteAlways == Spec => []DDAComplete
<1>1. Init => DDACompleteInv
  BY InitDDACompleteInv
<1>2. DDACompleteInv /\ [Next]_vars => DDACompleteInv'
  BY NextDDACompleteInv
<1>3. DDACompleteInv => DDAComplete
  BY InvComplete
<1> QED
  BY <1>1, <1>2, <1>3, PTL DEF Spec
=============================================================================
