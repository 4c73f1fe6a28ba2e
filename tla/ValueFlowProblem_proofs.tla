----------------------- MODULE ValueFlowProblem_proofs -----------------------
(***************************************************************************)
(* The two solutions a program has: its least flow-sensitive solution and  *)
(* Andersen's exist, are closed under the program's statements, and the    *)
(* first is within the second.                                             *)
(***************************************************************************)
EXTENDS ValueFlowProblem, Digraphs_proofs

(***************************************************************************)
(* The least flow-sensitive solution exists and is a fixed point.          *)
(***************************************************************************)
Under(h, s, t) ==
    /\ \A v \in Vars : s.pts[v] \subseteq t.pts[v]
    /\ \A n \in NodesOf(h), o \in Objs :
          s.in[n][o] \subseteq t.in[n][o] /\ s.out[n][o] \subseteq t.out[n][o]

LEMMA GenMonotone ==
    ASSUME NEW h, WellFormed(h), NEW s, NEW t, NEW v, Under(h, s, t),
           \A w \in Vars : s.pts[w] \subseteq Objs
    PROVE  Gen(h, s, v) \subseteq Gen(h, t, v)
<1> SUFFICES ASSUME NEW x \in Gen(h, s, v) PROVE x \in Gen(h, t, v)
  OBVIOUS
<1> USE DEF WellFormed
<1>1. CASE \E n \in OfKind(h, "addr") : h.stmt[n].dst = v /\ h.stmt[n].obj = x
  BY <1>1 DEF Gen
<1>2. CASE \E n \in OfKind(h, "copy") :
              h.stmt[n].dst = v /\ \E w \in h.stmt[n].srcs : x \in s.pts[w]
  <2>1. PICK n \in OfKind(h, "copy") :
               h.stmt[n].dst = v /\ \E w \in h.stmt[n].srcs : x \in s.pts[w]
    BY <1>2
  <2>2. PICK w \in h.stmt[n].srcs : x \in s.pts[w]
    BY <2>1
  <2>3. w \in Vars
    BY <2>1, <2>2 DEF OfKind, Typed
  <2> QED
    BY <2>1, <2>2, <2>3 DEF Gen, Under
<1>3. CASE \E n \in Loads(h) :
              h.stmt[n].dst = v /\ \E o \in s.pts[h.stmt[n].ptr] : x \in s.in[n][o]
  <2>1. PICK n \in Loads(h) : h.stmt[n].dst = v /\ \E o \in s.pts[h.stmt[n].ptr] : x \in s.in[n][o]
    BY <1>3
  <2>2. PICK o \in s.pts[h.stmt[n].ptr] : x \in s.in[n][o]
    BY <2>1
  <2>3. n \in NodesOf(h) /\ h.stmt[n].ptr \in Vars
    BY <2>1 DEF Loads, OfKind, Typed
  <2>4. o \in t.pts[h.stmt[n].ptr] /\ x \in t.in[n][o]
    BY <2>2, <2>3 DEF Under
  <2> QED
    BY <2>1, <2>4 DEF Gen
<1>4. CASE \E e \in ParamCopies(h, DirectOf(h, Resolved(h, s.pts))) :
              h.stmt[e[2]].var = v /\ x \in s.pts[h.stmt[e[1]].var]
  <2>1. PICK e \in ParamCopies(h, DirectOf(h, Resolved(h, s.pts))) :
               h.stmt[e[2]].var = v /\ x \in s.pts[h.stmt[e[1]].var]
    BY <1>4
  <2>2. Resolved(h, s.pts) \subseteq Resolved(h, t.pts) /\ Resolved(h, s.pts) \subseteq h.calls
    BY DEF Resolved, Under
  <2>3. /\ e \in ParamCopies(h, DirectOf(h, Resolved(h, t.pts)))
        /\ e \in DirectOf(h, h.calls)
    BY <2>2 DEF ParamCopies, DirectOf
  <2>4. h.stmt[e[1]].var \in Vars
    BY <2>1, <2>3 DEF ParamCopies, Typed
  <2> QED
    BY <2>1, <2>3, <2>4 DEF Gen, Under
<1> QED
  BY <1>1, <1>2, <1>3, <1>4 DEF Gen

LEMMA ExitMonotone ==
    ASSUME NEW h, NEW s, NEW t, Under(h, s, t), NEW n \in NodesOf(h), NEW o \in Objs
    PROVE  Exit(h, s, n, o) \subseteq Exit(h, t, n, o)
BY DEF Under, Exit

LEMMA CallsMonotone ==
    ASSUME NEW h, WellFormed(h), NEW p, NEW q, \A v \in Vars : p[v] \subseteq q[v]
    PROVE  /\ Resolved(h, p) \subseteq Resolved(h, q) /\ Resolved(h, q) \subseteq h.calls
           /\ DirectOf(h, Resolved(h, p)) \subseteq DirectOf(h, Resolved(h, q))
           /\ IndirectOf(h, Resolved(h, p)) \subseteq IndirectOf(h, Resolved(h, q))
           /\ StrongObjs(h, Resolved(h, q)) \subseteq StrongObjs(h, Resolved(h, p))
<1>1. Resolved(h, p) \subseteq Resolved(h, q) /\ Resolved(h, q) \subseteq h.calls
  BY DEF Resolved, WellFormed
<1> QED
  BY <1>1 DEF DirectOf, IndirectOf, StrongObjs

LEMMA FewerCalls ==
    ASSUME NEW h, WellFormed(h), NEW cs \in SUBSET h.calls
    PROVE  /\ DirectOf(h, cs) \subseteq NodesOf(h) \X NodesOf(h)
           /\ IndirectOf(h, cs) \subseteq NodesOf(h) \X NodesOf(h) \X Objs
           /\ \A e \in DirectOf(h, cs) : h.stmt[e[1]].kind = "actual" => h.stmt[e[2]].kind = "formal"
           /\ \A e \in IndirectOf(h, cs) : h.stmt[e[1]].kind \in {"store", "mssa"}
<1>1. DirectOf(h, cs) \subseteq DirectOf(h, h.calls) /\ IndirectOf(h, cs) \subseteq IndirectOf(h, h.calls)
  BY DEF DirectOf, IndirectOf
<1> QED
  BY <1>1 DEF WellFormed

LEMMA ArrivesMonotone ==
    ASSUME NEW h, WellFormed(h), NEW s, NEW t, Under(h, s, t), NEW n, NEW o
    PROVE  Arrives(h, s, n, o) \subseteq Arrives(h, t, n, o)
<1> SUFFICES ASSUME NEW x \in Arrives(h, s, n, o) PROVE x \in Arrives(h, t, n, o)
  OBVIOUS
<1>1. PICK e \in IndirectOf(h, Resolved(h, s.pts)) :
             e[2] = n /\ e[3] = o /\ x \in Exit(h, s, e[1], o)
  BY DEF Arrives
<1>2. e \in IndirectOf(h, Resolved(h, t.pts)) /\ Resolved(h, t.pts) \in SUBSET h.calls
  BY <1>1, CallsMonotone DEF Under
<1>3. e[1] \in NodesOf(h) /\ o \in Objs
  BY <1>1, <1>2, FewerCalls
<1> QED
  BY <1>1, <1>2, <1>3, ExitMonotone DEF Arrives

LEMMA LeavesMonotone ==
    ASSUME NEW h, WellFormed(h), NEW s, NEW t, Under(h, s, t), NEW n \in Stores(h), NEW o \in Objs
    PROVE  Leaves(h, s, n, o) \subseteq Leaves(h, t, n, o)
<1>1. n \in NodesOf(h) /\ h.stmt[n].ptr \in Vars /\ h.stmt[n].src \in Vars
  BY DEF Stores, OfKind, WellFormed, Typed
<1>2. StrongObjs(h, Resolved(h, t.pts)) \subseteq StrongObjs(h, Resolved(h, s.pts))
  BY CallsMonotone DEF Under
<1>3. /\ s.pts[h.stmt[n].ptr] \subseteq t.pts[h.stmt[n].ptr]
      /\ s.pts[h.stmt[n].src] \subseteq t.pts[h.stmt[n].src]
      /\ s.in[n][o] \subseteq t.in[n][o]
  BY <1>1 DEF Under
<1>4. ASSUME Killed(t.pts[h.stmt[n].ptr], o, StrongObjs(h, Resolved(h, t.pts)))
      PROVE  Killed(s.pts[h.stmt[n].ptr], o, StrongObjs(h, Resolved(h, s.pts)))
  BY <1>2, <1>3, <1>4 DEF Killed
<1> QED
  BY <1>3, <1>4 DEF Leaves

LEMMA FlowStepTyped ==
    ASSUME NEW h, WellFormed(h), NEW s \in Flows(h)
    PROVE  FlowStep(h, s) \in Flows(h)
<1>1. \A v \in Vars : Gen(h, s, v) \subseteq Objs /\ s.pts[v] \subseteq Objs
  BY DEF Gen, Flows
<1>2. ASSUME NEW n \in NodesOf(h), NEW o \in Objs
      PROVE  /\ s.in[n][o] \subseteq Objs /\ s.out[n][o] \subseteq Objs
             /\ Arrives(h, s, n, o) \subseteq Objs
             /\ n \in Stores(h) => Leaves(h, s, n, o) \subseteq Objs
  <2>1. s.in[n][o] \subseteq Objs /\ s.out[n][o] \subseteq Objs
    BY DEF Flows, Memory
  <2>2. ASSUME n \in Stores(h) PROVE Leaves(h, s, n, o) \subseteq Objs
    <3>1. h.stmt[n].src \in Vars
      BY <2>2 DEF Stores, OfKind, WellFormed, Typed
    <3> QED
      BY <1>1, <2>1, <3>1 DEF Leaves
  <2> QED
    BY <2>1, <2>2 DEF Arrives
<1> QED
  BY <1>1, <1>2 DEF FlowStep, Flows, Memory

LEMMA FlowStepFields ==
    ASSUME NEW h, NEW s
    PROVE  /\ \A v \in Vars : FlowStep(h, s).pts[v] = s.pts[v] \cup Gen(h, s, v)
           /\ \A n \in NodesOf(h), o \in Objs :
                 /\ FlowStep(h, s).in[n][o] = s.in[n][o] \cup Arrives(h, s, n, o)
                 /\ FlowStep(h, s).out[n][o] =
                       s.out[n][o] \cup (IF n \in Stores(h) THEN Leaves(h, s, n, o) ELSE {})
BY DEF FlowStep

LEMMA FlowStepMonotone ==
    ASSUME NEW h, WellFormed(h), NEW s \in Flows(h), NEW t, Under(h, s, t)
    PROVE  Under(h, FlowStep(h, s), FlowStep(h, t)) /\ Under(h, s, FlowStep(h, s))
<1>1. \A v \in Vars : Gen(h, s, v) \subseteq Gen(h, t, v)
  BY GenMonotone DEF Flows
<1>2. \A n \in NodesOf(h), o \in Objs : Arrives(h, s, n, o) \subseteq Arrives(h, t, n, o)
  BY ArrivesMonotone
<1>3. \A n \in Stores(h), o \in Objs : Leaves(h, s, n, o) \subseteq Leaves(h, t, n, o)
  BY LeavesMonotone
<1> QED
  BY <1>1, <1>2, <1>3, FlowStepFields DEF Under

LEMMA BelowEqual ==
    ASSUME NEW h, NEW s \in Flows(h), NEW t \in Flows(h), Under(h, s, t), Under(h, t, s)
    PROVE  s = t
<1>1. s.pts = t.pts
  BY DEF Flows, Under
<1>2. ASSUME NEW n \in NodesOf(h) PROVE s.in[n] = t.in[n] /\ s.out[n] = t.out[n]
  <2>1. \A o \in Objs : s.in[n][o] = t.in[n][o] /\ s.out[n][o] = t.out[n][o]
    BY DEF Under
  <2>2. /\ s.in[n] \in [Objs -> SUBSET Objs] /\ t.in[n] \in [Objs -> SUBSET Objs]
        /\ s.out[n] \in [Objs -> SUBSET Objs] /\ t.out[n] \in [Objs -> SUBSET Objs]
    BY DEF Flows, Memory
  <2> QED
    BY <2>1, <2>2
<1>3. s.in = t.in /\ s.out = t.out
  BY <1>2 DEF Flows, Memory
<1> QED
  BY <1>1, <1>3 DEF Flows

\* A flow as one finite set.
Slots(h) == ({"pts"} \X Vars) \cup ({"in", "out"} \X (NodesOf(h) \X Objs))
Held(h, s) ==
    {u \in Slots(h) \X Objs :
        \/ u[1][1] = "pts" /\ u[2] \in s.pts[u[1][2]]
        \/ u[1][1] = "in" /\ u[2] \in s.in[u[1][2][1]][u[1][2][2]]
        \/ u[1][1] = "out" /\ u[2] \in s.out[u[1][2][1]][u[1][2][2]]}

LEMMA HeldBelow ==
    ASSUME NEW h, NEW s \in Flows(h), NEW t \in Flows(h)
    PROVE  Held(h, s) \subseteq Held(h, t) <=> Under(h, s, t)
<1>1. ASSUME Held(h, s) \subseteq Held(h, t) PROVE Under(h, s, t)
  <2>1. ASSUME NEW v \in Vars, NEW x \in s.pts[v] PROVE x \in t.pts[v]
    <3>1. <<"pts", v>> \in Slots(h) /\ x \in Objs
      BY <2>1 DEF Slots, Flows
    <3>2. <<<<"pts", v>>, x>> \in Held(h, s)
      BY <2>1, <3>1 DEF Held
    <3>3. <<<<"pts", v>>, x>> \in Held(h, t)
      BY <1>1, <3>2
    <3> QED
      BY <3>3 DEF Held
  <2>2. ASSUME NEW n \in NodesOf(h), NEW o \in Objs, NEW x \in s.in[n][o] PROVE x \in t.in[n][o]
    <3>1. <<"in", <<n, o>>>> \in Slots(h) /\ x \in Objs
      BY <2>2 DEF Slots, Flows, Memory
    <3>2. <<<<"in", <<n, o>>>>, x>> \in Held(h, s)
      BY <2>2, <3>1 DEF Held
    <3>3. <<<<"in", <<n, o>>>>, x>> \in Held(h, t)
      BY <1>1, <3>2
    <3> QED
      BY <3>3 DEF Held
  <2>3. ASSUME NEW n \in NodesOf(h), NEW o \in Objs, NEW x \in s.out[n][o] PROVE x \in t.out[n][o]
    <3>1. <<"out", <<n, o>>>> \in Slots(h) /\ x \in Objs
      BY <2>3 DEF Slots, Flows, Memory
    <3>2. <<<<"out", <<n, o>>>>, x>> \in Held(h, s)
      BY <2>3, <3>1 DEF Held
    <3>3. <<<<"out", <<n, o>>>>, x>> \in Held(h, t)
      BY <1>1, <3>2
    <3> QED
      BY <3>3 DEF Held
  <2> QED
    BY <2>1, <2>2, <2>3 DEF Under
<1>2. ASSUME Under(h, s, t), NEW u \in Held(h, s) PROVE u \in Held(h, t)
  <2>1. u \in Slots(h) \X Objs
    BY DEF Held
  <2>2. CASE u[1][1] = "pts"
    <3>1. u[1][2] \in Vars
      BY <2>1, <2>2 DEF Slots
    <3> QED
      BY <1>2, <2>1, <2>2, <3>1 DEF Held, Under
  <2>3. CASE u[1][1] \in {"in", "out"}
    <3>1. u[1][2][1] \in NodesOf(h) /\ u[1][2][2] \in Objs
      BY <2>1, <2>3 DEF Slots
    <3> QED
      BY <1>2, <2>1, <2>3, <3>1 DEF Held, Under
  <2> QED
    BY <2>1, <2>2, <2>3 DEF Slots
<1> QED
  BY <1>1, <1>2

LEMMA SlotsFinite ==
    ASSUME NEW h, WellFormed(h)
    PROVE  IsFiniteSet(Slots(h) \X Objs)
<1>1. IsFiniteSet(NodesOf(h) \X Objs)
  BY FS_Product, ProgramsAssumption DEF WellFormed
<1>2. IsFiniteSet({"pts"}) /\ IsFiniteSet({"in", "out"})
  <2>1. IsFiniteSet({} \cup {"pts"}) /\ IsFiniteSet(({} \cup {"in"}) \cup {"out"})
    BY FS_EmptySet, FS_AddElement
  <2>2. {} \cup {"pts"} = {"pts"} /\ ({} \cup {"in"}) \cup {"out"} = {"in", "out"}
    OBVIOUS
  <2> QED
    BY <2>1, <2>2
<1>3. IsFiniteSet({"pts"} \X Vars) /\ IsFiniteSet({"in", "out"} \X (NodesOf(h) \X Objs))
  BY <1>1, <1>2, FS_Product, ProgramsAssumption
<1> QED
  BY <1>3, FS_Union, FS_Product, ProgramsAssumption DEF Slots

(* The iteration ends, and with the least fixed point.                     *)
LEMMA SolutionLeast ==
    ASSUME NEW name \in DOMAIN Programs
    PROVE  LET h == Programs[name]
               s == Solution[name]
           IN  /\ s \in Flows(h) /\ FlowStep(h, s) = s
               /\ \A t \in Flows(h) : Under(h, FlowStep(h, t), t) => Under(h, s, t)
<1> DEFINE h    == Programs[name]
           D    == Flows(h)
           step == [s \in D |-> FlowStep(h, s)]
           U    == Slots(h) \X Objs
           rank == [s \in D |-> Held(h, s)]
           L    == Limit(step, NoFlow(h))
           I(t) == {s \in D : Under(h, s, t)}
<1>0. WellFormed(h) /\ NoFlow(h) \in D
  BY ProgramsAssumption DEF NoFlow, Flows, Memory
<1>1. IsFiniteSet(U)
  BY <1>0, SlotsFinite
<1>2. step \in [D -> D]
  BY <1>0, FlowStepTyped
<1>3. \A s \in D : Under(h, s, s)
  BY DEF Under
<1>4. rank \in [D -> SUBSET U]
  BY DEF Held
<1>5. Grows(step, rank, D)
  <2>1. SUFFICES ASSUME NEW s \in D, step[s] # s
                 PROVE  rank[s] \subseteq rank[step[s]] /\ rank[s] # rank[step[s]]
    BY DEF Grows
  <2>2. FlowStep(h, s) \in D /\ step[s] = FlowStep(h, s)
    BY <1>0, FlowStepTyped
  <2>3. Under(h, s, FlowStep(h, s))
    BY <1>0, <1>3, FlowStepMonotone
  <2>4. ~Under(h, FlowStep(h, s), s)
    BY <2>1, <2>2, <2>3, BelowEqual
  <2> QED
    BY <2>2, <2>3, <2>4, HeldBelow
<1>6. ASSUME NEW t \in D, Under(h, FlowStep(h, t), t)
      PROVE  L \in I(t) /\ step[L] = L
  <2>1. I(t) \in SUBSET D /\ NoFlow(h) \in I(t)
    BY <1>0 DEF Under, NoFlow
  <2>2. Stays(step, I(t))
    <3>1. SUFFICES ASSUME NEW s \in I(t) PROVE step[s] \in I(t)
      BY DEF Stays
    <3>2. FlowStep(h, s) \in D /\ Under(h, FlowStep(h, s), FlowStep(h, t))
      BY <1>0, FlowStepTyped, FlowStepMonotone
    <3>3. Under(h, FlowStep(h, s), t)
      BY <1>6, <3>2 DEF Under
    <3> QED
      BY <3>2, <3>3
  <2> HIDE DEF step, rank, D, I, U
  <2> QED
    BY <1>1, <1>2, <1>4, <1>5, <2>1, <2>2, LimitFixed
<1>7. L \in D /\ step[L] = L
  <2>1. Stays(step, D) /\ D \in SUBSET D
    BY <1>2 DEF Stays
  <2> HIDE DEF step, rank, D, U
  <2> QED
    BY <1>0, <1>1, <1>2, <1>4, <1>5, <2>1, LimitFixed
<1>8. Solution[name] = L
  BY DEF Solution
<1> QED
  BY <1>6, <1>7, <1>8

\* The solution is closed under every statement and edge.
LEMMA SolutionClosed ==
    ASSUME NEW name \in DOMAIN Programs
    PROVE  LET h == Programs[name]
               s == Solution[name]
           IN  /\ s \in Flows(h)
               /\ \A v \in Vars : Gen(h, s, v) \subseteq s.pts[v]
               /\ \A n \in NodesOf(h), o \in Objs :
                     /\ Arrives(h, s, n, o) \subseteq s.in[n][o]
                     /\ n \in Stores(h) => Leaves(h, s, n, o) \subseteq s.out[n][o]
<1> DEFINE h == Programs[name]
           s == Solution[name]
<1>1. s \in Flows(h) /\ FlowStep(h, s) = s
  BY SolutionLeast
<1>2. /\ \A v \in Vars : s.pts[v] = s.pts[v] \cup Gen(h, s, v)
      /\ \A n \in NodesOf(h), o \in Objs :
            /\ s.in[n][o] = s.in[n][o] \cup Arrives(h, s, n, o)
            /\ s.out[n][o] = s.out[n][o] \cup (IF n \in Stores(h) THEN Leaves(h, s, n, o) ELSE {})
  BY <1>1, FlowStepFields
<1> QED
  BY <1>1, <1>2

-----------------------------------------------------------------------------
(***************************************************************************)
(* Andersen's points-to sets.                                              *)
(***************************************************************************)
AllPts  == [Vars \cup Objs -> SUBSET Objs]
Pointed(p) == {u \in (Vars \cup Objs) \X Objs : u[2] \in p[u[1]]}

LEMMA AndersenTyped ==
    ASSUME NEW h, WellFormed(h), NEW p \in AllPts
    PROVE  AndersenStep(h, p) \in AllPts /\ \A x \in Vars \cup Objs : p[x] \subseteq AndersenStep(h, p)[x]
<1> DEFINE cs     == Resolved(h, p)
           gen(x) ==
               UNION ( {{h.stmt[n].obj} : n \in {m \in OfKind(h, "addr") : h.stmt[m].dst = x}}
                  \cup {UNION {p[y] : y \in h.stmt[n].srcs} :
                           n \in {m \in OfKind(h, "copy") : h.stmt[m].dst = x}}
                  \cup {UNION {p[o] : o \in p[h.stmt[n].ptr]} :
                           n \in {m \in Loads(h) : h.stmt[m].dst = x}}
                  \cup {p[h.stmt[n].src] : n \in {m \in Stores(h) : x \in p[h.stmt[m].ptr]}}
                  \cup {p[h.stmt[e[1]].var] :
                           e \in {f \in ParamCopies(h, DirectOf(h, cs)) : h.stmt[f[2]].var = x}})
<1>1. \A n \in NodesOf(h) : Typed(h.stmt[n])
  BY DEF WellFormed
<1>2. DirectOf(h, cs) \subseteq NodesOf(h) \X NodesOf(h)
  BY DEF WellFormed, DirectOf, Resolved
<1>3. ASSUME NEW x PROVE gen(x) \subseteq Objs
  <2>1. \A n \in OfKind(h, "addr") : h.stmt[n].obj \in Objs
    BY <1>1 DEF OfKind, Typed
  <2>2. \A n \in OfKind(h, "copy") : h.stmt[n].srcs \subseteq Vars
    BY <1>1 DEF OfKind, Typed
  <2>3. \A n \in Loads(h) : h.stmt[n].ptr \in Vars
    BY <1>1 DEF OfKind, Typed, Loads
  <2>4. \A n \in Stores(h) : h.stmt[n].ptr \in Vars /\ h.stmt[n].src \in Vars
    BY <1>1 DEF OfKind, Typed, Stores
  <2>5. \A e \in ParamCopies(h, DirectOf(h, cs)) : h.stmt[e[1]].var \in Vars
    BY <1>1, <1>2 DEF ParamCopies, Typed
  <2>6. \A y \in Vars \cup Objs : p[y] \subseteq Objs
    BY DEF AllPts
  <2> HIDE DEF cs
  <2>7. \A n \in OfKind(h, "copy") : UNION {p[y] : y \in h.stmt[n].srcs} \subseteq Objs
    BY <2>2, <2>6
  <2>8. \A n \in Loads(h) : UNION {p[o] : o \in p[h.stmt[n].ptr]} \subseteq Objs
    BY <2>3, <2>6
  <2> QED
    BY <2>1, <2>4, <2>5, <2>6, <2>7, <2>8
<1>4. AndersenStep(h, p) = [x \in Vars \cup Objs |-> p[x] \cup gen(x)]
  BY DEF AndersenStep
<1> HIDE DEF gen
<1> QED
  BY <1>3, <1>4 DEF AllPts

\* Andersen's sets are in whatever the steps that compute them do not leave.
LEMMA AndersenStays ==
    ASSUME NEW name \in DOMAIN Programs, NEW I \in SUBSET AllPts, [x \in Vars \cup Objs |-> {}] \in I,
           \A p \in I : AndersenStep(Programs[name], p) \in I
    PROVE  /\ AndersenPts[name] \in I
           /\ AndersenStep(Programs[name], AndersenPts[name]) = AndersenPts[name]
<1> DEFINE h    == Programs[name]
           D    == AllPts
           step == [p \in D |-> AndersenStep(h, p)]
           U    == (Vars \cup Objs) \X Objs
           rank == [p \in D |-> Pointed(p)]
           none == [x \in Vars \cup Objs |-> {}]
<1>0. WellFormed(h)
  BY ProgramsAssumption
<1>1. IsFiniteSet(U)
  BY FS_Union, FS_Product, ProgramsAssumption
<1>2. step \in [D -> D] /\ rank \in [D -> SUBSET U] /\ none \in D
  BY <1>0, AndersenTyped DEF Pointed, AllPts
<1>3. Grows(step, rank, D)
  <2>1. SUFFICES ASSUME NEW p \in D, step[p] # p
                 PROVE  rank[p] \subseteq rank[step[p]] /\ rank[p] # rank[step[p]]
    BY DEF Grows
  <2> DEFINE q == AndersenStep(h, p)
  <2>2. step[p] = q /\ q \in D /\ \A x \in Vars \cup Objs : p[x] \subseteq q[x]
    BY <1>0, AndersenTyped
  <2> HIDE DEF q
  <2>3. PICK x \in Vars \cup Objs : p[x] # q[x]
    BY <2>1, <2>2 DEF AllPts
  <2>4. PICK o \in Objs : o \in q[x] /\ o \notin p[x]
    BY <2>2, <2>3 DEF AllPts
  <2>5. <<x, o>> \in Pointed(q) /\ <<x, o>> \notin Pointed(p)
    BY <2>4 DEF Pointed
  <2>6. Pointed(p) \subseteq Pointed(q)
    BY <2>2 DEF Pointed
  <2> QED
    BY <2>2, <2>5, <2>6
<1>4. I \in SUBSET D /\ none \in I /\ Stays(step, I)
  BY DEF Stays
<1>5. Limit(step, none) \in I /\ step[Limit(step, none)] = Limit(step, none)
  <2> HIDE DEF D, step, U, rank, none
  <2> QED
    BY <1>1, <1>2, <1>3, <1>4, LimitFixed
<1>6. AndersenPts[name] = Limit(step, none)
  BY DEF AndersenPts, AllPts
<1> QED
  BY <1>5, <1>6

LEMMA AndersenFixed ==
    ASSUME NEW name \in DOMAIN Programs
    PROVE  /\ AndersenPts[name] \in AllPts
           /\ AndersenStep(Programs[name], AndersenPts[name]) = AndersenPts[name]
<1>1. WellFormed(Programs[name])
  BY ProgramsAssumption
<1>2. [x \in Vars \cup Objs |-> {}] \in AllPts
  BY DEF AllPts
<1>3. \A p \in AllPts : AndersenStep(Programs[name], p) \in AllPts
  BY <1>1, AndersenTyped
<1> QED
  BY <1>2, <1>3, AndersenStays

\* The pointer to an address points to nothing else.
LEMMA AndersenOfAddress ==
    ASSUME NEW name \in DOMAIN Programs, NEW n \in OfKind(Programs[name], "addr")
    PROVE  AndersenPts[name][Programs[name].stmt[n].dst] \subseteq {Programs[name].stmt[n].obj}
<1> DEFINE h == Programs[name]
           v == h.stmt[n].dst
           o == h.stmt[n].obj
           I == {p \in AllPts : p[v] \subseteq {o}}
<1>1. WellFormed(h)
  BY ProgramsAssumption
<1>2. n \in NodesOf(h) /\ v \in Vars /\ v \notin Objs /\ v \in Defined(h.stmt[n])
  BY <1>1, ProgramsAssumption DEF OfKind, WellFormed, Typed, Defined
<1>3. ASSUME NEW m \in NodesOf(h), v \in Defined(h.stmt[m]) PROVE m = n
  BY <1>1, <1>2, <1>3 DEF WellFormed
<1>4. ASSUME NEW p \in I PROVE AndersenStep(h, p) \in I
  <2>1. p \in AllPts /\ AndersenStep(h, p) \in AllPts
    BY <1>1, <1>4, AndersenTyped
  <2>2. ASSUME NEW x \in AndersenStep(h, p)[v] PROVE x \in {o}
    <3> DEFINE ps == ParamCopies(h, DirectOf(h, Resolved(h, p)))
    <3>1. \/ x \in p[v]
          \/ \E m \in OfKind(h, "addr") : h.stmt[m].dst = v /\ x = h.stmt[m].obj
          \/ \E m \in OfKind(h, "copy") : h.stmt[m].dst = v
          \/ \E m \in Loads(h) : h.stmt[m].dst = v
          \/ \E m \in Stores(h) : v \in p[h.stmt[m].ptr]
          \/ \E e \in ps : h.stmt[e[2]].var = v
      BY <1>2, <2>2 DEF AndersenStep
    <3>2. \A m \in OfKind(h, "copy") \cup Loads(h) : h.stmt[m].dst # v
      BY <1>3 DEF OfKind, Loads, Defined
    <3>3. \A m \in Stores(h) : v \notin p[h.stmt[m].ptr]
      BY <1>1, <1>2, <2>1 DEF Stores, OfKind, WellFormed, Typed, AllPts
    <3>4. ASSUME NEW e \in ps, h.stmt[e[2]].var = v PROVE FALSE
      <4>1. Resolved(h, p) \in SUBSET h.calls
        BY DEF Resolved
      <4>2. e[2] \in NodesOf(h) /\ h.stmt[e[2]].kind = "formal"
        BY <1>1, <3>4, <4>1, FewerCalls DEF ParamCopies
      <4>3. v \in Defined(h.stmt[e[2]])
        BY <3>4, <4>2 DEF Defined
      <4> QED
        BY <1>3, <4>2, <4>3 DEF OfKind
    <3>5. \A m \in OfKind(h, "addr") : h.stmt[m].dst = v => m = n
      BY <1>3 DEF OfKind, Defined
    <3> QED
      BY <1>4, <3>1, <3>2, <3>3, <3>4, <3>5
  <2> QED
    BY <2>1, <2>2
<1>5. [x \in Vars \cup Objs |-> {}] \in I /\ I \in SUBSET AllPts
  BY <1>2 DEF AllPts
<1>6. AndersenPts[name] \in I
  <2> HIDE DEF I
  <2> QED
    BY <1>4, <1>5, AndersenStays
<1> QED
  BY <1>6

LEMMA AndersenCloses ==
    ASSUME NEW name \in DOMAIN Programs
    PROVE  LET h   == Programs[name]
               aux == AndersenPts[name]
           IN  /\ \A n \in OfKind(h, "addr") : h.stmt[n].obj \in aux[h.stmt[n].dst]
               /\ \A n \in OfKind(h, "copy") : \A w \in h.stmt[n].srcs : aux[w] \subseteq aux[h.stmt[n].dst]
               /\ \A n \in Loads(h) : \A o \in aux[h.stmt[n].ptr] : aux[o] \subseteq aux[h.stmt[n].dst]
               /\ \A n \in Stores(h) : \A o \in aux[h.stmt[n].ptr] : aux[h.stmt[n].src] \subseteq aux[o]
               /\ \A e \in ParamCopies(h, DirectOf(h, Resolved(h, aux))) :
                     aux[h.stmt[e[1]].var] \subseteq aux[h.stmt[e[2]].var]
<1> DEFINE p      == AndersenPts[name]
           h      == Programs[name]
           cs     == Resolved(h, p)
           one(x) == {{h.stmt[n].obj} : n \in {m \in OfKind(h, "addr") : h.stmt[m].dst = x}}
           two(x) == {UNION {p[y] : y \in h.stmt[n].srcs} : n \in {m \in OfKind(h, "copy") : h.stmt[m].dst = x}}
           three(x) == {UNION {p[o] : o \in p[h.stmt[n].ptr]} : n \in {m \in Loads(h) : h.stmt[m].dst = x}}
           four(x) == {p[h.stmt[n].src] : n \in {m \in Stores(h) : x \in p[h.stmt[m].ptr]}}
           five(x) == {p[h.stmt[e[1]].var] :
                           e \in {f \in ParamCopies(h, DirectOf(h, cs)) : h.stmt[f[2]].var = x}}
<1>1. \A x \in Vars \cup Objs : UNION (one(x) \cup two(x) \cup three(x) \cup four(x) \cup five(x)) \subseteq p[x]
  <2> DEFINE gen(x) == UNION (one(x) \cup two(x) \cup three(x) \cup four(x) \cup five(x))
  <2>1. AndersenStep(h, p) = [x \in Vars \cup Objs |-> p[x] \cup gen(x)]
    BY DEF AndersenStep
  <2>2. AndersenStep(h, p) = p
    BY AndersenFixed
  <2> HIDE DEF gen, p, h
  <2>3. \A x \in Vars \cup Objs : gen(x) \subseteq p[x]
    BY <2>1, <2>2
  <2> QED
    BY <2>3 DEF gen
<1>2. \A n \in NodesOf(h) : Typed(h.stmt[n])
  BY ProgramsAssumption DEF WellFormed
<1>3. \A x \in Vars \cup Objs : p[x] \subseteq Objs
  BY AndersenFixed DEF AllPts
<1>4. DirectOf(h, cs) \subseteq NodesOf(h) \X NodesOf(h)
  <2>1. cs \subseteq h.calls
    BY DEF Resolved
  <2> QED
    BY <2>1, ProgramsAssumption DEF WellFormed, DirectOf
<1>5. /\ \A n \in OfKind(h, "addr") : h.stmt[n].dst \in Vars
      /\ \A n \in OfKind(h, "copy") : h.stmt[n].dst \in Vars /\ h.stmt[n].srcs \subseteq Vars
      /\ \A n \in Loads(h) : h.stmt[n].dst \in Vars /\ h.stmt[n].ptr \in Vars
      /\ \A n \in Stores(h) : h.stmt[n].ptr \in Vars /\ h.stmt[n].src \in Vars
      /\ \A e \in ParamCopies(h, DirectOf(h, cs)) : h.stmt[e[1]].var \in Vars /\ h.stmt[e[2]].var \in Vars
  <2>1. /\ \A n \in OfKind(h, "addr") : h.stmt[n].dst \in Vars
        /\ \A n \in OfKind(h, "copy") : h.stmt[n].dst \in Vars /\ h.stmt[n].srcs \subseteq Vars
        /\ \A n \in Loads(h) : h.stmt[n].dst \in Vars /\ h.stmt[n].ptr \in Vars
        /\ \A n \in Stores(h) : h.stmt[n].ptr \in Vars /\ h.stmt[n].src \in Vars
    BY <1>2 DEF OfKind, Loads, Stores, Typed
  <2>2. \A e \in ParamCopies(h, DirectOf(h, cs)) : h.stmt[e[1]].var \in Vars /\ h.stmt[e[2]].var \in Vars
    BY <1>2, <1>4 DEF ParamCopies, Typed
  <2> QED
    BY <2>1, <2>2
<1> HIDE DEF p, h, cs
<1>6. \A n \in OfKind(h, "addr") : h.stmt[n].obj \in p[h.stmt[n].dst]
  BY <1>1, <1>5
<1>7. ASSUME NEW n \in OfKind(h, "copy"), NEW w \in h.stmt[n].srcs PROVE p[w] \subseteq p[h.stmt[n].dst]
  <2>1. UNION {p[y] : y \in h.stmt[n].srcs} \in two(h.stmt[n].dst)
    OBVIOUS
  <2>2. UNION {p[y] : y \in h.stmt[n].srcs} \subseteq p[h.stmt[n].dst]
    BY <1>1, <1>5, <2>1
  <2> QED
    BY <2>2
<1>8. ASSUME NEW n \in Loads(h), NEW o \in p[h.stmt[n].ptr] PROVE p[o] \subseteq p[h.stmt[n].dst]
  <2>1. UNION {p[y] : y \in p[h.stmt[n].ptr]} \in three(h.stmt[n].dst)
    OBVIOUS
  <2>2. UNION {p[y] : y \in p[h.stmt[n].ptr]} \subseteq p[h.stmt[n].dst]
    BY <1>1, <1>5, <2>1
  <2> QED
    BY <2>2
<1>9. \A n \in Stores(h) : \A o \in p[h.stmt[n].ptr] : p[h.stmt[n].src] \subseteq p[o]
  BY <1>1, <1>3, <1>5
<1>10. \A e \in ParamCopies(h, DirectOf(h, cs)) : p[h.stmt[e[1]].var] \subseteq p[h.stmt[e[2]].var]
  BY <1>1, <1>5
<1> QED
  BY <1>6, <1>7, <1>8, <1>9, <1>10 DEF p, h, cs

\* Nothing within Andersen's sets computes more than they hold.
LEMMA AndersenFlows ==
    ASSUME NEW name \in DOMAIN Programs, NEW t, \A v \in Vars : t.pts[v] \subseteq AndersenPts[name][v],
           \A n \in NodesOf(Programs[name]), o \in Objs :
              t.in[n][o] \subseteq AndersenPts[name][o] /\ t.out[n][o] \subseteq AndersenPts[name][o]
    PROVE  LET h   == Programs[name]
               aux == AndersenPts[name]
           IN  /\ \A v \in Vars : Gen(h, t, v) \subseteq aux[v]
               /\ \A n \in NodesOf(h), o \in Objs : Arrives(h, t, n, o) \subseteq aux[o]
               /\ \A n \in Stores(h), o \in Objs : Leaves(h, t, n, o) \subseteq aux[o]
<1> DEFINE h   == Programs[name]
           aux == AndersenPts[name]
<1>0. WellFormed(h)
  BY ProgramsAssumption
<1>1. \A x \in Vars \cup Objs : aux[x] \subseteq Objs
  BY AndersenFixed DEF AllPts
<1>3. \A n \in NodesOf(h) : Typed(h.stmt[n])
  BY <1>0 DEF WellFormed
<1>4. Resolved(h, t.pts) \subseteq Resolved(h, aux) /\ Resolved(h, aux) \subseteq h.calls
  BY <1>0 DEF WellFormed, Resolved
<1>5. ASSUME NEW v \in Vars, NEW x \in Gen(h, t, v) PROVE x \in aux[v]
  <2>1. CASE \E n \in OfKind(h, "addr") : h.stmt[n].dst = v /\ h.stmt[n].obj = x
    BY <2>1, AndersenCloses
  <2>2. CASE \E n \in OfKind(h, "copy") : h.stmt[n].dst = v /\ \E w \in h.stmt[n].srcs : x \in t.pts[w]
    <3>1. PICK n \in OfKind(h, "copy") : h.stmt[n].dst = v /\ \E w \in h.stmt[n].srcs : x \in t.pts[w]
      BY <2>2
    <3>2. h.stmt[n].srcs \subseteq Vars
      BY <1>3 DEF OfKind, Typed
    <3> QED
      BY <3>1, <3>2, AndersenCloses
  <2>3. CASE \E n \in Loads(h) : h.stmt[n].dst = v /\ \E o \in t.pts[h.stmt[n].ptr] : x \in t.in[n][o]
    <3>1. PICK n \in Loads(h) : h.stmt[n].dst = v /\ \E o \in t.pts[h.stmt[n].ptr] : x \in t.in[n][o]
      BY <2>3
    <3>2. n \in NodesOf(h) /\ h.stmt[n].ptr \in Vars
      BY <1>3 DEF Loads, OfKind, Typed
    <3>3. PICK o \in aux[h.stmt[n].ptr] : x \in t.in[n][o]
      BY <3>1, <3>2
    <3>4. o \in Objs
      BY <1>1, <3>2
    <3> QED
      BY <3>1, <3>2, <3>3, <3>4, AndersenCloses
  <2>4. CASE \E e \in ParamCopies(h, DirectOf(h, Resolved(h, t.pts))) :
                h.stmt[e[2]].var = v /\ x \in t.pts[h.stmt[e[1]].var]
    <3>1. PICK e \in ParamCopies(h, DirectOf(h, Resolved(h, t.pts))) :
                h.stmt[e[2]].var = v /\ x \in t.pts[h.stmt[e[1]].var]
      BY <2>4
    <3>2. e \in ParamCopies(h, DirectOf(h, Resolved(h, aux)))
      BY <1>4, <3>1 DEF ParamCopies, DirectOf
    <3>3. e[1] \in NodesOf(h) /\ h.stmt[e[1]].kind = "actual"
      <4>1. DirectOf(h, Resolved(h, aux)) \subseteq NodesOf(h) \X NodesOf(h)
        BY <1>0, <1>4 DEF WellFormed, DirectOf
      <4> QED
        BY <3>2, <4>1 DEF ParamCopies
    <3>4. h.stmt[e[1]].var \in Vars
      BY <1>3, <3>3 DEF Typed
    <3> QED
      BY <3>1, <3>2, <3>4, AndersenCloses
  <2> QED
    BY <1>5, <2>1, <2>2, <2>3, <2>4 DEF Gen
<1>6. ASSUME NEW n \in NodesOf(h), NEW o \in Objs, NEW x \in Arrives(h, t, n, o) PROVE x \in aux[o]
  <2>1. PICK e \in IndirectOf(h, Resolved(h, t.pts)) : e[2] = n /\ e[3] = o /\ x \in Exit(h, t, e[1], o)
    BY <1>6 DEF Arrives
  <2>2. e[1] \in NodesOf(h)
    BY <1>0, <1>4, <2>1 DEF WellFormed, IndirectOf
  <2> QED
    BY <2>1, <2>2 DEF Exit
<1>7. ASSUME NEW n \in Stores(h), NEW o \in Objs PROVE Leaves(h, t, n, o) \subseteq aux[o]
  <2>1. n \in NodesOf(h) /\ h.stmt[n].ptr \in Vars /\ h.stmt[n].src \in Vars
    BY <1>3 DEF Stores, OfKind, Typed
  <2>2. o \in aux[h.stmt[n].ptr] => aux[h.stmt[n].src] \subseteq aux[o]
    BY AndersenCloses
  <2> QED
    BY <2>1, <2>2 DEF Leaves
<1> QED
  BY <1>5, <1>6, <1>7

\* The flow that ignores the order of statements holds what Andersen's analysis says.
LEMMA SolutionUnderAndersen ==
    ASSUME NEW name \in DOMAIN Programs
    PROVE  LET h   == Programs[name]
               s   == Solution[name]
               aux == AndersenPts[name]
           IN  /\ \A v \in Vars : s.pts[v] \subseteq aux[v]
               /\ \A n \in NodesOf(h), o \in Objs : s.in[n][o] \subseteq aux[o] /\ s.out[n][o] \subseteq aux[o]
<1> DEFINE h   == Programs[name]
           aux == AndersenPts[name]
           t == [pts |-> [v \in Vars |-> aux[v]],
                 in  |-> [n \in NodesOf(h) |-> [o \in Objs |-> aux[o]]],
                 out |-> [n \in NodesOf(h) |-> [o \in Objs |-> aux[o]]]]
<1>0. WellFormed(h)
  BY ProgramsAssumption
<1>1. \A x \in Vars \cup Objs : aux[x] \subseteq Objs
  BY AndersenFixed DEF AllPts
<1>2. /\ t \in Flows(h)
      /\ \A v \in Vars : t.pts[v] = aux[v]
      /\ \A n \in NodesOf(h), o \in Objs : t.in[n][o] = aux[o] /\ t.out[n][o] = aux[o]
  <2> DEFINE p == [v \in Vars |-> aux[v]]
             m == [n \in NodesOf(h) |-> [o \in Objs |-> aux[o]]]
  <2>1. /\ p \in [Vars -> SUBSET Objs] /\ \A v \in Vars : p[v] = aux[v]
        /\ m \in Memory(h) /\ \A n \in NodesOf(h), o \in Objs : m[n][o] = aux[o]
    BY <1>1 DEF Memory
  <2>2. t = [pts |-> p, in |-> m, out |-> m]
    OBVIOUS
  <2> HIDE DEF p, m, t
  <2> QED
    BY <2>1, <2>2 DEF Flows
<1> HIDE DEF t
<1>3. /\ \A v \in Vars : Gen(h, t, v) \subseteq aux[v]
      /\ \A n \in NodesOf(h), o \in Objs : Arrives(h, t, n, o) \subseteq aux[o]
      /\ \A n \in Stores(h), o \in Objs : Leaves(h, t, n, o) \subseteq aux[o]
  BY <1>2, AndersenFlows
<1>4. Under(h, FlowStep(h, t), t)
  <2>1. \A v \in Vars : FlowStep(h, t).pts[v] \subseteq t.pts[v]
    BY <1>2, <1>3, FlowStepFields
  <2>2. \A n \in NodesOf(h), o \in Objs : FlowStep(h, t).in[n][o] \subseteq t.in[n][o]
    BY <1>2, <1>3, FlowStepFields
  <2>3. \A n \in NodesOf(h), o \in Objs : FlowStep(h, t).out[n][o] \subseteq t.out[n][o]
    BY <1>2, <1>3, FlowStepFields
  <2> QED
    BY <2>1, <2>2, <2>3 DEF Under
<1>5. Under(h, Solution[name], t)
  BY <1>2, <1>4, SolutionLeast
<1> QED
  BY <1>2, <1>5 DEF Under
=============================================================================
