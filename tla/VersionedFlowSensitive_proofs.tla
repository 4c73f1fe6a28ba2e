-------------------- MODULE VersionedFlowSensitive_proofs --------------------
(***************************************************************************)
(* What the flow-sensitive analyses compute, for any program.              *)
(***************************************************************************)
EXTENDS VersionedFlowSensitive, ValueFlowProblem_proofs

-----------------------------------------------------------------------------
(***************************************************************************)
(* The helpers of a step: what they add, and to what.                      *)
(***************************************************************************)
Sets      == [Vars -> SUBSET Objs]
Flags     == [NodesOf(g) -> SUBSET Objs]
Tables    == [in : Memory(g), out : Memory(g), inNew : Flags, outNew : Flags]
Formal(m) == Stmt(m).kind = "formal"

FlowType ==
    /\ prog \in DOMAIN Programs /\ incremental \in BOOLEAN
    /\ pts \in Sets /\ df \in Tables
    /\ called \in SUBSET g.calls /\ called \subseteq Resolved(g, pts)
    /\ direct = DirectOf(g, called)
    /\ worklist \subseteq NodesOf(g)

LEMMA ProgramFormed == FlowType => WellFormed(g)
BY ProgramsAssumption DEF FlowType, g

LEMMA DirectFormed ==
    ASSUME FlowType
    PROVE  /\ direct \subseteq NodesOf(g) \X NodesOf(g)
           /\ \A e \in direct : Stmt(e[1]).kind = "actual" => Formal(e[2])
           /\ \A n, m \in NodesOf(g) : Defined(Stmt(n)) \cap Used(Stmt(m)) # {} => <<n, m>> \in direct
<1>1. WellFormed(g)
  BY ProgramFormed
<1>2. g.direct \subseteq direct
  BY DEF FlowType, DirectOf
<1> QED
  BY <1>1, <1>2, FewerCalls DEF FlowType, WellFormed, Formal, Stmt

LEMMA NodeKinds ==
    ASSUME FlowType, NEW n \in NodesOf(g)
    PROVE  /\ Typed(Stmt(n))
           /\ Stmt(n).kind \in {"addr", "copy", "load", "store", "actual", "formal", "mssa"}
<1>1. Typed(Stmt(n))
  BY ProgramFormed DEF WellFormed, Stmt
<1> QED
  BY <1>1 DEF Typed

LEMMA PassOnAdds ==
    ASSUME FlowType, NEW n \in NodesOf(g), NEW p \in Sets
    PROVE  LET top == PassOn(n, p)
           IN  /\ top.pts \in Sets /\ top.push \subseteq NodesOf(g)
               /\ \A v \in Vars : p[v] \subseteq top.pts[v]
               /\ Stmt(n).kind # "actual" =>
                     top.pts = p /\ \A m \in NodesOf(g) : <<n, m>> \in direct => m \in top.push
               /\ Stmt(n).kind = "actual" =>
                     /\ \A m \in NodesOf(g) : <<n, m>> \in direct => p[Stmt(n).var] \subseteq top.pts[Stmt(m).var]
                     /\ \A v \in Vars : top.pts[v] # p[v] =>
                           /\ top.pts[v] = p[v] \cup p[Stmt(n).var]
                           /\ \E m \in top.push : <<n, m>> \in direct /\ Formal(m) /\ Stmt(m).var = v
<1> DEFINE succ    == {e[2] : e \in {f \in direct : f[1] = n}}
           grown   == {m \in succ : ~(p[Stmt(n).var] \subseteq p[Stmt(m).var])}
           formals == {Stmt(m).var : m \in grown}
<1>1. /\ \A m \in NodesOf(g) : <<n, m>> \in direct <=> m \in succ
      /\ succ \subseteq NodesOf(g)
  BY DirectFormed
<1>2. CASE Stmt(n).kind # "actual"
  BY <1>1, <1>2 DEF PassOn
<1>3. CASE Stmt(n).kind = "actual"
  <2>1. Stmt(n).var \in Vars
    BY <1>3, NodeKinds DEF Typed
  <2>2. \A m \in succ : Formal(m) /\ Stmt(m).var \in Vars
    BY <1>1, <1>3, DirectFormed, NodeKinds DEF Typed, Formal
  <2>3. /\ PassOn(n, p).push = grown
        /\ PassOn(n, p).pts = [v \in Vars |-> p[v] \cup (IF v \in formals THEN p[Stmt(n).var] ELSE {})]
    BY <1>3 DEF PassOn
  <2>4. ASSUME NEW v \in Vars, PassOn(n, p).pts[v] # p[v]
        PROVE  /\ PassOn(n, p).pts[v] = p[v] \cup p[Stmt(n).var]
               /\ \E m \in grown : <<n, m>> \in direct /\ Formal(m) /\ Stmt(m).var = v
    <3>1. v \in formals
      BY <2>3, <2>4
    <3> QED
      BY <1>1, <2>2, <2>3, <3>1
  <2>5. ASSUME NEW m \in succ PROVE p[Stmt(n).var] \subseteq PassOn(n, p).pts[Stmt(m).var]
    BY <2>2, <2>3
  <2>6. PassOn(n, p).pts \in Sets /\ \A v \in Vars : p[v] \subseteq PassOn(n, p).pts[v]
    BY <2>1, <2>3 DEF Sets
  <2>7. grown \subseteq NodesOf(g)
    BY <1>1
  <2> HIDE DEF succ, grown
  <2> QED
    BY <1>1, <1>3, <2>3, <2>4, <2>5, <2>6, <2>7
<1> QED
  BY <1>2, <1>3

LEMMA UpdateInAdds ==
    ASSUME FlowType, NEW d \in Tables, NEW es \in SUBSET (NodesOf(g) \X NodesOf(g) \X Objs)
    PROVE  LET r == UpdateIn(d, es)
           IN  /\ r.df \in Tables /\ r.push \subseteq NodesOf(g)
               /\ r.df.out = d.out /\ r.df.outNew = d.outNew
               /\ \A e \in es : Exit(g, d, e[1], e[3]) \subseteq r.df.in[e[2]][e[3]]
               /\ \A m \in NodesOf(g) : d.inNew[m] \subseteq r.df.inNew[m]
               /\ \A m \in NodesOf(g), o \in Objs :
                     /\ d.in[m][o] \subseteq r.df.in[m][o]
                     /\ \A x \in r.df.in[m][o] \ d.in[m][o] :
                           \E e \in es : e[2] = m /\ e[3] = o /\ x \in Exit(g, d, e[1], o)
                     /\ r.df.in[m][o] # d.in[m][o] => m \in r.push /\ o \in r.df.inNew[m]
<1> DEFINE r         == UpdateIn(d, es)
           add(m, o) == UNION {Exit(g, d, e[1], o) : e \in {f \in es : f[2] = m /\ f[3] = o}}
           grown     == {e \in es : ~(Exit(g, d, e[1], e[3]) \subseteq d.in[e[2]][e[3]])}
           push      == {e[2] : e \in grown}
           in        == [m \in NodesOf(g) |-> IF m \in push THEN [o \in Objs |-> d.in[m][o] \cup add(m, o)]
                                              ELSE d.in[m]]
           inNew     == [m \in NodesOf(g) |-> IF m \in push
                            THEN d.inNew[m] \cup {e[3] : e \in {f \in grown : f[2] = m}}
                            ELSE d.inNew[m]]
<1>1. r.push = push /\ r.df = [d EXCEPT !.in = in, !.inNew = inNew]
  BY DEF UpdateIn
<1>2. /\ r.df.in = in /\ r.df.inNew = inNew /\ r.df.out = d.out /\ r.df.outNew = d.outNew
      /\ in \in Memory(g) /\ inNew \in Flags => r.df \in Tables
  BY <1>1 DEF Tables
<1>3. ASSUME NEW n \in NodesOf(g), NEW o \in Objs PROVE Exit(g, d, n, o) \subseteq Objs
  BY DEF Exit, Tables, Memory
<1>4. ASSUME NEW m \in NodesOf(g), NEW o \in Objs PROVE add(m, o) \subseteq Objs
  BY <1>3
<1>5. in \in Memory(g)
  BY <1>4 DEF Memory, Tables
<1>6. inNew \in Flags
  BY DEF Flags, Tables
<1>7. push \subseteq NodesOf(g)
  OBVIOUS
<1>8. ASSUME NEW e \in es PROVE Exit(g, d, e[1], e[3]) \subseteq in[e[2]][e[3]]
  <2>1. e[2] \in NodesOf(g) /\ e[3] \in Objs
    OBVIOUS
  <2>2. CASE e[2] \in push
    <3>1. Exit(g, d, e[1], e[3]) \subseteq add(e[2], e[3])
      OBVIOUS
    <3> QED
      BY <2>1, <2>2, <3>1
  <2>3. CASE e[2] \notin push
    BY <2>1, <2>3
  <2> QED
    BY <2>2, <2>3
<1>9. ASSUME NEW m \in NodesOf(g), NEW o \in Objs
      PROVE  /\ d.in[m][o] \subseteq in[m][o]
             /\ \A x \in in[m][o] \ d.in[m][o] :
                   \E e \in es : e[2] = m /\ e[3] = o /\ x \in Exit(g, d, e[1], o)
             /\ in[m][o] # d.in[m][o] => m \in push /\ o \in inNew[m]
  <2>1. CASE m \notin push
    BY <2>1
  <2>2. CASE m \in push
    <3>1. in[m][o] = d.in[m][o] \cup add(m, o)
      BY <2>2
    <3>2. ASSUME in[m][o] # d.in[m][o] PROVE o \in inNew[m]
      <4>0. PICK x \in add(m, o) : x \notin d.in[m][o]
        <5> HIDE DEF add, in
        <5> QED
          BY <3>1, <3>2
      <4>1. PICK e \in es : e[2] = m /\ e[3] = o /\ x \in Exit(g, d, e[1], o)
        BY <4>0
      <4>2. e \in grown
        BY <4>0, <4>1
      <4> QED
        BY <2>2, <4>1, <4>2
    <3> QED
      BY <2>2, <3>1, <3>2
  <2> QED
    BY <2>1, <2>2
<1>10. \A m \in NodesOf(g) : d.inNew[m] \subseteq inNew[m]
  OBVIOUS
<1> HIDE DEF r, add, push, in, inNew, grown
<1> QED
  BY <1>1, <1>2, <1>5, <1>6, <1>7, <1>8, <1>9, <1>10 DEF r

\* What processSVFGNode leaves alone and what it adds.
Adds(n, r) ==
    /\ r.pts \in Sets /\ r.df \in Tables /\ r.changed \in BOOLEAN
    /\ r.df.in = df.in
    /\ \A m \in NodesOf(g) \ {n} : /\ r.df.out[m] = df.out[m]
                                   /\ r.df.inNew[m] = df.inNew[m]
                                   /\ r.df.outNew[m] = df.outNew[m]
    /\ \A v \in Vars : pts[v] \subseteq r.pts[v]
    /\ \A v \in Vars : r.pts[v] # pts[v] =>
          r.changed /\ v \in Defined(Stmt(n)) /\ Stmt(n).kind \in {"addr", "copy", "load"}
    /\ \A o \in Objs : /\ df.out[n][o] \subseteq r.df.out[n][o]
                       /\ r.df.out[n][o] # df.out[n][o] =>
                             r.changed /\ IsStore(n) /\ o \in r.df.outNew[n]
    /\ Stmt(n).kind \notin {"addr", "copy", "load", "store"} =>
          r.pts = pts /\ r.df = df /\ r.changed

\* What it leaves to do.
Settles(n, r) ==
    /\ Stmt(n).kind = "addr" => Stmt(n).obj \in r.pts[Stmt(n).dst]
    /\ Stmt(n).kind = "copy" => \A w \in Stmt(n).srcs : pts[w] \subseteq r.pts[Stmt(n).dst]
    /\ Stmt(n).kind = "load" =>
          /\ \A o \in pts[Stmt(n).ptr] : HasNew(df.inNew, n, o) => df.in[n][o] \subseteq r.pts[Stmt(n).dst]
          /\ \A o \in df.inNew[n] \ r.df.inNew[n] : df.in[n][o] \subseteq r.pts[Stmt(n).dst]
    /\ Stmt(n).kind = "store" =>
          /\ \A o \in pts[Stmt(n).ptr] : pts[Stmt(n).src] \subseteq r.df.out[n][o]
          /\ \A o \in Objs : pts[Stmt(n).ptr] # {} /\ HasNew(df.inNew, n, o) /\ ~IsStrongUpdate(n, o) =>
                df.in[n][o] \subseteq r.df.out[n][o]
          /\ \A o \in df.inNew[n] \ r.df.inNew[n] : df.in[n][o] \subseteq r.df.out[n][o]
    /\ Stmt(n).kind \notin {"load", "store"} => r.df = df

LEMMA DefineAdds ==
    ASSUME FlowType, NEW n \in NodesOf(g), NEW v \in Vars, NEW add \in SUBSET Objs,
           Defined(Stmt(n)) = {v}, Stmt(n).kind \in {"addr", "copy", "load"}
    PROVE  LET r == Define(v, add)
           IN  Adds(n, r) /\ r.df = df /\ r.pts[v] = pts[v] \cup add
<1> DEFINE r == Define(v, add)
<1>1. r = [pts |-> [pts EXCEPT ![v] = @ \cup add], df |-> df, changed |-> ~(add \subseteq pts[v])]
  BY DEF Define
<1>2. pts \in Sets /\ df \in Tables
  BY DEF FlowType
<1>3. r.pts \in Sets /\ r.pts[v] = pts[v] \cup add /\ \A w \in Vars \ {v} : r.pts[w] = pts[w]
  BY <1>1, <1>2 DEF Sets
<1>4. r.df = df /\ r.changed = ~(add \subseteq pts[v])
  <2> DEFINE new == [pts EXCEPT ![v] = @ \cup add]
             c   == ~(add \subseteq pts[v])
  <2>1. r = [pts |-> new, df |-> df, changed |-> c]
    BY <1>1
  <2> HIDE DEF new, c, r
  <2>2. r.df = df /\ r.changed = c
    BY <2>1
  <2> QED
    BY <2>2 DEF c
<1>5. r.changed \in BOOLEAN
  BY <1>4
<1>6. \A w \in Vars : r.pts[w] # pts[w] => r.changed
  BY <1>3, <1>4
<1> HIDE DEF r
<1> QED
  BY <1>2, <1>3, <1>4, <1>5, <1>6 DEF Adds, r

LEMMA StoreAdds ==
    ASSUME FlowType, NEW n \in NodesOf(g), IsStore(n)
    PROVE  Adds(n, ProcessStore(n)) /\ Settles(n, ProcessStore(n))
<1> DEFINE to     == pts[Stmt(n).ptr]
           passed == {o \in Objs : HasNew(df.inNew, n, o) /\ ~IsStrongUpdate(n, o)}
           out    == [o \in Objs |-> df.out[n][o]
                                     \cup (IF o \in to THEN pts[Stmt(n).src] ELSE {})
                                     \cup (IF o \in passed THEN df.in[n][o] ELSE {})]
           grown  == {o \in Objs : out[o] # df.out[n][o]}
           r      == ProcessStore(n)
<1>1. /\ Stmt(n).ptr \in Vars /\ Stmt(n).src \in Vars
      /\ to \subseteq Objs /\ pts[Stmt(n).src] \subseteq Objs
  BY NodeKinds DEF IsStore, Typed, FlowType, Sets
<1>2. df \in Tables /\ pts \in Sets
  BY DEF FlowType
<1>3. CASE to = {}
  <2>1. r = [pts |-> pts, df |-> df, changed |-> FALSE]
    BY <1>3 DEF ProcessStore, Unchanged
  <2> QED
    BY <1>2, <1>3, <2>1 DEF Adds, Settles, IsStore
<1>4. CASE to # {}
  <2>1. /\ r.pts = pts /\ r.changed = (grown # {})
        /\ r.df = [df EXCEPT !.out[n] = out, !.outNew[n] = @ \cup grown, !.inNew[n] = @ \ passed]
    BY <1>4 DEF ProcessStore
  <2>2. out \in [Objs -> SUBSET Objs]
    BY <1>1, <1>2 DEF Tables, Memory
  <2>3. /\ r.df \in Tables /\ r.df.in = df.in
        /\ r.df.out = [df.out EXCEPT ![n] = out]
        /\ r.df.outNew = [df.outNew EXCEPT ![n] = @ \cup grown]
        /\ r.df.inNew = [df.inNew EXCEPT ![n] = @ \ passed]
    <3> DEFINE o1 == [df.out EXCEPT ![n] = out]
               o2 == [df.outNew EXCEPT ![n] = @ \cup grown]
               o3 == [df.inNew EXCEPT ![n] = @ \ passed]
    <3>1. o1 \in Memory(g) /\ o2 \in Flags /\ o3 \in Flags
      <4>1. grown \subseteq Objs /\ df.outNew \in Flags /\ df.inNew \in Flags /\ df.out \in Memory(g)
        BY <1>2 DEF Tables
      <4> HIDE DEF out, grown, passed
      <4> QED
        BY <2>2, <4>1 DEF Memory, Flags
    <3>2. r.df = [df EXCEPT !.out = o1, !.outNew = o2, !.inNew = o3]
      <4> HIDE DEF out, grown, passed, r
      <4> QED
        BY <2>1, <1>2 DEF Tables
    <3> HIDE DEF o1, o2, o3, r, out, grown, passed
    <3>3. r.df \in Tables /\ r.df.in = df.in /\ r.df.out = o1 /\ r.df.outNew = o2 /\ r.df.inNew = o3
      BY <1>2, <3>1, <3>2 DEF Tables
    <3> QED
      BY <3>3 DEF o1, o2, o3
  <2>4. /\ r.df.out[n] = out /\ r.df.outNew[n] = df.outNew[n] \cup grown
        /\ r.df.inNew[n] = df.inNew[n] \ passed
        /\ \A m \in NodesOf(g) \ {n} : /\ r.df.out[m] = df.out[m]
                                       /\ r.df.inNew[m] = df.inNew[m]
                                       /\ r.df.outNew[m] = df.outNew[m]
    BY <1>2, <2>3 DEF Tables, Memory, Flags
  <2>5. Adds(n, r)
    <3>1. \A o \in Objs : df.out[n][o] \subseteq out[o] /\ (out[o] # df.out[n][o] => o \in grown)
      OBVIOUS
    <3>2. Stmt(n).kind = "store" /\ r.changed \in BOOLEAN /\ (r.changed <=> grown # {})
      BY <2>1 DEF IsStore
    <3>3. \A o \in Objs : /\ df.out[n][o] \subseteq r.df.out[n][o]
                          /\ r.df.out[n][o] # df.out[n][o] => r.changed /\ o \in r.df.outNew[n]
      <4> HIDE DEF r, out, grown
      <4> QED
        BY <2>4, <3>1, <3>2
    <3>4. r.pts = pts
      BY <2>1
    <3> HIDE DEF r, to, passed, out, grown
    <3> QED
      BY <1>2, <2>3, <2>4, <3>2, <3>3, <3>4 DEF Adds, IsStore
  <2>6. Settles(n, r)
    <3> HIDE DEF r
    <3>1. df.inNew[n] \ r.df.inNew[n] \subseteq passed
      BY <2>4
    <3>2. \A o \in Objs : o \in to => pts[Stmt(n).src] \subseteq r.df.out[n][o]
      BY <2>4
    <3>3. \A o \in Objs : o \in passed => df.in[n][o] \subseteq r.df.out[n][o]
      BY <2>4
    <3> QED
      BY <1>1, <3>1, <3>2, <3>3 DEF Settles, IsStore
  <2> QED
    BY <2>5, <2>6
<1> QED
  BY <1>3, <1>4

LEMMA ProcessAdds ==
    ASSUME FlowType, NEW n \in NodesOf(g)
    PROVE  Adds(n, ProcessSVFGNode(n)) /\ Settles(n, ProcessSVFGNode(n))
<1>1. pts \in Sets /\ df \in Tables /\ Typed(Stmt(n))
  BY NodeKinds DEF FlowType
<1>2. CASE Stmt(n).kind = "addr"
  <2>1. Stmt(n).dst \in Vars /\ {Stmt(n).obj} \in SUBSET Objs /\ Defined(Stmt(n)) = {Stmt(n).dst}
    BY <1>1, <1>2 DEF Typed, Defined
  <2>2. ProcessSVFGNode(n) = Define(Stmt(n).dst, {Stmt(n).obj})
    BY <1>2 DEF ProcessSVFGNode, ProcessTopLevel
  <2> QED
    BY <1>2, <2>1, <2>2, DefineAdds DEF Settles
<1>3. CASE Stmt(n).kind = "copy"
  <2> DEFINE add == UNION {pts[v] : v \in Stmt(n).srcs}
  <2>1. Stmt(n).dst \in Vars /\ add \in SUBSET Objs /\ Defined(Stmt(n)) = {Stmt(n).dst}
    BY <1>1, <1>3 DEF Typed, Defined, Sets
  <2>2. ProcessSVFGNode(n) = Define(Stmt(n).dst, add)
    BY <1>3 DEF ProcessSVFGNode, ProcessTopLevel
  <2>3. \A w \in Stmt(n).srcs : pts[w] \subseteq add
    OBVIOUS
  <2> HIDE DEF add
  <2> QED
    BY <1>3, <2>1, <2>2, <2>3, DefineAdds DEF Settles
<1>4. CASE Stmt(n).kind = "load"
  <2> DEFINE from == {o \in pts[Stmt(n).ptr] : HasNew(df.inNew, n, o)}
             add  == UNION {df.in[n][o] : o \in from}
             d    == Define(Stmt(n).dst, add)
             r    == ProcessSVFGNode(n)
  <2>1. /\ Stmt(n).dst \in Vars /\ Stmt(n).ptr \in Vars /\ Defined(Stmt(n)) = {Stmt(n).dst}
        /\ from \subseteq Objs
    BY <1>1, <1>4 DEF Typed, Defined, Sets
  <2>2. add \in SUBSET Objs
    BY <1>1, <2>1 DEF Tables, Memory
  <2>3. Adds(n, d) /\ d.df = df /\ d.pts[Stmt(n).dst] = pts[Stmt(n).dst] \cup add
    <3> HIDE DEF add
    <3> QED
      BY <1>4, <2>1, <2>2, DefineAdds
  <2>4. /\ r.pts = d.pts /\ r.changed = d.changed
        /\ r.df = [df EXCEPT !.inNew[n] = @ \ from]
    BY <1>4 DEF ProcessSVFGNode, ProcessLoad, Define
  <2>5. /\ r.df \in Tables /\ r.df.in = df.in /\ r.df.out = df.out /\ r.df.outNew = df.outNew
        /\ r.df.inNew = [df.inNew EXCEPT ![n] = @ \ from]
    BY <1>1, <2>4 DEF Tables, Flags
  <2>6. /\ r.df.inNew[n] = df.inNew[n] \ from
        /\ \A m \in NodesOf(g) \ {n} : r.df.inNew[m] = df.inNew[m]
    BY <1>1, <2>5 DEF Tables, Flags
  <2>7. \A o \in from : df.in[n][o] \subseteq r.pts[Stmt(n).dst]
    BY <2>3, <2>4
  <2>8. Adds(n, r)
    <3> HIDE DEF r, d, add, from
    <3> QED
      BY <1>4, <2>3, <2>4, <2>5, <2>6 DEF Adds
  <2>9. Settles(n, r)
    <3>1. df.inNew[n] \ r.df.inNew[n] \subseteq from
      BY <2>6
    <3> HIDE DEF r
    <3> QED
      BY <1>4, <2>7, <3>1 DEF Settles
  <2> QED
    BY <2>8, <2>9
<1>5. CASE Stmt(n).kind = "store"
  BY <1>5, StoreAdds DEF ProcessSVFGNode, IsStore
<1>6. CASE Stmt(n).kind \notin {"addr", "copy", "load", "store"}
  <2>1. ProcessSVFGNode(n) = [Unchanged EXCEPT !.changed = TRUE]
    BY <1>6 DEF ProcessSVFGNode, ProcessTopLevel
  <2>2. /\ ProcessSVFGNode(n).pts = pts /\ ProcessSVFGNode(n).df = df
        /\ ProcessSVFGNode(n).changed = TRUE
    BY <2>1 DEF Unchanged
  <2> QED
    BY <1>1, <1>6, <2>2 DEF Adds, Settles
<1> QED
  BY <1>2, <1>3, <1>4, <1>5, <1>6

-----------------------------------------------------------------------------
(***************************************************************************)
(* Nothing goes beyond the least solution.                                 *)
(***************************************************************************)
sol == Solution[prog]
Within(p)     == \A v \in Vars : p[v] \subseteq sol.pts[v]
MemoryWithin(d) ==
    \A n \in NodesOf(g), o \in Objs : d.in[n][o] \subseteq sol.in[n][o] /\ d.out[n][o] \subseteq sol.out[n][o]

LEMMA SolutionCloses ==
    ASSUME FlowType
    PROVE  /\ sol \in Flows(g)
           /\ \A v \in Vars : Gen(g, sol, v) \subseteq sol.pts[v]
           /\ \A n \in NodesOf(g), o \in Objs :
                 /\ Arrives(g, sol, n, o) \subseteq sol.in[n][o]
                 /\ n \in Stores(g) => Leaves(g, sol, n, o) \subseteq sol.out[n][o]
BY SolutionClosed DEF FlowType, g, sol

LEMMA CallsWithin ==
    ASSUME FlowType, Within(pts)
    PROVE  /\ called \subseteq Resolved(g, sol.pts)
           /\ direct \subseteq DirectOf(g, Resolved(g, sol.pts))
           /\ IndirectOf(g, called) \subseteq IndirectOf(g, Resolved(g, sol.pts))
           /\ StrongObjs(g, Resolved(g, sol.pts)) \subseteq StrongObjs(g, called)
<1>1. called \subseteq Resolved(g, sol.pts)
  BY CallsMonotone, ProgramFormed DEF FlowType, Within
<1> QED
  BY <1>1 DEF FlowType, DirectOf, IndirectOf, StrongObjs

LEMMA PassOnWithin ==
    ASSUME FlowType, Within(pts), NEW n \in NodesOf(g), NEW p \in Sets, Within(p)
    PROVE  Within(PassOn(n, p).pts)
<1> SUFFICES ASSUME NEW v \in Vars, PassOn(n, p).pts[v] # p[v]
             PROVE  PassOn(n, p).pts[v] \subseteq sol.pts[v]
  BY DEF Within
<1>1. Stmt(n).kind = "actual"
  BY PassOnAdds
<1>2. PICK m \in NodesOf(g) : /\ PassOn(n, p).pts[v] = p[v] \cup p[Stmt(n).var]
                              /\ <<n, m>> \in direct /\ Formal(m) /\ Stmt(m).var = v
  <2> DEFINE top == PassOn(n, p)
  <2>1. /\ top.push \subseteq NodesOf(g)
        /\ top.pts[v] # p[v] =>
              /\ top.pts[v] = p[v] \cup p[Stmt(n).var]
              /\ \E m \in top.push : <<n, m>> \in direct /\ Formal(m) /\ Stmt(m).var = v
    BY <1>1, PassOnAdds
  <2> QED
    BY <2>1
<1>3. <<n, m>> \in ParamCopies(g, DirectOf(g, Resolved(g, sol.pts)))
  BY <1>1, <1>2, CallsWithin DEF ParamCopies, Formal, Stmt
<1>4. Stmt(n).var \in Vars
  BY <1>1, NodeKinds DEF Typed
<1>5. \A x \in Objs : x \in sol.pts[Stmt(n).var] => x \in Gen(g, sol, v)
  BY <1>2, <1>3 DEF Gen, Stmt
<1>6. sol.pts[Stmt(n).var] \subseteq sol.pts[v]
  BY <1>4, <1>5, SolutionCloses DEF Flows
<1> QED
  BY <1>2, <1>4, <1>6 DEF Within

LEMMA UpdateInWithin ==
    ASSUME FlowType, Within(pts), NEW d \in Tables, MemoryWithin(d),
           NEW es \in SUBSET IndirectOf(g, Resolved(g, sol.pts))
    PROVE  MemoryWithin(UpdateIn(d, es).df)
<1> DEFINE r == UpdateIn(d, es)
<1>1. Resolved(g, sol.pts) \in SUBSET g.calls
  BY DEF Resolved
<1>2. es \in SUBSET (NodesOf(g) \X NodesOf(g) \X Objs)
  BY <1>1, FewerCalls, ProgramFormed
<1>3. ASSUME NEW m \in NodesOf(g), NEW o \in Objs, NEW x \in r.df.in[m][o] \ d.in[m][o]
      PROVE  x \in sol.in[m][o]
  <2>1. PICK e \in es : e[2] = m /\ e[3] = o /\ x \in Exit(g, d, e[1], o)
    BY <1>2, <1>3, UpdateInAdds
  <2>2. e[1] \in NodesOf(g)
    BY <1>2, <2>1
  <2>3. x \in Exit(g, sol, e[1], o)
    BY <2>1, <2>2 DEF Exit, MemoryWithin
  <2>4. x \in Objs
    BY <2>2, <2>3, SolutionCloses DEF Exit, Flows, Memory
  <2>5. x \in Arrives(g, sol, m, o)
    BY <2>1, <2>3, <2>4 DEF Arrives
  <2> QED
    BY <2>5, SolutionCloses
<1>4. r.df.out = d.out
  BY <1>2, UpdateInAdds
<1> QED
  BY <1>3, <1>4 DEF MemoryWithin

\* What a load takes in and what a store lets out, from what is within the solution.
LEMMA DefineWithin ==
    ASSUME FlowType, Within(pts), NEW n \in NodesOf(g)
    PROVE  /\ Stmt(n).kind = "addr" => Stmt(n).obj \in sol.pts[Stmt(n).dst]
           /\ Stmt(n).kind = "copy" => UNION {pts[v] : v \in Stmt(n).srcs} \subseteq sol.pts[Stmt(n).dst]
           /\ Stmt(n).kind = "load" =>
                 \A o \in pts[Stmt(n).ptr] : sol.in[n][o] \subseteq sol.pts[Stmt(n).dst]
<1>1. Typed(Stmt(n)) /\ pts \in Sets
  BY NodeKinds DEF FlowType
<1>2. ASSUME Stmt(n).kind = "addr" PROVE Stmt(n).obj \in sol.pts[Stmt(n).dst]
  <2>1. n \in OfKind(g, "addr") /\ Stmt(n).obj \in Objs /\ Stmt(n).dst \in Vars
    BY <1>1, <1>2 DEF OfKind, Typed, Stmt
  <2>2. Stmt(n).obj \in Gen(g, sol, Stmt(n).dst)
    BY <2>1 DEF Gen, Stmt
  <2> QED
    BY <2>1, <2>2, SolutionCloses
<1>3. ASSUME Stmt(n).kind = "copy", NEW w \in Stmt(n).srcs, NEW x \in pts[w]
      PROVE  x \in sol.pts[Stmt(n).dst]
  <2>1. n \in OfKind(g, "copy") /\ w \in Vars /\ Stmt(n).dst \in Vars
    BY <1>1, <1>3 DEF OfKind, Typed, Stmt
  <2>2. x \in Objs /\ x \in sol.pts[w]
    BY <1>1, <1>3, <2>1 DEF Sets, Within
  <2>3. x \in Gen(g, sol, Stmt(n).dst)
    BY <1>3, <2>1, <2>2 DEF Gen, Stmt
  <2> QED
    BY <2>1, <2>3, SolutionCloses
<1>4. ASSUME Stmt(n).kind = "load", NEW o \in pts[Stmt(n).ptr], NEW x \in sol.in[n][o]
      PROVE  x \in sol.pts[Stmt(n).dst]
  <2>1. n \in Loads(g) /\ Stmt(n).ptr \in Vars /\ Stmt(n).dst \in Vars
    BY <1>1, <1>4 DEF Loads, OfKind, Typed, Stmt
  <2>2. o \in Objs /\ o \in sol.pts[Stmt(n).ptr]
    BY <1>1, <1>4, <2>1 DEF Sets, Within
  <2>3. x \in Objs
    BY <1>4, <2>2, SolutionCloses DEF Flows, Memory
  <2>4. x \in Gen(g, sol, Stmt(n).dst)
    BY <1>4, <2>1, <2>2, <2>3 DEF Gen, Stmt
  <2> QED
    BY <2>1, <2>4, SolutionCloses
<1> QED
  BY <1>2, <1>3, <1>4

LEMMA StoreWithin ==
    ASSUME FlowType, Within(pts), NEW n \in Stores(g), NEW o \in Objs
    PROVE  /\ o \in pts[Stmt(n).ptr] => pts[Stmt(n).src] \subseteq sol.out[n][o]
           /\ pts[Stmt(n).ptr] # {} /\ ~IsStrongUpdate(n, o) => sol.in[n][o] \subseteq sol.out[n][o]
<1>1. n \in NodesOf(g) /\ Stmt(n).ptr \in Vars /\ Stmt(n).src \in Vars
  BY NodeKinds DEF Stores, OfKind, Typed, Stmt
<1>2. Leaves(g, sol, n, o) \subseteq sol.out[n][o]
  BY <1>1, SolutionCloses
<1>3. pts[Stmt(n).ptr] \subseteq sol.pts[Stmt(n).ptr] /\ pts[Stmt(n).src] \subseteq sol.pts[Stmt(n).src]
  BY <1>1 DEF Within
<1>4. ASSUME pts[Stmt(n).ptr] # {},
             Killed(sol.pts[Stmt(n).ptr], o, StrongObjs(g, Resolved(g, sol.pts)))
      PROVE  IsStrongUpdate(n, o)
  <2>1. sol.pts[Stmt(n).ptr] = {o} /\ o \in StrongObjs(g, called)
    BY <1>3, <1>4, CallsWithin DEF Killed
  <2> QED
    BY <1>3, <1>4, <2>1 DEF IsStrongUpdate
<1> QED
  BY <1>2, <1>3, <1>4 DEF Leaves, Stmt

-----------------------------------------------------------------------------
(***************************************************************************)
(* A visit of a node.                                                      *)
(***************************************************************************)
Users(v) == {m \in NodesOf(g) : v \in Used(Stmt(m))}

\* The variables of formal parameters and actual returns that wait to be passed on.
Waiting == {Stmt(m).var : m \in {k \in worklist : Formal(k)}}

\* What the visit of n does to top-level variables, r being what processing made of it,
VisitedTop(n, r) ==
    /\ pts' \in Sets /\ worklist \ {n} \subseteq worklist' /\ worklist' \subseteq NodesOf(g)
    /\ \A v \in Vars : r.pts[v] \subseteq pts'[v]
    /\ \A v \in Vars : pts'[v] # pts[v] => v \in Waiting' \/ Users(v) \subseteq worklist'
    /\ Formal(n) => Users(Stmt(n).var) \subseteq worklist'
    /\ Stmt(n).kind = "actual" =>
          \A m \in NodesOf(g) : <<n, m>> \in direct => pts[Stmt(n).var] \subseteq pts'[Stmt(m).var]

\* and to the tables.
Visited(n, r) ==
    /\ VisitedTop(n, r) /\ df' \in Tables
    /\ \A m \in NodesOf(g), o \in Objs :
          /\ df.in[m][o] \subseteq df'.in[m][o]
          /\ df'.in[m][o] # df.in[m][o] => m \in worklist' /\ o \in df'.inNew[m]
          /\ df'.out[m][o] = r.df.out[m][o]
    /\ \A m \in NodesOf(g) : r.df.inNew[m] \subseteq df'.inNew[m]
    /\ \A m \in NodesOf(g) : df'.outNew[m] = IF m = n THEN {} ELSE df.outNew[m]
    /\ \A e \in indirect : e[1] = n /\ r.changed /\ LeavesNew(r.df, n, e[3]) =>
          Exit(g, r.df, n, e[3]) \subseteq df'.in[e[2]][e[3]]

\* What processing a node may do to top-level variables.
TopAdds(n, r) ==
    /\ r.pts \in Sets /\ r.changed \in BOOLEAN
    /\ \A v \in Vars : pts[v] \subseteq r.pts[v]
    /\ \A v \in Vars : r.pts[v] # pts[v] =>
          r.changed /\ v \in Defined(Stmt(n)) /\ Stmt(n).kind \in {"addr", "copy", "load"}
    /\ Stmt(n).kind \notin {"addr", "copy", "load", "store"} => r.pts = pts /\ r.changed

LEMMA TopVisit ==
    ASSUME FlowType, prog' = prog, NEW n \in worklist, NEW r, TopAdds(n, r), NEW more \in SUBSET NodesOf(g),
           IF r.changed
             THEN /\ pts' = PassOn(n, r.pts).pts
                  /\ worklist' = (worklist \ {n}) \cup PassOn(n, r.pts).push \cup more
             ELSE pts' = r.pts /\ worklist' = worklist \ {n}
    PROVE  VisitedTop(n, r)
<1> DEFINE top == PassOn(n, r.pts)
<1>1. n \in NodesOf(g) /\ pts \in Sets /\ worklist \subseteq NodesOf(g) /\ r.pts \in Sets
  BY DEF FlowType, TopAdds
<1>2. \A v : (\E m \in worklist' : Formal(m) /\ Stmt(m).var = v) => v \in Waiting'
  BY DEF Waiting, Formal, Stmt, g
<1>3. CASE r.changed
  <2>1. pts' = top.pts /\ worklist' = (worklist \ {n}) \cup top.push \cup more
    BY <1>3
  <2>2. /\ top.pts \in Sets /\ top.push \subseteq NodesOf(g)
        /\ \A v \in Vars : r.pts[v] \subseteq top.pts[v]
        /\ Stmt(n).kind # "actual" =>
              top.pts = r.pts /\ \A m \in NodesOf(g) : <<n, m>> \in direct => m \in top.push
        /\ Stmt(n).kind = "actual" =>
              /\ \A m \in NodesOf(g) : <<n, m>> \in direct =>
                    r.pts[Stmt(n).var] \subseteq top.pts[Stmt(m).var]
              /\ \A v \in Vars : top.pts[v] # r.pts[v] => \E m \in top.push : Formal(m) /\ Stmt(m).var = v
    <3> DEFINE p == r.pts
               q == PassOn(n, p)
    <3>1. p \in Sets
      BY <1>1
    <3> HIDE DEF p
    <3>2. /\ q.pts \in Sets /\ q.push \subseteq NodesOf(g)
          /\ \A v \in Vars : p[v] \subseteq q.pts[v]
          /\ Stmt(n).kind # "actual" =>
                q.pts = p /\ \A m \in NodesOf(g) : <<n, m>> \in direct => m \in q.push
      BY <1>1, <3>1, PassOnAdds
    <3>3. Stmt(n).kind = "actual" =>
             /\ \A m \in NodesOf(g) : <<n, m>> \in direct => p[Stmt(n).var] \subseteq q.pts[Stmt(m).var]
             /\ \A v \in Vars : q.pts[v] # p[v] =>
                   /\ q.pts[v] = p[v] \cup p[Stmt(n).var]
                   /\ \E m \in q.push : <<n, m>> \in direct /\ Formal(m) /\ Stmt(m).var = v
      BY <1>1, <3>1, PassOnAdds
    <3> HIDE DEF q
    <3>4. Stmt(n).kind = "actual" =>
             \A v \in Vars : q.pts[v] # p[v] => \E m \in q.push : Formal(m) /\ Stmt(m).var = v
      BY <3>3
    <3> USE DEF q
    <3> QED
      BY <3>2, <3>3, <3>4 DEF p
  <2> HIDE DEF top
  <2>3. ASSUME NEW v \in Vars, v \in Defined(Stmt(n)), Stmt(n).kind # "actual"
        PROVE  Users(v) \subseteq worklist'
    <3>1. \A m \in Users(v) : <<n, m>> \in direct
      BY <1>1, <2>3, DirectFormed DEF Users
    <3> QED
      BY <2>1, <2>2, <2>3, <3>1 DEF Users
  <2>4. ASSUME NEW v \in Vars, pts'[v] # pts[v] PROVE v \in Waiting' \/ Users(v) \subseteq worklist'
    <3>1. CASE r.pts[v] # pts[v]
      <4>1. v \in Defined(Stmt(n)) /\ Stmt(n).kind # "actual"
        BY <3>1 DEF TopAdds
      <4> QED
        BY <2>3, <4>1
    <3>2. CASE r.pts[v] = pts[v]
      BY <1>2, <2>1, <2>2, <2>4, <3>2
    <3> QED
      BY <3>1, <3>2
  <2>5. ASSUME Formal(n) PROVE Users(Stmt(n).var) \subseteq worklist'
    <3>1. Stmt(n).var \in Vars /\ Stmt(n).var \in Defined(Stmt(n)) /\ Stmt(n).kind # "actual"
      BY <1>1, <2>5, NodeKinds DEF Formal, Defined, Typed
    <3> QED
      BY <2>3, <3>1
  <2>6. Stmt(n).kind = "actual" => r.pts = pts
    BY DEF TopAdds
  <2> QED
    BY <1>1, <2>1, <2>2, <2>4, <2>5, <2>6 DEF VisitedTop
<1>4. CASE ~r.changed
  <2>1. pts' = r.pts /\ worklist' = worklist \ {n}
    BY <1>4
  <2>2. r.pts = pts /\ Stmt(n).kind \in {"addr", "copy", "load", "store"}
    BY <1>1, <1>4 DEF TopAdds, Sets
  <2> QED
    BY <1>1, <2>1, <2>2 DEF VisitedTop, Formal
<1>5. r.changed \in BOOLEAN
  BY DEF TopAdds
<1> QED
  BY <1>3, <1>4, <1>5

LEMMA Cleared ==
    ASSUME FlowType, NEW d \in Tables, NEW n \in NodesOf(g)
    PROVE  LET c == [d EXCEPT !.outNew[n] = {}]
           IN  /\ c \in Tables /\ c.in = d.in /\ c.out = d.out /\ c.inNew = d.inNew
               /\ \A m \in NodesOf(g) : c.outNew[m] = IF m = n THEN {} ELSE d.outNew[m]
<1> DEFINE o2 == [d.outNew EXCEPT ![n] = {}]
<1>1. d.outNew \in Flags
  BY DEF Tables
<1>2. o2 \in Flags /\ \A m \in NodesOf(g) : o2[m] = IF m = n THEN {} ELSE d.outNew[m]
  BY <1>1 DEF Flags
<1>3. [d EXCEPT !.outNew[n] = {}] = [d EXCEPT !.outNew = o2]
  BY DEF Tables
<1> HIDE DEF o2
<1> QED
  BY <1>2, <1>3 DEF Tables

LEMMA VisitEffect ==
    ASSUME FlowType, indirect \subseteq NodesOf(g) \X NodesOf(g) \X Objs,
           NEW n \in worklist, ProcessNode(n), UNCHANGED <<prog, incremental, direct, indirect, called>>
    PROVE  Visited(n, ProcessSVFGNode(n))
<1> DEFINE r   == ProcessSVFGNode(n)
           top == PassOn(n, r.pts)
           es  == {e \in indirect : e[1] = n /\ LeavesNew(r.df, n, e[3])}
           mem == UpdateIn(r.df, es)
<1>1. n \in NodesOf(g) /\ pts \in Sets /\ df \in Tables /\ worklist \subseteq NodesOf(g)
  BY DEF FlowType
<1>2. Adds(n, r)
  BY <1>1, ProcessAdds
<1>3. r.pts \in Sets /\ r.df \in Tables /\ r.df.in = df.in
  BY <1>2 DEF Adds
<1>4. es \in SUBSET (NodesOf(g) \X NodesOf(g) \X Objs)
  OBVIOUS
<1>5. \A m \in NodesOf(g) \ {n} : r.df.outNew[m] = df.outNew[m]
  BY <1>2 DEF Adds
<1>6. /\ r.changed \in BOOLEAN
      /\ r.changed => mem.df \in Tables /\ mem.push \subseteq NodesOf(g)
  <2> DEFINE d == r.df
             u == UpdateIn(d, es)
  <2>1. d \in Tables
    BY <1>3
  <2> HIDE DEF d, es
  <2>2. u.df \in Tables /\ u.push \subseteq NodesOf(g)
    BY <1>4, <2>1, UpdateInAdds
  <2> QED
    BY <1>2, <2>2 DEF Adds, d
<1>7. CASE r.changed
  <2>1. /\ pts' = top.pts /\ df' = [mem.df EXCEPT !.outNew[n] = {}]
        /\ worklist' = (worklist \ {n}) \cup top.push \cup mem.push
    BY <1>7 DEF ProcessNode
  <2>2. /\ mem.df \in Tables /\ mem.push \subseteq NodesOf(g)
        /\ mem.df.out = r.df.out /\ mem.df.outNew = r.df.outNew
        /\ \A e \in es : Exit(g, r.df, e[1], e[3]) \subseteq mem.df.in[e[2]][e[3]]
        /\ \A m \in NodesOf(g) : r.df.inNew[m] \subseteq mem.df.inNew[m]
        /\ \A m \in NodesOf(g), o \in Objs :
              /\ r.df.in[m][o] \subseteq mem.df.in[m][o]
              /\ mem.df.in[m][o] # r.df.in[m][o] => m \in mem.push /\ o \in mem.df.inNew[m]
    <3> DEFINE d == r.df
               u == UpdateIn(d, es)
    <3>1. d \in Tables
      BY <1>3
    <3> HIDE DEF d, es
    <3>2. /\ u.df \in Tables /\ u.push \subseteq NodesOf(g)
          /\ u.df.out = d.out /\ u.df.outNew = d.outNew
          /\ \A e \in es : Exit(g, d, e[1], e[3]) \subseteq u.df.in[e[2]][e[3]]
          /\ \A m \in NodesOf(g) : d.inNew[m] \subseteq u.df.inNew[m]
          /\ \A m \in NodesOf(g), o \in Objs :
                /\ d.in[m][o] \subseteq u.df.in[m][o]
                /\ u.df.in[m][o] # d.in[m][o] => m \in u.push /\ o \in u.df.inNew[m]
      BY <1>4, <3>1, UpdateInAdds
    <3> HIDE DEF u
    <3> QED
      BY <3>2 DEF d, u
  <2>3. /\ df' \in Tables /\ df'.in = mem.df.in /\ df'.out = mem.df.out /\ df'.inNew = mem.df.inNew
        /\ \A m \in NodesOf(g) : df'.outNew[m] = IF m = n THEN {} ELSE mem.df.outNew[m]
    <3> HIDE DEF mem
    <3> QED
      BY <1>1, <2>1, <2>2, Cleared
  <2>4. VisitedTop(n, r)
    <3>1. TopAdds(n, r)
      BY <1>2 DEF Adds, TopAdds
    <3> HIDE DEF r, mem
    <3> QED
      BY <1>7, <2>1, <2>2, <3>1, TopVisit
  <2>5. \A e \in indirect : e[1] = n /\ LeavesNew(r.df, n, e[3]) =>
              Exit(g, r.df, n, e[3]) \subseteq df'.in[e[2]][e[3]]
    BY <2>2, <2>3
  <2>6. \A m \in NodesOf(g), o \in Objs :
          /\ df.in[m][o] \subseteq df'.in[m][o]
          /\ df'.in[m][o] # df.in[m][o] => m \in worklist' /\ o \in df'.inNew[m]
          /\ df'.out[m][o] = r.df.out[m][o]
    BY <1>3, <2>1, <2>2, <2>3
  <2> HIDE DEF r, top, es, mem
  <2>7. \A m \in NodesOf(g) : /\ r.df.inNew[m] \subseteq df'.inNew[m]
                               /\ df'.outNew[m] = IF m = n THEN {} ELSE df.outNew[m]
    BY <1>5, <2>2, <2>3
  <2>8. Visited(n, r)
    BY <2>3, <2>4, <2>5, <2>6, <2>7 DEF Visited
  <2> QED
    BY <2>8 DEF r
<1>8. CASE ~r.changed
  <2>1. pts' = r.pts /\ df' = [r.df EXCEPT !.outNew[n] = {}] /\ worklist' = worklist \ {n}
    BY <1>8 DEF ProcessNode
  <2>2. VisitedTop(n, r)
    <3>1. TopAdds(n, r)
      BY <1>2 DEF Adds, TopAdds
    <3> HIDE DEF r
    <3> QED
      BY <1>8, <2>1, <3>1, TopVisit
  <2>3. /\ df' \in Tables /\ df'.in = df.in /\ df'.out = r.df.out /\ df'.inNew = r.df.inNew
        /\ \A m \in NodesOf(g) : df'.outNew[m] = IF m = n THEN {} ELSE r.df.outNew[m]
    <3> HIDE DEF r
    <3> QED
      BY <1>1, <1>3, <2>1, Cleared
  <2> HIDE DEF r
  <2> QED
    BY <1>5, <1>8, <2>2, <2>3 DEF Visited, r
<1> QED
  BY <1>6, <1>7, <1>8

-----------------------------------------------------------------------------
(***************************************************************************)
(* Without versions: what is not in the work list is settled.              *)
(***************************************************************************)
Consumed ==
    \A n \in NodesOf(g), o \in Objs : ~HasNew(df.inNew, n, o) =>
        /\ Stmt(n).kind = "load" => df.in[n][o] \subseteq pts[Stmt(n).dst]
        /\ Stmt(n).kind = "store" => df.in[n][o] \subseteq df.out[n][o]
        /\ Stmt(n).kind \notin {"load", "store"} => df.in[n][o] = {}

Delivered ==
    /\ \A n \in NodesOf(g) : df.outNew[n] = {}
    /\ \A e \in indirect : IsStore(e[1]) => df.out[e[1]][e[3]] \subseteq df.in[e[2]][e[3]]

TopSettled(n) ==
    /\ Stmt(n).kind = "addr" => Stmt(n).obj \in pts[Stmt(n).dst]
    /\ Stmt(n).kind = "copy" =>
          \A w \in Stmt(n).srcs : w \in Waiting \/ pts[w] \subseteq pts[Stmt(n).dst]
    /\ Stmt(n).kind = "actual" =>
          Stmt(n).var \in Waiting \/ \A m \in NodesOf(g) : <<n, m>> \in direct =>
                                      pts[Stmt(n).var] \subseteq pts[Stmt(m).var]

Settled(n) ==
    /\ TopSettled(n)
    /\ Stmt(n).kind = "load" =>
          Stmt(n).ptr \in Waiting \/ \A o \in pts[Stmt(n).ptr] : df.in[n][o] \subseteq pts[Stmt(n).dst]
    /\ Stmt(n).kind = "store" =>
          \/ Stmt(n).ptr \in Waiting \/ Stmt(n).src \in Waiting
          \/ \A o \in Objs :
                /\ o \in pts[Stmt(n).ptr] => pts[Stmt(n).src] \subseteq df.out[n][o]
                /\ pts[Stmt(n).ptr] # {} /\ ~IsStrongUpdate(n, o) => df.in[n][o] \subseteq df.out[n][o]
    /\ Stmt(n).kind = "mssa" =>
          \A e \in indirect : e[1] = n => df.in[n][e[3]] \subseteq df.in[e[2]][e[3]]

LEMMA Quiet ==
    ASSUME FlowType, prog' = prog, NEW n \in worklist, NEW r, VisitedTop(n, r),
           NEW m \in NodesOf(g) \ worklist', NEW v \in Vars, v \in Used(Stmt(m)), v \notin Waiting'
    PROVE  pts'[v] = pts[v] /\ v \notin Waiting
<1>1. m \in Users(v)
  BY DEF Users
<1>2. pts'[v] = pts[v]
  BY <1>1 DEF Visited, VisitedTop
<1>3. ASSUME NEW k \in worklist, Formal(k), Stmt(k).var = v PROVE FALSE
  <2>1. k \in worklist'
    BY <1>1, <1>3 DEF Visited, VisitedTop
  <2> QED
    BY <1>3, <2>1 DEF Waiting, Formal, Stmt, g
<1> QED
  BY <1>2, <1>3 DEF Waiting

\* What processing a node leaves to do at top level.
TopSettles(n, r) ==
    /\ Stmt(n).kind = "addr" => Stmt(n).obj \in r.pts[Stmt(n).dst]
    /\ Stmt(n).kind = "copy" => \A w \in Stmt(n).srcs : pts[w] \subseteq r.pts[Stmt(n).dst]

LEMMA TopSettledKept ==
    ASSUME FlowType, UNCHANGED <<prog, direct>>, NEW n \in worklist, NEW r, VisitedTop(n, r), TopSettles(n, r),
           \A v \in Vars : pts[v] \subseteq r.pts[v],
           NEW m \in NodesOf(g) \ worklist', m # n => TopSettled(m)
    PROVE  TopSettled(m)'
<1>1. /\ n \in NodesOf(g) /\ g' = g /\ \A k : Stmt(k)' = Stmt(k)
      /\ Typed(Stmt(m)) /\ pts \in Sets
  BY NodeKinds DEF FlowType, g, Stmt
<1>2. \A v \in Vars : pts[v] \subseteq r.pts[v] /\ r.pts[v] \subseteq pts'[v]
  BY DEF VisitedTop
<1>3. ASSUME NEW v \in Vars, v \in Used(Stmt(m)), v \notin Waiting'
      PROVE  pts'[v] = pts[v] /\ v \notin Waiting
  BY <1>3, Quiet
<1>4. ASSUME Stmt(m).kind = "addr" PROVE Stmt(m).obj \in pts'[Stmt(m).dst]
  <2>1. Stmt(m).dst \in Vars
    BY <1>1, <1>4 DEF Typed
  <2> QED
    BY <1>2, <1>4, <2>1 DEF TopSettled, TopSettles
<1>5. ASSUME Stmt(m).kind = "copy", NEW w \in Stmt(m).srcs, w \notin Waiting'
      PROVE  pts'[w] \subseteq pts'[Stmt(m).dst]
  <2>1. Stmt(m).dst \in Vars /\ w \in Vars /\ w \in Used(Stmt(m))
    BY <1>1, <1>5 DEF Typed, Used
  <2>2. pts'[w] = pts[w] /\ w \notin Waiting
    BY <1>3, <1>5, <2>1
  <2>3. CASE m = n
    BY <1>2, <1>5, <2>1, <2>2, <2>3 DEF TopSettles
  <2>4. CASE m # n
    BY <1>2, <1>5, <2>1, <2>2, <2>4 DEF TopSettled
  <2> QED
    BY <2>3, <2>4
<1>6. ASSUME Stmt(m).kind = "actual", Stmt(m).var \notin Waiting', NEW k \in NodesOf(g), <<m, k>> \in direct
      PROVE  pts'[Stmt(m).var] \subseteq pts'[Stmt(k).var]
  <2>1. Stmt(m).var \in Vars /\ Stmt(m).var \in Used(Stmt(m)) /\ Stmt(k).var \in Vars
    BY <1>1, <1>6, NodeKinds, DirectFormed DEF Typed, Used, Formal
  <2>2. pts'[Stmt(m).var] = pts[Stmt(m).var] /\ Stmt(m).var \notin Waiting
    BY <1>3, <1>6, <2>1
  <2>3. CASE m = n
    BY <1>6, <2>2, <2>3 DEF VisitedTop
  <2>4. CASE m # n
    BY <1>2, <1>6, <2>1, <2>2, <2>4 DEF TopSettled
  <2> QED
    BY <2>3, <2>4
<1> QED
  BY <1>1, <1>4, <1>5, <1>6 DEF TopSettled

LEMMA ConsumedKept ==
    ASSUME FlowType, Consumed, NEW n \in worklist, UNCHANGED <<prog, incremental>>,
           Visited(n, ProcessSVFGNode(n))
    PROVE  Consumed'
<1> DEFINE r == ProcessSVFGNode(n)
<1>1. n \in NodesOf(g) /\ g' = g /\ \A m : Stmt(m)' = Stmt(m)
  BY DEF FlowType, g, Stmt
<1>2. Adds(n, r) /\ Settles(n, r)
  BY <1>1, ProcessAdds
<1> SUFFICES ASSUME NEW m \in NodesOf(g), NEW o \in Objs, incremental, o \notin df'.inNew[m]
             PROVE  /\ Stmt(m).kind = "load" => df'.in[m][o] \subseteq pts'[Stmt(m).dst]
                    /\ Stmt(m).kind = "store" => df'.in[m][o] \subseteq df'.out[m][o]
                    /\ Stmt(m).kind \notin {"load", "store"} => df'.in[m][o] = {}
  BY <1>1 DEF Consumed, HasNew
<1>3. df'.in[m][o] = df.in[m][o] /\ o \notin r.df.inNew[m]
  BY DEF Visited, VisitedTop
<1>4. /\ Stmt(m).kind = "load" => pts[Stmt(m).dst] \subseteq pts'[Stmt(m).dst]
      /\ r.pts[Stmt(m).dst] \subseteq pts'[Stmt(m).dst] \/ Stmt(m).kind # "load"
  <2>1. Stmt(m).kind = "load" => Stmt(m).dst \in Vars
    BY NodeKinds DEF Typed
  <2> QED
    BY <1>2, <2>1 DEF Adds, Visited, VisitedTop
<1>5. df.out[m][o] \subseteq df'.out[m][o] /\ df'.out[m][o] = r.df.out[m][o]
  BY <1>2 DEF Adds, Visited, VisitedTop
<1>6. CASE o \notin df.inNew[m]
  BY <1>3, <1>4, <1>5, <1>6 DEF Consumed, HasNew
<1>7. CASE o \in df.inNew[m]
  <2>1. m = n
    BY <1>2, <1>3, <1>7 DEF Adds
  <2>2. Stmt(n).kind \in {"load", "store"}
    BY <1>2, <1>3, <1>7, <2>1 DEF Settles
  <2> QED
    BY <1>2, <1>3, <1>4, <1>5, <1>7, <2>1, <2>2 DEF Settles
<1> QED
  BY <1>6, <1>7

LEMMA DeliveredKept ==
    ASSUME FlowType, Delivered, indirect \subseteq NodesOf(g) \X NodesOf(g) \X Objs,
           NEW n \in worklist, UNCHANGED <<prog, incremental, indirect>>, Visited(n, ProcessSVFGNode(n))
    PROVE  Delivered'
<1> DEFINE r == ProcessSVFGNode(n)
<1>1. n \in NodesOf(g) /\ g' = g /\ \A m : IsStore(m)' = IsStore(m)
  BY DEF FlowType, g, Stmt, IsStore
<1>2. Adds(n, r)
  BY <1>1, ProcessAdds
<1>3. ASSUME NEW e \in indirect, IsStore(e[1]) PROVE df'.out[e[1]][e[3]] \subseteq df'.in[e[2]][e[3]]
  <2>1. e[1] \in NodesOf(g) /\ e[2] \in NodesOf(g) /\ e[3] \in Objs
    OBVIOUS
  <2>2. df'.out[e[1]][e[3]] = r.df.out[e[1]][e[3]] /\ df.in[e[2]][e[3]] \subseteq df'.in[e[2]][e[3]]
    BY <2>1 DEF Visited, VisitedTop
  <2>3. CASE r.df.out[e[1]][e[3]] = df.out[e[1]][e[3]]
    BY <1>3, <2>2, <2>3 DEF Delivered
  <2>4. CASE r.df.out[e[1]][e[3]] # df.out[e[1]][e[3]]
    <3>1. e[1] = n /\ r.changed /\ e[3] \in r.df.outNew[n]
      BY <1>2, <2>1, <2>4 DEF Adds
    <3>2. LeavesNew(r.df, n, e[3]) /\ Exit(g, r.df, n, e[3]) = r.df.out[n][e[3]]
      BY <1>3, <3>1 DEF LeavesNew, HasNew, Exit, IsStore, Stmt
    <3>3. Visited(n, r)
      OBVIOUS
    <3> HIDE DEF r
    <3>4. Exit(g, r.df, n, e[3]) \subseteq df'.in[e[2]][e[3]]
      BY <3>1, <3>2, <3>3 DEF Visited, VisitedTop
    <3> QED
      BY <2>2, <3>1, <3>2, <3>4
  <2> QED
    BY <2>3, <2>4
<1>4. \A m \in NodesOf(g) : df'.outNew[m] = {}
  BY DEF Visited, VisitedTop, Delivered
<1> QED
  BY <1>1, <1>3, <1>4 DEF Delivered

LEMMA SettledKept ==
    ASSUME FlowType, Consumed, \A m \in NodesOf(g) \ worklist : Settled(m),
           indirect \subseteq NodesOf(g) \X NodesOf(g) \X Objs,
           NEW n \in worklist, UNCHANGED <<prog, incremental, direct, indirect, called>>,
           Visited(n, ProcessSVFGNode(n)),
           NEW m \in NodesOf(g) \ worklist'
    PROVE  Settled(m)'
<1> DEFINE r == ProcessSVFGNode(n)
<1>1. /\ n \in NodesOf(g) /\ g' = g /\ \A k : Stmt(k)' = Stmt(k)
      /\ Typed(Stmt(m)) /\ pts \in Sets
  BY NodeKinds DEF FlowType, g, Stmt
<1>2. Adds(n, r) /\ Settles(n, r) /\ Visited(n, r)
  BY <1>1, ProcessAdds
<1> HIDE DEF r
<1>3. \A v \in Vars : pts[v] \subseteq r.pts[v] /\ r.pts[v] \subseteq pts'[v]
  BY <1>2 DEF Adds, Visited, VisitedTop
<1>4. \A k \in NodesOf(g), o \in Objs : df.out[k][o] \subseteq df'.out[k][o] /\ df'.out[k][o] = r.df.out[k][o]
  BY <1>2 DEF Adds, Visited, VisitedTop
<1>5. \A o \in Objs : df'.in[m][o] = df.in[m][o]
  BY <1>2 DEF Visited, VisitedTop
<1>6. ASSUME NEW v \in Vars, v \in Used(Stmt(m)), v \notin Waiting'
      PROVE  pts'[v] = pts[v] /\ v \notin Waiting
  <2>1. VisitedTop(n, r)
    BY <1>2 DEF Visited
  <2> QED
    BY <1>6, <2>1, Quiet
<1>7. m # n => Settled(m)
  BY <1>2 DEF Visited, VisitedTop
<1>8. TopSettled(m)'
  <2>1. TopSettles(n, r) /\ VisitedTop(n, r) /\ (m # n => TopSettled(m))
    BY <1>2, <1>7 DEF Settles, TopSettles, Visited, Settled
  <2> QED
    BY <1>3, <2>1, TopSettledKept
<1>9. ASSUME Stmt(m).kind = "load", Stmt(m).ptr \notin Waiting', NEW o \in pts'[Stmt(m).ptr]
       PROVE  df'.in[m][o] \subseteq pts'[Stmt(m).dst]
  <2>1. Stmt(m).dst \in Vars /\ Stmt(m).ptr \in Vars /\ Stmt(m).ptr \in Used(Stmt(m))
    BY <1>1, <1>9 DEF Typed, Used
  <2>2. pts'[Stmt(m).ptr] = pts[Stmt(m).ptr] /\ Stmt(m).ptr \notin Waiting
    BY <1>6, <1>9, <2>1
  <2>3. o \in pts[Stmt(m).ptr] /\ o \in Objs
    BY <1>1, <1>9, <2>1, <2>2 DEF Sets
  <2>4. df.in[m][o] \subseteq r.pts[Stmt(m).dst] \/ df.in[m][o] \subseteq pts[Stmt(m).dst]
    <3>1. CASE m # n
      BY <1>7, <1>9, <2>2, <2>3, <3>1 DEF Settled
    <3>2. CASE m = n /\ HasNew(df.inNew, n, o)
      BY <1>2, <1>9, <2>3, <3>2 DEF Settles
    <3>3. CASE m = n /\ ~HasNew(df.inNew, n, o)
      BY <1>9, <2>3, <3>3 DEF Consumed
    <3> QED
      BY <3>1, <3>2, <3>3
  <2> QED
    BY <1>3, <1>5, <2>1, <2>3, <2>4
<1>10. ASSUME Stmt(m).kind = "store", Stmt(m).ptr \notin Waiting', Stmt(m).src \notin Waiting', NEW o \in Objs
       PROVE  /\ o \in pts'[Stmt(m).ptr] => pts'[Stmt(m).src] \subseteq df'.out[m][o]
              /\ pts'[Stmt(m).ptr] # {} /\ ~IsStrongUpdate(m, o)' => df'.in[m][o] \subseteq df'.out[m][o]
  <2>1. /\ Stmt(m).ptr \in Vars /\ Stmt(m).ptr \in Used(Stmt(m))
        /\ Stmt(m).src \in Vars /\ Stmt(m).src \in Used(Stmt(m))
    BY <1>1, <1>10 DEF Typed, Used
  <2>2. /\ pts'[Stmt(m).ptr] = pts[Stmt(m).ptr] /\ Stmt(m).ptr \notin Waiting
        /\ pts'[Stmt(m).src] = pts[Stmt(m).src] /\ Stmt(m).src \notin Waiting
    BY <1>6, <1>10, <2>1
  <2>3. IsStrongUpdate(m, o)' <=> IsStrongUpdate(m, o)
    BY <1>1, <2>2 DEF IsStrongUpdate
  <2>4. /\ o \in pts[Stmt(m).ptr] => pts[Stmt(m).src] \subseteq df'.out[m][o]
        /\ pts[Stmt(m).ptr] # {} /\ ~IsStrongUpdate(m, o) => df.in[m][o] \subseteq df'.out[m][o]
    <3>1. CASE m # n
      BY <1>4, <1>7, <1>10, <2>2, <3>1 DEF Settled
    <3>2. CASE m = n
      <4>1. o \in pts[Stmt(n).ptr] => pts[Stmt(n).src] \subseteq r.df.out[n][o]
        BY <1>2, <1>10, <3>2 DEF Settles
      <4>2. CASE HasNew(df.inNew, n, o)
        BY <1>2, <1>4, <1>10, <3>2, <4>1, <4>2 DEF Settles
      <4>3. CASE ~HasNew(df.inNew, n, o)
        <5>1. df.in[n][o] \subseteq df.out[n][o]
          BY <1>10, <3>2, <4>3 DEF Consumed
        <5> QED
          BY <1>1, <1>4, <3>2, <4>1, <5>1
      <4> QED
        BY <4>2, <4>3
    <3> QED
      BY <3>1, <3>2
  <2> QED
    BY <1>5, <2>2, <2>3, <2>4
<1>11. ASSUME Stmt(m).kind = "mssa", NEW e \in indirect, e[1] = m
       PROVE  df'.in[m][e[3]] \subseteq df'.in[e[2]][e[3]]
  <2>1. e[2] \in NodesOf(g) /\ e[3] \in Objs
    OBVIOUS
  <2>2. df'.in[m][e[3]] = df.in[m][e[3]] /\ df.in[e[2]][e[3]] \subseteq df'.in[e[2]][e[3]]
    BY <1>2, <1>5, <2>1 DEF Visited, VisitedTop
  <2>3. CASE m # n
    BY <1>7, <1>11, <2>2, <2>3 DEF Settled
  <2>4. CASE m = n /\ ~HasNew(df.inNew, n, e[3])
    BY <1>11, <2>1, <2>2, <2>4 DEF Consumed
  <2>5. CASE m = n /\ HasNew(df.inNew, n, e[3])
    <3>1. r.changed /\ r.df = df
      BY <1>2, <1>11, <2>5 DEF Adds
    <3>2. LeavesNew(r.df, n, e[3]) /\ Exit(g, r.df, n, e[3]) = df.in[n][e[3]]
      BY <1>11, <2>5, <3>1 DEF LeavesNew, Exit, IsStore, Stmt
    <3>3. Exit(g, r.df, n, e[3]) \subseteq df'.in[e[2]][e[3]]
      BY <1>2, <1>11, <2>5, <3>1, <3>2 DEF Visited, VisitedTop
    <3> QED
      BY <2>2, <2>5, <3>2, <3>3
  <2> QED
    BY <2>3, <2>4, <2>5
<1>12. \A k : Stmt(k)' = Stmt(k) /\ direct' = direct /\ indirect' = indirect /\ NodesOf(g)' = NodesOf(g)
  BY <1>1
<1> HIDE DEF r
<1> QED
  BY <1>8, <1>9, <1>10, <1>11, <1>12 DEF Settled

\* Define takes in no more than it is given.
LEMMA DefinesWithin ==
    ASSUME FlowType, Within(pts), NEW v \in Vars, NEW add \in SUBSET Objs, add \subseteq sol.pts[v]
    PROVE  Within(Define(v, add).pts) /\ Define(v, add).pts \in Sets
<1>1. Define(v, add).pts = [pts EXCEPT ![v] = @ \cup add]
  BY DEF Define
<1>2. pts \in Sets
  BY DEF FlowType
<1> QED
  BY <1>1, <1>2 DEF Within, Sets

LEMMA ProcessWithin ==
    ASSUME FlowType, Within(pts), MemoryWithin(df), NEW n \in NodesOf(g)
    PROVE  Within(ProcessSVFGNode(n).pts) /\ MemoryWithin(ProcessSVFGNode(n).df)
<1> DEFINE r == ProcessSVFGNode(n)
<1>1. pts \in Sets /\ df \in Tables /\ Typed(Stmt(n)) /\ Adds(n, r)
  BY NodeKinds, ProcessAdds DEF FlowType
<1>2. CASE Stmt(n).kind = "store"
  <2> DEFINE to     == pts[Stmt(n).ptr]
             passed == {o \in Objs : HasNew(df.inNew, n, o) /\ ~IsStrongUpdate(n, o)}
             out    == [o \in Objs |-> df.out[n][o]
                                       \cup (IF o \in to THEN pts[Stmt(n).src] ELSE {})
                                       \cup (IF o \in passed THEN df.in[n][o] ELSE {})]
             grown  == {o \in Objs : out[o] # df.out[n][o]}
  <2>1. r = ProcessStore(n) /\ n \in Stores(g)
    BY <1>2 DEF ProcessSVFGNode, Stores, OfKind, Stmt
  <2>2. CASE to = {}
    BY <2>1, <2>2 DEF ProcessStore, Unchanged
  <2>3. CASE to # {}
    <3>1. /\ r.pts = pts
          /\ r.df = [df EXCEPT !.out[n] = out, !.outNew[n] = @ \cup grown, !.inNew[n] = @ \ passed]
      BY <2>1, <2>3 DEF ProcessStore
    <3>2. r.df.out = [df.out EXCEPT ![n] = out]
      <4> DEFINE o1 == [df.out EXCEPT ![n] = out]
                 o2 == [df.outNew EXCEPT ![n] = @ \cup grown]
                 o3 == [df.inNew EXCEPT ![n] = @ \ passed]
      <4>1. r.df = [df EXCEPT !.out = o1, !.outNew = o2, !.inNew = o3]
        BY <1>1, <3>1 DEF Tables
      <4> HIDE DEF o1, o2, o3, r, out, grown, passed
      <4>2. r.df.out = o1
        BY <1>1, <4>1 DEF Tables
      <4> QED
        BY <4>2 DEF o1
    <3>3. ASSUME NEW o \in Objs PROVE out[o] \subseteq sol.out[n][o]
      <4>1. df.out[n][o] \subseteq sol.out[n][o] /\ df.in[n][o] \subseteq sol.in[n][o]
        BY DEF MemoryWithin
      <4> QED
        BY <2>1, <2>3, <4>1, StoreWithin
    <3>4. r.df.in = df.in
      BY <1>1 DEF Adds
    <3>5. \A m \in NodesOf(g) : r.df.out[m] = IF m = n THEN out ELSE df.out[m]
      BY <1>1, <3>2 DEF Tables, Memory
    <3> HIDE DEF r, out
    <3> QED
      BY <3>1, <3>3, <3>4, <3>5 DEF MemoryWithin, r
  <2> QED
    BY <2>2, <2>3
<1>3. CASE Stmt(n).kind # "store"
  <2>1. \A m \in NodesOf(g), o \in Objs : r.df.out[m][o] = df.out[m][o] /\ r.df.in[m][o] = df.in[m][o]
    BY <1>1, <1>3 DEF Adds, IsStore
  <2>2. Within(r.pts)
    <3>1. CASE Stmt(n).kind = "addr"
      <4>1. Stmt(n).dst \in Vars /\ {Stmt(n).obj} \in SUBSET Objs
        BY <1>1, <3>1 DEF Typed
      <4>2. r = Define(Stmt(n).dst, {Stmt(n).obj})
        BY <3>1 DEF ProcessSVFGNode, ProcessTopLevel
      <4> QED
        BY <3>1, <4>1, <4>2, DefineWithin, DefinesWithin
    <3>2. CASE Stmt(n).kind = "copy"
      <4> DEFINE add == UNION {pts[v] : v \in Stmt(n).srcs}
      <4>1. Stmt(n).dst \in Vars /\ add \in SUBSET Objs
        BY <1>1, <3>2 DEF Typed, Sets
      <4>2. r = Define(Stmt(n).dst, add)
        BY <3>2 DEF ProcessSVFGNode, ProcessTopLevel
      <4>3. add \subseteq sol.pts[Stmt(n).dst]
        BY <3>2, DefineWithin
      <4> HIDE DEF add, r
      <4> QED
        BY <4>1, <4>2, <4>3, DefinesWithin
    <3>3. CASE Stmt(n).kind = "load"
      <4> DEFINE from == {o \in pts[Stmt(n).ptr] : HasNew(df.inNew, n, o)}
                 add  == UNION {df.in[n][o] : o \in from}
      <4>1. Stmt(n).dst \in Vars /\ Stmt(n).ptr \in Vars /\ from \subseteq Objs
        BY <1>1, <3>3 DEF Typed, Sets
      <4>2. add \in SUBSET Objs
        BY <1>1, <4>1 DEF Tables, Memory
      <4>3. r.pts = Define(Stmt(n).dst, add).pts
        BY <3>3 DEF ProcessSVFGNode, ProcessLoad, Define
      <4>4. add \subseteq sol.pts[Stmt(n).dst]
        BY <3>3, <4>1, DefineWithin DEF MemoryWithin
      <4> HIDE DEF add, r
      <4> QED
        BY <4>1, <4>2, <4>3, <4>4, DefinesWithin
    <3>4. CASE Stmt(n).kind \notin {"addr", "copy", "load", "store"}
      BY <1>1, <3>4 DEF Adds
    <3> QED
      BY <1>3, <3>1, <3>2, <3>3, <3>4
  <2> HIDE DEF r
  <2> QED
    BY <2>1, <2>2 DEF MemoryWithin, r
<1> QED
  BY <1>2, <1>3

LEMMA VisitWithin ==
    ASSUME FlowType, Within(pts), MemoryWithin(df), indirect \subseteq IndirectOf(g, Resolved(g, sol.pts)),
           NEW n \in worklist, ProcessNode(n), UNCHANGED prog
    PROVE  Within(pts)' /\ MemoryWithin(df)'
<1> DEFINE r   == ProcessSVFGNode(n)
           top == PassOn(n, r.pts)
           es  == {e \in indirect : e[1] = n /\ LeavesNew(r.df, n, e[3])}
           mem == UpdateIn(r.df, es)
<1>1. n \in NodesOf(g) /\ Adds(n, r) /\ Within(r.pts) /\ MemoryWithin(r.df)
  BY ProcessAdds, ProcessWithin DEF FlowType
<1>2. r.pts \in Sets /\ r.df \in Tables /\ r.changed \in BOOLEAN
  BY <1>1 DEF Adds
<1>3. sol' = sol /\ g' = g
  BY DEF sol, g
<1>4. CASE r.changed
  <2>1. pts' = top.pts /\ df' = [mem.df EXCEPT !.outNew[n] = {}]
    BY <1>4 DEF ProcessNode
  <2>2. Within(top.pts)
    <3> HIDE DEF r
    <3> QED
      BY <1>1, <1>2, PassOnWithin
  <2>3. es \in SUBSET IndirectOf(g, Resolved(g, sol.pts))
    OBVIOUS
  <2>4. MemoryWithin(mem.df)
    <3> HIDE DEF r, es
    <3> QED
      BY <1>1, <1>2, <2>3, UpdateInWithin
  <2>5. es \in SUBSET (NodesOf(g) \X NodesOf(g) \X Objs)
    BY <2>3, ProgramFormed, FewerCalls DEF Resolved
  <2>6. mem.df \in Tables
    <3> HIDE DEF r, es
    <3> QED
      BY <1>2, <2>5, UpdateInAdds
  <2>7. df'.in = mem.df.in /\ df'.out = mem.df.out
    <3> HIDE DEF mem
    <3> QED
      BY <1>1, <2>1, <2>6, Cleared
  <2> HIDE DEF r, top, mem
  <2> QED
    BY <1>3, <2>1, <2>2, <2>4, <2>7 DEF Within, MemoryWithin
<1>5. CASE ~r.changed
  <2>1. pts' = r.pts /\ df' = [r.df EXCEPT !.outNew[n] = {}]
    BY <1>5 DEF ProcessNode
  <2> HIDE DEF r
  <2>2. df'.in = r.df.in /\ df'.out = r.df.out
    BY <1>1, <1>2, <2>1, Cleared
  <2> QED
    BY <1>1, <1>3, <2>1, <2>2 DEF Within, MemoryWithin
<1> QED
  BY <1>2, <1>4, <1>5

(***************************************************************************)
(* The invariant of the plain analysis, and what it comes to at the end.   *)
(***************************************************************************)
Plain ==
    /\ indirect = IndirectOf(g, called)
    /\ Delivered /\ Consumed /\ MemoryWithin(df)
    /\ pc \in {"init", "solve", "done"}
    /\ pc = "solve" => \A n \in NodesOf(g) \ worklist : Settled(n)
    /\ pc = "done" => /\ worklist = {} /\ called = Resolved(g, pts)
                      /\ \A n \in NodesOf(g) : Settled(n)

\* What the analysis holds, as a flow.
Current == [pts |-> pts, in |-> df.in, out |-> df.out]

LEMMA SettledCloses ==
    ASSUME FlowType, Plain, pc = "done"
    PROVE  Under(g, FlowStep(g, Current), Current)
<1> DEFINE t == Current
<1>1. /\ t.pts = pts /\ t.in = df.in /\ t.out = df.out
      /\ pts \in Sets /\ df \in Tables
  BY DEF Current, FlowType
<1>2. /\ called = Resolved(g, t.pts) /\ worklist = {} /\ Waiting = {}
      /\ \A n \in NodesOf(g) : Settled(n) /\ Typed(Stmt(n))
      /\ indirect = IndirectOf(g, called) /\ direct = DirectOf(g, called)
  BY <1>1, NodeKinds DEF Plain, Waiting, FlowType
<1> HIDE DEF t
<1>3. ASSUME NEW v \in Vars, NEW x \in Gen(g, t, v) PROVE x \in pts[v]
  <2>1. CASE \E n \in OfKind(g, "addr") : g.stmt[n].dst = v /\ g.stmt[n].obj = x
    BY <1>2, <2>1 DEF OfKind, Settled, TopSettled, Stmt
  <2>2. CASE \E n \in OfKind(g, "copy") : g.stmt[n].dst = v /\ \E w \in g.stmt[n].srcs : x \in pts[w]
    BY <1>2, <2>2 DEF OfKind, Settled, TopSettled, Stmt
  <2>3. CASE \E n \in Loads(g) : g.stmt[n].dst = v /\ \E o \in pts[g.stmt[n].ptr] : x \in df.in[n][o]
    BY <1>2, <2>3 DEF Loads, OfKind, Settled, TopSettled, Stmt
  <2>4. CASE \E e \in ParamCopies(g, direct) : g.stmt[e[2]].var = v /\ x \in pts[g.stmt[e[1]].var]
    <3>1. PICK e \in direct : /\ g.stmt[e[1]].kind = "actual" /\ g.stmt[e[2]].var = v
                              /\ x \in pts[g.stmt[e[1]].var]
      BY <2>4 DEF ParamCopies
    <3>2. e[1] \in NodesOf(g) /\ e[2] \in NodesOf(g) /\ e = <<e[1], e[2]>>
      BY DirectFormed
    <3> QED
      BY <1>2, <3>1, <3>2 DEF Settled, TopSettled, Stmt
  <2> QED
    BY <1>1, <1>2, <1>3, <2>1, <2>2, <2>3, <2>4 DEF Gen
<1>4. ASSUME NEW n \in NodesOf(g), NEW o \in Objs, NEW x \in Arrives(g, t, n, o) PROVE x \in df.in[n][o]
  <2>1. PICK e \in indirect : e[2] = n /\ e[3] = o /\ x \in Exit(g, t, e[1], o)
    BY <1>2, <1>4 DEF Arrives
  <2>2. e[1] \in NodesOf(g) /\ Stmt(e[1]).kind \in {"store", "mssa"}
    BY <1>2, ProgramFormed, FewerCalls DEF FlowType, Stmt
  <2>3. CASE IsStore(e[1])
    BY <1>1, <2>1, <2>3 DEF Plain, Delivered, Exit, IsStore, Stmt
  <2>4. CASE Stmt(e[1]).kind = "mssa"
    BY <1>1, <1>2, <2>1, <2>2, <2>4 DEF Settled, Exit, Stmt
  <2> QED
    BY <2>2, <2>3, <2>4 DEF IsStore
<1>5. ASSUME NEW n \in Stores(g), NEW o \in Objs PROVE Leaves(g, t, n, o) \subseteq df.out[n][o]
  <2>1. n \in NodesOf(g) /\ Stmt(n).kind = "store"
    BY DEF Stores, OfKind, Stmt
  <2>2. ASSUME ~Killed(pts[Stmt(n).ptr], o, StrongObjs(g, called))
        PROVE  pts[Stmt(n).ptr] # {} /\ ~IsStrongUpdate(n, o)
    BY <2>2 DEF Killed, IsStrongUpdate
  <2>3. /\ o \in pts[Stmt(n).ptr] => pts[Stmt(n).src] \subseteq df.out[n][o]
        /\ pts[Stmt(n).ptr] # {} /\ ~IsStrongUpdate(n, o) => df.in[n][o] \subseteq df.out[n][o]
    BY <1>2, <2>1 DEF Settled
  <2> QED
    BY <1>1, <1>2, <2>2, <2>3 DEF Leaves, Stmt
<1>6. \A v \in Vars : FlowStep(g, t).pts[v] \subseteq t.pts[v]
  BY <1>1, <1>3, FlowStepFields
<1>7. \A n \in NodesOf(g), o \in Objs : FlowStep(g, t).in[n][o] \subseteq t.in[n][o]
  BY <1>1, <1>4, FlowStepFields
<1>8. \A n \in NodesOf(g), o \in Objs : FlowStep(g, t).out[n][o] \subseteq t.out[n][o]
  BY <1>1, <1>5, FlowStepFields
<1> QED
  BY <1>6, <1>7, <1>8 DEF Under, t

LEMMA PlainComplete ==
    ASSUME FlowType, Within(pts), Plain
    PROVE  FlowComplete
<1> SUFFICES ASSUME pc = "done" PROVE pts = sol.pts /\ df.in = sol.in /\ df.out = sol.out
  BY DEF FlowComplete, sol
<1>1. Current \in Flows(g) /\ Current.pts = pts /\ Current.in = df.in /\ Current.out = df.out
  BY DEF Current, FlowType, Tables, Sets, Flows
<1>2. Under(g, FlowStep(g, Current), Current)
  BY SettledCloses
<1>3. sol \in Flows(g) /\ Under(g, sol, Current)
  BY <1>1, <1>2, SolutionLeast DEF FlowType, sol, g
<1>4. Under(g, Current, sol)
  BY <1>1 DEF Under, Within, Plain, MemoryWithin
<1> QED
  BY <1>1, <1>3, <1>4, BelowEqual

LEMMA PlainVisit ==
    ASSUME FlowType, Within(pts), Plain, SolveWorklist
    PROVE  FlowType' /\ Within(pts)' /\ Plain'
<1>1. PICK n \in worklist : ProcessNode(n)
  BY DEF SolveWorklist
<1>2. UNCHANGED <<prog, incremental, direct, indirect, called, pc>> /\ pc = "solve" /\ g' = g
  BY DEF SolveWorklist, g
<1>3. indirect = IndirectOf(g, called) /\ called \in SUBSET g.calls
  BY DEF Plain, FlowType
<1>4. indirect \subseteq NodesOf(g) \X NodesOf(g) \X Objs
  BY <1>3, ProgramFormed, FewerCalls
<1>5. indirect \subseteq IndirectOf(g, Resolved(g, sol.pts))
  BY <1>3, CallsWithin
<1>6. Visited(n, ProcessSVFGNode(n))
  BY <1>1, <1>2, <1>4, VisitEffect
<1>7. Consumed' /\ Delivered'
  BY <1>2, <1>4, <1>6, ConsumedKept, DeliveredKept DEF Plain
<1>8. \A m \in NodesOf(g) \ worklist' : Settled(m)'
  BY <1>2, <1>4, <1>6, SettledKept DEF Plain
<1>9. Within(pts)' /\ MemoryWithin(df)'
  BY <1>1, <1>2, <1>5, VisitWithin DEF Plain
<1>10. pts' \in Sets /\ df' \in Tables /\ worklist' \subseteq NodesOf(g)
  BY <1>6 DEF Visited, VisitedTop
<1>11. \A v \in Vars : pts[v] \subseteq pts'[v]
  <2>1. n \in NodesOf(g)
    BY DEF FlowType
  <2> QED
    BY <1>6, <2>1, ProcessAdds DEF Visited, VisitedTop, Adds
<1>12. FlowType'
  <2>1. called \subseteq Resolved(g, pts')
    BY <1>11, ProgramFormed, CallsMonotone DEF FlowType
  <2>2. Sets' = Sets /\ Tables' = Tables
    BY <1>2 DEF Tables, Flags
  <2> QED
    BY <1>2, <1>10, <2>1, <2>2 DEF FlowType
<1> QED
  BY <1>2, <1>3, <1>7, <1>8, <1>9, <1>12 DEF Plain

LEMMA PlainStart ==
    ASSUME FlowType, Within(pts), Plain, InitWorklist
    PROVE  FlowType' /\ Within(pts)' /\ Plain'
<1>1. UNCHANGED <<prog, incremental, pts, df, direct, indirect, called>> /\ worklist' = NodesOf(g)
      /\ pc' = "solve" /\ g' = g /\ \A m : Stmt(m)' = Stmt(m)
  BY DEF InitWorklist, g, Stmt
<1>2. FlowType' /\ Within(pts)'
  BY <1>1 DEF FlowType, Within, Sets, Tables, Flags, sol
<1>3. Delivered' /\ Consumed' /\ MemoryWithin(df)'
  BY <1>1 DEF Plain, Delivered, Consumed, MemoryWithin, HasNew, IsStore, sol
<1> QED
  BY <1>1, <1>2, <1>3 DEF Plain

LEMMA PlainCalls ==
    ASSUME FlowType, Within(pts), Plain, UpdateCallGraph
    PROVE  FlowType' /\ Within(pts)' /\ Plain'
<1> DEFINE es == UNION {c.indirect : c \in NewCalls}
           r  == UpdateIn(df, es)
<1>1. /\ pc = "solve" /\ worklist = {} /\ UNCHANGED <<prog, incremental, pts>> /\ g' = g
      /\ called' = called \cup NewCalls /\ direct' = DirectOf(g, called') /\ indirect' = IndirectOf(g, called')
      /\ pc' = IF NewCalls = {} THEN "done" ELSE "init"
      /\ df' = r.df /\ worklist' = r.push
  BY DEF UpdateCallGraph, Connect, g
<1>2. /\ \A m : Stmt(m)' = Stmt(m) /\ IsStore(m)' = IsStore(m)
      /\ Sets' = Sets /\ Tables' = Tables /\ sol' = sol
  BY <1>1 DEF Stmt, IsStore, Tables, Flags, sol, g
<1>3. called' = Resolved(g, pts) /\ called' \in SUBSET g.calls
  BY <1>1 DEF NewCalls, FlowType, Resolved
<1>4. es \subseteq IndirectOf(g, called') /\ indirect' = indirect \cup es
  BY <1>1 DEF Plain, IndirectOf
<1>5. es \in SUBSET (NodesOf(g) \X NodesOf(g) \X Objs)
  BY <1>3, <1>4, ProgramFormed, FewerCalls
<1>6. IndirectOf(g, called') \subseteq IndirectOf(g, Resolved(g, sol.pts))
  BY <1>3, ProgramFormed, CallsMonotone DEF Within
<1>7. df \in Tables
  BY DEF FlowType
<1>8. /\ df' \in Tables /\ worklist' \subseteq NodesOf(g)
      /\ df'.out = df.out /\ df'.outNew = df.outNew
      /\ \A e \in es : Exit(g, df, e[1], e[3]) \subseteq df'.in[e[2]][e[3]]
      /\ \A m \in NodesOf(g) : df.inNew[m] \subseteq df'.inNew[m]
      /\ \A m \in NodesOf(g), o \in Objs :
            /\ df.in[m][o] \subseteq df'.in[m][o]
            /\ \A x \in df'.in[m][o] \ df.in[m][o] : es # {}
            /\ df'.in[m][o] # df.in[m][o] => o \in df'.inNew[m]
  <2> DEFINE f == es
  <2>1. f \in SUBSET (NodesOf(g) \X NodesOf(g) \X Objs) /\ df' = UpdateIn(df, f).df
        /\ worklist' = UpdateIn(df, f).push
    BY <1>1, <1>5
  <2> HIDE DEF f
  <2>2. /\ df' \in Tables /\ worklist' \subseteq NodesOf(g)
        /\ df'.out = df.out /\ df'.outNew = df.outNew
        /\ \A e \in f : Exit(g, df, e[1], e[3]) \subseteq df'.in[e[2]][e[3]]
        /\ \A m \in NodesOf(g) : df.inNew[m] \subseteq df'.inNew[m]
        /\ \A m \in NodesOf(g), o \in Objs :
              /\ df.in[m][o] \subseteq df'.in[m][o]
              /\ \A x \in df'.in[m][o] \ df.in[m][o] : f # {}
              /\ df'.in[m][o] # df.in[m][o] => o \in df'.inNew[m]
    BY <1>7, <2>1, UpdateInAdds
  <2> QED
    BY <2>2 DEF f
<1>9. MemoryWithin(df')
  <2> DEFINE f == es
  <2>1. f \in SUBSET IndirectOf(g, Resolved(g, sol.pts)) /\ df' = UpdateIn(df, f).df
    BY <1>1, <1>4, <1>6
  <2> HIDE DEF f
  <2> QED
    BY <1>7, <2>1, UpdateInWithin DEF Plain
<1> HIDE DEF es, r
<1>10. FlowType'
  BY <1>1, <1>2, <1>3, <1>8 DEF FlowType
<1>11. Within(pts)' /\ MemoryWithin(df)'
  BY <1>1, <1>2, <1>9 DEF Within, MemoryWithin
<1>12. Delivered'
  <2>1. \A n \in NodesOf(g) : df'.outNew[n] = {}
    BY <1>8 DEF Plain, Delivered
  <2>2. ASSUME NEW e \in indirect', IsStore(e[1]) PROVE df'.out[e[1]][e[3]] \subseteq df'.in[e[2]][e[3]]
    <3>1. CASE e \in es
      BY <1>8, <2>2, <3>1 DEF Exit, IsStore, Stmt
    <3>2. CASE e \in indirect
      <4>1. e[2] \in NodesOf(g) /\ e[3] \in Objs
        BY <3>2, ProgramFormed, FewerCalls DEF Plain, FlowType
      <4>2. df.out[e[1]][e[3]] \subseteq df.in[e[2]][e[3]]
        BY <2>2, <3>2 DEF Plain, Delivered
      <4> QED
        BY <1>8, <4>1, <4>2
    <3> QED
      BY <1>4, <3>1, <3>2
  <2> QED
    BY <1>1, <1>2, <2>1, <2>2 DEF Delivered
<1>13. Consumed'
  <2>1. ASSUME NEW n \in NodesOf(g), NEW o \in Objs, ~(incremental => o \in df'.inNew[n])
        PROVE  ~HasNew(df.inNew, n, o) /\ df'.in[n][o] = df.in[n][o]
    BY <1>8, <2>1 DEF HasNew
  <2>2. \A n \in NodesOf(g), o \in Objs : ~(incremental => o \in df'.inNew[n]) =>
            /\ Stmt(n).kind = "load" => df'.in[n][o] \subseteq pts'[Stmt(n).dst]
            /\ Stmt(n).kind = "store" => df'.in[n][o] \subseteq df'.out[n][o]
            /\ Stmt(n).kind \notin {"load", "store"} => df'.in[n][o] = {}
    BY <1>1, <1>8, <2>1 DEF Plain, Consumed
  <2> QED
    BY <1>1, <1>2, <2>2 DEF Consumed, HasNew
<1>14. ASSUME pc' = "done"
       PROVE  worklist' = {} /\ called' = Resolved(g, pts') /\ \A n \in NodesOf(g) : Settled(n)'
  <2>1. es = {} /\ called' = called /\ direct' = direct /\ indirect' = indirect
    BY <1>1, <1>4, <1>14 DEF es, FlowType, Plain
  <2>2. worklist' = {}
    BY <1>1, <2>1 DEF UpdateIn, r
  <2>3. \A n \in NodesOf(g), o \in Objs : df'.in[n][o] = df.in[n][o]
    BY <1>8, <2>1
  <2>4. Waiting' = {} /\ Waiting = {}
    BY <1>1, <2>2 DEF Waiting
  <2>5. \A n \in NodesOf(g) : Settled(n) /\ Typed(Stmt(n))
    BY <1>1, NodeKinds DEF Plain
  <2>6. indirect \subseteq NodesOf(g) \X NodesOf(g) \X Objs /\ pts \in Sets
    BY ProgramFormed, FewerCalls DEF Plain, FlowType
  <2>7. \A n \in NodesOf(g), o \in Objs : IsStrongUpdate(n, o)' = IsStrongUpdate(n, o)
    BY <1>1, <1>2, <2>1 DEF IsStrongUpdate
  <2>8. ASSUME NEW n \in NodesOf(g) PROVE Settled(n)'
    <3>1. Stmt(n).kind = "load" => \A o \in pts[Stmt(n).ptr] : o \in Objs
      BY <2>5, <2>6 DEF Typed, Sets
    <3>2. \A e \in indirect : e[2] \in NodesOf(g) /\ e[3] \in Objs
      BY <2>6
    <3>3. \A o \in Objs : df'.in[n][o] = df.in[n][o] /\ df'.out[n][o] = df.out[n][o]
      BY <1>8, <2>3
    <3>4. TopSettled(n)'
      BY <1>1, <1>2, <2>1, <2>4, <2>5 DEF Settled, TopSettled
    <3>5. Stmt(n).kind = "load" =>
             Stmt(n).ptr \in Waiting' \/ \A o \in pts'[Stmt(n).ptr] : df'.in[n][o] \subseteq pts'[Stmt(n).dst]
      BY <1>1, <2>4, <2>5, <3>1, <3>3 DEF Settled
    <3>6. Stmt(n).kind = "store" =>
             \/ Stmt(n).ptr \in Waiting' \/ Stmt(n).src \in Waiting'
             \/ \A o \in Objs :
                   /\ o \in pts'[Stmt(n).ptr] => pts'[Stmt(n).src] \subseteq df'.out[n][o]
                   /\ pts'[Stmt(n).ptr] # {} /\ ~IsStrongUpdate(n, o)' => df'.in[n][o] \subseteq df'.out[n][o]
      BY <1>1, <2>4, <2>5, <2>7, <3>3 DEF Settled
    <3>7. Stmt(n).kind = "mssa" =>
             \A e \in indirect' : e[1] = n => df'.in[n][e[3]] \subseteq df'.in[e[2]][e[3]]
      <4> SUFFICES ASSUME Stmt(n).kind = "mssa", NEW e \in indirect, e[1] = n
                   PROVE  df'.in[n][e[3]] \subseteq df'.in[e[2]][e[3]]
        BY <2>1
      <4>1. df.in[n][e[3]] \subseteq df.in[e[2]][e[3]]
        BY <2>5 DEF Settled
      <4>2. e[2] \in NodesOf(g) /\ e[3] \in Objs
        BY <3>2
      <4>3. df'.in[n][e[3]] = df.in[n][e[3]] /\ df'.in[e[2]][e[3]] = df.in[e[2]][e[3]]
        BY <2>3, <4>2
      <4> QED
        BY <4>1, <4>3
    <3> QED
      BY <1>2, <3>4, <3>5, <3>6, <3>7 DEF Settled, Stmt
  <2> QED
    BY <1>1, <1>3, <2>2, <2>8
<1> QED
  BY <1>1, <1>10, <1>11, <1>12, <1>13, <1>14 DEF Plain

-----------------------------------------------------------------------------
(***************************************************************************)
(* Labels: what the versions of an object stand for.                       *)
(***************************************************************************)
PrintOf(o) == Labelled(o).footprint
Nodes    == NodesOf(g)

LEMMA ReachedNodes ==
    ASSUME FlowType, NEW o \in Objs
    PROVE  /\ Overlay(g, o) \subseteq Nodes \X Nodes
           /\ \A e \in Overlay(g, o) : <<e[1], e[2], o>> \in g.indirect
           /\ Reached(g, AndersenPts[prog], o) \subseteq Nodes
           /\ StartingNodes(g, AndersenPts[prog], o) \subseteq Reached(g, AndersenPts[prog], o)
           /\ \A e \in Overlay(g, o) :
                 e[1] \in Reached(g, AndersenPts[prog], o) /\ e[2] \notin Prelabelled(g) =>
                    e[2] \in Reached(g, AndersenPts[prog], o)
<1> DEFINE E == {e \in Overlay(g, o) : e[2] \notin Prelabelled(g)}
           S == StartingNodes(g, AndersenPts[prog], o)
           R == Reached(g, AndersenPts[prog], o)
<1>1. WellFormed(g)
  BY ProgramFormed
<1>2. IndirectOf(g, {}) \subseteq Nodes \X Nodes \X Objs /\ g.indirect \subseteq IndirectOf(g, {})
  BY <1>1, FewerCalls DEF IndirectOf, Nodes
<1>3. /\ Overlay(g, o) \subseteq Nodes \X Nodes
      /\ \A e \in Overlay(g, o) : <<e[1], e[2], o>> \in g.indirect
  BY <1>2 DEF Overlay
<1>4. CallMemory(g) \subseteq Nodes \X Nodes \X Objs
  BY <1>1, FewerCalls DEF CallMemory, IndirectOf, Nodes
<1>5. S \subseteq Nodes
  BY <1>4 DEF StartingNodes, Stores, OfKind, Delta, Nodes
<1>6. /\ Closure(E, Nodes) \in SUBSET (Nodes \X Nodes) /\ E \subseteq Closure(E, Nodes)
      /\ Transitive(Closure(E, Nodes))
  BY <1>1, <1>3, ClosureLeast DEF WellFormed, Nodes
<1>7. R = S \cup {e[2] : e \in {f \in Closure(E, Nodes) : f[1] \in S}}
  BY DEF Reached, ReachedFrom, Nodes
<1>8. ASSUME NEW e \in E, e[1] \in R PROVE e[2] \in R
  <2>1. e = <<e[1], e[2]>> /\ e \in Closure(E, Nodes)
    BY <1>3, <1>6
  <2>2. CASE e[1] \in S
    BY <1>7, <2>1, <2>2
  <2>3. CASE e[1] \notin S
    <3>1. PICK f \in Closure(E, Nodes) : f[1] \in S /\ f[2] = e[1]
      BY <1>7, <1>8, <2>3
    <3>2. f = <<f[1], e[1]>>
      BY <1>6, <3>1
    <3>3. <<f[1], e[2]>> \in Closure(E, Nodes)
      BY <1>6, <2>1, <3>1, <3>2 DEF Transitive
    <3> HIDE DEF E
    <3> QED
      BY <1>7, <3>1, <3>3
  <2> QED
    BY <2>2, <2>3
<1> QED
  BY <1>3, <1>5, <1>6, <1>7, <1>8

LEMMA LabelFacts ==
    ASSUME FlowType, NEW o \in Objs
    PROVE  LET R == Reached(g, AndersenPts[prog], o)
               V == R \cap (Prelabelled(g) \cup DeltaSource(g) \cup Loads(g))
               L == Labelled(o)
           IN  /\ PrintOf(o) = {e \in Overlay(g, o) : e[1] \in R}
               /\ DOMAIN L.consume = V /\ DOMAIN L.yield = V
               /\ \A n \in V : /\ L.consume[n] = Consume(g, PrintOf(o), n)
                               /\ L.yield[n] = Yield(g, PrintOf(o), n)
               /\ \A n \in R : /\ Consume(g, PrintOf(o), n) \in Versions(prog)
                               /\ Yield(g, PrintOf(o), n) \in Versions(prog)
               /\ L.relied = {r \in {<<Yield(g, PrintOf(o), e[1]), Consume(g, PrintOf(o), e[2])>> : e \in PrintOf(o)} :
                                 r[1] # r[2]}
               /\ L.stmts = {<<Consume(g, PrintOf(o), n), n>> :
                                n \in {m \in V : m \in Stores(g) \cup Loads(g) /\ Consume(g, PrintOf(o), m) # {}}}
<1>1. Labelled(o) = Label(g, AndersenPts[prog], o)
  BY DEF Labelled, LabelOf, g, FlowType
<1>2. PrintOf(o) = Footprint(g, AndersenPts[prog], o)
  BY <1>1 DEF PrintOf, Label
<1>3. Labelled(o).versions \subseteq Versions(prog)
  BY DEF Versions, Labelled
<1>4. \A n \in Reached(g, AndersenPts[prog], o) :
         /\ Consume(g, PrintOf(o), n) \in Labelled(o).versions
         /\ Yield(g, PrintOf(o), n) \in Labelled(o).versions
  BY <1>1, <1>2 DEF Label
<1> DEFINE R     == Reached(g, AndersenPts[prog], o)
           V     == R \cap (Prelabelled(g) \cup DeltaSource(g) \cup Loads(g))
           L     == Labelled(o)
           fp    == PrintOf(o)
           C(n)  == Consume(g, fp, n)
           Y(n)  == Yield(g, fp, n)
           pairs == {r \in {<<Y(e[1]), C(e[2])>> : e \in fp} : r[1] # r[2]}
           reads == {<<C(n), n>> : n \in {m \in V : m \in Stores(g) \cup Loads(g) /\ C(m) # {}}}
<1>5. /\ L.consume = [n \in V |-> C(n)] /\ L.yield = [n \in V |-> Y(n)]
      /\ L.relied = pairs /\ L.stmts = reads
  BY <1>1, <1>2 DEF Label
<1>6. fp = {e \in Overlay(g, o) : e[1] \in R}
  BY <1>2 DEF Footprint
<1>7. /\ DOMAIN L.consume = V /\ DOMAIN L.yield = V
      /\ \A n \in V : L.consume[n] = C(n) /\ L.yield[n] = Y(n)
  <2> HIDE DEF V, C, Y
  <2> QED
    BY <1>5
<1>8. \A n \in R : C(n) \in Versions(prog) /\ Y(n) \in Versions(prog)
  BY <1>3, <1>4
<1> QED
  BY <1>5, <1>6, <1>7, <1>8

LEMMA KindsApart ==
    ASSUME FlowType
    PROVE  /\ \A n \in Delta(g) : n \in Nodes /\ Stmt(n).kind = "mssa"
           /\ Stores(g) \cap Delta(g) = {} /\ Loads(g) \cap Delta(g) = {} /\ Stores(g) \cap Loads(g) = {}
           /\ Stores(g) \subseteq Nodes /\ Loads(g) \subseteq Nodes
<1>1. WellFormed(g)
  BY ProgramFormed
<1>2. CallMemory(g) \subseteq Nodes \X Nodes \X Objs
  BY <1>1, FewerCalls DEF CallMemory, IndirectOf, Nodes
<1>3. \A e \in CallMemory(g) : Stmt(e[2]).kind = "mssa"
  BY <1>1 DEF WellFormed, CallMemory, Stmt
<1> QED
  BY <1>2, <1>3 DEF Delta, Stores, Loads, OfKind, Stmt, Nodes

\* The most that version v of o may hold.
Cap(o, v) == UNION {Exit(g, sol, p, o) : p \in v}

(* What arrives at a node holds what any of the nodes melded into its version lets out.  *)
LEMMA CapConsume ==
    ASSUME FlowType, NEW o \in Objs, NEW n \in Nodes
    PROVE  /\ Cap(o, Consume(g, PrintOf(o), n)) \subseteq sol.in[n][o]
           /\ Cap(o, Yield(g, PrintOf(o), n)) \subseteq Exit(g, sol, n, o)
<1> DEFINE fp == PrintOf(o)
           E  == {e \in fp : e[1] \notin Prelabelled(g)}
           T  == {e \in Nodes \X Nodes : sol.in[e[1]][o] \subseteq sol.in[e[2]][o]}
<1>1. WellFormed(g) /\ fp \subseteq Overlay(g, o) /\ fp \subseteq Nodes \X Nodes
  BY ProgramFormed, LabelFacts, ReachedNodes
<1>2. ASSUME NEW e \in fp PROVE Exit(g, sol, e[1], o) \subseteq sol.in[e[2]][o]
  <2>1. e[1] \in Nodes /\ e[2] \in Nodes
    BY <1>1
  <2>2. <<e[1], e[2], o>> \in IndirectOf(g, Resolved(g, sol.pts))
    BY <1>1, ReachedNodes DEF IndirectOf
  <2>3. Exit(g, sol, e[1], o) \subseteq Objs
    BY <2>1, SolutionCloses DEF Exit, Flows, Memory, Nodes
  <2>4. Exit(g, sol, e[1], o) \subseteq Arrives(g, sol, e[2], o)
    BY <2>2, <2>3 DEF Arrives
  <2> QED
    BY <2>1, <2>4, SolutionCloses DEF Nodes
<1>3. \A m \in Nodes : m \notin Stores(g) => Exit(g, sol, m, o) = sol.in[m][o]
  BY DEF Stores, OfKind, Exit, Nodes
<1>4. E \subseteq T
  BY <1>1, <1>2, <1>3 DEF Prelabelled
<1>5. Transitive(T)
  BY DEF Transitive
<1>6. Closure(E, Nodes) \subseteq T
  <2>1. E \in SUBSET (Nodes \X Nodes) /\ T \in SUBSET (Nodes \X Nodes) /\ IsFiniteSet(Nodes)
    BY <1>1 DEF WellFormed, Nodes
  <2> HIDE DEF E, T
  <2> QED
    BY <1>4, <1>5, <2>1, ClosureLeast
<1>7. ASSUME n \notin Delta(g) PROVE Cap(o, Consume(g, fp, n)) \subseteq sol.in[n][o]
  <2>1. Consume(g, fp, n) = MeldVersion(g, fp, n)
    BY <1>7 DEF Consume
  <2>2. ASSUME NEW p \in MeldVersion(g, fp, n) PROVE Exit(g, sol, p, o) \subseteq sol.in[n][o]
    <3>1. PICK f \in fp : f[1] = p /\ (f[2] = n \/ <<f[2], n>> \in Closure(E, Nodes))
      BY <2>2 DEF MeldVersion, Nodes
    <3>2. sol.in[f[2]][o] \subseteq sol.in[n][o]
      BY <1>6, <3>1
    <3> QED
      BY <1>2, <3>1, <3>2
  <2> HIDE DEF fp
  <2> QED
    BY <2>1, <2>2 DEF Cap
<1>8. ASSUME n \in Delta(g) PROVE Cap(o, Consume(g, fp, n)) \subseteq sol.in[n][o]
  <2>1. Consume(g, fp, n) = {n} /\ n \notin Stores(g)
    BY <1>8, KindsApart DEF Consume
  <2> QED
    BY <1>3, <2>1 DEF Cap
<1> HIDE DEF fp
<1>9. Cap(o, Yield(g, fp, n)) \subseteq Exit(g, sol, n, o)
  BY <1>3, <1>7, <1>8 DEF Cap, Yield
<1> QED
  BY <1>7, <1>8, <1>9 DEF fp

(* What is yielded at one end of an edge on o is melded into what is consumed at the other. *)
LEMMA MeldsOn ==
    ASSUME FlowType, NEW o \in Objs, NEW e \in PrintOf(o)
    PROVE  e[2] \notin Delta(g) => Yield(g, PrintOf(o), e[1]) \subseteq Consume(g, PrintOf(o), e[2])
<1> DEFINE fp == PrintOf(o)
           E  == {f \in fp : f[1] \notin Prelabelled(g)}
<1>1. WellFormed(g) /\ fp \subseteq Nodes \X Nodes
  BY ProgramFormed, LabelFacts, ReachedNodes
<1>2. /\ Closure(E, Nodes) \in SUBSET (Nodes \X Nodes) /\ E \subseteq Closure(E, Nodes)
      /\ Transitive(Closure(E, Nodes))
  BY <1>1, ClosureLeast DEF WellFormed, Nodes
<1> SUFFICES ASSUME e[2] \notin Delta(g), NEW p \in Yield(g, fp, e[1]) PROVE p \in MeldVersion(g, fp, e[2])
  BY DEF Consume
<1>3. MeldVersion(g, fp, e[2]) =
         {f[1] : f \in {f \in fp : f[1] \in Prelabelled(g)
                                   /\ (f[2] = e[2] \/ <<f[2], e[2]>> \in Closure(E, Nodes))}}
  BY DEF MeldVersion, Nodes
<1>4. CASE e[1] \in Prelabelled(g)
  <2>1. p = e[1]
    BY <1>4 DEF Yield, Consume, Prelabelled
  <2> HIDE DEF fp, E
  <2> QED
    BY <1>3, <1>4, <2>1 DEF fp
<1>5. CASE e[1] \notin Prelabelled(g)
  <2>1. p \in MeldVersion(g, fp, e[1])
    BY <1>5 DEF Yield, Consume, Prelabelled
  <2>2. PICK f \in fp : /\ f[1] = p /\ p \in Prelabelled(g)
                        /\ f[2] = e[1] \/ <<f[2], e[1]>> \in Closure(E, Nodes)
    BY <2>1 DEF MeldVersion, Nodes
  <2>3. <<e[1], e[2]>> \in Closure(E, Nodes)
    BY <1>1, <1>2, <1>5
  <2>4. <<f[2], e[2]>> \in Closure(E, Nodes)
    BY <1>2, <2>2, <2>3 DEF Transitive
  <2> HIDE DEF fp, E
  <2> QED
    BY <1>3, <2>2, <2>4
<1> QED
  BY <1>4, <1>5

\* A pair of versions between which everything that may be held may pass.
LEMMA CapRelied ==
    ASSUME FlowType, NEW o \in Objs, NEW r \in Labelled(o).relied
    PROVE  /\ r[1] \in Versions(prog) /\ Cap(o, r[1]) \subseteq Cap(o, r[2])
           /\ r[1] \subseteq Nodes /\ r[2] \subseteq Nodes
<1>1. PICK e \in PrintOf(o) : r = <<Yield(g, PrintOf(o), e[1]), Consume(g, PrintOf(o), e[2])>>
  BY LabelFacts
<1>2. /\ e[1] \in Reached(g, AndersenPts[prog], o) /\ e[1] \in Nodes /\ e[2] \in Nodes
      /\ <<e[1], e[2], o>> \in g.indirect /\ PrintOf(o) \subseteq Nodes \X Nodes
  BY LabelFacts, ReachedNodes
<1>3. r[1] \in Versions(prog)
  BY <1>1, <1>2, LabelFacts
<1>4. \A n \in Nodes : Consume(g, PrintOf(o), n) \subseteq Nodes /\ Yield(g, PrintOf(o), n) \subseteq Nodes
  BY <1>2 DEF Consume, Yield, MeldVersion
<1>5. ASSUME e[2] \notin Delta(g) PROVE Cap(o, r[1]) \subseteq Cap(o, r[2])
  <2>1. r[1] \subseteq r[2]
    BY <1>1, <1>5, MeldsOn
  <2> QED
    BY <2>1 DEF Cap
<1>6. ASSUME e[2] \in Delta(g) PROVE Cap(o, r[1]) \subseteq Cap(o, r[2])
  <2>1. r[2] = {e[2]} /\ Exit(g, sol, e[2], o) = sol.in[e[2]][o]
    BY <1>1, <1>6, KindsApart DEF Consume, Exit, Stmt
  <2>2. Cap(o, r[2]) = sol.in[e[2]][o]
    BY <2>1 DEF Cap
  <2>3. <<e[1], e[2], o>> \in IndirectOf(g, Resolved(g, sol.pts))
    BY <1>2 DEF IndirectOf
  <2>4. Exit(g, sol, e[1], o) \subseteq Objs
    BY <1>2, SolutionCloses DEF Exit, Flows, Memory, Nodes
  <2>5. Exit(g, sol, e[1], o) \subseteq sol.in[e[2]][o]
    BY <1>2, <2>3, <2>4, SolutionCloses DEF Arrives, Nodes
  <2> QED
    BY <1>1, <1>2, <2>2, <2>5, CapConsume
<1> QED
  BY <1>1, <1>2, <1>3, <1>4, <1>5, <1>6

-----------------------------------------------------------------------------
(***************************************************************************)
(* With versions: no version holds more than its nodes let out.            *)
(***************************************************************************)
Labels == [Nodes -> [Objs -> SUBSET Nodes]]
VSets  == [Objs -> [Versions(prog) -> SUBSET Objs]]

VersionType ==
    /\ versioning \in {"off", "labelling", "on"}
    /\ versioning # "labelling" => jobs = {}
    /\ versioning # "off" => df = EmptyTables
    /\ \A o \in DOMAIN equivalentObject :
          o \in Objs /\ equivalentObject[o] \in Objs /\ PrintOf(equivalentObject[o]) = PrintOf(o)
    /\ consume \in Labels /\ yield \in Labels
    /\ versionReliance \in [Objs -> SUBSET ((SUBSET Nodes) \X (SUBSET Nodes))]
    /\ stmtReliance \in [Objs -> SUBSET ((SUBSET Nodes) \X Nodes)]
    /\ vpts \in VSets
    /\ propNodes \subseteq Objs \X SUBSET Nodes /\ propWork \subseteq propNodes

\* A version is none, or what was melded at the node.
IsLabel(v, label) == v = {} \/ (v = label /\ v \in Versions(prog))
Assigned ==
    \A n \in Nodes, o \in Objs : /\ IsLabel(consume[n][o], Consume(g, PrintOf(o), n))
                                 /\ IsLabel(yield[n][o], Yield(g, PrintOf(o), n))

\* Reliances come from the footprint, and once solving also from calls.
Added(o, r) ==
    /\ r[1] # {} /\ r[2] # {}
    /\ \E c \in called : \E e \in c.indirect : e[3] = o /\ r = <<getYield(e[1], o), getConsume(e[2], o)>>
Relying ==
    \A o \in Objs : \A r \in versionReliance[o] :
        r \in Labelled(o).relied \/ (versioning = "on" /\ Added(o, r))

HoldsWithin(vp) == \A o \in Objs, v \in Versions(prog) : vp[o][v] \subseteq Cap(o, v)

LEMMA SameLabels ==
    ASSUME FlowType, NEW o \in Objs, NEW x \in Objs, PrintOf(x) = PrintOf(o)
    PROVE  Labelled(x).relied = Labelled(o).relied
<1> DEFINE pairs(fp) == {r \in {<<Yield(g, fp, e[1]), Consume(g, fp, e[2])>> : e \in fp} : r[1] # r[2]}
<1>1. \A y \in Objs : Labelled(y).relied = pairs(PrintOf(y))
  BY LabelFacts
<1> HIDE DEF pairs
<1> QED
  BY <1>1

LEMMA Got ==
    ASSUME FlowType, VersionType, Assigned, NEW o \in Objs, NEW n \in Nodes
    PROVE  /\ Canonical(o) \in Objs /\ PrintOf(Canonical(o)) = PrintOf(o)
           /\ IsLabel(getConsume(n, o), Consume(g, PrintOf(o), n))
           /\ IsLabel(getYield(n, o), Yield(g, PrintOf(o), n))
<1>1. Canonical(o) \in Objs /\ PrintOf(Canonical(o)) = PrintOf(o)
  BY DEF Canonical, VersionType
<1> QED
  BY <1>1 DEF getConsume, getYield, Assigned

LEMMA AddedWithin ==
    ASSUME FlowType, VersionType, Assigned, Within(pts), NEW o \in Objs, NEW c \in Resolved(g, sol.pts),
           NEW e \in c.indirect, e[3] = o, NEW r, r = <<getYield(e[1], o), getConsume(e[2], o)>>,
           r[1] # {}, r[2] # {}
    PROVE  /\ r[1] \in Versions(prog) /\ Cap(o, r[1]) \subseteq Cap(o, r[2])
           /\ r \in (SUBSET Nodes) \X (SUBSET Nodes)
<1>1. Resolved(g, sol.pts) \in SUBSET g.calls
  BY DEF Resolved
<1>2. /\ e \in IndirectOf(g, Resolved(g, sol.pts)) /\ e[2] \in Delta(g)
      /\ e[1] \in Nodes /\ e[2] \in Nodes /\ e = <<e[1], e[2], o>>
  BY <1>1, ProgramFormed, FewerCalls DEF IndirectOf, Delta, CallMemory, Nodes
<1>3. /\ r[1] = Yield(g, PrintOf(o), e[1]) /\ r[1] \in Versions(prog)
      /\ r[2] = Consume(g, PrintOf(o), e[2])
  BY <1>2, Got DEF IsLabel
<1>4. r[2] = {e[2]} /\ Stmt(e[2]).kind = "mssa"
  BY <1>2, <1>3, KindsApart DEF Consume
<1>5. Cap(o, r[2]) = sol.in[e[2]][o]
  BY <1>4 DEF Cap, Exit, Stmt
<1>6. Exit(g, sol, e[1], o) \subseteq Objs
  BY <1>2, SolutionCloses DEF Exit, Flows, Memory, Nodes
<1>7. Exit(g, sol, e[1], o) \subseteq sol.in[e[2]][o]
  BY <1>2, <1>6, SolutionCloses DEF Arrives, Nodes
<1>8. Cap(o, r[1]) \subseteq Exit(g, sol, e[1], o)
  BY <1>2, <1>3, CapConsume
<1>9. getYield(e[1], o) \subseteq Nodes /\ getConsume(e[2], o) \subseteq Nodes
  <2>1. Canonical(o) \in Objs
    BY <1>2, Got
  <2> QED
    BY <1>2, <2>1 DEF getYield, getConsume, VersionType, Labels
<1> QED
  BY <1>3, <1>5, <1>7, <1>8, <1>9

LEMMA RelyingWithin ==
    ASSUME FlowType, VersionType, Assigned, Relying, Within(pts), NEW o \in Objs,
           NEW r \in versionReliance[o]
    PROVE  r[1] \in Versions(prog) /\ Cap(o, r[1]) \subseteq Cap(o, r[2])
<1>1. CASE r \in Labelled(o).relied
  BY <1>1, CapRelied
<1>2. CASE Added(o, r)
  <2>1. PICK c \in called : \E e \in c.indirect : e[3] = o /\ r = <<getYield(e[1], o), getConsume(e[2], o)>>
    BY <1>2 DEF Added
  <2>2. PICK e \in c.indirect : e[3] = o /\ r = <<getYield(e[1], o), getConsume(e[2], o)>>
    BY <2>1
  <2>3. c \in Resolved(g, sol.pts)
    BY CallsWithin
  <2>4. r[1] # {} /\ r[2] # {}
    BY <1>2 DEF Added
  <2> QED
    BY <2>2, <2>3, <2>4, AddedWithin
<1> QED
  BY <1>1, <1>2 DEF Relying

LEMMA PropagatesWithin ==
    ASSUME FlowType, VersionType, NEW vp \in VSets, HoldsWithin(vp),
           NEW rel \in [Objs -> SUBSET ((SUBSET Nodes) \X (SUBSET Nodes))],
           \A o \in Objs : \A r \in rel[o] : r[1] \in Versions(prog) /\ Cap(o, r[1]) \subseteq Cap(o, r[2])
    PROVE  LET p == PropagateVersions(vp, rel)
           IN  /\ p.vpts \in VSets /\ HoldsWithin(p.vpts)
               /\ p.grown \subseteq Objs \X SUBSET Nodes
               /\ Readers(p.grown) \subseteq Nodes
<1> DEFINE p         == PropagateVersions(vp, rel)
           add(o, v) == UNION {vp[o][e[1]] : e \in {f \in rel[o] : f[2] = v}}
<1>1. /\ p.vpts = [o \in Objs |-> [v \in Versions(prog) |-> vp[o][v] \cup add(o, v)]]
      /\ p.grown = UNION {{<<o, e[2]>> : e \in {f \in rel[o] : ~(vp[o][f[1]] \subseteq vp[o][f[2]])}} : o \in Objs}
  BY DEF PropagateVersions
<1>2. ASSUME NEW o \in Objs, NEW v \in Versions(prog)
      PROVE  add(o, v) \subseteq Objs /\ add(o, v) \subseteq Cap(o, v)
  <2>1. ASSUME NEW e \in rel[o], e[2] = v PROVE vp[o][e[1]] \subseteq Objs /\ vp[o][e[1]] \subseteq Cap(o, v)
    <3>1. e[1] \in Versions(prog) /\ Cap(o, e[1]) \subseteq Cap(o, v)
      BY <2>1
    <3> QED
      BY <3>1 DEF VSets, HoldsWithin
  <2> QED
    BY <2>1
<1>3. p.vpts \in VSets
  BY <1>1, <1>2 DEF VSets
<1>4. HoldsWithin(p.vpts)
  BY <1>1, <1>2 DEF HoldsWithin
<1>5. p.grown \subseteq Objs \X SUBSET Nodes
  BY <1>1
<1>6. Readers(p.grown) \subseteq Nodes
  <2> HIDE DEF p
  <2> QED
    BY <1>5 DEF Readers, VersionType
<1> QED
  BY <1>3, <1>4, <1>5, <1>6

Precise ==
    FlowType /\ Within(pts) /\ VersionType /\ Assigned /\ Relying /\ HoldsWithin(vpts)

(* What may be read and written is bounded by the solution. *)
LEMMA ReadWithin ==
    ASSUME Precise, NEW n \in Nodes, NEW o \in Objs
    PROVE  /\ getConsume(n, o) # {} => /\ vpts[o][getConsume(n, o)] \subseteq sol.in[n][o]
                                       /\ vpts[o][getConsume(n, o)] \subseteq Objs
           /\ consume[n][o] # {} => /\ vpts[o][consume[n][o]] \subseteq sol.in[n][o]
                                    /\ vpts[o][consume[n][o]] \subseteq Objs
<1>1. \A v \in Versions(prog) : vpts[o][v] \subseteq Cap(o, v) /\ vpts[o][v] \subseteq Objs
  BY DEF Precise, HoldsWithin, VersionType, VSets
<1>2. IsLabel(getConsume(n, o), Consume(g, PrintOf(o), n)) /\ IsLabel(consume[n][o], Consume(g, PrintOf(o), n))
  BY Got DEF Precise, Assigned
<1> QED
  BY <1>1, <1>2, CapConsume DEF IsLabel, Precise

LEMMA PreciseVersions == Precise => VersionsPrecise
<1> SUFFICES ASSUME Precise, NEW n \in Stores(g) \cup Loads(g), NEW o \in Objs, getConsume(n, o) # {}
             PROVE  vpts[o][getConsume(n, o)] \subseteq Solution[prog].in[n][o]
  BY DEF VersionsPrecise
<1>1. n \in Nodes
  BY KindsApart DEF Precise
<1> QED
  BY <1>1, ReadWithin DEF sol

(***************************************************************************)
(* The workers keep the labels right.                                      *)
(***************************************************************************)
LEMMA SameProgram ==
    ASSUME prog' = prog
    PROVE  /\ g' = g /\ Nodes' = Nodes /\ sol' = sol /\ Labels' = Labels /\ VSets' = VSets
           /\ Sets' = Sets /\ Tables' = Tables /\ \A m : Stmt(m)' = Stmt(m)
           /\ \A o : Labelled(o)' = Labelled(o) /\ PrintOf(o)' = PrintOf(o)
           /\ \A o, v : Cap(o, v)' = Cap(o, v)
BY DEF g, Nodes, sol, Labels, VSets, Sets, Tables, Flags, Stmt, Labelled, PrintOf, Cap

\* The program and the flow are left alone.
LEMMA FlowKept ==
    ASSUME FlowType, Within(pts), UNCHANGED <<prog, incremental, pts, df, direct, called, worklist>>
    PROVE  FlowType' /\ Within(pts)'
BY SameProgram DEF FlowType, Within

LEMMA LabelsKept ==
    ASSUME VersionType, Assigned, Relying, HoldsWithin(vpts),
           UNCHANGED <<prog, df, versioning, labels, vpts, propNodes, propWork>>, jobs' = jobs \/ versioning = "labelling"
    PROVE  /\ Assigned' /\ HoldsWithin(vpts)'
           /\ versionReliance' \in [Objs -> SUBSET ((SUBSET Nodes) \X (SUBSET Nodes))]
              /\ stmtReliance' \in [Objs -> SUBSET ((SUBSET Nodes) \X Nodes)] => VersionType'
<1>1. UNCHANGED <<equivalentObject, consume, yield>>
  BY DEF labels
<1>2. Assigned'
  BY <1>1, SameProgram DEF Assigned, IsLabel
<1>3. HoldsWithin(vpts)'
  BY SameProgram DEF HoldsWithin
<1>4. EmptyTables' = EmptyTables
  BY SameProgram DEF EmptyTables, NoFlow
<1> QED
  BY <1>1, <1>2, <1>3, <1>4, SameProgram DEF VersionType

LEMMA PrecisePop == ASSUME Precise, PopObject PROVE Precise'
<1>1. /\ UNCHANGED <<prog, incremental, pts, df, direct, called, worklist, versioning, labels,
                     versionReliance, stmtReliance, vpts, propNodes, propWork>>
      /\ versioning = "labelling"
  BY DEF PopObject, fsVars, solving
<1>2. FlowType' /\ Within(pts)' /\ Assigned' /\ HoldsWithin(vpts)' /\ VersionType'
  BY <1>1, FlowKept, LabelsKept, SameProgram DEF Precise, VersionType
<1>3. Relying'
  BY <1>1, SameProgram DEF Precise, Relying
<1> QED
  BY <1>2, <1>3 DEF Precise

LEMMA PreciseFill == ASSUME Precise, FillVersionReliance PROVE Precise'
<1>1. PICK o \in Objs : versionReliance' = [versionReliance EXCEPT ![o] = Labelled(o).relied]
                        /\ At(o, "rely") \in jobs
  BY DEF FillVersionReliance
<1>2. /\ UNCHANGED <<prog, incremental, pts, df, direct, called, worklist, versioning, labels, stmtReliance,
                     vpts, propNodes, propWork>>
      /\ versioning = "labelling"
  BY <1>1 DEF FillVersionReliance, fsVars, Precise, VersionType
<1>3. Labelled(o).relied \subseteq (SUBSET Nodes) \X (SUBSET Nodes)
  <2>1. \A r \in Labelled(o).relied : r \in (SUBSET Nodes) \X (SUBSET Nodes)
    <3>1. \A r \in Labelled(o).relied : r = <<r[1], r[2]>>
      <4> DEFINE Y(n) == Yield(g, PrintOf(o), n)
                 C(n) == Consume(g, PrintOf(o), n)
      <4>1. Labelled(o).relied \subseteq {<<Y(e[1]), C(e[2])>> : e \in PrintOf(o)}
        BY LabelFacts DEF Precise
      <4> HIDE DEF Y, C
      <4> QED
        BY <4>1
    <3> QED
      BY <3>1, CapRelied DEF Precise
  <2> QED
    BY <2>1
<1>4. versionReliance' \in [Objs -> SUBSET ((SUBSET Nodes) \X (SUBSET Nodes))]
  BY <1>1, <1>3 DEF Precise, VersionType
<1>5. FlowType' /\ Within(pts)' /\ Assigned' /\ HoldsWithin(vpts)' /\ VersionType'
  BY <1>2, <1>4, FlowKept, LabelsKept DEF Precise, VersionType
<1>6. \A x \in Objs : versionReliance'[x] = IF x = o THEN Labelled(o).relied ELSE versionReliance[x]
  BY <1>1 DEF Precise, VersionType
<1>7. Relying'
  BY <1>2, <1>6, SameProgram DEF Precise, Relying
<1> QED
  BY <1>5, <1>7 DEF Precise

LEMMA PreciseClaim == ASSUME Precise, ClaimFootprint PROVE Precise'
<1>1. PICK o \in Objs :
        /\ At(o, "claim") \in jobs
        /\ \/ /\ SetOwner(o, o) /\ UNCHANGED <<versionReliance, stmtReliance>>
           \/ \E owner \in SameFootprint(o) :
                 /\ SetOwner(o, owner)
                 /\ versionReliance' = [versionReliance EXCEPT ![o] = @ \cup versionReliance[owner]]
                 /\ stmtReliance' = [stmtReliance EXCEPT ![o] = @ \cup stmtReliance[owner]]
  BY DEF ClaimFootprint
<1>2. /\ UNCHANGED <<prog, incremental, pts, df, direct, called, worklist, versioning, consume, yield, vpts,
                     propNodes, propWork>>
      /\ versioning = "labelling"
  BY <1>1 DEF ClaimFootprint, fsVars, Precise, VersionType
<1>3. FlowType' /\ Within(pts)'
  BY <1>2, FlowKept DEF Precise
<1>4. Assigned' /\ HoldsWithin(vpts)'
  BY <1>2, SameProgram DEF Precise, Assigned, IsLabel, HoldsWithin
<1>5. \A r \in UNION {versionReliance[x] : x \in SameFootprint(o)} : r \in Labelled(o).relied
  <2> SUFFICES ASSUME NEW x \in SameFootprint(o), NEW r \in versionReliance[x]
               PROVE  r \in Labelled(o).relied
    OBVIOUS
  <2>1. x \in Objs /\ PrintOf(x) = PrintOf(o)
    BY DEF SameFootprint, Precise, VersionType, PrintOf
  <2>2. r \in Labelled(x).relied
    BY <1>2, <2>1 DEF Precise, Relying
  <2> QED
    BY <2>1, <2>2, SameLabels DEF Precise
<1> DEFINE Taken ==
             /\ versionReliance' \in [Objs -> SUBSET ((SUBSET Nodes) \X (SUBSET Nodes))]
             /\ stmtReliance' \in [Objs -> SUBSET ((SUBSET Nodes) \X Nodes)]
             /\ \A x \in Objs : versionReliance'[x] \subseteq versionReliance[x] \cup Labelled(x).relied
             /\ \E owner \in Objs : SetOwner(o, owner) /\ PrintOf(owner) = PrintOf(o)
<1>6. Taken
  <2>1. CASE SetOwner(o, o) /\ UNCHANGED <<versionReliance, stmtReliance>>
    BY <2>1 DEF Precise, VersionType
  <2>2. ASSUME NEW owner \in SameFootprint(o), SetOwner(o, owner),
               versionReliance' = [versionReliance EXCEPT ![o] = @ \cup versionReliance[owner]],
               stmtReliance' = [stmtReliance EXCEPT ![o] = @ \cup stmtReliance[owner]]
        PROVE  Taken
    <3>1. owner \in Objs /\ PrintOf(owner) = PrintOf(o)
      BY DEF SameFootprint, Precise, VersionType, PrintOf
    <3>2. versionReliance' \in [Objs -> SUBSET ((SUBSET Nodes) \X (SUBSET Nodes))]
      BY <2>2, <3>1 DEF Precise, VersionType
    <3>3. stmtReliance' \in [Objs -> SUBSET ((SUBSET Nodes) \X Nodes)]
      BY <2>2, <3>1 DEF Precise, VersionType
    <3>4. \A x \in Objs : versionReliance'[x] =
                             IF x = o THEN versionReliance[o] \cup versionReliance[owner] ELSE versionReliance[x]
      BY <2>2 DEF Precise, VersionType
    <3>5. versionReliance[owner] \subseteq Labelled(o).relied
      BY <1>5
    <3> QED
      BY <2>2, <3>1, <3>2, <3>3, <3>4, <3>5
  <2> QED
    BY <1>1, <2>1, <2>2
<1>7. Relying'
  BY <1>2, <1>6, SameProgram DEF Precise, Relying
<1>8. VersionType'
  <2>1. PICK owner \in Objs : SetOwner(o, owner) /\ PrintOf(owner) = PrintOf(o)
    BY <1>6
  <2>2. \A x \in DOMAIN equivalentObject' :
           x \in Objs /\ equivalentObject'[x] \in Objs /\ PrintOf(equivalentObject'[x]) = PrintOf(x)
    BY <2>1 DEF SetOwner, Precise, VersionType
  <2>3. EmptyTables' = EmptyTables
    BY <1>2, SameProgram DEF EmptyTables, NoFlow
  <2> QED
    BY <1>2, <1>6, <2>2, <2>3, SameProgram DEF Precise, VersionType
<1> QED
  BY <1>3, <1>4, <1>7, <1>8 DEF Precise

LEMMA PreciseAssign == ASSUME Precise, AssignVersions PROVE Precise'
<1>1. PICK o \in Objs :
        /\ consume' = [n \in NodesOf(g) |-> IF n \in DOMAIN Labelled(o).consume
                            THEN [consume[n] EXCEPT ![o] = Labelled(o).consume[n]] ELSE consume[n]]
        /\ yield' = [n \in NodesOf(g) |-> IF n \in DOMAIN Labelled(o).yield
                            THEN [yield[n] EXCEPT ![o] = Labelled(o).yield[n]] ELSE yield[n]]
        /\ stmtReliance' = [stmtReliance EXCEPT ![o] = Labelled(o).stmts]
        /\ At(o, "assign") \in jobs
  BY DEF AssignVersions
<1>2. /\ UNCHANGED <<prog, incremental, pts, df, direct, called, worklist, versioning, equivalentObject,
                     versionReliance, vpts, propNodes, propWork>>
      /\ versioning = "labelling"
  BY <1>1 DEF AssignVersions, fsVars, Precise, VersionType
<1>3. FlowType' /\ Within(pts)' /\ HoldsWithin(vpts)' /\ Relying'
  BY <1>2, FlowKept, SameProgram DEF Precise, HoldsWithin, Relying
<1> DEFINE L == Labelled(o)
           C(n) == Consume(g, PrintOf(o), n)
           Y(n) == Yield(g, PrintOf(o), n)
<1>4. /\ DOMAIN L.consume \subseteq Nodes /\ DOMAIN L.yield \subseteq Nodes
      /\ \A n \in DOMAIN L.consume : L.consume[n] = C(n) /\ C(n) \in Versions(prog)
      /\ \A n \in DOMAIN L.yield : L.yield[n] = Y(n) /\ Y(n) \in Versions(prog)
      /\ L.stmts \subseteq {<<C(n), n>> : n \in DOMAIN L.consume}
  BY LabelFacts, ReachedNodes DEF Precise
<1>5. \A n \in Nodes : C(n) \subseteq Nodes /\ Y(n) \subseteq Nodes
  <2>1. PrintOf(o) \subseteq Nodes \X Nodes
    BY LabelFacts, ReachedNodes DEF Precise
  <2> QED
    BY <2>1 DEF Consume, Yield, MeldVersion
<1> HIDE DEF L, C, Y
<1>6. \A n \in Nodes : /\ consume'[n] = IF n \in DOMAIN L.consume THEN [consume[n] EXCEPT ![o] = C(n)]
                                        ELSE consume[n]
                       /\ yield'[n] = IF n \in DOMAIN L.yield THEN [yield[n] EXCEPT ![o] = Y(n)]
                                      ELSE yield[n]
  BY <1>1, <1>4 DEF L, Nodes
<1>7. consume' \in Labels /\ yield' \in Labels
  <2>1. DOMAIN consume' = Nodes /\ DOMAIN yield' = Nodes
    BY <1>1 DEF Nodes
  <2>2. ASSUME NEW n \in Nodes
        PROVE  consume'[n] \in [Objs -> SUBSET Nodes] /\ yield'[n] \in [Objs -> SUBSET Nodes]
    <3>1. consume[n] \in [Objs -> SUBSET Nodes] /\ yield[n] \in [Objs -> SUBSET Nodes]
      BY DEF Precise, VersionType, Labels
    <3>2. C(n) \in SUBSET Nodes /\ Y(n) \in SUBSET Nodes
      BY <1>5
    <3> QED
      BY <1>6, <3>1, <3>2
  <2>3. consume' = [n \in Nodes |-> consume'[n]] /\ yield' = [n \in Nodes |-> yield'[n]]
    BY <1>1 DEF Nodes
  <2> QED
    BY <2>2, <2>3 DEF Labels
<1>8. stmtReliance' \in [Objs -> SUBSET ((SUBSET Nodes) \X Nodes)]
  <2>1. L.stmts \subseteq (SUBSET Nodes) \X Nodes
    BY <1>4, <1>5
  <2> QED
    BY <1>1, <2>1 DEF Precise, VersionType, L
<1>9. Assigned'
  <2>1. ASSUME NEW n \in Nodes, NEW x \in Objs
        PROVE  /\ IsLabel(consume'[n][x], Consume(g, PrintOf(x), n))
               /\ IsLabel(yield'[n][x], Yield(g, PrintOf(x), n))
    <3>1. consume[n] \in [Objs -> SUBSET Nodes] /\ yield[n] \in [Objs -> SUBSET Nodes]
      BY DEF Precise, VersionType, Labels
    <3>2. consume'[n][x] = IF n \in DOMAIN L.consume /\ x = o THEN C(n) ELSE consume[n][x]
      BY <1>6, <3>1
    <3>3. yield'[n][x] = IF n \in DOMAIN L.yield /\ x = o THEN Y(n) ELSE yield[n][x]
      BY <1>6, <3>1
    <3>4. C(n) = Consume(g, PrintOf(o), n) /\ Y(n) = Yield(g, PrintOf(o), n)
      BY DEF C, Y
    <3> QED
      BY <1>4, <3>2, <3>3, <3>4 DEF Precise, Assigned, IsLabel
  <2> QED
    BY <1>2, <2>1, SameProgram DEF Assigned, IsLabel
<1>10. EmptyTables' = EmptyTables
  BY <1>2, SameProgram DEF EmptyTables, NoFlow
<1>11. VersionType'
  BY <1>2, <1>7, <1>8, <1>10, SameProgram DEF Precise, VersionType
<1> QED
  BY <1>3, <1>9, <1>11 DEF Precise

LEMMA PreciseJoin == ASSUME Precise, JoinWorkers PROVE Precise'
<1>1. /\ UNCHANGED <<prog, incremental, pts, df, direct, called, worklist, jobs, labels, versionReliance,
                     stmtReliance, vpts, propNodes, propWork>>
      /\ versioning = "labelling" /\ versioning' = "on" /\ jobs = {}
      /\ UNCHANGED <<equivalentObject, consume, yield>>
  BY DEF JoinWorkers, solving, labels
<1>2. FlowType' /\ Within(pts)' /\ HoldsWithin(vpts)' /\ Assigned'
  BY <1>1, FlowKept, SameProgram DEF Precise, HoldsWithin, Assigned, IsLabel
<1>3. Relying'
  BY <1>1, SameProgram DEF Precise, Relying
<1>4. EmptyTables' = EmptyTables
  BY <1>1, SameProgram DEF EmptyTables, NoFlow
<1>5. VersionType'
  BY <1>1, <1>4, SameProgram DEF Precise, VersionType
<1> QED
  BY <1>2, <1>3, <1>5 DEF Precise

(***************************************************************************)
(* Solving keeps within the solution.                                      *)
(***************************************************************************)
LEMMA PreciseKept ==
    ASSUME Precise, versioning = "on", FlowType', Within(pts)',
           UNCHANGED <<prog, df, versioning, jobs, equivalentObject, consume, yield, stmtReliance>>,
           vpts' \in VSets, HoldsWithin(vpts'), called \subseteq called',
           propNodes' \subseteq Objs \X SUBSET Nodes, propWork' \subseteq propNodes',
           versionReliance' \in [Objs -> SUBSET ((SUBSET Nodes) \X (SUBSET Nodes))],
           \A o \in Objs : \A r \in versionReliance'[o] : r \in versionReliance[o] \/ Added(o, r)'
    PROVE  Precise'
<1>1. EmptyTables' = EmptyTables
  BY SameProgram DEF EmptyTables, NoFlow
<1>2. VersionType'
  BY <1>1, SameProgram DEF Precise, VersionType
<1>3. Assigned' /\ HoldsWithin(vpts)'
  BY SameProgram DEF Precise, Assigned, IsLabel, HoldsWithin
<1>4. ASSUME NEW o \in Objs, NEW r, Added(o, r) PROVE Added(o, r)'
  BY <1>4 DEF Added, getYield, getConsume, Canonical
<1>5. Relying'
  BY <1>4, SameProgram DEF Precise, Relying
<1> QED
  BY <1>2, <1>3, <1>5 DEF Precise

\* The reliances of some versions are reliances.
LEMMA FromReliances ==
    ASSUME Precise, NEW ovs
    PROVE  /\ From(ovs) \in [Objs -> SUBSET ((SUBSET Nodes) \X (SUBSET Nodes))]
           /\ \A o \in Objs : \A r \in From(ovs)[o] :
                 r \in versionReliance[o] /\ r[1] \in Versions(prog) /\ Cap(o, r[1]) \subseteq Cap(o, r[2])
<1>1. \A o \in Objs : From(ovs)[o] \subseteq versionReliance[o]
  BY DEF From
<1>2. From(ovs) \in [Objs -> SUBSET ((SUBSET Nodes) \X (SUBSET Nodes))]
  BY <1>1 DEF From, Precise, VersionType
<1> QED
  BY <1>1, <1>2, RelyingWithin DEF Precise

LEMMA PreciseDummy == ASSUME Precise, ProcessDummy PROVE Precise'
<1>1. PICK ov \in propWork : Propagate(vpts, From({ov}), worklist, propWork \ {ov})
  BY DEF ProcessDummy
<1> DEFINE rel == From({ov})
           p   == PropagateVersions(vpts, rel)
<1>2. /\ vpts' = p.vpts /\ propNodes' = propNodes \cup p.grown
      /\ propWork' = (propWork \ {ov}) \cup p.grown /\ worklist' = worklist \cup Readers(p.grown)
  BY <1>1 DEF Propagate
<1>3. /\ p.vpts \in VSets /\ HoldsWithin(p.vpts)
      /\ p.grown \subseteq Objs \X SUBSET Nodes /\ Readers(p.grown) \subseteq Nodes
  <2>1. /\ rel \in [Objs -> SUBSET ((SUBSET Nodes) \X (SUBSET Nodes))]
        /\ \A o \in Objs : \A r \in rel[o] : r[1] \in Versions(prog) /\ Cap(o, r[1]) \subseteq Cap(o, r[2])
    BY FromReliances
  <2>2. FlowType /\ VersionType /\ vpts \in VSets /\ HoldsWithin(vpts)
    BY DEF Precise, VersionType
  <2> HIDE DEF rel
  <2> QED
    BY <2>1, <2>2, PropagatesWithin
<1>4. /\ UNCHANGED <<prog, incremental, pts, df, direct, called, versioning, jobs, labels, versionReliance,
                     stmtReliance, equivalentObject, consume, yield>>
      /\ versioning = "on"
  BY DEF ProcessDummy, Ready, labels
<1> HIDE DEF p
<1>5. FlowType' /\ Within(pts)'
  BY <1>2, <1>3, <1>4, SameProgram DEF Precise, FlowType, Within, Nodes
<1>6. propNodes' \subseteq Objs \X SUBSET Nodes /\ propWork' \subseteq propNodes'
  BY <1>2, <1>3 DEF Precise, VersionType
<1>7. versionReliance' \in [Objs -> SUBSET ((SUBSET Nodes) \X (SUBSET Nodes))]
  BY <1>4 DEF Precise, VersionType
<1>8. vpts' \in VSets /\ HoldsWithin(vpts')
  BY <1>2, <1>3
<1> QED
  BY <1>4, <1>5, <1>6, <1>7, <1>8, PreciseKept

LEMMA PreciseOther == ASSUME Precise, ProcessOther PROVE Precise'
<1>1. PICK n \in worklist :
        /\ ~IsStore(n)
        /\ LET r   == IF Stmt(n).kind = "load" THEN ProcessVLoad(n) ELSE ProcessTopLevel(n)
               top == PassOn(n, r.pts)
           IN  IF r.changed
                 THEN pts' = top.pts /\ worklist' = (worklist \ {n}) \cup top.push
                 ELSE pts' = r.pts /\ worklist' = worklist \ {n}
  BY DEF ProcessOther
<1>2. /\ UNCHANGED <<prog, incremental, df, direct, called, versioning, jobs, labels, versionReliance, vpts,
                     stmtReliance, equivalentObject, consume, yield, propNodes, propWork>>
      /\ versioning = "on"
  BY DEF ProcessOther, Ready, labels, vVars, solving
<1>3. n \in NodesOf(g) /\ FlowType /\ Within(pts) /\ pts \in Sets /\ worklist \subseteq NodesOf(g)
  BY DEF Precise, FlowType
<1> DEFINE r   == IF Stmt(n).kind = "load" THEN ProcessVLoad(n) ELSE ProcessTopLevel(n)
           top == PassOn(n, r.pts)
<1>4. r.pts \in Sets /\ Within(r.pts) /\ \A v \in Vars : pts[v] \subseteq r.pts[v]
  <2>1. CASE Stmt(n).kind = "load"
    <3> DEFINE add == UNION {vpts[o][getConsume(n, o)] : o \in {x \in pts[Stmt(n).ptr] : getConsume(n, x) # {}}}
    <3>1. Stmt(n).dst \in Vars /\ Stmt(n).ptr \in Vars
      BY <1>3, <2>1, NodeKinds DEF Typed
    <3>2. ASSUME NEW o \in pts[Stmt(n).ptr], getConsume(n, o) # {}
          PROVE  /\ vpts[o][getConsume(n, o)] \subseteq Objs
                 /\ vpts[o][getConsume(n, o)] \subseteq sol.pts[Stmt(n).dst]
      <4>1. o \in Objs
        BY <1>3, <3>1 DEF Sets
      <4> QED
        BY <1>3, <2>1, <3>2, <4>1, ReadWithin, DefineWithin DEF Nodes
    <3>3. add \in SUBSET Objs /\ add \subseteq sol.pts[Stmt(n).dst]
      BY <3>2
    <3>4. r = Define(Stmt(n).dst, add)
      BY <2>1 DEF ProcessVLoad
    <3> HIDE DEF add, r
    <3>5. \A v \in Vars : pts[v] \subseteq r.pts[v]
      BY <1>3, <3>1, <3>4 DEF Define, Sets
    <3> QED
      BY <1>3, <3>1, <3>3, <3>4, <3>5, DefinesWithin
  <2>2. CASE Stmt(n).kind # "load"
    <3>1. r = ProcessTopLevel(n)
      BY <2>2
    <3>2. ProcessSVFGNode(n) = ProcessTopLevel(n)
      BY <1>1, <2>2 DEF ProcessSVFGNode, IsStore
    <3>3. MemoryWithin(df)
      BY DEF Precise, VersionType, MemoryWithin, EmptyTables, NoFlow, Ready, ProcessOther
    <3> QED
      BY <1>3, <3>1, <3>2, <3>3, ProcessWithin, ProcessAdds DEF Adds
  <2> QED
    BY <2>1, <2>2
<1>5. r.changed \in BOOLEAN
  BY DEF ProcessVLoad, ProcessTopLevel, Define, Unchanged
<1> HIDE DEF r
<1>6. /\ top.pts \in Sets /\ top.push \subseteq NodesOf(g) /\ Within(top.pts)
      /\ \A v \in Vars : r.pts[v] \subseteq top.pts[v]
  BY <1>3, <1>4, PassOnAdds, PassOnWithin
<1>7. /\ pts' \in Sets /\ Within(pts') /\ worklist' \subseteq NodesOf(g)
      /\ \A v \in Vars : pts[v] \subseteq pts'[v]
  <2>1. CASE r.changed
    <3>1. pts' = top.pts /\ worklist' = (worklist \ {n}) \cup top.push
      BY <1>1, <2>1 DEF r
    <3> HIDE DEF top
    <3> QED
      BY <1>3, <1>4, <1>6, <3>1
  <2>2. CASE ~r.changed
    <3>1. pts' = r.pts /\ worklist' = worklist \ {n}
      BY <1>1, <2>2 DEF r
    <3> QED
      BY <1>3, <1>4, <3>1
  <2> QED
    BY <1>5, <2>1, <2>2
<1>8. FlowType'
  <2>1. called \subseteq Resolved(g, pts')
    BY <1>3, <1>7, ProgramFormed, CallsMonotone DEF FlowType
  <2> QED
    BY <1>2, <1>3, <1>7, <2>1, SameProgram DEF FlowType
<1>9. Within(pts)'
  BY <1>2, <1>7, SameProgram DEF Within
<1>10. /\ vpts' \in VSets /\ HoldsWithin(vpts')
       /\ propNodes' \subseteq Objs \X SUBSET Nodes /\ propWork' \subseteq propNodes'
       /\ versionReliance' \in [Objs -> SUBSET ((SUBSET Nodes) \X (SUBSET Nodes))]
  BY <1>2 DEF Precise, VersionType
<1> QED
  BY <1>2, <1>8, <1>9, <1>10, PreciseKept

\* What a store writes.
LEMMA StoreResultWithin ==
    ASSUME Precise, versioning = "on", NEW n \in Nodes, IsStore(n)
    PROVE  LET r == StoreResult(n)
           IN  /\ r.vpts \in VSets /\ HoldsWithin(r.vpts) /\ r.changed \subseteq Objs \X SUBSET Nodes
               /\ \A o \in Objs, v \in Versions(prog) :
                     /\ vpts[o][v] \subseteq r.vpts[o][v]
                     /\ r.vpts[o][v] # vpts[o][v] => <<o, v>> \in r.changed
               /\ pts[Stmt(n).ptr] # {} => \A o \in Objs : getYield(n, o) # {} =>
                     /\ o \in pts[Stmt(n).ptr] => pts[Stmt(n).src] \subseteq r.vpts[o][getYield(n, o)]
                     /\ ~IsStrongUpdate(n, o) /\ consume[n][o] # {} =>
                           vpts[o][consume[n][o]] \subseteq r.vpts[o][getYield(n, o)]
<1> DEFINE r       == StoreResult(n)
           written == pts[Stmt(n).ptr]
           passed  == {o \in Objs : consume[n][o] # {} /\ ~IsStrongUpdate(n, o)}
           add(o)  == (IF o \in written THEN pts[Stmt(n).src] ELSE {})
                      \cup (IF o \in passed THEN vpts[o][consume[n][o]] ELSE {})
           changed == {o \in Objs : getYield(n, o) # {} /\ ~(add(o) \subseteq vpts[o][getYield(n, o)])}
<1>1. /\ FlowType /\ Within(pts) /\ vpts \in VSets /\ HoldsWithin(vpts) /\ n \in Stores(g)
      /\ Stmt(n).src \in Vars /\ pts[Stmt(n).src] \subseteq Objs
  <2>1. Typed(Stmt(n)) /\ pts \in Sets
    BY NodeKinds DEF Precise, FlowType, Nodes
  <2> QED
    BY <2>1 DEF Precise, VersionType, Stores, OfKind, Typed, Sets, IsStore, Stmt, Nodes
<1>2. CASE written = {}
  <2>1. r.vpts = vpts /\ r.changed = {}
    BY <1>2 DEF StoreResult
  <2> QED
    BY <1>1, <1>2, <2>1
<1>3. CASE written # {}
  <2>1. /\ r.changed = {<<o, getYield(n, o)>> : o \in changed}
        /\ r.vpts = [o \in Objs |-> IF o \in changed
                        THEN [vpts[o] EXCEPT ![getYield(n, o)] = @ \cup add(o)] ELSE vpts[o]]
    BY <1>3 DEF StoreResult
  <2>2. ASSUME NEW o \in Objs, getYield(n, o) # {}
        PROVE  /\ getYield(n, o) \in Versions(prog) /\ Cap(o, getYield(n, o)) = sol.out[n][o]
               /\ getYield(n, o) \in SUBSET Nodes
    <3>1. getYield(n, o) = Yield(g, PrintOf(o), n) /\ getYield(n, o) \in Versions(prog)
      BY <2>2, Got DEF Precise, IsLabel
    <3>2. getYield(n, o) = {n}
      BY <1>1, <3>1 DEF Yield
    <3> QED
      BY <1>1, <3>1, <3>2 DEF Cap, Exit, Stores, OfKind
  <2>3. ASSUME NEW o \in Objs PROVE add(o) \subseteq Objs /\ add(o) \subseteq sol.out[n][o]
    <3>1. /\ o \in written => pts[Stmt(n).src] \subseteq sol.out[n][o]
          /\ ~IsStrongUpdate(n, o) => sol.in[n][o] \subseteq sol.out[n][o]
      BY <1>1, <1>3, StoreWithin
    <3>2. o \in passed => /\ vpts[o][consume[n][o]] \subseteq sol.in[n][o]
                          /\ vpts[o][consume[n][o]] \subseteq Objs
      BY ReadWithin
    <3> QED
      BY <1>1, <3>1, <3>2
  <2> HIDE DEF add, r
  <2>4. \A o \in Objs, v \in Versions(prog) :
           r.vpts[o][v] = IF o \in changed /\ v = getYield(n, o) THEN vpts[o][v] \cup add(o) ELSE vpts[o][v]
    <3> SUFFICES ASSUME NEW o \in Objs, NEW v \in Versions(prog)
                 PROVE  r.vpts[o][v] =
                          IF o \in changed /\ v = getYield(n, o) THEN vpts[o][v] \cup add(o) ELSE vpts[o][v]
      OBVIOUS
    <3>1. vpts[o] \in [Versions(prog) -> SUBSET Objs]
      BY <1>1 DEF VSets
    <3> HIDE DEF changed
    <3>2. r.vpts[o] = IF o \in changed THEN [vpts[o] EXCEPT ![getYield(n, o)] = @ \cup add(o)] ELSE vpts[o]
      BY <2>1
    <3> QED
      BY <3>1, <3>2
  <2>5. r.vpts \in VSets
    <3>1. ASSUME NEW o \in Objs PROVE r.vpts[o] \in [Versions(prog) -> SUBSET Objs]
      <4>1. vpts[o] \in [Versions(prog) -> SUBSET Objs] /\ add(o) \subseteq Objs
        BY <1>1, <2>3 DEF VSets
      <4> HIDE DEF changed
      <4>2. r.vpts[o] = IF o \in changed THEN [vpts[o] EXCEPT ![getYield(n, o)] = @ \cup add(o)] ELSE vpts[o]
        BY <2>1
      <4> QED
        BY <4>1, <4>2
    <3>2. r.vpts = [o \in Objs |-> r.vpts[o]]
      BY <2>1
    <3> QED
      BY <3>1, <3>2 DEF VSets
  <2>6. HoldsWithin(r.vpts)
    <3> SUFFICES ASSUME NEW o \in Objs, NEW v \in Versions(prog) PROVE r.vpts[o][v] \subseteq Cap(o, v)
      BY DEF HoldsWithin
    <3>1. vpts[o][v] \subseteq Cap(o, v)
      BY <1>1 DEF HoldsWithin
    <3>2. o \in changed /\ v = getYield(n, o) => add(o) \subseteq Cap(o, v)
      BY <2>2, <2>3
    <3> HIDE DEF changed
    <3> QED
      BY <2>4, <3>1, <3>2
  <2>7. r.changed \subseteq Objs \X SUBSET Nodes
    BY <2>1, <2>2
  <2>8. \A o \in Objs, v \in Versions(prog) :
                     /\ vpts[o][v] \subseteq r.vpts[o][v]
                     /\ r.vpts[o][v] # vpts[o][v] => <<o, v>> \in r.changed
    BY <2>1, <2>4
  <2>9. ASSUME NEW o \in Objs, getYield(n, o) # {} PROVE add(o) \subseteq r.vpts[o][getYield(n, o)]
    BY <2>2, <2>4, <2>9
  <2>10. \A o \in Objs : getYield(n, o) # {} =>
            /\ o \in written => pts[Stmt(n).src] \subseteq r.vpts[o][getYield(n, o)]
            /\ ~IsStrongUpdate(n, o) /\ consume[n][o] # {} =>
                  vpts[o][consume[n][o]] \subseteq r.vpts[o][getYield(n, o)]
    BY <2>9 DEF add
  <2> QED
    BY <2>5, <2>6, <2>7, <2>8, <2>10 DEF r
<1> QED
  BY <1>2, <1>3

LEMMA PreciseStore == ASSUME Precise, ProcessVStore PROVE Precise'
<1>1. PICK n \in worklist :
        /\ IsStore(n)
        /\ LET r == StoreResult(n)
           IN  Propagate(r.vpts, From(r.changed), (worklist \ {n}) \cup Readers(r.changed), propWork)
  BY DEF ProcessVStore
<1> DEFINE s   == StoreResult(n)
           vp  == s.vpts
           ch  == s.changed
           rel == From(ch)
           p   == PropagateVersions(vp, rel)
<1>2. /\ vpts' = p.vpts /\ propNodes' = propNodes \cup p.grown /\ propWork' = propWork \cup p.grown
      /\ worklist' = ((worklist \ {n}) \cup Readers(ch)) \cup Readers(p.grown)
  BY <1>1 DEF Propagate
<1>3. /\ UNCHANGED <<prog, incremental, pts, df, direct, called, versioning, jobs, labels, versionReliance,
                     stmtReliance, equivalentObject, consume, yield>>
      /\ versioning = "on"
  BY DEF ProcessVStore, Ready, labels
<1>4. FlowType /\ VersionType /\ n \in Nodes /\ worklist \subseteq Nodes
  BY DEF Precise, FlowType, Nodes
<1>5. vp \in VSets /\ HoldsWithin(vp) /\ ch \subseteq Objs \X SUBSET Nodes
  BY <1>1, <1>3, <1>4, StoreResultWithin
<1> HIDE DEF s, vp, ch
<1>6. /\ p.vpts \in VSets /\ HoldsWithin(p.vpts)
      /\ p.grown \subseteq Objs \X SUBSET Nodes /\ Readers(p.grown) \subseteq Nodes
  <2>1. /\ rel \in [Objs -> SUBSET ((SUBSET Nodes) \X (SUBSET Nodes))]
        /\ \A o \in Objs : \A r \in rel[o] : r[1] \in Versions(prog) /\ Cap(o, r[1]) \subseteq Cap(o, r[2])
    BY FromReliances
  <2> HIDE DEF rel
  <2> QED
    BY <1>4, <1>5, <2>1, PropagatesWithin
<1>7. Readers(ch) \subseteq Nodes
  BY <1>4, <1>5 DEF Readers, VersionType
<1> HIDE DEF rel, p
<1>8. FlowType' /\ Within(pts)'
  BY <1>2, <1>3, <1>4, <1>6, <1>7, SameProgram DEF Precise, FlowType, Within, Nodes
<1>9. propNodes' \subseteq Objs \X SUBSET Nodes /\ propWork' \subseteq propNodes'
  BY <1>2, <1>6 DEF Precise, VersionType
<1>10. versionReliance' \in [Objs -> SUBSET ((SUBSET Nodes) \X (SUBSET Nodes))]
  BY <1>3 DEF Precise, VersionType
<1>11. vpts' \in VSets /\ HoldsWithin(vpts')
  BY <1>2, <1>6
<1> QED
  BY <1>3, <1>8, <1>9, <1>10, <1>11, PreciseKept

LEMMA PreciseStart == ASSUME Precise, VInitWorklist PROVE Precise'
<1>1. /\ UNCHANGED <<prog, incremental, pts, df, direct, called, versioning, jobs, labels, versionReliance,
                     stmtReliance, equivalentObject, consume, yield, vpts, propNodes>>
      /\ versioning = "on" /\ worklist' = Nodes /\ propWork' = propNodes
  BY DEF VInitWorklist, InitWorklist, labels, Nodes
<1>2. FlowType' /\ Within(pts)'
  BY <1>1, SameProgram DEF Precise, FlowType, Within, Nodes
<1>3. /\ vpts' \in VSets /\ HoldsWithin(vpts')
      /\ propNodes' \subseteq Objs \X SUBSET Nodes /\ propWork' \subseteq propNodes'
      /\ versionReliance' \in [Objs -> SUBSET ((SUBSET Nodes) \X (SUBSET Nodes))]
  BY <1>1 DEF Precise, VersionType
<1> QED
  BY <1>1, <1>2, <1>3, PreciseKept

LEMMA PreciseCalls == ASSUME Precise, VUpdateCallGraph PROVE Precise'
<1> DEFINE rel == [o \in Objs |-> NewReliance(NewCalls, o)]
           p   == PropagateVersions(vpts, rel)
<1>1. /\ UNCHANGED <<prog, incremental, pts, df, versioning, jobs, labels, stmtReliance, equivalentObject,
                     consume, yield>>
      /\ versioning = "on" /\ worklist = {} /\ propWork = {}
      /\ called' = called \cup NewCalls /\ direct' = DirectOf(g, called')
      /\ versionReliance' = [o \in Objs |-> versionReliance[o] \cup rel[o]]
      /\ vpts' = p.vpts /\ propNodes' = propNodes \cup p.grown /\ propWork' = propWork \cup p.grown
      /\ worklist' = worklist \cup Readers(p.grown)
  BY DEF VUpdateCallGraph, Ready, labels, Connect, Propagate
<1>2. FlowType /\ VersionType /\ vpts \in VSets /\ HoldsWithin(vpts) /\ Within(pts)
  BY DEF Precise, VersionType
<1>3. NewCalls \subseteq Resolved(g, sol.pts) /\ called' = Resolved(g, pts) /\ called' \in SUBSET g.calls
  <2>1. Resolved(g, pts) \subseteq Resolved(g, sol.pts)
    BY <1>2, ProgramFormed, CallsMonotone DEF Within
  <2> QED
    BY <1>1, <1>2, <2>1 DEF NewCalls, FlowType, Resolved
<1>4. ASSUME NEW o \in Objs, NEW r \in rel[o]
      PROVE  /\ r[1] \in Versions(prog) /\ Cap(o, r[1]) \subseteq Cap(o, r[2])
             /\ r \in (SUBSET Nodes) \X (SUBSET Nodes) /\ Added(o, r)'
  <2>1. PICK c \in NewCalls : \E e \in c.indirect :
                e[3] = o /\ r = <<getYield(e[1], o), getConsume(e[2], o)>> /\ r[1] # {} /\ r[2] # {}
    BY <1>4 DEF NewReliance
  <2>2. PICK e \in c.indirect : e[3] = o /\ r = <<getYield(e[1], o), getConsume(e[2], o)>> /\ r[1] # {} /\ r[2] # {}
    BY <2>1
  <2>3. /\ getYield(e[1], o)' = getYield(e[1], o)
        /\ getConsume(e[2], o)' = getConsume(e[2], o)
    BY <1>1 DEF getYield, getConsume, Canonical
  <2>4. Added(o, r)'
    <3>1. c \in called'
      BY <1>1
    <3> HIDE DEF rel, p
    <3> QED
      BY <2>2, <2>3, <3>1 DEF Added
  <2>5. c \in Resolved(g, sol.pts) /\ Assigned
    BY <1>3 DEF Precise
  <2> QED
    BY <1>2, <2>2, <2>4, <2>5, AddedWithin
<1>5. rel \in [Objs -> SUBSET ((SUBSET Nodes) \X (SUBSET Nodes))]
  <2>1. \A o \in Objs : rel[o] \subseteq (SUBSET Nodes) \X (SUBSET Nodes)
    BY <1>4
  <2> QED
    BY <2>1
<1>6. \A o \in Objs : \A r \in versionReliance'[o] : r \in versionReliance[o] \/ Added(o, r)'
  <2>1. \A o \in Objs : versionReliance'[o] = versionReliance[o] \cup rel[o]
    BY <1>1
  <2> HIDE DEF rel
  <2> QED
    BY <1>4, <2>1
<1> HIDE DEF rel
<1>7. /\ p.vpts \in VSets /\ HoldsWithin(p.vpts)
      /\ p.grown \subseteq Objs \X SUBSET Nodes /\ Readers(p.grown) \subseteq Nodes
  BY <1>2, <1>4, <1>5, PropagatesWithin
<1> HIDE DEF p
<1>8. FlowType' /\ Within(pts)'
  BY <1>1, <1>2, <1>3, <1>7, SameProgram DEF FlowType, Within, Nodes
<1>9. /\ vpts' \in VSets /\ HoldsWithin(vpts')
      /\ propNodes' \subseteq Objs \X SUBSET Nodes /\ propWork' \subseteq propNodes'
  BY <1>1, <1>2, <1>7 DEF VersionType
<1>10. versionReliance' \in [Objs -> SUBSET ((SUBSET Nodes) \X (SUBSET Nodes))]
  BY <1>1, <1>2, <1>5 DEF VersionType
<1> QED
  BY <1>1, <1>6, <1>8, <1>9, <1>10, PreciseKept

(***************************************************************************)
(* Together: the invariant of all steps.                                   *)
(***************************************************************************)
IInv == Precise /\ (versioning = "off" => Plain)

LEMMA Initially == Init => IInv
<1> SUFFICES ASSUME Init PROVE IInv
  OBVIOUS
<1>1. /\ prog \in DOMAIN Programs /\ incremental \in BOOLEAN /\ pts = [v \in Vars |-> {}] /\ df = EmptyTables
      /\ direct = g.direct /\ indirect = g.indirect /\ called = {} /\ worklist = {} /\ pc = "init"
  BY DEF Init, fsInit
<1>2. EmptyTables \in Tables
  BY DEF EmptyTables, NoFlow, Tables, Memory, Flags
<1>3. direct = DirectOf(g, called) /\ indirect = IndirectOf(g, called)
  BY <1>1 DEF DirectOf, IndirectOf
<1>4. FlowType /\ Within(pts)
  BY <1>1, <1>2, <1>3 DEF FlowType, Sets, Within
<1>5. VersionType
  <2>1. \A o \in DOMAIN equivalentObject : FALSE
    BY DEF Init
  <2>2. consume \in Labels /\ yield \in Labels
    BY DEF Init, NoVersions, Labels, Nodes
  <2>3. vpts \in VSets
    BY DEF Init, VSets
  <2> QED
    BY <1>1, <2>1, <2>2, <2>3 DEF Init, VersionType
<1>6. Assigned /\ Relying /\ HoldsWithin(vpts)
  BY DEF Init, Assigned, IsLabel, NoVersions, Nodes, Relying, HoldsWithin
<1>7. Plain
  <2>1. /\ \A n \in NodesOf(g) : df.outNew[n] = {}
        /\ \A n \in NodesOf(g), o \in Objs : df.in[n][o] = {} /\ df.out[n][o] = {}
    BY <1>1 DEF EmptyTables, NoFlow
  <2>2. Consumed
    BY <2>1 DEF Consumed
  <2>3. Delivered
    <3>1. \A e \in indirect : e[1] \in NodesOf(g) /\ e[2] \in NodesOf(g) /\ e[3] \in Objs
      BY <1>1, <1>3, <1>4, ProgramFormed, FewerCalls
    <3> QED
      BY <2>1, <3>1 DEF Delivered
  <2>4. MemoryWithin(df)
    BY <2>1 DEF MemoryWithin
  <2> QED
    BY <1>1, <1>3, <2>2, <2>3, <2>4 DEF Plain
<1> QED
  BY <1>4, <1>5, <1>6, <1>7 DEF IInv, Precise

LEMMA OffStep ==
    ASSUME IInv, FlowSensitiveNext
    PROVE  IInv'
<1>1. /\ versioning = "off" /\ UNCHANGED <<versioning, jobs, equivalentObject, consume, yield, versionReliance,
                                           stmtReliance, vpts, propNodes, propWork>>
      /\ fsNext /\ prog' = prog
  BY DEF FlowSensitiveNext, vVars, labels, solving, fsNext, InitWorklist, SolveWorklist, UpdateCallGraph
<1>2. FlowType /\ Within(pts) /\ Plain
  BY <1>1 DEF IInv, Precise
<1>3. FlowType' /\ Within(pts)' /\ Plain'
  BY <1>1, <1>2, PlainVisit, PlainStart, PlainCalls DEF fsNext
<1>4. VersionType'
  BY <1>1, SameProgram DEF IInv, Precise, VersionType
<1>5. Assigned' /\ HoldsWithin(vpts)' /\ Relying'
  BY <1>1, SameProgram DEF IInv, Precise, Assigned, IsLabel, HoldsWithin, Relying
<1> QED
  BY <1>3, <1>4, <1>5 DEF IInv, Precise

LEMMA IInvStep == IInv /\ [Next]_allVars => IInv'
<1> SUFFICES ASSUME IInv, [Next]_allVars PROVE IInv'
  OBVIOUS
<1>1. CASE FlowSensitiveNext
  BY <1>1, OffStep
<1>2. CASE LabellingNext
  <2>1. versioning' # "off"
    BY <1>2 DEF LabellingNext, PopObject, ClaimFootprint, FillVersionReliance, AssignVersions, JoinWorkers,
                IInv, Precise, VersionType
  <2>2. Precise'
    BY <1>2, PrecisePop, PreciseClaim, PreciseFill, PreciseAssign, PreciseJoin DEF LabellingNext, IInv
  <2> QED
    BY <2>1, <2>2 DEF IInv
<1>3. CASE VersionedNext
  <2>1. versioning' # "off"
    BY <1>3 DEF VersionedNext, VInitWorklist, ProcessDummy, ProcessOther, ProcessVStore, VUpdateCallGraph,
                Ready, vVars
  <2>2. Precise'
    BY <1>3, PreciseStart, PreciseDummy, PreciseOther, PreciseStore, PreciseCalls DEF VersionedNext, IInv
  <2> QED
    BY <2>1, <2>2 DEF IInv
<1>4. CASE UNCHANGED allVars
  <2>1. UNCHANGED <<prog, incremental, pts, df, direct, indirect, called, worklist, pc, versioning, jobs,
                    equivalentObject, consume, yield, versionReliance, stmtReliance, vpts, propNodes, propWork>>
    BY <1>4 DEF allVars, fsVars, vVars, labels, solving
  <2>2. FlowType' /\ Within(pts)'
    BY <2>1, FlowKept DEF IInv, Precise
  <2>3. EmptyTables' = EmptyTables
    BY <2>1, SameProgram DEF EmptyTables, NoFlow
  <2>4. VersionType'
    BY <2>1, <2>3, SameProgram DEF IInv, Precise, VersionType
  <2>5. Assigned' /\ HoldsWithin(vpts)'
    BY <2>1, SameProgram DEF IInv, Precise, Assigned, IsLabel, HoldsWithin
  <2>6. Relying'
    <3>1. \A o \in Objs : \A r : Added(o, r)' <=> Added(o, r)
      BY <2>1 DEF Added, getYield, getConsume, Canonical
    <3> QED
      BY <2>1, <3>1, SameProgram DEF IInv, Precise, Relying
  <2>7. Plain' <=> Plain
    <3>1. /\ Delivered' <=> Delivered
          /\ Consumed' <=> Consumed
          /\ MemoryWithin(df)' <=> MemoryWithin(df)
      BY <2>1, SameProgram DEF Delivered, Consumed, HasNew, MemoryWithin, IsStore
    <3>2. Waiting' = Waiting
      BY <2>1, SameProgram DEF Waiting, Formal
    <3>3. \A n : Settled(n)' <=> Settled(n)
      BY <2>1, <3>2, SameProgram DEF Settled, TopSettled, IsStrongUpdate
    <3> QED
      BY <2>1, <3>1, <3>3, SameProgram DEF Plain
  <2> QED
    BY <2>1, <2>2, <2>4, <2>5, <2>6, <2>7 DEF IInv, Precise
<1> QED
  BY <1>1, <1>2, <1>3, <1>4 DEF Next

THEOREM IInvAlways == Spec => []IInv
BY Initially, IInvStep, PTL DEF Spec

(* The plain analysis ends with the least flow-sensitive solution, whatever  *)
(* the order of visits and with either kind of tables, and neither analysis  *)
(* goes beyond it on the way: processNode and updateCallGraph lose nothing   *)
(* although flags hold updates back.                                         *)
THEOREM FlowExactAlways == Spec => []FlowExact
<1>1. IInv => FlowExact
  <2> SUFFICES ASSUME IInv PROVE FlowPrecise /\ (versioning = "off" => FlowComplete)
    BY DEF FlowExact
  <2>1. FlowType /\ Within(pts)
    BY DEF IInv, Precise
  <2>2. MemoryWithin(df)
    BY DEF IInv, Precise, Plain, VersionType, MemoryWithin, EmptyTables, NoFlow
  <2>3. FlowPrecise
    BY <2>1, <2>2 DEF FlowPrecise, Within, MemoryWithin, sol
  <2> QED
    BY <2>1, <2>3, PlainComplete DEF IInv
<1> QED
  BY <1>1, IInvAlways, PTL

(* No version of an object ever holds more than reaches a load or store that *)
(* reads it, for any number of workers labelling in any order.               *)
THEOREM VersionsPreciseAlways == Spec => []VersionsPrecise
<1>1. IInv => VersionsPrecise
  BY PreciseVersions DEF IInv
<1> QED
  BY <1>1, IInvAlways, PTL

-----------------------------------------------------------------------------
(***************************************************************************)
(* How far the workers are with an object.                                 *)
(***************************************************************************)
Owners  == {o \in DOMAIN equivalentObject : equivalentObject[o] = o}
Mine(o) == o \in Owners

RelianceDone(o) ==
    /\ Labelled(o).relied \subseteq versionReliance[o]
    /\ called = {} => versionReliance[o] = Labelled(o).relied
AssignmentDone(o) ==
    /\ \A n \in DOMAIN Labelled(o).consume : consume[n][o] = Labelled(o).consume[n]
    /\ \A n \in DOMAIN Labelled(o).yield : yield[n][o] = Labelled(o).yield[n]
    /\ stmtReliance[o] = Labelled(o).stmts

\* An object is queued, then claimed, then has an owner.
Claiming ==
    /\ \A o \in queue : At(o, "claim") \notin jobs /\ o \notin DOMAIN equivalentObject
    /\ \A o \in Objs : At(o, "claim") \in jobs => o \notin DOMAIN equivalentObject
    /\ \A o \in Objs : o \notin DOMAIN equivalentObject =>
          stmtReliance[o] = {} /\ (called = {} => versionReliance[o] = {})
    /\ \A o \in PrelabelledObjects :
          o \in queue \/ At(o, "claim") \in jobs \/ o \in DOMAIN equivalentObject

\* An owner is labelled step by step.
Owning ==
    /\ \A o \in DOMAIN equivalentObject : equivalentObject[o] \in Owners
    /\ \A o \in Objs : At(o, "rely") \in jobs \/ At(o, "assign") \in jobs => Mine(o)
    /\ \A o \in Objs : Mine(o) => \/ At(o, "rely") \in jobs
                                  \/ At(o, "assign") \in jobs /\ RelianceDone(o)
                                  \/ RelianceDone(o) /\ AssignmentDone(o)

Progress ==
    /\ Claiming /\ Owning
    /\ versioning = "labelling" =>
          called = {} /\ pc = "init" /\ \A o \in Objs, v \in Versions(prog) : vpts[o][v] = {}
    /\ versioning = "on" => queue = {}

LEMMA AtSame == \A o, x, where, to : At(o, where) = At(x, to) <=> o = x /\ where = to
BY DEF At

\* Steps that leave an object's labels alone leave alone how far it is.
LEMMA DoneKept ==
    ASSUME Precise, UNCHANGED <<prog, called>>, NEW o \in Objs,
           versionReliance'[o] = versionReliance[o], stmtReliance'[o] = stmtReliance[o],
           \A n \in Nodes : consume'[n][o] = consume[n][o] /\ yield'[n][o] = yield[n][o]
    PROVE  /\ RelianceDone(o)' <=> RelianceDone(o)
           /\ AssignmentDone(o)' <=> AssignmentDone(o)
<1>1. DOMAIN Labelled(o).consume \subseteq Nodes /\ DOMAIN Labelled(o).yield \subseteq Nodes
  BY LabelFacts, ReachedNodes DEF Precise
<1> QED
  BY <1>1, SameProgram DEF RelianceDone, AssignmentDone

LEMMA SameStarts == ASSUME prog' = prog PROVE PrelabelledObjects' = PrelabelledObjects
BY DEF PrelabelledObjects, StartingNodes, g

LEMMA ProgressPop == ASSUME Precise, Progress, PopObject PROVE Progress'
<1>1. PICK o \in queue : queue' = queue \ {o} /\ jobs' = jobs \cup {At(o, "claim")}
  BY DEF PopObject
<1>2. /\ UNCHANGED <<prog, called, pc, versioning, threads, equivalentObject, consume, yield, versionReliance,
                     stmtReliance, vpts>>
      /\ versioning = "labelling" /\ Cardinality(jobs) < threads
  BY DEF PopObject, fsVars, solving, labels
<1>3. \A x, to : At(x, to) \in jobs' <=> At(x, to) \in jobs \/ (x = o /\ to = "claim")
  BY <1>1, AtSame
<1>4. Claiming'
  BY <1>1, <1>2, <1>3, SameStarts DEF Progress, Claiming
<1>5. Owning'
  <2>1. \A x \in Objs : /\ RelianceDone(x)' <=> RelianceDone(x)
                        /\ AssignmentDone(x)' <=> AssignmentDone(x)
    BY <1>2, DoneKept
  <2>2. Owners' = Owners /\ \A x : Mine(x)' <=> Mine(x)
    BY <1>2 DEF Mine, Owners
  <2>3. \A x \in Objs : /\ At(x, "rely") \in jobs' <=> At(x, "rely") \in jobs
                        /\ At(x, "assign") \in jobs' <=> At(x, "assign") \in jobs
    BY <1>3
  <2>4. \A x, to : At(x, to)' = At(x, to)
    BY DEF At
  <2> QED
    BY <1>2, <2>1, <2>2, <2>3, <2>4 DEF Progress, Owning
<1> QED
  BY <1>2, <1>4, <1>5 DEF Progress, Versions

LEMMA ProgressFill == ASSUME Precise, Progress, FillVersionReliance PROVE Progress'
<1>1. PICK o \in Objs : /\ At(o, "rely") \in jobs /\ Advance(o, "rely", "assign")
                        /\ versionReliance' = [versionReliance EXCEPT ![o] = Labelled(o).relied]
  BY DEF FillVersionReliance
<1>2. /\ UNCHANGED <<prog, called, pc, versioning, threads, queue, equivalentObject, consume, yield,
                     stmtReliance, vpts>>
      /\ versioning = "labelling"
  BY <1>1 DEF FillVersionReliance, fsVars, labels, Precise, VersionType
<1>3. \A x, to : At(x, to) \in jobs' <=> (At(x, to) \in jobs /\ ~(x = o /\ to = "rely")) \/ (x = o /\ to = "assign")
  BY <1>1, AtSame DEF Advance
<1>4. \A x \in Objs : versionReliance'[x] = IF x = o THEN Labelled(o).relied ELSE versionReliance[x]
  BY <1>1 DEF Precise, VersionType
<1>5. Owners' = Owners /\ Mine(o) /\ \A x : Mine(x)' <=> Mine(x)
  BY <1>1, <1>2 DEF Progress, Owning, Mine, Owners
<1>6. \A x, to : At(x, to)' = At(x, to)
  BY DEF At
<1>7. Claiming'
  BY <1>2, <1>3, <1>4, <1>5, SameStarts DEF Progress, Claiming, Mine, Owners
<1>8. Owning'
  <2>1. \A x \in Objs : x # o => /\ RelianceDone(x)' <=> RelianceDone(x)
                                 /\ AssignmentDone(x)' <=> AssignmentDone(x)
    BY <1>2, <1>4, DoneKept
  <2>2. RelianceDone(o)'
    BY <1>2, <1>4, SameProgram DEF RelianceDone
  <2>3. \A x \in Objs : x # o => /\ At(x, "rely") \in jobs' <=> At(x, "rely") \in jobs
                                 /\ At(x, "assign") \in jobs' <=> At(x, "assign") \in jobs
    BY <1>3
  <2>4. At(o, "assign") \in jobs'
    BY <1>3
  <2> QED
    BY <1>2, <1>5, <1>6, <2>1, <2>2, <2>3, <2>4 DEF Progress, Owning
<1> QED
  BY <1>2, <1>7, <1>8 DEF Progress, Versions

LEMMA ProgressClaim == ASSUME Precise, Progress, ClaimFootprint PROVE Progress'
<1>1. PICK o \in Objs :
        /\ At(o, "claim") \in jobs
        /\ \/ /\ SetOwner(o, o) /\ Advance(o, "claim", "rely") /\ UNCHANGED <<versionReliance, stmtReliance>>
           \/ \E owner \in SameFootprint(o) :
                 /\ SetOwner(o, owner) /\ jobs' = jobs \ {At(o, "claim")}
                 /\ versionReliance' = [versionReliance EXCEPT ![o] = @ \cup versionReliance[owner]]
                 /\ stmtReliance' = [stmtReliance EXCEPT ![o] = @ \cup stmtReliance[owner]]
  BY DEF ClaimFootprint
<1>2. /\ UNCHANGED <<prog, called, pc, versioning, threads, queue, consume, yield, vpts>>
      /\ versioning = "labelling" /\ called = {}
  BY <1>1 DEF ClaimFootprint, fsVars, Precise, VersionType, Progress
<1>3. o \notin DOMAIN equivalentObject /\ versionReliance[o] = {} /\ stmtReliance[o] = {}
  BY <1>1, <1>2 DEF Progress, Claiming
<1>4. \A x, to : At(x, to)' = At(x, to)
  BY DEF At
<1>5. o \notin queue
  BY <1>1 DEF Progress, Claiming
<1>6. \A x \in DOMAIN equivalentObject : x \in Objs /\ equivalentObject[x] \in Objs
  BY DEF Precise, VersionType
<1>7. ASSUME SetOwner(o, o), Advance(o, "claim", "rely"), UNCHANGED <<versionReliance, stmtReliance>>
      PROVE  Progress'
  <2>1. \A x, to : At(x, to) \in jobs' <=> (At(x, to) \in jobs /\ ~(x = o /\ to = "claim")) \/ (x = o /\ to = "rely")
    BY <1>7, AtSame DEF Advance
  <2>2. /\ DOMAIN equivalentObject' = DOMAIN equivalentObject \cup {o}
        /\ equivalentObject'[o] = o
        /\ \A x \in DOMAIN equivalentObject : equivalentObject'[x] = equivalentObject[x]
    BY <1>3, <1>7 DEF SetOwner
  <2>3. Owners' = Owners \cup {o} /\ Mine(o)' /\ \A x : x # o => (Mine(x)' <=> Mine(x))
    BY <1>3, <2>2 DEF Mine, Owners
  <2>4. Claiming'
    BY <1>2, <1>5, <1>7, <2>1, <2>2, SameStarts DEF Progress, Claiming
  <2>5. Owning'
    <3>1. \A x \in Objs : /\ RelianceDone(x)' <=> RelianceDone(x)
                          /\ AssignmentDone(x)' <=> AssignmentDone(x)
      BY <1>2, <1>7, DoneKept
    <3>2. \A x \in Objs : x # o => /\ At(x, "rely") \in jobs' <=> At(x, "rely") \in jobs
                                   /\ At(x, "assign") \in jobs' <=> At(x, "assign") \in jobs
      BY <2>1
    <3>3. At(o, "rely") \in jobs'
      BY <2>1
    <3>4. \A x \in DOMAIN equivalentObject' : equivalentObject'[x] \in Owners'
      BY <2>2, <2>3 DEF Progress, Owning
    <3> QED
      BY <1>2, <1>4, <2>3, <3>1, <3>2, <3>3, <3>4 DEF Progress, Owning
  <2> QED
    BY <1>2, <2>4, <2>5 DEF Progress, Versions
<1>8. ASSUME NEW owner \in SameFootprint(o), SetOwner(o, owner), jobs' = jobs \ {At(o, "claim")},
             versionReliance' = [versionReliance EXCEPT ![o] = @ \cup versionReliance[owner]],
             stmtReliance' = [stmtReliance EXCEPT ![o] = @ \cup stmtReliance[owner]]
      PROVE  Progress'
  <2>1. \A x, to : At(x, to) \in jobs' <=> (At(x, to) \in jobs /\ ~(x = o /\ to = "claim"))
    BY <1>8, AtSame
  <2>2. owner \in DOMAIN equivalentObject /\ Mine(owner) /\ owner # o /\ owner \in Objs
    BY <1>3, <1>6 DEF SameFootprint, Mine, Owners
  <2>3. /\ DOMAIN equivalentObject' = DOMAIN equivalentObject \cup {o}
        /\ equivalentObject'[o] = owner
        /\ \A x \in DOMAIN equivalentObject : equivalentObject'[x] = equivalentObject[x]
    BY <1>3, <1>8 DEF SetOwner
  <2>4. Owners' = Owners /\ ~Mine(o) /\ ~Mine(o)' /\ \A x : Mine(x)' <=> Mine(x)
    BY <1>3, <2>2, <2>3 DEF Mine, Owners
  <2>5. \A x \in Objs :
           /\ versionReliance'[x] = IF x = o THEN versionReliance[owner] ELSE versionReliance[x]
           /\ stmtReliance'[x] = IF x = o THEN stmtReliance[owner] ELSE stmtReliance[x]
    BY <1>3, <1>8 DEF Precise, VersionType
  <2>6. Claiming'
    BY <1>2, <1>5, <2>1, <2>3, <2>5, SameStarts DEF Progress, Claiming
  <2>7. Owning'
    <3>1. \A x \in Objs : x # o => /\ RelianceDone(x)' <=> RelianceDone(x)
                                   /\ AssignmentDone(x)' <=> AssignmentDone(x)
      BY <1>2, <2>5, DoneKept
    <3>2. \A x \in Objs : /\ At(x, "rely") \in jobs' <=> At(x, "rely") \in jobs
                          /\ At(x, "assign") \in jobs' <=> At(x, "assign") \in jobs
      BY <2>1
    <3>3. \A x \in DOMAIN equivalentObject' : equivalentObject'[x] \in Owners'
      BY <2>2, <2>3, <2>4 DEF Progress, Owning, Mine
    <3> QED
      BY <1>2, <1>4, <2>4, <3>1, <3>2, <3>3 DEF Progress, Owning
  <2> QED
    BY <1>2, <2>6, <2>7 DEF Progress, Versions
<1> QED
  BY <1>1, <1>7, <1>8

LEMMA ProgressAssign == ASSUME Precise, Progress, AssignVersions PROVE Progress'
<1>1. PICK o \in Objs :
        /\ At(o, "assign") \in jobs /\ jobs' = jobs \ {At(o, "assign")}
        /\ consume' = [n \in NodesOf(g) |-> IF n \in DOMAIN Labelled(o).consume
                            THEN [consume[n] EXCEPT ![o] = Labelled(o).consume[n]] ELSE consume[n]]
        /\ yield' = [n \in NodesOf(g) |-> IF n \in DOMAIN Labelled(o).yield
                            THEN [yield[n] EXCEPT ![o] = Labelled(o).yield[n]] ELSE yield[n]]
        /\ stmtReliance' = [stmtReliance EXCEPT ![o] = Labelled(o).stmts]
  BY DEF AssignVersions
<1>2. /\ UNCHANGED <<prog, called, pc, versioning, threads, queue, equivalentObject, versionReliance, vpts>>
      /\ versioning = "labelling"
  BY <1>1 DEF AssignVersions, fsVars, Precise, VersionType
<1>3. \A x, to : At(x, to) \in jobs' <=> (At(x, to) \in jobs /\ ~(x = o /\ to = "assign"))
  BY <1>1, AtSame
<1>4. \A x, to : At(x, to)' = At(x, to)
  BY DEF At
<1>5. Owners' = Owners /\ Mine(o) /\ \A x : Mine(x)' <=> Mine(x)
  BY <1>1, <1>2 DEF Progress, Owning, Mine, Owners
<1>6. \A x \in Objs : stmtReliance'[x] = IF x = o THEN Labelled(o).stmts ELSE stmtReliance[x]
  BY <1>1 DEF Precise, VersionType
<1>7. \A n \in Nodes, x \in Objs :
         /\ consume'[n][x] = IF x = o /\ n \in DOMAIN Labelled(o).consume THEN Labelled(o).consume[n]
                             ELSE consume[n][x]
         /\ yield'[n][x] = IF x = o /\ n \in DOMAIN Labelled(o).yield THEN Labelled(o).yield[n]
                           ELSE yield[n][x]
  <2> DEFINE C == Labelled(o).consume
             Y == Labelled(o).yield
  <2>1. /\ consume' = [n \in Nodes |-> IF n \in DOMAIN C THEN [consume[n] EXCEPT ![o] = C[n]] ELSE consume[n]]
        /\ yield' = [n \in Nodes |-> IF n \in DOMAIN Y THEN [yield[n] EXCEPT ![o] = Y[n]] ELSE yield[n]]
    BY <1>1 DEF Nodes
  <2>2. consume \in Labels /\ yield \in Labels
    BY DEF Precise, VersionType
  <2> HIDE DEF C, Y
  <2>3. \A n \in Nodes, x \in Objs :
           /\ consume'[n][x] = IF x = o /\ n \in DOMAIN C THEN C[n] ELSE consume[n][x]
           /\ yield'[n][x] = IF x = o /\ n \in DOMAIN Y THEN Y[n] ELSE yield[n][x]
    BY <2>1, <2>2 DEF Labels
  <2> QED
    BY <2>3 DEF C, Y
<1>8. Claiming'
  BY <1>2, <1>3, <1>5, <1>6, SameStarts DEF Progress, Claiming, Mine, Owners
<1>9. Owning'
  <2>1. \A x \in Objs : x # o => /\ RelianceDone(x)' <=> RelianceDone(x)
                                 /\ AssignmentDone(x)' <=> AssignmentDone(x)
    BY <1>2, <1>6, <1>7, DoneKept
  <2>2. RelianceDone(o)' <=> RelianceDone(o)
    BY <1>2, SameProgram DEF RelianceDone
  <2>3. AssignmentDone(o)'
    <3>1. DOMAIN Labelled(o).consume \subseteq Nodes /\ DOMAIN Labelled(o).yield \subseteq Nodes
      BY LabelFacts, ReachedNodes DEF Precise
    <3> QED
      BY <1>2, <1>6, <1>7, <3>1, SameProgram DEF AssignmentDone
  <2>4. \A x \in Objs : x # o => /\ At(x, "rely") \in jobs' <=> At(x, "rely") \in jobs
                                 /\ At(x, "assign") \in jobs' <=> At(x, "assign") \in jobs
    BY <1>3
  <2>5. At(o, "rely") \in jobs' <=> At(o, "rely") \in jobs
    BY <1>3
  <2>6. At(o, "rely") \in jobs' \/ RelianceDone(o)'
    BY <1>5, <2>2, <2>5 DEF Progress, Owning
  <2> QED
    BY <1>2, <1>4, <1>5, <2>1, <2>3, <2>4, <2>6 DEF Progress, Owning
<1> QED
  BY <1>2, <1>8, <1>9 DEF Progress, Versions

\* Solving adds reliances only for calls.
LEMMA ProgressKept ==
    ASSUME Precise, Progress, versioning' = "on", queue' = {},
           UNCHANGED <<prog, threads, queue, jobs, equivalentObject, consume, yield, stmtReliance>>,
           called \subseteq called', called' = {} => versionReliance' = versionReliance,
           \A o \in Objs : versionReliance[o] \subseteq versionReliance'[o]
    PROVE  Progress'
<1>1. Owners' = Owners /\ \A x : Mine(x)' <=> Mine(x)
  BY DEF Mine, Owners
<1>2. \A x, to : At(x, to)' = At(x, to)
  BY DEF At
<1>3. Claiming'
  BY SameStarts DEF Progress, Claiming, At
<1>4. \A x \in Objs : /\ RelianceDone(x) => RelianceDone(x)'
                      /\ AssignmentDone(x) => AssignmentDone(x)'
  BY SameProgram DEF RelianceDone, AssignmentDone
<1>5. Owning'
  BY <1>1, <1>2, <1>4 DEF Progress, Owning
<1> QED
  BY <1>3, <1>5 DEF Progress

LEMMA ProgressStep ==
    ASSUME Precise, Progress, LabellingNext \/ VersionedNext
    PROVE  Progress'
<1>1. CASE JoinWorkers
  <2>1. /\ versioning' = "on" /\ queue = {} /\ called' = called /\ versionReliance' = versionReliance
        /\ UNCHANGED <<prog, threads, queue, jobs, equivalentObject, consume, yield, stmtReliance>>
    BY <1>1 DEF JoinWorkers, labels, solving
  <2> QED
    BY <2>1, ProgressKept
<1>2. CASE VersionedNext
  <2>1. /\ versioning = "on" /\ versioning' = "on"
        /\ UNCHANGED <<prog, threads, queue, jobs, equivalentObject, consume, yield, stmtReliance>>
    BY <1>2 DEF VersionedNext, VInitWorklist, InitWorklist, ProcessDummy, ProcessOther, ProcessVStore,
                VUpdateCallGraph, Ready, labels, vVars, solving
  <2>2. \/ called' = called /\ versionReliance' = versionReliance
        \/ /\ called' = called \cup NewCalls
           /\ versionReliance' = [o \in Objs |-> versionReliance[o] \cup NewReliance(NewCalls, o)]
    <3>1. \A x \in Objs : [o \in Objs |-> NewReliance(NewCalls, o)][x] = NewReliance(NewCalls, x)
      OBVIOUS
    <3>2. CASE VUpdateCallGraph
      BY <3>1, <3>2 DEF VUpdateCallGraph, Connect
    <3>3. CASE VInitWorklist \/ ProcessDummy \/ ProcessOther \/ ProcessVStore
      BY <3>3 DEF VInitWorklist, InitWorklist, ProcessDummy, ProcessOther, ProcessVStore, vVars, solving
    <3> QED
      BY <1>2, <3>2, <3>3 DEF VersionedNext
  <2>3. versionReliance = [o \in Objs |-> versionReliance[o]]
    BY DEF Precise, VersionType
  <2>4. ASSUME called' = {} PROVE versionReliance' = versionReliance
    <3>1. NewCalls = {} => \A o \in Objs : NewReliance(NewCalls, o) = {}
      BY DEF NewReliance
    <3> QED
      BY <2>2, <2>3, <2>4, <3>1
  <2>5. queue' = {} /\ called \subseteq called'
    BY <2>1, <2>2 DEF Progress
  <2>6. \A o \in Objs : versionReliance[o] \subseteq versionReliance'[o]
    BY <2>2
  <2> QED
    BY <2>1, <2>4, <2>5, <2>6, ProgressKept
<1> QED
  BY <1>1, <1>2, ProgressPop, ProgressClaim, ProgressFill, ProgressAssign DEF LabellingNext

-----------------------------------------------------------------------------
(***************************************************************************)
(* What is reached from the starting nodes of an object, which are all the *)
(* stores that may write it: flow-sensitive points-to sets are within      *)
(* Andersen's.                                                             *)
(***************************************************************************)
Aux    == AndersenPts[prog]
Met(o) == Reached(g, Aux, o)

LEMMA MetNodes ==
    ASSUME FlowType, NEW o \in Objs
    PROVE  /\ \A n \in Stores(g) : o \in Aux[Stmt(n).ptr] => n \in Met(o)
           /\ \A e \in IndirectOf(g, g.calls) : e[3] = o =>
                 /\ e[2] \in Prelabelled(g) => e[2] \in Met(o)
                 /\ e[1] \in Prelabelled(g) => e[1] \in Met(o)
           /\ \A e \in Overlay(g, o) : e[1] \in Met(o) => e[2] \in Met(o)
<1>1. /\ StartingNodes(g, Aux, o) \subseteq Met(o) /\ Met(o) \subseteq Nodes
      /\ \A e \in Overlay(g, o) :
            /\ <<e[1], e[2], o>> \in g.indirect
            /\ e[1] \in Met(o) /\ e[2] \notin Prelabelled(g) => e[2] \in Met(o)
  BY ReachedNodes DEF Met, Aux
<1>2. \A n \in Stores(g) : o \in Aux[Stmt(n).ptr] => n \in Met(o)
  BY <1>1 DEF StartingNodes, Stmt
<1>3. ASSUME NEW e \in IndirectOf(g, g.calls), e[3] = o, NEW n \in {e[1], e[2]}, n \in Prelabelled(g)
      PROVE  n \in Met(o)
  <2>1. o \in Accesses(prog, n)
    BY <1>3, ProblemAssumption DEF FlowType, g
  <2>2. CASE n \in Stores(g)
    <3>1. o \in Aux[Stmt(n).ptr]
      BY <2>1, <2>2 DEF Accesses, Stores, OfKind, Stmt, g, Aux
    <3> QED
      BY <1>2, <2>2, <3>1
  <2>3. CASE n \in Delta(g)
    <3>1. g.stmt[n].kind = "mssa"
      BY <2>3, KindsApart DEF Stmt
    <3>2. o \in g.stmt[n].objs
      BY <2>1, <3>1 DEF Accesses, g
    <3> QED
      BY <1>1, <2>3, <3>2 DEF StartingNodes
  <2> QED
    BY <1>3, <2>2, <2>3 DEF Prelabelled
<1>4. \A e \in Overlay(g, o) : e[1] \in Met(o) => e[2] \in Met(o)
  <2> SUFFICES ASSUME NEW e \in Overlay(g, o), e[1] \in Met(o), e[2] \in Prelabelled(g) PROVE e[2] \in Met(o)
    BY <1>1
  <2> DEFINE f == <<e[1], e[2], o>>
  <2>1. f \in IndirectOf(g, g.calls) /\ f[3] = o /\ f[2] = e[2]
    BY <1>1 DEF IndirectOf
  <2> HIDE DEF f
  <2> QED
    BY <1>3, <2>1
<1> QED
  BY <1>2, <1>3, <1>4

\* Where something is melded, the labelling has been.
LEMMA MeldedMet ==
    ASSUME FlowType, NEW o \in Objs, NEW n \in Nodes, n \notin Delta(g), Consume(g, PrintOf(o), n) # {}
    PROVE  n \in Met(o)
<1> DEFINE fp == PrintOf(o)
           E  == {e \in fp : e[1] \notin Prelabelled(g)}
           T  == {e \in Nodes \X Nodes : e[2] \in Met(o)}
<1>1. WellFormed(g) /\ fp \subseteq Nodes \X Nodes /\ \A e \in fp : e[2] \in Met(o)
  <2>1. fp = {e \in Overlay(g, o) : e[1] \in Met(o)} /\ Overlay(g, o) \subseteq Nodes \X Nodes
    BY LabelFacts, ReachedNodes DEF Met, Aux
  <2> QED
    BY <2>1, ProgramFormed, MetNodes
<1>2. E \subseteq T /\ Transitive(T)
  BY <1>1 DEF Transitive
<1>3. Closure(E, Nodes) \subseteq T
  <2>1. E \in SUBSET (Nodes \X Nodes) /\ T \in SUBSET (Nodes \X Nodes) /\ IsFiniteSet(Nodes)
    BY <1>1 DEF WellFormed, Nodes
  <2> HIDE DEF E, T
  <2> QED
    BY <1>2, <2>1, ClosureLeast
<1>4. PICK f \in fp : f[2] = n \/ <<f[2], n>> \in Closure(E, Nodes)
  BY DEF Consume, MeldVersion, Nodes
<1> QED
  BY <1>1, <1>3, <1>4

\* What the labels are once solving has begun.
LEMMA OwnLabels ==
    ASSUME Precise, Progress, versioning = "on", OwnFootprints, NEW o \in Objs
    PROVE  /\ Canonical(o) = o
           /\ Met(o) # {} => Labelled(o).relied \subseteq versionReliance[o]
           /\ \A n \in Met(o) \cap (Prelabelled(g) \cup DeltaSource(g) \cup Loads(g)) :
                 consume[n][o] = Consume(g, PrintOf(o), n) /\ yield[n][o] = Yield(g, PrintOf(o), n)
           /\ \A n \in Stores(g) \cup Loads(g) :
                 consume[n][o] # {} => <<consume[n][o], n>> \in stmtReliance[o]
<1>1. Canonical(o) = o
  BY DEF Canonical, OwnFootprints
<1>2. ASSUME Met(o) # {} PROVE Mine(o)
  <2>1. StartingNodes(g, Aux, o) # {}
    BY <1>2 DEF Met, Reached, ReachedFrom
  <2>2. o \in PrelabelledObjects
    BY <2>1 DEF PrelabelledObjects, Aux
  <2>3. o \in DOMAIN equivalentObject
    BY <2>2 DEF Progress, Claiming, Precise, VersionType
  <2> QED
    BY <1>1, <2>3 DEF Mine, Owners, Canonical
<1>3. ASSUME Met(o) # {} PROVE RelianceDone(o) /\ AssignmentDone(o)
  BY <1>2, <1>3 DEF Progress, Owning, Precise, VersionType
<1> DEFINE V == Met(o) \cap (Prelabelled(g) \cup DeltaSource(g) \cup Loads(g))
<1>4. /\ DOMAIN Labelled(o).consume = V /\ DOMAIN Labelled(o).yield = V
      /\ \A n \in V : /\ Labelled(o).consume[n] = Consume(g, PrintOf(o), n)
                      /\ Labelled(o).yield[n] = Yield(g, PrintOf(o), n)
      /\ Labelled(o).stmts = {<<Consume(g, PrintOf(o), n), n>> :
                                n \in {m \in V : m \in Stores(g) \cup Loads(g) /\ Consume(g, PrintOf(o), m) # {}}}
  BY LabelFacts DEF Precise, Met, Aux
<1>5. \A n \in V : consume[n][o] = Consume(g, PrintOf(o), n) /\ yield[n][o] = Yield(g, PrintOf(o), n)
  BY <1>3, <1>4 DEF AssignmentDone
<1>6. ASSUME NEW n \in Stores(g) \cup Loads(g), consume[n][o] # {}
      PROVE  <<consume[n][o], n>> \in stmtReliance[o]
  <2>1. n \in Nodes /\ n \notin Delta(g) /\ FlowType
    BY KindsApart DEF Precise
  <2>2. consume[n][o] = Consume(g, PrintOf(o), n)
    BY <1>6, <2>1 DEF Precise, Assigned, IsLabel
  <2>3. n \in Met(o)
    BY <1>6, <2>1, <2>2, MeldedMet
  <2>4. n \in V
    BY <2>3 DEF Prelabelled
  <2> HIDE DEF V
  <2>5. <<Consume(g, PrintOf(o), n), n>> \in Labelled(o).stmts
    BY <1>4, <1>6, <2>2, <2>4
  <2> QED
    BY <1>3, <2>2, <2>3, <2>5 DEF AssignmentDone
<1> QED
  BY <1>1, <1>3, <1>5, <1>6 DEF RelianceDone

-----------------------------------------------------------------------------
(***************************************************************************)
(* What propagation passes on.                                             *)
(***************************************************************************)
LEMMA PropagatesAll ==
    ASSUME NEW vp \in VSets, NEW rel,
           \A o \in Objs : \A r \in rel[o] : r[1] \in Versions(prog) /\ r[2] \in Versions(prog)
    PROVE  LET p == PropagateVersions(vp, rel)
           IN  /\ \A o \in Objs, v \in Versions(prog) : /\ vp[o][v] \subseteq p.vpts[o][v]
                                                        /\ p.vpts[o][v] # vp[o][v] => <<o, v>> \in p.grown
               /\ \A o \in Objs : \A r \in rel[o] : vp[o][r[1]] \subseteq p.vpts[o][r[2]]
<1> DEFINE p         == PropagateVersions(vp, rel)
           add(o, v) == UNION {vp[o][e[1]] : e \in {f \in rel[o] : f[2] = v}}
<1>1. /\ p.vpts = [o \in Objs |-> [v \in Versions(prog) |-> vp[o][v] \cup add(o, v)]]
      /\ p.grown = UNION {{<<o, e[2]>> : e \in {f \in rel[o] : ~(vp[o][f[1]] \subseteq vp[o][f[2]])}} : o \in Objs}
  BY DEF PropagateVersions
<1>2. \A o \in Objs, v \in Versions(prog) : p.vpts[o][v] = vp[o][v] \cup add(o, v)
  BY <1>1
<1> HIDE DEF p
<1>3. ASSUME NEW o \in Objs, NEW v \in Versions(prog), p.vpts[o][v] # vp[o][v] PROVE <<o, v>> \in p.grown
  <2>1. PICK x \in add(o, v) : x \notin vp[o][v]
    <3> HIDE DEF add
    <3> QED
      BY <1>2, <1>3
  <2>2. PICK e \in rel[o] : e[2] = v /\ x \in vp[o][e[1]]
    BY <2>1
  <2> QED
    BY <1>1, <2>1, <2>2
<1>4. ASSUME NEW o \in Objs, NEW r \in rel[o] PROVE vp[o][r[1]] \subseteq p.vpts[o][r[2]]
  BY <1>2
<1> QED
  BY <1>2, <1>3, <1>4 DEF p

\* Every reliance has passed on what it can, or its source is in the work list.
Passing ==
    \A o \in Objs : \A r \in versionReliance[o] :
        <<o, r[1]>> \in propWork \/ vpts[o][r[1]] \subseteq vpts[o][r[2]]

\* Before propagation along rel versions have grown to vp, those in changed; those in more
\* are in the work list.  What they pass on is taken care of.
Feeds(vp, rel, changed, more) ==
    /\ \A o \in Objs, v \in Versions(prog) : /\ vpts[o][v] \subseteq vp[o][v]
                                             /\ vp[o][v] # vpts[o][v] => <<o, v>> \in changed
    /\ \A o \in Objs : \A r \in rel[o] : r[1] \in Versions(prog) /\ r[2] \in Versions(prog)
    /\ \A o \in Objs : \A r \in versionReliance'[o] :
          /\ r[1] \in Versions(prog) /\ r[2] \in Versions(prog)
          /\ \/ <<o, r[1]>> \in more \/ r \in rel[o]
             \/ vpts[o][r[1]] \subseteq vpts[o][r[2]] /\ <<o, r[1]>> \notin changed

(* A version that grows is in the work list, so reliances still hold. *)
LEMMA ReliancesKept ==
    ASSUME vpts \in VSets, NEW vp \in VSets, NEW rel, NEW changed, NEW more, Feeds(vp, rel, changed, more),
           vpts' = PropagateVersions(vp, rel).vpts,
           propWork' = more \cup PropagateVersions(vp, rel).grown
    PROVE  Passing'
<1> DEFINE p == PropagateVersions(vp, rel)
<1>1. /\ \A o \in Objs, v \in Versions(prog) : /\ vp[o][v] \subseteq p.vpts[o][v]
                                               /\ p.vpts[o][v] # vp[o][v] => <<o, v>> \in p.grown
      /\ \A o \in Objs : \A r \in rel[o] : vp[o][r[1]] \subseteq p.vpts[o][r[2]]
  BY PropagatesAll DEF Feeds
<1> HIDE DEF p
<1> SUFFICES ASSUME NEW o \in Objs, NEW r \in versionReliance'[o], <<o, r[1]>> \notin propWork'
             PROVE  vpts'[o][r[1]] \subseteq vpts'[o][r[2]]
  BY DEF Passing
<1>2. vpts' = p.vpts /\ propWork' = more \cup p.grown
  BY DEF p
<1>3. r[1] \in Versions(prog) /\ r[2] \in Versions(prog)
  BY DEF Feeds
<1>4. vpts'[o][r[1]] = vp[o][r[1]] /\ <<o, r[1]>> \notin more
  BY <1>1, <1>2, <1>3
<1>5. CASE r \in rel[o]
  BY <1>1, <1>2, <1>4, <1>5
<1>6. CASE vpts[o][r[1]] \subseteq vpts[o][r[2]] /\ <<o, r[1]>> \notin changed
  <2>1. vp[o][r[1]] = vpts[o][r[1]]
    BY <1>3, <1>6 DEF Feeds
  <2>2. vpts[o][r[2]] \subseteq vp[o][r[2]] /\ vp[o][r[2]] \subseteq vpts'[o][r[2]]
    BY <1>1, <1>2, <1>3 DEF Feeds
  <2> QED
    BY <1>4, <1>6, <2>1, <2>2
<1> QED
  BY <1>4, <1>5, <1>6 DEF Feeds

\* Reliances are between versions there are.
LEMMA ReliedVersions ==
    ASSUME Precise, NEW o \in Objs, NEW r \in versionReliance[o]
    PROVE  r[1] \in Versions(prog) /\ r[2] \in Versions(prog)
<1>1. FlowType /\ VersionType /\ Assigned /\ Relying /\ Within(pts)
  BY DEF Precise
<1>2. r[1] \in Versions(prog)
  BY <1>1, RelyingWithin
<1>3. CASE r \in Labelled(o).relied
  <2>1. PICK e \in PrintOf(o) : r = <<Yield(g, PrintOf(o), e[1]), Consume(g, PrintOf(o), e[2])>>
    BY <1>1, <1>3, LabelFacts
  <2>2. e \in Overlay(g, o) /\ e[1] \in Met(o)
    BY <1>1, LabelFacts DEF Met, Aux
  <2>3. e[2] \in Met(o)
    BY <1>1, <2>2, MetNodes
  <2> QED
    BY <1>1, <1>2, <2>1, <2>3, LabelFacts DEF Met, Aux
<1>4. CASE Added(o, r)
  <2>1. PICK c \in called : \E e \in c.indirect : e[3] = o /\ r = <<getYield(e[1], o), getConsume(e[2], o)>>
    BY <1>4 DEF Added
  <2>2. PICK e \in c.indirect : e[3] = o /\ r = <<getYield(e[1], o), getConsume(e[2], o)>>
    BY <2>1
  <2>3. e[2] \in Nodes
    <3>1. e \in IndirectOf(g, g.calls)
      BY <1>1, <2>1, <2>2 DEF FlowType, IndirectOf
    <3> QED
      BY <1>1, <3>1, ProgramFormed DEF WellFormed, Nodes
  <2>4. r[2] # {} /\ r[2] = getConsume(e[2], o)
    BY <1>4, <2>2 DEF Added
  <2> QED
    BY <1>1, <1>2, <2>3, <2>4, Got DEF IsLabel
<1> QED
  BY <1>1, <1>3, <1>4 DEF Relying

ReliedFound ==
    \A o \in Objs : \A r \in versionReliance[o] : r[1] \in Versions(prog) /\ r[2] \in Versions(prog)

LEMMA ReliedAll == Precise => ReliedFound
  BY ReliedVersions DEF ReliedFound

-----------------------------------------------------------------------------
(***************************************************************************)
(* While solving, what is in no work list is settled.                      *)
(***************************************************************************)
VSettled(n) ==
    /\ TopSettled(n)
    /\ Stmt(n).kind = "load" =>
          \/ Stmt(n).ptr \in Waiting
          \/ \A o \in pts[Stmt(n).ptr] :
                getConsume(n, o) # {} => vpts[o][getConsume(n, o)] \subseteq pts[Stmt(n).dst]
    /\ Stmt(n).kind = "store" =>
          \/ Stmt(n).ptr \in Waiting \/ Stmt(n).src \in Waiting
          \/ \A o \in Objs : getYield(n, o) # {} =>
                /\ o \in pts[Stmt(n).ptr] => pts[Stmt(n).src] \subseteq vpts[o][getYield(n, o)]
                /\ pts[Stmt(n).ptr] # {} /\ ~IsStrongUpdate(n, o) /\ consume[n][o] # {} =>
                      vpts[o][consume[n][o]] \subseteq vpts[o][getYield(n, o)]

\* The calls connected have their reliances.
Connected ==
    \A c \in called : \A e \in c.indirect :
        \/ getYield(e[1], e[3]) = {} \/ getConsume(e[2], e[3]) = {}
        \/ <<getYield(e[1], e[3]), getConsume(e[2], e[3])>> \in versionReliance[e[3]]

Solving ==
    /\ Passing /\ Connected
    /\ pc \in {"init", "solve", "done"}
    /\ pc = "solve" => \A n \in Nodes \ worklist : VSettled(n)
    /\ pc = "done" => /\ worklist = {} /\ propWork = {} /\ called = Resolved(g, pts)
                      /\ \A n \in Nodes : VSettled(n)

\* The labels stay as they are.
LabelsFixed == UNCHANGED <<prog, versioning, equivalentObject, consume, yield, stmtReliance>>

LEMMA SameVersions ==
    ASSUME LabelsFixed
    PROVE  /\ \A n, o : getConsume(n, o)' = getConsume(n, o) /\ getYield(n, o)' = getYield(n, o)
           /\ Versions(prog)' = Versions(prog) /\ OwnFootprints' = OwnFootprints
BY DEF LabelsFixed, getConsume, getYield, Canonical, Versions, OwnFootprints

\* A load or store whose versions have not grown, and whose variables are as they were, stays settled.
LEMMA VSettledKept ==
    ASSUME Precise, Progress, versioning = "on", OwnFootprints, LabelsFixed,
           UNCHANGED <<pts, direct, called>>, Waiting \subseteq Waiting', NEW grown, Readers(grown) \subseteq worklist',
           \A o \in Objs, v \in Versions(prog) : /\ vpts[o][v] \subseteq vpts'[o][v]
                                                 /\ vpts'[o][v] # vpts[o][v] => <<o, v>> \in grown,
           NEW m \in Nodes \ worklist', VSettled(m)
    PROVE  VSettled(m)'
<1>1. /\ prog' = prog /\ g' = g /\ Nodes' = Nodes /\ \A k : Stmt(k)' = Stmt(k)
      /\ Typed(Stmt(m)) /\ pts \in Sets /\ consume' = consume
  BY SameProgram, NodeKinds DEF LabelsFixed, Precise, FlowType, Nodes
<1>2. TopSettled(m)'
  BY <1>1 DEF VSettled, TopSettled, Nodes
<1>3. ASSUME Stmt(m).kind \in {"load", "store"}, NEW o \in Objs, consume[m][o] # {}
      PROVE  vpts'[o][consume[m][o]] = vpts[o][consume[m][o]]
  <2>1. m \in Stores(g) \cup Loads(g)
    BY <1>3 DEF Stores, Loads, OfKind, Stmt, Nodes
  <2>2. <<consume[m][o], m>> \in stmtReliance[o]
    BY <1>3, <2>1, OwnLabels
  <2>3. consume[m][o] \in Versions(prog)
    BY <1>3 DEF Precise, Assigned, IsLabel
  <2>4. <<o, consume[m][o]>> \notin grown
    BY <2>2 DEF Readers
  <2> QED
    BY <2>3, <2>4
<1>4. \A o \in Objs : /\ getConsume(m, o) = consume[m][o] /\ getConsume(m, o)' = consume[m][o]
                      /\ getYield(m, o)' = getYield(m, o)
                      /\ getYield(m, o) # {} => getYield(m, o) \in Versions(prog)
  <2>1. \A o \in Objs : getConsume(m, o) = consume[m][o]
    BY OwnLabels DEF getConsume
  <2>2. \A o \in Objs : getYield(m, o) # {} => getYield(m, o) \in Versions(prog)
    BY Got DEF Precise, IsLabel
  <2> QED
    BY <2>1, <2>2, SameVersions
<1>5. ASSUME Stmt(m).kind = "load", Stmt(m).ptr \notin Waiting', NEW o \in pts[Stmt(m).ptr], consume[m][o] # {}
      PROVE  vpts'[o][consume[m][o]] \subseteq pts[Stmt(m).dst]
  <2>1. o \in Objs
    BY <1>1, <1>5 DEF Typed, Sets
  <2> QED
    BY <1>3, <1>4, <1>5, <2>1 DEF VSettled
<1>6. ASSUME Stmt(m).kind = "store", Stmt(m).ptr \notin Waiting', Stmt(m).src \notin Waiting', NEW o \in Objs,
             getYield(m, o) # {}
      PROVE  /\ o \in pts[Stmt(m).ptr] => pts[Stmt(m).src] \subseteq vpts'[o][getYield(m, o)]
             /\ pts[Stmt(m).ptr] # {} /\ ~IsStrongUpdate(m, o) /\ consume[m][o] # {} =>
                   vpts'[o][consume[m][o]] \subseteq vpts'[o][getYield(m, o)]
  <2>1. vpts[o][getYield(m, o)] \subseteq vpts'[o][getYield(m, o)]
    BY <1>4, <1>6
  <2>2. /\ o \in pts[Stmt(m).ptr] => pts[Stmt(m).src] \subseteq vpts[o][getYield(m, o)]
        /\ pts[Stmt(m).ptr] # {} /\ ~IsStrongUpdate(m, o) /\ consume[m][o] # {} =>
              vpts[o][consume[m][o]] \subseteq vpts[o][getYield(m, o)]
    BY <1>6 DEF VSettled
  <2> QED
    BY <1>3, <1>6, <2>1, <2>2
<1>7. \A o : IsStrongUpdate(m, o)' = IsStrongUpdate(m, o)
  BY <1>1 DEF IsStrongUpdate
<1>8. \A o \in pts[Stmt(m).ptr] : Stmt(m).kind = "load" => o \in Objs
  BY <1>1 DEF Typed, Sets
<1> QED
  BY <1>1, <1>2, <1>4, <1>5, <1>6, <1>7, <1>8 DEF VSettled

LEMMA SolvingDummy ==
    ASSUME Precise, Progress, OwnFootprints, Solving, ProcessDummy
    PROVE  Solving'
<1>1. PICK ov \in propWork : Propagate(vpts, From({ov}), worklist, propWork \ {ov})
  BY DEF ProcessDummy
<1> DEFINE rel == From({ov})
           p   == PropagateVersions(vpts, rel)
<1>2. /\ UNCHANGED <<prog, pts, direct, called, pc, versioning, equivalentObject, consume, yield, versionReliance,
                     stmtReliance>>
      /\ versioning = "on" /\ pc = "solve"
      /\ vpts' = p.vpts /\ propWork' = (propWork \ {ov}) \cup p.grown
      /\ worklist' = worklist \cup Readers(p.grown)
  BY <1>1 DEF ProcessDummy, Ready, labels, Propagate
<1>3. vpts \in VSets /\ LabelsFixed
  BY <1>2 DEF Precise, VersionType, LabelsFixed
<1>4. \A o \in Objs : \A r \in versionReliance[o] : r[1] \in Versions(prog) /\ r[2] \in Versions(prog)
  BY ReliedVersions
<1>5. \A o \in Objs : /\ rel[o] = {r \in versionReliance[o] : <<o, r[1]>> = ov}
                      /\ \A r \in rel[o] : r[1] \in Versions(prog) /\ r[2] \in Versions(prog)
  BY <1>4 DEF From
<1> HIDE DEF rel
<1>6. /\ \A o \in Objs, v \in Versions(prog) : /\ vpts[o][v] \subseteq p.vpts[o][v]
                                               /\ p.vpts[o][v] # vpts[o][v] => <<o, v>> \in p.grown
  BY <1>3, <1>5, PropagatesAll
<1>7. Passing'
  <2>1. Feeds(vpts, rel, {}, propWork \ {ov})
    BY <1>2, <1>4, <1>5 DEF Solving, Passing, Feeds
  <2> QED
    BY <1>2, <1>3, <2>1, ReliancesKept
<1> HIDE DEF p
<1>8. Connected'
  BY <1>2, <1>3, SameVersions DEF Solving, Connected
<1>9. Waiting \subseteq Waiting'
  BY <1>2, SameProgram DEF Waiting, Formal
<1>10. ASSUME NEW m \in Nodes \ worklist' PROVE VSettled(m)'
  <2>1. VSettled(m)
    BY <1>2 DEF Solving
  <2> QED
    BY <1>2, <1>3, <1>6, <1>9, <2>1, VSettledKept
<1> QED
  BY <1>2, <1>7, <1>8, <1>10, SameProgram DEF Solving

LEMMA SolvingStore ==
    ASSUME Precise, Progress, OwnFootprints, Solving, ProcessVStore
    PROVE  Solving'
<1>1. PICK n \in worklist :
        /\ IsStore(n)
        /\ LET r == StoreResult(n)
           IN  Propagate(r.vpts, From(r.changed), (worklist \ {n}) \cup Readers(r.changed), propWork)
  BY DEF ProcessVStore
<1> DEFINE s   == StoreResult(n)
           vp  == s.vpts
           ch  == s.changed
           rel == From(ch)
           p   == PropagateVersions(vp, rel)
<1>2. /\ UNCHANGED <<prog, pts, direct, called, pc, versioning, equivalentObject, consume, yield, versionReliance,
                     stmtReliance>>
      /\ versioning = "on" /\ pc = "solve"
      /\ vpts' = p.vpts /\ propWork' = propWork \cup p.grown
      /\ worklist' = ((worklist \ {n}) \cup Readers(ch)) \cup Readers(p.grown)
  BY <1>1 DEF ProcessVStore, Ready, labels, Propagate
<1>3. vpts \in VSets /\ LabelsFixed /\ n \in Nodes /\ FlowType
  BY <1>2 DEF Precise, VersionType, LabelsFixed, FlowType, Nodes
<1>4. /\ vp \in VSets
      /\ \A o \in Objs, v \in Versions(prog) : /\ vpts[o][v] \subseteq vp[o][v]
                                               /\ vp[o][v] # vpts[o][v] => <<o, v>> \in ch
      /\ pts[Stmt(n).ptr] # {} => \A o \in Objs : getYield(n, o) # {} =>
            /\ o \in pts[Stmt(n).ptr] => pts[Stmt(n).src] \subseteq vp[o][getYield(n, o)]
            /\ ~IsStrongUpdate(n, o) /\ consume[n][o] # {} =>
                  vpts[o][consume[n][o]] \subseteq vp[o][getYield(n, o)]
  BY <1>1, <1>2, <1>3, StoreResultWithin
<1>5. \A o \in Objs : \A r \in versionReliance[o] : r[1] \in Versions(prog) /\ r[2] \in Versions(prog)
  BY ReliedVersions
<1> HIDE DEF s, vp, ch
<1>6. \A o \in Objs : /\ rel[o] = {r \in versionReliance[o] : <<o, r[1]>> \in ch}
                      /\ \A r \in rel[o] : r[1] \in Versions(prog) /\ r[2] \in Versions(prog)
  BY <1>5 DEF From
<1> HIDE DEF rel
<1>7. \A o \in Objs, v \in Versions(prog) : /\ vp[o][v] \subseteq p.vpts[o][v]
                                            /\ p.vpts[o][v] # vp[o][v] => <<o, v>> \in p.grown
  BY <1>4, <1>6, PropagatesAll
<1>8. Passing'
  <2>1. Feeds(vp, rel, ch, propWork)
    BY <1>2, <1>4, <1>5, <1>6 DEF Solving, Passing, Feeds
  <2> QED
    BY <1>2, <1>3, <1>4, <2>1, ReliancesKept
<1> DEFINE grown == ch \cup p.grown
<1>9. /\ Readers(grown) \subseteq worklist'
      /\ \A o \in Objs, v \in Versions(prog) : /\ vpts[o][v] \subseteq vpts'[o][v]
                                               /\ vpts'[o][v] # vpts[o][v] => <<o, v>> \in grown
  <2>1. Readers(grown) \subseteq Readers(ch) \cup Readers(p.grown)
    BY DEF Readers
  <2>2. \A o \in Objs, v \in Versions(prog) : /\ vpts[o][v] \subseteq vpts'[o][v]
                                              /\ vpts'[o][v] # vpts[o][v] => <<o, v>> \in grown
    BY <1>2, <1>4, <1>7
  <2> QED
    BY <1>2, <2>1, <2>2
<1>10. Connected'
  BY <1>2, <1>3, SameVersions DEF Solving, Connected
<1>11. /\ Waiting \subseteq Waiting' /\ Waiting' = {Stmt(m).var : m \in {k \in worklist' : Formal(k)}}
       /\ g' = g /\ \A m : Stmt(m)' = Stmt(m)
  <2>1. g' = g /\ \A m : Stmt(m)' = Stmt(m)
    BY <1>2 DEF g, Stmt
  <2>2. ~Formal(n)
    BY <1>1 DEF IsStore, Formal
  <2>3. Waiting' = {Stmt(m).var : m \in {k \in worklist' : Formal(k)}}
    BY <2>1 DEF Waiting, Formal
  <2> QED
    BY <1>2, <2>1, <2>2, <2>3 DEF Waiting
<1> HIDE DEF p, grown
<1>12. ASSUME NEW m \in Nodes \ worklist', m # n PROVE VSettled(m)'
  <2>1. VSettled(m)
    BY <1>2, <1>12 DEF Solving
  <2> QED
    BY <1>2, <1>3, <1>9, <1>11, <2>1, VSettledKept
<1>13. ASSUME n \notin worklist' PROVE VSettled(n)'
  <2>1. Typed(Stmt(n)) /\ Stmt(n).kind = "store" /\ n \in Stores(g)
    BY <1>1, <1>3, NodeKinds DEF IsStore, Stores, OfKind, Stmt, Nodes
  <2>2. ASSUME NEW o \in Objs, consume[n][o] # {} PROVE vpts'[o][consume[n][o]] = vpts[o][consume[n][o]]
    <3>1. <<consume[n][o], n>> \in stmtReliance[o]
      BY <1>2, <2>1, <2>2, OwnLabels
    <3>2. consume[n][o] \in Versions(prog)
      BY <1>3, <2>2 DEF Precise, Assigned, IsLabel
    <3>3. <<o, consume[n][o]>> \notin grown
      BY <1>9, <1>13, <3>1 DEF Readers
    <3> QED
      BY <1>9, <3>2, <3>3
  <2>3. \A o \in Objs : /\ getYield(n, o)' = getYield(n, o)
                        /\ getYield(n, o) # {} => /\ getYield(n, o) \in Versions(prog)
                                                  /\ vp[o][getYield(n, o)] \subseteq vpts'[o][getYield(n, o)]
    <3>1. \A o \in Objs : getYield(n, o) # {} => getYield(n, o) \in Versions(prog)
      BY <1>3, Got DEF Precise, IsLabel
    <3> QED
      BY <1>2, <1>3, <1>7, <3>1, SameVersions
  <2>4. \A o : IsStrongUpdate(n, o)' = IsStrongUpdate(n, o)
    BY <1>2, <1>11 DEF IsStrongUpdate
  <2>5. TopSettled(n)'
    BY <1>11, <2>1 DEF TopSettled
  <2>6. \A o \in Objs : getYield(n, o) # {} =>
            /\ o \in pts[Stmt(n).ptr] => pts[Stmt(n).src] \subseteq vpts'[o][getYield(n, o)]
            /\ pts[Stmt(n).ptr] # {} /\ ~IsStrongUpdate(n, o) /\ consume[n][o] # {} =>
                  vpts'[o][consume[n][o]] \subseteq vpts'[o][getYield(n, o)]
    BY <1>4, <2>2, <2>3
  <2> QED
    BY <1>2, <1>11, <2>1, <2>3, <2>4, <2>5, <2>6 DEF VSettled
<1> QED
  BY <1>2, <1>8, <1>10, <1>12, <1>13, SameProgram DEF Solving

LEMMA SolvingOther ==
    ASSUME Precise, Progress, OwnFootprints, Solving, ProcessOther
    PROVE  Solving'
<1>1. PICK n \in worklist :
        /\ ~IsStore(n)
        /\ LET r   == IF Stmt(n).kind = "load" THEN ProcessVLoad(n) ELSE ProcessTopLevel(n)
               top == PassOn(n, r.pts)
           IN  IF r.changed
                 THEN pts' = top.pts /\ worklist' = (worklist \ {n}) \cup top.push
                 ELSE pts' = r.pts /\ worklist' = worklist \ {n}
  BY DEF ProcessOther
<1>2. /\ UNCHANGED <<prog, df, direct, called, pc, versioning, equivalentObject, consume, yield, versionReliance,
                     stmtReliance, vpts, propWork>>
      /\ versioning = "on" /\ pc = "solve"
  BY DEF ProcessOther, Ready, vVars, labels, solving
<1>3. /\ LabelsFixed /\ n \in Nodes /\ FlowType /\ pts \in Sets /\ worklist \subseteq Nodes
      /\ g' = g /\ Nodes' = Nodes /\ \A m : Stmt(m)' = Stmt(m)
  BY <1>2, SameProgram DEF Precise, LabelsFixed, FlowType, Nodes
<1> DEFINE r == IF Stmt(n).kind = "load" THEN ProcessVLoad(n) ELSE ProcessTopLevel(n)
<1>4. /\ TopAdds(n, r) /\ TopSettles(n, r)
      /\ Stmt(n).kind = "load" => \A o \in pts[Stmt(n).ptr] :
            getConsume(n, o) # {} => vpts[o][getConsume(n, o)] \subseteq r.pts[Stmt(n).dst]
  <2>1. CASE Stmt(n).kind = "load"
    <3> DEFINE add == UNION {vpts[o][getConsume(n, o)] : o \in {x \in pts[Stmt(n).ptr] : getConsume(n, x) # {}}}
    <3>1. Stmt(n).dst \in Vars /\ Stmt(n).ptr \in Vars /\ Defined(Stmt(n)) = {Stmt(n).dst}
      BY <1>3, <2>1, NodeKinds DEF Typed, Defined, Nodes
    <3>2. ASSUME NEW o \in pts[Stmt(n).ptr], getConsume(n, o) # {}
          PROVE  vpts[o][getConsume(n, o)] \subseteq Objs
      <4>1. o \in Objs
        BY <1>3, <3>1 DEF Sets
      <4> QED
        BY <1>3, <3>2, <4>1, ReadWithin
    <3>3. add \in SUBSET Objs
      BY <3>2
    <3>4. \A o \in pts[Stmt(n).ptr] : getConsume(n, o) # {} => vpts[o][getConsume(n, o)] \subseteq add
      OBVIOUS
    <3>5. r = Define(Stmt(n).dst, add)
      BY <2>1 DEF ProcessVLoad
    <3> HIDE DEF add, r
    <3>6. Adds(n, r) /\ r.pts[Stmt(n).dst] = pts[Stmt(n).dst] \cup add
      BY <1>3, <2>1, <3>1, <3>3, <3>5, DefineAdds DEF Nodes
    <3>7. TopAdds(n, r) /\ TopSettles(n, r)
      BY <2>1, <3>6 DEF Adds, TopAdds, TopSettles
    <3> QED
      BY <3>4, <3>6, <3>7
  <2>2. CASE Stmt(n).kind # "load"
    <3>1. r = ProcessSVFGNode(n)
      BY <1>1, <2>2 DEF ProcessSVFGNode, IsStore
    <3>2. Adds(n, ProcessSVFGNode(n)) /\ Settles(n, ProcessSVFGNode(n))
      BY <1>3, ProcessAdds DEF Nodes
    <3> HIDE DEF r
    <3> QED
      BY <2>2, <3>1, <3>2 DEF Adds, TopAdds, Settles, TopSettles
  <2> QED
    BY <2>1, <2>2
<1> HIDE DEF r
<1>5. VisitedTop(n, r)
  <2> DEFINE none == {}
  <2>1. IF r.changed THEN /\ pts' = PassOn(n, r.pts).pts
                          /\ worklist' = (worklist \ {n}) \cup PassOn(n, r.pts).push \cup none
                     ELSE pts' = r.pts /\ worklist' = worklist \ {n}
    BY <1>1 DEF r
  <2>2. none \in SUBSET NodesOf(g)
    OBVIOUS
  <2> HIDE DEF none
  <2>3. n \in worklist /\ TopAdds(n, r) /\ FlowType /\ prog' = prog
    BY <1>2, <1>3, <1>4
  <2> QED
    BY <2>1, <2>2, <2>3, TopVisit
<1>6. \A v \in Vars : pts[v] \subseteq r.pts[v] /\ r.pts[v] \subseteq pts'[v]
  BY <1>4, <1>5 DEF TopAdds, VisitedTop
<1>7. Passing' /\ Connected'
  BY <1>2, <1>3, SameVersions DEF Solving, Passing, Connected
<1>8. ASSUME NEW m \in Nodes \ worklist' PROVE VSettled(m)'
  <2>1. m # n => VSettled(m)
    BY <1>2, <1>5 DEF Solving, VisitedTop
  <2>2. TopSettled(m)'
    BY <1>2, <1>3, <1>4, <1>5, <1>6, <2>1, TopSettledKept DEF VSettled, Nodes
  <2>3. ASSUME NEW v \in Vars, v \in Used(Stmt(m)), v \notin Waiting'
        PROVE  pts'[v] = pts[v] /\ v \notin Waiting
    BY <1>2, <1>3, <1>5, <2>3, Quiet DEF Nodes
  <2>4. Typed(Stmt(m)) /\ (m = n => Stmt(m).kind # "store")
    BY <1>1, <1>3, NodeKinds DEF IsStore, Nodes
  <2>5. \A o : getConsume(m, o)' = getConsume(m, o) /\ getYield(m, o)' = getYield(m, o)
    BY <1>3, SameVersions
  <2>6. ASSUME Stmt(m).kind = "load", Stmt(m).ptr \notin Waiting', NEW o \in pts'[Stmt(m).ptr],
               getConsume(m, o) # {}
        PROVE  vpts[o][getConsume(m, o)] \subseteq pts'[Stmt(m).dst]
    <3>1. Stmt(m).dst \in Vars /\ Stmt(m).ptr \in Vars /\ Stmt(m).ptr \in Used(Stmt(m))
      BY <2>4, <2>6 DEF Typed, Used
    <3>2. pts'[Stmt(m).ptr] = pts[Stmt(m).ptr] /\ Stmt(m).ptr \notin Waiting
      BY <2>3, <2>6, <3>1
    <3>3. CASE m = n
      BY <1>4, <1>6, <2>6, <3>1, <3>2, <3>3
    <3>4. CASE m # n
      BY <1>6, <2>1, <2>6, <3>1, <3>2, <3>4 DEF VSettled
    <3> QED
      BY <3>3, <3>4
  <2>7. ASSUME Stmt(m).kind = "store", Stmt(m).ptr \notin Waiting', Stmt(m).src \notin Waiting', NEW o \in Objs,
               getYield(m, o) # {}
        PROVE  /\ o \in pts'[Stmt(m).ptr] => pts'[Stmt(m).src] \subseteq vpts[o][getYield(m, o)]
               /\ pts'[Stmt(m).ptr] # {} /\ ~IsStrongUpdate(m, o)' /\ consume[m][o] # {} =>
                     vpts[o][consume[m][o]] \subseteq vpts[o][getYield(m, o)]
    <3>1. /\ Stmt(m).ptr \in Vars /\ Stmt(m).ptr \in Used(Stmt(m))
          /\ Stmt(m).src \in Vars /\ Stmt(m).src \in Used(Stmt(m))
      BY <2>4, <2>7 DEF Typed, Used
    <3>2. /\ pts'[Stmt(m).ptr] = pts[Stmt(m).ptr] /\ Stmt(m).ptr \notin Waiting
          /\ pts'[Stmt(m).src] = pts[Stmt(m).src] /\ Stmt(m).src \notin Waiting
      BY <2>3, <2>7, <3>1
    <3>3. IsStrongUpdate(m, o)' <=> IsStrongUpdate(m, o)
      BY <1>2, <1>3, <3>2 DEF IsStrongUpdate
    <3> QED
      BY <2>1, <2>4, <2>7, <3>2, <3>3 DEF VSettled
  <2> QED
    BY <1>2, <1>3, <2>2, <2>5, <2>6, <2>7 DEF VSettled
<1> QED
  BY <1>2, <1>3, <1>7, <1>8 DEF Solving

LEMMA SolvingStart ==
    ASSUME Precise, Progress, OwnFootprints, Solving, VInitWorklist
    PROVE  Solving'
<1>1. /\ UNCHANGED <<prog, pts, direct, called, versioning, equivalentObject, consume, yield, versionReliance,
                     stmtReliance, vpts>>
      /\ propWork \subseteq propWork' /\ worklist' = Nodes /\ pc' = "solve"
  BY DEF VInitWorklist, InitWorklist, labels, Precise, VersionType, Nodes
<1>2. LabelsFixed /\ Nodes' = Nodes
  BY <1>1, SameProgram DEF LabelsFixed
<1>3. Passing' /\ Connected'
  BY <1>1, <1>2, SameVersions DEF Solving, Passing, Connected
<1> QED
  BY <1>1, <1>2, <1>3 DEF Solving

LEMMA SolvingCalls ==
    ASSUME Precise, Progress, OwnFootprints, Solving, VUpdateCallGraph
    PROVE  Solving'
<1> DEFINE rel == [o \in Objs |-> NewReliance(NewCalls, o)]
           p   == PropagateVersions(vpts, rel)
<1>1. /\ UNCHANGED <<prog, pts, versioning, equivalentObject, consume, yield, stmtReliance>>
      /\ versioning = "on" /\ worklist = {} /\ propWork = {} /\ pc = "solve"
      /\ called' = called \cup NewCalls /\ direct' = DirectOf(g, called')
      /\ pc' = IF NewCalls = {} THEN "done" ELSE "init"
      /\ versionReliance' = [o \in Objs |-> versionReliance[o] \cup rel[o]]
      /\ vpts' = p.vpts /\ propWork' = {} \cup p.grown /\ worklist' = {} \cup Readers(p.grown)
  BY DEF VUpdateCallGraph, Ready, labels, Connect, Propagate
<1>2. vpts \in VSets /\ LabelsFixed /\ g' = g /\ Nodes' = Nodes /\ \A m : Stmt(m)' = Stmt(m)
  BY <1>1, SameProgram DEF Precise, VersionType, LabelsFixed
<1>3. \A o \in Objs : rel[o] = NewReliance(NewCalls, o) /\ versionReliance'[o] = versionReliance[o] \cup rel[o]
  BY <1>1
<1>4. Precise'
  BY PreciseCalls
<1>5. \A o \in Objs : \A r \in versionReliance'[o] : r[1] \in Versions(prog) /\ r[2] \in Versions(prog)
  <2>1. ReliedFound'
    BY <1>4, ReliedAll, PTL
  <2> QED
    BY <1>2, <2>1, SameVersions DEF ReliedFound
<1> HIDE DEF rel
<1>6. Passing'
  <2>1. Feeds(vpts, rel, {}, {})
    BY <1>1, <1>3, <1>5 DEF Solving, Passing, Feeds
  <2> QED
    BY <1>1, <1>2, <2>1, ReliancesKept
<1>7. Connected'
  <2>1. ASSUME NEW c \in called', NEW e \in c.indirect, getYield(e[1], e[3]) # {}, getConsume(e[2], e[3]) # {}
        PROVE  <<getYield(e[1], e[3]), getConsume(e[2], e[3])>> \in versionReliance'[e[3]]
    <3> DEFINE q == <<getYield(e[1], e[3]), getConsume(e[2], e[3])>>
    <3>1. e[3] \in Objs
      <4>1. c \in g.calls
        BY <1>2, <1>4 DEF Precise, FlowType
      <4>2. e \in IndirectOf(g, g.calls)
        BY <4>1 DEF IndirectOf
      <4> QED
        BY <4>2, ProgramFormed DEF WellFormed, Precise
    <3>2. CASE c \in called
      BY <1>3, <2>1, <3>1, <3>2 DEF Solving, Connected
    <3>3. CASE c \in NewCalls
      <4>1. q[1] # {} /\ q[2] # {} /\ e \in UNION {d.indirect : d \in NewCalls}
        BY <2>1, <3>3
      <4>2. q \in versionReliance[e[3]] \/ q \in NewReliance(NewCalls, e[3])
        BY <4>1 DEF NewReliance
      <4> QED
        BY <1>3, <3>1, <4>2
    <3> QED
      BY <1>1, <3>2, <3>3
  <2> QED
    BY <1>2, <2>1, SameVersions DEF Connected
<1>8. ASSUME pc' = "done"
      PROVE  worklist' = {} /\ propWork' = {} /\ called' = Resolved(g, pts') /\ \A m \in Nodes : VSettled(m)'
  <2>1. NewCalls = {} /\ called' = called /\ direct' = direct
    BY <1>1, <1>8 DEF Precise, FlowType
  <2>2. \A o \in Objs : rel[o] = {}
    BY <1>3, <2>1 DEF NewReliance
  <2>3. p.grown = {} /\ \A o \in Objs, v \in Versions(prog) : p.vpts[o][v] = vpts[o][v]
    <3>1. p.grown = {}
      BY <2>2 DEF PropagateVersions
    <3>2. \A o \in Objs, v \in Versions(prog) : p.vpts[o][v] # vpts[o][v] => <<o, v>> \in p.grown
      BY <1>2, <2>2, PropagatesAll
    <3> QED
      BY <3>1, <3>2
  <2>4. worklist' = {} /\ propWork' = {}
    BY <1>1, <2>3 DEF Readers
  <2>5. called' = Resolved(g, pts')
    BY <1>1, <2>1 DEF NewCalls, Precise, FlowType
  <2> HIDE DEF p
  <2>6. ASSUME NEW m \in Nodes PROVE VSettled(m)'
    <3>1. VSettled(m)
      BY <1>1 DEF Solving
    <3>2. Readers({}) \subseteq worklist' /\ Waiting \subseteq Waiting'
      BY <1>1 DEF Readers, Waiting
    <3>3. \A o \in Objs, v \in Versions(prog) : /\ vpts[o][v] \subseteq vpts'[o][v]
                                                /\ vpts'[o][v] # vpts[o][v] => <<o, v>> \in {}
      BY <1>1, <2>3
    <3>4. m \in Nodes \ worklist'
      BY <2>4
    <3> QED
      BY <1>1, <1>2, <2>1, <3>1, <3>2, <3>3, <3>4, VSettledKept
  <2> QED
    BY <2>4, <2>5, <2>6
<1> QED
  BY <1>1, <1>2, <1>6, <1>7, <1>8 DEF Solving
LEMMA SolvingJoin ==
    ASSUME Precise, Progress, JoinWorkers
    PROVE  Solving'
<1>1. /\ UNCHANGED <<prog, called, pc, equivalentObject, consume, yield, versionReliance, vpts, propWork>>
      /\ called = {} /\ pc = "init" /\ \A o \in Objs, v \in Versions(prog) : vpts[o][v] = {}
  BY DEF JoinWorkers, labels, solving, Progress
<1>2. Passing'
  BY <1>1, ReliedVersions DEF Passing
<1>3. Connected'
  BY <1>1 DEF Connected
<1> QED
  BY <1>1, <1>2, <1>3 DEF Solving

-----------------------------------------------------------------------------
(***************************************************************************)
(* At the end versions hold all that arrives.  What they hold is a flow:   *)
(* nothing for objects at nodes the labelling has not met.                 *)
(***************************************************************************)
Arrived(n, o) == IF n \in Met(o) THEN vpts[o][Consume(g, PrintOf(o), n)] ELSE {}
Left(n, o)    == IF n \in Met(o) THEN vpts[o][Yield(g, PrintOf(o), n)] ELSE {}
HeldFlow == [pts |-> pts, in  |-> [n \in Nodes |-> [o \in Objs |-> Arrived(n, o)]],
                      out |-> [n \in Nodes |-> [o \in Objs |-> Left(n, o)]]]

LEMMA HeldFields ==
    ASSUME Precise
    PROVE  /\ HeldFlow \in Flows(g) /\ HeldFlow.pts = pts
           /\ \A n \in Nodes, o \in Objs : HeldFlow.in[n][o] = Arrived(n, o) /\ HeldFlow.out[n][o] = Left(n, o)
<1>1. /\ HeldFlow.pts = pts /\ HeldFlow.in = [n \in Nodes |-> [o \in Objs |-> Arrived(n, o)]]
      /\ HeldFlow.out = [n \in Nodes |-> [o \in Objs |-> Left(n, o)]]
  BY DEF HeldFlow
<1>2. ASSUME NEW n \in Nodes, NEW o \in Objs PROVE Arrived(n, o) \in SUBSET Objs /\ Left(n, o) \in SUBSET Objs
  <2>1. ASSUME n \in Met(o) PROVE /\ Consume(g, PrintOf(o), n) \in Versions(prog)
                                  /\ Yield(g, PrintOf(o), n) \in Versions(prog)
    BY <2>1, LabelFacts DEF Precise, Met, Aux
  <2> QED
    BY <2>1 DEF Precise, VersionType, VSets, Arrived, Left
<1>3. [n \in Nodes |-> [o \in Objs |-> Arrived(n, o)]] \in Memory(g)
  BY <1>2 DEF Memory, Nodes
<1>4. [n \in Nodes |-> [o \in Objs |-> Left(n, o)]] \in Memory(g)
  BY <1>2 DEF Memory, Nodes
<1>5. pts \in [Vars -> SUBSET Objs]
  BY DEF Precise, FlowType, Sets
<1>6. HeldFlow \in Flows(g)
  BY <1>3, <1>4, <1>5 DEF HeldFlow, Flows
<1> QED
  BY <1>1, <1>6

\* Where a label is used it is the one melded, and an empty one holds nothing.
LEMMA ArrivedRead ==
    ASSUME Precise, Progress, versioning = "on", OwnFootprints, NEW o \in Objs
    PROVE  /\ \A n \in Stores(g) \cup Loads(g) :
                 /\ getConsume(n, o) = consume[n][o] /\ getYield(n, o) = yield[n][o]
                 /\ Arrived(n, o) = IF getConsume(n, o) = {} THEN {} ELSE vpts[o][getConsume(n, o)]
           /\ \A n \in Stores(g) : /\ Left(n, o) = IF n \in Met(o) THEN vpts[o][getYield(n, o)] ELSE {}
                                   /\ n \in Met(o) => getYield(n, o) # {}
           /\ \A n \in Delta(g) \cap Met(o) : getConsume(n, o) = Consume(g, PrintOf(o), n) /\ getConsume(n, o) # {}
           /\ \A n \in DeltaSource(g) \cap Met(o) : getYield(n, o) = Yield(g, PrintOf(o), n)
           /\ \A n \in Met(o) : Yield(g, PrintOf(o), n) = {} => Left(n, o) = {}
<1> DEFINE V == Met(o) \cap (Prelabelled(g) \cup DeltaSource(g) \cup Loads(g))
<1>1. Canonical(o) = o /\ \A n : getConsume(n, o) = consume[n][o] /\ getYield(n, o) = yield[n][o]
  BY OwnLabels DEF getConsume, getYield
<1>2. \A n \in V : consume[n][o] = Consume(g, PrintOf(o), n) /\ yield[n][o] = Yield(g, PrintOf(o), n)
  BY OwnLabels
<1>3. \A n \in Met(o) : /\ Consume(g, PrintOf(o), n) \in Versions(prog)
                        /\ Yield(g, PrintOf(o), n) \in Versions(prog)
  BY LabelFacts DEF Precise, Met, Aux
<1>4. {} \in Versions(prog) => vpts[o][{}] = {}
  BY DEF Precise, HoldsWithin, Cap
<1>5. ASSUME NEW n \in Stores(g) \cup Loads(g)
      PROVE  Arrived(n, o) = IF consume[n][o] = {} THEN {} ELSE vpts[o][consume[n][o]]
  <2>1. CASE n \in Met(o)
    <3>1. consume[n][o] = Consume(g, PrintOf(o), n)
      BY <1>2, <2>1 DEF Prelabelled
    <3> QED
      BY <1>3, <1>4, <2>1, <3>1 DEF Arrived
  <2>2. CASE n \notin Met(o)
    <3>1. n \in Nodes /\ n \notin Delta(g) /\ FlowType
      BY KindsApart DEF Precise
    <3>2. Consume(g, PrintOf(o), n) = {}
      BY <2>2, <3>1, MeldedMet
    <3>3. consume[n][o] = {}
      BY <3>1, <3>2 DEF Precise, Assigned, IsLabel
    <3> QED
      BY <2>2, <3>3 DEF Arrived
  <2> QED
    BY <2>1, <2>2
<1>6. ASSUME NEW n \in Stores(g) PROVE /\ Left(n, o) = IF n \in Met(o) THEN vpts[o][yield[n][o]] ELSE {}
                                       /\ n \in Met(o) => yield[n][o] # {}
  BY <1>2 DEF Left, Prelabelled, Yield
<1>7. \A n \in Delta(g) \cap Met(o) : consume[n][o] = Consume(g, PrintOf(o), n) /\ consume[n][o] # {}
  BY <1>2 DEF Prelabelled, Consume
<1> QED
  BY <1>1, <1>2, <1>3, <1>4, <1>5, <1>6, <1>7 DEF Left

LEMMA HeldCloses ==
    ASSUME Precise, Progress, Solving, versioning = "on", pc = "done", OwnFootprints
    PROVE  Under(g, FlowStep(g, HeldFlow), HeldFlow)
<1> DEFINE t == HeldFlow
<1>1. /\ t.pts = pts /\ \A n \in Nodes, o \in Objs : t.in[n][o] = Arrived(n, o) /\ t.out[n][o] = Left(n, o)
  BY HeldFields
<1>2. /\ called = Resolved(g, t.pts) /\ Waiting = {} /\ FlowType
      /\ \A n \in Nodes : VSettled(n) /\ Typed(Stmt(n))
      /\ direct = DirectOf(g, called) /\ called \in SUBSET g.calls
  <2>1. FlowType
    BY DEF Precise
  <2> QED
    BY <1>1, <2>1, NodeKinds DEF Solving, Waiting, FlowType, Nodes
<1> HIDE DEF t
<1>3. ASSUME NEW v \in Vars, NEW x \in Gen(g, t, v) PROVE x \in pts[v]
  <2>1. CASE \E n \in OfKind(g, "addr") : g.stmt[n].dst = v /\ g.stmt[n].obj = x
    BY <1>2, <2>1 DEF OfKind, VSettled, TopSettled, Stmt, Nodes
  <2>2. CASE \E n \in OfKind(g, "copy") : g.stmt[n].dst = v /\ \E w \in g.stmt[n].srcs : x \in pts[w]
    BY <1>2, <2>2 DEF OfKind, VSettled, TopSettled, Stmt, Nodes
  <2>3. CASE \E n \in Loads(g) : g.stmt[n].dst = v /\ \E o \in pts[g.stmt[n].ptr] : x \in t.in[n][o]
    <3>1. PICK n \in Loads(g) : g.stmt[n].dst = v /\ \E o \in pts[g.stmt[n].ptr] : x \in t.in[n][o]
      BY <2>3
    <3>2. PICK o \in pts[Stmt(n).ptr] : x \in t.in[n][o]
      BY <3>1 DEF Stmt
    <3>3. /\ n \in Nodes /\ Stmt(n).kind = "load" /\ Stmt(n).ptr \in Vars /\ Stmt(n).dst = v
      BY <1>2, <3>1 DEF Loads, OfKind, Stmt, Typed, Nodes
    <3>4. o \in Objs
      BY <1>2, <3>3 DEF FlowType, Sets
    <3>5. x \in vpts[o][getConsume(n, o)] /\ getConsume(n, o) # {}
      BY <1>1, <3>2, <3>3, <3>4, ArrivedRead
    <3> QED
      BY <1>2, <3>3, <3>5 DEF VSettled
  <2>4. CASE \E e \in ParamCopies(g, direct) : g.stmt[e[2]].var = v /\ x \in pts[g.stmt[e[1]].var]
    <3>1. PICK e \in direct : /\ g.stmt[e[1]].kind = "actual" /\ g.stmt[e[2]].var = v
                              /\ x \in pts[g.stmt[e[1]].var]
      BY <2>4 DEF ParamCopies
    <3>2. e[1] \in NodesOf(g) /\ e[2] \in NodesOf(g) /\ e = <<e[1], e[2]>>
      BY <1>2, DirectFormed
    <3> QED
      BY <1>2, <3>1, <3>2 DEF VSettled, TopSettled, Stmt, Nodes
  <2> QED
    BY <1>1, <1>2, <1>3, <2>1, <2>2, <2>3, <2>4 DEF Gen
<1>4. ASSUME NEW n \in Nodes, NEW o \in Objs, NEW x \in Arrives(g, t, n, o) PROVE x \in Arrived(n, o)
  <2>1. PICK e \in IndirectOf(g, called) : e[2] = n /\ e[3] = o /\ x \in Exit(g, t, e[1], o)
    BY <1>2, <1>4 DEF Arrives
  <2>2. e[1] \in Nodes /\ Stmt(e[1]).kind \in {"store", "mssa"} /\ e = <<e[1], e[2], e[3]>>
    BY <1>2, ProgramFormed, FewerCalls DEF Stmt, Nodes
  <2>3. e[1] \in Met(o) /\ x \in vpts[o][Yield(g, PrintOf(o), e[1])]
    <3>1. CASE Stmt(e[1]).kind = "store"
      BY <1>1, <2>1, <2>2, <3>1 DEF Exit, Stmt, Left
    <3>2. CASE Stmt(e[1]).kind = "mssa"
      <4>1. Yield(g, PrintOf(o), e[1]) = Consume(g, PrintOf(o), e[1])
        BY <3>2 DEF Yield, Stores, OfKind, Stmt
      <4> QED
        BY <1>1, <2>1, <2>2, <3>2, <4>1 DEF Exit, Stmt, Arrived
    <3> QED
      BY <2>2, <3>1, <3>2
  <2>4. \A r \in versionReliance[o] : vpts[o][r[1]] \subseteq vpts[o][r[2]]
    BY DEF Solving, Passing
  <2>5. CASE e \in g.indirect
    <3> DEFINE f == <<e[1], e[2]>>
               q == <<Yield(g, PrintOf(o), e[1]), Consume(g, PrintOf(o), e[2])>>
    <3>1. f \in Overlay(g, o) /\ f[1] = e[1] /\ f[2] = n
      BY <2>1, <2>5 DEF Overlay
    <3>2. n \in Met(o) /\ f \in PrintOf(o)
      BY <1>2, <2>3, <3>1, MetNodes, LabelFacts DEF Met, Aux
    <3>3. q \in {<<Yield(g, PrintOf(o), d[1]), Consume(g, PrintOf(o), d[2])>> : d \in PrintOf(o)}
      BY <2>1, <3>1, <3>2
    <3>4. q[1] # q[2] => q \in Labelled(o).relied
      BY <1>2, <3>3, LabelFacts
    <3>5. Labelled(o).relied \subseteq versionReliance[o]
      BY <3>2, OwnLabels
    <3>6. vpts[o][q[1]] \subseteq vpts[o][q[2]]
      BY <2>4, <3>4, <3>5
    <3> QED
      BY <2>1, <2>3, <3>2, <3>6 DEF Arrived
  <2>6. CASE e \notin g.indirect
    <3>1. PICK c \in called : e \in c.indirect
      BY <2>1, <2>6 DEF IndirectOf
    <3>2. e[1] \in DeltaSource(g) /\ n \in Delta(g) /\ e \in IndirectOf(g, g.calls)
      BY <1>2, <2>1, <3>1 DEF DeltaSource, Delta, CallMemory, IndirectOf
    <3>3. n \in Met(o)
      BY <1>2, <2>1, <3>2, MetNodes DEF Prelabelled
    <3>4. getConsume(n, o) = Consume(g, PrintOf(o), n) /\ getConsume(n, o) # {}
      BY <3>2, <3>3, ArrivedRead
    <3>5. getYield(e[1], o) = Yield(g, PrintOf(o), e[1])
      BY <2>3, <3>2, ArrivedRead
    <3>6. getYield(e[1], o) # {}
      BY <2>3, <3>5, ArrivedRead DEF Left
    <3>7. <<getYield(e[1], o), getConsume(n, o)>> \in versionReliance[o]
      BY <2>1, <3>1, <3>4, <3>6 DEF Solving, Connected
    <3> QED
      BY <2>3, <2>4, <3>3, <3>4, <3>5, <3>7 DEF Arrived
  <2> QED
    BY <2>5, <2>6
<1>5. ASSUME NEW n \in Stores(g), NEW o \in Objs PROVE Leaves(g, t, n, o) \subseteq Left(n, o)
  <2>1. n \in Nodes /\ Stmt(n).kind = "store" /\ Stmt(n).ptr \in Vars /\ Stmt(n) = g.stmt[n]
    BY <1>2 DEF Stores, OfKind, Stmt, Typed, Nodes
  <2>2. ASSUME ~Killed(pts[Stmt(n).ptr], o, StrongObjs(g, called))
        PROVE  pts[Stmt(n).ptr] # {} /\ ~IsStrongUpdate(n, o)
    BY <2>2 DEF Killed, IsStrongUpdate
  <2>3. CASE n \in Met(o)
    <3>1. /\ o \in pts[Stmt(n).ptr] => pts[Stmt(n).src] \subseteq Left(n, o)
          /\ pts[Stmt(n).ptr] # {} /\ ~IsStrongUpdate(n, o) => Arrived(n, o) \subseteq Left(n, o)
      BY <1>2, <2>1, <2>3, ArrivedRead DEF VSettled
    <3> QED
      BY <1>1, <1>2, <2>1, <2>2, <3>1 DEF Leaves
  <2>4. CASE n \notin Met(o)
    <3>1. o \notin Aux[Stmt(n).ptr]
      BY <1>2, <2>4, MetNodes
    <3>2. o \notin pts[Stmt(n).ptr]
      BY <1>2, <2>1, <3>1, SolutionUnderAndersen DEF Precise, Within, FlowType, sol, Aux, g
    <3>3. t.in[n][o] = {}
      BY <1>1, <2>1, <2>4 DEF Arrived
    <3> QED
      BY <1>1, <2>1, <3>2, <3>3 DEF Leaves
  <2> QED
    BY <2>3, <2>4
<1>6. \A v \in Vars : FlowStep(g, t).pts[v] \subseteq t.pts[v]
  BY <1>1, <1>3, FlowStepFields
<1>7. \A n \in Nodes, o \in Objs : FlowStep(g, t).in[n][o] \subseteq t.in[n][o]
  BY <1>1, <1>4, FlowStepFields DEF Nodes
<1>8. \A n \in Nodes, o \in Objs : FlowStep(g, t).out[n][o] \subseteq t.out[n][o]
  BY <1>1, <1>5, FlowStepFields DEF Nodes
<1> QED
  BY <1>6, <1>7, <1>8 DEF Under, t, Nodes

LEMMA SolvingComplete ==
    ASSUME Precise, versioning # "off" => Progress, versioning = "on" /\ OwnFootprints => Solving
    PROVE  VersionsExact
<1>1. VersionsPrecise
  BY PreciseVersions
<1> SUFFICES ASSUME versioning = "on", pc = "done", OwnFootprints
             PROVE  /\ pts = sol.pts
                    /\ \A n \in Stores(g) \cup Loads(g), o \in Objs :
                          sol.in[n][o] = IF getConsume(n, o) = {} THEN {} ELSE vpts[o][getConsume(n, o)]
  BY <1>1 DEF VersionsExact, VersionsComplete, sol
<1>2. Progress /\ Solving /\ FlowType
  BY DEF Precise
<1>3. /\ HeldFlow \in Flows(g) /\ HeldFlow.pts = pts
      /\ \A n \in Nodes, o \in Objs : HeldFlow.in[n][o] = Arrived(n, o)
  BY HeldFields
<1>4. Under(g, FlowStep(g, HeldFlow), HeldFlow)
  BY <1>2, HeldCloses
<1>5. sol \in Flows(g) /\ Under(g, sol, HeldFlow)
  BY <1>2, <1>3, <1>4, SolutionLeast DEF FlowType, sol, g
<1>6. pts = sol.pts
  <2>1. \A v \in Vars : pts[v] = sol.pts[v]
    BY <1>3, <1>5 DEF Under, Precise, Within
  <2>2. pts \in [Vars -> SUBSET Objs] /\ sol.pts \in [Vars -> SUBSET Objs]
    BY <1>3, <1>5 DEF Flows
  <2> QED
    BY <2>1, <2>2
<1>7. ASSUME NEW n \in Stores(g) \cup Loads(g), NEW o \in Objs
      PROVE  sol.in[n][o] = IF getConsume(n, o) = {} THEN {} ELSE vpts[o][getConsume(n, o)]
  <2>1. n \in Nodes
    BY <1>2, KindsApart
  <2>2. sol.in[n][o] \subseteq Arrived(n, o)
    BY <1>3, <1>5, <2>1 DEF Under, Nodes
  <2>3. Arrived(n, o) = IF getConsume(n, o) = {} THEN {} ELSE vpts[o][getConsume(n, o)]
    BY <1>2, ArrivedRead
  <2>4. getConsume(n, o) # {} => vpts[o][getConsume(n, o)] \subseteq sol.in[n][o]
    BY <2>1, ReadWithin
  <2> QED
    BY <2>2, <2>3, <2>4
<1> QED
  BY <1>6, <1>7

-----------------------------------------------------------------------------
(***************************************************************************)
(* With how far the workers are, and what is settled while solving.        *)
(***************************************************************************)
VInv ==
    /\ IInv
    /\ versioning # "off" => Progress
    /\ versioning = "on" /\ OwnFootprints => Solving

LEMMA VInitially == Init => VInv
<1> SUFFICES ASSUME Init PROVE VInv
  OBVIOUS
<1>1. /\ called = {} /\ pc = "init" /\ jobs = {} /\ DOMAIN equivalentObject = {}
      /\ versioning \in {"off", "labelling"}
      /\ stmtReliance = [o \in Objs |-> {}] /\ versionReliance = [o \in Objs |-> {}]
      /\ \A o \in Objs, v \in Versions(prog) : vpts[o][v] = {}
  BY DEF Init, fsInit
<1>2. versioning = "labelling" => queue = PrelabelledObjects
  BY DEF Init
<1>3. versioning = "labelling" => Claiming
  BY <1>1, <1>2 DEF Claiming
<1>4. Owning
  BY <1>1 DEF Owning, Mine, Owners
<1> QED
  BY <1>1, <1>3, <1>4, Initially DEF VInv, Progress

LEMMA VInvStep == VInv /\ [Next]_allVars => VInv'
<1> SUFFICES ASSUME VInv, [Next]_allVars PROVE VInv'
  OBVIOUS
<1>1. IInv' /\ Precise
  BY IInvStep DEF VInv, IInv
<1>2. CASE FlowSensitiveNext
  BY <1>1, <1>2 DEF FlowSensitiveNext, vVars, VInv
<1>3. CASE LabellingNext
  <2>1. versioning = "labelling"
    BY <1>1, <1>3 DEF LabellingNext, PopObject, ClaimFootprint, FillVersionReliance, AssignVersions,
                      JoinWorkers, Precise, VersionType
  <2>2. Progress /\ Progress'
    BY <1>1, <1>3, <2>1, ProgressStep DEF VInv
  <2>3. CASE JoinWorkers
    BY <1>1, <2>2, <2>3, SolvingJoin DEF VInv
  <2>4. CASE ~JoinWorkers
    <3>1. versioning' = "labelling"
      BY <1>3, <2>1, <2>4 DEF LabellingNext, PopObject, ClaimFootprint, FillVersionReliance, AssignVersions
    <3> QED
      BY <1>1, <2>2, <3>1 DEF VInv
  <2> QED
    BY <2>3, <2>4
<1>4. CASE VersionedNext
  <2>1. versioning = "on" /\ versioning' = "on" /\ equivalentObject' = equivalentObject
    BY <1>4 DEF VersionedNext, VInitWorklist, ProcessDummy, ProcessOther, ProcessVStore, VUpdateCallGraph,
                Ready, vVars, labels
  <2>2. Progress /\ Progress'
    BY <1>1, <1>4, <2>1, ProgressStep DEF VInv
  <2>3. OwnFootprints' <=> OwnFootprints
    BY <2>1 DEF OwnFootprints, Canonical
  <2>4. ASSUME OwnFootprints PROVE Solving'
    BY <1>1, <1>4, <2>1, <2>2, <2>4, SolvingStart, SolvingDummy, SolvingOther, SolvingStore, SolvingCalls
       DEF VersionedNext, VInv
  <2> QED
    BY <1>1, <2>2, <2>3, <2>4 DEF VInv
<1>5. CASE UNCHANGED allVars
  <2>1. UNCHANGED <<prog, incremental, pts, df, direct, indirect, called, worklist, pc, versioning, threads, queue,
                    jobs, equivalentObject, consume, yield, versionReliance, stmtReliance, vpts, propNodes,
                    propWork>>
    BY <1>5 DEF allVars, fsVars, vVars, labels, solving
  <2>2. versioning' # "off" => Progress'
    <3>1. ASSUME Progress PROVE Progress'
      BY <1>1, <2>1, <3>1, SameProgram, SameStarts DEF Progress, Claiming, Owning, Mine, Owners,
         RelianceDone, AssignmentDone, Versions
    <3> QED
      BY <2>1, <3>1 DEF VInv
  <2>3. LabelsFixed /\ OwnFootprints' = OwnFootprints
    BY <2>1, SameVersions DEF LabelsFixed
  <2>4. ASSUME Solving PROVE Solving'
    <3>1. Passing' /\ Connected'
      BY <2>1, <2>3, <2>4, SameVersions DEF Solving, Passing, Connected
    <3>2. Waiting' = Waiting
      BY <2>1, SameProgram DEF Waiting, Formal
    <3>3. \A n : VSettled(n)' <=> VSettled(n)
      BY <2>1, <2>3, <3>2, SameProgram, SameVersions DEF VSettled, TopSettled, IsStrongUpdate
    <3> QED
      BY <2>1, <2>4, <3>1, <3>3, SameProgram DEF Solving
  <2> QED
    BY <1>1, <2>1, <2>2, <2>3, <2>4 DEF VInv
<1> QED
  BY <1>2, <1>3, <1>4, <1>5 DEF Next

THEOREM VInvAlways == Spec => []VInv
BY VInitially, VInvStep, PTL DEF Spec

(* Versioning loses nothing and adds nothing: no version holds more than     *)
(* reaches the loads and stores that read it, and, as long as every object   *)
(* owns its footprint, at the end loads and stores read exactly the least    *)
(* flow-sensitive solution, whatever the order of labelling, of the work     *)
(* lists and of the calls resolved meanwhile.                                *)
THEOREM VersionsExactAlways == Spec => []VersionsExact
<1>1. VInv => VersionsExact
  BY SolvingComplete DEF VInv, IInv
<1> QED
  BY <1>1, VInvAlways, PTL
=============================================================================
