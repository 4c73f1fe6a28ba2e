------------------------- MODULE WeakTopologicalOrder -------------------------
(***************************************************************************)
(* Bourdoncle's weak topological order as class WTO of Graphs/WTO.h builds  *)
(* it: a list of components, each a node or a cycle with a head and a body  *)
(* of components.  succ gives the successors of a node in the order of its  *)
(* edges.  One record stands for the members of the class and the list      *)
(* being filled: the counter, the numbers of the nodes, the stack (its top   *)
(* first) and the partition.                                                *)
(***************************************************************************)
EXTENDS Naturals, Sequences, SequencesExt

UINT_MAX == 1000

Node(n) == [head |-> n, loop |-> FALSE, body |-> <<>>]

RECURSIVE visit(_, _, _)

\* The successors of n in turn; head is the least number met so far.
Scan(n, s, succ) ==
    LET look(r, m) ==
            LET v == IF r.s.cdn[m] = 0 THEN visit(m, r.s, succ)
                                       ELSE [s |-> r.s, head |-> r.s.cdn[m]]
            IN  IF v.head <= r.head THEN [s |-> v.s, head |-> v.head, loop |-> TRUE]
                                    ELSE [r EXCEPT !.s = v.s]
    IN  FoldLeft(look, [s |-> s, head |-> s.cdn[n], loop |-> FALSE], succ[n])

\* The cycle of head n: its body is what the unnumbered successors fill into a
\* partition of their own.
component(n, s, succ) ==
    LET fill(t, m) == IF t.cdn[m] = 0 THEN visit(m, t, succ).s ELSE t
        t == FoldLeft(fill, [s EXCEPT !.part = <<>>], succ[n])
    IN  [t EXCEPT !.part = <<[head |-> n, loop |-> TRUE, body |-> t.part]>> \o s.part]

\* Mutant: what is popped keeps its number, so the body of the cycle stays empty.
popKeep(s, n) ==
    [s EXCEPT !.stack = SubSeq(@, SelectInSeq(@, LAMBDA m : m = n) + 1, Len(@))]

\* n and what lies above it leave the stack; what lay above has no number then.
popTo(s, n) ==
    LET at == SelectInSeq(s.stack, LAMBDA m : m = n)
        above == {s.stack[i] : i \in 1..(at - 1)}
    IN  [s EXCEPT !.cdn = [m \in DOMAIN @ |-> IF m \in above THEN 0 ELSE @[m]],
                  !.stack = SubSeq(@, at + 1, Len(@))]

\* A node whose number nothing undercut roots its component: what lies above it
\* on the stack is numbered again, inside the cycle.
visit(n, s, succ) ==
    LET r == Scan(n, [s EXCEPT !.num = @ + 1, !.cdn[n] = s.num + 1, !.stack = <<n>> \o @], succ)
        t == r.s
        done == [t EXCEPT !.cdn[n] = UINT_MAX]
        closed == IF r.loop THEN component(n, popTo(done, n), succ)
                            ELSE [done EXCEPT !.stack = Tail(@), !.part = <<Node(n)>> \o @]
    IN  [s |-> IF r.head = t.cdn[n] THEN closed ELSE t, head |-> r.head]

\* The components of what entry reaches.
wto(entry, succ) ==
    visit(entry, [num |-> 0, cdn |-> [n \in DOMAIN succ |-> 0], stack |-> <<>>, part |-> <<>>],
          succ).s.part

-----------------------------------------------------------------------------
(* What makes an order weakly topological.                                  *)

RECURSIVE Flat(_)
\* The nodes of a list of components, in order, the head of a cycle first.
Flat(comps) ==
    FoldLeft(LAMBDA seq, c : seq \o <<c.head>> \o Flat(c.body), <<>>, comps)

RECURSIVE Within(_, _)
\* The heads of the cycles of comps that hold node n.
Within(n, comps) ==
    UNION {IF n = c.head \/ Contains(Flat(c.body), n)
           THEN (IF c.loop THEN {c.head} ELSE {}) \cup Within(n, c.body) ELSE {} :
           c \in ToSet(comps)}

ReachedNodes(entry, succ) ==
    LET more[R \in SUBSET DOMAIN succ] ==
            LET next == R \cup UNION {ToSet(succ[n]) : n \in R}
            IN  IF next = R THEN R ELSE more[next]
    IN  more[{entry}]

\* Every node once, and an edge that does not lead forward leads to the head of
\* a cycle its source is in: a client that iterates the cycles needs no more.
WeaklyTopological(comps, entry, succ) ==
    LET order == Flat(comps)
        at(n) == SelectInSeq(order, LAMBDA m : m = n)
    IN  /\ IsInjective(order)
        /\ ToSet(order) = ReachedNodes(entry, succ)
        /\ \A n \in ToSet(order) : \A m \in ToSet(succ[n]) :
               at(n) < at(m) \/ m \in Within(n, comps)
=============================================================================
