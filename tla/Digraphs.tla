------------------------------ MODULE Digraphs ------------------------------
(***************************************************************************)
(* Fixed points, and reachability in directed graphs given as sets of      *)
(* pairs.                                                                  *)
(***************************************************************************)

\* What becomes of x when step is applied until it changes nothing.
Limit(step, x) ==
    LET go[y \in DOMAIN step] ==
            LET next == step[y] IN IF next = y THEN y ELSE go[next]
    IN  go[x]

\* The pairs <<m, n>> joined by a non-empty path of edges of E, all in N.
Composed(R, N) ==
    {x \in {<<e[1], f[2]>> : e \in R, f \in R} : \E n \in N : <<x[1], n>> \in R /\ <<n, x[2]>> \in R}
Closure(E, N) == Limit([R \in SUBSET (N \X N) |-> R \cup Composed(R, N)], E)

\* What a set of nodes reaches, itself included; R is a closure.
ReachedFrom(ns, R) == ns \cup {e[2] : e \in {f \in R : f[1] \in ns}}
=============================================================================
