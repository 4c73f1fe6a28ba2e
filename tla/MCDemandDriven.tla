--------------------------- MODULE MCDemandDriven ---------------------------
\* The SVFGs the demand-driven analysis is model-checked on.
EXTENDS DemandDriven, SVFGPrograms

\* F(x) { a = &A; y = phi(x, a); F(y); l: z = *y; }  The parameter is in a cycle.
Parameter == [optimised |-> FALSE,
    stmt |-> ("x" :> Formal("x") @@ "a" :> Addr("s", "A") @@ "y" :> Copy("y", {"x", "s"})
           @@ "ap" :> Actual("y")),
    direct |-> {<<"x", "y">>, <<"a", "y">>, <<"y", "ap">>, <<"ap", "x">>},
    indirect |-> {}, strong |-> {}, calls |-> {}]

\* F(x) { y = &A; t = y; s = phi(y, t, x); F(t) }  Asked for s first, then for x.
Again == [optimised |-> FALSE,
    stmt |-> ("y" :> Addr("y", "A") @@ "t" :> Copy("t", {"y"}) @@ "ap" :> Actual("t")
           @@ "x" :> Formal("x") @@ "s" :> Copy("s", {"y", "t", "x"})),
    direct |-> {<<"y", "t">>, <<"t", "ap">>, <<"ap", "x">>, <<"y", "s">>, <<"t", "s">>, <<"x", "s">>},
    indirect |-> {}, strong |-> {}, calls |-> {}]

\* Recursive, whose call brings no edge, with a parameter: (*f)(q) in F(y).
RecursiveParameter == [Recursive EXCEPT
    !.stmt   = @ @@ "ap" :> Actual("q") @@ "fy" :> Formal("y"),
    !.direct = @ \cup {<<"q", "ap">>},
    !.calls  = {[c EXCEPT !.direct = {<<"ap", "fy">>}] : c \in @}]

MCPrograms == [joined |-> Joined, loop |-> Loop, callback |-> Callback, alike |-> Alike,
               recursive |-> Recursive, optimised |-> Optimised, parameter |-> Parameter,
               again |-> Again, recursive_parameter |-> RecursiveParameter]
=============================================================================
