---------------------------- MODULE MCCFLSolver ----------------------------
(***************************************************************************)
(* Small problems, each with the part of a grammar it needs:               *)
(* Chain, flows along copies on a cycle with a way out (PAGGrammar.txt);   *)
(* Match, calls and returns that have to match (VFGGrammar.txt);           *)
(* OnTheFly, an indirect call whose copies are added between two rounds.   *)
(***************************************************************************)
EXTENDS CFLSolver, Naturals

CONSTANTS Addr, AddrBar, V, Plain, Call1, Ret1, Call2, Ret2, A, Y1, Y2

\* A graph built from constraints has every edge in both directions.
Both(sym, bar, arcs) ==
    {<<arc[1], sym, arc[2]>> : arc \in arcs} \cup {<<arc[2], bar, arc[1]>> : arc \in arcs}

\* 1 and 2 copy each other and 2 is copied to 3; a graph read from a file need
\* not have the edges back.
Chain ==
    [nodes |-> 1..3, graph |-> {<<1, Copy, 2>>, <<2, Copy, 1>>, <<2, Copy, 3>>},
     epsilon |-> {F}, single |-> {}, pair |-> {<<F, F, Copy>>, <<F, F, F>>},
     targets |-> {}]

\* From 1 to 4 through a callee 2 -> 3, and from 5, which calls it too.
Match ==
    [nodes |-> 1..5,
     graph |-> {<<1, Call1, 2>>, <<2, Plain, 3>>, <<3, Ret1, 4>>,
                <<5, Call2, 2>>, <<3, Ret2, 5>>},
     epsilon |-> {}, single |-> {<<A, Plain>>},
     pair |-> {<<A, A, A>>, <<A, Call1, Y1>>, <<Y1, A, Ret1>>,
               <<A, Call2, Y2>>, <<Y2, A, Ret2>>},
     targets |-> {}]

\* Function object 1 and pointer 2, which is passed to the function as well;
\* parameter 3, which is returned, and result 4.
OnTheFly ==
    [nodes |-> 1..4, graph |-> Both(Addr, AddrBar, {<<1, 2>>}),
     epsilon |-> {F}, single |-> {}, pair |-> {<<V, AddrBar, Addr>>, <<F, F, Copy>>, <<F, F, F>>},
     targets |-> {[when |-> <<2, V, 2>>, copies |-> {<<2, 3>>, <<3, 4>>}]}]

MCProblems == {Chain, Match, OnTheFly}
MCSolvers  == {"CFL", "POCR", "POCRHybrid"}
=============================================================================
