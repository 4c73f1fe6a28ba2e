------------------------------ MODULE MCMemSSA ------------------------------
(***************************************************************************)
(* Programs of main, f and k.  g is a global struct with the field g1, h a *)
(* heap object, l a local variable of main and m one of f.                 *)
(***************************************************************************)
EXTENDS SVFGRun

CONSTANT MaxPointers    \* of the heaps for which only chains are looked at

MCNodes    == {"main", "f", "k", "malloc"}
MCBaseObjs == {"g", "h", "l", "m"}
MCObjs     == MCBaseObjs \cup {"g1"}
MCBaseOf   == [o \in MCObjs |-> IF o = "g1" THEN "g" ELSE o]
MCGlobals  == {"g", "g1"}
MCOwner    == ("l" :> "main") @@ ("m" :> "f")

ld(id, pts) == [id |-> id, op |-> "load", pts |-> pts]
st(id, pts) == [id |-> id, op |-> "store", pts |-> pts]
call(id, callees, args, ret) ==
    [id |-> id, op |-> "call", callees |-> callees, args |-> args, ret |-> ret, alloc |-> {},
     indirect |-> Cardinality(callees) > 1]
malloc(id) ==
    [id |-> id, op |-> "call", callees |-> {"malloc"}, args |-> {}, ret |-> {"h"}, alloc |-> {"h"},
     indirect |-> FALSE]

\* Block names begin with the letter of their function.
Program(code, succ, pointers, memPar) ==
    LET home == [b \in DOMAIN code |->
                   CASE b \in {"a0", "a1", "a2", "a3"} -> "main"
                     [] b \in {"f0", "f1", "f2", "f3", "f4", "f5"} -> "f"
                     [] OTHER -> "k"]
        calls == {x \in UNION {{code[b][i] : i \in DOMAIN code[b]} : b \in DOMAIN code} : x.op = "call"}
        defined == {home[b] : b \in DOMAIN code}
    IN  [funs |-> defined \cup UNION {x.callees : x \in calls},
         entry |-> [f \in defined |-> CASE f = "main" -> "a0" [] f = "f" -> "f0" [] f = "k" -> "k0"],
         home |-> home, code |-> code,
         succ |-> [b \in DOMAIN code |-> IF b \in DOMAIN succ THEN succ[b] \cap DOMAIN code ELSE {}],
         heap |-> pointers, memPar |-> memPar,
         inits |-> {st("i1", {"g"}), st("i2", {"g1"})}, opt |-> FALSE]
Optimised(p) == [p EXCEPT !.opt = TRUE]

\* A loop around a weak store; f has a branch that stores in another, so that its
\* phi needs a phi: *p where p is &l or &g.
LoopCode ==
    ("a0" :> <<st("s1", {"l"}), call("c1", {"f"}, {"l"}, {})>>) @@
    ("a1" :> <<ld("d1", {"l", "g"})>>) @@ ("a2" :> <<st("s2", {"g", "l"})>>) @@
    ("a3" :> <<ld("d2", {"l"})>>) @@
    ("f0" :> <<>>) @@ ("f1" :> <<>>) @@ ("f2" :> <<st("s3", {"l"})>>) @@ ("f3" :> <<>>) @@
    ("f4" :> <<>>) @@ ("f5" :> <<ld("d3", {"l"}), ld("d4", {"g"})>>)
LoopSucc ==
    ("a0" :> {"a1"}) @@ ("a1" :> {"a2", "a3"}) @@ ("a2" :> {"a1"}) @@
    ("f0" :> {"f1", "f5"}) @@ ("f1" :> {"f2", "f3"}) @@ ("f2" :> {"f4"}) @@ ("f3" :> {"f4"}) @@
    ("f4" :> {"f5"})

\* main keeps an object of malloc in l and passes &l; f fills it and calls k, which
\* stores in the field of g, then in its own m.
HeapCode ==
    ("a0" :> <<malloc("c1"), st("s1", {"l"}), call("c2", {"f"}, {"l"}, {"h"}), ld("d1", {"h"}), ld("d2", {"g1"})>>) @@
    ("f0" :> <<ld("d3", {"l"}), st("s2", {"h"}), st("s3", {"m"}), call("c3", {"k"}, {"m"}, {}), ld("d4", {"m", "h"})>>) @@
    ("k0" :> <<st("s4", {"m", "g1"}), ld("d5", {"g", "g1"})>>)

\* main calls f and k, f calls itself or k; k stores in g, f in its own m.
CallsCode ==
    ("a0" :> <<call("c1", {"f"}, {}, {}), ld("d1", {"g"}), call("c2", {"f", "k"}, {"l"}, {}), ld("d2", {"l", "g"})>>) @@
    ("f0" :> <<st("s1", {"m"})>>) @@ ("f1" :> <<call("c3", {"f", "k"}, {"m", "l"}, {})>>) @@
    ("f2" :> <<ld("d3", {"m"})>>) @@
    ("k0" :> <<ld("d4", {"m", "l"}), st("s2", {"g", "l"})>>)
CallsSucc == ("f0" :> {"f1", "f2"}) @@ ("f1" :> {"f2"})

\* f and k call each other; k stores in g.
MutualCode ==
    ("a0" :> <<call("c1", {"f"}, {}, {}), ld("d1", {"g"})>>) @@
    ("f0" :> <<>>) @@ ("f1" :> <<call("c2", {"k"}, {}, {})>>) @@ ("f2" :> <<>>) @@
    ("k0" :> <<st("s1", {"g"})>>) @@ ("k1" :> <<call("c3", {"f"}, {}, {})>>) @@ ("k2" :> <<>>)
MutualSucc == ("f0" :> {"f1", "f2"}) @@ ("f1" :> {"f2"}) @@ ("k0" :> {"k1", "k2"}) @@ ("k1" :> {"k2"})

\* A loop around a block that only reads, entered after either of two stores: a phi
\* that is its own operand.
SelfCode ==
    ("a0" :> <<call("c1", {"f"}, {"l"}, {}), ld("d1", {"l"})>>) @@
    ("f0" :> <<>>) @@ ("f1" :> <<st("s1", {"l"})>>) @@ ("f2" :> <<st("s2", {"l", "m"})>>) @@
    ("f3" :> <<ld("d2", {"l"})>>) @@ ("f4" :> <<st("s3", {"l", "m"})>>)
SelfSucc == ("f0" :> {"f1", "f2"}) @@ ("f1" :> {"f3"}) @@ ("f2" :> {"f3"}) @@ ("f3" :> {"f3", "f4"})

\* f stores in a loop and may then call itself and read.
RecursiveCode ==
    ("a0" :> <<st("s1", {"g"}), call("c1", {"f"}, {}, {}), ld("d1", {"g"})>>) @@
    ("f0" :> <<>>) @@ ("f1" :> <<st("s2", {"g", "g1"})>>) @@ ("f2" :> <<>>) @@
    ("f3" :> <<call("c2", {"f"}, {}, {}), ld("d2", {"g"})>>) @@ ("f4" :> <<>>)
RecursiveSucc == ("f0" :> {"f1"}) @@ ("f1" :> {"f1", "f2"}) @@ ("f2" :> {"f3", "f4"}) @@ ("f3" :> {"f4"})

\* Stores in any of the blocks before two loads, one of them in a loop.
PlacedCode(B) ==
    LET stores == [b \in {"f0", "f1", "f2", "f3", "f4", "f5"} |-> IF b \in B THEN <<st(b, {"l"})>> ELSE <<>>]
    IN  ("a0" :> <<call("c1", {"f"}, {"l"}, {})>>) @@
        [stores EXCEPT !["f1"] = <<ld("d1", {"l"})>> \o @, !["f5"] = <<ld("d2", {"l"})>>]
PlacedSucc == [LoopSucc EXCEPT !["f3"] = {"f4", "f1"}]

\* Any heap, seen from the arguments of a call.
ChainCode == ("a0" :> <<call("c1", {"f"}, {"l", "h"}, {})>>) @@ ("f0" :> <<>>)
MCHeaps   == {E \in SUBSET ((MCObjs \ {"m"}) \X (MCObjs \ {"m"})) : Cardinality(E) <= MaxPointers}

Placed(Bs) == {Program(PlacedCode(B), PlacedSucc, {}, "intra-disjoint") : B \in Bs}
Stores     == SUBSET {"f0", "f1", "f2", "f3", "f4"}

Chosen ==
    {Program(LoopCode, LoopSucc, {}, w) : w \in {"distinct", "intra-disjoint", "inter-disjoint"}}
    \cup {Program(HeapCode, <<>>, {<<"l", "h">>}, w) : w \in {"intra-disjoint", "inter-disjoint"}}
    \cup {Program(CallsCode, CallsSucc, {}, "intra-disjoint"),
          Program(MutualCode, MutualSucc, {}, "intra-disjoint"),
          Program(SelfCode, SelfSucc, {}, "intra-disjoint"),
          Program(RecursiveCode, RecursiveSucc, {}, "intra-disjoint")}

MCPrograms ==
    Chosen \cup Placed(Stores)
    \cup {Optimised(p) : p \in Chosen \cup Placed({B \in Stores : Cardinality(B) = 3})}
    \cup {Program(ChainCode, <<>>, E, "intra-disjoint") : E \in MCHeaps}

MCGraphs == {CallEdges(p) : p \in Programs}
=============================================================================
