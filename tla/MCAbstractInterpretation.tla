----------------------- MODULE MCAbstractInterpretation -----------------------
EXTENDS AbstractInterpretation

Go(n) == [dst |-> n, kind |-> "intra", cond |-> None, val |-> 0]
If(n, c, v) == [dst |-> n, kind |-> "intra", cond |-> c, val |-> v]
Call(n) == [dst |-> n, kind |-> "call", cond |-> None, val |-> 0]
Ret(n) == [dst |-> n, kind |-> "ret", cond |-> None, val |-> 0]

Skip == [op |-> "skip"]
Addr(x, o) == [op |-> "addr", lhs |-> x, obj |-> o]
Copy(x, y) == [op |-> "copy", lhs |-> x, rhs |-> y]
Load(x, p) == [op |-> "load", lhs |-> x, rhs |-> p]
Store(p, x) == [op |-> "store", lhs |-> p, rhs |-> x]
Add(x, y, z) == [op |-> "add", res |-> x, op0 |-> y, op1 |-> z]
Cmp(x, pred, y, z) == [op |-> "cmp", res |-> x, pred |-> pred, op0 |-> y, op1 |-> z]

K(n) == Interval(<<n, n>>)
NoCalls == [n \in {} |-> n]

\* One function without calls, its nodes in order; vs are its variables.
Simple(stmt, out, globals, vs) ==
    [funs |-> <<"main">>, entry |-> [main |-> 1], fun |-> [n \in DOMAIN stmt |-> "main"],
     stmt |-> stmt, out |-> out, ret |-> NoCalls, callee |-> NoCalls, targets |-> NoCalls,
     globals |-> globals, vars |-> vs \cup DOMAIN globals]

\* i = s; while (i pred n) i += k;
Count(pred, s, n, k) ==
    Simple(<<Skip, Addr("p", "i"), Store("p", "s"), Load("t", "p"), Cmp("c", pred, "t", "n"),
             Load("u", "p"), Add("v", "u", "k"), Store("p", "v"), Load("r", "p")>>,
           <<<<Go(2)>>, <<Go(3)>>, <<Go(4)>>, <<Go(5)>>, <<If(6, "c", 1), If(9, "c", 0)>>,
             <<Go(7)>>, <<Go(8)>>, <<Go(4)>>, <<>>>>,
           [s |-> K(s), n |-> K(n), k |-> K(k)], {"p", "i", "t", "c", "u", "v", "r"})

\* The same with the constant on the left, and a copy between load and test.
CountSwapped(pred, s, n, k) ==
    Simple(<<Skip, Addr("p", "i"), Store("p", "s"), Load("t", "p"), Copy("w", "t"),
             Cmp("c", pred, "n", "w"), Load("u", "p"), Add("v", "u", "k"), Store("p", "v"),
             Load("r", "p")>>,
           <<<<Go(2)>>, <<Go(3)>>, <<Go(4)>>, <<Go(5)>>, <<Go(6)>>, <<If(7, "c", 1), If(10, "c", 0)>>,
             <<Go(8)>>, <<Go(9)>>, <<Go(4)>>, <<>>>>,
           [s |-> K(s), n |-> K(n), k |-> K(k)], {"p", "i", "t", "w", "c", "u", "v", "r"})

\* i = j = s; while (i < n) { while (j < m) j += k; i += k; }
\* where j starts again in every round iff again.
Nested(n, m, again) ==
    Simple(<<Skip, Addr("p", "i"), Addr("q", "j"), Store("p", "s"), Store("q", "s"),
             Load("t", "p"), Cmp("c", "lt", "t", "n"),
             IF again THEN Store("q", "s") ELSE Skip,
             Load("a", "q"), Cmp("b", "lt", "a", "m"), Load("d", "q"), Add("e", "d", "k"), Store("q", "e"),
             Load("u", "p"), Add("v", "u", "k"), Store("p", "v"), Load("r", "q")>>,
           <<<<Go(2)>>, <<Go(3)>>, <<Go(4)>>, <<Go(5)>>, <<Go(6)>>, <<Go(7)>>,
             <<If(8, "c", 1), If(17, "c", 0)>>, <<Go(9)>>, <<Go(10)>>,
             <<If(11, "b", 1), If(14, "b", 0)>>, <<Go(12)>>, <<Go(13)>>, <<Go(9)>>,
             <<Go(15)>>, <<Go(16)>>, <<Go(6)>>, <<>>>>,
           [s |-> K(0), n |-> K(n), m |-> K(m), k |-> K(1)],
           {"p", "q", "i", "j", "t", "c", "a", "b", "d", "e", "u", "v", "r"})

\* x = 1 or y = 2 by the value of a switch, a pointer to the one chosen is loaded
\* through and compared.
Choice(n) ==
    Simple(<<Skip, Addr("p", "x"), Addr("q", "y"), Addr("z", "cell"), Store("p", "one"), Store("q", "two"),
             Load("w", "p"), Store("z", "p"), Store("z", "q"), Load("g", "z"), Load("r", "g"),
             Cmp("c", "eq", "g", "p"), Skip, Skip, Skip>>,
           <<<<Go(2)>>, <<Go(3)>>, <<Go(4)>>, <<Go(5)>>, <<Go(6)>>, <<Go(7)>>,
             <<If(8, "n", 1), If(9, "n", 2), If(15, "n", 3)>>, <<Go(10)>>, <<Go(10)>>, <<Go(11)>>, <<Go(12)>>,
             <<If(13, "c", 1), If(14, "c", 0)>>, <<Go(15)>>, <<Go(15)>>, <<>>>>,
           [one |-> K(1), two |-> K(2), n |-> n], {"p", "q", "z", "x", "y", "cell", "w", "g", "r", "c"})

\* main: g = s; f(); and f: if (g < n) { g += 1; f(); }
Recursive(s, n) ==
    [funs |-> <<"f", "main">>, entry |-> [main |-> 1, f |-> 4],
     fun |-> [i \in 1..11 |-> IF i <= 3 THEN "main" ELSE "f"],
     stmt |-> <<Store("p", "s"), Skip, Load("r", "p"),
                Load("t", "p"), Cmp("c", "lt", "t", "n"), Load("u", "p"), Add("v", "u", "k"),
                Store("p", "v"), Skip, Skip, Skip>>,
     out |-> <<<<Go(2)>>, <<Call(4)>>, <<>>,
               <<Go(5)>>, <<If(6, "c", 1), If(11, "c", 0)>>, <<Go(7)>>, <<Go(8)>>, <<Go(9)>>,
               <<Call(4)>>, <<Go(11)>>, <<Ret(3), Ret(10)>>>>,
     ret |-> [i \in {2, 9} |-> IF i = 2 THEN 3 ELSE 10],
     callee |-> [i \in {2, 9} |-> "f"], targets |-> [i \in {2, 9} |-> <<"f">>],
     globals |-> [s |-> K(s), n |-> K(n), k |-> K(1), p |-> Address({"g"})],
     vars |-> {"s", "n", "k", "p", "g", "r", "t", "c", "u", "v"}]

\* f adds k to g, called in two places or at the head of a loop.
Helper(out4, out5) ==
    [funs |-> <<"main", "f">>, entry |-> [main |-> 1, f |-> 8],
     fun |-> [i \in 1..11 |-> IF i <= 7 THEN "main" ELSE "f"],
     stmt |-> <<Store("p", "s"), Skip, Load("t", "p"), Cmp("c", "lt", "t", "n"), Skip, Skip, Load("r", "p"),
                Load("u", "p"), Add("v", "u", "k"), Store("p", "v"), Skip>>,
     out |-> <<<<Go(2)>>, <<Call(8)>>, <<Go(4)>>, out4, out5, <<Go(7)>>, <<>>,
               <<Go(9)>>, <<Go(10)>>, <<Go(11)>>, <<Ret(3), Ret(6)>>>>,
     ret |-> [i \in {2, 5} |-> IF i = 2 THEN 3 ELSE 6],
     callee |-> [i \in {2, 5} |-> "f"], targets |-> [i \in {2, 5} |-> <<"f">>],
     globals |-> [s |-> K(0), n |-> K(3), k |-> K(1), p |-> Address({"g"})],
     vars |-> {"s", "n", "k", "p", "g", "t", "c", "r", "u", "v"}]
TwoCalls == Helper(<<Go(5)>>, <<Call(8)>>)
CallAtHead == Helper(<<If(2, "c", 1), If(5, "c", 0)>>, <<Call(8)>>)

\* The function called is f or h by what cell holds; also called from other.
Indirect ==
    [funs |-> <<"f", "h", "main", "other">>, entry |-> [main |-> 1, f |-> 6, h |-> 8, other |-> 10],
     fun |-> [i \in 1..12 |-> IF i <= 5 THEN "main" ELSE IF i <= 7 THEN "f" ELSE IF i <= 9 THEN "h" ELSE "other"],
     stmt |-> <<Store("p", "one"), Store("z", "pf"), Load("w", "z"), Skip, Load("r", "p"),
                Store("p", "two"), Skip, Store("p", "ten"), Skip,
                Store("p", "two"), Skip, Load("o", "p")>>,
     out |-> <<<<Go(2)>>, <<Go(3)>>, <<Go(4)>>, <<Call(6), Call(8)>>, <<>>,
               <<Go(7)>>, <<Ret(5)>>, <<Go(9)>>, <<Ret(5), Ret(12)>>,
               <<Go(11)>>, <<Call(8)>>, <<>>>>,
     ret |-> [i \in {4, 11} |-> i + 1],
     callee |-> [i \in {4, 11} |-> IF i = 4 THEN "w" ELSE "h"],
     targets |-> [i \in {4, 11} |-> IF i = 4 THEN <<"f", "h">> ELSE <<"h">>],
     globals |-> [one |-> K(1), two |-> K(2), ten |-> K(10), p |-> Address({"g"}), z |-> Address({"cell"}),
                  pf |-> Address({"f"})],
     vars |-> {"one", "two", "ten", "p", "z", "pf", "f", "g", "cell", "w", "r", "o"}]

\* Control flow alone: graphs of four nodes, all with up to two edges in either
\* order from the last two of them.
Ordered ==
    LET outs == {<<>>} \cup {<<Go(a)>> : a \in 1..4}
                \cup {<<Go(x[1]), Go(x[2])>> : x \in {y \in (1..4) \X (1..4) : y[1] # y[2]}}
    IN  {Simple([n \in 1..4 |-> Skip], <<<<Go(2)>>, b, c, d>>, [k |-> K(0)], {}) :
            b \in {<<Go(3)>>, <<Go(3), Go(4)>>, <<Go(4), Go(3)>>}, c \in outs, d \in outs}

\* i = 0; while (i < 8) { if (i > 5) x = 1; i += 1; } where x has no value before:
\* its objects are not SteadyObjects.
LateStore ==
    Simple(<<Skip, Addr("p", "i"), Addr("q", "x"), Store("p", "s"), Load("t", "p"),
               Cmp("c", "lt", "t", "n"), Load("a", "p"), Cmp("b", "gt", "a", "m"), Store("q", "k"),
               Load("u", "p"), Add("v", "u", "k"), Store("p", "v"), Load("r", "q")>>,
             <<<<Go(2)>>, <<Go(3)>>, <<Go(4)>>, <<Go(5)>>, <<Go(6)>>, <<If(7, "c", 1), If(13, "c", 0)>>,
               <<Go(8)>>, <<If(9, "b", 1), If(10, "b", 0)>>, <<Go(10)>>, <<Go(11)>>, <<Go(12)>>, <<Go(5)>>, <<>>>>,
             [s |-> K(0), n |-> K(8), m |-> K(5), k |-> K(1)],
             {"p", "q", "i", "x", "t", "c", "a", "b", "u", "v", "r"})

ProgramSet ==
    {Count(pred, s, n, k) : pred \in {"lt", "le", "ne"}, s \in {0, 4}, n \in {4, 6}, k \in {1, 2}}
    \cup {CountSwapped(pred, s, n, k) : pred \in {"gt", "ge"}, s \in {0, 4}, n \in {4, 6}, k \in {1, 2}}
    \cup {CountSwapped(pred, 4, n, -1) : pred \in {"lt", "le"}, n \in {0, 2}}
    \cup {Nested(n, m, again) : n \in {0, 2, 4}, m \in {1, 4}, again \in BOOLEAN}
    \cup {Choice(K(n)) : n \in 1..3}
    \cup {Recursive(s, n) : s \in {0, 4}, n \in {2, 5}}
    \cup {TwoCalls, CallAtHead, Indirect, LateStore}
    \cup Ordered
=============================================================================
