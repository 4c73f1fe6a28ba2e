------------------------------- MODULE MCSaber -------------------------------
\* The programs SABER is model-checked on.
EXTENDS SrcSnkDDA

At(b, v, k)     == [bb |-> b, val |-> v, kind |-> k]
E(m, n, k, cs)  == [from |-> m, to |-> n, kind |-> k, site |-> cs, via |-> {}]
D(m, n)         == E(m, n, "dir", "")
I(m, n)         == E(m, n, "ind", "")
Phi(m, n, k, b) == [E(m, n, k, "") EXCEPT !.via = {b}]
Alloc(b, x)     == [bb |-> b, ret |-> x]

\* One function, no loops, tests, calls of exit(), globals or strong updates.
Plain(succ) == [succ |-> succ, fun |-> [b \in DOMAIN succ |-> "main"],
                entry |-> [main |-> 1], exit |-> [main |-> CHOOSE b \in DOMAIN succ : \A c \in DOMAIN succ : c <= b],
                loops |-> [b \in {} |-> {}], exits |-> {}, test |-> [b \in {} |-> 0],
                sites |-> [m |-> Alloc(1, "x")], allocs |-> {"m"},
                calls |-> [b \in {} |-> ""], callee |-> [c \in {} |-> ""],
                strong |-> {}, globals |-> {}, dead |-> {}]

\* x = malloc(); if (!x) exit(1); if (..) free(x); else free(x);
Tested == [test |-> (1 :> [var |-> "x", nonNull |-> 3]), exits |-> {2},
    nodes |-> [x |-> At(1, "x", "actualRet"), f4 |-> At(4, "x", "actualParm"),
               f5 |-> At(5, "x", "actualParm")],
    flows |-> {D("x", "f4"), D("x", "f5")}, sinks |-> {"f4", "f5"}]
    @@ Plain(<<{2, 3}, {}, {4, 5}, {6}, {6}, {}>>)

\* x = malloc(); if (..) free(x); if (..) free(x);
Twice == [
    nodes |-> [x |-> At(1, "x", "actualRet"), f2 |-> At(2, "x", "actualParm"),
               f4 |-> At(4, "x", "actualParm")],
    flows |-> {D("x", "f2"), D("x", "f4")}, sinks |-> {"f2", "f4"}]
    @@ Plain(<<{2, 3}, {3}, {4, 5}, {5}, {}>>)

\* x, z = malloc(); while (..) { if (..) { free(x); goto end; } free(z); y = malloc(); free(y); }
\* free(x); end: ;
Loops == [loops |-> (2 :> {2, 3, 4, 8}),
    sites |-> [m |-> Alloc(1, "x"), n |-> Alloc(1, "z"), o |-> Alloc(4, "y")],
    allocs |-> {"m", "n", "o"},
    exit |-> [main |-> 7],
    nodes |-> [x |-> At(1, "x", "actualRet"), z |-> At(1, "z", "actualRet"),
               y |-> At(4, "y", "actualRet"), fy |-> At(8, "y", "actualParm"),
               fz |-> At(4, "z", "actualParm"),
               f5 |-> At(5, "x", "actualParm"), f6 |-> At(6, "x", "actualParm")],
    flows |-> {D("x", "f5"), D("x", "f6"), D("z", "fz"), D("y", "fy")},
    sinks |-> {"f5", "f6", "fy", "fz"}]
    @@ Plain(<<{2}, {3, 6}, {4, 5}, {8}, {7}, {7}, {}, {2}>>)

\* *q = malloc(); if (..) *q = 0; free(*q);
Overwrites == [strong |-> {"s2"},
    nodes |-> [x |-> At(1, "x", "actualRet"), s1 |-> At(1, "s1", "store"),
               s2 |-> At(2, "s2", "store"), m |-> At(3, NoValue, "mphi"),
               l |-> At(3, "l", "load"), f |-> At(3, "l", "actualParm")],
    flows |-> {D("x", "s1"), I("s1", "s2"), Phi("s1", "m", "ind", 1), Phi("s2", "m", "ind", 2),
               I("m", "l"), D("l", "f")},
    sinks |-> {"f"}]
    @@ Plain(<<{2, 3}, {3}, {}>>)

\* get() { return malloc(); }  id(p) { return p; }
\* x = get(); y = get(); u = id(x); w = id(y); if (..) free(w); free(u);
Wrapped == [fun |-> [b \in 1 .. 10 |-> IF b = 9 THEN "get" ELSE IF b = 10 THEN "id" ELSE "main"],
    entry |-> [main |-> 1, get |-> 9, id |-> 10], exit |-> [main |-> 8, get |-> 9, id |-> 10],
    sites |-> [m |-> Alloc(9, "r"), g1 |-> Alloc(1, "x"), g2 |-> Alloc(2, "y"),
               i1 |-> Alloc(3, "u"), i2 |-> Alloc(4, "w")],
    calls |-> <<"g1", "g2", "i1", "i2">>,
    callee |-> [g1 |-> "get", g2 |-> "get", i1 |-> "id", i2 |-> "id"],
    nodes |-> [r |-> At(9, "r", "actualRet"), fr |-> At(9, "fr", "formalRet"),
               x |-> At(1, "x", "actualRet"), y |-> At(2, "y", "actualRet"),
               ax |-> At(3, "x", "actualParm"), ay |-> At(4, "y", "actualParm"),
               p |-> At(10, "p", "formalParm"), pr |-> At(10, "pr", "formalRet"),
               u |-> At(3, "u", "actualRet"), w |-> At(4, "w", "actualRet"),
               f6 |-> At(6, "w", "actualParm"), f7 |-> At(7, "u", "actualParm")],
    flows |-> {D("r", "fr"), E("fr", "x", "retDir", "g1"), E("fr", "y", "retDir", "g2"),
               D("x", "ax"), D("y", "ay"), E("ax", "p", "callDir", "i1"),
               E("ay", "p", "callDir", "i2"), D("p", "pr"), E("pr", "u", "retDir", "i1"),
               E("pr", "w", "retDir", "i2"), D("w", "f6"), D("u", "f7")},
    sinks |-> {"f6", "f7"}]
    @@ Plain(<<{2}, {3}, {4}, {5}, {6, 7}, {7}, {8}, {}, {}, {}>>)

\* The same, with get() { return + malloc(); } through two copies and
\* id(p) { return id1(p); }  id1(q) { return q; }.
Nested == [fun |-> [b \in 1 .. 11 |-> IF b <= 8 THEN "main" ELSE <<"get", "id", "id1">>[b - 8]],
    entry |-> [main |-> 1, get |-> 9, id |-> 10, id1 |-> 11],
    exit |-> [main |-> 8, get |-> 9, id |-> 10, id1 |-> 11],
    sites |-> Wrapped.sites @@ [k |-> Alloc(10, "v")],
    calls |-> Wrapped.calls @@ (10 :> "k"),
    callee |-> Wrapped.callee @@ [k |-> "id1"],
    nodes |-> Wrapped.nodes @@ [c |-> At(9, "c", "copy"), d |-> At(9, "d", "copy"),
               ap |-> At(10, "p", "actualParm"), q |-> At(11, "q", "formalParm"),
               qr |-> At(11, "qr", "formalRet"), v |-> At(10, "v", "actualRet")],
    flows |-> (Wrapped.flows \ {D("r", "fr"), D("p", "pr")})
              \cup {D("r", "c"), D("c", "d"), D("d", "fr"), D("p", "ap"), E("ap", "q", "callDir", "k"),
                    D("q", "qr"), E("qr", "v", "retDir", "k"), D("v", "pr")},
    sinks |-> {"f6", "f7"}]
    @@ Plain(<<{2}, {3}, {4}, {5}, {6, 7}, {7}, {8}, {}, {}, {}, {}>>)

\* rec(p) { if (..) rec(p); else free(p); }  x = malloc(); rec(x);
Recursion == [fun |-> [b \in 1 .. 6 |-> IF b > 2 THEN "rec" ELSE "main"],
    entry |-> [main |-> 1, rec |-> 3], exit |-> [main |-> 2, rec |-> 6],
    sites |-> [m |-> Alloc(1, "x"), c1 |-> Alloc(2, ""), c2 |-> Alloc(4, "")],
    calls |-> (2 :> "c1" @@ 4 :> "c2"), callee |-> [c1 |-> "rec", c2 |-> "rec"],
    nodes |-> [x |-> At(1, "x", "actualRet"), ax |-> At(2, "x", "actualParm"),
               p |-> At(3, "p", "formalParm"), ap |-> At(4, "p", "actualParm"),
               f |-> At(5, "p", "actualParm")],
    flows |-> {D("x", "ax"), E("ax", "p", "callDir", "c1"), D("p", "ap"),
               E("ap", "p", "callDir", "c2"), D("p", "f")},
    sinks |-> {"f"}]
    @@ Plain(<<{2}, {}, {4, 5}, {6}, {6}, {}>>)

\* x = malloc(); if (..) g = x;
Global == [globals |-> {"g"},
    nodes |-> [x |-> At(1, "x", "actualRet"), g |-> At(2, "g", "store")],
    flows |-> {D("x", "g")}, sinks |-> {}]
    @@ Plain(<<{2, 3}, {3}, {}>>)

\* switch (..) { case 0: free(x); break; case 1: free(x); break; default: free(x); }
Switch == [
    nodes |-> [x |-> At(1, "x", "actualRet"), f2 |-> At(2, "x", "actualParm"),
               f3 |-> At(3, "x", "actualParm"), f4 |-> At(4, "x", "actualParm")],
    flows |-> {D("x", "f2"), D("x", "f3"), D("x", "f4")}, sinks |-> {"f2", "f3", "f4"}]
    @@ Plain(<<{2, 3, 4}, {5}, {5}, {5}, {}>>)

\* x = malloc(); free(.. ? x : 0);
Selected == [
    nodes |-> [x |-> At(1, "x", "actualRet"), h |-> At(4, "h", "phi"), f |-> At(4, "h", "actualParm")],
    flows |-> {Phi("x", "h", "dir", 2), D("h", "f")}, sinks |-> {"f"}]
    @@ Plain(<<{2, 3}, {4}, {4}, {}>>)

\* *q = malloc(); .. free(*q); .. *q = 0;
UsedFirst == [strong |-> {"s2"},
    nodes |-> [x |-> At(1, "x", "actualRet"), s1 |-> At(1, "s1", "store"), l |-> At(2, "l", "load"),
               f |-> At(2, "l", "actualParm"), s2 |-> At(3, "s2", "store")],
    flows |-> {D("x", "s1"), I("s1", "l"), D("l", "f"), I("s1", "s2")}, sinks |-> {"f"}]
    @@ Plain(<<{2}, {3}, {}>>)

\* x = malloc(); if (..) { if (..) ..; else { ..; ..; } while (..) ..; free(x); } else free(x);
LateLoop == [loops |-> (6 :> {6, 8}),
    nodes |-> [x |-> At(1, "x", "actualRet"), f3 |-> At(3, "x", "actualParm"),
               f9 |-> At(9, "x", "actualParm")],
    flows |-> {D("x", "f3"), D("x", "f9")}, sinks |-> {"f3", "f9"}]
    @@ Plain(<<{2, 3}, {4, 5}, {10}, {6}, {7}, {8, 9}, {6}, {6}, {10}, {}>>)

\* *q = malloc(); if (..) *r = ..; if (..) exit(1); free(*q);
ExitBehindPhi == [exits |-> {4},
    nodes |-> [x |-> At(1, "x", "actualRet"), s1 |-> At(1, "s1", "store"),
               s2 |-> At(2, "s2", "store"), m |-> At(3, NoValue, "mphi"),
               l |-> At(5, "l", "load"), f |-> At(5, "l", "actualParm")],
    flows |-> {D("x", "s1"), I("s1", "s2"), Phi("s1", "m", "ind", 1), Phi("s2", "m", "ind", 2),
               I("m", "l"), D("l", "f")},
    sinks |-> {"f"}]
    @@ Plain(<<{2, 3}, {3}, {4, 5}, {}, {}>>)

\* *q = malloc(); if (..) *r = ..; if (..) *q = 0; free(*q);
OverwrittenPhi == [strong |-> {"s4"},
    nodes |-> [x |-> At(1, "x", "actualRet"), s1 |-> At(1, "s1", "store"),
               s2 |-> At(2, "s2", "store"), m |-> At(3, NoValue, "mphi"),
               s4 |-> At(4, "s4", "store"), o |-> At(5, NoValue, "mphi"),
               l |-> At(5, "l", "load"), f |-> At(5, "l", "actualParm")],
    flows |-> {D("x", "s1"), I("s1", "s2"), Phi("s1", "m", "ind", 1), Phi("s2", "m", "ind", 2),
               I("m", "s4"), Phi("m", "o", "ind", 3), Phi("s4", "o", "ind", 4), I("o", "l"),
               D("l", "f")},
    sinks |-> {"f"}]
    @@ Plain(<<{2, 3}, {3}, {4, 5}, {5}, {}>>)

MCPrograms == [tested |-> Tested, twice |-> Twice, loops |-> Loops, overwrites |-> Overwrites,
            wrapped |-> Wrapped, nested |-> Nested, recursion |-> Recursion, global |-> Global,
            switch |-> Switch, selected |-> Selected, usedfirst |-> UsedFirst,
            lateloop |-> LateLoop, exitbehindphi |-> ExitBehindPhi, overwrittenphi |-> OverwrittenPhi]
=============================================================================
