---------------------------- MODULE SVFGPrograms ----------------------------
(***************************************************************************)
(* Small SVFGs on which the flow-sensitive and the demand-driven analyses   *)
(* are model-checked; nodes carry the names of the lines of the programs.  *)
(***************************************************************************)
EXTENDS TLC

SVFGVars == {"p", "q", "r", "s", "t", "x", "y", "f"}
SVFGObjs == {"A", "B", "C", "D", "F"}

Addr(d, o)  == [kind |-> "addr", dst |-> d, obj |-> o]
Copy(d, ss) == [kind |-> "copy", dst |-> d, srcs |-> ss]
Load(d, p)  == [kind |-> "load", dst |-> d, ptr |-> p]
Store(p, s) == [kind |-> "store", ptr |-> p, src |-> s]
Mssa(os)    == [kind |-> "mssa", objs |-> os]
Actual(v)   == [kind |-> "actual", var |-> v]
Formal(v)   == [kind |-> "formal", var |-> v]

\* p = &A; if (..) t = p else t = &B; s1: *p = q (&C); s2: *t = r (&D);
\* l1: x = *p; l2: y = *t.  What s2 kills depends on when t is complete.
Joined == [optimised |-> FALSE,
    stmt |-> ("p" :> Addr("p", "A") @@ "q" :> Addr("q", "C") @@ "r" :> Addr("r", "D")
           @@ "b" :> Addr("s", "B") @@ "t" :> Copy("t", {"p", "s"})
           @@ "s1" :> Store("p", "q") @@ "s2" :> Store("t", "r")
           @@ "l1" :> Load("x", "p") @@ "l2" :> Load("y", "t")),
    direct |-> {<<"p", "t">>, <<"b", "t">>, <<"p", "s1">>, <<"q", "s1">>, <<"t", "s2">>,
                <<"r", "s2">>, <<"p", "l1">>, <<"t", "l2">>},
    indirect |-> {<<"s1", "s2", "A">>, <<"s2", "l1", "A">>, <<"s2", "l2", "A">>,
                  <<"s2", "l2", "B">>},
    strong |-> {"A", "B"}, calls |-> {}]

\* p = &A; q = &B; r = &A; s1: *p = q; do { l1: t = *p; s2: *t = r; s3: *p = r; } while (..);
\* l2: x = *q.  s2 writes through what s1 and s3 wrote, and s3 kills it again.
Loop == [optimised |-> FALSE,
    stmt |-> ("p" :> Addr("p", "A") @@ "q" :> Addr("q", "B") @@ "r" :> Addr("r", "A")
           @@ "s1" :> Store("p", "q") @@ "m" :> Mssa({"A", "B"}) @@ "l1" :> Load("t", "p")
           @@ "s2" :> Store("t", "r") @@ "s3" :> Store("p", "r") @@ "l2" :> Load("x", "q")),
    direct |-> {<<"p", "s1">>, <<"q", "s1">>, <<"p", "l1">>, <<"l1", "s2">>, <<"r", "s2">>,
                <<"p", "s3">>, <<"r", "s3">>, <<"q", "l2">>},
    indirect |-> {<<"s1", "m", "A">>, <<"s3", "m", "A">>, <<"s2", "m", "B">>, <<"m", "l1", "A">>,
                  <<"m", "s2", "A">>, <<"m", "s2", "B">>, <<"s2", "s3", "A">>, <<"m", "l2", "B">>},
    strong |-> {"A", "B"}, calls |-> {}]

\* p = &A; f = &F; q = &C; s1: *p = q; (*f)(p); l1: x = *p;   F(t) { r = &D; s2: *t = r; }
Callback == [optimised |-> FALSE,
    stmt |-> ("p" :> Addr("p", "A") @@ "f" :> Addr("f", "F") @@ "q" :> Addr("q", "C")
           @@ "s1" :> Store("p", "q") @@ "ap" :> Actual("p") @@ "ain" :> Mssa({"A"})
           @@ "fp" :> Formal("t") @@ "fin" :> Mssa({"A"}) @@ "r" :> Addr("r", "D")
           @@ "s2" :> Store("t", "r") @@ "fout" :> Mssa({"A"}) @@ "aout" :> Mssa({"A"})
           @@ "l1" :> Load("x", "p")),
    direct |-> {<<"p", "s1">>, <<"q", "s1">>, <<"p", "ap">>, <<"fp", "s2">>, <<"r", "s2">>,
                <<"p", "l1">>},
    indirect |-> {<<"s1", "ain", "A">>, <<"fin", "s2", "A">>, <<"s2", "fout", "A">>,
                  <<"aout", "l1", "A">>},
    strong |-> {},
    calls |-> {[ptr |-> "f", callee |-> "F", direct |-> {<<"ap", "fp">>},
                indirect |-> {<<"ain", "fin", "A">>, <<"fout", "aout", "A">>}, locals |-> {}]}]

\* In F, with the local variable A: p = &A; q = &C; r = &D; f = &F; s1: *p = q; s2: *p = r;
\* l1: x = *p; (*f)().  Once the call is resolved F is recursive and s2 kills nothing.
Recursive == [optimised |-> FALSE,
    stmt |-> ("p" :> Addr("p", "A") @@ "q" :> Addr("q", "C") @@ "r" :> Addr("r", "D")
           @@ "f" :> Addr("f", "F") @@ "s1" :> Store("p", "q") @@ "s2" :> Store("p", "r")
           @@ "l1" :> Load("x", "p")),
    direct |-> {<<"p", "s1">>, <<"q", "s1">>, <<"p", "s2">>, <<"r", "s2">>, <<"p", "l1">>},
    indirect |-> {<<"s1", "s2", "A">>, <<"s2", "l1", "A">>},
    strong |-> {"A"},
    calls |-> {[ptr |-> "f", callee |-> "F", direct |-> {}, indirect |-> {}, locals |-> {"A"}]}]

\* p = &A; q = &C; f = &F; s1: *p = q; (*f)();   F() { l1: x = *p; }  In the optimised
\* SVFG the edge that the call adds leaves the store.
Optimised == [optimised |-> TRUE,
    stmt |-> ("p" :> Addr("p", "A") @@ "q" :> Addr("q", "C") @@ "f" :> Addr("f", "F")
           @@ "s1" :> Store("p", "q") @@ "fin" :> Mssa({"A"}) @@ "l1" :> Load("x", "p")),
    direct |-> {<<"p", "s1">>, <<"q", "s1">>, <<"p", "l1">>},
    indirect |-> {<<"fin", "l1", "A">>},
    strong |-> {"A"},
    calls |-> {[ptr |-> "f", callee |-> "F", direct |-> {}, indirect |-> {<<"s1", "fin", "A">>},
                locals |-> {}]}]

\* a = &A; b = &B; f = &F; if (..) p = a else p = b; q = &C; r = &D; s3: *f = a; s4: *f = b;
\* s1: *p = q; s2: *p = r; l2: t = *f; l1: x = *t.  A and B are on the same edges, t -> B only.
Alike == [optimised |-> FALSE,
    stmt |-> ("a" :> Addr("s", "A") @@ "b" :> Addr("y", "B") @@ "f" :> Addr("f", "F")
           @@ "p" :> Copy("p", {"s", "y"}) @@ "q" :> Addr("q", "C") @@ "r" :> Addr("r", "D")
           @@ "s3" :> Store("f", "s") @@ "s4" :> Store("f", "y") @@ "s1" :> Store("p", "q")
           @@ "s2" :> Store("p", "r") @@ "l2" :> Load("t", "f") @@ "l1" :> Load("x", "t")),
    direct |-> {<<"a", "p">>, <<"b", "p">>, <<"f", "s3">>, <<"f", "s4">>, <<"f", "l2">>, <<"a", "s3">>,
                <<"b", "s4">>, <<"p", "s1">>, <<"p", "s2">>, <<"q", "s1">>, <<"r", "s2">>,
                <<"l2", "l1">>},
    indirect |-> {<<"s3", "s4", "F">>, <<"s4", "l2", "F">>, <<"s1", "s2", "A">>, <<"s1", "s2", "B">>,
                  <<"s2", "l1", "A">>, <<"s2", "l1", "B">>},
    strong |-> {"A", "B", "F"}, calls |-> {}]
=============================================================================
