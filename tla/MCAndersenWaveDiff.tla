------------------------ MODULE MCAndersenWaveDiff ------------------------
(***************************************************************************)
(* The programs the solver is model-checked on.  Each is what a few lines  *)
(* of C become after mem2reg: every top-level pointer has one definition.  *)
(***************************************************************************)
EXTENDS AndersenWaveDiff, TLC

MCVars      == {"p", "q", "r", "s", "t", "u", "v", "w", "x", "y"}
MCBaseObjs  == {"A", "B", "C", "F", "N", "S"}
MCFieldObjs == {"S.0", "S.1"}
MCBaseOf    == [o \in MCBaseObjs \cup MCFieldObjs |-> IF o \in MCFieldObjs THEN "S" ELSE o]
MCFieldIdx  == ("S.0" :> 0) @@ ("S.1" :> 1)
MCNumFields == [b \in MCBaseObjs |-> IF b = "S" THEN 2 ELSE 0]
MCOpaque    == {"N"}          \* the null/constant object
MCConstants == {"N"}
Scalars     == {"A", "B", "C", "F"}

Empty == [addr |-> {}, copy |-> {}, gep |-> {}, load |-> {}, store |-> {},
          calls |-> {}, funs |-> [f \in {} |-> <<"p", "p">>], matchArgs |-> {},
          insensitive |-> Scalars]

\* p = &A; do { q = phi(p, r); r = q; } while (..); s = &B; *s = q; t = *s;
CopyCycle == [Empty EXCEPT
    !.addr  = {<<"A", "p">>, <<"B", "s">>, <<"N", "s">>},
    !.copy  = {<<"p", "q">>, <<"r", "q">>, <<"q", "r">>},
    !.store = {<<"q", "s">>}, !.load = {<<"s", "t">>}]

\* p = &S; q = &p->1; v = &A; *q = v; r = &p->1; w = *r; x = *p;
Fields == [Empty EXCEPT
    !.addr  = {<<"S", "p">>, <<"A", "v">>},
    !.gep   = {<<"p", "q", 1>>, <<"p", "r", 1>>, <<"q", "x", 1>>},
    !.store = {<<"v", "q">>}, !.load = {<<"r", "w">>, <<"x", "u">>}]

\* p = &S; do { q = phi(p, r); r = &q->1; } while (..); v = &A; *r = v; w = *q;
FieldLoop == [Empty EXCEPT
    !.addr  = {<<"S", "p">>, <<"A", "v">>},
    !.copy  = {<<"p", "q">>, <<"r", "q">>},
    !.gep   = {<<"q", "r", 1>>},
    !.store = {<<"v", "r">>}, !.load = {<<"q", "w">>}]

\* p = &S; q = &p->1; v = &A; *q = v; z = &p->0; *z = &B; r = &q[i]; w = *r;
\* (z is s here, and &B is u)
Indexed == [Empty EXCEPT
    !.addr  = {<<"S", "p">>, <<"A", "v">>, <<"B", "u">>},
    !.gep   = {<<"p", "q", 1>>, <<"p", "s", 0>>, <<"q", "r", Variant>>},
    !.store = {<<"v", "q">>, <<"u", "s">>}, !.load = {<<"r", "w">>}]

\* s = &B; p = c ? &F : &C; *s = p; q = *s; v = &A; w = q(v);
\* F(x) { return y = x; }   C(u, int) { return u; }
FunPtr == [Empty EXCEPT
    !.addr  = {<<"B", "s">>, <<"F", "p">>, <<"C", "p">>, <<"A", "v">>},
    !.copy  = {<<"x", "y">>},
    !.store = {<<"p", "s">>}, !.load = {<<"s", "q">>},
    !.calls = {<<"q", "v", "w">>}, !.funs = ("F" :> <<"x", "y">>) @@ ("C" :> <<"u", "u">>),
    !.matchArgs = {<<<<"q", "v", "w">>, "F">>}]

\* More calls than are resolved:
\* p = c ? &F : &C; v = &A; w = p(v); t = &B; u = p(t);  F(x) { return x; }  C(y) { return y; }
FunPtrs == [Empty EXCEPT
    !.addr  = {<<"F", "p">>, <<"C", "p">>, <<"A", "v">>, <<"B", "t">>},
    !.calls = {<<"p", "v", "w">>, <<"p", "t", "u">>},
    !.funs  = ("F" :> <<"x", "x">>) @@ ("C" :> <<"y", "y">>),
    !.matchArgs = {<<"p", "v", "w">>, <<"p", "t", "u">>} \X {"F", "C"}]

\* The cycle appears only when the store is resolved:
\* s = &B; p = &A; x = phi(p, r); q = x; *s = q; r = *s; y = r; u = &C; *q = u;
\* v = *r;
LateCycle == [Empty EXCEPT
    !.addr  = {<<"B", "s">>, <<"A", "p">>, <<"C", "u">>},
    !.copy  = {<<"p", "x">>, <<"r", "x">>, <<"x", "q">>, <<"r", "y">>},
    !.store = {<<"q", "s">>, <<"u", "q">>}, !.load = {<<"s", "r">>, <<"r", "v">>}]

\* A load of a pointer that gains an object only by being merged with others:
\* q = &A; p = &B; r = *q; s = phi(p, r); t = &C; u = phi(s, t); *q = u;
\* v = *s; w = &F; *t = w;
LoadOfMerged == [Empty EXCEPT
    !.addr  = {<<"A", "q">>, <<"B", "p">>, <<"C", "t">>, <<"F", "w">>},
    !.copy  = {<<"p", "s">>, <<"r", "s">>, <<"s", "u">>, <<"t", "u">>},
    !.store = {<<"u", "q">>, <<"w", "t">>}, !.load = {<<"q", "r">>, <<"s", "v">>}]

\* p = &S; v = &A; do { q = phi(p, r); f = &q->1; *f = q; r = *f; } while (..);
\* g = &r[i]; *g = v; w = *f;     (f is s here, g is t)
List == [Empty EXCEPT
    !.addr  = {<<"S", "p">>, <<"A", "v">>},
    !.copy  = {<<"p", "q">>, <<"r", "q">>},
    !.gep   = {<<"q", "s", 1>>, <<"r", "t", Variant>>},
    !.store = {<<"q", "s">>, <<"v", "t">>}, !.load = {<<"s", "r">>, <<"s", "w">>}]

\* p = &S; do { q = phi(p, r); r = &q->0; } while (..);
FirstFieldLoop == [Empty EXCEPT
    !.addr  = {<<"S", "p">>},
    !.copy  = {<<"p", "q">>, <<"r", "q">>},
    !.gep   = {<<"q", "r", 0>>}]

\* p = &S; do { x = phi(p, q, r); q = &x->1; r = &x->0; } while (..);
TwoFieldsLoop == [Empty EXCEPT
    !.addr  = {<<"S", "p">>},
    !.copy  = {<<"p", "x">>, <<"q", "x">>, <<"r", "x">>},
    !.gep   = {<<"x", "q", 1>>, <<"x", "r", 0>>}]

MCPrograms == {FirstFieldLoop, TwoFieldsLoop, CopyCycle, Fields, FieldLoop, Indexed, FunPtr,
               FunPtrs, LateCycle, List, LoadOfMerged}
LoadPrograms == {LoadOfMerged}
===========================================================================
