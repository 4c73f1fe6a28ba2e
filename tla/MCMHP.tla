------------------------------- MODULE MCMHP -------------------------------
EXTENDS MHP

\* A statement of a body: jump is a second successor, relative to it.
Op(kind, target, handle) ==
    [kind |-> kind, target |-> target, handle |-> handle,
     jump |-> 0, loop |-> FALSE, exits |-> {}]
S == Op("stmt", "none", "none")
If(k) == [S EXCEPT !.jump = k]
F(h, f) == Op("fork", f, h)
J(h) == Op("join", "none", h)
C(f) == Op("call", f, "none")
InLoop(op) == [op EXCEPT !.loop = TRUE]
Back(k) == [S EXCEPT !.jump = -k, !.loop = TRUE]
LoopJoin(h, k) == [InLoop(J(h)) EXCEPT !.exits = {k}]
Exit == Op("exit", "none", "none")

\* The statements of a function whose first one is number from.
Placed(f, body, from) ==
    [i \in DOMAIN body |->
        LET op == body[i]
            n  == from + i - 1
        IN  [fun |-> f, kind |-> op.kind, target |-> op.target,
             handle |-> op.handle, loop |-> op.loop,
             next |-> IF op.kind = "exit" THEN {}
                      ELSE {n + 1} \cup (IF op.jump = 0 THEN {} ELSE {n + op.jump}),
             exits |-> {n + k : k \in op.exits}]]

\* A program from its functions, <<name, body>>.
Program(funs) ==
    FoldLeft(LAMBDA p, f : p \o Placed(f[1], Append(f[2], Exit), Len(p) + 1),
             <<>>, funs)

Uses(body) == {body[i].target : i \in DOMAIN body} \ {"none"}

\* The functions of a list that some are used by, directly or not.
Reach(funs, some) ==
    LET body(f) == UNION {Uses(funs[i][2]) : i \in {k \in DOMAIN funs : funs[k][1] = f}}
        r[i \in 0 .. Len(funs)] ==
            IF i = 0 THEN some ELSE r[i - 1] \cup UNION {body(f) : f \in r[i - 1]}
    IN  r[Len(funs)]

\* Main programs that start a and b once, join what they started, and may skip
\* what follows a branch.
MainOps == {F("a", "A"), F("b", "B"), J("a"), J("b"), J("c"), If(2)}
startedBy(h) == IF h = "b" THEN F("b", "B") ELSE F("a", "A")
Sensible(body) ==
    /\ \A i, j \in DOMAIN body :
          body[i] = body[j] /\ body[i].kind # "stmt" => i = j
    /\ \A i \in DOMAIN body : body[i].kind = "join" =>
          \E k \in 1 .. i - 1 : body[k] = startedBy(body[i].handle)
    /\ Last(body).kind # "stmt"
    /\ \A i \in 2 .. Len(body) : body[i].kind = "stmt" => body[i - 1].kind # "stmt"

Mains == {m \in UNION {[1 .. k -> MainOps] : k \in 4 .. 6} : Sensible(m)}
Starters == {<<S>>, <<F("c", "T")>>, <<F("c", "T"), J("c")>>, <<F("c", "T"), If(2), J("c")>>}

Structured ==
    {Program(<< <<"main", x[1]>>, <<"A", x[2]>>, <<"B", <<S>> >>, <<"T", <<S>> >> >>) :
        x \in {y \in Mains \X Starters : J("c") \in Range(y[1]) => y[2] = <<F("c", "T")>>}}

\* Calls: of functions that fork, join, do both or do neither, in one context
\* or two, on every path or around a branch; functions without a thread operation
\* that call each other.
Helpers == << <<"start", <<F("a", "A")>> >>, <<"wait", <<J("a")>> >>,
              <<"both", <<F("b", "B"), S, J("b")>> >>,
              <<"plain", <<S, C("leaf")>> >>, <<"leaf", <<S>> >>,
              <<"twice", <<C("both"), C("both")>> >>,
              <<"A", <<C("plain")>> >>, <<"B", <<S, C("leaf")>> >> >>
Called(body) ==
    LET fs == Reach(Helpers, Uses(body))
    IN  Program(<< <<"main", body>> >> \o SelectSeq(Helpers, LAMBDA h : h[1] \in fs))

WithCalls ==
    {Called(m) : m \in
        { <<C("start"), S, C("wait"), S>>,
          <<C("start"), C("wait"), C("both"), S>>,
          <<F("a", "A"), C("both"), J("a"), F("b", "B"), S, J("b")>>,
          <<F("a", "A"), J("a"), C("both"), S>>,
          <<F("a", "A"), C("plain"), J("a"), C("plain")>>,
          <<F("a", "A"), C("twice"), S, J("a"), S>>,
          <<F("a", "A"), C("leaf"), If(2), C("plain"), C("both"), J("a")>>,
          <<C("plain"), F("a", "A"), S, C("wait"), C("leaf"), F("b", "B")>> }}

\* Loops, and a branch whose longer way goes around a join.
WithLoops ==
    {Called(m) : m \in
        { <<S, InLoop(F("a", "A")), Back(1), S, F("b", "B"), S, J("b")>>,
          <<F("a", "A"), InLoop(S), LoopJoin("a", 2), Back(2), S, F("b", "B"), J("b")>>,
          <<F("a", "A"), F("b", "B"), InLoop(If(3)), InLoop(J("a")), InLoop(J("b")),
            Back(3), S>>,
          <<F("a", "A"), If(3), J("a"), If(4), S, S, S, F("b", "B"), S>>,
          <<F("a", "A"), InLoop(C("both")), Back(1), J("a"), S>> }}

TestPrograms == Structured \cup WithCalls \cup WithLoops
=============================================================================
