------------------------------ MODULE SVFGRun ------------------------------
(***************************************************************************)
(* When memory SSA and the value-flow graph are built (SVFGOPT) the        *)
(* analysed program itself runs, in the phase "run", so that what reaches  *)
(* a load can be compared with what the graph says reaches it.  Programs   *)
(* whose graph is optimised are not run: theirs is compared with the       *)
(* graph that is not.                                                      *)
(***************************************************************************)
EXTENDS SVFGOPT

VARIABLES
    flows,      \* what the graph says that is not optimised: Said
    frames      \* the running program, innermost call last

runVars == <<flows, frames>>
vars    == <<memVars, svfgVars, optVars, runVars>>

(***************************************************************************)
(* A frame knows for each object the store that wrote it last ("none" is   *)
(* no store), for each region its version, and what it can access.  One    *)
(* object stands for all instances of a local variable; those of a caller  *)
(* that cannot be accessed are not touched by the callee.                  *)
(***************************************************************************)
FreshIn(f, given) == {o \in DOMAIN Owner : Owner[o] = f} \ (given \cup FullChain(Globals))

NewFrame(f, given, writer) ==
    [fun |-> f, block |-> prog.entry[f], at |-> 1,
     writer |-> [o \in Objs |-> IF o \in FreshIn(f, given) THEN "none" ELSE writer[o]],
     version |-> [r \in UsedRegs(f) |-> 1],
     fresh |-> FreshIn(f, given),
     reach |-> FullChain(given \cup Globals \cup {o \in DOMAIN Owner : Owner[o] = f})]

Depth   == Len(frames)
Running == frames[Depth]
AtEnd(fr)  == fr.at > Len(prog.code[fr.block])
StmtOf(fr) == prog.code[fr.block][fr.at]

\* After x the regions it defines have the versions its chis give them.
Past(fr, x) ==
    [fr EXCEPT !.at = @ + 1,
               !.version = [r \in DOMAIN @ |-> IF r \in ChiRegs(x) THEN ver[<<"res", x.id, r>>] ELSE @[r]]]

Initialised == [o \in Objs |-> IF \E x \in prog.inits : o \in x.pts
                                 THEN (CHOOSE x \in prog.inits : o \in x.pts).id ELSE "none"]

StartRun ==
    /\ phase = "connected"
    /\ phase' = "run"
    /\ frames' = <<NewFrame("main", {}, Initialised)>>
    /\ UNCHANGED <<sccVars, chainVars, prog, chainCallVars, effectVars, parts, ssaVars, svfgVars, optVars, flows>>

AtStmt(op) == phase = "run" /\ frames # <<>> /\ ~AtEnd(Running) /\ StmtOf(Running).op = op

Load ==
    /\ AtStmt("load")
    /\ frames' = [frames EXCEPT ![Depth] = Past(@, StmtOf(Running))]
    /\ UNCHANGED <<memVars, svfgVars, optVars, flows>>

Store ==
    /\ AtStmt("store")
    /\ \E o \in StmtOf(Running).pts \cap Running.reach :
          frames' = [frames EXCEPT ![Depth] = Past([@ EXCEPT !.writer[o] = StmtOf(Running).id], StmtOf(Running))]
    /\ UNCHANGED <<memVars, svfgVars, optVars, flows>>

\* The result of a call gives access to what it reaches.
Returned(fr, x) == [Past(fr, x) EXCEPT !.reach = @ \cup FullChain(x.ret)]

CallExternal ==
    /\ AtStmt("call")
    /\ \E g \in StmtOf(Running).callees \ DOMAIN prog.entry :
          LET x == StmtOf(Running)
          IN  frames' = [frames EXCEPT ![Depth] = Returned(
                           [@ EXCEPT !.writer = [o \in Objs |-> IF o \in x.alloc THEN "none" ELSE @[o]]], x)]
    /\ UNCHANGED <<memVars, svfgVars, optVars, flows>>

Call ==
    /\ AtStmt("call") /\ Depth < MaxDepth
    /\ \E g \in StmtOf(Running).callees \cap DOMAIN prog.entry :
          frames' = Append(frames,
              NewFrame(g, FullChain(StmtOf(Running).args \cap Running.reach), Running.writer))
    /\ UNCHANGED <<memVars, svfgVars, optVars, flows>>

Jump ==
    /\ phase = "run" /\ frames # <<>> /\ AtEnd(Running)
    /\ \E b \in prog.succ[Running.block] :
          frames' = [frames EXCEPT ![Depth] =
              [@ EXCEPT !.block = b, !.at = 1,
                        !.version = [r \in DOMAIN @ |->
                            IF r \in PhisAt(b) THEN ver[<<"phi", b, r>>] ELSE @[r]]]]
    /\ UNCHANGED <<memVars, svfgVars, optVars, flows>>

ReturnToCaller ==
    /\ phase = "run" /\ frames # <<>> /\ AtEnd(Running) /\ prog.succ[Running.block] = {}
    /\ frames' = IF Depth = 1 THEN <<>>
                 ELSE LET caller == frames[Depth - 1]
                          writer == [o \in Objs |-> IF o \in Running.fresh THEN caller.writer[o]
                                                    ELSE Running.writer[o]]
                      IN  Append(SubSeq(frames, 1, Depth - 2),
                                 Returned([caller EXCEPT !.writer = writer], StmtOf(caller)))
    /\ UNCHANGED <<memVars, svfgVars, optVars, flows>>

-----------------------------------------------------------------------------
\* Where calls are matched, and where they are disregarded.
Said(g) == [matched |-> Flows(g), any |-> Flows({<<e[1], e[2], Intra, e[4]>> : e \in g})]

runInit == optInit /\ flows = Said({}) /\ frames = <<>>

Analyse ==
    \/ ssaNext /\ UNCHANGED <<svfgVars, optVars, runVars>>
    \/ buildSVFG /\ UNCHANGED <<optVars, frames>>
       /\ flows' = IF prog.opt THEN Said(vfg' \cup IndirectEdges) ELSE flows
    \/ updateCallGraph /\ flows' = Said(vfg') /\ UNCHANGED <<optVars, frames>>
    \/ OptimiseSVFG /\ UNCHANGED runVars
    \/ StartRun
Run     == Load \/ Store \/ CallExternal \/ Call \/ Jump \/ ReturnToCaller
runNext == Analyse \/ Run

Analysed == phase \in {"run", "optimised"}

runSpec     == runInit /\ [][runNext]_vars
runFairSpec == runSpec /\ ([]<><<Analyse>>_vars \/ []<>Analysed)

-----------------------------------------------------------------------------
\* Exactness of what the regions are made from is known to fail otherwise.
NoMutualRecursion ==
    LET R == Closure(edges, prog.funs)
    IN  \A e \in R : <<e[2], e[1]>> \in R => e[1] = e[2]

NamesHold ==
    \A k \in 1 .. Depth :
        LET fr == frames[k]
        IN  IF AtEnd(fr)
              THEN \A b \in prog.succ[fr.block] : \A r \in PhisAt(b) :
                      ver[<<"arg", b, r, fr.block>>] = fr.version[r]
              ELSE /\ \A r \in MuRegs(StmtOf(fr)) : ver[<<"mu", StmtOf(fr).id, r>>] = fr.version[r]
                   /\ \A r \in ChiRegs(StmtOf(fr)) : ver[<<"op", StmtOf(fr).id, r>>] = fr.version[r]

LoadsSeeWriters ==
    AtStmt("load") =>
        \A o \in StmtOf(Running).pts \cap Running.reach :
            Running.writer[o] # "none" => <<Running.writer[o], StmtOf(Running).id, o>> \in flows.matched

\* Whatever path a run takes, the versions in a function are those the path leads
\* to, and the store that wrote last what a load reads flows to it in the
\* value-flow graph, through calls and returns that match.
DefsReachUses == phase = "run" => NamesHold /\ (Acyclic /\ NoMutualRecursion => LoadsSeeWriters)

\* An optimised graph says what the one that is not says: which store's value a load
\* or another store meets; in recursive programs only without regard to calls, see
\* README.  And on the way there nothing dangles.
OptimisedAlike ==
    /\ phase \in {"inter", "remove", "intra", "optimised"} => NothingDangles
    /\ phase = "optimised" =>
          LET said == Said(vfg)
          IN  /\ said.any = flows.any
              /\ (\A f \in prog.funs : ~Recurs(prog, f)) => said.matched = flows.matched

\* The chains and effects that regions are made from are exact.
EffectsExact == ChainsExact /\ SideEffectsExact

\* The value-flow graph gets built.
SVFGEnds == <>Analysed
=============================================================================
