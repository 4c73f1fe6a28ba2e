--------------------------- MODULE ModRefAnalysis ---------------------------
(***************************************************************************)
(* MRGenerator::generateMRs of svf/lib/MSSA/MemRegion.cpp up to the        *)
(* partitioning: what escapes through globals, the components of the call  *)
(* graph (SCCDetection; a node is a function here), the effects of loads   *)
(* and stores, what arguments and results of calls reach (PtsChain), and   *)
(* the interprocedural mod-ref fixed point.                                *)
(*                                                                         *)
(* An effect is <<"mod", o>> or <<"ref", o>>: an object modified or read.  *)
(***************************************************************************)
EXTENDS SCCDetection, PtsChain

CONSTANTS Programs, Globals, HeapObjs, Owner

(***************************************************************************)
(* A program: its functions, the entry block of those with a body, and for *)
(* each basic block its function, its successors and its statements, which *)
(* are [id, op |-> "load" or "store", pts] or                              *)
(* [id, op |-> "call", callees, args, ret, alloc]: the objects the pointer *)
(* arguments and the result point to, and those allocated                  *)
(* (isHeapAllocExtCall).  Globals and HeapObjs are objects, Owner the      *)
(* function of each other one.                                             *)
(***************************************************************************)
Code(p, b)      == {p.code[b][i] : i \in DOMAIN p.code[b]}
BlocksOf(p, f)  == {b \in DOMAIN p.home : p.home[b] = f}
StmtsOf(p, f)   == UNION {Code(p, b) : b \in BlocksOf(p, f)}
SitesOf(p, f)   == {x \in StmtsOf(p, f) : x.op = "call"}
Accesses(p, f)  == {x \in StmtsOf(p, f) : x.op # "call" /\ x.pts # {}}
Sites(p)        == UNION {SitesOf(p, f) : f \in p.funs}
CallEdges(p)    == UNION {{<<f, g>> : g \in UNION {s.callees : s \in SitesOf(p, f)}} : f \in p.funs}
CallerOf(p, s)  == CHOOSE f \in p.funs : s \in SitesOf(p, f)

ASSUME ModRefAssumption ==
    /\ Globals \cup HeapObjs \subseteq Objs
    /\ Owner \in [Objs \ (Globals \cup HeapObjs) -> Nodes]
    /\ \A p \in Programs :
          /\ p.funs \subseteq Nodes /\ CallEdges(p) \in Graphs /\ p.heap \in Heaps
          /\ p.home \in [DOMAIN p.code -> p.funs] /\ p.succ \in [DOMAIN p.code -> SUBSET DOMAIN p.code]
          /\ \A f \in p.funs : \A x \in StmtsOf(p, f) :
                IF x.op = "call" THEN x.callees \subseteq p.funs /\ x.args \cup x.ret \cup x.alloc \subseteq Objs
                ELSE x.pts \subseteq Objs

VARIABLES
    prog,       \* the program
    phase,      \* the step of generateMRs
    asking,     \* the call of CollectPtsChain: <<"global" or "args" or "ret", site, object>>
    want,       \* those still to be made by the loop it is in
    allGlobals, \* objects that escape through globals
    reached,    \* csToCallSiteArgsPtsMap and csToCallSiteRetPtsMap: [args, ret], by site
    uncollected,\* call sites collectCallSitePts is not called for yet
    effects,    \* funToModsMap and funToRefsMap
    atSite,     \* csToModsMap and csToRefsMap
    worklist,   \* the local worklist of collectModRefForCall
    members,    \* functions of the popped component that are still to be handled
    callee,     \* the function modRefAnalysis is called for
    sites       \* its call sites still to be handled

chainCallVars == <<asking, want, allGlobals, reached, uncollected>>
effectVars    == <<effects, atSite, worklist, members, callee, sites>>
mrVars        == <<sccVars, chainVars, prog, phase, chainCallVars, effectVars>>

-----------------------------------------------------------------------------
(***************************************************************************)
(* collectGlobals and collectCallSitePts: loops that call CollectPtsChain. *)
(***************************************************************************)
Ask ==
    /\ asking = <<>>
    /\ \E q \in want :
          /\ asking' = q /\ want' = want \ {q}
          /\ CollectPtsChain(BaseOf[q[3]])
    /\ UNCHANGED <<sccVars, prog, phase, allGlobals, reached, uncollected, effectVars>>

Chase ==
    /\ CollectPointee \/ ReturnChain
    /\ UNCHANGED <<sccVars, prog, phase, chainCallVars, effectVars>>

Answer ==
    /\ asking # <<>> /\ chasing = <<>>
    /\ asking' = <<>>
    /\ LET found == chain[BaseOf[asking[3]]]
       IN  IF asking[1] = "global"
             THEN allGlobals' = allGlobals \cup {asking[3]} \cup found /\ UNCHANGED reached
             ELSE reached' = [reached EXCEPT ![asking[1]][asking[2]] = @ \cup found] /\ UNCHANGED allGlobals
    /\ UNCHANGED <<sccVars, chainVars, prog, phase, want, uncollected, effectVars>>

FindComponents ==
    /\ want = {} /\ asking = <<>>
    /\ \/ phase = "globals" /\ Find(prog.funs, edges)
       \/ Detect
    /\ phase' = "components"
    /\ UNCHANGED <<chainVars, prog, chainCallVars, effectVars>>

(***************************************************************************)
(* isNonLocalObject(o, f), called when the components are known.           *)
(***************************************************************************)
isNonLocalObject(o, f) ==
    \/ o \in Globals \cup HeapObjs
    \/ o \notin Globals \cup HeapObjs /\ (Owner[o] # f \/ isInCycle(Owner[o]))

NonLocal(es, f) == {e \in es : isNonLocalObject(e[2], f)}

Effect(x) == {<<IF x.op = "store" THEN "mod" ELSE "ref", o>> : o \in x.pts}

collectModRefForLoadStore ==
    /\ phase = "components" /\ pc = "done"
    /\ effects' = [f \in Nodes |-> IF f \in prog.funs
                     THEN NonLocal(UNION {Effect(x) : x \in Accesses(prog, f)}, f) ELSE {}]
    /\ phase' = "sites"
    /\ UNCHANGED <<sccVars, chainVars, prog, chainCallVars, atSite, worklist, members, callee, sites>>

\* collectCallSitePts(s)
CollectCallSitePts ==
    /\ phase = "sites" /\ want = {} /\ asking = <<>>
    /\ \E s \in uncollected :
          /\ uncollected' = uncollected \ {s}
          /\ want' = {<<"args", s, o>> : o \in s.args} \cup {<<"ret", s, o>> : o \in s.ret}
    /\ UNCHANGED <<sccVars, chainVars, prog, phase, asking, allGlobals, reached, effectVars>>

-----------------------------------------------------------------------------
(***************************************************************************)
(* collectModRefForCall.                                                   *)
(***************************************************************************)
StartModRef ==
    /\ phase = "sites" /\ uncollected = {} /\ want = {} /\ asking = <<>>
    /\ phase' = "modref"
    /\ worklist' = revTopoNodeStack
    /\ UNCHANGED <<sccVars, chainVars, prog, chainCallVars, effects, atSite, members, callee, sites>>

\* handleCallsiteModRef, then the masking of addModSideEffectOfCallSite and
\* addRefSideEffectOfCallSite: what the arguments reach, of modified objects what
\* the result reaches too, and what escapes through globals.
Visible(args, ret, globals, s, callees) ==
    {e \in IF s.alloc # {} THEN {"mod"} \X s.alloc ELSE callees :
        e[2] \in args \cup globals \cup (IF e[1] = "mod" THEN ret ELSE {})}

VisibleAt(s, f) ==
    Visible(reached["args"][s], reached["ret"][s], allGlobals, s, effects[f])

Push(q, n) == IF \E i \in 1 .. Len(q) : q[i] = n THEN q ELSE Append(q, n)

\* "handle all sub scc nodes of this rep node"
PopNode ==
    /\ phase = "modref" /\ members = {} /\ sites = {} /\ worklist # <<>>
    /\ members' = subNodes(Head(worklist))
    /\ worklist' = Tail(worklist)
    /\ UNCHANGED <<sccVars, chainVars, prog, phase, chainCallVars, effects, atSite, callee, sites>>

\* modRefAnalysis(f): visit the call sites of the edges into f.
ModRefOfCallee ==
    /\ phase = "modref" /\ sites = {}
    /\ \E f \in members :
          /\ callee' = f
          /\ members' = members \ {f}
          /\ sites' = {s \in Sites(prog) : f \in s.callees}
    /\ UNCHANGED <<sccVars, chainVars, prog, phase, chainCallVars, effects, atSite, worklist>>

\* Mutant: callers are never visited again.
HandleCallSiteOnce ==
    /\ phase = "modref"
    /\ \E s \in sites :
          LET new    == VisibleAt(s, callee)
              caller == CallerOf(prog, s)
          IN  /\ sites' = sites \ {s}
              /\ atSite' = [atSite EXCEPT ![s] = @ \cup new]
              /\ effects' = [effects EXCEPT ![caller] = @ \cup NonLocal(new, caller)]
    /\ UNCHANGED <<sccVars, chainVars, prog, phase, chainCallVars, worklist, members, callee>>

\* Mutant: callers are visited again whether or not anything changed.
HandleCallSiteAlways ==
    /\ phase = "modref"
    /\ \E s \in sites :
          LET new    == VisibleAt(s, callee)
              caller == CallerOf(prog, s)
          IN  /\ sites' = sites \ {s}
              /\ atSite' = [atSite EXCEPT ![s] = @ \cup new]
              /\ effects' = [effects EXCEPT ![caller] = @ \cup NonLocal(new, caller)]
              /\ worklist' = Push(worklist, caller)
    /\ UNCHANGED <<sccVars, chainVars, prog, phase, chainCallVars, members, callee>>

HandleCallSite ==
    /\ phase = "modref"
    /\ \E s \in sites :
          LET new    == VisibleAt(s, callee)
              caller == CallerOf(prog, s)
          IN  /\ sites' = sites \ {s}
              /\ atSite' = [atSite EXCEPT ![s] = @ \cup new]
              /\ effects' = [effects EXCEPT ![caller] = @ \cup NonLocal(new, caller)]
              /\ worklist' = IF new \subseteq atSite[s] THEN worklist
                             ELSE Push(worklist, caller)
    /\ UNCHANGED <<sccVars, chainVars, prog, phase, chainCallVars, members, callee>>

ModRefDone == phase = "modref" /\ members = {} /\ sites = {} /\ worklist = <<>>

mrInit ==
    /\ prog \in Programs /\ edges = CallEdges(prog) /\ heap = prog.heap
    /\ sccInit /\ chainInit
    /\ phase = "globals"
    /\ asking = <<>> /\ want = {<<"global", "", o>> : o \in Globals}
    /\ allGlobals = {} /\ reached = [k \in {"args", "ret"} |-> [s \in Sites(prog) |-> {}]]
    /\ uncollected = Sites(prog)
    /\ effects = [f \in Nodes |-> {}]
    /\ atSite = [s \in Sites(prog) |-> {}]
    /\ worklist = <<>> /\ members = {} /\ sites = {}
    /\ callee \in {CHOOSE n \in Nodes : TRUE}

mrNext ==
    \/ Ask \/ Chase \/ Answer \/ FindComponents
    \/ collectModRefForLoadStore \/ CollectCallSitePts
    \/ StartModRef \/ PopNode \/ ModRefOfCallee \/ HandleCallSite

-----------------------------------------------------------------------------
(***************************************************************************)
(* The effects of functions, defined by the call graph and the points-to   *)
(* sets alone: the least ones closed under all call sites.                 *)
(***************************************************************************)
Recurs(p, f) == <<f, f>> \in Closure(CallEdges(p), p.funs)
Escaping(p, f, es) ==
    {e \in es : e[2] \in Globals \cup HeapObjs \/ Owner[e[2]] # f \/ Recurs(p, f)}

Passed(p, s, eff) == Visible(FullChain(s.args), FullChain(s.ret), FullChain(Globals), s, eff)

LeastEffects(p) ==
    LET add(eff, f) == Escaping(p, f,
            UNION {UNION {Passed(p, s, eff[g]) : g \in s.callees} : s \in SitesOf(p, f)})
    IN  Limit([eff \in [p.funs -> SUBSET ({"mod", "ref"} \X Objs)] |->
                  [f \in p.funs |-> eff[f] \cup add(eff, f)]],
              [f \in p.funs |-> Escaping(p, f, UNION {Effect(x) : x \in Accesses(p, f)})])

\* "Compute mod-ref of all callsites invoking this call graph node": at the end a
\* call site has all visible effects of f, for each function f it may call.
ClosedFor(f) == \A s \in Sites(prog) : f \in s.callees => VisibleAt(s, f) \subseteq atSite[s]

\* At the end of the fixed point no function has an effect that no chain of calls
\* brings to it, and the call sites are closed for the representatives, so for all
\* functions when no two of them are mutually recursive, although callers may be
\* visited before callees and nothing but a change brings them back.
SideEffectsExact ==
    ModRefDone =>
        /\ \A f \in prog.funs : effects[f] \subseteq LeastEffects(prog)[f]
        /\ \A f \in prog.funs : repNode(f) = f => ClosedFor(f)
=============================================================================
