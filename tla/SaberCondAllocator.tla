------------------------- MODULE SaberCondAllocator -------------------------
(***************************************************************************)
(* The conditions under which a value flows from one basic block to        *)
(* another (SaberCondAllocator).  A condition over the decisions of the    *)
(* branches is the set of valuations that satisfy it, so Z3 is not needed. *)
(*                                                                         *)
(* A program p has blocks (numbers, in the order of their ids) with their  *)
(* successors, its functions with their entry and exit blocks, its loops   *)
(* (header -> blocks), the blocks that call exit(), the branches that test *)
(* a variable for null (and where they go when it is not), and an SVFG     *)
(* whose nodes have a block, a value (NoValue for MSSA nodes) and a kind.  *)
(* p.true is the set of all valuations and p.pdom the immediate            *)
(* post-dominators.                                                        *)
(***************************************************************************)
EXTENDS Integers, FiniteSets, SequencesExt, Digraphs

NoValue == "-"

Blocks(p)   == DOMAIN p.succ
Branches(p) == {b \in Blocks(p) : Cardinality(p.succ[b]) > 1}

(***************************************************************************)
(* allocateForBB: log2(successors) variables per branch; a successor is    *)
(* told apart by the bits of its index.  With three successors one         *)
(* combination of the two variables belongs to none of them.               *)
(***************************************************************************)
bit_num(n) == CHOOSE k \in 0 .. n : 2^k >= n /\ \A j \in 0 .. k - 1 : 2^j < n

AllValuations(p) ==
    {v \in [Branches(p) -> 0 .. 3] :
        \A b \in Branches(p) : v[b] < 2^bit_num(Cardinality(p.succ[b]))}
False == {}

succ_index(p, b, s) == Cardinality({t \in p.succ[b] : t < s})

getBranchCond(p, b, s) ==
    IF b \in Branches(p) THEN {v \in p.true : v[b] = succ_index(p, b, s)} ELSE p.true

(***************************************************************************)
(* postDominate: the map it looks into is filled with the children of a    *)
(* node of LLVM's post-dominator tree, so besides b itself only the        *)
(* immediate post-dominator of b counts.                                   *)
(***************************************************************************)
Ends(p) == {b \in Blocks(p) : p.succ[b] = {}}

AllWaysMeet(p, x, b) ==
    LET round == {<<c, d>> \in Blocks(p) \X Blocks(p) : d \in p.succ[c] /\ c # x /\ d # x}
    IN  x # b /\ \A e \in Ends(p) \ {x} : e # b /\ <<b, e>> \notin Closure(round, Blocks(p))

PostDomTree(p) ==
    {<<x, b>> \in Blocks(p) \X Blocks(p) :
        /\ AllWaysMeet(p, x, b)
        /\ \A y \in Blocks(p) \ {x} : AllWaysMeet(p, y, b) => AllWaysMeet(p, y, x)}

postDominate(p, x, b) == x = b \/ <<x, b>> \in p.pdom

isBBCallsProgExit(p, b) ==
    \E x \in p.exits : p.fun[x] = p.fun[b] /\ postDominate(p, x, b)

\* evaluateLoopExitBranch answers true or nothing: from the header of a loop its
\* only way out is certain to be taken, whatever the loop does before.
LoopExits(p, h) == UNION {p.succ[b] : b \in p.loops[h]} \ p.loops[h]

evaluateLoopExitBranch(p, b, dst) ==
    /\ b \in DOMAIN p.loops
    /\ \A e \in LoopExits(p, b) : ~isBBCallsProgExit(p, e) => postDominate(p, dst, e)

\* isTestContainsNullAndTheValue: the variable tested is that of node n or of a
\* direct successor of n.
TestsValueOf(p, n, b) ==
    /\ b \in DOMAIN p.test
    /\ p.test[b].var \in {p.nodes[n].val} \cup {p.nodes[e.to].val : e \in {f \in p.edges : f.from = n}}

(***************************************************************************)
(* evaluateBranchCond for the current SVFG node n: loop exits first, then  *)
(* branches one side of which ends the program, then null tests of the     *)
(* value.  getEvalBrCond skips all three for nodes that have no value.     *)
(***************************************************************************)
evaluateBranchCond(p, n, b, s) ==
    IF Cardinality(p.succ[b]) # 2 THEN getBranchCond(p, b, s)
    ELSE IF evaluateLoopExitBranch(p, b, s) THEN p.true
    ELSE IF isBBCallsProgExit(p, s) THEN False
    ELSE IF \E t \in p.succ[b] : isBBCallsProgExit(p, t) THEN p.true
    ELSE IF TestsValueOf(p, n, b) THEN IF s = p.test[b].nonNull THEN p.true ELSE False
    ELSE getBranchCond(p, b, s)

getEvalBrCond(p, n, b, s) ==
    IF p.nodes[n].val # NoValue THEN evaluateBranchCond(p, n, b, s) ELSE getBranchCond(p, b, s)

(***************************************************************************)
(* ComputeIntraVFGGuard: conditions are pushed along the control flow from *)
(* src, first in first out; cf is bbToCondMap, which the two halves of an  *)
(* interprocedural guard share.  At the header of a loop that can only be  *)
(* left towards dst the search stops with what is known by then.           *)
(***************************************************************************)
getCFCond(cf, b) == IF b \in DOMAIN cf THEN cf[b] ELSE False

setCFCond(cf, b, c) == [x \in DOMAIN cf \cup {b} |-> IF x = b THEN c ELSE cf[x]]

PushSucc(p, n, b, st, s) ==
    LET br  == IF postDominate(p, s, b) THEN p.true ELSE getEvalBrCond(p, n, b, s)
        new == getCFCond(st.cf, s) \cup (st.cf[b] \cap br)
    IN  IF s \in DOMAIN st.cf /\ st.cf[s] = new THEN st
        ELSE [cf |-> setCFCond(st.cf, s, new),
              queue |-> IF Contains(st.queue, s) THEN st.queue ELSE Append(st.queue, s)]

RECURSIVE Search(_, _, _, _)
Search(p, n, dst, st) ==
    IF st.queue = <<>> THEN [cond |-> getCFCond(st.cf, dst), cf |-> st.cf]
    ELSE LET b == Head(st.queue)
         IN  IF evaluateLoopExitBranch(p, b, dst) THEN [cond |-> st.cf[b], cf |-> st.cf]
             ELSE Search(p, n, dst,
                         FoldLeft(LAMBDA acc, s : PushSucc(p, n, b, acc, s),
                                  [st EXCEPT !.queue = Tail(@)],
                                  SetToSortSeq(p.succ[b], <)))

ComputeIntraVFGGuard(p, n, cf, src, dst) ==
    IF postDominate(p, dst, src) THEN [cond |-> p.true, cf |-> cf]
    ELSE Search(p, n, dst, [cf |-> setCFCond(cf, src, p.true), queue |-> <<src>>])

\* From src to a call or exit block, and on from the entry or call block to dst.
InTwo(p, n, src, last, first, dst) ==
    LET c1 == ComputeIntraVFGGuard(p, n, [b \in {} |-> False], src, last)
        cf == setCFCond(c1.cf, first, getCFCond(c1.cf, first) \cup getCFCond(c1.cf, last))
    IN  c1.cond \cap ComputeIntraVFGGuard(p, n, cf, first, dst).cond

BlockOf(p, n) == p.nodes[n].bb

ComputeInterCallVFGGuard(p, e) ==
    InTwo(p, e.from, BlockOf(p, e.from), p.sites[e.site].bb,
          p.entry[p.fun[BlockOf(p, e.to)]], BlockOf(p, e.to))

ComputeInterRetVFGGuard(p, e) ==
    InTwo(p, e.from, BlockOf(p, e.from), p.exit[p.fun[BlockOf(p, e.from)]],
          p.sites[e.site].bb, BlockOf(p, e.to))

IntraGuard(p, m, n) ==
    ComputeIntraVFGGuard(p, m, [b \in {} |-> False], BlockOf(p, m), BlockOf(p, n)).cond

VFGuard(p, e) ==
    CASE e.kind \in {"callDir", "callInd"} -> ComputeInterCallVFGGuard(p, e)
      [] e.kind \in {"retDir", "retInd"}   -> ComputeInterRetVFGGuard(p, e)
      [] OTHER                             -> IntraGuard(p, e.from, e.to)
=============================================================================
