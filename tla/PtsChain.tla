------------------------------ MODULE PtsChain ------------------------------
(***************************************************************************)
(* MRGenerator::CollectPtsChain of svf/lib/MSSA/MemRegion.cpp: everything  *)
(* reachable from an object through the points-to sets of its fields, with *)
(* one cache for all queries.  The recursion is the stack `chasing' of     *)
(* frames [base, todo]: a base object and what its loop has still to       *)
(* collect.  ModRefAnalysis makes the queries.                             *)
(***************************************************************************)
EXTENDS Naturals, Sequences, FiniteSets, Digraphs

CONSTANTS
    BaseObjs, Objs,   \* base objects; base objects and their fields
    BaseOf,           \* [object -> its base object] (getBaseObjVarID)
    Heaps             \* points-to graphs, sets of <<object, object>>

ASSUME PtsChainAssumption ==
    /\ IsFiniteSet(Objs) /\ BaseObjs \subseteq Objs /\ BaseOf \in [Objs -> BaseObjs]
    /\ \A b \in BaseObjs : BaseOf[b] = b
    /\ Heaps \subseteq SUBSET (Objs \X Objs)

VARIABLES
    heap,      \* pta->getPts of the objects
    chain,     \* [base object -> its entry], meaningful for those in cached
    cached,    \* the keys of cachedPtsChainMap
    chasing    \* the recursion

chainVars == <<heap, chain, cached, chasing>>

FieldsOf(b) == {o \in Objs : BaseOf[o] = b}    \* getFieldsAfterCollapse

\* What is not found in the cache gets an entry before anything is collected, so
\* it is found by the calls this one makes.
Begin(b, callers) ==
    /\ cached' = cached \cup {b}
    /\ chain' = [chain EXCEPT ![b] = FieldsOf(b)]
    /\ chasing' = Append(callers, [base |-> b, todo |-> {e \in heap : BaseOf[e[1]] = b}])
    /\ UNCHANGED heap

CollectPtsChain(b) ==
    IF b \in cached THEN UNCHANGED chainVars ELSE Begin(b, chasing)

Chased     == chasing[Len(chasing)]
Without(e) == [chasing EXCEPT ![Len(chasing)].todo = @ \ {e}]

CollectPointee ==
    /\ chasing # <<>>
    /\ \E e \in Chased.todo :
          LET b == BaseOf[e[2]]
          IN  IF b \in cached
                THEN /\ chain' = [chain EXCEPT ![Chased.base] = @ \cup chain[b]]
                     /\ chasing' = Without(e)
                     /\ UNCHANGED <<heap, cached>>
                ELSE Begin(b, Without(e))

ReturnChain ==
    /\ chasing # <<>> /\ Chased.todo = {}
    /\ chasing' = SubSeq(chasing, 1, Len(chasing) - 1)
    /\ chain' = IF Len(chasing) = 1 THEN chain
                ELSE [chain EXCEPT ![chasing[Len(chasing) - 1].base] = @ \cup chain[Chased.base]]
    /\ UNCHANGED <<heap, cached>>

chainInit ==
    /\ heap \in Heaps
    /\ chain = [b \in BaseObjs |-> {}]
    /\ cached = {} /\ chasing = <<>>

-----------------------------------------------------------------------------
(***************************************************************************)
(* What an object's chain is: the fields of all base objects reached.      *)
(***************************************************************************)
BaseEdges(h) == {<<BaseOf[e[1]], BaseOf[e[2]]>> : e \in h}
ReachOf      == [h \in Heaps |-> Closure(BaseEdges(h), BaseObjs)]
FullChain(os) == UNION {FieldsOf(b) : b \in ReachedFrom({BaseOf[o] : o \in os}, ReachOf[heap])}

\* Nothing is collected that the object does not reach; and a finished entry lacks
\* only what an unfinished one it used lacked: as long as no two objects reach each
\* other, every entry not on the stack is complete.
Acyclic == \A e \in ReachOf[heap] : <<e[2], e[1]>> \in ReachOf[heap] => e[1] = e[2]

ChainsExact ==
    \A b \in cached :
        /\ chain[b] \subseteq FullChain({b})
        /\ Acyclic /\ (\A i \in 1 .. Len(chasing) : chasing[i].base # b) => chain[b] = FullChain({b})
=============================================================================
