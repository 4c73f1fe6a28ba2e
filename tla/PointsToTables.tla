--------------------------- MODULE PointsToTables ---------------------------
(***************************************************************************)
(* The points-to table behind a difference-propagating analysis            *)
(* (svf/lib/MemoryModel/PointerAnalysisImpl.cpp): ptD is one of two        *)
(* implementations, chosen by Options::ptDataBacking, and the analysis     *)
(* must not notice which.  Both are driven by the same calls: the table of *)
(* ids is this module's own, the table of explicit sets is InPlace.        *)
(***************************************************************************)
EXTENDS PersistentDiffPTData, PersistentPointsToCacheSM, FiniteSets, TLC

CONSTANTS
    MaxCached,   \* bounds of the model checker: results the store of the tables remembers,
    MaxUsed      \* objects in its sets

VARIABLES
    mPts, mRev, mDiff, mPropa, mResult,   \* of the table of explicit sets
    cleared                               \* clear() has been called

mVars   == <<mPts, mRev, mDiff, mPropa, mResult>>
allVars == <<vars, mVars, cleared>>

InPlace == INSTANCE MutableDiffPTData
             WITH ptsMap <- mPts, revPtsMap <- mRev, diffPtsMap <- mDiff,
                  propaPtsMap <- mPropa, result <- mResult

TablesInit == Init /\ InPlace!Init /\ cleared = FALSE

AddBoth          == \E k \in Keys, o \in Objects : AddPts(k, o) /\ InPlace!AddPts(k, o)
RemoveBoth       == \E k \in Keys, o \in Objects : ClearPts(k, o) /\ InPlace!ClearPts(k, o)
UnionSetBoth     == \E k \in Keys, s \in PointsToSets : UnionSet(k, s) /\ InPlace!UnionSet(k, s)
UnionBoth        == \E k, j \in Keys : UnionPts(k, j) /\ InPlace!UnionPts(k, j)
EmptyBoth        == \E k \in Keys : ClearFullPts(k) /\ InPlace!ClearFullPts(k)
ComputeDiffBoth  == \E k \in Keys : ComputeDiffPts(k) /\ InPlace!ComputeDiffPts(k)
UpdatePropaBoth  == \E k, j \in Keys : UpdatePropaPtsMap(k, j) /\ InPlace!UpdatePropaPtsMap(k, j)
ClearPropaBoth   == \E k \in Keys : ClearPropaPts(k) /\ InPlace!ClearPropaPts(k)
RemapBoth        == Remap /\ InPlace!RemapAllPts

TablesNext ==
    \/ /\ \/ AddBoth \/ RemoveBoth \/ UnionSetBoth \/ UnionBoth \/ EmptyBoth
          \/ ComputeDiffBoth \/ UpdatePropaBoth \/ ClearPropaBoth \/ RemapBoth
       /\ UNCHANGED cleared
    \/ Clear /\ InPlace!Clear /\ cleared' = TRUE

TablesSpec == TablesInit /\ [][TablesNext]_allVars

-----------------------------------------------------------------------------
\* An analysis computes the same with either table: the same sets, the same
\* pointers of an object and the same answers, in particular the answers of
\* unionPts and computeDiffPts that decide whether a node is visited again.
\* Only the sets and the pointers agree after clear(), which in the table of
\* explicit sets keeps what was propagated and what was new.
BackendsAgree ==
    /\ mPts = AbsPts
    /\ mRev = revPtsMap
    /\ ~cleared => mDiff = AbsDiff /\ mPropa = AbsPropa /\ mResult = result

-----------------------------------------------------------------------------
(***************************************************************************)
(* What the model checker explores: a store any client may call, alone and *)
(* without a bound but the last id, and the tables with a store of their   *)
(* own.  The two never meet; exploring them in one state space answers for *)
(* both at the cost of their sum.                                          *)
(***************************************************************************)
PointsToInit == StoreInit /\ TablesInit

PointsToNext ==
    \/ TablesInit /\ StoreNext /\ UNCHANGED allVars
    \/ StoreInit /\ TablesNext /\ UNCHANGED store

PointsToSpec == PointsToInit /\ [][PointsToNext]_<<store, allVars>>

Symm       == Permutations(Keys) \cup Permutations(Objects)
FewOps     == Cardinality(DOMAIN cache.opCache) <= MaxCached
FewObjects == Cardinality(UNION DOMAIN cache.ptsToId) <= MaxUsed

\* clear() is checked and not explored beyond: the table of ids is then in a
\* state it also reaches without a clear(), the other one may differ.
NotCleared == ~cleared
=============================================================================
