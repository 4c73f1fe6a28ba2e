--------------------- MODULE PersistentPointsToCacheSM ---------------------
(***************************************************************************)
(* The points-to set store driven by its callers: any legal sequence of    *)
(* calls, each with ids the store has handed out.                          *)
(***************************************************************************)
EXTENDS PersistentPointsToCache

VARIABLE store   \* the PersistentPointsToCache object

StoreInit == store = NewCache

Emplace(s) ==
    /\ CanIntern(store, s)
    /\ store' = EmplacePts(store, s).cache

\* The result of an operation can be interned (or is stored already).
CanOperate(op, lhs, rhs) ==
    CanIntern(store, Apply(op, ActualPts(store, lhs), ActualPts(store, rhs)))

Operate(op, lhs, rhs) ==
    /\ CanOperate(op, lhs, rhs)
    /\ store' = OpPts(store, op, lhs, rhs).cache

RemapStore == store' = RemapAllPts(store)

ResetStore == store' = NewCache

StoreNext ==
    \/ \E s \in PointsToSets : Emplace(s)
    \/ \E op \in Ops, lhs, rhs \in StoredIds(store) : Operate(op, lhs, rhs)
    \/ RemapStore
    \/ ResetStore

StoreSpec == StoreInit /\ [][StoreNext]_store

-----------------------------------------------------------------------------
\* Ids and sets are in one-to-one correspondence, whatever was interned by
\* emplacePts, opPts or rebuilt by remapAllPts: callers compare ids to decide
\* whether a points-to set changed.
IdsAreSets == Interned(store)

\* Every entry of the three operation caches is right, the preemptive ones
\* included, which were entered without performing the operation.
CachedResultsSound == OpCacheSound(store)

\* Whatever is asked of the store next, the id it answers with stands for the union,
\* difference or intersection of the operands, on each of the three answering paths.
AnswersCorrect ==
    \A op \in Ops, lhs, rhs \in StoredIds(store) :
        CanOperate(op, lhs, rhs) =>
            LET answer == OpPts(store, op, lhs, rhs)
            IN  /\ answer.id \in StoredIds(answer.cache)
                /\ ActualPts(answer.cache, answer.id) =
                     Apply(op, ActualPts(store, lhs), ActualPts(store, rhs))

\* Short of reset, an id never changes its meaning: clients keep ids, not sets.
IdsAreStable == [][ResetStore \/ Extends(store', store)]_store
=============================================================================
