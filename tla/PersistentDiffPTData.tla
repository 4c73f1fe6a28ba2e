------------------------ MODULE PersistentDiffPTData ------------------------
(***************************************************************************)
(* DiffPTData over the hash-consing store: PersistentPTData and            *)
(* PersistentDiffPTData of svf/include/MemoryModel/PersistentPointsToDS.h. *)
(* Points-to, diff and propagated sets are PointsToIDs; a set changes by   *)
(* getting another id, and ids are compared where sets are meant.  A key   *)
(* that is not in one of the maps has the default id 0, the empty set.     *)
(***************************************************************************)
EXTENDS PersistentPointsToCache

CONSTANT Keys

VARIABLES
    cache,        \* ptCache
    ptsMap,       \* [key -> PointsToID]
    revPtsMap,    \* [object -> keys], maintained next to ptsMap
    diffPtsMap,   \* [key -> PointsToID]
    propaPtsMap,  \* [key -> PointsToID]
    result        \* what the last call returned

vars == <<cache, ptsMap, revPtsMap, diffPtsMap, propaPtsMap, result>>

NoIds == [k \in Keys |-> EmptyId]

Init ==
    /\ cache = NewCache
    /\ ptsMap = NoIds /\ diffPtsMap = NoIds /\ propaPtsMap = NoIds
    /\ revPtsMap = [o \in Objects |-> {}]
    /\ result = FALSE

Pts(k) == ActualPts(cache, ptsMap[k])

CanOp(c, op, lhs, rhs) == CanIntern(c, Apply(op, ActualPts(c, lhs), ActualPts(c, rhs)))

(***************************************************************************)
(* unionPtsFromId, on the cache c its caller leaves: reverse points-to     *)
(* sets are touched only when the id of the points-to set changed.         *)
(***************************************************************************)
UnionPtsFromId(c, k, srcId) ==
    LET new == OpPts(c, "union", ptsMap[k], srcId)
        src == ActualPts(new.cache, srcId)
    IN  /\ CanOp(c, "union", ptsMap[k], srcId)
        /\ cache' = new.cache
        /\ ptsMap' = [ptsMap EXCEPT ![k] = new.id]
        /\ result' = (new.id # ptsMap[k])
        /\ revPtsMap' = IF new.id # ptsMap[k]
                          THEN [o \in Objects |-> IF o \in src THEN revPtsMap[o] \cup {k}
                                                               ELSE revPtsMap[o]]
                          ELSE revPtsMap
        /\ UNCHANGED <<diffPtsMap, propaPtsMap>>

UnionSet(k, s) ==
    /\ CanIntern(cache, s)
    /\ UnionPtsFromId(EmplacePts(cache, s).cache, k, EmplacePts(cache, s).id)

AddPts(k, o)   == UnionSet(k, {o})
UnionPts(k, j) == UnionPtsFromId(cache, k, ptsMap[j])

ClearPts(k, o) ==
    /\ CanIntern(cache, {o})
    /\ LET remove == EmplacePts(cache, {o})
           rest   == OpPts(remove.cache, "complement", ptsMap[k], remove.id)
       IN  /\ CanOp(remove.cache, "complement", ptsMap[k], remove.id)
           /\ cache' = rest.cache
           /\ ptsMap' = [ptsMap EXCEPT ![k] = rest.id]
           /\ revPtsMap' = IF rest.id # ptsMap[k]
                             THEN [revPtsMap EXCEPT ![o] = @ \ {k}] ELSE revPtsMap
    /\ result' = FALSE
    /\ UNCHANGED <<diffPtsMap, propaPtsMap>>

\* Mutant: reverse points-to sets are forgotten.
ClearFullPtsOneWay(k) ==
    /\ ptsMap' = [ptsMap EXCEPT ![k] = EmptyId]
    /\ result' = FALSE
    /\ UNCHANGED <<cache, revPtsMap, diffPtsMap, propaPtsMap>>

ClearFullPts(k) ==
    /\ ptsMap' = [ptsMap EXCEPT ![k] = EmptyId]
    /\ revPtsMap' = [o \in Objects |-> IF o \in Pts(k) THEN revPtsMap[o] \ {k} ELSE revPtsMap[o]]
    /\ result' = FALSE
    /\ UNCHANGED <<cache, diffPtsMap, propaPtsMap>>

ComputeDiffPts(k) ==
    LET all == EmplacePts(cache, Pts(k))
        new == OpPts(all.cache, "complement", all.id, propaPtsMap[k])
    IN  /\ CanIntern(cache, Pts(k))
        /\ CanOp(all.cache, "complement", all.id, propaPtsMap[k])
        /\ cache' = new.cache
        /\ diffPtsMap' = [diffPtsMap EXCEPT ![k] = new.id]
        /\ propaPtsMap' = [propaPtsMap EXCEPT ![k] = all.id]
        /\ result' = (new.id # EmptyId)
        /\ UNCHANGED <<ptsMap, revPtsMap>>

UpdatePropaPtsMap(src, dst) ==
    LET both == OpPts(cache, "intersect", propaPtsMap[dst], propaPtsMap[src])
    IN  /\ CanOp(cache, "intersect", propaPtsMap[dst], propaPtsMap[src])
        /\ cache' = both.cache
        /\ propaPtsMap' = [propaPtsMap EXCEPT ![dst] = both.id]
        /\ result' = FALSE
        /\ UNCHANGED <<ptsMap, revPtsMap, diffPtsMap>>

ClearPropaPts(k) ==
    /\ propaPtsMap' = [propaPtsMap EXCEPT ![k] = EmptyId]
    /\ result' = FALSE
    /\ UNCHANGED <<cache, ptsMap, revPtsMap, diffPtsMap>>

Remap ==
    /\ cache' = RemapAllPts(cache)
    /\ result' = FALSE
    /\ UNCHANGED <<ptsMap, revPtsMap, diffPtsMap, propaPtsMap>>

\* Mutants: the maps of the subclass are kept; the store is reset under them.
ClearBase ==
    /\ ptsMap' = NoIds /\ revPtsMap' = [o \in Objects |-> {}]
    /\ result' = FALSE
    /\ UNCHANGED <<cache, diffPtsMap, propaPtsMap>>
ClearStore ==
    /\ cache' = NewCache
    /\ ptsMap' = NoIds /\ revPtsMap' = [o \in Objects |-> {}]
    /\ result' = FALSE
    /\ UNCHANGED <<diffPtsMap, propaPtsMap>>

\* The store itself is not cleared: ids stay valid and operations remembered.
Clear ==
    /\ ptsMap' = NoIds /\ diffPtsMap' = NoIds /\ propaPtsMap' = NoIds
    /\ revPtsMap' = [o \in Objects |-> {}]
    /\ result' = FALSE
    /\ UNCHANGED cache

Next ==
    \/ \E k \in Keys, o \in Objects : AddPts(k, o) \/ ClearPts(k, o)
    \/ \E k \in Keys, s \in PointsToSets : UnionSet(k, s)
    \/ \E k, j \in Keys : UnionPts(k, j) \/ UpdatePropaPtsMap(k, j)
    \/ \E k \in Keys : ClearFullPts(k) \/ ComputeDiffPts(k) \/ ClearPropaPts(k)
    \/ Remap
    \/ Clear

Spec == Init /\ [][Next]_vars

-----------------------------------------------------------------------------
\* Every id a map holds is one the store has handed out, and the store itself is
\* well formed (getActualPts asserts that the id is in range).
TypeOK ==
    /\ CacheOK(cache)
    /\ ptsMap \in [Keys -> StoredIds(cache)]
    /\ diffPtsMap \in [Keys -> StoredIds(cache)]
    /\ propaPtsMap \in [Keys -> StoredIds(cache)]
    /\ revPtsMap \in [Objects -> SUBSET Keys]
    /\ result \in BOOLEAN

\* The reverse map is exactly the reverse of the points-to map although it is
\* updated only when an id changed, for the source set of a union alone:
\* collapseField finds every pointer to a field by it (getRevPts).
RevPtsExact == \A o \in Objects : revPtsMap[o] = {k \in Keys : o \in Pts(k)}

\* The sets the ids of a map stand for.
Sets(c, map) == [k \in Keys |-> ActualPts(c, map[k])]

AbsPts   == Sets(cache, ptsMap)
AbsDiff  == Sets(cache, diffPtsMap)
AbsPropa == Sets(cache, propaPtsMap)

Abstract == INSTANCE DiffPTData WITH pts <- AbsPts, diff <- AbsDiff, propa <- AbsPropa

\* The table is a DiffPTData: sets, differences and returned booleans are those
\* of the interface, whatever ids were reused, deduced or remapped on the way.
ImplementsDiffPTData == Abstract!Spec
=============================================================================
