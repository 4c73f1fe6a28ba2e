----------------------- MODULE PointsToTables_proofs -----------------------
(***************************************************************************)
(* The hash-consing store, and the tables over it.                         *)
(***************************************************************************)
EXTENDS PointsToTables, TLAPS

(***************************************************************************)
(* What each member function of PersistentPointsToCache does to a store    *)
(* that is in order (CacheOK): it leaves it in order, changes the meaning  *)
(* of no id (Extends), and answers with the right id.                      *)
(***************************************************************************)

\* The constructor leaves the empty set, and only it, under id 0.
LEMMA NewCacheOK == CacheOK(NewCache)
<1>1. CacheShape(NewCache)
  BY MaxIdAssumption DEF CacheShape, NewCache, PointsToSets, Successor, EmptyId
<1>2. Interned(NewCache)
  <2>1. /\ Len(NewCache.idToPts) = 1
        /\ NewCache.idToPts[1] = {}
        /\ NewCache.ptsToId = [s \in {{}} |-> 0]
    BY DEF NewCache, EmptyId
  <2>2. StoredIds(NewCache) = {0} /\ ActualPts(NewCache, 0) = {}
    BY <2>1, MaxIdAssumption DEF StoredIds, ActualPts, Ids
  <2>3. {NewCache.idToPts[n] : n \in 1 .. Len(NewCache.idToPts)} = {{}}
    <3> DEFINE v == NewCache.idToPts
    <3>1. 1 .. Len(v) = {1} /\ v[1] = {}
      BY <2>1
    <3> HIDE DEF v
    <3>2. {v[n] : n \in {1}} = {v[1]}
      BY Zenon
    <3>3. {v[n] : n \in 1 .. Len(v)} = {{}}
      BY <3>1, <3>2, Zenon
    <3>4. QED
      BY <3>3 DEF v
  <2>4. QED
    BY <2>1, <2>2, <2>3 DEF Interned
<1>3. OpCacheSound(NewCache)
  BY DEF OpCacheSound, EntriesSound, NewCache
<1>4. QED
  BY <1>1, <1>2, <1>3 DEF CacheOK

\* An id that was stored before keeps its set, so it stays a stored id.
LEMMA ExtendsKeeps ==
    ASSUME NEW c, NEW d, CacheShape(c), CacheShape(d), Extends(d, c),
           NEW i \in StoredIds(c)
    PROVE  i \in StoredIds(d) /\ ActualPts(d, i) = ActualPts(c, i)
  BY MaxIdAssumption DEF Extends, CacheShape, StoredIds, ActualPts, Ids, PointsToSets

\* emplacePts returns an id for exactly the set it was given.
LEMMA EmplaceCorrect ==
    ASSUME NEW c, CacheOK(c), NEW s \in PointsToSets, CanIntern(c, s)
    PROVE  /\ CacheOK(EmplacePts(c, s).cache)
           /\ Extends(EmplacePts(c, s).cache, c)
           /\ EmplacePts(c, s).id \in StoredIds(EmplacePts(c, s).cache)
           /\ ActualPts(EmplacePts(c, s).cache, EmplacePts(c, s).id) = s
<1>1. CASE s \in DOMAIN c.ptsToId
  <2>1. EmplacePts(c, s) = [cache |-> c, id |-> c.ptsToId[s]]
    BY <1>1 DEF EmplacePts
  <2>2. Extends(c, c)
    BY DEF Extends, CacheOK, CacheShape
  <2>3. QED
    BY <1>1, <2>1, <2>2 DEF CacheOK, Interned
<1>2. CASE s \notin DOMAIN c.ptsToId
  <2> DEFINE d == EmplacePts(c, s).cache
             n == Len(c.idToPts)
  <2>1. /\ n \in 1 .. MaxId
        /\ c.idCounter = n
        /\ c.idToPts \in Seq(PointsToSets)
        /\ n \in Nat
    BY <1>2, MaxIdAssumption DEF CanIntern, CacheOK, CacheShape, Successor, EmptyId
  <2>2. /\ EmplacePts(c, s).id = n
        /\ d = [idToPts   |-> Append(c.idToPts, s),
                ptsToId   |-> Put(c.ptsToId, s, n),
                opCache   |-> c.opCache,
                idCounter |-> Successor(n)]
    BY <1>2, <2>1 DEF EmplacePts, CacheOK, CacheShape
  <2>3. /\ d.idToPts \in Seq(PointsToSets)
        /\ Len(d.idToPts) = n + 1
        /\ \A k \in 1 .. n : d.idToPts[k] = c.idToPts[k]
        /\ d.idToPts[n + 1] = s
    BY <2>1, <2>2
  <2> HIDE DEF d
  <2>4. CacheShape(d)
    BY <2>1, <2>2, <2>3, MaxIdAssumption DEF CacheShape, CacheOK, Successor
  <2>5. Extends(d, c)
    BY <2>1, <2>3 DEF Extends
  <2>6. StoredIds(d) = StoredIds(c) \cup {n} /\ n \notin StoredIds(c)
    BY <2>1, <2>3, MaxIdAssumption DEF StoredIds, Ids
  <2>7. ActualPts(d, n) = s
    BY <2>3 DEF ActualPts
  <2>8. \A i \in StoredIds(c) : ActualPts(d, i) = ActualPts(c, i)
    BY <2>4, <2>5, ExtendsKeeps DEF CacheOK
  <2>9. /\ DOMAIN d.ptsToId = DOMAIN c.ptsToId \cup {s}
        /\ d.ptsToId[s] = n
        /\ \A t \in DOMAIN c.ptsToId : d.ptsToId[t] = c.ptsToId[t]
    BY <1>2, <2>2 DEF Put
  <2>10. Interned(d)
    <3>1. DOMAIN d.ptsToId = {d.idToPts[k] : k \in 1 .. Len(d.idToPts)}
      <4>1. 1 .. n + 1 = (1 .. n) \cup {n + 1}
        BY <2>1
      <4>2. QED
        BY <2>3, <2>9, <4>1 DEF CacheOK, Interned
    <3>2. \A t \in DOMAIN d.ptsToId :
             d.ptsToId[t] \in StoredIds(d) /\ ActualPts(d, d.ptsToId[t]) = t
      BY <2>6, <2>7, <2>8, <2>9 DEF CacheOK, Interned
    <3>3. \A i \in StoredIds(d) : d.ptsToId[ActualPts(d, i)] = i
      <4>1. \A i \in StoredIds(c) : ActualPts(c, i) \in DOMAIN c.ptsToId
        BY <2>1 DEF CacheOK, Interned, StoredIds, ActualPts, Ids
      <4>2. QED
        BY <2>6, <2>7, <2>8, <2>9, <4>1 DEF CacheOK, Interned
    <3>4. QED
      BY <3>1, <3>2, <3>3 DEF Interned
  <2>11. OpCacheSound(d)
    BY <2>2, <2>6, <2>8 DEF CacheOK, OpCacheSound, EntriesSound, EntrySound
  <2>12. QED
    BY <2>2, <2>4, <2>5, <2>6, <2>7, <2>10, <2>11 DEF CacheOK, d
<1>3. QED
  BY <1>1, <1>2

-----------------------------------------------------------------------------
\* Id 0 is stored from the start and stands for the empty set.
LEMMA EmptyIsStored ==
    ASSUME NEW c, CacheOK(c)
    PROVE  EmptyId \in StoredIds(c) /\ ActualPts(c, EmptyId) = {}
  BY MaxIdAssumption DEF CacheOK, CacheShape, StoredIds, ActualPts, Ids, EmptyId

LEMMA StoredPts ==
    ASSUME NEW c, CacheOK(c), NEW i \in StoredIds(c)
    PROVE  ActualPts(c, i) \in PointsToSets
  BY MaxIdAssumption DEF CacheOK, CacheShape, StoredIds, ActualPts, Ids

LEMMA PutSound ==
    ASSUME NEW c, NEW m, NEW k, NEW v, NEW cond \in BOOLEAN,
           EntriesSound(c, m), cond => EntrySound(c, k, v)
    PROVE  EntriesSound(c, PutIf(cond, m, k, v))
  BY DEF EntriesSound, Put, PutIf

\* Ordering the operands of a commutative operation loses nothing.
LEMMA KeySound ==
    ASSUME NEW c, NEW op \in Ops,
           NEW a \in StoredIds(c), NEW b \in StoredIds(c), NEW v \in StoredIds(c),
           ActualPts(c, v) = Apply(op, ActualPts(c, a), ActualPts(c, b))
    PROVE  EntrySound(c, OpKey(op, a, b), v)
<1>1. CASE OpKey(op, a, b) = <<op, a, b>>
  BY <1>1 DEF EntrySound
<1>2. CASE OpKey(op, a, b) = <<op, b, a>> /\ op \in {"union", "intersect"}
  <2>1. Apply(op, ActualPts(c, a), ActualPts(c, b)) =
          Apply(op, ActualPts(c, b), ActualPts(c, a))
    BY <1>2 DEF Apply
  <2>2. QED
    BY <1>2, <2>1 DEF EntrySound
<1>3. QED
  BY <1>1, <1>2 DEF OpKey, MinMax, Ops

\* The preemptive entries follow from the result just computed.
LEMMA LearnSound ==
    ASSUME NEW c, CacheOK(c), NEW m, EntriesSound(c, m), NEW op \in Ops,
           NEW lhs \in StoredIds(c), NEW rhs \in StoredIds(c),
           NEW res \in StoredIds(c),
           ActualPts(c, res) = Apply(op, ActualPts(c, lhs), ActualPts(c, rhs))
    PROVE  EntriesSound(c, Learn(m, op, lhs, rhs, res))
<1> DEFINE L == ActualPts(c, lhs)
           R == ActualPts(c, rhs)
           Z == ActualPts(c, res)
<1>0. EmptyId \in StoredIds(c) /\ ActualPts(c, EmptyId) = {}
  BY EmptyIsStored
<1>1. CASE op = "union"
  <2>1. Z = Apply("union", L, Z) /\ Z = Apply("union", R, Z)
    BY <1>1 DEF Apply
  <2>2. /\ EntrySound(c, OpKey("union", lhs, res), res)
        /\ EntrySound(c, OpKey("union", rhs, res), res)
    BY <2>1, KeySound DEF Ops
  <2>3. EntriesSound(c, AfterUnion(m, lhs, rhs, res))
    BY <2>2, PutSound DEF AfterUnion
  <2>4. QED
    BY <1>1, <2>3 DEF Learn
<1>2. CASE op = "complement"
  <2>1. /\ {} = Apply("intersect", Z, R)
        /\ Z = Apply("intersect", Z, L)
        /\ Z = Apply("complement", Z, R)
    BY <1>2 DEF Apply
  <2>2. /\ EntrySound(c, OpKey("intersect", res, rhs), EmptyId)
        /\ EntrySound(c, OpKey("intersect", res, lhs), res)
        /\ EntrySound(c, OpKey("complement", res, rhs), res)
    BY <1>0, <2>1, KeySound DEF Ops
  <2>3. EntriesSound(c, AfterComplement(m, lhs, rhs, res))
    <3> DEFINE m1 == Put(m,  OpKey("intersect", res, rhs), EmptyId)
               m2 == Put(m1, OpKey("intersect", res, lhs), res)
               m3 == Put(m2, OpKey("complement", res, rhs), res)
    <3>1. EntriesSound(c, m1)
      BY <2>2 DEF EntriesSound, Put
    <3>2. EntriesSound(c, m2)
      BY <2>2, <3>1 DEF EntriesSound, Put
    <3>3. EntriesSound(c, m3)
      BY <2>2, <3>2 DEF EntriesSound, Put
    <3>4. QED
      BY <3>3 DEF AfterComplement
  <2>4. QED
    BY <1>2, <2>3 DEF Learn
<1>3. CASE op = "intersect"
  <2>1. /\ Z = Apply("intersect", Z, R) /\ Z = Apply("intersect", Z, L)
        /\ L = Apply("union", L, Z) /\ R = Apply("union", R, Z)
    BY <1>3 DEF Apply
  <2>2. /\ EntrySound(c, OpKey("intersect", res, rhs), res)
        /\ EntrySound(c, OpKey("intersect", res, lhs), res)
        /\ EntrySound(c, OpKey("union", lhs, res), lhs)
        /\ EntrySound(c, OpKey("union", rhs, res), rhs)
    BY <2>1, KeySound DEF Ops
  <2>3. EntriesSound(c, AfterIntersect(m, lhs, rhs, res))
    BY <2>2, PutSound DEF AfterIntersect
  <2>4. QED
    BY <1>3, <2>3 DEF Learn
<1>4. QED
  BY <1>1, <1>2, <1>3 DEF Ops

-----------------------------------------------------------------------------
LEMMA ExtendsSound ==
    ASSUME NEW c, NEW d, CacheShape(c), CacheShape(d), Extends(d, c), NEW m,
           EntriesSound(c, m)
    PROVE  EntriesSound(d, m)
<1>1. \A i \in StoredIds(c) : i \in StoredIds(d) /\ ActualPts(d, i) = ActualPts(c, i)
  BY ExtendsKeeps
<1>2. QED
  BY <1>1 DEF EntriesSound, EntrySound

\* The operation caches are the only part of the object that Learn and Perform
\* write besides what emplacePts does.
LEMMA ReplaceOpCache ==
    ASSUME NEW c, CacheOK(c), NEW m, EntriesSound(c, m)
    PROVE  /\ CacheOK([c EXCEPT !.opCache = m])
           /\ StoredIds([c EXCEPT !.opCache = m]) = StoredIds(c)
           /\ \A i : ActualPts([c EXCEPT !.opCache = m], i) = ActualPts(c, i)
           /\ \A b : Extends(c, b) => Extends([c EXCEPT !.opCache = m], b)
<1> DEFINE d == [c EXCEPT !.opCache = m]
<1>1. d = [idToPts |-> c.idToPts, ptsToId |-> c.ptsToId, opCache |-> m,
           idCounter |-> c.idCounter]
  BY DEF CacheOK, CacheShape
<1> HIDE DEF d
<1>2. CacheShape(d)
  BY <1>1 DEF CacheOK, CacheShape
<1>3. StoredIds(d) = StoredIds(c) /\ \A i : ActualPts(d, i) = ActualPts(c, i)
  BY <1>1 DEF StoredIds, ActualPts
<1>4. Interned(d)
  BY <1>1, <1>3 DEF CacheOK, Interned
<1>5. OpCacheSound(d)
  BY <1>1, <1>3 DEF OpCacheSound, EntriesSound, EntrySound
<1>6. \A b : Extends(c, b) => Extends(d, b)
  BY <1>1 DEF Extends
<1>7. QED
  BY <1>2, <1>3, <1>4, <1>5, <1>6 DEF CacheOK, d

\* unionPts, complementPts and intersectPts answer with the id of the set the
\* operation gives, whether by a property case, a lookup or a computation.
LEMMA OpCorrect ==
    ASSUME NEW c, CacheOK(c), NEW op \in Ops,
           NEW lhs \in StoredIds(c), NEW rhs \in StoredIds(c),
           CanIntern(c, Apply(op, ActualPts(c, lhs), ActualPts(c, rhs)))
    PROVE  /\ CacheOK(OpPts(c, op, lhs, rhs).cache)
           /\ Extends(OpPts(c, op, lhs, rhs).cache, c)
           /\ OpPts(c, op, lhs, rhs).id \in StoredIds(OpPts(c, op, lhs, rhs).cache)
           /\ ActualPts(OpPts(c, op, lhs, rhs).cache, OpPts(c, op, lhs, rhs).id) =
                Apply(op, ActualPts(c, lhs), ActualPts(c, rhs))
<1> DEFINE r   == OpPts(c, op, lhs, rhs)
           set == Apply(op, ActualPts(c, lhs), ActualPts(c, rhs))
<1>0. Extends(c, c)
  BY DEF Extends, CacheOK, CacheShape
<1>1. CASE IsPropertyCase(lhs, rhs)
  <2>1. r.cache = c /\ r.id = PropertyResult(op, lhs, rhs)
    BY <1>1 DEF OpPts
  <2>2. lhs \in Nat /\ rhs \in Nat
    BY MaxIdAssumption DEF StoredIds, Ids
  <2>3. EmptyId \in StoredIds(c) /\ ActualPts(c, EmptyId) = {}
    BY EmptyIsStored
  <2>4. CASE op = "union"
    <3>1. r.id = MinMax(lhs, rhs)[2] /\ set = ActualPts(c, lhs) \cup ActualPts(c, rhs)
      BY <2>1, <2>4 DEF PropertyResult, Apply
    <3>2. r.id \in StoredIds(c) /\ ActualPts(c, r.id) = set
      BY <1>1, <2>2, <2>3, <3>1 DEF IsPropertyCase, MinMax, EmptyId
    <3>3. QED
      BY <1>0, <2>1, <3>2
  <2>5. CASE op = "complement"
    <3>1. /\ r.id = (IF lhs = rhs THEN EmptyId ELSE lhs)
          /\ set = ActualPts(c, lhs) \ ActualPts(c, rhs)
      BY <2>1, <2>5 DEF PropertyResult, Apply
    <3>2. r.id \in StoredIds(c) /\ ActualPts(c, r.id) = set
      BY <1>1, <2>3, <3>1 DEF IsPropertyCase
    <3>3. QED
      BY <1>0, <2>1, <3>2
  <2>6. CASE op = "intersect"
    <3>1. r.id = MinMax(lhs, rhs)[1] /\ set = ActualPts(c, lhs) \cap ActualPts(c, rhs)
      BY <2>1, <2>6 DEF PropertyResult, Apply
    <3>2. r.id \in StoredIds(c) /\ ActualPts(c, r.id) = set
      BY <1>1, <2>2, <2>3, <3>1 DEF IsPropertyCase, MinMax, EmptyId
    <3>3. QED
      BY <1>0, <2>1, <3>2
  <2>7. QED
    BY <2>4, <2>5, <2>6 DEF Ops
<1>2. CASE ~IsPropertyCase(lhs, rhs) /\ OpKey(op, lhs, rhs) \in DOMAIN c.opCache
  <2> DEFINE k == OpKey(op, lhs, rhs)
  <2>1. r.cache = c /\ r.id = c.opCache[k]
    BY <1>2 DEF OpPts
  <2>2. EntrySound(c, k, r.id)
    BY <1>2, <2>1 DEF CacheOK, OpCacheSound, EntriesSound
  <2>3. k = <<op, lhs, rhs>> \/ (op \in {"union", "intersect"} /\ k = <<op, rhs, lhs>>)
    BY DEF OpKey, MinMax, Ops
  <2>4. ActualPts(c, r.id) = Apply(k[1], ActualPts(c, k[2]), ActualPts(c, k[3]))
    BY <2>2 DEF EntrySound
  <2>5. ActualPts(c, r.id) = set
    <3>1. CASE k = <<op, lhs, rhs>>
      BY <2>4, <3>1
    <3>2. CASE op \in {"union", "intersect"} /\ k = <<op, rhs, lhs>>
      <4>1. ActualPts(c, r.id) = Apply(op, ActualPts(c, rhs), ActualPts(c, lhs))
        BY <2>4, <3>2
      <4>2. QED
        BY <3>2, <4>1 DEF Apply
    <3>3. QED
      BY <2>3, <3>1, <3>2
  <2>6. QED
    BY <1>0, <2>1, <2>2, <2>5 DEF EntrySound
<1>3. CASE ~IsPropertyCase(lhs, rhs) /\ OpKey(op, lhs, rhs) \notin DOMAIN c.opCache
  <2> DEFINE e  == EmplacePts(c, set)
             m1 == Put(e.cache.opCache, OpKey(op, lhs, rhs), e.id)
             d1 == [e.cache EXCEPT !.opCache = m1]
             m2 == Learn(d1.opCache, op, lhs, rhs, e.id)
             d2 == [d1 EXCEPT !.opCache = m2]
  <2>1. r = [cache |-> d2, id |-> e.id]
    BY <1>3 DEF OpPts, Perform
  <2>2. set \in PointsToSets
    BY StoredPts DEF Apply, Ops, PointsToSets
  <2>3. /\ CacheOK(e.cache) /\ Extends(e.cache, c)
        /\ e.id \in StoredIds(e.cache) /\ ActualPts(e.cache, e.id) = set
    BY <2>2, EmplaceCorrect
  <2>4. /\ lhs \in StoredIds(e.cache) /\ ActualPts(e.cache, lhs) = ActualPts(c, lhs)
        /\ rhs \in StoredIds(e.cache) /\ ActualPts(e.cache, rhs) = ActualPts(c, rhs)
    BY <2>3, ExtendsKeeps DEF CacheOK
  <2> HIDE DEF e
  <2>5. EntriesSound(e.cache, m1)
    <3>1. EntrySound(e.cache, OpKey(op, lhs, rhs), e.id)
      BY <2>3, <2>4, KeySound
    <3>2. QED
      BY <2>3, <3>1 DEF EntriesSound, Put, CacheOK, OpCacheSound
  <2> HIDE DEF m1
  <2>6. /\ CacheOK(d1) /\ Extends(d1, c) /\ StoredIds(d1) = StoredIds(e.cache)
        /\ \A i : ActualPts(d1, i) = ActualPts(e.cache, i)
    BY <2>3, <2>5, ReplaceOpCache
  <2> HIDE DEF d1
  <2>7. EntriesSound(d1, m2)
    <3>1. EntriesSound(d1, d1.opCache)
      BY <2>6 DEF CacheOK, OpCacheSound
    <3>2. QED
      BY <2>3, <2>4, <2>6, <3>1, LearnSound
  <2> HIDE DEF m2
  <2>8. /\ CacheOK(d2) /\ Extends(d2, c) /\ StoredIds(d2) = StoredIds(d1)
        /\ \A i : ActualPts(d2, i) = ActualPts(d1, i)
    BY <2>6, <2>7, ReplaceOpCache
  <2> HIDE DEF d2
  <2>9. QED
    BY <2>1, <2>3, <2>6, <2>8
<1>4. QED
  BY <1>1, <1>2, <1>3

\* remapAllPts rebuilds the interning map it found, because no two stored sets
\* are equal.
LEMMA RemapCorrect ==
    ASSUME NEW c, CacheOK(c)
    PROVE  CacheOK(RemapAllPts(c)) /\ Extends(RemapAllPts(c), c)
<1> DEFINE d == RemapAllPts(c)
           sets == {c.idToPts[n] : n \in 1 .. Len(c.idToPts)}
<1>1. d = [idToPts |-> c.idToPts, ptsToId |-> [s \in sets |-> LastId(c.idToPts, s)],
           opCache |-> c.opCache, idCounter |-> c.idCounter]
  <2> DEFINE map == [s \in sets |-> LastId(c.idToPts, s)]
  <2>1. d = [c EXCEPT !.ptsToId = map]
    BY DEF RemapAllPts
  <2> HIDE DEF d, map
  <2>2. c = [idToPts |-> c.idToPts, ptsToId |-> c.ptsToId,
             opCache |-> c.opCache, idCounter |-> c.idCounter]
    BY DEF CacheOK, CacheShape
  <2>3. d = [idToPts |-> c.idToPts, ptsToId |-> map,
             opCache |-> c.opCache, idCounter |-> c.idCounter]
    BY <2>1, <2>2
  <2>4. QED
    BY <2>3 DEF map
<1>2. StoredIds(c) = 0 .. Len(c.idToPts) - 1
  BY MaxIdAssumption DEF StoredIds, Ids, CacheOK, CacheShape
<1>3. \A s \in sets : LastId(c.idToPts, s) = c.ptsToId[s]
  <2> SUFFICES ASSUME NEW s \in sets PROVE LastId(c.idToPts, s) = c.ptsToId[s]
    OBVIOUS
  <2> DEFINE P(i) == /\ c.idToPts[i + 1] = s
                     /\ \A j \in 0 .. Len(c.idToPts) - 1 : c.idToPts[j + 1] = s => j <= i
  <2>1. c.ptsToId[s] \in StoredIds(c) /\ ActualPts(c, c.ptsToId[s]) = s
    BY DEF CacheOK, Interned
  <2>2. \A j \in 0 .. Len(c.idToPts) - 1 : c.idToPts[j + 1] = s => j = c.ptsToId[s]
    BY <1>2 DEF CacheOK, Interned, ActualPts
  <2>3. P(c.ptsToId[s])
    <3>1. c.ptsToId[s] \in Nat
      BY <2>1, MaxIdAssumption DEF StoredIds, Ids
    <3>2. QED
      BY <2>1, <2>2, <3>1 DEF ActualPts
  <2>4. LastId(c.idToPts, s) = CHOOSE i \in 0 .. Len(c.idToPts) - 1 : P(i)
    BY DEF LastId
  <2>5. P(LastId(c.idToPts, s)) /\ LastId(c.idToPts, s) \in 0 .. Len(c.idToPts) - 1
    BY <1>2, <2>1, <2>3, <2>4
  <2>6. QED
    BY <2>2, <2>5
<1> HIDE DEF d
<1>4. StoredIds(d) = StoredIds(c) /\ \A i : ActualPts(d, i) = ActualPts(c, i)
  BY <1>1 DEF StoredIds, ActualPts
<1>5. CacheShape(d)
  BY <1>1 DEF CacheOK, CacheShape
<1>6. Interned(d)
  <2>1. DOMAIN d.ptsToId = DOMAIN c.ptsToId /\ DOMAIN c.ptsToId = sets
    BY <1>1 DEF CacheOK, Interned
  <2>2. \A s \in sets : d.ptsToId[s] = c.ptsToId[s]
    BY <1>1, <1>3
  <2>3. \A i \in StoredIds(c) : ActualPts(c, i) \in sets
    BY <1>2 DEF ActualPts, CacheOK, CacheShape
  <2>4. d.idToPts = c.idToPts
    BY <1>1
  <2>5. QED
    BY <1>4, <2>1, <2>2, <2>3, <2>4 DEF CacheOK, Interned
<1>7. OpCacheSound(d)
  BY <1>1, <1>4 DEF CacheOK, OpCacheSound, EntriesSound, EntrySound
<1>8. Extends(d, c)
  BY <1>1 DEF Extends, CacheOK, CacheShape
<1>9. QED
  BY <1>5, <1>6, <1>7, <1>8 DEF CacheOK, d

-----------------------------------------------------------------------------
(***************************************************************************)
(* The store keeps its promises under any sequence of calls, for every set *)
(* of objects and every width of PointsToID.  The inductive invariant is   *)
(* CacheOK: the interning map is what makes a computed result's id right,  *)
(* and the soundness of the operation caches is what makes a looked-up     *)
(* result and the entries deduced from it right.                           *)
(***************************************************************************)

LEMMA StoreInitOK == StoreInit => CacheOK(store)
  BY NewCacheOK DEF StoreInit

\* Every call leaves the store in order; only reset takes ids back.
LEMMA StoreNextOK ==
    ASSUME CacheOK(store), StoreNext
    PROVE  CacheOK(store') /\ (ResetStore \/ Extends(store', store))
<1>1. ASSUME NEW s \in PointsToSets, Emplace(s)
      PROVE  CacheOK(store') /\ Extends(store', store)
  BY <1>1, EmplaceCorrect DEF Emplace
<1>2. CASE RemapStore
  BY <1>2, RemapCorrect DEF RemapStore
<1>3. CASE ResetStore
  BY <1>3, NewCacheOK DEF ResetStore
<1>4. ASSUME NEW op \in Ops, NEW lhs \in StoredIds(store), NEW rhs \in StoredIds(store),
             Operate(op, lhs, rhs)
      PROVE  CacheOK(store') /\ Extends(store', store)
  BY <1>4, OpCorrect DEF Operate, CanOperate
<1>5. QED
  BY <1>1, <1>2, <1>3, <1>4 DEF StoreNext

StoreInv == CacheOK(store)

LEMMA StoreInvAlways == StoreSpec => []StoreInv
<1>1. StoreInit => StoreInv
  BY StoreInitOK DEF StoreInv
<1>2. StoreInv /\ [StoreNext]_store => StoreInv'
  BY StoreNextOK DEF StoreInv
<1>3. QED
  BY <1>1, <1>2, PTL DEF StoreSpec

\* Ids and sets are in one-to-one correspondence in every reachable state
\* (ptsToId and idToPts of PersistentPointsToCache.h).
THEOREM IdsAreSetsAlways == StoreSpec => []IdsAreSets
<1>1. StoreInv => IdsAreSets
  BY DEF StoreInv, CacheOK, IdsAreSets
<1>2. QED
  BY <1>1, StoreInvAlways, PTL

\* Every entry of the operation caches is right, whichever operation entered it
\* (the preemptive entries of unionPts, complementPts and intersectPts).
THEOREM CachedResultsSoundAlways == StoreSpec => []CachedResultsSound
<1>1. StoreInv => CachedResultsSound
  BY DEF StoreInv, CacheOK, CachedResultsSound
<1>2. QED
  BY <1>1, StoreInvAlways, PTL

\* In every reachable store unionPts, complementPts and intersectPts answer correctly,
\* on every path.
THEOREM AnswersCorrectAlways == StoreSpec => []AnswersCorrect
<1>1. StoreInv => AnswersCorrect
  BY OpCorrect DEF StoreInv, AnswersCorrect, CanOperate
<1>2. QED
  BY <1>1, StoreInvAlways, PTL

\* Until the store is reset, the set an id stands for never changes.
THEOREM IdsAreStableAlways == StoreSpec => IdsAreStable
<1>1. StoreInv /\ [StoreNext]_store => [ResetStore \/ Extends(store', store)]_store
  BY StoreNextOK DEF StoreInv
<1>2. QED
  BY <1>1, StoreInvAlways, PTL DEF StoreSpec, IdsAreStable

-----------------------------------------------------------------------------
(***************************************************************************)
(* PersistentDiffPTData implements DiffPTData, for any number of           *)
(* keys, objects and ids.  The invariant is that every id in a map is      *)
(* valid in a sound store; each action then needs only what the store's    *)
(* lemmas say of the calls it makes: the id returned stands for the right  *)
(* set, and ids handed out before keep their meaning.                      *)
(***************************************************************************)

IndInv == TypeOK /\ RevPtsExact

IsMap(c, map) == map \in [Keys -> StoredIds(c)]

-----------------------------------------------------------------------------
\* Ids are equal exactly when their sets are.
LEMMA IdsAreSetsOf ==
    ASSUME NEW c, CacheOK(c), NEW i \in StoredIds(c), NEW j \in StoredIds(c)
    PROVE  i = j <=> ActualPts(c, i) = ActualPts(c, j)
BY DEF CacheOK, Interned

\* A store that has grown reads the maps as before.
LEMMA SetsKept ==
    ASSUME NEW c, NEW d, CacheOK(c), CacheOK(d), Extends(d, c), NEW map, IsMap(c, map)
    PROVE  IsMap(d, map) /\ Sets(d, map) = Sets(c, map)
<1>1. \A i \in StoredIds(c) : i \in StoredIds(d) /\ ActualPts(d, i) = ActualPts(c, i)
  BY ExtendsKeeps DEF CacheOK
<1> QED
  BY <1>1 DEF IsMap, Sets

With(f, k, v) == [f EXCEPT ![k] = v]

\* Writing an id into a map writes its set into the map of sets.
LEMMA SetsWith ==
    ASSUME NEW c, NEW map, IsMap(c, map), NEW k \in Keys, NEW i \in StoredIds(c)
    PROVE  /\ IsMap(c, With(map, k, i))
           /\ Sets(c, With(map, k, i)) = With(Sets(c, map), k, ActualPts(c, i))
BY DEF IsMap, Sets, With

LEMMA SetsAt ==
    ASSUME NEW c, NEW map, NEW k \in Keys
    PROVE  Sets(c, map)[k] = ActualPts(c, map[k])
BY DEF Sets

LEMMA ExtendsItself ==
    ASSUME NEW c
    PROVE  Extends(c, c)
BY DEF Extends

LEMMA ExtendsTwice ==
    ASSUME NEW b, NEW c, NEW d, CacheOK(b), CacheOK(c), CacheOK(d),
           Extends(c, b), Extends(d, c)
    PROVE  Extends(d, b)
<1>1. Len(b.idToPts) \in Nat /\ Len(c.idToPts) \in Nat /\ Len(d.idToPts) \in Nat
  BY MaxIdAssumption DEF CacheOK, CacheShape
<1> QED
  BY <1>1 DEF Extends

LEMMA NoIdsEmpty ==
    ASSUME NEW c, CacheOK(c)
    PROVE  IsMap(c, NoIds) /\ Sets(c, NoIds) = [k \in Keys |-> {}]
BY EmptyIsStored DEF IsMap, Sets, NoIds

-----------------------------------------------------------------------------
LEMMA InitOK == Init => IndInv /\ Abstract!Init
<1> SUFFICES ASSUME Init PROVE IndInv /\ Abstract!Init
  OBVIOUS
<1>1. CacheOK(cache)
  BY NewCacheOK DEF Init
<1>2. IsMap(cache, NoIds) /\ Sets(cache, NoIds) = [k \in Keys |-> {}]
  BY <1>1, NoIdsEmpty
<1>3. TypeOK
  BY <1>1, <1>2 DEF Init, TypeOK, IsMap
<1>4. RevPtsExact
  <2>1. \A k \in Keys : Pts(k) = {}
    BY <1>2 DEF Init, Pts, Sets
  <2> QED
    BY <2>1 DEF Init, RevPtsExact
<1>5. Abstract!Init
  BY <1>2 DEF Init, Abstract!Init, Abstract!NoPts, AbsPts, AbsDiff, AbsPropa
<1> QED
  BY <1>3, <1>4, <1>5 DEF IndInv

\* What a call on the store leaves of the maps it does not write.
LEMMA MapsKept ==
    ASSUME IndInv, NEW c, CacheOK(c), Extends(c, cache)
    PROVE  /\ IsMap(c, ptsMap) /\ Sets(c, ptsMap) = AbsPts
           /\ IsMap(c, diffPtsMap) /\ Sets(c, diffPtsMap) = AbsDiff
           /\ IsMap(c, propaPtsMap) /\ Sets(c, propaPtsMap) = AbsPropa
BY SetsKept DEF IndInv, TypeOK, IsMap, AbsPts, AbsDiff, AbsPropa

LEMMA UnionPtsFromIdOK ==
    ASSUME IndInv, NEW c, CacheOK(c), Extends(c, cache), NEW k \in Keys,
           NEW i \in StoredIds(c), UnionPtsFromId(c, k, i)
    PROVE  IndInv' /\ Abstract!UnionSet(k, ActualPts(c, i))
<1> DEFINE new == OpPts(c, "union", ptsMap[k], i)
           s   == ActualPts(c, i)
<1>1. /\ CanIntern(c, Apply("union", ActualPts(c, ptsMap[k]), ActualPts(c, i)))
      /\ cache' = new.cache
      /\ ptsMap' = With(ptsMap, k, new.id)
      /\ result' = (new.id # ptsMap[k])
      /\ revPtsMap' = IF new.id # ptsMap[k]
                        THEN [o \in Objects |-> IF o \in ActualPts(new.cache, i)
                                                THEN revPtsMap[o] \cup {k} ELSE revPtsMap[o]]
                        ELSE revPtsMap
      /\ diffPtsMap' = diffPtsMap /\ propaPtsMap' = propaPtsMap
  BY DEF UnionPtsFromId, CanOp, With
<1>2. IsMap(c, ptsMap) /\ ActualPts(c, ptsMap[k]) = AbsPts[k] /\ ptsMap[k] \in StoredIds(c)
  BY MapsKept, SetsAt DEF IsMap
<1>3. /\ CacheOK(cache') /\ Extends(cache', c)
      /\ new.id \in StoredIds(cache')
      /\ ActualPts(cache', new.id) = AbsPts[k] \cup s
  BY <1>1, <1>2, OpCorrect DEF Ops, Apply
<1>4. CacheOK(cache)
  BY DEF IndInv, TypeOK
<1>5. Extends(cache', cache)
  BY <1>3, <1>4, ExtendsTwice
<1>6. /\ IsMap(cache', ptsMap) /\ Sets(cache', ptsMap) = AbsPts
      /\ IsMap(cache', diffPtsMap) /\ Sets(cache', diffPtsMap) = AbsDiff
      /\ IsMap(cache', propaPtsMap) /\ Sets(cache', propaPtsMap) = AbsPropa
  BY <1>3, <1>5, MapsKept
<1> HIDE DEF new, s
<1>7. IsMap(cache', ptsMap') /\ Sets(cache', ptsMap') = With(AbsPts, k, AbsPts[k] \cup s)
  <2>1. \A j \in StoredIds(cache') :
          /\ IsMap(cache', With(ptsMap, k, j))
          /\ Sets(cache', With(ptsMap, k, j)) = With(Sets(cache', ptsMap), k, ActualPts(cache', j))
    BY <1>6, SetsWith
  <2> QED
    BY <1>1, <1>3, <1>6, <2>1
<1>8. new.id = ptsMap[k] <=> s \subseteq AbsPts[k]
  <2>1. ptsMap[k] \in StoredIds(cache') /\ ActualPts(cache', ptsMap[k]) = AbsPts[k]
    BY <1>6, SetsAt DEF IsMap
  <2>2. new.id = ptsMap[k] <=> ActualPts(cache', new.id) = ActualPts(cache', ptsMap[k])
    BY <1>3, <2>1, IdsAreSetsOf
  <2> QED
    BY <1>3, <2>1, <2>2
<1>9. ActualPts(new.cache, i) = s
  BY <1>1, <1>3, ExtendsKeeps DEF CacheOK, s
<1>10. AbsPts' = With(AbsPts, k, AbsPts[k] \cup s) /\ AbsDiff' = AbsDiff
       /\ AbsPropa' = AbsPropa
  BY <1>1, <1>6, <1>7 DEF AbsPts, AbsDiff, AbsPropa
<1>11. TypeOK'
  <2>1. revPtsMap' \in [Objects -> SUBSET Keys]
    BY <1>1 DEF IndInv, TypeOK
  <2>2. result' \in BOOLEAN
    BY <1>1
  <2> QED
    BY <1>1, <1>3, <1>6, <1>7, <2>1, <2>2 DEF TypeOK, IsMap
<1>12. RevPtsExact'
  <2>1. \A j \in Keys : Pts(j) = AbsPts[j] /\ Pts(j)' = AbsPts'[j]
    BY SetsAt DEF Pts, AbsPts, Sets
  <2>2. \A j \in Keys : Pts(j)' = IF j = k THEN Pts(k) \cup s ELSE Pts(j)
    BY <1>10, <2>1 DEF AbsPts, Sets, With
  <2>3. \A o \in Objects : revPtsMap[o] = {j \in Keys : o \in Pts(j)}
    BY DEF IndInv, RevPtsExact
  <2>4. CASE new.id # ptsMap[k]
    <3>1. revPtsMap' = [o \in Objects |-> IF o \in s THEN revPtsMap[o] \cup {k}
                                                     ELSE revPtsMap[o]]
      BY <1>1, <1>9, <2>4
    <3> QED
      BY <2>2, <2>3, <3>1 DEF RevPtsExact
  <2>5. CASE new.id = ptsMap[k]
    <3>1. revPtsMap' = revPtsMap /\ s \subseteq Pts(k)
      BY <1>1, <1>8, <2>1, <2>5
    <3> QED
      BY <2>2, <2>3, <3>1 DEF RevPtsExact
  <2> QED
    BY <2>4, <2>5
<1>13. Abstract!UnionSet(k, s)
  BY <1>1, <1>8, <1>10 DEF With, s, Abstract!UnionSet, Abstract!SetPts
<1> QED
  BY <1>11, <1>12, <1>13 DEF IndInv, s

LEMMA UnionSetOK ==
    ASSUME IndInv, NEW k \in Keys, NEW s \in PointsToSets, UnionSet(k, s)
    PROVE  IndInv' /\ Abstract!UnionSet(k, s)
<1> DEFINE e == EmplacePts(cache, s)
<1>1. /\ CacheOK(e.cache) /\ Extends(e.cache, cache)
      /\ e.id \in StoredIds(e.cache) /\ ActualPts(e.cache, e.id) = s
  BY EmplaceCorrect DEF UnionSet, IndInv, TypeOK
<1>2. UnionPtsFromId(e.cache, k, e.id)
  BY DEF UnionSet
<1> HIDE DEF e
<1>3. IndInv' /\ Abstract!UnionSet(k, ActualPts(e.cache, e.id))
  BY <1>1, <1>2, UnionPtsFromIdOK
<1> QED
  BY <1>1, <1>3

LEMMA UnionPtsOK ==
    ASSUME IndInv, NEW k \in Keys, NEW j \in Keys, UnionPts(k, j)
    PROVE  IndInv' /\ Abstract!UnionPts(k, j)
<1>1. CacheOK(cache) /\ Extends(cache, cache) /\ ptsMap[j] \in StoredIds(cache)
  BY ExtendsItself DEF IndInv, TypeOK
<1>2. IndInv' /\ Abstract!UnionSet(k, ActualPts(cache, ptsMap[j]))
  BY <1>1, UnionPtsFromIdOK DEF UnionPts
<1>3. ActualPts(cache, ptsMap[j]) = AbsPts[j]
  BY SetsAt DEF AbsPts
<1> QED
  BY <1>2, <1>3 DEF Abstract!UnionPts

LEMMA ClearPtsOK ==
    ASSUME IndInv, NEW k \in Keys, NEW o \in Objects, ClearPts(k, o)
    PROVE  IndInv' /\ Abstract!ClearPts(k, o)
<1> DEFINE remove == EmplacePts(cache, {o})
           rest   == OpPts(remove.cache, "complement", ptsMap[k], remove.id)
<1>1. /\ CanIntern(cache, {o})
      /\ CanIntern(remove.cache, Apply("complement", ActualPts(remove.cache, ptsMap[k]),
                                       ActualPts(remove.cache, remove.id)))
      /\ cache' = rest.cache
      /\ ptsMap' = With(ptsMap, k, rest.id)
      /\ revPtsMap' = IF rest.id # ptsMap[k]
                         THEN [revPtsMap EXCEPT ![o] = @ \ {k}] ELSE revPtsMap
      /\ result' = FALSE /\ diffPtsMap' = diffPtsMap /\ propaPtsMap' = propaPtsMap
  BY DEF ClearPts, CanOp, With
<1>2. CacheOK(cache) /\ {o} \in PointsToSets
  BY DEF IndInv, TypeOK, PointsToSets
<1>3. /\ CacheOK(remove.cache) /\ Extends(remove.cache, cache)
      /\ remove.id \in StoredIds(remove.cache)
      /\ ActualPts(remove.cache, remove.id) = {o}
  BY <1>1, <1>2, EmplaceCorrect
<1> HIDE DEF remove
<1>4. /\ IsMap(remove.cache, ptsMap) /\ ActualPts(remove.cache, ptsMap[k]) = AbsPts[k]
      /\ ptsMap[k] \in StoredIds(remove.cache)
  BY <1>3, MapsKept, SetsAt DEF IsMap
<1>5. /\ CacheOK(cache') /\ Extends(cache', remove.cache)
      /\ rest.id \in StoredIds(cache')
      /\ ActualPts(cache', rest.id) = AbsPts[k] \ {o}
  BY <1>1, <1>3, <1>4, OpCorrect DEF Ops, Apply
<1> HIDE DEF rest
<1>6. Extends(cache', cache)
  BY <1>2, <1>3, <1>5, ExtendsTwice
<1>7. /\ IsMap(cache', ptsMap) /\ Sets(cache', ptsMap) = AbsPts
      /\ IsMap(cache', diffPtsMap) /\ Sets(cache', diffPtsMap) = AbsDiff
      /\ IsMap(cache', propaPtsMap) /\ Sets(cache', propaPtsMap) = AbsPropa
  BY <1>5, <1>6, MapsKept
<1>8. IsMap(cache', ptsMap') /\ Sets(cache', ptsMap') = With(AbsPts, k, AbsPts[k] \ {o})
  <2>1. \A j \in StoredIds(cache') :
          /\ IsMap(cache', With(ptsMap, k, j))
          /\ Sets(cache', With(ptsMap, k, j)) = With(Sets(cache', ptsMap), k, ActualPts(cache', j))
    BY <1>7, SetsWith
  <2> QED
    BY <1>1, <1>5, <1>7, <2>1
<1>9. rest.id = ptsMap[k] <=> o \notin AbsPts[k]
  <2>1. ptsMap[k] \in StoredIds(cache') /\ ActualPts(cache', ptsMap[k]) = AbsPts[k]
    BY <1>7, SetsAt DEF IsMap
  <2>2. rest.id = ptsMap[k] <=> ActualPts(cache', rest.id) = ActualPts(cache', ptsMap[k])
    BY <1>5, <2>1, IdsAreSetsOf
  <2> QED
    BY <1>5, <2>1, <2>2
<1>10. /\ AbsPts' = With(AbsPts, k, AbsPts[k] \ {o})
       /\ AbsDiff' = AbsDiff /\ AbsPropa' = AbsPropa
  BY <1>1, <1>7, <1>8 DEF AbsPts, AbsDiff, AbsPropa
<1>11. TypeOK'
  <2>1. revPtsMap' \in [Objects -> SUBSET Keys] /\ result' \in BOOLEAN
    BY <1>1 DEF IndInv, TypeOK
  <2> QED
    BY <1>1, <1>5, <1>7, <1>8, <2>1 DEF TypeOK, IsMap
<1>12. RevPtsExact'
  <2>1. \A j \in Keys : Pts(j) = AbsPts[j] /\ Pts(j)' = AbsPts'[j]
    BY SetsAt DEF Pts, AbsPts, Sets
  <2>2. \A j \in Keys : Pts(j)' = IF j = k THEN Pts(k) \ {o} ELSE Pts(j)
    BY <1>10, <2>1 DEF AbsPts, Sets, With
  <2>3. revPtsMap \in [Objects -> SUBSET Keys]
        /\ \A x \in Objects : revPtsMap[x] = {j \in Keys : x \in Pts(j)}
    BY DEF IndInv, RevPtsExact, TypeOK
  <2>4. CASE rest.id # ptsMap[k]
    BY <1>1, <2>2, <2>3, <2>4 DEF RevPtsExact
  <2>5. CASE rest.id = ptsMap[k]
    BY <1>1, <1>9, <2>1, <2>2, <2>3, <2>5 DEF RevPtsExact
  <2> QED
    BY <2>4, <2>5
<1>13. Abstract!ClearPts(k, o)
  BY <1>1, <1>10 DEF With, Abstract!ClearPts, Abstract!SetPts
<1> QED
  BY <1>11, <1>12, <1>13 DEF IndInv

LEMMA ClearFullPtsOK ==
    ASSUME IndInv, NEW k \in Keys, ClearFullPts(k)
    PROVE  IndInv' /\ Abstract!ClearFullPts(k)
<1>1. /\ ptsMap' = With(ptsMap, k, EmptyId)
      /\ revPtsMap' = [o \in Objects |-> IF o \in Pts(k) THEN revPtsMap[o] \ {k}
                                                         ELSE revPtsMap[o]]
      /\ result' = FALSE
      /\ cache' = cache /\ diffPtsMap' = diffPtsMap /\ propaPtsMap' = propaPtsMap
  BY DEF ClearFullPts, With
<1>2. /\ CacheOK(cache) /\ IsMap(cache, ptsMap)
      /\ EmptyId \in StoredIds(cache) /\ ActualPts(cache, EmptyId) = {}
  BY EmptyIsStored DEF IndInv, TypeOK, IsMap
<1>3. IsMap(cache, ptsMap') /\ Sets(cache, ptsMap') = With(AbsPts, k, {})
  BY <1>1, <1>2, SetsWith DEF AbsPts
<1>4. AbsPts' = With(AbsPts, k, {}) /\ AbsDiff' = AbsDiff /\ AbsPropa' = AbsPropa
  BY <1>1, <1>3 DEF AbsPts, AbsDiff, AbsPropa
<1>5. TypeOK'
  <2>1. revPtsMap' \in [Objects -> SUBSET Keys] /\ result' \in BOOLEAN
    BY <1>1 DEF IndInv, TypeOK
  <2> QED
    BY <1>1, <1>3, <2>1 DEF IndInv, TypeOK, IsMap
<1>6. RevPtsExact'
  <2>1. \A j \in Keys : Pts(j)' = IF j = k THEN {} ELSE Pts(j)
    BY <1>4, SetsAt DEF Pts, AbsPts, Sets, With
  <2> QED
    BY <1>1, <2>1 DEF IndInv, RevPtsExact
<1>7. Abstract!ClearFullPts(k)
  BY <1>1, <1>4 DEF With, Abstract!ClearFullPts, Abstract!SetPts
<1> QED
  BY <1>5, <1>6, <1>7 DEF IndInv

\* The reverse map stays exact while the points-to sets are left alone.
LEMMA RevPtsKept ==
    ASSUME IndInv, AbsPts' = AbsPts, revPtsMap' = revPtsMap
    PROVE  RevPtsExact'
<1>1. \A k \in Keys : Pts(k) = AbsPts[k] /\ Pts(k)' = AbsPts'[k]
  BY SetsAt DEF Pts, AbsPts, Sets
<1> QED
  BY <1>1 DEF IndInv, RevPtsExact

LEMMA ComputeDiffPtsOK ==
    ASSUME IndInv, NEW k \in Keys, ComputeDiffPts(k)
    PROVE  IndInv' /\ Abstract!ComputeDiffPts(k)
<1> DEFINE all == EmplacePts(cache, Pts(k))
           new == OpPts(all.cache, "complement", all.id, propaPtsMap[k])
<1>1. /\ CanIntern(cache, Pts(k))
      /\ CanIntern(all.cache, Apply("complement", ActualPts(all.cache, all.id),
                                    ActualPts(all.cache, propaPtsMap[k])))
      /\ cache' = new.cache
      /\ diffPtsMap' = With(diffPtsMap, k, new.id)
      /\ propaPtsMap' = With(propaPtsMap, k, all.id)
      /\ result' = (new.id # EmptyId)
      /\ ptsMap' = ptsMap /\ revPtsMap' = revPtsMap
  BY DEF ComputeDiffPts, CanOp, With
<1>2. CacheOK(cache) /\ Pts(k) \in PointsToSets /\ Pts(k) = AbsPts[k]
  BY StoredPts, SetsAt DEF IndInv, TypeOK, Pts, AbsPts
<1>3. /\ CacheOK(all.cache) /\ Extends(all.cache, cache)
      /\ all.id \in StoredIds(all.cache)
      /\ ActualPts(all.cache, all.id) = AbsPts[k]
  BY <1>1, <1>2, EmplaceCorrect
<1> HIDE DEF all
<1>4. /\ propaPtsMap[k] \in StoredIds(all.cache)
      /\ ActualPts(all.cache, propaPtsMap[k]) = AbsPropa[k]
  BY <1>3, MapsKept, SetsAt DEF IsMap
<1>5. /\ CacheOK(cache') /\ Extends(cache', all.cache)
      /\ new.id \in StoredIds(cache')
      /\ ActualPts(cache', new.id) = AbsPts[k] \ AbsPropa[k]
  BY <1>1, <1>3, <1>4, OpCorrect DEF Ops, Apply
<1> HIDE DEF new
<1>6. Extends(cache', cache)
  BY <1>2, <1>3, <1>5, ExtendsTwice
<1>7. all.id \in StoredIds(cache') /\ ActualPts(cache', all.id) = AbsPts[k]
  BY <1>3, <1>5, ExtendsKeeps DEF CacheOK
<1>8. /\ IsMap(cache', ptsMap) /\ Sets(cache', ptsMap) = AbsPts
      /\ IsMap(cache', diffPtsMap) /\ Sets(cache', diffPtsMap) = AbsDiff
      /\ IsMap(cache', propaPtsMap) /\ Sets(cache', propaPtsMap) = AbsPropa
  BY <1>5, <1>6, MapsKept
<1>9. \A j \in StoredIds(cache') :
        /\ IsMap(cache', With(diffPtsMap, k, j)) /\ IsMap(cache', With(propaPtsMap, k, j))
        /\ Sets(cache', With(diffPtsMap, k, j))
             = With(Sets(cache', diffPtsMap), k, ActualPts(cache', j))
        /\ Sets(cache', With(propaPtsMap, k, j))
             = With(Sets(cache', propaPtsMap), k, ActualPts(cache', j))
  BY <1>8, SetsWith
<1>10. /\ IsMap(cache', diffPtsMap') /\ IsMap(cache', propaPtsMap')
       /\ AbsPts' = AbsPts
       /\ AbsDiff' = With(AbsDiff, k, AbsPts[k] \ AbsPropa[k])
       /\ AbsPropa' = With(AbsPropa, k, AbsPts[k])
  BY <1>1, <1>5, <1>7, <1>8, <1>9 DEF AbsPts, AbsDiff, AbsPropa
<1>11. new.id # EmptyId <=> AbsPts[k] \ AbsPropa[k] # {}
  <2>1. EmptyId \in StoredIds(cache') /\ ActualPts(cache', EmptyId) = {}
    BY <1>5, EmptyIsStored
  <2>2. new.id = EmptyId <=> ActualPts(cache', new.id) = ActualPts(cache', EmptyId)
    BY <1>5, <2>1, IdsAreSetsOf
  <2> QED
    BY <1>5, <2>1, <2>2
<1>12. TypeOK'
  BY <1>1, <1>5, <1>8, <1>10 DEF IndInv, TypeOK, IsMap
<1>13. RevPtsExact'
  BY <1>1, <1>10, RevPtsKept
<1>14. Abstract!ComputeDiffPts(k)
  BY <1>1, <1>10, <1>11 DEF With, Abstract!ComputeDiffPts
<1> QED
  BY <1>12, <1>13, <1>14 DEF IndInv

LEMMA UpdatePropaPtsMapOK ==
    ASSUME IndInv, NEW src \in Keys, NEW dst \in Keys, UpdatePropaPtsMap(src, dst)
    PROVE  IndInv' /\ Abstract!UpdatePropaPtsMap(src, dst)
<1> DEFINE both == OpPts(cache, "intersect", propaPtsMap[dst], propaPtsMap[src])
<1>1. /\ CanIntern(cache, Apply("intersect", ActualPts(cache, propaPtsMap[dst]),
                                ActualPts(cache, propaPtsMap[src])))
      /\ cache' = both.cache
      /\ propaPtsMap' = With(propaPtsMap, dst, both.id)
      /\ result' = FALSE
      /\ ptsMap' = ptsMap /\ revPtsMap' = revPtsMap /\ diffPtsMap' = diffPtsMap
  BY DEF UpdatePropaPtsMap, CanOp, With
<1>2. /\ CacheOK(cache)
      /\ propaPtsMap[dst] \in StoredIds(cache) /\ propaPtsMap[src] \in StoredIds(cache)
      /\ ActualPts(cache, propaPtsMap[dst]) = AbsPropa[dst]
      /\ ActualPts(cache, propaPtsMap[src]) = AbsPropa[src]
  BY SetsAt DEF IndInv, TypeOK, AbsPropa
<1>3. /\ CacheOK(cache') /\ Extends(cache', cache)
      /\ both.id \in StoredIds(cache')
      /\ ActualPts(cache', both.id) = AbsPropa[dst] \cap AbsPropa[src]
  BY <1>1, <1>2, OpCorrect DEF Ops, Apply
<1> HIDE DEF both
<1>4. /\ IsMap(cache', ptsMap) /\ Sets(cache', ptsMap) = AbsPts
      /\ IsMap(cache', diffPtsMap) /\ Sets(cache', diffPtsMap) = AbsDiff
      /\ IsMap(cache', propaPtsMap) /\ Sets(cache', propaPtsMap) = AbsPropa
  BY <1>3, MapsKept
<1>5. \A j \in StoredIds(cache') :
        /\ IsMap(cache', With(propaPtsMap, dst, j))
        /\ Sets(cache', With(propaPtsMap, dst, j))
             = With(Sets(cache', propaPtsMap), dst, ActualPts(cache', j))
  BY <1>4, SetsWith
<1>6. /\ IsMap(cache', propaPtsMap')
      /\ AbsPts' = AbsPts /\ AbsDiff' = AbsDiff
      /\ AbsPropa' = With(AbsPropa, dst, AbsPropa[dst] \cap AbsPropa[src])
  BY <1>1, <1>3, <1>4, <1>5 DEF AbsPts, AbsDiff, AbsPropa
<1>7. TypeOK'
  BY <1>1, <1>3, <1>4, <1>6 DEF IndInv, TypeOK, IsMap
<1>8. RevPtsExact'
  BY <1>1, <1>6, RevPtsKept
<1>9. Abstract!UpdatePropaPtsMap(src, dst)
  BY <1>1, <1>6 DEF With, Abstract!UpdatePropaPtsMap
<1> QED
  BY <1>7, <1>8, <1>9 DEF IndInv

LEMMA ClearPropaPtsOK ==
    ASSUME IndInv, NEW k \in Keys, ClearPropaPts(k)
    PROVE  IndInv' /\ Abstract!ClearPropaPts(k)
<1>1. /\ propaPtsMap' = With(propaPtsMap, k, EmptyId)
      /\ result' = FALSE
      /\ cache' = cache /\ ptsMap' = ptsMap /\ revPtsMap' = revPtsMap
      /\ diffPtsMap' = diffPtsMap
  BY DEF ClearPropaPts, With
<1>2. /\ CacheOK(cache) /\ IsMap(cache, propaPtsMap)
      /\ EmptyId \in StoredIds(cache) /\ ActualPts(cache, EmptyId) = {}
  BY EmptyIsStored DEF IndInv, TypeOK, IsMap
<1>3. IsMap(cache, propaPtsMap') /\ Sets(cache, propaPtsMap') = With(AbsPropa, k, {})
  BY <1>1, <1>2, SetsWith DEF AbsPropa
<1>4. AbsPts' = AbsPts /\ AbsDiff' = AbsDiff /\ AbsPropa' = With(AbsPropa, k, {})
  BY <1>1, <1>3 DEF AbsPts, AbsDiff, AbsPropa
<1>5. TypeOK'
  BY <1>1, <1>3 DEF IndInv, TypeOK, IsMap
<1>6. RevPtsExact'
  BY <1>1, <1>4, RevPtsKept
<1>7. Abstract!ClearPropaPts(k)
  BY <1>1, <1>4 DEF With, Abstract!ClearPropaPts
<1> QED
  BY <1>5, <1>6, <1>7 DEF IndInv

LEMMA RemapOK ==
    ASSUME IndInv, Remap
    PROVE  IndInv' /\ Abstract!RemapAllPts
<1>1. /\ cache' = RemapAllPts(cache) /\ result' = FALSE
      /\ ptsMap' = ptsMap /\ revPtsMap' = revPtsMap
      /\ diffPtsMap' = diffPtsMap /\ propaPtsMap' = propaPtsMap
  BY DEF Remap
<1>2. CacheOK(cache') /\ Extends(cache', cache)
  BY <1>1, RemapCorrect DEF IndInv, TypeOK
<1>3. /\ IsMap(cache', ptsMap) /\ Sets(cache', ptsMap) = AbsPts
      /\ IsMap(cache', diffPtsMap) /\ Sets(cache', diffPtsMap) = AbsDiff
      /\ IsMap(cache', propaPtsMap) /\ Sets(cache', propaPtsMap) = AbsPropa
  BY <1>2, MapsKept
<1>4. AbsPts' = AbsPts /\ AbsDiff' = AbsDiff /\ AbsPropa' = AbsPropa
  BY <1>1, <1>3 DEF AbsPts, AbsDiff, AbsPropa
<1>5. TypeOK'
  BY <1>1, <1>2, <1>3 DEF IndInv, TypeOK, IsMap
<1>6. RevPtsExact'
  BY <1>1, <1>4, RevPtsKept
<1> QED
  BY <1>1, <1>4, <1>5, <1>6 DEF IndInv, Abstract!RemapAllPts

LEMMA ClearOK ==
    ASSUME IndInv, Clear
    PROVE  IndInv' /\ Abstract!Clear
<1>1. /\ ptsMap' = NoIds /\ diffPtsMap' = NoIds /\ propaPtsMap' = NoIds
      /\ revPtsMap' = [o \in Objects |-> {}]
      /\ result' = FALSE /\ cache' = cache
  BY DEF Clear
<1>2. CacheOK(cache) /\ IsMap(cache, NoIds) /\ Sets(cache, NoIds) = [k \in Keys |-> {}]
  BY NoIdsEmpty DEF IndInv, TypeOK
<1>3. /\ AbsPts' = [k \in Keys |-> {}] /\ AbsDiff' = [k \in Keys |-> {}]
      /\ AbsPropa' = [k \in Keys |-> {}]
  BY <1>1, <1>2 DEF AbsPts, AbsDiff, AbsPropa
<1>4. TypeOK'
  BY <1>1, <1>2 DEF TypeOK, IsMap
<1>5. RevPtsExact'
  <2>1. \A k \in Keys : Pts(k)' = {}
    BY <1>3, SetsAt DEF Pts, AbsPts, Sets
  <2> QED
    BY <1>1, <2>1 DEF RevPtsExact
<1> QED
  BY <1>1, <1>3, <1>4, <1>5 DEF IndInv, Abstract!Clear, Abstract!NoPts

\* Every step is a step of the interface, or none of it.
LEMMA NextOK ==
    ASSUME IndInv, [Next]_vars
    PROVE  IndInv' /\ [Abstract!Next]_(Abstract!abstractVars)
<1>1. CASE \E k \in Keys, o \in Objects : AddPts(k, o)
  <2>1. PICK k \in Keys, o \in Objects : UnionSet(k, {o})
    BY <1>1 DEF AddPts
  <2>2. IndInv' /\ Abstract!UnionSet(k, {o})
    BY <2>1, UnionSetOK DEF PointsToSets
  <2> QED
    BY <2>2 DEF Abstract!Next, Abstract!AddPts
<1>2. CASE \E k \in Keys, o \in Objects : ClearPts(k, o)
  BY <1>2, ClearPtsOK DEF Abstract!Next
<1>3. CASE \E k \in Keys, s \in PointsToSets : UnionSet(k, s)
  BY <1>3, UnionSetOK DEF Abstract!Next, PointsToSets
<1>4. CASE \E k, j \in Keys : UnionPts(k, j)
  BY <1>4, UnionPtsOK DEF Abstract!Next
<1>5. CASE \E k, j \in Keys : UpdatePropaPtsMap(k, j)
  BY <1>5, UpdatePropaPtsMapOK DEF Abstract!Next
<1>6. CASE \E k \in Keys : ClearFullPts(k)
  BY <1>6, ClearFullPtsOK DEF Abstract!Next
<1>7. CASE \E k \in Keys : ComputeDiffPts(k)
  BY <1>7, ComputeDiffPtsOK DEF Abstract!Next
<1>8. CASE \E k \in Keys : ClearPropaPts(k)
  BY <1>8, ClearPropaPtsOK DEF Abstract!Next
<1>9. CASE Remap
  BY <1>9, RemapOK DEF Abstract!Next
<1>10. CASE Clear
  BY <1>10, ClearOK DEF Abstract!Next
<1>11. CASE UNCHANGED vars
  BY <1>11 DEF vars, IndInv, TypeOK, RevPtsExact, Pts, AbsPts, AbsDiff, AbsPropa,
               Abstract!abstractVars
<1> QED
  BY <1>1, <1>2, <1>3, <1>4, <1>5, <1>6, <1>7, <1>8, <1>9, <1>10, <1>11 DEF Next

-----------------------------------------------------------------------------
THEOREM IndInvAlways == Spec => []IndInv
<1>1. Init => IndInv
  BY InitOK
<1>2. IndInv /\ [Next]_vars => IndInv'
  BY NextOK
<1> QED
  BY <1>1, <1>2, PTL DEF Spec

\* No map ever holds an id the store has not handed out.
THEOREM TypeOKAlways == Spec => []TypeOK
<1>1. IndInv => TypeOK
  BY DEF IndInv
<1> QED
  BY <1>1, IndInvAlways, PTL

\* getRevPts returns all keys that point to an object, and no other.
THEOREM RevPtsExactAlways == Spec => []RevPtsExact
<1>1. IndInv => RevPtsExact
  BY DEF IndInv
<1> QED
  BY <1>1, IndInvAlways, PTL

\* The persistent table implements the interface over plain sets.
THEOREM Refinement == Spec => ImplementsDiffPTData
<1>1. Init => Abstract!Init
  BY InitOK
<1>2. IndInv /\ [Next]_vars => [Abstract!Next]_(Abstract!abstractVars)
  BY NextOK
<1> QED
  BY <1>1, <1>2, IndInvAlways, PTL DEF Spec, ImplementsDiffPTData, Abstract!Spec

-----------------------------------------------------------------------------
(***************************************************************************)
(* BackendsAgree.  The table of ids implements DiffPTData, the table of    *)
(* explicit sets takes DiffPTData's steps almost literally, and DiffPTData *)
(* is deterministic once the call is given.                                *)
(***************************************************************************)
TablesInv == IndInv /\ BackendsAgree

\* The reverse map of the explicit table is exact in the next state.
MRevExact == /\ mRev' = [o \in Objects |-> mRev'[o]]
             /\ \A o \in Objects : mRev'[o] = {k \in Keys : o \in mPts'[k]}

LEMMA RevAgrees ==
    ASSUME IndInv', mPts' = AbsPts', MRevExact
    PROVE  mRev' = revPtsMap'
<1>1. \A o \in Objects : revPtsMap'[o] = {k \in Keys : o \in AbsPts'[k]}
  BY DEF IndInv, RevPtsExact, Pts, AbsPts, Sets
<1>2. revPtsMap' = [o \in Objects |-> revPtsMap'[o]]
  BY DEF IndInv, TypeOK
<1> QED
  BY <1>1, <1>2 DEF MRevExact

\* What the explicit table holds while both agree.
LEMMA InPlaceShape ==
    ASSUME TablesInv
    PROVE  /\ mPts = AbsPts
           /\ \A k \in Keys : mPts[k] \in SUBSET Objects
           /\ mPts = [k \in Keys |-> mPts[k]]
           /\ mRev = [o \in Objects |-> mRev[o]]
           /\ \A o \in Objects : mRev[o] = {k \in Keys : o \in mPts[k]}
           /\ ~cleared => mDiff = AbsDiff /\ mPropa = AbsPropa /\ mResult = result
<1>1. CacheOK(cache) /\ \A k \in Keys : AbsPts[k] = Pts(k) /\ Pts(k) \in PointsToSets
  BY StoredPts, SetsAt DEF TablesInv, IndInv, TypeOK, Pts, AbsPts
<1>2. AbsPts = [k \in Keys |-> AbsPts[k]]
  BY DEF AbsPts, Sets
<1>3. \A o \in Objects : revPtsMap[o] = {k \in Keys : o \in AbsPts[k]}
  BY <1>1 DEF TablesInv, IndInv, RevPtsExact
<1> QED
  BY <1>1, <1>2, <1>3 DEF TablesInv, BackendsAgree, IndInv, TypeOK, PointsToSets

-----------------------------------------------------------------------------
\* One call of each kind, on both tables.
LEMMA UnionSetAgrees ==
    ASSUME TablesInv, IndInv', cleared' = cleared, NEW k \in Keys, NEW s \in SUBSET Objects,
           Abstract!UnionSet(k, s), InPlace!UnionSet(k, s)
    PROVE  BackendsAgree'
<1>1. /\ AbsPts' = With(AbsPts, k, AbsPts[k] \cup s)
      /\ AbsDiff' = AbsDiff /\ AbsPropa' = AbsPropa
      /\ result' = ~(s \subseteq AbsPts[k])
  BY DEF Abstract!UnionSet, Abstract!SetPts, With
<1>2. /\ mRev' = [o \in Objects |-> IF o \in s THEN mRev[o] \cup {k} ELSE mRev[o]]
      /\ mPts' = With(mPts, k, mPts[k] \cup s)
      /\ mResult' = (mPts'[k] # mPts[k])
      /\ mDiff' = mDiff /\ mPropa' = mPropa
  BY DEF InPlace!UnionSet, InPlace!AddRevPts, With
<1>3. mPts' = AbsPts' /\ mPts'[k] = mPts[k] \cup s
  BY <1>1, <1>2, InPlaceShape DEF With
<1>4. MRevExact
  <2>1. \A j \in Keys : mPts'[j] = IF j = k THEN mPts[k] \cup s ELSE mPts[j]
    BY <1>2, InPlaceShape DEF With
  <2> QED
    BY <1>2, <2>1, InPlaceShape DEF MRevExact
<1>5. mRev' = revPtsMap'
  BY <1>3, <1>4, RevAgrees
<1>6. mResult' = ~(s \subseteq AbsPts[k])
  BY <1>2, <1>3, InPlaceShape
<1> QED
  BY <1>1, <1>2, <1>3, <1>5, <1>6, InPlaceShape DEF BackendsAgree

LEMMA RemoveAgrees ==
    ASSUME TablesInv, IndInv', cleared' = cleared, NEW k \in Keys, NEW s \in SUBSET Objects,
           Abstract!SetPts(k, AbsPts[k] \ s), result' = FALSE, mResult' = FALSE,
           mRev' = InPlace!ClearRevPts(s, k), mPts' = With(mPts, k, mPts[k] \ s),
           mDiff' = mDiff, mPropa' = mPropa
    PROVE  BackendsAgree'
<1>1. /\ AbsPts' = With(AbsPts, k, AbsPts[k] \ s)
      /\ AbsDiff' = AbsDiff /\ AbsPropa' = AbsPropa
  BY DEF Abstract!SetPts, With
<1>2. mRev' = [o \in Objects |-> IF o \in s THEN mRev[o] \ {k} ELSE mRev[o]]
  BY DEF InPlace!ClearRevPts
<1>3. mPts' = AbsPts'
  BY <1>1, InPlaceShape
<1>4. MRevExact
  <2>1. \A j \in Keys : mPts'[j] = IF j = k THEN mPts[k] \ s ELSE mPts[j]
    BY InPlaceShape DEF With
  <2>2. \A o \in Objects : mRev'[o] = IF o \in s THEN mRev[o] \ {k} ELSE mRev[o]
    BY <1>2
  <2>3. \A o \in Objects : mRev'[o] = {j \in Keys : o \in mPts'[j]}
    <3> TAKE o \in Objects
    <3>1. mRev[o] = {j \in Keys : o \in mPts[j]}
      BY InPlaceShape
    <3>2. CASE o \in s
      BY <2>1, <2>2, <3>1, <3>2
    <3>3. CASE o \notin s
      BY <2>1, <2>2, <3>1, <3>3
    <3> QED
      BY <3>2, <3>3
  <2> QED
    BY <1>2, <2>3 DEF MRevExact
<1>5. mRev' = revPtsMap'
  BY <1>3, <1>4, RevAgrees
<1> QED
  BY <1>1, <1>3, <1>5, InPlaceShape DEF BackendsAgree

\* The calls that leave points-to and reverse points-to sets alone.
LEMMA PtsKeptAgrees ==
    ASSUME TablesInv, IndInv', AbsPts' = AbsPts, mPts' = mPts, mRev' = mRev
    PROVE  mPts' = AbsPts' /\ mRev' = revPtsMap'
<1>1. MRevExact
  BY InPlaceShape DEF MRevExact
<1> QED
  BY <1>1, InPlaceShape, RevAgrees

LEMMA ComputeDiffAgrees ==
    ASSUME TablesInv, IndInv', cleared' = cleared, NEW k \in Keys,
           Abstract!ComputeDiffPts(k), InPlace!ComputeDiffPts(k)
    PROVE  BackendsAgree'
<1>1. AbsPts' = AbsPts /\ mPts' = mPts /\ mRev' = mRev
  BY DEF Abstract!ComputeDiffPts, InPlace!ComputeDiffPts
<1>2. /\ AbsDiff' = With(AbsDiff, k, AbsPts[k] \ AbsPropa[k])
      /\ AbsPropa' = With(AbsPropa, k, AbsPts[k])
      /\ result' = (AbsPts[k] \ AbsPropa[k] # {})
  BY DEF Abstract!ComputeDiffPts, With
<1>3. /\ mDiff' = With(mDiff, k, mPts[k] \ mPropa[k])
      /\ mPropa' = With(mPropa, k, mPts[k])
      /\ mResult' = (mDiff'[k] # {})
  BY DEF InPlace!ComputeDiffPts, With
<1>4. k \in DOMAIN AbsDiff
  BY DEF AbsDiff, Sets
<1>5. ~cleared => mDiff' = AbsDiff' /\ mPropa' = AbsPropa'
  BY <1>2, <1>3, InPlaceShape
<1>6. ~cleared => mDiff'[k] = AbsPts[k] \ AbsPropa[k]
  BY <1>3, <1>4, InPlaceShape DEF With
<1>7. ~cleared => mResult' = result'
  BY <1>2, <1>3, <1>6
<1> QED
  BY <1>1, <1>5, <1>7, PtsKeptAgrees DEF BackendsAgree

LEMMA UpdatePropaAgrees ==
    ASSUME TablesInv, IndInv', cleared' = cleared, NEW src \in Keys, NEW dst \in Keys,
           Abstract!UpdatePropaPtsMap(src, dst), InPlace!UpdatePropaPtsMap(src, dst)
    PROVE  BackendsAgree'
<1>1. AbsPts' = AbsPts /\ mPts' = mPts /\ mRev' = mRev
  BY DEF Abstract!UpdatePropaPtsMap, InPlace!UpdatePropaPtsMap
<1>2. ~cleared => mDiff' = AbsDiff' /\ mPropa' = AbsPropa' /\ mResult' = result'
  BY InPlaceShape DEF Abstract!UpdatePropaPtsMap, InPlace!UpdatePropaPtsMap
<1> QED
  BY <1>1, <1>2, PtsKeptAgrees DEF BackendsAgree

LEMMA ClearPropaAgrees ==
    ASSUME TablesInv, IndInv', cleared' = cleared, NEW k \in Keys,
           Abstract!ClearPropaPts(k), InPlace!ClearPropaPts(k)
    PROVE  BackendsAgree'
<1>1. AbsPts' = AbsPts /\ mPts' = mPts /\ mRev' = mRev
  BY DEF Abstract!ClearPropaPts, InPlace!ClearPropaPts
<1>2. ~cleared => mDiff' = AbsDiff' /\ mPropa' = AbsPropa' /\ mResult' = result'
  BY InPlaceShape DEF Abstract!ClearPropaPts, InPlace!ClearPropaPts
<1> QED
  BY <1>1, <1>2, PtsKeptAgrees DEF BackendsAgree

LEMMA RemapAgrees ==
    ASSUME TablesInv, IndInv', cleared' = cleared, Abstract!RemapAllPts, InPlace!RemapAllPts
    PROVE  BackendsAgree'
<1>1. AbsPts' = AbsPts /\ mPts' = mPts /\ mRev' = mRev
  BY DEF Abstract!RemapAllPts, InPlace!RemapAllPts
<1>2. ~cleared => mDiff' = AbsDiff' /\ mPropa' = AbsPropa' /\ mResult' = result'
  BY InPlaceShape DEF Abstract!RemapAllPts, InPlace!RemapAllPts
<1> QED
  BY <1>1, <1>2, PtsKeptAgrees DEF BackendsAgree

LEMMA ClearAgrees ==
    ASSUME Clear, Abstract!Clear, InPlace!Clear, cleared'
    PROVE  BackendsAgree'
<1>1. mPts' = AbsPts'
  BY DEF Abstract!Clear, InPlace!Clear, Abstract!NoPts, InPlace!NoPts
<1>2. mRev' = revPtsMap'
  BY DEF Clear, InPlace!Clear
<1> QED
  BY <1>1, <1>2 DEF BackendsAgree

-----------------------------------------------------------------------------
LEMMA TablesStep ==
    ASSUME TablesInv, [TablesNext]_allVars
    PROVE  TablesInv'
<1> USE DEF TablesInv
<1>1. CASE AddBoth /\ cleared' = cleared
  <2>1. PICK k \in Keys, o \in Objects : UnionSet(k, {o}) /\ InPlace!UnionSet(k, {o})
    BY <1>1 DEF AddBoth, AddPts, InPlace!AddPts
  <2>2. IndInv' /\ Abstract!UnionSet(k, {o})
    BY <2>1, UnionSetOK DEF PointsToSets
  <2> QED
    BY <1>1, <2>1, <2>2, UnionSetAgrees
<1>2. CASE UnionSetBoth /\ cleared' = cleared
  <2>1. PICK k \in Keys, s \in PointsToSets : UnionSet(k, s) /\ InPlace!UnionSet(k, s)
    BY <1>2 DEF UnionSetBoth
  <2>2. IndInv' /\ Abstract!UnionSet(k, s)
    BY <2>1, UnionSetOK
  <2> QED
    BY <1>2, <2>1, <2>2, UnionSetAgrees DEF PointsToSets
<1>3. CASE UnionBoth /\ cleared' = cleared
  <2>1. PICK k \in Keys, j \in Keys : UnionPts(k, j) /\ InPlace!UnionSet(k, mPts[j])
    BY <1>3 DEF UnionBoth, InPlace!UnionPts
  <2>2. IndInv' /\ Abstract!UnionSet(k, AbsPts[j])
    BY <2>1, UnionPtsOK DEF Abstract!UnionPts
  <2>3. mPts[j] = AbsPts[j] /\ mPts[j] \in SUBSET Objects
    BY <2>1, InPlaceShape
  <2> QED
    BY <1>3, <2>1, <2>2, <2>3, UnionSetAgrees
<1>4. CASE RemoveBoth /\ cleared' = cleared
  <2>1. PICK k \in Keys, o \in Objects : ClearPts(k, o) /\ InPlace!ClearPts(k, o)
    BY <1>4 DEF RemoveBoth
  <2>2. IndInv' /\ Abstract!ClearPts(k, o)
    BY <2>1, ClearPtsOK
  <2>3. /\ Abstract!SetPts(k, AbsPts[k] \ {o}) /\ result' = FALSE
        /\ mRev' = InPlace!ClearRevPts({o}, k) /\ mPts' = With(mPts, k, mPts[k] \ {o})
        /\ mResult' = FALSE /\ mDiff' = mDiff /\ mPropa' = mPropa
    BY <2>1, <2>2 DEF Abstract!ClearPts, InPlace!ClearPts, With
  <2> QED
    BY <1>4, <2>2, <2>3, RemoveAgrees
<1>5. CASE EmptyBoth /\ cleared' = cleared
  <2>1. PICK k \in Keys : ClearFullPts(k) /\ InPlace!ClearFullPts(k)
    BY <1>5 DEF EmptyBoth
  <2>2. IndInv' /\ Abstract!ClearFullPts(k)
    BY <2>1, ClearFullPtsOK
  <2>3. mPts[k] \in SUBSET Objects /\ mPts[k] \ mPts[k] = {} /\ AbsPts[k] = mPts[k]
    BY InPlaceShape
  <2>4. /\ Abstract!SetPts(k, AbsPts[k] \ mPts[k]) /\ result' = FALSE
        /\ mRev' = InPlace!ClearRevPts(mPts[k], k) /\ mPts' = With(mPts, k, mPts[k] \ mPts[k])
        /\ mResult' = FALSE /\ mDiff' = mDiff /\ mPropa' = mPropa
    BY <2>1, <2>2, <2>3 DEF Abstract!ClearFullPts, InPlace!ClearFullPts, With
  <2> QED
    BY <1>5, <2>2, <2>3, <2>4, RemoveAgrees
<1>6. CASE ComputeDiffBoth /\ cleared' = cleared
  BY <1>6, ComputeDiffPtsOK, ComputeDiffAgrees DEF ComputeDiffBoth
<1>7. CASE UpdatePropaBoth /\ cleared' = cleared
  BY <1>7, UpdatePropaPtsMapOK, UpdatePropaAgrees DEF UpdatePropaBoth
<1>8. CASE ClearPropaBoth /\ cleared' = cleared
  BY <1>8, ClearPropaPtsOK, ClearPropaAgrees DEF ClearPropaBoth
<1>9. CASE RemapBoth /\ cleared' = cleared
  BY <1>9, RemapOK, RemapAgrees DEF RemapBoth
<1>10. CASE Clear /\ InPlace!Clear /\ cleared' = TRUE
  BY <1>10, ClearOK, ClearAgrees
<1>11. CASE UNCHANGED allVars
  <2>1. UNCHANGED vars /\ UNCHANGED mVars /\ cleared' = cleared
    BY <1>11 DEF allVars
  <2>2. IndInv'
    BY <2>1, NextOK
  <2> QED
    BY <2>1, <2>2 DEF vars, mVars, BackendsAgree, AbsPts, AbsDiff, AbsPropa
<1> QED
  BY <1>1, <1>2, <1>3, <1>4, <1>5, <1>6, <1>7, <1>8, <1>9, <1>10, <1>11 DEF TablesNext

\* Whichever table an analysis is given, it computes the same (until clear()).
THEOREM BackendsAgreeAlways == TablesSpec => []BackendsAgree
<1>1. TablesInit => TablesInv
  <2> SUFFICES ASSUME TablesInit PROVE TablesInv
    OBVIOUS
  <2>1. IndInv /\ Abstract!Init
    BY InitOK DEF TablesInit
  <2> QED
    BY <2>1 DEF TablesInv, TablesInit, Init, BackendsAgree, InPlace!Init, InPlace!NoPts,
                Abstract!Init, Abstract!NoPts
<1>2. TablesInv /\ [TablesNext]_allVars => TablesInv'
  BY TablesStep
<1>3. TablesInv => BackendsAgree
  BY DEF TablesInv
<1> QED
  BY <1>1, <1>2, <1>3, PTL DEF TablesSpec

\* The composed tables are steps of the table of ids, so what is proved of it
\* alone holds of them.
THEOREM TablesRefine == TablesSpec => ImplementsDiffPTData
<1>1. TablesInit => Init
  BY DEF TablesInit
<1>2. [TablesNext]_allVars => [Next]_vars
  BY DEF TablesNext, AddBoth, RemoveBoth, UnionSetBoth, UnionBoth, EmptyBoth, ComputeDiffBoth,
         UpdatePropaBoth, ClearPropaBoth, RemapBoth, Next, allVars
<1> QED
  BY <1>1, <1>2, Refinement, PTL DEF TablesSpec, Spec
=============================================================================
