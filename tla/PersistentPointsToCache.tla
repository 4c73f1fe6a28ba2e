---------------------- MODULE PersistentPointsToCache ----------------------
(***************************************************************************)
(* The hash-consed points-to set store of                                  *)
(* svf/include/MemoryModel/PersistentPointsToCache.h, as a data structure: *)
(* a value `c' of the class and one operator per member function, each     *)
(* returning the new value of the object and the PointsToID handed out.    *)
(* PersistentPointsToCacheSM drives these operators as a state machine;    *)
(* PersistentDiffPTData composes them with the maps of its clients.        *)
(*                                                                         *)
(* A points-to set is a subset of Objects.  How PointsTo encodes it (which *)
(* bit vector, which node mapping) is left out: two encodings of one set   *)
(* compare equal under the current mapping, and remapAllPts re-encodes all *)
(* stored sets, which changes none of them.                                *)
(***************************************************************************)
EXTENDS Naturals, Sequences

CONSTANTS Objects,    \* what points-to sets may contain (NodeIDs of objects)
          MaxId       \* largest value of PointsToID; the counter wraps after it

ASSUME MaxIdAssumption == MaxId \in Nat \ {0}

PointsToSets == SUBSET Objects
Ids          == 0 .. MaxId
Ops          == {"union", "complement", "intersect"}
EmptyId      == 0                       \* emptyPointsToId()

Apply(op, s, t) == CASE op = "union"      -> s \cup t
                     [] op = "complement" -> s \ t
                     [] op = "intersect"  -> s \cap t

(***************************************************************************)
(* The object.  idToPts is the vector of stored sets (PointsToID i is      *)
(* element i + 1 of the sequence), ptsToId the interning map, and opCache  *)
(* the three operation caches in one: <<"union", x, y>> is the key <x, y>  *)
(* of unionCache, and so on.                                               *)
(***************************************************************************)
NewCache == [idToPts   |-> <<{}>>,
             ptsToId   |-> [s \in {{}} |-> EmptyId],
             opCache   |-> [k \in {} |-> EmptyId],
             idCounter |-> 1]

StoredIds(c)    == {i \in Ids : i < Len(c.idToPts)}
ActualPts(c, i) == c.idToPts[i + 1]

Put(f, k, v)         == [x \in DOMAIN f \cup {k} |-> IF x = k THEN v ELSE f[x]]
PutIf(cond, f, k, v) == IF cond THEN Put(f, k, v) ELSE f

MinMax(a, b)     == IF b < a THEN <<b, a>> ELSE <<a, b>>
\* Mutant: as if the difference were commutative.
OpKeySorted(op, a, b) == <<op, MinMax(a, b)[1], MinMax(a, b)[2]>>

OpKey(op, a, b)  == IF op = "complement" THEN <<op, a, b>>
                    ELSE <<op, MinMax(a, b)[1], MinMax(a, b)[2]>>

(***************************************************************************)
(* emplacePts, and the tail of opPts: a set that is not stored gets the    *)
(* next id.  newPointsToId asserts that the counter has not wrapped to the *)
(* empty id, so a caller may only do this when CanIntern holds.            *)
(***************************************************************************)
Successor(i) == IF i = MaxId THEN 0 ELSE i + 1    \* unsigned ++, modulo MaxId + 1

CanIntern(c, s) == s \in DOMAIN c.ptsToId \/ c.idCounter # EmptyId

EmplacePts(c, s) ==
    IF s \in DOMAIN c.ptsToId
      THEN [cache |-> c, id |-> c.ptsToId[s]]
      ELSE [cache |-> [c EXCEPT !.idToPts   = Append(@, s),
                                !.ptsToId   = Put(@, s, c.idCounter),
                                !.idCounter = Successor(@)],
            id    |-> c.idCounter]

(***************************************************************************)
(* opPts when the operation cache misses: intern the result, remember it,  *)
(* and then (in unionPts, complementPts and intersectPts) what the result  *)
(* lets the cache know without computing anything.                         *)
(***************************************************************************)
Perform(c, op, lhs, rhs) ==
    LET i == EmplacePts(c, Apply(op, ActualPts(c, lhs), ActualPts(c, rhs)))
    IN  [cache |-> [i.cache EXCEPT !.opCache = Put(@, OpKey(op, lhs, rhs), i.id)],
         id    |-> i.id]

AfterUnion(m, lhs, rhs, result) ==
    LET m1 == PutIf(lhs # result, m, OpKey("union", lhs, result), result)
    IN  PutIf(rhs # result, m1, OpKey("union", rhs, result), result)

AfterComplement(m, lhs, rhs, result) ==
    LET m1 == Put(m,  OpKey("intersect", result, rhs), EmptyId)
        m2 == Put(m1, OpKey("intersect", result, lhs), result)
    IN  IF result = EmptyId THEN m
        ELSE Put(m2, OpKey("complement", result, rhs), result)

AfterIntersect(m, lhs, rhs, result) ==
    LET m1 == PutIf(result # rhs, m,  OpKey("intersect", result, rhs), result)
        m2 == PutIf(result # lhs, m1, OpKey("intersect", result, lhs), result)
        m3 == PutIf(result # lhs, m2, OpKey("union", lhs, result), lhs)
    IN  IF result = EmptyId THEN m
        ELSE PutIf(result # rhs, m3, OpKey("union", rhs, result), rhs)

Learn(m, op, lhs, rhs, result) ==
    CASE op = "union"      -> AfterUnion(m, lhs, rhs, result)
      [] op = "complement" -> AfterComplement(m, lhs, rhs, result)
      [] op = "intersect"  -> AfterIntersect(m, lhs, rhs, result)

(***************************************************************************)
(* The "property cases" each operation answers before it looks anything    *)
(* up: a set with itself, and the empty set on one side.                   *)
(***************************************************************************)
IsPropertyCase(lhs, rhs) == EmptyId \in {lhs, rhs} \/ lhs = rhs

\* Mutant: a set minus itself is itself.
PropertyResultSelf(op, lhs, rhs) ==
    CASE op = "union"      -> MinMax(lhs, rhs)[2]
      [] op = "complement" -> lhs
      [] op = "intersect"  -> MinMax(lhs, rhs)[1]

PropertyResult(op, lhs, rhs) ==
    CASE op = "union"      -> MinMax(lhs, rhs)[2]
      [] op = "complement" -> IF lhs = rhs THEN EmptyId ELSE lhs
      [] op = "intersect"  -> MinMax(lhs, rhs)[1]

(***************************************************************************)
(* unionPts, complementPts and intersectPts.                               *)
(***************************************************************************)
OpPts(c, op, lhs, rhs) ==
    IF IsPropertyCase(lhs, rhs)
      THEN [cache |-> c, id |-> PropertyResult(op, lhs, rhs)]
    ELSE IF OpKey(op, lhs, rhs) \in DOMAIN c.opCache
      THEN [cache |-> c, id |-> c.opCache[OpKey(op, lhs, rhs)]]
    ELSE LET p == Perform(c, op, lhs, rhs)
         IN  [cache |-> [p.cache EXCEPT !.opCache = Learn(@, op, lhs, rhs, p.id)],
              id    |-> p.id]

(***************************************************************************)
(* remapAllPts rebuilds the interning map from the vector, front to back:  *)
(* of two equal stored sets the later id would win.                        *)
(***************************************************************************)
LastId(v, s) == CHOOSE i \in 0 .. Len(v) - 1 :
                    /\ v[i + 1] = s
                    /\ \A j \in 0 .. Len(v) - 1 : v[j + 1] = s => j <= i

\* Mutants: the empty set is left out of the map, or of the vector.
RemapAllPtsFrom1(c) ==
    [c EXCEPT !.ptsToId = [s \in {c.idToPts[n] : n \in 2 .. Len(c.idToPts)}
                              |-> LastId(c.idToPts, s)]]
RemapAllPtsDense(c) == [c EXCEPT !.idToPts = SelectSeq(@, LAMBDA s : s # {})]

RemapAllPts(c) ==
    [c EXCEPT !.ptsToId = [s \in {c.idToPts[n] : n \in 1 .. Len(c.idToPts)}
                              |-> LastId(c.idToPts, s)]]

(***************************************************************************)
(* What the rest of the analysis relies on.                                *)
(***************************************************************************)
CacheShape(c) ==
    /\ c = [idToPts |-> c.idToPts, ptsToId |-> c.ptsToId,
            opCache |-> c.opCache, idCounter |-> c.idCounter]
    /\ c.idToPts \in Seq(PointsToSets)
    /\ Len(c.idToPts) \in 1 .. MaxId + 1
    /\ c.idCounter = Successor(Len(c.idToPts) - 1)
    /\ c.idToPts[1] = {}

\* An id stands for one set and a set has one id: id equality is set equality.
Interned(c) ==
    /\ DOMAIN c.ptsToId = {c.idToPts[n] : n \in 1 .. Len(c.idToPts)}
    /\ \A s \in DOMAIN c.ptsToId :
          c.ptsToId[s] \in StoredIds(c) /\ ActualPts(c, c.ptsToId[s]) = s
    /\ \A i \in StoredIds(c) : c.ptsToId[ActualPts(c, i)] = i

\* Every remembered result, computed or deduced, is what the operation gives.
EntrySound(c, k, v) ==
    /\ k \in Ops \X StoredIds(c) \X StoredIds(c)
    /\ v \in StoredIds(c)
    /\ ActualPts(c, v) = Apply(k[1], ActualPts(c, k[2]), ActualPts(c, k[3]))

EntriesSound(c, m) == \A k \in DOMAIN m : EntrySound(c, k, m[k])
OpCacheSound(c)    == EntriesSound(c, c.opCache)

CacheOK(c) == CacheShape(c) /\ Interned(c) /\ OpCacheSound(c)

\* d is c after more sets were interned: no id of c has changed its meaning.
Extends(d, c) ==
    /\ Len(c.idToPts) <= Len(d.idToPts)
    /\ \A n \in 1 .. Len(c.idToPts) : d.idToPts[n] = c.idToPts[n]
=============================================================================
