------------------------- MODULE MutableDiffPTData -------------------------
(***************************************************************************)
(* DiffPTData over sets updated in place: MutablePTData and                *)
(* MutableDiffPTData of svf/include/MemoryModel/MutablePointsToDS.h, the   *)
(* default table of Andersen's analysis.  Reverse points-to sets are       *)
(* updated before the set itself and whether or not it changes.            *)
(***************************************************************************)
CONSTANTS Keys, Objects

VARIABLES
    ptsMap, revPtsMap,          \* of the MutablePTData inside
    diffPtsMap, propaPtsMap,
    result                      \* what the last call returned

vars == <<ptsMap, revPtsMap, diffPtsMap, propaPtsMap, result>>

NoPts == [k \in Keys |-> {}]

Init ==
    /\ ptsMap = NoPts /\ diffPtsMap = NoPts /\ propaPtsMap = NoPts
    /\ revPtsMap = [o \in Objects |-> {}]
    /\ result = FALSE

AddRevPts(s, k)   == [o \in Objects |-> IF o \in s THEN revPtsMap[o] \cup {k} ELSE revPtsMap[o]]
ClearRevPts(s, k) == [o \in Objects |-> IF o \in s THEN revPtsMap[o] \ {k} ELSE revPtsMap[o]]

UnionSet(k, s) ==
    /\ revPtsMap' = AddRevPts(s, k)
    /\ ptsMap' = [ptsMap EXCEPT ![k] = @ \cup s]
    /\ result' = (ptsMap'[k] # ptsMap[k])
    /\ UNCHANGED <<diffPtsMap, propaPtsMap>>

AddPts(k, o)   == UnionSet(k, {o})
UnionPts(k, j) == UnionSet(k, ptsMap[j])

ClearPts(k, o) ==
    /\ revPtsMap' = ClearRevPts({o}, k)
    /\ ptsMap' = [ptsMap EXCEPT ![k] = @ \ {o}]
    /\ result' = FALSE
    /\ UNCHANGED <<diffPtsMap, propaPtsMap>>

ClearFullPts(k) ==
    /\ revPtsMap' = ClearRevPts(ptsMap[k], k)
    /\ ptsMap' = [ptsMap EXCEPT ![k] = {}]
    /\ result' = FALSE
    /\ UNCHANGED <<diffPtsMap, propaPtsMap>>

\* Mutant: propa is set before diff is computed from it.
ComputeDiffPtsLate(k) ==
    /\ propaPtsMap' = [propaPtsMap EXCEPT ![k] = ptsMap[k]]
    /\ diffPtsMap' = [diffPtsMap EXCEPT ![k] = ptsMap[k] \ propaPtsMap'[k]]
    /\ result' = (diffPtsMap'[k] # {})
    /\ UNCHANGED <<ptsMap, revPtsMap>>

ComputeDiffPts(k) ==
    /\ diffPtsMap' = [diffPtsMap EXCEPT ![k] = ptsMap[k] \ propaPtsMap[k]]
    /\ propaPtsMap' = [propaPtsMap EXCEPT ![k] = ptsMap[k]]
    /\ result' = (diffPtsMap'[k] # {})
    /\ UNCHANGED <<ptsMap, revPtsMap>>

UpdatePropaPtsMap(src, dst) ==
    /\ propaPtsMap' = [propaPtsMap EXCEPT ![dst] = @ \cap propaPtsMap[src]]
    /\ result' = FALSE
    /\ UNCHANGED <<ptsMap, revPtsMap, diffPtsMap>>

ClearPropaPts(k) ==
    /\ propaPtsMap' = [propaPtsMap EXCEPT ![k] = {}]
    /\ result' = FALSE
    /\ UNCHANGED <<ptsMap, revPtsMap, diffPtsMap>>

\* Every set is re-encoded for the current node mapping.
RemapAllPts == result' = FALSE /\ UNCHANGED <<ptsMap, revPtsMap, diffPtsMap, propaPtsMap>>

\* Only the table inside is cleared.
Clear ==
    /\ ptsMap' = NoPts /\ revPtsMap' = [o \in Objects |-> {}]
    /\ result' = FALSE
    /\ UNCHANGED <<diffPtsMap, propaPtsMap>>

Next ==
    \/ \E k \in Keys, o \in Objects : AddPts(k, o) \/ ClearPts(k, o)
    \/ \E k \in Keys, s \in SUBSET Objects : UnionSet(k, s)
    \/ \E k, j \in Keys : UnionPts(k, j) \/ UpdatePropaPtsMap(k, j)
    \/ \E k \in Keys : ClearFullPts(k) \/ ComputeDiffPts(k) \/ ClearPropaPts(k)
    \/ RemapAllPts
    \/ Clear

Spec == Init /\ [][Next]_vars
=============================================================================
