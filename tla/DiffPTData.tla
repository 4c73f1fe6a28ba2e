----------------------------- MODULE DiffPTData -----------------------------
(***************************************************************************)
(* What the difference-propagation points-to table promises its clients:   *)
(* the interface PTData / DiffPTData of                                    *)
(* svf/include/MemoryModel/AbstractPointsToDS.h, over plain sets.  A call  *)
(* is an action; `result' is what it returned.  Reverse points-to sets are *)
(* no state of their own here: RevPts is defined from pts.                 *)
(***************************************************************************)
CONSTANTS Keys, Objects

VARIABLES pts,     \* [key -> points-to set]
          diff,    \* [key -> what the last computeDiffPts said is new]
          propa,   \* [key -> what has been propagated]
          result   \* the boolean the last call returned

abstractVars == <<pts, diff, propa, result>>

NoPts == [k \in Keys |-> {}]

RevPts(o) == {k \in Keys : o \in pts[k]}

Init == pts = NoPts /\ diff = NoPts /\ propa = NoPts /\ result = FALSE

SetPts(k, s) == /\ pts' = [pts EXCEPT ![k] = s]
                /\ UNCHANGED <<diff, propa>>

UnionSet(k, s) == SetPts(k, pts[k] \cup s) /\ result' = ~(s \subseteq pts[k])

AddPts(k, o)   == UnionSet(k, {o})
UnionPts(k, j) == UnionSet(k, pts[j])

ClearPts(k, o)  == SetPts(k, pts[k] \ {o}) /\ result' = FALSE
ClearFullPts(k) == SetPts(k, {}) /\ result' = FALSE

\* "diff = all - propa", then "propa = all", for all = getPts(k).
ComputeDiffPts(k) ==
    /\ diff' = [diff EXCEPT ![k] = pts[k] \ propa[k]]
    /\ propa' = [propa EXCEPT ![k] = pts[k]]
    /\ result' = (pts[k] \ propa[k] # {})
    /\ UNCHANGED pts

UpdatePropaPtsMap(src, dst) ==
    /\ propa' = [propa EXCEPT ![dst] = @ \cap propa[src]]
    /\ result' = FALSE
    /\ UNCHANGED <<pts, diff>>

ClearPropaPts(k) ==
    /\ propa' = [propa EXCEPT ![k] = {}]
    /\ result' = FALSE
    /\ UNCHANGED <<pts, diff>>

\* remapAllPts: another encoding of the same sets.
RemapAllPts == result' = FALSE /\ UNCHANGED <<pts, diff, propa>>

\* "Clears all points-to sets as if nothing is stored."
Clear == pts' = NoPts /\ diff' = NoPts /\ propa' = NoPts /\ result' = FALSE

Next ==
    \/ \E k \in Keys, o \in Objects : AddPts(k, o) \/ ClearPts(k, o)
    \/ \E k \in Keys, s \in SUBSET Objects : UnionSet(k, s)
    \/ \E k, j \in Keys : UnionPts(k, j) \/ UpdatePropaPtsMap(k, j)
    \/ \E k \in Keys : ClearFullPts(k) \/ ComputeDiffPts(k) \/ ClearPropaPts(k)
    \/ RemapAllPts
    \/ Clear

Spec == Init /\ [][Next]_abstractVars
=============================================================================
