---------------------------- MODULE IntervalDomain ----------------------------
(***************************************************************************)
(* The values of abstract execution (AE/Core): an interval of integers and  *)
(* a set of addresses (IntervalValue.h, AddressValue.h, AbstractValue.h),    *)
(* and their states (AbstractState.cpp).  A state maps every variable and    *)
(* object to a value; one the maps of the code have no entry for has the     *)
(* value Nothing, which no operation tells from a missing entry.             *)
(***************************************************************************)
EXTENDS Integers, FiniteSetsExt

CONSTANT Infinity   \* bounds reach from -Infinity to Infinity
ASSUME InfinityAssumption == Infinity \in Nat \ {0}

Bottom == <<Infinity, -Infinity>>
Top == <<-Infinity, Infinity>>
isBottom(i) == i[1] > i[2]
is_numeral(i) == i[1] = i[2]

Least(a, b) == IF a <= b THEN a ELSE b
Greatest(a, b) == IF a >= b THEN a ELSE b

\* safeAdd: a sum out of range is infinite, and infinity absorbs.
safeAdd(a, b) == IF Infinity \in {a, b} THEN Infinity
                 ELSE IF -Infinity \in {a, b} THEN -Infinity
                 ELSE Greatest(-Infinity, Least(Infinity, a + b))

add(i, j) == IF isBottom(i) \/ isBottom(j) THEN Bottom
             ELSE IF Top \in {i, j} THEN Top
             ELSE <<safeAdd(i[1], j[1]), safeAdd(i[2], j[2])>>

join_with(i, j) == IF isBottom(i) THEN j ELSE IF isBottom(j) THEN i
                   ELSE <<Least(i[1], j[1]), Greatest(i[2], j[2])>>

meet_with(i, j) == LET m == <<Greatest(i[1], j[1]), Least(i[2], j[2])>>
                   IN  IF isBottom(i) \/ isBottom(j) \/ isBottom(m) THEN Bottom ELSE m

\* Mutant: an upper bound is never widened.
widen_lower(i, j) == <<IF i[1] <= j[1] THEN i[1] ELSE -Infinity, i[2]>>

\* A bound that moved outwards becomes infinite; called for two intervals.
widen_with(i, j) == <<IF i[1] <= j[1] THEN i[1] ELSE -Infinity,
                      IF i[2] >= j[2] THEN i[2] ELSE Infinity>>

\* An infinite bound takes the value of the other interval.
narrow_with(i, j) == <<IF i[1] \in {Infinity, -Infinity} THEN j[1] ELSE i[1],
                       IF i[2] \in {Infinity, -Infinity} THEN j[2] ELSE i[2]>>

\* Comparison: [1,1] where it holds of every pair, [0,0] of none.
Truth(always, never) == IF always THEN <<1, 1>> ELSE IF never THEN <<0, 0>> ELSE <<0, 1>>
compare(pred, i, j) ==
    CASE isBottom(i) \/ isBottom(j) -> Bottom
      [] Top \in {i, j} -> Top
      [] pred = "lt" -> Truth(i[2] < j[1], i[1] >= j[2])
      [] pred = "le" -> Truth(i[2] <= j[1], i[1] > j[2])
      [] pred = "gt" -> Truth(i[1] > j[2], i[2] <= j[1])
      [] pred = "ge" -> Truth(i[1] >= j[2], i[2] < j[1])
      [] pred = "eq" -> Truth(is_numeral(i) /\ i = j, isBottom(meet_with(i, j)))
      [] pred = "ne" -> Truth(isBottom(meet_with(i, j)), is_numeral(i) /\ i = j)

-----------------------------------------------------------------------------
(* Values and states.                                                       *)

Nothing == [interval |-> Bottom, addrs |-> {}]
Interval(i) == [interval |-> i, addrs |-> {}]
Address(os) == [interval |-> Bottom, addrs |-> os]
isInterval(v) == ~isBottom(v.interval)
isAddr(v) == v.addrs # {}

JoinValues(v, w) == [interval |-> join_with(v.interval, w.interval), addrs |-> v.addrs \cup w.addrs]

joinWith(a, b) == [x \in DOMAIN a |-> JoinValues(a[x], b[x])]

\* Both go through the entries of the first state and change those that are
\* intervals in both; addresses and entries of the second alone are dropped.
OnIntervals(Op(_, _), a, b) ==
    [x \in DOMAIN a |-> IF isInterval(a[x]) /\ isInterval(b[x])
                        THEN [a[x] EXCEPT !.interval = Op(@, b[x].interval)] ELSE a[x]]
widening(a, b) == OnIntervals(widen_with, a, b)
narrowing(a, b) == OnIntervals(narrow_with, a, b)

loadValue(a, p) == [interval |-> FoldSet(join_with, Bottom, {a[o].interval : o \in a[p].addrs}),
                    addrs |-> UNION {a[o].addrs : o \in a[p].addrs}]
storeValue(a, p, v) == [x \in DOMAIN a |-> IF x \in a[p].addrs THEN v ELSE a[x]]
=============================================================================
