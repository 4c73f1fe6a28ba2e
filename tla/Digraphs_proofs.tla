-------------------------- MODULE Digraphs_proofs --------------------------
(***************************************************************************)
(* Fixed points are reached: whatever step is applied again and again, as  *)
(* long as a finite set grows with every change.  No induction is needed,  *)
(* only a maximal element of a family of subsets of a finite set.          *)
(***************************************************************************)
EXTENDS Digraphs, FiniteSetTheorems, WellFoundedInduction, TLAPS

LEMMA OntoFinite ==
  ASSUME NEW S, IsFiniteSet(S), NEW T, NEW f \in [S -> T], \A t \in T : \E x \in S : f[x] = t
  PROVE  IsFiniteSet(T)
<1>1. f \in Surjection(S, T)
  BY DEF Surjection
<1> QED
  BY <1>1, FS_Surjection

LEMMA TriplesFinite ==
  ASSUME NEW A, IsFiniteSet(A), NEW B, IsFiniteSet(B), NEW C, IsFiniteSet(C)
  PROVE  IsFiniteSet(A \X B \X C)
<1> DEFINE f == [x \in (A \X B) \X C |-> <<x[1][1], x[1][2], x[2]>>]
<1>1. IsFiniteSet((A \X B) \X C)
  BY FS_Product
<1>2. f \in [(A \X B) \X C -> A \X B \X C]
  OBVIOUS
<1>3. ASSUME NEW t \in A \X B \X C PROVE \E x \in (A \X B) \X C : f[x] = t
  <2>1. <<<<t[1], t[2]>>, t[3]>> \in (A \X B) \X C
    OBVIOUS
  <2>2. f[<<<<t[1], t[2]>>, t[3]>>] = t
    BY <2>1
  <2> QED
    BY <2>1, <2>2
<1> HIDE DEF f
<1> QED
  BY <1>1, <1>2, <1>3, OntoFinite

(* A family of subsets of a finite set has a maximal member: its complements *)
(* have a minimal one, as strict inclusion is well-founded.                  *)
LEMMA MaximalSubset ==
  ASSUME NEW U, IsFiniteSet(U), NEW C \in SUBSET SUBSET U, C # {}
  PROVE  \E m \in C : \A k \in C : m \subseteq k => k = m
<1> DEFINE co == {U \ k : k \in C}
<1>1. IsWellFoundedOn(StrictSubsetOrdering(U), FiniteSubsetsOf(U))
  BY FS_StrictSubsetOrderingWellFounded, Zenon
<1>2. ASSUME NEW x \in co PROVE x \in FiniteSubsetsOf(U)
  <2>1. PICK k \in C : x = U \ k
    OBVIOUS
  <2> QED
    BY <2>1, FS_Subset DEF FiniteSubsetsOf
<1>3. co \subseteq FiniteSubsetsOf(U) /\ co # {}
  <2>1. PICK k \in C : TRUE
    OBVIOUS
  <2>2. U \ k \in co
    BY <2>1
  <2> HIDE DEF co
  <2> QED
    BY <1>2, <2>2
<1>4. \E x \in co : \A y \in co : <<y, x>> \notin StrictSubsetOrdering(U)
  <2> HIDE DEF co
  <2> DEFINE R == StrictSubsetOrdering(U)
             S == FiniteSubsetsOf(U)
  <2>1. IsWellFoundedOn(R, S) /\ co \subseteq S /\ co # {}
    BY <1>1, <1>3
  <2>2. \E x \in co : \A y \in co : ~ (<<y, x>> \in R)
    <3> HIDE DEF R, S
    <3> QED
      BY ONLY <2>1, WFMin
  <2> QED
    BY <2>2
<1>5. PICK x \in co : \A y \in co : <<y, x>> \notin StrictSubsetOrdering(U)
  BY <1>4
<1>6. PICK m \in C : x = U \ m
  BY <1>3
<1>7. ASSUME NEW k \in C, m \subseteq k
      PROVE  k = m
  <2>1. U \ k \in co
    OBVIOUS
  <2>2. <<U \ k, x>> \notin StrictSubsetOrdering(U)
    BY <2>1, <1>5
  <2>3. ~(U \ k \subseteq U \ m /\ U \ k # U \ m)
    BY <2>2, <1>6 DEF StrictSubsetOrdering
  <2> QED
    BY <2>3, <1>7
<1> QED
  BY <1>7

\* With every change of y its rank grows.
Grows(step, rank, D) ==
  \A y \in D : step[y] # y => rank[y] \subseteq rank[step[y]] /\ rank[y] # rank[step[y]]

(* Every set holds an element that step leaves alone or takes out of it. *)
LEMMA LastOf ==
  ASSUME NEW D, NEW step \in [D -> D], NEW U, IsFiniteSet(U), NEW rank \in [D -> SUBSET U],
         Grows(step, rank, D), NEW S \in SUBSET D, S # {}
  PROVE  \E y \in S : step[y] = y \/ step[y] \notin S
<1> DEFINE ranks == {rank[y] : y \in S}
<1>1. ranks \in SUBSET SUBSET U /\ ranks # {}
  OBVIOUS
<1>2. PICK m \in ranks : \A k \in ranks : m \subseteq k => k = m
  <2> HIDE DEF ranks
  <2> QED
    BY <1>1, MaximalSubset
<1>3. PICK y \in S : m = rank[y]
  BY <1>2
<1>4. CASE step[y] # y
  <2>1. rank[y] \subseteq rank[step[y]] /\ rank[y] # rank[step[y]]
    BY <1>4 DEF Grows
  <2>2. step[y] \notin S
    BY <2>1, <1>2, <1>3
  <2> QED
    BY <2>2
<1> QED
  BY <1>4

Stays(step, I) == \A y \in I : step[y] \in I

\* What is reached from x, and the fixed points there.
Orbit(step, D, x) == {y \in D : \A I \in SUBSET D : x \in I /\ Stays(step, I) => y \in I}
FixedIn(step, D, x) == {y \in Orbit(step, D, x) : step[y] = y}

(* Every x reaches a fixed point, *)
LEMMA FixedExists ==
  ASSUME NEW D, NEW step \in [D -> D], NEW U, IsFiniteSet(U), NEW rank \in [D -> SUBSET U],
         Grows(step, rank, D), NEW x \in D
  PROVE  FixedIn(step, D, x) # {}
<1>1. x \in Orbit(step, D, x) /\ Orbit(step, D, x) \in SUBSET D
  BY DEF Orbit
<1>2. Stays(step, Orbit(step, D, x))
  BY DEF Orbit, Stays
<1>3. PICK y \in Orbit(step, D, x) : step[y] = y \/ step[y] \notin Orbit(step, D, x)
  BY <1>1, LastOf
<1> QED
  BY <1>2, <1>3 DEF FixedIn, Stays

(* the same ones as the next element. *)
LEMMA FixedNext ==
  ASSUME NEW D, NEW step \in [D -> D], NEW x \in D, step[x] # x
  PROVE  FixedIn(step, D, x) = FixedIn(step, D, step[x])
<1>1. ASSUME NEW y \in FixedIn(step, D, x) PROVE y \in FixedIn(step, D, step[x])
  <2>1. SUFFICES ASSUME NEW I \in SUBSET D, step[x] \in I, Stays(step, I) PROVE y \in I
    BY <1>1 DEF FixedIn, Orbit
  <2>2. Stays(step, I \cup {x}) /\ I \cup {x} \in SUBSET D
    BY <2>1 DEF Stays
  <2>3. y \in I \cup {x} /\ step[y] = y
    BY <1>1, <2>2 DEF FixedIn, Orbit
  <2> QED
    BY <2>3
<1>2. ASSUME NEW y \in FixedIn(step, D, step[x]) PROVE y \in FixedIn(step, D, x)
  BY <1>2 DEF FixedIn, Orbit, Stays
<1> QED
  BY <1>1, <1>2

\* The recursion of Limit.
Go(step, go, y) == IF step[y] = y THEN y ELSE go[step[y]]

(* The recursive definition of Limit has a solution: take any fixed point    *)
(* reached from y for go[y].                                                 *)
LEMMA LimitUnfolds ==
  ASSUME NEW D, NEW step \in [D -> D], NEW U, IsFiniteSet(U), NEW rank \in [D -> SUBSET U],
         Grows(step, rank, D), NEW x
  PROVE  \E go : go = [y \in D |-> Go(step, go, y)] /\ Limit(step, x) = go[x]
<1> DEFINE W == [y \in D |-> CHOOSE z \in FixedIn(step, D, y) : TRUE]
<1>1. ASSUME NEW y \in D PROVE W[y] = Go(step, W, y)
  <2>1. CASE step[y] = y
    <3>1. Stays(step, {y})
      BY <2>1 DEF Stays
    <3>2. FixedIn(step, D, y) \subseteq {y}
      BY <3>1 DEF FixedIn, Orbit
    <3> QED
      BY <3>2, FixedExists, <2>1 DEF Go
  <2>2. CASE step[y] # y
    <3>1. W[step[y]] = CHOOSE z \in FixedIn(step, D, step[y]) : TRUE
      OBVIOUS
    <3> QED
      BY <3>1, <2>2, FixedNext DEF Go
  <2> QED
    BY <2>1, <2>2
<1>2. W = [y \in D |-> Go(step, W, y)]
  BY <1>1
<1> HIDE DEF W
<1> DEFINE c == CHOOSE go : go = [y \in D |-> Go(step, go, y)]
<1>3. c = [y \in D |-> Go(step, c, y)]
  BY <1>2, Zenon
<1>4. Limit(step, x) = c[x]
  <2>1. DOMAIN step = D
    OBVIOUS
  <2> QED
   BY <2>1, Zenon DEF Limit, Go
<1> QED
  BY <1>3, <1>4, Zenon

(* Limit ends with a fixed point, in every set that step does not leave. *)
LEMMA LimitFixed ==
  ASSUME NEW D, NEW step \in [D -> D], NEW U, IsFiniteSet(U), NEW rank \in [D -> SUBSET U],
         Grows(step, rank, D), NEW I \in SUBSET D, Stays(step, I), NEW x \in I
  PROVE  Limit(step, x) \in I /\ step[Limit(step, x)] = Limit(step, x)
<1>1. PICK go : go = [y \in D |-> Go(step, go, y)] /\ Limit(step, x) = go[x]
  BY LimitUnfolds
<1> DEFINE Bad == {y \in I : ~(go[y] \in I /\ step[go[y]] = go[y])}
<1>2. CASE Bad # {}
  <2>1. PICK y \in Bad : step[y] = y \/ step[y] \notin Bad
    BY <1>2, LastOf
  <2>2. go[y] = Go(step, go, y)
    BY <1>1
  <2>3. step[y] \in I
    BY DEF Stays
  <2> QED
    BY <2>1, <2>2, <2>3 DEF Go
<1> QED
  BY <1>1, <1>2
-----------------------------------------------------------------------------
(* Steps on the subsets of U. *)

Extends(step, U)  == \A S \in SUBSET U : S \subseteq step[S]
Monotone(step, U) == \A S, T \in SUBSET U : S \subseteq T => step[S] \subseteq step[T]

(* A monotone step that takes nothing away ends with the least closed set    *)
(* that holds X.                                                             *)
LEMMA LimitLeast ==
  ASSUME NEW U, IsFiniteSet(U), NEW step \in [SUBSET U -> SUBSET U], Extends(step, U),
         Monotone(step, U), NEW X \in SUBSET U
  PROVE  /\ Limit(step, X) \in SUBSET U
         /\ X \subseteq Limit(step, X)
         /\ step[Limit(step, X)] = Limit(step, X)
         /\ \A M \in SUBSET U : X \subseteq M /\ step[M] \subseteq M => Limit(step, X) \subseteq M
<1> DEFINE rank == [S \in SUBSET U |-> S]
           I(M) == {S \in SUBSET U : X \subseteq S /\ S \subseteq M}
<1>1. rank \in [SUBSET U -> SUBSET U] /\ Grows(step, rank, SUBSET U)
  BY DEF Extends, Grows
<1>2. ASSUME NEW M \in SUBSET U, X \subseteq M, step[M] \subseteq M
      PROVE  Limit(step, X) \in I(M) /\ step[Limit(step, X)] = Limit(step, X)
  <2>1. I(M) \in SUBSET SUBSET U /\ X \in I(M)
    BY <1>2
  <2>2. Stays(step, I(M))
    BY <1>2 DEF Stays, Extends, Monotone
  <2> HIDE DEF rank, I
  <2> QED
    BY <1>1, <2>1, <2>2, LimitFixed
<1>3. Limit(step, X) \in I(U) /\ step[Limit(step, X)] = Limit(step, X)
  BY <1>2
<1> QED
  BY <1>2, <1>3

Transitive(R) == \A a, b, c : <<a, b>> \in R /\ <<b, c>> \in R => <<a, c>> \in R

(* Closure(E, N) is the least transitive relation on N that holds E. *)
THEOREM ClosureLeast ==
  ASSUME NEW N, IsFiniteSet(N), NEW E \in SUBSET (N \X N)
  PROVE  /\ Closure(E, N) \in SUBSET (N \X N)
         /\ E \subseteq Closure(E, N)
         /\ Transitive(Closure(E, N))
         /\ \A R \in SUBSET (N \X N) : E \subseteq R /\ Transitive(R) => Closure(E, N) \subseteq R
<1> DEFINE U    == N \X N
           step == [R \in SUBSET U |-> R \cup Composed(R, N)]
<1>1. IsFiniteSet(U) /\ E \in SUBSET U
  BY FS_Product
<1>2. ASSUME NEW R \in SUBSET U PROVE Composed(R, N) \in SUBSET U
  BY DEF Composed
<1>3. step \in [SUBSET U -> SUBSET U] /\ Extends(step, U)
  BY <1>2 DEF Extends
<1>4. Monotone(step, U)
  <2>1. ASSUME NEW S \in SUBSET U, NEW T \in SUBSET U, S \subseteq T
        PROVE  Composed(S, N) \subseteq Composed(T, N)
    BY <2>1 DEF Composed
  <2> QED
    BY <2>1 DEF Monotone
<1>5. ASSUME NEW R \in SUBSET U PROVE step[R] \subseteq R <=> Transitive(R)
  <2>1. ASSUME Transitive(R) PROVE step[R] \subseteq R
    <3>1. ASSUME NEW x \in Composed(R, N) PROVE x \in R
      <4>1. PICK e \in R, f \in R : x = <<e[1], f[2]>>
        BY DEF Composed
      <4>2. PICK n \in N : <<x[1], n>> \in R /\ <<n, x[2]>> \in R
        BY DEF Composed
      <4>3. x = <<x[1], x[2]>>
        BY <4>1
      <4> QED
        BY <2>1, <4>2, <4>3 DEF Transitive
    <3> QED
      BY <3>1
  <2>2. ASSUME step[R] \subseteq R, NEW a, NEW b, NEW c, <<a, b>> \in R, <<b, c>> \in R
        PROVE  <<a, c>> \in R
    <3>1. b \in N
      BY <2>2
    <3>2. <<a, c>> \in {<<e[1], f[2]>> : e \in R, f \in R}
      BY <2>2
    <3>3. <<a, c>> \in Composed(R, N)
      BY <2>2, <3>1, <3>2 DEF Composed
    <3> QED
      BY <2>2, <3>3
  <2> QED
    BY <2>1, <2>2 DEF Transitive
<1>6. Closure(E, N) = Limit(step, E)
  BY DEF Closure
<1> HIDE DEF step, U
<1>7. /\ Limit(step, E) \in SUBSET U
      /\ E \subseteq Limit(step, E)
      /\ step[Limit(step, E)] = Limit(step, E)
      /\ \A M \in SUBSET U : E \subseteq M /\ step[M] \subseteq M => Limit(step, E) \subseteq M
  BY <1>1, <1>3, <1>4, LimitLeast
<1> QED
  BY <1>5, <1>6, <1>7 DEF U
=============================================================================
