---------------------------- MODULE ReadersProofs ----------------------------
(***************************************************************************)
(* Theorems about what reads the tables while a refresh writes them: the    *)
(* usage pages, for any rows, calendar and clock change, and any writes     *)
(* between the statements of a page; the alerts, for any meters, modes,     *)
(* levels and codes, and for any writes, interruptions and acknowledgements *)
(* between the statements of an evaluation; and the quota and provider      *)
(* pages, for any of the providers, for any clock and freshness, and for    *)
(* refreshes that are killed between any two statements.                    *)
(***************************************************************************)
EXTENDS UsageViews, Alerts, QuotaCards, FiniteSetTheorems, WellFoundedInduction, TLAPS

-----------------------------------------------------------------------------
(* Sums over finite sets *)

\* Induction over the subsets of a finite set, for a property given as the set of
\* those that have it.
LEMMA SmallestSubset ==
  ASSUME NEW S, IsFiniteSet(S), NEW T \in SUBSET SUBSET S, T # {}
  PROVE  \E t \in T : \A u \in T : u \subseteq t => u = t
<1>1. FiniteSubsetsOf(S) = SUBSET S
  BY FS_FiniteSubsetsOfFinite
<1>2. IsWellFoundedOn(StrictSubsetOrdering(S), SUBSET S)
  BY <1>1, FS_StrictSubsetOrderingWellFounded
<1>3. \E t \in T : \A u \in T : ~(<<u, t>> \in StrictSubsetOrdering(S))
  BY <1>2, WFMin
<1> QED BY <1>3 DEF StrictSubsetOrdering

LEMMA SubsetInduction ==
  ASSUME NEW S, IsFiniteSet(S), NEW P, {} \in P,
         \A s \in SUBSET S : \A x \in S \ s : s \in P => s \cup {x} \in P
  PROVE  SUBSET S \subseteq P
<1> DEFINE T == (SUBSET S) \ P
<1> SUFFICES ASSUME T # {} PROVE FALSE
  OBVIOUS
<1>1. T \in SUBSET SUBSET S
  OBVIOUS
<1> HIDE DEF T
<1>2. PICK t \in T : \A u \in T : u \subseteq t => u = t
  BY <1>1, SmallestSubset
<1>3. t \in SUBSET S /\ t \notin P /\ t # {}
  <2>1. t \in T
    BY <1>2
  <2>2. t \in SUBSET S /\ t \notin P
    BY <2>1 DEF T
  <2>3. {} \in P
    OBVIOUS
  <2> QED BY <2>2, <2>3
<1>4. PICK x \in t : TRUE
  BY <1>3
<1>5. t \ {x} \in SUBSET S /\ x \in S \ (t \ {x}) /\ (t \ {x}) \cup {x} = t
  BY <1>3, <1>4
<1>6. t \ {x} \notin T
  BY <1>2, <1>4
<1>7. t \ {x} \in P
  BY <1>5, <1>6 DEF T
<1> QED BY <1>3, <1>5, <1>7

\* The sum of w over S, as a number of things: w[x] of every x.
Things(w, S) == UNION {{x} \X (1..w[x]) : x \in S}
Sum_(w, S)   == Cardinality(Things(w, S))

LEMMA ThingsOf ==
  ASSUME NEW S, IsFiniteSet(S), NEW w, \A x \in S : w[x] \in Nat
  PROVE  IsFiniteSet(Things(w, S)) /\ Sum_(w, S) \in Nat
<1> DEFINE F == {{x} \X (1..w[x]) : x \in S}
<1>1. \A h \in F : IsFiniteSet(h)
  <2> SUFFICES ASSUME NEW x \in S PROVE IsFiniteSet({x} \X (1..w[x]))
    OBVIOUS
  <2>1. IsFiniteSet({x})
    BY FS_Singleton
  <2>0. w[x] \in Int /\ 1 \in Int
    OBVIOUS
  <2>2. IsFiniteSet(1..w[x])
    BY <2>0, FS_Interval
  <2> QED BY <2>1, <2>2, FS_Product
<1>2. IsFiniteSet(F)
  <2> DEFINE pile == [x \in S |-> {x} \X (1..w[x])]
  <2>1. pile \in [S -> F]
    OBVIOUS
  <2>2. pile \in Surjection(S, F)
    BY DEF Surjection
  <2> HIDE DEF F, pile
  <2> QED BY <2>2, FS_Surjection
<1>3. IsFiniteSet(UNION F)
  <2> HIDE DEF F
  <2> QED BY <1>1, <1>2, FS_UNION
<1> QED BY <1>3, FS_CardinalityType DEF Things, Sum_

LEMMA SumOfNothing == ASSUME NEW w PROVE Sum_(w, {}) = 0
<1>1. Things(w, {}) = {}
  BY DEF Things
<1> QED BY <1>1, FS_EmptySet DEF Sum_

LEMMA SumOfOne ==
  ASSUME NEW w, NEW x, w[x] \in Nat
  PROVE  Sum_(w, {x}) = w[x]
<1>1. Things(w, {x}) = {x} \X (1..w[x])
  BY DEF Things
<1>2. IsFiniteSet({x}) /\ Cardinality({x}) = 1
  BY FS_Singleton
<1>3. IsFiniteSet(1..w[x]) /\ Cardinality(1..w[x]) = w[x]
  <2>1. IsFiniteSet(1..w[x]) /\ Cardinality(1..w[x]) = IF 1 > w[x] THEN 0 ELSE w[x] - 1 + 1
    <3>1. w[x] \in Int /\ 1 \in Int
      OBVIOUS
    <3> QED BY <3>1, FS_Interval
  <2> QED BY <2>1
<1>4. Cardinality({x} \X (1..w[x])) = 1 * w[x]
  <2>1. Cardinality({x} \X (1..w[x])) = Cardinality({x}) * Cardinality(1..w[x])
    BY <1>2, <1>3, FS_Product
  <2> QED BY <1>2, <1>3, <2>1
<1>5. 1 * w[x] = w[x]
  OBVIOUS
<1> QED BY <1>1, <1>4, <1>5 DEF Sum_

LEMMA SumOfBoth ==
  ASSUME NEW A, NEW B, IsFiniteSet(A), IsFiniteSet(B), A \cap B = {},
         NEW w, \A x \in A \cup B : w[x] \in Nat
  PROVE  Sum_(w, A \cup B) = Sum_(w, A) + Sum_(w, B)
<1>1. Things(w, A \cup B) = Things(w, A) \cup Things(w, B)
  BY DEF Things
<1>2. Things(w, A) \cap Things(w, B) = {}
  <2> SUFFICES ASSUME NEW p, p \in Things(w, A), p \in Things(w, B) PROVE FALSE
    OBVIOUS
  <2>1. p[1] \in A /\ p[1] \in B
    BY DEF Things
  <2> QED BY <2>1
<1>3. /\ IsFiniteSet(Things(w, A)) /\ Sum_(w, A) \in Nat
      /\ IsFiniteSet(Things(w, B)) /\ Sum_(w, B) \in Nat
  BY ThingsOf
<1>4. Cardinality(Things(w, A) \cup Things(w, B))
        = Cardinality(Things(w, A)) + Cardinality(Things(w, B)) - Cardinality(Things(w, A) \cap Things(w, B))
  BY <1>3, FS_Union
<1>5. Cardinality(Things(w, A) \cap Things(w, B)) = 0
  BY <1>2, FS_EmptySet
<1>6. /\ Sum_(w, A) = Cardinality(Things(w, A)) /\ Sum_(w, B) = Cardinality(Things(w, B))
      /\ Sum_(w, A \cup B) = Cardinality(Things(w, A) \cup Things(w, B))
  BY <1>1 DEF Sum_
<1> QED BY <1>3, <1>4, <1>5, <1>6

LEMMA SumOfMore ==
  ASSUME NEW A, IsFiniteSet(A), NEW x, x \notin A, NEW w, \A y \in A \cup {x} : w[y] \in Nat
  PROVE  Sum_(w, A \cup {x}) = Sum_(w, A) + w[x]
<1>1. IsFiniteSet({x}) /\ A \cap {x} = {}
  BY FS_Singleton
<1> QED BY <1>1, SumOfBoth, SumOfOne

LEMMA SumOfFewer ==
  ASSUME NEW B, IsFiniteSet(B), NEW A \in SUBSET B, NEW w, \A x \in B : w[x] \in Nat
  PROVE  Sum_(w, A) <= Sum_(w, B)
<1>1. Things(w, A) \subseteq Things(w, B)
  BY DEF Things
<1> QED BY <1>1, ThingsOf, FS_Subset DEF Sum_

LEMMA SumOfSame ==
  ASSUME NEW S, NEW w, NEW v, \A x \in S : w[x] = v[x]
  PROVE  Sum_(w, S) = Sum_(v, S)
<1>1. Things(w, S) = Things(v, S)
  BY DEF Things
<1> QED BY <1>1 DEF Sum_

\* What the folds of the community modules compute.
Folds_(g, S, w) ==
  g = [s \in SUBSET S |-> IF s = {} THEN 0
                          ELSE w[CHOOSE x \in s : TRUE] + g[s \ {CHOOSE x \in s : TRUE}]]

LEMMA FoldIsSum ==
  ASSUME NEW S, IsFiniteSet(S), NEW w, \A x \in S : w[x] \in Nat
  PROVE  /\ \E g : Folds_(g, S, w)
         /\ \A g : Folds_(g, S, w) => g[S] = Sum_(w, S)
<1>0. ASSUME NEW s \in SUBSET S, s # {}
      PROVE  LET x == CHOOSE x \in s : TRUE
             IN x \in s /\ Sum_(w, s) = w[x] + Sum_(w, s \ {x})
  <2> DEFINE x == CHOOSE y \in s : TRUE
  <2>1. x \in s
    BY <1>0
  <2> HIDE DEF x
  <2>2. IsFiniteSet(s \ {x}) /\ (s \ {x}) \cup {x} = s /\ x \notin s \ {x}
    BY <2>1, FS_Subset
  <2>3. Sum_(w, s) = Sum_(w, s \ {x}) + w[x]
    BY <2>1, <2>2, SumOfMore
  <2>4. Sum_(w, s \ {x}) \in Nat
    BY <2>2, ThingsOf
  <2>5. x \in s /\ Sum_(w, s) = w[x] + Sum_(w, s \ {x})
    BY <2>1, <2>3, <2>4
  <2> QED BY <2>5 DEF x
<1>1. Folds_([s \in SUBSET S |-> Sum_(w, s)], S, w)
  <2> DEFINE g == [s \in SUBSET S |-> Sum_(w, s)]
  <2>1. ASSUME NEW s \in SUBSET S
        PROVE g[s] = IF s = {} THEN 0
                     ELSE w[CHOOSE x \in s : TRUE] + g[s \ {CHOOSE x \in s : TRUE}]
    BY <1>0, <2>1, SumOfNothing
  <2> QED BY <2>1 DEF Folds_
<1>2. ASSUME NEW g, Folds_(g, S, w) PROVE g[S] = Sum_(w, S)
  <2> DEFINE T == {s \in SUBSET S : g[s] # Sum_(w, s)}
  <2> SUFFICES ASSUME T # {} PROVE FALSE
    OBVIOUS
  <2>1. T \in SUBSET SUBSET S
    OBVIOUS
  <2> HIDE DEF T
  <2>2. PICK t \in T : \A u \in T : u \subseteq t => u = t
    BY <2>1, SmallestSubset
  <2>3. t \in SUBSET S /\ g[t] # Sum_(w, t)
    BY <2>2 DEF T
  <2>4. g[t] = IF t = {} THEN 0 ELSE w[CHOOSE x \in t : TRUE] + g[t \ {CHOOSE x \in t : TRUE}]
    BY <1>2, <2>3 DEF Folds_
  <2>5. t # {}
    BY <2>3, <2>4, SumOfNothing
  <2> DEFINE x == CHOOSE x \in t : TRUE
  <2>6. x \in t /\ Sum_(w, t) = w[x] + Sum_(w, t \ {x})
    BY <1>0, <2>3, <2>5
  <2>7. g[t] = w[x] + g[t \ {x}]
    BY <2>4, <2>5
  <2> HIDE DEF x
  <2>8. t \ {x} \notin T /\ t \ {x} \in SUBSET S
    BY <2>2, <2>3, <2>6
  <2>9. g[t \ {x}] = Sum_(w, t \ {x})
    BY <2>8 DEF T
  <2> QED BY <2>3, <2>6, <2>7, <2>9
<1> QED BY <1>1, <1>2

LEMMA ImageIsFinite ==
  ASSUME NEW S, IsFiniteSet(S), NEW key
  PROVE  IsFiniteSet({key[x] : x \in S})
<1> DEFINE K == {key[x] : x \in S}
           f == [x \in S |-> key[x]]
<1>1. f \in Surjection(S, K)
  BY DEF Surjection
<1> HIDE DEF f, K
<1>2. IsFiniteSet(K)
  BY <1>1, FS_Surjection
<1> QED BY <1>2 DEF K

\* A sum may be taken group by group, groups of nothing included.
Partition(of, K, S) ==
  /\ \A k \in K : of[k] \in SUBSET S
  /\ \A x \in S : \E k \in K : x \in of[k]
  /\ \A k, j \in K : k # j => of[k] \cap of[j] = {}

LEMMA SumByGroup ==
  ASSUME NEW S, IsFiniteSet(S), NEW w, \A x \in S : w[x] \in Nat,
         NEW K, IsFiniteSet(K), NEW of, Partition(of, K, S),
         NEW part, \A k \in K : part[k] = Sum_(w, of[k])
  PROVE  (\A k \in K : part[k] \in Nat) /\ Sum_(part, K) = Sum_(w, S)
<1> DEFINE All(J) == {x \in S : \E k \in J : x \in of[k]}
           P == {J \in SUBSET K : Sum_(part, J) = Sum_(w, All(J))}
<1>1. \A k \in K : IsFiniteSet(of[k]) /\ part[k] \in Nat
  <2> SUFFICES ASSUME NEW k \in K PROVE IsFiniteSet(of[k]) /\ Sum_(w, of[k]) \in Nat
    OBVIOUS
  <2>1. of[k] \in SUBSET S
    BY DEF Partition
  <2>2. IsFiniteSet(of[k])
    BY <2>1, FS_Subset
  <2> QED BY <2>1, <2>2, ThingsOf
<1>2. {} \in P
  <2>1. All({}) = {}
    OBVIOUS
  <2> QED BY <2>1, SumOfNothing
<1>3. ASSUME NEW J \in SUBSET K, NEW k \in K \ J, J \in P PROVE J \cup {k} \in P
  <2> DEFINE A == All(J)
             B == of[k]
  <2>1. All(J \cup {k}) = A \cup B /\ A \cap B = {} /\ A \in SUBSET S /\ B \in SUBSET S
    BY DEF Partition
  <2>2. Sum_(part, J) = Sum_(w, A) /\ part[k] = Sum_(w, B)
    BY <1>3
  <2> HIDE DEF A, B
  <2>3. IsFiniteSet(A) /\ IsFiniteSet(B) /\ IsFiniteSet(J)
    BY <2>1, FS_Subset
  <2>4. Sum_(w, A \cup B) = Sum_(w, A) + Sum_(w, B)
    BY <2>1, <2>3, SumOfBoth
  <2>5. Sum_(part, J \cup {k}) = Sum_(part, J) + part[k]
    BY <1>1, <2>3, SumOfMore
  <2> QED BY <2>1, <2>2, <2>4, <2>5
<1>4. K \in P
  <2>1. \A J \in SUBSET K : \A k \in K \ J : J \in P => J \cup {k} \in P
    BY <1>3
  <2> HIDE DEF P
  <2>2. SUBSET K \subseteq P
    BY <1>2, <2>1, SubsetInduction
  <2> QED BY <2>2
<1>5. All(K) = S
  BY DEF Partition
<1> QED BY <1>1, <1>4, <1>5

\* A sum of sums, and of multiples.
LEMMA SumOfSums ==
  ASSUME NEW S, IsFiniteSet(S), NEW u, NEW v, NEW w,
         \A x \in S : u[x] \in Nat /\ v[x] \in Nat /\ w[x] = u[x] + v[x]
  PROVE  Sum_(w, S) = Sum_(u, S) + Sum_(v, S)
<1> DEFINE P == {s \in SUBSET S : Sum_(w, s) = Sum_(u, s) + Sum_(v, s)}
<1>1. {} \in P
  BY SumOfNothing
<1>2. ASSUME NEW s \in SUBSET S, NEW x \in S \ s, s \in P PROVE s \cup {x} \in P
  <2>1. IsFiniteSet(s) /\ x \notin s
    BY FS_Subset
  <2>0. \A y \in s \cup {x} : u[y] \in Nat /\ v[y] \in Nat /\ w[y] \in Nat
    OBVIOUS
  <2>2. /\ Sum_(w, s \cup {x}) = Sum_(w, s) + w[x]
        /\ Sum_(u, s \cup {x}) = Sum_(u, s) + u[x]
        /\ Sum_(v, s \cup {x}) = Sum_(v, s) + v[x]
    BY <2>0, <2>1, SumOfMore
  <2>3. Sum_(w, s) \in Nat /\ Sum_(u, s) \in Nat /\ Sum_(v, s) \in Nat
    BY <2>0, <2>1, ThingsOf
  <2>4. Sum_(w, s) = Sum_(u, s) + Sum_(v, s) /\ w[x] = u[x] + v[x] /\ u[x] \in Nat /\ v[x] \in Nat
    BY <1>2
  <2> QED BY <2>2, <2>3, <2>4
<1>3. S \in P
  <2> HIDE DEF P
  <2> QED BY <1>1, <1>2, SubsetInduction
<1> QED BY <1>3

LEMMA SumOfMultiples ==
  ASSUME NEW S, IsFiniteSet(S), NEW w, NEW v, NEW r \in Nat,
         \A x \in S : w[x] \in Nat /\ v[x] = w[x] * r
  PROVE  Sum_(v, S) = Sum_(w, S) * r
<1> DEFINE P == {s \in SUBSET S : Sum_(v, s) = Sum_(w, s) * r}
<1>1. {} \in P
  <2>1. 0 * r = 0
    OBVIOUS
  <2> QED BY <2>1, SumOfNothing
<1>2. ASSUME NEW s \in SUBSET S, NEW x \in S \ s, s \in P PROVE s \cup {x} \in P
  <2>1. IsFiniteSet(s) /\ x \notin s
    BY FS_Subset
  <2>2. \A y \in S : v[y] \in Nat
    OBVIOUS
  <2>3. /\ Sum_(w, s \cup {x}) = Sum_(w, s) + w[x]
        /\ Sum_(v, s \cup {x}) = Sum_(v, s) + v[x]
    BY <2>1, <2>2, SumOfMore
  <2>4. Sum_(w, s) \in Nat
    BY <2>1, ThingsOf
  <2>5. (Sum_(w, s) + w[x]) * r = Sum_(w, s) * r + w[x] * r
    BY <2>4
  <2>6. Sum_(v, s) = Sum_(w, s) * r /\ v[x] = w[x] * r
    BY <1>2
  <2> QED BY <2>3, <2>5, <2>6
<1>3. S \in P
  <2>1. \A s \in SUBSET S : \A x \in S \ s : s \in P => s \cup {x} \in P
    BY <1>2
  <2> HIDE DEF P
  <2>2. SUBSET S \subseteq P
    BY <1>1, <2>1, SubsetInduction
  <2> QED BY <2>2
<1> QED BY <1>3

LEMMA SumOfZeros ==
  ASSUME NEW S, NEW w, \A x \in S : w[x] = 0
  PROVE  Sum_(w, S) = 0
<1>1. Things(w, S) = {}
  <2>1. 1..0 = {}
    OBVIOUS
  <2>2. \A x \in S : {x} \X (1..w[x]) = {}
    BY <2>1
  <2> QED BY <2>2 DEF Things
<1> QED BY <1>1, FS_EmptySet DEF Sum_

LEMMA SumOfIsSum ==
  ASSUME NEW S, NEW what, IsFiniteSet(S), \A e \in S : Measured(e.row, what) \in Nat
  PROVE  SumOf(S, what) = Sum_([e \in S |-> Measured(e.row, what)], S)
<1> DEFINE w == [e \in S |-> Measured(e.row, what)]
           Fold(g) == g = [s \in SUBSET S |->
                     IF s = {} THEN 0
                     ELSE Measured((CHOOSE x \in s : TRUE).row, what) + g[s \ {CHOOSE x \in s : TRUE}]]
<1>1. \A g : Fold(g) <=> Folds_(g, S, w)
  <2> SUFFICES ASSUME NEW g PROVE Fold(g) <=> Folds_(g, S, w)
    OBVIOUS
  <2>1. \A s \in SUBSET S : s # {} => w[CHOOSE x \in s : TRUE] = Measured((CHOOSE x \in s : TRUE).row, what)
    OBVIOUS
  <2> QED BY <2>1 DEF Folds_
<1>2. SumOf(S, what) = (CHOOSE g : Fold(g))[S]
  BY DEF SumOf, MapThenSumSet, MapThenFoldSet
<1>3. (\E g : Folds_(g, S, w)) /\ \A g : Folds_(g, S, w) => g[S] = Sum_(w, S)
  <2>1. \A x \in S : w[x] \in Nat
    OBVIOUS
  <2> HIDE DEF w
  <2> QED BY <2>1, FoldIsSum
<1> QED
  <2> HIDE DEF Fold, w
  <2>1. SumOf(S, what) = Sum_(w, S)
    BY <1>1, <1>2, <1>3
  <2> QED BY <2>1 DEF w

LEMMA TotalIsSum ==
  ASSUME NEW p, NEW S, S = DOMAIN p, IsFiniteSet(S), \A k \in S : p[k] \in Nat
  PROVE  Total(p) = Sum_([k \in S |-> p[k]], S)
<1> DEFINE w == [k \in S |-> p[k]]
           Fold(g) == g = [s \in SUBSET S |->
                     IF s = {} THEN 0
                     ELSE p[(CHOOSE x \in s : TRUE)] + g[s \ {CHOOSE x \in s : TRUE}]]
<1>1. \A g : Fold(g) <=> Folds_(g, S, w)
  <2> SUFFICES ASSUME NEW g PROVE Fold(g) <=> Folds_(g, S, w)
    OBVIOUS
  <2>1. \A s \in SUBSET S : s # {} => w[CHOOSE x \in s : TRUE] = p[(CHOOSE x \in s : TRUE)]
    OBVIOUS
  <2> QED BY <2>1 DEF Folds_
<1>2. Total(p) = (CHOOSE g : Fold(g))[S]
  BY DEF Total, MapThenSumSet, MapThenFoldSet
<1>3. (\E g : Folds_(g, S, w)) /\ \A g : Folds_(g, S, w) => g[S] = Sum_(w, S)
  <2>1. \A x \in S : w[x] \in Nat
    OBVIOUS
  <2> HIDE DEF w
  <2> QED BY <2>1, FoldIsSum
<1> QED
  <2> HIDE DEF Fold, w
  <2>1. Total(p) = Sum_(w, S)
    BY <1>1, <1>2, <1>3
  <2> QED BY <2>1 DEF w

LEMMA CostOfIsSum ==
  ASSUME NEW o, NEW p, NEW S, IsFiniteSet(S), \A k \in S : GroupEstimate(o, p, k).cost \in Nat
  PROVE  CostOf(o, p, S) = Sum_([k \in S |-> GroupEstimate(o, p, k).cost], S)
<1> DEFINE w == [k \in S |-> GroupEstimate(o, p, k).cost]
           Fold(g) == g = [s \in SUBSET S |->
                     IF s = {} THEN 0
                     ELSE GroupEstimate(o, p, (CHOOSE x \in s : TRUE)).cost + g[s \ {CHOOSE x \in s : TRUE}]]
<1>1. \A g : Fold(g) <=> Folds_(g, S, w)
  <2> SUFFICES ASSUME NEW g PROVE Fold(g) <=> Folds_(g, S, w)
    OBVIOUS
  <2>1. \A s \in SUBSET S : s # {} => w[CHOOSE x \in s : TRUE] = GroupEstimate(o, p, (CHOOSE x \in s : TRUE)).cost
    OBVIOUS
  <2> QED BY <2>1 DEF Folds_
<1>2. CostOf(o, p, S) = (CHOOSE g : Fold(g))[S]
  BY DEF CostOf, MapThenSumSet, MapThenFoldSet
<1>3. (\E g : Folds_(g, S, w)) /\ \A g : Folds_(g, S, w) => g[S] = Sum_(w, S)
  <2>1. \A x \in S : w[x] \in Nat
    OBVIOUS
  <2> HIDE DEF w
  <2> QED BY <2>1, FoldIsSum
<1> QED
  <2> HIDE DEF Fold, w
  <2>1. CostOf(o, p, S) = Sum_(w, S)
    BY <1>1, <1>2, <1>3
  <2> QED BY <2>1 DEF w

LEMMA RowCostsAreSum ==
  ASSUME NEW S, IsFiniteSet(S), \A e \in S : RowCost(e) \in Nat
  PROVE  MapThenSumSet(RowCost, S) = Sum_([e \in S |-> RowCost(e)], S)
<1> DEFINE w == [e \in S |-> RowCost(e)]
           Fold(g) == g = [s \in SUBSET S |->
                     IF s = {} THEN 0
                     ELSE RowCost((CHOOSE x \in s : TRUE)) + g[s \ {CHOOSE x \in s : TRUE}]]
<1>1. \A g : Fold(g) <=> Folds_(g, S, w)
  <2> SUFFICES ASSUME NEW g PROVE Fold(g) <=> Folds_(g, S, w)
    OBVIOUS
  <2>1. \A s \in SUBSET S : s # {} => w[CHOOSE x \in s : TRUE] = RowCost((CHOOSE x \in s : TRUE))
    OBVIOUS
  <2> QED BY <2>1 DEF Folds_
<1>2. MapThenSumSet(RowCost, S) = (CHOOSE g : Fold(g))[S]
  BY DEF MapThenSumSet, MapThenFoldSet
<1>3. (\E g : Folds_(g, S, w)) /\ \A g : Folds_(g, S, w) => g[S] = Sum_(w, S)
  <2>1. \A x \in S : w[x] \in Nat
    OBVIOUS
  <2> HIDE DEF w
  <2> QED BY <2>1, FoldIsSum
<1> QED
  <2> HIDE DEF Fold, w
  <2>1. MapThenSumSet(RowCost, S) = Sum_(w, S)
    BY <1>1, <1>2, <1>3
  <2> QED BY <2>1 DEF w

-----------------------------------------------------------------------------
(* Groups, days and prices *)

\* A finite set of rows with their tokens, and an answer that adds up to it.
Counted(es, what)   == IsFiniteSet(es) /\ \A e \in es : Measured(e.row, what) \in Nat
AddsUp(p, es, what) ==
  /\ IsFiniteSet(DOMAIN p) /\ \A k \in DOMAIN p : p[k] \in Nat
  /\ Total(p) = SumOf(es, what)

LEMMA SumsOf ==
  ASSUME NEW es, NEW what, Counted(es, what), NEW some \in SUBSET es
  PROVE  /\ Counted(some, what)
         /\ SumOf(some, what) = Sum_([e \in es |-> Measured(e.row, what)], some)
         /\ SumOf(some, what) \in Nat
         /\ SumOf(some, what) <= SumOf(es, what)
<1> DEFINE w == [e \in es |-> Measured(e.row, what)]
<1>1. Counted(some, what)
  BY FS_Subset DEF Counted
<1>2. SumOf(some, what) = Sum_([e \in some |-> Measured(e.row, what)], some)
  BY <1>1, SumOfIsSum DEF Counted
<1>3. Sum_([e \in some |-> Measured(e.row, what)], some) = Sum_(w, some)
  <2> DEFINE v == [e \in some |-> Measured(e.row, what)]
  <2>1. \A e \in some : v[e] = w[e]
    OBVIOUS
  <2> HIDE DEF v, w
  <2>2. Sum_(v, some) = Sum_(w, some)
    BY <2>1, SumOfSame
  <2> QED BY <2>2 DEF v
<1>4. SumOf(es, what) = Sum_(w, es)
  BY SumOfIsSum DEF Counted
<1>5. IsFiniteSet(es) /\ \A e \in es : w[e] \in Nat
  BY DEF Counted
<1>6. Sum_(w, some) \in Nat
  <2>1. IsFiniteSet(some) /\ \A e \in some : w[e] \in Nat
    BY <1>1, <1>5 DEF Counted
  <2> HIDE DEF w
  <2> QED BY <2>1, ThingsOf
<1>7. Sum_(w, some) <= Sum_(w, es)
  <2> HIDE DEF w
  <2> QED BY <1>5, SumOfFewer
<1> QED BY <1>1, <1>2, <1>3, <1>4, <1>6, <1>7

LEMMA SumOfNoRows ==
  ASSUME NEW what
  PROVE  SumOf({}, what) = 0
<1> DEFINE w == [e \in {} |-> Measured(e.row, what)]
<1>1. SumOf({}, what) = Sum_(w, {})
  BY SumOfIsSum, FS_EmptySet
<1> QED BY <1>1, SumOfNothing

LEMMA TotalOf ==
  ASSUME NEW p, IsFiniteSet(DOMAIN p), \A k \in DOMAIN p : p[k] \in Nat
  PROVE  Total(p) = Sum_(p, DOMAIN p) /\ Sum_(p, DOMAIN p) \in Nat
<1> DEFINE K == DOMAIN p
           v == [k \in K |-> p[k]]
<1>1. Total(p) = Sum_(v, K)
  BY TotalIsSum
<1>2. \A k \in K : v[k] = p[k]
  OBVIOUS
<1> HIDE DEF v
<1>3. Sum_(v, K) = Sum_(p, K)
  BY <1>2, SumOfSame
<1> QED BY <1>1, <1>3, ThingsOf

\* The numbers of a partition of rows add up to all of them.
LEMMA PartitionAddsUp ==
  ASSUME NEW es, NEW what, Counted(es, what), NEW K, IsFiniteSet(K), NEW of, Partition(of, K, es),
         NEW p, DOMAIN p = K, \A k \in K : p[k] = SumOf(of[k], what)
  PROVE  AddsUp(p, es, what)
<1> DEFINE w == [e \in es |-> Measured(e.row, what)]
<1>1. IsFiniteSet(es) /\ \A e \in es : w[e] \in Nat
  BY DEF Counted
<1>2. \A k \in K : p[k] = Sum_(w, of[k])
  <2> SUFFICES ASSUME NEW k \in K PROVE SumOf(of[k], what) = Sum_(w, of[k])
    OBVIOUS
  <2>1. of[k] \in SUBSET es
    BY DEF Partition
  <2> QED BY <2>1, SumsOf
<1>3. SumOf(es, what) = Sum_(w, es)
  BY SumsOf
<1>4. (\A k \in K : p[k] \in Nat) /\ Sum_(p, K) = Sum_(w, es)
  <2> HIDE DEF w
  <2> QED BY <1>1, <1>2, SumByGroup
<1>5. Total(p) = Sum_(p, K)
  BY <1>4, TotalOf
<1> QED BY <1>3, <1>4, <1>5 DEF AddsUp

LEMMA KeysOf ==
  ASSUME NEW es, IsFiniteSet(es), NEW column
  PROVE  IsFiniteSet({GroupKey(e, column) : e \in es})
<1> DEFINE key == [e \in es |-> GroupKey(e, column)]
<1>1. {key[e] : e \in es} = {GroupKey(e, column) : e \in es}
  OBVIOUS
<1>2. IsFiniteSet({key[e] : e \in es})
  <2> HIDE DEF key
  <2> QED BY ImageIsFinite
<1> QED BY <1>1, <1>2

\* The rows of each group.
Members(es, column) ==
  [k \in {GroupKey(e, column) : e \in es} |-> {e \in es : GroupKey(e, column) = k}]

LEMMA GroupsArePartition ==
  ASSUME NEW es, NEW column, NEW what
  PROVE  /\ DOMAIN Grouped(es, column, what) = DOMAIN Members(es, column)
         /\ Partition(Members(es, column), DOMAIN Grouped(es, column, what), es)
         /\ \A k \in DOMAIN Grouped(es, column, what) :
              Grouped(es, column, what)[k] = SumOf(Members(es, column)[k], what)
BY DEF Grouped, Members, Partition

LEMMA GroupsAddUp ==
  ASSUME NEW es, NEW what, Counted(es, what), NEW column
  PROVE  AddsUp(Grouped(es, column, what), es, what)
<1> DEFINE p == Grouped(es, column, what)
           K == DOMAIN p
           of == Members(es, column)
<1>1. IsFiniteSet(K)
  BY KeysOf DEF Grouped, Counted
<1>2. Partition(of, K, es) /\ \A k \in K : p[k] = SumOf(of[k], what)
  BY GroupsArePartition
<1> HIDE DEF of, p
<1>3. AddsUp(p, es, what)
  BY <1>1, <1>2, PartitionAddsUp
<1> QED BY <1>3 DEF p

\* The calendar.
LEMMA DaysOf ==
  ASSUME NEW x \in Int, NEW n \in Nat \ {0}
  PROVE  /\ x \div n \in Int
         /\ \A k \in Int : k * n <= x <=> k <= x \div n
<1>1. x \div n \in Int
  OBVIOUS
<1>2. n * (x \div n) <= x /\ x < n * (x \div n) + n
  OBVIOUS
<1>3. ASSUME NEW k \in Int, NEW d \in Int, n * d <= x, x < n * d + n
      PROVE  k * n <= x <=> k <= d
  <2>1. CASE k <= d
    <3>1. k * n <= d * n
      BY <2>1
    <3> QED BY <1>3, <2>1, <3>1
  <2>2. CASE k >= d + 1
    <3>1. k * n >= (d + 1) * n
      BY <2>2
    <3>2. (d + 1) * n = n * d + n
      OBVIOUS
    <3> QED BY <1>3, <2>2, <3>1, <3>2
  <2> QED BY <2>1, <2>2
<1> QED BY <1>1, <1>2, <1>3

LEMMA LocalTimes ==
  /\ \A t \in Int : Local(t) \in Int /\ LocalDay(t) \in Int
  /\ \A s, t \in Int : s <= t => Local(s) <= Local(t)
  /\ \A s, t \in Int : s < t => Local(s) < Local(t)
  /\ DayTicks \in Nat \ {0} /\ MaxTick \in Nat /\ WeekDays \in Nat
<1> USE ClockAssumption
<1>1. Offset \in Int /\ ClockChange \in Int
  OBVIOUS
<1>2. \A t \in Int : Local(t) \in Int
  BY <1>1 DEF Local
<1>3. \A t \in Int : LocalDay(t) \in Int
  BY <1>2, DaysOf DEF LocalDay
<1>4. \A s, t \in Int : s < t => Local(s) < Local(t)
  BY <1>1 DEF Local
<1>5. \A s, t \in Int : s <= t => Local(s) <= Local(t)
  <2> SUFFICES ASSUME NEW s \in Int, NEW t \in Int, s <= t PROVE Local(s) <= Local(t)
    OBVIOUS
  <2>1. CASE s = t
    BY <1>2, <2>1
  <2>2. CASE s < t
    BY <1>2, <1>4, <2>2
  <2> QED BY <2>1, <2>2
<1> QED BY <1>2, <1>3, <1>4, <1>5

\* The days of a bounded page are those of what it selects.
LEMMA DaysBetween ==
  ASSUME NEW first \in Int, NEW final \in Int, HasMidnight(first), HasMidnight(final + 1),
         NEW t \in Int, Midnight(first) <= t, t < Midnight(final + 1)
  PROVE  LocalDay(t) \in first..final
<1>1. ASSUME NEW day \in Int, HasMidnight(day)
      PROVE  Midnight(day) \in Int /\ Local(Midnight(day)) = day * DayTicks
  <2>1. Midnights(day) # {}
    BY <1>1, FS_EmptySet DEF HasMidnight
  <2>2. Midnight(day) \in Midnights(day)
    BY <2>1 DEF Midnight
  <2>3. Ticks \subseteq Int
    BY DEF Ticks
  <2> QED BY <2>2, <2>3 DEF Midnights
<1>2. first * DayTicks <= Local(t)
  BY <1>1, LocalTimes
<1>3. Local(t) < (final + 1) * DayTicks
  <2>1. final + 1 \in Int
    OBVIOUS
  <2>2. Midnight(final + 1) \in Int /\ Local(Midnight(final + 1)) = (final + 1) * DayTicks
    BY <1>1, <2>1
  <2> QED BY <2>2, LocalTimes
<1>4. first <= LocalDay(t)
  BY <1>2, LocalTimes, DaysOf DEF LocalDay
<1>5. ~(final + 1 <= LocalDay(t))
  <2>1. ~((final + 1) * DayTicks <= Local(t))
    <3>1. (final + 1) * DayTicks \in Int /\ Local(t) \in Int
      BY LocalTimes
    <3> QED BY <1>3, <3>1
  <2>2. final + 1 \in Int /\ Local(t) \in Int
    BY LocalTimes
  <2> QED BY <2>1, <2>2, LocalTimes, DaysOf DEF LocalDay
<1> QED BY <1>4, <1>5, LocalTimes

LEMMA Extremes ==
  ASSUME NEW S \in SUBSET Int, IsFiniteSet(S), S # {}
  PROVE  /\ Min(S) \in S /\ \A x \in S : Min(S) <= x
         /\ Max(S) \in S /\ \A x \in S : x <= Max(S)
<1> DEFINE P == {s \in SUBSET S : s # {} => /\ \E m \in s : \A x \in s : m <= x
                                            /\ \E m \in s : \A x \in s : x <= m}
<1>1. {} \in P
  OBVIOUS
<1>2. \A s \in SUBSET S : \A y \in S \ s : s \in P => s \cup {y} \in P
  <2> SUFFICES ASSUME NEW s \in SUBSET S, NEW y \in S \ s, s \in P PROVE s \cup {y} \in P
    OBVIOUS
  <2>1. CASE s = {}
    BY <2>1
  <2>2. CASE s # {}
    <3>1. PICK a \in s : \A x \in s : a <= x
      BY <2>2
    <3>2. PICK b \in s : \A x \in s : x <= b
      BY <2>2
    <3>3. \E m \in s \cup {y} : \A x \in s \cup {y} : m <= x
      <4>1. CASE a <= y
        BY <3>1, <4>1
      <4>2. CASE y <= a
        BY <3>1, <4>2
      <4> QED BY <4>1, <4>2
    <3>4. \E m \in s \cup {y} : \A x \in s \cup {y} : x <= m
      <4>1. CASE y <= b
        BY <3>2, <4>1
      <4>2. CASE b <= y
        BY <3>2, <4>2
      <4> QED BY <4>1, <4>2
    <3> QED BY <3>3, <3>4
  <2> QED BY <2>1, <2>2
<1>3. S \in P
  <2> HIDE DEF P
  <2>1. SUBSET S \subseteq P
    BY <1>1, <1>2, SubsetInduction
  <2> QED BY <2>1
<1>4. PICK a \in S : \A x \in S : a <= x
  BY <1>3
<1>5. PICK b \in S : \A x \in S : x <= b
  BY <1>3
<1>6. Min(S) \in S /\ \A x \in S : Min(S) <= x
  BY <1>4 DEF Min
<1>7. Max(S) \in S /\ \A x \in S : x <= Max(S)
  BY <1>5 DEF Max
<1> QED BY <1>6, <1>7

\* What can be added up is a number in every row.
LEMMA Measures ==
  \A row \in Rows :
    /\ row.input \in Nat /\ row.output \in Nat /\ row.cached \in Nat /\ row.cost \in Nat
    /\ Measured(row, "all tokens") = row.input + row.output + row.cached
    /\ Measured(row, "tokens") = row.input + row.output
    /\ Measured(row, "input") = row.input /\ Measured(row, "output") = row.output
    /\ Measured(row, "cached") = row.cached /\ Measured(row, "recorded") = row.cost
    /\ \A what \in {"all tokens", "tokens", "input", "output", "cached", "recorded"} :
         Measured(row, what) \in Nat
<1> SUFFICES ASSUME NEW row \in Rows
             PROVE  /\ row.input \in Nat /\ row.output \in Nat /\ row.cached \in Nat /\ row.cost \in Nat
                    /\ Measured(row, "all tokens") = row.input + row.output + row.cached
                    /\ Measured(row, "tokens") = row.input + row.output
                    /\ Measured(row, "input") = row.input /\ Measured(row, "output") = row.output
                    /\ Measured(row, "cached") = row.cached /\ Measured(row, "recorded") = row.cost
                    /\ \A what \in {"all tokens", "tokens", "input", "output", "cached", "recorded"} :
                         Measured(row, what) \in Nat
  OBVIOUS
<1>1. row.input \in Nat /\ row.output \in Nat /\ row.cached \in Nat /\ row.cost \in Nat
  BY RowsAssumption
<1> QED BY <1>1 DEF Measured

\* The trend of a page: a bounded one shows the days of what it selects.
Spanned(q) ==
  q.bounded => /\ q.first \in Int /\ q.last \in Int
               /\ \A t \in 0..MaxTick : q.from <= t /\ t < q.until => LocalDay(t) \in q.first..q.last

LEMMA TrendAddsUp ==
  ASSUME NEW q, Spanned(q), events \subseteq Event, IsFiniteSet(events)
  PROVE  AddsUp(Trend(q), Selected(q), "all tokens")
<1> DEFINE es == Selected(q)
           days == Grouped(es, "local day", "all tokens")
           span == IF q.bounded THEN q.first..q.last
                   ELSE IF days = <<>> THEN {} ELSE Min(DOMAIN days)..Max(DOMAIN days)
           of == [d \in span |-> {e \in es : LocalDay(e.at) = d}]
           p == Trend(q)
<1>1. es \in SUBSET events
  BY DEF Selected
<1>2. Counted(es, "all tokens")
  <2>1. IsFiniteSet(es)
    BY <1>1, FS_Subset
  <2>2. \A e \in es : Measured(e.row, "all tokens") \in Nat
    BY <1>1, Measures DEF Event
  <2> QED BY <2>1, <2>2 DEF Counted
<1>3. \A e \in es : LocalDay(e.at) \in Int
  BY <1>1, LocalTimes DEF Event
<1>4. DOMAIN days = {LocalDay(e.at) : e \in es}
  BY DEF Grouped, GroupKey
<1>5. IsFiniteSet(DOMAIN days)
  <2> HIDE DEF es
  <2>1. AddsUp(days, es, "all tokens")
    BY <1>2, GroupsAddUp
  <2> QED BY <2>1 DEF AddsUp
<1>6. DOMAIN days \in SUBSET Int
  BY <1>3, <1>4
<1>7. days = <<>> <=> es = {}
  <2>1. es = {} => days = <<>>
    BY DEF Grouped
  <2>2. days = <<>> => es = {}
    <3>1. SUFFICES ASSUME days = <<>> PROVE es = {}
      OBVIOUS
    <3> HIDE DEF days, es
    <3>2. DOMAIN << >> = {}
      OBVIOUS
    <3>3. {LocalDay(e.at) : e \in es} = {}
      BY <1>4, <3>1, <3>2
    <3> QED BY <3>3
  <2> QED BY <2>1, <2>2
<1>8. IsFiniteSet(span) /\ \A e \in es : LocalDay(e.at) \in span
  <2>1. CASE q.bounded
    <3>1. q.first \in Int /\ q.last \in Int
      BY <2>1 DEF Spanned
    <3>2. IsFiniteSet(q.first..q.last)
      BY <3>1, FS_Interval
    <3>3. \A e \in es : LocalDay(e.at) \in q.first..q.last
      BY <2>1 DEF Spanned, Selected, Event
    <3> QED BY <2>1, <3>2, <3>3
  <2>2. CASE ~q.bounded /\ days = <<>>
    <3>1. span = {} /\ es = {}
      BY <1>7, <2>2
    <3> QED BY <3>1, FS_EmptySet
  <2>3. CASE ~q.bounded /\ days # <<>>
    <3> HIDE DEF es, days
    <3>1. DOMAIN days # {}
      BY <1>4, <1>7, <2>3
    <3>2. /\ Min(DOMAIN days) \in Int /\ Max(DOMAIN days) \in Int
          /\ \A d \in DOMAIN days : Min(DOMAIN days) <= d /\ d <= Max(DOMAIN days)
      BY <1>5, <1>6, <3>1, Extremes
    <3>3. span = Min(DOMAIN days)..Max(DOMAIN days)
      BY <2>3
    <3>4. IsFiniteSet(span)
      BY <3>2, <3>3, FS_Interval
    <3>5. \A e \in es : LocalDay(e.at) \in DOMAIN days
      BY <1>4
    <3>6. \A d \in DOMAIN days : d \in Min(DOMAIN days)..Max(DOMAIN days)
      BY <1>6, <3>2
    <3> HIDE DEF span
    <3> QED BY <3>3, <3>4, <3>5, <3>6
  <2> QED BY <2>1, <2>2, <2>3
<1>9. DOMAIN p = span
  BY DEF Trend
<1>10. \A d \in span : p[d] = SumOf(of[d], "all tokens")
  <2> SUFFICES ASSUME NEW d \in span PROVE p[d] = SumOf({e \in es : LocalDay(e.at) = d}, "all tokens")
    OBVIOUS
  <2>2. p[d] = IF d \in DOMAIN days THEN days[d] ELSE 0
    BY DEF Trend
  <2>3. CASE d \in DOMAIN days
    <3>1. days[d] = SumOf({e \in es : LocalDay(e.at) = d}, "all tokens")
      BY <2>3 DEF Grouped, GroupKey
    <3> QED BY <2>2, <2>3, <3>1
  <2>4. CASE d \notin DOMAIN days
    <3>1. {e \in es : LocalDay(e.at) = d} = {}
      BY <1>4, <2>4
    <3>2. SumOf({}, "all tokens") = 0
      BY SumOfNoRows
    <3> QED BY <2>2, <2>4, <3>1, <3>2
  <2> QED BY <2>3, <2>4
<1>11. Partition(of, span, es)
  BY <1>8 DEF Partition
<1> HIDE DEF es, of, span, p
<1>12. AddsUp(p, es, "all tokens")
  BY <1>2, <1>8, <1>9, <1>10, <1>11, PartitionAddsUp
<1> QED BY <1>12 DEF p, es

LEMMA CountedEvents ==
  ASSUME NEW all \in SUBSET Event, IsFiniteSet(all), NEW es \in SUBSET all,
         NEW what \in {"all tokens", "tokens", "input", "output", "cached", "recorded"}
  PROVE  Counted(es, what)
<1>1. IsFiniteSet(es)
  BY FS_Subset
<1>2. \A e \in es : Measured(e.row, what) \in Nat
  BY Measures DEF Event
<1> QED BY <1>1, <1>2 DEF Counted

\* The rows of each provider and model, and the rate and the exact price of a row.
RowRate(o, e)  == Rate(o, Canonical(e.row.provider), e.row.model)
Charge(o, e)   == e.row.input * RowRate(o, e).input + e.row.output * RowRate(o, e).output
Half           == Unit \div 2
PriceLists     == {NoOverrides, Overrides}

LEMMA Rates ==
  \A o \in PriceLists : \A provider, model :
    /\ Rate(o, provider, model).input \in Nat
    /\ Rate(o, provider, model).output \in Nat
<1> SUFFICES ASSUME NEW o \in PriceLists, NEW provider, NEW model
             PROVE  Rate(o, provider, model) \in RateOf
  BY DEF RateOf
<1>1. \A pair \in DOMAIN o : o[pair] \in RateOf
  BY PricesAssumption DEF PriceLists, NoOverrides
<1>2. \A pair \in DOMAIN Catalog : Catalog[pair] \in RateOf
  BY DEF Catalog, RateOf
<1>3. FallbackRate \in RateOf
  BY DEF FallbackRate, RateOf
<1> QED BY <1>1, <1>2, <1>3 DEF Rate

LEMMA RoundedNear ==
  ASSUME NEW x \in Nat
  PROVE  Rounded(x) \in Nat /\ Rounded(x) <= x + Half /\ x <= Rounded(x) + Half
<1>1. Unit \in Nat \ {0} /\ Half \in Nat /\ Unit <= 2 * Half + 1
  BY ClockAssumption DEF Half
<1> DEFINE y == x + Half
           d == y \div Unit
<1>2. d \in Nat /\ Unit * d <= y /\ y < Unit * d + Unit
  BY <1>1
<1>3. Rounded(x) = Unit * d
  BY DEF Rounded, Half
<1> HIDE DEF d
<1>4. Unit * d \in Nat
  BY <1>1, <1>2
<1> QED BY <1>1, <1>2, <1>3, <1>4

\* What is rounded in each place is off by no more than that many roundings.
LEMMA SumOfNear ==
  ASSUME NEW S, IsFiniteSet(S), NEW u, NEW v, NEW h \in Nat,
         \A x \in S : u[x] \in Nat /\ v[x] \in Nat /\ v[x] <= u[x] + h
  PROVE  Sum_(v, S) <= Sum_(u, S) + h * Cardinality(S)
<1> DEFINE P == {s \in SUBSET S : Sum_(v, s) <= Sum_(u, s) + h * Cardinality(s)}
<1>1. {} \in P
  <2>1. h * 0 = 0
    OBVIOUS
  <2> QED BY <2>1, SumOfNothing, FS_EmptySet
<1>2. ASSUME NEW s \in SUBSET S, NEW x \in S \ s, s \in P PROVE s \cup {x} \in P
  <2>1. IsFiniteSet(s) /\ x \notin s
    BY FS_Subset
  <2>2. /\ Sum_(u, s \cup {x}) = Sum_(u, s) + u[x]
        /\ Sum_(v, s \cup {x}) = Sum_(v, s) + v[x]
    BY <2>1, SumOfMore
  <2>3. Sum_(u, s) \in Nat /\ Sum_(v, s) \in Nat
    BY <2>1, ThingsOf
  <2>4. Cardinality(s \cup {x}) = Cardinality(s) + 1 /\ Cardinality(s) \in Nat
    BY <2>1, FS_AddElement, FS_CardinalityType
  <2>5. h * (Cardinality(s) + 1) = h * Cardinality(s) + h /\ h * Cardinality(s) \in Nat
    BY <2>4
  <2>6. Sum_(v, s) <= Sum_(u, s) + h * Cardinality(s) /\ v[x] <= u[x] + h /\ u[x] \in Nat /\ v[x] \in Nat
    BY <1>2
  <2>7. Sum_(v, s \cup {x}) <= Sum_(u, s \cup {x}) + h * Cardinality(s \cup {x})
    BY <2>2, <2>3, <2>4, <2>5, <2>6
  <2> QED BY <2>7
<1>3. S \in P
  <2>1. \A s \in SUBSET S : \A x \in S \ s : s \in P => s \cup {x} \in P
    BY <1>2
  <2> HIDE DEF P
  <2>2. SUBSET S \subseteq P
    BY <1>1, <2>1, SubsetInduction
  <2> QED BY <2>2
<1> QED BY <1>3

\* The exact price of what goes in and comes out.
LEMMA PriceOf ==
  ASSUME NEW o \in PriceLists, NEW provider, NEW model, NEW input \in Nat, NEW output \in Nat
  PROVE  /\ Exact(o, provider, model, input, output) \in Nat
         /\ Estimate(o, provider, model, input, output).cost =
              Rounded(Exact(o, provider, model, input, output))
         /\ Estimate(o, provider, model, input, output).cost \in Nat
<1> DEFINE rate == Rate(o, Canonical(provider), model)
<1>1. rate.input \in Nat /\ rate.output \in Nat
  BY Rates
<1>2. Exact(o, provider, model, input, output) = input * rate.input + output * rate.output
  BY DEF Exact
<1> HIDE DEF rate
<1>3. input * rate.input \in Nat /\ output * rate.output \in Nat
  BY <1>1
<1>4. Exact(o, provider, model, input, output) \in Nat
  BY <1>2, <1>3
<1>5. Estimate(o, provider, model, input, output).cost = Rounded(Exact(o, provider, model, input, output))
  BY DEF Estimate
<1> QED BY <1>4, <1>5, RoundedNear

\* Rows and what the statement makes of them.
Table(es) == es \in SUBSET Event /\ IsFiniteSet(es)

LEMMA TableCounts ==
  ASSUME NEW es, Table(es)
  PROVE  /\ Counted(es, "input") /\ Counted(es, "output") /\ Counted(es, "tokens")
         /\ Counted(es, "cached") /\ Counted(es, "all tokens") /\ Counted(es, "recorded")
<1>1. \A what \in {"all tokens", "tokens", "input", "output", "cached", "recorded"} : Counted(es, what)
  BY CountedEvents DEF Table
<1> QED BY <1>1

LEMMA ModelGroups ==
  ASSUME NEW es, Table(es)
  PROVE  /\ DOMAIN ByModel(es) = DOMAIN Grouped(es, "model", "tokens")
         /\ IsFiniteSet(DOMAIN ByModel(es))
         /\ Partition(Members(es, "model"), DOMAIN ByModel(es), es)
         /\ \A k \in DOMAIN ByModel(es) :
              /\ ByModel(es)[k].input = SumOf(Members(es, "model")[k], "input")
              /\ ByModel(es)[k].output = SumOf(Members(es, "model")[k], "output")
              /\ ByModel(es)[k].input \in Nat /\ ByModel(es)[k].output \in Nat
              /\ Members(es, "model")[k] \in SUBSET es
              /\ \A e \in Members(es, "model")[k] : k = <<e.row.model, e.row.provider>>
<1> DEFINE input == Grouped(es, "model", "input")
           output == Grouped(es, "model", "output")
           of == Members(es, "model")
<1>1. DOMAIN ByModel(es) = DOMAIN input
  BY DEF ByModel
<1>2. DOMAIN input = DOMAIN output /\ DOMAIN input = DOMAIN Grouped(es, "model", "tokens")
  BY DEF Grouped
<1>3. IsFiniteSet(DOMAIN input)
  BY KeysOf DEF Grouped, Table
<1>4. /\ Partition(of, DOMAIN input, es)
      /\ \A k \in DOMAIN input : input[k] = SumOf(of[k], "input") /\ output[k] = SumOf(of[k], "output")
  BY <1>2, GroupsArePartition
<1>5. \A k \in DOMAIN input : ByModel(es)[k].input = input[k] /\ ByModel(es)[k].output = output[k]
  BY DEF ByModel
<1>6. \A k \in DOMAIN input : of[k] \in SUBSET es
  BY <1>4 DEF Partition
<1>7. \A k \in DOMAIN input : SumOf(of[k], "input") \in Nat /\ SumOf(of[k], "output") \in Nat
  <2> HIDE DEF of, input
  <2> QED BY <1>6, TableCounts, SumsOf
<1>8. \A k \in DOMAIN input : \A e \in of[k] : k = <<e.row.model, e.row.provider>>
  BY DEF Members, Grouped, GroupKey
<1> HIDE DEF input, output, of
<1> QED BY <1>1, <1>2, <1>3, <1>4, <1>5, <1>6, <1>7, <1>8 DEF of

LEMMA CostsAreNat ==
  ASSUME NEW o \in PriceLists, NEW es, Table(es)
  PROVE  \A k \in DOMAIN ByModel(es) : GroupEstimate(o, ByModel(es), k).cost \in Nat
BY ModelGroups, PriceOf DEF GroupEstimate

\* Prices are linear in the tokens: but for the rounding, groups cost what their
\* rows cost.
LEMMA GroupCharge ==
  ASSUME NEW o \in PriceLists, NEW G, Table(G), NEW provider, NEW model,
         \A e \in G : e.row.provider = provider /\ e.row.model = model
  PROVE  /\ \A e \in G : Charge(o, e) \in Nat
         /\ Exact(o, provider, model, SumOf(G, "input"), SumOf(G, "output")) =
              Sum_([e \in G |-> Charge(o, e)], G)
<1> DEFINE rate == Rate(o, Canonical(provider), model)
           in == [e \in G |-> Measured(e.row, "input")]
           out == [e \in G |-> Measured(e.row, "output")]
           ins == [e \in G |-> Measured(e.row, "input") * rate.input]
           outs == [e \in G |-> Measured(e.row, "output") * rate.output]
           all == [e \in G |-> Charge(o, e)]
<1>1. rate.input \in Nat /\ rate.output \in Nat /\ IsFiniteSet(G)
  BY Rates DEF Table
<1>2. \A e \in G : /\ e.row.input \in Nat /\ e.row.output \in Nat
                   /\ Measured(e.row, "input") = e.row.input /\ Measured(e.row, "output") = e.row.output
  BY Measures DEF Table, Event
<1>3. SumOf(G, "input") = Sum_(in, G) /\ SumOf(G, "output") = Sum_(out, G)
  BY <1>1, <1>2, SumOfIsSum
<1>4. \A e \in G : Charge(o, e) = e.row.input * rate.input + e.row.output * rate.output
  BY DEF Charge, RowRate
<1>5. Exact(o, provider, model, SumOf(G, "input"), SumOf(G, "output")) =
        SumOf(G, "input") * rate.input + SumOf(G, "output") * rate.output
  BY DEF Exact
<1> HIDE DEF rate
<1>6. \A e \in G : /\ e.row.input * rate.input \in Nat /\ e.row.output * rate.output \in Nat
  BY <1>1, <1>2
<1>7. \A e \in G : /\ in[e] \in Nat /\ ins[e] = in[e] * rate.input /\ ins[e] \in Nat
                   /\ out[e] \in Nat /\ outs[e] = out[e] * rate.output /\ outs[e] \in Nat
                   /\ all[e] = ins[e] + outs[e] /\ all[e] = Charge(o, e)
  BY <1>2, <1>4, <1>6
<1> HIDE DEF in, out, ins, outs, all
<1>8. Sum_(ins, G) = Sum_(in, G) * rate.input /\ Sum_(outs, G) = Sum_(out, G) * rate.output
  BY <1>1, <1>7, SumOfMultiples
<1>9. Sum_(all, G) = Sum_(ins, G) + Sum_(outs, G)
  BY <1>1, <1>7, SumOfSums
<1>10. \A e \in G : Charge(o, e) \in Nat
  BY <1>7
<1> QED BY <1>3, <1>5, <1>8, <1>9, <1>10 DEF all

LEMMA CostsNear ==
  ASSUME NEW o \in PriceLists, NEW es, Table(es)
  PROVE  LET groups == ByModel(es)
             K == DOMAIN groups
             exact == Sum_([e \in es |-> Charge(o, e)], es)
         IN /\ CostOf(o, groups, K) \in Nat /\ exact \in Nat
            /\ \A e \in es : Charge(o, e) \in Nat
            /\ CostOf(o, groups, K) <= exact + Half * Cardinality(K)
            /\ exact <= CostOf(o, groups, K) + Half * Cardinality(K)
<1> DEFINE groups == ByModel(es)
           K == DOMAIN groups
           of == Members(es, "model")
           c == [e \in es |-> Charge(o, e)]
           exact == [k \in K |-> Exact(o, k[2], k[1], groups[k].input, groups[k].output)]
           shown == [k \in K |-> GroupEstimate(o, groups, k).cost]
<1>1. /\ IsFiniteSet(K) /\ Partition(of, K, es)
      /\ \A k \in K : /\ groups[k].input = SumOf(of[k], "input") /\ groups[k].input \in Nat
                      /\ groups[k].output = SumOf(of[k], "output") /\ groups[k].output \in Nat
                      /\ of[k] \in SUBSET es
                      /\ \A e \in of[k] : k = <<e.row.model, e.row.provider>>
  BY ModelGroups
<1>2. \A k \in K : Table(of[k])
  BY <1>1, FS_Subset DEF Table
<1>3. \A k \in K : /\ \A e \in of[k] : Charge(o, e) \in Nat
                   /\ exact[k] = Sum_([e \in of[k] |-> Charge(o, e)], of[k])
  <2> SUFFICES ASSUME NEW k \in K
               PROVE  /\ \A e \in of[k] : Charge(o, e) \in Nat
                      /\ Exact(o, k[2], k[1], groups[k].input, groups[k].output) =
                           Sum_([e \in of[k] |-> Charge(o, e)], of[k])
    OBVIOUS
  <2>1. \A e \in of[k] : e.row.provider = k[2] /\ e.row.model = k[1]
    BY <1>1
  <2>2. /\ groups[k].input = SumOf(of[k], "input") /\ groups[k].output = SumOf(of[k], "output")
        /\ Table(of[k])
    BY <1>1, <1>2
  <2> DEFINE G == of[k]
             provider == k[2]
             model == k[1]
  <2> HIDE DEF of, groups, K, G, provider, model
  <2>3. \A e \in G : e.row.provider = provider /\ e.row.model = model
    BY <2>1 DEF G, provider, model
  <2>4. Table(G)
    BY <2>2 DEF G
  <2>5. /\ \A e \in G : Charge(o, e) \in Nat
        /\ Exact(o, provider, model, SumOf(G, "input"), SumOf(G, "output")) =
             Sum_([e \in G |-> Charge(o, e)], G)
    BY <2>3, <2>4, GroupCharge
  <2> QED BY <2>2, <2>5 DEF G, provider, model
<1>4. \A e \in es : c[e] \in Nat
  <2>1. \A e \in es : \E k \in K : e \in of[k]
    BY <1>1 DEF Partition
  <2> QED BY <1>3, <2>1
<1>5. \A k \in K : exact[k] = Sum_(c, of[k])
  <2> SUFFICES ASSUME NEW k \in K PROVE exact[k] = Sum_(c, of[k])
    OBVIOUS
  <2> DEFINE d == [e \in of[k] |-> Charge(o, e)]
  <2>1. exact[k] = Sum_(d, of[k])
    BY <1>3
  <2>2. \A e \in of[k] : d[e] = c[e]
    BY <1>1
  <2> HIDE DEF d, c, exact
  <2> QED BY <2>1, <2>2, SumOfSame
<1>6. (\A k \in K : exact[k] \in Nat) /\ Sum_(exact, K) = Sum_(c, es)
  <2>1. IsFiniteSet(es)
    BY DEF Table
  <2> HIDE DEF K, of, c, exact
  <2> QED BY <1>1, <1>4, <1>5, <2>1, SumByGroup
<1>7. \A k \in K : shown[k] = Rounded(exact[k]) /\ shown[k] \in Nat
  <2> SUFFICES ASSUME NEW k \in K
               PROVE  /\ GroupEstimate(o, groups, k).cost =
                           Rounded(Exact(o, k[2], k[1], groups[k].input, groups[k].output))
                      /\ GroupEstimate(o, groups, k).cost \in Nat
    OBVIOUS
  <2> HIDE DEF groups, K
  <2> QED BY <1>1, PriceOf DEF GroupEstimate
<1>8. CostOf(o, groups, K) = Sum_(shown, K)
  <2>1. \A k \in K : GroupEstimate(o, groups, k).cost \in Nat
    BY <1>7
  <2> HIDE DEF groups
  <2> QED BY <1>1, <2>1, CostOfIsSum
<1>9. Half \in Nat
  BY ClockAssumption DEF Half
<1> HIDE DEF groups, K, of, c, exact, shown
<1>10. \A k \in K : exact[k] \in Nat /\ shown[k] <= exact[k] + Half /\ exact[k] <= shown[k] + Half
  BY <1>6, <1>7, RoundedNear
<1>11. /\ Sum_(shown, K) <= Sum_(exact, K) + Half * Cardinality(K)
       /\ Sum_(exact, K) <= Sum_(shown, K) + Half * Cardinality(K)
  BY <1>1, <1>7, <1>9, <1>10, SumOfNear
<1>12. Sum_(shown, K) \in Nat /\ Sum_(exact, K) \in Nat
  BY <1>1, <1>7, <1>10, ThingsOf
<1>13. \A e \in es : Charge(o, e) \in Nat
  BY <1>4 DEF c
<1> QED BY <1>6, <1>8, <1>11, <1>12, <1>13 DEF groups, K, c

-----------------------------------------------------------------------------
(* Pages that are read while the table is written *)

\* The tokens that a page counts and what a part of it shows of them, as sums.
What(q)    == IF q.page = "history" THEN "tokens" ELSE "all tokens"
Weight(q)  == [e \in Event |-> Measured(e.row, What(q))]
PartSum(i) == Sum_(got[i], DOMAIN got[i])

\* What the open page is about.
Chosen(q) == IF q.page = "history" THEN Within(q.from, q.filter) ELSE Selected(q)

RowsOK ==
  /\ events \subseteq Event /\ IsFiniteSet(events) /\ Cardinality(events) <= MaxRows
  /\ \A e \in events : e.at <= clock
  /\ clock \in 0..MaxTick
  /\ {steady, shrunk} \subseteq BOOLEAN

QueryOK ==
  \/ query = NoQuery /\ got = <<>>
  \/ query.page = "history"
  \/ query.page = "dashboard" /\ query.bounded \in BOOLEAN /\ Spanned(query)

GotOK ==
  /\ got \in Seq({got[i] : i \in DOMAIN got}) /\ Len(got) <= Parts(query)
  /\ \A i \in DOMAIN got : /\ IsFiniteSet(DOMAIN got[i])
                           /\ \A k \in DOMAIN got[i] : got[i][k] \in Nat

\* What has been answered is what is there now, as long as nothing is written; and
\* never more than that, as long as nothing is replaced.
TotalsOK ==
  /\ steady => \A i \in DOMAIN got : PartSum(i) = Sum_(Weight(query), Chosen(query))
  /\ ~shrunk => /\ \A i \in DOMAIN got : PartSum(i) <= Sum_(Weight(query), Chosen(query))
                /\ \A i, j \in DOMAIN got : i <= j => PartSum(i) <= PartSum(j)

ViewsInv == RowsOK /\ QueryOK /\ GotOK /\ TotalsOK

LEMMA ChosenRows == \A q : Chosen(q) \in SUBSET events
BY DEF Chosen, Within, Selected

\* Whatever statement comes next, its answer adds up to what the page is about.
LEMMA PartAddsUp ==
  ASSUME RowsOK, QueryOK, GotOK, Len(got) < Parts(query)
  PROVE  AddsUp(Part(query), Chosen(query), What(query))
<1>1. Counted(Chosen(query), What(query))
  BY ChosenRows, CountedEvents DEF RowsOK, What
<1>2. Len(got) \in Nat
  BY DEF GotOK
<1>3. CASE query.page = "history"
  <2>1. Len(got) + 1 \in 1..3
    BY <1>2, <1>3 DEF Parts
  <2>2. Chosen(query) = Within(query.from, query.filter)
    BY <1>3 DEF Chosen
  <2> DEFINE answer(column) == Grouped(Within(query.from, query.filter), column, "tokens")
  <2>3. Part(query) \in {answer("total"), answer("model"), answer("UTC day")}
    <3> DEFINE n == Len(got) + 1
    <3>1. Part(query) = HistoryPart(query, n) /\ (n = 1 \/ n = 2 \/ n = 3)
      BY <1>3, <2>1 DEF Part
    <3>2. /\ HistoryPart(query, 1) = answer("total")
          /\ HistoryPart(query, 2) = answer("model")
          /\ HistoryPart(query, 3) = answer("UTC day")
      BY DEF HistoryPart
    <3> HIDE DEF answer, n
    <3> QED BY <3>1, <3>2
  <2>4. \A column : AddsUp(answer(column), Chosen(query), What(query))
    <3>1. What(query) = "tokens"
      BY <1>3 DEF What
    <3> QED BY <1>1, <2>2, <3>1, GroupsAddUp
  <2> HIDE DEF answer
  <2> QED BY <2>3, <2>4
<1>4. CASE query.page = "dashboard" /\ Spanned(query)
  <2>0. What(query) = "all tokens"
    BY <1>4 DEF What
  <2>1. Len(got) + 1 \in 1..4
    BY <1>2, <1>4 DEF Parts
  <2>2. Chosen(query) = Selected(query)
    BY <1>4 DEF Chosen
  <2> DEFINE answer(column) == Grouped(Selected(query), column, "all tokens")
  <2>3. Part(query) \in {answer("total"), answer("card"), Trend(query), answer("session")}
    <3> DEFINE n == Len(got) + 1
    <3>1. Part(query) = DashboardPart(query, n) /\ (n = 1 \/ n = 2 \/ n = 3 \/ n = 4)
      BY <1>4, <2>1 DEF Part
    <3>2. /\ DashboardPart(query, 1) = answer("total")
          /\ DashboardPart(query, 2) = answer("card")
          /\ DashboardPart(query, 3) = Trend(query)
          /\ DashboardPart(query, 4) = answer("session")
      BY DEF DashboardPart
    <3> HIDE DEF answer, n
    <3> QED BY <3>1, <3>2
  <2>4. AddsUp(Trend(query), Chosen(query), What(query))
    BY <1>4, <2>0, <2>2, TrendAddsUp DEF RowsOK
  <2>5. \A column : AddsUp(answer(column), Chosen(query), What(query))
    BY <1>1, <2>0, <2>2, GroupsAddUp
  <2> HIDE DEF answer
  <2> QED BY <2>3, <2>4, <2>5
<1>5. query # NoQuery
  BY <1>2 DEF Parts, NoQuery
<1> QED BY <1>3, <1>4, <1>5 DEF QueryOK

LEMMA PartSumIsTotal ==
  GotOK => \A i \in DOMAIN got : Total(got[i]) = PartSum(i) /\ PartSum(i) \in Nat
<1> SUFFICES ASSUME GotOK, NEW i \in DOMAIN got PROVE Total(got[i]) = PartSum(i) /\ PartSum(i) \in Nat
  OBVIOUS
<1>1. IsFiniteSet(DOMAIN got[i]) /\ \A k \in DOMAIN got[i] : got[i][k] \in Nat
  BY DEF GotOK
<1> QED BY <1>1, TotalOf DEF PartSum

LEMMA WeightsAreTokens ==
  ASSUME NEW q, NEW all \in SUBSET Event, IsFiniteSet(all), NEW es \in SUBSET all
  PROVE  /\ SumOf(es, What(q)) = Sum_(Weight(q), es)
         /\ Sum_(Weight(q), es) \in Nat
<1> DEFINE w == [e \in es |-> Measured(e.row, What(q))]
<1>1. Counted(es, What(q))
  BY CountedEvents DEF What
<1>2. SumOf(es, What(q)) = Sum_(w, es) /\ SumOf(es, What(q)) \in Nat
  BY <1>1, SumsOf
<1>3. \A e \in es : w[e] = Weight(q)[e]
  BY DEF Weight
<1> HIDE DEF w
<1>4. Sum_(w, es) = Sum_(Weight(q), es)
  BY <1>3, SumOfSame
<1> QED BY <1>2, <1>4

LEMMA InitViews == ViewsInit => ViewsInv
<1> SUFFICES ASSUME ViewsInit PROVE ViewsInv
  OBVIOUS
<1>1. IsFiniteSet({}) /\ Cardinality({}) = 0
  BY FS_EmptySet
<1>2. RowsOK
  <2>1. events = {} /\ clock = 0 /\ steady = TRUE /\ shrunk = FALSE
    BY DEF ViewsInit
  <2>2. MaxRows \in Nat /\ MaxTick \in Nat
    BY ClockAssumption
  <2>3. {steady, shrunk} \subseteq BOOLEAN
    BY <2>1
  <2>4. events \subseteq Event /\ IsFiniteSet(events) /\ Cardinality(events) <= MaxRows
    BY <1>1, <2>1, <2>2
  <2>5. (\A e \in events : e.at <= clock) /\ clock \in 0..MaxTick
    BY <2>1, <2>2
  <2> QED BY <2>3, <2>4, <2>5 DEF RowsOK
<1>3. QueryOK
  BY DEF ViewsInit, QueryOK
<1>4. GotOK /\ TotalsOK
  BY DEF ViewsInit, GotOK, TotalsOK, Parts, NoQuery
<1> QED BY <1>2, <1>3, <1>4 DEF ViewsInv

\* A row more.
LEMMA IngestKeeps ==
  ASSUME ViewsInv, NEW row \in Rows, NEW at \in 0..MaxTick, Ingest_(row, at)
  PROVE  ViewsInv'
<1> DEFINE new == [row |-> row, at |-> at]
<1> USE DEF ViewsInv
<1>1. RowsOK'
  <2>1. new \in Event /\ new.at <= clock
    BY DEF Ingest_, Event
  <2>2. events' = events \cup {new} /\ clock' = clock /\ Cardinality(events) < MaxRows
    BY DEF Ingest_
  <2>3. IsFiniteSet(events') /\ Cardinality(events') <= MaxRows
    <3>1. /\ IsFiniteSet(events \cup {new})
          /\ Cardinality(events \cup {new}) = IF new \in events THEN Cardinality(events) ELSE Cardinality(events) + 1
      BY FS_AddElement DEF RowsOK
    <3>2. Cardinality(events) \in Nat /\ MaxRows \in Nat
      BY FS_CardinalityType, ClockAssumption DEF RowsOK
    <3> HIDE DEF new
    <3> QED BY <2>2, <3>1, <3>2
  <2>4. {steady, shrunk}' \subseteq BOOLEAN
    BY DEF Ingest_, RowsOK
  <2> HIDE DEF new
  <2> QED BY <2>1, <2>2, <2>3, <2>4 DEF RowsOK
<1>2. QueryOK' /\ GotOK'
  BY DEF Ingest_, QueryOK, GotOK, Spanned, LocalDay, Local
<1>3. TotalsOK'
  <2>1. CASE query = NoQuery
    <3>1. got' = <<>>
      BY <2>1 DEF QueryOK, Ingest_, NoQuery
    <3> QED BY <3>1 DEF TotalsOK
  <2>2. CASE query # NoQuery
    <3>1. steady' = FALSE /\ shrunk' = shrunk /\ got' = got /\ query' = query
      BY <2>2 DEF Ingest_
    <3>2. Chosen(query) \subseteq Chosen(query)' /\ Chosen(query)' \subseteq events'
      BY <3>1 DEF Ingest_, Chosen, Within, Selected
    <3>3. IsFiniteSet(Chosen(query)')
      BY <1>1, <3>2, FS_Subset DEF RowsOK
    <3>4. Sum_(Weight(query), Chosen(query)) <= Sum_(Weight(query), Chosen(query)')
      <4> DEFINE before == Chosen(query)
                 after == Chosen(query)'
      <4>1. before \in SUBSET after /\ after \in SUBSET Event /\ IsFiniteSet(after)
        BY <1>1, <3>2, <3>3 DEF RowsOK
      <4>2. \A e \in after : Weight(query)[e] \in Nat
        BY <3>2, <4>1, Measures DEF Weight, What, Event
      <4> HIDE DEF before, after
      <4>3. Sum_(Weight(query), before) <= Sum_(Weight(query), after)
        BY <4>1, <4>2, SumOfFewer
      <4> QED BY <4>3 DEF before, after
    <3>5. Sum_(Weight(query), Chosen(query)) \in Nat /\ Sum_(Weight(query), Chosen(query)') \in Nat
      BY <1>1, <3>2, ChosenRows, WeightsAreTokens DEF RowsOK
    <3>6. \A i \in DOMAIN got : PartSum(i) \in Nat
      BY PartSumIsTotal
    <3>7. \A i : PartSum(i)' = PartSum(i)
      BY <3>1 DEF PartSum
    <3> QED BY <3>1, <3>4, <3>5, <3>6, <3>7 DEF TotalsOK
  <2> QED BY <2>1, <2>2
<1> QED BY <1>1, <1>2, <1>3

\* The rows of OpenCode are replaced: there are no more than before.
LEMMA ReplaceKeeps ==
  ASSUME ViewsInv, NEW row \in Rows, NEW at \in 0..MaxTick, ReplaceBatch(row, at)
  PROVE  ViewsInv'
<1> DEFINE new == [row |-> row, at |-> at]
           kept == {x \in events : x.row.provider # "opencode"}
<1> USE DEF ViewsInv
<1>1. RowsOK'
  <2>1. new \in Event /\ new.at <= clock
    BY DEF ReplaceBatch, Event
  <2>2. events' = kept \cup {new} /\ clock' = clock
    BY DEF ReplaceBatch
  <2>3. IsFiniteSet(events') /\ Cardinality(events') <= MaxRows
    <3>1. PICK old \in events : old.row.provider = "opencode"
      BY DEF ReplaceBatch
    <3>2. kept \in SUBSET (events \ {old})
      BY <3>1
    <3>3. IsFiniteSet(events \ {old}) /\ Cardinality(events \ {old}) = Cardinality(events) - 1
      BY <3>1, FS_RemoveElement DEF RowsOK
    <3>4. IsFiniteSet(kept) /\ Cardinality(kept) <= Cardinality(events \ {old})
      BY <3>2, <3>3, FS_Subset
    <3>5. /\ IsFiniteSet(kept \cup {new})
          /\ Cardinality(kept \cup {new}) = IF new \in kept THEN Cardinality(kept) ELSE Cardinality(kept) + 1
      BY <3>4, FS_AddElement
    <3>6. Cardinality(events) \in Nat /\ Cardinality(kept) \in Nat /\ MaxRows \in Nat
      BY <3>4, FS_CardinalityType, ClockAssumption DEF RowsOK
    <3>7. Cardinality(events) <= MaxRows
      BY DEF RowsOK
    <3> HIDE DEF new, kept
    <3> QED BY <2>2, <3>3, <3>4, <3>5, <3>6, <3>7
  <2>4. {steady, shrunk}' \subseteq BOOLEAN
    BY DEF ReplaceBatch
  <2>5. events' \subseteq Event /\ \A x \in events' : x.at <= clock
    BY <2>1, <2>2 DEF RowsOK
  <2>6. clock' \in 0..MaxTick
    BY <2>2 DEF RowsOK
  <2> HIDE DEF new, kept
  <2> QED BY <2>2, <2>3, <2>4, <2>5, <2>6 DEF RowsOK
<1>2. QueryOK' /\ GotOK'
  BY DEF ReplaceBatch, QueryOK, GotOK, Spanned, LocalDay, Local
<1>3. TotalsOK'
  <2>1. CASE query = NoQuery
    <3>1. got' = <<>>
      BY <2>1 DEF QueryOK, ReplaceBatch, NoQuery
    <3> QED BY <3>1 DEF TotalsOK
  <2>2. CASE query # NoQuery
    BY <2>2 DEF ReplaceBatch, TotalsOK
  <2> QED BY <2>1, <2>2
<1> QED BY <1>1, <1>2, <1>3

\* A page is opened with nothing answered.
LEMMA OpenedKeeps ==
  ASSUME ViewsInv, Opened,
         \/ query'.page = "history"
         \/ query'.page = "dashboard" /\ query'.bounded \in BOOLEAN /\ Spanned(query')
  PROVE  ViewsInv'
<1> USE DEF ViewsInv
<1>1. got = <<>>
  BY DEF Opened, QueryOK, NoQuery
<1>2. UNCHANGED <<events, clock, got, steady, shrunk>>
  BY DEF Opened
<1>3. RowsOK'
  BY <1>2 DEF RowsOK
<1>4. QueryOK'
  BY DEF QueryOK, Spanned, LocalDay, Local
<1>5. GotOK'
  <2>1. Parts(query)' >= 0
    BY DEF Parts
  <2> QED BY <1>1, <1>2, <2>1 DEF GotOK
<1>6. TotalsOK'
  BY <1>1, <1>2 DEF TotalsOK
<1> QED BY <1>3, <1>4, <1>5, <1>6

LEMMA DashboardKeeps ==
  ASSUME ViewsInv, NEW filter, OpenDashboard(filter)
  PROVE  ViewsInv'
<1> DEFINE today == LocalDay(clock)
<1>1. Opened
  BY DEF OpenDashboard
<1>2. clock \in Int /\ today \in Int /\ WeekDays \in Int
  BY LocalTimes DEF ViewsInv, RowsOK
<1>3. ASSUME NEW first \in {0, today, today - (WeekDays - 1)},
             HasMidnight(first), HasMidnight(today + 1),
             query' = [page |-> "dashboard", filter |-> filter, bounded |-> TRUE,
                       first |-> first, last |-> today,
                       from |-> Midnight(first), until |-> Midnight(today + 1)]
      PROVE  query'.page = "dashboard" /\ query'.bounded \in BOOLEAN /\ Spanned(query')
  <2>1. first \in Int
    BY <1>2
  <2> HIDE DEF today
  <2>2. ASSUME NEW t \in 0..MaxTick, Midnight(first) <= t, t < Midnight(today + 1)
        PROVE  LocalDay(t) \in first..today
    <3>1. t \in Int
      BY LocalTimes
    <3> QED BY <1>2, <1>3, <2>1, <2>2, <3>1, DaysBetween
  <2>3. /\ query'.page = "dashboard" /\ query'.bounded = TRUE
        /\ query'.first = first /\ query'.last = today
        /\ query'.from = Midnight(first) /\ query'.until = Midnight(today + 1)
    BY <1>3
  <2> QED BY <1>2, <2>1, <2>2, <2>3 DEF Spanned
<1>4. ASSUME query' = [page |-> "dashboard", filter |-> filter, bounded |-> FALSE,
                       from |-> -2 * DayTicks, until |-> MaxTick + 2 * DayTicks]
      PROVE  query'.page = "dashboard" /\ query'.bounded \in BOOLEAN /\ Spanned(query')
  <2>1. query'.page = "dashboard" /\ query'.bounded = FALSE
    BY <1>4
  <2> QED BY <2>1 DEF Spanned
<1>5. query'.page = "dashboard" /\ query'.bounded \in BOOLEAN /\ Spanned(query')
  <2> HIDE DEF today
  <2>1. \/ \E first \in {0, today, today - (WeekDays - 1)} :
             /\ HasMidnight(first) /\ HasMidnight(today + 1)
             /\ query' = [page |-> "dashboard", filter |-> filter, bounded |-> TRUE,
                          first |-> first, last |-> today,
                          from |-> Midnight(first), until |-> Midnight(today + 1)]
        \/ query' = [page |-> "dashboard", filter |-> filter, bounded |-> FALSE,
                     from |-> -2 * DayTicks, until |-> MaxTick + 2 * DayTicks]
    BY DEF OpenDashboard, today
  <2> QED BY <1>3, <1>4, <2>1
<1> QED BY <1>1, <1>5, OpenedKeeps

\* One statement: its answer adds up to what is there now.
LEMMA StatementKeeps ==
  ASSUME ViewsInv, Statement
  PROVE  ViewsInv'
<1> DEFINE p == Part(query)
           n == Len(got)
           R == {got[i] : i \in DOMAIN got}
<1> USE DEF ViewsInv
<1>1. /\ n < Parts(query) /\ got' = Append(got, p)
      /\ UNCHANGED <<events, clock, query, steady, shrunk>>
  BY DEF Statement
<1>2. AddsUp(p, Chosen(query), What(query))
  BY <1>1, PartAddsUp
<1>3. RowsOK'
  BY <1>1 DEF RowsOK
<1>4. n \in Nat /\ DOMAIN got = 1..n /\ got \in Seq(R)
  BY DEF GotOK
<1>5. Parts(query) \in {0, 3, 4} /\ Parts(query)' = Parts(query)
  BY <1>1 DEF Parts
<1> HIDE DEF p, n
<1>6. /\ DOMAIN got' = 1..(n + 1) /\ Len(got') = n + 1
      /\ got'[n + 1] = p /\ \A i \in 1..n : got'[i] = got[i]
  BY <1>1, <1>4 DEF n
<1>7. GotOK'
  <2> DEFINE R_ == {got'[i] : i \in DOMAIN got'}
  <2>1. got' \in [1..(n + 1) -> R_]
    <3>1. got' \in Seq(R \cup {p})
      BY <1>1, <1>4
    <3> HIDE DEF R
    <3>2. got' = [i \in DOMAIN got' |-> got'[i]]
      BY <3>1
    <3> QED BY <1>6, <3>2
  <2>2. got' \in Seq(R_)
    <3> HIDE DEF R_
    <3> QED BY <1>4, <2>1
  <2>3. Len(got') <= Parts(query)'
    BY <1>1, <1>4, <1>5, <1>6 DEF n
  <2>4. \A i \in DOMAIN got' : /\ IsFiniteSet(DOMAIN got'[i])
                               /\ \A k \in DOMAIN got'[i] : got'[i][k] \in Nat
    <3> SUFFICES ASSUME NEW i \in 1..(n + 1)
                 PROVE  /\ IsFiniteSet(DOMAIN got'[i])
                        /\ \A k \in DOMAIN got'[i] : got'[i][k] \in Nat
      BY <1>6
    <3>1. CASE i = n + 1
      BY <1>2, <1>6, <3>1 DEF AddsUp
    <3>2. CASE i \in 1..n
      BY <1>4, <1>6, <3>2 DEF GotOK
    <3> QED BY <1>4, <3>1, <3>2
  <2> QED BY <2>2, <2>3, <2>4 DEF GotOK
<1>8. QueryOK'
  <2>1. query # NoQuery
    BY <1>1, <1>4 DEF Parts, NoQuery
  <2> QED BY <1>1, <2>1 DEF QueryOK, Spanned, LocalDay, Local
<1>9. TotalsOK'
  <2> DEFINE now == Sum_(Weight(query), Chosen(query))
  <2>1. Chosen(query)' = Chosen(query)
    BY <1>1 DEF Chosen, Within, Selected
  <2>2. now \in Nat /\ SumOf(Chosen(query), What(query)) = now
    BY ChosenRows, WeightsAreTokens DEF RowsOK
  <2>3. ASSUME NEW m \in Nat, m = n + 1 PROVE PartSum(m)' = now
    <3>1. IsFiniteSet(DOMAIN p) /\ (\A k \in DOMAIN p : p[k] \in Nat) /\ Total(p) = SumOf(Chosen(query), What(query))
      BY <1>2 DEF AddsUp
    <3>2. Sum_(p, DOMAIN p) = Total(p)
      BY <3>1, TotalOf
    <3>3. PartSum(m)' = Sum_(p, DOMAIN p)
      BY <1>6, <2>3 DEF PartSum
    <3> QED BY <2>2, <3>1, <3>2, <3>3
  <2>4. \A i \in 1..n : PartSum(i)' = PartSum(i) /\ PartSum(i) \in Nat
    BY <1>4, <1>6, PartSumIsTotal DEF PartSum
  <2>5. steady' = steady /\ shrunk' = shrunk
    BY <1>1
  <2> HIDE DEF now
  <2>6. steady => \A i \in 1..(n + 1) : PartSum(i)' = now
    <3> SUFFICES ASSUME steady, NEW i \in 1..(n + 1) PROVE PartSum(i)' = now
      OBVIOUS
    <3>1. CASE i = n + 1
      BY <1>4, <2>3, <3>1
    <3>2. CASE i \in 1..n
      BY <1>4, <2>4, <3>2 DEF TotalsOK, now
    <3> QED BY <1>4, <3>1, <3>2
  <2>7. ~shrunk => /\ \A i \in 1..(n + 1) : PartSum(i)' <= now
                   /\ \A i, j \in 1..(n + 1) : i <= j => PartSum(i)' <= PartSum(j)'
    <3> SUFFICES ASSUME ~shrunk
                 PROVE  /\ \A i \in 1..(n + 1) : PartSum(i)' <= now
                        /\ \A i, j \in 1..(n + 1) : i <= j => PartSum(i)' <= PartSum(j)'
      OBVIOUS
    <3>1. \A i \in 1..n : PartSum(i)' <= now
      BY <1>4, <2>4 DEF TotalsOK, now
    <3>2. \A i, j \in 1..n : i <= j => PartSum(i)' <= PartSum(j)'
      BY <1>4, <2>4 DEF TotalsOK
    <3>3. \A i \in 1..(n + 1) : i = n + 1 => PartSum(i)' = now
      BY <1>4, <2>3
    <3>4. \A i \in 1..(n + 1) : i \in 1..n \/ i = n + 1
      BY <1>4
    <3>5. \A i \in 1..(n + 1) : PartSum(i)' <= now
      BY <2>2, <3>1, <3>3, <3>4
    <3>6. ASSUME NEW i \in 1..(n + 1), NEW j \in 1..(n + 1), i <= j PROVE PartSum(i)' <= PartSum(j)'
      <4>1. CASE j = n + 1
        BY <3>3, <3>5, <4>1
      <4>2. CASE j \in 1..n
        <5>1. i \in 1..n
          BY <1>4, <3>6, <4>2
        <5> QED BY <3>2, <3>6, <4>2, <5>1
      <4> QED BY <3>4, <4>1, <4>2
    <3> QED BY <3>5, <3>6
  <2>8. now = Sum_(Weight(query), Chosen(query)')
    BY <2>1 DEF now
  <2>9. Weight(query)' = Weight(query)
    BY <1>1 DEF Weight, What
  <2>10. now = Sum_(Weight(query), Chosen(query))'
    BY <2>8, <2>9
  <2> QED BY <1>6, <2>5, <2>6, <2>7, <2>10 DEF TotalsOK
<1> QED BY <1>3, <1>7, <1>8, <1>9

LEMMA StepViews == ViewsInv /\ [ViewsNext]_viewVars => ViewsInv'
<1> SUFFICES ASSUME ViewsInv, [ViewsNext]_viewVars PROVE ViewsInv'
  OBVIOUS
<1>1. ASSUME NEW row \in Rows, NEW at \in 0..MaxTick, Ingest_(row, at) PROVE ViewsInv'
  BY <1>1, IngestKeeps
<1>2. ASSUME NEW row \in Rows, NEW at \in 0..MaxTick, ReplaceBatch(row, at) PROVE ViewsInv'
  BY <1>2, ReplaceKeeps
<1>3. ASSUME ViewsTick PROVE ViewsInv'
  <2>1. RowsOK'
    BY <1>3, LocalTimes DEF ViewsInv, RowsOK, ViewsTick, Event
  <2>2. QueryOK' /\ GotOK' /\ TotalsOK'
    BY <1>3 DEF ViewsInv, ViewsTick, QueryOK, GotOK, TotalsOK, PartSum, Chosen, Within, Selected,
                Spanned, LocalDay, Local
  <2> QED BY <2>1, <2>2 DEF ViewsInv
<1>4. ASSUME NEW filter, OpenDashboard(filter) PROVE ViewsInv'
  BY <1>4, DashboardKeeps
<1>5. ASSUME NEW filter, NEW days, OpenHistory(filter, days) PROVE ViewsInv'
  BY <1>5, OpenedKeeps DEF OpenHistory
<1>6. ASSUME Statement PROVE ViewsInv'
  BY <1>6, StatementKeeps
<1>7. ASSUME Close PROVE ViewsInv'
  <2>1. got' = <<>> /\ query' = NoQuery /\ steady' = TRUE /\ shrunk' = FALSE
    BY <1>7 DEF Close
  <2>2. RowsOK'
    BY <1>7 DEF Close, ViewsInv, RowsOK
  <2>3. GotOK' /\ TotalsOK'
    BY <2>1 DEF GotOK, TotalsOK, Parts, NoQuery
  <2>4. QueryOK'
    BY <2>1 DEF QueryOK
  <2> QED BY <2>2, <2>3, <2>4 DEF ViewsInv
<1>8. ASSUME UNCHANGED viewVars PROVE ViewsInv'
  BY <1>8 DEF viewVars, ViewsInv, RowsOK, QueryOK, GotOK, TotalsOK, PartSum, Chosen, Within,
              Selected, Spanned, LocalDay, Local, Parts
<1> QED BY <1>1, <1>2, <1>3, <1>4, <1>5, <1>6, <1>7, <1>8 DEF ViewsNext

LEMMA ViewsKeep == ViewsSpec => []ViewsInv
BY InitViews, StepViews, PTL DEF ViewsSpec

-----------------------------------------------------------------------------
(* What the pages show of one table *)

LEMMA TypesOfViews == ViewsInv => ViewsTypeOK
BY DEF ViewsInv, RowsOK, GotOK, ViewsTypeOK

LEMMA PagesAddUp == ViewsInv => PartsAgree /\ TornOnlyUpwards
<1> SUFFICES ASSUME ViewsInv PROVE PartsAgree /\ TornOnlyUpwards
  OBVIOUS
<1>1. \A i \in DOMAIN got : Total(got[i]) = PartSum(i)
  BY PartSumIsTotal DEF ViewsInv
<1>2. TotalsOK
  BY DEF ViewsInv
<1> QED BY <1>1, <1>2 DEF TotalsOK, PartsAgree, TornOnlyUpwards

\* The former id belongs to the card, and to no other.
LEMMA CardOfProvider ==
  \A provider \in Providers : \A page \in {"codex", "opencode"} :
    /\ Card(provider) # "opencode_cli"
    /\ Matches(provider, page) <=> Card(provider) = page
    /\ Matches(provider, Everyone)
BY DEF Providers, Card, Matches, Everyone

LEMMA OneCard == RowsOK => CardIsFilter
<1> SUFFICES ASSUME RowsOK, NEW page \in {"codex", "opencode"}
             PROVE  LET one(f) == [filter |-> f, from |-> Since(clock, WeekDays), until |-> clock + 1]
                        all    == Grouped(Selected(one(Everyone)), "card", "all tokens")
                    IN /\ "opencode_cli" \notin DOMAIN all
                       /\ SumOf(Selected(one(page)), "all tokens") =
                            IF page \in DOMAIN all THEN all[page] ELSE 0
  BY DEF CardIsFilter
<1> DEFINE one(f) == [filter |-> f, from |-> Since(clock, WeekDays), until |-> clock + 1]
           es  == Selected(one(Everyone))
           all == Grouped(es, "card", "all tokens")
<1>1. \A e \in events : e.row.provider \in Providers
  BY RowsAssumption DEF RowsOK, Event
<1>2. es \subseteq events
  BY DEF Selected
<1>3. DOMAIN all = {Card(e.row.provider) : e \in es}
  BY DEF Grouped, GroupKey
<1>4. "opencode_cli" \notin DOMAIN all
  BY <1>1, <1>2, <1>3, CardOfProvider
<1>5. Selected(one(page)) = {e \in es : Card(e.row.provider) = page}
  BY <1>1, CardOfProvider DEF Selected
<1>6. CASE page \in DOMAIN all
  <2>1. all[page] = SumOf({e \in es : Card(e.row.provider) = page}, "all tokens")
    BY <1>6 DEF Grouped, GroupKey
  <2> QED BY <1>4, <1>5, <1>6, <2>1
<1>7. CASE page \notin DOMAIN all
  <2>1. Selected(one(page)) = {}
    BY <1>3, <1>5, <1>7
  <2> QED BY <1>4, <1>7, <2>1, SumOfNoRows
<1> QED BY <1>6, <1>7

\* The Sessions page shows all of what it adds up, by project.
LEMMA SessionsAddUp ==
  ASSUME RowsOK, NEW since, NEW filter, NEW what \in {"tokens", "recorded"}
  PROVE  Total(SessionsPage(since, filter, what)) = SumOf(Within(since, filter), what)
<1> DEFINE es == Within(since, filter)
           bySession == Grouped(es, "project", what)
           K == DOMAIN bySession
           first == [k \in K |-> k[1]]
           projects == {first[k] : k \in K}
           of == [p \in projects |-> {k \in K : k[1] = p}]
           page == SessionsPage(since, filter, what)
<1>1. Counted(es, what)
  BY CountedEvents DEF RowsOK, Within
<1>2. AddsUp(bySession, es, what)
  <2> HIDE DEF es
  <2> QED BY <1>1, GroupsAddUp
<1>3. IsFiniteSet(K) /\ (\A k \in K : bySession[k] \in Nat) /\ Total(bySession) = SumOf(es, what)
  BY <1>2 DEF AddsUp
<1>4. IsFiniteSet(projects)
  <2> HIDE DEF K, first
  <2> QED BY <1>3, ImageIsFinite
<1>5. Partition(of, projects, K)
  BY DEF Partition
<1>6. projects = {k[1] : k \in K}
  OBVIOUS
<1>7. /\ DOMAIN page = projects
      /\ \A p \in projects : page[p] = Total([k \in {j \in K : j[1] = p} |-> bySession[k]])
  BY <1>6 DEF SessionsPage
<1> HIDE DEF es, bySession, projects, page
<1>8. \A p \in projects : page[p] = Sum_(bySession, of[p])
  <2> SUFFICES ASSUME NEW p \in projects PROVE page[p] = Sum_(bySession, {k \in K : k[1] = p})
    OBVIOUS
  <2> DEFINE J == {k \in K : k[1] = p}
             v == [k \in J |-> bySession[k]]
  <2>1. IsFiniteSet(J)
    BY <1>3, FS_Subset
  <2>2. DOMAIN v = J /\ \A k \in J : v[k] = bySession[k] /\ v[k] \in Nat
    BY <1>3
  <2>3. page[p] = Total(v)
    BY <1>7
  <2> HIDE DEF v, J
  <2>4. Total(v) = Sum_(v, J)
    BY <2>1, <2>2, TotalOf
  <2>5. Sum_(v, J) = Sum_(bySession, J)
    BY <2>2, SumOfSame
  <2>6. page[p] = Sum_(bySession, J)
    BY <2>3, <2>4, <2>5
  <2> QED BY <2>6 DEF J
<1> HIDE DEF of, K
<1>9. (\A p \in projects : page[p] \in Nat) /\ Sum_(page, projects) = Sum_(bySession, K)
  BY <1>3, <1>4, <1>5, <1>8, SumByGroup
<1>10. Total(page) = Sum_(page, projects)
  BY <1>4, <1>7, <1>9, TotalOf
<1>11. Total(bySession) = Sum_(bySession, K)
  BY <1>3, TotalOf DEF K
<1> QED BY <1>3, <1>9, <1>10, <1>11 DEF es, page

LEMMA WithinIsTable == ASSUME RowsOK, NEW since, NEW filter PROVE Table(Within(since, filter))
<1>1. Within(since, filter) \in SUBSET events
  BY DEF Within
<1> QED BY <1>1, FS_Subset DEF RowsOK, Table

LEMMA BudgetIsCost == RowsOK => BudgetIsTheCostOfItsPeriod
<1> SUFFICES ASSUME RowsOK, NEW filter, NEW days
             PROVE  LET page == Costs(Since(clock, days), filter)
                        used == Budget(filter, days)
                    IN /\ used.cost = page.pricedTotal + page.estimated
                       /\ used.tokens = Total(page.tokens)
                       /\ used.tokens = Total(SessionsPage(Since(clock, days), filter, "tokens"))
  BY DEF BudgetIsTheCostOfItsPeriod
<1> DEFINE since == Since(clock, days)
           es == Within(since, filter)
           groups == ByModel(es)
           K == DOMAIN groups
           known == {k \in K : GroupEstimate(Overrides, groups, k).status = "priced"}
           each == [k \in K |-> GroupEstimate(Overrides, groups, k).cost]
           tokens == Grouped(es, "model", "tokens")
<1>0. Table(es) /\ Overrides \in PriceLists
  BY WithinIsTable DEF PriceLists
<1>1. Counted(es, "tokens")
  BY <1>0, TableCounts
<1>2. IsFiniteSet(K) /\ \A k \in K : GroupEstimate(Overrides, groups, k).cost \in Nat
  <2> HIDE DEF es
  <2> QED BY <1>0, ModelGroups, CostsAreNat
<1>3. /\ Costs(since, filter).tokens = tokens
      /\ Costs(since, filter).pricedTotal = CostOf(Overrides, groups, known)
      /\ Costs(since, filter).estimated = CostOf(Overrides, groups, K \ known)
  BY DEF Costs
<1>4. Budget(filter, days).tokens = Total(tokens) /\ Budget(filter, days).cost = CostOf(Overrides, groups, K)
  BY DEF Budget
<1>5. ASSUME NEW J \in SUBSET K PROVE CostOf(Overrides, groups, J) = Sum_(each, J)
  <2> DEFINE v == [k \in J |-> GroupEstimate(Overrides, groups, k).cost]
  <2>1. IsFiniteSet(J) /\ \A k \in J : GroupEstimate(Overrides, groups, k).cost \in Nat
    BY <1>2, FS_Subset
  <2>2. CostOf(Overrides, groups, J) = Sum_(v, J)
    <3> HIDE DEF groups
    <3> QED BY <2>1, CostOfIsSum
  <2>3. \A k \in J : v[k] = each[k]
    OBVIOUS
  <2> HIDE DEF v, each
  <2>4. Sum_(v, J) = Sum_(each, J)
    BY <2>3, SumOfSame
  <2> QED BY <2>2, <2>4
<1>6. Sum_(each, K) = Sum_(each, known) + Sum_(each, K \ known)
  <2>1. known \in SUBSET K /\ known \cup (K \ known) = K /\ known \cap (K \ known) = {}
    OBVIOUS
  <2>2. \A k \in K : each[k] \in Nat
    BY <1>2
  <2> HIDE DEF K, known, each
  <2>3. IsFiniteSet(known) /\ IsFiniteSet(K \ known)
    BY <1>2, <2>1, FS_Subset
  <2> QED BY <2>1, <2>2, <2>3, SumOfBoth
<1>7. Total(tokens) = SumOf(es, "tokens")
  <2>1. AddsUp(tokens, es, "tokens")
    <3> HIDE DEF es
    <3> QED BY <1>1, GroupsAddUp
  <2> QED BY <2>1 DEF AddsUp
<1>8. Total(SessionsPage(since, filter, "tokens")) = SumOf(es, "tokens")
  BY SessionsAddUp
<1>9. known \in SUBSET K /\ K \ known \in SUBSET K /\ K \in SUBSET K
  OBVIOUS
<1> HIDE DEF since, es, groups, K, known, each, tokens
<1>10. Budget(filter, days).cost = Costs(since, filter).pricedTotal + Costs(since, filter).estimated
  BY <1>3, <1>4, <1>5, <1>6, <1>9
<1>11. /\ Budget(filter, days).tokens = Total(Costs(since, filter).tokens)
       /\ Budget(filter, days).tokens = Total(SessionsPage(since, filter, "tokens"))
  BY <1>3, <1>4, <1>7, <1>8
<1> QED BY <1>10, <1>11 DEF since

\* What a budget has used are numbers.
LEMMA UsedNumbers ==
  ASSUME RowsOK, NEW filter, NEW days
  PROVE  Budget(filter, days).tokens \in Nat /\ Budget(filter, days).cost \in Nat
<1> DEFINE es == Within(Since(clock, days), filter)
           groups == ByModel(es)
           tokens == Grouped(es, "model", "tokens")
<1>1. Table(es) /\ Overrides \in PriceLists
  BY WithinIsTable DEF PriceLists
<1>2. Budget(filter, days).tokens = Total(tokens) /\ Budget(filter, days).cost = CostOf(Overrides, groups, DOMAIN groups)
  BY DEF Budget
<1> HIDE DEF es
<1>3. Counted(es, "tokens")
  BY <1>1, TableCounts
<1>4. Total(tokens) = SumOf(es, "tokens") /\ SumOf(es, "tokens") \in Nat
  BY <1>3, GroupsAddUp, SumsOf DEF AddsUp
<1>5. CostOf(Overrides, groups, DOMAIN groups) \in Nat
  BY <1>1, CostsNear
<1> QED BY <1>2, <1>4, <1>5

LEMMA PercentOf ==
  ASSUME NEW used \in Nat, NEW limit \in Nat
  PROVE  /\ Percent(used, limit) \in SUBSET Int /\ IsFiniteSet(Percent(used, limit))
         /\ Percent(used, limit) = {} <=> limit = Unset
         /\ (\E p \in Percent(used, limit) : p >= 100) <=> limit # Unset /\ used >= limit
<1>1. CASE limit = Unset
  BY <1>1, FS_EmptySet DEF Percent
<1>2. CASE limit # Unset
  <2> DEFINE p == (100 * used) \div limit
  <2>1. Percent(used, limit) = {p}
    BY <1>2 DEF Percent
  <2>2. limit \in Nat \ {0} /\ 100 * used \in Int /\ 100 \in Int
    BY <1>2 DEF Unset
  <2>3. p \in Int /\ (100 * limit <= 100 * used <=> 100 <= p)
    BY <2>2, DaysOf
  <2>4. 100 * limit <= 100 * used <=> limit <= used
    OBVIOUS
  <2> HIDE DEF p
  <2> QED BY <1>2, <2>1, <2>3, <2>4, FS_Singleton
<1> QED BY <1>1, <1>2

LEMMA BudgetStates == RowsOK => BudgetStateIsExact
<1> SUFFICES ASSUME RowsOK,
                    NEW costLimit \in {Unset, 3, 6}, NEW tokenLimit \in {Unset, 2, 4}, NEW warn \in {25, 100}
             PROVE  LET used  == Budget(Everyone, 1)
                        verdict == BudgetState(used, costLimit, tokenLimit, warn)
                    IN /\ verdict = "exceeded" <=> \/ costLimit # Unset /\ used.cost >= costLimit
                                                   \/ tokenLimit # Unset /\ used.tokens >= tokenLimit
                       /\ verdict = "unknown" <=> costLimit = Unset /\ tokenLimit = Unset
  BY DEF BudgetStateIsExact
<1> DEFINE used == Budget(Everyone, 1)
           C == Percent(used.cost, costLimit)
           T == Percent(used.tokens, tokenLimit)
           verdict == BudgetState(used, costLimit, tokenLimit, warn)
<1>1. used.cost \in Nat /\ used.tokens \in Nat
  BY UsedNumbers
<1>2. costLimit \in Nat /\ tokenLimit \in Nat
  BY DEF Unset
<1> HIDE DEF used
<1>3. /\ C \in SUBSET Int /\ IsFiniteSet(C) /\ (C = {} <=> costLimit = Unset)
      /\ (\E p \in C : p >= 100) <=> costLimit # Unset /\ used.cost >= costLimit
  <2> DEFINE u == used.cost
  <2> HIDE DEF u
  <2>1. u \in Nat
    BY <1>1 DEF u
  <2>2. /\ Percent(u, costLimit) \in SUBSET Int /\ IsFiniteSet(Percent(u, costLimit))
        /\ Percent(u, costLimit) = {} <=> costLimit = Unset
        /\ (\E p \in Percent(u, costLimit) : p >= 100) <=> costLimit # Unset /\ u >= costLimit
    BY <1>2, <2>1, PercentOf
  <2> QED BY <2>2 DEF u
<1>4. /\ T \in SUBSET Int /\ IsFiniteSet(T) /\ (T = {} <=> tokenLimit = Unset)
      /\ (\E p \in T : p >= 100) <=> tokenLimit # Unset /\ used.tokens >= tokenLimit
  BY <1>1, <1>2, PercentOf
<1>5. verdict = IF C \cup T = {} THEN "unknown"
              ELSE IF Max(C \cup T) >= 100 THEN "exceeded"
              ELSE IF Max(C \cup T) >= warn THEN "warning" ELSE "under"
  BY DEF BudgetState
<1> HIDE DEF C, T, verdict
<1>6. ASSUME C \cup T # {} PROVE Max(C \cup T) >= 100 <=> \E p \in C \cup T : p >= 100
  <2>1. C \cup T \in SUBSET Int /\ IsFiniteSet(C \cup T)
    BY <1>3, <1>4, FS_Union
  <2>2. Max(C \cup T) \in C \cup T /\ \A p \in C \cup T : p <= Max(C \cup T)
    BY <1>6, <2>1, Extremes
  <2> QED BY <2>1, <2>2
<1>7. verdict = "exceeded" <=> \E p \in C \cup T : p >= 100
  <2>1. CASE C \cup T = {}
    BY <1>5, <2>1
  <2>2. CASE C \cup T # {}
    BY <1>5, <1>6, <2>2
  <2> QED BY <2>1, <2>2
<1>8. verdict = "unknown" <=> C \cup T = {}
  BY <1>5
<1>9. verdict = "exceeded" <=> \/ costLimit # Unset /\ used.cost >= costLimit
                               \/ tokenLimit # Unset /\ used.tokens >= tokenLimit
  BY <1>3, <1>4, <1>7
<1>10. verdict = "unknown" <=> costLimit = Unset /\ tokenLimit = Unset
  BY <1>3, <1>4, <1>8
<1> QED BY <1>9, <1>10 DEF verdict, used

\* What is called priced has a rate of its model, what is not has the fallback's.
LEMMA LabelsEarned == RowsOK => LabelIsEarned
<1> SUFFICES ASSUME RowsOK,
                    NEW k \in DOMAIN Costs(Since(clock, 0), Everyone).tokens
             PROVE  LET rate == Rate(Overrides, Canonical(k[2]), k[1]) IN
                    IF k \in Costs(Since(clock, 0), Everyone).priced
                    THEN \/ \E pair \in DOMAIN Overrides : pair[2] = k[1] /\ rate = Overrides[pair]
                         \/ \E pair \in DOMAIN Catalog :
                              pair[2] \in {k[1], Normalized(k[1])} /\ rate = Catalog[pair]
                    ELSE rate = FallbackRate
  BY DEF LabelIsEarned
<1> DEFINE es == Within(Since(clock, 0), Everyone)
           groups == ByModel(es)
           provider == Canonical(k[2])
           model == k[1]
           rate == Rate(Overrides, provider, model)
<1>1. Table(es)
  BY WithinIsTable
<1>2. k \in DOMAIN groups
  <2>1. k \in DOMAIN Grouped(es, "model", "tokens")
    BY DEF Costs
  <2> HIDE DEF es
  <2> QED BY <1>1, <2>1, ModelGroups
<1>3. k \in Costs(Since(clock, 0), Everyone).priced <=> PriceKnown(Overrides, provider, model)
  <2>1. k \in Costs(Since(clock, 0), Everyone).priced <=> GroupEstimate(Overrides, groups, k).status = "priced"
    BY <1>2 DEF Costs
  <2>2. GroupEstimate(Overrides, groups, k).status = "priced" <=> PriceKnown(Overrides, provider, model)
    BY DEF GroupEstimate, Estimate
  <2> QED BY <2>1, <2>2
<1> HIDE DEF es, groups
<1> DEFINE exact == <<provider, model>>
           named == <<provider, Normalized(model)>>
           routed == <<Family(Normalized(model)), Normalized(model)>>
<1>4. /\ PriceKnown(Overrides, provider, model) <=>
           \/ exact \in DOMAIN Overrides \/ exact \in DOMAIN Catalog
           \/ named \in DOMAIN Catalog
           \/ provider = "opencode" /\ routed \in DOMAIN Catalog
      /\ rate = IF exact \in DOMAIN Overrides THEN Overrides[exact]
                ELSE IF exact \in DOMAIN Catalog THEN Catalog[exact]
                ELSE IF named \in DOMAIN Catalog THEN Catalog[named]
                ELSE IF provider = "opencode" /\ routed \in DOMAIN Catalog THEN Catalog[routed]
                ELSE FallbackRate
  BY DEF PriceKnown, Rate
<1>5. exact[2] = model /\ named[2] = Normalized(model) /\ routed[2] = Normalized(model)
  OBVIOUS
<1> HIDE DEF exact, named, routed, rate, provider
<1>6. CASE PriceKnown(Overrides, provider, model)
  <2>1. \/ \E pair \in DOMAIN Overrides : pair[2] = model /\ rate = Overrides[pair]
        \/ \E pair \in DOMAIN Catalog : pair[2] \in {model, Normalized(model)} /\ rate = Catalog[pair]
    BY <1>4, <1>5, <1>6
  <2> QED BY <1>3, <1>6, <2>1 DEF rate, provider
<1>7. CASE ~PriceKnown(Overrides, provider, model)
  <2>1. rate = FallbackRate
    BY <1>4, <1>7
  <2> QED BY <1>3, <1>7, <2>1 DEF rate, provider
<1> QED BY <1>6, <1>7

\* The rows of the Analytics page cost what the overview shows, within the slack.
LEMMA RowsNearOverview ==
  ASSUME RowsOK, Overridden = {}
  PROVE  LET rows == [e \in events |-> RowCost(e)] IN
         /\ \A e \in events : rows[e] \in Nat
         /\ Slack \in Nat /\ OverviewCost \in Nat
         /\ Sum_(rows, events) <= OverviewCost + Slack
         /\ OverviewCost <= Sum_(rows, events) + Slack
<1> DEFINE U == Unpriced
           groups == ByModel(U)
           K == DOMAIN groups
           recorded == [e \in events |-> Measured(e.row, "recorded")]
           exact == [e \in U |-> Charge(NoOverrides, e)]
           shown == [e \in U |-> Rounded(Charge(NoOverrides, e))]
           rounded == [e \in events |-> IF e \in U THEN Rounded(Charge(NoOverrides, e)) ELSE 0]
           rows == [e \in events |-> RowCost(e)]
<1>1. /\ IsFiniteSet(events) /\ events \subseteq Event /\ U \in SUBSET events /\ IsFiniteSet(U)
      /\ Table(U) /\ Table(events) /\ NoOverrides \in PriceLists
  BY FS_Subset DEF RowsOK, Unpriced, Table, PriceLists
<1>2. \A e \in events : recorded[e] \in Nat /\ recorded[e] = e.row.cost
  BY <1>1, Measures DEF Event
<1>3. /\ CostOf(NoOverrides, groups, K) \in Nat /\ Sum_(exact, U) \in Nat
      /\ \A e \in U : Charge(NoOverrides, e) \in Nat
      /\ CostOf(NoOverrides, groups, K) <= Sum_(exact, U) + Half * Cardinality(K)
      /\ Sum_(exact, U) <= CostOf(NoOverrides, groups, K) + Half * Cardinality(K)
  BY <1>1, CostsNear
<1>4. \A e \in U : /\ shown[e] \in Nat /\ exact[e] \in Nat
                   /\ shown[e] <= exact[e] + Half /\ exact[e] <= shown[e] + Half
  BY <1>3, RoundedNear
<1>5. \A e \in events : rows[e] = recorded[e] + rounded[e] /\ rounded[e] \in Nat /\ rows[e] \in Nat
  <2> SUFFICES ASSUME NEW e \in events
               PROVE  rows[e] = recorded[e] + rounded[e] /\ rounded[e] \in Nat
    BY <1>2
  <2>1. CASE e \in U
    <3>1. e.row.cost = 0
      BY <2>1 DEF Unpriced
    <3>2. Rate(Overrides, Canonical(e.row.provider), e.row.model) = RowRate(NoOverrides, e)
      BY <2>1 DEF Overridden, Rate, RowRate, NoOverrides
    <3>3. RowCost(e) = Rounded(e.row.input * RowRate(NoOverrides, e).input
                                 + e.row.output * RowRate(NoOverrides, e).output)
      BY <3>1, <3>2 DEF RowCost, Estimate, Exact
    <3>4. RowCost(e) = Rounded(Charge(NoOverrides, e))
      BY <3>3 DEF Charge
    <3> QED BY <1>2, <1>3, <2>1, <3>1, <3>4, RoundedNear
  <2>2. CASE e \notin U
    <3>1. e.row.cost > 0
      BY <1>2, <2>2 DEF Unpriced
    <3>2. RowCost(e) = e.row.cost
      BY <3>1 DEF RowCost
    <3> QED BY <1>2, <2>2, <3>2
  <2> QED BY <2>1, <2>2
<1>6. Sum_(rounded, events) = Sum_(shown, U)
  <2> DEFINE P == events \ U
  <2>1. U \cup P = events /\ U \cap P = {} /\ IsFiniteSet(P) /\ P \in SUBSET events
    BY <1>1, FS_Subset
  <2>2. (\A e \in P : rounded[e] = 0) /\ \A e \in U : rounded[e] = shown[e]
    BY <1>1
  <2> HIDE DEF U, P, rounded, shown
  <2>3. Sum_(rounded, U \cup P) = Sum_(rounded, U) + Sum_(rounded, P)
    BY <1>1, <1>5, <2>1, SumOfBoth
  <2>4. Sum_(rounded, P) = 0
    BY <2>2, SumOfZeros
  <2>5. Sum_(rounded, U) = Sum_(shown, U)
    BY <2>2, SumOfSame
  <2>6. Sum_(rounded, U) \in Nat
    BY <1>1, <1>5, ThingsOf
  <2>7. Sum_(rounded, U \cup P) = Sum_(rounded, U)
    BY <2>3, <2>4, <2>6
  <2> QED BY <2>1, <2>5, <2>7
<1>7. SumOf(events, "recorded") = Sum_(recorded, events)
  <2>1. Counted(events, "recorded")
    BY <1>1, TableCounts
  <2> QED BY <2>1, SumOfIsSum DEF Counted
<1>8. OverviewCost = SumOf(events, "recorded") + CostOf(NoOverrides, groups, K)
  BY DEF OverviewCost
<1>9. Slack = Half * (Cardinality(U) + Cardinality(K))
  BY DEF Slack, Half
<1>10. Cardinality(U) \in Nat /\ Cardinality(K) \in Nat /\ Half \in Nat
  <2>1. IsFiniteSet(K)
    BY <1>1, ModelGroups
  <2> QED BY <1>1, <2>1, FS_CardinalityType, ClockAssumption DEF Half
<1> HIDE DEF U, groups, K, recorded, exact, shown, rounded, rows
<1>11. /\ Sum_(shown, U) <= Sum_(exact, U) + Half * Cardinality(U)
       /\ Sum_(exact, U) <= Sum_(shown, U) + Half * Cardinality(U)
  BY <1>1, <1>4, <1>10, SumOfNear
<1>12. Sum_(rows, events) = Sum_(recorded, events) + Sum_(rounded, events)
  BY <1>1, <1>2, <1>5, SumOfSums
<1>13. Sum_(recorded, events) \in Nat /\ Sum_(shown, U) \in Nat
  BY <1>1, <1>2, <1>4, ThingsOf
<1> DEFINE a == Half * Cardinality(U)
           b == Half * Cardinality(K)
           C == CostOf(NoOverrides, groups, K)
<1>14. Slack = a + b /\ a \in Nat /\ b \in Nat
  BY <1>9, <1>10
<1> HIDE DEF a, b, C
<1>15. /\ OverviewCost = Sum_(recorded, events) + C /\ C \in Nat
       /\ Sum_(rows, events) = Sum_(recorded, events) + Sum_(shown, U)
       /\ C <= Sum_(exact, U) + b /\ Sum_(exact, U) <= C + b
       /\ Sum_(shown, U) <= Sum_(exact, U) + a /\ Sum_(exact, U) <= Sum_(shown, U) + a
       /\ Sum_(exact, U) \in Nat
  BY <1>3, <1>6, <1>7, <1>8, <1>11, <1>12 DEF a, b, C
<1>16. /\ Sum_(rows, events) <= OverviewCost + Slack /\ OverviewCost <= Sum_(rows, events) + Slack
       /\ Slack \in Nat /\ OverviewCost \in Nat
  BY <1>13, <1>14, <1>15
<1> QED BY <1>5, <1>16 DEF rows

LEMMA OverviewIsSum == RowsOK => OverviewIsTheSumOfRows
<1> SUFFICES ASSUME RowsOK, Overridden = {}, NEW limit \in 1..MaxRows, NEW page \in NewestRows(limit)
             PROVE  LET shown == MapThenSumSet(RowCost, page)
                    IN /\ shown <= OverviewCost + Slack
                       /\ Cardinality(events) <= limit => OverviewCost <= shown + Slack
  BY DEF OverviewIsTheSumOfRows
<1> DEFINE rows == [e \in events |-> RowCost(e)]
           these == [e \in page |-> RowCost(e)]
<1>1. IsFiniteSet(events) /\ page \in SUBSET events /\ IsFiniteSet(page)
  BY FS_Subset DEF RowsOK, NewestRows
<1>2. /\ \A e \in events : rows[e] \in Nat
      /\ Slack \in Nat /\ OverviewCost \in Nat
      /\ Sum_(rows, events) <= OverviewCost + Slack
      /\ OverviewCost <= Sum_(rows, events) + Slack
  BY RowsNearOverview
<1>3. \A e \in page : RowCost(e) \in Nat /\ these[e] = rows[e] /\ rows[e] \in Nat
  BY <1>1, <1>2
<1>4. MapThenSumSet(RowCost, page) = Sum_(these, page)
  BY <1>1, <1>3, RowCostsAreSum
<1> HIDE DEF rows, these
<1>5. Sum_(these, page) = Sum_(rows, page)
  BY <1>3, SumOfSame
<1>6. Sum_(rows, page) <= Sum_(rows, events) /\ Sum_(rows, page) \in Nat /\ Sum_(rows, events) \in Nat
  BY <1>1, <1>2, <1>3, SumOfFewer, ThingsOf
<1>7. ASSUME Cardinality(events) <= limit PROVE page = events
  <2> DEFINE two == {limit, Cardinality(events)}
  <2>1. Cardinality(events) \in Nat /\ limit \in Int
    BY <1>1, FS_CardinalityType
  <2>2. two \in SUBSET Int /\ two # {} /\ IsFiniteSet(two)
    <3>1. two = {limit} \cup {Cardinality(events)}
      OBVIOUS
    <3>2. IsFiniteSet({limit}) /\ IsFiniteSet({Cardinality(events)})
      BY FS_Singleton
    <3>3. IsFiniteSet({limit} \cup {Cardinality(events)})
      BY <3>2, FS_Union
    <3> QED BY <2>1, <3>1, <3>3
  <2>3. Min(two) \in two /\ \A x \in two : Min(two) <= x
    <3> HIDE DEF two
    <3> QED BY <2>2, Extremes
  <2>4. Min(two) = Cardinality(events)
    BY <1>7, <2>1, <2>3
  <2>5. Cardinality(page) = Cardinality(events)
    BY <2>4 DEF NewestRows
  <2> QED BY <1>1, <2>5, FS_Subset
<1> QED BY <1>2, <1>4, <1>5, <1>6, <1>7

LEMMA SameRows == RowsOK => PagesCountTheSameRows
<1> SUFFICES ASSUME RowsOK
             PROVE  LET dashboard == Grouped(Selected(WholeTable), "card", "all tokens")
                        history   == Grouped(Within(Since(clock, 0), Everyone), "model", "tokens")
                        sessions  == SessionsPage(Since(clock, 0), Everyone, "recorded")
                        groups    == ByModel(Unpriced)
                    IN /\ SumOf(events, "all tokens") = Total(dashboard)
                       /\ Total(dashboard) = Total(history) + SumOf(events, "cached")
                       /\ OverviewCost = Total(sessions) + CostOf(NoOverrides, groups, DOMAIN groups)
  BY DEF PagesCountTheSameRows
<1>1. DayTicks \in Nat \ {0} /\ MaxTick \in Nat
  BY ClockAssumption
<1>2. \A e \in events : -2 * DayTicks <= e.at /\ e.at < MaxTick + 2 * DayTicks
  BY <1>1 DEF RowsOK, Event
<1>3. Selected(WholeTable) = events
  BY <1>2 DEF Selected, WholeTable, Matches, Everyone
<1>4. Within(Since(clock, 0), Everyone) = events
  BY <1>2 DEF Within, Since
<1>5. Table(events)
  BY DEF RowsOK, Table
<1>6. /\ Counted(events, "all tokens") /\ Counted(events, "tokens") /\ Counted(events, "cached")
      /\ Counted(events, "recorded")
  BY <1>5, TableCounts
<1>7. Total(Grouped(events, "card", "all tokens")) = SumOf(events, "all tokens")
  BY <1>6, GroupsAddUp DEF AddsUp
<1>8. Total(Grouped(events, "model", "tokens")) = SumOf(events, "tokens")
  BY <1>6, GroupsAddUp DEF AddsUp
<1>9. SumOf(events, "all tokens") = SumOf(events, "tokens") + SumOf(events, "cached")
  <2> DEFINE u == [e \in events |-> Measured(e.row, "tokens")]
             v == [e \in events |-> Measured(e.row, "cached")]
             w == [e \in events |-> Measured(e.row, "all tokens")]
  <2>1. \A e \in events : u[e] \in Nat /\ v[e] \in Nat /\ w[e] = u[e] + v[e]
    BY <1>5, Measures DEF Table, Event
  <2>2. /\ SumOf(events, "tokens") = Sum_(u, events) /\ SumOf(events, "cached") = Sum_(v, events)
        /\ SumOf(events, "all tokens") = Sum_(w, events)
    BY <1>6, SumOfIsSum DEF Counted
  <2>3. IsFiniteSet(events)
    BY <1>5 DEF Table
  <2> HIDE DEF u, v, w
  <2>4. Sum_(w, events) = Sum_(u, events) + Sum_(v, events)
    BY <2>1, <2>3, SumOfSums
  <2> QED BY <2>2, <2>4
<1>10. Total(SessionsPage(Since(clock, 0), Everyone, "recorded")) = SumOf(events, "recorded")
  BY <1>4, SessionsAddUp
<1> QED BY <1>3, <1>4, <1>7, <1>8, <1>9, <1>10 DEF OverviewCost

\* A page has answered no more statements than it has, with numbers, and the table
\* keeps to its bound (dashboard.rs, usage_history.rs).
THEOREM ViewsTypes == ViewsSpec => []ViewsTypeOK
BY ViewsKeep, TypesOfViews, PTL

\* The parts of a page add up to one total unless a cycle wrote under it, and then
\* only upwards (dashboard.rs, usage_history.rs); a card is the page of its
\* provider; a budget is what the Costs page lists, which labels every price as the
\* rate it is charged at (costs.rs, budgets.rs, calculator.rs); and the dashboard,
\* the history, the sessions, the overview and the rows of Analytics count one
\* table, up to the tokens, the rounding and the LIMIT in which the code lets them
\* differ (overview.rs, analytics.rs).
THEOREM ViewsStayAgreed == ViewsSpec => []ViewsAgree
<1>1. ViewsInv => ViewsAgree
  BY PagesAddUp, OneCard, BudgetIsCost, BudgetStates, LabelsEarned, OverviewIsSum, SameRows
     DEF ViewsInv, ViewsAgree
<1> QED BY <1>1, ViewsKeep, PTL

-----------------------------------------------------------------------------
(* The alerts *)

USE KeysAssumption

\* The keys whose conditions the evaluation has read.
Seen == {k \in AlertKeys :
           \/ pc = "record"
           \/ pc = "budgets" /\ k # "budget"
           \/ pc = "runs" /\ k = "quota"}

\* What was read is still to be recorded, or is on record.
Followed(k) ==
  \/ todo[k] = Condition(k)
  \/ todo[k] = "clear" /\ Open(k) /\ alerts[k].severity = Condition(k)

\* An acknowledged alert that stands was found active again; an evaluation that
\* nothing disturbed knows all conditions it has read, and what is settled
\* remains so until something is written.
AlertInv ==
  /\ AlertTypeOK
  /\ \A k \in standing : Open(k) /\ alerts[k].acked /\ Condition(k) # "clear"
  /\ standing \cap Seen \subseteq active
  /\ pc = "idle" => active = {} /\ todo = Nothing
  /\ \A k \in AlertKeys \ Seen : k \notin active /\ todo[k] = "clear"
  /\ quiet => \A k \in Seen : Followed(k) /\ (k \in active <=> Condition(k) # "clear")
  /\ settled /\ pc # "idle" => quiet
  /\ EvaluationSettles

LEMMA KeyKinds ==
  /\ Modes \subseteq AlertKeys /\ Meters \subseteq AlertKeys
  /\ AlertKeys \subseteq {"quota", "budget"} \cup Modes
  /\ "quota" \notin Modes /\ "budget" \notin Modes
  /\ \A k \in AlertKeys : k # "quota" /\ k # "budget" => k \in Modes
  BY DEF Modes, AlertKeys

\* A condition is as bad as a level can be.
LEMMA ConditionType == AlertTypeOK => \A k \in AlertKeys : Condition(k) \in Levels
  BY DEF AlertTypeOK, Condition, AlertKeys

\* What an observation and a resolution make of a row.
LEMMA ObservedRow ==
  ASSUME NEW alert \in AlertRows, NEW severity \in Levels
  PROVE  /\ Observed(alert, severity) \in AlertRows
         /\ Observed(alert, severity).state = "open"
         /\ Observed(alert, severity).severity = severity
         /\ Observed(alert, severity).acked <=> alert.acked /\ alert.state # "resolved"
  BY DEF Observed, AlertRows

LEMMA ResolvedRow ==
  ASSUME NEW alert \in AlertRows
  PROVE  Resolved(alert) \in AlertRows /\ Resolved(alert).state # "open"
  BY DEF Resolved, AlertRows

LEMMA InitAlerts == AlertInit => AlertInv
<1> SUFFICES ASSUME AlertInit PROVE AlertInv
  OBVIOUS
<1>1. AlertTypeOK
  BY DEF AlertInit, AlertTypeOK, AlertRows, NoAlert, Nothing
<1>2. Seen = {} /\ todo = Nothing /\ \A k \in AlertKeys : Nothing[k] = "clear"
  BY DEF AlertInit, Seen, Nothing
<1>3. QED
  BY <1>1, <1>2 DEF AlertInit, AlertInv, EvaluationSettles

\* Whatever is written disturbs the evaluation and leaves the alerts alone.
LEMMA RewrittenKeeps ==
  ASSUME AlertInv, Rewritten, level' \in [Meters -> Levels], runs' \in [Modes -> Codes \cup {"none"}],
         newest' \in UsageModes
  PROVE  AlertInv'
<1>1. AlertTypeOK'
  BY DEF AlertInv, AlertTypeOK, Rewritten, Evaluation
<1>2. standing' \subseteq standing /\ Seen' = Seen
  BY DEF Rewritten, Evaluation, Seen
<1>3. QED
  BY <1>1, <1>2 DEF AlertInv, Rewritten, Evaluation, EvaluationSettles, Open

LEMMA ReadKeeps ==
  ASSUME AlertInv, NEW from \in {"quota", "runs", "budgets"}, NEW to \in {"runs", "budgets", "record"},
         NEW keys \in SUBSET AlertKeys, Read(from, to, keys),
         Seen' = Seen \cup keys, Seen \cap keys = {}
  PROVE  AlertInv'
<1>1. AlertTypeOK'
  <2>1. todo' \in [AlertKeys -> Levels]
    BY ConditionType DEF AlertInv, AlertTypeOK, Read
  <2>2. active' \subseteq AlertKeys
    BY DEF AlertInv, AlertTypeOK, Read
  <2>3. QED
    BY <2>1, <2>2 DEF AlertInv, AlertTypeOK, Read, Tables
<1>2. \A k \in AlertKeys : Condition(k)' = Condition(k) /\ (Open(k)' <=> Open(k))
  BY DEF Read, Tables, Condition, Open
<1>3. \A k \in AlertKeys : todo'[k] = IF k \in keys THEN Condition(k) ELSE todo[k]
  BY DEF Read
<1>4. active' = active \cup {k \in keys : Condition(k) # "clear"}
  BY DEF Read
<1>5. standing' \cap Seen' \subseteq active'
  BY <1>4 DEF AlertInv, AlertTypeOK, Read
<1>6. \A k \in AlertKeys \ Seen' : k \notin active' /\ todo'[k] = "clear"
  BY <1>3, <1>4 DEF AlertInv
<1>7. quiet' => \A k \in Seen' : Followed(k)' /\ (k \in active' <=> Condition(k)' # "clear")
  <2>1. SUFFICES ASSUME quiet, NEW k \in Seen'
                 PROVE  Followed(k)' /\ (k \in active' <=> Condition(k)' # "clear")
    BY DEF Read
  <2>2. k \in AlertKeys
    BY DEF Seen
  <2>3. alerts' = alerts
    BY DEF Read
  <2>4. CASE k \in keys
    <3>1. k \notin active
      BY <2>2, <2>4 DEF AlertInv
    <3>2. QED
      BY <1>2, <1>3, <1>4, <2>2, <2>4, <3>1 DEF Followed
  <2>5. CASE k \in Seen \ keys
    <3>1. Followed(k) /\ (k \in active <=> Condition(k) # "clear")
      BY <2>1, <2>5 DEF AlertInv
    <3>2. QED
      BY <1>2, <1>3, <1>4, <2>2, <2>3, <2>5, <3>1 DEF Followed
  <2>6. QED
    BY <2>4, <2>5
<1>8. EvaluationSettles'
  BY <1>2 DEF AlertInv, EvaluationSettles, Read
<1>9. QED
  BY <1>1, <1>2, <1>5, <1>6, <1>7, <1>8 DEF AlertInv, AlertTypeOK, Read

LEMMA AckedKeeps ==
  ASSUME AlertInv, pc = "idle", NEW keys \in SUBSET AlertKeys, Acked(keys)
  PROVE  AlertInv'
<1>0. \A k \in AlertKeys : alerts[k] \in AlertRows
  BY DEF AlertInv, AlertTypeOK
<1>a. ASSUME NEW k \in AlertKeys
      PROVE  /\ alerts'[k] \in AlertRows
             /\ alerts'[k].state = alerts[k].state
             /\ alerts'[k].severity = alerts[k].severity
             /\ k \in keys => alerts'[k].acked
             /\ alerts[k].acked => alerts'[k].acked
  <2>1. CASE k \in keys
    <3>1. alerts'[k] = [alerts[k] EXCEPT !.acked = TRUE]
      BY <2>1 DEF Acked
    <3>2. QED
      BY <1>0, <3>1 DEF AlertRows
  <2>2. CASE k \notin keys
    <3>1. alerts'[k] = alerts[k]
      BY <2>2 DEF Acked
    <3>2. QED
      BY <1>0, <2>2, <3>1
  <2>3. QED
    BY <2>1, <2>2
<1>1. \A k \in AlertKeys : /\ alerts'[k].state = alerts[k].state
                           /\ alerts'[k].severity = alerts[k].severity
                           /\ k \in keys => alerts'[k].acked
                           /\ alerts[k].acked => alerts'[k].acked
  BY <1>a
<1>2. AlertTypeOK'
  <2>1. alerts' = [k \in AlertKeys |-> alerts'[k]]
    BY DEF Acked
  <2>2. alerts' \in [AlertKeys -> AlertRows]
    BY <1>a, <2>1
  <2>3. QED
    BY <2>2 DEF Acked, AlertInv, AlertTypeOK, Tables, Evaluation
<1>3. \A k \in AlertKeys : Condition(k)' = Condition(k) /\ (Open(k)' <=> Open(k))
  BY <1>1 DEF Acked, Tables, Condition, Open
<1>4. Seen = {} /\ Seen' = {}
  BY DEF Acked, Evaluation, Seen
<1>5. \A k \in standing' : Open(k)' /\ alerts'[k].acked /\ Condition(k)' # "clear"
  BY <1>1, <1>3 DEF Acked, AlertInv, AlertTypeOK
<1>6. EvaluationSettles'
  BY <1>1, <1>3 DEF AlertInv, EvaluationSettles, Acked
<1>7. QED
  BY <1>2, <1>4, <1>5, <1>6 DEF AlertInv, Acked, Evaluation

LEMMA StepAlerts == AlertInv /\ [AlertNext]_alertVars => AlertInv'
<1> SUFFICES ASSUME AlertInv, [AlertNext]_alertVars PROVE AlertInv'
  OBVIOUS
<1>0. AlertTypeOK
  BY DEF AlertInv
<1>1. ASSUME NEW m \in Meters, NEW severity \in Levels, ChangeLevel(m, severity) PROVE AlertInv'
  BY <1>0, <1>1, RewrittenKeeps DEF ChangeLevel, AlertTypeOK
<1>2. ASSUME NEW mode \in UsageModes, NEW code \in Codes, RecordUsageRun(mode, code) PROVE AlertInv'
  BY <1>0, <1>2, RewrittenKeeps DEF RecordUsageRun, AlertTypeOK, Modes
<1>3. ASSUME NEW code \in Codes, RecordQuotaRun(code) PROVE AlertInv'
  BY <1>0, <1>3, RewrittenKeeps DEF RecordQuotaRun, AlertTypeOK, Modes
<1>4. ASSUME BeginEvaluation PROVE AlertInv'
  <2>1. Seen = {} /\ Seen' = {}
    BY <1>4 DEF BeginEvaluation, Seen
  <2>2. AlertTypeOK'
    BY <1>0, <1>4 DEF BeginEvaluation, AlertTypeOK, Tables
  <2>3. QED
    BY <1>4, <2>1, <2>2 DEF BeginEvaluation, AlertInv, Tables, Condition, Open, EvaluationSettles
<1>5. ASSUME ReadQuotas PROVE AlertInv'
  <2>1. pc = "quota" /\ pc' = "runs"
    BY <1>5 DEF ReadQuotas, Read
  <2>2. Seen' = Seen \cup (Meters \cap {"quota"}) /\ Seen \cap (Meters \cap {"quota"}) = {}
    BY <2>1, KeyKinds DEF Seen, AlertKeys
  <2>3. Meters \cap {"quota"} \in SUBSET AlertKeys
    BY KeyKinds
  <2>4. QED
    BY <1>5, <2>2, <2>3, ReadKeeps DEF ReadQuotas
<1>6. ASSUME ReadRuns PROVE AlertInv'
  <2>1. pc = "runs" /\ pc' = "budgets"
    BY <1>6 DEF ReadRuns, Read
  <2>2. Seen' = Seen \cup Modes /\ Seen \cap Modes = {}
    BY <2>1, KeyKinds DEF Seen
  <2>3. Modes \in SUBSET AlertKeys
    BY KeyKinds
  <2>4. QED
    BY <1>6, <2>2, <2>3, ReadKeeps DEF ReadRuns
<1>7. ASSUME ReadBudgets PROVE AlertInv'
  <2>1. pc = "budgets" /\ pc' = "record"
    BY <1>7 DEF ReadBudgets, Read
  <2>2. Seen' = Seen \cup (Meters \cap {"budget"}) /\ Seen \cap (Meters \cap {"budget"}) = {}
    BY <2>1, KeyKinds DEF Seen, AlertKeys
  <2>3. Meters \cap {"budget"} \in SUBSET AlertKeys
    BY KeyKinds
  <2>4. QED
    BY <1>7, <2>2, <2>3, ReadKeeps DEF ReadBudgets
<1>8. ASSUME NEW k \in AlertKeys, Record(k) PROVE AlertInv'
  <2>1. Seen = AlertKeys /\ Seen' = AlertKeys
    BY <1>8 DEF Record, Seen
  <2>2. \A i \in AlertKeys : Condition(i)' = Condition(i)
    BY <1>8 DEF Record, Tables, Condition
  <2>3. /\ alerts'[k] = Observed(alerts[k], todo[k]) /\ todo'[k] = "clear" /\ todo[k] # "clear"
        /\ \A i \in AlertKeys \ {k} : alerts'[i] = alerts[i] /\ todo'[i] = todo[i]
    BY <1>0, <1>8 DEF Record, AlertTypeOK
  <2>4. AlertTypeOK'
    BY <1>0, <1>8 DEF Record, AlertTypeOK, AlertRows, Tables, Observed
  <2>5. \A i \in standing' : Open(i)' /\ alerts'[i].acked /\ Condition(i)' # "clear"
    <3>1. SUFFICES ASSUME NEW i \in standing PROVE Open(i)' /\ alerts'[i].acked /\ Condition(i) # "clear"
      BY <1>0, <1>8, <2>2 DEF Record, AlertTypeOK
    <3>2. i \in AlertKeys /\ Open(i) /\ alerts[i].acked /\ Condition(i) # "clear"
      BY <1>0, <3>1 DEF AlertInv, AlertTypeOK
    <3>3. CASE i = k
      <4>1. alerts[k] \in AlertRows /\ todo[k] \in Levels
        BY <1>0 DEF AlertTypeOK
      <4>2. Open(k)' /\ alerts'[k].acked
        BY <2>3, <3>2, <3>3, <4>1, ObservedRow DEF Open
      <4>3. QED
        BY <3>2, <3>3, <4>2
    <3>4. CASE i # k
      BY <2>3, <3>2, <3>4 DEF Open
    <3>5. QED
      BY <3>3, <3>4
  <2>6. quiet => todo[k] = Condition(k)
    BY <2>1, <2>3 DEF AlertInv, Followed
  <2>7. quiet => \A i \in AlertKeys : Followed(i)'
    BY <2>1, <2>2, <2>3, <2>6 DEF AlertInv, Followed, Open, Observed
  <2>8. EvaluationSettles'
    <3>1. settled => quiet
      BY <1>8 DEF Record, AlertInv
    <3>2. settled /\ Condition(k) = todo[k] => Condition(k) # "clear"
      BY <2>3
    <3>3. QED
      BY <1>8, <2>2, <2>3, <2>6, <3>1, <3>2 DEF Record, AlertInv, EvaluationSettles, Open, Observed
  <2>9. QED
    BY <1>8, <2>1, <2>2, <2>4, <2>5, <2>7, <2>8 DEF Record, AlertInv
<1>9. ASSUME Resolve PROVE AlertInv'
  <2>1. Seen = AlertKeys /\ Seen' = {}
    BY <1>9 DEF Resolve, Seen
  <2>2. \A k \in AlertKeys : Condition(k)' = Condition(k)
    BY <1>9 DEF Resolve, Tables, Condition
  <2>3. \A k \in AlertKeys : alerts'[k] = IF k \in active THEN alerts[k] ELSE Resolved(alerts[k])
    BY <1>9 DEF Resolve
  <2>4. AlertTypeOK'
    <3>1. ASSUME NEW k \in AlertKeys PROVE alerts'[k] \in AlertRows
      <4>1. alerts[k] \in AlertRows
        BY <1>0 DEF AlertTypeOK
      <4>2. Resolved(alerts[k]) \in AlertRows
        BY <4>1, ResolvedRow
      <4>3. QED
        BY <2>3, <4>1, <4>2
    <3>2. alerts' = [k \in AlertKeys |-> alerts'[k]]
      BY <1>9 DEF Resolve
    <3>3. alerts' \in [AlertKeys -> AlertRows]
      BY <3>1, <3>2
    <3>4. QED
      BY <1>0, <1>9, <3>3 DEF Resolve, AlertTypeOK, Tables, Nothing
  <2>5. \A k \in standing' : Open(k)' /\ alerts'[k].acked /\ Condition(k)' # "clear"
    BY <1>0, <1>9, <2>1, <2>2, <2>3 DEF Resolve, AlertInv, AlertTypeOK, Open
  <2>6. \A k \in AlertKeys : todo[k] = "clear"
    BY <1>9 DEF Resolve, Nothing
  <2>7. EvaluationSettles'
    <3>1. SUFFICES ASSUME quiet, NEW k \in AlertKeys
                   PROVE  IF Condition(k) = "clear" THEN ~Open(k)'
                          ELSE Open(k)' /\ alerts'[k].severity = Condition(k)
      BY <1>9, <2>2 DEF Resolve, EvaluationSettles
    <3>2. Followed(k) /\ (k \in active <=> Condition(k) # "clear")
      BY <2>1, <3>1 DEF AlertInv
    <3>3. CASE Condition(k) = "clear"
      <4>1. alerts[k] \in AlertRows
        BY <1>0 DEF AlertTypeOK
      <4>2. alerts'[k].state # "open"
        BY <2>3, <3>2, <3>3, <4>1, ResolvedRow
      <4>3. QED
        BY <3>3, <4>2 DEF Open
    <3>4. CASE Condition(k) # "clear"
      BY <2>3, <2>6, <3>2, <3>4 DEF Open, Followed
    <3>5. QED
      BY <3>3, <3>4
  <2>8. todo' = Nothing /\ active' = {} /\ pc' = "idle" /\ ~quiet'
    BY <1>9 DEF Resolve
  <2>9. QED
    BY <2>1, <2>4, <2>5, <2>6, <2>7, <2>8, <1>9 DEF Resolve, AlertInv
<1>10. ASSUME Interrupt PROVE AlertInv'
  <2>1. Seen' = {} /\ \A k \in AlertKeys : Nothing[k] = "clear"
    BY <1>10 DEF Interrupt, Seen, Nothing
  <2>2. AlertTypeOK'
    BY <1>0, <1>10 DEF Interrupt, AlertTypeOK, Tables, Nothing
  <2>3. QED
    BY <1>10, <2>1, <2>2 DEF Interrupt, AlertInv, Tables, Condition, Open, EvaluationSettles
<1>11. ASSUME NEW k \in AlertKeys, Acknowledge(k) PROVE AlertInv'
  BY <1>11, AckedKeeps DEF Acknowledge
<1>12. ASSUME AcknowledgeAll PROVE AlertInv'
  BY <1>12, AckedKeeps DEF AcknowledgeAll
<1>13. CASE UNCHANGED alertVars
  BY <1>13 DEF alertVars, AlertInv, AlertTypeOK, Seen, Followed, Condition, Open, EvaluationSettles
<1>14. QED
  BY <1>1, <1>2, <1>3, <1>4, <1>5, <1>6, <1>7, <1>8, <1>9, <1>10, <1>11, <1>12, <1>13
  DEF AlertNext, Evaluate

LEMMA AlertsAlways == AlertSpec => []AlertInv
<1>1. QED
  BY InitAlerts, StepAlerts, PTL DEF AlertSpec

\* An acknowledged alert stays open and read while its condition holds, and an
\* evaluation that nobody disturbed leaves exactly the conditions that hold open.
THEOREM AlertsStayTrue == AlertSpec => []AlertsStand
<1>1. AlertInv => AlertsStand
  BY DEF AlertInv, AlertsStand, AckStands
<1>2. QED
  BY <1>1, AlertsAlways, PTL

\* A condition that was resolved and reappears is unread: only observe opens an
\* alert, and it clears the acknowledgement of a resolved row.
THEOREM ReappearingIsUnread == AlertSpec => ReappearedIsUnread
<1> DEFINE Unread == \A k \in AlertKeys : alerts[k].state = "resolved" /\ Open(k)' => ~alerts'[k].acked
<1>1. ASSUME AlertInv, [AlertNext]_alertVars PROVE [Unread]_alertVars
  <2>0. AlertTypeOK
    BY <1>1 DEF AlertInv
  <2>1. ASSUME NEW k \in AlertKeys, Record(k) PROVE Unread
    BY <2>0, <2>1 DEF Record, AlertTypeOK, Observed, Open
  <2>2. ASSUME Resolve PROVE Unread
    BY <2>0, <2>2 DEF Resolve, AlertTypeOK, Resolved, Open
  <2>3. ASSUME NEW keys, Acked(keys) PROVE Unread
    BY <2>0, <2>3 DEF Acked, AlertTypeOK, Open
  <2>4. ASSUME UNCHANGED alerts PROVE Unread
    BY <2>4 DEF Open
  <2>5. QED
    BY <1>1, <2>1, <2>2, <2>3, <2>4
    DEF AlertNext, Evaluate, ChangeLevel, RecordUsageRun, RecordQuotaRun, Rewritten, BeginEvaluation,
        ReadQuotas, ReadRuns, ReadBudgets, Read, Interrupt, Acknowledge, AcknowledgeAll
<1>2. QED
  BY <1>1, AlertsAlways, PTL DEF AlertSpec, ReappearedIsUnread

-----------------------------------------------------------------------------
(* The cards: the rows of a provider *)

HIDE KeysAssumption
USE CardsAssumption

\* What can be stored of quota up to a time: the readings of some sources, and
\* that no workspace is configured.
Readings(sources, t) == {Reading(s, u) : s \in sources, u \in 0..t}
Failures(t) == {Failed("provider_api", "NOT_CONFIGURED", u) : u \in 0..t}
OfToday == {"provider_api", "antigravity_ls"}
AnyAge  == {"provider_api", "antigravity_ls", "local_estimate"}

\* A named account has a reading of an adapter of today or nothing; what an earlier
\* version stored, and what failed, has no name.
RowsInv ==
  /\ reports \in [Owners -> {NoReading} \cup Failures(time) \cup Readings(AnyAge, time)]
  /\ \A a \in Named : reports[a] \in {NoReading} \cup Readings(OfToday, time)

\* The refresh writes a reading of an instant that is over; the codes of the runs
\* are those the channels can give.
RefreshInv ==
  /\ refresh \in [pc : {"idle", "state", "usage", "report", "quota"}, present : BOOLEAN,
                  at : 0..time, of : Owners, ok : BOOLEAN]
  /\ refresh.pc # "idle" => Registered
  /\ refresh.ok => /\ QuotaChannel /\ refresh.pc = "quota"
                   /\ reports[refresh.of] \in Readings(OfToday, time)
  /\ refresh.pc \in {"usage", "report", "quota"} => last = NoRun
  /\ quotaRun = "SOURCE_REQUIRES_IDE" => card = "antigravity"
  /\ quotaRun = "NOT_SUPPORTED" => ~QuotaChannel

\* The last success stands as it was written.
LastInv ==
  /\ last \in Owners \cup {NoRun}
  /\ last # NoRun =>
       /\ Registered /\ QuotaChannel /\ quotaRun = NoCode
       /\ reports[last] \in Readings(OfToday, time)

CardInv ==
  /\ card \in Cards /\ time \in 0..LastTime
  /\ state \in States
  /\ RowsInv
  /\ RefreshInv
  /\ LastInv

LEMMA CodeFacts ==
  /\ NoRun \notin Owners /\ NoRun # NoCode
  /\ NoRun \notin {"SOURCE_REQUIRES_IDE", "NOT_SUPPORTED", "NOT_CONFIGURED", "AUTH_EXPIRED", "SOURCE_UNAVAILABLE"}
  /\ NoCode \notin {"SOURCE_REQUIRES_IDE", "NOT_SUPPORTED", "NOT_CONFIGURED", "AUTH_EXPIRED", "SOURCE_UNAVAILABLE",
                    "SOURCE_SCHEMA_MISMATCH", "STORAGE_FAILURE", "INVALID_PROVIDER_DATA"}
  /\ NoCode \notin Absences /\ NoRun \notin Absences
BY Zenon DEF NoRun, NoCode, Owners, Named, Unnamed, Absences

LEMMA OwnersOf ==
  /\ Owners = {Unnamed, "a", "b"} /\ Named = {"a", "b"} /\ Unnamed \notin Named
  /\ Identities \subseteq Owners
<1>1. Unnamed \notin Named
  BY Zenon DEF Named, Unnamed
<1>2. Owners = {Unnamed, "a", "b"} /\ Named = {"a", "b"}
  BY DEF Owners, Named
<1>3. QED
  BY <1>1, <1>2 DEF Identities

LEMMA ReadingFacts ==
  /\ ~Usable(NoReading)
  /\ \A s, t : /\ Usable(Reading(s, t)) /\ Reading(s, t) # NoReading
               /\ Reading(s, t).source = s /\ Reading(s, t).at = t
               /\ Reading(s, t).code = NoCode /\ Reading(s, t).status = "fresh"
  /\ \A s, c, t : /\ ~Usable(Failed(s, c, t)) /\ Failed(s, c, t).at = t
                  /\ Failed(s, c, t).source = s /\ Failed(s, c, t).code = c
                  /\ Failed(s, c, t).status = "error"
BY DEF Usable, NoReading, Reading, Failed

\* What is of the past stays of the past.
LEMMA PastGrows ==
  ASSUME NEW t \in Nat, NEW u \in Nat, t <= u
  PROVE  /\ \A sources : Readings(sources, t) \subseteq Readings(sources, u)
         /\ Failures(t) \subseteq Failures(u)
         /\ 0..t \subseteq 0..u
<1>1. 0..t \subseteq 0..u
  OBVIOUS
<1>2. QED
  BY <1>1 DEF Readings, Failures

LEMMA InitCards == CardInit => CardInv
<1> SUFFICES ASSUME CardInit PROVE CardInv
  OBVIOUS
<1>1. /\ refresh = [pc |-> "idle", present |-> FALSE, at |-> 0, of |-> Unnamed, ok |-> FALSE]
      /\ last = NoRun /\ quotaRun = NoRun /\ time = 0 /\ state = NoState /\ card \in Cards
  BY DEF CardInit, Idle
<1>2. PICK r : reports = [a \in Owners |-> IF a = Unnamed THEN r ELSE NoReading]
               /\ r \in {NoReading} \cup Readings(AnyAge, 0)
  <2>1. \A s \in AnyAge : Reading(s, 0) \in Readings(AnyAge, 0)
    BY DEF Readings
  <2>2. QED
    BY <2>1 DEF CardInit, AnyAge
<1>3. RowsInv
  BY <1>1, <1>2, OwnersOf DEF RowsInv
<1>4. RefreshInv
  BY <1>1, CodeFacts, OwnersOf DEF RefreshInv
<1>5. LastInv
  BY <1>1 DEF LastInv
<1>6. QED
  BY <1>1, <1>3, <1>4, <1>5 DEF CardInv, States

LEMMA StepOfCards == CardInv /\ [CardNext]_cardVars => CardInv'
<1> SUFFICES ASSUME CardInv, [CardNext]_cardVars PROVE CardInv'
  OBVIOUS
<1> DEFINE Refreshes == [pc : {"idle", "state", "usage", "report", "quota"}, present : BOOLEAN,
                         at : 0..time, of : Owners, ok : BOOLEAN]
<1> USE DEF Registered, QuotaChannel
<1>0. /\ time \in Nat /\ refresh \in Refreshes
      /\ reports \in [Owners -> {NoReading} \cup Failures(time) \cup Readings(AnyAge, time)]
  BY DEF CardInv, RefreshInv, RowsInv
\* Nothing is written.
<1>1. ASSUME reports' = reports, card' = card, time' \in {time, time + 1}, time' \in 0..LastTime,
             UNCHANGED <<state, quotaRun, last, refresh>>
      PROVE  CardInv'
  <2>1. /\ \A sources : Readings(sources, time) \subseteq Readings(sources, time')
        /\ Failures(time) \subseteq Failures(time') /\ 0..time \subseteq 0..time'
    BY <1>0, <1>1, PastGrows
  <2>2. RowsInv'
    BY <1>1, <2>1 DEF CardInv, RowsInv
  <2>3. RefreshInv' /\ LastInv'
    BY <1>1, <2>1 DEF CardInv, RefreshInv, LastInv
  <2>4. QED
    BY <1>1, <2>2, <2>3 DEF CardInv
<1>4. ASSUME NEW a \in Identities, Collect(a) PROVE CardInv'
  <2>1. refresh' = [pc |-> "state", present |-> FALSE, at |-> time, of |-> a, ok |-> FALSE]
    BY <1>4 DEF Collect, Idle
  <2>2. refresh' \in Refreshes /\ refresh'.pc = "state" /\ ~refresh'.ok
    BY <1>0, <2>1, OwnersOf
  <2>3. QED
    BY <1>4, <2>2 DEF Collect, CardInv, RefreshInv, LastInv, RowsInv
<1>5. CASE PersistState
  <2>1. PICK d \in Detections \cup {Undetected}, written \in BOOLEAN :
          /\ state' = IF written THEN d ELSE state
          /\ refresh' = [refresh EXCEPT !.pc = IF written THEN "usage" ELSE "report",
                                       !.present = d.detected \/ d.exists \/ d = Undetected]
    BY <1>5 DEF PersistState
  <2>2. refresh' \in Refreshes
    BY <1>0, <2>1
  <2>3. QED
    BY <1>5, <2>1, <2>2 DEF PersistState, CardInv, RefreshInv, LastInv, RowsInv, States
<1>6. CASE PersistUsageRun
  <2>1. refresh' = [refresh EXCEPT !.pc = "report"] /\ refresh' \in Refreshes
    BY <1>0, <1>6 DEF PersistUsageRun
  <2>2. QED
    BY <1>6, <2>1 DEF PersistUsageRun, CardInv, RefreshInv, LastInv, RowsInv
<1>7. CASE PersistReport
  <2>1. CASE reports' = reports /\ refresh' = [refresh EXCEPT !.pc = "quota"]
    <3>1. refresh' \in Refreshes
      BY <1>0, <2>1
    <3>2. QED
      BY <1>7, <2>1, <3>1 DEF PersistReport, CardInv, RefreshInv, LastInv, RowsInv
  <2>2. ASSUME NoCode \in QuotaCodes, NEW s \in OfToday,
               reports' = [reports EXCEPT ![refresh.of] = Reading(s, refresh.at)],
               refresh' = [refresh EXCEPT !.pc = "quota", !.ok = TRUE]
        PROVE  CardInv'
    <3>1. /\ Reading(s, refresh.at) \in Readings(OfToday, time)
          /\ Reading(s, refresh.at) \in Readings(AnyAge, time)
      BY <1>0 DEF Readings, OfToday, AnyAge
    <3>2. refresh' \in Refreshes /\ refresh'.of = refresh.of /\ reports'[refresh.of] = Reading(s, refresh.at)
      BY <1>0, <2>2
    <3>3. QuotaChannel
      BY <2>2, CodeFacts DEF QuotaCodes
    <3>4. RowsInv'
      BY <1>0, <1>7, <2>2, <3>1 DEF PersistReport, CardInv, RowsInv
    <3>5. QED
      BY <1>7, <2>2, <3>1, <3>2, <3>3, <3>4 DEF PersistReport, CardInv, RefreshInv, LastInv
  <2>3. QED
    BY <1>7, <2>1, <2>2 DEF PersistReport, OfToday
<1>8. CASE PersistQuotaRun
  <2>1. refresh' = [pc |-> "idle", present |-> FALSE, at |-> 0, of |-> Unnamed, ok |-> FALSE]
    BY <1>8 DEF PersistQuotaRun, Idle
  <2>2. refresh' \in Refreshes
    BY <1>0, <2>1, OwnersOf
  <2>3. CASE last' = IF refresh.ok THEN refresh.of ELSE NoRun
    <3>1. /\ quotaRun' = "SOURCE_REQUIRES_IDE" => card = "antigravity"
          /\ quotaRun' = "NOT_SUPPORTED" => ~QuotaChannel
          /\ last' # NoRun => quotaRun' = NoCode
      BY <1>8, <2>3, CodeFacts DEF PersistQuotaRun, QuotaCodes, QuotaFailures, CardInv, RefreshInv, LastInv
    <3>2. QED
      BY <1>0, <1>8, <2>1, <2>2, <2>3, <3>1 DEF PersistQuotaRun, CardInv, RefreshInv, LastInv, RowsInv
  <2>4. CASE UNCHANGED <<quotaRun, last>>
    BY <1>0, <1>8, <2>1, <2>2, <2>4 DEF PersistQuotaRun, CardInv, RefreshInv, LastInv, RowsInv
  <2>5. QED
    BY <1>8, <2>3, <2>4 DEF PersistQuotaRun
<1>9. CASE ClearReading
  <2>1. Failed("provider_api", "NOT_CONFIGURED", time) \in Failures(time)
    BY <1>0 DEF Failures
  <2>2. \A s, t : reports[Unnamed] # Reading(s, t)
    BY <1>9, ReadingFacts DEF ClearReading
  <2>3. RowsInv'
    BY <1>0, <1>9, <2>1, OwnersOf DEF ClearReading, CardInv, RowsInv
  <2>4. \A o \in Owners : reports[o] \in Readings(OfToday, time) => reports'[o] = reports[o]
    BY <1>0, <1>9, <2>2 DEF ClearReading, Readings
  <2>5. QED
    BY <1>0, <1>9, <2>3, <2>4 DEF ClearReading, CardInv, RefreshInv, LastInv
<1>10. CASE Killed
  <2>1. refresh' = [pc |-> "idle", present |-> FALSE, at |-> 0, of |-> Unnamed, ok |-> FALSE]
    BY <1>10 DEF Killed, Idle
  <2>2. refresh' \in Refreshes
    BY <1>0, <2>1, OwnersOf
  <2>3. QED
    BY <1>10, <2>1, <2>2 DEF Killed, CardInv, RefreshInv, LastInv, RowsInv
<1>11. CASE Passes
  BY <1>0, <1>1, <1>11 DEF Passes
<1>12. CASE UNCHANGED cardVars
  BY <1>0, <1>1, <1>12 DEF cardVars, CardInv
<1>13. QED
  BY <1>4, <1>5, <1>6, <1>7, <1>8, <1>9, <1>10, <1>11, <1>12 DEF CardNext

LEMMA CardsKeep == CardSpec => []CardInv
BY InitCards, StepOfCards, PTL DEF CardSpec

-----------------------------------------------------------------------------
(* The cards: what the pages make of the rows *)

\* What is known of a report a page shows.
Showable(r) ==
  /\ r.at \in Nat /\ r # NoReading /\ r.status \in {"fresh", "stale", "error"}
  /\ r.status = "fresh" => time < r.at + FreshFor
  /\ Usable(r) => r.code = NoCode

LEMMA AgedRow ==
  ASSUME CardInv, NEW r \in Failures(time) \cup Readings(AnyAge, time)
  PROVE  /\ Showable(Aged(r)) /\ Aged(r).at = r.at
         /\ Usable(Aged(r)) <=> Usable(r)
<1>0. time \in Nat
  BY DEF CardInv
<1>1. CASE r \in Failures(time)
  <2>1. PICK u \in 0..time : r = [source |-> "provider_api", status |-> "error", at |-> u, code |-> "NOT_CONFIGURED"]
    BY <1>1 DEF Failures, Failed
  <2>2. Aged(r) = r /\ ~Usable(r) /\ r # NoReading
    BY <2>1 DEF Aged, Usable, NoReading
  <2>3. QED
    BY <1>0, <2>1, <2>2 DEF Showable
<1>2. CASE r \in Readings(AnyAge, time)
  <2>1. PICK s \in AnyAge, u \in 0..time : r = [source |-> s, status |-> "fresh", at |-> u, code |-> NoCode]
    BY <1>2 DEF Readings, Reading
  <2>2. Aged(r) \in {r, [source |-> s, status |-> "stale", at |-> u, code |-> NoCode]}
        /\ (Aged(r) = r => time < u + FreshFor)
    BY <1>0, <2>1 DEF Aged
  <2>3. QED
    BY <1>0, <2>1, <2>2 DEF Showable, Usable, NoReading
<1>3. QED
  BY <1>1, <1>2

LEMMA ShownRows ==
  ASSUME CardInv
  PROVE  /\ DOMAIN Shown \subseteq Owners
         /\ DOMAIN Shown \subseteq Named \/ DOMAIN Shown = {Unnamed}
         /\ \A x \in DOMAIN Shown :
              /\ Showable(Shown[x])
              /\ Usable(Shown[x]) => Shown[x].at = reports[x].at
              /\ x \in Named => Usable(Shown[x])
         /\ last # NoRun /\ last \in Latest /\ card # "google_gemini" =>
              last \in DOMAIN Shown /\ Usable(Shown[last])
<1>0. /\ time \in Nat
      /\ reports \in [Owners -> {NoReading} \cup Failures(time) \cup Readings(AnyAge, time)]
      /\ \A a \in Named : reports[a] \in {NoReading} \cup Readings(OfToday, time)
  BY DEF CardInv, RowsInv
<1> DEFINE Kept == {x \in Latest : ~Retired(WithoutEstimate(reports[x]))}
<1>1. DOMAIN Shown = Kept /\ \A x \in Kept : Shown[x] = Aged(WithoutEstimate(reports[x]))
  BY DEF Shown
<1>2. Latest \subseteq Owners /\ (Latest \subseteq Named \/ Latest = {Unnamed})
  BY OwnersOf DEF Latest
<1>3. \A x \in Latest : reports[x] \in Failures(time) \cup Readings(AnyAge, time)
  BY <1>0, <1>2 DEF Latest
\* The reading of an adapter of today is shown as it is.
<1>4. ASSUME NEW r \in Readings(OfToday, time)
      PROVE  r \in Readings(AnyAge, time) /\ WithoutEstimate(r) = r /\ Usable(r)
  <2>1. PICK s \in OfToday, u \in 0..time : r = Reading(s, u)
    BY DEF Readings
  <2>2. r.source \in OfToday /\ Usable(r)
    BY <2>1, ReadingFacts
  <2>3. QED
    BY <2>1, <2>2 DEF WithoutEstimate, OfToday, AnyAge, Readings
<1>5. ASSUME NEW x \in Latest
      PROVE  /\ WithoutEstimate(reports[x]) \in Failures(time) \cup Readings(AnyAge, time)
             /\ Usable(WithoutEstimate(reports[x])) => WithoutEstimate(reports[x]) = reports[x]
  <2>1. Failed("provider_api", "NOT_CONFIGURED", time) \in Failures(time)
    BY <1>0 DEF Failures
  <2>2. QED
    BY <1>3, <2>1, ReadingFacts DEF WithoutEstimate
<1>6. ASSUME NEW x \in Latest, x \in Named
      PROVE  WithoutEstimate(reports[x]) = reports[x] /\ Usable(reports[x])
  BY <1>0, <1>4, <1>6 DEF Latest
<1>7. \A x \in Kept : /\ Showable(Shown[x])
                      /\ Usable(Shown[x]) => Shown[x].at = reports[x].at
                      /\ x \in Named => Usable(Shown[x])
  <2> SUFFICES ASSUME NEW x \in Kept
               PROVE  /\ Showable(Shown[x])
                      /\ Usable(Shown[x]) => Shown[x].at = reports[x].at
                      /\ x \in Named => Usable(Shown[x])
    OBVIOUS
  <2> DEFINE r == WithoutEstimate(reports[x])
  <2>1. r \in Failures(time) \cup Readings(AnyAge, time) /\ (Usable(r) => r = reports[x])
    BY <1>5
  <2>2. Showable(Aged(r)) /\ Aged(r).at = r.at /\ (Usable(Aged(r)) <=> Usable(r))
    BY <2>1, AgedRow
  <2>3. x \in Named => Usable(r)
    BY <1>6
  <2>4. QED
    BY <1>1, <2>1, <2>2, <2>3
<1>8. ASSUME last # NoRun, last \in Latest, card # "google_gemini"
      PROVE  last \in DOMAIN Shown /\ Usable(Shown[last])
  <2>1. reports[last] \in Readings(OfToday, time)
    BY <1>8 DEF CardInv, LastInv
  <2>2. WithoutEstimate(reports[last]) = reports[last] /\ Usable(reports[last])
        /\ reports[last] \in Readings(AnyAge, time)
    BY <1>4, <2>1
  <2>3. last \in Kept
    BY <1>8 DEF Retired
  <2>4. QED
    BY <1>1, <2>2, <2>3, AgedRow
<1>9. QED
  BY <1>1, <1>2, <1>7, <1>8

\* The newest report is the newest.
LEMMA NewestRow ==
  ASSUME CardInv, DOMAIN Shown # {}
  PROVE  \E a \in DOMAIN Shown : Newest(Shown) = Shown[a] /\ \A b \in DOMAIN Shown : Shown[b].at <= Shown[a].at
<1>1. \A b \in DOMAIN Shown : Shown[b].at \in Nat
  BY ShownRows DEF Showable
<1>2. \E a \in DOMAIN Shown : \A b \in DOMAIN Shown : Shown[b].at <= Shown[a].at
  <2>1. CASE DOMAIN Shown = {Unnamed}
    BY <1>1, <2>1
  <2>2. CASE DOMAIN Shown \subseteq {"a", "b"}
    BY <1>1, <2>2
  <2>3. QED
    BY <2>1, <2>2, ShownRows, OwnersOf
<1>3. QED
  BY <1>2 DEF Newest

Closed == quotaRun = "SOURCE_REQUIRES_IDE"

\* An IDE that is closed leaves a report what it is, but not fresh.
LEMMA ClosedRow ==
  ASSUME NEW r, Showable(r)
  PROVE  /\ IdeClosed(r).at = r.at /\ (Usable(IdeClosed(r)) <=> Usable(r)) /\ IdeClosed(r) # NoReading
         /\ IdeClosed(r).status = "fresh" => time < r.at + FreshFor
         /\ Closed /\ Usable(r) => IdeClosed(r).status = "stale" /\ IdeClosed(r).code = "SOURCE_REQUIRES_IDE"
         /\ ~Closed => IdeClosed(r) = r
<1>1. CASE Closed /\ Usable(r)
  <2>1. IdeClosed(r) = [r EXCEPT !.status = "stale", !.code = "SOURCE_REQUIRES_IDE"]
    BY <1>1 DEF IdeClosed, Closed
  <2>2. /\ IdeClosed(r).at = r.at /\ IdeClosed(r).status = "stale"
        /\ IdeClosed(r).code = "SOURCE_REQUIRES_IDE"
    BY <2>1 DEF Showable
  <2>3. QED
    BY <1>1, <2>2 DEF Usable, NoReading
<1>2. CASE ~(Closed /\ Usable(r))
  BY <1>2 DEF Showable, IdeClosed, Closed
<1>3. QED
  BY <1>1, <1>2

LEMMA Connections ==
  ASSUME CardInv
  PROVE  /\ \A r : Connection(r) = "connected" => QuotaChannel
         /\ \A r : quotaRun \notin {NoRun, NoCode, "NOT_SUPPORTED", "SOURCE_REQUIRES_IDE"}
                    => Connection(r) # "connected"
         /\ \A r : Closed /\ Showable(r) /\ Usable(r) => Connection(IdeClosed(r)) = "connected"
         /\ \A r, s : Showable(r) /\ Usable(r) /\ Showable(s) /\ Usable(s)
                    => Connection(IdeClosed(r)) = Connection(IdeClosed(s))
         /\ \A r : Showable(r) /\ Usable(r) /\ QuotaChannel /\ quotaRun = NoCode /\ state.code = NoCode
                    => Connection(IdeClosed(r)) = "connected"
<1>1. ASSUME NEW r, Connection(r) = "connected"
      PROVE  QuotaChannel /\ quotaRun \in {NoRun, NoCode, "NOT_SUPPORTED", "SOURCE_REQUIRES_IDE"}
  BY <1>1 DEF Connection, ErrorCode
<1>2. ASSUME NEW r, Closed, Showable(r), Usable(r) PROVE Connection(IdeClosed(r)) = "connected"
  <2>1. ~SourceAbsent(IdeClosed(r)) /\ Usable(IdeClosed(r))
    BY <1>2, ClosedRow DEF SourceAbsent
  <2>2. ErrorCode(IdeClosed(r)) = "SOURCE_REQUIRES_IDE"
    BY <1>2, CodeFacts DEF ErrorCode, Closed
  <2>3. QuotaChannel
    BY <1>2 DEF CardInv, RefreshInv, Closed, QuotaChannel
  <2>4. QED
    BY <2>1, <2>2, <2>3, CodeFacts DEF Connection
<1>3. ASSUME NEW r, NEW s, Showable(r), Usable(r), Showable(s), Usable(s), ~Closed
      PROVE  Connection(r) = Connection(s)
  <2>1. ~SourceAbsent(r) /\ ~SourceAbsent(s) /\ r.code = s.code
    BY <1>3, CodeFacts, ReadingFacts DEF SourceAbsent, Showable
  <2>2. ErrorCode(r) = ErrorCode(s)
    BY <2>1 DEF ErrorCode
  <2>3. QED
    BY <1>3, <2>1, <2>2 DEF Connection
<1>4. ASSUME NEW r, Showable(r), Usable(r), QuotaChannel, quotaRun = NoCode, state.code = NoCode
      PROVE  Connection(IdeClosed(r)) = "connected"
  <2>1. IdeClosed(r) = r
    BY <1>4, CodeFacts, ClosedRow DEF Closed
  <2>2. ~SourceAbsent(r) /\ ErrorCode(r) = NoCode
    BY <1>4, CodeFacts DEF SourceAbsent, Showable, ErrorCode
  <2>3. QED
    BY <1>4, <2>1, <2>2, CodeFacts DEF Connection
<1>5. QED
  BY <1>1, <1>2, <1>3, <1>4, ClosedRow

\* The cards of a registered provider that has reports.
CardAt(a) == CardOf(IdeClosed(Shown[a]), Connection(IdeClosed(Shown[a])), Index(a, DOMAIN Shown))

LEMMA CardFacts ==
  ASSUME CardInv, NEW a \in DOMAIN Shown
  PROVE  /\ CardAt(a).index = Index(a, DOMAIN Shown)
         /\ CardAt(a).status = "fresh" => time < CardAt(a).at + FreshFor
         /\ CardAt(a).bars => /\ Usable(Shown[a]) /\ CardAt(a).at = reports[a].at
                             /\ Connection(IdeClosed(Shown[a])) = "connected"
         /\ Usable(Shown[a]) /\ Connection(IdeClosed(Shown[a])) = "connected" =>
              /\ CardAt(a).bars /\ CardAt(a).at = reports[a].at
              /\ CardAt(a).status = IdeClosed(Shown[a]).status
<1> DEFINE r == Shown[a]
<1>1. Showable(r) /\ (Usable(r) => r.at = reports[a].at)
  BY ShownRows
<1>2. /\ IdeClosed(r).at = r.at /\ (Usable(IdeClosed(r)) <=> Usable(r)) /\ IdeClosed(r) # NoReading
      /\ IdeClosed(r).status = "fresh" => time < r.at + FreshFor
  BY <1>1, ClosedRow
<1>3. CASE Connection(IdeClosed(r)) = "connected"
  <2>1. CardAt(a) = [connection |-> "connected", index |-> Index(a, DOMAIN Shown),
                     status |-> IdeClosed(r).status, bars |-> Usable(IdeClosed(r)), at |-> IdeClosed(r).at]
    BY <1>2, <1>3 DEF CardAt, CardOf
  <2>2. QED
    BY <1>1, <1>2, <1>3, <2>1
<1>4. CASE Connection(IdeClosed(r)) # "connected"
  <2>1. /\ CardAt(a).index = Index(a, DOMAIN Shown) /\ CardAt(a).status = "unavailable" /\ ~CardAt(a).bars
    BY <1>4 DEF CardAt, CardOf
  <2>2. QED
    BY <1>4, <2>1
<1>5. QED
  BY <1>3, <1>4

LEMMA PageOfRegistered ==
  /\ Registered /\ DOMAIN Shown # {} => QuotaPage = {CardAt(a) : a \in DOMAIN Shown}
  /\ Registered /\ DOMAIN Shown = {} =>
       \E c : QuotaPage = {c} /\ ~c.bars /\ c.status # "fresh"
<1>1. CASE Registered /\ DOMAIN Shown # {}
  BY <1>1 DEF QuotaPage, CardAt
<1>2. CASE Registered /\ DOMAIN Shown = {}
  <2>1. QuotaPage = {CardOf(NoReading, Connection(NoReading), 0)}
    BY <1>2 DEF QuotaPage
  <2>2. CardOf(NoReading, Connection(NoReading), 0).status # "fresh"
        /\ ~CardOf(NoReading, Connection(NoReading), 0).bars
    BY DEF CardOf
  <2>3. QED
    BY <1>2, <2>1, <2>2
<1>3. QED
  BY <1>1, <1>2

-----------------------------------------------------------------------------
(* The cards: what they tell is true *)

LEMMA FreshCards == CardInv => FreshIsWithinItsWindow
<1> SUFFICES ASSUME CardInv, NEW c \in QuotaPage, c.status = "fresh" PROVE time < c.at + FreshFor
  BY DEF FreshIsWithinItsWindow
<1>1. CASE Registered
  <2>1. CASE DOMAIN Shown = {}
    BY <1>1, <2>1, PageOfRegistered
  <2>2. CASE DOMAIN Shown # {}
    BY <1>1, <2>2, PageOfRegistered, CardFacts
  <2>3. QED
    BY <2>1, <2>2
<1>2. CASE ~Registered
  <2>1. PICK a \in DOMAIN Shown :
          c = [connection |-> IF Usable(Shown[a]) THEN "connected" ELSE "transient_error",
               index |-> Index(a, DOMAIN Shown), status |-> Shown[a].status,
               bars |-> Usable(Shown[a]), at |-> Shown[a].at]
    BY <1>2 DEF QuotaPage
  <2>2. c.status = Shown[a].status /\ c.at = Shown[a].at
    BY <2>1
  <2>3. QED
    BY <2>2, ShownRows DEF Showable
<1>3. QED
  BY <1>1, <1>2

LEMMA ClosedIde == CardInv => ClosedIdeKeepsTheReading
<1> SUFFICES ASSUME CardInv, Closed
             PROVE  /\ \A a \in DOMAIN Shown : Usable(Shown[a]) =>
                         \E c \in QuotaPage : c.bars /\ c.at = reports[a].at /\ c.status = "stale"
                    /\ Usable(Newest(Shown)) => Summary # NoReading
  BY DEF ClosedIdeKeepsTheReading, Closed
<1>1. Registered
  BY DEF CardInv, RefreshInv, Closed, Registered
<1>2. ASSUME NEW a \in DOMAIN Shown, Usable(Shown[a])
      PROVE  \E c \in QuotaPage : c.bars /\ c.at = reports[a].at /\ c.status = "stale"
  <2>1. Showable(Shown[a])
    BY ShownRows
  <2>2. Connection(IdeClosed(Shown[a])) = "connected" /\ IdeClosed(Shown[a]).status = "stale"
    BY <1>2, <2>1, Connections, ClosedRow
  <2>3. CardAt(a).bars /\ CardAt(a).at = reports[a].at /\ CardAt(a).status = "stale"
    BY <1>2, <2>2, CardFacts
  <2>4. CardAt(a) \in QuotaPage
    BY <1>1, PageOfRegistered
  <2>5. QED
    BY <2>3, <2>4
<1>3. ASSUME Usable(Newest(Shown)) PROVE Summary # NoReading
  BY <1>3, ReadingFacts DEF Summary, Closed
<1>4. QED
  BY <1>2, <1>3

LEMMA FailureHides == CardInv => FailureHidesTheReading
<1> SUFFICES ASSUME CardInv, Registered,
                    quotaRun \notin {NoRun, NoCode, "NOT_SUPPORTED", "SOURCE_REQUIRES_IDE"}
             PROVE  (\A c \in QuotaPage : ~c.bars) /\ ~Usable(Summary)
  BY DEF FailureHidesTheReading
<1>1. ASSUME NEW c \in QuotaPage PROVE ~c.bars
  <2>1. CASE DOMAIN Shown = {}
    BY <2>1, PageOfRegistered
  <2>2. ASSUME NEW a \in DOMAIN Shown, c = CardAt(a) PROVE ~c.bars
    BY <2>2, CardFacts, Connections
  <2>3. QED
    BY <2>1, <2>2, PageOfRegistered
<1>2. Summary = NoReading
  BY DEF Summary, FailedRun
<1>3. QED
  BY <1>1, <1>2, ReadingFacts

\* What the Providers page makes of a usable report that a card has bars for.
LEMMA SummaryOfConnected ==
  ASSUME CardInv, NEW r, Showable(r), Usable(r), Connection(IdeClosed(r)) = "connected",
         Newest(Shown) = r
  PROVE  Summary = r
<1>1. /\ QuotaChannel
      /\ quotaRun \in {NoRun, NoCode, "NOT_SUPPORTED", "SOURCE_REQUIRES_IDE"}
  BY Connections
<1>2. quotaRun # "NOT_SUPPORTED"
  BY <1>1 DEF CardInv, RefreshInv
<1>3. CASE Closed
  BY <1>3 DEF Summary, Closed
<1>4. CASE ~Closed
  <2>1. quotaRun \in {NoRun, NoCode} /\ quotaRun \notin Absences
    BY <1>1, <1>2, <1>4, CodeFacts DEF Closed, Absences
  <2>2. QED
    BY <2>1 DEF Summary, FailedRun
<1>5. QED
  BY <1>3, <1>4

LEMMA PagesAgree == CardInv => PagesAgreeOnTheReading
<1> SUFFICES ASSUME CardInv, Registered, NEW c \in QuotaPage, c.bars, \A d \in QuotaPage : d.at <= c.at
             PROVE  Summary.at = c.at /\ Usable(Summary)
  BY DEF PagesAgreeOnTheReading
<1>1. DOMAIN Shown # {}
  BY PageOfRegistered
<1>2. QuotaPage = {CardAt(x) : x \in DOMAIN Shown}
  BY <1>1, PageOfRegistered
<1>3. PICK a \in DOMAIN Shown : c = CardAt(a)
  BY <1>2
<1>4. /\ Usable(Shown[a]) /\ c.at = Shown[a].at /\ Showable(Shown[a])
      /\ Connection(IdeClosed(Shown[a])) = "connected"
  BY <1>3, CardFacts, ShownRows
<1>5. PICK n \in DOMAIN Shown : Newest(Shown) = Shown[n] /\ \A b \in DOMAIN Shown : Shown[b].at <= Shown[n].at
  BY <1>1, NewestRow
\* The newest report is usable too: it is the only one, or there are but readings.
<1>6. Usable(Shown[n]) /\ Showable(Shown[n])
  BY <1>4, ShownRows
<1>7. Connection(IdeClosed(Shown[n])) = "connected"
  BY <1>4, <1>6, Connections
<1>8. CardAt(n).at = Shown[n].at /\ CardAt(n) \in QuotaPage
  BY <1>2, <1>6, <1>7, CardFacts, ShownRows
<1>9. Shown[n].at = c.at
  BY <1>4, <1>5, <1>6, <1>8 DEF Showable
<1>10. QED
  BY <1>5, <1>6, <1>7, <1>9, SummaryOfConnected

LEMMA PairOf == ASSUME NEW x, NEW y, x # y PROVE Cardinality({x, y}) = 2
<1>1. Cardinality({x}) = 1 /\ IsFiniteSet({x})
  BY FS_Singleton
<1>2. Cardinality({x} \cup {y}) = Cardinality({x}) + 1
  BY <1>1, FS_AddElement
<1>3. {x, y} = {x} \cup {y}
  OBVIOUS
<1>4. QED
  BY <1>1, <1>2, <1>3

\* Two accounts have two numbers.
LEMMA Numbered ==
  ASSUME CardInv, NEW x \in DOMAIN Shown, NEW y \in DOMAIN Shown, x # y
  PROVE  DOMAIN Shown = {x, y} /\ Index(x, DOMAIN Shown) # Index(y, DOMAIN Shown)
<1>1. DOMAIN Shown = {"a", "b"}
  BY ShownRows, OwnersOf
<1>2. Cardinality({"a", "b"}) = 2
  BY PairOf
<1>3. QED
  BY <1>1, <1>2 DEF Index

LEMMA OneCardEach ==
  ASSUME CardInv, NEW f, \A a \in DOMAIN Shown : f[a].index = Index(a, DOMAIN Shown)
  PROVE  LET n == Cardinality(DOMAIN Shown) IN
         /\ n \in {0, 1, 2} /\ (n = 0 <=> DOMAIN Shown = {})
         /\ Cardinality({f[a] : a \in DOMAIN Shown}) = n
<1> DEFINE n == Cardinality(DOMAIN Shown)
           cards == {f[a] : a \in DOMAIN Shown}
<1>1. CASE DOMAIN Shown = {}
  BY <1>1, FS_EmptySet
<1>2. ASSUME NEW x \in DOMAIN Shown, DOMAIN Shown = {x}
      PROVE  n = 1 /\ Cardinality(cards) = 1
  <2>1. cards = {f[x]}
    BY <1>2
  <2>2. QED
    BY <1>2, <2>1, FS_Singleton
<1>3. ASSUME NEW x \in DOMAIN Shown, NEW y \in DOMAIN Shown, x # y
      PROVE  n = 2 /\ Cardinality(cards) = 2
  <2>1. DOMAIN Shown = {x, y} /\ f[x] # f[y]
    BY <1>3, Numbered
  <2>2. cards = {f[x], f[y]}
    BY <2>1
  <2>3. Cardinality({x, y}) = 2
    BY <1>3, PairOf
  <2>4. Cardinality({f[x], f[y]}) = 2
    BY <2>1, PairOf
  <2>5. QED
    BY <2>1, <2>2, <2>3, <2>4
<1>4. DOMAIN Shown # {} => \/ \E x \in DOMAIN Shown : DOMAIN Shown = {x}
                           \/ \E x, y \in DOMAIN Shown : x # y
  BY Zenon
<1>5. CASE DOMAIN Shown # {}
  <2>1. n \in {1, 2} /\ Cardinality(cards) = n
    BY <1>2, <1>3, <1>4, <1>5
  <2>2. QED
    BY <1>5, <2>1
<1>6. QED
  BY <1>1, <1>5

LEMMA EveryReport == CardInv => EveryReportHasACard
<1> SUFFICES ASSUME CardInv PROVE EveryReportHasACard
  OBVIOUS
<1> DEFINE n == Cardinality(DOMAIN Shown)
<1>1. \A k \in {0, 1, 2} : Max({1, k}) = IF k = 0 THEN 1 ELSE k
  <2> SUFFICES ASSUME NEW k \in {0, 1, 2} PROVE Max({1, k}) = IF k = 0 THEN 1 ELSE k
    OBVIOUS
  <2>1. \E m \in {1, k} : \A y \in {1, k} : m >= y
    OBVIOUS
  <2>2. Max({1, k}) \in {1, k} /\ \A y \in {1, k} : Max({1, k}) >= y
    BY <2>1 DEF Max
  <2>3. QED
    BY <2>2
<1>2. CASE Registered /\ DOMAIN Shown # {}
  <2> DEFINE f == [a \in DOMAIN Shown |-> CardAt(a)]
  <2>1. QuotaPage = {f[a] : a \in DOMAIN Shown}
    BY <1>2, PageOfRegistered
  <2>2. \A a \in DOMAIN Shown : f[a].index = Index(a, DOMAIN Shown)
    BY CardFacts
  <2>3. n \in {1, 2} /\ Cardinality(QuotaPage) = n
    <3> HIDE DEF f
    <3>1. QED
      BY <1>2, <2>1, <2>2, OneCardEach
  <2>4. QED
    BY <1>1, <1>2, <2>3 DEF EveryReportHasACard
<1>3. CASE Registered /\ DOMAIN Shown = {}
  <2>1. n = 0 /\ Cardinality(QuotaPage) = 1
    BY <1>3, PageOfRegistered, FS_EmptySet, FS_Singleton
  <2>2. QED
    BY <1>1, <1>3, <2>1 DEF EveryReportHasACard
<1>4. CASE ~Registered
  <2> DEFINE f == [a \in DOMAIN Shown |->
                    [connection |-> IF Usable(Shown[a]) THEN "connected" ELSE "transient_error",
                     index |-> Index(a, DOMAIN Shown), status |-> Shown[a].status,
                     bars |-> Usable(Shown[a]), at |-> Shown[a].at]]
  <2>1. QuotaPage = {f[a] : a \in DOMAIN Shown}
    BY <1>4 DEF QuotaPage
  <2>2. \A a \in DOMAIN Shown : f[a].index = Index(a, DOMAIN Shown)
    OBVIOUS
  <2>3. Cardinality(QuotaPage) = n
    <3> HIDE DEF f
    <3>1. QED
      BY <2>1, <2>2, OneCardEach
  <2>4. QED
    BY <1>4, <2>3 DEF EveryReportHasACard
<1>5. QED
  BY <1>2, <1>3, <1>4

LEMMA SuccessShown == CardInv => SuccessIsShown
<1> SUFFICES ASSUME CardInv, last # NoRun, state.code = NoCode, last \in Latest, card # "google_gemini"
             PROVE  /\ \E c \in QuotaPage : c.bars /\ c.at = reports[last].at
                    /\ Usable(Summary) /\ Summary.at >= reports[last].at
  BY DEF SuccessIsShown
<1>1. Registered /\ QuotaChannel /\ quotaRun = NoCode
  BY DEF CardInv, LastInv
<1>2. last \in DOMAIN Shown /\ Usable(Shown[last]) /\ Shown[last].at = reports[last].at
  BY ShownRows
<1>3. \A a \in DOMAIN Shown : Usable(Shown[a]) => Connection(IdeClosed(Shown[a])) = "connected"
  BY <1>1, ShownRows, Connections
<1>4. CardAt(last).bars /\ CardAt(last).at = reports[last].at /\ CardAt(last) \in QuotaPage
  BY <1>1, <1>2, <1>3, CardFacts, PageOfRegistered
<1>5. PICK n \in DOMAIN Shown : Newest(Shown) = Shown[n] /\ \A b \in DOMAIN Shown : Shown[b].at <= Shown[n].at
  BY <1>2, NewestRow
<1>6. Usable(Shown[n]) /\ Showable(Shown[n])
  BY <1>2, ShownRows
<1>7. Summary = Shown[n]
  BY <1>3, <1>5, <1>6, SummaryOfConnected
<1>8. Shown[last].at \in Nat /\ Shown[n].at \in Nat
  BY <1>2, ShownRows DEF Showable
<1>9. QED
  BY <1>2, <1>4, <1>5, <1>6, <1>7, <1>8

\* The rows keep to their types.
THEOREM CardTypes == CardSpec => []CardTypeOK
<1>1. CardInv => CardTypeOK
  <2> SUFFICES ASSUME CardInv PROVE CardTypeOK
    OBVIOUS
  <2>1. \A a \in Owners : reports[a].at <= time
    BY ReadingFacts DEF CardInv, RowsInv, Readings, Failures, NoReading
  <2>2. QED
    BY <2>1 DEF CardInv, RefreshInv, LastInv, CardTypeOK
<1>2. QED
  BY <1>1, CardsKeep, PTL

\* Between any two statements of a refresh, and however one ends, both pages show
\* the readings that hold and no others (quota.rs, providers.rs).
THEOREM CardsTellTheTruth == CardSpec => []CardsTellTruth
<1>1. CardInv => CardsTellTruth
  BY FreshCards, ClosedIde, FailureHides, PagesAgree, EveryReport, SuccessShown DEF CardsTellTruth
<1>2. QED
  BY <1>1, CardsKeep, PTL
=============================================================================
