-------------------------------- MODULE Sums --------------------------------
(***************************************************************************)
(* Sums over finite sets, and what they are: the totals that subledger and *)
(* ledger keep beside the rows they are made of.                           *)
(***************************************************************************)
EXTENDS Integers, FiniteSetsExt, FiniteSetTheorems, WellFoundedInduction, TLAPS

Sum(f, S) == MapThenSumSet(LAMBDA x : f[x], S)
-----------------------------------------------------------------------------
(* Induction over the subsets of a finite set: a set of subsets that has a  *)
(* subset as soon as it has all smaller ones has them all.                  *)
LEMMA SubsetInduction ==
  ASSUME NEW S, IsFiniteSet(S), NEW G,
         \A T \in SUBSET S : (\A U \in SUBSET T : U # T => U \in G) => T \in G
  PROVE  S \in G
<1> SUFFICES ASSUME S \notin G PROVE FALSE
  OBVIOUS
<1> DEFINE Bad == {T \in SUBSET S : T \notin G}
<1>1. Bad \subseteq FiniteSubsetsOf(S) /\ Bad # {}
  BY FS_FiniteSubsetsOfFinite
<1>2. PICK T \in Bad : \A U \in Bad : ~(<<U, T>> \in StrictSubsetOrdering(S))
  <2> DEFINE R == StrictSubsetOrdering(S)
             D == FiniteSubsetsOf(S)
  <2>1. IsWellFoundedOn(R, D)
    BY FS_StrictSubsetOrderingWellFounded
  <2>2. Bad \subseteq D /\ Bad # {}
    BY <1>1
  <2> HIDE DEF Bad, R, D
  <2>3. \E T \in Bad : \A U \in Bad : ~(<<U, T>> \in R)
    BY ONLY <2>1, <2>2, WFMin, Zenon
  <2> QED
    BY <2>3 DEF R
<1>3. ASSUME NEW U \in SUBSET T, U # T PROVE U \in G
  BY <1>2, <1>3 DEF StrictSubsetOrdering
<1> QED
  BY <1>2, <1>3

(* MapThenSumSet computes with a recursive function on the subsets of S.    *)
Pick(S) == CHOOSE x \in S : TRUE
IsFold(g, f, S) ==
  g = [T \in SUBSET S |-> IF T = {} THEN 0 ELSE f[Pick(T)] + g[T \ {Pick(T)}]]

(* On what they share, two such functions agree.                            *)
LEMMA FoldsAgree ==
  ASSUME NEW f, NEW S, NEW T, NEW g, NEW h, IsFold(g, f, S), IsFold(h, f, T),
         NEW U \in SUBSET (S \cap T), IsFiniteSet(U)
  PROVE  g[U] = h[U]
<1> DEFINE G == {V \in SUBSET U : g[V] = h[V]}
<1>1. ASSUME NEW V \in SUBSET U, \A W \in SUBSET V : W # V => W \in G
      PROVE  V \in G
  <2>1. g[V] = IF V = {} THEN 0 ELSE f[Pick(V)] + g[V \ {Pick(V)}]
    BY DEF IsFold
  <2>2. h[V] = IF V = {} THEN 0 ELSE f[Pick(V)] + h[V \ {Pick(V)}]
    BY DEF IsFold
  <2>3. V # {} => g[V \ {Pick(V)}] = h[V \ {Pick(V)}]
    BY <1>1 DEF Pick
  <2> QED
    BY <2>1, <2>2, <2>3
<1> HIDE DEF G
<1>2. U \in G
  BY <1>1, SubsetInduction
<1> QED
  BY <1>2 DEF G

(* There is one.                                                            *)
LEMMA FoldExists == ASSUME NEW f, NEW S, IsFiniteSet(S) PROVE \E g : IsFold(g, f, S)
<1> DEFINE G == {T \in SUBSET S : \E g : IsFold(g, f, T)}
<1>1. ASSUME NEW T \in SUBSET S, \A U \in SUBSET T : U # T => U \in G
      PROVE  T \in G
  <2> DEFINE F(U) == CHOOSE g : IsFold(g, f, U)
             Rest(U) == U \ {Pick(U)}
             h == [U \in SUBSET T |-> IF U = {} THEN 0 ELSE f[Pick(U)] + F(Rest(U))[Rest(U)]]
  <2>1. \A U \in SUBSET T : U # T => IsFold(F(U), f, U)
    BY <1>1
  <2>2. \A U \in SUBSET T : U # {} => Rest(U) \in SUBSET U /\ Rest(U) # U /\ Rest(U) \in SUBSET T /\ Rest(U) # T
    BY DEF Pick
  <2>3. \A U \in SUBSET T : IsFiniteSet(U)
    BY FS_Subset
  <2>4. ASSUME NEW U \in SUBSET T, U # T PROVE h[U] = F(U)[U]
    <3>1. CASE U = {}
      <4>1. IsFold(F(U), f, U)
        BY <2>1, <2>4
      <4>2. F(U)[U] = 0
        <5> HIDE DEF F
        <5> QED
          BY <4>1, <3>1 DEF IsFold
      <4> QED
        BY <4>2, <3>1
    <3>2. CASE U # {}
      <4>1. IsFold(F(U), f, U) /\ IsFold(F(Rest(U)), f, Rest(U))
        BY <2>1, <2>2, <2>4, <3>2
      <4>2. F(U)[U] = f[Pick(U)] + F(U)[Rest(U)]
        BY <4>1, <3>2 DEF IsFold
      <4>3. F(U)[Rest(U)] = F(Rest(U))[Rest(U)]
        <5> HIDE DEF F, Rest
        <5> QED
          BY <4>1, <2>2, <2>3, <3>2, FoldsAgree
      <4> QED
        BY <4>2, <4>3, <3>2
    <3> QED
      BY <3>1, <3>2
  <2>5. ASSUME NEW U \in SUBSET T, U # {} PROVE h[Rest(U)] = F(Rest(U))[Rest(U)]
    <3>1. Rest(U) \in SUBSET T /\ Rest(U) # T
      BY <2>2, <2>5
    <3> HIDE DEF F, Rest, h
    <3> QED
      BY <2>4, <3>1
  <2>6. IsFold(h, f, T)
    <3>1. h = [U \in SUBSET T |-> IF U = {} THEN 0 ELSE f[Pick(U)] + h[Rest(U)]]
      <4> HIDE DEF F, Rest
      <4> QED
        BY <2>5
    <3> QED
      BY <3>1 DEF IsFold
  <2> QED
    BY <2>6
<1> HIDE DEF G
<1>2. S \in G
  BY <1>1, SubsetInduction
<1> QED
  BY <1>2 DEF G

(* The sum takes one element at a time.                                     *)
LEMMA SumStep ==
  ASSUME NEW f, NEW S, IsFiniteSet(S)
  PROVE  /\ S = {} => Sum(f, S) = 0
         /\ S # {} => Sum(f, S) = f[Pick(S)] + Sum(f, S \ {Pick(S)})
<1> DEFINE F(T) == CHOOSE g : IsFold(g, f, T)
<1>1. \A T : Sum(f, T) = F(T)[T]
  BY Zenon DEF Sum, MapThenSumSet, MapThenFoldSet, IsFold, Pick
<1>2. IsFiniteSet(S \ {Pick(S)})
  BY FS_RemoveElement
<1>3. IsFold(F(S), f, S) /\ IsFold(F(S \ {Pick(S)}), f, S \ {Pick(S)})
  BY <1>2, FoldExists
<1> HIDE DEF F
<1>4. F(S)[S \ {Pick(S)}] = F(S \ {Pick(S)})[S \ {Pick(S)}]
  BY <1>2, <1>3, FoldsAgree
<1>5. F(S)[S] = IF S = {} THEN 0 ELSE f[Pick(S)] + F(S)[S \ {Pick(S)}]
  BY <1>3 DEF IsFold
<1> QED
  BY <1>1, <1>4, <1>5

(* Any element may be the one that is taken.                                *)
LEMMA SumRemove ==
  ASSUME NEW S, IsFiniteSet(S), NEW f, \A x \in S : f[x] \in Int, NEW x \in S
  PROVE  /\ Sum(f, S) \in Int
         /\ Sum(f, S) = f[x] + Sum(f, S \ {x})
<1> DEFINE G == {T \in SUBSET S : /\ Sum(f, T) \in Int
                                 /\ \A y \in T : Sum(f, T) = f[y] + Sum(f, T \ {y})}
<1>1. ASSUME NEW T \in SUBSET S, \A U \in SUBSET T : U # T => U \in G
      PROVE  T \in G
  <2>1. CASE T = {}
    <3>1. Sum(f, T) = 0
      BY <2>1, SumStep, FS_EmptySet
    <3> QED
      BY <2>1, <3>1
  <2>2. CASE T # {}
    <3> DEFINE p == Pick(T)
               Rest == T \ {p}
    <3>1. p \in T /\ IsFiniteSet(T) /\ Rest \in SUBSET T /\ Rest # T
      BY <2>2, FS_Subset DEF Pick
    <3>2. Rest \in G
      BY <1>1, <3>1
    <3>3. Sum(f, T) = f[p] + Sum(f, Rest)
      BY <3>1, <2>2, SumStep
    <3>4. f[p] \in Int /\ Sum(f, Rest) \in Int
      BY <3>1, <3>2
    <3>5. Sum(f, T) \in Int
      <4> HIDE DEF p, Rest
      <4> QED
        BY <3>3, <3>4
    <3>6. ASSUME NEW y \in T, y # p PROVE Sum(f, T) = f[y] + Sum(f, T \ {y})
      <4>1. T \ {y} \in G
        BY <1>1
      <4>2. Sum(f, Rest) = f[y] + Sum(f, Rest \ {y})
        BY <3>2, <3>6
      <4>3. Sum(f, T \ {y}) = f[p] + Sum(f, (T \ {y}) \ {p})
        BY <4>1, <3>1, <3>6
      <4>4. Rest \ {y} = (T \ {y}) \ {p} /\ Rest \ {y} \in G
        BY <1>1, <3>6
      <4>5. Sum(f, Rest \ {y}) \in Int /\ f[y] \in Int
        BY <4>4, <3>4
      <4>6. Sum(f, T \ {y}) = f[p] + Sum(f, Rest \ {y})
        BY <4>3, <4>4
      <4> HIDE DEF Rest, p, G
      <4> QED
        BY ONLY <3>3, <3>4, <4>2, <4>5, <4>6
    <3> QED
      BY <3>3, <3>5, <3>6
  <2> QED
    BY <2>1, <2>2
<1> HIDE DEF G
<1>2. S \in G
  BY <1>1, SubsetInduction
<1> QED
  BY <1>2 DEF G

(* Functions that agree have one sum.                                       *)
LEMMA SumAgrees ==
  ASSUME NEW S, IsFiniteSet(S), NEW f, NEW g, \A x \in S : f[x] = g[x]
  PROVE  Sum(f, S) = Sum(g, S)
<1> DEFINE G == {T \in SUBSET S : Sum(f, T) = Sum(g, T)}
<1>1. ASSUME NEW T \in SUBSET S, \A U \in SUBSET T : U # T => U \in G
      PROVE  T \in G
  <2>1. IsFiniteSet(T)
    BY FS_Subset
  <2>2. CASE T = {}
    BY <2>1, <2>2, SumStep
  <2>3. CASE T # {}
    <3>1. Pick(T) \in T /\ T \ {Pick(T)} \in G
      BY <1>1, <2>3 DEF Pick
    <3> QED
      BY <2>1, <2>3, <3>1, SumStep
  <2> QED
    BY <2>2, <2>3
<1> HIDE DEF G
<1>2. S \in G
  BY <1>1, SubsetInduction
<1> QED
  BY <1>2 DEF G

(* A sum of integers is an integer.                                         *)
LEMMA SumInt ==
  ASSUME NEW S, IsFiniteSet(S), NEW f, \A x \in S : f[x] \in Int
  PROVE  Sum(f, S) \in Int
<1>1. CASE S = {}
  BY <1>1, SumStep
<1>2. CASE S # {}
  BY <1>2, SumRemove
<1> QED
  BY <1>1, <1>2

(* The sum of sums is the sum of both.                                      *)
LEMMA SumPlus ==
  ASSUME NEW S, IsFiniteSet(S), NEW f, NEW g, NEW h,
         \A x \in S : f[x] \in Int /\ g[x] \in Int /\ h[x] = f[x] + g[x]
  PROVE  Sum(h, S) = Sum(f, S) + Sum(g, S)
<1> DEFINE G == {T \in SUBSET S : Sum(h, T) = Sum(f, T) + Sum(g, T)}
<1>1. ASSUME NEW T \in SUBSET S, \A U \in SUBSET T : U # T => U \in G
      PROVE  T \in G
  <2>1. IsFiniteSet(T)
    BY FS_Subset
  <2>2. CASE T = {}
    <3>1. Sum(f, T) = 0 /\ Sum(g, T) = 0 /\ Sum(h, T) = 0
      BY <2>1, <2>2, SumStep
    <3> QED
      BY <3>1
  <2>3. CASE T # {}
    <3> DEFINE p == Pick(T)
               Rest == T \ {p}
    <3>1. p \in T /\ Rest \in G /\ IsFiniteSet(Rest)
      BY <1>1, <2>1, <2>3, FS_Subset DEF Pick
    <3>2. Sum(f, T) = f[p] + Sum(f, Rest) /\ Sum(g, T) = g[p] + Sum(g, Rest) /\ Sum(h, T) = h[p] + Sum(h, Rest)
      BY <2>1, <2>3, SumStep
    <3>3. Sum(f, Rest) \in Int /\ Sum(g, Rest) \in Int
      BY <3>1, SumInt
    <3>4. Sum(h, Rest) = Sum(f, Rest) + Sum(g, Rest)
      BY <3>1
    <3>5. h[p] = f[p] + g[p] /\ f[p] \in Int /\ g[p] \in Int
      BY <3>1
    <3> HIDE DEF p, Rest
    <3> QED
      BY <3>2, <3>3, <3>4, <3>5
  <2> QED
    BY <2>2, <2>3
<1> HIDE DEF G
<1>2. S \in G
  BY <1>1, SubsetInduction
<1> QED
  BY <1>2 DEF G

(* The sum of natural numbers is one; it is zero when they all are, and     *)
(* only then, and none exceeds it.                                          *)
LEMMA SumNat ==
  ASSUME NEW S, IsFiniteSet(S), NEW f, \A x \in S : f[x] \in Nat
  PROVE  /\ Sum(f, S) \in Nat
         /\ (Sum(f, S) = 0 <=> \A x \in S : f[x] = 0)
         /\ \A x \in S : f[x] <= Sum(f, S)
<1> DEFINE G == {T \in SUBSET S : /\ Sum(f, T) \in Nat
                                 /\ (Sum(f, T) = 0 <=> \A x \in T : f[x] = 0)}
<1>1. ASSUME NEW T \in SUBSET S, \A U \in SUBSET T : U # T => U \in G
      PROVE  T \in G
  <2>1. IsFiniteSet(T)
    BY FS_Subset
  <2>2. CASE T = {}
    <3>1. Sum(f, T) = 0
      BY <2>1, <2>2, SumStep
    <3> QED
      BY <2>2, <3>1
  <2>3. CASE T # {}
    <3>1. PICK p \in T : TRUE
      BY <2>3
    <3>2. Sum(f, T) = f[p] + Sum(f, T \ {p})
      BY <2>1, SumRemove
    <3>3. T \ {p} \in G
      BY <1>1
    <3>4. f[p] \in Nat
      OBVIOUS
    <3> QED
      BY <3>2, <3>3, <3>4
  <2> QED
    BY <2>2, <2>3
<1> HIDE DEF G
<1>2. S \in G /\ \A x \in S : S \ {x} \in G
  <2>1. \A T \in SUBSET S : T \in G
    <3> SUFFICES ASSUME NEW T \in SUBSET S PROVE T \in G
      OBVIOUS
    <3>1. IsFiniteSet(T)
      BY FS_Subset
    <3>2. \A U \in SUBSET T : (\A V \in SUBSET U : V # U => V \in G) => U \in G
      BY <1>1
    <3> QED
      BY <3>1, <3>2, SubsetInduction
  <2> QED
    BY <2>1
<1>3. ASSUME NEW x \in S PROVE f[x] <= Sum(f, S)
  <2>1. Sum(f, S) = f[x] + Sum(f, S \ {x})
    BY SumRemove
  <2>2. Sum(f, S \ {x}) \in Nat
    BY <1>2 DEF G
  <2> QED
    BY <2>1, <2>2
<1> QED
  BY <1>2, <1>3 DEF G

(* What changes at one place changes the sum by as much.                    *)
LEMMA SumChange ==
  ASSUME NEW S, IsFiniteSet(S), NEW f, NEW g, NEW p \in S,
         \A x \in S : f[x] \in Int /\ g[x] \in Int,
         \A x \in S \ {p} : f[x] = g[x]
  PROVE  Sum(g, S) = Sum(f, S) + (g[p] - f[p])
<1>1. Sum(f, S) = f[p] + Sum(f, S \ {p}) /\ Sum(g, S) = g[p] + Sum(g, S \ {p})
  BY SumRemove
<1>2. IsFiniteSet(S \ {p})
  BY FS_RemoveElement
<1>3. Sum(f, S \ {p}) = Sum(g, S \ {p}) /\ Sum(f, S \ {p}) \in Int
  BY <1>2, SumAgrees, SumInt
<1> QED
  BY <1>1, <1>3

(* Places that hold nothing may be left out.                                *)
LEMMA SumSubset ==
  ASSUME NEW S, IsFiniteSet(S), NEW f, \A x \in S : f[x] \in Int,
         NEW T \in SUBSET S, \A x \in S \ T : f[x] = 0
  PROVE  Sum(f, S) = Sum(f, T)
<1> DEFINE G == {U \in SUBSET S : Sum(f, U) = Sum(f, U \cap T)}
<1>1. ASSUME NEW U \in SUBSET S, \A V \in SUBSET U : V # U => V \in G
      PROVE  U \in G
  <2>1. IsFiniteSet(U) /\ IsFiniteSet(U \cap T)
    BY FS_Subset
  <2>2. CASE U = {}
    BY <2>2
  <2>3. CASE U # {}
    <3>1. PICK p \in U : TRUE
      BY <2>3
    <3>2. Sum(f, U) = f[p] + Sum(f, U \ {p}) /\ f[p] \in Int
      BY <2>1, SumRemove
    <3>3. Sum(f, U \ {p}) = Sum(f, (U \ {p}) \cap T)
      BY <1>1
    <3>4. IsFiniteSet((U \ {p}) \cap T)
      BY FS_Subset
    <3>5. Sum(f, (U \ {p}) \cap T) \in Int
      BY <3>4, SumInt
    <3>6. CASE p \in T
      <4>1. Sum(f, U \cap T) = f[p] + Sum(f, (U \cap T) \ {p})
        BY <2>1, <3>6, SumRemove
      <4>2. (U \cap T) \ {p} = (U \ {p}) \cap T
        OBVIOUS
      <4> QED
        BY <3>2, <3>3, <4>1, <4>2
    <3>7. CASE p \notin T
      <4>1. U \cap T = (U \ {p}) \cap T
        BY <3>7
      <4>2. f[p] = 0
        BY <3>7
      <4>3. Sum(f, U) = Sum(f, U \ {p})
        BY <3>2, <3>3, <3>5, <4>2
      <4>4. Sum(f, U \cap T) = Sum(f, (U \ {p}) \cap T)
        BY <4>1, Zenon
      <4> QED
        BY <3>3, <4>3, <4>4
    <3> QED
      BY <3>6, <3>7
  <2> QED
    BY <2>2, <2>3
<1> HIDE DEF G
<1>2. S \in G
  BY <1>1, SubsetInduction
<1>3. S \cap T = T
  OBVIOUS
<1> QED
  BY <1>2, <1>3 DEF G

(* Two functions that differ in one place of a finite set.                  *)
DifferAt(f, g, S, p) ==
  /\ IsFiniteSet(S) /\ p \in S
  /\ \A x \in S : f[x] \in Int /\ g[x] \in Int
  /\ \A x \in S \ {p} : f[x] = g[x]

LEMMA SumDiffers ==
  ASSUME NEW f, NEW g, NEW S, NEW p, DifferAt(f, g, S, p)
  PROVE  Sum(g, S) = Sum(f, S) + (g[p] - f[p])
  BY SumChange DEF DifferAt

(* What is added group by group is added once.                              *)
Grouped(h, K, key, f, S) ==
  /\ IsFiniteSet(S) /\ IsFiniteSet(K)
  /\ \A x \in S : key[x] \in K /\ f[x] \in Int
  /\ \A k \in K : h[k] = Sum(f, {x \in S : key[x] = k})

LEMMA SumGrouped ==
  ASSUME NEW h, NEW K, NEW key, NEW f, NEW S, Grouped(h, K, key, f, S)
  PROVE  Sum(h, K) = Sum(f, S)
<1> USE DEF Grouped
<1> DEFINE Of(T, k) == {x \in T : key[x] = k}
           H(T) == [k \in K |-> Sum(f, Of(T, k))]
           G == {T \in SUBSET S : Sum(H(T), K) = Sum(f, T)}
<1>1. ASSUME NEW T \in SUBSET S, \A U \in SUBSET T : U # T => U \in G
      PROVE  T \in G
  <2>1. IsFiniteSet(T) /\ \A k : IsFiniteSet(Of(T, k))
    BY FS_Subset
  <2>2. CASE T = {}
    <3>1. \A k : Of(T, k) = {}
      BY <2>2
    <3>2. Sum(f, {}) = 0
      BY SumStep, FS_EmptySet
    <3>3. PICK g : g = H(T)
      OBVIOUS
    <3>4. \A k \in K : g[k] = 0
      BY <3>1, <3>2, <3>3
    <3>5. Sum(g, K) = 0
      BY ONLY <3>4, IsFiniteSet(K), SumNat
    <3> QED
      BY <2>2, <3>2, <3>3, <3>5
  <2>3. CASE T # {}
    <3>1. PICK x \in T : TRUE
      BY <2>3
    <3>2. PICK U : U = T \ {x}
      OBVIOUS
    <3>3. U \in SUBSET T /\ U # T /\ U \in G
      BY <1>1, <3>1, <3>2
    <3>4. Sum(f, T) = f[x] + Sum(f, U) /\ f[x] \in Int
      BY <2>1, <3>2, SumRemove
    <3>5. PICK g, q : g = H(T) /\ q = H(U)
      OBVIOUS
    <3>6. \A k \in K : g[k] \in Int /\ q[k] \in Int
      <4>1. ASSUME NEW k \in K, NEW V \in SUBSET T PROVE Sum(f, Of(V, k)) \in Int
        <5>1. IsFiniteSet(Of(V, k))
          BY <2>1, FS_Subset
        <5> QED
          BY <5>1, SumInt
      <4> QED
        BY <4>1, <3>3, <3>5
    <3>7. \A k \in K \ {key[x]} : q[k] = g[k]
      <4>1. \A k \in K \ {key[x]} : Of(T, k) = Of(U, k)
        BY <3>2
      <4> QED
        BY <4>1, <3>5, Zenon
    <3>8. key[x] \in K /\ g[key[x]] = f[x] + q[key[x]]
      <4>1. Of(U, key[x]) = Of(T, key[x]) \ {x} /\ x \in Of(T, key[x])
        BY <3>2
      <4>2. Sum(f, Of(T, key[x])) = f[x] + Sum(f, Of(T, key[x]) \ {x})
        BY <2>1, <4>1, SumRemove
      <4> QED
        BY <4>1, <4>2, <3>5
    <3>9. Sum(g, K) = Sum(q, K) + (g[key[x]] - q[key[x]])
      <4>1. PICK c \in K : c = key[x]
        BY <3>8
      <4>2. \A k \in K \ {c} : q[k] = g[k]
        BY <3>7, <4>1
      <4>3. Sum(g, K) = Sum(q, K) + (g[c] - q[c])
        <5>1. DifferAt(q, g, K, c)
          BY <3>6, <4>2 DEF DifferAt
        <5> QED
          BY ONLY <5>1, SumDiffers
      <4> QED
        BY <4>1, <4>3
    <3>10. Sum(q, K) = Sum(f, U)
      BY <3>3, <3>5
    <3>11. Sum(q, K) \in Int
      BY ONLY <3>6, IsFiniteSet(K), SumInt
    <3> HIDE DEF H, Of
    <3>12. Sum(g, K) = Sum(f, T)
      BY <3>4, <3>6, <3>8, <3>9, <3>10, <3>11
    <3> QED
      BY <3>5, <3>12 DEF G
  <2> QED
    BY <2>2, <2>3
<1>2. S \in G
  <2> HIDE DEF G
  <2> QED
    BY <1>1, SubsetInduction
<1>3. Sum(H(S), K) = Sum(h, K)
  BY SumAgrees
<1> QED
  BY <1>2, <1>3
-----------------------------------------------------------------------------
(* Something is greatest, by any measure, among finitely many.              *)
LEMMA GreatestBy ==
  ASSUME NEW S, IsFiniteSet(S), S # {}, NEW f, \A x \in S : f[x] \in Nat
  PROVE  \E x \in S : \A y \in S : f[y] <= f[x]
<1> DEFINE G == {T \in SUBSET S : T # {} => \E x \in T : \A y \in T : f[y] <= f[x]}
<1>1. ASSUME NEW T \in SUBSET S, \A U \in SUBSET T : U # T => U \in G PROVE T \in G
  <2>1. CASE T = {}
    BY <2>1
  <2>2. ASSUME NEW x \in T PROVE T \in G
    <3>1. CASE T \ {x} = {}
      <4>1. \A y \in T : y = x
        BY <3>1
      <4>2. f[x] \in Nat
        OBVIOUS
      <4> QED
        BY <2>2, <4>1, <4>2
    <3>2. CASE T \ {x} # {}
      <4>1. PICK z \in T \ {x} : \A y \in T \ {x} : f[y] <= f[z]
        <5>1. T \ {x} \in G
          BY <1>1, <2>2
        <5> QED
          BY <3>2, <5>1
      <4>2. f[x] \in Nat /\ f[z] \in Nat /\ \A y \in T : f[y] \in Nat
        OBVIOUS
      <4>3. \E w \in {x, z} : \A y \in T : f[y] <= f[w]
        <5>1. CASE f[x] <= f[z]
          BY <4>1, <4>2, <5>1
        <5>2. CASE f[z] <= f[x]
          BY <4>1, <4>2, <5>2
        <5> QED
          BY <4>2, <5>1, <5>2
      <4> QED
        BY <4>3
    <3> QED
      BY <3>1, <3>2
  <2> QED
    BY <2>1, <2>2
<1> HIDE DEF G
<1>2. S \in G
  BY <1>1, SubsetInduction
<1> QED
  BY <1>2 DEF G

(* A finite set of numbers that is not empty has a greatest.                *)
LEMMA GreatestExists ==
  ASSUME NEW S \in SUBSET Nat, IsFiniteSet(S), S # {}
  PROVE  \E x \in S : \A y \in S : y <= x
<1>1. PICK f : f = [x \in S |-> x]
  OBVIOUS
<1>2. \E x \in S : \A y \in S : f[y] <= f[x]
  BY <1>1, GreatestBy
<1> QED
  BY <1>1, <1>2

(* A set of natural numbers that is not empty has a least.                  *)
LEMMA LeastExists ==
  ASSUME NEW S \in SUBSET Nat, S # {}
  PROVE  \E x \in S : \A y \in S : x <= y
<1>1. PICK n \in S : TRUE
  OBVIOUS
<1>2. PICK T : T = {k \in S : k <= n}
  OBVIOUS
<1>3. IsFiniteSet(T) /\ n \in T
  <2>1. n \in Nat /\ 0 \in Int /\ n \in Int
    OBVIOUS
  <2>2. IsFiniteSet(0..n)
    BY ONLY <2>1, FS_Interval, Zenon
  <2>3. \A k \in T : k \in 0..n
    <3>1. \A k \in T : k \in Nat /\ k <= n
      BY <1>2
    <3> QED
      BY <2>1, <3>1
  <2>4. T \in SUBSET (0..n)
    BY ONLY <2>3, Zenon
  <2>5. n \in T
    BY <1>2, <2>1
  <2> QED
    BY ONLY <2>2, <2>4, <2>5, FS_Subset, Zenon
<1>4. PICK f : f = [k \in T |-> n - k]
  OBVIOUS
<1>5. PICK x \in T : \A y \in T : f[y] <= f[x]
  <2>1. \A k \in T : f[k] \in Nat
    BY <1>2, <1>4
  <2>2. T # {}
    BY <1>3
  <2> QED
    BY <1>3, <2>1, <2>2, GreatestBy
<1>6. \A y \in T : x <= y
  BY <1>2, <1>4, <1>5
<1> QED
  BY <1>1, <1>2, <1>6
-----------------------------------------------------------------------------
(* Numbers that can be added.                                               *)
Summable(f, S) == IsFiniteSet(S) /\ \A x \in S : f[x] \in Int

LEMMA SumIsInt == ASSUME NEW f, NEW S, Summable(f, S) PROVE Sum(f, S) \in Int
  BY SumInt DEF Summable

(* A part and the rest.                                                     *)
LEMMA SumSplit ==
  ASSUME NEW f, NEW S, Summable(f, S), NEW T \in SUBSET S
  PROVE  Sum(f, S) = Sum(f, T) + Sum(f, S \ T)
<1> USE DEF Summable
<1>1. PICK g, h : /\ g = [x \in S |-> IF x \in T THEN f[x] ELSE 0]
                  /\ h = [x \in S |-> IF x \in T THEN 0 ELSE f[x]]
  OBVIOUS
<1>2. \A x \in S : g[x] \in Int /\ h[x] \in Int /\ f[x] = g[x] + h[x]
  BY <1>1
<1>3. Sum(f, S) = Sum(g, S) + Sum(h, S)
  BY <1>2, SumPlus
<1>4. Sum(g, S) = Sum(g, T)
  <2>1. \A x \in S \ T : g[x] = 0
    BY <1>1
  <2> QED
    BY <1>2, <2>1, SumSubset
<1>5. Sum(h, S) = Sum(h, S \ T)
  <2>1. S \ T \in SUBSET S /\ \A x \in S \ (S \ T) : h[x] = 0
    BY <1>1
  <2> QED
    BY <1>2, <2>1, SumSubset
<1>6. IsFiniteSet(T) /\ IsFiniteSet(S \ T)
  BY FS_Subset
<1>7. (\A x \in T : g[x] = f[x]) /\ (\A x \in S \ T : h[x] = f[x])
  BY <1>1
<1>8. Sum(g, T) = Sum(f, T)
  BY <1>6, <1>7, SumAgrees
<1>9. Sum(h, S \ T) = Sum(f, S \ T)
  BY <1>6, <1>7, SumAgrees
<1> QED
  BY <1>3, <1>4, <1>5, <1>8, <1>9

(* Two parts that share nothing.                                            *)
LEMMA SumUnion ==
  ASSUME NEW f, NEW S, NEW T, Summable(f, S), Summable(f, T), S \cap T = {}
  PROVE  Summable(f, S \cup T) /\ Sum(f, S \cup T) = Sum(f, S) + Sum(f, T)
<1>1. Summable(f, S \cup T)
  BY FS_Union DEF Summable
<1>2. (S \cup T) \ S = T /\ S \in SUBSET (S \cup T)
  OBVIOUS
<1> QED
  BY <1>1, <1>2, SumSplit

(* The same terms under other names.                                        *)
Renamed(f, S, g, K, key) ==
  /\ Summable(f, S) /\ K = {key[x] : x \in S}
  /\ \A x \in S : g[key[x]] = f[x]
  /\ \A x, y \in S : key[x] = key[y] => x = y

LEMMA SumRenamed ==
  ASSUME NEW f, NEW S, NEW g, NEW K, NEW key, Renamed(f, S, g, K, key)
  PROVE  Summable(g, K) /\ Sum(g, K) = Sum(f, S)
<1> USE DEF Renamed, Summable
<1>1. IsFiniteSet(K)
  <2>1. PICK k : k = [x \in S |-> key[x]]
    OBVIOUS
  <2>2. k \in Surjection(S, K)
    BY <2>1 DEF Surjection
  <2> QED
    BY <2>2, FS_Surjection
<1>2. ASSUME NEW k \in K PROVE g[k] = Sum(f, {x \in S : key[x] = k}) /\ g[k] \in Int
  <2>1. PICK x \in S : k = key[x]
    OBVIOUS
  <2>2. {y \in S : key[y] = k} = {x}
    BY <2>1
  <2>3. Sum(f, {x}) = f[x]
    <3>1. IsFiniteSet({x}) /\ {x} # {} /\ Pick({x}) = x /\ {x} \ {x} = {}
      BY FS_Singleton DEF Pick
    <3>2. Sum(f, {x}) = f[x] + Sum(f, {})
      BY <3>1, SumStep
    <3>3. Sum(f, {}) = 0
      BY FS_EmptySet, SumStep
    <3> QED
      BY <3>2, <3>3
  <2> QED
    BY <2>1, <2>2, <2>3
<1>3. Grouped(g, K, key, f, S)
  BY <1>1, <1>2 DEF Grouped
<1> QED
  BY <1>1, <1>2, <1>3, SumGrouped

(* A common factor.                                                         *)
LEMMA SumScaled ==
  ASSUME NEW f, NEW S, Summable(f, S), NEW c \in Int, NEW g, \A x \in S : g[x] = f[x] * c
  PROVE  Sum(g, S) = Sum(f, S) * c
<1> USE DEF Summable
<1> DEFINE G == {T \in SUBSET S : Sum(g, T) = Sum(f, T) * c}
<1>1. ASSUME NEW T \in SUBSET S, \A U \in SUBSET T : U # T => U \in G
      PROVE  T \in G
  <2>1. IsFiniteSet(T)
    BY FS_Subset
  <2>2. CASE T = {}
    <3>1. Sum(f, T) = 0 /\ Sum(g, T) = 0
      BY <2>1, <2>2, SumStep
    <3> QED
      BY <3>1
  <2>3. CASE T # {}
    <3>1. PICK p, R : p = Pick(T) /\ R = T \ {p}
      OBVIOUS
    <3>2. p \in T /\ R \in G /\ IsFiniteSet(R) /\ R \subseteq S
      BY <1>1, <2>1, <2>3, <3>1, FS_Subset DEF Pick
    <3>3. Sum(f, T) = f[p] + Sum(f, R)
      BY <2>1, <2>3, <3>1, SumStep
    <3>4. Sum(g, T) = g[p] + Sum(g, R)
      BY <2>1, <2>3, <3>1, SumStep
    <3>5. PICK a \in Int, b \in Int : a = f[p] /\ b = Sum(f, R) /\ g[p] = a * c /\ Sum(g, R) = b * c
      BY <3>2, SumInt
    <3>6. a * c + b * c = (a + b) * c
      OBVIOUS
    <3> QED
      BY <3>3, <3>4, <3>5, <3>6
  <2> QED
    BY <2>2, <2>3
<1> HIDE DEF G
<1>2. S \in G
  BY <1>1, SubsetInduction
<1> QED
  BY <1>2 DEF G

(* No term larger, no sum larger.                                           *)
LEMMA SumAtMost ==
  ASSUME NEW f, NEW g, NEW S, Summable(f, S), Summable(g, S), \A x \in S : f[x] <= g[x]
  PROVE  Sum(f, S) <= Sum(g, S)
<1>1. PICK h : h = [x \in S |-> g[x] - f[x]]
  OBVIOUS
<1>2. \A x \in S : h[x] \in Nat /\ f[x] \in Int /\ h[x] \in Int /\ g[x] = f[x] + h[x]
  BY <1>1 DEF Summable
<1>3. Sum(g, S) = Sum(f, S) + Sum(h, S)
  BY <1>2, SumPlus DEF Summable
<1>4. Sum(h, S) \in Nat
  BY <1>2, SumNat DEF Summable
<1>5. Sum(f, S) \in Int
  BY SumIsInt
<1> QED
  BY <1>3, <1>4, <1>5

(* One term over and over.                                                  *)
LEMMA SumConstant ==
  ASSUME NEW f, NEW S, IsFiniteSet(S), NEW c \in Int, \A x \in S : f[x] = c
  PROVE  Sum(f, S) = Cardinality(S) * c
<1>1. Cardinality(S) \in Nat
  BY FS_CardinalityType
<1> DEFINE G == {T \in SUBSET S : Sum(f, T) = Cardinality(T) * c}
<1>2. ASSUME NEW T \in SUBSET S, \A U \in SUBSET T : U # T => U \in G
      PROVE  T \in G
  <2>1. IsFiniteSet(T)
    BY FS_Subset
  <2>2. CASE T = {}
    <3>1. Sum(f, T) = 0 /\ Cardinality(T) = 0
      BY <2>1, <2>2, SumStep, FS_EmptySet
    <3> QED
      BY <2>2, <3>1
  <2>3. CASE T # {}
    <3>1. PICK p, R : p = Pick(T) /\ R = T \ {p}
      OBVIOUS
    <3>2. p \in T /\ R \in G
      BY <1>2, <2>3, <3>1 DEF Pick
    <3>3. Sum(f, T) = c + Sum(f, R)
      BY <2>1, <2>3, <3>1, <3>2, SumStep
    <3>4. Cardinality(R) = Cardinality(T) - 1 /\ IsFiniteSet(R)
      BY <2>1, <3>1, <3>2, FS_RemoveElement
    <3>5. PICK n \in Nat, m \in Nat : n = Cardinality(T) /\ m = Cardinality(R)
      BY <2>1, <3>4, FS_CardinalityType
    <3>6. Sum(f, R) = m * c /\ n = m + 1
      BY <3>2, <3>4, <3>5
    <3>7. c + m * c = (m + 1) * c
      OBVIOUS
    <3> QED
      BY <3>3, <3>5, <3>6, <3>7
  <2> QED
    BY <2>2, <2>3
<1> HIDE DEF G
<1>3. S \in G
  BY <1>2, SubsetInduction
<1> QED
  BY <1>3 DEF G

(* Between so much and so much each.                                        *)
LEMMA SumBetween ==
  ASSUME NEW f, NEW S, Summable(f, S), NEW lo \in Int, NEW hi \in Int,
         \A x \in S : lo <= f[x] /\ f[x] <= hi
  PROVE  /\ Sum(f, S) \in Int /\ Cardinality(S) \in Nat
         /\ Cardinality(S) * lo <= Sum(f, S) /\ Sum(f, S) <= Cardinality(S) * hi
<1>1. PICK g, h : g = [x \in S |-> lo] /\ h = [x \in S |-> hi]
  OBVIOUS
<1>2. IsFiniteSet(S) /\ (\A x \in S : g[x] = lo) /\ (\A x \in S : h[x] = hi)
  BY <1>1 DEF Summable
<1>3. Summable(g, S) /\ Summable(h, S)
  BY <1>2 DEF Summable
<1>4. Sum(g, S) = Cardinality(S) * lo
  BY <1>2, SumConstant
<1>5. Sum(h, S) = Cardinality(S) * hi
  BY <1>2, SumConstant
<1>6. \A x \in S : g[x] <= f[x]
  BY <1>2
<1>7. \A x \in S : f[x] <= h[x]
  BY <1>2
<1>8. Sum(g, S) <= Sum(f, S)
  BY <1>3, <1>6, SumAtMost
<1>9. Sum(f, S) <= Sum(h, S)
  BY <1>3, <1>7, SumAtMost
<1> QED
  BY <1>2, <1>4, <1>5, <1>8, <1>9, SumIsInt, FS_CardinalityType

(* The lines of one kind, one for each of I.                                *)
Tagging(f, tag, g, I) == Summable(g, I) /\ \A i \in I : f[<<tag, i>>] = g[i]

LEMMA SumTagged ==
  ASSUME NEW f, NEW tag, NEW g, NEW I, Tagging(f, tag, g, I)
  PROVE  Summable(f, {tag} \X I) /\ Sum(f, {tag} \X I) = Sum(g, I)
<1>1. PICK key : key = [i \in I |-> <<tag, i>>]
  OBVIOUS
<1>2. {tag} \X I = {key[i] : i \in I}
  BY <1>1
<1>3. Renamed(g, I, f, {tag} \X I, key)
  BY <1>1, <1>2 DEF Renamed, Tagging
<1> QED
  BY <1>3, SumRenamed

LEMMA SumNegated ==
  ASSUME NEW f, NEW S, Summable(f, S), NEW g, \A x \in S : g[x] = -f[x]
  PROVE  Sum(g, S) = -Sum(f, S)
<1>1. \A x \in S : g[x] = f[x] * (-1)
  BY DEF Summable
<1>2. Sum(g, S) = Sum(f, S) * (-1)
  BY <1>1, SumScaled
<1> QED
  BY <1>2, SumIsInt

LEMMA SumOfNone == ASSUME NEW f PROVE Sum(f, {}) = 0 /\ Summable(f, {})
  BY FS_EmptySet, SumStep DEF Summable

LEMMA SumOfOne == ASSUME NEW f, NEW a, f[a] \in Int PROVE Sum(f, {a}) = f[a] /\ Summable(f, {a})
<1>1. IsFiniteSet({a}) /\ {a} \ {a} = {} /\ \A x \in {a} : f[x] \in Int
  BY FS_Singleton
<1>2. Sum(f, {a}) = f[a] + Sum(f, {a} \ {a})
  BY <1>1, SumRemove
<1> QED
  BY <1>1, <1>2, SumOfNone DEF Summable

ThreeTerms(f, a, b, c) ==
  a # b /\ a # c /\ b # c /\ f[a] \in Int /\ f[b] \in Int /\ f[c] \in Int

LEMMA SumOfThree ==
  ASSUME NEW f, NEW a, NEW b, NEW c, ThreeTerms(f, a, b, c)
  PROVE  Sum(f, {a, b, c}) = f[a] + f[b] + f[c] /\ Summable(f, {a, b, c})
<1> USE DEF ThreeTerms
<1>1. {a} \cap {b} = {} /\ ({a} \cup {b}) \cap {c} = {} /\ {a, b, c} = ({a} \cup {b}) \cup {c}
  OBVIOUS
<1>2. Summable(f, {a}) /\ Summable(f, {b}) /\ Summable(f, {c})
      /\ Sum(f, {a}) = f[a] /\ Sum(f, {b}) = f[b] /\ Sum(f, {c}) = f[c]
  BY SumOfOne
<1>3. Summable(f, {a} \cup {b}) /\ Sum(f, {a} \cup {b}) = Sum(f, {a}) + Sum(f, {b})
  BY <1>1, <1>2, SumUnion
<1>4. PICK S : S = {a} \cup {b}
  OBVIOUS
<1>5. Summable(f, S \cup {c}) /\ Sum(f, S \cup {c}) = Sum(f, S) + Sum(f, {c})
  BY <1>1, <1>2, <1>3, <1>4, SumUnion
<1> QED
  BY <1>1, <1>2, <1>3, <1>4, <1>5

(* Finitely many arguments have finitely many values.                       *)
LEMMA ImageFinite ==
  ASSUME NEW f, IsFiniteSet(DOMAIN f)
  PROVE  IsFiniteSet({f[x] : x \in DOMAIN f})
<1> DEFINE S == DOMAIN f
           T == {f[x] : x \in S}
           g == [x \in S |-> f[x]]
<1>1. g \in Surjection(S, T)
  BY DEF Surjection
<1> HIDE DEF g, T
<1> QED
  BY <1>1, FS_Surjection DEF T

(* Sums of sums: the terms of I, each the sum of a row of its own.          *)
Pairs(I, J) == {p \in I \X UNION {J[i] : i \in I} : p[2] \in J[p[1]]}
IsRow(f, x, i, K) ==
  \E row : /\ Summable(row, K) /\ (\A j \in K : f[<<i, j>>] = row[j])
           /\ x = Sum(row, K)
Nesting(f, g, I, J) == IsFiniteSet(I) /\ \A i \in I : IsRow(f, g[i], i, J[i])

LEMMA RowSum ==
  ASSUME NEW f, NEW x, NEW i, NEW K, IsRow(f, x, i, K)
  PROVE  Summable(f, {i} \X K) /\ x = Sum(f, {i} \X K)
<1>1. PICK row : Summable(row, K) /\ (\A j \in K : f[<<i, j>>] = row[j]) /\ x = Sum(row, K)
  BY DEF IsRow
<1>2. Tagging(f, i, row, K)
  BY <1>1 DEF Tagging
<1> QED
  BY <1>1, <1>2, SumTagged

LEMMA SumNested ==
  ASSUME NEW f, NEW g, NEW I, NEW J, Nesting(f, g, I, J)
  PROVE  Summable(f, Pairs(I, J)) /\ Summable(g, I) /\ Sum(g, I) = Sum(f, Pairs(I, J))
<1>1. PICK P : P = Pairs(I, J)
  OBVIOUS
<1>2. \A i \in I : {i} \X J[i] = {p \in P : p[1] = i} /\ {i} \X J[i] \subseteq P
  BY <1>1 DEF Pairs
<1>3. ASSUME NEW i \in I
      PROVE  /\ Summable(f, {i} \X J[i]) /\ g[i] = Sum(f, {i} \X J[i])
  <2>1. IsRow(f, g[i], i, J[i])
    BY DEF Nesting
  <2> QED
    BY <2>1, RowSum
<1>4. Summable(f, P)
  <2>1. PICK tagged : tagged = [i \in I |-> {i} \X J[i]]
    OBVIOUS
  <2>2. PICK rows : rows = {tagged[i] : i \in I}
    OBVIOUS
  <2>3. IsFiniteSet(I)
    BY DEF Nesting
  <2>4. IsFiniteSet(rows)
    <3>1. DOMAIN tagged = I /\ rows = {tagged[i] : i \in DOMAIN tagged}
      BY <2>1, <2>2
    <3> QED
      BY <2>3, <3>1, ImageFinite
  <2>5. \A r \in rows : IsFiniteSet(r)
    BY <1>3, <2>1, <2>2 DEF Summable
  <2>6. P = UNION rows
    <3>1. \A p \in P : p[1] \in I /\ p \in tagged[p[1]]
      BY <1>1, <2>1 DEF Pairs
    <3>2. \A i \in I : tagged[i] \subseteq P
      BY <1>2, <2>1
    <3> QED
      BY <3>1, <3>2, <2>2
  <2>7. IsFiniteSet(P)
    BY <2>4, <2>5, <2>6, FS_UNION
  <2>8. ASSUME NEW p \in P PROVE f[p] \in Int
    <3>1. PICK i \in I : i = p[1] /\ p \in {i} \X J[i]
      BY <1>1 DEF Pairs
    <3>2. Summable(f, {i} \X J[i])
      BY <1>3
    <3> QED
      BY <3>1, <3>2 DEF Summable
  <2> QED
    BY <2>7, <2>8 DEF Summable
<1>5. PICK first : first = [p \in P |-> p[1]]
  OBVIOUS
<1>6. Grouped(g, I, first, f, P)
  <2>1. IsFiniteSet(P) /\ IsFiniteSet(I)
    BY <1>4 DEF Summable, Nesting
  <2>2. \A p \in P : first[p] \in I /\ f[p] \in Int
    BY <1>1, <1>4, <1>5 DEF Summable, Pairs
  <2>3. ASSUME NEW i \in I PROVE g[i] = Sum(f, {p \in P : first[p] = i})
    <3>1. {p \in P : first[p] = i} = {i} \X J[i]
      BY <1>2, <1>5
    <3> QED
      BY <1>3, <3>1
  <2> QED
    BY <2>1, <2>2, <2>3 DEF Grouped
<1>7. Sum(g, I) = Sum(f, P)
  BY <1>6, SumGrouped
<1>8. Summable(g, I)
  <2>1. ASSUME NEW i \in I PROVE g[i] \in Int
    <3>1. Summable(f, {i} \X J[i]) /\ g[i] = Sum(f, {i} \X J[i])
      BY <1>3
    <3>2. Sum(f, {i} \X J[i]) \in Int
      BY <3>1, SumIsInt
    <3> QED
      BY <3>1, <3>2
  <2> QED
    BY <2>1 DEF Nesting, Summable
<1> QED
  BY <1>1, <1>4, <1>7, <1>8

(* Of n things in some order, r have fewer than r before them.              *)
Ranks(B, S) ==
  /\ IsFiniteSet(S)
  /\ \A x \in S : B[x] \in SUBSET S /\ x \notin B[x]
  /\ \A x, y \in S : x # y => x \in B[y] \/ y \in B[x]
  /\ \A x, y \in S : x \in B[y] => B[x] \subseteq B[y]

LEMMA Ranking ==
  ASSUME NEW B, NEW S, Ranks(B, S), NEW r \in Nat, r <= Cardinality(S)
  PROVE  Cardinality({x \in S : Cardinality(B[x]) < r}) = r
<1> USE DEF Ranks
<1>1. PICK n \in Nat : n = Cardinality(S)
  BY FS_CardinalityType
<1>2. PICK rank : rank = [x \in S |-> Cardinality(B[x])]
  OBVIOUS
<1>3. ASSUME NEW x \in S PROVE rank[x] \in 0..(n - 1) /\ IsFiniteSet(B[x])
  <2>1. IsFiniteSet(B[x]) /\ Cardinality(B[x]) <= n /\ (n = Cardinality(B[x]) => S = B[x])
    BY <1>1, FS_Subset
  <2>2. Cardinality(B[x]) \in Nat
    BY <2>1, FS_CardinalityType
  <2>3. S # B[x]
    OBVIOUS
  <2> QED
    BY <1>2, <2>1, <2>2, <2>3
<1>4. ASSUME NEW x \in S, NEW y \in S, x \in B[y] PROVE rank[x] < rank[y]
  <2>1. B[x] \in SUBSET B[y] /\ B[x] # B[y] /\ IsFiniteSet(B[y])
    BY <1>3, <1>4
  <2>2. Cardinality(B[x]) <= Cardinality(B[y]) /\ Cardinality(B[y]) # Cardinality(B[x])
    BY <2>1, FS_Subset
  <2>3. rank[x] \in Int /\ rank[y] \in Int
    BY <1>3
  <2> QED
    BY <1>2, <2>2, <2>3
<1>5. \A x, y \in S : rank[x] = rank[y] => x = y
  <2> SUFFICES ASSUME NEW x \in S, NEW y \in S, rank[x] = rank[y], x # y PROVE FALSE
    OBVIOUS
  <2>1. x \in B[y] \/ y \in B[x]
    OBVIOUS
  <2>2. rank[x] \in Int /\ rank[y] \in Int
    BY <1>3
  <2> QED
    BY <1>4, <2>1, <2>2
<1>6. IsFiniteSet(0..(n - 1)) /\ Cardinality(0..(n - 1)) = n
  <2>1. 0 \in Int /\ n - 1 \in Int
    OBVIOUS
  <2>2. IsFiniteSet(0..(n - 1)) /\ Cardinality(0..(n - 1)) = IF 0 > n - 1 THEN 0 ELSE (n - 1) - 0 + 1
    BY ONLY <2>1, FS_Interval
  <2> QED
    BY <2>2
<1>7. rank \in Injection(S, 0..(n - 1))
  BY <1>2, <1>3, <1>5 DEF Injection, IsInjective
<1>8. rank \in Surjection(S, 0..(n - 1))
  BY <1>1, <1>6, <1>7, FS_Injection
<1>9. PICK low, lower : /\ low = {x \in S : Cardinality(B[x]) < r}
                        /\ lower = [x \in low |-> rank[x]]
  OBVIOUS
<1>10. IsFiniteSet(0..(r - 1)) /\ Cardinality(0..(r - 1)) = r
  <2>1. 0 \in Int /\ r - 1 \in Int
    OBVIOUS
  <2>2. IsFiniteSet(0..(r - 1)) /\ Cardinality(0..(r - 1)) = IF 0 > r - 1 THEN 0 ELSE (r - 1) - 0 + 1
    BY ONLY <2>1, FS_Interval
  <2> QED
    BY <2>2
<1>11. low = {x \in S : rank[x] < r}
  BY <1>2, <1>9
<1>12. \A x \in low : lower[x] = rank[x] /\ x \in S /\ lower[x] \in 0..(r - 1)
  BY <1>3, <1>9, <1>11
<1>13. lower \in Injection(low, 0..(r - 1))
  <2>1. lower \in [low -> 0..(r - 1)]
    BY <1>9, <1>12
  <2>2. \A x, y \in low : lower[x] = lower[y] => x = y
    BY <1>5, <1>12
  <2> QED
    BY <1>9, <2>1, <2>2 DEF Injection, IsInjective
<1>14. lower \in Surjection(low, 0..(r - 1))
  <2>1. ASSUME NEW k \in 0..(r - 1) PROVE \E x \in low : lower[x] = k
    <3>1. k \in 0..(n - 1)
      BY <1>1
    <3>2. PICK x \in S : rank[x] = k
      BY <1>8, <3>1 DEF Surjection
    <3>3. x \in low
      BY <1>11, <3>2
    <3> QED
      BY <1>12, <3>2, <3>3
  <2>2. lower \in [low -> 0..(r - 1)]
    BY <1>13 DEF Injection
  <2> QED
    BY <2>1, <2>2 DEF Surjection
<1>15. Cardinality(low) = Cardinality(0..(r - 1))
  BY <1>10, <1>13, <1>14, FS_Injection
<1> QED
  BY <1>9, <1>10, <1>15
-----------------------------------------------------------------------------
(* What holds of the first of 1..n and from each of the next holds of all.  *)
LEMMA OneByOne ==
  ASSUME NEW n \in Nat, NEW G, 1 \in G, \A m \in 1..n : m < n /\ m \in G => m + 1 \in G
  PROVE  \A m \in 1..n : m \in G
<1> DEFINE Bad == {m \in 1..n : m \notin G}
<1> SUFFICES ASSUME Bad # {} PROVE FALSE
  OBVIOUS
<1>1. IsFiniteSet(Bad)
  <2>1. 1 \in Int /\ n \in Int
    OBVIOUS
  <2>2. IsFiniteSet(1..n)
    BY ONLY <2>1, FS_Interval, Zenon
  <2>3. Bad \in SUBSET (1..n)
    OBVIOUS
  <2> QED
    BY ONLY <2>2, <2>3, FS_Subset
<1>2. PICK f : f = [m \in Bad |-> n - m]
  OBVIOUS
<1>3. \A m \in Bad : f[m] \in Nat
  BY <1>2
<1>4. PICK m \in Bad : \A k \in Bad : f[k] <= f[m]
  <2> HIDE DEF Bad
  <2> QED
    BY <1>1, <1>3, GreatestBy
<1>5. \A k \in Bad : m <= k
  BY <1>2, <1>4
<1>6. m \in 1..n /\ m # 1 /\ m - 1 \notin Bad
  BY <1>5
<1> QED
  BY <1>6

(* A function that takes each value from the one before it exists.          *)
Stepping(f, n, V) == \A m \in 2..n, x \in V : f[<<m, x>>] \in V
Run(g, f, n, a) == \A m \in 1..n : g[m] = IF m = 1 THEN a ELSE f[<<m, g[m - 1]>>]

LEMMA StepByStep ==
  ASSUME NEW n \in Nat, NEW V, NEW a \in V, NEW f, Stepping(f, n, V)
  PROVE  \E g \in [1..n -> V] : Run(g, f, n, a)
<1> USE DEF Stepping, Run
<1> DEFINE G == {k \in 0..n : \E g \in [1..k -> V] :
                   \A m \in 1..k : g[m] = IF m = 1 THEN a ELSE f[<<m, g[m - 1]>>]}
<1>0. 0 \in G
  <2>1. PICK g : g = [m \in 1..0 |-> a]
    OBVIOUS
  <2>2. g \in [1..0 -> V] /\ \A m \in 1..0 : FALSE
    BY <2>1
  <2>3. 0 \in 0..n
    OBVIOUS
  <2> QED
    BY <2>2, <2>3
<1>1. ASSUME NEW k \in 0..n, k < n, k \in G PROVE k + 1 \in G
  <2>1. PICK g \in [1..k -> V] : \A m \in 1..k : g[m] = IF m = 1 THEN a ELSE f[<<m, g[m - 1]>>]
    BY <1>1
  <2>2. PICK x \in V : x = IF k = 0 THEN a ELSE f[<<k + 1, g[k]>>]
    <3>1. CASE k = 0
      BY <3>1
    <3>2. CASE k # 0
      <4>1. k \in 1..k /\ k + 1 \in 2..n /\ g[k] \in V
        BY <3>2, <1>1
      <4> QED
        BY <4>1, <3>2
    <3> QED
      BY <3>1, <3>2
  <2>3. PICK h \in [1..(k + 1) -> V] : \A m \in 1..(k + 1) : h[m] = IF m = k + 1 THEN x ELSE g[m]
    <3>1. [m \in 1..(k + 1) |-> IF m = k + 1 THEN x ELSE g[m]] \in [1..(k + 1) -> V]
      BY <1>1
    <3> QED
      BY <3>1
  <2>4. ASSUME NEW m \in 1..(k + 1) PROVE h[m] = IF m = 1 THEN a ELSE f[<<m, h[m - 1]>>]
    <3>1. CASE m = k + 1
      <4>1. CASE k = 0
        BY <3>1, <4>1, <2>2, <2>3
      <4>2. CASE k # 0
        <5>1. m # 1 /\ m - 1 = k /\ m - 1 \in 1..(k + 1) /\ m - 1 # k + 1
          BY <3>1, <4>2, <1>1
        <5>2. h[m - 1] = g[k]
          BY <5>1, <2>3
        <5> QED
          BY <3>1, <4>2, <5>1, <5>2, <2>2, <2>3
      <4> QED
        BY <4>1, <4>2
    <3>2. CASE m # k + 1
      <4>1. m \in 1..k /\ h[m] = g[m]
        BY <3>2, <2>3, <1>1
      <4>2. m # 1 => m - 1 \in 1..(k + 1) /\ m - 1 # k + 1 /\ h[m - 1] = g[m - 1]
        BY <4>1, <2>3, <1>1
      <4> QED
        BY <4>1, <4>2, <2>1
    <3> QED
      BY <3>1, <3>2
  <2>5. k + 1 \in 0..n
    BY <1>1
  <2> QED
    BY <2>4, <2>5
<1>2. n \in G
  <2> HIDE DEF G
  <2>1. CASE n = 0
    BY <1>0, <2>1
  <2>2. CASE n # 0
    <3>1. 1 \in G
      <4>1. 0 \in 0..n /\ 0 < n
        BY <2>2
      <4> QED
        BY <1>0, <1>1, <4>1
    <3>2. \A m \in 1..n : m < n /\ m \in G => m + 1 \in G
      BY <1>1
    <3>3. \A m \in 1..n : m \in G
      BY ONLY <3>1, <3>2, n \in Nat, OneByOne
    <3> QED
      BY <3>3, <2>2
  <2> QED
    BY <2>1, <2>2
<1> QED
  BY <1>2

(* The same from 0.                                                         *)
LEMMA OneByOneFromZero ==
  ASSUME NEW n \in Nat, NEW G, 0 \in G, \A m \in 0..n : m < n /\ m \in G => m + 1 \in G
  PROVE  \A m \in 0..n : m \in G
<1>1. \A m \in 1..n : m < n /\ m \in G => m + 1 \in G
  OBVIOUS
<1>2. CASE n = 0
  BY <1>2
<1>3. CASE n # 0
  <2>1. 1 \in G
    <3>1. 0 \in 0..n /\ 0 < n /\ 0 + 1 = 1
      BY <1>3
    <3> QED
      BY <3>1
  <2>2. \A m \in 1..n : m \in G
    BY ONLY n \in Nat, <1>1, <2>1, OneByOne
  <2>3. \A m \in 0..n : m = 0 \/ m \in 1..n
    OBVIOUS
  <2> QED
    BY <2>2, <2>3
<1> QED
  BY <1>2, <1>3

Follows(f, n, V) == \A m \in 1..n, x \in V : f[<<m, x>>] \in V
RunFromZero(g, f, n, a) == \A m \in 0..n : g[m] = IF m = 0 THEN a ELSE f[<<m, g[m - 1]>>]

LEMMA StepFromZero ==
  ASSUME NEW n \in Nat, NEW V, NEW a \in V, NEW f, Follows(f, n, V)
  PROVE  \E g \in [0..n -> V] : RunFromZero(g, f, n, a)
<1>1. PICK later : later = [p \in (2..n + 1) \X V |-> f[<<p[1] - 1, p[2]>>]]
  OBVIOUS
<1>2. \A m \in 2..n + 1, x \in V : m - 1 \in 1..n /\ later[<<m, x>>] = f[<<m - 1, x>>]
  BY <1>1
<1>3. PICK k \in Nat : k = n + 1
  OBVIOUS
<1>4. Stepping(later, k, V)
  BY <1>2, <1>3 DEF Stepping, Follows
<1>5. PICK h \in [1..k -> V] : Run(h, later, k, a)
  BY ONLY a \in V, k \in Nat, <1>4, StepByStep
<1>6. PICK g : g = [m \in 0..n |-> h[m + 1]]
  OBVIOUS
<1>7. \A m \in 0..n : m + 1 \in 1..k /\ g[m] = h[m + 1] /\ g[m] \in V
  BY <1>3, <1>6
<1>8. ASSUME NEW m \in 0..n PROVE g[m] = IF m = 0 THEN a ELSE f[<<m, g[m - 1]>>]
  <2>1. m + 1 \in 1..k /\ g[m] = h[m + 1] /\ h[m + 1] = IF m + 1 = 1 THEN a ELSE later[<<m + 1, h[(m + 1) - 1]>>]
    BY <1>5, <1>7 DEF Run
  <2>2. CASE m = 0
    BY <2>1, <2>2
  <2>3. CASE m # 0
    <3>1. m + 1 \in 2..n + 1 /\ (m + 1) - 1 = m /\ m \in 1..k /\ m - 1 \in 0..n /\ (m - 1) + 1 = m /\ m + 1 # 1
      BY <1>3, <2>3
    <3>2. h[m] \in V /\ g[m - 1] = h[m]
      BY <1>7, <3>1
    <3>3. later[<<m + 1, h[m]>>] = f[<<(m + 1) - 1, h[m]>>]
      BY <1>2, <3>1, <3>2
    <3> QED
      BY <2>1, <2>3, <3>1, <3>2, <3>3
  <2> QED
    BY <2>2, <2>3
<1> QED
  BY <1>6, <1>7, <1>8 DEF RunFromZero
=============================================================================
