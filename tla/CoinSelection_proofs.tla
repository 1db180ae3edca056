------------------------ MODULE CoinSelection_proofs ------------------------
(***************************************************************************)
(* Proofs about CoinSelection: facts about sums over finite sets, then     *)
(* that taking the largest outputs first is optimal, then the inductive    *)
(* invariant that carries this through the rounds of the input source.     *)
(***************************************************************************)
EXTENDS CoinSelection, FiniteSetTheorems, TLAPS

(***************************************************************************)
(* Induction on finite sets, for a set of sets instead of a predicate.     *)
(***************************************************************************)

\* A set of subsets that a set joins when all sets without one of its elements
\* are in it is the set of all subsets.
LEMMA SubsetInduction ==
    ASSUME NEW D, IsFiniteSet(D), NEW Good,
           \A S \in SUBSET D : (\A x \in S : S \ {x} \in Good) => S \in Good
    PROVE  SUBSET D \subseteq Good
<1> DEFINE bad == {S \in SUBSET D : S \notin Good}
           sizes == {Cardinality(S) : S \in bad}
<1>1. \A S \in SUBSET D : IsFiniteSet(S) /\ Cardinality(S) \in Nat
  BY FS_Subset, FS_CardinalityType
<1>2. SUFFICES ASSUME bad # {} PROVE FALSE
  OBVIOUS
<1>3. sizes \subseteq Nat /\ sizes # {}
  BY <1>1, <1>2
<1>4. PICK m \in sizes : \A k \in sizes : ~ (<<k, m>> \in OpToRel(<, Nat))
  <2> HIDE DEF sizes
  <2> QED
    BY <1>3, NatLessThanWellFounded, WFMin
<1>5. \A k \in sizes : ~ (k < m)
  BY <1>3, <1>4 DEF OpToRel
<1>6. PICK S \in bad : m = Cardinality(S)
  OBVIOUS
<1>7. PICK x \in S : S \ {x} \notin Good
  BY <1>6
<1>8. S \ {x} \in bad /\ Cardinality(S \ {x}) = Cardinality(S) - 1
  BY <1>1, <1>6, <1>7, FS_RemoveElement
<1>9. Cardinality(S \ {x}) \in sizes /\ Cardinality(S) \in Nat
  BY <1>1, <1>6, <1>8
<1> HIDE DEF bad, sizes
<1> QED
  BY <1>5, <1>6, <1>8, <1>9

(***************************************************************************)
(* Sums. SumFunctionOnSet is a fold, in an order it does not tell.         *)
(***************************************************************************)

Pick(s) == CHOOSE x \in s : TRUE

\* g sums f over the subsets of S, as the fold does.
IsSum(g, f, S) ==
    g = [s \in SUBSET S |-> IF s = {} THEN 0 ELSE f[Pick(s)] + g[s \ {Pick(s)}]]

LEMMA SumIsChosen ==
    ASSUME NEW f, NEW S
    PROVE  SumFunctionOnSet(f, S) = (CHOOSE g : IsSum(g, f, S))[S]
BY DEF SumFunctionOnSet, FoldFunctionOnSet, MapThenFoldSet, IsSum, Pick

LEMMA SumExists ==
    ASSUME NEW f, NEW S, IsFiniteSet(S)
    PROVE  \E g : IsSum(g, f, S)
<1> DEFINE Small(n) == {s \in SUBSET S : Cardinality(s) <= n}
           Up(g, n) == [s \in Small(n) |->
                          IF s = {} THEN 0 ELSE f[Pick(s)] + g[s \ {Pick(s)}]]
           none == {n \in Nat : ~ \E g : g = Up(g, n)}
<1>1. \A s \in SUBSET S : /\ IsFiniteSet(s) /\ Cardinality(s) \in Nat
                          /\ Cardinality(s) <= Cardinality(S)
                          /\ (Cardinality(s) = 0 <=> s = {})
  BY FS_Subset, FS_CardinalityType, FS_EmptySet
<1>2. \A s \in SUBSET S : s # {} =>
        /\ s \ {Pick(s)} \in SUBSET S
        /\ Cardinality(s \ {Pick(s)}) = Cardinality(s) - 1
  <2> SUFFICES ASSUME NEW s \in SUBSET S, s # {}
               PROVE  Cardinality(s \ {Pick(s)}) = Cardinality(s) - 1
    OBVIOUS
  <2>1. Pick(s) \in s
    BY DEF Pick
  <2> QED
    BY <1>1, <2>1, FS_RemoveElement
<1>3. 0 \notin none
  <2>1. \A s \in Small(0) : s = {}
    BY <1>1
  <2>2. [s \in Small(0) |-> 0] = Up([s \in Small(0) |-> 0], 0)
    BY <2>1
  <2> QED
    BY <2>2
<1>4. ASSUME NEW n \in Nat, n \notin none
      PROVE  n + 1 \notin none
  <2>1. PICK g : g = Up(g, n)
    BY <1>4
  <2> DEFINE h == Up(g, n + 1)
  <2>2. \A s \in Small(n) : s \in Small(n + 1) /\ h[s] = g[s]
    <3> SUFFICES ASSUME NEW s \in Small(n)
                 PROVE  s \in Small(n + 1) /\ h[s] = g[s]
      OBVIOUS
    <3>1. s \in Small(n + 1)
      BY <1>1
    <3>2. h[s] = IF s = {} THEN 0 ELSE f[Pick(s)] + g[s \ {Pick(s)}]
      BY <3>1
    <3>3. g[s] = IF s = {} THEN 0 ELSE f[Pick(s)] + g[s \ {Pick(s)}]
      BY <2>1
    <3> QED
      BY <3>1, <3>2, <3>3
  <2>3. \A s \in Small(n + 1) : s # {} => s \ {Pick(s)} \in Small(n)
    BY <1>1, <1>2
  <2>4. h = Up(h, n + 1)
    <3>1. \A s \in Small(n + 1) : s # {} =>
             g[s \ {Pick(s)}] = h[s \ {Pick(s)}]
      BY <2>2, <2>3
    <3> HIDE DEF Small
    <3> QED
      BY <3>1
  <2> QED
    BY <2>4
<1>5. none = {}
  <2>1. SUFFICES ASSUME none # {} PROVE FALSE
    OBVIOUS
  <2>2. PICK m \in none : \A k \in none : ~ (<<k, m>> \in OpToRel(<, Nat))
    <3>1. none \subseteq Nat
      OBVIOUS
    <3> HIDE DEF none
    <3> QED
      BY <2>1, <3>1, NatLessThanWellFounded, WFMin
  <2>3. m \in Nat /\ m # 0 /\ \A k \in none : ~ (k < m)
    <3>1. none \subseteq Nat
      OBVIOUS
    <3> HIDE DEF none
    <3> QED
      BY <1>3, <2>2, <3>1 DEF OpToRel
  <2>4. m - 1 \in Nat /\ m - 1 < m /\ (m - 1) + 1 = m
    <3> HIDE DEF none
    <3> QED
      BY <2>3
  <2> HIDE DEF none
  <2>5. m - 1 \notin none
    BY <2>3, <2>4
  <2> QED
    BY <1>4, <2>2, <2>4, <2>5
<1>6. Small(Cardinality(S)) = SUBSET S
  BY <1>1
<1>7. Cardinality(S) \in Nat /\ Cardinality(S) \notin none
  BY <1>1, <1>5
<1>8. PICK g : g = Up(g, Cardinality(S))
  BY <1>7
<1>9. g = [s \in SUBSET S |-> IF s = {} THEN 0 ELSE f[Pick(s)] + g[s \ {Pick(s)}]]
  <2> HIDE DEF Small
  <2> QED
    BY <1>6, <1>8
<1> QED
  BY <1>9 DEF IsSum

\* Sums over a set and over one that contains it agree.
LEMMA SumsAgree ==
    ASSUME NEW f, NEW S, IsFiniteSet(S), NEW T \in SUBSET S,
           NEW g, IsSum(g, f, S), NEW h, IsSum(h, f, T)
    PROVE  g[T] = h[T]
<1> DEFINE same == {s \in SUBSET T : g[s] = h[s]}
<1>1. ASSUME NEW s \in SUBSET T, \A x \in s : s \ {x} \in same
      PROVE  s \in same
  <2>1. g[s] = IF s = {} THEN 0 ELSE f[Pick(s)] + g[s \ {Pick(s)}]
    BY DEF IsSum
  <2>2. h[s] = IF s = {} THEN 0 ELSE f[Pick(s)] + h[s \ {Pick(s)}]
    BY DEF IsSum
  <2>3. s # {} => Pick(s) \in s
    BY DEF Pick
  <2> QED
    BY <1>1, <2>1, <2>2, <2>3
<1>2. IsFiniteSet(T)
  BY FS_Subset
<1>3. SUBSET T \subseteq same
  <2> HIDE DEF same
  <2> QED
    BY <1>1, <1>2, SubsetInduction
<1> QED
  BY <1>3

LEMMA SumUnfolds ==
    ASSUME NEW f, NEW S, IsFiniteSet(S)
    PROVE  /\ SumFunctionOnSet(f, {}) = 0
           /\ S # {} => SumFunctionOnSet(f, S) =
                          f[Pick(S)] + SumFunctionOnSet(f, S \ {Pick(S)})
<1> DEFINE g(T) == CHOOSE k : IsSum(k, f, T)
<1>1. \A T : IsFiniteSet(T) => IsSum(g(T), f, T)
  BY SumExists
<1>2. SumFunctionOnSet(f, {}) = 0
  <2>1. IsSum(g({}), f, {})
    BY <1>1, FS_EmptySet
  <2>2. g({})[{}] = 0
    BY <2>1 DEF IsSum
  <2> QED
    BY <2>2, SumIsChosen
<1>3. ASSUME S # {}
      PROVE  SumFunctionOnSet(f, S) =
               f[Pick(S)] + SumFunctionOnSet(f, S \ {Pick(S)})
  <2> DEFINE T == S \ {Pick(S)}
  <2>1. T \in SUBSET S /\ IsFiniteSet(T)
    BY FS_Subset
  <2>2. IsSum(g(S), f, S) /\ IsSum(g(T), f, T)
    BY <1>1, <2>1
  <2>3. g(S)[T] = g(T)[T]
    <3> HIDE DEF g, T
    <3> QED
      BY <2>1, <2>2, SumsAgree
  <2>4. g(S)[S] = f[Pick(S)] + g(S)[T]
    BY <1>3, <2>2 DEF IsSum
  <2> QED
    BY <2>3, <2>4, SumIsChosen
<1> QED
  BY <1>2, <1>3

LEMMA SumType ==
    ASSUME NEW D, NEW f \in [D -> Nat], NEW S \in SUBSET D, IsFiniteSet(S)
    PROVE  SumFunctionOnSet(f, S) \in Nat
<1> DEFINE Good == {T \in SUBSET S : SumFunctionOnSet(f, T) \in Nat}
<1>1. ASSUME NEW T \in SUBSET S, \A x \in T : T \ {x} \in Good
      PROVE  T \in Good
  <2>1. IsFiniteSet(T)
    BY FS_Subset
  <2>2. CASE T = {}
    <3>1. SumFunctionOnSet(f, {}) = 0
      BY <2>1, SumUnfolds
    <3> QED
      BY <2>2, <3>1
  <2>3. CASE T # {}
    <3>1. Pick(T) \in T
      BY <2>3 DEF Pick
    <3>2. f[Pick(T)] \in Nat /\ SumFunctionOnSet(f, T \ {Pick(T)}) \in Nat
      BY <1>1, <3>1
    <3>3. SumFunctionOnSet(f, T) =
            f[Pick(T)] + SumFunctionOnSet(f, T \ {Pick(T)})
      BY <2>1, <2>3, SumUnfolds
    <3> QED
      BY <3>2, <3>3
  <2> QED
    BY <2>2, <2>3
<1>2. SUBSET S \subseteq Good
  <2> HIDE DEF Good
  <2> QED
    BY <1>1, SubsetInduction
<1> QED
  BY <1>2

\* The order of the fold does not matter: any element may be added last.
LEMMA SumAdds ==
    ASSUME NEW D, NEW f \in [D -> Nat], NEW S \in SUBSET D, IsFiniteSet(S),
           NEW x \in D, x \notin S
    PROVE  SumFunctionOnSet(f, S \cup {x}) = SumFunctionOnSet(f, S) + f[x]
<1> DEFINE Sum(T) == SumFunctionOnSet(f, T)
           W == S \cup {x}
           Good == {T \in SUBSET W : \A y \in T : Sum(T) = Sum(T \ {y}) + f[y]}
<1>1. IsFiniteSet(W)
  BY FS_AddElement
<1>2. \A T \in SUBSET W : IsFiniteSet(T) /\ Sum(T) \in Nat
  <2> SUFFICES ASSUME NEW T \in SUBSET W
               PROVE  IsFiniteSet(T) /\ Sum(T) \in Nat
    OBVIOUS
  <2>1. IsFiniteSet(T) /\ T \in SUBSET D
    BY <1>1, FS_Subset
  <2> QED
    BY <2>1, SumType
<1>3. ASSUME NEW T \in SUBSET W, \A y \in T : T \ {y} \in Good
      PROVE  T \in Good
  <2> SUFFICES ASSUME NEW y \in T
               PROVE  Sum(T) = Sum(T \ {y}) + f[y]
    OBVIOUS
  <2> DEFINE p == Pick(T)
             R == (T \ {y}) \ {p}
  <2>1. p \in T
    BY DEF Pick
  <2>2. Sum(T) = f[p] + Sum(T \ {p})
    BY <1>2, SumUnfolds
  <2>3. f[p] \in Nat /\ f[y] \in Nat /\ Sum(R) \in Nat
        /\ Sum(T \ {p}) \in Nat /\ Sum(T \ {y}) \in Nat
    <3>1. p \in D /\ y \in D
      BY <2>1
    <3>2. R \in SUBSET W /\ T \ {p} \in SUBSET W /\ T \ {y} \in SUBSET W
      OBVIOUS
    <3> HIDE DEF Sum, W, R, p
    <3> QED
      BY <1>2, <3>1, <3>2
  <2>4. CASE p = y
    BY <2>2, <2>3, <2>4
  <2>5. CASE p # y
    <3>1. Sum(T \ {p}) = Sum(R) + f[y]
      <4>1. (T \ {p}) \ {y} = R
        OBVIOUS
      <4>2. T \ {p} \in Good /\ y \in T \ {p}
        BY <1>3, <2>1, <2>5
      <4> QED
        BY <4>1, <4>2
    <3>2. Sum(T \ {y}) = Sum(R) + f[p]
      <4>1. T \ {y} \in Good /\ p \in T \ {y}
        BY <1>3, <2>1, <2>5
      <4> QED
        BY <4>1
    <3> HIDE DEF Sum, R, p
    <3> QED
      BY <2>2, <2>3, <3>1, <3>2
  <2> QED
    BY <2>4, <2>5
<1>4. SUBSET W \subseteq Good
  <2> HIDE DEF Good, W
  <2> QED
    BY <1>1, <1>3, SubsetInduction
<1>5. Sum(W) = Sum(W \ {x}) + f[x]
  BY <1>4
<1>6. W \ {x} = S
  OBVIOUS
<1> QED
  BY <1>5, <1>6

(***************************************************************************)
(* What the wallet's outputs are worth, and why the largest come first.    *)
(***************************************************************************)

Total(U) == SumFunctionOnSet(Amount, U)

LEMMA UtxoSets ==
    \A U \in SUBSET Utxo : /\ IsFiniteSet(U)
                           /\ Cardinality(U) \in Nat
                           /\ Total(U) \in Nat
                           /\ Cardinality(U) = 0 <=> U = {}
<1> SUFFICES ASSUME NEW U \in SUBSET Utxo
             PROVE  /\ IsFiniteSet(U) /\ Cardinality(U) \in Nat
                    /\ Total(U) \in Nat
                    /\ Cardinality(U) = 0 <=> U = {}
  OBVIOUS
<1>1. IsFiniteSet(U)
  BY AmountAssumption, FS_Subset
<1>2. Total(U) \in Nat
  BY <1>1, AmountAssumption, SumType DEF Total
<1> QED
  BY <1>1, <1>2, FS_CardinalityType, FS_EmptySet

LEMMA TotalAdds ==
    ASSUME NEW U \in SUBSET Utxo, NEW u \in Utxo, u \notin U
    PROVE  /\ Total(U \cup {u}) = Total(U) + Amount[u]
           /\ Cardinality(U \cup {u}) = Cardinality(U) + 1
<1>1. IsFiniteSet(U)
  BY UtxoSets
<1> QED
  BY <1>1, AmountAssumption, SumAdds, FS_AddElement DEF Total

LEMMA TotalRemoves ==
    ASSUME NEW U \in SUBSET Utxo, NEW u \in U
    PROVE  /\ Total(U) = Total(U \ {u}) + Amount[u]
           /\ Cardinality(U) = Cardinality(U \ {u}) + 1
<1>1. (U \ {u}) \cup {u} = U
  OBVIOUS
<1> QED
  BY <1>1, TotalAdds

LEMMA NothingIsWorthNothing == Total({}) = 0
BY FS_EmptySet, SumUnfolds DEF Total

LEMMA DisjointTotals ==
    ASSUME NEW U \in SUBSET Utxo, NEW W \in SUBSET Utxo, U \cap W = {}
    PROVE  /\ Total(U \cup W) = Total(U) + Total(W)
           /\ Cardinality(U \cup W) = Cardinality(U) + Cardinality(W)
<1> DEFINE Good == {V \in SUBSET W :
                      /\ Total(U \cup V) = Total(U) + Total(V)
                      /\ Cardinality(U \cup V) = Cardinality(U) + Cardinality(V)}
<1>1. ASSUME NEW V \in SUBSET W, \A x \in V : V \ {x} \in Good
      PROVE  V \in Good
  <2>1. CASE V = {}
    <3>1. U \cup V = U /\ Total(V) = 0 /\ Cardinality(V) = 0
      BY <2>1, NothingIsWorthNothing, FS_EmptySet
    <3> QED
      BY <3>1, UtxoSets
  <2>2. CASE V # {}
    <3>1. PICK x \in V : TRUE
      BY <2>2
    <3> DEFINE R == V \ {x}
    <3>2. /\ Total(U \cup R) = Total(U) + Total(R)
          /\ Cardinality(U \cup R) = Cardinality(U) + Cardinality(R)
      BY <1>1
    <3>3. /\ Total(V) = Total(R) + Amount[x]
          /\ Cardinality(V) = Cardinality(R) + 1
      BY TotalRemoves
    <3>4. /\ Total(U \cup V) = Total(U \cup R) + Amount[x]
          /\ Cardinality(U \cup V) = Cardinality(U \cup R) + 1
      <4>1. U \cup V = (U \cup R) \cup {x}
        OBVIOUS
      <4>2. x \notin U \cup R /\ x \in Utxo /\ U \cup R \in SUBSET Utxo
        OBVIOUS
      <4> HIDE DEF R
      <4> QED
        BY <4>1, <4>2, TotalAdds
    <3>5. Total(U) \in Nat /\ Total(R) \in Nat /\ Amount[x] \in Nat
          /\ Cardinality(U) \in Nat /\ Cardinality(R) \in Nat
      BY UtxoSets, AmountAssumption
    <3>6. Total(U \cup V) = Total(U) + Total(V)
      BY <3>2, <3>3, <3>4, <3>5
    <3>7. Cardinality(U \cup V) = Cardinality(U) + Cardinality(V)
      BY <3>2, <3>3, <3>4, <3>5
    <3> QED
      BY <3>6, <3>7
  <2> QED
    BY <2>1, <2>2
<1>2. IsFiniteSet(W)
  BY UtxoSets
<1>3. SUBSET W \subseteq Good
  <2> HIDE DEF Good
  <2> QED
    BY <1>1, <1>2, SubsetInduction
<1> QED
  BY <1>3

\* No more outputs, each worth no more, are worth no more together.
LEMMA FewerAndSmaller ==
    ASSUME NEW A \in SUBSET Utxo, NEW B \in SUBSET Utxo,
           Cardinality(A) <= Cardinality(B),
           \A a \in A, b \in B : Amount[a] <= Amount[b]
    PROVE  Total(A) <= Total(B)
<1> DEFINE Good == {U \in SUBSET A : \A W \in SUBSET B :
                      Cardinality(U) <= Cardinality(W) => Total(U) <= Total(W)}
<1>1. ASSUME NEW U \in SUBSET A, \A x \in U : U \ {x} \in Good
      PROVE  U \in Good
  <2> SUFFICES ASSUME NEW W \in SUBSET B, Cardinality(U) <= Cardinality(W)
               PROVE  Total(U) <= Total(W)
    OBVIOUS
  <2>1. Total(W) \in Nat /\ Cardinality(W) \in Nat /\ Cardinality(U) \in Nat
        /\ (Cardinality(U) = 0 <=> U = {}) /\ (Cardinality(W) = 0 <=> W = {})
    BY UtxoSets
  <2>2. CASE U = {}
    <3>1. Total(U) = 0
      BY <2>2, NothingIsWorthNothing
    <3> QED
      BY <2>1, <3>1
  <2>3. CASE U # {}
    <3>1. W # {}
      BY <2>1, <2>3
    <3>2. PICK a \in U, b \in W : TRUE
      BY <2>3, <3>1
    <3>3. /\ Total(U) = Total(U \ {a}) + Amount[a]
          /\ Cardinality(U) = Cardinality(U \ {a}) + 1
      BY TotalRemoves
    <3>4. /\ Total(W) = Total(W \ {b}) + Amount[b]
          /\ Cardinality(W) = Cardinality(W \ {b}) + 1
      BY TotalRemoves
    <3>5. /\ Total(U \ {a}) \in Nat /\ Total(W \ {b}) \in Nat
          /\ Cardinality(U \ {a}) \in Nat /\ Cardinality(W \ {b}) \in Nat
          /\ Amount[a] \in Nat /\ Amount[b] \in Nat /\ Amount[a] <= Amount[b]
      BY UtxoSets, AmountAssumption
    <3>6. Cardinality(U \ {a}) <= Cardinality(W \ {b})
      BY <3>3, <3>4, <3>5
    <3>7. Total(U \ {a}) <= Total(W \ {b})
      BY <1>1, <3>6
    <3> QED
      BY <3>3, <3>4, <3>5, <3>7
  <2> QED
    BY <2>2, <2>3
<1>2. IsFiniteSet(A)
  BY UtxoSets
<1>3. SUBSET A \subseteq Good
  <2> HIDE DEF Good
  <2> QED
    BY <1>1, <1>2, SubsetInduction
<1> QED
  BY <1>3

\* The exchange argument: no choice of as many outputs is worth more than the
\* largest ones.
LEMMA LargestAreWorthMost ==
    ASSUME NEW I \in SUBSET Utxo, NEW R \in SUBSET Utxo,
           \A i \in I, r \in R : Amount[r] <= Amount[i],
           NEW U \in SUBSET (I \cup R), Cardinality(U) <= Cardinality(I)
    PROVE  Total(U) <= Total(I)
<1> DEFINE K == U \cap I
           New == U \ I
           Old == I \ U
<1>1. /\ Total(U) = Total(K) + Total(New)
      /\ Cardinality(U) = Cardinality(K) + Cardinality(New)
  <2>1. U = K \cup New /\ K \cap New = {}
        /\ K \in SUBSET Utxo /\ New \in SUBSET Utxo
    OBVIOUS
  <2> HIDE DEF K, New
  <2> QED
    BY <2>1, DisjointTotals
<1>2. /\ Total(I) = Total(K) + Total(Old)
      /\ Cardinality(I) = Cardinality(K) + Cardinality(Old)
  <2>1. I = K \cup Old /\ K \cap Old = {}
        /\ K \in SUBSET Utxo /\ Old \in SUBSET Utxo
    OBVIOUS
  <2> HIDE DEF K, Old
  <2> QED
    BY <2>1, DisjointTotals
<1>3. New \subseteq R /\ Old \subseteq I
      /\ K \in SUBSET Utxo /\ New \in SUBSET Utxo /\ Old \in SUBSET Utxo
  OBVIOUS
<1> HIDE DEF K, New, Old
<1>4. \A V \in {K, New, Old} : Total(V) \in Nat /\ Cardinality(V) \in Nat
  BY <1>3, UtxoSets
<1>5. Cardinality(New) <= Cardinality(Old)
  BY <1>1, <1>2, <1>4
<1>6. Total(New) <= Total(Old)
  BY <1>3, <1>5, FewerAndSmaller
<1> QED
  BY <1>1, <1>2, <1>4, <1>6

(***************************************************************************)
(* Fees, payments and the sorted list.                                     *)
(***************************************************************************)

LEMMA FeeGrows ==
    \A m, n \in Nat : Fee(m) \in Nat /\ (m <= n => Fee(m) <= Fee(n))
<1> SUFFICES ASSUME NEW m \in Nat, NEW n \in Nat
             PROVE  Fee(m) \in Nat /\ (m <= n => Fee(m) <= Fee(n))
  OBVIOUS
<1>1. BaseFee \in Nat /\ InputFee \in Nat
  BY FeeAssumption
<1>2. m * InputFee \in Nat /\ n * InputFee \in Nat
  BY <1>1
<1>3. m <= n => m * InputFee <= n * InputFee
  BY <1>1
<1> QED
  BY <1>1, <1>2, <1>3 DEF Fee

LEMMA PaidType == \A outputs \in Seq(Nat) : Paid(outputs) \in Nat
<1> SUFFICES ASSUME NEW outputs \in Seq(Nat) PROVE Paid(outputs) \in Nat
  OBVIOUS
<1>1. outputs \in [DOMAIN outputs -> Nat] /\ IsFiniteSet(DOMAIN outputs)
  <2>1. DOMAIN outputs = 1..Len(outputs) /\ Len(outputs) \in Nat
    OBVIOUS
  <2>2. IsFiniteSet(1..Len(outputs))
    BY <2>1, FS_Interval
  <2> QED
    BY <2>1, <2>2
<1> QED
  BY <1>1, SumType DEF Paid, SumFunction

\* Each output once, in an order of falling amounts.
Falling(s) ==
    \A i, j \in DOMAIN s : i < j => s[i] # s[j] /\ Amount[s[i]] >= Amount[s[j]]

\* LargestFirst lists every output of the set once.
LEMMA LargestFirstLists ==
    ASSUME NEW W \in SUBSET Utxo, NEW s \in LargestFirst(W)
    PROVE  s \in Seq(Utxo) /\ ToSet(s) = W /\ Falling(s)
<1> DEFINE n == Cardinality(W)
<1>1. n \in Nat /\ IsFiniteSet(W)
  BY UtxoSets
<1>2. /\ s \in [1..n -> W]
      /\ \A i, j \in 1..n : i # j => s[i] # s[j]
      /\ \A i, j \in DOMAIN s : i < j => Amount[s[i]] >= Amount[s[j]]
  BY DEF LargestFirst, SetToSeqs
<1>3. s \in Seq(Utxo)
  BY <1>1, <1>2
<1>4. ToSet(s) = W
  <2>1. s \in Injection(1..n, W)
    BY <1>2 DEF Injection, IsInjective
  <2>2. IsFiniteSet(1..n) /\ Cardinality(1..n) = n
    BY <1>1, FS_Interval
  <2>3. s \in Surjection(1..n, W)
    BY <1>1, <2>1, <2>2, FS_Injection
  <2> QED
    BY <1>2, <2>3 DEF Surjection, ToSet
<1>5. Falling(s)
  BY <1>1, <1>2 DEF Falling
<1> QED
  BY <1>3, <1>4, <1>5

(***************************************************************************)
(* The input source, from one round to the next.                           *)
(***************************************************************************)

Source == [target : Nat, total : Nat, inputs : Seq(Utxo), utxos : Seq(Utxo)]

\* No choice with fewer than n of the outputs pays.
NoneSmaller(n, offered, outputs) ==
    \A U \in SUBSET offered : U # {} /\ Covers(U, outputs) => Cardinality(U) >= n

\* What was taken and what is left are the outputs offered, the largest are
\* taken, and the target is none that the outputs taken had to reach alone.
SourceOK(s, offered, outputs) ==
    LET I == ToSet(s.inputs)
        R == ToSet(s.utxos)
    IN  /\ I \cap R = {} /\ I \cup R = offered
        /\ Cardinality(I) = Len(s.inputs)
        /\ Falling(s.utxos)
        /\ \A i \in I, r \in R : Amount[r] <= Amount[i]
        /\ s.total = Total(I)
        /\ \A n \in Nat \ {0} : n >= Len(s.inputs) => s.target <= Paid(outputs) + Fee(n)
        /\ NoneSmaller(Len(s.inputs), offered, outputs)

LEMMA SourceStarts ==
    ASSUME NEW W \in SUBSET Utxo, NEW outputs \in Seq(Nat),
           NEW s \in LargestFirst(W)
    PROVE  LET new == makeInputSource(s, Paid(outputs) + Fee(1))
           IN  new \in Source /\ SourceOK(new, W, outputs)
<1> DEFINE new == makeInputSource(s, Paid(outputs) + Fee(1))
<1>1. s \in Seq(Utxo) /\ ToSet(s) = W /\ Falling(s)
  BY LargestFirstLists
<1>2. /\ Paid(outputs) \in Nat /\ Fee(1) \in Nat
      /\ \A n \in Nat \ {0} : Fee(n) \in Nat /\ Fee(1) <= Fee(n)
  BY PaidType, FeeGrows
<1>3. /\ new.inputs = <<>> /\ new.utxos = s /\ new.total = 0
      /\ new.target = Paid(outputs) + Fee(1)
  BY DEF makeInputSource
<1>4. new \in Source
  <2>1. Paid(outputs) + Fee(1) \in Nat
    BY <1>2
  <2> QED
    BY <1>1, <2>1 DEF Source, makeInputSource
<1>5. ToSet(new.inputs) = {} /\ Len(new.inputs) = 0
  BY <1>3 DEF ToSet
<1>6. NoneSmaller(0, W, outputs)
  <2>1. \A U \in SUBSET W : Cardinality(U) \in Nat
    BY UtxoSets
  <2> QED
    BY <2>1 DEF NoneSmaller
<1>7. \A n \in Nat \ {0} : Paid(outputs) + Fee(1) <= Paid(outputs) + Fee(n)
  BY <1>2
<1> HIDE DEF new
<1>8. SourceOK(new, W, outputs)
  BY <1>1, <1>3, <1>5, <1>6, <1>7, NothingIsWorthNothing, FS_EmptySet
  DEF SourceOK
<1> QED
  BY <1>4, <1>8 DEF new

\* As long as the target is not reached, one output more is needed: as many as
\* were taken, however chosen, do not pay.
LEMMA StillNotEnough ==
    ASSUME NEW s \in Source, NEW W \in SUBSET Utxo, NEW outputs \in Seq(Nat),
           SourceOK(s, W, outputs), s.total < s.target
    PROVE  NoneSmaller(Len(s.inputs) + 1, W, outputs)
<1> DEFINE n == Len(s.inputs)
           I == ToSet(s.inputs)
           R == ToSet(s.utxos)
<1>1. n \in Nat /\ s.total \in Nat /\ s.target \in Nat
  BY DEF Source
<1> SUFFICES ASSUME NEW U \in SUBSET W, U # {}, Covers(U, outputs),
                    ~ (Cardinality(U) >= n + 1)
             PROVE  FALSE
  BY DEF NoneSmaller
<1>2. Cardinality(U) \in Nat /\ Cardinality(U) # 0 /\ Total(U) \in Nat
  BY UtxoSets
<1>3. Cardinality(U) >= n
  BY DEF SourceOK, NoneSmaller
<1>4. Cardinality(U) = n
  BY <1>1, <1>2, <1>3
<1>5. Total(U) <= s.total
  <2>1. /\ I \in SUBSET Utxo /\ R \in SUBSET Utxo /\ U \in SUBSET (I \cup R)
        /\ Cardinality(I) = n /\ s.total = Total(I)
        /\ \A i \in I, r \in R : Amount[r] <= Amount[i]
    BY DEF SourceOK
  <2>2. Cardinality(U) <= Cardinality(I)
    BY <1>1, <1>4, <2>1
  <2> HIDE DEF I, R
  <2> QED
    BY <2>1, <2>2, LargestAreWorthMost
<1>6. s.target <= Paid(outputs) + Fee(n)
  <2>1. n \in Nat \ {0} /\ n >= Len(s.inputs)
    BY <1>1, <1>2, <1>4
  <2> QED
    BY <2>1 DEF SourceOK
<1>7. Total(U) >= Paid(outputs) + Fee(n)
  BY <1>4 DEF Covers, Total
<1>8. Paid(outputs) \in Nat /\ Fee(n) \in Nat
  BY <1>1, PaidType, FeeGrows
<1> QED
  BY <1>1, <1>2, <1>5, <1>6, <1>7, <1>8

LEMMA CreditIsTaken ==
    ASSUME NEW s \in Source, NEW W \in SUBSET Utxo, NEW outputs \in Seq(Nat),
           SourceOK(s, W, outputs), NeedsCredit(s)
    PROVE  NextCredit(s) \in Source /\ SourceOK(NextCredit(s), W, outputs)
<1> DEFINE new == NextCredit(s)
           u == Head(s.utxos)
           I == ToSet(s.inputs)
           R == ToSet(s.utxos)
<1>1. /\ s.inputs \in Seq(Utxo) /\ s.utxos \in Seq(Utxo) /\ s.utxos # <<>>
      /\ s.total \in Nat /\ s.target \in Nat /\ s.total < s.target
  BY DEF Source, NeedsCredit
<1>2. /\ new.inputs = Append(s.inputs, u) /\ new.utxos = Tail(s.utxos)
      /\ new.total = s.total + Amount[u] /\ new.target = s.target
  BY DEF NextCredit, Source
<1>3. u \in R /\ u \in Utxo /\ Amount[u] \in Nat
  <2>1. u = s.utxos[1] /\ 1 \in DOMAIN s.utxos
    BY <1>1
  <2> QED
    BY <1>1, <2>1, AmountAssumption DEF ToSet
<1>4. ToSet(new.inputs) = I \cup {u} /\ Len(new.inputs) = Len(s.inputs) + 1
  <2>1. /\ DOMAIN Append(s.inputs, u) = DOMAIN s.inputs \cup {Len(s.inputs) + 1}
        /\ Append(s.inputs, u)[Len(s.inputs) + 1] = u
        /\ \A i \in DOMAIN s.inputs : Append(s.inputs, u)[i] = s.inputs[i]
        /\ Len(Append(s.inputs, u)) = Len(s.inputs) + 1
    BY <1>1, <1>3
  <2> QED
    BY <1>2, <2>1 DEF ToSet
<1>5. /\ ToSet(new.utxos) = R \ {u} /\ Falling(new.utxos)
      /\ \A r \in R \ {u} : Amount[r] <= Amount[u]
  <2> DEFINE t == Tail(s.utxos)
             n == Len(s.utxos)
  <2>1. /\ n \in Nat \ {0} /\ DOMAIN s.utxos = 1..n /\ DOMAIN t = 1..(n - 1)
        /\ \A i \in 1..(n - 1) : t[i] = s.utxos[i + 1]
        /\ u = s.utxos[1]
    BY <1>1
  <2>2. \A i, j \in 1..n : i < j => s.utxos[i] # s.utxos[j]
                              /\ Amount[s.utxos[i]] >= Amount[s.utxos[j]]
    BY <2>1 DEF SourceOK, Falling
  <2>3. \A j \in 2..n : s.utxos[j] # u /\ Amount[s.utxos[j]] <= Amount[u]
    <3>1. \A j \in 1..n : s.utxos[j] \in Utxo /\ Amount[s.utxos[j]] \in Nat
      BY <1>1, <2>1, AmountAssumption
    <3> HIDE DEF u, n
    <3> QED
      BY <1>3, <2>1, <2>2, <3>1
  <2>4. \A r \in R \ {u} : \E j \in 2..n : r = s.utxos[j]
    <3> HIDE DEF u, n
    <3> QED
      BY <2>1 DEF ToSet
  <2>5. ToSet(t) = {s.utxos[j] : j \in 2..n}
    <3>1. \A i \in 1..(n - 1) : i + 1 \in 2..n
      BY <2>1
    <3>2. \A j \in 2..n : j - 1 \in 1..(n - 1) /\ t[j - 1] = s.utxos[j]
      BY <2>1
    <3>3. ASSUME NEW x \in ToSet(t)
          PROVE  \E j \in 2..n : x = s.utxos[j]
      <4>1. PICK i \in DOMAIN t : x = t[i]
        BY DEF ToSet
      <4>2. i \in 1..(n - 1) /\ x = s.utxos[i + 1]
        BY <2>1, <4>1
      <4> QED
        BY <3>1, <4>2
    <3>4. ASSUME NEW j \in 2..n
          PROVE  s.utxos[j] \in ToSet(t)
      <4>1. j - 1 \in DOMAIN t /\ s.utxos[j] = t[j - 1]
        BY <2>1, <3>2
      <4> QED
        BY <4>1 DEF ToSet
    <3> HIDE DEF t, n
    <3> QED
      BY <3>3, <3>4
  <2>6. ToSet(t) = R \ {u}
    <3>1. \A j \in 2..n : s.utxos[j] \in R
      BY <2>1 DEF ToSet
    <3> HIDE DEF R, u, n, t
    <3> QED
      BY <2>3, <2>4, <2>5, <3>1
  <2>7. Falling(t)
    <3> SUFFICES ASSUME NEW i \in 1..(n - 1), NEW j \in 1..(n - 1), i < j
                 PROVE  t[i] # t[j] /\ Amount[t[i]] >= Amount[t[j]]
      BY <2>1 DEF Falling
    <3>1. i + 1 \in 1..n /\ j + 1 \in 1..n /\ i + 1 < j + 1
      BY <2>1
    <3>2. t[i] = s.utxos[i + 1] /\ t[j] = s.utxos[j + 1]
      BY <2>1
    <3> HIDE DEF t, n
    <3> QED
      BY <2>2, <3>1, <3>2
  <2>8. \A r \in R \ {u} : Amount[r] <= Amount[u]
    BY <2>3, <2>4
  <2> QED
    BY <1>2, <2>6, <2>7, <2>8
<1>6. new \in Source
  <2>1. Tail(s.utxos) \in Seq(Utxo) /\ Append(s.inputs, u) \in Seq(Utxo)
        /\ s.total + Amount[u] \in Nat
    BY <1>1, <1>3
  <2> QED
    BY <2>1 DEF NextCredit, Source
<1>7. /\ I \cap R = {} /\ I \cup R = W /\ Cardinality(I) = Len(s.inputs)
      /\ \A i \in I, r \in R : Amount[r] <= Amount[i]
      /\ s.total = Total(I)
      /\ \A n \in Nat \ {0} :
            n >= Len(s.inputs) => s.target <= Paid(outputs) + Fee(n)
  BY DEF SourceOK
<1>8. NoneSmaller(Len(s.inputs) + 1, W, outputs)
  BY <1>1, StillNotEnough
<1>9. Len(s.inputs) \in Nat
  BY <1>1
<1> HIDE DEF new, u, I, R
<1>10. /\ Total(I \cup {u}) = Total(I) + Amount[u]
       /\ Cardinality(I \cup {u}) = Cardinality(I) + 1
  BY <1>3, <1>7, TotalAdds
<1>11. \A n \in Nat \ {0} :
         n >= Len(new.inputs) => new.target <= Paid(outputs) + Fee(n)
  BY <1>2, <1>4, <1>7, <1>9
<1>12. /\ ToSet(new.inputs) \cap ToSet(new.utxos) = {}
       /\ ToSet(new.inputs) \cup ToSet(new.utxos) = W
       /\ \A i \in ToSet(new.inputs), r \in ToSet(new.utxos) :
            Amount[r] <= Amount[i]
  BY <1>3, <1>4, <1>5, <1>7
<1>13. SourceOK(new, W, outputs)
  BY <1>2, <1>4, <1>5, <1>7, <1>8, <1>10, <1>11, <1>12 DEF SourceOK
<1> QED
  BY <1>6, <1>13 DEF new

\* Asked again, the source is asked for the fee of what it gave.
LEMMA SourceIsAskedAgain ==
    ASSUME NEW s \in Source, NEW W \in SUBSET Utxo, NEW outputs \in Seq(Nat),
           SourceOK(s, W, outputs)
    PROVE  LET new == [s EXCEPT !.target = Paid(outputs) + Fee(Len(s.inputs))]
           IN  new \in Source /\ SourceOK(new, W, outputs)
<1> DEFINE new == [s EXCEPT !.target = Paid(outputs) + Fee(Len(s.inputs))]
<1>1. Len(s.inputs) \in Nat
  BY DEF Source
<1>2. Paid(outputs) \in Nat /\ Fee(Len(s.inputs)) \in Nat
  BY <1>1, PaidType, FeeGrows
<1>3. new \in Source
  <2>1. Paid(outputs) + Fee(Len(s.inputs)) \in Nat
    BY <1>2
  <2> QED
    BY <2>1 DEF Source
<1>4. /\ new.inputs = s.inputs /\ new.utxos = s.utxos /\ new.total = s.total
      /\ new.target = Paid(outputs) + Fee(Len(s.inputs))
  BY DEF Source
<1>5. ASSUME NEW n \in Nat \ {0}, n >= Len(s.inputs)
      PROVE  Paid(outputs) + Fee(Len(s.inputs)) <= Paid(outputs) + Fee(n)
  <2>1. Fee(n) \in Nat /\ Fee(Len(s.inputs)) <= Fee(n)
    BY <1>1, <1>5, FeeGrows
  <2> QED
    BY <1>2, <2>1
<1> HIDE DEF new
<1>6. SourceOK(new, W, outputs)
  BY <1>4, <1>5 DEF SourceOK
<1> QED
  BY <1>3, <1>6 DEF new

\* A source that is used up below its target means that no choice pays.
LEMMA PoorIsPoor ==
    ASSUME NEW s \in Source, NEW W \in SUBSET Utxo, NEW outputs \in Seq(Nat),
           SourceOK(s, W, outputs), ~NeedsCredit(s), s.total < s.target
    PROVE  \A U \in SUBSET W : U # {} => ~Covers(U, outputs)
<1> SUFFICES ASSUME NEW U \in SUBSET W, U # {}, Covers(U, outputs)
             PROVE  FALSE
  OBVIOUS
<1>1. Len(s.inputs) \in Nat /\ Cardinality(U) \in Nat
  BY UtxoSets DEF Source
<1>2. Cardinality(U) >= Len(s.inputs) + 1
  BY StillNotEnough DEF NoneSmaller
<1>3. W = ToSet(s.inputs) /\ Cardinality(W) = Len(s.inputs)
  <2>1. ToSet(s.utxos) = {}
    BY DEF NeedsCredit, ToSet
  <2> QED
    BY <2>1 DEF SourceOK
<1>4. Cardinality(U) <= Cardinality(W)
  <2>1. IsFiniteSet(W)
    BY UtxoSets
  <2> QED
    BY <2>1, FS_Subset
<1> QED
  BY <1>1, <1>2, <1>3, <1>4

(***************************************************************************)
(* The inductive invariant.                                                *)
(***************************************************************************)

Transaction == [inputs : Seq(Utxo), outputs : Seq(Nat), change : Nat]

\* What FeeIsCovered and FewestInputs say of one transaction.
TxOK(t, offered) ==
    LET fee == Total(ToSet(t.inputs)) - Paid(t.outputs) - t.change
    IN  /\ Cardinality(ToSet(t.inputs)) = Len(t.inputs)
        /\ fee >= Fee(Len(t.inputs))
        /\ fee < Fee(Len(t.inputs)) + Dust
        /\ t.change = 0 \/ t.change >= Dust
        /\ NoneSmaller(Len(t.inputs), offered, t.outputs)

\* What the author makes of a source that covers the payment.
Authored(s, outputs) ==
    LET rest == s.total - Paid(outputs) - Fee(Len(s.inputs))
    IN  [inputs |-> s.inputs, outputs |-> outputs,
         change |-> IF rest < Dust THEN 0 ELSE rest]

LEMMA AuthoredWell ==
    ASSUME NEW s \in Source, NEW W \in SUBSET Utxo, NEW outputs \in Seq(Nat),
           SourceOK(s, W, outputs),
           s.total - Paid(outputs) - Fee(Len(s.inputs)) >= 0
    PROVE  /\ Authored(s, outputs) \in Transaction
           /\ TxOK(Authored(s, outputs), W)
           /\ ToSet(Authored(s, outputs).inputs) \subseteq W
<1> DEFINE t == Authored(s, outputs)
           rest == s.total - Paid(outputs) - Fee(Len(s.inputs))
<1>1. /\ s.total \in Nat /\ Len(s.inputs) \in Nat /\ s.inputs \in Seq(Utxo)
      /\ Paid(outputs) \in Nat /\ Fee(Len(s.inputs)) \in Nat
      /\ Dust \in Nat /\ Dust > 0
  BY PaidType, FeeGrows, FeeAssumption DEF Source
<1>2. /\ t.inputs = s.inputs /\ t.outputs = outputs
      /\ t.change = IF rest < Dust THEN 0 ELSE rest
  BY DEF Authored
<1>3. t.change \in Nat
  BY <1>1, <1>2
<1>4. t \in Transaction
  BY <1>1, <1>2, <1>3 DEF Authored, Transaction
<1>5. /\ s.total = Total(ToSet(s.inputs)) /\ ToSet(s.inputs) \subseteq W
      /\ Cardinality(ToSet(s.inputs)) = Len(s.inputs)
      /\ NoneSmaller(Len(s.inputs), W, outputs)
  BY DEF SourceOK
<1>6. LET fee == s.total - Paid(outputs) - t.change
      IN  /\ fee >= Fee(Len(s.inputs))
          /\ fee < Fee(Len(s.inputs)) + Dust
          /\ t.change = 0 \/ t.change >= Dust
  <2> HIDE DEF t
  <2> QED
    BY <1>1, <1>2
<1> HIDE DEF t
<1>7. TxOK(t, W)
  BY <1>2, <1>5, <1>6 DEF TxOK
<1> QED
  BY <1>2, <1>4, <1>5, <1>7 DEF t

Offered(c) == listed[c] \cap Spendable

Reasons == {"none", "rpc", "insufficient", "nothing to pay", "not all signed",
            "rejected"}

Types ==
    /\ unspent \in SUBSET Utxo /\ accepted \in SUBSET Callers
    /\ pc \in [Callers ->
                {"idle", "choosing", "created", "signed", "sent", "failed"}]
    /\ err \in [Callers -> Reasons]
    /\ listed \in [Callers -> SUBSET Utxo]
    /\ asked \in [Callers -> Seq(Nat)]
    /\ source \in [Callers -> Source]
    /\ tx \in [Callers -> Transaction]

\* One caller's part: its source while it chooses, its transaction from then
\* on, and why it failed. The listing stays what it was until the caller ends.
CallOK(c) ==
    /\ pc[c] = "choosing" => SourceOK(source[c], Offered(c), asked[c])
    /\ pc[c] \in {"idle", "choosing"} => tx[c] = NoTx
    /\ tx[c] # NoTx => TxOK(tx[c], Offered(c))
    /\ ToSet(tx[c].inputs) \subseteq Offered(c)
    /\ pc[c] # "failed" => err[c] = "none"
    /\ err[c] = "insufficient" =>
         \A U \in SUBSET Offered(c) : U # {} => ~Covers(U, asked[c])
    /\ err[c] \in {"not all signed", "rejected"} /\ c \notin accepted =>
         ToSet(tx[c].inputs) \cap (listed[c] \ unspent) # {}

Inv == Types /\ \A c \in Callers : CallOK(c)

LEMMA NoTxType ==
    /\ NoTx \in Transaction /\ NoSource \in Source /\ ToSet(NoTx.inputs) = {}
BY DEF NoTx, NoSource, Transaction, Source, ToSet

LEMMA InvStarts == Init => Inv
<1> SUFFICES ASSUME Init PROVE Inv
  OBVIOUS
<1>1. Types
  BY NoTxType DEF Init, Types, Reasons
<1>2. ASSUME NEW c \in Callers
      PROVE  CallOK(c)
  BY NoTxType DEF Init, CallOK
<1> QED
  BY <1>1, <1>2 DEF Inv

\* What a caller relies on is its own, but for the outputs that are unspent.
LEMMA OthersDoNotMatter ==
    ASSUME Types, NEW c \in Callers, CallOK(c),
           pc'[c] = pc[c], err'[c] = err[c], listed'[c] = listed[c],
           asked'[c] = asked[c], source'[c] = source[c], tx'[c] = tx[c],
           unspent' \subseteq unspent, c \in accepted' <=> c \in accepted
    PROVE  CallOK(c)'
BY DEF CallOK, Offered

\* A call that fails keeps what it has, and needs only a reason.
LEMMA FailsWithReason ==
    ASSUME Types, NEW c \in Callers, CallOK(c), NEW e \in Reasons, Fail(c, e),
           listed' = listed, asked' = asked, tx' = tx,
           e = "insufficient" =>
             \A U \in SUBSET Offered(c) : U # {} => ~Covers(U, asked[c]),
           e \in {"not all signed", "rejected"} /\ c \notin accepted =>
             ToSet(tx[c].inputs) \cap (listed[c] \ unspent) # {},
           unspent' = unspent, accepted' = accepted
    PROVE  CallOK(c)'
<1>1. pc'[c] = "failed" /\ err'[c] = e
  BY DEF Fail, Types
<1> QED
  BY <1>1 DEF CallOK, Offered

LEMMA CreateTransactionKeepsInv ==
    ASSUME Inv, NEW c \in Callers, NEW outputs \in Payments,
           CreateTransaction(c, outputs)
    PROVE  Inv'
<1> DEFINE utxos == unspent \cap Spendable
<1>1. Types /\ \A d \in Callers : CallOK(d)
  BY DEF Inv
<1>2. utxos = resultsToUtxos(unspent, TRUE) /\ utxos \in SUBSET Utxo
      /\ outputs \in Seq(Nat)
  BY <1>1, PaymentsAssumption DEF resultsToUtxos, Types
<1>3. pc[c] = "idle" /\ tx[c] = NoTx /\ err[c] = "none"
      /\ tx' = tx /\ unspent' = unspent /\ accepted' = accepted
  BY <1>1 DEF CreateTransaction, CallOK
<1>4. CASE Fail(c, "rpc") /\ UNCHANGED <<listed, asked, source>>
  <2>1. Types'
    BY <1>1, <1>3, <1>4 DEF Types, Reasons, Fail
  <2>2. CallOK(c)'
    BY <1>1, <1>3, <1>4, FailsWithReason DEF Reasons
  <2>3. ASSUME NEW d \in Callers, d # c
        PROVE  CallOK(d)'
    BY <1>1, <1>3, <1>4, <2>3, OthersDoNotMatter DEF Types, Reasons, Fail
  <2> QED
    BY <2>1, <2>2, <2>3 DEF Inv
<1>5. CASE /\ listed' = [listed EXCEPT ![c] = unspent]
           /\ asked' = [asked EXCEPT ![c] = outputs]
           /\ utxos = {} \/ outputs = <<>>
           /\ Fail(c, IF utxos = {} THEN "insufficient" ELSE "nothing to pay")
           /\ UNCHANGED source
  <2>1. Types'
    BY <1>1, <1>2, <1>3, <1>5 DEF Types, Reasons, Fail
  <2>2. CallOK(c)'
    <3>1. /\ pc'[c] = "failed" /\ tx'[c] = NoTx
          /\ err'[c] = IF utxos = {} THEN "insufficient" ELSE "nothing to pay"
          /\ listed'[c] \cap Spendable = utxos
      BY <1>1, <1>3, <1>5 DEF Types, Reasons, Fail
    <3> HIDE DEF utxos
    <3> QED
      BY <3>1, NoTxType DEF CallOK, Offered
  <2>3. ASSUME NEW d \in Callers, d # c
        PROVE  CallOK(d)'
    BY <1>1, <1>3, <1>5, <2>3, OthersDoNotMatter DEF Types, Reasons, Fail
  <2> QED
    BY <2>1, <2>2, <2>3 DEF Inv
<1>6. CASE /\ listed' = [listed EXCEPT ![c] = unspent]
           /\ asked' = [asked EXCEPT ![c] = outputs]
           /\ pc' = [pc EXCEPT ![c] = "choosing"]
           /\ \E s \in LargestFirst(utxos) :
                source' = [source EXCEPT ![c] =
                              makeInputSource(s, Paid(outputs) + Fee(1))]
           /\ UNCHANGED err
  <2>1. PICK s \in LargestFirst(utxos) :
          source' = [source EXCEPT ![c] =
                        makeInputSource(s, Paid(outputs) + Fee(1))]
    BY <1>6
  <2> DEFINE new == makeInputSource(s, Paid(outputs) + Fee(1))
  <2>2. new \in Source /\ SourceOK(new, utxos, outputs)
    BY <1>2, SourceStarts
  <2> HIDE DEF new
  <2>3. source' = [source EXCEPT ![c] = new]
    BY <2>1 DEF new
  <2>4. Types'
    BY <1>1, <1>2, <1>3, <1>6, <2>2, <2>3 DEF Types
  <2>5. CallOK(c)'
    <3>1. /\ pc'[c] = "choosing" /\ tx'[c] = NoTx /\ err'[c] = "none"
          /\ source'[c] = new /\ asked'[c] = outputs
          /\ listed'[c] \cap Spendable = utxos
      BY <1>1, <1>3, <1>6, <2>3 DEF Types
    <3> HIDE DEF utxos
    <3> QED
      BY <2>2, <3>1, NoTxType DEF CallOK, Offered
  <2>6. ASSUME NEW d \in Callers, d # c
        PROVE  CallOK(d)'
    BY <1>1, <1>3, <1>6, <2>3, <2>6, OthersDoNotMatter DEF Types
  <2> QED
    BY <2>4, <2>5, <2>6 DEF Inv
<1> QED
  BY <1>2, <1>4, <1>5, <1>6 DEF CreateTransaction

LEMMA TakeCreditKeepsInv ==
    ASSUME Inv, NEW c \in Callers, TakeCredit(c)
    PROVE  Inv'
<1>1. Types /\ \A d \in Callers : CallOK(d)
  BY DEF Inv
<1>2. /\ pc[c] = "choosing" /\ NeedsCredit(source[c])
      /\ source' = [source EXCEPT ![c] = NextCredit(source[c])]
      /\ UNCHANGED <<unspent, pc, listed, asked, tx, err, accepted>>
  BY DEF TakeCredit
<1>3. /\ source[c] \in Source /\ Offered(c) \in SUBSET Utxo
      /\ asked[c] \in Seq(Nat) /\ SourceOK(source[c], Offered(c), asked[c])
  BY <1>1, <1>2 DEF Types, Offered, CallOK
<1> DEFINE new == NextCredit(source[c])
<1>4. new \in Source /\ SourceOK(new, Offered(c), asked[c])
  BY <1>2, <1>3, CreditIsTaken
<1> HIDE DEF new
<1>5. source' = [source EXCEPT ![c] = new] /\ source'[c] = new
  BY <1>1, <1>2 DEF new, Types
<1>6. Types'
  BY <1>1, <1>2, <1>4, <1>5 DEF Types
<1>7. CallOK(c)'
  BY <1>1, <1>2, <1>4, <1>5 DEF CallOK, Offered
<1>8. ASSUME NEW d \in Callers, d # c
      PROVE  CallOK(d)'
  BY <1>1, <1>2, <1>5, <1>8, OthersDoNotMatter DEF Types
<1> QED
  BY <1>6, <1>7, <1>8 DEF Inv

LEMMA NewUnsignedTransactionKeepsInv ==
    ASSUME Inv, NEW c \in Callers, NewUnsignedTransaction(c)
    PROVE  Inv'
<1> DEFINE got == source[c]
           fee == Fee(Len(got.inputs))
           rest == got.total - Paid(asked[c]) - fee
<1>1. Types /\ \A d \in Callers : CallOK(d)
  BY DEF Inv
<1>2. /\ pc[c] = "choosing" /\ ~NeedsCredit(got)
      /\ UNCHANGED <<unspent, listed, asked, accepted>>
  BY DEF NewUnsignedTransaction
<1>3. /\ got \in Source /\ Offered(c) \in SUBSET Utxo /\ asked[c] \in Seq(Nat)
      /\ SourceOK(got, Offered(c), asked[c])
      /\ err[c] = "none" /\ tx[c] = NoTx
  BY <1>1, <1>2 DEF Types, Offered, CallOK
<1>4. CASE got.total < got.target /\ Fail(c, "insufficient")
           /\ UNCHANGED <<source, tx>>
  <2>1. Types'
    BY <1>1, <1>2, <1>4 DEF Types, Reasons, Fail
  <2>2. CallOK(c)'
    <3>1. \A U \in SUBSET Offered(c) : U # {} => ~Covers(U, asked[c])
      BY <1>2, <1>3, <1>4, PoorIsPoor
    <3> QED
      BY <1>1, <1>2, <1>4, <3>1, FailsWithReason DEF Reasons
  <2>3. ASSUME NEW d \in Callers, d # c
        PROVE  CallOK(d)'
    BY <1>1, <1>2, <1>4, <2>3, OthersDoNotMatter DEF Types, Fail
  <2> QED
    BY <2>1, <2>2, <2>3 DEF Inv
<1>5. CASE /\ source' = [source EXCEPT ![c].target = Paid(asked[c]) + fee]
           /\ UNCHANGED <<pc, tx, err>>
  <2> DEFINE new == [got EXCEPT !.target = Paid(asked[c]) + fee]
  <2>1. new \in Source /\ SourceOK(new, Offered(c), asked[c])
    BY <1>3, SourceIsAskedAgain
  <2>2. source' = [source EXCEPT ![c] = new]
    BY <1>5
  <2> HIDE DEF new
  <2>3. source'[c] = new /\ pc' = pc /\ tx' = tx /\ err' = err
    BY <1>1, <1>5, <2>2 DEF Types
  <2>4. Types'
    BY <1>1, <1>2, <2>1, <2>2, <2>3 DEF Types
  <2>5. CallOK(c)'
    BY <1>1, <1>2, <2>1, <2>3 DEF CallOK, Offered
  <2>6. ASSUME NEW d \in Callers, d # c
        PROVE  CallOK(d)'
    BY <1>1, <1>2, <2>2, <2>3, <2>6, OthersDoNotMatter DEF Types
  <2> QED
    BY <2>4, <2>5, <2>6 DEF Inv
<1>6. CASE /\ rest >= 0
           /\ tx' = [tx EXCEPT ![c] =
                 [inputs |-> got.inputs, outputs |-> asked[c],
                  change |-> IF rest < Dust THEN 0 ELSE rest]]
           /\ pc' = [pc EXCEPT ![c] = "created"]
           /\ UNCHANGED <<source, err>>
  <2> DEFINE new == Authored(got, asked[c])
  <2>1. /\ new \in Transaction /\ TxOK(new, Offered(c))
        /\ ToSet(new.inputs) \subseteq Offered(c)
    BY <1>3, <1>6, AuthoredWell
  <2>2. tx' = [tx EXCEPT ![c] = new]
    BY <1>6 DEF Authored
  <2> HIDE DEF new
  <2>3. /\ tx'[c] = new /\ pc'[c] = "created" /\ err'[c] = "none"
    BY <1>1, <1>3, <1>6, <2>2 DEF Types
  <2>4. Types'
    BY <1>1, <1>2, <1>6, <2>1, <2>2 DEF Types
  <2>5. CallOK(c)'
    BY <1>2, <2>1, <2>3 DEF CallOK, Offered
  <2>6. ASSUME NEW d \in Callers, d # c
        PROVE  CallOK(d)'
    BY <1>1, <1>2, <1>6, <2>2, <2>6, OthersDoNotMatter DEF Types
  <2> QED
    BY <2>4, <2>5, <2>6 DEF Inv
<1> QED
  BY <1>4, <1>5, <1>6 DEF NewUnsignedTransaction

\* The wallet's own checks: who is refused has lost an input.
LEMMA SignRawTransactionKeepsInv ==
    ASSUME Inv, NEW c \in Callers, SignRawTransaction(c)
    PROVE  Inv'
<1>1. Types /\ \A d \in Callers : CallOK(d)
  BY DEF Inv
<1>2. pc[c] = "created" /\ UNCHANGED <<unspent, listed, asked, source, tx, accepted>>
      /\ err[c] = "none" /\ ToSet(tx[c].inputs) \subseteq Offered(c)
  BY <1>1 DEF SignRawTransaction, CallOK
<1>3. ASSUME NEW d \in Callers, d # c, pc'[d] = pc[d], err'[d] = err[d]
      PROVE  CallOK(d)'
  BY <1>1, <1>2, <1>3, OthersDoNotMatter
<1>4. CASE Fail(c, "rpc")
  <2>1. Types'
    BY <1>1, <1>2, <1>4 DEF Types, Reasons, Fail
  <2>2. CallOK(c)'
    BY <1>1, <1>2, <1>4, FailsWithReason DEF Reasons
  <2> QED
    BY <1>1, <1>3, <1>4, <2>1, <2>2 DEF Inv, Types, Fail
<1>5. CASE /\ ~(ToSet(tx[c].inputs) \subseteq unspent \cap Spendable)
           /\ Fail(c, "not all signed")
  <2>1. Types'
    BY <1>1, <1>2, <1>5 DEF Types, Reasons, Fail
  <2>2. ToSet(tx[c].inputs) \cap (listed[c] \ unspent) # {}
    BY <1>2, <1>5 DEF Offered
  <2>3. CallOK(c)'
    BY <1>1, <1>2, <1>5, <2>2, FailsWithReason DEF Reasons
  <2> QED
    BY <1>1, <1>3, <1>5, <2>1, <2>3 DEF Inv, Types, Fail
<1>6. CASE pc' = [pc EXCEPT ![c] = "signed"] /\ UNCHANGED err
  <2>1. Types'
    BY <1>1, <1>2, <1>6 DEF Types
  <2>2. pc'[c] = "signed"
    BY <1>1, <1>6 DEF Types
  <2>3. CallOK(c)'
    BY <1>1, <1>2, <1>6, <2>2 DEF CallOK, Offered
  <2> QED
    BY <1>1, <1>3, <1>6, <2>1, <2>3 DEF Inv, Types
<1> QED
  BY <1>4, <1>5, <1>6 DEF SignRawTransaction

LEMMA SendTxKeepsInv ==
    ASSUME Inv, NEW c \in Callers, SendTx(c)
    PROVE  Inv'
<1>1. Types /\ \A d \in Callers : CallOK(d)
  BY DEF Inv
<1>2. pc[c] = "signed" /\ UNCHANGED <<listed, asked, source, tx>>
      /\ err[c] = "none" /\ ToSet(tx[c].inputs) \subseteq Offered(c)
  BY <1>1 DEF SendTx, CallOK
<1>3. ASSUME NEW d \in Callers, d # c, pc'[d] = pc[d], err'[d] = err[d],
             unspent' \subseteq unspent, d \in accepted' <=> d \in accepted
      PROVE  CallOK(d)'
  BY <1>1, <1>2, <1>3, OthersDoNotMatter
<1>4. CASE Fail(c, "rpc") /\ UNCHANGED <<unspent, accepted>>
  <2>1. Types'
    BY <1>1, <1>2, <1>4 DEF Types, Reasons, Fail
  <2>2. CallOK(c)'
    BY <1>1, <1>2, <1>4, FailsWithReason DEF Reasons
  <2> QED
    BY <1>1, <1>3, <1>4, <2>1, <2>2 DEF Inv, Types, Fail
<1>5. CASE /\ c \in accepted \/ ~(ToSet(tx[c].inputs) \subseteq unspent)
           /\ Fail(c, "rejected") /\ UNCHANGED <<unspent, accepted>>
  <2>1. Types'
    BY <1>1, <1>2, <1>5 DEF Types, Reasons, Fail
  <2>2. c \notin accepted => ToSet(tx[c].inputs) \cap (listed[c] \ unspent) # {}
    BY <1>2, <1>5 DEF Offered
  <2>3. CallOK(c)'
    BY <1>1, <1>2, <1>5, <2>2, FailsWithReason DEF Reasons
  <2> QED
    BY <1>1, <1>3, <1>5, <2>1, <2>3 DEF Inv, Types, Fail
<1>6. CASE /\ unspent' = unspent \ ToSet(tx[c].inputs)
           /\ accepted' = accepted \cup {c}
           /\ pc' = [pc EXCEPT ![c] = "sent"] \/ UNCHANGED pc
           /\ UNCHANGED err
  <2>1. Types'
    BY <1>1, <1>2, <1>6 DEF Types
  <2>2. pc'[c] \in {"sent", "signed"}
    BY <1>1, <1>2, <1>6 DEF Types
  <2>3. CallOK(c)'
    BY <1>1, <1>2, <1>6, <2>2 DEF CallOK, Offered
  <2>4. unspent' \subseteq unspent
    BY <1>6
  <2>5. \A d \in Callers : d # c =>
           pc'[d] = pc[d] /\ err'[d] = err[d] /\ (d \in accepted' <=> d \in accepted)
    BY <1>1, <1>6 DEF Types
  <2> QED
    BY <1>3, <2>1, <2>3, <2>4, <2>5 DEF Inv
<1> QED
  BY <1>4, <1>5, <1>6 DEF SendTx

LEMMA FinishKeepsInv ==
    ASSUME Inv, NEW c \in Callers, Finish(c)
    PROVE  Inv'
<1>1. Types /\ \A d \in Callers : CallOK(d)
  BY DEF Inv
<1>2. Types'
  <2>1. /\ pc' = [pc EXCEPT ![c] = "idle"] /\ err' = [err EXCEPT ![c] = "none"]
        /\ listed' = [listed EXCEPT ![c] = {}] /\ tx' = [tx EXCEPT ![c] = NoTx]
        /\ asked' = [asked EXCEPT ![c] = <<>>]
        /\ source' = [source EXCEPT ![c] = NoSource] /\ unspent' = unspent
        /\ accepted' = accepted \ {c}
    BY DEF Finish
  <2>2. asked' \in [Callers -> Seq(Nat)]
    <3>1. <<>> \in Seq(Nat)
      OBVIOUS
    <3> QED
      BY <1>1, <2>1, <3>1 DEF Types
  <2> QED
    BY <1>1, <2>1, <2>2, NoTxType DEF Types, Reasons
<1>3. CallOK(c)'
  <2>1. pc'[c] = "idle" /\ tx'[c] = NoTx /\ err'[c] = "none"
    BY <1>1 DEF Finish, Types
  <2> QED
    BY <2>1, NoTxType DEF CallOK
<1>4. ASSUME NEW d \in Callers, d # c
      PROVE  CallOK(d)'
  BY <1>1, <1>4, OthersDoNotMatter DEF Finish, Types
<1> QED
  BY <1>2, <1>3, <1>4 DEF Inv

LEMMA SpendElsewhereKeepsInv ==
    ASSUME Inv, NEW u \in Utxo, SpendElsewhere(u)
    PROVE  Inv'
<1>1. Types /\ \A d \in Callers : CallOK(d)
  BY DEF Inv
<1>2. /\ unspent' \subseteq unspent
      /\ UNCHANGED <<pc, listed, asked, source, tx, err, accepted>>
  BY DEF SpendElsewhere
<1>3. Types'
  BY <1>1, <1>2 DEF Types
<1>4. ASSUME NEW d \in Callers
      PROVE  CallOK(d)'
  BY <1>1, <1>2, OthersDoNotMatter
<1> QED
  BY <1>3, <1>4 DEF Inv

\* The invariant holds of every wallet, payment and fee (client.go:143-273).
THEOREM InvAlwaysHolds == Spec => []Inv
<1>1. ASSUME Inv, [Next]_vars
      PROVE  Inv'
  <2>1. CASE Next
    BY <1>1, <2>1, CreateTransactionKeepsInv, TakeCreditKeepsInv,
       NewUnsignedTransactionKeepsInv, SignRawTransactionKeepsInv,
       SendTxKeepsInv, FinishKeepsInv, SpendElsewhereKeepsInv DEF Next
  <2>2. CASE UNCHANGED vars
    BY <1>1, <2>2 DEF vars, Inv, Types, CallOK, Offered
  <2> QED
    BY <1>1, <2>1, <2>2
<1> QED
  BY <1>1, InvStarts, PTL DEF Spec

\* Every output is spent once and the fee is the one its size calls for, for
\* every wallet and every fee (client.go:143-163).
THEOREM FeesAreCovered == Spec => []FeeIsCovered
<1>1. Inv => FeeIsCovered
  BY DEF Inv, CallOK, TxOK, FeeIsCovered, Made, Total
<1> QED
  BY <1>1, InvAlwaysHolds, PTL

\* Taking the largest first never takes more inputs than a payment needs
\* (client.go:233-235).
THEOREM InputsAreFewest == Spec => []FewestInputs
<1>1. Inv => FewestInputs
  <2> SUFFICES ASSUME Inv, NEW c \in Callers, tx[c] # NoTx,
                      NEW U \in SUBSET (listed[c] \cap Spendable),
                      U # {}, Covers(U, tx[c].outputs)
               PROVE  Cardinality(U) >= Len(tx[c].inputs)
    BY DEF FewestInputs, Made
  <2> QED
    BY DEF Inv, CallOK, TxOK, NoneSmaller, Offered
<1> QED
  BY <1>1, InvAlwaysHolds, PTL

\* Who is told that the wallet is too poor could not have been paid for
\* (client.go:152, 171).
THEOREM PovertyIsTrue == Spec => []InsufficientIsTrue
<1>1. Inv => InsufficientIsTrue
  BY DEF Inv, CallOK, Offered, InsufficientIsTrue
<1> QED
  BY <1>1, InvAlwaysHolds, PTL

\* A transaction that could not be signed or sent lost an input to another since
\* it was listed, unless the node had taken it and its answer was lost, for any
\* number of callers (client.go:221, 263-273).
THEOREM OnlyOthersTake == Spec => []LosesOnlyToOthers
<1>1. Inv => LosesOnlyToOthers
  BY DEF Inv, CallOK, LosesOnlyToOthers
<1> QED
  BY <1>1, InvAlwaysHolds, PTL

=============================================================================
