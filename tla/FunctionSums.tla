----------------------------- MODULE FunctionSums -----------------------------
(***************************************************************************)
(* Facts about SumFunctionOnSet, the sum of a function over a finite set,  *)
(* which the balances and the ledger of BankDatabase are added up with.    *)
(* The sum is defined by recursion over the subsets of the set, so each    *)
(* fact is proved by looking at a smallest subset that would violate it.   *)
(***************************************************************************)
EXTENDS Functions, FiniteSetTheorems, TLAPS

Pick(s) == CHOOSE x \in s : TRUE
Rest(s) == s \ {Pick(s)}

\* iter adds up f over the subsets of S.
IsSum(f, S, iter) ==
    iter = [s \in SUBSET S |-> IF s = {} THEN 0 ELSE f[Pick(s)] + iter[Rest(s)]]

LEMMA SumUnfolds ==
    ASSUME NEW f, NEW S
    PROVE  SumFunctionOnSet(f, S) = (CHOOSE iter : IsSum(f, S, iter))[S]
BY DEF SumFunctionOnSet, FoldFunctionOnSet, MapThenFoldSet, IsSum, Pick, Rest

LEMMA RestIsSmaller ==
    ASSUME NEW s, s # {} PROVE Pick(s) \in s /\ Rest(s) \subseteq s /\ Rest(s) # s
BY DEF Pick, Rest

\* A set of subsets of a finite set has a smallest member.
LEMMA SmallestSubset ==
    ASSUME NEW S, IsFiniteSet(S), NEW B, B \subseteq SUBSET S, B # {}
    PROVE  \E T \in B : \A U \in SUBSET T : U # T => U \notin B
<1>1. FiniteSubsetsOf(S) = SUBSET S
  BY FS_FiniteSubsetsOfFinite
<1>2. IsWellFoundedOn(StrictSubsetOrdering(S), SUBSET S)
  BY <1>1, FS_StrictSubsetOrderingWellFounded
<1>3. PICK T \in B : \A U \in B : <<U, T>> \notin StrictSubsetOrdering(S)
  BY <1>2, WFMin
<1> QED BY <1>3 DEF StrictSubsetOrdering

\* Two functions that add up f agree where both are defined.
LEMMA SumUnique ==
    ASSUME NEW f, NEW S, IsFiniteSet(S), NEW T, NEW g, NEW h, IsSum(f, S, g), IsSum(f, T, h),
           NEW V, V \subseteq S, V \subseteq T
    PROVE  g[V] = h[V]
<1> DEFINE B == {W \in SUBSET S : W \subseteq T /\ g[W] # h[W]}
<1> SUFFICES ASSUME B # {} PROVE FALSE
  OBVIOUS
<1>1. PICK W \in B : \A U \in SUBSET W : U # W => U \notin B
  <2> B \subseteq SUBSET S
    OBVIOUS
  <2> HIDE DEF B
  <2> QED BY SmallestSubset
<1>2. /\ g[W] = IF W = {} THEN 0 ELSE f[Pick(W)] + g[Rest(W)]
      /\ h[W] = IF W = {} THEN 0 ELSE f[Pick(W)] + h[Rest(W)]
  BY DEF IsSum
<1>3. W # {} => g[Rest(W)] = h[Rest(W)]
  BY <1>1, RestIsSmaller
<1> QED BY <1>2, <1>3

Sum(f, S) == (CHOOSE iter : IsSum(f, S, iter))[S]

LEMMA SumExists ==
    ASSUME NEW f, NEW S, IsFiniteSet(S) PROVE \E iter : IsSum(f, S, iter)
<1> DEFINE B == {T \in SUBSET S : ~ \E iter : IsSum(f, T, iter)}
<1> SUFFICES ASSUME B # {} PROVE FALSE
  OBVIOUS
<1>1. PICK T \in B : \A U \in SUBSET T : U # T => U \notin B
  <2> B \subseteq SUBSET S
    OBVIOUS
  <2> HIDE DEF B
  <2> QED BY SmallestSubset
<1> DEFINE it(U) == CHOOSE iter : IsSum(f, U, iter)
           next(V) == IF V = {} THEN 0 ELSE f[Pick(V)] + Sum(f, Rest(V))
           g == [V \in SUBSET T |-> next(V)]
<1>2. \A U \in SUBSET T : U # T => IsSum(f, U, it(U))
  BY <1>1
<1>3. ASSUME NEW V \in SUBSET T, V # {} PROVE Sum(f, Rest(V)) = g[Rest(V)]
  <2> DEFINE W == Rest(V)
  <2>1. W \in SUBSET T /\ W # T
    BY <1>3, RestIsSmaller
  <2>2. IsSum(f, W, it(W))
    BY <1>2, <2>1
  <2>3. Sum(f, W) = IF W = {} THEN 0 ELSE f[Pick(W)] + it(W)[Rest(W)]
    BY <2>2 DEF IsSum, Sum
  <2>4. ASSUME W # {} PROVE it(W)[Rest(W)] = Sum(f, Rest(W))
    <3>1. Rest(W) \subseteq W /\ Rest(W) \in SUBSET T /\ Rest(W) # T
      BY <2>1, <2>4, RestIsSmaller
    <3>2. IsSum(f, Rest(W), it(Rest(W)))
      BY <1>2, <3>1
    <3>3. IsFiniteSet(W)
      BY <2>1, FS_Subset
    <3>4. it(W)[Rest(W)] = it(Rest(W))[Rest(W)]
      BY <2>2, <3>1, <3>2, <3>3, SumUnique
    <3> QED BY <3>4 DEF Sum
  <2>5. g[W] = next(W)
    BY <2>1
  <2> QED BY <2>3, <2>4, <2>5
<1>4. IsSum(f, T, g)
  <2>1. \A V \in SUBSET T : next(V) = IF V = {} THEN 0 ELSE f[Pick(V)] + g[Rest(V)]
    BY <1>3
  <2> QED BY <2>1 DEF IsSum
<1> QED BY <1>4

------------------------------------------------------------------------------
(* The facts the other modules use. *)

\* A sum takes one element, any other of its sums is over a smaller set.
LEMMA SumOfRest ==
    ASSUME NEW f, NEW S, IsFiniteSet(S)
    PROVE  SumFunctionOnSet(f, S) =
               IF S = {} THEN 0 ELSE f[Pick(S)] + SumFunctionOnSet(f, Rest(S))
<1> DEFINE it(U) == CHOOSE iter : IsSum(f, U, iter)
<1>1. IsSum(f, S, it(S))
  BY SumExists
<1>2. it(S)[S] = IF S = {} THEN 0 ELSE f[Pick(S)] + it(S)[Rest(S)]
  BY <1>1 DEF IsSum
<1>3. ASSUME S # {} PROVE it(S)[Rest(S)] = it(Rest(S))[Rest(S)]
  <2>1. Rest(S) \subseteq S /\ IsFiniteSet(Rest(S))
    BY <1>3, RestIsSmaller, FS_Subset
  <2>2. IsSum(f, Rest(S), it(Rest(S)))
    BY <2>1, SumExists
  <2> QED BY <1>1, <2>1, <2>2, SumUnique
<1> QED BY <1>2, <1>3, SumUnfolds

\* Nothing adds up to zero, as the ledger of a new account (initdb.sql) does.
THEOREM SumEmpty == ASSUME NEW f PROVE SumFunctionOnSet(f, {}) = 0
BY SumOfRest, FS_EmptySet

\* A sum of integers is one: amounts and balances are added up in cents.
THEOREM SumInt ==
    ASSUME NEW f, NEW S, IsFiniteSet(S), \A x \in S : f[x] \in Int
    PROVE  SumFunctionOnSet(f, S) \in Int
<1> DEFINE B == {T \in SUBSET S : SumFunctionOnSet(f, T) \notin Int}
<1> SUFFICES ASSUME B # {} PROVE FALSE
  OBVIOUS
<1>1. PICK T \in B : \A U \in SUBSET T : U # T => U \notin B
  <2> B \subseteq SUBSET S
    OBVIOUS
  <2> HIDE DEF B
  <2> QED BY SmallestSubset
<1>2. SumFunctionOnSet(f, T) = IF T = {} THEN 0 ELSE f[Pick(T)] + SumFunctionOnSet(f, Rest(T))
  BY FS_Subset, SumOfRest
<1>3. T # {} => SumFunctionOnSet(f, Rest(T)) \in Int /\ f[Pick(T)] \in Int
  BY <1>1, RestIsSmaller
<1> QED BY <1>2, <1>3

\* Any element may be the one that is taken: the two accounts of a transfer
\* (transferMoney.sql) can be taken out of the sum of all balances.
THEOREM SumRemove ==
    ASSUME NEW f, NEW S, IsFiniteSet(S), \A x \in S : f[x] \in Int, NEW x \in S
    PROVE  SumFunctionOnSet(f, S) = f[x] + SumFunctionOnSet(f, S \ {x})
<1> DEFINE Total(T) == SumFunctionOnSet(f, T)
           B == {T \in SUBSET S : \E y \in T : Total(T) # f[y] + Total(T \ {y})}
<1> SUFFICES ASSUME B # {} PROVE FALSE
  OBVIOUS
<1>1. PICK T \in B : \A U \in SUBSET T : U # T => U \notin B
  <2> B \subseteq SUBSET S
    OBVIOUS
  <2> HIDE DEF B
  <2> QED BY SmallestSubset
<1>2. PICK y \in T : Total(T) # f[y] + Total(T \ {y})
  OBVIOUS
<1> DEFINE c == Pick(T)
           R == Rest(T)
           Y == T \ {y}
<1>3. c \in T /\ R = T \ {c} /\ T \subseteq S
  BY <1>2, RestIsSmaller DEF Rest
<1>4. IsFiniteSet(T) /\ IsFiniteSet(R) /\ IsFiniteSet(Y) /\ IsFiniteSet(R \ {y})
  BY <1>3, FS_Subset
<1>5. Total(T) = f[c] + Total(R)
  BY <1>2, <1>4, SumOfRest
<1> HIDE DEF c, R
<1>6. c # y
  BY <1>2, <1>3, <1>5
<1>7. Total(R) = f[y] + Total(R \ {y})
  BY <1>1, <1>2, <1>3, <1>6
<1>8. Total(Y) = f[c] + Total(Y \ {c})
  BY <1>1, <1>2, <1>3, <1>6
<1>9. R \ {y} = Y \ {c}
  BY <1>3
<1>10. Total(R \ {y}) \in Int /\ f[c] \in Int /\ f[y] \in Int
  BY <1>2, <1>3, <1>4, SumInt
<1>11. Total(Y \ {c}) = Total(R \ {y})
  BY <1>9
<1>12. f[c] + (f[y] + Total(R \ {y})) = f[y] + (f[c] + Total(R \ {y}))
  BY <1>10
<1>13. Total(T) = f[y] + Total(Y)
  BY <1>5, <1>7, <1>8, <1>11, <1>12
<1> QED BY <1>2, <1>13

\* A new entry of the ledger (INSERT INTO transactions) adds its amount.
THEOREM SumAdd ==
    ASSUME NEW f, NEW S, IsFiniteSet(S), NEW x, x \notin S, f[x] \in Int,
           \A y \in S : f[y] \in Int
    PROVE  SumFunctionOnSet(f, S \cup {x}) = SumFunctionOnSet(f, S) + f[x]
<1>1. PICK U : U = S \cup {x}
  OBVIOUS
<1>2. IsFiniteSet(U) /\ U \ {x} = S
  BY <1>1, FS_AddElement
<1>3. \A y \in U : f[y] \in Int
  BY <1>1
<1>4. SumFunctionOnSet(f, U) = f[x] + SumFunctionOnSet(f, S)
  BY <1>1, <1>2, <1>3, SumRemove
<1>5. SumFunctionOnSet(f, S) \in Int
  BY SumInt
<1> QED BY <1>1, <1>4, <1>5

\* Only the values on the set count: accounts no transfer names add up as before.
THEOREM SumSame ==
    ASSUME NEW f, NEW g, NEW S, IsFiniteSet(S), \A x \in S : f[x] = g[x]
    PROVE  SumFunctionOnSet(f, S) = SumFunctionOnSet(g, S)
<1> DEFINE B == {T \in SUBSET S : SumFunctionOnSet(f, T) # SumFunctionOnSet(g, T)}
<1> SUFFICES ASSUME B # {} PROVE FALSE
  OBVIOUS
<1>1. PICK T \in B : \A U \in SUBSET T : U # T => U \notin B
  <2> B \subseteq SUBSET S
    OBVIOUS
  <2> HIDE DEF B
  <2> QED BY SmallestSubset
<1>2. /\ SumFunctionOnSet(f, T) = IF T = {} THEN 0 ELSE f[Pick(T)] + SumFunctionOnSet(f, Rest(T))
      /\ SumFunctionOnSet(g, T) = IF T = {} THEN 0 ELSE g[Pick(T)] + SumFunctionOnSet(g, Rest(T))
  BY FS_Subset, SumOfRest
<1>3. T # {} => SumFunctionOnSet(f, Rest(T)) = SumFunctionOnSet(g, Rest(T)) /\ f[Pick(T)] = g[Pick(T)]
  BY <1>1, RestIsSmaller
<1> QED BY <1>2, <1>3
==============================================================================
