---------------------------- MODULE DataTheorems ----------------------------
(* Sums of weights over finite sets, as MapThenSumSet and SumFunction add  *)
(* them up, the greatest common divisor that Euclid's algorithm finds,     *)
(* ranks in a finite order, folds in any order of the elements, quotients, *)
(* and the largest of finitely many numbers. The proofs go by a smallest   *)
(* counterexample, for which the strict subsets of a finite set are        *)
(* well-founded.                                                           *)
EXTENDS Integers, FiniteSetsExt, Functions, FiniteSetTheorems, TLAPS

OneOf(s) == CHOOSE x \in s : TRUE

\* g has the sum of every subset of S.
Sums(g, w, S) ==
    g = [s \in SUBSET S |-> IF s = {} THEN 0 ELSE w[OneOf(s)] + g[s \ {OneOf(s)}]]

SumOf(w, S) == (CHOOSE g : Sums(g, w, S))[S]

LEMMA OneIsMember == ASSUME NEW s, s # {} PROVE OneOf(s) \in s
  BY DEF OneOf

\* Among sets of subsets of a finite set there is one without a smaller one.
LEMMA MinimalSubset ==
    ASSUME NEW S, IsFiniteSet(S), NEW B, B \subseteq SUBSET S, B # {}
    PROVE  \E U \in B : \A V \in B : V \subseteq U => V = U
  <1>1. B \subseteq FiniteSubsetsOf(S)
    BY FS_Subset DEF FiniteSubsetsOf
  <1>2. PICK U \in B : \A V \in B : ~(<<V, U>> \in StrictSubsetOrdering(S))
    BY <1>1, FS_StrictSubsetOrderingWellFounded, WFMin
  <1>3. ASSUME NEW V \in B, V \subseteq U, V # U
        PROVE  FALSE
    BY <1>2, <1>3 DEF StrictSubsetOrdering
  <1> QED BY <1>2, <1>3

\* A set of numbers up to m has a least one.
LEMMA LeastExists ==
    ASSUME NEW m, m \in Nat, NEW Bad, Bad \subseteq 0..m, Bad # {}
    PROVE  \E p \in Bad : \A t \in Bad : p <= t
  <1> DEFINE S == 0..m
             B == {0..p : p \in Bad}
  <1>1. IsFiniteSet(S)
    BY FS_Interval
  <1>2. PICK U \in B : \A V \in B : V \subseteq U => V = U
    <2>1. B \subseteq SUBSET S
      OBVIOUS
    <2>2. B # {}
      OBVIOUS
    <2> HIDE DEF B, S
    <2> QED BY <1>1, <2>1, <2>2, MinimalSubset
  <1>3. PICK p \in Bad : U = 0..p
    OBVIOUS
  <1>4. ASSUME NEW t \in Bad, t < p PROVE FALSE
    <2>1. 0..t \in B /\ 0..t \subseteq 0..p /\ p \in 0..p /\ p \notin 0..t
      BY <1>4
    <2> QED BY <1>2, <1>3, <2>1
  <1> QED BY <1>4

LEMMA SumsValue ==
    ASSUME NEW S, NEW w, NEW g, Sums(g, w, S), NEW U, U \subseteq S, U # {}
    PROVE  g[U] = w[OneOf(U)] + g[U \ {OneOf(U)}]
  BY DEF Sums

\* Two such functions agree where both are defined.
LEMMA SumsAgree ==
    ASSUME NEW S, IsFiniteSet(S), NEW T, NEW w, NEW g, NEW h, Sums(g, w, S), Sums(h, w, T)
    PROVE  \A U : U \subseteq S /\ U \subseteq T => g[U] = h[U]
  <1> DEFINE B == {U \in SUBSET S : U \subseteq T /\ g[U] # h[U]}
  <1>1. SUFFICES ASSUME B # {} PROVE FALSE
    OBVIOUS
  <1>2. PICK U \in B : \A V \in B : V \subseteq U => V = U
    <2>1. B \subseteq SUBSET S
      OBVIOUS
    <2> HIDE DEF B
    <2> QED BY <1>1, <2>1, MinimalSubset
  <1>3. U # {}
    BY DEF Sums
  <1>4. OneOf(U) \in U
    BY <1>3, OneIsMember
  <1> DEFINE V == U \ {OneOf(U)}
  <1>5. V \subseteq U /\ V # U /\ V \in SUBSET S /\ V \subseteq T
    BY <1>4
  <1>6. g[V] = h[V]
    BY <1>2, <1>5
  <1>7. g[U] = w[OneOf(U)] + g[V] /\ h[U] = w[OneOf(U)] + h[V]
    BY <1>3 DEF Sums
  <1> QED BY <1>2, <1>6, <1>7

\* There is such a function for every finite set.
LEMMA SumsExist ==
    ASSUME NEW S, IsFiniteSet(S), NEW w
    PROVE  \E g : Sums(g, w, S)
  <1> DEFINE B == {U \in SUBSET S : ~ \E g : Sums(g, w, U)}
  <1>1. SUFFICES ASSUME B # {} PROVE FALSE
    OBVIOUS
  <1>2. PICK U \in B : \A V \in B : V \subseteq U => V = U
    <2>1. B \subseteq SUBSET S
      OBVIOUS
    <2> HIDE DEF B
    <2> QED BY <1>1, <2>1, MinimalSubset
  <1> DEFINE of(V) == CHOOSE g : Sums(g, w, V)
             G == [s \in SUBSET U |-> IF s = {} THEN 0
                      ELSE w[OneOf(s)] + of(s \ {OneOf(s)})[s \ {OneOf(s)}]]
  <1>3. ASSUME NEW V, V \subseteq U, V # U
        PROVE  Sums(of(V), w, V) /\ IsFiniteSet(V)
    <2>1. \E g : Sums(g, w, V)
      BY <1>2, <1>3
    <2>2. IsFiniteSet(V)
      BY <1>3, FS_Subset
    <2> QED BY <2>1, <2>2
  <1> HIDE DEF of
  <1>4. ASSUME NEW V, V \subseteq U, V # U
        PROVE  G[V] = of(V)[V]
    <2>1. CASE V = {}
      BY <1>3, <1>4, <2>1 DEF Sums
    <2>2. CASE V # {}
      <3>1. OneOf(V) \in V
        BY <2>2, OneIsMember
      <3> DEFINE W == V \ {OneOf(V)}
      <3>2. W \subseteq V /\ W \subseteq U /\ W # U
        BY <1>4, <3>1
      <3>3. of(V)[V] = w[OneOf(V)] + of(V)[W]
        BY <1>3, <1>4, <2>2, SumsValue
      <3>4. of(V)[W] = of(W)[W]
        BY <1>3, <1>4, <3>2, SumsAgree
      <3>5. G[V] = w[OneOf(V)] + of(W)[W]
        BY <1>4, <2>2
      <3> QED BY <3>3, <3>4, <3>5
    <2> QED BY <2>1, <2>2
  <1>5. ASSUME NEW s \in SUBSET U, s # {}
        PROVE  G[s] = w[OneOf(s)] + G[s \ {OneOf(s)}]
    <2>1. OneOf(s) \in s
      BY <1>5, OneIsMember
    <2>2. s \ {OneOf(s)} \subseteq U /\ s \ {OneOf(s)} # U
      BY <2>1
    <2>3. G[s \ {OneOf(s)}] = of(s \ {OneOf(s)})[s \ {OneOf(s)}]
      BY <1>4, <2>2
    <2> QED BY <1>5, <2>3
  <1>6. {} \in SUBSET U /\ G[{}] = 0
    OBVIOUS
  <1>7. G = [s \in SUBSET U |-> G[s]]
    OBVIOUS
  <1> HIDE DEF G
  <1>8. [s \in SUBSET U |-> G[s]] =
        [s \in SUBSET U |-> IF s = {} THEN 0 ELSE w[OneOf(s)] + G[s \ {OneOf(s)}]]
    BY <1>5, <1>6
  <1>9. Sums(G, w, U)
    BY <1>7, <1>8 DEF Sums
  <1> QED BY <1>2, <1>9

LEMMA ChosenSums ==
    ASSUME NEW S, IsFiniteSet(S), NEW w
    PROVE  Sums(CHOOSE g : Sums(g, w, S), w, S)
  BY SumsExist

\* Whatever sums the subsets of S has the sum of S.
LEMMA SumsGive ==
    ASSUME NEW S, IsFiniteSet(S), NEW w, NEW g, Sums(g, w, S)
    PROVE  g[S] = SumOf(w, S)
  <1> DEFINE h == CHOOSE f : Sums(f, w, S)
  <1>1. Sums(h, w, S)
    BY ChosenSums
  <1>2. SumOf(w, S) = h[S]
    BY DEF SumOf
  <1> HIDE DEF h
  <1> QED BY <1>1, <1>2, SumsAgree

\* The sum of a set is that of the set without the element chosen and its weight.
LEMMA SumStep ==
    ASSUME NEW S, IsFiniteSet(S), NEW w, S # {}
    PROVE  SumOf(w, S) = w[OneOf(S)] + SumOf(w, S \ {OneOf(S)})
  <1> DEFINE T == S \ {OneOf(S)}
             g == CHOOSE f : Sums(f, w, S)
             h == CHOOSE f : Sums(f, w, T)
  <1>1. IsFiniteSet(T)
    BY FS_Subset
  <1>2. Sums(g, w, S) /\ Sums(h, w, T)
    BY <1>1, ChosenSums
  <1>3. SumOf(w, S) = g[S] /\ SumOf(w, T) = h[T]
    BY DEF SumOf
  <1> HIDE DEF g, h
  <1>4. g[T] = h[T]
    BY <1>2, SumsAgree
  <1>5. g[S] = w[OneOf(S)] + g[T]
    BY <1>2 DEF Sums
  <1> QED BY <1>3, <1>4, <1>5

\* The empty sum.
LEMMA SumEmpty == ASSUME NEW w PROVE SumOf(w, {}) = 0
  <1> DEFINE g == CHOOSE f : Sums(f, w, {})
  <1>1. Sums(g, w, {})
    BY FS_EmptySet, ChosenSums
  <1>2. SumOf(w, {}) = g[{}]
    BY DEF SumOf
  <1> HIDE DEF g
  <1> QED BY <1>1, <1>2 DEF Sums

LEMMA SumIsInt ==
    ASSUME NEW S, IsFiniteSet(S), NEW w, \A x \in S : w[x] \in Int
    PROVE  SumOf(w, S) \in Int
  <1> DEFINE B == {U \in SUBSET S : SumOf(w, U) \notin Int}
  <1>1. SUFFICES ASSUME B # {} PROVE FALSE
    OBVIOUS
  <1>2. PICK U \in B : \A V \in B : V \subseteq U => V = U
    <2>1. B \subseteq SUBSET S
      OBVIOUS
    <2> HIDE DEF B
    <2> QED BY <1>1, <2>1, MinimalSubset
  <1>3. U # {}
    BY SumEmpty
  <1>4. OneOf(U) \in U
    BY <1>3, OneIsMember
  <1>5. SumOf(w, U \ {OneOf(U)}) \in Int
    BY <1>2, <1>4
  <1>6. IsFiniteSet(U)
    BY FS_Subset
  <1>7. SumOf(w, U) = w[OneOf(U)] + SumOf(w, U \ {OneOf(U)})
    BY <1>3, <1>6, SumStep
  <1> QED BY <1>2, <1>4, <1>5, <1>7

\* Any element may be taken out first.
LEMMA SumRemove ==
    ASSUME NEW S, IsFiniteSet(S), NEW w, \A x \in S : w[x] \in Int, NEW y \in S
    PROVE  SumOf(w, S) = w[y] + SumOf(w, S \ {y})
  <1> DEFINE B == {U \in SUBSET S : \E z \in U : SumOf(w, U) # w[z] + SumOf(w, U \ {z})}
  <1>1. SUFFICES ASSUME B # {} PROVE FALSE
    OBVIOUS
  <1>2. PICK U \in B : \A V \in B : V \subseteq U => V = U
    <2>1. B \subseteq SUBSET S
      OBVIOUS
    <2> HIDE DEF B
    <2> QED BY <1>1, <2>1, MinimalSubset
  <1>3. PICK z \in U : SumOf(w, U) # w[z] + SumOf(w, U \ {z})
    OBVIOUS
  <1> DEFINE p == OneOf(U)
  <1>4. p \in U
    BY <1>3, OneIsMember
  <1> HIDE DEF p
  <1>5. IsFiniteSet(U) /\ IsFiniteSet(U \ {z}) /\ IsFiniteSet(U \ {p}) /\ U \subseteq S
    BY FS_Subset
  <1>6. SumOf(w, U) = w[p] + SumOf(w, U \ {p})
    BY <1>3, <1>5, SumStep DEF p
  <1>7. p # z
    BY <1>3, <1>6
  <1> DEFINE R == (U \ {p}) \ {z}
  <1>8. R = (U \ {z}) \ {p}
    OBVIOUS
  <1> HIDE DEF R
  <1>9. SumOf(w, U \ {p}) = w[z] + SumOf(w, R)
    <2>1. U \ {p} \subseteq U /\ U \ {p} # U /\ U \ {p} \in SUBSET S /\ z \in U \ {p}
      BY <1>4, <1>7
    <2> QED BY <1>2, <2>1 DEF R
  <1>10. SumOf(w, U \ {z}) = w[p] + SumOf(w, R)
    <2>1. U \ {z} \subseteq U /\ U \ {z} # U /\ U \ {z} \in SUBSET S /\ p \in U \ {z}
      BY <1>4, <1>7
    <2> QED BY <1>2, <1>8, <2>1
  <1>11. SumOf(w, R) \in Int /\ w[p] \in Int /\ w[z] \in Int
    <2>1. IsFiniteSet(R) /\ R \subseteq S
      BY <1>5, FS_Subset DEF R
    <2> QED BY <1>4, <2>1, SumIsInt
  <1>12. SumOf(w, U) = w[z] + SumOf(w, U \ {z})
    BY <1>6, <1>9, <1>10, <1>11
  <1> QED BY <1>3, <1>12

\* A new element adds its weight.
LEMMA SumAdd ==
    ASSUME NEW S, IsFiniteSet(S), NEW w, NEW y, y \notin S,
           \A x \in S \cup {y} : w[x] \in Int
    PROVE  SumOf(w, S \cup {y}) = w[y] + SumOf(w, S)
  <1>1. IsFiniteSet(S \cup {y}) /\ (S \cup {y}) \ {y} = S
    BY FS_AddElement
  <1> QED BY <1>1, SumRemove

\* Only the weights of the members count.
LEMMA SumSame ==
    ASSUME NEW S, IsFiniteSet(S), NEW w, NEW v, \A x \in S : w[x] = v[x]
    PROVE  SumOf(w, S) = SumOf(v, S)
  <1> DEFINE B == {U \in SUBSET S : SumOf(w, U) # SumOf(v, U)}
  <1>1. SUFFICES ASSUME B # {} PROVE FALSE
    OBVIOUS
  <1>2. PICK U \in B : \A V \in B : V \subseteq U => V = U
    <2>1. B \subseteq SUBSET S
      OBVIOUS
    <2> HIDE DEF B
    <2> QED BY <1>1, <2>1, MinimalSubset
  <1>3. U # {}
    BY SumEmpty
  <1>4. OneOf(U) \in U /\ IsFiniteSet(U)
    BY <1>3, OneIsMember, FS_Subset
  <1>5. SumOf(w, U \ {OneOf(U)}) = SumOf(v, U \ {OneOf(U)})
    BY <1>2, <1>4
  <1>6. /\ SumOf(w, U) = w[OneOf(U)] + SumOf(w, U \ {OneOf(U)})
        /\ SumOf(v, U) = v[OneOf(U)] + SumOf(v, U \ {OneOf(U)})
    BY <1>3, <1>4, SumStep
  <1> QED BY <1>2, <1>4, <1>5, <1>6

\* A part weighs no more than the whole.
LEMMA SumOfPart ==
    ASSUME NEW S, IsFiniteSet(S), NEW w, \A x \in S : w[x] \in Int /\ w[x] >= 0,
           NEW P, P \subseteq S
    PROVE  SumOf(w, P) <= SumOf(w, S)
  <1> DEFINE B == {U \in SUBSET S : P \subseteq U /\ ~(SumOf(w, P) <= SumOf(w, U))}
  <1>1. SUFFICES ASSUME B # {} PROVE FALSE
    OBVIOUS
  <1>2. PICK U \in B : \A V \in B : V \subseteq U => V = U
    <2>1. B \subseteq SUBSET S
      OBVIOUS
    <2> HIDE DEF B
    <2> QED BY <1>1, <2>1, MinimalSubset
  <1>3. IsFiniteSet(U) /\ SumOf(w, P) \in Int
    BY FS_Subset, SumIsInt
  <1>4. PICK y \in U : y \notin P
    <2>1. U # P
      <3>1. ~(SumOf(w, P) <= SumOf(w, U))
        OBVIOUS
      <3> HIDE DEF B
      <3> QED BY <1>3, <3>1
    <2>2. P \subseteq U
      OBVIOUS
    <2> QED BY <2>1, <2>2
  <1>5. SumOf(w, P) <= SumOf(w, U \ {y})
    BY <1>2, <1>4
  <1>6. SumOf(w, U) = w[y] + SumOf(w, U \ {y}) /\ SumOf(w, U \ {y}) \in Int
    <2>1. IsFiniteSet(U \ {y})
      BY <1>3, FS_Subset
    <2> QED BY <1>3, <2>1, SumRemove, SumIsInt
  <1> QED BY <1>2, <1>3, <1>5, <1>6

\* Lighter members weigh less together.
LEMMA SumMonotone ==
    ASSUME NEW S, IsFiniteSet(S), NEW w, NEW v,
           \A x \in S : w[x] \in Int /\ v[x] \in Int /\ w[x] <= v[x]
    PROVE  SumOf(w, S) <= SumOf(v, S)
  <1> DEFINE B == {U \in SUBSET S : ~(SumOf(w, U) <= SumOf(v, U))}
  <1>1. SUFFICES ASSUME B # {} PROVE FALSE
    OBVIOUS
  <1>2. PICK U \in B : \A V \in B : V \subseteq U => V = U
    <2>1. B \subseteq SUBSET S
      OBVIOUS
    <2> HIDE DEF B
    <2> QED BY <1>1, <2>1, MinimalSubset
  <1>3. U # {} /\ U \subseteq S
    <2>1. SumOf(w, {}) <= SumOf(v, {})
      BY SumEmpty
    <2> QED BY <2>1
  <1> DEFINE y == OneOf(U)
             R == U \ {y}
  <1>4. y \in U /\ IsFiniteSet(U) /\ IsFiniteSet(R)
    BY <1>3, OneIsMember, FS_Subset
  <1>5. SumOf(w, R) <= SumOf(v, R)
    BY <1>2, <1>4
  <1>6. SumOf(w, U) = w[y] + SumOf(w, R) /\ SumOf(v, U) = v[y] + SumOf(v, R)
    BY <1>3, <1>4, SumStep
  <1>7. SumOf(w, R) \in Int /\ SumOf(v, R) \in Int
    BY <1>3, <1>4, SumIsInt
  <1>8. ~(SumOf(w, U) <= SumOf(v, U)) /\ w[y] \in Int /\ v[y] \in Int /\ w[y] <= v[y]
    BY <1>3, <1>4
  <1> HIDE DEF B, y, R
  <1> QED BY <1>5, <1>6, <1>7, <1>8

\* Weights that are nothing add up to nothing.
LEMMA SumOfZeros ==
    ASSUME NEW S, IsFiniteSet(S), NEW w, \A x \in S : w[x] = 0
    PROVE  SumOf(w, S) = 0
  <1> DEFINE B == {U \in SUBSET S : SumOf(w, U) # 0}
  <1>1. SUFFICES ASSUME B # {} PROVE FALSE
    OBVIOUS
  <1>2. PICK U \in B : \A V \in B : V \subseteq U => V = U
    <2>1. B \subseteq SUBSET S
      OBVIOUS
    <2> HIDE DEF B
    <2> QED BY <1>1, <2>1, MinimalSubset
  <1>3. U # {}
    BY SumEmpty
  <1>4. OneOf(U) \in U /\ IsFiniteSet(U)
    BY <1>3, OneIsMember, FS_Subset
  <1>5. SumOf(w, U \ {OneOf(U)}) = 0
    BY <1>2, <1>4
  <1>6. SumOf(w, U) = w[OneOf(U)] + SumOf(w, U \ {OneOf(U)})
    BY <1>3, <1>4, SumStep
  <1> QED BY <1>2, <1>4, <1>5, <1>6

SumOfKey(w, X, key, i) == SumOf(w, {x \in X : key[x] = i})

\* Adding up by key and then over the keys is adding up.
LEMMA SumByKey ==
    ASSUME NEW X, IsFiniteSet(X), NEW I, IsFiniteSet(I), NEW w, \A x \in X : w[x] \in Int,
           NEW key \in [X -> I]
    PROVE  SumOf([i \in I |-> SumOfKey(w, X, key, i)], I) = SumOf(w, X)
  <1> DEFINE v(U) == [i \in I |-> SumOfKey(w, U, key, i)]
             B == {U \in SUBSET X : SumOf(v(U), I) # SumOf(w, U)}
  <1>1. SUFFICES ASSUME B # {} PROVE FALSE
    OBVIOUS
  <1>2. PICK U \in B : \A V \in B : V \subseteq U => V = U
    <2>1. B \subseteq SUBSET X
      OBVIOUS
    <2> HIDE DEF B
    <2> QED BY <1>1, <2>1, MinimalSubset
  <1>3. U \subseteq X /\ IsFiniteSet(U) /\ SumOf(v(U), I) # SumOf(w, U)
    BY FS_Subset
  <1>4. U # {}
    <2>1. SUFFICES ASSUME U = {} PROVE FALSE
      OBVIOUS
    <2>2. ASSUME NEW i \in I
          PROVE  v(U)[i] = 0
      <3>1. {x \in U : key[x] = i} = {}
        BY <2>1
      <3> QED BY <3>1, SumEmpty DEF SumOfKey
    <2> HIDE DEF v
    <2> QED BY <1>3, <2>1, <2>2, SumOfZeros, SumEmpty
  <1>5. PICK y \in U : TRUE
    BY <1>4
  <1> DEFINE V == U \ {y}
             k == key[y]
  <1>6. /\ V \in SUBSET X /\ V \subseteq U /\ V # U /\ IsFiniteSet(V)
        /\ k \in I /\ y \in X /\ w[y] \in Int
    BY <1>3, FS_Subset
  <1>7. SumOf(v(V), I) = SumOf(w, V)
    BY <1>2, <1>6
  <1>8. ASSUME NEW i \in I, NEW W, W \subseteq X
        PROVE  v(W)[i] \in Int
    <2>1. IsFiniteSet({x \in W : key[x] = i}) /\ {x \in W : key[x] = i} \subseteq X
      BY <1>8, FS_Subset
    <2> QED BY <2>1, SumIsInt DEF SumOfKey
  <1>9. v(U)[k] = w[y] + v(V)[k]
    <2> DEFINE P == {x \in U : key[x] = k}
    <2>1. P \subseteq X /\ IsFiniteSet(P) /\ y \in P
      BY <1>3, FS_Subset
    <2>2. P \ {y} = {x \in V : key[x] = k}
      OBVIOUS
    <2> HIDE DEF P
    <2>3. SumOf(w, P) = w[y] + SumOf(w, P \ {y})
      BY <2>1, SumRemove
    <2> QED BY <1>6, <2>2, <2>3 DEF SumOfKey, P
  <1>10. \A i \in I \ {k} : v(U)[i] = v(V)[i]
    <2>1. ASSUME NEW i \in I \ {k}
          PROVE  v(U)[i] = v(V)[i]
      <3>1. {x \in U : key[x] = i} = {x \in V : key[x] = i}
        OBVIOUS
      <3> QED BY <3>1 DEF SumOfKey
    <2> QED BY <2>1
  <1>11. SumOf(w, U) = w[y] + SumOf(w, V)
    BY <1>3, SumRemove
  <1> HIDE DEF v, V, k
  <1>12. IsFiniteSet(I \ {k})
    BY FS_Subset
  <1>13. SumOf(v(U), I) = v(U)[k] + SumOf(v(U), I \ {k})
         /\ SumOf(v(V), I) = v(V)[k] + SumOf(v(V), I \ {k})
    BY <1>3, <1>6, <1>8, SumRemove
  <1>14. SumOf(v(U), I \ {k}) = SumOf(v(V), I \ {k})
    BY <1>10, <1>12, SumSame
  <1>15. SumOf(v(V), I \ {k}) \in Int /\ v(V)[k] \in Int
    BY <1>6, <1>8, <1>12, SumIsInt
  <1>16. SumOf(v(U), I) = SumOf(w, U)
    BY <1>6, <1>7, <1>9, <1>11, <1>13, <1>14, <1>15
  <1> QED BY <1>3, <1>16

-----------------------------------------------------------------------------
Divides(d, n) == \E k \in Nat : n = d * k
CommonDivisors(a, b) == {d \in Nat \ {0} : Divides(d, a) /\ Divides(d, b)}
Greatest(S) == CHOOSE g \in S : \A d \in S : d <= g

\* Division with remainder.
LEMMA RemainderOf ==
    ASSUME NEW a, a \in Nat, NEW b, b \in Nat, b > 0
    PROVE  /\ a % b \in Nat /\ a % b < b /\ a \div b \in Nat
           /\ a = b * (a \div b) + (a % b)
  <1>1. a % b \in Nat /\ a % b < b
    OBVIOUS
  <1>2. a % b = a - b * (a \div b)
    OBVIOUS
  <1>3. a \div b \in Nat
    OBVIOUS
  <1> DEFINE r == a % b
             m == b * (a \div b)
  <1>4. r = a - m /\ m \in Int
    BY <1>2, <1>3
  <1> HIDE DEF r, m
  <1>5. a = m + r
    BY <1>4
  <1>6. a = b * (a \div b) + (a % b)
    BY <1>5, Zenon DEF r, m
  <1> QED BY <1>1, <1>3, <1>6, Zenon

\* An exact quotient.
LEMMA Quotient ==
    ASSUME NEW d, d \in Nat, d > 0, NEW k, k \in Nat
    PROVE  (d * k) \div d = k
  OBVIOUS

\* A divisor is not larger.
LEMMA DividesLess ==
    ASSUME NEW d, d \in Nat, d > 0, NEW n, n \in Nat, n > 0, Divides(d, n)
    PROVE  d \in 1..n
  <1>1. PICK k \in Nat : n = d * k
    BY DEF Divides
  <1>2. k >= 1
    BY <1>1
  <1>3. d * k >= d * 1
    BY <1>2
  <1> QED BY <1>1, <1>3

\* The divisors in common stay when the larger number is replaced by the remainder.
LEMMA SameDivisors ==
    ASSUME NEW a, a \in Nat, NEW b, b \in Nat, b > 0
    PROVE  CommonDivisors(a, b) = CommonDivisors(b, a % b)
  <1> DEFINE r == a % b
             q == a \div b
  <1>1. r \in Nat /\ q \in Nat /\ a = b * q + r
    BY RemainderOf
  <1> HIDE DEF r, q
  <1>2. ASSUME NEW d \in Nat \ {0}, Divides(d, a), Divides(d, b) PROVE Divides(d, r)
    <2>1. PICK k \in Nat : a = d * k
      BY <1>2 DEF Divides
    <2>2. PICK m \in Nat : b = d * m
      BY <1>2 DEF Divides
    <2>3. r = d * k - (d * m) * q
      BY <1>1, <2>1, <2>2
    <2>4. r = d * (k - m * q)
      BY <1>1, <2>3
    <2>5. k - m * q \in Int
      BY <1>1
    <2>6. k - m * q >= 0
      <3> SUFFICES ASSUME k - m * q <= -1 PROVE FALSE
        BY <2>5
      <3> DEFINE x == k - m * q
      <3>1. x \in Int /\ x <= -1 /\ r = d * x
        BY <2>4, <2>5
      <3> HIDE DEF x
      <3>2. d * x <= d * (-1)
        BY <3>1
      <3> QED BY <1>1, <3>1, <3>2
    <2> QED BY <2>4, <2>5, <2>6 DEF Divides
  <1>3. ASSUME NEW d \in Nat \ {0}, Divides(d, r), Divides(d, b) PROVE Divides(d, a)
    <2>1. PICK k \in Nat : r = d * k
      BY <1>3 DEF Divides
    <2>2. PICK m \in Nat : b = d * m
      BY <1>3 DEF Divides
    <2>3. a = (d * m) * q + d * k
      BY <1>1, <2>1, <2>2
    <2>4. a = d * (m * q + k)
      BY <1>1, <2>3
    <2>5. m * q + k \in Nat
      BY <1>1
    <2> QED BY <2>4, <2>5 DEF Divides
  <1> QED BY <1>2, <1>3 DEF CommonDivisors, r

\* A set of numbers up to m has a greatest one.
LEMMA GreatestExists ==
    ASSUME NEW m, m \in Nat, NEW S, S \subseteq 1..m, S # {}
    PROVE  Greatest(S) \in S /\ \A d \in S : d <= Greatest(S)
  <1> DEFINE Below == {m - d : d \in S}
  <1>1. Below \subseteq 0..m /\ Below # {}
    OBVIOUS
  <1>2. PICK x \in Below : \A y \in Below : x <= y
    <2> HIDE DEF Below
    <2> QED BY <1>1, LeastExists
  <1>3. PICK g \in S : x = m - g
    OBVIOUS
  <1>4. \A d \in S : d <= g
    <2> SUFFICES ASSUME NEW d \in S PROVE d <= g
      OBVIOUS
    <2>1. m - d \in Below
      OBVIOUS
    <2>2. x <= m - d
      BY <1>2, <2>1
    <2> QED BY <1>3, <2>2
  <1> QED BY <1>3, <1>4 DEF Greatest

\* Two numbers have a greatest divisor in common.
LEMMA CommonBounded ==
    ASSUME NEW a, a \in Nat, NEW b, b \in Nat, b > 0
    PROVE  /\ CommonDivisors(a, b) \subseteq 1..b
           /\ Greatest(CommonDivisors(a, b)) \in CommonDivisors(a, b)
           /\ \A d \in CommonDivisors(a, b) : d <= Greatest(CommonDivisors(a, b))
  <1>1. CommonDivisors(a, b) \subseteq 1..b
    <2> SUFFICES ASSUME NEW d \in CommonDivisors(a, b) PROVE d \in 1..b
      OBVIOUS
    <2>1. d \in Nat /\ d > 0 /\ Divides(d, b)
      BY DEF CommonDivisors
    <2> QED BY <2>1, DividesLess
  <1>2. 1 \in CommonDivisors(a, b)
    <2>1. a = 1 * a /\ b = 1 * b
      OBVIOUS
    <2> QED BY <2>1 DEF CommonDivisors, Divides
  <1> QED BY <1>1, <1>2, GreatestExists

\* One step of Euclid's algorithm.
LEMMA EuclidStep ==
    ASSUME NEW a, a \in Nat, NEW b, b \in Nat, b > 0
    PROVE  Greatest(CommonDivisors(a, b)) =
              IF a % b = 0 THEN b ELSE Greatest(CommonDivisors(b, a % b))
  <1>1. CommonDivisors(a, b) = CommonDivisors(b, a % b)
    BY SameDivisors
  <1>2. ASSUME a % b = 0 PROVE Greatest(CommonDivisors(a, b)) = b
    <2>1. b = b * 1 /\ 0 = b * 0
      OBVIOUS
    <2>2. Divides(b, b) /\ Divides(b, 0)
      BY <2>1 DEF Divides
    <2>3. b \in CommonDivisors(a, b)
      BY <1>1, <1>2, <2>2 DEF CommonDivisors
    <2> DEFINE g == Greatest(CommonDivisors(a, b))
    <2>4. g \in 1..b /\ b <= g
      BY <2>3, CommonBounded
    <2> HIDE DEF g
    <2> QED BY <2>4 DEF g
  <1> QED BY <1>1, <1>2

\* Euclid's recursion, and the function that it defines.
GcdRule(g) ==
    g = [p \in Nat \X Nat |-> IF p[2] = 0 THEN p[1] ELSE g[<<p[2], p[1] % p[2]>>]]
GcdTable ==
    [p \in Nat \X Nat |-> IF p[2] = 0 THEN p[1] ELSE Greatest(CommonDivisors(p[1], p[2]))]

\* The table of greatest common divisors obeys the recursion of the algorithm.
LEMMA GcdTableRule == GcdRule(GcdTable)
  <1> SUFFICES ASSUME NEW p \in Nat \X Nat
               PROVE  GcdTable[p] = IF p[2] = 0 THEN p[1]
                                    ELSE GcdTable[<<p[2], p[1] % p[2]>>]
    BY DEF GcdRule, GcdTable
  <1> DEFINE a == p[1]
             b == p[2]
             r == a % b
  <1>1. a \in Nat /\ b \in Nat
    OBVIOUS
  <1>2. CASE b = 0
    BY <1>2 DEF GcdTable
  <1>3. CASE b # 0
    <2>1. b > 0 /\ r \in Nat
      BY <1>1, <1>3, RemainderOf
    <2>2. GcdTable[p] = Greatest(CommonDivisors(a, b))
      BY <1>3 DEF GcdTable
    <2>3. Greatest(CommonDivisors(a, b)) = IF r = 0 THEN b ELSE Greatest(CommonDivisors(b, r))
      BY <1>1, <2>1, EuclidStep
    <2> HIDE DEF a, b, r
    <2>4. GcdTable[<<b, r>>] = IF r = 0 THEN b ELSE Greatest(CommonDivisors(b, r))
      BY <1>1, <2>1 DEF GcdTable
    <2> QED BY <1>3, <2>2, <2>3, <2>4 DEF a, b, r
  <1> QED BY <1>2, <1>3

\* Nothing else obeys it: the second number falls.
LEMMA GcdUnique ==
    ASSUME NEW g, GcdRule(g)
    PROVE  \A b \in Nat : \A a \in Nat : g[<<a, b>>] = GcdTable[<<a, b>>]
  <1>1. \A f : GcdRule(f) =>
           /\ \A a \in Nat : f[<<a, 0>>] = a
           /\ \A a \in Nat : \A b \in Nat : b # 0 => f[<<a, b>>] = f[<<b, a % b>>]
    BY DEF GcdRule
  <1> SUFFICES ASSUME NEW n \in Nat, ~ \A a \in Nat : g[<<a, n>>] = GcdTable[<<a, n>>]
               PROVE  FALSE
    OBVIOUS
  <1> DEFINE Bad == {b \in 0..n : ~ \A a \in Nat : g[<<a, b>>] = GcdTable[<<a, b>>]}
  <1>2. Bad \subseteq 0..n /\ Bad # {}
    OBVIOUS
  <1>3. PICK b \in Bad : \A c \in Bad : b <= c
    <2> HIDE DEF Bad
    <2> QED BY <1>2, LeastExists
  <1>4. PICK a \in Nat : g[<<a, b>>] # GcdTable[<<a, b>>]
    OBVIOUS
  <1>5. b \in Nat /\ b <= n
    OBVIOUS
  <1>6. \A c \in Nat : c < b => \A x \in Nat : g[<<x, c>>] = GcdTable[<<x, c>>]
    <2> SUFFICES ASSUME NEW c \in Nat, c < b
                 PROVE  \A x \in Nat : g[<<x, c>>] = GcdTable[<<x, c>>]
      OBVIOUS
    <2>1. c \notin Bad
      BY <1>3
    <2>2. c \in 0..n
      BY <1>5
    <2> QED BY <2>1, <2>2
  <1> HIDE DEF Bad
  <1>7. CASE b = 0
    BY <1>1, <1>4, <1>7, GcdTableRule
  <1>8. CASE b # 0
    <2> DEFINE r == a % b
    <2>1. r \in Nat /\ r < b
      BY <1>5, <1>8, RemainderOf
    <2>2. g[<<a, b>>] = g[<<b, r>>]
      BY <1>1, <1>5, <1>8
    <2>3. GcdTable[<<a, b>>] = GcdTable[<<b, r>>]
      BY <1>1, <1>5, <1>8, GcdTableRule
    <2> HIDE DEF r
    <2> QED BY <1>4, <1>5, <1>6, <2>1, <2>2, <2>3
  <1> QED BY <1>7, <1>8

-----------------------------------------------------------------------------
\* R orders S strictly and totally.
Orders(R, S) ==
    /\ \A u \in S : <<u, u>> \notin R
    /\ \A u, v, w \in S : <<u, v>> \in R /\ <<v, w>> \in R => <<u, w>> \in R
    /\ \A u, v \in S : u = v \/ <<u, v>> \in R \/ <<v, u>> \in R

\* The elements before w, and the place of w.
Lower(R, S, w) == {u \in S : <<u, w>> \in R}
Rank(R, S, w) == Cardinality(Lower(R, S, w)) + 1

LEMMA LowerFinite ==
    ASSUME NEW S, IsFiniteSet(S), NEW R, NEW w
    PROVE  IsFiniteSet(Lower(R, S, w)) /\ Cardinality(Lower(R, S, w)) \in Nat
  <1>1. Lower(R, S, w) \subseteq S
    BY DEF Lower
  <1>2. IsFiniteSet(Lower(R, S, w))
    BY <1>1, FS_Subset
  <1> QED BY <1>2, FS_CardinalityType

\* Ranks agree with the order.
LEMMA RankGrows ==
    ASSUME NEW S, IsFiniteSet(S), NEW R, Orders(R, S), NEW v \in S, NEW w \in S, <<v, w>> \in R
    PROVE  Rank(R, S, v) < Rank(R, S, w)
  <1> DEFINE A == Lower(R, S, v)
             B == Lower(R, S, w)
  <1>1. A \subseteq S /\ B \subseteq S /\ IsFiniteSet(A) /\ IsFiniteSet(B)
    BY FS_Subset DEF Lower
  <1>2. v \notin A
    BY DEF Lower, Orders
  <1>3. A \cup {v} \subseteq B
    BY DEF Lower, Orders
  <1> HIDE DEF A, B
  <1>4. IsFiniteSet(A \cup {v}) /\ Cardinality(A \cup {v}) = Cardinality(A) + 1
    BY <1>1, <1>2, FS_AddElement
  <1>5. Cardinality(A \cup {v}) <= Cardinality(B)
    BY <1>1, <1>3, FS_Subset
  <1>6. Cardinality(A) \in Nat /\ Cardinality(B) \in Nat
    BY <1>1, FS_CardinalityType
  <1> QED BY <1>4, <1>5, <1>6 DEF A, B, Rank

\* A rank is one of the first numbers.
LEMMA RankBounds ==
    ASSUME NEW S, IsFiniteSet(S), NEW R, Orders(R, S), NEW w \in S
    PROVE  Rank(R, S, w) \in 1..Cardinality(S)
  <1> DEFINE B == Lower(R, S, w)
  <1>1. B \subseteq S \ {w}
    BY DEF Lower, Orders
  <1>2. IsFiniteSet(S \ {w}) /\ Cardinality(S \ {w}) = Cardinality(S) - 1
    BY FS_RemoveElement
  <1> HIDE DEF B
  <1>3. IsFiniteSet(B) /\ Cardinality(B) <= Cardinality(S) - 1
    BY <1>1, <1>2, FS_Subset
  <1>4. Cardinality(B) \in Nat /\ Cardinality(S) \in Nat
    BY <1>3, FS_CardinalityType
  <1> QED BY <1>3, <1>4 DEF B, Rank

\* The ranks of a finite order are the numbers from one to its size.
LEMMA RankFound ==
    ASSUME NEW S, IsFiniteSet(S), NEW R, Orders(R, S), NEW i \in 1..Cardinality(S)
    PROVE  \E w \in S : Rank(R, S, w) = i
  <1> DEFINE f == [w \in S |-> Rank(R, S, w)]
             T == 1..Cardinality(S)
  <1>1. Cardinality(S) \in Nat
    BY FS_CardinalityType
  <1>2. IsFiniteSet(T) /\ Cardinality(T) = Cardinality(S)
    BY <1>1, FS_Interval
  <1>3. f \in [S -> T]
    BY RankBounds
  <1>4. ASSUME NEW v \in S, NEW w \in S, f[v] = f[w] PROVE v = w
    <2>1. Rank(R, S, v) = Rank(R, S, w) /\ Rank(R, S, v) \in 1..Cardinality(S)
      BY <1>4, RankBounds
    <2>2. <<v, w>> \notin R
      <3> SUFFICES ASSUME <<v, w>> \in R PROVE FALSE
        OBVIOUS
      <3>1. Rank(R, S, v) < Rank(R, S, w)
        BY RankGrows
      <3> QED BY <1>1, <2>1, <3>1
    <2>3. <<w, v>> \notin R
      <3> SUFFICES ASSUME <<w, v>> \in R PROVE FALSE
        OBVIOUS
      <3>1. Rank(R, S, w) < Rank(R, S, v)
        BY RankGrows
      <3> QED BY <1>1, <2>1, <3>1
    <2> QED BY <2>2, <2>3 DEF Orders
  <1> HIDE DEF f, T
  <1>5. f \in Injection(S, T)
    BY <1>3, <1>4 DEF Injection, IsInjective
  <1>6. f \in Surjection(S, T)
    BY <1>2, <1>5, FS_Injection
  <1>7. \A t \in T : \E w \in S : f[w] = t
    BY <1>6 DEF Surjection
  <1>8. \A w \in S : f[w] = Rank(R, S, w)
    BY DEF f
  <1> QED BY <1>7, <1>8 DEF T

\* A finite set in order: at i the element with i - 1 lower ones.
LEMMA InOrder ==
    ASSUME NEW S, IsFiniteSet(S), NEW R, Orders(R, S), NEW q,
           \A i \in 1..Cardinality(S) : \A w \in S :
              Rank(R, S, w) = i => q[i] \in S /\ Rank(R, S, q[i]) = i
    PROVE  /\ Cardinality(S) \in Nat
           /\ \A i \in 1..Cardinality(S) : q[i] \in S
           /\ \A w \in S : \E i \in 1..Cardinality(S) : q[i] = w
           /\ \A i, j \in 1..Cardinality(S) : i < j => <<q[i], q[j]>> \in R
  <1> DEFINE n == Cardinality(S)
  <1>1. n \in Nat
    BY FS_CardinalityType
  <1>3. \A i \in 1..n : q[i] \in S /\ Rank(R, S, q[i]) = i
    BY RankFound
  <1> HIDE DEF n
  <1>4. ASSUME NEW v \in S, NEW w \in S, Rank(R, S, v) = Rank(R, S, w) PROVE v = w
    <2>1. Rank(R, S, w) \in 1..n
      BY RankBounds DEF n
    <2>2. <<v, w>> \notin R
      BY <1>1, <1>4, <2>1, RankGrows
    <2>3. <<w, v>> \notin R
      BY <1>1, <1>4, <2>1, RankGrows
    <2> QED BY <2>2, <2>3 DEF Orders
  <1>5. \A w \in S : \E i \in 1..n : q[i] = w
    <2> SUFFICES ASSUME NEW w \in S PROVE \E i \in 1..n : q[i] = w
      OBVIOUS
    <2>1. Rank(R, S, w) \in 1..n
      BY RankBounds DEF n
    <2>2. q[Rank(R, S, w)] \in S /\ Rank(R, S, q[Rank(R, S, w)]) = Rank(R, S, w)
      BY <1>3, <2>1
    <2>3. q[Rank(R, S, w)] = w
      BY <1>4, <2>2
    <2> QED BY <2>1, <2>3
  <1>6. ASSUME NEW i \in 1..n, NEW j \in 1..n, i < j PROVE <<q[i], q[j]>> \in R
    <2>1. q[i] \in S /\ q[j] \in S /\ Rank(R, S, q[i]) = i /\ Rank(R, S, q[j]) = j
      BY <1>3
    <2>2. q[i] # q[j]
      BY <1>1, <1>6, <2>1
    <2>3. <<q[j], q[i]>> \notin R
      <3> SUFFICES ASSUME <<q[j], q[i]>> \in R PROVE FALSE
        OBVIOUS
      <3>1. Rank(R, S, q[j]) < Rank(R, S, q[i])
        BY <2>1, RankGrows
      <3> QED BY <1>1, <1>6, <2>1, <3>1
    <2> QED BY <2>1, <2>2, <2>3 DEF Orders
  <1> QED BY <1>1, <1>3, <1>5, <1>6 DEF n

-----------------------------------------------------------------------------
\* g folds every subset of S from base with step, the element pick chooses last.
Folds(g, step, pick, base, S) ==
    g = [s \in SUBSET S |-> IF s = {} THEN base ELSE step[<<g[s \ {pick[s]}], pick[s]>>]]

Picks(pick, S) == \A s \in SUBSET S : s # {} => pick[s] \in s

LEMMA FoldsValue ==
    ASSUME NEW S, NEW step, NEW pick, NEW base, NEW g, Folds(g, step, pick, base, S),
           NEW U, U \subseteq S, U # {}
    PROVE  g[U] = step[<<g[U \ {pick[U]}], pick[U]>>]
  BY DEF Folds

\* Two such functions agree where both are defined.
LEMMA FoldsAgree ==
    ASSUME NEW S, IsFiniteSet(S), NEW T, NEW step, NEW pick, Picks(pick, S), NEW base,
           NEW g, NEW h, Folds(g, step, pick, base, S), Folds(h, step, pick, base, T)
    PROVE  \A U : U \subseteq S /\ U \subseteq T => g[U] = h[U]
  <1> DEFINE B == {U \in SUBSET S : U \subseteq T /\ g[U] # h[U]}
  <1>1. SUFFICES ASSUME B # {} PROVE FALSE
    OBVIOUS
  <1>2. PICK U \in B : \A V \in B : V \subseteq U => V = U
    <2>1. B \subseteq SUBSET S
      OBVIOUS
    <2> HIDE DEF B
    <2> QED BY <1>1, <2>1, MinimalSubset
  <1>3. U # {}
    BY DEF Folds
  <1>4. pick[U] \in U
    BY <1>3 DEF Picks
  <1> DEFINE V == U \ {pick[U]}
  <1>5. V \subseteq U /\ V # U /\ V \in SUBSET S /\ V \subseteq T
    BY <1>4
  <1>6. g[V] = h[V]
    BY <1>2, <1>5
  <1>7. g[U] = step[<<g[V], pick[U]>>] /\ h[U] = step[<<h[V], pick[U]>>]
    BY <1>3 DEF Folds
  <1> QED BY <1>2, <1>6, <1>7

\* There is such a function for every finite set.
LEMMA FoldsExist ==
    ASSUME NEW S, IsFiniteSet(S), NEW step, NEW pick, Picks(pick, S), NEW base
    PROVE  \E g : Folds(g, step, pick, base, S)
  <1> DEFINE B == {U \in SUBSET S : ~ \E g : Folds(g, step, pick, base, U)}
  <1>1. SUFFICES ASSUME B # {} PROVE FALSE
    OBVIOUS
  <1>2. PICK U \in B : \A V \in B : V \subseteq U => V = U
    <2>1. B \subseteq SUBSET S
      OBVIOUS
    <2> HIDE DEF B
    <2> QED BY <1>1, <2>1, MinimalSubset
  <1> DEFINE of(V) == CHOOSE g : Folds(g, step, pick, base, V)
             G == [s \in SUBSET U |-> IF s = {} THEN base
                      ELSE step[<<of(s \ {pick[s]})[s \ {pick[s]}], pick[s]>>]]
  <1>3. ASSUME NEW V, V \subseteq U, V # U
        PROVE  Folds(of(V), step, pick, base, V) /\ IsFiniteSet(V) /\ Picks(pick, V)
    <2>1. \E g : Folds(g, step, pick, base, V)
      BY <1>2, <1>3
    <2>2. IsFiniteSet(V)
      BY <1>3, FS_Subset
    <2>3. Picks(pick, V)
      BY <1>3 DEF Picks
    <2> QED BY <2>1, <2>2, <2>3
  <1> HIDE DEF of
  <1>4. ASSUME NEW V, V \subseteq U, V # U
        PROVE  G[V] = of(V)[V]
    <2>1. CASE V = {}
      BY <1>3, <1>4, <2>1 DEF Folds
    <2>2. CASE V # {}
      <3>1. pick[V] \in V
        BY <1>4, <2>2 DEF Picks
      <3> DEFINE W == V \ {pick[V]}
      <3>2. W \subseteq V /\ W \subseteq U /\ W # U
        BY <1>4, <3>1
      <3> HIDE DEF W, G
      <3>3. of(V)[V] = step[<<of(V)[W], pick[V]>>]
        <4>1. Folds(of(V), step, pick, base, V)
          BY <1>3, <1>4
        <4> QED BY <2>2, <4>1, FoldsValue DEF W
      <3>4. of(V)[W] = of(W)[W]
        BY <1>3, <1>4, <3>2, FoldsAgree
      <3>5. G[V] = step[<<of(W)[W], pick[V]>>]
        <4>1. V \in SUBSET U
          BY <1>4
        <4>2. G[V] = IF V = {} THEN base ELSE step[<<of(W)[W], pick[V]>>]
          BY <4>1, Zenon DEF G, W
        <4> QED BY <2>2, <4>2
      <3> QED BY <3>3, <3>4, <3>5
    <2> QED BY <2>1, <2>2
  <1>5. ASSUME NEW s \in SUBSET U, s # {}
        PROVE  G[s] = step[<<G[s \ {pick[s]}], pick[s]>>]
    <2>1. pick[s] \in s
      BY <1>5 DEF Picks
    <2>2. s \ {pick[s]} \subseteq U /\ s \ {pick[s]} # U
      BY <2>1
    <2>3. G[s \ {pick[s]}] = of(s \ {pick[s]})[s \ {pick[s]}]
      BY <1>4, <2>2
    <2> QED BY <1>5, <2>3
  <1>6. {} \in SUBSET U /\ G[{}] = base
    OBVIOUS
  <1>7. G = [s \in SUBSET U |-> G[s]]
    OBVIOUS
  <1> HIDE DEF G
  <1>8. [s \in SUBSET U |-> G[s]] =
        [s \in SUBSET U |-> IF s = {} THEN base ELSE step[<<G[s \ {pick[s]}], pick[s]>>]]
    BY <1>5, <1>6
  <1>9. Folds(G, step, pick, base, U)
    BY <1>7, <1>8 DEF Folds
  <1> QED BY <1>2, <1>9

\* Values of a kind that step keeps.
LEMMA FoldsTyped ==
    ASSUME NEW S, IsFiniteSet(S), NEW step, NEW pick, Picks(pick, S), NEW base, NEW g,
           Folds(g, step, pick, base, S),
           NEW K, base \in K, \A v \in K : \A x \in S : step[<<v, x>>] \in K
    PROVE  \A U \in SUBSET S : g[U] \in K
  <1> DEFINE B == {U \in SUBSET S : g[U] \notin K}
  <1>1. SUFFICES ASSUME B # {} PROVE FALSE
    OBVIOUS
  <1>2. PICK U \in B : \A V \in B : V \subseteq U => V = U
    <2>1. B \subseteq SUBSET S
      OBVIOUS
    <2> HIDE DEF B
    <2> QED BY <1>1, <2>1, MinimalSubset
  <1>3. U # {}
    BY DEF Folds
  <1>4. pick[U] \in U
    BY <1>3 DEF Picks
  <1> DEFINE V == U \ {pick[U]}
  <1>5. V \subseteq U /\ V # U /\ V \in SUBSET S
    BY <1>4
  <1>6. g[V] \in K
    BY <1>2, <1>5
  <1>7. g[U] = step[<<g[V], pick[U]>>]
    BY <1>3 DEF Folds
  <1> QED BY <1>2, <1>4, <1>6, <1>7
-----------------------------------------------------------------------------
\* What is mapped from a finite set is finite and no larger.
LEMMA ImageFinite ==
    ASSUME NEW S, IsFiniteSet(S), NEW f
    PROVE  /\ IsFiniteSet({f[x] : x \in S})
           /\ Cardinality({f[x] : x \in S}) <= Cardinality(S)
<1> DEFINE T == {f[x] : x \in S}
           g == [x \in S |-> f[x]]
<1>1. g \in Surjection(S, T)
  BY DEF Surjection
<1> HIDE DEF g, T
<1>2. IsFiniteSet(T) /\ Cardinality(T) <= Cardinality(S)
  BY <1>1, FS_Surjection
<1> QED BY <1>2 DEF T

\* The sum of a function is that of DataTheorems.
LEMMA FunctionSum ==
    ASSUME NEW w, IsFiniteSet(DOMAIN w)
    PROVE  SumFunction(w) = SumOf(w, DOMAIN w)
<1> DEFINE S == DOMAIN w
           Iterates(h) == h = [s \in SUBSET S |-> IF s = {} THEN 0
                 ELSE w[CHOOSE x \in s : TRUE] + h[s \ {CHOOSE x \in s : TRUE}]]
           total == CHOOSE h : Iterates(h)
<1>1. SumFunction(w) = total[S]
  BY DEF SumFunction, SumFunctionOnSet, FoldFunctionOnSet, MapThenFoldSet
<1>2. ASSUME NEW h
      PROVE  Iterates(h) <=> Sums(h, w, S)
  BY DEF Sums, OneOf
<1> HIDE DEF Iterates
<1>3. Iterates(total)
  <2>1. PICK h : Sums(h, w, S)
    BY SumsExist
  <2>2. Iterates(h)
    BY <1>2, <2>1
  <2> QED BY <2>2
<1>4. Sums(total, w, S)
  BY <1>2, <1>3
<1> HIDE DEF total
<1>5. total[S] = SumOf(w, S)
  BY <1>4, SumsGive
<1> QED BY <1>1, <1>5

\* The sum of a function over a finite set.
LEMMA SumIs ==
    ASSUME NEW S, IsFiniteSet(S), NEW w, DOMAIN w = S
    PROVE  SumFunction(w) = SumOf(w, S)
BY FunctionSum

\* A sum of natural numbers is natural.
LEMMA SumIsNatural ==
    ASSUME NEW S, IsFiniteSet(S), NEW w, \A x \in S : w[x] \in Nat
    PROVE  SumOf(w, S) \in Nat
<1> DEFINE zero == [x \in S |-> 0]
<1>1. \A x \in S : w[x] \in Int /\ zero[x] \in Int /\ zero[x] <= w[x] /\ zero[x] = 0
  OBVIOUS
<1> HIDE DEF zero
<1>2. SumOf(zero, S) <= SumOf(w, S)
  BY <1>1, SumMonotone
<1>3. SumOf(zero, S) = 0
  BY <1>1, SumOfZeros
<1>4. SumOf(w, S) \in Int
  BY <1>1, SumIsInt
<1> QED BY <1>2, <1>3, <1>4

\* Rows that each stand for a part of X add up to X.
LEMMA RowsAddUp ==
    ASSUME NEW X, IsFiniteSet(X), NEW R, IsFiniteSet(R), NEW w, \A x \in X : w[x] \in Int,
           NEW key, key \in [X -> R], NEW v,
           \A r \in R : v[r] = SumOfKey(w, X, key, r)
    PROVE  SumOf(v, R) = SumOf(w, X)
<1> DEFINE u == [r \in R |-> SumOfKey(w, X, key, r)]
<1>1. \A r \in R : u[r] = v[r]
  OBVIOUS
<1>2. SumOf(u, R) = SumOf(w, X)
  BY SumByKey
<1> HIDE DEF u
<1>3. SumOf(u, R) = SumOf(v, R)
  BY <1>1, SumSame
<1> QED BY <1>2, <1>3

\* Two parts.
LEMMA SumOfTwoParts ==
    ASSUME NEW X, IsFiniteSet(X), NEW w, \A x \in X : w[x] \in Int, NEW P, P \subseteq X
    PROVE  SumOf(w, X) = SumOf(w, P) + SumOf(w, X \ P)
<1> DEFINE B == {U \in SUBSET X : SumOf(w, U \cup (X \ P)) # SumOf(w, U) + SumOf(w, X \ P)}
           C == {U \in B : U \subseteq P}
<1>1. SUFFICES ASSUME C # {} PROVE FALSE
  <2>1. P \notin C => P \notin B
    OBVIOUS
  <2>2. C = {} => SumOf(w, P \cup (X \ P)) = SumOf(w, P) + SumOf(w, X \ P)
    BY <2>1
  <2>3. P \cup (X \ P) = X
    OBVIOUS
  <2> QED BY <2>2, <2>3
<1>2. PICK U \in C : \A V \in C : V \subseteq U => V = U
  <2>1. C \subseteq SUBSET X
    OBVIOUS
  <2> HIDE DEF C
  <2> QED BY <1>1, <2>1, MinimalSubset
<1> DEFINE Rest == X \ P
<1>3. /\ U \subseteq P /\ IsFiniteSet(U) /\ IsFiniteSet(Rest) /\ U \cap Rest = {}
      /\ SumOf(w, U \cup Rest) # SumOf(w, U) + SumOf(w, Rest)
  BY FS_Subset, FS_Difference
<1>4. U # {}
  <2>1. SUFFICES ASSUME U = {} PROVE FALSE
    OBVIOUS
  <2>2. SumOf(w, U) = 0
    BY <2>1, SumEmpty
  <2>5. U \cup Rest = Rest
    BY <2>1
  <2>3. \A x \in Rest : w[x] \in Int
    OBVIOUS
  <2> HIDE DEF Rest
  <2>4. SumOf(w, Rest) \in Int
    BY <1>3, <2>3, SumIsInt
  <2>6. SumOf(w, U \cup Rest) = SumOf(w, Rest)
    BY <2>5, Zenon
  <2> QED BY <1>3, <2>2, <2>4, <2>6
<1>5. PICK y \in U : TRUE
  BY <1>4
<1> DEFINE V == U \ {y}
<1>6. V \notin C
  BY <1>2, <1>5
<1>7. SumOf(w, V \cup Rest) = SumOf(w, V) + SumOf(w, Rest)
  <2>1. V \subseteq P /\ V \subseteq X
    BY <1>3
  <2>2. V \notin B
    BY <1>6, <2>1
  <2> QED BY <2>1, <2>2
<1>8. SumOf(w, U) = w[y] + SumOf(w, V)
  BY <1>3, <1>5, SumRemove
<1>9. SumOf(w, U \cup Rest) = w[y] + SumOf(w, V \cup Rest)
  <2>1. IsFiniteSet(U \cup Rest) /\ y \in U \cup Rest /\ U \cup Rest \subseteq X
    BY <1>3, <1>5, FS_Union
  <2>2. (U \cup Rest) \ {y} = V \cup Rest
    BY <1>3, <1>5
  <2> QED BY <2>1, <2>2, SumRemove
<1>10. w[y] \in Int /\ SumOf(w, V) \in Int /\ SumOf(w, Rest) \in Int
  <2>1. IsFiniteSet(V) /\ V \subseteq X /\ Rest \subseteq X
    BY <1>3, FS_Subset
  <2> QED BY <1>3, <1>5, <2>1, SumIsInt
<1> HIDE DEF V, Rest
<1> QED BY <1>3, <1>7, <1>8, <1>9, <1>10

\* Two addends.
LEMMA SumOfTwo ==
    ASSUME NEW X, IsFiniteSet(X), NEW w, NEW v, NEW s,
           \A x \in X : w[x] \in Int /\ v[x] \in Int /\ s[x] = w[x] + v[x]
    PROVE  SumOf(s, X) = SumOf(w, X) + SumOf(v, X)
<1> DEFINE B == {U \in SUBSET X : SumOf(s, U) # SumOf(w, U) + SumOf(v, U)}
<1>1. SUFFICES ASSUME B # {} PROVE FALSE
  OBVIOUS
<1>2. PICK U \in B : \A V \in B : V \subseteq U => V = U
  <2>1. B \subseteq SUBSET X
    OBVIOUS
  <2> HIDE DEF B
  <2> QED BY <1>1, <2>1, MinimalSubset
<1>3. IsFiniteSet(U) /\ U \subseteq X /\ SumOf(s, U) # SumOf(w, U) + SumOf(v, U)
  BY FS_Subset
<1>4. U # {}
  <2>1. SumOf(s, {}) = 0 /\ SumOf(w, {}) = 0 /\ SumOf(v, {}) = 0
    BY SumEmpty
  <2> QED BY <1>3, <2>1
<1>5. PICK y \in U : TRUE
  BY <1>4
<1> DEFINE V == U \ {y}
<1>6. SumOf(s, V) = SumOf(w, V) + SumOf(v, V)
  <2>1. V \notin B
    BY <1>2, <1>5
  <2> QED BY <1>3, <2>1
<1>7. IsFiniteSet(V) /\ V \subseteq X
  BY <1>3, FS_Subset
<1>8. SumOf(w, V) \in Int /\ SumOf(v, V) \in Int
  BY <1>7, SumIsInt
<1>9. \A x \in U : s[x] \in Int
  BY <1>3
<1>10. /\ SumOf(w, U) = w[y] + SumOf(w, V) /\ SumOf(v, U) = v[y] + SumOf(v, V)
       /\ SumOf(s, U) = s[y] + SumOf(s, V)
  BY <1>3, <1>5, <1>9, SumRemove
<1>11. w[y] \in Int /\ v[y] \in Int /\ s[y] = w[y] + v[y]
  BY <1>3, <1>5
<1> HIDE DEF V, B
<1> QED BY <1>3, <1>6, <1>8, <1>10, <1>11

\* Sums of bounds are bounds.
LEMMA Bounds == \A p, q, r, s \in Int : p <= q /\ r <= s => p + r <= q + s
OBVIOUS

\* If a multiple of each is at most a multiple of another, so is that of the sums.
LEMMA SumScaled ==
    ASSUME NEW X, IsFiniteSet(X), NEW w, NEW v, NEW a, a \in Nat, NEW b, b \in Nat,
           \A x \in X : w[x] \in Int /\ v[x] \in Int /\ a * w[x] <= b * v[x]
    PROVE  a * SumOf(w, X) <= b * SumOf(v, X)
<1> DEFINE B == {U \in SUBSET X : ~(a * SumOf(w, U) <= b * SumOf(v, U))}
<1>1. SUFFICES ASSUME B # {} PROVE FALSE
  OBVIOUS
<1>2. PICK U \in B : \A V \in B : V \subseteq U => V = U
  <2>1. B \subseteq SUBSET X
    OBVIOUS
  <2> HIDE DEF B
  <2> QED BY <1>1, <2>1, MinimalSubset
<1>3. IsFiniteSet(U) /\ U \subseteq X /\ ~(a * SumOf(w, U) <= b * SumOf(v, U))
  BY FS_Subset
<1>4. U # {}
  <2>1. SumOf(w, {}) = 0 /\ SumOf(v, {}) = 0
    BY SumEmpty
  <2>2. a * 0 <= b * 0
    OBVIOUS
  <2> QED BY <1>3, <2>1, <2>2
<1>5. PICK y \in U : TRUE
  BY <1>4
<1> DEFINE V == U \ {y}
<1>6. a * SumOf(w, V) <= b * SumOf(v, V)
  <2>1. V \notin B
    BY <1>2, <1>5
  <2> QED BY <1>3, <2>1
<1>7. IsFiniteSet(V) /\ V \subseteq X
  BY <1>3, FS_Subset
<1>8. SumOf(w, V) \in Int /\ SumOf(v, V) \in Int
  BY <1>7, SumIsInt
<1>10. SumOf(w, U) = w[y] + SumOf(w, V) /\ SumOf(v, U) = v[y] + SumOf(v, V)
  BY <1>3, <1>5, SumRemove
<1>11. w[y] \in Int /\ v[y] \in Int /\ a * w[y] <= b * v[y]
  BY <1>3, <1>5
<1>12. ASSUME NEW p \in Int, NEW q \in Int, NEW c \in Nat
       PROVE  c * (p + q) = c * p + c * q /\ c * p \in Int /\ c * q \in Int
  OBVIOUS
<1>13. a * (w[y] + SumOf(w, V)) = a * w[y] + a * SumOf(w, V)
       /\ a * w[y] \in Int /\ a * SumOf(w, V) \in Int
  BY <1>8, <1>11, <1>12
<1>14. b * (v[y] + SumOf(v, V)) = b * v[y] + b * SumOf(v, V)
       /\ b * v[y] \in Int /\ b * SumOf(v, V) \in Int
  BY <1>8, <1>11, <1>12
<1> DEFINE aw == a * w[y]  az == a * SumOf(w, V)  bv == b * v[y]  bz == b * SumOf(v, V)
<1>15. aw \in Int /\ az \in Int /\ bv \in Int /\ bz \in Int /\ aw <= bv /\ az <= bz
       /\ ~(aw + az <= bv + bz)
  BY <1>3, <1>6, <1>10, <1>11, <1>13, <1>14
<1> HIDE DEF aw, az, bv, bz
<1> QED BY <1>15, Bounds, Zenon

\* Of finitely many things one has the largest number.
LEMMA LargestExists ==
    ASSUME NEW S, IsFiniteSet(S), S # {}, NEW f, \A x \in S : f[x] \in Int
    PROVE  \E x \in S : \A y \in S : f[x] >= f[y]
<1> DEFINE Has(U) == \E x \in U : \A y \in U : f[x] >= f[y]
           B == {U \in SUBSET S : U # {} /\ ~Has(U)}
<1>1. SUFFICES ASSUME B # {} PROVE FALSE
  OBVIOUS
<1>2. PICK U \in B : \A V \in B : V \subseteq U => V = U
  <2>1. B \subseteq SUBSET S
    OBVIOUS
  <2> HIDE DEF B
  <2> QED BY <1>1, <2>1, MinimalSubset
<1>3. U \subseteq S /\ U # {} /\ ~Has(U)
  OBVIOUS
<1>4. PICK y \in U : TRUE
  BY <1>3
<1>5. CASE U \ {y} = {}
  <2>1. \A z \in U : z = y
    BY <1>5
  <2>2. f[y] \in Int
    BY <1>3, <1>4
  <2>3. Has(U)
    BY <1>4, <2>1, <2>2
  <2> QED BY <1>3, <2>3
<1>6. CASE U \ {y} # {}
  <2>1. U \ {y} \notin B
    BY <1>2, <1>4
  <2>2. Has(U \ {y})
    BY <1>3, <1>6, <2>1
  <2>3. PICK x \in U \ {y} : \A z \in U \ {y} : f[x] >= f[z]
    BY <2>2
  <2>4. \A z \in U : f[z] \in Int
    BY <1>3
  <2>5. CASE f[x] >= f[y]
    <3>1. \A z \in U : f[x] >= f[z]
      BY <2>3, <2>5
    <3> QED BY <1>3, <2>3, <3>1
  <2>6. CASE ~(f[x] >= f[y])
    <3>1. \A z \in U : f[y] >= f[z]
      BY <2>3, <2>4, <2>6
    <3> QED BY <1>3, <1>4, <3>1
  <2> QED BY <2>5, <2>6
<1> QED BY <1>5, <1>6

\* The largest and the smallest of finitely many numbers.
LEMMA MaxIs ==
    ASSUME NEW S, IsFiniteSet(S), S # {}, S \subseteq Int
    PROVE  Max(S) \in S /\ Max(S) \in Int /\ \A y \in S : y <= Max(S)
<1> DEFINE f == [x \in S |-> x]
<1>1. \E x \in S : \A y \in S : f[x] >= f[y]
  <2>1. \A x \in S : f[x] \in Int
    OBVIOUS
  <2> HIDE DEF f
  <2> QED BY <2>1, LargestExists
<1>2. \E x \in S : \A y \in S : x >= y
  BY <1>1
<1>3. Max(S) \in S /\ \A y \in S : Max(S) >= y
  BY <1>2 DEF Max
<1> QED BY <1>3

LEMMA MinIs ==
    ASSUME NEW S, IsFiniteSet(S), S # {}, S \subseteq Int
    PROVE  Min(S) \in S /\ Min(S) \in Int /\ \A y \in S : Min(S) <= y
<1> DEFINE f == [x \in S |-> -x]
<1>1. \E x \in S : \A y \in S : f[x] >= f[y]
  <2>1. \A x \in S : f[x] \in Int
    OBVIOUS
  <2> HIDE DEF f
  <2> QED BY <2>1, LargestExists
<1>2. \E x \in S : \A y \in S : x <= y
  BY <1>1
<1>3. Min(S) \in S /\ \A y \in S : Min(S) <= y
  BY <1>2 DEF Min
<1> QED BY <1>3
-----------------------------------------------------------------------------
\* Quotients.
LEMMA ProductsGrow ==
    ASSUME NEW d, d \in Nat, NEW x, x \in Int, NEW y, y \in Int, x <= y
    PROVE  d * x <= d * y /\ d * x \in Int /\ d * y \in Int
<1>1. d * (y - x) >= 0 /\ d * (y - x) = d * y - d * x
  OBVIOUS
<1>2. d * x \in Int /\ d * y \in Int
  OBVIOUS
<1> DEFINE dx == d * x  dy == d * y  dd == d * (y - x)
<1>3. dx \in Int /\ dy \in Int /\ dd >= 0 /\ dd = dy - dx
  BY <1>1, <1>2
<1> HIDE DEF dx, dy, dd
<1>4. dx <= dy
  BY <1>3
<1> QED BY <1>2, <1>4 DEF dx, dy

\* A quotient is at least what its multiple is within,
LEMMA QuotientAtLeast ==
    ASSUME NEW n, n \in Nat, NEW d, d \in Nat, d > 0, NEW s, s \in Nat, d * s <= n
    PROVE  s <= n \div d
<1> DEFINE q == n \div d
           r == n % d
<1>1. q \in Nat /\ r \in Nat /\ r < d /\ n = d * q + r
  BY RemainderOf
<1> HIDE DEF q, r
<1>2. SUFFICES ASSUME q + 1 <= s PROVE FALSE
  BY <1>1 DEF q
<1>3. d * (q + 1) <= d * s /\ d * (q + 1) \in Int /\ d * s \in Int
  BY <1>1, <1>2, ProductsGrow
<1>4. d * (q + 1) = d * q + d /\ d * q \in Int
  BY <1>1
<1> DEFINE dq == d * q  ds == d * s  dn == d * (q + 1)
<1>5. dq \in Int /\ ds \in Int /\ dn = dq + d /\ dn <= ds /\ ds <= n /\ n = dq + r
  BY <1>1, <1>3, <1>4
<1> HIDE DEF dq, ds, dn
<1> QED BY <1>1, <1>5

\* and less than what its multiple is beyond.
LEMMA QuotientAtMost ==
    ASSUME NEW n, n \in Nat, NEW d, d \in Nat, d > 0, NEW s, s \in Nat, n < d * s
    PROVE  n \div d < s
<1> DEFINE q == n \div d
           r == n % d
<1>1. q \in Nat /\ r \in Nat /\ r < d /\ n = d * q + r
  BY RemainderOf
<1> HIDE DEF q, r
<1>2. SUFFICES ASSUME s <= q PROVE FALSE
  BY <1>1 DEF q
<1>3. d * s <= d * q /\ d * s \in Int /\ d * q \in Int
  BY <1>1, <1>2, ProductsGrow
<1> DEFINE dq == d * q  ds == d * s
<1>5. dq \in Int /\ ds \in Int /\ ds <= dq /\ n < ds /\ n = dq + r
  BY <1>1, <1>3
<1> HIDE DEF dq, ds
<1> QED BY <1>1, <1>5

\* A natural number whose multiple is at most that of a bound is at most the bound.
LEMMA AtMostByScale ==
    ASSUME NEW t, t \in Nat, t > 0, NEW s, s \in Nat, NEW b, b \in Nat, t * s <= b * t
    PROVE  s <= b
<1>1. SUFFICES ASSUME b + 1 <= s PROVE FALSE
  OBVIOUS
<1> DEFINE x == t * (b + 1)
           y == t * s
           z == b * t
<1>2. x <= y
  BY <1>1, ProductsGrow
<1>3. x = z + t /\ z \in Nat /\ y \in Nat
  <2>1. x = b * t + t /\ b * t \in Nat /\ t * s \in Nat
    OBVIOUS
  <2> QED BY <2>1
<1> HIDE DEF x, y, z
<1>4. y <= z
  BY DEF y, z
<1> QED BY <1>2, <1>3, <1>4
=============================================================================
