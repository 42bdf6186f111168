--------------------------- MODULE FiniteInduction ---------------------------
(***************************************************************************)
(* Least elements and what follows from them: a queue has a first event, a *)
(* property of finite sets a smallest counterexample, and a sum over a     *)
(* finite set does not depend on the order in which it is taken.           *)
(***************************************************************************)
EXTENDS Integers, Functions, FiniteSetTheorems, WellFoundedInduction, TLAPS

(* There is a least element. *)
LEMMA NaturalsHaveLeast ==
  ASSUME NEW S, S \subseteq Nat, S # {}
  PROVE  \E x \in S : \A y \in S : x <= y
<1> DEFINE R == OpToRel(<, Nat)
<1>1. IsWellFoundedOn(R, Nat)
  BY NatLessThanWellFounded, Zenon
<1> HIDE DEF R
<1>2. PICK x \in S : \A y \in S : ~(<<y, x>> \in R)
  BY <1>1, WFMin, Zenon
<1> USE DEF R
<1>3. \A y \in S : ~(y < x)
  BY <1>2, Zenon DEF OpToRel
<1> QED
  BY <1>3

(* There is a greatest one if some number is never exceeded. *)
LEMMA BoundedHaveGreatest ==
  ASSUME NEW S, S \subseteq Nat, S # {}, NEW n \in Nat, \A x \in S : x <= n
  PROVE  \E x \in S : \A y \in S : y <= x
<1> DEFINE below == {n - x : x \in S}
<1>1. below \subseteq Nat /\ below # {}
  <2>1. \A x \in S : n - x \in Nat
    OBVIOUS
  <2> QED
    BY <2>1
<1>2. PICK d \in below : \A e \in below : d <= e
  <2> HIDE DEF below
  <2> QED
    BY <1>1, NaturalsHaveLeast
<1>3. PICK x \in S : d = n - x
  OBVIOUS
<1>4. \A y \in S : n - y \in below
  OBVIOUS
<1>5. \A y \in S : n - x <= n - y
  BY <1>2, <1>3, <1>4
<1> QED
  BY <1>5

-----------------------------------------------------------------------------
(***************************************************************************)
(* Induction over the subsets of a finite set: a property fails for none   *)
(* of them if wherever it fails it also fails for a smaller set.           *)
(***************************************************************************)
LEMMA NoSmallestCounterexample ==
  ASSUME NEW S, IsFiniteSet(S), NEW failing, failing \subseteq SUBSET S,
         \A s \in failing : \E t \in failing : t \subseteq s /\ t # s
  PROVE  failing = {}
<1> SUFFICES ASSUME failing # {} PROVE FALSE
  OBVIOUS
<1> DEFINE sizes == {Cardinality(s) : s \in failing}
<1>1. \A s \in failing : IsFiniteSet(s) /\ Cardinality(s) \in Nat
  BY FS_Subset, FS_CardinalityType
<1>2. sizes \subseteq Nat /\ sizes # {}
  BY <1>1
<1>3. PICK n \in sizes : \A m \in sizes : n <= m
  <2> HIDE DEF sizes
  <2> QED
    BY <1>2, NaturalsHaveLeast
<1>4. PICK s \in failing : n = Cardinality(s)
  OBVIOUS
<1>5. PICK t \in failing : t \subseteq s /\ t # s
  OBVIOUS
<1>6. Cardinality(t) < Cardinality(s)
  <2>1. IsFiniteSet(s) /\ t \in SUBSET s /\ s # t
    BY <1>1, <1>5
  <2>2. Cardinality(t) <= Cardinality(s) /\ (Cardinality(s) = Cardinality(t) => s = t)
    BY <2>1, FS_Subset
  <2>3. Cardinality(t) \in Nat /\ Cardinality(s) \in Nat
    BY <1>1
  <2> QED
    BY <2>1, <2>2, <2>3
<1>7. Cardinality(t) \in sizes
  OBVIOUS
<1>8. n <= Cardinality(t)
  <2> HIDE DEF sizes
  <2> QED
    BY <1>3, <1>7
<1> QED
  BY <1>1, <1>4, <1>6, <1>8

(* What a function makes of a finite set is finite. *)
LEMMA ImageIsFinite ==
  ASSUME NEW f, IsFiniteSet(DOMAIN f), NEW T, T \subseteq {f[x] : x \in DOMAIN f}
  PROVE  IsFiniteSet(T)
<1> DEFINE S == {f[x] : x \in DOMAIN f}
           g == [x \in DOMAIN f |-> f[x]]
<1>1. g \in Surjection(DOMAIN f, S)
  BY DEF Surjection
<1>2. IsFiniteSet(S)
  <2> HIDE DEF S, g
  <2> QED
    BY <1>1, FS_Surjection
<1> QED
  BY <1>2, FS_Subset

-----------------------------------------------------------------------------
First(s) == CHOOSE x \in s : TRUE
Rest(s) == s \ {First(s)}

LEMMA FirstOfSet ==
  ASSUME NEW s, s # {}
  PROVE  First(s) \in s /\ Rest(s) \subseteq s /\ Rest(s) # s
BY DEF First, Rest

(* g[s] is the sum of f over s, for every subset s of S. *)
Sums(f, g, S) ==
  g = [s \in SUBSET S |-> IF s = {} THEN 0 ELSE f[First(s)] + g[Rest(s)]]

LEMMA SumIsChosen ==
  ASSUME NEW f, NEW S
  PROVE  SumFunctionOnSet(f, S) = (CHOOSE g : Sums(f, g, S))[S]
BY DEF SumFunctionOnSet, FoldFunctionOnSet, MapThenFoldSet, Sums, First, Rest

LEMMA SumsAt ==
  ASSUME NEW f, NEW g, NEW S, Sums(f, g, S), NEW s \in SUBSET S
  PROVE  g[s] = IF s = {} THEN 0 ELSE f[First(s)] + g[Rest(s)]
BY DEF Sums

(* They agree wherever two of them are defined. *)
LEMMA SumsUnique ==
  ASSUME NEW f, NEW g, NEW h, NEW S, NEW T, IsFiniteSet(S), T \subseteq S,
         Sums(f, g, S), Sums(f, h, T), NEW s \in SUBSET T
  PROVE  g[s] = h[s]
<1> DEFINE failing == {u \in SUBSET T : g[u] # h[u]}
<1>1. ASSUME NEW u \in failing
      PROVE  \E t \in failing : t \subseteq u /\ t # u
  <2>1. /\ g[u] = IF u = {} THEN 0 ELSE f[First(u)] + g[Rest(u)]
        /\ h[u] = IF u = {} THEN 0 ELSE f[First(u)] + h[Rest(u)]
    BY SumsAt
  <2>2. u # {} /\ g[Rest(u)] # h[Rest(u)]
    BY <2>1
  <2> QED
    BY <2>2, FirstOfSet
<1>2. IsFiniteSet(T)
  BY FS_Subset
<1>3. failing = {}
  <2> HIDE DEF failing
  <2>1. failing \subseteq SUBSET T
    BY DEF failing
  <2> QED
    BY <1>1, <1>2, <2>1, NoSmallestCounterexample
<1> QED
  BY <1>3

(* They exist. *)
LEMMA SumsExist ==
  ASSUME NEW f, NEW S, IsFiniteSet(S)
  PROVE  \E g : Sums(f, g, S)
<1> DEFINE failing == {s \in SUBSET S : ~\E g : Sums(f, g, s)}
           sum(s) == (CHOOSE g : Sums(f, g, s))[s]
<1>1. ASSUME NEW s \in failing, \A t \in SUBSET s : t # s => \E g : Sums(f, g, t)
      PROVE  FALSE
  <2> DEFINE g == [t \in SUBSET s |-> IF t = {} THEN 0 ELSE f[First(t)] + sum(Rest(t))]
  <2>1. ASSUME NEW t \in SUBSET s, t # s
        PROVE  sum(t) = g[t]
    <3>1. Sums(f, CHOOSE h : Sums(f, h, t), t)
      BY <1>1, <2>1
    <3>2. sum(t) = IF t = {} THEN 0 ELSE f[First(t)] + (CHOOSE h : Sums(f, h, t))[Rest(t)]
      BY <3>1, SumsAt
    <3>3. ASSUME t # {}
          PROVE  (CHOOSE h : Sums(f, h, t))[Rest(t)] = sum(Rest(t))
      <4>1. Rest(t) \subseteq t /\ Rest(t) # t /\ Rest(t) \in SUBSET s /\ Rest(t) # s
        BY <2>1, <3>3, FirstOfSet
      <4>2. Sums(f, CHOOSE h : Sums(f, h, Rest(t)), Rest(t))
        BY <1>1, <4>1
      <4>3. IsFiniteSet(t)
        BY FS_Subset
      <4> QED
        BY <3>1, <4>1, <4>2, <4>3, SumsUnique
    <3> QED
      BY <3>2, <3>3
  <2>2. ASSUME NEW t \in SUBSET s, t # {}
        PROVE  g[Rest(t)] = sum(Rest(t))
    <3>1. Rest(t) \in SUBSET s /\ Rest(t) # s
      BY <2>2, FirstOfSet
    <3> HIDE DEF g, sum
    <3> QED
      BY <2>1, <3>1
  <2>3. Sums(f, g, s)
    <3> HIDE DEF sum
    <3>1. g = [t \in SUBSET s |-> IF t = {} THEN 0 ELSE f[First(t)] + g[Rest(t)]]
      BY <2>2
    <3> HIDE DEF g
    <3> QED
      BY <3>1 DEF Sums
  <2> QED
    BY <2>3
<1>2. \A s \in failing : \E t \in failing : t \subseteq s /\ t # s
  BY <1>1
<1>3. failing = {}
  <2> HIDE DEF failing
  <2>1. failing \subseteq SUBSET S
    BY DEF failing
  <2> QED
    BY <1>2, <2>1, NoSmallestCounterexample
<1> QED
  BY <1>3

-----------------------------------------------------------------------------
(***************************************************************************)
(* What a sum over a finite set is, and that it is a number, does not      *)
(* depend on the order and only on the values summed.                      *)
(***************************************************************************)
LEMMA SumRecursion ==
  ASSUME NEW f, NEW S, IsFiniteSet(S)
  PROVE  SumFunctionOnSet(f, S) =
           IF S = {} THEN 0 ELSE f[First(S)] + SumFunctionOnSet(f, Rest(S))
<1> DEFINE g == CHOOSE g : Sums(f, g, S)
           h == CHOOSE h : Sums(f, h, Rest(S))
<1>1. Sums(f, g, S)
  BY SumsExist
<1>2. IsFiniteSet(Rest(S)) /\ Rest(S) \subseteq S
  BY FS_Subset DEF Rest
<1>3. Sums(f, h, Rest(S))
  BY <1>2, SumsExist
<1>4. SumFunctionOnSet(f, S) = g[S] /\ SumFunctionOnSet(f, Rest(S)) = h[Rest(S)]
  BY SumIsChosen
<1> HIDE DEF g, h
<1>5. g[Rest(S)] = h[Rest(S)]
  BY <1>1, <1>2, <1>3, SumsUnique
<1>6. g[S] = IF S = {} THEN 0 ELSE f[First(S)] + g[Rest(S)]
  BY <1>1, SumsAt
<1> QED
  BY <1>4, <1>5, <1>6

LEMMA SumTyped ==
  ASSUME NEW f, NEW S, IsFiniteSet(S), \A x \in S : f[x] \in Nat
  PROVE  SumFunctionOnSet(f, S) \in Nat
<1> DEFINE failing == {s \in SUBSET S : SumFunctionOnSet(f, s) \notin Nat}
<1>1. ASSUME NEW s \in failing
      PROVE  \E t \in failing : t \subseteq s /\ t # s
  <2>1. IsFiniteSet(s)
    BY FS_Subset
  <2>2. SumFunctionOnSet(f, s) =
          IF s = {} THEN 0 ELSE f[First(s)] + SumFunctionOnSet(f, Rest(s))
    BY <2>1, SumRecursion
  <2>3. s # {}
    BY <2>2
  <2>4. First(s) \in s /\ Rest(s) \subseteq s /\ Rest(s) # s
    BY <2>3, FirstOfSet
  <2>5. SumFunctionOnSet(f, Rest(s)) \notin Nat
    BY <2>2, <2>3, <2>4
  <2> QED
    BY <2>4, <2>5
<1>2. failing = {}
  <2> HIDE DEF failing
  <2>1. failing \subseteq SUBSET S
    BY DEF failing
  <2> QED
    BY <1>1, <2>1, NoSmallestCounterexample
<1> QED
  BY <1>2

LEMMA SumAgrees ==
  ASSUME NEW f, NEW g, NEW S, IsFiniteSet(S), \A x \in S : f[x] = g[x]
  PROVE  SumFunctionOnSet(f, S) = SumFunctionOnSet(g, S)
<1> DEFINE failing == {s \in SUBSET S : SumFunctionOnSet(f, s) # SumFunctionOnSet(g, s)}
<1>1. ASSUME NEW s \in failing
      PROVE  \E t \in failing : t \subseteq s /\ t # s
  <2>1. IsFiniteSet(s)
    BY FS_Subset
  <2>2. /\ SumFunctionOnSet(f, s) =
             IF s = {} THEN 0 ELSE f[First(s)] + SumFunctionOnSet(f, Rest(s))
        /\ SumFunctionOnSet(g, s) =
             IF s = {} THEN 0 ELSE g[First(s)] + SumFunctionOnSet(g, Rest(s))
    BY <2>1, SumRecursion
  <2>3. s # {}
    BY <2>2
  <2>4. First(s) \in s /\ Rest(s) \subseteq s /\ Rest(s) # s
    BY <2>3, FirstOfSet
  <2>5. f[First(s)] = g[First(s)]
    BY <2>4
  <2>6. SumFunctionOnSet(f, Rest(s)) # SumFunctionOnSet(g, Rest(s))
    BY <2>2, <2>3, <2>5
  <2> QED
    BY <2>4, <2>6
<1>2. failing = {}
  <2> HIDE DEF failing
  <2>1. failing \subseteq SUBSET S
    BY DEF failing
  <2> QED
    BY <1>1, <2>1, NoSmallestCounterexample
<1> QED
  BY <1>2

(* Any element may be summed first. *)
LEMMA SumSplit ==
  ASSUME NEW f, NEW S, IsFiniteSet(S), \A x \in S : f[x] \in Nat, NEW e \in S
  PROVE  SumFunctionOnSet(f, S) = f[e] + SumFunctionOnSet(f, S \ {e})
<1> DEFINE sum(s) == SumFunctionOnSet(f, s)
           failing == {s \in SUBSET S : \E x \in s : sum(s) # f[x] + sum(s \ {x})}
<1>1. ASSUME NEW s \in failing
      PROVE  \E t \in failing : t \subseteq s /\ t # s
  <2>1. PICK x \in s : sum(s) # f[x] + sum(s \ {x})
    OBVIOUS
  <2> DEFINE y == First(s)
  <2>2. /\ y \in s /\ Rest(s) = s \ {y}
        /\ Rest(s) \subseteq s /\ Rest(s) # s
    BY FirstOfSet DEF Rest
  <2> HIDE DEF y
  <2>3. IsFiniteSet(s) /\ IsFiniteSet(s \ {x}) /\ IsFiniteSet(s \ {y})
        /\ IsFiniteSet(s \ {x, y})
    BY FS_Subset
  <2>4. sum(s) = f[y] + sum(s \ {y})
    BY <2>2, <2>3, SumRecursion DEF y
  <2>5. x # y
    BY <2>1, <2>4
  <2>6. sum(s \ {x, y}) \in Nat /\ f[x] \in Nat /\ f[y] \in Nat
    BY <2>2, <2>3, SumTyped
  <2>7. (s \ {x}) \ {y} = s \ {x, y} /\ (s \ {y}) \ {x} = s \ {x, y}
    OBVIOUS
  <2>8. \/ sum(s \ {x}) # f[y] + sum(s \ {x, y})
        \/ sum(s \ {y}) # f[x] + sum(s \ {x, y})
    <3> HIDE DEF sum
    <3> QED
      BY <2>1, <2>4, <2>6
  <2>9. /\ s \ {x} \in SUBSET S /\ s \ {y} \in SUBSET S
        /\ y \in s \ {x} /\ x \in s \ {y}
        /\ s \ {x} # s /\ s \ {y} # s
    BY <2>2, <2>5
  <2> HIDE DEF sum
  <2>10. s \ {x} \in failing \/ s \ {y} \in failing
    BY <2>7, <2>8, <2>9
  <2> QED
    BY <2>9, <2>10
<1>2. failing = {}
  <2> HIDE DEF failing
  <2>1. failing \subseteq SUBSET S
    BY DEF failing
  <2> QED
    BY <1>1, <2>1, NoSmallestCounterexample
<1>3. S \in SUBSET S
  OBVIOUS
<1> QED
  BY <1>2, <1>3

(* A sum changes by what the one element that changes contributes. *)
LEMMA SumChanges ==
  ASSUME NEW f, NEW S, IsFiniteSet(S), \A x \in S : f[x] \in Nat,
         NEW g, NEW T, IsFiniteSet(T), \A x \in T : g[x] \in Nat,
         NEW e, S \ {e} = T \ {e}, \A x \in S \ {e} : f[x] = g[x]
  PROVE  SumFunctionOnSet(g, T) + (IF e \in S THEN f[e] ELSE 0)
           = SumFunctionOnSet(f, S) + (IF e \in T THEN g[e] ELSE 0)
<1> DEFINE rest == SumFunctionOnSet(f, S \ {e})
<1>1. IsFiniteSet(S \ {e})
  BY FS_Subset
<1>2. rest \in Nat
  BY <1>1, SumTyped
<1>3. SumFunctionOnSet(g, T \ {e}) = rest
  BY <1>1, SumAgrees
<1>4. ASSUME e \in S
      PROVE  SumFunctionOnSet(f, S) = f[e] + rest
  BY <1>4, SumSplit
<1>5. e \notin S => SumFunctionOnSet(f, S) = rest
  <2>1. e \notin S => S \ {e} = S
    OBVIOUS
  <2> QED
    BY <2>1, Zenon
<1>6. ASSUME e \in T
      PROVE  SumFunctionOnSet(g, T) = g[e] + SumFunctionOnSet(g, T \ {e})
  BY <1>6, SumSplit
<1>7. e \notin T => SumFunctionOnSet(g, T) = SumFunctionOnSet(g, T \ {e})
  <2>1. e \notin T => T \ {e} = T
    OBVIOUS
  <2> QED
    BY <2>1, Zenon
<1>8. (e \in S => f[e] \in Nat) /\ (e \in T => g[e] \in Nat)
  OBVIOUS
<1>9. SumFunctionOnSet(f, S) = (IF e \in S THEN f[e] ELSE 0) + rest
  <2>1. CASE e \in S
    BY <1>4, <2>1
  <2>2. CASE e \notin S
    BY <1>2, <1>5, <2>2
  <2> QED
    BY <2>1, <2>2
<1> HIDE DEF rest
<1>10. SumFunctionOnSet(g, T) = (IF e \in T THEN g[e] ELSE 0) + rest
  <2>1. CASE e \in T
    BY <1>3, <1>6, <2>1
  <2>2. CASE e \notin T
    BY <1>2, <1>3, <1>7, <2>2
  <2> QED
    BY <2>1, <2>2
<1> QED
  BY <1>2, <1>8, <1>9, <1>10

(* Counting, for every value of f, the elements that have it counts all. *)
LEMMA SumOfFibers ==
  ASSUME NEW S, IsFiniteSet(S), NEW f,
         NEW V, IsFiniteSet(V), \A k \in S : f[k] \in V,
         NEW g, \A v \in V : g[v] = Cardinality({k \in S : f[k] = v})
  PROVE  SumFunctionOnSet(g, V) = Cardinality(S)
<1> DEFINE over(W) == {k \in S : f[k] \in W}
           sum(W)  == SumFunctionOnSet(g, W)
           failing == {W \in SUBSET V : sum(W) # Cardinality(over(W))}
<1>1. \A W : IsFiniteSet(over(W)) /\ Cardinality(over(W)) \in Nat
  <2> SUFFICES ASSUME NEW W PROVE IsFiniteSet(over(W)) /\ Cardinality(over(W)) \in Nat
    OBVIOUS
  <2>1. over(W) \in SUBSET S
    OBVIOUS
  <2> HIDE DEF over
  <2> QED
    BY <2>1, FS_Subset, FS_CardinalityType
<1>2. \A v \in V : g[v] = Cardinality(over({v})) /\ g[v] \in Nat
  <2> SUFFICES ASSUME NEW v \in V PROVE g[v] = Cardinality(over({v})) /\ g[v] \in Nat
    OBVIOUS
  <2>1. over({v}) = {k \in S : f[k] = v}
    OBVIOUS
  <2>2. g[v] = Cardinality({k \in S : f[k] = v})
    OBVIOUS
  <2>3. g[v] = Cardinality(over({v}))
    BY <2>1, <2>2, Zenon
  <2> HIDE DEF over
  <2> QED
    BY <1>1, <2>3
<1>3. ASSUME NEW W \in failing
      PROVE  \E U \in failing : U \subseteq W /\ U # W
  <2>1. IsFiniteSet(W)
    BY FS_Subset
  <2>2. W # {}
    <3> SUFFICES ASSUME W = {} PROVE FALSE
      OBVIOUS
    <3>1. sum({}) = 0
      BY FS_EmptySet, SumRecursion
    <3>2. over({}) = {}
      OBVIOUS
    <3>3. Cardinality(over({})) = 0
      BY <3>2, FS_EmptySet, Zenon
    <3> HIDE DEF sum, over
    <3> QED
      BY <3>1, <3>3
  <2>3. PICK v \in W : TRUE
    BY <2>2
  <2> DEFINE U == W \ {v}
  <2>4. U \in SUBSET V /\ U \subseteq W /\ U # W
    OBVIOUS
  <2>5. sum(W) = g[v] + sum(U)
    <3>1. \A x \in W : g[x] \in Nat
      BY <1>2
    <3>2. SumFunctionOnSet(g, W) = g[v] + SumFunctionOnSet(g, W \ {v})
      BY <2>1, <3>1, SumSplit
    <3> QED
      BY <3>2
  <2>6. over(W) = over(U) \cup over({v}) /\ over(U) \cap over({v}) = {}
    OBVIOUS
  <2> HIDE DEF over
  <2>7. Cardinality(over(W)) = Cardinality(over(U)) + Cardinality(over({v}))
    <3>1. Cardinality(over(U) \cup over({v}))
            = Cardinality(over(U)) + Cardinality(over({v})) - Cardinality(over(U) \cap over({v}))
      BY <1>1, FS_Union
    <3>2. Cardinality(over(U) \cap over({v})) = 0
      BY <2>6, FS_EmptySet, Zenon
    <3>3. Cardinality(over(W)) = Cardinality(over(U) \cup over({v}))
      BY <2>6, Zenon
    <3> QED
      BY <1>1, <3>1, <3>2, <3>3
  <2>8. v \in V /\ sum(W) # Cardinality(over(W))
    OBVIOUS
  <2> HIDE DEF U, sum
  <2>9. sum(U) # Cardinality(over(U))
    BY <1>1, <1>2, <2>5, <2>7, <2>8
  <2> QED
    BY <2>4, <2>9
<1>4. failing = {}
  <2> HIDE DEF failing
  <2>1. failing \subseteq SUBSET V
    BY DEF failing
  <2> QED
    BY <1>3, <2>1, NoSmallestCounterexample
<1>5. sum(V) = Cardinality(over(V))
  <2>1. V \in SUBSET V
    OBVIOUS
  <2> QED
    BY <1>4, <2>1
<1>6. over(V) = S
  OBVIOUS
<1> QED
  BY <1>5, <1>6, Zenon
=============================================================================
