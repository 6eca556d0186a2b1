----------------------------- MODULE FiniteSums -----------------------------
(***************************************************************************)
(* Facts about least numbers and about sums over finite sets that proofs   *)
(* about the components need.  The induction theorems of the library take  *)
(* an operator as a parameter and cannot be instantiated here; each proof  *)
(* below takes the least counterexample instead.                           *)
(***************************************************************************)
EXTENDS Integers, FiniteSets, Functions, FiniteSetTheorems, TLAPS

-----------------------------------------------------------------------------
(* Least and greatest numbers.  If a set of numbers had no least one, its  *)
(* strict lower bounds would be closed under the successor, which would    *)
(* map a finite set one to one into itself but miss 0.                     *)

LEMMA LeastNumber ==
  ASSUME NEW T \in SUBSET Nat, T # {}
  PROVE  \E m \in T : \A k \in T : m <= k
<1>1. SUFFICES ASSUME \A m \in T : \E k \in T : k < m
               PROVE  FALSE
  OBVIOUS
<1>2. PICK n \in T : TRUE
  OBVIOUS
<1> DEFINE L == { x \in 0..n : \A k \in T : x < k }
           Next1 == [x \in L |-> x + 1]
<1>3. 0 \in L
  BY <1>1
<1>4. \A x \in L : x + 1 \in L
  <2>1. TAKE x \in L
  <2>2. \A k \in T : x + 1 <= k
    OBVIOUS
  <2>3. \A k \in T : x + 1 # k
    BY <1>1, <2>2
  <2> QED BY <2>2, <2>3, <1>2
<1>5. IsFiniteSet(L)
  <2>1. IsFiniteSet(0..n)
    BY FS_Interval
  <2>2. L \in SUBSET (0..n)
    OBVIOUS
  <2> QED BY <2>1, <2>2, FS_Subset
<1>6. Next1 \in Injection(L, L)
  BY <1>4 DEF Injection, IsInjective
<1>7. Next1 \in Surjection(L, L)
  BY <1>5, <1>6, FS_Injection
<1>8. PICK x \in L : Next1[x] = 0
  BY <1>3, <1>7 DEF Surjection
<1> QED BY <1>8

LEMMA GreatestNumber ==
  ASSUME NEW T \in SUBSET Nat, T # {}, NEW n \in Nat, \A k \in T : k <= n
  PROVE  \E m \in T : \A k \in T : k <= m
<1> DEFINE U == { u \in 0..n : n - u \in T }
<1>1. U \in SUBSET Nat /\ \A k \in T : n - k \in U
  OBVIOUS
<1>2. U # {}
  BY <1>1
<1>3. PICK u \in U : \A v \in U : u <= v
  BY <1>1, <1>2, LeastNumber
<1>4. \A k \in T : k <= n - u
  BY <1>1, <1>3
<1> QED BY <1>3, <1>4

-----------------------------------------------------------------------------
(* Sums.  SumFunctionOnSet adds up a function by a recursive function over *)
(* the subsets of the set, which picks one element after the other.        *)

Pick(s) == CHOOSE x \in s : TRUE

IsSum(g, f, S) ==
  g = [s \in SUBSET S |-> IF s = {} THEN 0 ELSE f[Pick(s)] + g[s \ {Pick(s)}]]

LEMMA SumIsChosen ==
  ASSUME NEW f, NEW S
  PROVE  SumFunctionOnSet(f, S) = (CHOOSE g : IsSum(g, f, S))[S]
<1> DEFINE iter[s \in SUBSET S] ==
             IF s = {} THEN 0 ELSE f[Pick(s)] + iter[s \ {Pick(s)}]
<1>1. iter = CHOOSE g : IsSum(g, f, S)
  BY DEF IsSum
<1>2. SumFunctionOnSet(f, S) = iter[S]
  BY DEF SumFunctionOnSet, FoldFunctionOnSet, MapThenFoldSet, Pick
<1> QED BY <1>1, <1>2

LEMMA SmallerSet ==
  ASSUME NEW S, IsFiniteSet(S), NEW x \in S
  PROVE  /\ IsFiniteSet(S \ {x}) /\ Cardinality(S) \in Nat
         /\ Cardinality(S \ {x}) = Cardinality(S) - 1
         /\ Cardinality(S) > 0
<1>1. /\ IsFiniteSet(S \ {x}) /\ Cardinality(S) \in Nat
      /\ Cardinality(S \ {x}) = Cardinality(S) - 1
      /\ Cardinality(S \ {x}) \in Nat
  BY FS_RemoveElement, FS_CardinalityType
<1> QED BY <1>1

(* The recursive function exists: it is built up over the subsets of at    *)
(* most k elements.                                                        *)
Layer(S, k) == {s \in SUBSET S : Cardinality(s) <= k}
IsSumTo(g, f, S, k) ==
  g = [s \in Layer(S, k) |->
         IF s = {} THEN 0 ELSE f[Pick(s)] + g[s \ {Pick(s)}]]

LEMMA SumToExists ==
  ASSUME NEW f, NEW S, IsFiniteSet(S), NEW n \in Nat
  PROVE  \E g : IsSumTo(g, f, S, n)
<1> DEFINE T == { k \in Nat : ~ \E g : IsSumTo(g, f, S, k) }
<1>1. SUFFICES ASSUME T # {} PROVE FALSE
  OBVIOUS
<1>2. PICK k \in T : \A i \in T : k <= i
  BY <1>1, LeastNumber
<1>3. ASSUME NEW s \in SUBSET S, s # {}
      PROVE  /\ Pick(s) \in s /\ s \ {Pick(s)} \in SUBSET S
             /\ Cardinality(s) \in Nat /\ Cardinality(s) > 0
             /\ Cardinality(s \ {Pick(s)}) = Cardinality(s) - 1
  <2>1. IsFiniteSet(s) /\ Pick(s) \in s
    BY <1>3, FS_Subset DEF Pick
  <2> QED BY <2>1, SmallerSet
<1>4. k # 0
  <2>1. ASSUME NEW s \in Layer(S, 0) PROVE s = {}
    <3>1. s \in SUBSET S /\ Cardinality(s) <= 0
      BY DEF Layer
    <3>2. s # {} => Cardinality(s) \in Nat /\ Cardinality(s) > 0
      BY <1>3, <3>1
    <3> QED BY <3>1, <3>2
  <2> DEFINE z == [s \in Layer(S, 0) |-> 0]
  <2>2. z = [s \in Layer(S, 0) |-> z[s]] /\ \A s \in Layer(S, 0) : z[s] = 0
    OBVIOUS
  <2> HIDE DEF z
  <2>3. IsSumTo(z, f, S, 0)
    BY <2>1, <2>2 DEF IsSumTo
  <2> QED BY <2>3
<1>5. PICK g : IsSumTo(g, f, S, k - 1)
  BY <1>2, <1>4
<1> DEFINE h == [s \in Layer(S, k) |->
                   IF s = {} THEN 0 ELSE f[Pick(s)] + g[s \ {Pick(s)}]]
<1>6. \A s \in Layer(S, k - 1) :
        /\ s \in Layer(S, k)
        /\ h[s] = g[s]
  <2>1. TAKE s \in Layer(S, k - 1)
  <2>2. s \in Layer(S, k)
    <3>1. Cardinality(s) \in Nat
      BY FS_Subset, FS_CardinalityType DEF Layer
    <3> QED BY <3>1 DEF Layer
  <2>3. g[s] = IF s = {} THEN 0 ELSE f[Pick(s)] + g[s \ {Pick(s)}]
    BY <1>5 DEF IsSumTo
  <2> QED BY <2>2, <2>3
<1>7. \A s \in Layer(S, k) :
        h[s] = IF s = {} THEN 0 ELSE f[Pick(s)] + h[s \ {Pick(s)}]
  <2>1. TAKE s \in Layer(S, k)
  <2>2. CASE s = {}
    BY <2>2
  <2>3. CASE s # {}
    <3>1. s \ {Pick(s)} \in Layer(S, k - 1)
      BY <1>2, <1>3, <2>3 DEF Layer
    <3>2. h[s \ {Pick(s)}] = g[s \ {Pick(s)}]
      BY <1>6, <3>1
    <3> QED BY <2>3, <3>2
  <2> QED BY <2>2, <2>3
<1>8. IsSumTo(h, f, S, k)
  <2>1. h = [s \in Layer(S, k) |-> h[s]]
    OBVIOUS
  <2> HIDE DEF h
  <2> QED BY <1>7, <2>1 DEF IsSumTo
<1> QED BY <1>2, <1>8

LEMMA SumExists ==
  ASSUME NEW f, NEW S, IsFiniteSet(S)
  PROVE  IsSum(CHOOSE g : IsSum(g, f, S), f, S)
<1>1. Cardinality(S) \in Nat
  BY FS_CardinalityType
<1>2. PICK g : IsSumTo(g, f, S, Cardinality(S))
  BY <1>1, SumToExists
<1>3. Layer(S, Cardinality(S)) = SUBSET S
  BY FS_Subset DEF Layer
<1>4. IsSum(g, f, S)
  BY <1>2, <1>3 DEF IsSum, IsSumTo
<1> QED BY <1>4

(* Only the values on a subset matter to its sum.                          *)
LEMMA SumsAgree ==
  ASSUME NEW S, IsFiniteSet(S), NEW T, T \subseteq S,
         NEW f, NEW h, NEW g1, IsSum(g1, f, S), NEW g2, IsSum(g2, h, T),
         \A x \in T : f[x] = h[x]
  PROVE  g1[T] = g2[T]
<1> DEFINE Wrong == { s \in SUBSET T : g1[s] # g2[s] }
           Sizes == { Cardinality(s) : s \in Wrong }
<1>1. SUFFICES ASSUME Wrong # {} PROVE FALSE
  OBVIOUS
<1>2. \A s \in SUBSET T : IsFiniteSet(s) /\ Cardinality(s) \in Nat
  <2>1. IsFiniteSet(T)
    BY FS_Subset
  <2> QED BY <2>1, FS_Subset, FS_CardinalityType
<1>3. PICK m \in Sizes : \A k \in Sizes : m <= k
  <2>1. Sizes \in SUBSET Nat /\ Sizes # {}
    BY <1>1, <1>2
  <2> HIDE DEF Sizes
  <2> QED BY <2>1, LeastNumber
<1>4. PICK s \in Wrong : m = Cardinality(s)
  OBVIOUS
<1>5. /\ s \in SUBSET T /\ g1[s] # g2[s]
      /\ s \in SUBSET S /\ s \in SUBSET T
  OBVIOUS
<1>6. /\ g1[s] = IF s = {} THEN 0 ELSE f[Pick(s)] + g1[s \ {Pick(s)}]
      /\ g2[s] = IF s = {} THEN 0 ELSE h[Pick(s)] + g2[s \ {Pick(s)}]
  BY <1>5 DEF IsSum
<1>7. s # {} /\ Pick(s) \in s
  BY <1>5, <1>6 DEF Pick
<1> DEFINE t == s \ {Pick(s)}
<1>8. t \in SUBSET T /\ Cardinality(t) < m
  BY <1>2, <1>4, <1>5, <1>7, SmallerSet
<1>9. t \notin Wrong
  <2>1. Cardinality(t) \in Nat /\ m \in Nat
    BY <1>2, <1>4, <1>5, <1>8
  <2> QED BY <1>3, <1>8, <2>1
<1>10. g1[t] = g2[t]
  BY <1>8, <1>9
<1> QED BY <1>5, <1>6, <1>7, <1>10

(* What the proofs use: one element after the other may be taken out of a  *)
(* sum, in any order.                                                      *)
LEMMA SumOfNone ==
  ASSUME NEW f
  PROVE  SumFunctionOnSet(f, {}) = 0
<1>1. IsFiniteSet({})
  BY FS_EmptySet
<1> DEFINE g == CHOOSE g : IsSum(g, f, {})
<1>2. IsSum(g, f, {})
  BY <1>1, SumExists
<1>3. SumFunctionOnSet(f, {}) = g[{}]
  BY SumIsChosen
<1> HIDE DEF g
<1> QED BY <1>2, <1>3 DEF IsSum

LEMMA SumOfSame ==
  ASSUME NEW S, IsFiniteSet(S), NEW f, NEW h, \A x \in S : f[x] = h[x]
  PROVE  SumFunctionOnSet(f, S) = SumFunctionOnSet(h, S)
<1> DEFINE g1 == CHOOSE g : IsSum(g, f, S)
           g2 == CHOOSE g : IsSum(g, h, S)
<1>1. IsSum(g1, f, S) /\ IsSum(g2, h, S)
  BY SumExists
<1>2. SumFunctionOnSet(f, S) = g1[S] /\ SumFunctionOnSet(h, S) = g2[S]
  BY SumIsChosen
<1> HIDE DEF g1, g2
<1> QED BY <1>1, <1>2, SumsAgree

LEMMA SumOfSome ==
  ASSUME NEW S, IsFiniteSet(S), S # {}, NEW f
  PROVE  SumFunctionOnSet(f, S)
           = f[Pick(S)] + SumFunctionOnSet(f, S \ {Pick(S)})
<1> DEFINE T == S \ {Pick(S)}
           g1 == CHOOSE g : IsSum(g, f, S)
           g2 == CHOOSE g : IsSum(g, f, T)
<1>1. IsFiniteSet(T) /\ T \in SUBSET S
  BY FS_Subset
<1>2. IsSum(g1, f, S) /\ IsSum(g2, f, T)
  BY <1>1, SumExists
<1>3. SumFunctionOnSet(f, S) = g1[S] /\ SumFunctionOnSet(f, T) = g2[T]
  BY SumIsChosen
<1> HIDE DEF g1, g2
<1>4. g1[T] = g2[T]
  <2>1. T \subseteq S
    OBVIOUS
  <2> HIDE DEF T
  <2> QED BY <1>2, <2>1, SumsAgree
<1>5. g1[S] = f[Pick(S)] + g1[T]
  BY <1>2 DEF IsSum
<1> QED BY <1>3, <1>4, <1>5

(* A statement about the sums of all finite sets fails, if it fails, for a *)
(* smallest one.                                                           *)
LEMMA SmallestSet ==
  ASSUME NEW Bad, Bad # {}, \A S \in Bad : IsFiniteSet(S)
  PROVE  \E S \in Bad : \A T \in Bad : ~(T \subseteq S /\ T # S)
<1> DEFINE Sizes == { Cardinality(S) : S \in Bad }
<1>1. \A S \in Bad : Cardinality(S) \in Nat
  BY FS_CardinalityType
<1>2. PICK m \in Sizes : \A k \in Sizes : m <= k
  <2>1. Sizes \in SUBSET Nat /\ Sizes # {}
    BY <1>1
  <2> HIDE DEF Sizes
  <2> QED BY <2>1, LeastNumber
<1>3. PICK S \in Bad : m = Cardinality(S)
  OBVIOUS
<1>4. ASSUME NEW T \in Bad, T \subseteq S, T # S PROVE FALSE
  <2>1. Cardinality(T) \in Sizes
    OBVIOUS
  <2>2. /\ Cardinality(T) <= Cardinality(S)
        /\ Cardinality(T) # Cardinality(S)
    BY <1>3, <1>4, FS_Subset
  <2>3. Cardinality(S) <= Cardinality(T)
    BY <1>2, <1>3, <2>1
  <2> QED BY <1>1, <1>3, <2>2, <2>3
<1> QED BY <1>3, <1>4

LEMMA SumIsInteger ==
  ASSUME NEW A, NEW f \in [A -> Int], NEW S \in SUBSET A, IsFiniteSet(S)
  PROVE  SumFunctionOnSet(f, S) \in Int
<1> DEFINE Bad == { T \in SUBSET S : SumFunctionOnSet(f, T) \notin Int }
<1>1. SUFFICES ASSUME Bad # {} PROVE FALSE
  OBVIOUS
<1>2. \A T \in Bad : IsFiniteSet(T)
  BY FS_Subset
<1>3. PICK T \in Bad : \A U \in Bad : ~(U \subseteq T /\ U # T)
  <2> HIDE DEF Bad
  <2> QED BY <1>1, <1>2, SmallestSet
<1>4. T # {}
  <2>1. SumFunctionOnSet(f, {}) \in Int
    BY SumOfNone
  <2> QED BY <2>1
<1>5. Pick(T) \in T /\ Pick(T) \in A
  BY <1>4 DEF Pick
<1>6. SumFunctionOnSet(f, T \ {Pick(T)}) \in Int
  <2> DEFINE U == T \ {Pick(T)}
  <2>1. U \subseteq T /\ U # T /\ U \in SUBSET S
    BY <1>5
  <2> HIDE DEF U
  <2>2. U \notin Bad
    BY <1>3, <2>1
  <2>3. SumFunctionOnSet(f, U) \in Int
    BY <2>1, <2>2
  <2> QED BY <2>3 DEF U
<1>7. SumFunctionOnSet(f, T) = f[Pick(T)] + SumFunctionOnSet(f, T \ {Pick(T)})
  BY <1>2, <1>4, SumOfSome
<1>8. f[Pick(T)] \in Int
  BY <1>5
<1> QED BY <1>6, <1>7, <1>8

(* Any element may be the one taken out.                                   *)
LEMMA SumTakesOut ==
  ASSUME NEW A, NEW f \in [A -> Int], NEW S \in SUBSET A, IsFiniteSet(S),
         NEW x \in S
  PROVE  SumFunctionOnSet(f, S) = f[x] + SumFunctionOnSet(f, S \ {x})
<1> DEFINE Bad == { T \in SUBSET S : \E y \in T :
              SumFunctionOnSet(f, T) # f[y] + SumFunctionOnSet(f, T \ {y}) }
<1>1. SUFFICES ASSUME Bad # {} PROVE FALSE
  OBVIOUS
<1>2. \A T \in SUBSET S : IsFiniteSet(T) /\ SumFunctionOnSet(f, T) \in Int
  BY FS_Subset, SumIsInteger
<1>3. PICK T \in Bad : \A U \in Bad : ~(U \subseteq T /\ U # T)
  <2>1. \A T \in Bad : IsFiniteSet(T)
    BY <1>2
  <2> HIDE DEF Bad
  <2> QED BY <1>1, <2>1, SmallestSet
<1>4. PICK y \in T : SumFunctionOnSet(f, T) # f[y] + SumFunctionOnSet(f, T \ {y})
  OBVIOUS
<1>5. T \in SUBSET S
  OBVIOUS
<1> DEFINE p == Pick(T)
           both == (T \ {p}) \ {y}
<1>6. p \in T
  BY DEF Pick
<1>7. SumFunctionOnSet(f, T) = f[p] + SumFunctionOnSet(f, T \ {p})
  BY <1>2, <1>4, <1>5, SumOfSome
<1>8. p # y
  BY <1>4, <1>7
<1> HIDE DEF p
<1>9. ASSUME NEW q \in T, NEW z \in T \ {q}
      PROVE  SumFunctionOnSet(f, T \ {q}) = f[z] + SumFunctionOnSet(f, (T \ {q}) \ {z})
  <2> DEFINE U == T \ {q}
  <2>1. U \in SUBSET S /\ U \subseteq T /\ U # T /\ z \in U
    BY <1>5
  <2> HIDE DEF U
  <2>2. U \notin Bad
    BY <1>3, <2>1
  <2>3. SumFunctionOnSet(f, U) = f[z] + SumFunctionOnSet(f, U \ {z})
    BY <2>1, <2>2
  <2> QED BY <2>3 DEF U
<1>10. /\ SumFunctionOnSet(f, T \ {p}) = f[y] + SumFunctionOnSet(f, both)
       /\ SumFunctionOnSet(f, T \ {y}) = f[p] + SumFunctionOnSet(f, both)
  <2>1. both = (T \ {y}) \ {p}
    OBVIOUS
  <2>2. y \in T \ {p} /\ p \in T \ {y}
    BY <1>6, <1>8
  <2> QED BY <1>6, <1>9, <2>1, <2>2
<1>11. f[p] \in Int /\ f[y] \in Int /\ SumFunctionOnSet(f, both) \in Int
  <2>1. both \in SUBSET S
    BY <1>5
  <2> QED BY <1>2, <1>5, <1>6, <2>1
<1> HIDE DEF both, Bad
<1> QED BY <1>4, <1>7, <1>10, <1>11

(* A set and the rest of another one have the sum of the other one.        *)
LEMMA SumOfParts ==
  ASSUME NEW A, NEW f \in [A -> Int], NEW S \in SUBSET A, IsFiniteSet(S),
         NEW P \in SUBSET S
  PROVE  SumFunctionOnSet(f, S)
           = SumFunctionOnSet(f, P) + SumFunctionOnSet(f, S \ P)
<1> DEFINE Bad == { T \in SUBSET S : SumFunctionOnSet(f, S)
              # SumFunctionOnSet(f, T) + SumFunctionOnSet(f, S \ T) }
<1>1. SUFFICES ASSUME Bad # {} PROVE FALSE
  OBVIOUS
<1>2. \A T \in SUBSET S : IsFiniteSet(T) /\ SumFunctionOnSet(f, T) \in Int
  BY FS_Subset, SumIsInteger
<1>3. PICK T \in Bad : \A U \in Bad : ~(U \subseteq T /\ U # T)
  <2>1. \A T \in Bad : IsFiniteSet(T)
    BY <1>2
  <2> HIDE DEF Bad
  <2> QED BY <1>1, <2>1, SmallestSet
<1>4. /\ T \in SUBSET S
      /\ SumFunctionOnSet(f, S) # SumFunctionOnSet(f, T) + SumFunctionOnSet(f, S \ T)
  OBVIOUS
<1>5. T # {}
  <2>1. SUFFICES ASSUME T = {} PROVE FALSE
    OBVIOUS
  <2>2. S \ T = S
    BY <2>1
  <2>3. SumFunctionOnSet(f, T) = 0 /\ SumFunctionOnSet(f, S) \in Int
    BY <1>2, <2>1, SumOfNone
  <2> HIDE DEF Bad
  <2> QED BY <1>4, <2>2, <2>3
<1>6. PICK x \in T : TRUE
  BY <1>5
<1> DEFINE U == T \ {x}
<1>7. U \in SUBSET S /\ U \subseteq T /\ U # T
  BY <1>4
<1>8. U \notin Bad
  <2> HIDE DEF Bad, U
  <2> QED BY <1>3, <1>7
<1>9. SumFunctionOnSet(f, S) = SumFunctionOnSet(f, U) + SumFunctionOnSet(f, S \ U)
  BY <1>7, <1>8
<1>10. SumFunctionOnSet(f, T) = f[x] + SumFunctionOnSet(f, U)
  BY <1>2, <1>4, SumTakesOut
<1>11. SumFunctionOnSet(f, S \ U) = f[x] + SumFunctionOnSet(f, S \ T)
  <2>1. /\ S \ U \in SUBSET A /\ x \in S \ U /\ (S \ U) \ {x} = S \ T
        /\ IsFiniteSet(S \ U)
    BY <1>2, <1>4
  <2> QED BY <2>1, SumTakesOut
<1>12. /\ f[x] \in Int /\ SumFunctionOnSet(f, U) \in Int
       /\ SumFunctionOnSet(f, S \ T) \in Int
  BY <1>2, <1>4, <1>7
<1> HIDE DEF Bad, U
<1> QED BY <1>4, <1>9, <1>10, <1>11, <1>12

(* Sums grow with their parts.                                             *)
LEMMA SumGrows ==
  ASSUME NEW A, NEW f \in [A -> Int], NEW h \in [A -> Int],
         NEW S \in SUBSET A, IsFiniteSet(S), \A x \in S : f[x] <= h[x]
  PROVE  SumFunctionOnSet(f, S) <= SumFunctionOnSet(h, S)
<1> DEFINE Bad == { T \in SUBSET S :
              ~(SumFunctionOnSet(f, T) <= SumFunctionOnSet(h, T)) }
<1>1. SUFFICES ASSUME Bad # {} PROVE FALSE
  OBVIOUS
<1>2. \A T \in SUBSET S : /\ IsFiniteSet(T) /\ T \in SUBSET A
                          /\ SumFunctionOnSet(f, T) \in Int
                          /\ SumFunctionOnSet(h, T) \in Int
  BY FS_Subset, SumIsInteger
<1>3. PICK T \in Bad : \A U \in Bad : ~(U \subseteq T /\ U # T)
  <2>1. \A T \in Bad : IsFiniteSet(T)
    BY <1>2
  <2> HIDE DEF Bad
  <2> QED BY <1>1, <2>1, SmallestSet
<1>4. T \in SUBSET S /\ ~(SumFunctionOnSet(f, T) <= SumFunctionOnSet(h, T))
  OBVIOUS
<1>5. T # {}
  BY <1>4, SumOfNone
<1>6. PICK x \in T : TRUE
  BY <1>5
<1> DEFINE U == T \ {x}
<1>7. U \in SUBSET S /\ U \subseteq T /\ U # T
  BY <1>4
<1>8. U \notin Bad
  <2> HIDE DEF Bad, U
  <2> QED BY <1>3, <1>7
<1>9. SumFunctionOnSet(f, U) <= SumFunctionOnSet(h, U)
  BY <1>7, <1>8
<1>10. /\ SumFunctionOnSet(f, T) = f[x] + SumFunctionOnSet(f, U)
       /\ SumFunctionOnSet(h, T) = h[x] + SumFunctionOnSet(h, U)
  BY <1>2, <1>4, SumTakesOut
<1>11. f[x] \in Int /\ h[x] \in Int /\ f[x] <= h[x]
  BY <1>4
<1> HIDE DEF Bad, U
<1> QED BY <1>2, <1>4, <1>7, <1>9, <1>10, <1>11

LEMMA SumOfEqual ==
  ASSUME NEW A, IsFiniteSet(A), NEW n \in Nat
  PROVE  SumFunctionOnSet([x \in A |-> n], A) = Cardinality(A) * n
<1> DEFINE f == [x \in A |-> n]
           Bad == { T \in SUBSET A : SumFunctionOnSet(f, T) # Cardinality(T) * n }
<1>1. SUFFICES ASSUME Bad # {} PROVE FALSE
  OBVIOUS
<1>2. \A T \in SUBSET A : /\ IsFiniteSet(T) /\ Cardinality(T) \in Nat
  BY FS_Subset, FS_CardinalityType
<1>3. PICK T \in Bad : \A U \in Bad : ~(U \subseteq T /\ U # T)
  <2>1. \A T \in Bad : IsFiniteSet(T)
    BY <1>2
  <2> HIDE DEF Bad
  <2> QED BY <1>1, <2>1, SmallestSet
<1>4. T \in SUBSET A /\ SumFunctionOnSet(f, T) # Cardinality(T) * n
  OBVIOUS
<1>5. T # {}
  <2>1. SUFFICES ASSUME T = {} PROVE FALSE
    OBVIOUS
  <2>2. SumFunctionOnSet(f, T) = 0 /\ Cardinality(T) = 0
    BY <2>1, SumOfNone, FS_EmptySet
  <2> HIDE DEF Bad, f
  <2> QED BY <1>4, <2>2
<1>6. PICK x \in T : TRUE
  BY <1>5
<1> DEFINE U == T \ {x}
<1>7. U \in SUBSET A /\ U \subseteq T /\ U # T
  BY <1>4
<1>8. U \notin Bad
  <2> HIDE DEF Bad, U
  <2> QED BY <1>3, <1>7
<1>9. SumFunctionOnSet(f, U) = Cardinality(U) * n
  BY <1>7, <1>8
<1>10. SumFunctionOnSet(f, T) = f[x] + SumFunctionOnSet(f, U)
  <2>1. f \in [A -> Int]
    OBVIOUS
  <2> HIDE DEF f
  <2> QED BY <1>2, <1>4, <2>1, SumTakesOut
<1>11. f[x] = n
  BY <1>4
<1>12. Cardinality(T) = Cardinality(U) + 1 /\ Cardinality(U) \in Nat
  <2>1. IsFiniteSet(T) /\ Cardinality(U) \in Nat
    BY <1>2, <1>4, <1>7
  <2>2. Cardinality(U) = Cardinality(T) - 1 /\ Cardinality(T) \in Nat
    BY <1>6, <2>1, SmallerSet
  <2> HIDE DEF U, Bad
  <2> QED BY <2>1, <2>2
<1>13. \A c \in Nat : (c + 1) * n = c * n + n
  OBVIOUS
<1>14. \A c \in Nat : c * n \in Int
  OBVIOUS
<1> HIDE DEF Bad, U, f
<1>15. Cardinality(T) * n = Cardinality(U) * n + n
  BY <1>12, <1>13
<1> QED BY <1>4, <1>9, <1>10, <1>11, <1>12, <1>14, <1>15

(* A function that changes at one place changes its sum by as much.        *)
LEMMA SumMoves ==
  ASSUME NEW A, IsFiniteSet(A), NEW f \in [A -> Int], NEW h \in [A -> Int],
         NEW x \in A, \A y \in A \ {x} : h[y] = f[y]
  PROVE  SumFunctionOnSet(h, A) = SumFunctionOnSet(f, A) + h[x] - f[x]
<1>1. /\ SumFunctionOnSet(f, A) = f[x] + SumFunctionOnSet(f, A \ {x})
      /\ SumFunctionOnSet(h, A) = h[x] + SumFunctionOnSet(h, A \ {x})
  BY SumTakesOut
<1>2. SumFunctionOnSet(h, A \ {x}) = SumFunctionOnSet(f, A \ {x})
  BY FS_Subset, SumOfSame
<1>3. SumFunctionOnSet(f, A \ {x}) \in Int
  BY FS_Subset, SumIsInteger
<1>4. f[x] \in Int /\ h[x] \in Int
  OBVIOUS
<1> QED BY <1>1, <1>2, <1>3, <1>4

LEMMA SumIsNatural ==
  ASSUME NEW A, NEW f \in [A -> Int], NEW S \in SUBSET A, IsFiniteSet(S),
         \A x \in S : 0 <= f[x]
  PROVE  SumFunctionOnSet(f, S) \in Nat
<1> DEFINE z == [x \in A |-> 0]
           e == [x \in S |-> 0]
<1>1. z \in [A -> Int] /\ \A x \in S : z[x] <= f[x] /\ z[x] = e[x]
  OBVIOUS
<1>2. SumFunctionOnSet(e, S) = Cardinality(S) * 0
  BY SumOfEqual
<1>3. Cardinality(S) * 0 = 0
  BY FS_CardinalityType
<1> HIDE DEF z, e
<1>4. SumFunctionOnSet(z, S) = SumFunctionOnSet(e, S)
  BY <1>1, SumOfSame
<1>5. SumFunctionOnSet(z, S) <= SumFunctionOnSet(f, S)
  BY <1>1, SumGrows
<1>6. SumFunctionOnSet(f, S) \in Int
  BY SumIsInteger
<1> QED BY <1>2, <1>3, <1>4, <1>5, <1>6

LEMMA SumWithOne ==
  ASSUME NEW A, NEW f \in [A -> Int], NEW S \in SUBSET A, IsFiniteSet(S),
         NEW x \in A \ S
  PROVE  SumFunctionOnSet(f, S \cup {x}) = SumFunctionOnSet(f, S) + f[x]
<1> DEFINE T == S \cup {x}
<1>1. T \in SUBSET A /\ IsFiniteSet(T) /\ x \in T /\ T \ {x} = S
  BY FS_AddElement
<1> HIDE DEF T
<1>2. SumFunctionOnSet(f, T) = f[x] + SumFunctionOnSet(f, T \ {x})
  BY <1>1, SumTakesOut
<1>3. f[x] \in Int /\ SumFunctionOnSet(f, S) \in Int
  BY SumIsInteger
<1>4. SumFunctionOnSet(f, T) = f[x] + SumFunctionOnSet(f, S)
  BY <1>1, <1>2
<1> QED BY <1>3, <1>4 DEF T
=============================================================================
