---------------------------- MODULE NumberFacts ----------------------------
(***************************************************************************)
(* Facts about numbers that the proofs about the components use: sets of   *)
(* naturals with a bound have a greatest element; division and             *)
(* multiplication by a period keep the order; and how a sum over a finite  *)
(* set changes when an element is added, removed or changed, is bounded,   *)
(* and splits.  Balances, fees and amounts under way are such sums.        *)
(***************************************************************************)
EXTENDS Integers, FiniteSetsExt, Functions, FiniteSetTheorems, WellFoundedInduction, TLAPS

LEMMA MinNat ==
    ASSUME NEW T \in SUBSET Nat, T # {}
    PROVE  \E x \in T : \A y \in T : x <= y
<1> DEFINE R == OpToRel(<, Nat)
<1>1. IsWellFoundedOn(R, Nat)
  BY Zenon, NatLessThanWellFounded
<1>2. \E x \in T : \A y \in T : ~(<<y, x>> \in R)
  <2> HIDE DEF R
  <2> QED BY Zenon, <1>1, WFMin
<1>3. \A x, y \in Nat : <<y, x>> \in R <=> y < x
  BY DEF OpToRel
<1> HIDE DEF R
<1>4. PICK x \in T : \A y \in T : ~(<<y, x>> \in R)
  BY <1>2
<1>5. ASSUME NEW y \in T PROVE x <= y
  <2>1. x \in Nat /\ y \in Nat
    OBVIOUS
  <2>2. ~(y < x)
    BY Zenon, <1>3, <1>4, <2>1
  <2> QED BY <2>1, <2>2
<1> QED BY <1>5

LEMMA MaxNat==
    ASSUME NEW S \in SUBSET Nat, S # {}, NEW N \in Nat, \A x \in S : x <= N
    PROVE  Max(S) \in S /\ \A y \in S : y <= Max(S)
<1> DEFINE T == {N - x : x \in S}
<1>1. \A x \in S : N - x \in Nat
  OBVIOUS
<1>2. T \in SUBSET Nat /\ T # {}
  BY <1>1, Zenon
<1>3. \E t \in T : \A u \in T : t <= u
  <2> HIDE DEF T
  <2> QED BY <1>2, MinNat
<1>4. PICK x \in S : \A y \in S : N - x <= N - y
  BY Zenon, <1>3
<1>5. ASSUME NEW y \in S PROVE x >= y
  <2>1. x \in Nat /\ y \in Nat /\ N - x <= N - y
    BY <1>4
  <2> QED BY <2>1
<1>6. \E z \in S : \A y \in S : z >= y
  BY <1>5
<1>7. Max(S) \in S /\ \A y \in S : Max(S) >= y
  BY <1>6, Zenon DEF Max
<1>8. ASSUME NEW y \in S PROVE y <= Max(S)
  <2>1. Max(S) \in Nat /\ y \in Nat /\ Max(S) >= y
    BY Zenon, <1>7
  <2> QED BY <2>1
<1> QED BY <1>7, <1>8

LEMMA MaxOfTwo ==
    ASSUME NEW a \in Int, NEW b \in Int
    PROVE  Max({a, b}) = IF a >= b THEN a ELSE b
BY DEF Max

LEMMA DivMono ==
    ASSUME NEW s \in Nat, NEW t \in Nat, s <= t, NEW d \in Nat \ {0}
    PROVE  s \div d \in Nat /\ t \div d \in Nat /\ s \div d <= t \div d
OBVIOUS

LEMMA DivTimes ==
    ASSUME NEW s \in Nat, NEW d \in Nat \ {0}
    PROVE  s \div d \in Nat /\ (s \div d) * d <= s
OBVIOUS

LEMMA TimesMono ==
    ASSUME NEW s \in Nat, NEW t \in Nat, s <= t, NEW d \in Nat \ {0}
    PROVE  s * d \in Nat /\ t * d \in Nat /\ s * d <= t * d
OBVIOUS

LEMMA EpochsApart ==
    ASSUME NEW e \in Nat, NEW d \in Nat \ {0}, NEW s \in Nat, NEW f \in Nat,
           (e + 2) * d <= s, f <= e * d
    PROVE  s > f
OBVIOUS

\* A number, the period it is in and its place in it.
LEMMA DivMod ==
    ASSUME NEW n \in Nat, NEW d \in Nat \ {0}
    PROVE  /\ n \div d \in Nat /\ n % d \in 0..d - 1
           /\ n = (n \div d) * d + (n % d)
           /\ (n \div d) * d \in Nat
OBVIOUS

LEMMA DivOfTimes ==
    ASSUME NEW k \in Nat, NEW d \in Nat \ {0}
    PROVE  (k * d) \div d = k /\ (k * d) % d = 0 /\ k * d \in Nat
OBVIOUS

LEMMA DivLower ==
    ASSUME NEW k \in Nat, NEW n \in Nat, NEW d \in Nat \ {0}, k * d <= n
    PROVE  k <= n \div d
OBVIOUS

LEMMA DivUpper ==
    ASSUME NEW k \in Nat, NEW n \in Nat, NEW d \in Nat \ {0}, n < k * d + d
    PROVE  n \div d <= k
OBVIOUS

----------------------------------------------------------------------------
\* The element a fold takes next.
AnyOf(s) == CHOOSE x \in s : TRUE

\* g adds up f, element by element, on every subset of S.
Adds(g, f, S) ==
    g = [s \in SUBSET S |-> IF s = {} THEN 0 ELSE f[AnyOf(s)] + g[s \ {AnyOf(s)}]]

LEMMA SumDef ==
    ASSUME NEW f, NEW S
    PROVE  SumFunctionOnSet(f, S) = (CHOOSE g : Adds(g, f, S))[S]
BY DEF SumFunctionOnSet, FoldFunctionOnSet, MapThenFoldSet, Adds, AnyOf

\* A set of subsets of a finite set has a least one.
LEMMA LeastSubset ==
    ASSUME NEW S, IsFiniteSet(S), NEW T, T \subseteq SUBSET S, T # {}
    PROVE  \E x \in T : \A y \in T : y \subseteq x => y = x
<1>1. IsWellFoundedOn(StrictSubsetOrdering(S), FiniteSubsetsOf(S))
  BY FS_StrictSubsetOrderingWellFounded
<1>2. FiniteSubsetsOf(S) = SUBSET S
  BY FS_FiniteSubsetsOfFinite
<1>3. PICK x \in T : \A y \in T : <<y, x>> \notin StrictSubsetOrdering(S)
  BY <1>1, <1>2, WFMin
<1> QED BY Zenon, <1>3 DEF StrictSubsetOrdering

LEMMA AddsAgree ==
    ASSUME NEW f, NEW A, IsFiniteSet(A), NEW B, A \subseteq B,
           NEW g, Adds(g, f, A), NEW h, Adds(h, f, B)
    PROVE  \A s \in SUBSET A : g[s] = h[s]
<1> DEFINE bad == {s \in SUBSET A : g[s] # h[s]}
<1> SUFFICES ASSUME bad # {} PROVE FALSE
  OBVIOUS
<1>1. PICK s \in bad : \A y \in bad : y \subseteq s => y = s
  <2> HIDE DEF bad
  <2>1. bad \subseteq SUBSET A
    BY DEF bad
  <2> QED BY <2>1, LeastSubset
<1>2. s # {}
  BY DEF Adds
<1>3. AnyOf(s) \in s
  BY <1>2 DEF AnyOf
<1>4. g[s \ {AnyOf(s)}] = h[s \ {AnyOf(s)}]
  BY <1>1, <1>3
<1> QED BY Zenon, <1>1, <1>2, <1>3, <1>4 DEF Adds

LEMMA AddsExists ==
    ASSUME NEW f, NEW S, IsFiniteSet(S)
    PROVE  \E g : Adds(g, f, S)
<1> DEFINE bad == {s \in SUBSET S : ~ \E g : Adds(g, f, s)}
<1> SUFFICES ASSUME bad # {} PROVE FALSE
  OBVIOUS
<1>1. PICK T \in bad : \A y \in bad : y \subseteq T => y = T
  <2> HIDE DEF bad
  <2>1. bad \subseteq SUBSET S
    BY DEF bad
  <2> QED BY <2>1, LeastSubset
<1> HIDE DEF bad
<1>2. T \in SUBSET S /\ ~ \E g : Adds(g, f, T)
  BY DEF bad
<1> DEFINE G(s) == CHOOSE g : Adds(g, f, s)
<1>3. \A s \in (SUBSET T) \ {T} : Adds(G(s), f, s)
  <2> TAKE s \in (SUBSET T) \ {T}
  <2>1. s \notin bad
    BY <1>1
  <2>2. \E g : Adds(g, f, s)
    BY <2>1, <1>2 DEF bad
  <2> QED BY <2>2
<1> HIDE DEF G
<1>4. \A s \in (SUBSET T) \ {T} : \A t \in SUBSET s : G(s)[t] = G(t)[t]
  <2> TAKE s \in (SUBSET T) \ {T}
  <2> TAKE t \in SUBSET s
  <2>1. IsFiniteSet(t)
    BY <1>2, FS_Subset
  <2>2. Adds(G(s), f, s) /\ Adds(G(t), f, t)
    BY <1>3
  <2>3. \A r \in SUBSET t : G(t)[r] = G(s)[r]
    BY <2>1, <2>2, AddsAgree
  <2> QED BY <2>3
<1> DEFINE h == [s \in SUBSET T |->
                   IF s = {} THEN 0
                   ELSE f[AnyOf(s)] + G(s \ {AnyOf(s)})[s \ {AnyOf(s)}]]
<1>5. \A s \in (SUBSET T) \ {T} : h[s] = G(s)[s]
  <2> TAKE s \in (SUBSET T) \ {T}
  <2>1. CASE s = {}
    BY Zenon, <2>1, <1>3 DEF Adds
  <2>2. CASE s # {}
    <3>1. AnyOf(s) \in s
      BY <2>2 DEF AnyOf
    <3>2. G(s)[s] = f[AnyOf(s)] + G(s)[s \ {AnyOf(s)}]
      BY Zenon, <2>2, <1>3 DEF Adds
    <3>3. G(s)[s \ {AnyOf(s)}] = G(s \ {AnyOf(s)})[s \ {AnyOf(s)}]
      BY <1>4
    <3> QED BY <2>2, <3>2, <3>3
  <2> QED BY <2>1, <2>2
<1>6. Adds(h, f, T)
  <2>1. ASSUME NEW s \in SUBSET T, s # {}
        PROVE  h[s] = f[AnyOf(s)] + h[s \ {AnyOf(s)}]
    <3>1. AnyOf(s) \in s
      BY <2>1 DEF AnyOf
    <3>2. s \ {AnyOf(s)} \in (SUBSET T) \ {T}
      BY <3>1
    <3> QED BY Zenon, <3>2, <1>5, <2>1
  <2>2. h[{}] = 0
    OBVIOUS
  <2>3. h = [s \in SUBSET T |-> h[s]]
    OBVIOUS
  <2> HIDE DEF h
  <2>4. h = [s \in SUBSET T |-> IF s = {} THEN 0 ELSE f[AnyOf(s)] + h[s \ {AnyOf(s)}]]
    BY Zenon, <2>1, <2>2, <2>3
  <2> QED BY Zenon, <2>4 DEF Adds
<1> HIDE DEF h
<1> QED BY <1>2, <1>6

----------------------------------------------------------------------------
LEMMA SumStep ==
    ASSUME NEW f, NEW S, IsFiniteSet(S)
    PROVE  SumFunctionOnSet(f, S) = IF S = {} THEN 0 ELSE f[AnyOf(S)] + SumFunctionOnSet(f, S \ {AnyOf(S)})
<1> DEFINE G(s) == CHOOSE g : Adds(g, f, s)
<1>1. \A s \in SUBSET S : Adds(G(s), f, s) /\ SumFunctionOnSet(f, s) = G(s)[s]
  <2> TAKE s \in SUBSET S
  <2>1. IsFiniteSet(s)
    BY FS_Subset
  <2>2. \E g : Adds(g, f, s)
    BY <2>1, AddsExists
  <2> QED BY <2>2, SumDef
<1> HIDE DEF G
<1>2. CASE S = {}
  BY Zenon, <1>1, <1>2 DEF Adds
<1>3. CASE S # {}
  <2> DEFINE T == S \ {AnyOf(S)}
  <2>1. G(S)[S] = f[AnyOf(S)] + G(S)[T]
    BY Zenon, <1>1, <1>3 DEF Adds
  <2>2. IsFiniteSet(T) /\ T \subseteq S
    BY FS_Subset
  <2> HIDE DEF T
  <2>3. Adds(G(T), f, T) /\ Adds(G(S), f, S)
    BY <1>1, <2>2
  <2>4. G(T)[T] = G(S)[T]
    BY <2>2, <2>3, AddsAgree
  <2>5. SumFunctionOnSet(f, S) = f[AnyOf(S)] + SumFunctionOnSet(f, T)
    BY <1>1, <2>1, <2>2, <2>4
  <2> QED BY <1>3, <2>5 DEF T
<1> QED BY <1>2, <1>3

LEMMA SumEmpty == \A f : SumFunctionOnSet(f, {}) = 0
<1>1. IsFiniteSet({})
  BY FS_EmptySet
<1> QED BY <1>1, SumStep

LEMMA SumInt ==
    ASSUME NEW S, IsFiniteSet(S), NEW f, \A x \in S : f[x] \in Int
    PROVE  SumFunctionOnSet(f, S) \in Int
<1> DEFINE bad == {s \in SUBSET S : SumFunctionOnSet(f, s) \notin Int}
<1> SUFFICES ASSUME bad # {} PROVE FALSE
  OBVIOUS
<1>1. PICK T \in bad : \A y \in bad : y \subseteq T => y = T
  <2>1. bad \subseteq SUBSET S
    OBVIOUS
  <2> HIDE DEF bad
  <2> QED BY <2>1, LeastSubset
<1>2. IsFiniteSet(T)
  BY FS_Subset
<1>3. T # {}
  BY SumEmpty
<1>4. AnyOf(T) \in T
  BY <1>3 DEF AnyOf
<1>5. SumFunctionOnSet(f, T \ {AnyOf(T)}) \in Int
  BY <1>1, <1>4
<1> QED BY <1>2, <1>3, <1>4, <1>5, SumStep

LEMMA SumWithout ==
    ASSUME NEW S, IsFiniteSet(S), NEW f, \A x \in S : f[x] \in Int, NEW x \in S
    PROVE  SumFunctionOnSet(f, S) = f[x] + SumFunctionOnSet(f, S \ {x})
<1> DEFINE Bad(s) == \E y \in s : SumFunctionOnSet(f, s) # f[y] + SumFunctionOnSet(f, s \ {y})
           bad == {s \in SUBSET S : Bad(s)}
<1> SUFFICES ASSUME bad # {} PROVE FALSE
  BY Zenon
<1>1. PICK T \in bad : \A y \in bad : y \subseteq T => y = T
  <2>1. bad \subseteq SUBSET S
    OBVIOUS
  <2> HIDE DEF bad
  <2> QED BY <2>1, LeastSubset
<1>2. PICK y \in T : SumFunctionOnSet(f, T) # f[y] + SumFunctionOnSet(f, T \ {y})
  OBVIOUS
<1>3. \A s \in (SUBSET T) \ {T} : \A z \in s : SumFunctionOnSet(f, s) = f[z] + SumFunctionOnSet(f, s \ {z})
  BY Zenon, <1>1
<1> DEFINE z == AnyOf(T)
<1>4. z \in T
  BY <1>2 DEF AnyOf
<1>5. \A s \in SUBSET T : IsFiniteSet(s) /\ SumFunctionOnSet(f, s) \in Int
  <2> TAKE s \in SUBSET T
  <2>1. IsFiniteSet(s)
    BY FS_Subset
  <2> QED BY <2>1, SumInt
<1>6. SumFunctionOnSet(f, T) = f[z] + SumFunctionOnSet(f, T \ {z})
  BY <1>4, <1>5, SumStep
<1> HIDE DEF z, bad
<1>7. y # z
  BY <1>2, <1>6
<1>8. SumFunctionOnSet(f, T \ {z}) = f[y] + SumFunctionOnSet(f, (T \ {z}) \ {y})
  BY <1>2, <1>3, <1>4, <1>7
<1>9. SumFunctionOnSet(f, T \ {y}) = f[z] + SumFunctionOnSet(f, (T \ {y}) \ {z})
  BY <1>2, <1>3, <1>4, <1>7
<1>10. SumFunctionOnSet(f, T \ {y}) = f[z] + SumFunctionOnSet(f, (T \ {z}) \ {y})
  <2>1. (T \ {y}) \ {z} = (T \ {z}) \ {y}
    OBVIOUS
  <2> QED BY <1>9, <2>1
<1>11. /\ SumFunctionOnSet(f, T \ {z}) \in Int /\ SumFunctionOnSet(f, T \ {y}) \in Int
       /\ SumFunctionOnSet(f, (T \ {z}) \ {y}) \in Int /\ f[y] \in Int /\ f[z] \in Int
  BY <1>4, <1>5 DEF bad
<1> HIDE DEF Bad
<1> QED BY <1>2, <1>6, <1>8, <1>10, <1>11

LEMMA SumLe ==
    ASSUME NEW S, IsFiniteSet(S), NEW f, NEW g,
           \A x \in S : f[x] \in Int /\ g[x] \in Int /\ f[x] <= g[x]
    PROVE  SumFunctionOnSet(f, S) <= SumFunctionOnSet(g, S)
<1> DEFINE bad == {s \in SUBSET S : ~ (SumFunctionOnSet(f, s) <= SumFunctionOnSet(g, s))}
<1> SUFFICES ASSUME bad # {} PROVE FALSE
  OBVIOUS
<1>1. PICK T \in bad : \A y \in bad : y \subseteq T => y = T
  <2>1. bad \subseteq SUBSET S
    OBVIOUS
  <2> HIDE DEF bad
  <2> QED BY <2>1, LeastSubset
<1>2. IsFiniteSet(T)
  BY FS_Subset
<1>3. T # {}
  <2>1. ASSUME T = {} PROVE FALSE
    <3>1. SumFunctionOnSet(f, T) = 0 /\ SumFunctionOnSet(g, T) = 0
      BY Zenon, <1>2, <2>1, SumStep
    <3> QED BY <3>1
  <2> QED BY <2>1
<1> DEFINE z == AnyOf(T)
           U == T \ {z}
<1>4. z \in T
  BY <1>3 DEF AnyOf
<1>5. SumFunctionOnSet(f, U) <= SumFunctionOnSet(g, U)
  BY <1>1, <1>4
<1>6. IsFiniteSet(U)
  BY <1>2, FS_Subset
<1>7. SumFunctionOnSet(f, T) = f[z] + SumFunctionOnSet(f, U) /\ SumFunctionOnSet(g, T) = g[z] + SumFunctionOnSet(g, U)
  BY <1>2, <1>3, SumStep
<1>8. SumFunctionOnSet(f, U) \in Int /\ SumFunctionOnSet(g, U) \in Int
  BY <1>6, SumInt
<1>9. ~ (SumFunctionOnSet(f, T) <= SumFunctionOnSet(g, T)) /\ T \subseteq S
  OBVIOUS
<1> HIDE DEF z, U, bad
<1>10. f[z] \in Int /\ g[z] \in Int /\ f[z] <= g[z]
  BY <1>4, <1>9
<1> QED BY <1>5, <1>7, <1>8, <1>9, <1>10

LEMMA SumSame ==
    ASSUME NEW S, IsFiniteSet(S), NEW f, NEW g,
           \A x \in S : f[x] \in Int /\ g[x] = f[x]
    PROVE  SumFunctionOnSet(f, S) = SumFunctionOnSet(g, S)
<1>1. \A x \in S : f[x] \in Int /\ g[x] \in Int /\ f[x] <= g[x] /\ g[x] <= f[x]
  OBVIOUS
<1>2. SumFunctionOnSet(f, S) <= SumFunctionOnSet(g, S) /\ SumFunctionOnSet(g, S) <= SumFunctionOnSet(f, S)
  BY <1>1, SumLe
<1>3. SumFunctionOnSet(f, S) \in Int /\ SumFunctionOnSet(g, S) \in Int
  BY <1>1, SumInt
<1> QED BY <1>2, <1>3

LEMMA SumChange ==
    ASSUME NEW S, IsFiniteSet(S), NEW f, NEW g, NEW x \in S,
           \A y \in S : f[y] \in Int /\ g[y] \in Int,
           \A y \in S \ {x} : g[y] = f[y]
    PROVE  SumFunctionOnSet(g, S) = SumFunctionOnSet(f, S) + g[x] - f[x]
<1>1. IsFiniteSet(S \ {x})
  BY FS_Subset
<1>2. SumFunctionOnSet(f, S \ {x}) = SumFunctionOnSet(g, S \ {x})
  BY <1>1, SumSame
<1>3. SumFunctionOnSet(f, S) = f[x] + SumFunctionOnSet(f, S \ {x}) /\ SumFunctionOnSet(g, S) = g[x] + SumFunctionOnSet(g, S \ {x})
  BY SumWithout
<1>4. SumFunctionOnSet(f, S \ {x}) \in Int
  BY <1>1, SumInt
<1> QED BY <1>2, <1>3, <1>4

LEMMA SumZero ==
    ASSUME NEW S, IsFiniteSet(S), NEW f, \A x \in S : f[x] = 0
    PROVE  SumFunctionOnSet(f, S) = 0
<1>1. CASE S = {}
  BY <1>1, SumStep
<1> DEFINE bad == {s \in SUBSET S : SumFunctionOnSet(f, s) # 0}
<1> SUFFICES ASSUME bad # {} PROVE FALSE
  OBVIOUS
<1>2. PICK T \in bad : \A y \in bad : y \subseteq T => y = T
  <2>1. bad \subseteq SUBSET S
    OBVIOUS
  <2> HIDE DEF bad
  <2> QED BY <2>1, LeastSubset
<1>3. IsFiniteSet(T)
  BY FS_Subset
<1>4. T # {}
  BY <1>3, SumStep
<1>5. AnyOf(T) \in T
  BY <1>4 DEF AnyOf
<1>6. SumFunctionOnSet(f, T \ {AnyOf(T)}) = 0
  BY <1>2, <1>5
<1> QED BY <1>3, <1>4, <1>5, <1>6, SumStep

LEMMA SumNat ==
    ASSUME NEW S, IsFiniteSet(S), NEW f, \A x \in S : f[x] \in Nat
    PROVE  SumFunctionOnSet(f, S) \in Nat
<1> DEFINE zero == [x \in S |-> 0]
<1>1. SumFunctionOnSet(zero, S) = 0
  BY SumZero
<1>2. SumFunctionOnSet(zero, S) <= SumFunctionOnSet(f, S)
  BY SumLe
<1>3. SumFunctionOnSet(f, S) \in Int
  BY SumInt
<1> QED BY <1>1, <1>2, <1>3

\* A new element adds its value.
LEMMA SumAdd ==
    ASSUME NEW S, IsFiniteSet(S), NEW x, x \notin S, NEW f, NEW g,
           \A y \in S : f[y] \in Int /\ g[y] = f[y], g[x] \in Int
    PROVE  SumFunctionOnSet(g, S \cup {x}) = SumFunctionOnSet(f, S) + g[x]
<1>1. IsFiniteSet(S \cup {x}) /\ (S \cup {x}) \ {x} = S
  BY FS_AddElement
<1>2. SumFunctionOnSet(g, S \cup {x}) = g[x] + SumFunctionOnSet(g, S)
  BY <1>1, SumWithout
<1>3. SumFunctionOnSet(f, S) = SumFunctionOnSet(g, S)
  BY SumSame
<1>4. SumFunctionOnSet(f, S) \in Int
  BY SumInt
<1> QED BY <1>2, <1>3, <1>4

\* The sum of two functions.
LEMMA SumPlus ==
    ASSUME NEW S, IsFiniteSet(S), NEW f, NEW g, NEW h,
           \A x \in S : f[x] \in Int /\ g[x] \in Int /\ h[x] = f[x] + g[x]
    PROVE  SumFunctionOnSet(h, S) = SumFunctionOnSet(f, S) + SumFunctionOnSet(g, S)
<1> DEFINE Good(s) == SumFunctionOnSet(h, s) = SumFunctionOnSet(f, s) + SumFunctionOnSet(g, s)
           bad == {s \in SUBSET S : ~Good(s)}
<1> SUFFICES ASSUME bad # {} PROVE FALSE
  OBVIOUS
<1>1. PICK U \in bad : \A y \in bad : y \subseteq U => y = U
  <2>1. bad \subseteq SUBSET S
    OBVIOUS
  <2> HIDE DEF bad
  <2> QED BY <2>1, LeastSubset
<1>2. \A s \in SUBSET S : /\ IsFiniteSet(s) /\ SumFunctionOnSet(f, s) \in Int
                          /\ SumFunctionOnSet(g, s) \in Int
  <2> TAKE s \in SUBSET S
  <2>1. IsFiniteSet(s)
    BY FS_Subset
  <2> QED BY <2>1, SumInt
<1>3. U # {}
  <2>1. /\ SumFunctionOnSet(f, {}) = 0 /\ SumFunctionOnSet(g, {}) = 0
        /\ SumFunctionOnSet(h, {}) = 0
    BY SumEmpty
  <2>2. Good({})
    BY <2>1
  <2> QED BY <2>2
<1>4. PICK x \in U : TRUE
  BY <1>3
<1> DEFINE V == U \ {x}
<1>5. U \in SUBSET S /\ V \in SUBSET S /\ x \in S /\ ~Good(U) /\ Good(V)
  BY <1>1, <1>4
<1>6. /\ SumFunctionOnSet(f, U) = f[x] + SumFunctionOnSet(f, V)
      /\ SumFunctionOnSet(g, U) = g[x] + SumFunctionOnSet(g, V)
      /\ SumFunctionOnSet(h, U) = h[x] + SumFunctionOnSet(h, V)
  <2>1. \A y \in U : f[y] \in Int /\ g[y] \in Int /\ h[y] \in Int
    BY <1>5
  <2> QED BY <1>2, <1>5, <2>1, SumWithout
<1>7. /\ f[x] \in Int /\ g[x] \in Int /\ h[x] = f[x] + g[x]
      /\ SumFunctionOnSet(f, V) \in Int /\ SumFunctionOnSet(g, V) \in Int
  BY <1>2, <1>5
<1> HIDE DEF V, bad
<1> QED BY <1>5, <1>6, <1>7

\* A sum is that over a part and that over the rest.
LEMMA SumSplit ==
    ASSUME NEW S, IsFiniteSet(S), NEW T \in SUBSET S, NEW f, \A x \in S : f[x] \in Int
    PROVE  SumFunctionOnSet(f, S) = SumFunctionOnSet(f, T) + SumFunctionOnSet(f, S \ T)
<1> DEFINE Good(s) == SumFunctionOnSet(f, S) = SumFunctionOnSet(f, s) + SumFunctionOnSet(f, S \ s)
           bad == {s \in SUBSET S : ~Good(s)}
<1> SUFFICES ASSUME bad # {} PROVE FALSE
  OBVIOUS
<1>1. PICK U \in bad : \A y \in bad : y \subseteq U => y = U
  <2>1. bad \subseteq SUBSET S
    OBVIOUS
  <2> HIDE DEF bad
  <2> QED BY <2>1, LeastSubset
<1>2. \A s \in SUBSET S : IsFiniteSet(s) /\ SumFunctionOnSet(f, s) \in Int
  <2> TAKE s \in SUBSET S
  <2>1. IsFiniteSet(s)
    BY FS_Subset
  <2> QED BY <2>1, SumInt
<1>3. U # {}
  <2>1. S \ {} = S /\ SumFunctionOnSet(f, {}) = 0 /\ SumFunctionOnSet(f, S) \in Int
    BY <1>2, SumEmpty
  <2> QED BY <2>1
<1>4. PICK x \in U : TRUE
  BY <1>3
<1> DEFINE V == U \ {x}
<1>5. U \in SUBSET S /\ V \in SUBSET S /\ ~Good(U) /\ Good(V)
  BY <1>1, <1>4
<1>6. SumFunctionOnSet(f, U) = f[x] + SumFunctionOnSet(f, V)
  BY <1>2, <1>5, SumWithout
<1>7. SumFunctionOnSet(f, S \ V) = f[x] + SumFunctionOnSet(f, S \ U)
  <2>1. x \in S \ V /\ (S \ V) \ {x} = S \ U /\ S \ V \in SUBSET S
    BY <1>5
  <2> HIDE DEF V, bad
  <2> QED BY <1>2, <2>1, SumWithout
<1>8. /\ f[x] \in Int /\ SumFunctionOnSet(f, V) \in Int /\ SumFunctionOnSet(f, S \ U) \in Int
      /\ SumFunctionOnSet(f, S) \in Int
  BY <1>2, <1>5
<1> HIDE DEF V, bad
<1> QED BY <1>5, <1>6, <1>7, <1>8

\* A sum over a part is one over the whole with nothing for the rest.
LEMMA SumPart ==
    ASSUME NEW S, IsFiniteSet(S), NEW T \in SUBSET S, NEW f, NEW g,
           \A x \in T : f[x] \in Int /\ g[x] = f[x], \A x \in S \ T : g[x] = 0
    PROVE  SumFunctionOnSet(f, T) = SumFunctionOnSet(g, S)
<1>1. IsFiniteSet(T) /\ IsFiniteSet(S \ T)
  BY FS_Subset
<1>2. SumFunctionOnSet(f, T) = SumFunctionOnSet(g, T)
  BY <1>1, SumSame
<1>3. SumFunctionOnSet(g, S \ T) = 0
  BY <1>1, SumZero
<1>4. \A x \in S : g[x] \in Int
  OBVIOUS
<1>5. SumFunctionOnSet(g, S) = SumFunctionOnSet(g, T) + SumFunctionOnSet(g, S \ T)
  BY <1>4, SumSplit
<1>6. SumFunctionOnSet(g, T) \in Int
  BY <1>1, <1>4, SumInt
<1> QED BY <1>2, <1>3, <1>5, <1>6

\* A part of a sum of naturals is no larger.
LEMMA SumSubset ==
    ASSUME NEW S, IsFiniteSet(S), NEW T \in SUBSET S, NEW f, \A x \in S : f[x] \in Nat
    PROVE  SumFunctionOnSet(f, T) <= SumFunctionOnSet(f, S)
<1>1. IsFiniteSet(T) /\ IsFiniteSet(S \ T)
  BY FS_Subset
<1>2. SumFunctionOnSet(f, T) \in Nat /\ SumFunctionOnSet(f, S \ T) \in Nat
  BY <1>1, SumNat
<1>3. SumFunctionOnSet(f, S) = SumFunctionOnSet(f, T) + SumFunctionOnSet(f, S \ T)
  BY SumSplit
<1> QED BY <1>2, <1>3

\* A sum can be taken class by class.
LEMMA SumByClass ==
    ASSUME NEW S, IsFiniteSet(S), NEW R, IsFiniteSet(R), NEW w \in [S -> R],
           NEW f, \A x \in S : f[x] \in Int
    PROVE  SumFunctionOnSet([r \in R |-> SumFunctionOnSet(f, {x \in S : w[x] = r})], R)
             = SumFunctionOnSet(f, S)
<1> DEFINE Class(s) == [r \in R |-> SumFunctionOnSet(f, {x \in s : w[x] = r})]
           bad == {s \in SUBSET S : SumFunctionOnSet(Class(s), R) # SumFunctionOnSet(f, s)}
<1> SUFFICES ASSUME bad # {} PROVE FALSE
  BY Zenon
<1>1. PICK U \in bad : \A y \in bad : y \subseteq U => y = U
  <2>1. bad \subseteq SUBSET S
    OBVIOUS
  <2> HIDE DEF bad
  <2> QED BY <2>1, LeastSubset
<1>2. \A s \in SUBSET S : IsFiniteSet(s) /\ SumFunctionOnSet(f, s) \in Int
  <2> TAKE s \in SUBSET S
  <2>1. IsFiniteSet(s)
    BY FS_Subset
  <2> QED BY <2>1, SumInt
<1>3. U # {}
  <2> SUFFICES ASSUME U = {} PROVE FALSE
    OBVIOUS
  <2>1. \A r \in R : {x \in U : w[x] = r} = {}
    OBVIOUS
  <2>2. \A r \in R : Class(U)[r] = 0
    BY <2>1, SumEmpty
  <2>3. SumFunctionOnSet(Class(U), R) = 0
    <3> HIDE DEF Class
    <3> QED BY <2>2, SumZero
  <2> QED BY <2>3, SumEmpty
<1>4. PICK x \in U : TRUE
  BY <1>3
<1> DEFINE V == U \ {x}
<1>5. /\ U \in SUBSET S /\ V \in SUBSET S /\ x \in S
      /\ SumFunctionOnSet(Class(U), R) # SumFunctionOnSet(f, U)
      /\ SumFunctionOnSet(Class(V), R) = SumFunctionOnSet(f, V)
  BY <1>1, <1>4
<1>6. SumFunctionOnSet(f, U) = f[x] + SumFunctionOnSet(f, V)
  BY Zenon, <1>2, <1>5, SumWithout
<1>7. \A r \in R : Class(U)[r] \in Int /\ Class(V)[r] \in Int
  <2> TAKE r \in R
  <2>1. {y \in U : w[y] = r} \in SUBSET S /\ {y \in V : w[y] = r} \in SUBSET S
    BY <1>5
  <2> HIDE DEF V, bad
  <2> QED BY <1>2, <2>1
<1>8. \A r \in R \ {w[x]} : Class(U)[r] = Class(V)[r]
  <2> TAKE r \in R \ {w[x]}
  <2>1. {y \in U : w[y] = r} = {y \in V : w[y] = r}
    OBVIOUS
  <2> HIDE DEF V, bad
  <2> QED BY <2>1
<1>9. Class(U)[w[x]] = f[x] + Class(V)[w[x]]
  <2> DEFINE C == {y \in U : w[y] = w[x]}
  <2>1. C \in SUBSET S /\ x \in C /\ C \ {x} = {y \in V : w[y] = w[x]}
    BY <1>5
  <2> HIDE DEF C
  <2>2. SumFunctionOnSet(f, C) = f[x] + SumFunctionOnSet(f, C \ {x})
    BY <1>2, <2>1, SumWithout
  <2>3. w[x] \in R
    BY <1>5
  <2> HIDE DEF V, bad
  <2> QED BY Zenon, <2>1, <2>2, <2>3 DEF C
<1>10. w[x] \in R /\ f[x] \in Int
  BY <1>5
<1> DEFINE after == Class(U)
           before == Class(V)
           c == w[x]
<1>11. SumFunctionOnSet(after, R) = SumFunctionOnSet(before, R) + after[c] - before[c]
  <2>1. /\ c \in R
        /\ \A r \in R : before[r] \in Int /\ after[r] \in Int
        /\ \A r \in R \ {c} : after[r] = before[r]
    BY Zenon, <1>7, <1>8, <1>10
  <2> HIDE DEF after, before, c
  <2> QED BY <2>1, SumChange
<1> HIDE DEF V, bad, Class
<1>12. SumFunctionOnSet(f, V) \in Int
  BY <1>2, <1>5
<1> QED BY <1>5, <1>6, <1>7, <1>9, <1>10, <1>11, <1>12
============================================================================
