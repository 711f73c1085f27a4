----------------------------- MODULE SumTheorems -----------------------------
(***************************************************************************)
(* How a sum over a finite set changes when the summands of a few elements *)
(* do. MapThenSumSet is defined by recursion over the subsets of its set,  *)
(* so the first lemmas show that such a function exists and is unique, by  *)
(* induction over finite sets: WFMin for the order of strict inclusion.    *)
(***************************************************************************)
EXTENDS Sums, FiniteSetTheorems, TLAPS

(* Induction *)

\* T holds of all numbers if it holds of 0 and, with a number, of the next.
LEMMA NumberInduction ==
    ASSUME NEW T, 0 \in T, \A n \in Nat : n \in T => n + 1 \in T
    PROVE  Nat \subseteq T
<1> DEFINE Bad == {n \in Nat : n \notin T}
           Less == {p \in Nat \X Nat : p[1] < p[2]}
<1>1. IsWellFoundedOn(Less, Nat)
  BY NatLessThanWellFounded DEF OpToRel
<1>2. SUFFICES ASSUME Bad # {} PROVE FALSE
  OBVIOUS
<1>3. PICK n \in Bad : \A m \in Bad : ~(<<m, n>> \in Less)
  <2>1. Bad \subseteq Nat
    OBVIOUS
  <2> HIDE DEF Bad, Less
  <2>2. QED
    BY <1>1, <1>2, <2>1, WFMin
<1>4. n \in Nat /\ n - 1 \in Nat /\ n \notin T
  BY <1>3
<1>5. <<n - 1, n>> \in Less
  BY <1>4
<1>6. n - 1 \in T
  BY <1>3, <1>4, <1>5
<1>7. QED
  BY <1>4, <1>6

\* T holds of a finite set if it holds of its strict subsets.
LEMMA SubsetInduction ==
    ASSUME NEW S, IsFiniteSet(S), NEW T,
           \A s \in SUBSET S : (\A r \in SUBSET s : r # s => r \in T) => s \in T
    PROVE  SUBSET S \subseteq T
<1> DEFINE Bad == {s \in SUBSET S : s \notin T}
<1>1. IsWellFoundedOn(StrictSubsetOrdering(S), SUBSET S)
  BY FS_StrictSubsetOrderingWellFounded, FS_FiniteSubsetsOfFinite
<1>2. SUFFICES ASSUME Bad # {} PROVE FALSE
  OBVIOUS
<1>3. PICK s \in Bad : \A y \in Bad : ~(<<y, s>> \in StrictSubsetOrdering(S))
  <2>1. Bad \subseteq SUBSET S
    OBVIOUS
  <2>2. ASSUME NEW R, NEW A, NEW B, IsWellFoundedOn(R, A), B \subseteq A, B # {}
        PROVE  \E x \in B : \A y \in B : ~(<<y, x>> \in R)
    BY <2>2, WFMin
  <2> HIDE DEF Bad
  <2>3. QED
    BY <1>1, <1>2, <2>1, <2>2
<1>4. ASSUME NEW r \in SUBSET s, r # s PROVE r \in T
  BY <1>3, <1>4 DEF StrictSubsetOrdering
<1>5. QED
  BY <1>3, <1>4

\* A finite set of numbers has a largest one.
LEMMA MaxInSet ==
    ASSUME NEW S, IsFiniteSet(S), S \subseteq Int, S # {}
    PROVE  Max(S) \in S /\ \A y \in S : y <= Max(S)
<1> DEFINE T == {s \in SUBSET S : s # {} => \E x \in s : \A y \in s : x >= y}
<1>1. ASSUME NEW s \in SUBSET S, \A r \in SUBSET s : r # s => r \in T
      PROVE  s \in T
  <2> SUFFICES ASSUME NEW p \in s PROVE \E x \in s : \A y \in s : x >= y
    OBVIOUS
  <2>1. s \ {p} \in T
    BY <1>1
  <2>2. CASE s = {p}
    BY <2>2
  <2>3. CASE s # {p}
    <3>1. PICK m \in s \ {p} : \A y \in s \ {p} : m >= y
      BY <2>1, <2>3
    <3>2. CASE m >= p
      BY <3>1, <3>2
    <3>3. CASE ~(m >= p)
      BY <3>1, <3>3
    <3>4. QED
      BY <3>2, <3>3
  <2>4. QED
    BY <2>2, <2>3
<1>2. SUBSET S \subseteq T
  <2> HIDE DEF T
  <2>1. QED
    BY <1>1, SubsetInduction
<1>3. \E x \in S : \A y \in S : x >= y
  BY <1>2
<1>4. QED
  BY <1>3 DEF Max

\* A set of natural numbers has a smallest one.
LEMMA MinInSet ==
    ASSUME NEW S \in SUBSET Nat, S # {}
    PROVE  Min(S) \in S /\ \A y \in S : Min(S) <= y
<1> DEFINE Less == {p \in Nat \X Nat : p[1] < p[2]}
<1>1. IsWellFoundedOn(Less, Nat)
  BY NatLessThanWellFounded DEF OpToRel
<1>2. PICK x \in S : \A y \in S : ~(<<y, x>> \in Less)
  <2> HIDE DEF Less
  <2>1. QED
    BY <1>1, WFMin
<1>3. ASSUME NEW y \in S PROVE x <= y
  <2>1. x \in Nat /\ y \in Nat /\ ~(<<y, x>> \in Less)
    BY <1>2
  <2>2. ~(y < x)
    BY <2>1
  <2>3. QED
    BY <2>1, <2>2
<1>4. \E z \in S : \A y \in S : z =< y
  BY <1>3
<1>5. QED
  BY <1>4 DEF Min

-----------------------------------------------------------------------------
(* The recursion of a sum *)

Pick(s) == CHOOSE x \in s : TRUE

\* g gives every subset of S its sum.
IsSum(g, f, S) == g = [s \in SUBSET S |-> IF s = {} THEN 0 ELSE f[Pick(s)] + g[s \ {Pick(s)}]]

LEMMA SumOverDef == ASSUME NEW f, NEW S
                    PROVE  SumOver(f, S) = (CHOOSE g : IsSum(g, f, S))[S]
  BY DEF SumOver, MapThenSumSet, MapThenFoldSet, IsSum, Pick

\* There is at most one such function.
LEMMA SumsUnique ==
    ASSUME NEW S, IsFiniteSet(S), NEW f, NEW g, NEW h, IsSum(g, f, S), IsSum(h, f, S)
    PROVE  g = h
<1> DEFINE T == {s \in SUBSET S : g[s] = h[s]}
<1>1. ASSUME NEW s \in SUBSET S, \A r \in SUBSET s : r # s => r \in T
      PROVE  s \in T
  <2>1. CASE s = {}
    BY <2>1 DEF IsSum
  <2>2. CASE s # {}
    <3>1. Pick(s) \in s
      BY <2>2 DEF Pick
    <3>2. g[s \ {Pick(s)}] = h[s \ {Pick(s)}]
      BY <1>1, <3>1
    <3>3. QED
      BY <2>2, <3>2 DEF IsSum
  <2>3. QED
    BY <2>1, <2>2
<1>2. SUBSET S \subseteq T
  <2> HIDE DEF T
  <2>1. QED
    BY <1>1, SubsetInduction
<1>3. QED
  BY <1>2 DEF IsSum

\* It exists, and its values are the sums over the subsets.
LEMMA SumsExists ==
    ASSUME NEW S, IsFiniteSet(S), NEW f
    PROVE  IsSum([s \in SUBSET S |-> SumOver(f, s)], f, S)
<1> DEFINE Of(t) == [s \in SUBSET t |-> SumOver(f, s)]
           T == {t \in SUBSET S : IsSum(Of(t), f, t)}
<1>1. ASSUME NEW t \in SUBSET S, \A r \in SUBSET t : r # t => r \in T
      PROVE  t \in T
  <2> DEFINE rest(s) == s \ {Pick(s)}
             step(s) == IF s = {} THEN 0 ELSE f[Pick(s)] + SumOver(f, rest(s))
             g == [s \in SUBSET t |-> IF s = t THEN step(t) ELSE SumOver(f, s)]
  <2>1. ASSUME NEW s \in SUBSET t, s # t PROVE SumOver(f, s) = step(s)
    <3>1. IsSum(Of(s), f, s)
      BY <1>1, <2>1
    <3>2. Of(s)[s] = IF s = {} THEN 0 ELSE f[Pick(s)] + Of(s)[rest(s)]
      BY <3>1 DEF IsSum
    <3>3. rest(s) \in SUBSET s
      OBVIOUS
    <3>4. QED
      BY <3>2, <3>3
  <2>2. ASSUME NEW s \in SUBSET t, s # {} PROVE rest(s) \in SUBSET t /\ rest(s) # t
    BY <2>2 DEF Pick
  <2>3. IsSum(g, f, t)
    <3>1. ASSUME NEW s \in SUBSET t
          PROVE  g[s] = IF s = {} THEN 0 ELSE f[Pick(s)] + g[rest(s)]
      BY <2>1, <2>2
    <3>2. QED
      BY <3>1 DEF IsSum
  <2>4. IsSum(CHOOSE h : IsSum(h, f, t), f, t)
    BY <2>3
  <2>5. IsFiniteSet(t)
    BY FS_Subset
  <2>6. g = CHOOSE h : IsSum(h, f, t)
    BY <2>3, <2>4, <2>5, SumsUnique
  <2>7. SumOver(f, t) = g[t]
    BY <2>6, SumOverDef
  <2>8. Of(t) = g
    BY <2>7
  <2>9. QED
    BY <2>3, <2>8
<1>2. SUBSET S \subseteq T
  <2> HIDE DEF T
  <2>1. QED
    BY <1>1, SubsetInduction
<1>3. QED
  BY <1>2

-----------------------------------------------------------------------------
(* Sums of integers *)

LEMMA SumEmpty == ASSUME NEW f PROVE SumOver(f, {}) = 0
  BY SumsExists, FS_EmptySet DEF IsSum

LEMMA SumPick ==
    ASSUME NEW S, IsFiniteSet(S), S # {}, NEW f
    PROVE  Pick(S) \in S /\ SumOver(f, S) = f[Pick(S)] + SumOver(f, S \ {Pick(S)})
<1> DEFINE g == [s \in SUBSET S |-> SumOver(f, s)]
<1>1. IsSum(g, f, S)
  BY SumsExists
<1>2. Pick(S) \in S
  BY DEF Pick
<1>3. g[S] = f[Pick(S)] + g[S \ {Pick(S)}]
  BY <1>1 DEF IsSum
<1>4. QED
  BY <1>2, <1>3

LEMMA SumType ==
    ASSUME NEW S, IsFiniteSet(S), NEW f, \A x \in S : f[x] \in Int
    PROVE  SumOver(f, S) \in Int
<1> DEFINE T == {s \in SUBSET S : SumOver(f, s) \in Int}
<1>1. ASSUME NEW s \in SUBSET S, \A r \in SUBSET s : r # s => r \in T
      PROVE  s \in T
  <2>1. CASE s = {}
    BY <2>1, SumEmpty
  <2>2. CASE s # {}
    <3>1. IsFiniteSet(s)
      BY FS_Subset
    <3>2. Pick(s) \in s /\ SumOver(f, s) = f[Pick(s)] + SumOver(f, s \ {Pick(s)})
      BY <2>2, <3>1, SumPick
    <3>3. SumOver(f, s \ {Pick(s)}) \in Int
      BY <1>1, <3>2
    <3>4. QED
      BY <3>2, <3>3
  <2>3. QED
    BY <2>1, <2>2
<1>2. SUBSET S \subseteq T
  <2> HIDE DEF T
  <2>1. QED
    BY <1>1, SubsetInduction
<1>3. QED
  BY <1>2

\* Any element may be taken out first.
LEMMA SumRemove ==
    ASSUME NEW S, IsFiniteSet(S), NEW f, \A y \in S : f[y] \in Int, NEW x \in S
    PROVE  SumOver(f, S) = f[x] + SumOver(f, S \ {x})
<1> DEFINE T == {s \in SUBSET S : \A y \in s : SumOver(f, s) = f[y] + SumOver(f, s \ {y})}
<1>1. ASSUME NEW s \in SUBSET S, \A r \in SUBSET s : r # s => r \in T
      PROVE  s \in T
  <2> SUFFICES ASSUME NEW y \in s PROVE SumOver(f, s) = f[y] + SumOver(f, s \ {y})
    OBVIOUS
  <2> DEFINE p == Pick(s)
  <2>1. IsFiniteSet(s)
    BY FS_Subset
  <2>2. p \in s /\ SumOver(f, s) = f[p] + SumOver(f, s \ {p})
    BY <2>1, SumPick
  <2> HIDE DEF p
  <2>3. CASE y = p
    BY <2>2, <2>3
  <2>4. CASE y # p
    <3> DEFINE rest == s \ {p, y}
    <3>1. SumOver(f, s \ {p}) = f[y] + SumOver(f, rest)
      <4>1. (s \ {p}) \ {y} = rest
        OBVIOUS
      <4>2. QED
        BY <1>1, <2>2, <2>4, <4>1
    <3>2. SumOver(f, s \ {y}) = f[p] + SumOver(f, rest)
      <4>1. (s \ {y}) \ {p} = rest
        OBVIOUS
      <4>2. QED
        BY <1>1, <2>2, <2>4, <4>1
    <3>3. IsFiniteSet(rest) /\ \A z \in rest : f[z] \in Int
      BY <2>1, FS_Subset
    <3>4. f[y] \in Int /\ f[p] \in Int /\ SumOver(f, rest) \in Int
      BY <2>2, <3>3, SumType
    <3> HIDE DEF rest, T
    <3>5. QED
      BY <2>2, <3>1, <3>2, <3>4
  <2>5. QED
    BY <2>3, <2>4
<1>2. SUBSET S \subseteq T
  <2> HIDE DEF T
  <2>1. QED
    BY <1>1, SubsetInduction
<1>3. QED
  BY <1>2

\* What is not in the set does not count.
LEMMA SumSame ==
    ASSUME NEW S, IsFiniteSet(S), NEW f, NEW g, \A x \in S : f[x] = g[x]
    PROVE  SumOver(f, S) = SumOver(g, S)
<1> DEFINE T == {s \in SUBSET S : SumOver(f, s) = SumOver(g, s)}
<1>1. ASSUME NEW s \in SUBSET S, \A r \in SUBSET s : r # s => r \in T
      PROVE  s \in T
  <2>1. CASE s = {}
    BY <2>1, SumEmpty
  <2>2. CASE s # {}
    <3>1. IsFiniteSet(s)
      BY FS_Subset
    <3>2. /\ Pick(s) \in s
          /\ SumOver(f, s) = f[Pick(s)] + SumOver(f, s \ {Pick(s)})
          /\ SumOver(g, s) = g[Pick(s)] + SumOver(g, s \ {Pick(s)})
      BY <2>2, <3>1, SumPick
    <3>3. SumOver(f, s \ {Pick(s)}) = SumOver(g, s \ {Pick(s)})
      BY <1>1, <3>2
    <3>4. QED
      BY <3>2, <3>3
  <2>3. QED
    BY <2>1, <2>2
<1>2. SUBSET S \subseteq T
  <2> HIDE DEF T
  <2>1. QED
    BY <1>1, SubsetInduction
<1>3. QED
  BY <1>2

\* A smaller summand for every element gives a smaller sum.
LEMMA SumMonotonic ==
    ASSUME NEW S, IsFiniteSet(S), NEW f, NEW g, \A x \in S : f[x] \in Int /\ g[x] \in Int /\ f[x] <= g[x]
    PROVE  SumOver(f, S) <= SumOver(g, S)
<1> DEFINE T == {s \in SUBSET S : SumOver(f, s) <= SumOver(g, s)}
<1>1. ASSUME NEW s \in SUBSET S, \A r \in SUBSET s : r # s => r \in T
      PROVE  s \in T
  <2>1. CASE s = {}
    BY <2>1, SumEmpty
  <2>2. CASE s # {}
    <3>1. IsFiniteSet(s)
      BY FS_Subset
    <3>2. /\ Pick(s) \in s
          /\ SumOver(f, s) = f[Pick(s)] + SumOver(f, s \ {Pick(s)})
          /\ SumOver(g, s) = g[Pick(s)] + SumOver(g, s \ {Pick(s)})
      BY <2>2, <3>1, SumPick
    <3>3. SumOver(f, s \ {Pick(s)}) <= SumOver(g, s \ {Pick(s)})
      BY <1>1, <3>2
    <3>4. SumOver(f, s \ {Pick(s)}) \in Int /\ SumOver(g, s \ {Pick(s)}) \in Int
      BY <3>1, FS_RemoveElement, SumType
    <3>5. QED
      BY <3>2, <3>3, <3>4
  <2>3. QED
    BY <2>1, <2>2
<1>2. SUBSET S \subseteq T
  <2> HIDE DEF T
  <2>1. QED
    BY <1>1, SubsetInduction
<1>3. QED
  BY <1>2

\* One summand changes.
LEMMA SumChange ==
    ASSUME NEW S, IsFiniteSet(S), NEW f, NEW g, NEW x \in S,
           \A y \in S : f[y] \in Int, \A y \in S : g[y] \in Int, \A y \in S \ {x} : g[y] = f[y]
    PROVE  SumOver(g, S) = SumOver(f, S) + g[x] - f[x]
<1>1. SumOver(f, S) = f[x] + SumOver(f, S \ {x}) /\ SumOver(g, S) = g[x] + SumOver(g, S \ {x})
  BY SumRemove
<1>2. IsFiniteSet(S \ {x})
  BY FS_RemoveElement
<1>3. SumOver(f, S \ {x}) = SumOver(g, S \ {x}) /\ SumOver(f, S \ {x}) \in Int
  BY <1>2, SumSame, SumType
<1>4. QED
  BY <1>1, <1>3

\* One element changes by d.
LEMMA SumShift ==
    ASSUME NEW S, IsFiniteSet(S), NEW f, NEW g, NEW x \in S, NEW d \in Int,
           \A y \in S : f[y] \in Int, g[x] = f[x] + d, \A y \in S \ {x} : g[y] = f[y]
    PROVE  SumOver(g, S) = SumOver(f, S) + d /\ SumOver(f, S) \in Int
<1>1. ASSUME NEW y \in S PROVE g[y] \in Int
  <2>1. CASE y = x
    BY <2>1
  <2>2. CASE y # x
    BY <2>2
  <2>3. QED
    BY <2>1, <2>2
<1>2. SumOver(g, S) = SumOver(f, S) + g[x] - f[x]
  <2>1. (\A y \in S : f[y] \in Int) /\ (\A y \in S : g[y] \in Int) /\ (\A y \in S \ {x} : g[y] = f[y])
    BY <1>1
  <2>2. QED
    BY ONLY IsFiniteSet(S), x \in S, <2>1, SumChange
<1>3. SumOver(f, S) \in Int
  BY SumType
<1>4. f[x] \in Int
  OBVIOUS
<1>5. QED
  BY <1>2, <1>3, <1>4

\* Two summands change.
LEMMA SumChangeTwo ==
    ASSUME NEW S, IsFiniteSet(S), NEW f, NEW g, NEW x \in S, NEW y \in S, x # y,
           \A z \in S : f[z] \in Int, \A z \in S : g[z] \in Int, \A z \in S \ {x, y} : g[z] = f[z]
    PROVE  SumOver(g, S) = SumOver(f, S) + g[x] - f[x] + g[y] - f[y]
<1>1. SumOver(f, S) = f[x] + SumOver(f, S \ {x}) /\ SumOver(g, S) = g[x] + SumOver(g, S \ {x})
  BY SumRemove
<1>2. IsFiniteSet(S \ {x}) /\ y \in S \ {x}
  BY FS_RemoveElement
<1> DEFINE R == S \ {x}
<1>3. \A z \in R : f[z] \in Int /\ g[z] \in Int /\ (z # y => g[z] = f[z])
  OBVIOUS
<1> HIDE DEF R
<1>4. IsFiniteSet(R) /\ y \in R /\ IsFiniteSet(R \ {y})
  BY <1>2, FS_RemoveElement DEF R
<1>5. SumOver(f, R) = f[y] + SumOver(f, R \ {y}) /\ SumOver(g, R) = g[y] + SumOver(g, R \ {y})
  BY <1>3, <1>4, SumRemove
<1>6. SumOver(f, R \ {y}) = SumOver(g, R \ {y})
  BY <1>3, <1>4, SumSame
<1>7. SumOver(f, R \ {y}) \in Int
  BY <1>3, <1>4, SumType
<1>8. QED
  BY <1>1, <1>5, <1>6, <1>7 DEF R

\* Elements whose summand is 0 do not count.
LEMMA SumZeros ==
    ASSUME NEW S, IsFiniteSet(S), NEW R \in SUBSET S, NEW f,
           \A x \in S : f[x] \in Int /\ (x \notin R => f[x] = 0)
    PROVE  SumOver(f, S) = SumOver(f, R)
<1> DEFINE T == {s \in SUBSET S : SumOver(f, s) = SumOver(f, s \intersect R)}
<1>1. ASSUME NEW s \in SUBSET S, \A r \in SUBSET s : r # s => r \in T
      PROVE  s \in T
  <2>1. CASE s = {}
    <3>1. s \intersect R = s
      BY <2>1
    <3>2. QED
      BY <3>1
  <2>2. CASE s # {}
    <3> DEFINE p == Pick(s)
    <3>1. IsFiniteSet(s) /\ IsFiniteSet(s \intersect R)
      BY FS_Subset
    <3>2. p \in s /\ SumOver(f, s) = f[p] + SumOver(f, s \ {p})
      BY <2>2, <3>1, SumPick
    <3> HIDE DEF p
    <3>3. SumOver(f, s \ {p}) = SumOver(f, (s \ {p}) \intersect R)
      BY <1>1, <3>2
    <3>4. CASE p \in R
      <4>1. SumOver(f, s \intersect R) = f[p] + SumOver(f, (s \intersect R) \ {p})
        BY <3>1, <3>2, <3>4, SumRemove
      <4>2. (s \intersect R) \ {p} = (s \ {p}) \intersect R
        OBVIOUS
      <4>3. QED
        BY <3>2, <3>3, <4>1, <4>2
    <3>5. CASE p \notin R
      <4>1. (s \ {p}) \intersect R = s \intersect R
        BY <3>5
      <4>2. f[p] = 0 /\ SumOver(f, s \intersect R) \in Int
        BY <3>1, <3>2, <3>5, SumType
      <4>3. SumOver(f, s) = 0 + SumOver(f, s \intersect R)
        BY <3>2, <3>3, <4>1, <4>2
      <4>4. QED
        BY <4>2, <4>3
    <3>6. QED
      BY <3>4, <3>5
  <2>3. QED
    BY <2>1, <2>2
<1>2. SUBSET S \subseteq T
  <2> HIDE DEF T
  <2>1. QED
    BY <1>1, SubsetInduction
<1>3. S \intersect R = R
  OBVIOUS
<1>4. QED
  BY <1>2, <1>3

LEMMA SumZero ==
    ASSUME NEW S, IsFiniteSet(S), NEW f, \A x \in S : f[x] = 0
    PROVE  SumOver(f, S) = 0
<1>1. SumOver(f, S) = SumOver(f, {})
  BY SumZeros
<1>2. QED
  BY <1>1, SumEmpty

\* The elements may be renamed, one to one.
Renames(e, D, S, f, g) ==
    /\ IsFiniteSet(D) /\ IsFiniteSet(S) /\ e \in [D -> S]
    /\ \A i, j \in D : e[i] = e[j] => i = j
    /\ \A i \in D : f[i] = g[e[i]]
    /\ \A x \in S : g[x] \in Int /\ ((\A i \in D : e[i] # x) => g[x] = 0)

LEMMA SumRename ==
    ASSUME NEW e, NEW D, NEW S, NEW f, NEW g, Renames(e, D, S, f, g)
    PROVE  SumOver(f, D) = SumOver(g, S)
<1> USE DEF Renames
<1> DEFINE Image(d) == {e[i] : i \in d}
           T == {d \in SUBSET D : SumOver(f, d) = SumOver(g, Image(d))}
<1>1. ASSUME NEW d \in SUBSET D, \A r \in SUBSET d : r # d => r \in T
      PROVE  d \in T
  <2>1. CASE d = {}
    <3>1. Image(d) = {}
      BY <2>1
    <3>2. QED
      BY <2>1, <3>1, SumEmpty
  <2>2. CASE d # {}
    <3> DEFINE p == Pick(d)
    <3>1. IsFiniteSet(d)
      BY FS_Subset
    <3>2. p \in d /\ SumOver(f, d) = f[p] + SumOver(f, d \ {p})
      BY <2>2, <3>1, SumPick
    <3> HIDE DEF p
    <3>3. SumOver(f, d \ {p}) = SumOver(g, Image(d \ {p}))
      BY <1>1, <3>2
    <3>4. Image(d) \in SUBSET S /\ e[p] \in Image(d)
      BY <3>2
    <3>5. IsFiniteSet(Image(d))
      BY <3>4, FS_Subset
    <3>6. SumOver(g, Image(d)) = g[e[p]] + SumOver(g, Image(d) \ {e[p]})
      <4>1. \A x \in Image(d) : g[x] \in Int
        BY <3>4
      <4> HIDE DEF Image
      <4>2. QED
        BY <3>4, <3>5, <4>1, SumRemove
    <3>7. Image(d) \ {e[p]} = Image(d \ {p})
      BY <3>2
    <3>8. f[p] = g[e[p]]
      BY <3>2
    <3>9. QED
      BY <3>2, <3>3, <3>6, <3>7, <3>8
  <2>3. QED
    BY <2>1, <2>2
<1>2. SUBSET D \subseteq T
  <2> HIDE DEF T
  <2>1. QED
    BY <1>1, SubsetInduction
<1>3. SumOver(f, D) = SumOver(g, Image(D))
  BY <1>2
<1>4. SumOver(g, S) = SumOver(g, Image(D))
  <2>1. Image(D) \in SUBSET S /\ \A x \in S : g[x] \in Int /\ (x \notin Image(D) => g[x] = 0)
    OBVIOUS
  <2> HIDE DEF Image
  <2>2. QED
    BY <2>1, SumZeros
<1>5. QED
  BY <1>3, <1>4

\* A sum of natural numbers covers each of them, and each part of it.
LEMMA SumNat ==
    ASSUME NEW S, IsFiniteSet(S), NEW f, \A x \in S : f[x] \in Nat
    PROVE  SumOver(f, S) \in Nat /\ \A x \in S : f[x] <= SumOver(f, S)
<1> DEFINE zero == [x \in S |-> 0]
<1>1. ASSUME NEW s \in SUBSET S PROVE SumOver(f, s) \in Nat
  <2>1. IsFiniteSet(s)
    BY FS_Subset
  <2>2. SumOver(zero, s) <= SumOver(f, s) /\ SumOver(f, s) \in Int
    BY <2>1, SumMonotonic, SumType
  <2>3. SumOver(zero, s) = 0
    <3>1. SumOver(zero, s) = SumOver(zero, {})
      BY <2>1, SumZeros
    <3>2. QED
      BY <3>1, SumEmpty
  <2>4. QED
    BY <2>2, <2>3
<1>2. ASSUME NEW x \in S PROVE f[x] <= SumOver(f, S)
  <2>1. SumOver(f, S) = f[x] + SumOver(f, S \ {x})
    BY SumRemove
  <2>2. SumOver(f, S \ {x}) \in Nat
    BY <1>1
  <2>3. QED
    BY <2>1, <2>2
<1>3. QED
  BY <1>1, <1>2

\* A part of a sum of natural numbers is not larger.
LEMMA SumPart ==
    ASSUME NEW S, IsFiniteSet(S), NEW R \in SUBSET S, NEW f, NEW g,
           \A x \in S : f[x] \in Nat, \A x \in R : g[x] = f[x]
    PROVE  SumOver(g, R) <= SumOver(f, S)
<1> DEFINE h == [x \in S |-> IF x \in R THEN f[x] ELSE 0]
<1>1. /\ \A x \in S : h[x] \in Int /\ f[x] \in Int /\ h[x] <= f[x]
      /\ \A x \in S : h[x] \in Int /\ (x \notin R => h[x] = 0)
      /\ \A x \in R : g[x] = h[x]
  OBVIOUS
<1> HIDE DEF h
<1>2. SumOver(h, S) <= SumOver(f, S)
  BY <1>1, SumMonotonic
<1>3. SumOver(h, S) = SumOver(h, R)
  BY <1>1, SumZeros
<1>4. IsFiniteSet(R)
  BY FS_Subset
<1>5. SumOver(g, R) = SumOver(h, R)
  BY <1>1, <1>4, SumSame
<1>6. QED
  BY <1>2, <1>3, <1>5

\* A share of each element is the same share of the sum.
LEMMA SumLinear ==
    ASSUME NEW S, IsFiniteSet(S), NEW k \in Int, NEW f, NEW g, NEW h,
           \A x \in S : f[x] \in Int /\ g[x] \in Int /\ h[x] = f[x] + k * g[x]
    PROVE  SumOver(h, S) = SumOver(f, S) + k * SumOver(g, S)
<1> DEFINE T == {s \in SUBSET S : SumOver(h, s) = SumOver(f, s) + k * SumOver(g, s)}
<1>1. ASSUME NEW s \in SUBSET S, \A r \in SUBSET s : r # s => r \in T
      PROVE  s \in T
  <2>1. CASE s = {}
    BY <2>1, SumEmpty
  <2>2. CASE s # {}
    <3>1. PICK x \in s : TRUE
      BY <2>2
    <3>2. IsFiniteSet(s) /\ IsFiniteSet(s \ {x}) /\ s \ {x} \in SUBSET s /\ s \ {x} # s
      BY <3>1, FS_Subset
    <3>3. SumOver(h, s \ {x}) = SumOver(f, s \ {x}) + k * SumOver(g, s \ {x})
      BY <1>1, <3>2
    <3>4. (\A y \in s : f[y] \in Int) /\ (\A y \in s : g[y] \in Int) /\ (\A y \in s : h[y] \in Int)
      OBVIOUS
    <3>5. SumOver(f, s) = f[x] + SumOver(f, s \ {x}) /\ SumOver(g, s) = g[x] + SumOver(g, s \ {x})
      BY <3>2, <3>4, SumRemove
    <3>6. SumOver(h, s) = h[x] + SumOver(h, s \ {x})
      BY <3>2, <3>4, SumRemove
    <3>7. PICK a \in Int, b \in Int : a = SumOver(f, s \ {x}) /\ b = SumOver(g, s \ {x})
      BY <3>2, <3>4, SumType
    <3>8. h[x] = f[x] + k * g[x] /\ f[x] \in Int /\ g[x] \in Int
      OBVIOUS
    <3>9. k * (g[x] + b) = k * g[x] + k * b /\ k * g[x] \in Int /\ k * b \in Int
      BY <3>7, <3>8
    <3>10. SumOver(h, s) = SumOver(f, s) + k * SumOver(g, s)
      BY <3>3, <3>5, <3>6, <3>7, <3>8, <3>9
    <3>11. QED
      BY <3>10
  <2>3. QED
    BY <2>1, <2>2
<1> HIDE DEF T
<1>2. SUBSET S \subseteq T
  BY <1>1, SubsetInduction
<1>3. QED
  BY <1>2 DEF T

=============================================================================
