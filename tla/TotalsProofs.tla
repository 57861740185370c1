----------------------------- MODULE TotalsProofs -----------------------------
(***************************************************************************)
(* What sums over finite sets are, keep and bound.  The induction theorems *)
(* of the library take a predicate; NatInduct and SetInduct say the same   *)
(* of the set of the numbers, or of the subsets, of which it holds.        *)
(***************************************************************************)
EXTENDS Totals, FiniteSetTheorems, WellFoundedInduction, TLAPS

-------------------------------------------------------------------------------
(* Induction.                                                              *)

LEMMA NatInduct ==
  ASSUME NEW T, 0 \in T, \A n \in Nat : n \in T => n + 1 \in T
  PROVE  Nat \subseteq T
  <1> DEFINE Bad == Nat \ T
  <1> DEFINE Less == {ss \in Nat \X Nat : ss[1] < ss[2]}
  <1>1. OpToRel(<, Nat) = Less
    BY Zenon DEF OpToRel
  <1>2. IsWellFoundedOn(Less, Nat)
    BY <1>1, NatLessThanWellFounded, Zenon
  <1>3. SUFFICES ASSUME Bad # {}
                 PROVE  FALSE
    OBVIOUS
  <1>4. PICK m \in Bad : \A k \in Bad : ~(<<k, m>> \in Less)
    <2>1. Bad \subseteq Nat
      OBVIOUS
    <2> HIDE DEF Bad, Less
    <2>2. QED
      BY <1>2, <1>3, <2>1, WFMin
  <1>5. m \in Nat /\ m # 0 /\ m \notin T
    OBVIOUS
  <1>6. m - 1 \in Nat /\ m - 1 < m
    BY <1>5
  <1>7. m - 1 \in T
    <2>1. <<m - 1, m>> \in Less
      BY <1>5, <1>6
    <2>2. QED
      BY <1>4, <1>6, <2>1
  <1>8. (m - 1) + 1 \in T
    BY <1>6, <1>7
  <1>9. QED
    BY <1>5, <1>8

LEMMA SetInduct ==
  ASSUME NEW D, IsFiniteSet(D), NEW T, {} \in T,
         \A S \in SUBSET D : \A x \in D \ S : S \in T => S \cup {x} \in T
  PROVE  SUBSET D \subseteq T
  <1> DEFINE N == {n \in Nat : \A S \in SUBSET D : Cardinality(S) = n => S \in T}
  <1>1. \A S \in SUBSET D : IsFiniteSet(S) /\ Cardinality(S) \in Nat
    BY FS_Subset, FS_CardinalityType
  <1>2. 0 \in N
    BY <1>1, FS_EmptySet
  <1>3. ASSUME NEW n \in Nat, n \in N
        PROVE  n + 1 \in N
    <2> SUFFICES ASSUME NEW S \in SUBSET D, Cardinality(S) = n + 1
                 PROVE  S \in T
      OBVIOUS
    <2>1. S # {}
      <3>1. n + 1 # 0
        BY <1>3
      <3>2. QED
        BY <3>1, FS_EmptySet
    <2>2. PICK x \in S : TRUE
      BY <2>1
    <2>3. Cardinality(S \ {x}) = n
      <3>1. Cardinality(S \ {x}) = Cardinality(S) - 1
        BY <1>1, <2>2, FS_RemoveElement
      <3> HIDE DEF N
      <3>2. QED
        BY <3>1
    <2>4. S \ {x} \in T
      BY <1>3, <2>3
    <2>5. x \in D \ (S \ {x}) /\ (S \ {x}) \cup {x} = S
      OBVIOUS
    <2>6. QED
      BY <2>4, <2>5
  <1>4. Nat \subseteq N
    <2> HIDE DEF N
    <2>1. QED
      BY <1>2, <1>3, NatInduct
  <1>5. QED
    BY <1>1, <1>4

\* The values of a function on a finite set are finitely many.
LEMMA ImageFinite ==
  ASSUME NEW D, IsFiniteSet(D), NEW f, f = [x \in D |-> f[x]]
  PROVE  IsFiniteSet({f[x] : x \in D})
  <1> DEFINE R == {f[x] : x \in D}
  <1>1. f \in Surjection(D, R)
    BY DEF Surjection
  <1> HIDE DEF R
  <1>2. IsFiniteSet(R)
    BY <1>1, FS_Surjection
  <1>3. QED
    BY <1>2 DEF R

-------------------------------------------------------------------------------
(* The recursion behind a sum.                                             *)

Pick(s) == CHOOSE x \in s : TRUE

Sums(f, D, it) ==
  it = [s \in SUBSET D |-> IF s = {} THEN 0 ELSE f[Pick(s)] + it[s \ {Pick(s)}]]

LEMMA PickOne == ASSUME NEW s, s # {} PROVE Pick(s) \in s
  BY DEF Pick

\* There is a function with the equation of the sum: it is built up by cardinality.
LEMMA SumsExist ==
  ASSUME NEW D, IsFiniteSet(D), NEW f \in [D -> Int]
  PROVE  \E it : Sums(f, D, it)
  <1> DEFINE Upto(n) == {s \in SUBSET D : Cardinality(s) <= n}
             Step(g, s) == IF s = {} THEN 0 ELSE f[Pick(s)] + g[s \ {Pick(s)}]
             N == {n \in Nat : \E g \in [Upto(n) -> Int] : \A s \in Upto(n) : g[s] = Step(g, s)}
  <1>1. \A s \in SUBSET D : IsFiniteSet(s) /\ Cardinality(s) \in Nat
    BY FS_Subset, FS_CardinalityType
  <1>2. \A n \in Nat : \A s \in Upto(n + 1) : s # {} => Pick(s) \in D /\ s \ {Pick(s)} \in Upto(n)
    <2> SUFFICES ASSUME NEW n \in Nat, NEW s \in Upto(n + 1), s # {}
                 PROVE  Pick(s) \in D /\ s \ {Pick(s)} \in Upto(n)
      OBVIOUS
    <2>1. Pick(s) \in s
      BY PickOne
    <2>2. Cardinality(s \ {Pick(s)}) = Cardinality(s) - 1
      BY <1>1, <2>1, FS_RemoveElement
    <2>3. Cardinality(s) \in Nat /\ Cardinality(s) <= n + 1
      BY <1>1
    <2>4. Cardinality(s \ {Pick(s)}) <= n
      BY <2>2, <2>3
    <2>5. QED
      BY <2>1, <2>4
  <1>3. 0 \in N
    <2>1. \A s \in Upto(0) : s = {}
      BY <1>1, FS_EmptySet
    <2>2. [s \in Upto(0) |-> 0] \in [Upto(0) -> Int]
      OBVIOUS
    <2> DEFINE g == [s \in Upto(0) |-> 0]
    <2>3. \A s \in Upto(0) : g[s] = Step(g, s)
      BY <2>1
    <2>4. QED
      BY <2>2, <2>3
  <1>4. ASSUME NEW n \in Nat, n \in N
        PROVE  n + 1 \in N
    <2>1. PICK g \in [Upto(n) -> Int] : \A s \in Upto(n) : g[s] = Step(g, s)
      BY <1>4
    <2> DEFINE h == [s \in Upto(n + 1) |-> Step(g, s)]
    <2>2. \A s \in Upto(n + 1) : h[s] = Step(g, s)
      OBVIOUS
    <2>3. Upto(n) \subseteq Upto(n + 1)
      BY <1>1
    <2>4. \A s \in Upto(n) : h[s] = g[s]
      BY <2>1, <2>2, <2>3
    <2>5. h \in [Upto(n + 1) -> Int]
      BY <1>2
    <2>6. \A s \in Upto(n + 1) : h[s] = Step(h, s)
      <3> HIDE DEF h, Upto
      <3>1. QED
        BY <1>2, <2>2, <2>4
    <2>7. \E e \in [Upto(n + 1) -> Int] : \A s \in Upto(n + 1) : e[s] = Step(e, s)
      <3> HIDE DEF h, Upto
      <3>1. QED
        BY <2>5, <2>6
    <2>8. n + 1 \in Nat
      OBVIOUS
    <2>9. QED
      BY <2>7, <2>8
  <1>5. Nat \subseteq N
    <2> HIDE DEF N
    <2>1. QED
      BY <1>3, <1>4, NatInduct
  <1>6. Cardinality(D) \in Nat /\ Upto(Cardinality(D)) = SUBSET D
    BY <1>1, FS_Subset
  <1>7. PICK g \in [SUBSET D -> Int] : \A s \in SUBSET D : g[s] = Step(g, s)
    <2>1. Cardinality(D) \in N
      BY <1>5, <1>6
    <2>2. QED
      BY <1>6, <2>1
  <1>8. Sums(f, D, g)
    BY <1>7 DEF Sums
  <1>9. QED
    BY <1>8

\* The sums of f over the subsets of its domain, taken in any order.
SumsOf(f, D, it) ==
  /\ it \in [SUBSET D -> Int]
  /\ it[{}] = 0
  /\ \A s \in SUBSET D : \A x \in D \ s : it[s \cup {x}] = f[x] + it[s]
  /\ Total(f) = it[D]

LEMMA TotalSums ==
  ASSUME NEW D, IsFiniteSet(D), NEW f \in [D -> Int]
  PROVE  \E it : SumsOf(f, D, it)
  <1> DEFINE it == CHOOSE g : Sums(f, D, g)
  <1>1. Total(f) = it[D]
    BY DEF Total, MapThenSumSet, MapThenFoldSet, Sums, Pick
  <1>2. Sums(f, D, it)
    BY SumsExist
  <1> HIDE DEF it
  <1>3. /\ it[{}] = 0
        /\ \A s \in SUBSET D : s # {} => it[s] = f[Pick(s)] + it[s \ {Pick(s)}]
    BY <1>2 DEF Sums
  <1>4. \A s \in SUBSET D : IsFiniteSet(s) /\ Cardinality(s) \in Nat
    BY FS_Subset, FS_CardinalityType
  <1> DEFINE Adds(s) == it[s] \in Int /\ \A x \in D \ s : it[s \cup {x}] = f[x] + it[s]
             N == {n \in Nat : \A s \in SUBSET D : Cardinality(s) = n => Adds(s)}
  <1>5. 0 \in N
    <2> SUFFICES ASSUME NEW s \in SUBSET D, Cardinality(s) = 0
                 PROVE  Adds(s)
      OBVIOUS
    <2>1. s = {}
      BY <1>4, FS_EmptySet
    <2>2. \A x \in D : Pick({x}) = x /\ {x} \ {x} = {}
      BY PickOne
    <2>3. ASSUME NEW x \in D
          PROVE  it[{x}] = f[x] + it[{}]
      <3>1. {x} \in SUBSET D /\ {x} # {}
        OBVIOUS
      <3>2. it[{x}] = f[Pick({x})] + it[{x} \ {Pick({x})}]
        BY <1>3, <3>1
      <3>3. Pick({x}) = x /\ {x} \ {x} = {}
        BY <2>2
      <3>4. QED
        BY <3>2, <3>3
    <2>4. \A x \in D \ s : s \cup {x} = {x}
      BY <2>1
    <2>5. QED
      BY <1>3, <2>1, <2>3, <2>4
  <1>6. ASSUME NEW n \in Nat, n \in N
        PROVE  n + 1 \in N
    <2> SUFFICES ASSUME NEW s \in SUBSET D, Cardinality(s) = n + 1
                 PROVE  Adds(s)
      OBVIOUS
    <2>1. ASSUME NEW q \in s
          PROVE  Adds(s \ {q})
      <3>1. Cardinality(s \ {q}) = Cardinality(s) - 1
        BY <1>4, FS_RemoveElement
      <3>2. Cardinality(s \ {q}) = n
        <4> HIDE DEF N
        <4>1. QED
          BY <3>1
      <3> HIDE DEF Adds
      <3>3. QED
        BY <1>6, <3>2
    <2>2. s # {}
      <3>1. n + 1 # 0
        BY <1>6
      <3>2. QED
        BY <3>1, FS_EmptySet
    <2>3. it[s] \in Int
      <3>1. Pick(s) \in s
        BY <2>2, PickOne
      <3>2. it[s \ {Pick(s)}] \in Int /\ f[Pick(s)] \in Int
        BY <2>1, <3>1
      <3>3. QED
        BY <1>3, <2>2, <3>2
    <2>4. ASSUME NEW x \in D \ s
          PROVE  it[s \cup {x}] = f[x] + it[s]
      <3> DEFINE q == Pick(s \cup {x})
      <3>1. q \in s \cup {x}
        BY PickOne
      <3>2. it[s \cup {x}] = f[q] + it[(s \cup {x}) \ {q}]
        BY <1>3
      <3> HIDE DEF q
      <3>3. CASE q = x
        <4>1. (s \cup {x}) \ {q} = s
          BY <3>3
        <4>2. QED
          BY <3>2, <3>3, <4>1
      <3>4. CASE q \in s
        <4>1. (s \cup {x}) \ {q} = (s \ {q}) \cup {x} /\ (s \ {q}) \cup {q} = s
          BY <3>4
        <4>2. Adds(s \ {q})
          BY <2>1, <3>4
        <4>3. it[(s \ {q}) \cup {x}] = f[x] + it[s \ {q}]
          BY <4>2
        <4>4. it[s] = f[q] + it[s \ {q}]
          BY <3>4, <4>1, <4>2
        <4>5. f[q] \in Int /\ f[x] \in Int /\ it[s \ {q}] \in Int
          BY <3>4, <4>2
        <4>6. it[s \cup {x}] = f[q] + (f[x] + it[s \ {q}])
          BY <3>2, <4>1, <4>3
        <4>7. QED
          BY <4>4, <4>5, <4>6
      <3>5. QED
        BY <3>1, <3>3, <3>4
    <2>5. QED
      BY <2>3, <2>4
  <1>7. Nat \subseteq N
    <2> HIDE DEF N
    <2>1. QED
      BY <1>5, <1>6, NatInduct
  <1>8. \A s \in SUBSET D : Adds(s)
    <2> HIDE DEF Adds
    <2>1. QED
      BY <1>4, <1>7
  <1>9. it \in [SUBSET D -> Int]
    BY <1>2, <1>8 DEF Sums
  <1>10. QED
    BY <1>1, <1>3, <1>8, <1>9 DEF SumsOf

-------------------------------------------------------------------------------
(* What sums are made of.                                                  *)

LEMMA TotalType ==
  ASSUME NEW D, IsFiniteSet(D), NEW f \in [D -> Int]
  PROVE  Total(f) \in Int
  <1>1. PICK it : SumsOf(f, D, it)
    BY TotalSums
  <1>2. D \in SUBSET D
    OBVIOUS
  <1>3. QED
    BY <1>1, <1>2 DEF SumsOf

LEMMA TotalEmpty ==
  ASSUME NEW f \in [{} -> Int]
  PROVE  Total(f) = 0
  BY TotalSums, FS_EmptySet DEF SumsOf

\* Sums compare term by term.
LEMMA TotalCompare ==
  ASSUME NEW D, IsFiniteSet(D), NEW f \in [D -> Int], NEW g \in [D -> Int],
         \A x \in D : f[x] <= g[x]
  PROVE  Total(f) <= Total(g)
  <1>1. PICK F : SumsOf(f, D, F)
    BY TotalSums
  <1>2. PICK G : SumsOf(g, D, G)
    BY TotalSums
  <1> DEFINE T == {s \in SUBSET D : F[s] <= G[s]}
  <1>3. {} \in T
    BY <1>1, <1>2 DEF SumsOf
  <1>4. ASSUME NEW s \in SUBSET D, NEW x \in D \ s, s \in T
        PROVE  s \cup {x} \in T
    <2>1. F[s] <= G[s] /\ F[s] \in Int /\ G[s] \in Int /\ f[x] \in Int /\ g[x] \in Int
      BY <1>1, <1>2, <1>4 DEF SumsOf
    <2>2. F[s \cup {x}] = f[x] + F[s] /\ G[s \cup {x}] = g[x] + G[s]
      BY <1>1, <1>2 DEF SumsOf
    <2>3. F[s \cup {x}] <= G[s \cup {x}]
      BY <2>1, <2>2
    <2>4. QED
      BY <2>3
  <1>5. SUBSET D \subseteq T
    <2> HIDE DEF T
    <2>1. QED
      BY <1>3, <1>4, SetInduct
  <1>6. QED
    BY <1>1, <1>2, <1>5 DEF SumsOf

LEMMA TotalZero ==
  ASSUME NEW D, IsFiniteSet(D), NEW f \in [D -> Int], \A x \in D : f[x] = 0
  PROVE  Total(f) = 0
  <1>1. PICK F : SumsOf(f, D, F)
    BY TotalSums
  <1> DEFINE T == {s \in SUBSET D : F[s] = 0}
  <1>2. {} \in T
    BY <1>1 DEF SumsOf
  <1>3. \A s \in SUBSET D : \A x \in D \ s : s \in T => s \cup {x} \in T
    BY <1>1 DEF SumsOf
  <1>4. SUBSET D \subseteq T
    <2> HIDE DEF T
    <2>1. QED
      BY <1>2, <1>3, SetInduct
  <1>5. QED
    BY <1>1, <1>4 DEF SumsOf

LEMMA TotalNat ==
  ASSUME NEW D, IsFiniteSet(D), NEW f \in [D -> Nat]
  PROVE  Total(f) \in Nat
  <1> DEFINE z == [x \in D |-> 0]
  <1>1. z \in [D -> Int] /\ f \in [D -> Int] /\ \A x \in D : z[x] <= f[x]
    OBVIOUS
  <1>2. Total(z) = 0
    BY TotalZero
  <1> HIDE DEF z
  <1>3. Total(z) <= Total(f) /\ Total(f) \in Int
    BY <1>1, TotalCompare, TotalType
  <1>4. QED
    BY <1>2, <1>3

\* One term more.
LEMMA TotalAdd ==
  ASSUME NEW D, IsFiniteSet(D), NEW x, x \notin D, NEW f \in [D \cup {x} -> Int],
         NEW g \in [D -> Int], \A y \in D : f[y] = g[y]
  PROVE  Total(f) = f[x] + Total(g)
  <1>1. IsFiniteSet(D \cup {x})
    BY FS_AddElement
  <1>2. PICK F : SumsOf(f, D \cup {x}, F)
    BY <1>1, TotalSums
  <1>3. PICK G : SumsOf(g, D, G)
    BY TotalSums
  <1> DEFINE T == {s \in SUBSET D : F[s] = G[s]}
  <1>4. {} \in T
    BY <1>2, <1>3 DEF SumsOf
  <1>5. ASSUME NEW s \in SUBSET D, NEW y \in D \ s, s \in T
        PROVE  s \cup {y} \in T
    <2>1. F[s \cup {y}] = f[y] + F[s] /\ G[s \cup {y}] = g[y] + G[s]
      BY <1>2, <1>3 DEF SumsOf
    <2>2. F[s] = G[s]
      BY <1>5
    <2>3. QED
      BY <2>1, <2>2
  <1>6. SUBSET D \subseteq T
    <2> HIDE DEF T
    <2>1. QED
      BY <1>4, <1>5, SetInduct
  <1>7. F[D] = G[D]
    BY <1>6
  <1>8. F[D \cup {x}] = f[x] + F[D]
    BY <1>2 DEF SumsOf
  <1>9. QED
    BY <1>2, <1>3, <1>7, <1>8 DEF SumsOf

\* One term changed.
LEMMA TotalChange ==
  ASSUME NEW D, IsFiniteSet(D), NEW f \in [D -> Int], NEW g \in [D -> Int], NEW k \in D,
         \A x \in D \ {k} : f[x] = g[x]
  PROVE  Total(g) = Total(f) + (g[k] - f[k])
  <1> DEFINE C == D \ {k}
             h == [x \in C |-> f[x]]
  <1>1. IsFiniteSet(C) /\ k \notin C /\ C \cup {k} = D /\ h \in [C -> Int]
    BY FS_Subset
  <1>2. \A x \in C : h[x] = f[x] /\ h[x] = g[x]
    OBVIOUS
  <1> HIDE DEF C, h
  <1>3. Total(f) = f[k] + Total(h)
    BY <1>1, <1>2, TotalAdd
  <1>4. Total(g) = g[k] + Total(h)
    BY <1>1, <1>2, TotalAdd
  <1>5. Total(h) \in Int /\ f[k] \in Int /\ g[k] \in Int
    BY <1>1, TotalType
  <1>6. QED
    BY <1>3, <1>4, <1>5

\* The terms that are zero may be left out.
LEMMA TotalSubset ==
  ASSUME NEW D, IsFiniteSet(D), NEW C \in SUBSET D, NEW f \in [D -> Int], NEW g \in [C -> Int],
         \A x \in C : f[x] = g[x], \A x \in D \ C : f[x] = 0
  PROVE  Total(f) = Total(g)
  <1>0. IsFiniteSet(C)
    BY FS_Subset
  <1>1. PICK F : SumsOf(f, D, F)
    BY TotalSums
  <1>2. PICK G : SumsOf(g, C, G)
    BY <1>0, TotalSums
  <1> DEFINE T == {s \in SUBSET D : F[s] = G[s \cap C]}
  <1>3. {} \in T
    <2>1. {} \cap C = {}
      OBVIOUS
    <2>2. QED
      BY <1>1, <1>2, <2>1 DEF SumsOf
  <1>4. ASSUME NEW s \in SUBSET D, NEW x \in D \ s, s \in T
        PROVE  s \cup {x} \in T
    <2>1. F[s \cup {x}] = f[x] + F[s] /\ F[s] \in Int /\ F[s] = G[s \cap C]
      BY <1>1, <1>4 DEF SumsOf
    <2>2. CASE x \in C
      <3>1. (s \cup {x}) \cap C = (s \cap C) \cup {x} /\ x \in C \ (s \cap C)
        BY <2>2
      <3>2. G[(s \cap C) \cup {x}] = g[x] + G[s \cap C]
        BY <1>2, <3>1 DEF SumsOf
      <3>3. F[s \cup {x}] = G[(s \cup {x}) \cap C]
        BY <2>1, <2>2, <3>1, <3>2
      <3>4. QED
        BY <3>3
    <2>3. CASE x \notin C
      <3>1. (s \cup {x}) \cap C = s \cap C
        BY <2>3
      <3>2. F[s \cup {x}] = F[s]
        BY <2>1, <2>3
      <3>3. QED
        BY <2>1, <3>1, <3>2
    <2>4. QED
      BY <2>2, <2>3
  <1>5. SUBSET D \subseteq T
    <2> HIDE DEF T
    <2>1. QED
      BY <1>3, <1>4, SetInduct
  <1>6. D \in T /\ D \cap C = C
    BY <1>5
  <1>7. F[D] = G[C]
    BY <1>6
  <1>8. QED
    BY <1>1, <1>2, <1>7 DEF SumsOf

\* Sums compare term by term, also with a factor on either side.
LEMMA TotalScale ==
  ASSUME NEW D, IsFiniteSet(D), NEW f \in [D -> Int], NEW g \in [D -> Int],
         NEW a \in Int, NEW b \in Int, \A x \in D : a * f[x] <= b * g[x]
  PROVE  a * Total(f) <= b * Total(g)
  <1>1. PICK F : SumsOf(f, D, F)
    BY TotalSums
  <1>2. PICK G : SumsOf(g, D, G)
    BY TotalSums
  <1> DEFINE T == {s \in SUBSET D : a * F[s] <= b * G[s]}
  <1>3. {} \in T
    <2>1. F[{}] = 0 /\ G[{}] = 0
      BY <1>1, <1>2 DEF SumsOf
    <2>2. a * 0 <= b * 0
      OBVIOUS
    <2>3. QED
      BY <2>1, <2>2
  <1>4. ASSUME NEW s \in SUBSET D, NEW x \in D \ s, s \in T
        PROVE  s \cup {x} \in T
    <2>1. F[s] \in Int /\ G[s] \in Int /\ f[x] \in Int /\ g[x] \in Int
      BY <1>1, <1>2 DEF SumsOf
    <2>2. F[s \cup {x}] = f[x] + F[s] /\ G[s \cup {x}] = g[x] + G[s]
      BY <1>1, <1>2 DEF SumsOf
    <2>3. a * (f[x] + F[s]) = a * f[x] + a * F[s] /\ b * (g[x] + G[s]) = b * g[x] + b * G[s]
      BY <2>1
    <2>4. a * f[x] <= b * g[x] /\ a * F[s] <= b * G[s]
      BY <1>4
    <2>5. a * f[x] \in Int /\ a * F[s] \in Int /\ b * g[x] \in Int /\ b * G[s] \in Int
      BY <2>1
    <2>6. a * F[s \cup {x}] <= b * G[s \cup {x}]
      BY <2>2, <2>3, <2>4, <2>5
    <2>7. QED
      BY <2>6
  <1>5. SUBSET D \subseteq T
    <2> HIDE DEF T
    <2>1. QED
      BY <1>3, <1>4, SetInduct
  <1>6. QED
    BY <1>1, <1>2, <1>5 DEF SumsOf

\* A sum is at most the sum of the terms that its own, where not zero, are taken
\* from, each once.
LEMMA TotalInto ==
  ASSUME NEW D, IsFiniteSet(D), NEW f \in [D -> Nat],
         NEW E, IsFiniteSet(E), NEW g \in [E -> Nat], NEW k,
         \A x \in D : f[x] # 0 => k[x] \in E /\ f[x] = g[k[x]],
         \A x, y \in D : f[x] # 0 /\ f[y] # 0 /\ k[x] = k[y] => x = y
  PROVE  Total(f) <= Total(g)
  <1> DEFINE Used(s) == {k[x] : x \in {y \in s : f[y] # 0}}
  <1>1. PICK F : SumsOf(f, D, F)
    BY TotalSums
  <1>2. PICK G : SumsOf(g, E, G)
    BY TotalSums
  <1> DEFINE T == {s \in SUBSET D : F[s] = G[Used(s)]}
  <1>3. \A s \in SUBSET D : Used(s) \in SUBSET E
    OBVIOUS
  <1>4. {} \in T
    <2>1. Used({}) = {}
      OBVIOUS
    <2>2. QED
      BY <1>1, <1>2, <2>1 DEF SumsOf
  <1>5. ASSUME NEW s \in SUBSET D, NEW x \in D \ s, s \in T
        PROVE  s \cup {x} \in T
    <2>1. F[s \cup {x}] = f[x] + F[s] /\ F[s] \in Int /\ F[s] = G[Used(s)]
      BY <1>1, <1>5 DEF SumsOf
    <2>2. CASE f[x] = 0
      <3>1. Used(s \cup {x}) = Used(s)
        BY <2>2
      <3>2. QED
        BY <2>1, <2>2, <3>1
    <2>3. CASE f[x] # 0
      <3>1. k[x] \in E \ Used(s) /\ Used(s \cup {x}) = Used(s) \cup {k[x]}
        BY <2>3
      <3>2. f[x] = g[k[x]] /\ Used(s) \in SUBSET E
        BY <1>3, <2>3
      <3> HIDE DEF Used
      <3>3. G[Used(s) \cup {k[x]}] = g[k[x]] + G[Used(s)]
        BY <1>2, <3>1, <3>2 DEF SumsOf
      <3>4. QED
        BY <2>1, <3>1, <3>2, <3>3
    <2>4. QED
      BY <2>2, <2>3
  <1>6. SUBSET D \subseteq T
    <2> HIDE DEF T
    <2>1. QED
      BY <1>4, <1>5, SetInduct
  <1>7. Total(f) = G[Used(D)]
    BY <1>1, <1>6 DEF SumsOf
  <1>8. \A C \in SUBSET E : G[C] <= G[E]
    <2> SUFFICES ASSUME NEW C \in SUBSET E
                 PROVE  G[C] <= G[E]
      OBVIOUS
    <2> DEFINE R == E \ C
               V == {s \in SUBSET R : G[C] <= G[C \cup s]}
    <2>1. IsFiniteSet(R)
      BY FS_Subset
    <2>2. {} \in V
      <3>1. C \cup {} = C /\ G[C] \in Int
        BY <1>2 DEF SumsOf
      <3>2. QED
        BY <3>1
    <2>3. ASSUME NEW s \in SUBSET R, NEW z \in R \ s, s \in V
          PROVE  s \cup {z} \in V
      <3>1. C \cup s \in SUBSET E /\ z \in E \ (C \cup s) /\ C \cup (s \cup {z}) = (C \cup s) \cup {z}
        OBVIOUS
      <3>2. G[(C \cup s) \cup {z}] = g[z] + G[C \cup s] /\ G[C \cup s] \in Int /\ G[C] \in Int
        BY <1>2, <3>1 DEF SumsOf
      <3>3. G[C] <= G[C \cup s] /\ g[z] \in Nat
        BY <2>3
      <3>4. QED
        BY <3>1, <3>2, <3>3
    <2>4. SUBSET R \subseteq V
      <3> HIDE DEF V, R
      <3>1. QED
        BY <2>1, <2>2, <2>3, SetInduct
    <2>5. R \in V /\ C \cup R = E
      BY <2>4
    <2>6. G[C] <= G[C \cup R]
      BY <2>5
    <2>7. QED
      BY <2>5, <2>6
  <1>9. QED
    BY <1>2, <1>3, <1>7, <1>8 DEF SumsOf

===============================================================================
