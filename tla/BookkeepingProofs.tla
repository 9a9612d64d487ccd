--------------------------- MODULE BookkeepingProofs ---------------------------
(***************************************************************************)
(* Proofs about Bookkeeping, for any prices, quantities and instruments.   *)
(*                                                                         *)
(* The sums over the open positions are defined by recursion on sets.  A   *)
(* lemma on them is an induction, on a set of sets instead of a predicate: *)
(* a least set outside it has a smaller one outside it.                    *)
(***************************************************************************)
EXTENDS Bookkeeping, FiniteSetTheorems, WellFoundedInduction, TLAPS

-----------------------------------------------------------------------------
(* Sums over a finite set *)

\* A set of numbers that is not empty has a least one.
LEMMA LeastNumber ==
  ASSUME NEW T \in SUBSET Nat, T # {}
  PROVE  \E n \in T : \A m \in T : n <= m
  <1>1. PICK n \in T : \A m \in T : ~ (<<m, n>> \in OpToRel(<, Nat))
    BY NatLessThanWellFounded, WFMin
  <1>2. \A m \in T : ~ (m < n)
    BY <1>1 DEF OpToRel
  <1> QED
    BY <1>2

Chosen(s) == CHOOSE x \in s : TRUE

\* g sums f over the subsets of S, an element at a time.
Sums(g, S, f) ==
  g = [s \in SUBSET S |-> IF s = {} THEN 0 ELSE f[Chosen(s)] + g[s \ {Chosen(s)}]]

\* The subsets of S with at most n elements.
Small(S, n) == {s \in SUBSET S : Cardinality(s) <= n}

LEMMA SmallerSet ==
  ASSUME NEW S, IsFiniteSet(S), NEW s \in SUBSET S, s # {}
  PROVE  /\ Chosen(s) \in s
         /\ \A x \in s : /\ s \ {x} \in SUBSET S
                         /\ Cardinality(s \ {x}) = Cardinality(s) - 1
                         /\ Cardinality(s) \in Nat \ {0}
                         /\ Cardinality(s \ {x}) \in Nat
  <1>1. Chosen(s) \in s
    BY DEF Chosen
  <1>2. IsFiniteSet(s)
    BY FS_Subset
  <1>3. ASSUME NEW x \in s
        PROVE  /\ Cardinality(s \ {x}) = Cardinality(s) - 1
               /\ Cardinality(s) \in Nat
               /\ Cardinality(s \ {x}) \in Nat
    <2>1. IsFiniteSet(s \ {x}) /\ Cardinality(s \ {x}) = Cardinality(s) - 1
      BY <1>2, FS_RemoveElement
    <2> QED
      BY <1>2, <2>1, FS_CardinalityType
  <1> QED
    BY <1>1, <1>3

\* There are such sums: those of the sets of n elements follow from those of n - 1.
LEMMA SumsExist ==
  ASSUME NEW S, IsFiniteSet(S), NEW f \in [S -> Int]
  PROVE  \E g : Sums(g, S, f)
  <1> DEFINE Value(g, s) == IF s = {} THEN 0 ELSE f[Chosen(s)] + g[s \ {Chosen(s)}]
             Upto(n) == \E g : g = [s \in Small(S, n) |-> Value(g, s)]
  <1>1. Upto(0)
    <2> DEFINE g == [s \in Small(S, 0) |-> 0]
    <2>1. \A s \in Small(S, 0) : s = {}
      <3> SUFFICES ASSUME NEW s \in SUBSET S, Cardinality(s) <= 0 PROVE s = {}
        BY DEF Small
      <3> QED
        BY FS_Subset, FS_EmptySet, FS_CardinalityType
    <2>2. g = [s \in Small(S, 0) |-> Value(g, s)]
      BY <2>1
    <2> QED
      BY <2>2
  <1>2. ASSUME NEW n \in Nat, Upto(n)
        PROVE  Upto(n + 1)
    <2>1. PICK g : g = [s \in Small(S, n) |-> Value(g, s)]
      BY <1>2
    <2> DEFINE h == [s \in Small(S, n + 1) |-> Value(g, s)]
    <2>2. Small(S, n) \subseteq Small(S, n + 1)
      <3> SUFFICES ASSUME NEW s \in SUBSET S, Cardinality(s) <= n
                   PROVE  Cardinality(s) <= n + 1
        BY DEF Small
      <3>1. Cardinality(s) \in Nat
        BY FS_Subset, FS_CardinalityType
      <3> QED
        BY <3>1
    <2>3. \A s \in Small(S, n) : h[s] = g[s]
      <3> SUFFICES ASSUME NEW s \in Small(S, n) PROVE h[s] = g[s]
        OBVIOUS
      <3>1. h[s] = Value(g, s)
        BY <2>2
      <3>2. g[s] = Value(g, s)
        BY <2>1
      <3> QED
        BY <3>1, <3>2
    <2>4. ASSUME NEW s \in Small(S, n + 1) PROVE Value(g, s) = Value(h, s)
      <3>1. CASE s = {}
        BY <3>1
      <3>2. CASE s # {}
        <4>1. s \ {Chosen(s)} \in Small(S, n)
          BY <3>2, SmallerSet DEF Small
        <4> HIDE DEF h
        <4> QED
          BY <2>3, <4>1
      <3> QED
        BY <3>1, <3>2
    <2>5. h = [s \in Small(S, n + 1) |-> Value(h, s)]
      BY <2>4
    <2> QED
      BY <2>5
  <1> HIDE DEF Upto
  <1>3. \A n \in Nat : Upto(n)
    <2> DEFINE T == {n \in Nat : ~ Upto(n)}
    <2> SUFFICES ASSUME T # {} PROVE FALSE
      OBVIOUS
    <2>1. PICK n \in T : \A m \in T : n <= m
      BY LeastNumber
    <2>2. n # 0
      BY <1>1
    <2>3. n - 1 \in Nat /\ n - 1 \notin T
      BY <2>1, <2>2
    <2>4. Upto((n - 1) + 1)
      BY <1>2, <2>3
    <2> QED
      BY <2>4
  <1>4. Cardinality(S) \in Nat /\ Small(S, Cardinality(S)) = SUBSET S
    BY FS_CardinalityType, FS_Subset DEF Small
  <1> QED
    BY <1>3, <1>4 DEF Upto, Sums

\* Induction on the number of elements, for what a set of sets says.
LEMMA SetInduction ==
  ASSUME NEW S, IsFiniteSet(S), NEW Good,
         \A s \in SUBSET S : (\A x \in s : s \ {x} \in Good) => s \in Good
  PROVE  SUBSET S \subseteq Good
  <1> DEFINE T == {Cardinality(s) : s \in {s \in SUBSET S : s \notin Good}}
  <1> SUFFICES ASSUME NEW r \in SUBSET S, r \notin Good PROVE FALSE
    OBVIOUS
  <1>1. T \in SUBSET Nat
    BY FS_Subset, FS_CardinalityType
  <1>2. PICK n \in T : \A m \in T : n <= m
    <2>1. T # {}
      OBVIOUS
    <2> HIDE DEF T
    <2> QED
      BY <1>1, <2>1, LeastNumber
  <1>3. PICK s \in SUBSET S : s \notin Good /\ Cardinality(s) = n
    OBVIOUS
  <1>4. ASSUME NEW x \in s PROVE s \ {x} \in Good
    <2>1. /\ s \ {x} \in SUBSET S
          /\ Cardinality(s \ {x}) = n - 1
      BY <1>3, SmallerSet
    <2>2. n - 1 \notin T
      BY <1>1, <1>2
    <2> QED
      BY <2>1, <2>2
  <1> QED
    BY <1>3, <1>4

\* An element adds its value.
Additive(g, S, f) == \A s \in SUBSET S : \A x \in s : g[s] = f[x] + g[s \ {x}]

\* What such sums are.
LEMMA SumsAre ==
  ASSUME NEW S, IsFiniteSet(S), NEW f \in [S -> Int], NEW g, Sums(g, S, f)
  PROVE  /\ g[{}] = 0
         /\ \A s \in SUBSET S : g[s] \in Int
         /\ Additive(g, S, f)
  <1>1. /\ g[{}] = 0
        /\ \A s \in SUBSET S : s # {} => g[s] = f[Chosen(s)] + g[s \ {Chosen(s)}]
    <2>1. \A s \in SUBSET S :
             g[s] = IF s = {} THEN 0 ELSE f[Chosen(s)] + g[s \ {Chosen(s)}]
      BY Zenon DEF Sums
    <2> QED
      BY <2>1
  <1>2. \A s \in SUBSET S : g[s] \in Int
    <2> DEFINE Good == {s \in SUBSET S : g[s] \in Int}
    <2>1. ASSUME NEW s \in SUBSET S, \A x \in s : s \ {x} \in Good
          PROVE  s \in Good
      <3>1. CASE s = {}
        BY <1>1, <3>1
      <3>2. CASE s # {}
        <4>1. Chosen(s) \in s /\ g[s] = f[Chosen(s)] + g[s \ {Chosen(s)}]
          BY <1>1, <3>2, SmallerSet
        <4> QED
          BY <2>1, <4>1
      <3> QED
        BY <3>1, <3>2
    <2>2. SUBSET S \subseteq Good
      <3> HIDE DEF Good
      <3> QED
        BY <2>1, SetInduction
    <2> QED
      BY <2>2
  <1> DEFINE Good == {s \in SUBSET S : \A x \in s : g[s] = f[x] + g[s \ {x}]}
  <1>3. ASSUME NEW s \in SUBSET S, \A x \in s : s \ {x} \in Good, NEW x \in s
        PROVE  g[s] = f[x] + g[s \ {x}]
    <2> DEFINE c == Chosen(s)
               rest == (s \ {x}) \ {c}
    <2>1. c \in s /\ g[s] = f[c] + g[s \ {c}]
      BY <1>1, SmallerSet
    <2>2. CASE x = c
      BY <2>1, <2>2
    <2>3. CASE x # c
      <3>1. rest = (s \ {c}) \ {x}
        OBVIOUS
      <3>2. g[s \ {c}] = f[x] + g[rest] /\ g[s \ {x}] = f[c] + g[rest]
        BY <1>3, <2>1, <2>3, <3>1
      <3>3. f[x] \in Int /\ f[c] \in Int /\ g[rest] \in Int
        BY <1>2, <2>1
      <3>4. \A i, j, k \in Int : i + (j + k) = j + (i + k)
        OBVIOUS
      <3> HIDE DEF c, rest
      <3> QED
        BY <2>1, <3>2, <3>3, <3>4
    <2> QED
      BY <2>2, <2>3
  <1>4. SUBSET S \subseteq Good
    <2>1. \A s \in SUBSET S : (\A x \in s : s \ {x} \in Good) => s \in Good
      BY <1>3
    <2> HIDE DEF Good
    <2> QED
      BY <2>1, SetInduction
  <1> QED
    BY <1>1, <1>2, <1>4 DEF Additive

\* Sums of the same values are the same.
LEMMA SumsAgree ==
  ASSUME NEW S, IsFiniteSet(S), NEW f \in [S -> Int], NEW g, Sums(g, S, f),
         NEW R, IsFiniteSet(R), NEW e \in [R -> Int], NEW h, Sums(h, R, e),
         S \subseteq R, \A x \in S : e[x] = f[x]
  PROVE  \A s \in SUBSET S : h[s] = g[s]
  <1> DEFINE Good == {s \in SUBSET S : h[s] = g[s]}
  <1>1. /\ g[{}] = 0 /\ h[{}] = 0
        /\ \A s \in SUBSET S : \A x \in s : g[s] = f[x] + g[s \ {x}]
        /\ \A s \in SUBSET R : \A x \in s : h[s] = e[x] + h[s \ {x}]
    <2> HIDE DEF Good
    <2>1. g[{}] = 0 /\ Additive(g, S, f)
      BY SumsAre
    <2>2. h[{}] = 0 /\ Additive(h, R, e)
      BY SumsAre
    <2> QED
      BY <2>1, <2>2 DEF Additive
  <1>2. ASSUME NEW s \in SUBSET S, \A x \in s : s \ {x} \in Good
        PROVE  h[s] = g[s]
    <2>1. CASE s = {}
      BY <1>1, <2>1
    <2>2. ASSUME NEW x \in s PROVE h[s] = g[s]
      <3>1. h[s \ {x}] = g[s \ {x}] /\ e[x] = f[x] /\ s \in SUBSET R
        BY <1>2
      <3> QED
        BY <1>1, <3>1
    <2> QED
      BY <2>1, <2>2
  <1>3. SUBSET S \subseteq Good
    <2>1. \A s \in SUBSET S : (\A x \in s : s \ {x} \in Good) => s \in Good
      BY <1>2
    <2> HIDE DEF Good
    <2> QED
      BY <2>1, SetInduction
  <1> QED
    BY <1>3

\* SumFunction is what any such sums say of the whole domain.
LEMMA SumIs ==
  ASSUME NEW S, IsFiniteSet(S), NEW f \in [S -> Int]
  PROVE  /\ SumFunction(f) \in Int
         /\ \A g : Sums(g, S, f) => SumFunction(f) = g[S]
  <1> DEFINE Body(g) == [s \in SUBSET S |->
                           IF s = {} THEN 0
                           ELSE f[CHOOSE x \in s : TRUE] + g[s \ {CHOOSE x \in s : TRUE}]]
             iter == CHOOSE g : g = Body(g)
  <1>1. SumFunction(f) = iter[S]
    <2>1. DOMAIN f = S
      OBVIOUS
    <2> QED
      BY Zenon, <2>1 DEF SumFunction, SumFunctionOnSet, FoldFunctionOnSet, MapThenFoldSet
  <1>2. \E g : g = Body(g)
    <2>1. PICK g : Sums(g, S, f)
      BY SumsExist
    <2>2. g = Body(g)
      BY <2>1 DEF Sums, Chosen
    <2> QED
      BY <2>2
  <1>3. iter = Body(iter)
    BY <1>2, Zenon
  <1>4. Sums(iter, S, f)
    <2> HIDE DEF iter
    <2> QED
      BY <1>3 DEF Sums, Chosen
  <1> HIDE DEF iter
  <1>5. iter[S] \in Int
    BY <1>4, SumsAre
  <1>6. ASSUME NEW g, Sums(g, S, f) PROVE iter[S] = g[S]
    BY <1>4, <1>6, SumsAgree
  <1> QED
    BY <1>1, <1>5, <1>6

\* Nothing adds up to nothing.
LEMMA SumEmpty ==
  ASSUME NEW f \in [{} -> Int]
  PROVE  SumFunction(f) = 0
  <1>1. IsFiniteSet({})
    BY FS_EmptySet
  <1>2. PICK g : Sums(g, {}, f)
    BY <1>1, SumsExist
  <1>3. SumFunction(f) = g[{}]
    BY <1>1, <1>2, SumIs
  <1>4. g[{}] = 0
    BY <1>1, <1>2, SumsAre
  <1> QED
    BY <1>3, <1>4

\* One value more.
LEMMA SumWithout ==
  ASSUME NEW S, IsFiniteSet(S), NEW f \in [S -> Int], NEW i \in S,
         NEW e \in [S \ {i} -> Int], \A x \in S \ {i} : e[x] = f[x]
  PROVE  SumFunction(f) = f[i] + SumFunction(e)
  <1> DEFINE R == S \ {i}
  <1>1. IsFiniteSet(R)
    BY FS_RemoveElement
  <1>2. PICK g : Sums(g, S, f)
    BY SumsExist
  <1>3. PICK h : Sums(h, R, e)
    BY <1>1, SumsExist
  <1>4. SumFunction(f) = g[S]
    BY <1>2, SumIs
  <1>5. SumFunction(e) = h[R]
    BY <1>1, <1>3, SumIs
  <1>6. g[S] = f[i] + g[R]
    <2>1. Additive(g, S, f)
      BY <1>2, SumsAre
    <2> QED
      BY <2>1 DEF Additive
  <1>7. g[R] = h[R]
    <2>1. R \subseteq S /\ e \in [R -> Int] /\ \A x \in R : f[x] = e[x]
      OBVIOUS
    <2> HIDE DEF R
    <2>2. \A s \in SUBSET R : g[s] = h[s]
      BY <1>1, <1>2, <1>3, <2>1, SumsAgree
    <2> QED
      BY <2>2
  <1> QED
    BY <1>4, <1>5, <1>6, <1>7

\* Where two functions differ at one place, so do their sums.
LEMMA SumChanged ==
  ASSUME NEW S, IsFiniteSet(S), NEW f \in [S -> Int],
         NEW R, NEW e \in [R -> Int], NEW i, S \ {i} = R \ {i},
         \A x \in S \ {i} : e[x] = f[x],
         NEW old \in Int, old = IF i \in S THEN f[i] ELSE 0,
         NEW new \in Int, new = IF i \in R THEN e[i] ELSE 0
  PROVE  /\ IsFiniteSet(R)
         /\ SumFunction(f) \in Int /\ SumFunction(e) \in Int
         /\ SumFunction(e) = SumFunction(f) - old + new
  <1> DEFINE Q == S \ {i}
             common == [x \in Q |-> f[x]]
  <1>1. IsFiniteSet(Q)
    BY FS_Subset
  <1>2. IsFiniteSet(R)
    <2>1. R \subseteq S \cup {i}
      OBVIOUS
    <2>2. IsFiniteSet(S \cup {i})
      BY FS_AddElement
    <2> QED
      BY <2>1, <2>2, FS_Subset
  <1>3. common \in [Q -> Int]
    OBVIOUS
  <1>4. SumFunction(f) \in Int /\ SumFunction(e) \in Int /\ SumFunction(common) \in Int
    <2> HIDE DEF Q, common
    <2> QED
      BY <1>1, <1>2, <1>3, SumIs
  <1>5. SumFunction(f) = old + SumFunction(common)
    <2>1. CASE i \in S
      BY <1>3, <2>1, SumWithout
    <2>2. CASE i \notin S
      <3>1. Q = S /\ common = f
        BY <2>2
      <3> QED
        BY <1>4, <2>2, <3>1
    <2> QED
      BY <2>1, <2>2
  <1>6. SumFunction(e) = new + SumFunction(common)
    <2>1. CASE i \in R
      <3>1. common \in [R \ {i} -> Int] /\ \A x \in R \ {i} : common[x] = e[x]
        OBVIOUS
      <3> QED
        BY <1>2, <2>1, <3>1, SumWithout
    <2>2. CASE i \notin R
      <3>1. common = e
        BY <2>2
      <3> QED
        BY <1>4, <2>2, <3>1
    <2> QED
      BY <2>1, <2>2
  <1> HIDE DEF common
  <1> QED
    BY <1>2, <1>4, <1>5, <1>6

-----------------------------------------------------------------------------
(* Rounding *)

\* A rounded quotient is an integer.
LEMMA RoundDivType ==
  ASSUME NEW n \in Int, NEW d \in Nat \ {0}
  PROVE  RoundDiv(n, d) \in Int
  BY DEF RoundDiv

\* An amount in paise is a multiple of a paisa, half a paisa away at most.
LEMMA PaiseNear ==
  ASSUME NEW x \in Int
  PROVE  /\ Paise(x) \in Int
         /\ Paise(x) % 100 = 0
         /\ 2 * (x - Paise(x)) \in -100 .. 100
  <1>1. x = 100 * (x \div 100) + (x % 100) /\ x \div 100 \in Int /\ x % 100 \in 0 .. 99
    OBVIOUS
  <1>2. RoundDiv(x, 100) \in Int
    BY RoundDivType
  <1>3. CASE 2 * (x % 100) > 100 \/ (2 * (x % 100) = 100 /\ (x \div 100) % 2 = 1)
    <2>1. RoundDiv(x, 100) = x \div 100 + 1
      BY <1>3 DEF RoundDiv
    <2> QED
      BY <1>1, <1>3, <2>1 DEF Paise
  <1>4. CASE ~(2 * (x % 100) > 100 \/ (2 * (x % 100) = 100 /\ (x \div 100) % 2 = 1))
    <2>1. RoundDiv(x, 100) = x \div 100
      BY <1>4 DEF RoundDiv
    <2> QED
      BY <1>1, <1>4, <2>1 DEF Paise
  <1> QED
    BY <1>3, <1>4

\* Charges are whole paise.
LEMMA ChargesType ==
  ASSUME NEW x \in Int
  PROVE  Charges(x) \in Int /\ Charges(x) % 100 = 0
  <1>1. RoundDiv(x * 3, 1000000) \in Int /\ RoundDiv(x * 7, 1000000) \in Int
    BY RoundDivType
  <1> QED
    BY <1>1 DEF Charges, Brokerage, Tax

\* The prices of trades are integers.
LEMMA PriceType ==
  ASSUME NEW x \in Nat
  PROVE  BuyPrice(x) \in Int /\ SellPrice(x) \in Int
  BY RoundDivType DEF BuyPrice, SellPrice

\* A rounded quotient is half a unit away at most.
LEMMA RoundDivNear ==
  ASSUME NEW n \in Int, NEW d \in Nat \ {0}
  PROVE  2 * (n - d * RoundDiv(n, d)) \in -d .. d
  <1> DEFINE q == n \div d
             r == n % d
  <1>1. n = d * q + r /\ q \in Int /\ r \in 0 .. d - 1
    OBVIOUS
  <1>2. RoundDiv(n, d) = IF 2 * r > d \/ (2 * r = d /\ q % 2 = 1) THEN q + 1 ELSE q
    BY DEF RoundDiv
  <1> HIDE DEF q, r
  <1>3. CASE 2 * r > d \/ (2 * r = d /\ q % 2 = 1)
    <2>1. RoundDiv(n, d) = q + 1
      BY <1>2, <1>3
    <2>2. d * (q + 1) = d * q + d /\ d * q \in Int
      BY <1>1
    <2>3. n - d * RoundDiv(n, d) = r - d
      BY <1>1, <2>1, <2>2
    <2> QED
      BY <1>1, <1>3, <2>3
  <1>4. CASE ~ (2 * r > d \/ (2 * r = d /\ q % 2 = 1))
    <2>1. RoundDiv(n, d) = q
      BY <1>2, <1>4
    <2>2. d * q \in Int
      BY <1>1
    <2>3. n - d * RoundDiv(n, d) = r
      BY <1>1, <2>1, <2>2
    <2> QED
      BY <1>1, <1>4, <2>3
  <1> QED
    BY <1>3, <1>4

\* A rounded quotient of numbers that are not negative is not negative.
LEMMA RoundDivNat ==
  ASSUME NEW n \in Nat, NEW d \in Nat \ {0}
  PROVE  RoundDiv(n, d) \in Nat
  <1>1. n \div d \in Nat
    OBVIOUS
  <1> QED
    BY <1>1 DEF RoundDiv

\* What a sale takes of the charges of a position: no more than there are, in whole
\* paise, and all of them with the last share.
LEMMA ShareOfCharges ==
  ASSUME NEW c \in Nat, c % 100 = 0, NEW all \in Nat \ {0}, NEW qty \in 1 .. all,
         NEW part \in Share(c, qty, all)
  PROVE  /\ part \in Nat /\ part % 100 = 0 /\ part <= c
         /\ qty = all => part = c
  <1> DEFINE k == c \div 100
  <1>0. PICK d \in Nearest(c * qty, 100 * all) : part = 100 * d
    BY DEF Share
  <1>1. k \in Nat /\ c = 100 * k
    OBVIOUS
  <1> HIDE DEF k
  <1>2. c * qty = 100 * (k * qty) /\ k * qty \in Nat /\ k * all \in Nat
    BY <1>1
  <1>3. c * qty \in Nat /\ 100 * all \in Nat \ {0}
    BY <1>2
  <1>4. d \in Nat /\ 2 * (c * qty - (100 * all) * d) \in -(100 * all) .. 100 * all
    <2>1. (c * qty) \div (100 * all) \in Nat
      BY <1>3
    <2> QED
      BY <1>0, <2>1 DEF Nearest
  <1>5. all * d \in Nat /\ (100 * all) * d = 100 * (all * d)
    BY <1>4
  <1>6. 2 * (k * qty - all * d) \in -all .. all
    BY <1>2, <1>4, <1>5
  <1>7. d <= k
    <2> SUFFICES ASSUME d >= k + 1 PROVE FALSE
      BY <1>1, <1>4
    <2>1. all * d >= all * (k + 1)
      BY <1>1, <1>4
    <2>2. all * (k + 1) = k * all + all
      BY <1>1
    <2>3. k * qty <= k * all
      BY <1>1
    <2>4. 2 * (k * qty - all * d) <= -2 * all
      BY <1>2, <1>5, <2>1, <2>2, <2>3
    <2> QED
      BY <1>6, <2>4
  <1>8. ASSUME qty = all PROVE d = k
    <2> SUFFICES ASSUME d <= k - 1 PROVE FALSE
      BY <1>1, <1>4, <1>7
    <2>1. all * d <= all * (k - 1)
      BY <1>1, <1>4
    <2>2. all * (k - 1) = k * all - all
      BY <1>1
    <2>3. 2 * (k * qty - all * d) >= 2 * all
      BY <1>2, <1>5, <1>8, <2>1, <2>2
    <2> QED
      BY <1>6, <2>3
  <1> QED
    BY <1>0, <1>1, <1>4, <1>7, <1>8

\* Charges are not negative.
LEMMA ChargesNat ==
  ASSUME NEW x \in Nat
  PROVE  Charges(x) \in Nat
  <1>1. RoundDiv(x * 3, 1000000) \in Nat /\ RoundDiv(x * 7, 1000000) \in Nat
    BY RoundDivNat
  <1> QED
    BY <1>1 DEF Charges, Brokerage, Tax

\* What is sold or bought at such a price is not negative.
LEMMA NotionalNat ==
  ASSUME NEW x \in Nat, NEW qty \in Nat
  PROVE  /\ Paise(BuyPrice(x) * qty) \in Nat
         /\ Paise(SellPrice(x) * qty) \in Nat
  <1>1. BuyPrice(x) \in Nat /\ SellPrice(x) \in Nat
    BY RoundDivNat DEF BuyPrice, SellPrice
  <1>2. BuyPrice(x) * qty \in Nat /\ SellPrice(x) * qty \in Nat
    BY <1>1
  <1> QED
    BY <1>2, RoundDivNat DEF Paise

-----------------------------------------------------------------------------
(* Trades *)

\* The types of what the ledger and the trades are made of.
MoneyType ==
    /\ position \in [Instruments -> PositionRow]
    /\ ledger \in Int /\ ledger % 100 = 0
    /\ bought \in Int /\ sold \in Int
    /\ charges \in [buy : Int, sell : Int]
    /\ trades \in Nat

Expected == InitialCash - (bought + charges.buy) + (sold - charges.sell)

LedgerInv == MoneyType /\ 2 * (ledger - Expected) \in (-100 * trades) .. 100 * trades

\* The books begin with the initial capital.
LEMMA InitLedger == Init => LedgerInv
  BY BookkeepingAssumption DEF Init, LedgerInv, MoneyType, Expected, PositionRow, NoPosition

\* A fill moves the ledger away from the trades by half a paisa at most.
LEMMA FillLedger ==
  ASSUME LedgerInv, NEW i \in Instruments, NEW entry \in Entries, NEW qty \in Quantities,
         Fill(i, entry, qty)
  PROVE  LedgerInv' /\ trades' = trades + 1
  <1> DEFINE row == position[i]
             price == BuyPrice(entry)
             notional == Paise(price * qty)
             paid == Charges(notional)
  <1>1. entry \in Nat /\ qty \in Nat /\ qty > 0
    BY BookkeepingAssumption
  <1>2. price \in Int /\ price * qty \in Int
    BY <1>1, PriceType
  <1>3. /\ notional \in Int /\ notional % 100 = 0
        /\ 2 * (price * qty - notional) \in -100 .. 100
    BY <1>2, PaiseNear
  <1>4. paid \in Int /\ paid % 100 = 0
    BY <1>3, ChargesType
  <1>5. position' \in [Instruments -> PositionRow]
    <2>1. row \in PositionRow
      BY DEF LedgerInv, MoneyType
    <2>2. row.qty * row.avg + qty * price \in Int /\ row.qty + qty \in Nat \ {0}
      BY <1>1, <1>2, <2>1 DEF PositionRow
    <2>3. WeightedAverage(row.qty, row.avg, qty, price) \in Int
      BY <2>2, RoundDivType DEF WeightedAverage
    <2>4. [qty |-> row.qty + qty, avg |-> WeightedAverage(row.qty, row.avg, qty, price),
           current |-> entry, charges |-> row.charges + paid] \in PositionRow
      BY <1>1, <1>4, <2>1, <2>3 DEF PositionRow
    <2> QED
      BY <2>4 DEF Fill, LedgerInv, MoneyType
  <1>6. /\ ledger' = ledger - notional - paid
        /\ bought' = bought + price * qty
        /\ charges' = [charges EXCEPT !.buy = charges.buy + paid]
        /\ trades' = trades + 1
        /\ sold' = sold
    BY DEF Fill
  <1> HIDE DEF price, notional, paid
  <1>7. ledger' \in Int /\ ledger' % 100 = 0
    BY <1>3, <1>4, <1>6 DEF LedgerInv, MoneyType
  <1>8. /\ charges' \in [buy : Int, sell : Int]
        /\ charges'.buy = charges.buy + paid /\ charges'.sell = charges.sell
    BY <1>4, <1>6 DEF LedgerInv, MoneyType
  <1>9. ledger' - Expected' = (ledger - Expected) + (price * qty - notional)
    BY <1>2, <1>3, <1>4, <1>6, <1>8, BookkeepingAssumption
       DEF LedgerInv, MoneyType, Expected
  <1>10. 2 * (ledger' - Expected') \in (-100 * trades') .. 100 * trades'
    <2>1. ledger - Expected \in Int
      BY BookkeepingAssumption DEF LedgerInv, MoneyType, Expected
    <2> QED
      BY <1>2, <1>3, <1>6, <1>9, <2>1 DEF LedgerInv, MoneyType
  <1> QED
    BY <1>2, <1>5, <1>6, <1>7, <1>8, <1>10 DEF LedgerInv, MoneyType

\* So does an exit.
LEMMA ExitLedger ==
  ASSUME LedgerInv, NEW i \in Instruments, NEW qty \in Quantities,
         NEW at \in Quotes \cup {position[i].current}, Exit(i, qty, at)
  PROVE  LedgerInv' /\ trades' = trades + 1
  <1> DEFINE row == position[i]
             price == SellPrice(at)
             notional == Paise(price * qty)
             paid == Charges(notional)
  <1>1. row \in PositionRow /\ row.qty > 0 /\ qty <= row.qty
    BY DEF LedgerInv, MoneyType, Exit, Sellable
  <1>2. at \in Nat /\ qty \in Nat /\ qty > 0
    BY <1>1, BookkeepingAssumption DEF PositionRow
  <1>3. price \in Int /\ price * qty \in Int
    BY <1>2, PriceType
  <1>4. /\ notional \in Int /\ notional % 100 = 0
        /\ 2 * (price * qty - notional) \in -100 .. 100
    BY <1>3, PaiseNear
  <1>5. paid \in Int /\ paid % 100 = 0
    BY <1>4, ChargesType
  <1>6. position' \in [Instruments -> PositionRow]
    <2>1. PICK part \in Share(row.charges, qty, row.qty) :
             position' = [position EXCEPT ![i] =
                [qty |-> row.qty - qty, avg |-> IF qty = row.qty THEN 0 ELSE row.avg,
                 current |-> at, charges |-> ChargesLeft(row, part)]]
      BY DEF Exit
    <2>2. part \in Int
      <3>1. /\ row.charges \in Int /\ row.charges * qty \in Int
            /\ 100 * row.qty \in Nat \ {0}
        BY <1>1, <1>2 DEF PositionRow
      <3>2. (row.charges * qty) \div (100 * row.qty) \in Int
        BY <3>1
      <3> QED
        BY <3>2 DEF Share, Nearest
    <2>3. [qty |-> row.qty - qty, avg |-> IF qty = row.qty THEN 0 ELSE row.avg,
           current |-> at, charges |-> ChargesLeft(row, part)] \in PositionRow
      BY <1>1, <1>2, <2>2 DEF PositionRow, ChargesLeft
    <2> QED
      BY <2>1, <2>3 DEF LedgerInv, MoneyType
  <1>7. /\ ledger' = ledger + notional - paid
        /\ sold' = sold + price * qty
        /\ charges' = [charges EXCEPT !.sell = charges.sell + paid]
        /\ trades' = trades + 1
        /\ bought' = bought
    BY DEF Exit
  <1> HIDE DEF price, notional, paid
  <1>8. ledger' \in Int /\ ledger' % 100 = 0
    BY <1>4, <1>5, <1>7 DEF LedgerInv, MoneyType
  <1>9. /\ charges' \in [buy : Int, sell : Int]
        /\ charges'.sell = charges.sell + paid /\ charges'.buy = charges.buy
    BY <1>5, <1>7 DEF LedgerInv, MoneyType
  <1>10. ledger' - Expected' = (ledger - Expected) - (price * qty - notional)
    BY <1>3, <1>4, <1>5, <1>7, <1>9, BookkeepingAssumption
       DEF LedgerInv, MoneyType, Expected
  <1>11. 2 * (ledger' - Expected') \in (-100 * trades') .. 100 * trades'
    <2>1. ledger - Expected \in Int
      BY BookkeepingAssumption DEF LedgerInv, MoneyType, Expected
    <2> QED
      BY <1>3, <1>4, <1>7, <1>10, <2>1 DEF LedgerInv, MoneyType
  <1> QED
    BY <1>3, <1>6, <1>7, <1>8, <1>9, <1>11 DEF LedgerInv, MoneyType

-----------------------------------------------------------------------------
(* What the positions are worth *)

\* A row of the positions: nothing is held of one that is closed, and the charges
\* not yet allocated are whole paise.
RowSound(row) ==
    /\ row \in PositionRow
    /\ row.charges >= 0 /\ row.charges % 100 = 0
    /\ row.qty = 0 => row.charges = 0

Imbalance == ledger + CostOpen + ChargesOpen - InitialCash - realised

\* The books balance, and the charges not yet allocated are some of those paid.
BalanceInv ==
    /\ \A i \in Instruments : RowSound(position[i])
    /\ IsFiniteSet(Opened)
    /\ CostOpen \in Int /\ MarketOpen \in Int /\ ChargesOpen \in Int
    /\ realised \in Int /\ rounding \in Nat
    /\ 2 * Imbalance \in -rounding .. rounding
    /\ charges.sell >= 0
    /\ ChargesOpen <= charges.buy + charges.sell

LEMMA InitBalance == Init => BalanceInv
  <1> SUFFICES ASSUME Init PROVE BalanceInv
    OBVIOUS
  <1>1. \A i \in Instruments : position[i] = NoPosition
    BY DEF Init
  <1>2. Opened = {}
    BY <1>1 DEF Opened, NoPosition
  <1>3. CostOpen = 0 /\ MarketOpen = 0 /\ ChargesOpen = 0
    BY <1>2, SumEmpty DEF CostOpen, MarketOpen, ChargesOpen
  <1>4. RowSound(NoPosition)
    BY DEF RowSound, NoPosition, PositionRow
  <1> QED
    BY <1>1, <1>2, <1>3, <1>4, FS_EmptySet, BookkeepingAssumption
       DEF Init, BalanceInv, Imbalance

\* A new row changes each sum by what the row is worth, open or closed.
LEMMA SumsOfRow ==
  ASSUME BalanceInv, NEW i \in Instruments, NEW row, RowSound(row),
         DOMAIN position = Instruments, position' = [position EXCEPT ![i] = row]
  PROVE  /\ \A j \in Instruments : RowSound(position'[j])
         /\ IsFiniteSet(Opened)'
         /\ CostOpen' \in Int /\ MarketOpen' \in Int /\ ChargesOpen' \in Int
         /\ CostOpen' = CostOpen - position[i].qty * position[i].avg + row.qty * row.avg
         /\ ChargesOpen' = ChargesOpen - position[i].charges + row.charges
  <1>1. \A j \in Instruments : RowSound(position[j]) /\ RowSound(position'[j])
    BY DEF BalanceInv
  <1>2. position'[i] = row /\ \A j \in Instruments \ {i} : position'[j] = position[j]
    OBVIOUS
  <1>3. /\ Opened \subseteq Instruments /\ Opened' \subseteq Instruments
        /\ Opened \ {i} = Opened' \ {i}
        /\ i \in Opened <=> position[i].qty > 0
        /\ i \in Opened' <=> row.qty > 0
    BY <1>2 DEF Opened
  <1>4. /\ \A j \in Instruments : /\ Cost(j) = position[j].qty * position[j].avg
                                  /\ Cost(j)' = position'[j].qty * position'[j].avg
                                  /\ Market(j) = position[j].qty * position[j].current
                                  /\ Market(j)' = position'[j].qty * position'[j].current
                                  /\ Held(j) = position[j].charges
                                  /\ Held(j)' = position'[j].charges
    BY DEF Cost, Market, Held
  <1>5. /\ \A j \in Instruments : /\ Cost(j) \in Int /\ Cost(j)' \in Int
                                  /\ Market(j) \in Int /\ Market(j)' \in Int
                                  /\ Held(j) \in Int /\ Held(j)' \in Int
    BY <1>1, <1>4 DEF RowSound, PositionRow
  <1>6. /\ \A j \in Instruments \ {i} : /\ Cost(j)' = Cost(j) /\ Market(j)' = Market(j)
                                        /\ Held(j)' = Held(j)
    BY <1>2, <1>4
  <1>7. IsFiniteSet(Opened)
    BY DEF BalanceInv
  <1>8. /\ position[i].qty = 0 => Cost(i) = 0 /\ Market(i) = 0 /\ Held(i) = 0
        /\ row.qty = 0 => Cost(i)' = 0 /\ Market(i)' = 0 /\ Held(i)' = 0
        /\ position[i].qty \in Nat /\ row.qty \in Nat
    BY <1>1, <1>2, <1>4 DEF RowSound, PositionRow
  <1>9. /\ Cost(i) = (IF i \in Opened THEN Cost(i) ELSE 0)
        /\ Cost(i)' = (IF i \in Opened' THEN Cost(i)' ELSE 0)
        /\ Market(i) = (IF i \in Opened THEN Market(i) ELSE 0)
        /\ Market(i)' = (IF i \in Opened' THEN Market(i)' ELSE 0)
        /\ Held(i) = (IF i \in Opened THEN Held(i) ELSE 0)
        /\ Held(i)' = (IF i \in Opened' THEN Held(i)' ELSE 0)
    BY <1>3, <1>8
  <1>10. /\ IsFiniteSet(Opened') /\ CostOpen' \in Int
         /\ CostOpen' = CostOpen - Cost(i) + Cost(i)'
    <2> DEFINE f == [j \in Opened |-> Cost(j)]
               e == [j \in Opened' |-> Cost(j)']
    <2>1. f \in [Opened -> Int] /\ e \in [Opened' -> Int]
      BY <1>3, <1>5
    <2>2. \A j \in Opened \ {i} : e[j] = f[j]
      BY <1>3, <1>6
    <2>3. /\ Cost(i) \in Int /\ Cost(i)' \in Int
          /\ Cost(i) = IF i \in Opened THEN f[i] ELSE 0
          /\ Cost(i)' = IF i \in Opened' THEN e[i] ELSE 0
      BY <1>5, <1>9
    <2>4. CostOpen = SumFunction(f) /\ CostOpen' = SumFunction(e)
      BY DEF CostOpen
    <2> HIDE DEF f, e
    <2> QED
      BY <1>3, <1>7, <2>1, <2>2, <2>3, <2>4, SumChanged
  <1>11. MarketOpen' \in Int
    <2>1. [j \in Opened' |-> Market(j)'] \in [Opened' -> Int]
      BY <1>3, <1>5
    <2> QED
      BY <1>10, <2>1, SumIs DEF MarketOpen
  <1>12. ChargesOpen' \in Int /\ ChargesOpen' = ChargesOpen - Held(i) + Held(i)'
    <2> DEFINE f == [j \in Opened |-> Held(j)]
               e == [j \in Opened' |-> Held(j)']
    <2>1. f \in [Opened -> Int] /\ e \in [Opened' -> Int]
      BY <1>3, <1>5
    <2>2. \A j \in Opened \ {i} : e[j] = f[j]
      BY <1>3, <1>6
    <2>3. /\ Held(i) \in Int /\ Held(i)' \in Int
          /\ Held(i) = IF i \in Opened THEN f[i] ELSE 0
          /\ Held(i)' = IF i \in Opened' THEN e[i] ELSE 0
      BY <1>5, <1>9
    <2>4. ChargesOpen = SumFunction(f) /\ ChargesOpen' = SumFunction(e)
      BY DEF ChargesOpen
    <2> HIDE DEF f, e
    <2> QED
      BY <1>3, <1>7, <2>1, <2>2, <2>3, <2>4, SumChanged
  <1> QED
    BY <1>1, <1>2, <1>4, <1>10, <1>11, <1>12

LEMMA Distribute ==
  ASSUME NEW a \in Int, NEW b \in Int, NEW c \in Int
  PROVE  /\ (a - b) * c = a * c - b * c
         /\ a * c \in Int /\ b * c \in Int
  OBVIOUS

\* A fill keeps the balance: what is paid is what the shares cost and their charges,
\* up to the rounding of the posting and of the average price.
LEMMA FillBalance ==
  ASSUME LedgerInv, BalanceInv, NEW i \in Instruments, NEW entry \in Entries,
         NEW qty \in Quantities, Fill(i, entry, qty)
  PROVE  BalanceInv' /\ rounding' >= rounding
  <1> DEFINE row == position[i]
             price == BuyPrice(entry)
             notional == Paise(price * qty)
             paid == Charges(notional)
             all == row.qty + qty
             avg == WeightedAverage(row.qty, row.avg, qty, price)
             new == [qty |-> all, avg |-> avg, current |-> entry,
                     charges |-> row.charges + paid]
  <1>1. entry \in Nat /\ qty \in Nat \ {0} /\ RowSound(row)
    BY BookkeepingAssumption DEF BalanceInv
  <1>2. /\ row.qty \in Nat /\ row.avg \in Int /\ row.charges \in Nat
        /\ row.charges % 100 = 0 /\ all \in Nat \ {0}
    BY <1>1 DEF RowSound, PositionRow
  <1>3. price \in Int /\ price * qty \in Int
    BY <1>1, PriceType
  <1>4. notional \in Nat /\ 2 * (price * qty - notional) \in -100 .. 100
    BY <1>1, <1>3, PaiseNear, NotionalNat
  <1>5. paid \in Nat /\ paid % 100 = 0
    BY <1>4, ChargesNat, ChargesType
  <1>6. avg \in Int /\ 2 * ((row.qty * row.avg + qty * price) - all * avg) \in -all .. all
    <2>1. row.qty * row.avg + qty * price \in Int
      BY <1>1, <1>2, <1>3
    <2> QED
      BY <1>2, <2>1, RoundDivType, RoundDivNear DEF WeightedAverage
  <1>7. RowSound(new)
    <2>1. new \in PositionRow
      BY <1>1, <1>2, <1>5, <1>6 DEF PositionRow
    <2>2. row.charges + paid >= 0 /\ (row.charges + paid) % 100 = 0 /\ all # 0
      BY <1>2, <1>5
    <2> QED
      BY <2>1, <2>2 DEF RowSound
  <1>8. /\ position' = [position EXCEPT ![i] = new]
        /\ ledger' = ledger - notional - paid
        /\ charges' = [charges EXCEPT !.buy = charges.buy + paid]
        /\ rounding' = rounding + 100 + row.qty + qty
        /\ realised' = realised
    BY DEF Fill
  <1>9. /\ new.qty = all /\ new.avg = avg /\ new.charges = row.charges + paid
        /\ DOMAIN position = Instruments
    BY DEF LedgerInv, MoneyType
  <1> HIDE DEF row, price, notional, paid, all, avg, new
  <1>10. /\ \A j \in Instruments : RowSound(position'[j])
         /\ IsFiniteSet(Opened)'
         /\ CostOpen' \in Int /\ MarketOpen' \in Int /\ ChargesOpen' \in Int
         /\ CostOpen' = CostOpen - row.qty * row.avg + all * avg
         /\ ChargesOpen' = ChargesOpen - row.charges + (row.charges + paid)
    BY <1>7, <1>8, <1>9, SumsOfRow DEF row
  <1>11. /\ charges \in [buy : Int, sell : Int]
         /\ charges'.buy = charges.buy + paid /\ charges'.sell = charges.sell
    BY <1>8 DEF LedgerInv, MoneyType
  <1>12. /\ CostOpen \in Int /\ ChargesOpen \in Int /\ realised \in Int /\ rounding \in Nat
         /\ ledger \in Int /\ InitialCash \in Int
         /\ 2 * Imbalance \in -rounding .. rounding
         /\ charges.sell >= 0 /\ ChargesOpen <= charges.buy + charges.sell
    BY BookkeepingAssumption DEF LedgerInv, MoneyType, BalanceInv
  <1>13. rounding' \in Nat /\ rounding' >= rounding
    BY <1>1, <1>2, <1>8, <1>12
  <1>14. 2 * Imbalance' \in -rounding' .. rounding'
    <2> DEFINE a == price * qty - notional
               b == (row.qty * row.avg + qty * price) - all * avg
    <2>1. a \in Int /\ b \in Int /\ row.qty * row.avg \in Int /\ all * avg \in Int
      BY <1>1, <1>2, <1>3, <1>4, <1>6
    <2>2. qty * price = price * qty
      BY <1>1, <1>3
    <2>3. Imbalance \in Int /\ Imbalance' = Imbalance + a - b
      BY <1>2, <1>3, <1>4, <1>5, <1>8, <1>10, <1>12, <2>1, <2>2 DEF Imbalance
    <2>4. 2 * a \in -100 .. 100 /\ 2 * b \in -all .. all
      BY <1>4, <1>6
    <2>5. rounding' = rounding + 100 + all
      BY <1>1, <1>2, <1>8, <1>12 DEF all
    <2> HIDE DEF a, b
    <2> QED
      BY <1>2, <1>12, <2>1, <2>3, <2>4, <2>5
  <1>15. charges'.sell >= 0 /\ ChargesOpen' <= charges'.buy + charges'.sell
    BY <1>2, <1>5, <1>10, <1>11, <1>12
  <1>16. realised' \in Int
    BY <1>8, <1>12
  <1> QED
    BY <1>10, <1>13, <1>14, <1>15, <1>16 DEF BalanceInv

\* An exit keeps the balance: the proceeds are the cost of the shares sold, their part
\* of the charges and the profit, up to the rounding of the two postings.
LEMMA ExitBalance ==
  ASSUME LedgerInv, BalanceInv, NEW i \in Instruments, NEW qty \in Quantities,
         NEW at \in Quotes \cup {position[i].current}, Exit(i, qty, at)
  PROVE  BalanceInv' /\ rounding' >= rounding
  <1> DEFINE row == position[i]
             price == SellPrice(at)
             notional == Paise(price * qty)
             paid == Charges(notional)
             avg == IF qty = row.qty THEN 0 ELSE row.avg
  <1>0. PICK part \in Share(row.charges, qty, row.qty) :
           /\ position' = [position EXCEPT ![i] =
                 [qty |-> row.qty - qty, avg |-> avg, current |-> at,
                  charges |-> ChargesLeft(row, part)]]
           /\ realised' = realised + RealisedPnl(qty, row.avg, price, part, paid)
    BY DEF Exit
  <1> DEFINE pnl == RealisedPnl(qty, row.avg, price, part, paid)
             new == [qty |-> row.qty - qty, avg |-> avg, current |-> at,
                     charges |-> row.charges - part]
  <1>1. at \in Nat /\ qty \in Nat \ {0} /\ RowSound(row)
    BY BookkeepingAssumption DEF BalanceInv, RowSound, PositionRow
  <1>2. /\ row.qty \in Nat \ {0} /\ row.avg \in Int /\ row.charges \in Nat
        /\ row.charges % 100 = 0 /\ qty \in 1 .. row.qty
    BY <1>1 DEF RowSound, PositionRow, Exit, Sellable
  <1>3. price \in Int /\ price * qty \in Int
    BY <1>1, PriceType
  <1>4. notional \in Nat /\ 2 * (price * qty - notional) \in -100 .. 100
    BY <1>1, <1>3, PaiseNear, NotionalNat
  <1>5. paid \in Nat /\ paid % 100 = 0
    BY <1>4, ChargesNat, ChargesType
  <1>6. /\ part \in Nat /\ part % 100 = 0 /\ part <= row.charges
        /\ qty = row.qty => part = row.charges
    BY <1>0, <1>2, ShareOfCharges
  <1>7. /\ pnl \in Int
        /\ 2 * (((price - row.avg) * qty - part - paid) - pnl) \in -100 .. 100
    <2>1. (price - row.avg) * qty - part - paid \in Int
      <3> HIDE DEF price, paid, row
      <3>1. price - row.avg \in Int /\ qty \in Int
        BY <1>1, <1>2, <1>3
      <3>2. (price - row.avg) * qty \in Int
        BY <3>1, Distribute
      <3>3. part \in Int /\ paid \in Int
        BY <1>5, <1>6
      <3>4. \A x, y, z \in Int : x - y - z \in Int
        OBVIOUS
      <3> QED
        BY <3>2, <3>3, <3>4
    <2> HIDE DEF price, paid
    <2> QED
      BY <2>1, PaiseNear DEF RealisedPnl
  <1>8. RowSound(new)
    <2>1. new \in PositionRow
      BY <1>1, <1>2, <1>6 DEF PositionRow
    <2>2. /\ row.charges - part >= 0 /\ (row.charges - part) % 100 = 0
          /\ row.qty - qty = 0 => row.charges - part = 0
      BY <1>2, <1>6
    <2> QED
      BY <2>1, <2>2 DEF RowSound
  <1>9. /\ position' = [position EXCEPT ![i] = new]
        /\ ledger' = ledger + notional - paid
        /\ charges' = [charges EXCEPT !.sell = charges.sell + paid]
        /\ rounding' = rounding + 200
        /\ realised' = realised + pnl
    BY <1>0 DEF Exit, ChargesLeft
  <1>10. /\ new.qty = row.qty - qty /\ new.avg = avg /\ new.charges = row.charges - part
         /\ DOMAIN position = Instruments
    BY DEF LedgerInv, MoneyType
  <1>11. avg = IF qty = row.qty THEN 0 ELSE row.avg
    OBVIOUS
  <1> HIDE DEF row, price, notional, paid, pnl, avg, new
  <1>12. /\ \A j \in Instruments : RowSound(position'[j])
         /\ IsFiniteSet(Opened)'
         /\ CostOpen' \in Int /\ MarketOpen' \in Int /\ ChargesOpen' \in Int
         /\ CostOpen' = CostOpen - qty * row.avg
         /\ ChargesOpen' = ChargesOpen - part
    <2>1. /\ \A j \in Instruments : RowSound(position'[j])
          /\ IsFiniteSet(Opened)'
          /\ CostOpen' \in Int /\ MarketOpen' \in Int /\ ChargesOpen' \in Int
          /\ CostOpen' = CostOpen - row.qty * row.avg + (row.qty - qty) * avg
          /\ ChargesOpen' = ChargesOpen - row.charges + (row.charges - part)
      BY <1>8, <1>9, <1>10, SumsOfRow DEF row
    <2>2. /\ (row.qty - qty) * row.avg = row.qty * row.avg - qty * row.avg
          /\ row.qty * row.avg \in Int /\ qty * row.avg \in Int
      BY <1>1, <1>2, Distribute
    <2>3. (row.qty - qty) * avg = row.qty * row.avg - qty * row.avg
      <3>1. CASE qty = row.qty
        BY <1>2, <1>11, <2>2, <3>1
      <3>2. CASE qty # row.qty
        BY <1>11, <2>2, <3>2
      <3> QED
        BY <3>1, <3>2
    <2>4. CostOpen \in Int /\ ChargesOpen \in Int
      BY DEF BalanceInv
    <2>5. CostOpen' = CostOpen - qty * row.avg
      BY <2>1, <2>2, <2>3, <2>4
    <2>6. ChargesOpen' = ChargesOpen - part
      <3>1. row.charges \in Int /\ part \in Int
        BY <1>2, <1>6
      <3>2. \A x, y, z \in Int : x - y + (y - z) = x - z
        OBVIOUS
      <3> QED
        BY <2>1, <2>4, <3>1, <3>2
    <2> QED
      BY <2>1, <2>5, <2>6
  <1>13. /\ charges \in [buy : Int, sell : Int]
         /\ charges'.sell = charges.sell + paid /\ charges'.buy = charges.buy
    BY <1>9 DEF LedgerInv, MoneyType
  <1>14. /\ CostOpen \in Int /\ ChargesOpen \in Int /\ realised \in Int /\ rounding \in Nat
         /\ ledger \in Int /\ InitialCash \in Int
         /\ 2 * Imbalance \in -rounding .. rounding
         /\ charges.sell >= 0 /\ ChargesOpen <= charges.buy + charges.sell
    BY BookkeepingAssumption DEF LedgerInv, MoneyType, BalanceInv
  <1>15. rounding' \in Nat /\ rounding' >= rounding /\ realised' \in Int
    BY <1>7, <1>9, <1>14
  <1>16. 2 * Imbalance' \in -rounding' .. rounding'
    <2> DEFINE a == price * qty - notional
               b == ((price - row.avg) * qty - part - paid) - pnl
    <2>1. /\ (price - row.avg) * qty = price * qty - row.avg * qty
          /\ row.avg * qty \in Int /\ qty * row.avg = row.avg * qty
      <3>1. price \in Int /\ row.avg \in Int /\ qty \in Int
        BY <1>1, <1>2, <1>3
      <3>2. \A x, y \in Int : x * y = y * x
        OBVIOUS
      <3> QED
        BY <3>1, <3>2, Distribute, Zenon
    <2>2. /\ a \in Int /\ b \in Int
          /\ notional - paid - qty * row.avg - part - pnl = b - a
      BY <1>3, <1>4, <1>5, <1>6, <1>7, <2>1
    <2> HIDE DEF a, b
    <2>3. Imbalance \in Int /\ qty * row.avg \in Int
      BY <1>14, <2>1 DEF Imbalance
    <2>4. Imbalance' = Imbalance + (notional - paid - qty * row.avg - part - pnl)
      BY <1>4, <1>5, <1>6, <1>7, <1>9, <1>12, <1>14, <2>3 DEF Imbalance
    <2>5. 2 * a \in -100 .. 100 /\ 2 * b \in -100 .. 100
      BY <1>4, <1>7 DEF a, b
    <2>6. Imbalance' = Imbalance + (b - a)
      BY <2>2, <2>4
    <2> QED
      BY <1>9, <1>14, <2>2, <2>3, <2>5, <2>6
  <1>17. charges'.sell >= 0 /\ ChargesOpen' <= charges'.buy + charges'.sell
    <2>1. paid \in Nat /\ part \in Nat
      BY <1>5, <1>6
    <2>2. charges.buy \in Int /\ charges.sell \in Int
      BY <1>13
    <2>3. charges'.sell = charges.sell + paid /\ charges'.buy = charges.buy
      BY <1>13
    <2>4. ChargesOpen' = ChargesOpen - part
      BY <1>12
    <2> QED
      BY <1>14, <2>1, <2>2, <2>3, <2>4
  <1> QED
    BY <1>12, <1>15, <1>16, <1>17 DEF BalanceInv

-----------------------------------------------------------------------------
(* Pages *)

Summing == {"reconcile", "portfolio"}

\* The place before that of the three sums among the statements of a page.
Before(name) == IF name = "reconcile" THEN 0 ELSE 3

\* What a page has read is what the books still say, while no trade is committed.
FreshSums(p) ==
    p.name \in Summing /\ p.from = p.upto /\ p.upto = trades =>
        /\ p.done > Before(p.name) => p.got["balance"] = ledger
        /\ p.done > Before(p.name) + 1 => p.got["debits"] = bought + charges.buy
        /\ p.done > Before(p.name) + 2 => p.got["credits"] = sold - charges.sell

\* What a page shows if no trade came between its statements.
SoundSums(p) ==
    p.name \in Summing /\ p.from = p.upto /\ p.done = Before(p.name) + 3 =>
        /\ p.got["balance"] \in Int /\ p.got["balance"] % 100 = 0
        /\ p.got["debits"] \in Int /\ p.got["credits"] \in Int
        /\ Near(p.got["balance"], InitialCash - p.got["debits"] + p.got["credits"],
                100 * p.upto)

PageShape(p) ==
    /\ p.name \in Pages \cup {"none"}
    /\ p.done \in Nat /\ p.from \in Nat /\ p.upto \in Nat
    /\ p.name = "none" => p.done = 0
    /\ p.done = 0 => p.name = "none"
    /\ p.from <= p.upto /\ p.upto <= trades

PageInv ==
    /\ DOMAIN page = Readers
    /\ \A r \in Readers :
          PageShape(page[r]) /\ FreshSums(page[r]) /\ SoundSums(page[r])

\* A trade makes a page stale or leaves it as it is.
LEMMA TradePages ==
  ASSUME LedgerInv, PageInv, page' = page, trades' = trades + 1
  PROVE  PageInv'
  <1> SUFFICES ASSUME NEW r \in Readers
               PROVE  /\ PageShape(page[r])' /\ FreshSums(page[r])' /\ SoundSums(page[r])'
    BY DEF PageInv
  <1>1. trades \in Nat /\ PageShape(page[r]) /\ SoundSums(page[r])
    BY DEF LedgerInv, MoneyType, PageInv
  <1>2. PageShape(page[r])'
    BY <1>1 DEF PageShape
  <1>3. FreshSums(page[r])'
    BY <1>1 DEF PageShape, FreshSums
  <1>4. SoundSums(page[r])'
    BY <1>1 DEF SoundSums
  <1> QED
    BY <1>2, <1>3, <1>4

\* The three sums are the last three statements of the pages that have them.
LEMMA SumsLast ==
  /\ Pages = {"portfolio", "reconcile", "daily", "snapshot"}
  /\ \A name \in Summing :
        /\ Len(Statements[name]) = Before(name) + 3
        /\ Returns(Statements[name][Before(name) + 1]) = {"balance"}
        /\ Returns(Statements[name][Before(name) + 2]) = {"debits"}
        /\ Returns(Statements[name][Before(name) + 3]) = {"credits"}
  BY DEF Pages, Statements, Summing, Before, Returns

\* A statement reads the books as they are.
LEMMA ReadPages ==
  ASSUME LedgerInv, PageInv, NEW q \in Readers, NEW name \in Pages, Read(q, name)
  PROVE  PageInv'
  <1> DEFINE p == page[q]
             statement == Statements[name][p.done + 1]
             new == [name |-> name,
                     done |-> p.done + 1,
                     from |-> IF p.done = 0 THEN trades ELSE p.from,
                     upto |-> trades,
                     got  |-> [f \in Figures |->
                                 IF f \in Returns(statement) THEN Now[f] ELSE p.got[f]]]
  <1>1. page' = [page EXCEPT ![q] = new] /\ UNCHANGED books
    BY DEF Read
  <1>2. p.done < Len(Statements[name]) /\ p.name \in {"none", name}
    BY DEF Read
  <1>3. trades \in Nat /\ PageShape(p) /\ FreshSums(p) /\ SoundSums(p)
    BY DEF LedgerInv, MoneyType, PageInv
  <1>4. PageShape(new)
    <2>1. name # "none"
      BY SumsLast
    <2> QED
      BY <1>3, <2>1 DEF PageShape
  <1>5. ASSUME name \in Summing, new.from = new.upto
        PROVE  /\ new.done > Before(name) => new.got["balance"] = ledger
               /\ new.done > Before(name) + 1 => new.got["debits"] = bought + charges.buy
               /\ new.done > Before(name) + 2 => new.got["credits"] = sold - charges.sell
    <2>1. Before(name) \in {0, 3}
      BY DEF Before
    <2>2. p.done # 0 => p.name = name /\ p.from = p.upto /\ p.upto = trades
      BY <1>2, <1>3, <1>5 DEF PageShape
    <2>3. \A f \in {"balance", "debits", "credits"} :
             new.got[f] = IF f \in Returns(statement) THEN Now[f] ELSE p.got[f]
      BY DEF Figures
    <2>4. /\ p.done = Before(name) => Returns(statement) = {"balance"}
          /\ p.done = Before(name) + 1 => Returns(statement) = {"debits"}
          /\ p.done = Before(name) + 2 => Returns(statement) = {"credits"}
      <3>1. Before(name) + 1 + 1 = Before(name) + 2 /\ Before(name) + 2 + 1 = Before(name) + 3
        BY <2>1
      <3> QED
        BY <1>5, <3>1, SumsLast
    <2>5. p.done \in 0 .. Before(name) + 2
      BY <1>2, <1>3, <1>5, <2>1, SumsLast DEF PageShape
    <2>6. /\ Now["balance"] = ledger
          /\ Now["debits"] = bought + charges.buy
          /\ Now["credits"] = sold - charges.sell
      BY DEF Now
    <2>7. /\ p.done > Before(name) => p.got["balance"] = ledger
          /\ p.done > Before(name) + 1 => p.got["debits"] = bought + charges.buy
      BY <1>3, <1>5, <2>1, <2>2, <2>5 DEF FreshSums
    <2> HIDE DEF new, statement, p
    <2>8. new.done = p.done + 1
      BY DEF new
    <2>9. CASE p.done < Before(name)
      BY <2>1, <2>5, <2>8, <2>9
    <2>10. CASE p.done = Before(name)
      BY <2>1, <2>3, <2>4, <2>6, <2>8, <2>10
    <2>11. CASE p.done = Before(name) + 1
      BY <2>1, <2>3, <2>4, <2>6, <2>7, <2>8, <2>11
    <2>12. CASE p.done = Before(name) + 2
      BY <2>1, <2>3, <2>4, <2>6, <2>7, <2>8, <2>12
    <2> QED
      BY <2>1, <2>5, <2>9, <2>10, <2>11, <2>12
  <1>6. FreshSums(new)
    BY <1>5 DEF FreshSums
  <1>7. SoundSums(new)
    <2> SUFFICES ASSUME name \in Summing, new.from = new.upto,
                        new.done = Before(name) + 3
                 PROVE  /\ new.got["balance"] \in Int /\ new.got["balance"] % 100 = 0
                        /\ new.got["debits"] \in Int /\ new.got["credits"] \in Int
                        /\ Near(new.got["balance"],
                                InitialCash - new.got["debits"] + new.got["credits"],
                                100 * new.upto)
      BY DEF SoundSums
    <2>1. Before(name) \in {0, 3}
      BY DEF Before
    <2>2. /\ new.got["balance"] = ledger
          /\ new.got["debits"] = bought + charges.buy
          /\ new.got["credits"] = sold - charges.sell
      BY <1>5, <2>1
    <2>3. new.upto = trades
      OBVIOUS
    <2> HIDE DEF new
    <2> QED
      BY <2>2, <2>3, BookkeepingAssumption DEF LedgerInv, MoneyType, Expected, Near
  <1>8. \A r \in Readers : page'[r] = IF r = q THEN new ELSE page[r]
    BY <1>1 DEF PageInv
  <1>9. DOMAIN page' = Readers
    BY <1>1 DEF PageInv
  <1>10. ASSUME NEW r \in Readers
         PROVE  PageShape(page[r])' /\ FreshSums(page[r])' /\ SoundSums(page[r])'
    <2>1. UNCHANGED <<trades, ledger, bought, sold, charges>>
      BY <1>1 DEF books
    <2> HIDE DEF new
    <2>2. PageShape(page'[r]) /\ FreshSums(page'[r]) /\ SoundSums(page'[r])
      BY <1>4, <1>6, <1>7, <1>8 DEF PageInv
    <2> QED
      BY <2>1, <2>2 DEF PageShape, FreshSums, SoundSums
  <1> QED
    BY <1>9, <1>10 DEF PageInv

\* A page left is empty again.
LEMMA LeavePages ==
  ASSUME LedgerInv, PageInv, NEW q \in Readers, Leave(q)
  PROVE  PageInv'
  <1>1. page' = [page EXCEPT ![q] = NoPage] /\ UNCHANGED books
    BY DEF Leave
  <1>2. UNCHANGED <<trades, ledger, bought, sold, charges>>
    BY <1>1 DEF books
  <1>3. PageShape(NoPage) /\ FreshSums(NoPage) /\ SoundSums(NoPage)
    BY DEF NoPage, PageShape, FreshSums, SoundSums, Summing, LedgerInv, MoneyType
  <1>4. ASSUME NEW r \in Readers
        PROVE  PageShape(page[r])' /\ FreshSums(page[r])' /\ SoundSums(page[r])'
    <2>1. page'[r] = IF r = q THEN NoPage ELSE page[r]
      BY <1>1 DEF PageInv
    <2>2. PageShape(page'[r]) /\ FreshSums(page'[r]) /\ SoundSums(page'[r])
      BY <1>3, <2>1 DEF PageInv
    <2> QED
      BY <1>2, <2>2 DEF PageShape, FreshSums, SoundSums
  <1> QED
    BY <1>1, <1>4 DEF PageInv

-----------------------------------------------------------------------------
(* What the pages add up to *)

\* What a page has read is what the books still say, while no trade is committed.
FreshFigures(p) ==
    p.name # "none" /\ p.from = p.upto /\ p.upto = trades =>
        \A n \in 1 .. p.done : \A f \in Returns(Statements[p.name][n]) : p.got[f] = Now[f]

\* What it shows adds up, if no trade came between its statements.
AddsUp(got) ==
    /\ {got["cash"], got["market"], got["realised"], got["unrealised"], got["held"]}
          \subseteq Int
    /\ Near(got["cash"] + got["market"],
            InitialCash + got["realised"] + got["unrealised"] - got["held"], rounding)

CoversHeld(got) ==
    /\ {got["realised"], got["unrealised"], got["held"], got["charges"]} \subseteq Int
    /\ got["held"] <= got["charges"]

SoundFigures(p) ==
    Untorn(p) =>
        /\ p.name = "portfolio" => AddsUp(p.got)
        /\ p.name = "daily" => CoversHeld(p.got)

FiguresInv == \A r \in Readers : FreshFigures(page[r]) /\ SoundFigures(page[r])

\* The books themselves add up.
LEMMA NowAddsUp ==
  ASSUME LedgerInv, BalanceInv
  PROVE  AddsUp(Now) /\ CoversHeld(Now)
  <1>1. /\ Now["cash"] = ledger /\ Now["market"] = MarketOpen
        /\ Now["realised"] = realised /\ Now["unrealised"] = MarketOpen - CostOpen
        /\ Now["held"] = ChargesOpen /\ Now["charges"] = charges.buy + charges.sell
    BY DEF Now
  <1>2. /\ ledger \in Int /\ charges.buy \in Int /\ charges.sell \in Int
        /\ CostOpen \in Int /\ MarketOpen \in Int /\ ChargesOpen \in Int
        /\ realised \in Int /\ rounding \in Nat /\ InitialCash \in Int
        /\ 2 * Imbalance \in -rounding .. rounding
        /\ ChargesOpen <= charges.buy + charges.sell
    BY BookkeepingAssumption DEF LedgerInv, MoneyType, BalanceInv
  <1>3. (ledger + MarketOpen)
           - (InitialCash + realised + (MarketOpen - CostOpen) - ChargesOpen) = Imbalance
    BY <1>2 DEF Imbalance
  <1> QED
    BY <1>1, <1>2, <1>3 DEF AddsUp, CoversHeld, Near

\* A trade makes a page stale or leaves it as it is.
LEMMA TradeFigures ==
  ASSUME LedgerInv, PageInv, FiguresInv, page' = page, trades' = trades + 1,
         rounding \in Nat, rounding' \in Nat, rounding' >= rounding
  PROVE  FiguresInv'
  <1> SUFFICES ASSUME NEW r \in Readers
               PROVE  FreshFigures(page[r])' /\ SoundFigures(page[r])'
    BY DEF FiguresInv
  <1>1. trades \in Nat /\ PageShape(page[r]) /\ SoundFigures(page[r])
    BY DEF LedgerInv, MoneyType, PageInv, FiguresInv
  <1>2. FreshFigures(page[r])'
    BY <1>1 DEF PageShape, FreshFigures
  <1>3. ASSUME AddsUp(page[r].got) PROVE AddsUp(page[r].got)'
    BY <1>3, BookkeepingAssumption DEF AddsUp, Near
  <1>4. ASSUME CoversHeld(page[r].got) PROVE CoversHeld(page[r].got)'
    BY <1>4 DEF CoversHeld
  <1>5. SoundFigures(page[r])'
    BY <1>1, <1>3, <1>4 DEF SoundFigures, Untorn, Shown
  <1> QED
    BY <1>2, <1>5

\* The statements of the two pages whose figures are added up.
LEMMA FiguresRead ==
  /\ Len(Statements["portfolio"]) = 6 /\ Len(Statements["daily"]) = 2
  /\ Returns(Statements["portfolio"][1]) = {"market", "unrealised", "held"}
  /\ Returns(Statements["portfolio"][2]) = {"cash"}
  /\ Returns(Statements["portfolio"][3]) = {"realised"}
  /\ Returns(Statements["daily"][1]) = {"realised", "charges"}
  /\ Returns(Statements["daily"][2]) = {"market", "unrealised", "held"}
  BY DEF Statements, Returns

\* A statement reads the books as they are.
LEMMA ReadFigures ==
  ASSUME LedgerInv, BalanceInv, PageInv, FiguresInv,
         NEW q \in Readers, NEW name \in Pages, Read(q, name)
  PROVE  FiguresInv'
  <1> DEFINE p == page[q]
             statement == Statements[name][p.done + 1]
             got == [f \in Figures |-> IF f \in Returns(statement) THEN Now[f] ELSE p.got[f]]
             new == [name |-> name,
                     done |-> p.done + 1,
                     from |-> IF p.done = 0 THEN trades ELSE p.from,
                     upto |-> trades,
                     got  |-> got]
  <1>1. page' = [page EXCEPT ![q] = new] /\ UNCHANGED books
    BY DEF Read
  <1>2. p.done < Len(Statements[name]) /\ p.name \in {"none", name}
    BY DEF Read
  <1>3. trades \in Nat /\ PageShape(p) /\ FreshFigures(p)
    BY DEF LedgerInv, MoneyType, PageInv, FiguresInv
  <1>4. \A f \in Figures : got[f] = IF f \in Returns(statement) THEN Now[f] ELSE p.got[f]
    OBVIOUS
  <1>5. /\ new.name = name /\ new.done = p.done + 1 /\ new.upto = trades /\ new.got = got
        /\ new.from = IF p.done = 0 THEN trades ELSE p.from
    OBVIOUS
  <1>6. \A n \in 1 .. Len(Statements[name]) : Returns(Statements[name][n]) \subseteq Figures
    <2>1. Returns("positions") \cup Returns("sells") \cup Returns("trades") \subseteq Figures
      BY DEF Returns, Figures
    <2>2. /\ Returns("cash") \subseteq Figures /\ Returns("balance") \subseteq Figures
          /\ Returns("debits") \subseteq Figures /\ Returns("credits") \subseteq Figures
      BY DEF Returns, Figures
    <2>3. \A n \in 1 .. Len(Statements[name]) : Statements[name][n] \in
             {"positions", "sells", "trades", "cash", "balance", "debits", "credits"}
      BY DEF Statements, Pages
    <2> QED
      BY <2>1, <2>2, <2>3
  <1> HIDE DEF got, new
  <1>7. FreshFigures(new)
    <2> SUFFICES ASSUME new.from = trades, NEW n \in 1 .. new.done,
                        NEW f \in Returns(Statements[name][n])
                 PROVE  got[f] = Now[f]
      BY <1>5 DEF FreshFigures
    <2>1. p.done \in Nat /\ n \in 1 .. Len(Statements[name])
      <3>1. Len(Statements[name]) \in Nat
        BY DEF Statements, Pages
      <3> QED
        BY <1>2, <1>3, <1>5, <3>1 DEF PageShape
    <2>2. f \in Figures
      BY <1>6, <2>1
    <2>3. CASE f \in Returns(statement)
      BY <1>4, <2>2, <2>3
    <2>4. CASE f \notin Returns(statement)
      <3>1. n # p.done + 1
        BY <2>4
      <3>2. n \in 1 .. p.done /\ p.done # 0
        BY <1>5, <2>1, <3>1
      <3>3. p.name = name /\ p.from = p.upto /\ p.upto = trades
        BY <1>2, <1>3, <1>5, <3>2 DEF PageShape
      <3>4. name # "none"
        BY SumsLast
      <3>5. p.got[f] = Now[f]
        BY <1>3, <3>2, <3>3, <3>4 DEF FreshFigures
      <3> QED
        BY <1>4, <2>2, <2>4, <3>5
    <2> QED
      BY <2>3, <2>4
  <1>8. SoundFigures(new)
    <2> SUFFICES ASSUME Untorn(new)
                 PROVE  /\ name = "portfolio" => AddsUp(got)
                        /\ name = "daily" => CoversHeld(got)
      BY <1>5 DEF SoundFigures
    <2>1. name # "none" /\ new.done = Len(Statements[name])
      BY <1>5, SumsLast DEF Untorn, Shown
    <2>2. \A n \in 1 .. Len(Statements[name]) :
             \A f \in Returns(Statements[name][n]) : got[f] = Now[f]
      BY <1>5, <1>7, <2>1 DEF FreshFigures, Untorn
    <2>3. ASSUME name = "portfolio" PROVE AddsUp(got)
      <3>1. \A f \in {"cash", "market", "realised", "unrealised", "held"} : got[f] = Now[f]
        BY <2>2, <2>3, FiguresRead
      <3> QED
        BY <3>1, NowAddsUp DEF AddsUp
    <2>4. ASSUME name = "daily" PROVE CoversHeld(got)
      <3>1. \A f \in {"realised", "unrealised", "held", "charges"} : got[f] = Now[f]
        BY <2>2, <2>4, FiguresRead
      <3> QED
        BY <3>1, NowAddsUp DEF CoversHeld
    <2> QED
      BY <2>3, <2>4
  <1>9. \A r \in Readers : page'[r] = IF r = q THEN new ELSE page[r]
    BY <1>1 DEF PageInv
  <1>10. UNCHANGED <<trades, rounding, Now>>
    BY <1>1 DEF books, Now, MarketOpen, CostOpen, ChargesOpen, Market, Cost, Held, Opened
  <1>11. ASSUME NEW r \in Readers
         PROVE  FreshFigures(page[r])' /\ SoundFigures(page[r])'
    <2>1. FreshFigures(page'[r]) /\ SoundFigures(page'[r])
      BY <1>7, <1>8, <1>9 DEF FiguresInv
    <2> QED
      BY <1>10, <2>1 DEF FreshFigures, SoundFigures, AddsUp, CoversHeld, Untorn, Shown
  <1> QED
    BY <1>11 DEF FiguresInv

\* A page left is empty again.
LEMMA LeaveFigures ==
  ASSUME PageInv, FiguresInv, NEW q \in Readers, Leave(q)
  PROVE  FiguresInv'
  <1>1. page' = [page EXCEPT ![q] = NoPage] /\ UNCHANGED books
    BY DEF Leave
  <1>2. UNCHANGED <<trades, rounding, Now>>
    BY <1>1 DEF books, Now, MarketOpen, CostOpen, ChargesOpen, Market, Cost, Held, Opened
  <1>3. FreshFigures(NoPage) /\ SoundFigures(NoPage)
    BY DEF NoPage, FreshFigures, SoundFigures, Untorn, Shown
  <1>4. ASSUME NEW r \in Readers
        PROVE  FreshFigures(page[r])' /\ SoundFigures(page[r])'
    <2>1. page'[r] = IF r = q THEN NoPage ELSE page[r]
      BY <1>1 DEF PageInv
    <2>2. FreshFigures(page'[r]) /\ SoundFigures(page'[r])
      BY <1>3, <2>1 DEF FiguresInv
    <2> QED
      BY <1>2, <2>2 DEF FreshFigures, SoundFigures, AddsUp, CoversHeld, Untorn, Shown
  <1> QED
    BY <1>4 DEF FiguresInv

-----------------------------------------------------------------------------
(* The books and what is read of them *)

\* The inductive invariant.
BooksInv == LedgerInv /\ BalanceInv /\ PageInv /\ FiguresInv

LEMMA BooksInvHolds == Spec => []BooksInv
  <1>1. Init => BooksInv
    <2> SUFFICES ASSUME Init PROVE BooksInv
      OBVIOUS
    <2>1. PageShape(NoPage) /\ FreshSums(NoPage) /\ SoundSums(NoPage)
      BY DEF Init, NoPage, PageShape, FreshSums, SoundSums, Summing
    <2>2. FreshFigures(NoPage) /\ SoundFigures(NoPage)
      BY DEF NoPage, FreshFigures, SoundFigures, Untorn, Shown
    <2>3. PageInv /\ FiguresInv
      BY <2>1, <2>2 DEF Init, PageInv, FiguresInv
    <2> QED
      BY <2>3, InitLedger, InitBalance DEF BooksInv
  <1>2. BooksInv /\ [Next]_vars => BooksInv'
    <2> SUFFICES ASSUME BooksInv, [Next]_vars
                 PROVE  BooksInv'
      OBVIOUS
    <2> USE DEF BooksInv
    <2>1. ASSUME NEW i \in Instruments, NEW entry \in Entries, NEW qty \in Quantities,
                 Fill(i, entry, qty)
          PROVE  BooksInv'
      <3>1. page' = page
        BY <2>1 DEF Fill
      <3>2. LedgerInv' /\ trades' = trades + 1 /\ BalanceInv' /\ rounding' >= rounding
        BY <2>1, FillLedger, FillBalance
      <3>3. rounding \in Nat /\ rounding' \in Nat
        BY <3>2 DEF BalanceInv
      <3> QED
        BY <3>1, <3>2, <3>3, TradePages, TradeFigures
    <2>2. ASSUME NEW i \in Instruments, NEW qty \in Quantities,
                 NEW at \in Quotes \cup {position[i].current}, Exit(i, qty, at)
          PROVE  BooksInv'
      <3>1. page' = page
        BY <2>2 DEF Exit
      <3>2. LedgerInv' /\ trades' = trades + 1 /\ BalanceInv' /\ rounding' >= rounding
        BY <2>2, ExitLedger, ExitBalance
      <3>3. rounding \in Nat /\ rounding' \in Nat
        BY <3>2 DEF BalanceInv
      <3> QED
        BY <3>1, <3>2, <3>3, TradePages, TradeFigures
    <2>3. ASSUME UNCHANGED books
          PROVE  LedgerInv' /\ BalanceInv'
      <3>1. LedgerInv'
        BY <2>3 DEF books, LedgerInv, MoneyType, Expected
      <3>2. UNCHANGED <<Opened, CostOpen, MarketOpen, ChargesOpen, Imbalance>>
        BY <2>3 DEF books, Opened, CostOpen, MarketOpen, ChargesOpen, Imbalance,
                    Cost, Market, Held
      <3> QED
        BY <2>3, <3>1, <3>2 DEF books, BalanceInv
    <2>4. ASSUME NEW r \in Readers, NEW name \in Pages, Read(r, name)
          PROVE  BooksInv'
      <3>1. UNCHANGED books
        BY <2>4 DEF Read
      <3> QED
        BY <2>3, <2>4, <3>1, ReadPages, ReadFigures
    <2>5. ASSUME NEW r \in Readers, Leave(r)
          PROVE  BooksInv'
      <3>1. UNCHANGED books
        BY <2>5 DEF Leave
      <3> QED
        BY <2>3, <2>5, <3>1, LeavePages, LeaveFigures
    <2>6. CASE UNCHANGED vars
      <3>1. UNCHANGED books /\ page' = page
        BY <2>6 DEF vars
      <3>2. PageInv'
        BY <3>1 DEF books, PageInv, PageShape, FreshSums, SoundSums
      <3>3. UNCHANGED <<trades, rounding, Now>>
        BY <3>1 DEF books, Now, MarketOpen, CostOpen, ChargesOpen, Market, Cost, Held, Opened
      <3>4. FiguresInv'
        BY <3>1, <3>3 DEF FiguresInv, FreshFigures, SoundFigures, AddsUp, CoversHeld,
                          Untorn, Shown
      <3> QED
        BY <2>3, <3>1, <3>2, <3>4
    <2> QED
      BY <2>1, <2>2, <2>4, <2>5, <2>6 DEF Next
  <1> QED
    BY <1>1, <1>2, PTL DEF Spec

\* Cash follows the executed trades up to half a paisa per trade, for any prices and
\* quantities and however many trades there are (docs/cash-ledger.md).
THEOREM LedgerFollowsTradesHolds == Spec => []LedgerFollowsTrades
  <1>1. BooksInv => LedgerFollowsTrades
    <2> SUFFICES ASSUME BooksInv PROVE LedgerFollowsTrades
      OBVIOUS
    <2>1. Now.debits = bought + charges.buy /\ Now.credits = sold - charges.sell
      BY DEF Now
    <2> QED
      BY <2>1, BookkeepingAssumption
         DEF BooksInv, LedgerInv, MoneyType, Expected, LedgerFollowsTrades, Near
  <1> QED
    BY <1>1, BooksInvHolds, PTL

\* One paisa is enough for two trades, when no trade is committed between the three
\* sums of a reconciliation (docs/reconciliation.md).
THEOREM FewTradesReconcileHolds == Spec => []FewTradesReconcile
  <1>1. BooksInv => FewTradesReconcile
    <2> SUFFICES ASSUME BooksInv, NEW r \in Readers,
                        Untorn(page[r]), page[r].name \in Summing, page[r].upto <= 2
                 PROVE  Reconcile(page[r].got) = "ok"
      BY DEF FewTradesReconcile, Summing
    <2> DEFINE p == page[r]
               due == InitialCash - p.got["debits"] + p.got["credits"]
    <2>1. PageShape(p) /\ SoundSums(p)
      BY DEF BooksInv, PageInv
    <2>2. p.from = p.upto /\ p.done = Before(p.name) + 3
      BY SumsLast DEF Untorn, Shown
    <2>3. /\ p.got["balance"] \in Int /\ p.got["balance"] % 100 = 0
          /\ due \in Int
          /\ Near(p.got["balance"], due, 100 * p.upto)
          /\ p.upto \in 0 .. 2
      BY <2>1, <2>2, BookkeepingAssumption DEF SoundSums, PageShape
    <2>4. Paise(due) \in Int /\ Paise(due) % 100 = 0 /\ 2 * (due - Paise(due)) \in -100 .. 100
      BY <2>3, PaiseNear
    <2> HIDE DEF due
    <2>5. 2 * (p.got["balance"] - due) \in -200 .. 200
      BY <2>3 DEF Near
    <2>6. p.got["balance"] - Paise(due) \in -100 .. 100
      <3> DEFINE a == p.got["balance"] \div 100
                 b == Paise(due) \div 100
      <3>1. a \in Int /\ b \in Int /\ p.got["balance"] = 100 * a /\ Paise(due) = 100 * b
        BY <2>3, <2>4
      <3> HIDE DEF a, b
      <3>2. 200 * (a - b) \in -300 .. 300
        BY <2>3, <2>4, <2>5, <3>1
      <3>3. a - b \in -1 .. 1
        BY <3>1, <3>2
      <3> QED
        BY <3>1, <3>3
    <2>7. Difference(p.got) = p.got["balance"] - Paise(due)
      BY DEF Difference, due
    <2> QED
      BY <2>6, <2>7 DEF Reconcile, Tolerance
  <1> QED
    BY <1>1, BooksInvHolds, PTL

\* No money is made or lost in the books, through averaging, partial exits and re-entry:
\* cash, the cost of what is held and the charges not yet allocated are the capital and
\* the realised profit, up to the roundings of the trades (weighted_average, realised_pnl
\* and the allocation of charges in exit_position).
THEOREM BooksBalanceHolds == Spec => []BooksBalance
  <1>1. BooksInv => BooksBalance
    <2> SUFFICES ASSUME BooksInv PROVE BooksBalance
      OBVIOUS
    <2>1. /\ ledger \in Int /\ CostOpen \in Int /\ ChargesOpen \in Int
          /\ realised \in Int /\ InitialCash \in Int
          /\ 2 * Imbalance \in -rounding .. rounding
      BY BookkeepingAssumption DEF BooksInv, LedgerInv, MoneyType, BalanceInv
    <2>2. (ledger + CostOpen + ChargesOpen) - (InitialCash + realised) = Imbalance
      BY <2>1 DEF Imbalance
    <2> QED
      BY <2>1, <2>2 DEF BooksBalance, Near
  <1> QED
    BY <1>1, BooksInvHolds, PTL

\* A portfolio page with no trade between its statements adds up, and the daily page
\* never shows more than was gained (portfolio and daily_pnl).
THEOREM PagesAddUpHolds == Spec => []PagesAddUp
  <1>1. BooksInv => PagesAddUp
    <2> SUFFICES ASSUME BooksInv, NEW r \in Readers, Untorn(page[r])
                 PROVE  /\ page[r].name = "portfolio" =>
                              Near(page[r].got.cash + page[r].got.market,
                                   InitialCash + page[r].got.realised
                                     + page[r].got.unrealised - page[r].got.held, rounding)
                        /\ page[r].name = "daily" =>
                              DailyTotal(page[r].got) <= page[r].got.realised
                                     + page[r].got.unrealised - page[r].got.held
      BY DEF PagesAddUp
    <2>1. SoundFigures(page[r])
      BY DEF BooksInv, FiguresInv
    <2>2. ASSUME page[r].name = "portfolio"
          PROVE  Near(page[r].got.cash + page[r].got.market,
                      InitialCash + page[r].got.realised
                        + page[r].got.unrealised - page[r].got.held, rounding)
      BY <2>1, <2>2 DEF SoundFigures, AddsUp
    <2>3. ASSUME page[r].name = "daily"
          PROVE  DailyTotal(page[r].got) <= page[r].got.realised
                     + page[r].got.unrealised - page[r].got.held
      BY <2>1, <2>3 DEF SoundFigures, CoversHeld, DailyTotal
    <2> QED
      BY <2>2, <2>3
  <1> QED
    BY <1>1, BooksInvHolds, PTL
=============================================================================
