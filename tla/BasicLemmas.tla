------------------------------ MODULE BasicLemmas ------------------------------
(*************************************************************************)
(* Facts about data that the proofs rest on: where a position lies when  *)
(* integers are counted in rows of the same length, powers of two, sums  *)
(* over finite sets, the number that a set of bits stands for, sequences *)
(* that follow one another, and places of a stream.                      *)
(*************************************************************************)
EXTENDS SequencesExt, Integers, FiniteSetTheorems, FunctionTheorems, SequenceTheorems,
        WellFoundedInduction, TLAPS

\* A product of natural numbers is one.
LEMMA ProductType ==
  ASSUME NEW a \in Nat, NEW c \in Nat
  PROVE  a * c \in Nat
OBVIOUS

\* One row more is as many positions more as a row has.
LEMMA ProductNext ==
  ASSUME NEW a \in Int, NEW c \in Int
  PROVE  (a + 1) * c = a * c + c /\ (a - 1) * c = a * c - c
OBVIOUS

\* More rows do not have fewer positions.
LEMMA ProductOrder ==
  ASSUME NEW a \in Nat, NEW b \in Nat, NEW c \in Nat, a <= b
  PROVE  a * c <= b * c
OBVIOUS

\* A row ends before a later row begins.
LEMMA RowsApart ==
  ASSUME NEW a \in Nat, NEW b \in Nat, NEW c \in Nat, a < b
  PROVE  a * c + c <= b * c
<1>1. (a + 1) * c <= b * c
  BY ProductOrder
<1> QED BY <1>1, ProductNext

\* The row of a position and its place in the row.
LEMMA Division ==
  ASSUME NEW n \in Nat, NEW c \in Nat \ {0}
  PROVE  /\ n \div c \in Nat
         /\ n % c \in 0..(c - 1)
         /\ n = (n \div c) * c + (n % c)
OBVIOUS

\* There is no other row and no other place.
LEMMA DivisionUnique ==
  ASSUME NEW q \in Nat, NEW c \in Nat \ {0}, NEW r \in 0..(c - 1)
  PROVE  /\ (q * c + r) \div c = q
         /\ (q * c + r) % c = r
OBVIOUS

\* A set of natural numbers has a least one.
LEMMA LeastNumber ==
  ASSUME NEW S, S \subseteq Nat, S # {}
  PROVE  \E m \in S : \A n \in S : m <= n
<1>1. PICK m \in S : \A n \in S : ~ (<<n, m>> \in OpToRel(<, Nat))
  BY WFMin, NatLessThanWellFounded, Zenon
<1>2. ASSUME NEW n \in S PROVE m <= n
  <2>1. ~ (n < m)
    BY <1>1 DEF OpToRel
  <2> QED BY <2>1
<1> QED BY <1>2

\* A set that has zero, and with each number the next, has them all.
LEMMA EveryNumber ==
  ASSUME NEW S, 0 \in S, \A n \in Nat : n \in S => n + 1 \in S
  PROVE  Nat \subseteq S
<1> DEFINE Missing == Nat \ S
<1> SUFFICES ASSUME Missing # {} PROVE FALSE
  OBVIOUS
<1>1. PICK k \in Missing : \A j \in Missing : k <= j
  <2>1. Missing \subseteq Nat
    OBVIOUS
  <2> HIDE DEF Missing
  <2> QED BY <2>1, LeastNumber
<1>2. PICK j \in Nat : k = j + 1
  <2>1. k \in Nat /\ k # 0
    OBVIOUS
  <2>2. k - 1 \in Nat /\ k = (k - 1) + 1
    BY <2>1
  <2> QED BY <2>2
<1>3. j \in S
  BY <1>1, <1>2
<1> QED BY <1>2, <1>3

\* f is the running sum of the distances of the places p.
RunningSum(f, p, low, high) ==
  \A k \in low..high :
    /\ p[k] \in Int
    /\ f[k] = IF k = low THEN 0 ELSE f[k - 1] + (p[k] - p[k - 1])

\* What it comes to.
LEMMA SumOfSteps ==
  ASSUME NEW low \in Int, NEW high \in Int, low <= high, NEW p, NEW f,
         RunningSum(f, p, low, high)
  PROVE  f[high] = p[high] - p[low]
<1> USE DEF RunningSum
<1> DEFINE Right == {n \in Nat : low + n <= high => f[low + n] = p[low + n] - p[low]}
<1>1. 0 \in Right
  <2>1. low \in low..high /\ low + 0 = low
    OBVIOUS
  <2>2. f[low] = 0 /\ p[low] \in Int
    BY <2>1
  <2> QED BY <2>1, <2>2
<1>2. ASSUME NEW n \in Nat, n \in Right PROVE n + 1 \in Right
  <2> SUFFICES ASSUME low + (n + 1) <= high
               PROVE  f[low + (n + 1)] = p[low + (n + 1)] - p[low]
    OBVIOUS
  <2>1. PICK k \in low..high : k = low + (n + 1) /\ k - 1 = low + n /\ k # low
    OBVIOUS
  <2>2. f[k - 1] = p[k - 1] - p[low] /\ k - 1 \in low..high /\ low \in low..high
    BY <1>2, <2>1
  <2>3. f[k] = f[k - 1] + (p[k] - p[k - 1])
    BY <2>1
  <2>4. p[k] \in Int /\ p[k - 1] \in Int /\ p[low] \in Int
    BY <2>1, <2>2
  <2>5. f[k] = p[k] - p[low]
    BY <2>2, <2>3, <2>4
  <2> QED BY <2>1, <2>5
<1> HIDE DEF Right
<1>3. high - low \in Right
  BY <1>1, <1>2, EveryNumber
<1> QED BY <1>3 DEF Right

\* A set of natural numbers that is not empty and has a bound has a greatest one.
LEMMA GreatestNumber ==
  ASSUME NEW S, S \subseteq Nat, S # {}, NEW n \in Nat, \A k \in S : k < n
  PROVE  \E m \in S : \A k \in S : k <= m
<1> DEFINE Bounds == {b \in Nat : \A k \in S : k <= b}
<1>1. PICK m \in Bounds : \A b \in Bounds : m <= b
  <2>1. Bounds \subseteq Nat /\ n \in Bounds
    OBVIOUS
  <2> HIDE DEF Bounds
  <2> QED BY <2>1, LeastNumber
<1>2. m \in S
  <2> SUFFICES ASSUME m \notin S PROVE FALSE
    OBVIOUS
  <2>1. PICK j \in S : j \in Nat
    OBVIOUS
  <2>2. m \in Nat /\ \A k \in S : k <= m /\ k # m /\ k \in Nat
    BY <1>1
  <2>3. m - 1 \in Nat /\ \A k \in S : k <= m - 1
    BY <2>1, <2>2
  <2>4. m <= m - 1
    BY <1>1, <2>3
  <2> QED BY <2>2, <2>4
<1> QED BY <1>1, <1>2

-------------------------------------------------------------------------------
(* Powers of two, which count the subsets of a finite set.                  *)

\* A set of n elements has 2^n subsets.
LEMMA PowerIsSubsets ==
  ASSUME NEW n \in Nat
  PROVE  2^n = Cardinality(SUBSET (1..n)) /\ IsFiniteSet(SUBSET (1..n))
<1>1. IsFiniteSet(1..n) /\ Cardinality(1..n) = n
  BY FS_Interval
<1> QED BY <1>1, FS_SUBSET

\* There is one word without bits.
LEMMA PowerZero == 2^0 = 1
<1>1. Cardinality(SUBSET (1..0)) = 1
  <2>1. SUBSET (1..0) = {{}}
    OBVIOUS
  <2> QED BY <2>1, FS_Singleton
<1> QED BY <1>1, PowerIsSubsets

\* Each bit more doubles the words.
LEMMA PowerNext ==
  ASSUME NEW n \in Nat
  PROVE  2^(n + 1) = 2 * 2^n /\ 2^n \in Nat \ {0}
<1> DEFINE Old == SUBSET (1..n)
           New == {s \cup {n + 1} : s \in SUBSET (1..n)}
           f == [s \in Old |-> s \cup {n + 1}]
<1>1. SUBSET (1..(n + 1)) = Old \cup New
  <2>1. ASSUME NEW s \in SUBSET (1..(n + 1)) PROVE s \in Old \cup New
    <3>1. CASE n + 1 \in s
      <4>1. s = (s \ {n + 1}) \cup {n + 1}
        BY <3>1
      <4>2. s \ {n + 1} \in SUBSET (1..n)
        OBVIOUS
      <4> QED BY <4>1, <4>2
    <3>2. CASE n + 1 \notin s
      <4>1. s \in SUBSET (1..n)
        BY <3>2
      <4> QED BY <4>1
    <3> QED BY <3>1, <3>2
  <2>2. ASSUME NEW s \in SUBSET (1..n)
        PROVE  s \in SUBSET (1..(n + 1)) /\ s \cup {n + 1} \in SUBSET (1..(n + 1))
    <3>1. n + 1 \in 1..(n + 1) /\ 1..n \subseteq 1..(n + 1)
      OBVIOUS
    <3> QED BY <3>1
  <2>3. Old \cup New \subseteq SUBSET (1..(n + 1))
    <3> SUFFICES ASSUME NEW t \in Old \cup New PROVE t \in SUBSET (1..(n + 1))
      BY Zenon
    <3>1. CASE t \in Old
      BY <2>2, <3>1
    <3>2. CASE t \in New
      <4>1. PICK s \in Old : t = s \cup {n + 1}
        BY <3>2
      <4> QED BY <2>2, <4>1
    <3> QED BY <3>1, <3>2
  <2>4. SUBSET (1..(n + 1)) \subseteq Old \cup New
    <3> HIDE DEF Old, New
    <3> QED BY <2>1
  <2> HIDE DEF Old, New
  <2> QED BY <2>3, <2>4
<1>2. Old \cap New = {}
  OBVIOUS
<1>3. f \in Bijection(Old, New)
  <2>1. f \in [Old -> New]
    OBVIOUS
  <2>2. \A s, t \in Old : f[s] = f[t] => s = t
    OBVIOUS
  <2>3. \A t \in New : \E s \in Old : f[s] = t
    OBVIOUS
  <2> QED BY <2>1, <2>2, <2>3, Fun_IsBij
<1>4. 2^n = Cardinality(Old) /\ IsFiniteSet(Old)
  BY PowerIsSubsets
<1>5. IsFiniteSet(New) /\ Cardinality(New) = Cardinality(Old)
  <2> HIDE DEF Old, New, f
  <2>1. ExistsBijection(Old, New)
    BY <1>3 DEF ExistsBijection
  <2> QED BY <1>4, <2>1, FS_Bijection
<1>6. 2^(n + 1) = Cardinality(Old \cup New)
  <2>1. n + 1 \in Nat
    OBVIOUS
  <2> QED BY <1>1, <2>1, PowerIsSubsets
<1>7. Cardinality(Old) \in Nat /\ Cardinality(Old) # 0
  <2>1. {} \in Old
    OBVIOUS
  <2> HIDE DEF Old
  <2> QED BY <1>4, <2>1, FS_CardinalityType, FS_EmptySet
<1>8. Cardinality({}) = 0
  BY FS_EmptySet
<1>9. Cardinality(Old \cup New) = Cardinality(Old) + Cardinality(New) - Cardinality(Old \cap New)
  <2> HIDE DEF Old, New
  <2> QED BY <1>4, <1>5, FS_Union
<1> HIDE DEF Old, New
<1>10. Cardinality(Old \cup New) = 2 * Cardinality(Old)
  <2>1. Cardinality(Old \cap New) = 0
    BY <1>2, <1>8
  <2> QED BY <1>5, <1>7, <1>9, <2>1
<1> QED BY <1>4, <1>6, <1>7, <1>10

\* Every power of two is a positive number.
LEMMA PowerType ==
  ASSUME NEW n \in Nat
  PROVE  2^n \in Nat \ {0}
BY PowerNext

\* Shifting twice.
LEMMA PowerSum ==
  ASSUME NEW m \in Nat, NEW n \in Nat
  PROVE  2^(m + n) = 2^m * 2^n
<1> DEFINE Right == {k \in Nat : 2^(m + k) = 2^m * 2^k}
<1>1. 2^m \in Nat
  BY PowerType
<1>2. 0 \in Right
  <2>1. m + 0 = m /\ 2^m * 1 = 2^m
    BY <1>1
  <2> QED BY <2>1, PowerZero
<1>3. ASSUME NEW k \in Nat, k \in Right PROVE k + 1 \in Right
  <2>1. 2^(m + (k + 1)) = 2 * 2^(m + k)
    <3>1. m + (k + 1) = (m + k) + 1 /\ m + k \in Nat
      OBVIOUS
    <3> QED BY <3>1, PowerNext
  <2>2. 2^(k + 1) = 2 * 2^k
    BY PowerNext
  <2>3. 2^(m + k) = 2^m * 2^k
    BY <1>3
  <2>4. PICK a \in Nat, b \in Nat : a = 2^m /\ b = 2^k
    BY PowerType
  <2>5. 2 * (a * b) = a * (2 * b)
    OBVIOUS
  <2> QED BY <2>1, <2>2, <2>3, <2>4, <2>5
<1> HIDE DEF Right
<1>4. n \in Right
  BY <1>2, <1>3, EveryNumber
<1> QED BY <1>4 DEF Right

\* A wider word has more values.
LEMMA PowerOrder ==
  ASSUME NEW m \in Nat, NEW n \in Nat, m <= n
  PROVE  2^m <= 2^n
<1>1. PICK k \in Nat : n = m + k
  <2>1. n - m \in Nat /\ n = m + (n - m)
    OBVIOUS
  <2> QED BY <2>1
<1>2. PICK a \in Nat, b \in Nat \ {0} : a = 2^m /\ b = 2^k
  BY PowerType
<1>3. a * b >= a
  <2>1. 1 * a <= b * a
    BY ProductOrder
  <2> QED BY <2>1
<1> QED BY <1>1, <1>2, <1>3, PowerSum

\* A word that is one bit wider has at least twice as many.
LEMMA PowerStrict ==
  ASSUME NEW m \in Nat, NEW n \in Nat, m < n
  PROVE  2 * 2^m <= 2^n
<1>1. 2^(m + 1) <= 2^n
  BY PowerOrder
<1> QED BY <1>1, PowerNext

-------------------------------------------------------------------------------
(* Sums over finite sets, in any order.                                     *)

\* f sums the numbers g of the elements of each subset of S, one chosen element
\* after the other.
Sums(f, g, S) ==
  f = [s \in SUBSET S |->
         IF s = {} THEN 0
         ELSE g[CHOOSE x \in s : TRUE] + f[s \ {CHOOSE x \in s : TRUE}]]

\* There is such a function.
LEMMA SumsExist ==
  ASSUME NEW S, IsFiniteSet(S), NEW g \in [S -> Nat]
  PROVE  \E f \in [SUBSET S -> Nat] : Sums(f, g, S)
<1> DEFINE Step(f, s) == IF s = {} THEN 0
                         ELSE g[CHOOSE x \in s : TRUE] + f[s \ {CHOOSE x \in s : TRUE}]
           Small(n) == {s \in SUBSET S : Cardinality(s) <= n}
           Partial(n) == {f \in [Small(n) -> Nat] : \A s \in Small(n) : f[s] = Step(f, s)}
           Defined == {n \in Nat : Partial(n) # {}}
<1>1. ASSUME NEW s \in SUBSET S
      PROVE  /\ IsFiniteSet(s) /\ Cardinality(s) \in Nat
             /\ s # {} => /\ (CHOOSE x \in s : TRUE) \in s
                          /\ Cardinality(s \ {CHOOSE x \in s : TRUE}) = Cardinality(s) - 1
                          /\ s \ {CHOOSE x \in s : TRUE} \in SUBSET S
             /\ Cardinality(s) = 0 <=> s = {}
  <2>1. IsFiniteSet(s) /\ Cardinality(s) \in Nat
    BY FS_Subset, FS_CardinalityType
  <2>2. Cardinality(s) = 0 <=> s = {}
    BY <2>1, FS_EmptySet
  <2>3. ASSUME s # {}
        PROVE  /\ (CHOOSE x \in s : TRUE) \in s
               /\ Cardinality(s \ {CHOOSE x \in s : TRUE}) = Cardinality(s) - 1
    <3>1. PICK c : c = CHOOSE x \in s : TRUE
      OBVIOUS
    <3>2. c \in s
      BY <2>3, <3>1
    <3>3. Cardinality(s \ {c}) = Cardinality(s) - 1
      BY <2>1, <3>2, FS_RemoveElement
    <3> QED BY <3>1, <3>2, <3>3
  <2> QED BY <2>1, <2>2, <2>3
<1>2. 0 \in Defined
  <2> DEFINE f == [s \in Small(0) |-> 0]
  <2>1. ASSUME NEW s \in Small(0) PROVE s = {}
    <3>1. s \in SUBSET S /\ Cardinality(s) <= 0
      OBVIOUS
    <3>2. Cardinality(s) \in Nat /\ (Cardinality(s) = 0 <=> s = {})
      BY <1>1, <3>1
    <3> QED BY <3>1, <3>2
  <2>2. \A s \in Small(0) : f[s] = Step(f, s)
    BY <2>1
  <2>3. f \in [Small(0) -> Nat]
    OBVIOUS
  <2>4. f \in Partial(0)
    <3> HIDE DEF f, Step, Small
    <3> QED BY <2>2, <2>3
  <2> HIDE DEF Partial, f
  <2> QED BY <2>4
<1>3. ASSUME NEW n \in Nat, n \in Defined PROVE n + 1 \in Defined
  <2>1. PICK f \in Partial(n) : TRUE
    BY <1>3
  <2> DEFINE h == [s \in Small(n + 1) |-> IF s \in Small(n) THEN f[s] ELSE Step(f, s)]
  <2>2. f \in [Small(n) -> Nat] /\ \A s \in Small(n) : f[s] = Step(f, s)
    <3> HIDE DEF Step, Small
    <3> QED BY <2>1
  <2>3. ASSUME NEW s \in Small(n + 1), s # {}
        PROVE  /\ (CHOOSE x \in s : TRUE) \in S
               /\ s \ {CHOOSE x \in s : TRUE} \in Small(n)
    <3>1. PICK c : c = CHOOSE x \in s : TRUE
      OBVIOUS
    <3>2. c \in s /\ Cardinality(s \ {c}) = Cardinality(s) - 1 /\ Cardinality(s) \in Nat
      BY <1>1, <2>3, <3>1
    <3>3. Cardinality(s) <= n + 1
      OBVIOUS
    <3>4. Cardinality(s \ {c}) <= n
      BY <3>2, <3>3
    <3> QED BY <3>1, <3>2, <3>4
  <2>4. ASSUME NEW s \in Small(n) PROVE s \in Small(n + 1)
    <3>1. s \in SUBSET S /\ Cardinality(s) <= n
      OBVIOUS
    <3>2. Cardinality(s) \in Nat
      BY <1>1, <3>1
    <3> QED BY <3>1, <3>2
  <2>5. ASSUME NEW s \in Small(n + 1) PROVE Step(f, s) \in Nat
    <3> HIDE DEF Small
    <3> QED BY <2>2, <2>3
  <2>6. h \in [Small(n + 1) -> Nat]
    <3> HIDE DEF Small, Step
    <3> QED BY <2>2, <2>5
  <2>7. ASSUME NEW s \in Small(n + 1) PROVE h[s] = Step(h, s)
    <3>1. s # {} => h[s \ {CHOOSE x \in s : TRUE}] = f[s \ {CHOOSE x \in s : TRUE}]
      <4> HIDE DEF Small, Step
      <4> QED BY <2>3, <2>4
    <3>2. Step(h, s) = Step(f, s)
      <4> HIDE DEF h, Small
      <4> QED BY <3>1
    <3>3. h[s] = Step(f, s)
      <4> HIDE DEF Small, Step
      <4> QED BY <2>2
    <3> QED BY <3>2, <3>3
  <2>8. h \in Partial(n + 1)
    <3> HIDE DEF h, Step, Small
    <3> QED BY <2>6, <2>7
  <2> HIDE DEF h, Partial
  <2> QED BY <2>8
<1> HIDE DEF Defined
<1>4. Cardinality(S) \in Defined
  <2>1. Cardinality(S) \in Nat
    BY FS_CardinalityType
  <2> QED BY <1>2, <1>3, <2>1, EveryNumber
<1>5. Small(Cardinality(S)) = SUBSET S
  <2>1. ASSUME NEW s \in SUBSET S PROVE Cardinality(s) <= Cardinality(S)
    BY FS_Subset
  <2> QED BY <2>1
<1>6. PICK f \in Partial(Cardinality(S)) : TRUE
  BY <1>4 DEF Defined
<1>7. f \in [SUBSET S -> Nat] /\ \A s \in SUBSET S : f[s] = Step(f, s)
  <2> HIDE DEF Step, Small
  <2> QED BY <1>5, <1>6
<1>8. f = [s \in SUBSET S |-> Step(f, s)]
  <2>1. f = [s \in SUBSET S |-> f[s]]
    BY <1>7
  <2> HIDE DEF Step
  <2> QED BY <1>7, <2>1
<1>9. Sums(f, g, S)
  BY <1>8 DEF Sums
<1> QED BY <1>7, <1>9

\* It does not matter which element is taken first.
LEMMA SumsAny ==
  ASSUME NEW S, IsFiniteSet(S), NEW g \in [S -> Nat], NEW f, Sums(f, g, S)
  PROVE  /\ f[{}] = 0
         /\ \A s \in SUBSET S : f[s] \in Nat /\ \A x \in s : f[s] = g[x] + f[s \ {x}]
<1> DEFINE Free(s) == f[s] \in Nat /\ \A x \in s : f[s] = g[x] + f[s \ {x}]
           Right == {n \in Nat : \A s \in SUBSET S : Cardinality(s) <= n => Free(s)}
<1>1. \A s \in SUBSET S : IsFiniteSet(s) /\ Cardinality(s) \in Nat
  BY FS_Subset, FS_CardinalityType
<1>2. f[{}] = 0
  BY DEF Sums
<1>3. ASSUME NEW s \in SUBSET S, s # {}
      PROVE  \E c \in s : f[s] = g[c] + f[s \ {c}]
  <2>1. f[s] = g[CHOOSE x \in s : TRUE] + f[s \ {CHOOSE x \in s : TRUE}]
    BY <1>3 DEF Sums
  <2>2. (CHOOSE x \in s : TRUE) \in s
    BY <1>3
  <2> QED BY <2>1, <2>2
<1>4. 0 \in Right
  <2>1. \A s \in SUBSET S : Cardinality(s) <= 0 => s = {}
    BY <1>1, FS_EmptySet
  <2> QED BY <1>2, <2>1
<1>5. ASSUME NEW n \in Nat, n \in Right PROVE n + 1 \in Right
  <2> SUFFICES ASSUME NEW s \in SUBSET S, Cardinality(s) = n + 1 PROVE Free(s)
    <3>1. \A s \in SUBSET S : Cardinality(s) <= n + 1 =>
            Cardinality(s) <= n \/ Cardinality(s) = n + 1
      BY <1>1
    <3> HIDE DEF Free
    <3> QED BY <1>5, <3>1
  <2>1. s # {}
    BY FS_EmptySet
  <2>2. PICK c \in s : f[s] = g[c] + f[s \ {c}]
    BY <1>3, <2>1
  <2>3. ASSUME NEW x \in s PROVE s \ {x} \in SUBSET S /\ Cardinality(s \ {x}) = n /\ Free(s \ {x})
    <3>1. Cardinality(s \ {x}) = n
      BY <1>1, FS_RemoveElement
    <3>2. s \ {x} \in SUBSET S
      OBVIOUS
    <3> HIDE DEF Free
    <3> QED BY <1>5, <3>1, <3>2
  <2>4. f[s] \in Nat
    <3>1. f[s \ {c}] \in Nat /\ g[c] \in Nat
      BY <2>3
    <3> QED BY <2>2, <3>1
  <2>5. ASSUME NEW x \in s PROVE f[s] = g[x] + f[s \ {x}]
    <3>1. CASE x = c
      BY <2>2, <3>1
    <3>2. CASE x # c
      <4>1. x \in s \ {c} /\ c \in s \ {x} /\ (s \ {c}) \ {x} = (s \ {x}) \ {c}
        BY <3>2
      <4>2. f[s \ {c}] = g[x] + f[(s \ {c}) \ {x}]
        BY <2>3, <4>1
      <4>3. f[s \ {x}] = g[c] + f[(s \ {x}) \ {c}]
        BY <2>3, <4>1
      <4>4. PICK r : r = (s \ {x}) \ {c}
        OBVIOUS
      <4>5. r \in SUBSET S /\ f[r] \in Nat
        <5>1. r \in SUBSET S /\ r \subseteq s \ {x}
          BY <4>4
        <5>2. Cardinality(r) <= n
          BY <1>1, <2>3, <5>1, FS_Subset
        <5> HIDE DEF Free
        <5>3. Free(r)
          BY <1>5, <5>1, <5>2
        <5> QED BY <5>1, <5>3 DEF Free
      <4>6. g[x] \in Nat /\ g[c] \in Nat
        OBVIOUS
      <4> QED BY <2>2, <4>1, <4>2, <4>3, <4>4, <4>5, <4>6
    <3> QED BY <3>1, <3>2
  <2> QED BY <2>4, <2>5
<1> HIDE DEF Right
<1>6. Nat \subseteq Right
  BY <1>4, <1>5, EveryNumber
<1>7. \A s \in SUBSET S : Free(s)
  <2> HIDE DEF Free
  <2> QED BY <1>1, <1>6 DEF Right
<1> QED BY <1>2, <1>7

\* Nor in which set the elements are.
LEMMA SumsSame ==
  ASSUME NEW T, IsFiniteSet(T), NEW S \in SUBSET T,
         NEW g \in [S -> Nat], NEW h \in [T -> Nat], \A x \in S : g[x] = h[x],
         NEW f, NEW e, Sums(f, g, S), Sums(e, h, T)
  PROVE  f[S] = e[S]
<1> DEFINE Right == {n \in Nat : \A s \in SUBSET S : Cardinality(s) = n => f[s] = e[s]}
<1>1. IsFiniteSet(S)
  BY FS_Subset
<1>2. \A s \in SUBSET S : IsFiniteSet(s) /\ Cardinality(s) \in Nat
  BY <1>1, FS_Subset, FS_CardinalityType
<1>3. /\ f[{}] = 0
      /\ \A s \in SUBSET S : \A x \in s : f[s] = g[x] + f[s \ {x}]
  BY <1>1, SumsAny
<1>4. /\ e[{}] = 0
      /\ \A s \in SUBSET T : \A x \in s : e[s] = h[x] + e[s \ {x}]
  BY SumsAny
<1>5. 0 \in Right
  <2>1. \A s \in SUBSET S : Cardinality(s) = 0 => s = {}
    BY <1>2, FS_EmptySet
  <2> QED BY <1>3, <1>4, <2>1
<1>6. ASSUME NEW n \in Nat, n \in Right PROVE n + 1 \in Right
  <2> SUFFICES ASSUME NEW s \in SUBSET S, Cardinality(s) = n + 1 PROVE f[s] = e[s]
    BY DEF Right
  <2>1. PICK x \in s : TRUE
    BY FS_EmptySet
  <2>2. s \ {x} \in SUBSET S /\ Cardinality(s \ {x}) = n
    BY <1>2, FS_RemoveElement
  <2>3. f[s \ {x}] = e[s \ {x}]
    BY <1>6, <2>2
  <2>4. f[s] = g[x] + f[s \ {x}] /\ e[s] = h[x] + e[s \ {x}] /\ g[x] = h[x]
    BY <1>3, <1>4
  <2> QED BY <2>3, <2>4
<1> HIDE DEF Right
<1>7. Cardinality(S) \in Right
  <2>1. Cardinality(S) \in Nat
    BY <1>2
  <2> QED BY <1>5, <1>6, <2>1, EveryNumber
<1> QED BY <1>7 DEF Right

-------------------------------------------------------------------------------
(* The number that a word stands for.                                       *)

\* f sums the powers of two of the elements of each subset of S.
SumsBits(f, S) ==
  f = [s \in SUBSET S |->
         IF s = {} THEN 0
         ELSE 2^(CHOOSE x \in s : TRUE) + f[s \ {CHOOSE x \in s : TRUE}]]

\* The number whose 1 bits are at the places S.
Number(S) == (CHOOSE f : SumsBits(f, S))[S]

\* What each bit stands for.
Powers(S) == [b \in S |-> 2^b]

\* It is a sum.
LEMMA NumberSums ==
  ASSUME NEW S, IsFiniteSet(S), S \subseteq Nat
  PROVE  \E f : Sums(f, Powers(S), S) /\ Number(S) = f[S]
<1> DEFINE g == Powers(S)
<1>1. g \in [S -> Nat]
  BY PowerType DEF Powers
<1>2. ASSUME NEW s \in SUBSET S, s # {}
      PROVE  g[CHOOSE x \in s : TRUE] = 2^(CHOOSE x \in s : TRUE)
  <2>1. (CHOOSE x \in s : TRUE) \in S
    BY <1>2
  <2> QED BY <2>1 DEF Powers
<1>3. ASSUME NEW f PROVE SumsBits(f, S) <=> Sums(f, g, S)
  <2> HIDE DEF g
  <2>1. [s \in SUBSET S |->
           IF s = {} THEN 0
           ELSE 2^(CHOOSE x \in s : TRUE) + f[s \ {CHOOSE x \in s : TRUE}]]
        = [s \in SUBSET S |->
             IF s = {} THEN 0
             ELSE g[CHOOSE x \in s : TRUE] + f[s \ {CHOOSE x \in s : TRUE}]]
    BY <1>2
  <2> QED BY <2>1 DEF SumsBits, Sums
<1>4. \E f : SumsBits(f, S)
  <2> HIDE DEF g
  <2> QED BY <1>1, <1>3, SumsExist
<1> DEFINE number == CHOOSE f : SumsBits(f, S)
<1>5. SumsBits(number, S)
  BY <1>4
<1>6. Number(S) = number[S]
  BY DEF Number
<1> HIDE DEF number
<1>7. Sums(number, g, S)
  BY <1>3, <1>5
<1> QED BY <1>6, <1>7

\* No bits, and one bit more.
LEMMA NumberAdd ==
  ASSUME NEW S, IsFiniteSet(S), S \subseteq Nat
  PROVE  /\ Number({}) = 0
         /\ Number(S) \in Nat
         /\ \A x \in Nat \ S : Number(S \cup {x}) = 2^x + Number(S)
<1>1. ASSUME NEW T, IsFiniteSet(T), T \subseteq Nat PROVE Powers(T) \in [T -> Nat]
  BY <1>1, PowerType DEF Powers
<1>2. PICK f : Sums(f, Powers(S), S) /\ Number(S) = f[S]
  BY NumberSums
<1>3. Number(S) \in Nat
  <2>1. S \in SUBSET S
    OBVIOUS
  <2>2. f[S] \in Nat
    BY <1>1, <1>2, <2>1, SumsAny
  <2> QED BY <1>2, <2>2
<1>4. Number({}) = 0
  <2>1. IsFiniteSet({}) /\ {} \subseteq Nat
    BY FS_EmptySet
  <2>2. PICK e : Sums(e, Powers({}), {}) /\ Number({}) = e[{}]
    BY <2>1, NumberSums
  <2>3. e[{}] = 0
    BY <1>1, <2>1, <2>2, SumsAny
  <2> QED BY <2>2, <2>3
<1>5. ASSUME NEW x \in Nat \ S PROVE Number(S \cup {x}) = 2^x + Number(S)
  <2>1. PICK T : T = S \cup {x}
    OBVIOUS
  <2>2. IsFiniteSet(T) /\ T \subseteq Nat /\ S \in SUBSET T /\ x \in T /\ T \ {x} = S
    <3>1. IsFiniteSet(T)
      BY <2>1, FS_AddElement
    <3> QED BY <2>1, <3>1
  <2>3. PICK e : Sums(e, Powers(T), T) /\ Number(T) = e[T]
    BY <2>2, NumberSums
  <2>4. T \in SUBSET T
    OBVIOUS
  <2>5. e[T] = Powers(T)[x] + e[T \ {x}]
    <3>1. PICK g \in [S -> Nat], h \in [T -> Nat] : g = Powers(S) /\ h = Powers(T)
      BY <1>1, <2>2
    <3>2. Sums(e, h, T)
      BY <2>3, <3>1
    <3>3. \A s \in SUBSET T : e[s] \in Nat /\ \A y \in s : e[s] = h[y] + e[s \ {y}]
      <4>1. IsFiniteSet(T)
        BY <2>2
      <4> QED BY <3>2, <4>1, SumsAny, SMTT(30)
    <3> QED BY <2>2, <2>4, <3>1, <3>3
  <2>6. f[S] = e[S]
    <3>1. Powers(S) \in [S -> Nat] /\ Powers(T) \in [T -> Nat]
      BY <1>1, <2>2
    <3>2. \A b \in S : Powers(S)[b] = Powers(T)[b]
      BY <2>2 DEF Powers
    <3>3. PICK g \in [S -> Nat], h \in [T -> Nat] : g = Powers(S) /\ h = Powers(T)
      BY <3>1
    <3>4. Sums(f, g, S) /\ Sums(e, h, T) /\ \A b \in S : g[b] = h[b]
      <4>1. Sums(f, g, S)
        BY <1>2, <3>3
      <4>2. Sums(e, h, T)
        BY <2>3, <3>3
      <4> QED BY <3>2, <3>3, <4>1, <4>2
    <3>5. IsFiniteSet(T) /\ S \in SUBSET T
      BY <2>2
    <3>6. /\ IsFiniteSet(T) /\ S \in SUBSET T
          /\ g \in [S -> Nat] /\ h \in [T -> Nat]
          /\ \A y \in S : g[y] = h[y]
          /\ Sums(f, g, S) /\ Sums(e, h, T)
      BY <3>4, <3>5
    <3> QED BY ONLY <3>6, SumsSame
  <2>7. Powers(T)[x] = 2^x
    BY <2>2 DEF Powers
  <2> QED BY <1>2, <2>1, <2>2, <2>3, <2>5, <2>6, <2>7
<1> QED BY <1>3, <1>4, <1>5

\* A word with a 1 bit is not zero.
LEMMA NumberPositive ==
  ASSUME NEW S, IsFiniteSet(S), S \subseteq Nat, S # {}
  PROVE  Number(S) \in Nat \ {0}
<1>1. PICK x \in S : TRUE
  OBVIOUS
<1>2. PICK T : T = S \ {x} /\ T \cup {x} = S /\ T \subseteq Nat /\ x \in Nat \ T
  <2>1. (S \ {x}) \cup {x} = S /\ S \ {x} \subseteq Nat /\ x \in Nat \ (S \ {x})
    OBVIOUS
  <2> QED BY <2>1
<1>3. IsFiniteSet(T)
  BY <1>2, FS_Subset
<1>4. Number(T) \in Nat /\ Number(S) = 2^x + Number(T)
  BY <1>2, <1>3, NumberAdd
<1>5. PICK p \in Nat \ {0} : p = 2^x
  BY <1>2, PowerType
<1> QED BY <1>4, <1>5

\* A number of n bits.
LEMMA NumberBelow ==
  ASSUME NEW n \in Nat, NEW S \in SUBSET (0..(n - 1))
  PROVE  Number(S) \in Nat /\ Number(S) < 2^n
<1> DEFINE Right == {k \in Nat : \A s \in SUBSET (0..(k - 1)) :
                                   Number(s) \in Nat /\ Number(s) < 2^k}
<1>1. 0 \in Right
  <2>1. \A s \in SUBSET (0..(0 - 1)) : s = {}
    OBVIOUS
  <2>2. Number({}) = 0
    BY FS_EmptySet, NumberAdd
  <2>3. 0 \in Nat /\ 0 < 2^0
    BY PowerZero
  <2>4. \A s \in SUBSET (0..(0 - 1)) : Number(s) \in Nat /\ Number(s) < 2^0
    BY <2>1, <2>2, <2>3, Zenon
  <2> QED BY <2>3, <2>4
<1>2. ASSUME NEW k \in Nat, k \in Right PROVE k + 1 \in Right
  <2> SUFFICES ASSUME NEW s \in SUBSET (0..((k + 1) - 1))
               PROVE  Number(s) \in Nat /\ Number(s) < 2^(k + 1)
    BY DEF Right
  <2>1. PICK t \in SUBSET (0..(k - 1)) : t = s \ {k}
    <3>1. s \ {k} \subseteq 0..(k - 1)
      OBVIOUS
    <3> QED BY <3>1
  <2>2. PICK a \in Nat : a = Number(t) /\ a < 2^k
    BY <1>2
  <2>3. PICK b \in Nat \ {0} : b = 2^k /\ 2^(k + 1) = 2 * b
    BY PowerNext
  <2>4. IsFiniteSet(t) /\ t \subseteq Nat /\ k \in Nat \ t
    <3>1. IsFiniteSet(0..(k - 1))
      <4>1. 0 \in Int /\ k - 1 \in Int
        OBVIOUS
      <4> QED BY <4>1, FS_Interval, Zenon
    <3>2. t \subseteq Nat /\ k \in Nat \ t
      OBVIOUS
    <3> QED BY <3>1, <3>2, FS_Subset
  <2>5. CASE k \in s
    <3>1. s = t \cup {k}
      BY <2>1, <2>5
    <3>2. Number(s) = b + a
      BY <2>2, <2>3, <2>4, <3>1, NumberAdd
    <3> QED BY <2>2, <2>3, <3>2
  <2>6. CASE k \notin s
    <3>1. s = t
      BY <2>1, <2>6
    <3> QED BY <2>2, <2>3, <3>1
  <2> QED BY <2>5, <2>6
<1> HIDE DEF Right
<1>3. n \in Right
  BY <1>1, <1>2, EveryNumber
<1> QED BY <1>3 DEF Right

\* The g low bits of a word, and the others.
LowBits(S, g) == S \cap (0..(g - 1))

HighBits(S, g) == {b \in Nat : b + g \in S}

\* The low bits are the remainder, the high bits the quotient.
LEMMA NumberSplit ==
  ASSUME NEW g \in Nat, NEW n \in Nat, NEW S \in SUBSET (0..(n - 1))
  PROVE  Number(S) = Number(HighBits(S, g)) * 2^g + Number(LowBits(S, g))
<1> DEFINE Low(s) == s \cap (0..(g - 1))
           High(s) == {b \in Nat : b + g \in s}
           Right == {k \in Nat : \A s \in SUBSET (0..(k - 1)) :
                       Number(s) = Number(High(s)) * 2^g + Number(Low(s))}
<1>1. Number({}) = 0
  BY FS_EmptySet, NumberAdd
<1>2. PICK c \in Nat : c = 2^g
  BY PowerType
<1>3. 0 \in Right
  <2>1. \A s \in SUBSET (0..(0 - 1)) : s = {}
    OBVIOUS
  <2>2. Low({}) = {} /\ High({}) = {}
    OBVIOUS
  <2>3. 0 = 0 * c + 0
    OBVIOUS
  <2> HIDE DEF Low, High
  <2> QED BY <1>1, <1>2, <2>1, <2>2, <2>3
<1>4. ASSUME NEW k \in Nat, k \in Right PROVE k + 1 \in Right
  <2> SUFFICES ASSUME NEW s \in SUBSET (0..((k + 1) - 1))
               PROVE  Number(s) = Number(High(s)) * 2^g + Number(Low(s))
    BY DEF Right
  <2>1. PICK t \in SUBSET (0..(k - 1)) : t = s \ {k}
    <3>1. s \ {k} \subseteq 0..(k - 1)
      OBVIOUS
    <3> QED BY <3>1
  <2>2. Number(t) = Number(High(t)) * c + Number(Low(t))
    <3> HIDE DEF Low, High
    <3> QED BY <1>2, <1>4
  <2>3. ASSUME NEW r \in SUBSET (0..(k - 1))
        PROVE  IsFiniteSet(r) /\ r \subseteq Nat /\ k \notin r /\ Number(r) \in Nat
    <3>1. IsFiniteSet(0..(k - 1))
      <4>1. 0 \in Int /\ k - 1 \in Int
        OBVIOUS
      <4> QED BY <4>1, FS_Interval, Zenon
    <3>2. r \subseteq Nat /\ k \notin r
      OBVIOUS
    <3> QED BY <3>1, <3>2, FS_Subset, NumberBelow
  <2>4. Low(t) \in SUBSET (0..(k - 1)) /\ High(t) \in SUBSET (0..(k - 1))
    OBVIOUS
  <2>5. PICK a \in Nat, b \in Nat, d \in Nat :
          a = Number(t) /\ b = Number(High(t)) /\ d = Number(Low(t)) /\ a = b * c + d
    <3> HIDE DEF Low, High
    <3> QED BY <2>2, <2>3, <2>4
  <2>6. CASE k \notin s
    <3>1. s = t
      BY <2>1, <2>6
    <3> HIDE DEF Low, High
    <3> QED BY <1>2, <2>2, <3>1
  <2>7. CASE k \in s
    <3>1. s = t \cup {k}
      BY <2>1, <2>7
    <3>2. PICK p \in Nat : p = 2^k
      BY PowerType
    <3>3. Number(s) = p + a
      BY <2>3, <2>5, <3>1, <3>2, NumberAdd
    <3>4. CASE k < g
      <4>1. Low(s) = Low(t) \cup {k} /\ k \in Nat \ Low(t)
        BY <3>1, <3>4
      <4>2. High(s) = High(t)
        BY <3>1, <3>4
      <4> HIDE DEF Low, High
      <4>3. Number(Low(s)) = p + d
        BY <2>3, <2>4, <2>5, <3>2, <4>1, NumberAdd
      <4>4. Number(High(s)) = b
        BY <2>5, <4>2
      <4> QED BY <1>2, <2>5, <3>3, <4>3, <4>4
    <3>5. CASE k >= g
      <4>1. PICK j \in Nat : j = k - g /\ k = j + g
        BY <3>5
      <4>2. Low(s) = Low(t)
        BY <3>1, <3>5
      <4>3. High(s) = High(t) \cup {j} /\ j \in Nat \ High(t)
        BY <2>1, <3>1, <4>1
      <4>4. PICK e \in Nat : e = 2^j
        BY PowerType
      <4>5. p = e * c
        BY <1>2, <3>2, <4>1, <4>4, PowerSum
      <4> HIDE DEF Low, High
      <4>6. Number(High(s)) = e + b
        BY <2>3, <2>4, <2>5, <4>3, <4>4, NumberAdd
      <4>7. Number(Low(s)) = d
        BY <2>5, <4>2
      <4>8. (e + b) * c + d = e * c + (b * c + d)
        OBVIOUS
      <4> QED BY <1>2, <2>5, <3>3, <4>5, <4>6, <4>7, <4>8
    <3> QED BY <3>4, <3>5
  <2> QED BY <2>6, <2>7
<1> HIDE DEF Right
<1>5. n \in Right
  BY <1>3, <1>4, EveryNumber
<1>6. LowBits(S, g) = Low(S) /\ HighBits(S, g) = High(S)
  BY DEF LowBits, HighBits
<1> HIDE DEF Low, High
<1> QED BY <1>5, <1>6 DEF Right

-------------------------------------------------------------------------------
(* Sums over sets.                                                           *)

\* The sum of the numbers g of the elements of S.
Total(g, S) == (CHOOSE f : Sums(f, g, S))[S]

\* It is the value of a function that sums.
LEMMA TotalSums ==
  ASSUME NEW S, IsFiniteSet(S), NEW g \in [S -> Nat]
  PROVE  \E f : Sums(f, g, S) /\ Total(g, S) = f[S]
<1>1. \E f : Sums(f, g, S)
  BY SumsExist
<1>2. Sums(CHOOSE f : Sums(f, g, S), g, S)
  BY <1>1
<1> QED BY <1>2 DEF Total

\* Nothing sums up to nothing, and sums are natural numbers.
LEMMA TotalType ==
  ASSUME NEW S, IsFiniteSet(S), NEW g \in [S -> Nat]
  PROVE  Total(g, S) \in Nat /\ (S = {} => Total(g, S) = 0)
<1>1. PICK f : Sums(f, g, S) /\ Total(g, S) = f[S]
  BY TotalSums
<1>2. S \in SUBSET S
  OBVIOUS
<1>3. f[{}] = 0 /\ f[S] \in Nat
  BY <1>1, <1>2, SumsAny
<1> QED BY <1>1, <1>3

\* One element more.
LEMMA TotalAdd ==
  ASSUME NEW S, IsFiniteSet(S), NEW x, x \notin S,
         NEW g \in [S -> Nat], NEW h \in [S \cup {x} -> Nat], \A y \in S : g[y] = h[y]
  PROVE  Total(h, S \cup {x}) = h[x] + Total(g, S)
<1>1. PICK f : Sums(f, g, S) /\ Total(g, S) = f[S]
  BY TotalSums
<1>2. PICK T : T = S \cup {x}
  OBVIOUS
<1>3. IsFiniteSet(T) /\ h \in [T -> Nat]
  BY <1>2, FS_AddElement
<1>4. PICK e : Sums(e, h, T) /\ Total(h, T) = e[T]
  BY <1>3, TotalSums
<1>5. T \in SUBSET T /\ x \in T /\ T \ {x} = S /\ S \in SUBSET T
  BY <1>2
<1>6. e[T] = h[x] + e[T \ {x}]
  BY <1>3, <1>4, <1>5, SumsAny
<1>7. f[S] = e[S]
  <2>1. /\ IsFiniteSet(T) /\ S \in SUBSET T /\ g \in [S -> Nat] /\ h \in [T -> Nat]
        /\ (\A y \in S : g[y] = h[y]) /\ Sums(f, g, S) /\ Sums(e, h, T)
    BY <1>1, <1>3, <1>4, <1>5
  <2> QED BY ONLY <2>1, SumsSame
<1> QED BY <1>1, <1>2, <1>4, <1>5, <1>6, <1>7

\* The numbers of the elements of a part of S.
Part(g, S) == [x \in S |-> g[x]]

\* What holds of the empty set, and of a set with one element more, holds of every
\* finite set.
LEMMA EveryPart ==
  ASSUME NEW T, IsFiniteSet(T), NEW Right \in SUBSET (SUBSET T), {} \in Right,
         \A S \in SUBSET T : \A x \in T \ S : S \in Right => S \cup {x} \in Right
  PROVE  T \in Right
<1> DEFINE Counted == {n \in Nat : \A S \in SUBSET T : Cardinality(S) = n => S \in Right}
<1>1. \A S \in SUBSET T : IsFiniteSet(S) /\ Cardinality(S) \in Nat
  BY FS_Subset, FS_CardinalityType
<1>2. 0 \in Counted
  BY <1>1, FS_EmptySet
<1>3. ASSUME NEW n \in Nat, n \in Counted PROVE n + 1 \in Counted
  <2> SUFFICES ASSUME NEW S \in SUBSET T, Cardinality(S) = n + 1 PROVE S \in Right
    OBVIOUS
  <2>1. S # {}
    BY <1>1, FS_EmptySet
  <2>2. PICK x \in S : TRUE
    BY <2>1
  <2>3. S \ {x} \in SUBSET T /\ x \in T \ (S \ {x}) /\ (S \ {x}) \cup {x} = S
    BY <2>2
  <2>4. Cardinality(S \ {x}) = n
    <3>1. Cardinality(S \ {x}) = Cardinality(S) - 1
      BY <1>1, <2>2, FS_RemoveElement
    <3> QED BY <3>1
  <2>5. S \ {x} \in Right
    BY <1>3, <2>3, <2>4
  <2> QED BY <2>3, <2>5
<1> HIDE DEF Counted
<1>4. Cardinality(T) \in Counted
  BY <1>1, <1>2, <1>3, EveryNumber
<1> QED BY <1>4 DEF Counted

\* The sum of two numbers for every element.
AddsUp(e, g, h, T) == \A x \in T : e[x] = g[x] + h[x]

\* A sum of sums is the sum of both.
LEMMA TotalPlus ==
  ASSUME NEW T, IsFiniteSet(T), NEW g \in [T -> Nat], NEW h \in [T -> Nat],
         NEW e \in [T -> Nat], AddsUp(e, g, h, T)
  PROVE  Total(e, T) = Total(g, T) + Total(h, T)
<1> DEFINE Right == {S \in SUBSET T :
                       Total(Part(e, S), S) = Total(Part(g, S), S) + Total(Part(h, S), S)}
<1>1. ASSUME NEW S \in SUBSET T
      PROVE  /\ IsFiniteSet(S)
             /\ Part(e, S) \in [S -> Nat] /\ Part(g, S) \in [S -> Nat]
             /\ Part(h, S) \in [S -> Nat]
  BY FS_Subset DEF Part
<1>2. {} \in Right
  <2>1. /\ Total(Part(e, {}), {}) = 0 /\ Total(Part(g, {}), {}) = 0
        /\ Total(Part(h, {}), {}) = 0
    BY <1>1, TotalType
  <2> QED BY <2>1
<1>3. ASSUME NEW S \in SUBSET T, NEW x \in T \ S, S \in Right PROVE S \cup {x} \in Right
  <2>1. PICK R \in SUBSET T : R = S \cup {x}
    OBVIOUS
  <2>2. ASSUME NEW k \in [T -> Nat]
        PROVE  /\ Total(Part(k, R), R) = k[x] + Total(Part(k, S), S)
               /\ Total(Part(k, S), S) \in Nat /\ k[x] \in Nat
    <3>1. /\ IsFiniteSet(S) /\ x \notin S
          /\ Part(k, S) \in [S -> Nat] /\ Part(k, R) \in [S \cup {x} -> Nat]
          /\ \A y \in S : Part(k, S)[y] = Part(k, R)[y]
          /\ Part(k, R)[x] = k[x] /\ k[x] \in Nat
      BY <1>1, <2>1 DEF Part
    <3>2. Total(Part(k, R), S \cup {x}) = Part(k, R)[x] + Total(Part(k, S), S)
      BY <3>1, TotalAdd
    <3> QED BY <2>1, <3>1, <3>2, TotalType
  <2>3. e[x] = g[x] + h[x]
    BY DEF AddsUp
  <2>4. Total(Part(e, S), S) = Total(Part(g, S), S) + Total(Part(h, S), S)
    BY <1>3
  <2>5. Total(Part(e, R), R) = e[x] + Total(Part(e, S), S) /\ e[x] \in Nat
    BY <2>2
  <2>6. /\ Total(Part(g, R), R) = g[x] + Total(Part(g, S), S)
        /\ Total(Part(g, S), S) \in Nat /\ g[x] \in Nat
    BY <2>2
  <2>7. /\ Total(Part(h, R), R) = h[x] + Total(Part(h, S), S)
        /\ Total(Part(h, S), S) \in Nat /\ h[x] \in Nat
    BY <2>2
  <2>8. Total(Part(e, R), R) = Total(Part(g, R), R) + Total(Part(h, R), R)
    BY <2>3, <2>4, <2>5, <2>6, <2>7
  <2> QED BY <2>1, <2>8
<1> HIDE DEF Right
<1>4. T \in Right
  <2>1. Right \in SUBSET (SUBSET T)
    BY DEF Right
  <2> QED BY <1>2, <1>3, <2>1, EveryPart
<1>5. Part(e, T) = e /\ Part(g, T) = g /\ Part(h, T) = h
  BY DEF Part
<1> QED BY <1>4, <1>5 DEF Right

\* A sum in which only one element counts.
LEMMA TotalOne ==
  ASSUME NEW T, IsFiniteSet(T), NEW x \in T, NEW v \in Nat, NEW g \in [T -> Nat],
         g[x] = v, \A y \in T \ {x} : g[y] = 0
  PROVE  Total(g, T) = v
<1> DEFINE Right == {S \in SUBSET T : Total(Part(g, S), S) = IF x \in S THEN v ELSE 0}
<1>1. ASSUME NEW S \in SUBSET T
      PROVE  IsFiniteSet(S) /\ Part(g, S) \in [S -> Nat]
  BY FS_Subset DEF Part
<1>2. {} \in Right
  <2>1. Total(Part(g, {}), {}) = 0
    BY <1>1, TotalType
  <2> QED BY <2>1
<1>3. ASSUME NEW S \in SUBSET T, NEW y \in T \ S, S \in Right PROVE S \cup {y} \in Right
  <2>1. PICK R \in SUBSET T : R = S \cup {y}
    OBVIOUS
  <2>2. /\ Total(Part(g, R), R) = g[y] + Total(Part(g, S), S)
        /\ g[y] \in Nat
    <3>1. /\ IsFiniteSet(S) /\ y \notin S
          /\ Part(g, S) \in [S -> Nat] /\ Part(g, R) \in [S \cup {y} -> Nat]
          /\ \A z \in S : Part(g, S)[z] = Part(g, R)[z]
          /\ Part(g, R)[y] = g[y] /\ g[y] \in Nat
      BY <1>1, <2>1 DEF Part
    <3>2. Total(Part(g, R), S \cup {y}) = Part(g, R)[y] + Total(Part(g, S), S)
      BY <3>1, TotalAdd
    <3> QED BY <2>1, <3>1, <3>2
  <2>3. Total(Part(g, S), S) = IF x \in S THEN v ELSE 0
    BY <1>3
  <2>4. CASE y = x
    <3>1. g[y] = v /\ x \notin S /\ x \in R
      BY <2>1, <2>4
    <3>2. Total(Part(g, R), R) = v
      BY <2>2, <2>3, <3>1
    <3> QED BY <2>1, <3>1, <3>2
  <2>5. CASE y # x
    <3>1. g[y] = 0 /\ (x \in R <=> x \in S)
      BY <2>1, <2>5
    <3>2. Total(Part(g, R), R) = IF x \in S THEN v ELSE 0
      BY <2>2, <2>3, <3>1
    <3> QED BY <2>1, <3>1, <3>2
  <2> QED BY <2>4, <2>5
<1> HIDE DEF Right
<1>4. T \in Right
  <2>1. Right \in SUBSET (SUBSET T)
    BY DEF Right
  <2> QED BY <1>2, <1>3, <2>1, EveryPart
<1>5. Part(g, T) = g
  BY DEF Part
<1> QED BY <1>4, <1>5 DEF Right

\* The places of 1..n where c is k.
PlacesOf(c, n, k) == {i \in 1..n : c[i] = k}

\* The places of a value are finitely many; one place more adds one or none.
LEMMA PlacesType ==
  ASSUME NEW n \in Nat, NEW c, NEW k
  PROVE  /\ IsFiniteSet(PlacesOf(c, n, k)) /\ Cardinality(PlacesOf(c, n, k)) \in Nat
         /\ Cardinality(PlacesOf(c, n + 1, k)) =
              Cardinality(PlacesOf(c, n, k)) + (IF c[n + 1] = k THEN 1 ELSE 0)
<1>1. IsFiniteSet(PlacesOf(c, n, k)) /\ Cardinality(PlacesOf(c, n, k)) \in Nat
  <2>1. IsFiniteSet(1..n)
    BY FS_Interval
  <2>2. PlacesOf(c, n, k) \subseteq 1..n
    BY DEF PlacesOf
  <2> QED BY <2>1, <2>2, FS_Subset, FS_CardinalityType
<1>2. CASE c[n + 1] = k
  <2>1. PlacesOf(c, n + 1, k) = PlacesOf(c, n, k) \cup {n + 1} /\ n + 1 \notin PlacesOf(c, n, k)
    BY <1>2 DEF PlacesOf
  <2>2. Cardinality(PlacesOf(c, n + 1, k)) = Cardinality(PlacesOf(c, n, k)) + 1
    BY <1>1, <2>1, FS_AddElement
  <2> QED BY <1>1, <1>2, <2>2
<1>3. CASE c[n + 1] # k
  <2>1. PlacesOf(c, n + 1, k) = PlacesOf(c, n, k)
    BY <1>3 DEF PlacesOf
  <2> QED BY <1>1, <1>3, <2>1
<1> QED BY <1>1, <1>2, <1>3

\* A sum of w over the values of c, taken place by place or value by value.
SumTwoWays(T, w, len, c, g, e) ==
  /\ IsFiniteSet(T) /\ w \in [T -> Nat] /\ len \in Nat /\ c \in [1..len -> T]
  /\ g \in [T -> Nat] /\ \A k \in T : g[k] = w[k] * Cardinality(PlacesOf(c, len, k))
  /\ e \in [1..len -> Nat] /\ \A i \in 1..len : e[i] = w[c[i]]

\* A sum over places is a sum over values, each as often as it has places.
LEMMA TotalTwoWays ==
  ASSUME NEW T, IsFiniteSet(T), NEW w \in [T -> Nat], NEW len \in Nat,
         NEW c \in [1..len -> T], NEW g, NEW e, SumTwoWays(T, w, len, c, g, e)
  PROVE  Total(g, T) = Total(e, 1..len)
<1> DEFINE byValue(n) == [k \in T |-> w[k] * Cardinality(PlacesOf(c, n, k))]
           byPlace(n) == [i \in 1..n |-> w[c[i]]]
           Right == {n \in Nat : n <= len => Total(byValue(n), T) = Total(byPlace(n), 1..n)}
<1>1. ASSUME NEW n \in Nat PROVE byValue(n) \in [T -> Nat]
  BY PlacesType
<1>2. ASSUME NEW n \in Nat, n <= len
      PROVE  byPlace(n) \in [1..n -> Nat] /\ IsFiniteSet(1..n)
  <2>1. IsFiniteSet(1..n)
    BY FS_Interval
  <2>2. \A i \in 1..n : i \in 1..len
    BY <1>2
  <2> QED BY <2>1, <2>2
<1>3. 0 \in Right
  <2>1. Total(byPlace(0), 1..0) = 0
    <3>1. 1..0 = {}
      OBVIOUS
    <3>2. byPlace(0) \in [{} -> Nat] /\ IsFiniteSet({})
      BY <3>1, FS_EmptySet
    <3> HIDE DEF byPlace
    <3> QED BY <3>1, <3>2, TotalType
  <2>2. Total(byValue(0), T) = 0
    <3>1. ASSUME NEW k \in T PROVE byValue(0)[k] = 0
      <4>1. PlacesOf(c, 0, k) = {}
        BY DEF PlacesOf
      <4>2. Cardinality(PlacesOf(c, 0, k)) = 0
        BY <4>1, FS_EmptySet
      <4> QED BY <4>2
    <3>2. CASE T = {}
      BY <1>1, <3>2, TotalType
    <3>3. CASE T # {}
      <4>1. PICK x \in T : TRUE
        BY <3>3
      <4>2. byValue(0) \in [T -> Nat] /\ byValue(0)[x] = 0 /\ \A y \in T \ {x} : byValue(0)[y] = 0
        BY <1>1, <3>1
      <4> HIDE DEF byValue
      <4> QED BY <4>2, TotalOne
    <3> QED BY <3>2, <3>3
  <2> QED BY <2>1, <2>2
<1>4. ASSUME NEW n \in Nat, n \in Right PROVE n + 1 \in Right
  <2> SUFFICES ASSUME n + 1 <= len PROVE Total(byValue(n + 1), T) = Total(byPlace(n + 1), 1..(n + 1))
    OBVIOUS
  <2>1. Total(byValue(n), T) = Total(byPlace(n), 1..n)
    BY <1>4
  <2>2. n + 1 \in 1..len /\ c[n + 1] \in T /\ w[c[n + 1]] \in Nat
    <3>1. n + 1 \in 1..len
      OBVIOUS
    <3> QED BY <3>1
  <2>3. Total(byPlace(n + 1), 1..(n + 1)) = w[c[n + 1]] + Total(byPlace(n), 1..n)
    <3>1. 1..(n + 1) = (1..n) \cup {n + 1} /\ n + 1 \notin 1..n
      OBVIOUS
    <3>2. /\ byPlace(n + 1) \in [(1..n) \cup {n + 1} -> Nat] /\ byPlace(n) \in [1..n -> Nat]
          /\ IsFiniteSet(1..n)
      BY <1>2, <3>1
    <3>3. (\A i \in 1..n : byPlace(n)[i] = byPlace(n + 1)[i]) /\ byPlace(n + 1)[n + 1] = w[c[n + 1]]
      OBVIOUS
    <3> HIDE DEF byPlace
    <3>4. Total(byPlace(n + 1), (1..n) \cup {n + 1}) = byPlace(n + 1)[n + 1] + Total(byPlace(n), 1..n)
      <4>1. PICK S, x, a, b : S = 1..n /\ x = n + 1 /\ a = byPlace(n) /\ b = byPlace(n + 1)
        OBVIOUS
      <4>2. /\ IsFiniteSet(S) /\ x \notin S /\ a \in [S -> Nat]
            /\ b \in [S \cup {x} -> Nat] /\ \A y \in S : a[y] = b[y]
        BY <3>1, <3>2, <3>3, <4>1
      <4>3. Total(b, S \cup {x}) = b[x] + Total(a, S)
        BY ONLY <4>2, TotalAdd
      <4> QED BY <4>1, <4>3
    <3> QED BY <3>1, <3>3, <3>4
  <2> DEFINE one == [k \in T |-> IF k = c[n + 1] THEN w[k] ELSE 0]
  <2>4. Total(one, T) = w[c[n + 1]]
    <3>1. /\ one \in [T -> Nat] /\ one[c[n + 1]] = w[c[n + 1]]
          /\ \A y \in T \ {c[n + 1]} : one[y] = 0
      BY <2>2
    <3> HIDE DEF one
    <3> QED BY <2>2, <3>1, TotalOne
  <2>5. Total(byValue(n + 1), T) = Total(byValue(n), T) + Total(one, T)
    <3>1. ASSUME NEW k \in T PROVE byValue(n + 1)[k] = byValue(n)[k] + one[k]
      <4>1. PICK m \in Nat : m = Cardinality(PlacesOf(c, n, k))
        BY PlacesType
      <4>2. PICK a \in Nat : a = w[k]
        OBVIOUS
      <4>3. byValue(n)[k] = a * m
        BY <4>1, <4>2
      <4>4. CASE c[n + 1] = k
        <5>1. Cardinality(PlacesOf(c, n + 1, k)) = m + 1
          BY <4>1, <4>4, PlacesType
        <5>2. byValue(n + 1)[k] = a * (m + 1) /\ one[k] = a
          BY <4>2, <4>4, <5>1
        <5> QED BY <4>1, <4>2, <4>3, <5>2
      <4>5. CASE c[n + 1] # k
        <5>1. Cardinality(PlacesOf(c, n + 1, k)) = m + 0
          BY <4>1, <4>5, PlacesType
        <5>2. byValue(n + 1)[k] = a * m /\ one[k] = 0
          BY <4>1, <4>2, <4>5, <5>1
        <5>3. a * m \in Nat
          OBVIOUS
        <5> QED BY <4>3, <5>2, <5>3
      <4> QED BY <4>4, <4>5
    <3>2. one \in [T -> Nat]
      BY <2>2
    <3> HIDE DEF byValue, one
    <3>3. PICK a, b, d : a = byValue(n) /\ b = one /\ d = byValue(n + 1)
      OBVIOUS
    <3>4. /\ IsFiniteSet(T) /\ a \in [T -> Nat] /\ b \in [T -> Nat] /\ d \in [T -> Nat]
          /\ AddsUp(d, a, b, T)
      <4>1. n + 1 \in Nat
        OBVIOUS
      <4>2. AddsUp(d, a, b, T)
        BY <3>1, <3>3 DEF AddsUp
      <4> QED BY <1>1, <3>2, <3>3, <4>1, <4>2
    <3>5. Total(d, T) = Total(a, T) + Total(b, T)
      <4>1. /\ IsFiniteSet(T) /\ a \in [T -> Nat] /\ b \in [T -> Nat] /\ d \in [T -> Nat]
            /\ AddsUp(d, a, b, T)
        BY <3>4
      <4>2. IsFiniteSet(T)
        OBVIOUS
      <4>3. \A x, y, z \in [T -> Nat] :
              AddsUp(z, x, y, T) => Total(z, T) = Total(x, T) + Total(y, T)
        BY ONLY <4>2, TotalPlus
      <4> QED BY ONLY <4>1, <4>3, Zenon
    <3> QED BY <3>3, <3>5
  <2>6. Total(byValue(n), T) \in Nat
    <3>1. byValue(n) \in [T -> Nat]
      BY <1>1
    <3> HIDE DEF byValue
    <3> QED BY <3>1, TotalType
  <2> HIDE DEF byValue, byPlace, one
  <2> QED BY <2>1, <2>2, <2>3, <2>4, <2>5, <2>6
<1> HIDE DEF Right
<1>5. len \in Right
  BY <1>3, <1>4, EveryNumber
<1>6. Total(byValue(len), T) = Total(byPlace(len), 1..len)
  <2> HIDE DEF byValue, byPlace
  <2> QED BY <1>5 DEF Right
<1>7. g = byValue(len)
  BY DEF SumTwoWays
<1>8. e = byPlace(len)
  BY DEF SumTwoWays
<1> HIDE DEF byValue, byPlace
<1> QED BY <1>6, <1>7, <1>8

\* The same, as the predicate states it.
LEMMA TotalByValue ==
  ASSUME NEW T, NEW w, NEW len, NEW c, NEW g, NEW e, SumTwoWays(T, w, len, c, g, e)
  PROVE  Total(g, T) = Total(e, 1..len)
<1>1. IsFiniteSet(T) /\ w \in [T -> Nat] /\ len \in Nat /\ c \in [1..len -> T]
  BY DEF SumTwoWays
<1> QED BY <1>1, TotalTwoWays

\* How many places have a value up to b, counted value by value.
Counts(g, c, len, b) ==
  g \in [0..b -> Nat] /\ \A k \in 0..b : g[k] = Cardinality(PlacesOf(c, len, k))

\* As many places hold a number up to b as the numbers up to b have places.
LEMMA TotalUpTo ==
  ASSUME NEW len \in Nat, NEW c \in [1..len -> Nat], NEW b \in Nat,
         NEW g, Counts(g, c, len, b)
  PROVE  Total(g, 0..b) = Cardinality({i \in 1..len : c[i] <= b})
<1> DEFINE counts(n) == [k \in 0..n |-> Cardinality(PlacesOf(c, len, k))]
           Low(n) == {i \in 1..len : c[i] <= n}
           Right == {n \in Nat : Total(counts(n), 0..n) = Cardinality(Low(n))}
<1>1. ASSUME NEW n \in Nat
      PROVE  counts(n) \in [0..n -> Nat] /\ IsFiniteSet(0..n) /\ IsFiniteSet(Low(n))
  <2>1. IsFiniteSet(0..n) /\ IsFiniteSet(1..len)
    <3>1. 0 \in Int /\ 1 \in Int /\ n \in Int /\ len \in Int
      OBVIOUS
    <3> QED BY <3>1, FS_Interval, Zenon
  <2>2. Low(n) \subseteq 1..len
    OBVIOUS
  <2>3. IsFiniteSet(Low(n))
    BY <2>1, <2>2, FS_Subset
  <2> QED BY <2>1, <2>3, PlacesType
<1>2. 0 \in Right
  <2>1. 0..0 = {} \cup {0} /\ 0 \notin {}
    OBVIOUS
  <2>2. Total(<<>>, {}) = 0 /\ <<>> \in [{} -> Nat] /\ IsFiniteSet({})
    <3>1. <<>> \in [{} -> Nat] /\ IsFiniteSet({})
      BY FS_EmptySet
    <3> QED BY <3>1, TotalType
  <2>3. counts(0) \in [{} \cup {0} -> Nat] /\ counts(0)[0] = Cardinality(PlacesOf(c, len, 0))
    BY <1>1, <2>1
  <2>4. Low(0) = PlacesOf(c, len, 0)
    BY DEF PlacesOf
  <2>5. counts(0)[0] \in Nat
    BY <2>3
  <2> HIDE DEF counts, Low
  <2>6. Total(counts(0), {} \cup {0}) = counts(0)[0] + Total(<<>>, {})
    <3>1. PICK S, x, a, d : S = {} /\ x = 0 /\ a = <<>> /\ d = counts(0)
      OBVIOUS
    <3>2. /\ IsFiniteSet(S) /\ x \notin S /\ a \in [S -> Nat]
          /\ d \in [S \cup {x} -> Nat] /\ \A y \in S : a[y] = d[y]
      BY <2>1, <2>2, <2>3, <3>1
    <3>3. Total(d, S \cup {x}) = d[x] + Total(a, S)
      BY ONLY <3>2, TotalAdd
    <3> QED BY <3>1, <3>3
  <2>7. Total(counts(0), 0..0) = Cardinality(Low(0))
    BY <2>1, <2>2, <2>3, <2>4, <2>5, <2>6
  <2> QED BY <2>7
<1>3. ASSUME NEW n \in Nat, n \in Right PROVE n + 1 \in Right
  <2>1. Total(counts(n), 0..n) = Cardinality(Low(n))
    BY <1>3
  <2>2. 0..(n + 1) = (0..n) \cup {n + 1} /\ n + 1 \notin 0..n
    OBVIOUS
  <2>3. /\ counts(n + 1) \in [(0..n) \cup {n + 1} -> Nat] /\ counts(n) \in [0..n -> Nat]
        /\ IsFiniteSet(0..n) /\ IsFiniteSet(Low(n))
    <3>1. n + 1 \in Nat
      OBVIOUS
    <3> HIDE DEF counts, Low
    <3> QED BY <1>1, <2>2, <3>1
  <2>4. /\ \A k \in 0..n : counts(n)[k] = counts(n + 1)[k]
        /\ counts(n + 1)[n + 1] = Cardinality(PlacesOf(c, len, n + 1))
    OBVIOUS
  <2>5. /\ Low(n + 1) = Low(n) \cup PlacesOf(c, len, n + 1)
        /\ Low(n) \cap PlacesOf(c, len, n + 1) = {}
    BY DEF PlacesOf
  <2>6. IsFiniteSet(PlacesOf(c, len, n + 1))
    BY PlacesType
  <2> HIDE DEF counts, Low
  <2>7. Total(counts(n + 1), (0..n) \cup {n + 1}) = counts(n + 1)[n + 1] + Total(counts(n), 0..n)
    BY <2>2, <2>3, <2>4, TotalAdd, ZenonT(30)
  <2>8. /\ Cardinality(Low(n + 1)) = Cardinality(Low(n)) + Cardinality(PlacesOf(c, len, n + 1))
                                      - Cardinality({})
        /\ Cardinality({}) = 0
        /\ Cardinality(Low(n)) \in Nat /\ Cardinality(PlacesOf(c, len, n + 1)) \in Nat
    <3>1. Cardinality(Low(n + 1)) = Cardinality(Low(n)) + Cardinality(PlacesOf(c, len, n + 1))
            - Cardinality(Low(n) \cap PlacesOf(c, len, n + 1))
      BY <2>3, <2>5, <2>6, FS_Union
    <3> QED BY <2>3, <2>5, <2>6, <3>1, FS_EmptySet, FS_CardinalityType
  <2>9. Total(counts(n + 1), 0..(n + 1)) = Cardinality(Low(n + 1))
    <3>1. PICK t, u, l, p : /\ t = Total(counts(n + 1), 0..(n + 1)) /\ u = Total(counts(n), 0..n)
                            /\ l = Cardinality(Low(n))
                            /\ p = Cardinality(PlacesOf(c, len, n + 1))
      OBVIOUS
    <3>2. t = p + u /\ u = l /\ l \in Nat /\ p \in Nat
      BY <2>1, <2>2, <2>4, <2>7, <2>8, <3>1
    <3>3. Cardinality(Low(n + 1)) = l + p
      BY <2>8, <3>1
    <3> QED BY <3>1, <3>2, <3>3
  <2> QED BY <2>9
<1> HIDE DEF Right
<1>4. b \in Right
  BY <1>2, <1>3, EveryNumber
<1>5. Total(counts(b), 0..b) = Cardinality(Low(b))
  <2> HIDE DEF counts, Low
  <2> QED BY <1>4 DEF Right
<1>6. g = counts(b)
  BY DEF Counts
<1> HIDE DEF counts
<1> QED BY <1>5, <1>6

-------------------------------------------------------------------------------
(* Bits of numbers.                                                         *)

\* A bit of the number that a word stands for.
LEMMA NumberBit ==
  ASSUME NEW n \in Nat, NEW S \in SUBSET (0..(n - 1)), NEW k \in Nat
  PROVE  /\ Number(S) \div 2^k = Number(HighBits(S, k))
         /\ Number(S) % 2^k = Number(LowBits(S, k))
         /\ (Number(S) \div 2^k) % 2 = 1 <=> k \in S
<1>1. ASSUME NEW T \in SUBSET (0..(n - 1)), NEW j \in Nat
      PROVE  /\ HighBits(T, j) \in SUBSET (0..(n - 1))
             /\ LowBits(T, j) \in SUBSET (0..(j - 1))
             /\ Number(T) \div 2^j = Number(HighBits(T, j))
             /\ Number(T) % 2^j = Number(LowBits(T, j))
             /\ Number(LowBits(T, j)) \in Nat /\ Number(HighBits(T, j)) \in Nat
  <2>1. HighBits(T, j) \in SUBSET (0..(n - 1)) /\ LowBits(T, j) \in SUBSET (0..(j - 1))
    BY DEF HighBits, LowBits
  <2>2. Number(T) = Number(HighBits(T, j)) * 2^j + Number(LowBits(T, j))
    BY NumberSplit
  <2>3. Number(LowBits(T, j)) \in Nat /\ Number(LowBits(T, j)) < 2^j
    BY <2>1, NumberBelow
  <2>4. Number(HighBits(T, j)) \in Nat
    BY <2>1, NumberBelow
  <2>5. PICK q \in Nat, r \in Nat, c \in Nat \ {0} :
          q = Number(HighBits(T, j)) /\ r = Number(LowBits(T, j)) /\ c = 2^j
    BY <2>3, <2>4, PowerType
  <2>6. r \in 0..(c - 1) /\ Number(T) = q * c + r
    BY <2>2, <2>3, <2>5
  <2>7. (q * c + r) \div c = q /\ (q * c + r) % c = r
    BY <2>6, DivisionUnique
  <2> QED BY <2>1, <2>3, <2>4, <2>5, <2>6, <2>7
<1>2. PICK H \in SUBSET (0..(n - 1)) : H = HighBits(S, k)
  BY <1>1
<1>3. Number(H) % 2^1 = Number(LowBits(H, 1))
  <2>1. 1 \in Nat
    OBVIOUS
  <2> QED BY <1>1, <2>1
<1>4. 2^1 = 2
  <2>1. 2^(0 + 1) = 2 * 2^0
    BY PowerNext
  <2> QED BY <2>1, PowerZero
<1>5. k \in S <=> 0 \in H
  BY <1>2 DEF HighBits
<1>6. /\ 0 \in H => LowBits(H, 1) = {} \cup {0}
      /\ 0 \notin H => LowBits(H, 1) = {}
  BY DEF LowBits
<1>7. Number({}) = 0 /\ Number({} \cup {0}) = 1
  <2>1. IsFiniteSet({}) /\ {} \subseteq Nat /\ 0 \in Nat \ {}
    BY FS_EmptySet
  <2>2. Number({}) = 0 /\ Number({} \cup {0}) = 2^0 + Number({})
    BY <2>1, NumberAdd
  <2> QED BY <2>2, PowerZero
<1>8. k \in S => Number(H) % 2 = 1
  BY <1>3, <1>4, <1>5, <1>6, <1>7
<1>9. k \notin S => Number(H) % 2 = 0
  BY <1>3, <1>4, <1>5, <1>6, <1>7
<1>10. /\ Number(S) \div 2^k = Number(HighBits(S, k))
       /\ Number(S) % 2^k = Number(LowBits(S, k))
  BY <1>1
<1> HIDE DEF HighBits
<1> QED BY <1>2, <1>8, <1>9, <1>10

\* Every number of n bits stands for a word, and for one only.
LEMMA NumberOfBits ==
  ASSUME NEW n \in Nat, NEW u \in Nat, u < 2^n
  PROVE  \E S \in SUBSET (0..(n - 1)) : Number(S) = u
<1> DEFINE Right == {k \in Nat : \A v \in Nat :
                       v < 2^k => \E S \in SUBSET (0..(k - 1)) : Number(S) = v}
<1>1. 0 \in Right
  <2> SUFFICES ASSUME NEW v \in Nat, v < 2^0
               PROVE  \E S \in SUBSET (0..(0 - 1)) : Number(S) = v
    OBVIOUS
  <2>1. v = 0
    BY PowerZero
  <2>2. Number({}) = 0
    BY FS_EmptySet, NumberAdd
  <2> QED BY <2>1, <2>2
<1>2. ASSUME NEW k \in Nat, k \in Right PROVE k + 1 \in Right
  <2> SUFFICES ASSUME NEW v \in Nat, v < 2^(k + 1)
               PROVE  \E S \in SUBSET (0..((k + 1) - 1)) : Number(S) = v
    OBVIOUS
  <2>1. PICK c \in Nat \ {0} : c = 2^k /\ 2^(k + 1) = 2 * c
    BY PowerNext
  <2>2. CASE v < c
    <3>1. PICK S \in SUBSET (0..(k - 1)) : Number(S) = v
      BY <1>2, <2>1, <2>2
    <3>2. S \in SUBSET (0..((k + 1) - 1))
      OBVIOUS
    <3> QED BY <3>1, <3>2
  <2>3. CASE v >= c
    <3>1. v - c \in Nat /\ v - c < 2^k
      BY <2>1, <2>3
    <3>2. PICK S \in SUBSET (0..(k - 1)) : Number(S) = v - c
      BY <1>2, <3>1
    <3>3. IsFiniteSet(S) /\ S \subseteq Nat /\ k \in Nat \ S
      <4>1. IsFiniteSet(0..(k - 1))
        <5>1. 0 \in Int /\ k - 1 \in Int
          OBVIOUS
        <5> QED BY <5>1, FS_Interval, Zenon
      <4>2. IsFiniteSet(S)
        BY <4>1, FS_Subset
      <4> QED BY <4>2
    <3>4. Number(S \cup {k}) = 2^k + Number(S)
      BY <3>3, NumberAdd
    <3>5. S \cup {k} \in SUBSET (0..((k + 1) - 1))
      OBVIOUS
    <3>6. Number(S \cup {k}) = v
      BY <2>1, <3>2, <3>4
    <3> QED BY <3>5, <3>6
  <2> QED BY <2>1, <2>2, <2>3
<1> HIDE DEF Right
<1>3. n \in Right
  BY <1>1, <1>2, EveryNumber
<1> QED BY <1>3 DEF Right

-------------------------------------------------------------------------------
(* Sequences of sequences.                                                   *)

\* f is the function that FlattenSeq defines on the first len of the sequences.
FlattenOf(f, seqs, len) ==
  f = [i \in 1..len |-> IF i = 1 THEN seqs[i] ELSE f[i - 1] \o seqs[i]]

\* There is one.
LEMMA FlattenExists ==
  ASSUME NEW seqs, NEW len \in Nat
  PROVE  \E f : FlattenOf(f, seqs, len)
<1> DEFINE Defined == {k \in Nat : \E f : FlattenOf(f, seqs, k)}
<1>1. 0 \in Defined
  <2>1. FlattenOf(<<>>, seqs, 0)
    BY DEF FlattenOf
  <2> QED BY <2>1
<1>2. ASSUME NEW k \in Nat, k \in Defined PROVE k + 1 \in Defined
  <2>1. PICK f : FlattenOf(f, seqs, k)
    BY <1>2
  <2> DEFINE g == [i \in 1..(k + 1) |-> IF i = 1 THEN seqs[i] ELSE f[i - 1] \o seqs[i]]
  <2>2. ASSUME NEW i \in 1..k PROVE g[i] = f[i]
    <3>1. f = [j \in 1..k |-> IF j = 1 THEN seqs[j] ELSE f[j - 1] \o seqs[j]]
      BY <2>1 DEF FlattenOf
    <3>2. f[i] = IF i = 1 THEN seqs[i] ELSE f[i - 1] \o seqs[i]
      BY <3>1
    <3>3. i \in 1..(k + 1)
      OBVIOUS
    <3> QED BY <3>2, <3>3
  <2>3. ASSUME NEW i \in 1..(k + 1)
        PROVE  g[i] = IF i = 1 THEN seqs[i] ELSE g[i - 1] \o seqs[i]
    <3>1. i # 1 => i - 1 \in 1..k
      OBVIOUS
    <3>2. g[i] = IF i = 1 THEN seqs[i] ELSE f[i - 1] \o seqs[i]
      OBVIOUS
    <3> HIDE DEF g
    <3> QED BY <2>2, <3>1, <3>2
  <2>4. g = [i \in 1..(k + 1) |-> g[i]]
    OBVIOUS
  <2> HIDE DEF g
  <2>5. FlattenOf(g, seqs, k + 1)
    BY <2>3, <2>4 DEF FlattenOf
  <2> QED BY <2>5
<1> HIDE DEF Defined
<1>3. Nat \subseteq Defined
  BY <1>1, <1>2, EveryNumber
<1> QED BY <1>3 DEF Defined

\* The first i of the sequences, one behind the other, are f[i].
Flattened(f, seqs, S) ==
  /\ f \in [0..Len(seqs) -> Seq(S)]
  /\ f[0] = <<>>
  /\ \A i \in 1..Len(seqs) : f[i] = f[i - 1] \o seqs[i]
  /\ FlattenSeq(seqs) = f[Len(seqs)]

\* FlattenSeq is a function of the first sequences.
LEMMA FlattenFacts ==
  ASSUME NEW S, NEW seqs \in Seq(Seq(S))
  PROVE  \E f : Flattened(f, seqs, S)
<1>1. CASE Len(seqs) = 0
  <2>1. seqs = <<>> /\ FlattenSeq(seqs) = <<>>
    BY <1>1 DEF FlattenSeq
  <2> DEFINE f == [i \in 0..Len(seqs) |-> <<>>]
  <2>2. Flattened(f, seqs, S)
    BY <1>1, <2>1 DEF Flattened
  <2> QED BY <2>2
<1>2. CASE Len(seqs) # 0
  <2> DEFINE g == CHOOSE f : FlattenOf(f, seqs, Len(seqs))
  <2>1. FlattenOf(g, seqs, Len(seqs))
    <3>1. PICK len \in Nat : len = Len(seqs)
      OBVIOUS
    <3>2. \E f : FlattenOf(f, seqs, len)
      BY FlattenExists
    <3> QED BY <3>1, <3>2
  <2>2. FlattenSeq(seqs) = g[Len(seqs)]
    BY <1>2 DEF FlattenSeq, FlattenOf
  <2> HIDE DEF g
  <2>3. \A i \in 1..Len(seqs) : g[i] = IF i = 1 THEN seqs[i] ELSE g[i - 1] \o seqs[i]
    <3>1. g = [i \in 1..Len(seqs) |-> IF i = 1 THEN seqs[i] ELSE g[i - 1] \o seqs[i]]
      BY <2>1 DEF FlattenOf
    <3> QED BY <3>1
  <2> DEFINE f == [i \in 0..Len(seqs) |-> IF i = 0 THEN <<>> ELSE g[i]]
             Typed == {k \in Nat : k <= Len(seqs) => f[k] \in Seq(S)}
  <2>4. \A i \in 1..Len(seqs) : seqs[i] \in Seq(S)
    OBVIOUS
  <2>5. f[0] = <<>> /\ \A i \in 1..Len(seqs) : f[i] = g[i] /\ (i # 1 => f[i - 1] = g[i - 1])
    OBVIOUS
  <2>6. DOMAIN f = 0..Len(seqs) /\ f = [i \in 0..Len(seqs) |-> f[i]]
    OBVIOUS
  <2> HIDE DEF f
  <2>7. \A i \in 1..Len(seqs) : f[i] = IF i = 1 THEN seqs[i] ELSE f[i - 1] \o seqs[i]
    BY <2>3, <2>5
  <2>8. 0 \in Typed
    <3>1. <<>> \in Seq(S)
      OBVIOUS
    <3> QED BY <2>5, <3>1
  <2>9. ASSUME NEW k \in Nat, k \in Typed PROVE k + 1 \in Typed
    <3> SUFFICES ASSUME k + 1 <= Len(seqs) PROVE f[k + 1] \in Seq(S)
      OBVIOUS
    <3>1. k + 1 \in 1..Len(seqs) /\ (k + 1) - 1 = k /\ f[k] \in Seq(S)
      BY <2>9
    <3>2. seqs[k + 1] \in Seq(S) /\ f[k] \o seqs[k + 1] \in Seq(S)
      BY <2>4, <3>1
    <3>3. f[k + 1] = seqs[k + 1] \/ f[k + 1] = f[k] \o seqs[k + 1]
      BY <2>7, <3>1
    <3> QED BY <3>2, <3>3
  <2>10. \A k \in 0..Len(seqs) : f[k] \in Seq(S)
    <3> HIDE DEF Typed
    <3>1. Nat \subseteq Typed
      BY <2>8, <2>9, EveryNumber
    <3> QED BY <3>1 DEF Typed
  <2>11. \A i \in 1..Len(seqs) : f[i] = f[i - 1] \o seqs[i]
    <3>1. ASSUME 1 \in 1..Len(seqs) PROVE f[1] = f[0] \o seqs[1]
      <4>1. seqs[1] \in Seq(S) /\ f[1] = seqs[1]
        BY <2>4, <2>7, <3>1
      <4>2. <<>> \o seqs[1] = seqs[1]
        BY <4>1
      <4> QED BY <2>5, <4>1, <4>2
    <3>2. \A i \in 1..Len(seqs) : i = 1 => i - 1 = 0
      OBVIOUS
    <3> QED BY <2>7, <3>1, <3>2
  <2>12. Flattened(f, seqs, S)
    <3>1. f \in [0..Len(seqs) -> Seq(S)]
      BY <2>6, <2>10
    <3>2. FlattenSeq(seqs) = f[Len(seqs)]
      BY <1>2, <2>2, <2>5
    <3> QED BY <2>5, <2>11, <3>1, <3>2 DEF Flattened
  <2> QED BY <2>12
<1> QED BY <1>1, <1>2

\* The sequences lie one behind the other in t, where the first m of them end at ends.
InRows(t, seqs, ends, m) ==
  \A i \in 1..m : \A k \in 1..Len(seqs[i]) :
    ends[i - 1] + k \in 1..ends[m] /\ t[ends[i - 1] + k] = seqs[i][k]

\* How far each of the sequences reaches.
EndsOf(ends, seqs) ==
  /\ ends \in [0..Len(seqs) -> Nat]
  /\ ends[0] = 0
  /\ \A i \in 1..Len(seqs) : ends[i] = ends[i - 1] + Len(seqs[i])

\* Where FlattenSeq puts each element.
LEMMA FlattenRows ==
  ASSUME NEW S, NEW seqs \in Seq(Seq(S)), NEW ends, EndsOf(ends, seqs)
  PROVE  /\ FlattenSeq(seqs) \in Seq(S)
         /\ Len(FlattenSeq(seqs)) = ends[Len(seqs)]
         /\ InRows(FlattenSeq(seqs), seqs, ends, Len(seqs))
<1>1. PICK f : Flattened(f, seqs, S)
  BY FlattenFacts
<1>2. PICK len \in Nat : len = Len(seqs)
  OBVIOUS
<1>3. /\ \A i \in 0..len : f[i] \in Seq(S) /\ ends[i] \in Nat
      /\ f[0] = <<>> /\ ends[0] = 0 /\ FlattenSeq(seqs) = f[len]
      /\ \A i \in 1..len : /\ f[i] = f[i - 1] \o seqs[i]
                           /\ ends[i] = ends[i - 1] + Len(seqs[i])
                           /\ seqs[i] \in Seq(S)
  <2>1. \A i \in 1..len : seqs[i] \in Seq(S)
    BY <1>2
  <2>2. f \in [0..len -> Seq(S)] /\ ends \in [0..len -> Nat]
    BY <1>1, <1>2 DEF Flattened, EndsOf
  <2>3. /\ f[0] = <<>> /\ ends[0] = 0 /\ FlattenSeq(seqs) = f[len]
        /\ \A i \in 1..len : f[i] = f[i - 1] \o seqs[i] /\ ends[i] = ends[i - 1] + Len(seqs[i])
    BY <1>1, <1>2 DEF Flattened, EndsOf
  <2> QED BY <2>1, <2>2, <2>3
<1> DEFINE Right == {m \in Nat : m <= len => Len(f[m]) = ends[m] /\ InRows(f[m], seqs, ends, m)}
<1>4. 0 \in Right
  <2>1. Len(f[0]) = ends[0]
    BY <1>3
  <2> QED BY <2>1 DEF InRows
<1>5. ASSUME NEW m \in Nat, m \in Right PROVE m + 1 \in Right
  <2> SUFFICES ASSUME m + 1 <= len
               PROVE  Len(f[m + 1]) = ends[m + 1] /\ InRows(f[m + 1], seqs, ends, m + 1)
    OBVIOUS
  <2>1. Len(f[m]) = ends[m] /\ InRows(f[m], seqs, ends, m)
    BY <1>5
  <2>2. m + 1 \in 1..len /\ m \in 0..len /\ (m + 1) - 1 = m
    OBVIOUS
  <2>3. PICK a \in Seq(S), b \in Seq(S), n \in Nat :
          /\ a = f[m] /\ b = seqs[m + 1] /\ n = ends[m]
          /\ f[m + 1] = a \o b /\ ends[m + 1] = n + Len(b)
    BY <1>3, <2>2
  <2>4. Len(a) = n
    BY <2>1, <2>3
  <2>5. Len(a \o b) = n + Len(b)
    <3>1. Len(a \o b) = Len(a) + Len(b)
      OBVIOUS
    <3> QED BY <2>4, <3>1
  <2>6. ASSUME NEW i \in 1..(m + 1), NEW k \in 1..Len(seqs[i])
        PROVE  /\ ends[i - 1] + k \in 1..ends[m + 1]
               /\ f[m + 1][ends[i - 1] + k] = seqs[i][k]
    <3>1. CASE i = m + 1
      <4>1. ends[i - 1] = n /\ seqs[i] = b /\ k \in 1..Len(b)
        BY <2>2, <2>3, <2>6, <3>1
      <4>2. n + k \in 1..(n + Len(b)) /\ (a \o b)[n + k] = b[k]
        BY <2>4, <4>1
      <4> QED BY <2>3, <4>1, <4>2
    <3>2. CASE i # m + 1
      <4>1. i \in 1..m
        BY <3>2
      <4>2. ends[i - 1] + k \in 1..n /\ a[ends[i - 1] + k] = seqs[i][k]
        BY <2>1, <2>3, <2>6, <4>1 DEF InRows
      <4>3. PICK p \in 1..n : p = ends[i - 1] + k
        BY <4>2
      <4>4. p \in 1..(n + Len(b)) /\ (a \o b)[p] = a[p]
        BY <2>4
      <4> QED BY <2>3, <4>2, <4>3, <4>4
    <3> QED BY <3>1, <3>2
  <2> QED BY <2>3, <2>5, <2>6 DEF InRows
<1> HIDE DEF Right
<1>6. len \in Right
  BY <1>4, <1>5, EveryNumber
<1>7. Len(f[len]) = ends[len] /\ InRows(f[len], seqs, ends, len)
  BY <1>6 DEF Right
<1> QED BY <1>2, <1>3, <1>7

-------------------------------------------------------------------------------
(* Places of a stream.                                                      *)

\* The bytes are what the stream has from a position on.
StandsAt(stream, at, bytes) ==
  /\ at \in Nat \ {0}
  /\ at + Len(bytes) - 1 <= Len(stream)
  /\ \A k \in 1..Len(bytes) : stream[at + k - 1] = bytes[k]

\* Two parts, the second behind the first.
LEMMA StandsBehind ==
  ASSUME NEW S, NEW a \in Seq(S), NEW b \in Seq(S), NEW stream \in Seq(S), NEW at,
         StandsAt(stream, at, a \o b)
  PROVE  StandsAt(stream, at, a) /\ StandsAt(stream, at + Len(a), b)
<1>1. PICK m \in Nat, n \in Nat, len \in Nat : m = Len(a) /\ n = Len(b) /\ len = Len(stream)
  OBVIOUS
<1>2. Len(a \o b) = m + n
  BY <1>1
<1>3. /\ at \in Nat \ {0} /\ at + (m + n) - 1 <= len
      /\ \A k \in 1..(m + n) : stream[at + k - 1] = (a \o b)[k]
  BY <1>1, <1>2 DEF StandsAt
<1>4. \A k \in 1..m : k \in 1..(m + n) /\ (a \o b)[k] = a[k]
  BY <1>1
<1>5. StandsAt(stream, at, a)
  <2>1. at + m - 1 <= len
    BY <1>3
  <2> QED BY <1>1, <1>3, <1>4, <2>1 DEF StandsAt
<1>6. \A k \in 1..n : stream[(at + m) + k - 1] = b[k]
  <2> TAKE k \in 1..n
  <2>1. m + k \in 1..(m + n) /\ (a \o b)[m + k] = b[k] /\ at + (m + k) - 1 = (at + m) + k - 1
    BY <1>1, <1>3
  <2>2. stream[at + (m + k) - 1] = (a \o b)[m + k]
    BY <1>3, <2>1
  <2> QED BY <2>1, <2>2
<1>7. at + m \in Nat \ {0} /\ (at + m) + n - 1 <= len
  BY <1>3
<1> QED BY <1>1, <1>5, <1>6, <1>7 DEF StandsAt

\* Many parts.
LEMMA StandsInRows ==
  ASSUME NEW S, NEW seqs \in Seq(Seq(S)), NEW ends, EndsOf(ends, seqs),
         NEW stream \in Seq(S), NEW at, StandsAt(stream, at, FlattenSeq(seqs)),
         NEW i \in 1..Len(seqs)
  PROVE  StandsAt(stream, at + ends[i - 1], seqs[i])
<1>1. PICK len \in Nat : len = Len(seqs)
  OBVIOUS
<1>2. /\ FlattenSeq(seqs) \in Seq(S) /\ Len(FlattenSeq(seqs)) = ends[len]
      /\ InRows(FlattenSeq(seqs), seqs, ends, len)
  BY <1>1, FlattenRows
<1>3. seqs[i] \in Seq(S) /\ i \in 1..len /\ i \in Nat
  BY <1>1
<1>4. PICK n \in Nat, e \in Nat, p \in Nat :
        n = Len(seqs[i]) /\ e = ends[len] /\ p = ends[i - 1] /\ p + n <= e
  <2>1. ends \in [0..len -> Nat] /\ i - 1 \in 0..len /\ len \in 0..len /\ Len(seqs[i]) \in Nat
    BY <1>1, <1>3 DEF EndsOf
  <2>2. ends[len] \in Nat /\ ends[i - 1] \in Nat
    BY <2>1
  <2>3. CASE Len(seqs[i]) = 0
    <3> DEFINE Grown == {m \in Nat : i - 1 + m <= len => ends[i - 1] <= ends[i - 1 + m]}
    <3>1. 0 \in Grown
      BY <1>3, <2>2
    <3>2. ASSUME NEW m \in Nat, m \in Grown PROVE m + 1 \in Grown
      <4> SUFFICES ASSUME i - 1 + (m + 1) <= len
                   PROVE  ends[i - 1] <= ends[i - 1 + (m + 1)]
        OBVIOUS
      <4>1. PICK j \in 1..len : j = i - 1 + (m + 1)
        BY <1>3
      <4>2. j - 1 = i - 1 + m /\ j - 1 \in 0..len /\ j \in 0..len
        BY <1>3, <4>1
      <4>3. ends[i - 1] <= ends[j - 1]
        BY <3>2, <4>2
      <4>4. ends[j] = ends[j - 1] + Len(seqs[j]) /\ seqs[j] \in Seq(S)
        BY <1>1 DEF EndsOf
      <4>5. ends[j] \in Nat /\ ends[j - 1] \in Nat /\ Len(seqs[j]) \in Nat
        BY <2>1, <4>2, <4>4
      <4> QED BY <2>2, <4>1, <4>3, <4>4, <4>5, SMTT(30)
    <3> HIDE DEF Grown
    <3>3. PICK m \in Nat : i - 1 + m = len
      <4>1. len - (i - 1) \in Nat /\ i - 1 + (len - (i - 1)) = len
        BY <1>3
      <4> QED BY <4>1
    <3>4. m \in Grown
      BY <3>1, <3>2, EveryNumber
    <3>5. ends[i - 1] <= ends[i - 1 + m]
      <4>1. i - 1 + m <= len
        BY <3>3
      <4> QED BY <3>4, <4>1 DEF Grown
    <3>6. ends[i - 1] <= ends[len]
      BY <3>3, <3>5
    <3>7. PICK x \in Nat, y \in Nat : x = ends[i - 1] /\ y = ends[len]
      BY <2>2
    <3>8. x + 0 <= y
      BY <3>6, <3>7
    <3>9. Len(seqs[i]) = 0 /\ 0 \in Nat
      BY <2>3
    <3> QED BY <3>7, <3>8, <3>9, Zenon
  <2>4. CASE Len(seqs[i]) # 0
    <3>1. Len(seqs[i]) \in 1..Len(seqs[i])
      BY <2>1, <2>4
    <3>2. ends[i - 1] + Len(seqs[i]) \in 1..ends[len]
      BY <1>2, <1>3, <3>1 DEF InRows
    <3> QED BY <2>1, <2>2, <3>2
  <2> QED BY <2>1, <2>3, <2>4
<1>5. /\ at \in Nat \ {0} /\ at + e - 1 <= Len(stream)
      /\ \A k \in 1..e : stream[at + k - 1] = FlattenSeq(seqs)[k]
  BY <1>2, <1>4 DEF StandsAt
<1>6. \A k \in 1..n : stream[(at + p) + k - 1] = seqs[i][k]
  <2> TAKE k \in 1..n
  <2>1. p + k \in 1..e /\ FlattenSeq(seqs)[p + k] = seqs[i][k]
    BY <1>2, <1>3, <1>4 DEF InRows
  <2>2. PICK a \in Nat, j \in 1..e : a = at /\ j = p + k
    BY <1>5, <2>1
  <2>3. stream[a + j - 1] = FlattenSeq(seqs)[j]
    BY <1>5, <2>2
  <2>4. a + j - 1 = (a + p) + k - 1
    BY <2>2
  <2> QED BY <2>1, <2>2, <2>3, <2>4
<1>7. at + p \in Nat \ {0} /\ (at + p) + n - 1 <= Len(stream)
  <2>1. PICK len1 \in Nat, a \in Nat \ {0} :
          len1 = Len(stream) /\ a = at /\ a + e - 1 <= len1
    BY <1>5
  <2>2. a + p \in Nat \ {0} /\ (a + p) + n - 1 <= len1
    <3>1. n \in Nat /\ e \in Nat /\ p \in Nat /\ p + n <= e
      BY <1>4
    <3>2. len1 \in Nat /\ a \in Nat \ {0} /\ a + e - 1 <= len1
      BY <2>1
    <3> QED BY ONLY <3>1, <3>2
  <2> QED BY <2>1, <2>2
<1> QED BY <1>4, <1>6, <1>7 DEF StandsAt

================================================================================
